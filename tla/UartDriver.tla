----------------------------- MODULE UartDriver -----------------------------
(***************************************************************************)
(* platform_uart_stm32u5.c, without a caller.  API calls run in task       *)
(* context, one HAL call per step, and any interrupt may come between two  *)
(* steps; interrupt handlers run between task steps, one at a time, because*)
(* all of them have NVIC priority 6.  Modules that EXTEND this one say who *)
(* calls the API and what the callbacks do.                                *)
(***************************************************************************)
EXTENDS Usart

VARIABLES
  uart,  \* the fields of struct platform_uart the functions read and write
  hw,    \* peripheral, DMA channel and HAL handle, see Usart
  isr,   \* bytes_received while complete_rx_until_timeout runs, or NotRunning
  call,  \* the API call in progress and the status the last one returned
  cb     \* the callback the last step made

driverVars == <<uart, hw, isr, call, cb>>

NotRunning == -1

platform_uart ==
  [rx_dma_length : 0..MaxLength, rx_until_timeout_active : BOOLEAN, initialized : BOOLEAN]

platform_status == {"OK", "BUSY", "TIMEOUT", "ERROR", "INVALID_ARG"}

Op == {"until_timeout", "async", "transmit", "receive"}

Returned == [op : {"none"}, len : {0}, pc : {"idle"}, ret : platform_status]

InProgress ==
  [op  : Op,
   len : Length,
   pc  : {"enable", "disable", "arm", "start", "undo", "sending", "polling"},
   ret : platform_status]

Call == Returned \cup InProgress

Callback == [kind : {"none", "rx", "tx", "error"}, n : Int]

NoCallback == [kind |-> "none", n |-> 0]

Return(status) == [op |-> "none", len |-> 0, pc |-> "idle", ret |-> status]

DriverInit ==
  /\ uart = [rx_dma_length |-> 0, rx_until_timeout_active |-> FALSE, initialized |-> FALSE]
  /\ hw = HwReset
  /\ isr = NotRunning
  /\ call = Return("OK")
  /\ cb = NoCallback

DriverTypeOK ==
  /\ uart \in platform_uart
  /\ hw \in HwState
  /\ isr \in NotRunning..MaxLength
  /\ call \in Call
  /\ cb \in Callback

-----------------------------------------------------------------------------
(* API calls.  A task runs only when no handler does.                      *)

TaskStep == isr = NotRunning /\ cb' = NoCallback /\ UNCHANGED isr

Idle == call.pc = "idle"

Goto(pc) == call' = [call EXCEPT !.pc = pc]

\* Every transfer function checks its length before it does anything.
Checked(n) == IF n = 0 THEN "OK" ELSE "INVALID_ARG"

\* Mistake: length > UINT16_MAX is let through.
EnterWithoutLimit(op, n, pc, accepted) ==
  /\ TaskStep /\ Idle
  /\ IF n > 0
       THEN /\ call' = [op |-> op, len |-> n, pc |-> pc, ret |-> "OK"]
            /\ uart' = accepted
       ELSE call' = Return(Checked(n)) /\ UNCHANGED uart

Enter(op, n, pc, accepted) ==
  /\ TaskStep /\ Idle
  /\ IF n \in Length
       THEN /\ call' = [op |-> op, len |-> n, pc |-> pc, ret |-> "OK"]
            /\ uart' = accepted
       ELSE call' = Return(Checked(n)) /\ UNCHANGED uart

platform_uart_receive_until_timeout_async(n) ==
  /\ Enter("until_timeout", n, "enable",
           [uart EXCEPT !.rx_dma_length = n, !.rx_until_timeout_active = TRUE])
  /\ UNCHANGED hw

EnableTimeout ==
  /\ TaskStep /\ call.pc = "enable"
  /\ hw' = HAL_UART_EnableReceiverTimeout(hw)
  /\ IF hw.gState = "READY"
       THEN Goto("arm") /\ UNCHANGED uart
       ELSE /\ call' = Return("BUSY")
            /\ uart' = [uart EXCEPT !.rx_until_timeout_active = FALSE]

\* Mistake: rx_dma_length keeps the length of the receive before.
ReceiveAsyncKeepsLength(n) ==
  /\ Enter("async", n, "disable", [uart EXCEPT !.rx_until_timeout_active = FALSE])
  /\ UNCHANGED hw

platform_uart_receive_async(n) ==
  /\ Enter("async", n, "disable",
           [uart EXCEPT !.rx_dma_length = n, !.rx_until_timeout_active = FALSE])
  /\ UNCHANGED hw

DisableTimeout ==
  /\ TaskStep /\ call.pc = "disable"
  /\ hw' = HAL_UART_DisableReceiverTimeout(hw)
  /\ Goto("arm")
  /\ UNCHANGED uart

\* receive_until_timeout_async undoes what it did, in three statements; the
\* first is part of the step that saw the refusal.
ReceiveRefused(status) ==
  IF call.op = "until_timeout"
    THEN /\ call' = [call EXCEPT !.pc = "undo", !.ret = status]
         /\ uart' = [uart EXCEPT !.rx_until_timeout_active = FALSE]
    ELSE call' = Return(status) /\ UNCHANGED uart

UndoTimeout ==
  /\ TaskStep /\ call.pc = "undo"
  /\ hw' = HAL_UART_DisableReceiverTimeout([hw EXCEPT !.RTOIE = FALSE])
  /\ call' = Return(call.ret)
  /\ UNCHANGED uart

\* HAL_UART_Receive_DMA, as far as the timeout interrupt.
ArmReceive ==
  /\ TaskStep /\ call.pc = "arm"
  /\ IF hw.RxState = "READY"
       THEN hw' = Receive_DMA_Arm(hw) /\ Goto("start") /\ UNCHANGED uart
       ELSE UNCHANGED hw /\ ReceiveRefused("BUSY")

\* The rest of it: the DMA channel may still refuse to start.
StartReceive ==
  /\ TaskStep /\ call.pc = "start"
  /\ \/ /\ hw' = Receive_DMA_Start(hw, call.len)
        /\ call' = Return("OK") /\ UNCHANGED uart
     \/ UNCHANGED hw /\ ReceiveRefused("ERROR")

\* The blocking functions: the HAL refuses with HAL_BUSY when their side is
\* not ready, else the call lasts until the transfer ends or times out.
EnterBlocking(op, n, pc, ready, started) ==
  /\ TaskStep /\ Idle /\ UNCHANGED uart
  /\ IF n \in Length /\ ready
       THEN call' = [op |-> op, len |-> n, pc |-> pc, ret |-> "OK"] /\ hw' = started
       ELSE call' = Return(IF n \in Length THEN "BUSY" ELSE Checked(n)) /\ UNCHANGED hw

platform_uart_transmit(n) ==
  EnterBlocking("transmit", n, "sending", hw.gState = "READY", Transmit_Start(hw, FALSE))

FinishTransmit ==
  /\ TaskStep /\ call.pc = "sending"
  /\ hw' = [hw EXCEPT !.gState = "READY"]
  /\ \E status \in {"OK", "TIMEOUT"} : call' = Return(status)
  /\ UNCHANGED uart

platform_uart_receive(n) ==
  EnterBlocking("receive", n, "polling", hw.RxState = "READY", [hw EXCEPT !.RxState = "BUSY_RX"])

PollByte ==
  /\ TaskStep /\ call.pc = "polling" /\ hw.RDR # NoByte
  /\ IF call.len = 1
       THEN call' = Return("OK") /\ hw' = [hw EXCEPT !.RDR = NoByte, !.RxState = "READY"]
       ELSE call' = [call EXCEPT !.len = @ - 1] /\ hw' = [hw EXCEPT !.RDR = NoByte]
  /\ UNCHANGED uart

\* Out of time or silence, or an overrun found by the polling loop.
FailReceive ==
  /\ TaskStep /\ call.pc = "polling"
  /\ \/ /\ hw' = [hw EXCEPT !.RxState = "READY", !.RTOF = FALSE]
        /\ call' = Return("TIMEOUT")
     \/ /\ hw.ORE
        /\ hw' = [hw EXCEPT !.RxState = "READY", !.ORE = FALSE]
        /\ call' = Return("ERROR")
  /\ UNCHANGED uart

platform_uart_transmit_async(n) ==
  /\ TaskStep /\ Idle /\ UNCHANGED uart
  /\ IF n \in Length /\ hw.gState = "READY"
       THEN hw' = Transmit_Start(hw, TRUE) /\ call' = Return("OK")
       ELSE UNCHANGED hw /\ call' = Return(IF n \in Length THEN "BUSY" ELSE Checked(n))

\* The three aborts are one HAL call each, and leave the driver's own fields.
AbortCall(after, timedOut) ==
  /\ TaskStep /\ Idle /\ UNCHANGED uart
  /\ \/ hw' = after /\ call' = Return("OK")
     \/ hw' \in timedOut /\ call' = Return("TIMEOUT")

platform_uart_abort ==
  AbortCall(HAL_UART_AbortTransmit(HAL_UART_AbortReceive(hw)), Abort_TimedOut(hw))
platform_uart_abort_transmit == AbortCall(HAL_UART_AbortTransmit(hw), AbortTransmit_TimedOut(hw))
platform_uart_abort_receive == AbortCall(HAL_UART_AbortReceive(hw), AbortReceive_TimedOut(hw))

\* Initialising clears the handle, not the driver's fields.
platform_uart_init ==
  /\ TaskStep /\ Idle
  /\ \/ /\ hw' = HAL_UART_Init(hw)
        /\ uart' = [uart EXCEPT !.initialized = TRUE] /\ call' = Return("OK")
     \/ /\ hw' = [hw EXCEPT !.gState = "RESET", !.RxState = "RESET"]
        /\ UNCHANGED uart /\ call' = Return("ERROR")

platform_uart_deinit ==
  /\ TaskStep /\ Idle
  /\ uart' = [uart EXCEPT !.initialized = FALSE]
  /\ hw' = HAL_UART_DeInit(hw)
  /\ call' = Return("OK")

-----------------------------------------------------------------------------
(* Interrupt handlers.  When two are pending, the DMA channel goes first.  *)

IsrStep == isr = NotRunning /\ UNCHANGED call

\* What complete_rx_until_timeout and HAL_UART_RxCpltCallback both do to the
\* interrupt and its flag.
\* Mistake: the flag is not cleared.
CloseTimeoutKeepsFlag(h) == [h EXCEPT !.RTOIE = FALSE]

CloseTimeout(h) == [h EXCEPT !.RTOIE = FALSE, !.RTOF = FALSE]

RtoPending == uart.rx_until_timeout_active /\ hw.RTOF /\ hw.RTOIE

\* The DMA counter keeps the value of the last transfer until the next one
\* is started, so it can exceed the length of the request.
\* Mistake: one byte too many.
BytesReceivedAndOne == uart.rx_dma_length - hw.remaining + 1

BytesReceived ==
  IF hw.remaining > uart.rx_dma_length THEN uart.rx_dma_length
  ELSE uart.rx_dma_length - hw.remaining

\* complete_rx_until_timeout, up to the two HAL calls ...
UsartRtoIrq ==
  /\ IsrStep /\ ~hw.TC /\ RtoPending
  /\ isr' = BytesReceived
  /\ uart' = [uart EXCEPT !.rx_until_timeout_active = FALSE]
  /\ hw' = CloseTimeout(hw)
  /\ cb' = NoCallback

\* Mistake: the DMA channel is not stopped.
CompleteRxWithoutAbort ==
  /\ isr # NotRunning
  /\ hw' = HAL_UART_DisableReceiverTimeout(hw)
  /\ cb' = [kind |-> "rx", n |-> isr]
  /\ isr' = NotRunning
  /\ UNCHANGED <<uart, call>>

\* ... and from there to its end.  Bytes may arrive in between.
CompleteRx ==
  /\ isr # NotRunning
  /\ hw' = HAL_UART_DisableReceiverTimeout(HAL_UART_AbortReceive(hw))
  /\ cb' = [kind |-> "rx", n |-> isr]
  /\ isr' = NotRunning
  /\ UNCHANGED <<uart, call>>

\* HAL_UART_IRQHandler on an error, up to HAL_UART_ErrorCallback.
UsartErrorIrq ==
  /\ IsrStep /\ ~hw.TC /\ ~RtoPending /\ HalErrorPending(hw)
  /\ hw' = HalEndRxOnError(hw)
  /\ cb' = [kind |-> "error", n |-> 0]
  /\ UNCHANGED <<uart, isr>>

\* HAL_UART_IRQHandler at the end of a DMA transmit, up to
\* HAL_UART_TxCpltCallback.
AfterTxCplt(h) == [h EXCEPT !.gState = "READY", !.txDma = FALSE]

UsartTxIrq ==
  /\ IsrStep /\ ~hw.TC /\ ~RtoPending /\ ~HalErrorPending(hw) /\ hw.txDma
  /\ hw' = AfterTxCplt(hw)
  /\ cb' = [kind |-> "tx", n |-> 0]
  /\ UNCHANGED <<uart, isr>>

\* GPDMA1_Channel1_IRQHandler, up to the callback of HAL_UART_RxCpltCallback.
\* Mistake: a full buffer leaves the timeout as it was.
AfterRxCpltKeepsTimeout(h) == HalDmaRxComplete(h)

AfterRxCplt(h) ==
  IF uart.rx_until_timeout_active
    THEN HAL_UART_DisableReceiverTimeout(CloseTimeout(HalDmaRxComplete(h)))
    ELSE HalDmaRxComplete(h)

GPDMA1_Channel1_IRQHandler ==
  /\ IsrStep /\ hw.TC
  /\ hw' = AfterRxCplt(hw)
  /\ uart' = [uart EXCEPT !.rx_until_timeout_active = FALSE]
  /\ cb' = [kind |-> "rx", n |-> uart.rx_dma_length]
  /\ UNCHANGED isr

DriverInterrupt ==
  \/ UsartRtoIrq \/ CompleteRx \/ UsartErrorIrq \/ UsartTxIrq
  \/ GPDMA1_Channel1_IRQHandler

-----------------------------------------------------------------------------
(* The line and the DMA channel, whatever the processor is doing.          *)

HardwareStep == cb' = NoCallback /\ UNCHANGED <<uart, isr, call>>

\* The DMA channel takes a byte before the next one is complete.
ByteArrives(b) ==
  /\ hw.gState # "RESET" /\ ~DmaRequest(hw)
  /\ hw' = ReceiveChar(hw, b)
  /\ HardwareStep

DmaMovesByte == DmaRequest(hw) /\ hw' = DmaStore(hw) /\ HardwareStep

\* A handler or a bus grant takes a few microseconds, a timeout of 30 bits 260.
LineFallsSilent ==
  /\ hw.counting /\ hw.RTOEN /\ isr = NotRunning /\ ~DmaRequest(hw)
  /\ hw' = SilenceElapsed(hw)
  /\ HardwareStep
=============================================================================
