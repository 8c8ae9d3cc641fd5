------------------------- MODULE UartDriver_proofs --------------------------
(***************************************************************************)
(* Lemmas about the operators and the actions of the driver, whoever calls *)
(* it: what the proofs about UartClient, BareEcho and FreeRtosEcho share.  *)
(***************************************************************************)
EXTENDS UartDriver, TLAPS

-----------------------------------------------------------------------------
(* Typing of the HAL operators.                                            *)

\* The state after reset is a state.
LEMMA ResetTyped == HwReset \in HwState
BY MaxLengthAssumption DEF HwReset, HwState, NoByte

\* The HAL functions that the API calls use take a state to a state.
LEMMA HalCallsTyped ==
  ASSUME NEW h \in HwState
  PROVE  /\ HAL_UART_Init(h) \in HwState
         /\ HAL_UART_DeInit(h) \in HwState
         /\ HAL_UART_EnableReceiverTimeout(h) \in HwState
         /\ HAL_UART_DisableReceiverTimeout(h) \in HwState
         /\ Receive_DMA_Arm(h) \in HwState
         /\ HAL_UART_AbortReceive(h) \in HwState
         /\ HAL_UART_AbortTransmit(h) \in HwState
         /\ \A n \in Length : Receive_DMA_Start(h, n) \in HwState
         /\ \A dma \in BOOLEAN : Transmit_Start(h, dma) \in HwState
<1>1. HAL_UART_Init(h) \in HwState
  BY DEF HAL_UART_Init, HwState, NoByte
<1>2. HAL_UART_DeInit(h) \in HwState
  BY DEF HAL_UART_DeInit, HwReset, HwState, NoByte
<1>3. HAL_UART_EnableReceiverTimeout(h) \in HwState
  <2>1. [h EXCEPT !.RTOEN = TRUE] \in HwState
    BY DEF HwState
  <2> QED BY <2>1 DEF HAL_UART_EnableReceiverTimeout
<1>4. HAL_UART_DisableReceiverTimeout(h) \in HwState
  <2>1. [h EXCEPT !.RTOEN = FALSE, !.counting = FALSE] \in HwState
    BY DEF HwState
  <2> QED BY <2>1 DEF HAL_UART_DisableReceiverTimeout
<1>5. Receive_DMA_Arm(h) \in HwState
  BY DEF Receive_DMA_Arm, HwState
<1>6. ASSUME NEW n \in Length PROVE Receive_DMA_Start(h, n) \in HwState
  <2>1. n \in 0..MaxLength
    BY MaxLengthAssumption DEF Length
  <2> QED BY <2>1 DEF Receive_DMA_Start, HwState
<1>7. HAL_UART_AbortReceive(h) \in HwState
  BY DEF HAL_UART_AbortReceive, HwState, NoByte
<1>8. HAL_UART_AbortTransmit(h) \in HwState
  BY DEF HAL_UART_AbortTransmit, HwState
<1>9. ASSUME NEW dma \in BOOLEAN PROVE Transmit_Start(h, dma) \in HwState
  BY DEF Transmit_Start, HwState
<1> QED BY <1>1, <1>2, <1>3, <1>4, <1>5, <1>6, <1>7, <1>8, <1>9

\* So do the interrupts and the hardware.
LEMMA EventsTyped ==
  ASSUME NEW h \in HwState
  PROVE  /\ HalEndRxOnError(h) \in HwState
         /\ HalDmaRxComplete(h) \in HwState
         /\ CloseTimeout(h) \in HwState
         /\ AfterTxCplt(h) \in HwState
         /\ \A b \in Byte : ReceiveChar(h, b) \in HwState
         /\ DmaRequest(h) => DmaStore(h) \in HwState
         /\ SilenceElapsed(h) \in HwState
<1>1. HalEndRxOnError(h) \in HwState
  <2>1. ASSUME NEW o \in BOOLEAN, NEW f \in BOOLEAN
        PROVE  [h EXCEPT !.RxState = "READY", !.EIE = FALSE, !.DMAR = FALSE, !.TC = FALSE,
                         !.ORE = o, !.RTOF = f] \in HwState
    BY DEF HwState
  <2>2. (IF h.EIE THEN FALSE ELSE h.ORE) \in BOOLEAN /\ (IF h.RTOIE THEN FALSE ELSE h.RTOF) \in BOOLEAN
    BY DEF HwState
  <2> QED BY <2>1, <2>2, Zenon DEF HalEndRxOnError
<1>2. HalDmaRxComplete(h) \in HwState
  BY DEF HalDmaRxComplete, HwState
<1>3. CloseTimeout(h) \in HwState
  BY DEF CloseTimeout, HwState
<1>4. AfterTxCplt(h) \in HwState
  BY DEF AfterTxCplt, HwState
<1>5. ASSUME NEW b \in Byte PROVE ReceiveChar(h, b) \in HwState
  BY DEF ReceiveChar, HwState, NoByte
<1>6. DmaRequest(h) => DmaStore(h) \in HwState
  <2>1. ASSUME NEW m \in 0..MaxLength, NEW c \in BOOLEAN
        PROVE  [h EXCEPT !.RDR = NoByte, !.remaining = m, !.TC = c] \in HwState
    BY DEF HwState
  <2>2. DmaRequest(h) => h.remaining - 1 \in 0..MaxLength
    BY MaxLengthAssumption DEF DmaRequest, HwState
  <2>3. (h.remaining = 1) \in BOOLEAN
    OBVIOUS
  <2> QED BY <2>1, <2>2, <2>3, Zenon DEF DmaStore
<1>7. SilenceElapsed(h) \in HwState
  BY DEF SilenceElapsed, HwState
<1> QED BY <1>1, <1>2, <1>3, <1>4, <1>5, <1>6, <1>7

-----------------------------------------------------------------------------
(* What the HAL operators change, field by field.                          *)

SameTimeout(g, h) ==
  g.RTOEN = h.RTOEN /\ g.RTOIE = h.RTOIE /\ g.RTOF = h.RTOF /\ g.counting = h.counting

SameTransfer(g, h) ==
  /\ g.RxState = h.RxState /\ g.EIE = h.EIE /\ g.DMAR = h.DMAR /\ g.TC = h.TC
  /\ g.remaining = h.remaining /\ g.size = h.size

SameLine(g, h) == g.ORE = h.ORE /\ g.RDR = h.RDR

SameTransmit(g, h) == g.gState = h.gState /\ g.txDma = h.txDma

\* The transfer goes on, perhaps without its error interrupt.
TransferGoesOn(g, h) ==
  /\ g.RxState = h.RxState /\ g.DMAR = h.DMAR /\ g.TC = h.TC
  /\ g.remaining = h.remaining /\ g.size = h.size
  /\ g.EIE => h.EIE

\* The receive channel is stopped; its counter keeps the last value.
TransferOver(g, h) ==
  /\ g.RxState = "READY" /\ ~g.EIE /\ ~g.DMAR /\ ~g.TC
  /\ g.remaining = h.remaining /\ g.size = h.size

\* Initialising makes the handle ready and resets the status flags.
LEMMA InitEffect ==
  ASSUME NEW h \in HwState, NEW g, g = HAL_UART_Init(h)
  PROVE  /\ g.gState = "READY" /\ g.RxState = "READY"
         /\ ~g.RTOF /\ ~g.counting /\ ~g.ORE /\ g.RDR = NoByte
         /\ g.RTOEN = h.RTOEN /\ g.RTOIE = h.RTOIE /\ g.EIE = h.EIE /\ g.DMAR = h.DMAR
         /\ g.TC = h.TC /\ g.remaining = h.remaining /\ g.size = h.size /\ g.txDma = h.txDma
BY DEF HAL_UART_Init, HwState

\* Deinitialising resets everything but the counter.
LEMMA DeInitEffect ==
  ASSUME NEW h \in HwState, NEW g, g = HAL_UART_DeInit(h)
  PROVE  /\ g.gState = "RESET" /\ g.RxState = "RESET" /\ ~g.txDma
         /\ ~g.RTOEN /\ ~g.RTOIE /\ ~g.RTOF /\ ~g.counting
         /\ ~g.EIE /\ ~g.DMAR /\ ~g.TC /\ ~g.ORE /\ g.RDR = NoByte
         /\ g.remaining = h.remaining /\ g.size = h.size
BY DEF HAL_UART_DeInit, HwReset

\* The timeout is enabled, if the transmitter is at rest.
LEMMA EnableReceiverTimeoutEffect ==
  ASSUME NEW h \in HwState, NEW g, g = HAL_UART_EnableReceiverTimeout(h)
  PROVE  /\ SameTransfer(g, h) /\ SameLine(g, h) /\ SameTransmit(g, h)
         /\ g.RTOIE = h.RTOIE /\ g.RTOF = h.RTOF /\ g.counting = h.counting
         /\ IF h.gState = "READY" THEN g.RTOEN ELSE g.RTOEN = h.RTOEN
BY DEF HAL_UART_EnableReceiverTimeout, HwState, SameTransfer, SameLine, SameTransmit

\* So it is disabled.
LEMMA DisableReceiverTimeoutEffect ==
  ASSUME NEW h \in HwState, NEW g, g = HAL_UART_DisableReceiverTimeout(h)
  PROVE  /\ SameTransfer(g, h) /\ SameLine(g, h) /\ SameTransmit(g, h)
         /\ g.RTOIE = h.RTOIE /\ g.RTOF = h.RTOF
         /\ IF h.gState = "READY" THEN ~g.RTOEN /\ ~g.counting
            ELSE g.RTOEN = h.RTOEN /\ g.counting = h.counting
BY DEF HAL_UART_DisableReceiverTimeout, HwState, SameTransfer, SameLine, SameTransmit

\* The timeout interrupt is enabled where the timeout is.
LEMMA ReceiveArmEffect ==
  ASSUME NEW h \in HwState, NEW g, g = Receive_DMA_Arm(h)
  PROVE  /\ SameTransfer(g, h) /\ SameLine(g, h) /\ SameTransmit(g, h)
         /\ g.RTOEN = h.RTOEN /\ g.RTOF = h.RTOF /\ g.counting = h.counting
         /\ IF h.RTOEN THEN g.RTOIE ELSE g.RTOIE = h.RTOIE
BY DEF Receive_DMA_Arm, HwState, SameTransfer, SameLine, SameTransmit

\* A transfer is started and has all its bytes to come.
LEMMA ReceiveStartEffect ==
  ASSUME NEW h \in HwState, NEW n, NEW g, g = Receive_DMA_Start(h, n)
  PROVE  /\ SameTimeout(g, h) /\ SameLine(g, h) /\ SameTransmit(g, h)
         /\ g.RxState = "BUSY_RX" /\ g.EIE /\ g.DMAR /\ ~g.TC
         /\ g.remaining = n /\ g.size = n
BY DEF Receive_DMA_Start, HwState, SameTimeout, SameLine, SameTransmit

\* A transfer is aborted, and the receiver flushed.
LEMMA AbortReceiveEffect ==
  ASSUME NEW h \in HwState, NEW g, g = HAL_UART_AbortReceive(h)
  PROVE  /\ TransferOver(g, h) /\ SameTimeout(g, h) /\ SameTransmit(g, h)
         /\ ~g.ORE /\ g.RDR = NoByte
BY DEF HAL_UART_AbortReceive, HwState, TransferOver, SameTimeout, SameTransmit

\* Aborting or ending a transmit concerns the transmitter alone.
LEMMA TransmitOverEffect ==
  ASSUME NEW h \in HwState, NEW g, g = HAL_UART_AbortTransmit(h) \/ g = AfterTxCplt(h)
  PROVE  /\ SameTimeout(g, h) /\ SameTransfer(g, h) /\ SameLine(g, h)
         /\ g.gState = "READY" /\ ~g.txDma
BY DEF HAL_UART_AbortTransmit, AfterTxCplt, HwState, SameTimeout, SameTransfer, SameLine

\* An abort that times out leaves the transfer.
LEMMA AbortTimedOutEffect ==
  ASSUME NEW h \in HwState, NEW g,
         g \in Abort_TimedOut(h) \cup AbortTransmit_TimedOut(h) \cup AbortReceive_TimedOut(h)
  PROVE  g \in HwState /\ TransferGoesOn(g, h) /\ SameTimeout(g, h) /\ SameLine(g, h)
<1> DEFINE a == [h EXCEPT !.EIE = FALSE]
           b == [h EXCEPT !.EIE = FALSE, !.txDma = FALSE]
<1>1. /\ a \in HwState /\ TransferGoesOn(a, h) /\ SameTimeout(a, h) /\ SameLine(a, h)
      /\ b \in HwState /\ TransferGoesOn(b, h) /\ SameTimeout(b, h) /\ SameLine(b, h)
      /\ TransferGoesOn(h, h) /\ SameTimeout(h, h) /\ SameLine(h, h)
  BY DEF HwState, TransferGoesOn, SameTimeout, SameLine
<1>2. g = a \/ g = b \/ g = h
  BY Zenon DEF Abort_TimedOut, AbortTransmit_TimedOut, AbortReceive_TimedOut
<1> HIDE DEF a, b
<1> QED BY <1>1, <1>2

\* An error ends the transfer; it clears the flags whose interrupt is enabled.
LEMMA EndRxOnErrorEffect ==
  ASSUME NEW h \in HwState, NEW g, g = HalEndRxOnError(h)
  PROVE  /\ TransferOver(g, h) /\ SameTransmit(g, h) /\ g.RDR = h.RDR
         /\ g.RTOEN = h.RTOEN /\ g.RTOIE = h.RTOIE /\ g.counting = h.counting
         /\ IF h.EIE THEN ~g.ORE ELSE g.ORE = h.ORE
         /\ IF h.RTOIE THEN ~g.RTOF ELSE g.RTOF = h.RTOF
BY DEF HalEndRxOnError, HwState, TransferOver, SameTransmit

\* A full buffer ends the transfer and nothing else.
LEMMA RxCompleteEffect ==
  ASSUME NEW h \in HwState, NEW g, g = HalDmaRxComplete(h)
  PROVE  /\ TransferOver(g, h) /\ SameTimeout(g, h) /\ SameLine(g, h) /\ SameTransmit(g, h)
BY DEF HalDmaRxComplete, HwState, TransferOver, SameTimeout, SameLine, SameTransmit

\* The timeout's interrupt and flag are closed.
LEMMA CloseTimeoutEffect ==
  ASSUME NEW h \in HwState, NEW g, g = CloseTimeout(h)
  PROVE  /\ SameTransfer(g, h) /\ SameLine(g, h) /\ SameTransmit(g, h)
         /\ g.RTOEN = h.RTOEN /\ ~g.RTOIE /\ ~g.RTOF /\ g.counting = h.counting
BY DEF CloseTimeout, HwState, SameTransfer, SameLine, SameTransmit

\* A character comes in, or is lost to an overrun.
LEMMA ReceiveCharEffect ==
  ASSUME NEW h \in HwState, NEW b, NEW g, g = ReceiveChar(h, b)
  PROVE  /\ SameTransfer(g, h) /\ SameTransmit(g, h)
         /\ g.RTOEN = h.RTOEN /\ g.RTOIE = h.RTOIE /\ g.RTOF = h.RTOF /\ g.counting = h.RTOEN
         /\ IF h.RDR = NoByte THEN g.RDR = b /\ g.ORE = h.ORE
            ELSE g.RDR = h.RDR /\ g.ORE
BY DEF ReceiveChar, HwState, SameTransfer, SameTransmit

\* The channel takes a byte; the last one raises TC.
LEMMA DmaStoreEffect ==
  ASSUME NEW h \in HwState, NEW g, g = DmaStore(h)
  PROVE  /\ SameTimeout(g, h) /\ SameTransmit(g, h)
         /\ g.ORE = h.ORE /\ g.RDR = NoByte
         /\ g.RxState = h.RxState /\ g.EIE = h.EIE /\ g.DMAR = h.DMAR /\ g.size = h.size
         /\ g.remaining = h.remaining - 1
         /\ g.TC <=> h.remaining = 1
BY DEF DmaStore, HwState, SameTimeout, SameTransmit

\* A silence raises the timeout's flag.
LEMMA SilenceEffect ==
  ASSUME NEW h \in HwState, NEW g, g = SilenceElapsed(h)
  PROVE  /\ SameTransfer(g, h) /\ SameLine(g, h) /\ SameTransmit(g, h)
         /\ g.RTOEN = h.RTOEN /\ g.RTOIE = h.RTOIE /\ g.RTOF /\ ~g.counting
BY DEF SilenceElapsed, HwState, SameTransfer, SameLine, SameTransmit

-----------------------------------------------------------------------------
(* Parts that many steps share.                                            *)

\* A call that returns leaves a call record.
LEMMA ReturnTyped ==
  ASSUME NEW status \in platform_status
  PROVE  Return(status) \in Call
BY DEF Return, Call, Returned

\* Moving to another statement of a call, too.
LEMMA GotoTyped ==
  ASSUME call \in Call, ~Idle, NEW pc \in {"arm", "start"}, Goto(pc)
  PROVE  call' \in Call
<1>1. call \in InProgress
  BY DEF Call, Returned, Idle
<1> QED BY <1>1 DEF Goto, Call, InProgress

\* A function that starts a transfer stores its length if it lets it through.
LEMMA EnterTyped ==
  ASSUME DriverTypeOK, NEW n \in Nat, NEW accepted,
         NEW op \in {"until_timeout", "async"}, NEW pc \in {"enable", "disable"},
         n \in Length => accepted \in platform_uart,
         Enter(op, n, pc, accepted)
  PROVE  uart' \in platform_uart /\ call' \in Call
<1>1. CASE n \in Length
  <2>1. call' = [op |-> op, len |-> n, pc |-> pc, ret |-> "OK"] /\ uart' = accepted
    BY <1>1 DEF Enter
  <2>2. call' \in InProgress
    BY <1>1, <2>1 DEF InProgress, Op, platform_status
  <2> QED BY <1>1, <2>1, <2>2 DEF Call
<1>2. CASE n \notin Length
  <2>1. Checked(n) \in platform_status
    BY DEF Checked, platform_status
  <2> QED BY <1>2, <2>1, ReturnTyped DEF Enter, DriverTypeOK
<1> QED BY <1>1, <1>2

\* Blocking transfers store nothing.
LEMMA EnterBlockingTyped ==
  ASSUME DriverTypeOK, NEW n \in Nat, NEW after, NEW ready,
         NEW op \in {"transmit", "receive"}, NEW pc \in {"sending", "polling"},
         after \in HwState,
         EnterBlocking(op, n, pc, ready, after)
  PROVE  uart' \in platform_uart /\ call' \in Call /\ hw' \in HwState
<1>1. CASE n \in Length /\ ready
  <2>1. [op |-> op, len |-> n, pc |-> pc, ret |-> "OK"] \in InProgress
    BY <1>1 DEF InProgress, Op, platform_status
  <2> QED BY <1>1, <2>1 DEF EnterBlocking, Call, DriverTypeOK
<1>2. CASE ~(n \in Length /\ ready)
  <2>1. (IF n \in Length THEN "BUSY" ELSE Checked(n)) \in platform_status
    BY DEF Checked, platform_status
  <2> QED BY <1>2, <2>1, ReturnTyped DEF EnterBlocking, DriverTypeOK
<1> QED BY <1>1, <1>2

\* A refused receive undoes the flag, or nothing.
LEMMA ReceiveRefusedTyped ==
  ASSUME DriverTypeOK, NEW status \in platform_status, ReceiveRefused(status)
  PROVE  uart' \in platform_uart /\ call' \in Call
<1>1. CASE call.op = "until_timeout"
  <2>1. [uart EXCEPT !.rx_until_timeout_active = FALSE] \in platform_uart
    BY DEF DriverTypeOK, platform_uart
  <2>2. [call EXCEPT !.pc = "undo", !.ret = status] \in InProgress
    BY <1>1 DEF DriverTypeOK, Call, Returned, InProgress
  <2> QED BY <1>1, <2>1, <2>2 DEF ReceiveRefused, Call
<1>2. CASE call.op # "until_timeout"
  BY <1>2, ReturnTyped DEF ReceiveRefused, DriverTypeOK
<1> QED BY <1>1, <1>2

\* bytes_received lies between zero and the length of the request.
LEMMA BytesReceivedFits ==
  ASSUME DriverTypeOK
  PROVE  BytesReceived \in 0..uart.rx_dma_length /\ BytesReceived \in 0..MaxLength
BY MaxLengthAssumption DEF BytesReceived, DriverTypeOK, platform_uart, HwState

\* What GPDMA1_Channel1_IRQHandler does to the peripheral: the transfer is
\* over, and so is the timeout of a receive that had one.
LEMMA AfterRxCpltEffect ==
  ASSUME NEW h \in HwState, NEW g, g = AfterRxCplt(h)
  PROVE  /\ TransferOver(g, h) /\ SameLine(g, h) /\ SameTransmit(g, h)
         /\ ~uart.rx_until_timeout_active => SameTimeout(g, h)
         /\ uart.rx_until_timeout_active =>
              /\ ~g.RTOIE /\ ~g.RTOF
              /\ IF h.gState = "READY" THEN ~g.RTOEN /\ ~g.counting
                 ELSE g.RTOEN = h.RTOEN /\ g.counting = h.counting
<1> DEFINE a == HalDmaRxComplete(h)
           b == CloseTimeout(a)
           c == HAL_UART_DisableReceiverTimeout(b)
<1>1. /\ a \in HwState
      /\ TransferOver(a, h) /\ SameTimeout(a, h) /\ SameLine(a, h) /\ SameTransmit(a, h)
  BY EventsTyped, RxCompleteEffect
<1>2. /\ b \in HwState
      /\ SameTransfer(b, a) /\ SameLine(b, a) /\ SameTransmit(b, a)
      /\ b.RTOEN = a.RTOEN /\ ~b.RTOIE /\ ~b.RTOF /\ b.counting = a.counting
  BY <1>1, EventsTyped, CloseTimeoutEffect
<1>3. /\ SameTransfer(c, b) /\ SameLine(c, b) /\ SameTransmit(c, b)
      /\ c.RTOIE = b.RTOIE /\ c.RTOF = b.RTOF
      /\ IF b.gState = "READY" THEN ~c.RTOEN /\ ~c.counting
         ELSE c.RTOEN = b.RTOEN /\ c.counting = b.counting
  BY <1>2, DisableReceiverTimeoutEffect
<1>4. g = IF uart.rx_until_timeout_active THEN c ELSE a
  BY DEF AfterRxCplt
<1> HIDE DEF a, b, c
<1>5. CASE uart.rx_until_timeout_active
  <2>1. g = c
    BY <1>4, <1>5
  <2> QED
    BY <1>1, <1>2, <1>3, <1>5, <2>1
       DEF TransferOver, SameTransfer, SameTimeout, SameLine, SameTransmit
<1>6. CASE ~uart.rx_until_timeout_active
  BY <1>1, <1>4, <1>6
<1> QED BY <1>5, <1>6

\* A call that moves on keeps what it was asked for.
LEMMA GotoEffect ==
  ASSUME call \in Call, NEW pc, Goto(pc)
  PROVE  call'.pc = pc /\ call'.op = call.op /\ call'.len = call.len
BY DEF Goto, Call, Returned, InProgress

\* A call that is over is nowhere.
LEMMA ReturnEffect ==
  ASSUME NEW status
  PROVE  /\ Return(status).op = "none" /\ Return(status).pc = "idle"
         /\ Return(status).ret = status
BY DEF Return

-----------------------------------------------------------------------------
(* Typing of the driver's actions.                                         *)

\* The state in which the driver begins.
LEMMA DriverInitTyped == DriverInit => DriverTypeOK
<1>1. Return("OK") \in Call
  BY ReturnTyped DEF platform_status
<1> QED
  BY <1>1, ResetTyped, MaxLengthAssumption
     DEF DriverInit, DriverTypeOK, platform_uart, NotRunning, NoCallback, Callback

\* A step of a call makes no callback and no handler is running around it.
LEMMA TaskStepTyped ==
  ASSUME TaskStep
  PROVE  isr' \in NotRunning..MaxLength /\ cb' \in Callback
BY MaxLengthAssumption DEF TaskStep, NoCallback, NotRunning, Callback

\* Nor does the hardware make one.
LEMMA HardwareStepTyped ==
  ASSUME DriverTypeOK, HardwareStep
  PROVE  /\ uart' \in platform_uart /\ call' \in Call
         /\ isr' \in NotRunning..MaxLength /\ cb' \in Callback
BY DEF HardwareStep, NoCallback, Callback, DriverTypeOK

\* What begins an API call, whatever is asked of it.
LEMMA ApiCallTyped ==
  ASSUME DriverTypeOK, NEW n \in Nat,
         \/ platform_uart_init \/ platform_uart_deinit
         \/ platform_uart_receive_until_timeout_async(n)
         \/ platform_uart_receive_async(n)
         \/ platform_uart_receive(n)
         \/ platform_uart_transmit(n)
         \/ platform_uart_transmit_async(n)
         \/ platform_uart_abort \/ platform_uart_abort_transmit \/ platform_uart_abort_receive
  PROVE  DriverTypeOK'
<1> USE DEF platform_status
<1>0. hw \in HwState /\ uart \in platform_uart /\ call \in Call
  BY DEF DriverTypeOK
<1>1. ASSUME TaskStep, uart' \in platform_uart, hw' \in HwState, call' \in Call
      PROVE  DriverTypeOK'
  BY <1>1, TaskStepTyped DEF DriverTypeOK
<1>2. CASE platform_uart_init
  <2>1. [hw EXCEPT !.gState = "RESET", !.RxState = "RESET"] \in HwState
    BY <1>0 DEF HwState
  <2>2. HAL_UART_Init(hw) \in HwState
    BY <1>0, HalCallsTyped
  <2>3. [uart EXCEPT !.initialized = TRUE] \in platform_uart
    BY <1>0 DEF platform_uart
  <2>4. Return("OK") \in Call /\ Return("ERROR") \in Call
    BY ReturnTyped
  <2> QED BY <1>0, <1>1, <1>2, <2>1, <2>2, <2>3, <2>4 DEF platform_uart_init
<1>3. CASE platform_uart_deinit
  <2>1. HAL_UART_DeInit(hw) \in HwState
    BY <1>0, HalCallsTyped
  <2>2. [uart EXCEPT !.initialized = FALSE] \in platform_uart
    BY <1>0 DEF platform_uart
  <2>3. Return("OK") \in Call
    BY ReturnTyped
  <2> QED BY <1>1, <1>3, <2>1, <2>2, <2>3 DEF platform_uart_deinit
<1>4. CASE platform_uart_receive_until_timeout_async(n)
  <2> DEFINE accepted == [uart EXCEPT !.rx_dma_length = n, !.rx_until_timeout_active = TRUE]
  <2>2. n \in Length => accepted \in platform_uart
    <3>1. n \in Length => n \in 0..MaxLength
      BY MaxLengthAssumption DEF Length
    <3> QED BY <1>0, <3>1 DEF platform_uart
  <2>3. Enter("until_timeout", n, "enable", accepted) /\ UNCHANGED hw
    BY <1>4 DEF platform_uart_receive_until_timeout_async
  <2>4. uart' \in platform_uart /\ call' \in Call
    BY <2>2, <2>3, EnterTyped
  <2> QED BY <1>0, <1>1, <2>3, <2>4 DEF Enter
<1>5. CASE platform_uart_receive_async(n)
  <2> DEFINE accepted == [uart EXCEPT !.rx_dma_length = n, !.rx_until_timeout_active = FALSE]
  <2>2. n \in Length => accepted \in platform_uart
    <3>1. n \in Length => n \in 0..MaxLength
      BY MaxLengthAssumption DEF Length
    <3> QED BY <1>0, <3>1 DEF platform_uart
  <2>3. Enter("async", n, "disable", accepted) /\ UNCHANGED hw
    BY <1>5 DEF platform_uart_receive_async
  <2>4. uart' \in platform_uart /\ call' \in Call
    BY <2>2, <2>3, EnterTyped
  <2> QED BY <1>0, <1>1, <2>3, <2>4 DEF Enter
<1>6. CASE platform_uart_receive(n)
  <2> DEFINE after == [hw EXCEPT !.RxState = "BUSY_RX"]
  <2>2. after \in HwState
    BY <1>0 DEF HwState
  <2>3. EnterBlocking("receive", n, "polling", hw.RxState = "READY", after)
    BY <1>6 DEF platform_uart_receive
  <2>4. uart' \in platform_uart /\ call' \in Call /\ hw' \in HwState
    BY <2>2, <2>3, EnterBlockingTyped
  <2> QED BY <1>1, <2>3, <2>4 DEF EnterBlocking
<1>7. CASE platform_uart_transmit(n)
  <2> DEFINE after == Transmit_Start(hw, FALSE)
  <2>2. after \in HwState
    BY <1>0, HalCallsTyped
  <2>3. EnterBlocking("transmit", n, "sending", hw.gState = "READY", after)
    BY <1>7 DEF platform_uart_transmit
  <2>4. uart' \in platform_uart /\ call' \in Call /\ hw' \in HwState
    BY <2>2, <2>3, EnterBlockingTyped
  <2> QED BY <1>1, <2>3, <2>4 DEF EnterBlocking
<1>8. CASE platform_uart_transmit_async(n)
  <2>1. Transmit_Start(hw, TRUE) \in HwState
    BY <1>0, HalCallsTyped
  <2>2. (IF n \in Length THEN "BUSY" ELSE Checked(n)) \in platform_status
    BY DEF Checked
  <2>3. Return("OK") \in Call /\ Return(IF n \in Length THEN "BUSY" ELSE Checked(n)) \in Call
    BY <2>2, ReturnTyped
  <2> QED BY <1>0, <1>1, <1>8, <2>1, <2>3 DEF platform_uart_transmit_async
<1>9. ASSUME NEW after \in HwState, NEW timedOut \in SUBSET HwState, AbortCall(after, timedOut)
      PROVE  DriverTypeOK'
  <2>1. Return("OK") \in Call /\ Return("TIMEOUT") \in Call
    BY ReturnTyped
  <2> QED BY <1>0, <1>1, <1>9, <2>1 DEF AbortCall
<1>10. /\ HAL_UART_AbortReceive(hw) \in HwState
       /\ HAL_UART_AbortTransmit(hw) \in HwState
       /\ HAL_UART_AbortTransmit(HAL_UART_AbortReceive(hw)) \in HwState
       /\ Abort_TimedOut(hw) \in SUBSET HwState
       /\ AbortTransmit_TimedOut(hw) \in SUBSET HwState
       /\ AbortReceive_TimedOut(hw) \in SUBSET HwState
  BY <1>0, HalCallsTyped, AbortTimedOutEffect
<1>11. CASE platform_uart_abort
  BY <1>9, <1>10, <1>11 DEF platform_uart_abort
<1>12. CASE platform_uart_abort_transmit
  BY <1>9, <1>10, <1>12 DEF platform_uart_abort_transmit
<1>13. CASE platform_uart_abort_receive
  BY <1>9, <1>10, <1>13 DEF platform_uart_abort_receive
<1> QED
  BY <1>2, <1>3, <1>4, <1>5, <1>6, <1>7, <1>8, <1>11, <1>12, <1>13

\* The rest of a call.
LEMMA CallStepTyped ==
  ASSUME DriverTypeOK,
         \/ EnableTimeout \/ DisableTimeout \/ ArmReceive \/ StartReceive \/ UndoTimeout
         \/ FinishTransmit \/ PollByte \/ FailReceive
  PROVE  DriverTypeOK'
<1> USE DEF platform_status
<1>0. hw \in HwState /\ uart \in platform_uart /\ call \in Call
  BY DEF DriverTypeOK
<1>1. ASSUME TaskStep, uart' \in platform_uart, hw' \in HwState, call' \in Call
      PROVE  DriverTypeOK'
  BY <1>1, TaskStepTyped DEF DriverTypeOK
<1>2. \A status \in platform_status : Return(status) \in Call
  BY ReturnTyped
<1>3. \A h \in HwState : /\ HAL_UART_EnableReceiverTimeout(h) \in HwState
                         /\ HAL_UART_DisableReceiverTimeout(h) \in HwState
                         /\ Receive_DMA_Arm(h) \in HwState
  BY HalCallsTyped
<1>4. CASE EnableTimeout
  <2>1. [uart EXCEPT !.rx_until_timeout_active = FALSE] \in platform_uart
    BY <1>0 DEF platform_uart
  <2>2. uart' \in platform_uart /\ call' \in Call
    BY <1>0, <1>2, <1>4, <2>1, GotoTyped DEF EnableTimeout, Idle
  <2> QED BY <1>0, <1>1, <1>3, <1>4, <2>2 DEF EnableTimeout
<1>5. CASE DisableTimeout
  BY <1>0, <1>1, <1>3, <1>5, GotoTyped DEF DisableTimeout, Idle
<1>6. CASE ArmReceive
  <2>1. uart' \in platform_uart /\ call' \in Call
    BY <1>0, <1>6, GotoTyped, ReceiveRefusedTyped DEF ArmReceive, Idle
  <2> QED BY <1>0, <1>1, <1>3, <1>6, <2>1 DEF ArmReceive
<1>7. CASE StartReceive
  <2>1. uart' \in platform_uart /\ call' \in Call
    BY <1>0, <1>2, <1>7, ReceiveRefusedTyped DEF StartReceive
  <2>2. Receive_DMA_Start(hw, call.len) \in HwState
    <3>1. call.len \in Length
      BY <1>0, <1>7 DEF StartReceive, Call, Returned, InProgress
    <3> QED BY <1>0, <3>1, HalCallsTyped
  <2> QED BY <1>0, <1>1, <1>7, <2>1, <2>2 DEF StartReceive
<1>8. CASE UndoTimeout
  <2>1. [hw EXCEPT !.RTOIE = FALSE] \in HwState
    BY <1>0 DEF HwState
  <2>2. call.ret \in platform_status
    BY <1>0 DEF Call, Returned, InProgress
  <2> QED BY <1>0, <1>1, <1>2, <1>3, <1>8, <2>1, <2>2 DEF UndoTimeout
<1>9. CASE FinishTransmit
  <2>1. [hw EXCEPT !.gState = "READY"] \in HwState
    BY <1>0 DEF HwState
  <2> QED BY <1>0, <1>1, <1>2, <1>9, <2>1 DEF FinishTransmit
<1>10. CASE PollByte
  <2>1. /\ [hw EXCEPT !.RDR = NoByte, !.RxState = "READY"] \in HwState
        /\ [hw EXCEPT !.RDR = NoByte] \in HwState
    BY <1>0 DEF HwState
  <2>2. CASE call.len = 1
    BY <1>0, <1>1, <1>2, <1>10, <2>1, <2>2 DEF PollByte
  <2>3. CASE call.len # 1
    <3>1. call \in InProgress
      BY <1>0, <1>10 DEF PollByte, Call, Returned
    <3>2. call.len - 1 \in Length
      BY <2>3, <3>1, MaxLengthAssumption DEF InProgress, Length
    <3>3. [call EXCEPT !.len = @ - 1] \in Call
      BY <3>1, <3>2 DEF InProgress, Call
    <3> QED BY <1>0, <1>1, <1>10, <2>1, <2>3, <3>3 DEF PollByte
  <2> QED BY <2>2, <2>3
<1>11. CASE FailReceive
  <2>1. /\ [hw EXCEPT !.RxState = "READY", !.RTOF = FALSE] \in HwState
        /\ [hw EXCEPT !.RxState = "READY", !.ORE = FALSE] \in HwState
    BY <1>0 DEF HwState
  <2> QED BY <1>0, <1>1, <1>2, <1>11, <2>1 DEF FailReceive
<1> QED BY <1>4, <1>5, <1>6, <1>7, <1>8, <1>9, <1>10, <1>11

\* The interrupt handlers.
LEMMA DriverInterruptTyped ==
  ASSUME DriverTypeOK, DriverInterrupt
  PROVE  DriverTypeOK'
<1>0. hw \in HwState /\ uart \in platform_uart /\ call \in Call
  BY DEF DriverTypeOK
<1>1. \A h \in HwState : /\ HAL_UART_AbortReceive(h) \in HwState
                         /\ HAL_UART_DisableReceiverTimeout(h) \in HwState
  BY HalCallsTyped
<1>2. \A h \in HwState : /\ CloseTimeout(h) \in HwState
                         /\ HalDmaRxComplete(h) \in HwState
                         /\ AfterTxCplt(h) \in HwState
  BY EventsTyped
<1>3. [uart EXCEPT !.rx_until_timeout_active = FALSE] \in platform_uart
  BY <1>0 DEF platform_uart
<1>4. CASE UsartRtoIrq
  <2>1. /\ hw' \in HwState /\ uart' \in platform_uart /\ call' \in Call
        /\ cb' = NoCallback
    BY <1>0, <1>2, <1>3, <1>4 DEF UsartRtoIrq, IsrStep
  <2>2. isr' \in 0..uart.rx_dma_length /\ isr' \in NotRunning..MaxLength
    BY <1>4, BytesReceivedFits, MaxLengthAssumption DEF UsartRtoIrq, NotRunning
  <2>3. uart'.rx_dma_length = uart.rx_dma_length
    BY <1>0, <1>4 DEF UsartRtoIrq, platform_uart
  <2> QED BY <2>1, <2>2, <2>3 DEF DriverTypeOK, NoCallback, Callback
<1>5. CASE CompleteRx
  <2>1. hw' \in HwState /\ uart' = uart /\ call' = call /\ isr' = NotRunning
    BY <1>0, <1>1, <1>5 DEF CompleteRx
  <2>2. cb' = [kind |-> "rx", n |-> isr]
    BY <1>5 DEF CompleteRx
  <2> QED
    BY <1>0, <2>1, <2>2, MaxLengthAssumption DEF DriverTypeOK, Callback, NotRunning
<1>6. CASE UsartErrorIrq
  <2>1. HalEndRxOnError(hw) \in HwState
    BY <1>0, EventsTyped
  <2> QED
    BY <1>0, <1>6, <2>1, MaxLengthAssumption
       DEF UsartErrorIrq, IsrStep, DriverTypeOK, Callback, NotRunning
<1>7. CASE UsartTxIrq
  BY <1>0, <1>2, <1>7, MaxLengthAssumption
     DEF UsartTxIrq, IsrStep, DriverTypeOK, Callback, NotRunning
<1>8. CASE GPDMA1_Channel1_IRQHandler
  <2>1. hw' \in HwState /\ uart' \in platform_uart /\ call' \in Call /\ isr' = NotRunning
    BY <1>0, <1>1, <1>2, <1>3, <1>8 DEF GPDMA1_Channel1_IRQHandler, IsrStep, AfterRxCplt
  <2>2. cb' = [kind |-> "rx", n |-> uart.rx_dma_length]
    BY <1>8 DEF GPDMA1_Channel1_IRQHandler
  <2>3. uart'.rx_dma_length = uart.rx_dma_length /\ uart.rx_dma_length \in 0..MaxLength
    BY <1>0, <1>8 DEF GPDMA1_Channel1_IRQHandler, platform_uart
  <2> QED
    BY <2>1, <2>2, <2>3, MaxLengthAssumption DEF DriverTypeOK, Callback, NotRunning
<1> QED BY <1>4, <1>5, <1>6, <1>7, <1>8 DEF DriverInterrupt

\* The hardware.
LEMMA HardwareTyped ==
  ASSUME DriverTypeOK, \/ \E b \in Byte : ByteArrives(b)
                       \/ DmaMovesByte \/ LineFallsSilent
  PROVE  DriverTypeOK'
<1>1. ASSUME HardwareStep, hw' \in HwState
      PROVE  DriverTypeOK'
  BY <1>1, HardwareStepTyped DEF DriverTypeOK
<1>2. hw \in HwState
  BY DEF DriverTypeOK
<1>3. ASSUME NEW b \in Byte, ByteArrives(b)
      PROVE  DriverTypeOK'
  <2>1. ReceiveChar(hw, b) \in HwState
    BY <1>2, EventsTyped
  <2> QED BY <1>1, <1>3, <2>1 DEF ByteArrives
<1>4. CASE DmaMovesByte
  <2>1. DmaStore(hw) \in HwState
    BY <1>2, <1>4, EventsTyped DEF DmaMovesByte
  <2> QED BY <1>1, <1>4, <2>1 DEF DmaMovesByte
<1>5. CASE LineFallsSilent
  <2>1. SilenceElapsed(hw) \in HwState
    BY <1>2, EventsTyped
  <2> QED BY <1>1, <1>5, <2>1 DEF LineFallsSilent
<1> QED BY <1>3, <1>4, <1>5
=============================================================================
