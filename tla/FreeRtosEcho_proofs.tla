------------------------ MODULE FreeRtosEcho_proofs -------------------------
(***************************************************************************)
(* The echo task over its two drivers, for any buffer, characters and      *)
(* timer: its types, whatever the sender does, and, as long as the buffer  *)
(* cannot fill during a greeting, that the task never waits in vain, owns  *)
(* the buffer it sends from and echoes what came in its order.             *)
(***************************************************************************)
EXTENDS FreeRtosEcho, UartDriver_proofs, LptimDriver_proofs, SequenceTheorems

-----------------------------------------------------------------------------
(* What holds whoever sends.                                               *)

\* A call belongs to the statement that makes it; the receive has the length
\* of the buffer.
CallPlaced ==
  \/ call.pc = "idle"
  \/ pc \in {"banner", "echo", "hello"} /\ call.pc = "sending"
  \/ /\ pc = "StartReceiveAsync" /\ call.pc \in {"enable", "arm", "start", "undo"}
     /\ call.op = "until_timeout" /\ call.len = MaxLength /\ uart.rx_dma_length = MaxLength
     /\ call.pc = "undo" => call.ret = "BUSY"

\* Before the first transfer no completion can be pending: the timeout is
\* enabled by no one but the call that starts that transfer.
BeforeFirst ==
  hw.size = 0 =>
    /\ ~hw.DMAR /\ ~hw.TC /\ ~hw.RTOF /\ isr = NotRunning /\ call.pc # "undo"
    /\ hw.RTOEN => call.pc \in {"arm", "start"}
    /\ hw.RxState = IF pc = "InitConsoleUart" THEN "RESET" ELSE "READY"

\* All transfers have the length of the buffer.
FullLength ==
  /\ hw.size \in {0, MaxLength} /\ hw.remaining <= hw.size
  /\ hw.TC => hw.remaining = 0
  /\ hw.size = MaxLength => uart.rx_dma_length = MaxLength

Stored(n) == \A i \in 1..n : rxBuffer[i] \in Byte

\* Where a count says that characters have come, rxBuffer holds characters.
CountsStored ==
  /\ Stored(hw.size - hw.remaining) /\ Stored(isr) /\ Stored(rxLength)
  /\ (pc = "echo" /\ call.pc = "sending") => Stored(call.len)

\* What is written to the autoreload register has been accepted.
PeriodAccepted ==
  tcall.pc = "configure" => tcall.arg = HELLO_PERIOD_MS /\ Accepted(tcall.arg)

Sound ==
  TypeOK /\ (Running => CallPlaced /\ BeforeFirst /\ FullLength /\ CountsStored /\ PeriodAccepted)

-----------------------------------------------------------------------------
(* What holds as long as no greeting meets a full buffer, because the timer*)
(* has not elapsed yet or the sender's bursts are shorter.                 *)

Quiet == ~Periodic \/ Sender = "brief"

\* No receive runs, and nothing is pending that could report one.
Rest ==
  /\ isr = NotRunning /\ ~uart.rx_until_timeout_active
  /\ hw.RxState = IF pc = "InitConsoleUart" THEN "RESET" ELSE "READY"
  /\ ~hw.DMAR /\ ~hw.TC /\ ~hw.EIE
  /\ ~hw.RTOIE /\ ~hw.RTOF /\ ~hw.counting
  /\ hw.RTOEN => Sender = "brief"

\* StartReceiveAsync is on its way, with the timeout on as far as it has come.
Starting ==
  /\ isr = NotRunning /\ uart.rx_until_timeout_active
  /\ hw.RxState = "READY" /\ ~hw.DMAR /\ ~hw.TC /\ ~hw.EIE /\ ~hw.RTOF
  /\ call.pc # "undo"
  /\ call.pc \in {"arm", "start"} => hw.RTOEN
  /\ call.pc = "start" => hw.RTOIE

\* A receive runs that a silence ends.
Receiving ==
  /\ isr = NotRunning /\ uart.rx_until_timeout_active
  /\ hw.DMAR /\ hw.size = MaxLength /\ (hw.TC <=> hw.remaining = 0)
  /\ hw.RTOEN /\ hw.RTOIE

\* A silence has ended it and is about to be reported.
Closing ==
  /\ isr # NotRunning /\ ~uart.rx_until_timeout_active
  /\ hw.DMAR /\ hw.size = MaxLength /\ isr <= hw.size - hw.remaining
  /\ ~hw.RTOIE /\ ~hw.RTOF

\* Where the task is says what the receiver does: a task that waits and has
\* not been told of a receive has one.
Phase ==
  /\ pc \in {"InitConsoleUart", "banner", "InitPeriodicLptim", "echo"} =>
       "RX" \notin notified /\ Rest
  /\ pc = "StartReceiveAsync" =>
       "RX" \notin notified /\ IF call.pc = "idle" THEN Rest ELSE Starting
  /\ pc \in {"xTaskNotifyWait", "hello"} =>
       IF "RX" \in notified THEN Rest ELSE Receiving \/ Closing

\* The transmitter is busy as long as the task waits for it.
Transmitter ==
  /\ ~hw.txDma
  /\ hw.gState = IF pc = "InitConsoleUart" THEN "RESET"
                 ELSE IF call.pc = "sending" THEN "BUSY_TX" ELSE "READY"

\* Why no greeting meets a full buffer.
NoGreeting ==
  ~Periodic => ~lptim.ARRM /\ pc # "hello" /\ "PERIODIC_TX" \notin notified \cup taken

NeverFull ==
  Sender = "brief" =>
    /\ ~hw.TC /\ (hw.DMAR => hw.remaining > 0)
    /\ hw.RDR # NoByte => hw.remaining > 1
    /\ hw.RTOF \/ isr # NotRunning => ~hw.counting

InStep == Phase /\ Transmitter /\ NoGreeting /\ NeverFull

\* How much of rxBuffer is still to be echoed.
Filled ==
  IF hw.DMAR THEN hw.size - hw.remaining
  ELSE IF "RX" \in notified \/ pc = "echo" THEN rxLength ELSE 0

\* What was echoed came before what is in rxBuffer, that before what is in the
\* data register.
Stream ==
  /\ \A i \in 1..Filled :
       /\ rxBuffer[i] \in 1..arrived
       /\ \A j \in 1..Filled : j < i => rxBuffer[j] < rxBuffer[i]
       /\ \A k \in DOMAIN echoed : echoed[k] < rxBuffer[i]
  /\ hw.RDR # NoByte =>
       /\ hw.RDR \in 1..arrived
       /\ \A i \in 1..Filled : rxBuffer[i] < hw.RDR
       /\ \A k \in DOMAIN echoed : echoed[k] < hw.RDR
  /\ (pc = "echo" /\ call.pc = "sending") => call.len = rxLength

Ordered ==
  \A k \in DOMAIN echoed :
    /\ echoed[k] \in 1..arrived
    /\ \A j \in DOMAIN echoed : j < k => echoed[j] < echoed[k]

IInv ==
  /\ Sound /\ Ordered
  /\ Running => InStep /\ Stream

-----------------------------------------------------------------------------
(* What the steps do.                                                      *)

\* A blocking transmit: it starts, is refused, or has come to its end.
LEMMA TransmitCases ==
  ASSUME DriverTypeOK, NEW n \in Nat \ {0}, NEW next, Transmit(n), Then(next)
  PROVE  /\ uart' = uart /\ isr = NotRunning /\ isr' = isr
         /\ SameTimeout(hw', hw) /\ SameTransfer(hw', hw) /\ SameLine(hw', hw)
         /\ \/ /\ call.pc = "idle" /\ n \in Length /\ hw.gState = "READY"
               /\ hw'.gState = "BUSY_TX" /\ ~hw'.txDma
               /\ call'.pc = "sending" /\ call'.len = n /\ pc' = pc
            \/ /\ call.pc = "idle" /\ ~(n \in Length /\ hw.gState = "READY")
               /\ pc' = "Error_Handler"
            \/ /\ call.pc = "sending"
               /\ hw'.gState = "READY" /\ hw'.txDma = hw.txDma
               /\ call'.pc = "idle" /\ pc' = next
<1>0. hw \in HwState
  BY DEF DriverTypeOK
<1> DEFINE a == Transmit_Start(hw, FALSE)
<1>1. /\ SameTimeout(a, hw) /\ SameTransfer(a, hw) /\ SameLine(a, hw)
      /\ a.gState = "BUSY_TX" /\ ~a.txDma
  BY <1>0 DEF Transmit_Start, HwState, SameTimeout, SameTransfer, SameLine
<1>2. CASE EnterBlocking("transmit", n, "sending", hw.gState = "READY", a)
  <2> HIDE DEF a
  <2>1. /\ call.pc = "idle" /\ uart' = uart /\ isr = NotRunning /\ isr' = isr
        /\ \/ /\ n \in Length /\ hw.gState = "READY" /\ hw' = a
              /\ call' = [op |-> "transmit", len |-> n, pc |-> "sending", ret |-> "OK"]
           \/ /\ ~(n \in Length /\ hw.gState = "READY") /\ hw' = hw
              /\ call' = Return(IF n \in Length THEN "BUSY" ELSE Checked(n))
    BY <1>2 DEF EnterBlocking, TaskStep, Idle
  <2>2. CASE /\ n \in Length /\ hw.gState = "READY" /\ hw' = a
             /\ call' = [op |-> "transmit", len |-> n, pc |-> "sending", ret |-> "OK"]
    <3>1. call'.pc = "sending" /\ call'.len = n /\ pc' = pc
      BY <2>2 DEF Then
    <3> QED BY <1>1, <2>1, <2>2, <3>1
  <2>3. CASE /\ ~(n \in Length /\ hw.gState = "READY") /\ hw' = hw
             /\ call' = Return(IF n \in Length THEN "BUSY" ELSE Checked(n))
    <3>1. SameTimeout(hw', hw) /\ SameTransfer(hw', hw) /\ SameLine(hw', hw)
      BY <2>3 DEF SameTimeout, SameTransfer, SameLine
    <3>2. call'.pc = "idle" /\ call'.ret # "OK"
      BY <2>3, ReturnEffect DEF Checked, Length
    <3>3. pc' = "Error_Handler"
      BY <3>2 DEF Then
    <3> QED BY <2>1, <2>3, <3>1, <3>3
  <2> QED BY <2>1, <2>2, <2>3
<1>3. CASE FinishTransmit
  <2>1. /\ hw' = [hw EXCEPT !.gState = "READY"] /\ uart' = uart
        /\ isr = NotRunning /\ isr' = isr /\ call.pc = "sending"
        /\ call' = Return("OK") \/ call' = Return("TIMEOUT")
    BY <1>3 DEF FinishTransmit, TaskStep
  <2>2. pc' = next /\ call'.pc = "idle"
    BY <2>1, ReturnEffect DEF Then
  <2>3. /\ SameTimeout(hw', hw) /\ SameTransfer(hw', hw) /\ SameLine(hw', hw)
        /\ hw'.txDma = hw.txDma /\ hw'.gState = "READY"
    BY <1>0, <2>1 DEF HwState, SameTimeout, SameTransfer, SameLine
  <2> QED BY <2>1, <2>2, <2>3
<1> QED BY <1>2, <1>3 DEF Transmit, platform_uart_transmit

\* The call of StartReceiveAsync, statement by statement.
LEMMA StartCases ==
  ASSUME DriverTypeOK, CallPlaced, StartReceiveAsync
  PROVE  /\ pc = "StartReceiveAsync" /\ isr = NotRunning /\ isr' = isr
         /\ \/ /\ call.pc = "idle" /\ hw' = hw /\ rxLength' = 0 /\ pc' = pc
               /\ uart'.rx_dma_length = MaxLength /\ uart'.rx_until_timeout_active
               /\ call'.pc = "enable" /\ call'.op = "until_timeout" /\ call'.len = MaxLength
            \/ /\ call.pc = "enable" /\ hw.gState = "READY"
               /\ hw' = HAL_UART_EnableReceiverTimeout(hw) /\ uart' = uart
               /\ call'.pc = "arm" /\ call'.op = call.op /\ call'.len = call.len
               /\ pc' = pc /\ rxLength' = rxLength
            \/ /\ call.pc = "arm" /\ hw.RxState = "READY"
               /\ hw' = Receive_DMA_Arm(hw) /\ uart' = uart
               /\ call'.pc = "start" /\ call'.op = call.op /\ call'.len = call.len
               /\ pc' = pc /\ rxLength' = rxLength
            \/ /\ call.pc = "arm" /\ hw.RxState # "READY" /\ hw' = hw
               /\ uart'.rx_dma_length = uart.rx_dma_length
               /\ call'.pc = "undo" /\ call'.ret = "BUSY"
               /\ call'.op = call.op /\ call'.len = call.len
               /\ pc' = pc /\ rxLength' = rxLength
            \/ /\ call.pc = "start" /\ hw' = Receive_DMA_Start(hw, MaxLength) /\ uart' = uart
               /\ call'.pc = "idle" /\ rxLength' = rxLength
               /\ pc' = HelloOr("xTaskNotifyWait")
            \/ /\ call.pc = "enable" /\ hw.gState # "READY" /\ pc' = "Error_Handler"
               /\ rxLength' = rxLength
            \/ /\ call.pc = "undo" /\ pc' = "Error_Handler" /\ rxLength' = rxLength
<1>0. /\ hw \in HwState /\ call \in Call /\ uart \in platform_uart
      /\ pc = "StartReceiveAsync" /\ Then(HelloOr("xTaskNotifyWait"))
  BY DEF DriverTypeOK, StartReceiveAsync
<1>1. CASE platform_uart_receive_until_timeout_async(MaxLength) /\ rxLength' = 0
  <2>1. MaxLength \in Length
    BY MaxLengthAssumption DEF Length
  <2>2. /\ isr = NotRunning /\ isr' = isr /\ call.pc = "idle" /\ hw' = hw
        /\ call' = [op |-> "until_timeout", len |-> MaxLength, pc |-> "enable", ret |-> "OK"]
        /\ uart' = [uart EXCEPT !.rx_dma_length = MaxLength, !.rx_until_timeout_active = TRUE]
    BY <1>1, <2>1 DEF platform_uart_receive_until_timeout_async, Enter, TaskStep, Idle
  <2>3. uart'.rx_dma_length = MaxLength /\ uart'.rx_until_timeout_active
    BY <1>0, <2>2 DEF platform_uart
  <2>4. pc' = pc
    BY <1>0, <2>2 DEF Then
  <2> QED BY <1>0, <1>1, <2>2, <2>3, <2>4
<1>2. CASE EnableTimeout /\ UNCHANGED rxLength
  <2>1. /\ isr = NotRunning /\ isr' = isr /\ call.pc = "enable"
        /\ hw' = HAL_UART_EnableReceiverTimeout(hw)
        /\ \/ hw.gState = "READY" /\ Goto("arm") /\ uart' = uart
           \/ hw.gState # "READY" /\ call' = Return("BUSY")
    BY <1>2 DEF EnableTimeout, TaskStep
  <2>2. CASE hw.gState = "READY"
    <3>1. call'.pc = "arm" /\ call'.op = call.op /\ call'.len = call.len
      BY <1>0, <2>1, <2>2, GotoEffect
    <3>2. pc' = pc
      BY <1>0, <3>1 DEF Then
    <3> QED BY <1>0, <1>2, <2>1, <2>2, <3>1, <3>2
  <2>3. CASE hw.gState # "READY"
    <3>1. pc' = "Error_Handler"
      BY <1>0, <2>1, <2>3, ReturnEffect DEF Then
    <3> QED BY <1>0, <1>2, <2>1, <2>3, <3>1
  <2> QED BY <2>2, <2>3
<1>3. CASE ArmReceive /\ UNCHANGED rxLength
  <2>1. /\ isr = NotRunning /\ isr' = isr /\ call.pc = "arm"
        /\ \/ hw.RxState = "READY" /\ hw' = Receive_DMA_Arm(hw) /\ Goto("start") /\ uart' = uart
           \/ hw.RxState # "READY" /\ hw' = hw /\ ReceiveRefused("BUSY")
    BY <1>3 DEF ArmReceive, TaskStep
  <2>2. CASE hw.RxState = "READY"
    <3>1. call'.pc = "start" /\ call'.op = call.op /\ call'.len = call.len
      BY <1>0, <2>1, <2>2, GotoEffect
    <3>2. pc' = pc
      BY <1>0, <3>1 DEF Then
    <3> QED BY <1>0, <1>3, <2>1, <2>2, <3>1, <3>2
  <2>3. CASE hw.RxState # "READY"
    <3>1. /\ call' = [call EXCEPT !.pc = "undo", !.ret = "BUSY"]
          /\ uart' = [uart EXCEPT !.rx_until_timeout_active = FALSE]
      BY <1>0, <2>1, <2>3 DEF ReceiveRefused, CallPlaced
    <3>2. /\ call'.pc = "undo" /\ call'.ret = "BUSY"
          /\ call'.op = call.op /\ call'.len = call.len
          /\ uart'.rx_dma_length = uart.rx_dma_length
      BY <1>0, <3>1 DEF Call, Returned, InProgress, platform_uart
    <3>3. pc' = pc
      BY <1>0, <3>2 DEF Then
    <3> QED BY <1>0, <1>3, <2>1, <2>3, <3>2, <3>3
  <2> QED BY <2>2, <2>3
<1>4. CASE StartReceive /\ UNCHANGED rxLength
  <2>1. /\ isr = NotRunning /\ isr' = isr /\ call.pc = "start"
        /\ \/ hw' = Receive_DMA_Start(hw, call.len) /\ call' = Return("OK") /\ uart' = uart
           \/ ReceiveRefused("ERROR")
    BY <1>4 DEF StartReceive, TaskStep
  <2>2. call.op = "until_timeout" /\ call.len = MaxLength
    BY <2>1 DEF CallPlaced
  <2>3. ~ReceiveRefused("ERROR")
    <3>1. [call EXCEPT !.pc = "undo", !.ret = "ERROR"].ret = "ERROR"
      BY <1>0 DEF Call, Returned, InProgress
    <3> QED BY <1>0, <2>2, <3>1 DEF ReceiveRefused, Then
  <2>4. pc' = HelloOr("xTaskNotifyWait") /\ call'.pc = "idle"
    BY <1>0, <2>1, <2>3, ReturnEffect DEF Then
  <2> QED BY <1>0, <1>4, <2>1, <2>2, <2>3, <2>4
<1>5. CASE UndoTimeout /\ UNCHANGED rxLength
  <2>1. isr = NotRunning /\ isr' = isr /\ call.pc = "undo" /\ call' = Return(call.ret)
    BY <1>5 DEF UndoTimeout, TaskStep
  <2>2. call.ret = "BUSY"
    BY <2>1 DEF CallPlaced
  <2>3. pc' = "Error_Handler"
    BY <1>0, <2>1, <2>2, ReturnEffect DEF Then
  <2> QED BY <1>0, <1>5, <2>1, <2>3
<1> QED BY <1>1, <1>2, <1>3, <1>4, <1>5 DEF StartReceiveAsync

\* The handlers with their callbacks; the count is never too large.
LEMMA InterruptCases ==
  ASSUME DriverTypeOK, Interrupt
  PROVE  /\ Running /\ call' = call
         /\ \/ UsartRtoIrq /\ UNCHANGED <<pc, rxLength, notified>>
            \/ /\ CompleteRx /\ isr \in 0..MaxLength
               /\ pc' = pc /\ rxLength' = isr /\ notified' = notified \cup {"RX"}
            \/ UsartErrorIrq /\ pc' = "Error_Handler" /\ UNCHANGED <<rxLength, notified>>
            \/ UsartTxIrq /\ UNCHANGED <<pc, rxLength, notified>>
            \/ /\ GPDMA1_Channel1_IRQHandler /\ uart.rx_dma_length \in 0..MaxLength
               /\ pc' = pc /\ rxLength' = uart.rx_dma_length
               /\ notified' = notified \cup {"RX"}
<1>0. Running /\ DriverInterrupt
  BY DEF Interrupt
<1>1. CASE UsartRtoIrq
  <2>1. cb'.kind = "none" /\ call' = call
    BY <1>1 DEF UsartRtoIrq, NoCallback, IsrStep
  <2> QED BY <1>0, <1>1, <2>1 DEF Interrupt
<1>2. CASE CompleteRx
  <2>1. cb'.kind = "rx" /\ cb'.n = isr /\ call' = call
    BY <1>2 DEF CompleteRx
  <2>2. isr \in 0..MaxLength
    BY <1>2, MaxLengthAssumption DEF CompleteRx, DriverTypeOK, NotRunning
  <2>3. OnConsoleRxComplete(isr)
    BY <2>1 DEF Interrupt
  <2>4. ~(isr > MaxLength)
    BY <2>2, MaxLengthAssumption
  <2> QED BY <1>0, <1>2, <2>1, <2>2, <2>3, <2>4 DEF OnConsoleRxComplete
<1>3. CASE UsartErrorIrq
  <2>1. cb'.kind = "error" /\ call' = call
    BY <1>3 DEF UsartErrorIrq, IsrStep
  <2> QED BY <1>0, <1>3, <2>1 DEF Interrupt, OnConsoleError
<1>4. CASE UsartTxIrq
  <2>1. cb'.kind = "tx" /\ call' = call
    BY <1>4 DEF UsartTxIrq, IsrStep
  <2> QED BY <1>0, <1>4, <2>1 DEF Interrupt
<1>5. CASE GPDMA1_Channel1_IRQHandler
  <2>1. cb'.kind = "rx" /\ cb'.n = uart.rx_dma_length /\ call' = call
    BY <1>5 DEF GPDMA1_Channel1_IRQHandler, IsrStep
  <2>2. uart.rx_dma_length \in 0..MaxLength
    BY DEF DriverTypeOK, platform_uart
  <2>3. OnConsoleRxComplete(uart.rx_dma_length)
    BY <2>1 DEF Interrupt
  <2>4. ~(uart.rx_dma_length > MaxLength)
    BY <2>2, MaxLengthAssumption
  <2> QED BY <1>0, <1>5, <2>1, <2>2, <2>3, <2>4 DEF OnConsoleRxComplete
<1> QED BY <1>0, <1>1, <1>2, <1>3, <1>4, <1>5 DEF DriverInterrupt

\* The console is initialised before anything is asked of it.
LEMMA InitConsoleCases ==
  ASSUME DriverTypeOK, InitConsoleUart
  PROVE  /\ pc = "InitConsoleUart" /\ isr = NotRunning /\ isr' = isr
         /\ hw' = HAL_UART_Init(hw) /\ call.pc = "idle" /\ call'.pc = "idle"
         /\ uart'.rx_dma_length = uart.rx_dma_length
         /\ uart'.rx_until_timeout_active = uart.rx_until_timeout_active
         /\ pc' = "banner"
<1>1. /\ pc = "InitConsoleUart" /\ isr = NotRunning /\ isr' = isr /\ call.pc = "idle"
      /\ \/ /\ hw' = HAL_UART_Init(hw) /\ call' = Return("OK")
            /\ uart' = [uart EXCEPT !.initialized = TRUE]
         \/ call' = Return("ERROR")
      /\ Then("banner")
  BY DEF InitConsoleUart, platform_uart_init, TaskStep, Idle
<1>2. call' # Return("ERROR")
  BY <1>1, ReturnEffect DEF Then
<1>3. /\ uart'.rx_dma_length = uart.rx_dma_length
      /\ uart'.rx_until_timeout_active = uart.rx_until_timeout_active
  BY <1>1, <1>2 DEF DriverTypeOK, platform_uart
<1>4. call'.pc = "idle" /\ pc' = "banner"
  BY <1>1, <1>2, ReturnEffect DEF Then
<1> QED BY <1>1, <1>2, <1>3, <1>4

\* The rest of complete_rx_until_timeout ends the transfer and, unless a
\* transmit holds the handle, the timeout.
LEMMA CompleteRxEffect ==
  ASSUME DriverTypeOK, CompleteRx
  PROVE  /\ isr # NotRunning /\ isr' = NotRunning /\ uart' = uart
         /\ TransferOver(hw', hw) /\ SameTransmit(hw', hw)
         /\ hw'.RDR = NoByte /\ hw'.RTOIE = hw.RTOIE /\ hw'.RTOF = hw.RTOF
         /\ IF hw.gState = "READY" THEN ~hw'.RTOEN /\ ~hw'.counting
            ELSE hw'.RTOEN = hw.RTOEN /\ hw'.counting = hw.counting
<1> DEFINE a == HAL_UART_AbortReceive(hw)
<1>0. hw \in HwState
  BY DEF DriverTypeOK
<1>1. /\ a \in HwState /\ TransferOver(a, hw) /\ SameTimeout(a, hw) /\ SameTransmit(a, hw)
      /\ a.RDR = NoByte
  BY <1>0, HalCallsTyped, AbortReceiveEffect
<1>2. /\ isr # NotRunning /\ isr' = NotRunning /\ uart' = uart
      /\ hw' = HAL_UART_DisableReceiverTimeout(a)
  BY DEF CompleteRx
<1> HIDE DEF a
<1>3. /\ SameTransfer(hw', a) /\ SameLine(hw', a) /\ SameTransmit(hw', a)
      /\ hw'.RTOIE = a.RTOIE /\ hw'.RTOF = a.RTOF
      /\ IF a.gState = "READY" THEN ~hw'.RTOEN /\ ~hw'.counting
         ELSE hw'.RTOEN = a.RTOEN /\ hw'.counting = a.counting
  BY <1>1, <1>2, DisableReceiverTimeoutEffect
<1>4. TransferOver(hw', hw) /\ SameTransmit(hw', hw) /\ hw'.RDR = NoByte
  BY <1>1, <1>3 DEF TransferOver, SameTransfer, SameTransmit, SameLine
<1> QED
  BY <1>1, <1>2, <1>3, <1>4 DEF SameTimeout, SameTransmit

\* Nothing happens in Error_Handler.
LEMMA OnlyRunningSteps == Next => Running
BY DEF Next, EchoTask, InitConsoleUart, Banner, InitPeriodicLptim, StartReceiveAsync,
       xTaskNotifyWait, Echo, Hello, Interrupt, TimerInterrupt, Arrival, DmaTransfer, Silence,
       HelloPeriod, Running

\* What an echo appends: the first characters of rxBuffer, in their order.
LEMMA Appended ==
  ASSUME echoed \in Seq(Byte), NEW n \in Nat, Stored(n),
         NEW g, g = echoed \o SubSeq(rxBuffer, 1, n)
  PROVE  /\ g \in Seq(Byte)
         /\ DOMAIN echoed = 1..Len(echoed) /\ Len(echoed) \in Nat
         /\ DOMAIN g = 1..(Len(echoed) + n)
         /\ \A k \in 1..Len(echoed) : g[k] = echoed[k]
         /\ \A k \in (Len(echoed) + 1)..(Len(echoed) + n) : g[k] = rxBuffer[k - Len(echoed)]
<1> DEFINE new == SubSeq(rxBuffer, 1, n)
           m == Len(echoed)
<1>1. \A i \in 1..n : rxBuffer[i] \in Byte
  BY DEF Stored
<1>2. /\ new \in Seq(Byte) /\ Len(new) = IF 1 <= n THEN n - 1 + 1 ELSE 0
      /\ \A i \in 1..(n - 1 + 1) : new[i] = rxBuffer[1 + i - 1]
  BY <1>1, SubSeqProperties
<1> HIDE DEF new
<1>3. /\ g \in Seq(Byte) /\ Len(g) = m + Len(new)
      /\ \A i \in 1..(m + Len(new)) : g[i] = IF i <= m THEN echoed[i] ELSE new[i - m]
  BY <1>2, ConcatProperties DEF new
<1>4. Len(new) = n /\ \A i \in 1..n : new[i] = rxBuffer[i]
  BY <1>2
<1>5. m \in Nat /\ DOMAIN echoed = 1..m /\ DOMAIN g = 1..Len(g)
  BY <1>3, LenProperties
<1> HIDE DEF m
<1>6. \A k \in 1..m : g[k] = echoed[k]
  BY <1>3, <1>4, <1>5
<1>7. ASSUME NEW k \in (m + 1)..(m + n)
      PROVE  g[k] = rxBuffer[k - m]
  BY <1>3, <1>4, <1>5
<1> QED BY <1>3, <1>4, <1>5, <1>6, <1>7 DEF m

-----------------------------------------------------------------------------
(* Every step is sound, whoever sends.                                     *)

\* The state in which the program begins.
LEMMA InitSound == Init => Sound
<1> SUFFICES ASSUME Init PROVE Sound
  OBVIOUS
<1>1. DriverTypeOK /\ LptimTypeOK
  BY DriverInitTyped, TimerInitTyped DEF Init
<1>2. echoed \in Seq(Byte) /\ rxBuffer \in [Length -> Byte \cup {NoByte}]
  BY EmptySeq DEF Init
<1>3. TypeOK
  BY <1>1, <1>2, MaxLengthAssumption DEF Init, TypeOK, Location
<1>4. call.pc = "idle" /\ tcall.pc = "idle"
  BY ReturnEffect, TimerReturnTyped DEF Init, DriverInit, LptimInit
<1>5. /\ hw.size = 0 /\ hw.remaining = 0 /\ ~hw.DMAR /\ ~hw.TC /\ ~hw.RTOF /\ ~hw.RTOEN
      /\ hw.RxState = "RESET" /\ isr = NotRunning /\ pc = "InitConsoleUart" /\ rxLength = 0
  BY DEF Init, DriverInit, HwReset
<1>6. CallPlaced /\ PeriodAccepted /\ BeforeFirst
  BY <1>4, <1>5 DEF CallPlaced, PeriodAccepted, BeforeFirst
<1>7. FullLength /\ CountsStored
  BY <1>5, MaxLengthAssumption DEF FullLength, CountsStored, Stored, NotRunning
<1> QED BY <1>3, <1>6, <1>7 DEF Sound

\* The drivers' variables keep their types in every step.
LEMMA DriversTyped ==
  ASSUME Sound, Next
  PROVE  DriverTypeOK' /\ LptimTypeOK'
<1>0. Running /\ DriverTypeOK /\ LptimTypeOK /\ CallPlaced /\ PeriodAccepted /\ rxLength \in Nat
  BY OnlyRunningSteps, MaxLengthAssumption DEF Sound, TypeOK
<1>1. ASSUME TimerRests PROVE LptimTypeOK'
  BY <1>0, <1>1, NotElapsedTyped DEF TimerRests, TimerStep, LptimTypeOK
<1>2. ASSUME UNCHANGED <<uart, hw, isr, call>>, cb' = NoCallback PROVE DriverTypeOK'
  BY <1>0, <1>2 DEF DriverTypeOK, NoCallback, Callback
<1>3. CASE InitConsoleUart
  BY <1>0, <1>1, <1>3, ApiCallTyped DEF InitConsoleUart
<1>4. CASE Banner \/ Hello
  <2>1. (platform_uart_transmit(1) \/ FinishTransmit) /\ TimerRests
    BY <1>4 DEF Banner, Hello, Transmit
  <2> QED BY <1>0, <1>1, <2>1, ApiCallTyped, CallStepTyped
<1>5. CASE InitPeriodicLptim
  <2>1. DriverTypeOK'
    BY <1>2, <1>5 DEF InitPeriodicLptim, TaskStep
  <2>2. HELLO_PERIOD_MS \in Nat /\ OnPeriodic \in Nat
    BY DEF HELLO_PERIOD_MS, OnPeriodic
  <2>3. CASE Configure
    BY <1>0, <2>1, <2>3, ConfigureTyped DEF Configure, PeriodAccepted
  <2>4. CASE CopyCallback
    BY <1>0, <2>1, <2>4, CopyTyped
  <2>5. CASE \/ platform_lptim_register_callbacks(OnPeriodic)
             \/ platform_lptim_init(HELLO_PERIOD_MS) \/ platform_lptim_start
    BY <1>0, <2>1, <2>2, <2>5, TimerApiTyped
  <2> QED BY <1>5, <2>3, <2>4, <2>5 DEF InitPeriodicLptim
<1>6. CASE StartReceiveAsync
  <2>1. /\ \/ platform_uart_receive_until_timeout_async(MaxLength)
           \/ EnableTimeout \/ ArmReceive \/ StartReceive \/ UndoTimeout
        /\ TimerRests
    BY <1>6 DEF StartReceiveAsync
  <2>2. MaxLength \in Nat
    BY MaxLengthAssumption
  <2> QED BY <1>0, <1>1, <2>1, <2>2, ApiCallTyped, CallStepTyped
<1>7. CASE xTaskNotifyWait
  BY <1>1, <1>2, <1>7 DEF xTaskNotifyWait, TaskStep
<1>8. CASE Echo
  <2>1. TimerRests /\ \/ TaskStep /\ UNCHANGED <<uart, hw, call>>
                      \/ platform_uart_transmit(rxLength)
                      \/ FinishTransmit
    BY <1>8 DEF Echo
  <2>2. CASE TaskStep /\ UNCHANGED <<uart, hw, call>>
    BY <1>1, <1>2, <2>1, <2>2 DEF TaskStep
  <2>3. CASE platform_uart_transmit(rxLength) \/ FinishTransmit
    BY <1>0, <1>1, <2>1, <2>3, ApiCallTyped, CallStepTyped
  <2> QED BY <2>1, <2>2, <2>3
<1>9. CASE Interrupt
  BY <1>0, <1>1, <1>9, DriverInterruptTyped DEF Interrupt
<1>10. CASE TimerInterrupt \/ HelloPeriod
  BY <1>0, <1>2, <1>10, TimerHardwareTyped DEF TimerInterrupt, HelloPeriod
<1>11. CASE Arrival \/ DmaTransfer \/ Silence
  <2>1. /\ \/ \E b \in Byte : ByteArrives(b)
           \/ DmaMovesByte \/ LineFallsSilent
        /\ TimerRests
    BY <1>11 DEF Arrival, DmaTransfer, Silence
  <2> QED BY <1>0, <1>1, <2>1, HardwareTyped
<1> QED
  BY <1>3, <1>4, <1>5, <1>6, <1>7, <1>8, <1>9, <1>10, <1>11 DEF Next, EchoTask

\* So do the variables of the application.
LEMMA StepTyped ==
  ASSUME Sound, Next
  PROVE  TypeOK'
<1>0. /\ TypeOK /\ Running /\ DriverTypeOK /\ LptimTypeOK /\ CallPlaced
      /\ MaxLength \in Nat \ {0} /\ rxLength \in 0..MaxLength
  BY OnlyRunningSteps, MaxLengthAssumption DEF Sound, TypeOK
<1>1. DriverTypeOK' /\ LptimTypeOK'
  BY DriversTyped
<1>2. ASSUME pc' \in Location, UNCHANGED <<notified, taken, rxLength, rxBuffer, arrived, echoed>>
      PROVE  TypeOK'
  BY <1>0, <1>1, <1>2 DEF TypeOK
<1>3. CASE InitConsoleUart
  BY <1>0, <1>2, <1>3, InitConsoleCases DEF InitConsoleUart, Location
<1>4. CASE Banner
  BY <1>0, <1>2, <1>4 DEF Banner, Then, Location
<1>5. CASE Hello
  BY <1>0, <1>2, <1>5 DEF Hello, Then, Location
<1>6. CASE InitPeriodicLptim
  BY <1>0, <1>2, <1>6 DEF InitPeriodicLptim, Location
<1>7. CASE StartReceiveAsync
  <2>1. pc' \in Location
    BY <1>7 DEF StartReceiveAsync, Then, HelloOr, Location
  <2>2. rxLength' \in 0..MaxLength
    BY <1>0, <1>7, StartCases
  <2> QED BY <1>0, <1>1, <1>7, <2>1, <2>2 DEF StartReceiveAsync, TypeOK
<1>8. CASE xTaskNotifyWait
  BY <1>0, <1>1, <1>8 DEF xTaskNotifyWait, TypeOK, Location
<1>9. CASE Echo
  <2>1. pc' \in Location
    BY <1>9 DEF Echo, Then, Location
  <2>2. CASE UNCHANGED echoed
    BY <1>2, <1>9, <2>1, <2>2 DEF Echo
  <2>3. CASE FinishTransmit /\ echoed' = echoed \o SubSeq(rxBuffer, 1, call.len)
    <3>1. call.pc = "sending" /\ call.len \in Nat
      BY <1>0, <2>3 DEF FinishTransmit, DriverTypeOK, Call, Returned, InProgress, Length
    <3>2. Stored(call.len) /\ echoed \in Seq(Byte)
      BY <1>0, <1>9, <3>1 DEF Echo, Sound, CountsStored, TypeOK
    <3>3. echoed' \in Seq(Byte)
      BY <2>3, <3>1, <3>2, Appended
    <3> QED BY <1>0, <1>1, <1>9, <2>1, <3>3 DEF Echo, TypeOK
  <2> QED BY <1>9, <2>2, <2>3 DEF Echo
<1>10. CASE Interrupt
  <2>1. UNCHANGED <<taken, rxBuffer, arrived, echoed>>
    BY <1>10 DEF Interrupt
  <2>2. pc' \in {pc, "Error_Handler"} /\ rxLength' \in 0..MaxLength
    BY <1>0, <1>10, InterruptCases
  <2>3. notified' \subseteq {"RX", "PERIODIC_TX"}
    BY <1>0, <1>10, InterruptCases DEF TypeOK
  <2> QED BY <1>0, <1>1, <2>1, <2>2, <2>3 DEF TypeOK, Location
<1>11. CASE TimerInterrupt
  BY <1>0, <1>1, <1>11 DEF TimerInterrupt, OnPeriodicTimerElapsed, TypeOK
<1>12. CASE Arrival
  BY <1>0, <1>1, <1>12 DEF Arrival, TypeOK
<1>13. CASE DmaTransfer
  <2>1. hw.RDR \in Byte \cup {NoByte}
    BY <1>0 DEF DriverTypeOK, HwState
  <2>2. rxBuffer' \in [Length -> Byte \cup {NoByte}]
    BY <1>0, <1>13, <2>1 DEF DmaTransfer, TypeOK
  <2> QED BY <1>0, <1>1, <1>13, <2>2 DEF DmaTransfer, TypeOK
<1>14. CASE Silence \/ HelloPeriod
  BY <1>0, <1>2, <1>14 DEF Silence, HelloPeriod, appVars, TypeOK
<1> QED
  BY <1>3, <1>4, <1>5, <1>6, <1>7, <1>8, <1>9, <1>10, <1>11, <1>12, <1>13, <1>14
     DEF Next, EchoTask

\* A period is written to the timer only after it has been accepted.
LEMMA StepAccepted ==
  ASSUME Sound, Next
  PROVE  PeriodAccepted'
<1>0. PeriodAccepted /\ tcall \in TimerCall
  BY OnlyRunningSteps DEF Sound, TypeOK, LptimTypeOK
<1>1. CASE UNCHANGED tcall
  BY <1>0, <1>1 DEF PeriodAccepted
<1>2. CASE InitPeriodicLptim
  <2>1. tcall'.ret = "OK"
    BY <1>2 DEF InitPeriodicLptim
  <2>2. CASE platform_lptim_init(HELLO_PERIOD_MS)
    BY <2>1, <2>2, TimerReturnTyped DEF platform_lptim_init, PeriodAccepted
  <2>3. CASE \/ platform_lptim_register_callbacks(OnPeriodic)
             \/ Configure \/ platform_lptim_start
    BY <2>3, TimerReturnTyped
       DEF platform_lptim_register_callbacks, Configure, platform_lptim_start, Control,
           PeriodAccepted
  <2>4. CASE CopyCallback
    <3>1. tcall.pc = "copy" /\ \/ tcall' = TimerReturn("OK")
                               \/ \E words : tcall' = [tcall EXCEPT !.words = words]
      BY <2>4 DEF CopyCallback
    <3>2. tcall'.pc # "configure"
      BY <1>0, <3>1, TimerReturnTyped DEF TimerCall
    <3> QED BY <3>2 DEF PeriodAccepted
  <2> QED BY <1>2, <2>2, <2>3, <2>4 DEF InitPeriodicLptim
<1> QED
  BY <1>1, <1>2
     DEF Next, EchoTask, InitConsoleUart, Banner, StartReceiveAsync, xTaskNotifyWait, Echo,
         Hello, Interrupt, TimerInterrupt, Arrival, DmaTransfer, Silence, HelloPeriod,
         TimerRests, LPTIM1_IRQHandler, PeriodPasses

\* A step of the task that leaves the receiver alone.
LEMMA TaskSound ==
  ASSUME Sound, Running, isr' = isr, rxBuffer' = rxBuffer, rxLength' = rxLength,
         uart'.rx_dma_length = uart.rx_dma_length,
         SameTransfer(hw', hw), SameTimeout(hw', hw),
         pc # "InitConsoleUart", pc' # "InitConsoleUart",
         call.pc \in {"idle", "sending"},
         \/ call'.pc = "idle"
         \/ /\ call'.pc = "sending" /\ pc' \in {"banner", "echo", "hello"}
            /\ pc' = "echo" => call'.len = rxLength
  PROVE  CallPlaced' /\ BeforeFirst' /\ FullLength' /\ CountsStored'
<1>0. BeforeFirst /\ FullLength /\ CountsStored /\ hw \in HwState
  BY DEF Sound, TypeOK, DriverTypeOK
<1>1. CallPlaced'
  BY DEF CallPlaced
<1>2. BeforeFirst'
  BY <1>0 DEF BeforeFirst, SameTransfer, SameTimeout
<1>3. FullLength'
  BY <1>0 DEF FullLength, SameTransfer
<1>4. CountsStored'
  BY <1>0 DEF CountsStored, Stored, SameTransfer
<1> QED BY <1>1, <1>2, <1>3, <1>4

\* The steps of StartReceiveAsync.
LEMMA StartSound ==
  ASSUME Sound, StartReceiveAsync, Running'
  PROVE  CallPlaced' /\ BeforeFirst' /\ FullLength' /\ CountsStored'
<1>0. /\ CallPlaced /\ BeforeFirst /\ FullLength /\ CountsStored /\ DriverTypeOK
      /\ hw \in HwState /\ call \in Call /\ MaxLength \in Nat \ {0}
      /\ rxBuffer' = rxBuffer /\ pc = "StartReceiveAsync"
  BY MaxLengthAssumption DEF Sound, TypeOK, DriverTypeOK, Running, StartReceiveAsync
<1>1. isr = NotRunning /\ isr' = isr
  BY <1>0, StartCases
<1>2. ASSUME SameTransfer(hw', hw), hw'.RTOF = hw.RTOF, pc' = pc,
             rxLength' \in {rxLength, 0}, uart'.rx_dma_length = MaxLength
      PROVE  FullLength' /\ CountsStored'
  <2>1. FullLength'
    BY <1>0, <1>2 DEF FullLength, SameTransfer
  <2>2. CountsStored'
    BY <1>0, <1>1, <1>2 DEF CountsStored, Stored, SameTransfer
  <2> QED BY <2>1, <2>2
<1>3. CASE /\ call.pc = "idle" /\ hw' = hw /\ rxLength' = 0 /\ pc' = pc
           /\ uart'.rx_dma_length = MaxLength
           /\ call'.pc = "enable" /\ call'.op = "until_timeout" /\ call'.len = MaxLength
  <2>1. CallPlaced'
    BY <1>0, <1>3 DEF CallPlaced
  <2>2. BeforeFirst'
    BY <1>0, <1>1, <1>3 DEF BeforeFirst
  <2> QED BY <1>2, <1>3, <2>1, <2>2 DEF SameTransfer
<1>4. CASE /\ call.pc = "enable" /\ hw' = HAL_UART_EnableReceiverTimeout(hw) /\ uart' = uart
           /\ call'.pc = "arm" /\ call'.op = call.op /\ call'.len = call.len
           /\ pc' = pc /\ rxLength' = rxLength
  <2>1. /\ SameTransfer(hw', hw) /\ hw'.RTOF = hw.RTOF
    BY <1>0, <1>4, EnableReceiverTimeoutEffect
  <2>2. CallPlaced'
    BY <1>0, <1>4 DEF CallPlaced
  <2>3. BeforeFirst'
    BY <1>0, <1>1, <1>4, <2>1 DEF BeforeFirst, SameTransfer
  <2> QED BY <1>0, <1>2, <1>4, <2>1, <2>2, <2>3 DEF CallPlaced
<1>5. CASE /\ call.pc = "arm" /\ hw' = Receive_DMA_Arm(hw) /\ uart' = uart
           /\ call'.pc = "start" /\ call'.op = call.op /\ call'.len = call.len
           /\ pc' = pc /\ rxLength' = rxLength
  <2>1. /\ SameTransfer(hw', hw) /\ hw'.RTOF = hw.RTOF
    BY <1>0, <1>5, ReceiveArmEffect
  <2>2. CallPlaced'
    BY <1>0, <1>5 DEF CallPlaced
  <2>3. BeforeFirst'
    BY <1>0, <1>1, <1>5, <2>1 DEF BeforeFirst, SameTransfer
  <2> QED BY <1>0, <1>2, <1>5, <2>1, <2>2, <2>3 DEF CallPlaced
<1>6. CASE /\ call.pc = "arm" /\ hw.RxState # "READY" /\ hw' = hw
           /\ uart'.rx_dma_length = uart.rx_dma_length
           /\ call'.pc = "undo" /\ call'.ret = "BUSY"
           /\ call'.op = call.op /\ call'.len = call.len
           /\ pc' = pc /\ rxLength' = rxLength
  <2>1. CallPlaced'
    BY <1>0, <1>6 DEF CallPlaced
  <2>2. BeforeFirst'
    BY <1>0, <1>6 DEF BeforeFirst
  <2> QED BY <1>0, <1>2, <1>6, <2>1, <2>2 DEF CallPlaced, SameTransfer
<1>7. CASE /\ call.pc = "start" /\ hw' = Receive_DMA_Start(hw, MaxLength) /\ uart' = uart
           /\ call'.pc = "idle" /\ rxLength' = rxLength
  <2>1. ~hw'.TC /\ hw'.remaining = MaxLength /\ hw'.size = MaxLength
    BY <1>0, <1>7, ReceiveStartEffect
  <2>2. CallPlaced'
    BY <1>7 DEF CallPlaced
  <2>3. BeforeFirst'
    BY <1>0, <2>1 DEF BeforeFirst
  <2>4. FullLength'
    BY <1>0, <1>7, <2>1 DEF FullLength, CallPlaced
  <2>5. CountsStored'
    BY <1>0, <1>1, <1>7, <2>1 DEF CountsStored, Stored
  <2> QED BY <2>2, <2>3, <2>4, <2>5
<1> QED
  BY <1>0, <1>3, <1>4, <1>5, <1>6, <1>7, StartCases DEF Running

\* The interrupts of the driver.
LEMMA InterruptSound ==
  ASSUME Sound, Interrupt, Running'
  PROVE  CallPlaced' /\ BeforeFirst' /\ FullLength' /\ CountsStored'
<1>0. /\ CallPlaced /\ BeforeFirst /\ FullLength /\ CountsStored /\ DriverTypeOK
      /\ hw \in HwState /\ uart \in platform_uart /\ MaxLength \in Nat \ {0}
      /\ rxBuffer' = rxBuffer /\ call' = call
  BY InterruptCases, MaxLengthAssumption DEF Sound, TypeOK, DriverTypeOK, Interrupt
<1>1. CASE UsartRtoIrq /\ UNCHANGED <<pc, rxLength, notified>>
  <2>1. /\ SameTransfer(hw', hw) /\ hw'.RTOEN = hw.RTOEN /\ ~hw'.RTOF
        /\ isr' = BytesReceived /\ uart'.rx_dma_length = uart.rx_dma_length /\ hw.RTOF
    BY <1>0, <1>1, CloseTimeoutEffect DEF UsartRtoIrq, RtoPending, platform_uart
  <2>2. hw.size = MaxLength /\ uart.rx_dma_length = MaxLength
    BY <1>0, <2>1 DEF BeforeFirst, FullLength
  <2>3. isr' = hw.size - hw.remaining
    BY <1>0, <2>1, <2>2 DEF BytesReceived, FullLength, HwState
  <2>4. CallPlaced' /\ BeforeFirst'
    BY <1>0, <1>1, <2>1, <2>2 DEF CallPlaced, BeforeFirst, SameTransfer
  <2>5. FullLength' /\ CountsStored'
    BY <1>0, <1>1, <2>1, <2>2, <2>3 DEF FullLength, CountsStored, Stored, SameTransfer
  <2> QED BY <2>4, <2>5
<1>2. CASE /\ CompleteRx /\ isr \in 0..MaxLength
           /\ pc' = pc /\ rxLength' = isr
  <2>1. /\ isr # NotRunning /\ isr' = NotRunning /\ uart' = uart /\ TransferOver(hw', hw)
    BY <1>0, <1>2, CompleteRxEffect
  <2>2. hw.size # 0
    BY <1>0, <2>1 DEF BeforeFirst
  <2>3. CallPlaced' /\ BeforeFirst'
    BY <1>0, <1>2, <2>1, <2>2 DEF CallPlaced, BeforeFirst, TransferOver
  <2>4. FullLength' /\ CountsStored'
    BY <1>0, <1>2, <2>1 DEF FullLength, CountsStored, Stored, TransferOver, NotRunning
  <2> QED BY <2>3, <2>4
<1>3. CASE UsartTxIrq /\ UNCHANGED <<pc, rxLength, notified>>
  <2>1. SameTransfer(hw', hw) /\ SameTimeout(hw', hw) /\ isr' = isr /\ uart' = uart
    BY <1>0, <1>3, TransmitOverEffect DEF UsartTxIrq
  <2>2. CallPlaced' /\ BeforeFirst'
    BY <1>0, <1>3, <2>1 DEF CallPlaced, BeforeFirst, SameTransfer, SameTimeout
  <2>3. FullLength' /\ CountsStored'
    BY <1>0, <1>3, <2>1 DEF FullLength, CountsStored, Stored, SameTransfer
  <2> QED BY <2>2, <2>3
<1>4. CASE /\ GPDMA1_Channel1_IRQHandler /\ uart.rx_dma_length \in 0..MaxLength
           /\ pc' = pc /\ rxLength' = uart.rx_dma_length
  <2>1. /\ hw' = AfterRxCplt(hw) /\ hw.TC /\ isr' = isr
        /\ uart'.rx_dma_length = uart.rx_dma_length
    BY <1>0, <1>4 DEF GPDMA1_Channel1_IRQHandler, platform_uart
  <2>2. TransferOver(hw', hw)
    BY <1>0, <2>1, AfterRxCpltEffect
  <2>3. hw.size = MaxLength /\ hw.remaining = 0 /\ uart.rx_dma_length = MaxLength
    BY <1>0, <2>1 DEF BeforeFirst, FullLength
  <2>4. CallPlaced' /\ BeforeFirst'
    BY <1>0, <1>4, <2>1, <2>2, <2>3 DEF CallPlaced, BeforeFirst, TransferOver
  <2>5. FullLength' /\ CountsStored'
    BY <1>0, <1>4, <2>1, <2>2, <2>3 DEF FullLength, CountsStored, Stored, TransferOver
  <2> QED BY <2>4, <2>5
<1> QED
  BY <1>0, <1>1, <1>2, <1>3, <1>4, InterruptCases DEF Running

\* The line and the DMA channel.
LEMMA LineSound ==
  ASSUME Sound, Arrival \/ DmaTransfer \/ Silence
  PROVE  CallPlaced' /\ BeforeFirst' /\ FullLength' /\ CountsStored'
<1>0. /\ CallPlaced /\ BeforeFirst /\ FullLength /\ CountsStored /\ DriverTypeOK
      /\ hw \in HwState /\ MaxLength \in Nat \ {0} /\ rxLength \in 0..MaxLength
      /\ call' = call /\ uart' = uart /\ isr' = isr /\ pc' = pc /\ rxLength' = rxLength
  BY MaxLengthAssumption
     DEF Sound, TypeOK, DriverTypeOK, Arrival, DmaTransfer, Silence, ByteArrives, DmaMovesByte,
         LineFallsSilent, HardwareStep, appVars
<1>1. CallPlaced'
  BY <1>0 DEF CallPlaced
<1>2. CASE Arrival
  <2>1. hw' = ReceiveChar(hw, arrived + 1) /\ rxBuffer' = rxBuffer
    BY <1>2 DEF Arrival, ByteArrives
  <2>2. SameTransfer(hw', hw) /\ hw'.RTOEN = hw.RTOEN /\ hw'.RTOF = hw.RTOF
    BY <1>0, <2>1, ReceiveCharEffect
  <2>3. BeforeFirst' /\ FullLength' /\ CountsStored'
    BY <1>0, <2>1, <2>2
       DEF BeforeFirst, FullLength, CountsStored, Stored, SameTransfer
  <2> QED BY <1>1, <2>3
<1>3. CASE DmaTransfer
  <2>1. /\ hw' = DmaStore(hw) /\ hw.DMAR /\ hw.remaining > 0 /\ hw.RDR # NoByte
        /\ rxBuffer' = [rxBuffer EXCEPT ![hw.size - hw.remaining + 1] = hw.RDR]
    BY <1>3 DEF DmaTransfer, DmaMovesByte, DmaRequest
  <2>2. /\ hw'.size = hw.size /\ hw'.remaining = hw.remaining - 1
        /\ hw'.TC <=> hw.remaining = 1
    BY <1>0, <2>1, DmaStoreEffect
  <2>3. hw.size = MaxLength /\ hw.remaining \in 1..MaxLength
    BY <1>0, <2>1 DEF BeforeFirst, FullLength, HwState
  <2>4. BeforeFirst' /\ FullLength'
    BY <1>0, <2>2, <2>3 DEF BeforeFirst, FullLength
  <2>5. /\ rxBuffer \in [Length -> Byte \cup {NoByte}]
        /\ hw.RDR \in Byte /\ hw.size - hw.remaining + 1 \in Length
    BY <1>0, <2>1, <2>3 DEF Sound, TypeOK, HwState, Length
  <2>6. ASSUME NEW i \in Length
        PROVE  rxBuffer'[i] = IF i = hw.size - hw.remaining + 1 THEN hw.RDR ELSE rxBuffer[i]
    BY <2>1, <2>5
  <2>7. ASSUME NEW n \in 0..MaxLength, Stored(n)
        PROVE  \A i \in 1..n : rxBuffer'[i] \in Byte
    BY <1>0, <2>5, <2>6, <2>7 DEF Stored, Length
  <2>8. \A i \in 1..(hw'.size - hw'.remaining) : rxBuffer'[i] \in Byte
    BY <1>0, <2>2, <2>3, <2>5, <2>6 DEF CountsStored, Stored, Length
  <2>9. call.pc = "sending" => call.len \in 0..MaxLength
    BY <1>0 DEF DriverTypeOK, Call, Returned, InProgress, Length
  <2>10. isr = NotRunning \/ isr \in 0..MaxLength
    BY <1>0, MaxLengthAssumption DEF DriverTypeOK, NotRunning
  <2>11. CountsStored'
    <3>1. Stored(hw.size - hw.remaining)'
      BY <2>8 DEF Stored
    <3>2. Stored(isr)'
      BY <1>0, <2>7, <2>10 DEF CountsStored, Stored, NotRunning
    <3>3. Stored(rxLength)'
      BY <1>0, <2>7 DEF CountsStored, Stored
    <3>4. (pc' = "echo" /\ call'.pc = "sending") => Stored(call.len)'
      BY <1>0, <2>7, <2>9 DEF CountsStored, Stored
    <3> QED BY <3>1, <3>2, <3>3, <3>4 DEF CountsStored, Stored
  <2> QED BY <1>1, <2>4, <2>11
<1>4. CASE Silence
  <2>1. /\ hw' = SilenceElapsed(hw) /\ rxBuffer' = rxBuffer /\ hw.RTOEN
        /\ call.pc \in {"idle", "sending"}
    BY <1>4 DEF Silence, LineFallsSilent, appVars
  <2>2. SameTransfer(hw', hw) /\ hw'.RTOEN = hw.RTOEN
    BY <1>0, <2>1, SilenceEffect
  <2>3. hw.size # 0
    BY <1>0, <2>1 DEF BeforeFirst
  <2>4. BeforeFirst' /\ FullLength' /\ CountsStored'
    BY <1>0, <2>1, <2>2, <2>3
       DEF BeforeFirst, FullLength, CountsStored, Stored, SameTransfer
  <2> QED BY <1>1, <2>4
<1> QED BY <1>2, <1>3, <1>4

\* Every step keeps what holds whoever sends.
LEMMA StepSound ==
  ASSUME Sound, Next
  PROVE  Sound'
<1>0. /\ CallPlaced /\ BeforeFirst /\ FullLength /\ CountsStored /\ DriverTypeOK /\ Running
      /\ hw \in HwState /\ uart \in platform_uart /\ MaxLength \in Nat \ {0}
  BY OnlyRunningSteps, MaxLengthAssumption DEF Sound, TypeOK, DriverTypeOK
<1> SUFFICES ASSUME Running'
             PROVE  CallPlaced' /\ BeforeFirst' /\ FullLength' /\ CountsStored'
  BY StepTyped, StepAccepted DEF Sound
<1>1. CASE InitConsoleUart
  <2>1. /\ pc = "InitConsoleUart" /\ isr = NotRunning /\ isr' = isr
        /\ hw' = HAL_UART_Init(hw) /\ call.pc = "idle" /\ call'.pc = "idle"
        /\ uart'.rx_dma_length = uart.rx_dma_length /\ pc' = "banner"
        /\ rxLength' = rxLength /\ rxBuffer' = rxBuffer
    BY <1>0, <1>1, InitConsoleCases DEF InitConsoleUart
  <2>2. /\ hw'.RxState = "READY" /\ ~hw'.RTOF /\ hw'.RTOEN = hw.RTOEN /\ hw'.DMAR = hw.DMAR
        /\ hw'.TC = hw.TC /\ hw'.remaining = hw.remaining /\ hw'.size = hw.size
    BY <1>0, <2>1, InitEffect
  <2>3. CallPlaced' /\ BeforeFirst'
    BY <1>0, <2>1, <2>2 DEF CallPlaced, BeforeFirst
  <2>4. FullLength' /\ CountsStored'
    BY <1>0, <2>1, <2>2 DEF FullLength, CountsStored, Stored
  <2> QED BY <2>3, <2>4
<1>2. ASSUME NEW n \in Nat \ {0}, NEW next, Transmit(n), Then(next),
             rxLength' = rxLength, rxBuffer' = rxBuffer, next # "InitConsoleUart",
             pc \in {"banner", "echo", "hello"}, pc = "echo" => n = rxLength \/ FinishTransmit
      PROVE  CallPlaced' /\ BeforeFirst' /\ FullLength' /\ CountsStored'
  <2>1. /\ uart' = uart /\ isr = NotRunning /\ isr' = isr
        /\ SameTimeout(hw', hw) /\ SameTransfer(hw', hw)
        /\ \/ call.pc = "idle" /\ call'.pc = "sending" /\ call'.len = n /\ pc' = pc
           \/ call.pc = "sending" /\ call'.pc = "idle" /\ pc' = next
    BY <1>0, <1>2, TransmitCases DEF Running
  <2>2. call.pc = "idle" => ~FinishTransmit
    BY DEF FinishTransmit
  <2>3. pc # "InitConsoleUart" /\ pc' # "InitConsoleUart" /\ call.pc \in {"idle", "sending"}
    BY <1>2, <2>1
  <2>4. \/ call'.pc = "idle"
        \/ /\ call'.pc = "sending" /\ pc' \in {"banner", "echo", "hello"}
           /\ pc' = "echo" => call'.len = rxLength
    BY <1>2, <2>1, <2>2
  <2>5. uart'.rx_dma_length = uart.rx_dma_length
    BY <2>1
  <2> QED BY <1>0, <1>2, <2>1, <2>3, <2>4, <2>5, TaskSound
<1>3. CASE Banner
  BY <1>2, <1>3 DEF Banner
<1>4. CASE Hello
  BY <1>2, <1>4 DEF Hello
<1>5. ASSUME UNCHANGED <<uart, hw, isr, call, rxLength, rxBuffer>>,
             pc # "InitConsoleUart", pc' # "InitConsoleUart", call.pc = "idle"
      PROVE  CallPlaced' /\ BeforeFirst' /\ FullLength' /\ CountsStored'
  <2>1. SameTransfer(hw', hw) /\ SameTimeout(hw', hw)
    BY <1>5 DEF SameTransfer, SameTimeout
  <2> QED BY <1>0, <1>5, <2>1, TaskSound
<1>6. CASE InitPeriodicLptim \/ xTaskNotifyWait
  <2>1. call.pc = "idle"
    BY <1>0, <1>6 DEF CallPlaced, InitPeriodicLptim, xTaskNotifyWait
  <2> QED BY <1>5, <1>6, <2>1 DEF InitPeriodicLptim, xTaskNotifyWait, TaskStep
<1>7. CASE StartReceiveAsync
  BY <1>7, StartSound
<1>8. CASE Echo
  <2>1. pc = "echo" /\ rxLength' = rxLength /\ rxBuffer' = rxBuffer
        /\ rxLength \in Nat
    BY <1>8, MaxLengthAssumption DEF Echo, Sound, TypeOK
  <2>2. CASE Idle /\ TaskStep /\ pc' = "StartReceiveAsync" /\ UNCHANGED <<uart, hw, call>>
    BY <1>5, <2>1, <2>2 DEF Idle, TaskStep
  <2>3. CASE /\ rxLength > 0 /\ platform_uart_transmit(rxLength) /\ Then("StartReceiveAsync")
    BY <1>2, <2>1, <2>3 DEF Transmit
  <2>4. CASE FinishTransmit /\ Then("StartReceiveAsync")
    <3>1. Transmit(1)
      BY <2>4 DEF Transmit
    <3> QED BY <1>2, <2>1, <2>4, <3>1
  <2> QED BY <1>8, <2>2, <2>3, <2>4 DEF Echo
<1>9. CASE Interrupt
  BY <1>9, InterruptSound
<1>10. CASE TimerInterrupt \/ HelloPeriod
  BY <1>0, <1>10
     DEF TimerInterrupt, HelloPeriod, appVars, CallPlaced, BeforeFirst, FullLength,
         CountsStored, Stored
<1>11. CASE Arrival \/ DmaTransfer \/ Silence
  BY <1>11, LineSound
<1> QED
  BY <1>1, <1>3, <1>4, <1>6, <1>7, <1>8, <1>9, <1>10, <1>11 DEF Next, EchoTask

\* A step that changes nothing keeps it, too.
LEMMA StutterSound == Sound /\ UNCHANGED vars => Sound'
BY DEF Sound, vars, TypeOK, DriverTypeOK, LptimTypeOK, Running, CallPlaced, BeforeFirst,
       FullLength, CountsStored, Stored, PeriodAccepted

\* Every variable of the application and of the two drivers has its type,
\* whatever the sender does and whenever the timer elapses: no count exceeds
\* the buffer, and nothing is echoed but characters.
THEOREM TypeCorrect == Spec => []TypeOK
<1>1. Init => Sound
  BY InitSound
<1>2. Sound /\ [Next]_vars => Sound'
  BY StepSound, StutterSound
<1>3. Sound => TypeOK
  BY DEF Sound
<1> QED BY <1>1, <1>2, <1>3, PTL DEF Spec

-----------------------------------------------------------------------------
(* The receiver, the transmitter and the timer go along with the task.     *)

\* Where a task is that has a call under way, and what its receiver does.
LEMMA PhaseCases ==
  ASSUME Sound, Running, Phase
  PROVE  /\ pc \in {"banner", "echo"} => Rest /\ "RX" \notin notified /\ call.pc \in {"idle", "sending"}
         /\ pc \in {"InitConsoleUart", "InitPeriodicLptim"} =>
              Rest /\ "RX" \notin notified /\ call.pc = "idle"
         /\ pc = "StartReceiveAsync" =>
              "RX" \notin notified /\ IF call.pc = "idle" THEN Rest ELSE Starting
         /\ pc = "StartReceiveAsync" => call.pc # "sending"
         /\ pc = "xTaskNotifyWait" => call.pc = "idle"
         /\ pc = "hello" => call.pc \in {"idle", "sending"}
         /\ pc \in {"xTaskNotifyWait", "hello"} =>
              IF "RX" \in notified THEN Rest ELSE Receiving \/ Closing
         /\ pc \in Location \ {"Error_Handler"}
BY DEF Sound, TypeOK, Running, Phase, CallPlaced

\* The receiver keeps its state if nothing of it changes.
LEMMA ReceiverKept ==
  ASSUME SameTimeout(hw', hw), SameTransfer(hw', hw), isr' = isr,
         uart'.rx_until_timeout_active = uart.rx_until_timeout_active
  PROVE  /\ Rest /\ pc # "InitConsoleUart" /\ pc' # "InitConsoleUart" => Rest'
         /\ Receiving => Receiving'
         /\ Closing => Closing'
BY DEF SameTimeout, SameTransfer, Rest, Receiving, Closing

\* A transmit is never refused and leaves the receiver as it was.
LEMMA TransmitInStep ==
  ASSUME Sound, Running, InStep, NEW n \in Length, NEW next, Transmit(n), Then(next),
         notified' = notified, taken' = taken, lptim' = lptim,
         \/ pc = "banner" /\ next = "InitPeriodicLptim"
         \/ pc = "echo" /\ next = "StartReceiveAsync"
         \/ pc = "hello" /\ next = "xTaskNotifyWait"
  PROVE  Running' /\ InStep'
<1>0. /\ DriverTypeOK /\ hw \in HwState /\ n \in Nat \ {0}
      /\ Phase /\ Transmitter /\ NoGreeting /\ NeverFull
  BY MaxLengthAssumption DEF Sound, TypeOK, DriverTypeOK, InStep, Length
<1>1. /\ uart' = uart /\ isr' = isr
      /\ SameTimeout(hw', hw) /\ SameTransfer(hw', hw) /\ SameLine(hw', hw)
      /\ \/ /\ hw'.gState = "BUSY_TX" /\ ~hw'.txDma
            /\ call.pc = "idle" /\ call'.pc = "sending" /\ pc' = pc
         \/ /\ hw'.gState = "READY" /\ hw'.txDma = hw.txDma
            /\ call.pc = "sending" /\ call'.pc = "idle" /\ pc' = next
  <2>1. call.pc = "idle" => hw.gState = "READY"
    BY <1>0 DEF Transmitter
  <2> QED BY <1>0, <2>1, TransmitCases
<1>2. /\ pc \in {"banner", "echo"} => Rest /\ "RX" \notin notified
      /\ pc = "hello" => IF "RX" \in notified THEN Rest ELSE Receiving \/ Closing
  BY <1>0, PhaseCases
<1>3. (Rest => Rest') /\ (Receiving => Receiving') /\ (Closing => Closing')
  BY <1>1, ReceiverKept
<1>4. Phase'
  BY <1>1, <1>2, <1>3 DEF Phase
<1>5. Transmitter'
  BY <1>0, <1>1 DEF Transmitter
<1>6. NoGreeting'
  BY <1>0, <1>1 DEF NoGreeting
<1>7. NeverFull'
  BY <1>0, <1>1 DEF NeverFull, SameTimeout, SameTransfer, SameLine
<1> QED BY <1>1, <1>4, <1>5, <1>6, <1>7 DEF InStep, Running

\* No call of StartReceiveAsync is refused.
LEMMA StartInStep ==
  ASSUME Sound, Running, InStep, StartReceiveAsync
  PROVE  Running' /\ InStep'
<1>0. /\ DriverTypeOK /\ hw \in HwState /\ CallPlaced /\ FullLength /\ MaxLength \in Nat \ {0}
      /\ Phase /\ Transmitter /\ NoGreeting /\ NeverFull
      /\ pc = "StartReceiveAsync" /\ isr = NotRunning /\ isr' = isr
      /\ notified' = notified /\ taken' = taken /\ lptim' = lptim
  BY StartCases, MaxLengthAssumption
     DEF Sound, TypeOK, DriverTypeOK, InStep, StartReceiveAsync, TimerRests
<1>1. /\ "RX" \notin notified /\ IF call.pc = "idle" THEN Rest ELSE Starting
      /\ call.pc # "sending" /\ hw.gState = "READY" /\ ~hw.txDma
  BY <1>0, PhaseCases DEF Transmitter
<1>2. ASSUME pc' = pc, call'.pc \in {"enable", "arm", "start"}, Starting',
             SameTransfer(hw', hw), SameLine(hw', hw), SameTransmit(hw', hw),
             hw'.RTOF = hw.RTOF, hw'.counting = hw.counting
      PROVE  Running' /\ InStep'
  <2>1. Phase'
    BY <1>0, <1>1, <1>2 DEF Phase
  <2>2. Transmitter'
    BY <1>0, <1>1, <1>2 DEF Transmitter, SameTransmit
  <2>3. NoGreeting'
    BY <1>0, <1>2 DEF NoGreeting
  <2>4. NeverFull'
    BY <1>0, <1>2 DEF NeverFull, SameTransfer, SameLine
  <2> QED BY <1>0, <1>2, <2>1, <2>2, <2>3, <2>4 DEF InStep, Running
<1>3. CASE /\ call.pc = "idle" /\ hw' = hw /\ pc' = pc
           /\ uart'.rx_until_timeout_active /\ call'.pc = "enable"
  <2>1. /\ SameTransfer(hw', hw) /\ SameLine(hw', hw) /\ SameTransmit(hw', hw)
        /\ hw'.RTOF = hw.RTOF /\ hw'.counting = hw.counting
    BY <1>3 DEF SameTransfer, SameLine, SameTransmit
  <2>2. Starting'
    BY <1>0, <1>1, <1>3 DEF Starting, Rest
  <2> QED BY <1>2, <1>3, <2>1, <2>2
<1>4. CASE /\ call.pc = "enable" /\ hw' = HAL_UART_EnableReceiverTimeout(hw) /\ uart' = uart
           /\ call'.pc = "arm" /\ pc' = pc
  <2>1. /\ SameTransfer(hw', hw) /\ SameLine(hw', hw) /\ SameTransmit(hw', hw)
        /\ hw'.RTOF = hw.RTOF /\ hw'.counting = hw.counting /\ hw'.RTOEN
    BY <1>0, <1>1, <1>4, EnableReceiverTimeoutEffect
  <2>2. Starting'
    BY <1>0, <1>1, <1>4, <2>1 DEF Starting, SameTransfer
  <2> QED BY <1>2, <1>4, <2>1, <2>2
<1>5. CASE /\ call.pc = "arm" /\ hw' = Receive_DMA_Arm(hw) /\ uart' = uart
           /\ call'.pc = "start" /\ pc' = pc
  <2>1. Starting /\ hw.RTOEN
    BY <1>1, <1>5 DEF Starting
  <2>2. /\ SameTransfer(hw', hw) /\ SameLine(hw', hw) /\ SameTransmit(hw', hw)
        /\ hw'.RTOF = hw.RTOF /\ hw'.counting = hw.counting /\ hw'.RTOEN = hw.RTOEN /\ hw'.RTOIE
    BY <1>0, <1>5, <2>1, ReceiveArmEffect
  <2>3. Starting'
    BY <1>0, <1>5, <2>1, <2>2 DEF Starting, SameTransfer
  <2> QED BY <1>2, <1>5, <2>2, <2>3
<1>6. CASE /\ call.pc = "start" /\ hw' = Receive_DMA_Start(hw, MaxLength) /\ uart' = uart
           /\ call'.pc = "idle" /\ pc' = HelloOr("xTaskNotifyWait")
  <2>1. Starting /\ hw.RTOEN /\ hw.RTOIE /\ ~hw.RTOF
    BY <1>1, <1>6 DEF Starting
  <2>2. /\ SameTimeout(hw', hw) /\ SameLine(hw', hw) /\ SameTransmit(hw', hw)
        /\ hw'.DMAR /\ ~hw'.TC /\ hw'.remaining = MaxLength /\ hw'.size = MaxLength
    BY <1>0, <1>6, ReceiveStartEffect
  <2>3. Receiving'
    BY <1>0, <1>6, <2>1, <2>2 DEF Receiving, Starting, SameTimeout
  <2>4. /\ pc' \in {"xTaskNotifyWait", "hello"}
        /\ pc' = "hello" => "PERIODIC_TX" \in taken
    BY <1>6 DEF HelloOr
  <2>5. Phase'
    BY <1>0, <1>1, <2>3, <2>4 DEF Phase
  <2>6. Transmitter'
    BY <1>1, <1>6, <2>2, <2>4 DEF Transmitter, SameTransmit
  <2>7. NoGreeting'
    BY <1>0, <2>4 DEF NoGreeting
  <2>8. NeverFull'
    <3>1. hw.RDR # NoByte /\ Sender = "brief" => MaxLength > 1
      BY <1>0 DEF NeverFull, FullLength, HwState
    <3>2. hw'.RDR = hw.RDR /\ hw'.RTOF = hw.RTOF
      BY <2>2 DEF SameLine, SameTimeout
    <3> QED BY <1>0, <2>1, <2>2, <3>1, <3>2 DEF NeverFull
  <2> QED BY <2>4, <2>5, <2>6, <2>7, <2>8 DEF InStep, Running
<1>7. ~(call.pc = "arm" /\ hw.RxState # "READY") /\ call.pc # "undo"
  BY <1>1 DEF Starting
<1> QED BY <1>0, <1>1, <1>3, <1>4, <1>5, <1>6, <1>7, StartCases

\* A transmit lasts when a full buffer or a silence is served: only a greeting
\* can, so the sender is brief.
LEMMA BusyOnlyInGreeting ==
  ASSUME Quiet, Sound, Running, InStep, pc \in {"xTaskNotifyWait", "hello"},
         hw.gState # "READY"
  PROVE  Sender = "brief"
<1>1. call.pc = "sending"
  BY DEF InStep, Transmitter
<1>2. pc = "hello"
  BY <1>1, PhaseCases DEF InStep
<1>3. Periodic
  BY <1>2, PeriodicAssumption DEF InStep, NoGreeting
<1> QED BY <1>3 DEF Quiet

\* The interrupts go along with the task as well; only an overrun is an error.
LEMMA InterruptInStep ==
  ASSUME Quiet, Sound, Running, InStep, Interrupt
  PROVE  (Running' /\ InStep') \/ (~Running' /\ hw.ORE)
<1>0. /\ DriverTypeOK /\ hw \in HwState /\ uart \in platform_uart /\ MaxLength \in Nat \ {0}
      /\ FullLength /\ BeforeFirst
      /\ Phase /\ Transmitter /\ NoGreeting /\ NeverFull
      /\ call' = call /\ taken' = taken /\ lptim' = lptim
  BY InterruptCases, MaxLengthAssumption
     DEF Sound, TypeOK, DriverTypeOK, InStep, Interrupt, TimerRests
<1>1. \/ Rest \/ Starting
      \/ /\ Receiving \/ Closing
         /\ pc \in {"xTaskNotifyWait", "hello"} /\ "RX" \notin notified
  BY <1>0, PhaseCases DEF Location
<1>2. CASE UsartRtoIrq /\ UNCHANGED <<pc, rxLength, notified>>
  <2>1. /\ isr = NotRunning /\ uart.rx_until_timeout_active /\ hw.RTOF /\ hw.RTOIE
        /\ isr' = BytesReceived /\ ~uart'.rx_until_timeout_active
        /\ hw' = CloseTimeout(hw)
    BY <1>0, <1>2 DEF UsartRtoIrq, IsrStep, RtoPending, platform_uart
  <2>2. /\ SameTransfer(hw', hw) /\ SameLine(hw', hw) /\ SameTransmit(hw', hw)
        /\ ~hw'.RTOIE /\ ~hw'.RTOF /\ hw'.counting = hw.counting
    BY <1>0, <2>1, CloseTimeoutEffect
  <2>3. Receiving /\ pc \in {"xTaskNotifyWait", "hello"} /\ "RX" \notin notified
    BY <1>1, <2>1 DEF Rest, Starting, Closing
  <2>4. isr' # NotRunning /\ isr' <= hw.size - hw.remaining
    BY <1>0, <2>1, <2>3 DEF BytesReceived, FullLength, Receiving, HwState, NotRunning
  <2>5. Closing'
    BY <2>1, <2>2, <2>3, <2>4 DEF Closing, Receiving, SameTransfer
  <2>6. Phase'
    BY <1>2, <2>3, <2>5 DEF Phase
  <2>7. Transmitter'
    BY <1>0, <1>2, <2>2 DEF Transmitter, SameTransmit
  <2>8. NoGreeting'
    BY <1>0, <1>2 DEF NoGreeting
  <2>9. NeverFull'
    BY <1>0, <2>1, <2>2 DEF NeverFull, SameTransfer, SameLine
  <2> QED BY <1>2, <2>6, <2>7, <2>8, <2>9 DEF InStep, Running
<1>3. CASE CompleteRx /\ pc' = pc /\ notified' = notified \cup {"RX"}
  <2>1. /\ isr # NotRunning /\ isr' = NotRunning /\ uart' = uart
        /\ TransferOver(hw', hw) /\ SameTransmit(hw', hw)
        /\ hw'.RDR = NoByte /\ hw'.RTOIE = hw.RTOIE /\ hw'.RTOF = hw.RTOF
        /\ IF hw.gState = "READY" THEN ~hw'.RTOEN /\ ~hw'.counting
           ELSE hw'.RTOEN = hw.RTOEN /\ hw'.counting = hw.counting
    BY <1>0, <1>3, CompleteRxEffect
  <2>2. Closing /\ pc \in {"xTaskNotifyWait", "hello"}
    BY <1>1, <2>1 DEF Rest, Starting, Receiving
  <2>3. ~hw'.counting /\ (hw'.RTOEN => Sender = "brief")
    BY <1>0, <2>1, <2>2, BusyOnlyInGreeting DEF NeverFull
  <2>4. Rest'
    BY <1>3, <2>1, <2>2, <2>3 DEF Rest, Closing, TransferOver
  <2>5. Phase'
    BY <1>3, <2>2, <2>4 DEF Phase
  <2>6. Transmitter'
    BY <1>0, <1>3, <2>1 DEF Transmitter, SameTransmit
  <2>7. NoGreeting'
    BY <1>0, <1>3 DEF NoGreeting
  <2>8. NeverFull'
    BY <2>1, <2>3 DEF NeverFull, TransferOver
  <2> QED BY <1>3, <2>5, <2>6, <2>7, <2>8 DEF InStep, Running
<1>4. CASE UsartErrorIrq /\ pc' = "Error_Handler"
  <2>1. isr = NotRunning /\ HalErrorPending(hw)
        /\ ~(uart.rx_until_timeout_active /\ hw.RTOF /\ hw.RTOIE)
    BY <1>4 DEF UsartErrorIrq, IsrStep, RtoPending
  <2>2. ~(hw.RTOF /\ hw.RTOIE)
    BY <1>1, <2>1 DEF Rest, Starting, Receiving, Closing
  <2> QED BY <1>4, <2>1, <2>2 DEF HalErrorPending, Running
<1>5. CASE UsartTxIrq
  BY <1>0, <1>5 DEF UsartTxIrq, Transmitter
<1>6. CASE /\ GPDMA1_Channel1_IRQHandler
           /\ pc' = pc /\ notified' = notified \cup {"RX"}
  <2>1. /\ isr = NotRunning /\ hw.TC /\ hw' = AfterRxCplt(hw) /\ isr' = isr
        /\ ~uart'.rx_until_timeout_active
    BY <1>0, <1>6 DEF GPDMA1_Channel1_IRQHandler, IsrStep, platform_uart
  <2>2. Receiving /\ pc \in {"xTaskNotifyWait", "hello"} /\ uart.rx_until_timeout_active
    BY <1>1, <2>1 DEF Rest, Starting, Receiving, Closing
  <2>3. Sender # "brief"
    BY <1>0, <2>1 DEF NeverFull
  <2>4. hw.gState = "READY"
    BY <2>2, <2>3, BusyOnlyInGreeting
  <2>5. /\ TransferOver(hw', hw) /\ SameTransmit(hw', hw)
        /\ ~hw'.RTOIE /\ ~hw'.RTOF /\ ~hw'.RTOEN /\ ~hw'.counting
    BY <1>0, <2>1, <2>2, <2>4, AfterRxCpltEffect
  <2>6. Rest'
    BY <1>6, <2>1, <2>2, <2>5 DEF Rest, TransferOver
  <2>7. Phase'
    BY <1>6, <2>2, <2>6 DEF Phase
  <2>8. Transmitter'
    BY <1>0, <1>6, <2>5 DEF Transmitter, SameTransmit
  <2>9. NoGreeting'
    BY <1>0, <1>6 DEF NoGreeting
  <2>10. NeverFull'
    BY <2>3 DEF NeverFull
  <2> QED BY <1>6, <2>7, <2>8, <2>9, <2>10 DEF InStep, Running
<1> QED
  BY <1>0, <1>2, <1>3, <1>4, <1>5, <1>6, InterruptCases

\* A step of the line or of the DMA channel.
LEMMA LineInStep ==
  ASSUME Sound, Running, InStep, Arrival \/ DmaTransfer \/ Silence
  PROVE  Running' /\ InStep'
<1>0. /\ DriverTypeOK /\ hw \in HwState /\ FullLength /\ CallPlaced
      /\ Phase /\ Transmitter /\ NoGreeting /\ NeverFull
      /\ call' = call /\ uart' = uart /\ isr' = isr /\ pc' = pc /\ notified' = notified
      /\ taken' = taken /\ lptim' = lptim
  BY DEF Sound, TypeOK, DriverTypeOK, InStep, Arrival, DmaTransfer, Silence, ByteArrives,
         DmaMovesByte, LineFallsSilent, HardwareStep, TimerRests, appVars
<1>1. ASSUME Rest => Rest', Starting => Starting', Receiving => Receiving', Closing => Closing',
             SameTransmit(hw', hw), NeverFull'
      PROVE  Running' /\ InStep'
  <2>1. Phase'
    BY <1>0, <1>1 DEF Phase
  <2>2. Transmitter' /\ NoGreeting'
    BY <1>0, <1>1 DEF Transmitter, NoGreeting, SameTransmit
  <2> QED BY <1>0, <1>1, <2>1, <2>2 DEF InStep, Running
<1>2. CASE Arrival
  <2>1. /\ hw' = ReceiveChar(hw, arrived + 1)
        /\ Sender = "brief" => hw.DMAR /\ hw.remaining > 1 /\ ~hw.RTOF /\ isr = NotRunning
    BY <1>2 DEF Arrival, ByteArrives
  <2>2. /\ SameTransfer(hw', hw) /\ SameTransmit(hw', hw) /\ hw'.RTOEN = hw.RTOEN
        /\ hw'.RTOIE = hw.RTOIE /\ hw'.RTOF = hw.RTOF /\ hw'.counting = hw.RTOEN
    BY <1>0, <2>1, ReceiveCharEffect
  <2>3. Rest => Rest'
    BY <1>0, <2>1, <2>2 DEF Rest, SameTransfer, HwState
  <2>4. (Starting => Starting') /\ (Receiving => Receiving') /\ (Closing => Closing')
    BY <1>0, <2>2 DEF Starting, Receiving, Closing, SameTransfer
  <2>5. NeverFull'
    BY <1>0, <2>1, <2>2 DEF NeverFull, SameTransfer
  <2> QED BY <1>1, <2>2, <2>3, <2>4, <2>5
<1>3. CASE DmaTransfer
  <2>1. hw' = DmaStore(hw) /\ hw.DMAR /\ hw.remaining > 0 /\ hw.RDR # NoByte
    BY <1>3 DEF DmaTransfer, DmaMovesByte, DmaRequest
  <2>2. /\ SameTimeout(hw', hw) /\ SameTransmit(hw', hw) /\ hw'.RDR = NoByte
        /\ hw'.DMAR = hw.DMAR /\ hw'.size = hw.size /\ hw'.remaining = hw.remaining - 1
        /\ hw'.TC <=> hw.remaining = 1
    BY <1>0, <2>1, DmaStoreEffect
  <2>3. ~Rest /\ ~Starting
    BY <2>1 DEF Rest, Starting
  <2>4. hw.remaining \in Nat /\ hw.size \in Nat /\ isr \in Int
    BY <1>0, MaxLengthAssumption DEF DriverTypeOK, HwState, NotRunning
  <2>5. (Receiving => Receiving') /\ (Closing => Closing')
    BY <1>0, <2>1, <2>2, <2>4 DEF Receiving, Closing, SameTimeout
  <2>6. NeverFull'
    BY <1>0, <2>1, <2>2, <2>4 DEF NeverFull, SameTimeout
  <2> QED BY <1>1, <2>2, <2>3, <2>5, <2>6
<1>4. CASE Silence
  <2>1. /\ hw' = SilenceElapsed(hw) /\ hw.counting /\ isr = NotRunning
        /\ call.pc \in {"idle", "sending"}
    BY <1>4 DEF Silence, LineFallsSilent
  <2>2. /\ SameTransfer(hw', hw) /\ SameLine(hw', hw) /\ SameTransmit(hw', hw)
        /\ hw'.RTOEN = hw.RTOEN /\ hw'.RTOIE = hw.RTOIE /\ ~hw'.counting
    BY <1>0, <2>1, SilenceEffect
  <2>3. ~Rest /\ ~Closing
    BY <2>1 DEF Rest, Closing
  <2>4. Receiving /\ pc \in {"xTaskNotifyWait", "hello"} /\ "RX" \notin notified
    BY <1>0, <2>1, <2>3, PhaseCases DEF Location
  <2>5. Receiving'
    BY <1>0, <2>2, <2>4 DEF Receiving, SameTransfer
  <2>6. Phase'
    BY <1>0, <2>4, <2>5 DEF Phase
  <2>7. Transmitter' /\ NoGreeting' /\ NeverFull'
    BY <1>0, <2>2 DEF Transmitter, NoGreeting, NeverFull, SameTransfer, SameLine, SameTransmit
  <2> QED BY <1>0, <2>6, <2>7 DEF InStep, Running
<1> QED BY <1>2, <1>3, <1>4

\* Every step leaves them in step, but for an overrun, which ends the program.
LEMMA StepInStep ==
  ASSUME Quiet, Sound, Running, InStep, Next
  PROVE  (Running' /\ InStep') \/ (~Running' /\ hw.ORE)
<1>0. /\ DriverTypeOK /\ hw \in HwState /\ rxLength \in 0..MaxLength /\ MaxLength \in Nat \ {0}
      /\ notified \subseteq {"RX", "PERIODIC_TX"} /\ lptim \in Lptim
      /\ Phase /\ Transmitter /\ NoGreeting /\ NeverFull
  BY MaxLengthAssumption DEF Sound, TypeOK, DriverTypeOK, LptimTypeOK, InStep
<1>1. ASSUME UNCHANGED <<uart, hw, isr, call>>, Phase', NoGreeting', Running',
             pc # "InitConsoleUart", pc' # "InitConsoleUart"
      PROVE  Running' /\ InStep'
  BY <1>0, <1>1 DEF InStep, Transmitter, NeverFull
<1>2. CASE InitConsoleUart
  <2>1. /\ pc = "InitConsoleUart" /\ isr = NotRunning /\ isr' = isr
        /\ hw' = HAL_UART_Init(hw) /\ call'.pc = "idle"
        /\ uart'.rx_until_timeout_active = uart.rx_until_timeout_active /\ pc' = "banner"
        /\ notified' = notified /\ taken' = taken /\ lptim' = lptim
    BY <1>0, <1>2, InitConsoleCases DEF InitConsoleUart, TimerRests
  <2>2. Rest /\ "RX" \notin notified /\ ~hw.txDma
    BY <1>0, <2>1, PhaseCases DEF Transmitter
  <2>3. /\ hw'.gState = "READY" /\ hw'.RxState = "READY"
        /\ ~hw'.RTOF /\ ~hw'.counting /\ hw'.RDR = NoByte
        /\ hw'.RTOEN = hw.RTOEN /\ hw'.RTOIE = hw.RTOIE /\ hw'.EIE = hw.EIE
        /\ hw'.DMAR = hw.DMAR /\ hw'.TC = hw.TC /\ hw'.txDma = hw.txDma
    BY <1>0, <2>1, InitEffect
  <2>4. Rest'
    BY <2>1, <2>2, <2>3 DEF Rest
  <2>5. Phase' /\ NoGreeting'
    BY <1>0, <2>1, <2>2, <2>4 DEF Phase, NoGreeting
  <2>6. Transmitter'
    BY <2>1, <2>2, <2>3 DEF Transmitter
  <2>7. NeverFull'
    BY <2>1, <2>3, <2>4 DEF NeverFull, Rest
  <2> QED BY <2>1, <2>5, <2>6, <2>7 DEF InStep, Running
<1>3. CASE Banner
  <2>1. 1 \in Length
    BY <1>0 DEF Length
  <2> QED BY <1>3, <2>1, TransmitInStep DEF Banner, TimerRests
<1>4. CASE Hello
  <2>1. 1 \in Length
    BY <1>0 DEF Length
  <2> QED BY <1>4, <2>1, TransmitInStep DEF Hello, TimerRests
<1>5. CASE InitPeriodicLptim
  <2>1. /\ pc = "InitPeriodicLptim" /\ pc' \in {"StartReceiveAsync", pc}
        /\ UNCHANGED <<uart, hw, isr, call, notified, taken>>
    BY <1>5 DEF InitPeriodicLptim, TaskStep
  <2>2. Rest /\ "RX" \notin notified /\ call.pc = "idle"
    BY <1>0, <2>1, PhaseCases
  <2>3. Rest'
    BY <2>1, <2>2 DEF Rest
  <2>4. Phase'
    BY <2>1, <2>2, <2>3 DEF Phase
  <2>5. ~lptim.ARRM => ~lptim'.ARRM
    BY <1>0, <1>5
       DEF InitPeriodicLptim, platform_lptim_register_callbacks, CopyCallback,
           platform_lptim_init, Configure, platform_lptim_start, Control, HAL_LPTIM_MspInit, Lptim
  <2>6. NoGreeting'
    BY <1>0, <2>1, <2>5 DEF NoGreeting
  <2> QED BY <1>1, <2>1, <2>4, <2>6 DEF Running
<1>6. CASE StartReceiveAsync
  BY <1>6, StartInStep
<1>7. CASE xTaskNotifyWait
  <2>1. /\ pc = "xTaskNotifyWait" /\ isr = NotRunning /\ notified # {}
        /\ UNCHANGED <<uart, hw, isr, call, lptim>>
        /\ taken' = notified /\ notified' = {}
        /\ pc' = IF "RX" \in notified THEN "echo" ELSE "hello"
    BY <1>7 DEF xTaskNotifyWait, TaskStep, TimerRests
  <2>2. IF "RX" \in notified THEN Rest ELSE Receiving
    BY <1>0, <2>1, PhaseCases DEF Closing
  <2>3. (Rest => Rest') /\ (Receiving => Receiving')
    BY <2>1 DEF Rest, Receiving
  <2>4. Phase'
    BY <2>1, <2>2, <2>3 DEF Phase
  <2>5. NoGreeting'
    BY <1>0, <2>1 DEF NoGreeting
  <2> QED BY <1>1, <2>1, <2>4, <2>5 DEF Running
<1>8. CASE Echo
  <2>1. pc = "echo" /\ notified' = notified /\ taken' = taken /\ lptim' = lptim
    BY <1>8 DEF Echo, TimerRests
  <2>2. Rest /\ "RX" \notin notified
    BY <1>0, <2>1, PhaseCases
  <2>3. CASE Idle /\ TaskStep /\ pc' = "StartReceiveAsync" /\ UNCHANGED <<uart, hw, call>>
    <3>1. Rest'
      BY <2>1, <2>2, <2>3 DEF Rest, TaskStep
    <3>2. Phase' /\ NoGreeting'
      BY <1>0, <2>1, <2>2, <2>3, <3>1 DEF Phase, NoGreeting, Idle
    <3> QED BY <1>1, <2>1, <2>3, <3>2 DEF TaskStep, Running
  <2>4. CASE /\ rxLength > 0 /\ platform_uart_transmit(rxLength) /\ Then("StartReceiveAsync")
    <3>1. rxLength \in Length
      BY <1>0, <2>4 DEF Length
    <3> QED BY <2>1, <2>4, <3>1, TransmitInStep DEF Transmit
  <2>5. CASE FinishTransmit /\ Then("StartReceiveAsync")
    <3>1. 1 \in Length
      BY <1>0 DEF Length
    <3> QED BY <2>1, <2>5, <3>1, TransmitInStep DEF Transmit
  <2> QED BY <1>8, <2>3, <2>4, <2>5 DEF Echo
<1>9. CASE Interrupt
  BY <1>9, InterruptInStep
<1>10. CASE TimerInterrupt \/ HelloPeriod
  <2>1. /\ UNCHANGED <<uart, hw, isr, call, pc, taken>>
        /\ "RX" \in notified' <=> "RX" \in notified
        /\ lptim.ARRM \/ Periodic
    BY <1>10
       DEF TimerInterrupt, HelloPeriod, appVars, LPTIM1_IRQHandler, LptimPending,
           OnPeriodicTimerElapsed
  <2>2. Phase'
    BY <1>0, <2>1 DEF Phase, Rest, Starting, Receiving, Closing
  <2>3. NoGreeting'
    BY <1>0, <2>1 DEF NoGreeting
  <2>4. Transmitter' /\ NeverFull'
    BY <1>0, <2>1 DEF Transmitter, NeverFull
  <2> QED BY <2>1, <2>2, <2>3, <2>4 DEF InStep, Running
<1>11. CASE Arrival \/ DmaTransfer \/ Silence
  BY <1>11, LineInStep
<1> QED
  BY <1>2, <1>3, <1>4, <1>5, <1>6, <1>7, <1>8, <1>9, <1>10, <1>11 DEF Next, EchoTask

-----------------------------------------------------------------------------
(* The characters keep their order on their way.                           *)

\* Characters are compared as numbers; Filled counts some of rxBuffer.
LEMMA StreamTypes ==
  ASSUME Sound, Running
  PROVE  /\ Filled \in 0..MaxLength /\ arrived \in Nat /\ hw.RDR \in Nat
         /\ rxBuffer \in [Length -> Nat]
         /\ DOMAIN echoed = 1..Len(echoed) /\ Len(echoed) \in Nat
         /\ \A k \in DOMAIN echoed : echoed[k] \in Nat
<1>0. /\ hw \in HwState /\ rxLength \in 0..MaxLength /\ MaxLength \in Nat \ {0} /\ FullLength
      /\ echoed \in Seq(Byte) /\ rxBuffer \in [Length -> Byte \cup {NoByte}]
      /\ arrived \in Byte \cup {0} /\ Byte \subseteq Nat
  BY MaxLengthAssumption, ByteAssumption DEF Sound, TypeOK, DriverTypeOK
<1>1. Filled \in 0..MaxLength
  BY <1>0 DEF Filled, FullLength, HwState
<1>2. hw.RDR \in Nat /\ rxBuffer \in [Length -> Nat]
  <2>1. Byte \cup {NoByte} \subseteq Nat
    BY <1>0 DEF NoByte
  <2>2. hw.RDR \in Byte \cup {NoByte}
    BY <1>0 DEF HwState
  <2> QED BY <1>0, <2>1, <2>2
<1>3. DOMAIN echoed = 1..Len(echoed) /\ Len(echoed) \in Nat
  BY <1>0, LenProperties
<1>4. \A k \in DOMAIN echoed : echoed[k] \in Nat
  BY <1>0, <1>3, ElementOfSeq
<1> QED BY <1>0, <1>1, <1>2, <1>3, <1>4

\* A step that moves no character, or drops what was still to come, keeps it.
LEMMA StreamKept ==
  ASSUME Sound, Running, Stream, UNCHANGED <<rxBuffer, arrived, echoed>>,
         Filled' \in 0..Filled, hw'.RDR \in {hw.RDR, NoByte},
         (pc' = "echo" /\ call'.pc = "sending") => call'.len = rxLength'
  PROVE  Stream'
<1>1. Filled \in Nat
  BY StreamTypes, MaxLengthAssumption
<1>2. \A i \in 1..Filled' : i \in 1..Filled
  BY <1>1
<1>3. \A i \in 1..Filled' :
        /\ rxBuffer[i] \in 1..arrived
        /\ \A j \in 1..Filled' : j < i => rxBuffer[j] < rxBuffer[i]
        /\ \A k \in DOMAIN echoed : echoed[k] < rxBuffer[i]
  BY <1>2 DEF Stream
<1>4. hw'.RDR # NoByte =>
        /\ hw'.RDR \in 1..arrived
        /\ \A i \in 1..Filled' : rxBuffer[i] < hw'.RDR
        /\ \A k \in DOMAIN echoed : echoed[k] < hw'.RDR
  BY <1>2 DEF Stream
<1> QED BY <1>3, <1>4 DEF Stream

\* A character that comes is later than all before.
LEMMA ArrivalStream ==
  ASSUME Sound, Running, Stream, Ordered, Arrival
  PROVE  Stream' /\ Ordered'
<1>0. /\ arrived \in Nat /\ arrived' = arrived + 1 /\ hw \in HwState
      /\ hw' = ReceiveChar(hw, arrived + 1)
      /\ UNCHANGED <<uart, isr, call, rxBuffer, echoed, pc, notified, rxLength>>
  BY StreamTypes
     DEF Arrival, ByteArrives, HardwareStep, Sound, TypeOK, DriverTypeOK
<1>1. SameTransfer(hw', hw) /\ hw'.RDR \in {hw.RDR, arrived + 1}
  BY <1>0, ReceiveCharEffect
<1>2. Filled' = Filled
  BY <1>0, <1>1 DEF Filled, SameTransfer
<1>3. /\ \A i \in 1..Filled : rxBuffer[i] \in 1..arrived
      /\ \A k \in DOMAIN echoed : echoed[k] \in 1..arrived
  BY DEF Stream, Ordered
<1>4. \A n \in 1..arrived : n \in 1..(arrived + 1) /\ n < arrived + 1
  BY <1>0
<1>5. hw'.RDR # NoByte =>
        /\ hw'.RDR \in 1..(arrived + 1)
        /\ \A i \in 1..Filled : rxBuffer[i] < hw'.RDR
        /\ \A k \in DOMAIN echoed : echoed[k] < hw'.RDR
  <2>1. CASE hw'.RDR = arrived + 1
    BY <1>0, <1>3, <1>4, <2>1
  <2>2. CASE hw'.RDR = hw.RDR
    BY <1>4, <2>2 DEF Stream
  <2> QED BY <1>1, <2>1, <2>2
<1>6. Stream'
  BY <1>0, <1>2, <1>3, <1>4, <1>5 DEF Stream
<1>7. Ordered'
  BY <1>0, <1>4 DEF Ordered
<1> QED BY <1>6, <1>7

\* The channel takes it to the end of what is in rxBuffer.
LEMMA DmaStream ==
  ASSUME Sound, Running, InStep, Stream, DmaTransfer
  PROVE  Stream'
<1>0. /\ hw \in HwState /\ hw' = DmaStore(hw) /\ hw.DMAR /\ hw.RDR # NoByte
      /\ hw.remaining > 0
      /\ rxBuffer' = [rxBuffer EXCEPT ![hw.size - hw.remaining + 1] = hw.RDR]
      /\ UNCHANGED <<call, echoed, pc, notified, rxLength, arrived>>
  BY DEF DmaTransfer, DmaMovesByte, DmaRequest, HardwareStep, Sound, TypeOK, DriverTypeOK
<1>1. /\ hw'.RDR = NoByte /\ hw'.DMAR = hw.DMAR
      /\ hw'.size = hw.size /\ hw'.remaining = hw.remaining - 1
  BY <1>0, DmaStoreEffect
<1>2. /\ Filled \in Nat /\ rxBuffer \in [Length -> Nat]
      /\ hw.size \in Nat /\ hw.remaining \in Nat /\ hw.size <= MaxLength
      /\ DOMAIN echoed = 1..Len(echoed) /\ MaxLength \in Nat
  BY <1>0, StreamTypes, MaxLengthAssumption DEF HwState
<1>3. Filled = hw.size - hw.remaining /\ Filled' = Filled + 1 /\ Filled + 1 \in Length
  BY <1>0, <1>1, <1>2 DEF Filled, Length
<1>4. ASSUME NEW i \in 1..(Filled + 1)
      PROVE  rxBuffer'[i] = IF i = Filled + 1 THEN hw.RDR ELSE rxBuffer[i]
  BY <1>0, <1>2, <1>3, <1>4 DEF Length
<1>5. /\ \A i \in 1..Filled :
           /\ rxBuffer[i] \in 1..arrived /\ rxBuffer[i] < hw.RDR
           /\ \A j \in 1..Filled : j < i => rxBuffer[j] < rxBuffer[i]
           /\ \A k \in DOMAIN echoed : echoed[k] < rxBuffer[i]
      /\ hw.RDR \in 1..arrived
      /\ \A k \in DOMAIN echoed : echoed[k] < hw.RDR
  BY <1>0 DEF Stream
<1>6. ASSUME NEW i \in 1..(Filled + 1)
      PROVE  /\ rxBuffer'[i] \in 1..arrived
             /\ \A j \in 1..(Filled + 1) : j < i => rxBuffer'[j] < rxBuffer'[i]
             /\ \A k \in DOMAIN echoed : echoed[k] < rxBuffer'[i]
  <2>1. CASE i = Filled + 1
    BY <1>2, <1>4, <1>5, <2>1
  <2>2. CASE i \in 1..Filled
    BY <1>2, <1>4, <1>5, <2>2
  <2> QED BY <1>2, <2>1, <2>2
<1>7. ~(pc = "echo")
  BY <1>0, PhaseCases DEF InStep, Rest
<1> QED BY <1>0, <1>1, <1>3, <1>6, <1>7 DEF Stream

\* An echo appends what is in rxBuffer, and nothing of it is left to be echoed.
LEMMA EchoStream ==
  ASSUME Sound, Running, InStep, Stream, Ordered, pc = "echo", FinishTransmit,
         Then("StartReceiveAsync"), UNCHANGED <<notified, rxLength, rxBuffer, arrived>>,
         echoed' = echoed \o SubSeq(rxBuffer, 1, call.len)
  PROVE  Stream' /\ Ordered'
<1> DEFINE m == Len(echoed)
           n == call.len
<1>0. /\ DriverTypeOK /\ echoed \in Seq(Byte) /\ CountsStored /\ Rest /\ "RX" \notin notified
  BY PhaseCases DEF Sound, TypeOK, InStep
<1>1. /\ call.pc = "sending" /\ hw' = [hw EXCEPT !.gState = "READY"]
      /\ n \in Nat /\ Stored(n) /\ n = rxLength
  BY <1>0
     DEF FinishTransmit, DriverTypeOK, Call, Returned, InProgress, Length, CountsStored, Stream
<1>2. pc' = "StartReceiveAsync" /\ hw'.DMAR = hw.DMAR /\ hw'.RDR = hw.RDR
  <2>1. Transmit(1)
    BY DEF Transmit
  <2>2. 1 \in Nat \ {0}
    OBVIOUS
  <2>3. SameTransfer(hw', hw) /\ SameLine(hw', hw) /\ pc' = "StartReceiveAsync"
    BY <1>0, <1>1, <2>1, <2>2, TransmitCases
  <2> QED BY <2>3 DEF SameTransfer, SameLine
<1>3. Filled = n /\ Filled' = 0
  BY <1>0, <1>1, <1>2 DEF Filled, Rest
<1>4. /\ m \in Nat /\ DOMAIN echoed = 1..m /\ DOMAIN echoed' = 1..(m + n)
      /\ \A k \in 1..m : echoed'[k] = echoed[k]
      /\ \A k \in (m + 1)..(m + n) : echoed'[k] = rxBuffer[k - m]
  BY <1>0, <1>1, Appended
<1>5. /\ \A i \in 1..n :
           /\ rxBuffer[i] \in 1..arrived
           /\ \A j \in 1..n : j < i => rxBuffer[j] < rxBuffer[i]
           /\ \A k \in 1..m : echoed[k] < rxBuffer[i]
           /\ hw.RDR # NoByte => rxBuffer[i] < hw.RDR
      /\ \A k \in 1..m :
           /\ echoed[k] \in 1..arrived
           /\ \A j \in 1..m : j < k => echoed[j] < echoed[k]
           /\ hw.RDR # NoByte => echoed[k] < hw.RDR
      /\ hw.RDR # NoByte => hw.RDR \in 1..arrived
  BY <1>3, <1>4 DEF Stream, Ordered
<1> HIDE DEF m, n
<1>6. m \in Nat /\ n \in Nat
  BY <1>1, <1>4
<1>7. /\ \A k \in 1..m : echoed'[k] = echoed[k]
      /\ \A k \in (m + 1)..(m + n) : echoed'[k] = rxBuffer[k - m]
  BY <1>4
<1>8. ASSUME NEW k \in 1..(m + n)
      PROVE  \/ k \in 1..m /\ echoed'[k] = echoed[k]
             \/ k - m \in 1..n /\ echoed'[k] = rxBuffer[k - m]
  <2>1. k \in 1..m \/ (k \in (m + 1)..(m + n) /\ k - m \in 1..n)
    BY <1>6
  <2> QED BY <1>7, <2>1
<1>9. ASSUME NEW k \in 1..(m + n)
      PROVE  /\ echoed'[k] \in 1..arrived
             /\ hw.RDR # NoByte => echoed'[k] < hw.RDR
  BY <1>5, <1>8
<1>10. ASSUME NEW k \in 1..(m + n), NEW j \in 1..(m + n), j < k
       PROVE  echoed'[j] < echoed'[k]
  <2>1. CASE k \in 1..m /\ echoed'[k] = echoed[k]
    <3>1. j \in 1..m
      BY <1>6, <1>10, <2>1
    <3> QED BY <1>5, <1>7, <1>10, <2>1, <3>1
  <2>2. CASE k - m \in 1..n /\ echoed'[k] = rxBuffer[k - m]
    <3>1. CASE j \in 1..m /\ echoed'[j] = echoed[j]
      BY <1>5, <2>2, <3>1
    <3>2. CASE j - m \in 1..n /\ echoed'[j] = rxBuffer[j - m]
      <4>1. j - m < k - m
        BY <1>6, <1>10
      <4> QED BY <1>5, <2>2, <3>2, <4>1
    <3> QED BY <1>8, <3>1, <3>2
  <2> QED BY <1>8, <2>1, <2>2
<1>11. Stream'
  <2>1. arrived' = arrived /\ rxBuffer' = rxBuffer /\ 1..Filled' = {}
    BY <1>3
  <2>2. hw'.RDR # NoByte => hw'.RDR \in 1..arrived'
    BY <1>2, <1>5, <2>1
  <2>3. hw'.RDR # NoByte => \A k \in DOMAIN echoed' : echoed'[k] < hw'.RDR
    BY <1>2, <1>4, <1>9
  <2> QED BY <1>2, <2>1, <2>2, <2>3 DEF Stream
<1>12. Ordered'
  BY <1>4, <1>9, <1>10 DEF Ordered
<1> QED BY <1>11, <1>12

\* Every step keeps the order.
LEMMA StepOrdered ==
  ASSUME Quiet, Sound, Running, InStep, Stream, Ordered, Next
  PROVE  Ordered' /\ (Running' => Stream')
<1>0. /\ DriverTypeOK /\ hw \in HwState /\ uart \in platform_uart
      /\ MaxLength \in Nat \ {0} /\ rxLength \in 0..MaxLength
      /\ FullLength /\ BeforeFirst /\ Phase /\ Filled \in Nat
  BY StreamTypes, MaxLengthAssumption DEF Sound, TypeOK, DriverTypeOK, InStep
<1>1. ASSUME UNCHANGED <<rxBuffer, arrived, echoed>>,
             Running' => /\ Filled' \in 0..Filled /\ hw'.RDR \in {hw.RDR, NoByte}
                         /\ (pc' = "echo" /\ call'.pc = "sending") => call'.len = rxLength'
      PROVE  Ordered' /\ (Running' => Stream')
  <2>1. Ordered'
    BY <1>1 DEF Ordered
  <2>2. Running' => Stream'
    BY <1>1, StreamKept
  <2> QED BY <2>1, <2>2
<1>2. CASE InitConsoleUart
  <2>1. /\ pc = "InitConsoleUart" /\ pc' = "banner" /\ hw' = HAL_UART_Init(hw)
        /\ UNCHANGED <<rxBuffer, arrived, echoed, notified, rxLength>>
    BY <1>0, <1>2, InitConsoleCases DEF InitConsoleUart
  <2>2. hw'.DMAR = hw.DMAR /\ hw'.RDR = NoByte
    BY <1>0, <2>1, InitEffect
  <2>3. Rest /\ "RX" \notin notified
    BY <1>0, <2>1, PhaseCases
  <2>4. Filled' = 0
    BY <2>1, <2>2, <2>3 DEF Filled, Rest
  <2> QED BY <1>0, <1>1, <2>1, <2>2, <2>4
<1>3. ASSUME NEW n \in Nat \ {0}, NEW next, Transmit(n), Then(next), next # "echo",
             UNCHANGED <<rxBuffer, arrived, echoed, notified, rxLength>>,
             pc = "echo" => n = rxLength /\ ~FinishTransmit
      PROVE  Ordered' /\ (Running' => Stream')
  <2>1. /\ SameTransfer(hw', hw) /\ SameLine(hw', hw)
        /\ \/ call.pc = "idle" /\ call'.pc = "sending" /\ call'.len = n /\ pc' = pc
           \/ pc' = "Error_Handler"
           \/ call.pc = "sending" /\ call'.pc = "idle" /\ pc' = next
    BY <1>0, <1>3, TransmitCases
  <2>2. call.pc = "sending" => FinishTransmit
    BY <1>3 DEF Transmit, platform_uart_transmit, EnterBlocking, Idle
  <2>3. Running' => Filled' \in 0..Filled
    BY <1>0, <1>3, <2>1, <2>2 DEF Filled, SameTransfer, Running
  <2>4. hw'.RDR = hw.RDR
    BY <2>1 DEF SameLine
  <2>5. Running' => ((pc' = "echo" /\ call'.pc = "sending") => call'.len = rxLength')
    BY <1>3, <2>1 DEF Running
  <2> QED BY <1>1, <1>3, <2>3, <2>4, <2>5
<1>4. CASE Banner
  BY <1>3, <1>4 DEF Banner
<1>5. CASE Hello
  BY <1>3, <1>5 DEF Hello
<1>6. CASE InitPeriodicLptim
  <2>1. /\ pc = "InitPeriodicLptim" /\ pc' # "echo"
        /\ UNCHANGED <<rxBuffer, arrived, echoed, hw, notified, rxLength>>
    BY <1>6 DEF InitPeriodicLptim
  <2>2. Filled' = Filled
    BY <2>1 DEF Filled
  <2> QED BY <1>0, <1>1, <2>1, <2>2
<1>7. CASE StartReceiveAsync
  <2>1. /\ UNCHANGED <<rxBuffer, arrived, echoed, notified>>
        /\ pc = "StartReceiveAsync" /\ "RX" \notin notified
    BY <1>0, <1>7, PhaseCases DEF StartReceiveAsync
  <2>2. pc' # "echo"
    BY <1>7 DEF StartReceiveAsync, Then, HelloOr
  <2>3. CASE \/ hw' = hw \/ hw' = HAL_UART_EnableReceiverTimeout(hw)
             \/ hw' = Receive_DMA_Arm(hw)
    <3>1. hw'.DMAR = hw.DMAR /\ hw'.RDR = hw.RDR /\ hw'.size = hw.size
          /\ hw'.remaining = hw.remaining
      BY <1>0, <2>3, EnableReceiverTimeoutEffect, ReceiveArmEffect DEF SameTransfer, SameLine
    <3>2. Filled' = Filled
      BY <2>1, <2>2, <3>1 DEF Filled
    <3> QED BY <1>0, <1>1, <2>1, <2>2, <3>1, <3>2
  <2>4. CASE hw' = Receive_DMA_Start(hw, MaxLength)
    <3>1. hw'.DMAR /\ hw'.RDR = hw.RDR /\ hw'.size = MaxLength /\ hw'.remaining = MaxLength
      BY <1>0, <2>4, ReceiveStartEffect DEF SameLine
    <3>2. Filled' = 0
      BY <1>0, <3>1 DEF Filled
    <3> QED BY <1>0, <1>1, <2>1, <2>2, <3>1, <3>2
  <2>5. ~Running' \/ \/ hw' = hw \/ hw' = HAL_UART_EnableReceiverTimeout(hw)
                     \/ hw' = Receive_DMA_Arm(hw) \/ hw' = Receive_DMA_Start(hw, MaxLength)
    BY <1>0, <1>7, StartCases DEF Running, Sound
  <2> QED BY <1>1, <2>1, <2>3, <2>4, <2>5
<1>8. CASE xTaskNotifyWait
  <2>1. /\ pc = "xTaskNotifyWait" /\ isr = NotRunning /\ notified' = {}
        /\ UNCHANGED <<rxBuffer, arrived, echoed, hw, call, rxLength>>
        /\ pc' = IF "RX" \in notified THEN "echo" ELSE "hello"
    BY <1>8 DEF xTaskNotifyWait, TaskStep
  <2>2. call.pc = "idle"
    BY <1>0, <2>1, PhaseCases
  <2>3. Filled' = Filled
    BY <2>1 DEF Filled
  <2> QED BY <1>0, <1>1, <2>1, <2>2, <2>3
<1>9. CASE Echo
  <2>1. pc = "echo" /\ UNCHANGED <<notified, rxLength, rxBuffer, arrived>>
    BY <1>9 DEF Echo
  <2>2. CASE rxLength = 0 /\ pc' = "StartReceiveAsync" /\ UNCHANGED <<hw, echoed>>
    <3>1. Filled' \in 0..Filled
      BY <1>0, <2>1, <2>2 DEF Filled
    <3> QED BY <1>1, <2>1, <2>2, <3>1
  <2>3. CASE /\ rxLength > 0 /\ platform_uart_transmit(rxLength) /\ Then("StartReceiveAsync")
             /\ UNCHANGED echoed
    <3>1. rxLength \in Nat \ {0} /\ Transmit(rxLength)
      BY <1>0, <2>3 DEF Transmit
    <3>2. call.pc = "idle"
      BY <2>3 DEF platform_uart_transmit, EnterBlocking, Idle
    <3>3. ~FinishTransmit
      BY <3>2 DEF FinishTransmit
    <3> QED BY <1>3, <2>1, <2>3, <3>1, <3>3
  <2>4. CASE /\ FinishTransmit /\ Then("StartReceiveAsync")
             /\ echoed' = echoed \o SubSeq(rxBuffer, 1, call.len)
    BY <2>1, <2>4, EchoStream
  <2> QED BY <1>9, <2>2, <2>3, <2>4 DEF Echo
<1>10. CASE Interrupt
  <2>0. UNCHANGED <<rxBuffer, arrived, echoed, call>>
    BY <1>0, <1>10, InterruptCases DEF Interrupt
  <2>1. (Running' /\ InStep') \/ ~Running'
    BY <1>10, InterruptInStep
  <2>2. CASE UsartRtoIrq /\ UNCHANGED <<pc, rxLength, notified>>
    <3>1. hw' = CloseTimeout(hw)
      BY <2>2 DEF UsartRtoIrq
    <3>2. SameTransfer(hw', hw) /\ SameLine(hw', hw)
      BY <1>0, <3>1, CloseTimeoutEffect
    <3>3. Filled' = Filled /\ hw'.RDR = hw.RDR
      BY <2>2, <3>2 DEF Filled, SameTransfer, SameLine
    <3>4. (pc = "echo" /\ call.pc = "sending") => call.len = rxLength
      BY DEF Stream
    <3> QED BY <1>0, <1>1, <2>0, <2>2, <3>3, <3>4
  <2>3. CASE /\ CompleteRx /\ pc' = pc /\ rxLength' = isr
             /\ notified' = notified \cup {"RX"} /\ isr \in 0..MaxLength
    <3>1. isr # NotRunning /\ TransferOver(hw', hw) /\ hw'.RDR = NoByte
      BY <1>0, <2>3, CompleteRxEffect
    <3>2. Closing /\ pc # "echo"
      BY <1>0, <3>1, PhaseCases DEF Rest, Starting, Receiving, Location
    <3>3. Filled = hw.size - hw.remaining /\ Filled' = isr /\ isr <= hw.size - hw.remaining
      BY <2>3, <3>1, <3>2 DEF Filled, TransferOver, Closing
    <3> QED BY <1>0, <1>1, <2>0, <2>3, <3>1, <3>2, <3>3
  <2>4. CASE pc' = "Error_Handler"
    BY <1>1, <2>0, <2>4 DEF Running
  <2>5. CASE UsartTxIrq
    BY <2>5 DEF UsartTxIrq, InStep, Transmitter
  <2>6. CASE /\ GPDMA1_Channel1_IRQHandler /\ pc' = pc /\ rxLength' = uart.rx_dma_length
             /\ notified' = notified \cup {"RX"}
    <3>1. /\ isr = NotRunning /\ hw.TC /\ hw' = AfterRxCplt(hw)
      BY <2>6 DEF GPDMA1_Channel1_IRQHandler, IsrStep
    <3>2. TransferOver(hw', hw) /\ SameLine(hw', hw)
      BY <1>0, <3>1, AfterRxCpltEffect
    <3>3. Receiving /\ pc # "echo"
      BY <1>0, <3>1, PhaseCases DEF Rest, Starting, Closing, Location
    <3>4. hw.size = MaxLength /\ hw.remaining = 0 /\ uart.rx_dma_length = MaxLength
      BY <1>0, <3>1 DEF BeforeFirst, FullLength
    <3>5. Filled = MaxLength /\ Filled' = MaxLength /\ hw'.RDR = hw.RDR
      BY <1>0, <2>6, <3>2, <3>3, <3>4 DEF Filled, TransferOver, Receiving, SameLine
    <3> QED BY <1>0, <1>1, <2>0, <2>6, <3>3, <3>5
  <2> QED BY <1>0, <1>10, <2>2, <2>3, <2>4, <2>5, <2>6, InterruptCases
<1>11. CASE TimerInterrupt \/ HelloPeriod
  <2>1. /\ UNCHANGED <<hw, call, pc, rxLength, rxBuffer, arrived, echoed>>
        /\ "RX" \in notified' <=> "RX" \in notified
    BY <1>11 DEF TimerInterrupt, HelloPeriod, appVars, OnPeriodicTimerElapsed
  <2>2. Filled' = Filled
    BY <2>1 DEF Filled
  <2>3. (pc = "echo" /\ call.pc = "sending") => call.len = rxLength
    BY DEF Stream
  <2> QED BY <1>0, <1>1, <2>1, <2>2, <2>3
<1>12. CASE Arrival
  BY <1>12, ArrivalStream
<1>13. CASE DmaTransfer
  <2>1. echoed' = echoed /\ arrived' = arrived
    BY <1>13 DEF DmaTransfer
  <2>2. Ordered'
    BY <2>1 DEF Ordered
  <2> QED BY <1>13, <2>2, DmaStream
<1>14. CASE Silence
  <2>1. /\ UNCHANGED <<call, pc, notified, rxLength, rxBuffer, arrived, echoed>>
        /\ hw' = SilenceElapsed(hw)
    BY <1>14 DEF Silence, LineFallsSilent, HardwareStep, appVars
  <2>2. SameTransfer(hw', hw) /\ SameLine(hw', hw)
    BY <1>0, <2>1, SilenceEffect
  <2>3. Filled' = Filled /\ hw'.RDR = hw.RDR
    BY <2>1, <2>2 DEF Filled, SameTransfer, SameLine
  <2>4. (pc = "echo" /\ call.pc = "sending") => call.len = rxLength
    BY DEF Stream
  <2> QED BY <1>0, <1>1, <2>1, <2>3, <2>4
<1> QED
  BY <1>2, <1>4, <1>5, <1>6, <1>7, <1>8, <1>9, <1>10, <1>11, <1>12, <1>13, <1>14
     DEF Next, EchoTask

-----------------------------------------------------------------------------
(* Theorems.                                                               *)

\* The program begins in a state of the invariant.
LEMMA InitHolds == Init => IInv
<1> SUFFICES ASSUME Init PROVE IInv
  OBVIOUS
<1>1. Sound
  BY InitSound
<1>2. /\ pc = "InitConsoleUart" /\ notified = {} /\ taken = {} /\ echoed = <<>>
      /\ hw = HwReset /\ isr = NotRunning /\ ~uart.rx_until_timeout_active
      /\ call.pc = "idle" /\ ~lptim.ARRM
  BY ReturnEffect DEF Init, DriverInit, LptimInit
<1>3. Rest
  BY <1>2 DEF Rest, HwReset
<1>4. Phase /\ NoGreeting
  BY <1>2, <1>3 DEF Phase, NoGreeting
<1>5. Transmitter /\ NeverFull
  BY <1>2 DEF Transmitter, NeverFull, HwReset
<1>6. Filled = 0 /\ hw.RDR = NoByte
  BY <1>2 DEF Filled, HwReset
<1>7. DOMAIN echoed = {}
  BY <1>2
<1>8. Stream /\ Ordered
  BY <1>2, <1>6, <1>7 DEF Stream, Ordered
<1> QED BY <1>1, <1>4, <1>5, <1>8 DEF IInv, InStep

\* Every step keeps the invariant.
LEMMA StepHolds ==
  ASSUME Quiet, IInv, [Next]_vars
  PROVE  IInv'
<1>1. CASE Next
  <2>1. Running /\ Sound /\ InStep /\ Stream /\ Ordered
    BY <1>1, OnlyRunningSteps DEF IInv
  <2>2. Sound' /\ Ordered' /\ (Running' => Stream')
    BY <1>1, <2>1, StepSound, StepOrdered
  <2>3. Running' => InStep'
    BY <1>1, <2>1, StepInStep
  <2> QED BY <2>2, <2>3 DEF IInv
<1>2. CASE UNCHANGED vars
  <2>1. Sound'
    BY <1>2, StutterSound DEF IInv
  <2>2. Running => Running /\ InStep /\ Stream
    BY DEF IInv
  <2>3. Ordered' /\ (Running' => Stream')
    BY <1>2 DEF vars, IInv, Ordered, Stream, Filled, Running
  <2>4. Running' => InStep'
    BY <1>2 DEF vars, IInv, Running, InStep, Phase, Rest, Starting, Receiving, Closing,
                Transmitter, NoGreeting, NeverFull
  <2> QED BY <2>1, <2>3, <2>4 DEF IInv
<1> QED BY <1>1, <1>2

\* Where the task is says what receiver, transmitter and timer do, and the
\* characters are in order wherever they are, as long as no greeting meets a
\* full buffer.
THEOREM StateKnown ==
  ASSUME Quiet
  PROVE  Spec => []IInv
<1>1. Init => IInv
  BY InitHolds
<1>2. IInv /\ [Next]_vars => IInv'
  BY StepHolds
<1> QED BY <1>1, <1>2, PTL DEF Spec

\* platform_uart_transmit is never called for a buffer that a receive could
\* write to: EchoTask starts no receive before the echo is over.
THEOREM OneOwner ==
  ASSUME Quiet
  PROVE  Spec => []BufferOwnership
<1>1. IInv => BufferOwnership
  BY DEF IInv, InStep, Phase, Rest, BufferOwnership, Running
<1> QED BY <1>1, StateKnown, PTL

\* What the task echoes came in, in that order, each character once at most,
\* whatever the interrupts do between its statements.
THEOREM EchoOrdered ==
  ASSUME Quiet
  PROVE  Spec => []EchoInOrder
<1>1. ASSUME IInv
      PROVE  EchoInOrder
  <2>1. Ordered /\ echoed \in Seq(Byte)
    BY <1>1 DEF IInv, Sound, TypeOK
  <2>2. DOMAIN echoed = 1..Len(echoed) /\ Len(echoed) \in Nat
    BY <2>1, LenProperties
  <2>3. \A i \in DOMAIN echoed : i > 1 => i - 1 \in DOMAIN echoed /\ i - 1 < i
    BY <2>2
  <2> QED BY <2>1, <2>3 DEF Ordered, EchoInOrder
<1> QED BY <1>1, StateKnown, PTL

\* A task in xTaskNotifyWait that no receive has told anything has a receive
\* that a silence or a full buffer ends: it does not wait in vain.
THEOREM NoVainWait ==
  ASSUME Quiet
  PROVE  Spec => []WaitsWithReceive
<1>1. IInv => WaitsWithReceive
  BY DEF IInv, InStep, Phase, Receiving, Closing, WaitsWithReceive, Running
<1> QED BY <1>1, StateKnown, PTL

\* Neither a refused call nor OnConsoleRxComplete ends in Error_Handler: only
\* OnConsoleError does, and only for an overrun.
THEOREM OverrunAloneHalts ==
  ASSUME Quiet
  PROVE  Spec => OnlyOverrunHalts
<1>1. ASSUME IInv, [Next]_vars
      PROVE  [(Running /\ ~Running') => hw.ORE]_vars
  <2>1. CASE Next
    <3>1. Running /\ Sound /\ InStep
      BY <1>1, <2>1, OnlyRunningSteps DEF IInv
    <3> QED BY <2>1, <3>1, StepInStep
  <2>2. CASE UNCHANGED vars
    BY <2>2
  <2> QED BY <1>1, <2>1, <2>2
<1> QED BY <1>1, StateKnown, PTL DEF Spec, OnlyOverrunHalts
=============================================================================
