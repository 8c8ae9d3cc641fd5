------------------------- MODULE UartClient_proofs --------------------------
(***************************************************************************)
(* What holds of the driver under every caller, whatever the longest       *)
(* transfer, the characters, and the rules the caller keeps or breaks.     *)
(***************************************************************************)
EXTENDS UartClient, UartDriver_proofs

\* What the caller starts is an API call, whether or not its rules allow it.
LEMMA ClientCallTyped ==
  ASSUME DriverTypeOK, ClientCall \/ ReceiveAbort
  PROVE  DriverTypeOK' /\ TaskStep
<1>1. Lengths \subseteq Nat
  BY MaxLengthAssumption DEF Lengths
<1>2. DriverTypeOK'
  <2>1. CASE ClientCall
    BY <1>1, <2>1, ApiCallTyped DEF ClientCall
  <2>2. CASE ReceiveAbort
    BY <1>1, <2>2, ApiCallTyped DEF ReceiveAbort
  <2> QED BY <2>1, <2>2
<1>3. TaskStep
  BY DEF ClientCall, ReceiveAbort, platform_uart_init, platform_uart_deinit,
         platform_uart_receive_until_timeout_async, platform_uart_receive_async, Enter,
         platform_uart_receive, platform_uart_transmit, EnterBlocking,
         platform_uart_transmit_async, platform_uart_abort, platform_uart_abort_transmit,
         platform_uart_abort_receive, AbortCall
<1> QED BY <1>2, <1>3

\* Every step of the program keeps the types.
LEMMA NextTyped ==
  ASSUME TypeOK, [Next]_vars
  PROVE  TypeOK'
<1>1. CASE Next
  <2>1. DriverTypeOK
    BY DEF TypeOK
  <2>2. DriverTypeOK'
    <3>1. CASE ClientCall \/ ReceiveAbort
      BY <2>1, <3>1, ClientCallTyped
    <3>2. CASE CallStep
      BY <2>1, <3>2, CallStepTyped DEF CallStep
    <3>3. CASE DriverInterrupt
      BY <2>1, <3>3, DriverInterruptTyped
    <3>4. CASE Arrival
      BY <2>1, <3>4, HardwareTyped DEF Arrival
    <3>5. CASE DmaMovesByte \/ Silence
      BY <2>1, <3>5, HardwareTyped DEF Silence
    <3> QED BY <1>1, <3>1, <3>2, <3>3, <3>4, <3>5 DEF Next, Step
  <2>3. call.op \in Op \cup {"none"}
    BY DEF TypeOK, DriverTypeOK, Call, Returned, InProgress
  <2>4. started' \in Op \cup {"none"}
    BY <1>1, <2>3 DEF Next, TypeOK
  <2>5. overlapped' \in BOOLEAN /\ aborted' \in BOOLEAN
    BY <1>1 DEF Next, Step
  <2> QED BY <2>2, <2>4, <2>5 DEF TypeOK
<1>2. CASE UNCHANGED vars
  BY <1>2 DEF vars, TypeOK, DriverTypeOK
<1> QED BY <1>1, <1>2

\* Type correctness, for every caller: the length checks at the head of every
\* function keep each counter of driver and HAL in its range.
THEOREM TypeCorrect == Spec => []TypeOK
<1>1. Init => TypeOK
  BY DriverInitTyped DEF Init, TypeOK, Op
<1>2. TypeOK /\ [Next]_vars => TypeOK'
  BY NextTyped
<1> QED BY <1>1, <1>2, PTL DEF Spec

-----------------------------------------------------------------------------
(* Which receive rx_dma_length belongs to.  Under a caller that overlaps   *)
(* receives it may be another than the one that runs, until the next starts.*)

\* Where a call of a receive stands; it has left its length in rx_dma_length.
ReceiveCallKnown ==
  /\ call.pc \in {"enable", "disable", "arm", "start", "undo"} <=> call.op \in ReceiveOp
  /\ call.pc = "enable" => call.op = "until_timeout"
  /\ call.op \in ReceiveOp => call.len = uart.rx_dma_length
  /\ call.op = "async" \/ call.pc = "undo" => ~uart.rx_until_timeout_active

\* What may be counted from rx_dma_length is the receive that was started last.
Matched ==
  IF call.op \in ReceiveOp THEN ~hw.DMAR
  ELSE hw.DMAR \/ uart.rx_until_timeout_active => hw.size = uart.rx_dma_length

LengthKnown == ReceiveCallKnown /\ (hw.TC => hw.DMAR) /\ (~overlapped => Matched)

\* Whether receives have been mixed up, before and after a step.
Recorded ==
  overlapped' = (~ReceiveStarts /\ (overlapped \/ (hw.DMAR /\ call'.op \in ReceiveOp)))

\* No transfer is started.
Steady == hw'.size = hw.size /\ (hw'.DMAR => hw.DMAR) /\ (hw'.TC => hw'.DMAR)

\* A step that starts no transfer and, where it leaves a call, leaves nothing
\* of it, keeps the invariant.
LEMMA SteadyKeeps ==
  ASSUME LengthKnown, Recorded, Steady, ReceiveCallKnown',
         call'.op \notin ReceiveOp =>
           /\ uart'.rx_dma_length = uart.rx_dma_length
           /\ uart'.rx_until_timeout_active =>
                uart.rx_until_timeout_active /\ call.op \notin ReceiveOp
  PROVE  LengthKnown' /\ (overlapped => overlapped')
<1>1. overlapped' <=> overlapped \/ (hw.DMAR /\ call'.op \in ReceiveOp)
  BY DEF Recorded, ReceiveStarts, Steady
<1>2. ~overlapped' => Matched'
  <2> SUFFICES ASSUME ~overlapped' PROVE Matched'
    OBVIOUS
  <2>1. Matched /\ ~(hw.DMAR /\ call'.op \in ReceiveOp)
    BY <1>1 DEF LengthKnown
  <2> QED BY <2>1 DEF Matched, Steady, ReceiveOp
<1> QED BY <1>1, <1>2 DEF LengthKnown, Steady

\* A call that is no receive's asks for none.
LEMMA OtherCallKnown ==
  ASSUME call'.op \notin ReceiveOp,
         call'.pc \notin {"enable", "disable", "arm", "start", "undo"}
  PROVE  ReceiveCallKnown'
BY DEF ReceiveCallKnown, ReceiveOp

\* What the HAL does to the transfer, where it starts none.
LEMMA SteadyHal ==
  ASSUME NEW h \in HwState, NEW g, h.TC => h.DMAR,
         SameTransfer(g, h) \/ TransferGoesOn(g, h) \/ TransferOver(g, h)
  PROVE  g.size = h.size /\ (g.DMAR => h.DMAR) /\ (g.TC => g.DMAR)
BY DEF SameTransfer, TransferGoesOn, TransferOver

\* A caller's step enters a receive, or leaves the driver's fields.
LEMMA EntryKeeps ==
  ASSUME TypeOK, LengthKnown, Recorded, ClientCall \/ ReceiveAbort
  PROVE  LengthKnown'
<1>0. /\ hw \in HwState /\ uart \in platform_uart /\ (hw.TC => hw.DMAR) /\ call \in Call
      /\ ReceiveCallKnown
  BY DEF TypeOK, DriverTypeOK, LengthKnown
<1>1. ASSUME Idle
      PROVE  call.op \notin ReceiveOp
  BY <1>0, <1>1 DEF Idle, ReceiveCallKnown
<1>2. ASSUME Steady, Idle, call'.op \notin ReceiveOp,
             call'.pc \notin {"enable", "disable", "arm", "start", "undo"},
             uart'.rx_dma_length = uart.rx_dma_length,
             uart'.rx_until_timeout_active = uart.rx_until_timeout_active
      PROVE  LengthKnown'
  BY <1>1, <1>2, OtherCallKnown, SteadyKeeps
<1>3. CASE platform_uart_init
  <2>1. ASSUME hw' = HAL_UART_Init(hw) PROVE Steady
    BY <1>0, <2>1, InitEffect DEF Steady
  <2>2. ASSUME hw' = [hw EXCEPT !.gState = "RESET", !.RxState = "RESET"] PROVE Steady
    BY <1>0, <2>2 DEF Steady, HwState
  <2>3. Steady
    BY <1>3, <2>1, <2>2 DEF platform_uart_init
  <2>4. uart' = uart \/ uart' = [uart EXCEPT !.initialized = TRUE]
    BY <1>3 DEF platform_uart_init
  <2>5. call'.op = "none" /\ call'.pc = "idle" /\ Idle
    BY <1>3, ReturnEffect DEF platform_uart_init
  <2> QED BY <1>0, <1>2, <2>3, <2>4, <2>5 DEF platform_uart, ReceiveOp
<1>4. CASE platform_uart_deinit
  <2>1. Steady
    BY <1>0, <1>4, DeInitEffect DEF platform_uart_deinit, Steady
  <2>2. call'.op = "none" /\ call'.pc = "idle" /\ Idle
    BY <1>4, ReturnEffect DEF platform_uart_deinit
  <2> QED BY <1>0, <1>2, <1>4, <2>1, <2>2 DEF platform_uart_deinit, platform_uart, ReceiveOp
<1>5. ASSUME NEW op \in ReceiveOp, NEW n, NEW pc, NEW active \in BOOLEAN,
             (op = "until_timeout" /\ pc = "enable") \/ (op = "async" /\ pc = "disable" /\ ~active),
             Enter(op, n, pc, [uart EXCEPT !.rx_dma_length = n, !.rx_until_timeout_active = active]),
             hw' = hw
      PROVE  LengthKnown'
  <2> DEFINE accepted == [uart EXCEPT !.rx_dma_length = n, !.rx_until_timeout_active = active]
  <2>1. accepted.rx_dma_length = n /\ accepted.rx_until_timeout_active = active
    BY <1>0 DEF platform_uart
  <2>2. Enter(op, n, pc, accepted) /\ Steady /\ Idle
    BY <1>0, <1>5 DEF Steady, Enter
  <2> HIDE DEF accepted
  <2>3. CASE n \in Length
    <3>1. uart' = accepted /\ call'.op = op /\ call'.pc = pc /\ call'.len = n
      BY <2>2, <2>3 DEF Enter
    <3>2. ReceiveCallKnown'
      BY <1>5, <2>1, <3>1 DEF ReceiveCallKnown, ReceiveOp
    <3> QED BY <1>5, <2>2, <3>1, <3>2, SteadyKeeps
  <2>4. CASE n \notin Length
    <3>1. uart' = uart /\ call'.op = "none" /\ call'.pc = "idle"
      BY <2>2, <2>4, ReturnEffect DEF Enter
    <3> QED BY <1>2, <2>2, <3>1 DEF ReceiveOp
  <2> QED BY <2>3, <2>4
<1>6. ASSUME NEW n, platform_uart_receive_until_timeout_async(n) \/ platform_uart_receive_async(n)
      PROVE  LengthKnown'
  BY <1>5, <1>6
     DEF platform_uart_receive_until_timeout_async, platform_uart_receive_async, ReceiveOp
<1>7. ASSUME NEW n,
             \/ platform_uart_receive(n) \/ platform_uart_transmit(n)
             \/ platform_uart_transmit_async(n)
      PROVE  LengthKnown'
  <2> DEFINE receiving == [hw EXCEPT !.RxState = "BUSY_RX"]
             blocking == Transmit_Start(hw, FALSE)
             dma == Transmit_Start(hw, TRUE)
  <2>1. hw' = hw \/ hw' = receiving \/ hw' = blocking \/ hw' = dma
    BY <1>7, Zenon
       DEF platform_uart_receive, platform_uart_transmit, platform_uart_transmit_async, EnterBlocking
  <2>2. \A g \in {hw, receiving, blocking, dma} :
          g.size = hw.size /\ g.DMAR = hw.DMAR /\ g.TC = hw.TC
    BY <1>0 DEF Transmit_Start, HwState
  <2> HIDE DEF receiving, blocking, dma
  <2>3. Steady
    BY <1>0, <2>1, <2>2 DEF Steady
  <2>4. /\ Idle /\ uart' = uart
        /\ \/ call'.op = "receive" /\ call'.pc = "polling"
           \/ call'.op = "transmit" /\ call'.pc = "sending"
           \/ call'.op = "none" /\ call'.pc = "idle"
    <3>1. ASSUME NEW op, NEW pc, NEW ready, NEW after, EnterBlocking(op, n, pc, ready, after)
          PROVE  /\ Idle /\ uart' = uart
                 /\ \/ call'.op = op /\ call'.pc = pc
                    \/ call'.op = "none" /\ call'.pc = "idle"
      BY <3>1, ReturnEffect DEF EnterBlocking
    <3>2. CASE platform_uart_receive(n) \/ platform_uart_transmit(n)
      BY <3>1, <3>2 DEF platform_uart_receive, platform_uart_transmit
    <3>3. CASE platform_uart_transmit_async(n)
      <4>1. Idle /\ uart' = uart
        BY <3>3 DEF platform_uart_transmit_async
      <4>2. \E status : call' = Return(status)
        BY <3>3, Zenon DEF platform_uart_transmit_async
      <4>3. call'.op = "none" /\ call'.pc = "idle"
        BY <4>2, ReturnEffect
      <4> QED BY <4>1, <4>3
    <3> QED BY <1>7, <3>2, <3>3
  <2> QED BY <1>2, <2>3, <2>4 DEF ReceiveOp
<1>8. CASE platform_uart_abort \/ platform_uart_abort_transmit \/ platform_uart_abort_receive
  <2> DEFINE a == HAL_UART_AbortReceive(hw)
             b == HAL_UART_AbortTransmit(hw)
             c == HAL_UART_AbortTransmit(a)
             timedOut == Abort_TimedOut(hw) \cup AbortTransmit_TimedOut(hw)
                           \cup AbortReceive_TimedOut(hw)
  <2>1. a \in HwState /\ TransferOver(a, hw) /\ SameTransfer(b, hw) /\ SameTransfer(c, a)
    BY <1>0, HalCallsTyped, AbortReceiveEffect, TransmitOverEffect
  <2>2. TransferOver(c, hw)
    BY <2>1 DEF TransferOver, SameTransfer
  <2>3. /\ Idle /\ uart' = uart
        /\ hw' \in {a, b, c} \cup timedOut
        /\ \E status : call' = Return(status)
    BY <1>8, Zenon
       DEF platform_uart_abort, platform_uart_abort_transmit, platform_uart_abort_receive, AbortCall
  <2>4. \A g \in timedOut : TransferGoesOn(g, hw)
    BY <1>0, AbortTimedOutEffect
  <2> HIDE DEF a, b, c, timedOut
  <2>5. SameTransfer(hw', hw) \/ TransferGoesOn(hw', hw) \/ TransferOver(hw', hw)
    BY <2>1, <2>2, <2>3, <2>4
  <2>6. Steady
    BY <1>0, <2>5, SteadyHal DEF Steady
  <2> QED BY <1>2, <2>3, <2>6, ReturnEffect DEF ReceiveOp
<1> QED BY <1>3, <1>4, <1>6, <1>7, <1>8 DEF ClientCall, ReceiveAbort

\* What is left of a refused receive.
LEMMA RefusalKeeps ==
  ASSUME TypeOK, LengthKnown, Recorded, NEW status, ReceiveRefused(status),
         call.pc \in {"arm", "start"}, hw' = hw
  PROVE  LengthKnown'
<1>0. /\ uart \in platform_uart /\ call \in Call /\ ReceiveCallKnown /\ call.op \in ReceiveOp
      /\ Steady
  BY DEF TypeOK, DriverTypeOK, LengthKnown, ReceiveCallKnown, Steady
<1>1. CASE call.op = "until_timeout"
  <2>1. /\ call' = [call EXCEPT !.pc = "undo", !.ret = status]
        /\ uart' = [uart EXCEPT !.rx_until_timeout_active = FALSE]
    BY <1>1 DEF ReceiveRefused
  <2>2. /\ call'.op = call.op /\ call'.len = call.len /\ call'.pc = "undo"
        /\ uart'.rx_dma_length = uart.rx_dma_length /\ ~uart'.rx_until_timeout_active
    BY <1>0, <2>1 DEF Call, Returned, InProgress, platform_uart
  <2>3. ReceiveCallKnown'
    BY <1>0, <2>2 DEF ReceiveCallKnown
  <2> QED BY <1>0, <2>2, <2>3, SteadyKeeps
<1>2. CASE call.op # "until_timeout"
  <2>1. call'.op = "none" /\ call'.pc = "idle" /\ uart' = uart
    BY <1>2, ReturnEffect DEF ReceiveRefused
  <2>2. ~uart.rx_until_timeout_active
    BY <1>0, <1>2 DEF ReceiveCallKnown, ReceiveOp
  <2> QED BY <1>0, <2>1, <2>2, OtherCallKnown, SteadyKeeps DEF ReceiveOp
<1> QED BY <1>1, <1>2

\* The rest of a call keeps the invariant; its transfer starts with the length
\* it was asked for.
LEMMA CallStepLengths ==
  ASSUME TypeOK, LengthKnown, Recorded, CallStep
  PROVE  LengthKnown'
<1>0. /\ hw \in HwState /\ uart \in platform_uart /\ (hw.TC => hw.DMAR) /\ call \in Call
      /\ ReceiveCallKnown
  BY DEF TypeOK, DriverTypeOK, LengthKnown
<1>1. ASSUME NEW pc \in {"arm", "start"}, Goto(pc), Steady, UNCHANGED uart, call.op \in ReceiveOp
      PROVE  LengthKnown'
  <2>1. call'.pc = pc /\ call'.op = call.op /\ call'.len = call.len
    BY <1>0, <1>1, GotoEffect
  <2>2. ReceiveCallKnown'
    BY <1>0, <1>1, <2>1 DEF ReceiveCallKnown
  <2> QED BY <1>1, <2>1, <2>2, SteadyKeeps
<1>2. CASE EnableTimeout
  <2>1. Steady /\ call.pc = "enable" /\ call.op \in ReceiveOp
    BY <1>0, <1>2, EnableReceiverTimeoutEffect
       DEF EnableTimeout, SameTransfer, Steady, ReceiveCallKnown
  <2>2. CASE hw.gState = "READY"
    BY <1>1, <1>2, <2>1, <2>2 DEF EnableTimeout
  <2>3. CASE hw.gState # "READY"
    <3>1. /\ call'.op = "none" /\ call'.pc = "idle"
          /\ uart' = [uart EXCEPT !.rx_until_timeout_active = FALSE]
      BY <1>2, <2>3, ReturnEffect DEF EnableTimeout
    <3>2. uart'.rx_dma_length = uart.rx_dma_length /\ ~uart'.rx_until_timeout_active
      BY <1>0, <3>1 DEF platform_uart
    <3> QED BY <2>1, <3>1, <3>2, OtherCallKnown, SteadyKeeps DEF ReceiveOp
  <2> QED BY <2>2, <2>3
<1>3. CASE DisableTimeout
  <2>1. Steady /\ call.op \in ReceiveOp
    BY <1>0, <1>3, DisableReceiverTimeoutEffect
       DEF DisableTimeout, SameTransfer, Steady, ReceiveCallKnown
  <2> QED BY <1>1, <1>3, <2>1 DEF DisableTimeout
<1>4. CASE ArmReceive
  <2>1. call.pc = "arm" /\ call.op \in ReceiveOp
    BY <1>0, <1>4 DEF ArmReceive, ReceiveCallKnown
  <2>2. CASE hw.RxState = "READY"
    <3>1. Steady
      BY <1>0, <1>4, <2>2, ReceiveArmEffect DEF ArmReceive, SameTransfer, Steady
    <3> QED BY <1>1, <1>4, <2>1, <2>2, <3>1 DEF ArmReceive
  <2>3. CASE hw.RxState # "READY"
    BY <1>4, <2>1, <2>3, RefusalKeeps DEF ArmReceive
  <2> QED BY <2>2, <2>3
<1>5. CASE StartReceive
  <2>1. call.pc = "start" /\ call.op \in ReceiveOp /\ call.len = uart.rx_dma_length
    BY <1>0, <1>5 DEF StartReceive, ReceiveCallKnown
  <2>2. CASE hw' = Receive_DMA_Start(hw, call.len) /\ call' = Return("OK") /\ uart' = uart
    <3>1. hw'.DMAR /\ ~hw'.TC /\ hw'.size = uart'.rx_dma_length
      BY <1>0, <2>1, <2>2, ReceiveStartEffect
    <3>2. call'.op = "none" /\ call'.pc = "idle"
      BY <2>2, ReturnEffect
    <3>3. ReceiveCallKnown' /\ Matched'
      BY <3>1, <3>2, OtherCallKnown DEF Matched, ReceiveOp
    <3> QED BY <3>1, <3>3 DEF LengthKnown
  <2>3. CASE hw' = hw /\ ReceiveRefused("ERROR")
    BY <2>1, <2>3, RefusalKeeps
  <2> QED BY <1>5, <2>2, <2>3 DEF StartReceive
<1>6. CASE UndoTimeout
  <2> DEFINE a == [hw EXCEPT !.RTOIE = FALSE]
  <2>1. a \in HwState /\ SameTransfer(a, hw)
    BY <1>0 DEF HwState, SameTransfer
  <2> HIDE DEF a
  <2>2. SameTransfer(hw', a)
    BY <1>6, <2>1, DisableReceiverTimeoutEffect DEF UndoTimeout, a
  <2>3. Steady
    BY <1>0, <2>1, <2>2 DEF SameTransfer, Steady
  <2>4. call'.op = "none" /\ call'.pc = "idle" /\ uart' = uart /\ ~uart.rx_until_timeout_active
    BY <1>0, <1>6, ReturnEffect DEF UndoTimeout, ReceiveCallKnown
  <2> QED BY <2>3, <2>4, OtherCallKnown, SteadyKeeps DEF ReceiveOp
<1>7. CASE FinishTransmit \/ PollByte \/ FailReceive
  <2>1. Steady /\ uart' = uart
    BY <1>0, <1>7 DEF FinishTransmit, PollByte, FailReceive, HwState, Steady
  <2>2. call.pc \in {"sending", "polling"} /\ call.op \notin ReceiveOp
    BY <1>0, <1>7 DEF FinishTransmit, PollByte, FailReceive, ReceiveCallKnown
  <2>3. \/ call'.op = "none" /\ call'.pc = "idle"
        \/ call'.op = call.op /\ call'.pc = call.pc
    <3>1. \/ \E status : call' = Return(status)
          \/ call' = [call EXCEPT !.len = @ - 1]
      BY <1>7 DEF FinishTransmit, PollByte, FailReceive
    <3> QED BY <1>0, <3>1, ReturnEffect DEF Call, Returned, InProgress
  <2> QED BY <2>1, <2>2, <2>3, OtherCallKnown, SteadyKeeps DEF ReceiveOp
<1> QED BY <1>2, <1>3, <1>4, <1>5, <1>6, <1>7 DEF CallStep

\* Handlers and hardware start no transfer and change no length.
LEMMA EventSteady ==
  ASSUME TypeOK, LengthKnown, DriverInterrupt \/ Arrival \/ DmaMovesByte \/ Silence
  PROVE  /\ Steady /\ call' = call /\ uart'.rx_dma_length = uart.rx_dma_length
         /\ uart'.rx_until_timeout_active => uart.rx_until_timeout_active
<1>0. /\ hw \in HwState /\ uart \in platform_uart /\ (hw.TC => hw.DMAR)
  BY DEF TypeOK, DriverTypeOK, LengthKnown
<1>1. ASSUME SameTransfer(hw', hw) \/ TransferOver(hw', hw)
      PROVE  Steady
  BY <1>0, <1>1, SteadyHal DEF Steady
<1>2. CASE UsartRtoIrq
  BY <1>0, <1>1, <1>2, CloseTimeoutEffect DEF UsartRtoIrq, IsrStep, platform_uart
<1>3. CASE CompleteRx
  <2> DEFINE a == HAL_UART_AbortReceive(hw)
  <2>1. a \in HwState /\ TransferOver(a, hw)
    BY <1>0, HalCallsTyped, AbortReceiveEffect
  <2> HIDE DEF a
  <2>2. SameTransfer(hw', a)
    BY <1>3, <2>1, DisableReceiverTimeoutEffect DEF CompleteRx, a
  <2>3. TransferOver(hw', hw)
    BY <2>1, <2>2 DEF SameTransfer, TransferOver
  <2> QED BY <1>1, <1>3, <2>3 DEF CompleteRx
<1>4. CASE UsartErrorIrq
  BY <1>0, <1>1, <1>4, EndRxOnErrorEffect DEF UsartErrorIrq, IsrStep
<1>5. CASE UsartTxIrq
  BY <1>0, <1>1, <1>5, TransmitOverEffect DEF UsartTxIrq, IsrStep
<1>6. CASE GPDMA1_Channel1_IRQHandler
  BY <1>0, <1>1, <1>6, AfterRxCpltEffect DEF GPDMA1_Channel1_IRQHandler, IsrStep, platform_uart
<1>7. CASE Arrival
  <2>1. PICK b \in Byte : hw' = ReceiveChar(hw, b)
    BY <1>7 DEF Arrival, ByteArrives
  <2> QED BY <1>0, <1>1, <1>7, <2>1, ReceiveCharEffect DEF Arrival, ByteArrives, HardwareStep
<1>8. CASE DmaMovesByte
  <2>1. Steady
    BY <1>0, <1>8, DmaStoreEffect DEF DmaMovesByte, DmaRequest, Steady
  <2> QED BY <1>8, <2>1 DEF DmaMovesByte, HardwareStep
<1>9. CASE Silence
  BY <1>0, <1>1, <1>9, SilenceEffect DEF Silence, LineFallsSilent, HardwareStep
<1> QED BY <1>2, <1>3, <1>4, <1>5, <1>6, <1>7, <1>8, <1>9 DEF DriverInterrupt

\* Every step keeps the invariant.
LEMMA NextLengths ==
  ASSUME TypeOK, LengthKnown, [Next]_vars
  PROVE  LengthKnown'
<1>1. CASE Next
  <2>1. Recorded
    BY <1>1 DEF Next, Recorded
  <2>2. CASE ClientCall \/ ReceiveAbort
    BY <2>1, <2>2, EntryKeeps
  <2>3. CASE CallStep
    BY <2>1, <2>3, CallStepLengths
  <2>4. CASE DriverInterrupt \/ Arrival \/ DmaMovesByte \/ Silence
    <3>1. /\ Steady /\ call' = call /\ uart'.rx_dma_length = uart.rx_dma_length
          /\ uart'.rx_until_timeout_active => uart.rx_until_timeout_active
      BY <2>4, EventSteady
    <3>2. ReceiveCallKnown'
      BY <3>1 DEF LengthKnown, ReceiveCallKnown
    <3> QED BY <2>1, <3>1, <3>2, SteadyKeeps
  <2> QED BY <1>1, <2>2, <2>3, <2>4 DEF Next, Step
<1>2. CASE UNCHANGED vars
  BY <1>2 DEF vars, LengthKnown, ReceiveCallKnown, Matched
<1> QED BY <1>1, <1>2

-----------------------------------------------------------------------------
(* The counts.                                                             *)

\* What a handler counts from is the length of the receive it speaks of.
LEMMA RequestedIs ==
  ASSUME LengthKnown, ~overlapped, hw.TC \/ uart.rx_until_timeout_active
  PROVE  Requested = uart.rx_dma_length
BY DEF LengthKnown, ReceiveCallKnown, Matched, Requested

\* No task step takes or reports a count, and none is made while a handler
\* holds one.
LEMMA TaskStepCounts ==
  ASSUME TaskStep
  PROVE  CountFits'
BY DEF TaskStep, NoCallback, CountFits

\* Handlers latch a count, keep it while bytes arrive, and report it.
LEMMA EventCounts ==
  ASSUME TypeOK, LengthKnown, CountFits, Recorded,
         DriverInterrupt \/ Arrival \/ DmaMovesByte \/ Silence
  PROVE  CountFits'
<1> SUFFICES ASSUME ~overlapped' PROVE CountFits'
  BY DEF CountFits
<1>0. uart \in platform_uart
  BY DEF TypeOK, DriverTypeOK
<1>1. /\ Steady /\ call' = call /\ uart'.rx_dma_length = uart.rx_dma_length
      /\ uart'.rx_until_timeout_active => uart.rx_until_timeout_active
  BY EventSteady
<1>2. ~overlapped /\ Requested' = Requested
  BY <1>1 DEF Recorded, ReceiveStarts, Steady, Requested
<1>3. CASE UsartRtoIrq
  <2>1. isr' \in 0..uart.rx_dma_length /\ cb'.kind = "none"
    BY <1>3, BytesReceivedFits DEF UsartRtoIrq, NoCallback, TypeOK
  <2>2. Requested = uart.rx_dma_length
    BY <1>2, <1>3, RequestedIs DEF UsartRtoIrq, RtoPending
  <2> QED BY <1>2, <2>1, <2>2 DEF CountFits
<1>4. CASE CompleteRx
  BY <1>2, <1>4 DEF CompleteRx, CountFits
<1>5. CASE UsartErrorIrq \/ UsartTxIrq
  BY <1>5 DEF UsartErrorIrq, UsartTxIrq, IsrStep, CountFits
<1>6. CASE GPDMA1_Channel1_IRQHandler
  <2>1. isr' = NotRunning /\ cb'.n = uart.rx_dma_length /\ uart.rx_dma_length \in Nat
    BY <1>0, <1>6, MaxLengthAssumption DEF GPDMA1_Channel1_IRQHandler, IsrStep, platform_uart
  <2>2. Requested = uart.rx_dma_length
    BY <1>2, <1>6, RequestedIs DEF GPDMA1_Channel1_IRQHandler
  <2> QED BY <1>2, <2>1, <2>2 DEF CountFits
<1>7. CASE Arrival \/ DmaMovesByte \/ Silence
  <2>1. isr' = isr /\ cb' = NoCallback
    BY <1>7 DEF Arrival, ByteArrives, DmaMovesByte, Silence, LineFallsSilent, HardwareStep
  <2> QED BY <1>2, <2>1 DEF CountFits, NoCallback
<1> QED BY <1>3, <1>4, <1>5, <1>6, <1>7 DEF DriverInterrupt

\* Every step keeps the counts.
LEMMA NextCounts ==
  ASSUME TypeOK, LengthKnown, CountFits, [Next]_vars
  PROVE  CountFits'
<1>1. CASE Next
  <2>1. Recorded
    BY <1>1 DEF Next, Recorded
  <2>2. CASE ClientCall \/ ReceiveAbort
    BY <2>2, ClientCallTyped, TaskStepCounts DEF TypeOK
  <2>3. CASE CallStep
    BY <2>3, TaskStepCounts
       DEF CallStep, EnableTimeout, DisableTimeout, ArmReceive, StartReceive, UndoTimeout,
           FinishTransmit, PollByte, FailReceive
  <2>4. CASE DriverInterrupt \/ Arrival \/ DmaMovesByte \/ Silence
    BY <2>1, <2>4, EventCounts
  <2> QED BY <1>1, <2>2, <2>3, <2>4 DEF Next, Step
<1>2. CASE UNCHANGED vars
  BY <1>2 DEF vars, CountFits, Requested
<1> QED BY <1>1, <1>2

\* No completion reports more bytes than the receive it speaks of was asked for,
\* unless the caller has asked for a receive while another ran: for every caller,
\* whatever it aborts and whatever the HAL refuses.
THEOREM CountsFit == Spec => []CountFits
<1>1. Init => LengthKnown /\ CountFits
  <2> SUFFICES ASSUME Init PROVE LengthKnown /\ CountFits
    OBVIOUS
  <2>1. /\ call.op = "none" /\ call.pc = "idle" /\ ~hw.DMAR /\ ~hw.TC
        /\ ~uart.rx_until_timeout_active /\ isr = NotRunning /\ cb.kind = "none"
    BY ReturnEffect DEF Init, DriverInit, HwReset, NoCallback
  <2> QED BY <2>1 DEF LengthKnown, ReceiveCallKnown, Matched, CountFits, ReceiveOp
<1>2. TypeOK /\ LengthKnown /\ CountFits /\ [Next]_vars => LengthKnown' /\ CountFits'
  BY NextLengths, NextCounts
<1> QED BY <1>1, <1>2, TypeCorrect, PTL DEF Spec
=============================================================================
