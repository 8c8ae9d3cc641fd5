------------------------ MODULE UartContract_proofs -------------------------
(***************************************************************************)
(* The driver keeps the promises of platform_uart.h, and a silence ends a  *)
(* receive until timeout, for every caller that does not overlap receives  *)
(* and is careful about receives until timeout, on a paced line.           *)
(***************************************************************************)
EXTENDS UartClient_proofs

-----------------------------------------------------------------------------
(* The inductive invariant.                                                *)

\* The call in progress is a receive until timeout.
Asking == call.op = "until_timeout"

\* Each call is at one of its own statements; one that will start a transfer
\* finds its length in rx_dma_length and its side of the handle not busy.
CallKnown ==
  /\ call.pc = "idle" <=> call.op = "none"
  /\ call.pc \in {"enable", "undo"} => Asking
  /\ call.pc = "disable" => call.op = "async"
  /\ call.pc \in {"arm", "start"} => call.op \in ReceiveOp
  /\ call.pc = "sending" => call.op = "transmit"
  /\ call.pc = "polling" <=> call.op = "receive"
  /\ call.op \in ReceiveOp => (call.len = uart.rx_dma_length /\ hw.RxState # "BUSY_RX")

\* A transfer that runs is the one rx_dma_length speaks of, and holds the
\* receive side of the handle; the error interrupt is enabled for it alone.
ChannelKnown ==
  /\ hw.DMAR => /\ hw.RxState = "BUSY_RX" /\ call.op # "receive"
                /\ hw.size = uart.rx_dma_length /\ hw.size > 0
                /\ hw.remaining <= hw.size
  /\ hw.TC => hw.DMAR /\ hw.remaining = 0
  /\ hw.EIE => hw.DMAR
  /\ started = "none" <=> ~hw.DMAR
  /\ hw.DMAR => started \in ReceiveOp

\* What of the timeout may be on, and when: nothing outlives the call or the
\* receive it belongs to.
NothingLeft ==
  /\ hw.RTOEN => TimedReceive \/ (Asking /\ call.pc # "enable")
  /\ hw.RTOIE => TimedReceive \/ (Asking /\ call.pc \in {"start", "undo"})
  /\ hw.RTOF => TimedReceive
  /\ hw.counting => hw.RTOEN
  /\ uart.rx_until_timeout_active => TimedReceive \/ (Asking /\ call.pc # "undo")

\* What must be on: a receive until timeout has, from its call on, all that a
\* silence needs to end it; the transmitter, whose HAL_BUSY would keep the
\* timeout from being switched, is at rest, and no overrun is pending.
TimeoutOn ==
  /\ TimedReceive => call.op = "none"
  /\ TimedReceive /\ isr = NotRunning => uart.rx_until_timeout_active /\ hw.RTOEN /\ hw.RTOIE
  /\ Asking /\ call.pc # "undo" => uart.rx_until_timeout_active
  /\ Asking /\ call.pc \in {"arm", "start"} => hw.RTOEN
  /\ Asking /\ call.pc = "start" => hw.RTOIE
  /\ TimedReceive \/ (Asking /\ call.pc # "enable") => hw.gState = "READY"
  /\ TimedReceive \/ Asking => ~hw.ORE

\* While complete_rx_until_timeout runs, its receive does, and has stored at
\* least what will be reported; the timeout is closed already.
HandlerKnown ==
  isr # NotRunning =>
    /\ TimedReceive /\ isr <= hw.size - hw.remaining
    /\ ~hw.RTOIE /\ ~hw.RTOF /\ ~uart.rx_until_timeout_active

Known == CallKnown /\ ChannelKnown /\ NothingLeft /\ TimeoutOn /\ HandlerKnown

IInv == TypeOK /\ Known

-----------------------------------------------------------------------------
(* Two shapes that most steps have.                                        *)

\* No receive runs, none until timeout is asked for, and nothing is left on.
AtRest ==
  /\ isr = NotRunning /\ started = "none" /\ ~Asking
  /\ ~hw.DMAR /\ ~hw.TC /\ ~hw.EIE
  /\ ~hw.RTOEN /\ ~hw.RTOIE /\ ~hw.RTOF /\ ~hw.counting
  /\ ~uart.rx_until_timeout_active

\* Where the channel rests and no receive until timeout is asked for, the
\* timeout does, too.
LEMMA RestKnown ==
  ASSUME Known, ~hw.DMAR, ~Asking
  PROVE  AtRest
BY DEF Known, ChannelKnown, NothingLeft, HandlerKnown, TimedReceive, AtRest

\* A step that leaves all at rest keeps the invariant.
LEMMA RestKeeps ==
  ASSUME AtRest', CallKnown'
  PROVE  Known'
BY DEF Known, ChannelKnown, NothingLeft, TimeoutOn, HandlerKnown, TimedReceive, AtRest

\* A call that is over asks for nothing.
LEMMA OverKnown ==
  ASSUME call'.pc = "idle", call'.op = "none"
  PROVE  CallKnown' /\ ~Asking'
BY DEF CallKnown, Asking, ReceiveOp

\* A step that concerns the transmitter alone keeps the invariant.
LEMMA ElsewhereKeeps ==
  ASSUME Known, ~TimedReceive, ~Asking, ~Asking', CallKnown',
         hw.DMAR => call'.op # "receive",
         SameTransfer(hw', hw) \/ TransferGoesOn(hw', hw), SameTimeout(hw', hw),
         UNCHANGED <<uart, isr, started>>
  PROVE  Known'
<1> USE DEF Known
<1>0. TransferGoesOn(hw', hw)
  BY DEF SameTransfer, TransferGoesOn
<1>1. ChannelKnown'
  BY <1>0 DEF ChannelKnown, TransferGoesOn
<1>2. ~TimedReceive'
  BY <1>0 DEF TransferGoesOn, TimedReceive
<1>3. NothingLeft'
  BY <1>2 DEF NothingLeft, SameTimeout
<1>4. TimeoutOn' /\ HandlerKnown'
  BY <1>2 DEF TimeoutOn, HandlerKnown
<1> QED BY <1>1, <1>3, <1>4

\* The call that started a receive, before and after a step.
Attributed == started' = IF ~hw'.DMAR THEN "none" ELSE IF ~hw.DMAR THEN call.op ELSE started

-----------------------------------------------------------------------------
(* The caller.                                                             *)

\* What begins a transfer leaves the record of an accepted call, or returns.
LEMMA EnterEffect ==
  ASSUME DriverTypeOK, NEW op, NEW n, NEW pc, NEW accepted, Enter(op, n, pc, accepted)
  PROVE  /\ Idle /\ isr = NotRunning /\ isr' = NotRunning
         /\ \/ /\ n \in Length /\ uart' = accepted
               /\ call'.op = op /\ call'.pc = pc /\ call'.len = n
            \/ uart' = uart /\ call'.op = "none" /\ call'.pc = "idle"
BY ReturnEffect DEF Enter, TaskStep

\* An abort succeeds or times out.
LEMMA AbortCallEffect ==
  ASSUME NEW after, NEW timedOut, AbortCall(after, timedOut)
  PROVE  \/ hw' = after /\ call'.ret = "OK"
         \/ hw' \in timedOut /\ call'.ret = "TIMEOUT"
BY ReturnEffect DEF AbortCall

\* One of the receive stops the channel if it succeeds, and does not touch the
\* timeout.
LEMMA ReceiveAbortEffect ==
  ASSUME hw \in HwState, platform_uart_abort \/ platform_uart_abort_receive
  PROVE  /\ SameTimeout(hw', hw)
         /\ \/ call'.ret = "OK" /\ TransferOver(hw', hw)
            \/ call'.ret = "TIMEOUT" /\ TransferGoesOn(hw', hw)
<1> DEFINE a == HAL_UART_AbortReceive(hw)
           c == HAL_UART_AbortTransmit(a)
<1>1. a \in HwState /\ TransferOver(a, hw) /\ SameTimeout(a, hw)
  BY HalCallsTyped, AbortReceiveEffect
<1>2. TransferOver(c, hw) /\ SameTimeout(c, hw)
  <2>1. SameTransfer(c, a) /\ SameTimeout(c, a)
    BY <1>1, TransmitOverEffect
  <2> QED BY <1>1, <2>1 DEF TransferOver, SameTransfer, SameTimeout
<1>3. \A g \in Abort_TimedOut(hw) \cup AbortReceive_TimedOut(hw) :
        TransferGoesOn(g, hw) /\ SameTimeout(g, hw)
  BY AbortTimedOutEffect
<1>4. AbortCall(c, Abort_TimedOut(hw)) \/ AbortCall(a, AbortReceive_TimedOut(hw))
  BY DEF platform_uart_abort, platform_uart_abort_receive
<1> HIDE DEF a, c
<1> QED BY <1>1, <1>2, <1>3, <1>4, AbortCallEffect

\* One of the transmit leaves both.
LEMMA TransmitAbortEffect ==
  ASSUME hw \in HwState, platform_uart_abort_transmit
  PROVE  SameTimeout(hw', hw) /\ TransferGoesOn(hw', hw)
<1> DEFINE b == HAL_UART_AbortTransmit(hw)
<1>1. TransferGoesOn(b, hw) /\ SameTimeout(b, hw)
  BY TransmitOverEffect DEF SameTransfer, TransferGoesOn
<1>2. \A g \in AbortTransmit_TimedOut(hw) : TransferGoesOn(g, hw) /\ SameTimeout(g, hw)
  BY AbortTimedOutEffect
<1>3. AbortCall(b, AbortTransmit_TimedOut(hw))
  BY DEF platform_uart_abort_transmit
<1> HIDE DEF b
<1> QED BY <1>1, <1>2, <1>3, AbortCallEffect

\* A caller that keeps the rules keeps the invariant with every call.
LEMMA ClientCallKeeps ==
  ASSUME ~Overlap, Careful, Paced, IInv, ClientCall \/ ReceiveAbort, Attributed
  PROVE  Known'
<1>0. /\ DriverTypeOK /\ Known
      /\ hw \in HwState /\ uart \in platform_uart /\ call \in Call
  BY DEF IInv, TypeOK, DriverTypeOK
<1>1. Idle => call.op = "none" /\ ~Asking
  BY <1>0 DEF Known, CallKnown, Idle, Asking
<1>2. Quiet \/ MayReceive => ~hw.DMAR
  BY <1>0 DEF Known, ChannelKnown, Quiet, MayReceive
<1>3. ASSUME Idle, Quiet, platform_uart_init
      PROVE  Known'
  <2>1. AtRest
    BY <1>0, <1>1, <1>2, <1>3, RestKnown
  <2>2. uart'.rx_until_timeout_active = uart.rx_until_timeout_active
    BY <1>0, <1>3 DEF platform_uart_init, platform_uart
  <2>3. call'.pc = "idle" /\ call'.op = "none" /\ isr' = isr
    BY <1>3, ReturnEffect DEF platform_uart_init, TaskStep
  <2>4. CASE hw' = HAL_UART_Init(hw)
    <3>1. AtRest'
      BY <1>0, <2>1, <2>2, <2>3, <2>4, InitEffect, OverKnown DEF AtRest, Attributed
    <3> QED BY <2>3, <3>1, OverKnown, RestKeeps
  <2>5. CASE hw' = [hw EXCEPT !.gState = "RESET", !.RxState = "RESET"]
    <3>1. /\ SameTimeout(hw', hw)
          /\ hw'.EIE = hw.EIE /\ hw'.DMAR = hw.DMAR /\ hw'.TC = hw.TC
      BY <1>0, <2>5 DEF HwState, SameTimeout
    <3>2. AtRest'
      BY <2>1, <2>2, <2>3, <3>1, OverKnown DEF AtRest, Attributed, SameTimeout
    <3> QED BY <2>3, <3>2, OverKnown, RestKeeps
  <2> QED BY <1>3, <2>4, <2>5 DEF platform_uart_init
<1>4. ASSUME Idle, Quiet, platform_uart_deinit
      PROVE  Known'
  <2>1. AtRest
    BY <1>0, <1>1, <1>2, <1>4, RestKnown
  <2>2. uart'.rx_until_timeout_active = uart.rx_until_timeout_active
    BY <1>0, <1>4 DEF platform_uart_deinit, platform_uart
  <2>3. call'.pc = "idle" /\ call'.op = "none" /\ isr' = isr
    BY <1>4, ReturnEffect DEF platform_uart_deinit, TaskStep
  <2>4. AtRest'
    BY <1>0, <1>4, <2>1, <2>2, <2>3, DeInitEffect, OverKnown
       DEF AtRest, Attributed, platform_uart_deinit
  <2> QED BY <2>3, <2>4, OverKnown, RestKeeps
<1>5. ASSUME NEW n \in Lengths, MayReceiveUntilTimeout,
             platform_uart_receive_until_timeout_async(n)
      PROVE  Known'
  <2> DEFINE accepted == [uart EXCEPT !.rx_dma_length = n, !.rx_until_timeout_active = TRUE]
  <2>1. Enter("until_timeout", n, "enable", accepted) /\ hw' = hw
    BY <1>5 DEF platform_uart_receive_until_timeout_async
  <2>2. accepted.rx_dma_length = n /\ accepted.rx_until_timeout_active
    BY <1>0 DEF platform_uart
  <2> HIDE DEF accepted
  <2>3. AtRest /\ hw.RxState # "BUSY_RX" /\ ~hw.ORE
    BY <1>0, <1>1, <1>2, <1>5, <2>1, RestKnown, EnterEffect DEF MayReceiveUntilTimeout, MayReceive
  <2>4. CASE uart' = uart /\ call'.op = "none" /\ call'.pc = "idle"
    <3>1. AtRest'
      BY <2>1, <2>3, <2>4, EnterEffect, OverKnown, <1>0 DEF AtRest, Attributed
    <3> QED BY <2>4, <3>1, OverKnown, RestKeeps
  <2>5. CASE /\ uart' = accepted
             /\ call'.op = "until_timeout" /\ call'.pc = "enable" /\ call'.len = n
    <3>1. isr' = NotRunning /\ started' = "none"
      BY <1>0, <2>1, <2>3, EnterEffect DEF AtRest, Attributed
    <3> QED
      BY <2>1, <2>2, <2>3, <2>5, <3>1
         DEF AtRest, Known, CallKnown, ChannelKnown, NothingLeft, TimeoutOn, HandlerKnown,
             Asking, TimedReceive, ReceiveOp
  <2> QED BY <1>0, <2>1, <2>4, <2>5, EnterEffect
<1>6. ASSUME NEW n \in Lengths, MayReceive, platform_uart_receive_async(n)
      PROVE  Known'
  <2> DEFINE accepted == [uart EXCEPT !.rx_dma_length = n, !.rx_until_timeout_active = FALSE]
  <2>1. Enter("async", n, "disable", accepted) /\ hw' = hw
    BY <1>6 DEF platform_uart_receive_async
  <2>2. accepted.rx_dma_length = n /\ ~accepted.rx_until_timeout_active
    BY <1>0 DEF platform_uart
  <2> HIDE DEF accepted
  <2>3. AtRest /\ hw.RxState # "BUSY_RX"
    BY <1>0, <1>1, <1>2, <1>6, <2>1, RestKnown, EnterEffect DEF MayReceive
  <2>4. AtRest'
    BY <1>0, <2>1, <2>2, <2>3, EnterEffect DEF AtRest, Attributed, Asking
  <2>5. CallKnown'
    BY <1>0, <2>1, <2>2, <2>3, EnterEffect DEF CallKnown, Asking, ReceiveOp
  <2> QED BY <2>4, <2>5, RestKeeps
<1>7. ASSUME NEW n \in Lengths, MayReceive, platform_uart_receive(n)
      PROVE  Known'
  <2>1. /\ Idle /\ isr' = isr /\ uart' = uart
        /\ hw' = hw \/ hw' = [hw EXCEPT !.RxState = "BUSY_RX"]
        /\ \/ call'.op = "receive" /\ call'.pc = "polling"
           \/ call'.op = "none" /\ call'.pc = "idle"
    BY <1>7, ReturnEffect DEF platform_uart_receive, EnterBlocking, TaskStep
  <2>2. /\ SameTimeout(hw', hw)
        /\ hw'.EIE = hw.EIE /\ hw'.DMAR = hw.DMAR /\ hw'.TC = hw.TC
    BY <1>0, <2>1 DEF HwState, SameTimeout
  <2>3. AtRest
    BY <1>0, <1>1, <1>2, <1>7, <2>1, RestKnown
  <2>4. AtRest'
    BY <2>1, <2>2, <2>3 DEF AtRest, Attributed, SameTimeout, Asking
  <2>5. CallKnown'
    BY <2>1 DEF CallKnown, Asking, ReceiveOp
  <2> QED BY <2>4, <2>5, RestKeeps
<1>8. ASSUME NEW n \in Lengths, MayDisturb,
             platform_uart_transmit(n) \/ platform_uart_transmit_async(n)
      PROVE  Known'
  <2> DEFINE blocking == Transmit_Start(hw, FALSE)
             dma == Transmit_Start(hw, TRUE)
  <2>0. /\ SameTransfer(blocking, hw) /\ SameTimeout(blocking, hw)
        /\ SameTransfer(dma, hw) /\ SameTimeout(dma, hw)
        /\ SameTransfer(hw, hw) /\ SameTimeout(hw, hw)
    BY <1>0 DEF Transmit_Start, HwState, SameTransfer, SameTimeout
  <2>1. /\ Idle /\ isr' = isr /\ uart' = uart
        /\ hw' = hw \/ hw' = blocking \/ hw' = dma
        /\ \/ call'.op = "transmit" /\ call'.pc = "sending"
           \/ call'.op = "none" /\ call'.pc = "idle"
    <3>1. CASE EnterBlocking("transmit", n, "sending", hw.gState = "READY", blocking)
      <4> HIDE DEF blocking, dma
      <4> QED BY <3>1, ReturnEffect DEF EnterBlocking, TaskStep
    <3>2. CASE platform_uart_transmit_async(n)
      <4>1. hw' = hw \/ hw' = dma
        BY <3>2, Zenon DEF platform_uart_transmit_async
      <4> QED BY <3>2, <4>1, ReturnEffect DEF platform_uart_transmit_async, TaskStep
    <3> QED BY <1>8, <3>1, <3>2 DEF platform_uart_transmit
  <2> HIDE DEF blocking, dma
  <2>2. SameTransfer(hw', hw) /\ SameTimeout(hw', hw)
    BY <2>0, <2>1
  <2>3. CallKnown' /\ ~Asking' /\ call'.op # "receive"
    BY <2>1 DEF CallKnown, Asking, ReceiveOp
  <2>4. started' = started
    BY <1>0, <2>2 DEF Attributed, SameTransfer, Known, ChannelKnown
  <2> QED BY <1>0, <1>1, <1>8, <2>1, <2>2, <2>3, <2>4, ElsewhereKeeps DEF MayDisturb
<1>9. ASSUME MayDisturb, Idle, isr = NotRunning, UNCHANGED <<uart, isr>>,
             call'.op = "none", call'.pc = "idle",
             TransferOver(hw', hw) \/ TransferGoesOn(hw', hw), SameTimeout(hw', hw)
      PROVE  Known'
  <2>1. CASE TransferOver(hw', hw)
    <3>1. /\ ~hw.RTOEN /\ ~hw.RTOIE /\ ~hw.RTOF /\ ~hw.counting
          /\ ~uart.rx_until_timeout_active
      BY <1>0, <1>1, <1>9 DEF Known, NothingLeft, MayDisturb
    <3>2. AtRest'
      BY <1>9, <2>1, <3>1, OverKnown DEF AtRest, Attributed, TransferOver, SameTimeout
    <3> QED BY <1>9, <3>2, OverKnown, RestKeeps
  <2>2. CASE TransferGoesOn(hw', hw)
    <3>1. started' = started
      BY <1>0, <2>2 DEF Attributed, TransferGoesOn, Known, ChannelKnown
    <3> QED
      BY <1>0, <1>1, <1>9, <2>2, <3>1, OverKnown, ElsewhereKeeps DEF MayDisturb
  <2> QED BY <1>9, <2>1, <2>2
<1>10. ASSUME MayDisturb,
              platform_uart_abort \/ platform_uart_abort_transmit \/ platform_uart_abort_receive
       PROVE  Known'
  <2>1. /\ Idle /\ isr = NotRunning /\ UNCHANGED <<uart, isr>>
        /\ call'.op = "none" /\ call'.pc = "idle"
    BY <1>10, ReturnEffect
       DEF platform_uart_abort, platform_uart_abort_transmit, platform_uart_abort_receive,
           AbortCall, TaskStep
  <2>2. \/ TransferOver(hw', hw) /\ SameTimeout(hw', hw)
        \/ TransferGoesOn(hw', hw) /\ SameTimeout(hw', hw)
    BY <1>0, <1>10, ReceiveAbortEffect, TransmitAbortEffect
  <2> QED BY <1>9, <1>10, <2>1, <2>2
<1>11. Idle
  BY DEF ClientCall, ReceiveAbort, platform_uart_init, platform_uart_deinit,
         platform_uart_receive_until_timeout_async, platform_uart_receive_async, Enter,
         platform_uart_receive, platform_uart_transmit, EnterBlocking,
         platform_uart_transmit_async, platform_uart_abort, platform_uart_abort_transmit,
         platform_uart_abort_receive, AbortCall
<1>12. CASE ClientCall
  BY <1>3, <1>4, <1>5, <1>6, <1>7, <1>8, <1>10, <1>11, <1>12
     DEF ClientCall, MayReceiveUntilTimeout
<1>13. CASE ReceiveAbort
  BY <1>10, <1>13 DEF ReceiveAbort
<1> QED BY <1>12, <1>13

-----------------------------------------------------------------------------
(* The rest of a call.                                                     *)

\* A refused receive until timeout has its undoing before it; a refused plain
\* receive is over.
LEMMA RefusedEffect ==
  ASSUME DriverTypeOK, NEW status, ReceiveRefused(status)
  PROVE  \/ /\ Asking /\ call'.op = call.op /\ call'.len = call.len /\ call'.pc = "undo"
            /\ uart'.rx_dma_length = uart.rx_dma_length /\ ~uart'.rx_until_timeout_active
         \/ ~Asking /\ call'.op = "none" /\ call'.pc = "idle" /\ uart' = uart
<1>0. uart \in platform_uart /\ call \in Call
  BY DEF DriverTypeOK
<1>1. CASE Asking
  <2>1. /\ call' = [call EXCEPT !.pc = "undo", !.ret = status]
        /\ uart' = [uart EXCEPT !.rx_until_timeout_active = FALSE]
    BY <1>1 DEF ReceiveRefused, Asking
  <2>2. call'.op = call.op /\ call'.len = call.len /\ call'.pc = "undo"
    BY <1>0, <2>1 DEF Call, Returned, InProgress
  <2>3. uart'.rx_dma_length = uart.rx_dma_length /\ ~uart'.rx_until_timeout_active
    BY <1>0, <2>1 DEF platform_uart
  <2> QED BY <1>1, <2>2, <2>3
<1>2. CASE ~Asking
  BY <1>2, ReturnEffect DEF ReceiveRefused, Asking
<1> QED BY <1>1, <1>2

\* A refusal while the channel rests keeps the invariant.
LEMMA RefusedKeeps ==
  ASSUME IInv, NEW status, ReceiveRefused(status), call.pc \in {"arm", "start"},
         isr = NotRunning, UNCHANGED <<hw, isr>>, Attributed
  PROVE  Known'
<1>0. DriverTypeOK /\ Known
  BY DEF IInv, TypeOK
<1>1. call.op \in ReceiveOp /\ call.len = uart.rx_dma_length
      /\ hw.RxState # "BUSY_RX" /\ ~hw.DMAR /\ started' = "none"
  BY <1>0 DEF Known, CallKnown, ChannelKnown, Attributed
<1>2. CASE ~Asking /\ call'.op = "none" /\ call'.pc = "idle" /\ uart' = uart
  <2>1. AtRest'
    BY <1>0, <1>1, <1>2, RestKnown, OverKnown DEF AtRest
  <2> QED BY <1>2, <2>1, OverKnown, RestKeeps
<1>3. CASE /\ Asking /\ call'.op = call.op /\ call'.len = call.len /\ call'.pc = "undo"
           /\ uart'.rx_dma_length = uart.rx_dma_length /\ ~uart'.rx_until_timeout_active
  <2>1. ~TimedReceive /\ ~TimedReceive' /\ Asking'
    BY <1>1, <1>3 DEF TimedReceive, Asking
  <2>2. CallKnown'
    BY <1>0, <1>1, <1>3, <2>1 DEF Known, CallKnown, Asking, ReceiveOp
  <2>3. ChannelKnown' /\ HandlerKnown'
    BY <1>0, <1>1 DEF Known, ChannelKnown, HandlerKnown
  <2>4. NothingLeft'
    BY <1>0, <1>3, <2>1 DEF Known, NothingLeft
  <2>5. TimeoutOn'
    BY <1>0, <1>1, <1>3, <2>1 DEF Known, TimeoutOn
  <2> QED BY <2>2, <2>3, <2>4, <2>5 DEF Known
<1> QED BY <1>0, <1>2, <1>3, RefusedEffect

\* Every step of a call keeps the invariant.
LEMMA CallStepKeeps ==
  ASSUME IInv, CallStep, Attributed
  PROVE  Known'
<1>0. /\ DriverTypeOK /\ Known
      /\ hw \in HwState /\ uart \in platform_uart /\ call \in Call
  BY DEF IInv, TypeOK, DriverTypeOK
<1>1. isr = NotRunning /\ isr' = NotRunning
  BY DEF CallStep, EnableTimeout, DisableTimeout, ArmReceive, StartReceive, UndoTimeout,
         FinishTransmit, PollByte, FailReceive, TaskStep
<1>2. call.op \in ReceiveOp \cup {"receive"} => ~hw.DMAR
  BY <1>0 DEF Known, CallKnown, ChannelKnown
<1>3. CASE EnableTimeout
  <2>1. Asking /\ call.pc = "enable" /\ ~hw.DMAR
    BY <1>0, <1>2, <1>3 DEF EnableTimeout, Known, CallKnown, Asking, ReceiveOp
  <2>2. /\ SameTransfer(hw', hw) /\ SameLine(hw', hw) /\ SameTransmit(hw', hw)
        /\ hw'.RTOIE = hw.RTOIE /\ hw'.RTOF = hw.RTOF /\ hw'.counting = hw.counting
        /\ IF hw.gState = "READY" THEN hw'.RTOEN ELSE hw'.RTOEN = hw.RTOEN
    BY <1>0, <1>3, EnableReceiverTimeoutEffect DEF EnableTimeout
  <2>3. started' = "none" /\ ~TimedReceive /\ ~TimedReceive'
    BY <1>0, <2>1, <2>2 DEF Attributed, SameTransfer, TimedReceive
  <2>4. CASE hw.gState = "READY"
    <3>1. uart' = uart /\ call'.pc = "arm" /\ call'.op = call.op /\ call'.len = call.len
      BY <1>0, <1>3, <2>4, GotoEffect DEF EnableTimeout
    <3>2. Asking'
      BY <2>1, <3>1 DEF Asking
    <3>3. CallKnown'
      BY <1>0, <2>1, <2>2, <3>1, <3>2 DEF Known, CallKnown, SameTransfer, ReceiveOp, Asking
    <3>4. ChannelKnown' /\ HandlerKnown'
      BY <1>0, <1>1, <2>1, <2>2, <2>3 DEF Known, ChannelKnown, HandlerKnown, SameTransfer
    <3>5. NothingLeft'
      BY <1>0, <2>1, <2>2, <2>3, <2>4, <3>1, <3>2 DEF Known, NothingLeft
    <3>6. TimeoutOn'
      BY <1>0, <2>1, <2>2, <2>3, <2>4, <3>1, <3>2
         DEF Known, TimeoutOn, SameLine, SameTransmit
    <3> QED BY <3>3, <3>4, <3>5, <3>6 DEF Known
  <2>5. CASE hw.gState # "READY"
    <3>1. /\ call'.op = "none" /\ call'.pc = "idle"
          /\ uart' = [uart EXCEPT !.rx_until_timeout_active = FALSE]
      BY <1>3, <2>5, ReturnEffect DEF EnableTimeout
    <3>2. ~uart'.rx_until_timeout_active
      BY <1>0, <3>1 DEF platform_uart
    <3>3. AtRest'
      BY <1>0, <1>1, <2>1, <2>2, <2>3, <2>5, <3>1, <3>2, OverKnown
         DEF Known, NothingLeft, ChannelKnown, AtRest, SameTransfer
    <3> QED BY <3>1, <3>3, OverKnown, RestKeeps
  <2> QED BY <2>4, <2>5
<1>4. CASE DisableTimeout
  <2>1. call.op = "async" /\ ~Asking /\ ~hw.DMAR
    BY <1>0, <1>2, <1>4 DEF DisableTimeout, Known, CallKnown, Asking, ReceiveOp
  <2>2. AtRest
    BY <1>0, <2>1, RestKnown
  <2>3. /\ SameTransfer(hw', hw) /\ hw'.RTOIE = hw.RTOIE /\ hw'.RTOF = hw.RTOF
        /\ IF hw.gState = "READY" THEN ~hw'.RTOEN /\ ~hw'.counting
           ELSE hw'.RTOEN = hw.RTOEN /\ hw'.counting = hw.counting
    BY <1>0, <1>4, DisableReceiverTimeoutEffect DEF DisableTimeout
  <2>4. uart' = uart /\ call'.pc = "arm" /\ call'.op = call.op /\ call'.len = call.len
    BY <1>0, <1>4, GotoEffect DEF DisableTimeout
  <2>5. AtRest'
    BY <1>1, <2>1, <2>2, <2>3, <2>4 DEF AtRest, Attributed, Asking, SameTransfer
  <2>6. CallKnown'
    BY <1>0, <2>1, <2>3, <2>4 DEF Known, CallKnown, SameTransfer, ReceiveOp, Asking
  <2> QED BY <2>5, <2>6, RestKeeps
<1>5. CASE ArmReceive
  <2>1. call.op \in ReceiveOp /\ call.pc = "arm" /\ ~hw.DMAR
    BY <1>0, <1>2, <1>5 DEF ArmReceive, Known, CallKnown
  <2>2. CASE hw.RxState # "READY"
    BY <1>1, <1>5, <2>1, <2>2, RefusedKeeps DEF ArmReceive
  <2>3. CASE hw.RxState = "READY"
    <3>1. uart' = uart /\ call'.pc = "start" /\ call'.op = call.op /\ call'.len = call.len
      BY <1>0, <1>5, <2>3, GotoEffect DEF ArmReceive
    <3>2. /\ SameTransfer(hw', hw) /\ SameLine(hw', hw) /\ SameTransmit(hw', hw)
          /\ hw'.RTOEN = hw.RTOEN /\ hw'.RTOF = hw.RTOF /\ hw'.counting = hw.counting
          /\ IF hw.RTOEN THEN hw'.RTOIE ELSE hw'.RTOIE = hw.RTOIE
      BY <1>0, <1>5, <2>3, ReceiveArmEffect DEF ArmReceive
    <3>3. started' = "none" /\ ~TimedReceive /\ ~TimedReceive'
      BY <2>1, <3>2 DEF Attributed, SameTransfer, TimedReceive
    <3>4. CallKnown'
      BY <1>0, <2>1, <3>1, <3>2 DEF Known, CallKnown, SameTransfer, ReceiveOp, Asking
    <3>5. ChannelKnown' /\ HandlerKnown'
      BY <1>0, <1>1, <2>1, <3>2, <3>3 DEF Known, ChannelKnown, HandlerKnown, SameTransfer
    <3>6. NothingLeft'
      BY <1>0, <2>1, <3>1, <3>2, <3>3 DEF Known, NothingLeft, Asking
    <3>7. TimeoutOn'
      BY <1>0, <2>1, <3>1, <3>2, <3>3 DEF Known, TimeoutOn, SameLine, SameTransmit, Asking
    <3> QED BY <3>4, <3>5, <3>6, <3>7 DEF Known
  <2> QED BY <2>2, <2>3
<1>6. CASE StartReceive
  <2>1. /\ call.op \in ReceiveOp /\ call.pc = "start" /\ ~hw.DMAR
        /\ call.len = uart.rx_dma_length /\ call.len \in Length
    BY <1>0, <1>2, <1>6 DEF StartReceive, Known, CallKnown, Call, Returned, InProgress
  <2>2. CASE hw' = Receive_DMA_Start(hw, call.len) /\ call' = Return("OK") /\ uart' = uart
    <3>1. /\ SameTimeout(hw', hw) /\ SameLine(hw', hw) /\ SameTransmit(hw', hw)
          /\ hw'.RxState = "BUSY_RX" /\ hw'.EIE /\ hw'.DMAR /\ ~hw'.TC
          /\ hw'.remaining = call.len /\ hw'.size = call.len
      BY <1>0, <2>2, ReceiveStartEffect
    <3>2. call'.op = "none" /\ call'.pc = "idle" /\ started' = call.op
      BY <2>1, <2>2, <3>1, ReturnEffect DEF Attributed
    <3>3. (TimedReceive' <=> Asking) /\ ~Asking'
      BY <3>1, <3>2 DEF TimedReceive, Asking
    <3>4. ChannelKnown'
      BY <2>1, <2>2, <3>1, <3>2, MaxLengthAssumption DEF ChannelKnown, Length, ReceiveOp
    <3>5. NothingLeft'
      BY <1>0, <2>1, <2>2, <3>1, <3>3 DEF Known, NothingLeft, SameTimeout, TimedReceive
    <3>6. TimeoutOn' /\ HandlerKnown'
      BY <1>0, <1>1, <2>1, <2>2, <3>1, <3>2, <3>3
         DEF Known, TimeoutOn, HandlerKnown, SameTimeout, SameLine, SameTransmit
    <3> QED BY <3>2, <3>4, <3>5, <3>6, OverKnown DEF Known
  <2>3. CASE hw' = hw /\ ReceiveRefused("ERROR")
    BY <1>1, <2>1, <2>3, RefusedKeeps
  <2> QED BY <1>6, <2>2, <2>3 DEF StartReceive
<1>7. CASE UndoTimeout
  <2> DEFINE a == [hw EXCEPT !.RTOIE = FALSE]
  <2>1. Asking /\ call.pc = "undo" /\ ~hw.DMAR /\ ~TimedReceive /\ hw.gState = "READY"
    BY <1>0, <1>2, <1>7
       DEF UndoTimeout, Known, CallKnown, TimeoutOn, Asking, ReceiveOp, TimedReceive
  <2>2. /\ a \in HwState /\ SameTransfer(a, hw) /\ a.gState = hw.gState
        /\ ~a.RTOIE /\ a.RTOF = hw.RTOF
    BY <1>0 DEF HwState, SameTransfer
  <2> HIDE DEF a
  <2>3. /\ SameTransfer(hw', a) /\ hw'.RTOIE = a.RTOIE /\ hw'.RTOF = a.RTOF
        /\ ~hw'.RTOEN /\ ~hw'.counting
    BY <1>7, <2>1, <2>2, DisableReceiverTimeoutEffect DEF UndoTimeout, a
  <2>4. call'.op = "none" /\ call'.pc = "idle" /\ uart' = uart
    BY <1>7, ReturnEffect DEF UndoTimeout
  <2>5. AtRest'
    BY <1>0, <1>1, <2>1, <2>2, <2>3, <2>4, OverKnown
       DEF Known, NothingLeft, ChannelKnown, AtRest, Attributed, SameTransfer
  <2> QED BY <2>4, <2>5, OverKnown, RestKeeps
<1>8. CASE FinishTransmit
  <2>1. ~Asking /\ ~TimedReceive
    BY <1>0, <1>8 DEF FinishTransmit, Known, CallKnown, TimeoutOn, Asking
  <2>2. call'.op = "none" /\ call'.pc = "idle" /\ uart' = uart
    BY <1>8, ReturnEffect DEF FinishTransmit
  <2>3. SameTransfer(hw', hw) /\ SameTimeout(hw', hw)
    BY <1>0, <1>8 DEF FinishTransmit, HwState, SameTransfer, SameTimeout
  <2>4. started' = started
    BY <1>0, <2>3 DEF Attributed, SameTransfer, Known, ChannelKnown
  <2> QED BY <1>0, <1>1, <2>1, <2>2, <2>3, <2>4, OverKnown, ElsewhereKeeps
<1>9. CASE PollByte \/ FailReceive
  <2>1. call.op = "receive" /\ ~Asking /\ ~hw.DMAR
    BY <1>0, <1>2, <1>9 DEF PollByte, FailReceive, Known, CallKnown, Asking
  <2>2. AtRest
    BY <1>0, <2>1, RestKnown
  <2>3. /\ hw'.DMAR = hw.DMAR /\ hw'.TC = hw.TC /\ hw'.EIE = hw.EIE
        /\ hw'.RTOEN = hw.RTOEN /\ hw'.RTOIE = hw.RTOIE /\ hw'.counting = hw.counting
        /\ hw'.RTOF => hw.RTOF
    BY <1>0, <1>9 DEF PollByte, FailReceive, HwState
  <2>4. uart' = uart
    BY <1>9 DEF PollByte, FailReceive
  <2>5. \/ call'.op = "none" /\ call'.pc = "idle"
        \/ call'.op = "receive" /\ call'.pc = "polling"
    <3>1. call.pc = "polling"
      BY <1>9 DEF PollByte, FailReceive
    <3>2. \/ \E status : call' = Return(status)
          \/ call' = [call EXCEPT !.len = @ - 1]
      BY <1>9 DEF PollByte, FailReceive
    <3> QED BY <1>0, <2>1, <3>1, <3>2, ReturnEffect DEF Call, Returned, InProgress
  <2>6. AtRest'
    BY <1>1, <2>2, <2>3, <2>4, <2>5 DEF AtRest, Attributed, Asking
  <2>7. CallKnown'
    BY <2>5 DEF CallKnown, Asking, ReceiveOp
  <2> QED BY <2>6, <2>7, RestKeeps
<1> QED BY <1>3, <1>4, <1>5, <1>6, <1>7, <1>8, <1>9 DEF CallStep

-----------------------------------------------------------------------------
(* Interrupts and hardware.                                                *)

\* The handler of the timeout runs for a receive until timeout, and none other.
LEMMA TimeoutHasReceive ==
  ASSUME Known, hw.RTOF
  PROVE  TimedReceive
BY DEF Known, NothingLeft

\* Every handler keeps the invariant.
LEMMA InterruptKeeps ==
  ASSUME IInv, DriverInterrupt, Attributed
  PROVE  Known'
<1>0. /\ DriverTypeOK /\ Known
      /\ hw \in HwState /\ uart \in platform_uart /\ call \in Call
  BY DEF IInv, TypeOK, DriverTypeOK
<1>1. call' = call
  BY DEF DriverInterrupt, UsartRtoIrq, CompleteRx, UsartErrorIrq, UsartTxIrq,
         GPDMA1_Channel1_IRQHandler, IsrStep
<1>2. hw.DMAR => ~Asking
  BY <1>0 DEF Known, CallKnown, ChannelKnown, Asking, ReceiveOp
<1>3. ASSUME uart'.rx_dma_length = uart.rx_dma_length, hw'.RxState # "BUSY_RX"
      PROVE  CallKnown'
  BY <1>0, <1>1, <1>3 DEF Known, CallKnown, Asking
<1>4. CASE UsartRtoIrq
  <2>1. TimedReceive /\ hw.DMAR /\ ~Asking
    BY <1>0, <1>2, <1>4, TimeoutHasReceive DEF UsartRtoIrq, RtoPending, TimedReceive
  <2>2. /\ SameTransfer(hw', hw) /\ SameLine(hw', hw) /\ SameTransmit(hw', hw)
        /\ hw'.RTOEN = hw.RTOEN /\ ~hw'.RTOIE /\ ~hw'.RTOF /\ hw'.counting = hw.counting
    BY <1>0, <1>4, CloseTimeoutEffect DEF UsartRtoIrq
  <2>3. uart'.rx_dma_length = uart.rx_dma_length /\ ~uart'.rx_until_timeout_active
    BY <1>0, <1>4 DEF UsartRtoIrq, platform_uart
  <2>4. started' = started /\ TimedReceive' /\ ~Asking'
    BY <1>1, <2>1, <2>2 DEF Attributed, SameTransfer, TimedReceive, Asking
  <2>5. CallKnown'
    BY <1>0, <1>1, <2>2, <2>3 DEF Known, CallKnown, SameTransfer, Asking
  <2>6. ChannelKnown'
    BY <1>0, <1>1, <2>2, <2>3, <2>4 DEF Known, ChannelKnown, SameTransfer
  <2>7. NothingLeft'
    BY <1>0, <2>2, <2>3, <2>4 DEF Known, NothingLeft
  <2>8. isr' \in Nat /\ isr' <= hw'.size - hw'.remaining
    <3>1. /\ uart.rx_dma_length \in Nat /\ hw.remaining \in Nat /\ hw.size = uart.rx_dma_length
          /\ hw.remaining <= hw.size
      BY <1>0, <2>1 DEF platform_uart, HwState, Known, ChannelKnown
    <3>2. isr' = hw.size - hw.remaining
      BY <1>4, <3>1 DEF UsartRtoIrq, BytesReceived
    <3> QED BY <2>2, <3>1, <3>2 DEF SameTransfer
  <2>9. TimeoutOn' /\ HandlerKnown'
    BY <1>0, <1>1, <2>1, <2>2, <2>3, <2>4, <2>8
       DEF Known, TimeoutOn, HandlerKnown, SameLine, SameTransmit, NotRunning
  <2> QED BY <2>5, <2>6, <2>7, <2>9 DEF Known
<1>5. CASE CompleteRx
  <2> DEFINE a == HAL_UART_AbortReceive(hw)
  <2>1. /\ TimedReceive /\ hw.DMAR /\ ~Asking /\ hw.gState = "READY"
        /\ ~hw.RTOIE /\ ~hw.RTOF /\ ~uart.rx_until_timeout_active
    BY <1>0, <1>2, <1>5 DEF CompleteRx, Known, HandlerKnown, TimeoutOn, TimedReceive
  <2>2. a \in HwState /\ TransferOver(a, hw) /\ SameTimeout(a, hw) /\ SameTransmit(a, hw)
    BY <1>0, HalCallsTyped, AbortReceiveEffect
  <2> HIDE DEF a
  <2>3. /\ SameTransfer(hw', a) /\ hw'.RTOIE = a.RTOIE /\ hw'.RTOF = a.RTOF
        /\ ~hw'.RTOEN /\ ~hw'.counting
    BY <1>5, <2>1, <2>2, DisableReceiverTimeoutEffect DEF CompleteRx, a, SameTransmit
  <2>4. uart' = uart /\ isr' = NotRunning
    BY <1>5 DEF CompleteRx
  <2>5. AtRest'
    BY <1>1, <2>1, <2>2, <2>3, <2>4
       DEF AtRest, Attributed, Asking, SameTransfer, SameTimeout, TransferOver
  <2>6. CallKnown'
    BY <1>3, <2>2, <2>3, <2>4 DEF SameTransfer, TransferOver
  <2> QED BY <2>5, <2>6, RestKeeps
<1>6. CASE UsartErrorIrq
  <2>1. isr = NotRunning /\ isr' = isr /\ uart' = uart
    BY <1>6 DEF UsartErrorIrq, IsrStep
  <2>2. ~TimedReceive /\ ~hw.RTOF /\ hw.EIE /\ hw.DMAR
    <3>1. ASSUME TimedReceive PROVE FALSE
      BY <1>0, <1>6, <2>1, <3>1
         DEF UsartErrorIrq, RtoPending, HalErrorPending, Known, TimeoutOn
    <3> QED
      BY <1>0, <1>6, <3>1, TimeoutHasReceive
         DEF UsartErrorIrq, HalErrorPending, Known, ChannelKnown
  <2>3. /\ TransferOver(hw', hw)
        /\ hw'.RTOEN = hw.RTOEN /\ hw'.RTOIE = hw.RTOIE /\ hw'.counting = hw.counting
        /\ IF hw.RTOIE THEN ~hw'.RTOF ELSE hw'.RTOF = hw.RTOF
    BY <1>0, <1>6, EndRxOnErrorEffect DEF UsartErrorIrq
  <2>4. AtRest'
    BY <1>0, <1>1, <1>2, <2>1, <2>2, <2>3
       DEF AtRest, Attributed, Asking, TransferOver, Known, NothingLeft
  <2>5. CallKnown'
    BY <1>3, <2>1, <2>3 DEF TransferOver
  <2> QED BY <2>4, <2>5, RestKeeps
<1>7. CASE UsartTxIrq
  <2>1. isr = NotRunning /\ isr' = isr /\ uart' = uart
    BY <1>7 DEF UsartTxIrq, IsrStep
  <2>2. /\ SameTimeout(hw', hw) /\ SameTransfer(hw', hw) /\ SameLine(hw', hw)
        /\ hw'.gState = "READY"
    BY <1>0, <1>7, TransmitOverEffect DEF UsartTxIrq
  <2>3. started' = started /\ (TimedReceive' <=> TimedReceive) /\ (Asking' <=> Asking)
    BY <1>0, <1>1, <2>2 DEF Attributed, SameTransfer, TimedReceive, Asking, Known, ChannelKnown
  <2>4. CallKnown' /\ ChannelKnown'
    BY <1>0, <1>1, <2>1, <2>2, <2>3 DEF Known, CallKnown, ChannelKnown, SameTransfer
  <2>5. NothingLeft' /\ TimeoutOn' /\ HandlerKnown'
    BY <1>0, <1>1, <2>1, <2>2, <2>3
       DEF Known, NothingLeft, TimeoutOn, HandlerKnown, SameTimeout, SameLine
  <2> QED BY <2>4, <2>5 DEF Known
<1>8. CASE GPDMA1_Channel1_IRQHandler
  <2>1. isr = NotRunning /\ isr' = isr /\ hw.DMAR /\ ~Asking
    BY <1>0, <1>2, <1>8 DEF GPDMA1_Channel1_IRQHandler, IsrStep, Known, ChannelKnown
  <2>2. uart'.rx_dma_length = uart.rx_dma_length /\ ~uart'.rx_until_timeout_active
    BY <1>0, <1>8 DEF GPDMA1_Channel1_IRQHandler, platform_uart
  <2>3. /\ TransferOver(hw', hw)
        /\ ~uart.rx_until_timeout_active => SameTimeout(hw', hw)
        /\ uart.rx_until_timeout_active =>
             /\ ~hw'.RTOIE /\ ~hw'.RTOF
             /\ IF hw.gState = "READY" THEN ~hw'.RTOEN /\ ~hw'.counting
                ELSE hw'.RTOEN = hw.RTOEN /\ hw'.counting = hw.counting
    BY <1>0, <1>8, AfterRxCpltEffect DEF GPDMA1_Channel1_IRQHandler
  <2>4. ~hw'.RTOEN /\ ~hw'.RTOIE /\ ~hw'.RTOF /\ ~hw'.counting
    <3>1. CASE TimedReceive
      BY <1>0, <2>1, <2>3, <3>1 DEF Known, TimeoutOn
    <3>2. CASE ~TimedReceive
      BY <1>0, <2>1, <2>3, <3>2 DEF Known, NothingLeft, SameTimeout
    <3> QED BY <3>1, <3>2
  <2>5. AtRest'
    BY <1>1, <2>1, <2>2, <2>3, <2>4 DEF AtRest, Attributed, Asking, TransferOver
  <2>6. CallKnown'
    BY <1>3, <2>2, <2>3 DEF TransferOver
  <2> QED BY <2>5, <2>6, RestKeeps
<1> QED BY <1>4, <1>5, <1>6, <1>7, <1>8 DEF DriverInterrupt

\* So does the hardware, while the line keeps the rules of Arrival and Silence.
LEMMA HardwareKeeps ==
  ASSUME Paced, IInv, Arrival \/ DmaMovesByte \/ Silence, Attributed
  PROVE  Known'
<1>0. /\ DriverTypeOK /\ Known
      /\ hw \in HwState /\ uart \in platform_uart /\ call \in Call
  BY DEF IInv, TypeOK, DriverTypeOK
<1>1. uart' = uart /\ isr' = isr /\ call' = call
  BY DEF Arrival, ByteArrives, DmaMovesByte, Silence, LineFallsSilent, HardwareStep
<1>2. ASSUME hw'.DMAR = hw.DMAR
      PROVE  started' = started /\ (TimedReceive' <=> TimedReceive) /\ (Asking' <=> Asking)
  BY <1>0, <1>1, <1>2 DEF Attributed, TimedReceive, Asking, Known, ChannelKnown
<1>3. ASSUME SameTransfer(hw', hw)
      PROVE  CallKnown' /\ ChannelKnown'
  <2>1. started' = started /\ (Asking' <=> Asking)
    BY <1>2, <1>3 DEF SameTransfer
  <2> QED BY <1>0, <1>1, <1>3, <2>1 DEF Known, CallKnown, ChannelKnown, SameTransfer
<1>4. CASE Arrival
  <2>1. PICK b \in Byte : hw' = ReceiveChar(hw, b)
    BY <1>4 DEF Arrival, ByteArrives
  <2>2. /\ SameTransfer(hw', hw) /\ SameTransmit(hw', hw)
        /\ hw'.RTOEN = hw.RTOEN /\ hw'.RTOIE = hw.RTOIE /\ hw'.RTOF = hw.RTOF
        /\ hw'.counting = hw.RTOEN
        /\ hw.RDR = NoByte => hw'.ORE = hw.ORE
    BY <1>0, <2>1, ReceiveCharEffect
  <2>3. TimedReceive \/ Asking => hw'.ORE = hw.ORE
    BY <1>4, <2>2 DEF Arrival, Asking
  <2>4. started' = started /\ (TimedReceive' <=> TimedReceive) /\ (Asking' <=> Asking)
    BY <1>2, <2>2 DEF SameTransfer
  <2>5. NothingLeft' /\ TimeoutOn' /\ HandlerKnown'
    BY <1>0, <1>1, <2>2, <2>3, <2>4
       DEF Known, NothingLeft, TimeoutOn, HandlerKnown, SameTransfer, SameTransmit
  <2> QED BY <1>3, <2>2, <2>5 DEF Known
<1>5. CASE DmaMovesByte
  <2>1. /\ SameTimeout(hw', hw) /\ SameTransmit(hw', hw) /\ hw'.ORE = hw.ORE
        /\ hw'.RxState = hw.RxState /\ hw'.EIE = hw.EIE /\ hw'.DMAR = hw.DMAR /\ hw'.size = hw.size
        /\ hw'.remaining = hw.remaining - 1
        /\ hw'.TC <=> hw.remaining = 1
    BY <1>0, <1>5, DmaStoreEffect DEF DmaMovesByte
  <2>2. hw.DMAR /\ hw.remaining > 0 /\ hw.remaining \in Nat /\ hw.size \in Nat
    BY <1>0, <1>5, MaxLengthAssumption DEF DmaMovesByte, DmaRequest, HwState
  <2>3. started' = started /\ (TimedReceive' <=> TimedReceive) /\ (Asking' <=> Asking)
    BY <1>2, <2>1
  <2>4. CallKnown'
    BY <1>0, <1>1, <2>1, <2>3 DEF Known, CallKnown
  <2>5. ChannelKnown'
    BY <1>0, <1>1, <2>1, <2>2, <2>3 DEF Known, ChannelKnown
  <2>6. NothingLeft' /\ TimeoutOn'
    BY <1>0, <1>1, <2>1, <2>3 DEF Known, NothingLeft, TimeoutOn, SameTimeout, SameTransmit
  <2>7. HandlerKnown'
    <3>1. isr \in Int
      BY <1>0, MaxLengthAssumption DEF DriverTypeOK, NotRunning
    <3> QED
      BY <1>0, <1>1, <2>1, <2>2, <2>3, <3>1 DEF Known, HandlerKnown, SameTimeout
  <2> QED BY <2>4, <2>5, <2>6, <2>7 DEF Known
<1>6. CASE Silence
  <2>1. /\ SameTransfer(hw', hw) /\ SameLine(hw', hw) /\ SameTransmit(hw', hw)
        /\ hw'.RTOEN = hw.RTOEN /\ hw'.RTOIE = hw.RTOIE /\ hw'.RTOF /\ ~hw'.counting
    BY <1>0, <1>6, SilenceEffect DEF Silence, LineFallsSilent
  <2>2. isr = NotRunning /\ TimedReceive
    BY <1>0, <1>6 DEF Silence, LineFallsSilent, Known, NothingLeft, Asking, ReceiveOp
  <2>3. started' = started /\ (TimedReceive' <=> TimedReceive) /\ (Asking' <=> Asking)
    BY <1>2, <2>1 DEF SameTransfer
  <2>4. NothingLeft' /\ TimeoutOn' /\ HandlerKnown'
    BY <1>0, <1>1, <2>1, <2>2, <2>3
       DEF Known, NothingLeft, TimeoutOn, HandlerKnown, SameLine, SameTransmit
  <2> QED BY <1>3, <2>1, <2>4 DEF Known
<1> QED BY <1>4, <1>5, <1>6

-----------------------------------------------------------------------------
(* The invariant, and what follows from it in every state.                 *)

\* The driver begins with everything off.
LEMMA InitKnown == Init => IInv
<1> SUFFICES ASSUME Init PROVE IInv
  OBVIOUS
<1>1. TypeOK
  BY DriverInitTyped DEF Init, TypeOK, Op
<1>2. call.op = "none" /\ call.pc = "idle"
  BY ReturnEffect DEF Init, DriverInit
<1>3. /\ ~hw.DMAR /\ ~hw.TC /\ ~hw.EIE /\ ~hw.RTOEN /\ ~hw.RTOIE /\ ~hw.RTOF /\ ~hw.counting
      /\ ~uart.rx_until_timeout_active /\ started = "none" /\ isr = NotRunning
  BY DEF Init, DriverInit, HwReset
<1> QED
  BY <1>1, <1>2, <1>3
     DEF IInv, Known, CallKnown, ChannelKnown, NothingLeft, TimeoutOn, HandlerKnown,
         Asking, TimedReceive, ReceiveOp

\* Every step keeps the invariant.
LEMMA NextKnown ==
  ASSUME ~Overlap, Careful, Paced, IInv, [Next]_vars
  PROVE  IInv'
<1>1. TypeOK'
  BY NextTyped DEF IInv
<1>2. CASE Next
  <2>1. Attributed
    BY <1>2 DEF Next, Attributed, ReceiveStarts
  <2>2. Known'
    BY <1>2, <2>1, ClientCallKeeps, CallStepKeeps, InterruptKeeps, HardwareKeeps DEF Next, Step
  <2> QED BY <1>1, <2>2 DEF IInv
<1>3. CASE UNCHANGED vars
  BY <1>3 DEF vars, IInv, TypeOK, DriverTypeOK, Known, CallKnown, ChannelKnown, NothingLeft,
              TimeoutOn, HandlerKnown, Asking, TimedReceive
<1> QED BY <1>2, <1>3

\* Whatever a caller that keeps the rules does, the driver's fields, the HAL's
\* handle and the registers fit together.
THEOREM StateKnown ==
  ASSUME ~Overlap, Careful, Paced
  PROVE  Spec => []IInv
<1>1. Init => IInv
  BY InitKnown
<1>2. IInv /\ [Next]_vars => IInv'
  BY NextKnown
<1> QED BY <1>1, <1>2, PTL DEF Spec

\* A receive until timeout that runs has all that a silence needs to end it, for
\* every caller that neither overlaps receives nor disturbs one.
THEOREM SilenceEnds ==
  ASSUME ~Overlap, Careful, Paced
  PROVE  Spec => []SilenceEndsReceive
<1>1. IInv => SilenceEndsReceive
  BY DEF IInv, Known, TimeoutOn, TimedReceive, SilenceEndsReceive
<1> QED BY <1>1, StateKnown, PTL

-----------------------------------------------------------------------------
(* The refinement of RxContract: every step of the driver is one of its.   *)

SameCounts(g, h) == g.DMAR = h.DMAR /\ g.size = h.size /\ g.remaining = h.remaining

\* A step that leaves the channel alone and reports no receive is Other.
LEMMA OtherStep ==
  ASSUME ChannelKnown, Attributed, SameCounts(hw', hw), isr' = isr, aborted' = FALSE,
         cb' = NoCallback \/ cb' = [kind |-> "tx", n |-> 0]
  PROVE  RxContractOf!Next
<1>1. started' = started
  BY DEF SameCounts, Attributed, ChannelKnown
<1>2. RxContractOf!Quiet
  BY DEF RxContractOf!Quiet, NoCallback
<1>3. RxContractOf!Other
  BY <1>1, <1>2 DEF RxContractOf!Other, SameCounts
<1> QED BY <1>3 DEF RxContractOf!Next

\* What a caller begins leaves the channel alone.
LEMMA ClientCallCounts ==
  ASSUME IInv, ClientCall
  PROVE  SameCounts(hw', hw)
<1>0. hw \in HwState /\ (Quiet => ~hw.DMAR)
  BY DEF IInv, TypeOK, DriverTypeOK, Known, ChannelKnown, Quiet
<1>1. ASSUME Quiet, platform_uart_init
      PROVE  SameCounts(hw', hw)
  <2>1. ASSUME hw' = HAL_UART_Init(hw) PROVE SameCounts(hw', hw)
    BY <1>0, <2>1, InitEffect DEF SameCounts
  <2>2. ASSUME hw' = [hw EXCEPT !.gState = "RESET", !.RxState = "RESET"]
        PROVE  SameCounts(hw', hw)
    BY <1>0, <2>2 DEF HwState, SameCounts
  <2> QED BY <1>1, <2>1, <2>2 DEF platform_uart_init
<1>2. ASSUME Quiet, platform_uart_deinit
      PROVE  SameCounts(hw', hw)
  <2>1. /\ ~hw'.DMAR /\ hw'.size = hw.size /\ hw'.remaining = hw.remaining
        /\ hw' \in HwState
    BY <1>0, <1>2, DeInitEffect, HalCallsTyped DEF platform_uart_deinit
  <2> QED BY <1>0, <1>2, <2>1 DEF SameCounts, HwState
<1>3. ASSUME NEW n \in Lengths,
             platform_uart_receive_until_timeout_async(n) \/ platform_uart_receive_async(n)
      PROVE  SameCounts(hw', hw)
  BY <1>3 DEF platform_uart_receive_until_timeout_async, platform_uart_receive_async, SameCounts
<1>4. ASSUME NEW n \in Lengths, platform_uart_receive(n)
      PROVE  SameCounts(hw', hw)
  <2>1. hw' = hw \/ hw' = [hw EXCEPT !.RxState = "BUSY_RX"]
    BY <1>4 DEF platform_uart_receive, EnterBlocking
  <2> QED BY <1>0, <2>1 DEF HwState, SameCounts
<1>5. ASSUME NEW n \in Lengths, platform_uart_transmit(n) \/ platform_uart_transmit_async(n)
      PROVE  SameCounts(hw', hw)
  <2> DEFINE blocking == Transmit_Start(hw, FALSE)
             dma == Transmit_Start(hw, TRUE)
  <2>1. hw' = hw \/ hw' = blocking \/ hw' = dma
    BY <1>5, Zenon DEF platform_uart_transmit, platform_uart_transmit_async, EnterBlocking
  <2>2. SameCounts(blocking, hw) /\ SameCounts(dma, hw) /\ SameCounts(hw, hw)
    BY <1>0 DEF Transmit_Start, HwState, SameCounts
  <2> HIDE DEF blocking, dma
  <2> QED BY <2>1, <2>2
<1>6. CASE platform_uart_abort_transmit
  BY <1>0, <1>6, TransmitAbortEffect DEF TransferGoesOn, SameCounts
<1> QED BY <1>1, <1>2, <1>3, <1>4, <1>5, <1>6 DEF ClientCall

\* A caller's abort of the receive is Abort; one that times out changes nothing
\* that the contract speaks of.
LEMMA ReceiveAbortImplements ==
  ASSUME IInv, ReceiveAbort, aborted' = (call'.ret = "OK"), Attributed
  PROVE  RxContractOf!Next
<1>0. DriverTypeOK /\ ChannelKnown /\ hw \in HwState
  BY DEF IInv, TypeOK, DriverTypeOK, Known
<1>1. isr = NotRunning /\ isr' = NotRunning /\ cb' = NoCallback
  BY <1>0, ClientCallTyped DEF TaskStep
<1>2. CASE call'.ret = "OK" /\ ~hw'.DMAR
  <2>1. RxContractOf!Ended
    BY <1>1, <1>2 DEF RxContractOf!Ended, RxContractOf!NotYet, NotRunning, Attributed
  <2>2. RxContractOf!Abort
    BY <1>1, <1>2, <2>1 DEF RxContractOf!Abort, RxContractOf!NotYet, NotRunning, NoCallback
  <2> QED BY <2>2 DEF RxContractOf!Next
<1>3. CASE call'.ret = "TIMEOUT" /\ SameCounts(hw', hw)
  BY <1>0, <1>1, <1>3, OtherStep
<1>4. \/ call'.ret = "OK" /\ ~hw'.DMAR
      \/ call'.ret = "TIMEOUT" /\ SameCounts(hw', hw)
  BY <1>0, ReceiveAbortEffect DEF ReceiveAbort, TransferOver, TransferGoesOn, SameCounts
<1> QED BY <1>2, <1>3, <1>4

\* The calls: StartReceive is Start, all others are Other.
LEMMA CallsImplement ==
  ASSUME IInv, ClientCall \/ CallStep, aborted' = FALSE, Attributed
  PROVE  RxContractOf!Next
<1>0. /\ DriverTypeOK /\ Known /\ ChannelKnown
      /\ hw \in HwState /\ uart \in platform_uart /\ call \in Call
  BY DEF IInv, TypeOK, DriverTypeOK, Known
<1>1. cb' = NoCallback /\ isr = NotRunning /\ isr' = NotRunning
  <2>1. ClientCall => TaskStep
    BY <1>0, ClientCallTyped
  <2> QED
    BY <2>1 DEF CallStep, EnableTimeout, DisableTimeout, ArmReceive, StartReceive, UndoTimeout,
                FinishTransmit, PollByte, FailReceive, TaskStep
<1>2. CASE ClientCall
  BY <1>0, <1>1, <1>2, ClientCallCounts, OtherStep
<1>3. ASSUME SameCounts(hw', hw)
      PROVE  RxContractOf!Next
  BY <1>0, <1>1, <1>3, OtherStep
<1>4. CASE EnableTimeout
  BY <1>0, <1>3, <1>4, EnableReceiverTimeoutEffect DEF EnableTimeout, SameTransfer, SameCounts
<1>5. CASE DisableTimeout
  BY <1>0, <1>3, <1>5, DisableReceiverTimeoutEffect DEF DisableTimeout, SameTransfer, SameCounts
<1>6. CASE ArmReceive
  <2>1. hw' = hw \/ hw' = Receive_DMA_Arm(hw)
    BY <1>6 DEF ArmReceive
  <2> QED BY <1>0, <1>3, <2>1, ReceiveArmEffect DEF SameTransfer, SameCounts
<1>7. CASE StartReceive
  <2>1. CASE hw' = hw
    BY <1>3, <2>1 DEF SameCounts
  <2>2. CASE hw' = Receive_DMA_Start(hw, call.len)
    <3>1. call.op \in ReceiveOp /\ ~hw.DMAR /\ call.len \in Length
      BY <1>0, <1>7 DEF StartReceive, Known, CallKnown, ChannelKnown, Call, Returned, InProgress
    <3>2. hw'.DMAR /\ hw'.remaining = call.len /\ hw'.size = call.len
      BY <1>0, <2>2, ReceiveStartEffect
    <3>3. started = "none"
      BY <1>0, <3>1 DEF ChannelKnown
    <3>4. RxContractOf!Quiet
      BY <1>1 DEF RxContractOf!Quiet, NoCallback
    <3>5. RxContractOf!Start
      BY <1>1, <3>1, <3>2, <3>3, <3>4, MaxLengthAssumption
         DEF RxContractOf!Start, RxContractOf!NotYet, NotRunning, Length
    <3> QED BY <3>5 DEF RxContractOf!Next
  <2> QED BY <1>7, <2>1, <2>2 DEF StartReceive
<1>8. CASE UndoTimeout
  <2> DEFINE a == [hw EXCEPT !.RTOIE = FALSE]
  <2>1. a \in HwState /\ SameCounts(a, hw)
    BY <1>0 DEF HwState, SameCounts
  <2> HIDE DEF a
  <2>2. SameTransfer(hw', a)
    BY <1>8, <2>1, DisableReceiverTimeoutEffect DEF UndoTimeout, a
  <2> QED BY <1>3, <2>1, <2>2 DEF SameTransfer, SameCounts
<1>9. CASE FinishTransmit \/ PollByte \/ FailReceive
  BY <1>0, <1>3, <1>9 DEF FinishTransmit, PollByte, FailReceive, HwState, SameCounts
<1> QED BY <1>2, <1>4, <1>5, <1>6, <1>7, <1>8, <1>9 DEF CallStep

\* The handlers: a full buffer is Complete, the beginning of
\* complete_rx_until_timeout Notice, its end TimeOut, an error Fail.
LEMMA InterruptsImplement ==
  ASSUME IInv, DriverInterrupt, aborted' = FALSE, Attributed
  PROVE  RxContractOf!Next
<1>0. /\ DriverTypeOK /\ Known /\ ChannelKnown
      /\ hw \in HwState /\ uart \in platform_uart
  BY DEF IInv, TypeOK, DriverTypeOK, Known
<1>1. hw.remaining \in Nat /\ hw.size \in Nat
  BY <1>0, MaxLengthAssumption DEF HwState
<1>2. ~hw'.DMAR /\ isr' = NotRunning => RxContractOf!Ended
  BY DEF RxContractOf!Ended, RxContractOf!NotYet, NotRunning, Attributed
<1>3. CASE UsartRtoIrq
  <2>1. SameCounts(hw', hw) /\ cb' = NoCallback /\ isr = NotRunning
    BY <1>0, <1>3, CloseTimeoutEffect DEF UsartRtoIrq, IsrStep, SameTransfer, SameCounts
  <2>2. /\ hw.DMAR /\ started = "until_timeout"
        /\ hw.size = uart.rx_dma_length /\ hw.size > 0 /\ hw.remaining <= hw.size
    BY <1>0, <1>3, TimeoutHasReceive DEF UsartRtoIrq, RtoPending, TimedReceive, ChannelKnown
  <2>3. isr' = hw.size - hw.remaining
    BY <1>1, <1>3, <2>2 DEF UsartRtoIrq, BytesReceived
  <2>4. started' = started
    BY <2>1, <2>2 DEF SameCounts, Attributed
  <2>5. RxContractOf!Quiet
    BY <2>1 DEF RxContractOf!Quiet, NoCallback
  <2>6. RxContractOf!Notice
    BY <2>1, <2>2, <2>3, <2>4, <2>5
       DEF RxContractOf!Notice, RxContractOf!Running, RxContractOf!NotYet, NotRunning, SameCounts
  <2> QED BY <2>6 DEF RxContractOf!Next
<1>4. CASE UsartTxIrq
  <2>1. SameCounts(hw', hw) /\ cb' = [kind |-> "tx", n |-> 0] /\ isr' = isr
    BY <1>0, <1>4, TransmitOverEffect DEF UsartTxIrq, IsrStep, SameTransfer, SameCounts
  <2> QED BY <1>0, <2>1, OtherStep
<1>5. CASE CompleteRx
  <2> DEFINE a == HAL_UART_AbortReceive(hw)
  <2>1. a \in HwState /\ ~a.DMAR
    BY <1>0, HalCallsTyped, AbortReceiveEffect DEF TransferOver
  <2> HIDE DEF a
  <2>2. ~hw'.DMAR
    BY <1>5, <2>1, DisableReceiverTimeoutEffect DEF CompleteRx, SameTransfer, a
  <2>3. cb' = [kind |-> "rx", n |-> isr] /\ isr # NotRunning /\ isr' = NotRunning
    BY <1>5 DEF CompleteRx
  <2>4. RxContractOf!TimeOut
    BY <1>2, <2>2, <2>3
       DEF RxContractOf!TimeOut, RxContractOf!Report, RxContractOf!NotYet, NotRunning
  <2> QED BY <2>4 DEF RxContractOf!Next
<1>6. CASE UsartErrorIrq
  <2>1. ~hw'.DMAR
    BY <1>0, <1>6, EndRxOnErrorEffect DEF UsartErrorIrq, TransferOver
  <2>2. hw.DMAR
    BY <1>0, <1>6, TimeoutHasReceive
       DEF UsartErrorIrq, HalErrorPending, ChannelKnown, TimedReceive
  <2>3. cb' = [kind |-> "error", n |-> 0] /\ isr = NotRunning /\ isr' = isr
    BY <1>6 DEF UsartErrorIrq, IsrStep
  <2>4. RxContractOf!Fail
    BY <1>0, <1>2, <2>1, <2>2, <2>3
       DEF RxContractOf!Fail, RxContractOf!Report, RxContractOf!Running, RxContractOf!NotYet,
           NotRunning, ChannelKnown
  <2> QED BY <2>4 DEF RxContractOf!Next
<1>7. CASE GPDMA1_Channel1_IRQHandler
  <2>1. ~hw'.DMAR
    BY <1>0, <1>7, AfterRxCpltEffect DEF GPDMA1_Channel1_IRQHandler, TransferOver
  <2>2. hw.DMAR /\ hw.remaining = 0 /\ hw.size = uart.rx_dma_length /\ hw.size > 0
    BY <1>0, <1>7 DEF GPDMA1_Channel1_IRQHandler, ChannelKnown
  <2>3. /\ cb' = [kind |-> "rx", n |-> hw.size - hw.remaining]
        /\ isr = NotRunning /\ isr' = isr
    BY <1>1, <1>7, <2>2 DEF GPDMA1_Channel1_IRQHandler, IsrStep
  <2>4. RxContractOf!Complete
    BY <1>1, <1>2, <2>1, <2>2, <2>3
       DEF RxContractOf!Complete, RxContractOf!Report, RxContractOf!Running, RxContractOf!NotYet,
           NotRunning
  <2> QED BY <2>4 DEF RxContractOf!Next
<1> QED BY <1>3, <1>4, <1>5, <1>6, <1>7 DEF DriverInterrupt

\* The hardware: a byte taken by the channel is Store.
LEMMA HardwareImplements ==
  ASSUME IInv, Arrival \/ DmaMovesByte \/ Silence, aborted' = FALSE, Attributed
  PROVE  RxContractOf!Next
<1>0. ChannelKnown /\ hw \in HwState
  BY DEF IInv, TypeOK, DriverTypeOK, Known
<1>1. cb' = NoCallback /\ isr' = isr
  BY DEF Arrival, ByteArrives, DmaMovesByte, Silence, LineFallsSilent, HardwareStep
<1>2. CASE Arrival
  <2>1. PICK b \in Byte : hw' = ReceiveChar(hw, b)
    BY <1>2 DEF Arrival, ByteArrives
  <2>2. SameCounts(hw', hw)
    BY <1>0, <2>1, ReceiveCharEffect DEF SameTransfer, SameCounts
  <2> QED BY <1>0, <1>1, <2>2, OtherStep
<1>3. CASE Silence
  BY <1>0, <1>1, <1>3, SilenceEffect, OtherStep
     DEF Silence, LineFallsSilent, SameTransfer, SameCounts
<1>4. CASE DmaMovesByte
  <2>1. hw'.DMAR = hw.DMAR /\ hw'.size = hw.size /\ hw'.remaining = hw.remaining - 1
    BY <1>0, <1>4, DmaStoreEffect DEF DmaMovesByte
  <2>2. hw.DMAR /\ hw.remaining > 0 /\ hw.remaining \in Nat /\ hw.size \in Nat
    BY <1>0, <1>4, MaxLengthAssumption DEF DmaMovesByte, DmaRequest, HwState
  <2>3. started' = started
    BY <2>1, <2>2 DEF Attributed
  <2>4. RxContractOf!Quiet
    BY <1>1 DEF RxContractOf!Quiet, NoCallback
  <2>5. RxContractOf!Store
    BY <1>1, <2>1, <2>2, <2>3, <2>4 DEF RxContractOf!Store
  <2> QED BY <2>5 DEF RxContractOf!Next
<1> QED BY <1>2, <1>3, <1>4

\* The initial state is RxContract's, and every step one of its steps.
LEMMA StepsImplement ==
  /\ Init => RxContractOf!Init
  /\ IInv /\ Next => RxContractOf!Next
<1>1. ASSUME Init PROVE RxContractOf!Init
  BY <1>1 DEF Init, DriverInit, HwReset, NoCallback, NotRunning, RxContractOf!Init,
              RxContractOf!NotYet
<1>2. ASSUME IInv, Next PROVE RxContractOf!Next
  <2>1. Attributed
    BY <1>2 DEF Next, Attributed, ReceiveStarts
  <2> QED
    BY <1>2, <2>1, CallsImplement, ReceiveAbortImplements, InterruptsImplement,
       HardwareImplements
       DEF Next, Step
<1> QED BY <1>1, <1>2

\* The driver implements RxContract: for a caller that keeps the rules, the
\* promises of platform_uart.h about asynchronous receives hold at every step.
THEOREM ContractKept ==
  ASSUME ~Overlap, Careful, Paced
  PROVE  Spec => KeepsContract
<1>1. Init => RxContractOf!Init
  BY StepsImplement
<1>2. IInv /\ [Next]_vars =>
        [RxContractOf!Next]_<<IF hw.DMAR THEN hw.size ELSE 0, started = "until_timeout",
                              IF hw.DMAR THEN hw.size - hw.remaining ELSE 0, isr, aborted, cb>>
  BY StepsImplement DEF vars
<1> QED BY <1>1, <1>2, StateKnown, PTL DEF Spec, KeepsContract, RxContractOf!Spec

\* The three ways in which the driver misreports a receive all need a caller
\* that breaks the rules: kept, a completion has a receive ...
THEOREM CompletionsHaveReceive ==
  ASSUME ~Overlap, Careful, Paced
  PROVE  Spec => CompletionHasReceive
<1>1. IInv /\ [Next]_vars => [cb'.kind = "rx" => hw.DMAR]_vars
  <2> SUFFICES ASSUME IInv, Next, cb'.kind = "rx" PROVE hw.DMAR
    OBVIOUS
  <2>1. RxContractOf!Next
    BY StepsImplement
  <2>2. RxContractOf!Complete \/ RxContractOf!TimeOut
    BY <2>1
       DEF RxContractOf!Next, RxContractOf!Start, RxContractOf!Store, RxContractOf!Notice,
           RxContractOf!Fail, RxContractOf!Abort, RxContractOf!Other, RxContractOf!Quiet,
           RxContractOf!Report
  <2>3. isr # NotRunning => hw.DMAR
    BY DEF IInv, Known, HandlerKnown, TimedReceive
  <2> QED
    BY <2>2, <2>3
       DEF RxContractOf!Complete, RxContractOf!TimeOut, RxContractOf!Running,
           RxContractOf!NotYet, NotRunning
<1> QED BY <1>1, StateKnown, PTL DEF Spec, CompletionHasReceive

\* A completion callback reports no byte that the receive has not stored.
CountIsReceived == [][cb'.kind = "rx" => cb'.n <= hw.size - hw.remaining]_vars

\* ... and reports what that has stored, or less, whether or not a call is under
\* way ...
THEOREM CountsAreReceived ==
  ASSUME ~Overlap, Careful, Paced
  PROVE  Spec => CountIsReceived /\ RefusedCallLeavesCount
<1>1. IInv /\ [Next]_vars => [cb'.kind = "rx" => cb'.n <= hw.size - hw.remaining]_vars
  <2> SUFFICES ASSUME IInv, Next, cb'.kind = "rx" PROVE cb'.n <= hw.size - hw.remaining
    OBVIOUS
  <2>1. RxContractOf!Next
    BY StepsImplement
  <2>2. hw.size \in Nat /\ hw.remaining \in Nat
    BY MaxLengthAssumption DEF IInv, TypeOK, DriverTypeOK, HwState
  <2>3. isr # NotRunning => isr <= hw.size - hw.remaining
    BY DEF IInv, Known, HandlerKnown
  <2>4. RxContractOf!Complete \/ RxContractOf!TimeOut
    BY <2>1
       DEF RxContractOf!Next, RxContractOf!Start, RxContractOf!Store, RxContractOf!Notice,
           RxContractOf!Fail, RxContractOf!Abort, RxContractOf!Other, RxContractOf!Quiet,
           RxContractOf!Report
  <2> QED
    BY <2>2, <2>3, <2>4
       DEF RxContractOf!Complete, RxContractOf!TimeOut, RxContractOf!Running,
           RxContractOf!Report, RxContractOf!NotYet, NotRunning
<1>2. [cb'.kind = "rx" => cb'.n <= hw.size - hw.remaining]_vars
        => [(cb'.kind = "rx" /\ Idle) => cb'.n <= hw.size - hw.remaining]_vars
  OBVIOUS
<1> QED BY <1>1, <1>2, StateKnown, PTL DEF Spec, CountIsReceived, RefusedCallLeavesCount

\* ... and an error is an overrun.
THEOREM ErrorsAreErrors ==
  ASSUME ~Overlap, Careful, Paced
  PROVE  Spec => ErrorIsError
<1>1. IInv /\ [Next]_vars => [cb'.kind = "error" => hw.ORE]_vars
  <2> SUFFICES ASSUME IInv, Next, cb'.kind = "error" PROVE hw.ORE
    OBVIOUS
  <2>1. UsartErrorIrq
    <3>1. DriverTypeOK
      BY DEF IInv, TypeOK
    <3>2. ~ClientCall /\ ~ReceiveAbort
      BY <3>1, ClientCallTyped DEF TaskStep, NoCallback
    <3> QED
      BY <3>2
         DEF Next, Step, CallStep, EnableTimeout, DisableTimeout, ArmReceive, StartReceive,
             UndoTimeout, FinishTransmit, PollByte, FailReceive, TaskStep, DriverInterrupt,
             UsartRtoIrq, CompleteRx, UsartTxIrq, GPDMA1_Channel1_IRQHandler, Arrival,
             ByteArrives, DmaMovesByte, Silence, LineFallsSilent, HardwareStep, NoCallback
  <2>2. ~hw.RTOF \/ ~hw.RTOIE
    BY <2>1, TimeoutHasReceive
       DEF UsartErrorIrq, IsrStep, RtoPending, IInv, Known, TimeoutOn
  <2> QED BY <2>1, <2>2 DEF UsartErrorIrq, HalErrorPending
<1> QED BY <1>1, StateKnown, PTL DEF Spec, ErrorIsError
=============================================================================
