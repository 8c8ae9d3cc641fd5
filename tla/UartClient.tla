----------------------------- MODULE UartClient -----------------------------
(***************************************************************************)
(* The UART driver under any caller that keeps the rules its constants     *)
(* state.  One task makes the calls, in any order; the callbacks only      *)
(* record what they were told.                                             *)
(***************************************************************************)
EXTENDS UartDriver

CONSTANTS
  Ops,         \* the API functions this caller uses
  Overlap,     \* it may ask for a receive while one is running
  Careful,     \* it neither transmits nor aborts while a receive until timeout runs
  Paced        \* the line is never too fast for a receive until timeout, see below

OpNames == {"init", "deinit", "until_timeout", "async", "transmit", "receive",
            "transmit_async", "abort", "abort_transmit", "abort_receive"}

ASSUME OpsAssumption == Ops \subseteq OpNames
ASSUME RulesAssumption == {Overlap, Careful, Paced} \subseteq BOOLEAN

VARIABLES
  started,     \* the call that started the receive in progress
  overlapped,  \* a receive was asked for while one ran, and none has started since
  aborted      \* the last step was the caller's, and aborted the receive

\* The last three are there for the properties: no action looks at them but
\* the caller's own.
vars == <<uart, hw, isr, call, cb, started, overlapped, aborted>>

Init == DriverInit /\ started = "none" /\ overlapped = FALSE /\ aborted = FALSE

ReceiveOp == {"until_timeout", "async"}

TimedReceive == hw.DMAR /\ started = "until_timeout"

MayDisturb == Careful => ~TimedReceive

MayReceive == Overlap \/ hw.RxState # "BUSY_RX"

\* When the line is paced, a receive until timeout is asked for when no overrun
\* is pending, none happens while the call or the receive lasts, and a call that
\* starts a receive takes less than a timeout.
MayReceiveUntilTimeout == MayReceive /\ (Paced => ~hw.ORE)

Quiet == hw.RxState # "BUSY_RX" /\ hw.gState # "BUSY_TX"

\* One more than the longest transfer, to see it refused.
Lengths == 0..(MaxLength + 1)

\* No call but init is made on a handle that has never been initialised.
ClientCall ==
  \/ "init" \in Ops /\ Quiet /\ platform_uart_init
  \/ "deinit" \in Ops /\ uart.initialized /\ Quiet /\ platform_uart_deinit
  \/ \E n \in Lengths :
       /\ uart.initialized
       /\ \/ "until_timeout" \in Ops /\ MayReceiveUntilTimeout /\ platform_uart_receive_until_timeout_async(n)
          \/ "async" \in Ops /\ MayReceive /\ platform_uart_receive_async(n)
          \/ "receive" \in Ops /\ MayReceive /\ platform_uart_receive(n)
          \/ "transmit" \in Ops /\ MayDisturb /\ platform_uart_transmit(n)
          \/ "transmit_async" \in Ops /\ MayDisturb /\ platform_uart_transmit_async(n)
  \/ "abort_transmit" \in Ops /\ uart.initialized /\ MayDisturb /\ platform_uart_abort_transmit

ReceiveAbort ==
  /\ uart.initialized /\ MayDisturb
  /\ \/ "abort" \in Ops /\ platform_uart_abort
     \/ "abort_receive" \in Ops /\ platform_uart_abort_receive

CallStep ==
  \/ EnableTimeout \/ DisableTimeout \/ ArmReceive \/ StartReceive \/ UndoTimeout
  \/ FinishTransmit \/ PollByte \/ FailReceive

Arrival ==
  /\ (Paced /\ (TimedReceive \/ call.op = "until_timeout")) => hw.RDR = NoByte
  /\ \E b \in Byte : ByteArrives(b)

Silence == (Paced => call.op \notin ReceiveOp) /\ LineFallsSilent

Step ==
  \/ /\ ClientCall \/ CallStep \/ DriverInterrupt \/ Arrival \/ DmaMovesByte \/ Silence
     /\ aborted' = FALSE
  \/ ReceiveAbort /\ aborted' = (call'.ret = "OK")

ReceiveStarts == ~hw.DMAR /\ hw'.DMAR

Next ==
  /\ Step
  /\ started' = IF ~hw'.DMAR THEN "none" ELSE IF ReceiveStarts THEN call.op ELSE started
  /\ overlapped' = (~ReceiveStarts /\ (overlapped \/ (hw.DMAR /\ call'.op \in ReceiveOp)))

\* Calls return, pending interrupts are served, a request to the DMA channel
\* is granted, and a silence that lasts is noticed.
Fairness == WF_vars(CallStep /\ Next) /\ WF_vars(DriverInterrupt /\ Next)
            /\ WF_vars(DmaMovesByte /\ Next) /\ WF_vars(Silence /\ Next)

Spec == Init /\ [][Next]_vars /\ Fairness

-----------------------------------------------------------------------------
(* Properties.                                                             *)

\* Every variable has its type.
TypeOK ==
  /\ DriverTypeOK
  /\ started \in Op \cup {"none"} /\ overlapped \in BOOLEAN /\ aborted \in BOOLEAN

\* The length the caller gave with the receive that is being started or was
\* started last.
Requested == IF call.op \in ReceiveOp THEN call.len ELSE hw.size

\* A completion callback never reports more bytes than the receive it speaks of
\* was asked for: the driver counts from rx_dma_length and the DMA counter, which
\* belong to different receives between a call and the start of its transfer,
\* after an abort and after a call that the HAL refused.  Only a caller that
\* asks for a receive while one runs can mix them up.
CountFits ==
  ~overlapped =>
    /\ cb.kind = "rx" => cb.n \in 0..Requested
    /\ isr # NotRunning => isr \in 0..Requested

\* A receive until timeout that runs while the caller does nothing else has
\* all that a silence needs to end it: no interleaving of the call with the
\* interrupts that end the receive before it leaves it half closed.
SilenceEndsReceive ==
  (call.pc = "idle" /\ isr = NotRunning /\ hw.DMAR /\ started = "until_timeout")
    => (uart.rx_until_timeout_active /\ hw.RTOEN /\ hw.RTOIE)

\* Such a receive ends once a byte has come after its timeout was enabled.
ReceiveEnds == (TimedReceive /\ hw.counting) ~> ~hw.DMAR

\* A completion callback ends a receive: none comes when nothing is received.
CompletionHasReceive == [][cb'.kind = "rx" => hw.DMAR]_vars

\* A completion callback that comes while no call is under way reports no byte
\* that the receive has not stored: a call that was refused has left no trace in
\* the receive that runs.
RefusedCallLeavesCount ==
  [][(cb'.kind = "rx" /\ Idle) => cb'.n <= hw.size - hw.remaining]_vars

\* The error callback reports an error of the line: an overrun, here, and not
\* the end of a timeout that no receive asked for.
ErrorIsError == [][cb'.kind = "error" => hw.ORE]_vars

\* The promises of platform_uart.h, kept by every step: see RxContract.
RxContractOf ==
  INSTANCE RxContract WITH
    receiving <- IF hw.DMAR THEN hw.size ELSE 0,
    timed     <- started = "until_timeout",
    got       <- IF hw.DMAR THEN hw.size - hw.remaining ELSE 0,
    noticed   <- isr

KeepsContract == RxContractOf!Spec
=============================================================================
