----------------------------- MODULE RxContract -----------------------------
(***************************************************************************)
(* What platform_uart.h promises about asynchronous receives, for a caller *)
(* that sees only the API: a receive that was started runs until it is     *)
(* completed, ended by an error or aborted by the caller; one completion   *)
(* callback ends it and reports every byte received, up to the last or to  *)
(* the moment the silence was noticed; nothing is reported when no receive *)
(* is running.                                                             *)
(***************************************************************************)
EXTENDS Integers

CONSTANT MaxLength

VARIABLES
  receiving,  \* length of the receive in progress, 0 when there is none
  timed,      \* it also ends at a silence
  got,        \* bytes stored in its buffer so far
  noticed,    \* bytes stored when the silence was noticed, or NotYet
  aborted,    \* whether the last step was the caller's abort
  cb          \* the callback made by the last step: [kind, n]

NotYet == -1

\* Neither the caller nor a callback has a part in the step.
Quiet == aborted' = FALSE /\ cb' \in [kind : {"none", "tx"}, n : {0}]

Report(kind, n) == aborted' = FALSE /\ cb' = [kind |-> kind, n |-> n]

Ended == receiving' = 0 /\ timed' = FALSE /\ got' = 0 /\ noticed' = NotYet

Init ==
  /\ receiving = 0 /\ timed = FALSE /\ got = 0 /\ noticed = NotYet
  /\ aborted = FALSE /\ cb = [kind |-> "none", n |-> 0]

Running == receiving > 0 /\ noticed = NotYet

Start ==
  /\ receiving = 0
  /\ receiving' \in 1..MaxLength /\ timed' \in BOOLEAN /\ got' = 0 /\ noticed' = NotYet
  /\ Quiet

Store ==
  /\ got < receiving
  /\ got' = got + 1
  /\ UNCHANGED <<receiving, timed, noticed>> /\ Quiet

\* The buffer is full, and every byte of it is reported.
Complete == Running /\ got = receiving /\ Report("rx", got) /\ Ended

\* The line was silent; bytes that come between the decision and the callback
\* are not reported.
Notice ==
  /\ Running /\ timed
  /\ noticed' = got
  /\ UNCHANGED <<receiving, timed, got>> /\ Quiet

TimeOut == noticed # NotYet /\ Report("rx", noticed) /\ Ended

Fail == Running /\ Report("error", 0) /\ Ended

Abort == noticed = NotYet /\ aborted' = TRUE /\ cb' = [kind |-> "none", n |-> 0] /\ Ended

\* Refused calls, transmits and everything else leave the receive alone.
Other == UNCHANGED <<receiving, timed, got, noticed>> /\ Quiet

Next == Start \/ Store \/ Complete \/ Notice \/ TimeOut \/ Fail \/ Abort \/ Other

Spec == Init /\ [][Next]_<<receiving, timed, got, noticed, aborted, cb>>
=============================================================================
