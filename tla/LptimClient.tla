---------------------------- MODULE LptimClient ----------------------------
(***************************************************************************)
(* The timer driver under any caller that registers callbacks and          *)
(* initialises only when the statuses it was given say that the timer      *)
(* stands still, and uses nothing it has never initialised.                *)
(***************************************************************************)
EXTENDS LptimDriver

CONSTANTS
  Periods,  \* the periods it asks for, in milliseconds
  Tables    \* the callback tables it registers

ASSUME PeriodsAssumption == Periods \subseteq Nat
ASSUME TablesAssumption == Tables \subseteq Nat \ {0}

VARIABLES
  mayCount,  \* the timer has been started and no stop has succeeded since
  asked,     \* periods accepted since the last initialisation that succeeded, and its own
  table      \* the last table registered

vars == <<timer, lptim, tcall, elapsed, mayCount, asked, table>>

Init ==
  /\ LptimInit
  /\ mayCount = FALSE /\ asked = {} /\ table = NULL

Start ==
  /\ platform_lptim_start
  /\ mayCount' = (mayCount \/ tcall'.ret # "INVALID_ARG")
  /\ UNCHANGED <<asked, table>>

Stop ==
  /\ (platform_lptim_stop \/ (lptim.instance /\ platform_lptim_deinit))
  /\ mayCount' = (mayCount /\ tcall'.ret # "OK")
  /\ UNCHANGED <<asked, table>>

Register ==
  /\ ~mayCount
  /\ \E t \in Tables \cup {NULL} : platform_lptim_register_callbacks(t) /\ table' = t
  /\ UNCHANGED <<mayCount, asked>>

Initialise ==
  /\ ~mayCount
  /\ \E p \in Periods :
       /\ platform_lptim_init(p)
       /\ asked' = (IF Accepted(p) THEN asked \cup {p} ELSE asked)
  /\ UNCHANGED <<mayCount, table>>

CallStep ==
  /\ \/ CopyCallback /\ UNCHANGED asked
     \/ Configure /\ asked' = (IF tcall'.ret = "OK" THEN {tcall.arg} ELSE asked)
  /\ UNCHANGED <<mayCount, table>>

Interrupt == LPTIM1_IRQHandler /\ UNCHANGED <<mayCount, asked, table>>

Hardware == PeriodPasses /\ UNCHANGED <<mayCount, asked, table>>

Next == Start \/ Stop \/ Register \/ Initialise \/ CallStep \/ Interrupt \/ Hardware

\* A counter that runs reaches its end, and its interrupt is served.
Fairness == WF_vars(Interrupt) /\ WF_vars(Hardware)

Spec == Init /\ [][Next]_vars /\ Fairness

-----------------------------------------------------------------------------
(* Properties.                                                             *)

\* Every variable has its type.
TypeOK ==
  /\ LptimTypeOK
  /\ mayCount \in BOOLEAN /\ asked \subseteq Periods /\ table \in Nat

\* Whenever the interrupt can be taken, the handle it uses is whole: neither a
\* failed stop nor a call cut short by an interrupt leaves one that is cleared
\* while LPTIM1 still counts.
InterruptFindsHandle == LptimPending => lptim.instance

\* A callback gets the context that was registered with it, and it is the one
\* that was registered last, though the table is copied word by word.
CallbackMatches ==
  elapsed # NotElapsed => elapsed = [w \in CallbackWords |-> table]

\* The counter takes at least p milliseconds from 0 to its end, and no tick
\* more than needed.
Lasts(arr, p) == (arr + 1) * 1000 >= LPTIM1_TICK_HZ * p /\ arr * 1000 < LPTIM1_TICK_HZ * p

\* A timer that counts has a period the caller asked for: that of the last
\* initialisation if it succeeded, or else one asked for since the last that did.
PeriodHonoured == lptim.counting => \E p \in asked : Lasts(lptim.ARR, p)

\* A timer that counts calls back until it is stopped, after any sequence of
\* initialisations and deinitialisations before.
KeepsElapsing ==
  (lptim.counting /\ timer.period_elapsed # NULL)
    ~> (elapsed # NotElapsed \/ ~lptim.counting)
=============================================================================
