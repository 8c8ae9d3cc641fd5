------------------------- MODULE LptimClient_proofs -------------------------
(***************************************************************************)
(* Theorems about LptimClient, for every frequency of the timer's clock,   *)
(* every width of its register, and all periods and callback tables.       *)
(***************************************************************************)
EXTENDS LptimClient, LptimDriver_proofs

-----------------------------------------------------------------------------
(* The arithmetic of period_to_autoreload.                                 *)

\* What is accepted lasts as long as it should, in a register it fits.
LEMMA AcceptedLasts ==
  ASSUME NEW p \in Nat, Accepted(p)
  PROVE  Ticks(p) - 1 \in Autoreload /\ Lasts(Ticks(p) - 1, p)
<1>1. Ticks(p) \in Nat
  BY TicksRoundUp
<1>2. Ticks(p) - 1 \in Autoreload
  BY AcceptedFits
<1>3. /\ Ticks(p) * 1000 >= LPTIM1_TICK_HZ * p
      /\ (Ticks(p) - 1) * 1000 < LPTIM1_TICK_HZ * p
      /\ (Ticks(p) - 1) + 1 = Ticks(p)
  BY <1>1, TicksRoundUp
<1> QED
  BY <1>2, <1>3 DEF Lasts

-----------------------------------------------------------------------------
(* The inductive invariant.                                                *)

\* A timer that counts is one the caller knows may count, and while that is so
\* no initialisation and no registration is under way; its handle is whole,
\* and so is any that start would accept.
HandleWhole ==
  /\ lptim.counting => mayCount /\ lptim.instance
  /\ tcall.pc # "idle" => ~mayCount
  /\ (timer.initialized /\ tcall.pc # "configure") => lptim.instance

\* The register of a timer that counts, or that start would let count, holds
\* a period asked for; one that is being configured has been accepted.
PeriodKnown ==
  /\ (lptim.counting \/ timer.initialized) => \E p \in asked : Lasts(lptim.ARR, p)
  /\ tcall.pc = "configure" => tcall.arg \in asked /\ Accepted(tcall.arg)

\* Every word of the callback table that is not still to be copied is that of
\* the table registered last.
TableKnown ==
  /\ tcall.pc = "copy" => tcall.arg = table
  /\ (tcall.pc = "copy" /\ "period_elapsed" \in tcall.words) \/ timer.period_elapsed = table
  /\ (tcall.pc = "copy" /\ "user_context" \in tcall.words) \/ timer.user_context = table

IInv == TypeOK /\ HandleWhole /\ PeriodKnown /\ TableKnown /\ CallbackMatches

-----------------------------------------------------------------------------
(* It holds initially, and every action keeps each part of it.             *)

\* A driver that has just been loaded satisfies the invariant.
LEMMA InitHolds == Init => IInv
<1> SUFFICES ASSUME Init PROVE IInv
  OBVIOUS
<1>1. tcall \in TimerCall /\ tcall.pc = "idle" /\ elapsed = NotElapsed
  BY TimerReturnTyped DEF Init, LptimInit
<1>2. timer \in platform_lptim /\ lptim \in Lptim
  BY MaxTicksAssumption DEF Init, LptimInit, platform_lptim, Lptim, Autoreload, NULL
<1>3. TypeOK
  BY <1>1, <1>2, NotElapsedTyped DEF Init, TypeOK, LptimTypeOK, NULL
<1>4. HandleWhole /\ PeriodKnown
  BY <1>1 DEF Init, LptimInit, HandleWhole, PeriodKnown
<1>5. TableKnown /\ CallbackMatches
  BY <1>1 DEF Init, LptimInit, TableKnown, CallbackMatches
<1> QED
  BY <1>3, <1>4, <1>5 DEF IInv

\* Every step keeps the types; the range of the register needs PeriodKnown.
LEMMA StepTyped ==
  ASSUME IInv, Next
  PROVE  TypeOK'
<1>0. TypeOK /\ PeriodKnown /\ LptimTypeOK
  BY DEF IInv, TypeOK
<1>1. CASE Start \/ Stop
  BY <1>0, <1>1, TimerApiTyped DEF Start, Stop, TypeOK
<1>2. CASE Register
  <2>1. PICK t \in Tables \cup {NULL} : platform_lptim_register_callbacks(t) /\ table' = t
    BY <1>2 DEF Register
  <2>2. t \in Nat
    BY TablesAssumption DEF NULL
  <2> QED BY <1>0, <1>2, <2>1, <2>2, TimerApiTyped DEF Register, TypeOK
<1>3. CASE Initialise
  <2>1. PICK p \in Periods :
          /\ platform_lptim_init(p)
          /\ asked' = (IF Accepted(p) THEN asked \cup {p} ELSE asked)
    BY <1>3 DEF Initialise
  <2>2. LptimTypeOK'
    BY <1>0, <2>1, PeriodsAssumption, TimerApiTyped
  <2> QED BY <1>0, <1>3, <2>1, <2>2 DEF Initialise, TypeOK
<1>4. CASE CallStep
  <2>1. mayCount' = mayCount /\ table' = table
    BY <1>4 DEF CallStep
  <2>2. CASE CopyCallback /\ UNCHANGED asked
    BY <1>0, <2>1, <2>2, CopyTyped DEF TypeOK
  <2>3. CASE Configure /\ asked' = (IF tcall'.ret = "OK" THEN {tcall.arg} ELSE asked)
    <3>1. tcall.arg \in asked /\ Accepted(tcall.arg)
      BY <1>0, <2>3 DEF Configure, PeriodKnown
    <3>2. LptimTypeOK'
      BY <1>0, <2>3, <3>1, ConfigureTyped
    <3> QED BY <1>0, <2>1, <2>3, <3>1, <3>2 DEF TypeOK
  <2> QED BY <1>4, <2>2, <2>3 DEF CallStep
<1>5. CASE Interrupt \/ Hardware
  BY <1>0, <1>5, TimerHardwareTyped DEF Interrupt, Hardware, TypeOK
<1> QED BY <1>1, <1>2, <1>3, <1>4, <1>5 DEF Next

\* The handle: start needs one that is whole, init clears one that stands still.
LEMMA StepKeepsHandle ==
  ASSUME IInv, Next
  PROVE  HandleWhole'
<1> USE DEF HandleWhole
<1>0. /\ HandleWhole /\ lptim \in Lptim /\ timer \in platform_lptim
      /\ tcall.pc \in {"idle", "copy", "configure"} /\ mayCount \in BOOLEAN
  BY DEF IInv, TypeOK, LptimTypeOK, TimerCall
<1>1. CASE Start
  <2>1. timer' = timer /\ tcall'.pc = "idle" /\ tcall.pc = "idle"
    BY <1>1, TimerReturnTyped DEF Start, platform_lptim_start, Control, TimerIdle
  <2>2. CASE lptim' = lptim
    BY <1>0, <1>1, <2>1, <2>2 DEF Start
  <2>3. CASE /\ timer.initialized /\ tcall' = TimerReturn("OK")
             /\ lptim' = [lptim EXCEPT !.counting = TRUE]
    <3>1. lptim'.instance = lptim.instance
      BY <1>0, <2>3 DEF Lptim
    <3>2. mayCount'
      BY <1>1, <2>3, TimerReturnTyped DEF Start
    <3> QED
      BY <1>0, <2>1, <2>3, <3>1, <3>2
  <2> QED
    BY <1>1, <2>2, <2>3 DEF Start, platform_lptim_start, Control
<1>2. CASE Stop
  <2>1. tcall.pc = "idle" /\ tcall'.pc = "idle"
    BY <1>2, TimerReturnTyped
       DEF Stop, platform_lptim_stop, platform_lptim_deinit, Control, TimerIdle
  <2>2. timer'.initialized => timer.initialized
    BY <1>0, <1>2
       DEF Stop, platform_lptim_stop, platform_lptim_deinit, Control, platform_lptim
  <2>3. CASE lptim' = lptim /\ tcall'.ret # "OK"
    BY <1>0, <1>2, <2>1, <2>2, <2>3 DEF Stop
  <2>4. CASE ~lptim'.counting /\ lptim'.instance = lptim.instance
    BY <1>0, <2>1, <2>2, <2>4
  <2>5. \/ lptim' = lptim /\ tcall'.ret # "OK"
        \/ lptim' = HAL_LPTIM_Stopped(lptim)
        \/ lptim' = HAL_LPTIM_MspDeInit(HAL_LPTIM_Stopped(lptim))
    BY <1>2, TimerReturnTyped DEF Stop, platform_lptim_stop, platform_lptim_deinit, Control
  <2> QED
    BY <1>0, <2>3, <2>4, <2>5 DEF HAL_LPTIM_Stopped, HAL_LPTIM_MspDeInit, Lptim
<1>3. CASE Register
  BY <1>0, <1>3 DEF Register, platform_lptim_register_callbacks, TimerIdle
<1>4. CASE Initialise
  <2>1. ~mayCount /\ mayCount' = mayCount /\ timer' = timer /\ tcall.pc = "idle"
    BY <1>4 DEF Initialise, platform_lptim_init, TimerIdle
  <2>2. CASE lptim' = lptim
    BY <1>0, <2>1, <2>2
  <2>3. CASE lptim' = [lptim EXCEPT !.instance = FALSE] /\ tcall'.pc = "configure"
    <3>1. lptim'.counting = lptim.counting
      BY <1>0, <2>3 DEF Lptim
    <3> QED
      BY <1>0, <2>1, <2>3, <3>1
  <2> QED
    BY <1>4, <2>2, <2>3 DEF Initialise, platform_lptim_init
<1>5. CASE CallStep
  <2>1. mayCount' = mayCount
    BY <1>5 DEF CallStep
  <2>2. CASE CopyCallback
    <3>1. lptim' = lptim /\ tcall.pc = "copy"
      BY <2>2 DEF CopyCallback
    <3>2. PICK word \in tcall.words : timer' = [timer EXCEPT ![word] = tcall.arg]
      BY <2>2 DEF CopyCallback
    <3>3. word = "period_elapsed" \/ word = "user_context"
      BY DEF IInv, TypeOK, LptimTypeOK, TimerCall, CallbackWords
    <3>4. timer'.initialized = timer.initialized
      BY <1>0, <3>2, <3>3 DEF platform_lptim
    <3> QED
      BY <1>0, <2>1, <3>1, <3>4
  <2>3. CASE Configure
    <3>1. tcall.arg \in Nat /\ Accepted(tcall.arg)
      BY <2>3, PeriodsAssumption DEF Configure, IInv, PeriodKnown, TypeOK
    <3>2. lptim'.instance /\ lptim'.counting = lptim.counting
      BY <1>0, <2>3, <3>1, AcceptedLasts, ConfigureOutcome
    <3>3. tcall.pc = "configure" /\ tcall'.pc = "idle"
      BY <2>3, TimerReturnTyped DEF Configure
    <3> QED
      BY <1>0, <2>1, <3>2, <3>3
  <2> QED
    BY <1>5, <2>2, <2>3 DEF CallStep
<1>6. CASE Interrupt
  <2>1. lptim'.counting = lptim.counting /\ lptim'.instance = lptim.instance
    BY <1>0, <1>6 DEF Interrupt, LPTIM1_IRQHandler, Lptim
  <2> QED
    BY <1>0, <1>6, <2>1 DEF Interrupt, LPTIM1_IRQHandler
<1>7. CASE Hardware
  <2>1. lptim'.counting = lptim.counting /\ lptim'.instance = lptim.instance
    BY <1>0, <1>7 DEF Hardware, PeriodPasses, Lptim
  <2> QED
    BY <1>0, <1>7, <2>1 DEF Hardware, PeriodPasses
<1> QED
  BY <1>1, <1>2, <1>3, <1>4, <1>5, <1>6, <1>7 DEF Next

\* The period: only Configure writes it, and what it writes was asked for.
LEMMA StepKeepsPeriod ==
  ASSUME IInv, Next
  PROVE  PeriodKnown'
<1> USE DEF IInv, PeriodKnown, TypeOK, LptimTypeOK, platform_lptim, Lptim, TimerCall, TimerReturn
<1>1. ASSUME lptim'.ARR = lptim.ARR, asked \subseteq asked',
             (lptim'.counting \/ timer'.initialized) => (lptim.counting \/ timer.initialized),
             tcall'.pc = "configure" => tcall'.arg \in asked' /\ Accepted(tcall'.arg)
      PROVE  PeriodKnown'
  BY <1>1 DEF Lasts, Accepted, Ticks
<1>2. CASE Start
  <2>1. timer' = timer /\ asked' = asked /\ tcall'.pc = "idle"
    BY <1>2 DEF Start, platform_lptim_start, Control
  <2>2. lptim'.ARR = lptim.ARR /\ (lptim' = lptim \/ timer.initialized)
    BY <1>2 DEF Start, platform_lptim_start, Control
  <2> QED
    BY <1>1, <2>1, <2>2
<1>3. CASE Stop
  <2>1. asked' = asked /\ tcall'.pc = "idle"
    BY <1>3 DEF Stop, platform_lptim_stop, platform_lptim_deinit, Control
  <2>2. timer'.initialized => timer.initialized
    BY <1>3 DEF Stop, platform_lptim_stop, platform_lptim_deinit, Control
  <2>3. \/ lptim' = lptim
        \/ lptim' = HAL_LPTIM_Stopped(lptim)
        \/ lptim' = HAL_LPTIM_MspDeInit(HAL_LPTIM_Stopped(lptim))
    BY <1>3 DEF Stop, platform_lptim_stop, platform_lptim_deinit, Control
  <2>4. lptim'.ARR = lptim.ARR /\ (lptim'.counting => lptim.counting)
    BY <2>3 DEF HAL_LPTIM_Stopped, HAL_LPTIM_MspDeInit
  <2> QED
    BY <1>1, <2>1, <2>2, <2>4
<1>4. CASE Register
  BY <1>1, <1>4 DEF Register, platform_lptim_register_callbacks
<1>5. CASE Initialise
  BY <1>1, <1>5 DEF Initialise, platform_lptim_init
<1>6. CASE CallStep
  <2>1. CASE CopyCallback
    <3>1. lptim' = lptim /\ asked' = asked
      BY <1>6, <2>1 DEF CallStep, CopyCallback, Configure
    <3>2. timer'.initialized = timer.initialized
      BY <2>1 DEF CopyCallback, CallbackWords
    <3>3. tcall'.pc # "configure"
      BY <2>1 DEF CopyCallback
    <3> QED
      BY <1>1, <3>1, <3>2, <3>3
  <2>2. CASE Configure
    <3>1. tcall.arg \in asked /\ tcall.arg \in Nat /\ Accepted(tcall.arg)
      BY <2>2, PeriodsAssumption DEF Configure
    <3>2. Lasts(Ticks(tcall.arg) - 1, tcall.arg)
      BY <3>1, AcceptedLasts
    <3>3. tcall'.pc = "idle"
      BY <2>2 DEF Configure
    <3>4. lptim'.counting = lptim.counting
      BY <2>2, <3>1, AcceptedLasts, ConfigureOutcome
    <3>5. CASE lptim'.ARR = Ticks(tcall.arg) - 1
      <4>1. tcall.arg \in asked'
        BY <1>6, <3>1 DEF CallStep
      <4> QED
        BY <3>2, <3>3, <3>5, <4>1 DEF Lasts
    <3>6. CASE lptim'.ARR # Ticks(tcall.arg) - 1
      <4>1. lptim'.ARR = lptim.ARR /\ timer' = timer /\ tcall'.ret = "ERROR"
        BY <2>2, <3>1, <3>6, AcceptedLasts, ConfigureOutcome, TimerReturnTyped
      <4>2. asked' = asked
        BY <1>6, <4>1, <2>2 DEF CallStep, CopyCallback, Configure
      <4> QED
        BY <1>1, <3>3, <3>4, <4>1, <4>2
    <3> QED
      BY <3>5, <3>6
  <2> QED
    BY <1>6, <2>1, <2>2 DEF CallStep
<1>7. CASE Interrupt
  BY <1>1, <1>7 DEF Interrupt, LPTIM1_IRQHandler
<1>8. CASE Hardware
  BY <1>1, <1>8 DEF Hardware, PeriodPasses
<1> QED
  BY <1>2, <1>3, <1>4, <1>5, <1>6, <1>7, <1>8 DEF Next

\* The table: each word copied joins those that are right already.
LEMMA StepKeepsTable ==
  ASSUME IInv, Next
  PROVE  TableKnown'
<1> USE DEF IInv, TableKnown, TypeOK, LptimTypeOK, platform_lptim, TimerCall, TimerReturn
<1>1. CASE Start
  BY <1>1 DEF Start, platform_lptim_start, Control, TimerIdle
<1>2. CASE Stop
  BY <1>2 DEF Stop, platform_lptim_stop, platform_lptim_deinit, Control, TimerIdle
<1>3. CASE Register
  BY <1>3 DEF Register, platform_lptim_register_callbacks, CallbackWords
<1>4. CASE Initialise
  BY <1>4 DEF Initialise, platform_lptim_init, TimerIdle
<1>5. CASE CallStep
  <2>1. table' = table
    BY <1>5 DEF CallStep
  <2>2. CASE CopyCallback
    <3>1. tcall.pc = "copy" /\ tcall.arg = table
      BY <2>2 DEF CopyCallback
    <3>2. PICK word \in tcall.words :
            /\ timer' = [timer EXCEPT ![word] = tcall.arg]
            /\ tcall' = IF tcall.words = {word} THEN TimerReturn("OK")
                        ELSE [tcall EXCEPT !.words = @ \ {word}]
      BY <2>2 DEF CopyCallback
    <3>3. CASE word = "period_elapsed"
      <4>1. timer'.period_elapsed = table /\ timer'.user_context = timer.user_context
        BY <3>1, <3>2, <3>3
      <4>2. "user_context" \in tcall.words => tcall'.pc = "copy" /\ "user_context" \in tcall'.words
        BY <3>1, <3>2, <3>3
      <4>3. tcall'.pc = "copy" => tcall'.arg = table
        BY <3>1, <3>2
      <4> QED
        BY <2>1, <4>1, <4>2, <4>3
    <3>4. CASE word = "user_context"
      <4>1. timer'.user_context = table /\ timer'.period_elapsed = timer.period_elapsed
        BY <3>1, <3>2, <3>4
      <4>2. "period_elapsed" \in tcall.words => tcall'.pc = "copy" /\ "period_elapsed" \in tcall'.words
        BY <3>1, <3>2, <3>4
      <4>3. tcall'.pc = "copy" => tcall'.arg = table
        BY <3>1, <3>2
      <4> QED
        BY <2>1, <4>1, <4>2, <4>3
    <3> QED
      BY <3>3, <3>4 DEF CallbackWords
  <2>3. CASE Configure
    <3>1. tcall.pc = "configure" /\ tcall'.pc = "idle"
      BY <2>3 DEF Configure
    <3>2. timer'.period_elapsed = timer.period_elapsed /\ timer'.user_context = timer.user_context
      BY <2>3 DEF Configure
    <3> QED
      BY <2>1, <3>1, <3>2
  <2> QED
    BY <1>5, <2>2, <2>3 DEF CallStep
<1>6. CASE Interrupt
  BY <1>6 DEF Interrupt, LPTIM1_IRQHandler
<1>7. CASE Hardware
  BY <1>7 DEF Hardware, PeriodPasses
<1> QED
  BY <1>1, <1>2, <1>3, <1>4, <1>5, <1>6, <1>7 DEF Next

\* The callback: no interrupt comes while the table is being copied.
LEMMA StepKeepsCallbacks ==
  ASSUME IInv, Next
  PROVE  CallbackMatches'
<1>1. CASE Start \/ Stop \/ Register \/ Initialise \/ CallStep \/ Hardware
  BY <1>1 DEF Start, Stop, Register, Initialise, CallStep, Hardware, CallbackMatches,
              platform_lptim_start, platform_lptim_stop, Control, platform_lptim_deinit,
              platform_lptim_register_callbacks, platform_lptim_init, CopyCallback, Configure,
              PeriodPasses, TimerStep
<1>2. CASE Interrupt
  <2>1. tcall.pc = "idle"
    BY <1>2 DEF Interrupt, LPTIM1_IRQHandler, LptimPending, IInv, HandleWhole
  <2>2. timer.period_elapsed = table /\ timer.user_context = table
    BY <2>1 DEF IInv, TableKnown
  <2>3. [w \in CallbackWords |-> timer[w]] = [w \in CallbackWords |-> table]
    BY <2>2 DEF CallbackWords
  <2> QED
    BY <1>2, <2>3 DEF Interrupt, LPTIM1_IRQHandler, CallbackMatches
<1> QED
  BY <1>1, <1>2 DEF Next

\* So it holds always.
LEMMA Inductive == Spec => []IInv
<1>1. Init => IInv
  BY InitHolds
<1>2. IInv /\ [Next]_vars => IInv'
  <2> SUFFICES ASSUME IInv, [Next]_vars PROVE IInv'
    OBVIOUS
  <2>1. CASE Next
    BY <2>1, StepTyped, StepKeepsHandle, StepKeepsPeriod, StepKeepsTable, StepKeepsCallbacks
       DEF IInv
  <2>2. CASE UNCHANGED vars
    BY <2>2 DEF vars, IInv, TypeOK, LptimTypeOK, HandleWhole, PeriodKnown, TableKnown,
                CallbackMatches, Lasts, Accepted, Ticks
  <2> QED
    BY <2>1, <2>2
<1> QED
  BY <1>1, <1>2, PTL DEF Spec

-----------------------------------------------------------------------------
(* The theorems.                                                           *)

\* Type correctness: above all, what is written to the autoreload register is
\* in its range, for every clock and every period.
THEOREM TimerTypeCorrect == Spec => []TypeOK
<1>1. IInv => TypeOK
  BY DEF IInv
<1> QED
  BY <1>1, Inductive, PTL

\* A timer that counts has a period that was asked for, rounded up to the next
\* tick, after any sequence of calls that succeed or fail.
THEOREM TimerPeriodHonoured == Spec => []PeriodHonoured
<1>1. IInv => PeriodHonoured
  BY DEF IInv, PeriodKnown, PeriodHonoured
<1> QED
  BY <1>1, Inductive, PTL

\* The interrupt handler never meets the handle that platform_lptim_init has
\* cleared.
THEOREM TimerInterruptFindsHandle == Spec => []InterruptFindsHandle
<1>1. IInv => InterruptFindsHandle
  BY DEF IInv, HandleWhole, InterruptFindsHandle, LptimPending
<1> QED
  BY <1>1, Inductive, PTL

\* No callback of one table is called with the context of another.
THEOREM TimerCallbackMatches == Spec => []CallbackMatches
<1>1. IInv => CallbackMatches
  BY DEF IInv
<1> QED
  BY <1>1, Inductive, PTL
=============================================================================
