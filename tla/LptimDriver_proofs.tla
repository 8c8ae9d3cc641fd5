------------------------ MODULE LptimDriver_proofs --------------------------
(***************************************************************************)
(* Lemmas about the operators and the actions of the timer driver, whoever *)
(* calls it: what the proofs about LptimClient and FreeRtosEcho share.     *)
(***************************************************************************)
EXTENDS LptimDriver, TLAPS

-----------------------------------------------------------------------------
(* The arithmetic of period_to_autoreload.                                 *)

\* Rounding up: the ticks of a period last as long as the period, and one tick
\* fewer would not.
LEMMA TicksRoundUp ==
  ASSUME NEW p \in Nat
  PROVE  /\ Ticks(p) \in Nat
         /\ Ticks(p) * 1000 >= LPTIM1_TICK_HZ * p
         /\ (Ticks(p) - 1) * 1000 < LPTIM1_TICK_HZ * p
<1> DEFINE n == LPTIM1_TICK_HZ * p
<1>1. n \in Nat
  BY TickAssumption
<1>2. Ticks(p) = (n + 999) \div 1000
  BY DEF Ticks
<1> HIDE DEF n
<1>3. /\ ((n + 999) \div 1000) \in Nat
      /\ ((n + 999) \div 1000) * 1000 >= n
      /\ (((n + 999) \div 1000) - 1) * 1000 < n
  BY <1>1, SMT
<1> QED
  BY <1>2, <1>3 DEF n

\* What is accepted fits the register.
LEMMA AcceptedFits ==
  ASSUME NEW p \in Nat, Accepted(p)
  PROVE  Ticks(p) - 1 \in Autoreload
<1>1. Ticks(p) \in 1..MaxTicks
  BY DEF Accepted
<1> QED BY <1>1, MaxTicksAssumption DEF Autoreload

-----------------------------------------------------------------------------
(* The HAL operators.                                                      *)

\* What a returned call is.
LEMMA TimerReturnTyped ==
  ASSUME NEW status \in {"OK", "ERROR", "INVALID_ARG"}
  PROVE  /\ TimerReturn(status) \in TimerCall
         /\ TimerReturn(status).pc = "idle"
         /\ TimerReturn(status).ret = status
BY DEF TimerReturn, TimerCall

\* A step that calls back nothing leaves `elapsed' in its type.
LEMMA NotElapsedTyped == NotElapsed \in Elapsed
BY DEF NotElapsed, Elapsed, NULL

\* HAL functions change the fields they name.
LEMMA TimerHalTyped ==
  ASSUME NEW h \in Lptim
  PROVE  /\ [h EXCEPT !.counting = TRUE] \in Lptim
         /\ HAL_LPTIM_Stopped(h) \in Lptim
         /\ HAL_LPTIM_MspDeInit(h) \in Lptim
         /\ HAL_LPTIM_MspInit(h) \in Lptim
<1>1. [h EXCEPT !.counting = TRUE] \in Lptim
  BY DEF Lptim
<1>2. HAL_LPTIM_Stopped(h) \in Lptim
  BY DEF Lptim, HAL_LPTIM_Stopped
<1>3. HAL_LPTIM_MspDeInit(h) \in Lptim
  BY DEF Lptim, HAL_LPTIM_MspDeInit
<1>4. HAL_LPTIM_MspInit(h) \in Lptim
  BY DEF Lptim, HAL_LPTIM_MspInit
<1> QED
  BY <1>1, <1>2, <1>3, <1>4

\* HAL_LPTIM_Init succeeds, gives up after the register or gives up before it.
LEMMA ConfigureOutcome ==
  ASSUME Configure, lptim \in Lptim, Ticks(tcall.arg) - 1 \in Autoreload
  PROVE  /\ lptim' \in Lptim
         /\ lptim'.instance /\ lptim'.counting = lptim.counting
         /\ \/ lptim'.ARR = Ticks(tcall.arg) - 1
            \/ lptim'.ARR = lptim.ARR /\ timer' = timer /\ tcall' = TimerReturn("ERROR")
<1> DEFINE arr == Ticks(tcall.arg) - 1
           begun == HAL_LPTIM_MspInit(lptim)
           written == [begun EXCEPT !.ARR = arr]
           done == [written EXCEPT !.ARRM = FALSE]
<1>1. begun \in Lptim /\ begun.instance /\ begun.counting = lptim.counting /\ begun.ARR = lptim.ARR
  BY DEF HAL_LPTIM_MspInit, Lptim
<1>2. \/ lptim' = done
      \/ lptim' = written
      \/ lptim' = begun /\ timer' = timer /\ tcall' = TimerReturn("ERROR")
  BY DEF Configure
<1> HIDE DEF begun
<1>3. written \in Lptim /\ written.instance /\ written.counting = lptim.counting /\ written.ARR = arr
  <2> HIDE DEF arr
  <2>1. arr \in Autoreload
    BY DEF arr
  <2> QED
    BY <1>1, <2>1 DEF Lptim
<1> HIDE DEF written
<1>4. done \in Lptim /\ done.instance /\ done.counting = lptim.counting /\ done.ARR = arr
  BY <1>3 DEF Lptim
<1> HIDE DEF done
<1> QED
  BY <1>1, <1>2, <1>3, <1>4

-----------------------------------------------------------------------------
(* Typing of the driver's actions.                                         *)

\* The state in which the driver begins.
LEMMA TimerInitTyped == LptimInit => LptimTypeOK
<1>1. TimerReturn("OK") \in TimerCall
  BY TimerReturnTyped
<1> QED
  BY <1>1, NotElapsedTyped, MaxTicksAssumption
     DEF LptimInit, LptimTypeOK, platform_lptim, Lptim, Autoreload, NULL

\* What begins an API call, whatever is asked of it.
LEMMA TimerApiTyped ==
  ASSUME LptimTypeOK, NEW t \in Nat,
         \/ platform_lptim_register_callbacks(t) \/ platform_lptim_init(t)
         \/ platform_lptim_deinit \/ platform_lptim_start \/ platform_lptim_stop
  PROVE  LptimTypeOK'
<1> USE DEF LptimTypeOK
<1>1. CASE platform_lptim_start \/ platform_lptim_stop
  BY <1>1, TimerHalTyped, TimerReturnTyped, NotElapsedTyped
     DEF platform_lptim_start, platform_lptim_stop, Control, TimerStep
<1>2. CASE platform_lptim_deinit
  <2>1. lptim' \in Lptim /\ tcall' \in TimerCall /\ elapsed' \in Elapsed
    BY <1>2, TimerHalTyped, TimerReturnTyped, NotElapsedTyped DEF platform_lptim_deinit, TimerStep
  <2>2. timer' \in platform_lptim
    BY <1>2 DEF platform_lptim_deinit, platform_lptim
  <2> QED BY <2>1, <2>2
<1>3. CASE platform_lptim_register_callbacks(t)
  BY <1>3, NotElapsedTyped DEF platform_lptim_register_callbacks, TimerStep, TimerCall
<1>4. CASE platform_lptim_init(t)
  <2>1. [pc |-> "configure", words |-> {}, arg |-> t, ret |-> "OK"] \in TimerCall
    BY DEF TimerCall
  <2>2. tcall' \in TimerCall /\ elapsed' \in Elapsed /\ timer' = timer
    BY <1>4, <2>1, TimerReturnTyped, NotElapsedTyped DEF platform_lptim_init, TimerStep
  <2>3. lptim' \in Lptim
    BY <1>4 DEF platform_lptim_init, Lptim
  <2> QED BY <2>2, <2>3
<1> QED BY <1>1, <1>2, <1>3, <1>4

\* A word of the table is copied.
LEMMA CopyTyped ==
  ASSUME LptimTypeOK, CopyCallback
  PROVE  LptimTypeOK'
<1> USE DEF LptimTypeOK
<1>1. PICK word \in tcall.words :
        /\ timer' = [timer EXCEPT ![word] = tcall.arg]
        /\ tcall' = IF tcall.words = {word} THEN TimerReturn("OK")
                    ELSE [tcall EXCEPT !.words = @ \ {word}]
  BY DEF CopyCallback
<1>2. word = "period_elapsed" \/ word = "user_context"
  BY DEF TimerCall, CallbackWords
<1>3. timer' \in platform_lptim
  BY <1>1, <1>2 DEF TimerCall, platform_lptim
<1>4. [tcall EXCEPT !.words = @ \ {word}] \in TimerCall
  BY DEF TimerCall
<1>5. tcall' \in TimerCall
  BY <1>1, <1>4, TimerReturnTyped
<1> QED BY <1>3, <1>5, NotElapsedTyped DEF CopyCallback, TimerStep

\* A period that has been accepted is configured.
LEMMA ConfigureTyped ==
  ASSUME LptimTypeOK, Configure, Accepted(tcall.arg)
  PROVE  LptimTypeOK'
<1> USE DEF LptimTypeOK
<1>1. tcall.arg \in Nat
  BY DEF TimerCall
<1>2. Ticks(tcall.arg) - 1 \in Autoreload
  BY <1>1, AcceptedFits
<1>3. lptim' \in Lptim
  BY <1>2, ConfigureOutcome
<1>4. timer' \in platform_lptim
  BY <1>1 DEF Configure, platform_lptim
<1> QED BY <1>3, <1>4, TimerReturnTyped, NotElapsedTyped DEF Configure, TimerStep

\* The interrupt, and a period that passes.
LEMMA TimerHardwareTyped ==
  ASSUME LptimTypeOK, LPTIM1_IRQHandler \/ PeriodPasses
  PROVE  LptimTypeOK'
<1> USE DEF LptimTypeOK
<1>1. timer.period_elapsed \in Nat /\ timer.user_context \in Nat
  BY DEF platform_lptim
<1>2. [w \in CallbackWords |-> timer[w]] \in Elapsed
  BY <1>1 DEF CallbackWords, Elapsed
<1>3. elapsed' \in Elapsed
  BY <1>2, NotElapsedTyped DEF LPTIM1_IRQHandler, PeriodPasses, TimerStep
<1>4. lptim' \in Lptim
  BY DEF LPTIM1_IRQHandler, PeriodPasses, Lptim
<1> QED BY <1>3, <1>4 DEF LPTIM1_IRQHandler, PeriodPasses
=============================================================================
