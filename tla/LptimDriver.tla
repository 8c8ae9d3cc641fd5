---------------------------- MODULE LptimDriver ----------------------------
(***************************************************************************)
(* platform_lptim_stm32u5.c, without a caller.  The task's calls take one  *)
(* step per HAL call and per word copied, and the timer's interrupt may    *)
(* come between two.                                                       *)
(***************************************************************************)
EXTENDS Integers

CONSTANTS
  LPTIM1_TICK_HZ,  \* LSI_VALUE / LPTIM1_PRESCALER_DIVISOR, 250 on the board
  MaxTicks         \* 0x10000: the autoreload register has 16 bits

ASSUME TickAssumption == LPTIM1_TICK_HZ \in Nat
ASSUME MaxTicksAssumption == MaxTicks \in Nat \ {0}

VARIABLES
  timer,   \* struct platform_lptim without the handle
  lptim,   \* LPTIM1, its handle and its line of the interrupt controller
  tcall,   \* the API call in progress and the status the last one returned
  elapsed  \* the callback the last step made: its function and its argument

lptimVars == <<timer, lptim, tcall, elapsed>>

\* Functions and contexts are numbered by the table that brought them.
NULL == 0

Autoreload == 0..(MaxTicks - 1)

platform_lptim ==
  [period_ms : Nat, period_elapsed : Nat, user_context : Nat, initialized : BOOLEAN]

\* instance: the handle names LPTIM1.  counting: the counter runs with its
\* interrupt enabled.  ARRM: a period has passed and was not served.
Lptim ==
  [instance : BOOLEAN, ARR : Autoreload, counting : BOOLEAN, ARRM : BOOLEAN, irq : BOOLEAN]

CallbackWords == {"period_elapsed", "user_context"}

TimerCall ==
  [pc : {"idle", "copy", "configure"}, words : SUBSET CallbackWords, arg : Nat,
   ret : {"OK", "ERROR", "INVALID_ARG"}]

Elapsed == [period_elapsed : Nat, user_context : Nat]

NotElapsed == [period_elapsed |-> NULL, user_context |-> NULL]

TimerReturn(status) == [pc |-> "idle", words |-> {}, arg |-> 0, ret |-> status]

LptimInit ==
  /\ timer = [period_ms |-> 0, period_elapsed |-> NULL, user_context |-> NULL,
              initialized |-> FALSE]
  /\ lptim = [instance |-> FALSE, ARR |-> 0, counting |-> FALSE, ARRM |-> FALSE, irq |-> FALSE]
  /\ tcall = TimerReturn("OK")
  /\ elapsed = NotElapsed

LptimTypeOK ==
  /\ timer \in platform_lptim
  /\ lptim \in Lptim
  /\ tcall \in TimerCall
  /\ elapsed \in Elapsed

-----------------------------------------------------------------------------
(* period_to_autoreload.                                                   *)

\* Mistake: the division rounds down.
TicksRoundedDown(period_ms) == (LPTIM1_TICK_HZ * period_ms) \div 1000

Ticks(period_ms) == (LPTIM1_TICK_HZ * period_ms + 999) \div 1000

\* Mistake: one tick more than the register holds is let through.
AcceptedAndOne(period_ms) ==
  period_ms # 0 /\ LPTIM1_TICK_HZ # 0 /\ Ticks(period_ms) \in 1..(MaxTicks + 1)

Accepted(period_ms) ==
  period_ms # 0 /\ LPTIM1_TICK_HZ # 0 /\ Ticks(period_ms) \in 1..MaxTicks

-----------------------------------------------------------------------------
(* API calls.                                                              *)

TimerStep == elapsed' = NotElapsed

TimerIdle == tcall.pc = "idle"

\* The table is copied word by word, in the order the compiler chooses; for
\* no table both words are cleared.
platform_lptim_register_callbacks(table) ==
  /\ TimerStep /\ TimerIdle
  /\ tcall' = [pc |-> "copy", words |-> CallbackWords, arg |-> table, ret |-> "OK"]
  /\ UNCHANGED <<timer, lptim>>

\* Mistake: only the function is copied.
CopyFunction ==
  /\ TimerStep /\ tcall.pc = "copy"
  /\ timer' = [timer EXCEPT !.period_elapsed = tcall.arg]
  /\ tcall' = TimerReturn("OK")
  /\ UNCHANGED lptim

CopyCallback ==
  /\ TimerStep /\ tcall.pc = "copy"
  /\ \E word \in tcall.words :
       /\ timer' = [timer EXCEPT ![word] = tcall.arg]
       /\ tcall' = IF tcall.words = {word} THEN TimerReturn("OK")
                   ELSE [tcall EXCEPT !.words = @ \ {word}]
  /\ UNCHANGED lptim

\* Up to the cleared handle ...
platform_lptim_init(period_ms) ==
  /\ TimerStep /\ TimerIdle /\ UNCHANGED timer
  /\ IF Accepted(period_ms)
       THEN /\ lptim' = [lptim EXCEPT !.instance = FALSE]
            /\ tcall' = [pc |-> "configure", words |-> {}, arg |-> period_ms, ret |-> "OK"]
       ELSE tcall' = TimerReturn("INVALID_ARG") /\ UNCHANGED lptim

\* HAL_LPTIM_Init: a cleared handle makes it call HAL_LPTIM_MspInit.
HAL_LPTIM_MspInit(h) == [h EXCEPT !.instance = TRUE, !.irq = TRUE]

\* Mistake: HAL_LPTIM_MspInit does not enable the interrupt.
ConfigureWithoutIrq ==
  /\ TimerStep /\ tcall.pc = "configure"
  /\ lptim' = [lptim EXCEPT !.instance = TRUE, !.ARR = Ticks(tcall.arg) - 1, !.ARRM = FALSE]
  /\ timer' = [timer EXCEPT !.period_ms = tcall.arg, !.initialized = TRUE]
  /\ tcall' = TimerReturn("OK")

\* ... and on from there; when the HAL gives up, the register may have been
\* written, and `initialized' stays what it was.
Configure ==
  /\ TimerStep /\ tcall.pc = "configure"
  /\ LET written == [HAL_LPTIM_MspInit(lptim) EXCEPT !.ARR = Ticks(tcall.arg) - 1]
     IN  \/ /\ lptim' = [written EXCEPT !.ARRM = FALSE]
            /\ timer' = [timer EXCEPT !.period_ms = tcall.arg, !.initialized = TRUE]
            /\ tcall' = TimerReturn("OK")
         \/ /\ lptim' \in {written, HAL_LPTIM_MspInit(lptim)}
            /\ tcall' = TimerReturn("ERROR") /\ UNCHANGED timer

HAL_LPTIM_Stopped(h) == [h EXCEPT !.counting = FALSE, !.ARRM = FALSE]

HAL_LPTIM_MspDeInit(h) == [h EXCEPT !.irq = FALSE]

\* Mistake: the hardware is left as it is.
DeinitFlagOnly ==
  /\ TimerStep /\ TimerIdle
  /\ timer' = [timer EXCEPT !.initialized = FALSE]
  /\ tcall' = TimerReturn("OK") /\ UNCHANGED lptim

platform_lptim_deinit ==
  /\ TimerStep /\ TimerIdle
  /\ timer' = [timer EXCEPT !.initialized = FALSE]
  /\ \/ /\ lptim' = HAL_LPTIM_MspDeInit(HAL_LPTIM_Stopped(lptim))
        /\ tcall' = TimerReturn("OK")
     \/ tcall' = TimerReturn("ERROR") /\ UNCHANGED lptim

\* Start and stop: one HAL call, which may fail and change nothing.
Control(after) ==
  /\ TimerStep /\ TimerIdle /\ UNCHANGED timer
  /\ \/ timer.initialized /\ lptim' = after /\ tcall' = TimerReturn("OK")
     \/ /\ tcall' = TimerReturn(IF timer.initialized THEN "ERROR" ELSE "INVALID_ARG")
        /\ UNCHANGED lptim

platform_lptim_start == Control([lptim EXCEPT !.counting = TRUE])
platform_lptim_stop == Control(HAL_LPTIM_Stopped(lptim))

-----------------------------------------------------------------------------
(* The interrupt, and the hardware.                                        *)

LptimPending == lptim.ARRM /\ lptim.counting /\ lptim.irq

\* On a handle that does not name LPTIM1 the handler would use a null pointer.
LPTIM1_IRQHandler ==
  /\ LptimPending /\ lptim.instance
  /\ lptim' = [lptim EXCEPT !.ARRM = FALSE]
  /\ elapsed' = IF timer.period_elapsed # NULL
                  THEN [w \in CallbackWords |-> timer[w]] ELSE NotElapsed
  /\ UNCHANGED <<timer, tcall>>

PeriodPasses ==
  /\ lptim.counting
  /\ lptim' = [lptim EXCEPT !.ARRM = TRUE]
  /\ TimerStep /\ UNCHANGED <<timer, tcall>>
=============================================================================
