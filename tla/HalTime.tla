------------------------------ MODULE HalTime ------------------------------
(***************************************************************************)
(* hal_freertos_time.c: the clock the HAL waits by, before and after the   *)
(* kernel's scheduler starts, in the program's one thread and in interrupts*)
(* that take it away.  A HAL function that waits with a timeout takes the  *)
(* time when it begins and compares it until something happens or the time *)
(* is over.                                                                *)
(***************************************************************************)
EXTENDS Integers

CONSTANTS
  TickRange,  \* how many values a tick count has (2^32)
  Limits      \* the timeouts and delays asked for, in milliseconds

ASSUME TickRangeAssumption == TickRange \in Nat \ {0, 1}

HAL_MAX_DELAY == TickRange - 1

ASSUME LimitsAssumption == Limits \subseteq 0..HAL_MAX_DELAY

VARIABLES
  scheduler_started,  \* the flag of hal_freertos_time.c
  scheduler,          \* whether the kernel's scheduler runs
  xTickCount,
  context,            \* whose code runs
  waits               \* what each of the two waits for

vars == <<scheduler_started, scheduler, xTickCount, context, waits>>

Context == {"thread", "interrupt"}

\* busy: until `limit' ticks are over, counted from `start'; forever: a busy
\* wait without end; blocked: in vTaskDelay.  `asked' is what the caller
\* wanted, `ticks' how many tick interrupts have come since the wait began.
Wait ==
  [kind : {"none", "busy", "forever", "blocked"}, start : 0..HAL_MAX_DELAY,
   limit : 0..HAL_MAX_DELAY, asked : 0..HAL_MAX_DELAY, ticks : 0..TickRange]

NoWait == [kind |-> "none", start |-> 0, limit |-> 0, asked |-> 0, ticks |-> 0]

Init ==
  /\ scheduler_started = FALSE
  /\ scheduler = "not_started"
  /\ xTickCount = 0
  /\ context = "thread"
  /\ waits = [c \in Context |-> NoWait]

Free(c) == context = c /\ waits[c] = NoWait

-----------------------------------------------------------------------------
(* The clock.                                                              *)

\* The kernel has the tick interrupt: nothing in the program calls HAL_IncTick.
uwTick == 0

\* Mistakes: the kernel is not asked whether it runs; a narrower clock.
HAL_GetTickByFlag == IF scheduler_started THEN xTickCount ELSE uwTick
HAL_GetTickNarrow == IF scheduler_started THEN xTickCount % (TickRange \div 2) ELSE uwTick

\* portTICK_PERIOD_MS is 1.
HAL_GetTick ==
  IF ~scheduler_started THEN uwTick
  ELSE IF context = "interrupt" THEN xTickCount
  ELSE IF scheduler = "not_started" THEN uwTick
  ELSE xTickCount

\* Unsigned subtraction.
Since(start) == (HAL_GetTick - start) % TickRange

Begin(kind, limit, asked) ==
  waits' = [waits EXCEPT ![context] =
    [kind |-> kind, start |-> HAL_GetTick, limit |-> limit, asked |-> asked, ticks |-> 0]]

-----------------------------------------------------------------------------
(* main, and the code that waits.                                          *)

hal_freertos_timebase_scheduler_started ==
  /\ Free("thread") /\ ~scheduler_started
  /\ scheduler_started' = TRUE
  /\ UNCHANGED <<scheduler, xTickCount, context, waits>>

vTaskStartScheduler ==
  /\ Free("thread") /\ scheduler_started /\ scheduler = "not_started"
  /\ scheduler' = "running" /\ xTickCount' = 0
  /\ UNCHANGED <<scheduler_started, context, waits>>

\* Mistakes: the kernel is called from an interrupt, too; a tick is added
\* whatever the wait.
HAL_DelayAnywhere(delay_ms) ==
  /\ Free(context)
  /\ IF scheduler_started /\ scheduler = "running"
       THEN delay_ms > 0 /\ Begin("blocked", 0, delay_ms)
       ELSE Begin("busy", IF delay_ms < HAL_MAX_DELAY THEN delay_ms + 1 ELSE delay_ms, delay_ms)
  /\ UNCHANGED <<scheduler_started, scheduler, xTickCount, context>>

HAL_DelayAddsOne(delay_ms) ==
  /\ Free(context)
  /\ IF scheduler_started /\ scheduler = "running"
       THEN context = "thread" /\ delay_ms > 0 /\ Begin("blocked", 0, delay_ms)
       ELSE Begin("busy", (delay_ms + 1) % TickRange, delay_ms)
  /\ UNCHANGED <<scheduler_started, scheduler, xTickCount, context>>

\* In an interrupt, or for no time at all, it returns at once.  A busy wait is
\* one tick longer than asked for.
HAL_Delay(delay_ms) ==
  /\ Free(context)
  /\ IF scheduler_started /\ scheduler = "running"
       THEN context = "thread" /\ delay_ms > 0 /\ Begin("blocked", 0, delay_ms)
       ELSE Begin("busy", IF delay_ms < HAL_MAX_DELAY THEN delay_ms + 1 ELSE delay_ms, delay_ms)
  /\ UNCHANGED <<scheduler_started, scheduler, xTickCount, context>>

\* A HAL function that waits for an event, at most timeout_ms; such functions
\* are called once the scheduler runs.
HalWait(timeout_ms) ==
  /\ Free(context) /\ scheduler = "running"
  /\ IF timeout_ms = HAL_MAX_DELAY THEN Begin("forever", 0, timeout_ms)
     ELSE Begin("busy", IF timeout_ms = 0 THEN 0 ELSE timeout_ms + 1, timeout_ms)
  /\ UNCHANGED <<scheduler_started, scheduler, xTickCount, context>>

TimeIsOver(c) ==
  context = c /\ waits[c].kind = "busy" /\ Since(waits[c].start) >= waits[c].limit

End(c) ==
  /\ waits' = [waits EXCEPT ![c] = NoWait]
  /\ UNCHANGED <<scheduler_started, scheduler, xTickCount, context>>

TimeOut == TimeIsOver(context) /\ End(context)

\* What it waits for happens; no event ends a delay.
Event ==
  /\ scheduler = "running" /\ waits[context].kind \in {"busy", "forever"}
  /\ End(context)

\* The program enables its interrupts in a task, and the kernel keeps them masked
\* until the first task runs.
InterruptEntry ==
  /\ scheduler = "running" /\ context = "thread" /\ context' = "interrupt"
  /\ UNCHANGED <<scheduler_started, scheduler, xTickCount, waits>>

InterruptReturn ==
  /\ Free("interrupt") /\ context' = "thread"
  /\ UNCHANGED <<scheduler_started, scheduler, xTickCount, waits>>

\* The tick interrupt has the lowest priority, and a busy wait looks at the
\* clock between two ticks.  xTaskIncrementTick ends a delay that is over.
SysTick ==
  /\ context = "thread" /\ ~TimeIsOver("thread")
  /\ xTickCount' = (xTickCount + 1) % TickRange
  /\ LET w == waits["thread"]
     IN  waits' = [waits EXCEPT !["thread"] =
           IF w.kind = "none" \/ (w.kind = "blocked" /\ w.ticks + 1 = w.asked) THEN NoWait
           ELSE [w EXCEPT !.ticks = IF @ < TickRange THEN @ + 1 ELSE @]]
  /\ UNCHANGED <<scheduler_started, scheduler, context>>

Call == \E n \in Limits : HAL_Delay(n) \/ HalWait(n)

Next ==
  \/ hal_freertos_timebase_scheduler_started \/ vTaskStartScheduler
  \/ Call \/ TimeOut \/ Event \/ InterruptEntry \/ InterruptReturn \/ SysTick

\* Ticks come, a busy wait notices that its time is over, and an interrupt
\* comes to its end: it waits finitely often, and what it waits for happens,
\* for no tick can interrupt it.
Fairness ==
  /\ SF_vars(SysTick) /\ SF_vars(TimeOut /\ context = "thread")
  /\ WF_vars(Event /\ context = "interrupt") /\ SF_vars(InterruptReturn)

Spec == Init /\ [][Next]_vars /\ Fairness

-----------------------------------------------------------------------------
(* Properties.                                                             *)

\* Every variable has its type; an interrupt waits, but is never suspended.
TypeOK ==
  /\ scheduler_started \in BOOLEAN
  /\ scheduler \in {"not_started", "running"}
  /\ xTickCount \in 0..HAL_MAX_DELAY
  /\ context \in Context
  /\ waits \in [Context -> Wait] /\ waits["interrupt"].kind # "blocked"

\* A busy wait with a time is over only when the whole of it has passed: the
\* count at the start, which may come anywhere in a tick, is not one of its
\* ticks, and neither a count that wraps nor a clock that changes its source
\* nor the longest wait makes it shorter.
NoWaitEndsEarly ==
  TimeIsOver("thread") => (waits["thread"].ticks > waits["thread"].asked \/ waits["thread"].asked = 0)

\* Once the scheduler runs, a busy wait in the thread is over no more than one
\* tick later than asked for, wherever the count wraps.
WaitEndsInTime ==
  (scheduler = "running" /\ context = "thread" /\ waits["thread"].kind = "busy"
     /\ waits["thread"].ticks > waits["thread"].asked) => TimeIsOver("thread")

\* The clock stands or goes on by one tick, whoever reads it: when its source
\* changes, as the scheduler starts and throws the kernel's early ticks away, and
\* when an interrupt of the running system reads it by another path than the thread.
TimeNeverJumps == [][HAL_GetTick' \in {HAL_GetTick, (HAL_GetTick + 1) % TickRange}]_vars

\* Once the scheduler runs, a wait of the thread that has a time ends.
TaskWaitEnds ==
  (scheduler = "running" /\ waits["thread"].kind \in {"busy", "blocked"})
    ~> waits["thread"] = NoWait
=============================================================================
