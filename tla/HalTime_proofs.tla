--------------------------- MODULE HalTime_proofs ---------------------------
(***************************************************************************)
(* The clock of the HAL, for every width of the tick count and every       *)
(* timeout: a busy wait is never shorter than asked for and, once the      *)
(* scheduler runs, at most one tick longer, wherever the count wraps.      *)
(***************************************************************************)
EXTENDS HalTime, TLAPS

-----------------------------------------------------------------------------
(* The inductive invariant.                                                *)

\* The scheduler is announced before it starts; interrupts come after it.
Order ==
  /\ scheduler = "running" => scheduler_started
  /\ scheduler = "not_started" => context = "thread"

\* How the thread's busy wait is reckoned: the ticks that have come since it
\* began are what the clock shows, and they stop when it is over.  Before the
\* scheduler runs the clock stands still, so that no wait is over.
Reckoned ==
  LET w == waits["thread"]
  IN  w.kind = "busy" =>
        IF scheduler = "running"
          THEN /\ w.limit = IF w.asked = 0 THEN 0 ELSE w.asked + 1
               /\ w.ticks <= w.limit
               /\ (xTickCount - w.start) % TickRange = w.ticks
          ELSE w.start = 0 /\ w.limit > 0

IInv == TypeOK /\ Order /\ Reckoned

-----------------------------------------------------------------------------
(* Lemmas.                                                                 *)

\* Counting modulo TickRange.
LEMMA Modulo ==
  /\ \A a \in Int : a % TickRange \in 0..HAL_MAX_DELAY
  /\ \A a \in 0..HAL_MAX_DELAY : a % TickRange = a
  /\ TickRange % TickRange = 0
BY TickRangeAssumption DEF HAL_MAX_DELAY

\* One tick more than d since the start, unless the whole range is over.
LEMMA ModuloNext ==
  ASSUME NEW x \in 0..HAL_MAX_DELAY, NEW s \in 0..HAL_MAX_DELAY,
         ((x - s) % TickRange) + 1 \in 0..HAL_MAX_DELAY
  PROVE  (((x + 1) % TickRange) - s) % TickRange = ((x - s) % TickRange) + 1
BY TickRangeAssumption DEF HAL_MAX_DELAY

\* The clock shows a count.
LEMMA ClockTyped ==
  ASSUME TypeOK
  PROVE  HAL_GetTick \in 0..HAL_MAX_DELAY
BY TickRangeAssumption DEF HAL_GetTick, uwTick, TypeOK, HAL_MAX_DELAY

\* Once the scheduler runs the clock is the kernel's count, before that it
\* stands still, for everyone.
LEMMA ClockIs ==
  ASSUME TypeOK, Order
  PROVE  HAL_GetTick = IF scheduler = "running" THEN xTickCount ELSE 0
BY DEF HAL_GetTick, uwTick, TypeOK, Order

\* A wait that begins.
LEMMA BeginTyped ==
  ASSUME TypeOK, NEW kind \in {"busy", "forever", "blocked"},
         NEW limit \in 0..HAL_MAX_DELAY, NEW asked \in 0..HAL_MAX_DELAY,
         Begin(kind, limit, asked)
  PROVE  /\ waits' \in [Context -> Wait]
         /\ waits'[context] = [kind |-> kind, start |-> HAL_GetTick, limit |-> limit,
                               asked |-> asked, ticks |-> 0]
         /\ \A c \in Context \ {context} : waits'[c] = waits[c]
<1> DEFINE w == [kind |-> kind, start |-> HAL_GetTick, limit |-> limit,
                 asked |-> asked, ticks |-> 0]
<1>1. w \in Wait
  BY ClockTyped, TickRangeAssumption DEF Wait
<1>2. waits' = [waits EXCEPT ![context] = w] /\ waits \in [Context -> Wait] /\ context \in Context
  BY DEF Begin, TypeOK
<1> QED BY <1>1, <1>2

\* No wait is a wait, too.
LEMMA NoWaitTyped == NoWait \in Wait /\ NoWait.kind = "none"
BY TickRangeAssumption DEF NoWait, Wait, HAL_MAX_DELAY

-----------------------------------------------------------------------------
(* The steps.                                                              *)

\* A delay: of the thread or, before the scheduler runs, busy.
LEMMA DelayKeeps ==
  ASSUME IInv, NEW n \in Limits, HAL_Delay(n)
  PROVE  IInv'
<1>0. TypeOK /\ Order /\ n \in 0..HAL_MAX_DELAY
  BY LimitsAssumption DEF IInv
<1>1. UNCHANGED <<scheduler_started, scheduler, xTickCount, context>>
  BY DEF HAL_Delay
<1>2. CASE scheduler = "running"
  <2>1. context = "thread" /\ Begin("blocked", 0, n)
    BY <1>0, <1>2 DEF HAL_Delay, Order
  <2>2. 0 \in 0..HAL_MAX_DELAY
    BY TickRangeAssumption DEF HAL_MAX_DELAY
  <2>3. /\ waits' \in [Context -> Wait] /\ waits'["thread"].kind = "blocked"
        /\ waits'["interrupt"] = waits["interrupt"]
    <3>1. /\ waits' \in [Context -> Wait]
          /\ waits'[context] = [kind |-> "blocked", start |-> HAL_GetTick, limit |-> 0,
                                asked |-> n, ticks |-> 0]
          /\ \A c \in Context \ {context} : waits'[c] = waits[c]
      BY <1>0, <2>1, <2>2, BeginTyped
    <3> QED BY <2>1, <3>1 DEF Context
  <2> QED BY <1>0, <1>1, <2>3 DEF IInv, TypeOK, Order, Reckoned
<1>3. CASE scheduler # "running"
  <2>1. context = "thread" /\ scheduler = "not_started"
    BY <1>0, <1>3 DEF TypeOK, Order
  <2> DEFINE limit == IF n < HAL_MAX_DELAY THEN n + 1 ELSE n
  <2>2. Begin("busy", limit, n)
    BY <1>3 DEF HAL_Delay
  <2>3. limit \in 0..HAL_MAX_DELAY /\ limit > 0
    BY <1>0, TickRangeAssumption DEF HAL_MAX_DELAY
  <2> HIDE DEF limit
  <2>4. /\ waits' \in [Context -> Wait]
        /\ waits'["thread"].start = HAL_GetTick /\ waits'["thread"].limit = limit
        /\ waits'["interrupt"] = waits["interrupt"]
    <3>1. /\ waits' \in [Context -> Wait]
          /\ waits'[context] = [kind |-> "busy", start |-> HAL_GetTick, limit |-> limit,
                                asked |-> n, ticks |-> 0]
          /\ \A c \in Context \ {context} : waits'[c] = waits[c]
      BY <1>0, <2>2, <2>3, BeginTyped
    <3> QED BY <2>1, <3>1 DEF Context
  <2>5. HAL_GetTick = 0
    BY <1>0, <1>3, ClockIs
  <2> QED
    BY <1>0, <1>1, <1>3, <2>3, <2>4, <2>5 DEF IInv, TypeOK, Order, Reckoned
<1> QED BY <1>2, <1>3

\* A HAL function that waits.
LEMMA HalWaitKeeps ==
  ASSUME IInv, NEW n \in Limits, HalWait(n)
  PROVE  IInv'
<1>0. /\ TypeOK /\ Order /\ Reckoned /\ n \in 0..HAL_MAX_DELAY
      /\ 0 \in 0..HAL_MAX_DELAY
  BY LimitsAssumption, TickRangeAssumption DEF IInv, HAL_MAX_DELAY
<1>1. /\ UNCHANGED <<scheduler_started, scheduler, xTickCount, context>>
      /\ scheduler = "running" /\ context \in Context
  BY <1>0 DEF HalWait, TypeOK
<1>2. ASSUME NEW kind \in {"busy", "forever"}, NEW limit \in 0..HAL_MAX_DELAY,
             kind = "busy" => limit = IF n = 0 THEN 0 ELSE n + 1,
             Begin(kind, limit, n)
      PROVE  IInv'
  <2>1. /\ waits' \in [Context -> Wait]
        /\ waits'[context] = [kind |-> kind, start |-> HAL_GetTick, limit |-> limit,
                              asked |-> n, ticks |-> 0]
        /\ \A c \in Context \ {context} : waits'[c] = waits[c]
    BY <1>0, <1>2, BeginTyped
  <2>2. waits'["interrupt"].kind # "blocked"
    BY <1>0, <1>2, <2>1 DEF TypeOK, Context
  <2>3. HAL_GetTick = xTickCount /\ xTickCount \in 0..HAL_MAX_DELAY
    BY <1>0, <1>1, ClockIs DEF TypeOK
  <2>4. (xTickCount - xTickCount) % TickRange = 0
    BY <1>0, <2>3, Modulo
  <2>5. Reckoned'
    <3>1. CASE context = "thread"
      BY <1>0, <1>1, <1>2, <2>1, <2>3, <2>4, <3>1 DEF Reckoned
    <3>2. CASE context # "thread"
      BY <1>0, <1>1, <2>1, <3>2 DEF Reckoned, Context
    <3> QED BY <3>1, <3>2
  <2> QED BY <1>0, <1>1, <2>1, <2>2, <2>5 DEF IInv, TypeOK, Order
<1>3. CASE n = HAL_MAX_DELAY
  BY <1>0, <1>2, <1>3 DEF HalWait
<1>4. CASE n # HAL_MAX_DELAY
  <2>1. (IF n = 0 THEN 0 ELSE n + 1) \in 0..HAL_MAX_DELAY
    BY <1>0, <1>4, TickRangeAssumption DEF HAL_MAX_DELAY
  <2> QED BY <1>2, <1>4, <2>1 DEF HalWait
<1> QED BY <1>3, <1>4

\* A wait that ends, because its time is over or for another reason.
LEMMA EndKeeps ==
  ASSUME IInv, TimeOut \/ Event
  PROVE  IInv'
<1>0. TypeOK /\ Order /\ Reckoned
  BY DEF IInv
<1>1. /\ UNCHANGED <<scheduler_started, scheduler, xTickCount, context>>
      /\ waits' = [waits EXCEPT ![context] = NoWait]
      /\ context \in Context /\ waits \in [Context -> Wait]
  BY <1>0 DEF TimeOut, Event, End, TypeOK
<1>2. /\ waits' \in [Context -> Wait]
      /\ \A c \in Context : waits'[c] = waits[c] \/ waits'[c].kind = "none"
  BY <1>1, NoWaitTyped
<1> QED
  BY <1>0, <1>1, <1>2 DEF IInv, TypeOK, Order, Reckoned, Context

\* The clock ticks.
LEMMA SysTickKeeps ==
  ASSUME IInv, SysTick
  PROVE  IInv'
<1>0. TypeOK /\ Order /\ Reckoned
  BY DEF IInv
<1> DEFINE w == waits["thread"]
           v == waits'["thread"]
           longer == [w EXCEPT !.ticks = IF @ < TickRange THEN @ + 1 ELSE @]
<1>1. /\ UNCHANGED <<scheduler_started, scheduler, context>> /\ context = "thread"
      /\ xTickCount' = (xTickCount + 1) % TickRange /\ ~TimeIsOver("thread")
      /\ xTickCount \in 0..HAL_MAX_DELAY
      /\ waits \in [Context -> Wait] /\ w \in Wait
  BY <1>0 DEF SysTick, TypeOK, Context
<1>2. xTickCount' \in 0..HAL_MAX_DELAY
  BY <1>1, Modulo
<1>3. longer \in Wait
  BY <1>1, TickRangeAssumption DEF Wait
<1>4. waits' = [waits EXCEPT !["thread"] = NoWait] \/ waits' = [waits EXCEPT !["thread"] = longer]
  BY DEF SysTick
<1>5. /\ waits' \in [Context -> Wait] /\ waits'["interrupt"] = waits["interrupt"]
      /\ v = NoWait \/ v = longer
  BY <1>1, <1>3, <1>4, NoWaitTyped DEF Context
<1>6. Reckoned'
  <2>1. SUFFICES ASSUME v.kind = "busy"
                 PROVE  IF scheduler = "running"
                          THEN /\ v.limit = IF v.asked = 0 THEN 0 ELSE v.asked + 1
                               /\ v.ticks <= v.limit
                               /\ (xTickCount' - v.start) % TickRange = v.ticks
                          ELSE v.start = 0 /\ v.limit > 0
    BY <1>1 DEF Reckoned
  <2>2. v = longer
    BY <1>5, <2>1, NoWaitTyped
  <2>3. /\ w.kind = "busy" /\ w.start \in 0..HAL_MAX_DELAY /\ w.limit \in 0..HAL_MAX_DELAY
        /\ w.ticks \in 0..TickRange /\ w.asked \in 0..HAL_MAX_DELAY
        /\ v.start = w.start /\ v.limit = w.limit /\ v.asked = w.asked
        /\ v.ticks = IF w.ticks < TickRange THEN w.ticks + 1 ELSE w.ticks
    BY <1>1, <2>1, <2>2 DEF Wait
  <2> HIDE DEF v, w
  <2>4. CASE scheduler = "running"
    <3>1. /\ w.limit = IF w.asked = 0 THEN 0 ELSE w.asked + 1
          /\ w.ticks <= w.limit /\ (xTickCount - w.start) % TickRange = w.ticks
      BY <1>0, <2>3, <2>4 DEF Reckoned, w
    <3>2. w.ticks < w.limit
      <4>1. HAL_GetTick = xTickCount
        BY <1>0, <2>4, ClockIs
      <4>2. ~(w.ticks >= w.limit)
        BY <1>1, <2>3, <3>1, <4>1 DEF TimeIsOver, Since, w
      <4> QED BY <2>3, <4>2, TickRangeAssumption DEF HAL_MAX_DELAY
    <3>3. v.ticks = w.ticks + 1 /\ w.ticks + 1 \in 0..HAL_MAX_DELAY
      BY <2>3, <3>2, TickRangeAssumption DEF HAL_MAX_DELAY
    <3>4. (xTickCount' - w.start) % TickRange = w.ticks + 1
      BY <1>1, <2>3, <3>1, <3>3, ModuloNext
    <3>5. w.ticks + 1 <= w.limit
      BY <2>3, <3>2, TickRangeAssumption DEF HAL_MAX_DELAY
    <3> QED BY <2>3, <2>4, <3>1, <3>3, <3>4, <3>5
  <2>5. CASE scheduler # "running"
    BY <1>0, <2>3, <2>5 DEF Reckoned, w
  <2> QED BY <2>4, <2>5
<1> QED BY <1>0, <1>1, <1>2, <1>5, <1>6 DEF IInv, TypeOK, Order

\* Every step keeps the invariant.
LEMMA NextKeeps ==
  ASSUME IInv, [Next]_vars
  PROVE  IInv'
<1>0. TypeOK /\ Order /\ Reckoned
  BY DEF IInv
<1>1. ASSUME Free("thread"), UNCHANGED <<context, waits>>, xTickCount' \in 0..HAL_MAX_DELAY,
             scheduler_started' \in BOOLEAN, scheduler' \in {"not_started", "running"},
             Order'
      PROVE  IInv'
  BY <1>0, <1>1, NoWaitTyped DEF IInv, TypeOK, Reckoned, Free
<1>2. CASE hal_freertos_timebase_scheduler_started
  BY <1>0, <1>1, <1>2 DEF hal_freertos_timebase_scheduler_started, TypeOK, Order
<1>3. CASE vTaskStartScheduler
  <2>1. xTickCount' \in 0..HAL_MAX_DELAY
    BY <1>3, TickRangeAssumption DEF vTaskStartScheduler, HAL_MAX_DELAY
  <2> QED BY <1>0, <1>1, <1>3, <2>1 DEF vTaskStartScheduler, TypeOK, Order
<1>4. CASE Call
  BY <1>4, DelayKeeps, HalWaitKeeps DEF Call
<1>5. CASE TimeOut \/ Event
  BY <1>5, EndKeeps
<1>6. CASE InterruptEntry \/ InterruptReturn
  BY <1>0, <1>6
     DEF InterruptEntry, InterruptReturn, IInv, TypeOK, Order, Reckoned, Context
<1>7. CASE SysTick
  BY <1>7, SysTickKeeps
<1>8. CASE UNCHANGED vars
  BY <1>0, <1>8 DEF vars, IInv, TypeOK, Order, Reckoned
<1> QED BY <1>2, <1>3, <1>4, <1>5, <1>6, <1>7, <1>8 DEF Next

\* It holds at the start.
LEMMA InitKeeps == Init => IInv
<1> SUFFICES ASSUME Init PROVE IInv
  OBVIOUS
<1>1. /\ scheduler_started = FALSE /\ scheduler = "not_started" /\ xTickCount = 0
      /\ context = "thread" /\ waits = [c \in Context |-> NoWait]
  BY DEF Init
<1>2. waits \in [Context -> Wait] /\ \A c \in Context : waits[c].kind = "none"
  BY <1>1, NoWaitTyped
<1>3. xTickCount \in 0..HAL_MAX_DELAY
  BY <1>1, TickRangeAssumption DEF HAL_MAX_DELAY
<1> QED
  BY <1>1, <1>2, <1>3 DEF IInv, TypeOK, Order, Reckoned, Context

-----------------------------------------------------------------------------
(* The theorems.                                                           *)

\* IInv is invariant, for every tick range and every set of timeouts.
THEOREM StateKnown == Spec => []IInv
<1>1. IInv /\ [Next]_vars => IInv'
  BY NextKeeps
<1> QED BY <1>1, InitKeeps, PTL DEF Spec

\* Every variable has its type.
THEOREM TypeCorrect == Spec => []TypeOK
<1>1. IInv => TypeOK
  BY DEF IInv
<1> QED BY <1>1, StateKnown, PTL

\* What the thread's busy wait sees of the clock.
LEMMA Elapsed ==
  ASSUME IInv, context = "thread", waits["thread"].kind = "busy"
  PROVE  TimeIsOver("thread") <=>
           scheduler = "running" /\ waits["thread"].ticks >= waits["thread"].limit
<1>0. TypeOK /\ Order /\ Reckoned
  BY DEF IInv
<1>1. HAL_GetTick = IF scheduler = "running" THEN xTickCount ELSE 0
  BY <1>0, ClockIs
<1>2. CASE scheduler = "running"
  BY <1>0, <1>1, <1>2 DEF TimeIsOver, Since, Reckoned
<1>3. CASE scheduler # "running"
  <2>1. waits["thread"].start = 0 /\ waits["thread"].limit > 0
    BY <1>0, <1>3 DEF Reckoned
  <2>2. Since(waits["thread"].start) = 0
    BY <1>1, <1>3, <2>1, Modulo, TickRangeAssumption DEF Since, HAL_MAX_DELAY
  <2>3. waits["thread"].limit \in Nat
    BY <1>0, TickRangeAssumption DEF TypeOK, Context, Wait, HAL_MAX_DELAY
  <2> QED BY <1>3, <2>1, <2>2, <2>3 DEF TimeIsOver
<1> QED BY <1>2, <1>3

\* No busy wait of the thread is shorter than asked for.
THEOREM NeverEarly == Spec => []NoWaitEndsEarly
<1>1. IInv => NoWaitEndsEarly
  <2> SUFFICES ASSUME IInv, TimeIsOver("thread")
               PROVE  waits["thread"].ticks > waits["thread"].asked \/ waits["thread"].asked = 0
    BY DEF NoWaitEndsEarly
  <2>1. /\ scheduler = "running" /\ waits["thread"].ticks >= waits["thread"].limit
        /\ waits["thread"].kind = "busy"
    BY Elapsed DEF TimeIsOver
  <2>2. waits["thread"].limit = IF waits["thread"].asked = 0 THEN 0 ELSE waits["thread"].asked + 1
    BY <2>1 DEF IInv, Reckoned
  <2>3. waits["thread"].asked \in Nat /\ waits["thread"].ticks \in Nat
    BY TickRangeAssumption DEF IInv, TypeOK, Context, Wait, HAL_MAX_DELAY
  <2> QED BY <2>1, <2>2, <2>3
<1> QED BY <1>1, StateKnown, PTL

\* Once the scheduler runs, none is more than a tick longer.
THEOREM NeverLate == Spec => []WaitEndsInTime
<1>1. IInv => WaitEndsInTime
  <2> SUFFICES ASSUME IInv, scheduler = "running", context = "thread",
                      waits["thread"].kind = "busy",
                      waits["thread"].ticks > waits["thread"].asked
               PROVE  TimeIsOver("thread")
    BY DEF WaitEndsInTime
  <2>1. waits["thread"].limit = IF waits["thread"].asked = 0 THEN 0 ELSE waits["thread"].asked + 1
    BY DEF IInv, Reckoned
  <2>2. waits["thread"].asked \in Nat /\ waits["thread"].ticks \in Nat
    BY TickRangeAssumption DEF IInv, TypeOK, Context, Wait, HAL_MAX_DELAY
  <2>3. waits["thread"].ticks >= waits["thread"].limit
    BY <2>1, <2>2
  <2> QED BY <2>3, Elapsed
<1> QED BY <1>1, StateKnown, PTL

\* The clock never jumps, whoever reads it.
THEOREM ClockSteady == Spec => TimeNeverJumps
<1>1. IInv /\ [Next]_vars => [HAL_GetTick' \in {HAL_GetTick, (HAL_GetTick + 1) % TickRange}]_vars
  <2> SUFFICES ASSUME IInv, Next
               PROVE  HAL_GetTick' \in {HAL_GetTick, (HAL_GetTick + 1) % TickRange}
    OBVIOUS
  <2>1. TypeOK /\ Order /\ TypeOK' /\ Order'
    BY NextKeeps DEF IInv
  <2>2. HAL_GetTick = IF scheduler = "running" THEN xTickCount ELSE 0
    BY <2>1, ClockIs
  <2>3. HAL_GetTick' = IF scheduler' = "running" THEN xTickCount' ELSE 0
    BY <2>1 DEF HAL_GetTick, uwTick, TypeOK, Order
  <2>4. CASE vTaskStartScheduler
    BY <2>2, <2>3, <2>4 DEF vTaskStartScheduler
  <2>5. CASE SysTick
    BY <2>2, <2>3, <2>5 DEF SysTick
  <2>6. CASE ~vTaskStartScheduler /\ ~SysTick
    <3>1. scheduler' = scheduler /\ xTickCount' = xTickCount
      BY <2>6 DEF Next, hal_freertos_timebase_scheduler_started, Call, HAL_Delay, HalWait,
                  TimeOut, Event, End, InterruptEntry, InterruptReturn
    <3> QED BY <2>2, <2>3, <3>1
  <2> QED BY <2>4, <2>5, <2>6
<1> QED BY <1>1, StateKnown, PTL DEF Spec, TimeNeverJumps
=============================================================================
