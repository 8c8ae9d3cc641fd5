# EmbeddedTemplate: a verification project in TLA+

EmbeddedTemplate is firmware for an STM32U5: a target-independent driver
interface (`platform_uart.h`, `platform_lptim.h`), its STM32U5 back ends, and two
programs that echo what is typed on a serial console, one of them under
FreeRTOS. The interesting part is small and hard to test: a receive that ends
either because its buffer is full (an interrupt of the DMA channel) or because
the line has been silent (an interrupt of the UART), started by a task and
restarted from callbacks, on top of a HAL whose handle can be busy.

## 1. Inventory

Paths are relative to the repository.

| Part | State | Operations | Interacts through |
|---|---|---|---|
| UART driver, `src/platform/stm32u5/platform_uart_stm32u5.c` | `rx_dma_length`, `rx_until_timeout_active`, `initialized`, callbacks, three HAL handles | init, deinit, blocking and asynchronous transfers, receive until timeout, three aborts, callback registration; `USART1_IRQHandler`, two DMA handlers, three HAL callbacks | calls from a task or a callback; HAL calls; registered callbacks |
| UART interface, `src/platform/common/platform_uart*.h` | none | the promises made to a caller | comments |
| LPTIM driver, `platform_lptim_stm32u5.c` | handle, `initialized`, callbacks | init, deinit, start, stop, period arithmetic, interrupt | a callback per period |
| FreeRTOS echo program, `src/apps/uart_echo_freertos_app/main.c` | `rxBuffer`, `rxLength`, the task's notification word | `EchoTask`, four callbacks, `Error_Handler` | driver calls; `xTaskNotifyFromISR`/`xTaskNotifyWait` |
| HAL time base, `hal_freertos_time.c` | `scheduler_started` | `HAL_GetTick`, `HAL_Delay` | called by the HAL |
| Bare-metal echo program, `src/apps/uart_echo_app/main.c` | `rxByte` | `main`, three callbacks | driver calls, also from interrupts |
| USART1, GPDMA1, STM32 HAL | registers, handle states | external (the submodule is empty) | registers, interrupts |
| Build, Renode and linker files | none | none | none |

What is hard here, and what makes each part correct:

- *Driver.* Task calls are interrupted between HAL calls; the timeout and the
  full-buffer interrupt race; the DMA counter outlives its transfer; a HAL call
  may be refused after the driver's own fields have changed. Correct means: a
  completion is reported once, for a receive that ran, with a count that was
  received; a receive whose timeout runs does end.
- *FreeRTOS program.* One buffer is owned in turn by the DMA channel and by the
  task; two interrupts notify through one word; every failure is final
  (`Error_Handler`). Correct means: the buffer has one owner, no wake-up is lost,
  the task never waits without a receive, what comes is echoed in order.
- *Bare-metal program.* A byte is shared by both DMA directions and the whole
  program is a chain of callbacks. Correct means: the chain never breaks, no
  character is lost, repeated or overtaken.
- *LPTIM driver.* Rounding and the 16-bit limit of the period; `initialized`
  outlives an initialisation that fails; the handle is cleared and the callback
  table copied while the interrupt may come. Correct means: a timer that counts
  has a period asked for, never shorter and less than a tick longer, its
  interrupt finds a whole handle and a whole table, and it keeps calling back.
- *HAL time base.* The tick source changes when the scheduler starts, the tick
  count wraps, and HAL code waits in the task, before the scheduler runs and in
  interrupts. Correct means: time never jumps, a wait lasts as long as asked for
  to a tick, no interrupt blocks, and the task's waits end.

`PROJECT.json` lists the hazards at their lines.

## 2. Modules

| Module | Models |
|---|---|
| `Usart` | external: one record `h` for the peripheral, DMA channel and HAL handle, and one operator per HAL function, from record to record |
| `UartDriver` | the driver without a caller: one action per HAL call of each API function, one per interrupt handler (two for the timeout, whose count is taken before the channel is stopped), and the three hardware steps |
| `RxContract` | abstract: what `platform_uart.h` promises about asynchronous receives; a receive ends by one completion, which reports what was stored when the buffer was full or the silence noticed, by an error or by the caller's own abort, and by nothing else |
| `UartClient` | the driver under a caller that obeys the rules given by constants, with the driver's properties |
| `MCUartClient` | the callers the runs use |
| `UartDriver_proofs` | lemmas about the HAL operators, the calls and the handlers, shared by the proofs about its three callers |
| `UartClient_proofs` | types and counts of `UartClient`, for every value of its constants |
| `UartContract_proofs` | that a caller who keeps the rules has the promises of `RxContract` |
| `LptimDriver` | the timer driver without a caller: the API functions (`platform_lptim_init` in two steps, before and after the HAL has the handle; a registration one step per word), the interrupt and the counter |
| `LptimClient` | the timer driver under a caller that looks at the statuses it is given, with the timer's properties |
| `LptimDriver_proofs` | lemmas about the timer driver: types, arithmetic, outcomes of the HAL |
| `LptimClient_proofs` | theorems about `LptimClient`, for every value of its constants |
| `HalTime` | `hal_freertos_time.c`: the clock and the waits of the thread and of an interrupt, across the start of the scheduler |
| `FreeRtosEcho` | `EchoTask`, its callbacks and the notification word, on `UartDriver` and `LptimDriver` |
| `BareEcho` | `main` and its chain of callbacks, on `UartDriver` |
| `HalTime_proofs`, `FreeRtosEcho_proofs`, `BareEcho_proofs` | theorems about these three |

`UartDriver` EXTENDS `Usart`; `UartClient`, `FreeRtosEcho` and `BareEcho` each
EXTEND `UartDriver` and supply a caller and the callbacks. `LptimClient` and
`FreeRtosEcho` do the same with `LptimDriver`. The proof modules follow the same
lines: `UartClient_proofs`, `BareEcho_proofs` and `FreeRtosEcho_proofs` EXTEND
`UartDriver_proofs`, `UartContract_proofs` the first of them, and
`LptimClient_proofs` and `FreeRtosEcho_proofs` EXTEND `LptimDriver_proofs`. A definition named
after a "Mistake" is a plausible bug: it stands just before the definition it
would replace and no specification uses it.

How the code maps:

- `uart` holds the fields of `struct platform_uart` that the functions use; `hw`
  what the HAL and the hardware hold; `call` the API call in progress, where it
  stands and what the last one returned; `isr` the local variable
  `bytes_received` of `complete_rx_until_timeout` while it runs; `cb` the callback
  made by the last step.
- `UartClient` adds three history variables for its properties, which only the
  caller's own actions look at: `started`, the call that started the receive that
  runs; `overlapped`, that a receive was asked for while one ran and none has started
  since; `aborted`, that the last step was the caller's and aborted the receive.
- `platform_uart_receive_until_timeout_async` is `Enter`, `EnableTimeout`,
  `ArmReceive`, `StartReceive` and, on a refusal, `UndoTimeout`: interrupts may
  come between any two. `HAL_UART_Receive_DMA` is two steps, because the HAL
  enables the timeout interrupt before it starts the transfer.
- `timer`, `lptim`, `tcall` and `elapsed` are the same for the timer driver: its
  struct, LPTIM1 with its handle and interrupt line, the call in progress, and the
  callback made by the last step.
- `HalTime!waits` holds the local variables of the wait in progress, one for the
  thread and one for the interrupt that has taken it away; `ticks` counts the
  ticks since it began, and no action looks at it but the end of `vTaskDelay`.
- `FreeRtosEcho!pc` names the statement of `EchoTask` whose turn it is.
  `Error_Handler`, which disables interrupts and loops, is a location that no
  action leaves.
- In `BareEcho` the driver's functions run inside an interrupt handler, so the
  handler, the callback and the calls of the callback are one action.

Abstractions:

- All handlers have NVIC priority 6 (`platform_uart_stm32u5.c:376` and below), so
  none preempts another; of two that are pending the one with the lower number
  (the DMA channel) goes first. The kernel masks from priority 5 on, so it never
  runs above a handler's data.
- A DMA request is served before the next character is complete, and a handler
  takes less than a receiver timeout (30 bits at 115200 baud are 260
  microseconds); `ByteArrives` and `LineFallsSilent` are guarded accordingly.
- The API's aborts may return `PLATFORM_TIMEOUT`, when `HAL_DMA_Abort` finds that the
  channel does not stop: the transfer goes on, without its error interrupt. The abort in
  `complete_rx_until_timeout` is assumed to succeed: its status is cast to void and
  the tick count that would end it stands still in an interrupt.
- A `timeout_bits` of zero is refused like a bad length, before anything is changed,
  and is not told apart from it. How long a timeout lasts is not data of the
  model, so that a call overwrites the running receive's timeout before it is refused
  (`platform_uart_stm32u5.c:300`) is not seen.
- HAL calls other than `HAL_UART_Receive_DMA` are one step. A transmit holds
  `gState`, and with it the enabling and disabling of the receiver timeout; the
  lock a HAL function takes for a moment is not modelled.
- The timing of a silence begins with a character received while the timeout is
  enabled. The receive FIFO is disabled, as the driver does; the register holds
  one byte and an overrun drops the new one.
- `UINT16_MAX`, the longest transfer, is `MaxLength`; callers also ask for zero and
  for `MaxLength + 1`. Characters are positive numbers; text is not modelled. The
  greeting and the banner are transmits of length one.
- Initialising either succeeds or leaves a handle that is not ready. The programs
  pass a valid configuration and start DMA channels the HAL accepts, and wait for
  transmits without limit, so their models leave out `PLATFORM_ERROR` and
  `PLATFORM_TIMEOUT`; every other failure goes to `Error_Handler`.
- The timer driver's HAL calls may fail: `HAL_LPTIM_Init` before or after it has
  written the period, the others without effect. In `FreeRtosEcho` they succeed,
  for a failure only leads to `Error_Handler`.
- The low-power timer's interrupt has the UART's priority, so `TimerInterrupt` and
  the UART's handlers do not preempt one another.
- The tick interrupt has the lowest priority (`stm32u5xx_hal_conf.h:180` and the
  kernel's own), so no tick comes while an interrupt runs. The kernel has
  `SysTick_Handler` and nothing calls `HAL_IncTick`: `uwTick` stays zero, and a
  `HAL_Delay` before the scheduler starts never ends. `HalTime` shows that as it
  is; the program makes no such call. An interrupt that waits is answered by the
  hardware, for its own timeout cannot expire.
- No interrupt comes between `hal_freertos_timebase_scheduler_started()` and the start
  of the scheduler: the program enables its peripherals in `EchoTask`, and the kernel
  masks interrupts until the first task runs. The case in which an interrupt
  would read `xTickCount` (`hal_freertos_time.c:25-27`) and the thread `uwTick` (`:29-30`)
  is thereby excluded, not checked.
- A busy wait looks at the clock at least once per tick: the echo task has no
  equal, and the HAL's loops are short. A delay by the kernel lasts as many tick
  interrupts as asked for, the first of which may come at once.

Rules of a caller (`UartClient`): `Ops` is what it calls. Without `Overlap` it asks
for no receive while one runs. A `Careful` caller neither transmits nor aborts
while a receive until timeout runs. On a `Paced` line a receive until timeout is asked
for when no overrun is pending, until it has ended no byte comes before the one
before was read, and a call that starts a receive takes less than a timeout: no whole
silence falls into it. All callers initialise and deinitialise only when
no transfer runs, and call nothing else on a handle that has never been initialised.

Rules of `LptimClient`: it registers callbacks and initialises only when the
statuses it was given say that the timer stands still (no start has succeeded or
failed with an unknown effect since the last stop that succeeded), and
deinitialises only what it has initialised, or tried to. `platform_lptim.h` states no such
rule, but the program keeps it. So no interrupt falls between two words of the callback table
that is copied: `CallbackMatches` says that the copy is complete and that the statuses
tell a caller when it may register, not what a torn copy would do.

## 3. Runs

Bounds: `MaxLength` bounds lengths and the DMA counter, `Byte` the characters (their
number bounds how many arrive in the echo models, where each is distinct). State
spaces are complete. `MaxTicks` and `TickRange` are the widths of the autoreload
register and of the tick count; no other bound is used.

| Run | Question | Bounds |
|---|---|---|
| `driver_any` | Any calls, overlapping and refused, on any line: `TypeOK`, and `CountFits`, no count beyond what the receive was asked for unless the caller asked for a receive while one ran | `MaxLength` 3: the counter of one transfer can exceed the length of a shorter one by more than one |
| `driver_contract` | All functions, a careful caller, a paced line: `KeepsContract`, `SilenceEndsReceive`, `ReceiveEnds` | `MaxLength` 3: an empty, a partly filled and a full buffer after a longer or shorter one |
| `echo_first_period` | The FreeRTOS program before the timer elapses, any sender: `BufferOwnership`, `EchoInOrder`, `OnlyOverrunHalts` | `MaxLength` 3, 7 characters: two full buffers and a rest |
| `echo_brief` | With the timer, for bursts shorter than the buffer: `TypeOK`, `WaitsWithReceive`, `EchoInOrder`, `OnlyOverrunHalts`, `EveryByteEchoed`, `PeriodIsGreeted` | `MaxLength` 3, 5 characters: three bursts of up to two |
| `bare_echo` | The bare-metal program, any sender: `BufferOwnership`, `NothingLost`, `OnlyOverrunHalts`, `EchoedOrHalted` | 8 characters; the chain of callbacks repeats after one |
| `lptim` | The timer driver, HAL failures included: `TypeOK`, `InterruptFindsHandle`, `CallbackMatches`, `PeriodHonoured`, `KeepsElapsing` | the board's 250 ticks per second with a register of 3 values: periods of zero, of one tick, either side of one tick, of the longest (12 ms) and one too long; two callback tables |
| `hal_time` | The HAL's clock: `TypeOK`, `NoWaitEndsEarly`, `WaitEndsInTime`, `TimeNeverJumps`, `TaskWaitEnds` | a clock of 8 values, which wraps at every phase of a wait; no time, short, almost a whole turn, and `HAL_MAX_DELAY` |

The echo runs do not check deadlock: the program stops when characters run out
or in `Error_Handler`.

Five runs show where the code does less than its comments say, each with the
smallest caller that shows it (on a paced line):

| Run | What it shows |
|---|---|
| `abort_leaves_timeout` | `platform_uart_abort_receive` leaves the receiver timeout running: the silence that follows reports the completion of a receive that was aborted. A receive ended by an overrun does the same, for `HAL_UART_ErrorCallback` does not close the timeout either. |
| `refused_call_counts` | A call refused with `PLATFORM_BUSY` has overwritten `rx_dma_length`; the running receive, of one byte, completes with a count of two. `RefusedCallLeavesCount` speaks of completions that come when no call is under way, so the refusal has happened by then. |
| `refused_call_disarms` | A refused receive until timeout switches off the timeout of the running one, which no silence ends any more. |
| `transmit_keeps_timeout` | The HAL does not disable the timeout during a transmit and the driver ignores that, first when the buffer fills and again when the next plain receive is asked for: the flag that a silence has set in between goes to the error callback as soon as that call has enabled the timeout interrupt. |
| `echo_listening` | The consequence in the FreeRTOS program: the buffer fills while the greeting is printed, the stale timeout flag completes the next receive while that is being started, and the task transmits from `rxBuffer` while the DMA channel runs. |

The rules of `driver_contract` exclude the first four: no overlap, a careful caller and a paced
line. `echo_first_period` and `bare_echo`
take any sender and say what holds until an overrun, which halts both programs for
good: two characters typed while no receive runs are enough. `echo_brief` needs a sender
that falls silent before the buffer is full and waits for the next receive, and which therefore never overruns the register:
otherwise a greeting leads to what `echo_listening` shows.

Every property of a passing run has a mutant in `PROJECT.json`: a "Mistake" that
makes the run fail.

`ReceiveEnds` speaks of a receive whose silence is being timed: a byte that came
before the timeout was enabled is stored but starts no timeout, so such a receive
waits for the next byte.

`PeriodHonoured` speaks of the periods asked for since the last initialisation
that succeeded, because one that fails may have written the register and start is
accepted all the same.

*Fairness* of the drivers and programs is weak and asked of what the hardware
and the scheduler guarantee: a call that has begun goes on (one task, above the idle task), pending interrupts
are served, the DMA channel is granted the bus, and a silence that has begun to
be timed elapses unless a character comes. Nothing is assumed of the sender or
of a caller's wish to make another call. In `LptimClient` a timer
that counts reaches the end of its period; `FreeRtosEcho` does without that. `HalTime` asks for strong fairness of the
tick interrupt and of the thread's look at the clock, since interrupts come and go
between: ticks are periodic and an interrupt handler that runs between two of
them does not fill the time. An interrupt returns, again by strong fairness, for
it may wait more than once on its way.

## 4. Proofs

Every safety invariant and every action property that a run checks is a
theorem, for every value of the constants:

| Module | Theorem | States | Hypothesis |
|---|---|---|---|
| `UartClient_proofs` | `TypeCorrect`, `CountsFit` | `TypeOK`, `CountFits` | |
| `UartContract_proofs` | `ContractKept` | `KeepsContract` | rules kept |
| | `SilenceEnds` | `SilenceEndsReceive` | rules kept |
| | `CompletionsHaveReceive`, `CountsAreReceived`, `ErrorsAreErrors` | `CompletionHasReceive`, `CountIsReceived` with `RefusedCallLeavesCount`, `ErrorIsError` | rules kept |
| `LptimClient_proofs` | `TimerTypeCorrect`, `TimerPeriodHonoured`, `TimerInterruptFindsHandle`, `TimerCallbackMatches` | `TypeOK`, `PeriodHonoured`, `InterruptFindsHandle`, `CallbackMatches` | |
| `HalTime_proofs` | `TypeCorrect`, `NeverEarly`, `NeverLate`, `ClockSteady` | `TypeOK`, `NoWaitEndsEarly`, `WaitEndsInTime`, `TimeNeverJumps` | |
| `BareEcho_proofs` | `TypeCorrect`, `OneOwner`, `EchoComplete`, `OverrunAloneHalts` | `TypeOK`, `BufferOwnership`, `NothingLost`, `OnlyOverrunHalts` | |
| `FreeRtosEcho_proofs` | `TypeCorrect` | `TypeOK` | |
| | `OneOwner`, `EchoOrdered`, `NoVainWait`, `OverrunAloneHalts` | `BufferOwnership`, `EchoInOrder`, `WaitsWithReceive`, `OnlyOverrunHalts` | `Quiet` |

Besides the hypotheses the theorems rest on the assumptions of the modules
alone: `MaxLength` is a positive number, characters are positive numbers, `Ops`
is a set of function names, the rules are Boolean, frequency and periods are
natural numbers, a register has at least one value, a callback table is not
the null pointer, a tick count has more than one value and every timeout fits it,
`Sender` is one of the three and `Periodic` Boolean.

- *Rules kept* is `~Overlap /\ Careful /\ Paced`, the rules of section 2. `CountIsReceived`
  is `RefusedCallLeavesCount` for every completion, whatever is under way. The runs
  `abort_leaves_timeout`, `refused_call_counts`, `refused_call_disarms` and
  `transmit_keeps_timeout` refute the promises for a caller that breaks them.
- *Quiet* is `~Periodic \/ Sender = "brief"`: the timer has not elapsed yet, or
  bursts are shorter than the buffer; either way no greeting meets a full buffer.
  These are the programs of `echo_first_period` and `echo_brief`, and the run
  `echo_listening` refutes `BufferOwnership` for the rest.

Each `StateKnown` (`Inductive` for the timer) says that the inductive invariant `IInv` of its module holds
always. The properties are not inductive alone, and what the invariants add is
the reason why they hold.

**The UART driver, any caller** (`UartClient_proofs`). `TypeOK` is inductive; it
needs the type `Call` to tell a call in progress, whose length is at least one,
from a returned one, or the blocking receive's countdown would leave its range.
`CountFits` needs `LengthKnown`, for a caller that has not overlapped receives.
`ReceiveCallKnown`: a call that asks for a receive finds the length it was given in
`rx_dma_length`. `Matched`: no transfer runs beside such a call, and outside of one, while a
transfer runs or a silence would be reported, `rx_dma_length` is the length of the
transfer that was started last. So a counter that outlives its transfer, an abort or an abort that
timed out is compared with its own length. A call that asks for a receive while one
runs sets `overlapped`, and the start of the next transfer clears it, for that call's
length is the one in `rx_dma_length`. Lemmas come in layers: what each HAL operator does to the parts of the
handle (`SameTransfer`, `SameTimeout`, `SameLine`, `SameTransmit`), each shape of call
step, each group of actions.

**The contract** (`UartContract_proofs`). `Known` has five parts. `CallKnown`: each
call is at one of its own statements, and one that will start a transfer finds its
length in `rx_dma_length`. `ChannelKnown`: a transfer that runs is the one
`rx_dma_length` speaks of. `NothingLeft`: of the timeout, flag, interrupt enable and
driver flag, nothing is on that does not belong to the receive or the call it was
made for. `TimeoutOn`: what a silence needs is on, and the transmitter is at rest,
so that no `HAL_BUSY` keeps it from being switched. `HandlerKnown`: between its
two steps `complete_rx_until_timeout` has a receive, which has stored what will be
reported. The refinement maps a step of `StartReceive` that the HAL accepts to `Start`,
`DmaMovesByte` to `Store`, the DMA channel's handler to `Complete`, `UsartRtoIrq` to `Notice`,
which records the exact count, `CompleteRx` to `TimeOut` with that count, the error
handler to `Fail`, an abort of the caller's that succeeds to
`Abort` and all else, an abort that times out included, to `Other`. No handler's step maps to
`Abort`, so none may drop a receive without a word.

**The timer** (`LptimClient_proofs`). `IInv` adds three parts to `TypeOK` and
`CallbackMatches`. `HandleWhole`: a timer that counts is one the
caller knows may count, no call with several steps is under way meanwhile, and a
handle that `start` would accept is whole. `PeriodKnown`: the register holds a period
asked for not only while the timer counts but whenever `start` would let it, and
a period that is being configured has been accepted. `TableKnown`: each word of the
callback table is that of the last table or still to be copied. The arithmetic is
two lemmas: `TicksRoundUp`, that the division rounds up, and `AcceptedLasts`, that what
is accepted fits the register and lasts as long as it should. `ConfigureOutcome`
lists what `HAL_LPTIM_Init` can leave behind.

**The clock** (`HalTime_proofs`). `Reckoned` says that the ticks counted since a busy
wait began are what the clock shows, modulo the width of the count, and never exceed
the wait's limit; before the scheduler runs the wait stands at zero and
is not over. `Order` excludes a running scheduler that was not announced, and interrupts
before it runs. The modular arithmetic is in `Modulo` and `ModuloNext`.

**The bare-metal program** (`BareEcho_proofs`). `TimeoutUnused` keeps the machinery of
the receiver timeout out of the picture. `Starting` and `Chain` say that from the end of
`main` on exactly one of receive and transmit runs, and that the other side of the
handle is ready for what the next callback starts: no call is refused, so only an
overrun halts. `OneByte` says that the character to be sent is in `rxByte`. With them
`NothingLost`, an equation between the sequence `1..arrived` and echoed, buffered and
received characters, is inductive.

**The FreeRTOS program** (`FreeRtosEcho_proofs`) has an invariant in two layers.

1. `Sound`, whoever sends: a call belongs to the statement that makes it; all
   transfers have the length of the buffer; before the first no completion can be
   pending; where a count says that characters have come, `rxBuffer` holds characters.
   The last is why `TypeOK` is not inductive: the task echoes as many characters
   as an interrupt counted, and even when the count is stale they are characters.
2. For `Quiet`, `InStep`, `Stream` and `Ordered`. `Phase`: where the task is says what
   the receiver does, at rest, starting, receiving or closing; the notification bit
   decides between the last two and rest. `Transmitter`: it is busy as long as the
   task waits for it. `NoGreeting` and `NeverFull` say why the two do not meet: no
   timer, or a buffer that never fills and a silence that is served before
   the sender speaks again. `Stream` orders the
   places a character passes through: what is echoed came before what is in
   `rxBuffer`, that before what is in the data register, that no later than the last to
   arrive. A step moves a prefix from one place to the next; the
   transmit that appends `rxBuffer` to `echoed` keeps `Ordered` for that reason.

Only model-checked: the six liveness properties, `ReceiveEnds`, `EveryByteEchoed`,
`PeriodIsGreeted`, `EchoedOrHalted`, `KeepsElapsing` and `TaskWaitEnds`. Liveness
under fairness, `ENABLED`, induction over data and `RECURSIVE` operators are out
of the prover's reach; no module uses the last. The five refuted properties are
the model checker's too, for the callers that refute them.

## 5. Plan

Done: both drivers, the UART contract, both programs, the HAL's clock; theorems
about the types and the safety of all of them, and the refinement of the contract.

1. The safety half of the liveness properties: that where one waits, a step of the
   kind fairness promises is possible, as far as it can be said without `ENABLED`
   (as `WaitsWithReceive` does for the echo task).
2. The callback table and the initialisation of the UART driver word by word and
   stage by stage, as in `LptimDriver`, with the theorem `TimerCallbackMatches` has there.

Not modelled: the UART driver's callback registration while interrupts run and its
initialisation while transfers run (callers in the models do neither, and neither
program does; the timer driver's same code is modelled), configuration fields and their translation to HAL constants, pin
and clock set-up, the transmit DMA channel beyond its completion, FreeRTOS other
than one notification word, memory-failure hooks, build and simulation files.
