---------------------------- MODULE FreeRtosEcho ----------------------------
(***************************************************************************)
(* apps/uart_echo_freertos_app: one task that echoes what comes in between *)
(* two silences, and prints a greeting whenever the low-power timer says   *)
(* so, on top of the two drivers.  Characters are numbered as they come.   *)
(***************************************************************************)
EXTENDS UartDriver, LptimDriver, Sequences

CONSTANTS
  Sender,   \* when characters come, see Arrival
  Periodic  \* the timer elapses: not in the first HELLO_PERIOD_MS of a run

ASSUME SenderAssumption == Sender \in {"free", "listening", "brief"}
ASSUME PeriodicAssumption == Periodic \in BOOLEAN

VARIABLES
  pc,        \* where EchoTask is
  notified,  \* its pending notification bits
  taken,     \* the bits xTaskNotifyWait returned last
  rxLength,
  rxBuffer,
  arrived,   \* how many characters have come
  echoed     \* the characters transmitted from rxBuffer

appVars == <<pc, notified, taken, rxLength, rxBuffer, arrived, echoed>>
vars == <<uart, hw, isr, call, cb, timer, lptim, tcall, elapsed,
          pc, notified, taken, rxLength, rxBuffer, arrived, echoed>>

HELLO_PERIOD_MS == 5000

\* The callback table registered with the timer.
OnPeriodic == 1

\* The statement whose turn it is; EchoTask has begun its call if call says so.
Location ==
  {"InitConsoleUart", "banner", "InitPeriodicLptim", "StartReceiveAsync",
   "xTaskNotifyWait", "echo", "hello", "Error_Handler"}

Init ==
  /\ DriverInit /\ LptimInit
  /\ pc = "InitConsoleUart"
  /\ notified = {} /\ taken = {}
  /\ rxLength = 0
  /\ rxBuffer = [i \in Length |-> NoByte]
  /\ arrived = 0
  /\ echoed = <<>>

-----------------------------------------------------------------------------
(* EchoTask.  Error_Handler disables interrupts and never returns.         *)

Running == pc # "Error_Handler"

\* A call that does not return PLATFORM_OK ends in Error_Handler.  It waits
\* forever for a transmit; the HAL accepts the configuration and starts the
\* DMA channel it has been given.
Then(next) ==
  /\ call'.ret \notin {"TIMEOUT", "ERROR"}
  /\ pc' = IF call'.pc # "idle" THEN pc
           ELSE IF call'.ret = "OK" THEN next ELSE "Error_Handler"

TimerRests == TimerStep /\ UNCHANGED <<timer, lptim, tcall>>

InitConsoleUart ==
  /\ pc = "InitConsoleUart"
  /\ platform_uart_init /\ Then("banner") /\ TimerRests
  /\ UNCHANGED <<notified, taken, rxLength, rxBuffer, arrived, echoed>>

Transmit(n) == platform_uart_transmit(n) \/ FinishTransmit

Banner ==
  /\ pc = "banner"
  /\ Transmit(1) /\ Then("InitPeriodicLptim") /\ TimerRests
  /\ UNCHANGED <<notified, taken, rxLength, rxBuffer, arrived, echoed>>

InitPeriodicLptim ==
  /\ pc = "InitPeriodicLptim" /\ TaskStep
  /\ \/ timer.period_elapsed = NULL /\ platform_lptim_register_callbacks(OnPeriodic)
     \/ CopyCallback
     \/ timer.period_elapsed # NULL /\ ~timer.initialized /\ platform_lptim_init(HELLO_PERIOD_MS)
     \/ Configure
     \/ platform_lptim_start
  /\ tcall'.ret = "OK"
  /\ pc' = IF lptim'.counting THEN "StartReceiveAsync" ELSE pc
  /\ UNCHANGED <<uart, hw, call, notified, taken, rxLength, rxBuffer, arrived, echoed>>

\* Mistake: whoever has echoed forgets the greeting.
HelloOrNot(location) == location

HelloOr(location) == IF "PERIODIC_TX" \in taken THEN "hello" ELSE location

StartReceiveAsync ==
  /\ pc = "StartReceiveAsync"
  /\ \/ platform_uart_receive_until_timeout_async(MaxLength) /\ rxLength' = 0
     \/ (EnableTimeout \/ ArmReceive \/ StartReceive \/ UndoTimeout) /\ UNCHANGED rxLength
  /\ Then(HelloOr("xTaskNotifyWait")) /\ TimerRests
  /\ UNCHANGED <<notified, taken, rxBuffer, arrived, echoed>>

xTaskNotifyWait ==
  /\ pc = "xTaskNotifyWait" /\ TaskStep /\ notified # {} /\ TimerRests
  /\ taken' = notified /\ notified' = {}
  /\ pc' = IF "RX" \in notified THEN "echo" ELSE "hello"
  /\ UNCHANGED <<uart, hw, call, rxLength, rxBuffer, arrived, echoed>>

Echo ==
  /\ pc = "echo" /\ TimerRests
  /\ \/ /\ rxLength = 0 /\ Idle /\ TaskStep
        /\ pc' = "StartReceiveAsync" /\ UNCHANGED <<uart, hw, call, echoed>>
     \/ /\ rxLength > 0 /\ platform_uart_transmit(rxLength) /\ Then("StartReceiveAsync")
        /\ UNCHANGED echoed
     \/ /\ FinishTransmit /\ Then("StartReceiveAsync")
        /\ echoed' = echoed \o SubSeq(rxBuffer, 1, call.len)
  /\ UNCHANGED <<notified, taken, rxLength, rxBuffer, arrived>>

Hello ==
  /\ pc = "hello"
  /\ Transmit(1) /\ Then("xTaskNotifyWait") /\ TimerRests
  /\ UNCHANGED <<notified, taken, rxLength, rxBuffer, arrived, echoed>>

EchoTask ==
  \/ InitConsoleUart \/ Banner \/ InitPeriodicLptim \/ StartReceiveAsync
  \/ xTaskNotifyWait \/ Echo \/ Hello

-----------------------------------------------------------------------------
(* Callbacks.                                                              *)

OnConsoleRxComplete(bytes_received) ==
  IF bytes_received > MaxLength
    THEN pc' = "Error_Handler" /\ UNCHANGED <<rxLength, notified>>
    ELSE /\ rxLength' = bytes_received
         /\ notified' = notified \cup {"RX"}
         /\ UNCHANGED pc

OnConsoleError == pc' = "Error_Handler" /\ UNCHANGED <<rxLength, notified>>

Interrupt ==
  /\ Running /\ DriverInterrupt /\ TimerRests
  /\ CASE cb'.kind = "rx" -> OnConsoleRxComplete(cb'.n)
       [] cb'.kind = "error" -> OnConsoleError
       [] OTHER -> UNCHANGED <<pc, rxLength, notified>>
  /\ UNCHANGED <<taken, rxBuffer, arrived, echoed>>

\* Mistake: the notification value is overwritten (eSetValueWithOverwrite).
TimerElapsedOverwrites == notified' = {"PERIODIC_TX"}

OnPeriodicTimerElapsed == notified' = notified \cup {"PERIODIC_TX"}

\* Both interrupts have the same priority.
TimerInterrupt ==
  /\ Running /\ isr = NotRunning /\ LPTIM1_IRQHandler
  /\ IF elapsed' # NotElapsed THEN OnPeriodicTimerElapsed ELSE UNCHANGED notified
  /\ cb' = NoCallback
  /\ UNCHANGED <<uart, hw, isr, call, pc, taken, rxLength, rxBuffer, arrived, echoed>>

-----------------------------------------------------------------------------
(* The line.                                                               *)

\* A free sender does as it likes; a listening one waits until the character
\* before has been read and, at a silence, until the next receive is running;
\* a brief one does not fill the buffer either.
Arrival ==
  /\ Running /\ arrived + 1 \in Byte
  /\ Sender # "free" => (hw.RDR = NoByte /\ hw.DMAR /\ ~hw.RTOF /\ isr = NotRunning)
  /\ Sender = "brief" => hw.remaining > 1
  /\ ByteArrives(arrived + 1) /\ TimerRests
  /\ arrived' = arrived + 1
  /\ UNCHANGED <<pc, notified, taken, rxLength, rxBuffer, echoed>>

DmaTransfer ==
  /\ Running /\ DmaMovesByte /\ TimerRests
  /\ rxBuffer' = [rxBuffer EXCEPT ![hw.size - hw.remaining + 1] = hw.RDR]
  /\ UNCHANGED <<pc, notified, taken, rxLength, arrived, echoed>>

\* StartReceiveAsync takes a small part of a timeout.
Silence ==
  /\ Running /\ call.pc \in {"idle", "sending"}
  /\ LineFallsSilent /\ TimerRests
  /\ UNCHANGED appVars

HelloPeriod ==
  /\ Running /\ Periodic /\ PeriodPasses
  /\ cb' = NoCallback
  /\ UNCHANGED <<uart, hw, isr, call>> /\ UNCHANGED appVars

Next ==
  EchoTask \/ Interrupt \/ TimerInterrupt \/ Arrival \/ DmaTransfer \/ Silence \/ HelloPeriod

\* The task has no equal and runs when it can, interrupts are served, the DMA
\* channel is granted the bus, a silence lasts.  Characters need not come and
\* the timer need not elapse.
Fairness ==
  /\ WF_vars(EchoTask) /\ WF_vars(Interrupt) /\ WF_vars(TimerInterrupt)
  /\ WF_vars(DmaTransfer) /\ WF_vars(Silence)

Spec == Init /\ [][Next]_vars /\ Fairness

-----------------------------------------------------------------------------
(* Properties.                                                             *)

\* Every variable has its type.
TypeOK ==
  /\ DriverTypeOK /\ LptimTypeOK
  /\ pc \in Location
  /\ notified \subseteq {"RX", "PERIODIC_TX"} /\ taken \subseteq {"RX", "PERIODIC_TX"}
  /\ rxLength \in 0..MaxLength
  /\ rxBuffer \in [Length -> Byte \cup {NoByte}]
  /\ arrived \in Byte \cup {0}
  /\ echoed \in Seq(Byte)

\* rxBuffer has one owner: while the task transmits from it, no receive is
\* running that could write to it.
BufferOwnership == (pc = "echo" /\ call.pc = "sending") => ~hw.DMAR

\* What is echoed came in, in that order, each character once at most.
EchoInOrder ==
  \A i \in DOMAIN echoed :
    /\ echoed[i] \in 1..arrived
    /\ i > 1 => echoed[i - 1] < echoed[i]

\* An overrun is all that ends the program in Error_Handler: no call of the
\* task is ever refused and no completion reports too much.
OnlyOverrunHalts == [][(Running /\ ~Running') => hw.ORE]_vars

\* A task that waits and has not been told of a receive has one that a silence
\* or a full buffer will end.
WaitsWithReceive ==
  (pc = "xTaskNotifyWait" /\ "RX" \notin notified /\ isr = NotRunning)
    => (hw.DMAR /\ uart.rx_until_timeout_active /\ hw.RTOEN /\ hw.RTOIE)

\* A greeting follows every period of the timer: none is lost to an echo that
\* the same notification asks for, nor to a receive that is being started.
PeriodIsGreeted == lptim.ARRM ~> (pc = "hello")

\* Every character is echoed, in the end.
EveryByteEchoed ==
  \A b \in Byte : (arrived >= b) ~> (\E i \in DOMAIN echoed : echoed[i] = b)
=============================================================================
