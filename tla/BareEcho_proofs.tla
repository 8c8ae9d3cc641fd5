-------------------------- MODULE BareEcho_proofs ---------------------------
(***************************************************************************)
(* The bare-metal echo program, for any sender: its chain of callbacks     *)
(* never breaks, its one buffer has one owner, and until an overrun every  *)
(* character that came is accounted for.                                   *)
(***************************************************************************)
EXTENDS BareEcho, UartDriver_proofs, SequenceTheorems

-----------------------------------------------------------------------------
(* The inductive invariant.                                                *)

\* The program has no receive until timeout, so none of its machinery is on.
TimeoutUnused ==
  /\ isr = NotRunning /\ ~uart.rx_until_timeout_active
  /\ ~hw.RTOEN /\ ~hw.RTOIE /\ ~hw.RTOF /\ ~hw.counting

\* Until main has started the first receive, both channels rest.
Starting ==
  /\ pc = "init" => /\ call.pc = "idle" /\ hw.gState = "RESET"
                    /\ hw.RDR = NoByte /\ ~hw.ORE /\ arrived = 0 /\ echoed = <<>>
  /\ pc \in {"banner", "StartReceiveAsync"} => hw.RxState = "READY"
  /\ pc = "banner" => \/ call.pc = "idle" /\ hw.gState = "READY"
                      \/ call.pc = "sending"
  /\ pc = "StartReceiveAsync" =>
       /\ hw.gState = "READY"
       /\ \/ call.pc = "idle"
          \/ /\ call.pc \in {"disable", "arm", "start"} /\ call.op = "async"
             /\ call.len = 1 /\ uart.rx_dma_length = 1
  /\ pc \in {"init", "banner", "StartReceiveAsync"} => ~hw.DMAR /\ ~hw.txDma

\* From then on one of the two runs, and the other side of the handle is ready
\* for what its callback will start.
Receiving == hw.DMAR /\ ~hw.txDma /\ hw.RxState = "BUSY_RX" /\ hw.gState = "READY"

Transmitting == ~hw.DMAR /\ hw.txDma /\ hw.RxState = "READY" /\ hw.gState = "BUSY_TX"

Chain ==
  pc = "while" => call.pc = "idle" /\ uart.rx_dma_length = 1 /\ (Receiving \/ Transmitting)

\* A receive has room for one character and is complete when it has come; while
\* rxByte waits to be sent or is being sent, it holds a character.
OneByte ==
  /\ ~(hw.DMAR /\ hw.txDma)
  /\ hw.DMAR => hw.remaining \in {0, 1} /\ (hw.TC <=> hw.remaining = 0)
  /\ hw.TC => hw.DMAR
  /\ hw.TC \/ hw.txDma => rxByte \in Byte

Known == TimeoutUnused /\ Starting /\ Chain /\ OneByte

IInv == TypeOK /\ Known /\ NothingLost

-----------------------------------------------------------------------------
(* Types.                                                                  *)

\* platform_uart_receive_async as a callback calls it, with no timeout enabled.
LEMMA ReceiveAsyncEffect ==
  ASSUME NEW h \in HwState, ~h.RTOEN, ~h.counting, NEW g, g = ReceiveAsync(h)
  PROVE  /\ g \in HwState
         /\ SameTimeout(g, h) /\ SameLine(g, h) /\ SameTransmit(g, h)
         /\ g.RxState = "BUSY_RX" /\ g.EIE /\ g.DMAR /\ ~g.TC
         /\ g.remaining = 1 /\ g.size = 1
<1> DEFINE a == HAL_UART_DisableReceiverTimeout(h)
           b == Receive_DMA_Arm(a)
<1>1. /\ a \in HwState /\ SameLine(a, h) /\ SameTransmit(a, h)
      /\ SameTimeout(a, h)
  <2>1. h.RTOEN = FALSE /\ h.counting = FALSE
    BY DEF HwState
  <2> QED BY <2>1, HalCallsTyped, DisableReceiverTimeoutEffect DEF SameTimeout, HwState
<1> HIDE DEF a
<1>2. b \in HwState /\ SameLine(b, a) /\ SameTransmit(b, a) /\ SameTimeout(b, a)
  BY <1>1, HalCallsTyped, ReceiveArmEffect DEF SameTimeout
<1> HIDE DEF b
<1>3. 1 \in Length
  BY MaxLengthAssumption DEF Length
<1>4. g = Receive_DMA_Start(b, 1)
  BY DEF ReceiveAsync, a, b
<1>5. g \in HwState
  BY <1>2, <1>3, <1>4, HalCallsTyped
<1>6. /\ SameTimeout(g, b) /\ SameLine(g, b) /\ SameTransmit(g, b)
      /\ g.RxState = "BUSY_RX" /\ g.EIE /\ g.DMAR /\ ~g.TC
      /\ g.remaining = 1 /\ g.size = 1
  BY <1>2, <1>4, ReceiveStartEffect
<1> QED BY <1>1, <1>2, <1>5, <1>6 DEF SameTimeout, SameLine, SameTransmit

\* Each step of main is one of the driver's.
LEMMA MainTyped ==
  ASSUME DriverTypeOK, main
  PROVE  DriverTypeOK'
BY ApiCallTyped, CallStepTyped DEF main

\* The handlers with their callbacks.
LEMMA InterruptTyped ==
  ASSUME TypeOK, TimeoutUnused, Interrupt
  PROVE  DriverTypeOK'
<1>0. DriverTypeOK /\ hw \in HwState /\ uart \in platform_uart
  BY DEF TypeOK, DriverTypeOK
<1>1. CASE OnConsoleError
  BY <1>0, <1>1, DriverInterruptTyped DEF OnConsoleError, DriverInterrupt
<1>2. CASE OnConsoleRxComplete
  <2> DEFINE a == AfterRxCplt(hw)
  <2>1. a \in HwState
    BY <1>0, EventsTyped DEF AfterRxCplt, TimeoutUnused
  <2> HIDE DEF a
  <2>2. Transmit_Start(a, TRUE) \in HwState
    BY <2>1, HalCallsTyped
  <2>3. hw' \in HwState
    <3>1. hw' = Transmit_Start(a, TRUE) \/ hw' = a
      BY <1>2, Zenon DEF OnConsoleRxComplete, a
    <3> QED BY <2>1, <2>2, <3>1, Zenon
  <2>4. uart' \in platform_uart
    BY <1>0, <1>2 DEF OnConsoleRxComplete, platform_uart
  <2>5. uart.rx_dma_length \in Int
    BY <1>0, MaxLengthAssumption DEF platform_uart
  <2>6. isr' = isr /\ call' = call /\ cb' \in Callback
    BY <1>2, <2>5 DEF OnConsoleRxComplete, IsrStep, Callback
  <2> QED BY <1>0, <2>3, <2>4, <2>6 DEF DriverTypeOK
<1>3. CASE OnConsoleTxComplete
  <2> DEFINE a == AfterTxCplt(hw)
  <2>1. a \in HwState /\ SameTimeout(a, hw)
    BY <1>0, EventsTyped, TransmitOverEffect
  <2>2. ReceiveAsync(a) \in HwState
    BY <2>1, ReceiveAsyncEffect DEF TimeoutUnused, SameTimeout
  <2> HIDE DEF a
  <2>3. hw' \in HwState
    BY <1>3, <2>1, <2>2 DEF OnConsoleTxComplete, a
  <2>4. uart' \in platform_uart
    <3>1. 1 \in 0..MaxLength
      BY MaxLengthAssumption
    <3>2. [uart EXCEPT !.rx_dma_length = 1, !.rx_until_timeout_active = FALSE] \in platform_uart
      BY <1>0, <3>1 DEF platform_uart
    <3> QED BY <1>3, <3>2 DEF OnConsoleTxComplete
  <2>5. isr' = isr /\ call' = call /\ cb' \in Callback
    BY <1>3 DEF OnConsoleTxComplete, IsrStep, Callback
  <2> QED BY <1>0, <2>3, <2>4, <2>5 DEF DriverTypeOK
<1> QED BY <1>1, <1>2, <1>3 DEF Interrupt

\* Every step keeps the types.
LEMMA NextTyped ==
  ASSUME IInv, [Next]_vars
  PROVE  TypeOK'
<1>0. /\ DriverTypeOK /\ TypeOK /\ TimeoutUnused /\ OneByte
      /\ hw \in HwState
  BY DEF IInv, Known, TypeOK, DriverTypeOK
<1>1. CASE main
  BY <1>0, <1>1, MainTyped DEF main, Then, TypeOK, Location
<1>2. CASE Interrupt
  <2>1. DriverTypeOK'
    BY <1>0, <1>2, InterruptTyped
  <2>2. /\ pc' = pc \/ pc' = "Error_Handler"
        /\ rxByte' = rxByte /\ arrived' = arrived
    BY <1>2 DEF Interrupt, OnConsoleRxComplete, OnConsoleTxComplete, OnConsoleError
  <2>3. echoed' \in Seq(Byte)
    <3>1. CASE OnConsoleTxComplete
      <4>1. rxByte \in Byte
        BY <1>0, <3>1 DEF OnConsoleTxComplete, OneByte
      <4>2. echoed' = Append(echoed, rxByte) /\ echoed \in Seq(Byte)
        BY <1>0, <3>1 DEF OnConsoleTxComplete, TypeOK
      <4> QED BY <4>1, <4>2, AppendProperties
    <3>2. CASE OnConsoleRxComplete \/ OnConsoleError
      BY <1>0, <3>2 DEF OnConsoleRxComplete, OnConsoleError, TypeOK
    <3> QED BY <1>2, <3>1, <3>2 DEF Interrupt
  <2> QED BY <1>0, <2>1, <2>2, <2>3 DEF TypeOK, Location
<1>3. CASE Arrival
  BY <1>0, <1>3, HardwareTyped DEF Arrival, TypeOK
<1>4. CASE DmaTransfer
  BY <1>0, <1>4, HardwareTyped DEF DmaTransfer, TypeOK, HwState
<1>5. CASE UNCHANGED vars
  BY <1>0, <1>5 DEF vars, TypeOK, DriverTypeOK
<1> QED BY <1>1, <1>2, <1>3, <1>4, <1>5 DEF Next

-----------------------------------------------------------------------------
(* The chain of callbacks.                                                 *)

\* main initialises, sends the banner and starts the first receive; none of its
\* calls is refused.
LEMMA MainKeeps ==
  ASSUME IInv, main
  PROVE  /\ Known' /\ Running'
         /\ hw'.RDR = hw.RDR /\ hw'.TC = hw.TC /\ hw'.txDma = hw.txDma
         /\ ~hw'.ORE => ~hw.ORE
<1>0. /\ DriverTypeOK /\ Known /\ hw \in HwState /\ uart \in platform_uart /\ call \in Call
      /\ pc \in Location
  BY DEF IInv, TypeOK, DriverTypeOK
<1>1. rxByte' = rxByte /\ arrived' = arrived /\ echoed' = echoed
  BY DEF main
<1>2. ~hw.DMAR /\ ~hw.txDma /\ ~hw.TC
  BY <1>0 DEF main, Known, Starting, OneByte
<1>3. 1 \in Length
  BY MaxLengthAssumption DEF Length
<1>4. CASE pc = "init" /\ platform_uart_init /\ Then("banner")
  <2>1. ~(call' = Return("ERROR"))
    BY <1>4, ReturnEffect DEF Then
  <2>2. /\ hw' = HAL_UART_Init(hw) /\ uart' = [uart EXCEPT !.initialized = TRUE]
        /\ call' = Return("OK") /\ isr' = isr
    BY <1>4, <2>1 DEF platform_uart_init, TaskStep
  <2>3. pc' = "banner" /\ call'.pc = "idle"
    BY <1>4, <2>2, ReturnEffect DEF Then
  <2>4. uart'.rx_until_timeout_active = uart.rx_until_timeout_active
    BY <1>0, <2>2 DEF platform_uart
  <2>5. /\ hw'.gState = "READY" /\ hw'.RxState = "READY"
        /\ ~hw'.RTOF /\ ~hw'.counting /\ ~hw'.ORE /\ hw'.RDR = NoByte
        /\ hw'.RTOEN = hw.RTOEN /\ hw'.RTOIE = hw.RTOIE /\ hw'.DMAR = hw.DMAR
        /\ hw'.TC = hw.TC /\ hw'.txDma = hw.txDma
    BY <1>0, <2>2, InitEffect
  <2>6. hw.RDR = NoByte /\ ~hw.ORE
    BY <1>0, <1>4 DEF Known, Starting
  <2> QED
    BY <1>0, <1>1, <1>2, <2>2, <2>3, <2>4, <2>5, <2>6
       DEF Known, TimeoutUnused, Starting, Chain, OneByte, Running
<1>5. CASE pc = "banner" /\ (platform_uart_transmit(1) \/ FinishTransmit) /\ Then("StartReceiveAsync")
  <2>1. hw.RxState = "READY" /\ (call.pc = "idle" => hw.gState = "READY")
    BY <1>0, <1>5 DEF Known, Starting
  <2> DEFINE a == Transmit_Start(hw, FALSE)
  <2>2. /\ SameTimeout(a, hw) /\ SameTransfer(a, hw) /\ SameLine(a, hw)
        /\ a.txDma = hw.txDma
    BY <1>0, <1>2 DEF Transmit_Start, HwState, SameTimeout, SameTransfer, SameLine
  <2>3. CASE EnterBlocking("transmit", 1, "sending", hw.gState = "READY", a)
    <3> HIDE DEF a
    <3>1. /\ hw' = a /\ uart' = uart /\ isr' = isr
          /\ call' = [op |-> "transmit", len |-> 1, pc |-> "sending", ret |-> "OK"]
      BY <1>3, <2>1, <2>3 DEF EnterBlocking, TaskStep, Idle
    <3>2. pc' = "banner" /\ call'.pc = "sending"
      BY <1>5, <3>1 DEF Then
    <3> QED
      BY <1>0, <1>1, <1>2, <2>1, <2>2, <3>1, <3>2
         DEF Known, TimeoutUnused, Starting, Chain, OneByte, Running,
             SameTimeout, SameTransfer, SameLine
  <2>4. CASE FinishTransmit
    <3>1. /\ hw' = [hw EXCEPT !.gState = "READY"] /\ uart' = uart /\ isr' = isr
          /\ call' = Return("OK") \/ call' = Return("TIMEOUT")
      BY <2>4 DEF FinishTransmit, TaskStep
    <3>2. pc' = "StartReceiveAsync" /\ call'.pc = "idle"
      BY <1>5, <3>1, ReturnEffect DEF Then
    <3>3. /\ SameTimeout(hw', hw) /\ SameTransfer(hw', hw) /\ SameLine(hw', hw)
          /\ hw'.txDma = hw.txDma /\ hw'.gState = "READY"
      BY <1>0, <3>1 DEF HwState, SameTimeout, SameTransfer, SameLine
    <3> QED
      BY <1>0, <1>1, <1>2, <2>1, <3>1, <3>2, <3>3
         DEF Known, TimeoutUnused, Starting, Chain, OneByte, Running,
             SameTimeout, SameTransfer, SameLine
  <2> QED BY <1>5, <2>3, <2>4 DEF platform_uart_transmit
<1>6. ASSUME pc = "StartReceiveAsync", Then("while"),
             \/ platform_uart_receive_async(1)
             \/ DisableTimeout \/ ArmReceive \/ StartReceive
      PROVE  /\ Known' /\ Running'
             /\ hw'.RDR = hw.RDR /\ hw'.TC = hw.TC /\ hw'.txDma = hw.txDma
             /\ ~hw'.ORE => ~hw.ORE
  <2>1. /\ hw.gState = "READY" /\ hw.RxState = "READY"
        /\ call.pc # "idle" =>
             call.op = "async" /\ call.len = 1 /\ uart.rx_dma_length = 1
        /\ ~hw.RTOEN /\ ~hw.counting /\ ~uart.rx_until_timeout_active
    BY <1>0, <1>6 DEF Known, Starting, TimeoutUnused
  <2>2. ASSUME SameTimeout(hw', hw), SameTransfer(hw', hw), SameLine(hw', hw),
               SameTransmit(hw', hw), isr' = isr,
               uart'.rx_dma_length = 1, ~uart'.rx_until_timeout_active,
               call'.op = "async", call'.len = 1, call'.pc \in {"disable", "arm", "start"}
        PROVE  /\ Known' /\ Running'
               /\ hw'.RDR = hw.RDR /\ hw'.TC = hw.TC /\ hw'.txDma = hw.txDma
               /\ ~hw'.ORE => ~hw.ORE
    <3>1. pc' = "StartReceiveAsync"
      BY <1>6, <2>2 DEF Then
    <3> QED
      BY <1>0, <1>1, <1>2, <2>1, <2>2, <3>1
         DEF Known, TimeoutUnused, Starting, Chain, OneByte, Running,
             SameTimeout, SameTransfer, SameLine, SameTransmit
  <2>3. CASE platform_uart_receive_async(1)
    <3>1. /\ hw' = hw /\ isr' = isr
          /\ uart' = [uart EXCEPT !.rx_dma_length = 1, !.rx_until_timeout_active = FALSE]
          /\ call' = [op |-> "async", len |-> 1, pc |-> "disable", ret |-> "OK"]
      BY <1>3, <2>3 DEF platform_uart_receive_async, Enter, TaskStep
    <3>2. uart'.rx_dma_length = 1 /\ ~uart'.rx_until_timeout_active
      BY <1>0, <3>1 DEF platform_uart
    <3> QED
      BY <2>2, <3>1, <3>2 DEF SameTimeout, SameTransfer, SameLine, SameTransmit
  <2>4. CASE DisableTimeout
    <3>1. uart' = uart /\ isr' = isr /\ hw' = HAL_UART_DisableReceiverTimeout(hw)
          /\ call.pc = "disable" /\ call'.pc = "arm" /\ call'.op = call.op /\ call'.len = call.len
      BY <1>0, <2>4, GotoEffect DEF DisableTimeout, TaskStep
    <3>2. hw.RTOEN = FALSE /\ hw.counting = FALSE
      BY <1>0, <2>1 DEF HwState
    <3>3. /\ SameTimeout(hw', hw) /\ SameTransfer(hw', hw) /\ SameLine(hw', hw)
          /\ SameTransmit(hw', hw)
      BY <1>0, <3>1, <3>2 DEF HAL_UART_DisableReceiverTimeout, HwState,
         SameTimeout, SameTransfer, SameLine, SameTransmit
    <3> QED BY <2>1, <2>2, <3>1, <3>3
  <2>5. CASE ArmReceive
    <3>1. /\ uart' = uart /\ isr' = isr /\ hw' = Receive_DMA_Arm(hw)
          /\ call.pc = "arm" /\ call'.pc = "start" /\ call'.op = call.op /\ call'.len = call.len
      BY <1>0, <2>1, <2>5, GotoEffect DEF ArmReceive, TaskStep
    <3>2. /\ SameTimeout(hw', hw) /\ SameTransfer(hw', hw) /\ SameLine(hw', hw)
          /\ SameTransmit(hw', hw)
      BY <1>0, <2>1, <3>1, ReceiveArmEffect DEF SameTimeout
    <3> QED BY <2>1, <2>2, <3>1, <3>2
  <2>6. CASE StartReceive
    <3>1. call.pc = "start" /\ isr' = isr
      BY <2>6 DEF StartReceive, TaskStep
    <3>2. call'.ret # "ERROR"
      BY <1>6 DEF Then
    <3>3. ~ReceiveRefused("ERROR")
      BY <2>1, <3>1, <3>2, ReturnEffect DEF ReceiveRefused
    <3>4. hw' = Receive_DMA_Start(hw, call.len) /\ call' = Return("OK") /\ uart' = uart
      BY <2>6, <3>3 DEF StartReceive
    <3>5. pc' = "while" /\ call'.pc = "idle"
      BY <1>6, <3>4, ReturnEffect DEF Then
    <3>6. /\ SameTimeout(hw', hw) /\ SameLine(hw', hw) /\ SameTransmit(hw', hw)
          /\ hw'.RxState = "BUSY_RX" /\ hw'.DMAR /\ ~hw'.TC /\ hw'.remaining = 1
      BY <1>0, <2>1, <3>1, <3>4, ReceiveStartEffect
    <3>7. hw'.TC = hw.TC
      BY <1>0, <1>2, <3>4 DEF Receive_DMA_Start, HwState
    <3> QED
      BY <1>0, <1>1, <1>2, <2>1, <3>1, <3>4, <3>5, <3>6, <3>7
         DEF Known, TimeoutUnused, Starting, Chain, OneByte, Running, Receiving,
             SameTimeout, SameLine, SameTransmit
  <2> QED BY <1>6, <2>3, <2>4, <2>5, <2>6
<1> QED BY <1>4, <1>5, <1>6 DEF main

\* A received character is always sent: the transmitter is ready.
LEMMA RxCompleteKeeps ==
  ASSUME IInv, OnConsoleRxComplete
  PROVE  /\ Known' /\ Running' /\ pc = "while"
         /\ hw.TC /\ ~hw.txDma /\ ~hw'.TC /\ hw'.txDma
         /\ hw'.RDR = hw.RDR /\ hw'.ORE = hw.ORE
<1>0. /\ Known /\ hw \in HwState /\ uart \in platform_uart /\ pc \in Location
  BY DEF IInv, TypeOK, DriverTypeOK
<1>1. hw.TC /\ hw.DMAR /\ isr' = isr /\ call' = call
  BY <1>0 DEF OnConsoleRxComplete, IsrStep, Known, OneByte
<1>2. pc = "while" /\ Receiving /\ uart.rx_dma_length = 1 /\ call.pc = "idle"
  BY <1>0, <1>1 DEF OnConsoleRxComplete, Running, Known, Starting, Chain, Transmitting, Location
<1> DEFINE a == AfterRxCplt(hw)
           b == Transmit_Start(a, TRUE)
<1>3. /\ a \in HwState
      /\ TransferOver(a, hw) /\ SameTimeout(a, hw) /\ SameLine(a, hw) /\ SameTransmit(a, hw)
  BY <1>0, EventsTyped, AfterRxCpltEffect DEF Known, TimeoutUnused, AfterRxCplt
<1> HIDE DEF a
<1>4. /\ SameTransfer(b, a) /\ SameTimeout(b, a) /\ SameLine(b, a)
      /\ b.gState = "BUSY_TX" /\ b.txDma
  BY <1>3 DEF Transmit_Start, HwState, SameTransfer, SameTimeout, SameLine
<1>5. a.gState = "READY"
  BY <1>2, <1>3 DEF Receiving, SameTransmit
<1>6. hw' = Transmit_Start(AfterRxCplt(hw), TRUE) /\ pc' = pc
  BY <1>2, <1>5, Zenon DEF OnConsoleRxComplete, a
<1>7. hw' = b
  BY <1>6, Zenon DEF a
<1> HIDE DEF b
<1>8. /\ uart'.rx_dma_length = 1 /\ ~uart'.rx_until_timeout_active /\ rxByte' = rxByte
  BY <1>0, <1>2 DEF OnConsoleRxComplete, platform_uart
<1>9. rxByte' \in Byte
  BY <1>0, <1>1, <1>8 DEF Known, OneByte
<1>10. /\ SameTimeout(hw', hw) /\ SameLine(hw', hw)
       /\ hw'.RxState = "READY" /\ ~hw'.DMAR /\ ~hw'.TC
       /\ hw'.gState = "BUSY_TX" /\ hw'.txDma
  BY <1>3, <1>4, <1>7 DEF SameTransfer, SameTimeout, SameLine, TransferOver
<1>11. Known'
  BY <1>0, <1>1, <1>2, <1>6, <1>8, <1>9, <1>10
     DEF Known, TimeoutUnused, Starting, Chain, OneByte, Transmitting, SameTimeout
<1> QED BY <1>1, <1>2, <1>6, <1>10, <1>11 DEF Receiving, SameLine, Running

\* And the next receive is always started: the receiver is ready.
LEMMA TxCompleteKeeps ==
  ASSUME IInv, OnConsoleTxComplete
  PROVE  /\ Known' /\ Running' /\ pc = "while"
         /\ ~hw.TC /\ hw.txDma /\ ~hw'.TC /\ ~hw'.txDma
         /\ hw'.RDR = hw.RDR /\ hw'.ORE = hw.ORE
<1>0. /\ Known /\ hw \in HwState /\ uart \in platform_uart /\ pc \in Location
  BY DEF IInv, TypeOK, DriverTypeOK
<1>1. ~hw.TC /\ hw.txDma /\ isr' = isr /\ call' = call
  BY DEF OnConsoleTxComplete, IsrStep
<1>2. pc = "while" /\ Transmitting /\ call.pc = "idle"
  BY <1>0, <1>1 DEF OnConsoleTxComplete, Running, Known, Starting, Chain, Receiving, Location
<1> DEFINE a == AfterTxCplt(hw)
           b == ReceiveAsync(a)
<1>3. /\ a \in HwState
      /\ SameTransfer(a, hw) /\ SameTimeout(a, hw) /\ SameLine(a, hw)
      /\ a.gState = "READY" /\ ~a.txDma
  BY <1>0, EventsTyped, TransmitOverEffect
<1>4. hw' = b /\ pc' = pc /\ uart' = [uart EXCEPT !.rx_dma_length = 1, !.rx_until_timeout_active = FALSE]
  BY <1>2 DEF OnConsoleTxComplete, Transmitting
<1> HIDE DEF a
<1>5. /\ SameTimeout(b, a) /\ SameLine(b, a) /\ SameTransmit(b, a)
      /\ b.RxState = "BUSY_RX" /\ b.DMAR /\ ~b.TC /\ b.remaining = 1
  BY <1>0, <1>3, ReceiveAsyncEffect DEF Known, TimeoutUnused, SameTimeout
<1> HIDE DEF b
<1>6. uart'.rx_dma_length = 1 /\ ~uart'.rx_until_timeout_active
  BY <1>0, <1>4 DEF platform_uart
<1>7. /\ SameTimeout(hw', hw) /\ SameLine(hw', hw)
      /\ hw'.RxState = "BUSY_RX" /\ hw'.DMAR /\ ~hw'.TC /\ hw'.remaining = 1
      /\ hw'.gState = "READY" /\ ~hw'.txDma
  BY <1>3, <1>4, <1>5 DEF SameTimeout, SameLine, SameTransmit
<1>8. Known'
  BY <1>0, <1>1, <1>2, <1>4, <1>6, <1>7
     DEF Known, TimeoutUnused, Starting, Chain, OneByte, Receiving, SameTimeout
<1> QED BY <1>1, <1>2, <1>4, <1>7, <1>8 DEF SameLine, Running

\* An error is an overrun, and ends the program.
LEMMA ErrorKeeps ==
  ASSUME IInv, OnConsoleError
  PROVE  Known' /\ ~Running' /\ hw.ORE
<1>0. Known /\ hw \in HwState
  BY DEF IInv, TypeOK, DriverTypeOK
<1>1. /\ hw' = HalEndRxOnError(hw) /\ HalErrorPending(hw)
      /\ uart' = uart /\ isr' = isr /\ call' = call /\ rxByte' = rxByte
      /\ pc' = "Error_Handler"
  BY DEF OnConsoleError, UsartErrorIrq, IsrStep
<1>2. /\ TransferOver(hw', hw) /\ SameTransmit(hw', hw)
      /\ hw'.RTOEN = hw.RTOEN /\ hw'.RTOIE = hw.RTOIE /\ hw'.counting = hw.counting
      /\ ~hw.RTOIE => hw'.RTOF = hw.RTOF
  BY <1>0, <1>1, EndRxOnErrorEffect
<1>3. hw.ORE
  BY <1>0, <1>1 DEF HalErrorPending, Known, TimeoutUnused
<1>4. Known'
  BY <1>0, <1>1, <1>2
     DEF Known, TimeoutUnused, Starting, Chain, OneByte, TransferOver, SameTransmit
<1> QED BY <1>1, <1>3, <1>4 DEF Running

\* A character reaches the data register, or overruns it.
LEMMA ArrivalKeeps ==
  ASSUME IInv, Arrival
  PROVE  /\ Known' /\ Running' /\ arrived' = arrived + 1
         /\ hw'.TC = hw.TC /\ hw'.txDma = hw.txDma
         /\ ~hw'.ORE => hw.RDR = NoByte /\ hw'.RDR = arrived + 1 /\ ~hw.ORE
<1>0. Known /\ hw \in HwState
  BY DEF IInv, TypeOK, DriverTypeOK
<1>1. /\ hw' = ReceiveChar(hw, arrived + 1) /\ hw.gState # "RESET"
      /\ uart' = uart /\ isr' = isr /\ call' = call /\ rxByte' = rxByte
      /\ pc' = pc /\ Running /\ arrived' = arrived + 1
  BY DEF Arrival, ByteArrives, HardwareStep
<1>2. /\ SameTransfer(hw', hw) /\ SameTransmit(hw', hw)
      /\ hw'.RTOEN = hw.RTOEN /\ hw'.RTOIE = hw.RTOIE /\ hw'.RTOF = hw.RTOF
      /\ hw'.counting = hw.RTOEN
      /\ IF hw.RDR = NoByte THEN hw'.RDR = arrived + 1 /\ hw'.ORE = hw.ORE
         ELSE hw'.RDR = hw.RDR /\ hw'.ORE
  BY <1>0, <1>1, ReceiveCharEffect
<1>3. pc # "init"
  BY <1>0, <1>1 DEF Known, Starting
<1>4. Known'
  BY <1>0, <1>1, <1>2, <1>3
     DEF Known, TimeoutUnused, Starting, Chain, OneByte, Receiving, Transmitting,
         SameTransfer, SameTransmit
<1> QED BY <1>1, <1>2, <1>4 DEF Running, SameTransfer, SameTransmit

\* The receive channel moves a character into a free rxByte.
LEMMA DmaKeeps ==
  ASSUME IInv, DmaTransfer
  PROVE  /\ Known' /\ Running' /\ ~hw.TC /\ ~hw.txDma /\ hw'.TC
         /\ hw.RDR # NoByte /\ rxByte' = hw.RDR /\ hw'.RDR = NoByte /\ hw'.ORE = hw.ORE
<1>0. Known /\ hw \in HwState /\ pc \in Location
  BY DEF IInv, TypeOK, DriverTypeOK
<1>1. /\ hw' = DmaStore(hw) /\ hw.RDR # NoByte /\ hw.DMAR /\ hw.remaining > 0
      /\ uart' = uart /\ isr' = isr /\ call' = call /\ rxByte' = hw.RDR
      /\ pc' = pc /\ Running
  BY DEF DmaTransfer, DmaMovesByte, DmaRequest, HardwareStep
<1>2. hw.remaining = 1 /\ ~hw.TC /\ ~hw.txDma
  BY <1>0, <1>1 DEF Known, OneByte
<1>3. pc = "while" /\ Receiving
  BY <1>0, <1>1 DEF Known, Starting, Chain, Transmitting, Running, Location
<1>4. hw.RDR \in Byte
  BY <1>0, <1>1 DEF HwState
<1>5. /\ SameTimeout(hw', hw) /\ SameTransmit(hw', hw)
      /\ hw'.ORE = hw.ORE /\ hw'.RDR = NoByte
      /\ hw'.RxState = hw.RxState /\ hw'.DMAR = hw.DMAR
      /\ hw'.remaining = 0 /\ hw'.TC
  <2>1. /\ SameTimeout(hw', hw) /\ SameTransmit(hw', hw)
        /\ hw'.ORE = hw.ORE /\ hw'.RDR = NoByte
        /\ hw'.RxState = hw.RxState /\ hw'.DMAR = hw.DMAR
        /\ hw'.remaining = hw.remaining - 1 /\ (hw'.TC <=> hw.remaining = 1)
    BY <1>0, <1>1, DmaStoreEffect
  <2> QED BY <1>2, <2>1
<1>6. /\ hw'.DMAR /\ ~hw'.txDma /\ hw'.RxState = "BUSY_RX" /\ hw'.gState = "READY"
      /\ rxByte' \in Byte /\ pc' = "while"
  BY <1>1, <1>3, <1>4, <1>5 DEF Receiving, SameTransmit
<1>7. TimeoutUnused'
  BY <1>0, <1>1, <1>5 DEF Known, TimeoutUnused, SameTimeout
<1>8. Starting' /\ Chain' /\ OneByte'
  BY <1>0, <1>1, <1>3, <1>5, <1>6 DEF Known, Starting, Chain, OneByte, Receiving
<1> QED BY <1>1, <1>2, <1>5, <1>7, <1>8 DEF Known, Running

-----------------------------------------------------------------------------
(* The account of the characters.                                          *)

Upto(n) == [i \in 1..n |-> i]

InBuffer == IF hw.TC \/ hw.txDma THEN <<rxByte>> ELSE <<>>

InRegister == IF hw.RDR = NoByte THEN <<>> ELSE <<hw.RDR>>

\* NothingLost, with its parts named.
LEMMA Account ==
  /\ NothingLost <=> ((Running /\ ~hw.ORE) => echoed \o InBuffer \o InRegister = Upto(arrived))
  /\ NothingLost' <=>
       ((Running' /\ ~hw'.ORE) => echoed' \o InBuffer' \o InRegister' = Upto(arrived'))
BY Zenon DEF NothingLost, InBuffer, InRegister, Upto

\* One character more.
LEMMA UptoNext ==
  ASSUME NEW n \in Nat
  PROVE  Upto(n) \in Seq(Nat) /\ Upto(n) \o <<n + 1>> = Upto(n + 1)
<1>1. ASSUME NEW m \in Nat PROVE Upto(m) \in Seq(Nat) /\ Len(Upto(m)) = m
  <2>1. Upto(m) \in [1..m -> Nat]
    BY DEF Upto
  <2> QED BY <2>1
<1>2. Upto(n) \in Seq(Nat) /\ <<n + 1>> \in Seq(Nat) /\ Upto(n + 1) \in Seq(Nat)
  BY <1>1
<1>3. /\ Upto(n) \o <<n + 1>> \in Seq(Nat)
      /\ Len(Upto(n) \o <<n + 1>>) = n + 1
      /\ \A i \in 1..(n + 1) : (Upto(n) \o <<n + 1>>)[i] = i
  BY <1>1, <1>2, ConcatProperties DEF Upto
<1>4. \A i \in 1..(n + 1) : Upto(n + 1)[i] = i
  BY DEF Upto
<1>5. Len(Upto(n + 1)) = n + 1
  BY <1>1
<1> QED BY <1>2, <1>3, <1>4, <1>5, SeqEqual

\* The parts of the account are sequences.
LEMMA AccountTyped ==
  ASSUME IInv
  PROVE  /\ echoed \in Seq(Nat) /\ InBuffer \in Seq(Nat) /\ InRegister \in Seq(Nat)
         /\ arrived \in Nat
<1>1. /\ echoed \in Seq(Byte) /\ hw \in HwState /\ OneByte /\ arrived \in Byte \cup {0}
  BY DEF IInv, Known, TypeOK, DriverTypeOK
<1>2. Byte \subseteq Nat /\ Byte \cup {0} \subseteq Nat
  BY ByteAssumption
<1>3. echoed \in Seq(Nat)
  BY <1>1, <1>2, SeqMonotonic
<1>4. hw.TC \/ hw.txDma => rxByte \in Nat
  BY <1>1, <1>2 DEF OneByte
<1>5. hw.RDR \in Nat
  <2>1. hw.RDR \in Byte \cup {0}
    BY <1>1 DEF HwState, NoByte
  <2> QED BY <1>2, <2>1, Zenon
<1>6. \A n \in Nat : <<n>> \in Seq(Nat)
  OBVIOUS
<1>7. InBuffer \in Seq(Nat)
  BY <1>4, <1>6, EmptySeq DEF InBuffer
<1>8. InRegister \in Seq(Nat)
  BY <1>5, <1>6, EmptySeq DEF InRegister
<1>9. arrived \in Nat
  BY <1>1, <1>2
<1> QED BY <1>3, <1>7, <1>8, <1>9

\* Every step keeps the account.
LEMMA NextKeeps ==
  ASSUME IInv, [Next]_vars
  PROVE  IInv'
<1>0. /\ Known /\ NothingLost
      /\ echoed \in Seq(Nat) /\ InBuffer \in Seq(Nat) /\ InRegister \in Seq(Nat)
      /\ arrived \in Nat
  BY AccountTyped DEF IInv
<1>1. TypeOK'
  BY NextTyped
<1>2. CASE main
  <2>1. echoed' = echoed /\ arrived' = arrived /\ rxByte' = rxByte /\ Running
    BY <1>2 DEF main, Running
  <2>2. InBuffer' = InBuffer /\ InRegister' = InRegister /\ (~hw'.ORE => ~hw.ORE)
    BY <1>2, <2>1, MainKeeps DEF InBuffer, InRegister
  <2> QED BY <1>0, <1>1, <1>2, <2>1, <2>2, MainKeeps, Account DEF IInv
<1>3. CASE OnConsoleRxComplete
  <2>1. echoed' = echoed /\ arrived' = arrived /\ rxByte' = rxByte /\ Running
    BY <1>3 DEF OnConsoleRxComplete
  <2>2. InBuffer' = InBuffer /\ InRegister' = InRegister /\ (~hw'.ORE => ~hw.ORE)
    BY <1>3, <2>1, RxCompleteKeeps DEF InBuffer, InRegister
  <2> QED BY <1>0, <1>1, <1>3, <2>1, <2>2, RxCompleteKeeps, Account DEF IInv
<1>4. CASE OnConsoleTxComplete
  <2>1. echoed' = Append(echoed, rxByte) /\ arrived' = arrived /\ Running
    BY <1>4 DEF OnConsoleTxComplete
  <2>2. /\ InBuffer = <<rxByte>> /\ InBuffer' = <<>> /\ InRegister' = InRegister
        /\ (~hw'.ORE => ~hw.ORE)
    BY <1>4, TxCompleteKeeps DEF InBuffer, InRegister
  <2>3. echoed' = echoed \o InBuffer /\ echoed \o InBuffer \in Seq(Nat)
    <3>1. rxByte \in Nat
      BY <1>0, <2>2, ElementOfSeq
    <3> QED BY <1>0, <2>1, <2>2, <3>1, AppendIsConcat, ConcatProperties
  <2>4. echoed' \o InBuffer' = echoed \o InBuffer
    BY <2>2, <2>3, ConcatEmptySeq
  <2> QED BY <1>0, <1>1, <1>4, <2>1, <2>2, <2>4, TxCompleteKeeps, Account DEF IInv
<1>5. CASE OnConsoleError
  BY <1>1, <1>5, ErrorKeeps, Account DEF IInv
<1>6. CASE Arrival
  <2>1. echoed' = echoed /\ arrived' = arrived + 1 /\ rxByte' = rxByte /\ Running
    BY <1>6 DEF Arrival
  <2>2. InBuffer' = InBuffer
    BY <1>6, <2>1, ArrivalKeeps DEF InBuffer
  <2>3. CASE hw'.ORE
    BY <1>1, <1>6, <2>3, ArrivalKeeps, Account DEF IInv
  <2>4. CASE ~hw'.ORE
    <3>1. ~hw.ORE /\ InRegister = <<>> /\ InRegister' = <<arrived + 1>>
      BY <1>0, <1>6, <2>4, ArrivalKeeps DEF InRegister, NoByte
    <3>2. echoed \o InBuffer \in Seq(Nat)
      BY <1>0, ConcatProperties
    <3>3. echoed \o InBuffer = Upto(arrived)
      <4>1. (echoed \o InBuffer) \o InRegister = Upto(arrived)
        BY <1>0, <2>1, <3>1, Account
      <4> QED BY <3>1, <3>2, <4>1, ConcatEmptySeq
    <3>4. echoed' \o InBuffer' \o InRegister' = Upto(arrived')
      BY <1>0, <2>1, <2>2, <3>1, <3>3, UptoNext
    <3> QED BY <1>1, <1>6, <3>4, ArrivalKeeps, Account DEF IInv
  <2> QED BY <2>3, <2>4
<1>7. CASE DmaTransfer
  <2>1. echoed' = echoed /\ arrived' = arrived /\ Running
    BY <1>7 DEF DmaTransfer
  <2>2. /\ InBuffer = <<>> /\ InRegister = <<hw.RDR>>
        /\ InBuffer' = <<hw.RDR>> /\ InRegister' = <<>> /\ hw'.ORE = hw.ORE
    BY <1>7, DmaKeeps DEF InBuffer, InRegister
  <2>3. echoed' \o InBuffer' \o InRegister' = echoed \o InBuffer \o InRegister
    <3>1. echoed \o InRegister \in Seq(Nat)
      BY <1>0, ConcatProperties
    <3>2. (echoed \o InRegister) \o <<>> = echoed \o InRegister
      BY <3>1, ConcatEmptySeq
    <3>3. echoed \o <<>> = echoed
      BY <1>0, ConcatEmptySeq
    <3> QED BY <2>1, <2>2, <3>2, <3>3
  <2> QED BY <1>0, <1>1, <1>7, <2>1, <2>2, <2>3, DmaKeeps, Account DEF IInv
<1>8. CASE UNCHANGED vars
  <2>1. Known'
    BY <1>0, <1>8
       DEF vars, Known, TimeoutUnused, Starting, Chain, OneByte, Receiving, Transmitting
  <2>2. NothingLost'
    BY <1>0, <1>8 DEF vars, NothingLost, Running
  <2> QED BY <1>1, <2>1, <2>2 DEF IInv
<1> QED BY <1>2, <1>3, <1>4, <1>5, <1>6, <1>7, <1>8 DEF Next, Interrupt

\* The invariant holds when the program is started.
LEMMA InitKeeps == Init => IInv
<1> SUFFICES ASSUME Init PROVE IInv
  OBVIOUS
<1>1. /\ pc = "init" /\ rxByte = NoByte /\ arrived = 0 /\ echoed = <<>>
      /\ hw = HwReset /\ isr = NotRunning /\ call = Return("OK")
      /\ uart = [rx_dma_length |-> 0, rx_until_timeout_active |-> FALSE, initialized |-> FALSE]
  BY DEF Init, DriverInit
<1>2. TypeOK
  <2>1. DriverTypeOK
    BY DriverInitTyped DEF Init
  <2> QED BY <1>1, <2>1 DEF TypeOK, Location, NoByte
<1>3. Known
  BY <1>1, ReturnEffect
     DEF Known, TimeoutUnused, Starting, Chain, OneByte, HwReset, NoByte
<1>4. NothingLost
  <2>1. InBuffer = <<>> /\ InRegister = <<>>
    BY <1>1 DEF InBuffer, InRegister, HwReset
  <2>2. echoed \o InBuffer \o InRegister = <<>>
    BY <1>1, <2>1, EmptySeq, ConcatEmptySeq
  <2>3. Upto(arrived) = <<>>
    BY <1>1, UptoNext DEF Upto
  <2> QED BY <2>2, <2>3, Account
<1> QED BY <1>2, <1>3, <1>4 DEF IInv

-----------------------------------------------------------------------------
(* The theorems.                                                           *)

\* IInv is invariant, whatever the characters and however they come.
THEOREM StateKnown == Spec => []IInv
<1>1. IInv /\ [Next]_vars => IInv'
  BY NextKeeps
<1> QED BY <1>1, InitKeeps, PTL DEF Spec

\* Every variable has its type.
THEOREM TypeCorrect == Spec => []TypeOK
<1>1. IInv => TypeOK
  BY DEF IInv
<1> QED BY <1>1, StateKnown, PTL

\* The one buffer of the program never has two owners.
THEOREM OneOwner == Spec => []BufferOwnership
<1>1. IInv => BufferOwnership
  BY DEF IInv, Known, OneByte, BufferOwnership
<1> QED BY <1>1, StateKnown, PTL

\* Until an overrun no character is lost, repeated or overtaken.
THEOREM EchoComplete == Spec => []NothingLost
<1>1. IInv => NothingLost
  BY DEF IInv
<1> QED BY <1>1, StateKnown, PTL

\* The calls the callbacks make are never refused: an overrun is all that ends
\* the program.
THEOREM OverrunAloneHalts == Spec => OnlyOverrunHalts
<1>1. IInv /\ [Next]_vars => [(Running /\ ~Running') => hw.ORE]_vars
  <2> SUFFICES ASSUME IInv, Next
               PROVE  (Running /\ ~Running') => hw.ORE
    OBVIOUS
  <2> QED
    BY MainKeeps, RxCompleteKeeps, TxCompleteKeeps, ErrorKeeps, ArrivalKeeps, DmaKeeps
       DEF Next, Interrupt
<1> QED BY <1>1, StateKnown, PTL DEF Spec, OnlyOverrunHalts
=============================================================================
