------------------------------ MODULE BareEcho ------------------------------
(***************************************************************************)
(* apps/uart_echo_app: no kernel and no task once it has started; every    *)
(* character is sent back by the callback that reports it, and the next    *)
(* receive is started by the callback that reports the transmit.  Callbacks*)
(* run in an interrupt, so the calls they make are part of one step.       *)
(* Characters are numbered as they come.                                   *)
(***************************************************************************)
EXTENDS UartDriver, Sequences

VARIABLES
  pc,       \* where main is
  rxByte,   \* the one-byte buffer both directions use
  arrived,  \* how many characters have come
  echoed    \* the characters transmitted

appVars == <<pc, rxByte, arrived, echoed>>
vars == <<uart, hw, isr, call, cb, pc, rxByte, arrived, echoed>>

Location == {"init", "banner", "StartReceiveAsync", "while", "Error_Handler"}

Init ==
  /\ DriverInit
  /\ pc = "init" /\ rxByte = NoByte /\ arrived = 0 /\ echoed = <<>>

Running == pc # "Error_Handler"

-----------------------------------------------------------------------------
(* main, up to its empty loop.                                             *)

\* The HAL accepts the configuration and starts the DMA channels, and the
\* banner is sent however long it takes.
Then(next) ==
  /\ call'.ret \notin {"TIMEOUT", "ERROR"}
  /\ pc' = IF call'.pc # "idle" THEN pc
           ELSE IF call'.ret = "OK" THEN next ELSE "Error_Handler"

main ==
  /\ \/ pc = "init" /\ platform_uart_init /\ Then("banner")
     \/ pc = "banner" /\ (platform_uart_transmit(1) \/ FinishTransmit) /\ Then("StartReceiveAsync")
     \/ /\ pc = "StartReceiveAsync"
        /\ \/ platform_uart_receive_async(1)
           \/ DisableTimeout \/ ArmReceive \/ StartReceive
        /\ Then("while")
  /\ UNCHANGED <<rxByte, arrived, echoed>>

-----------------------------------------------------------------------------
(* Interrupt handlers, each with the callback it makes.                    *)

\* Mistakes: room for two bytes; whatever has come is flushed first.
ReceiveTwoAsync(h) ==
  Receive_DMA_Start(Receive_DMA_Arm(HAL_UART_DisableReceiverTimeout(h)), 2)
ReceiveAsyncFlushed(h) == Receive_DMA_Start(HAL_UART_AbortReceive(h), 1)

\* platform_uart_receive_async(uart, &rxByte, 1), called by an interrupt.
ReceiveAsync(h) ==
  Receive_DMA_Start(Receive_DMA_Arm(HAL_UART_DisableReceiverTimeout(h)), 1)

\* Mistake: the next receive is started at once, with the transmit.
OnConsoleRxCompleteRestarts ==
  /\ Running /\ IsrStep /\ hw.TC
  /\ cb' = [kind |-> "rx", n |-> uart.rx_dma_length]
  /\ hw' = ReceiveAsync(Transmit_Start(AfterRxCplt(hw), TRUE))
  /\ UNCHANGED <<uart, isr, pc, rxByte, arrived, echoed>>

\* The receive DMA channel's handler and OnConsoleRxComplete.
OnConsoleRxComplete ==
  /\ Running /\ IsrStep /\ hw.TC
  /\ cb' = [kind |-> "rx", n |-> uart.rx_dma_length]
  /\ uart' = [uart EXCEPT !.rx_until_timeout_active = FALSE]
  /\ IF uart.rx_dma_length = 1 /\ AfterRxCplt(hw).gState = "READY"
       THEN hw' = Transmit_Start(AfterRxCplt(hw), TRUE) /\ UNCHANGED pc
       ELSE hw' = AfterRxCplt(hw) /\ pc' = "Error_Handler"
  /\ UNCHANGED <<isr, rxByte, arrived, echoed>>

\* Mistake: no receive is started.
OnConsoleTxCompleteForgets ==
  /\ Running /\ IsrStep /\ ~hw.TC /\ ~RtoPending /\ ~HalErrorPending(hw) /\ hw.txDma
  /\ cb' = [kind |-> "tx", n |-> 0]
  /\ hw' = AfterTxCplt(hw)
  /\ echoed' = Append(echoed, rxByte)
  /\ UNCHANGED <<uart, isr, pc, rxByte, arrived>>

\* USART1's handler at the end of a transmit, and OnConsoleTxComplete.
OnConsoleTxComplete ==
  /\ Running /\ IsrStep /\ ~hw.TC /\ ~RtoPending /\ ~HalErrorPending(hw) /\ hw.txDma
  /\ cb' = [kind |-> "tx", n |-> 0]
  /\ uart' = [uart EXCEPT !.rx_dma_length = 1, !.rx_until_timeout_active = FALSE]
  /\ IF hw.RxState = "READY"
       THEN hw' = ReceiveAsync(AfterTxCplt(hw)) /\ UNCHANGED pc
       ELSE hw' = AfterTxCplt(hw) /\ pc' = "Error_Handler"
  /\ echoed' = Append(echoed, rxByte)
  /\ UNCHANGED <<isr, rxByte, arrived>>

OnConsoleError ==
  /\ Running /\ UsartErrorIrq
  /\ pc' = "Error_Handler"
  /\ UNCHANGED <<rxByte, arrived, echoed>>

Interrupt == OnConsoleRxComplete \/ OnConsoleTxComplete \/ OnConsoleError

-----------------------------------------------------------------------------
(* The line.                                                               *)

Arrival ==
  /\ Running /\ arrived + 1 \in Byte
  /\ ByteArrives(arrived + 1)
  /\ arrived' = arrived + 1
  /\ UNCHANGED <<pc, rxByte, echoed>>

DmaTransfer ==
  /\ Running /\ DmaMovesByte
  /\ rxByte' = hw.RDR
  /\ UNCHANGED <<pc, arrived, echoed>>

Next == main \/ Interrupt \/ Arrival \/ DmaTransfer

\* main runs when nothing interrupts it, interrupts are served and the DMA
\* channel is granted the bus.  Characters need not come.
Fairness == WF_vars(main) /\ WF_vars(Interrupt) /\ WF_vars(DmaTransfer)

Spec == Init /\ [][Next]_vars /\ Fairness

-----------------------------------------------------------------------------
(* Properties.                                                             *)

\* Every variable has its type.
TypeOK ==
  /\ DriverTypeOK
  /\ pc \in Location
  /\ rxByte \in Byte \cup {NoByte}
  /\ arrived \in Byte \cup {0}
  /\ echoed \in Seq(Byte)

\* rxByte has one owner: the receive channel never runs while the transmit
\* channel has still to read it.
BufferOwnership == ~(hw.DMAR /\ hw.txDma)

\* While the register has not overrun, every character that came is echoed, or
\* is on its way through exactly one of the data register and rxByte; none is
\* lost, repeated or overtaken.
NothingLost ==
  LET inRegister == IF hw.RDR = NoByte THEN <<>> ELSE <<hw.RDR>>
      inBuffer   == IF hw.TC \/ hw.txDma THEN <<rxByte>> ELSE <<>>
  IN  (Running /\ ~hw.ORE) => (echoed \o inBuffer \o inRegister = [i \in 1..arrived |-> i])

\* An overrun is all that ends the program in Error_Handler: no call made by a
\* callback is ever refused.
OnlyOverrunHalts == [][(Running /\ ~Running') => hw.ORE]_vars

\* Every character is echoed, in the end, unless the program halts.
EchoedOrHalted == \A b \in Byte : (arrived >= b) ~> (Len(echoed) >= b \/ ~Running)
=============================================================================
