------------------------------- MODULE Usart -------------------------------
(***************************************************************************)
(* USART1, its receive DMA channel, and the STM32 HAL functions that       *)
(* platform_uart_stm32u5.c calls.  None of this is in the repository (the  *)
(* HAL is an empty submodule): every operator is external and says what    *)
(* the driver relies on.  A HAL function maps the state h of peripheral    *)
(* and HAL handle to the state after the call.                             *)
(***************************************************************************)
EXTENDS Integers

CONSTANTS
  MaxLength,  \* longest transfer a caller may ask for (UINT16_MAX in the code)
  Byte        \* the characters the line can deliver, as positive numbers

ASSUME MaxLengthAssumption == MaxLength \in Nat \ {0}
ASSUME ByteAssumption == Byte \subseteq Nat \ {0}

NoByte == 0
Length == 1..MaxLength

(***************************************************************************)
(* gState and RxState belong to the HAL handle; gState is the transmit     *)
(* side and the lock of the whole handle, RxState the receive side.        *)
(* RTOEN, RTOIE, RTOF are the receiver timeout's enable, interrupt enable  *)
(* and flag; EIE and ORE the error interrupt enable and the overrun flag;  *)
(* RDR the receive data register.  DMAR says that the receive DMA runs,    *)
(* `remaining' is its counter, `size' the length it was started with, TC   *)
(* its transfer-complete flag.  `counting' says that a character has come  *)
(* since RTOEN was set and the silence after it is being timed; `txDma'    *)
(* that an asynchronous transmit has not been reported yet.                *)
(***************************************************************************)
HwState ==
  [gState    : {"RESET", "READY", "BUSY_TX"},
   RxState   : {"RESET", "READY", "BUSY_RX"},
   RTOEN     : BOOLEAN,
   RTOIE     : BOOLEAN,
   RTOF      : BOOLEAN,
   counting  : BOOLEAN,
   EIE       : BOOLEAN,
   ORE       : BOOLEAN,
   RDR       : Byte \cup {NoByte},
   DMAR      : BOOLEAN,
   TC        : BOOLEAN,
   remaining : 0..MaxLength,
   size      : 0..MaxLength,
   txDma     : BOOLEAN]

HwReset ==
  [gState |-> "RESET", RxState |-> "RESET",
   RTOEN |-> FALSE, RTOIE |-> FALSE, RTOF |-> FALSE, counting |-> FALSE,
   EIE |-> FALSE, ORE |-> FALSE, RDR |-> NoByte,
   DMAR |-> FALSE, TC |-> FALSE, remaining |-> 0, size |-> 0, txDma |-> FALSE]

-----------------------------------------------------------------------------
(* HAL functions.                                                          *)

\* Disabling the USART to configure it resets its status flags.
HAL_UART_Init(h) ==
  [h EXCEPT !.gState = "READY", !.RxState = "READY",
            !.RTOF = FALSE, !.counting = FALSE, !.ORE = FALSE, !.RDR = NoByte]

HAL_UART_DeInit(h) == [HwReset EXCEPT !.remaining = h.remaining, !.size = h.size]

\* Both refuse with HAL_BUSY while a transmit holds the handle.
HAL_UART_EnableReceiverTimeout(h) ==
  IF h.gState = "READY" THEN [h EXCEPT !.RTOEN = TRUE] ELSE h

HAL_UART_DisableReceiverTimeout(h) ==
  IF h.gState = "READY" THEN [h EXCEPT !.RTOEN = FALSE, !.counting = FALSE] ELSE h

\* The two halves of HAL_UART_Receive_DMA: the timeout interrupt is enabled
\* before the transfer is started, and only if RTOEN is set.
Receive_DMA_Arm(h) == IF h.RTOEN THEN [h EXCEPT !.RTOIE = TRUE] ELSE h

Receive_DMA_Start(h, n) ==
  [h EXCEPT !.RxState = "BUSY_RX", !.EIE = TRUE, !.DMAR = TRUE, !.TC = FALSE,
            !.remaining = n, !.size = n]

\* Stops the transfer and flushes RDR and the error flags; neither RTOEN nor
\* RTOIE is touched, and the DMA counter keeps its last value.
HAL_UART_AbortReceive(h) ==
  [h EXCEPT !.RxState = "READY", !.EIE = FALSE, !.DMAR = FALSE, !.TC = FALSE,
            !.ORE = FALSE, !.RDR = NoByte]

HAL_UART_AbortTransmit(h) == [h EXCEPT !.gState = "READY", !.txDma = FALSE]

\* What an abort can leave that gives up with HAL_TIMEOUT, because a DMA channel
\* has not stopped in time: the transfer, without its error interrupt, and the
\* transmit side busy.
AbortReceive_TimedOut(h) == IF h.DMAR THEN {[h EXCEPT !.EIE = FALSE]} ELSE {}

AbortTransmit_TimedOut(h) == IF h.txDma THEN {h} ELSE {}

\* HAL_UART_Abort stops the transmit channel first.
Abort_TimedOut(h) ==
  (IF h.txDma THEN {[h EXCEPT !.EIE = FALSE]} ELSE {})
    \cup (IF h.DMAR THEN {[h EXCEPT !.EIE = FALSE, !.txDma = FALSE]} ELSE {})

\* Blocking transmit and DMA transmit, once gState has been found READY.
Transmit_Start(h, dma) == [h EXCEPT !.gState = "BUSY_TX", !.txDma = dma]

\* HAL_UART_IRQHandler on an overrun or on a receiver timeout: both end the
\* reception and call HAL_UART_ErrorCallback.
HalErrorPending(h) == (h.ORE /\ h.EIE) \/ (h.RTOF /\ h.RTOIE)

HalEndRxOnError(h) ==
  [h EXCEPT !.RxState = "READY", !.EIE = FALSE, !.DMAR = FALSE, !.TC = FALSE,
            !.ORE = IF h.EIE THEN FALSE ELSE @, !.RTOF = IF h.RTOIE THEN FALSE ELSE @]

\* HAL_DMA_IRQHandler on a full buffer, up to HAL_UART_RxCpltCallback.
HalDmaRxComplete(h) ==
  [h EXCEPT !.RxState = "READY", !.EIE = FALSE, !.DMAR = FALSE, !.TC = FALSE]

-----------------------------------------------------------------------------
(* What the hardware does by itself.                                       *)

DmaRequest(h) == h.RDR # NoByte /\ h.DMAR /\ h.remaining > 0

ReceiveChar(h, b) ==
  IF h.RDR = NoByte
    THEN [h EXCEPT !.RDR = b, !.counting = h.RTOEN]
    ELSE [h EXCEPT !.ORE = TRUE, !.counting = h.RTOEN]

DmaStore(h) ==
  [h EXCEPT !.RDR = NoByte, !.remaining = @ - 1, !.TC = (h.remaining = 1)]

SilenceElapsed(h) == [h EXCEPT !.RTOF = TRUE, !.counting = FALSE]
=============================================================================
