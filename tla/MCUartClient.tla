---------------------------- MODULE MCUartClient ----------------------------
(* The callers that the runs check UartClient with. *)
EXTENDS UartClient

AllOps == OpNames

\* The fewest functions that show one thing.
UntilTimeoutOps == {"init", "until_timeout"}
PlainReceiveOps == {"init", "async"}
UntilTimeoutAbortOps == {"init", "until_timeout", "abort_receive"}
UntilTimeoutTransmitOps == {"init", "until_timeout", "async", "transmit_async"}
=============================================================================
