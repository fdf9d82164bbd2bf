-------------------------- MODULE MCStreamPipeline --------------------------
(***************************************************************************)
(* StreamPipeline on small instances.  The deployed sizes are 256 chunks   *)
(* and 1024 slots; what the properties tell apart is only whether the pool *)
(* fits into the queue, so two or three chunks and as many slots do.       *)
(* StampMod exceeds the number of chunks, so a skipped or repeated capture *)
(* is never mistaken for the next one.                                     *)
(***************************************************************************)
EXTENDS StreamPipeline

\* consumeNewData() of both services returns OK or throws.
ServiceReturnCodes == {"OK"}

\* What the interface IConsumerService would also allow.
AnyReturnCodes == {"OK", "ERROR"}
=============================================================================
