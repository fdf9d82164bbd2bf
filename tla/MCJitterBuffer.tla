--------------------------- MODULE MCJitterBuffer ---------------------------
(***************************************************************************)
(* JitterBuffer on small instances.  The deployed sizes are a target of 8  *)
(* frames, a late window of 10, 5 losses and a channel of 15.              *)
(***************************************************************************)
EXTENDS JitterBuffer
=============================================================================
