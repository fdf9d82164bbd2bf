-------------------------- MODULE MCRecorderLifetime --------------------------
(* Instances of RecorderLifetime for TLC; the bounds are in the .cfg file. *)
EXTENDS RecorderLifetime
=============================================================================
