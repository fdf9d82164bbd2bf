----------------------------- MODULE MCConcealment -----------------------------
(* Concealment on a small instance; the bounds are in the .cfg file.       *)
EXTENDS Concealment
=============================================================================
