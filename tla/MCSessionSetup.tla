--------------------------- MODULE MCSessionSetup ---------------------------
(***************************************************************************)
(* ServerSockets with two attempts: enough for every competition of        *)
(* SessionSetup, for a place in a backlog, for the session thread that     *)
(* waits in accept() and for port 20000, and for sockets of one session    *)
(* while another one ends.  Attempts are not declared symmetric, which     *)
(* would be unsound for the liveness property.                             *)
(***************************************************************************)
EXTENDS ServerSockets
=============================================================================
