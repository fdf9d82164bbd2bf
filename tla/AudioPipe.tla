----------------------------- MODULE AudioPipe ------------------------------
(***************************************************************************)
(* What one streaming session promises about the sound it carries: a       *)
(* bounded first-in first-out pipe.  Captures enter it in the order the    *)
(* sound device makes them and reach the network service in that order,    *)
(* none twice and none left out, and at most Capacity of them are between  *)
(* the two ends.                                                           *)
(***************************************************************************)
EXTENDS Naturals, Sequences

CONSTANTS Capacity, StampMod

VARIABLES
    pipe,       \* captures taken and not yet sent
    nextStamp,  \* number of the next capture
    lastSent    \* number of the last capture sent

pipeVars == <<pipe, nextStamp, lastSent>>

Tick(n) == IF n = StampMod - 1 THEN 0 ELSE n + 1

Init == pipe = <<>> /\ lastSent = 0 /\ nextStamp = Tick(0)

Capture ==
    /\ Len(pipe) < Capacity
    /\ pipe' = Append(pipe, nextStamp)
    /\ nextStamp' = Tick(nextStamp)
    /\ UNCHANGED lastSent

Send ==
    /\ pipe # <<>>
    /\ lastSent' = Head(pipe)
    /\ pipe' = Tail(pipe)
    /\ UNCHANGED nextStamp

Next == Capture \/ Send

Spec == Init /\ [][Next]_pipeVars
=============================================================================
