---------------------------- MODULE JitterBuffer ----------------------------
(***************************************************************************)
(* The client's playout of one session: the coroutine that runs            *)
(* PlaybackManager.processQueue, the channel it reads and the coroutine of *)
(* AudioStreamTcpClient that fills the channel from UDP.                   *)
(*                                                                         *)
(* A frame is its sequence id.  Samples, concealment and cross-fade are    *)
(* in the module Concealment.  Time is counted in frames of 10 ms: lead is *)
(* the number of frames by which the playout position is ahead of the      *)
(* clock that was set when the playout last (re)started, so the deadline   *)
(* of the next frame has passed when lead is not positive.                 *)
(***************************************************************************)
EXTENDS Integers, Sequences, FiniteSets, Functions

CONSTANTS
    BufferTarget,     \* BUFFER_TARGET (8)
    LateWindow,       \* frames kept behind the playout position (10)
    MaxLosses,        \* losses in a row that stop the playout (5)
    ChannelCapacity,  \* capacity of the DROP_OLDEST channel (15)
    LastId,           \* bound: the server sends the ids 0 .. LastId
    Spread,           \* bound: datagrams in the network at one time
    MaxLag,           \* bound: frames the playout may fall behind the clock
    Duplicates        \* may the network deliver a datagram twice?

ASSUME JitterAssumption ==
    /\ BufferTarget \in Nat \ {0}
    /\ LateWindow \in Nat
    /\ LateWindow <= 2 * BufferTarget
    /\ MaxLosses \in Nat \ {0}
    /\ ChannelCapacity \in Nat \ {0}
    /\ LastId \in Nat /\ Spread \in Nat /\ MaxLag \in Nat
    /\ Duplicates \in BOOLEAN

Id == 0 .. LastId

VARIABLES
    sent,         \* number of frames the server has sent
    onWire,       \* datagrams in the network
    audioQueue,   \* the channel between receiver and player
    pc,           \* where the player's loop is
    buffer,       \* keys of the player's map
    expectedId, buffering, losses, lead,
    heard         \* history: frames written as received, not concealed

netVars    == <<sent, onWire>>
playerVars == <<buffer, expectedId, buffering, losses, lead, heard>>
vars == <<netVars, audioQueue, pc, playerVars>>

Steps == {"head", "drain", "fill", "prune", "resync", "clock", "ended"}

TypeOK ==
    /\ sent \in 0 .. LastId + 1
    /\ onWire \subseteq 0 .. sent - 1
    /\ audioQueue \in Seq(Id) /\ Len(audioQueue) <= ChannelCapacity
    /\ pc \in Steps
    /\ buffer \subseteq Id
    /\ expectedId \in Int
    /\ buffering \in BOOLEAN
    /\ losses \in 0 .. MaxLosses - 1
    /\ lead \in Int
    /\ heard \subseteq Id

Init ==
    /\ sent = 0 /\ onWire = {} /\ audioQueue = <<>>
    /\ pc = "head"
    /\ buffer = {} /\ expectedId = -1 /\ buffering = TRUE /\ losses = 0
    /\ lead = 0 /\ heard = {}

-----------------------------------------------------------------------------
(* The server, the network and the receiving coroutine.                    *)

\* One frame is sent.  A frame the network loses, or the decoder refuses, is
\* as one never put on the wire.
Send ==
    /\ sent <= LastId /\ Cardinality(onWire) < Spread
    /\ sent' = sent + 1
    /\ onWire' \in {onWire, onWire \union {sent}}
    /\ UNCHANGED <<audioQueue, pc, playerVars>>

\* Content of the channel after trySend(id): a full one loses its oldest.
Offered(id) ==
    IF Len(audioQueue) < ChannelCapacity THEN Append(audioQueue, id)
                                         ELSE Append(Tail(audioQueue), id)

\* A datagram arrives, in any order, and is decoded and offered.
Arrive ==
    \E id \in onWire :
        /\ audioQueue' = Offered(id)
        /\ \/ onWire' = onWire \ {id}
           \/ Duplicates /\ onWire' = onWire
        /\ UNCHANGED <<sent, pc, playerVars>>

\* 10 ms pass.  The clock is not looked at while buffering.
TimePasses ==
    /\ ~buffering /\ lead > -MaxLag
    /\ lead' = lead - 1
    /\ UNCHANGED <<netVars, audioQueue, pc, buffer, expectedId, buffering,
                   losses, heard>>

-----------------------------------------------------------------------------
(* PlaybackManager.processQueue                                            *)

\* while (isActive), also the end of delay(): a cancelled player stops.
LoopHead ==
    /\ pc = "head"
    /\ pc' \in {"drain", "ended"}
    /\ UNCHANGED <<audioQueue, playerVars>>

\* One tryReceive() that succeeds: buffer[chunk.sequenceId] = chunk.data.
Receive ==
    /\ pc = "drain" /\ audioQueue # <<>>
    /\ buffer' = buffer \union {Head(audioQueue)}
    /\ audioQueue' = Tail(audioQueue)
    /\ UNCHANGED <<pc, expectedId, buffering, losses, lead, heard>>

\* tryReceive() fails: the channel is empty.
Drained ==
    /\ pc = "drain" /\ audioQueue = <<>>
    /\ pc' = IF buffering THEN "fill" ELSE "prune"
    /\ UNCHANGED <<audioQueue, playerVars>>

\* Too few frames to start: delay(2) and look again.
KeepBuffering ==
    /\ pc = "fill" /\ Cardinality(buffer) < BufferTarget
    /\ pc' = "head"
    /\ UNCHANGED <<audioQueue, playerVars>>

\* Enough frames: start with the lowest id, and the clock with it.
StartPlayout ==
    /\ pc = "fill" /\ Cardinality(buffer) >= BufferTarget
    /\ \E minId \in buffer :
          /\ \A id \in buffer : minId <= id
          /\ expectedId' = minId
    /\ buffering' = FALSE /\ lead' = 0
    /\ pc' = "prune"
    /\ UNCHANGED <<audioQueue, buffer, losses, heard>>

\* Frames further behind the playout position than the window are removed.
Prune ==
    /\ pc = "prune"
    /\ buffer' = {id \in buffer : id >= expectedId - LateWindow}
    /\ pc' = "resync"
    /\ UNCHANGED <<audioQueue, expectedId, buffering, losses, lead, heard>>

Overfull == Cardinality(buffer) > 3 * BufferTarget

\* Mutated forms of Resync: it starts over at the oldest frame; the clock is
\* not set anew.
ResyncToOldest ==
    /\ pc = "resync" /\ Overfull
    /\ \E minId \in buffer :
          /\ \A id \in buffer : minId <= id
          /\ expectedId' = minId
    /\ lead' = 0
    /\ pc' = "clock"
    /\ UNCHANGED <<audioQueue, buffer, buffering, losses, heard>>

ResyncKeepsClock ==
    /\ pc = "resync" /\ Overfull
    /\ \E maxId \in buffer :
          /\ \A id \in buffer : id <= maxId
          /\ expectedId' = maxId - BufferTarget + 1
    /\ lead' = lead + (expectedId' - expectedId)
    /\ pc' = "clock"
    /\ UNCHANGED <<audioQueue, buffer, buffering, losses, heard>>

\* The buffer holds too much: jump to the last BufferTarget ids and set the
\* clock anew.
Resync ==
    /\ pc = "resync" /\ Overfull
    /\ \E maxId \in buffer :
          /\ \A id \in buffer : id <= maxId
          /\ expectedId' = maxId - BufferTarget + 1
    /\ lead' = 0
    /\ pc' = "clock"
    /\ UNCHANGED <<audioQueue, buffer, buffering, losses, heard>>

NoResync ==
    /\ pc = "resync" /\ ~Overfull
    /\ pc' = "clock"
    /\ UNCHANGED <<audioQueue, playerVars>>

\* The deadline of the next frame is in the future: delay() until then.
WaitForDeadline ==
    /\ pc = "clock" /\ lead > 0
    /\ pc' = "head"
    /\ UNCHANGED <<audioQueue, playerVars>>

\* The position is a loss when its frame or the one after it is missing: the
\* cross-fade needs both.
Lost == expectedId \notin buffer \/ expectedId + 1 \notin buffer

TooManyLosses == losses + 1 >= MaxLosses

\* buffer.remove(expectedId); ++expectedId
Advance ==
    /\ buffer' = buffer \ {expectedId}
    /\ expectedId' = expectedId + 1
    /\ lead' = lead + 1
    /\ pc' = "head"

\* Mutated form of Play: the played frame stays in the buffer.
PlayKeepsFrame ==
    /\ pc = "clock" /\ lead <= 0 /\ ~Lost
    /\ losses' = 0
    /\ heard' = heard \union {expectedId}
    /\ expectedId' = expectedId + 1
    /\ lead' = lead + 1
    /\ pc' = "head"
    /\ UNCHANGED <<audioQueue, buffer, buffering>>

\* The frame is played.
Play ==
    /\ pc = "clock" /\ lead <= 0 /\ ~Lost
    /\ losses' = 0
    /\ heard' = heard \union {expectedId}
    /\ Advance
    /\ UNCHANGED <<audioQueue, buffering>>

\* Mutated form of Conceal: a frame whose successor is missing stays.
ConcealKeepsFrame ==
    /\ pc = "clock" /\ lead <= 0 /\ Lost /\ ~TooManyLosses
    /\ losses' = losses + 1
    /\ expectedId' = expectedId + 1
    /\ lead' = lead + 1
    /\ pc' = "head"
    /\ UNCHANGED <<audioQueue, buffer, buffering, heard>>

\* A loss: play what the concealment network predicts.
Conceal ==
    /\ pc = "clock" /\ lead <= 0 /\ Lost /\ ~TooManyLosses
    /\ losses' = losses + 1
    /\ Advance
    /\ UNCHANGED <<audioQueue, buffering, heard>>

\* A loss, and the tensor for the network cannot be made: the exception leaves
\* processQueue.
ConcealFails ==
    /\ pc = "clock" /\ lead <= 0 /\ Lost /\ ~TooManyLosses
    /\ losses' = losses + 1
    /\ pc' = "ended"
    /\ UNCHANGED <<audioQueue, buffer, expectedId, buffering, lead, heard>>

\* Too many losses in a row: pause and rebuffer.  The buffer is kept.
Rebuffer ==
    /\ pc = "clock" /\ lead <= 0 /\ Lost /\ TooManyLosses
    /\ buffering' = TRUE
    /\ losses' = 0
    /\ pc' = "head"
    /\ UNCHANGED <<audioQueue, buffer, expectedId, lead, heard>>

Player ==
    /\ \/ LoopHead \/ Receive \/ Drained \/ KeepBuffering \/ StartPlayout
       \/ Prune \/ Resync \/ NoResync \/ WaitForDeadline
       \/ Play \/ Conceal \/ ConcealFails \/ Rebuffer
    /\ UNCHANGED netVars

\* The player was cancelled, or failed.
Ended == pc = "ended" /\ UNCHANGED vars

Next == Send \/ Arrive \/ TimePasses \/ Player \/ Ended

Spec == Init /\ [][Next]_vars

\* The dispatcher runs the coroutine and time passes; nothing is assumed of
\* the server and the network.
FairSpec == Spec /\ WF_vars(Player) /\ WF_vars(TimePasses)

-----------------------------------------------------------------------------
(* Properties                                                              *)

\* While the playout runs its position never moves back: not even when the
\* buffer overflows and the position is computed anew from the newest frame,
\* with up to LateWindow late frames counted in.  Only buffering again may
\* start at an earlier frame.
PlaysForward == [][~buffering => expectedId' >= expectedId]_vars

\* A jump leaves so few frames inside the window that the next pass does not
\* jump again, unless new frames have arrived.
ResyncSettles ==
    [][Resync => Cardinality({id \in buffer' : id >= expectedId' - LateWindow})
                    <= 3 * BufferTarget]_vars

\* Sound is never produced faster than real time: the position is at most
\* the one frame being played ahead of the clock, through jumps, losses and
\* restarts (an outdated start would stall the playout instead).
NeverAheadOfClock == ~buffering => lead <= 1

\* A frame that was heard is neither in the channel nor in the buffer, so no
\* frame is heard twice, whatever is late, lost or jumped over, as long as
\* the network itself does not duplicate a datagram.
HeardOnce ==
    ~Duplicates => heard \intersect (buffer \union Range(audioQueue)) = {}

\* When no more datagrams arrive, the player does not cycle for ever through
\* losses, rebuffering and restarts on what is left: it ends up silent,
\* waiting for a full buffer (or cancelled).
QuietAtTheEnd ==
    <>[][~Arrive]_vars =>
        <>[](pc = "ended" \/ (buffering /\ Cardinality(buffer) < BufferTarget))

=============================================================================
