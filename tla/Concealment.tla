------------------------------ MODULE Concealment ------------------------------
(***************************************************************************)
(* What the sound of PlaybackManager adds to the playout of JitterBuffer.  *)
(* Every step of processStep makes two frames, from the frames received or *)
(* from the network that predicts them, and writes the first, cross-faded  *)
(* with the second of the step before, to the audio track; the device      *)
(* plays what the track holds.  The network sees the last frames written   *)
(* (contextBuffer).  A pause discards what the track has not played yet.   *)
(*                                                                         *)
(* The samples are left out: a piece of sound is where it comes from and   *)
(* which position it is for, and so is its loudness.                       *)
(***************************************************************************)
EXTENDS JitterBuffer

CONSTANTS
    ContextFrames,  \* frames in contextBuffer (6)
    TrackFrames     \* frames in the buffer of the audio track

ASSUME ConcealmentAssumption ==
    /\ ContextFrames \in Nat \ {0}
    /\ TrackFrames \in Nat \ {0}

VARIABLES
    olaBuffer,      \* the second frame of the last step
    contextBuffer,  \* the last frames, oldest first
    track,          \* positions written to the audio track and not yet played
    playing,        \* the track's play state
    spliced         \* history: olaBuffer is from before a jump

soundVars == <<olaBuffer, contextBuffer, track, playing, spliced>>
allVars   == <<vars, soundVars>>

Received(id)  == [from |-> "received", id |-> id]
Predicted(id) == [from |-> "network", id |-> id]
Silence       == [from |-> "nothing", id |-> -1]

Sound == [from : {"received", "network", "nothing"}, id : Int]

SoundTypeOK ==
    /\ TypeOK
    /\ olaBuffer \in Sound
    /\ contextBuffer \in [1 .. ContextFrames -> Sound]
    /\ track \in Seq(Int) /\ Len(track) <= TrackFrames
    /\ playing \in BOOLEAN
    /\ spliced \in BOOLEAN

NoContext == [i \in 1 .. ContextFrames |-> Silence]

\* initialize() has started the track.
SoundInit ==
    /\ Init
    /\ olaBuffer = Silence
    /\ contextBuffer = NoContext
    /\ track = <<>> /\ playing = TRUE
    /\ spliced = FALSE

-----------------------------------------------------------------------------
(* The player: processStep, playChunk and what is done with the track      *)

\* Mutated form of PushToContext: the buffer is shifted the other way.
PushToContextFront(frame) ==
    contextBuffer' = [i \in 1 .. ContextFrames |->
                         IF i = 1 THEN frame ELSE contextBuffer[i - 1]]

PushToContext(frame) ==
    contextBuffer' = [i \in 1 .. ContextFrames |->
                         IF i = ContextFrames THEN frame
                                              ELSE contextBuffer[i + 1]]

\* The frame of the position and the one after it.
Blend(current, next) ==
    /\ PushToContext(current)
    /\ olaBuffer' = next
    /\ spliced' = FALSE

\* playChunk(): write() waits for room in the track, or returns an error.
PlayChunk ==
    /\ \/ Len(track) < TrackFrames /\ track' = Append(track, expectedId)
       \/ track' = track
    /\ playing' = playing

PlaySound ==
    /\ Play
    /\ Blend(Received(expectedId), Received(expectedId + 1))
    /\ PlayChunk

\* The network predicts both frames; when it throws, they are left zero.
ConcealSound ==
    /\ Conceal
    /\ \/ Blend(Predicted(expectedId), Predicted(expectedId + 1))
       \/ Blend(Silence, Silence)
    /\ PlayChunk

\* audioTrack.play()
StartSound ==
    /\ StartPlayout
    /\ playing' = TRUE
    /\ UNCHANGED <<olaBuffer, contextBuffer, track, spliced>>

\* Mutated forms of RebufferSound: what was to be faded out is kept; the
\* track is paused and not flushed.
RebufferSoundKeeps ==
    /\ Rebuffer
    /\ playing' = FALSE /\ track' = <<>>
    /\ contextBuffer' = NoContext
    /\ UNCHANGED <<olaBuffer, spliced>>

RebufferNoFlush ==
    /\ Rebuffer
    /\ playing' = FALSE
    /\ olaBuffer' = Silence
    /\ contextBuffer' = NoContext /\ spliced' = FALSE
    /\ UNCHANGED track

\* audioTrack.pause() and flush(), and both buffers are cleared.
RebufferSound ==
    /\ Rebuffer
    /\ playing' = FALSE /\ track' = <<>>
    /\ olaBuffer' = Silence
    /\ contextBuffer' = NoContext /\ spliced' = FALSE

\* A jump leaves both buffers as they are: the next frame is cross-faded
\* with the place the playout was at.
ResyncSound ==
    /\ Resync
    /\ spliced' = (spliced \/ (olaBuffer # Silence /\ expectedId' # expectedId))
    /\ UNCHANGED <<olaBuffer, contextBuffer, track, playing>>

OtherSteps ==
    /\ \/ LoopHead \/ Receive \/ Drained \/ KeepBuffering
       \/ Prune \/ NoResync \/ WaitForDeadline \/ ConcealFails
    /\ UNCHANGED soundVars

SoundPlayer ==
    /\ \/ OtherSteps \/ StartSound \/ PlaySound \/ ConcealSound
       \/ RebufferSound \/ ResyncSound
    /\ UNCHANGED netVars

\* The device has played a frame of the track.
TrackPlays ==
    /\ playing /\ track # <<>>
    /\ track' = Tail(track)
    /\ UNCHANGED <<vars, olaBuffer, contextBuffer, playing, spliced>>

SoundNext ==
    \/ SoundPlayer
    \/ TrackPlays
    \/ (Send \/ Arrive \/ TimePasses \/ Ended) /\ UNCHANGED soundVars

SoundSpec == SoundInit /\ [][SoundNext]_allVars

-----------------------------------------------------------------------------
(* Properties                                                              *)

\* Only a jump joins sound of two places: otherwise the two halves of every
\* frame that is written belong to the same position, through losses,
\* restarts at an earlier or later frame, and what the window sums to is
\* the frame itself.
HalvesMeet ==
    buffering \/ spliced \/ olaBuffer = Silence \/ olaBuffer.id = expectedId

\* The network is shown what was played, in the order it was played, and
\* nothing from before a pause: the restart may be at an earlier frame.
ContextInOrder ==
    \A i, j \in 1 .. ContextFrames :
        (/\ i < j
         /\ contextBuffer[i] # Silence /\ contextBuffer[j] # Silence) =>
            contextBuffer[i].id < contextBuffer[j].id

\* The device plays forward between two pauses: what waits in the track is
\* in the order of the positions, although the restart after a pause may be
\* at an earlier frame than what the track held when it was paused.
TrackInOrder ==
    \A i, j \in 1 .. Len(track) : i < j => track[i] < track[j]

=============================================================================
