------------------------------ MODULE PcmFraming ------------------------------
(***************************************************************************)
(* How the sender turns chunks of captured sound into datagrams:           *)
(* StreamingService::consumeNewData.  The bytes of a chunk are appended to *)
(* _pcmBuffer; as long as it holds a frame of 10 ms, the frame is encoded  *)
(* and sent with the next id.                                              *)
(*                                                                         *)
(* Lengths are in samples of all channels (nBlockAlign bytes).  Samples    *)
(* are numbered as they are consumed, so the buffer is an interval of      *)
(* numbers: base is the number of its first sample.  What Opus makes of a  *)
(* frame is left out, except that it may fail; so is the datagram, but for *)
(* its id, its payload's size and the first sample of its frame.           *)
(***************************************************************************)
EXTENDS Integers, Sequences

CONSTANTS
    FrameSize,    \* samples in 10 ms: nSamplesPerSec / 100
    MaxChunk,     \* samples a chunk can hold
    CompactAbove, \* _readPos above which the buffer is compacted (10000 bytes)
    MaxTotal      \* bound: samples captured in a behaviour

ASSUME FramingAssumption ==
    /\ FrameSize \in Nat \ {0}
    /\ MaxChunk \in Nat \ {0}
    /\ CompactAbove \in Nat
    /\ MaxTotal \in Nat

VARIABLES
    step,      \* where consumeNewData is; "idle" between two calls
    base,      \* number of the sample at _pcmBuffer[0]
    size,      \* _pcmBuffer.size()
    readPos,   \* _readPos
    nextId,    \* _id
    failures,  \* history: frames the encoder refused
    sent       \* history: the first samples of the frames sent, by id

vars == <<step, base, size, readPos, nextId, failures, sent>>

TypeOK ==
    /\ step \in {"idle", "encode", "compact"}
    /\ base \in Nat /\ size \in Nat /\ readPos \in Nat
    /\ nextId \in Nat /\ failures \in Nat
    /\ sent \in Seq(Nat)

Init ==
    /\ step = "idle"
    /\ base = 0 /\ size = 0 /\ readPos = 0
    /\ nextId = 0 /\ failures = 0 /\ sent = <<>>

\* consumeNewData(data, bytesCount): the chunk is appended.
Consume ==
    /\ step = "idle"
    /\ \E count \in 1 .. MaxChunk :
          /\ base + size + count <= MaxTotal
          /\ size' = size + count
    /\ step' = "encode"
    /\ UNCHANGED <<base, readPos, nextId, failures, sent>>

HasFrame == size - readPos >= FrameSize

\* Mutated form of SendFrame: a byte of the frame is left for the next one.
SendFrameShort ==
    /\ step = "encode" /\ HasFrame
    /\ sent' = Append(sent, base + readPos)
    /\ nextId' = nextId + 1
    /\ readPos' = readPos + FrameSize - 1
    /\ UNCHANGED <<step, base, size, failures>>

\* The frame is encoded and sent with the next id.
SendFrame ==
    /\ step = "encode" /\ HasFrame
    /\ sent' = Append(sent, base + readPos)
    /\ nextId' = nextId + 1
    /\ readPos' = readPos + FrameSize
    /\ UNCHANGED <<step, base, size, failures>>

\* The encoder refuses the frame: it is skipped and takes no id.
SkipFrame ==
    /\ step = "encode" /\ HasFrame
    /\ failures' = failures + 1
    /\ readPos' = readPos + FrameSize
    /\ UNCHANGED <<step, base, size, nextId, sent>>

\* Less than a frame is left.
Encoded ==
    /\ step = "encode" /\ ~HasFrame
    /\ step' = "compact"
    /\ UNCHANGED <<base, size, readPos, nextId, failures, sent>>

\* Mutated form of Compact: one sample too many is erased.
CompactOneMore ==
    /\ step = "compact"
    /\ readPos = size \/ readPos > CompactAbove
    /\ base' = base + readPos + 1
    /\ size' = size - readPos - 1
    /\ readPos' = 0
    /\ step' = "idle"
    /\ UNCHANGED <<nextId, failures, sent>>

\* clear() when all was read, erase() of what was read when it is much:
\* either removes the samples before the read position.
Compact ==
    /\ step = "compact"
    /\ readPos = size \/ readPos > CompactAbove
    /\ base' = base + readPos
    /\ size' = size - readPos
    /\ readPos' = 0
    /\ step' = "idle"
    /\ UNCHANGED <<nextId, failures, sent>>

\* Mutated form of Keep: a read position of any size is kept.
KeepAlways ==
    /\ step = "compact" /\ readPos # size
    /\ step' = "idle"
    /\ UNCHANGED <<base, size, readPos, nextId, failures, sent>>

Keep ==
    /\ step = "compact" /\ readPos # size /\ readPos <= CompactAbove
    /\ step' = "idle"
    /\ UNCHANGED <<base, size, readPos, nextId, failures, sent>>

Next == Consume \/ SendFrame \/ SkipFrame \/ Encoded \/ Compact \/ Keep

Spec == Init /\ [][Next]_vars

-----------------------------------------------------------------------------
(* Properties                                                              *)

\* Every sample is in exactly one frame: the samples before the read position
\* are those of the frames sent and refused, without gap or overlap, through
\* all compactions of the buffer.
EverySampleOnce == base + readPos = FrameSize * (nextId + failures)

\* Frames go out in the order of their sound, a whole number of frames apart,
\* and the ids count the frames sent: a refused frame leaves no gap in the ids
\* and the client, which finds losses by gaps, does not see it.
FramesInOrder ==
    /\ Len(sent) = nextId
    /\ \A i \in 1 .. Len(sent) :
          /\ sent[i] + FrameSize <= base + readPos
          /\ i > 1 => sent[i - 1] + FrameSize <= sent[i]

\* Between two calls less than a frame waits, and the buffer does not grow:
\* neither with the length of the session nor with frames that never end at
\* the end of a chunk.
BufferBounded ==
    /\ step = "idle" => size - readPos < FrameSize /\ readPos <= CompactAbove
    /\ readPos <= size
    /\ size < CompactAbove + FrameSize + MaxChunk

=============================================================================
