--------------------------- MODULE PcmFramingProofs ---------------------------
(***************************************************************************)
(* The properties of PcmFraming for every frame size, chunk size and       *)
(* compaction threshold.  They rest on one inductive invariant: the        *)
(* position base + readPos of the next frame is untouched by a compaction, *)
(* and less than a frame is left whenever the loop has ended.              *)
(*                                                                         *)
(* Then those of WaveFile: it takes steps of PcmFraming only, and while    *)
(* offsets fit a long the recording is whole, because both sizes and the   *)
(* content are known at each of the writes of a chunk.                     *)
(***************************************************************************)
EXTENDS WaveFile, TLAPS

FramingInv ==
    /\ TypeOK
    /\ EverySampleOnce
    /\ FramesInOrder
    /\ BufferBounded
    /\ step = "compact" => size - readPos < FrameSize

\* Taking a frame moves the position and the count of frames together.
LEMMA OneFrameMore ==
    ASSUME NEW frame \in Nat, NEW count \in Nat
    PROVE  frame * (count + 1) = frame * count + frame
OBVIOUS

LEMMA FramingInit == Init => FramingInv
  <1> SUFFICES ASSUME Init PROVE FramingInv
    OBVIOUS
  <1>1. TypeOK /\ BufferBounded /\ (step = "compact" => size - readPos < FrameSize)
    BY FramingAssumption DEF Init, TypeOK, BufferBounded
  <1>2. EverySampleOnce
    BY FramingAssumption DEF Init, EverySampleOnce
  <1>3. FramesInOrder
    BY FramingAssumption DEF Init, FramesInOrder
  <1> QED
    BY <1>1, <1>2, <1>3 DEF FramingInv

LEMMA FramingStep == FramingInv /\ [Next]_vars => FramingInv'
  <1> SUFFICES ASSUME FramingInv, [Next]_vars PROVE FramingInv'
    OBVIOUS
  <1> USE FramingAssumption
  <1> USE DEF FramingInv
  <1>0. /\ base \in Nat /\ size \in Nat /\ readPos \in Nat
        /\ nextId \in Nat /\ failures \in Nat /\ sent \in Seq(Nat)
        /\ FrameSize \in Nat /\ MaxChunk \in Nat /\ CompactAbove \in Nat
        /\ FrameSize > 0
    BY DEF TypeOK
  <1>1. CASE Consume
    <2>1. PICK count \in 1 .. MaxChunk : size' = size + count
      BY <1>1 DEF Consume
    <2>2. /\ step = "idle" /\ step' = "encode"
          /\ UNCHANGED <<base, readPos, nextId, failures, sent>>
      BY <1>1 DEF Consume
    <2>3. TypeOK'
      BY <1>0, <2>1, <2>2 DEF TypeOK
    <2>4. EverySampleOnce' /\ FramesInOrder'
      BY <2>2 DEF EverySampleOnce, FramesInOrder
    <2>5. BufferBounded'
      BY <1>0, <2>1, <2>2 DEF BufferBounded
    <2> QED
      BY <2>2, <2>3, <2>4, <2>5
  <1>2. CASE SendFrame
    <2>1. /\ step = "encode" /\ step' = "encode"
          /\ size - readPos >= FrameSize
          /\ sent' = Append(sent, base + readPos)
          /\ nextId' = nextId + 1
          /\ readPos' = readPos + FrameSize
          /\ UNCHANGED <<base, size, failures>>
      BY <1>2 DEF SendFrame, HasFrame
    <2>2. TypeOK'
      BY <1>0, <2>1 DEF TypeOK
    <2>3. EverySampleOnce'
      <3>1. FrameSize * ((nextId + failures) + 1)
              = FrameSize * (nextId + failures) + FrameSize
        BY <1>0, OneFrameMore
      <3>2. nextId' + failures' = (nextId + failures) + 1
        BY <1>0, <2>1
      <3>3. base' + readPos' = (base + readPos) + FrameSize
        BY <1>0, <2>1
      <3> QED
        BY <3>1, <3>2, <3>3 DEF EverySampleOnce
    <2>4. FramesInOrder'
      <3>1. Len(sent') = Len(sent) + 1 /\ Len(sent) \in Nat
        BY <1>0, <2>1
      <3>2. \A i \in 1 .. Len(sent) : sent'[i] = sent[i]
        BY <1>0, <2>1
      <3>3. sent'[Len(sent) + 1] = base + readPos
        BY <1>0, <2>1
      <3>4. \A i \in 1 .. Len(sent) : sent[i] \in Nat
        BY <1>0
      <3>5. base' + readPos' = (base + readPos) + FrameSize
        BY <1>0, <2>1
      <3>6. Len(sent') = nextId'
        BY <2>1, <3>1 DEF FramesInOrder
      <3>7. ASSUME NEW i \in 1 .. Len(sent')
            PROVE  /\ sent'[i] + FrameSize <= base' + readPos'
                   /\ i > 1 => sent'[i - 1] + FrameSize <= sent'[i]
        <4>1. CASE i \in 1 .. Len(sent)
          <5>1. i > 1 => i - 1 \in 1 .. Len(sent)
            BY <3>1, <4>1
          <5>2. /\ sent[i] + FrameSize <= base + readPos
                /\ i > 1 => sent[i - 1] + FrameSize <= sent[i]
            BY <4>1 DEF FramesInOrder
          <5>3. sent'[i] = sent[i] /\ sent[i] \in Nat
            BY <3>2, <3>4, <4>1
          <5>4. i > 1 => sent'[i - 1] = sent[i - 1]
            BY <3>2, <5>1
          <5>5. sent'[i] + FrameSize <= base' + readPos'
            BY <1>0, <3>5, <5>2, <5>3
          <5> QED
            BY <5>2, <5>3, <5>4, <5>5
        <4>2. CASE i = Len(sent) + 1
          <5>1. i > 1 => i - 1 \in 1 .. Len(sent) /\ i - 1 = Len(sent)
            BY <3>1, <4>2
          <5>2. i > 1 => sent[i - 1] + FrameSize <= base + readPos
            BY <5>1 DEF FramesInOrder
          <5>3. sent'[i] = base + readPos
            BY <3>3, <4>2
          <5>4. i > 1 => sent'[i - 1] = sent[i - 1]
            BY <3>2, <5>1
          <5>5. sent'[i] + FrameSize <= base' + readPos'
            BY <1>0, <3>5, <5>3
          <5> QED
            BY <5>2, <5>3, <5>4, <5>5
        <4> QED
          BY <3>1, <4>1, <4>2
      <3> QED
        BY <3>6, <3>7 DEF FramesInOrder
    <2>5. BufferBounded'
      BY <1>0, <2>1 DEF BufferBounded
    <2> QED
      BY <2>1, <2>2, <2>3, <2>4, <2>5
  <1>3. CASE SkipFrame
    <2>1. /\ step = "encode" /\ step' = "encode"
          /\ size - readPos >= FrameSize
          /\ failures' = failures + 1
          /\ readPos' = readPos + FrameSize
          /\ UNCHANGED <<base, size, nextId, sent>>
      BY <1>3 DEF SkipFrame, HasFrame
    <2>2. TypeOK'
      BY <1>0, <2>1 DEF TypeOK
    <2>3. EverySampleOnce'
      <3>1. FrameSize * ((nextId + failures) + 1)
              = FrameSize * (nextId + failures) + FrameSize
        BY <1>0, OneFrameMore
      <3>2. nextId' + failures' = (nextId + failures) + 1
        BY <1>0, <2>1
      <3>3. base' + readPos' = (base + readPos) + FrameSize
        BY <1>0, <2>1
      <3> QED
        BY <3>1, <3>2, <3>3 DEF EverySampleOnce
    <2>4. FramesInOrder'
      <3>1. base' + readPos' = (base + readPos) + FrameSize
        BY <1>0, <2>1
      <3>2. /\ sent' = sent /\ nextId' = nextId
            /\ base \in Nat /\ readPos \in Nat /\ FrameSize \in Nat
        BY <1>0, <2>1
      <3>3. ASSUME NEW i \in 1 .. Len(sent)
            PROVE  /\ sent[i] + FrameSize <= base' + readPos'
                   /\ i > 1 => sent[i - 1] + FrameSize <= sent[i]
        <4>1. sent[i] \in Nat
          BY <1>0, <3>3
        <4>2. /\ sent[i] + FrameSize <= base + readPos
              /\ i > 1 => sent[i - 1] + FrameSize <= sent[i]
          BY <3>3 DEF FramesInOrder
        <4> QED
          BY <3>1, <3>2, <4>1, <4>2
      <3> QED
        BY <3>2, <3>3 DEF FramesInOrder
    <2>5. BufferBounded'
      BY <1>0, <2>1 DEF BufferBounded
    <2> QED
      BY <2>1, <2>2, <2>3, <2>4, <2>5
  <1>4. CASE Encoded
    <2>1. /\ step' = "compact" /\ size - readPos < FrameSize
          /\ UNCHANGED <<base, size, readPos, nextId, failures, sent>>
      BY <1>0, <1>4 DEF Encoded, HasFrame
    <2>2. TypeOK' /\ BufferBounded'
      BY <1>0, <2>1 DEF TypeOK, BufferBounded
    <2>3. EverySampleOnce' /\ FramesInOrder'
      BY <2>1 DEF EverySampleOnce, FramesInOrder
    <2> QED
      BY <2>1, <2>2, <2>3
  <1>5. CASE Compact
    <2>1. /\ step = "compact" /\ step' = "idle"
          /\ base' = base + readPos
          /\ size' = size - readPos
          /\ readPos' = 0
          /\ UNCHANGED <<nextId, failures, sent>>
      BY <1>5 DEF Compact
    <2>2. readPos <= size /\ size - readPos < FrameSize
      BY <2>1 DEF BufferBounded
    <2>3. TypeOK' /\ BufferBounded'
      BY <1>0, <2>1, <2>2 DEF TypeOK, BufferBounded
    <2>4. base' + readPos' = base + readPos
      BY <1>0, <2>1
    <2>5. EverySampleOnce' /\ FramesInOrder'
      BY <2>1, <2>4 DEF EverySampleOnce, FramesInOrder
    <2> QED
      BY <2>1, <2>3, <2>5
  <1>6. CASE Keep
    <2>1. /\ step = "compact" /\ step' = "idle" /\ readPos <= CompactAbove
          /\ UNCHANGED <<base, size, readPos, nextId, failures, sent>>
      BY <1>6 DEF Keep
    <2>2. TypeOK' /\ BufferBounded'
      BY <1>0, <2>1 DEF TypeOK, BufferBounded
    <2>3. EverySampleOnce' /\ FramesInOrder'
      BY <2>1 DEF EverySampleOnce, FramesInOrder
    <2> QED
      BY <2>1, <2>2, <2>3
  <1>7. CASE UNCHANGED vars
    BY <1>7 DEF vars, TypeOK, EverySampleOnce, FramesInOrder, BufferBounded
  <1> QED
    BY <1>1, <1>2, <1>3, <1>4, <1>5, <1>6, <1>7 DEF Next

LEMMA FramingAlways == Spec => []FramingInv
  BY FramingInit, FramingStep, PTL DEF Spec

\* The lengths of the buffer and the counters are natural numbers: the read
\* position never runs past the end, so size() - _readPos does not wrap.
THEOREM TypeCorrect == Spec => []TypeOK
  <1>1. FramingInv => TypeOK
    BY DEF FramingInv
  <1> QED
    BY <1>1, FramingAlways, PTL

\* Every sample captured ends in exactly one frame, for every size of frame
\* and chunk and every compaction threshold.
THEOREM SamplesOnce == Spec => []EverySampleOnce
  <1>1. FramingInv => EverySampleOnce
    BY DEF FramingInv
  <1> QED
    BY <1>1, FramingAlways, PTL

\* Frames are sent in the order of their sound and their ids have no gaps.
THEOREM OrderOfFrames == Spec => []FramesInOrder
  <1>1. FramingInv => FramesInOrder
    BY DEF FramingInv
  <1> QED
    BY <1>1, FramingAlways, PTL

\* The buffer never holds more than the threshold, a frame and a chunk.
THEOREM BufferStaysSmall == Spec => []BufferBounded
  <1>1. FramingInv => BufferBounded
    BY DEF FramingInv
  <1> QED
    BY <1>1, FramingAlways, PTL

-----------------------------------------------------------------------------
(* The two services                                                        *)

\* Whichever service the consumer was given, what happens to the frames is a
\* behaviour of PcmFraming, whose theorems hold of it.
THEOREM ServiceKeepsFraming == ServiceSpec => Spec
  <1>1. ServiceInit => Init
    BY DEF ServiceInit
  <1>2. [Streams \/ Records]_serviceVars => [Next]_vars
    BY DEF Streams, Records, serviceVars
  <1> QED
    BY <1>1, <1>2, PTL DEF ServiceSpec, Spec

\* The bytes consumed, by number.
Whole(n) == [i \in 1 .. n |-> i - 1]

\* What the header says at each of the writes of a chunk.
HeaderInv ==
    /\ total \in Nat /\ chunk \in Nat
    /\ phase \in {"unopened", "failed", "ready", "dataSize", "data", "closed"}
    /\ phase \in {"unopened", "failed"} => total = 0
    /\ phase \in {"dataSize", "data"} <=> chunk # 0
    /\ dataSize = IF phase = "data" THEN total + chunk ELSE total
    /\ phase \notin {"unopened", "failed"} => fileSize = HeaderSize + total + chunk

ContentInv == HeaderSize + total <= LongLimit => content = Whole(total)

LEMMA WaveInit == ServiceInit => HeaderInv /\ ContentInv
  <1> SUFFICES ASSUME ServiceInit PROVE HeaderInv /\ ContentInv
    OBVIOUS
  <1>1. HeaderInv
    BY DEF ServiceInit, HeaderInv
  <1>2. Whole(0) = <<>>
    BY DEF Whole
  <1> QED
    BY <1>1, <1>2 DEF ServiceInit, ContentInv

LEMMA HeaderStep == HeaderInv /\ [Streams \/ Records]_serviceVars => HeaderInv'
  <1> SUFFICES ASSUME HeaderInv, [Streams \/ Records]_serviceVars
               PROVE  HeaderInv'
    OBVIOUS
  <1> USE FramingAssumption, WaveAssumption DEF HeaderInv
  <1>1. CASE UNCHANGED fileVars
    BY <1>1 DEF fileVars
  <1>2. CASE OpenFile
    BY <1>2 DEF OpenFile
  <1>3. CASE WriteFileSize
    <2>1. PICK count \in 1 .. MaxChunk :
            chunk' = count /\ fileSize' = HeaderSize + total + count
      BY <1>3 DEF WriteFileSize
    <2>2. phase = "ready" /\ phase' = "dataSize"
          /\ UNCHANGED <<total, dataSize>>
      BY <1>3 DEF WriteFileSize
    <2> QED
      BY <2>1, <2>2
  <1>4. CASE WriteDataSize
    BY <1>4 DEF WriteDataSize
  <1>5. CASE WriteData
    BY <1>5 DEF WriteData
  <1>6. CASE CloseFile
    BY <1>6 DEF CloseFile
  <1> QED
    BY <1>1, <1>2, <1>3, <1>4, <1>5, <1>6 DEF Streams, Records, serviceVars

\* A chunk written behind the data continues it.
LEMMA WrittenBehind ==
    ASSUME total \in Nat, chunk \in Nat, content = Whole(total)
    PROVE  WrittenAt(total) = Whole(total + chunk)
  <1>1. Len(content) = total
    BY DEF Whole
  <1>2. (IF total + chunk > Len(content) THEN total + chunk ELSE Len(content))
          = total + chunk
    BY <1>1
  <1>3. WrittenAt(total)
          = [i \in 1 .. total + chunk |->
               IF i \in total + 1 .. total + chunk
               THEN total + i - 1 - total ELSE content[i]]
    BY <1>2 DEF WrittenAt
  <1>4. ASSUME NEW i \in 1 .. total + chunk
        PROVE  (IF i \in total + 1 .. total + chunk
                THEN total + i - 1 - total ELSE content[i]) = i - 1
    BY DEF Whole
  <1> QED
    BY <1>3, <1>4 DEF Whole

LEMMA ContentStep ==
    HeaderInv /\ ContentInv /\ [Streams \/ Records]_serviceVars => ContentInv'
  <1> SUFFICES ASSUME HeaderInv, ContentInv, [Streams \/ Records]_serviceVars
               PROVE  ContentInv'
    OBVIOUS
  <1>1. CASE UNCHANGED <<total, content>>
    BY <1>1 DEF ContentInv
  <1>2. CASE WriteData
    <2> SUFFICES ASSUME HeaderSize + total' <= LongLimit
                 PROVE  content' = Whole(total')
      BY DEF ContentInv
    <2>1. total \in Nat /\ chunk \in Nat \ {0} /\ total' = total + chunk
      BY <1>2 DEF HeaderInv, WriteData
    <2>2. HeaderSize + total < LongLimit
      BY <2>1, WaveAssumption
    <2>3. content' = WrittenAt(total)
      BY <1>2, <2>2 DEF WriteData
    <2>4. content = Whole(total)
      BY <2>1, <2>2, WaveAssumption DEF ContentInv
    <2> QED
      BY <2>1, <2>3, <2>4, WrittenBehind
  <1> QED
    BY <1>1, <1>2 DEF Streams, Records, serviceVars, fileVars, OpenFile,
       WriteFileSize, WriteDataSize, CloseFile

\* The recording holds every byte once and in order, and the header is at
\* most one chunk ahead of it, while offsets fit a long.
THEOREM WholeRecording == ServiceSpec => []RecordingIsWhole
  <1>1. ServiceSpec => [](HeaderInv /\ ContentInv)
    BY WaveInit, HeaderStep, ContentStep, PTL DEF ServiceSpec
  <1>2. HeaderInv /\ ContentInv => RecordingIsWhole
    BY WaveAssumption DEF HeaderInv, ContentInv, RecordingIsWhole, Whole
  <1> QED
    BY <1>1, <1>2, PTL

=============================================================================
