----------------------------- MODULE CaptureChain -----------------------------
(***************************************************************************)
(* How a chunk is filled: the capture thread waits for the event of the    *)
(* sound device and calls collectSound() on the chain of recorders that    *)
(* WASAPIAudioSharedModeRecorderDirector::create() built.  The device's    *)
(* recorder reads whole packets, MonoDownmixAudioRecorderDecorator makes   *)
(* one channel of two, ResamplingAudioRecorderDecorator changes the rate.  *)
(* Each decorator asks the recorder under it for as many bytes as its own  *)
(* temporary buffer holds.                                                 *)
(*                                                                         *)
(* Packets are numbers of frames; the sound itself is left out.  The       *)
(* device's format is whatever GetMixFormat() answers: the downmix refuses *)
(* samples that are not of 32 bits, the resampler takes every sample for a *)
(* float, the device's recorder only counts bytes.                         *)
(***************************************************************************)
EXTENDS Integers, Sequences

CONSTANTS
    Capacity,    \* bytes of a chunk (960 * 8)
    SampleBytes, \* wBitsPerSample / 8
    Channels,    \* nChannels of the device
    InRate,      \* nSamplesPerSec of the device
    OutRate,     \* targetSr
    Margin,      \* frames the resampler asks for beyond its need (10)
    Packets,     \* sizes of the device's packets, in frames
    MaxWaiting,  \* packets the device keeps
    MaxHeld      \* bound: sound inside the resampler, in 1/(InRate*OutRate) s

ASSUME CaptureAssumption ==
    /\ Capacity \in Nat /\ Margin \in Nat
    /\ SampleBytes \in Nat \ {0} /\ Channels \in Nat \ {0}
    /\ InRate \in Nat \ {0} /\ OutRate \in Nat \ {0}
    /\ Packets \subseteq Nat \ {0}
    /\ MaxWaiting \in Nat /\ MaxHeld \in Nat

VARIABLES
    waiting,   \* packets the device holds, oldest first
    signalled, \* the auto-reset event of the device
    step,      \* where collectSound() is; "idle" between two calls
    got,       \* framesProcessed, of the device's recorder
    held,      \* sound taken in and not yet put out by the resampler
    byteCount, \* what collectSound() reported last
    written    \* bytes it wrote into the chunk

vars == <<waiting, signalled, step, got, held, byteCount, written>>

TypeOK ==
    /\ waiting \in Seq(Packets) /\ Len(waiting) <= MaxWaiting
    /\ signalled \in BOOLEAN
    /\ step \in {"idle", "read", "convert", "returned", "thrown"}
    /\ got \in Nat /\ held \in Nat /\ byteCount \in Nat /\ written \in Nat

-----------------------------------------------------------------------------
(* The chain                                                               *)

Mono       == Channels = 2
Resampled  == InRate # OutRate

FloatBytes == 4

\* "MonoDownmix expects 32-bit float stereo input."
Refused == Mono /\ SampleBytes # FloatBytes

TargetChannels == IF Mono THEN 1 ELSE Channels

DeviceAlign == SampleBytes * Channels
TargetAlign == SampleBytes * TargetChannels

\* What soxr takes for a frame: it is given no sample type, so floats.
SoxrAlign == FloatBytes * TargetChannels

\* ceil(n * InRate / OutRate)
InputFor(n) == (n * InRate + OutRate - 1) \div OutRate

\* Frames that fit in the chunk.
TargetCapacity == Capacity \div TargetAlign

\* The resampler's temporary buffer, or the chunk if there is no resampler.
ResamplerBytes ==
    IF Resampled THEN (InputFor(TargetCapacity) + Margin) * TargetAlign
                 ELSE Capacity

\* Mutated form of DeviceBytes: one channel's worth is asked for.
DeviceBytesOfMono == ResamplerBytes

\* The downmix's temporary buffer, or what is above it if there is none.
DeviceBytes == IF Mono THEN ResamplerBytes * 2 ELSE ResamplerBytes

FrameLimit == DeviceBytes \div DeviceAlign

\* The chain is built, unless a constructor throws.
Init ==
    /\ waiting = <<>> /\ signalled = FALSE
    /\ step = IF Refused THEN "thrown" ELSE "idle"
    /\ got = 0 /\ held = 0 /\ byteCount = 0 /\ written = 0

-----------------------------------------------------------------------------
(* The device                                                              *)

\* A packet is ready, or lost when the device's buffer is full; either way
\* the event is set.
Packet ==
    /\ waiting' \in {Append(waiting, n) : n \in Packets} \union {waiting}
    /\ waiting' = waiting => Len(waiting) = MaxWaiting
    /\ Len(waiting') <= MaxWaiting
    /\ signalled' = TRUE
    /\ UNCHANGED <<step, got, held, byteCount, written>>

-----------------------------------------------------------------------------
(* collectSound(), from the wait for the event to its return               *)

\* WaitForSingleObject() resets the event; the call begins.
Begin ==
    /\ step = "idle" /\ signalled
    /\ signalled' = FALSE
    /\ got' = 0 /\ byteCount' = 0 /\ written' = 0
    /\ step' = "read"
    /\ UNCHANGED <<waiting, held>>

\* Mutated form of Fits: a packet is taken when there is any room.
FitsSomehow == got < FrameLimit /\ waiting # <<>>

\* while (framesProcessed < frameLimit && packetLength != 0), and the packet
\* has room.
Fits ==
    /\ got < FrameLimit /\ waiting # <<>>
    /\ got + Head(waiting) <= FrameLimit

\* GetBuffer, the copy, ReleaseBuffer, GetNextPacketSize.
TakePacket ==
    /\ step = "read" /\ Fits
    /\ got' = got + Head(waiting)
    /\ waiting' = Tail(waiting)
    /\ UNCHANGED <<signalled, step, held, byteCount, written>>

\* The loop ends: full, nothing left, the next packet has no room; or the
\* device answers with an empty packet.
StopReading ==
    /\ step = "read" /\ (~Fits \/ waiting # <<>>)
    /\ step' = "convert"
    /\ UNCHANGED <<waiting, signalled, got, held, byteCount, written>>

\* A call of the device fails: ChunkRecordingFailure; or soxr_process() does.
Throw ==
    /\ step = "read" \/ (step = "convert" /\ got > 0 /\ Resampled)
    /\ step' = "thrown"
    /\ UNCHANGED <<waiting, signalled, got, held, byteCount, written>>

\* Nothing was read, or there is no resampler: the decorators pass on what
\* they got, the downmix a frame for a frame.
PassOn ==
    /\ step = "convert" /\ (got = 0 \/ ~Resampled)
    /\ byteCount' = got * TargetAlign /\ written' = byteCount'
    /\ step' = "returned"
    /\ UNCHANGED <<waiting, signalled, got, held>>

\* soxr_process() takes frames and puts out as many as it can, at most what
\* the chunk holds, and may keep some for later.  Unless the chunk is full it
\* takes them all; what it did not take is lost.
Resample ==
    /\ step = "convert" /\ got > 0 /\ Resampled
    /\ \E taken \in 0 .. got, done \in 0 .. TargetCapacity :
          /\ done < TargetCapacity => taken = got
          /\ held' = held + taken * OutRate - done * InRate
          /\ held' \in 0 .. MaxHeld
          /\ byteCount' = done * TargetAlign
          /\ written' = done * SoxrAlign
    /\ step' = "returned"
    /\ UNCHANGED <<waiting, signalled, got>>

\* The capture thread takes the chunk and waits for the event again.
Return ==
    /\ step = "returned"
    /\ step' = "idle"
    /\ UNCHANGED <<waiting, signalled, got, held, byteCount, written>>

Collect == Begin \/ TakePacket \/ StopReading \/ PassOn \/ Resample \/ Return

Next == Packet \/ Collect \/ Throw

Spec == Init /\ [][Next]_vars

\* The capture thread runs; a device whose packet is there hands it out.
FairSpec ==
    /\ Spec
    /\ WF_vars(Collect)
    /\ SF_vars(TakePacket)

-----------------------------------------------------------------------------
(* Properties                                                              *)

\* "in any case it can't overflow a destBuffer": no buffer of the chain is
\* written or read past its end, neither the temporary ones nor the chunk.
NeverOverflows ==
    /\ got * DeviceAlign <= DeviceBytes
    /\ got * TargetAlign <= ResamplerBytes
    /\ Resampled => got * SoxrAlign <= ResamplerBytes
    /\ written <= Capacity /\ byteCount <= Capacity

\* As long as the device brings sound, packets are taken from it, unless the
\* next one is larger than a whole chunk ("One packet is larger than the
\* entire buffer"): that one is never read, nor anything behind it.
SoundKeepsFlowing ==
    []<><<Packet>>_vars =>
        \/ []<><<TakePacket>>_vars
        \/ <>(step = "thrown")
        \/ <>[](waiting # <<>> /\ Head(waiting) > InputFor(TargetCapacity))

=============================================================================
