-------------------------- MODULE CaptureChainProofs --------------------------
(***************************************************************************)
(* The memory safety of the recorder chain for every format of the device  *)
(* the chain can handle, every chunk size, target rate and packet size.    *)
(* The invariant is the limit the device's recorder computes: it has read  *)
(* at most FrameLimit frames; the sizes of the buffers follow from it by   *)
(* arithmetic.                                                             *)
(*                                                                         *)
(* What the code does not check is that a device of one channel, or of     *)
(* more than two, has float samples when a resampler follows: the mix      *)
(* format of Windows has, and the theorem assumes it.                      *)
(***************************************************************************)
EXTENDS CaptureChain, TLAPS

\* Dividing and multiplying back never gives more.
LEMMA DivBound ==
    ASSUME NEW b \in Nat, NEW d \in Nat \ {0}
    PROVE  b \div d \in Nat /\ (b \div d) * d <= b
BY SMTT(30)

LEMMA MulMonotone ==
    ASSUME NEW a \in Nat, NEW b \in Nat, NEW d \in Nat, a <= b
    PROVE  a * d \in Nat /\ b * d \in Nat /\ a * d <= b * d
BY SMTT(30)

\* A product of sizes is a size.
LEMMA MulNat ==
    ASSUME NEW a \in Nat, NEW b \in Nat
    PROVE  a * b \in Nat
BY SMTT(30)

\* The buffers of the chain fit one another: what the device may read fits
\* the temporary buffers, and the chunk if there is no resampler.
LEMMA ChainFits ==
    /\ TargetAlign \in Nat \ {0} /\ TargetCapacity \in Nat
    /\ ResamplerBytes \in Nat /\ DeviceBytes \in Nat /\ FrameLimit \in Nat
    /\ DeviceAlign \in Nat \ {0}
    /\ TargetCapacity * TargetAlign <= Capacity
    /\ FrameLimit * DeviceAlign <= DeviceBytes
    /\ FrameLimit * TargetAlign <= ResamplerBytes
  <1> USE CaptureAssumption
  <1>1. DeviceAlign \in Nat \ {0}
    <2>1. ASSUME NEW a \in Nat \ {0}, NEW b \in Nat \ {0}
          PROVE  a * b \in Nat \ {0}
      BY <2>1, SMTT(30)
    <2> QED
      BY <2>1 DEF DeviceAlign
  <1>2. TargetAlign \in Nat \ {0}
    BY <1>1, SMTT(30) DEF TargetAlign, TargetChannels, DeviceAlign
  <1>3. TargetCapacity \in Nat /\ TargetCapacity * TargetAlign <= Capacity
    BY <1>2, DivBound DEF TargetCapacity
  <1>4. InputFor(TargetCapacity) \in Nat
    <2>1. TargetCapacity * InRate \in Nat
      BY <1>3, MulNat
    <2>2. TargetCapacity * InRate + OutRate - 1 \in Nat
      BY <2>1
    <2> QED
      BY <2>2, DivBound DEF InputFor
  <1>5. ResamplerBytes \in Nat
    <2>1. (InputFor(TargetCapacity) + Margin) * TargetAlign \in Nat
      BY <1>2, <1>4, MulNat
    <2> QED
      BY <2>1 DEF ResamplerBytes
  <1>6. DeviceBytes \in Nat
    BY <1>5 DEF DeviceBytes
  <1>7. FrameLimit \in Nat /\ FrameLimit * DeviceAlign <= DeviceBytes
    BY <1>1, <1>6, DivBound DEF FrameLimit
  <1>8. FrameLimit * TargetAlign <= ResamplerBytes
    <2>1. CASE Mono
      <3>1. DeviceAlign = 2 * TargetAlign /\ DeviceBytes = 2 * ResamplerBytes
        BY <1>5, <2>1 DEF Mono, DeviceAlign, TargetAlign, TargetChannels,
                          DeviceBytes
      <3>2. FrameLimit * (2 * TargetAlign) <= 2 * ResamplerBytes
        BY <1>7, <3>1
      <3>3. FrameLimit * (2 * TargetAlign) = 2 * (FrameLimit * TargetAlign)
        <4>1. ASSUME NEW f \in Nat, NEW t \in Nat
              PROVE  f * (2 * t) = 2 * (f * t)
          BY <4>1, SMTT(30)
        <4> QED
          BY <1>2, <1>7, <4>1
      <3>4. FrameLimit * TargetAlign \in Nat
        BY <1>2, <1>7, MulNat
      <3> QED
        BY <1>5, <3>2, <3>3, <3>4
    <2>2. CASE ~Mono
      BY <1>7, <2>2 DEF TargetAlign, TargetChannels, DeviceAlign, DeviceBytes
    <2> QED
      BY <2>1, <2>2
  <1> QED
    BY <1>1, <1>2, <1>3, <1>5, <1>6, <1>7, <1>8

CaptureInv ==
    /\ TypeOK
    /\ got <= FrameLimit
    /\ byteCount <= Capacity /\ written <= Capacity
    /\ Refused => step = "thrown" /\ got = 0

\* Whenever the resampler may run, it is right about the samples.
FloatsResampled == SampleBytes = FloatBytes \/ Mono \/ ~Resampled

LEMMA FloatsAreFloats ==
    ASSUME FloatsResampled, Resampled, ~Refused
    PROVE  SoxrAlign = TargetAlign
BY DEF FloatsResampled, Refused, SoxrAlign, TargetAlign

\* Frames within the limit fit every buffer.
LEMMA WithinLimit ==
    ASSUME CaptureInv, FloatsResampled
    PROVE  NeverOverflows
  <1>1. got * DeviceAlign <= FrameLimit * DeviceAlign
    BY ChainFits, MulMonotone DEF CaptureInv, TypeOK
  <1>2. got * TargetAlign <= FrameLimit * TargetAlign
    BY ChainFits, MulMonotone DEF CaptureInv, TypeOK
  <1>3. /\ got * DeviceAlign \in Nat /\ FrameLimit * DeviceAlign \in Nat
        /\ got * TargetAlign \in Nat /\ FrameLimit * TargetAlign \in Nat
    BY ChainFits, MulNat DEF CaptureInv, TypeOK
  <1>4. Resampled => got * SoxrAlign <= ResamplerBytes
    <2>1. CASE Refused
      <3>1. SoxrAlign \in Nat
        BY CaptureAssumption, MulNat DEF SoxrAlign, FloatBytes, TargetChannels
      <3>2. 0 * SoxrAlign = 0
        BY <3>1
      <3> QED
        BY <2>1, <3>2, ChainFits DEF CaptureInv
    <2>2. CASE ~Refused
      BY <1>2, <1>3, <2>2, FloatsAreFloats, ChainFits
    <2> QED
      BY <2>1, <2>2
  <1> QED
    BY <1>1, <1>2, <1>3, <1>4, ChainFits DEF NeverOverflows, CaptureInv

LEMMA CaptureInit == Init => CaptureInv
  <1> SUFFICES ASSUME Init PROVE CaptureInv
    OBVIOUS
  <1>1. <<>> \in Seq(Packets) /\ Len(<<>>) = 0
    OBVIOUS
  <1>2. FrameLimit \in Nat /\ Capacity \in Nat /\ MaxWaiting \in Nat
    BY ChainFits, CaptureAssumption
  <1>3. waiting = <<>> /\ signalled = FALSE
        /\ step = (IF Refused THEN "thrown" ELSE "idle")
        /\ got = 0 /\ held = 0 /\ byteCount = 0 /\ written = 0
    BY DEF Init
  <1>4. waiting \in Seq(Packets) /\ Len(waiting) <= MaxWaiting
    BY <1>1, <1>2, <1>3
  <1>5. TypeOK
    BY <1>3, <1>4 DEF TypeOK
  <1> QED
    BY <1>2, <1>3, <1>5 DEF CaptureInv

LEMMA CaptureStep ==
    ASSUME FloatsResampled, CaptureInv, [Next]_vars
    PROVE  CaptureInv'
  <1>0. /\ waiting \in Seq(Packets) /\ Len(waiting) <= MaxWaiting
        /\ signalled \in BOOLEAN
        /\ step \in {"idle", "read", "convert", "returned", "thrown"}
        /\ got \in Nat /\ held \in Nat /\ byteCount \in Nat /\ written \in Nat
        /\ got <= FrameLimit /\ byteCount <= Capacity /\ written <= Capacity
        /\ Refused => step = "thrown" /\ got = 0
        /\ FrameLimit \in Nat /\ Capacity \in Nat
    BY ChainFits, CaptureAssumption DEF CaptureInv, TypeOK
  <1>1. CASE Packet
    <2>1. /\ Len(waiting') <= MaxWaiting /\ signalled' = TRUE
          /\ UNCHANGED <<step, got, held, byteCount, written>>
      BY <1>1 DEF Packet
    <2>2. waiting' \in Seq(Packets)
      BY <1>0, <1>1 DEF Packet
    <2> QED
      BY <1>0, <2>1, <2>2 DEF CaptureInv, TypeOK
  <1>2. CASE Begin
    <2>1. /\ signalled' = FALSE /\ got' = 0 /\ byteCount' = 0 /\ written' = 0
          /\ ~Refused
          /\ step' = "read" /\ UNCHANGED <<waiting, held>>
      BY <1>0, <1>2 DEF Begin
    <2>2. TypeOK'
      BY <1>0, <2>1 DEF TypeOK
    <2>3. 0 <= FrameLimit /\ 0 <= Capacity
      BY <1>0
    <2> QED
      BY <2>1, <2>2, <2>3 DEF CaptureInv
  <1>3. CASE TakePacket
    <2>1. /\ waiting # <<>> /\ got + Head(waiting) <= FrameLimit
          /\ ~Refused
          /\ got' = got + Head(waiting) /\ waiting' = Tail(waiting)
          /\ UNCHANGED <<signalled, step, held, byteCount, written>>
      BY <1>0, <1>3 DEF TakePacket, Fits
    <2>2. Head(waiting) \in Nat
      <3>1. Head(waiting) \in Packets
        BY <1>0, <2>1
      <3> QED
        BY <3>1, CaptureAssumption
    <2>3. Tail(waiting) \in Seq(Packets) /\ Len(Tail(waiting)) <= MaxWaiting
      BY <1>0, <2>1, CaptureAssumption
    <2> QED
      BY <1>0, <2>1, <2>2, <2>3 DEF CaptureInv, TypeOK
  <1>4. CASE StopReading
    BY <1>0, <1>4 DEF StopReading, CaptureInv, TypeOK
  <1>5. CASE Throw
    BY <1>0, <1>5 DEF Throw, CaptureInv, TypeOK
  <1>6. CASE PassOn
    <2>1. got * TargetAlign \in Nat
      BY <1>0, ChainFits, MulNat
    <2>2. got * TargetAlign <= Capacity
      <3>1. CASE got = 0
        <4>1. 0 * TargetAlign = 0
          BY ChainFits
        <4> QED
          BY <1>0, <3>1, <4>1
      <3>2. CASE ~Resampled
        <4>1. ResamplerBytes = Capacity
          BY <3>2 DEF ResamplerBytes
        <4> QED
          BY <4>1, WithinLimit DEF NeverOverflows
      <3> QED
        BY <1>6, <3>1, <3>2 DEF PassOn
    <2> QED
      BY <1>0, <1>6, <2>1, <2>2 DEF PassOn, CaptureInv, TypeOK
  <1>7. CASE Resample
    <2>1. PICK taken \in 0 .. got, done \in 0 .. TargetCapacity :
            /\ held' \in 0 .. MaxHeld
            /\ byteCount' = done * TargetAlign
            /\ written' = done * SoxrAlign
      BY <1>7 DEF Resample
    <2>2. /\ step' = "returned" /\ UNCHANGED <<waiting, signalled, got>>
          /\ ~Refused /\ SoxrAlign = TargetAlign
      BY <1>0, <1>7, FloatsAreFloats DEF Resample
    <2>3. done \in Nat /\ done <= TargetCapacity
      BY ChainFits
    <2>4. done * TargetAlign \in Nat /\ done * TargetAlign <= Capacity
      <3>1. /\ done * TargetAlign \in Nat
            /\ TargetCapacity * TargetAlign \in Nat
            /\ done * TargetAlign <= TargetCapacity * TargetAlign
        BY <2>3, ChainFits, MulMonotone
      <3> QED
        BY <1>0, <3>1, ChainFits
    <2>5. held' \in Nat
      BY <2>1, CaptureAssumption
    <2> QED
      BY <1>0, <2>1, <2>2, <2>4, <2>5 DEF CaptureInv, TypeOK
  <1>8. CASE Return
    BY <1>0, <1>8 DEF Return, CaptureInv, TypeOK
  <1>9. CASE UNCHANGED vars
    BY <1>0, <1>9 DEF vars, CaptureInv, TypeOK
  <1> QED
    BY <1>1, <1>2, <1>3, <1>4, <1>5, <1>6, <1>7, <1>8, <1>9 DEF Next, Collect

\* No buffer of the chain is written or read past its end, for every chunk
\* size, target rate and packet size and every format of the device, refused
\* or not, of which the resampler is given floats.
THEOREM NoBufferOverflows ==
    ASSUME FloatsResampled
    PROVE  Spec => []NeverOverflows
  <1>1. Spec => []CaptureInv
    BY CaptureInit, CaptureStep, PTL DEF Spec
  <1>2. CaptureInv => NeverOverflows
    BY WithinLimit
  <1> QED
    BY <1>1, <1>2, PTL

=============================================================================
