---------------------------- MODULE TimeSyncProofs ----------------------------
(***************************************************************************)
(* The accuracy of the first synchronisation for every skew of the clocks  *)
(* and every delay.  As long as no exchange succeeded the client's clock   *)
(* is its own, and the readings of an exchange lie between the time it was *)
(* asked and now, in order.                                                *)
(***************************************************************************)
EXTENDS Dialogue, SequenceTheorems, TLAPS

Readings ==
    syncs = 0 =>
        /\ offset = 0
        /\ step # "idle" => t1 = asked /\ asked <= now
        /\ step \in {"serving", "response"} =>
             asked <= t2 - skew /\ t2 - skew <= now
        /\ step = "response" =>
             t2 <= t3 /\ t3 - skew <= now /\ held = t3 - t2

\* In every exchange the server's readings are in order; the bound is kept.
ServerReadings ==
    /\ step # "idle" => syncs < MaxSyncs
    /\ step \in {"request", "serving", "response"} => asked <= now
    /\ step \in {"serving", "response"} =>
         asked <= t2 - skew /\ t2 - skew <= now
    /\ step = "response" => held <= now - asked

SyncInv == TypeOK /\ ServerReadings /\ Readings /\ FirstSyncAccurate

\* Halving a number that is not negative loses at most one half.
LEMMA HalfOfNat ==
    ASSUME NEW n \in Nat
    PROVE  Half(n) \in Int /\ 2 * Half(n) <= n /\ n <= 2 * Half(n) + 1
BY DEF Half

LEMMA SyncInit == Init => SyncInv
  <1> SUFFICES ASSUME Init PROVE SyncInv
    OBVIOUS
  <1>1. skew \in Int
    BY SyncAssumption DEF Init
  <1> QED
    BY <1>1, SyncAssumption
       DEF Init, SyncInv, TypeOK, ServerReadings, Readings, FirstSyncAccurate

LEMMA SyncStep == SyncInv /\ [Next]_vars => SyncInv'
  <1> SUFFICES ASSUME SyncInv, [Next]_vars PROVE SyncInv'
    OBVIOUS
  <1> USE SyncAssumption
  <1>0. /\ now \in Nat /\ skew \in Int /\ offset \in Int /\ asked \in Nat
        /\ t1 \in Int /\ t2 \in Int /\ t3 \in Int
        /\ held \in Nat /\ pathDelay \in Nat /\ syncs \in 0 .. MaxSyncs
        /\ MaxSyncs \in Nat
    BY DEF SyncInv, TypeOK
  <1>1. CASE TimePasses
    BY <1>0, <1>1 DEF TimePasses, SyncInv, TypeOK, ServerReadings, Readings,
                      FirstSyncAccurate, Error
  <1>2. CASE Ask
    BY <1>0, <1>2 DEF Ask, SyncInv, TypeOK, ServerReadings, Readings,
                      FirstSyncAccurate, Error, getServerTimeMillis
  <1>3. CASE Arrives
    BY <1>0, <1>3 DEF Arrives, SyncInv, TypeOK, ServerReadings, Readings,
                      FirstSyncAccurate, Error, ServerClock
  <1>4. CASE Answers
    BY <1>0, <1>4 DEF Answers, SyncInv, TypeOK, ServerReadings, Readings,
                      FirstSyncAccurate, Error, ServerClock
  <1>5. CASE Adjust(t2, t3)
    <2> DEFINE delay == (getServerTimeMillis - t1) - (t3 - t2)
    <2>1. /\ step = "response" /\ step' = "idle"
          /\ offset' = t3 + Half(delay) - getServerTimeMillis
          /\ pathDelay' = (now - asked) - held
          /\ syncs' = syncs + 1
          /\ UNCHANGED <<now, skew, asked, t1, t2, t3, held>>
      BY <1>5 DEF Adjust
    <2>2. ServerReadings /\ Readings
      BY DEF SyncInv
    <2>3. delay \in Int
      BY <1>0 DEF getServerTimeMillis
    <2>4. Half(delay) \in Int
      <3>1. CASE delay >= 0
        BY <2>3, <3>1, HalfOfNat
      <3>2. CASE delay < 0
        BY <2>3, <3>2 DEF Half
      <3> QED
        BY <2>3, <3>1, <3>2
    <2>5. syncs + 1 \in 0 .. MaxSyncs
      BY <1>0, <2>1, <2>2 DEF ServerReadings
    <2>6. TypeOK'
      <3>1. offset' \in Int
        BY <1>0, <2>1, <2>4 DEF getServerTimeMillis
      <3>2. pathDelay' \in Nat
        BY <1>0, <2>1, <2>2 DEF ServerReadings
      <3> QED
        BY <1>0, <2>1, <2>5, <3>1, <3>2 DEF TypeOK
    <2>7. ServerReadings'
      BY <2>1 DEF ServerReadings
    <2>8. Readings'
      BY <1>0, <2>1 DEF Readings
    <2>9. FirstSyncAccurate'
      <3>1. CASE syncs = 0
        <4>1. /\ offset = 0 /\ t1 = asked /\ held = t3 - t2
              /\ asked <= t2 - skew /\ t2 <= t3 /\ t3 - skew <= now
          BY <2>1, <2>2, <3>1 DEF Readings
        <4>2. delay = (now - asked) - (t3 - t2) /\ delay \in Nat
          BY <1>0, <4>1 DEF getServerTimeMillis
        <4>3. 2 * Half(delay) <= delay /\ delay <= 2 * Half(delay) + 1
          BY <4>2, HalfOfNat
        <4>4. pathDelay' = delay /\ offset' = t3 + Half(delay) - now
          BY <1>0, <2>1, <4>1, <4>2 DEF getServerTimeMillis
        <4> HIDE DEF delay
        <4>5. 2 * (offset' - skew') <= pathDelay' + 1
          BY <1>0, <2>1, <2>4, <4>1, <4>2, <4>3, <4>4
        <4>6. 2 * (skew' - offset') <= pathDelay' + 1
          BY <1>0, <2>1, <2>4, <4>1, <4>2, <4>3, <4>4
        <4> QED
          BY <4>5, <4>6 DEF FirstSyncAccurate, Error
      <3>2. CASE syncs # 0
        BY <1>0, <2>1, <3>2 DEF FirstSyncAccurate
      <3> QED
        BY <3>1, <3>2
    <2> QED
      BY <2>6, <2>7, <2>8, <2>9 DEF SyncInv
  <1>6. CASE Fails
    BY <1>0, <1>6 DEF Fails, SyncInv, TypeOK, ServerReadings, Readings,
                      FirstSyncAccurate, Error
  <1>7. CASE UNCHANGED vars
    BY <1>7 DEF vars, SyncInv, TypeOK, ServerReadings, Readings,
                FirstSyncAccurate, Error
  <1> QED
    BY <1>1, <1>2, <1>3, <1>4, <1>5, <1>6, <1>7 DEF Next

LEMMA SyncAlways == Spec => []SyncInv
  BY SyncInit, SyncStep, PTL DEF Spec

\* After its first exchange a client knows the server's time to half the time
\* the exchange was on the network, for every skew and all delays.
THEOREM FirstSyncIsAccurate == Spec => []FirstSyncAccurate
  <1>1. SyncInv => FirstSyncAccurate
    BY DEF SyncInv
  <1> QED
    BY <1>1, SyncAlways, PTL

-----------------------------------------------------------------------------
(* Dialogue: what a number becomes on the wire, and what is made of it     *)

Byte == 0 .. 255

Shr(v) == v \div 256

LowByte(v) == v % 256

\* A message of n bytes.
Message(m, n) == m \in [1 .. n -> Byte]

\* A value is its lowest byte below the value shifted by eight bits.
LEMMA LowestByte ==
    ASSUME NEW v \in Int
    PROVE  /\ Shr(v) \in Int /\ LowByte(v) \in Byte
           /\ v = Below(LowByte(v), Shr(v))
  BY DEF Shr, LowByte, Byte, Below

\* The shift loop: if there is a function that is shifted by one byte from
\* each index to the next, the bytes are the lowest of such a function.
LEMMA ShiftLoop ==
    ASSUME NEW n \in Nat, NEW v \in Int, NEW values \in [0 .. n -> Int],
           values[0] = v,
           \A i \in 1 .. n : values[i] = Shr(values[i - 1])
    PROVE  \E shifted :
             /\ shifted[0] = v
             /\ \A i \in 1 .. n : shifted[i] = Shr(shifted[i - 1])
             /\ \A i \in 1 .. n : LittleEndian(n, v)[i] = LowByte(shifted[i - 1])
             /\ (\A i \in 1 .. n : LowByte(shifted[i - 1]) \in Byte) =>
                  LittleEndian(n, v) \in [1 .. n -> Byte]
  <1> DEFINE shift(f) == [i \in 0 .. n |-> IF i = 0 THEN v ELSE f[i - 1] \div 256]
             shifted == CHOOSE f : f = shift(f)
  <1>1. values = shift(values)
    BY DEF Shr
  <1>2. shifted = shift(shifted)
    BY <1>1, Zenon
  <1>3. LittleEndian(n, v) = [i \in 1 .. n |-> shifted[i - 1] % 256]
    BY DEF LittleEndian
  <1> HIDE DEF shifted
  <1>4. shifted[0] = v /\ \A i \in 1 .. n : shifted[i] = Shr(shifted[i - 1])
    BY <1>2 DEF Shr
  <1>5. \A i \in 1 .. n : LittleEndian(n, v)[i] = LowByte(shifted[i - 1])
    BY <1>3 DEF LowByte
  <1>6. (\A i \in 1 .. n : LowByte(shifted[i - 1]) \in Byte) =>
          LittleEndian(n, v) \in [1 .. n -> Byte]
    BY <1>3 DEF LowByte
  <1> QED
    BY <1>4, <1>5, <1>6

LEMMA TwoBytes ==
    ASSUME NEW v \in Int,
           NEW v1, v1 = Shr(v)
    PROVE  /\ Message(LittleEndian(2, v), 2)
           /\ LittleEndian(2, v)[1] = LowByte(v) /\ LittleEndian(2, v)[2] = LowByte(v1)
  <1> DEFINE values == [i \in 0 .. 2 |-> IF i = 0 THEN v ELSE IF i = 1 THEN v1 ELSE
                                          Shr(v1)]
  <1>1. v \in Int /\ v1 \in Int /\ Shr(v1) \in Int
    BY LowestByte
  <1>2. 2 \in Nat /\ values \in [0 .. 2 -> Int] /\ values[0] = v
    BY <1>1
  <1>3. \A i \in 1 .. 2 : values[i] = Shr(values[i - 1])
    OBVIOUS
  <1> HIDE DEF values
  <1>4. PICK shifted :
          /\ shifted[0] = v
          /\ \A i \in 1 .. 2 : shifted[i] = Shr(shifted[i - 1])
          /\ \A i \in 1 .. 2 : LittleEndian(2, v)[i] = LowByte(shifted[i - 1])
          /\ (\A i \in 1 .. 2 : LowByte(shifted[i - 1]) \in Byte) =>
               LittleEndian(2, v) \in [1 .. 2 -> Byte]
    BY <1>2, <1>3, ShiftLoop, Zenon
  <1>5. shifted[0] = v /\ shifted[1] = v1
    BY <1>4
  <1>6. \A i \in 1 .. 2 : LowByte(shifted[i - 1]) \in Byte
    BY <1>1, <1>5, LowestByte
  <1>7. Message(LittleEndian(2, v), 2)
    BY <1>4, <1>6 DEF Message
  <1>8. /\ LittleEndian(2, v)[1] = LowByte(v)
        /\ LittleEndian(2, v)[2] = LowByte(v1)
    BY <1>4, <1>5
  <1> QED
    BY <1>7, <1>8

LEMMA FourBytes ==
    ASSUME NEW v \in Int,
           NEW v1, v1 = Shr(v), NEW v2, v2 = Shr(v1), NEW v3, v3 =
           Shr(v2)
    PROVE  /\ Message(LittleEndian(4, v), 4)
           /\ LittleEndian(4, v)[1] = LowByte(v) /\ LittleEndian(4, v)[2] = LowByte(v1)
           /\ LittleEndian(4, v)[3] = LowByte(v2) /\ LittleEndian(4, v)[4] = LowByte(v3)
  <1> DEFINE values == [i \in 0 .. 4 |-> IF i = 0 THEN v ELSE IF i = 1 THEN v1 ELSE
                                          IF i = 2 THEN v2 ELSE IF i = 3 THEN v3
                                          ELSE Shr(v3)]
  <1>1. v \in Int /\ v1 \in Int /\ v2 \in Int /\ v3 \in Int /\ Shr(v3) \in Int
    BY LowestByte
  <1>2. 4 \in Nat /\ values \in [0 .. 4 -> Int] /\ values[0] = v
    BY <1>1
  <1>3. \A i \in 1 .. 4 : values[i] = Shr(values[i - 1])
    OBVIOUS
  <1> HIDE DEF values
  <1>4. PICK shifted :
          /\ shifted[0] = v
          /\ \A i \in 1 .. 4 : shifted[i] = Shr(shifted[i - 1])
          /\ \A i \in 1 .. 4 : LittleEndian(4, v)[i] = LowByte(shifted[i - 1])
          /\ (\A i \in 1 .. 4 : LowByte(shifted[i - 1]) \in Byte) =>
               LittleEndian(4, v) \in [1 .. 4 -> Byte]
    BY <1>2, <1>3, ShiftLoop, Zenon
  <1>5. shifted[0] = v /\ shifted[1] = v1 /\ shifted[2] = v2 /\ shifted[3] = v3
    BY <1>4
  <1>6. \A i \in 1 .. 4 : LowByte(shifted[i - 1]) \in Byte
    BY <1>1, <1>5, LowestByte
  <1>7. Message(LittleEndian(4, v), 4)
    BY <1>4, <1>6 DEF Message
  <1>8. /\ LittleEndian(4, v)[1] = LowByte(v)
        /\ LittleEndian(4, v)[2] = LowByte(v1)
        /\ LittleEndian(4, v)[3] = LowByte(v2)
        /\ LittleEndian(4, v)[4] = LowByte(v3)
    BY <1>4, <1>5
  <1> QED
    BY <1>7, <1>8

LEMMA EightBytes ==
    ASSUME NEW v \in Int,
           NEW v1, v1 = Shr(v), NEW v2, v2 = Shr(v1), NEW v3, v3 =
           Shr(v2), NEW v4, v4 = Shr(v3), NEW v5, v5 = Shr(v4), NEW v6,
           v6 = Shr(v5), NEW v7, v7 = Shr(v6)
    PROVE  /\ Message(LittleEndian(8, v), 8)
           /\ LittleEndian(8, v)[1] = LowByte(v) /\ LittleEndian(8, v)[2] = LowByte(v1)
           /\ LittleEndian(8, v)[3] = LowByte(v2) /\ LittleEndian(8, v)[4] = LowByte(v3)
           /\ LittleEndian(8, v)[5] = LowByte(v4) /\ LittleEndian(8, v)[6] = LowByte(v5)
           /\ LittleEndian(8, v)[7] = LowByte(v6) /\ LittleEndian(8, v)[8] = LowByte(v7)
  <1> DEFINE values == [i \in 0 .. 8 |-> IF i = 0 THEN v ELSE IF i = 1 THEN v1 ELSE
                                          IF i = 2 THEN v2 ELSE IF i = 3 THEN v3
                                          ELSE IF i = 4 THEN v4 ELSE IF i = 5 THEN
                                          v5 ELSE IF i = 6 THEN v6 ELSE IF i = 7
                                          THEN v7 ELSE Shr(v7)]
  <1>1. v \in Int /\ v1 \in Int /\ v2 \in Int /\ v3 \in Int /\ v4 \in Int /\ v5 \in Int /\ v6 \in Int /\ v7 \in Int /\ Shr(v7) \in Int
    BY LowestByte
  <1>2. 8 \in Nat /\ values \in [0 .. 8 -> Int] /\ values[0] = v
    BY <1>1
  <1>3. \A i \in 1 .. 8 : values[i] = Shr(values[i - 1])
    OBVIOUS
  <1> HIDE DEF values
  <1>4. PICK shifted :
          /\ shifted[0] = v
          /\ \A i \in 1 .. 8 : shifted[i] = Shr(shifted[i - 1])
          /\ \A i \in 1 .. 8 : LittleEndian(8, v)[i] = LowByte(shifted[i - 1])
          /\ (\A i \in 1 .. 8 : LowByte(shifted[i - 1]) \in Byte) =>
               LittleEndian(8, v) \in [1 .. 8 -> Byte]
    BY <1>2, <1>3, ShiftLoop, ZenonT(100)
  <1>5. shifted[0] = v /\ shifted[1] = v1 /\ shifted[2] = v2 /\ shifted[3] = v3
    BY <1>4
  <1>6. shifted[4] = v4 /\ shifted[5] = v5 /\ shifted[6] = v6 /\ shifted[7] = v7
    BY <1>4, <1>5
  <1>7. \A i \in 1 .. 8 : LowByte(shifted[i - 1]) \in Byte
    BY <1>1, <1>5, <1>6, LowestByte
  <1>8. Message(LittleEndian(8, v), 8)
    BY <1>4, <1>7 DEF Message
  <1>9. /\ LittleEndian(8, v)[1] = LowByte(v)
        /\ LittleEndian(8, v)[2] = LowByte(v1)
        /\ LittleEndian(8, v)[3] = LowByte(v2)
        /\ LittleEndian(8, v)[4] = LowByte(v3)
        /\ LittleEndian(8, v)[5] = LowByte(v4)
        /\ LittleEndian(8, v)[6] = LowByte(v5)
        /\ LittleEndian(8, v)[7] = LowByte(v6)
        /\ LittleEndian(8, v)[8] = LowByte(v7)
    BY <1>4, <1>5, <1>6
  <1> QED
    BY <1>8, <1>9

\* What the messages are.
CommandMessage    == LittleEndian(4, 50)
StopMessage       == LittleEndian(4, 55)
PortMessage(p)    == LittleEndian(4, p)
PortOf(bytes)     == bufferLEToUint32(bytes) % 65536
TimesMessage(a, b) == writeLongToBufferLE(a) \o writeLongToBufferLE(b)
FormatMessage(f)  == sendShort(f.nChannels)
                       \o sendShort(f.wBitsPerSample \div 8)
                       \o sendShort(f.nSamplesPerSec % 65536)

\* Four bytes are what the value is, from its first byte up.
LEMMA WordRoundTrip ==
    ASSUME NEW v \in Int, 0 <= v, v <= 65535
    PROVE  /\ Message(LittleEndian(4, v), 4)
           /\ bufferLEToUint32(LittleEndian(4, v)) = v
           /\ LittleEndian(4, v)[4] = 0
  <1> DEFINE v1 == Shr(v)
             v2 == Shr(v1)
             v3 == Shr(v2)
  <1>1. v1 \in Int /\ v2 \in Int /\ v3 \in Int
    BY LowestByte
  <1>2. /\ Message(LittleEndian(4, v), 4)
        /\ LittleEndian(4, v)[1] = LowByte(v) /\ LittleEndian(4, v)[2] = LowByte(v1)
        /\ LittleEndian(4, v)[3] = LowByte(v2) /\ LittleEndian(4, v)[4] = LowByte(v3)
    BY FourBytes
  <1>3. 0 <= v1 /\ v1 <= 255 /\ v2 = 0 /\ v3 = 0
    BY DEF Shr
  <1> HIDE DEF v1, v2, v3
  <1>4. LowByte(v1) = v1 /\ LowByte(v2) = 0 /\ LowByte(v3) = 0
    BY <1>1, <1>3 DEF LowByte
  <1>5. LowByte(v) \in Byte /\ v = Below(LowByte(v), v1)
    BY LowestByte DEF v1
  <1>6. bufferLEToUint32(LittleEndian(4, v)) = Below(LowByte(v), v1)
    BY <1>1, <1>2, <1>4 DEF bufferLEToUint32, Below
  <1> QED
    BY <1>2, <1>4, <1>5, <1>6

\* Two bytes, sent with the higher first.
LEMMA ShortRoundTrip ==
    ASSUME NEW v \in Int, 0 <= v, v <= 65535
    PROVE  /\ Message(sendShort(v), 2)
           /\ sendShort(v)[1] * 256 + sendShort(v)[2] = v
  <1> DEFINE bytes == LittleEndian(2, v)
  <1>1. /\ Message(bytes, 2)
        /\ bytes[1] = LowByte(v) /\ bytes[2] = LowByte(Shr(v))
    BY TwoBytes
  <1> HIDE DEF bytes
  <1>2. Len(bytes) = 2
    BY <1>1 DEF Message
  <1>3. sendShort(v) = [i \in 1 .. 2 |-> bytes[(2 - i) + 1]]
    <2>1. sendShort(v) = Reverse(bytes)
      BY DEF sendShort, swapEndianess16, bytes
    <2> QED
      BY <1>2, <2>1 DEF Reverse
  <1>4. /\ Message(sendShort(v), 2)
        /\ sendShort(v)[1] = LowByte(Shr(v)) /\ sendShort(v)[2] = LowByte(v)
    BY <1>1, <1>3 DEF Message
  <1>5. LowByte(Shr(v)) = Shr(v)
    BY DEF Shr, LowByte
  <1>6. LowByte(v) \in Byte /\ Shr(v) \in Int /\ v = Below(LowByte(v), Shr(v))
    BY LowestByte
  <1> QED
    BY <1>4, <1>5, <1>6 DEF Byte, Below

\* A time that an int64_t holds is read back from its eight bytes, whatever
\* its sign.
LEMMA LongRoundTrip ==
    ASSUME NEW v \in Int, FitsLong(v), NEW bytes,
           \A i \in 1 .. 8 : bytes[i] = writeLongToBufferLE(v)[i]
    PROVE  getLongLE(bytes) = v
  <1> DEFINE v1 == Shr(v)
             v2 == Shr(v1)
             v3 == Shr(v2)
             v4 == Shr(v3)
             v5 == Shr(v4)
             v6 == Shr(v5)
             v7 == Shr(v6)
  <1>1. /\ v1 \in Int /\ v2 \in Int /\ v3 \in Int /\ v4 \in Int
        /\ v5 \in Int /\ v6 \in Int /\ v7 \in Int
    BY LowestByte
  <1>2. /\ v = Below(LowByte(v), v1) /\ v1 = Below(LowByte(v1), v2)
        /\ v2 = Below(LowByte(v2), v3) /\ v3 = Below(LowByte(v3), v4)
        /\ v4 = Below(LowByte(v4), v5) /\ v5 = Below(LowByte(v5), v6)
        /\ v6 = Below(LowByte(v6), v7)
    BY <1>1, LowestByte
  <1>3. LET sent == writeLongToBufferLE(v) IN
          /\ sent[1] = LowByte(v) /\ sent[2] = LowByte(v1)
          /\ sent[3] = LowByte(v2) /\ sent[4] = LowByte(v3)
          /\ sent[5] = LowByte(v4) /\ sent[6] = LowByte(v5)
          /\ sent[7] = LowByte(v6) /\ sent[8] = LowByte(v7)
    BY EightBytes DEF writeLongToBufferLE
  <1>4. -128 <= v7 /\ v7 <= 127
    <2>1. \A x \in Int : x \div 65536 = Shr(Shr(x))
      BY DEF Shr
    <2>2. ((v \div 65536) \div 65536) \div 65536 = v6
      BY <1>1, <2>1
    <2>3. v6 \div 32768 \in {-1, 0}
      BY <2>2 DEF FitsLong
    <2> HIDE DEF v6
    <2>4. -32768 <= v6 /\ v6 <= 32767
      BY <1>1, <2>3
    <2> QED
      BY <1>1, <2>4 DEF Shr
  <1> HIDE DEF v1, v2, v3, v4, v5, v6, v7
  <1>5. v7 = IF LowByte(v7) < 128 THEN LowByte(v7) ELSE LowByte(v7) - 256
    BY <1>1, <1>4 DEF LowByte
  <1>6. /\ bytes[1] = LowByte(v) /\ bytes[2] = LowByte(v1)
        /\ bytes[3] = LowByte(v2) /\ bytes[4] = LowByte(v3)
        /\ bytes[5] = LowByte(v4) /\ bytes[6] = LowByte(v5)
        /\ bytes[7] = LowByte(v6) /\ bytes[8] = LowByte(v7)
    BY <1>3
  <1> QED
    BY <1>2, <1>5, <1>6 DEF getLongLE

LEMMA LongMessage ==
    ASSUME NEW v \in Int
    PROVE  Message(writeLongToBufferLE(v), 8)
  BY EightBytes DEF writeLongToBufferLE

-----------------------------------------------------------------------------
(* What was written and not understood: read so far and still to be read   *)

LEMMA MessageIsSeq ==
    ASSUME NEW n \in Nat, NEW m, Message(m, n)
    PROVE  m \in Seq(Byte) /\ Len(m) = n
  <1> HIDE DEF Byte
  <1> QED
    BY DEF Message

LEMMA Regrouped ==
    \A s, t, u \in Seq(Byte) : (s \o t) \o u = s \o (t \o u)
  <1> TAKE s, t, u \in Seq(Byte)
  <1> QED
    BY ConcatAssociative

\* A read moves bytes from what is to come to what was read, and changes
\* nothing of the two together.
LEMMA ReadsPart ==
    ASSUME NEW s \in Seq(Byte), NEW t \in Seq(Byte), NEW n \in Nat,
           1 <= n, n <= Len(t)
    PROVE  /\ s \o SubSeq(t, 1, n) \in Seq(Byte)
           /\ Len(s \o SubSeq(t, 1, n)) = Len(s) + n
           /\ SubSeq(t, n + 1, Len(t)) \in Seq(Byte)
           /\ (s \o SubSeq(t, 1, n)) \o SubSeq(t, n + 1, Len(t)) = s \o t
  <1> DEFINE head == SubSeq(t, 1, n)
             rest == SubSeq(t, n + 1, Len(t))
  <1>1. Len(t) \in Nat /\ \A i \in 1 .. Len(t) : t[i] \in Byte
    BY ElementOfSeq, LenProperties
  <1>2. head \in Seq(Byte) /\ rest \in Seq(Byte) /\ Len(head) = n
    BY <1>1, SubSeqProperties
  <1>3. head \o rest = t
    <2>1. head \o rest = SubSeq(t, 1, Len(t))
      BY <1>1, ConcatAdjacentSubSeq
    <2> QED
      BY <2>1, SubSeqFull
  <1> HIDE DEF head, rest
  <1>4. (s \o head) \o rest = s \o (head \o rest)
    BY <1>2, Regrouped, Zenon
  <1>5. s \o head \in Seq(Byte) /\ Len(s \o head) = Len(s) + n
    BY <1>2, ConcatProperties
  <1> QED
    BY <1>2, <1>3, <1>4, <1>5 DEF head, rest

\* When as much was read as the first of two messages has, it is what was
\* read, and the second is to come.
LEMMA FirstMessageRead ==
    ASSUME NEW S, NEW s \in Seq(S), NEW t \in Seq(S), NEW m \in Seq(S),
           NEW r \in Seq(S), s \o t = m \o r, Len(s) = Len(m)
    PROVE  s = m /\ t = r
  <1>1. /\ Len(s) \in Nat /\ Len(t) \in Nat /\ Len(m) \in Nat /\ Len(r) \in Nat
    BY LenProperties
  <1>2. /\ Len(s \o t) = Len(s) + Len(t)
        /\ \A i \in 1 .. Len(s) + Len(t) :
             (s \o t)[i] = IF i <= Len(s) THEN s[i] ELSE t[i - Len(s)]
    BY ConcatProperties
  <1>3. /\ Len(m \o r) = Len(m) + Len(r)
        /\ \A i \in 1 .. Len(m) + Len(r) :
             (m \o r)[i] = IF i <= Len(m) THEN m[i] ELSE r[i - Len(m)]
    BY ConcatProperties
  <1>4. Len(t) = Len(r)
    BY <1>1, <1>2, <1>3
  <1>5. s = m
    <2>1. \A i \in 1 .. Len(s) : s[i] = m[i]
      BY <1>1, <1>2, <1>3
    <2> QED
      BY <2>1, SeqEqual
  <1>6. t = r
    <2>1. ASSUME NEW i \in 1 .. Len(t) PROVE t[i] = r[i]
      <3>1. i + Len(s) \in 1 .. Len(s) + Len(t) /\ ~(i + Len(s) <= Len(s))
            /\ (i + Len(s)) - Len(s) = i
        BY <1>1
      <3> QED
        BY <1>2, <1>3, <1>4, <3>1
    <2> QED
      BY <1>4, <2>1, SeqEqual
  <1> QED
    BY <1>5, <1>6

\* The first bytes of a message, for a client that left.
Begins(s, t) == Len(s) <= Len(t) /\ \A i \in 1 .. Len(s) : s[i] = t[i]

LEMMA BeginsWithFirst ==
    ASSUME NEW S, NEW s \in Seq(S), NEW t \in Seq(S), NEW m \in Seq(S),
           NEW r \in Seq(S), Begins(s \o t, m \o r), Len(s) = Len(m)
    PROVE  s = m
  <1>1. /\ Len(s) \in Nat /\ Len(t) \in Nat /\ Len(m) \in Nat /\ Len(r) \in Nat
    BY LenProperties
  <1>2. /\ Len(s \o t) = Len(s) + Len(t)
        /\ \A i \in 1 .. Len(s) + Len(t) :
             (s \o t)[i] = IF i <= Len(s) THEN s[i] ELSE t[i - Len(s)]
    BY ConcatProperties
  <1>3. /\ Len(m \o r) = Len(m) + Len(r)
        /\ \A i \in 1 .. Len(m) + Len(r) :
             (m \o r)[i] = IF i <= Len(m) THEN m[i] ELSE r[i - Len(m)]
    BY ConcatProperties
  <1>4. \A i \in 1 .. Len(s) : s[i] = m[i]
    BY <1>1, <1>2, <1>3 DEF Begins
  <1> QED
    BY <1>4, SeqEqual

\* What is left of a beginning when what was to come is discarded.
LEMMA BeginsWithLess ==
    ASSUME NEW S, NEW s \in Seq(S), NEW t \in Seq(S), NEW m \in Seq(S),
           Begins(s \o t, m)
    PROVE  Begins(s, m)
  <1>1. Len(s) \in Nat /\ Len(t) \in Nat /\ Len(m) \in Nat
    BY LenProperties
  <1>2. /\ Len(s \o t) = Len(s) + Len(t)
        /\ \A i \in 1 .. Len(s) + Len(t) :
             (s \o t)[i] = IF i <= Len(s) THEN s[i] ELSE t[i - Len(s)]
    BY ConcatProperties
  <1> QED
    BY <1>1, <1>2 DEF Begins

LEMMA BeginsItself ==
    ASSUME NEW S, NEW m \in Seq(S), NEW r \in Seq(S)
    PROVE  Begins(m, m \o r) /\ Begins(m \o r, m \o r)
  <1>1. Len(m) \in Nat /\ Len(r) \in Nat
    BY LenProperties
  <1>2. /\ Len(m \o r) = Len(m) + Len(r)
        /\ \A i \in 1 .. Len(m) + Len(r) :
             (m \o r)[i] = IF i <= Len(m) THEN m[i] ELSE r[i - Len(m)]
    BY ConcatProperties
  <1> QED
    BY <1>1, <1>2 DEF Begins

LEMMA NothingLeft ==
    ASSUME NEW s \in Seq(Byte), NEW t \in Seq(Byte), s \o t = <<>>
    PROVE  s = <<>> /\ t = <<>>
  <1>1. Len(s) \in Nat /\ Len(t) \in Nat /\ Len(s \o t) = Len(s) + Len(t)
    BY LenProperties, ConcatProperties
  <1>2. Len(s) = 0 /\ Len(t) = 0
    BY <1>1
  <1> QED
    BY <1>2, EmptySeq

\* A message that is written when nothing is to come is all that is to come.
LEMMA WrittenAfterNothing ==
    ASSUME NEW s \in Seq(Byte), NEW t \in Seq(Byte), NEW m \in Seq(Byte)
    PROVE  /\ t \o m \in Seq(Byte)
           /\ s \o (t \o m) = (s \o t) \o m
           /\ s \o t = <<>> => s \o (t \o m) = m
  <1>1. s \o (t \o m) = (s \o t) \o m
    BY Regrouped, Zenon
  <1>2. t \o m \in Seq(Byte) /\ <<>> \o m = m
    BY ConcatProperties, ConcatEmptySeq
  <1> QED
    BY <1>1, <1>2

\* A message that is the only one was read when as many bytes were.
LEMMA OnlyMessageRead ==
    ASSUME NEW s \in Seq(Byte), NEW t \in Seq(Byte), NEW m \in Seq(Byte),
           s \o t = m, Len(s) = Len(m)
    PROVE  s = m /\ t = <<>>
  <1>1. m \o <<>> = m /\ <<>> \in Seq(Byte)
    BY ConcatEmptySeq
  <1>2. s \o t = m \o <<>>
    BY <1>1
  <1> QED
    BY <1>1, <1>2, FirstMessageRead

-----------------------------------------------------------------------------
(* Each message is read as it was meant                                    *)

LEMMA CommandRead ==
    /\ CommandMessage \in Seq(Byte) /\ Len(CommandMessage) = 4
    /\ bufferLEToUint32(CommandMessage) = 50
  <1>1. Message(CommandMessage, 4) /\ bufferLEToUint32(CommandMessage) = 50
    BY WordRoundTrip DEF CommandMessage
  <1> QED
    BY <1>1, MessageIsSeq

\* checkAction() takes the 55 of disconnect() neither for the end nor for an
\* error.
LEMMA StopRead ==
    /\ StopMessage \in Seq(Byte) /\ Len(StopMessage) = 4
    /\ bufferLEToUint32(StopMessage) = 55 /\ StopMessage[4] = 0
  <1>1. /\ Message(StopMessage, 4) /\ bufferLEToUint32(StopMessage) = 55
        /\ StopMessage[4] = 0
    BY WordRoundTrip DEF StopMessage
  <1> QED
    BY <1>1, MessageIsSeq

LEMMA PortRead ==
    ASSUME NEW p \in Ports
    PROVE  /\ PortMessage(p) \in Seq(Byte) /\ Len(PortMessage(p)) = 4
           /\ PortOf(PortMessage(p)) = p
  <1>1. p \in Int /\ 0 <= p /\ p <= 65535
    BY DialogueAssumption
  <1>2. Message(PortMessage(p), 4) /\ bufferLEToUint32(PortMessage(p)) = p
    BY <1>1, WordRoundTrip DEF PortMessage
  <1>3. PortMessage(p) \in Seq(Byte) /\ Len(PortMessage(p)) = 4
    BY <1>2, MessageIsSeq
  <1>4. PortOf(PortMessage(p)) = p
    BY <1>1, <1>2 DEF PortOf
  <1> QED
    BY <1>3, <1>4

LEMMA RequestRead == SYNC \in Seq(Byte) /\ Len(SYNC) = 4
  BY DEF SYNC, Byte

\* Two messages of eight bytes, one after the other.
LEMMA TwoLongs ==
    ASSUME NEW x \in Seq(Byte), NEW y \in Seq(Byte), Len(x) = 8, Len(y) = 8
    PROVE  /\ x \o y \in Seq(Byte) /\ Len(x \o y) = 16
           /\ \A i \in 1 .. 8 : SubSeq(x \o y, 1, 8)[i] = x[i]
           /\ \A i \in 1 .. 8 : SubSeq(x \o y, 9, 16)[i] = y[i]
  <1> HIDE DEF Byte
  <1>0. /\ x \o y \in Seq(Byte) /\ Len(x \o y) = Len(x) + Len(y)
        /\ \A i \in 1 .. Len(x) + Len(y) :
             (x \o y)[i] = IF i <= Len(x) THEN x[i] ELSE y[i - Len(x)]
    BY ConcatProperties
  <1>1. /\ x \o y \in Seq(Byte) /\ Len(x \o y) = 16
        /\ \A i \in 1 .. 16 : (x \o y)[i] = IF i <= 8 THEN x[i] ELSE y[i - 8]
    BY <1>0
  <1> DEFINE m == x \o y
  <1> HIDE DEF m
  <1>2. m \in Seq(Byte) /\ Len(m) = 16 /\ \A i \in 1 .. Len(m) : m[i] \in Byte
    BY <1>1, ElementOfSeq DEF m
  <1>3. \A i \in 1 .. 8 : SubSeq(m, 1, 8)[i] = m[i]
    BY <1>2, SubSeqProperties
  <1>4. \A i \in 1 .. 8 : SubSeq(m, 9, 16)[i] = m[8 + i]
    BY <1>2, SubSeqProperties
  <1> QED
    BY <1>1, <1>3, <1>4 DEF m

\* The two times, whatever their signs.
LEMMA TimesRead ==
    ASSUME NEW a \in Int, NEW b \in Int, FitsLong(a), FitsLong(b)
    PROVE  /\ TimesMessage(a, b) \in Seq(Byte) /\ Len(TimesMessage(a, b)) = 16
           /\ getLongLE(SubSeq(TimesMessage(a, b), 1, 8)) = a
           /\ getLongLE(SubSeq(TimesMessage(a, b), 9, 16)) = b
  <1> DEFINE x == writeLongToBufferLE(a)
             y == writeLongToBufferLE(b)
             early == SubSeq(x \o y, 1, 8)
             late == SubSeq(x \o y, 9, 16)
  <1>1. x \in Seq(Byte) /\ Len(x) = 8 /\ y \in Seq(Byte) /\ Len(y) = 8
    BY LongMessage, MessageIsSeq
  <1>2. /\ x \o y \in Seq(Byte) /\ Len(x \o y) = 16
        /\ \A i \in 1 .. 8 : early[i] = x[i]
        /\ \A i \in 1 .. 8 : late[i] = y[i]
    <2> HIDE DEF x, y
    <2> QED
      BY <1>1, TwoLongs
  <1> HIDE DEF early, late
  <1>3. getLongLE(early) = a /\ getLongLE(late) = b
    BY <1>2, LongRoundTrip
  <1> QED
    BY <1>2, <1>3 DEF TimesMessage, early, late

\* What the client makes of a format: whole bytes for bits.
FormatMeant(f) == [nChannels      |-> f.nChannels,
                   bytesPerSample |-> f.wBitsPerSample \div 8,
                   sampleRate     |-> f.nSamplesPerSec]

LEMMA ThreeShorts ==
    ASSUME NEW x \in Seq(Byte), NEW y \in Seq(Byte), NEW z \in Seq(Byte),
           Len(x) = 2, Len(y) = 2, Len(z) = 2
    PROVE  LET m == (x \o y) \o z IN
             /\ m \in Seq(Byte) /\ Len(m) = 6
             /\ m[1] = x[1] /\ m[2] = x[2]
             /\ SubSeq(m, 3, 4)[1] = y[1] /\ SubSeq(m, 3, 4)[2] = y[2]
             /\ SubSeq(m, 5, 6)[1] = z[1] /\ SubSeq(m, 5, 6)[2] = z[2]
  <1> HIDE DEF Byte
  <1> DEFINE two == x \o y
             m == two \o z
  <1>1. /\ two \in Seq(Byte) /\ Len(two) = 4
        /\ two[1] = x[1] /\ two[2] = x[2] /\ two[3] = y[1] /\ two[4] = y[2]
    <2>1. /\ two \in Seq(Byte) /\ Len(two) = Len(x) + Len(y)
          /\ \A i \in 1 .. Len(x) + Len(y) :
               two[i] = IF i <= Len(x) THEN x[i] ELSE y[i - Len(x)]
      BY ConcatProperties
    <2> HIDE DEF two
    <2> QED
      BY <2>1
  <1> HIDE DEF two
  <1>2. /\ m \in Seq(Byte) /\ Len(m) = 6
        /\ m[1] = two[1] /\ m[2] = two[2] /\ m[3] = two[3] /\ m[4] = two[4]
        /\ m[5] = z[1] /\ m[6] = z[2]
    <2>1. /\ m \in Seq(Byte) /\ Len(m) = Len(two) + Len(z)
          /\ \A i \in 1 .. Len(two) + Len(z) :
               m[i] = IF i <= Len(two) THEN two[i] ELSE z[i - Len(two)]
      BY <1>1, ConcatProperties
    <2> HIDE DEF m
    <2> QED
      BY <1>1, <2>1
  <1> HIDE DEF m
  <1>3. \A i \in 1 .. Len(m) : m[i] \in Byte
    BY <1>2, ElementOfSeq
  <1>4. SubSeq(m, 3, 4)[1] = m[3] /\ SubSeq(m, 3, 4)[2] = m[4]
    BY <1>2, <1>3, SubSeqProperties
  <1>5. SubSeq(m, 5, 6)[1] = m[5] /\ SubSeq(m, 5, 6)[2] = m[6]
    BY <1>2, <1>3, SubSeqProperties
  <1> QED
    BY <1>1, <1>2, <1>4, <1>5 DEF m, two

LEMMA FormatRead ==
    ASSUME NEW f \in Formats
    PROVE  /\ FormatMessage(f) \in Seq(Byte) /\ Len(FormatMessage(f)) = 6
           /\ getShortBE(FormatMessage(f)) = f.nChannels
           /\ getShortBE(SubSeq(FormatMessage(f), 3, 4)) = f.wBitsPerSample \div 8
           /\ getShortBE(SubSeq(FormatMessage(f), 5, 6)) = f.nSamplesPerSec
           /\ f.nChannels \in {1, 2} /\ f.wBitsPerSample \div 8 \in {1, 2, 4}
  <1> DEFINE v == f.nChannels
             w == f.wBitsPerSample \div 8
             r == f.nSamplesPerSec
             x == sendShort(v)
             y == sendShort(w)
             z == sendShort(r)
             m == (x \o y) \o z
  <1>1. /\ f.nChannels \in {1, 2} /\ f.wBitsPerSample \in {8, 16, 32}
        /\ f.nSamplesPerSec \in Nat /\ f.nSamplesPerSec <= 65535
    BY DialogueAssumption
  <1>2. /\ v \in Int /\ 0 <= v /\ v <= 65535 /\ v \in {1, 2}
        /\ w \in Int /\ 0 <= w /\ w <= 65535 /\ w \in {1, 2, 4}
        /\ r \in Int /\ 0 <= r /\ r <= 65535 /\ r % 65536 = r
    BY <1>1
  <1>3. m = FormatMessage(f)
    BY <1>2 DEF FormatMessage
  <1> HIDE DEF v, w, r
  <1>4. /\ Message(x, 2) /\ x[1] * 256 + x[2] = v
        /\ Message(y, 2) /\ y[1] * 256 + y[2] = w
        /\ Message(z, 2) /\ z[1] * 256 + z[2] = r
    BY <1>2, ShortRoundTrip
  <1> HIDE DEF x, y, z
  <1>5. /\ x \in Seq(Byte) /\ Len(x) = 2 /\ y \in Seq(Byte) /\ Len(y) = 2
        /\ z \in Seq(Byte) /\ Len(z) = 2
    BY <1>4, MessageIsSeq
  <1>6. /\ m \in Seq(Byte) /\ Len(m) = 6
        /\ m[1] = x[1] /\ m[2] = x[2]
        /\ SubSeq(m, 3, 4)[1] = y[1] /\ SubSeq(m, 3, 4)[2] = y[2]
        /\ SubSeq(m, 5, 6)[1] = z[1] /\ SubSeq(m, 5, 6)[2] = z[2]
    BY <1>5, ThreeShorts
  <1> HIDE DEF m
  <1>7. /\ getShortBE(m) = v /\ getShortBE(SubSeq(m, 3, 4)) = w
        /\ getShortBE(SubSeq(m, 5, 6)) = r
    BY <1>4, <1>6 DEF getShortBE
  <1> QED
    BY <1>2, <1>3, <1>6, <1>7 DEF v, w, r

-----------------------------------------------------------------------------
(* The dialogue: where the two sides are together, and what is to be read  *)

\* What a side has not yet understood: read of it, and still on its way.
Inbound  == got \o toServer
Incoming == read \o toClient

BytesTyped ==
    /\ got \in Seq(Byte) /\ toServer \in Seq(Byte)
    /\ read \in Seq(Byte) /\ toClient \in Seq(Byte)

\* Neither side is ever more than one message ahead of the other, except that
\* the client may end a session whose port was not read yet.
Together ==
    \/ place = "idle" /\ server = "command" /\ step = "idle"
    \/ place = "sync" /\ server = "command" /\ step = "idle"
    \/ place = "sync" /\ server = "request" /\ step \in {"idle", "request"}
    \/ place = "sync" /\ server = "answer" /\ step = "serving"
    \/ place = "sync" /\ server = "format" /\ step = "response"
    \/ place = "format" /\ server \in {"format", "port"} /\ step = "idle"
    \/ place = "port" /\ server = "port" /\ step = "idle"
    \/ /\ place \in {"playing", "stopping"} /\ server \in {"port", "control"}
       /\ step = "idle"
    \/ place = "left" /\ server # "command" /\ step = "idle"

Understood ==
    /\ command = IF server = "command" THEN 0 ELSE 50
    /\ formatInfo \in {Nothing, FormatMeant(format)} /\ format \in Formats
    /\ place \in {"idle", "sync", "format", "port"} => port = 0
    /\ place \in {"playing", "stopping"} => port \in Ports
    /\ port \in Ports \union {0} /\ streamPort \in {0, port}
    /\ port = 0 => server # "control"

\* What the server has to read.  A client that left may have taken back the
\* end of what it wrote; the port is still read right if it is read.
InboundAsWritten ==
    /\ place \in {"idle", "format", "port"} => Inbound = <<>>
    /\ place = "sync" =>
         Inbound = IF server = "command" THEN CommandMessage
                   ELSE IF step = "request" THEN SYNC ELSE <<>>
    /\ place = "playing" =>
         Inbound = IF server = "port" THEN PortMessage(port) ELSE <<>>
    /\ place = "stopping" =>
         IF server = "port" THEN Inbound = PortMessage(port) \o StopMessage
                            ELSE Inbound \in {<<>>, StopMessage}
    /\ place = "left" =>
         /\ server = "format" => port = 0
         /\ server \in {"format", "port"} /\ port = 0 => Inbound = <<>>
         /\ server = "port" /\ port # 0 =>
              Begins(Inbound, PortMessage(port) \o StopMessage)

\* What a client that did not leave has to read.
IncomingAsWritten ==
    /\ place = "idle" => Incoming = <<>>
    /\ place = "sync" =>
         Incoming = IF step = "response" THEN TimesMessage(t2, t3) ELSE <<>>
    /\ place = "format" =>
         Incoming = IF server = "port" THEN FormatMessage(format) ELSE <<>>
    /\ place \in {"port", "playing", "stopping"} => Incoming = <<>>

\* The two readings are values of an int64_t.
TimesFit ==
    /\ now \in 0 .. MaxTime /\ skew \in Skew
    /\ t2 \in Int /\ FitsLong(t2) /\ t3 \in Int /\ FitsLong(t3)

DialogueInv ==
    /\ BytesTyped /\ Together /\ Understood /\ InboundAsWritten
    /\ IncomingAsWritten /\ TimesFit

LEMMA ZeroFits == FitsLong(0)
  BY DEF FitsLong

LEMMA DialogueStarts == DialogueInit => DialogueInv
  <1> SUFFICES ASSUME DialogueInit PROVE DialogueInv
    OBVIOUS
  <1>1. /\ got = <<>> /\ toServer = <<>> /\ read = <<>> /\ toClient = <<>>
        /\ place = "idle" /\ server = "command" /\ step = "idle"
    BY DEF DialogueInit, Init
  <1>2. BytesTyped /\ Inbound = <<>> /\ Incoming = <<>>
    <2>1. <<>> \in Seq(Byte) /\ <<>> \o <<>> = <<>>
      BY ConcatEmptySeq
    <2> QED
      BY <1>1, <2>1 DEF BytesTyped, Inbound, Incoming
  <1>3. Understood
    BY DEF DialogueInit, Understood
  <1>4. TimesFit
    BY SyncAssumption, ZeroFits DEF DialogueInit, Init, TimesFit
  <1> QED
    BY <1>1, <1>2, <1>3, <1>4
       DEF DialogueInv, Together, InboundAsWritten, IncomingAsWritten

\* The server's clock, at any time, is a value of an int64_t.
LEMMA ServerClockFits ==
    ASSUME TimesFit
    PROVE  ServerClock \in Int /\ FitsLong(ServerClock)
  BY SyncAssumption, LongAssumption DEF TimesFit, ServerClock

\* A step that only moves what is to be understood keeps the invariant.
LEMMA OnlyBytesMove ==
    ASSUME DialogueInv, BytesTyped', Inbound' = Inbound, Incoming' = Incoming,
           UNCHANGED <<vars, place, server, valueVars>>
    PROVE  DialogueInv'
  <1>1. /\ UNCHANGED <<now, skew, step, t2, t3>>
        /\ UNCHANGED <<place, server, command, format, formatInfo, port, streamPort>>
    BY DEF vars, valueVars
  <1>2. Together' /\ Understood' /\ TimesFit'
    BY <1>1 DEF DialogueInv, Together, Understood, TimesFit
  <1>3. InboundAsWritten' /\ IncomingAsWritten'
    BY <1>1 DEF DialogueInv, InboundAsWritten, IncomingAsWritten
  <1> QED
    BY <1>2, <1>3 DEF DialogueInv

LEMMA ReceivingKeeps ==
    ASSUME DialogueInv, ServerReceives \/ ClientReceives
    PROVE  DialogueInv'
  <1> USE DEF DialogueInv
  <1>1. CASE ServerReceives
    <2>1. PICK n \in 1 .. 4 - Len(got) :
            /\ n <= Len(toServer)
            /\ got' = got \o SubSeq(toServer, 1, n)
            /\ toServer' = SubSeq(toServer, n + 1, Len(toServer))
      BY <1>1 DEF ServerReceives
    <2>2. n \in Nat /\ 1 <= n /\ n <= Len(toServer)
      <3>1. Len(got) \in Nat
        BY LenProperties DEF BytesTyped
      <3> QED
        BY <2>1, <3>1
    <2>3. /\ got' \in Seq(Byte) /\ toServer' \in Seq(Byte)
          /\ got' \o toServer' = got \o toServer
      BY <2>1, <2>2, ReadsPart DEF BytesTyped
    <2>4. UNCHANGED <<vars, place, server, toClient, read, valueVars>>
      BY <1>1 DEF ServerReceives
    <2>5. BytesTyped' /\ Inbound' = Inbound /\ Incoming' = Incoming
      BY <2>3, <2>4 DEF BytesTyped, Inbound, Incoming
    <2> QED
      BY <2>4, <2>5, OnlyBytesMove
  <1>2. CASE ClientReceives
    <2>1. PICK n \in 1 .. Expected - Len(read) :
            /\ n <= Len(toClient)
            /\ read' = read \o SubSeq(toClient, 1, n)
            /\ toClient' = SubSeq(toClient, n + 1, Len(toClient))
      BY <1>2 DEF ClientReceives
    <2>2. n \in Nat /\ 1 <= n /\ n <= Len(toClient)
      <3>1. Len(read) \in Nat /\ Expected \in Nat
        BY LenProperties DEF BytesTyped, Expected
      <3> QED
        BY <2>1, <3>1
    <2>3. /\ read' \in Seq(Byte) /\ toClient' \in Seq(Byte)
          /\ read' \o toClient' = read \o toClient
      BY <2>1, <2>2, ReadsPart DEF BytesTyped
    <2>4. UNCHANGED <<vars, place, server, toServer, got, valueVars>>
      BY <1>2 DEF ClientReceives
    <2>5. BytesTyped' /\ Inbound' = Inbound /\ Incoming' = Incoming
      BY <2>3, <2>4 DEF BytesTyped, Inbound, Incoming
    <2> QED
      BY <2>4, <2>5, OnlyBytesMove
  <1> QED
    BY <1>1, <1>2

-----------------------------------------------------------------------------
(* The steps of the dialogue                                               *)

LEMMA CommandKeeps ==
    ASSUME DialogueInv, SendCommand \/ ReadCommand
    PROVE  DialogueInv'
  <1>0. BytesTyped /\ Together /\ Understood /\ InboundAsWritten
        /\ IncomingAsWritten /\ TimesFit
    BY DEF DialogueInv
  <1>1. CASE SendCommand
    <2>1. /\ place = "idle" /\ place' = "sync"
          /\ toServer' = toServer \o CommandMessage
          /\ UNCHANGED <<now, skew, step, t2, t3, server, toClient, got, read,
                         command, format, formatInfo, port, streamPort>>
      BY <1>1 DEF SendCommand, Writes, CommandMessage, vars, valueVars
    <2>2. server = "command" /\ step = "idle" /\ Inbound = <<>> /\ Incoming = <<>>
      BY <1>0, <2>1 DEF Together, InboundAsWritten, IncomingAsWritten
    <2>3. /\ toServer' \in Seq(Byte) /\ Inbound' = CommandMessage
          /\ Incoming' = <<>>
      <3>0. CommandMessage \in Seq(Byte)
        BY CommandRead
      <3>1. /\ toServer \o CommandMessage \in Seq(Byte)
            /\ got \o (toServer \o CommandMessage) = CommandMessage
        BY <1>0, <2>2, <3>0, WrittenAfterNothing DEF BytesTyped, Inbound
      <3> QED
        BY <2>1, <2>2, <3>1 DEF Inbound, Incoming
    <2>4. BytesTyped' /\ Together'
      BY <1>0, <2>1, <2>2, <2>3 DEF BytesTyped, Together
    <2>5. Understood' /\ TimesFit'
      BY <1>0, <2>1 DEF Understood, TimesFit
    <2>6. InboundAsWritten' /\ IncomingAsWritten'
      BY <2>1, <2>2, <2>3 DEF InboundAsWritten, IncomingAsWritten
    <2> QED
      BY <2>4, <2>5, <2>6 DEF DialogueInv
  <1>2. CASE ReadCommand
    <2>1. /\ server = "command" /\ server' = "request" /\ Len(got) = 4
          /\ command' = bufferLEToUint32(got) /\ got' = <<>>
          /\ UNCHANGED <<now, skew, step, t2, t3, place, toServer, toClient, read,
                         format, formatInfo, port, streamPort>>
      BY <1>2 DEF ReadCommand, Complete, vars
    <2>2. place = "sync" /\ Inbound = CommandMessage
      <3>1. place # "idle"
        <4>1. got # <<>>
          BY <2>1
        <4> QED
          BY <1>0, <4>1, NothingLeft DEF InboundAsWritten, Inbound, BytesTyped
      <3> QED
        BY <1>0, <2>1, <3>1 DEF Together, InboundAsWritten
    <2>3. got = CommandMessage /\ toServer = <<>>
      <3>0. CommandMessage \in Seq(Byte) /\ Len(got) = Len(CommandMessage)
        BY <2>1, CommandRead
      <3> QED
        BY <1>0, <2>2, <3>0, OnlyMessageRead DEF BytesTyped, Inbound
    <2>4. step = "idle" /\ command' = 50
      BY <1>0, <2>1, <2>2, <2>3, CommandRead DEF Together
    <2>5. <<>> \in Seq(Byte) /\ Inbound' = <<>> /\ Incoming' = Incoming
      BY <2>1, <2>3, ConcatEmptySeq DEF Inbound, Incoming
    <2>6. BytesTyped' /\ Together'
      BY <1>0, <2>1, <2>2, <2>4, <2>5 DEF BytesTyped, Together
    <2>7. Understood' /\ TimesFit'
      BY <1>0, <2>1, <2>2, <2>4 DEF Understood, TimesFit
    <2>8. InboundAsWritten' /\ IncomingAsWritten'
      BY <1>0, <2>1, <2>2, <2>4, <2>5 DEF InboundAsWritten, IncomingAsWritten
    <2> QED
      BY <2>6, <2>7, <2>8 DEF DialogueInv
  <1> QED
    BY <1>1, <1>2

\* The server goes on when the client has left: up to the format nobody asks
\* what there is to read.
LEMMA ServesOn ==
    ASSUME BytesTyped, Together, Understood, TimesFit, place = "left",
           server \in {"request", "answer"},
           server' \in {"answer", "waiting", "stopped", "dead"},
           got' \in {got, <<>>},
           UNCHANGED <<now, skew, step, t2, t3, place, toServer, toClient, read,
                       command, format, formatInfo, port, streamPort>>
    PROVE  DialogueInv'
  <1>1. BytesTyped'
    <2>1. <<>> \in Seq(Byte)
      BY ConcatEmptySeq
    <2> QED
      BY <2>1 DEF BytesTyped
  <1>2. Together' /\ Understood' /\ TimesFit'
    BY DEF Together, Understood, TimesFit
  <1>3. InboundAsWritten' /\ IncomingAsWritten'
    BY DEF InboundAsWritten, IncomingAsWritten
  <1> QED
    BY <1>1, <1>2, <1>3 DEF DialogueInv

LEMMA AskingKeeps ==
    ASSUME DialogueInv, AskInBytes \/ ArrivesInBytes
    PROVE  DialogueInv'
  <1>0. BytesTyped /\ Together /\ Understood /\ InboundAsWritten
        /\ IncomingAsWritten /\ TimesFit
    BY DEF DialogueInv
  <1>1. CASE AskInBytes
    <2>1. /\ place = "sync" /\ server = "request" /\ step = "idle"
          /\ step' = "request" /\ toServer' = toServer \o SYNC
          /\ UNCHANGED <<now, skew, t2, t3, place, server, toClient, got, read,
                         command, format, formatInfo, port, streamPort>>
      BY <1>1 DEF AskInBytes, Ask, Writes, valueVars
    <2>2. Inbound = <<>> /\ Incoming = <<>>
      BY <1>0, <2>1 DEF InboundAsWritten, IncomingAsWritten
    <2>3. toServer' \in Seq(Byte) /\ Inbound' = SYNC /\ Incoming' = <<>>
      <3>0. SYNC \in Seq(Byte)
        BY RequestRead
      <3>1. /\ toServer \o SYNC \in Seq(Byte)
            /\ got \o (toServer \o SYNC) = SYNC
        BY <1>0, <2>2, <3>0, WrittenAfterNothing DEF BytesTyped, Inbound
      <3> QED
        BY <2>1, <2>2, <3>1 DEF Inbound, Incoming
    <2>4. BytesTyped' /\ Together'
      BY <1>0, <2>1, <2>3 DEF BytesTyped, Together
    <2>5. Understood' /\ TimesFit'
      BY <1>0, <2>1 DEF Understood, TimesFit
    <2>6. InboundAsWritten' /\ IncomingAsWritten'
      BY <2>1, <2>3 DEF InboundAsWritten, IncomingAsWritten
    <2> QED
      BY <2>4, <2>5, <2>6 DEF DialogueInv
  <1>2. CASE ArrivesInBytes /\ Arrives
    <2>1. /\ server = "request" /\ step = "request" /\ Len(got) = 4
          /\ step' = "serving" /\ t2' = ServerClock /\ got' = <<>>
          /\ server' = IF got = SYNC THEN "answer" ELSE "dead"
          /\ UNCHANGED <<now, skew, t3, place, toServer, toClient, read,
                         command, format, formatInfo, port, streamPort>>
      BY <1>2 DEF ArrivesInBytes, Arrives, Complete, valueVars
    <2>2. place = "sync" /\ Inbound = SYNC
      BY <1>0, <2>1 DEF Together, InboundAsWritten
    <2>3. got = SYNC /\ toServer = <<>>
      BY <1>0, <2>1, <2>2, OnlyMessageRead, RequestRead DEF BytesTyped, Inbound
    <2>4. server' = "answer" /\ Incoming = <<>>
      BY <1>0, <2>1, <2>2, <2>3 DEF IncomingAsWritten
    <2>5. <<>> \in Seq(Byte) /\ Inbound' = <<>> /\ Incoming' = <<>>
      BY <2>1, <2>3, <2>4, ConcatEmptySeq DEF Inbound, Incoming
    <2>6. BytesTyped' /\ Together'
      BY <1>0, <2>1, <2>2, <2>4, <2>5 DEF BytesTyped, Together
    <2>7. Understood'
      BY <1>0, <2>1, <2>2, <2>4 DEF Understood
    <2>8. TimesFit'
      BY <1>0, <2>1, ServerClockFits DEF TimesFit
    <2>9. InboundAsWritten' /\ IncomingAsWritten'
      BY <2>1, <2>2, <2>4, <2>5 DEF InboundAsWritten, IncomingAsWritten
    <2> QED
      BY <2>6, <2>7, <2>8, <2>9 DEF DialogueInv
  <1>3. CASE ArrivesInBytes /\ place = "left" /\ UNCHANGED vars
    <2>1. /\ server' \in {"answer", "dead"} /\ got' = <<>>
          /\ UNCHANGED <<now, skew, step, t2, t3, place, toServer, toClient, read,
                         command, format, formatInfo, port, streamPort>>
      BY <1>3 DEF ArrivesInBytes, vars, valueVars
    <2>2. server = "request"
      BY <1>3 DEF ArrivesInBytes
    <2> QED
      BY <1>0, <1>3, <2>1, <2>2, ServesOn
  <1> QED
    BY <1>1, <1>2, <1>3 DEF ArrivesInBytes

\* Its answer to a client that has left.
LEMMA LateAnswerKeeps ==
    ASSUME DialogueInv, AnswersInBytes, place = "left"
    PROVE  DialogueInv' /\ UNCHANGED vars
  <1>0. BytesTyped /\ Together /\ Understood /\ TimesFit
    BY DEF DialogueInv
  <1>1. step = "idle"
    BY <1>0 DEF Together
  <1>2. ~Answers
    BY <1>1 DEF Answers
  <1>3. /\ server = "answer" /\ server' \in {"dead", "waiting", "stopped"}
        /\ UNCHANGED vars
        /\ UNCHANGED <<place, toServer, toClient, got, read, valueVars>>
    BY <1>2 DEF AnswersInBytes
  <1>4. /\ got' = got
        /\ UNCHANGED <<now, skew, step, t2, t3, place, toServer, toClient, read,
                       command, format, formatInfo, port, streamPort>>
    BY <1>3 DEF vars, valueVars
  <1>5. DialogueInv'
    BY <1>0, <1>3, <1>4, ServesOn
  <1> QED
    BY <1>3, <1>5

LEMMA AnswerKeeps ==
    ASSUME DialogueInv, AnswersInBytes, place # "left"
    PROVE  DialogueInv'
  <1>0. BytesTyped /\ Together /\ Understood /\ InboundAsWritten
        /\ IncomingAsWritten /\ TimesFit
    BY DEF DialogueInv
  <1>1. /\ server = "answer" /\ step = "serving" /\ step' = "response"
        /\ t3' = ServerClock /\ toClient' = toClient \o TimesMessage(t2, t3')
        /\ server' = IF command = 50 THEN "format" ELSE "stopped"
        /\ UNCHANGED <<now, skew, t2, place, toServer, got, read,
                       command, format, formatInfo, port, streamPort>>
    BY DEF AnswersInBytes, Answers, Sends, TimesMessage, valueVars
  <1>2. place = "sync" /\ server' = "format" /\ Inbound = <<>> /\ Incoming = <<>>
    BY <1>0, <1>1 DEF Together, Understood, InboundAsWritten, IncomingAsWritten
  <1>3. TimesFit'
    BY <1>0, <1>1, ServerClockFits DEF TimesFit
  <1>4. TimesMessage(t2, t3)' = TimesMessage(t2, t3') /\ TimesMessage(t2, t3') \in Seq(Byte)
    <2>1. t2 \in Int /\ t3' \in Int /\ FitsLong(t2) /\ FitsLong(t3')
      BY <1>0, <1>3 DEF TimesFit
    <2> QED
      BY <1>1, <2>1, TimesRead
  <1>5. toClient' \in Seq(Byte) /\ Incoming' = TimesMessage(t2, t3')
    <2>1. /\ toClient \o TimesMessage(t2, t3') \in Seq(Byte)
          /\ read \o (toClient \o TimesMessage(t2, t3')) = TimesMessage(t2, t3')
      <3> DEFINE m == TimesMessage(t2, t3')
      <3> HIDE DEF m
      <3>1. m \in Seq(Byte)
        BY <1>4 DEF m
      <3>2. toClient \o m \in Seq(Byte) /\ read \o (toClient \o m) = m
        BY <1>0, <1>2, <3>1, WrittenAfterNothing DEF BytesTyped, Incoming
      <3> QED
        BY <3>2 DEF m
    <2> QED
      BY <1>1, <2>1 DEF Incoming
  <1>6. BytesTyped' /\ Together' /\ Inbound' = <<>>
    BY <1>0, <1>1, <1>2, <1>5 DEF BytesTyped, Together, Inbound
  <1>7. Understood'
    BY <1>0, <1>1, <1>2 DEF Understood
  <1>8. InboundAsWritten'
    BY <1>1, <1>2, <1>6 DEF InboundAsWritten
  <1>9. IncomingAsWritten'
    BY <1>1, <1>2, <1>4, <1>5 DEF IncomingAsWritten
  <1> QED
    BY <1>3, <1>6, <1>7, <1>8, <1>9 DEF DialogueInv

\* The client computes with the times that the server read.
LEMMA TimesUnderstood ==
    ASSUME DialogueInv, AdjustFromBytes
    PROVE  /\ read = TimesMessage(t2, t3)
           /\ toClient = <<>>
           /\ Adjust(t2, t3)
  <1>0. BytesTyped /\ Together /\ Understood /\ IncomingAsWritten /\ TimesFit
    BY DEF DialogueInv
  <1> DEFINE times == TimesMessage(t2, t3)
  <1>1. /\ place = "sync" /\ step = "response" /\ Len(read) = 16
        /\ Adjust(getLongLE(SubSeq(read, 1, 8)), getLongLE(SubSeq(read, 9, 16)))
    BY DEF AdjustFromBytes, Adjust, Expected
  <1>2. /\ times \in Seq(Byte) /\ Len(times) = 16
        /\ getLongLE(SubSeq(times, 1, 8)) = t2
        /\ getLongLE(SubSeq(times, 9, 16)) = t3
    BY <1>0, TimesRead DEF TimesFit
  <1>3. read \o toClient = times
    BY <1>0, <1>1 DEF IncomingAsWritten, Incoming
  <1> HIDE DEF times
  <1>4. Len(read) = Len(times)
    BY <1>1, <1>2
  <1>5. read = times /\ toClient = <<>>
    BY <1>0, <1>2, <1>3, <1>4, OnlyMessageRead DEF BytesTyped
  <1>6. Adjust(t2, t3)
    BY <1>1, <1>2, <1>5, Zenon
  <1> QED
    BY <1>5, <1>6 DEF times

LEMMA AdjustingKeeps ==
    ASSUME DialogueInv, AdjustFromBytes
    PROVE  DialogueInv'
  <1>0. BytesTyped /\ Together /\ Understood /\ InboundAsWritten
        /\ IncomingAsWritten /\ TimesFit
    BY DEF DialogueInv
  <1>1. /\ place = "sync" /\ place' = "format" /\ step = "response"
        /\ step' = "idle" /\ read' = <<>>
        /\ UNCHANGED <<now, skew, t2, t3, server, toServer, toClient, got,
                       command, format, formatInfo, port, streamPort>>
    BY DEF AdjustFromBytes, Adjust, valueVars
  <1>2. server = "format" /\ Inbound = <<>>
    BY <1>0, <1>1 DEF Together, InboundAsWritten
  <1>3. toClient = <<>>
    BY TimesUnderstood
  <1>4. read' \in Seq(Byte) /\ Incoming' = toClient /\ Inbound' = <<>>
    BY <1>0, <1>1, <1>2, ConcatEmptySeq DEF BytesTyped, Incoming, Inbound
  <1>5. BytesTyped' /\ Together'
    BY <1>0, <1>1, <1>2, <1>4 DEF BytesTyped, Together
  <1>6. Understood' /\ TimesFit'
    BY <1>0, <1>1 DEF Understood, TimesFit
  <1>7. InboundAsWritten' /\ IncomingAsWritten'
    BY <1>1, <1>2, <1>3, <1>4 DEF InboundAsWritten, IncomingAsWritten
  <1> QED
    BY <1>5, <1>6, <1>7 DEF DialogueInv

LEMMA AnnouncingKeeps ==
    ASSUME DialogueInv, AnnounceFormat
    PROVE  DialogueInv'
  <1>0. BytesTyped /\ Together /\ Understood /\ InboundAsWritten
        /\ IncomingAsWritten /\ TimesFit
    BY DEF DialogueInv
  <1>1. /\ server = "format" /\ place # "sync"
        /\ UNCHANGED <<now, skew, step, t2, t3, place, toServer, got, read,
                       command, format, formatInfo, port, streamPort>>
    BY DEF AnnounceFormat, vars, valueVars
  <1>2. Inbound' = Inbound
    BY <1>1 DEF Inbound
  <1>3. TimesFit'
    BY <1>0, <1>1 DEF TimesFit
  <1>4. CASE place = "left" /\ server' = "dead" /\ UNCHANGED toClient
    <2>1. BytesTyped' /\ Together' /\ Understood'
      BY <1>0, <1>1, <1>4 DEF BytesTyped, Together, Understood
    <2>2. InboundAsWritten' /\ IncomingAsWritten'
      BY <1>1, <1>4 DEF InboundAsWritten, IncomingAsWritten
    <2> QED
      BY <1>3, <2>1, <2>2 DEF DialogueInv
  <1>5. CASE toClient' = toClient \o FormatMessage(format) /\ server' = "port"
    <2> DEFINE m == FormatMessage(format)
    <2>1. m \in Seq(Byte)
      BY <1>0, FormatRead DEF Understood
    <2>2. /\ toClient \o m \in Seq(Byte)
          /\ read \o (toClient \o m) = Incoming \o m
          /\ Incoming = <<>> => read \o (toClient \o m) = m
      <3> HIDE DEF m
      <3>1. read \in Seq(Byte) /\ toClient \in Seq(Byte)
        BY <1>0 DEF BytesTyped
      <3>2. toClient \o m \in Seq(Byte)
        BY <2>1, <3>1, ConcatProperties
      <3>3. read \o (toClient \o m) = (read \o toClient) \o m
        BY <2>1, <3>1, Regrouped, Zenon
      <3>4. ASSUME read \o toClient = <<>> PROVE read \o (toClient \o m) = m
        BY <2>1, <3>1, <3>4, WrittenAfterNothing
      <3> QED
        BY <3>2, <3>3, <3>4 DEF Incoming
    <2>3. /\ BytesTyped' /\ Incoming' = Incoming \o m
          /\ Incoming = <<>> => Incoming' = m
      <3> HIDE DEF m
      <3>1. toClient' = toClient \o m
        BY <1>5 DEF m
      <3> QED
        BY <1>0, <1>1, <2>2, <3>1 DEF BytesTyped, Incoming
    <2>4. Together' /\ Understood'
      BY <1>0, <1>1, <1>5 DEF Together, Understood
    <2>5. InboundAsWritten'
      BY <1>0, <1>1, <1>2, <1>5 DEF Together, InboundAsWritten
    <2>6. IncomingAsWritten'
      <3>2. CASE place = "format"
        <4>1. Incoming' = m
          BY <1>0, <1>1, <2>3, <3>2 DEF IncomingAsWritten
        <4> QED
          BY <1>1, <1>5, <3>2, <4>1 DEF IncomingAsWritten
      <3>3. CASE place = "left"
        BY <1>1, <3>3 DEF IncomingAsWritten
      <3> QED
        BY <1>0, <1>1, <3>2, <3>3 DEF Together
    <2> QED
      BY <1>3, <2>3, <2>4, <2>5, <2>6 DEF DialogueInv
  <1> QED
    BY <1>4, <1>5 DEF AnnounceFormat, Sends, FormatMessage

LEMMA FormatUnderstood ==
    ASSUME DialogueInv, ReadFormatInfo
    PROVE  /\ server = "port" /\ toClient = <<>>
           /\ formatInfo' = FormatMeant(format) /\ place' = "port"
  <1>0. BytesTyped /\ Together /\ Understood /\ IncomingAsWritten
    BY DEF DialogueInv
  <1> DEFINE m == FormatMessage(format)
  <1>1. /\ place = "format" /\ Len(read) = 6
        /\ formatInfo' = [nChannels      |-> getShortBE(read),
                          bytesPerSample |-> getShortBE(SubSeq(read, 3, 4)),
                          sampleRate     |-> getShortBE(SubSeq(read, 5, 6))]
        /\ place' = IF formatInfo'.nChannels \in {1, 2}
                         /\ formatInfo'.bytesPerSample \in {1, 2, 4}
                      THEN "port" ELSE "error"
    BY DEF ReadFormatInfo, Expected
  <1>2. /\ m \in Seq(Byte) /\ Len(m) = 6
        /\ getShortBE(m) = format.nChannels
        /\ getShortBE(SubSeq(m, 3, 4)) = format.wBitsPerSample \div 8
        /\ getShortBE(SubSeq(m, 5, 6)) = format.nSamplesPerSec
        /\ format.nChannels \in {1, 2}
        /\ format.wBitsPerSample \div 8 \in {1, 2, 4}
    <2>1. format \in Formats
      BY <1>0 DEF Understood
    <2> QED
      BY <2>1, FormatRead
  <1> HIDE DEF m
  <1>3. server = "port"
    <2>1. read # <<>>
      BY <1>1
    <2> QED
      BY <1>0, <1>1, <2>1, NothingLeft
         DEF Together, IncomingAsWritten, Incoming, BytesTyped
  <1>4. read \o toClient = m
    BY <1>0, <1>1, <1>3 DEF IncomingAsWritten, Incoming, m
  <1>5. m \in Seq(Byte) /\ Len(read) = Len(m)
    BY <1>1, <1>2
  <1>6. read = m /\ toClient = <<>>
    BY <1>0, <1>4, <1>5, OnlyMessageRead DEF BytesTyped
  <1>7. formatInfo' = FormatMeant(format)
    BY <1>1, <1>2, <1>6, Zenon DEF FormatMeant
  <1>8. place' = "port"
    BY <1>1, <1>2, <1>7 DEF FormatMeant
  <1> QED
    BY <1>3, <1>6, <1>7, <1>8

LEMMA ReadingFormatKeeps ==
    ASSUME DialogueInv, ReadFormatInfo
    PROVE  DialogueInv'
  <1>0. BytesTyped /\ Together /\ Understood /\ InboundAsWritten /\ TimesFit
    BY DEF DialogueInv
  <1>1. /\ place = "format" /\ read' = <<>>
        /\ UNCHANGED <<now, skew, step, t2, t3, server, toServer, toClient, got,
                       command, format, port, streamPort>>
    BY DEF ReadFormatInfo, vars
  <1>2. /\ server = "port" /\ toClient = <<>>
        /\ formatInfo' = FormatMeant(format) /\ place' = "port"
    BY FormatUnderstood
  <1>3. /\ read' \in Seq(Byte) /\ Incoming' = <<>>
        /\ Inbound = <<>> /\ Inbound' = <<>>
    BY <1>0, <1>1, <1>2, ConcatEmptySeq
       DEF InboundAsWritten, Incoming, Inbound
  <1>4. BytesTyped' /\ Together'
    BY <1>0, <1>1, <1>2, <1>3 DEF BytesTyped, Together
  <1>5. Understood' /\ TimesFit'
    BY <1>0, <1>1, <1>2 DEF Understood, TimesFit
  <1>6. InboundAsWritten' /\ IncomingAsWritten'
    BY <1>1, <1>2, <1>3 DEF InboundAsWritten, IncomingAsWritten
  <1> QED
    BY <1>4, <1>5, <1>6 DEF DialogueInv

LEMMA PortKeeps ==
    ASSUME DialogueInv, SendUdpPort
    PROVE  DialogueInv'
  <1>0. BytesTyped /\ Together /\ Understood /\ InboundAsWritten
        /\ IncomingAsWritten /\ TimesFit
    BY DEF DialogueInv
  <1>1. /\ place = "port" /\ place' = "playing" /\ port' \in Ports
        /\ toServer' = toServer \o PortMessage(port')
        /\ UNCHANGED <<now, skew, step, t2, t3, server, toClient, got, read,
                       command, format, formatInfo, streamPort>>
    BY DEF SendUdpPort, Writes, PortMessage, vars
  <1>2. /\ server = "port" /\ step = "idle" /\ port = 0
        /\ Inbound = <<>> /\ Incoming = <<>>
    BY <1>0, <1>1
       DEF Together, Understood, InboundAsWritten, IncomingAsWritten
  <1>3. toServer' \in Seq(Byte) /\ Inbound' = PortMessage(port')
    <2> DEFINE m == PortMessage(port')
    <2>1. m \in Seq(Byte)
      BY <1>1, PortRead
    <2>2. toServer' = toServer \o m
      BY <1>1
    <2> HIDE DEF m
    <2>3. toServer \o m \in Seq(Byte) /\ got \o (toServer \o m) = m
      BY <1>0, <1>2, <2>1, WrittenAfterNothing DEF BytesTyped, Inbound
    <2>4. toServer' \in Seq(Byte) /\ Inbound' = m
      BY <1>1, <2>2, <2>3 DEF Inbound
    <2> QED
      BY <2>4 DEF m
  <1>4. BytesTyped' /\ Together' /\ Incoming' = <<>>
    BY <1>0, <1>1, <1>2, <1>3 DEF BytesTyped, Together, Incoming
  <1>5. Understood' /\ TimesFit'
    <2>1. streamPort = 0 /\ port' # 0
      BY <1>0, <1>1, <1>2, DialogueAssumption DEF Understood
    <2> QED
      BY <1>0, <1>1, <1>2, <2>1 DEF Understood, TimesFit
  <1>6. InboundAsWritten' /\ IncomingAsWritten'
    BY <1>1, <1>2, <1>3, <1>4 DEF InboundAsWritten, IncomingAsWritten
  <1> QED
    BY <1>4, <1>5, <1>6 DEF DialogueInv

\* The server sends to the port that the client chose, though the client may
\* have written the end of the session behind it or have left.
LEMMA PortUnderstood ==
    ASSUME DialogueInv, ReadUdpPort
    PROVE  /\ place \in {"playing", "stopping", "left"} /\ port \in Ports
           /\ streamPort' = port
           /\ place = "playing" => toServer = <<>>
           /\ place = "stopping" => toServer = StopMessage
  <1>0. BytesTyped /\ Together /\ Understood /\ InboundAsWritten
    BY DEF DialogueInv
  <1>1. /\ server = "port" /\ Len(got) = 4 /\ got # <<>>
        /\ streamPort' = PortOf(got)
    <2>1. server = "port" /\ Len(got) = 4 /\ streamPort' = PortOf(got)
      BY DEF ReadUdpPort, Complete, PortOf
    <2> QED
      BY <2>1
  <1>2. Inbound # <<>>
    BY <1>0, <1>1, NothingLeft DEF Inbound, BytesTyped
  <1>3. place \in {"playing", "stopping", "left"} /\ port \in Ports
    BY <1>0, <1>1, <1>2 DEF Together, Understood, InboundAsWritten
  <1> DEFINE m == PortMessage(port)
  <1>4. m \in Seq(Byte) /\ Len(m) = 4 /\ PortOf(m) = port
    BY <1>3, PortRead
  <1>5. StopMessage \in Seq(Byte) /\ port # 0
    BY <1>3, StopRead, DialogueAssumption
  <1>6. /\ place = "playing" => got \o toServer = m
        /\ place = "stopping" => got \o toServer = m \o StopMessage
        /\ place = "left" => Begins(got \o toServer, m \o StopMessage)
    BY <1>0, <1>1, <1>5 DEF InboundAsWritten, Inbound
  <1> HIDE DEF m
  <1>7. m \in Seq(Byte) /\ Len(got) = Len(m)
    BY <1>1, <1>4
  <1>8. CASE place = "playing"
    <2>1. got = m /\ toServer = <<>>
      BY <1>0, <1>6, <1>7, <1>8, OnlyMessageRead DEF BytesTyped
    <2>2. streamPort' = port
      BY <1>1, <1>4, <2>1
    <2> QED
      BY <1>3, <1>8, <2>1, <2>2
  <1>9. CASE place = "stopping"
    <2>1. got = m /\ toServer = StopMessage
      BY <1>0, <1>5, <1>6, <1>7, <1>9, FirstMessageRead DEF BytesTyped
    <2>2. streamPort' = port
      BY <1>1, <1>4, <2>1
    <2> QED
      BY <1>3, <1>9, <2>1, <2>2
  <1>10. CASE place = "left"
    <2>1. got = m
      BY <1>0, <1>5, <1>6, <1>7, <1>10, BeginsWithFirst DEF BytesTyped
    <2>2. streamPort' = port
      BY <1>1, <1>4, <2>1
    <2> QED
      BY <1>3, <1>10, <2>1, <2>2
  <1> QED
    BY <1>3, <1>8, <1>9, <1>10

LEMMA ReadingPortKeeps ==
    ASSUME DialogueInv, ReadUdpPort
    PROVE  DialogueInv'
  <1>0. BytesTyped /\ Together /\ Understood /\ InboundAsWritten
        /\ IncomingAsWritten /\ TimesFit
    BY DEF DialogueInv
  <1>1. /\ server = "port" /\ server' = "control" /\ got' = <<>>
        /\ UNCHANGED <<now, skew, step, t2, t3, place, toServer, toClient, read,
                       command, format, formatInfo, port>>
    BY DEF ReadUdpPort, vars
  <1>2. /\ place \in {"playing", "stopping", "left"} /\ port \in Ports
        /\ streamPort' = port
        /\ place = "playing" => toServer = <<>>
        /\ place = "stopping" => toServer = StopMessage
    BY PortUnderstood
  <1>3. got' \in Seq(Byte) /\ Inbound' = toServer /\ Incoming' = Incoming
    BY <1>0, <1>1, ConcatEmptySeq DEF BytesTyped, Inbound, Incoming
  <1>4. BytesTyped' /\ Together'
    BY <1>0, <1>1, <1>2, <1>3 DEF BytesTyped, Together
  <1>5. Understood' /\ TimesFit'
    <2>1. port # 0
      BY <1>2, DialogueAssumption
    <2> QED
      BY <1>0, <1>1, <1>2, <2>1 DEF Understood, TimesFit
  <1>6. InboundAsWritten' /\ IncomingAsWritten'
    BY <1>0, <1>1, <1>2, <1>3 DEF InboundAsWritten, IncomingAsWritten
  <1> QED
    BY <1>4, <1>5, <1>6 DEF DialogueInv

LEMMA StopKeeps ==
    ASSUME DialogueInv, WriteStop
    PROVE  DialogueInv'
  <1>0. BytesTyped /\ Together /\ Understood /\ InboundAsWritten
        /\ IncomingAsWritten /\ TimesFit
    BY DEF DialogueInv
  <1>1. /\ place = "playing" /\ place' = "stopping"
        /\ toServer' = toServer \o StopMessage
        /\ UNCHANGED <<now, skew, step, t2, t3, server, toClient, got, read,
                       command, format, formatInfo, port, streamPort>>
    BY DEF WriteStop, Writes, StopMessage, vars, valueVars
  <1>2. /\ server \in {"port", "control"} /\ step = "idle" /\ Incoming = <<>>
        /\ Inbound = IF server = "port" THEN PortMessage(port) ELSE <<>>
    BY <1>0, <1>1 DEF Together, InboundAsWritten, IncomingAsWritten
  <1>3. StopMessage \in Seq(Byte) /\ got \in Seq(Byte) /\ toServer \in Seq(Byte)
    BY <1>0, StopRead DEF BytesTyped
  <1>4. toServer' \in Seq(Byte)
    BY <1>1, <1>3, ConcatProperties
  <1>5. Inbound' = Inbound \o StopMessage
    <2>1. got \o (toServer \o StopMessage) = (got \o toServer) \o StopMessage
      BY <1>3, Regrouped, Zenon
    <2> QED
      BY <1>1, <2>1 DEF Inbound
  <1>6. <<>> \o StopMessage = StopMessage
    BY <1>3, ConcatEmptySeq
  <1>7. BytesTyped' /\ Together' /\ Incoming' = <<>>
    BY <1>0, <1>1, <1>2, <1>4 DEF BytesTyped, Together, Incoming
  <1>8. Understood' /\ TimesFit'
    BY <1>0, <1>1, <1>2 DEF Understood, TimesFit
  <1>9. InboundAsWritten'
    <2>1. Inbound' = IF server = "port" THEN PortMessage(port) \o StopMessage
                                        ELSE StopMessage
      BY <1>2, <1>5, <1>6
    <2> QED
      BY <1>1, <2>1 DEF InboundAsWritten
  <1>10. IncomingAsWritten'
    BY <1>1, <1>7 DEF IncomingAsWritten
  <1> QED
    BY <1>7, <1>8, <1>9, <1>10 DEF DialogueInv

\* checkAction() does not take the client's 55 for an end; what it reads from
\* a client that left may be anything.
LEMMA CheckingKeeps ==
    ASSUME DialogueInv, CheckAction
    PROVE  DialogueInv'
  <1>0. BytesTyped /\ Together /\ Understood /\ InboundAsWritten
        /\ IncomingAsWritten /\ TimesFit
    BY DEF DialogueInv
  <1> DEFINE Ends == \/ bufferLEToUint32(got) = 0 \/ got[4] >= 128
                     \/ bufferLEToUint32(got) = 50
  <1>1. /\ server = "control" /\ Len(got) = 4 /\ got # <<>> /\ got' = <<>>
        /\ server' = IF Ends THEN "stopped" ELSE "control"
        /\ UNCHANGED <<now, skew, step, t2, t3, place, toServer, toClient, read,
                       command, format, formatInfo, port, streamPort>>
    <2>1. /\ server = "control" /\ Len(got) = 4 /\ got' = <<>>
          /\ server' = IF Ends THEN "stopped" ELSE "control"
          /\ UNCHANGED <<now, skew, step, t2, t3, place, toServer, toClient, read,
                         command, format, formatInfo, port, streamPort>>
      BY DEF CheckAction, Complete, vars, valueVars
    <2> HIDE DEF Ends
    <2>2. got # <<>>
      BY <2>1
    <2> QED
      BY <2>1, <2>2
  <1> HIDE DEF Ends
  <1>2. place \in {"stopping", "left"} /\ step = "idle"
    <2>1. Inbound # <<>>
      BY <1>0, <1>1, NothingLeft DEF Inbound, BytesTyped
    <2> QED
      BY <1>0, <1>1, <2>1 DEF Together, InboundAsWritten
  <1>3. place = "stopping" => toServer = <<>> /\ server' = "control"
    <2> SUFFICES ASSUME place = "stopping"
                 PROVE  toServer = <<>> /\ server' = "control"
      OBVIOUS
    <2>1. Inbound \in {<<>>, StopMessage}
      BY <1>0, <1>1 DEF InboundAsWritten
    <2>2. Inbound # <<>>
      BY <1>0, <1>1, NothingLeft DEF Inbound, BytesTyped
    <2>3. got \o toServer = StopMessage
      BY <2>1, <2>2 DEF Inbound
    <2>4. StopMessage \in Seq(Byte) /\ Len(got) = Len(StopMessage)
      BY <1>1, StopRead
    <2>5. got = StopMessage /\ toServer = <<>>
      BY <1>0, <2>3, <2>4, OnlyMessageRead DEF BytesTyped
    <2>6. ~Ends
      BY <2>5, StopRead DEF Ends
    <2> QED
      BY <1>1, <2>5, <2>6
  <1>4. got' \in Seq(Byte) /\ Inbound' = toServer /\ Incoming' = Incoming
    BY <1>0, <1>1, ConcatEmptySeq DEF BytesTyped, Inbound, Incoming
  <1>5. BytesTyped' /\ Together'
    BY <1>0, <1>1, <1>2, <1>3, <1>4 DEF BytesTyped, Together
  <1>6. Understood' /\ TimesFit'
    BY <1>0, <1>1 DEF Understood, TimesFit
  <1>7. InboundAsWritten' /\ IncomingAsWritten'
    BY <1>0, <1>1, <1>2, <1>3, <1>4 DEF InboundAsWritten, IncomingAsWritten
  <1> QED
    BY <1>5, <1>6, <1>7 DEF DialogueInv

\* Wherever the client closes, and though a reset may discard the end of what
\* it wrote: a server that waits for the port finds it whole or not at all.
LEMMA ClosingKeeps ==
    ASSUME DialogueInv, Close
    PROVE  DialogueInv'
  <1>0. BytesTyped /\ Together /\ Understood /\ InboundAsWritten /\ TimesFit
    BY DEF DialogueInv
  <1>1. /\ place \notin {"idle", "left"}
        /\ place = "sync" => step # "idle"
        /\ place' = "left" /\ step' = "idle"
        /\ toServer' \in {toServer, <<>>} /\ server' \in {server, "waiting"}
        /\ UNCHANGED <<now, skew, t2, t3, toClient, got, read,
                       command, format, formatInfo, port, streamPort>>
    BY DEF Close, Fails, vars, valueVars
  <1>2. server # "command"
    BY <1>0, <1>1 DEF Together
  <1>3. BytesTyped' /\ Together'
    <2>1. <<>> \in Seq(Byte)
      BY ConcatEmptySeq
    <2>2. BytesTyped'
      BY <1>0, <1>1, <2>1 DEF BytesTyped
    <2>3. Together'
      BY <1>1, <1>2 DEF Together
    <2> QED
      BY <2>2, <2>3
  <1>4. Understood' /\ TimesFit'
    BY <1>0, <1>1, <1>2 DEF Understood, TimesFit
  <1>5. server = "format" => port = 0
    BY <1>0, <1>1 DEF Together, Understood
  <1>6. server \in {"format", "port"} /\ port = 0 => Inbound' = <<>>
    <2> SUFFICES ASSUME server \in {"format", "port"}, port = 0
                 PROVE  Inbound' = <<>>
      OBVIOUS
    <2>1. place \in {"sync", "format", "port"}
      BY <1>0, <1>1, DialogueAssumption DEF Together, Understood
    <2>2. step # "request"
      BY <1>0, <2>1 DEF Together
    <2>3. got \o toServer = <<>>
      BY <1>0, <2>1, <2>2 DEF InboundAsWritten, Inbound
    <2>4. got = <<>> /\ toServer = <<>>
      BY <1>0, <2>3, NothingLeft DEF BytesTyped
    <2> QED
      BY <1>1, <2>3, <2>4 DEF Inbound
  <1>7. server = "port" /\ port # 0 =>
          Begins(Inbound', PortMessage(port) \o StopMessage)
    <2> SUFFICES ASSUME server = "port", port # 0
                 PROVE  Begins(Inbound', PortMessage(port) \o StopMessage)
      OBVIOUS
    <2> DEFINE m == PortMessage(port)
    <2>1. place \in {"playing", "stopping"} /\ port \in Ports
      BY <1>0, <1>1 DEF Together, Understood
    <2>2. m \in Seq(Byte) /\ StopMessage \in Seq(Byte)
      BY <2>1, PortRead, StopRead
    <2>3. Inbound \in {m, m \o StopMessage}
      BY <1>0, <2>1 DEF InboundAsWritten
    <2> HIDE DEF m
    <2>4. Begins(Inbound, m \o StopMessage)
      BY <2>2, <2>3, BeginsItself
    <2>5. m \o StopMessage \in Seq(Byte)
      BY <2>2, ConcatProperties
    <2>6. Begins(got, m \o StopMessage)
      BY <1>0, <2>4, <2>5, BeginsWithLess DEF BytesTyped, Inbound
    <2>7. Inbound' \in {Inbound, got}
      BY <1>0, <1>1, ConcatEmptySeq DEF BytesTyped, Inbound
    <2> QED
      BY <2>4, <2>6, <2>7 DEF m
  <1>8. InboundAsWritten' /\ IncomingAsWritten'
    BY <1>1, <1>5, <1>6, <1>7 DEF InboundAsWritten, IncomingAsWritten
  <1> QED
    BY <1>3, <1>4, <1>8 DEF DialogueInv

LEMMA AgainKeeps ==
    ASSUME DialogueInv, Again
    PROVE  DialogueInv'
  <1>0. Together /\ Understood /\ TimesFit
    BY DEF DialogueInv
  <1>1. /\ place' = "idle" /\ server' = "command" /\ place = "left"
        /\ toServer' = <<>> /\ toClient' = <<>> /\ got' = <<>> /\ read' = <<>>
        /\ command' = 0 /\ formatInfo' = Nothing /\ port' = 0 /\ streamPort' = 0
        /\ UNCHANGED <<now, skew, step, t2, t3, format>>
    BY DEF Again, vars
  <1>2. BytesTyped' /\ Inbound' = <<>> /\ Incoming' = <<>>
    <2>1. <<>> \in Seq(Byte) /\ <<>> \o <<>> = <<>>
      BY ConcatEmptySeq
    <2> QED
      BY <1>1, <2>1 DEF BytesTyped, Inbound, Incoming
  <1>3. Together' /\ Understood' /\ TimesFit'
    BY <1>0, <1>1 DEF Together, Understood, TimesFit
  <1>4. InboundAsWritten' /\ IncomingAsWritten'
    BY <1>1, <1>2 DEF InboundAsWritten, IncomingAsWritten
  <1> QED
    BY <1>2, <1>3, <1>4 DEF DialogueInv

LEMMA FailingKeeps ==
    ASSUME DialogueInv, ReadFails
    PROVE  DialogueInv'
  <1>0. BytesTyped /\ Together /\ Understood /\ TimesFit
    BY DEF DialogueInv
  <1>1. /\ place = "left" /\ server \in Reads
        /\ server' \in {"stopped", "dead"}
        /\ UNCHANGED <<now, skew, step, t2, t3, place, toServer, toClient, got,
                       read, command, format, formatInfo, port, streamPort>>
    BY DEF ReadFails, vars, bytesVars, valueVars
  <1>2. BytesTyped' /\ Together' /\ Understood' /\ TimesFit'
    BY <1>0, <1>1 DEF BytesTyped, Together, Understood, TimesFit
  <1>3. InboundAsWritten' /\ IncomingAsWritten'
    BY <1>1 DEF InboundAsWritten, IncomingAsWritten
  <1> QED
    BY <1>2, <1>3 DEF DialogueInv

LEMMA TimeKeeps ==
    ASSUME DialogueInv, Elapses \/ UNCHANGED dialogueVars
    PROVE  DialogueInv'
  <1>0. BytesTyped /\ Together /\ Understood /\ InboundAsWritten
        /\ IncomingAsWritten /\ TimesFit
    BY DEF DialogueInv
  <1>1. UNCHANGED <<skew, step, t2, t3, place, server, toServer, toClient, got,
                    read, command, format, formatInfo, port, streamPort>>
    BY DEF Elapses, TimePasses, dialogueVars, vars, bytesVars, valueVars
  <1>2. TimesFit'
    <2>1. now' = now \/ (now' = now + 1 /\ now < MaxTime)
      BY DEF Elapses, TimePasses, dialogueVars, vars
    <2> QED
      BY <1>0, <1>1, <2>1, SyncAssumption DEF TimesFit
  <1>3. BytesTyped' /\ Together' /\ Understood'
    BY <1>0, <1>1 DEF BytesTyped, Together, Understood
  <1>4. InboundAsWritten' /\ IncomingAsWritten'
    BY <1>0, <1>1
       DEF InboundAsWritten, IncomingAsWritten, Inbound, Incoming
  <1> QED
    BY <1>2, <1>3, <1>4 DEF DialogueInv

LEMMA DialogueStep ==
    DialogueInv /\ [DialogueNext]_dialogueVars => DialogueInv'
BY ReceivingKeeps, CommandKeeps, AskingKeeps, AnswerKeeps, AdjustingKeeps,
   AnnouncingKeeps, LateAnswerKeeps,
   ReadingFormatKeeps, PortKeeps, ReadingPortKeeps, StopKeeps,
   CheckingKeeps, ClosingKeeps, AgainKeeps, FailingKeeps, TimeKeeps
   DEF DialogueNext

LEMMA DialogueAlways == DialogueSpec => []DialogueInv
  BY DialogueStarts, DialogueStep, PTL DEF DialogueSpec

-----------------------------------------------------------------------------
(* What follows from it                                                    *)

\* A step of the dialogue is a step of TimeSync, or none: the times that come
\* out of the bytes are the times that went in.
LEMMA DialogueStepIsSyncStep ==
    DialogueInv /\ [DialogueNext]_dialogueVars => [Next]_vars
  <1> SUFFICES ASSUME DialogueInv, [DialogueNext]_dialogueVars
               PROVE  [Next]_vars
    OBVIOUS
  <1>1. CASE AdjustFromBytes
    BY <1>1, TimesUnderstood DEF Next
  <1>2. CASE Elapses
    BY <1>2 DEF Elapses, Next
  <1>3. CASE AskInBytes \/ ArrivesInBytes \/ AnswersInBytes
    BY <1>3 DEF AskInBytes, ArrivesInBytes, AnswersInBytes, Next
  <1>4. CASE Close
    BY <1>4 DEF Close, Next
  <1>5. CASE ServerReceives \/ ClientReceives \/ ReadFails
    BY <1>5 DEF ServerReceives, ClientReceives, ReadFails
  <1>6. CASE SendCommand \/ ReadCommand \/ AnnounceFormat \/ ReadFormatInfo
    BY <1>6 DEF SendCommand, ReadCommand, AnnounceFormat, ReadFormatInfo
  <1>7. CASE \/ SendUdpPort \/ ReadUdpPort \/ WriteStop \/ CheckAction
             \/ Again
    BY <1>7 DEF SendUdpPort, ReadUdpPort, WriteStop, CheckAction, Again
  <1>8. CASE UNCHANGED dialogueVars
    BY <1>8 DEF dialogueVars
  <1> QED
    BY <1>1, <1>2, <1>3, <1>4, <1>5, <1>6, <1>7, <1>8 DEF DialogueNext

\* The dialogue implements the exchange of times as such, however the network
\* cuts its messages, for all clocks that an int64_t holds: what is proved of
\* TimeSync holds of the bytes.
THEOREM DialogueKeepsClockRules == DialogueSpec => ClockRulesKept
  <1>1. DialogueInit => Init
    BY DEF DialogueInit
  <1> QED
    BY <1>1, DialogueAlways, DialogueStepIsSyncStep, PTL
       DEF DialogueSpec, ClockRulesKept, Spec

\* The offset that a client has from the bytes of its first exchange.
THEOREM FirstSyncFromBytes == DialogueSpec => []FirstSyncAccurate
  BY DialogueKeepsClockRules, FirstSyncIsAccurate, PTL DEF ClockRulesKept

\* The command, the format and the port are taken for what was meant, for
\* every format and port that two bytes hold.
THEOREM MessagesUnderstood == DialogueSpec => []UnderstoodAsMeant
  <1>1. DialogueInv => UnderstoodAsMeant
    BY DEF DialogueInv, Understood, UnderstoodAsMeant, FormatMeant
  <1> QED
    BY <1>1, DialogueAlways, PTL

\* No message of a client that is there ends the server or the session.
THEOREM OnlyClosingEnds == DialogueSpec => []EndsOnlyWhenClosed
  <1>1. DialogueInv => EndsOnlyWhenClosed
    BY DEF DialogueInv, Together, EndsOnlyWhenClosed
  <1> QED
    BY <1>1, DialogueAlways, PTL

=============================================================================
