------------------------ MODULE StreamPipelineProofs ------------------------
(***************************************************************************)
(* Theorems about StreamPipeline, for pools and queues of every size.      *)
(***************************************************************************)
EXTENDS StreamPipeline, Functions, SequenceTheorems, FiniteSetTheorems,
        TLAPS

\* Appending a new element keeps a queue without repetition and adds exactly
\* that element to its range: a pushed chunk.
LEMMA AppendDistinct ==
    ASSUME NEW S, NEW s \in Seq(S), NEW c \in S,
           IsInjective(s), c \notin Range(s)
    PROVE  /\ IsInjective(Append(s, c))
           /\ Range(Append(s, c)) = Range(s) \union {c}
  <1>1. \A i \in 1 .. Len(s) : s[i] # c
    BY DEF Range
  <1>2. IsInjective(Append(s, c))
    BY <1>1, AppendProperties DEF IsInjective
  <1>3. Range(Append(s, c)) = Range(s) \union {c}
    BY AppendProperties DEF Range
  <1> QED
    BY <1>2, <1>3

\* Removing the head keeps a queue without repetition and takes exactly that
\* element from its range: a popped chunk.
LEMMA TailDistinct ==
    ASSUME NEW S, NEW s \in Seq(S), s # <<>>, IsInjective(s)
    PROVE  /\ IsInjective(Tail(s))
           /\ Range(s) = Range(Tail(s)) \union {Head(s)}
           /\ Head(s) \notin Range(Tail(s))
  <1>1. \A i \in 1 .. Len(Tail(s)) : Tail(s)[i] = s[i + 1]
    BY HeadTailProperties
  <1>2. \A i \in 2 .. Len(s) : i - 1 \in 1 .. Len(Tail(s)) /\ s[i] = Tail(s)[i - 1]
    BY HeadTailProperties
  <1>3. IsInjective(Tail(s)) /\ Head(s) \notin Range(Tail(s))
    BY <1>1, EmptySeq DEF IsInjective, Range
  <1>4. ASSUME NEW x \in Range(s) PROVE x \in Range(Tail(s)) \union {Head(s)}
    <2>1. PICK i \in 1 .. Len(s) : x = s[i]
      BY DEF Range
    <2>2. CASE i = 1
      BY <2>1, <2>2
    <2>3. CASE i \in 2 .. Len(s)
      <3>1. Tail(s) \in Seq(S) /\ DOMAIN Tail(s) = 1 .. Len(Tail(s))
        BY HeadTailProperties
      <3>2. i - 1 \in DOMAIN Tail(s) /\ x = Tail(s)[i - 1]
        BY <1>2, <2>1, <2>3, <3>1
      <3> QED
        BY <3>2, Zenon DEF Range
    <2> QED
      BY <2>2, <2>3
  <1>5. Range(Tail(s)) \subseteq Range(s) /\ Head(s) \in Range(s)
    BY <1>1, EmptySeq DEF Range
  <1> QED
    BY <1>3, <1>4, <1>5

-----------------------------------------------------------------------------
(* Sequences of chunks without repetition.                                 *)

\* A sequence of distinct chunks that misses one is shorter than the pool.
LEMMA MissingOne ==
    ASSUME NEW s \in Seq(Chunk), IsInjective(s),
           NEW c \in Chunk, c \notin Range(s)
    PROVE  Len(s) < PoolSize
<1>1. PoolSize \in Nat \ {0} /\ Len(s) \in Nat /\ DOMAIN s = 1 .. Len(s)
  BY ConstantsAssumption
<1>2. SUFFICES ASSUME Len(s) >= PoolSize PROVE FALSE
  BY <1>1
<1> DEFINE D == 1 .. PoolSize
           R == Chunk \ {c}
           f == [i \in D |-> s[i]]
<1>3. f \in [D -> R]
  BY <1>1, <1>2 DEF Range
<1>4. IsFiniteSet(D) /\ Cardinality(D) = PoolSize
  BY <1>1, FS_Interval
<1>5. IsFiniteSet(Chunk) /\ Cardinality(Chunk) = PoolSize
  BY <1>1, FS_Interval DEF Chunk
<1>6. IsFiniteSet(R) /\ Cardinality(R) = PoolSize - 1
  BY <1>5, FS_RemoveElement
<1>7. \E x, y \in D : x # y /\ f[x] = f[y]
  <2> HIDE DEF D, R, f
  <2> QED BY <1>1, <1>3, <1>4, <1>6, FS_PigeonHole
<1> QED BY <1>1, <1>2, <1>7 DEF IsInjective

-----------------------------------------------------------------------------
(* The free list after a push.                                             *)

LEMMA PublishedType ==
    ASSUME TypeOK, NEW at \in 0 .. FreeCapacity, NEW c \in Chunk,
           NEW q \in Published(at, c)
    PROVE  q \in Seq(Chunk) /\ Len(q) <= FreeCapacity
<1>1. FreeCapacity \in Nat /\ freeList \in Seq(Chunk)
      /\ Len(freeList) \in Nat /\ Len(freeList) <= FreeCapacity
  BY ConstantsAssumption DEF TypeOK
<1>2. CASE at = FreeCapacity
  BY <1>1, <1>2 DEF Published
<1>3. CASE at # FreeCapacity /\ at <= Len(freeList)
  <2>1. q = Append(SubSeq(freeList, 1, at), c)
    BY <1>3 DEF Published
  <2>2. SubSeq(freeList, 1, at) \in Seq(Chunk)
        /\ Len(SubSeq(freeList, 1, at)) = at
    <3>1. \A i \in 1 .. at : freeList[i] \in Chunk
      BY <1>1, <1>3
    <3> QED BY <1>1, <3>1, SubSeqProperties
  <2> QED BY <1>1, <1>3, <2>1, <2>2, AppendProperties
<1>4. CASE at # FreeCapacity /\ at > Len(freeList)
  <2>1. PICK stale \in [1 .. at - Len(freeList) -> Chunk] :
          q = Append(freeList \o stale, c)
    BY <1>1, <1>4 DEF Published
  <2>2. stale \in Seq(Chunk) /\ Len(stale) = at - Len(freeList)
    BY <1>1, <1>4
  <2>3. freeList \o stale \in Seq(Chunk) /\ Len(freeList \o stale) = at
    BY <1>1, <1>4, <2>2, ConcatProperties
  <2> QED BY <1>1, <1>4, <2>1, <2>3, AppendProperties
<1> QED BY <1>1, <1>2, <1>3, <1>4

\* A push nobody interfered with appends its chunk.
LEMMA PublishedAtEnd ==
    ASSUME TypeOK, NEW c \in Chunk, Len(freeList) < FreeCapacity
    PROVE  Published(Len(freeList), c) = {Append(freeList, c)}
<1>1. FreeCapacity \in Nat /\ freeList \in Seq(Chunk) /\ Len(freeList) \in Nat
  BY ConstantsAssumption DEF TypeOK
<1>2. SubSeq(freeList, 1, Len(freeList)) = freeList
  BY <1>1, SubSeqFull
<1>3. Len(freeList) # FreeCapacity /\ Len(freeList) <= Len(freeList)
  BY <1>1
<1>4. Published(Len(freeList), c)
        = {Append(SubSeq(freeList, 1, Len(freeList)), c)}
  BY <1>3, Zenon DEF Published
<1> QED BY <1>2, <1>4
-----------------------------------------------------------------------------
(* The queue after a pop.                                                  *)

LEMMA PoppedType ==
    ASSUME TypeOK, NEW to \in 0 .. RingCapacity, NEW q \in Popped(to)
    PROVE  q \in Seq(Chunk) /\ Len(q) <= RingCapacity
<1>1. RingCapacity \in Nat /\ audioQueue \in Seq(Chunk)
      /\ Len(audioQueue) \in Nat /\ Len(audioQueue) <= RingCapacity
  BY ConstantsAssumption DEF TypeOK
<1>2. CASE to <= Len(audioQueue)
  <2>1. q = SubSeq(audioQueue, to + 1, Len(audioQueue))
    BY <1>2 DEF Popped
  <2>2. \A i \in to + 1 .. Len(audioQueue) : audioQueue[i] \in Chunk
    BY <1>1
  <2> QED BY <1>1, <1>2, <2>1, <2>2, SubSeqProperties
<1>3. CASE to > Len(audioQueue)
  <2>1. PICK stale \in [1 .. RingCapacity + 1 - to -> Chunk] :
          q = stale \o audioQueue
    <3>1. ~(to <= Len(audioQueue))
      BY <1>1, <1>3
    <3> QED BY <3>1, Zenon DEF Popped
  <2>2. stale \in Seq(Chunk) /\ Len(stale) = RingCapacity + 1 - to
    BY <1>1
  <2> QED BY <1>1, <1>3, <2>1, <2>2, ConcatProperties
<1> QED BY <1>1, <1>2, <1>3

\* A pop nobody interfered with removes the head.
LEMMA PoppedHead ==
    ASSUME TypeOK, audioQueue # <<>>
    PROVE  Popped(1) = {Tail(audioQueue)}
<1>1. audioQueue \in Seq(Chunk) /\ Len(audioQueue) \in Nat \ {0}
  BY EmptySeq DEF TypeOK
<1>2. SubSeq(audioQueue, 2, Len(audioQueue)) = Tail(audioQueue)
  <2>1. \A i \in 2 .. Len(audioQueue) : audioQueue[i] \in Chunk
    BY <1>1
  <2>2. /\ SubSeq(audioQueue, 2, Len(audioQueue)) \in Seq(Chunk)
        /\ Len(SubSeq(audioQueue, 2, Len(audioQueue))) = Len(audioQueue) - 1
        /\ \A i \in 1 .. Len(audioQueue) - 1 :
              SubSeq(audioQueue, 2, Len(audioQueue))[i] = audioQueue[i + 1]
    <3> DEFINE n == Len(audioQueue)
               rest == SubSeq(audioQueue, 2, n)
    <3>1. n \in Nat \ {0} /\ \A i \in 2 .. n : audioQueue[i] \in Chunk
      BY <1>1, <2>1
    <3>2. /\ rest \in Seq(Chunk)
          /\ Len(rest) = IF 2 <= n THEN n - 2 + 1 ELSE 0
          /\ \A i \in 1 .. n - 2 + 1 : rest[i] = audioQueue[2 + i - 1]
      <4> HIDE DEF n
      <4> QED BY <3>1, SubSeqProperties
    <3>3. \A i \in 1 .. n - 1 : rest[i] = audioQueue[i + 1]
      <4> HIDE DEF n, rest
      <4>1. \A i \in 1 .. n - 1 : i \in 1 .. n - 2 + 1 /\ 2 + i - 1 = i + 1
        BY <3>1
      <4> QED BY <3>2, <4>1
    <3>4. Len(rest) = n - 1
      <4> HIDE DEF n, rest
      <4> QED BY <3>1, <3>2
    <3> QED BY <3>2, <3>3, <3>4
  <2>3. /\ Tail(audioQueue) \in Seq(Chunk)
        /\ Len(Tail(audioQueue)) = Len(audioQueue) - 1
        /\ \A i \in 1 .. Len(audioQueue) - 1 :
              Tail(audioQueue)[i] = audioQueue[i + 1]
    BY <1>1, HeadTailProperties
  <2> QED BY <2>2, <2>3, SeqEqual
<1>3. 1 <= Len(audioQueue)
  BY <1>1
<1> QED BY <1>2, <1>3 DEF Popped

-----------------------------------------------------------------------------
(* Type correctness.                                                       *)

LEMMA InitType == Init => TypeOK
<1> SUFFICES ASSUME Init PROVE TypeOK
  OBVIOUS
<1> USE ConstantsAssumption
<1>1. freeList \in Seq(Chunk) /\ Len(freeList) = PoolSize
  BY DEF Init, Chunk
<1>2. 0 \in Stamp /\ nextStamp \in Stamp
  BY DEF Init, Stamp, Tick
<1>3. data \in [Chunk -> Stamp] /\ lastSent \in Stamp
  BY <1>2 DEF Init
<1>4. audioQueue \in Seq(Chunk) /\ Len(audioQueue) <= RingCapacity
  BY DEF Init
<1>5. keepRunning \in BOOLEAN /\ cFinal \in BOOLEAN /\ alive \in BOOLEAN
      /\ overlapped \in BOOLEAN /\ readersMet \in BOOLEAN
  BY Zenon DEF Init
<1> QED BY <1>1, <1>2, <1>3, <1>4, <1>5 DEF Init, TypeOK, PStates, CStates, KStates, MStates

LEMMA NextType == TypeOK /\ [Next]_vars => TypeOK'
<1> SUFFICES ASSUME TypeOK, [Next]_vars PROVE TypeOK'
  OBVIOUS
<1> USE ConstantsAssumption
<1>0. CASE UNCHANGED vars
  BY <1>0 DEF TypeOK, vars, freeVars, queueVars, soundVars, producerLocals,
     workerLocals
<1>1. CASE Manager
  <2> USE <1>1 DEF Manager, sharedVars, freeVars, queueVars, soundVars, producerLocals, workerLocals, TypeOK, PStates, CStates, KStates, MStates
  <2>1. CASE StartWorker
    BY <2>1 DEF StartWorker
  <2>2. CASE StartChecker
    BY <2>2 DEF StartChecker
  <2>3. CASE StartProducer
    BY <2>3 DEF StartProducer
  <2>4. CASE Join
    BY <2>4 DEF Join
  <2> QED BY <2>1, <2>2, <2>3, <2>4
<1>2. CASE Producer
  <2>0. alive /\ UNCHANGED <<workerLocals, kState, mState, peer>>
    BY <1>2 DEF Producer
  <2> USE <2>0 DEF sharedVars, freeVars, queueVars, soundVars, producerLocals, workerLocals, TypeOK, PStates, CStates, KStates, MStates
  <2>1. CASE ProducerStart
    BY <2>1 DEF ProducerStart
  <2>2. CASE ProducerCheck
    BY <2>2 DEF ProducerCheck
  <2>3. CASE ProducerWait
    BY <2>3 DEF ProducerWait
  <2>4. CASE ProducerAcquire
    <3>1. cAt' \in 0 .. FreeCapacity
      BY <2>4 DEF ProducerAcquire, Nearer
    <3>2. CASE freeList = <<>>
      BY <2>4, <3>1, <3>2 DEF ProducerAcquire
    <3>3. CASE freeList # <<>>
      <4>1. Head(freeList) \in Chunk /\ Tail(freeList) \in Seq(Chunk)
            /\ Len(Tail(freeList)) <= FreeCapacity
        BY <3>3, HeadTailProperties
      <4>2. /\ pState = "acquire" /\ pState' = "collect"
            /\ pChunk' = Head(freeList) /\ freeList' = Tail(freeList)
            /\ UNCHANGED <<keepRunning, pAt, overlapped, queueVars, data,
                           nextStamp, pRel, pRet, cState, alive>>
        BY <2>4, <3>3 DEF ProducerAcquire
      <4> HIDE <2>4
      <4> QED BY <3>1, <4>1, <4>2
    <3> QED BY <3>2, <3>3
  <2>5. CASE ProducerCollect
    <3>1. data' \in [Chunk -> Stamp] /\ nextStamp' \in Stamp
      BY <2>5 DEF ProducerCollect, Tick, Stamp
    <3> QED BY <2>5, <3>1 DEF ProducerCollect
  <2>6. CASE ProducerCollectNothing
    BY <2>6 DEF ProducerCollectNothing
  <2>7. CASE ProducerPush
    BY <2>7 DEF ProducerPush
  <2>8. CASE ProducerPushFull
    BY <2>8 DEF ProducerPushFull
  <2>9. CASE ProducerDropOldest
    <3>1. CASE audioQueue = <<>>
      BY <2>9, <3>1 DEF ProducerDropOldest
    <3>2. CASE audioQueue # <<>>
      <4>1. Head(audioQueue) \in Chunk
        BY <3>2, HeadTailProperties
      <4>2. /\ pState' = "dropping" /\ pRet' = "retry"
            /\ pRel' = Head(audioQueue) /\ pTo' = 1
            /\ pChunk \in Chunk
            /\ UNCHANGED <<keepRunning, freeVars, audioQueue, cTo, soundVars,
                           pChunk, cState, alive>>
        BY <2>9, <3>2 DEF ProducerDropOldest
      <4>3. readersMet' \in BOOLEAN
        BY <2>9, <3>2, Zenon DEF ProducerDropOldest
      <4> HIDE <2>9
      <4> QED BY <4>1, <4>2, <4>3
    <3> QED BY <3>1, <3>2
  <2>10. CASE ProducerReleaseBegin
    <3>1. pAt' \in 0 .. FreeCapacity /\ Len(freeList) \in Nat
      BY <2>10 DEF ProducerReleaseBegin
    <3>2. overlapped' \in BOOLEAN
      BY <2>10, Zenon DEF ProducerReleaseBegin
    <3>3. /\ pState' \in {pRet, "releasing"}
          /\ UNCHANGED <<keepRunning, freeList, cAt, audioQueue, data, nextStamp,
                         pChunk, pRel, pRet, cState, alive>>
      BY <2>10, Zenon DEF ProducerReleaseBegin
    <3> QED BY <2>10, <3>1, <3>2, <3>3 DEF ProducerReleaseBegin
  <2>11. CASE ProducerReleaseEnd
    <3>1. freeList' \in Seq(Chunk) /\ Len(freeList') <= FreeCapacity
      BY <2>11, PublishedType DEF ProducerReleaseEnd
    <3> QED BY <2>11, <3>1 DEF ProducerReleaseEnd
  <2>12. CASE ProducerNotify
    BY <2>12 DEF ProducerNotify
  <2>13. CASE ProducerLimit
    <3>1. keepRunning' \in BOOLEAN
      BY <2>13, Zenon DEF ProducerLimit
    <3> QED BY <2>13, <3>1 DEF ProducerLimit
  <2>14. CASE ProducerThrow
    <3>1. alive' \in BOOLEAN
      BY <2>14, Zenon DEF ProducerThrow
    <3> QED BY <2>14, <3>1 DEF ProducerThrow
  <2>15. CASE ProducerDropped
    <3>1. audioQueue' \in Seq(Chunk) /\ Len(audioQueue') <= RingCapacity
      BY <2>15, PoppedType DEF ProducerDropped
    <3>2. cTo' \in 0 .. RingCapacity
      BY <2>15 DEF ProducerDropped, Behind
    <3>3. /\ pState = "dropping" /\ pState' = "release" /\ pTo' = 0
          /\ UNCHANGED <<keepRunning, freeVars, readersMet, soundVars,
                         producerLocals, cState, alive>>
      BY <2>15 DEF ProducerDropped
    <3> HIDE <2>15
    <3> QED BY <3>1, <3>2, <3>3
  <2> QED BY <2>1, <2>2, <2>3, <2>4, <2>5, <2>6, <2>7, <2>8, <2>9, <2>10, <2>11, <2>12, <2>13, <2>14,
        <2>15, <1>2 DEF Producer
<1>3. CASE Worker
  <2>0. alive /\ UNCHANGED <<soundVars, pState, producerLocals, kState, mState, peer>>
    BY <1>3 DEF Worker
  <2> USE <2>0 DEF sharedVars, freeVars, queueVars, soundVars, producerLocals, workerLocals, TypeOK, PStates, CStates, KStates, MStates
  <2>1. CASE WorkerTop
    BY <2>1 DEF WorkerTop
  <2>2. CASE WorkerDrain
    <3>1. CASE audioQueue = <<>>
      BY <2>2, <3>1 DEF WorkerDrain
    <3>2. CASE audioQueue # <<>>
      <4>1. Head(audioQueue) \in Chunk
        BY <3>2, HeadTailProperties
      <4>2. /\ cState' = "draining" /\ cChunk' = Head(audioQueue)
            /\ cTo' = 1
            /\ UNCHANGED <<keepRunning, freeVars, audioQueue, pTo, cFinal,
                           lastSent, alive>>
        BY <2>2, <3>2 DEF WorkerDrain
      <4>3. readersMet' \in BOOLEAN
        BY <2>2, <3>2, Zenon DEF WorkerDrain
      <4> HIDE <2>2
      <4> QED BY <4>1, <4>2, <4>3
    <3> QED BY <3>1, <3>2
  <2>3. CASE WorkerSend
    BY <2>3 DEF WorkerSend
  <2>4. CASE WorkerThrow
    <3>1. alive' \in BOOLEAN
      BY <2>4, Zenon DEF WorkerThrow
    <3> QED BY <2>4, <3>1 DEF WorkerThrow
  <2>5. CASE WorkerReleaseBegin
    <3>1. cAt' \in 0 .. FreeCapacity /\ Len(freeList) \in Nat
      BY <2>5 DEF WorkerReleaseBegin
    <3>2. overlapped' \in BOOLEAN
      BY <2>5, Zenon DEF WorkerReleaseBegin
    <3>3. cState' \in {"drain", "releasing"}
      BY <2>5, Zenon DEF WorkerReleaseBegin
    <3> QED BY <2>5, <3>1, <3>2, <3>3 DEF WorkerReleaseBegin
  <2>6. CASE WorkerReleaseEnd
    <3>1. freeList' \in Seq(Chunk) /\ Len(freeList') <= FreeCapacity
      BY <2>6, PublishedType DEF WorkerReleaseEnd
    <3> QED BY <2>6, <3>1 DEF WorkerReleaseEnd
  <2>7. CASE WorkerPredicate
    BY <2>7 DEF WorkerPredicate
  <2>8. CASE WorkerSleep
    BY <2>8 DEF WorkerSleep
  <2>9. CASE WorkerDrained
    <3>1. audioQueue' \in Seq(Chunk) /\ Len(audioQueue') <= RingCapacity
      BY <2>9, PoppedType DEF WorkerDrained
    <3>2. pTo' \in 0 .. RingCapacity
      BY <2>9 DEF WorkerDrained, Behind
    <3>3. /\ cState = "draining" /\ cState' = "send" /\ cTo' = 0
          /\ UNCHANGED <<keepRunning, freeVars, readersMet, workerLocals,
                         alive>>
      BY <2>9 DEF WorkerDrained
    <3> HIDE <2>9
    <3> QED BY <3>1, <3>2, <3>3
  <2> QED BY <2>1, <2>2, <2>3, <2>4, <2>5, <2>6, <2>7, <2>8,
        <2>9, <1>3 DEF Worker
<1>4. CASE Checker
  <2> USE <1>4 DEF Checker, sharedVars, freeVars, queueVars, soundVars, producerLocals, workerLocals, TypeOK, PStates, CStates, KStates, MStates
  <2>1. CASE CheckerCheck
    BY <2>1 DEF CheckerCheck
  <2>2. CASE CheckerStop
    <3>1. keepRunning' \in BOOLEAN
      BY <2>2, Zenon DEF CheckerStop
    <3> QED BY <2>2, <3>1 DEF CheckerStop
  <2>3. CASE CheckerIgnore
    BY <2>3 DEF CheckerIgnore
  <2> QED BY <2>1, <2>2, <2>3
<1>5. CASE Environment
  <2> USE <1>5 DEF Environment, sharedVars, freeVars, queueVars, soundVars, producerLocals, workerLocals, TypeOK, PStates, CStates, KStates, MStates
  <2>1. CASE SpuriousWakeup
    BY <2>1 DEF SpuriousWakeup
  <2>2. CASE PeerClose
    BY <2>2 DEF PeerClose
  <2> QED BY <2>1, <2>2
<1> QED BY <1>0, <1>1, <1>2, <1>3, <1>4, <1>5 DEF Next, Ended

\* Every variable keeps its type in every reachable state, whatever becomes
\* of the free list after two pushes have overlapped.
THEOREM TypeCorrect == Spec => []TypeOK
<1> QED BY InitType, NextType, PTL DEF Spec

-----------------------------------------------------------------------------
(* Conservation of the chunks.  The inductive invariant adds what the two  *)
(* rings know while a push or a pop is in progress.                        *)

\* A push in progress will write the slot behind the last element, only one
\* is in progress, and a dropped chunk is not the one to be pushed.
PushesSound ==
    /\ pState = "releasing" => pAt = Len(freeList)
    /\ cState = "releasing" => cAt = Len(freeList)
    /\ ~(pState = "releasing" /\ cState = "releasing")
    /\ pState \in {"release", "releasing"} /\ pRet = "retry" => pRel # pChunk

\* A pop in progress will store the index behind the head, the chunk it read
\* is still that head, and only one is in progress.
PopsSound ==
    /\ pState = "dropping" =>
         /\ pTo = 1 /\ audioQueue # <<>>
         /\ pRel = Head(audioQueue) /\ pRet = "retry"
    /\ cState = "draining" =>
         cTo = 1 /\ audioQueue # <<>> /\ cChunk = Head(audioQueue)
    /\ ~(pState = "dropping" /\ cState = "draining")

\* A thread does not run before it has been started.
StartOrder ==
    /\ mState = "startWorker" => cState = "off"
    /\ mState \in {"startWorker", "startChecker", "startProducer"}
         => pState = "off"

ConservationInv ==
    /\ TypeOK
    /\ StartOrder
    /\ ~readersMet => PopsSound
    /\ ContractKept => ChunksPartitioned /\ PushesSound

LEMMA InitConservation == Init => ConservationInv
<1> SUFFICES ASSUME Init PROVE ChunksPartitioned /\ PushesSound
  BY InitType DEF ConservationInv, Init, StartOrder, PopsSound
<1> USE ConstantsAssumption
<1>1. IsInjective(freeList) /\ Range(freeList) = Chunk
  BY DEF Init, IsInjective, Range, Chunk
<1>2. IsInjective(audioQueue) /\ Range(audioQueue) = {}
  BY DEF Init, IsInjective, Range
<1>3. ProducerHolds = {} /\ ConsumerHolds = {}
  BY DEF Init, ProducerHolds, ConsumerHolds
<1>4. ChunksPartitioned
  BY <1>1, <1>2, <1>3 DEF ChunksPartitioned
<1>5. PushesSound
  BY DEF Init, PushesSound
<1> QED BY <1>4, <1>5

\* A chunk someone holds leaves room in the free list and in a queue of at
\* least PoolSize slots.
LEMMA HeldLeavesRoom ==
    ASSUME TypeOK, ChunksPartitioned,
           NEW c \in ProducerHolds \union ConsumerHolds
    PROVE  Len(freeList) < FreeCapacity /\ Len(audioQueue) < PoolSize
<1>1. c \in Chunk /\ c \notin Range(freeList) /\ c \notin Range(audioQueue)
  BY DEF ChunksPartitioned, ProducerHolds, ConsumerHolds
<1>2. Len(freeList) < PoolSize /\ Len(audioQueue) < PoolSize
  BY <1>1, MissingOne DEF TypeOK, ChunksPartitioned
<1> QED BY <1>2, ConstantsAssumption DEF TypeOK

\* A step that moves no chunk keeps the partition.
LEMMA NothingMoved ==
    ASSUME ChunksPartitioned,
           UNCHANGED <<freeList, audioQueue>>,
           ProducerHolds' = ProducerHolds, ConsumerHolds' = ConsumerHolds
    PROVE  ChunksPartitioned'
BY DEF ChunksPartitioned

LEMMA NextStartOrder == TypeOK /\ StartOrder /\ [Next]_vars => StartOrder'
<1> SUFFICES ASSUME TypeOK, StartOrder, [Next]_vars PROVE StartOrder'
  OBVIOUS
<1>1. CASE Manager
  BY <1>1 DEF StartOrder, Manager, StartWorker, StartChecker, StartProducer,
        Join, producerLocals, workerLocals
<1>2. CASE Producer
  BY <1>2 DEF StartOrder, Producer, ProducerStart, ProducerCheck,
        ProducerWait, ProducerAcquire, ProducerCollect,
        ProducerCollectNothing, ProducerPush, ProducerPushFull,
        ProducerDropOldest, ProducerDropped, ProducerReleaseBegin,
        ProducerReleaseEnd, ProducerNotify, ProducerLimit, ProducerThrow,
        producerLocals, workerLocals
<1>3. CASE Worker
  BY <1>3 DEF StartOrder, Worker, WorkerTop, WorkerDrain, WorkerDrained,
        WorkerSend, WorkerThrow, WorkerReleaseBegin, WorkerReleaseEnd, WorkerPredicate,
        WorkerSleep, producerLocals, workerLocals
<1>4. CASE Checker
  BY <1>4 DEF StartOrder, Checker, CheckerCheck, CheckerStop, CheckerIgnore,
        producerLocals, workerLocals
<1>5. CASE Environment
  BY <1>5 DEF StartOrder, Environment, SpuriousWakeup, PeerClose,
        producerLocals, workerLocals
<1>6. CASE UNCHANGED vars
  BY <1>6 DEF StartOrder, vars
<1> QED BY <1>1, <1>2, <1>3, <1>4, <1>5, <1>6 DEF Next, Ended

LEMMA WorkerBeginOverlap ==
    ASSUME WorkerReleaseBegin
    PROVE  \/ overlapped' = overlapped
           \/ overlapped' = (overlapped \/ pState = "releasing")
<1>1. CASE Len(freeList) >= FreeCapacity
  BY <1>1 DEF WorkerReleaseBegin
<1>2. CASE ~(Len(freeList) >= FreeCapacity)
  BY <1>2, Zenon DEF WorkerReleaseBegin
<1> QED BY <1>1, <1>2

LEMMA ProducerBeginOverlap ==
    ASSUME ProducerReleaseBegin
    PROVE  \/ overlapped' = overlapped
           \/ overlapped' = (overlapped \/ cState = "releasing")
<1>1. CASE Len(freeList) >= FreeCapacity
  BY <1>1 DEF ProducerReleaseBegin
<1>2. CASE ~(Len(freeList) >= FreeCapacity)
  BY <1>2, Zenon DEF ProducerReleaseBegin
<1> QED BY <1>1, <1>2

\* An overlap is never forgotten.
LEMMA OverlapStays ==
    ASSUME [Next]_vars, ~overlapped' PROVE ~overlapped
<1> USE DEF sharedVars, freeVars, queueVars
<1>1. CASE Manager
  <2>1. overlapped' = overlapped
    BY <1>1 DEF Manager
  <2> QED BY <2>1
<1>2. CASE Producer
  <2> USE <1>2 DEF Producer
  <2>1. CASE ProducerReleaseBegin
    BY <2>1, ProducerBeginOverlap
  <2>2. CASE ~ProducerReleaseBegin
    <3>1. overlapped' = overlapped
      BY <2>2 DEF ProducerStart, ProducerCheck, ProducerWait, ProducerAcquire,
        ProducerCollect, ProducerCollectNothing, ProducerPush,
        ProducerPushFull, ProducerDropOldest, ProducerDropped,
        ProducerReleaseEnd, ProducerNotify, ProducerLimit, ProducerThrow
    <3> QED BY <3>1
  <2> QED BY <2>1, <2>2
<1>3. CASE Worker
  <2> USE <1>3 DEF Worker
  <2>1. CASE WorkerReleaseBegin
    BY <2>1, WorkerBeginOverlap
  <2>2. CASE ~WorkerReleaseBegin
    <3>1. overlapped' = overlapped
      BY <2>2 DEF WorkerTop, WorkerDrain, WorkerDrained, WorkerSend,
        WorkerThrow, WorkerReleaseEnd, WorkerPredicate, WorkerSleep
    <3> QED BY <3>1
  <2> QED BY <2>1, <2>2
<1>4. CASE Checker
  <2>1. overlapped' = overlapped
    BY <1>4 DEF Checker
  <2> QED BY <2>1
<1>5. CASE Environment
  <2>1. overlapped' = overlapped
    BY <1>5 DEF Environment
  <2> QED BY <2>1
<1>6. CASE UNCHANGED vars
  <2>1. overlapped' = overlapped
    BY <1>6 DEF vars
  <2> QED BY <2>1
<1> QED BY <1>1, <1>2, <1>3, <1>4, <1>5, <1>6 DEF Next, Ended

\* When a pop begins, the mark of two pops meeting is kept, or set because
\* the other one is in progress.
LEMMA WorkerBeginMeets ==
    ASSUME WorkerDrain
    PROVE  \/ readersMet' = readersMet
           \/ readersMet' = (readersMet \/ pState = "dropping")
<1>1. CASE audioQueue = <<>>
  BY <1>1 DEF WorkerDrain
<1>2. CASE audioQueue # <<>>
  BY <1>2, Zenon DEF WorkerDrain
<1> QED BY <1>1, <1>2

LEMMA ProducerBeginMeets ==
    ASSUME ProducerDropOldest
    PROVE  \/ readersMet' = readersMet
           \/ readersMet' = (readersMet \/ cState = "draining")
<1>1. CASE audioQueue = <<>>
  BY <1>1 DEF ProducerDropOldest
<1>2. CASE audioQueue # <<>>
  BY <1>2, Zenon DEF ProducerDropOldest
<1> QED BY <1>1, <1>2

\* Only the beginning of a pop writes the mark.
LEMMA MarkUntouched ==
    ASSUME [Next]_vars, ~ProducerDropOldest, ~WorkerDrain
    PROVE  readersMet' = readersMet
<1> USE DEF sharedVars, queueVars
<1>1. CASE Manager
  BY <1>1 DEF Manager
<1>2. CASE Producer
  BY <1>2 DEF Producer, ProducerStart, ProducerCheck, ProducerWait,
     ProducerAcquire, ProducerCollect, ProducerCollectNothing, ProducerPush,
     ProducerPushFull, ProducerDropped, ProducerReleaseBegin,
     ProducerReleaseEnd, ProducerNotify, ProducerLimit, ProducerThrow
<1>3. CASE Worker
  BY <1>3 DEF Worker, WorkerTop, WorkerDrained, WorkerSend, WorkerThrow,
     WorkerReleaseBegin, WorkerReleaseEnd, WorkerPredicate, WorkerSleep
<1>4. CASE Checker
  BY <1>4 DEF Checker
<1>5. CASE Environment
  BY <1>5 DEF Environment
<1>6. CASE UNCHANGED vars
  BY <1>6 DEF vars
<1> QED BY <1>1, <1>2, <1>3, <1>4, <1>5, <1>6 DEF Next, Ended

\* That two pops have met is never forgotten.
LEMMA MeetingStays ==
    ASSUME [Next]_vars, ~readersMet' PROVE ~readersMet
<1>1. CASE ProducerDropOldest
  BY <1>1, ProducerBeginMeets
<1>2. CASE WorkerDrain
  BY <1>2, WorkerBeginMeets
<1>3. CASE ~ProducerDropOldest /\ ~WorkerDrain
  <2>1. readersMet' = readersMet
    BY <1>3, MarkUntouched
  <2> QED BY <2>1
<1> QED BY <1>1, <1>2, <1>3

\* A step of a thread that is not in a pop, and does not begin one, leaves
\* the pops as they are when the queue keeps its head.
LEMMA PopsUntouched ==
    ASSUME PopsSound, UNCHANGED <<pTo, cTo>>,
           audioQueue # <<>> =>
             audioQueue' # <<>> /\ Head(audioQueue') = Head(audioQueue),
           pState' = "dropping" => pState = "dropping" /\ UNCHANGED <<pRel, pRet>>,
           cState' = "draining" => cState = "draining" /\ cChunk' = cChunk
    PROVE  PopsSound'
BY DEF PopsSound

LEMMA NextPops ==
    ASSUME TypeOK, StartOrder, PopsSound, [Next]_vars, ~readersMet'
    PROVE  PopsSound'
<1> USE DEF sharedVars, freeVars, queueVars, soundVars, producerLocals,
        workerLocals
<1>1. CASE Manager
  <2>1. /\ UNCHANGED <<audioQueue, pTo, cTo, pRel, pRet, cChunk>>
        /\ pState' = "dropping" => pState = "dropping"
        /\ cState' = "draining" => cState = "draining"
    BY <1>1 DEF Manager, StartWorker, StartChecker, StartProducer, Join
  <2> QED BY <2>1, PopsUntouched
<1>2. CASE Producer
  <2>0. UNCHANGED <<workerLocals, kState, mState, peer>>
    BY <1>2 DEF Producer
  <2>1. CASE ProducerDropOldest
    <3>1. CASE audioQueue = <<>>
      BY <2>0, <2>1, <3>1 DEF ProducerDropOldest, PopsSound
    <3>2. CASE audioQueue # <<>>
      <4>1. readersMet' = (readersMet \/ cState = "draining")
        BY <2>1, <3>2, Zenon DEF ProducerDropOldest
      <4>2. cState # "draining"
        BY <4>1
      <4>3. /\ pState' = "dropping" /\ pTo' = 1 /\ pRel' = Head(audioQueue)
            /\ pRet' = "retry" /\ UNCHANGED <<audioQueue, cState>>
        BY <2>1, <3>2 DEF ProducerDropOldest
      <4> QED BY <3>2, <4>2, <4>3 DEF PopsSound
    <3> QED BY <3>1, <3>2
  <2>2. CASE ProducerDropped
    BY <2>2 DEF ProducerDropped, PopsSound
  <2>3. CASE ProducerPush
    <3>1. audioQueue # <<>> =>
            audioQueue' # <<>> /\ Head(audioQueue') = Head(audioQueue)
      <4>1. pChunk \in Chunk /\ audioQueue \in Seq(Chunk)
            /\ audioQueue' = Append(audioQueue, pChunk)
        BY <2>3 DEF ProducerPush, TypeOK
      <4> QED BY <4>1, AppendProperties, HeadTailProperties, EmptySeq
    <3>2. /\ pState' # "dropping" /\ UNCHANGED <<pTo, cTo, cState>>
      BY <2>3 DEF ProducerPush
    <3> QED BY <2>0, <3>1, <3>2, PopsUntouched
  <2>4. CASE ProducerNotify
    <3>1. UNCHANGED <<audioQueue, pTo, cTo>> /\ pState' # "dropping"
          /\ (cState' = "draining" => cState = "draining")
      BY <2>4 DEF ProducerNotify
    <3> QED BY <2>0, <3>1, PopsUntouched
  <2>5. CASE \/ ProducerStart \/ ProducerCheck \/ ProducerWait
             \/ ProducerAcquire \/ ProducerCollect \/ ProducerCollectNothing
             \/ ProducerPushFull \/ ProducerReleaseBegin \/ ProducerReleaseEnd
             \/ ProducerLimit \/ ProducerThrow
    <3>1. UNCHANGED <<audioQueue, pTo, cTo, cState>> /\ pState' # "dropping"
      BY <2>5 DEF ProducerStart, ProducerCheck, ProducerWait, ProducerAcquire,
         ProducerCollect, ProducerCollectNothing, ProducerPushFull,
         ProducerReleaseBegin, ProducerReleaseEnd, ProducerLimit,
         ProducerThrow, TypeOK
    <3> QED BY <2>0, <3>1, PopsUntouched
  <2> QED BY <1>2, <2>1, <2>2, <2>3, <2>4, <2>5 DEF Producer
<1>3. CASE Worker
  <2>0. UNCHANGED <<soundVars, pState, producerLocals, kState, mState, peer>>
    BY <1>3 DEF Worker
  <2>1. CASE WorkerDrain
    <3>1. CASE audioQueue = <<>>
      BY <2>0, <2>1, <3>1 DEF WorkerDrain, PopsSound
    <3>2. CASE audioQueue # <<>>
      <4>1. readersMet' = (readersMet \/ pState = "dropping")
        BY <2>1, <3>2, Zenon DEF WorkerDrain
      <4>2. pState # "dropping"
        BY <4>1
      <4>3. /\ cState' = "draining" /\ cTo' = 1
            /\ cChunk' = Head(audioQueue) /\ UNCHANGED audioQueue
        BY <2>1, <3>2 DEF WorkerDrain
      <4> QED BY <2>0, <3>2, <4>2, <4>3 DEF PopsSound
    <3> QED BY <3>1, <3>2
  <2>2. CASE WorkerDrained
    BY <2>0, <2>2 DEF WorkerDrained, PopsSound
  <2>3. CASE \/ WorkerTop \/ WorkerSend \/ WorkerThrow \/ WorkerReleaseBegin
             \/ WorkerReleaseEnd \/ WorkerPredicate \/ WorkerSleep
    <3>1. UNCHANGED <<audioQueue, pTo, cTo>> /\ cState' # "draining"
      BY <2>3 DEF WorkerTop, WorkerSend, WorkerThrow, WorkerReleaseBegin,
         WorkerReleaseEnd, WorkerPredicate, WorkerSleep
    <3> QED BY <2>0, <3>1, PopsUntouched
  <2> QED BY <1>3, <2>1, <2>2, <2>3 DEF Worker
<1>4. CASE Checker \/ Environment \/ UNCHANGED vars
  <2>1. /\ UNCHANGED <<audioQueue, pTo, cTo, pState, pRel, pRet, cChunk>>
        /\ cState' = "draining" => cState = "draining"
    BY <1>4 DEF Checker, Environment, SpuriousWakeup, PeerClose, vars
  <2> QED BY <2>1, PopsUntouched
<1> QED BY <1>1, <1>2, <1>3, <1>4 DEF Next, Ended

LEMMA NextConservation ==
    ConservationInv /\ [Next]_vars => ConservationInv'
<1> SUFFICES ASSUME ConservationInv, [Next]_vars, ContractKept'
             PROVE  ChunksPartitioned' /\ PushesSound'
  BY NextType, NextStartOrder, NextPops, MeetingStays DEF ConservationInv
<1>a. /\ ~overlapped /\ ChunksPartitioned /\ PushesSound /\ PopsSound
      /\ TypeOK /\ StartOrder
  <2>1. ~overlapped /\ ~readersMet
    BY OverlapStays, MeetingStays DEF ContractKept
  <2> QED BY <2>1 DEF ConservationInv, ContractKept
<1>b. ~overlapped'
  BY DEF ContractKept
<1> USE <1>a, <1>b
<1>0. CASE UNCHANGED vars
  BY <1>0 DEF vars, freeVars, queueVars, producerLocals, workerLocals,
     ChunksPartitioned, PushesSound, ProducerHolds, ConsumerHolds
<1>1. CASE Manager
  <2> USE <1>1 DEF Manager, sharedVars, freeVars, queueVars, soundVars,
        producerLocals, workerLocals
  <2>1. CASE StartWorker
    <3>1. UNCHANGED <<freeList, audioQueue>>
      BY <2>1 DEF StartWorker
    <3>2. ProducerHolds' = ProducerHolds /\ ConsumerHolds' = ConsumerHolds
      BY <2>1 DEF StartWorker, ProducerHolds, ConsumerHolds, StartOrder
    <3>3. PushesSound'
      BY <2>1 DEF StartWorker, PushesSound
    <3> QED BY <3>1, <3>2, <3>3, NothingMoved
  <2>2. CASE StartChecker
    <3>1. UNCHANGED <<freeList, audioQueue>>
      BY <2>2 DEF StartChecker
    <3>2. ProducerHolds' = ProducerHolds /\ ConsumerHolds' = ConsumerHolds
      BY <2>2 DEF StartChecker, ProducerHolds, ConsumerHolds, StartOrder
    <3>3. PushesSound'
      BY <2>2 DEF StartChecker, PushesSound
    <3> QED BY <3>1, <3>2, <3>3, NothingMoved
  <2>3. CASE StartProducer
    <3>1. UNCHANGED <<freeList, audioQueue>>
      BY <2>3 DEF StartProducer
    <3>2. ProducerHolds' = ProducerHolds /\ ConsumerHolds' = ConsumerHolds
      BY <2>3 DEF StartProducer, ProducerHolds, ConsumerHolds, StartOrder
    <3>3. PushesSound'
      BY <2>3 DEF StartProducer, PushesSound
    <3> QED BY <3>1, <3>2, <3>3, NothingMoved
  <2>4. CASE Join
    <3>1. UNCHANGED <<freeList, audioQueue>>
      BY <2>4 DEF Join
    <3>2. ProducerHolds' = ProducerHolds /\ ConsumerHolds' = ConsumerHolds
      BY <2>4 DEF Join, ProducerHolds, ConsumerHolds, StartOrder
    <3>3. PushesSound'
      BY <2>4 DEF Join, PushesSound
    <3> QED BY <3>1, <3>2, <3>3, NothingMoved
  <2> QED BY <2>1, <2>2, <2>3, <2>4
<1>2. CASE Producer
  <2>0. alive /\ UNCHANGED <<workerLocals, kState, mState, peer>>
    BY <1>2 DEF Producer
  <2> USE <2>0 DEF sharedVars, freeVars, queueVars, soundVars,
        producerLocals, workerLocals
  <2>1. CASE ProducerStart
    <3>1. UNCHANGED <<freeList, audioQueue>>
      BY <2>1 DEF ProducerStart
    <3>2. ProducerHolds' = ProducerHolds /\ ConsumerHolds' = ConsumerHolds
      BY <2>1 DEF ProducerStart, ProducerHolds, ConsumerHolds
    <3>3. PushesSound'
      BY <2>1 DEF ProducerStart, PushesSound
    <3> QED BY <3>1, <3>2, <3>3, NothingMoved
  <2>2. CASE ProducerCheck
    <3>1. UNCHANGED <<freeList, audioQueue>>
      BY <2>2 DEF ProducerCheck
    <3>2. ProducerHolds' = ProducerHolds /\ ConsumerHolds' = ConsumerHolds
      BY <2>2 DEF ProducerCheck, ProducerHolds, ConsumerHolds
    <3>3. PushesSound'
      BY <2>2 DEF ProducerCheck, PushesSound
    <3> QED BY <3>1, <3>2, <3>3, NothingMoved
  <2>3. CASE ProducerWait
    <3>1. UNCHANGED <<freeList, audioQueue>>
      BY <2>3 DEF ProducerWait
    <3>2. ProducerHolds' = ProducerHolds /\ ConsumerHolds' = ConsumerHolds
      BY <2>3 DEF ProducerWait, ProducerHolds, ConsumerHolds
    <3>3. PushesSound'
      BY <2>3 DEF ProducerWait, PushesSound
    <3> QED BY <3>1, <3>2, <3>3, NothingMoved
  <2>4. CASE ProducerAcquire
    <3>1. CASE freeList = <<>>
      <4>1. ProducerHolds' = ProducerHolds /\ ConsumerHolds' = ConsumerHolds
        BY <2>4, <3>1 DEF ProducerAcquire, ProducerHolds, ConsumerHolds
      <4>2. ChunksPartitioned'
        BY <2>4, <3>1, <4>1, NothingMoved DEF ProducerAcquire
      <4>3. PushesSound'
        BY <2>4, <3>1 DEF ProducerAcquire, PushesSound
      <4> QED BY <4>2, <4>3
    <3>2. CASE freeList # <<>>
      <4>1. /\ pState = "acquire" /\ pState' = "collect"
            /\ pChunk' = Head(freeList) /\ freeList' = Tail(freeList)
            /\ cAt' = IF cState = "releasing" THEN Nearer(cAt) ELSE cAt
            /\ UNCHANGED <<pAt, audioQueue, pRel, pRet, cState, cChunk>>
        BY <2>4, <3>2 DEF ProducerAcquire
      <4>2. Head(freeList) \in Chunk
        BY <3>2, HeadTailProperties DEF TypeOK
      <4>3. ProducerHolds = {} /\ ProducerHolds' = {Head(freeList)}
            /\ ConsumerHolds' = ConsumerHolds
        BY <4>1, <4>2 DEF ProducerHolds, ConsumerHolds
      <4>4. /\ IsInjective(freeList')
            /\ Range(freeList) = Range(freeList') \union {Head(freeList)}
            /\ Head(freeList) \notin Range(freeList')
        BY <3>2, <4>1, TailDistinct DEF TypeOK, ChunksPartitioned
      <4>5. ChunksPartitioned'
        BY <4>1, <4>3, <4>4 DEF ChunksPartitioned
      <4>6. cState = "releasing" => Nearer(cAt) = Len(freeList) - 1
        <5>1. freeList \in Seq(Chunk) /\ Len(freeList) # 0
          BY <3>2, EmptySeq DEF TypeOK
        <5> QED BY <5>1 DEF PushesSound, Nearer
      <4>7. Len(freeList') = Len(freeList) - 1
        BY <3>2, <4>1, HeadTailProperties DEF TypeOK
      <4>8. PushesSound'
        BY <4>1, <4>6, <4>7 DEF PushesSound
      <4> QED BY <4>5, <4>8
    <3> QED BY <3>1, <3>2
  <2>5. CASE ProducerCollect
    <3>1. UNCHANGED <<freeList, audioQueue>>
      BY <2>5 DEF ProducerCollect
    <3>2. ProducerHolds' = ProducerHolds /\ ConsumerHolds' = ConsumerHolds
      BY <2>5 DEF ProducerCollect, ProducerHolds, ConsumerHolds
    <3>3. PushesSound'
      BY <2>5 DEF ProducerCollect, PushesSound
    <3> QED BY <3>1, <3>2, <3>3, NothingMoved
  <2>6. CASE ProducerCollectNothing
    <3>1. UNCHANGED <<freeList, audioQueue>>
      BY <2>6 DEF ProducerCollectNothing
    <3>2. ProducerHolds' = ProducerHolds /\ ConsumerHolds' = ConsumerHolds
      BY <2>6 DEF ProducerCollectNothing, ProducerHolds, ConsumerHolds
    <3>3. PushesSound'
      BY <2>6 DEF ProducerCollectNothing, PushesSound
    <3> QED BY <3>1, <3>2, <3>3, NothingMoved
  <2>7. CASE ProducerPush
    <3>1. /\ pState \in {"push", "retry"} /\ pState' = "notify"
          /\ audioQueue' = Append(audioQueue, pChunk) /\ pChunk \in Chunk
          /\ UNCHANGED <<freeList, pAt, cAt, pRel, pRet, cState, cChunk>>
      BY <2>7 DEF ProducerPush, TypeOK
    <3>2. ProducerHolds = {pChunk} /\ ProducerHolds' = {}
          /\ ConsumerHolds' = ConsumerHolds
      BY <3>1 DEF ProducerHolds, ConsumerHolds
    <3>3. /\ IsInjective(audioQueue')
          /\ Range(audioQueue') = Range(audioQueue) \union {pChunk}
      BY <3>1, <3>2, AppendDistinct DEF TypeOK, ChunksPartitioned
    <3>4. ChunksPartitioned'
      BY <3>1, <3>2, <3>3 DEF ChunksPartitioned
    <3>5. PushesSound'
      BY <3>1 DEF PushesSound
    <3> QED BY <3>4, <3>5
  <2>8. CASE ProducerPushFull
    <3>1. UNCHANGED <<freeList, audioQueue>>
      BY <2>8 DEF ProducerPushFull
    <3>2. ProducerHolds' = ProducerHolds /\ ConsumerHolds' = ConsumerHolds
      BY <2>8 DEF ProducerPushFull, ProducerHolds, ConsumerHolds
    <3>3. PushesSound'
      BY <2>8 DEF ProducerPushFull, PushesSound
    <3> QED BY <3>1, <3>2, <3>3, NothingMoved
  <2>9. CASE ProducerDropOldest
    <3>1. CASE audioQueue = <<>>
      <4>1. ProducerHolds' = ProducerHolds /\ ConsumerHolds' = ConsumerHolds
        BY <2>9, <3>1 DEF ProducerDropOldest, ProducerHolds, ConsumerHolds
      <4>2. ChunksPartitioned'
        BY <2>9, <3>1, <4>1, NothingMoved DEF ProducerDropOldest
      <4>3. PushesSound'
        BY <2>9, <3>1 DEF ProducerDropOldest, PushesSound
      <4> QED BY <4>2, <4>3
    <3>2. CASE audioQueue # <<>>
      <4>1. /\ pState = "drop" /\ pState' = "dropping"
            /\ UNCHANGED <<freeList, pAt, cAt, audioQueue, pChunk, cState,
                           cChunk>>
        BY <2>9, <3>2 DEF ProducerDropOldest
      <4>2. ProducerHolds' = ProducerHolds /\ ConsumerHolds' = ConsumerHolds
        BY <4>1 DEF ProducerHolds, ConsumerHolds
      <4>3. ChunksPartitioned'
        BY <4>1, <4>2, NothingMoved
      <4>4. PushesSound'
        BY <4>1 DEF PushesSound
      <4> QED BY <4>3, <4>4
    <3> QED BY <3>1, <3>2
  <2>10. CASE ProducerReleaseBegin
    <3>1. pRel \in ProducerHolds
      BY <2>10 DEF ProducerReleaseBegin, ProducerHolds, TypeOK
    <3>2. ~(Len(freeList) >= FreeCapacity)
      BY <3>1, HeldLeavesRoom, ConstantsAssumption DEF TypeOK
    <3>3. /\ pState = "release" /\ pState' = "releasing"
          /\ pAt' = Len(freeList) /\ cState # "releasing"
          /\ UNCHANGED <<freeList, cAt, audioQueue, pChunk, pRel, pRet, cState,
                         cChunk>>
      BY <2>10, <3>2 DEF ProducerReleaseBegin
    <3>4. ProducerHolds' = ProducerHolds /\ ConsumerHolds' = ConsumerHolds
      BY <3>3 DEF ProducerHolds, ConsumerHolds
    <3>5. ChunksPartitioned'
      BY <3>3, <3>4, NothingMoved
    <3>6. PushesSound'
      BY <3>3 DEF PushesSound
    <3> QED BY <3>5, <3>6
  <2>11. CASE ProducerReleaseEnd
    <3>1. pRel \in ProducerHolds /\ pRel \in Chunk /\ pAt = Len(freeList)
      BY <2>11 DEF ProducerReleaseEnd, ProducerHolds, TypeOK, PushesSound
    <3>2. Published(pAt, pRel) = {Append(freeList, pRel)}
      BY <3>1, HeldLeavesRoom, PublishedAtEnd
    <3>3. /\ pState = "releasing" /\ pState' = pRet
          /\ pRet \in {"check", "retry", "notify"}
          /\ freeList' = Append(freeList, pRel) /\ cState # "releasing"
          /\ UNCHANGED <<cAt, audioQueue, pChunk, cState, cChunk>>
      BY <2>11, <3>2 DEF ProducerReleaseEnd, TypeOK, PushesSound
    <3>4. /\ ProducerHolds = ProducerHolds' \union {pRel}
          /\ pRel \notin ProducerHolds'
          /\ ConsumerHolds' = ConsumerHolds
      BY <3>1, <3>3 DEF ProducerHolds, ConsumerHolds, PushesSound
    <3>5. /\ IsInjective(freeList')
          /\ Range(freeList') = Range(freeList) \union {pRel}
      BY <3>1, <3>3, AppendDistinct DEF TypeOK, ChunksPartitioned
    <3>6. ChunksPartitioned'
      BY <3>3, <3>4, <3>5 DEF ChunksPartitioned
    <3>7. PushesSound'
      BY <3>3 DEF PushesSound
    <3> QED BY <3>6, <3>7
  <2>12. CASE ProducerNotify
    <3>1. UNCHANGED <<freeList, audioQueue>>
      BY <2>12 DEF ProducerNotify
    <3>2. ProducerHolds' = ProducerHolds /\ ConsumerHolds' = ConsumerHolds
      BY <2>12 DEF ProducerNotify, ProducerHolds, ConsumerHolds
    <3>3. PushesSound'
      BY <2>12 DEF ProducerNotify, PushesSound
    <3> QED BY <3>1, <3>2, <3>3, NothingMoved
  <2>13. CASE ProducerLimit
    <3>1. UNCHANGED <<freeList, audioQueue>>
      BY <2>13 DEF ProducerLimit
    <3>2. ProducerHolds' = ProducerHolds /\ ConsumerHolds' = ConsumerHolds
      BY <2>13 DEF ProducerLimit, ProducerHolds, ConsumerHolds
    <3>3. PushesSound'
      BY <2>13 DEF ProducerLimit, PushesSound
    <3> QED BY <3>1, <3>2, <3>3, NothingMoved
  <2>14. CASE ProducerThrow
    <3>1. UNCHANGED <<freeList, audioQueue>>
      BY <2>14 DEF ProducerThrow
    <3>2. ProducerHolds' = ProducerHolds /\ ConsumerHolds' = ConsumerHolds
      BY <2>14 DEF ProducerThrow, ProducerHolds, ConsumerHolds
    <3>3. PushesSound'
      BY <2>14 DEF ProducerThrow, PushesSound
    <3> QED BY <3>1, <3>2, <3>3, NothingMoved
  <2>15. CASE ProducerDropped
    <3>1. /\ pState = "dropping" /\ pTo = 1 /\ audioQueue # <<>>
          /\ pRel = Head(audioQueue) /\ pRet = "retry"
          /\ pRel \in Chunk /\ pChunk \in Chunk
      BY <2>15 DEF ProducerDropped, PopsSound, TypeOK
    <3>2. audioQueue' = Tail(audioQueue)
      BY <2>15, <3>1, PoppedHead DEF ProducerDropped
    <3>3. /\ pState' = "release"
          /\ UNCHANGED <<freeList, pAt, cAt, pRel, pRet, pChunk, cState,
                         cChunk>>
      BY <2>15 DEF ProducerDropped
    <3>4. /\ ProducerHolds = {pChunk}
          /\ ProducerHolds' = {pChunk, Head(audioQueue)}
          /\ ConsumerHolds' = ConsumerHolds
      BY <3>1, <3>3 DEF ProducerHolds, ConsumerHolds
    <3>5. /\ IsInjective(audioQueue')
          /\ Range(audioQueue) = Range(audioQueue') \union {Head(audioQueue)}
          /\ Head(audioQueue) \notin Range(audioQueue')
      BY <3>1, <3>2, TailDistinct DEF TypeOK, ChunksPartitioned
    <3>6. ChunksPartitioned'
      BY <3>3, <3>4, <3>5 DEF ChunksPartitioned
    <3>7. Head(audioQueue) # pChunk
      BY <3>4, <3>5 DEF ChunksPartitioned
    <3>8. PushesSound'
      BY <3>1, <3>3, <3>7 DEF PushesSound
    <3> QED BY <3>6, <3>8
  <2> QED BY <2>1, <2>2, <2>3, <2>4, <2>5, <2>6, <2>7, <2>8, <2>9, <2>10,
        <2>11, <2>12, <2>13, <2>14, <2>15,
        <1>2 DEF Producer
<1>3. CASE Worker
  <2>0. alive /\ UNCHANGED <<soundVars, pState, producerLocals, kState, mState, peer>>
    BY <1>3 DEF Worker
  <2> USE <2>0 DEF sharedVars, freeVars, queueVars, soundVars,
        producerLocals, workerLocals
  <2>1. CASE WorkerTop
    <3>1. UNCHANGED <<freeList, audioQueue>>
      BY <2>1 DEF WorkerTop
    <3>2. ProducerHolds' = ProducerHolds /\ ConsumerHolds' = ConsumerHolds
      BY <2>1 DEF WorkerTop, ProducerHolds, ConsumerHolds
    <3>3. PushesSound'
      BY <2>1 DEF WorkerTop, PushesSound
    <3> QED BY <3>1, <3>2, <3>3, NothingMoved
  <2>2. CASE WorkerDrain
    <3>1. CASE audioQueue = <<>>
      <4>1. ProducerHolds' = ProducerHolds /\ ConsumerHolds' = ConsumerHolds
        BY <2>2, <3>1 DEF WorkerDrain, ProducerHolds, ConsumerHolds
      <4>2. ChunksPartitioned'
        BY <2>2, <3>1, <4>1, NothingMoved DEF WorkerDrain
      <4>3. PushesSound'
        BY <2>2, <3>1 DEF WorkerDrain, PushesSound
      <4> QED BY <4>2, <4>3
    <3>2. CASE audioQueue # <<>>
      <4>1. /\ cState = "drain" /\ cState' = "draining"
            /\ UNCHANGED <<freeList, audioQueue, pAt, cAt, pState, pChunk,
                           pRel, pRet>>
        BY <2>2, <3>2 DEF WorkerDrain
      <4>2. ProducerHolds' = ProducerHolds /\ ConsumerHolds' = ConsumerHolds
        BY <4>1 DEF ProducerHolds, ConsumerHolds
      <4>3. ChunksPartitioned'
        BY <4>1, <4>2, NothingMoved
      <4>4. PushesSound'
        BY <4>1 DEF PushesSound
      <4> QED BY <4>3, <4>4
    <3> QED BY <3>1, <3>2
  <2>3. CASE WorkerSend
    <3>1. UNCHANGED <<freeList, audioQueue>>
      BY <2>3 DEF WorkerSend
    <3>2. ProducerHolds' = ProducerHolds /\ ConsumerHolds' = ConsumerHolds
      BY <2>3 DEF WorkerSend, ProducerHolds, ConsumerHolds
    <3>3. PushesSound'
      BY <2>3 DEF WorkerSend, PushesSound
    <3> QED BY <3>1, <3>2, <3>3, NothingMoved
  <2>4. CASE WorkerThrow
    <3>1. UNCHANGED <<freeList, audioQueue>>
      BY <2>4 DEF WorkerThrow
    <3>2. ProducerHolds' = ProducerHolds /\ ConsumerHolds' = ConsumerHolds
      BY <2>4 DEF WorkerThrow, ProducerHolds, ConsumerHolds
    <3>3. PushesSound'
      BY <2>4 DEF WorkerThrow, PushesSound
    <3> QED BY <3>1, <3>2, <3>3, NothingMoved
  <2>5. CASE WorkerReleaseBegin
    <3>1. cChunk \in ConsumerHolds
      BY <2>5 DEF WorkerReleaseBegin, ConsumerHolds, TypeOK
    <3>2. ~(Len(freeList) >= FreeCapacity)
      BY <3>1, HeldLeavesRoom, ConstantsAssumption DEF TypeOK
    <3>3. /\ cState = "release" /\ cState' = "releasing"
          /\ cAt' = Len(freeList) /\ pState # "releasing"
          /\ UNCHANGED <<freeList, pAt, audioQueue, pState, pChunk, pRel, pRet,
                         cChunk>>
      BY <2>5, <3>2 DEF WorkerReleaseBegin
    <3>4. ProducerHolds' = ProducerHolds /\ ConsumerHolds' = ConsumerHolds
      BY <3>3 DEF ProducerHolds, ConsumerHolds
    <3>5. ChunksPartitioned'
      BY <3>3, <3>4, NothingMoved
    <3>6. PushesSound'
      BY <3>3 DEF PushesSound
    <3> QED BY <3>5, <3>6
  <2>6. CASE WorkerReleaseEnd
    <3>1. cChunk \in ConsumerHolds /\ cChunk \in Chunk /\ cAt = Len(freeList)
      BY <2>6 DEF WorkerReleaseEnd, ConsumerHolds, TypeOK, PushesSound
    <3>2. Published(cAt, cChunk) = {Append(freeList, cChunk)}
      BY <3>1, HeldLeavesRoom, PublishedAtEnd
    <3>3. /\ cState = "releasing" /\ cState' = "drain"
          /\ freeList' = Append(freeList, cChunk) /\ pState # "releasing"
          /\ UNCHANGED <<pAt, audioQueue, pState, pChunk, pRel, pRet, cChunk>>
      BY <2>6, <3>2 DEF WorkerReleaseEnd, PushesSound
    <3>4. /\ ConsumerHolds = {cChunk} /\ ConsumerHolds' = {}
          /\ ProducerHolds' = ProducerHolds
      BY <3>1, <3>3 DEF ProducerHolds, ConsumerHolds
    <3>5. /\ IsInjective(freeList')
          /\ Range(freeList') = Range(freeList) \union {cChunk}
      BY <3>1, <3>3, AppendDistinct DEF TypeOK, ChunksPartitioned
    <3>6. ChunksPartitioned'
      BY <3>3, <3>4, <3>5 DEF ChunksPartitioned
    <3>7. PushesSound'
      BY <3>3 DEF PushesSound
    <3> QED BY <3>6, <3>7
  <2>7. CASE WorkerPredicate
    <3>1. UNCHANGED <<freeList, audioQueue>>
      BY <2>7 DEF WorkerPredicate
    <3>2. ProducerHolds' = ProducerHolds /\ ConsumerHolds' = ConsumerHolds
      BY <2>7 DEF WorkerPredicate, ProducerHolds, ConsumerHolds
    <3>3. PushesSound'
      BY <2>7 DEF WorkerPredicate, PushesSound
    <3> QED BY <3>1, <3>2, <3>3, NothingMoved
  <2>8. CASE WorkerSleep
    <3>1. UNCHANGED <<freeList, audioQueue>>
      BY <2>8 DEF WorkerSleep
    <3>2. ProducerHolds' = ProducerHolds /\ ConsumerHolds' = ConsumerHolds
      BY <2>8 DEF WorkerSleep, ProducerHolds, ConsumerHolds
    <3>3. PushesSound'
      BY <2>8 DEF WorkerSleep, PushesSound
    <3> QED BY <3>1, <3>2, <3>3, NothingMoved
  <2>9. CASE WorkerDrained
    <3>1. /\ cState = "draining" /\ cTo = 1 /\ audioQueue # <<>>
          /\ cChunk = Head(audioQueue) /\ cChunk \in Chunk
      BY <2>9 DEF WorkerDrained, PopsSound, TypeOK
    <3>2. audioQueue' = Tail(audioQueue)
      BY <2>9, <3>1, PoppedHead DEF WorkerDrained
    <3>3. /\ cState' = "send"
          /\ UNCHANGED <<freeList, pAt, cAt, pState, pChunk, pRel, pRet,
                         cChunk>>
      BY <2>9 DEF WorkerDrained
    <3>4. ConsumerHolds = {} /\ ConsumerHolds' = {Head(audioQueue)}
          /\ ProducerHolds' = ProducerHolds
      BY <3>1, <3>3 DEF ProducerHolds, ConsumerHolds
    <3>5. /\ IsInjective(audioQueue')
          /\ Range(audioQueue) = Range(audioQueue') \union {Head(audioQueue)}
          /\ Head(audioQueue) \notin Range(audioQueue')
      BY <3>1, <3>2, TailDistinct DEF TypeOK, ChunksPartitioned
    <3>6. ChunksPartitioned'
      BY <3>3, <3>4, <3>5 DEF ChunksPartitioned
    <3>7. PushesSound'
      BY <3>1, <3>3 DEF PushesSound
    <3> QED BY <3>6, <3>7
  <2> QED BY <2>1, <2>2, <2>3, <2>4, <2>5, <2>6, <2>7, <2>8,
        <2>9, <1>3 DEF Worker
<1>4. CASE Checker
  <2> USE <1>4 DEF Checker, sharedVars, freeVars, queueVars, soundVars,
        producerLocals, workerLocals
  <2>1. CASE CheckerCheck
    <3>1. UNCHANGED <<freeList, audioQueue>>
      BY <2>1 DEF CheckerCheck
    <3>2. ProducerHolds' = ProducerHolds /\ ConsumerHolds' = ConsumerHolds
      BY <2>1 DEF CheckerCheck, ProducerHolds, ConsumerHolds
    <3>3. PushesSound'
      BY <2>1 DEF CheckerCheck, PushesSound
    <3> QED BY <3>1, <3>2, <3>3, NothingMoved
  <2>2. CASE CheckerStop
    <3>1. UNCHANGED <<freeList, audioQueue>>
      BY <2>2 DEF CheckerStop
    <3>2. ProducerHolds' = ProducerHolds /\ ConsumerHolds' = ConsumerHolds
      BY <2>2 DEF CheckerStop, ProducerHolds, ConsumerHolds
    <3>3. PushesSound'
      BY <2>2 DEF CheckerStop, PushesSound
    <3> QED BY <3>1, <3>2, <3>3, NothingMoved
  <2>3. CASE CheckerIgnore
    <3>1. UNCHANGED <<freeList, audioQueue>>
      BY <2>3 DEF CheckerIgnore
    <3>2. ProducerHolds' = ProducerHolds /\ ConsumerHolds' = ConsumerHolds
      BY <2>3 DEF CheckerIgnore, ProducerHolds, ConsumerHolds
    <3>3. PushesSound'
      BY <2>3 DEF CheckerIgnore, PushesSound
    <3> QED BY <3>1, <3>2, <3>3, NothingMoved
  <2> QED BY <2>1, <2>2, <2>3
<1>5. CASE Environment
  <2> USE <1>5 DEF Environment, sharedVars, freeVars, queueVars, soundVars,
        producerLocals, workerLocals
  <2>1. CASE SpuriousWakeup
    <3>1. UNCHANGED <<freeList, audioQueue>>
      BY <2>1 DEF SpuriousWakeup
    <3>2. ProducerHolds' = ProducerHolds /\ ConsumerHolds' = ConsumerHolds
      BY <2>1 DEF SpuriousWakeup, ProducerHolds, ConsumerHolds
    <3>3. PushesSound'
      BY <2>1 DEF SpuriousWakeup, PushesSound
    <3> QED BY <3>1, <3>2, <3>3, NothingMoved
  <2>2. CASE PeerClose
    <3>1. UNCHANGED <<freeList, audioQueue>>
      BY <2>2 DEF PeerClose
    <3>2. ProducerHolds' = ProducerHolds /\ ConsumerHolds' = ConsumerHolds
      BY <2>2 DEF PeerClose, ProducerHolds, ConsumerHolds
    <3>3. PushesSound'
      BY <2>2 DEF PeerClose, PushesSound
    <3> QED BY <3>1, <3>2, <3>3, NothingMoved
  <2> QED BY <2>1, <2>2
<1> QED BY <1>0, <1>1, <1>2, <1>3, <1>4, <1>5 DEF Next, Ended

\* Until two pushes to the free list or two pops of the audio queue have
\* overlapped, every chunk is in exactly one place.
THEOREM ChunksConserved == Spec => []ChunkConservation
<1>1. ConservationInv => ChunkConservation
  BY DEF ConservationInv, ChunkConservation
<1> QED BY <1>1, InitConservation, NextConservation, PTL DEF Spec

-----------------------------------------------------------------------------
(* With a queue as large as the pool, nothing is ever dropped and the      *)
(* captures stay in order.                                                 *)

\* The branch that drops the oldest chunk is not entered, so the queue keeps
\* its one reader.
NeverDrops ==
    /\ pState \notin {"drop", "dropping", "retry"}
    /\ pState \in {"release", "releasing"} => pRet # "retry"

\* The last capture taken out of the queue, and the last one put into it.
LastPopped == IF cState = "send" THEN data[cChunk] ELSE lastSent
LastQueued ==
    IF audioQueue = <<>> THEN LastPopped ELSE data[audioQueue[Len(audioQueue)]]

\* From the service through the queue to the sound device, each capture is
\* the successor of the one ahead of it.
InOrder ==
    /\ cState = "send" => data[cChunk] = Tick(lastSent)
    /\ audioQueue # <<>> => data[audioQueue[1]] = Tick(LastPopped)
    /\ \A i \in 1 .. Len(audioQueue) - 1 :
          data[audioQueue[i + 1]] = Tick(data[audioQueue[i]])
    /\ pState = "push" =>
          data[pChunk] = Tick(LastQueued) /\ nextStamp = Tick(data[pChunk])
    /\ pState # "push" => nextStamp = Tick(LastQueued)

OrderInv ==
    ConservationInv /\ (~overlapped => ~readersMet /\ NeverDrops /\ InOrder)

LEMMA InitOrder == Init => OrderInv
<1> SUFFICES ASSUME Init PROVE NeverDrops /\ InOrder
  BY InitConservation DEF OrderInv, Init
<1>1. audioQueue = <<>> /\ Len(audioQueue) = 0
  BY DEF Init
<1> QED BY <1>1 DEF Init, NeverDrops, InOrder, LastPopped, LastQueued

\* A step that touches neither the queue, nor the audio, nor whether either
\* thread holds a capture keeps the order.
LEMMA OrderUntouched ==
    ASSUME InOrder, UNCHANGED <<audioQueue, data, nextStamp, lastSent>>,
           (cState = "send") = (cState' = "send"),
           cState = "send" => cChunk' = cChunk,
           (pState = "push") = (pState' = "push"),
           pState = "push" => pChunk' = pChunk
    PROVE  InOrder'
BY DEF InOrder, LastPopped, LastQueued

\* Filling the chunk the capture thread holds disturbs no other capture.
LEMMA CollectKeepsOrder ==
    ASSUME TypeOK, ChunksPartitioned, InOrder, ProducerCollect,
           UNCHANGED <<lastSent, cChunk>>
    PROVE  InOrder'
<1> USE DEF ProducerCollect, sharedVars, freeVars, queueVars,
        producerLocals
<1>1. pChunk \in Chunk /\ pChunk \in ProducerHolds
  BY DEF TypeOK, ProducerHolds
<1>2. audioQueue \in Seq(Chunk) /\ Len(audioQueue) \in Nat
      /\ DOMAIN audioQueue = 1 .. Len(audioQueue)
      /\ (audioQueue # <<>> => Len(audioQueue) >= 1)
  BY EmptySeq DEF TypeOK
<1>3. \A i \in 1 .. Len(audioQueue) : audioQueue[i] # pChunk
  BY <1>1, <1>2 DEF ChunksPartitioned, Range
<1>4. \A i \in 1 .. Len(audioQueue) : data'[audioQueue[i]] = data[audioQueue[i]]
  BY <1>2, <1>3 DEF TypeOK
<1>5. cState = "send" => data'[cChunk] = data[cChunk]
  <2>1. SUFFICES ASSUME cState = "send" PROVE data'[cChunk] = data[cChunk]
    OBVIOUS
  <2>2. cChunk \in Chunk /\ cChunk \in ConsumerHolds
    BY <2>1 DEF TypeOK, ConsumerHolds
  <2> QED BY <1>1, <2>2 DEF ChunksPartitioned, TypeOK
<1>6. data'[pChunk] = nextStamp
  BY <1>1 DEF TypeOK
<1>7. LastPopped' = LastPopped
  BY <1>5 DEF LastPopped
<1>8. LastQueued' = LastQueued
  BY <1>2, <1>4, <1>7 DEF LastQueued
<1>9. /\ pState = "collect" /\ pState' = "push" /\ pChunk' = pChunk
      /\ nextStamp' = Tick(nextStamp) /\ nextStamp = Tick(LastQueued)
      /\ UNCHANGED <<audioQueue, lastSent, cState, cChunk>>
  BY DEF InOrder
<1>10. /\ cState' = "send" => data'[cChunk'] = Tick(lastSent')
       /\ audioQueue' # <<>> => data'[audioQueue'[1]] = Tick(LastPopped')
       /\ \A i \in 1 .. Len(audioQueue') - 1 :
             data'[audioQueue'[i + 1]] = Tick(data'[audioQueue'[i]])
  <2> HIDE DEF ProducerCollect
  <2>1. \A i \in 1 .. Len(audioQueue) - 1 :
          i \in 1 .. Len(audioQueue) /\ i + 1 \in 1 .. Len(audioQueue)
    BY <1>2
  <2> QED BY <1>2, <1>4, <1>5, <1>7, <1>9, <2>1 DEF InOrder
<1> QED BY <1>6, <1>8, <1>9, <1>10 DEF InOrder

LEMMA PushKeepsOrder ==
    ASSUME TypeOK, InOrder, pState = "push", pState' = "notify",
           audioQueue' = Append(audioQueue, pChunk),
           UNCHANGED <<data, nextStamp, lastSent, cState, cChunk>>
    PROVE  InOrder'
<1>1. pChunk \in Chunk /\ audioQueue \in Seq(Chunk) /\ Len(audioQueue) \in Nat
      /\ (audioQueue # <<>> => Len(audioQueue) >= 1)
      /\ (audioQueue = <<>> => Len(audioQueue) = 0)
  BY EmptySeq DEF TypeOK
<1>2. /\ audioQueue' # <<>>
      /\ Len(audioQueue') = Len(audioQueue) + 1
      /\ \A i \in 1 .. Len(audioQueue) : audioQueue'[i] = audioQueue[i]
      /\ audioQueue'[Len(audioQueue) + 1] = pChunk
  BY <1>1, AppendProperties
<1>3. LastPopped' = LastPopped
  BY DEF LastPopped
<1>4. LastQueued' = data[pChunk]
  BY <1>1, <1>2 DEF LastQueued
<1>5. data[pChunk] = Tick(LastQueued)
  BY DEF InOrder
<1>6. data'[audioQueue'[1]] = Tick(LastPopped')
  BY <1>1, <1>2, <1>3, <1>5 DEF InOrder, LastQueued
<1>7. ASSUME NEW i \in 1 .. Len(audioQueue') - 1
      PROVE  data'[audioQueue'[i + 1]] = Tick(data'[audioQueue'[i]])
  <2>1. CASE i < Len(audioQueue)
    BY <1>1, <1>2, <2>1 DEF InOrder
  <2>2. CASE i = Len(audioQueue)
    BY <1>1, <1>2, <1>5, <2>2 DEF LastQueued
  <2> QED BY <1>1, <1>2, <2>1, <2>2
<1> QED BY <1>4, <1>6, <1>7 DEF InOrder

LEMMA PopKeepsOrder ==
    ASSUME TypeOK, InOrder, cState = "draining", cState' = "send",
           audioQueue # <<>>, cChunk' = Head(audioQueue),
           audioQueue' = Tail(audioQueue),
           UNCHANGED <<data, nextStamp, lastSent, pState, pChunk>>
    PROVE  InOrder'
<1>1. audioQueue \in Seq(Chunk) /\ Len(audioQueue) \in Nat
      /\ Len(audioQueue) >= 1 /\ Head(audioQueue) = audioQueue[1]
  BY EmptySeq DEF TypeOK
<1>2. /\ audioQueue' \in Seq(Chunk)
      /\ Len(audioQueue') = Len(audioQueue) - 1
      /\ \A i \in 1 .. Len(audioQueue') : audioQueue'[i] = audioQueue[i + 1]
  BY <1>1, HeadTailProperties
<1>3. /\ audioQueue' = <<>> => Len(audioQueue) = 1
      /\ audioQueue' # <<>> => Len(audioQueue) >= 2
  <2>1. audioQueue' = <<>> => Len(audioQueue') = 0
    OBVIOUS
  <2>2. audioQueue' # <<>> => Len(audioQueue') \in Nat \ {0}
    BY <1>2, EmptySeq
  <2> HIDE <1>2
  <2>3. Len(audioQueue') = Len(audioQueue) - 1
    BY <1>2
  <2> QED BY <1>1, <2>1, <2>2, <2>3
<1>4. LastPopped' = data[audioQueue[1]] /\ LastPopped = lastSent
  BY <1>1 DEF LastPopped
<1>5. LastQueued' = LastQueued
  BY <1>1, <1>2, <1>3, <1>4 DEF LastQueued
<1>6. data'[cChunk'] = Tick(lastSent')
  BY <1>1, <1>4 DEF InOrder
<1>7. audioQueue' # <<>> => data'[audioQueue'[1]] = Tick(LastPopped')
  BY <1>1, <1>2, <1>3, <1>4 DEF InOrder
<1>8. ASSUME NEW i \in 1 .. Len(audioQueue') - 1
      PROVE  data'[audioQueue'[i + 1]] = Tick(data'[audioQueue'[i]])
  BY <1>1, <1>2 DEF InOrder
<1> QED BY <1>5, <1>6, <1>7, <1>8 DEF InOrder

LEMMA NextOrder ==
    ASSUME PoolSize <= RingCapacity
    PROVE  OrderInv /\ [Next]_vars => OrderInv'
<1> SUFFICES ASSUME OrderInv, [Next]_vars, ~overlapped'
             PROVE  ~readersMet' /\ NeverDrops' /\ InOrder'
  BY NextConservation DEF OrderInv
<1>a. ~overlapped /\ ~readersMet /\ NeverDrops
  BY OverlapStays DEF OrderInv
<1>b. /\ TypeOK /\ StartOrder /\ ChunksPartitioned /\ NeverDrops /\ InOrder
      /\ PopsSound
  BY <1>a DEF OrderInv, ConservationInv, ContractKept
<1>c. ~readersMet'
  <2>1. pState \notin {"drop", "dropping"} /\ ~ProducerDropOldest
    BY <1>a DEF NeverDrops, ProducerDropOldest
  <2>2. CASE WorkerDrain
    <3>1. \/ readersMet' = readersMet
          \/ readersMet' = (readersMet \/ pState = "dropping")
      BY <2>2, WorkerBeginMeets
    <3> QED BY <1>a, <2>1, <3>1
  <2>3. CASE ~WorkerDrain
    <3>1. readersMet' = readersMet
      BY <2>1, <2>3, MarkUntouched
    <3> QED BY <1>a, <3>1
  <2> QED BY <2>2, <2>3
<1> SUFFICES NeverDrops' /\ InOrder'
  BY <1>c
<1> USE <1>b
<1>1. CASE Manager
  <2> USE <1>1 DEF Manager, sharedVars, freeVars, queueVars, soundVars,
        producerLocals, workerLocals
  <2>1. CASE StartWorker
    BY <2>1, OrderUntouched DEF StartWorker, NeverDrops, StartOrder
  <2>2. CASE StartChecker
    BY <2>2, OrderUntouched DEF StartChecker, NeverDrops
  <2>3. CASE StartProducer
    BY <2>3, OrderUntouched DEF StartProducer, NeverDrops, StartOrder
  <2>4. CASE Join
    BY <2>4, OrderUntouched DEF Join, NeverDrops
  <2> QED BY <2>1, <2>2, <2>3, <2>4 DEF Manager
<1>2. CASE Producer
  <2>0. alive /\ UNCHANGED <<workerLocals, kState, mState, peer>>
    BY <1>2 DEF Producer
  <2> USE <2>0 DEF sharedVars, freeVars, queueVars, soundVars,
        producerLocals, workerLocals
  <2>1. CASE ProducerStart
    BY <2>1, OrderUntouched DEF ProducerStart, NeverDrops
  <2>2. CASE ProducerCheck
    BY <2>2, OrderUntouched DEF ProducerCheck, NeverDrops
  <2>3. CASE ProducerWait
    BY <2>3, OrderUntouched DEF ProducerWait, NeverDrops
  <2>4. CASE ProducerAcquire
    BY <2>4, OrderUntouched DEF ProducerAcquire, NeverDrops
  <2>5. CASE ProducerCollect
    BY <2>5, CollectKeepsOrder DEF ProducerCollect, NeverDrops
  <2>6. CASE ProducerCollectNothing
    BY <2>6, OrderUntouched DEF ProducerCollectNothing, NeverDrops
  <2>7. CASE ProducerPush
    BY <2>7, PushKeepsOrder DEF ProducerPush, NeverDrops
  <2>8. CASE ProducerPushFull
    <3>1. pState = "push" /\ pChunk \in ProducerHolds
      BY <2>8 DEF ProducerPushFull, NeverDrops, ProducerHolds, TypeOK
    <3>2. Len(audioQueue) < PoolSize
      BY <3>1, HeldLeavesRoom
    <3> QED BY <2>8, <3>2, ConstantsAssumption DEF ProducerPushFull, TypeOK
  <2>9. CASE ProducerDropOldest
    BY <2>9 DEF ProducerDropOldest, NeverDrops
  <2>10. CASE ProducerReleaseBegin
    <3>1. NeverDrops' /\ pState' # "push"
      BY <2>10 DEF ProducerReleaseBegin, NeverDrops, TypeOK
    <3> QED BY <2>10, <3>1, OrderUntouched DEF ProducerReleaseBegin
  <2>11. CASE ProducerReleaseEnd
    <3>1. NeverDrops'
      BY <2>11 DEF ProducerReleaseEnd, NeverDrops, TypeOK
    <3>2. pState' # "push"
      BY <2>11 DEF ProducerReleaseEnd, TypeOK
    <3> QED BY <2>11, <3>1, <3>2, OrderUntouched DEF ProducerReleaseEnd
  <2>12. CASE ProducerNotify
    BY <2>12, OrderUntouched DEF ProducerNotify, NeverDrops
  <2>13. CASE ProducerLimit
    BY <2>13, OrderUntouched DEF ProducerLimit, NeverDrops
  <2>14. CASE ProducerThrow
    BY <2>14, OrderUntouched DEF ProducerThrow, NeverDrops
  <2>15. CASE ProducerDropped
    BY <2>15 DEF ProducerDropped, NeverDrops
  <2> QED BY <2>1, <2>2, <2>3, <2>4, <2>5, <2>6, <2>7, <2>8, <2>9, <2>10,
        <2>11, <2>12, <2>13, <2>14, <2>15,
        <1>2 DEF Producer
<1>3. CASE Worker
  <2>0. alive /\ UNCHANGED <<soundVars, pState, producerLocals, kState, mState, peer>>
    BY <1>3 DEF Worker
  <2> USE <2>0 DEF sharedVars, freeVars, queueVars, soundVars,
        producerLocals, workerLocals
  <2>1. CASE WorkerTop
    BY <2>1, OrderUntouched DEF WorkerTop, NeverDrops
  <2>2. CASE WorkerDrain
    <3>1. CASE audioQueue = <<>>
      BY <2>2, <3>1, OrderUntouched DEF WorkerDrain, NeverDrops
    <3>2. CASE audioQueue # <<>>
      BY <2>2, <3>2, OrderUntouched DEF WorkerDrain, NeverDrops
    <3> QED BY <3>1, <3>2
  <2>3. CASE WorkerSend
    <3>1. /\ cState = "send" /\ cState' = "release"
          /\ lastSent' = data[cChunk]
          /\ UNCHANGED <<audioQueue, data, nextStamp, pState, pChunk, pRet>>
      BY <2>3 DEF WorkerSend
    <3>2. LastPopped' = LastPopped
      BY <3>1 DEF LastPopped
    <3>3. LastQueued' = LastQueued
      BY <3>1, <3>2 DEF LastQueued
    <3> QED BY <3>1, <3>2, <3>3 DEF NeverDrops, InOrder
  <2>4. CASE WorkerThrow
    BY <2>4, OrderUntouched DEF WorkerThrow, NeverDrops
  <2>5. CASE WorkerReleaseBegin
    BY <2>5, OrderUntouched DEF WorkerReleaseBegin, NeverDrops
  <2>6. CASE WorkerReleaseEnd
    BY <2>6, OrderUntouched DEF WorkerReleaseEnd, NeverDrops
  <2>7. CASE WorkerPredicate
    BY <2>7, OrderUntouched DEF WorkerPredicate, NeverDrops
  <2>8. CASE WorkerSleep
    BY <2>8, OrderUntouched DEF WorkerSleep, NeverDrops
  <2>9. CASE WorkerDrained
    <3>1. /\ cState = "draining" /\ cTo = 1 /\ audioQueue # <<>>
          /\ cChunk = Head(audioQueue)
      BY <2>9 DEF WorkerDrained, PopsSound
    <3>2. audioQueue' = Tail(audioQueue)
      BY <2>9, <3>1, PoppedHead DEF WorkerDrained
    <3>3. cState' = "send" /\ UNCHANGED <<cChunk, lastSent>>
      BY <2>9 DEF WorkerDrained
    <3> QED BY <3>1, <3>2, <3>3, PopKeepsOrder DEF NeverDrops
  <2> QED BY <2>1, <2>2, <2>3, <2>4, <2>5, <2>6, <2>7, <2>8,
        <2>9, <1>3 DEF Worker
<1>4. CASE Checker
  <2> USE <1>4 DEF Checker, sharedVars, freeVars, queueVars, soundVars,
        producerLocals, workerLocals
  <2>1. CASE CheckerCheck
    BY <2>1, OrderUntouched DEF CheckerCheck, NeverDrops
  <2>2. CASE CheckerStop
    BY <2>2, OrderUntouched DEF CheckerStop, NeverDrops
  <2>3. CASE CheckerIgnore
    BY <2>3, OrderUntouched DEF CheckerIgnore, NeverDrops
  <2> QED BY <2>1, <2>2, <2>3 DEF Checker
<1>5. CASE Environment
  <2> USE <1>5 DEF Environment, sharedVars, freeVars, queueVars, soundVars,
        producerLocals, workerLocals
  <2>1. CASE SpuriousWakeup
    BY <2>1, OrderUntouched DEF SpuriousWakeup, NeverDrops
  <2>2. CASE PeerClose
    BY <2>2, OrderUntouched DEF PeerClose, NeverDrops
  <2> QED BY <2>1, <2>2 DEF Environment
<1>6. CASE UNCHANGED vars
  BY <1>6, OrderUntouched
     DEF vars, queueVars, soundVars, producerLocals, workerLocals, NeverDrops
<1> QED BY <1>1, <1>2, <1>3, <1>4, <1>5, <1>6 DEF Next, Ended

\* With PoolSize <= RingCapacity the push of a filled chunk always succeeds:
\* the oldest chunk is never dropped.
THEOREM RingHasRoom ==
    ASSUME PoolSize <= RingCapacity
    PROVE  Spec => []RingNeverFull
<1>1. OrderInv => RingNeverFull
  <2> SUFFICES ASSUME OrderInv, ~overlapped
               PROVE  /\ pState = "push" => Len(audioQueue) < RingCapacity
                      /\ pState \notin {"drop", "dropping", "retry"}
                      /\ ~readersMet
    BY DEF RingNeverFull
  <2>1. TypeOK /\ ChunksPartitioned /\ NeverDrops /\ ~readersMet
    BY DEF OrderInv, ConservationInv, ContractKept
  <2>2. pState = "push" => pChunk \in ProducerHolds
    BY <2>1 DEF TypeOK, ProducerHolds
  <2>3. pState = "push" => Len(audioQueue) < PoolSize
    BY <2>1, <2>2, HeldLeavesRoom
  <2> QED BY <2>1, <2>3, ConstantsAssumption DEF NeverDrops, TypeOK
<1> QED BY <1>1, InitOrder, NextOrder, PTL DEF Spec

\* With PoolSize <= RingCapacity the captures reach the service in the order
\* they were made, each once.
THEOREM CapturesSentInOrder ==
    ASSUME PoolSize <= RingCapacity
    PROVE  Spec => []SentInCaptureOrder
<1>1. OrderInv => SentInCaptureOrder
  BY DEF OrderInv, InOrder, SentInCaptureOrder, ContractKept
<1> QED BY <1>1, InitOrder, NextOrder, PTL DEF Spec

-----------------------------------------------------------------------------
(* The session implements the bounded pipe of AudioPipe.                   *)

\* The captures of the chunks in a queue, and the parts of InFlight.
Sound(d, q) == [i \in 1 .. Len(q) |-> d[q[i]]]
Sending     == IF cState = "send" THEN <<data[cChunk]>> ELSE <<>>
Pushing     == IF pState = "push" THEN <<data[pChunk]>> ELSE <<>>

LEMMA InFlightParts ==
    /\ InFlight = (Sending \o Sound(data, audioQueue)) \o Pushing
    /\ InFlight' = (Sending' \o Sound(data, audioQueue)') \o Pushing'
BY DEF InFlight, Sending, Sound, Pushing

LEMMA PartsTyped ==
    ASSUME TypeOK
    PROVE  /\ Sending \in Seq(Stamp) /\ Pushing \in Seq(Stamp)
           /\ Sound(data, audioQueue) \in Seq(Stamp)
           /\ Len(Sound(data, audioQueue)) = Len(audioQueue)
<1>1. Sending \in Seq(Stamp) /\ Pushing \in Seq(Stamp)
  BY DEF TypeOK, Sending, Pushing
<1>2. audioQueue \in Seq(Chunk) /\ data \in [Chunk -> Stamp]
  BY DEF TypeOK
<1>3. Sound(data, audioQueue) \in Seq(Stamp)
      /\ Len(Sound(data, audioQueue)) = Len(audioQueue)
  BY <1>2 DEF Sound
<1> QED BY <1>1, <1>3

\* The sound of a queue that a chunk enters or leaves.
LEMMA SoundOfAppend ==
    ASSUME NEW d \in [Chunk -> Stamp], NEW q \in Seq(Chunk), NEW c \in Chunk
    PROVE  Sound(d, Append(q, c)) = Sound(d, q) \o <<d[c]>>
<1>1. Append(q, c) \in Seq(Chunk) /\ Len(Append(q, c)) = Len(q) + 1
  BY AppendProperties
<1>2. \A i \in 1 .. Len(q) + 1 :
        Append(q, c)[i] = IF i <= Len(q) THEN q[i] ELSE c
  BY AppendProperties
<1>3. Sound(d, q) \in Seq(Stamp) /\ Len(Sound(d, q)) = Len(q)
  BY DEF Sound
<1>4. Sound(d, Append(q, c)) \in Seq(Stamp)
      /\ Len(Sound(d, Append(q, c))) = Len(q) + 1
  BY <1>1 DEF Sound
<1>5. <<d[c]>> \in Seq(Stamp) /\ Len(<<d[c]>>) = 1 /\ <<d[c]>>[1] = d[c]
  OBVIOUS
<1>6. /\ Sound(d, q) \o <<d[c]>> \in Seq(Stamp)
      /\ Len(Sound(d, q) \o <<d[c]>>) = Len(q) + 1
      /\ \A i \in 1 .. Len(q) + 1 : (Sound(d, q) \o <<d[c]>>)[i]
            = IF i <= Len(q) THEN d[q[i]] ELSE d[c]
  <2>1. \A i \in 1 .. Len(q) : Sound(d, q)[i] = d[q[i]]
    BY DEF Sound
  <2> QED BY <1>3, <1>5, <2>1, ConcatProperties
<1>7. \A i \in 1 .. Len(q) + 1 : Sound(d, Append(q, c))[i]
            = IF i <= Len(q) THEN d[q[i]] ELSE d[c]
  BY <1>1, <1>2 DEF Sound
<1> QED BY <1>4, <1>6, <1>7, SeqEqual

\* A sequence behind one element.
LEMMA HeadAndRest ==
    ASSUME NEW S, NEW e \in S, NEW s \in Seq(S), NEW t, t = <<e>> \o s
    PROVE  /\ t \in Seq(S) /\ Len(t) = Len(s) + 1 /\ t # <<>>
           /\ t[1] = e /\ \A i \in 1 .. Len(s) : t[i + 1] = s[i]
           /\ Head(t) = e /\ Tail(t) = s
<1>1. <<e>> \in Seq(S) /\ Len(<<e>>) = 1 /\ <<e>>[1] = e /\ Len(s) \in Nat
  OBVIOUS
<1>2. /\ t \in Seq(S) /\ Len(t) = 1 + Len(s)
      /\ \A i \in 1 .. 1 + Len(s) : t[i] = IF i <= 1 THEN <<e>>[i] ELSE s[i - 1]
  BY <1>1, ConcatProperties
<1>3. t[1] = e /\ \A i \in 1 .. Len(s) : t[i + 1] = s[i]
  BY <1>1, <1>2
<1>4. t # <<>>
  BY <1>1, <1>2, EmptySeq
<1>5. /\ Head(t) = e /\ Tail(t) \in Seq(S) /\ Len(Tail(t)) = Len(s)
      /\ \A i \in 1 .. Len(s) : Tail(t)[i] = s[i]
  BY <1>1, <1>2, <1>3, <1>4, HeadTailProperties
<1>6. Tail(t) = s
  BY <1>5, SeqEqual
<1> QED BY <1>1, <1>2, <1>3, <1>4, <1>5, <1>6

LEMMA SoundOfTail ==
    ASSUME NEW d \in [Chunk -> Stamp], NEW q \in Seq(Chunk), q # <<>>
    PROVE  Sound(d, q) = <<d[Head(q)]>> \o Sound(d, Tail(q))
<1>1. /\ Tail(q) \in Seq(Chunk) /\ Len(Tail(q)) = Len(q) - 1
      /\ Head(q) = q[1] /\ Len(q) \in Nat \ {0} /\ Head(q) \in Chunk
      /\ \A i \in 1 .. Len(q) - 1 : Tail(q)[i] = q[i + 1]
  BY HeadTailProperties, EmptySeq
<1>2. /\ Sound(d, q) \in Seq(Stamp) /\ Len(Sound(d, q)) = Len(q)
      /\ \A i \in 1 .. Len(q) : Sound(d, q)[i] = d[q[i]]
  BY DEF Sound
<1>3. /\ Sound(d, Tail(q)) \in Seq(Stamp)
      /\ Len(Sound(d, Tail(q))) = Len(q) - 1
      /\ \A i \in 1 .. Len(q) - 1 : Sound(d, Tail(q))[i] = d[q[i + 1]]
  BY <1>1 DEF Sound
<1>4. PICK t : t = <<d[Head(q)]>> \o Sound(d, Tail(q))
  BY Zenon
<1>5. /\ t \in Seq(Stamp) /\ t[1] = d[q[1]]
      /\ Len(t) = Len(Sound(d, Tail(q))) + 1
      /\ \A i \in 1 .. Len(Sound(d, Tail(q))) :
            t[i + 1] = Sound(d, Tail(q))[i]
  <2>1. d[Head(q)] \in Stamp
    BY <1>1
  <2> QED BY <1>1, <1>3, <1>4, <2>1, HeadAndRest
<1>6. Len(t) = Len(q)
  <2>1. Len(t) = (Len(q) - 1) + 1
    BY <1>3, <1>5, Zenon
  <2> QED BY <1>1, <2>1
<1>7. ASSUME NEW i \in 1 .. Len(q) PROVE t[i] = d[q[i]]
  <2>1. CASE i = 1
    BY <1>5, <2>1
  <2>2. CASE i # 1
    <3>1. i - 1 \in 1 .. Len(q) - 1 /\ (i - 1) + 1 = i
      BY <1>1, <2>2
    <3> QED BY <1>3, <1>5, <3>1
  <2> QED BY <2>1, <2>2
<1>8. Sound(d, q) = t
  BY <1>2, <1>5, <1>6, <1>7, SeqEqual
<1> QED BY <1>4, <1>8

\* A step that touches neither the queue, nor the audio, nor whether either
\* thread holds a capture leaves the pipe as it is.
LEMMA PipeUntouched ==
    ASSUME UNCHANGED <<audioQueue, data, nextStamp, lastSent>>,
           (cState = "send") = (cState' = "send"),
           cState = "send" => cChunk' = cChunk,
           (pState = "push") = (pState' = "push"),
           pState = "push" => pChunk' = pChunk
    PROVE  UNCHANGED Pipe!pipeVars
<1>1. Sending' = Sending /\ Pushing' = Pushing
  BY DEF Sending, Pushing
<1>2. Sound(data, audioQueue)' = Sound(data, audioQueue)
  BY DEF Sound
<1>3. InFlight' = InFlight
  BY <1>1, <1>2, InFlightParts
<1> QED BY <1>3 DEF Pipe!pipeVars

\* The capture thread fills the chunk it acquired: a capture enters the pipe.
LEMMA CollectEnters ==
    ASSUME TypeOK, TypeOK', ChunksPartitioned, ProducerCollect,
           UNCHANGED workerLocals
    PROVE  Pipe!Capture
<1>1. /\ pState = "collect" /\ pState' = "push" /\ pChunk' = pChunk
      /\ nextStamp' = Tick(nextStamp) /\ nextStamp \in Stamp
      /\ data' = [data EXCEPT ![pChunk] = nextStamp]
      /\ data \in [Chunk -> Stamp] /\ pChunk \in Chunk
      /\ UNCHANGED <<audioQueue, cState, cChunk, lastSent>>
      /\ audioQueue \in Seq(Chunk)
  BY DEF ProducerCollect, TypeOK, sharedVars, queueVars, producerLocals,
        workerLocals
<1>2. pChunk \in ProducerHolds
  BY <1>1 DEF ProducerHolds
<1>3. pChunk \notin Range(audioQueue) /\ pChunk \notin ConsumerHolds
  BY <1>2 DEF ChunksPartitioned
<1>4. Sound(data, audioQueue)' = Sound(data, audioQueue)
  <2>1. \A i \in 1 .. Len(audioQueue) :
          data'[audioQueue[i]] = data[audioQueue[i]]
    BY <1>1, <1>3 DEF Range
  <2> QED BY <1>1, <2>1 DEF Sound
<1>5. Sending' = Sending
  BY <1>1, <1>3 DEF Sending, ConsumerHolds, TypeOK
<1>6. Pushing = <<>> /\ Pushing' = <<nextStamp>>
  BY <1>1 DEF Pushing
<1>7. InFlight \in Seq(Stamp) /\ InFlight = Sending \o Sound(data, audioQueue)
      /\ InFlight' = InFlight \o <<nextStamp>>
  <2>1. Sending \o Sound(data, audioQueue) \in Seq(Stamp)
    BY PartsTyped, ConcatProperties
  <2>2. (Sending \o Sound(data, audioQueue)) \o <<>>
          = Sending \o Sound(data, audioQueue)
    BY <2>1, ConcatEmptySeq
  <2> QED BY <1>4, <1>5, <1>6, <2>1, <2>2, InFlightParts
<1>8. InFlight' = Append(InFlight, nextStamp)
  BY <1>1, <1>7, AppendIsConcat
<1>9. Len(InFlight) < PoolSize
  <2>1. Len(InFlight) = Len(Sending) + Len(audioQueue)
    <3>1. /\ Sending \in Seq(Stamp) /\ Sound(data, audioQueue) \in Seq(Stamp)
          /\ Len(Sound(data, audioQueue)) = Len(audioQueue)
      BY PartsTyped
    <3>2. Len(Sending \o Sound(data, audioQueue))
            = Len(Sending) + Len(Sound(data, audioQueue))
      BY <3>1, ConcatProperties
    <3> QED BY <1>7, <3>1, <3>2
  <2>2. CASE cState = "send"
    <3>1. /\ cChunk \in Chunk /\ cChunk \in ConsumerHolds
          /\ Len(Sending) = 1
      BY <2>2 DEF TypeOK, ConsumerHolds, Sending
    <3>2. cChunk \notin Range(audioQueue) /\ IsInjective(audioQueue)
      BY <3>1 DEF ChunksPartitioned
    <3>3. /\ IsInjective(Append(audioQueue, cChunk))
          /\ Range(Append(audioQueue, cChunk))
               = Range(audioQueue) \union {cChunk}
      BY <1>1, <3>1, <3>2, AppendDistinct
    <3>4. pChunk \notin Range(Append(audioQueue, cChunk))
      BY <1>3, <3>1, <3>3
    <3>5. Append(audioQueue, cChunk) \in Seq(Chunk)
          /\ Len(Append(audioQueue, cChunk)) = Len(audioQueue) + 1
      BY <1>1, <3>1, AppendProperties
    <3>6. Len(Append(audioQueue, cChunk)) < PoolSize
      BY <1>1, <3>3, <3>4, <3>5, MissingOne
    <3> QED BY <1>1, <2>1, <3>1, <3>5, <3>6
  <2>3. CASE cState # "send"
    <3>1. Len(Sending) = 0
      BY <2>3 DEF Sending
    <3>2. Len(audioQueue) < PoolSize
      BY <1>2, HeldLeavesRoom
    <3> QED BY <1>1, <2>1, <3>1, <3>2
  <2> QED BY <2>2, <2>3
<1> QED BY <1>1, <1>8, <1>9 DEF Pipe!Capture, Tick, Pipe!Tick

\* A capture that moves from the capture thread to the queue, or from the
\* queue to the sender, keeps its place in the pipe.
LEMMA PushStaysInside ==
    ASSUME TypeOK, TypeOK', pState = "push", ProducerPush,
           UNCHANGED workerLocals
    PROVE  UNCHANGED Pipe!pipeVars
<1>1. /\ pState' = "notify" /\ pChunk \in Chunk
      /\ audioQueue' = Append(audioQueue, pChunk)
      /\ data \in [Chunk -> Stamp] /\ audioQueue \in Seq(Chunk)
      /\ UNCHANGED <<data, cState, cChunk, nextStamp, lastSent>>
  BY DEF ProducerPush, TypeOK, soundVars, workerLocals
<1>2. Sound(data, audioQueue)' = Sound(data, audioQueue) \o <<data[pChunk]>>
  BY <1>1, SoundOfAppend
<1>3. /\ Pushing = <<data[pChunk]>> /\ Pushing' = <<>>
      /\ Sending' = Sending
  BY <1>1 DEF Pushing, Sending
<1>4. InFlight' = (Sending \o (Sound(data, audioQueue) \o Pushing)) \o <<>>
  BY <1>2, <1>3, InFlightParts
<1>5. /\ Sending \in Seq(Stamp) /\ Pushing \in Seq(Stamp)
      /\ Sound(data, audioQueue) \in Seq(Stamp)
  BY PartsTyped
<1>6. (Sending \o Sound(data, audioQueue)) \o Pushing
        = Sending \o (Sound(data, audioQueue) \o Pushing)
  BY <1>5, ConcatAssociative
<1>7. Sending \o (Sound(data, audioQueue) \o Pushing) \in Seq(Stamp)
  BY <1>5, ConcatProperties
<1>8. InFlight' = InFlight
  BY <1>4, <1>6, <1>7, ConcatEmptySeq, InFlightParts
<1> QED BY <1>1, <1>8 DEF Pipe!pipeVars

LEMMA DrainStaysInside ==
    ASSUME TypeOK, PopsSound, WorkerDrained,
           UNCHANGED <<soundVars, pState, producerLocals>>
    PROVE  UNCHANGED Pipe!pipeVars
<1>0. cTo = 1 /\ audioQueue # <<>> /\ cChunk = Head(audioQueue)
  BY DEF WorkerDrained, PopsSound
<1>1. /\ cState = "draining" /\ cState' = "send"
      /\ cChunk' = Head(audioQueue) /\ audioQueue' = Tail(audioQueue)
      /\ UNCHANGED <<data, pState, pChunk, nextStamp, lastSent>>
      /\ data \in [Chunk -> Stamp] /\ audioQueue \in Seq(Chunk)
  BY <1>0, PoppedHead DEF WorkerDrained, TypeOK, soundVars, producerLocals,
     workerLocals
<1>2. Sending = <<>> /\ Sending' = <<data[Head(audioQueue)]>>
      /\ Pushing' = Pushing
  BY <1>1 DEF Sending, Pushing
<1>3. Sound(data, audioQueue)
        = <<data[Head(audioQueue)]>> \o Sound(data, audioQueue)'
  BY <1>0, <1>1, SoundOfTail
<1>4. <<>> \o Sound(data, audioQueue) = Sound(data, audioQueue)
  BY PartsTyped, ConcatEmptySeq
<1>5. InFlight' = InFlight
  BY <1>2, <1>3, <1>4, InFlightParts
<1> QED BY <1>1, <1>5 DEF Pipe!pipeVars

\* The sender hands the first capture to the service: it leaves the pipe.
LEMMA SendLeaves ==
    ASSUME TypeOK, WorkerSend, UNCHANGED <<soundVars, pState, producerLocals>>
    PROVE  Pipe!Send
<1>1. /\ cState = "send" /\ cState' = "release" /\ cChunk \in Chunk
      /\ lastSent' = data[cChunk] /\ data[cChunk] \in Stamp
      /\ UNCHANGED <<data, pState, pChunk, nextStamp, audioQueue>>
  BY DEF WorkerSend, TypeOK, queueVars, soundVars, producerLocals
<1>2. Sending = <<data[cChunk]>> /\ Sending' = <<>> /\ Pushing' = Pushing
      /\ Sound(data, audioQueue)' = Sound(data, audioQueue)
  BY <1>1 DEF Sending, Pushing, Sound
<1>3. /\ Sending \in Seq(Stamp) /\ Pushing \in Seq(Stamp)
      /\ Sound(data, audioQueue) \in Seq(Stamp)
  BY PartsTyped
<1>4. InFlight = <<data[cChunk]>> \o (Sound(data, audioQueue) \o Pushing)
  BY <1>2, <1>3, ConcatAssociative, InFlightParts
<1>5. InFlight' = Sound(data, audioQueue) \o Pushing
  BY <1>2, <1>3, ConcatEmptySeq, InFlightParts
<1>6. Sound(data, audioQueue) \o Pushing \in Seq(Stamp)
  BY <1>3, ConcatProperties
<1>7. InFlight # <<>> /\ Head(InFlight) = data[cChunk]
      /\ Tail(InFlight) = InFlight'
  BY <1>1, <1>4, <1>5, <1>6, HeadAndRest
<1> QED BY <1>1, <1>7 DEF Pipe!Send

LEMMA StepIsPipeStep ==
    ASSUME PoolSize <= RingCapacity, OrderInv, TypeOK', [Next]_vars,
           ContractKept'
    PROVE  [Pipe!Next]_(Pipe!pipeVars)
<1>0. ~overlapped
  BY OverlapStays DEF ContractKept
<1>1. TypeOK /\ ChunksPartitioned /\ NeverDrops /\ PopsSound /\ StartOrder
  BY <1>0 DEF OrderInv, ConservationInv, ContractKept
<1> USE <1>1
<1>2. CASE Producer
  <2>0. UNCHANGED <<workerLocals, kState, mState, peer>>
    BY <1>2 DEF Producer
  <2> USE <2>0 DEF sharedVars, freeVars, queueVars, soundVars,
        producerLocals, workerLocals
  <2>1. CASE ProducerCollect
    BY <2>1, CollectEnters DEF Pipe!Next
  <2>2. CASE ProducerPush
    <3>1. pState = "push"
      BY <2>2 DEF ProducerPush, NeverDrops
    <3> QED BY <2>2, <3>1, PushStaysInside
  <2>3. CASE ProducerPushFull
    <3>1. pState = "push" /\ pChunk \in ProducerHolds
      BY <2>3 DEF ProducerPushFull, NeverDrops, ProducerHolds, TypeOK
    <3>2. Len(audioQueue) < PoolSize
      BY <3>1, HeldLeavesRoom
    <3> QED BY <2>3, <3>2, ConstantsAssumption DEF ProducerPushFull, TypeOK
  <2>4. CASE \/ ProducerStart \/ ProducerCheck \/ ProducerWait
             \/ ProducerAcquire \/ ProducerCollectNothing
             \/ ProducerReleaseBegin \/ ProducerReleaseEnd
             \/ ProducerNotify \/ ProducerLimit \/ ProducerThrow
    <3>1. /\ UNCHANGED <<audioQueue, data, nextStamp, lastSent, cChunk>>
          /\ (cState = "send") = (cState' = "send")
          /\ (pState = "push") = (pState' = "push")
          /\ pState = "push" => pChunk' = pChunk
      BY <2>4 DEF ProducerStart, ProducerCheck, ProducerWait, ProducerAcquire,
         ProducerCollectNothing, ProducerReleaseBegin, ProducerReleaseEnd,
         ProducerNotify, ProducerLimit, ProducerThrow, TypeOK
    <3> QED BY <3>1, PipeUntouched
  <2>5. ~(ProducerDropOldest \/ ProducerDropped)
    BY DEF ProducerDropOldest, ProducerDropped, NeverDrops
  <2> QED BY <1>2, <2>1, <2>2, <2>3, <2>4, <2>5 DEF Producer
<1>3. CASE Worker
  <2>0. UNCHANGED <<soundVars, pState, producerLocals, kState, mState, peer>>
    BY <1>3 DEF Worker
  <2> USE <2>0 DEF sharedVars, freeVars, queueVars, soundVars,
        producerLocals, workerLocals
  <2>1. CASE WorkerDrained
    BY <2>1, DrainStaysInside
  <2>2. CASE WorkerSend
    BY <2>2, SendLeaves DEF Pipe!Next
  <2>3. CASE \/ WorkerTop \/ WorkerDrain \/ WorkerThrow
             \/ WorkerReleaseBegin \/ WorkerReleaseEnd \/ WorkerPredicate
             \/ WorkerSleep
    <3>1. /\ UNCHANGED <<audioQueue, lastSent>>
          /\ (cState = "send") = (cState' = "send")
          /\ cState = "send" => cChunk' = cChunk
      BY <2>3 DEF WorkerTop, WorkerDrain, WorkerThrow, WorkerReleaseBegin,
         WorkerReleaseEnd, WorkerPredicate, WorkerSleep
    <3> QED BY <3>1, PipeUntouched
  <2> QED BY <1>3, <2>1, <2>2, <2>3 DEF Worker
<1>4. CASE Manager \/ Checker \/ Environment \/ UNCHANGED vars
  <2> USE DEF sharedVars, freeVars, queueVars, soundVars, producerLocals, workerLocals
  <2>1. /\ UNCHANGED <<audioQueue, data, nextStamp, lastSent, cChunk, pChunk>>
        /\ (cState = "send") = (cState' = "send")
        /\ (pState = "push") = (pState' = "push")
    <3>1. CASE Manager
      BY <3>1 DEF Manager, StartWorker, StartChecker, StartProducer, Join,
         StartOrder
    <3>2. CASE Checker \/ Environment
      BY <3>2 DEF Checker, Environment, SpuriousWakeup, PeerClose
    <3>3. CASE UNCHANGED vars
      BY <3>3 DEF vars
    <3> QED BY <1>4, <3>1, <3>2, <3>3
  <2> QED BY <2>1, PipeUntouched
<1> QED BY <1>2, <1>3, <1>4 DEF Next, Ended

\* With a queue as large as the pool, a session is a first-in first-out pipe
\* of at most PoolSize captures until two pushes to the free list overlap:
\* what the sound device makes reaches the service in order, none twice, none
\* left out, captures without sound among them or not.
THEOREM SessionIsAPipe ==
    ASSUME PoolSize <= RingCapacity
    PROVE  Spec => IsAPipe
<1>1. Init => Pipe!Init
  <2> SUFFICES ASSUME Init PROVE Pipe!Init
    OBVIOUS
  <2>1. TypeOK /\ audioQueue = <<>> /\ Sending = <<>> /\ Pushing = <<>>
    BY InitType DEF Init, Sending, Pushing
  <2>2. Sound(data, audioQueue) = <<>>
    BY <2>1, EmptySeq, PartsTyped
  <2>3. InFlight = <<>>
    BY <2>1, <2>2, InFlightParts
  <2> QED BY <2>3 DEF Init, Pipe!Init, Tick, Pipe!Tick
<1>2. OrderInv /\ OrderInv' /\ [Next]_vars
        => [Pipe!Next \/ ~ContractKept']_(Pipe!pipeVars)
  <2> SUFFICES ASSUME OrderInv, OrderInv', [Next]_vars, ContractKept'
               PROVE  [Pipe!Next]_(Pipe!pipeVars)
    OBVIOUS
  <2>1. TypeOK'
    BY DEF OrderInv, ConservationInv
  <2> QED BY <2>1, StepIsPipeStep
<1> QED BY <1>1, <1>2, InitOrder, NextOrder, PTL DEF Spec, IsAPipe

-----------------------------------------------------------------------------
(* What stays behind when a session ends.                                  *)

\* The sender is in its last drain only after the stop; once it is done, the
\* capture thread pushes at most once more.
AbandonInv ==
    /\ TypeOK
    /\ StartOrder
    /\ ~readersMet => PopsSound
    /\ cFinal => ~keepRunning
    /\ cState = "done" => cFinal
    /\ ~readersMet /\ cState = "done" =>
         \/ audioQueue = <<>>
         \/ /\ Len(audioQueue) = 1
            /\ pState \in {"notify", "limit", "check", "done"}

LEMMA NextAbandon == AbandonInv /\ [Next]_vars => AbandonInv'
<1> SUFFICES ASSUME AbandonInv, [Next]_vars PROVE AbandonInv'
  OBVIOUS
<1>0. TypeOK' /\ StartOrder' /\ (~readersMet' => PopsSound')
  BY NextType, NextStartOrder, NextPops, MeetingStays DEF AbandonInv
<1>a. audioQueue \in Seq(Chunk)
  BY DEF AbandonInv, TypeOK
<1>b. ~readersMet' => ~readersMet
  BY MeetingStays
<1> USE <1>0, <1>a, <1>b
<1>1. CASE Manager
  <2> USE <1>1 DEF Manager, sharedVars, freeVars, queueVars, soundVars,
        producerLocals, workerLocals
  <2>1. CASE StartWorker
    BY <2>1 DEF StartWorker, AbandonInv
  <2>2. CASE StartChecker
    BY <2>2 DEF StartChecker, AbandonInv
  <2>3. CASE StartProducer
    BY <2>3 DEF StartProducer, AbandonInv, StartOrder
  <2>4. CASE Join
    BY <2>4 DEF Join, AbandonInv
  <2> QED BY <2>1, <2>2, <2>3, <2>4 DEF Manager
<1>2. CASE Producer
  <2>0. alive /\ UNCHANGED <<workerLocals, kState, mState, peer>>
    BY <1>2 DEF Producer
  <2> USE <2>0 DEF sharedVars, freeVars, queueVars, soundVars,
        producerLocals, workerLocals
  <2>1. CASE ProducerStart
    BY <2>1 DEF ProducerStart, AbandonInv
  <2>2. CASE ProducerCheck
    BY <2>2 DEF ProducerCheck, AbandonInv
  <2>3. CASE ProducerWait
    BY <2>3 DEF ProducerWait, AbandonInv
  <2>4. CASE ProducerAcquire
    BY <2>4 DEF ProducerAcquire, AbandonInv
  <2>5. CASE ProducerCollect
    BY <2>5 DEF ProducerCollect, AbandonInv
  <2>6. CASE ProducerCollectNothing
    BY <2>6 DEF ProducerCollectNothing, AbandonInv
  <2>7. CASE ProducerPush
    <3>1. pChunk \in Chunk
      BY <2>7 DEF ProducerPush, AbandonInv, TypeOK
    <3>2. audioQueue = <<>> => Len(audioQueue') = 1
      BY <2>7, <3>1, AppendProperties DEF ProducerPush
    <3> QED BY <2>7, <3>2 DEF ProducerPush, AbandonInv
  <2>8. CASE ProducerPushFull
    BY <2>8 DEF ProducerPushFull, AbandonInv
  <2>9. CASE ProducerDropOldest
    BY <2>9 DEF ProducerDropOldest, AbandonInv
  <2>10. CASE ProducerReleaseBegin
    BY <2>10 DEF ProducerReleaseBegin, AbandonInv, TypeOK
  <2>11. CASE ProducerReleaseEnd
    BY <2>11 DEF ProducerReleaseEnd, AbandonInv, TypeOK
  <2>12. CASE ProducerNotify
    BY <2>12 DEF ProducerNotify, AbandonInv
  <2>13. CASE ProducerLimit
    BY <2>13 DEF ProducerLimit, AbandonInv
  <2>14. CASE ProducerThrow
    BY <2>14 DEF ProducerThrow, AbandonInv
  <2>15. CASE ProducerDropped
    <3>1. ~(~readersMet /\ cState = "done")
      BY <2>15 DEF ProducerDropped, AbandonInv, PopsSound
    <3> QED BY <2>15, <3>1 DEF ProducerDropped, AbandonInv
  <2> QED BY <2>1, <2>2, <2>3, <2>4, <2>5, <2>6, <2>7, <2>8, <2>9, <2>10,
        <2>11, <2>12, <2>13, <2>14, <2>15,
        <1>2 DEF Producer
<1>3. CASE Worker
  <2>0. alive /\ UNCHANGED <<soundVars, pState, producerLocals, kState, mState, peer>>
    BY <1>3 DEF Worker
  <2> USE <2>0 DEF sharedVars, freeVars, queueVars, soundVars,
        producerLocals, workerLocals
  <2>1. CASE WorkerTop
    BY <2>1 DEF WorkerTop, AbandonInv
  <2>2. CASE WorkerDrain
    BY <2>2 DEF WorkerDrain, AbandonInv
  <2>3. CASE WorkerSend
    BY <2>3 DEF WorkerSend, AbandonInv
  <2>4. CASE WorkerThrow
    BY <2>4 DEF WorkerThrow, AbandonInv
  <2>5. CASE WorkerReleaseBegin
    BY <2>5 DEF WorkerReleaseBegin, AbandonInv
  <2>6. CASE WorkerReleaseEnd
    BY <2>6 DEF WorkerReleaseEnd, AbandonInv
  <2>7. CASE WorkerPredicate
    BY <2>7 DEF WorkerPredicate, AbandonInv
  <2>8. CASE WorkerSleep
    BY <2>8 DEF WorkerSleep, AbandonInv
  <2>9. CASE WorkerDrained
    BY <2>9 DEF WorkerDrained, AbandonInv
  <2> QED BY <2>1, <2>2, <2>3, <2>4, <2>5, <2>6, <2>7, <2>8,
        <2>9, <1>3 DEF Worker
<1>4. CASE Checker
  <2> USE <1>4 DEF Checker, sharedVars, freeVars, queueVars, soundVars,
        producerLocals, workerLocals
  <2>1. CASE CheckerCheck
    BY <2>1 DEF CheckerCheck, AbandonInv
  <2>2. CASE CheckerStop
    BY <2>2 DEF CheckerStop, AbandonInv
  <2>3. CASE CheckerIgnore
    BY <2>3 DEF CheckerIgnore, AbandonInv
  <2> QED BY <2>1, <2>2, <2>3 DEF Checker
<1>5. CASE Environment
  <2> USE <1>5 DEF Environment, sharedVars, freeVars, queueVars, soundVars,
        producerLocals, workerLocals
  <2>1. CASE SpuriousWakeup
    BY <2>1 DEF SpuriousWakeup, AbandonInv
  <2>2. CASE PeerClose
    BY <2>2 DEF PeerClose, AbandonInv
  <2> QED BY <2>1, <2>2 DEF Environment
<1>6. CASE UNCHANGED vars
  BY <1>6 DEF vars, queueVars, workerLocals, AbandonInv
<1> QED BY <1>1, <1>2, <1>3, <1>4, <1>5, <1>6 DEF Next, Ended

\* When the sender has finished, at most one chunk is still in the queue, for
\* pools and queues of every size, unless two pops have met.
THEOREM AtMostOneLeft == Spec => []AtMostOneChunkAbandoned
<1>1. Init => AbandonInv
  BY InitType DEF Init, AbandonInv, StartOrder, PopsSound
<1>2. AbandonInv => AtMostOneChunkAbandoned
  <2>1. audioQueue = <<>> => Len(audioQueue) <= 1
    OBVIOUS
  <2>2. Len(audioQueue) = 1 => Len(audioQueue) <= 1
    OBVIOUS
  <2> QED BY <2>1, <2>2 DEF AbandonInv, AtMostOneChunkAbandoned
<1> QED BY <1>1, <1>2, NextAbandon, PTL DEF Spec
=============================================================================
