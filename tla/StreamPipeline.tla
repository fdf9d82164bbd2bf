--------------------------- MODULE StreamPipeline ---------------------------
(***************************************************************************)
(* One call of streamSound(): the pool of audio chunks, the lock-free      *)
(* queue, the capture thread (Producer), the sender and the control-socket *)
(* reader (the two threads of Consumer) and the thread that starts and     *)
(* joins them.  A step of the model is one access to shared state.         *)
(*                                                                         *)
(* The pool's free list is a boost::lockfree::spsc_queue, which allows one *)
(* pushing thread.  A push is therefore two steps, the load of the write   *)
(* index and the publication of the next one, and when two pushes overlap  *)
(* the model takes the outcome the ring buffer would produce.  The queue   *)
(* of audio is another one, which allows one popping thread; its second    *)
(* popper is the capture thread when it drops the oldest chunk, and a pop  *)
(* is two steps as well: the load of the indices with the copy of the      *)
(* slot, and the store of the next read index.                             *)
(*                                                                         *)
(* What a chunk contains is abstracted to the number of the capture that   *)
(* filled it, counted modulo StampMod.                                     *)
(***************************************************************************)
EXTENDS Naturals, Sequences, Functions

CONSTANTS
    PoolSize,       \* chunks in the pool (256 in streamSound)
    RingCapacity,   \* RING_CAPACITY, slots of the audio queue (1024)
    FreeCapacity,   \* slots of the pool's free list (1024)
    StampMod,       \* captures are numbered 0 .. StampMod - 1, cyclically
    EmptyCaptures,  \* can collectSound() return no bytes?
    HasLimit,       \* is durationLimit different from -1?
    ReturnCodes     \* what consumeNewData() may return

ASSUME ConstantsAssumption ==
    /\ PoolSize \in Nat \ {0}
    /\ RingCapacity \in Nat \ {0}
    /\ FreeCapacity \in Nat
    /\ PoolSize <= FreeCapacity
    /\ StampMod \in Nat
    /\ StampMod >= 2
    /\ EmptyCaptures \in BOOLEAN
    /\ HasLimit \in BOOLEAN

Chunk == 0 .. PoolSize - 1
Null  == PoolSize               \* nullptr
Stamp == 0 .. StampMod - 1
Tick(n) == IF n = StampMod - 1 THEN 0 ELSE n + 1

VARIABLES
    keepRunning,    \* the shared std::atomic<bool>
    freeList,       \* AudioBufferPool::_freeIndices
    audioQueue,     \* the queue from the capture thread to the sender
    pTo, cTo,       \* distance of the read index a pop in progress will store
    readersMet,     \* have two pops of audioQueue ever overlapped?
    data,           \* chunk -> number of the capture its bytes come from
    nextStamp,      \* the sound device: number of the next capture
    pState, pChunk, pRel, pRet, pAt,   \* the capture thread
    cState, cFinal, cChunk, cAt,       \* the sender thread
    lastSent,       \* number of the last capture handed to the service
    kState,         \* the thread that reads the control socket
    mState,         \* the thread that runs streamSound()
    peer,           \* the client's end of the control socket
    alive,          \* FALSE once an exception left a thread function
    overlapped      \* have two pushes to freeList ever overlapped?

\* The free list with the pushes in progress, the queue with the pops in
\* progress, the audio and its source, and what is local to each loop.
freeVars   == <<freeList, pAt, cAt, overlapped>>
queueVars  == <<audioQueue, pTo, cTo, readersMet>>
sharedVars == <<keepRunning, freeVars, queueVars>>
soundVars  == <<data, nextStamp>>
producerLocals == <<pChunk, pRel, pRet>>
workerLocals   == <<cFinal, cChunk, lastSent>>
vars == <<keepRunning, freeVars, queueVars, soundVars, pState,
          producerLocals, cState, workerLocals, kState, mState, peer, alive>>

PStates == {"off", "start", "check", "wait", "acquire", "collect", "push",
            "drop", "dropping", "retry", "release", "releasing", "notify", "limit", "done"}
CStates == {"off", "top", "drain", "draining", "send", "release", "releasing",
            "predicate", "presleep", "waiting", "done"}
KStates == {"off", "check", "recv", "done"}
MStates == {"startWorker", "startChecker", "startProducer", "joinProducer",
            "joinWorker", "joinChecker", "destroy", "done"}

TypeOK ==
    /\ keepRunning \in BOOLEAN
    /\ freeList \in Seq(Chunk) /\ Len(freeList) <= FreeCapacity
    /\ audioQueue \in Seq(Chunk) /\ Len(audioQueue) <= RingCapacity
    /\ data \in [Chunk -> Stamp]
    /\ nextStamp \in Stamp
    /\ pState \in PStates
    /\ pChunk \in Chunk \union {Null}
    /\ pRel \in Chunk \union {Null}
    /\ pRet \in {"check", "retry", "notify"}
    /\ pAt \in 0 .. FreeCapacity
    /\ pState \in {"collect", "push", "drop", "retry"} => pChunk \in Chunk
    /\ pState \in {"dropping", "release", "releasing"} =>
         pRel \in Chunk /\ pChunk \in Chunk
    /\ cState \in CStates
    /\ cFinal \in BOOLEAN
    /\ cChunk \in Chunk \union {Null}
    /\ cState \in {"draining", "send", "release", "releasing"} =>
         cChunk \in Chunk
    /\ cAt \in 0 .. FreeCapacity
    /\ pTo \in 0 .. RingCapacity /\ cTo \in 0 .. RingCapacity
    /\ lastSent \in Stamp
    /\ kState \in KStates
    /\ mState \in MStates
    /\ peer \in {"open", "closed"}
    /\ alive \in BOOLEAN
    /\ overlapped \in BOOLEAN /\ readersMet \in BOOLEAN

Init ==
    /\ keepRunning = TRUE
    /\ freeList = [i \in 1 .. PoolSize |-> i - 1]
    /\ audioQueue = <<>> /\ pTo = 0 /\ cTo = 0
    /\ data = [c \in Chunk |-> 0]
    /\ nextStamp = Tick(0)
    /\ pState = "off" /\ pChunk = Null /\ pRel = Null
    /\ pRet = "check" /\ pAt = 0
    /\ cState = "off" /\ cFinal = FALSE /\ cChunk = Null /\ cAt = 0
    /\ lastSent = 0
    /\ kState = "off"
    /\ mState = "startWorker"
    /\ peer = "open"
    /\ alive = TRUE
    /\ overlapped = FALSE /\ readersMet = FALSE

-----------------------------------------------------------------------------
(* The free list.  A pusher keeps the distance of the slot it will write   *)
(* from the read index, so a pop in between moves the slot one nearer.     *)

\* Distance of the write slot after one pop, round the ring of
\* FreeCapacity + 1 slots.
Nearer(at) == IF at = 0 THEN FreeCapacity ELSE at - 1

\* Content of the free list once a pusher has written chunk c at distance
\* at and published the next index: everything pushed at or behind that slot
\* meanwhile is cut off, slots nobody filled show what they last held, and
\* an index equal to the read index makes the list empty.
Published(at, c) ==
    IF at = FreeCapacity THEN {<<>>}
    ELSE IF at <= Len(freeList) THEN {Append(SubSeq(freeList, 1, at), c)}
    ELSE {Append(freeList \o stale, c) :
             stale \in [1 .. at - Len(freeList) -> Chunk]}

(* The queue of audio.  A popper keeps the distance of the read index it   *)
(* will store from the current one, round the ring of RingCapacity + 1     *)
(* slots, so a pop that ends in between moves it nearer.                   *)

\* That distance after another pop has stored an index at distance by.
Behind(to, by) == IF by <= to THEN to - by ELSE to + RingCapacity + 1 - by

\* Content of the queue once a popper has stored the index at distance to:
\* an index beyond the last chunk has run round the ring, and the slots
\* between it and the old one show chunks they held before.
Popped(to) ==
    IF to <= Len(audioQueue)
      THEN {SubSeq(audioQueue, to + 1, Len(audioQueue))}
      ELSE {stale \o audioQueue :
               stale \in [1 .. RingCapacity + 1 - to -> Chunk]}

-----------------------------------------------------------------------------
(* streamSound(): start the threads, then join them.                       *)

StartWorker ==
    /\ mState = "startWorker"
    /\ mState' = "startChecker"
    /\ cState' = "top"
    /\ UNCHANGED <<pState, kState>>

StartChecker ==
    /\ mState = "startChecker"
    /\ mState' = "startProducer"
    /\ kState' = "check"
    /\ UNCHANGED <<pState, cState>>

StartProducer ==
    /\ mState = "startProducer"
    /\ mState' = "joinProducer"
    /\ pState' = "start"
    /\ UNCHANGED <<cState, kState>>

\* producer.join(), consumer.join() (worker, then checker), destroy().
Join ==
    /\ \/ mState = "joinProducer" /\ pState = "done" /\ mState' = "joinWorker"
       \/ mState = "joinWorker" /\ cState = "done" /\ mState' = "joinChecker"
       \/ mState = "joinChecker" /\ kState = "done" /\ mState' = "destroy"
       \/ mState = "destroy" /\ mState' = "done"
    /\ UNCHANGED <<pState, cState, kState>>

-----------------------------------------------------------------------------
(* Producer::runProduction                                                 *)

\* startRecording() returns.
ProducerStart ==
    /\ pState = "start"
    /\ pState' = "check"
    /\ UNCHANGED <<sharedVars, soundVars, producerLocals, cState, alive>>

\* while (_keepRunning.load())
ProducerCheck ==
    /\ pState = "check"
    /\ pState' = IF keepRunning THEN "wait" ELSE "done"
    /\ UNCHANGED <<sharedVars, soundVars, producerLocals, cState, alive>>

\* WaitForSingleObject(_captureEvent, 100): the event, the timeout, or a
\* failure, which leaves the loop whatever _keepRunning is.
ProducerWait ==
    /\ pState = "wait"
    /\ pState' \in {"acquire", "check", "done"}
    /\ UNCHANGED <<sharedVars, soundVars, producerLocals, cState, alive>>

\* Mutated form of ProducerAcquire: the free index is read and not popped.
ProducerAcquirePeeks ==
    /\ pState = "acquire" /\ freeList # <<>>
    /\ pState' = "collect"
    /\ pChunk' = Head(freeList)
    /\ UNCHANGED <<sharedVars, soundVars, pRel, pRet, cState, alive>>

\* AcquireChunk(): pop a free index, or nullptr when there is none.
ProducerAcquire ==
    /\ pState = "acquire"
    /\ IF freeList = <<>>
         THEN /\ pState' = "check"
              /\ UNCHANGED <<freeList, pChunk, cAt>>
         ELSE /\ pState' = "collect"
              /\ pChunk' = Head(freeList)
              /\ freeList' = Tail(freeList)
              /\ cAt' = IF cState = "releasing" THEN Nearer(cAt) ELSE cAt
    /\ UNCHANGED <<keepRunning, pAt, overlapped, queueVars, soundVars, pRel,
                   pRet, cState, alive>>

\* collectSound() copied the next piece of audio into the chunk.
ProducerCollect ==
    /\ pState = "collect"
    /\ data' = [data EXCEPT ![pChunk] = nextStamp]
    /\ nextStamp' = Tick(nextStamp)
    /\ pState' = "push"
    /\ UNCHANGED <<sharedVars, producerLocals, cState, alive>>

\* Mutated form of ProducerCollectNothing: no ReleaseChunk().
ProducerCollectNothingLeaks ==
    /\ EmptyCaptures
    /\ pState = "collect"
    /\ pState' = "check"
    /\ UNCHANGED <<sharedVars, soundVars, producerLocals, cState, alive>>

\* collectSound() returned no bytes: the chunk goes back to the pool.
ProducerCollectNothing ==
    /\ EmptyCaptures
    /\ pState = "collect"
    /\ pState' = "release" /\ pRel' = pChunk /\ pRet' = "check"
    /\ UNCHANGED <<sharedVars, soundVars, pChunk, cState, alive>>

\* _audioQueue.push(chunk), before or after the oldest chunk was dropped.
ProducerPush ==
    /\ pState \in {"push", "retry"}
    /\ Len(audioQueue) < RingCapacity
    /\ audioQueue' = Append(audioQueue, pChunk)
    /\ pState' = "notify"
    /\ UNCHANGED <<keepRunning, freeVars, pTo, cTo, readersMet, soundVars,
                   producerLocals, cState, alive>>

\* The push failed: drop the oldest chunk, or this one when it is the second.
ProducerPushFull ==
    /\ pState \in {"push", "retry"}
    /\ Len(audioQueue) >= RingCapacity
    /\ IF pState = "push"
         THEN pState' = "drop" /\ UNCHANGED <<pRel, pRet>>
         ELSE pState' = "release" /\ pRel' = pChunk /\ pRet' = "notify"
    /\ UNCHANGED <<sharedVars, soundVars, pChunk, cState, alive>>

\* _audioQueue.pop(dropped): the oldest chunk is read, or, when the sender
\* emptied the queue meanwhile, the new one is released instead.
ProducerDropOldest ==
    /\ pState = "drop"
    /\ IF audioQueue = <<>>
         THEN /\ pState' = "release" /\ pRel' = pChunk /\ pRet' = "notify"
              /\ UNCHANGED <<pTo, readersMet>>
         ELSE /\ pState' = "dropping" /\ pRel' = Head(audioQueue)
              /\ pRet' = "retry"
              /\ pTo' = 1
              /\ readersMet' = (readersMet \/ cState = "draining")
    /\ UNCHANGED <<keepRunning, freeVars, audioQueue, cTo, soundVars, pChunk,
                   cState, alive>>

\* _audioQueue.pop(dropped): the next read index is stored; the dropped chunk
\* is released next and the push tried again.
ProducerDropped ==
    /\ pState = "dropping"
    /\ pState' = "release"
    /\ audioQueue' \in Popped(pTo)
    /\ cTo' = IF cState = "draining" THEN Behind(cTo, pTo) ELSE cTo
    /\ pTo' = 0
    /\ UNCHANGED <<keepRunning, freeVars, readersMet, soundVars,
                   producerLocals, cState, alive>>

\* ReleaseChunk(): the load of the write index.  A full list refuses the
\* push and ReleaseChunk() ignores that.
ProducerReleaseBegin ==
    /\ pState = "release"
    /\ IF Len(freeList) >= FreeCapacity
         THEN pState' = pRet /\ UNCHANGED <<pAt, overlapped>>
         ELSE /\ pState' = "releasing"
              /\ pAt' = Len(freeList)
              /\ overlapped' = (overlapped \/ cState = "releasing")
    /\ UNCHANGED <<keepRunning, freeList, cAt, queueVars, soundVars,
                   producerLocals, cState, alive>>

\* ReleaseChunk(): the slot is written and the next index published.
ProducerReleaseEnd ==
    /\ pState = "releasing"
    /\ freeList' \in Published(pAt, pRel)
    /\ pState' = pRet
    /\ pAt' = 0 /\ pRel' = Null /\ pRet' = "check"
    /\ UNCHANGED <<keepRunning, cAt, overlapped, queueVars, soundVars,
                   pChunk, cState, alive>>

\* cv.notify_one(), without the mutex: only a thread already asleep wakes.
ProducerNotify ==
    /\ pState = "notify"
    /\ pState' = "limit"
    /\ cState' = IF cState = "waiting" THEN "predicate" ELSE cState
    /\ UNCHANGED <<sharedVars, soundVars, producerLocals, alive>>

\* The test of durationLimit at the end of an iteration.
ProducerLimit ==
    /\ pState = "limit"
    /\ pState' = "check"
    /\ \/ UNCHANGED keepRunning
       \/ HasLimit /\ keepRunning' = FALSE
    /\ UNCHANGED <<freeVars, queueVars, soundVars, producerLocals, cState,
                   alive>>

\* startRecording() or collectSound() throws; nobody catches, the process
\* terminates.
ProducerThrow ==
    /\ pState \in {"start", "collect"}
    /\ alive' = FALSE
    /\ UNCHANGED <<sharedVars, soundVars, pState, producerLocals, cState>>

-----------------------------------------------------------------------------
(* Consumer::runConsuming and processChunk                                 *)

\* Mutated form of WorkerTop: no drain after the loop.
WorkerTopNoFinalDrain ==
    /\ cState = "top"
    /\ cState' = IF keepRunning THEN "drain" ELSE "done"
    /\ UNCHANGED <<sharedVars, workerLocals, alive>>

\* while (_keepRunning.load()); cFinal says the loop was left and the drain
\* after it runs.
WorkerTop ==
    /\ cState = "top"
    /\ cState' = "drain"
    /\ cFinal' = ~keepRunning
    /\ UNCHANGED <<sharedVars, cChunk, lastSent, alive>>

\* while (_audioQueue.pop(chunkPtr)), in the loop and after it: nothing, or
\* the oldest chunk is read.
WorkerDrain ==
    /\ cState = "drain"
    /\ IF audioQueue = <<>>
         THEN /\ cState' = IF cFinal THEN "done" ELSE "predicate"
              /\ UNCHANGED <<cChunk, cTo, readersMet>>
         ELSE /\ cState' = "draining"
              /\ cChunk' = Head(audioQueue)
              /\ cTo' = 1
              /\ readersMet' = (readersMet \/ pState = "dropping")
    /\ UNCHANGED <<keepRunning, freeVars, audioQueue, pTo, cFinal, lastSent,
                   alive>>

\* Mutated form of WorkerDrained: the chunk returns to the pool when popped.
WorkerDrainedReleases ==
    /\ cState = "draining"
    /\ cState' = "send"
    /\ audioQueue' \in Popped(cTo)
    /\ freeList' = Append(freeList, cChunk)
    /\ pTo' = IF pState = "dropping" THEN Behind(pTo, cTo) ELSE pTo
    /\ cTo' = 0
    /\ UNCHANGED <<keepRunning, pAt, cAt, overlapped, readersMet,
                   workerLocals, alive>>

\* _audioQueue.pop(chunkPtr): the next read index is stored.
WorkerDrained ==
    /\ cState = "draining"
    /\ cState' = "send"
    /\ audioQueue' \in Popped(cTo)
    /\ pTo' = IF pState = "dropping" THEN Behind(pTo, cTo) ELSE pTo
    /\ cTo' = 0
    /\ UNCHANGED <<keepRunning, freeVars, readersMet, workerLocals, alive>>

\* consumeNewData() takes the bytes; any answer but OK ends the session.
WorkerSend ==
    /\ cState = "send"
    /\ lastSent' = data[cChunk]
    /\ \E rc \in ReturnCodes : keepRunning' = (keepRunning /\ rc = "OK")
    /\ cState' = "release"
    /\ UNCHANGED <<freeVars, queueVars, cFinal, cChunk, alive>>

\* sendMessage() throws SendException: the process terminates.
WorkerThrow ==
    /\ cState = "send"
    /\ alive' = FALSE
    /\ UNCHANGED <<sharedVars, cState, workerLocals>>

\* ReleaseChunk() on the sender's side, in the same two steps.
WorkerReleaseBegin ==
    /\ cState = "release"
    /\ IF Len(freeList) >= FreeCapacity
         THEN cState' = "drain" /\ UNCHANGED <<cAt, overlapped>>
         ELSE /\ cState' = "releasing"
              /\ cAt' = Len(freeList)
              /\ overlapped' = (overlapped \/ pState = "releasing")
    /\ UNCHANGED <<keepRunning, freeList, pAt, queueVars, workerLocals, alive>>

WorkerReleaseEnd ==
    /\ cState = "releasing"
    /\ freeList' \in Published(cAt, cChunk)
    /\ cState' = "drain"
    /\ cAt' = 0
    /\ UNCHANGED <<keepRunning, pAt, overlapped, queueVars, workerLocals,
                   alive>>

\* Mutated form of WorkerPredicate: the queue is not looked at.
WorkerPredicateStopOnly ==
    /\ cState = "predicate"
    /\ cState' = IF ~keepRunning THEN "top" ELSE "presleep"
    /\ UNCHANGED <<sharedVars, workerLocals, alive>>

\* The predicate of cv.wait(), evaluated with the mutex held; cv.wait()
\* returns to the head of the loop when it is true.
WorkerPredicate ==
    /\ cState = "predicate"
    /\ cState' = IF ~keepRunning \/ audioQueue # <<>> THEN "top" ELSE "presleep"
    /\ UNCHANGED <<sharedVars, workerLocals, alive>>

\* The thread joins the waiters of cv: until here a notification is lost.
WorkerSleep ==
    /\ cState = "presleep"
    /\ cState' = "waiting"
    /\ UNCHANGED <<sharedVars, workerLocals, alive>>

\* A condition variable may wake without a notification.
SpuriousWakeup ==
    /\ cState = "waiting"
    /\ cState' = "predicate"
    /\ UNCHANGED peer

-----------------------------------------------------------------------------
(* Consumer::runChecking, and the client at the other end of the socket    *)

CheckerCheck ==
    /\ kState = "check"
    /\ kState' = IF keepRunning THEN "recv" ELSE "done"
    /\ UNCHANGED keepRunning

\* Mutated form of CheckerStop: a closed socket is taken for an unknown word.
CheckerStopIgnored ==
    /\ kState = "recv"
    /\ kState' = "check"
    /\ UNCHANGED keepRunning

\* checkAction() returns STOP_STREAMING, or a word that is not positive as
\* an int, or 0 because the client closed the socket.
CheckerStop ==
    /\ kState = "recv"
    /\ keepRunning' = FALSE
    /\ kState' = "check"

\* checkAction() returns any other positive word (the client's 55 is one).
CheckerIgnore ==
    /\ kState = "recv" /\ peer = "open"
    /\ kState' = "check"
    /\ UNCHANGED keepRunning

PeerClose ==
    /\ peer = "open"
    /\ peer' = "closed"
    /\ UNCHANGED cState

-----------------------------------------------------------------------------
(* What a thread never touches is said once, with the thread.              *)

Manager ==
    /\ alive
    /\ StartWorker \/ StartChecker \/ StartProducer \/ Join
    /\ UNCHANGED <<sharedVars, soundVars, producerLocals, workerLocals, peer,
                   alive>>

Producer ==
    /\ alive
    /\ \/ ProducerStart \/ ProducerCheck \/ ProducerWait \/ ProducerAcquire
       \/ ProducerCollect \/ ProducerCollectNothing \/ ProducerPush
       \/ ProducerPushFull \/ ProducerDropOldest \/ ProducerDropped
       \/ ProducerReleaseBegin \/ ProducerReleaseEnd \/ ProducerNotify
       \/ ProducerLimit \/ ProducerThrow
    /\ UNCHANGED <<workerLocals, kState, mState, peer>>

Worker ==
    /\ alive
    /\ \/ WorkerTop \/ WorkerDrain \/ WorkerDrained \/ WorkerSend
       \/ WorkerThrow \/ WorkerReleaseBegin \/ WorkerReleaseEnd
       \/ WorkerPredicate \/ WorkerSleep
    /\ UNCHANGED <<soundVars, pState, producerLocals, kState, mState, peer>>

Checker ==
    /\ alive
    /\ CheckerCheck \/ CheckerStop \/ CheckerIgnore
    /\ UNCHANGED <<freeVars, queueVars, soundVars, pState, producerLocals,
                   cState, workerLocals, mState, peer, alive>>

\* A spurious wakeup of the sender, and the client closing its socket.
Environment ==
    /\ alive
    /\ SpuriousWakeup \/ PeerClose
    /\ UNCHANGED <<sharedVars, soundVars, pState, producerLocals,
                   workerLocals, kState, mState, alive>>

\* The session is over or the process has terminated.
Ended == (~alive \/ mState = "done") /\ UNCHANGED vars

Next == Manager \/ Producer \/ Worker \/ Checker \/ Environment \/ Ended

Spec == Init /\ [][Next]_vars

\* The operating system runs every runnable thread; a blocked recv ends when
\* the client has closed.
FairSpec ==
    /\ Spec
    /\ WF_vars(Manager) /\ WF_vars(Producer) /\ WF_vars(Worker)
    /\ WF_vars(Checker /\ (CheckerCheck \/ peer = "closed"))

-----------------------------------------------------------------------------
(* Where a chunk is.                                                       *)

ProducerHolds ==
    {c \in Chunk :
        \/ /\ c = pChunk
           /\ pState \in {"collect", "push", "drop", "dropping", "retry"}
        \/ c = pRel /\ pState \in {"release", "releasing"}
        \/ c = pChunk /\ pState \in {"release", "releasing"} /\ pRet = "retry"}

ConsumerHolds ==
    {c \in Chunk : c = cChunk /\ cState \in {"send", "release", "releasing"}}

\* Both spsc_queues have been used as their contract says so far: one thread
\* at a time pushing to the free list, one at a time popping the audio queue.
ContractKept == ~overlapped /\ ~readersMet

\* The four holders share the chunks out among them.
ChunksPartitioned ==
    /\ IsInjective(freeList) /\ IsInjective(audioQueue)
    /\ Range(freeList) \intersect Range(audioQueue) = {}
    /\ (Range(freeList) \union Range(audioQueue))
         \intersect (ProducerHolds \union ConsumerHolds) = {}
    /\ ProducerHolds \intersect ConsumerHolds = {}
    /\ Chunk = Range(freeList) \union Range(audioQueue)
                 \union ProducerHolds \union ConsumerHolds

\* Every chunk is in exactly one place: the free list, the queue, the hands
\* of the capture thread or those of the sender.  Nothing in the code frees
\* a lost chunk or notices one used twice.  Claimed as long as no two pushes
\* of the free list and no two pops of the audio queue have overlapped: with
\* a pool larger than the queue both threads can pop the same chunk.
ChunkConservation == ContractKept => ChunksPartitioned

\* The queue has room whenever the capture thread holds a filled chunk, so
\* the oldest chunk is never dropped and the queue keeps its one reader (the
\* pool has 256 chunks, the queue 1024 slots).
RingNeverFull ==
    ~overlapped =>
        /\ pState = "push" => Len(audioQueue) < RingCapacity
        /\ pState \notin {"drop", "dropping", "retry"}
        /\ ~readersMet

\* The sender hands captures to the service in the order they were made,
\* none left out and none twice, whatever the two threads interleave.
SentInCaptureOrder ==
    ContractKept /\ cState = "send" => data[cChunk] = Tick(lastSent)

\* When the sender has finished its last drain, at most the chunk the capture
\* thread was filling meanwhile stays behind.  A pop that stores an index the
\* other thread has already passed brings old chunks back, so this, too, needs
\* the queue's one reader.
AtMostOneChunkAbandoned ==
    ~readersMet /\ cState = "done" => Len(audioQueue) <= 1

\* The captures between the sound device and the network service: the one
\* being sent, those in the queue, the one being pushed.
InFlight ==
    (IF cState = "send" THEN <<data[cChunk]>> ELSE <<>>)
      \o [i \in 1 .. Len(audioQueue) |-> data[audioQueue[i]]]
      \o (IF pState = "push" THEN <<data[pChunk]>> ELSE <<>>)

Pipe == INSTANCE AudioPipe WITH pipe <- InFlight, Capacity <- PoolSize

\* The session is a first-in first-out pipe of at most PoolSize captures, up
\* to the first overlap of two pushes or two pops.  Captures that bring no
\* sound are steps that leave the pipe alone.
IsAPipe == Pipe!Init /\ [][Pipe!Next \/ ~ContractKept']_(Pipe!pipeVars)

-----------------------------------------------------------------------------
(* Liveness, under FairSpec.                                               *)

\* Once the client has closed the control socket, the reader and the capture
\* thread both finish (or the process has terminated).
CloseStopsCapture ==
    peer = "closed" ~> (~alive \/ (pState = "done" /\ kState = "done"))

\* A sender that is awake does not go to sleep on what is in the queue: each
\* of these chunks leaves it, also when the session is stopping.  Only what is
\* pushed after the predicate was evaluated waits for the next notification.
AwakeSenderDrains ==
    \A c \in Chunk :
        (cState \notin {"off", "presleep", "waiting", "done"}
           /\ c \in Range(audioQueue))
        ~> (~alive \/ ~ContractKept \/ c \notin Range(audioQueue))

\* "Wait until queue is not empty or external stop signal": once keepRunning is FALSE the sender
\* finishes, or the process terminates.
StopEndsWorker == ~keepRunning ~> (~alive \/ cState = "done")

=============================================================================
