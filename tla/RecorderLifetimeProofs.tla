------------------------ MODULE RecorderLifetimeProofs ------------------------
(***************************************************************************)
(* No session calls an object that is not ready, for any number of         *)
(* sessions.  What a session thread has acquired is known from where it    *)
(* is; the capture thread and the sender call only while it is between     *)
(* start and join; and COM was initialised once for every thread that is   *)
(* past the enumerator.                                                    *)
(***************************************************************************)
EXTENDS RecorderLifetime, FiniteSetTheorems, TLAPS

Outside == {"idle", "uninitialize"}

Held(s) ==
    /\ pc[s] \notin Outside => "event" \in has[s]
    /\ pc[s] \notin Outside \cup {"enumerator"} => "enumerator" \in has[s]
    /\ pc[s] \notin Outside \cup {"enumerator", "device"} =>
         "device" \in has[s]
    /\ pc[s] \notin Outside \cup {"enumerator", "device", "client"} =>
         "client" \in has[s]
    /\ pc[s] \notin Outside \cup {"enumerator", "device", "client",
                                  "format"} => "format" \in has[s]
    /\ pc[s] \notin Outside \cup {"enumerator", "device", "client", "format",
                                  "initialized"} => "initialized" \in has[s]
    /\ pc[s] \notin Outside \cup {"enumerator", "device", "client", "format",
                                  "initialized", "events"} =>
         "events" \in has[s]
    /\ pc[s] \notin Outside \cup {"enumerator", "device", "client", "format",
                                  "initialized", "events", "packets"} =>
         "packets" \in has[s]

ThreadsInside(s) ==
    /\ capture[s] \in {"start", "check", "wait", "collect"} =>
         pc[s] = "joinProducer"
    /\ sender[s] = "running" => pc[s] \in Streaming

\* Sessions whose thread initialised COM and did not uninitialise it.
InApartment == {s \in Sessions : pc[s] \notin {"idle", "enumerator"}}

ComCount == apartment = Cardinality(InApartment)

RecorderInv ==
    /\ TypeOK
    /\ \A s \in Sessions : Held(s) /\ ThreadsInside(s)
    /\ ComCount
    /\ EveryCallIsAccepted

-----------------------------------------------------------------------------
(* The apartment                                                           *)

LEMMA ApartmentIsFinite ==
    /\ IsFiniteSet(InApartment)
    /\ Cardinality(InApartment) \in 0 .. Cardinality(Sessions)
    /\ \A s \in InApartment : Cardinality(InApartment) > 0
  <1>1. InApartment \in SUBSET Sessions
    BY DEF InApartment
  <1>2. /\ IsFiniteSet(InApartment)
        /\ Cardinality(InApartment) <= Cardinality(Sessions)
    BY <1>1, FS_Subset, RecorderAssumption
  <1>3. Cardinality(InApartment) \in Nat /\ Cardinality(Sessions) \in Nat
    BY <1>2, FS_CardinalityType, RecorderAssumption
  <1>4. Cardinality(InApartment) = 0 <=> InApartment = {}
    BY <1>2, FS_EmptySet
  <1> QED
    BY <1>2, <1>3, <1>4

\* A thread that moves without entering or leaving keeps the count.
LEMMA SameApartment ==
    ASSUME NEW s \in Sessions, NEW next,
           pc \in [Sessions -> SessionSteps],
           pc' = [pc EXCEPT ![s] = next],
           pc[s] \in {"idle", "enumerator"} <=> next \in {"idle", "enumerator"}
    PROVE  InApartment' = InApartment
BY DEF InApartment

-----------------------------------------------------------------------------
(* The invariant                                                           *)

LEMMA RecorderInit == Init => RecorderInv
  <1> SUFFICES ASSUME Init PROVE RecorderInv
    OBVIOUS
  <1>1. InApartment = {}
    BY DEF Init, InApartment
  <1>2. Cardinality(InApartment) = 0
    BY <1>1, FS_EmptySet
  <1>3. 0 \in 0 .. Cardinality(Sessions)
    BY FS_CardinalityType, RecorderAssumption
  <1>4. TypeOK
    BY <1>3 DEF Init, TypeOK, SessionSteps, Objects
  <1>5. ComCount
    BY <1>2 DEF Init, ComCount
  <1> QED
    BY <1>4, <1>5 DEF Init, RecorderInv, Held, ThreadsInside, Outside,
                      EveryCallIsAccepted

\* What each caller needs is there.
LEMMA CallsAccepted ==
    ASSUME RecorderInv, NEW s \in Sessions
    PROVE  /\ pc[s] \in {"device", "client", "format", "initialized",
                         "events", "packets", "release"} =>
                Accepted(s, pc[s])
           /\ pc[s] = "format" => Accepted(s, "deviceFormat")
           /\ pc[s] = "accept" => Accepted(s, "send")
           /\ capture[s] = "start" => Accepted(s, "start")
           /\ capture[s] = "collect" => Accepted(s, "collect")
           /\ sender[s] = "running" => Accepted(s, "send")
  <1>1. pc[s] \notin {"idle", "enumerator"} => apartment > 0
    <2>1. pc[s] \notin {"idle", "enumerator"} => s \in InApartment
      BY DEF InApartment
    <2> QED
      BY <2>1, ApartmentIsFinite DEF RecorderInv, ComCount
  <1>2. Held(s) /\ ThreadsInside(s)
    BY DEF RecorderInv
  <1>3. ASSUME pc[s] = "device" PROVE Accepted(s, "device")
    BY <1>1, <1>2, <1>3 DEF Held, Outside, Accepted, Needs
  <1>4. ASSUME pc[s] = "client" PROVE Accepted(s, "client")
    BY <1>1, <1>2, <1>4 DEF Held, Outside, Accepted, Needs
  <1>5. ASSUME pc[s] = "format" PROVE Accepted(s, "format")
    BY <1>1, <1>2, <1>5 DEF Held, Outside, Accepted, Needs
  <1>6. ASSUME pc[s] = "initialized" PROVE Accepted(s, "initialized")
    BY <1>1, <1>2, <1>6 DEF Held, Outside, Accepted, Needs
  <1>7. ASSUME pc[s] = "events" PROVE Accepted(s, "events")
    BY <1>1, <1>2, <1>7 DEF Held, Outside, Accepted, Needs
  <1>8. ASSUME pc[s] = "packets" PROVE Accepted(s, "packets")
    BY <1>1, <1>2, <1>8 DEF Held, Outside, Accepted, Needs
  <1>9. ASSUME pc[s] = "release" PROVE Accepted(s, "release")
    BY <1>1, <1>2, <1>9 DEF Held, Outside, Accepted, Needs
  <1>10. ASSUME pc[s] = "accept" PROVE Accepted(s, "send")
    BY <1>1, <1>2, <1>10 DEF Held, Outside, Accepted, Needs
  <1>11. ASSUME capture[s] = "start" PROVE Accepted(s, "start")
    BY <1>1, <1>2, <1>11 DEF Held, ThreadsInside, Outside, Accepted, Needs
  <1>12. ASSUME capture[s] = "collect" PROVE Accepted(s, "collect")
    BY <1>1, <1>2, <1>12 DEF Held, ThreadsInside, Outside, Accepted, Needs
  <1>13. ASSUME sender[s] = "running" PROVE Accepted(s, "send")
    BY <1>1, <1>2, <1>13
       DEF Held, ThreadsInside, Outside, Streaming, Accepted, Needs
  <1>14. ASSUME pc[s] = "format" PROVE Accepted(s, "deviceFormat")
    BY <1>1, <1>2, <1>14 DEF Held, Outside, Accepted, Needs
  <1> QED
    BY <1>3, <1>4, <1>5, <1>6, <1>7, <1>8, <1>9, <1>10, <1>11, <1>12, <1>13,
       <1>14

\* An exception changes nothing but the process.
LEMMA ThrowStep ==
    ASSUME RecorderInv, NEW s \in Sessions, Throws(s), refused' = FALSE
    PROVE  RecorderInv'
  <1>1. InApartment' = InApartment
    BY DEF Throws, InApartment
  <1> QED
    BY <1>1 DEF Throws, RecorderInv, TypeOK, Held, ThreadsInside, ComCount,
                EveryCallIsAccepted

\* A step of the director.
LEMMA BuildStep ==
    ASSUME RecorderInv, NEW s \in Sessions, NEW gives, NEW next,
           Build(s, gives, next),
           <<gives, next>> \in
               {<<"device", "client">>, <<"client", "format">>,
                <<"format", "initialized">>, <<"initialized", "events">>,
                <<"events", "packets">>, <<"packets", "service">>}
    PROVE  RecorderInv'
  <1>1. Accepted(s, gives)
    BY CallsAccepted DEF Build
  <1>2. refused' = FALSE
    BY <1>1 DEF Build, RecorderInv, EveryCallIsAccepted, TypeOK
  <1>3. CASE Throws(s)
    BY <1>2, <1>3, ThrowStep
  <1>4. CASE ~Throws(s)
    <2>1. /\ pc[s] = gives
          /\ has' = [has EXCEPT ![s] = @ \cup {gives}]
          /\ pc' = [pc EXCEPT ![s] = next]
          /\ UNCHANGED <<apartment, dead, keep, capture, sender, checker>>
      BY <1>4 DEF Build, Others
    <2>2. TypeOK /\ \A o \in Sessions : Held(o) /\ ThreadsInside(o)
      BY DEF RecorderInv
    <2>3. TypeOK'
      BY <1>2, <2>1, <2>2 DEF TypeOK, SessionSteps, Objects
    <2>4. ASSUME NEW o \in Sessions PROVE Held(o)' /\ ThreadsInside(o)'
      <3>1. CASE o = s
        BY <2>1, <2>2, <3>1
           DEF TypeOK, Held, ThreadsInside, Outside, Streaming
      <3>2. CASE o # s
        BY <2>1, <2>2, <3>2
           DEF TypeOK, Held, ThreadsInside, Outside, Streaming
      <3> QED
        BY <3>1, <3>2
    <2>5. InApartment' = InApartment
      BY <2>1, <2>2, SameApartment DEF TypeOK
    <2> QED
      BY <1>2, <2>1, <2>3, <2>4, <2>5
         DEF RecorderInv, ComCount, EveryCallIsAccepted
  <1> QED
    BY <1>3, <1>4

\* The step of the exclusive-mode director that also opens the properties.
LEMMA ExclusiveFormatStep ==
    ASSUME RecorderInv, NEW s \in Sessions, s \in Exclusive,
           InitializeExclusiveModeFormat(s)
    PROVE  RecorderInv'
  <1>1. Accepted(s, "deviceFormat")
    BY CallsAccepted DEF InitializeExclusiveModeFormat
  <1>2. refused' = FALSE
    BY <1>1 DEF InitializeExclusiveModeFormat, RecorderInv,
                EveryCallIsAccepted, TypeOK
  <1>3. CASE Throws(s)
    BY <1>2, <1>3, ThrowStep
  <1>4. CASE ~Throws(s)
    <2>1. /\ s \in Exclusive /\ pc[s] = "format"
          /\ has' = [has EXCEPT ![s] = @ \cup {"format", "properties"}]
          /\ pc' = [pc EXCEPT ![s] = "initialized"]
          /\ UNCHANGED <<apartment, dead, keep, capture, sender, checker>>
      BY <1>4 DEF InitializeExclusiveModeFormat, Goto, Others
    <2>2. TypeOK /\ \A o \in Sessions : Held(o) /\ ThreadsInside(o)
      BY DEF RecorderInv
    <2>3. TypeOK'
      BY <1>2, <2>1, <2>2 DEF TypeOK, SessionSteps, Objects
    <2>4. ASSUME NEW o \in Sessions PROVE Held(o)' /\ ThreadsInside(o)'
      BY <2>1, <2>2
         DEF TypeOK, Held, ThreadsInside, Outside, Streaming
    <2>5. InApartment' = InApartment
      BY <2>1, <2>2, SameApartment DEF TypeOK
    <2> QED
      BY <1>2, <2>1, <2>3, <2>4, <2>5
         DEF RecorderInv, ComCount, EveryCallIsAccepted
  <1> QED
    BY <1>3, <1>4

\* The thread of the session moves on, has and apartment stay.
LEMMA MoveStep ==
    ASSUME RecorderInv, NEW s \in Sessions, NEW next \in SessionSteps,
           Goto(s, next), TypeOK', refused' = FALSE,
           UNCHANGED <<has, apartment>>, ThreadsInside(s)',
           \A o \in Sessions \ {s} : /\ capture'[o] = capture[o]
                                    /\ sender'[o] = sender[o],
           pc[s] \notin Outside \cup {"enumerator", "device", "client",
               "format", "initialized", "events", "packets"},
           next \notin Outside \cup {"enumerator"}
    PROVE  RecorderInv'
  <1>1. TypeOK /\ \A o \in Sessions : Held(o) /\ ThreadsInside(o)
    BY DEF RecorderInv
  <1>2. ASSUME NEW o \in Sessions PROVE Held(o)' /\ ThreadsInside(o)'
    <2>1. CASE o = s
      BY <1>1, <2>1 DEF Goto, TypeOK, Held
    <2>2. CASE o # s
      BY <1>1, <2>2 DEF Goto, TypeOK, Held, ThreadsInside
    <2> QED
      BY <2>1, <2>2
  <1>3. pc[s] \notin {"idle", "enumerator"}
        /\ next \notin {"idle", "enumerator"}
    BY DEF Outside
  <1>4. InApartment' = InApartment
    BY <1>1, <1>3, SameApartment DEF Goto, TypeOK
  <1> QED
    BY <1>1, <1>2, <1>4 DEF RecorderInv, ComCount, EveryCallIsAccepted

\* A new session begins, and its thread enters the apartment.
LEMMA BeginStep ==
    ASSUME RecorderInv, NEW s \in Sessions,
           CreateCaptureEvent(s) \/ InitEnumerator(s)
    PROVE  RecorderInv'
  <1> USE DEF RecorderInv
  <1>0. /\ refused' = FALSE /\ TypeOK
        /\ \A o \in Sessions : Held(o) /\ ThreadsInside(o)
    BY DEF CreateCaptureEvent, InitEnumerator, EveryCallIsAccepted, TypeOK
  <1>1. CASE Throws(s)
    BY <1>0, <1>1, ThrowStep
  <1>2. CASE CreateCaptureEvent(s) /\ ~Throws(s)
    <2>0. /\ pc' = [pc EXCEPT ![s] = "enumerator"]
          /\ has' = [has EXCEPT ![s] = @ \cup {"event"}]
          /\ keep' = [keep EXCEPT ![s] = TRUE]
          /\ capture' = [capture EXCEPT ![s] = "off"]
          /\ sender' = [sender EXCEPT ![s] = "off"]
          /\ checker' = [checker EXCEPT ![s] = "off"]
          /\ UNCHANGED <<dead, apartment>>
      BY <1>2 DEF CreateCaptureEvent, Goto
    <2>1. TypeOK'
      BY <1>0, <2>0 DEF TypeOK, SessionSteps, Objects
    <2>2. ASSUME NEW o \in Sessions PROVE Held(o)' /\ ThreadsInside(o)'
      BY <1>0, <1>2 DEF CreateCaptureEvent, Goto, TypeOK, Held, ThreadsInside,
                        Outside
    <2>3. InApartment' = InApartment
      BY <1>0, <1>2, SameApartment DEF CreateCaptureEvent, Goto, TypeOK
    <2> QED
      BY <1>0, <1>2, <2>1, <2>2, <2>3
         DEF CreateCaptureEvent, ComCount, EveryCallIsAccepted
  <1>3. CASE InitEnumerator(s) /\ ~Throws(s)
    <2>1. /\ pc[s] = "enumerator" /\ pc' = [pc EXCEPT ![s] = "device"]
          /\ has' = [has EXCEPT ![s] = @ \cup {"enumerator"}]
          /\ apartment' = apartment + 1
          /\ UNCHANGED <<dead, keep, capture, sender, checker>>
      BY <1>3 DEF InitEnumerator, Goto, Others
    <2>2. InApartment' = InApartment \cup {s} /\ s \notin InApartment
      BY <1>0, <2>1 DEF InApartment, TypeOK
    <2>3. Cardinality(InApartment') = Cardinality(InApartment) + 1
      BY <2>2, ApartmentIsFinite, FS_AddElement
    <2>4. Cardinality(InApartment') <= Cardinality(Sessions)
      <3>1. InApartment' \in SUBSET Sessions
        BY DEF InApartment
      <3> QED
        BY <3>1, FS_Subset, RecorderAssumption
    <2>5. apartment' \in 0 .. Cardinality(Sessions)
      BY <1>0, <2>1, <2>3, <2>4, FS_CardinalityType, RecorderAssumption
         DEF TypeOK, ComCount
    <2>6. TypeOK'
      BY <1>0, <2>1, <2>5 DEF TypeOK, SessionSteps, Objects
    <2>7. ASSUME NEW o \in Sessions PROVE Held(o)' /\ ThreadsInside(o)'
      BY <1>0, <2>1 DEF TypeOK, Held, ThreadsInside, Outside, Streaming
    <2> QED
      BY <1>0, <2>1, <2>3, <2>6, <2>7 DEF ComCount, EveryCallIsAccepted
  <1> QED
    BY <1>1, <1>2, <1>3

\* The recorder is released, and the thread leaves the apartment.
LEMMA EndStep ==
    ASSUME RecorderInv, NEW s \in Sessions,
           ReleaseRecorder(s) \/ CoUninitialize(s)
    PROVE  RecorderInv'
  <1> USE DEF RecorderInv
  <1>0. /\ TypeOK
        /\ \A o \in Sessions : Held(o) /\ ThreadsInside(o)
    OBVIOUS
  <1>1. refused' = FALSE
    BY <1>0, CallsAccepted
       DEF ReleaseRecorder, CoUninitialize, EveryCallIsAccepted, TypeOK
  <1>2. CASE ReleaseRecorder(s)
    <2>1. TypeOK'
      BY <1>0, <1>1, <1>2
         DEF ReleaseRecorder, Goto, Others, TypeOK, SessionSteps, Objects
    <2>2. ASSUME NEW o \in Sessions PROVE Held(o)' /\ ThreadsInside(o)'
      BY <1>0, <1>2 DEF ReleaseRecorder, Goto, Others, TypeOK, Held,
                        ThreadsInside, Outside, Streaming
    <2>3. InApartment' = InApartment
      BY <1>0, <1>2, SameApartment DEF ReleaseRecorder, Goto, TypeOK
    <2> QED
      BY <1>1, <1>2, <2>1, <2>2, <2>3
         DEF ReleaseRecorder, ComCount, EveryCallIsAccepted
  <1>3. CASE CoUninitialize(s)
    <2>1. /\ pc[s] = "uninitialize" /\ pc' = [pc EXCEPT ![s] = "idle"]
          /\ apartment' = apartment - 1
          /\ UNCHANGED <<has, dead, keep, capture, sender, checker>>
      BY <1>3 DEF CoUninitialize, Goto, Others
    <2>2. InApartment' = InApartment \ {s} /\ s \in InApartment
      BY <1>0, <2>1 DEF InApartment, TypeOK
    <2>3. Cardinality(InApartment') = Cardinality(InApartment) - 1
      BY <2>2, ApartmentIsFinite, FS_RemoveElement
    <2>4. Cardinality(InApartment) > 0
      BY <2>2, ApartmentIsFinite
    <2>5. apartment' \in 0 .. Cardinality(Sessions)
      BY <1>0, <2>1, <2>4, FS_CardinalityType, RecorderAssumption
         DEF TypeOK, ComCount
    <2>6. TypeOK'
      BY <1>0, <1>1, <2>1, <2>5 DEF TypeOK, SessionSteps, Objects
    <2>7. ASSUME NEW o \in Sessions PROVE Held(o)' /\ ThreadsInside(o)'
      BY <1>0, <2>1 DEF TypeOK, Held, ThreadsInside, Outside, Streaming
    <2> QED
      BY <1>1, <2>1, <2>3, <2>6, <2>7 DEF ComCount, EveryCallIsAccepted
  <1> QED
    BY <1>2, <1>3

\* From the service to its destruction.
LEMMA ServiceStep ==
    ASSUME RecorderInv, NEW s \in Sessions,
           \/ CreateService(s) \/ ConsumerInitialize(s) \/ StartConsumer(s)
           \/ StartProducer(s) \/ JoinProducer(s) \/ JoinConsumer(s)
           \/ DestroyService(s)
    PROVE  RecorderInv'
  <1>0. TypeOK /\ Held(s) /\ ThreadsInside(s) /\ refused = FALSE
    BY DEF RecorderInv, EveryCallIsAccepted, TypeOK
  <1>1. CASE CreateService(s)
    <2>1. refused' = FALSE
      BY <1>0, <1>1 DEF CreateService
    <2>2. CASE Throws(s)
      BY <2>1, <2>2, ThrowStep
    <2>3. CASE ~Throws(s)
      <3>1. /\ pc[s] = "service" /\ Goto(s, "accept")
            /\ UNCHANGED <<has, apartment, dead, keep, capture, sender,
                           checker>>
        BY <1>1, <2>3 DEF CreateService, Others
      <3>2. TypeOK'
        BY <1>0, <2>1, <3>1 DEF Goto, TypeOK, SessionSteps
      <3> QED
        BY <1>0, <2>1, <3>1, <3>2, MoveStep
           DEF Goto, TypeOK, SessionSteps, ThreadsInside, Streaming, Outside
    <2> QED
      BY <2>2, <2>3
  <1>2. CASE ConsumerInitialize(s)
    <2>1. refused' = FALSE
      BY <1>0, <1>2, CallsAccepted DEF ConsumerInitialize
    <2>2. CASE Throws(s)
      BY <2>1, <2>2, ThrowStep
    <2>3. CASE ~Throws(s)
      <3>1. /\ pc[s] = "accept" /\ Goto(s, "consumer")
            /\ UNCHANGED <<has, apartment, dead, keep, capture, sender,
                           checker>>
        BY <1>2, <2>3 DEF ConsumerInitialize, Others
      <3>2. TypeOK'
        BY <1>0, <2>1, <3>1 DEF Goto, TypeOK, SessionSteps
      <3> QED
        BY <1>0, <2>1, <3>1, <3>2, MoveStep
           DEF Goto, TypeOK, SessionSteps, ThreadsInside, Streaming, Outside
    <2> QED
      BY <2>2, <2>3
  <1>3. CASE StartConsumer(s)
    BY <1>0, <1>3, MoveStep
       DEF StartConsumer, Goto, TypeOK, SessionSteps, ThreadsInside, Streaming,
           Outside
  <1>4. CASE StartProducer(s)
    BY <1>0, <1>4, MoveStep
       DEF StartProducer, Goto, TypeOK, SessionSteps, ThreadsInside, Streaming,
           Outside
  <1>5. CASE JoinProducer(s)
    BY <1>0, <1>5, MoveStep
       DEF JoinProducer, Goto, Others, TypeOK, SessionSteps, ThreadsInside,
           Streaming, Outside
  <1>6. CASE JoinConsumer(s)
    BY <1>0, <1>6, MoveStep
       DEF JoinConsumer, Goto, Others, TypeOK, SessionSteps, ThreadsInside,
           Streaming, Outside
  <1>7. CASE DestroyService(s)
    BY <1>0, <1>7, MoveStep
       DEF DestroyService, Goto, Others, TypeOK, SessionSteps, ThreadsInside,
           Streaming, Outside
  <1> QED
    BY <1>1, <1>2, <1>3, <1>4, <1>5, <1>6, <1>7

\* The three threads of a session.
LEMMA ThreadStep ==
    ASSUME RecorderInv, NEW s \in Sessions,
           \/ Capture(s) \/ WaitIsSignalled(s) \/ WaitFails(s)
           \/ SendChunk(s) \/ SenderEnds(s) \/ SenderThrows(s)
           \/ CheckerEnds(s)
    PROVE  RecorderInv'
  <1>0. /\ TypeOK /\ refused = FALSE
        /\ \A o \in Sessions : Held(o) /\ ThreadsInside(o)
    BY DEF RecorderInv, EveryCallIsAccepted, TypeOK
  <1>1. refused' = FALSE
    BY <1>0, CallsAccepted
       DEF Capture, StartRecording, CheckRunning, WaitTimesOut, CollectSound,
           NoChunk, WaitIsSignalled, WaitFails, SendChunk, SenderEnds,
           SenderThrows, CheckerEnds
  <1>2. CASE Throws(s)
    BY <1>1, <1>2, ThrowStep
  <1>3. CASE ~Throws(s)
    <2>1. UNCHANGED <<pc, has, apartment, dead>>
      BY <1>3
         DEF Capture, StartRecording, CheckRunning, WaitTimesOut,
             CollectSound, NoChunk, WaitIsSignalled, WaitFails, SendChunk,
             SenderEnds, SenderThrows, CheckerEnds, CaptureTo
    <2>2. TypeOK'
      BY <1>0, <1>1, <1>3, <2>1
         DEF Capture, StartRecording, CheckRunning, WaitTimesOut,
             CollectSound, NoChunk, WaitIsSignalled, WaitFails, SendChunk,
             SenderEnds, SenderThrows, CheckerEnds, CaptureTo, TypeOK
    <2>3. ASSUME NEW o \in Sessions PROVE Held(o)' /\ ThreadsInside(o)'
      <3>1. Held(o)'
        BY <1>0, <2>1 DEF Held
      <3>2. ThreadsInside(o)'
        BY <1>0, <1>3, <2>1
           DEF Capture, StartRecording, CheckRunning, WaitTimesOut,
               CollectSound, NoChunk, WaitIsSignalled, WaitFails, SendChunk,
               SenderEnds, SenderThrows, CheckerEnds, CaptureTo, TypeOK,
               ThreadsInside
      <3> QED
        BY <3>1, <3>2
    <2>4. InApartment' = InApartment
      BY <2>1 DEF InApartment
    <2> QED
      BY <1>1, <2>1, <2>2, <2>3, <2>4
         DEF RecorderInv, ComCount, EveryCallIsAccepted
  <1> QED
    BY <1>2, <1>3

LEMMA RecorderStep == RecorderInv /\ [Next]_vars => RecorderInv'
  <1> SUFFICES ASSUME RecorderInv, [Next]_vars PROVE RecorderInv'
    OBVIOUS
  <1>1. ASSUME NEW s \in Sessions, Session(s) PROVE RecorderInv'
    <2>1. CASE InitEnumerator(s)
      BY <2>1, BeginStep
    <2>2. CASE \/ InitializeLoopbackRecorder(s)
               \/ InitializeMicrophoneRecorder(s)
      BY <2>2, BuildStep
         DEF InitializeLoopbackRecorder, InitializeMicrophoneRecorder
    <2>3. CASE ActivateClient(s)
      BY <2>3, BuildStep DEF ActivateClient
    <2>4. CASE InitializeSharedModeFormat(s)
      BY <2>4, BuildStep DEF InitializeSharedModeFormat
    <2>5. CASE InitializeSharedClient(s) \/ InitializeExclusiveClient(s)
      BY <2>5, BuildStep
         DEF InitializeSharedClient, InitializeExclusiveClient
    <2>6. CASE SetEventHandle(s)
      BY <2>6, BuildStep DEF SetEventHandle
    <2>7. CASE GetService(s)
      BY <2>7, BuildStep DEF GetService
    <2>8. CASE ReleaseRecorder(s) \/ CoUninitialize(s)
      BY <2>8, EndStep
    <2>9. CASE \/ CreateService(s) \/ StartConsumer(s) \/ StartProducer(s)
               \/ JoinProducer(s) \/ JoinConsumer(s) \/ DestroyService(s)
      BY <2>9, ServiceStep
    <2>10. CASE InitializeExclusiveModeFormat(s) /\ s \in Exclusive
      BY <2>10, ExclusiveFormatStep
    <2> QED
      BY <1>1, <2>1, <2>2, <2>3, <2>4, <2>5, <2>6, <2>7, <2>8, <2>9, <2>10
         DEF Session, CreateSharedMode, CreateExclusiveMode
  <1>2. ASSUME NEW s \in Sessions, Capture(s) PROVE RecorderInv'
    BY <1>2, ThreadStep
  <1>3. ASSUME NEW s \in Sessions, Environment(s) PROVE RecorderInv'
    BY <1>3, BeginStep, ServiceStep, ThreadStep DEF Environment
  <1>4. CASE UNCHANGED vars
    <2>1. InApartment' = InApartment
      BY <1>4 DEF vars, InApartment
    <2> QED
      BY <1>4, <2>1 DEF vars, RecorderInv, TypeOK, Held, ThreadsInside,
                        ComCount, EveryCallIsAccepted
  <1> QED
    BY <1>1, <1>2, <1>3, <1>4 DEF Next

LEMMA RecorderInvariant == Spec => []RecorderInv
BY RecorderInit, RecorderStep, PTL DEF Spec

-----------------------------------------------------------------------------
(* The theorems                                                            *)

\* Every variable of the sessions keeps its type, and COM is initialised at
\* most once for each session (Producer::initialize and what it calls).
THEOREM TypeCorrect == Spec => []TypeOK
  <1>1. RecorderInv => TypeOK
    BY DEF RecorderInv
  <1> QED
    BY <1>1, RecorderInvariant, PTL

\* However many sessions are built, run and end at the same time, no call is
\* made on an object that is not there, not ready or already released.
THEOREM CallsAreAccepted == Spec => []EveryCallIsAccepted
  <1>1. RecorderInv => EveryCallIsAccepted
    BY DEF RecorderInv
  <1> QED
    BY <1>1, RecorderInvariant, PTL
=============================================================================
