--------------------------- MODULE RecorderLifetime ---------------------------
(***************************************************************************)
(* The life of the objects a streaming session records with.  The thread   *)
(* of the session creates an event and, through the shared-mode director,  *)
(* a chain of COM objects; the capture thread and the sender use them; and *)
(* the end of streamSound() gives them back.  COM itself belongs to the    *)
(* process: the capture thread never joins the apartment and may use the   *)
(* objects only while some session thread keeps the apartment up.          *)
(*                                                                         *)
(* An exception that leaves a thread function ends the process, here       *)
(* "dead": none of the three threads catches what the calls throw.         *)
(*                                                                         *)
(* Producer always takes the shared-mode director.  The exclusive-mode one *)
(* is modelled beside it, for the sessions in Exclusive; with Exclusive    *)
(* empty this is the program as it is.                                     *)
(***************************************************************************)
EXTENDS Integers, FiniteSets

CONSTANTS
    Sessions,   \* session threads, each of which may run again as a new one
    Exclusive,  \* those that record with the exclusive-mode director
    HasLimit    \* durationMilliseconds is not -1

ASSUME RecorderAssumption ==
    /\ IsFiniteSet(Sessions)
    /\ Exclusive \subseteq Sessions
    /\ HasLimit \in BOOLEAN

VARIABLES
    pc,         \* [session -> what its thread does next]
    has,        \* [session -> what it acquired and did not release]
    apartment,  \* times COM was initialised and not uninitialised
    keep,       \* [session -> keepRunning]
    capture,    \* [session -> the capture thread]
    sender,     \* [session -> the thread that reads the format and sends]
    checker,    \* [session -> the thread that reads the control socket]
    dead,       \* the process terminated on an exception
    refused     \* some call was made on an object that was not ready for it

vars == <<pc, has, apartment, keep, capture, sender, checker, dead, refused>>

Objects == {"event", "enumerator", "device", "client", "format",
            "properties", "initialized", "events", "packets"}

SessionSteps == {"idle", "enumerator", "device", "client", "format",
                 "initialized", "events", "packets", "service", "accept",
                 "consumer", "producer", "joinProducer", "joinConsumer",
                 "destroy", "release", "uninitialize"}

Streaming == {"producer", "joinProducer", "joinConsumer"}

TypeOK ==
    /\ pc \in [Sessions -> SessionSteps]
    /\ has \in [Sessions -> SUBSET Objects]
    /\ apartment \in 0 .. Cardinality(Sessions)
    /\ keep \in [Sessions -> BOOLEAN]
    /\ capture \in [Sessions -> {"off", "start", "check", "wait", "collect",
                                 "done"}]
    /\ sender \in [Sessions -> {"off", "running", "done"}]
    /\ checker \in [Sessions -> {"off", "running", "done"}]
    /\ dead \in BOOLEAN /\ refused \in BOOLEAN

Init ==
    /\ pc = [s \in Sessions |-> "idle"]
    /\ has = [s \in Sessions |-> {}]
    /\ apartment = 0
    /\ keep = [s \in Sessions |-> FALSE]
    /\ capture = [s \in Sessions |-> "off"]
    /\ sender = [s \in Sessions |-> "off"]
    /\ checker = [s \in Sessions |-> "off"]
    /\ dead = FALSE /\ refused = FALSE

-----------------------------------------------------------------------------
(* Calls                                                                   *)

\* What must be there for a call on the objects of the sound API: a client
\* has to be initialised before it takes the event or hands out the packet
\* reader, and to have the event before it starts.
Needs ==
    [device       |-> {"enumerator"},
     client       |-> {"device"},
     format       |-> {"client"},
     deviceFormat |-> {"device", "client"},
     initialized  |-> {"client", "format"},
     events       |-> {"client", "initialized", "event"},
     packets      |-> {"client", "initialized"},
     start        |-> {"client", "events"},
     collect      |-> {"packets", "format"},
     send         |-> {"format"},
     release      |-> {"client"}]

\* Reading the format is no call on COM, everything else is.
Accepted(s, call) ==
    Needs[call] \subseteq has[s] /\ (apartment > 0 \/ call = "send")

Others == UNCHANGED <<keep, capture, sender, checker>>

Throws(s) == dead' = TRUE /\ UNCHANGED <<pc, has, apartment, keep, capture,
                                         sender, checker>>

\* A step of a director: the call is refused, or it fails and create() throws
\* RecorderCreationFailed or returns the nullptr that initialize() then uses,
\* or it brings `gives'.
Build(s, gives, next) ==
    /\ pc[s] = gives
    /\ refused' = (refused \/ ~Accepted(s, gives))
    /\ \/ Throws(s)
       \/ /\ Accepted(s, gives)
          /\ has' = [has EXCEPT ![s] = @ \cup {gives}]
          /\ pc' = [pc EXCEPT ![s] = next]
          /\ UNCHANGED <<apartment, dead>> /\ Others

-----------------------------------------------------------------------------
(* The thread of a session                                                 *)

Goto(s, next) == pc' = [pc EXCEPT ![s] = next]

\* CreateEvent in Producer::initialize(); flags and threads are new objects.
CreateCaptureEvent(s) ==
    /\ pc[s] = "idle"
    /\ UNCHANGED <<apartment, refused>>
    /\ \/ Throws(s)
       \/ /\ Goto(s, "enumerator")
          /\ has' = [has EXCEPT ![s] = @ \cup {"event"}]
          /\ keep' = [keep EXCEPT ![s] = TRUE]
          /\ capture' = [capture EXCEPT ![s] = "off"]
          /\ sender' = [sender EXCEPT ![s] = "off"]
          /\ checker' = [checker EXCEPT ![s] = "off"]
          /\ UNCHANGED dead

\* The apartment and then the enumerator; the first call on COM needs no
\* apartment, it makes one.
InitEnumerator(s) ==
    /\ pc[s] = "enumerator"
    /\ UNCHANGED refused
    /\ \/ Throws(s)
       \/ /\ apartment' = apartment + 1
          /\ has' = [has EXCEPT ![s] = @ \cup {"enumerator"}]
          /\ Goto(s, "device")
          /\ UNCHANGED dead /\ Others

InitializeLoopbackRecorder(s)   == Build(s, "device", "client")
InitializeMicrophoneRecorder(s) == Build(s, "device", "client")
ActivateClient(s)               == Build(s, "client", "format")
InitializeSharedModeFormat(s)   == Build(s, "format", "initialized")

\* The device's property store is opened, asked for the format and kept; the
\* client must support the format exclusively.
InitializeExclusiveModeFormat(s) ==
    /\ pc[s] = "format"
    /\ refused' = (refused \/ ~Accepted(s, "deviceFormat"))
    /\ \/ Throws(s)
       \/ /\ Accepted(s, "deviceFormat")
          /\ has' = [has EXCEPT ![s] = @ \cup {"format", "properties"}]
          /\ Goto(s, "initialized")
          /\ UNCHANGED <<apartment, dead>> /\ Others

InitializeSharedClient(s)    == Build(s, "initialized", "events")
InitializeExclusiveClient(s) == Build(s, "initialized", "events")
SetEventHandle(s)            == Build(s, "events", "packets")
GetService(s)                == Build(s, "packets", "service")

\* create() of the two directors, from call to call.
CreateSharedMode(s) ==
    /\ s \notin Exclusive
    /\ \/ InitEnumerator(s) \/ InitializeLoopbackRecorder(s)
       \/ ActivateClient(s) \/ InitializeSharedModeFormat(s)
       \/ InitializeSharedClient(s) \/ SetEventHandle(s) \/ GetService(s)

CreateExclusiveMode(s) ==
    /\ s \in Exclusive
    /\ \/ InitEnumerator(s) \/ InitializeMicrophoneRecorder(s)
       \/ ActivateClient(s) \/ InitializeExclusiveModeFormat(s)
       \/ InitializeExclusiveClient(s) \/ SetEventHandle(s) \/ GetService(s)

\* The decorators are put around the recorder (their constructors may
\* throw), and StreamingService binds its port, which only one session can.
CreateService(s) ==
    /\ pc[s] = "service"
    /\ UNCHANGED refused
    /\ \/ Throws(s)
       \/ /\ \A o \in Sessions :
                pc[o] \notin Streaming \cup {"accept", "consumer", "destroy"}
          /\ Goto(s, "accept")
          /\ UNCHANGED <<has, apartment, dead>> /\ Others

\* The encoder is made, the client comes, and the format is announced.
ConsumerInitialize(s) ==
    /\ pc[s] = "accept"
    /\ refused' = (refused \/ ~Accepted(s, "send"))
    /\ \/ Throws(s)
       \/ Goto(s, "consumer") /\ UNCHANGED <<has, apartment, dead>> /\ Others

StartConsumer(s) ==
    /\ pc[s] = "consumer"
    /\ Goto(s, "producer")
    /\ sender' = [sender EXCEPT ![s] = "running"]
    /\ checker' = [checker EXCEPT ![s] = "running"]
    /\ UNCHANGED <<has, apartment, keep, capture, dead, refused>>

StartProducer(s) ==
    /\ pc[s] = "producer"
    /\ Goto(s, "joinProducer")
    /\ capture' = [capture EXCEPT ![s] = "start"]
    /\ UNCHANGED <<has, apartment, keep, sender, checker, dead, refused>>

\* Mutated form of JoinProducer: join() does not wait for the thread.
JoinProducerAtOnce(s) ==
    /\ pc[s] = "joinProducer"
    /\ Goto(s, "joinConsumer")
    /\ UNCHANGED <<has, apartment, dead, refused>> /\ Others

JoinProducer(s) ==
    /\ pc[s] = "joinProducer"
    /\ capture[s] = "done"
    /\ Goto(s, "joinConsumer")
    /\ UNCHANGED <<has, apartment, dead, refused>> /\ Others

JoinConsumer(s) ==
    /\ pc[s] = "joinConsumer"
    /\ sender[s] = "done" /\ checker[s] = "done"
    /\ Goto(s, "destroy")
    /\ UNCHANGED <<has, apartment, dead, refused>> /\ Others

DestroyService(s) ==
    /\ pc[s] = "destroy"
    /\ Goto(s, "release")
    /\ UNCHANGED <<has, apartment, dead, refused>> /\ Others

\* ~Producer and, with its last reference, ~WASAPIAudioRecorder: the client
\* is stopped and every object it knows of released.  Nobody closes the event,
\* and nobody knows the property store any more.
ReleaseRecorder(s) ==
    /\ pc[s] = "release"
    /\ refused' = (refused \/ ~Accepted(s, "release"))
    /\ has' = [has EXCEPT ![s] = @ \cap {"event", "properties"}]
    /\ Goto(s, "uninitialize")
    /\ UNCHANGED <<apartment, dead>> /\ Others

CoUninitialize(s) ==
    /\ pc[s] = "uninitialize"
    /\ apartment' = apartment - 1
    /\ Goto(s, "idle")
    /\ UNCHANGED <<has, dead, refused>> /\ Others

Session(s) ==
    /\ ~dead
    /\ \/ CreateSharedMode(s) \/ CreateExclusiveMode(s)
       \/ CreateService(s) \/ StartConsumer(s) \/ StartProducer(s)
       \/ JoinProducer(s) \/ JoinConsumer(s) \/ DestroyService(s)
       \/ ReleaseRecorder(s) \/ CoUninitialize(s)

-----------------------------------------------------------------------------
(* The capture thread                                                      *)

CaptureTo(s, next) ==
    /\ capture' = [capture EXCEPT ![s] = next]
    /\ UNCHANGED <<pc, has, apartment, sender, checker>>

StartRecording(s) ==
    /\ capture[s] = "start"
    /\ refused' = (refused \/ ~Accepted(s, "start"))
    /\ \/ Throws(s)
       \/ /\ Accepted(s, "start") /\ CaptureTo(s, "check")
          /\ UNCHANGED <<keep, dead>>

CheckRunning(s) ==
    /\ capture[s] = "check"
    /\ CaptureTo(s, IF keep[s] THEN "wait" ELSE "done")
    /\ UNCHANGED <<keep, dead, refused>>

\* Mutated form of WaitTimesOut: the capture thread waits without a timeout.
WaitForEver(s) == capture[s] = "wait" /\ UNCHANGED vars

\* A device nothing is played on signals no event.
WaitTimesOut(s) ==
    /\ capture[s] = "wait"
    /\ CaptureTo(s, "check")
    /\ UNCHANGED <<keep, dead, refused>>

WaitIsSignalled(s) ==
    /\ capture[s] = "wait"
    /\ CaptureTo(s, "collect")
    /\ UNCHANGED <<keep, dead, refused>>

WaitFails(s) ==
    /\ capture[s] = "wait"
    /\ CaptureTo(s, "done")
    /\ UNCHANGED <<keep, dead, refused>>

CollectSound(s) ==
    /\ capture[s] = "collect"
    /\ refused' = (refused \/ ~Accepted(s, "collect"))
    /\ \/ Throws(s)
       \/ /\ Accepted(s, "collect") /\ CaptureTo(s, "check")
          /\ \/ UNCHANGED keep
             \/ HasLimit /\ keep' = [keep EXCEPT ![s] = FALSE]
          /\ UNCHANGED dead

\* The pool has no chunk, and the signalled capture is passed over.
NoChunk(s) ==
    /\ capture[s] = "collect"
    /\ CaptureTo(s, "check")
    /\ UNCHANGED <<keep, dead, refused>>

Capture(s) ==
    /\ ~dead
    /\ \/ StartRecording(s) \/ CheckRunning(s) \/ WaitTimesOut(s)
       \/ CollectSound(s) \/ NoChunk(s)

-----------------------------------------------------------------------------
(* The threads of the consumer                                             *)

SendChunk(s) ==
    /\ sender[s] = "running"
    /\ refused' = (refused \/ ~Accepted(s, "send"))
    /\ UNCHANGED <<pc, has, apartment, keep, capture, sender, checker, dead>>

SenderEnds(s) ==
    /\ sender[s] = "running" /\ ~keep[s]
    /\ sender' = [sender EXCEPT ![s] = "done"]
    /\ UNCHANGED <<pc, has, apartment, keep, capture, checker, dead, refused>>

\* STOP_STREAMING, the end of the connection or an error of the socket.
\* After the first of them the thread leaves its loop at the next test.
CheckerEnds(s) ==
    /\ checker[s] = "running"
    /\ keep' = [keep EXCEPT ![s] = FALSE]
    /\ checker' = [checker EXCEPT ![s] = "done"]
    /\ UNCHANGED <<pc, has, apartment, capture, sender, dead, refused>>

\* sendMessage() throws.
SenderThrows(s) ==
    /\ sender[s] = "running"
    /\ Throws(s) /\ UNCHANGED refused

Environment(s) ==
    /\ ~dead
    /\ \/ CreateCaptureEvent(s) \/ ConsumerInitialize(s)
       \/ WaitIsSignalled(s) \/ WaitFails(s)
       \/ SendChunk(s) \/ SenderEnds(s) \/ SenderThrows(s) \/ CheckerEnds(s)

Next == \E s \in Sessions : Session(s) \/ Capture(s) \/ Environment(s)

Spec == Init /\ [][Next]_vars

\* Threads that can run do run.  No fairness for what waits for others: the
\* client, the sound device, and the sender, which may sleep for ever.
FairSpec ==
    /\ Spec
    /\ \A s \in Sessions : WF_vars(Session(s)) /\ WF_vars(Capture(s))

-----------------------------------------------------------------------------
(* Properties                                                              *)

\* No call is made on an object that is not there, not ready or already
\* released: the director makes its calls in an order the client accepts,
\* the capture thread and the sender end before streamSound() gives the
\* recorder back, and the apartment stays up as long as any of them, of any
\* session, may call.
EveryCallIsAccepted == ~refused

\* Once a session is told to stop and the two threads of its consumer have
\* ended, its sound device is given back, also when nothing is played and
\* the device signals no event any more.
DeviceComesBack ==
    \A s \in Sessions :
        (~keep[s] /\ sender[s] = "done" /\ checker[s] = "done")
            ~> (pc[s] = "idle" \/ dead)
=============================================================================
