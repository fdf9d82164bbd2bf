---------------------------- MODULE ClientSession ----------------------------
(***************************************************************************)
(* The Android application around one screen: StreamingViewModel on the    *)
(* main thread, the instances of StreamReceiverService that the system     *)
(* creates and destroys, and in each instance a StreamReceiverCoordinator  *)
(* with its AudioStreamTcpClient and PlaybackManager.                      *)
(*                                                                         *)
(* A coordinator's work runs in coroutines on other threads: the jobs that *)
(* startStreaming launches, with a receiver and a player as children, and  *)
(* the coroutine of release().  They share the coordinator's state, the    *)
(* client's fields and the player's AudioTrack without a lock, and a job   *)
(* blocked in a socket call does not see that it is cancelled.             *)
(*                                                                         *)
(* A job is a number; the sockets, the decoder and the AudioTrack that it  *)
(* creates bear the number of their job.  The server's side of the         *)
(* handshake is the subject of SessionSetup, the frames of JitterBuffer.   *)
(***************************************************************************)
EXTENDS Naturals, FiniteSets

CONSTANTS
    MaxJobs,       \* bound: start commands in a behaviour
    MaxViewModels, \* bound: view models, one after the other
    MayFail,       \* may a step of the connection fail?
    ServerMayDie   \* may the server process disappear?

ASSUME ClientAssumption ==
    /\ MaxJobs \in Nat \ {0} /\ MaxViewModels \in Nat \ {0}
    /\ MayFail \in BOOLEAN /\ ServerMayDie \in BOOLEAN

Job       == 1 .. MaxJobs
Instance  == 1 .. MaxJobs
ViewModel == 1 .. MaxViewModels
None      == 0

VARIABLES
    viewModel,     \* the view model of the screen
    cleared,       \* it was cleared: the screen is closed
    connection,    \* uiState.connection
    binder,        \* the instance whose binder it holds; isBound is binder # None
    seen,          \* instance -> what its collectors last delivered, or "off"
    bindings,      \* view models whose ServiceConnection the system holds
    toConnect,     \* those whose onServiceConnected is still to come
    service,       \* the instance that exists, or None
    instances,     \* instances created so far
    started,       \* is the service in the started state?
    commands,      \* onStartCommand calls still to come
    launching,     \* the instance whose startStreaming has passed its check
    state,         \* instance -> the coordinator's PlaybackState
    scopeActive,   \* instance -> its scope is not cancelled
    streamingJob,  \* instance -> the job it launched last
    releaser,      \* instance -> where the coroutine of release() is
    joining,       \* instance -> the job that coroutine waits for
    jobs,          \* jobs launched so far
    owner,         \* job -> its instance
    body,          \* job -> where its own code is
    cancelled,     \* job -> is it cancelled?
    receiver,      \* job -> where its receiving child is
    player,        \* job -> where its playing child is
    using,         \* job -> the job whose socket or decoder the receiver is in
    field,         \* instance -> the fields of its client and its player
    open,          \* sockets, decoders and AudioTracks not closed
    told,          \* sockets the stop code was written to
    serverUp,
    crashed,       \* an uncaught exception ended the process
    crowded,       \* history: instances in which a job was launched beside
                   \* one that was running, or after release()
    leftPlaying    \* history: instances released in Playback

screenVars == <<viewModel, cleared, connection, binder, seen>>
systemVars == <<bindings, toConnect, service, instances, started, commands>>
history    == <<crowded, leftPlaying>>
mainVars   == <<screenVars, systemVars, launching, history>>
jobVars    == <<jobs, owner, body, cancelled>>
childVars  == <<receiver, player, using>>
coordVars  == <<state, scopeActive, streamingJob, releaser, joining>>
clientVars == <<field, open, told>>
vars == <<mainVars, coordVars, jobVars, childVars, clientVars, serverUp,
          crashed>>

PlaybackState == {"Idle", "Connecting", "Playback", "Error"}
ReleaseSteps  == {"none", "write", "freeDecoder", "closeTcp", "closeUdp",
                  "forget", "cancel", "join", "stopPlayer", "done"}
BodySteps     == {"none", "new", "control", "sync", "syncing", "connect",
                  "streams", "udp", "format", "port", "player", "playback",
                  "launch", "ended"}
ReceiverSteps == {"none", "check", "receive", "blocked", "decode", "decoding",
                  "ended"}
PlayerSteps   == {"none", "loop", "writing", "ended"}
Fields        == {"manager", "stream", "udp", "decoder", "track"}
Resource      == {"tcp", "udp", "decoder", "track"} \X Job

TypeOK ==
    /\ viewModel \in ViewModel /\ cleared \in BOOLEAN
    /\ connection \in {"DISCONNECTED", "CONNECTING", "CONNECTED"}
    /\ binder \in {None, service}
    /\ seen \in [Instance -> PlaybackState \union {"off"}]
    /\ toConnect \subseteq bindings /\ bindings \subseteq ViewModel
    /\ service \in {None, instances} /\ instances \in 0 .. MaxJobs
    /\ started \in BOOLEAN /\ commands \in 0 .. MaxJobs
    /\ launching \in Instance \union {None}
    /\ state \in [Instance -> PlaybackState]
    /\ scopeActive \in [Instance -> BOOLEAN]
    /\ streamingJob \in [Instance -> Job \union {None}]
    /\ releaser \in [Instance -> ReleaseSteps]
    /\ joining \in [Instance -> Job \union {None}]
    /\ jobs \in 0 .. MaxJobs
    /\ owner \in [Job -> Instance \union {None}]
    /\ body \in [Job -> BodySteps] /\ cancelled \in [Job -> BOOLEAN]
    /\ receiver \in [Job -> ReceiverSteps] /\ player \in [Job -> PlayerSteps]
    /\ using \in [Job -> Job \union {None}]
    /\ field \in [Instance -> [Fields -> Job \union {None}]]
    /\ open \subseteq Resource /\ told \subseteq Job
    /\ serverUp \in BOOLEAN /\ crashed \in BOOLEAN
    /\ crowded \subseteq Instance /\ leftPlaying \subseteq Instance

Init ==
    /\ viewModel = 1 /\ cleared = FALSE
    /\ connection = "DISCONNECTED" /\ binder = None
    /\ seen = [i \in Instance |-> "off"]
    /\ bindings = {} /\ toConnect = {}
    /\ service = None /\ instances = 0 /\ started = FALSE /\ commands = 0
    /\ launching = None
    /\ state = [i \in Instance |-> "Idle"]
    /\ scopeActive = [i \in Instance |-> TRUE]
    /\ streamingJob = [i \in Instance |-> None]
    /\ releaser = [i \in Instance |-> "none"]
    /\ joining = [i \in Instance |-> None]
    /\ jobs = 0 /\ owner = [j \in Job |-> None]
    /\ body = [j \in Job |-> "none"] /\ cancelled = [j \in Job |-> FALSE]
    /\ receiver = [j \in Job |-> "none"] /\ player = [j \in Job |-> "none"]
    /\ using = [j \in Job |-> None]
    /\ field = [i \in Instance |-> [f \in Fields |-> None]]
    /\ open = {} /\ told = {}
    /\ serverUp = TRUE /\ crashed = FALSE
    /\ crowded = {} /\ leftPlaying = {}

\* A job is complete with its own code and its children.
Complete(j) ==
    /\ body[j] = "ended"
    /\ receiver[j] \in {"none", "ended"} /\ player[j] \in {"none", "ended"}

\* A job that has not begun touches nothing when it is cancelled.
Running(j) == body[j] # "new" /\ ~Complete(j)

UiOf(playback) ==
    CASE playback = "Connecting" -> "CONNECTING"
      [] playback = "Playback"   -> "CONNECTED"
      [] OTHER                   -> "DISCONNECTED"

\* Nothing is on its way between the service and the screen.
Delivered ==
    /\ toConnect = {} /\ commands = 0 /\ launching = None
    /\ \A i \in Instance : seen[i] \in {"off", state[i]}

-----------------------------------------------------------------------------
(* The main thread: StreamingViewModel, StreamReceiverService              *)

\* onToggle() while DISCONNECTED: startForegroundService() and bindService().
\* The system creates the service if there is none, and calls
\* onServiceConnected once for a connection that is bound again.
TapStart ==
    /\ ~cleared /\ connection = "DISCONNECTED"
    /\ jobs + commands < MaxJobs /\ (service = None => instances < MaxJobs)
    /\ IF service = None
         THEN service' = instances + 1 /\ instances' = instances + 1
         ELSE UNCHANGED <<service, instances>>
    /\ started' = TRUE
    /\ commands' = commands + 1
    /\ bindings' = bindings \union {viewModel}
    /\ toConnect' = toConnect \union ({viewModel} \ bindings)
    /\ UNCHANGED <<screenVars, coordVars, jobVars, history>>

\* onServiceConnected: keep the binder and collect its state, whose present
\* value is delivered at once.  A cleared view model's scope launches nothing.
ServiceConnected(v) ==
    /\ v \in toConnect
    /\ toConnect' = toConnect \ {v}
    /\ IF v = viewModel /\ ~cleared
         THEN /\ binder' = service
              /\ seen' = [seen EXCEPT ![service] = state[service]]
              /\ connection' = UiOf(state[service])
         ELSE UNCHANGED <<binder, seen, connection>>
    /\ UNCHANGED <<viewModel, cleared, bindings, service, instances, started,
                   commands, coordVars, jobVars, history>>

\* updateStreamingStatus(): a collector delivers the latest state.  It goes on
\* after the service is unbound.
Deliver(i) ==
    /\ seen[i] \notin {"off", state[i]}
    /\ seen' = [seen EXCEPT ![i] = state[i]]
    /\ connection' = UiOf(state[i])
    /\ UNCHANGED <<viewModel, cleared, binder, systemVars, coordVars, jobVars,
                   history>>

\* Mutated form of Release: the state is left as it is.
ReleaseQuietly(i) ==
    /\ releaser' = [releaser EXCEPT ![i] = "write"]
    /\ UNCHANGED <<state, leftPlaying>>

\* release() sets the state and launches its coroutine.
Release(i) ==
    /\ state' = [state EXCEPT ![i] = "Idle"]
    /\ releaser' = [releaser EXCEPT ![i] = "write"]
    /\ leftPlaying' = leftPlaying \union {k \in {i} : state[k] = "Playback"}

\* Mutated form of Unbind: the connection is kept.
UnbindNothing ==
    /\ binder' = None
    /\ UNCHANGED <<bindings, service, commands>>

\* unbindService() after stopSelf(): the system destroys a service that is
\* neither started nor bound.
Unbind ==
    /\ bindings' = bindings \ {viewModel}
    /\ IF bindings' = {} THEN service' = None /\ commands' = 0
                         ELSE UNCHANGED <<service, commands>>
    /\ binder' = None

\* stopStreaming(): shutdownService(), then the service is unbound.
\* Bound: an instance is released once.
StopStreaming ==
    /\ binder # None /\ releaser[binder] = "none"
    /\ Release(binder)
    /\ started' = FALSE
    /\ Unbind
    /\ UNCHANGED <<toConnect, instances, scopeActive, streamingJob, joining,
                   jobVars, crowded>>

\* onToggle() while CONNECTED; it does nothing when the service is not bound.
TapStop ==
    /\ ~cleared /\ connection = "CONNECTED"
    /\ StopStreaming
    /\ UNCHANGED <<viewModel, cleared, connection, seen>>

\* The screen is closed: viewModelScope is cancelled, then onCleared() runs.
Clear ==
    /\ ~cleared /\ viewModel < MaxViewModels
    /\ cleared' = TRUE
    /\ seen' = [i \in Instance |-> "off"]
    /\ \/ StopStreaming
       \/ /\ binder = None
          /\ UNCHANGED <<binder, systemVars, coordVars, jobVars, history>>
    /\ UNCHANGED <<viewModel, connection>>

\* The screen is opened again, with a new view model.
Reopen ==
    /\ cleared
    /\ viewModel' = viewModel + 1 /\ cleared' = FALSE
    /\ connection' = "DISCONNECTED"
    /\ UNCHANGED <<binder, seen, systemVars, coordVars, jobVars, history>>

\* onStartCommand(): startStreaming() reads the state,
StartCommand ==
    /\ commands > 0
    /\ commands' = commands - 1
    /\ launching' = IF state[service] \in {"Playback", "Connecting"}
                      THEN None ELSE service
    /\ UNCHANGED <<screenVars, bindings, toConnect, service, instances,
                   started, coordVars, jobVars, history>>

\* Mutated form of Launch: the previous job is not cancelled.
LaunchOnly ==
    LET i == launching
        new == jobs + 1 IN
    /\ launching # None
    /\ launching' = None
    /\ jobs' = new
    /\ owner' = [owner EXCEPT ![new] = i]
    /\ streamingJob' = [streamingJob EXCEPT ![i] = new]
    /\ body' = [body EXCEPT ![new] = IF scopeActive[i] THEN "new" ELSE "ended"]
    /\ UNCHANGED <<cancelled, screenVars, systemVars, state, scopeActive,
                   releaser, joining, history>>

\* and then cancels the previous job and launches one.  A job launched in a
\* cancelled scope never runs.
Launch ==
    LET i == launching
        new == jobs + 1 IN
    /\ launching # None
    /\ launching' = None
    /\ jobs' = new
    /\ owner' = [owner EXCEPT ![new] = i]
    /\ streamingJob' = [streamingJob EXCEPT ![i] = new]
    /\ body' = [body EXCEPT ![new] = IF scopeActive[i] THEN "new" ELSE "ended"]
    /\ cancelled' = [j \in Job |-> cancelled[j] \/ j = streamingJob[i]]
    /\ crowded' = IF \/ releaser[i] # "none"
                     \/ streamingJob[i] # None /\ Running(streamingJob[i])
                    THEN crowded \union {i} ELSE crowded
    /\ UNCHANGED <<screenVars, systemVars, state, scopeActive, releaser,
                   joining, leftPlaying>>

-----------------------------------------------------------------------------
(* The coroutine of startStreaming(): job j                                *)

Goto(j, step) == body' = [body EXCEPT ![j] = step]

SetState(j, playback) == state' = [state EXCEPT ![owner[j]] = playback]

\* A field of the client or the player of job j's instance.
FieldOf(j, f) == field[owner[j]][f]

SetField(j, f) == field' = [field EXCEPT ![owner[j]][f] = j]

\* handleStreamingError(): it does not ask whether the job was cancelled, and
\* closes nothing.
Fail(j) == SetState(j, "Error") /\ Goto(j, "ended")

Breaks == MayFail \/ ~serverUp

\* A job cancelled before it runs does not begin.
Begin(j) ==
    /\ body[j] = "new"
    /\ IF cancelled[j] THEN Goto(j, "ended") /\ UNCHANGED state
                       ELSE Goto(j, "control") /\ SetState(j, "Connecting")
    /\ UNCHANGED <<childVars, clientVars>>

\* Connect to the control port, write(50).
Control(j) ==
    /\ body[j] = "control"
    /\ \/ serverUp /\ Goto(j, "sync") /\ UNCHANGED state
       \/ Breaks /\ Fail(j)
    /\ UNCHANGED <<childVars, clientVars>>

\* sync() looks for cancellation when it is entered
EnterSync(j) ==
    /\ body[j] = "sync"
    /\ Goto(j, IF cancelled[j] THEN "ended" ELSE "syncing")
    /\ UNCHANGED <<state, childVars, clientVars>>

\* and when it returns.  Nothing after it does.
LeaveSync(j) ==
    /\ body[j] = "syncing"
    /\ \/ /\ serverUp
          /\ Goto(j, IF cancelled[j] THEN "ended" ELSE "connect")
          /\ UNCHANGED state
       \/ Breaks /\ Fail(j)
    /\ UNCHANGED <<childVars, clientVars>>

\* managerSocket = a connected socket
Connect(j) ==
    /\ body[j] = "connect"
    /\ \/ /\ serverUp
          /\ SetField(j, "manager")
          /\ open' = open \union {<<"tcp", j>>}
          /\ Goto(j, "streams") /\ UNCHANGED state
       \/ Breaks /\ Fail(j) /\ UNCHANGED <<field, open>>
    /\ UNCHANGED <<childVars, told>>

\* The streams of managerSocket!!: an exception when the field was set to
\* null or the socket closed in the meantime.
OpenStreams(j) ==
    LET s == FieldOf(j, "manager") IN
    /\ body[j] = "streams"
    /\ IF <<"tcp", s>> \in open
         THEN /\ field' = [field EXCEPT ![owner[j]]["stream"] = s]
              /\ Goto(j, "udp") /\ UNCHANGED state
         ELSE Fail(j) /\ UNCHANGED field
    /\ UNCHANGED <<childVars, open, told>>

\* udpSocket = DatagramSocket(0)
OpenUdp(j) ==
    /\ body[j] = "udp"
    /\ SetField(j, "udp")
    /\ open' = open \union {<<"udp", j>>}
    /\ Goto(j, "format")
    /\ UNCHANGED <<state, childVars, told>>

\* getFormatInfo(): a new decoder takes the field, the old one is not freed.
\* The format may be refused after the decoder was made.
GetFormat(j) ==
    /\ body[j] = "format"
    /\ \/ /\ <<"tcp", FieldOf(j, "stream")>> \in open /\ serverUp
          /\ SetField(j, "decoder")
          /\ open' = open \union {<<"decoder", j>>}
          /\ \/ Goto(j, "port") /\ UNCHANGED state
             \/ MayFail /\ Fail(j)
       \/ /\ <<"tcp", FieldOf(j, "stream")>> \notin open \/ Breaks
          /\ Fail(j) /\ UNCHANGED <<field, open>>
    /\ UNCHANGED <<childVars, told>>

\* sendReceiverPort(): udpSocket!!.localPort, written to the stream.
SendPort(j) ==
    /\ body[j] = "port"
    /\ \/ /\ FieldOf(j, "udp") # None
          /\ <<"tcp", FieldOf(j, "stream")>> \in open
          /\ Goto(j, "player") /\ UNCHANGED state
       \/ /\ \/ FieldOf(j, "udp") = None
             \/ <<"tcp", FieldOf(j, "stream")>> \notin open
             \/ Breaks
          /\ Fail(j)
    /\ UNCHANGED <<childVars, clientVars>>

\* consumer.initialize(): it fails before it made the AudioTrack, with one that
\* it releases and forgets, or after it.
InitPlayer(j) ==
    /\ body[j] = "player"
    /\ \/ /\ SetField(j, "track") /\ open' = open \union {<<"track", j>>}
          /\ \/ Goto(j, "playback") /\ UNCHANGED state
             \/ MayFail /\ Fail(j)
       \/ /\ MayFail /\ Fail(j)
          /\ field' \in {field, [field EXCEPT ![owner[j]]["track"] = None]}
          /\ UNCHANGED open
    /\ UNCHANGED <<childVars, told>>

BeginPlayback(j) ==
    /\ body[j] = "playback"
    /\ SetState(j, "Playback")
    /\ Goto(j, "launch")
    /\ UNCHANGED <<childVars, clientVars>>

\* The children are launched; those of a cancelled job never run.
LaunchChildren(j) ==
    /\ body[j] = "launch"
    /\ Goto(j, "ended")
    /\ IF cancelled[j] THEN UNCHANGED <<receiver, player>>
                       ELSE /\ receiver' = [receiver EXCEPT ![j] = "check"]
                            /\ player' = [player EXCEPT ![j] = "loop"]
    /\ UNCHANGED <<state, using, clientVars>>

Body(j) ==
    /\ \/ Begin(j) \/ Control(j) \/ EnterSync(j) \/ LeaveSync(j) \/ Connect(j)
       \/ OpenStreams(j) \/ OpenUdp(j) \/ GetFormat(j) \/ SendPort(j)
       \/ InitPlayer(j) \/ BeginPlayback(j) \/ LaunchChildren(j)
    /\ UNCHANGED <<mainVars, scopeActive, streamingJob, releaser, joining, jobs,
                   owner, cancelled, serverUp, crashed>>

-----------------------------------------------------------------------------
(* startReceiving() and processQueue() of job j                            *)

Receives(j, step) == receiver' = [receiver EXCEPT ![j] = step]

\* while (isActive && udpSocket?.isClosed == false)
CheckSocket(j) ==
    /\ receiver[j] = "check"
    /\ Receives(j, IF ~cancelled[j] /\ <<"udp", FieldOf(j, "udp")>> \in open
                     THEN "receive" ELSE "ended")
    /\ UNCHANGED <<player, using, clientVars, crashed>>

\* udpSocket!!.receive(packet) reads the field once more.  When it is null by
\* now, the exception is thrown again by the handler and ends the process.
EnterReceive(j) ==
    /\ receiver[j] = "receive"
    /\ \/ /\ FieldOf(j, "udp") # None
          /\ using' = [using EXCEPT ![j] = FieldOf(j, "udp")]
          /\ Receives(j, "blocked") /\ UNCHANGED crashed
       \/ /\ FieldOf(j, "udp") = None
          /\ crashed' = TRUE
          /\ Receives(j, "ended") /\ UNCHANGED using
    /\ UNCHANGED <<player, clientVars>>

\* "Socket closed, stopping receiver."
SocketClosed(j) ==
    /\ receiver[j] = "blocked" /\ <<"udp", using[j]>> \notin open
    /\ Receives(j, "ended")
    /\ UNCHANGED <<player, using, clientVars, crashed>>

\* A datagram, as long as the server streams to this socket.  One that is too
\* short or lies about its size is skipped.
Datagram(j) ==
    /\ receiver[j] = "blocked" /\ <<"udp", using[j]>> \in open
    /\ serverUp /\ using[j] \notin told
    /\ receiver' \in {[receiver EXCEPT ![j] = step] : step \in {"check", "decode"}}
    /\ UNCHANGED <<player, using, clientVars, crashed>>

\* decodeData(): it reads the pointer,
EnterDecoder(j) ==
    /\ receiver[j] = "decode"
    /\ using' = [using EXCEPT ![j] = FieldOf(j, "decoder")]
    /\ Receives(j, IF FieldOf(j, "decoder") = None THEN "check" ELSE "decoding")
    /\ UNCHANGED <<player, clientVars, crashed>>

\* decodes, and the frame is offered to the channel.
LeaveDecoder(j) ==
    /\ receiver[j] = "decoding"
    /\ Receives(j, "check")
    /\ UNCHANGED <<player, using, clientVars, crashed>>

\* A pass of the player: it ends when cancelled, or is about to write to the
\* AudioTrack.
PlayerLoop(j) ==
    /\ player[j] = "loop"
    /\ player' = [player EXCEPT ![j] = IF cancelled[j] THEN "ended" ELSE "writing"]
    /\ UNCHANGED <<receiver, using, clientVars, crashed>>

PlayerWritten(j) ==
    /\ player[j] = "writing"
    /\ player' = [player EXCEPT ![j] = "loop"]
    /\ UNCHANGED <<receiver, using, clientVars, crashed>>

\* An exception that leaves processQueue() is caught by nobody.
PlayerThrows(j) ==
    /\ player[j] = "loop" /\ MayFail
    /\ player' = [player EXCEPT ![j] = "ended"]
    /\ crashed' = TRUE
    /\ UNCHANGED <<receiver, using, clientVars>>

ChildRest == <<mainVars, coordVars, jobVars, serverUp>>

Receiver(j) ==
    /\ \/ CheckSocket(j) \/ EnterReceive(j) \/ SocketClosed(j) \/ Datagram(j)
       \/ EnterDecoder(j) \/ LeaveDecoder(j)
    /\ UNCHANGED ChildRest

Player(j) ==
    /\ PlayerLoop(j) \/ PlayerWritten(j) \/ PlayerThrows(j)
    /\ UNCHANGED ChildRest

-----------------------------------------------------------------------------
(* The coroutine of release(), instance i                                  *)

Releases(i, step) == releaser' = [releaser EXCEPT ![i] = step]

\* disconnect(): write(55).  An exception skips all the closing: the stream
\* was never opened, its socket is closed, or the server has gone.
WriteStop(i) ==
    LET s == field[i]["stream"] IN
    /\ releaser[i] = "write"
    /\ \/ /\ <<"tcp", s>> \in open
          /\ told' = told \union {s}
          /\ Releases(i, "freeDecoder")
       \/ /\ <<"tcp", s>> \notin open \/ ~serverUp
          /\ Releases(i, "forget") /\ UNCHANGED told
    /\ UNCHANGED <<field, open, scopeActive, cancelled, joining>>

\* opusWrapper.close()
FreeDecoder(i) ==
    /\ releaser[i] = "freeDecoder"
    /\ open' = open \ {<<"decoder", field[i]["decoder"]>>}
    /\ field' = [field EXCEPT ![i]["decoder"] = None]
    /\ Releases(i, "closeTcp")
    /\ UNCHANGED <<told, scopeActive, cancelled, joining>>

\* managerSocket?.close()
CloseTcp(i) ==
    /\ releaser[i] = "closeTcp"
    /\ open' = open \ {<<"tcp", field[i]["manager"]>>}
    /\ Releases(i, "closeUdp")
    /\ UNCHANGED <<field, told, scopeActive, cancelled, joining>>

\* Mutated form of CloseUdp: the datagram socket is only forgotten.
CloseUdpForgotten(i) ==
    /\ releaser[i] = "closeUdp"
    /\ Releases(i, "forget")
    /\ UNCHANGED <<field, open, told, scopeActive, cancelled, joining>>

\* udpSocket?.close()
CloseUdp(i) ==
    /\ releaser[i] = "closeUdp"
    /\ open' = open \ {<<"udp", field[i]["udp"]>>}
    /\ Releases(i, "forget")
    /\ UNCHANGED <<field, told, scopeActive, cancelled, joining>>

\* finally: managerSocket = null, udpSocket = null
Forget(i) ==
    /\ releaser[i] = "forget"
    /\ field' = [field EXCEPT ![i]["manager"] = None, ![i]["udp"] = None]
    /\ Releases(i, "cancel")
    /\ UNCHANGED <<open, told, scopeActive, cancelled, joining>>

\* streamingJob?.cancelAndJoin() cancels
CancelJob(i) ==
    /\ releaser[i] = "cancel"
    /\ joining' = [joining EXCEPT ![i] = streamingJob[i]]
    /\ cancelled' = [j \in Job |-> cancelled[j] \/ j = streamingJob[i]]
    /\ Releases(i, "join")
    /\ UNCHANGED <<field, open, told, scopeActive>>

\* Mutated form of JoinJob: cancel() without join().
JoinNothing(i) ==
    /\ releaser[i] = "join"
    /\ Releases(i, "stopPlayer")
    /\ UNCHANGED <<field, open, told, scopeActive, cancelled, joining>>

\* and waits for the job it read.
JoinJob(i) ==
    /\ releaser[i] = "join"
    /\ joining[i] # None => Complete(joining[i])
    /\ Releases(i, "stopPlayer")
    /\ UNCHANGED <<field, open, told, scopeActive, cancelled, joining>>

\* consumer.release(), the channel is drained, scope.cancel().
StopPlayer(i) ==
    /\ releaser[i] = "stopPlayer"
    /\ open' = open \ {<<"track", field[i]["track"]>>}
    /\ field' = [field EXCEPT ![i]["track"] = None]
    /\ scopeActive' = [scopeActive EXCEPT ![i] = FALSE]
    /\ cancelled' = [j \in Job |-> cancelled[j] \/ owner[j] = i]
    /\ Releases(i, "done")
    /\ UNCHANGED <<told, joining>>

Releaser(i) ==
    /\ \/ WriteStop(i) \/ FreeDecoder(i) \/ CloseTcp(i) \/ CloseUdp(i)
       \/ Forget(i) \/ CancelJob(i) \/ JoinJob(i) \/ StopPlayer(i)
    /\ UNCHANGED <<mainVars, state, streamingJob, jobs, owner, body, childVars,
                   serverUp, crashed>>

-----------------------------------------------------------------------------
\* What the main thread's queue holds is handled in any order; while
\* startStreaming runs nothing else does.
Callbacks ==
    /\ \/ /\ launching = None
          /\ \/ \E v \in ViewModel : ServiceConnected(v)
             \/ \E i \in Instance : Deliver(i)
          /\ UNCHANGED launching
       \/ launching = None /\ StartCommand
       \/ Launch
    /\ UNCHANGED <<childVars, clientVars, serverUp, crashed>>

User ==
    /\ launching = None
    /\ TapStart \/ TapStop \/ Clear \/ Reopen
    /\ UNCHANGED <<launching, childVars, clientVars, serverUp, crashed>>

ServerDies ==
    /\ ServerMayDie /\ serverUp
    /\ serverUp' = FALSE
    /\ UNCHANGED <<mainVars, coordVars, jobVars, childVars, clientVars, crashed>>

Next ==
    /\ ~crashed
    /\ \/ User \/ Callbacks \/ ServerDies
       \/ \E j \in Job : Body(j) \/ Receiver(j) \/ Player(j)
       \/ \E i \in Instance : Releaser(i)

Spec == Init /\ [][Next]_vars

\* The main thread handles its queue, the dispatchers run the coroutines, and
\* a socket call of the handshake returns or fails.  The server streams while
\* it has not been told to stop.  Nothing is assumed of the user.
FairSpec ==
    /\ Spec
    /\ WF_vars(~crashed /\ Callbacks)
    /\ \A j \in Job : /\ WF_vars(~crashed /\ Body(j))
                      /\ WF_vars(~crashed /\ Receiver(j))
                      /\ WF_vars(~crashed /\ Player(j))
    /\ \A i \in Instance : WF_vars(~crashed /\ Releaser(i))

-----------------------------------------------------------------------------
(* Properties                                                              *)

\* When nothing is on its way, the screen shows the state of the session it
\* is bound to, and no connection when it is bound to none: a session that
\* was left says nothing any more, though its collector goes on and its job may
\* still run.  Excepted are screens that collect from an instance in which two
\* jobs ran at once.
ScreenShowsSession ==
    (Delivered /\ ~cleared /\ \A i \in crowded : seen[i] = "off") =>
        connection = IF binder = None THEN "DISCONNECTED"
                                      ELSE UiOf(state[binder])

\* At most one job of a coordinator is neither cancelled nor complete: a
\* second start takes the place of the first.
OneLiveJob ==
    \A j, k \in 1 .. jobs :
        owner[j] = owner[k] /\ j # k =>
            cancelled[j] \/ Complete(j) \/ cancelled[k] \/ Complete(k)

\* The view models that are gone and whose connection the system still holds.
Forgotten == {v \in bindings : v # viewModel \/ cleared}

\* A start command reaches a coordinator that was not released, whose scope
\* can still run a job, unless a screen was closed and its connection kept.
StartFindsLiveScope ==
    launching # None /\ Forgotten = {} => releaser[launching] = "none"

\* The AudioTrack is not released while a player of the session may write to
\* it, and not before the receiver has stopped, whenever the session is left,
\* unless two of its jobs ran at once: release() waits for one.
TrackOutlivesPlayer ==
    \A j \in 1 .. jobs :
        releaser[owner[j]] = "done" /\ owner[j] \notin crowded =>
            player[j] # "writing" /\ receiver[j] \notin {"decode", "decoding"}

\* A session that was left while it was streaming is closed, unless the server
\* has gone: it was told, and neither the session's sockets nor its decoder nor
\* its AudioTrack are open.
ReleasedIsClosed ==
    \A i \in leftPlaying \ crowded :
        serverUp /\ releaser[i] = "done" =>
            /\ streamingJob[i] \in told
            /\ open \intersect ({"tcp", "udp", "decoder", "track"}
                                  \X {streamingJob[i]}) = {}

\* Once it was called, release() comes to its end, at whatever step of the
\* handshake or of the playback it was called.  It may wait for ever for a
\* receiver whose socket disconnect() did not close: when the server has gone,
\* or when another job of the instance has put its own socket in the field.
ReleaseCompletes ==
    \A i \in Instance :
        releaser[i] # "none" ~>
            (releaser[i] = "done" \/ crashed \/ ~serverUp \/ i \in crowded)

=============================================================================
