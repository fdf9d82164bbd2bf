---------------------------- MODULE SessionSetup ----------------------------
(***************************************************************************)
(* How sessions come and go: the server's main thread (main and            *)
(* TimeSyncService), the session threads (handleClient, streamSound and    *)
(* StreamingService::initialize) and the attempts of clients to connect    *)
(* (StreamReceiverCoordinator.startStreaming with TimeService and          *)
(* AudioStreamTcpClient).                                                  *)
(*                                                                         *)
(* A client is one attempt, with a socket of its own for each of the three *)
(* ports.  What a socket carries is abstracted to whether the few bytes of *)
(* the handshake were written.  A connection to a listening port is        *)
(* established before the server accepts it, and waits in the backlog; a   *)
(* connection to a port nobody listens on is refused.  An exception that   *)
(* leaves main() or a session thread terminates the server process.        *)
(*                                                                         *)
(* How long a session goes on after its client has closed is the subject   *)
(* of StreamPipeline; here it may be for ever.                             *)
(***************************************************************************)
EXTENDS Naturals, Sequences, FiniteSets, Functions

CONSTANTS
    Client,       \* attempts to connect
    None,         \* no client
    MayFail       \* may a client time out, fail to play or vanish, and may a
                  \*   call of the server to the system fail?

ASSUME SetupAssumption ==
    /\ None \notin Client
    /\ MayFail \in BOOLEAN

VARIABLES
    alive,          \* is the server process up?
    mState,         \* where the main thread is
    mClient,        \* whose command it read
    mSync,          \* whose time synchronisation it serves
    controlBacklog, \* accepted by the system, not by the server: port 20002,
    syncBacklog,    \*   port 20001
    streamBacklog,  \*   and port 20000
    thread,         \* client -> the session thread started for its command
    peer,           \* client -> the client that thread accepted
    streamOwner,    \* whose session thread holds port 20000
    cState,         \* client -> where its attempt is
    coded, asked, ported,   \* clients that wrote the code, SYNC, their port
    replied, announced,     \* clients that were sent timestamps, the format
    syncUp, streamUp        \* clients whose end of the socket is open

mainVars    == <<mState, mClient, mSync, controlBacklog>>
syncVars    == <<syncBacklog, replied>>
threadVars  == <<thread, peer, streamOwner>>
streamVars  == <<streamBacklog, announced>>
writtenVars == <<coded, asked, ported>>
socketVars  == <<syncUp, streamUp>>
vars == <<alive, mainVars, syncVars, threadVars, streamVars, cState,
          writtenVars, socketVars>>

MStates == {"accept", "command", "bind", "acceptSync", "sync", "spawn"}
TStates == {"none", "start", "accept", "announce", "port", "stream",
            "ending", "done"}
CStates == {"idle", "control", "coded", "syncConnected", "syncAsked",
            "synced", "streamConnected", "formatted", "ported", "playing",
            "closed", "error", "gone"}
Over == {"closed", "error", "gone"}

TypeOK ==
    /\ alive \in BOOLEAN
    /\ mState \in MStates
    /\ mClient \in Client \union {None} /\ mSync \in Client \union {None}
    /\ mState # "accept" => mClient \in Client
    /\ mState \in {"sync", "spawn"} => mSync \in Client
    /\ controlBacklog \in Seq(Client) /\ syncBacklog \in Seq(Client)
    /\ streamBacklog \in Seq(Client)
    /\ thread \in [Client -> TStates]
    /\ peer \in [Client -> Client \union {None}]
    /\ \A t \in Client :
         thread[t] \in {"announce", "port", "stream", "ending"} => peer[t] # None
    /\ streamOwner \in Client \union {None}
    /\ cState \in [Client -> CStates]
    /\ coded \subseteq Client /\ asked \subseteq Client
    /\ ported \subseteq Client /\ replied \subseteq Client
    /\ announced \subseteq Client
    /\ syncUp \subseteq Client /\ streamUp \subseteq Client

Init ==
    /\ alive = TRUE
    /\ mState = "accept" /\ mClient = None /\ mSync = None
    /\ controlBacklog = <<>> /\ syncBacklog = <<>> /\ streamBacklog = <<>>
    /\ thread = [c \in Client |-> "none"]
    /\ peer = [c \in Client |-> None]
    /\ streamOwner = None
    /\ cState = [c \in Client |-> "idle"]
    /\ coded = {} /\ asked = {} /\ ported = {}
    /\ replied = {} /\ announced = {}
    /\ syncUp = {} /\ streamUp = {}

\* Port 20001 has a listener from the construction of TimeSyncService to stop().
SyncOpen == alive /\ mState \in {"acceptSync", "sync"}

\* Port 20000 has one from the construction of StreamingService to destroy().
StreamOpen == alive /\ streamOwner # None

Terminate ==
    /\ alive' = FALSE
    /\ UNCHANGED <<mainVars, syncVars, threadVars, streamVars, cState,
                   writtenVars, socketVars>>

-----------------------------------------------------------------------------
(* main() and TimeSyncService                                              *)

\* masterServer->accept()
MainAccept ==
    /\ mState = "accept" /\ controlBacklog # <<>>
    /\ mClient' = Head(controlBacklog)
    /\ controlBacklog' = Tail(controlBacklog)
    /\ mState' = "command"
    /\ UNCHANGED <<alive, mSync, syncVars, threadVars, streamVars>>

\* client->recvAll(command): the code, or an exception when the client left.
MainCommand ==
    /\ mState = "command"
    /\ \/ /\ mClient \in coded
          /\ mState' = "bind"
          /\ UNCHANGED <<alive, mClient, mSync, controlBacklog,
                         syncVars, threadVars, streamVars>>
       \/ mClient \notin coded /\ cState[mClient] = "gone" /\ Terminate

\* TimeSyncService(timeSyncPort) binds and listens.
MainBind ==
    /\ mState = "bind"
    /\ mState' = "acceptSync"
    /\ UNCHANGED <<alive, mClient, mSync, controlBacklog, syncVars,
                   threadVars, streamVars>>

\* syncConversation(): whoever connected first is served.
MainAcceptSync ==
    /\ mState = "acceptSync" /\ syncBacklog # <<>>
    /\ mSync' = Head(syncBacklog)
    /\ syncBacklog' = Tail(syncBacklog)
    /\ mState' = "sync"
    /\ UNCHANGED <<alive, mClient, controlBacklog, replied, threadVars,
                   streamVars>>

\* sync(): read SYNC, send the two timestamps, close the listener with all
\* that waits on it.  A client that closed before writing makes recvAll()
\* throw; one that closed after writing may make send() throw.
MainSync ==
    /\ mState = "sync"
    /\ \/ /\ mSync \in asked
          /\ replied' = replied \union {mSync}
          /\ syncBacklog' = <<>>
          /\ mState' = "spawn"
          /\ UNCHANGED <<alive, mClient, mSync, controlBacklog,
                         threadVars, streamVars>>
       \/ mSync \notin syncUp /\ Terminate

\* threads.push_back(std::thread{handleClient, value})
MainSpawn ==
    /\ mState = "spawn"
    /\ thread' = [thread EXCEPT ![mClient] = "start"]
    /\ mState' = "accept"
    /\ UNCHANGED <<alive, mClient, mSync, controlBacklog, syncVars,
                   peer, streamOwner, streamVars>>

-----------------------------------------------------------------------------
(* The session thread started for t                                        *)

\* The constructor of StreamingService binds and listens, or throws
\* BindException when another session still holds the port.  The recorder is
\* opened before (producer.initialize()), and may throw too: see Throws.
Bind(t) ==
    /\ thread[t] = "start"
    /\ \/ /\ streamOwner = None
          /\ streamOwner' = t
          /\ thread' = [thread EXCEPT ![t] = "accept"]
          /\ UNCHANGED <<alive, mainVars, syncVars, peer, streamVars>>
       \/ streamOwner # None /\ Terminate

\* StreamingService::initialize() creates the encoder, or throws before anyone
\* has connected (see Throws); then accept() takes the first client waiting,
Accept(t) ==
    /\ thread[t] = "accept" /\ streamBacklog # <<>>
    /\ peer' = [peer EXCEPT ![t] = Head(streamBacklog)]
    /\ streamBacklog' = Tail(streamBacklog)
    /\ thread' = [thread EXCEPT ![t] = "announce"]
    /\ UNCHANGED <<alive, mainVars, syncVars, streamOwner, announced>>

\* Mutated form of Announce: the format is sent once the port is known.
AnnounceLater(t) ==
    /\ thread[t] = "announce"
    /\ thread' = [thread EXCEPT ![t] = "port"]
    /\ UNCHANGED <<alive, mainVars, syncVars, peer, streamOwner,
                   streamVars>>

\* announceFormat() sends it the format; if it closed, send() may throw,
Announce(t) ==
    /\ thread[t] = "announce"
    /\ \/ /\ announced' = announced \union {peer[t]}
          /\ thread' = [thread EXCEPT ![t] = "port"]
          /\ UNCHANGED <<alive, mainVars, syncVars, peer, streamOwner,
                         streamBacklog>>
       \/ peer[t] \notin streamUp /\ Terminate

\* and recvAll() reads its UDP port, or throws if it closed before.
ReadPort(t) ==
    /\ thread[t] = "port"
    /\ \/ /\ peer[t] \in ported
          /\ thread' = [thread EXCEPT ![t] = "stream"]
          /\ UNCHANGED <<alive, mainVars, syncVars, peer, streamOwner,
                         streamVars>>
       \/ /\ peer[t] \notin ported /\ peer[t] \notin streamUp
          /\ Terminate

\* Mutated form of SeeClose: any answer of the reader ends the session.
SeeAnything(t) ==
    /\ thread[t] = "stream"
    /\ thread' = [thread EXCEPT ![t] = "ending"]
    /\ UNCHANGED <<alive, mainVars, syncVars, peer, streamOwner,
                   streamVars>>

\* The reader of the control socket sees that the client has closed it.
SeeClose(t) ==
    /\ thread[t] = "stream" /\ peer[t] \notin streamUp
    /\ thread' = [thread EXCEPT ![t] = "ending"]
    /\ UNCHANGED <<alive, mainVars, syncVars, peer, streamOwner,
                   streamVars>>

\* Mutated form of Destroy: the listener is left open.
DestroyKeepsPort(t) ==
    /\ thread[t] = "ending"
    /\ thread' = [thread EXCEPT ![t] = "done"]
    /\ UNCHANGED <<alive, mainVars, syncVars, peer, streamOwner,
                   streamVars>>

\* The joins have returned: destroy() closes the listener.
Destroy(t) ==
    /\ thread[t] = "ending"
    /\ thread' = [thread EXCEPT ![t] = "done"]
    /\ streamOwner' = None
    /\ streamBacklog' = <<>>
    /\ UNCHANGED <<alive, mainVars, syncVars, peer, announced>>

\* A call to the system fails, in main() or a session thread: opening the
\* recorder, creating the encoder, an accept(), the constructor of a socket, a
\* send over UDP.  It throws, at whatever point its thread is, and nobody
\* catches.
Throws ==
    /\ alive /\ MayFail
    /\ Terminate

-----------------------------------------------------------------------------
(* startStreaming() of client c                                            *)

Goto(c, state) == cState' = [cState EXCEPT ![c] = state]

\* connect(ip, CONTROL_PORT)
ConnectControl(c) ==
    /\ cState[c] = "idle"
    /\ IF alive
         THEN /\ controlBacklog' = Append(controlBacklog, c)
              /\ Goto(c, "control")
         ELSE Goto(c, "error") /\ UNCHANGED controlBacklog
    /\ UNCHANGED <<syncBacklog, streamBacklog, writtenVars, socketVars>>

\* write(50); fails once the server process has gone.
SendCode(c) ==
    /\ cState[c] = "control"
    /\ IF alive THEN coded' = coded \union {c} /\ Goto(c, "coded")
                ELSE Goto(c, "error") /\ UNCHANGED coded
    /\ UNCHANGED <<controlBacklog, syncBacklog, streamBacklog, asked, ported,
                   socketVars>>

\* TimeService.sync(): connect at once, whether or not the server listens yet.
ConnectSync(c) ==
    /\ cState[c] = "coded"
    /\ IF SyncOpen
         THEN /\ syncBacklog' = Append(syncBacklog, c)
              /\ syncUp' = syncUp \union {c}
              /\ Goto(c, "syncConnected")
         ELSE Goto(c, "error") /\ UNCHANGED <<syncBacklog, syncUp>>
    /\ UNCHANGED <<controlBacklog, streamBacklog, writtenVars, streamUp>>

\* write("SYNC")
AskSync(c) ==
    /\ cState[c] = "syncConnected"
    /\ asked' = asked \union {c}
    /\ Goto(c, "syncAsked")
    /\ UNCHANGED <<controlBacklog, syncBacklog, streamBacklog, coded, ported,
                   socketVars>>

\* readFully(16 bytes)
ReadSync(c) ==
    /\ cState[c] = "syncAsked" /\ c \in replied
    /\ Goto(c, "synced")
    /\ syncUp' = syncUp \ {c}
    /\ UNCHANGED <<controlBacklog, syncBacklog, streamBacklog, writtenVars,
                   streamUp>>

\* The connection is still waited on or served by the main thread.
SyncServed(c) ==
    SyncOpen /\ (c \in Range(syncBacklog) \/ (mState = "sync" /\ mSync = c))

\* The server closed the connection unanswered, or the read timed out.
SyncFails(c) ==
    /\ cState[c] \in {"syncConnected", "syncAsked"} /\ c \notin replied
    /\ ~SyncServed(c) \/ (MayFail /\ cState[c] = "syncAsked")
    /\ Goto(c, "error")
    /\ syncUp' = syncUp \ {c}
    /\ UNCHANGED <<controlBacklog, syncBacklog, streamBacklog, writtenVars,
                   streamUp>>

\* AudioStreamTcpClient.initialize(): connect, whether or not the session
\* thread listens yet.
ConnectStream(c) ==
    /\ cState[c] = "synced"
    /\ IF StreamOpen
         THEN /\ streamBacklog' = Append(streamBacklog, c)
              /\ streamUp' = streamUp \union {c}
              /\ Goto(c, "streamConnected")
         ELSE Goto(c, "error") /\ UNCHANGED <<streamBacklog, streamUp>>
    /\ UNCHANGED <<controlBacklog, syncBacklog, writtenVars, syncUp>>

\* getFormatInfo(), without a timeout.
ReadFormat(c) ==
    /\ cState[c] = "streamConnected" /\ c \in announced
    /\ Goto(c, "formatted")
    /\ UNCHANGED <<controlBacklog, syncBacklog, streamBacklog, writtenVars,
                   socketVars>>

\* The connection is still waited on or served by a session thread.
StreamServed(c) ==
    /\ StreamOpen
    /\ c \in Range(streamBacklog) \/ \E t \in Client : peer[t] = c

\* The server closed the connection before the format arrived.
StreamFails(c) ==
    /\ cState[c] = "streamConnected" /\ c \notin announced
    /\ ~StreamServed(c)
    /\ Goto(c, "error")
    /\ UNCHANGED <<controlBacklog, syncBacklog, streamBacklog, writtenVars,
                   socketVars>>

\* sendReceiverPort()
SendPort(c) ==
    /\ cState[c] = "formatted"
    /\ IF alive THEN ported' = ported \union {c} /\ Goto(c, "ported")
                ELSE Goto(c, "error") /\ UNCHANGED ported
    /\ UNCHANGED <<controlBacklog, syncBacklog, streamBacklog, coded, asked,
                   socketVars>>

\* consumer.initialize(): Playback, or an error that leaves the socket open.
StartPlayback(c) ==
    /\ cState[c] = "ported"
    /\ \/ Goto(c, "playing")
       \/ MayFail /\ Goto(c, "error")
    /\ UNCHANGED <<controlBacklog, syncBacklog, streamBacklog, writtenVars,
                   socketVars>>

\* release() and disconnect()
Disconnect(c) ==
    /\ cState[c] = "playing"
    /\ Goto(c, "closed")
    /\ streamUp' = streamUp \ {c}
    /\ UNCHANGED <<controlBacklog, syncBacklog, streamBacklog, writtenVars,
                   syncUp>>

\* The application is killed and the system closes its sockets.
Vanish(c) ==
    /\ MayFail /\ cState[c] \notin {"idle", "gone"}
    /\ Goto(c, "gone")
    /\ syncUp' = syncUp \ {c} /\ streamUp' = streamUp \ {c}
    /\ UNCHANGED <<controlBacklog, syncBacklog, streamBacklog, writtenVars>>

-----------------------------------------------------------------------------
Main ==
    /\ alive
    /\ MainAccept \/ MainCommand \/ MainBind \/ MainAcceptSync \/ MainSync
         \/ MainSpawn
    /\ UNCHANGED <<cState, writtenVars, socketVars>>

SessionRuns(t) ==
    /\ alive
    /\ Bind(t) \/ Accept(t) \/ Announce(t) \/ ReadPort(t) \/ SeeClose(t)
    /\ UNCHANGED <<cState, writtenVars, socketVars>>

SessionEnds(t) ==
    /\ alive
    /\ Destroy(t)
    /\ UNCHANGED <<cState, writtenVars, socketVars>>

\* What the attempt does on its own, once it has begun.
Proceeds(c) ==
    /\ \/ SendCode(c) \/ ConnectSync(c) \/ AskSync(c) \/ ReadSync(c)
       \/ SyncFails(c) \/ ConnectStream(c) \/ ReadFormat(c) \/ StreamFails(c)
       \/ SendPort(c) \/ StartPlayback(c)
    /\ UNCHANGED <<alive, mState, mClient, mSync, replied, threadVars,
                   announced>>

\* What its user and the system do.
Decides(c) ==
    /\ ConnectControl(c) \/ Disconnect(c) \/ Vanish(c)
    /\ UNCHANGED <<alive, mState, mClient, mSync, replied, threadVars,
                   announced>>

Next ==
    \/ Main \/ Throws
    \/ \E c \in Client : SessionRuns(c) \/ SessionEnds(c)
                             \/ Proceeds(c) \/ Decides(c)

Spec == Init /\ [][Next]_vars

\* Threads and attempts that can go on do; nothing makes a session end, a user
\* act, a client fail or a thread throw.
FairSpec ==
    /\ Spec
    /\ WF_vars(Main)
    /\ \A c \in Client : WF_vars(SessionRuns(c)) /\ WF_vars(Proceeds(c))

-----------------------------------------------------------------------------
(* Properties                                                              *)

\* Port 20000 belongs to exactly the session thread that is between its
\* construction and its destroy(), so there is never a second one.
PortHasItsSession ==
    alive => \A t \in Client :
        streamOwner = t <=> thread[t] \in {"accept", "announce", "port",
                                           "stream", "ending"}

\* As long as the server is up, a client that plays is streamed to, by one
\* session thread, whichever client that thread was started for.
PlayingIsServed ==
    alive => \A c \in Client : cState[c] = "playing" =>
        \E t \in Client :
            /\ peer[t] = c /\ thread[t] \in {"port", "stream"}
            /\ \A u \in Client : peer[u] = c => u = t

\* An attempt that has begun ends: in playback or in an error shown.
AttemptResolves ==
    \A c \in Client : cState[c] = "control" ~> cState[c] \in Over \union {"playing"}

=============================================================================
