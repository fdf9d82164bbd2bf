---------------------------- MODULE ServerSockets ----------------------------
(***************************************************************************)
(* What the server's TcpAcceptor, TcpConnection and UDPSocketClient        *)
(* objects hold while sessions come and go.  Each step of SessionSetup     *)
(* constructs, stops or destructs some of them; this module adds what that *)
(* does to the sockets of the process and to Winsock.                      *)
(*                                                                         *)
(* WSAStartup() and WSACleanup() count: the cleanup that brings the count  *)
(* to 0 closes every socket of the process, those of other sessions too.   *)
(* A TcpAcceptor and a UDPSocketClient each start Winsock for themselves   *)
(* and remember it; a TcpConnection lives on what others started.          *)
(*                                                                         *)
(* An object is <<owner, name>>, the owner being the session thread or     *)
(* None for main().                                                        *)
(***************************************************************************)
EXTENDS SessionSetup, Integers

VARIABLES
    winsock,     \* calls of WSAStartup() not yet matched by WSACleanup()
    started,     \* objects with _wsaStarted
    open,        \* objects whose socket is not INVALID_SOCKET or closed
    destructed   \* session threads whose objects are gone

heldVars == <<winsock, started, open, destructed>>
socketsVars == <<vars, heldVars>>

Kinds == {"master", "command", "sync", "conversation", "listener", "manager", "udp"}
Objects == (Client \union {None}) \X Kinds

SocketsTypeOK ==
    /\ winsock \in Int
    /\ started \subseteq Objects /\ open \subseteq Objects
    /\ destructed \subseteq Client

\* main() has constructed its TcpAcceptor for commands.
SocketsInit ==
    /\ Init
    /\ winsock = 1
    /\ started = {<<None, "master">>} /\ open = {<<None, "master">>}
    /\ destructed = {}

\* What starts Winsock for itself and opens a socket: the constructor of a
\* TcpAcceptor, which listens at once, and that of a UDPSocketClient.
StartsAndOpens(object) ==
    /\ winsock' = winsock + 1
    /\ started' = started \union {object}
    /\ open' = open \union {object}
StartListening(acceptor) == StartsAndOpens(acceptor)
OpenUdp(client)          == StartsAndOpens(client)

\* TcpAcceptor::accept() returns a TcpConnection.
Opens(connection) ==
    open' = open \union {connection} /\ UNCHANGED <<winsock, started>>

\* What a call closes if it is open, and what it makes clean up Winsock if it
\* has it started.
Stop(acceptor)      == [sockets |-> {acceptor}, users |-> {acceptor}]
CloseSocket(client) == [sockets |-> {client}, users |-> {}]
DestructUdp(client) == [sockets |-> {client}, users |-> {client}]
Close(connection)   == [sockets |-> {connection}, users |-> {}]

SocketsOf(calls) == UNION {call.sockets : call \in calls}
UsersOf(calls)   == UNION {call.users : call \in calls}

\* Mutated form of Release: stop() does not reset _wsaStarted.
ReleaseAgain(calls) ==
    /\ open' = open \ SocketsOf(calls)
    /\ winsock' = winsock - Cardinality(UsersOf(calls))
    /\ started' = started \ UsersOf(calls)

\* The calls of a step, destructors among them.
Release(calls) ==
    /\ open' = open \ SocketsOf(calls)
    /\ winsock' = winsock - Cardinality(started \intersect UsersOf(calls))
    /\ started' = started \ UsersOf(calls)

Keeps == UNCHANGED <<winsock, started, open>>

\* A process that terminates has nothing any more.
Nothing == winsock' = 0 /\ started' = {} /\ open' = {}

-----------------------------------------------------------------------------
Master       == <<None, "master">>
Command      == <<None, "command">>
Sync         == <<None, "sync">>
Conversation == <<None, "conversation">>
Listener(t)  == <<t, "listener">>
Manager(t)   == <<t, "manager">>
Udp(t)       == <<t, "udp">>

\* syncConversation() stops its acceptor and drops its connection at its end;
\* each turn of the loop in main() ends with the destructors of the connection
\* and of the TimeSyncService, whose acceptor is stopped once more.
HoldsMain ==
    /\ Main
    /\ UNCHANGED destructed
    /\ \/ mState = "accept" /\ Opens(Command)
       \/ mState = "command" /\ alive' /\ Keeps
       \/ mState = "bind" /\ StartListening(Sync)
       \/ mState = "acceptSync" /\ Opens(Conversation)
       \/ mState = "sync" /\ alive' /\ Release({Stop(Sync), Close(Conversation)})
       \/ mState = "spawn" /\ Release({Stop(Sync), Close(Command)})
       \/ ~alive' /\ Nothing

HoldsSession(t) ==
    /\ SessionRuns(t)
    /\ UNCHANGED destructed
    /\ \/ thread[t] = "start" /\ alive' /\ StartListening(Listener(t))
       \/ thread[t] = "accept" /\ Opens(Manager(t))
       \/ thread[t] = "announce" /\ alive' /\ Keeps
       \/ thread[t] = "port" /\ alive' /\ OpenUdp(Udp(t))
       \/ thread[t] = "stream" /\ Keeps
       \/ ~alive' /\ Nothing

\* StreamingService::destroy()
HoldsDestroy(t) ==
    /\ SessionEnds(t)
    /\ Release({Stop(Listener(t)), CloseSocket(Udp(t))})
    /\ UNCHANGED destructed

\* Mutated form of Destruct: the connection is forgotten.
DestructButManager(t) ==
    /\ alive /\ thread[t] = "done" /\ t \notin destructed
    /\ Release({Stop(Listener(t)), DestructUdp(Udp(t))})
    /\ destructed' = destructed \union {t}
    /\ UNCHANGED vars

\* streamSound() returns: the destructors of StreamingService's members.
Destruct(t) ==
    /\ alive /\ thread[t] = "done" /\ t \notin destructed
    /\ Release({Stop(Listener(t)), DestructUdp(Udp(t)), Close(Manager(t))})
    /\ destructed' = destructed \union {t}
    /\ UNCHANGED vars

HoldsClient(c) == (Proceeds(c) \/ Decides(c)) /\ UNCHANGED heldVars

HoldsThrown == Throws /\ Nothing /\ UNCHANGED destructed

SocketsNext ==
    \/ HoldsMain \/ HoldsThrown
    \/ \E c \in Client : HoldsSession(c) \/ HoldsDestroy(c)
                             \/ Destruct(c) \/ HoldsClient(c)

SocketsSpec == SocketsInit /\ [][SocketsNext]_socketsVars

\* The fairness of SessionSetup.
SocketsFairSpec ==
    /\ SocketsSpec
    /\ WF_socketsVars(HoldsMain)
    /\ \A c \in Client : WF_socketsVars(HoldsSession(c))
                           /\ WF_socketsVars(Proceeds(c) /\ UNCHANGED heldVars)

-----------------------------------------------------------------------------
(* Properties                                                              *)

\* An acceptor is stopped by its owner and again by its destructor: no cleanup
\* is done twice, so no session takes Winsock from under the open sockets of
\* the process.
WinsockUp == alive /\ open # {} => winsock > 0

\* What main() opened for a client is closed when it accepts the next one, what
\* a session opened is closed and cleaned up when its thread has returned, and
\* nothing else ever has Winsock started: the sockets of the process and its
\* starts of Winsock do not grow with the number of sessions.
NothingLeftOpen ==
    alive =>
        /\ winsock = Cardinality(started)
        /\ mState = "accept" => {o \in open \union started : o[1] = None} = {Master}
        /\ \A t \in destructed : {o \in open \union started : o[1] = t} = {}

=============================================================================
