------------------------- MODULE ServerSocketsProofs -------------------------
(***************************************************************************)
(* For any number of clients: port 20000 belongs to one session, a client  *)
(* that plays is served by one session thread, and Winsock and the sockets *)
(* are given back exactly once, whatever throws.                           *)
(*                                                                         *)
(* The first two rest on SetupInv, which follows each of the three       *)
(* connections of a client: no two commands of it are pending, a           *)
(* connection that is waited on or served is open unless its client gave   *)
(* up, and each stream connection has one session thread.  The last two    *)
(* rest on SocketsInv, which says of every socket whose it is.             *)
(***************************************************************************)
EXTENDS ServerSockets, Functions, SequenceTheorems, FiniteSetTheorems,
        TLAPS

\* Appending a new element keeps a queue without repetition and adds exactly
\* that element to its range: a connection put into a backlog.
LEMMA AppendDistinct ==
    ASSUME NEW S, NEW s \in Seq(S), NEW c \in S,
           IsInjective(s), c \notin Range(s)
    PROVE  /\ IsInjective(Append(s, c))
           /\ Range(Append(s, c)) = Range(s) \union {c}
  <1>1. \A i \in 1 .. Len(s) : s[i] # c
    BY DEF Range
  <1>2. IsInjective(Append(s, c))
    BY <1>1, AppendProperties DEF IsInjective
  <1>3. Range(Append(s, c)) = Range(s) \union {c}
    BY AppendProperties DEF Range
  <1> QED
    BY <1>2, <1>3

\* Removing the head keeps a queue without repetition and takes exactly that
\* element from its range: a connection taken from a backlog.
LEMMA TailDistinct ==
    ASSUME NEW S, NEW s \in Seq(S), s # <<>>, IsInjective(s)
    PROVE  /\ IsInjective(Tail(s))
           /\ Range(s) = Range(Tail(s)) \union {Head(s)}
           /\ Head(s) \notin Range(Tail(s))
  <1>1. \A i \in 1 .. Len(Tail(s)) : Tail(s)[i] = s[i + 1]
    BY HeadTailProperties
  <1>2. \A i \in 2 .. Len(s) : i - 1 \in 1 .. Len(Tail(s)) /\ s[i] = Tail(s)[i - 1]
    BY HeadTailProperties
  <1>3. IsInjective(Tail(s)) /\ Head(s) \notin Range(Tail(s))
    BY <1>1, EmptySeq DEF IsInjective, Range
  <1>4. ASSUME NEW x \in Range(s) PROVE x \in Range(Tail(s)) \union {Head(s)}
    <2>1. PICK i \in 1 .. Len(s) : x = s[i]
      BY DEF Range
    <2>2. CASE i = 1
      BY <2>1, <2>2
    <2>3. CASE i \in 2 .. Len(s)
      <3>1. Tail(s) \in Seq(S) /\ DOMAIN Tail(s) = 1 .. Len(Tail(s))
        BY HeadTailProperties
      <3>2. i - 1 \in DOMAIN Tail(s) /\ x = Tail(s)[i - 1]
        BY <1>2, <2>1, <2>3, <3>1
      <3> QED
        BY <3>2, Zenon DEF Range
    <2> QED
      BY <2>2, <2>3
  <1>5. Range(Tail(s)) \subseteq Range(s) /\ Head(s) \in Range(s)
    BY <1>1, EmptySeq DEF Range
  <1> QED
    BY <1>3, <1>4, <1>5

\* The head of a queue is one of its elements, and its tail has no others: a
\* connection taken from a backlog.
LEMMA HeadAndTail ==
    ASSUME NEW S, NEW s \in Seq(S), s # <<>>
    PROVE  /\ Head(s) \in S /\ Tail(s) \in Seq(S)
           /\ Head(s) \in Range(s)
           /\ Range(Tail(s)) \subseteq Range(s)
BY HeadTailProperties, EmptySeq DEF Range

\* What an append adds to the elements of a queue, whether or not the element
\* was there: a connection put into a backlog.
LEMMA AppendRange ==
    ASSUME NEW S, NEW s \in Seq(S), NEW c \in S
    PROVE  /\ Append(s, c) \in Seq(S)
           /\ Range(Append(s, c)) \subseteq Range(s) \union {c}
BY AppendProperties DEF Range

-----------------------------------------------------------------------------
(* The connections of a client                                             *)

Waiting(c) == c \in Range(controlBacklog) \/ (mState # "accept" /\ c = mClient)

OneCommandEach ==
    /\ IsInjective(controlBacklog)
    /\ mState # "accept" => mClient \notin Range(controlBacklog)
    /\ \A c \in Client : Waiting(c) => thread[c] = "none"
    /\ \A c \in Client : Waiting(c) \/ thread[c] # "none" => cState[c] # "idle"

Syncing(c) == c \in Range(syncBacklog) \/ (mState = "sync" /\ c = mSync)

SyncsAnswered ==
    \A c \in Client :
        /\ Syncing(c) => c \notin replied /\ (c \in syncUp \/ cState[c] \in Over)
        /\ Syncing(c) \/ c \in replied =>
               cState[c] \notin {"idle", "control", "coded"}

Early == {"idle", "control", "coded", "syncConnected", "syncAsked", "synced"}

Streamed(c) == c \in Range(streamBacklog) \/ \E t \in Client : peer[t] = c

OneStreamEach ==
    /\ IsInjective(streamBacklog)
    /\ \A t \in Client : peer[t] \notin Range(streamBacklog)
    /\ \A t, u \in Client : peer[t] # None /\ peer[t] = peer[u] => t = u
    /\ \A c \in Client :
          Streamed(c) => /\ cState[c] \notin Early
                         /\ c \in streamUp \/ cState[c] \in Over

FormatsAnnounced ==
    /\ \A c \in Client :
          cState[c] \in {"formatted", "ported", "playing"} => c \in announced
    /\ alive => \A c \in Client :
          c \in announced /\ cState[c] \notin Over =>
              \E t \in Client : peer[t] = c /\ thread[t] \in {"port", "stream"}

SetupInv ==
    /\ TypeOK
    /\ OneCommandEach /\ SyncsAnswered /\ OneStreamEach /\ FormatsAnnounced
    /\ PortHasItsSession

LEMMA SetupInit == Init => SetupInv
  <1> SUFFICES ASSUME Init PROVE SetupInv
    OBVIOUS
  <1>1. Range(<<>>) = {} /\ IsInjective(<<>>)
    BY DEF Range, IsInjective
  <1>2. <<>> \in Seq(Client)
    OBVIOUS
  <1>3. TypeOK
    BY <1>2 DEF Init, TypeOK, MStates, TStates, CStates
  <1>4. OneCommandEach /\ SyncsAnswered /\ OneStreamEach /\ FormatsAnnounced
    BY <1>1, SetupAssumption
       DEF Init, OneCommandEach, Waiting, SyncsAnswered, Syncing,
           OneStreamEach, Streamed, FormatsAnnounced
  <1>5. PortHasItsSession
    BY SetupAssumption DEF Init, PortHasItsSession
  <1> QED
    BY <1>3, <1>4, <1>5 DEF SetupInv

\* What an exception changes: the process is gone, and everything else stays.
LEMMA TerminateStep ==
    ASSUME SetupInv, Terminate
    PROVE  SetupInv'
  <1>1. TypeOK'
    BY DEF SetupInv, TypeOK, Terminate, mainVars, syncVars, threadVars,
           streamVars, writtenVars, socketVars
  <1>2. OneCommandEach' /\ SyncsAnswered' /\ OneStreamEach'
    BY DEF SetupInv, OneCommandEach, Waiting, SyncsAnswered, Syncing,
           OneStreamEach, Streamed, Terminate, mainVars, syncVars, threadVars,
           streamVars, writtenVars, socketVars
  <1>3. FormatsAnnounced' /\ PortHasItsSession'
    BY DEF SetupInv, FormatsAnnounced, PortHasItsSession,
           Terminate, mainVars, syncVars, threadVars, streamVars, writtenVars,
           socketVars
  <1> QED
    BY <1>1, <1>2, <1>3 DEF SetupInv

\* main() accepts a client: the head of the backlog becomes the one it serves.
LEMMA MainAcceptStep ==
    ASSUME SetupInv, MainAccept, UNCHANGED <<cState, writtenVars, socketVars>>
    PROVE  SetupInv'
  <1> USE DEF MainAccept, syncVars, threadVars, streamVars, writtenVars,
              socketVars
  <1>1. /\ controlBacklog \in Seq(Client) /\ controlBacklog # <<>>
        /\ IsInjective(controlBacklog)
    BY DEF SetupInv, TypeOK, OneCommandEach
  <1>2. /\ IsInjective(controlBacklog')
        /\ Range(controlBacklog) = Range(controlBacklog') \union {mClient'}
        /\ mClient' \notin Range(controlBacklog')
    BY <1>1, TailDistinct
  <1>3. mClient' \in Client /\ controlBacklog' \in Seq(Client)
    BY <1>1, HeadTailProperties
  <1>4. TypeOK'
    BY <1>3 DEF SetupInv, TypeOK, MStates
  <1>5. OneCommandEach'
    BY <1>2 DEF SetupInv, OneCommandEach, Waiting
  <1>6. SyncsAnswered' /\ OneStreamEach' /\ FormatsAnnounced'
    BY DEF SetupInv, SyncsAnswered, Syncing, OneStreamEach, Streamed,
           FormatsAnnounced
  <1>7. PortHasItsSession'
    BY DEF SetupInv, PortHasItsSession
  <1> QED
    BY <1>4, <1>5, <1>6, <1>7 DEF SetupInv

\* The steps of main() that only move on, and those of the synchronisation.
LEMMA MainMoveStep ==
    ASSUME SetupInv, MainCommand \/ MainBind \/ MainSync,
           UNCHANGED <<cState, writtenVars, socketVars>>
    PROVE  SetupInv'
  <1> USE DEF mainVars, syncVars, threadVars, streamVars, writtenVars,
              socketVars
  <1>0. Range(<<>>) = {} /\ <<>> \in Seq(Client)
    BY DEF Range
  <1>1. CASE Terminate
    BY <1>1, TerminateStep
  <1>2. CASE (MainCommand \/ MainBind) /\ ~Terminate
    <2>1. TypeOK'
      BY <1>2 DEF SetupInv, TypeOK, MStates, MainCommand, MainBind
    <2>2. OneCommandEach' /\ SyncsAnswered' /\ OneStreamEach'
      BY <1>2 DEF SetupInv, OneCommandEach, Waiting, SyncsAnswered, Syncing,
                  OneStreamEach, Streamed, MainCommand, MainBind
    <2>3. FormatsAnnounced' /\ PortHasItsSession'
      BY <1>2 DEF SetupInv, FormatsAnnounced, PortHasItsSession, MainCommand, MainBind
    <2> QED
      BY <2>1, <2>2, <2>3 DEF SetupInv
  <1>3. CASE MainSync /\ ~Terminate
    <2>1. TypeOK'
      BY <1>0, <1>3 DEF SetupInv, TypeOK, MStates, MainSync
    <2>2. OneCommandEach' /\ OneStreamEach'
      BY <1>3 DEF SetupInv, OneCommandEach, Waiting, OneStreamEach, Streamed,
                  MainSync
    <2>3. SyncsAnswered'
      BY <1>0, <1>3 DEF SetupInv, TypeOK, SyncsAnswered, Syncing, MainSync
    <2>4. FormatsAnnounced' /\ PortHasItsSession'
      BY <1>3 DEF SetupInv, FormatsAnnounced, PortHasItsSession, MainSync
    <2> QED
      BY <2>1, <2>2, <2>3, <2>4 DEF SetupInv
  <1> QED
    BY <1>1, <1>2, <1>3

\* The synchronisation accepts a client.
LEMMA MainAcceptSyncStep ==
    ASSUME SetupInv, MainAcceptSync,
           UNCHANGED <<cState, writtenVars, socketVars>>
    PROVE  SetupInv'
  <1> USE DEF MainAcceptSync, threadVars, streamVars, writtenVars, socketVars
  <1>1. syncBacklog \in Seq(Client) /\ syncBacklog # <<>>
    BY DEF SetupInv, TypeOK
  <1>2. /\ mSync' \in Client /\ syncBacklog' \in Seq(Client)
        /\ mSync' \in Range(syncBacklog)
        /\ Range(syncBacklog') \subseteq Range(syncBacklog)
    BY <1>1, HeadAndTail
  <1>3. TypeOK'
    BY <1>2 DEF SetupInv, TypeOK, MStates
  <1>4. OneCommandEach' /\ OneStreamEach'
    BY DEF SetupInv, OneCommandEach, Waiting, OneStreamEach, Streamed
  <1>5. SyncsAnswered'
    BY <1>2 DEF SetupInv, SyncsAnswered, Syncing
  <1>6. FormatsAnnounced' /\ PortHasItsSession'
    BY DEF SetupInv, FormatsAnnounced, PortHasItsSession
  <1> QED
    BY <1>3, <1>4, <1>5, <1>6 DEF SetupInv

\* main() starts the session thread of the client whose command it read; that
\* client has none yet.
LEMMA MainSpawnStep ==
    ASSUME SetupInv, MainSpawn, UNCHANGED <<cState, writtenVars, socketVars>>
    PROVE  SetupInv'
  <1> USE DEF MainSpawn, syncVars, streamVars, writtenVars, socketVars
  <1>0. mClient \in Client /\ thread[mClient] = "none"
    BY DEF SetupInv, TypeOK, OneCommandEach, Waiting
  <1>1. TypeOK'
    BY <1>0 DEF SetupInv, TypeOK, MStates, TStates
  <1>2. OneCommandEach'
    BY <1>0 DEF SetupInv, TypeOK, OneCommandEach, Waiting
  <1>3. SyncsAnswered' /\ OneStreamEach'
    BY DEF SetupInv, SyncsAnswered, Syncing, OneStreamEach, Streamed
  <1>4. FormatsAnnounced'
    BY <1>0 DEF SetupInv, TypeOK, FormatsAnnounced
  <1>5. PortHasItsSession'
    BY <1>0 DEF SetupInv, TypeOK, PortHasItsSession
  <1> QED
    BY <1>1, <1>2, <1>3, <1>4, <1>5 DEF SetupInv

\* A session thread binds port 20000, which nobody holds.
LEMMA BindStep ==
    ASSUME SetupInv, NEW t \in Client, Bind(t),
           UNCHANGED <<cState, writtenVars, socketVars>>
    PROVE  SetupInv'
  <1> USE DEF mainVars, syncVars, streamVars, writtenVars, socketVars
  <1>1. CASE Terminate
    BY <1>1, TerminateStep
  <1>2. CASE ~Terminate
    <2>0. /\ thread[t] = "start" /\ streamOwner = None /\ streamOwner' = t
          /\ thread' = [thread EXCEPT ![t] = "accept"]
          /\ UNCHANGED <<alive, mainVars, syncVars, peer, streamVars>>
      BY <1>2 DEF Bind
    <2>1. TypeOK'
      BY <2>0 DEF SetupInv, TypeOK, TStates
    <2>2. OneCommandEach' /\ SyncsAnswered' /\ OneStreamEach'
      BY <2>0 DEF SetupInv, TypeOK, OneCommandEach, Waiting, SyncsAnswered,
                  Syncing, OneStreamEach, Streamed
    <2>3. FormatsAnnounced'
      BY <2>0 DEF SetupInv, TypeOK, FormatsAnnounced
    <2>4. PortHasItsSession'
      BY <2>0, SetupAssumption
         DEF SetupInv, TypeOK, PortHasItsSession
    <2> QED
      BY <2>1, <2>2, <2>3, <2>4 DEF SetupInv
  <1> QED
    BY <1>1, <1>2

\* A session thread accepts a client, whom no other one serves.
LEMMA AcceptStep ==
    ASSUME SetupInv, NEW t \in Client, Accept(t),
           UNCHANGED <<cState, writtenVars, socketVars>>
    PROVE  SetupInv'
  <1> USE DEF mainVars, syncVars, writtenVars, socketVars
  <1>0. /\ thread[t] = "accept" /\ streamBacklog # <<>>
        /\ peer' = [peer EXCEPT ![t] = Head(streamBacklog)]
        /\ streamBacklog' = Tail(streamBacklog)
        /\ thread' = [thread EXCEPT ![t] = "announce"]
        /\ UNCHANGED <<alive, mainVars, syncVars, streamOwner,
                       announced>>
    BY DEF Accept
  <1>1. /\ streamBacklog \in Seq(Client) /\ IsInjective(streamBacklog)
        /\ peer \in [Client -> Client \union {None}]
        /\ thread \in [Client -> TStates]
    BY DEF SetupInv, TypeOK, OneStreamEach
  <1>2. /\ IsInjective(streamBacklog')
        /\ Range(streamBacklog) =
               Range(streamBacklog') \union {Head(streamBacklog)}
        /\ Head(streamBacklog) \notin Range(streamBacklog')
    BY <1>0, <1>1, TailDistinct
  <1>3. Head(streamBacklog) \in Client /\ streamBacklog' \in Seq(Client)
    BY <1>0, <1>1, HeadTailProperties
  <1>4. TypeOK'
    BY <1>0, <1>3, SetupAssumption DEF SetupInv, TypeOK, TStates
  <1>5. OneCommandEach' /\ SyncsAnswered'
    BY <1>0, <1>1
       DEF SetupInv, OneCommandEach, Waiting, SyncsAnswered, Syncing
  <1>6. OneStreamEach'
    <2> DEFINE head == Head(streamBacklog)
    <2>1. \A u \in Client : peer'[u] = IF u = t THEN head ELSE peer[u]
      BY <1>0, <1>1
    <2>2. \A u \in Client : peer[u] \notin Range(streamBacklog)
      BY DEF SetupInv, OneStreamEach
    <2>3. \A u \in Client : peer'[u] \notin Range(streamBacklog')
      BY <1>2, <2>1, <2>2
    <2>4. \A u, v \in Client : peer'[u] # None /\ peer'[u] = peer'[v] => u = v
      BY <1>2, <2>1, <2>2 DEF SetupInv, OneStreamEach
    <2>5. \A c \in Client : Streamed(c)' => Streamed(c)
      BY <1>2, <2>1 DEF Streamed
    <2> QED
      BY <1>2, <2>3, <2>4, <2>5 DEF SetupInv, OneStreamEach
  <1>7. FormatsAnnounced'
    BY <1>0, <1>1 DEF SetupInv, FormatsAnnounced
  <1>8. PortHasItsSession'
    BY <1>0, <1>1 DEF SetupInv, PortHasItsSession
  <1> QED
    BY <1>4, <1>5, <1>6, <1>7, <1>8 DEF SetupInv

\* The rest of a session: its client is sent the format and says its port,
\* unless it closed, and the port is given back at the end.
LEMMA SessionMoveStep ==
    ASSUME SetupInv, NEW t \in Client,
           Announce(t) \/ ReadPort(t) \/ SeeClose(t) \/ Destroy(t),
           UNCHANGED <<cState, writtenVars, socketVars>>
    PROVE  SetupInv'
  <1> USE DEF mainVars, syncVars, streamVars, writtenVars, socketVars
  <1>0. /\ peer[t] \in Client
        /\ peer[t] \notin streamUp => cState[peer[t]] \in Over
    BY DEF SetupInv, TypeOK, OneStreamEach, Streamed, Announce, ReadPort,
           SeeClose, Destroy
  <1>1. CASE Terminate
    BY <1>1, TerminateStep
  <1>2. CASE ~Terminate
    <2>0. /\ thread[t] \in {"announce", "port", "stream", "ending"}
          /\ \E to \in {"port", "stream", "ending", "done"} :
                thread' = [thread EXCEPT ![t] = to]
          /\ UNCHANGED <<alive, mainVars, syncVars, peer>>
      BY <1>2 DEF Announce, ReadPort, SeeClose, Destroy
    <2>1. /\ streamBacklog' = streamBacklog \/ streamBacklog' = <<>>
          /\ Range(streamBacklog') \subseteq Range(streamBacklog)
          /\ streamBacklog' \in Seq(Client) /\ IsInjective(streamBacklog')
      <3>1. Range(<<>>) = {} /\ IsInjective(<<>>) /\ <<>> \in Seq(Client)
        BY DEF Range, IsInjective
      <3>2. streamBacklog \in Seq(Client) /\ IsInjective(streamBacklog)
        BY DEF SetupInv, TypeOK, OneStreamEach
      <3> QED
        BY <1>2, <3>1, <3>2 DEF Announce, ReadPort, SeeClose, Destroy
    <2>2. TypeOK'
      BY <1>0, <1>2, <2>0, <2>1
         DEF SetupInv, TypeOK, TStates, Announce, ReadPort, SeeClose, Destroy
    <2>3. OneCommandEach' /\ SyncsAnswered'
      BY <2>0 DEF SetupInv, TypeOK, OneCommandEach, Waiting, SyncsAnswered,
                  Syncing
    <2>4. OneStreamEach'
      BY <2>0, <2>1 DEF SetupInv, OneStreamEach, Streamed
    <2>5. FormatsAnnounced'
      BY <1>0, <1>2, <2>0
         DEF SetupInv, TypeOK, FormatsAnnounced, Announce, ReadPort, SeeClose,
             Destroy
    <2>6. PortHasItsSession'
      BY <1>2, <2>0, SetupAssumption
         DEF SetupInv, TypeOK, PortHasItsSession, Announce, ReadPort,
             SeeClose, Destroy
    <2> QED
      BY <2>2, <2>3, <2>4, <2>5, <2>6 DEF SetupInv
  <1> QED
    BY <1>1, <1>2

\* What the steps of clients leave alone.
ServerSame == UNCHANGED <<alive, mState, mClient, mSync, replied,
                          threadVars, announced>>

\* A client connects to the port for commands.
LEMMA ConnectControlStep ==
    ASSUME SetupInv, NEW c \in Client, ConnectControl(c), ServerSame
    PROVE  SetupInv'
  <1> USE DEF ServerSame, ConnectControl, Goto, threadVars, writtenVars,
              socketVars
  <1>1. /\ controlBacklog \in Seq(Client) /\ IsInjective(controlBacklog)
        /\ cState \in [Client -> CStates]
    BY DEF SetupInv, TypeOK, OneCommandEach
  <1>2. ~Waiting(c) /\ c \notin Range(controlBacklog) /\ thread[c] = "none"
    BY DEF SetupInv, OneCommandEach, Waiting
  <1>3. /\ IsInjective(controlBacklog') /\ controlBacklog' \in Seq(Client)
        /\ Range(controlBacklog') \subseteq Range(controlBacklog) \union {c}
    <2>1. CASE controlBacklog' = Append(controlBacklog, c)
      BY <1>1, <1>2, <2>1, AppendDistinct, AppendRange
    <2>2. CASE UNCHANGED controlBacklog
      BY <1>1, <2>2
    <2> QED
      BY <2>1, <2>2
  <1>4. TypeOK'
    BY <1>1, <1>3 DEF SetupInv, TypeOK, CStates
  <1>5. OneCommandEach'
    BY <1>1, <1>2, <1>3 DEF SetupInv, OneCommandEach, Waiting
  <1>6. SyncsAnswered' /\ OneStreamEach'
    BY <1>1 DEF SetupInv, SyncsAnswered, Syncing, OneStreamEach, Streamed,
                Early, Over
  <1>7. FormatsAnnounced'
    BY <1>1 DEF SetupInv, FormatsAnnounced, Over
  <1>8. PortHasItsSession'
    BY <1>1 DEF SetupInv, PortHasItsSession, Over
  <1> QED
    BY <1>4, <1>5, <1>6, <1>7, <1>8 DEF SetupInv

\* A client connects to the synchronisation.
LEMMA ConnectSyncStep ==
    ASSUME SetupInv, NEW c \in Client, ConnectSync(c), ServerSame
    PROVE  SetupInv'
  <1> USE DEF ServerSame, ConnectSync, Goto, threadVars, writtenVars
  <1>1. /\ syncBacklog \in Seq(Client) /\ cState \in [Client -> CStates]
        /\ c \notin replied
    BY DEF SetupInv, TypeOK, SyncsAnswered
  <1>2. /\ syncBacklog' \in Seq(Client)
        /\ Range(syncBacklog') \subseteq Range(syncBacklog) \union {c}
    <2>1. CASE syncBacklog' = Append(syncBacklog, c)
      BY <1>1, <2>1, AppendRange
    <2>2. CASE UNCHANGED syncBacklog
      BY <1>1, <2>2
    <2> QED
      BY <2>1, <2>2
  <1>3. TypeOK'
    BY <1>1, <1>2 DEF SetupInv, TypeOK, CStates
  <1>4. OneCommandEach' /\ OneStreamEach'
    BY <1>1 DEF SetupInv, OneCommandEach, Waiting, OneStreamEach, Streamed,
                Early, Over
  <1>5. SyncsAnswered'
    BY <1>1, <1>2 DEF SetupInv, SyncsAnswered, Syncing, Over
  <1>6. FormatsAnnounced'
    BY <1>1 DEF SetupInv, FormatsAnnounced, Over
  <1>7. PortHasItsSession'
    BY <1>1 DEF SetupInv, PortHasItsSession, Over
  <1> QED
    BY <1>3, <1>4, <1>5, <1>6, <1>7 DEF SetupInv

\* A client connects to a session, for the first time.
LEMMA ConnectStreamStep ==
    ASSUME SetupInv, NEW c \in Client, ConnectStream(c), ServerSame
    PROVE  SetupInv'
  <1> USE DEF ServerSame, ConnectStream, Goto, threadVars, writtenVars
  <1>1. /\ streamBacklog \in Seq(Client) /\ IsInjective(streamBacklog)
        /\ cState \in [Client -> CStates]
    BY DEF SetupInv, TypeOK, OneStreamEach
  <1>2. ~Streamed(c) /\ c \notin Range(streamBacklog)
    BY DEF SetupInv, OneStreamEach, Early, Streamed
  <1>3. /\ IsInjective(streamBacklog') /\ streamBacklog' \in Seq(Client)
        /\ Range(streamBacklog') \subseteq Range(streamBacklog) \union {c}
    <2>1. CASE streamBacklog' = Append(streamBacklog, c)
      BY <1>1, <1>2, <2>1, AppendDistinct, AppendRange
    <2>2. CASE UNCHANGED streamBacklog
      BY <1>1, <2>2
    <2> QED
      BY <2>1, <2>2
  <1>4. TypeOK'
    <2>1. cState' \in [Client -> CStates]
      BY <1>1 DEF CStates
    <2>2. streamUp' \subseteq Client
      BY DEF SetupInv, TypeOK
    <2> QED
      BY <1>3, <2>1, <2>2 DEF SetupInv, TypeOK
  <1>5. OneCommandEach' /\ SyncsAnswered'
    BY <1>1 DEF SetupInv, OneCommandEach, Waiting, SyncsAnswered, Syncing, Over
  <1>6. OneStreamEach'
    <2>1. \A o \in Client : Streamed(o)' => o = c \/ Streamed(o)
      BY <1>3 DEF Streamed
    <2>2. \A t \in Client : peer'[t] \notin Range(streamBacklog')
      BY <1>2, <1>3 DEF SetupInv, OneStreamEach, Streamed
    <2>3. cState'[c] \notin Early /\ (c \in streamUp' \/ cState'[c] \in Over)
      BY <1>1 DEF Early, Over
    <2> QED
      BY <1>1, <1>3, <2>1, <2>2, <2>3 DEF SetupInv, OneStreamEach
  <1>7. FormatsAnnounced'
    BY <1>1, <1>2 DEF SetupInv, FormatsAnnounced, Over
  <1>8. PortHasItsSession'
    BY <1>1 DEF SetupInv, PortHasItsSession, Over
  <1> QED
    BY <1>4, <1>5, <1>6, <1>7, <1>8 DEF SetupInv

\* A client that does not connect goes on or gives up, and closes its end of
\* a connection only when that was answered or when it gives up.
LEMMA ClientMoveStep ==
    ASSUME SetupInv, NEW c \in Client, ServerSame,
           \/ SendCode(c) \/ AskSync(c) \/ ReadSync(c) \/ SyncFails(c)
           \/ ReadFormat(c) \/ StreamFails(c) \/ SendPort(c)
           \/ StartPlayback(c) \/ Disconnect(c) \/ Vanish(c)
    PROVE  SetupInv'
  <1> USE DEF ServerSame, threadVars
  <1>1. /\ cState \in [Client -> CStates]
        /\ coded \subseteq Client /\ asked \subseteq Client
        /\ ported \subseteq Client /\ syncUp \subseteq Client
        /\ streamUp \subseteq Client
    BY DEF SetupInv, TypeOK
  <1>2. PICK to \in CStates \ {"idle", "control"} :
            cState' = [cState EXCEPT ![c] = to]
    BY DEF SendCode, AskSync, ReadSync, SyncFails, ReadFormat, StreamFails,
           SendPort, StartPlayback, Disconnect, Vanish, Goto, CStates
  <1>3. /\ UNCHANGED <<controlBacklog, syncBacklog, streamBacklog>>
        /\ syncUp' \subseteq syncUp /\ syncUp \subseteq syncUp' \union {c}
        /\ streamUp' \subseteq streamUp
        /\ streamUp \subseteq streamUp' \union {c}
        /\ coded' \subseteq Client /\ asked' \subseteq Client
        /\ ported' \subseteq Client
    BY <1>1 DEF SendCode, AskSync, ReadSync, SyncFails, ReadFormat,
           StreamFails, SendPort, StartPlayback, Disconnect, Vanish,
           writtenVars, socketVars
  <1>4. cState[c] \in Over => to \in Over
    BY <1>1, <1>2 DEF SendCode, AskSync, ReadSync, SyncFails, ReadFormat,
           StreamFails, SendPort, StartPlayback, Disconnect, Vanish, Goto,
           Over
  <1>5. /\ to = "coded" => cState[c] = "control"
        /\ to \in Early => cState[c] \in Early
        /\ to \in {"formatted", "ported", "playing"} => c \in announced
    BY <1>1, <1>2 DEF SetupInv, FormatsAnnounced, SendCode, AskSync, ReadSync,
           SyncFails, ReadFormat, StreamFails, SendPort, StartPlayback,
           Disconnect, Vanish, Goto, Early
  <1>6. /\ c \in syncUp' \/ to \in Over \/ c \in replied \/ c \notin syncUp
        /\ c \in streamUp' \/ to \in Over \/ c \notin streamUp
    BY <1>1, <1>2 DEF SendCode, AskSync, ReadSync, SyncFails, ReadFormat,
           StreamFails, SendPort, StartPlayback, Disconnect, Vanish, Goto,
           Over, socketVars
  <1>7. TypeOK'
    BY <1>1, <1>2, <1>3 DEF SetupInv, TypeOK
  <1>8. OneCommandEach'
    BY <1>1, <1>2, <1>3 DEF SetupInv, OneCommandEach, Waiting
  <1>9. SyncsAnswered'
    BY <1>1, <1>2, <1>3, <1>4, <1>5, <1>6
       DEF SetupInv, SyncsAnswered, Syncing
  <1>10. OneStreamEach'
    BY <1>1, <1>2, <1>3, <1>4, <1>5, <1>6
       DEF SetupInv, OneStreamEach, Streamed
  <1>11. FormatsAnnounced'
    BY <1>1, <1>2, <1>4, <1>5 DEF SetupInv, FormatsAnnounced
  <1>12. PortHasItsSession'
    BY <1>1, <1>2, <1>4 DEF SetupInv, PortHasItsSession
  <1> QED
    BY <1>7, <1>8, <1>9, <1>10, <1>11, <1>12 DEF SetupInv

LEMMA SetupStep == SetupInv /\ [Next]_vars => SetupInv'
  <1> SUFFICES ASSUME SetupInv, [Next]_vars PROVE SetupInv'
    OBVIOUS
  <1>1. CASE Main
    BY <1>1, MainAcceptStep, MainMoveStep, MainAcceptSyncStep, MainSpawnStep
       DEF Main
  <1>2. ASSUME NEW t \in Client, SessionRuns(t) \/ SessionEnds(t)
        PROVE  SetupInv'
    BY <1>2, BindStep, AcceptStep, SessionMoveStep
       DEF SessionRuns, SessionEnds
  <1>3. ASSUME NEW c \in Client, Proceeds(c) \/ Decides(c) PROVE SetupInv'
    BY <1>3, ConnectControlStep, ConnectSyncStep, ConnectStreamStep,
       ClientMoveStep DEF Proceeds, Decides, ServerSame
  <1>4. CASE Throws
    BY <1>4, TerminateStep DEF Throws
  <1>5. CASE UNCHANGED vars
    <2> USE <1>5 DEF vars, mainVars, syncVars, threadVars, streamVars,
                     writtenVars, socketVars
    <2>1. TypeOK'
      BY DEF SetupInv, TypeOK
    <2>2. OneCommandEach' /\ SyncsAnswered' /\ OneStreamEach'
      BY DEF SetupInv, OneCommandEach, Waiting, SyncsAnswered, Syncing,
             OneStreamEach, Streamed
    <2>3. FormatsAnnounced' /\ PortHasItsSession'
      BY DEF SetupInv, FormatsAnnounced, PortHasItsSession
    <2> QED
      BY <2>1, <2>2, <2>3 DEF SetupInv
  <1> QED
    BY <1>1, <1>2, <1>3, <1>4, <1>5 DEF Next

-----------------------------------------------------------------------------
(* The sockets                                                             *)

\* Whose an object is, while it is in use.
Owned(o) ==
    \/ o = Master
    \/ o = Command /\ mState # "accept"
    \/ o = Sync /\ mState \in {"acceptSync", "sync"}
    \/ o = Conversation /\ mState = "sync"
    \/ \E t \in Client \ destructed :
          \/ /\ o = Listener(t)
             /\ thread[t] \in {"accept", "announce", "port", "stream",
                               "ending"}
          \/ /\ o = Manager(t)
             /\ thread[t] \in {"announce", "port", "stream", "ending", "done"}
          \/ o = Udp(t) /\ thread[t] \in {"stream", "ending", "done"}

WinsockCounts == IsFiniteSet(started) /\ winsock = Cardinality(started)

SocketsInv ==
    alive => /\ WinsockCounts
             /\ Master \in started
             /\ \A o \in open \union started : Owned(o)
             /\ \A o \in started :
                   o[2] \in {"master", "sync", "listener", "udp"}
             /\ \A t \in destructed : t \in Client /\ thread[t] = "done"

Inv == SetupInv /\ SocketsInv

LEMMA StartCounts ==
    ASSUME WinsockCounts, NEW object, object \notin started,
           StartsAndOpens(object)
    PROVE  WinsockCounts'
  <1>1. /\ IsFiniteSet(started \union {object})
        /\ Cardinality(started \union {object}) = Cardinality(started) + 1
    BY FS_AddElement DEF WinsockCounts
  <1> QED
    BY <1>1 DEF WinsockCounts, StartsAndOpens

LEMMA ReleaseCounts ==
    ASSUME WinsockCounts, NEW calls, Release(calls)
    PROVE  WinsockCounts'
  <1> DEFINE users == UsersOf(calls)
  <1>1. /\ IsFiniteSet(started \ users)
        /\ Cardinality(started \ users) =
               Cardinality(started) - Cardinality(started \intersect users)
    BY FS_Difference DEF WinsockCounts
  <1> QED
    BY <1>1 DEF WinsockCounts, Release

\* What the calls of the steps close and clean up.
\* The images of the small sets of calls the steps release.
LEMMA Images ==
    /\ \A a, b : UNION {call.sockets : call \in {a, b}} =
                     a.sockets \union b.sockets
    /\ \A a, b : UNION {call.users : call \in {a, b}} =
                     a.users \union b.users
    /\ \A a, b, c : UNION {call.sockets : call \in {a, b, c}} =
                        a.sockets \union b.sockets \union c.sockets
    /\ \A a, b, c : UNION {call.users : call \in {a, b, c}} =
                        a.users \union b.users \union c.users
OBVIOUS

LEMMA CallsRelease ==
    ASSUME NEW acceptor, NEW connection, NEW client
    PROVE  /\ SocketsOf({Stop(acceptor), Close(connection)}) =
                  {acceptor, connection}
           /\ UsersOf({Stop(acceptor), Close(connection)}) = {acceptor}
           /\ SocketsOf({Stop(acceptor), CloseSocket(client)}) =
                  {acceptor, client}
           /\ UsersOf({Stop(acceptor), CloseSocket(client)}) = {acceptor}
  <1> USE DEF Stop, Close, CloseSocket
  <1>1. SocketsOf({Stop(acceptor), Close(connection)}) = {acceptor, connection}
    BY Images DEF SocketsOf
  <1>2. SocketsOf({Stop(acceptor), CloseSocket(client)}) = {acceptor, client}
    BY Images DEF SocketsOf
  <1>3. /\ UsersOf({Stop(acceptor), Close(connection)}) = {acceptor}
        /\ UsersOf({Stop(acceptor), CloseSocket(client)}) = {acceptor}
    BY Images DEF UsersOf
  <1> QED
    BY <1>1, <1>2, <1>3

LEMMA DestructorsRelease ==
    ASSUME NEW acceptor, NEW connection, NEW client
    PROVE  /\ SocketsOf({Stop(acceptor), DestructUdp(client),
                         Close(connection)}) = {acceptor, client, connection}
           /\ UsersOf({Stop(acceptor), DestructUdp(client),
                       Close(connection)}) = {acceptor, client}
  <1> USE DEF Stop, Close, DestructUdp
  <1>1. SocketsOf({Stop(acceptor), DestructUdp(client), Close(connection)}) =
            {acceptor, client, connection}
    BY Images DEF SocketsOf
  <1>2. UsersOf({Stop(acceptor), DestructUdp(client), Close(connection)}) =
            {acceptor, client}
    BY Images DEF UsersOf
  <1> QED
    BY <1>1, <1>2

LEMMA SocketsInitially == SocketsInit => Inv
  <1> SUFFICES ASSUME SocketsInit PROVE Inv
    OBVIOUS
  <1>1. SetupInv
    BY SetupInit DEF SocketsInit
  <1>2. IsFiniteSet({Master}) /\ Cardinality({Master}) = 1
    BY FS_Singleton
  <1>3. SocketsInv
    BY <1>2 DEF SocketsInit, SocketsInv, WinsockCounts, Master, Owned
  <1> QED
    BY <1>1, <1>3 DEF Inv

\* Every step is one of SessionSetup, or leaves its variables alone.
LEMMA StepOfSetup == [SocketsNext]_socketsVars => [Next]_vars
BY DEF SocketsNext, HoldsMain, HoldsThrown, HoldsSession, HoldsDestroy,
       Destruct, HoldsClient, Next, socketsVars, vars

LEMMA MainSockets == Inv /\ HoldsMain => SocketsInv'
  <1> SUFFICES ASSUME Inv, HoldsMain PROVE SocketsInv'
    OBVIOUS
  <1> USE DEF Master, Command, Sync, Conversation, Listener, Manager, Udp
  <1>0. SUFFICES ASSUME alive, alive' PROVE SocketsInv'
    BY DEF HoldsMain, Main, SocketsInv
  <1>1. /\ WinsockCounts /\ Master \in started
        /\ \A o \in open \union started : Owned(o)
        /\ \A o \in started : o[2] \in {"master", "sync", "listener", "udp"}
        /\ \A t \in destructed : t \in Client /\ thread[t] = "done"
        /\ None \notin Client
    BY <1>0, SetupAssumption DEF Inv, SocketsInv
  <1>2. \/ mClient \in Client /\ thread[mClient] = "none"
        \/ mState = "accept"
    BY DEF Inv, SetupInv, TypeOK, OneCommandEach, Waiting
  <1>3. /\ destructed' = destructed
        /\ \/ thread' = thread
           \/ /\ mState = "spawn"
              /\ thread' = [thread EXCEPT ![mClient] = "start"]
        /\ thread \in [Client -> TStates]
    BY <1>0 DEF HoldsMain, Main, MainAccept, MainCommand, MainBind,
       MainAcceptSync, MainSync, MainSpawn, Terminate, mainVars, threadVars,
       Inv, SetupInv, TypeOK
  <1>4. \A t \in destructed' : t \in Client /\ thread'[t] = "done"
    BY <1>1, <1>2, <1>3
  <1>5. CASE \/ mState = "accept" /\ Opens(Command) /\ mState' = "command"
             \/ mState = "command" /\ Keeps /\ mState' = "bind"
             \/ /\ mState = "acceptSync" /\ Opens(Conversation)
                /\ mState' = "sync"
    BY <1>1, <1>3, <1>4, <1>5
       DEF SocketsInv, WinsockCounts, Opens, Keeps, Owned
  <1>6. CASE mState = "bind" /\ StartListening(Sync) /\ mState' = "acceptSync"
    <2>1. Sync \notin started
      BY <1>1, <1>6 DEF Owned
    <2>2. WinsockCounts'
      BY <1>1, <1>6, <2>1, StartCounts DEF StartListening
    <2> QED
      BY <1>1, <1>3, <1>4, <1>6, <2>2
         DEF SocketsInv, StartListening, StartsAndOpens, Owned
  <1>7. CASE /\ mState = "sync" /\ Release({Stop(Sync), Close(Conversation)})
             /\ mState' = "spawn"
    <2>1. WinsockCounts'
      BY <1>1, <1>7, ReleaseCounts
    <2>2. open' = open \ {Sync, Conversation} /\ started' = started \ {Sync}
      BY <1>7, CallsRelease DEF Release
    <2> QED
      BY <1>1, <1>3, <1>4, <1>7, <2>1, <2>2 DEF SocketsInv, Owned
  <1>8. CASE /\ mState = "spawn" /\ Release({Stop(Sync), Close(Command)})
             /\ mState' = "accept"
    <2>1. WinsockCounts'
      BY <1>1, <1>8, ReleaseCounts
    <2>2. open' = open \ {Sync, Command} /\ started' = started \ {Sync}
      BY <1>8, CallsRelease DEF Release
    <2> QED
      BY <1>1, <1>2, <1>3, <1>4, <1>8, <2>1, <2>2 DEF SocketsInv, Owned
  <1> QED
    BY <1>0, <1>5, <1>6, <1>7, <1>8
       DEF HoldsMain, Main, MainAccept, MainCommand, MainBind, MainAcceptSync,
           MainSync, MainSpawn, Terminate

LEMMA SessionSockets ==
    ASSUME Inv, NEW s \in Client, HoldsSession(s) \/ HoldsDestroy(s)
    PROVE  SocketsInv'
  <1> USE DEF Master, Command, Sync, Conversation, Listener, Manager, Udp
  <1>0. SUFFICES ASSUME alive, alive' PROVE SocketsInv'
    BY DEF HoldsSession, HoldsDestroy, SessionRuns, SessionEnds, SocketsInv
  <1>1. /\ WinsockCounts /\ Master \in started
        /\ \A o \in open \union started : Owned(o)
        /\ \A o \in started : o[2] \in {"master", "sync", "listener", "udp"}
        /\ \A t \in destructed : t \in Client /\ thread[t] = "done"
        /\ None \notin Client
    BY <1>0, SetupAssumption DEF Inv, SocketsInv
  <1>2. /\ thread \in [Client -> TStates]
        /\ UNCHANGED <<destructed, mState>>
    BY <1>0 DEF Inv, SetupInv, TypeOK, HoldsSession, HoldsDestroy,
       SessionRuns, SessionEnds, Bind, Accept, Announce, ReadPort, SeeClose,
       Destroy, Terminate, mainVars
  <1>3. CASE /\ thread[s] = "start" /\ StartListening(Listener(s))
             /\ thread' = [thread EXCEPT ![s] = "accept"]
    <2>1. Listener(s) \notin started /\ s \notin destructed
      BY <1>1, <1>3 DEF Owned
    <2>2. WinsockCounts'
      BY <1>1, <1>3, <2>1, StartCounts DEF StartListening
    <2> QED
      BY <1>1, <1>2, <1>3, <2>1, <2>2
         DEF SocketsInv, StartListening, StartsAndOpens, Owned
  <1>4. CASE /\ thread[s] = "accept" /\ Opens(Manager(s))
             /\ thread' = [thread EXCEPT ![s] = "announce"]
    BY <1>1, <1>2, <1>4 DEF SocketsInv, WinsockCounts, Opens, Owned
  <1>5. CASE /\ thread[s] = "port" /\ OpenUdp(Udp(s))
             /\ thread' = [thread EXCEPT ![s] = "stream"]
    <2>1. Udp(s) \notin started /\ s \notin destructed
      BY <1>1, <1>5 DEF Owned
    <2>2. WinsockCounts'
      BY <1>1, <1>5, <2>1, StartCounts DEF OpenUdp
    <2> QED
      BY <1>1, <1>2, <1>5, <2>1, <2>2
         DEF SocketsInv, OpenUdp, StartsAndOpens, Owned
  <1>6. CASE \/ /\ thread[s] = "announce" /\ Keeps
                /\ thread' = [thread EXCEPT ![s] = "port"]
             \/ /\ thread[s] = "stream" /\ Keeps
                /\ thread' = [thread EXCEPT ![s] = "ending"]
    BY <1>1, <1>2, <1>6 DEF SocketsInv, WinsockCounts, Keeps, Owned
  <1>7. CASE /\ thread[s] = "ending"
             /\ Release({Stop(Listener(s)), CloseSocket(Udp(s))})
             /\ thread' = [thread EXCEPT ![s] = "done"]
    <2>1. WinsockCounts'
      BY <1>1, <1>7, ReleaseCounts
    <2>2. /\ open' = open \ {Listener(s), Udp(s)}
          /\ started' = started \ {Listener(s)}
      BY <1>7, CallsRelease DEF Release
    <2> QED
      BY <1>1, <1>2, <1>7, <2>1, <2>2 DEF SocketsInv, Owned
  <1> QED
    BY <1>0, <1>3, <1>4, <1>5, <1>6, <1>7
       DEF HoldsSession, HoldsDestroy, SessionRuns, SessionEnds, Bind, Accept,
           Announce, ReadPort, SeeClose, Destroy, Terminate

LEMMA DestructSockets ==
    ASSUME Inv, NEW s \in Client, Destruct(s) PROVE SocketsInv'
  <1> USE DEF Master, Command, Sync, Conversation, Listener, Manager, Udp
  <1>1. /\ WinsockCounts /\ Master \in started
        /\ \A o \in open \union started : Owned(o)
        /\ \A o \in started : o[2] \in {"master", "sync", "listener", "udp"}
        /\ \A t \in destructed : t \in Client /\ thread[t] = "done"
        /\ None \notin Client
    BY SetupAssumption DEF Inv, SocketsInv, Destruct
  <1>2. WinsockCounts'
    BY <1>1, ReleaseCounts DEF Destruct
  <1>3. /\ open' = open \ {Listener(s), Udp(s), Manager(s)}
        /\ started' = started \ {Listener(s), Udp(s)}
        /\ destructed' = destructed \union {s} /\ thread[s] = "done"
        /\ UNCHANGED <<alive, thread, mState>>
    <2>1. /\ Release({Stop(Listener(s)), DestructUdp(Udp(s)),
                      Close(Manager(s))})
          /\ destructed' = destructed \union {s} /\ thread[s] = "done"
          /\ UNCHANGED <<alive, thread, mState>>
      BY DEF Destruct, vars, mainVars, threadVars
    <2>2. /\ SocketsOf({Stop(Listener(s)), DestructUdp(Udp(s)),
                         Close(Manager(s))}) =
                 {Listener(s), Udp(s), Manager(s)}
          /\ UsersOf({Stop(Listener(s)), DestructUdp(Udp(s)),
                      Close(Manager(s))}) = {Listener(s), Udp(s)}
      BY DestructorsRelease
    <2> QED
      BY <2>1, <2>2 DEF Release
  <1> QED
    BY <1>1, <1>2, <1>3 DEF SocketsInv, Owned

\* Nothing of this changes with the steps of clients.
LEMMA SameSockets ==
    ASSUME Inv, UNCHANGED <<winsock, started, open, destructed, alive, mState,
                            thread>>
    PROVE  SocketsInv'
BY DEF Inv, SocketsInv, WinsockCounts, Owned, Master, Command, Sync,
       Conversation, Listener, Manager, Udp

LEMMA SocketsStep == Inv /\ [SocketsNext]_socketsVars => Inv'
  <1> SUFFICES ASSUME Inv, [SocketsNext]_socketsVars PROVE Inv'
    OBVIOUS
  <1>1. SetupInv'
    BY StepOfSetup, SetupStep DEF Inv
  <1>2. ASSUME NEW c \in Client, HoldsClient(c) PROVE SocketsInv'
    BY <1>2, SameSockets
       DEF HoldsClient, Proceeds, Decides, heldVars, threadVars
  <1>3. ASSUME UNCHANGED socketsVars PROVE SocketsInv'
    BY <1>3, SameSockets
       DEF socketsVars, heldVars, vars, mainVars, threadVars
  <1>4. ASSUME NEW c \in Client,
               HoldsSession(c) \/ HoldsDestroy(c) \/ Destruct(c)
        PROVE  SocketsInv'
    BY <1>4, SessionSockets, DestructSockets
  <1>5. ASSUME HoldsMain PROVE SocketsInv'
    BY <1>5, MainSockets
  <1>6. ASSUME HoldsThrown PROVE SocketsInv'
    BY <1>6 DEF HoldsThrown, Throws, Terminate, SocketsInv
  <1>7. SocketsInv'
    <2>1. ASSUME SocketsNext PROVE SocketsInv'
      BY <1>2, <1>4, <1>5, <1>6, <2>1 DEF SocketsNext
    <2> QED
      BY <1>3, <2>1
  <1> QED
    BY <1>1, <1>7 DEF Inv

LEMMA SetupInvariant == Spec => []SetupInv
BY SetupInit, SetupStep, PTL DEF Spec

LEMMA SocketsInvariant == SocketsSpec => []Inv
BY SocketsInitially, SocketsStep, PTL DEF SocketsSpec

-----------------------------------------------------------------------------
(* The theorems                                                            *)

\* Every variable of the setup keeps its type (app.cpp, StreamingService and
\* StreamReceiverCoordinator.startStreaming).
THEOREM TypeCorrect == Spec => []TypeOK
  <1>1. SetupInv => TypeOK
    BY DEF SetupInv
  <1> QED
    BY <1>1, SetupInvariant, PTL

\* Port 20000 belongs to exactly the session thread between the constructor of
\* its StreamingService and destroy().
THEOREM PortIsOfItsSession == Spec => []PortHasItsSession
  <1>1. SetupInv => PortHasItsSession
    BY DEF SetupInv
  <1> QED
    BY <1>1, SetupInvariant, PTL

\* A client that plays is streamed to by exactly one session thread, although
\* the server serves whoever connects first.
THEOREM PlayingClientIsServed == Spec => []PlayingIsServed
  <1>1. ASSUME SetupInv PROVE PlayingIsServed
    <2>1. ASSUME alive, NEW c \in Client, cState[c] = "playing"
          PROVE  \E t \in Client :
                    /\ peer[t] = c /\ thread[t] \in {"port", "stream"}
                    /\ \A u \in Client : peer[u] = c => u = t
      <3>1. PICK t \in Client : peer[t] = c /\ thread[t] \in {"port", "stream"}
        BY <1>1, <2>1 DEF SetupInv, FormatsAnnounced, Over
      <3>2. \A u \in Client : peer[u] = c => u = t
        BY <1>1, <2>1, <3>1, SetupAssumption DEF SetupInv, OneStreamEach
      <3> QED
        BY <3>1, <3>2
    <2> QED
      BY <2>1 DEF PlayingIsServed
  <1> QED
    BY <1>1, SetupInvariant, PTL

\* Winsock stays started as long as the process has an open socket.
THEOREM WinsockStaysUp == SocketsSpec => []WinsockUp
  <1>1. ASSUME Inv PROVE WinsockUp
    <2>1. SUFFICES ASSUME alive PROVE winsock > 0
      BY DEF WinsockUp
    <2>2. IsFiniteSet(started) /\ started # {} /\ winsock = Cardinality(started)
      BY <1>1, <2>1 DEF Inv, SocketsInv, WinsockCounts
    <2> QED
      BY <2>2, FS_EmptySet, FS_CardinalityType
  <1> QED
    BY <1>1, SocketsInvariant, PTL

\* What main() opened for a client is closed when it accepts the next one, and
\* what a session opened when its thread has returned; each start of Winsock
\* is matched by one cleanup.
THEOREM NothingStaysOpen == SocketsSpec => []NothingLeftOpen
  <1> USE DEF Master, Command, Sync, Conversation, Listener, Manager, Udp
  <1>1. ASSUME Inv, alive
        PROVE  /\ winsock = Cardinality(started)
               /\ mState = "accept" =>
                     {o \in open \union started : o[1] = None} = {Master}
               /\ \A t \in destructed :
                     {o \in open \union started : o[1] = t} = {}
    <2>1. /\ winsock = Cardinality(started) /\ Master \in started
          /\ \A o \in open \union started : Owned(o)
          /\ None \notin destructed
      BY <1>1, SetupAssumption DEF Inv, SocketsInv, WinsockCounts
    <2>2. ASSUME mState = "accept", NEW o \in open \union started, o[1] = None
          PROVE  o = Master
      BY <2>1, <2>2, SetupAssumption DEF Owned
    <2>3. ASSUME NEW t \in destructed, NEW o \in open \union started
          PROVE  o[1] # t
      BY <2>1, <2>3 DEF Owned
    <2>4. mState = "accept" =>
              {o \in open \union started : o[1] = None} = {Master}
      BY <2>1, <2>2
    <2>5. \A t \in destructed : {o \in open \union started : o[1] = t} = {}
      BY <2>3
    <2> QED
      BY <2>1, <2>4, <2>5
  <1>2. Inv => NothingLeftOpen
    BY <1>1 DEF NothingLeftOpen
  <1> QED
    BY <1>2, SocketsInvariant, PTL

\* The detailed specification adds sockets to SessionSetup and takes nothing
\* away: each of its behaviours is one of SessionSetup.
THEOREM SocketsImplementSetup == SocketsSpec => Spec
  <1>1. SocketsInit => Init
    BY DEF SocketsInit
  <1> QED
    BY <1>1, StepOfSetup, PTL DEF SocketsSpec, Spec
=============================================================================
