------------------------- MODULE ClientSessionProofs -------------------------
(***************************************************************************)
(* For any number of view models and starts, however the user taps and     *)
(* whatever fails: a second start takes the place of the first; a start    *)
(* command finds a coordinator that was not released unless a screen left  *)
(* its connection behind; and as long as no two jobs of an instance run at *)
(* once, the screen shows the session, and a session that was left is      *)
(* closed and its AudioTrack not released under a player.                  *)
(***************************************************************************)
EXTENDS ClientSession, TLAPS

(* What the main thread has counted, created and bound.                    *)
SystemOK ==
    /\ viewModel \in ViewModel
    /\ binder \in {None, service} /\ service \in {None, instances}
    /\ toConnect \subseteq bindings /\ bindings \subseteq ViewModel
    /\ instances \in 0 .. MaxJobs /\ jobs \in Nat /\ commands \in Nat
    /\ launching \in Instance \union {None} /\ launching <= instances
    /\ jobs + commands <= MaxJobs
    /\ launching # None => jobs + commands < MaxJobs
    /\ commands > 0 => service # None
    /\ binder # None => viewModel \in bindings \ toConnect
    /\ cleared => binder = None /\ viewModel < MaxViewModels
    /\ service = None <=> bindings = {}

(* Which instance a job, a coordinator's job and a field belong to.        *)
Owned ==
    /\ owner \in [Job -> Instance \union {None}]
    /\ streamingJob \in [Instance -> Job \union {None}]
    /\ field \in [Instance -> [Fields -> Job \union {None}]]
    /\ \A j \in Job : j <= jobs => owner[j] \in Instance /\ owner[j] <= instances
    /\ \A i \in Instance : streamingJob[i] # None =>
           streamingJob[i] <= jobs /\ owner[streamingJob[i]] = i
    /\ \A i \in Instance, f \in Fields : field[i][f] # None =>
           field[i][f] <= jobs /\ owner[field[i][f]] = i

(* A job that was not launched has no coroutine.                           *)
Launched ==
    /\ body \in [Job -> BodySteps] /\ receiver \in [Job -> ReceiverSteps]
    /\ player \in [Job -> PlayerSteps]
    /\ \A j \in Job : j <= jobs => body[j] # "none"
    /\ \A j \in Job : j > jobs =>
           body[j] = "none" /\ receiver[j] = "none" /\ player[j] = "none"

(* Only the job a coordinator launched last is not cancelled.              *)
LastIsLive ==
    \A j \in Job : j <= jobs => cancelled[j] \/ j = streamingJob[owner[j]]

SessionInv == SystemOK /\ Owned /\ Launched /\ LastIsLive

-----------------------------------------------------------------------------
(* The parts of a step                                                     *)

LEMMA Numbers ==
    /\ MaxJobs \in Nat /\ MaxJobs >= 1 /\ None = 0
    /\ \A j : j \in Job <=> j \in Nat /\ 1 <= j /\ j <= MaxJobs
    /\ \A i : i \in Instance <=> i \in Nat /\ 1 <= i /\ i <= MaxJobs
  BY ClientAssumption DEF Job, Instance, None

LEMMA Steps ==
    ASSUME [Next]_vars
    PROVE  \/ UNCHANGED vars
           \/ User \/ Callbacks \/ ServerDies
           \/ \E j \in Job : Body(j) \/ Receiver(j) \/ Player(j)
           \/ \E i \in Instance : Releaser(i)
  BY DEF Next

LEMMA UserSteps ==
    ASSUME User
    PROVE  /\ launching = None
           /\ UNCHANGED <<launching, childVars, clientVars, serverUp, crashed>>
           /\ TapStart \/ TapStop \/ Clear \/ Reopen
  BY DEF User

LEMMA CallbackSteps ==
    ASSUME Callbacks
    PROVE  /\ UNCHANGED <<childVars, clientVars, serverUp, crashed>>
           /\ \/ Launch
              \/ launching = None /\ StartCommand
              \/ /\ launching = None /\ UNCHANGED launching
                 /\ \/ \E v \in ViewModel : ServiceConnected(v)
                    \/ \E i \in Instance : Deliver(i)
  BY DEF Callbacks

(* Besides the main thread, only Launch changes the main thread's state.   *)
LEMMA Coroutines ==
    ASSUME \/ UNCHANGED vars \/ ServerDies
           \/ \E j \in Job : Body(j) \/ Receiver(j) \/ Player(j)
           \/ \E i \in Instance : Releaser(i)
    PROVE  UNCHANGED <<viewModel, cleared, connection, binder, seen, bindings,
                       toConnect, service, instances, started, commands,
                       launching, jobs, owner, streamingJob>>
  BY DEF vars, mainVars, screenVars, systemVars, ServerDies, Body, Receiver,
         Player, ChildRest, Releaser, coordVars, jobVars

-----------------------------------------------------------------------------
(* The invariant                                                           *)

LEMMA InitSystem == Init => SystemOK
  <1> SUFFICES ASSUME Init PROVE SystemOK
    OBVIOUS
  <1>1. 1 \in ViewModel
    BY ClientAssumption DEF ViewModel
  <1> QED
    BY <1>1, Numbers DEF Init, SystemOK

LEMMA InitRest == Init => Owned /\ Launched /\ LastIsLive
  <1> SUFFICES ASSUME Init PROVE Owned /\ Launched /\ LastIsLive
    OBVIOUS
  <1>1. Owned
    BY Numbers DEF Init, Owned
  <1>2. Launched
    BY Numbers DEF Init, Launched, BodySteps, ReceiverSteps, PlayerSteps
  <1>3. LastIsLive
    BY Numbers DEF Init, LastIsLive
  <1> QED
    BY <1>1, <1>2, <1>3

LEMMA SystemStep ==
    ASSUME SystemOK, [Next]_vars
    PROVE  SystemOK' /\ jobs' >= jobs /\ instances' >= instances
  <1> USE Numbers
  <1>1. CASE User
    <2> USE <1>1, UserSteps
    <2>1. CASE TapStart
      BY <2>1 DEF TapStart, SystemOK, jobVars, screenVars
    <2>2. CASE TapStop
      BY <2>2 DEF TapStop, StopStreaming, Unbind, SystemOK, jobVars
    <2>3. CASE Clear
      BY <2>3 DEF Clear, StopStreaming, Unbind, SystemOK, jobVars, systemVars
    <2>4. CASE Reopen
      BY <2>4, ClientAssumption
         DEF Reopen, SystemOK, ViewModel, jobVars, systemVars
    <2> QED
      BY <2>1, <2>2, <2>3, <2>4
  <1>2. CASE Callbacks
    <2> USE <1>2, CallbackSteps
    <2>1. CASE Launch
      BY <2>1 DEF Launch, SystemOK, screenVars, systemVars
    <2>2. CASE launching = None /\ StartCommand
      BY <2>2 DEF StartCommand, SystemOK, screenVars, jobVars
    <2>3. ASSUME NEW v \in ViewModel, ServiceConnected(v),
                 launching = None, UNCHANGED launching
          PROVE  SystemOK' /\ jobs' >= jobs /\ instances' >= instances
      BY <2>3 DEF ServiceConnected, SystemOK, jobVars
    <2>4. ASSUME NEW i \in Instance, Deliver(i),
                 launching = None, UNCHANGED launching
          PROVE  SystemOK' /\ jobs' >= jobs /\ instances' >= instances
      BY <2>4 DEF Deliver, SystemOK, jobVars, systemVars
    <2> QED
      BY <2>1, <2>2, <2>3, <2>4
  <1>3. ASSUME ~User, ~Callbacks
        PROVE  SystemOK' /\ jobs' >= jobs /\ instances' >= instances
    BY <1>3, Steps, Coroutines DEF SystemOK
  <1> QED
    BY <1>1, <1>2, <1>3

(* One step of a job's code: where it goes, and what it may do to the      *)
(* state, the fields and the children.                                     *)
BodyGoes(j) ==
    /\ body[j] \notin {"none", "ended"}
    /\ \E s \in BodySteps \ {"none", "new"} : body' = [body EXCEPT ![j] = s]
BodyFields(j) ==
    \/ UNCHANGED field
    \/ \E f \in Fields, k \in {None, j, field[owner[j]]["manager"]} :
          field' = [field EXCEPT ![owner[j]][f] = k]
BodyChildren(j) ==
    \/ UNCHANGED <<receiver, player>>
    \/ /\ receiver' = [receiver EXCEPT ![j] = "check"]
       /\ player' = [player EXCEPT ![j] = "loop"]
BodyState(j) ==
    \/ UNCHANGED state
    \/ \E p \in {"Connecting", "Playback", "Error"} :
          state' = [state EXCEPT ![owner[j]] = p]

LEMMA BodyShape ==
    ASSUME NEW j \in Job, Body(j)
    PROVE  BodyGoes(j) /\ BodyFields(j) /\ BodyChildren(j) /\ BodyState(j)
  <1> USE DEF BodyGoes, BodyFields, BodyChildren, BodyState, BodySteps, Goto,
              SetState, Fail, SetField, FieldOf, childVars, clientVars, Fields
  <1>1. CASE Begin(j)
    BY <1>1 DEF Begin
  <1>2. CASE Control(j)
    BY <1>2 DEF Control
  <1>3. CASE EnterSync(j)
    BY <1>3 DEF EnterSync
  <1>4. CASE LeaveSync(j)
    BY <1>4 DEF LeaveSync
  <1>5. CASE Connect(j)
    BY <1>5 DEF Connect
  <1>6. CASE OpenStreams(j)
    BY <1>6 DEF OpenStreams
  <1>7. CASE OpenUdp(j)
    BY <1>7 DEF OpenUdp
  <1>8. CASE GetFormat(j)
    BY <1>8 DEF GetFormat
  <1>9. CASE SendPort(j)
    BY <1>9 DEF SendPort
  <1>10. CASE InitPlayer(j)
    BY <1>10 DEF InitPlayer
  <1>11. CASE BeginPlayback(j)
    BY <1>11 DEF BeginPlayback
  <1>12. CASE LaunchChildren(j)
    BY <1>12 DEF LaunchChildren
  <1> QED
    BY <1>1, <1>2, <1>3, <1>4, <1>5, <1>6, <1>7, <1>8, <1>9, <1>10, <1>11, <1>12 DEF Body

(* One step of a child.                                                    *)
ReceiverGoes(j) ==
    /\ receiver[j] \notin {"none", "ended"}
    /\ \E s \in ReceiverSteps \ {"none"} :
          receiver' = [receiver EXCEPT ![j] = s]
PlayerGoes(j) ==
    /\ player[j] \notin {"none", "ended"}
    /\ \E s \in PlayerSteps \ {"none"} : player' = [player EXCEPT ![j] = s]

LEMMA ChildShape ==
    ASSUME NEW j \in Job, Receiver(j) \/ Player(j)
    PROVE  /\ UNCHANGED <<ChildRest, clientVars>>
           /\ \/ ReceiverGoes(j) /\ UNCHANGED player
              \/ PlayerGoes(j) /\ UNCHANGED receiver
  <1> USE DEF ReceiverGoes, PlayerGoes, ReceiverSteps, PlayerSteps, Receives
  <1>1. CASE Receiver(j)
    BY <1>1 DEF Receiver, CheckSocket, EnterReceive, SocketClosed, Datagram,
                EnterDecoder, LeaveDecoder
  <1>2. CASE Player(j)
    BY <1>2 DEF Player, PlayerLoop, PlayerWritten,
                PlayerThrows
  <1> QED
    BY <1>1, <1>2

(* One step of release()'s coroutine: it gives up what its instance holds. *)
ReleaserGoes(i) ==
    /\ releaser[i] # "none"
    /\ \E s \in ReleaseSteps \ {"none"} :
          releaser' = [releaser EXCEPT ![i] = s]
ReleaserFields(i) ==
    \/ UNCHANGED field
    \/ \E f \in Fields : field' = [field EXCEPT ![i][f] = None]
    \/ field' = [field EXCEPT ![i]["manager"] = None, ![i]["udp"] = None]
ReleaserOpen(i) ==
    \/ UNCHANGED open
    \/ \E t \in {"tcp", "udp", "decoder", "track"}, f \in Fields :
          open' = open \ {<<t, field[i][f]>>}

LEMMA ReleaserShape ==
    ASSUME NEW i \in Instance, Releaser(i)
    PROVE  ReleaserGoes(i) /\ ReleaserFields(i) /\ ReleaserOpen(i)
  <1> USE DEF ReleaserGoes, ReleaserFields, ReleaserOpen, ReleaseSteps, Releases,
              Fields
  <1>1. CASE WriteStop(i)
    BY <1>1 DEF WriteStop
  <1>2. CASE FreeDecoder(i)
    BY <1>2 DEF FreeDecoder
  <1>3. CASE CloseTcp(i)
    BY <1>3 DEF CloseTcp
  <1>4. CASE CloseUdp(i)
    BY <1>4 DEF CloseUdp
  <1>5. CASE Forget(i)
    BY <1>5 DEF Forget
  <1>6. CASE CancelJob(i)
    BY <1>6 DEF CancelJob
  <1>7. CASE JoinJob(i)
    BY <1>7 DEF JoinJob
  <1>8. CASE StopPlayer(i)
    BY <1>8 DEF StopPlayer
  <1> QED
    BY <1>1, <1>2, <1>3, <1>4, <1>5, <1>6, <1>7, <1>8 DEF Releaser

LEMMA OwnedStep ==
    ASSUME SystemOK, Owned, Launched, SystemOK', [Next]_vars
    PROVE  Owned'
  <1> USE Numbers
  <1>1. CASE Launch /\ Callbacks
    <2>1. /\ launching \in Instance /\ jobs + 1 \in Job
          /\ owner' = [owner EXCEPT ![jobs + 1] = launching]
          /\ streamingJob' = [streamingJob EXCEPT ![launching] = jobs + 1]
          /\ jobs' = jobs + 1 /\ UNCHANGED <<field, instances>>
          /\ launching <= instances
      BY <1>1, CallbackSteps DEF Launch, SystemOK, clientVars, systemVars
    <2>2. /\ owner' \in [Job -> Instance \union {None}]
          /\ streamingJob' \in [Instance -> Job \union {None}]
          /\ field' \in [Instance -> [Fields -> Job \union {None}]]
      BY <2>1 DEF Owned
    <2>3. ASSUME NEW j \in Job, j <= jobs'
          PROVE  owner'[j] \in Instance /\ owner'[j] <= instances'
      BY <2>1, <2>3 DEF Owned, SystemOK
    <2>4. ASSUME NEW i \in Instance, streamingJob'[i] # None
          PROVE  /\ streamingJob'[i] <= jobs'
                 /\ owner'[streamingJob'[i]] = i
      BY <2>1, <2>4 DEF Owned, SystemOK
    <2>5. ASSUME NEW i \in Instance, NEW f \in Fields, field'[i][f] # None
          PROVE  field'[i][f] <= jobs' /\ owner'[field'[i][f]] = i
      BY <2>1, <2>5 DEF Owned, SystemOK
    <2> QED
      BY <2>2, <2>3, <2>4, <2>5 DEF Owned
  <1>2. CASE UNCHANGED <<jobs, owner, streamingJob, field>>
    <2>1. /\ instances \in Nat /\ instances' \in Nat
          /\ instances <= instances'
      <3>1. instances \in Nat
        BY DEF SystemOK
      <3>2. instances' \in Nat
        BY DEF SystemOK
      <3>3. instances <= instances'
        BY SystemStep
      <3> QED
        BY <3>1, <3>2, <3>3
    <2>2. \A j \in Job : j <= jobs' =>
              owner'[j] \in Instance /\ owner'[j] <= instances'
      <3> SUFFICES ASSUME NEW j \in Job, j <= jobs'
                   PROVE  owner'[j] \in Instance /\ owner'[j] <= instances'
        OBVIOUS
      <3>1. owner[j] \in Instance /\ owner[j] <= instances /\ owner'[j] = owner[j]
        BY <1>2 DEF Owned
      <3> QED
        BY <3>1, <2>1
    <2> QED
      BY <1>2, <2>2 DEF Owned
  <1>3. ASSUME NEW j \in Job, Body(j)
        PROVE  Owned'
    <2>1. /\ UNCHANGED <<jobs, owner, streamingJob, instances>>
          /\ j <= jobs
      BY <1>3, BodyShape
         DEF Body, mainVars, systemVars, BodyGoes, Launched, SystemOK
    <2>2. BodyFields(j) /\ owner[j] \in Instance
      BY <1>3, <2>1, BodyShape DEF Owned
    <2>3. /\ field' \in [Instance -> [Fields -> Job \union {None}]]
          /\ \A k \in Instance, f \in Fields :
                \/ field'[k][f] \in {None, field[k][f]}
                \/ /\ k = owner[j]
                   /\ field'[k][f] \in {j, field[k]["manager"]}
      <3>1. CASE UNCHANGED field
        BY <3>1 DEF Owned
      <3>2. ASSUME NEW g \in Fields,
                   NEW k \in {None, j, field[owner[j]]["manager"]},
                   field' = [field EXCEPT ![owner[j]][g] = k]
            PROVE  <2>3!:
        <4>1. k \in Job \union {None}
          BY <2>2 DEF Owned, Fields
        <4> QED
          BY <2>2, <3>2, <4>1 DEF Owned
      <3> QED
        BY <2>2, <3>1, <3>2 DEF BodyFields
    <2>4. "manager" \in Fields
      BY DEF Fields
    <2> QED
      BY <2>1, <2>3, <2>4 DEF Owned
  <1>4. ASSUME NEW i \in Instance, Releaser(i)
        PROVE  Owned'
    <2>1. UNCHANGED <<jobs, owner, streamingJob, instances>>
      BY <1>4 DEF Releaser, mainVars, systemVars
    <2>2. /\ field' \in [Instance -> [Fields -> Job \union {None}]]
          /\ \A k \in Instance, f \in Fields :
                field'[k][f] \in {None, field[k][f]}
      <3>1. ReleaserFields(i)
        BY <1>4, ReleaserShape
      <3>2. CASE UNCHANGED field
        BY <3>2 DEF Owned
      <3>3. ASSUME NEW g \in Fields, field' = [field EXCEPT ![i][g] = None]
            PROVE  <2>2!:
        BY <3>3 DEF Owned
      <3>4. CASE field' = [field EXCEPT ![i]["manager"] = None,
                                        ![i]["udp"] = None]
        BY <3>4 DEF Owned, Fields
      <3> QED
        BY <3>1, <3>2, <3>3, <3>4 DEF ReleaserFields
    <2> QED
      BY <2>1, <2>2 DEF Owned
  <1>5. ASSUME \/ UNCHANGED vars \/ ServerDies \/ User
               \/ Callbacks /\ ~Launch
               \/ \E j \in Job : Receiver(j) \/ Player(j)
        PROVE  UNCHANGED <<jobs, owner, streamingJob, field>>
    <2> USE <1>5 DEF jobVars, clientVars
    <2>1. CASE \/ UNCHANGED vars \/ ServerDies
               \/ \E j \in Job : Receiver(j) \/ Player(j)
      BY <2>1, Coroutines, ChildShape DEF vars, ServerDies
    <2>2. CASE User
      BY <2>2, UserSteps DEF TapStart, TapStop, Clear, Reopen, StopStreaming,
                             coordVars
    <2>3. CASE Callbacks /\ ~Launch
      BY <2>3, CallbackSteps
         DEF StartCommand, ServiceConnected, Deliver, coordVars
    <2> QED
      BY <2>1, <2>2, <2>3
  <1> QED
    BY <1>1, <1>2, <1>3, <1>4, <1>5, Steps

LEMMA LaunchedStep ==
    ASSUME SystemOK, Launched, [Next]_vars
    PROVE  Launched'
  <1> USE Numbers
  <1>1. CASE Launch /\ Callbacks
    <2>1. jobs + 1 \in Job /\ jobs' = jobs + 1
      BY <1>1 DEF Launch, SystemOK
    <2>2. UNCHANGED <<receiver, player>>
      BY <1>1, CallbackSteps DEF childVars
    <2>3. \E s \in {"new", "ended"} : body' = [body EXCEPT ![jobs + 1] = s]
      BY <1>1, Zenon DEF Launch
    <2> QED
      BY <2>1, <2>2, <2>3 DEF Launched, SystemOK, BodySteps
  <1>2. CASE UNCHANGED <<jobs, body, receiver, player>>
    BY <1>2 DEF Launched
  <1>3. ASSUME NEW j \in Job, Body(j)
        PROVE  Launched'
    <2>1. UNCHANGED jobs /\ j <= jobs
      BY <1>3, BodyShape DEF Body, BodyGoes, Launched, SystemOK
    <2> QED
      BY <1>3, <2>1, BodyShape
         DEF BodyGoes, BodyChildren, Launched, SystemOK, ReceiverSteps,
             PlayerSteps
  <1>4. ASSUME NEW j \in Job, Receiver(j) \/ Player(j)
        PROVE  Launched'
    BY <1>4, ChildShape
       DEF ChildRest, jobVars, ReceiverGoes, PlayerGoes, Launched, SystemOK
  <1>5. ASSUME \/ UNCHANGED vars \/ ServerDies \/ User
               \/ Callbacks /\ ~Launch
               \/ \E i \in Instance : Releaser(i)
        PROVE  UNCHANGED <<jobs, body, receiver, player>>
    <2> USE <1>5 DEF jobVars, childVars
    <2>1. CASE \/ UNCHANGED vars \/ ServerDies
               \/ \E i \in Instance : Releaser(i)
      BY <2>1 DEF vars, ServerDies, Releaser
    <2>2. CASE User
      BY <2>2, UserSteps DEF TapStart, TapStop, Clear, Reopen, StopStreaming
    <2>3. CASE Callbacks /\ ~Launch
      BY <2>3, CallbackSteps DEF StartCommand, ServiceConnected, Deliver
    <2> QED
      BY <2>1, <2>2, <2>3
  <1> QED
    BY <1>1, <1>2, <1>3, <1>4, <1>5, Steps

LEMMA LastStep ==
    ASSUME SystemOK, Owned, LastIsLive, [Next]_vars
    PROVE  LastIsLive'
  <1> USE Numbers
  <1>1. CASE Launch /\ Callbacks
    <2>1. /\ launching \in Instance /\ jobs + 1 \in Job /\ jobs' = jobs + 1
          /\ owner' = [owner EXCEPT ![jobs + 1] = launching]
          /\ streamingJob' = [streamingJob EXCEPT ![launching] = jobs + 1]
          /\ cancelled' = [j \in Job |->
                cancelled[j] \/ j = streamingJob[launching]]
      BY <1>1 DEF Launch, SystemOK
    <2> SUFFICES ASSUME NEW j \in Job, j <= jobs'
                 PROVE  cancelled'[j] \/ j = streamingJob'[owner'[j]]
      BY DEF LastIsLive
    <2>2. CASE j = jobs + 1
      BY <2>1, <2>2 DEF Owned
    <2>3. CASE j # jobs + 1
      <3>1. owner[j] \in Instance /\ j <= jobs
        <4>1. j \in Nat /\ jobs \in Nat /\ j <= jobs + 1
          BY <2>1 DEF SystemOK
        <4>2. j <= jobs
          BY <4>1, <2>3
        <4> QED
          BY <4>2 DEF Owned
      <3>2. cancelled[j] \/ j = streamingJob[owner[j]]
        BY <3>1 DEF LastIsLive
      <3>3. /\ owner'[j] = owner[j]
            /\ owner[j] # launching =>
                  streamingJob'[owner[j]] = streamingJob[owner[j]]
            /\ cancelled'[j] = (cancelled[j] \/ j = streamingJob[launching])
        BY <2>1, <2>3, <3>1 DEF Owned
      <3> QED
        BY <3>2, <3>3
    <2> QED
      BY <2>2, <2>3
  <1>2. ASSUME UNCHANGED <<jobs, owner, streamingJob>>,
               \A j \in Job : cancelled[j] => cancelled'[j]
        PROVE  LastIsLive'
    BY <1>2 DEF LastIsLive
  <1>3. ASSUME NEW i \in Instance, Releaser(i)
        PROVE  /\ UNCHANGED <<jobs, owner, streamingJob>>
               /\ \A j \in Job : cancelled[j] => cancelled'[j]
    BY <1>3 DEF Releaser, WriteStop, FreeDecoder, CloseTcp, CloseUdp, Forget,
                CancelJob, JoinJob, StopPlayer
  <1>4. ASSUME \/ UNCHANGED vars \/ ServerDies \/ User
               \/ Callbacks /\ ~Launch
               \/ \E j \in Job : Body(j) \/ Receiver(j) \/ Player(j)
        PROVE  UNCHANGED <<jobs, owner, streamingJob, cancelled>>
    <2> USE <1>4 DEF jobVars, coordVars
    <2>1. CASE \/ UNCHANGED vars \/ ServerDies
               \/ \E j \in Job : Body(j) \/ Receiver(j) \/ Player(j)
      BY <2>1 DEF vars, ServerDies, Body, Receiver, Player, ChildRest
    <2>2. CASE User
      BY <2>2, UserSteps DEF TapStart, TapStop, Clear, Reopen, StopStreaming
    <2>3. CASE Callbacks /\ ~Launch
      BY <2>3, CallbackSteps DEF StartCommand, ServiceConnected, Deliver
    <2> QED
      BY <2>1, <2>2, <2>3
  <1> QED
    BY <1>1, <1>2, <1>3, <1>4, Steps

LEMMA SessionStep == SessionInv /\ [Next]_vars => SessionInv'
  BY SystemStep, OwnedStep, LaunchedStep, LastStep DEF SessionInv

LEMMA SessionAlways == Spec => []SessionInv
  <1>1. Init => SessionInv
    BY InitSystem, InitRest DEF SessionInv
  <1> QED
    BY <1>1, SessionStep, PTL DEF Spec

(* However the user taps, whatever fails and for any number of starts: at  *)
(* most one job of a coordinator is neither cancelled nor complete.        *)
THEOREM StartReplacesJob == Spec => []OneLiveJob
  <1>1. SessionInv => OneLiveJob
    <2> SUFFICES ASSUME SessionInv, NEW j \in 1 .. jobs, NEW k \in 1 .. jobs,
                        owner[j] = owner[k], j # k
                 PROVE  cancelled[j] \/ cancelled[k]
      BY DEF OneLiveJob
    <2>1. /\ j \in Job /\ k \in Job /\ j <= jobs /\ k <= jobs
      BY Numbers DEF SessionInv, SystemOK
    <2> QED
      BY <2>1 DEF SessionInv, LastIsLive
  <1> QED
    BY <1>1, SessionAlways, PTL

-----------------------------------------------------------------------------
(* Start commands and the instance that exists                             *)

CoordOK ==
    /\ state \in [Instance -> PlaybackState]
    /\ seen \in [Instance -> PlaybackState \union {"off"}]
    /\ releaser \in [Instance -> ReleaseSteps]
    /\ joining \in [Instance -> Job \union {None}]

(* A start command runs in the instance that exists, and one that was      *)
(* released exists only for the connection of an earlier screen.           *)
Serving ==
    /\ \A i \in Instance : i > instances => releaser[i] = "none"
    /\ launching # None => launching = service
    /\ \A v \in bindings : v <= viewModel
    /\ service # None /\ releaser[service] # "none" =>
           \E v \in bindings : v < viewModel

LEMMA InitServing == Init => CoordOK /\ Serving
  BY Numbers DEF Init, CoordOK, Serving, PlaybackState, ReleaseSteps

LEMMA CoordStep ==
    ASSUME SystemOK, Owned, Launched, CoordOK, [Next]_vars
    PROVE  CoordOK'
  <1> USE Numbers
  <1>1. CASE User
    <2> USE <1>1, UserSteps DEF CoordOK
    <2>1. CASE TapStart
      BY <2>1 DEF TapStart, screenVars, coordVars
    <2>2. CASE TapStop
      BY <2>2 DEF TapStop, StopStreaming, Release, SystemOK, PlaybackState,
                  ReleaseSteps
    <2>3. CASE Clear
      <3>1. seen' \in [Instance -> PlaybackState \union {"off"}]
        BY <2>3 DEF Clear
      <3> QED
        BY <2>3, <3>1 DEF Clear, StopStreaming, Release, SystemOK,
                          PlaybackState, ReleaseSteps, coordVars
    <2>4. CASE Reopen
      BY <2>4 DEF Reopen, coordVars
    <2> QED
      BY <2>1, <2>2, <2>3, <2>4
  <1>2. CASE Callbacks
    <2> USE <1>2, CallbackSteps DEF CoordOK
    <2>1. CASE Launch
      BY <2>1 DEF Launch, screenVars
    <2>2. CASE StartCommand
      BY <2>2 DEF StartCommand, screenVars, coordVars
    <2>3. ASSUME NEW v \in ViewModel, ServiceConnected(v)
          PROVE  CoordOK'
      BY <2>3 DEF ServiceConnected, SystemOK, coordVars
    <2>4. ASSUME NEW i \in Instance, Deliver(i)
          PROVE  CoordOK'
      BY <2>4 DEF Deliver, coordVars
    <2> QED
      BY <2>1, <2>2, <2>3, <2>4
  <1>3. ASSUME NEW j \in Job, Body(j)
        PROVE  CoordOK'
    <2>1. UNCHANGED <<seen, releaser, joining>>
      BY <1>3 DEF Body, mainVars, screenVars
    <2> QED
      BY <1>3, <2>1, BodyShape DEF BodyState, CoordOK, PlaybackState
  <1>4. ASSUME NEW i \in Instance, Releaser(i)
        PROVE  CoordOK'
    <2>1. UNCHANGED <<state, seen>>
      BY <1>4 DEF Releaser, mainVars, screenVars
    <2>2. \/ UNCHANGED joining
          \/ joining' = [joining EXCEPT ![i] = streamingJob[i]]
      BY <1>4 DEF Releaser, WriteStop, FreeDecoder, CloseTcp, CloseUdp, Forget,
                  CancelJob, JoinJob, StopPlayer
    <2>3. joining' \in [Instance -> Job \union {None}]
      <3>1. streamingJob[i] \in Job \union {None}
        BY DEF Owned
      <3>2. joining \in [Instance -> Job \union {None}]
        BY DEF CoordOK
      <3> QED
        BY ONLY <2>2, <3>1, <3>2, i \in Instance
    <2>4. releaser' \in [Instance -> ReleaseSteps]
      BY <1>4, ReleaserShape DEF ReleaserGoes, CoordOK
    <2> QED
      BY <2>1, <2>3, <2>4 DEF CoordOK
  <1>5. CASE \/ UNCHANGED vars \/ ServerDies
             \/ \E j \in Job : Receiver(j) \/ Player(j)
    <2>1. UNCHANGED <<state, seen, releaser, joining>>
      BY <1>5, ChildShape
         DEF vars, ServerDies, ChildRest, mainVars, screenVars, coordVars
    <2> QED
      BY <2>1 DEF CoordOK
  <1> QED
    BY <1>1, <1>2, <1>3, <1>4, <1>5, Steps

(* The service is left by the screen that holds it.                        *)
LEMMA StopServing ==
    ASSUME SystemOK, CoordOK, Serving, launching = None, UNCHANGED launching,
           StopStreaming, UNCHANGED viewModel
    PROVE  Serving'
  <1> USE Numbers
  <1>1. /\ binder = service /\ service \in Instance /\ service <= instances
        /\ releaser' = [releaser EXCEPT ![service] = "write"]
        /\ bindings' = bindings \ {viewModel} /\ UNCHANGED instances
    <2>1. binder = service /\ service \in Instance /\ service <= instances
      BY DEF StopStreaming, SystemOK
    <2> QED
      BY <2>1 DEF StopStreaming, Release, Unbind
  <1>2. /\ bindings' = {} => service' = None
        /\ bindings' # {} => service' = service
    BY Zenon DEF StopStreaming, Unbind
  <1>3. \A i \in Instance : i > instances' => releaser'[i] = "none"
    BY <1>1 DEF Serving, SystemOK, CoordOK
  <1>4. viewModel \in Nat /\ \A v \in bindings : v \in Nat
    BY DEF SystemOK, ViewModel
  <1>5. service' # None => \E v \in bindings' : v < viewModel'
    BY <1>1, <1>2, <1>4 DEF Serving
  <1>6. \A v \in bindings' : v <= viewModel'
    BY <1>1 DEF Serving
  <1> QED
    BY <1>3, <1>5, <1>6 DEF Serving

LEMMA ServingStep ==
    ASSUME SystemOK, CoordOK, Serving, [Next]_vars
    PROVE  Serving'
  <1> USE Numbers
  <1>0. viewModel \in Nat /\ \A v \in bindings : v \in Nat
    BY DEF SystemOK, ViewModel
  <1>1. CASE User
    <2> USE <1>0, <1>1, UserSteps DEF Serving
    <2>1. CASE TapStart
      BY <2>1 DEF TapStart, SystemOK, screenVars, coordVars
    <2>2. CASE TapStop
      BY <2>2, StopServing DEF TapStop
    <2>3. CASE Clear
      BY <2>3, StopServing DEF Clear, systemVars, coordVars
    <2>4. CASE Reopen
      <3>1. /\ UNCHANGED <<releaser, instances, launching, service, bindings>>
            /\ viewModel' = viewModel + 1
        BY <2>4 DEF Reopen, systemVars, coordVars
      <3> QED
        BY <3>1
    <2> QED
      BY <2>1, <2>2, <2>3, <2>4
  <1>2. CASE Callbacks
    <2> USE <1>2, CallbackSteps DEF Serving
    <2>1. CASE Launch
      BY <2>1 DEF Launch, screenVars, systemVars
    <2>2. CASE StartCommand
      BY <2>2 DEF StartCommand, screenVars, coordVars
    <2>3. CASE /\ launching = None /\ UNCHANGED launching
               /\ \/ \E v \in ViewModel : ServiceConnected(v)
                  \/ \E i \in Instance : Deliver(i)
      BY <2>3 DEF ServiceConnected, Deliver, coordVars, systemVars
    <2> QED
      BY <2>1, <2>2, <2>3
  <1>3. ASSUME NEW i \in Instance, Releaser(i)
        PROVE  Serving'
    <2>1. UNCHANGED <<viewModel, bindings, service, instances, launching>>
      BY <1>3, Coroutines
    <2>2. releaser[i] # "none"
          /\ \A k \in Instance : k # i => releaser'[k] = releaser[k]
      BY <1>3, ReleaserShape DEF ReleaserGoes, CoordOK
    <2> QED
      BY <2>1, <2>2 DEF Serving, SystemOK
  <1>4. CASE \/ UNCHANGED vars \/ ServerDies
             \/ \E j \in Job : Body(j) \/ Receiver(j) \/ Player(j)
    <2>1. UNCHANGED <<viewModel, bindings, service, instances, launching>>
      BY <1>4, Coroutines
    <2>2. UNCHANGED releaser
      BY <1>4 DEF vars, ServerDies, Body, Receiver, Player, ChildRest,
                  coordVars
    <2> QED
      BY <2>1, <2>2 DEF Serving
  <1> QED
    BY <1>1, <1>2, <1>3, <1>4, Steps

ServingInv == SessionInv /\ CoordOK /\ Serving

LEMMA ServingAlways == Spec => []ServingInv
  <1>1. Init => ServingInv
    BY InitSystem, InitRest, InitServing DEF ServingInv, SessionInv
  <1>2. ServingInv /\ [Next]_vars => ServingInv'
    BY SessionStep, CoordStep, ServingStep DEF ServingInv, SessionInv
  <1> QED
    BY <1>1, <1>2, PTL DEF Spec

(* However often the screen is closed and opened: a start command reaches  *)
(* a coordinator that was not released, unless the system still holds the  *)
(* connection of a screen that is closed.                                  *)
THEOREM StartAfterRelease == Spec => []StartFindsLiveScope
  <1>1. ServingInv => StartFindsLiveScope
    <2> SUFFICES ASSUME ServingInv, launching # None,
                        releaser[launching] # "none"
                 PROVE  Forgotten # {}
      BY DEF StartFindsLiveScope
    <2>1. PICK v \in bindings : v < viewModel
      BY DEF ServingInv, Serving
    <2>2. v # viewModel
      BY <2>1 DEF ServingInv, SessionInv, SystemOK, ViewModel
    <2> QED
      BY <2>2 DEF Forgotten
  <1> QED
    BY <1>1, ServingAlways, PTL

-----------------------------------------------------------------------------
(* What a step leaves alone                                                *)

(* The steps that leave the main thread, the coordinator's state and the   *)
(* jobs' own code alone.                                                   *)
LEMMA Aside ==
    ASSUME \/ UNCHANGED vars \/ ServerDies
           \/ \E j \in Job : Receiver(j) \/ Player(j)
           \/ \E i \in Instance : Releaser(i)
    PROVE  UNCHANGED <<viewModel, cleared, connection, binder, seen, bindings,
                       service, launching, crowded, leftPlaying, state, jobs,
                       owner, streamingJob, body>>
  <1> USE DEF jobVars, coordVars, mainVars, history
  <1>1. CASE UNCHANGED vars \/ ServerDies
    BY <1>1, Coroutines DEF vars, ServerDies
  <1>2. CASE \E j \in Job : Receiver(j) \/ Player(j)
    BY <1>2, Coroutines DEF Receiver, Player, ChildRest
  <1>3. CASE \E i \in Instance : Releaser(i)
    BY <1>3, Coroutines DEF Releaser
  <1> QED
    BY <1>1, <1>2, <1>3

(* Only a launch and a release change what two jobs and a stop leave       *)
(* behind in the history.                                                  *)
LEMMA HistoryGrows ==
    ASSUME [Next]_vars
    PROVE  crowded \subseteq crowded'
  <1> USE DEF history
  <1>1. CASE User
    BY <1>1, UserSteps DEF TapStart, TapStop, Clear, Reopen, StopStreaming
  <1>2. CASE Callbacks
    <2>1. CASE Launch
      BY <2>1 DEF Launch
    <2> QED
      BY <1>2, <2>1, CallbackSteps DEF StartCommand, ServiceConnected, Deliver
  <1>3. ASSUME NEW j \in Job, Body(j) PROVE crowded \subseteq crowded'
    BY <1>3 DEF Body, mainVars
  <1> QED
    BY <1>1, <1>2, <1>3, Aside, Steps

(* The calls of the main thread that change no job and no coordinator.     *)
LEMMA MainAside ==
    ASSUME \/ TapStart \/ Reopen \/ StartCommand
           \/ \E v \in ViewModel : ServiceConnected(v)
           \/ \E i \in Instance : Deliver(i)
           \/ Clear /\ ~StopStreaming
    PROVE  UNCHANGED <<coordVars, jobVars, history>>
  BY DEF TapStart, Reopen, StartCommand, ServiceConnected, Deliver, Clear

(* A job's own step leaves alone what is another job's or another          *)
(* instance's; what was open stays open.                                   *)
LEMMA BodyLeaves ==
    ASSUME SystemOK, Owned, Launched, CoordOK, NEW j \in Job, Body(j)
    PROVE  /\ body[j] \notin {"none", "ended"} /\ j <= jobs
           /\ owner[j] \in Instance
           /\ UNCHANGED <<viewModel, cleared, connection, binder, seen, bindings,
                          launching, crowded, leftPlaying, service, jobs, owner,
                          cancelled, streamingJob, releaser, joining, told,
                          serverUp, crashed>>
           /\ \A k \in Job : k # j => /\ body'[k] = body[k]
                                     /\ receiver'[k] = receiver[k]
                                     /\ player'[k] = player[k]
           /\ \A i \in Instance : i # owner[j] =>
                 state'[i] = state[i] /\ field'[i] = field[i]
           /\ open \subseteq open'
           /\ \A r \in open' : r \in open \/ r[2] = j
  <1>1. /\ body[j] \notin {"none", "ended"} /\ j <= jobs
        /\ owner[j] \in Instance
    BY BodyShape, Numbers DEF BodyGoes, Launched, SystemOK, Owned
  <1>2. UNCHANGED <<viewModel, cleared, connection, binder, seen, bindings,
                    launching, crowded, leftPlaying, service, jobs, owner,
                    cancelled, streamingJob, releaser, joining, serverUp,
                    crashed>>
    BY Coroutines DEF Body, mainVars, history
  <1>3. \A k \in Job : k # j => /\ body'[k] = body[k]
                              /\ receiver'[k] = receiver[k]
                              /\ player'[k] = player[k]
    BY BodyShape DEF BodyGoes, BodyChildren, Launched
  <1>4. \A i \in Instance : i # owner[j] =>
          state'[i] = state[i] /\ field'[i] = field[i]
    BY <1>1, BodyShape DEF BodyState, BodyFields, CoordOK, Owned
  <1>5. /\ UNCHANGED told /\ open \subseteq open'
        /\ \A r \in open' : r \in open \/ r[2] = j
    <2> USE DEF clientVars
    <2>1. CASE Begin(j)
      BY <2>1 DEF Begin
    <2>2. CASE Control(j)
      BY <2>2 DEF Control
    <2>3. CASE EnterSync(j)
      BY <2>3 DEF EnterSync
    <2>4. CASE LeaveSync(j)
      BY <2>4 DEF LeaveSync
    <2>5. CASE Connect(j)
      BY <2>5 DEF Connect
    <2>6. CASE OpenStreams(j)
      BY <2>6 DEF OpenStreams
    <2>7. CASE OpenUdp(j)
      BY <2>7 DEF OpenUdp
    <2>8. CASE GetFormat(j)
      BY <2>8 DEF GetFormat
    <2>9. CASE SendPort(j)
      BY <2>9 DEF SendPort
    <2>10. CASE InitPlayer(j)
      BY <2>10 DEF InitPlayer
    <2>11. CASE BeginPlayback(j)
      BY <2>11 DEF BeginPlayback
    <2>12. CASE LaunchChildren(j)
      BY <2>12 DEF LaunchChildren
    <2> QED
      BY <2>1, <2>2, <2>3, <2>4, <2>5, <2>6, <2>7, <2>8, <2>9, <2>10, <2>11, <2>12 DEF Body
  <1> QED
    BY <1>1, <1>2, <1>3, <1>4, <1>5

(* release() of instance i leaves what another instance's job has opened.  *)
LEMMA ReleaserLeaves ==
    ASSUME Owned, NEW i \in Instance, Releaser(i),
           NEW k \in Instance, k # i
    PROVE  /\ field'[k] = field[k]
           /\ \A t \in {"tcp", "udp", "decoder", "track"}, j \in Job :
                 owner[j] = k /\ <<t, j>> \in open => <<t, j>> \in open'
           /\ open' \subseteq open /\ told \subseteq told'
  <1>1. field'[k] = field[k]
    BY ReleaserShape DEF ReleaserFields, Owned
  <1>2. ReleaserOpen(i)
    BY ReleaserShape
  <1>3. ASSUME NEW t \in {"tcp", "udp", "decoder", "track"}, NEW j \in Job,
               owner[j] = k, <<t, j>> \in open
        PROVE  <<t, j>> \in open'
    <2>1. ASSUME NEW f \in Fields PROVE field[i][f] # j
      BY <1>3, Numbers DEF Owned
    <2> QED
      BY <1>2, <1>3, <2>1 DEF ReleaserOpen
  <1>4. open' \subseteq open
    BY <1>2 DEF ReleaserOpen
  <1>5. told \subseteq told'
    BY DEF Releaser, WriteStop, FreeDecoder, CloseTcp, CloseUdp, Forget,
           CancelJob, JoinJob, StopPlayer
  <1> QED
    BY <1>1, <1>3, <1>4, <1>5

(* What it cancels are jobs of its own instance.                           *)
LEMMA ReleaserCancels ==
    ASSUME Owned, NEW i \in Instance, Releaser(i), NEW j \in Job
    PROVE  /\ cancelled'[j] => cancelled[j] \/ owner[j] = i
           /\ cancelled[j] => cancelled'[j]
  <1>1. j = streamingJob[i] => owner[j] = i
    BY Numbers DEF Owned
  <1> QED
    BY <1>1 DEF Releaser, WriteStop, FreeDecoder, CloseTcp, CloseUdp, Forget,
                CancelJob, JoinJob, StopPlayer

-----------------------------------------------------------------------------
(* Which jobs are cancelled, and which have children                       *)

Unlaunched ==
    \A j \in Job : j > jobs => owner[j] = None /\ ~cancelled[j]

ChildrenLast ==
    \A j \in Job : body[j] # "ended" =>
        receiver[j] = "none" /\ player[j] = "none"

(* As long as it is not released, a coordinator's last job is live.        *)
LastNotCancelled ==
    \A i \in Instance : releaser[i] = "none" /\ streamingJob[i] # None =>
        ~cancelled[streamingJob[i]]

Begun ==
    /\ cancelled \in [Job -> BOOLEAN]
    /\ Unlaunched /\ ChildrenLast /\ LastNotCancelled

LEMMA InitBegun == Init => Begun
  BY Numbers DEF Init, Begun, Unlaunched, ChildrenLast, LastNotCancelled

(* startStreaming launches one job and cancels the one before it.          *)
LEMMA LaunchShape ==
    ASSUME SystemOK, Owned, Launched, Launch
    PROVE  /\ launching \in Instance /\ jobs + 1 \in Job
           /\ jobs' = jobs + 1
           /\ owner' = [owner EXCEPT ![jobs + 1] = launching]
           /\ streamingJob' = [streamingJob EXCEPT ![launching] = jobs + 1]
           /\ \E s \in {"new", "ended"} :
                 body' = [body EXCEPT ![jobs + 1] = s]
           /\ cancelled' = [j \in Job |->
                 cancelled[j] \/ j = streamingJob[launching]]
           /\ UNCHANGED <<viewModel, cleared, connection, binder, seen,
                          bindings, service, state, releaser, joining,
                          leftPlaying>>
  <1>1. launching \in Instance /\ jobs + 1 \in Job
    BY Numbers DEF Launch, SystemOK
  <1>2. \E s \in {"new", "ended"} : body' = [body EXCEPT ![jobs + 1] = s]
    BY Zenon DEF Launch
  <1> QED
    BY <1>1, <1>2 DEF Launch, screenVars, systemVars

(* The children are launched with the last step of a job's own code.       *)
LEMMA ChildrenLaunched ==
    ASSUME Launched, NEW j \in Job, Body(j)
    PROVE  \/ UNCHANGED <<receiver, player>>
           \/ /\ body'[j] = "ended" /\ body[j] = "launch" /\ ~cancelled[j]
              /\ receiver' = [receiver EXCEPT ![j] = "check"]
              /\ player' = [player EXCEPT ![j] = "loop"]
  <1> USE DEF childVars
  <1>1. CASE LaunchChildren(j)
    BY <1>1 DEF LaunchChildren, Goto, Launched
  <1>2. CASE ~LaunchChildren(j)
    BY <1>2 DEF Body, Begin, Control, EnterSync, LeaveSync, Connect,
                OpenStreams, OpenUdp, GetFormat, SendPort, InitPlayer,
                BeginPlayback
  <1> QED
    BY <1>1, <1>2

(* The steps that leave the jobs and what is cancelled alone.              *)
LEMMA JobsAside ==
    ASSUME \/ UNCHANGED vars \/ ServerDies \/ User
           \/ Callbacks /\ ~Launch
    PROVE  /\ UNCHANGED <<jobs, owner, cancelled, streamingJob, body, receiver,
                          player, field, open, told, joining>>
           /\ UNCHANGED releaser \/ StopStreaming
           /\ UNCHANGED state \/ StopStreaming
  <1> USE DEF jobVars, childVars, clientVars, coordVars
  <1>1. CASE UNCHANGED vars \/ ServerDies
    BY <1>1 DEF vars, ServerDies
  <1>2. CASE User
    BY <1>2, UserSteps DEF TapStart, TapStop, Clear, Reopen, StopStreaming
  <1>3. CASE Callbacks /\ ~Launch
    BY <1>3, CallbackSteps DEF StartCommand, ServiceConnected, Deliver
  <1> QED
    BY <1>1, <1>2, <1>3

LEMMA BegunStep ==
    ASSUME SystemOK, Owned, Launched, CoordOK, Begun, [Next]_vars
    PROVE  Begun'
  <1> USE Numbers DEF Begun
  <1>1. CASE Launch /\ Callbacks
    <2>1. /\ launching \in Instance /\ jobs + 1 \in Job /\ jobs \in Nat
          /\ jobs' = jobs + 1
          /\ owner' = [owner EXCEPT ![jobs + 1] = launching]
          /\ streamingJob' = [streamingJob EXCEPT ![launching] = jobs + 1]
          /\ cancelled' = [j \in Job |->
                cancelled[j] \/ j = streamingJob[launching]]
          /\ UNCHANGED <<releaser, receiver, player>>
      BY <1>1, LaunchShape, CallbackSteps DEF SystemOK, childVars
    <2>2. cancelled' \in [Job -> BOOLEAN]
      BY <2>1
    <2>3. \A i \in Instance : streamingJob[i] # None =>
             streamingJob[i] \in Job /\ streamingJob[i] <= jobs
      BY DEF Owned
    <2>4. Unlaunched'
      <3> SUFFICES ASSUME NEW j \in Job, j > jobs + 1
                   PROVE  owner'[j] = None /\ ~cancelled'[j]
        BY <2>1 DEF Unlaunched
      <3>1. owner[j] = None /\ ~cancelled[j]
        BY <2>1 DEF Unlaunched
      <3>2. j # streamingJob[launching]
        BY <2>1, <2>3
      <3> QED
        BY <2>1, <3>1, <3>2 DEF Owned
    <2>5. ChildrenLast'
      BY <1>1, <2>1, LaunchShape DEF ChildrenLast, Launched, SystemOK
    <2>6. LastNotCancelled'
      <3> SUFFICES ASSUME NEW i \in Instance, releaser'[i] = "none",
                          streamingJob'[i] # None
                   PROVE  ~cancelled'[streamingJob'[i]]
        BY DEF LastNotCancelled
      <3>1. CASE i = launching
        <4>1. streamingJob'[i] = jobs + 1 /\ ~cancelled[jobs + 1]
          BY <2>1, <3>1 DEF Owned, Unlaunched
        <4>2. jobs + 1 # streamingJob[launching]
          BY <2>1, <2>3
        <4> QED
          BY <2>1, <4>1, <4>2
      <3>2. CASE i # launching
        <4>1. /\ streamingJob'[i] = streamingJob[i]
              /\ ~cancelled[streamingJob[i]] /\ streamingJob[i] \in Job
          BY <2>1, <3>2 DEF Owned, LastNotCancelled
        <4>2. streamingJob[i] # streamingJob[launching]
          BY <2>1, <3>2, <4>1 DEF Owned
        <4> QED
          BY <2>1, <4>1, <4>2
      <3> QED
        BY <3>1, <3>2
    <2> QED
      BY <2>2, <2>4, <2>5, <2>6
  <1>2. ASSUME NEW i \in Instance, Releaser(i)
        PROVE  Begun'
    <2>1. /\ UNCHANGED <<jobs, owner, streamingJob, body, receiver, player>>
          /\ cancelled' \in [Job -> BOOLEAN]
      BY <1>2 DEF Releaser, childVars, WriteStop, FreeDecoder, CloseTcp,
                  CloseUdp, Forget, CancelJob, JoinJob, StopPlayer
    <2>2. \A j \in Job : cancelled'[j] => cancelled[j] \/ owner[j] = i
      BY <1>2, ReleaserCancels
    <2>3. /\ releaser'[i] # "none"
          /\ \A k \in Instance : k # i => releaser'[k] = releaser[k]
      BY <1>2, ReleaserShape DEF ReleaserGoes, CoordOK
    <2>4. Unlaunched'
      BY <2>1, <2>2 DEF Unlaunched
    <2>5. ChildrenLast'
      BY <2>1 DEF ChildrenLast
    <2>6. LastNotCancelled'
      <3> SUFFICES ASSUME NEW k \in Instance, releaser'[k] = "none",
                          streamingJob[k] # None
                   PROVE  ~cancelled'[streamingJob[k]]
        BY <2>1 DEF LastNotCancelled
      <3>1. k # i /\ releaser[k] = "none"
        BY <2>3
      <3>2. streamingJob[k] \in Job /\ owner[streamingJob[k]] = k
        BY DEF Owned
      <3> QED
        BY <2>2, <3>1, <3>2 DEF LastNotCancelled
    <2> QED
      BY <2>1, <2>4, <2>5, <2>6
  <1>3. ASSUME NEW j \in Job, Body(j)
        PROVE  Begun'
    <2>1. /\ UNCHANGED <<jobs, owner, cancelled, streamingJob, releaser>>
          /\ body[j] # "ended"
          /\ \A k \in Job : k # j => body'[k] = body[k]
      BY <1>3, BodyLeaves
    <2>2. ChildrenLast'
      BY <1>3, <2>1, ChildrenLaunched DEF ChildrenLast, Launched
    <2> QED
      BY <2>1, <2>2 DEF Unlaunched, LastNotCancelled
  <1>4. ASSUME NEW j \in Job, Receiver(j) \/ Player(j)
        PROVE  Begun'
    <2>1. UNCHANGED <<jobs, owner, cancelled, streamingJob, releaser, body>>
      BY <1>4, ChildShape DEF ChildRest, jobVars, coordVars
    <2>2. ChildrenLast'
      BY <1>4, <2>1, ChildShape
         DEF ChildrenLast, ReceiverGoes, PlayerGoes, Launched
    <2> QED
      BY <2>1, <2>2 DEF Unlaunched, LastNotCancelled
  <1>5. ASSUME \/ UNCHANGED vars \/ ServerDies \/ User
               \/ Callbacks /\ ~Launch
        PROVE  Begun'
    <2>1. /\ UNCHANGED <<jobs, owner, cancelled, streamingJob, body, receiver,
                         player>>
      BY <1>5, JobsAside
    <2>2. \A i \in Instance : releaser'[i] = "none" => releaser[i] = "none"
      BY <1>5, JobsAside DEF StopStreaming, Release, CoordOK
    <2> QED
      BY <2>1, <2>2 DEF Unlaunched, ChildrenLast, LastNotCancelled
  <1> QED
    BY <1>1, <1>2, <1>3, <1>4, <1>5, Steps

-----------------------------------------------------------------------------
(* An instance whose jobs never ran side by side                           *)

(* Its earlier jobs are over, or were cancelled before they began.         *)
Alone(i) ==
    \A j \in Job : j <= jobs /\ owner[j] = i /\ j # streamingJob[i] =>
        ~Running(j)

(* As long as it is not released, its state tells how far its job is.      *)
Telling(i) ==
    LET j == streamingJob[i] IN
    releaser[i] = "none" =>
        /\ state[i] = "Connecting" =>
              j # None /\ body[j] \notin {"none", "new", "ended"}
        /\ state[i] = "Playback" =>
              /\ j # None /\ body[j] \in {"launch", "ended"}
              /\ body[j] = "ended" =>
                    player[j] # "none" /\ (player[j] = "ended" => crashed)

(* What job j has built when it is past a step.                            *)
Opened(i, f, t, j) == field[i][f] = j /\ <<t, j>> \in open
Session(i, j) ==
    /\ Opened(i, "manager", "tcp", j) /\ field[i]["stream"] = j
    /\ Opened(i, "udp", "udp", j) /\ Opened(i, "decoder", "decoder", j)
    /\ Opened(i, "track", "track", j)

Built(j) ==
    /\ body[j] \in {"streams", "udp", "format", "port", "player", "playback",
                    "launch"} => Opened(owner[j], "manager", "tcp", j)
    /\ body[j] \in {"udp", "format", "port", "player", "playback", "launch"} =>
          field[owner[j]]["stream"] = j
    /\ body[j] \in {"format", "port", "player", "playback", "launch"} =>
          Opened(owner[j], "udp", "udp", j)
    /\ body[j] \in {"port", "player", "playback", "launch"} =>
          Opened(owner[j], "decoder", "decoder", j)
    /\ body[j] \in {"playback", "launch"} =>
          Opened(owner[j], "track", "track", j)
    /\ body[j] = "launch" => state[owner[j]] = "Playback"

Holding(i) ==
    LET j == streamingJob[i] IN
    releaser[i] = "none" /\ j # None =>
        Built(j) /\ (state[i] = "Playback" => Session(i, j))

(* release() waits for the only job that may still run.                    *)
Joined(i) ==
    LET j == streamingJob[i] IN
    /\ releaser[i] \in {"join", "stopPlayer", "done"} => joining[i] = j
    /\ releaser[i] \in {"stopPlayer", "done"} /\ j # None => Complete(j)

(* How far release() has come with a session that was left while it played. *)
Releasing(i) ==
    LET j    == streamingJob[i]
        step == releaser[i] IN
    i \in leftPlaying =>
        /\ step # "none" /\ j # None /\ body[j] \in {"launch", "ended"}
        /\ step \in {"write", "freeDecoder"} => Session(i, j)
        /\ step = "closeTcp" => field[i]["manager"] = j
        /\ step \in {"closeTcp", "closeUdp"} => field[i]["udp"] = j
        /\ step # "done" => field[i]["track"] = j
        /\ step = "done" => <<"track", j>> \notin open
        /\ serverUp =>
              /\ step # "write" => j \in told
              /\ step \notin {"write", "freeDecoder"} =>
                    <<"decoder", j>> \notin open
              /\ step \notin {"write", "freeDecoder", "closeTcp"} =>
                    <<"tcp", j>> \notin open
              /\ step \notin {"write", "freeDecoder", "closeTcp", "closeUdp"} =>
                    <<"udp", j>> \notin open

Solo(i) == Alone(i) /\ Telling(i) /\ Holding(i) /\ Joined(i) /\ Releasing(i)

Base == ServingInv /\ Begun

LEMMA BaseParts ==
    Base => /\ SystemOK /\ Owned /\ Launched /\ LastIsLive /\ CoordOK /\ Serving
            /\ Begun
  BY DEF Base, ServingInv, SessionInv

LEMMA BaseStep == Base /\ [Next]_vars => Base'
  BY SessionStep, CoordStep, ServingStep, BegunStep
     DEF Base, ServingInv, SessionInv

(* A step that leaves instance i and its jobs as they are.                 *)
Same(i) ==
    /\ state'[i] = state[i] /\ releaser'[i] = releaser[i]
    /\ joining'[i] = joining[i] /\ streamingJob'[i] = streamingJob[i]
    /\ field'[i] = field[i]
    /\ \A j \in Job : j <= jobs' /\ owner'[j] = i => j <= jobs /\ owner[j] = i
    /\ \A j \in Job : j <= jobs /\ owner[j] = i =>
          /\ owner'[j] = i /\ body'[j] = body[j]
          /\ receiver'[j] = receiver[j] /\ player'[j] = player[j]
          /\ \A t \in {"tcp", "udp", "decoder", "track"} :
                <<t, j>> \in open' <=> <<t, j>> \in open
    /\ told \subseteq told'
    /\ serverUp' => serverUp
    /\ crashed => crashed'
    /\ i \in leftPlaying' => i \in leftPlaying

LEMMA SameKeeps ==
    ASSUME Owned, NEW i \in Instance, Same(i), Solo(i)
    PROVE  Solo(i)'
  <1>1. CASE streamingJob[i] = None
    <2>1. Alone(i)'
      BY DEF Solo, Alone, Same, Running, Complete
    <2> QED
      BY <1>1, <2>1 DEF Solo, Telling, Holding, Joined, Releasing, Same
  <1>2. CASE streamingJob[i] # None
    <2>1. /\ streamingJob[i] \in Job /\ streamingJob[i] <= jobs
          /\ owner[streamingJob[i]] = i
      BY <1>2 DEF Owned
    <2> DEFINE j == streamingJob[i]
    <2>2. /\ streamingJob'[i] = j /\ owner'[j] = i /\ body'[j] = body[j]
          /\ receiver'[j] = receiver[j] /\ player'[j] = player[j]
          /\ \A t \in {"tcp", "udp", "decoder", "track"} :
                <<t, j>> \in open' <=> <<t, j>> \in open
      BY <2>1 DEF Same
    <2>3. /\ state'[i] = state[i] /\ releaser'[i] = releaser[i]
          /\ joining'[i] = joining[i] /\ field'[i] = field[i]
          /\ told \subseteq told' /\ (serverUp' => serverUp)
          /\ (crashed => crashed') /\ (i \in leftPlaying' => i \in leftPlaying)
      BY DEF Same
    <2>4. Alone(i)'
      BY DEF Solo, Alone, Same, Running, Complete
    <2>5. Telling(i)'
      BY <1>2, <2>2, <2>3 DEF Solo, Telling
    <2>6. Holding(i)'
      BY <1>2, <2>1, <2>2, <2>3 DEF Solo, Holding, Built, Session, Opened
    <2>7. Joined(i)'
      BY <1>2, <2>2, <2>3 DEF Solo, Joined, Complete
    <2>8. Releasing(i)'
      BY <1>2, <2>2, <2>3 DEF Solo, Releasing, Session, Opened
    <2> QED
      BY <2>4, <2>5, <2>6, <2>7, <2>8 DEF Solo
  <1> QED
    BY <1>1, <1>2

(* The steps of the main thread that leave instance i as it is.            *)
LEMMA MainSame ==
    ASSUME Base, NEW i \in Instance,
           \/ UNCHANGED vars \/ ServerDies \/ User
           \/ Callbacks /\ ~Launch,
           ~(StopStreaming /\ binder = i)
    PROVE  Same(i)
  <1>1. /\ UNCHANGED <<jobs, owner, streamingJob, body, receiver, player, field,
                       open, told, joining>>
        /\ UNCHANGED releaser \/ StopStreaming
        /\ UNCHANGED state \/ StopStreaming
    BY JobsAside
  <1>2. state'[i] = state[i] /\ releaser'[i] = releaser[i]
    BY <1>1, BaseParts DEF StopStreaming, Release, CoordOK
  <1>3. crashed' = crashed /\ (serverUp' => serverUp)
    BY UserSteps, CallbackSteps DEF vars, ServerDies
  <1>4. UNCHANGED leftPlaying \/ StopStreaming
    <2> USE DEF history
    <2>1. CASE UNCHANGED vars \/ ServerDies
      BY <2>1, Aside
    <2>2. CASE User
      BY <2>2, UserSteps DEF TapStart, TapStop, Clear, Reopen
    <2>3. CASE Callbacks /\ ~Launch
      BY <2>3, CallbackSteps DEF StartCommand, ServiceConnected, Deliver
    <2> QED
      BY <2>1, <2>2, <2>3
  <1>5. i \in leftPlaying' => i \in leftPlaying
    BY <1>4 DEF StopStreaming, Release
  <1> QED
    BY <1>1, <1>2, <1>3, <1>5 DEF Same

(* A session is left: its state tells whether it played.                   *)
LEMMA StopKeeps ==
    ASSUME Base, NEW i \in Instance, User, StopStreaming, binder = i, Solo(i)
    PROVE  Solo(i)'
  <1>1. /\ UNCHANGED <<jobs, owner, streamingJob, body, receiver, player, field,
                       open, told, joining>>
        /\ UNCHANGED <<serverUp, crashed>>
    BY JobsAside, UserSteps
  <1>2. /\ releaser[i] = "none" /\ releaser'[i] = "write"
        /\ i \in leftPlaying' => i \in leftPlaying \/ state[i] = "Playback"
    BY BaseParts DEF StopStreaming, Release, CoordOK
  <1>3. Alone(i)'
    BY <1>1 DEF Solo, Alone, Running, Complete
  <1>4. Telling(i)' /\ Holding(i)' /\ Joined(i)'
    BY <1>2 DEF Telling, Holding, Joined
  <1>5. ASSUME i \in leftPlaying' PROVE Releasing(i)'
    <2>1. state[i] = "Playback"
      BY <1>2, <1>5 DEF Solo, Releasing
    <2>2. /\ streamingJob[i] # None
          /\ body[streamingJob[i]] \in {"launch", "ended"}
          /\ Session(i, streamingJob[i])
      BY <1>2, <2>1 DEF Solo, Telling, Holding
    <2> QED
      BY <1>1, <1>2, <2>2 DEF Releasing, Session, Opened
  <1>6. Releasing(i)'
    BY <1>5 DEF Releasing
  <1> QED
    BY <1>3, <1>4, <1>6 DEF Solo

(* A job is launched: elsewhere, or when the job before it is over.        *)
LEMMA LaunchSame ==
    ASSUME Base, NEW i \in Instance, Callbacks, Launch, launching # i
    PROVE  Same(i)
  <1> USE BaseParts, Numbers
  <1>1. /\ launching \in Instance /\ jobs + 1 \in Job /\ jobs' = jobs + 1
        /\ owner' = [owner EXCEPT ![jobs + 1] = launching]
        /\ streamingJob' = [streamingJob EXCEPT ![launching] = jobs + 1]
        /\ UNCHANGED <<state, releaser, joining, leftPlaying>>
    BY LaunchShape
  <1>2. /\ UNCHANGED <<receiver, player, field, open, told, serverUp, crashed>>
    BY CallbackSteps DEF childVars, clientVars
  <1>3. jobs \in Nat /\ \A j \in Job : j <= jobs => body'[j] = body[j]
    BY <1>1, LaunchShape DEF Launched, SystemOK
  <1>4. /\ streamingJob'[i] = streamingJob[i]
        /\ \A j \in Job : j <= jobs /\ owner[j] = i => owner'[j] = i
    BY <1>1, <1>3 DEF Owned
  <1>5. ASSUME NEW j \in Job, j <= jobs', owner'[j] = i
        PROVE  j <= jobs /\ owner[j] = i
    <2>1. j # jobs + 1 /\ owner'[j] = owner[j]
      BY <1>1, <1>5 DEF Owned
    <2> QED
      BY <1>1, <1>3, <1>5, <2>1
  <1> QED
    BY <1>1, <1>2, <1>3, <1>4, <1>5 DEF Same

LEMMA LaunchKeeps ==
    ASSUME Base, NEW i \in Instance, Callbacks, Launch, launching = i,
           i \notin crowded', ~crashed, Solo(i)
    PROVE  Solo(i)'
  <1> USE BaseParts, Numbers
  <1>1. /\ jobs + 1 \in Job /\ jobs' = jobs + 1 /\ jobs \in Nat
        /\ owner' = [owner EXCEPT ![jobs + 1] = i]
        /\ streamingJob' = [streamingJob EXCEPT ![i] = jobs + 1]
        /\ UNCHANGED <<state, releaser, joining, leftPlaying>>
    BY LaunchShape DEF SystemOK
  <1>2. /\ UNCHANGED <<receiver, player, field, open, told, serverUp, crashed>>
    BY CallbackSteps DEF childVars, clientVars
  <1>3. /\ releaser[i] = "none"
        /\ streamingJob[i] # None => ~Running(streamingJob[i])
    BY DEF Launch
  <1>4. state[i] \notin {"Connecting", "Playback"}
    BY <1>3 DEF Solo, Telling, Running, Complete
  <1>5. /\ \A j \in Job : j <= jobs => body'[j] = body[j]
        /\ body'[jobs + 1] \in {"new", "ended"}
    BY <1>1, LaunchShape DEF Launched, SystemOK
  <1>6. streamingJob'[i] = jobs + 1 /\ owner'[jobs + 1] = i
    BY <1>1 DEF Owned
  <1>7. Alone(i)'
    <2> SUFFICES ASSUME NEW j \in Job, j <= jobs', owner'[j] = i,
                        j # streamingJob'[i]
                 PROVE  ~Running(j)'
      BY DEF Alone
    <2>1. j <= jobs /\ owner[j] = i
      BY <1>1, <1>6 DEF Owned
    <2>2. ~Running(j)
      BY <1>3, <2>1 DEF Solo, Alone
    <2> QED
      BY <1>2, <1>5, <2>1, <2>2 DEF Running, Complete
  <1>8. Telling(i)'
    BY <1>1, <1>4 DEF Telling
  <1>9. /\ body'[streamingJob'[i]] \in {"new", "ended"}
        /\ state'[i] # "Playback"
    BY <1>1, <1>4, <1>5, <1>6
  <1>10. Holding(i)'
    BY <1>9 DEF Holding, Built
  <1>11. Joined(i)' /\ Releasing(i)'
    BY <1>1, <1>3 DEF Joined, Releasing, Solo
  <1> QED
    BY <1>7, <1>8, <1>10, <1>11 DEF Solo

(* A job's own step keeps what the job has built.                          *)
LEMMA BodyBuilds ==
    ASSUME Base, NEW j \in Job, Built(j), Body(j)
    PROVE  Built(j)'
  <1>0. /\ owner[j] \in Instance /\ UNCHANGED owner /\ j # None
        /\ field \in [Instance -> [Fields -> Job \union {None}]]
        /\ body \in [Job -> BodySteps] /\ state \in [Instance -> PlaybackState]
    BY BaseParts, BodyLeaves, Numbers DEF Owned, Launched, CoordOK
  <1> USE <1>0 DEF Built, Opened, Goto, SetField, FieldOf, SetState, Fail, Fields,
                   clientVars
  <1>1. CASE Begin(j)
    BY <1>1 DEF Begin
  <1>2. CASE Control(j)
    BY <1>2 DEF Control
  <1>3. CASE EnterSync(j)
    BY <1>3 DEF EnterSync
  <1>4. CASE LeaveSync(j)
    BY <1>4 DEF LeaveSync
  <1>5. CASE Connect(j)
    BY <1>5 DEF Connect
  <1>6. CASE OpenStreams(j)
    BY <1>6 DEF OpenStreams
  <1>7. CASE OpenUdp(j)
    BY <1>7 DEF OpenUdp
  <1>8. CASE GetFormat(j)
    BY <1>8 DEF GetFormat
  <1>9. CASE SendPort(j)
    BY <1>9 DEF SendPort
  <1>10. CASE InitPlayer(j)
    BY <1>10 DEF InitPlayer
  <1>11. CASE BeginPlayback(j)
    BY <1>11 DEF BeginPlayback
  <1>12. CASE LaunchChildren(j)
    BY <1>12 DEF LaunchChildren
  <1> QED
    BY <1>1, <1>2, <1>3, <1>4, <1>5, <1>6, <1>7, <1>8, <1>9, <1>10, <1>11, <1>12 DEF Body

(* Where a step of a job that is not cancelled leads.                      *)
LEMMA BodyOutcome ==
    ASSUME Base, NEW j \in Job, Body(j), ~cancelled[j]
    PROVE  \/ body'[j] = "ended" /\ state'[owner[j]] = "Error"
           \/ /\ body[j] # "launch" /\ body'[j] \notin {"none", "new", "ended"}
              /\ state'[owner[j]] \in {state[owner[j]], "Connecting"}
           \/ body'[j] = "launch" /\ state'[owner[j]] = "Playback"
           \/ /\ body[j] = "launch" /\ body'[j] = "ended"
              /\ player'[j] = "loop" /\ UNCHANGED <<state, field, open, told>>
  <1>0. /\ owner[j] \in Instance /\ body \in [Job -> BodySteps]
        /\ state \in [Instance -> PlaybackState]
        /\ player \in [Job -> PlayerSteps]
    BY BaseParts, BodyLeaves DEF Launched, CoordOK
  <1> USE <1>0 DEF Goto, SetState, Fail, clientVars
  <1>1. CASE Begin(j)
    BY <1>1 DEF Begin
  <1>2. CASE Control(j)
    BY <1>2 DEF Control
  <1>3. CASE EnterSync(j)
    BY <1>3 DEF EnterSync
  <1>4. CASE LeaveSync(j)
    BY <1>4 DEF LeaveSync
  <1>5. CASE Connect(j)
    BY <1>5 DEF Connect
  <1>6. CASE OpenStreams(j)
    BY <1>6 DEF OpenStreams
  <1>7. CASE OpenUdp(j)
    BY <1>7 DEF OpenUdp
  <1>8. CASE GetFormat(j)
    BY <1>8 DEF GetFormat
  <1>9. CASE SendPort(j)
    BY <1>9 DEF SendPort
  <1>10. CASE InitPlayer(j)
    BY <1>10 DEF InitPlayer
  <1>11. CASE BeginPlayback(j)
    BY <1>11 DEF BeginPlayback
  <1>12. CASE LaunchChildren(j)
    BY <1>12 DEF LaunchChildren
  <1> QED
    BY <1>1, <1>2, <1>3, <1>4, <1>5, <1>6, <1>7, <1>8, <1>9, <1>10, <1>11, <1>12 DEF Body

(* The last step of a job, and the only one of a job that was cancelled    *)
(* before it began, leave what was built and the state alone.              *)
LEMMA BodyEnds ==
    ASSUME Base, NEW j \in Job, Body(j),
           body[j] = "launch" \/ (body[j] = "new" /\ cancelled[j])
    PROVE  body'[j] = "ended" /\ UNCHANGED <<state, field, open, told>>
  <1> USE BaseParts DEF Body, Begin, Control, EnterSync, LeaveSync, Connect,
                OpenStreams, OpenUdp, GetFormat, SendPort, InitPlayer,
                BeginPlayback, LaunchChildren, Goto, Launched, clientVars
  <1>1. CASE body[j] = "launch"
    BY <1>1
  <1>2. CASE body[j] = "new" /\ cancelled[j]
    BY <1>2
  <1> QED
    BY <1>1, <1>2

LEMMA BodySame ==
    ASSUME Base, NEW i \in Instance, NEW j \in Job, Body(j), owner[j] # i
    PROVE  Same(i)
  <1>1. \A k \in Job, t \in {"tcp", "udp", "decoder", "track"} :
            k # j => (<<t, k>> \in open' <=> <<t, k>> \in open)
    BY BaseParts, BodyLeaves
  <1> QED
    BY <1>1, BaseParts, BodyLeaves DEF Same

(* A job that is not the last of its instance can only end.                *)
LEMMA OldBodyKeeps ==
    ASSUME Base, NEW i \in Instance, NEW j \in Job, Body(j), owner[j] = i,
           j # streamingJob[i], Solo(i)
    PROVE  Solo(i)'
  <1> USE BaseParts
  <1>1. /\ body[j] \notin {"none", "ended"} /\ j <= jobs
        /\ UNCHANGED <<jobs, owner, streamingJob, releaser, joining, serverUp,
                       crashed, leftPlaying>>
        /\ \A k \in Job : k # j => /\ body'[k] = body[k]
                                  /\ receiver'[k] = receiver[k]
                                  /\ player'[k] = player[k]
    BY BodyLeaves
  <1>2. body[j] = "new" /\ cancelled[j]
    BY <1>1 DEF Solo, Alone, Running, Complete, LastIsLive
  <1>3. body'[j] = "ended" /\ UNCHANGED <<state, field, open, told>>
    BY <1>2, BodyEnds
  <1>4. receiver'[j] = "none" /\ player'[j] = "none"
    BY <1>1, <1>2, ChildrenLaunched DEF Begun, ChildrenLast
  <1>5. Alone(i)'
    BY <1>1, <1>3, <1>4 DEF Solo, Alone, Running, Complete
  <1>6. streamingJob[i] \in Job \union {None} /\ streamingJob[i] # j
        /\ (streamingJob[i] # None => owner[streamingJob[i]] = i)
    BY DEF Owned
  <1>7. Telling(i)' /\ Joined(i)'
    BY <1>1, <1>3, <1>6 DEF Solo, Telling, Joined, Complete
  <1>8. Holding(i)' /\ Releasing(i)'
    BY <1>1, <1>3, <1>6 DEF Solo, Holding, Built, Releasing, Session, Opened
  <1> QED
    BY <1>5, <1>7, <1>8 DEF Solo

(* A step of the last job of an instance.                                  *)
LEMMA LastBodyKeeps ==
    ASSUME Base, NEW i \in Instance, NEW j \in Job, Body(j), owner[j] = i,
           j = streamingJob[i], Solo(i)
    PROVE  Solo(i)'
  <1> USE BaseParts
  <1>1. /\ body[j] \notin {"none", "ended"} /\ j <= jobs
        /\ UNCHANGED <<jobs, owner, streamingJob, releaser, joining, serverUp,
                       crashed, leftPlaying>>
        /\ \A k \in Job : k # j => /\ body'[k] = body[k]
                                  /\ receiver'[k] = receiver[k]
                                  /\ player'[k] = player[k]
    BY BodyLeaves
  <1>2. Alone(i)'
    BY <1>1 DEF Solo, Alone, Running, Complete
  <1>3. Joined(i)'
    BY <1>1 DEF Solo, Joined, Complete
  <1>4. Releasing(i)'
    <2> SUFFICES ASSUME i \in leftPlaying PROVE Releasing(i)'
      BY <1>1 DEF Releasing
    <2>1. body[j] = "launch"
      BY <1>1 DEF Solo, Releasing
    <2>2. body'[j] = "ended" /\ UNCHANGED <<field, open, told>>
      BY <2>1, BodyEnds
    <2> QED
      BY <1>1, <2>2 DEF Solo, Releasing, Session, Opened
  <1>5. CASE releaser[i] # "none"
    <2>1. Telling(i)' /\ Holding(i)'
      BY <1>1, <1>5 DEF Telling, Holding
    <2> QED
      BY <1>2, <1>3, <1>4, <2>1 DEF Solo
  <1>6. CASE releaser[i] = "none"
    <2>1. ~cancelled[j] /\ j # None /\ Built(j) /\ Telling(i)
      BY <1>6, Numbers DEF Begun, LastNotCancelled, Solo, Holding
    <2>2. Built(j)'
      BY <2>1, BodyBuilds
    <2>3. \/ body'[j] = "ended" /\ state'[i] = "Error"
          \/ /\ body[j] # "launch" /\ body'[j] \notin {"none", "new", "ended"}
             /\ state'[i] \in {state[i], "Connecting"}
          \/ body'[j] = "launch" /\ state'[i] = "Playback"
          \/ /\ body[j] = "launch" /\ body'[j] = "ended"
             /\ player'[j] = "loop" /\ UNCHANGED <<state, field, open, told>>
      BY <2>1, BodyOutcome
    <2>4. /\ body[j] # "launch" => state[i] # "Playback"
          /\ body[j] = "launch" => state[i] = "Playback"
      BY <1>1, <1>6, <2>1 DEF Telling, Built
    <2>5. Telling(i)'
      BY <1>1, <1>6, <2>1, <2>3, <2>4 DEF Telling
    <2>6. ASSUME state'[i] = "Playback" PROVE Session(i, j)'
      <3>1. CASE body'[j] = "launch"
        BY <1>1, <2>2, <3>1 DEF Built, Session
      <3>2. CASE body'[j] # "launch"
        BY <2>1, <2>3, <2>4, <2>6, <3>2 DEF Built, Session, Opened
      <3> QED
        BY <3>1, <3>2
    <2>7. Holding(i)'
      BY <1>1, <2>2, <2>6 DEF Holding
    <2> QED
      BY <1>2, <1>3, <1>4, <2>5, <2>7 DEF Solo
  <1> QED
    BY <1>5, <1>6

(* A child's step: elsewhere, or of this instance.                         *)
LEMMA ChildKeeps ==
    ASSUME Base, NEW i \in Instance, NEW j \in Job, Receiver(j) \/ Player(j),
           Solo(i)
    PROVE  Solo(i)'
  <1> USE BaseParts
  <1>1. UNCHANGED <<jobs, owner, streamingJob, body, releaser, joining, state,
                    cancelled, field, open, told, serverUp, leftPlaying>>
    BY ChildShape DEF ChildRest, coordVars, jobVars, clientVars, mainVars,
                      history
  <1>2. /\ \A k \in Job : k # j =>
              receiver'[k] = receiver[k] /\ player'[k] = player[k]
        /\ receiver[j] \in {"none", "ended"} => receiver'[j] = receiver[j]
        /\ player[j] \in {"none", "ended"} => player'[j] = player[j]
        /\ player[j] # "none" => player'[j] # "none"
    BY ChildShape DEF ReceiverGoes, PlayerGoes, Launched
  <1>3. \A k \in Job : Complete(k) => Complete(k)'
    BY <1>1, <1>2 DEF Complete
  <1>4. body[j] = "ended"
    BY ChildShape DEF Begun, ChildrenLast, ReceiverGoes, PlayerGoes
  <1>5. crashed => crashed'
    BY DEF Receiver, Player, CheckSocket, EnterReceive, SocketClosed, Datagram,
           EnterDecoder, LeaveDecoder, PlayerLoop, PlayerWritten, PlayerThrows
  <1>6. player'[j] = "ended" /\ player[j] # "ended" => cancelled[j] \/ crashed'
    BY DEF Receiver, Player, CheckSocket, EnterReceive, SocketClosed, Datagram,
           EnterDecoder, LeaveDecoder, PlayerLoop, PlayerWritten, PlayerThrows,
           Launched
  <1>7. Alone(i)'
    BY <1>1, <1>3 DEF Solo, Alone, Running
  <1>8. streamingJob[i] # None => streamingJob[i] \in Job
    BY DEF Owned
  <1>9. Telling(i)'
    <2> SUFFICES ASSUME releaser[i] = "none", state[i] = "Playback",
                        streamingJob[i] # None,
                        body[streamingJob[i]] = "ended"
                 PROVE  /\ player'[streamingJob[i]] # "none"
                        /\ player'[streamingJob[i]] = "ended" => crashed'
      BY <1>1 DEF Solo, Telling
    <2>1. ~cancelled[streamingJob[i]]
      BY DEF Begun, LastNotCancelled
    <2>2. /\ player[streamingJob[i]] # "none"
          /\ player[streamingJob[i]] = "ended" => crashed
      BY DEF Solo, Telling
    <2> QED
      BY <1>2, <1>5, <1>6, <1>8, <2>1, <2>2
  <1>10. Holding(i)' /\ Releasing(i)'
    BY <1>1 DEF Solo, Holding, Built, Releasing, Session, Opened
  <1>11. Joined(i)'
    BY <1>1, <1>3, <1>8 DEF Solo, Joined
  <1> QED
    BY <1>7, <1>9, <1>10, <1>11 DEF Solo

LEMMA ReleaserSame ==
    ASSUME Base, NEW i \in Instance, NEW k \in Instance, Releaser(k), k # i
    PROVE  Same(i)
  <1> USE BaseParts
  <1>1. UNCHANGED <<jobs, owner, streamingJob, body, receiver, player, state,
                    serverUp, crashed, leftPlaying>>
    BY DEF Releaser, childVars, mainVars, history
  <1>2. releaser'[i] = releaser[i] /\ joining'[i] = joining[i]
    BY DEF Releaser, WriteStop, FreeDecoder, CloseTcp, CloseUdp, Forget,
           CancelJob, JoinJob, StopPlayer, Releases, CoordOK
  <1>3. /\ field'[i] = field[i]
        /\ \A t \in {"tcp", "udp", "decoder", "track"}, j \in Job :
              owner[j] = i /\ <<t, j>> \in open => <<t, j>> \in open'
        /\ open' \subseteq open /\ told \subseteq told'
    BY ReleaserLeaves
  <1> QED
    BY <1>1, <1>2, <1>3 DEF Same

(* One step of the coroutine that releases instance i.                     *)
LEMMA ReleaserReleases ==
    ASSUME Base, NEW i \in Instance, i \in leftPlaying, Releasing(i), Joined(i),
           Releaser(i)
    PROVE  Releasing(i)'
  <1>1. /\ UNCHANGED <<streamingJob, body, receiver, player, serverUp,
                       leftPlaying>>
        /\ releaser[i] # "none"
    BY ReleaserShape DEF Releaser, childVars, ReleaserGoes, mainVars, history
  <1>2. /\ streamingJob[i] \in Job /\ streamingJob[i] # None
        /\ field \in [Instance -> [Fields -> Job \union {None}]]
        /\ releaser \in [Instance -> ReleaseSteps]
        /\ joining \in [Instance -> Job \union {None}]
    BY <1>1, BaseParts, Numbers DEF Releasing, Owned, CoordOK
  <1> USE <1>1, <1>2 DEF Releasing, Session, Opened, Complete, Releases, Fields
  <1>3. CASE WriteStop(i)
    BY <1>3 DEF WriteStop
  <1>4. CASE FreeDecoder(i)
    BY <1>4 DEF FreeDecoder
  <1>5. CASE CloseTcp(i)
    BY <1>5 DEF CloseTcp
  <1>6. CASE CloseUdp(i)
    BY <1>6 DEF CloseUdp
  <1>7. CASE Forget(i)
    BY <1>7 DEF Forget
  <1>8. CASE CancelJob(i)
    BY <1>8 DEF CancelJob
  <1>9. CASE JoinJob(i)
    BY <1>9 DEF JoinJob
  <1>10. CASE StopPlayer(i)
    BY <1>10 DEF StopPlayer
  <1> QED
    BY <1>3, <1>4, <1>5, <1>6, <1>7, <1>8, <1>9, <1>10 DEF Releaser

LEMMA ReleaserKeeps ==
    ASSUME Base, NEW i \in Instance, Releaser(i), Solo(i)
    PROVE  Solo(i)'
  <1> USE BaseParts
  <1>1. UNCHANGED <<jobs, owner, streamingJob, body, receiver, player,
                    leftPlaying>>
    BY DEF Releaser, childVars, mainVars, history
  <1>2. releaser[i] # "none" /\ releaser'[i] # "none"
    BY ReleaserShape DEF ReleaserGoes, CoordOK
  <1>3. Alone(i)'
    BY <1>1 DEF Solo, Alone, Running, Complete
  <1>4. Telling(i)' /\ Holding(i)'
    BY <1>2 DEF Telling, Holding
  <1>5. Joined(i)'
    <2> USE <1>1 DEF Solo, Joined, Complete, Releases, CoordOK, Owned
    <2>1. CASE WriteStop(i) \/ FreeDecoder(i) \/ CloseTcp(i) \/ CloseUdp(i)
               \/ Forget(i)
      BY <2>1 DEF WriteStop, FreeDecoder, CloseTcp, CloseUdp, Forget
    <2>2. CASE CancelJob(i)
      BY <2>2 DEF CancelJob
    <2>3. CASE JoinJob(i)
      BY <2>3 DEF JoinJob
    <2>4. CASE StopPlayer(i)
      BY <2>4 DEF StopPlayer
    <2> QED
      BY <2>1, <2>2, <2>3, <2>4 DEF Releaser
  <1>6. Releasing(i)'
    BY <1>1, ReleaserReleases DEF Solo, Releasing
  <1> QED
    BY <1>3, <1>4, <1>5, <1>6 DEF Solo

(* Nobody leaves a session in a step that releases none.                   *)
LEMMA NoStop ==
    ASSUME Base, UNCHANGED releaser
    PROVE  ~StopStreaming
  BY BaseParts, Numbers DEF StopStreaming, Release, SystemOK, CoordOK

LEMMA SoloStep ==
    ASSUME Base, [Next]_vars, NEW i \in Instance, Solo(i), i \notin crowded'
    PROVE  Solo(i)'
  <1> USE BaseParts
  <1>1. CASE UNCHANGED vars \/ ServerDies
    <2>1. ~StopStreaming
      BY <1>1, NoStop DEF vars, ServerDies, coordVars
    <2> QED
      BY <1>1, <2>1, MainSame, SameKeeps
  <1>2. CASE User
    <2>1. CASE StopStreaming /\ binder = i
      BY <1>2, <2>1, StopKeeps
    <2>2. CASE ~(StopStreaming /\ binder = i)
      BY <1>2, <2>2, MainSame, SameKeeps
    <2> QED
      BY <2>1, <2>2
  <1>3. CASE Callbacks /\ ~Launch
    <2>1. ~StopStreaming
      BY <1>3, NoStop, CallbackSteps, MainAside DEF coordVars
    <2> QED
      BY <1>3, <2>1, MainSame, SameKeeps
  <1>4. CASE Callbacks /\ Launch
    <2>1. ~crashed \/ UNCHANGED vars
      BY DEF Next
    <2> QED
      BY <1>1, <1>4, <2>1, LaunchSame, LaunchKeeps, SameKeeps
  <1>5. ASSUME NEW j \in Job, Body(j) PROVE Solo(i)'
    BY <1>5, BodySame, SameKeeps, OldBodyKeeps, LastBodyKeeps
  <1>6. ASSUME NEW j \in Job, Receiver(j) \/ Player(j) PROVE Solo(i)'
    BY <1>6, ChildKeeps
  <1>7. ASSUME NEW k \in Instance, Releaser(k) PROVE Solo(i)'
    BY <1>7, ReleaserSame, SameKeeps, ReleaserKeeps
  <1> QED
    BY <1>1, <1>2, <1>3, <1>4, <1>5, <1>6, <1>7, Steps

LEMMA InitSolo ==
    ASSUME Init, NEW i \in Instance
    PROVE  Solo(i)
  BY Numbers DEF Init, Solo, Alone, Telling, Holding, Joined, Releasing

-----------------------------------------------------------------------------
(* The screen                                                              *)

(* A session that the screen shows as playing plays.                       *)
Watching(i) ==
    releaser[i] = "none" /\ seen[i] = "Playback" => state[i] = "Playback"

(* An instance that was left by a screen that still collects from it.      *)
Left(i) ==
    /\ state[i] = "Idle" /\ releaser[i] # "none"
    /\ streamingJob[i] # None => body[streamingJob[i]] \in {"launch", "ended"}

Watched == {i \in Instance : seen[i] # "off"}

(* What the screen was told, and what is still to come: when a session was *)
(* left, the last collection from it.                                      *)
BoundScreen ==
    /\ seen[binder] # "off" /\ connection = UiOf(seen[binder])
    /\ \A i \in Watched \ {binder} : seen[i] = "Idle"
LeftScreen ==
    \/ /\ connection = "DISCONNECTED"
       /\ \A i \in Watched : seen[i] = "Idle"
    \/ /\ viewModel \notin bindings /\ connection = "CONNECTED"
       /\ \E i \in Watched :
             /\ seen[i] = "Playback"
             /\ \A k \in Watched \ {i} : seen[k] = "Idle"
ScreenFollows ==
    /\ cleared => Watched = {}
    /\ Watched \intersect crowded = {} =>
          /\ binder # None => BoundScreen
          /\ binder = None /\ ~cleared => LeftScreen
          /\ \A i \in Watched \ {binder} : Left(i)

(* A job of an instance that is left, or plays, changes its state no more. *)
LEMMA QuietBody ==
    ASSUME Base, NEW i \in Instance, NEW j \in Job, Body(j), Alone(i),
           streamingJob[i] # None =>
               body[streamingJob[i]] \in {"launch", "ended"}
    PROVE  /\ state'[i] = state[i]
           /\ streamingJob[i] # None =>
                 body'[streamingJob[i]] \in {"launch", "ended"}
  <1> USE BaseParts
  <1>1. /\ body[j] \notin {"none", "ended"} /\ j <= jobs
        /\ \A k \in Job : k # j => body'[k] = body[k]
        /\ owner[j] # i => state'[i] = state[i]
    BY BodyLeaves
  <1>2. streamingJob[i] # None =>
            streamingJob[i] \in Job /\ owner[streamingJob[i]] = i
    BY DEF Owned
  <1>3. CASE owner[j] # i
    BY <1>1, <1>2, <1>3
  <1>4. CASE owner[j] = i
    <2>1. CASE j = streamingJob[i]
      <3>1. body[j] = "launch"
        BY <1>1, <2>1, Numbers
      <3> QED
        BY <2>1, <3>1, BodyEnds
    <2>2. CASE j # streamingJob[i]
      <3>1. body[j] = "new" /\ cancelled[j]
        BY <1>1, <1>4, <2>2 DEF Alone, Running, Complete, LastIsLive
      <3> QED
        BY <1>1, <1>2, <2>2, <3>1, BodyEnds
    <2> QED
      BY <2>1, <2>2
  <1> QED
    BY <1>3, <1>4

LEMMA WatchStep ==
    ASSUME Base, [Next]_vars, NEW i \in Instance, Solo(i), Watching(i)
    PROVE  Watching(i)'
  <1> USE BaseParts
  <1> SUFFICES ASSUME releaser'[i] = "none", seen'[i] = "Playback"
               PROVE  state'[i] = "Playback"
    BY DEF Watching
  <1>1. CASE User
    <2>1. CASE TapStart \/ Reopen
      BY <2>1, MainAside DEF TapStart, Reopen, screenVars, coordVars, Watching
    <2>2. CASE TapStop
      BY <2>2 DEF TapStop, StopStreaming, Release, CoordOK, Watching
    <2>3. CASE Clear
      BY <2>3 DEF Clear
    <2> QED
      BY <1>1, <2>1, <2>2, <2>3, UserSteps
  <1>2. CASE Callbacks
    <2>1. CASE Launch
      BY <2>1, LaunchShape DEF Watching
    <2>2. CASE StartCommand
      BY <2>2 DEF StartCommand, screenVars, coordVars, Watching
    <2>3. ASSUME NEW v \in ViewModel, ServiceConnected(v)
          PROVE  state'[i] = "Playback"
      BY <2>3 DEF ServiceConnected, coordVars, Watching, CoordOK
    <2>4. ASSUME NEW k \in Instance, Deliver(k)
          PROVE  state'[i] = "Playback"
      BY <2>4 DEF Deliver, coordVars, Watching, CoordOK
    <2> QED
      BY <1>2, <2>1, <2>2, <2>3, <2>4, CallbackSteps
  <1>3. ASSUME NEW j \in Job, Body(j)
        PROVE  state'[i] = "Playback"
    <2>1. UNCHANGED <<seen, releaser>>
      BY <1>3, BodyLeaves
    <2>2. state[i] = "Playback"
      BY <2>1 DEF Watching
    <2> QED
      BY <1>3, <2>1, <2>2, QuietBody DEF Solo, Telling
  <1>4. CASE \/ UNCHANGED vars \/ ServerDies
             \/ \E j \in Job : Receiver(j) \/ Player(j)
             \/ \E k \in Instance : Releaser(k)
    <2>1. UNCHANGED <<seen, state>>
      BY <1>4, Aside
    <2>2. releaser[i] = "none"
      <3>1. CASE UNCHANGED vars \/ ServerDies
        BY <3>1 DEF vars, ServerDies, coordVars
      <3>2. CASE \E j \in Job : Receiver(j) \/ Player(j)
        BY <3>2 DEF Receiver, Player, ChildRest, coordVars
      <3>3. CASE \E k \in Instance : Releaser(k)
        BY <3>3, ReleaserShape DEF ReleaserGoes, CoordOK
      <3> QED
        BY <1>4, <3>1, <3>2, <3>3
    <2> QED
      BY <2>1, <2>2 DEF Watching
  <1> QED
    BY <1>1, <1>2, <1>3, <1>4, Steps

LEMMA UiOfPlays ==
    /\ \A p : UiOf(p) = "CONNECTED" => p = "Playback"
    /\ UiOf("Idle") = "DISCONNECTED"
  <1>1. /\ "Idle" # "Connecting" /\ "Idle" # "Playback"
        /\ "DISCONNECTED" # "CONNECTED" /\ "CONNECTING" # "CONNECTED"
    OBVIOUS
  <1>2. UiOf("Idle") = "DISCONNECTED"
    BY <1>1, Zenon DEF UiOf
  <1>3. ASSUME NEW p, UiOf(p) = "CONNECTED"
        PROVE  p = "Playback"
    BY <1>1, <1>3, Zenon DEF UiOf
  <1> QED
    BY <1>2, <1>3

LEMMA LeftKeeps ==
    ASSUME Base, [Next]_vars, NEW i \in Instance, Alone(i), Left(i),
           i \notin crowded'
    PROVE  Left(i)'
  <1> USE BaseParts, Numbers
  <1>0. streamingJob[i] # None =>
            streamingJob[i] \in Job /\ streamingJob[i] <= jobs
    BY DEF Owned
  <1>1. CASE \/ User
             \/ Callbacks /\ ~Launch
    <2>1. UNCHANGED <<streamingJob, body>>
      BY <1>1, JobsAside
    <2>2. state'[i] = "Idle" /\ releaser'[i] # "none"
      <3>1. CASE StopStreaming
        BY <3>1 DEF StopStreaming, Release, Left, CoordOK
      <3>2. CASE ~StopStreaming
        BY <1>1, <3>2, JobsAside DEF Left
      <3> QED
        BY <3>1, <3>2
    <2> QED
      BY <2>1, <2>2 DEF Left
  <1>2. CASE Callbacks /\ Launch
    <2>1. launching # i
      BY <1>2 DEF Launch, Left
    <2>2. /\ UNCHANGED <<state, releaser>> /\ streamingJob'[i] = streamingJob[i]
          /\ jobs \in Nat /\ \A j \in Job : j <= jobs => body'[j] = body[j]
      BY <1>2, <2>1, LaunchShape DEF Owned, Launched, SystemOK
    <2> QED
      BY <1>0, <2>2 DEF Left
  <1>3. ASSUME NEW j \in Job, Body(j) PROVE Left(i)'
    BY <1>3, BodyLeaves, QuietBody DEF Left
  <1>4. CASE \/ UNCHANGED vars \/ ServerDies
             \/ \E j \in Job : Receiver(j) \/ Player(j)
             \/ \E k \in Instance : Releaser(k)
    <2>1. UNCHANGED <<state, streamingJob, body>>
      BY <1>4, Aside
    <2>2. releaser'[i] # "none"
      <3>1. CASE UNCHANGED vars \/ ServerDies
        BY <3>1 DEF vars, ServerDies, coordVars, Left
      <3>2. CASE \E j \in Job : Receiver(j) \/ Player(j)
        BY <3>2 DEF Receiver, Player, ChildRest, coordVars, Left
      <3>3. CASE \E k \in Instance : Releaser(k)
        BY <3>3, ReleaserShape DEF ReleaserGoes, CoordOK, Left
      <3> QED
        BY <1>4, <3>1, <3>2, <3>3
    <2> QED
      BY <2>1, <2>2 DEF Left
  <1> QED
    BY <1>1, <1>2, <1>3, <1>4, Steps

SessionsInv ==
    /\ Base /\ leftPlaying \subseteq Instance
    /\ \A i \in Instance : i \notin crowded => Solo(i) /\ Watching(i)
    /\ ScreenFollows

LEMMA LeftStep ==
    ASSUME Base, [Next]_vars, leftPlaying \subseteq Instance
    PROVE  leftPlaying' \subseteq Instance
  <1>1. UNCHANGED leftPlaying \/ StopStreaming
    <2> USE DEF history
    <2>1. CASE User
      BY <2>1, UserSteps DEF TapStart, TapStop, Clear, Reopen
    <2>2. CASE Callbacks
      BY <2>2, CallbackSteps
         DEF Launch, StartCommand, ServiceConnected, Deliver
    <2>3. ASSUME NEW j \in Job, Body(j) PROVE UNCHANGED leftPlaying
      BY <2>3 DEF Body, mainVars
    <2> QED
      BY <2>1, <2>2, <2>3, Aside, Steps
  <1> QED
    BY <1>1, BaseParts, Numbers DEF StopStreaming, Release, SystemOK

(* The screen's premise is only brought about by closing the screen.       *)
LEMMA ScreenMain ==
    ASSUME SessionsInv, [Next]_vars, Watched' \intersect crowded' = {},
           UNCHANGED <<seen, connection, binder, cleared, viewModel>>,
           connection = "CONNECTED" /\ viewModel \in bindings' =>
               viewModel \in bindings
    PROVE  ScreenFollows'
  <1> USE DEF SessionsInv
  <1>1. /\ Watched' = Watched /\ Watched \subseteq Instance
        /\ Watched \intersect crowded = {}
    BY HistoryGrows DEF Watched
  <1>2. \A i \in Watched \ {binder} : Left(i)'
    BY <1>1, LeftKeeps DEF ScreenFollows, Solo
  <1>3. binder # None => BoundScreen'
    BY <1>1 DEF ScreenFollows, BoundScreen
  <1>4. binder = None /\ ~cleared => LeftScreen'
    BY <1>1 DEF ScreenFollows, LeftScreen
  <1> QED
    BY <1>1, <1>2, <1>3, <1>4 DEF ScreenFollows

LEMMA ScreenUser ==
    ASSUME SessionsInv, [Next]_vars, User
    PROVE  ScreenFollows'
  <1> USE BaseParts, Numbers DEF SessionsInv
  <1>0. CASE cleared' /\ Watched' = {} /\ binder' = None
    BY <1>0 DEF ScreenFollows
  <1>1. CASE TapStart
    <2>1. UNCHANGED <<seen, connection, binder, cleared, viewModel>>
      BY <1>1 DEF TapStart, screenVars
    <2>2. connection = "DISCONNECTED"
      BY <1>1 DEF TapStart
    <2>3. CASE Watched' \intersect crowded' = {}
      BY <2>1, <2>2, <2>3, ScreenMain
    <2> QED
      BY <1>1, <2>1, <2>3 DEF ScreenFollows, TapStart, Watched
  <1>2. CASE TapStop
    <2>1. /\ binder \in Instance /\ binder # None /\ releaser[binder] = "none"
          /\ ~cleared /\ cleared' = cleared /\ connection = "CONNECTED"
          /\ UNCHANGED <<viewModel, connection, seen, streamingJob, body, crowded>>
          /\ state' = [state EXCEPT ![binder] = "Idle"]
          /\ releaser' = [releaser EXCEPT ![binder] = "write"]
          /\ binder' = None /\ bindings' = bindings \ {viewModel}
      <3>1. binder \in Instance /\ binder # None
        BY <1>2 DEF TapStop, StopStreaming, SystemOK
      <3> QED
        BY <1>2, <3>1 DEF TapStop, StopStreaming, Release, Unbind, jobVars
    <2> SUFFICES ASSUME Watched \intersect crowded = {}
                 PROVE  LeftScreen' /\ \A i \in Watched : Left(i)'
      BY <2>1 DEF ScreenFollows, Watched
    <2>2. BoundScreen /\ \A i \in Watched \ {binder} : Left(i)
      BY <2>1 DEF ScreenFollows
    <2>3. seen[binder] = "Playback" /\ binder \in Watched
      BY <2>1, <2>2, UiOfPlays DEF BoundScreen, Watched
    <2>4. Solo(binder) /\ state[binder] = "Playback"
      BY <2>1, <2>3 DEF Watching
    <2>5. LeftScreen'
      BY <2>1, <2>2, <2>3 DEF LeftScreen, BoundScreen, Watched
    <2>6. \A i \in Watched : Left(i)'
      BY <2>1, <2>2, <2>4 DEF Left, Solo, Telling, CoordOK, Watched
    <2> QED
      BY <2>5, <2>6
  <1>3. CASE Clear
    <2>1. /\ cleared' /\ \A i \in Instance : seen'[i] = "off"
      BY <1>3 DEF Clear
    <2>2. binder' = None
      BY <1>3 DEF Clear, StopStreaming, Unbind
    <2> QED
      BY <1>0, <2>1, <2>2 DEF Watched
  <1>4. CASE Reopen
    <2>1. /\ cleared /\ ~cleared' /\ UNCHANGED <<binder, seen>>
          /\ connection' = "DISCONNECTED"
      BY <1>4 DEF Reopen
    <2>2. binder = None /\ Watched' = {}
      BY <2>1 DEF SystemOK, ScreenFollows, Watched
    <2> QED
      BY <2>1, <2>2 DEF ScreenFollows, LeftScreen
  <1> QED
    BY <1>1, <1>2, <1>3, <1>4, UserSteps

LEMMA ScreenConnected ==
    ASSUME SessionsInv, [Next]_vars, NEW v \in ViewModel, ServiceConnected(v)
    PROVE  ScreenFollows'
  <1> USE BaseParts, Numbers DEF SessionsInv
  <1>1. UNCHANGED <<cleared, viewModel, bindings, service, state, crowded>>
    BY DEF ServiceConnected, coordVars, history
  <1> SUFFICES ASSUME Watched' \intersect crowded' = {} PROVE ScreenFollows'
    BY <1>1 DEF ScreenFollows, ServiceConnected, Watched
  <1>2. CASE v = viewModel /\ ~cleared
    <2>1. /\ binder = None /\ viewModel \in bindings /\ service \in Instance
          /\ service # None
      BY <1>2 DEF ServiceConnected, SystemOK
    <2>2. /\ binder' = service /\ connection' = UiOf(state[service])
          /\ seen' = [seen EXCEPT ![service] = state[service]]
          /\ state[service] # "off"
      BY <1>2, <2>1 DEF ServiceConnected, CoordOK, PlaybackState
    <2>3. /\ seen'[service] = state[service] /\ Watched \subseteq Watched'
          /\ \A i \in Watched' \ {service} : i \in Watched /\ seen'[i] = seen[i]
      BY <2>1, <2>2 DEF Watched, CoordOK
    <2>4. LeftScreen /\ \A i \in Watched : Left(i)
      <3>1. Watched \intersect crowded = {} /\ Watched \ {None} = Watched
        BY <1>1, <2>3 DEF Watched
      <3> QED
        BY <1>2, <2>1, <3>1 DEF ScreenFollows
    <2>5. \A i \in Watched : seen[i] = "Idle"
      BY <2>1, <2>4 DEF LeftScreen
    <2>6. BoundScreen'
      BY <1>1, <2>2, <2>3, <2>5 DEF BoundScreen
    <2>7. \A i \in Watched' \ {binder'} : Left(i)'
      <3> SUFFICES ASSUME NEW i \in Watched' \ {service} PROVE Left(i)'
        BY <2>2
      <3>1. i \in Watched /\ i \in Instance /\ i \notin crowded'
        BY <2>3 DEF Watched
      <3>2. Left(i) /\ Alone(i)
        BY <1>1, <2>4, <3>1 DEF Solo
      <3> QED
        BY <3>1, <3>2, LeftKeeps
    <2> QED
      BY <1>1, <1>2, <2>1, <2>2, <2>6, <2>7 DEF ScreenFollows
  <1>3. CASE ~(v = viewModel /\ ~cleared)
    <2>1. UNCHANGED <<seen, connection, binder>>
      BY <1>3 DEF ServiceConnected
    <2> QED
      BY <1>1, <2>1, ScreenMain
  <1> QED
    BY <1>2, <1>3

LEMMA ScreenDelivered ==
    ASSUME SessionsInv, [Next]_vars, NEW i \in Instance, Deliver(i)
    PROVE  ScreenFollows'
  <1> USE BaseParts, Numbers DEF SessionsInv
  <1>1. /\ UNCHANGED <<cleared, viewModel, binder, bindings, state, crowded>>
        /\ seen[i] \notin {"off", state[i]} /\ connection' = UiOf(state[i])
        /\ seen' = [seen EXCEPT ![i] = state[i]] /\ state[i] # "off"
    BY DEF Deliver, coordVars, history, systemVars, CoordOK, PlaybackState
  <1>2. /\ Watched' = Watched /\ i \in Watched /\ Watched \subseteq Instance
        /\ seen'[i] = state[i]
        /\ \A k \in Watched \ {i} : seen'[k] = seen[k]
    BY <1>1 DEF Watched, CoordOK
  <1>3. ~cleared
    BY <1>2 DEF ScreenFollows
  <1> SUFFICES ASSUME Watched \intersect crowded = {} PROVE ScreenFollows'
    BY <1>1, <1>2, <1>3 DEF ScreenFollows
  <1>4. \A k \in Watched \ {binder} : Left(k) /\ Left(k)'
    BY <1>1, <1>2, LeftKeeps DEF ScreenFollows, Solo
  <1>5. CASE binder = i
    <2>1. binder # None /\ BoundScreen
      BY <1>5 DEF ScreenFollows
    <2>2. BoundScreen'
      BY <1>1, <1>2, <1>5, <2>1 DEF BoundScreen
    <2> QED
      BY <1>1, <1>2, <1>3, <1>4, <2>1, <2>2 DEF ScreenFollows
  <1>6. CASE binder # i
    <2>1. state[i] = "Idle" /\ seen[i] # "Idle"
      BY <1>1, <1>2, <1>4, <1>6 DEF Left
    <2>2. binder = None
      BY <1>2, <1>6, <2>1 DEF ScreenFollows, BoundScreen
    <2>3. LeftScreen
      BY <1>3, <2>2 DEF ScreenFollows
    <2>4. \A k \in Watched \ {i} : seen[k] = "Idle"
      BY <1>2, <2>1, <2>3 DEF LeftScreen
    <2>5. connection' = "DISCONNECTED"
      BY <1>1, <2>1, UiOfPlays
    <2>6. LeftScreen'
      BY <1>2, <2>1, <2>4, <2>5 DEF LeftScreen
    <2> QED
      BY <1>1, <1>2, <1>3, <1>4, <2>2, <2>6 DEF ScreenFollows
  <1> QED
    BY <1>5, <1>6

LEMMA ScreenStep ==
    ASSUME SessionsInv, [Next]_vars
    PROVE  ScreenFollows'
  <1>1. ASSUME UNCHANGED <<seen, connection, binder, cleared, viewModel,
                           bindings>>
        PROVE  ScreenFollows'
    <2>1. CASE Watched' \intersect crowded' = {}
      BY <1>1, <2>1, ScreenMain
    <2> QED
      BY <1>1, <2>1 DEF SessionsInv, ScreenFollows, Watched
  <1>2. CASE Callbacks
    <2>1. CASE Launch \/ StartCommand
      BY <1>1, <2>1 DEF Launch, StartCommand, screenVars, systemVars
    <2> QED
      BY <1>2, <2>1, ScreenConnected, ScreenDelivered, CallbackSteps
  <1>3. ASSUME NEW j \in Job, Body(j)
        PROVE  ScreenFollows'
    BY <1>1, <1>3, Coroutines
  <1> QED
    BY <1>1, <1>2, <1>3, ScreenUser, Aside, Steps

LEMMA SessionsAlways == Spec => []SessionsInv
  <1>1. Init => SessionsInv
    <2> SUFFICES ASSUME Init PROVE SessionsInv
      OBVIOUS
    <2>1. Base
      BY InitSystem, InitRest, InitServing, InitBegun
         DEF Base, ServingInv, SessionInv
    <2>2. leftPlaying = {} /\ \A i \in Instance : Watching(i)
      BY DEF Init, Watching
    <2>3. ScreenFollows
      BY DEF Init, ScreenFollows, LeftScreen, Watched
    <2> QED
      BY <2>1, <2>2, <2>3, InitSolo DEF SessionsInv
  <1>2. SessionsInv /\ [Next]_vars => SessionsInv'
    <2> SUFFICES ASSUME SessionsInv, [Next]_vars PROVE SessionsInv'
      OBVIOUS
    <2>1. Base' /\ leftPlaying' \subseteq Instance
      BY BaseStep, LeftStep DEF SessionsInv
    <2>2. ASSUME NEW i \in Instance, i \notin crowded'
          PROVE  Solo(i)' /\ Watching(i)'
      <3>1. Base /\ Solo(i) /\ Watching(i)
        BY <2>2, HistoryGrows DEF SessionsInv
      <3> QED
        BY <2>2, <3>1, SoloStep, WatchStep
    <2> QED
      BY <2>1, <2>2, ScreenStep DEF SessionsInv
  <1> QED
    BY <1>1, <1>2, PTL DEF Spec

(* However the user taps, closes and opens the screen, whatever fails: when *)
(* nothing is on its way, the screen shows the state of the session it is  *)
(* bound to, and no connection when it is bound to none, unless it         *)
(* collects from an instance in which two jobs ran at once.                *)
THEOREM ScreenIsRight == Spec => []ScreenShowsSession
  <1>1. SessionsInv => ScreenShowsSession
    <2> SUFFICES ASSUME SessionsInv, Delivered, ~cleared,
                        \A i \in crowded : seen[i] = "off"
                 PROVE  connection = IF binder = None THEN "DISCONNECTED"
                                     ELSE UiOf(state[binder])
      BY DEF ScreenShowsSession
    <2>1. /\ Watched \intersect crowded = {} /\ ScreenFollows
          /\ \A i \in Instance : seen[i] \in {"off", state[i]}
      BY DEF SessionsInv, Delivered, Watched
    <2>2. CASE binder = None
      <3>1. \A i \in Watched : seen[i] # "Playback"
        BY <2>1, <2>2, Numbers DEF ScreenFollows, Left, Watched
      <3> QED
        BY <2>1, <2>2, <3>1 DEF ScreenFollows, LeftScreen
    <2>3. CASE binder # None
      <3>1. binder \in Instance /\ BoundScreen
        BY <2>1, <2>3, BaseParts, Numbers
           DEF SessionsInv, SystemOK, ScreenFollows
      <3> QED
        BY <2>1, <2>3, <3>1 DEF BoundScreen
    <2> QED
      BY <2>2, <2>3
  <1> QED
    BY <1>1, SessionsAlways, PTL

(* At whatever step of the handshake or of the playback a session is left: *)
(* when release() has let go of the AudioTrack, no player of the instance  *)
(* is writing to it and its receivers have stopped, unless two of its jobs *)
(* ran at once.                                                            *)
THEOREM PlayerStopsFirst == Spec => []TrackOutlivesPlayer
  <1>1. SessionsInv => TrackOutlivesPlayer
    <2> SUFFICES ASSUME SessionsInv, NEW j \in 1 .. jobs,
                        releaser[owner[j]] = "done", owner[j] \notin crowded
                 PROVE  /\ player[j] # "writing"
                        /\ receiver[j] \notin {"decode", "decoding"}
      BY DEF TrackOutlivesPlayer
    <2> USE BaseParts DEF SessionsInv
    <2>1. j \in Job /\ j <= jobs /\ owner[j] \in Instance
      BY Numbers DEF SystemOK, Owned
    <2>2. Alone(owner[j]) /\ Joined(owner[j])
      BY <2>1 DEF Solo
    <2>3. CASE j = streamingJob[owner[j]]
      BY <2>1, <2>2, <2>3, Numbers DEF Joined, Complete
    <2>4. CASE j # streamingJob[owner[j]]
      BY <2>1, <2>2, <2>4
         DEF Alone, Running, Complete, Begun, ChildrenLast
    <2> QED
      BY <2>3, <2>4
  <1> QED
    BY <1>1, SessionsAlways, PTL

(* A session that was left while it was streaming, unless the server has   *)
(* gone or two jobs of its instance ran at once: when release() has ended, *)
(* the server was told, and nothing of the session is open.                *)
THEOREM ReleaseCloses == Spec => []ReleasedIsClosed
  <1>1. SessionsInv => ReleasedIsClosed
    <2> SUFFICES ASSUME SessionsInv, NEW i \in leftPlaying \ crowded, serverUp,
                        releaser[i] = "done"
                 PROVE  /\ streamingJob[i] \in told
                        /\ open \intersect
                              ({"tcp", "udp", "decoder", "track"}
                                  \X {streamingJob[i]}) = {}
      BY DEF ReleasedIsClosed
    <2>1. i \in Instance
      BY DEF SessionsInv
    <2>2. /\ streamingJob[i] \in told
          /\ \A t \in {"tcp", "udp", "decoder", "track"} :
                <<t, streamingJob[i]>> \notin open
      BY <2>1 DEF SessionsInv, Solo, Releasing
    <2> QED
      BY <2>2
  <1> QED
    BY <1>1, SessionsAlways, PTL

=============================================================================
