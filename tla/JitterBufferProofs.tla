------------------------- MODULE JitterBufferProofs -------------------------
(***************************************************************************)
(* Theorems about JitterBuffer and about Concealment, which extends it, for*)
(* every target, window, channel, context and track.                       *)
(***************************************************************************)
EXTENDS Concealment, Functions, SequenceTheorems, FiniteSetTheorems,
        TLAPS

\* Appending a new element keeps a queue without repetition and adds exactly
\* that element to its range: a frame put into the channel.
LEMMA AppendDistinct ==
    ASSUME NEW S, NEW s \in Seq(S), NEW c \in S,
           IsInjective(s), c \notin Range(s)
    PROVE  /\ IsInjective(Append(s, c))
           /\ Range(Append(s, c)) = Range(s) \union {c}
  <1>1. \A i \in 1 .. Len(s) : s[i] # c
    BY DEF Range
  <1>2. IsInjective(Append(s, c))
    BY <1>1, AppendProperties DEF IsInjective
  <1>3. Range(Append(s, c)) = Range(s) \union {c}
    BY AppendProperties DEF Range
  <1> QED
    BY <1>2, <1>3

\* Removing the head keeps a queue without repetition and takes exactly that
\* element from its range: a frame read from the channel.
LEMMA TailDistinct ==
    ASSUME NEW S, NEW s \in Seq(S), s # <<>>, IsInjective(s)
    PROVE  /\ IsInjective(Tail(s))
           /\ Range(s) = Range(Tail(s)) \union {Head(s)}
           /\ Head(s) \notin Range(Tail(s))
  <1>1. \A i \in 1 .. Len(Tail(s)) : Tail(s)[i] = s[i + 1]
    BY HeadTailProperties
  <1>2. \A i \in 2 .. Len(s) : i - 1 \in 1 .. Len(Tail(s)) /\ s[i] = Tail(s)[i - 1]
    BY HeadTailProperties
  <1>3. IsInjective(Tail(s)) /\ Head(s) \notin Range(Tail(s))
    BY <1>1, EmptySeq DEF IsInjective, Range
  <1>4. ASSUME NEW x \in Range(s) PROVE x \in Range(Tail(s)) \union {Head(s)}
    <2>1. PICK i \in 1 .. Len(s) : x = s[i]
      BY DEF Range
    <2>2. CASE i = 1
      BY <2>1, <2>2
    <2>3. CASE i \in 2 .. Len(s)
      <3>1. Tail(s) \in Seq(S) /\ DOMAIN Tail(s) = 1 .. Len(Tail(s))
        BY HeadTailProperties
      <3>2. i - 1 \in DOMAIN Tail(s) /\ x = Tail(s)[i - 1]
        BY <1>2, <2>1, <2>3, <3>1
      <3> QED
        BY <3>2, Zenon DEF Range
    <2> QED
      BY <2>2, <2>3
  <1>5. Range(Tail(s)) \subseteq Range(s) /\ Head(s) \in Range(s)
    BY <1>1, EmptySeq DEF Range
  <1> QED
    BY <1>3, <1>4, <1>5

-----------------------------------------------------------------------------
(* Types                                                                   *)

LEMMA InitType == Init => TypeOK
<1> SUFFICES ASSUME Init PROVE TypeOK
  OBVIOUS
<1> USE JitterAssumption
<1>1. onWire \subseteq 0 .. sent - 1 /\ sent \in 0 .. LastId + 1
  BY DEF Init
<1>2. audioQueue \in Seq(Id) /\ Len(audioQueue) <= ChannelCapacity
  BY DEF Init
<1> QED BY <1>1, <1>2 DEF Init, TypeOK, Steps

LEMMA OfferedType ==
    ASSUME TypeOK, NEW id \in Id
    PROVE  /\ Offered(id) \in Seq(Id)
           /\ Len(Offered(id)) <= ChannelCapacity
<1>1. audioQueue \in Seq(Id) /\ Len(audioQueue) \in Nat
      /\ Len(audioQueue) <= ChannelCapacity /\ ChannelCapacity \in Nat \ {0}
  BY JitterAssumption DEF TypeOK
<1>2. CASE Len(audioQueue) < ChannelCapacity
  BY <1>1, <1>2, AppendProperties DEF Offered
<1>3. CASE ~(Len(audioQueue) < ChannelCapacity)
  <2>1. audioQueue # <<>>
    BY <1>1, <1>3
  <2>2. Tail(audioQueue) \in Seq(Id) /\ Len(Tail(audioQueue)) = Len(audioQueue) - 1
    BY <1>1, <2>1, HeadTailProperties
  <2>3. Append(Tail(audioQueue), id) \in Seq(Id)
        /\ Len(Append(Tail(audioQueue), id)) = Len(audioQueue)
    BY <1>1, <2>2, AppendProperties
  <2> QED BY <1>1, <1>3, <2>3 DEF Offered
<1> QED BY <1>2, <1>3

LEMMA NextType == TypeOK /\ [Next]_vars => TypeOK'
<1> SUFFICES ASSUME TypeOK, [Next]_vars PROVE TypeOK'
  OBVIOUS
<1> USE JitterAssumption
<1>0. CASE UNCHANGED vars
  BY <1>0 DEF TypeOK, vars, netVars, playerVars
<1>1. CASE Send
  <2>1. sent' \in 0 .. LastId + 1 /\ onWire' \subseteq 0 .. sent' - 1
    BY <1>1 DEF Send, TypeOK
  <2> QED BY <1>1, <2>1 DEF Send, TypeOK, playerVars
<1>2. CASE Arrive
  <2>1. PICK id \in onWire :
          /\ audioQueue' = Offered(id)
          /\ onWire' \subseteq onWire
          /\ UNCHANGED <<sent, pc, playerVars>>
    BY <1>2 DEF Arrive
  <2>2. id \in Id
    BY DEF TypeOK, Id
  <2>3. audioQueue' \in Seq(Id) /\ Len(audioQueue') <= ChannelCapacity
    BY <2>1, <2>2, OfferedType
  <2> QED BY <2>1, <2>3 DEF TypeOK, playerVars
<1>3. CASE TimePasses
  BY <1>3 DEF TimePasses, TypeOK, netVars
<1>4. CASE Player
  <2> USE <1>4 DEF Player, netVars, TypeOK, Steps
  <2>1. CASE LoopHead
    BY <2>1 DEF LoopHead, playerVars
  <2>2. CASE Receive
    <3>1. Head(audioQueue) \in Id /\ Tail(audioQueue) \in Seq(Id)
          /\ Len(Tail(audioQueue)) <= ChannelCapacity
      BY <2>2, HeadTailProperties DEF Receive
    <3> QED BY <2>2, <3>1 DEF Receive
  <2>3. CASE Drained
    BY <2>3 DEF Drained, playerVars
  <2>4. CASE KeepBuffering
    BY <2>4 DEF KeepBuffering, playerVars
  <2>5. CASE StartPlayout
    <3>1. PICK minId \in buffer : expectedId' = minId
      BY <2>5 DEF StartPlayout
    <3>2. expectedId' \in Id
      BY <3>1
    <3>3. expectedId' \in Int
      BY <3>2 DEF Id
    <3>4. /\ buffering' = FALSE /\ lead' = 0 /\ pc' = "prune"
          /\ UNCHANGED <<sent, onWire, audioQueue, buffer, losses, heard>>
      BY <2>5 DEF StartPlayout
    <3>5. lead' \in Int /\ pc' \in Steps
      BY <3>4
    <3>6. buffering' \in BOOLEAN
      BY <3>4, Zenon
    <3> QED BY <3>3, <3>4, <3>5, <3>6
  <2>6. CASE Prune
    BY <2>6 DEF Prune
  <2>7. CASE Resync
    BY <2>7 DEF Resync, Id
  <2>8. CASE NoResync
    BY <2>8 DEF NoResync, playerVars
  <2>9. CASE WaitForDeadline
    BY <2>9 DEF WaitForDeadline, playerVars
  <2>10. CASE Play
    <3>1. expectedId \in Id
      BY <2>10 DEF Play, Lost
    <3> QED BY <2>10, <3>1 DEF Play, Advance
  <2>11. CASE Conceal
    <3>1. losses' \in 0 .. MaxLosses - 1
      BY <2>11 DEF Conceal, TooManyLosses
    <3> QED BY <2>11, <3>1 DEF Conceal, Advance
  <2>12. CASE ConcealFails
    <3>1. losses' \in 0 .. MaxLosses - 1
      BY <2>12 DEF ConcealFails, TooManyLosses
    <3> QED BY <2>12, <3>1 DEF ConcealFails
  <2>13. CASE Rebuffer
    BY <2>13 DEF Rebuffer
  <2> QED BY <2>1, <2>2, <2>3, <2>4, <2>5, <2>6, <2>7, <2>8, <2>9, <2>10,
            <2>11, <2>12, <2>13
<1>5. CASE Ended
  BY <1>5 DEF Ended, TypeOK, vars, netVars, playerVars
<1> QED BY <1>0, <1>1, <1>2, <1>3, <1>4, <1>5 DEF Next

\* Every variable keeps its type; in particular fewer than MaxLosses losses
\* in a row are ever concealed, and the channel keeps its capacity.
THEOREM TypeCorrect == Spec => []TypeOK
<1> QED BY InitType, NextType, PTL DEF Spec

-----------------------------------------------------------------------------
(* The playout position                                                    *)

\* After Prune nothing in the buffer is older than the window, only a running
\* playout gets there, and it is at most one frame ahead of its clock.
PositionInv ==
    /\ TypeOK
    /\ NeverAheadOfClock
    /\ pc \in {"prune", "resync", "clock"} => ~buffering
    /\ pc = "fill" => buffering
    /\ pc = "resync" => \A id \in buffer : id >= expectedId - LateWindow

LEMMA InitPosition == Init => PositionInv
BY InitType DEF Init, PositionInv, NeverAheadOfClock

LEMMA NextPosition == PositionInv /\ [Next]_vars => PositionInv'
<1> SUFFICES ASSUME PositionInv, [Next]_vars PROVE PositionInv'
  OBVIOUS
<1> USE JitterAssumption
<1>0. TypeOK /\ TypeOK'
  BY NextType DEF PositionInv
<1> DEFINE Rest == /\ NeverAheadOfClock
                   /\ pc \in {"prune", "resync", "clock"} => ~buffering
                   /\ pc = "fill" => buffering
                   /\ pc = "resync" =>
                        \A id \in buffer : id >= expectedId - LateWindow
<1> SUFFICES Rest'
  BY <1>0 DEF PositionInv
<1>1. Rest
  BY DEF PositionInv
<1>2. CASE UNCHANGED <<pc, playerVars>>
  BY <1>1, <1>2 DEF playerVars, NeverAheadOfClock
<1>3. CASE TimePasses
  BY <1>0, <1>1, <1>3 DEF TimePasses, NeverAheadOfClock, TypeOK
<1>4. CASE Player
  <2>1. CASE LoopHead \/ Drained \/ KeepBuffering \/ NoResync
               \/ WaitForDeadline \/ ConcealFails
    BY <1>1, <2>1 DEF LoopHead, Drained, KeepBuffering, NoResync,
          WaitForDeadline, ConcealFails, playerVars, NeverAheadOfClock
  <2>2. CASE Receive
    BY <1>1, <2>2 DEF Receive, NeverAheadOfClock
  <2>3. CASE StartPlayout
    BY <2>3 DEF StartPlayout, NeverAheadOfClock
  <2>4. CASE Prune
    BY <1>0, <1>1, <2>4 DEF Prune, NeverAheadOfClock, TypeOK
  <2>5. CASE Resync
    BY <1>1, <2>5 DEF Resync, NeverAheadOfClock
  <2>6. CASE Play \/ Conceal
    <3>1. lead <= 0 /\ lead' = lead + 1 /\ pc' = "head"
      BY <2>6 DEF Play, Conceal, Advance
    <3> QED BY <3>1, <1>0 DEF NeverAheadOfClock, TypeOK
  <2>7. CASE Rebuffer
    BY <2>7 DEF Rebuffer, NeverAheadOfClock
  <2> QED BY <1>4, <2>1, <2>2, <2>3, <2>4, <2>5, <2>6, <2>7 DEF Player
<1>5. CASE Send \/ Arrive \/ Ended \/ UNCHANGED vars
  <2>1. UNCHANGED <<pc, playerVars>>
    BY <1>5 DEF Send, Arrive, Ended, vars
  <2> QED BY <2>1, <1>2
<1> QED BY <1>3, <1>4, <1>5 DEF Next

\* The position is never more than the frame being played ahead of the clock.
THEOREM PlaysInRealTime == Spec => []NeverAheadOfClock
<1>1. Spec => []PositionInv
  BY InitPosition, NextPosition, PTL DEF Spec
<1>2. PositionInv => NeverAheadOfClock
  BY DEF PositionInv
<1> QED BY <1>1, <1>2, PTL

\* More than n frames between two ids need more than n ids.
LEMMA ManyFramesReachFar ==
    ASSUME NEW S \in SUBSET Int, NEW a \in Int, NEW b \in Int,
           NEW n \in Nat, \A id \in S : a <= id /\ id <= b,
           Cardinality(S) > n
    PROVE  b >= a + n
<1>1. S \subseteq a .. b
  OBVIOUS
<1>2. IsFiniteSet(a .. b)
      /\ Cardinality(a .. b) = IF a > b THEN 0 ELSE b - a + 1
  BY FS_Interval
<1>3. IsFiniteSet(S) /\ Cardinality(S) <= Cardinality(a .. b)
  BY <1>1, <1>2, FS_Subset
<1>4. Cardinality(S) \in Nat /\ Cardinality(a .. b) \in Nat
  BY <1>2, <1>3, FS_CardinalityType
<1> QED BY <1>2, <1>3, <1>4

\* Frames from a window of n ids are at most n.
LEMMA FewFramesInWindow ==
    ASSUME NEW S \in SUBSET Int, NEW a \in Int, NEW b \in Int,
           NEW n \in Nat, \A id \in S : a <= id /\ id <= b,
           b - a < n
    PROVE  Cardinality(S) <= n
<1>1. S \subseteq a .. b
  OBVIOUS
<1>2. IsFiniteSet(a .. b)
      /\ Cardinality(a .. b) = IF a > b THEN 0 ELSE b - a + 1
  BY FS_Interval
<1>3. IsFiniteSet(S) /\ Cardinality(S) <= Cardinality(a .. b)
  BY <1>1, <1>2, FS_Subset
<1>4. Cardinality(S) \in Nat
  BY <1>3, FS_CardinalityType
<1> QED BY <1>2, <1>3, <1>4

\* With no more than 2 * BufferTarget late frames counted in, an overfull
\* buffer reaches so far ahead that the new position lies behind the old one.
LEMMA ResyncJumpsAhead ==
    ASSUME PositionInv, Resync
    PROVE  expectedId' > expectedId
<1> USE JitterAssumption
<1>1. PICK maxId \in buffer : /\ \A id \in buffer : id <= maxId
                              /\ expectedId' = maxId - BufferTarget + 1
  BY DEF Resync
<1>2. /\ expectedId \in Int /\ maxId \in Int /\ buffer \in SUBSET Int
      /\ expectedId - LateWindow \in Int /\ 3 * BufferTarget \in Nat
  BY DEF PositionInv, TypeOK, Id
<1>3. \A id \in buffer : expectedId - LateWindow <= id /\ id <= maxId
  BY <1>1, <1>2 DEF Resync, PositionInv
<1>4. Cardinality(buffer) > 3 * BufferTarget
  BY DEF Resync, Overfull
<1>5. maxId >= expectedId - LateWindow + 3 * BufferTarget
  BY <1>2, <1>3, <1>4, ManyFramesReachFar
<1> QED BY <1>1, <1>2, <1>5

\* While the playout runs, no step moves its position back.
THEOREM PlayoutForward == Spec => PlaysForward
<1>1. PositionInv /\ [Next]_vars => [~buffering => expectedId' >= expectedId]_vars
  <2> SUFFICES ASSUME PositionInv, Next, ~buffering
               PROVE  expectedId' >= expectedId
    OBVIOUS
  <2>0. expectedId \in Int
    BY DEF PositionInv, TypeOK
  <2>1. CASE Player
    <3>1. CASE LoopHead \/ Drained \/ KeepBuffering \/ NoResync
                 \/ WaitForDeadline \/ Receive \/ Prune \/ ConcealFails
                 \/ Rebuffer
      BY <2>0, <3>1 DEF LoopHead, Drained, KeepBuffering, NoResync,
            WaitForDeadline, Receive, Prune, ConcealFails, Rebuffer,
            playerVars
    <3>2. ~StartPlayout
      BY DEF StartPlayout, PositionInv
    <3>3. CASE Resync
      <4>1. expectedId' > expectedId
        BY <3>3, ResyncJumpsAhead
      <4>2. expectedId' \in Int
        BY NextType DEF PositionInv, TypeOK
      <4> QED BY <2>0, <4>1, <4>2
    <3>4. CASE Play \/ Conceal
      BY <2>0, <3>4 DEF Play, Conceal, Advance
    <3> QED BY <2>1, <3>1, <3>2, <3>3, <3>4 DEF Player
  <2>2. CASE Send \/ Arrive \/ TimePasses \/ Ended
    BY <2>0, <2>2 DEF Send, Arrive, TimePasses, Ended, vars, playerVars
  <2> QED BY <2>1, <2>2 DEF Next
<1>2. Spec => []PositionInv
  BY InitPosition, NextPosition, PTL DEF Spec
<1> QED BY <1>1, <1>2, PTL DEF Spec, PlaysForward

\* A jump leaves at most BufferTarget + LateWindow frames inside the window.
THEOREM ResyncLeavesRoom == Spec => ResyncSettles
<1>1. PositionInv /\ [Next]_vars =>
        [Resync => Cardinality({id \in buffer' : id >= expectedId' - LateWindow})
                     <= 3 * BufferTarget]_vars
  <2> SUFFICES ASSUME PositionInv, Resync
               PROVE  Cardinality({id \in buffer' : id >= expectedId' - LateWindow})
                        <= 3 * BufferTarget
    OBVIOUS
  <2> USE JitterAssumption
  <2> DEFINE Window == {id \in buffer' : id >= expectedId' - LateWindow}
  <2>1. PICK maxId \in buffer : /\ \A id \in buffer : id <= maxId
                                /\ expectedId' = maxId - BufferTarget + 1
    BY DEF Resync
  <2>2. /\ maxId \in Int /\ buffer' = buffer /\ buffer \in SUBSET Int
        /\ expectedId' - LateWindow \in Int /\ 3 * BufferTarget \in Nat
    BY <2>1 DEF PositionInv, TypeOK, Id, Resync
  <2>3. Window \in SUBSET Int
        /\ \A id \in Window : expectedId' - LateWindow <= id /\ id <= maxId
    BY <2>1, <2>2
  <2>4. maxId - (expectedId' - LateWindow) < 3 * BufferTarget
    BY <2>1, <2>2
  <2> HIDE DEF Window
  <2>5. Cardinality(Window) <= 3 * BufferTarget
    BY <2>2, <2>3, <2>4, FewFramesInWindow
  <2> QED BY <2>5 DEF Window
<1>2. Spec => []PositionInv
  BY InitPosition, NextPosition, PTL DEF Spec
<1> QED BY <1>1, <1>2, PTL DEF Spec, ResyncSettles

-----------------------------------------------------------------------------
(* Every frame is in one place                                             *)

\* Without duplication by the network an id is on the wire, in the channel,
\* in the buffer or heard, at most one of them, and at most once.
OnePlace ==
    /\ IsInjective(audioQueue)
    /\ onWire \union Range(audioQueue) \union buffer \union heard \subseteq 0 .. sent - 1
    /\ onWire \intersect (Range(audioQueue) \union buffer \union heard) = {}
    /\ Range(audioQueue) \intersect (buffer \union heard) = {}
    /\ buffer \intersect heard = {}

PlaceInv == TypeOK /\ (~Duplicates => OnePlace)

LEMMA InitPlace == Init => PlaceInv
<1> SUFFICES ASSUME Init PROVE OnePlace
  BY InitType DEF PlaceInv
<1>1. IsInjective(audioQueue) /\ Range(audioQueue) = {}
  BY DEF Init, IsInjective, Range
<1> QED BY <1>1 DEF Init, OnePlace

\* trySend() of a frame that is nowhere else adds it to the channel, at most
\* at the cost of another.
LEMMA OfferedDistinct ==
    ASSUME TypeOK, NEW id \in Id, IsInjective(audioQueue),
           id \notin Range(audioQueue)
    PROVE  /\ IsInjective(Offered(id))
           /\ Range(Offered(id)) \subseteq Range(audioQueue) \union {id}
<1>1. audioQueue \in Seq(Id) /\ Len(audioQueue) \in Nat
      /\ ChannelCapacity \in Nat \ {0}
  BY JitterAssumption DEF TypeOK
<1>2. CASE Len(audioQueue) < ChannelCapacity
  BY <1>1, <1>2, AppendDistinct DEF Offered
<1>3. CASE ~(Len(audioQueue) < ChannelCapacity)
  <2>1. audioQueue # <<>>
    BY <1>1, <1>3
  <2>2. /\ Tail(audioQueue) \in Seq(Id)
        /\ IsInjective(Tail(audioQueue))
        /\ Range(Tail(audioQueue)) \subseteq Range(audioQueue)
    BY <1>1, <2>1, TailDistinct, HeadTailProperties
  <2>3. IsInjective(Append(Tail(audioQueue), id))
        /\ Range(Append(Tail(audioQueue), id))
             = Range(Tail(audioQueue)) \union {id}
    <3>1. id \notin Range(Tail(audioQueue))
      BY <2>2
    <3> HIDE DEF TypeOK
    <3> QED BY <2>2, <3>1, AppendDistinct
  <2>4. Offered(id) = Append(Tail(audioQueue), id)
    BY <1>3 DEF Offered
  <2> QED BY <2>2, <2>3, <2>4, Zenon
<1> QED BY <1>2, <1>3

LEMMA NextPlace == PlaceInv /\ [Next]_vars => PlaceInv'
<1> SUFFICES ASSUME PlaceInv, [Next]_vars, ~Duplicates PROVE OnePlace'
  BY NextType DEF PlaceInv
<1> USE JitterAssumption
<1>0. TypeOK /\ TypeOK' /\ OnePlace
  BY NextType DEF PlaceInv
<1>1. CASE UNCHANGED <<sent, onWire, audioQueue, buffer, heard>>
  BY <1>0, <1>1 DEF OnePlace
<1>2. CASE Send
  <2>1. sent \in Nat /\ sent' = sent + 1
        /\ onWire' \subseteq onWire \union {sent}
        /\ UNCHANGED <<audioQueue, buffer, heard>>
    BY <1>0, <1>2 DEF Send, TypeOK, playerVars
  <2>2. 0 .. sent - 1 \subseteq 0 .. sent' - 1 /\ sent \in 0 .. sent' - 1
        /\ sent \notin 0 .. sent - 1
    BY <2>1
  <2> QED BY <1>0, <2>1, <2>2 DEF OnePlace
<1>3. CASE Arrive
  <2>1. PICK id \in onWire :
          /\ audioQueue' = Offered(id)
          /\ onWire' = onWire \ {id}
          /\ UNCHANGED <<sent, buffer, heard>>
    BY <1>3 DEF Arrive, playerVars
  <2>2. id \in Id /\ id \notin Range(audioQueue)
    BY <1>0 DEF TypeOK, OnePlace, Id
  <2>3. /\ IsInjective(audioQueue')
        /\ Range(audioQueue') \subseteq Range(audioQueue) \union {id}
    BY <1>0, <2>1, <2>2, OfferedDistinct DEF OnePlace
  <2> QED BY <1>0, <2>1, <2>3 DEF OnePlace
<1>4. CASE Player
  <2>1. CASE Receive
    <3>1. /\ audioQueue # <<>> /\ audioQueue' = Tail(audioQueue)
          /\ buffer' = buffer \union {Head(audioQueue)}
          /\ UNCHANGED <<sent, onWire, heard>>
      BY <1>4, <2>1 DEF Player, Receive, netVars
    <3>2. /\ IsInjective(Tail(audioQueue))
          /\ Range(audioQueue) = Range(Tail(audioQueue)) \union {Head(audioQueue)}
          /\ Head(audioQueue) \notin Range(Tail(audioQueue))
      BY <1>0, <3>1, TailDistinct DEF TypeOK, OnePlace
    <3> QED BY <1>0, <3>1, <3>2 DEF OnePlace
  <2>2. CASE Play
    <3>1. /\ expectedId \in buffer
          /\ buffer' = buffer \ {expectedId}
          /\ heard' = heard \union {expectedId}
          /\ UNCHANGED <<sent, onWire, audioQueue>>
      BY <1>4, <2>2 DEF Player, Play, Lost, Advance, netVars
    <3> QED BY <1>0, <3>1 DEF OnePlace
  <2>3. CASE Prune \/ Conceal
    <3>1. buffer' \subseteq buffer /\ UNCHANGED <<sent, onWire, audioQueue, heard>>
      BY <1>4, <2>3 DEF Player, Prune, Conceal, Advance, netVars
    <3> QED BY <1>0, <3>1 DEF OnePlace
  <2>4. CASE LoopHead \/ Drained \/ KeepBuffering \/ StartPlayout \/ Resync
               \/ NoResync \/ WaitForDeadline \/ ConcealFails \/ Rebuffer
    <3>1. UNCHANGED <<sent, onWire, audioQueue, buffer, heard>>
      BY <1>4, <2>4 DEF Player, LoopHead, Drained, KeepBuffering,
            StartPlayout, Resync, NoResync, WaitForDeadline, ConcealFails,
            Rebuffer, netVars, playerVars
    <3> QED BY <3>1, <1>1
  <2> QED BY <1>4, <2>1, <2>2, <2>3, <2>4 DEF Player
<1>5. CASE TimePasses \/ Ended \/ UNCHANGED vars
  <2>1. UNCHANGED <<sent, onWire, audioQueue, buffer, heard>>
    BY <1>5 DEF TimePasses, Ended, vars, netVars, playerVars
  <2> QED BY <2>1, <1>1
<1> QED BY <1>2, <1>3, <1>4, <1>5 DEF Next

\* As long as the network does not duplicate datagrams, a frame that was heard
\* never waits to be heard again.
THEOREM NoFrameTwice == Spec => []HeardOnce
<1>1. Spec => []PlaceInv
  BY InitPlace, NextPlace, PTL DEF Spec
<1>2. PlaceInv => HeardOnce
  BY DEF PlaceInv, OnePlace, HeardOnce
<1> QED BY <1>1, <1>2, PTL

-----------------------------------------------------------------------------
(* The sound: Concealment takes only steps of JitterBuffer                 *)

LEMMA SoundStepIsStep == [SoundNext]_allVars => [Next]_vars
<1>1. SoundNext => Next \/ UNCHANGED vars
  BY DEF SoundNext, SoundPlayer, OtherSteps, StartSound, PlaySound,
         ConcealSound, RebufferSound, ResyncSound, TrackPlays, Player, Next
<1> QED BY <1>1 DEF allVars

\* What the sound adds changes no step of the playout, so the theorems above
\* hold of the playout with its sound.
THEOREM SoundKeepsPlayout == SoundSpec => Spec
<1>1. SoundInit => Init
  BY DEF SoundInit
<1> QED BY <1>1, SoundStepIsStep, PTL DEF SoundSpec, Spec

LEMMA SoundPieces ==
    ASSUME NEW id \in Int
    PROVE  /\ Received(id) \in Sound /\ Predicted(id) \in Sound
           /\ Silence \in Sound
           /\ Received(id).id = id /\ Predicted(id).id = id
           /\ Received(id) # Silence /\ Predicted(id) # Silence
<1>1. Received(id).from = "received" /\ Predicted(id).from = "network"
      /\ Silence.from = "nothing"
  BY DEF Received, Predicted, Silence
<1> QED BY <1>1 DEF Received, Predicted, Silence, Sound

-----------------------------------------------------------------------------
(* What is cross-faded, what the network is shown and what is played       *)

\* Nothing survives a pause; and what the network is shown, and what waits in
\* the track, lies before the playout position.
Cleared ==
    buffering => olaBuffer = Silence /\ contextBuffer = NoContext /\ track = <<>>

ContextBehind ==
    \A i \in 1 .. ContextFrames :
        contextBuffer[i] # Silence => contextBuffer[i].id < expectedId

TrackBehind == \A i \in 1 .. Len(track) : track[i] < expectedId

TrackInv ==
    /\ track \in Seq(Int) /\ Len(track) <= TrackFrames
    /\ TrackBehind /\ TrackInOrder

SoundInv ==
    /\ PositionInv /\ SoundTypeOK
    /\ Cleared
    /\ HalvesMeet
    /\ ContextBehind /\ ContextInOrder
    /\ TrackBehind /\ TrackInOrder

LEMMA EmptyContext ==
    /\ NoContext \in [1 .. ContextFrames -> Sound]
    /\ \A i \in 1 .. ContextFrames : NoContext[i] = Silence
<1>1. Silence \in Sound
  BY SoundPieces
<1> QED BY <1>1 DEF NoContext

LEMMA InitSound == SoundInit => SoundInv
<1> SUFFICES ASSUME SoundInit PROVE SoundInv
  OBVIOUS
<1>1. PositionInv /\ TypeOK
  BY InitPosition DEF SoundInit, PositionInv
<1>2. Silence \in Sound
  BY SoundPieces
<1>3. SoundTypeOK
  <2>1. spliced \in BOOLEAN /\ playing \in BOOLEAN
    BY Zenon DEF SoundInit
  <2>2. track \in Seq(Int) /\ Len(track) <= TrackFrames
    BY ConcealmentAssumption DEF SoundInit
  <2> QED BY <1>1, <1>2, <2>1, <2>2, EmptyContext DEF SoundInit, SoundTypeOK
<1>4. Cleared /\ HalvesMeet
  BY DEF SoundInit, Init, Cleared, HalvesMeet
<1>5. ContextBehind /\ ContextInOrder
  BY EmptyContext DEF SoundInit, ContextBehind, ContextInOrder
<1>6. TrackBehind /\ TrackInOrder
  BY DEF SoundInit, TrackBehind, TrackInOrder
<1> QED BY <1>1, <1>3, <1>4, <1>5, <1>6 DEF SoundInv

\* Blend keeps the context in order when it adds silence or the position.
LEMMA BlendInOrder ==
    ASSUME SoundInv, NEW frame \in Sound,
           frame = Silence \/ frame.id = expectedId,
           PushToContext(frame), expectedId' = expectedId + 1
    PROVE  /\ contextBuffer' \in [1 .. ContextFrames -> Sound]
           /\ ContextBehind' /\ ContextInOrder'
<1>1. /\ ContextFrames \in Nat \ {0} /\ expectedId \in Int
      /\ contextBuffer \in [1 .. ContextFrames -> Sound]
  BY ConcealmentAssumption DEF SoundInv, SoundTypeOK, TypeOK
<1>2. contextBuffer' \in [1 .. ContextFrames -> Sound]
  BY <1>1 DEF PushToContext
<1>3. \A i \in 1 .. ContextFrames :
        \/ i = ContextFrames /\ contextBuffer'[i] = frame
        \/ /\ i < ContextFrames /\ i + 1 \in 1 .. ContextFrames
           /\ contextBuffer'[i] = contextBuffer[i + 1]
  BY <1>1 DEF PushToContext
<1>4. \A i \in 1 .. ContextFrames :
        contextBuffer[i].id \in Int /\ contextBuffer'[i].id \in Int
  BY <1>1, <1>2 DEF Sound
<1>5. ContextBehind'
  BY <1>1, <1>3, <1>4 DEF SoundInv, ContextBehind
<1>6. ContextInOrder'
  <2> SUFFICES ASSUME NEW i \in 1 .. ContextFrames,
                      NEW j \in 1 .. ContextFrames, i < j,
                      contextBuffer'[i] # Silence, contextBuffer'[j] # Silence
               PROVE  contextBuffer'[i].id < contextBuffer'[j].id
    BY Zenon DEF ContextInOrder
  <2>1. i < ContextFrames /\ i + 1 \in 1 .. ContextFrames
        /\ contextBuffer'[i] = contextBuffer[i + 1]
    BY <1>1, <1>3
  <2>2. CASE j = ContextFrames
    <3>1. contextBuffer'[j] = frame
      BY <1>1, <1>3, <2>2
    <3>2. contextBuffer[i + 1].id < expectedId
      BY <2>1 DEF SoundInv, ContextBehind
    <3> QED BY <2>1, <3>1, <3>2
  <2>3. CASE j # ContextFrames
    <3>1. j + 1 \in 1 .. ContextFrames /\ contextBuffer'[j] = contextBuffer[j + 1]
      BY <1>1, <1>3, <2>3
    <3>2. i + 1 < j + 1
      BY <1>1
    <3> QED BY <2>1, <3>1, <3>2 DEF SoundInv, ContextInOrder
  <2> QED BY <2>2, <2>3
<1> QED BY <1>2, <1>5, <1>6

\* playChunk() writes the position behind what the track holds.
LEMMA PlayChunkInOrder ==
    ASSUME SoundInv, PlayChunk, expectedId' = expectedId + 1
    PROVE  TrackInv' /\ playing' \in BOOLEAN
<1>1. /\ expectedId \in Int /\ track \in Seq(Int) /\ Len(track) \in Nat
      /\ Len(track) <= TrackFrames /\ TrackFrames \in Nat
      /\ playing \in BOOLEAN
  BY ConcealmentAssumption DEF SoundInv, SoundTypeOK, TypeOK
<1>2. TrackBehind /\ TrackInOrder
  BY DEF SoundInv
<1>3. \A i \in 1 .. Len(track) : track[i] \in Int
  BY <1>1
<1>4. CASE track' = track
  BY <1>1, <1>2, <1>3, <1>4 DEF TrackInv, TrackBehind, TrackInOrder, PlayChunk
<1>5. CASE Len(track) < TrackFrames /\ track' = Append(track, expectedId)
  <2>1. /\ track' \in Seq(Int) /\ Len(track') = Len(track) + 1
        /\ \A i \in 1 .. Len(track) : track'[i] = track[i]
        /\ track'[Len(track) + 1] = expectedId
    BY <1>1, <1>5, AppendProperties
  <2>2. Len(track') <= TrackFrames
    BY <1>1, <1>5, <2>1
  <2>3. \A i \in 1 .. Len(track') :
          \/ i \in 1 .. Len(track) /\ track'[i] = track[i]
          \/ i = Len(track) + 1 /\ track'[i] = expectedId
    BY <1>1, <2>1
  <2>4. TrackBehind'
    BY <1>1, <1>2, <1>3, <2>3 DEF TrackBehind
  <2>5. TrackInOrder'
    <3> SUFFICES ASSUME NEW i \in 1 .. Len(track'), NEW j \in 1 .. Len(track'),
                        i < j
                 PROVE  track'[i] < track'[j]
      BY Zenon DEF TrackInOrder
    <3>1. i \in 1 .. Len(track) /\ track'[i] = track[i]
      BY <1>1, <2>1, <2>3
    <3> QED BY <1>1, <1>2, <1>3, <2>3, <3>1 DEF TrackBehind, TrackInOrder
  <2> QED BY <1>1, <2>1, <2>2, <2>4, <2>5 DEF TrackInv, PlayChunk
<1> QED BY <1>4, <1>5 DEF PlayChunk

LEMMA NextSound == SoundInv /\ [SoundNext]_allVars => SoundInv'
<1> SUFFICES ASSUME SoundInv, [SoundNext]_allVars PROVE SoundInv'
  OBVIOUS
<1> USE JitterAssumption, ConcealmentAssumption
<1>0. PositionInv' /\ TypeOK /\ TypeOK' /\ expectedId \in Int /\ expectedId' \in Int
  <2>1. [Next]_vars
    BY SoundStepIsStep
  <2>2. PositionInv'
    BY <2>1, NextPosition DEF SoundInv
  <2> QED BY <2>2 DEF SoundInv, PositionInv, TypeOK
<1> DEFINE Types == /\ olaBuffer \in Sound
                    /\ contextBuffer \in [1 .. ContextFrames -> Sound]
                    /\ spliced \in BOOLEAN
           Rest == /\ Types /\ playing \in BOOLEAN
                   /\ Cleared /\ HalvesMeet
                   /\ ContextBehind /\ ContextInOrder
                   /\ TrackInv
<1>1. Rest
  BY DEF SoundInv, SoundTypeOK, TrackInv
<1> SUFFICES Rest'
  BY <1>0 DEF SoundInv, SoundTypeOK, TrackInv
<1>2. CASE UNCHANGED <<soundVars, expectedId, buffering>>
  BY <1>1, <1>2 DEF soundVars, Cleared, HalvesMeet, ContextBehind,
        ContextInOrder, TrackInv, TrackBehind, TrackInOrder
<1>3. CASE StartSound
  <2>1. buffering /\ buffering' = FALSE /\ playing' = TRUE
        /\ UNCHANGED <<olaBuffer, contextBuffer, track, spliced>>
    BY <1>3 DEF StartSound, StartPlayout, SoundInv, PositionInv
  <2>2. olaBuffer = Silence /\ contextBuffer = NoContext /\ track = <<>>
    BY <2>1, <1>1 DEF Cleared
  <2>3. Types' /\ Cleared' /\ HalvesMeet'
    BY <1>1, <2>1, <2>2 DEF Cleared, HalvesMeet
  <2>4. ContextBehind' /\ ContextInOrder'
    BY <2>1, <2>2, EmptyContext DEF ContextBehind, ContextInOrder
  <2>5. TrackInv'
    BY <1>1, <2>1, <2>2 DEF TrackInv, TrackBehind, TrackInOrder
  <2>6. playing' \in BOOLEAN
    BY <2>1, Zenon
  <2> QED BY <2>3, <2>4, <2>5, <2>6
<1>4. CASE PlaySound
  <2>1. /\ PushToContext(Received(expectedId))
        /\ olaBuffer' = Received(expectedId + 1)
        /\ spliced' = FALSE
        /\ expectedId' = expectedId + 1 /\ buffering' = buffering
    BY <1>4 DEF PlaySound, Play, Blend, Advance
  <2>2. ~buffering
    BY <1>4 DEF PlaySound, Play, SoundInv, PositionInv
  <2>3. /\ Received(expectedId) \in Sound /\ Received(expectedId).id = expectedId
        /\ Received(expectedId + 1) \in Sound
        /\ Received(expectedId + 1).id = expectedId + 1
    BY <1>0, SoundPieces
  <2>4. /\ contextBuffer' \in [1 .. ContextFrames -> Sound]
        /\ ContextBehind' /\ ContextInOrder'
    BY <2>1, <2>3, BlendInOrder
  <2>5. Types' /\ Cleared' /\ HalvesMeet'
    <3>1. spliced' \in BOOLEAN
      BY <2>1, Zenon
    <3> QED BY <2>1, <2>2, <2>3, <2>4, <3>1 DEF Cleared, HalvesMeet
  <2>6. TrackInv' /\ playing' \in BOOLEAN
    BY <1>4, <2>1, PlayChunkInOrder DEF PlaySound
  <2> QED BY <2>4, <2>5, <2>6
<1>5. CASE ConcealSound
  <2>1. /\ spliced' = FALSE
        /\ expectedId' = expectedId + 1 /\ buffering' = buffering
    BY <1>5 DEF ConcealSound, Conceal, Blend, Advance
  <2>2. ~buffering
    BY <1>5 DEF ConcealSound, Conceal, SoundInv, PositionInv
  <2>3. PICK current \in Sound, next \in Sound :
          /\ PushToContext(current) /\ olaBuffer' = next
          /\ current = Silence \/ current.id = expectedId
          /\ next = Silence \/ next.id = expectedId + 1
    <3>1. \/ Blend(Predicted(expectedId), Predicted(expectedId + 1))
          \/ Blend(Silence, Silence)
      BY <1>5 DEF ConcealSound
    <3>2. /\ Predicted(expectedId) \in Sound /\ Predicted(expectedId + 1) \in Sound
          /\ Silence \in Sound
          /\ Predicted(expectedId).id = expectedId
          /\ Predicted(expectedId + 1).id = expectedId + 1
      BY <1>0, SoundPieces
    <3> QED BY <3>1, <3>2 DEF Blend
  <2>4. /\ contextBuffer' \in [1 .. ContextFrames -> Sound]
        /\ ContextBehind' /\ ContextInOrder'
    BY <2>1, <2>3, BlendInOrder
  <2>5. Types' /\ Cleared' /\ HalvesMeet'
    <3>1. spliced' \in BOOLEAN
      BY <2>1, Zenon
    <3>2. HalvesMeet' /\ Cleared'
      BY <2>1, <2>2, <2>3 DEF Cleared, HalvesMeet
    <3> QED BY <2>3, <2>4, <3>1, <3>2
  <2>6. TrackInv' /\ playing' \in BOOLEAN
    BY <1>5, <2>1, PlayChunkInOrder DEF ConcealSound
  <2> QED BY <2>4, <2>5, <2>6
<1>6. CASE RebufferSound
  <2>1. /\ olaBuffer' = Silence /\ contextBuffer' = NoContext
        /\ track' = <<>> /\ playing' = FALSE
        /\ spliced' = FALSE /\ buffering' = TRUE
    BY <1>6 DEF RebufferSound, Rebuffer
  <2>2. Types' /\ Cleared' /\ HalvesMeet'
    <3>1. spliced' \in BOOLEAN
      BY <2>1, Zenon
    <3>2. Silence \in Sound
      BY SoundPieces
    <3> QED BY <2>1, <3>1, <3>2, EmptyContext DEF Cleared, HalvesMeet
  <2>3. ContextBehind' /\ ContextInOrder'
    BY <2>1, EmptyContext DEF ContextBehind, ContextInOrder
  <2>4. TrackInv'
    BY <2>1 DEF TrackInv, TrackBehind, TrackInOrder
  <2>5. playing' \in BOOLEAN
    BY <2>1, Zenon
  <2> QED BY <2>2, <2>3, <2>4, <2>5
<1>7. CASE ResyncSound
  <2>1. /\ spliced' = (spliced \/ (olaBuffer # Silence /\ expectedId' # expectedId))
        /\ UNCHANGED <<olaBuffer, contextBuffer, track, playing, buffering>>
    BY <1>7 DEF ResyncSound, Resync
  <2>2. expectedId' > expectedId
    BY <1>7, ResyncJumpsAhead DEF ResyncSound, SoundInv
  <2>3. Types' /\ Cleared' /\ HalvesMeet'
    <3>1. spliced' \in BOOLEAN
      BY <1>1, <2>1
    <3> QED BY <1>1, <2>1, <3>1 DEF Cleared, HalvesMeet
  <2>4. ContextInOrder'
    BY <1>1, <2>1 DEF ContextInOrder
  <2>5. ContextBehind'
    <3>1. \A i \in 1 .. ContextFrames : contextBuffer[i].id \in Int
      BY <1>1 DEF Sound
    <3> QED BY <1>0, <1>1, <2>1, <2>2, <3>1 DEF ContextBehind
  <2>6. TrackInv'
    <3>1. track \in Seq(Int) /\ \A i \in 1 .. Len(track) : track[i] \in Int
      BY <1>1 DEF TrackInv
    <3> QED BY <1>0, <1>1, <2>1, <2>2, <3>1 DEF TrackInv, TrackBehind, TrackInOrder
  <2> QED BY <1>1, <2>1, <2>3, <2>4, <2>5, <2>6
<1>8. CASE TrackPlays
  <2>1. /\ track # <<>> /\ track' = Tail(track)
        /\ UNCHANGED <<olaBuffer, contextBuffer, playing, spliced, expectedId,
                       buffering>>
    BY <1>8 DEF TrackPlays, vars, playerVars
  <2>2. track \in Seq(Int) /\ Len(track) \in Nat
        /\ Len(track) <= TrackFrames /\ TrackFrames \in Nat
    BY <1>1 DEF TrackInv
  <2>3. /\ track' \in Seq(Int) /\ Len(track') = Len(track) - 1
        /\ \A i \in 1 .. Len(track') : track'[i] = track[i + 1]
    BY <2>1, <2>2, HeadTailProperties
  <2>4. TrackInv'
    BY <1>0, <1>1, <2>1, <2>2, <2>3 DEF TrackInv, TrackBehind, TrackInOrder
  <2>5. Types' /\ playing' \in BOOLEAN /\ HalvesMeet'
        /\ ContextBehind' /\ ContextInOrder'
    BY <1>1, <2>1 DEF HalvesMeet, ContextBehind, ContextInOrder
  <2>6. Cleared'
    BY <1>1, <2>1 DEF Cleared
  <2> QED BY <2>4, <2>5, <2>6
<1>9. CASE OtherSteps
  <2>1. UNCHANGED <<soundVars, expectedId, buffering>>
    BY <1>9 DEF OtherSteps, LoopHead, Receive, Drained, KeepBuffering, Prune,
          NoResync, WaitForDeadline, ConcealFails, playerVars
  <2> QED BY <1>2, <2>1
<1>10. CASE (Send \/ Arrive \/ TimePasses \/ Ended) /\ UNCHANGED soundVars
  <2>1. UNCHANGED <<soundVars, expectedId, buffering>>
    BY <1>10 DEF Send, Arrive, TimePasses, Ended, vars, playerVars
  <2> QED BY <1>2, <2>1
<1>11. CASE UNCHANGED allVars
  <2>1. UNCHANGED <<soundVars, expectedId, buffering>>
    BY <1>11 DEF allVars, vars, playerVars
  <2> QED BY <1>2, <2>1
<1> QED BY <1>3, <1>4, <1>5, <1>6, <1>7, <1>8, <1>9, <1>10, <1>11
        DEF SoundNext, SoundPlayer

LEMMA SoundInvariant == SoundSpec => []SoundInv
BY InitSound, NextSound, PTL DEF SoundSpec

\* Sound pieces, the context and the track keep their types.
THEOREM SoundTypes == SoundSpec => []SoundTypeOK
<1>1. SoundInv => SoundTypeOK
  BY DEF SoundInv
<1> QED BY <1>1, SoundInvariant, PTL

\* Unless the playout jumped, what is cross-faded is of one position.
THEOREM CrossFadeMeets == SoundSpec => []HalvesMeet
<1>1. SoundInv => HalvesMeet
  BY DEF SoundInv
<1> QED BY <1>1, SoundInvariant, PTL

\* The network sees what was played in the order of the positions.
THEOREM ContextOrdered == SoundSpec => []ContextInOrder
<1>1. SoundInv => ContextInOrder
  BY DEF SoundInv
<1> QED BY <1>1, SoundInvariant, PTL

\* The device is given the positions in order, whatever a pause cuts off and
\* wherever the playout restarts.
THEOREM TrackOrdered == SoundSpec => []TrackInOrder
<1>1. SoundInv => TrackInOrder
  BY DEF SoundInv
<1> QED BY <1>1, SoundInvariant, PTL
=============================================================================
