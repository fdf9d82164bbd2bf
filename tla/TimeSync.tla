------------------------------- MODULE TimeSync -------------------------------
(***************************************************************************)
(* The clock of a client: TimeService.sync() and, at the other end,        *)
(* TimeSyncService::sync().  The client sends SYNC, the server answers     *)
(* with the times at which it received and answered, and the client        *)
(* computes the offset it adds to its own clock to get the server's.       *)
(*                                                                         *)
(* Here the answer carries the two times as such; Dialogue has the bytes.  *)
(*                                                                         *)
(* Times are milliseconds of a clock that nobody sees; the client's clock  *)
(* reads now, the server's now + skew, and both run at the same rate.      *)
(* What the server keeps in sync_data is read by nobody and left out.      *)
(***************************************************************************)
EXTENDS Integers

CONSTANTS
    Skew,       \* how far the server's clock may be ahead of the client's
    MaxTime,    \* bound: the time at which a behaviour ends
    MaxSyncs    \* bound: calls of sync() on one TimeService

ASSUME SyncAssumption ==
    Skew \subseteq Int /\ MaxTime \in Nat /\ MaxSyncs \in Nat \ {0}

VARIABLES
    now,      \* the time
    skew,     \* server's clock minus client's
    offset,   \* timeOffsetMs
    step,     \* where the exchange is
    asked,    \* history: the time at which SYNC was written
    t1,       \* clientDepartureTime
    t2, t3,   \* serverArrivalTime, serverDepartureTime
    held,     \* history: time between the server's two readings
    pathDelay,\* history: the last exchange's time on the network
    syncs     \* calls of sync() that succeeded

vars == <<now, skew, offset, step, asked, t1, t2, t3, held, pathDelay, syncs>>

TypeOK ==
    /\ now \in Nat /\ skew \in Int /\ offset \in Int
    /\ step \in {"idle", "request", "serving", "response"}
    /\ asked \in Nat /\ t1 \in Int /\ t2 \in Int /\ t3 \in Int
    /\ held \in Nat /\ pathDelay \in Nat /\ syncs \in 0 .. MaxSyncs

\* A TimeService of a new service instance.
Init ==
    /\ now = 0 /\ skew \in Skew /\ offset = 0 /\ step = "idle"
    /\ asked = 0 /\ t1 = 0 /\ t2 = 0 /\ t3 = 0
    /\ held = 0 /\ pathDelay = 0 /\ syncs = 0

TimePasses ==
    /\ now < MaxTime
    /\ now' = now + 1
    /\ UNCHANGED <<skew, offset, step, asked, t1, t2, t3, held, pathDelay, syncs>>

getServerTimeMillis == now + offset

ServerClock == now + skew

\* Long division truncates towards zero.
Half(n) == IF n >= 0 THEN n \div 2 ELSE -((-n) \div 2)

\* sync() reads the clock and writes SYNC.
Ask ==
    /\ step = "idle" /\ syncs < MaxSyncs
    /\ t1' = getServerTimeMillis /\ asked' = now
    /\ step' = "request"
    /\ UNCHANGED <<now, skew, offset, t2, t3, held, pathDelay, syncs>>

\* TimeSyncService::sync() reads its clock when the request is complete
Arrives ==
    /\ step = "request"
    /\ t2' = ServerClock
    /\ step' = "serving"
    /\ UNCHANGED <<now, skew, offset, asked, t1, t3, held, pathDelay, syncs>>

\* and again before it answers.
Answers ==
    /\ step = "serving"
    /\ t3' = ServerClock /\ held' = ServerClock - t2
    /\ step' = "response"
    /\ UNCHANGED <<now, skew, offset, asked, t1, t2, pathDelay, syncs>>

\* Mutated form of Adjust: the time the server took counts as network time.
AdjustWithServerTime(arrival, departure) ==
    /\ step = "response"
    /\ LET t4 == getServerTimeMillis IN
         offset' = departure + Half(t4 - t1) - t4
    /\ pathDelay' = (now - asked) - held
    /\ syncs' = syncs + 1
    /\ step' = "idle"
    /\ UNCHANGED <<now, skew, asked, t1, t2, t3, held>>

\* The answer is read: from the server's times in it the offset is computed,
\* by a clock that the old offset was added to, and replaces it.
Adjust(arrival, departure) ==
    /\ step = "response"
    /\ LET t4             == getServerTimeMillis
           roundTripDelay == (t4 - t1) - (departure - arrival)
       IN  offset' = departure + Half(roundTripDelay) - t4
    /\ pathDelay' = (now - asked) - held
    /\ syncs' = syncs + 1
    /\ step' = "idle"
    /\ UNCHANGED <<now, skew, asked, t1, t2, t3, held>>

\* The socket cannot be connected, times out or is closed: sync() throws and
\* the offset stays.
Fails ==
    /\ step # "idle"
    /\ step' = "idle"
    /\ UNCHANGED <<now, skew, offset, asked, t1, t2, t3, held, pathDelay, syncs>>

Next == TimePasses \/ Ask \/ Arrives \/ Answers \/ Adjust(t2, t3) \/ Fails

Spec == Init /\ [][Next]_vars

-----------------------------------------------------------------------------
(* Properties                                                              *)

Error == IF offset >= skew THEN offset - skew ELSE skew - offset

\* Once a fresh TimeService was synchronised, the client knows the server's
\* time to half the time the exchange was on the network, however that is
\* divided between the two ways and whatever the server took to answer.
FirstSyncAccurate == syncs = 1 => 2 * Error <= pathDelay + 1

=============================================================================
