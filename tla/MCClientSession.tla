--------------------------- MODULE MCClientSession ---------------------------
(* Instances of ClientSession for TLC; the bounds are in the .cfg files.   *)
EXTENDS ClientSession

\* What a later step or an invariant can still read, so that TLC takes states
\* that differ in dead values only for one.  `using` is read while the receiver
\* is blocked in receive(), `joining` by the join of release(), and `started`
\* by no guard: the system keeps a service that is bound.
LiveState ==
    <<screenVars, bindings, toConnect, service, instances, commands, launching,
      history, state, scopeActive, streamingJob, releaser,
      [i \in Instance |-> IF releaser[i] = "join" THEN joining[i] ELSE None],
      jobVars, receiver, player,
      [j \in Job |-> IF receiver[j] = "blocked" THEN using[j] ELSE None],
      clientVars, serverUp, crashed>>

=============================================================================
