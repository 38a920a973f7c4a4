---------------------------- MODULE MCDeploySync ----------------------------
(* Small instances of the two synchronisation helpers of deploy/sync. They  *)
(* share no state, so a behaviour uses one of them and leaves the other.    *)
EXTENDS ExclusivePool, UniqueQueue, TLC

CONSTANTS p1, p2, p3, i1, i2, m1, m2, a1, a2, c1, c2 \* model values

ThreeProcs == {p1, p2, p3}
TwoIds == {i1, i2}
TwoMutexes == {m1, m2}
TwoAdders == {a1, a2}
TwoConsumers == {c1, c2}

\* Both goroutines add i2, only the first adds i1.
SharedAdds == (a1 :> {i1, i2}) @@ (a2 :> {i2})

VARIABLE used \* "pool" or "queue"

SyncVars == <<vars, queueVars, used>>

SyncInit == Init /\ QueueInit /\ used \in {"pool", "queue"}

SyncNext ==
  \/ used = "pool" /\ Next /\ UNCHANGED <<queueVars, used>>
  \/ used = "queue" /\ QueueNext /\ UNCHANGED <<vars, used>>

SyncSpec == SyncInit /\ [][SyncNext]_SyncVars

\* The one that is not used has nothing to do that could be owed.
SyncFairSpec == SyncSpec /\ PoolFairness /\ QueueFairness

=============================================================================
