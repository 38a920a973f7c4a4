--------------------------- MODULE MCReplicaCtrl ---------------------------
(* Small instances of the controller of one deploy key.                    *)
EXTENDS ReplicaCtrl, TLC

CONSTANTS h1, h2, h3, v1, v2, new, c1, c2, c3, tm1, nil \* model values

OneHost == {h1}
TwoHosts == {h1, h2}
ThreeHosts == {h1, h2, h3}
OneOld == {v1, new}
TwoOld == {v1, v2, new}
OneCaller == {c1}
TwoCallers == {c1, c2}
ThreeCallers == {c1, c2, c3}
Alike == Permutations(Callers)
OneTimer == {tm1}
Nobody == {}
Rolling == {"rolling"}
New == {"new"}
Mixed == {"mixed"}
RollingOrNew == {"rolling", "new"}
NewOrMixed == {"new", "mixed"}
AllPolicies == {"rolling", "new", "mixed"}
OneTwo == {1, 2}
TwoThree == {2, 3}
OnlyOne == {1}
OnlyTwo == {2}

\* The default NewPercent, one half.
Half(n) == (n + 1) \div 2

UpTo(n, V) == [V -> 0..n]

\* Every host runs up to one instance of each of two versions, the old and the
\* expected one.
SmoothStarts == [Hosts -> UpTo(1, Vers)]
AnyStarts == [Hosts -> UpTo(2, Vers)]

\* One old instance on the first host, and an old and a new on the second.
Uneven == {[h \in Hosts |-> [v \in Vers |->
  IF v = v1 THEN 1 ELSE IF v = new /\ h = h2 THEN 1 ELSE 0]]}
\* A new instance on each host, and an old one on the second.
Spread == {[h \in Hosts |-> [v \in Vers |->
  IF v = new \/ h = h2 THEN 1 ELSE 0]]}
UnevenOrSpread == Uneven \cup Spread

\* What deployments owe is checked of one caller with the timers it leaves, who asks
\* for two instances, and of two whose rolling updates to one instance overlap.
Overlap == num = 1
Busy == IF Overlap THEN Callers ELSE {c1}
Asked == IF Overlap THEN Rolling ELSE AllPolicies

LiveInit == Init /\ info \in (IF Overlap THEN Spread ELSE Uneven)

LiveNext ==
  \/ \E t \in Tasks : Work(t) \/ AddOne(t) \/ NoHost(t)
  \/ \E t \in Busy : \/ \E p \in Asked : Deploy(t, p, num)
                    \/ CheckStatus(t) \/ Destroy(t) \/ Again(t) \/ Cancel(t)
  \/ \E t \in TimerTasks : Fire(t)
  \/ ResetLease

LiveSpec == LiveInit /\ [][LiveNext]_vars /\ Fairness
=============================================================================
