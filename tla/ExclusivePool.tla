--------------------------- MODULE ExclusivePool ---------------------------
(***************************************************************************)
(* deploy/sync/exclusive_pool.go: a pool of mutexes, one per identity in   *)
(* use, created by the first CheckIn and dropped by the last CheckOut.     *)
(* A goroutine works on a resource of the file system between the two      *)
(* calls: it always checks out, once, and under the identity it gave.      *)
(***************************************************************************)
EXTENDS Naturals, FiniteSets

CONSTANTS Procs,   \* goroutines
          Ids,     \* identities
          Mutexes, \* the mutex objects the heap has room for
          Nil,     \* no mutex
          Free     \* poolLock is not held

ASSUME ProcsAssumption == IsFiniteSet(Procs) /\ Free \notin Procs
ASSUME MutexesAssumption == Nil \notin Mutexes /\ Nil \notin Ids

VARIABLES
  poolLock, \* who holds p.lock
  pool,     \* p.pool: the mutex of each identity
  count,    \* p.count; 0 is an absent entry
  locked,   \* the mutexes that are locked
  pc,       \* where each goroutine is ...
  identity, \* ... with which argument
  lock      \* ... and the mutex that CheckIn found for it

vars == <<poolLock, pool, count, locked, pc, identity, lock>>

\* Registered(p): between its part of count++ and its part of count--.
Registered(p) == pc[p] \in {"grab", "in", "checkOut"}
\* Inside(p): it owns its mutex.
Inside(p) == pc[p] \in {"in", "checkOut"}

Init ==
  /\ poolLock = Free
  /\ pool = [i \in Ids |-> Nil]
  /\ count = [i \in Ids |-> 0]
  /\ locked = {}
  /\ pc = [p \in Procs |-> "out"]
  /\ identity \in [Procs -> Ids]
  /\ lock = [p \in Procs |-> Nil]

\* CheckIn, CheckOut: p.lock.Lock()
LockPool(p, from, to) ==
  /\ pc[p] = from /\ poolLock = Free
  /\ poolLock' = p
  /\ pc' = [pc EXCEPT ![p] = to]

CheckIn(p, i) ==
  /\ LockPool(p, "out", "checkIn")
  /\ identity' = [identity EXCEPT ![p] = i]
  /\ UNCHANGED <<pool, count, locked, lock>>

\* A mutex that &sync.Mutex{} may return: nothing refers to it.
Unused(m) == /\ \A i \in Ids : pool[i] # m
             /\ \A p \in Procs : Registered(p) => lock[p] # m

\* CheckIn: find or make the mutex, count, and unlock the pool.
Register(p) ==
  LET i == identity[p] IN
  /\ pc[p] = "checkIn"
  /\ \E m \in Mutexes :
       /\ IF pool[i] = Nil THEN Unused(m) ELSE m = pool[i]
       /\ pool' = [pool EXCEPT ![i] = m]
       /\ lock' = [lock EXCEPT ![p] = m]
  /\ count' = [count EXCEPT ![i] = @ + 1]
  /\ poolLock' = Free
  /\ pc' = [pc EXCEPT ![p] = "grab"]
  /\ UNCHANGED <<locked, identity>>

\* CheckIn: lock.Lock()
Grab(p) ==
  /\ pc[p] = "grab" /\ lock[p] \notin locked
  /\ locked' = locked \cup {lock[p]}
  /\ pc' = [pc EXCEPT ![p] = "in"]
  /\ UNCHANGED <<poolLock, pool, count, identity, lock>>

CheckOut(p) ==
  /\ LockPool(p, "in", "checkOut")
  /\ UNCHANGED <<pool, count, locked, identity, lock>>

\* Mutant: CheckOut forgets the mutex although others wait for it.
ReleaseForgets(p) ==
  LET i == identity[p] IN
  /\ pc[p] = "checkOut"
  /\ locked' = locked \ {pool[i]}
  /\ pool' = [pool EXCEPT ![i] = Nil]
  /\ count' = [count EXCEPT ![i] = IF @ = 1 THEN 0 ELSE @ - 1]
  /\ poolLock' = Free
  /\ pc' = [pc EXCEPT ![p] = "out"]
  /\ UNCHANGED <<identity, lock>>

\* Mutant: CheckOut never forgets it.
ReleaseLeaks(p) ==
  LET i == identity[p] IN
  /\ pc[p] = "checkOut"
  /\ locked' = locked \ {pool[i]}
  /\ count' = [count EXCEPT ![i] = IF @ = 1 THEN 0 ELSE @ - 1]
  /\ poolLock' = Free
  /\ pc' = [pc EXCEPT ![p] = "out"]
  /\ UNCHANGED <<pool, identity, lock>>

\* Mutant: CheckOut does not unlock it.
ReleaseKeepsLocked(p) ==
  LET i == identity[p] IN
  /\ pc[p] = "checkOut"
  /\ pool' = [pool EXCEPT ![i] = IF count[i] = 1 THEN Nil ELSE @]
  /\ count' = [count EXCEPT ![i] = IF @ = 1 THEN 0 ELSE @ - 1]
  /\ poolLock' = Free
  /\ pc' = [pc EXCEPT ![p] = "out"]
  /\ UNCHANGED <<locked, identity, lock>>

\* CheckOut: unlock the mutex the pool has by now for the identity, and forget
\* it with the last goroutine.
Release(p) ==
  LET i == identity[p] IN
  /\ pc[p] = "checkOut"
  /\ locked' = locked \ {pool[i]}
  /\ pool' = [pool EXCEPT ![i] = IF count[i] = 1 THEN Nil ELSE @]
  /\ count' = [count EXCEPT ![i] = IF @ = 1 THEN 0 ELSE @ - 1]
  /\ poolLock' = Free
  /\ pc' = [pc EXCEPT ![p] = "out"]
  /\ UNCHANGED <<identity, lock>>

Next == \E p \in Procs :
  \/ \E i \in Ids : CheckIn(p, i)
  \/ Register(p) \/ Grab(p) \/ CheckOut(p) \/ Release(p)

Spec == Init /\ [][Next]_vars

\* A goroutine that is in the pool leaves it, and sync.Mutex starves nobody.
PoolFairness ==
  \A p \in Procs : /\ WF_vars(Register(p)) /\ WF_vars(Release(p))
                   /\ SF_vars(Grab(p)) /\ SF_vars(CheckOut(p))

---------------------------------------------------------------------------
(* Properties. *)

\* The type of every variable.
TypeOK ==
  /\ poolLock \in Procs \cup {Free}
  /\ pool \in [Ids -> Mutexes \cup {Nil}]
  /\ count \in [Ids -> Nat]
  /\ locked \subseteq Mutexes
  /\ pc \in [Procs -> {"out", "checkIn", "grab", "in", "checkOut"}]
  /\ identity \in [Procs -> Ids]
  /\ lock \in [Procs -> Mutexes \cup {Nil}]

\* Only one goroutine with the same identity is in the pool at a time, although
\* the mutex of an identity is dropped and made anew while others wait.
MutualExclusion ==
  \A p, q \in Procs :
    Inside(p) /\ Inside(q) /\ identity[p] = identity[q] => p = q

\* CheckOut unlocks the very mutex its CheckIn locked, and a locked one:
\* Unlock of an unlocked mutex is fatal, of another's breaks the exclusion.
UnlocksItsOwn ==
  \A p \in Procs :
    Inside(p) => pool[identity[p]] = lock[p] /\ lock[p] \in locked

\* The pool forgets an identity with the last goroutine that uses it, and never
\* before: no mutex is leaked, and none is dropped under a goroutine.
OnIdentity(i) == {p \in Procs : Registered(p) /\ identity[p] = i}
CountsRegistered ==
  \A i \in Ids : /\ count[i] = Cardinality(OnIdentity(i))
                 /\ pool[i] = Nil <=> OnIdentity(i) = {}

\* A goroutine that has checked in gets into the pool.
EntersPool == \A p \in Procs : pc[p] = "checkIn" ~> pc[p] = "in"
=============================================================================
