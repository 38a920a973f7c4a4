--------------------------- MODULE DeployProofs ---------------------------
(***************************************************************************)
(* Proofs about what keeps deployments apart: the exclusive pool, for any  *)
(* number of goroutines and identities, and the unique queue, for any      *)
(* number of adders, consumers and names and a channel of any length.      *)
(***************************************************************************)
EXTENDS ExclusivePool, UniqueQueue, FiniteSetTheorems, TLAPS

---------------------------------------------------------------------------
(* The exclusive pool. *)

\* The mutex of the pool is held exactly in the critical sections.
LockInv == \A p \in Procs : pc[p] \in {"checkIn", "checkOut"} <=> poolLock = p

\* A registered goroutine waits for, or owns, the mutex the pool has for its
\* identity, and no two identities share a mutex.
PoolInv == /\ \A p \in Procs :
                Registered(p) => /\ pool[identity[p]] = lock[p]
                                 /\ lock[p] \in Mutexes
           /\ \A i, j \in Ids : pool[i] = pool[j] /\ pool[i] # Nil => i = j

\* A mutex is owned by one goroutine at most.
OwnerInv == /\ \A p \in Procs : Inside(p) => lock[p] \in locked
            /\ \A p, q \in Procs :
                 Inside(p) /\ Inside(q) /\ lock[p] = lock[q] => p = q

IInv == TypeOK /\ LockInv /\ PoolInv /\ OwnerInv /\ CountsRegistered

---------------------------------------------------------------------------
(* The sets that count counts. *)

\* They are finite, and empty exactly when they count 0.
LEMMA OnIdentityFinite ==
  ASSUME NEW i
  PROVE  /\ IsFiniteSet(OnIdentity(i))
         /\ Cardinality(OnIdentity(i)) \in Nat
         /\ Cardinality(OnIdentity(i)) = 0 <=> OnIdentity(i) = {}
<1>1. OnIdentity(i) \subseteq Procs
  BY DEF OnIdentity
<1> QED
  BY <1>1, ProcsAssumption, FS_Subset, FS_CardinalityType, FS_EmptySet

\* A step of one goroutine that registers it under its identity, or takes it
\* away, or does neither.
LEMMA OnIdentityStep ==
  ASSUME TypeOK, NEW p \in Procs, NEW to,
         pc' = [pc EXCEPT ![p] = to], UNCHANGED identity
  PROVE  \A i \in Ids :
           /\ i # identity[p] => OnIdentity(i)' = OnIdentity(i)
           /\ i = identity[p] =>
                OnIdentity(i)' = IF to \in {"grab", "in", "checkOut"}
                                 THEN OnIdentity(i) \cup {p}
                                 ELSE OnIdentity(i) \ {p}
  BY DEF TypeOK, OnIdentity, Registered

---------------------------------------------------------------------------
(* The steps. *)

\* CheckIn takes the lock of the pool.
LEMMA StepCheckIn ==
  ASSUME IInv, NEW p \in Procs, NEW i \in Ids, CheckIn(p, i)
  PROVE  IInv'
<1> USE DEF IInv
<1>1. /\ pc[p] = "out" /\ poolLock = Free /\ poolLock' = p
      /\ pc' = [pc EXCEPT ![p] = "checkIn"]
      /\ identity' = [identity EXCEPT ![p] = i]
      /\ UNCHANGED <<pool, count, locked, lock>>
  BY DEF CheckIn, LockPool
<1>2. TypeOK'
  BY <1>1 DEF TypeOK
<1>3. LockInv'
  BY <1>1, ProcsAssumption DEF LockInv, TypeOK
<1>4. \A q \in Procs : /\ Registered(q)' <=> Registered(q)
                       /\ Inside(q)' <=> Inside(q)
                       /\ Registered(q) => identity'[q] = identity[q]
  BY <1>1 DEF TypeOK, Registered, Inside
<1>5. PoolInv' /\ OwnerInv'
  BY <1>1, <1>4 DEF PoolInv, OwnerInv
<1>6. \A j \in Ids : OnIdentity(j)' = OnIdentity(j)
  BY <1>4 DEF OnIdentity
<1>7. CountsRegistered'
  BY <1>1, <1>6 DEF CountsRegistered
<1> QED
  BY <1>2, <1>3, <1>5, <1>7

\* Register finds the mutex of the identity, or makes one nobody has.
LEMMA StepRegister ==
  ASSUME IInv, NEW p \in Procs, Register(p)
  PROVE  IInv'
<1> USE DEF IInv
<1>0. PICK i \in Ids : i = identity[p]
  BY DEF TypeOK
<1>1. PICK m \in Mutexes :
        /\ IF pool[i] = Nil THEN Unused(m) ELSE m = pool[i]
        /\ pool' = [pool EXCEPT ![i] = m]
        /\ lock' = [lock EXCEPT ![p] = m]
  BY <1>0 DEF Register
<1>2. /\ pc[p] = "checkIn" /\ poolLock' = Free
      /\ pc' = [pc EXCEPT ![p] = "grab"]
      /\ count' = [count EXCEPT ![i] = @ + 1]
      /\ UNCHANGED <<locked, identity>>
  BY <1>0 DEF Register
<1>3. i \in Ids /\ m # Nil /\ poolLock = p
  BY <1>0, <1>2, MutexesAssumption DEF TypeOK, LockInv
<1>4. TypeOK'
  BY <1>0, <1>1, <1>2, <1>3 DEF TypeOK
<1>5. LockInv'
  BY <1>0, <1>2, <1>3, ProcsAssumption DEF LockInv, TypeOK
<1>6. \A q \in Procs \ {p} : /\ Registered(q)' <=> Registered(q)
                             /\ Inside(q)' <=> Inside(q)
                             /\ lock'[q] = lock[q]
  BY <1>0, <1>1, <1>2 DEF TypeOK, Registered, Inside
<1>7. ~Registered(p) /\ ~Inside(p)' /\ lock'[p] = m /\ identity'[p] = i
  BY <1>0, <1>1, <1>2 DEF TypeOK, Registered, Inside
<1>8. PoolInv'
  <2>1. ASSUME NEW q \in Procs, Registered(q)'
        PROVE  pool'[identity'[q]] = lock'[q] /\ lock'[q] \in Mutexes
    <3>1. CASE q = p
      BY <1>0, <1>1, <1>3, <1>7, <3>1 DEF TypeOK
    <3>2. CASE q # p
      <4>1. pool[identity[q]] = lock[q] /\ lock[q] \in Mutexes
        BY <1>6, <2>1, <3>2 DEF PoolInv
      <4>2. pool[i] # Nil => m = pool[i]
        BY <1>1
      <4>3. identity[q] = i => pool[i] # Nil
        BY <4>1, MutexesAssumption
      <4> QED
        BY <1>0, <1>1, <1>2, <1>3, <1>6, <3>2, <4>1, <4>2, <4>3 DEF TypeOK
    <3> QED
      BY <3>1, <3>2
  <2>2. \A j \in Ids : j # i => pool[j] # m
    BY <1>0, <1>1, <1>3 DEF Unused, PoolInv
  <2>3. ASSUME NEW j \in Ids, NEW k \in Ids, pool'[j] = pool'[k], pool'[j] # Nil
        PROVE  j = k
    BY <1>0, <1>1, <1>3, <2>2, <2>3 DEF TypeOK, PoolInv
  <2> QED
    BY <2>1, <2>3 DEF PoolInv
<1>9. OwnerInv'
  BY <1>0, <1>2, <1>6, <1>7 DEF OwnerInv
<1>10. CountsRegistered'
  <2>1. OnIdentity(i)' = OnIdentity(i) \cup {p} /\ p \notin OnIdentity(i)
    BY <1>0, <1>2, <1>3, <1>7, OnIdentityStep DEF OnIdentity
  <2>2. \A j \in Ids : j # i => OnIdentity(j)' = OnIdentity(j)
    BY <1>0, <1>2, OnIdentityStep
  <2>3. Cardinality(OnIdentity(i)') = Cardinality(OnIdentity(i)) + 1
    BY <2>1, OnIdentityFinite, FS_AddElement
  <2>4. OnIdentity(i)' # {}
    BY <2>1
  <2>5. count'[i] = Cardinality(OnIdentity(i)') /\ pool'[i] # Nil
    BY <1>0, <1>1, <1>2, <1>3, <2>3 DEF CountsRegistered, TypeOK
  <2>6. \A j \in Ids : j # i => count'[j] = count[j] /\ pool'[j] = pool[j]
    BY <1>0, <1>1, <1>2 DEF TypeOK
  <2>7. ASSUME NEW j \in Ids
        PROVE  /\ count'[j] = Cardinality(OnIdentity(j)')
               /\ pool'[j] = Nil <=> OnIdentity(j)' = {}
    <3>1. CASE j = i
      BY <2>4, <2>5, <3>1
    <3>2. CASE j # i
      BY <2>2, <2>6, <3>2 DEF CountsRegistered
    <3> QED
      BY <3>1, <3>2
  <2> QED
    BY <2>7 DEF CountsRegistered
<1> QED
  BY <1>4, <1>5, <1>8, <1>9, <1>10

\* Grab takes a mutex that nobody owns; CheckOut takes the lock of the pool.
LEMMA StepGrabCheckOut ==
  ASSUME IInv, NEW p \in Procs, Grab(p) \/ CheckOut(p)
  PROVE  IInv'
<1> USE DEF IInv
<1>1. PICK to \in {"in", "checkOut"} : pc' = [pc EXCEPT ![p] = to]
  BY DEF Grab, CheckOut, LockPool
<1>2. Registered(p) /\ UNCHANGED <<pool, count, identity, lock>>
  BY DEF Grab, CheckOut, LockPool, Registered
<1>3. \A q \in Procs : Registered(q)' <=> Registered(q)
  BY <1>1, <1>2 DEF TypeOK, Registered
<1>4. PoolInv'
  BY <1>2, <1>3 DEF PoolInv
<1>5. \A j \in Ids : OnIdentity(j)' = OnIdentity(j)
  BY <1>2, <1>3 DEF OnIdentity
<1>6. CountsRegistered'
  BY <1>2, <1>5 DEF CountsRegistered
<1>7. CASE Grab(p)
  <2>1. /\ pc[p] = "grab" /\ lock[p] \notin locked
        /\ locked' = locked \cup {lock[p]}
        /\ pc' = [pc EXCEPT ![p] = "in"] /\ UNCHANGED poolLock
    BY <1>7 DEF Grab
  <2>2. lock[p] \in Mutexes
    BY <1>2 DEF PoolInv
  <2>3. TypeOK'
    BY <1>2, <2>1, <2>2 DEF TypeOK
  <2>4. LockInv'
    BY <2>1 DEF LockInv, TypeOK
  <2>5. \A q \in Procs : Inside(q)' <=> Inside(q) \/ q = p
    BY <2>1 DEF Inside, TypeOK
  <2>6. OwnerInv'
    BY <1>2, <2>1, <2>5 DEF OwnerInv
  <2> QED
    BY <1>4, <1>6, <2>3, <2>4, <2>6
<1>8. CASE CheckOut(p)
  <2>1. /\ pc[p] = "in" /\ poolLock = Free /\ poolLock' = p
        /\ pc' = [pc EXCEPT ![p] = "checkOut"] /\ UNCHANGED locked
    BY <1>8 DEF CheckOut, LockPool
  <2>2. TypeOK'
    BY <1>2, <2>1 DEF TypeOK
  <2>3. LockInv'
    BY <2>1, ProcsAssumption DEF LockInv, TypeOK
  <2>4. \A q \in Procs : Inside(q)' <=> Inside(q)
    BY <2>1 DEF Inside, TypeOK
  <2>5. OwnerInv'
    BY <1>2, <2>1, <2>4 DEF OwnerInv
  <2> QED
    BY <1>4, <1>6, <2>2, <2>3, <2>5
<1> QED
  BY <1>7, <1>8

\* Release gives up the mutex of the goroutine itself, and the pool forgets it
\* only when no other goroutine waits for it.
LEMMA StepRelease ==
  ASSUME IInv, NEW p \in Procs, Release(p)
  PROVE  IInv'
<1> USE DEF IInv
<1>0. PICK i \in Ids : i = identity[p]
  BY DEF TypeOK
<1>1. /\ pc[p] = "checkOut" /\ poolLock' = Free
      /\ pc' = [pc EXCEPT ![p] = "out"]
      /\ locked' = locked \ {pool[i]}
      /\ pool' = [pool EXCEPT ![i] = IF count[i] = 1 THEN Nil ELSE @]
      /\ count' = [count EXCEPT ![i] = IF @ = 1 THEN 0 ELSE @ - 1]
      /\ UNCHANGED <<identity, lock>>
  BY <1>0 DEF Release
<1>2. Inside(p) /\ Registered(p) /\ i \in Ids /\ poolLock = p
      /\ pool[i] = lock[p] /\ lock[p] \in Mutexes
  <2>1. Inside(p) /\ Registered(p)
    BY <1>1 DEF Inside, Registered
  <2>2. poolLock = p
    BY <1>1 DEF LockInv
  <2> QED
    BY <1>0, <2>1, <2>2 DEF PoolInv
<1>3. p \in OnIdentity(i)
  BY <1>0, <1>2 DEF OnIdentity
<1>4. OnIdentity(i)' = OnIdentity(i) \ {p}
      /\ \A j \in Ids : j # i => OnIdentity(j)' = OnIdentity(j)
  <2>1. pc' = [pc EXCEPT ![p] = "out"] /\ UNCHANGED identity
    BY <1>1
  <2>2. ~("out" \in {"grab", "in", "checkOut"})
    OBVIOUS
  <2> QED
    BY <1>0, <2>1, <2>2, OnIdentityStep
<1>5. count[i] \in Nat /\ count[i] >= 1
      /\ Cardinality(OnIdentity(i)') = count[i] - 1
  <2>1. Cardinality(OnIdentity(i)') = Cardinality(OnIdentity(i)) - 1
    BY <1>0, <1>3, <1>4, OnIdentityFinite, FS_RemoveElement
  <2>2. count[i] = Cardinality(OnIdentity(i))
    BY <1>2 DEF CountsRegistered
  <2> QED
    BY <1>0, <1>3, <2>1, <2>2, OnIdentityFinite
<1>6. count[i] = 1 <=> OnIdentity(i)' = {}
  BY <1>4, <1>5, OnIdentityFinite, FS_Subset, FS_CardinalityType, FS_EmptySet
<1>7. TypeOK'
  <2>1. (IF count[i] = 1 THEN 0 ELSE count[i] - 1) \in Nat
    BY <1>5
  <2> QED
    BY <1>0, <1>1, <1>2, <2>1 DEF TypeOK
<1>8. LockInv'
  BY <1>0, <1>1, <1>2, ProcsAssumption DEF LockInv, TypeOK
<1>9. \A q \in Procs : /\ Registered(q)' <=> Registered(q) /\ q # p
                       /\ Inside(q)' <=> Inside(q) /\ q # p
  BY <1>1 DEF TypeOK, Registered, Inside
<1>10. PoolInv'
  <2>1. ASSUME NEW q \in Procs, Registered(q)'
        PROVE  pool'[identity'[q]] = lock'[q] /\ lock'[q] \in Mutexes
    <3>1. Registered(q) /\ q # p
          /\ pool[identity[q]] = lock[q] /\ lock[q] \in Mutexes
      BY <1>9, <2>1 DEF PoolInv
    <3>2. identity[q] = i => count[i] # 1
      BY <1>4, <1>6, <3>1 DEF OnIdentity
    <3> QED
      BY <1>0, <1>1, <1>2, <3>1, <3>2 DEF TypeOK
  <2>2. ASSUME NEW j \in Ids, NEW k \in Ids, pool'[j] = pool'[k], pool'[j] # Nil
        PROVE  j = k
    BY <1>0, <1>1, <1>2, <2>2 DEF TypeOK, PoolInv
  <2> QED
    BY <2>1, <2>2 DEF PoolInv
<1>11. OwnerInv'
  BY <1>0, <1>1, <1>2, <1>9 DEF OwnerInv
<1>12. CountsRegistered'
  <2>1. count'[i] = Cardinality(OnIdentity(i)')
    BY <1>0, <1>1, <1>2, <1>5 DEF TypeOK
  <2>2. pool'[i] = Nil <=> OnIdentity(i)' = {}
    BY <1>0, <1>1, <1>2, <1>6, MutexesAssumption DEF TypeOK
  <2>3. \A j \in Ids : j # i => count'[j] = count[j] /\ pool'[j] = pool[j]
    BY <1>1 DEF TypeOK
  <2>4. ASSUME NEW j \in Ids
        PROVE  /\ count'[j] = Cardinality(OnIdentity(j)')
               /\ pool'[j] = Nil <=> OnIdentity(j)' = {}
    <3>1. CASE j = i
      BY <2>1, <2>2, <3>1
    <3>2. CASE j # i
      BY <1>4, <2>3, <3>2 DEF CountsRegistered
    <3> QED
      BY <3>1, <3>2
  <2> QED
    BY <2>4 DEF CountsRegistered
<1> QED
  BY <1>7, <1>8, <1>10, <1>11, <1>12

---------------------------------------------------------------------------
(* The invariant, and what follows from it. *)

\* Every reachable state of the pool satisfies the invariant.
LEMMA PoolInvariant == Spec => []IInv
<1>1. Init => IInv
  <2> SUFFICES ASSUME Init PROVE IInv
    OBVIOUS
  <2>1. TypeOK /\ LockInv /\ PoolInv /\ OwnerInv
    BY ProcsAssumption
    DEF Init, TypeOK, LockInv, PoolInv, OwnerInv, Registered, Inside
  <2>2. \A i : OnIdentity(i) = {}
    BY DEF Init, OnIdentity, Registered
  <2>3. CountsRegistered
    BY <2>2, FS_EmptySet DEF Init, CountsRegistered
  <2> QED
    BY <2>1, <2>3 DEF IInv
<1>2. IInv /\ [Next]_vars => IInv'
  <2>1. ASSUME IInv, UNCHANGED vars PROVE IInv'
    BY <2>1 DEF IInv, vars, TypeOK, LockInv, PoolInv, OwnerInv, Registered,
                Inside, CountsRegistered, OnIdentity
  <2> QED
    BY <2>1, StepCheckIn, StepRegister, StepGrabCheckOut, StepRelease DEF Next
<1> QED
  BY <1>1, <1>2, PTL DEF Spec

\* For any number of goroutines and identities, two goroutines are never in the
\* pool under one identity.
THEOREM Exclusive == Spec => []MutualExclusion
<1>1. IInv => MutualExclusion
  BY DEF IInv, MutualExclusion, PoolInv, OwnerInv, Registered, Inside
<1> QED
  BY <1>1, PoolInvariant, PTL

\* CheckOut always finds, and unlocks, the mutex that its CheckIn locked.
THEOREM OwnMutex == Spec => []UnlocksItsOwn
<1>1. IInv => UnlocksItsOwn
  BY DEF IInv, UnlocksItsOwn, PoolInv, OwnerInv, Registered, Inside
<1> QED
  BY <1>1, PoolInvariant, PTL

\* The counts are those of the goroutines registered, and the pool holds the
\* mutexes of their identities and no other.
THEOREM CountsRight == Spec => []CountsRegistered
<1>1. IInv => CountsRegistered
  BY DEF IInv
<1> QED
  BY <1>1, PoolInvariant, PTL

---------------------------------------------------------------------------
(* The unique queue. *)

QueueTyped ==
  /\ running \subseteq Names /\ queue \in Seq(Names)
  /\ adding \in [Adders -> Names \cup {NoId}]
  /\ apc \in [Adders -> {"idle", "mark", "send"}]
  /\ working \in [Consumers -> Names \cup {NoId}]
  /\ \A a \in Adders : apc[a] # "idle" => adding[a] \in Adds[a]

\* Only this goroutine adds the identity.
Sole(a, i) == i \in Adds[a] /\ \A b \in Adders : i \in Adds[b] => b = a

\* Where an identity is on its way.
AtAdder(i, a) == apc[a] = "send" /\ adding[a] = i
InQueue(i, n) == n \in 1..Len(queue) /\ queue[n] = i
AtConsumer(i, c) == working[c] = i

\* Nobody has it, or it is marked.
Nowhere(i) ==
  /\ \A a \in Adders : ~AtAdder(i, a)
  /\ \A n \in 1..Len(queue) : queue[n] # i
  /\ \A c \in Consumers : working[c] # i

MarkedInv == \A i \in running : ~Nowhere(i)

\* Of a sole adder's identity: unmarked it is nowhere, and it is never in two places.
SoleOK(a, i) ==
  /\ (apc[a] = "mark" /\ adding[a] = i) => i \notin running
  /\ i \notin running => Nowhere(i)
  /\ AtAdder(i, a) => /\ \A n \in 1..Len(queue) : queue[n] # i
                      /\ \A c \in Consumers : working[c] # i
  /\ \A n \in 1..Len(queue) : queue[n] = i =>
       /\ \A m \in 1..Len(queue) : queue[m] = i => m = n
       /\ \A c \in Consumers : working[c] # i
  /\ \A c, d \in Consumers : working[c] = i /\ working[d] = i => c = d

SoleInv == \A a \in Adders, i \in Names : Sole(a, i) => SoleOK(a, i)

QueueInv == QueueTyped /\ MarkedInv /\ SoleInv

---------------------------------------------------------------------------
(* The channel. *)

LEMMA SendFacts ==
  ASSUME QueueTyped, NEW a \in Adders, Send(a)
  PROVE  /\ adding[a] \in Names /\ queue' \in Seq(Names) /\ Len(queue') = Len(queue) + 1
         /\ \A n \in 1..Len(queue) : n \in 1..Len(queue') /\ queue'[n] = queue[n]
         /\ queue'[Len(queue')] = adding[a] /\ Len(queue') \in 1..Len(queue')
         /\ \A n \in 1..Len(queue') : n = Len(queue') \/ n \in 1..Len(queue)
<1>1. adding[a] \in Names /\ queue \in Seq(Names) /\ queue' = Append(queue, adding[a])
  BY AddsAssumption DEF Send, QueueTyped
<1> QED
  BY <1>1

LEMMA ReceiveFacts ==
  ASSUME QueueTyped, NEW c \in Consumers, Receive(c)
  PROVE  /\ queue[1] \in Names /\ queue' \in Seq(Names) /\ 1 \in 1..Len(queue)
         /\ Head(queue) = queue[1] /\ Len(queue) = Len(queue') + 1
         /\ \A n \in 1..Len(queue') : n + 1 \in 1..Len(queue) /\ queue'[n] = queue[n + 1]
         /\ \A n \in 1..Len(queue) : n = 1 \/ (n - 1 \in 1..Len(queue') /\ queue'[n - 1] = queue[n])
<1>1. queue \in Seq(Names) /\ queue # <<>> /\ queue' = Tail(queue)
  BY DEF Receive, QueueTyped
<1> QED
  BY <1>1

---------------------------------------------------------------------------
(* Each step keeps the invariant. *)

LEMMA CheckKeeps ==
  ASSUME QueueInv, NEW a \in Adders, NEW i \in Adds[a], Check(a, i)
  PROVE  QueueInv'
<1>1. /\ apc[a] = "idle" /\ i \notin running /\ i \in Names
      /\ adding' = [adding EXCEPT ![a] = i] /\ apc' = [apc EXCEPT ![a] = "mark"]
      /\ UNCHANGED <<running, queue, working>>
  BY AddsAssumption DEF Check
<1>2. QueueTyped'
  BY <1>1 DEF QueueInv, QueueTyped
<1>3. \A b \in Adders, j \in Names : AtAdder(j, b)' <=> AtAdder(j, b)
  BY <1>1 DEF QueueInv, QueueTyped, AtAdder
<1>4. \A j \in Names : Nowhere(j)' <=> Nowhere(j)
  BY <1>1, <1>3 DEF Nowhere
<1>5. MarkedInv'
  BY <1>1, <1>4 DEF QueueInv, QueueTyped, MarkedInv
<1>6. SoleInv'
  <2> SUFFICES ASSUME NEW b \in Adders, NEW j \in Names, Sole(b, j) PROVE SoleOK(b, j)'
    BY DEF SoleInv, Sole
  <2>1. SoleOK(b, j)
    BY DEF QueueInv, SoleInv
  <2>2. (apc'[b] = "mark" /\ adding'[b] = j) => j \notin running'
    BY <1>1, <2>1 DEF SoleOK, QueueInv, QueueTyped
  <2> QED
    BY <1>1, <1>3, <1>4, <2>1, <2>2 DEF SoleOK
<1> QED
  BY <1>2, <1>5, <1>6 DEF QueueInv

LEMMA MarkKeeps ==
  ASSUME QueueInv, NEW a \in Adders, Mark(a)
  PROVE  QueueInv'
<1> PICK i : i = adding[a]
  OBVIOUS
<1>1. /\ apc[a] = "mark" /\ i \in Names /\ i \in Adds[a]
      /\ running' = running \cup {i} /\ apc' = [apc EXCEPT ![a] = "send"]
      /\ UNCHANGED <<queue, adding, working>>
  BY AddsAssumption DEF Mark, QueueInv, QueueTyped
<1>2. QueueTyped'
  BY <1>1 DEF QueueInv, QueueTyped
<1>3. /\ \A b \in Adders, j \in Names : AtAdder(j, b) => AtAdder(j, b)'
      /\ \A b \in Adders \ {a}, j \in Names : AtAdder(j, b)' <=> AtAdder(j, b)
      /\ AtAdder(i, a)' /\ \A j \in Names \ {i} : ~AtAdder(j, a)' /\ ~AtAdder(j, a)
  BY <1>1 DEF QueueInv, QueueTyped, AtAdder
<1>4. MarkedInv'
  <2>1. \A j \in Names : Nowhere(j)' => Nowhere(j)
    BY <1>1, <1>3 DEF Nowhere
  <2>2. ~Nowhere(i)'
    BY <1>3 DEF Nowhere
  <2> QED
    BY <1>1, <2>1, <2>2 DEF QueueInv, QueueTyped, MarkedInv
<1>5. SoleInv'
  <2> SUFFICES ASSUME NEW b \in Adders, NEW j \in Names, Sole(b, j) PROVE SoleOK(b, j)'
    BY DEF SoleInv, Sole
  <2>1. SoleOK(b, j)
    BY DEF QueueInv, SoleInv
  <2>2. CASE j = i
    <3>1. b = a
      BY <1>1, <2>2 DEF Sole
    <3>2. i \notin running /\ Nowhere(i)
      BY <1>1, <2>1, <2>2, <3>1 DEF SoleOK
    <3>3. apc'[a] = "send" /\ i \in running'
      BY <1>1 DEF QueueInv, QueueTyped
    <3> QED
      BY <1>1, <2>2, <3>1, <3>2, <3>3 DEF SoleOK, Nowhere
  <2>3. CASE j # i
    <3>1. AtAdder(j, b)' <=> AtAdder(j, b)
      BY <1>3, <2>3
    <3>2. Nowhere(j)' <=> Nowhere(j)
      BY <1>1, <1>3, <2>3 DEF Nowhere
    <3>3. (apc'[b] = "mark" /\ adding'[b] = j) => (apc[b] = "mark" /\ adding[b] = j)
      BY <1>1 DEF QueueInv, QueueTyped
    <3>4. j \in running' <=> j \in running
      BY <1>1, <2>3
    <3> QED
      BY <1>1, <2>1, <3>1, <3>2, <3>3, <3>4 DEF SoleOK
  <2> QED
    BY <2>2, <2>3
<1> QED
  BY <1>2, <1>4, <1>5 DEF QueueInv

LEMMA SendKeeps ==
  ASSUME QueueInv, NEW a \in Adders, Send(a)
  PROVE  QueueInv'
<1> PICK i : i = adding[a]
  OBVIOUS
<1>1. /\ apc[a] = "send" /\ i \in Names /\ i \in Adds[a]
      /\ adding' = [adding EXCEPT ![a] = NoId] /\ apc' = [apc EXCEPT ![a] = "idle"]
      /\ UNCHANGED <<running, working>>
  BY AddsAssumption DEF Send, QueueInv, QueueTyped
<1>2. /\ Len(queue') = Len(queue) + 1 /\ Len(queue) \in Nat /\ queue' \in Seq(Names)
      /\ \A n \in 1..Len(queue) : n \in 1..Len(queue') /\ queue'[n] = queue[n]
      /\ queue'[Len(queue')] = i /\ Len(queue') \in 1..Len(queue')
      /\ \A n \in 1..Len(queue') : n = Len(queue') \/ n \in 1..Len(queue)
  <2>1. queue \in Seq(Names)
    BY DEF QueueInv, QueueTyped
  <2> QED
    BY <2>1, SendFacts DEF QueueInv
<1>3. QueueTyped'
  BY <1>1, <1>2 DEF QueueInv, QueueTyped
<1>4. /\ \A b \in Adders \ {a}, j \in Names : AtAdder(j, b)' <=> AtAdder(j, b)
      /\ \A j \in Names : ~AtAdder(j, a)'
      /\ AtAdder(i, a) /\ \A j \in Names \ {i} : ~AtAdder(j, a)
  BY <1>1 DEF QueueInv, QueueTyped, AtAdder
<1>5. \A j \in Names \ {i} : Nowhere(j)' <=> Nowhere(j)
  BY <1>1, <1>2, <1>4 DEF Nowhere
<1>6. ~Nowhere(i)' /\ ~Nowhere(i)
  BY <1>2, <1>4 DEF Nowhere
<1>7. MarkedInv'
  BY <1>1, <1>5, <1>6 DEF QueueInv, QueueTyped, MarkedInv
<1>8. SoleInv'
  <2> SUFFICES ASSUME NEW b \in Adders, NEW j \in Names, Sole(b, j) PROVE SoleOK(b, j)'
    BY DEF SoleInv, Sole
  <2>1. SoleOK(b, j)
    BY DEF QueueInv, SoleInv
  <2>2. ~(apc'[b] = "mark" /\ adding'[b] = j) \/ (apc[b] = "mark" /\ adding[b] = j)
    BY <1>1 DEF QueueInv, QueueTyped
  <2>3. CASE j = i
    <3>1. b = a
      BY <1>1, <2>3 DEF Sole
    <3>2. /\ \A n \in 1..Len(queue) : queue[n] # i
          /\ \A c \in Consumers : working'[c] # i
      BY <1>1, <1>4, <2>1, <2>3, <3>1 DEF SoleOK
    <3>3. i \in running'
      BY <1>1, <1>6, <2>1, <2>3 DEF SoleOK
    <3>4. \A n \in 1..Len(queue') : queue'[n] = i => n = Len(queue')
      BY <1>2, <3>2
    <3>5. ~AtAdder(j, b)'
      BY <1>4, <3>1
    <3>6. ~(apc'[b] = "mark" /\ adding'[b] = j)
      BY <1>1, <3>1 DEF QueueInv, QueueTyped
    <3> QED
      BY <2>3, <3>2, <3>3, <3>4, <3>5, <3>6 DEF SoleOK
  <2>4. CASE j # i
    <3>1. \A n \in 1..Len(queue') : queue'[n] = j => n \in 1..Len(queue) /\ queue[n] = j
      BY <1>2, <2>4
    <3>2. AtAdder(j, b)' => AtAdder(j, b)
      BY <1>4
    <3> QED
      BY <1>1, <1>5, <2>1, <2>2, <2>4, <3>1, <3>2 DEF SoleOK
  <2> QED
    BY <2>3, <2>4
<1> QED
  BY <1>3, <1>7, <1>8 DEF QueueInv

LEMMA ReceiveKeeps ==
  ASSUME QueueInv, NEW c \in Consumers, Receive(c)
  PROVE  QueueInv'
<1>3. PICK i : i = queue[1]
  OBVIOUS
<1>1. /\ working[c] = NoId /\ working' = [working EXCEPT ![c] = i]
      /\ UNCHANGED <<running, adding, apc>>
  BY <1>3, ReceiveFacts DEF Receive, QueueInv
<1>2. /\ i \in Names /\ queue' \in Seq(Names) /\ Len(queue) = Len(queue') + 1 /\ Len(queue') \in Nat
      /\ 1 \in 1..Len(queue)
      /\ \A n \in 1..Len(queue') : n + 1 \in 1..Len(queue) /\ queue'[n] = queue[n + 1]
      /\ \A n \in 1..Len(queue) :
           n = 1 \/ (n - 1 \in 1..Len(queue') /\ queue'[n - 1] = queue[n])
  <2>1. queue' \in Seq(Names)
    BY ReceiveFacts DEF QueueInv
  <2> QED
    BY <1>3, <2>1, ReceiveFacts DEF QueueInv
<1>4. QueueTyped'
  BY <1>1, <1>2 DEF QueueInv, QueueTyped
<1>5. /\ working'[c] = i /\ \A d \in Consumers \ {c} : working'[d] = working[d]
      /\ \A j \in Names : working[c] # j
  BY <1>1, NamesAssumption DEF QueueInv, QueueTyped
<1>6. \A j \in Names, b \in Adders : AtAdder(j, b)' <=> AtAdder(j, b)
  BY <1>1 DEF AtAdder
<1>7. ~Nowhere(i)' /\ ~Nowhere(i)
  BY <1>2, <1>3, <1>5 DEF Nowhere
<1>8. \A j \in Names \ {i} : Nowhere(j)' <=> Nowhere(j)
  <2> SUFFICES ASSUME NEW j \in Names \ {i} PROVE Nowhere(j)' <=> Nowhere(j)
    OBVIOUS
  <2>1. (\A n \in 1..Len(queue') : queue'[n] # j) <=> (\A n \in 1..Len(queue) : queue[n] # j)
    BY <1>2, <1>3
  <2>2. (\A d \in Consumers : working'[d] # j) <=> (\A d \in Consumers : working[d] # j)
    BY <1>5
  <2> QED
    BY <1>6, <2>1, <2>2 DEF Nowhere
<1>9. MarkedInv'
  BY <1>1, <1>7, <1>8 DEF QueueInv, QueueTyped, MarkedInv
<1>10. SoleInv'
  <2> SUFFICES ASSUME NEW b \in Adders, NEW j \in Names, Sole(b, j) PROVE SoleOK(b, j)'
    BY DEF SoleInv, Sole
  <2>1. SoleOK(b, j)
    BY DEF QueueInv, SoleInv
  <2>2. CASE j = i
    <3>1. \A n \in 1..Len(queue) : queue[n] = i => n = 1
      BY <1>2, <1>3, <2>1, <2>2 DEF SoleOK
    <3>2. \A n \in 1..Len(queue') : queue'[n] # i
      BY <1>2, <3>1
    <3>3. \A d \in Consumers : working[d] # i
      BY <1>2, <1>3, <2>1, <2>2 DEF SoleOK
    <3>4. ~AtAdder(i, b)
      BY <1>2, <1>3, <2>1, <2>2 DEF SoleOK
    <3>5. \A d, e \in Consumers : working'[d] = i /\ working'[e] = i => d = e
      BY <1>5, <3>3
    <3> QED
      BY <1>1, <1>6, <1>7, <2>1, <2>2, <3>2, <3>4, <3>5 DEF SoleOK
  <2>3. CASE j # i
    <3>1. \A n \in 1..Len(queue') : queue'[n] = j => n + 1 \in 1..Len(queue) /\ queue[n + 1] = j
      BY <1>2
    <3>2. \A d \in Consumers : working'[d] = j => working[d] = j
      BY <1>5, <2>3
    <3>3. \A n \in 1..Len(queue') : queue'[n] = j =>
            /\ \A m \in 1..Len(queue') : queue'[m] = j => m = n
            /\ \A d \in Consumers : working'[d] # j
      <4> SUFFICES ASSUME NEW n \in 1..Len(queue'), queue'[n] = j
                   PROVE  /\ \A m \in 1..Len(queue') : queue'[m] = j => m = n
                          /\ \A d \in Consumers : working'[d] # j
        OBVIOUS
      <4>1. n + 1 \in 1..Len(queue) /\ queue[n + 1] = j
        BY <3>1
      <4>2. /\ \A m \in 1..Len(queue) : queue[m] = j => m = n + 1
            /\ \A d \in Consumers : working[d] # j
        BY <2>1, <4>1 DEF SoleOK
      <4>3. ASSUME NEW m \in 1..Len(queue'), queue'[m] = j PROVE m = n
        <5>1. m + 1 = n + 1
          BY <3>1, <4>2, <4>3
        <5> QED
          BY <5>1
      <4> QED
        BY <3>2, <4>2, <4>3
    <3>4. AtAdder(j, b)' => \A n \in 1..Len(queue') : queue'[n] # j
      BY <1>6, <2>1, <3>1 DEF SoleOK
    <3> QED
      BY <1>1, <1>6, <1>8, <2>1, <2>3, <3>2, <3>3, <3>4 DEF SoleOK
  <2> QED
    BY <2>2, <2>3
<1> QED
  BY <1>4, <1>9, <1>10 DEF QueueInv

LEMMA RemoveKeeps ==
  ASSUME QueueInv, NEW c \in Consumers, Remove(c)
  PROVE  QueueInv'
<1> PICK i : i = working[c]
  OBVIOUS
<1>1. /\ i # NoId /\ running' = running \ {i} /\ working' = [working EXCEPT ![c] = NoId]
      /\ UNCHANGED <<queue, adding, apc>>
  BY DEF Remove
<1>2. QueueTyped'
  BY <1>1 DEF QueueInv, QueueTyped
<1>3. /\ \A d \in Consumers \ {c} : working'[d] = working[d]
      /\ \A j \in Names : working'[c] # j
      /\ working[c] = i
  BY <1>1, NamesAssumption DEF QueueInv, QueueTyped
<1>4. \A j \in Names, b \in Adders : AtAdder(j, b)' <=> AtAdder(j, b)
  BY <1>1 DEF AtAdder
<1>5. \A j \in Names : Nowhere(j) => Nowhere(j)'
  BY <1>1, <1>3, <1>4 DEF Nowhere
<1>6. \A j \in Names \ {i} : Nowhere(j)' => Nowhere(j)
  BY <1>1, <1>3, <1>4 DEF Nowhere
<1>7. MarkedInv'
  BY <1>1, <1>6 DEF QueueInv, QueueTyped, MarkedInv
<1>8. SoleInv'
  <2> SUFFICES ASSUME NEW b \in Adders, NEW j \in Names, Sole(b, j) PROVE SoleOK(b, j)'
    BY DEF SoleInv, Sole
  <2>1. SoleOK(b, j)
    BY DEF QueueInv, SoleInv
  <2>2. j \notin running' => Nowhere(j)'
    <3>1. CASE j = i
      <4>1. ~AtAdder(j, b) /\ \A n \in 1..Len(queue) : queue[n] # j
        BY <1>3, <2>1, <3>1 DEF SoleOK
      <4>2. \A a \in Adders : ~AtAdder(j, a)
        BY <4>1 DEF AtAdder, Sole, QueueInv, QueueTyped
      <4>3. \A d \in Consumers : working'[d] # j
        BY <1>3, <2>1, <3>1 DEF SoleOK
      <4> QED
        BY <1>1, <1>4, <4>1, <4>2, <4>3 DEF Nowhere
    <3>2. CASE j # i
      BY <1>1, <1>5, <2>1, <3>2 DEF SoleOK
    <3> QED
      BY <3>1, <3>2
  <2>3. \A d \in Consumers : working'[d] = j => working[d] = j
    BY <1>3
  <2> QED
    BY <1>1, <1>4, <2>1, <2>2, <2>3 DEF SoleOK
<1> QED
  BY <1>2, <1>7, <1>8 DEF QueueInv

LEMMA QueueInvariant == QueueSpec => []QueueInv
<1>1. QueueInit => QueueInv
  <2> SUFFICES ASSUME QueueInit PROVE QueueInv
    OBVIOUS
  <2>1. QueueTyped
    BY DEF QueueInit, QueueTyped
  <2>2. Len(queue) = 0
    BY DEF QueueInit
  <2> QED
    BY <2>1, <2>2, NamesAssumption
       DEF QueueInit, QueueInv, MarkedInv, SoleInv, SoleOK, Nowhere, AtAdder
<1>2. QueueInv /\ [QueueNext]_queueVars => QueueInv'
  <2> SUFFICES ASSUME QueueInv, [QueueNext]_queueVars PROVE QueueInv'
    OBVIOUS
  <2>1. CASE UNCHANGED queueVars
    BY <2>1 DEF queueVars, QueueInv, QueueTyped, MarkedInv, SoleInv, SoleOK, Sole, Nowhere, AtAdder
  <2>2. ASSUME NEW a \in Adders, Mark(a) \/ Send(a) \/ \E i \in Adds[a] : Check(a, i)
        PROVE  QueueInv'
    BY <2>2, MarkKeeps, SendKeeps, CheckKeeps
  <2>3. ASSUME NEW c \in Consumers, Receive(c) \/ Remove(c)
        PROVE  QueueInv'
    BY <2>3, ReceiveKeeps, RemoveKeeps
  <2> QED
    BY <2>1, <2>2, <2>3 DEF QueueNext
<1> QED
  BY <1>1, <1>2, PTL DEF QueueSpec

---------------------------------------------------------------------------
(* What it is for. *)

\* No mark outlives its task: AddFunc never discards the tasks of an identity that
\* nobody is sending, has in line or works on.
THEOREM NoMarkIsStale == QueueSpec => []NoStaleMark
<1>1. QueueInv => NoStaleMark
  BY DEF QueueInv, MarkedInv, NoStaleMark, Nowhere, AtAdder, Sending, InLine, Working
<1> QED
  BY <1>1, QueueInvariant, PTL

\* A set whose members are all one has one member at most.
LEMMA OneAtMost ==
  ASSUME NEW S, \A x, y \in S : x = y
  PROVE  Cardinality(S) \in {0, 1} /\ (S = {} => Cardinality(S) = 0)
<1>1. CASE S = {}
  BY <1>1, FS_EmptySet
<1>2. CASE S # {}
  <2>1. PICK x \in S : TRUE
    BY <1>2
  <2>2. S = {x}
    BY <2>1
  <2> QED
    BY <2>2, FS_Singleton
<1> QED
  BY <1>1, <1>2

\* An identity that one goroutine alone adds is in line once, and not while a consumer
\* still works on it.
THEOREM SoleIsInLineOnce == QueueSpec => []OneInLine
<1>1. QueueInv => OneInLine
  <2> SUFFICES ASSUME QueueInv, NEW i \in Names,
                      Cardinality({a \in Adders : i \in Adds[a]}) = 1
               PROVE  Cardinality(Sending(i)) + Cardinality(InLine(i))
                      + Cardinality(Working(i)) <= 1
    BY DEF OneInLine
  <2>1. PICK a \in Adders : Sole(a, i)
    <3> DEFINE S == {b \in Adders : i \in Adds[b]}
    <3>1. PICK b : S = {b}
      BY FS_Singleton, FS_Subset, AddersAssumption
    <3> QED
      BY <3>1 DEF Sole
  <2>2. SoleOK(a, i)
    BY <2>1 DEF QueueInv, SoleInv
  <2>3. \A b \in Sending(i) : b = a /\ AtAdder(i, a)
    BY <2>1 DEF Sending, Sole, AtAdder, QueueInv, QueueTyped
  <2>4. /\ \A b, c \in Sending(i) : b = c
        /\ \A n, m \in InLine(i) : n = m
        /\ \A c, d \in Working(i) : c = d
    BY <2>2, <2>3 DEF SoleOK, InLine, Working
  <2>5. /\ Sending(i) # {} => InLine(i) = {} /\ Working(i) = {}
        /\ InLine(i) # {} => Working(i) = {}
    BY <2>2, <2>3 DEF SoleOK, InLine, Working
  <2>6. /\ Cardinality(Sending(i)) \in {0, 1} /\ (Sending(i) = {} => Cardinality(Sending(i)) = 0)
        /\ Cardinality(InLine(i)) \in {0, 1} /\ (InLine(i) = {} => Cardinality(InLine(i)) = 0)
        /\ Cardinality(Working(i)) \in {0, 1} /\ (Working(i) = {} => Cardinality(Working(i)) = 0)
    BY <2>4, OneAtMost
  <2> QED
    BY <2>5, <2>6
<1> QED
  BY <1>1, QueueInvariant, PTL

=============================================================================
