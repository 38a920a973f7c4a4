-------------------------- MODULE RegistryProofs --------------------------
(***************************************************************************)
(* Proofs about what stands between the callers and etcd: the compactors,  *)
(* the store and the provider of its client, for any number of processes,  *)
(* users, callers, keys, revisions and calls.                              *)
(***************************************************************************)
EXTENDS Compactor, Store, StoreProvider, TLAPS

---------------------------------------------------------------------------
(* The compactors. *)

\* The rounds made so far, in the order of their revisions; round 0 is the
\* time before the first.
Rounds == /\ roundRev[0] = 0 /\ revision >= 1
          /\ \A s, t \in 0..version : s < t => roundRev[s] < roundRev[t]
          /\ \A t \in 0..version : roundRev[t] <= revision

\* What a process knows: a revision from within the round that its clock
\* shows, or, about to compact, from within the round before it.
Knows(p) ==
  /\ compactTime[p] <= version /\ rev[p] <= revision
  /\ pc[p] = "wait" =>
       /\ rev[p] >= roundRev[compactTime[p]]
       /\ compactTime[p] < version => rev[p] < roundRev[compactTime[p] + 1]
  /\ pc[p] = "compact" =>
       /\ compactTime[p] >= 1
       /\ rev[p] >= roundRev[compactTime[p] - 1]
       /\ rev[p] < roundRev[compactTime[p]]
       /\ curRev[p] = roundRev[compactTime[p]]

\* A round is one process's, and it has not been compacted before.
Once == /\ \A t \in 0..MaxTime : /\ compactedBy[t] <= 1
                                 /\ t > version => compactedBy[t] = 0
        /\ \A p \in Procs : pc[p] = "compact" => compactedBy[compactTime[p]] = 0
        /\ \A p, q \in Procs :
             pc[p] = "compact" /\ pc[q] = "compact"
             /\ compactTime[p] = compactTime[q] => p = q

\* etcd is compacted behind the last round.
Behind == IF version = 0 THEN compacted = 0 ELSE compacted < roundRev[version]

CompactorInv == TypeOK /\ Rounds /\ (\A p \in Procs : Knows(p)) /\ Once /\ Behind

---------------------------------------------------------------------------
(* The clock advances. *)

\* The next round begins behind everything that any process knows.
LEMMA AdvanceRounds ==
  ASSUME CompactorInv, NEW p \in Procs, Advance(p)
  PROVE  /\ Rounds' /\ version + 1 \in 0..MaxTime
         /\ version' = version + 1 /\ revision' = revision + 1
         /\ revision \in Nat /\ version \in Nat
         /\ roundRev'[version + 1] = revision + 1
         /\ roundRev' \in [0..MaxTime -> Nat]
         /\ \A t \in 0..version : roundRev'[t] = roundRev[t]
<1> USE BoundsAssumption
<1>1. /\ version' = version + 1 /\ revision' = revision + 1
      /\ version + 1 \in 0..MaxTime /\ revision \in Nat /\ version \in Nat
      /\ roundRev' = [roundRev EXCEPT ![version + 1] = revision + 1]
      /\ roundRev \in [0..MaxTime -> Nat]
  BY DEF Advance, CompactorInv, TypeOK
<1>2. /\ roundRev'[version + 1] = revision + 1
      /\ roundRev' \in [0..MaxTime -> Nat]
      /\ \A t \in 0..version : roundRev'[t] = roundRev[t]
  BY <1>1
<1>3. \A t \in 0..version' : t \in 0..version \/ t = version + 1
  BY <1>1
<1>4. Rounds
  BY DEF CompactorInv
<1>5. /\ roundRev'[0] = 0 /\ revision' >= 1
      /\ \A t \in 0..version' : roundRev'[t] <= revision'
  BY <1>1, <1>2, <1>3, <1>4 DEF Rounds
<1>6. ASSUME NEW s \in 0..version', NEW t \in 0..version', s < t
      PROVE  roundRev'[s] < roundRev'[t]
  <2>1. s \in 0..version /\ roundRev'[s] = roundRev[s] /\ roundRev[s] \in Nat
    BY <1>1, <1>2, <1>6
  <2>2. CASE t \in 0..version
    BY <1>2, <1>4, <1>6, <2>1, <2>2 DEF Rounds
  <2>3. CASE t = version + 1
    BY <1>1, <1>2, <1>4, <2>1, <2>3 DEF Rounds
  <2> QED
    BY <1>3, <2>2, <2>3
<1> QED
  BY <1>1, <1>2, <1>5, <1>6 DEF Rounds

\* A process that keeps its state knows as much in the new round as before.
LEMMA AdvanceKnows ==
  ASSUME CompactorInv, NEW p \in Procs, Advance(p), NEW q \in Procs,
         pc'[q] = pc[q], compactTime'[q] = compactTime[q],
         rev'[q] = rev[q], curRev'[q] = curRev[q]
  PROVE  Knows(q)'
<1> DEFINE t == compactTime[q]
<1>1. /\ t \in 0..version /\ rev[q] \in Nat /\ t \in 0..MaxTime
      /\ pc[q] \in {"wait", "compact"} /\ Knows(q)
  BY DEF CompactorInv, TypeOK, Knows
<1>2. /\ version' = version + 1 /\ revision' = revision + 1
      /\ revision \in Nat /\ version \in Nat
      /\ roundRev'[version + 1] = revision + 1
      /\ \A s \in 0..version : roundRev'[s] = roundRev[s]
  BY AdvanceRounds
<1>3. CASE pc[q] = "wait"
  <2>1. t < version => roundRev'[t + 1] = roundRev[t + 1]
    BY <1>1, <1>2
  <2>2. t = version => rev[q] < roundRev'[t + 1]
    BY <1>1, <1>2 DEF Knows
  <2> QED
    BY <1>1, <1>2, <1>3, <2>1, <2>2 DEF Knows
<1>4. CASE pc[q] = "compact"
  <2>1. t - 1 \in 0..version
    BY <1>1, <1>2, <1>4 DEF Knows
  <2> QED
    BY <1>1, <1>2, <1>4, <2>1 DEF Knows
<1> QED
  BY <1>1, <1>3, <1>4

\* etcd stays compacted behind the new round.
LEMMA AdvanceBehind ==
  ASSUME CompactorInv, NEW p \in Procs, Advance(p), UNCHANGED compacted
  PROVE  Behind'
<1>1. /\ version' = version + 1 /\ revision \in Nat /\ version \in Nat
      /\ roundRev'[version + 1] = revision + 1
  BY AdvanceRounds
<1>2. compacted \in Nat /\ roundRev[version] <= revision
      /\ roundRev[version] \in Nat
  <2>1. version \in 0..version /\ version \in 0..MaxTime
    BY <1>1 DEF CompactorInv, TypeOK
  <2> QED
    BY <2>1 DEF CompactorInv, TypeOK, Rounds
<1>3. compacted <= revision
  BY <1>1, <1>2 DEF CompactorInv, Behind
<1>4. compacted' < roundRev'[version'] /\ version' # 0
  BY <1>1, <1>2, <1>3
<1> QED
  BY <1>4 DEF Behind

\* The process that makes a round takes it with what it knew of the last one.
LEMMA StepSucceed ==
  ASSUME CompactorInv, NEW p \in Procs, Succeed(p)
  PROVE  CompactorInv'
<1> USE BoundsAssumption
<1>1. /\ pc[p] = "wait" /\ Advance(p) /\ version = compactTime[p]
      /\ UNCHANGED <<compacted, compactedBy>>
      /\ compactTime' = [compactTime EXCEPT ![p] = version + 1]
  BY DEF Succeed, Advance
<1>2. /\ Rounds' /\ version + 1 \in 0..MaxTime
      /\ version' = version + 1 /\ revision' = revision + 1
      /\ revision \in Nat /\ version \in Nat
      /\ roundRev'[version + 1] = revision + 1
      /\ roundRev' \in [0..MaxTime -> Nat]
      /\ \A t \in 0..version : roundRev'[t] = roundRev[t]
  BY <1>1, AdvanceRounds
<1>3. TypeOK
  BY DEF CompactorInv
<1>4. \/ /\ rev' = [rev EXCEPT ![p] = revision + 1]
         /\ UNCHANGED <<pc, curRev>>
      \/ /\ pc' = [pc EXCEPT ![p] = "compact"]
         /\ curRev' = [curRev EXCEPT ![p] = revision + 1]
         /\ UNCHANGED rev
  BY DEF Succeed
<1>5. TypeOK'
  <2>1. /\ revision' \in Nat /\ version' \in 0..MaxTime /\ compacted' \in Nat
        /\ roundRev' \in [0..MaxTime -> Nat]
        /\ compactedBy' \in [0..MaxTime -> Nat]
        /\ compactTime' \in [Procs -> 0..MaxTime]
    BY <1>1, <1>2, <1>3 DEF TypeOK
  <2>2. /\ pc' \in [Procs -> {"wait", "compact"}]
        /\ rev' \in [Procs -> Nat] /\ curRev' \in [Procs -> Nat]
    BY <1>2, <1>3, <1>4 DEF TypeOK
  <2> QED
    BY <2>1, <2>2 DEF TypeOK
<1>6. Behind'
  BY <1>1, AdvanceBehind
<1>7. \A q \in Procs \ {p} :
        /\ pc'[q] = pc[q] /\ compactTime'[q] = compactTime[q]
        /\ rev'[q] = rev[q] /\ curRev'[q] = curRev[q]
  BY <1>1, <1>3, <1>4 DEF TypeOK
<1>8. compactTime'[p] = version + 1
  BY <1>1, <1>3 DEF TypeOK
<1>9. Knows(p)'
  <2>1. Knows(p) /\ rev[p] \in Nat
    BY <1>3 DEF CompactorInv, TypeOK
  <2>2. CASE /\ rev' = [rev EXCEPT ![p] = revision + 1]
             /\ UNCHANGED <<pc, curRev>>
    <3>1. rev'[p] = revision + 1 /\ pc'[p] = "wait"
      BY <1>1, <1>3, <2>2 DEF TypeOK
    <3> QED
      BY <1>2, <1>8, <3>1 DEF Knows
  <2>3. CASE /\ pc' = [pc EXCEPT ![p] = "compact"]
             /\ curRev' = [curRev EXCEPT ![p] = revision + 1]
             /\ UNCHANGED rev
    <3>1. rev'[p] = rev[p] /\ pc'[p] = "compact" /\ curRev'[p] = revision + 1
      BY <1>3, <2>3 DEF TypeOK
    <3>2. roundRev'[version] = roundRev[version] /\ version + 1 - 1 = version
      BY <1>2
    <3> QED
      BY <1>1, <1>2, <1>8, <2>1, <3>1, <3>2 DEF Knows
  <2> QED
    BY <1>4, <2>2, <2>3
<1>10. \A q \in Procs : Knows(q)'
  BY <1>1, <1>7, <1>9, AdvanceKnows
<1>11. Once'
  <2>1. \A q \in Procs : compactTime[q] <= version /\ compactTime[q] \in Nat
    BY <1>3 DEF CompactorInv, Knows, TypeOK
  <2>2. \A t \in 0..MaxTime : /\ compactedBy'[t] <= 1
                              /\ t > version' => compactedBy'[t] = 0
    BY <1>1, <1>2 DEF CompactorInv, Once
  <2>3. \A q \in Procs : pc'[q] = "compact" => compactedBy'[compactTime'[q]] = 0
    BY <1>1, <1>2, <1>7, <1>8 DEF CompactorInv, Once
  <2>4. ASSUME NEW q \in Procs, NEW r \in Procs,
               pc'[q] = "compact", pc'[r] = "compact",
               compactTime'[q] = compactTime'[r]
        PROVE  q = r
    <3>1. \A s \in Procs \ {p} : compactTime'[s] # version + 1
      BY <1>2, <1>7, <2>1
    <3>2. q = p <=> r = p
      BY <1>8, <2>4, <3>1
    <3>3. q # p /\ r # p => q = r
      BY <1>7, <2>4 DEF CompactorInv, Once
    <3> QED
      BY <3>2, <3>3
  <2> QED
    BY <2>2, <2>3, <2>4 DEF Once
<1> QED
  BY <1>2, <1>5, <1>6, <1>10, <1>11 DEF CompactorInv

\* A lost response advances the clock all the same.
LEMMA StepLoseResponse ==
  ASSUME CompactorInv, NEW p \in Procs, LoseResponse(p)
  PROVE  CompactorInv'
<1>1. /\ Advance(p)
      /\ UNCHANGED <<compacted, compactedBy, pc, compactTime, rev, curRev>>
  BY DEF LoseResponse
<1>2. /\ Rounds' /\ version + 1 \in 0..MaxTime
      /\ version' = version + 1 /\ revision' = revision + 1
      /\ revision \in Nat /\ version \in Nat
      /\ roundRev' \in [0..MaxTime -> Nat]
  BY <1>1, AdvanceRounds
<1>3. TypeOK'
  BY <1>1, <1>2 DEF CompactorInv, TypeOK
<1>4. Behind' /\ \A q \in Procs : Knows(q)'
  BY <1>1, AdvanceKnows, AdvanceBehind
<1>5. Once'
  BY <1>1, <1>2 DEF CompactorInv, Once
<1> QED
  BY <1>2, <1>3, <1>4, <1>5 DEF CompactorInv

---------------------------------------------------------------------------
(* The other steps. *)

\* The rounds do not change; a process knows what it knew.
LEMMA SameRounds ==
  ASSUME CompactorInv, UNCHANGED <<version, roundRev>>,
         revision' \in Nat, revision' >= revision
  PROVE  /\ Rounds'
         /\ \A q \in Procs :
              pc'[q] = pc[q] /\ compactTime'[q] = compactTime[q]
              /\ rev'[q] = rev[q] /\ curRev'[q] = curRev[q] => Knows(q)'
<1>1. /\ revision \in Nat /\ version \in 0..MaxTime
      /\ roundRev \in [0..MaxTime -> Nat]
      /\ rev \in [Procs -> Nat] /\ Rounds /\ \A q \in Procs : Knows(q)
  BY DEF CompactorInv, TypeOK
<1>2. Rounds'
  <2>1. \A t \in 0..version : roundRev[t] \in Nat
    BY <1>1, BoundsAssumption
  <2> QED
    BY <1>1, <2>1 DEF Rounds
<1>3. ASSUME NEW q \in Procs,
             pc'[q] = pc[q], compactTime'[q] = compactTime[q],
             rev'[q] = rev[q], curRev'[q] = curRev[q]
      PROVE  Knows(q)'
  <2>1. rev'[q] <= revision'
    BY <1>1, <1>3 DEF Knows
  <2> QED
    BY <1>1, <1>3, <2>1 DEF Knows
<1> QED
  BY <1>2, <1>3

\* Anybody's write.
LEMMA StepWrite ==
  ASSUME CompactorInv, Write
  PROVE  CompactorInv'
<1>1. /\ revision' = revision + 1 /\ revision \in Nat
      /\ UNCHANGED <<version, compacted, roundRev, compactedBy, pc,
                     compactTime, rev, curRev>>
  BY DEF Write, CompactorInv, TypeOK
<1>2. TypeOK'
  BY <1>1 DEF CompactorInv, TypeOK
<1>3. Rounds' /\ \A q \in Procs : Knows(q)'
  BY <1>1, SameRounds
<1>4. Once' /\ Behind'
  BY <1>1 DEF CompactorInv, Once, Behind
<1> QED
  BY <1>2, <1>3, <1>4 DEF CompactorInv

\* A process whose clock is behind learns the version and the revision.
LEMMA StepFail ==
  ASSUME CompactorInv, NEW p \in Procs, Fail(p)
  PROVE  CompactorInv'
<1>1. /\ pc[p] = "wait" /\ version # compactTime[p]
      /\ compactTime' = [compactTime EXCEPT ![p] = version]
      /\ rev' = [rev EXCEPT ![p] = revision]
      /\ UNCHANGED <<revision, version, compacted, roundRev, compactedBy, pc,
                     curRev>>
  BY DEF Fail
<1>2. TypeOK'
  BY <1>1 DEF CompactorInv, TypeOK
<1>3. revision \in Nat /\ version \in Nat /\ roundRev[version] <= revision
  BY DEF CompactorInv, TypeOK, Rounds
<1>4. Rounds' /\ \A q \in Procs \ {p} : Knows(q)'
  BY <1>1, <1>3, SameRounds DEF CompactorInv, TypeOK
<1>5. Knows(p)'
  BY <1>1, <1>3 DEF CompactorInv, TypeOK, Knows
<1>6. Once' /\ Behind'
  BY <1>1 DEF CompactorInv, Once, Behind, TypeOK
<1> QED
  BY <1>2, <1>4, <1>5, <1>6 DEF CompactorInv

\* The one process of a round compacts, to a revision from before the round.
LEMMA StepCompact ==
  ASSUME CompactorInv, NEW p \in Procs, Compact(p)
  PROVE  CompactorInv'
<1> USE BoundsAssumption
<1> DEFINE t == compactTime[p]
<1>1. /\ pc[p] = "compact"
      /\ rev' = [rev EXCEPT ![p] = curRev[p]]
      /\ pc' = [pc EXCEPT ![p] = "wait"]
      /\ UNCHANGED <<revision, version, roundRev, compactTime, curRev>>
  BY DEF Compact
<1>2. \/ /\ compacted' = rev[p]
         /\ compactedBy' = [compactedBy EXCEPT ![t] = @ + 1]
      \/ UNCHANGED <<compacted, compactedBy>>
  BY DEF Compact
<1>3. TypeOK /\ Rounds /\ Knows(p)
  BY DEF CompactorInv
<1>4. /\ t \in 1..version /\ t \in 0..MaxTime /\ version \in Nat
      /\ curRev[p] = roundRev[t] /\ rev[p] < roundRev[t] /\ rev[p] \in Nat
      /\ compactedBy[t] = 0
  BY <1>1, <1>3 DEF TypeOK, Knows, CompactorInv, Once
<1>5. TypeOK'
  <2>1. /\ rev' \in [Procs -> Nat] /\ pc' \in [Procs -> {"wait", "compact"}]
    BY <1>1, <1>3 DEF TypeOK
  <2>2. compacted' \in Nat /\ compactedBy' \in [0..MaxTime -> Nat]
    <3>1. compactedBy \in [0..MaxTime -> Nat] /\ compactedBy[t] + 1 \in Nat
      BY <1>3, <1>4 DEF TypeOK
    <3> QED
      BY <1>2, <1>3, <1>4, <3>1 DEF TypeOK
  <2> QED
    BY <1>1, <1>3, <2>1, <2>2 DEF TypeOK
<1>6. \A q \in Procs \ {p} : pc'[q] = pc[q] /\ rev'[q] = rev[q]
  BY <1>1, <1>3 DEF TypeOK
<1>7. Rounds' /\ \A q \in Procs \ {p} : Knows(q)'
  BY <1>1, <1>3, <1>6, SameRounds DEF TypeOK
<1>8. Knows(p)'
  <2>1. rev'[p] = roundRev[t] /\ pc'[p] = "wait" /\ roundRev[t] <= revision
    BY <1>1, <1>3, <1>4 DEF TypeOK, Rounds
  <2>2. t < version => t + 1 \in 0..version /\ roundRev[t] < roundRev[t + 1]
    BY <1>3, <1>4 DEF Rounds
  <2>3. roundRev[t] \in Nat
    BY <1>3, <1>4 DEF TypeOK
  <2> QED
    BY <1>1, <1>4, <2>1, <2>2, <2>3 DEF Knows
<1>9. Behind'
  <2>1. roundRev[t] <= roundRev[version] /\ roundRev[t] \in Nat
        /\ roundRev[version] \in Nat
    <3>1. /\ t \in 0..version /\ version \in 0..version
          /\ version \in 0..MaxTime
      BY <1>3, <1>4 DEF TypeOK
    <3>2. roundRev[t] \in Nat /\ roundRev[version] \in Nat
      BY <1>3, <1>4, <3>1 DEF TypeOK
    <3> QED
      BY <1>3, <1>4, <3>1, <3>2 DEF Rounds
  <2>2. rev[p] < roundRev[version] /\ version # 0
    BY <1>4, <2>1
  <2> QED
    BY <1>1, <1>2, <2>2 DEF CompactorInv, Behind
<1>10. Once'
  <2>1. \A s \in 0..MaxTime :
          compactedBy'[s] = compactedBy[s] \/ (s = t /\ compactedBy'[s] = 1)
    BY <1>2, <1>3, <1>4 DEF TypeOK
  <2>2. \A s \in 0..MaxTime : /\ compactedBy'[s] <= 1
                              /\ s > version' => compactedBy'[s] = 0
    BY <1>1, <1>4, <2>1 DEF CompactorInv, Once
  <2>3. ASSUME NEW q \in Procs, pc'[q] = "compact"
        PROVE  compactedBy'[compactTime'[q]] = 0
    <3>1. q # p /\ pc[q] = "compact"
      BY <1>1, <1>3, <1>6, <2>3 DEF TypeOK
    <3>2. compactTime[q] # t /\ compactTime[q] \in 0..MaxTime
      BY <1>1, <1>3, <3>1 DEF CompactorInv, Once, TypeOK
    <3> QED
      BY <1>1, <2>1, <3>1, <3>2 DEF CompactorInv, Once
  <2>4. \A q, r \in Procs :
          pc'[q] = "compact" /\ pc'[r] = "compact"
          /\ compactTime'[q] = compactTime'[r] => q = r
    BY <1>1, <1>3, <1>6 DEF CompactorInv, Once, TypeOK
  <2> QED
    BY <2>2, <2>3, <2>4 DEF Once
<1> QED
  BY <1>5, <1>7, <1>8, <1>9, <1>10 DEF CompactorInv

\* A process that restarts knows nothing.
LEMMA StepRestart ==
  ASSUME CompactorInv, NEW p \in Procs, Restart(p)
  PROVE  CompactorInv'
<1> USE BoundsAssumption
<1>1. /\ pc' = [pc EXCEPT ![p] = "wait"]
      /\ compactTime' = [compactTime EXCEPT ![p] = 0]
      /\ rev' = [rev EXCEPT ![p] = 0]
      /\ curRev' = [curRev EXCEPT ![p] = 0]
      /\ UNCHANGED <<revision, version, compacted, roundRev, compactedBy>>
  BY DEF Restart
<1>2. TypeOK /\ Rounds
  BY DEF CompactorInv
<1>3. TypeOK'
  BY <1>1, <1>2 DEF TypeOK
<1>4. \A q \in Procs \ {p} :
        /\ pc'[q] = pc[q] /\ compactTime'[q] = compactTime[q]
        /\ rev'[q] = rev[q] /\ curRev'[q] = curRev[q]
  BY <1>1, <1>2 DEF TypeOK
<1>5. pc'[p] = "wait" /\ compactTime'[p] = 0 /\ rev'[p] = 0
  BY <1>1, <1>2 DEF TypeOK
<1>6. Rounds' /\ \A q \in Procs \ {p} : Knows(q)'
  BY <1>1, <1>2, <1>4, SameRounds DEF TypeOK
<1>7. Knows(p)'
  <2>1. /\ version \in Nat /\ revision \in Nat /\ roundRev[0] = 0
        /\ 0 < version => 0 \in 0..version /\ 0 + 1 \in 0..version
    BY <1>2 DEF Rounds, TypeOK
  <2>2. 0 < version => 0 < roundRev[0 + 1]
    BY <1>2, <2>1 DEF Rounds
  <2> QED
    BY <1>1, <1>5, <2>1, <2>2 DEF Knows
<1>8. Once'
  BY <1>1, <1>4, <1>5 DEF CompactorInv, Once
<1>9. Behind'
  BY <1>1 DEF CompactorInv, Behind
<1> QED
  BY <1>3, <1>6, <1>7, <1>8, <1>9 DEF CompactorInv

---------------------------------------------------------------------------
(* The invariant, and what follows from it. *)

\* Every reachable state satisfies the invariant.
LEMMA CompactorInvariant == Spec => []CompactorInv
<1>1. Init => CompactorInv
  <2> SUFFICES ASSUME Init PROVE CompactorInv
    OBVIOUS
  <2> USE BoundsAssumption
  <2>1. TypeOK
    BY DEF Init, TypeOK
  <2>2. Rounds
    <3>1. /\ version = 0 /\ revision = 1 /\ 0..version = {0}
          /\ roundRev[0] = 0
      BY DEF Init
    <3> QED
      BY <3>1 DEF Rounds
  <2>3. ASSUME NEW p \in Procs PROVE Knows(p)
    <3>1. /\ pc[p] = "wait" /\ compactTime[p] = 0 /\ rev[p] = 0
          /\ version = 0 /\ revision = 1 /\ roundRev[0] = 0
      BY DEF Init
    <3> QED
      BY <3>1 DEF Knows
  <2>4. Once
    <3>1. \A t \in 0..MaxTime : compactedBy[t] = 0
      BY DEF Init
    <3>2. \A p \in Procs : pc[p] # "compact"
      BY DEF Init
    <3> QED
      BY <3>1, <3>2 DEF Once
  <2>5. Behind
    BY DEF Init, Behind
  <2> QED
    BY <2>1, <2>2, <2>3, <2>4, <2>5 DEF CompactorInv
<1>2. CompactorInv /\ [Next]_vars => CompactorInv'
  <2>1. ASSUME CompactorInv, UNCHANGED vars PROVE CompactorInv'
    BY <2>1 DEF CompactorInv, vars, TypeOK, Rounds, Knows, Once, Behind
  <2> QED
    BY <2>1, StepWrite, StepSucceed, StepLoseResponse, StepFail, StepCompact,
       StepRestart DEF Next
<1> QED
  BY <1>1, <1>2, PTL DEF Spec

\* For any number of processes, what was written since the last tick of the
\* clock is never compacted.
THEOREM RoundKept == Spec => []KeepsRound
<1>1. CompactorInv => KeepsRound
  BY DEF CompactorInv, TypeOK, KeepsRound, Behind
<1> QED
  BY <1>1, CompactorInvariant, PTL

\* ... and etcd is compacted at most once per tick.
THEOREM CompactedOnce == Spec => []OncePerRound
<1>1. CompactorInv => OncePerRound
  BY DEF CompactorInv, Once, OncePerRound
<1> QED
  BY <1>1, CompactorInvariant, PTL

\* Two processes about to compact are in different rounds, and the one in the
\* later round compacts more, however far apart the rounds are.
THEOREM Apart == Spec => []RoundsApart
<1>1. ASSUME CompactorInv, NEW p \in Procs, NEW q \in Procs,
             pc[p] = "compact", pc[q] = "compact", p # q
      PROVE  /\ compactTime[p] # compactTime[q]
             /\ compactTime[p] < compactTime[q] => rev[p] < rev[q]
  <2> DEFINE s == compactTime[p]
             t == compactTime[q]
  <2>1. s # t
    BY <1>1 DEF CompactorInv, Once
  <2>2. /\ s \in 1..version /\ t \in 1..version /\ version \in 0..MaxTime
        /\ rev[p] < roundRev[s] /\ rev[q] >= roundRev[t - 1]
        /\ rev[p] \in Nat /\ rev[q] \in Nat
    BY <1>1, BoundsAssumption DEF CompactorInv, TypeOK, Knows
  <2>3. ASSUME s < t
        PROVE  rev[p] < rev[q]
    <3>1. /\ s \in 0..version /\ t - 1 \in 0..version /\ s <= t - 1
          /\ s \in 0..MaxTime /\ t - 1 \in 0..MaxTime
      BY <2>2, <2>3, BoundsAssumption
    <3>2. roundRev[s] \in Nat /\ roundRev[t - 1] \in Nat
      BY <1>1, <3>1 DEF CompactorInv, TypeOK
    <3>3. roundRev[s] <= roundRev[t - 1]
      BY <1>1, <3>1, <3>2 DEF CompactorInv, Rounds
    <3> QED
      BY <2>2, <3>2, <3>3
  <2> QED
    BY <2>1, <2>3
<1>2. CompactorInv => RoundsApart
  BY <1>1 DEF RoundsApart
<1> QED
  BY <1>2, CompactorInvariant, PTL

---------------------------------------------------------------------------
(* The store. *)

StoreTyped ==
  /\ clock \in Nat /\ calls \in 0..MaxCalls
  /\ at \in [Users -> {"idle", "grant", "send"}]
  /\ call \in [Users -> [req : Requests \cup {NoCall}, num : Nat, lease : Nat]]
  /\ begun \in Seq([time : Nat, ttl : Nat]) /\ Len(begun) = calls

\* A call under way has a number and a lease, if any, of its own.
CallOK(u) ==
  /\ call[u].req \in Requests /\ call[u].num \in 1..calls
  /\ call[u].lease \in {0, call[u].num}
  /\ begun[call[u].num].time <= clock
  /\ begun[call[u].num].ttl = call[u].req.ttl
  /\ at[u] = "grant" => call[u].req.ttl # 0
CallInv == \A u \in Users : at[u] # "idle" => CallOK(u)

\* A lease lasts at least as long as its call asked for.
LeaseInv ==
  \A l \in DOMAIN leases :
    /\ l \in 1..calls /\ leases[l] \in Nat
    /\ begun[l].ttl # 0 /\ begun[l].time + begun[l].ttl <= leases[l]

\* An object is put with the lease of the call that puts it, or with none.
ObjectInv ==
  \A k \in DOMAIN kvs :
    k \in KeysAsked /\ kvs[k].obj \in 1..calls /\ kvs[k].lease \in {0, kvs[k].obj}

StoreInv == StoreTyped /\ CallInv /\ LeaseInv /\ ObjectInv

---------------------------------------------------------------------------
(* The invariant. *)

\* What is known of the calls that began.
LEMMA BegunType ==
  ASSUME StoreTyped, NEW i \in 1..calls
  PROVE  begun[i].time \in Nat /\ begun[i].ttl \in Nat
<1> DEFINE Called == [time : Nat, ttl : Nat]
<1>1. i \in 1..Len(begun) /\ begun \in Seq(Called)
  BY DEF StoreTyped
<1> HIDE DEF Called
<1>2. begun[i] \in Called
  BY <1>1
<1> USE DEF Called
<1> QED
  BY <1>2

\* A call that ends changes nothing but the objects.
LEMMA ReturnKeeps ==
  ASSUME StoreInv, NEW u \in Users, NEW err, NEW found, Returns(u, err, found),
         UNCHANGED leases, ObjectInv'
  PROVE  StoreInv'
<1>1. UNCHANGED <<clock, calls, call, begun>> /\ at' = [at EXCEPT ![u] = "idle"]
  BY DEF Returns
<1>2. StoreTyped'
  BY <1>1 DEF StoreInv, StoreTyped
<1>3. \A w \in Users : at'[w] # "idle" => at[w] = at'[w]
  BY <1>1 DEF StoreInv, StoreTyped
<1>4. CallInv'
  BY <1>1, <1>3 DEF StoreInv, CallInv, CallOK
<1>5. LeaseInv'
  BY <1>1 DEF StoreInv, LeaseInv
<1> QED
  BY <1>2, <1>4, <1>5 DEF StoreInv

LEMMA PutKeeps ==
  ASSUME StoreInv, NEW u \in Users, Create(u) \/ Update(u)
  PROVE  StoreInv'
<1>1. at[u] = "send" /\ CallOK(u) /\ UNCHANGED leases
  BY DEF Create, Update, Sends, StoreInv, CallInv
<1>2. PICK err, found : Returns(u, err, found)
  BY DEF Create, Update, Answers
<1>3. calls' = calls
  BY <1>2 DEF Returns
<1>4. Key(u) \in KeysAsked
  BY <1>1 DEF Key, KeysAsked, CallOK
<1>5. ObjectInv'
  <2>1. CASE kvs' = kvs
    BY <2>1, <1>3 DEF StoreInv, ObjectInv
  <2>2. CASE kvs' = WithPut(u)
    BY <2>2, <1>1, <1>3, <1>4 DEF WithPut, StoreInv, ObjectInv, CallOK
  <2> QED
    BY <2>1, <2>2 DEF Create, Update
<1> QED
  BY <1>1, <1>2, <1>5, ReturnKeeps

LEMMA ReadKeeps ==
  ASSUME StoreInv, NEW u \in Users,
         Delete(u) \/ Get(u) \/ List(u) \/ CallFails(u) \/ PutTooLate(u)
  PROVE  StoreInv'
<1>1. PICK err, found : Returns(u, err, found)
  BY DEF Delete, Get, List, CallFails, PutTooLate, Answers
<1>2. UNCHANGED leases /\ calls' = calls
  BY <1>1 DEF Delete, Get, List, CallFails, PutTooLate, Returns
<1>3. ObjectInv'
  <2>1. CASE kvs' = kvs
    BY <2>1, <1>2 DEF StoreInv, ObjectInv
  <2>2. CASE kvs' = [k \in DOMAIN kvs \ {Key(u)} |-> kvs[k]]
    BY <2>2, <1>2 DEF StoreInv, ObjectInv
  <2> QED
    BY <2>1, <2>2 DEF Delete, Get, List, CallFails, PutTooLate
<1> QED
  BY <1>1, <1>2, <1>3, ReturnKeeps

LEMMA BeginKeeps ==
  ASSUME StoreInv, StoreAssumption, NEW u \in Users, NEW r \in Requests, Begin(u, r)
  PROVE  StoreInv'
<1>1. /\ calls' = calls + 1 /\ calls < MaxCalls
      /\ call' = [call EXCEPT ![u] = [req |-> r, num |-> calls + 1, lease |-> 0]]
      /\ begun' = Append(begun, [time |-> clock, ttl |-> r.ttl])
      /\ UNCHANGED <<kvs, behind, leases, clock, reply>>
  BY DEF Begin
<1>2. /\ at' \in [Users -> {"idle", "grant", "send"}]
      /\ \A w \in Users \ {u} : at'[w] = at[w]
      /\ at'[u] = "grant" => r.ttl # 0
  BY DEF Begin, StoreInv, StoreTyped
<1>3. r.ttl \in Nat /\ MaxCalls \in Nat
  BY DEF StoreAssumption
<1>4. /\ begun' \in Seq([time : Nat, ttl : Nat]) /\ Len(begun') = calls'
      /\ begun'[calls'] = [time |-> clock, ttl |-> r.ttl]
      /\ \A i \in 1..calls : begun'[i] = begun[i]
  BY <1>1, <1>3 DEF StoreInv, StoreTyped
<1>5. StoreTyped'
  <2>1. calls' \in 0..MaxCalls /\ clock' \in Nat
    BY <1>1, <1>3 DEF StoreInv, StoreTyped
  <2>2. call' \in [Users -> [req : Requests \cup {NoCall}, num : Nat, lease : Nat]]
    BY <1>1 DEF StoreInv, StoreTyped
  <2> QED
    BY <1>2, <1>4, <2>1, <2>2 DEF StoreTyped
<1>6. CallInv'
  <2> SUFFICES ASSUME NEW w \in Users, at'[w] # "idle" PROVE CallOK(w)'
    BY DEF CallInv
  <2>1. CASE w = u
    <3>1. call'[w] = [req |-> r, num |-> calls', lease |-> 0]
      BY <1>1, <2>1 DEF StoreInv, StoreTyped
    <3>2. calls' \in 1..calls' /\ clock' = clock /\ clock <= clock
      BY <1>1 DEF StoreInv, StoreTyped
    <3> QED
      BY <3>1, <3>2, <1>2, <1>4, <2>1 DEF CallOK
  <2>2. CASE w # u
    <3>1. call'[w] = call[w] /\ at'[w] = at[w] /\ CallOK(w)
      BY <1>1, <1>2, <2>2 DEF StoreInv, StoreTyped, CallInv
    <3>2. call[w].num \in 1..calls' /\ begun'[call[w].num] = begun[call[w].num]
      BY <1>1, <1>4, <3>1 DEF CallOK, StoreInv, StoreTyped
    <3> QED
      BY <1>1, <3>1, <3>2 DEF CallOK
  <2> QED
    BY <2>1, <2>2
<1>7. LeaseInv' /\ ObjectInv'
  BY <1>1, <1>4 DEF StoreInv, StoreTyped, LeaseInv, ObjectInv
<1> QED
  BY <1>5, <1>6, <1>7 DEF StoreInv

LEMMA TtlOptsKeeps ==
  ASSUME StoreInv, StoreAssumption, NEW u \in Users, TtlOpts(u)
  PROVE  StoreInv'
<1>1. /\ at[u] = "grant" /\ at' = [at EXCEPT ![u] = "send"]
      /\ call' = [call EXCEPT ![u].lease = call[u].num]
      /\ leases' = [l \in DOMAIN leases \cup {call[u].num} |->
                      IF l = call[u].num THEN clock + call[u].req.ttl ELSE leases[l]]
      /\ UNCHANGED <<kvs, behind, clock, calls, reply, begun>>
  BY DEF TtlOpts
<1>2. CallOK(u) /\ call[u].req.ttl \in Nat \ {0}
  BY <1>1 DEF StoreInv, CallInv, CallOK, StoreAssumption
<1>3. StoreTyped'
  BY <1>1 DEF StoreInv, StoreTyped
<1>4. CallInv'
  <2> SUFFICES ASSUME NEW w \in Users, at'[w] # "idle" PROVE CallOK(w)'
    BY DEF CallInv
  <2>1. /\ call'[w].req = call[w].req /\ call'[w].num = call[w].num
        /\ call'[w].lease \in {call[w].lease, call[w].num}
        /\ at[w] # "idle" /\ at'[w] \in {"send", at[w]}
    BY <1>1 DEF StoreInv, StoreTyped
  <2>2. CallOK(w)
    BY <2>1 DEF StoreInv, CallInv
  <2> QED
    BY <1>1, <2>1, <2>2 DEF CallOK
<1>5. LeaseInv'
  <2> SUFFICES ASSUME NEW l \in DOMAIN leases'
               PROVE  /\ l \in 1..calls /\ leases'[l] \in Nat
                      /\ begun[l].ttl # 0 /\ begun[l].time + begun[l].ttl <= leases'[l]
    BY <1>1 DEF LeaseInv
  <2>1. CASE l = call[u].num
    <3>1. l \in 1..calls /\ leases'[l] = clock + begun[l].ttl /\ begun[l].ttl \in Nat \ {0}
          /\ begun[l].time <= clock
      BY <1>1, <1>2, <2>1 DEF CallOK
    <3>2. begun[l].time \in Nat /\ clock \in Nat
      BY <3>1, BegunType DEF StoreInv, StoreTyped
    <3> QED
      BY <3>1, <3>2
  <2>2. CASE l # call[u].num
    BY <1>1, <2>2 DEF StoreInv, LeaseInv
  <2> QED
    BY <2>1, <2>2
<1>6. ObjectInv'
  BY <1>1 DEF StoreInv, ObjectInv
<1> QED
  BY <1>3, <1>4, <1>5, <1>6 DEF StoreInv

LEMMA TimeKeeps ==
  ASSUME StoreInv, Tick \/ CatchUp \/ (\E l \in DOMAIN leases : Expire(l))
  PROVE  StoreInv'
<1>1. UNCHANGED <<calls, at, call, begun>>
  BY DEF Tick, CatchUp, Expire
<1>2. clock' \in Nat /\ clock <= clock'
  <2>1. clock \in Nat
    BY DEF StoreInv, StoreTyped
  <2>2. clock' = clock \/ clock' = clock + 1
    BY DEF Tick, CatchUp, Expire
  <2> QED
    BY <2>1, <2>2
<1>3. StoreTyped'
  <2>1. /\ calls' \in 0..MaxCalls /\ at' \in [Users -> {"idle", "grant", "send"}]
        /\ call' \in [Users -> [req : Requests \cup {NoCall}, num : Nat, lease : Nat]]
    BY <1>1 DEF StoreInv, StoreTyped
  <2>2. begun' \in Seq([time : Nat, ttl : Nat]) /\ Len(begun') = calls'
    <3>1. begun \in Seq([time : Nat, ttl : Nat]) /\ Len(begun) = calls
      BY DEF StoreInv, StoreTyped
    <3>2. begun' = begun /\ calls' = calls
      BY <1>1
    <3> QED
      BY <3>1, <3>2, Zenon
  <2> QED
    BY <1>2, <2>1, <2>2 DEF StoreTyped
<1>4. CallInv'
  <2> SUFFICES ASSUME NEW u \in Users, at[u] # "idle" PROVE CallOK(u)'
    BY <1>1 DEF CallInv
  <2>1. CallOK(u)
    BY DEF StoreInv, CallInv
  <2>2. begun[call[u].num].time \in Nat /\ clock \in Nat
    BY <2>1, BegunType DEF CallOK, StoreInv, StoreTyped
  <2> QED
    BY <1>1, <1>2, <2>1, <2>2 DEF CallOK
<1>5. LeaseInv' /\ ObjectInv'
  <2>1. \A l \in DOMAIN leases' : l \in DOMAIN leases /\ leases'[l] = leases[l]
    BY DEF Tick, CatchUp, Expire
  <2>2. \A k \in DOMAIN kvs' : k \in DOMAIN kvs /\ kvs'[k] = kvs[k]
    BY DEF Tick, CatchUp, Expire
  <2> QED
    BY <1>1, <2>1, <2>2 DEF StoreInv, LeaseInv, ObjectInv
<1> QED
  BY <1>3, <1>4, <1>5 DEF StoreInv

LEMMA StoreInvariant == StoreSpec => []StoreInv
<1>1. StoreInit => StoreInv
  <2> SUFFICES ASSUME StoreInit PROVE StoreInv
    OBVIOUS
  <2>1. StoreTyped
    BY StoreAssumption DEF StoreInit, StoreTyped, StoreAssumption
  <2> QED
    BY <2>1 DEF StoreInit, StoreInv, CallInv, LeaseInv, ObjectInv
<1>2. StoreInv /\ [StoreNext]_storeVars => StoreInv'
  <2> SUFFICES ASSUME StoreInv, [StoreNext]_storeVars PROVE StoreInv'
    OBVIOUS
  <2>1. CASE UNCHANGED storeVars
    BY <2>1 DEF storeVars, StoreInv, StoreTyped, CallInv, CallOK, LeaseInv, ObjectInv
  <2>2. CASE Tick \/ CatchUp \/ \E l \in DOMAIN leases : Expire(l)
    BY <2>2, TimeKeeps
  <2>3. ASSUME NEW u \in Users,
               \/ \E r \in Requests : Begin(u, r)
               \/ TtlOpts(u) \/ Create(u) \/ Delete(u) \/ Update(u) \/ Get(u) \/ List(u)
               \/ CallFails(u) \/ PutTooLate(u)
        PROVE  StoreInv'
    BY <2>3, StoreAssumption, BeginKeeps, TtlOptsKeeps, PutKeeps, ReadKeeps
  <2> QED
    BY <2>1, <2>2, <2>3 DEF StoreNext
<1> QED
  BY <1>1, <1>2, PTL DEF StoreSpec

---------------------------------------------------------------------------
(* Objects live their time. *)

\* Only the end of a lease takes leases and objects away together, and an object that
\* goes with it had it for itself.
LEMMA StepLivesItsTime ==
  ASSUME StoreInv, [StoreNext]_storeVars, leases' # leases,
         NEW k \in DOMAIN kvs, k \notin DOMAIN kvs'
  PROVE  LET b == begun[kvs[k].obj] IN b.ttl # 0 /\ b.time + b.ttl <= clock
<1>1. PICK l \in DOMAIN leases : Expire(l)
  <2>1. kvs' # kvs /\ leases' # leases
    OBVIOUS
  <2>2. ASSUME NEW u \in Users PROVE \A r \in Requests : ~Begin(u, r)
    BY <2>1 DEF Begin
  <2>3. ASSUME NEW u \in Users
        PROVE  ~(\/ TtlOpts(u) \/ Create(u) \/ Delete(u) \/ Update(u) \/ Get(u) \/ List(u)
                 \/ CallFails(u) \/ PutTooLate(u))
    BY <2>1 DEF TtlOpts, Create, Delete, Update, Get, List, CallFails, PutTooLate
  <2>4. ~Tick /\ ~CatchUp /\ ~UNCHANGED storeVars
    BY <2>1 DEF Tick, CatchUp, storeVars
  <2> QED
    BY <2>2, <2>3, <2>4 DEF StoreNext
<1>2. kvs[k].lease = l /\ leases[l] <= clock
  BY <1>1 DEF Expire
<1>3. /\ l \in 1..calls /\ leases[l] \in Nat
      /\ begun[l].ttl # 0 /\ begun[l].time + begun[l].ttl <= leases[l]
  BY <1>1 DEF StoreInv, LeaseInv
<1>4. kvs[k].obj = l
  BY <1>2, <1>3 DEF StoreInv, ObjectInv
<1>5. begun[l].time \in Nat /\ begun[l].ttl \in Nat /\ clock \in Nat
  BY <1>3, BegunType DEF StoreInv, StoreTyped
<1> QED
  BY <1>2, <1>3, <1>4, <1>5

\* No object goes before its time to live is over, counted from the call that put it
\* last, and one put for good stays, for any number of users, keys and calls.
THEOREM ObjectsLiveTheirTime == StoreSpec => LivesItsTime
<1>1. StoreInv /\ [StoreNext]_storeVars =>
        [\A k \in DOMAIN kvs : leases' # leases /\ k \notin DOMAIN kvs' =>
           LET b == begun[kvs[k].obj] IN b.ttl # 0 /\ b.time + b.ttl <= clock]_storeVars
  BY StepLivesItsTime
<1> QED
  BY <1>1, StoreInvariant, PTL DEF StoreSpec, LivesItsTime

---------------------------------------------------------------------------
(* The store is a directory. *)

dir == ObjectsOf(kvs)
late == ObjectsOf(behind)

\* What a call says in the directory is what its user gets.
LEMMA AnswersSay ==
  ASSUME NEW u \in Users, NEW err, NEW found, Answers(u, err, found)
  PROVE  Promised!Says(u, err, found) /\ late' = late
BY DEF Answers, Returns, Promised!Says, Promised!Answer, late, ObjectsOf

\* What is put is the object of the call.
LEMMA PutObject ==
  ASSUME NEW u \in Users, kvs' = WithPut(u)
  PROVE  dir' = [k \in DOMAIN dir \cup {Key(u)} |-> IF k = Key(u) THEN call[u].num ELSE dir[k]]
BY DEF WithPut, dir, ObjectsOf

LEMMA FoundHere ==
  ASSUME NEW u \in Users
  PROVE  /\ Found(kvs, Key(u)) = Promised!Here(Key(u))
         /\ DOMAIN dir = DOMAIN kvs /\ DOMAIN late = DOMAIN behind
BY DEF Found, Promised!Here, dir, late, ObjectsOf

\* The key and the object of a call that is sent.
LEMMA SentCall ==
  ASSUME StoreInv, NEW u \in Users, at[u] = "send"
  PROVE  Key(u) \in KeysAsked /\ call[u].num \in 1..MaxCalls
<1>1. CallOK(u)
  BY DEF StoreInv, CallInv
<1>2. call[u].num \in 1..calls /\ calls \in 0..MaxCalls
  BY <1>1 DEF CallOK, StoreInv, StoreTyped
<1> QED
  BY <1>1, <1>2, StoreAssumption DEF Key, KeysAsked, CallOK, StoreAssumption

LEMMA WriteRefines ==
  ASSUME StoreInv, NEW u \in Users, Create(u) \/ Update(u) \/ Delete(u)
  PROVE  Promised!DirectoryNext
<1>1. Key(u) \in KeysAsked /\ call[u].num \in 1..MaxCalls
  BY SentCall DEF Create, Update, Delete, Sends
<1>2. CASE Create(u)
  <2>1. Promised!DirectoryCreate(u, Key(u), call[u].num)
    BY <1>2, AnswersSay, PutObject, FoundHere
       DEF Create, Promised!DirectoryCreate, Promised!Stays, dir, late
  <2> QED
    BY <1>1, <2>1 DEF Promised!DirectoryNext
<1>3. CASE Update(u)
  <2>1. Promised!DirectoryUpdate(u, Key(u), call[u].num)
    BY <1>3, AnswersSay, PutObject, FoundHere DEF Update, Promised!DirectoryUpdate, dir, late
  <2> QED
    BY <1>1, <2>1 DEF Promised!DirectoryNext
<1>4. CASE Delete(u)
  <2>1. dir' = [k \in DOMAIN dir \ {Key(u)} |-> dir[k]]
    BY <1>4 DEF Delete, dir, ObjectsOf
  <2>2. ASSUME Key(u) \in DOMAIN kvs PROVE Promised!DirectoryDelete(u, Key(u))
    BY <1>4, <2>1, <2>2, AnswersSay, FoundHere DEF Delete, Promised!DirectoryDelete, dir, late
  <2>3. ASSUME Key(u) \notin DOMAIN kvs PROVE Promised!DirectoryDelete(u, Key(u))
    <3>1. dir' = dir
      BY <2>1, <2>3, FoundHere DEF dir, ObjectsOf
    <3> QED
      BY <1>4, <2>3, <3>1, AnswersSay, FoundHere
         DEF Delete, Promised!DirectoryDelete, Promised!Stays, dir, late
  <2>4. Promised!DirectoryDelete(u, Key(u))
    BY <2>2, <2>3
  <2> QED
    BY <1>1, <2>4 DEF Promised!DirectoryNext
<1> QED
  BY <1>2, <1>3, <1>4

LEMMA ReadRefines ==
  ASSUME StoreInv, NEW u \in Users, Get(u) \/ List(u) \/ CallFails(u) \/ PutTooLate(u)
  PROVE  Promised!DirectoryNext
<1>1. kvs' = kvs /\ behind' = behind /\ dir' = dir /\ late' = late
  BY DEF Get, List, CallFails, PutTooLate, Answers, Returns, dir, late, ObjectsOf
<1>2. Promised!Stays
  BY <1>1 DEF Promised!Stays, dir, late
<1>3. CASE Get(u)
  <2>1. at[u] = "send"
    BY <1>3 DEF Get, Sends
  <2>2. PICK of \in {kvs, behind} :
          \/ Key(u) \in DOMAIN of /\ Answers(u, "none", Found(of, Key(u)))
          \/ Key(u) \notin DOMAIN of
             /\ Answers(u, IF call[u].req.ignore THEN "none" ELSE "key not found", {})
    BY <1>3 DEF Get
  <2>3. ObjectsOf(of) \in {dir, late} /\ DOMAIN ObjectsOf(of) = DOMAIN of
    BY DEF dir, late, ObjectsOf
  <2>4. ASSUME Key(u) \in DOMAIN of PROVE Promised!DirectoryGet(u, Key(u))
    <3>1. Found(of, Key(u)) = {ObjectsOf(of)[Key(u)]}
      BY <2>4 DEF Found, ObjectsOf
    <3>2. Promised!Says(u, "none", {ObjectsOf(of)[Key(u)]})
      BY <2>2, <2>4, <3>1, AnswersSay
    <3> QED
      BY <1>2, <2>3, <2>4, <3>2 DEF Promised!DirectoryGet, dir, late
  <2>5. ASSUME Key(u) \notin DOMAIN of PROVE Promised!DirectoryGet(u, Key(u))
    <3>1. \E err \in {"none", "key not found"} : Promised!Says(u, err, {})
      BY <2>2, <2>5, AnswersSay
    <3> QED
      BY <1>2, <2>3, <2>5, <3>1 DEF Promised!DirectoryGet, dir, late
  <2>6. Promised!DirectoryGet(u, Key(u))
    BY <2>4, <2>5
  <2> QED
    BY <2>1, <2>6, SentCall DEF Promised!DirectoryNext
<1>4. CASE List(u)
  <2> DEFINE Keys == ListedIn(DOMAIN kvs, Key(u))
  <2>1. Keys \subseteq KeysAsked /\ Keys \subseteq DOMAIN kvs
    BY DEF ListedIn, StoreInv, ObjectInv
  <2> HIDE DEF Keys
  <2>2. {kvs[k].obj : k \in Keys} = {dir[k] : k \in DOMAIN dir \cap Keys}
    BY <2>1 DEF dir, ObjectsOf
  <2>3. Promised!Says(u, "none", {kvs[k].obj : k \in Keys})
    BY <1>4, AnswersSay DEF List, Keys
  <2>4. Promised!DirectoryList(u, Keys)
    BY <1>2, <2>2, <2>3 DEF Promised!DirectoryList, dir
  <2> QED
    BY <2>1, <2>4 DEF Promised!DirectoryNext
<1>5. CASE CallFails(u) \/ PutTooLate(u)
  <2>1. Promised!DirectoryFail(u)
    BY <1>2, <1>5 DEF CallFails, PutTooLate, Returns, Promised!DirectoryFail, Promised!Answer
  <2> QED
    BY <2>1 DEF Promised!DirectoryNext
<1> QED
  BY <1>3, <1>4, <1>5

LEMMA StepRefines ==
  ASSUME StoreInv, [StoreNext]_storeVars
  PROVE  [Promised!DirectoryNext]_<<dir, late, reply>>
<1>1. CASE UNCHANGED <<kvs, behind, reply>>
  BY <1>1 DEF dir, late, ObjectsOf
<1>2. CASE Tick \/ UNCHANGED storeVars \/ (\E u \in Users : TtlOpts(u) \/ \E r \in Requests : Begin(u, r))
  <2>1. UNCHANGED <<kvs, behind, reply>>
    BY <1>2 DEF Tick, storeVars, TtlOpts, Begin
  <2> QED
    BY <1>1, <2>1
<1>3. CASE CatchUp
  <2>1. Promised!CatchUp
    BY <1>3 DEF CatchUp, Promised!CatchUp, ObjectsOf
  <2> QED
    BY <2>1 DEF Promised!DirectoryNext
<1>4. ASSUME NEW l \in DOMAIN leases, Expire(l) PROVE Promised!DirectoryNext
  <2> DEFINE Gone == {k \in DOMAIN kvs : kvs[k].lease = l}
  <2>1. Gone \in SUBSET DOMAIN dir /\ dir' = [k \in DOMAIN dir \ Gone |-> dir[k]]
    BY <1>4 DEF Expire, dir, ObjectsOf
  <2>2. late' = late /\ reply' = reply
    BY <1>4 DEF Expire, late, ObjectsOf
  <2> HIDE DEF Gone
  <2>3. Promised!Vanish
    BY <2>1, <2>2 DEF Promised!Vanish, dir, late
  <2> QED
    BY <2>3 DEF Promised!DirectoryNext
<1> QED
  BY <1>2, <1>3, <1>4, WriteRefines, ReadRefines DEF StoreNext

\* The store of any number of users keeps the promise of its interface: every call
\* looks at or changes one directory at one moment, whatever is lost or late.
THEOREM Implements == StoreSpec => DirectoryPromise
<1>1. StoreInit => Promised!DirectoryInit
  BY DEF StoreInit, Promised!DirectoryInit, ObjectsOf
<1>2. StoreInv /\ [StoreNext]_storeVars => [Promised!DirectoryNext]_<<dir, late, reply>>
  BY StepRefines
<1> QED
  BY <1>1, <1>2, StoreInvariant, PTL DEF StoreSpec, DirectoryPromise, Promised!DirectorySpec, dir, late

---------------------------------------------------------------------------
(* The provider of the client. *)

Steps == {"idle", "quick", "lock", "dial", "make"}

ProviderTyped ==
  /\ cliLock \in Callers \cup {Nobody}
  /\ step \in [Callers -> Steps] /\ got \in [Callers -> Nat]
  /\ etcdClient \in Nat /\ made \in Nat /\ failures \in Nat

\* Who dials again or makes a client has the lock.
LockInv == \A g \in Callers : step[g] \in {"dial", "make"} => cliLock = g

\* What is open is the client in etcdClient, and nothing is while one is made.
ClientInv ==
  /\ open \subseteq {etcdClient} /\ compactors \subseteq open
  /\ etcdClient = 0 => open = {}
  /\ \A g \in Callers : step[g] = "make" => open = {}

ProviderInv == ProviderTyped /\ LockInv /\ ClientInv

---------------------------------------------------------------------------
(* The steps without the lock leave the clients as they are. *)

LEMMA QuietKeeps ==
  ASSUME ProviderInv, NEW g \in Callers, NEW to \in Steps \ {"dial", "make"},
         step' = [step EXCEPT ![g] = to], got' \in [Callers -> Nat], failures' \in Nat,
         step[g] \notin {"dial", "make"}, UNCHANGED cliLock, UNCHANGED clients
  PROVE  ProviderInv'
<1>1. /\ cliLock' = cliLock /\ etcdClient' = etcdClient /\ open' = open
      /\ compactors' = compactors /\ made' = made
  BY DEF clients
<1>2. ProviderTyped'
  BY <1>1 DEF ProviderInv, ProviderTyped
<1>3. \A h \in Callers : step'[h] \in {"dial", "make"} => step[h] = step'[h]
  BY DEF ProviderInv, ProviderTyped
<1> QED
  BY <1>1, <1>2, <1>3 DEF ProviderInv, LockInv, ClientInv

LEMMA QuickKeeps ==
  ASSUME ProviderInv, StoreProviderAssumption, NEW g \in Callers, QuickDial(g) \/ QuickStore(g)
  PROVE  ProviderInv'
<1>1. CASE QuickDial(g)
  <2>1. failures' \in Nat /\ got' \in [Callers -> Nat]
    BY <1>1 DEF QuickDial, DialFails, ProviderInv, ProviderTyped
  <2>2. PICK to \in {"quick", "lock"} : step' = [step EXCEPT ![g] = to]
    BY <1>1 DEF QuickDial
  <2> QED
    BY <1>1, <2>1, <2>2, QuietKeeps DEF QuickDial, Steps
<1>2. CASE QuickStore(g)
  <2>1. failures' \in Nat /\ got' \in [Callers -> Nat]
    BY <1>2 DEF QuickStore, ProviderInv, ProviderTyped
  <2> QED
    BY <1>2, <2>1, QuietKeeps DEF QuickStore, Steps
<1> QED
  BY <1>1, <1>2

---------------------------------------------------------------------------
(* The steps under the lock. *)

LEMMA LockKeeps ==
  ASSUME ProviderInv, StoreProviderAssumption, NEW g \in Callers, Lock(g)
  PROVE  ProviderInv'
<1>1. /\ cliLock = Nobody /\ cliLock' = g /\ etcdClient' = etcdClient /\ open' = open
      /\ compactors' = compactors /\ made' = made
  BY DEF Lock, clients
<1>2. ProviderTyped'
  BY <1>1 DEF Lock, ProviderInv, ProviderTyped, Steps
<1>3. \A h \in Callers : step[h] \notin {"dial", "make"}
  BY <1>1 DEF ProviderInv, LockInv, StoreProviderAssumption
<1>4. \A h \in Callers : step'[h] \in {"dial", "make"} => h = g
  BY <1>3 DEF Lock, ProviderInv, ProviderTyped
<1>5. step'[g] = "make" => etcdClient = 0
  BY DEF Lock, ProviderInv, ProviderTyped
<1> QED
  BY <1>1, <1>2, <1>4, <1>5 DEF ProviderInv, LockInv, ClientInv

\* Who lets the lock go was the only one with it.
LEMMA UnlockKeeps ==
  ASSUME ProviderInv, StoreProviderAssumption, NEW g \in Callers, NEW client \in Nat,
         step[g] \in {"dial", "make"}, Unlock(g, client), failures' \in Nat,
         etcdClient' \in Nat, made' \in Nat,
         open' \subseteq {etcdClient'}, compactors' \subseteq open',
         etcdClient' = 0 => open' = {}
  PROVE  ProviderInv'
<1>1. ProviderTyped'
  BY DEF Unlock, ProviderInv, ProviderTyped, Steps
<1>2. \A h \in Callers : step'[h] \notin {"dial", "make"}
  <2> TAKE h \in Callers
  <2>1. CASE h = g
    BY <2>1 DEF Unlock, ProviderInv, ProviderTyped
  <2>2. CASE h # g
    BY <2>2 DEF Unlock, ProviderInv, ProviderTyped, LockInv
  <2> QED
    BY <2>1, <2>2
<1> QED
  BY <1>1, <1>2 DEF ProviderInv, LockInv, ClientInv

LEMMA DialAgainKeeps ==
  ASSUME ProviderInv, StoreProviderAssumption, NEW g \in Callers, DialAgain(g)
  PROVE  ProviderInv'
<1>1. CASE etcdClient \in open /\ Unlock(g, etcdClient) /\ UNCHANGED failures /\ UNCHANGED clients
  BY <1>1, UnlockKeeps DEF DialAgain, clients, ProviderInv, ProviderTyped, ClientInv
<1>2. CASE /\ DialFails /\ step' = [step EXCEPT ![g] = "make"]
           /\ open' = open \ {etcdClient} /\ compactors' = compactors \ {etcdClient}
           /\ UNCHANGED <<configured, etcdClient, endpoints, cliLock, got, made>>
  <2>1. ProviderTyped'
    BY <1>2 DEF DialFails, ProviderInv, ProviderTyped, Steps
  <2>2. open' = {} /\ compactors' = {}
    BY <1>2 DEF ProviderInv, ClientInv
  <2>3. LockInv'
    BY <1>2 DEF DialAgain, ProviderInv, LockInv, ProviderTyped
  <2> QED
    BY <2>1, <2>2, <2>3 DEF ProviderInv, ClientInv
<1> QED
  BY <1>1, <1>2 DEF DialAgain

LEMMA MakeKeeps ==
  ASSUME ProviderInv, StoreProviderAssumption, NEW g \in Callers, Make(g) \/ MakeFails(g)
  PROVE  ProviderInv'
<1>1. open = {} /\ compactors = {}
  BY DEF Make, MakeFails, ProviderInv, ClientInv
<1>2. CASE Make(g)
  BY <1>1, <1>2, UnlockKeeps DEF Make, NewEtcdClient, StartCompactor, ProviderInv, ProviderTyped
<1>3. CASE MakeFails(g)
  BY <1>1, <1>3, UnlockKeeps DEF MakeFails, clients, ProviderInv, ProviderTyped
<1> QED
  BY <1>2, <1>3

---------------------------------------------------------------------------
LEMMA ProviderInvariant == ProviderSpec => []ProviderInv
<1>1. ProviderInit => ProviderInv
  BY DEF ProviderInit, ProviderInv, ProviderTyped, Steps, LockInv, ClientInv
<1>2. ProviderInv /\ [ProviderNext]_providerVars => ProviderInv'
  <2> SUFFICES ASSUME ProviderInv, [ProviderNext]_providerVars PROVE ProviderInv'
    OBVIOUS
  <2>1. CASE SetEtcdConfig
    BY <2>1 DEF SetEtcdConfig, ProviderInv, ProviderTyped, LockInv, ClientInv
  <2>2. ASSUME NEW g \in Callers,
               \/ QuickDial(g) \/ QuickStore(g) \/ Lock(g)
               \/ DialAgain(g) \/ MakeFails(g) \/ Make(g)
        PROVE  ProviderInv'
    BY <2>2, StoreProviderAssumption, QuickKeeps, LockKeeps, DialAgainKeeps, MakeKeeps
  <2>3. CASE UNCHANGED providerVars
    BY <2>3 DEF providerVars, ProviderInv, ProviderTyped, LockInv, ClientInv
  <2> QED
    BY <2>1, <2>2, <2>3 DEF ProviderNext
<1> QED
  BY <1>1, <1>2, PTL DEF ProviderSpec

\* GetStoreInstance: whenever nobody has the lock, the client in etcdClient is the
\* only one that may be open and no compactor outlives it, for any number of callers,
\* however their dials fail.
THEOREM OneClientOpen == ProviderSpec => []OneClient
<1>1. ProviderInv => OneClient
  BY DEF ProviderInv, ClientInv, OneClient
<1> QED
  BY ProviderInvariant, <1>1, PTL

=============================================================================
