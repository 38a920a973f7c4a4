----------------------------- MODULE Compactor -----------------------------
(***************************************************************************)
(* registry/generic/compact.go: every process that shares the etcd cluster *)
(* runs a compactor. Once per interval it tries to advance the logical     *)
(* clock they share, the version of compact_rev_key, by one; the one that  *)
(* does compacts etcd up to the revision it learnt a round before.         *)
(*                                                                         *)
(* Processes stop and start again at any moment, and the response of a     *)
(* transaction may be lost when its effect is not.                         *)
(***************************************************************************)
EXTENDS Naturals

CONSTANTS Procs,  \* the processes
          MaxRev, \* bound: revisions of etcd
          MaxTime \* bound: the version of compact_rev_key

ASSUME BoundsAssumption == MaxRev \in Nat /\ MaxTime \in Nat

VARIABLES
  revision,    \* etcd: the current revision
  version,     \* etcd: the version of compact_rev_key
  compacted,   \* etcd: the revision it was last compacted at
  roundRev,    \* history: the revision of the txn that made each version
  compactedBy, \* history: the compactions of each round
  pc,          \* compact: waiting, or between its transaction and Compact
  compactTime, rev, \* compactor: the local variables of the loop
  curRev       \* compact: the revision its transaction returned

vars == <<revision, version, compacted, roundRev, compactedBy, pc, compactTime,
          rev, curRev>>

Init ==
  /\ revision = 1 /\ version = 0 /\ compacted = 0
  /\ roundRev = [t \in 0..MaxTime |-> 0]
  /\ compactedBy = [t \in 0..MaxTime |-> 0]
  /\ pc = [p \in Procs |-> "wait"]
  /\ compactTime = [p \in Procs |-> 0]
  /\ rev = [p \in Procs |-> 0]
  /\ curRev = [p \in Procs |-> 0]

\* Anybody writes another key.
Write ==
  /\ revision < MaxRev
  /\ revision' = revision + 1
  /\ UNCHANGED <<version, compacted, roundRev, compactedBy, pc, compactTime,
                 rev, curRev>>

\* Mutant: the put does not depend on the version.
AdvanceAlways(p) ==
  /\ version < MaxTime /\ revision < MaxRev
  /\ revision' = revision + 1
  /\ version' = version + 1
  /\ roundRev' = [roundRev EXCEPT ![version + 1] = revision + 1]

\* The Then branch in etcd: a put, which makes the next version and revision.
Advance(p) ==
  /\ version = compactTime[p] /\ version < MaxTime /\ revision < MaxRev
  /\ revision' = revision + 1
  /\ version' = version + 1
  /\ roundRev' = [roundRev EXCEPT ![version + 1] = revision + 1]

\* The transaction succeeds: the round is p's. It compacts, unless it knows
\* no revision yet.
Succeed(p) ==
  /\ pc[p] = "wait"
  /\ Advance(p)
  /\ compactTime' = [compactTime EXCEPT ![p] = @ + 1]
  /\ IF rev[p] = 0
     THEN /\ rev' = [rev EXCEPT ![p] = revision + 1]
          /\ UNCHANGED <<pc, curRev>>
     ELSE /\ pc' = [pc EXCEPT ![p] = "compact"]
          /\ curRev' = [curRev EXCEPT ![p] = revision + 1]
          /\ UNCHANGED rev
  /\ UNCHANGED <<compacted, compactedBy>>

\* The transaction is applied, but p only sees an error: it keeps what it knew.
LoseResponse(p) ==
  /\ pc[p] = "wait"
  /\ Advance(p)
  /\ UNCHANGED <<compacted, compactedBy, pc, compactTime, rev, curRev>>

\* The Else branch: another process has advanced the clock.
Fail(p) ==
  /\ pc[p] = "wait" /\ version # compactTime[p]
  /\ compactTime' = [compactTime EXCEPT ![p] = version]
  /\ rev' = [rev EXCEPT ![p] = revision]
  /\ UNCHANGED <<revision, version, compacted, roundRev, compactedBy, pc,
                 curRev>>

\* Mutant: etcd is compacted at the revision just learnt.
CompactNow(p) ==
  /\ pc[p] = "compact"
  /\ \/ /\ curRev[p] > compacted
        /\ compacted' = curRev[p]
        /\ compactedBy' = [compactedBy EXCEPT ![compactTime[p]] = @ + 1]
     \/ UNCHANGED <<compacted, compactedBy>>
  /\ rev' = [rev EXCEPT ![p] = curRev[p]]
  /\ pc' = [pc EXCEPT ![p] = "wait"]
  /\ UNCHANGED <<revision, version, roundRev, compactTime, curRev>>

\* client.Compact: etcd refuses a revision that is compacted already.
Compact(p) ==
  /\ pc[p] = "compact"
  /\ \/ /\ rev[p] > compacted
        /\ compacted' = rev[p]
        /\ compactedBy' = [compactedBy EXCEPT ![compactTime[p]] = @ + 1]
     \/ UNCHANGED <<compacted, compactedBy>>
  /\ rev' = [rev EXCEPT ![p] = curRev[p]]
  /\ pc' = [pc EXCEPT ![p] = "wait"]
  /\ UNCHANGED <<revision, version, roundRev, compactTime, curRev>>

\* The process restarts, at any point of its round.
Restart(p) ==
  /\ pc' = [pc EXCEPT ![p] = "wait"]
  /\ compactTime' = [compactTime EXCEPT ![p] = 0]
  /\ rev' = [rev EXCEPT ![p] = 0]
  /\ curRev' = [curRev EXCEPT ![p] = 0]
  /\ UNCHANGED <<revision, version, compacted, roundRev, compactedBy>>

Next ==
  \/ Write
  \/ \E p \in Procs : \/ Succeed(p) \/ LoseResponse(p) \/ Fail(p)
                      \/ Compact(p) \/ Restart(p)

Spec == Init /\ [][Next]_vars

---------------------------------------------------------------------------
(* Properties. *)

\* The type of every variable.
TypeOK ==
  /\ revision \in Nat /\ version \in 0..MaxTime /\ compacted \in Nat
  /\ roundRev \in [0..MaxTime -> Nat]
  /\ compactedBy \in [0..MaxTime -> Nat]
  /\ pc \in [Procs -> {"wait", "compact"}]
  /\ compactTime \in [Procs -> 0..MaxTime]
  /\ rev \in [Procs -> Nat] /\ curRev \in [Procs -> Nat]

\* What was written since the clock last advanced is never compacted, whoever
\* advanced it and however late a Compact call reaches etcd: a watch or a
\* listing that keeps up with the clock never meets a compacted revision.
KeepsRound == version > 0 => compacted < roundRev[version]

\* However the processes race, restart and miss responses, etcd is compacted
\* at most once for every tick of the clock.
OncePerRound == \A t \in 0..MaxTime : compactedBy[t] <= 1

\* Two processes never go about the compaction of the same round, and the later
\* round compacts more.
RoundsApart ==
  \A p, q \in Procs :
    pc[p] = "compact" /\ pc[q] = "compact" /\ p # q =>
      /\ compactTime[p] # compactTime[q]
      /\ compactTime[p] < compactTime[q] => rev[p] < rev[q]
=============================================================================
