---------------------------- MODULE JavaProofs ----------------------------
(***************************************************************************)
(* Proofs about the side of the Java services: the version manager, the    *)
(* synchronisation with zookeeper and the probes, for any number of calls, *)
(* clusters, nodes, changes and services.                                  *)
(***************************************************************************)
EXTENDS Versioner, ZkSync, ServiceCheck, FiniteSetTheorems, TLAPS

---------------------------------------------------------------------------
(* The version manager. *)

CallStates ==
  [op : {"none", "set", "add", "event", "delete"}, cluster : Clusters,
   obj : {0} \cup VersionCalls,
   at : {"none", "look", "found", "deleting", "done"}]

\* An object is what the call that made it works on alone until it has put it
\* into the map; an entry without a version was put there by AddVersion.
VersionTyped ==
  /\ vmap \in [Clusters -> {0} \cup VersionCalls]
  /\ info \in [VersionCalls -> [expected : {0} \cup VersionCalls,
                               backup : {0} \cup VersionCalls]]
  /\ calling \in [VersionCalls -> CallStates]
  /\ before \in [VersionCalls -> SUBSET VersionCalls]
  /\ \A c \in VersionCalls :
       /\ before[c] \subseteq Returned
       /\ calling[c].at # "none" => calling[c].op # "none"
       /\ calling[c].at = "found" => /\ calling[c].obj # 0
                                     /\ calling[calling[c].obj].cluster
                                          = calling[c].cluster
                                     /\ calling[c].obj # c =>
                                          calling[calling[c].obj].at = "done"
                                     /\ calling[c].op \in {"set", "add", "event"}
       /\ calling[c].at = "deleting" => calling[c].op = "delete"
       /\ calling[c].at # "done" => info[c].expected = 0
  /\ \A k \in Clusters : vmap[k] # 0 => /\ calling[vmap[k]].cluster = k
                                        /\ calling[vmap[k]].at = "done"
                                        /\ calling[vmap[k]].obj = vmap[k]
                                        /\ info[vmap[k]].expected = 0 =>
                                             calling[vmap[k]].op = "add"

\* The call that gave the entry of k its version, or that put it there empty.
Origin(k) == IF info[vmap[k]].expected = 0 THEN vmap[k] ELSE info[vmap[k]].expected

\* A call made after the entry's version was set has either found that very
\* entry, or made an object of its own which it will put in its place; it has
\* not returned.
StoredLast(c, k) ==
  vmap[k] # 0 /\ Origin(k) \in before[c] /\ calling[c].cluster = k /\ Writes(c) =>
    /\ calling[c].at # "done"
    /\ calling[c].at = "found" => calling[c].obj \in {c, vmap[k]}

\* Without an entry: so has every call made after some deletion, or every call.
Behind(S, k) ==
  \A c \in S : calling[c].cluster = k /\ Writes(c) =>
    /\ calling[c].at # "done"
    /\ calling[c].at = "found" => calling[c].obj = c
DeletedLast(k) ==
  vmap[k] = 0 =>
    \/ Behind(VersionCalls, k)
    \/ \E d \in VersionCalls :
         /\ calling[d].op = "delete" /\ calling[d].cluster = k
         /\ calling[d].at = "done"
         /\ Behind({c \in VersionCalls : d \in before[c]}, k)

VersionInv == /\ VersionTyped
              /\ \A k \in Clusters : /\ \A c \in VersionCalls : StoredLast(c, k)
                                     /\ DeletedLast(k)

\* The calls are positive numbers, so that none of them is VersionNone.
LEMMA CallsPositive == 0 \notin VersionCalls
  BY VersionerAssumption DEF VersionCalls

LEMMA VersionStart ==
  ASSUME VersionInit, Clusters # {}
  PROVE  VersionInv
<1> USE DEF VersionInit, NoInfo
<1>1. (CHOOSE k \in Clusters : TRUE) \in Clusters
  OBVIOUS
<1>2. VersionTyped
  BY <1>1 DEF VersionTyped, CallStates, Returned
<1>3. \A k \in Clusters : /\ \A c \in VersionCalls : StoredLast(c, k)
                          /\ DeletedLast(k)
  BY DEF StoredLast, DeletedLast, Behind, Writes
<1> QED
  BY <1>2, <1>3 DEF VersionInv

\* A new call has found nothing.
LEMMA VersionBegin ==
  ASSUME VersionInv, NEW c \in VersionCalls, NEW op \in {"set", "add", "event", "delete"},
         NEW k \in Clusters, BeginCall(c, op, k)
  PROVE  VersionInv'
<1> USE DEF VersionInv, BeginCall
<1>1. /\ calling'[c].at = "look" /\ calling'[c].op = op
      /\ \A b \in VersionCalls \ {c} : /\ calling'[b] = calling[b]
                                       /\ before'[b] = before[b]
      /\ calling[c].at = "none"
  BY DEF VersionTyped, CallStates
<1>2. \A b \in VersionCalls : calling[b].at # "none" => calling'[b] = calling[b]
  BY <1>1
<1>3. VersionTyped'
  <2>1. Returned' = Returned
    BY <1>1 DEF Returned
  <2>2. before'[c] = Returned
    BY DEF VersionTyped, CallStates
  <2>3. \A b \in VersionCalls : before'[b] \subseteq Returned'
    BY <1>1, <2>1, <2>2 DEF VersionTyped, CallStates
  <2>4. ASSUME NEW b \in VersionCalls, calling'[b].at = "found"
        PROVE  /\ calling'[b].obj # 0
               /\ calling'[calling'[b].obj].cluster = calling'[b].cluster
               /\ calling'[b].obj # b => calling'[calling'[b].obj].at = "done"
               /\ calling'[b].op \in {"set", "add", "event"}
    <3>1. calling'[b] = calling[b] /\ calling[b].at = "found"
      BY <1>1, <2>4
    <3>2. calling[b].obj \in VersionCalls
      BY <3>1 DEF VersionTyped, CallStates
    <3>3. calling'[calling[b].obj] = calling[calling[b].obj]
      BY <1>2, <3>1, <3>2 DEF VersionTyped
    <3> QED
      BY <3>1, <3>2, <3>3 DEF VersionTyped
  <2>5. \A j \in Clusters : vmap[j] # 0 => calling'[vmap[j]] = calling[vmap[j]]
    BY <1>2 DEF VersionTyped, CallStates
  <2>6. /\ before' \in [VersionCalls -> SUBSET VersionCalls]
        /\ calling' \in [VersionCalls -> CallStates]
    BY DEF VersionTyped, CallStates, Returned
  <2>7. \A b \in VersionCalls :
          /\ calling'[b].at # "none" => calling'[b].op # "none"
          /\ calling'[b].at = "deleting" => calling'[b].op = "delete"
          /\ calling'[b].at # "done" => info[b].expected = 0
    BY <1>1 DEF VersionTyped
  <2> QED
    BY <2>3, <2>4, <2>5, <2>6, <2>7 DEF VersionTyped
<1>4. ASSUME NEW j \in Clusters, NEW b \in VersionCalls
      PROVE  StoredLast(b, j)'
  BY <1>1 DEF StoredLast, Origin, Writes
<1>5. ASSUME NEW j \in Clusters
      PROVE  DeletedLast(j)'
  <2>1. CASE Behind(VersionCalls, j)
    BY <1>1, <2>1 DEF DeletedLast, Behind, Writes
  <2>2. ASSUME NEW d \in VersionCalls, calling[d].op = "delete",
               calling[d].cluster = j, calling[d].at = "done",
               Behind({b \in VersionCalls : d \in before[b]}, j)
        PROVE  DeletedLast(j)'
    <3>1. calling'[d] = calling[d]
      BY <1>2, <2>2
    <3>2. Behind({b \in VersionCalls : d \in before[b]}, j)'
      BY <1>1, <2>2 DEF Behind, Writes
    <3> QED
      BY <2>2, <3>1, <3>2 DEF DeletedLast
  <2> QED
    BY <2>1, <2>2 DEF DeletedLast
<1> QED
  BY <1>3, <1>4, <1>5

\* Where there is no entry, and none goes, the calls made after the deletion
\* stay behind it as long as none of them returns or finds another's object.
LEMMA DeletedStays ==
  ASSUME VersionInv, NEW k \in Clusters, before' = before,
         vmap'[k] = 0 => vmap[k] = 0,
         \A b \in VersionCalls :
           /\ calling'[b].op = calling[b].op
           /\ calling'[b].cluster = calling[b].cluster
           /\ calling[b].at = "done" => calling'[b].at = "done",
         \A b \in VersionCalls :
           /\ vmap'[k] = 0 /\ calling[b].cluster = k /\ Writes(b)
           /\ calling[b].at # "done"
           /\ calling[b].at = "found" => calling[b].obj = b
           => /\ calling'[b].at # "done"
              /\ calling'[b].at = "found" => calling'[b].obj = b
  PROVE  DeletedLast(k)'
<1> SUFFICES ASSUME vmap'[k] = 0
             PROVE  DeletedLast(k)'
  BY DEF DeletedLast
<1>1. vmap[k] = 0 /\ DeletedLast(k)
  BY DEF VersionInv
<1>2. ASSUME NEW S, S \subseteq VersionCalls, Behind(S, k)
      PROVE  \A b \in S : calling'[b].cluster = k /\ Writes(b)' =>
               /\ calling'[b].at # "done"
               /\ calling'[b].at = "found" => calling'[b].obj = b
  BY <1>1, <1>2 DEF Behind, Writes
<1>3. CASE Behind(VersionCalls, k)
  <2>1. Behind(VersionCalls, k)'
    BY <1>2, <1>3 DEF Behind
  <2> QED
    BY <2>1 DEF DeletedLast
<1>4. ASSUME NEW d \in VersionCalls, calling[d].op = "delete",
             calling[d].cluster = k, calling[d].at = "done",
             Behind({b \in VersionCalls : d \in before[b]}, k)
      PROVE  DeletedLast(k)'
  <2>1. \A b \in {x \in VersionCalls : d \in before[x]} :
          calling'[b].cluster = k /\ Writes(b)' =>
            /\ calling'[b].at # "done"
            /\ calling'[b].at = "found" => calling'[b].obj = b
    BY <1>2, <1>4
  <2>2. Behind({b \in VersionCalls : d \in before[b]}, k)'
    BY <2>1 DEF Behind
  <2> QED
    BY <1>4, <2>2 DEF DeletedLast
<1> QED
  BY <1>1, <1>3, <1>4 DEF DeletedLast

\* A lookup finds the entry there is, or none.
LEMMA VersionLookUp ==
  ASSUME VersionInv, NEW c \in VersionCalls, LookUp(c)
  PROVE  VersionInv'
<1> USE DEF VersionInv, LookUp
<1>0. CASE UNCHANGED calling
  BY <1>0 DEF VersionTyped, CallStates, Returned, StoredLast, Origin, DeletedLast,
              Behind, Writes
<1>1. CASE calling' = [calling EXCEPT ![c].at = "found",
                     ![c].obj = IF vmap[calling[c].cluster] # 0
                                THEN vmap[calling[c].cluster] ELSE c]
  <2> DEFINE o == IF vmap[calling[c].cluster] # 0
                  THEN vmap[calling[c].cluster] ELSE c
  <2>1. /\ \A b \in VersionCalls \ {c} : calling'[b] = calling[b]
        /\ calling'[c].at = "found" /\ calling'[c].obj = o
        /\ calling'[c].cluster = calling[c].cluster
        /\ calling'[c].op = calling[c].op
        /\ o \in VersionCalls /\ o # 0
        /\ calling[c].at = "look" /\ calling[c].op # "delete"
        /\ o # c => calling[o].cluster = calling[c].cluster
                    /\ calling[o].at = "done"
    BY <1>1, CallsPositive DEF VersionTyped, CallStates
  <2> HIDE DEF o
  <2>2. calling[c].op \in {"set", "add", "event"}
    BY <2>1 DEF VersionTyped, CallStates
  <2>3. VersionTyped'
    <3>1. Returned' = Returned
      BY <2>1 DEF Returned
    <3>2. calling' \in [VersionCalls -> CallStates]
      <4>1. calling[c] \in CallStates
        BY DEF VersionTyped, CallStates
      <4>2. [calling[c] EXCEPT !.at = "found", !.obj = o] \in CallStates
        BY <2>1, <4>1 DEF CallStates
      <4>3. calling'[c] = [calling[c] EXCEPT !.at = "found", !.obj = o]
        BY <1>1 DEF o, VersionTyped
      <4>4. \A b \in VersionCalls : calling'[b] \in CallStates
        BY <2>1, <4>2, <4>3 DEF VersionTyped
      <4>5. DOMAIN calling = VersionCalls
        BY DEF VersionTyped
      <4>6. calling' = [b \in VersionCalls |-> calling'[b]]
        BY <1>1, <4>5
      <4> QED
        BY <4>4, <4>6
    <3>3. ASSUME NEW b \in VersionCalls, calling'[b].at = "found"
          PROVE  /\ calling'[b].obj # 0
                 /\ calling'[calling'[b].obj].cluster = calling'[b].cluster
                 /\ calling'[b].obj # b => calling'[calling'[b].obj].at = "done"
                 /\ calling'[b].op \in {"set", "add", "event"}
      <4>1. CASE b = c
        BY <2>1, <2>2, <4>1
      <4>2. CASE b # c
        <5>1. calling'[b] = calling[b]
          BY <2>1, <4>2
        <5>2. /\ calling[b].obj \in VersionCalls
              /\ calling[calling[b].obj].cluster = calling[b].cluster
              /\ calling[b].obj # b => calling[calling[b].obj].at = "done"
              /\ calling[b].op \in {"set", "add", "event"}
          BY <3>3, <5>1 DEF VersionTyped, CallStates
        <5>3. calling[b].obj # c
          BY <2>1, <4>2, <5>2
        <5>4. calling'[calling[b].obj] = calling[calling[b].obj]
          BY <2>1, <5>2, <5>3
        <5> QED
          BY <5>1, <5>2, <5>4, CallsPositive
      <4> QED
        BY <4>1, <4>2
    <3>4. \A k \in Clusters : vmap[k] # 0 => vmap[k] # c
      BY <2>1 DEF VersionTyped, CallStates
    <3>5. ASSUME NEW k \in Clusters, vmap[k] # 0
          PROVE  calling'[vmap[k]] = calling[vmap[k]]
      BY <2>1, <3>4, <3>5 DEF VersionTyped, CallStates
    <3>6. \A b \in VersionCalls :
            /\ calling'[b].at # "none" => calling'[b].op # "none"
            /\ calling'[b].at = "deleting" => calling'[b].op = "delete"
            /\ calling'[b].at # "done" => info[b].expected = 0
      BY <2>1 DEF VersionTyped, CallStates
    <3> QED
      BY <3>1, <3>2, <3>3, <3>5, <3>6 DEF VersionTyped
  <2>4. ASSUME NEW k \in Clusters, NEW b \in VersionCalls
        PROVE  StoredLast(b, k)'
    BY <2>1 DEF StoredLast, Origin, Writes, o
  <2>5. ASSUME NEW k \in Clusters
        PROVE  DeletedLast(k)'
    <3>1. \A b \in VersionCalls :
            /\ calling'[b].op = calling[b].op
            /\ calling'[b].cluster = calling[b].cluster
            /\ calling'[b].at = "done" <=> calling[b].at = "done"
            /\ b # c => calling'[b] = calling[b]
      BY <2>1
    <3>2. vmap[k] = 0 /\ calling[c].cluster = k => calling'[c].obj = c
      BY <2>1 DEF o
    <3> QED
      BY <3>1, <3>2, DeletedStays
  <2> QED
    BY <2>3, <2>4, <2>5
<1> QED
  BY <1>0, <1>1

\* A call that stores puts its own object into the map, or changes one that has
\* been there; the entry's version is that of a call no other was made after.
LEMMA VersionStore ==
  ASSUME VersionInv, NEW c \in VersionCalls, Store(c)
  PROVE  VersionInv'
<1> USE DEF VersionInv, Store
<1> DEFINE o == calling[c].obj
           kc == calling[c].cluster
<1>1. /\ \A b \in VersionCalls \ {c} : calling'[b] = calling[b]
      /\ calling'[c] = [calling[c] EXCEPT !.at = "done"]
      /\ calling'[c].at = "done"
      /\ calling[c].at = "found" /\ c # 0
      /\ calling[c].op \in {"set", "add", "event"}
      /\ o \in VersionCalls /\ kc \in Clusters /\ calling[o].cluster = kc
      /\ o # c => calling[o].at = "done"
      /\ vmap' = IF o = c THEN [vmap EXCEPT ![kc] = c] ELSE vmap
      /\ before' = before
      /\ info[c].expected = 0
  BY CallsPositive DEF VersionTyped, CallStates
<1>2. /\ Writes(c) => info'[o].expected = c
      /\ ~Writes(c) => info' = info /\ calling[c].op = "add"
      /\ \A b \in VersionCalls \ {o} : info'[b] = info[b]
  BY <1>1 DEF VersionTyped, Push, Writes
<1>3. calling[c].cluster = kc /\ calling[c].obj = o
  OBVIOUS
<1> HIDE DEF o, kc
<1>4. Returned' = Returned \cup {c} /\ c \notin Returned
  BY <1>1 DEF Returned
<1>5. \A b \in VersionCalls : /\ calling'[b].cluster = calling[b].cluster
                              /\ calling'[b].obj = calling[b].obj
                              /\ calling'[b].op = calling[b].op
                              /\ calling'[b].at \in {calling[b].at, "done"}
                              /\ calling[b].at = "done" => calling'[b].at = "done"
  BY <1>1 DEF VersionTyped, CallStates
<1>6. VersionTyped'
  <2>1. calling' \in [VersionCalls -> CallStates]
    <3>1. [calling[c] EXCEPT !.at = "done"] \in CallStates
      BY DEF VersionTyped, CallStates
    <3>2. \A b \in VersionCalls : calling'[b] \in CallStates
      BY <1>1, <3>1 DEF VersionTyped
    <3>3. calling' = [b \in VersionCalls |-> calling'[b]]
      BY DEF VersionTyped
    <3> QED
      BY <3>2, <3>3
  <2>2. info' \in [VersionCalls -> [expected : {0} \cup VersionCalls,
                                    backup : {0} \cup VersionCalls]]
    BY DEF VersionTyped, CallStates, Push
  <2>3. vmap' \in [Clusters -> {0} \cup VersionCalls]
    <3>1. vmap \in [Clusters -> {0} \cup VersionCalls]
      BY DEF VersionTyped
    <3> QED
      BY <1>1, <3>1
  <2>4. ASSUME NEW k \in Clusters, vmap'[k] # 0
        PROVE  /\ calling'[vmap'[k]].cluster = k
               /\ calling'[vmap'[k]].at = "done"
               /\ calling'[vmap'[k]].obj = vmap'[k]
               /\ info'[vmap'[k]].expected = 0 => calling'[vmap'[k]].op = "add"
    <3>1. CASE o = c /\ k = kc
      BY <1>1, <1>2, <1>3, <1>5, <3>1 DEF VersionTyped
    <3>2. CASE ~(o = c /\ k = kc)
      <4>1. vmap'[k] = vmap[k] /\ vmap[k] \in VersionCalls
        BY <1>1, <2>4, <3>2 DEF VersionTyped
      <4>2. info'[vmap[k]].expected = 0 => info[vmap[k]].expected = 0
        BY <1>1, <1>2, <4>1
      <4> QED
        BY <1>5, <2>4, <4>1, <4>2 DEF VersionTyped
    <3> QED
      BY <3>1, <3>2
  <2>5. ASSUME NEW b \in VersionCalls
        PROVE  /\ before[b] \subseteq Returned'
               /\ calling'[b].at # "none" => calling'[b].op # "none"
               /\ calling'[b].at = "deleting" => calling'[b].op = "delete"
               /\ calling'[b].at # "done" => info'[b].expected = 0
    <3>1. calling'[b].at # "done" => b # o /\ b # c
      BY <1>1, <1>5
    <3> QED
      BY <1>2, <1>4, <1>5, <3>1 DEF VersionTyped
  <2>6. ASSUME NEW b \in VersionCalls, calling'[b].at = "found"
        PROVE  /\ calling'[b].obj # 0
               /\ calling'[calling'[b].obj].cluster = calling'[b].cluster
               /\ calling'[b].obj # b => calling'[calling'[b].obj].at = "done"
               /\ calling'[b].op \in {"set", "add", "event"}
    <3>1. calling[b].at = "found" /\ calling[b].obj \in VersionCalls
      BY <1>5, <2>6 DEF VersionTyped, CallStates
    <3> QED
      BY <1>5, <3>1 DEF VersionTyped
  <2> QED
    BY <1>1, <2>1, <2>2, <2>3, <2>4, <2>5, <2>6 DEF VersionTyped
<1>7. \A b \in VersionCalls : c \notin before[b]
  BY <1>4 DEF VersionTyped, CallStates
<1>8. ASSUME NEW k \in Clusters, NEW b \in VersionCalls
      PROVE  StoredLast(b, k)'
  <2> SUFFICES ASSUME vmap'[k] # 0, Origin(k)' \in before[b],
                      calling[b].cluster = k, Writes(b)
               PROVE  /\ calling'[b].at # "done"
                      /\ calling'[b].at = "found" => calling'[b].obj \in {b, vmap'[k]}
    BY <1>1, <1>5 DEF StoredLast, Writes
  <2>1. Origin(k)' # c
    BY <1>7
  <2>2. vmap'[k] # c
    <3>1. info'[c].expected \in {0, c}
      BY <1>1, <1>2 DEF VersionTyped
    <3>2. vmap'[k] = c => Origin(k)' = c
      BY <3>1 DEF Origin
    <3> QED
      BY <2>1, <3>2
  <2>3. vmap'[k] = vmap[k] /\ vmap[k] \in VersionCalls /\ (o = c => k # kc)
    BY <1>1, <2>2 DEF VersionTyped
  <2>4. info'[vmap[k]] = info[vmap[k]]
    <3>1. CASE vmap[k] = o /\ Writes(c)
      <4>1. Origin(k)' = c
        BY <1>1, <1>2, <2>3, <3>1 DEF Origin
      <4> QED
        BY <2>1, <4>1
    <3>2. CASE ~(vmap[k] = o /\ Writes(c))
      BY <1>2, <2>3, <3>2
    <3> QED
      BY <3>1, <3>2
  <2>5. Origin(k) \in before[b]
    BY <2>3, <2>4 DEF Origin
  <2>6. /\ calling[b].at # "done"
        /\ calling[b].at = "found" => calling[b].obj \in {b, vmap[k]}
    BY <2>3, <2>5 DEF StoredLast
  <2>7. b # c
    <3>1. SUFFICES ASSUME b = c PROVE FALSE
      OBVIOUS
    <3>2. k = kc /\ o = vmap[k]
      BY <1>1, <1>3, <2>3, <2>6, <3>1
    <3>3. info'[o].expected = c
      BY <1>2, <3>1
    <3> QED
      BY <1>1, <2>1, <2>3, <3>2, <3>3 DEF Origin
  <2> QED
    BY <1>1, <2>3, <2>6, <2>7
<1>9. ASSUME NEW k \in Clusters
      PROVE  DeletedLast(k)'
  <2>1. vmap'[k] = 0 => vmap[k] = 0 /\ (o = c => k # kc)
    BY <1>1 DEF VersionTyped
  <2>2. ASSUME NEW b \in VersionCalls, vmap'[k] = 0, calling[b].cluster = k,
               calling[b].at = "found" => calling[b].obj = b
        PROVE  b # c
    BY <1>1, <1>3, <2>1, <2>2
  <2> QED
    BY <1>1, <1>5, <2>1, <2>2, DeletedStays
<1> QED
  BY <1>6, <1>8, <1>9

\* A deletion begins; nothing else has changed when it does.
LEMMA VersionBeginDelete ==
  ASSUME VersionInv, NEW c \in VersionCalls, BeginDelete(c)
  PROVE  VersionInv'
<1> USE DEF VersionInv, BeginDelete
<1>0. CASE UNCHANGED calling
  BY <1>0 DEF VersionTyped, CallStates, Returned, StoredLast, Origin, DeletedLast,
              Behind, Writes
<1>1. CASE calling' = [calling EXCEPT ![c].at = "deleting"]
  <2>1. /\ \A b \in VersionCalls \ {c} : calling'[b] = calling[b]
        /\ calling'[c] = [calling[c] EXCEPT !.at = "deleting"]
        /\ calling'[c].at = "deleting" /\ calling[c].at = "look"
        /\ calling[c].op = "delete"
        /\ calling' \in [VersionCalls -> CallStates]
    BY <1>1 DEF VersionTyped, CallStates
  <2>2. Returned' = Returned
    BY <2>1 DEF Returned
  <2>3. \A b \in VersionCalls : /\ calling'[b].cluster = calling[b].cluster
                                /\ calling'[b].op = calling[b].op
                                /\ calling'[b].obj = calling[b].obj
                                /\ calling'[b].at = "done" <=> calling[b].at = "done"
                                /\ calling'[b].at = "found" <=> calling[b].at = "found"
    BY <2>1 DEF VersionTyped, CallStates
  <2>4. VersionTyped'
    <3>1. UNCHANGED <<vmap, info, before>>
      OBVIOUS
    <3>2. \A b \in VersionCalls :
            /\ calling'[b].at # "none" => calling'[b].op # "none"
            /\ calling'[b].at = "deleting" => calling'[b].op = "delete"
            /\ calling'[b].at # "done" => info[b].expected = 0
      BY <2>1, <2>3 DEF VersionTyped
    <3>3. ASSUME NEW b \in VersionCalls, calling'[b].at = "found"
          PROVE  /\ calling'[b].obj # 0
                 /\ calling'[calling'[b].obj].cluster = calling'[b].cluster
                 /\ calling'[b].obj # b => calling'[calling'[b].obj].at = "done"
                 /\ calling'[b].op \in {"set", "add", "event"}
      <4>1. calling[b].at = "found" /\ calling[b].obj \in VersionCalls
        BY <2>3, <3>3 DEF VersionTyped, CallStates
      <4> QED
        BY <2>3, <4>1 DEF VersionTyped
    <3>4. ASSUME NEW k \in Clusters, vmap[k] # 0
          PROVE  /\ calling'[vmap[k]].cluster = k
                 /\ calling'[vmap[k]].at = "done"
                 /\ calling'[vmap[k]].obj = vmap[k]
                 /\ info[vmap[k]].expected = 0 => calling'[vmap[k]].op = "add"
      <4>1. vmap[k] \in VersionCalls
        BY <3>4 DEF VersionTyped
      <4> QED
        BY <2>3, <3>4, <4>1 DEF VersionTyped
    <3> QED
      BY <2>1, <2>2, <3>1, <3>2, <3>3, <3>4 DEF VersionTyped
  <2>5. ASSUME NEW k \in Clusters, NEW b \in VersionCalls
        PROVE  StoredLast(b, k)'
    BY <2>3 DEF StoredLast, Origin, Writes
  <2>6. ASSUME NEW k \in Clusters
        PROVE  DeletedLast(k)'
    BY <2>3, DeletedStays
  <2> QED
    BY <2>4, <2>5, <2>6
<1> QED
  BY <1>0, <1>1

\* It ends: no call was made after it yet, and there is no entry.
LEMMA VersionEndDelete ==
  ASSUME VersionInv, NEW c \in VersionCalls, EndDelete(c)
  PROVE  VersionInv'
<1> USE DEF VersionInv, EndDelete
<1> DEFINE kc == calling[c].cluster
<1>0. calling[c] \in CallStates /\ [calling[c] EXCEPT !.at = "done"] \in CallStates
  BY DEF VersionTyped, CallStates
<1>1. /\ \A b \in VersionCalls \ {c} : calling'[b] = calling[b]
      /\ calling'[c] = [calling[c] EXCEPT !.at = "done"]
      /\ calling'[c].at = "done" /\ calling[c].at = "deleting"
      /\ calling[c].op = "delete" /\ kc \in Clusters
      /\ calling' \in [VersionCalls -> CallStates]
      /\ vmap' = [vmap EXCEPT ![kc] = 0]
      /\ UNCHANGED <<info, before>>
  BY <1>0 DEF VersionTyped, CallStates
<1>2. calling[c].cluster = kc
  OBVIOUS
<1> HIDE DEF kc
<1>3. Returned' = Returned \cup {c} /\ c \notin Returned
  BY <1>1 DEF Returned
<1>4. \A b \in VersionCalls : /\ calling'[b].cluster = calling[b].cluster
                              /\ calling'[b].op = calling[b].op
                              /\ calling'[b].obj = calling[b].obj
                              /\ calling'[b].at \in {calling[b].at, "done"}
                              /\ calling[b].at = "done" => calling'[b].at = "done"
                              /\ b # c => calling'[b].at = calling[b].at
  BY <1>1 DEF VersionTyped, CallStates
<1>5. /\ vmap' \in [Clusters -> {0} \cup VersionCalls]
      /\ \A k \in Clusters : vmap'[k] \in {0, vmap[k]}
      /\ vmap'[kc] = 0
  <2>1. vmap \in [Clusters -> {0} \cup VersionCalls]
    BY DEF VersionTyped
  <2> QED
    BY <1>1, <2>1
<1>6. VersionTyped'
  <2>1. ASSUME NEW b \in VersionCalls
        PROVE  /\ before[b] \subseteq Returned'
               /\ calling'[b].at # "none" => calling'[b].op # "none"
               /\ calling'[b].at = "deleting" => calling'[b].op = "delete"
               /\ calling'[b].at # "done" => info[b].expected = 0
    BY <1>1, <1>3, <1>4 DEF VersionTyped
  <2>2. ASSUME NEW b \in VersionCalls, calling'[b].at = "found"
        PROVE  /\ calling'[b].obj # 0
               /\ calling'[calling'[b].obj].cluster = calling'[b].cluster
               /\ calling'[b].obj # b => calling'[calling'[b].obj].at = "done"
               /\ calling'[b].op \in {"set", "add", "event"}
    <3>1. calling[b].at = "found" /\ calling[b].obj \in VersionCalls
      BY <1>4, <2>2 DEF VersionTyped, CallStates
    <3> QED
      BY <1>4, <3>1 DEF VersionTyped
  <2>3. ASSUME NEW k \in Clusters, vmap'[k] # 0
        PROVE  /\ calling'[vmap'[k]].cluster = k
               /\ calling'[vmap'[k]].at = "done"
               /\ calling'[vmap'[k]].obj = vmap'[k]
               /\ info[vmap'[k]].expected = 0 => calling'[vmap'[k]].op = "add"
    <3>1. vmap'[k] = vmap[k] /\ vmap[k] \in VersionCalls
      BY <1>5, <2>3 DEF VersionTyped
    <3> QED
      BY <1>4, <2>3, <3>1 DEF VersionTyped
  <2> QED
    BY <1>1, <1>5, <2>1, <2>2, <2>3 DEF VersionTyped
<1>7. ASSUME NEW k \in Clusters, NEW b \in VersionCalls
      PROVE  StoredLast(b, k)'
  <2> SUFFICES ASSUME vmap'[k] # 0
               PROVE  StoredLast(b, k)'
    BY DEF StoredLast
  <2>1. vmap'[k] = vmap[k] /\ k # kc
    BY <1>5
  <2>2. calling[b].cluster = k => b # c
    BY <1>2, <2>1
  <2> QED
    BY <1>1, <1>4, <2>1, <2>2 DEF StoredLast, Origin, Writes
<1>8. ASSUME NEW k \in Clusters
      PROVE  DeletedLast(k)'
  <2>1. CASE k = kc
    <3>1. \A b \in VersionCalls : c \notin before'[b]
      BY <1>1, <1>3 DEF VersionTyped
    <3>2. Behind({b \in VersionCalls : c \in before[b]}, k)'
      BY <3>1 DEF Behind
    <3>3. /\ calling'[c].op = "delete" /\ calling'[c].cluster = k
          /\ calling'[c].at = "done"
      BY <1>1, <1>2, <1>4, <2>1
    <3> QED
      BY <3>2, <3>3 DEF DeletedLast
  <2>2. CASE k # kc
    <3>1. vmap'[k] = vmap[k]
      BY <1>1, <2>2 DEF VersionTyped
    <3>2. \A b \in VersionCalls : calling[b].cluster = k => b # c
      BY <1>2, <2>2
    <3> QED
      BY <1>1, <1>4, <3>1, <3>2, DeletedStays
  <2> QED
    BY <2>1, <2>2
<1> QED
  BY <1>6, <1>7, <1>8

\* What GetExpected returns is never older than a SetExpected or an event that
\* has been handled, for any number of clusters and of calls, interleaved at
\* every unlocking.
THEOREM ExpectedIsRegular == VersionSpec => []ExpectedRegular
<1>1. CASE Clusters = {}
  <2>1. ExpectedRegular
    BY <1>1 DEF ExpectedRegular
  <2> QED
    BY <2>1, PTL
<1>2. CASE Clusters # {}
  <2>1. VersionInit => VersionInv
    BY <1>2, VersionStart
  <2>2. VersionInv /\ [VersionNext]_versionVars => VersionInv'
    <3>1. CASE UNCHANGED versionVars
      BY <3>1 DEF versionVars, VersionInv, VersionTyped, Returned, StoredLast, Origin,
                  DeletedLast, Behind, Writes
    <3> QED
      BY <3>1, VersionBegin, VersionLookUp, VersionStore, VersionBeginDelete,
         VersionEndDelete DEF VersionNext
  <2>3. VersionInv => ExpectedRegular
    <3> SUFFICES ASSUME VersionInv, NEW k \in Clusters
                 PROVE  LET e == GetExpected(k)
                            writers == {c \in VersionCalls :
                                          calling[c].cluster = k /\ Writes(c)}
                            Latest(b) == \A c \in writers : ~Supersedes(c, b)
                        IN IF e # 0 THEN Latest(e)
                           ELSE (writers \cap Returned) # {} =>
                                  \E d \in Returned :
                                    calling[d].cluster = k /\ Empties(d) /\ Latest(d)
      BY DEF ExpectedRegular
    <3> DEFINE writers == {c \in VersionCalls : calling[c].cluster = k /\ Writes(c)}
    <3>1. CASE vmap[k] # 0
      <4>1. \A c \in writers : ~Supersedes(c, Origin(k))
        BY <3>1 DEF VersionInv, StoredLast, Supersedes, Returned
      <4>2. CASE GetExpected(k) # 0
        BY <3>1, <4>1, <4>2 DEF GetExpected, Origin
      <4>3. CASE GetExpected(k) = 0
        <5>1. Origin(k) = vmap[k] /\ info[vmap[k]].expected = 0
          BY <3>1, <4>3 DEF GetExpected, Origin
        <5>2. /\ vmap[k] \in Returned /\ calling[vmap[k]].cluster = k
              /\ Empties(vmap[k])
          BY <3>1, <5>1 DEF VersionInv, VersionTyped, Returned, Empties
        <5> QED
          BY <4>1, <4>3, <5>1, <5>2
      <4> QED
        BY <4>2, <4>3
    <3>2. CASE vmap[k] = 0
      <4>1. GetExpected(k) = 0
        BY <3>2 DEF GetExpected
      <4>2. CASE Behind(VersionCalls, k)
        <5>1. writers \cap Returned = {}
          BY <4>2 DEF Behind, Returned
        <5> QED
          BY <4>1, <5>1
      <4>3. ASSUME NEW d \in VersionCalls, calling[d].op = "delete",
                   calling[d].cluster = k, calling[d].at = "done",
                   Behind({b \in VersionCalls : d \in before[b]}, k)
            PROVE  /\ d \in Returned /\ Empties(d)
                   /\ \A c \in writers : ~Supersedes(c, d)
        BY <4>3 DEF Behind, Returned, Empties, Supersedes
      <4> QED
        BY <3>2, <4>1, <4>2, <4>3 DEF VersionInv, DeletedLast
    <3> QED
      BY <3>1, <3>2
  <2> QED
    BY <2>1, <2>2, <2>3, PTL DEF VersionSpec
<1> QED
  BY <1>1, <1>2

---------------------------------------------------------------------------
(* The synchronisation with zookeeper. *)

RootStates ==
  [at : {"list", "walk", "select", "send", "rearm", "lost", "gone"},
   todo : SUBSET Kids, data : {"off", "armed", "changed"},
   child : {"off", "armed", "children"},
   event : {"none", "changed", "children", "error"}]
KidStates ==
  [at : {"none", "select", "changed", "deleted", "rearm", "gone"},
   data : {"off", "armed", "changed", "deleted"},
   child : {"off", "armed", "deleted"}]

WatchTyped ==
  /\ val \in [Nodes -> Nat] /\ changes \in Nat /\ errors \in Nat
  /\ changes + errors <= MaxEvents
  /\ sync \in {"run", "failed", "stopped", "crashed"}
  /\ root \in RootStates /\ walks \in Nat
  /\ watcher \in [Kids -> [Walks -> KidStates]]

\* The root's goroutine has announced, or will find, that the children changed.
ListsAgain == \/ root.at = "list" \/ root.child = "children"
              \/ root.at = "send" /\ root.event = "children"

\* The root is listed once, and once more for a change of the children.
OneIf(b) == IF b THEN 1 ELSE 0
WalksBound ==
  walks + OneIf(root.at = "list") + OneIf(root.child = "children")
        + OneIf(root.at = "send" /\ root.event = "children") <= changes + 1

\* The goroutine that a walk started for child k has its watch still armed.
ArmedFor(k) ==
  \E i \in Walks : /\ watcher[k][i].at \in {"select", "changed", "rearm"}
                   /\ watcher[k][i].child = "armed"

WatchInv ==
  /\ WatchTyped
  /\ \A k \in Kids, i \in Walks :
       watcher[k][i].child = "armed" =>
         watcher[k][i].data # "deleted" /\ watcher[k][i].at # "deleted"
  /\ errors = 0 =>
       /\ sync = "run" /\ root.at \notin {"lost", "gone"} /\ WalksBound
       /\ root.at = "walk" => walks # 0
       /\ ListsAgain \/ root.child = "armed"
       /\ \A k \in Kids : Exists(k) =>
            \/ ListsAgain
            \/ root.at = "walk" /\ k \in root.todo
            \/ ArmedFor(k)

LEMMA WatchStart ==
  ASSUME ZkSyncInit
  PROVE  WatchInv
<1> USE ZkSyncAssumption DEF ZkSyncInit
<1>1. PICK there \in SUBSET Kids :
        val = [n \in Nodes |-> IF n \in there \cup {Root} THEN 1 ELSE 0]
  OBVIOUS
<1>2. NoWatcher \in KidStates
  BY DEF NoWatcher, KidStates
<1>3. /\ root \in RootStates /\ watcher \in [Kids -> [Walks -> KidStates]]
      /\ root.at = "list" /\ root.child = "off"
  BY <1>2 DEF RootStates
<1>4. WatchTyped
  BY <1>1, <1>3 DEF WatchTyped
<1>5. \A k \in Kids, i \in Walks : watcher[k][i].child # "armed"
  BY DEF NoWatcher
<1>6. WalksBound
  BY <1>3 DEF WalksBound, OneIf
<1> QED
  BY <1>3, <1>4, <1>5, <1>6 DEF WatchInv, ListsAgain

\* What leaves the watches, zookeeper and the course of things alone.
LEMMA WatchQuiet ==
  ASSUME WatchInv, UNCHANGED <<zkVars, watching>>,
         \/ UNCHANGED <<errors, sync>>
         \/ Fail /\ sync' \in {"run", "failed", "stopped", "crashed"}
         \/ UNCHANGED errors /\ sync # "run" /\ sync' \in {"stopped", "crashed"}
  PROVE  WatchInv'
<1> USE DEF zkVars, watching
<1>1. WatchTyped'
  BY ZkSyncAssumption DEF WatchInv, WatchTyped, Fail, MayHappen
<1>2. errors' = 0 => errors = 0 /\ sync' = sync
  BY DEF WatchInv, WatchTyped, Fail
<1> QED
  BY <1>1, <1>2 DEF WatchInv, WalksBound, ListsAgain, ArmedFor, Exists

\* A call that fails is counted.
LEMMA CallFails ==
  ASSUME WatchInv, Fail
  PROVE  errors' \in Nat /\ errors' # 0 /\ changes + errors' <= MaxEvents
BY ZkSyncAssumption DEF WatchInv, WatchTyped, Fail, MayHappen

\* What a change of child k does to its watchers.
LEMMA KidFired ==
  ASSUME watcher \in [Kids -> [Walks -> KidStates]], NEW n \in Kids,
         NEW data \in {"changed", "deleted"}, NEW child \in {"armed", "deleted"},
         FireKid(n, data, child)
  PROVE  /\ watcher' \in [Kids -> [Walks -> KidStates]]
         /\ \A k \in Kids \ {n} : watcher'[k] = watcher[k]
         /\ \A k \in Kids, i \in Walks : watcher'[k][i].at = watcher[k][i].at
         /\ \A i \in Walks : /\ watcher'[n][i].data = Fired(watcher[n][i].data, data)
                             /\ watcher'[n][i].child = Fired(watcher[n][i].child, child)
<1> DEFINE new(i) == [watcher[n][i] EXCEPT
                        !.data = Fired(watcher[n][i].data, data),
                        !.child = Fired(watcher[n][i].child, child)]
           news == [i \in Walks |-> new(i)]
<1>1. ASSUME NEW i \in Walks
      PROVE  /\ new(i) \in KidStates /\ new(i).at = watcher[n][i].at
             /\ new(i).data = Fired(watcher[n][i].data, data)
             /\ new(i).child = Fired(watcher[n][i].child, child)
  <2>1. watcher[n][i] \in KidStates
    OBVIOUS
  <2> QED
    BY <2>1 DEF KidStates, Fired
<1>2. watcher' = [watcher EXCEPT ![n] = news]
  BY DEF FireKid
<1>3. news \in [Walks -> KidStates] /\ \A i \in Walks : news[i] = new(i)
  BY <1>1
<1> HIDE DEF news, new
<1> QED
  BY <1>1, <1>2, <1>3

\* A change of the root, and of a child's data, leaves the watches for
\* deletions armed.
LEMMA WatchSet ==
  ASSUME WatchInv, NEW n \in Nodes, ZkSet(n), UNCHANGED sync
  PROVE  WatchInv'
<1> USE DEF ZkSet, Change, WatchInv
<1>1. /\ UNCHANGED <<errors, sync, walks>> /\ changes' = changes + 1
      /\ val' = [val EXCEPT ![n] = changes + 2] /\ changes + errors < MaxEvents
  BY DEF MayHappen
<1>2. val' \in [Nodes -> Nat] /\ \A m \in Nodes : Exists(m)' <=> Exists(m)
  BY <1>1 DEF Exists, WatchTyped
<1>3. CASE n = Root
  <2>1. /\ root' = [root EXCEPT !.data = Fired(root.data, "changed")]
        /\ UNCHANGED watcher
    BY <1>3
  <2>2. /\ root' \in RootStates /\ root'.at = root.at
        /\ root'.child = root.child /\ root'.event = root.event
        /\ root'.todo = root.todo
    BY <2>1 DEF RootStates, Fired, WatchTyped
  <2>3. WatchTyped'
    BY <1>1, <1>2, <2>1, <2>2, ZkSyncAssumption DEF WatchTyped
  <2>4. ArmedFor(Root)' = ArmedFor(Root) /\ (ListsAgain' <=> ListsAgain)
        /\ \A k \in Kids : ArmedFor(k)' <=> ArmedFor(k)
    BY <2>1, <2>2 DEF ArmedFor, ListsAgain
  <2>5. WalksBound => WalksBound'
    BY <1>1, <2>2 DEF WalksBound, OneIf, WatchTyped
  <2> QED
    BY <1>1, <1>2, <2>1, <2>2, <2>3, <2>4, <2>5 DEF Nodes
<1>4. CASE n # Root
  <2>1. n \in Kids /\ UNCHANGED root
    BY <1>4 DEF Nodes
  <2>2. FireKid(n, "changed", "armed")
    BY <1>4
  <2>3. /\ watcher' \in [Kids -> [Walks -> KidStates]]
        /\ \A k \in Kids, i \in Walks :
             /\ watcher'[k][i].at = watcher[k][i].at
             /\ watcher'[k][i].child = watcher[k][i].child
             /\ watcher'[k][i].data \in {watcher[k][i].data, "changed"}
    <3> HIDE DEF ZkSet, Change, WatchInv
    <3>1. /\ watcher' \in [Kids -> [Walks -> KidStates]]
          /\ \A k \in Kids \ {n} : watcher'[k] = watcher[k]
          /\ \A k \in Kids, i \in Walks : watcher'[k][i].at = watcher[k][i].at
          /\ \A i \in Walks :
               /\ watcher'[n][i].data = Fired(watcher[n][i].data, "changed")
               /\ watcher'[n][i].child = Fired(watcher[n][i].child, "armed")
      BY <2>1, <2>2, KidFired DEF WatchInv, WatchTyped
    <3>2. \A i \in Walks : /\ watcher'[n][i].child = watcher[n][i].child
                           /\ watcher'[n][i].data \in {watcher[n][i].data, "changed"}
      BY <3>1 DEF Fired
    <3> QED
      BY <3>1, <3>2
  <2>5. WatchTyped'
    BY <1>1, <1>2, <2>1, <2>3, ZkSyncAssumption DEF WatchTyped
  <2>6. /\ ListsAgain' <=> ListsAgain
        /\ \A k \in Kids : ArmedFor(k)' <=> ArmedFor(k)
    BY <2>1, <2>3 DEF ArmedFor, ListsAgain
  <2>7. WalksBound => WalksBound'
    BY <1>1, <2>1 DEF WalksBound, OneIf, WatchTyped
  <2>8. \A k \in Kids, i \in Walks :
          watcher'[k][i].child = "armed" =>
            watcher'[k][i].data # "deleted" /\ watcher'[k][i].at # "deleted"
    BY <2>3
  <2> HIDE DEF ZkSet, Change
  <2> QED
    BY <1>1, <1>2, <2>1, <2>5, <2>6, <2>7, <2>8 DEF Nodes
<1> QED
  BY <1>3, <1>4

LEMMA WatchCreate ==
  ASSUME WatchInv, NEW k \in Kids, ZkCreate(k)
  PROVE  WatchInv'
<1>1. /\ UNCHANGED <<errors, sync, walks, watcher>> /\ changes' = changes + 1
      /\ val' = [val EXCEPT ![k] = changes + 2] /\ changes + errors < MaxEvents
      /\ root' = [root EXCEPT !.child = Fired(root.child, "children")]
  BY DEF ZkCreate, Change, MayHappen
<1>2. /\ root' \in RootStates /\ root'.at = root.at /\ root'.event = root.event
      /\ root'.todo = root.todo /\ root'.child = Fired(root.child, "children")
  BY <1>1 DEF WatchInv, WatchTyped, RootStates, Fired
<1>3. WatchTyped'
  BY <1>1, <1>2, ZkSyncAssumption DEF WatchInv, WatchTyped, Nodes
<1>4. errors = 0 => ListsAgain'
  BY <1>2 DEF WatchInv, ListsAgain, Fired
<1>5. WalksBound => WalksBound'
  BY <1>1, <1>2 DEF WalksBound, OneIf, WatchInv, WatchTyped, Fired
<1> QED
  BY <1>1, <1>2, <1>3, <1>4, <1>5 DEF WatchInv

LEMMA WatchDelete ==
  ASSUME WatchInv, NEW k \in Kids, ZkDelete(k)
  PROVE  WatchInv'
<1>1. /\ UNCHANGED <<errors, sync, walks>> /\ changes' = changes + 1
      /\ val' = [val EXCEPT ![k] = 0] /\ changes + errors < MaxEvents
      /\ root' = [root EXCEPT !.child = Fired(root.child, "children")]
      /\ FireKid(k, "deleted", "deleted")
  BY DEF ZkDelete, Change, MayHappen
<1>2. /\ root' \in RootStates /\ root'.at = root.at /\ root'.event = root.event
      /\ root'.todo = root.todo /\ root'.child = Fired(root.child, "children")
  BY <1>1 DEF WatchInv, WatchTyped, RootStates, Fired
<1>3. /\ watcher' \in [Kids -> [Walks -> KidStates]]
      /\ \A l \in Kids \ {k} : watcher'[l] = watcher[l]
      /\ \A i \in Walks : watcher'[k][i].child = Fired(watcher[k][i].child, "deleted")
  BY <1>1, KidFired DEF WatchInv, WatchTyped
<1>4. \A i \in Walks : watcher'[k][i].child # "armed"
  BY <1>3 DEF Fired
<1>5. WatchTyped'
  BY <1>1, <1>2, <1>3, ZkSyncAssumption DEF WatchInv, WatchTyped, Nodes
<1>6. \A l \in Kids, i \in Walks :
        watcher'[l][i].child = "armed" =>
          watcher'[l][i].data # "deleted" /\ watcher'[l][i].at # "deleted"
  BY <1>3, <1>4 DEF WatchInv
<1>7. errors = 0 => ListsAgain'
  BY <1>2 DEF WatchInv, ListsAgain, Fired
<1>8. WalksBound => WalksBound'
  BY <1>1, <1>2 DEF WalksBound, OneIf, WatchInv, WatchTyped, Fired
<1> QED
  BY <1>1, <1>2, <1>5, <1>6, <1>7, <1>8 DEF WatchInv

\* A send leaves the course of things alone as long as nothing has failed.
LEMMA SendRuns ==
  ASSUME WatchInv, NEW event, SendEvent(event)
  PROVE  /\ sync' \in {"run", "failed", "stopped", "crashed"}
         /\ sync = "run" => sync' = "run"
BY DEF SendEvent, WatchInv, WatchTyped

\* A step of the root's goroutine, whose watches of the children stay.
LEMMA RootStep ==
  ASSUME WatchInv, UNCHANGED <<zkVars, errors, walks, watcher>>,
         root' \in RootStates, sync' \in {"run", "failed", "stopped", "crashed"},
         errors = 0 =>
           /\ sync' = "run" /\ root'.at \notin {"list", "walk", "lost", "gone"}
           /\ root.at = "walk" => root.todo = {}
           /\ ListsAgain => ListsAgain'
           /\ ListsAgain' \/ root'.child = "armed"
           /\ WalksBound'
  PROVE  WatchInv'
<1>1. WatchTyped'
  BY DEF zkVars, WatchInv, WatchTyped
<1>2. \A k \in Kids : ArmedFor(k)' <=> ArmedFor(k)
  BY DEF ArmedFor
<1> QED
  BY <1>1, <1>2 DEF zkVars, WatchInv, Exists

LEMMA WatchRootList ==
  ASSUME WatchInv, RootList
  PROVE  WatchInv'
<1>1. PICK data \in {"armed", "off"} :
        /\ DataWatch(data)
        /\ root' = [root EXCEPT !.at = "walk", !.todo = {k \in Kids : Exists(k)},
                                !.data = data, !.child = "armed"]
  BY DEF RootList
<1>2. /\ UNCHANGED <<zkVars, sync, watcher>> /\ walks' = walks + 1 /\ root.at = "list"
      /\ root' \in RootStates /\ root'.at = "walk" /\ root'.child = "armed"
      /\ root'.todo = {k \in Kids : Exists(k)}
  BY <1>1 DEF RootList, Rest, WatchInv, WatchTyped, RootStates
<1>3. /\ errors' \in Nat /\ changes + errors' <= MaxEvents
      /\ errors' = 0 => errors = 0
  BY <1>1, CallFails DEF DataWatch, WatchInv, WatchTyped
<1>4. WatchTyped'
  BY <1>2, <1>3 DEF WatchInv, WatchTyped, zkVars
<1>5. WalksBound => WalksBound'
  BY <1>2 DEF WalksBound, OneIf, WatchInv, WatchTyped, zkVars
<1> QED
  BY <1>2, <1>3, <1>4, <1>5 DEF WatchInv, WatchTyped, zkVars, Exists

LEMMA WatchRootListFails ==
  ASSUME WatchInv, RootListFails
  PROVE  WatchInv'
<1>1. /\ UNCHANGED <<zkVars, sync, walks, watcher>>
      /\ root' = [root EXCEPT !.at = "lost", !.event = "error"]
      /\ \/ sync = "stopped" /\ UNCHANGED errors
         \/ Fail
  BY DEF RootListFails, Rest
<1>2. root' \in RootStates
  BY <1>1 DEF WatchInv, WatchTyped, RootStates
<1>3. errors' # 0
  BY <1>1 DEF WatchInv, WatchTyped, Fail
<1>4. WatchTyped'
  BY <1>1, <1>2, ZkSyncAssumption DEF WatchInv, WatchTyped, Fail, MayHappen, zkVars
<1> QED
  BY <1>1, <1>3, <1>4 DEF WatchInv

LEMMA WatchRootWalk ==
  ASSUME WatchInv, NEW k \in Kids, RootWalk(k)
  PROVE  WatchInv'
<1>1. /\ UNCHANGED <<zkVars, walks>> /\ root.at = "walk" /\ k \in root.todo
      /\ root' = [root EXCEPT !.todo = root.todo \ {k}]
  BY DEF RootWalk, Rest
<1>2. /\ root' \in RootStates /\ root'.at = "walk" /\ root'.child = root.child
      /\ root'.event = root.event /\ root'.todo = root.todo \ {k}
  BY <1>1 DEF WatchInv, WatchTyped, RootStates
<1>3. /\ ListsAgain' <=> ListsAgain
      /\ WalksBound => WalksBound'
  BY <1>1, <1>2 DEF ListsAgain, WalksBound, OneIf, zkVars
<1>4. ASSUME NEW data \in {"armed", "off"}, DataWatch(data), UNCHANGED sync,
             watcher' = [watcher EXCEPT ![k][walks] =
                          [at |-> "select", data |-> data, child |-> "armed"]]
      PROVE  WatchInv'
  <2> DEFINE new == [at |-> "select", data |-> data, child |-> "armed"]
  <2>1. /\ new \in KidStates /\ new.at = "select" /\ new.data # "deleted"
        /\ new.child = "armed"
        /\ watcher' = [watcher EXCEPT ![k][walks] = new]
    BY <1>4 DEF KidStates
  <2>2. /\ watcher' \in [Kids -> [Walks -> KidStates]]
        /\ \A l \in Kids, i \in Walks :
             watcher'[l][i] = IF l = k /\ i = walks THEN new ELSE watcher[l][i]
    <3> HIDE DEF new
    <3> QED
      BY <2>1 DEF WatchInv, WatchTyped
  <2>3. /\ errors' \in Nat /\ changes + errors' <= MaxEvents
        /\ errors' = 0 => errors = 0
    BY <1>4, CallFails DEF DataWatch, WatchInv, WatchTyped
  <2> HIDE DEF new
  <2>4. WatchTyped'
    BY <1>1, <1>2, <1>4, <2>2, <2>3 DEF WatchInv, WatchTyped, zkVars
  <2>5. \A l \in Kids, i \in Walks :
          watcher'[l][i].child = "armed" =>
            watcher'[l][i].data # "deleted" /\ watcher'[l][i].at # "deleted"
    BY <2>1, <2>2 DEF WatchInv
  <2>6. \A l \in Kids : ArmedFor(l) => ArmedFor(l)'
    BY <2>1, <2>2 DEF ArmedFor
  <2>7. errors = 0 => ArmedFor(k)'
    <3>1. errors = 0 => walks \in Walks
      BY <1>1, ZkSyncAssumption DEF Walks, WatchInv, WatchTyped, WalksBound, OneIf, zkVars
    <3> QED
      BY <2>1, <2>2, <3>1 DEF ArmedFor
  <2> QED
    BY <1>1, <1>2, <1>3, <1>4, <2>3, <2>4, <2>5, <2>6, <2>7 DEF WatchInv, zkVars, Exists
<1>5. ASSUME NoAnswer(k), SendEvent([type |-> "error", node |-> k]), UNCHANGED watcher
      PROVE  WatchInv'
  <2>1. /\ sync' \in {"run", "failed", "stopped", "crashed"}
        /\ sync = "run" => sync' = "run"
    BY <1>5, SendRuns
  <2>2. /\ errors' \in Nat /\ changes + errors' <= MaxEvents
        /\ errors' = 0 => errors = 0 /\ ~Answers(k)
    BY <1>5, CallFails DEF NoAnswer, WatchInv, WatchTyped
  <2>3. WatchTyped'
    BY <1>1, <1>2, <1>5, <2>1, <2>2 DEF WatchInv, WatchTyped, zkVars
  <2>4. \A l \in Kids : ArmedFor(l)' <=> ArmedFor(l)
    BY <1>5 DEF ArmedFor
  <2> QED
    BY <1>1, <1>2, <1>3, <1>5, <2>1, <2>2, <2>3, <2>4 DEF WatchInv, zkVars, Exists, Answers
<1> QED
  BY <1>4, <1>5 DEF RootWalk

LEMMA WatchRootLost ==
  ASSUME WatchInv, RootLost \/ RootRearmFails
  PROVE  WatchInv'
<1>1. /\ UNCHANGED <<zkVars, walks, watcher>> /\ root' = [root EXCEPT !.at = "gone"]
  BY DEF RootLost, RootRearmFails, Rest
<1>2. root' \in RootStates
  BY <1>1 DEF WatchInv, WatchTyped, RootStates
<1>3. /\ errors' # 0 /\ errors' \in Nat /\ changes + errors' <= MaxEvents
      /\ sync' \in {"run", "failed", "stopped", "crashed"}
  <2>1. CASE RootLost
    BY <2>1, SendRuns DEF RootLost, WatchInv, WatchTyped
  <2>2. CASE RootRearmFails
    BY <2>2, ZkSyncAssumption DEF RootRearmFails, WatchInv, WatchTyped, Fail, MayHappen
  <2> QED
    BY <2>1, <2>2
<1>4. WatchTyped'
  BY <1>1, <1>2, <1>3 DEF WatchInv, WatchTyped, zkVars
<1> QED
  BY <1>1, <1>3, <1>4 DEF WatchInv

LEMMA WatchRootSelect ==
  ASSUME WatchInv, RootSelect \/ RootRearm
  PROVE  WatchInv'
<1>1. /\ UNCHANGED <<zkVars, errors, sync, walks, watcher>>
      /\ \/ root.at = "walk" /\ root.todo = {} /\ root' = [root EXCEPT !.at = "select"]
         \/ root.at = "rearm" /\ root' = [root EXCEPT !.at = "select", !.data = "armed"]
  BY DEF RootSelect, RootRearm, Rest
<1>2. /\ root' \in RootStates /\ root'.at = "select" /\ root'.child = root.child
  BY <1>1 DEF WatchInv, WatchTyped, RootStates
<1>3. /\ ListsAgain' <=> ListsAgain
      /\ WalksBound => WalksBound'
  BY <1>1, <1>2 DEF ListsAgain, WalksBound, OneIf, zkVars
<1> QED
  BY <1>1, <1>2, <1>3, RootStep DEF WatchInv, WatchTyped

LEMMA WatchRootRecv ==
  ASSUME WatchInv, NEW watch \in {"data", "child"}, RootRecv(watch)
  PROVE  WatchInv'
<1>1. /\ UNCHANGED <<zkVars, errors, sync, walks, watcher>> /\ root.at = "select"
  BY DEF RootRecv, Rest
<1>2. CASE watch = "data"
  <2>1. root' = [root EXCEPT !.at = "send", !.event = "changed", !.data = "off"]
    BY <1>2 DEF RootRecv, WatchInv, WatchTyped, RootStates
  <2>2. /\ root' \in RootStates /\ root'.at = "send" /\ root'.event = "changed"
        /\ root'.child = root.child
    BY <2>1 DEF WatchInv, WatchTyped, RootStates
  <2>3. /\ ListsAgain' <=> ListsAgain
        /\ WalksBound => WalksBound'
    BY <1>1, <2>2 DEF ListsAgain, WalksBound, OneIf, zkVars
  <2> QED
    BY <1>1, <2>2, <2>3, RootStep DEF WatchInv, WatchTyped
<1>3. CASE watch = "child"
  <2>1. /\ root' = [root EXCEPT !.at = "send", !.event = "children", !.child = "off"]
        /\ root.child = "children"
    BY <1>3 DEF RootRecv, WatchInv, WatchTyped, RootStates
  <2>2. /\ root' \in RootStates /\ root'.at = "send" /\ root'.event = "children"
        /\ root'.child = "off"
    BY <2>1 DEF WatchInv, WatchTyped, RootStates
  <2>3. ListsAgain'
    BY <2>2 DEF ListsAgain
  <2>4. WalksBound => WalksBound'
    BY <1>1, <2>1, <2>2 DEF WalksBound, OneIf, zkVars, WatchInv, WatchTyped
  <2> QED
    BY <1>1, <2>2, <2>3, <2>4, RootStep DEF WatchInv, WatchTyped
<1> QED
  BY <1>2, <1>3

LEMMA WatchRootSend ==
  ASSUME WatchInv, RootSend
  PROVE  WatchInv'
<1>1. /\ UNCHANGED <<zkVars, errors, walks, watcher>> /\ root.at = "send"
      /\ root' = [root EXCEPT !.at = IF root.event = "children" THEN "list" ELSE "rearm",
                              !.event = "none"]
  BY DEF RootSend, Rest
<1>2. /\ sync' \in {"run", "failed", "stopped", "crashed"}
      /\ sync = "run" => sync' = "run"
  BY SendRuns DEF RootSend
<1>3. /\ root' \in RootStates /\ root'.child = root.child
      /\ root'.at = IF root.event = "children" THEN "list" ELSE "rearm"
  BY <1>1 DEF WatchInv, WatchTyped, RootStates
<1>4. /\ ListsAgain' <=> ListsAgain
      /\ WalksBound => WalksBound'
  BY <1>1, <1>3 DEF ListsAgain, WalksBound, OneIf, zkVars, WatchInv, WatchTyped
<1>5. WatchTyped'
  BY <1>1, <1>2, <1>3 DEF WatchInv, WatchTyped, zkVars
<1>6. \A k \in Kids : ArmedFor(k)' <=> ArmedFor(k)
  BY <1>1 DEF ArmedFor
<1> QED
  BY <1>1, <1>2, <1>3, <1>4, <1>5, <1>6 DEF WatchInv, zkVars, Exists

\* A step of the goroutine of child k: a watch that is armed stays armed.
LEMMA KidStep ==
  ASSUME WatchInv, NEW k \in Kids, NEW i \in Walks, NEW new \in KidStates,
         UNCHANGED <<zkVars, errors, root, walks>>,
         sync' \in {"run", "failed", "stopped", "crashed"},
         errors = 0 => sync' = "run",
         watcher' = [watcher EXCEPT ![k][i] = new],
         new.child = "armed" =>
           watcher[k][i].child = "armed" /\ new.data # "deleted" /\ new.at # "deleted",
         errors = 0 /\ Exists(k) /\ watcher[k][i].child = "armed"
           /\ watcher[k][i].at \in {"select", "changed", "rearm"} =>
           new.child = "armed" /\ new.at \in {"select", "changed", "rearm"}
  PROVE  WatchInv'
<1>1. /\ watcher' \in [Kids -> [Walks -> KidStates]]
      /\ \A l \in Kids, j \in Walks :
           watcher'[l][j] = IF l = k /\ j = i THEN new ELSE watcher[l][j]
  BY DEF WatchInv, WatchTyped
<1>2. WatchTyped'
  BY <1>1 DEF WatchInv, WatchTyped, zkVars
<1>3. \A l \in Kids, j \in Walks :
        watcher'[l][j].child = "armed" =>
          watcher'[l][j].data # "deleted" /\ watcher'[l][j].at # "deleted"
  BY <1>1 DEF WatchInv
<1>4. \A l \in Kids : errors = 0 /\ Exists(l) /\ ArmedFor(l) => ArmedFor(l)'
  BY <1>1 DEF ArmedFor
<1>5. /\ ListsAgain' <=> ListsAgain
      /\ WalksBound' <=> WalksBound
  BY DEF ListsAgain, WalksBound, zkVars
<1> QED
  BY <1>2, <1>3, <1>4, <1>5 DEF WatchInv, zkVars, Exists

LEMMA WatchKidRecv ==
  ASSUME WatchInv, NEW k \in Kids, NEW i \in Walks, NEW watch \in {"data", "child"},
         KidRecv(k, i, watch)
  PROVE  WatchInv'
<1> DEFINE w == watcher[k][i]
<1>1. /\ UNCHANGED <<zkVars, errors, sync, root, walks>> /\ w.at = "select"
      /\ w \in KidStates
      /\ w.child = "armed" => w.data # "deleted"
  BY DEF KidRecv, Rest, WatchInv, WatchTyped
<1>2. CASE watch = "data"
  <2> DEFINE new == [w EXCEPT !.at = w.data, !.data = "off"]
  <2>1. /\ watcher' = [watcher EXCEPT ![k][i] = new] /\ w.data \in {"changed", "deleted"}
    BY <1>2 DEF KidRecv, WatchInv, WatchTyped, KidStates
  <2>2. /\ new \in KidStates /\ new.child = w.child /\ new.at = w.data
        /\ new.data = "off"
    BY <1>1, <2>1 DEF KidStates
  <2> HIDE DEF new
  <2> QED
    BY <1>1, <2>1, <2>2, KidStep DEF WatchInv, WatchTyped
<1>3. CASE watch = "child"
  <2> DEFINE new == [w EXCEPT !.at = w.child, !.child = "off"]
  <2>1. /\ watcher' = [watcher EXCEPT ![k][i] = new] /\ w.child = "deleted"
    BY <1>1, <1>3 DEF KidRecv, WatchInv, WatchTyped, KidStates
  <2>2. /\ new \in KidStates /\ new.child = "off"
    BY <1>1, <2>1 DEF KidStates
  <2> HIDE DEF new
  <2> QED
    BY <1>1, <2>1, <2>2, KidStep DEF WatchInv, WatchTyped
<1> QED
  BY <1>2, <1>3

LEMMA WatchKidSend ==
  ASSUME WatchInv, NEW k \in Kids, NEW i \in Walks, KidSend(k, i)
  PROVE  WatchInv'
<1> DEFINE w == watcher[k][i]
           new == IF w.at = "changed" THEN [w EXCEPT !.at = "rearm"] ELSE GoneWatcher
<1>1. /\ UNCHANGED <<zkVars, errors, root, walks>>
      /\ watcher' = [watcher EXCEPT ![k][i] = new]
  BY DEF KidSend, Rest, WatchInv, WatchTyped, KidStates
<1>2. /\ w \in KidStates /\ w.at \in {"changed", "deleted"}
      /\ w.child = "armed" => w.data # "deleted" /\ w.at # "deleted"
  BY DEF KidSend, WatchInv, WatchTyped
<1>3. /\ new \in KidStates
      /\ w.at = "changed" =>
           new.at = "rearm" /\ new.child = w.child /\ new.data = w.data
      /\ w.at # "changed" => new.child = "off"
  BY <1>2 DEF KidStates, GoneWatcher
<1>4. /\ sync' \in {"run", "failed", "stopped", "crashed"}
      /\ sync = "run" => sync' = "run"
  BY SendRuns DEF KidSend
<1> HIDE DEF new
<1> QED
  BY <1>1, <1>2, <1>3, <1>4, KidStep DEF WatchInv

LEMMA WatchKidRearm ==
  ASSUME WatchInv, NEW k \in Kids, NEW i \in Walks, KidRearm(k, i)
  PROVE  WatchInv'
<1> DEFINE w == watcher[k][i]
<1>1. /\ UNCHANGED <<zkVars, sync, root, walks>>
      /\ w \in KidStates
      /\ w.child = "armed" => w.data # "deleted" /\ w.at # "deleted"
  BY DEF KidRearm, Rest, WatchInv, WatchTyped
<1>2. CASE /\ Answers(k) /\ UNCHANGED errors
           /\ watcher' = [watcher EXCEPT ![k][i].at = "select", ![k][i].data = "armed"]
  <2> DEFINE new == [w EXCEPT !.at = "select", !.data = "armed"]
  <2>1. watcher' = [watcher EXCEPT ![k][i] = new]
    BY <1>2 DEF WatchInv, WatchTyped
  <2>2. new \in KidStates /\ new.child = w.child /\ new.data = "armed" /\ new.at = "select"
    BY <1>1 DEF KidStates
  <2>3. /\ sync' \in {"run", "failed", "stopped", "crashed"}
        /\ errors = 0 => sync' = "run"
        /\ UNCHANGED <<zkVars, errors, root, walks>>
    BY <1>1, <1>2 DEF WatchInv, WatchTyped
  <2>4. new.child = "armed" =>
          w.child = "armed" /\ new.data # "deleted" /\ new.at # "deleted"
    BY <2>2
  <2> HIDE DEF new
  <2> QED
    BY <2>1, <2>2, <2>3, <2>4, KidStep
<1>3. CASE NoAnswer(k) /\ watcher' = [watcher EXCEPT ![k][i] = GoneWatcher]
  <2> DEFINE new == GoneWatcher
  <2>1. watcher' = [watcher EXCEPT ![k][i] = new]
    BY <1>3 DEF WatchInv, WatchTyped
  <2>2. new \in KidStates /\ new.child = "off"
    BY DEF KidStates, GoneWatcher
  <2> HIDE DEF new
  <2>3. CASE ~Answers(k)
    <3>1. UNCHANGED errors /\ (errors = 0 => ~Exists(k))
      BY <1>3, <2>3 DEF NoAnswer, Answers, WatchInv
    <3> QED
      BY <1>1, <2>1, <2>2, <3>1, KidStep DEF WatchInv, WatchTyped
  <2>4. CASE Answers(k)
    <3>1. errors' \in Nat /\ errors' # 0 /\ changes + errors' <= MaxEvents
      BY <1>3, <2>4, CallFails DEF NoAnswer
    <3>2. /\ watcher' \in [Kids -> [Walks -> KidStates]]
          /\ \A l \in Kids, j \in Walks :
               watcher'[l][j] = IF l = k /\ j = i THEN new ELSE watcher[l][j]
      BY <2>1, <2>2 DEF WatchInv, WatchTyped
    <3>3. WatchTyped'
      BY <1>1, <3>1, <3>2 DEF WatchInv, WatchTyped, zkVars
    <3>4. \A l \in Kids, j \in Walks :
            watcher'[l][j].child = "armed" =>
              watcher'[l][j].data # "deleted" /\ watcher'[l][j].at # "deleted"
      BY <1>1, <2>2, <3>2 DEF WatchInv
    <3> QED
      BY <3>1, <3>3, <3>4 DEF WatchInv
  <2> QED
    BY <2>3, <2>4
<1> QED
  BY <1>2, <1>3 DEF KidRearm

LEMMA WatchLetGo ==
  ASSUME WatchInv, LetGo
  PROVE  WatchInv'
<1>1. /\ UNCHANGED <<zkVars, errors, sync, walks>> /\ sync = "stopped"
  BY DEF LetGo, Rest
<1>2. CASE UNCHANGED watcher
  <2>1. \/ UNCHANGED root
        \/ \E at \in {"gone", "send"} :
             root' = [root EXCEPT !.at = at, !.event = "changed"]
    BY <1>2 DEF LetGo
  <2>2. root' \in RootStates
    BY <2>1 DEF WatchInv, WatchTyped, RootStates
  <2> QED
    BY <1>1, <1>2, <2>2, RootStep DEF WatchInv, WatchTyped
<1>3. ASSUME NEW k \in Kids, NEW i \in Walks, NEW at \in {"gone", "changed"},
             watcher[k][i].at = "select", UNCHANGED root,
             watcher' = [watcher EXCEPT ![k][i].at = at]
      PROVE  WatchInv'
  <2> DEFINE w == watcher[k][i]
             new == [w EXCEPT !.at = at]
  <2>1. /\ watcher' = [watcher EXCEPT ![k][i] = new] /\ w \in KidStates
        /\ w.child = "armed" => w.data # "deleted"
    BY <1>3 DEF WatchInv, WatchTyped
  <2>2. new \in KidStates /\ new.child = w.child /\ new.data = w.data /\ new.at = at
    BY <2>1 DEF KidStates
  <2>3. /\ errors # 0 /\ sync' \in {"run", "failed", "stopped", "crashed"}
        /\ UNCHANGED <<zkVars, errors, root, walks>>
    BY <1>1, <1>3 DEF WatchInv
  <2>4. new.child = "armed" => w.child = "armed" /\ new.data # "deleted" /\ new.at # "deleted"
    BY <1>3, <2>1, <2>2
  <2> HIDE DEF new
  <2> QED
    BY <2>1, <2>2, <2>3, <2>4, KidStep
<1> QED
  BY <1>2, <1>3 DEF LetGo

LEMMA WatchNext ==
  ASSUME WatchInv, [ZkSyncNext]_zkSyncVars
  PROVE  WatchInv'
<1>1. CASE Zookeeper
  <2>1. ASSUME NEW n \in Nodes, ZkWrite(n) PROVE WatchInv'
    <3>1. ZkSet(n) /\ UNCHANGED sync
      BY <2>1 DEF ZkWrite, ZkSet, Change
    <3> QED
      BY <3>1, WatchSet
  <2> QED
    BY <1>1, <2>1, WatchCreate, WatchDelete DEF Zookeeper
<1>2. CASE Watchers
  BY <1>2, WatchRootList, WatchRootLost, WatchRootSelect, WatchRootSend, WatchLetGo,
     WatchRootWalk, WatchRootRecv, WatchKidSend, WatchKidRearm, WatchKidRecv
     DEF Watchers
<1>3. CASE RootListFails \/ RootRearmFails
  BY <1>3, WatchRootListFails, WatchRootLost
<1>4. CASE Handler
  <2>1. /\ UNCHANGED <<zkVars, watching>>
        /\ \/ UNCHANGED <<errors, sync>>
           \/ Fail /\ sync' \in {"run", "failed", "stopped", "crashed"}
           \/ UNCHANGED errors /\ sync # "run" /\ sync' \in {"stopped", "crashed"}
    <3>1. UNCHANGED <<zkVars, watching>>
      BY <1>4 DEF Handler, HandlerStart, HandleChildren, HandlePutKid, HandleKidsDone,
         HandleData, HandlePut, HandleDeleted, HandleOther, Destory, HandleKid,
         HandlerRest
    <3>2. CASE HandlerStart \/ HandleKidsDone \/ HandleOther
      BY <3>1, <3>2 DEF HandlerStart, HandleKidsDone, HandleOther
    <3>3. CASE \/ HandleChildren \/ HandlePutKid \/ HandlePut \/ HandleDeleted
               \/ HandleData \/ \E k \in Kids : HandleKid(k)
      BY <3>1, <3>3 DEF WatchInv, WatchTyped, HandleChildren, HandlePutKid, HandlePut,
         HandleDeleted, HandleData, HandleKid, NoAnswer, Put, HandlerFails
    <3>4. CASE Destory
      BY <3>1, <3>4 DEF Destory
    <3> QED
      BY <1>4, <3>2, <3>3, <3>4 DEF Handler
  <2> QED
    BY <2>1, WatchQuiet
<1>5. CASE Reload
  <2>1. /\ UNCHANGED <<zkVars, watching>>
        /\ \/ UNCHANGED <<errors, sync>>
           \/ Fail /\ sync' \in {"run", "failed", "stopped", "crashed"}
           \/ UNCHANGED errors /\ sync # "run" /\ sync' \in {"stopped", "crashed"}
    BY <1>5 DEF WatchInv, WatchTyped, Reload, ReloadStart, ReloadDone, ReloadRead,
       ReloadWrite, ReloadReadFails, NoAnswer, ReloadRest, Put
  <2> QED
    BY <2>1, WatchQuiet
<1>6. CASE SetRouteWrite
  <2>1. ZkSet(Root) /\ UNCHANGED sync /\ Root \in Nodes
    BY <1>6 DEF SetRouteWrite, ZkSet, Change, Nodes
  <2> QED
    BY <2>1, WatchSet
<1>7. CASE SetRouteTable
  BY <1>7, WatchQuiet DEF SetRouteTable
<1>8. CASE UNCHANGED zkSyncVars
  BY <1>8, WatchQuiet DEF zkSyncVars, zkVars, watching
<1> QED
  BY <1>1, <1>2, <1>3, <1>4, <1>5, <1>6, <1>7, <1>8 DEF ZkSyncNext

\* As long as nothing has failed every node of zookeeper is watched, or the root is
\* about to list it (nodeWalkW), whatever the number of the children and of the
\* changes: a child that is deleted and created again, or created while the tree is
\* walked, is never overlooked.
THEOREM NodesAreWatched == ZkSyncSpec => []EveryNodeWatched
<1>1. ZkSyncInit => WatchInv
  BY WatchStart
<1>2. WatchInv /\ [ZkSyncNext]_zkSyncVars => WatchInv'
  BY WatchNext
<1>3. WatchInv => EveryNodeWatched
  BY DEF WatchInv, EveryNodeWatched, ListsAgain, ArmedFor
<1> QED
  BY <1>1, <1>2, <1>3, PTL DEF ZkSyncSpec

---------------------------------------------------------------------------
(* The probes of services. *)

AllInterfaces == UNION {Provided[k] : k \in DOMAIN Provided}

ProberFields(p) ==
  p \in [at : {"none", "select", "send", "ended"}, list : Seq(AllInterfaces), idx : Nat,
         esbs : {p.esbs}, timer : BOOLEAN]

CheckTyped ==
  /\ \A k \in DOMAIN interfaces :
       IsFiniteSet(interfaces[k]) /\ interfaces[k] \subseteq AllInterfaces
  /\ prober = [n \in ServiceNames |-> prober[n]]
  /\ \A n \in ServiceNames : ProberFields(prober[n])
  /\ probed = [n \in ServiceNames |-> probed[n]]

Distinct(list) == \A i, j \in DOMAIN list : list[i] = list[j] => i = j

\* Those up to the index were probed once more than those behind it.
InTurn(p, count) ==
  /\ Distinct(p.list) /\ p.idx \in 0..Len(p.list) /\ (p.list # <<>> => p.idx # 0)
  /\ count \in [ToSet(p.list) -> Int]
  /\ \E c \in Int : \A i \in DOMAIN p.list :
       count[p.list[i]] = IF i <= p.idx THEN c + 1 ELSE c

TurnInv == CheckTyped /\ \A n \in ServiceNames : InTurn(prober[n], probed[n])

LEMMA TurnStart ==
  ASSUME CheckInit
  PROVE  TurnInv
<1>1. ASSUME NEW k \in DOMAIN interfaces
      PROVE  IsFiniteSet(interfaces[k]) /\ interfaces[k] \subseteq AllInterfaces
  BY CheckAssumption DEF CheckInit, AllInterfaces
<1>2. CheckTyped
  <2>1. ProberFields(NotStarted)
    BY DEF NotStarted, ProberFields
  <2>2. \A n \in ServiceNames : prober[n] = NotStarted
    BY DEF CheckInit
  <2>3. /\ prober = [n \in ServiceNames |-> prober[n]]
        /\ probed = [n \in ServiceNames |-> probed[n]]
    BY DEF CheckInit
  <2> QED
    BY <1>1, <2>1, <2>2, <2>3 DEF CheckTyped
<1>3. ASSUME NEW n \in ServiceNames
      PROVE  InTurn(prober[n], probed[n])
  <2>1. prober[n].list = <<>> /\ prober[n].idx = 0 /\ probed[n] = <<>>
    BY DEF CheckInit, NotStarted
  <2>2. ToSet(<<>>) = {}
    BY DEF ToSet
  <2> QED
    BY <2>1, <2>2 DEF InTurn, Distinct
<1> QED
  BY <1>2, <1>3 DEF TurnInv

\* A list made of the interfaces of a service begins a round.
LEMMA NewList ==
  ASSUME CheckTyped, NEW n \in ServiceNames, NEW it \in Iterators(GetProbeInterfaces(n))
  PROVE  /\ it.list \in Seq(AllInterfaces) /\ Distinct(it.list) /\ it.idx = Len(it.list)
         /\ it.idx \in Nat
<1> DEFINE S == GetProbeInterfaces(n)
<1>1. IsFiniteSet(S) /\ S \subseteq AllInterfaces
  BY FS_EmptySet DEF GetProbeInterfaces, CheckTyped
<1>2. Cardinality(S) \in Nat
  BY <1>1, FS_CardinalityType
<1>3. PICK l \in SetToSeqs(S) : it = [list |-> l, idx |-> Len(l)]
  BY DEF Iterators
<1>4. /\ l \in [1..Cardinality(S) -> S]
      /\ \A i, j \in 1..Cardinality(S) : i # j => l[i] # l[j]
  BY <1>3 DEF SetToSeqs
<1> HIDE DEF S
<1>5. l \in Seq(AllInterfaces) /\ DOMAIN l = 1..Cardinality(S)
  BY <1>1, <1>2, <1>4
<1>6. it.list = l /\ it.idx = Len(l)
  BY <1>3
<1>7. Distinct(l) /\ Len(l) \in Nat
  BY <1>4, <1>5 DEF Distinct
<1> QED
  BY <1>5, <1>6, <1>7

LEMMA Beginning ==
  ASSUME NEW p, p.list \in Seq(AllInterfaces), Distinct(p.list), p.idx = Len(p.list)
  PROVE  InTurn(p, [i \in ToSet(p.list) |-> 0])
<1> DEFINE count == [i \in ToSet(p.list) |-> 0]
<1>1. \A i \in DOMAIN p.list : p.list[i] \in ToSet(p.list) /\ i <= p.idx
  BY DEF ToSet
<1>2. count \in [ToSet(p.list) -> Int] /\ \A i \in DOMAIN p.list : count[p.list[i]] = 0
  BY <1>1
<1> HIDE DEF count
<1>3. \A i \in DOMAIN p.list : count[p.list[i]] = IF i <= p.idx THEN -1 + 1 ELSE -1
  BY <1>1, <1>2
<1>4. -1 \in Int
  OBVIOUS
<1>5. p.idx \in 0..Len(p.list) /\ (p.list # <<>> => p.idx # 0)
  OBVIOUS
<1>6. InTurn(p, count)
  BY <1>2, <1>3, <1>4, <1>5 DEF InTurn
<1> QED
  BY <1>6 DEF count

\* A step of the prober of n, or of the ratios: the others stay as they are.
LEMMA TurnStep ==
  ASSUME TurnInv, NEW n \in ServiceNames, NEW new, NEW count,
         UNCHANGED interfaces,
         prober' = [prober EXCEPT ![n] = new], probed' = [probed EXCEPT ![n] = count],
         ProberFields(new), InTurn(new, count)
  PROVE  TurnInv'
<1>1. /\ prober' = [m \in ServiceNames |-> IF m = n THEN new ELSE prober[m]]
      /\ probed' = [m \in ServiceNames |-> IF m = n THEN count ELSE probed[m]]
  BY DEF TurnInv, CheckTyped
<1>2. CheckTyped'
  <2>1. /\ prober' = [m \in ServiceNames |-> prober'[m]]
        /\ probed' = [m \in ServiceNames |-> probed'[m]]
    BY <1>1
  <2>2. \A m \in ServiceNames : ProberFields(prober'[m])
    BY <1>1 DEF TurnInv, CheckTyped
  <2> QED
    BY <2>1, <2>2 DEF TurnInv, CheckTyped
<1> QED
  BY <1>1, <1>2 DEF TurnInv

LEMMA TurnStarts ==
  ASSUME TurnInv, NEW n \in ServiceNames, StartProbe(n) \/ RenewList(n)
  PROVE  TurnInv'
<1> DEFINE p == prober[n]
<1>1. UNCHANGED interfaces /\ ProberFields(p) /\ InTurn(p, probed[n])
  BY DEF StartProbe, RenewList, TurnInv, CheckTyped
<1>2. CASE prober' = [prober EXCEPT ![n].at = "ended"] /\ UNCHANGED probed
  <2> DEFINE new == [p EXCEPT !.at = "ended"]
  <2>1. prober' = [prober EXCEPT ![n] = new] /\ probed' = [probed EXCEPT ![n] = probed[n]]
    BY <1>2 DEF TurnInv, CheckTyped
  <2>2. ProberFields(new) /\ new.list = p.list /\ new.idx = p.idx
    BY <1>1 DEF ProberFields
  <2>3. InTurn(new, probed[n])
    BY <1>1, <2>2 DEF InTurn
  <2> HIDE DEF new
  <2> QED
    BY <1>1, <2>1, <2>2, <2>3, TurnStep
<1>3. ASSUME NEW it \in Iterators(GetProbeInterfaces(n)), NEW new,
             prober' = [prober EXCEPT ![n] = new], NewRound(n, it.list),
             ProberFields(new), new.list = it.list, new.idx = it.idx
      PROVE  TurnInv'
  <2>1. /\ it.list \in Seq(AllInterfaces) /\ Distinct(it.list) /\ it.idx = Len(it.list)
    BY NewList DEF TurnInv
  <2>2. InTurn(new, [i \in ToSet(new.list) |-> 0])
    BY <1>3, <2>1, Beginning
  <2>3. probed' = [probed EXCEPT ![n] = [i \in ToSet(new.list) |-> 0]]
    BY <1>3 DEF NewRound
  <2> QED
    BY <1>1, <1>3, <2>2, <2>3, TurnStep
<1>4. CASE StartProbe(n)
  <2>1. ASSUME NEW it \in Iterators(GetProbeInterfaces(n)), NEW esbs,
               prober' = [prober EXCEPT ![n] = [at |-> "select", list |-> it.list,
                            idx |-> it.idx, esbs |-> esbs, timer |-> TRUE]],
               NewRound(n, it.list)
        PROVE  TurnInv'
    <3> DEFINE new == [at |-> "select", list |-> it.list, idx |-> it.idx,
                       esbs |-> esbs, timer |-> TRUE]
    <3>1. it.list \in Seq(AllInterfaces) /\ it.idx \in Nat
      BY NewList DEF TurnInv
    <3>2. ProberFields(new) /\ new.list = it.list /\ new.idx = it.idx
      BY <3>1 DEF ProberFields
    <3> HIDE DEF new
    <3> QED
      BY <1>3, <2>1, <3>2 DEF new
  <2> QED
    BY <1>2, <1>4, <2>1 DEF StartProbe
<1>5. CASE RenewList(n)
  <2>1. PICK it \in Iterators(GetProbeInterfaces(n)) :
          /\ prober' = [prober EXCEPT ![n].list = it.list, ![n].idx = it.idx,
                                      ![n].timer = FALSE]
          /\ NewRound(n, it.list)
    BY <1>5 DEF RenewList
  <2> DEFINE new == [p EXCEPT !.list = it.list, !.idx = it.idx, !.timer = FALSE]
  <2>2. prober' = [prober EXCEPT ![n] = new]
    BY <2>1 DEF TurnInv, CheckTyped
  <2>3. it.list \in Seq(AllInterfaces) /\ it.idx \in Nat
    BY NewList DEF TurnInv
  <2>4. ProberFields(new) /\ new.list = it.list /\ new.idx = it.idx
    BY <1>1, <2>3 DEF ProberFields
  <2> HIDE DEF new
  <2> QED
    BY <1>3, <2>1, <2>2, <2>4
<1> QED
  BY <1>4, <1>5

LEMMA TurnProbes ==
  ASSUME TurnInv, NEW n \in ServiceNames, NEW result, ProbeNext(n, result)
  PROVE  TurnInv'
<1> DEFINE p == prober[n]
           next == NextIdx(p.idx, p.list)
           new == [p EXCEPT !.idx = next, !.at = "send"]
           list == p.list
           count == [probed[n] EXCEPT ![list[next]] = probed[n][list[next]] + 1]
<1>1. /\ UNCHANGED interfaces /\ ProberFields(p) /\ InTurn(p, probed[n]) /\ list # <<>>
      /\ list \in Seq(AllInterfaces) /\ p.idx \in Nat
  BY DEF ProbeNext, TurnInv, CheckTyped, ProberFields
<1>2. /\ prober' = [prober EXCEPT ![n] = new] /\ probed' = [probed EXCEPT ![n] = count]
  BY DEF ProbeNext, TurnInv, CheckTyped
<1>3. /\ next \in DOMAIN list /\ next \in 1..Len(list) /\ next \in Nat
      /\ IF p.idx = Len(list) THEN next = 1 ELSE next = p.idx + 1
  BY <1>1 DEF NextIdx, InTurn
<1>4. ProberFields(new) /\ new.list = list /\ new.idx = next
  <2> HIDE DEF next
  <2> QED
    BY <1>1, <1>3 DEF ProberFields
<1>5. PICK c \in Int : \A i \in DOMAIN list :
        probed[n][list[i]] = IF i <= p.idx THEN c + 1 ELSE c
  BY <1>1 DEF InTurn
<1>6. /\ \A i \in DOMAIN list : list[i] \in ToSet(list)
      /\ probed[n] \in [ToSet(list) -> Int] /\ Distinct(list) /\ p.idx \in 0..Len(list)
  BY <1>1 DEF InTurn, ToSet
<1>7. count \in [ToSet(list) -> Int]
  BY <1>3, <1>6
<1>8. \A i \in DOMAIN list :
        count[list[i]] = IF i = next THEN probed[n][list[i]] + 1 ELSE probed[n][list[i]]
  BY <1>3, <1>6 DEF Distinct
<1> HIDE DEF count, new, next, list, p
<1>9. \E d \in Int : \A i \in DOMAIN list : count[list[i]] = IF i <= next THEN d + 1 ELSE d
  <2>1. DOMAIN list = 1..Len(list) /\ Len(list) \in Nat
    BY <1>1
  <2>2. CASE p.idx = Len(list)
    <3>1. \A i \in DOMAIN list : count[list[i]] = IF i <= next THEN (c + 1) + 1 ELSE c + 1
      BY <1>3, <1>5, <1>8, <2>1, <2>2
    <3> QED
      BY <3>1
  <2>3. CASE p.idx # Len(list)
    <3>1. \A i \in DOMAIN list : count[list[i]] = IF i <= next THEN c + 1 ELSE c
      BY <1>3, <1>5, <1>6, <1>8, <2>1, <2>3
    <3> QED
      BY <3>1
  <2> QED
    BY <2>2, <2>3
<1>10. InTurn(new, count)
  <2>1. new.idx \in 0..Len(new.list) /\ new.idx # 0
    BY <1>3, <1>4
  <2> QED
    BY <1>4, <1>6, <1>7, <1>9, <2>1 DEF InTurn
<1> QED
  BY <1>1, <1>2, <1>4, <1>10, TurnStep

LEMMA TurnGoesOn ==
  ASSUME TurnInv, NEW n \in ServiceNames, SendMetricOf(n) \/ Cancel(n)
  PROVE  TurnInv'
<1> DEFINE p == prober[n]
<1>1. UNCHANGED <<interfaces, probed>> /\ ProberFields(p) /\ InTurn(p, probed[n])
  BY DEF SendMetricOf, Cancel, TurnInv, CheckTyped
<1>2. PICK at \in {"select", "ended"} : prober' = [prober EXCEPT ![n].at = at]
  BY DEF SendMetricOf, Cancel
<1> DEFINE new == [p EXCEPT !.at = at]
<1>3. prober' = [prober EXCEPT ![n] = new] /\ probed' = [probed EXCEPT ![n] = probed[n]]
  BY <1>1, <1>2 DEF TurnInv, CheckTyped
<1>4. ProberFields(new) /\ new.list = p.list /\ new.idx = p.idx
  BY <1>1 DEF ProberFields
<1>5. InTurn(new, probed[n])
  BY <1>1, <1>4 DEF InTurn
<1> HIDE DEF new
<1> QED
  BY <1>1, <1>3, <1>4, <1>5, TurnStep

LEMMA TurnQuiet ==
  ASSUME TurnInv, UNCHANGED <<prober, probed>>,
         \/ UNCHANGED interfaces
         \/ \E k \in DOMAIN Provided : \E set \in {{}, Provided[k]} : InterfacesEvent(k, set)
  PROVE  TurnInv'
<1>1. \A k \in DOMAIN interfaces' :
        IsFiniteSet(interfaces'[k]) /\ interfaces'[k] \subseteq AllInterfaces
  <2>1. CASE UNCHANGED interfaces
    BY <2>1 DEF TurnInv, CheckTyped
  <2>2. ASSUME NEW key \in DOMAIN Provided, NEW set \in {{}, Provided[key]},
               InterfacesEvent(key, set)
        PROVE  \A k \in DOMAIN interfaces' :
                 IsFiniteSet(interfaces'[k]) /\ interfaces'[k] \subseteq AllInterfaces
    <3>1. IsFiniteSet(set) /\ set \subseteq AllInterfaces
      BY FS_EmptySet, CheckAssumption DEF AllInterfaces
    <3>2. \A k \in DOMAIN interfaces' :
            \/ interfaces'[k] = set
            \/ k \in DOMAIN interfaces /\ interfaces'[k] = interfaces[k]
      BY <2>2 DEF InterfacesEvent
    <3> QED
      BY <3>1, <3>2 DEF TurnInv, CheckTyped
  <2> QED
    BY <2>1, <2>2
<1> QED
  BY <1>1 DEF TurnInv, CheckTyped

\* No interface of a service is probed twice before every other was probed once
\* more, whatever interfaces the services have and however often the list of them is
\* made anew (Iterator.Next, StartProbe).
THEOREM InterfacesProbedInTurn == CheckSpec => []ProbedInTurn
<1>1. CheckInit => TurnInv
  BY TurnStart
<1>2. TurnInv /\ [CheckNext]_checkVars => TurnInv'
  <2> SUFFICES ASSUME TurnInv, [CheckNext]_checkVars PROVE TurnInv'
    OBVIOUS
  <2>1. CASE UNCHANGED checkVars
    BY <2>1, TurnQuiet DEF checkVars
  <2>2. CASE CheckInstances \/ ReportOne \/ ReportAll
    BY <2>2, TurnQuiet DEF CheckInstances, ReportOne, ReportAll
  <2>3. CASE \E k \in DOMAIN Provided : \E set \in {{}, Provided[k]} : InterfacesEvent(k, set)
    BY <2>3, TurnQuiet DEF InterfacesEvent
  <2>4. ASSUME NEW n \in ServiceNames,
               \/ Load(n) \/ StartProbe(n) \/ RenewList(n) \/ SendMetricOf(n) \/ Cancel(n)
               \/ \E result \in {"success", "warning", "failure"} : ProbeNext(n, result)
        PROVE  TurnInv'
    <3>1. CASE Load(n)
      BY <3>1, TurnQuiet DEF Load
    <3> QED
      BY <2>4, <3>1, TurnStarts, TurnGoesOn, TurnProbes
  <2> QED
    BY <2>1, <2>2, <2>3, <2>4 DEF CheckNext
<1>3. TurnInv => ProbedInTurn
  <2> SUFFICES ASSUME TurnInv, NEW n \in ServiceNames,
                      NEW f \in DOMAIN probed[n], NEW g \in DOMAIN probed[n]
               PROVE  probed[n][f] - probed[n][g] <= 1
    BY DEF ProbedInTurn
  <2>1. PICK c \in Int : \A i \in DOMAIN prober[n].list :
          probed[n][prober[n].list[i]] \in {c, c + 1}
    BY DEF TurnInv, InTurn
  <2>2. DOMAIN probed[n] = {prober[n].list[i] : i \in DOMAIN prober[n].list}
    BY DEF TurnInv, InTurn, ToSet
  <2>3. \A h \in DOMAIN probed[n] : probed[n][h] \in {c, c + 1}
    BY <2>1, <2>2
  <2> QED
    BY <2>3
<1> QED
  BY <1>1, <1>2, <1>3, PTL DEF CheckSpec

=============================================================================
