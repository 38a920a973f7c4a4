------------------------- MODULE ReplicaCtrlProofs -------------------------
(***************************************************************************)
(* Proofs about the replica controller: for any hosts and versions and any *)
(* number of callers and timers at once; and, in the second part, for one  *)
(* rolling update that runs alone.                                         *)
(***************************************************************************)
EXTENDS ReplicaCtrl, FiniteSetTheorems, WellFoundedInduction, TLAPS

Loops == {"add", "update", "remove", "prune"}

\* A goroutine in one of the loops is there for the first call of its plan.
PlaceOK == /\ DOMAIN pc = Tasks /\ DOMAIN plan = Tasks
           /\ \A t \in Tasks : pc[t] \in Loops \cup {"save", "pause"} =>
                                 Head(plan[t]).op \in Loops

\* No map shared by cache and goroutines holds more of an old version than etcd
\* tells the host to run, and a configuration about to be deleted holds none.
NoneReturns ==
  /\ \A h \in Hosts, v \in Legacy : info[h][v] <= Desired[h][v]
  /\ \A t \in Tasks : pc[t] = "save" /\ save[t] = "delete" =>
       \A v \in Legacy : info[host[t]][v] = 0

IInv == ConfigTypeOK /\ PlaceOK /\ NoneReturns

\* What the hosts are told to run are counts.
LEMMA DesiredType ==
  ASSUME ConfigTypeOK
  PROVE  \A h \in Hosts, v \in Vers : Desired[h][v] \in Nat
  BY DEF ConfigTypeOK, Counts, Desired, NoCounts

---------------------------------------------------------------------------
(* Most steps touch neither the maps nor etcd, and write nothing new. *)

\* Such a step preserves the invariant, and what the hosts are told.
LEMMA QuietStep ==
  ASSUME IInv, ConfigTypeOK', PlaceOK',
         UNCHANGED <<info, stored, host, save>>,
         \A t \in Tasks : pc'[t] = "save" => pc[t] = "save"
  PROVE  IInv' /\ Desired' = Desired
<1>1. Desired' = Desired
  BY DEF Desired
<1>2. NoneReturns'
  BY <1>1 DEF IInv, NoneReturns
<1> QED
  BY <1>1, <1>2 DEF IInv

\* A goroutine that leaves its loop.
LEMMA QuietEnd ==
  ASSUME IInv, NEW t \in Tasks, NEW e, EndCall(t, e)
  PROVE  IInv' /\ Desired' = Desired
<1> USE DEF IInv, cfgVars
<1>1. /\ pc' = [pc EXCEPT ![t] = "next"]
      /\ plan' = [plan EXCEPT ![t] = IF e THEN <<>> ELSE Tail(@)]
      /\ UNCHANGED <<info, cached, stored, host, save, hc>>
  BY DEF EndCall
<1>2. ConfigTypeOK'
  BY <1>1 DEF ConfigTypeOK
<1>3. PlaceOK' /\ \A x \in Tasks : pc'[x] = "save" => pc[x] = "save"
  BY <1>1 DEF PlaceOK, Loops
<1> QED
  BY <1>1, <1>2, <1>3, QuietStep

\* The beginning of a loop.
LEMMA QuietBegin ==
  ASSUME IInv, NEW t \in Tasks, Begin(t)
  PROVE  IInv' /\ Desired' = Desired
<1> USE DEF IInv, cfgVars
<1>1. /\ pc' = [pc EXCEPT ![t] = Head(plan[t]).op]
      /\ Head(plan[t]).op \in Loops
      /\ UNCHANGED <<info, cached, stored, host, save, plan>>
  BY DEF Begin, Loops
<1>2. ConfigTypeOK'
  BY <1>1 DEF ConfigTypeOK, Begin
<1>3. PlaceOK' /\ \A x \in Tasks : pc'[x] = "save" => pc[x] = "save"
  BY <1>1 DEF PlaceOK, Loops
<1> QED
  BY <1>1, <1>2, <1>3, QuietStep

\* The steps within a loop that change no map.
LEMMA QuietLoop ==
  ASSUME IInv, NEW t \in Tasks,
         RemoveList(t) \/ Skip(t) \/ Resume(t) \/ NoHost(t) \/ RemoveGone(t)
         \/ EndLoop(t) \/ GiveUp(t)
  PROVE  IInv' /\ Desired' = Desired
<1> USE DEF IInv, cfgVars
<1>1. CASE RemoveList(t) \/ Skip(t) \/ NoHost(t)
  <2>1. UNCHANGED <<info, cached, stored, host, save, plan, pc>>
    BY <1>1 DEF RemoveList, Skip, NoHost
  <2>2. hc' \in [Tasks -> SUBSET Hosts]
    BY <1>1 DEF RemoveList, Skip, NoHost, ConfigTypeOK
  <2>3. ConfigTypeOK'
    BY <2>1, <2>2 DEF ConfigTypeOK
  <2>4. PlaceOK'
    BY <2>1 DEF PlaceOK
  <2> QED
    BY <2>1, <2>3, <2>4, QuietStep
<1>2. CASE Resume(t)
  <2>1. /\ UNCHANGED <<info, cached, stored, host, save, plan, hc>>
        /\ pc[t] = "pause" /\ pc' = [pc EXCEPT ![t] = Head(plan[t]).op]
    BY <1>2 DEF Resume
  <2>2. ConfigTypeOK'
    BY <2>1 DEF ConfigTypeOK
  <2>3. PlaceOK' /\ \A x \in Tasks : pc'[x] = "save" => pc[x] = "save"
    BY <2>1 DEF PlaceOK, Loops
  <2> QED
    BY <2>1, <2>2, <2>3, QuietStep
<1>3. CASE RemoveGone(t)
  <2>1. CASE EndCall(t, FALSE)
    BY <2>1, QuietEnd
  <2>2. CASE ~EndCall(t, FALSE)
    <3>1. /\ UNCHANGED <<info, cached, stored, host, save, plan>>
          /\ pc[t] = "remove" /\ pc' = [pc EXCEPT ![t] = "pause"]
          /\ \E h \in hc[t] : hc' = [hc EXCEPT ![t] = @ \ {h}]
      BY <1>3, <2>2 DEF RemoveGone
    <3>2. ConfigTypeOK'
      BY <3>1 DEF ConfigTypeOK
    <3>3. PlaceOK' /\ \A x \in Tasks : pc'[x] = "save" => pc[x] = "save"
      BY <3>1 DEF PlaceOK, Loops
    <3> QED
      BY <3>1, <3>2, <3>3, QuietStep
  <2> QED
    BY <2>1, <2>2
<1>4. CASE EndLoop(t) \/ GiveUp(t)
  BY <1>4, QuietEnd DEF EndLoop, GiveUp
<1> QED
  BY <1>1, <1>2, <1>3, <1>4

\* Calls and timers, which start and end outside the loops.
LEMMA QuietCall ==
  ASSUME IInv, NEW t \in Tasks,
         \/ \E p \in Policies, n \in Nums : Deploy(t, p, n)
         \/ CheckStatus(t) \/ Destroy(t) \/ Again(t) \/ Cancel(t)
         \/ Arm(t) \/ Return(t) \/ Clear(t) \/ Fire(t) \/ ResetLease
  PROVE  IInv' /\ Desired' = Desired
<1> USE DEF IInv, cfgVars
<1>1. UNCHANGED <<info, cached, stored, host, save, hc>>
  BY DEF Deploy, CheckStatus, Destroy, Again, Cancel, Arm, Return, Clear, Fire,
         ResetLease
<1> DEFINE Outside(p) == p \notin Loops \cup {"save", "pause"}
           Planned == plan' = plan \/ \E q : plan' = [plan EXCEPT ![t] = q]
           Goes == \E p : Outside(p) /\ pc' = [pc EXCEPT ![t] = p]
<1>2. ASSUME Planned, Goes
      PROVE  IInv' /\ Desired' = Desired
  <2>1. PICK p : Outside(p) /\ pc' = [pc EXCEPT ![t] = p]
    BY <1>2
  <2>2. PlaceOK' /\ \A x \in Tasks : pc'[x] = "save" => pc[x] = "save"
    BY <1>2, <2>1 DEF PlaceOK
  <2>3. ConfigTypeOK'
    BY <1>1 DEF ConfigTypeOK
  <2> QED
    BY <1>1, <2>2, <2>3, QuietStep
<1>3. CASE Cancel(t) \/ ResetLease
  <2>1. UNCHANGED <<pc, plan>>
    BY <1>3 DEF Cancel, ResetLease
  <2> QED
    BY <1>1, <2>1, QuietStep DEF ConfigTypeOK, PlaceOK
<1>4. CASE \E p \in Policies, n \in Nums : Deploy(t, p, n)
  <2>1. PICK p \in Policies, n \in Nums : Deploy(t, p, n)
    BY <1>4
  <2>2. Outside(p)
    BY PoliciesAssumption DEF Loops
  <2> QED
    BY <1>2, <2>1, <2>2 DEF Deploy
<1>5. CASE CheckStatus(t) \/ Destroy(t) \/ Again(t)
  <2>1. Outside("check") /\ Outside("destroyed") /\ Outside("idle")
    BY DEF Loops
  <2> QED
    BY <1>2, <1>5, <2>1 DEF CheckStatus, Destroy, Again
<1>6. CASE Arm(t) \/ Return(t) \/ Clear(t) \/ Fire(t)
  <2>1. /\ Outside("next") /\ Outside("clear") /\ Outside("failed")
        /\ Outside("ok") /\ Outside("idle") /\ Outside("fire")
    BY DEF Loops
  <2>2. Planned
    BY <1>6 DEF Arm, Return, Clear, Fire
  <2>3. Goes
    <3>1. CASE Return(t)
      <4>1. \E p \in {"clear", "failed", "ok"} : pc' = [pc EXCEPT ![t] = p]
        BY <3>1 DEF Return
      <4> QED
        BY <2>1, <4>1
    <3>2. CASE Arm(t) \/ Clear(t) \/ Fire(t)
      BY <2>1, <3>2 DEF Arm, Clear, Fire
    <3> QED
      BY <1>6, <3>1, <3>2
  <2> QED
    BY <1>2, <2>2, <2>3
<1> QED
  BY <1>3, <1>4, <1>5, <1>6

---------------------------------------------------------------------------
(* The steps that change a map. *)

\* A change that adds no old instance, and is written as a deletion only if
\* it leaves none.
LEMMA ChangeStep ==
  ASSUME IInv, NEW t \in Tasks, NEW h \in Hosts, NEW f \in Counts,
         NEW w \in {"set", "delete"}, Change(t, h, f, w),
         pc[t] \in Loops, hc' \in [Tasks -> SUBSET Hosts],
         \A v \in Legacy : f[v] <= info[h][v],
         w = "delete" => \A v \in Legacy : f[v] = 0
  PROVE  IInv' /\ Desired' = Desired
<1> USE DEF IInv
<1>1. /\ info' = [info EXCEPT ![h] = f] /\ host' = [host EXCEPT ![t] = h]
      /\ save' = [save EXCEPT ![t] = w] /\ pc' = [pc EXCEPT ![t] = "save"]
      /\ UNCHANGED <<cached, stored, plan>>
  BY DEF Change
<1>2. ConfigTypeOK'
  BY <1>1 DEF ConfigTypeOK
<1>3. PlaceOK'
  BY <1>1 DEF PlaceOK
<1>4. Desired' = Desired
  BY <1>1 DEF Desired
<1>5. info'[h] = f /\ \A g \in Hosts \ {h} : info'[g] = info[g]
  BY <1>1 DEF ConfigTypeOK
<1>6. \A g \in Hosts, v \in Legacy :
        /\ info'[g][v] \in Nat /\ info[g][v] \in Nat
        /\ info'[g][v] <= info[g][v]
  <2>1. \A g \in Hosts, v \in Legacy : info'[g][v] \in Nat /\ info[g][v] \in Nat
    BY <1>2 DEF ConfigTypeOK, Counts, Legacy
  <2> QED
    BY <1>5, <2>1
<1>7. \A g \in Hosts, v \in Legacy : info'[g][v] <= Desired'[g][v]
  <2>1. \A g \in Hosts, v \in Legacy : Desired[g][v] \in Nat
    BY DesiredType DEF Legacy
  <2> QED
    BY <1>4, <1>6, <2>1 DEF NoneReturns
<1>8. ASSUME NEW x \in Tasks, pc'[x] = "save", save'[x] = "delete",
             NEW v \in Legacy
      PROVE  info'[host'[x]][v] = 0
  <2>1. CASE x = t
    BY <1>1, <1>5, <1>8, <2>1 DEF ConfigTypeOK
  <2>2. CASE x # t
    <3>1. /\ pc[x] = "save" /\ save[x] = "delete" /\ host'[x] = host[x]
          /\ host[x] \in Hosts
      BY <1>1, <1>8, <2>2 DEF ConfigTypeOK, PlaceOK
    <3>2. info[host[x]][v] = 0
      BY <3>1 DEF NoneReturns
    <3> QED
      BY <1>6, <3>1, <3>2
  <2> QED
    BY <2>1, <2>2
<1> QED
  BY <1>2, <1>3, <1>4, <1>7, <1>8 DEF NoneReturns

\* The loops add expected instances, and remove old ones or expected ones.
LEMMA LoopStep ==
  ASSUME IInv, NEW t \in Tasks,
         AddOne(t) \/ UpdateOne(t) \/ RemoveOne(t) \/ PruneOne(t)
  PROVE  IInv' /\ Desired' = Desired
<1> USE VersAssumption, NumsAssumption
<1> USE DEF IInv
<1>1. /\ info \in [Hosts -> Counts] /\ cached \subseteq Hosts
      /\ hc \in [Tasks -> SUBSET Hosts]
      /\ \A h \in Hosts, v \in Vers : info[h][v] \in Nat
  BY DEF ConfigTypeOK, Counts
<1>2. CASE AddOne(t)
  <2>1. PICK h \in Offered :
          \/ /\ h \in cached
             /\ Change(t, h, [info[h] EXCEPT ![Exp] = @ + 1], "set")
             /\ UNCHANGED hc
          \/ /\ h \notin cached
             /\ pc' = [x \in Tasks |-> "dead"]
             /\ UNCHANGED <<cfgVars, num, timerVars, plan, hc, left, host,
                            save, err, ctxDone, base, envVars>>
    BY <1>2 DEF AddOne
  <2>2. CASE /\ Change(t, h, [info[h] EXCEPT ![Exp] = @ + 1], "set")
             /\ UNCHANGED hc
    <3> DEFINE f == [info[h] EXCEPT ![Exp] = @ + 1]
    <3>1. /\ h \in Hosts /\ f \in Counts
          /\ \A v \in Legacy : f[v] <= info[h][v]
      BY <1>1 DEF Counts, Legacy
    <3>2. pc[t] \in Loops
      BY <1>2 DEF AddOne, Loops
    <3> HIDE DEF f
    <3>3. Change(t, h, f, "set") /\ hc' \in [Tasks -> SUBSET Hosts]
      BY <1>1, <2>2 DEF f
    <3> QED
      BY <3>1, <3>2, <3>3, ChangeStep
  <2>3. CASE /\ pc' = [x \in Tasks |-> "dead"]
             /\ UNCHANGED <<cfgVars, plan, hc, host, save>>
    <3>1. ConfigTypeOK'
      BY <2>3 DEF ConfigTypeOK, cfgVars
    <3>2. PlaceOK' /\ \A x \in Tasks : pc'[x] # "save"
      BY <2>3 DEF PlaceOK, Loops
    <3> QED
      BY <2>3, <3>1, <3>2, QuietStep DEF cfgVars
  <2> QED
    BY <2>1, <2>2, <2>3
<1>3. CASE UpdateOne(t)
  <2>1. PICK h \in hc[t], u \in Legacy :
          /\ info[h][u] > 0
          /\ Change(t, h, [info[h] EXCEPT ![Exp] = @ + 1, ![u] = @ - 1], "set")
          /\ hc' = [hc EXCEPT ![t] = @ \ {h}]
    BY <1>3 DEF UpdateOne
  <2> DEFINE f == [info[h] EXCEPT ![Exp] = @ + 1, ![u] = @ - 1]
  <2>2. /\ h \in Hosts /\ u \in Vers /\ u # Exp /\ info[h] \in [Vers -> Nat]
        /\ info[h][u] \in Nat /\ info[h][Exp] \in Nat
    BY <1>1 DEF Legacy, Counts
  <2>3. f \in Counts
    BY <2>1, <2>2 DEF Counts
  <2>4. \A v \in Legacy : f[v] <= info[h][v]
    BY <2>1, <2>2 DEF Legacy
  <2>5. pc[t] \in Loops /\ hc' \in [Tasks -> SUBSET Hosts]
    BY <1>1, <1>3, <2>1 DEF UpdateOne, Loops
  <2>6. Change(t, h, f, "set")
    BY <2>1
  <2> HIDE DEF f
  <2> QED
    BY <2>2, <2>3, <2>4, <2>5, <2>6, ChangeStep
<1>4. CASE RemoveOne(t)
  <2>1. PICK h \in hc[t] :
          /\ info[h][Exp] > 0
          /\ LET f == IF info[h][Exp] = 1 THEN [info[h] EXCEPT ![Exp] = 0]
                      ELSE info[h]
             IN Change(t, h, f, IF f = NoCounts THEN "delete" ELSE "set")
          /\ hc' = [hc EXCEPT ![t] = @ \ {h}]
    BY <1>4 DEF RemoveOne
  <2> DEFINE f == IF info[h][Exp] = 1 THEN [info[h] EXCEPT ![Exp] = 0]
                  ELSE info[h]
             w == IF f = NoCounts THEN "delete" ELSE "set"
  <2>2. h \in Hosts /\ info[h] \in [Vers -> Nat]
    BY <1>1 DEF Counts
  <2>3. f \in Counts /\ \A v \in Legacy : f[v] <= info[h][v]
    BY <1>1, <2>2 DEF Counts, Legacy
  <2>4. pc[t] \in Loops /\ hc' \in [Tasks -> SUBSET Hosts]
    BY <1>1, <1>4, <2>1 DEF RemoveOne, Loops
  <2>5. Change(t, h, f, w)
    BY <2>1
  <2> HIDE DEF f
  <2>6. /\ w \in {"set", "delete"}
        /\ w = "delete" => \A v \in Legacy : f[v] = 0
    BY DEF NoCounts, Legacy
  <2> HIDE DEF w
  <2> QED
    BY <2>2, <2>3, <2>4, <2>5, <2>6, ChangeStep
<1>5. CASE PruneOne(t)
  <2>1. PICK h \in hc[t] :
          LET f == [v \in Vers |-> IF v = Exp THEN info[h][v] ELSE 0] IN
          /\ Change(t, h, f, IF f = NoCounts THEN "delete" ELSE "set")
          /\ hc' = [hc EXCEPT ![t] = @ \ {h}]
    BY <1>5 DEF PruneOne
  <2> DEFINE f == [v \in Vers |-> IF v = Exp THEN info[h][v] ELSE 0]
             w == IF f = NoCounts THEN "delete" ELSE "set"
  <2>2. h \in Hosts
    BY <1>1
  <2>3. f \in Counts /\ \A v \in Legacy : f[v] <= info[h][v]
    BY <1>1, <2>2 DEF Counts, Legacy
  <2>4. pc[t] \in Loops /\ hc' \in [Tasks -> SUBSET Hosts]
    BY <1>1, <1>5, <2>1 DEF PruneOne, Loops
  <2>5. Change(t, h, f, w)
    BY <2>1
  <2> HIDE DEF f
  <2>6. /\ w \in {"set", "delete"}
        /\ w = "delete" => \A v \in Legacy : f[v] = 0
    BY DEF NoCounts, Legacy
  <2> HIDE DEF w
  <2> QED
    BY <2>2, <2>3, <2>4, <2>5, <2>6, ChangeStep
<1> QED
  BY <1>2, <1>3, <1>4, <1>5

---------------------------------------------------------------------------
(* The step that writes. *)

\* What is written of a host is its map as it is now, or its deletion.
LEMMA SaveDesired ==
  ASSUME IInv, NEW t \in Tasks, Save(t)
  PROVE  /\ stored' \in [Hosts -> Counts \cup {None}]
         /\ \A h \in Hosts :
              \/ Desired'[h] = Desired[h]
              \/ Desired'[h] = info[h]
              \/ Desired'[h] = NoCounts /\ \A v \in Legacy : info[h][v] = 0
<1> USE VersAssumption
<1> DEFINE g == host[t]
<1>1. /\ g \in Hosts /\ stored \in [Hosts -> Counts \cup {None}]
      /\ info \in [Hosts -> Counts] /\ None \notin Counts
      /\ save[t] \in {"set", "delete"}
  BY DEF IInv, ConfigTypeOK
<1>2. \/ stored' = stored
      \/ stored' = [stored EXCEPT ![g] = info[g]]
      \/ save[t] = "delete" /\ stored' = [stored EXCEPT ![g] = None]
  <2>1. PICK failed \in BOOLEAN : Write(t, failed)
    BY DEF Save
  <2>2. CASE save[t] = "set"
    BY <2>1, <2>2 DEF Write
  <2>3. CASE save[t] = "delete"
    BY <2>1, <2>3 DEF Write
  <2> QED
    BY <1>1, <2>2, <2>3
<1>3. CASE stored' = stored
  BY <1>1, <1>3 DEF Desired
<1>4. CASE stored' = [stored EXCEPT ![g] = info[g]]
  <2>1. stored' \in [Hosts -> Counts \cup {None}]
    BY <1>1, <1>4
  <2>2. \A h \in Hosts : h # g => Desired'[h] = Desired[h]
    BY <1>1, <1>4 DEF Desired
  <2>3. Desired'[g] = info[g]
    BY <1>1, <1>4 DEF Desired
  <2>4. \A h \in Hosts : h = g => Desired'[h] = info[h]
    BY <2>3
  <2> QED
    BY <2>1, <2>2, <2>4
<1>5. CASE save[t] = "delete" /\ stored' = [stored EXCEPT ![g] = None]
  <2>1. stored' \in [Hosts -> Counts \cup {None}]
    BY <1>1, <1>5
  <2>2. \A h \in Hosts : h # g => Desired'[h] = Desired[h]
    BY <1>1, <1>5 DEF Desired
  <2>3. Desired'[g] = NoCounts
    BY <1>1, <1>5 DEF Desired
  <2>4. \A v \in Legacy : info[g][v] = 0
    BY <1>5 DEF Save, IInv, NoneReturns
  <2>5. \A h \in Hosts : h = g =>
          Desired'[h] = NoCounts /\ \A v \in Legacy : info[h][v] = 0
    BY <2>3, <2>4
  <2> QED
    BY <2>1, <2>2, <2>5
<1> QED
  BY <1>2, <1>3, <1>4, <1>5

\* ... which is never more of an old version than the host was told to run.
LEMMA SaveStep ==
  ASSUME IInv, NEW t \in Tasks, Save(t)
  PROVE  /\ IInv'
         /\ \A h \in Hosts, v \in Legacy : Desired'[h][v] <= Desired[h][v]
<1> USE DEF IInv
<1>1. UNCHANGED <<info, hc, host, save>> /\ pc[t] = "save"
  BY DEF Save
<1>2. ConfigTypeOK'
  <2>1. cached' \subseteq Hosts
    <3>1. PICK failed \in BOOLEAN : Write(t, failed)
      BY DEF Save
    <3>2. host[t] \in Hosts /\ save[t] \in {"set", "delete"}
          /\ cached \subseteq Hosts
      BY DEF ConfigTypeOK
    <3>3. CASE save[t] = "set"
      BY <3>1, <3>2, <3>3 DEF Write
    <3>4. CASE save[t] = "delete"
      BY <3>1, <3>2, <3>4 DEF Write
    <3> QED
      BY <3>2, <3>3, <3>4
  <2> QED
    BY <1>1, <2>1, SaveDesired DEF ConfigTypeOK
<1>3. PlaceOK' /\ \A x \in Tasks : pc'[x] = "save" => pc[x] = "save"
  <2>1. Head(plan[t]).op \in Loops
    BY <1>1 DEF PlaceOK
  <2>2. \/ /\ pc' = [pc EXCEPT ![t] = "next"]
           /\ \E q : plan' = [plan EXCEPT ![t] = q]
        \/ /\ pc' = [pc EXCEPT ![t] =
                       IF Head(plan[t]).op \in {"update", "remove"}
                       THEN "pause" ELSE Head(plan[t]).op]
           /\ plan' = plan
    BY DEF Save
  <2> QED
    BY <2>1, <2>2 DEF PlaceOK, Loops
<1>4. \A h \in Hosts, v \in Legacy :
        /\ info[h][v] \in Nat /\ Desired[h][v] \in Nat
        /\ info[h][v] <= Desired[h][v] /\ NoCounts[v] = 0
  BY DesiredType DEF ConfigTypeOK, Counts, Legacy, NoneReturns, NoCounts
<1>5. \A h \in Hosts, v \in Legacy :
        /\ info[h][v] <= Desired'[h][v]
        /\ Desired'[h][v] <= Desired[h][v]
  <2> SUFFICES ASSUME NEW h \in Hosts, NEW v \in Legacy
               PROVE  /\ info[h][v] <= Desired'[h][v]
                      /\ Desired'[h][v] <= Desired[h][v]
    OBVIOUS
  <2>1. \/ Desired'[h] = Desired[h]
        \/ Desired'[h] = info[h]
        \/ Desired'[h] = NoCounts /\ info[h][v] = 0
    BY SaveDesired
  <2> QED
    BY <1>4, <2>1
<1>6. NoneReturns'
  BY <1>1, <1>3, <1>5 DEF NoneReturns
<1> QED
  BY <1>2, <1>3, <1>5, <1>6

---------------------------------------------------------------------------
(* The invariant, and what follows from it. *)

\* Every step preserves the invariant, and tells no host to run more of an old
\* version.
LEMMA NextStep ==
  ASSUME IInv, [Next]_vars
  PROVE  /\ IInv'
         /\ \A h \in Hosts, v \in Legacy : Desired'[h][v] <= Desired[h][v]
<1>1. ASSUME IInv' /\ Desired' = Desired
      PROVE  /\ IInv'
             /\ \A h \in Hosts, v \in Legacy : Desired'[h][v] <= Desired[h][v]
  <2>1. \A h \in Hosts, v \in Legacy : Desired[h][v] \in Nat
    BY DesiredType DEF IInv, Legacy
  <2> QED
    BY <1>1, <2>1
<1>2. CASE UNCHANGED vars
  <2>1. UNCHANGED <<info, cached, stored, host, save, hc, pc, plan>>
    BY <1>2 DEF vars
  <2>2. IInv' /\ Desired' = Desired
    BY <2>1, QuietStep DEF IInv, ConfigTypeOK, PlaceOK
  <2> QED
    BY <1>1, <2>2
<1>3. ASSUME NEW t \in Tasks, Work(t) \/ AddOne(t) \/ NoHost(t)
      PROVE  /\ IInv'
             /\ \A h \in Hosts, v \in Legacy : Desired'[h][v] <= Desired[h][v]
  BY <1>1, <1>3, SaveStep, LoopStep, QuietBegin, QuietLoop, QuietCall DEF Work
<1>4. ASSUME NEW t \in Callers, Call(t)
      PROVE  IInv' /\ Desired' = Desired
  BY <1>4, QuietCall DEF Call, Tasks
<1>5. ASSUME NEW t \in TimerTasks, Fire(t)
      PROVE  IInv' /\ Desired' = Desired
  BY <1>5, QuietCall DEF Tasks
<1>6. CASE ResetLease
  <2>1. UNCHANGED <<info, cached, stored, host, save, hc, pc, plan>>
    BY <1>6 DEF ResetLease, cfgVars
  <2>2. IInv' /\ Desired' = Desired
    BY <2>1, QuietStep DEF IInv, ConfigTypeOK, PlaceOK
  <2> QED
    BY <1>1, <2>2
<1> QED
  BY <1>1, <1>2, <1>3, <1>4, <1>5, <1>6 DEF Next

\* A controller starts with the maps that etcd holds.
LEMMA InitStep ==
  ASSUME Init
  PROVE  IInv
<1>1. /\ info \in [Hosts -> Counts]
      /\ stored = [h \in Hosts |-> IF IsEmpty(h) THEN None ELSE info[h]]
      /\ cached \subseteq Hosts
  BY InitAssumption DEF Init
<1>2. (CHOOSE h \in Hosts : TRUE) \in Hosts
  BY VersAssumption
<1>3. ConfigTypeOK
  BY <1>1, <1>2 DEF Init, ConfigTypeOK
<1>4. PlaceOK /\ \A t \in Tasks : pc[t] = "idle"
  BY DEF Init, PlaceOK, Loops
<1>5. \A h \in Hosts : Desired[h] = info[h]
  BY <1>1, VersAssumption DEF Desired, IsEmpty
<1>6. \A h \in Hosts, v \in Legacy : info[h][v] \in Nat
  BY <1>1 DEF Counts, Legacy
<1>7. NoneReturns
  BY <1>4, <1>5, <1>6 DEF NoneReturns
<1> QED
  BY <1>3, <1>4, <1>7 DEF IInv

\* Every reachable state satisfies the invariant.
LEMMA Invariant == Spec => []IInv
<1>1. Init => IInv
  BY InitStep
<1>2. IInv /\ [Next]_vars => IInv'
  BY NextStep
<1> QED
  BY <1>1, <1>2, PTL DEF Spec

\* The configurations have their types, for any hosts, versions and callers.
THEOREM ConfigTyped == Spec => []ConfigTypeOK
<1>1. IInv => ConfigTypeOK
  BY DEF IInv
<1> QED
  BY <1>1, Invariant, PTL

\* For any hosts, versions, callers and timers, and whatever writes fail, no
\* host is ever told to start an old version again.
THEOREM OldGoneForGood == Spec => OldNeverReturns
<1>1. IInv /\ [Next]_vars =>
        [\A h \in Hosts, v \in Legacy : Desired'[h][v] <= Desired[h][v]]_vars
  BY NextStep
<1> QED
  BY <1>1, Invariant, PTL DEF Spec, OldNeverReturns
---------------------------------------------------------------------------
(* Cache and etcd. *)

\* While no write has failed the cache lists the hosts that have something in etcd,
\* and a map differs from what etcd has only as long as somebody is about to write
\* it.
Agree ==
  /\ fails \in Nat /\ DOMAIN pc = Tasks
  /\ fails = 0 => cached = {h \in Hosts : stored[h] # None}
  /\ fails = 0 /\ ~Crashed =>
       \A h \in cached : \/ \E t \in Tasks : pc[t] = "save" /\ host[t] = h
                         \/ stored[h] = info[h]

\* A step of goroutine t, which is not about to write, that writes nothing.
LEMMA AgreeQuiet ==
  ASSUME Agree, NEW t \in Tasks, pc[t] \notin {"save", "dead"}, NEW p,
         pc' = [pc EXCEPT ![t] = p],
         UNCHANGED <<info, cached, stored, host, fails>>
  PROVE  Agree'
<1>1. \A x \in Tasks : pc[x] \in {"save", "dead"} => pc'[x] = pc[x]
  BY DEF Agree
<1> QED
  BY <1>1 DEF Agree, Crashed

\* A step in which no goroutine moves.
LEMMA AgreeStill ==
  ASSUME Agree, UNCHANGED <<info, cached, stored, host, fails, pc>>
  PROVE  Agree'
BY DEF Agree, Crashed

\* The steps of a goroutine that write nothing and change no map.
LEMMA AgreeWork ==
  ASSUME Agree, NEW t \in Tasks,
         \/ Begin(t) \/ Arm(t) \/ Return(t) \/ Clear(t) \/ RemoveGone(t) \/ RemoveList(t)
         \/ Skip(t) \/ EndLoop(t) \/ Resume(t) \/ GiveUp(t) \/ NoHost(t)
  PROVE  Agree'
<1> USE DEF cfgVars, envVars
<1>1. CASE RemoveList(t) \/ Skip(t) \/ NoHost(t)
  BY <1>1, AgreeStill DEF RemoveList, Skip, NoHost
<1>2. ASSUME NEW e, EndCall(t, e), pc[t] \notin {"save", "dead"}
      PROVE  Agree'
  BY <1>2, AgreeQuiet DEF EndCall
<1>3. CASE EndLoop(t) \/ GiveUp(t)
  BY <1>2, <1>3 DEF EndLoop, GiveUp
<1>4. CASE RemoveGone(t)
  <2>1. pc[t] \notin {"save", "dead"}
    BY <1>4 DEF RemoveGone
  <2>2. CASE EndCall(t, FALSE)
    BY <1>2, <2>1, <2>2
  <2>3. CASE ~EndCall(t, FALSE)
    <3>1. /\ pc' = [pc EXCEPT ![t] = "pause"]
          /\ UNCHANGED <<info, cached, stored, host, fails>>
      BY <1>4, <2>3 DEF RemoveGone
    <3> QED
      BY <2>1, <3>1, AgreeQuiet
  <2> QED
    BY <2>2, <2>3
<1>5. CASE Begin(t)
  <2>1. /\ pc' = [pc EXCEPT ![t] = Head(plan[t]).op]
        /\ pc[t] \notin {"save", "dead"}
        /\ UNCHANGED <<info, cached, stored, host, fails>>
    BY <1>5 DEF Begin, Starting
  <2> QED
    BY <2>1, AgreeQuiet
<1>6. CASE Arm(t)
  <2>1. /\ pc' = [pc EXCEPT ![t] = "next"]
        /\ pc[t] \notin {"save", "dead"}
        /\ UNCHANGED <<info, cached, stored, host, fails>>
    BY <1>6 DEF Arm, Starting
  <2> QED
    BY <2>1, AgreeQuiet
<1>7. CASE Return(t)
  <2>1. /\ \E p : pc' = [pc EXCEPT ![t] = p]
        /\ pc[t] \notin {"save", "dead"}
        /\ UNCHANGED <<info, cached, stored, host, fails>>
    BY <1>7 DEF Return, Starting
  <2> QED
    BY <2>1, AgreeQuiet
<1>8. CASE Clear(t) \/ Resume(t)
  <2>1. /\ \E p : pc' = [pc EXCEPT ![t] = p]
        /\ pc[t] \notin {"save", "dead"}
        /\ UNCHANGED <<info, cached, stored, host, fails>>
    BY <1>8 DEF Clear, Resume
  <2> QED
    BY <2>1, AgreeQuiet
<1> QED
  BY <1>1, <1>3, <1>4, <1>5, <1>6, <1>7, <1>8

\* Calls and timers.
LEMMA AgreeCall ==
  ASSUME Agree, NEW t \in Tasks,
         \/ \E p \in Policies, n \in Nums : Deploy(t, p, n)
         \/ CheckStatus(t) \/ Destroy(t) \/ Again(t) \/ Cancel(t) \/ Fire(t) \/ ResetLease
  PROVE  Agree'
<1> USE DEF cfgVars, envVars
<1>1. CASE Cancel(t) \/ ResetLease
  BY <1>1, AgreeStill DEF Cancel, ResetLease
<1>2. CASE ~(Cancel(t) \/ ResetLease)
  <2>1. /\ \E p : pc' = [pc EXCEPT ![t] = p]
        /\ pc[t] \notin {"save", "dead"}
        /\ UNCHANGED <<info, cached, stored, host, fails>>
    BY <1>2 DEF Deploy, CheckStatus, Destroy, Again, Fire
  <2> QED
    BY <2>1, AgreeQuiet
<1> QED
  BY <1>1, <1>2

\* A map that is changed is about to be written.
LEMMA AgreeChange ==
  ASSUME Agree, ConfigTypeOK, NEW t \in Tasks, NEW h \in Hosts, NEW f, NEW w,
         Change(t, h, f, w), pc[t] \notin {"save", "dead"}
  PROVE  Agree'
<1>1. /\ info' = [info EXCEPT ![h] = f] /\ host' = [host EXCEPT ![t] = h]
      /\ pc' = [pc EXCEPT ![t] = "save"] /\ UNCHANGED <<cached, stored, fails>>
  BY DEF Change, envVars
<1>2. \A x \in Tasks : pc[x] \in {"save", "dead"} => pc'[x] = pc[x] /\ host'[x] = host[x]
  BY <1>1 DEF Agree, ConfigTypeOK
<1>3. pc'[t] = "save" /\ host'[t] = h
  BY <1>1 DEF Agree, ConfigTypeOK
<1>4. \A g \in Hosts \ {h} : info'[g] = info[g]
  BY <1>1 DEF ConfigTypeOK
<1>5. ~Crashed' => ~Crashed
  BY <1>2 DEF Crashed
<1>6. ASSUME fails' = 0, ~Crashed', NEW g \in cached'
      PROVE  \/ \E x \in Tasks : pc'[x] = "save" /\ host'[x] = g
             \/ stored'[g] = info'[g]
  <2>1. CASE g = h
    BY <1>3, <2>1
  <2>2. CASE g # h
    <3>1. \/ \E x \in Tasks : pc[x] = "save" /\ host[x] = g
          \/ stored[g] = info[g]
      BY <1>1, <1>5, <1>6 DEF Agree
    <3>2. g \in Hosts
      BY <1>1, <1>6 DEF ConfigTypeOK
    <3> QED
      BY <1>1, <1>2, <1>4, <2>2, <3>1, <3>2
  <2> QED
    BY <2>1, <2>2
<1> QED
  BY <1>1, <1>6 DEF Agree

\* The steps that change a map, and the panic of the first.
LEMMA AgreeLoop ==
  ASSUME Agree, ConfigTypeOK, NEW t \in Tasks,
         AddOne(t) \/ UpdateOne(t) \/ RemoveOne(t) \/ PruneOne(t)
  PROVE  Agree'
<1>1. pc[t] \notin {"save", "dead"}
  BY DEF AddOne, UpdateOne, RemoveOne, PruneOne
<1>2. CASE \E h \in Hosts : \E f, w : Change(t, h, f, w)
  BY <1>1, <1>2, AgreeChange
<1>3. CASE ~\E h \in Hosts : \E f, w : Change(t, h, f, w)
  <2>1. Offered \subseteq Hosts /\ \A x \in Tasks : hc[x] \subseteq Hosts
    BY NumsAssumption DEF ConfigTypeOK
  <2>2. /\ pc' = [x \in Tasks |-> "dead"]
        /\ UNCHANGED <<cached, stored, fails>>
    BY <1>3, <2>1 DEF AddOne, UpdateOne, RemoveOne, PruneOne, cfgVars, envVars
  <2>3. Crashed'
    BY <2>2 DEF Crashed
  <2> QED
    BY <2>2, <2>3 DEF Agree
<1> QED
  BY <1>2, <1>3

\* A write that etcd takes in makes cache and etcd agree on its host.
LEMMA AgreeSave ==
  ASSUME Agree, ConfigTypeOK, ConfigTypeOK', NEW t \in Tasks, Save(t)
  PROVE  Agree'
<1> USE VersAssumption
<1> DEFINE g == host[t]
<1>1. UNCHANGED <<info, host, save>> /\ pc[t] = "save" /\ g \in Hosts
  BY DEF Save, ConfigTypeOK
<1>2. PICK failed \in BOOLEAN :
        /\ Write(t, failed)
        /\ fails' = IF failed /\ ~Missing(t) THEN fails + 1 ELSE fails
  BY DEF Save
<1>3. \E p : pc' = [pc EXCEPT ![t] = p]
  BY DEF Save
<1>4. \A x \in Tasks \ {t} : pc'[x] = pc[x]
  BY <1>3 DEF Agree
<1>5. fails' \in Nat /\ DOMAIN pc' = Tasks
  BY <1>2, <1>3 DEF Agree
<1>6. CASE failed /\ ~Missing(t)
  BY <1>2, <1>5, <1>6 DEF Agree
<1>7. CASE ~failed \/ Missing(t)
  <2>1. \/ /\ cached' = cached \cup {g}
           /\ stored' = [stored EXCEPT ![g] = info[g]]
        \/ /\ cached = {} /\ UNCHANGED <<cached, stored>>
        \/ /\ cached' = cached \ {g}
           /\ stored' = [stored EXCEPT ![g] = None]
    <3>1. CASE Missing(t)
      BY <1>2, <3>1 DEF Write, Missing, ConfigTypeOK
    <3>2. CASE ~failed
      BY <1>2, <3>2 DEF Write, ConfigTypeOK
    <3> QED
      BY <1>7, <3>1, <3>2
  <2>2. info[g] # None
    BY <1>1 DEF ConfigTypeOK
  <2>3. fails' = fails
    BY <1>2, <1>7
  <2>4. fails = 0 => cached' = {h \in Hosts : stored'[h] # None}
    BY <1>1, <2>1, <2>2 DEF Agree, ConfigTypeOK
  <2>5. ~Crashed' => ~Crashed
    BY <1>1, <1>4 DEF Crashed
  <2>6. ASSUME fails = 0, ~Crashed', NEW h \in cached'
        PROVE  \/ \E x \in Tasks : pc'[x] = "save" /\ host'[x] = h
               \/ stored'[h] = info'[h]
    <3>1. CASE h = g
      BY <1>1, <2>1, <3>1 DEF ConfigTypeOK
    <3>2. CASE h # g
      <4>1. h \in cached /\ stored'[h] = stored[h]
        BY <2>1, <2>6, <3>2 DEF ConfigTypeOK
      <4>2. \/ \E x \in Tasks : pc[x] = "save" /\ host[x] = h
            \/ stored[h] = info[h]
        BY <2>5, <2>6, <4>1 DEF Agree
      <4> QED
        BY <1>1, <1>4, <3>2, <4>1, <4>2
    <3> QED
      BY <3>1, <3>2
  <2> QED
    BY <1>5, <2>3, <2>4, <2>6 DEF Agree
<1> QED
  BY <1>6, <1>7

\* Every reachable state satisfies Agree.
LEMMA AgreeInvariant == Spec => []Agree
<1>1. Init => Agree
  BY VersAssumption, InitAssumption DEF Init, Agree, Crashed, Tasks, NoCounts
<1>2. Agree /\ ConfigTypeOK /\ ConfigTypeOK' /\ [Next]_vars => Agree'
  <2> SUFFICES ASSUME Agree, ConfigTypeOK, ConfigTypeOK', [Next]_vars
               PROVE  Agree'
    OBVIOUS
  <2>1. CASE UNCHANGED vars
    BY <2>1, AgreeStill DEF vars
  <2>2. ASSUME NEW t \in Tasks, Work(t) \/ AddOne(t) \/ NoHost(t)
        PROVE  Agree'
    BY <2>2, AgreeWork, AgreeLoop, AgreeSave DEF Work
  <2>3. ASSUME NEW t \in Callers, Call(t)
        PROVE  Agree'
    BY <2>3, AgreeCall DEF Call, Tasks
  <2>4. ASSUME NEW t \in TimerTasks, Fire(t)
        PROVE  Agree'
    BY <2>4, AgreeCall DEF Tasks
  <2>5. CASE ResetLease
    BY <2>5, AgreeStill DEF ResetLease, cfgVars
  <2> QED
    BY <2>1, <2>2, <2>3, <2>4, <2>5 DEF Next
<1> QED
  BY <1>1, <1>2, ConfigTyped, PTL DEF Spec

\* For any hosts, callers and timers: as long as etcd took every write, cache and etcd
\* agree on every host that nobody is about to write.
THEOREM CacheAndEtcdAgree == Spec => []CacheAgrees
<1>1. Agree /\ ConfigTypeOK => CacheAgrees
  BY DEF Agree, ConfigTypeOK, CacheAgrees
<1> QED
  BY <1>1, AgreeInvariant, ConfigTyped, PTL

---------------------------------------------------------------------------
(* One rolling update that runs alone, of any number of hosts, old versions  *)
(* and instances.  It goes through phases: what is missing is added, then    *)
(* legacy instances are replaced, then those that are left are pruned; each  *)
(* phase says what is counted at its beginning, within its loop, between the *)
(* change of a map and its write to etcd, and at its end.  The counts are    *)
(* sums over the hosts, about which there are lemmas first.                  *)
---------------------------------------------------------------------------
(* Sums over finite sets. *)

\* A collection of subsets of S that has a set whenever it has all smaller
\* ones has them all.
LEMMA SubsetInduction ==
  ASSUME NEW S, IsFiniteSet(S), NEW G,
         \A T \in SUBSET S : (\A u \in SUBSET T : u # T => u \in G) => T \in G
  PROVE  \A T \in SUBSET S : T \in G
<1> DEFINE R == StrictSubsetOrdering(S)
           Bad == (SUBSET S) \ G
<1> SUFFICES ASSUME Bad # {}
             PROVE  FALSE
  OBVIOUS
<1>1. IsWellFoundedOn(R, SUBSET S)
  <2>1. FiniteSubsetsOf(S) = SUBSET S
    BY FS_FiniteSubsetsOfFinite
  <2>2. IsWellFoundedOn(StrictSubsetOrdering(S), FiniteSubsetsOf(S))
    BY FS_StrictSubsetOrderingWellFounded
  <2> QED
    BY ONLY <2>1, <2>2
<1>2. \A T, u \in SUBSET S : <<u, T>> \in R <=> u \subseteq T /\ u # T
  BY DEF StrictSubsetOrdering
<1> HIDE DEF R
<1>3. PICK T \in Bad : \A u \in Bad : ~(<<u, T>> \in R)
  <2>1. Bad \subseteq SUBSET S
    OBVIOUS
  <2> HIDE DEF Bad
  <2> QED
    BY <1>1, <2>1, WFMin
<1>4. \A u \in SUBSET T : u # T => u \in G
  BY <1>2, <1>3
<1> QED
  BY <1>3, <1>4

\* How the library adds up g over the subsets of S.
Some(s) == CHOOSE x \in s : TRUE
Adds(it, g, S) ==
  it = [s \in SUBSET S |-> IF s = {} THEN 0
                           ELSE g[CHOOSE x \in s : TRUE] + it[s \ {CHOOSE x \in s : TRUE}]]
SumOf(g, S) == (CHOOSE it : Adds(it, g, S))[S]

LEMMA AddsDef ==
  ASSUME NEW S, NEW g, NEW it, Adds(it, g, S)
  PROVE  /\ it[{}] = 0
         /\ \A s \in SUBSET S : s # {} => it[s] = g[Some(s)] + it[s \ {Some(s)}]
BY DEF Adds, Some

LEMMA AddsIntro ==
  ASSUME NEW S, NEW g, NEW it, it = [s \in SUBSET S |-> it[s]],
         it[{}] = 0,
         \A s \in SUBSET S : s # {} => it[s] = g[Some(s)] + it[s \ {Some(s)}]
  PROVE  Adds(it, g, S)
BY Zenon DEF Adds, Some

LEMMA SomeIn == \A s : s # {} => Some(s) \in s
BY DEF Some

LEMMA ExpIsSum ==
  ASSUME NEW D, NEW S \in SUBSET D, NEW f
  PROVE  NumExp(f, S) = SumOf([h \in D |-> f[h][Exp]], S)
BY Zenon DEF NumExp, MapThenSumSet, MapThenFoldSet, SumOf, Adds

LEMMA LegacyIsSum ==
  ASSUME NEW c
  PROVE  MapThenSumSet(LAMBDA v : c[v], Legacy) = SumOf(c, Legacy)
BY Zenon DEF MapThenSumSet, MapThenFoldSet, SumOf, Adds

LEMMA UnexpIsSum ==
  ASSUME NEW D, NEW S \in SUBSET D, NEW f
  PROVE  NumUnexp(f, S) = SumOf([h \in D |-> SumOf(f[h], Legacy)], S)
<1> DEFINE L(h) == MapThenSumSet(LAMBDA v : f[h][v], Legacy)
<1>1. NumUnexp(f, S) = MapThenSumSet(L, S)
  BY Zenon DEF NumUnexp
<1>2. \A h : L(h) = SumOf(f[h], Legacy)
  BY LegacyIsSum
<1> HIDE DEF L
<1>3. MapThenSumSet(L, S) = SumOf([h \in D |-> L(h)], S)
  BY Zenon DEF MapThenSumSet, MapThenFoldSet, SumOf, Adds
<1> QED
  BY <1>1, <1>2, <1>3

\* Whatever adds up over the subsets of two sets that have T agrees on T.
LEMMA AddsAgree ==
  ASSUME NEW S, IsFiniteSet(S), NEW g
  PROVE  \A T \in SUBSET S : \A A, B, i, j :
           T \subseteq A /\ T \subseteq B /\ Adds(i, g, A) /\ Adds(j, g, B) => i[T] = j[T]
<1> DEFINE Agrees(T) == \A A, B, i, j :
             T \subseteq A /\ T \subseteq B /\ Adds(i, g, A) /\ Adds(j, g, B) => i[T] = j[T]
           G == {T \in SUBSET S : Agrees(T)}
<1>1. ASSUME NEW T \in SUBSET S, \A u \in SUBSET T : u # T => u \in G
      PROVE  T \in G
  <2> SUFFICES ASSUME NEW A, NEW B, NEW i, NEW j,
                      T \subseteq A, T \subseteq B, Adds(i, g, A), Adds(j, g, B)
               PROVE  i[T] = j[T]
    OBVIOUS
  <2>1. CASE T = {}
    BY <2>1, AddsDef
  <2>2. CASE T # {}
    <3> DEFINE u == T \ {Some(T)}
    <3>1. u \in SUBSET T /\ u # T
      BY <2>2, SomeIn
    <3>2. i[u] = j[u]
      BY <1>1, <3>1
    <3>3. i[T] = g[Some(T)] + i[u]
      BY <2>2, AddsDef
    <3>4. j[T] = g[Some(T)] + j[u]
      BY <2>2, AddsDef
    <3> QED
      BY <3>2, <3>3, <3>4
  <2> QED
    BY <2>1, <2>2
<1> HIDE DEF G
<1>2. \A T \in SUBSET S : T \in G
  BY <1>1, SubsetInduction
<1> QED
  BY <1>2 DEF G

\* There is always something that does.
LEMMA AddsExists ==
  ASSUME NEW S, IsFiniteSet(S), NEW g
  PROVE  \A T \in SUBSET S : \E it : Adds(it, g, T)
<1> DEFINE G == {T \in SUBSET S : \E it : Adds(it, g, T)}
<1>1. ASSUME NEW T \in SUBSET S, \A u \in SUBSET T : u # T => u \in G
      PROVE  T \in G
  <2> DEFINE For(u) == CHOOSE it : Adds(it, g, u)
             c == Some(T)
             it == [s \in SUBSET T |-> IF s # T THEN For(s)[s]
                                      ELSE IF T = {} THEN 0
                                      ELSE g[c] + For(T \ {c})[T \ {c}]]
  <2>1. \A u \in SUBSET T : u # T => Adds(For(u), g, u)
    BY <1>1
  <2> HIDE DEF For
  <2>2. it[{}] = 0
    <3>1. T # {} => For({})[{}] = 0
      BY <2>1, AddsDef
    <3> QED
      BY <3>1
  <2>3. ASSUME NEW s \in SUBSET T, s # {}
        PROVE  it[s] = g[Some(s)] + it[s \ {Some(s)}]
    <3> DEFINE u == s \ {Some(s)}
    <3>1. u \in SUBSET T /\ u # T /\ u \subseteq s /\ Some(s) \in s
      BY <2>3, SomeIn
    <3>2. it[u] = For(u)[u]
      BY <3>1
    <3>3. CASE s = T
      BY <2>3, <3>2, <3>3
    <3>4. CASE s # T
      <4>1. Adds(For(s), g, s) /\ Adds(For(u), g, u)
        BY <2>1, <3>1, <3>4
      <4>2. For(s)[s] = g[Some(s)] + For(s)[u]
        BY <2>3, <4>1, AddsDef
      <4>3. For(s)[u] = For(u)[u]
        BY <3>1, <4>1, AddsAgree
      <4> QED
        BY <3>2, <3>4, <4>2, <4>3
    <3> QED
      BY <3>3, <3>4
  <2>4. it = [s \in SUBSET T |-> it[s]]
    OBVIOUS
  <2> HIDE DEF it
  <2>5. Adds(it, g, T)
    BY <2>2, <2>3, <2>4, AddsIntro
  <2> QED
    BY <2>5
<1> HIDE DEF G
<1>2. \A T \in SUBSET S : T \in G
  BY <1>1, SubsetInduction
<1> QED
  BY <1>2 DEF G

\* The sum over a set is that over the rest and what was left out.
LEMMA SumStep ==
  ASSUME NEW S, IsFiniteSet(S), NEW g
  PROVE  /\ SumOf(g, {}) = 0
         /\ S # {} => SumOf(g, S) = g[Some(S)] + SumOf(g, S \ {Some(S)})
<1> DEFINE For(u) == CHOOSE it : Adds(it, g, u)
<1>1. \A u \in SUBSET S : Adds(For(u), g, u)
  BY AddsExists
<1>2. \A u : SumOf(g, u) = For(u)[u]
  BY DEF SumOf
<1> HIDE DEF For
<1>3. SumOf(g, {}) = 0
  BY <1>1, <1>2, AddsDef
<1>4. ASSUME S # {}
      PROVE  SumOf(g, S) = g[Some(S)] + SumOf(g, S \ {Some(S)})
  <2> DEFINE u == S \ {Some(S)}
  <2>1. For(S)[S] = g[Some(S)] + For(S)[u]
    BY <1>1, <1>4, AddsDef
  <2>2. For(S)[u] = For(u)[u]
    BY <1>1, AddsAgree
  <2> QED
    BY <1>2, <2>1, <2>2
<1> QED
  BY <1>3, <1>4

LEMMA SumType ==
  ASSUME NEW S, IsFiniteSet(S), NEW g, \A x \in S : g[x] \in Nat
  PROVE  \A T \in SUBSET S : SumOf(g, T) \in Nat
<1> DEFINE G == {T \in SUBSET S : SumOf(g, T) \in Nat}
<1>1. ASSUME NEW T \in SUBSET S, \A u \in SUBSET T : u # T => u \in G
      PROVE  T \in G
  <2>1. IsFiniteSet(T)
    BY FS_Subset
  <2>2. CASE T = {}
    <3>1. SumOf(g, T) = 0
      BY <2>1, <2>2, SumStep
    <3> QED
      BY <3>1
  <2>3. CASE T # {}
    <3>1. Some(T) \in T
      BY <2>3, SomeIn
    <3>2. SumOf(g, T \ {Some(T)}) \in Nat
      BY <1>1, <3>1
    <3>3. SumOf(g, T) = g[Some(T)] + SumOf(g, T \ {Some(T)})
      BY <2>1, <2>3, SumStep
    <3>4. SumOf(g, T) \in Nat
      BY <3>1, <3>2, <3>3
    <3> QED
      BY <3>4
  <2> QED
    BY <2>2, <2>3
<1> HIDE DEF G
<1>2. \A T \in SUBSET S : T \in G
  BY <1>1, SubsetInduction
<1> QED
  BY <1>2 DEF G

\* Any element may be left out first.
LEMMA SumRemove ==
  ASSUME NEW S, IsFiniteSet(S), NEW g, \A x \in S : g[x] \in Nat, NEW x \in S
  PROVE  SumOf(g, S) = g[x] + SumOf(g, S \ {x})
<1> DEFINE G == {T \in SUBSET S : \A y \in T : SumOf(g, T) = g[y] + SumOf(g, T \ {y})}
<1>1. ASSUME NEW T \in SUBSET S, \A u \in SUBSET T : u # T => u \in G
      PROVE  T \in G
  <2> SUFFICES ASSUME NEW y \in T
               PROVE  SumOf(g, T) = g[y] + SumOf(g, T \ {y})
    OBVIOUS
  <2> DEFINE c == Some(T)
             rest == (T \ {c}) \ {y}
  <2>1. IsFiniteSet(T) /\ c \in T
    BY FS_Subset, SomeIn
  <2>2. SumOf(g, T) = g[c] + SumOf(g, T \ {c})
    BY <2>1, SumStep
  <2>3. CASE c = y
    BY <2>2, <2>3
  <2>4. CASE c # y
    <3>1. T \ {c} \in G /\ T \ {y} \in G /\ y \in T \ {c} /\ c \in T \ {y}
      BY <1>1, <2>1, <2>4
    <3>2. SumOf(g, T \ {c}) = g[y] + SumOf(g, rest)
      BY <3>1
    <3>3. SumOf(g, T \ {y}) = g[c] + SumOf(g, (T \ {y}) \ {c})
      BY <3>1
    <3>4. (T \ {y}) \ {c} = rest
      OBVIOUS
    <3>5. g[c] \in Nat /\ g[y] \in Nat /\ SumOf(g, rest) \in Nat
      BY <2>1, SumType
    <3> HIDE DEF rest, c
    <3> QED
      BY <2>2, <3>2, <3>3, <3>4, <3>5
  <2> QED
    BY <2>3, <2>4
<1> HIDE DEF G
<1>2. S \in G
  BY <1>1, SubsetInduction
<1> QED
  BY <1>2 DEF G

\* What is nowhere less adds up to no less.
LEMMA SumAtMost ==
  ASSUME NEW S, IsFiniteSet(S), NEW f, NEW g,
         \A x \in S : f[x] \in Nat /\ g[x] \in Nat /\ f[x] <= g[x]
  PROVE  SumOf(f, S) <= SumOf(g, S)
<1> DEFINE G == {T \in SUBSET S : SumOf(f, T) <= SumOf(g, T)}
<1>1. ASSUME NEW T \in SUBSET S, \A u \in SUBSET T : u # T => u \in G
      PROVE  T \in G
  <2>1. IsFiniteSet(T)
    BY FS_Subset
  <2>2. CASE T = {}
    <3>1. SumOf(f, T) = 0 /\ SumOf(g, T) = 0
      BY <2>1, <2>2, SumStep
    <3> QED
      BY <3>1
  <2>3. CASE T # {}
    <3> DEFINE c == Some(T)
               u == T \ {c}
    <3>1. c \in T
      BY <2>3, SomeIn
    <3>2. SumOf(f, u) <= SumOf(g, u)
      BY <1>1, <3>1
    <3>3. SumOf(f, T) = f[c] + SumOf(f, u) /\ SumOf(g, T) = g[c] + SumOf(g, u)
      BY <2>1, <2>3, SumStep
    <3>4. /\ f[c] \in Nat /\ g[c] \in Nat /\ f[c] <= g[c]
          /\ SumOf(f, u) \in Nat /\ SumOf(g, u) \in Nat
      BY <3>1, SumType
    <3> HIDE DEF c, u
    <3>5. SumOf(f, T) <= SumOf(g, T)
      BY <3>2, <3>3, <3>4
    <3> QED
      BY <3>5
  <2> QED
    BY <2>2, <2>3
<1> HIDE DEF G
<1>2. S \in G
  BY <1>1, SubsetInduction
<1> QED
  BY <1>2 DEF G

LEMMA SumSame ==
  ASSUME NEW S, IsFiniteSet(S), NEW f, NEW g,
         \A x \in S : g[x] \in Nat /\ f[x] = g[x]
  PROVE  SumOf(f, S) = SumOf(g, S)
<1>1. SumOf(f, S) <= SumOf(g, S)
  BY SumAtMost
<1>2. SumOf(g, S) <= SumOf(f, S)
  BY SumAtMost
<1>3. SumOf(f, S) \in Nat /\ SumOf(g, S) \in Nat
  BY SumType
<1> QED
  BY <1>1, <1>2, <1>3

\* A sum changes by as much as the one value that changes.
LEMMA SumChange ==
  ASSUME NEW S, IsFiniteSet(S), NEW f, NEW g, NEW x \in S,
         \A y \in S : f[y] \in Nat /\ g[y] \in Nat,
         \A y \in S \ {x} : f[y] = g[y]
  PROVE  /\ SumOf(f, S) \in Nat /\ SumOf(g, S) \in Nat
         /\ SumOf(g, S) = SumOf(f, S) + g[x] - f[x]
<1>1. SumOf(f, S) = f[x] + SumOf(f, S \ {x})
  BY SumRemove
<1>2. SumOf(g, S) = g[x] + SumOf(g, S \ {x})
  BY SumRemove
<1>3. IsFiniteSet(S \ {x})
  BY FS_RemoveElement
<1>4. SumOf(f, S \ {x}) = SumOf(g, S \ {x})
  BY <1>3, SumSame
<1>5. /\ SumOf(f, S \ {x}) \in Nat /\ SumOf(g, S) \in Nat
      /\ SumOf(f, S) \in Nat /\ f[x] \in Nat /\ g[x] \in Nat
  BY SumType
<1> QED
  BY <1>1, <1>2, <1>4, <1>5

\* A sum is none of its parts only if they are all nothing.
LEMMA SumZero ==
  ASSUME NEW S, IsFiniteSet(S), NEW g, \A x \in S : g[x] \in Nat
  PROVE  /\ SumOf(g, S) = 0 <=> \A x \in S : g[x] = 0
         /\ \A x \in S : g[x] <= SumOf(g, S)
<1>1. ASSUME NEW x \in S
      PROVE  g[x] <= SumOf(g, S)
  <2>1. SumOf(g, S) = g[x] + SumOf(g, S \ {x})
    BY SumRemove
  <2>2. SumOf(g, S \ {x}) \in Nat /\ g[x] \in Nat
    BY SumType
  <2> QED
    BY <2>1, <2>2
<1>2. SumOf(g, S) = 0 => \A x \in S : g[x] = 0
  BY <1>1
<1>3. ASSUME \A x \in S : g[x] = 0
      PROVE  SumOf(g, S) = 0
  <2> DEFINE G == {T \in SUBSET S : SumOf(g, T) = 0}
  <2>1. ASSUME NEW T \in SUBSET S, \A u \in SUBSET T : u # T => u \in G
        PROVE  T \in G
    <3>1. IsFiniteSet(T)
      BY FS_Subset
    <3>2. CASE T = {}
      BY <3>1, <3>2, SumStep
    <3>3. CASE T # {}
      <4>1. Some(T) \in T
        BY <3>3, SomeIn
      <4>2. SumOf(g, T \ {Some(T)}) = 0 /\ g[Some(T)] = 0
        BY <1>3, <2>1, <4>1
      <4>3. SumOf(g, T) = g[Some(T)] + SumOf(g, T \ {Some(T)})
        BY <3>1, <3>3, SumStep
      <4> QED
        BY <4>2, <4>3
    <3> QED
      BY <3>2, <3>3
  <2> HIDE DEF G
  <2>2. S \in G
    BY <2>1, SubsetInduction
  <2> QED
    BY <2>2 DEF G
<1> QED
  BY <1>1, <1>2, <1>3

\* Sums may be added up one by one.
LEMMA SumPlus ==
  ASSUME NEW S, IsFiniteSet(S), NEW f, NEW g, NEW t,
         \A x \in S : f[x] \in Nat /\ g[x] \in Nat /\ t[x] = f[x] + g[x]
  PROVE  SumOf(t, S) = SumOf(f, S) + SumOf(g, S)
<1> DEFINE G == {T \in SUBSET S : SumOf(t, T) = SumOf(f, T) + SumOf(g, T)}
<1>1. ASSUME NEW T \in SUBSET S, \A u \in SUBSET T : u # T => u \in G
      PROVE  T \in G
  <2>1. IsFiniteSet(T)
    BY FS_Subset
  <2>2. CASE T = {}
    <3>1. SumOf(t, T) = 0 /\ SumOf(f, T) = 0 /\ SumOf(g, T) = 0
      BY <2>1, <2>2, SumStep
    <3> QED
      BY <3>1
  <2>3. CASE T # {}
    <3> DEFINE c == Some(T)
               u == T \ {c}
    <3>1. c \in T
      BY <2>3, SomeIn
    <3>2. SumOf(t, u) = SumOf(f, u) + SumOf(g, u)
      BY <1>1, <3>1
    <3>3. /\ SumOf(f, T) = f[c] + SumOf(f, u)
          /\ SumOf(g, T) = g[c] + SumOf(g, u)
          /\ SumOf(t, T) = t[c] + SumOf(t, u)
      BY <2>1, <2>3, SumStep
    <3>4. /\ f[c] \in Nat /\ g[c] \in Nat /\ t[c] = f[c] + g[c]
          /\ SumOf(f, u) \in Nat /\ SumOf(g, u) \in Nat
      BY <3>1, SumType
    <3> HIDE DEF c, u
    <3>5. SumOf(t, T) = SumOf(f, T) + SumOf(g, T)
      BY <3>2, <3>3, <3>4
    <3> QED
      BY <3>5
  <2> QED
    BY <2>2, <2>3
<1> HIDE DEF G
<1>2. S \in G
  BY <1>1, SubsetInduction
<1> QED
  BY <1>2 DEF G

\* What is nothing outside of a part adds up to what it is on the part.
LEMMA SumPart ==
  ASSUME NEW S, IsFiniteSet(S), NEW g, NEW P \in SUBSET S,
         \A x \in S : g[x] \in Nat,
         \A x \in S \ P : g[x] = 0
  PROVE  SumOf(g, P) = SumOf(g, S)
<1> DEFINE G == {T \in SUBSET S : SumOf(g, T) = SumOf(g, T \cap P)}
<1>1. ASSUME NEW T \in SUBSET S, \A u \in SUBSET T : u # T => u \in G
      PROVE  T \in G
  <2>1. CASE T \subseteq P
    <3>1. T \cap P = T
      BY <2>1
    <3> QED
      BY <3>1
  <2>2. ASSUME NEW x \in T \ P
        PROVE  T \in G
    <3>1. IsFiniteSet(T) /\ g[x] = 0 /\ \A y \in T : g[y] \in Nat
      BY FS_Subset
    <3>2. SumOf(g, T) = g[x] + SumOf(g, T \ {x})
      BY <3>1, SumRemove
    <3>3. SumOf(g, T \ {x}) = SumOf(g, (T \ {x}) \cap P)
      BY <1>1
    <3>4. (T \ {x}) \cap P = T \cap P
      OBVIOUS
    <3>5. SumOf(g, T \ {x}) \in Nat
      BY <3>1, SumType
    <3>6. SumOf(g, T) = SumOf(g, T \ {x})
      BY <3>1, <3>2, <3>5
    <3> QED
      BY <3>3, <3>4, <3>6
  <2> QED
    BY <2>1, <2>2
<1> HIDE DEF G
<1>2. S \in G
  BY <1>1, SubsetInduction
<1>3. S \cap P = P
  OBVIOUS
<1> QED
  BY <1>2, <1>3 DEF G

---------------------------------------------------------------------------
(* Counting instances. *)

Leg(c) == SumOf(c, Legacy)  \* the legacy instances that the counts c have
AllOf(c) == c[Exp] + Leg(c)

LEMMA LegType ==
  ASSUME NEW c \in Counts
  PROVE  /\ IsFiniteSet(Legacy) /\ \A v \in Legacy : c[v] \in Nat
         /\ c[Exp] \in Nat /\ Leg(c) \in Nat /\ AllOf(c) \in Nat
         /\ Leg(c) = 0 <=> \A v \in Legacy : c[v] = 0
<1>1. IsFiniteSet(Legacy)
  BY FiniteAssumption, FS_Difference DEF Legacy
<1>2. c[Exp] \in Nat /\ \A v \in Legacy : c[v] \in Nat
  BY VersAssumption DEF Counts, Legacy
<1>3. Leg(c) \in Nat
  BY <1>1, <1>2, SumType DEF Leg
<1>4. Leg(c) = 0 <=> \A v \in Legacy : c[v] = 0
  BY <1>1, <1>2, SumZero DEF Leg
<1> QED
  BY <1>1, <1>2, <1>3, <1>4 DEF AllOf

\* A change of the expected version leaves the legacy instances alone.
LEMMA LegSame ==
  ASSUME NEW c \in Counts, NEW d \in Counts, \A v \in Legacy : d[v] = c[v]
  PROVE  Leg(d) = Leg(c)
BY LegType, SumSame DEF Leg

\* One legacy instance less.
LEMMA LegLess ==
  ASSUME NEW c \in Counts, NEW d \in Counts, NEW v \in Legacy,
         d[v] = c[v] - 1, \A w \in Legacy \ {v} : d[w] = c[w]
  PROVE  Leg(d) = Leg(c) - 1
<1>1. /\ IsFiniteSet(Legacy)
      /\ \A w \in Legacy : c[w] \in Nat /\ d[w] \in Nat
  BY LegType
<1>2. Leg(c) \in Nat /\ Leg(d) = Leg(c) + d[v] - c[v]
  BY <1>1, SumChange DEF Leg
<1> QED
  BY <1>1, <1>2

\* hcStat's numbers are sums.
LEMMA StatIsSum ==
  ASSUME NEW S \in SUBSET Hosts, NEW f
  PROVE  /\ NumExp(f, S) = SumOf([h \in Hosts |-> f[h][Exp]], S)
         /\ NumUnexp(f, S) = SumOf([h \in Hosts |-> Leg(f[h])], S)
<1>1. NumExp(f, S) = SumOf([h \in Hosts |-> f[h][Exp]], S)
  BY ExpIsSum
<1>2. NumUnexp(f, S) = SumOf([h \in Hosts |-> SumOf(f[h], Legacy)], S)
  BY UnexpIsSum
<1> QED
  BY <1>1, <1>2 DEF Leg

\* ... over the hosts:
LEMMA StatType ==
  ASSUME NEW f \in [Hosts -> Counts]
  PROVE  /\ NumExp(f, Hosts) = SumOf([h \in Hosts |-> f[h][Exp]], Hosts)
         /\ NumUnexp(f, Hosts) = SumOf([h \in Hosts |-> Leg(f[h])], Hosts)
         /\ NumExp(f, Hosts) \in Nat /\ NumUnexp(f, Hosts) \in Nat
         /\ \A h \in Hosts : Leg(f[h]) <= NumUnexp(f, Hosts)
         /\ NumUnexp(f, Hosts) = 0 <=> \A h \in Hosts : Leg(f[h]) = 0
<1> DEFINE e == [h \in Hosts |-> f[h][Exp]]
           u == [h \in Hosts |-> Leg(f[h])]
<1>1. NumExp(f, Hosts) = SumOf(e, Hosts) /\ NumUnexp(f, Hosts) = SumOf(u, Hosts)
  BY StatIsSum
<1>2. \A h \in Hosts : e[h] \in Nat /\ u[h] \in Nat
  BY LegType
<1>3. SumOf(e, Hosts) \in Nat /\ SumOf(u, Hosts) \in Nat
  <2> HIDE DEF e, u
  <2> QED
    BY <1>2, SumType, FiniteAssumption
<1>4. /\ SumOf(u, Hosts) = 0 <=> \A h \in Hosts : u[h] = 0
      /\ \A h \in Hosts : u[h] <= SumOf(u, Hosts)
  <2> HIDE DEF e, u
  <2> QED
    BY <1>2, SumZero, FiniteAssumption
<1> QED
  BY <1>1, <1>3, <1>4

\* The counts of one host change.
LEMMA StatChange ==
  ASSUME NEW f \in [Hosts -> Counts], NEW g \in [Hosts -> Counts], NEW h \in Hosts,
         \A k \in Hosts \ {h} : g[k] = f[k]
  PROVE  /\ NumExp(g, Hosts) = NumExp(f, Hosts) + g[h][Exp] - f[h][Exp]
         /\ NumUnexp(g, Hosts) = NumUnexp(f, Hosts) + Leg(g[h]) - Leg(f[h])
<1> DEFINE e(x) == [k \in Hosts |-> x[k][Exp]]
           u(x) == [k \in Hosts |-> Leg(x[k])]
<1>1. /\ NumExp(f, Hosts) = SumOf(e(f), Hosts) /\ NumExp(g, Hosts) = SumOf(e(g), Hosts)
      /\ NumUnexp(f, Hosts) = SumOf(u(f), Hosts) /\ NumUnexp(g, Hosts) = SumOf(u(g), Hosts)
  BY StatType
<1>2. \A k \in Hosts : /\ e(f)[k] \in Nat /\ e(g)[k] \in Nat
                       /\ u(f)[k] \in Nat /\ u(g)[k] \in Nat
  BY LegType
<1>3. \A k \in Hosts \ {h} : e(f)[k] = e(g)[k] /\ u(f)[k] = u(g)[k]
  OBVIOUS
<1>4. /\ e(f)[h] = f[h][Exp] /\ e(g)[h] = g[h][Exp]
      /\ u(f)[h] = Leg(f[h]) /\ u(g)[h] = Leg(g[h])
  OBVIOUS
<1> HIDE DEF e, u
<1>5. SumOf(e(g), Hosts) = SumOf(e(f), Hosts) + e(g)[h] - e(f)[h]
  BY <1>2, <1>3, SumChange, FiniteAssumption
<1>6. SumOf(u(g), Hosts) = SumOf(u(f), Hosts) + u(g)[h] - u(f)[h]
  BY <1>2, <1>3, SumChange, FiniteAssumption
<1> QED
  BY <1>1, <1>4, <1>5, <1>6

\* All instances, host by host.
LEMMA TotalSum ==
  ASSUME NEW f \in [Hosts -> Counts]
  PROVE  Total(f) = SumOf([h \in Hosts |-> AllOf(f[h])], Hosts) /\ Total(f) \in Nat
<1> DEFINE e == [h \in Hosts |-> f[h][Exp]]
           u == [h \in Hosts |-> Leg(f[h])]
           a == [h \in Hosts |-> AllOf(f[h])]
<1>1. /\ NumExp(f, Hosts) = SumOf(e, Hosts) /\ NumUnexp(f, Hosts) = SumOf(u, Hosts)
      /\ NumExp(f, Hosts) \in Nat /\ NumUnexp(f, Hosts) \in Nat
  BY StatType
<1>2. \A h \in Hosts : e[h] \in Nat /\ u[h] \in Nat /\ a[h] = e[h] + u[h]
  BY LegType DEF AllOf
<1> HIDE DEF e, u, a
<1>3. SumOf(a, Hosts) = SumOf(e, Hosts) + SumOf(u, Hosts)
  BY <1>2, SumPlus, FiniteAssumption
<1>4. Total(f) = SumOf(a, Hosts) /\ Total(f) \in Nat
  BY <1>1, <1>3 DEF Total
<1> QED
  BY <1>4 DEF a

\* No host has fewer instances: nor have all of them.
LEMMA TotalAtMost ==
  ASSUME NEW f \in [Hosts -> Counts], NEW g \in [Hosts -> Counts],
         \A h \in Hosts : AllOf(f[h]) <= AllOf(g[h])
  PROVE  Total(f) <= Total(g)
<1> DEFINE a(x) == [h \in Hosts |-> AllOf(x[h])]
<1>1. Total(f) = SumOf(a(f), Hosts) /\ Total(g) = SumOf(a(g), Hosts)
  BY TotalSum
<1>2. \A h \in Hosts : /\ a(f)[h] \in Nat /\ a(g)[h] \in Nat
                       /\ a(f)[h] <= a(g)[h]
  BY LegType
<1> HIDE DEF a
<1>3. SumOf(a(f), Hosts) <= SumOf(a(g), Hosts)
  BY <1>2, SumAtMost, FiniteAssumption
<1> QED
  BY <1>1, <1>3

\* The cached hosts are all that count.
LEMMA StatCached ==
  ASSUME NEW f \in [Hosts -> Counts], cached \subseteq Hosts,
         \A h \in Hosts \ cached : f[h] = NoCounts
  PROVE  NumExp(f, cached) = NumExp(f, Hosts) /\ NumUnexp(f, cached) = NumUnexp(f, Hosts)
<1> DEFINE e == [h \in Hosts |-> f[h][Exp]]
           u == [h \in Hosts |-> Leg(f[h])]
<1>1. NumExp(f, cached) = SumOf(e, cached) /\ NumUnexp(f, cached) = SumOf(u, cached)
  BY StatIsSum
<1>2. NumExp(f, Hosts) = SumOf(e, Hosts) /\ NumUnexp(f, Hosts) = SumOf(u, Hosts)
  BY StatType
<1>3. \A h \in Hosts : e[h] \in Nat /\ u[h] \in Nat
  BY LegType
<1>4. Leg(NoCounts) = 0 /\ NoCounts[Exp] = 0
  BY LegType, VersAssumption DEF NoCounts, Counts, Legacy
<1>5. \A h \in Hosts \ cached : e[h] = 0 /\ u[h] = 0
  BY <1>4
<1> HIDE DEF e, u
<1>6. SumOf(e, cached) = SumOf(e, Hosts)
  BY <1>3, <1>5, SumPart, FiniteAssumption
<1>7. SumOf(u, cached) = SumOf(u, Hosts)
  BY <1>3, <1>5, SumPart, FiniteAssumption
<1> QED
  BY <1>1, <1>2, <1>6, <1>7

LEMMA StatOne ==
  ASSUME NEW f \in [Hosts -> Counts], NEW h \in Hosts
  PROVE  NumUnexp(f, {h}) = Leg(f[h])
<1> DEFINE u == [k \in Hosts |-> Leg(f[k])]
<1>1. NumUnexp(f, {h}) = SumOf(u, {h})
  BY StatIsSum
<1>2. u[h] = Leg(f[h]) /\ u[h] \in Nat
  BY LegType
<1> HIDE DEF u
<1>3. IsFiniteSet({h}) /\ {h} \ {h} = {} /\ \A k \in {h} : u[k] \in Nat
  BY <1>2, FS_Singleton
<1>4. SumOf(u, {h}) = u[h] + SumOf(u, {h} \ {h})
  BY <1>3, SumRemove
<1>5. SumOf(u, {}) = 0
  BY <1>3, SumStep
<1> QED
  BY <1>1, <1>2, <1>3, <1>4, <1>5

---------------------------------------------------------------------------
(* The invariant. *)

OneRolling == MaxOps = 1 /\ Policies = {"rolling"}

Places == Starting \cup {"idle", "dead", "add", "update", "remove", "prune",
                         "save", "pause", "ok", "failed", "destroyed"}
Acts(t) == pc[t] \notin {"idle", "dead"}

\* One goroutine is asked for something, once, and no timer runs.
OneActs ==
  /\ ops \in {0, 1} /\ num \in Nums /\ fails \in Nat
  /\ legacyTimer = "nil" /\ orphans = 0
  /\ pc \in [Tasks -> Places] /\ plan \in [Tasks -> Seq([op : Loops, n : Int])]
  /\ left \in [Tasks -> Int] /\ err \in [Tasks -> BOOLEAN]
  /\ base \in [Tasks -> [Hosts -> Counts]]
  /\ \A t, u \in Tasks : base[t] = base[u]
  /\ ops = 0 => \A t \in Tasks : pc[t] = "idle"
  /\ ops = 1 => \E t \in Tasks : pc[t] # "idle"
  /\ \A t \in Tasks : Acts(t) => /\ t \in Callers
                                 /\ \A u \in Tasks : u # t => pc[u] = "idle"
  /\ \A t \in Tasks : pc[t] \in Loops \cup {"save", "pause"} => plan[t] # <<>>

\* Until then everything is as it was.
Before ==
  ops = 0 => /\ \A t \in Tasks : base[t] = info /\ plan[t] = <<>>
             /\ Desired = info /\ fails = 0
             /\ \A h \in Hosts \ cached : IsEmpty(h)

\* Hosts without a configuration are empty, and nobody but goroutine t has
\* changed a map that etcd has not been told of.
Known(t) ==
  /\ \A h \in Hosts \ cached :
       IsEmpty(h) \/ (pc[t] = "save" /\ host[t] = h /\ save[t] = "set")
  /\ fails = 0 =>
       \A h \in Hosts : Desired[h] = info[h] \/ (pc[t] = "save" /\ host[t] = h)
  /\ pc[t] = "save" /\ save[t] = "delete" => info[host[t]] = NoCounts

\* How many hosts the call in progress, or about to begin, still has to change.
ToDo(t) == IF pc[t] \in Starting THEN plan[t][1].n
           ELSE IF pc[t] = "save" THEN left[t] - 1 ELSE left[t]

\* What is missing is added: as many as update will not replace.
Adding(t) ==
  LET B == base[t]  u == NumUnexp(B, Hosts) IN
  /\ Len(plan[t]) = 3 /\ plan[t][1].op = "add"
  /\ plan[t][2] = Step("update", u) /\ plan[t][3] = Step("prune", 0)
  /\ pc[t] \in Starting \cup {"add", "save"}
  /\ \A h \in Hosts : /\ \A v \in Legacy : Desired[h][v] = B[h][v] /\ info[h][v] = B[h][v]
                      /\ Desired[h][Exp] >= B[h][Exp] /\ info[h][Exp] >= B[h][Exp]
  /\ NumExp(info, Hosts) + ToDo(t) + u = num /\ ToDo(t) \in Nat
  /\ pc[t] \in Starting => ~err[t]
  /\ ~err[t] =>
       \A h \in Hosts : Desired[h] = info[h] \/ (pc[t] = "save" /\ host[t] = h)
  /\ pc[t] = "save" => save[t] = "set"

\* Legacy instances are replaced, one of each host that has one.
Updating(t) ==
  /\ Len(plan[t]) = 2 /\ plan[t][1].op = "update" /\ plan[t][2] = Step("prune", 0)
  /\ pc[t] \in Starting \cup {"update", "save", "pause"}
  /\ \A h \in Hosts : AllOf(Desired[h]) >= AllOf(info[h]) /\ Leg(info[h]) <= 1
  /\ NumExp(info, Hosts) + NumUnexp(info, Hosts) >= num
  /\ NumExp(info, Hosts) + ToDo(t) = num /\ ToDo(t) \in Nat
  /\ pc[t] \notin Starting /\ ToDo(t) > 0 =>
       \A h \in Hosts \ hc[t] : Leg(info[h]) = 0
  /\ pc[t] = "save" => save[t] = "set"

\* The expected instances are there, and what is left of the others goes.
Pruning(t) ==
  /\ plan[t] = <<Step("prune", 0)>>
  /\ pc[t] \in Starting \cup {"prune", "save"}
  /\ \A h \in Hosts : AllOf(Desired[h]) >= AllOf(info[h])
  /\ NumExp(info, Hosts) = num
  /\ pc[t] \notin Starting => \A h \in Hosts \ hc[t] : Leg(info[h]) = 0

Enough(t) == Total(Desired) >= num \/ Total(Desired) >= Total(base[t])

Ended(t) ==
  /\ plan[t] = <<>> /\ pc[t] \in Starting \cup {"ok", "failed", "destroyed"}
  /\ Enough(t)
  /\ fails = 0 /\ (pc[t] = "ok" \/ (pc[t] \in Starting /\ ~err[t])) =>
       NumExp(Desired, Hosts) = num /\ NumUnexp(Desired, Hosts) = 0

Phase(t) == \/ Adding(t) \/ Updating(t) \/ Pruning(t) \/ Ended(t)
            \/ pc[t] = "dead" /\ Enough(t)

RollInv ==
  /\ OneActs /\ Before
  /\ \A t \in Tasks : pc[t] # "idle" => Known(t) /\ (Smooth(t) => Phase(t))

---------------------------------------------------------------------------
(* Who acts. *)

Plans == Seq([op : Loops, n : Int])

LEMMA StatNat ==
  ASSUME NEW f \in [Hosts -> Counts], NEW S \in SUBSET Hosts
  PROVE  NumExp(f, S) \in Nat /\ NumUnexp(f, S) \in Nat
<1> DEFINE e == [h \in Hosts |-> f[h][Exp]]
           u == [h \in Hosts |-> Leg(f[h])]
<1>1. NumExp(f, S) = SumOf(e, S) /\ NumUnexp(f, S) = SumOf(u, S)
  BY StatIsSum
<1>2. \A h \in Hosts : e[h] \in Nat /\ u[h] \in Nat
  BY LegType
<1> HIDE DEF e, u
<1> QED
  BY <1>1, <1>2, SumType, FiniteAssumption

LEMMA PlanHead ==
  ASSUME NEW p \in Plans, p # <<>>
  PROVE  /\ Head(p) = p[1] /\ p[1].op \in Loops /\ p[1].n \in Int
         /\ Tail(p) \in Plans /\ Len(p) \in Nat /\ Len(p) > 0
         /\ Len(Tail(p)) = Len(p) - 1
         /\ \A i \in 1..(Len(p) - 1) : Tail(p)[i] = p[i + 1]
<1> DEFINE C == [op : Loops, n : Int]
<1>1. p \in Seq(C) /\ Plans = Seq(C)
  BY DEF Plans
<1>2. p[1] \in C => p[1].op \in Loops /\ p[1].n \in Int
  OBVIOUS
<1> HIDE DEF C
<1>3. /\ Head(p) = p[1] /\ p[1] \in C /\ Tail(p) \in Seq(C) /\ Len(p) \in Nat /\ Len(p) > 0
      /\ Len(Tail(p)) = Len(p) - 1
  BY <1>1
<1>4. \A i \in 1..(Len(p) - 1) : Tail(p)[i] = p[i + 1]
  BY <1>1
<1> QED
  BY <1>1, <1>2, <1>3, <1>4

\* A goroutine is never both: a caller's and a timer's.
LEMMA CallerOnly ==
  ASSUME OneActs, NEW t \in Tasks, Acts(t)
  PROVE  /\ t \in Callers /\ t \notin TimerTasks /\ ops = 1
         /\ \A u \in Tasks : u # t => pc[u] = "idle"
BY TasksAssumption DEF OneActs, Acts

\* A step of the one that acts.
LEMMA ActsStep ==
  ASSUME OneActs, NEW t \in Tasks, Acts(t),
         NEW p \in Places \ {"idle", "dead"}, pc' = [pc EXCEPT ![t] = p],
         plan' \in [Tasks -> Plans], left' \in [Tasks -> Int],
         err' \in [Tasks -> BOOLEAN], fails' \in Nat,
         p \in Loops \cup {"save", "pause"} => plan'[t] # <<>>,
         UNCHANGED <<num, legacyTimer, orphans, base, ops>>
  PROVE  OneActs' /\ pc'[t] # "idle"
<1>1. /\ t \in Callers /\ ops = 1
      /\ \A u \in Tasks : u # t => pc[u] = "idle"
  BY CallerOnly
<1>2. /\ pc' \in [Tasks -> Places] /\ pc'[t] = p
      /\ \A u \in Tasks : u # t => pc'[u] = "idle"
  BY <1>1 DEF OneActs
<1>3. \A u \in Tasks : Acts(u)' => u = t
  BY <1>2 DEF Acts
<1>4. \A u \in Tasks : pc'[u] \in Loops \cup {"save", "pause"} => u = t /\ plan'[u] # <<>>
  BY <1>2 DEF Loops
<1> QED
  BY <1>1, <1>2, <1>3, <1>4 DEF OneActs, Acts, Plans

LEMMA WorkActs ==
  ASSUME OneActs, ConfigTypeOK, NEW t \in Tasks, Work(t) \/ AddOne(t) \/ NoHost(t)
  PROVE  OneActs' /\ Acts(t) /\ pc'[t] # "idle"
<1> USE DEF Acts
<1>0. /\ pc \in [Tasks -> Places] /\ plan \in [Tasks -> Plans] /\ left \in [Tasks -> Int]
      /\ err \in [Tasks -> BOOLEAN] /\ fails \in Nat
      /\ info \in [Hosts -> Counts] /\ cached \subseteq Hosts
      /\ pc[t] \in Loops \cup {"save", "pause"} => plan[t] # <<>>
  BY DEF OneActs, ConfigTypeOK, Plans
<1> DEFINE Same == UNCHANGED <<num, legacyTimer, orphans, base, ops>>
           Others == UNCHANGED <<plan, left, err, fails>>
           Result == OneActs' /\ Acts(t) /\ pc'[t] # "idle"
<1>1. CASE Begin(t)
  <2>1. Acts(t) /\ plan[t] # <<>>
    BY <1>1 DEF Begin, Starting
  <2> DEFINE s == Head(plan[t])
  <2>2. s.op \in Loops /\ s.n \in Int
    BY <1>0, <2>1, PlanHead
  <2>3. NumUnexp(info, cached) \in Nat
    BY <1>0, StatNat
  <2>4. /\ pc' = [pc EXCEPT ![t] = s.op] /\ Same /\ UNCHANGED <<plan, fails>>
        /\ err' = [err EXCEPT ![t] = FALSE]
        /\ left' = [left EXCEPT ![t] =
             IF s.op = "update" /\ s.n > NumUnexp(info, cached)
             THEN NumUnexp(info, cached) ELSE s.n]
    BY <1>1 DEF Begin, timerVars, envVars
  <2> HIDE DEF s
  <2>5. s.op \in Places \ {"idle", "dead"}
    BY <2>2 DEF Loops, Places
  <2>6. left' \in [Tasks -> Int] /\ err' \in [Tasks -> BOOLEAN]
    BY <1>0, <2>2, <2>3, <2>4
  <2> QED
    BY <1>0, <2>1, <2>4, <2>5, <2>6, ActsStep
<1>2. CASE Arm(t)
  <2>1. plan[t] # <<>> /\ Head(plan[t]).op \in {"arm", "rearm"}
    BY <1>2 DEF Arm
  <2>2. Head(plan[t]).op \in Loops
    BY <1>0, <2>1, PlanHead
  <2> QED
    BY <2>1, <2>2 DEF Loops
<1>3. CASE Return(t)
  <2>1. Acts(t)
    BY <1>3 DEF Return, Starting
  <2>2. t \notin TimerTasks
    BY <2>1, CallerOnly
  <2> DEFINE p == IF err[t] THEN "failed" ELSE "ok"
  <2>3. pc' = [pc EXCEPT ![t] = p]
    BY <1>3, <2>2 DEF Return
  <2>4. p \in Places \ {"idle", "dead"} /\ p \notin Loops \cup {"save", "pause"}
    BY DEF Places, Loops
  <2>5. Same /\ Others
    BY <1>3 DEF Return, timerVars, envVars
  <2> HIDE DEF p
  <2> QED
    BY <1>0, <2>1, <2>3, <2>4, <2>5, ActsStep
<1>4. CASE Clear(t)
  BY <1>0, <1>4 DEF Clear, Places, Starting
<1>5. ASSUME NEW h, NEW f, NEW w, Change(t, h, f, w), pc[t] \in Loops
      PROVE  Result
  <2>1. pc' = [pc EXCEPT ![t] = "save"] /\ Same /\ Others
    BY <1>5 DEF Change, timerVars, envVars
  <2>2. "save" \in Places \ {"idle", "dead"} /\ Acts(t)
    BY <1>5 DEF Places, Loops
  <2> QED
    BY <1>0, <1>5, <2>1, <2>2, ActsStep
<1>6. CASE UpdateOne(t)
  BY <1>5, <1>6 DEF UpdateOne, Loops
<1>7. CASE RemoveOne(t)
  BY <1>5, <1>7 DEF RemoveOne, Loops
<1>8. CASE PruneOne(t)
  BY <1>5, <1>8 DEF PruneOne, Loops
<1>9. ASSUME NEW e \in BOOLEAN, EndCall(t, e), pc[t] \in Loops \cup {"pause"}
      PROVE  Result
  <2>1. /\ plan' = [plan EXCEPT ![t] = IF e THEN <<>> ELSE Tail(@)]
        /\ pc' = [pc EXCEPT ![t] = "next"] /\ err' = [err EXCEPT ![t] = e]
        /\ Same /\ UNCHANGED <<left, fails>>
    BY <1>9 DEF EndCall, timerVars, envVars
  <2>2. plan[t] \in Plans /\ plan[t] # <<>>
    BY <1>0, <1>9
  <2>3. Tail(plan[t]) \in Plans
    BY <2>2, PlanHead
  <2>4. <<>> \in Plans
    BY DEF Plans
  <2>5. plan' \in [Tasks -> Plans] /\ err' \in [Tasks -> BOOLEAN]
    BY <1>0, <1>9, <2>1, <2>3, <2>4
  <2>6. /\ "next" \in Places \ {"idle", "dead"} /\ Acts(t)
        /\ "next" \notin Loops \cup {"save", "pause"}
    BY <1>9 DEF Places, Starting, Loops
  <2> QED
    BY <1>0, <1>9, <2>1, <2>5, <2>6, ActsStep
<1>10. CASE EndLoop(t)
  BY <1>0, <1>9, <1>10 DEF EndLoop, Loops
<1>11. CASE GiveUp(t)
  BY <1>0, <1>9, <1>11 DEF GiveUp, Loops
\* Steps of a loop that stay in it.
<1>12. ASSUME NEW p \in Loops \cup {"pause"}, pc' = [pc EXCEPT ![t] = p], Same,
              pc[t] \in Loops \cup {"pause"}, UNCHANGED <<plan, fails>>,
              left' \in [Tasks -> Int], err' \in [Tasks -> BOOLEAN]
       PROVE  Result
  <2>1. p \in Places \ {"idle", "dead"} /\ Acts(t) /\ plan[t] # <<>>
    BY <1>0, <1>12 DEF Places, Loops
  <2> QED
    BY <1>0, <1>12, <2>1, ActsStep
<1>13. CASE RemoveGone(t)
  <2>1. CASE EndCall(t, FALSE)
    BY <1>9, <1>13, <2>1 DEF RemoveGone, Loops
  <2>2. CASE ~EndCall(t, FALSE)
    <3>1. /\ left' = [left EXCEPT ![t] = @ - 1] /\ pc' = [pc EXCEPT ![t] = "pause"]
          /\ Same /\ UNCHANGED <<plan, err, fails>> /\ pc[t] \in Loops
      BY <1>13, <2>2 DEF RemoveGone, Loops, timerVars, envVars
    <3>2. left' \in [Tasks -> Int]
      BY <1>0, <3>1
    <3> QED
      BY <1>0, <1>12, <3>1, <3>2
  <2> QED
    BY <2>1, <2>2
<1>14. ASSUME Same, UNCHANGED <<pc, plan, left, fails>>, pc[t] \in Loops,
              err' \in [Tasks -> BOOLEAN]
       PROVE  Result
  <2>1. pc' = [pc EXCEPT ![t] = pc[t]]
    BY <1>0, <1>14
  <2> QED
    BY <1>0, <1>12, <1>14, <2>1
<1>15. CASE RemoveList(t)
  BY <1>0, <1>14, <1>15 DEF RemoveList, Loops, timerVars, envVars
<1>16. CASE Skip(t)
  BY <1>0, <1>14, <1>16 DEF Skip, Loops, timerVars, envVars
<1>17. CASE NoHost(t)
  BY <1>0, <1>14, <1>17 DEF NoHost, Loops, timerVars, envVars
<1>18. CASE Resume(t)
  <2>1. /\ pc' = [pc EXCEPT ![t] = Head(plan[t]).op] /\ Same /\ Others /\ pc[t] = "pause"
    BY <1>18 DEF Resume, timerVars, envVars
  <2>2. Head(plan[t]).op \in Loops
    BY <1>0, <2>1, PlanHead
  <2> QED
    BY <1>0, <1>12, <2>1, <2>2
<1>19. CASE AddOne(t)
  <2>1. CASE pc' = [x \in Tasks |-> "dead"]
    <3>1. pc[t] = "add" /\ Same /\ Others
      BY <1>0, <1>19, <2>1 DEF AddOne, Change, timerVars, envVars
    <3>2. ops = 1 /\ "dead" \in Places /\ "dead" \notin Loops
      BY <3>1, CallerOnly DEF Places, Loops
    <3> QED
      BY <2>1, <3>1, <3>2 DEF OneActs
  <2>2. CASE pc' # [x \in Tasks |-> "dead"]
    BY <1>5, <1>19, <2>2 DEF AddOne, Loops
  <2> QED
    BY <2>1, <2>2
<1>20. CASE Save(t)
  <2>1. pc[t] = "save" /\ plan[t] # <<>> /\ Acts(t)
    BY <1>0, <1>20 DEF Save
  <2> DEFINE op == Head(plan[t]).op
  <2>2. op \in Loops /\ Tail(plan[t]) \in Plans /\ <<>> \in Plans
    <3>1. plan[t] \in Plans
      BY <1>0
    <3>2. <<>> \in Plans
      BY DEF Plans
    <3> QED
      BY <2>1, <3>1, <3>2, PlanHead
  <2>3. PICK failed \in BOOLEAN :
          /\ fails' = IF failed /\ ~Missing(t) THEN fails + 1 ELSE fails
          /\ left' = [left EXCEPT ![t] = IF op = "prune" THEN @ ELSE @ - 1]
          /\ IF op = "remove" /\ (failed \/ left[t] = 0)
             THEN /\ plan' = [plan EXCEPT ![t] = IF failed THEN <<>> ELSE Tail(@)]
                  /\ pc' = [pc EXCEPT ![t] = "next"]
                  /\ err' = [err EXCEPT ![t] = failed]
             ELSE /\ plan' = plan
                  /\ pc' = [pc EXCEPT ![t] =
                              IF op \in {"update", "remove"} THEN "pause" ELSE op]
                  /\ err' = [err EXCEPT ![t] = @ \/ failed]
    BY <1>20 DEF Save
  <2>4. Same
    BY <1>20 DEF Save, timerVars
  <2> HIDE DEF op
  <2>5. fails' \in Nat /\ left' \in [Tasks -> Int]
    BY <1>0, <2>3
  <2>6. err' \in [Tasks -> BOOLEAN]
    BY <1>0, <2>3
  <2>7. plan' \in [Tasks -> Plans]
    BY <1>0, <2>2, <2>3
  <2>8. CASE op = "remove" /\ (failed \/ left[t] = 0)
    <3>1. /\ "next" \in Places \ {"idle", "dead"}
          /\ "next" \notin Loops \cup {"save", "pause"}
      BY DEF Places, Starting, Loops
    <3> QED
      BY <2>1, <2>3, <2>4, <2>5, <2>6, <2>7, <2>8, <3>1, ActsStep
  <2>9. CASE ~(op = "remove" /\ (failed \/ left[t] = 0))
    <3> DEFINE p == IF op \in {"update", "remove"} THEN "pause" ELSE op
    <3>1. p \in Places \ {"idle", "dead"}
      BY <2>2 DEF Places, Loops
    <3>2. pc' = [pc EXCEPT ![t] = p] /\ plan' = plan
      BY <2>3, <2>9
    <3> HIDE DEF p
    <3> QED
      BY <2>1, <2>4, <2>5, <2>6, <2>7, <3>1, <3>2, ActsStep
  <2> QED
    BY <2>8, <2>9
<1> QED
  BY <1>1, <1>2, <1>3, <1>4, <1>6, <1>7, <1>8, <1>10, <1>11, <1>13, <1>15, <1>16, <1>17,
     <1>18, <1>19, <1>20 DEF Work

\* The first call, which finds everything as it was.
LEMMA FirstCall ==
  ASSUME OneActs, NEW t \in Callers, ops = 0, ops' = 1,
         NEW p \in Places \ ({"idle", "dead", "save", "pause"} \cup Loops),
         pc' = [pc EXCEPT ![t] = p],
         plan' \in [Tasks -> Plans], err' \in [Tasks -> BOOLEAN], num' \in Nums,
         base' = base \/ (base' = [base EXCEPT ![t] = info] /\ info = base[t]
                          /\ info \in [Hosts -> Counts]),
         UNCHANGED <<legacyTimer, orphans, left, fails>>
  PROVE  OneActs'
<1>1. t \in Tasks /\ \A u \in Tasks : pc[u] = "idle"
  BY DEF OneActs, Tasks
<1>2. /\ pc' \in [Tasks -> Places] /\ pc'[t] = p
      /\ \A u \in Tasks : u # t => pc'[u] = "idle"
  BY <1>1 DEF OneActs
<1>3. base' = base
  BY <1>1 DEF OneActs
<1>4. \A u \in Tasks : pc'[u] \notin Loops \cup {"save", "pause"}
  BY <1>2 DEF Loops
<1> QED
  BY <1>1, <1>2, <1>3, <1>4 DEF OneActs, Acts, Plans

\* The plan of a rolling update.
LEMMA RollingPlans ==
  ASSUME NEW n \in Nat, NEW e \in Nat, NEW u \in Nat
  PROVE  RollingPlan(n, e, u) \in Plans
<1> DEFINE C == [op : Loops, n : Int]
<1>1. /\ Step("prune", 0) \in C /\ Step("remove", e - n) \in C
      /\ Step("add", n - e - u) \in C /\ Step("update", u) \in C
      /\ Step("update", n - e) \in C
  BY DEF Step, Loops
<1> HIDE DEF C
<1>2. RollingPlan(n, e, u) \in Seq(C)
  BY <1>1 DEF RollingPlan
<1> QED
  BY <1>2 DEF C, Plans

LEMMA CallActs ==
  ASSUME OneRolling, OneActs, Before, ConfigTypeOK, NEW t \in Callers, Call(t)
  PROVE  OneActs'
<1>0. /\ t \in Tasks /\ plan \in [Tasks -> Plans] /\ err \in [Tasks -> BOOLEAN]
      /\ ops \in {0, 1} /\ MaxOps = 1 /\ info \in [Hosts -> Counts] /\ cached \subseteq Hosts
  BY DEF OneActs, OneRolling, ConfigTypeOK, Tasks, Plans
<1>1. ASSUME NEW n \in Nums, Deploy(t, "rolling", n)
      PROVE  OneActs'
  <2> DEFINE e == NumExp(info, cached)
             u == NumUnexp(info, cached)
  <2>1. ops = 0 /\ ops' = 1
    BY <1>0, <1>1 DEF Deploy
  <2>2. e \in Nat /\ u \in Nat /\ n \in Nat
    BY <1>0, StatNat, NumsAssumption
  <2>3. PlanOf("rolling", n) = RollingPlan(n, e, u)
    BY DEF PlanOf
  <2> HIDE DEF e, u
  <2>4. PlanOf("rolling", n) \in Plans
    BY <2>2, <2>3, RollingPlans
  <2>5. /\ plan' = [plan EXCEPT ![t] = PlanOf("rolling", n)]
        /\ base' = [base EXCEPT ![t] = info] /\ num' = n
        /\ err' = [err EXCEPT ![t] = FALSE] /\ pc' = [pc EXCEPT ![t] = "rolling"]
        /\ UNCHANGED <<legacyTimer, orphans, left, fails>>
    BY <1>1 DEF Deploy, timerVars
  <2>6. plan' \in [Tasks -> Plans] /\ err' \in [Tasks -> BOOLEAN]
    BY <1>0, <2>4, <2>5
  <2>7. info = base[t]
    BY <1>0, <2>1 DEF Before
  <2>8. "rolling" \in Places \ ({"idle", "dead", "save", "pause"} \cup Loops)
    BY DEF Places, Starting, Loops
  <2> QED
    BY <1>0, <2>1, <2>5, <2>6, <2>7, <2>8, FirstCall
<1>2. CASE CheckStatus(t)
  <2>1. /\ ops = 0 /\ ops' = 1 /\ plan' = [plan EXCEPT ![t] = <<Step("prune", 0)>>]
        /\ err' = [err EXCEPT ![t] = FALSE] /\ pc' = [pc EXCEPT ![t] = "check"]
        /\ UNCHANGED <<legacyTimer, orphans, left, fails, base, num>>
    BY <1>0, <1>2 DEF CheckStatus, timerVars
  <2>2. <<Step("prune", 0)>> \in Plans
    BY DEF Plans, Step, Loops
  <2>3. plan' \in [Tasks -> Plans] /\ err' \in [Tasks -> BOOLEAN] /\ num' \in Nums
    BY <1>0, <2>1, <2>2 DEF OneActs
  <2>4. "check" \in Places \ ({"idle", "dead", "save", "pause"} \cup Loops)
    BY DEF Places, Starting, Loops
  <2> QED
    BY <2>1, <2>3, <2>4, FirstCall
<1>3. CASE Destroy(t)
  <2>1. /\ ops = 0 /\ ops' = 1 /\ pc' = [pc EXCEPT ![t] = "destroyed"]
        /\ UNCHANGED <<legacyTimer, orphans, left, fails, base, num, plan, err>>
    BY <1>0, <1>3 DEF Destroy, timerVars
  <2>2. plan' \in [Tasks -> Plans] /\ err' \in [Tasks -> BOOLEAN] /\ num' \in Nums
    BY <1>0, <2>1 DEF OneActs
  <2>3. "destroyed" \in Places \ ({"idle", "dead", "save", "pause"} \cup Loops)
    BY DEF Places, Starting, Loops
  <2> QED
    BY <2>1, <2>2, <2>3, FirstCall
<1>4. CASE Again(t)
  <2>1. ops = 0 /\ pc[t] # "idle"
    BY <1>0, <1>4 DEF Again
  <2> QED
    BY <1>0, <2>1 DEF OneActs
<1>5. CASE Cancel(t)
  BY <1>5 DEF Cancel, OneActs, Acts, timerVars, envVars
<1>6. \A p \in Policies : p = "rolling"
  BY DEF OneRolling
<1> QED
  BY <1>1, <1>2, <1>3, <1>4, <1>5, <1>6 DEF Call

LEMMA NextActs ==
  ASSUME OneRolling, OneActs, Before, ConfigTypeOK, [Next]_vars
  PROVE  OneActs'
<1>1. CASE UNCHANGED vars
  BY <1>1 DEF vars, OneActs, Acts
<1>2. CASE \E t \in TimerTasks : Fire(t)
  BY <1>2 DEF Fire, OneActs
<1>3. CASE ResetLease
  BY <1>3 DEF ResetLease, OneActs
<1> QED
  BY <1>1, <1>2, <1>3, WorkActs, CallActs DEF Next

---------------------------------------------------------------------------
(* What a step does to the maps and to what the hosts are told. *)

LEMMA DesiredCounts ==
  ASSUME ConfigTypeOK
  PROVE  /\ Desired \in [Hosts -> Counts] /\ info \in [Hosts -> Counts]
         /\ cached \subseteq Hosts /\ NoCounts \in Counts
         /\ Leg(NoCounts) = 0 /\ AllOf(NoCounts) = 0
<1>1. NoCounts \in Counts
  BY DEF NoCounts, Counts
<1>2. \A h \in Hosts : Desired[h] \in Counts
  BY <1>1 DEF ConfigTypeOK, Desired
<1>3. \A v \in Vers : NoCounts[v] = 0
  BY DEF NoCounts
<1>4. Exp \in Vers /\ Legacy \subseteq Vers
  BY VersAssumption DEF Legacy
<1>5. Leg(NoCounts) = 0 /\ NoCounts[Exp] = 0
  BY <1>1, <1>3, <1>4, LegType
<1>6. Desired \in [Hosts -> Counts]
  BY <1>2 DEF Desired
<1> QED
  BY <1>1, <1>5, <1>6 DEF ConfigTypeOK, AllOf

\* Most steps do nothing to either.
LEMMA QuietKnown ==
  ASSUME NEW t \in Tasks, Known(t), pc[t] # "save", pc'[t] # "save",
         UNCHANGED <<info, cached, stored, fails>>
  PROVE  Known(t)' /\ Desired' = Desired
BY DEF Known, Desired, IsEmpty

\* A loop changes the map of a host.
LEMMA ChangeKnown ==
  ASSUME ConfigTypeOK, NEW t \in Tasks, Known(t), pc[t] # "save", DOMAIN pc = Tasks,
         NEW h \in Hosts, NEW f, NEW w, w = "delete" => f = NoCounts,
         w \in {"set", "delete"}, fails' = fails, Change(t, h, f, w)
  PROVE  /\ Known(t)' /\ Desired' = Desired
         /\ info' = [info EXCEPT ![h] = f] /\ pc'[t] = "save" /\ save'[t] = w
         /\ host'[t] = h
<1>1. /\ info' = [info EXCEPT ![h] = f] /\ pc'[t] = "save" /\ save'[t] = w
      /\ host'[t] = h /\ cached' = cached /\ stored' = stored
  BY DEF Change, ConfigTypeOK
<1>2. Desired' = Desired
  BY <1>1 DEF Desired
<1>3. info'[h] = f /\ \A k \in Hosts \ {h} : info'[k] = info[k]
  BY <1>1 DEF ConfigTypeOK
<1> QED
  BY <1>1, <1>2, <1>3 DEF Known, IsEmpty

\* ... and tells etcd, unless that fails.
LEMMA SaveKnown ==
  ASSUME ConfigTypeOK, Agree, NEW t \in Tasks, Known(t), Save(t), pc'[t] # "save"
  PROVE  /\ Known(t)' /\ UNCHANGED <<info, hc, num, base>>
         /\ Desired' \in {Desired, [Desired EXCEPT ![host[t]] = info[host[t]]]}
         /\ \E failed \in BOOLEAN :
              /\ fails' = IF failed /\ ~Missing(t) THEN fails + 1 ELSE fails
              /\ (~failed \/ Missing(t)) /\ (save[t] = "set" \/ fails = 0)
                   => Desired' = [Desired EXCEPT ![host[t]] = info[host[t]]]
              /\ LET op == Head(plan[t]).op IN
                 /\ left' = [left EXCEPT ![t] = IF op = "prune" THEN @ ELSE @ - 1]
                 /\ op # "remove" =>
                      /\ plan' = plan
                      /\ pc' = [pc EXCEPT ![t] = IF op = "update" THEN "pause" ELSE op]
                      /\ err' = [err EXCEPT ![t] = @ \/ failed]
<1> DEFINE h == host[t]
<1>1. PICK failed \in BOOLEAN :
         /\ Write(t, failed) /\ fails' = IF failed /\ ~Missing(t) THEN fails + 1 ELSE fails
         /\ LET op == Head(plan[t]).op IN
            /\ left' = [left EXCEPT ![t] = IF op = "prune" THEN @ ELSE @ - 1]
            /\ IF op = "remove" /\ (failed \/ left[t] = 0)
               THEN /\ plan' = [plan EXCEPT ![t] = IF failed THEN <<>> ELSE Tail(@)]
                    /\ pc' = [pc EXCEPT ![t] = "next"]
                    /\ err' = [err EXCEPT ![t] = failed]
               ELSE /\ plan' = plan
                    /\ pc' = [pc EXCEPT ![t] =
                                IF op \in {"update", "remove"} THEN "pause" ELSE op]
                    /\ err' = [err EXCEPT ![t] = @ \/ failed]
  BY DEF Save
<1>2. UNCHANGED <<info, hc, num, base, host, save>> /\ pc[t] = "save"
  BY DEF Save
<1>3. h \in Hosts /\ save[t] \in {"set", "delete"}
  BY DEF ConfigTypeOK
<1>4. Desired[h] = IF stored[h] = None THEN NoCounts ELSE stored[h]
  BY <1>3 DEF Desired
<1>5. info[h] \in Counts /\ info[h] # None
  BY <1>3, VersAssumption DEF ConfigTypeOK
<1>6. Desired' = [k \in Hosts |-> IF stored'[k] = None THEN NoCounts ELSE stored'[k]]
  BY DEF Desired
<1>7. CASE save[t] = "set"
  <2>1. cached' = cached \cup {h}
        /\ stored' = IF failed THEN stored ELSE [stored EXCEPT ![h] = info[h]]
    BY <1>1, <1>7 DEF Write
  <2>2. failed => Desired' = Desired
    BY <2>1 DEF Desired
  <2>3. ~failed => Desired' = [Desired EXCEPT ![h] = info[h]]
    BY <1>3, <1>5, <1>6, <2>1 DEF Desired, ConfigTypeOK
  <2>4. \A k \in Hosts \ cached' : IsEmpty(k)'
    BY <1>2, <1>7, <2>1 DEF Known, IsEmpty
  <2>5. ~Missing(t) /\ (fails' = 0 => ~failed /\ fails = 0)
    BY <1>1, <1>7 DEF Agree, Missing
  <2>6. fails' = 0 => \A k \in Hosts : Desired'[k] = info'[k]
    BY <1>2, <2>3, <2>5 DEF Known, Desired
  <2>7. Known(t)'
    BY <2>4, <2>6 DEF Known
  <2> QED
    BY <1>1, <1>2, <2>2, <2>3, <2>5, <2>7
<1>8. CASE save[t] = "delete"
  <2>1. info[h] = NoCounts
    BY <1>2, <1>8 DEF Known
  <2>2. cached' = IF cached = {} THEN cached ELSE cached \ {h}
    BY <1>1, <1>8 DEF Write
  <2>3. cached # {} => stored' = IF failed THEN stored ELSE [stored EXCEPT ![h] = None]
    BY <1>1, <1>8 DEF Write
  <2>4. cached = {} => stored' = stored /\ ~failed
    BY <1>1, <1>8 DEF Write
  <2>5. failed \/ cached = {} => Desired' = Desired
    BY <2>3, <2>4 DEF Desired
  <2>6. ~failed /\ cached # {} => Desired' = [Desired EXCEPT ![h] = info[h]]
    BY <1>3, <1>6, <2>1, <2>3 DEF Desired, ConfigTypeOK
  <2>7. cached = {} /\ fails = 0 => Desired = [Desired EXCEPT ![h] = info[h]]
    BY <1>3, <1>4, <2>1 DEF Agree, Desired
  <2>8. (~failed \/ Missing(t)) /\ fails = 0 => Desired' = [Desired EXCEPT ![h] = info[h]]
    <3>1. CASE Missing(t)
      <4>1. cached # {} /\ stored' = stored /\ Desired[h] = info[h]
        BY <1>3, <1>4, <2>1, <2>3, <3>1 DEF Missing, ConfigTypeOK
      <4> QED
        BY <4>1 DEF Desired
    <3> QED
      BY <2>5, <2>6, <2>7, <3>1
  <2>9. \A k \in Hosts \ cached' : IsEmpty(k)'
    BY <1>2, <1>8, <2>1, <2>2 DEF Known, IsEmpty
  <2>10. fails' = 0 => (~failed \/ Missing(t)) /\ fails = 0
    BY <1>1 DEF Agree
  <2>11. fails' = 0 => \A k \in Hosts : Desired'[k] = info'[k]
    BY <1>2, <2>8, <2>10 DEF Known, Desired
  <2>12. Known(t)'
    BY <2>9, <2>11 DEF Known
  <2> QED
    BY <1>1, <1>2, <1>8, <2>5, <2>6, <2>8, <2>12
<1> QED
  BY <1>3, <1>7, <1>8

\* A goroutine that has written does not write again at once.
LEMMA SaveLeaves ==
  ASSUME OneActs, NEW t \in Tasks, Save(t)
  PROVE  pc'[t] # "save"
<1>1. pc[t] = "save" /\ plan[t] \in Plans /\ plan[t] # <<>> /\ pc \in [Tasks -> Places]
  BY DEF Save, OneActs, Plans
<1>2. Head(plan[t]).op \in Loops
  BY <1>1, PlanHead
<1> QED
  BY <1>1, <1>2 DEF Save, Loops

LEMMA WorkKnown ==
  ASSUME ConfigTypeOK, OneActs, Agree, NEW t \in Tasks, Known(t), Acts(t),
         Work(t) \/ AddOne(t) \/ NoHost(t)
  PROVE  Known(t)'
<1>0. /\ pc \in [Tasks -> Places] /\ plan[t] \in Plans
      /\ pc[t] \in Loops \cup {"save", "pause"} => plan[t] # <<>>
  BY DEF OneActs, Plans
<1> DEFINE Quiet == UNCHANGED <<info, cached, stored, fails>>
<1> USE DEF cfgVars, envVars
<1>1. CASE Begin(t)
  <2>1. plan[t] # <<>> /\ pc[t] # "save"
    BY <1>1 DEF Begin, Starting
  <2>2. Head(plan[t]).op \in Loops
    BY <1>0, <2>1, PlanHead
  <2>3. pc'[t] # "save" /\ Quiet
    BY <1>0, <1>1, <2>2 DEF Begin, Loops
  <2> QED
    BY <2>1, <2>3, QuietKnown
<1>2. CASE Arm(t)
  <2>1. pc'[t] # "save" /\ pc[t] # "save" /\ Quiet
    BY <1>0, <1>2 DEF Arm, Starting
  <2> QED
    BY <2>1, QuietKnown
<1>3. CASE Return(t)
  <2>1. pc'[t] # "save" /\ pc[t] # "save" /\ Quiet
    BY <1>0, <1>3 DEF Return, Starting
  <2> QED
    BY <2>1, QuietKnown
<1>4. CASE Clear(t)
  BY <1>0, <1>4 DEF Clear, Places, Starting
<1>5. CASE UpdateOne(t)
  <2>1. pc[t] = "update" /\ fails' = fails
    BY <1>5 DEF UpdateOne, Change
  <2>2. PICK h, f : h \in hc[t] /\ Change(t, h, f, "set")
    BY <1>5 DEF UpdateOne
  <2>3. h \in Hosts
    BY <2>2 DEF ConfigTypeOK
  <2> QED
    BY <1>0, <2>1, <2>2, <2>3, ChangeKnown
<1>6. CASE RemoveOne(t)
  <2>1. pc[t] = "remove" /\ fails' = fails
    BY <1>6 DEF RemoveOne, Change
  <2>2. PICK h, f : h \in hc[t] /\ Change(t, h, f, IF f = NoCounts THEN "delete" ELSE "set")
    BY <1>6 DEF RemoveOne
  <2>3. h \in Hosts
    BY <2>2 DEF ConfigTypeOK
  <2> QED
    BY <1>0, <2>1, <2>2, <2>3, ChangeKnown
<1>7. CASE PruneOne(t)
  <2>1. pc[t] = "prune" /\ fails' = fails
    BY <1>7 DEF PruneOne, Change
  <2>2. PICK h, f : h \in hc[t] /\ Change(t, h, f, IF f = NoCounts THEN "delete" ELSE "set")
    BY <1>7 DEF PruneOne
  <2>3. h \in Hosts
    BY <2>2 DEF ConfigTypeOK
  <2> QED
    BY <1>0, <2>1, <2>2, <2>3, ChangeKnown
<1>8. CASE RemoveGone(t)
  <2>1. pc'[t] # "save" /\ pc[t] # "save" /\ Quiet
    BY <1>0, <1>8 DEF RemoveGone, EndCall
  <2> QED
    BY <2>1, QuietKnown
<1>9. CASE RemoveList(t) \/ Skip(t) \/ NoHost(t)
  <2>1. pc'[t] # "save" /\ pc[t] # "save" /\ Quiet
    BY <1>0, <1>9 DEF RemoveList, Skip, NoHost
  <2> QED
    BY <2>1, QuietKnown
<1>10. CASE EndLoop(t) \/ GiveUp(t)
  <2>1. pc'[t] # "save" /\ pc[t] # "save" /\ Quiet
    BY <1>0, <1>10 DEF EndLoop, GiveUp, EndCall
  <2> QED
    BY <2>1, QuietKnown
<1>11. CASE Resume(t)
  <2>1. pc[t] = "pause"
    BY <1>11 DEF Resume
  <2>2. Head(plan[t]).op \in Loops
    BY <1>0, <2>1, PlanHead
  <2>3. pc'[t] # "save" /\ Quiet
    BY <1>0, <1>11, <2>2 DEF Resume, Loops
  <2> QED
    BY <2>1, <2>3, QuietKnown
<1>12. CASE AddOne(t)
  <2>1. CASE \E h \in Offered : \E f : Change(t, h, f, "set")
    <3>1. PICK h, f : h \in Offered /\ Change(t, h, f, "set")
      BY <2>1
    <3>2. h \in Hosts /\ pc[t] = "add" /\ fails' = fails
      BY <1>12, <3>1, NumsAssumption DEF AddOne, Change
    <3> QED
      BY <1>0, <3>1, <3>2, ChangeKnown
  <2>2. CASE ~\E h \in Offered : \E f : Change(t, h, f, "set")
    <3>1. pc'[t] # "save" /\ pc[t] # "save" /\ Quiet
      BY <1>0, <1>12, <2>2 DEF AddOne
    <3> QED
      BY <3>1, QuietKnown
  <2> QED
    BY <2>1, <2>2
<1>13. CASE Save(t)
  BY <1>13, SaveKnown, SaveLeaves
<1> QED
  BY <1>1, <1>2, <1>3, <1>4, <1>5, <1>6, <1>7, <1>8, <1>9, <1>10, <1>11, <1>12, <1>13
  DEF Work


---------------------------------------------------------------------------
(* The phases of a rolling update. *)

\* A smooth deployment began with one legacy instance of a host at most.
LEMMA SmoothDef ==
  ASSUME OneActs, NEW t \in Tasks, Smooth(t)
  PROVE  /\ base[t] \in [Hosts -> Counts]
         /\ NumExp(base[t], Hosts) <= num
         /\ \A h \in Hosts : Leg(base[t][h]) <= 1
<1>1. base[t] \in [Hosts -> Counts]
  BY DEF OneActs
<1>2. \A h \in Hosts : NumUnexp(base[t], {h}) = Leg(base[t][h])
  BY <1>1, StatOne
<1> QED
  BY <1>1, <1>2 DEF Smooth

\* What the next call of a plan is.
LEMMA BeginStep ==
  ASSUME OneActs, ConfigTypeOK, NEW t \in Tasks, Begin(t)
  PROVE  /\ pc[t] \in Starting /\ plan[t] # <<>>
         /\ pc'[t] = plan[t][1].op
         /\ left'[t] = IF plan[t][1].op = "update" /\ plan[t][1].n > NumUnexp(info, cached)
                       THEN NumUnexp(info, cached) ELSE plan[t][1].n
         /\ hc'[t] = IF plan[t][1].op = "prune"
                        \/ (plan[t][1].op = "update" /\ plan[t][1].n > 0)
                     THEN cached ELSE {}
         /\ UNCHANGED <<info, cached, stored, num, plan, base, fails>>
<1>1. plan[t] \in Plans /\ plan[t] # <<>>
  BY DEF Begin, OneActs, Plans
<1>2. Head(plan[t]) = plan[t][1]
  BY <1>1, PlanHead
<1>3. t \in DOMAIN pc /\ t \in DOMAIN left /\ t \in DOMAIN hc
  BY DEF OneActs, ConfigTypeOK
<1> DEFINE s == plan[t][1]
<1>4. /\ pc[t] \in Starting /\ pc' = [pc EXCEPT ![t] = s.op]
      /\ left' = [left EXCEPT ![t] =
            IF s.op = "update" /\ s.n > NumUnexp(info, cached)
            THEN NumUnexp(info, cached) ELSE s.n]
      /\ hc' = [hc EXCEPT ![t] =
            IF s.op = "prune" \/ (s.op = "update" /\ s.n > 0) THEN cached ELSE {}]
      /\ UNCHANGED <<info, cached, stored, num, plan, base, fails>>
  BY <1>2 DEF Begin, cfgVars, envVars
<1> HIDE DEF s
<1>5. /\ pc'[t] = s.op
      /\ left'[t] = IF s.op = "update" /\ s.n > NumUnexp(info, cached)
                    THEN NumUnexp(info, cached) ELSE s.n
      /\ hc'[t] = IF s.op = "prune" \/ (s.op = "update" /\ s.n > 0) THEN cached ELSE {}
  BY <1>3, <1>4
<1> QED
  BY <1>1, <1>4, <1>5 DEF s

\* What a call under way is about.
LEMMA InCall ==
  ASSUME OneActs, ConfigTypeOK, NEW t \in Tasks, plan[t] # <<>>
  PROVE  /\ pc \in [Tasks -> Places] /\ left \in [Tasks -> Int] /\ err \in [Tasks -> BOOLEAN]
         /\ plan \in [Tasks -> Plans] /\ plan[t] \in Plans /\ Head(plan[t]) = plan[t][1]
         /\ num \in Nat /\ fails \in Nat
         /\ plan[t][1].op \in Loops /\ plan[t][1].n \in Int
         /\ Len(Tail(plan[t])) = Len(plan[t]) - 1 /\ Len(plan[t]) \in Nat
         /\ \A i \in 1..(Len(plan[t]) - 1) : Tail(plan[t])[i] = plan[t][i + 1]
         /\ Tail(plan[t]) \in Plans
         /\ host[t] \in Hosts /\ hc \in [Tasks -> SUBSET Hosts]
         /\ save \in [Tasks -> {"set", "delete"}] /\ host \in [Tasks -> Hosts]
         /\ base[t] \in [Hosts -> Counts]
<1>1. plan[t] \in Plans /\ plan \in [Tasks -> Plans]
  BY DEF OneActs, Plans
<1>2. num \in Nat
  BY NumsAssumption DEF OneActs
<1>3. /\ host[t] \in Hosts /\ hc \in [Tasks -> SUBSET Hosts]
      /\ save \in [Tasks -> {"set", "delete"}] /\ host \in [Tasks -> Hosts]
  BY DEF ConfigTypeOK
<1>4. /\ pc \in [Tasks -> Places] /\ left \in [Tasks -> Int] /\ err \in [Tasks -> BOOLEAN]
      /\ fails \in Nat /\ base[t] \in [Hosts -> Counts]
  BY DEF OneActs
<1>5. /\ Head(plan[t]) = plan[t][1] /\ plan[t][1].op \in Loops /\ plan[t][1].n \in Int
      /\ Tail(plan[t]) \in Plans /\ Len(plan[t]) \in Nat
      /\ Len(Tail(plan[t])) = Len(plan[t]) - 1
      /\ \A i \in 1..(Len(plan[t]) - 1) : Tail(plan[t])[i] = plan[t][i + 1]
  BY <1>1, PlanHead
<1> QED
  BY <1>1, <1>2, <1>3, <1>4, <1>5

\* What a write of a call other than remove does.
LEMMA WriteStep ==
  ASSUME ConfigTypeOK, OneActs, Agree, NEW t \in Tasks, Known(t), Save(t),
         NEW op, plan[t][1].op = op, op # "remove"
  PROVE  /\ pc[t] = "save" /\ UNCHANGED <<info, hc, num, base, plan>>
         /\ left'[t] = IF op = "prune" THEN left[t] ELSE left[t] - 1
         /\ pc'[t] = IF op = "update" THEN "pause" ELSE op
         /\ \A h \in Hosts : Desired'[h] = Desired[h] \/ (h = host[t] /\ Desired'[h] = info[h])
         /\ fails' = 0 => fails = 0
         /\ \E failed \in BOOLEAN :
              /\ err'[t] <=> err[t] \/ failed
              /\ fails' = 0 /\ save[t] = "set" => ~failed
              /\ fails' = 0 \/ (~failed /\ (save[t] = "set" \/ fails = 0)) =>
                   \A h \in Hosts : Desired'[h] = IF h = host[t] THEN info[h] ELSE Desired[h]
<1>1. pc[t] = "save" /\ plan[t] # <<>> /\ pc'[t] # "save"
  BY SaveLeaves DEF Save, OneActs
<1>2. /\ Head(plan[t]).op = op /\ host[t] \in Hosts
      /\ pc \in [Tasks -> Places] /\ left \in [Tasks -> Int] /\ err \in [Tasks -> BOOLEAN]
      /\ fails \in Nat
  BY <1>1, InCall
<1>3. Desired \in [Hosts -> Counts]
  BY DesiredCounts
<1>4. /\ UNCHANGED <<info, hc, num, base>>
      /\ Desired' \in {Desired, [Desired EXCEPT ![host[t]] = info[host[t]]]}
  BY <1>1, SaveKnown
<1>5. \A h \in Hosts : Desired'[h] = Desired[h] \/ (h = host[t] /\ Desired'[h] = info[h])
  BY <1>2, <1>3, <1>4
<1>6. PICK failed \in BOOLEAN :
         /\ (~failed \/ Missing(t)) /\ (save[t] = "set" \/ fails = 0)
              => Desired' = [Desired EXCEPT ![host[t]] = info[host[t]]]
         /\ fails' = IF failed /\ ~Missing(t) THEN fails + 1 ELSE fails
         /\ left' = [left EXCEPT ![t] = IF Head(plan[t]).op = "prune" THEN @ ELSE @ - 1]
         /\ Head(plan[t]).op # "remove" =>
              /\ plan' = plan
              /\ pc' = [pc EXCEPT ![t] =
                         IF Head(plan[t]).op = "update" THEN "pause" ELSE Head(plan[t]).op]
              /\ err' = [err EXCEPT ![t] = @ \/ failed]
  BY <1>1, SaveKnown
<1>7. fails' = 0 => (~failed \/ Missing(t)) /\ fails = 0
  BY <1>2, <1>6
<1>8. save[t] = "set" => ~Missing(t)
  BY DEF Missing
<1>9. fails' = 0 \/ (~failed /\ (save[t] = "set" \/ fails = 0)) =>
        \A h \in Hosts : Desired'[h] = IF h = host[t] THEN info[h] ELSE Desired[h]
  BY <1>2, <1>3, <1>6, <1>7
<1>10. left'[t] = IF op = "prune" THEN left[t] ELSE left[t] - 1
  BY <1>2, <1>6
<1>11. pc'[t] = IF op = "update" THEN "pause" ELSE op
  BY <1>2, <1>6
<1>12. err'[t] <=> err[t] \/ failed
  BY <1>2, <1>6
<1>13. plan' = plan
  BY <1>2, <1>6
<1> QED
  BY <1>1, <1>4, <1>5, <1>7, <1>8, <1>9, <1>10, <1>11, <1>12, <1>13

\* Nothing that ran is missing while instances are added.
LEMMA AddingEnough ==
  ASSUME ConfigTypeOK, OneActs, NEW t \in Tasks, Adding(t)
  PROVE  Enough(t)
<1>1. /\ Desired \in [Hosts -> Counts] /\ base[t] \in [Hosts -> Counts]
  BY DesiredCounts DEF OneActs
<1>2. \A h \in Hosts : /\ \A v \in Legacy : Desired[h][v] = base[t][h][v]
                       /\ Desired[h][Exp] >= base[t][h][Exp]
  BY DEF Adding
<1>3. ASSUME NEW h \in Hosts
      PROVE  AllOf(base[t][h]) <= AllOf(Desired[h])
  <2>1. Leg(Desired[h]) = Leg(base[t][h])
    BY <1>1, <1>2, LegSame
  <2>2. /\ Leg(Desired[h]) \in Nat /\ Desired[h][Exp] \in Nat
        /\ Leg(base[t][h]) \in Nat /\ base[t][h][Exp] \in Nat
    BY <1>1, LegType
  <2> QED
    BY <1>2, <2>1, <2>2 DEF AllOf
<1>4. Total(base[t]) <= Total(Desired) /\ Total(base[t]) \in Nat /\ Total(Desired) \in Nat
  BY <1>1, <1>3, TotalAtMost, TotalSum
<1> QED
  BY <1>4 DEF Enough

\* A call has failed: the plan is given up.
LEMMA GivenUp ==
  ASSUME ConfigTypeOK, OneActs, NEW t \in Tasks, EndCall(t, TRUE), Enough(t)
  PROVE  Ended(t)'
<1>1. /\ plan'[t] = <<>> /\ pc'[t] = "next" /\ err'[t] = TRUE
      /\ UNCHANGED <<num, stored, base>>
  BY DEF EndCall, OneActs, cfgVars
<1>2. Desired' = Desired
  BY <1>1 DEF Desired
<1>3. Enough(t)'
  BY <1>1, <1>2 DEF Enough
<1> QED
  BY <1>1, <1>3 DEF Ended, Starting

LEMMA StepAdding ==
  ASSUME ConfigTypeOK, OneActs, Agree, NEW t \in Tasks, Known(t), Smooth(t), Adding(t),
         Work(t) \/ AddOne(t) \/ NoHost(t)
  PROVE  Phase(t)'
<1> DEFINE B == base[t]
           u == NumUnexp(B, Hosts)
<1>0. /\ Len(plan[t]) = 3 /\ plan[t] # <<>> /\ plan[t][1].op = "add"
      /\ plan[t][2] = Step("update", u) /\ plan[t][3] = Step("prune", 0)
      /\ pc[t] \in Starting \cup {"add", "save"}
      /\ \A h \in Hosts : /\ \A v \in Legacy : Desired[h][v] = B[h][v] /\ info[h][v] = B[h][v]
                          /\ Desired[h][Exp] >= B[h][Exp] /\ info[h][Exp] >= B[h][Exp]
      /\ NumExp(info, Hosts) + ToDo(t) + u = num /\ ToDo(t) \in Nat
      /\ pc[t] \in Starting => ~err[t]
      /\ ~err[t] =>
           \A h \in Hosts : Desired[h] = info[h] \/ (pc[t] = "save" /\ host[t] = h)
      /\ pc[t] = "save" => save[t] = "set"
  BY DEF Adding
<1>T. /\ pc \in [Tasks -> Places] /\ left \in [Tasks -> Int] /\ err \in [Tasks -> BOOLEAN]
      /\ Head(plan[t]) = plan[t][1] /\ num \in Nat /\ B \in [Hosts -> Counts]
      /\ info \in [Hosts -> Counts] /\ Desired \in [Hosts -> Counts] /\ host[t] \in Hosts
      /\ plan \in [Tasks -> Plans] /\ u \in Nat
      /\ Len(Tail(plan[t])) = 2
      /\ Tail(plan[t])[1] = plan[t][2] /\ Tail(plan[t])[2] = plan[t][3]
  <2>1. /\ pc \in [Tasks -> Places] /\ left \in [Tasks -> Int] /\ err \in [Tasks -> BOOLEAN]
        /\ Head(plan[t]) = plan[t][1] /\ num \in Nat /\ B \in [Hosts -> Counts]
        /\ host[t] \in Hosts
        /\ Len(Tail(plan[t])) = Len(plan[t]) - 1
        /\ \A i \in 1..(Len(plan[t]) - 1) : Tail(plan[t])[i] = plan[t][i + 1]
        /\ plan \in [Tasks -> Plans]
    BY <1>0, InCall
  <2>2. info \in [Hosts -> Counts] /\ Desired \in [Hosts -> Counts]
    BY DesiredCounts
  <2>3. u \in Nat
    BY <2>1, StatType
  <2>4. /\ Len(Tail(plan[t])) = 2
        /\ Tail(plan[t])[1] = plan[t][2] /\ Tail(plan[t])[2] = plan[t][3]
    <3>1. Len(plan[t]) = 3
      BY <1>0
    <3>2. /\ Len(Tail(plan[t])) = 3 - 1
          /\ \A i \in 1..(3 - 1) : Tail(plan[t])[i] = plan[t][i + 1]
      BY <2>1, <3>1
    <3>3. 1 \in 1..(3 - 1) /\ 2 \in 1..(3 - 1) /\ 3 - 1 = 2
      OBVIOUS
    <3> QED
      BY ONLY <3>2, <3>3
  <2> HIDE DEF u
  <2> QED
    BY <2>1, <2>2, <2>3, <2>4
<1>E. Enough(t)
  BY AddingEnough
<1>P. /\ "add" \notin Starting /\ "save" \notin Starting /\ "next" \in Starting
  BY DEF Starting
<1> HIDE DEF B, u
\* The loop goes on.
<1>A. ASSUME UNCHANGED <<num, plan, base>>, pc'[t] \in {"add", "save"},
             \A h \in Hosts : /\ \A v \in Legacy : Desired'[h][v] = B[h][v] /\ info'[h][v] = B[h][v]
                              /\ Desired'[h][Exp] >= B[h][Exp] /\ info'[h][Exp] >= B[h][Exp],
             NumExp(info, Hosts)' + ToDo(t)' = NumExp(info, Hosts) + ToDo(t),
             ToDo(t)' \in Nat,
             ~err'[t] =>
               \A h \in Hosts : Desired'[h] = info'[h] \/ (pc'[t] = "save" /\ host'[t] = h),
             pc'[t] = "save" => save'[t] = "set"
      PROVE  Adding(t)'
  <2>1. NumExp(info, Hosts) \in Nat
    BY <1>T, StatType
  <2>2. NumExp(info, Hosts)' + ToDo(t)' + u = num
    BY <1>0, <1>A, <2>1
  <2> QED
    BY <1>0, <1>A, <1>P, <2>2 DEF Adding, B, u
<1>1. CASE Begin(t)
  <2>1. /\ pc[t] \in Starting /\ pc'[t] = "add" /\ left'[t] = plan[t][1].n
        /\ UNCHANGED <<info, stored, num, plan, base>>
    BY <1>0, <1>1, BeginStep
  <2>2. Desired' = Desired
    BY <2>1 DEF Desired
  <2>3. ToDo(t)' = ToDo(t)
    BY <1>P, <2>1 DEF ToDo
  <2>4. \A h \in Hosts : Desired[h] = info[h]
    BY <1>0, <1>P, <2>1
  <2> QED
    BY <1>0, <1>A, <2>1, <2>2, <2>3, <2>4 DEF Phase
<1>2. CASE AddOne(t)
  <2>1. /\ pc[t] = "add" /\ left[t] > 0 /\ ToDo(t) = left[t]
        /\ UNCHANGED <<num, plan, base, left, err, stored, fails>>
    BY <1>2, <1>P DEF AddOne, Change, ToDo, cfgVars, envVars
  <2>2. Desired' = Desired
    BY <2>1 DEF Desired
  <2>3. CASE pc' = [x \in Tasks |-> "dead"]
    <3>1. Enough(t)'
      BY <1>E, <2>1, <2>2 DEF Enough
    <3> QED
      BY <2>3, <3>1 DEF Phase
  <2>4. CASE ~(pc' = [x \in Tasks |-> "dead"])
    <3>1. PICK h \in Hosts : Change(t, h, [info[h] EXCEPT ![Exp] = @ + 1], "set")
      BY <1>2, <2>4, NumsAssumption DEF AddOne
    <3>2. /\ info' = [info EXCEPT ![h] = [info[h] EXCEPT ![Exp] = @ + 1]]
          /\ pc'[t] = "save" /\ save'[t] = "set" /\ host'[t] = h
      <4> DEFINE f == [info[h] EXCEPT ![Exp] = @ + 1]
      <4>1. Change(t, h, f, "set") /\ DOMAIN pc = Tasks
        BY <1>T, <3>1
      <4> HIDE DEF f
      <4>2. /\ info' = [info EXCEPT ![h] = f]
            /\ pc'[t] = "save" /\ save'[t] = "set" /\ host'[t] = h
        BY <2>1, <4>1, ChangeKnown
      <4> QED
        BY <4>2 DEF f
    <3>3. Exp \in Vers /\ Legacy \subseteq Vers /\ Exp \notin Legacy
      BY VersAssumption DEF Legacy
    <3>4. /\ info'[h][Exp] = info[h][Exp] + 1 /\ \A v \in Legacy : info'[h][v] = info[h][v]
          /\ \A k \in Hosts \ {h} : info'[k] = info[k]
          /\ info' \in [Hosts -> Counts]
      <4>1. info[h] \in [Vers -> Nat]
        BY <1>T DEF Counts
      <4>2. [info[h] EXCEPT ![Exp] = @ + 1] \in [Vers -> Nat]
        BY <3>3, <4>1
      <4> QED
        BY <1>T, <3>2, <3>3, <4>1, <4>2 DEF Counts
    <3>5. NumExp(info', Hosts) = NumExp(info, Hosts) + 1
      <4>1. NumExp(info', Hosts) = NumExp(info, Hosts) + info'[h][Exp] - info[h][Exp]
        BY <1>T, <3>4, StatChange
      <4>2. NumExp(info, Hosts) \in Nat /\ info[h][Exp] \in Nat
        BY <1>T, StatType, LegType
      <4> QED
        BY <3>4, <4>1, <4>2
    <3>6. NumExp(info, Hosts)' = NumExp(info, Hosts) + 1
      BY <3>5
    <3>7. ToDo(t)' = left[t] - 1
      BY <1>P, <2>1, <3>2 DEF ToDo
    <3>8. \A k \in Hosts : /\ \A v \in Legacy : info'[k][v] = B[k][v]
                           /\ info'[k][Exp] >= B[k][Exp]
      <4>1. \A k \in Hosts : info[k][Exp] \in Nat /\ B[k][Exp] \in Nat
        BY <1>T, LegType
      <4> QED
        BY <1>0, <3>4, <4>1
    <3>9. ~err'[t] => \A k \in Hosts : Desired'[k] = info'[k] \/ host'[t] = k
      BY <1>0, <2>1, <2>2, <3>2, <3>4
    <3>10. NumExp(info, Hosts) \in Nat
      BY <1>T, StatType
    <3>11. /\ NumExp(info, Hosts)' + ToDo(t)' = NumExp(info, Hosts) + ToDo(t)
           /\ ToDo(t)' \in Nat
      BY <1>0, <2>1, <3>6, <3>7, <3>10
    <3> QED
      BY <1>0, <1>A, <2>1, <2>2, <3>2, <3>8, <3>9, <3>11 DEF Phase
  <2> QED
    BY <2>3, <2>4
<1>3. CASE NoHost(t)
  <2>1. /\ pc[t] = "add" /\ err'[t] = TRUE
        /\ UNCHANGED <<info, stored, pc, left, num, plan, base>>
    BY <1>3, <1>T DEF NoHost, cfgVars
  <2>2. Desired' = Desired
    BY <2>1 DEF Desired
  <2>3. ToDo(t)' = ToDo(t)
    BY <2>1 DEF ToDo
  <2> QED
    BY <1>0, <1>A, <2>1, <2>2, <2>3 DEF Phase
<1>4. CASE GiveUp(t)
  BY <1>4, <1>E, GivenUp DEF GiveUp, Phase
<1>5. CASE EndLoop(t)
  <2>1. pc[t] = "add" /\ left[t] = 0 /\ EndCall(t, err[t])
    BY <1>5, <1>0 DEF EndLoop, Starting
  <2>2. CASE err[t]
    <3>1. EndCall(t, TRUE)
      BY <1>T, <2>1, <2>2 
    <3> QED
      BY <1>E, <3>1, GivenUp DEF Phase
  <2>3. CASE ~err[t]
    <3>1. /\ plan'[t] = Tail(plan[t]) /\ pc'[t] = "next"
          /\ UNCHANGED <<info, stored, num, base>>
      BY <1>T, <2>1, <2>3 DEF EndCall, cfgVars
    <3>2. Desired' = info /\ Desired = info
      <4>1. Desired' = Desired
        BY <3>1 DEF Desired
      <4>2. \A h \in Hosts : Desired[h] = info[h]
        BY <1>0, <2>1, <2>3
      <4>3. Desired = info
        BY <1>T, <4>2
      <4> QED
        BY <4>1, <4>3
    <3>3. ToDo(t) = 0
      BY <2>1 DEF ToDo, Starting
    <3>11. Len(plan'[t]) = 2 /\ plan'[t][1] = Step("update", u) /\ plan'[t][2] = Step("prune", 0)
      BY <1>0, <1>T, <3>1
    <3>4. ToDo(t)' = u /\ plan'[t][1].op = "update"
      <4>1. plan'[t][1].n = u /\ plan'[t][1].op = "update"
        BY ONLY <3>11 DEF Step
      <4>2. pc'[t] \in Starting
        BY <1>P, <3>1
      <4> QED
        BY <4>1, <4>2 DEF ToDo
    <3>5. \A h \in Hosts : Leg(info[h]) = Leg(B[h])
      BY <1>0, <1>T, LegSame
    <3>6. NumUnexp(info, Hosts) = u
      <4> DEFINE f == [h \in Hosts |-> Leg(info[h])]
                 g == [h \in Hosts |-> Leg(B[h])]
      <4>1. f = g
        BY <3>5
      <4>2. NumUnexp(info, Hosts) = SumOf(f, Hosts)
        BY <1>T, StatType
      <4>3. NumUnexp(B, Hosts) = SumOf(g, Hosts)
        BY <1>T, StatType
      <4> QED
        BY <4>1, <4>2, <4>3 DEF u
    <3>7. \A h \in Hosts : Leg(info[h]) <= 1 /\ AllOf(info[h]) \in Nat
      BY <1>T, <3>5, SmoothDef, LegType DEF B
    <3>8. NumExp(info, Hosts) \in Nat
      BY <1>T, StatType
    <3>9. NumExp(info, Hosts) + u = num
      BY <1>0, <1>T, <3>3, <3>8
    <3>10. NumExp(info, Hosts)' = NumExp(info, Hosts) /\ NumUnexp(info, Hosts)' = NumUnexp(info, Hosts)
      BY <3>1
    <3>12. \A h \in Hosts : AllOf(Desired'[h]) >= AllOf(info'[h]) /\ Leg(info'[h]) <= 1
      BY <3>1, <3>2, <3>7
    <3>13. Updating(t)'
      BY <1>T, <1>P, <3>1, <3>4, <3>6, <3>8, <3>9, <3>10, <3>11, <3>12 DEF Updating
    <3> QED
      BY <3>13 DEF Phase
  <2> QED
    BY <1>T, <2>2, <2>3
<1>6. CASE Save(t)
  <2>1. /\ pc[t] = "save" /\ UNCHANGED <<info, num, base, plan>>
        /\ left'[t] = left[t] - 1 /\ pc'[t] = "add"
        /\ \A h \in Hosts : Desired'[h] = Desired[h] \/ Desired'[h] = info[h]
    BY <1>0, <1>6, WriteStep
  <2>2. PICK failed \in BOOLEAN :
          /\ err'[t] <=> err[t] \/ failed
          /\ ~failed =>
               \A h \in Hosts : Desired'[h] = IF h = host[t] THEN info[h] ELSE Desired[h]
    BY <1>0, <1>6, <2>1, WriteStep
  <2>3. ToDo(t)' = ToDo(t)
    BY <1>P, <2>1 DEF ToDo
  <2>4. \A h \in Hosts : /\ \A v \in Legacy : Desired'[h][v] = B[h][v]
                         /\ Desired'[h][Exp] >= B[h][Exp]
    BY <1>0, <2>1
  <2>5. ~err'[t] => \A h \in Hosts : Desired'[h] = info[h]
    BY <1>0, <2>2
  <2>6. NumExp(info, Hosts)' = NumExp(info, Hosts)
    BY <2>1
  <2> QED
    BY <1>0, <1>A, <2>1, <2>3, <2>4, <2>5, <2>6 DEF Phase
<1>7. ~Arm(t)
  BY <1>0, <1>T DEF Arm
<1>8. ~(Return(t) \/ Clear(t) \/ UpdateOne(t) \/ RemoveOne(t) \/ RemoveGone(t) \/ RemoveList(t)
        \/ PruneOne(t) \/ Skip(t) \/ Resume(t))
  BY <1>0 DEF Return, Clear, UpdateOne, RemoveOne, RemoveGone, RemoveList, PruneOne, Skip,
              Resume, Starting
<1> QED
  BY <1>1, <1>2, <1>3, <1>4, <1>5, <1>6, <1>7, <1>8 DEF Work

LEMMA OneElement ==
  ASSUME NEW C, NEW s \in Seq(C), Len(s) = 1
  PROVE  s = <<s[1]>>
OBVIOUS

\* As much as is asked for runs while instances are replaced, and after.
LEMMA TotalEnough ==
  ASSUME ConfigTypeOK, OneActs, NEW t \in Tasks,
         \A h \in Hosts : AllOf(Desired[h]) >= AllOf(info[h]),
         NumExp(info, Hosts) + NumUnexp(info, Hosts) >= num
  PROVE  Enough(t)
<1>1. Desired \in [Hosts -> Counts] /\ info \in [Hosts -> Counts]
  BY DesiredCounts
<1>2. \A h \in Hosts : AllOf(info[h]) <= AllOf(Desired[h])
  <2>1. \A h \in Hosts : AllOf(info[h]) \in Nat /\ AllOf(Desired[h]) \in Nat
    BY <1>1, LegType
  <2> QED
    BY <2>1
<1>3. Total(info) <= Total(Desired) /\ Total(info) \in Nat /\ Total(Desired) \in Nat
  BY <1>1, <1>2, TotalAtMost, TotalSum
<1>4. num \in Nat /\ Total(info) >= num
  BY NumsAssumption DEF OneActs, Total
<1> QED
  BY <1>3, <1>4 DEF Enough

LEMMA StepUpdating ==
  ASSUME ConfigTypeOK, OneActs, Agree, NEW t \in Tasks, Known(t), Updating(t),
         Work(t) \/ AddOne(t) \/ NoHost(t)
  PROVE  Phase(t)'
<1> DEFINE X == NumExp(info, Hosts)
           Y == NumUnexp(info, Hosts)
<1>0. /\ Len(plan[t]) = 2 /\ plan[t] # <<>> /\ plan[t][1].op = "update"
      /\ plan[t][2] = Step("prune", 0)
      /\ pc[t] \in Starting \cup {"update", "save", "pause"}
      /\ \A h \in Hosts : AllOf(Desired[h]) >= AllOf(info[h]) /\ Leg(info[h]) <= 1
      /\ X + Y >= num /\ X + ToDo(t) = num /\ ToDo(t) \in Nat
      /\ pc[t] \notin Starting /\ ToDo(t) > 0 =>
           \A h \in Hosts \ hc[t] : Leg(info[h]) = 0
      /\ pc[t] = "save" => save[t] = "set"
  BY DEF Updating
<1>T. /\ pc \in [Tasks -> Places] /\ left \in [Tasks -> Int] /\ err \in [Tasks -> BOOLEAN]
      /\ Head(plan[t]) = plan[t][1] /\ num \in Nat
      /\ info \in [Hosts -> Counts] /\ Desired \in [Hosts -> Counts]
      /\ host[t] \in Hosts /\ hc \in [Tasks -> SUBSET Hosts]
      /\ plan \in [Tasks -> Plans] /\ Tail(plan[t]) = <<Step("prune", 0)>>
      /\ X \in Nat /\ Y \in Nat
  <2>1. /\ pc \in [Tasks -> Places] /\ left \in [Tasks -> Int] /\ err \in [Tasks -> BOOLEAN]
        /\ Head(plan[t]) = plan[t][1] /\ num \in Nat
        /\ host[t] \in Hosts /\ hc \in [Tasks -> SUBSET Hosts]
        /\ Len(Tail(plan[t])) = Len(plan[t]) - 1
        /\ \A i \in 1..(Len(plan[t]) - 1) : Tail(plan[t])[i] = plan[t][i + 1]
        /\ plan \in [Tasks -> Plans] /\ Tail(plan[t]) \in Plans
    BY <1>0, InCall
  <2>2. info \in [Hosts -> Counts] /\ Desired \in [Hosts -> Counts]
    BY DesiredCounts
  <2>3. X \in Nat /\ Y \in Nat
    BY <2>2, StatType
  <2>4. Tail(plan[t]) = <<Step("prune", 0)>>
    <3>1. Len(plan[t]) = 2 /\ plan[t][2] = Step("prune", 0)
      BY <1>0
    <3>2. /\ Len(Tail(plan[t])) = 2 - 1
          /\ \A i \in 1..(2 - 1) : Tail(plan[t])[i] = plan[t][i + 1]
      BY <2>1, <3>1
    <3>3. 1 \in 1..(2 - 1) /\ 2 - 1 = 1 /\ 1 + 1 = 2
      OBVIOUS
    <3>4. Len(Tail(plan[t])) = 1 /\ Tail(plan[t])[1] = Step("prune", 0)
      BY ONLY <3>1, <3>2, <3>3
    <3>5. Tail(plan[t]) \in Seq([op : Loops, n : Int])
      BY <2>1 DEF Plans
    <3> QED
      BY ONLY <3>4, <3>5, OneElement
  <2> HIDE DEF X, Y
  <2> QED
    BY <2>1, <2>2, <2>3, <2>4
<1>E. Enough(t)
  BY <1>0, TotalEnough
<1>P. /\ {"update", "save", "pause"} \cap Starting = {} /\ "next" \in Starting
  BY DEF Starting
<1>G. \A h \in Hosts : Leg(info[h]) \in Nat /\ AllOf(info[h]) \in Nat /\ AllOf(Desired[h]) \in Nat
  BY <1>T, LegType
\* The loop goes on.
<1>A. ASSUME UNCHANGED <<num, plan>>, pc'[t] \in {"update", "save", "pause"},
             \A h \in Hosts : AllOf(Desired'[h]) >= AllOf(info'[h]) /\ Leg(info'[h]) <= 1,
             X' + Y' = X + Y, X' + ToDo(t)' = X + ToDo(t), ToDo(t)' \in Nat,
             ToDo(t)' > 0 => \A h \in Hosts \ hc'[t] : Leg(info'[h]) = 0,
             pc'[t] = "save" => save'[t] = "set"
      PROVE  Phase(t)'
  <2> HIDE DEF X, Y
  <2>1. X' + Y' >= num /\ X' + ToDo(t)' = num
    BY <1>0, <1>A
  <2>2. Updating(t)'
    BY <1>0, <1>A, <1>P, <2>1 DEF Updating, X, Y
  <2> QED
    BY <2>2 DEF Phase
\* ... or is over.
<1>D. ASSUME UNCHANGED <<num, plan, info, stored>>, pc'[t] \in {"update", "save", "pause"},
             ToDo(t)' = ToDo(t),
             ToDo(t)' > 0 => \A h \in Hosts \ hc'[t] : Leg(info'[h]) = 0,
             pc'[t] = "save" => save'[t] = "set"
      PROVE  Phase(t)'
  <2>1. Desired' = Desired
    BY <1>D DEF Desired
  <2>2. X' = X /\ Y' = Y
    BY <1>D
  <2> HIDE DEF X, Y
  <2> QED
    BY <1>0, <1>A, <1>D, <2>1, <2>2
<1>1. CASE Begin(t)
  <2>1. /\ pc[t] \in Starting /\ pc'[t] = "update"
        /\ left'[t] = IF plan[t][1].n > NumUnexp(info, cached)
                      THEN NumUnexp(info, cached) ELSE plan[t][1].n
        /\ hc'[t] = IF plan[t][1].n > 0 THEN cached ELSE {}
        /\ UNCHANGED <<info, stored, num, plan>>
    BY <1>0, <1>1, BeginStep
  <2>2. ToDo(t) = plan[t][1].n /\ ToDo(t)' = left'[t]
    BY <1>P, <2>1 DEF ToDo
  <2>3. \A h \in Hosts \ cached : info[h] = NoCounts
    BY <1>P, <2>1 DEF Known, IsEmpty
  <2>4. NumUnexp(info, cached) = Y
    BY <1>T, <2>3, StatCached DEF ConfigTypeOK
  <2>5. \A h \in Hosts \ cached : Leg(info[h]) = 0
    BY <2>3, DesiredCounts
  <2> HIDE DEF X, Y
  <2>6. ToDo(t)' = ToDo(t)
    BY <1>0, <1>T, <2>1, <2>2, <2>4
  <2>7. ToDo(t)' > 0 => \A h \in Hosts \ hc'[t] : Leg(info'[h]) = 0
    BY <2>1, <2>2, <2>5, <2>6
  <2> QED
    BY <1>D, <2>1, <2>6, <2>7
<1>2. CASE UpdateOne(t)
  <2>1. /\ pc[t] = "update" /\ left[t] > 0 /\ ToDo(t) = left[t]
        /\ UNCHANGED <<num, plan, left, stored, fails>>
    BY <1>2, <1>P DEF UpdateOne, Change, ToDo, cfgVars, envVars
  <2>2. PICK h \in hc[t], v \in Legacy :
          /\ info[h][v] > 0 /\ hc' = [hc EXCEPT ![t] = @ \ {h}]
          /\ Change(t, h, [info[h] EXCEPT ![Exp] = @ + 1, ![v] = @ - 1], "set")
    BY <1>2 DEF UpdateOne
  <2>3. h \in Hosts /\ hc'[t] = hc[t] \ {h}
    BY <1>T, <2>2
  <2> DEFINE f == [info[h] EXCEPT ![Exp] = @ + 1, ![v] = @ - 1]
  <2>4. Exp \in Vers /\ Legacy \subseteq Vers /\ Exp \notin Legacy
    BY VersAssumption DEF Legacy
  <2>5. /\ f[Exp] = info[h][Exp] + 1 /\ f[v] = info[h][v] - 1
        /\ \A w \in Legacy \ {v} : f[w] = info[h][w]
        /\ f \in Counts
    <3>1. info[h] \in [Vers -> Nat]
      BY <1>T, <2>3 DEF Counts
    <3>2. f \in [Vers -> Nat]
      BY <2>2, <2>4, <3>1
    <3> QED
      BY <2>4, <3>1, <3>2 DEF Counts
  <2>6. Change(t, h, f, "set") /\ DOMAIN pc = Tasks
    BY <1>T, <2>2
  <2> HIDE DEF f, X, Y
  <2>7. /\ Desired' = Desired /\ info' = [info EXCEPT ![h] = f]
        /\ pc'[t] = "save" /\ save'[t] = "set"
    BY <2>1, <2>3, <2>6, ChangeKnown
  <2>8. /\ info'[h] = f /\ \A k \in Hosts \ {h} : info'[k] = info[k]
        /\ info' \in [Hosts -> Counts]
    BY <1>T, <2>3, <2>5, <2>7
  <2>9. Leg(f) = Leg(info[h]) - 1
    BY <1>T, <2>3, <2>5, LegLess
  <2>10. Leg(info[h]) = 1 /\ Leg(f) = 0 /\ AllOf(f) = AllOf(info[h])
    <3>1. Leg(f) \in Nat /\ info[h][Exp] \in Nat
      BY <1>T, <2>3, <2>5, LegType
    <3> QED
      BY <1>0, <1>G, <2>3, <2>5, <2>9, <3>1 DEF AllOf
  <2>11. X' = X + 1 /\ Y' = Y - 1
    <3>1. /\ NumExp(info', Hosts) = NumExp(info, Hosts) + info'[h][Exp] - info[h][Exp]
          /\ NumUnexp(info', Hosts) = NumUnexp(info, Hosts) + Leg(info'[h]) - Leg(info[h])
      BY <1>T, <2>3, <2>8, StatChange
    <3>2. X' = NumExp(info', Hosts) /\ Y' = NumUnexp(info', Hosts)
      BY DEF X, Y
    <3>3. info[h][Exp] \in Nat
      BY <1>T, <2>3, LegType
    <3>4. X' = X + info'[h][Exp] - info[h][Exp] /\ Y' = Y + Leg(info'[h]) - Leg(info[h])
      BY <3>1, <3>2 DEF X, Y
    <3> QED
      BY <1>T, <2>5, <2>8, <2>10, <3>3, <3>4
  <2>12. ToDo(t)' = left[t] - 1
    BY <1>P, <2>1, <2>7 DEF ToDo
  <2>13. \A k \in Hosts : AllOf(Desired'[k]) >= AllOf(info'[k]) /\ Leg(info'[k]) <= 1
    BY <1>0, <2>7, <2>8, <2>10
  <2>14. \A k \in Hosts \ hc'[t] : Leg(info'[k]) = 0
    BY <1>0, <1>P, <2>1, <2>3, <2>8, <2>10
  <2>15. X' + Y' = X + Y /\ X' + ToDo(t)' = X + ToDo(t) /\ ToDo(t)' \in Nat
    BY <1>0, <1>T, <2>1, <2>11, <2>12
  <2> QED
    BY <1>A, <2>1, <2>7, <2>13, <2>14, <2>15
<1>3. CASE Skip(t)
  <2>1. PICK h \in hc[t] :
          /\ pc[t] = "update" /\ ~HasLegacy(h) /\ hc' = [hc EXCEPT ![t] = @ \ {h}]
          /\ UNCHANGED <<info, stored, num, pc, plan, left>>
    BY <1>0, <1>3, <1>P DEF Skip, cfgVars, Starting
  <2>2. ToDo(t)' = ToDo(t)
    BY <2>1 DEF ToDo
  <2>3. h \in Hosts /\ hc'[t] = hc[t] \ {h}
    BY <1>T, <2>1
  <2>4. Leg(info[h]) = 0
    <3>1. \A v \in Legacy : info[h][v] \in Nat /\ ~(info[h][v] > 0)
      BY <1>T, <2>1, <2>3, LegType DEF HasLegacy
    <3>2. \A v \in Legacy : info[h][v] = 0
      BY <3>1
    <3> QED
      BY <1>T, <2>3, <3>2, LegType
  <2>5. ToDo(t)' > 0 => \A k \in Hosts \ hc'[t] : Leg(info'[k]) = 0
    BY <1>0, <1>P, <2>1, <2>2, <2>3, <2>4
  <2> QED
    BY <1>D, <2>1, <2>2, <2>5
<1>4. CASE GiveUp(t)
  BY <1>4, <1>E, GivenUp DEF GiveUp, Phase
<1>5. CASE EndLoop(t)
  <2>1. /\ pc[t] = "update" /\ (left[t] = 0 \/ hc[t] = {})
        /\ EndCall(t, err[t]) \/ EndCall(t, FALSE)
    BY <1>5, <1>0 DEF EndLoop, Starting
  <2>2. CASE EndCall(t, TRUE)
    BY <1>E, <2>2, GivenUp DEF Phase
  <2>3. CASE EndCall(t, FALSE)
    <3>1. /\ plan'[t] = <<Step("prune", 0)>> /\ pc'[t] = "next"
          /\ UNCHANGED <<info, stored, num>>
      BY <1>T, <2>3 DEF EndCall, cfgVars
    <3>2. Desired' = Desired /\ X' = X
      BY <3>1 DEF Desired
    <3>3. ToDo(t) = left[t]
      BY <2>1, <1>P DEF ToDo
    <3>4. CASE ToDo(t) = 0
      <4> HIDE DEF X, Y
      <4>1. X' = num
        BY <1>0, <1>T, <3>2, <3>4
      <4>2. Pruning(t)'
        BY <1>0, <1>P, <3>1, <3>2, <4>1 DEF Pruning, X
      <4> QED
        BY <4>2 DEF Phase
    <3>5. CASE ToDo(t) # 0
      <4>1. ToDo(t) > 0 /\ \A h \in Hosts : Leg(info[h]) = 0
        BY <1>0, <1>P, <2>1, <3>3, <3>5
      <4>2. Y = 0
        BY <1>T, <4>1, StatType
      <4> HIDE DEF X, Y
      <4> QED
        BY <1>0, <1>T, <4>1, <4>2
    <3> QED
      BY <3>4, <3>5
  <2> QED
    BY <1>T, <2>1, <2>2, <2>3
<1>6. CASE Save(t)
  <2>1. /\ pc[t] = "save" /\ UNCHANGED <<info, hc, num, plan>>
        /\ left'[t] = left[t] - 1 /\ pc'[t] = "pause"
        /\ \A h \in Hosts : Desired'[h] = Desired[h] \/ Desired'[h] = info[h]
    BY <1>0, <1>6, WriteStep
  <2>2. ToDo(t)' = ToDo(t)
    BY <1>P, <2>1 DEF ToDo
  <2>3. \A h \in Hosts : AllOf(Desired'[h]) >= AllOf(info'[h])
    BY <1>0, <1>G, <2>1
  <2>4. X' = X /\ Y' = Y
    BY <2>1
  <2>5. ToDo(t)' > 0 => \A h \in Hosts \ hc'[t] : Leg(info'[h]) = 0
    BY <1>0, <1>P, <2>1, <2>2
  <2> HIDE DEF X, Y
  <2> QED
    BY <1>0, <1>A, <2>1, <2>2, <2>3, <2>4, <2>5
<1>7. CASE Resume(t)
  <2>1. /\ pc[t] = "pause" /\ pc'[t] = "update"
        /\ UNCHANGED <<info, stored, num, plan, left, hc>>
    BY <1>0, <1>T, <1>7 DEF Resume, cfgVars
  <2>2. ToDo(t)' = ToDo(t)
    BY <1>P, <2>1 DEF ToDo
  <2> QED
    BY <1>0, <1>D, <1>P, <2>1, <2>2
<1>8. ~Arm(t)
  BY <1>0, <1>T DEF Arm
<1>9. ~(Return(t) \/ Clear(t) \/ AddOne(t) \/ NoHost(t) \/ RemoveOne(t) \/ RemoveGone(t)
        \/ RemoveList(t) \/ PruneOne(t))
  BY <1>0 DEF Return, Clear, AddOne, NoHost, RemoveOne, RemoveGone, RemoveList, PruneOne,
              Starting
<1> QED
  BY <1>1, <1>2, <1>3, <1>4, <1>5, <1>6, <1>7, <1>8, <1>9 DEF Work

LEMMA StepPruning ==
  ASSUME ConfigTypeOK, OneActs, Agree, NEW t \in Tasks, Known(t), Pruning(t),
         Work(t) \/ AddOne(t) \/ NoHost(t)
  PROVE  Phase(t)'
<1> DEFINE X == NumExp(info, Hosts)
           Y == NumUnexp(info, Hosts)
<1>0. /\ plan[t] = <<Step("prune", 0)>> /\ plan[t] # <<>> /\ plan[t][1] = Step("prune", 0)
      /\ plan[t][1].op = "prune" /\ Tail(plan[t]) = <<>>
      /\ pc[t] \in Starting \cup {"prune", "save"}
      /\ \A h \in Hosts : AllOf(Desired[h]) >= AllOf(info[h])
      /\ X = num
      /\ pc[t] \notin Starting => \A h \in Hosts \ hc[t] : Leg(info[h]) = 0
  BY DEF Pruning, Step
<1>T. /\ pc \in [Tasks -> Places] /\ err \in [Tasks -> BOOLEAN]
      /\ Head(plan[t]) = plan[t][1] /\ num \in Nat
      /\ info \in [Hosts -> Counts] /\ Desired \in [Hosts -> Counts]
      /\ host[t] \in Hosts /\ hc \in [Tasks -> SUBSET Hosts]
      /\ plan \in [Tasks -> Plans] /\ X \in Nat /\ Y \in Nat
  <2>1. /\ pc \in [Tasks -> Places] /\ err \in [Tasks -> BOOLEAN]
        /\ Head(plan[t]) = plan[t][1] /\ num \in Nat
        /\ host[t] \in Hosts /\ hc \in [Tasks -> SUBSET Hosts]
        /\ plan \in [Tasks -> Plans]
    BY <1>0, InCall
  <2>2. info \in [Hosts -> Counts] /\ Desired \in [Hosts -> Counts]
    BY DesiredCounts
  <2>3. X \in Nat /\ Y \in Nat
    BY <2>2, StatType
  <2> HIDE DEF X, Y
  <2> QED
    BY <2>1, <2>2, <2>3
<1>E. Enough(t)
  <2>1. X + Y >= num
    <3> HIDE DEF X, Y
    <3> QED
      BY <1>0, <1>T
  <2> QED
    BY <1>0, <2>1, TotalEnough
<1>P. "prune" \notin Starting /\ "save" \notin Starting /\ "next" \in Starting
  BY DEF Starting
<1>G. \A h \in Hosts : Leg(info[h]) \in Nat /\ AllOf(info[h]) \in Nat /\ AllOf(Desired[h]) \in Nat
  BY <1>T, LegType
\* The loop goes on.
<1>A. ASSUME UNCHANGED <<num, plan>>, pc'[t] \in {"prune", "save"},
             \A h \in Hosts : AllOf(Desired'[h]) >= AllOf(info'[h]),
             X' = X, \A h \in Hosts \ hc'[t] : Leg(info'[h]) = 0
      PROVE  Phase(t)'
  <2>1. X' = num'
    BY <1>0, <1>A
  <2>2. Pruning(t)'
    BY <1>0, <1>A, <1>P, <2>1 DEF Pruning, X
  <2> QED
    BY <2>2 DEF Phase
<1>1. CASE Begin(t)
  <2>1. /\ pc[t] \in Starting /\ pc'[t] = "prune" /\ hc'[t] = cached
        /\ UNCHANGED <<info, stored, num, plan>>
    BY <1>0, <1>1, BeginStep
  <2>2. Desired' = Desired /\ X' = X
    BY <2>1 DEF Desired
  <2>3. \A h \in Hosts \ cached : Leg(info[h]) = 0
    BY <1>P, <2>1, DesiredCounts DEF Known, IsEmpty
  <2> QED
    BY <1>0, <1>A, <2>1, <2>2, <2>3
<1>2. CASE PruneOne(t)
  <2>1. /\ pc[t] = "prune" /\ UNCHANGED <<num, plan, stored, fails>>
    BY <1>2 DEF PruneOne, Change, cfgVars, envVars
  <2> DEFINE f(h) == [v \in Vers |-> IF v = Exp THEN info[h][v] ELSE 0]
  <2>2. PICK h \in hc[t] :
          /\ hc' = [hc EXCEPT ![t] = @ \ {h}]
          /\ Change(t, h, f(h), IF f(h) = NoCounts THEN "delete" ELSE "set")
    BY <1>2 DEF PruneOne
  <2>3. h \in Hosts /\ hc'[t] = hc[t] \ {h} /\ DOMAIN pc = Tasks
    BY <1>T, <2>2
  <2> DEFINE w == IF f(h) = NoCounts THEN "delete" ELSE "set"
  <2>4. Exp \in Vers /\ Legacy \subseteq Vers /\ Exp \notin Legacy
    BY VersAssumption DEF Legacy
  <2>5. /\ f(h)[Exp] = info[h][Exp] /\ \A v \in Legacy : f(h)[v] = 0
        /\ f(h) \in Counts
    <3>1. info[h] \in [Vers -> Nat]
      BY <1>T, <2>3 DEF Counts
    <3>2. f(h) \in [Vers -> Nat]
      BY <3>1
    <3> QED
      BY <2>4, <3>2 DEF Counts
  <2>6. Leg(f(h)) = 0 /\ f(h)[Exp] \in Nat /\ AllOf(f(h)) = f(h)[Exp]
    <3>1. Leg(f(h)) = 0 /\ f(h)[Exp] \in Nat
      <4> HIDE DEF f
      <4> QED
        BY <2>5, LegType
    <3> QED
      BY <3>1 DEF AllOf
  <2>7. AllOf(f(h)) <= AllOf(info[h])
    BY <1>G, <1>T, <2>3, <2>5, <2>6, LegType DEF AllOf
  <2>8. w \in {"set", "delete"} /\ (w = "delete" => f(h) = NoCounts) /\ Change(t, h, f(h), w)
    BY <2>2
  <2> HIDE DEF f, w, X, Y
  <2>9. /\ Desired' = Desired /\ info' = [info EXCEPT ![h] = f(h)] /\ pc'[t] = "save"
    BY <2>1, <2>3, <2>8, ChangeKnown
  <2>10. /\ info'[h] = f(h) /\ \A k \in Hosts \ {h} : info'[k] = info[k]
         /\ info' \in [Hosts -> Counts]
    BY <1>T, <2>3, <2>5, <2>9
  <2>11. X' = X
    <3>1. NumExp(info', Hosts) = NumExp(info, Hosts) + info'[h][Exp] - info[h][Exp]
      BY <1>T, <2>3, <2>10, StatChange
    <3>2. X' = X + info'[h][Exp] - info[h][Exp]
      BY <3>1 DEF X
    <3>3. info[h][Exp] \in Nat
      BY <1>T, <2>3, LegType
    <3> QED
      BY <1>T, <2>5, <2>10, <3>2, <3>3
  <2>12. \A k \in Hosts : AllOf(Desired'[k]) >= AllOf(info'[k])
    <3>1. AllOf(Desired[h]) >= AllOf(f(h))
      BY <1>0, <1>G, <2>3, <2>6, <2>7
    <3> QED
      BY <1>0, <2>9, <2>10, <3>1
  <2>13. \A k \in Hosts \ hc'[t] : Leg(info'[k]) = 0
    BY <1>0, <1>P, <2>1, <2>3, <2>6, <2>10
  <2> QED
    BY <1>A, <2>1, <2>9, <2>11, <2>12, <2>13
<1>3. CASE Skip(t)
  <2>1. PICK h \in hc[t] :
          /\ pc[t] = "prune" /\ ~HasLegacy(h) /\ hc' = [hc EXCEPT ![t] = @ \ {h}]
          /\ UNCHANGED <<info, stored, num, pc, plan>>
    BY <1>0, <1>3, <1>P DEF Skip, cfgVars, Starting
  <2>2. Desired' = Desired /\ X' = X
    BY <2>1 DEF Desired
  <2>3. h \in Hosts /\ hc'[t] = hc[t] \ {h}
    BY <1>T, <2>1
  <2>4. Leg(info[h]) = 0
    <3>1. \A v \in Legacy : info[h][v] \in Nat /\ ~(info[h][v] > 0)
      BY <1>T, <2>1, <2>3, LegType DEF HasLegacy
    <3>2. \A v \in Legacy : info[h][v] = 0
      BY <3>1
    <3> QED
      BY <1>T, <2>3, <3>2, LegType
  <2>5. \A k \in Hosts \ hc'[t] : Leg(info'[k]) = 0
    BY <1>0, <1>P, <2>1, <2>3, <2>4
  <2> QED
    BY <1>0, <1>A, <2>1, <2>2, <2>5
<1>4. CASE EndLoop(t)
  <2>1. pc[t] = "prune" /\ hc[t] = {} /\ EndCall(t, err[t])
    BY <1>4, <1>0 DEF EndLoop, Starting
  <2>2. CASE err[t]
    <3>1. EndCall(t, TRUE)
      BY <1>T, <2>1, <2>2
    <3> QED
      BY <1>E, <3>1, GivenUp DEF Phase
  <2>3. CASE ~err[t]
    <3>1. /\ plan'[t] = <<>> /\ pc'[t] = "next" /\ UNCHANGED <<info, stored, num, base, fails>>
      BY <1>0, <1>T, <2>1, <2>3 DEF EndCall, cfgVars, envVars
    <3>2. Desired' = Desired
      BY <3>1 DEF Desired
    <3>3. Enough(t)'
      BY <1>E, <3>1, <3>2 DEF Enough
    <3>4. ASSUME fails = 0
          PROVE  NumExp(Desired, Hosts) = num /\ NumUnexp(Desired, Hosts) = 0
      <4>1. \A h \in Hosts : Desired[h] = info[h]
        BY <2>1, <3>4 DEF Known
      <4>2. Desired = info
        BY <1>T, <4>1
      <4>3. \A h \in Hosts : Leg(info[h]) = 0
        BY <1>0, <1>P, <2>1
      <4>4. NumUnexp(info, Hosts) = 0
        BY <1>T, <4>3, StatType
      <4> QED
        BY <1>0, <4>2, <4>4
    <3>5. fails' = 0 => (NumExp(Desired, Hosts) = num /\ NumUnexp(Desired, Hosts) = 0)'
      BY <3>1, <3>2, <3>4
    <3>6. Ended(t)'
      BY <1>P, <3>1, <3>3, <3>5 DEF Ended
    <3> QED
      BY <3>6 DEF Phase
  <2> QED
    BY <1>T, <2>2, <2>3
<1>5. CASE Save(t)
  <2>1. /\ pc[t] = "save" /\ UNCHANGED <<info, hc, num, plan>> /\ pc'[t] = "prune"
        /\ \A h \in Hosts : Desired'[h] = Desired[h] \/ Desired'[h] = info[h]
    BY <1>0, <1>5, WriteStep
  <2>2. \A h \in Hosts : AllOf(Desired'[h]) >= AllOf(info'[h])
    BY <1>0, <1>G, <2>1
  <2>3. X' = X
    BY <2>1
  <2>4. \A h \in Hosts \ hc'[t] : Leg(info'[h]) = 0
    BY <1>0, <1>P, <2>1
  <2> QED
    BY <1>A, <2>1, <2>2, <2>3, <2>4
<1>6. ~Arm(t)
  BY <1>0, <1>T DEF Arm
<1>7. ~(Return(t) \/ Clear(t) \/ AddOne(t) \/ NoHost(t) \/ UpdateOne(t) \/ RemoveOne(t)
        \/ RemoveGone(t) \/ RemoveList(t) \/ Resume(t) \/ GiveUp(t))
  BY <1>0 DEF Return, Clear, AddOne, NoHost, UpdateOne, RemoveOne, RemoveGone, RemoveList,
              Resume, GiveUp, Starting
<1> QED
  BY <1>1, <1>2, <1>3, <1>4, <1>5, <1>6, <1>7 DEF Work

LEMMA StepEnded ==
  ASSUME OneActs, NEW t \in Tasks, Acts(t), Ended(t),
         Work(t) \/ AddOne(t) \/ NoHost(t)
  PROVE  Phase(t)'
<1>0. plan[t] = <<>> /\ pc[t] \in Starting \cup {"ok", "failed", "destroyed"}
  BY DEF Ended
<1>1. CASE Return(t)
  <2>1. t \notin TimerTasks /\ pc \in [Tasks -> Places]
    BY CallerOnly DEF OneActs
  <2>2. /\ pc[t] \in Starting /\ pc'[t] = IF err[t] THEN "failed" ELSE "ok"
        /\ UNCHANGED <<info, stored, num, plan, err, base, fails>>
    BY <1>1, <2>1 DEF Return, cfgVars, envVars
  <2>3. Desired' = Desired
    BY <2>2 DEF Desired
  <2>4. Enough(t)'
    BY <2>2, <2>3 DEF Enough, Ended
  <2>5. fails = 0 /\ ~err[t] => NumExp(Desired, Hosts) = num /\ NumUnexp(Desired, Hosts) = 0
    BY <2>2 DEF Ended
  <2>6. fails' = 0 /\ pc'[t] = "ok" =>
          (NumExp(Desired, Hosts) = num /\ NumUnexp(Desired, Hosts) = 0)'
    BY <2>2, <2>3, <2>5
  <2>7. pc'[t] \in {"ok", "failed"} /\ pc'[t] \notin Starting
    BY <2>2 DEF Starting
  <2>8. Ended(t)'
    BY <1>0, <2>2, <2>4, <2>6, <2>7 DEF Ended
  <2> QED
    BY <2>8 DEF Phase
<1>2. ~(Begin(t) \/ Arm(t))
  BY <1>0 DEF Begin, Arm
<1>3. ~(Clear(t) \/ AddOne(t) \/ NoHost(t) \/ UpdateOne(t) \/ RemoveOne(t) \/ RemoveGone(t)
        \/ RemoveList(t) \/ PruneOne(t) \/ Resume(t) \/ GiveUp(t) \/ Save(t))
  BY <1>0 DEF Clear, AddOne, NoHost, UpdateOne, RemoveOne, RemoveGone, RemoveList, PruneOne,
              Resume, GiveUp, Save, Starting
<1>4. ~(Skip(t) \/ EndLoop(t))
  BY <1>0 DEF Skip, EndLoop, Starting
<1> QED
  BY <1>1, <1>2, <1>3, <1>4 DEF Work

---------------------------------------------------------------------------
(* The invariant holds. *)

\* When a call begins, nothing has changed yet, and everything is known.
LEMMA AsBefore ==
  ASSUME ConfigTypeOK, OneActs, Before, ops = 0, NEW t \in Tasks
  PROVE  /\ Desired = info /\ base[t] = info /\ plan[t] = <<>> /\ fails = 0
         /\ NumExp(info, cached) = NumExp(info, Hosts)
         /\ NumUnexp(info, cached) = NumUnexp(info, Hosts)
         /\ NumExp(info, Hosts) \in Nat /\ NumUnexp(info, Hosts) \in Nat
<1>1. \A h \in Hosts \ cached : info[h] = NoCounts
  BY DEF Before, IsEmpty
<1>2. info \in [Hosts -> Counts] /\ cached \subseteq Hosts
  BY DEF ConfigTypeOK
<1> QED
  BY <1>1, <1>2, StatCached, StatType DEF Before

LEMMA CallKnown ==
  ASSUME ConfigTypeOK, OneActs, Before, ops = 0, NEW t \in Tasks, pc'[t] # "save",
         UNCHANGED <<info, cached, stored, fails>>
  PROVE  Known(t)' /\ Desired' = info
<1>1. \A h \in Hosts \ cached : IsEmpty(h)
  BY DEF Before
<1>2. Desired' = Desired
  BY DEF Desired
<1> QED
  BY <1>1, <1>2, AsBefore DEF Known, IsEmpty

LEMMA DeployPhase ==
  ASSUME ConfigTypeOK, OneActs, OneActs', Before, ops = 0, NEW t \in Tasks, NEW n \in Nums,
         Deploy(t, "rolling", n), Smooth(t)'
  PROVE  Phase(t)'
<1> DEFINE X == NumExp(info, Hosts)
           Y == NumUnexp(info, Hosts)
<1>1. /\ base'[t] = info /\ num' = n /\ pc'[t] = "rolling" /\ ~err'[t]
      /\ plan'[t] = RollingPlan(n, X, Y) /\ info' = info /\ Desired' = info
  <2>1. /\ base' = [base EXCEPT ![t] = info] /\ num' = n
        /\ pc' = [pc EXCEPT ![t] = "rolling"] /\ err' = [err EXCEPT ![t] = FALSE]
        /\ plan' = [plan EXCEPT ![t] = PlanOf("rolling", n)]
        /\ UNCHANGED <<info, cached, stored, fails>>
    BY DEF Deploy, cfgVars
  <2>2. PlanOf("rolling", n) = RollingPlan(n, NumExp(info, cached), NumUnexp(info, cached))
    BY DEF PlanOf
  <2>3. PlanOf("rolling", n) = RollingPlan(n, X, Y)
    BY <2>2, AsBefore
  <2> HIDE DEF X, Y
  <2>4. /\ base'[t] = info /\ pc'[t] = "rolling" /\ ~err'[t] /\ plan'[t] = RollingPlan(n, X, Y)
    BY <2>1, <2>3 DEF OneActs
  <2> QED
    BY <2>1, <2>4, CallKnown
<1>2. /\ X \in Nat /\ Y \in Nat /\ n \in Nat /\ info \in [Hosts -> Counts]
  BY AsBefore, NumsAssumption DEF ConfigTypeOK
<1>3. X <= n /\ \A h \in Hosts : Leg(info[h]) <= 1
  <2>1. NumExp(base'[t], Hosts) <= num' /\ \A h \in Hosts : NumUnexp(base'[t], {h}) <= 1
    BY DEF Smooth
  <2>2. \A h \in Hosts : NumUnexp(info, {h}) = Leg(info[h])
    BY <1>2, StatOne
  <2> QED
    BY <1>1, <2>1, <2>2
<1>4. "rolling" \in Starting /\ "rolling" # "save"
  BY DEF Starting
<1>5. X' = X /\ Y' = Y /\ NumUnexp(base[t], Hosts)' = Y
  BY <1>1
<1>6. \A h \in Hosts : /\ AllOf(info[h]) \in Nat /\ info[h][Exp] \in Nat
  BY <1>2, LegType
<1> HIDE DEF X, Y
<1>7. CASE n = X
  <2>1. plan'[t] = <<Step("prune", 0)>>
    BY <1>1, <1>7 DEF RollingPlan
  <2>2. NumExp(info, Hosts)' = num'
    BY <1>1, <1>5, <1>7 DEF X
  <2>3. Pruning(t)'
    BY <1>1, <1>4, <1>6, <2>1, <2>2 DEF Pruning
  <2> QED
    BY <2>3 DEF Phase
<1>8. CASE n > X /\ n - X > Y
  <2>1. plan'[t] = <<Step("add", n - X - Y), Step("update", Y), Step("prune", 0)>>
    BY <1>1, <1>2, <1>8 DEF RollingPlan
  <2>2. /\ Len(plan'[t]) = 3 /\ plan'[t][1].op = "add" /\ plan'[t][1].n = n - X - Y
        /\ plan'[t][2] = Step("update", Y) /\ plan'[t][3] = Step("prune", 0)
    BY <2>1 DEF Step
  <2>3. ToDo(t)' = n - X - Y
    BY <1>1, <1>4, <2>2 DEF ToDo
  <2>4. X + ToDo(t)' + Y = n /\ ToDo(t)' \in Nat
    BY <1>2, <1>8, <2>3
  <2>5. Adding(t)'
    BY <1>1, <1>4, <1>5, <1>6, <2>2, <2>4 DEF Adding, X
  <2> QED
    BY <2>5 DEF Phase
<1>9. CASE n > X /\ ~(n - X > Y)
  <2>1. plan'[t] = <<Step("update", n - X), Step("prune", 0)>>
    BY <1>1, <1>2, <1>9 DEF RollingPlan
  <2>2. /\ Len(plan'[t]) = 2 /\ plan'[t][1].op = "update" /\ plan'[t][1].n = n - X
        /\ plan'[t][2] = Step("prune", 0)
    BY <2>1 DEF Step
  <2>3. ToDo(t)' = n - X
    BY <1>1, <1>4, <2>2 DEF ToDo
  <2>4. X + ToDo(t)' = n /\ ToDo(t)' \in Nat /\ X + Y >= n
    BY <1>2, <1>9, <2>3
  <2>5. Updating(t)'
    BY <1>1, <1>3, <1>4, <1>5, <1>6, <2>2, <2>4 DEF Updating, X, Y
  <2> QED
    BY <2>5 DEF Phase
<1> QED
  BY <1>2, <1>3, <1>7, <1>8, <1>9

LEMMA CallPhase ==
  ASSUME OneRolling, ConfigTypeOK, OneActs, OneActs', Before, ops = 0,
         NEW t \in Callers, Call(t)
  PROVE  ops' = 1 /\ pc'[t] # "idle" /\ Known(t)' /\ (Smooth(t)' => Phase(t)')
<1>0. /\ t \in Tasks /\ pc \in [Tasks -> Places] /\ plan \in [Tasks -> Plans]
      /\ pc[t] = "idle" /\ base[t] = info
      /\ \A p \in Policies : p = "rolling"
  BY DEF Tasks, OneActs, Plans, Before, OneRolling
<1>1. ASSUME NEW n \in Nums, Deploy(t, "rolling", n)
      PROVE  ops' = 1 /\ pc'[t] # "idle" /\ Known(t)' /\ (Smooth(t)' => Phase(t)')
  <2>1. ops' = 1 /\ pc'[t] = "rolling" /\ UNCHANGED <<info, cached, stored, fails>>
    BY <1>0, <1>1 DEF Deploy, cfgVars
  <2> QED
    BY <1>0, <1>1, <2>1, CallKnown, DeployPhase
<1>2. CASE CheckStatus(t)
  <2>1. /\ ops' = 1 /\ pc'[t] = "check" /\ plan'[t] = <<Step("prune", 0)>>
        /\ NumExp(info, cached) = num /\ UNCHANGED <<info, cached, stored, fails, num>>
    BY <1>0, <1>2 DEF CheckStatus, cfgVars
  <2>2. Known(t)' /\ Desired' = info
    BY <1>0, <2>1, CallKnown
  <2>3. NumExp(info, Hosts) = num
    BY <1>0, <2>1, AsBefore
  <2>4. NumExp(info, Hosts)' = num'
    BY <2>1, <2>3
  <2>5. \A h \in Hosts : AllOf(info[h]) \in Nat
    BY LegType DEF ConfigTypeOK
  <2>6. "check" \in Starting
    BY DEF Starting
  <2>7. Pruning(t)'
    BY <2>1, <2>2, <2>4, <2>5, <2>6 DEF Pruning
  <2> QED
    BY <2>1, <2>2, <2>7 DEF Phase
<1>3. CASE Destroy(t)
  <2>1. /\ ops' = 1 /\ pc'[t] = "destroyed"
        /\ UNCHANGED <<info, cached, stored, fails, num, plan, base>>
    BY <1>0, <1>3 DEF Destroy, cfgVars
  <2>2. Known(t)' /\ Desired' = info
    BY <1>0, <2>1, CallKnown
  <2>3. Total(info) \in Nat
    BY TotalSum DEF ConfigTypeOK
  <2>4. Total(Desired') >= Total(base'[t])
    BY <1>0, <2>1, <2>2, <2>3
  <2>5. Enough(t)'
    BY <2>4 DEF Enough
  <2>6. plan'[t] = <<>> /\ "destroyed" \notin Starting
    BY <1>0, <2>1, AsBefore DEF Starting
  <2>7. Ended(t)'
    BY <2>1, <2>5, <2>6 DEF Ended
  <2> QED
    BY <2>1, <2>2, <2>7 DEF Phase
<1>4. ~Again(t) /\ ~Cancel(t)
  BY <1>0 DEF Again, Cancel
<1> QED
  BY <1>0, <1>1, <1>2, <1>3, <1>4 DEF Call

\* What goes for the goroutine that acts goes for all of them.
LEMMA OnlyOne ==
  ASSUME OneActs, NEW t \in Tasks, pc[t] # "idle", Known(t), Smooth(t) => Phase(t)
  PROVE  \A u \in Tasks : pc[u] # "idle" => Known(u) /\ (Smooth(u) => Phase(u))
<1> SUFFICES ASSUME NEW u \in Tasks, pc[u] # "idle", u # t
             PROVE  Known(u) /\ (Smooth(u) => Phase(u))
  OBVIOUS
<1>1. pc[t] = "dead" /\ pc[u] = "dead" /\ base[t] = base[u]
  BY DEF OneActs, Acts
<1>2. Known(u)
  BY <1>1 DEF Known
<1>3. Smooth(u) => Smooth(t)
  BY <1>1 DEF Smooth
<1>4. Phase(t) => Enough(t)
  BY <1>1 DEF Phase, Adding, Updating, Pruning, Ended, Starting
<1>5. Enough(t) => Enough(u)
  BY <1>1 DEF Enough
<1> QED
  BY <1>1, <1>2, <1>3, <1>4, <1>5 DEF Phase

LEMMA OnlyOneNext ==
  ASSUME NEW t \in Tasks
  PROVE  (OneActs /\ pc[t] # "idle" /\ Known(t) /\ (Smooth(t) => Phase(t)) =>
            \A u \in Tasks : pc[u] # "idle" => Known(u) /\ (Smooth(u) => Phase(u)))'
<1>1. OneActs /\ pc[t] # "idle" /\ Known(t) /\ (Smooth(t) => Phase(t)) =>
            \A u \in Tasks : pc[u] # "idle" => Known(u) /\ (Smooth(u) => Phase(u))
  BY OnlyOne
<1> QED
  BY <1>1, PTL

LEMMA RollStep ==
  ASSUME OneRolling, RollInv, Agree, ConfigTypeOK, [Next]_vars
  PROVE  RollInv'
<1>0. OneActs /\ Before /\ ops \in {0, 1} /\ MaxOps = 1
  BY DEF RollInv, OneActs, OneRolling
<1>1. OneActs'
  BY <1>0, NextActs
<1>2. ASSUME NEW t \in Tasks, Work(t) \/ AddOne(t) \/ NoHost(t)
      PROVE  RollInv'
  <2>1. Acts(t) /\ pc'[t] # "idle" /\ ops = 1
    BY <1>0, <1>2, WorkActs, CallerOnly
  <2>2. UNCHANGED <<num, base, ops>>
    BY <1>2 DEF Work, AddOne, NoHost, Begin, Arm, Return, Clear, UpdateOne, RemoveOne, RemoveGone,
                RemoveList, PruneOne, Skip, EndLoop, Save, Resume, GiveUp, EndCall, Change, envVars
  <2>3. Known(t) /\ (Smooth(t) => Phase(t)) /\ pc[t] # "dead"
    BY <2>1 DEF RollInv, Acts
  <2>4. Known(t)'
    BY <1>0, <1>2, <2>1, <2>3, WorkKnown
  <2>5. Smooth(t)' => Smooth(t)
    BY <2>2 DEF Smooth
  <2>6. Smooth(t) => Phase(t)'
    BY <1>0, <1>2, <2>1, <2>3, StepAdding, StepUpdating, StepPruning, StepEnded DEF Phase
  <2>7. Before'
    BY <2>1, <2>2 DEF Before
  <2>8. \A u \in Tasks : pc'[u] # "idle" => Known(u)' /\ (Smooth(u)' => Phase(u)')
    BY <1>1, <2>1, <2>4, <2>5, <2>6, OnlyOneNext
  <2> QED
    BY <1>1, <2>7, <2>8 DEF RollInv
<1>3. ASSUME NEW t \in Callers, Call(t), ops = 0
      PROVE  RollInv'
  <2>1. ops' = 1 /\ pc'[t] # "idle" /\ Known(t)' /\ (Smooth(t)' => Phase(t)') /\ t \in Tasks
    BY <1>0, <1>1, <1>3, CallPhase DEF Tasks
  <2>2. \A u \in Tasks : pc'[u] # "idle" => Known(u)' /\ (Smooth(u)' => Phase(u)')
    BY <1>1, <2>1, OnlyOneNext
  <2>3. Before'
    BY <2>1 DEF Before
  <2> QED
    BY <1>1, <2>2, <2>3 DEF RollInv
<1>4. ASSUME UNCHANGED <<info, cached, stored, num, pc, plan, hc, left, host, save, err, base,
                         ops, fails>>
      PROVE  RollInv'
  <2>1. Desired' = Desired /\ Before'
    BY <1>0, <1>4 DEF Desired, Before, IsEmpty
  <2>2. ASSUME NEW t \in Tasks, pc[t] # "idle"
        PROVE  Known(t)' /\ (Smooth(t)' => Phase(t)')
    <3>1. Known(t) /\ (Smooth(t) => Phase(t))
      BY <2>2 DEF RollInv
    <3>2. Known(t)' /\ ToDo(t)' = ToDo(t)
      BY <1>4, <2>1, <3>1 DEF Known, ToDo, IsEmpty
    <3>3. Smooth(t)' => Smooth(t)
      BY <1>4 DEF Smooth
    <3>4. Enough(t) => Enough(t)'
      BY <1>4, <2>1 DEF Enough
    <3>5. /\ NumExp(info, Hosts)' = NumExp(info, Hosts)
          /\ NumUnexp(info, Hosts)' = NumUnexp(info, Hosts)
          /\ NumUnexp(base[t], Hosts)' = NumUnexp(base[t], Hosts)
      BY <1>4
    <3>6. Adding(t) => Adding(t)'
      BY <1>4, <2>1, <3>2, <3>5 DEF Adding
    <3>7. Updating(t) => Updating(t)'
      BY <1>4, <2>1, <3>2, <3>5 DEF Updating
    <3>8. Pruning(t) => Pruning(t)'
      BY <1>4, <2>1, <3>5 DEF Pruning
    <3>9. Ended(t) => Ended(t)'
      BY <1>4, <2>1, <3>4 DEF Ended
    <3> QED
      BY <1>4, <3>1, <3>2, <3>3, <3>4, <3>6, <3>7, <3>8, <3>9 DEF Phase
  <2>3. \A t \in Tasks : pc'[t] # "idle" => Known(t)' /\ (Smooth(t)' => Phase(t)')
    BY <1>4, <2>2
  <2> QED
    BY <1>1, <2>1, <2>3 DEF RollInv
<1>5. ASSUME NEW t \in Callers, Call(t), ops = 1
      PROVE  RollInv'
  <2>1. Cancel(t)
    BY <1>0, <1>5 DEF Call, Deploy, CheckStatus, Destroy, Again
  <2> QED
    BY <1>4, <2>1 DEF Cancel, cfgVars, timerVars, envVars
<1>6. CASE UNCHANGED vars
  BY <1>4, <1>6 DEF vars
<1>7. ~(\E t \in TimerTasks : Fire(t)) /\ ~ResetLease
  BY <1>0 DEF OneActs, Fire, ResetLease
<1> QED
  BY <1>0, <1>2, <1>3, <1>5, <1>6, <1>7 DEF Next

LEMMA RollInit ==
  ASSUME Init
  PROVE  RollInv
<1>1. /\ info \in [Hosts -> Counts] /\ num \in Nums
      /\ \A t \in Tasks : pc[t] = "idle" /\ base[t] = info /\ plan[t] = <<>>
      /\ base = [t \in Tasks |-> info] /\ pc = [t \in Tasks |-> "idle"]
      /\ plan = [t \in Tasks |-> <<>>] /\ left = [t \in Tasks |-> 0]
      /\ err = [t \in Tasks |-> FALSE]
      /\ legacyTimer = "nil" /\ orphans = 0 /\ ops = 0 /\ fails = 0
  BY InitAssumption DEF Init
<1>2. \A h \in Hosts \ cached : IsEmpty(h)
  BY DEF Init
<1>3. Desired = info
  <2>1. stored = [h \in Hosts |-> IF IsEmpty(h) THEN None ELSE info[h]]
    BY DEF Init
  <2>2. \A h \in Hosts : info[h] # None
    BY <1>1, VersAssumption
  <2>3. \A h \in Hosts : Desired[h] = info[h]
    BY <2>1, <2>2 DEF Desired, IsEmpty
  <2>4. Desired = [h \in Hosts |-> Desired[h]]
    BY DEF Desired
  <2> QED
    BY <1>1, <2>3, <2>4
<1>4. "idle" \in Places /\ <<>> \in Seq([op : Loops, n : Int])
  BY DEF Places
<1>5. OneActs
  BY <1>1, <1>4 DEF OneActs, Acts, Loops
<1> QED
  BY <1>1, <1>2, <1>3, <1>5 DEF RollInv, Before

LEMMA RollInvariant ==
  ASSUME OneRolling
  PROVE  Spec => []RollInv
<1>1. Init => RollInv
  BY RollInit
<1>2. RollInv /\ Agree /\ ConfigTypeOK /\ [Next]_vars => RollInv'
  BY RollStep
<1> QED
  BY <1>1, <1>2, AgreeInvariant, ConfigTyped, PTL DEF Spec

\* For any hosts, any old versions and however many instances: a smooth rolling
\* update that runs alone never takes the service below what it had or what is
\* asked for, whichever hosts are found, whichever writes fail, and whether it
\* is cancelled or panics.
THEOREM RollingKeepsUp ==
  ASSUME OneRolling
  PROVE  Spec => []RollingKeepsRunning
<1>1. ASSUME RollInv, ConfigTypeOK, NEW t \in Callers, Smooth(t)
      PROVE  Enough(t)
  <2>0. OneActs /\ Before /\ t \in Tasks
    BY <1>1 DEF RollInv, Tasks
  <2>1. CASE ops = 0
    <3>1. Desired = base[t]
      BY <1>1, <2>0, <2>1, AsBefore
    <3>2. Total(base[t]) \in Nat
      BY <2>0, TotalSum DEF OneActs
    <3> QED
      BY <3>1, <3>2 DEF Enough
  <2>2. CASE ops # 0
    <3>1. PICK u \in Tasks : pc[u] # "idle"
      BY <2>0, <2>2 DEF OneActs
    <3>2. base[u] = base[t]
      BY <2>0 DEF OneActs
    <3>3. Smooth(u)
      BY <1>1, <3>2 DEF Smooth
    <3>4. Phase(u)
      BY <1>1, <3>1, <3>3 DEF RollInv
    <3>5. Adding(u) => Enough(u)
      BY <1>1, <2>0, AddingEnough
    <3>6. Updating(u) => Enough(u)
      BY <1>1, <2>0, TotalEnough DEF Updating
    <3>7. Pruning(u) => Enough(u)
      <4>1. NumUnexp(info, Hosts) \in Nat /\ num \in Nat
        BY <1>1, <2>0, StatType, NumsAssumption DEF ConfigTypeOK, OneActs
      <4>2. Pruning(u) => NumExp(info, Hosts) + NumUnexp(info, Hosts) >= num
        BY <4>1 DEF Pruning
      <4> QED
        BY <1>1, <2>0, <4>2, TotalEnough DEF Pruning
    <3>8. Enough(u)
      BY <3>4, <3>5, <3>6, <3>7 DEF Phase, Ended
    <3> QED
      BY <3>2, <3>8 DEF Enough
  <2> QED
    BY <2>1, <2>2
<1>2. RollInv /\ ConfigTypeOK => RollingKeepsRunning
  BY <1>1 DEF RollingKeepsRunning, Enough
<1> QED
  BY <1>2, RollInvariant, ConfigTyped, PTL

\* ... and leaves exactly the asked instances of the new version, and none of
\* the old ones, when it has returned without an error and no write failed.
THEOREM RollingDone ==
  ASSUME OneRolling
  PROVE  Spec => []RollingCompletes
<1>1. ASSUME RollInv, NEW t \in Callers, pc[t] = "ok", fails = 0, Smooth(t)
      PROVE  NumExp(Desired, Hosts) = num /\ NumUnexp(Desired, Hosts) = 0
  <2>1. Phase(t)
    BY <1>1 DEF RollInv, Tasks
  <2>2. Ended(t)
    BY <1>1, <2>1 DEF Phase, Adding, Updating, Pruning, Starting
  <2> QED
    BY <1>1, <2>2 DEF Ended
<1>2. RollInv => RollingCompletes
  BY <1>1 DEF RollingCompletes
<1> QED
  BY <1>2, RollInvariant, PTL
=============================================================================
