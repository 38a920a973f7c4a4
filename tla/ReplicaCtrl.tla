---------------------------- MODULE ReplicaCtrl ----------------------------
(***************************************************************************)
(* The controller of one deploy key (controllers/scheduler/replica.go) over *)
(* the expected host configurations of that key (controllers/types/impl/   *)
(* hc.go): how many instances of which version every host should run.      *)
(*                                                                         *)
(* The controller has no lock. Its callers (Manager.Deploy and Update, one *)
(* goroutine per request), the goroutines of the legacy timer, and         *)
(* Manager.CheckStatus run through the same maps at once. ListHostConfigs  *)
(* copies the map of hosts, but the Info map of a host is one object, which *)
(* the cache and every such copy share: info[h] is that object, whether h  *)
(* is in the cache or not.                                                 *)
(***************************************************************************)
EXTENDS Integers, Sequences, FiniteSetsExt

CONSTANTS Hosts,
          Vers,        \* deployed versions
          Exp,         \* expectVersion of the controller
          Callers,     \* goroutines that call Deploy, CheckStatus, Destroy
          TimerTasks,  \* goroutines a timer may run in at once (a bound)
          Policies,    \* the update policies asked for
          Nums,        \* the NumOfInstance asked for
          Offered,     \* the hosts scheduler.NextHost may find suitable
          HalfUp(_),   \* ceil(n * NewPercent)
          None,        \* nothing stored for a host
          InitInfo,    \* the contents of etcd when the controller starts
          MaxOps,      \* bound: calls of the manager
          MaxFails     \* bound: failed writes to etcd

Legacy == Vers \ {Exp}
Counts == [Vers -> Nat]
Tasks == Callers \cup TimerTasks

ASSUME FiniteAssumption == IsFiniteSet(Hosts) /\ IsFiniteSet(Vers)
ASSUME VersAssumption == Exp \in Vers /\ Hosts # {} /\ None \notin Counts
ASSUME InitAssumption == InitInfo \subseteq [Hosts -> Counts]
ASSUME PoliciesAssumption == Policies \subseteq {"rolling", "new", "mixed"}
ASSUME NumsAssumption == /\ Nums \subseteq Nat \ {0} /\ Offered \subseteq Hosts
                         /\ MaxOps \in Nat /\ MaxFails \in Nat
                         /\ \A n \in Nums : HalfUp(n) \in Nat
ASSUME TasksAssumption == Callers \cap TimerTasks = {}

VARIABLES
  info,        \* info[h][v]: the Info map of host h; 0 is an absent entry
  cached,      \* the hosts of hcManager.cfgs[key]
  stored,      \* etcd: the expected configuration of h, or None
  num,         \* c.dc.NumOfInstance
  legacyTimer, \* c.legacyTimer: "nil", "pending", or "fired" and not yet nil
  orphans,     \* pending timers that c.legacyTimer no longer refers to
  pc, plan,    \* per goroutine: its place, and the calls it has left
  hc,          \* ... the hosts left of its range over ListHostConfigs
  left,        \* ... num, or num - count, of the call it is in
  host, save,  \* ... the host it works on, and what it is about to write
  err,         \* ... the call has collected an error
  ctxDone,     \* ... its context is done
  base,        \* ... info when its call of Deploy began
  ops, fails   \* the bounds' counters

cfgVars == <<info, cached, stored>>
timerVars == <<legacyTimer, orphans>>
envVars == <<ops, fails>>
vars == <<info, cached, stored, num, legacyTimer, orphans, pc, plan,
          hc, left, host, save, err, ctxDone, base, ops, fails>>

\* A panic took the process down.
Crashed == \E t \in Tasks : pc[t] = "dead"

---------------------------------------------------------------------------
(* Counting. *)

NoCounts == [v \in Vers |-> 0]
HasLegacy(h) == \E v \in Legacy : info[h][v] > 0
IsEmpty(h) == info[h] = NoCounts

\* hcStat, over the hosts S of the counts f.
NumExp(f, S) == MapThenSumSet(LAMBDA h : f[h][Exp], S)
NumUnexp(f, S) ==
  MapThenSumSet(LAMBDA h : MapThenSumSet(LAMBDA v : f[h][v], Legacy), S)

\* What etcd tells the hosts to run.
Desired == [h \in Hosts |-> IF stored[h] = None THEN NoCounts ELSE stored[h]]

---------------------------------------------------------------------------
(* A deployment is a sequence of calls; the first that fails ends it. *)

Step(op, n) == [op |-> op, n |-> n]
Ops == {"add", "update", "remove", "prune", "arm", "rearm"}

\* Mutant: the old instances go before the new ones are there.
RollingPlanPrunesFirst(n, e, u) ==
  IF n = e THEN <<Step("prune", 0)>>
  ELSE IF n < e THEN <<Step("remove", e - n), Step("prune", 0)>>
  ELSE IF n - e > u
    THEN <<Step("prune", 0), Step("add", n - e - u), Step("update", u)>>
  ELSE <<Step("update", n - e), Step("prune", 0)>>

\* Mutant: the instances that update replaces are added as well.
RollingPlanAddsAll(n, e, u) ==
  IF n = e THEN <<Step("prune", 0)>>
  ELSE IF n < e THEN <<Step("remove", e - n), Step("prune", 0)>>
  ELSE IF n - e > u
    THEN <<Step("add", n - e), Step("update", u), Step("prune", 0)>>
  ELSE <<Step("update", n - e), Step("prune", 0)>>

\* rollingUpdate
RollingPlan(n, e, u) ==
  IF n = e THEN <<Step("prune", 0)>>
  ELSE IF n < e THEN <<Step("remove", e - n), Step("prune", 0)>>
  ELSE IF n - e > u
    THEN <<Step("add", n - e - u), Step("update", u), Step("prune", 0)>>
  ELSE <<Step("update", n - e), Step("prune", 0)>>

\* newDeploy
NewPlan(n, e, u) == <<Step("add", n), Step("arm", 0)>>

\* mixUpdate: the deferred function comes last, and only without an error.
MixedPlan(n, e, u) ==
  LET numUpdate == u - HalfUp(n) IN
  (IF e > n THEN <<Step("remove", e - n)>>
   ELSE IF e = n THEN <<>>
   ELSE IF numUpdate <= 0 THEN <<Step("add", n - e)>>
   ELSE (IF n > numUpdate THEN <<Step("add", n - numUpdate)>> ELSE <<>>)
        \o (IF numUpdate > n THEN <<Step("update", n)>> ELSE <<>>))
  \o <<Step("rearm", 0)>>

PlanOf(p, n) ==
  LET e == NumExp(info, cached)
      u == NumUnexp(info, cached)
  IN CASE p = "rolling" -> RollingPlan(n, e, u)
       [] p = "new"     -> NewPlan(n, e, u)
       [] p = "mixed"   -> MixedPlan(n, e, u)

\* Deploy is asked for policy p and n instances.
Deploy(t, p, n) ==
  /\ pc[t] = "idle" /\ ops < MaxOps
  /\ ops' = ops + 1
  /\ num' = n
  /\ plan' = [plan EXCEPT ![t] = PlanOf(p, n)]
  /\ base' = [base EXCEPT ![t] = info]
  /\ err' = [err EXCEPT ![t] = FALSE]
  /\ pc' = [pc EXCEPT ![t] = p]
  /\ UNCHANGED <<cfgVars, timerVars, hc, left, host, save, ctxDone,
                 fails>>

\* checkStatus, when it finds legacy instances that no timer will remove.
CheckStatus(t) ==
  /\ pc[t] = "idle" /\ ops < MaxOps
  /\ NumExp(info, cached) = num /\ NumUnexp(info, cached) > 0
  /\ legacyTimer = "nil"
  /\ ops' = ops + 1
  /\ plan' = [plan EXCEPT ![t] = <<Step("prune", 0)>>]
  /\ err' = [err EXCEPT ![t] = FALSE]
  /\ pc' = [pc EXCEPT ![t] = "check"]
  /\ UNCHANGED <<cfgVars, num, timerVars, hc, left, host, save,
                 ctxDone, base, fails>>

\* Destroy: the slice of hosts it deletes has a capacity but no elements.
Destroy(t) ==
  /\ pc[t] = "idle" /\ ops < MaxOps
  /\ ops' = ops + 1
  /\ pc' = [pc EXCEPT ![t] = "destroyed"]
  /\ UNCHANGED <<cfgVars, num, timerVars, plan, hc, left, host, save,
                 err, ctxDone, base, fails>>

Starting == {"rolling", "new", "mixed", "check", "fire", "next"}

\* The next call of the plan begins; updateInstances and
\* removeLegacyInstanceConfigs list the hosts now.
Begin(t) ==
  /\ pc[t] \in Starting /\ plan[t] # <<>>
  /\ LET s == Head(plan[t]) IN
       /\ s.op \in {"add", "update", "remove", "prune"}
       /\ pc' = [pc EXCEPT ![t] = s.op]
       /\ left' = [left EXCEPT ![t] =
            IF s.op = "update" /\ s.n > NumUnexp(info, cached)
            THEN NumUnexp(info, cached) ELSE s.n]
       /\ hc' = [hc EXCEPT ![t] =
            IF s.op = "prune" \/ (s.op = "update" /\ s.n > 0)
            THEN cached ELSE {}]
  /\ err' = [err EXCEPT ![t] = FALSE]
  /\ UNCHANGED <<cfgVars, num, timerVars, plan, host, save, ctxDone,
                 base, envVars>>

\* The call in progress returns, with an error if e.
EndCall(t, e) ==
  /\ plan' = [plan EXCEPT ![t] = IF e THEN <<>> ELSE Tail(@)]
  /\ pc' = [pc EXCEPT ![t] = "next"]
  /\ err' = [err EXCEPT ![t] = e]
  /\ UNCHANGED <<cfgVars, num, timerVars, hc, left, host, save,
                 ctxDone, base, envVars>>

\* Mutant: mixUpdate stops the timer it finds and does not start one.
ArmStops(t) ==
  /\ pc[t] \in Starting /\ plan[t] # <<>>
  /\ LET s == Head(plan[t]) IN
       /\ s.op \in {"arm", "rearm"}
       /\ IF (s.op = "arm") = (legacyTimer = "nil")
          THEN /\ legacyTimer' = IF s.op = "arm" THEN "pending" ELSE "nil"
               /\ UNCHANGED orphans
          ELSE UNCHANGED timerVars
  /\ plan' = [plan EXCEPT ![t] = Tail(@)]
  /\ pc' = [pc EXCEPT ![t] = "next"]
  /\ UNCHANGED <<cfgVars, num, hc, left, host, save, err, ctxDone,
                 base, envVars>>

\* newDeploy starts a timer if there is none; mixUpdate if there is one, which
\* it does not stop.
Arm(t) ==
  /\ pc[t] \in Starting /\ plan[t] # <<>>
  /\ LET s == Head(plan[t]) IN
       /\ s.op \in {"arm", "rearm"}
       /\ IF (s.op = "arm") = (legacyTimer = "nil")
          THEN /\ legacyTimer' = "pending"
               /\ orphans' = IF legacyTimer = "pending" THEN orphans + 1
                             ELSE orphans
          ELSE UNCHANGED timerVars
  /\ plan' = [plan EXCEPT ![t] = Tail(@)]
  /\ pc' = [pc EXCEPT ![t] = "next"]
  /\ UNCHANGED <<cfgVars, num, hc, left, host, save, err, ctxDone,
                 base, envVars>>

\* The plan is over, or was given up.
Return(t) ==
  /\ pc[t] \in Starting /\ plan[t] = <<>>
  /\ pc' = [pc EXCEPT ![t] = IF t \in TimerTasks THEN "clear"
                             ELSE IF err[t] THEN "failed" ELSE "ok"]
  /\ UNCHANGED <<cfgVars, num, timerVars, plan, hc, left, host, save,
                 err, ctxDone, base, envVars>>

\* The caller has its result and may call again, with another context.
Again(t) ==
  /\ pc[t] \in {"ok", "failed", "destroyed"} /\ ops < MaxOps
  /\ pc' = [pc EXCEPT ![t] = "idle"]
  /\ ctxDone' = [ctxDone EXCEPT ![t] = FALSE]
  /\ UNCHANGED <<cfgVars, num, timerVars, plan, hc, left, host, save,
                 err, base, envVars>>

---------------------------------------------------------------------------
(* The calls, one step per host: the Info map is changed in place ... *)

\* Goroutine t has changed the map of h and is about to write it, as w.
Change(t, h, f, w) ==
  /\ info' = [info EXCEPT ![h] = f]
  /\ host' = [host EXCEPT ![t] = h]
  /\ save' = [save EXCEPT ![t] = w]
  /\ pc' = [pc EXCEPT ![t] = "save"]
  /\ UNCHANGED <<cached, stored, num, timerVars, plan, left, err,
                 ctxDone, base, envVars>>

\* addInstances: NextHost finds a host; addOneInstance adds to its map, which
\* is nil, and panics, for a host without a configuration.
AddOne(t) ==
  /\ pc[t] = "add" /\ left[t] > 0
  /\ \E h \in Offered :
       \/ /\ h \in cached
          /\ Change(t, h, [info[h] EXCEPT ![Exp] = @ + 1], "set")
          /\ UNCHANGED hc
       \/ /\ h \notin cached
          /\ pc' = [x \in Tasks |-> "dead"]
          /\ UNCHANGED <<cfgVars, num, timerVars, plan, hc, left, host,
                         save, err, ctxDone, base, envVars>>

\* addInstances: NextHost finds none, and is asked again after a step.
NoHost(t) ==
  /\ pc[t] = "add" /\ left[t] > 0
  /\ ~err[t]
  /\ err' = [err EXCEPT ![t] = TRUE]
  /\ UNCHANGED <<cfgVars, num, timerVars, pc, plan, hc, left, host,
                 save, ctxDone, base, envVars>>

\* updateInstances: one legacy instance of a host becomes an expected one.
UpdateOne(t) ==
  /\ pc[t] = "update" /\ left[t] > 0
  /\ \E h \in hc[t] : \E v \in Legacy :
       /\ info[h][v] > 0
       /\ Change(t, h, [info[h] EXCEPT ![Exp] = @ + 1, ![v] = @ - 1], "set")
       /\ hc' = [hc EXCEPT ![t] = @ \ {h}]

\* removeExpectInstances and removeOneInstance: a count above one is
\* decremented in a local only, and written back as it was.
RemoveOne(t) ==
  /\ pc[t] = "remove"
  /\ \E h \in hc[t] :
       /\ info[h][Exp] > 0 /\ h \in cached
       /\ LET f == IF info[h][Exp] = 1 THEN [info[h] EXCEPT ![Exp] = 0]
                   ELSE info[h]
          IN Change(t, h, f, IF f = NoCounts THEN "delete" ELSE "set")
       /\ hc' = [hc EXCEPT ![t] = @ \ {h}]

\* removeOneInstance of a host another goroutine has deleted: nothing to do.
RemoveGone(t) ==
  /\ pc[t] = "remove"
  /\ \E h \in hc[t] :
       /\ info[h][Exp] > 0 /\ h \notin cached
       /\ IF left[t] = 0
          THEN EndCall(t, FALSE)
          ELSE /\ hc' = [hc EXCEPT ![t] = @ \ {h}]
               /\ left' = [left EXCEPT ![t] = @ - 1]
               /\ pc' = [pc EXCEPT ![t] = "pause"]
               /\ UNCHANGED <<cfgVars, num, timerVars, plan, host,
                              save, err, ctxDone, base, envVars>>

\* removeExpectInstances lists the hosts, again and again, while num > 0.
RemoveList(t) ==
  /\ pc[t] = "remove" /\ hc[t] = {} /\ left[t] > 0
  /\ hc' = [hc EXCEPT ![t] = cached]
  /\ UNCHANGED <<cfgVars, num, timerVars, pc, plan, left, host, save,
                 err, ctxDone, base, envVars>>

\* removeLegacyInstanceConfigs
PruneOne(t) ==
  /\ pc[t] = "prune"
  /\ \E h \in hc[t] :
       LET f == [v \in Vers |-> IF v = Exp THEN info[h][v] ELSE 0] IN
       /\ HasLegacy(h) \/ IsEmpty(h)
       /\ Change(t, h, f, IF f = NoCounts THEN "delete" ELSE "set")
       /\ hc' = [hc EXCEPT ![t] = @ \ {h}]

\* A host the loop has nothing to do for.
Skip(t) ==
  /\ \E h \in hc[t] :
       /\ \/ pc[t] = "update" /\ ~HasLegacy(h)
          \/ pc[t] = "remove" /\ info[h][Exp] = 0
          \/ pc[t] = "prune" /\ ~HasLegacy(h) /\ ~IsEmpty(h)
       /\ hc' = [hc EXCEPT ![t] = @ \ {h}]
  /\ UNCHANGED <<cfgVars, num, timerVars, pc, plan, left, host, save,
                 err, ctxDone, base, envVars>>

\* The loops are over. updateInstances forgets the errors it collected when it
\* meets a legacy instance that is not to be updated.
EndLoop(t) ==
  \/ /\ pc[t] = "add" /\ left[t] = 0
     /\ EndCall(t, err[t])
  \/ /\ pc[t] = "update" /\ hc[t] = {}
     /\ EndCall(t, err[t])
  \/ /\ pc[t] = "update" /\ left[t] = 0 /\ (\E h \in hc[t] : HasLegacy(h))
     /\ EndCall(t, FALSE)
  \/ /\ pc[t] = "remove" /\ hc[t] = {} /\ left[t] <= 0
     /\ EndCall(t, FALSE)
  \/ /\ pc[t] = "prune" /\ hc[t] = {}
     /\ EndCall(t, err[t])

---------------------------------------------------------------------------
(* ... and then written, under the lock of hcManager. *)

\* Mutant: SetHostConfig leaves the cache to the reload.
WriteUncached(t, failed) ==
  LET h == host[t] IN
  CASE save[t] = "set" ->
         /\ cached' = cached
         /\ stored' = IF failed THEN stored ELSE [stored EXCEPT ![h] = info[h]]
    [] save[t] = "delete" /\ cached = {} ->
         ~failed /\ UNCHANGED <<cached, stored>>
    [] save[t] = "delete" /\ cached # {} ->
         /\ cached' = cached \ {h}
         /\ stored' = IF failed THEN stored ELSE [stored EXCEPT ![h] = None]

\* Mutant: the old counts written are those of the deployment's beginning, as
\* if ListHostConfigs copied the maps.
WriteOwnCopy(t, failed) ==
  LET h == host[t] IN
  CASE save[t] = "set" ->
         /\ cached' = cached \cup {h}
         /\ stored' = IF failed THEN stored
                      ELSE [stored EXCEPT ![h] =
                              [base[t][h] EXCEPT ![Exp] = info[h][Exp]]]
    [] save[t] = "delete" /\ cached = {} ->
         ~failed /\ UNCHANGED <<cached, stored>>
    [] save[t] = "delete" /\ cached # {} ->
         /\ cached' = cached \ {h}
         /\ stored' = IF failed THEN stored ELSE [stored EXCEPT ![h] = None]

\* SetHostConfig and DeleteHostConfigs: the cache changes even if etcd fails;
\* nothing at all is deleted for a key without hosts.
Write(t, failed) ==
  LET h == host[t] IN
  CASE save[t] = "set" ->
         /\ cached' = cached \cup {h}
         /\ stored' = IF failed THEN stored ELSE [stored EXCEPT ![h] = info[h]]
    [] save[t] = "delete" /\ cached = {} ->
         ~failed /\ UNCHANGED <<cached, stored>>
    [] save[t] = "delete" /\ cached # {} ->
         /\ cached' = cached \ {h}
         /\ stored' = IF failed THEN stored ELSE [stored EXCEPT ![h] = None]

\* There is no such key in etcd: Delete answers with an error.
Missing(t) ==
  save[t] = "delete" /\ cached # {} /\ stored[host[t]] = None

\* What the loop does next: a plan entry names the loop that called. fails
\* counts the writes that etcd refused.
Save(t) ==
  /\ pc[t] = "save"
  /\ \E failed \in BOOLEAN :
       /\ failed => Missing(t) \/ fails < MaxFails
       /\ Missing(t) => failed
       /\ Write(t, failed)
       /\ fails' = IF failed /\ ~Missing(t) THEN fails + 1 ELSE fails
       /\ LET op == Head(plan[t]).op IN
            /\ left' = [left EXCEPT ![t] = IF op = "prune" THEN @ ELSE @ - 1]
            /\ IF op = "remove" /\ (failed \/ left[t] = 0)
               THEN /\ plan' = [plan EXCEPT ![t] = IF failed THEN <<>> ELSE Tail(@)]
                    /\ pc' = [pc EXCEPT ![t] = "next"]
                    /\ err' = [err EXCEPT ![t] = failed]
               ELSE /\ plan' = plan
                    /\ pc' = [pc EXCEPT ![t] =
                                IF op \in {"update", "remove"} THEN "pause" ELSE op]
                    /\ err' = [err EXCEPT ![t] = @ \/ failed]
  /\ UNCHANGED <<info, num, timerVars, hc, host, save, ctxDone, base,
                 ops>>

\* updateInstances and removeExpectInstances wait a step between two hosts.
Resume(t) ==
  /\ pc[t] = "pause"
  /\ pc' = [pc EXCEPT ![t] = Head(plan[t]).op]
  /\ UNCHANGED <<cfgVars, num, timerVars, plan, hc, left, host, save,
                 err, ctxDone, base, envVars>>

\* Mutant: addInstances does not look at the context.
GiveUpPaused(t) ==
  /\ ctxDone[t]
  /\ pc[t] = "pause"
  /\ EndCall(t, TRUE)

\* ... or the context is done, which addInstances looks at as well.
GiveUp(t) ==
  /\ ctxDone[t]
  /\ pc[t] = "pause" \/ (pc[t] = "add" /\ left[t] > 0)
  /\ EndCall(t, TRUE)

---------------------------------------------------------------------------
(* The legacy timer, and the contexts. *)

\* A timer runs out: the current one, or one that was replaced.
Fire(t) ==
  /\ pc[t] = "idle"
  /\ \/ legacyTimer = "pending" /\ legacyTimer' = "fired" /\ UNCHANGED orphans
     \/ orphans > 0 /\ orphans' = orphans - 1 /\ UNCHANGED legacyTimer
  /\ plan' = [plan EXCEPT ![t] = <<Step("prune", 0)>>]
  /\ err' = [err EXCEPT ![t] = FALSE]
  /\ pc' = [pc EXCEPT ![t] = "fire"]
  /\ UNCHANGED <<cfgVars, num, hc, left, host, save, ctxDone, base,
                 envVars>>

\* Its function ends with c.legacyTimer = nil, whichever timer that is by now.
Clear(t) ==
  /\ pc[t] = "clear"
  /\ legacyTimer' = "nil"
  /\ orphans' = IF legacyTimer = "pending" THEN orphans + 1 ELSE orphans
  /\ pc' = [pc EXCEPT ![t] = "idle"]
  /\ UNCHANGED <<cfgVars, num, plan, hc, left, host, save, err,
                 ctxDone, base, envVars>>

\* renewLease and revokeLease: a timer that has fired is started again.
ResetLease ==
  /\ legacyTimer = "fired" /\ ~Crashed /\ ops < MaxOps
  /\ ops' = ops + 1
  /\ legacyTimer' = "pending"
  /\ UNCHANGED <<cfgVars, num, orphans, pc, plan, hc, left, host,
                 save, err, ctxDone, base, fails>>

Cancel(t) ==
  /\ ~ctxDone[t] /\ pc[t] \notin {"idle", "ok", "failed", "destroyed", "dead"}
  /\ ctxDone' = [ctxDone EXCEPT ![t] = TRUE]
  /\ UNCHANGED <<cfgVars, num, timerVars, pc, plan, hc, left, host,
                 save, err, base, envVars>>

---------------------------------------------------------------------------
Init ==
  /\ info \in InitInfo
  /\ cached = {h \in Hosts : ~IsEmpty(h)}
  /\ stored = [h \in Hosts |-> IF IsEmpty(h) THEN None ELSE info[h]]
  /\ num \in Nums
  /\ legacyTimer = "nil" /\ orphans = 0
  /\ pc = [t \in Tasks |-> "idle"]
  /\ plan = [t \in Tasks |-> <<>>]
  /\ hc = [t \in Tasks |-> {}]
  /\ left = [t \in Tasks |-> 0]
  /\ host = [t \in Tasks |-> CHOOSE h \in Hosts : TRUE]
  /\ save = [t \in Tasks |-> "set"]
  /\ err = [t \in Tasks |-> FALSE]
  /\ ctxDone = [t \in Tasks |-> FALSE]
  /\ base = [t \in Tasks |-> info]
  /\ ops = 0 /\ fails = 0

\* A goroutine goes on with what it was asked for.
Work(t) ==
  \/ Begin(t) \/ Arm(t) \/ Return(t) \/ Clear(t) \/ UpdateOne(t) \/ RemoveOne(t) \/ RemoveGone(t)
  \/ RemoveList(t) \/ PruneOne(t) \/ Skip(t) \/ EndLoop(t)
  \/ Save(t) \/ Resume(t) \/ GiveUp(t)

\* A caller makes another call, or gives one up.
Call(t) ==
  \/ \E p \in Policies, n \in Nums : Deploy(t, p, n)
  \/ CheckStatus(t) \/ Destroy(t) \/ Again(t) \/ Cancel(t)

Next ==
  \/ \E t \in Tasks : Work(t) \/ AddOne(t) \/ NoHost(t)
  \/ \E t \in Callers : Call(t)
  \/ \E t \in TimerTasks : Fire(t)
  \/ ResetLease

Spec == Init /\ [][Next]_vars

\* Every goroutine that can run does, and timers run out; no host need ever be
\* found suitable.
Fairness ==
  /\ \A t \in Tasks : WF_vars(Work(t))
  /\ WF_vars(\E t \in TimerTasks : Fire(t))

---------------------------------------------------------------------------
(* Properties. *)

\* The types of the configurations ...
ConfigTypeOK ==
  /\ info \in [Hosts -> Counts]
  /\ cached \subseteq Hosts
  /\ stored \in [Hosts -> Counts \cup {None}]
  /\ host \in [Tasks -> Hosts]
  /\ hc \in [Tasks -> SUBSET Hosts]
  /\ save \in [Tasks -> {"set", "delete"}]

\* A host is never told to start an old version again: what etcd asks a host
\* to run of a legacy version only ever decreases, however deployments, timers
\* and failed writes interleave over the shared Info maps.
OldNeverReturns ==
  [][\A h \in Hosts, v \in Legacy : Desired'[h][v] <= Desired[h][v]]_vars

\* As long as no write failed, cache and etcd agree on every host that nobody
\* is about to write: two goroutines that change the same map and then write
\* it one after the other leave no stale configuration behind.
CacheAgrees ==
  fails = 0 /\ ~Crashed =>
    \A h \in Hosts :
      \/ \E t \in Tasks : pc[t] = "save" /\ host[t] = h
      \/ h \notin cached /\ stored[h] = None
      \/ h \in cached /\ stored[h] = info[h]

Total(f) == NumExp(f, Hosts) + NumUnexp(f, Hosts)

\* No host ran two legacy instances when t's deployment began, and not more
\* expected ones than it asked for ran in all.
Smooth(t) ==
  /\ NumExp(base[t], Hosts) <= num
  /\ \A h \in Hosts : NumUnexp(base[t], {h}) <= 1

\* A smooth rolling update does not take the service down: while it runs, the
\* hosts are always told to run as many instances as before, or as are asked
\* for if that is less. (For runs of one rolling update.)
RollingKeepsRunning ==
  \A t \in Callers : Smooth(t) =>
    \/ Total(Desired) >= num
    \/ Total(Desired) >= Total(base[t])

\* ... and when it has returned without an error, and no write failed, exactly
\* the asked instances of the expected version are left.
RollingCompletes ==
  \A t \in Callers : pc[t] = "ok" /\ fails = 0 /\ Smooth(t) =>
    NumExp(Desired, Hosts) = num /\ NumUnexp(Desired, Hosts) = 0

\* removeExpectInstances finds no expected instance on any host it lists.
Spinning(t) ==
  /\ pc[t] = "remove" /\ left[t] > 0
  /\ \A h \in cached \cup hc[t] : info[h][Exp] = 0

\* A deployment whose context is cancelled returns, even if NextHost never
\* finds a host: all but the one that is to remove expected instances that
\* another deployment has removed already. That one lists the hosts for ever,
\* and never looks at its context.
CancelReturns ==
  \A t \in Callers :
    ctxDone[t] ~> \/ Crashed \/ pc[t] \in {"idle", "ok", "failed"}
                  \/ []Spinning(t)

\* newDeploy: the old instances it left are stopped in the end, whatever
\* becomes of the timer that is to do it, unless a write fails.
LeaseEnds ==
  legacyTimer # "nil" ~>
    Crashed \/ fails > 0 \/ NumUnexp(Desired, Hosts) = 0

\* doc.go: the configured number of instances is running across the cluster
\* when a deployment has returned without an error.
ReachesNum ==
  \A t \in Callers : pc[t] = "ok" /\ fails = 0 => NumExp(Desired, Hosts) = num
=============================================================================
