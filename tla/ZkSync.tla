------------------------------- MODULE ZkSync -------------------------------
(***************************************************************************)
(* controllers/java/zk: the manager that keeps etcd and its own tables up   *)
(* to date with one watched path of zookeeper, an API 2 service (whose data *)
(* is the route) and its instances, each of a deployment of its own.  Such  *)
(* a route is never parsed into routeCfg: the name GetDeployName has for it *)
(* is the project's, for which GetAPIVersion knows no version.  Every       *)
(* node has a goroutine that waits for its one-shot watches and sends what  *)
(* they say on ech; one handler receives from ech; a timer reads everything *)
(* again; an API call sets the route.  A value is the number of the change  *)
(* that wrote it and 0 is a node that does not exist.                       *)
(***************************************************************************)
EXTENDS Integers, Sequences, FiniteSets

CONSTANTS
  Root, Kids,
  EchCap,      \* the size of ech, 10
  MaxEvents    \* bound: changes in zookeeper, and calls of it or of etcd that fail

ASSUME ZkSyncAssumption ==
  /\ Root \notin Kids
  /\ EchCap \in Nat \ {0} /\ MaxEvents \in Nat

VARIABLES
  val,       \* zookeeper
  changes,
  errors,
  etcd,      \* what etcd holds for the node, 0 for no key
  routeCfg,  \* manager.routeCfg of the deployment SetRouteConfig is called for
  zkIns,     \* how often zkIns lists the instance, 2 for twice or more
  ech,       \* the events sent and not received
  sync,      \* "run"; "failed", ech closed; "stopped", after Destory; "crashed"
  root,      \* the goroutine of the root
  walks,     \* how many times nodeWalkW walked the root
  watcher,   \* the goroutine the i-th walk started for a child
  handler,   \* Watch's loop
  reload,    \* the timer's goroutine
  setter     \* a call of SetRouteConfig: 0, or the value it wrote

zkSyncVars == <<val, changes, errors, etcd, routeCfg, zkIns, ech, sync, root,
                walks, watcher, handler, reload, setter>>
zkVars == <<val, changes>>
tables == <<etcd, routeCfg, zkIns>>
watching == <<root, walks, watcher>>

Nodes == Kids \cup {Root}
Walks == 1..(MaxEvents + 1)
Exists(n) == val[n] # 0
NoWatcher == [at |-> "none", data |-> "off", child |-> "off"]
GoneWatcher == [at |-> "gone", data |-> "off", child |-> "off"]
Idle == [at |-> "idle", todo |-> {}, dat |-> <<>>]
HandlerAt(at) == [at |-> at, node |-> Root, todo |-> {}, dat |-> 0]

ZkSyncInit ==
  /\ \E there \in SUBSET Kids : val = [n \in Nodes |-> IF n \in there \cup {Root} THEN 1 ELSE 0]
  /\ changes = 0 /\ errors = 0
  /\ etcd = [n \in Nodes |-> 0] /\ routeCfg = 0 /\ zkIns = [k \in Kids |-> 0]
  /\ ech = <<>> /\ sync = "run"
  /\ root = [at |-> "list", todo |-> {}, data |-> "off", child |-> "off", event |-> "none"]
  /\ walks = 0
  /\ watcher = [k \in Kids |-> [i \in Walks |-> NoWatcher]]
  /\ handler = HandlerAt("start")
  /\ reload = Idle /\ setter = 0

MayHappen == changes + errors < MaxEvents
Fail == MayHappen /\ errors' = errors + 1
-----------------------------------------------------------------------------
(* zookeeper: a change fires the watches that are armed. *)

Fired(state, event) == IF state = "armed" THEN event ELSE state

FireKid(k, data, child) ==
  watcher' = [watcher EXCEPT ![k] = [i \in Walks |->
    [watcher[k][i] EXCEPT !.data = Fired(watcher[k][i].data, data),
                          !.child = Fired(watcher[k][i].child, child)]]]

Change(n, v) ==
  /\ MayHappen /\ changes' = changes + 1
  /\ val' = [val EXCEPT ![n] = v]
  /\ UNCHANGED <<errors, tables, ech, sync, walks, handler, reload>>

ZkSet(n) ==
  /\ Exists(n) /\ Change(n, changes + 2)
  /\ IF n = Root
     THEN root' = [root EXCEPT !.data = Fired(@, "changed")] /\ UNCHANGED watcher
     ELSE FireKid(n, "changed", "armed") /\ UNCHANGED root

\* A change that somebody else makes.
ZkWrite(n) == sync # "crashed" /\ ZkSet(n) /\ UNCHANGED setter

ZkCreate(k) ==
  /\ sync # "crashed" /\ ~Exists(k) /\ Change(k, changes + 2)
  /\ root' = [root EXCEPT !.child = Fired(@, "children")]
  /\ UNCHANGED <<watcher, setter>>

ZkDelete(k) ==
  /\ sync # "crashed" /\ Exists(k) /\ Change(k, 0)
  /\ root' = [root EXCEPT !.child = Fired(@, "children")]
  /\ FireKid(k, "deleted", "deleted")
  /\ UNCHANGED setter
-----------------------------------------------------------------------------
(* The goroutines of the watches.  A send blocks while ech is full and ends *)
(* the process when ech is closed.                                          *)

SendEvent(event) ==
  IF sync = "run"
  THEN Len(ech) < EchCap /\ ech' = Append(ech, event) /\ UNCHANGED sync
  ELSE sync' = "crashed" /\ UNCHANGED ech

Rest == UNCHANGED <<zkVars, tables, handler, reload, setter>>

\* The data watch of nodeWalkW: when GetW fails that is only logged, and there is none.
DataWatch(data) ==
  \/ data = "armed" /\ UNCHANGED errors
  \/ data = "off" /\ Fail

\* nodeWalkW: ChildrenW and GetW of the root; what was pending on the old
\* watches is dropped.
RootList ==
  /\ sync # "crashed" /\ root.at = "list" /\ sync # "stopped"
  /\ walks' = walks + 1
  /\ \E data \in {"armed", "off"} :
       /\ DataWatch(data)
       /\ root' = [root EXCEPT !.at = "walk", !.todo = {k \in Kids : Exists(k)},
                               !.data = data, !.child = "armed"]
  /\ Rest /\ UNCHANGED <<ech, sync, watcher>>

\* ChildrenW fails: the error is sent and the root is not watched any more.
RootListFails ==
  /\ sync # "crashed" /\ root.at = "list"
  /\ IF sync = "stopped" THEN UNCHANGED errors ELSE Fail
  /\ root' = [root EXCEPT !.at = "lost", !.event = "error"]
  /\ Rest /\ UNCHANGED <<ech, sync, walks, watcher>>

RootLost ==
  /\ sync # "crashed" /\ root.at = "lost" /\ SendEvent([type |-> "error", node |-> Root])
  /\ root' = [root EXCEPT !.at = "gone"]
  /\ Rest /\ UNCHANGED <<errors, walks, watcher>>

\* Every call of a closed client fails, and so does one about a node that is gone.
Answers(n) == Exists(n) /\ sync # "stopped"
NoAnswer(n) == IF Answers(n) THEN Fail ELSE UNCHANGED errors

\* nodeWalkW of a child: it starts a goroutine, or sends the error of ChildrenW.
RootWalk(k) ==
  /\ sync # "crashed" /\ root.at = "walk" /\ k \in root.todo
  /\ root' = [root EXCEPT !.todo = @ \ {k}]
  /\ \/ \E data \in {"armed", "off"} :
          /\ Answers(k) /\ DataWatch(data)
          /\ watcher' = [watcher EXCEPT ![k][walks] =
                           [at |-> "select", data |-> data, child |-> "armed"]]
          /\ UNCHANGED <<ech, sync>>
     \/ NoAnswer(k) /\ SendEvent([type |-> "error", node |-> k]) /\ UNCHANGED watcher
  /\ Rest /\ UNCHANGED walks

RootSelect ==
  /\ sync # "crashed" /\ root.at = "walk" /\ root.todo = {}
  /\ root' = [root EXCEPT !.at = "select"]
  /\ Rest /\ UNCHANGED <<errors, ech, sync, walks, watcher>>

\* The select of the root's goroutine: the data watch, or the watch of the children.
RootRecv(watch) ==
  /\ sync # "crashed" /\ root.at = "select" /\ root[watch] \in {"changed", "children"}
  /\ root' = [root EXCEPT !.at = "send", !.event = root[watch], ![watch] = "off"]
  /\ Rest /\ UNCHANGED <<errors, ech, sync, walks, watcher>>

RootSendRearms ==
  /\ sync # "crashed" /\ root.at = "send" /\ SendEvent([type |-> root.event, node |-> Root])
  /\ root' = IF root.event = "children" THEN [root EXCEPT !.at = "select", !.child = "armed"]
             ELSE [root EXCEPT !.at = "rearm"]
  /\ Rest /\ UNCHANGED <<errors, walks, watcher>>

\* After a change of the children the goroutine walks the root again, which starts
\* a goroutine for the root and one more for every child that has one.
RootSend ==
  /\ sync # "crashed" /\ root.at = "send" /\ SendEvent([type |-> root.event, node |-> Root])
  /\ root' = [root EXCEPT !.at = IF root.event = "children" THEN "list" ELSE "rearm", !.event = "none"]
  /\ Rest /\ UNCHANGED <<errors, walks, watcher>>

RootRearm ==
  /\ sync \in {"run", "failed"} /\ root.at = "rearm"
  /\ root' = [root EXCEPT !.at = "select", !.data = "armed"]
  /\ Rest /\ UNCHANGED <<errors, ech, sync, walks, watcher>>

\* GetW fails and the goroutine returns.
RootRearmFails ==
  /\ sync # "crashed" /\ root.at = "rearm"
  /\ IF sync = "stopped" THEN UNCHANGED errors ELSE Fail
  /\ root' = [root EXCEPT !.at = "gone"]
  /\ Rest /\ UNCHANGED <<ech, sync, walks, watcher>>

KidRecv(k, i, watch) ==
  /\ sync # "crashed" /\ watcher[k][i].at = "select"
  /\ watcher[k][i][watch] \in {"changed", "deleted"}
  /\ watcher' = [watcher EXCEPT ![k][i].at = watcher[k][i][watch], ![k][i][watch] = "off"]
  /\ Rest /\ UNCHANGED <<errors, ech, sync, root, walks>>

KidSend(k, i) ==
  /\ sync # "crashed" /\ watcher[k][i].at \in {"changed", "deleted"}
  /\ SendEvent([type |-> watcher[k][i].at, node |-> k])
  /\ watcher' = [watcher EXCEPT ![k][i] =
       IF watcher[k][i].at = "changed" THEN [watcher[k][i] EXCEPT !.at = "rearm"] ELSE GoneWatcher]
  /\ Rest /\ UNCHANGED <<errors, root, walks>>

\* When GetW fails the goroutine ends; that the node was deleted meanwhile is not sent.
KidRearm(k, i) ==
  /\ sync # "crashed" /\ watcher[k][i].at = "rearm"
  /\ \/ /\ Answers(k) /\ UNCHANGED errors
        /\ watcher' = [watcher EXCEPT ![k][i].at = "select", ![k][i].data = "armed"]
     \/ NoAnswer(k) /\ watcher' = [watcher EXCEPT ![k][i] = GoneWatcher]
  /\ Rest /\ UNCHANGED <<ech, sync, root, walks>>

\* After Destory a goroutine that waits sees the context done and returns, or gets
\* the event of the closed connection and sends it.
LetGo ==
  /\ sync = "stopped"
  /\ \/ /\ root.at = "select" /\ UNCHANGED watcher
        /\ \E at \in {"gone", "send"} : root' = [root EXCEPT !.at = at, !.event = "changed"]
     \/ \E k \in Kids, i \in Walks, at \in {"gone", "changed"} :
          /\ watcher[k][i].at = "select"
          /\ watcher' = [watcher EXCEPT ![k][i].at = at]
          /\ UNCHANGED root
  /\ Rest /\ UNCHANGED <<errors, ech, sync, walks>>
-----------------------------------------------------------------------------
(* handlerFunc, which Watch's loop calls for every event *)

HandlerRest == UNCHANGED <<zkVars, watching, reload, setter>>
Twice(n) == IF n = 2 THEN 2 ELSE n + 1

\* watch has walked the tree; the loop begins.
HandlerStart ==
  /\ sync = "run" /\ handler.at = "start" /\ root.at \notin {"list", "walk", "lost"}
  /\ handler' = HandlerAt("recv")
  /\ HandlerRest /\ UNCHANGED <<errors, tables, ech, sync>>

\* An error of Children, of the store or of ListKeys: Watch returns, ech is closed.
HandlerFails ==
  /\ sync' = "failed" /\ ech' = <<>> /\ handler' = HandlerAt("off")

\* ChildrenChanged lists the children.  The keys it lists in etcd are those below
\* the zookeeper path, where nothing is kept, so none is found or deleted, and
\* zkIns of the service, which holds no instance, is emptied.
HandleChildren ==
  /\ sync = "run" /\ handler.at = "recv" /\ ech # <<>> /\ Head(ech).type = "children"
  /\ \/ /\ handler' = [handler EXCEPT !.at = "kids", !.todo = {k \in Kids : Exists(k)}]
        /\ ech' = Tail(ech) /\ UNCHANGED <<errors, sync>>
     \/ Fail /\ HandlerFails
  /\ HandlerRest /\ UNCHANGED tables

\* Get of a child; one for which it fails is left out.
HandleKid(k) ==
  /\ sync = "run" /\ handler.at = "kids" /\ k \in handler.todo
  /\ \/ /\ Answers(k) /\ UNCHANGED errors
        /\ handler' = [handler EXCEPT !.todo = @ \ {k}, !.at = "putkid", !.node = k, !.dat = val[k]]
     \/ NoAnswer(k) /\ handler' = [handler EXCEPT !.todo = @ \ {k}]
  /\ HandlerRest /\ UNCHANGED <<tables, ech, sync>>

\* Update, whose error is only logged.
Put(n, v) ==
  \/ etcd' = [etcd EXCEPT ![n] = v] /\ UNCHANGED errors
  \/ Fail /\ UNCHANGED etcd

\* parseZKData appends the instance to its deployment's list; then Update.
HandlePutKid ==
  /\ sync = "run" /\ handler.at = "putkid"
  /\ Put(handler.node, handler.dat)
  /\ zkIns' = [zkIns EXCEPT ![handler.node] = Twice(@)]
  /\ handler' = [HandlerAt("kids") EXCEPT !.todo = handler.todo]
  /\ HandlerRest /\ UNCHANGED <<routeCfg, ech, sync>>

HandleKidsDone ==
  /\ sync = "run" /\ handler.at = "kids" /\ handler.todo = {}
  /\ handler' = HandlerAt("recv")
  /\ HandlerRest /\ UNCHANGED <<errors, tables, ech, sync>>

\* DataChanged: Get; a node for which it fails is left alone.
HandleData ==
  /\ sync = "run" /\ handler.at = "recv" /\ ech # <<>> /\ Head(ech).type = "changed"
  /\ LET n == Head(ech).node IN
     \/ /\ Answers(n) /\ UNCHANGED errors
        /\ handler' = [handler EXCEPT !.at = "put", !.node = n, !.dat = val[n]]
     \/ NoAnswer(n) /\ UNCHANGED handler
  /\ ech' = Tail(ech)
  /\ HandlerRest /\ UNCHANGED <<tables, sync>>

\* Without a store Watch returns; otherwise Update.
HandlePut ==
  /\ sync = "run" /\ handler.at = "put"
  /\ \/ /\ Put(handler.node, handler.dat)
        /\ handler' = HandlerAt("recv") /\ UNCHANGED <<ech, sync>>
     \/ Fail /\ HandlerFails /\ UNCHANGED etcd
  /\ HandlerRest /\ UNCHANGED <<routeCfg, zkIns>>

\* Deleted takes one entry off the list and deletes the key.
HandleDeleted ==
  /\ sync = "run" /\ handler.at = "recv" /\ ech # <<>> /\ Head(ech).type = "deleted"
  /\ LET k == Head(ech).node IN
     /\ \E rest \in CASE zkIns[k] = 2 -> {1, 2} [] OTHER -> {0} :
          zkIns' = [zkIns EXCEPT ![k] = rest]
     /\ \/ /\ Put(k, 0) /\ ech' = Tail(ech) /\ UNCHANGED <<sync, handler>>
        \/ Fail /\ HandlerFails /\ UNCHANGED etcd
  /\ HandlerRest /\ UNCHANGED routeCfg

HandleOther ==
  /\ sync = "run" /\ handler.at = "recv" /\ ech # <<>> /\ Head(ech).type = "error"
  /\ ech' = Tail(ech)
  /\ HandlerRest /\ UNCHANGED <<errors, tables, sync, handler>>

\* The loop of start: Destory cancels the context and closes the client, and the
\* loop then ends.
Destory ==
  /\ sync = "failed" /\ sync' = "stopped"
  /\ HandlerRest /\ UNCHANGED <<errors, tables, ech, handler>>
-----------------------------------------------------------------------------
(* ReloadData and SetRouteConfig *)

ReloadRest == UNCHANGED <<zkVars, watching, ech, handler, setter>>

\* nodeWalk lists the children of the root; when that fails nothing happens until
\* the timer fires again.  Without a client GetValues dereferences nil.
ReloadStart ==
  /\ sync # "crashed" /\ reload.at = "idle"
  /\ IF sync = "stopped" THEN sync' = "crashed" /\ UNCHANGED reload
     ELSE /\ reload' = [at |-> "read", todo |-> {n \in Nodes : Exists(n)}, dat |-> <<>>]
          /\ UNCHANGED sync
  /\ ReloadRest /\ UNCHANGED <<errors, tables>>

\* It reads the root and then the children.
ReloadNext(n) ==
  /\ sync # "crashed" /\ reload.at = "read" /\ n \in reload.todo
  /\ Root \in reload.todo => n = Root

ReloadRead(n) ==
  /\ ReloadNext(n) /\ Answers(n)
  /\ reload' = [reload EXCEPT !.todo = @ \ {n},
       !.dat = [m \in DOMAIN @ \cup {n} |-> IF m = n THEN val[n] ELSE @[m]]]
  /\ ReloadRest /\ UNCHANGED <<errors, tables, sync>>

\* An error about the root ends ReloadData; that about a child is dropped, and the
\* child is left out.
ReloadReadFails(n) ==
  /\ ReloadNext(n) /\ NoAnswer(n)
  /\ reload' = IF n = Root THEN Idle ELSE [reload EXCEPT !.todo = @ \ {n}]
  /\ ReloadRest /\ UNCHANGED <<tables, sync>>

ReloadWriteMissing(n) ==
  /\ sync # "crashed" /\ reload.at = "read" /\ reload.todo = {} /\ n \in DOMAIN reload.dat
  /\ Put(n, IF etcd[n] = 0 THEN reload.dat[n] ELSE etcd[n])
  /\ zkIns' = [k \in Kids |-> IF k = n THEN Twice(zkIns[k]) ELSE zkIns[k]]
  /\ reload' = [reload EXCEPT !.dat = [m \in DOMAIN @ \ {n} |-> @[m]]]
  /\ ReloadRest /\ UNCHANGED <<routeCfg, sync>>

ReloadWrite(n) ==
  /\ sync # "crashed" /\ reload.at = "read" /\ reload.todo = {} /\ n \in DOMAIN reload.dat
  /\ Put(n, reload.dat[n])
  /\ zkIns' = [k \in Kids |-> IF k = n THEN Twice(zkIns[k]) ELSE zkIns[k]]
  /\ reload' = [reload EXCEPT !.dat = [m \in DOMAIN @ \ {n} |-> @[m]]]
  /\ ReloadRest /\ UNCHANGED <<routeCfg, sync>>

ReloadDone ==
  /\ sync # "crashed" /\ reload.at = "read" /\ reload.todo = {} /\ DOMAIN reload.dat = {}
  /\ reload' = Idle
  /\ ReloadRest /\ UNCHANGED <<errors, tables, sync>>

\* SetRouteConfig writes zookeeper and then, under the lock, routeCfg.  A write that
\* fails, or whose answer is lost, ends it: nothing happened, or a ZkWrite.
SetRouteWrite ==
  /\ sync \in {"run", "failed"} /\ setter = 0 /\ ZkSet(Root) /\ setter' = changes + 2

SetRouteTable ==
  /\ sync # "crashed" /\ setter # 0
  /\ routeCfg' = setter /\ setter' = 0
  /\ UNCHANGED <<zkVars, errors, etcd, zkIns, ech, sync, watching, handler, reload>>
-----------------------------------------------------------------------------
Watchers ==
  \/ RootList \/ RootLost \/ RootSelect \/ RootSend \/ RootRearm \/ LetGo
  \/ \E k \in Kids : RootWalk(k)
  \/ \E w \in {"data", "child"} : RootRecv(w)
  \/ \E k \in Kids, i \in Walks :
       KidSend(k, i) \/ KidRearm(k, i) \/ \E w \in {"data", "child"} : KidRecv(k, i, w)

Handler ==
  \/ HandlerStart \/ HandleChildren \/ HandlePutKid \/ HandleKidsDone \/ HandleData
  \/ HandlePut \/ HandleDeleted \/ HandleOther \/ Destory
  \/ \E k \in Kids : HandleKid(k)

Reload ==
  \/ ReloadStart \/ ReloadDone
  \/ \E n \in Nodes : ReloadRead(n) \/ ReloadReadFails(n) \/ ReloadWrite(n)

Zookeeper ==
  \/ \E n \in Nodes : ZkWrite(n)
  \/ \E k \in Kids : ZkCreate(k) \/ ZkDelete(k)

ZkSyncNext ==
  \/ Zookeeper \/ Watchers \/ RootListFails \/ RootRearmFails \/ Handler
  \/ Reload \/ SetRouteWrite \/ SetRouteTable

\* The goroutines go on, the timer fires again and again; nobody has to change
\* zookeeper, and what fails need not.
ZkSyncFairness ==
  /\ WF_zkSyncVars(Watchers) /\ WF_zkSyncVars(Handler) /\ WF_zkSyncVars(SetRouteTable)
  /\ WF_zkSyncVars(Reload)

ZkSyncSpec == ZkSyncInit /\ [][ZkSyncNext]_zkSyncVars
-----------------------------------------------------------------------------
\* As long as nothing has failed every node of zookeeper is watched, or the root is
\* about to list it: a child that is deleted, created again or created while the tree
\* is walked is not overlooked (nodeWalkW).
EveryNodeWatched ==
  errors = 0 =>
    /\ root.at # "gone"
    /\ \A k \in Kids : Exists(k) =>
         \/ root.at = "list" \/ root.child = "children"
         \/ root.at = "send" /\ root.event = "children"
         \/ root.at = "walk" /\ k \in root.todo
         \/ \E i \in Walks : /\ watcher[k][i].at \in {"select", "changed", "rearm"}
                             /\ watcher[k][i].child = "armed"

\* Unless the synchronisation failed, etcd ends up with the value of every node there
\* is, although watches are lost, events are dropped and an old value is written over
\* a new one on the way (ReloadData, handlerFunc).
EtcdCatchesUp ==
  <>[](sync # "run" \/ \A n \in Nodes : Exists(n) => etcd[n] = val[n])
=============================================================================
