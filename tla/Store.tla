------------------------------- MODULE Store -------------------------------
(***************************************************************************)
(* registry/generic/store.go: the store API over etcd.  Create and Delete   *)
(* are one transaction each, Update puts; a call with a time to live asks   *)
(* for a lease first, so that the lease may be over before its object is    *)
(* put.  Get without a quorum reads what the member it is connected to has, *)
(* which may be late.  A request that etcd has done may look like a failure. *)
(***************************************************************************)
EXTENDS EtcdKeys

CONSTANTS
  Users,      \* goroutines of all processes
  Quorum,     \* those whose store reads with a quorum
  Prefix,     \* the pathPrefix of their stores
  Requests,   \* [op, key, ttl, ignore]: what they ask for
  MaxClock, MaxCalls \* bounds: the time, and calls in all

ASSUME StoreAssumption ==
  /\ Quorum \subseteq Users /\ MaxClock \in Nat /\ MaxCalls \in Nat
  /\ \A r \in Requests : r.ttl \in Nat

VARIABLES
  kvs,     \* etcd: of each key, the object (the call that put it) and its lease or 0
  behind,  \* etcd: what a member that is late has of kvs
  leases,  \* etcd: when each lease ends; a lease has the number of its call
  clock,
  calls,   \* how many calls there were
  at,      \* where each user is: idle, grant or send
  call,    \* its call: the request, the number and the lease
  reply,   \* what its last call returned
  begun    \* history: when each call began, and its time to live

storeVars == <<kvs, behind, leases, clock, calls, at, call, reply, begun>>

NoCall == [op |-> "none", key |-> <<>>, ttl |-> 0, ignore |-> FALSE]
StoreInit ==
  /\ kvs = <<>> /\ behind = <<>> /\ leases = <<>> /\ clock = 0 /\ calls = 0
  /\ at = [u \in Users |-> "idle"]
  /\ call = [u \in Users |-> [req |-> NoCall, num |-> 0, lease |-> 0]]
  /\ reply = [u \in Users |-> [err |-> "none", found |-> {}]]
  /\ begun = <<>>

Begin(u, r) ==
  /\ at[u] = "idle" /\ calls < MaxCalls /\ calls' = calls + 1
  /\ call' = [call EXCEPT ![u] = [req |-> r, num |-> calls + 1, lease |-> 0]]
  /\ at' = [at EXCEPT ![u] = IF r.op \in {"create", "update"} /\ r.ttl # 0
                             THEN "grant" ELSE "send"]
  /\ begun' = Append(begun, [time |-> clock, ttl |-> r.ttl])
  /\ UNCHANGED <<kvs, behind, leases, clock, reply>>

Returns(u, err, found) ==
  /\ at' = [at EXCEPT ![u] = "idle"]
  /\ reply' = [reply EXCEPT ![u] = [err |-> err, found |-> found]]
  /\ UNCHANGED <<behind, clock, calls, call, begun>>

\* Mutant: one lease for all that is put while it lasts.
TtlOptsShared(u) ==
  LET lease == IF DOMAIN leases = {} THEN call[u].num
               ELSE CHOOSE l \in DOMAIN leases : TRUE IN
  /\ at[u] = "grant" /\ at' = [at EXCEPT ![u] = "send"]
  /\ call' = [call EXCEPT ![u].lease = lease]
  /\ leases' = [l \in DOMAIN leases \cup {lease} |->
                  IF l \in DOMAIN leases THEN leases[l] ELSE clock + call[u].req.ttl]
  /\ UNCHANGED <<kvs, behind, clock, calls, reply, begun>>

\* ttlOpts: a lease of its own for every call.
TtlOpts(u) ==
  /\ at[u] = "grant" /\ at' = [at EXCEPT ![u] = "send"]
  /\ call' = [call EXCEPT ![u].lease = call[u].num]
  /\ leases' = [l \in DOMAIN leases \cup {call[u].num} |->
                  IF l = call[u].num THEN clock + call[u].req.ttl ELSE leases[l]]
  /\ UNCHANGED <<kvs, behind, clock, calls, reply, begun>>

Key(u) == KeyWithPrefix(Prefix, call[u].req.key)
Sends(u, op) == at[u] = "send" /\ call[u].req.op = op
Found(of, key) == IF key \in DOMAIN of THEN {of[key].obj} ELSE {}
LeaseOver(u) == call[u].lease # 0 /\ call[u].lease \notin DOMAIN leases
WithPut(u) ==
  [k \in DOMAIN kvs \cup {Key(u)} |->
     IF k = Key(u) THEN [obj |-> call[u].num, lease |-> call[u].lease] ELSE kvs[k]]

\* The answer arrives or is lost.
Answers(u, err, found) ==
  \/ Returns(u, err, found)
  \/ Returns(u, "unavailable", {})

\* Mutant: the transaction puts whatever is there.
CreateBlind(u) ==
  /\ Sends(u, "create") /\ ~LeaseOver(u)
  /\ kvs' = WithPut(u) /\ Answers(u, "none", {})
  /\ UNCHANGED leases

Create(u) ==
  /\ Sends(u, "create") /\ ~LeaseOver(u)
  /\ \/ Key(u) \notin DOMAIN kvs /\ kvs' = WithPut(u) /\ Answers(u, "none", {})
     \/ Key(u) \in DOMAIN kvs /\ UNCHANGED kvs /\ Answers(u, "key exists", {})
  /\ UNCHANGED leases

\* unconditionalDelete
Delete(u) ==
  /\ Sends(u, "delete")
  /\ kvs' = [k \in DOMAIN kvs \ {Key(u)} |-> kvs[k]]
  /\ \/ Key(u) \in DOMAIN kvs /\ Answers(u, "none", Found(kvs, Key(u)))
     \/ Key(u) \notin DOMAIN kvs /\ Answers(u, "key not found", {})
  /\ UNCHANGED leases

\* Update asks for the object that was there.
Update(u) ==
  /\ Sends(u, "update") /\ ~LeaseOver(u)
  /\ kvs' = WithPut(u) /\ Answers(u, "none", Found(kvs, Key(u)))
  /\ UNCHANGED leases

Get(u) ==
  /\ Sends(u, "get")
  /\ \E of \in {kvs} \cup IF u \in Quorum THEN {} ELSE {behind} :
       \/ Key(u) \in DOMAIN of /\ Answers(u, "none", Found(of, Key(u)))
       \/ Key(u) \notin DOMAIN of
          /\ Answers(u, IF call[u].req.ignore THEN "none" ELSE "key not found", {})
  /\ UNCHANGED <<kvs, leases>>

List(u) ==
  /\ Sends(u, "list")
  /\ Answers(u, "none", {kvs[k].obj : k \in ListedIn(DOMAIN kvs, Key(u))})
  /\ UNCHANGED <<kvs, leases>>

\* The request does not get to etcd, or etcd has no such lease any more.
CallFails(u) ==
  /\ at[u] \in {"grant", "send"} /\ Returns(u, "unavailable", {})
  /\ UNCHANGED <<kvs, leases>>
PutTooLate(u) ==
  /\ at[u] = "send" /\ LeaseOver(u) /\ Returns(u, "lease not found", {})
  /\ UNCHANGED <<kvs, leases>>

Tick ==
  /\ clock < MaxClock /\ clock' = clock + 1
  /\ UNCHANGED <<kvs, behind, leases, calls, at, call, reply, begun>>

\* etcd ends a lease and takes away what is put with it.
Expire(l) ==
  /\ leases[l] <= clock
  /\ leases' = [m \in DOMAIN leases \ {l} |-> leases[m]]
  /\ kvs' = [k \in {x \in DOMAIN kvs : kvs[x].lease # l} |-> kvs[k]]
  /\ UNCHANGED <<behind, clock, calls, at, call, reply, begun>>

CatchUp ==
  /\ behind # kvs /\ behind' = kvs
  /\ UNCHANGED <<kvs, leases, clock, calls, at, call, reply, begun>>

StoreNext ==
  \/ Tick \/ CatchUp
  \/ \E l \in DOMAIN leases : Expire(l)
  \/ \E u \in Users :
       \/ \E r \in Requests : Begin(u, r)
       \/ TtlOpts(u) \/ Create(u) \/ Delete(u) \/ Update(u) \/ Get(u) \/ List(u)
       \/ CallFails(u) \/ PutTooLate(u)

StoreSpec == StoreInit /\ [][StoreNext]_storeVars
-----------------------------------------------------------------------------
\* The store is the directory of its Interface's comments, whatever its calls do at
\* once, answers are lost or leases end under way: Create makes an object for one
\* caller only, Delete returns the very object it took, and only Get may be late.
ObjectsOf(of) == [k \in DOMAIN of |-> of[k].obj]
KeysAsked == {KeyWithPrefix(Prefix, r.key) : r \in Requests}
Promised == INSTANCE Directory WITH
  dir <- ObjectsOf(kvs), late <- ObjectsOf(behind), Keys <- KeysAsked, Objects <- 1..MaxCalls
DirectoryPromise == Promised!DirectorySpec

\* No object goes before its time to live is over, counted from the call that put it
\* last, and one that was put for good stays: a lease of an earlier call does not
\* take it away.
LivesItsTime ==
  [][\A k \in DOMAIN kvs : leases' # leases /\ k \notin DOMAIN kvs' =>
       LET b == begun[kvs[k].obj] IN b.ttl # 0 /\ b.time + b.ttl <= clock]_storeVars
=============================================================================
