----------------------------- MODULE WatchChan -----------------------------
(***************************************************************************)
(* One watch of the etcd registry: registry/generic/watcher.go, event.go.  *)
(*                                                                         *)
(* Three goroutines share four channels and one context:                   *)
(*   W  startWatching (with sync)  -> incomingEventChan, errChan           *)
(*   P  processEvent               incomingEventChan -> resultChan         *)
(*   R  run                        errChan, watchClosedCh -> close         *)
(* beside them the etcd server (external), and the user of the watch, who  *)
(* receives from ResultChan() and may call Stop() at any moment.           *)
(*                                                                         *)
(* Keys are the ranks of the watched etcd keys in etcd's own order, and    *)
(* values are what the object filter and the JSON decoder tell apart.      *)
(***************************************************************************)
EXTENDS Naturals, Sequences, FiniteSets

CONSTANTS Keys,        \* the keys under the watched prefix, as their ranks
          Values,      \* the values ever stored
          NoValue,     \* a key that does not exist; also a nil object
          Passing,     \* the values the selection predicate matches
          Calls,       \* the arguments Watch may be called with
          InCap,       \* incomingBufSize
          OutCap,      \* outgoingBufSize
          MaxRev       \* bound: revisions the server ever writes

\* rev: where to start, 0 is a full sync; acceptAll: the predicate is empty
\* (internalFilter is nil); undecodable: the values the type cannot hold.
CallRecords == [rev : Nat, acceptAll : BOOLEAN, undecodable : SUBSET Values]

ASSUME KeysAssumption == Keys \subseteq Nat
ASSUME CallsAssumption == Calls \subseteq CallRecords
ASSUME ValuesAssumption == /\ NoValue \notin Values
                           /\ Passing \subseteq Values
ASSUME CapsAssumption == /\ InCap \in Nat \ {0}
                         /\ OutCap \in Nat \ {0}
                         /\ MaxRev \in Nat

VARIABLES
  hist,         \* etcd: hist[r] is the write that made revision r
  compacted,    \* etcd: revisions below this one are gone
  clientClosed, \* etcd: the shared client was closed under the watch
  call,         \* the arguments of Watch
  cancelled,    \* wc.ctx is done
  stopped,      \* the user called Stop() or cancelled the parent context
  incoming,     \* incomingEventChan
  sent,         \* everything ever put into resultChan ...
  taken,        \* ... and how much of it the user received
  errChan,      \* errChan, capacity 1
  watchClosed,  \* watchClosedCh is closed
  closed,       \* resultChan is closed
  wpc, whand, werr, todo, initialRev, nextRev, \* W: startWatching and sync
  ppc, phand,                                  \* P: processEvent
  rpc                                          \* R: run

etcdVars == <<hist, compacted, clientClosed, call>>
wVars == <<wpc, whand, werr, todo, initialRev, nextRev>>
pVars == <<ppc, phand>>
vars == <<hist, compacted, clientClosed, call, cancelled, stopped, incoming, sent,
          taken, errChan, watchClosed, closed, wpc, whand, werr, todo,
          initialRev, nextRev, ppc, phand, rpc>>

---------------------------------------------------------------------------
(* The server's data. *)

Writes == [key : Keys, val : Values \cup {NoValue}]

\* The revisions up to r that wrote key k, and whether m is the last of them.
WritesOf(k, r) == {i \in 1..r : i <= Len(hist) /\ hist[i].key = k}
IsModRevision(k, r, m) ==
  m \in WritesOf(k, r) /\ \A j \in WritesOf(k, r) : j <= m

\* The value of k at revision r.
ValueAt(k, r) ==
  IF WritesOf(k, r) = {} THEN NoValue
  ELSE hist[CHOOSE m \in 1..r : IsModRevision(k, r, m)].val

AcceptAll == call.acceptAll
Undecodable == call.undecodable

LiveKeys == {k \in Keys : ValueAt(k, Len(hist)) # NoValue}

---------------------------------------------------------------------------
(* Events on their way to the user. *)

\* type event: of a key's revision rev, found by sync or by the watch. Its key
\* is the key relative to the watched prefix only when "stripped".
Events == [sync : BOOLEAN, stripped : BOOLEAN, key : Keys, rev : Nat,
           prev : Values \cup {NoValue}]
NoEvent == [sync |-> TRUE, stripped |-> TRUE, key |-> 0, rev |-> 0,
            prev |-> NoValue]

\* parseKV, and the TrimPrefix that sync applies to its result: prevVal was
\* read at the revision of the listing, so it is the current value.
ParseKV(k, m) ==
  [sync |-> TRUE, stripped |-> TRUE, key |-> k, rev |-> m,
   prev |-> ValueAt(k, initialRev)]

\* parseEvent: the server omits PrevKv when the previous revision is gone.
ParseEvent(r, prev) ==
  [sync |-> FALSE, stripped |-> FALSE, key |-> hist[r].key, rev |-> r,
   prev |-> prev]

IsDeleted(e) == hist[e.rev].val = NoValue
IsCreated(e) == ValueAt(e.key, e.rev - 1) = NoValue

\* prepareObjs
CurObj(e) == hist[e.rev].val
OldObj(e) == IF IsDeleted(e) \/ ~AcceptAll THEN e.prev ELSE NoValue
DecodeFails(e) == \/ CurObj(e) \in Undecodable
                  \/ OldObj(e) \in Undecodable

\* filter: SimpleFilter answers false for an object it cannot look into.
Filter(obj) == AcceptAll \/ obj \in Passing

\* Mutant: an object that the filter matched before but not after its change
\* is modified.
ResultTypeForgets(e) ==
  CASE IsDeleted(e) -> IF Filter(OldObj(e)) THEN "DELETED" ELSE "none"
    [] ~IsDeleted(e) /\ IsCreated(e) ->
         IF Filter(CurObj(e)) THEN "ADDED" ELSE "none"
    [] OTHER ->
         IF AcceptAll \/ Filter(OldObj(e)) THEN "MODIFIED"
         ELSE IF Filter(CurObj(e)) THEN "ADDED" ELSE "none"

\* The type of the result transform makes of an event, "none" for a nil result.
ResultType(e) ==
  CASE IsDeleted(e) -> IF Filter(OldObj(e)) THEN "DELETED" ELSE "none"
    [] ~IsDeleted(e) /\ IsCreated(e) ->
         IF Filter(CurObj(e)) THEN "ADDED" ELSE "none"
    [] OTHER ->
         IF AcceptAll \/ (Filter(CurObj(e)) /\ Filter(OldObj(e)))
         THEN "MODIFIED"
         ELSE IF Filter(CurObj(e)) THEN "ADDED"
         ELSE IF Filter(OldObj(e)) THEN "DELETED" ELSE "none"

ResultTypes == {"ADDED", "MODIFIED", "DELETED"}
Results == [type : ResultTypes \cup {"ERROR"}, ev : Events \cup {NoEvent}]
ErrorResult == [type |-> "ERROR", ev |-> NoEvent]

\* The object a result carries.
Object(r) == IF r.type = "DELETED" THEN OldObj(r.ev) ELSE CurObj(r.ev)

---------------------------------------------------------------------------
Init ==
  /\ hist = <<>> /\ compacted = 0 /\ clientClosed = FALSE
  /\ cancelled = FALSE /\ stopped = FALSE
  /\ incoming = <<>> /\ sent = <<>> /\ taken = 0
  /\ errChan = <<>> /\ watchClosed = FALSE /\ closed = FALSE
  /\ call \in Calls /\ initialRev = call.rev /\ nextRev = 0
  /\ wpc = (IF call.rev = 0 THEN "sync" ELSE "next")
  /\ whand = NoEvent /\ werr = "none" /\ todo = {}
  /\ ppc = "select" /\ phand = ErrorResult
  /\ rpc = "wait"

---------------------------------------------------------------------------
(* W: sync and startWatching. *)

Errors == {"other", "canceled", "compacted"}

\* What a call to the server made by W can fail with.
RpcErrors ==
  {"other"} \cup (IF cancelled \/ clientClosed THEN {"canceled"} ELSE {})

WFail(errs) ==
  /\ \E err \in errs : werr' = err
  /\ wpc' = "sendErr"
  /\ UNCHANGED <<whand, todo, initialRev, nextRev>>

\* sync: list the keys under the prefix at one revision.
SyncList ==
  /\ wpc = "sync"
  /\ \/ /\ ~cancelled /\ ~clientClosed
        /\ initialRev' = Len(hist)
        /\ todo' = LiveKeys
        /\ wpc' = "next"
        /\ UNCHANGED <<whand, werr, nextRev>>
     \/ WFail(RpcErrors)
  /\ UNCHANGED <<etcdVars, cancelled, stopped, incoming, sent, taken, errChan,
                 watchClosed, closed, pVars, rpc>>

\* sync: read the listed key again at the listing's revision, and parse it.
SyncKey ==
  /\ wpc = "next" /\ todo # {}
  /\ \/ /\ ~cancelled /\ ~clientClosed /\ initialRev >= compacted
        /\ \E k \in todo, m \in 1..initialRev :
             /\ \A j \in todo : k <= j
             /\ IsModRevision(k, initialRev, m)
             /\ todo' = todo \ {k}
             /\ whand' = ParseKV(k, m)
        /\ wpc' = "sendEvent"
        /\ UNCHANGED <<werr, initialRev, nextRev>>
     \/ WFail(RpcErrors \cup
              (IF initialRev < compacted THEN {"compacted"} ELSE {}))
  /\ UNCHANGED <<etcdVars, cancelled, stopped, incoming, sent, taken, errChan,
                 watchClosed, closed, pVars, rpc>>

\* Mutant: the etcd watch starts at the listing's revision, not behind it.
StartWatchAgain ==
  /\ wpc = "next" /\ todo = {}
  /\ wpc' = "watch"
  /\ nextRev' = IF initialRev = 0 THEN 1 ELSE initialRev
  /\ UNCHANGED <<etcdVars, cancelled, stopped, incoming, sent, taken, errChan,
                 watchClosed, closed, whand, werr, todo, initialRev, pVars, rpc>>

\* Mutant: the etcd watch starts at the store's revision by then.
StartWatchLate ==
  /\ wpc = "next" /\ todo = {}
  /\ wpc' = "watch"
  /\ nextRev' = Len(hist) + 1
  /\ UNCHANGED <<etcdVars, cancelled, stopped, incoming, sent, taken, errChan,
                 watchClosed, closed, whand, werr, todo, initialRev, pVars, rpc>>

\* startWatching: sync is over, open the etcd watch behind its revision.
StartWatch ==
  /\ wpc = "next" /\ todo = {}
  /\ wpc' = "watch"
  /\ nextRev' = initialRev + 1
  /\ UNCHANGED <<etcdVars, cancelled, stopped, incoming, sent, taken, errChan,
                 watchClosed, closed, whand, werr, todo, initialRev, pVars, rpc>>

\* startWatching: the next event of the etcd watch.
WatchRecv ==
  /\ wpc = "watch" /\ nextRev <= Len(hist)
  /\ \E prev \in {ValueAt(hist[nextRev].key, nextRev - 1)} \cup
                 (IF nextRev - 1 < compacted THEN {NoValue} ELSE {}) :
       whand' = ParseEvent(nextRev, prev)
  /\ nextRev' = nextRev + 1
  /\ wpc' = "sendEvent"
  /\ UNCHANGED <<etcdVars, cancelled, stopped, incoming, sent, taken, errChan,
                 watchClosed, closed, werr, todo, initialRev, pVars, rpc>>

\* startWatching: the etcd watch reports an error.
WatchErr ==
  /\ wpc = "watch"
  /\ WFail(RpcErrors \cup (IF nextRev < compacted THEN {"compacted"} ELSE {}))
  /\ UNCHANGED <<etcdVars, cancelled, stopped, incoming, sent, taken, errChan,
                 watchClosed, closed, pVars, rpc>>

\* startWatching: the etcd watch channel is closed, by the context or because
\* the client is; nothing is reported but watchClosedCh.
WatchEnd ==
  /\ wpc = "watch" /\ (cancelled \/ clientClosed)
  /\ wpc' = "done"
  /\ watchClosed' = TRUE
  /\ UNCHANGED <<etcdVars, cancelled, stopped, incoming, sent, taken, errChan,
                 closed, whand, werr, todo, initialRev, nextRev, pVars, rpc>>

\* Mutant: a plain send, without the context.
SendEventBlocks ==
  /\ wpc = "sendEvent"
  /\ Len(incoming) < InCap
  /\ incoming' = Append(incoming, whand)
  /\ wpc' = IF whand.sync THEN "next" ELSE "watch"
  /\ UNCHANGED <<etcdVars, cancelled, stopped, sent, taken, errChan,
                 watchClosed, closed, whand, werr, todo, initialRev, nextRev,
                 pVars, rpc>>

\* sendEvent: its select may take the context although there is room.
SendEvent ==
  /\ wpc = "sendEvent"
  /\ \/ /\ Len(incoming) < InCap
        /\ incoming' = Append(incoming, whand)
     \/ /\ cancelled
        /\ UNCHANGED incoming
  /\ wpc' = IF whand.sync THEN "next" ELSE "watch"
  /\ UNCHANGED <<etcdVars, cancelled, stopped, sent, taken, errChan,
                 watchClosed, closed, whand, werr, todo, initialRev, nextRev,
                 pVars, rpc>>

\* sendError, the shared part.
SendError(err) ==
  \/ /\ Len(errChan) < 1
     /\ errChan' = Append(errChan, err)
  \/ /\ cancelled
     /\ UNCHANGED errChan

\* Mutant: watchClosedCh is closed whenever startWatching returns.
WSendErrorCloses ==
  /\ wpc = "sendErr"
  /\ SendError(werr)
  /\ wpc' = "done"
  /\ watchClosed' = TRUE
  /\ UNCHANGED <<etcdVars, cancelled, stopped, incoming, sent, taken,
                 closed, whand, werr, todo, initialRev, nextRev, pVars, rpc>>

\* startWatching returns after sendError, without closing watchClosedCh.
WSendError ==
  /\ wpc = "sendErr"
  /\ SendError(werr)
  /\ wpc' = "done"
  /\ UNCHANGED <<etcdVars, cancelled, stopped, incoming, sent, taken,
                 watchClosed, closed, whand, werr, todo, initialRev, nextRev,
                 pVars, rpc>>

\* Every step of W but the errors etcd may raise at any moment.
WStep == \/ SyncList \/ SyncKey \/ StartWatch \/ WatchRecv \/ WatchEnd
         \/ SendEvent \/ WSendError

---------------------------------------------------------------------------
(* P: processEvent and transform. *)

\* An event is taken and transformed; a nil result is skipped.
Transform ==
  /\ ppc = "select" /\ incoming # <<>>
  /\ incoming' = Tail(incoming)
  /\ LET e == Head(incoming) IN
       \/ /\ DecodeFails(e)
          /\ ppc' = "sendErr"
          /\ UNCHANGED phand
       \/ /\ ~DecodeFails(e) /\ ResultType(e) = "none"
          /\ UNCHANGED pVars
       \/ /\ ~DecodeFails(e) /\ ResultType(e) # "none"
          /\ ppc' = "offer"
          /\ phand' = [type |-> ResultType(e), ev |-> e]
  /\ UNCHANGED <<etcdVars, cancelled, stopped, sent, taken, errChan,
                 watchClosed, closed, wVars, rpc>>

\* transform could not decode the event: report it, and go on to the next one.
PSendError ==
  /\ ppc = "sendErr"
  /\ SendError("decode")
  /\ ppc' = "select"
  /\ UNCHANGED <<etcdVars, cancelled, stopped, incoming, sent, taken,
                 watchClosed, closed, wVars, phand, rpc>>

\* The result is put into resultChan, or given up because the context is done.
Deliver ==
  /\ ppc = "offer"
  /\ \/ /\ Len(sent) - taken < OutCap
        /\ sent' = Append(sent, phand)
        /\ ppc' = "select"
     \/ /\ cancelled
        /\ ppc' = "done"
        /\ UNCHANGED sent
  /\ UNCHANGED <<etcdVars, cancelled, stopped, incoming, taken, errChan,
                 watchClosed, closed, wVars, phand, rpc>>

ProcessDone ==
  /\ ppc = "select" /\ cancelled
  /\ ppc' = "done"
  /\ UNCHANGED <<etcdVars, cancelled, stopped, incoming, sent, taken, errChan,
                 watchClosed, closed, wVars, phand, rpc>>

PNext == Transform \/ PSendError \/ Deliver \/ ProcessDone

---------------------------------------------------------------------------
(* R: run. *)

\* The three-way select: an error, the end of the etcd watch, the context.
RunSelect ==
  /\ rpc = "wait"
  /\ \/ /\ errChan # <<>>
        /\ errChan' = Tail(errChan)
        /\ rpc' = IF Head(errChan) = "canceled" THEN "cancel" ELSE "offerErr"
     \/ /\ watchClosed \/ cancelled
        /\ rpc' = "cancel"
        /\ UNCHANGED errChan
  /\ UNCHANGED <<etcdVars, cancelled, stopped, incoming, sent, taken,
                 watchClosed, closed, wVars, pVars>>

DeliverError ==
  /\ rpc = "offerErr"
  /\ \/ /\ Len(sent) - taken < OutCap
        /\ sent' = Append(sent, ErrorResult)
     \/ /\ cancelled
        /\ UNCHANGED sent
  /\ rpc' = "cancel"
  /\ UNCHANGED <<etcdVars, cancelled, stopped, incoming, taken, errChan,
                 watchClosed, closed, wVars, pVars>>

RunCancel ==
  /\ rpc = "cancel"
  /\ cancelled' = TRUE
  /\ rpc' = "waitGroup"
  /\ UNCHANGED <<etcdVars, stopped, incoming, sent, taken, errChan,
                 watchClosed, closed, wVars, pVars>>

\* Mutant: the wait group is not waited for.
CloseResultEarly ==
  /\ rpc = "waitGroup"
  /\ closed' = TRUE
  /\ rpc' = "done"
  /\ UNCHANGED <<etcdVars, cancelled, stopped, incoming, sent, taken, errChan,
                 watchClosed, wVars, pVars>>

\* resultChanWG.Wait, then close.
CloseResult ==
  /\ rpc = "waitGroup" /\ ppc = "done"
  /\ closed' = TRUE
  /\ rpc' = "done"
  /\ UNCHANGED <<etcdVars, cancelled, stopped, incoming, sent, taken, errChan,
                 watchClosed, wVars, pVars>>

RNext == RunSelect \/ DeliverError \/ RunCancel \/ CloseResult

---------------------------------------------------------------------------
(* The user, and the etcd server. *)

Receive ==
  /\ taken < Len(sent)
  /\ taken' = taken + 1
  /\ UNCHANGED <<etcdVars, cancelled, stopped, incoming, sent, errChan,
                 watchClosed, closed, wVars, pVars, rpc>>

Stop ==
  /\ ~stopped
  /\ stopped' = TRUE /\ cancelled' = TRUE
  /\ UNCHANGED <<etcdVars, incoming, sent, taken, errChan, watchClosed, closed,
                 wVars, pVars, rpc>>

\* A put, or the delete of a key that exists.
Write ==
  /\ Len(hist) < MaxRev
  /\ \E k \in Keys, v \in Values \cup {NoValue} :
       /\ v = NoValue => k \in LiveKeys
       /\ hist' = Append(hist, [key |-> k, val |-> v])
  /\ UNCHANGED <<compacted, clientClosed, call, cancelled, stopped, incoming, sent,
                 taken, errChan, watchClosed, closed, wVars, pVars, rpc>>

Compact ==
  /\ \E r \in (compacted + 1)..Len(hist) : compacted' = r
  /\ UNCHANGED <<hist, clientClosed, call, cancelled, stopped, incoming, sent, taken,
                 errChan, watchClosed, closed, wVars, pVars, rpc>>

\* GetStoreInstance found the shared client dead and closed it.
CloseClient ==
  /\ ~clientClosed
  /\ clientClosed' = TRUE
  /\ UNCHANGED <<hist, compacted, call, cancelled, stopped, incoming, sent, taken,
                 errChan, watchClosed, closed, wVars, pVars, rpc>>

Server == Write \/ Compact \/ CloseClient

Next == \/ WStep \/ WatchErr \/ PNext \/ RNext
        \/ Receive \/ Stop \/ Write \/ Compact \/ CloseClient

Spec == Init /\ [][Next]_vars

\* The Go scheduler runs every goroutine that can run, and a call to etcd
\* returns. Nothing is owed by the user, and no error by etcd.
FairSpec == Spec /\ WF_vars(WStep) /\ WF_vars(PNext) /\ WF_vars(RNext)

---------------------------------------------------------------------------
(* Properties. *)

\* The type of every variable, and the capacity of the three channels.
TypeOK ==
  /\ hist \in Seq(Writes)
  /\ compacted \in Nat /\ call \in Calls
  /\ clientClosed \in BOOLEAN /\ cancelled \in BOOLEAN /\ stopped \in BOOLEAN
  /\ watchClosed \in BOOLEAN /\ closed \in BOOLEAN
  /\ incoming \in Seq(Events) /\ Len(incoming) <= InCap
  /\ sent \in Seq(Results)
  /\ taken \in 0..Len(sent) /\ Len(sent) - taken <= OutCap
  /\ errChan \in Seq(Errors \cup {"decode"}) /\ Len(errChan) <= 1
  /\ wpc \in {"sync", "next", "sendEvent", "watch", "sendErr", "done"}
  /\ whand \in Events \cup {NoEvent}
  /\ werr \in Errors \cup {"none"}
  /\ todo \subseteq Keys
  /\ initialRev \in Nat /\ nextRev \in Nat
  /\ ppc \in {"select", "sendErr", "offer", "done"}
  /\ phand \in Results
  /\ rpc \in {"wait", "offerErr", "cancel", "waitGroup", "done"}

\* A send on resultChan after run closed it would panic the program: whatever
\* order Stop, errors and the end of the etcd watch come in, nothing is sent
\* any more (and the channel is closed once) when run has closed it.
NoSendAfterClose == [][closed => UNCHANGED <<sent, closed>>]_vars

\* The order of the feed: the listing in key order, then the revisions.
Before(e, f) == IF f.sync THEN e.sync /\ e.key < f.key ELSE e.rev < f.rev

\* The user sees changes in the order etcd made them, behind the listing, and
\* none of them twice: over two channels, three goroutines and every way of
\* stopping. (Events may be lost once the context is done, never reordered.)
InOrder ==
  \A i, j \in 1..Len(sent) :
    i < j /\ sent[i].type # "ERROR" /\ sent[j].type # "ERROR"
      => Before(sent[i].ev, sent[j].ev)

\* What a user who applies every result it was sent believes k to be.
ResultsOf(k) ==
  {i \in 1..Len(sent) : sent[i].type # "ERROR" /\ sent[i].ev.key = k}
View(k) ==
  IF ResultsOf(k) = {} THEN NoValue
  ELSE LET i == CHOOSE i \in ResultsOf(k) : \A j \in ResultsOf(k) : j <= i
       IN IF sent[i].type = "DELETED" THEN NoValue ELSE Object(sent[i])

\* The value of k at revision r, if the predicate selects it.
Selected(k, r) ==
  IF Filter(ValueAt(k, r)) THEN ValueAt(k, r) ELSE NoValue

\* After a full sync, and until the context is done, the results already sent
\* are a faithful picture of the store as of the revision of the last one:
\* nothing is skipped between the listing and the watch, and the filter's
\* Added, Modified and Deleted never leave a stale object behind. It takes
\* that every value can be decoded, and for a filtered watch that etcd has not
\* dropped the previous values the filter needs.
ViewFaithful ==
  (/\ ~cancelled /\ call.rev = 0
   /\ \A r \in 1..Len(hist) : hist[r].val \notin Undecodable
   /\ AcceptAll \/ compacted = 0)
  => \A n \in {Len(sent)} \ {0} :
       sent[n].type # "ERROR" /\ ~sent[n].ev.sync =>
         \A k \in Keys : View(k) = Selected(k, sent[n].ev.rev)

ErrorSent == \E i \in 1..Len(sent) : sent[i].type = "ERROR"

\* A watch never dies silently: unless the user stopped it or the etcd client
\* was closed under it, the user is sent an error before the channel closes.
NeverDiesSilently ==
  closed /\ ~stopped /\ ~clientClosed => ErrorSent

\* Stop, or an error sent to the user, reaps every goroutine and closes the
\* channel, even if the user stops receiving and one is blocked on a full one.
StopReaps ==
  stopped \/ ErrorSent ~> wpc = "done" /\ ppc = "done" /\ closed

\* The user has received revision r, a later one of the same key, or the key
\* was gone when it was listed.
Accounted(r) ==
  /\ Len(hist) >= r
  /\ \/ \E i \in 1..taken : /\ sent[i].type # "ERROR"
                            /\ sent[i].ev.key = hist[r].key
                            /\ sent[i].ev.rev >= r
     \/ /\ r <= initialRev
        /\ call.rev > 0 \/ ValueAt(hist[r].key, initialRev) = NoValue

\* Every change that etcd makes reaches a user that keeps receiving from an
\* unfiltered watch, unless the watch ends.
ChangesArrive == WF_vars(Receive) =>
  \A r \in 1..MaxRev :
    (AcceptAll /\ Len(hist) >= r)
      ~> \/ cancelled \/ Accounted(r)
         \/ \E i \in 1..Len(hist) : hist[i].val \in Undecodable

---------------------------------------------------------------------------
(* A watch is a feed (WatchFeed). *)

\* The last result sent that is not an error, as the feed has it.
Told == {i \in 1..Len(sent) : sent[i].type # "ERROR"}
AsFeed(r) ==
  [kind |-> IF r.ev.sync THEN "LISTED" ELSE r.type, key |-> r.ev.key,
   val |-> IF r.type = "DELETED" THEN NoValue ELSE CurObj(r.ev),
   rev |-> IF r.ev.sync THEN initialRev ELSE r.ev.rev]
LastTold ==
  IF Told = {} THEN [kind |-> "none", key |-> 0, val |-> NoValue, rev |-> 0]
  ELSE AsFeed(sent[CHOOSE i \in Told : \A j \in Told : j <= i])

\* Events may be lost: in a select that the context won, by the decoder, or by
\* a filter without the value before.
Lossy ==
  \/ cancelled
  \/ ~AcceptAll /\ compacted > 0
  \/ \E r \in 1..Len(hist) : hist[r].val \in Undecodable

Feed == INSTANCE WatchFeed WITH
          log <- hist, start <- initialRev, last <- LastTold, failed <- ErrorSent,
          excused <- stopped \/ clientClosed, broken <- Lossy, over <- closed

\* Whatever the filter, the buffers, the errors and the way it ends, what the
\* user receives is the listing and then exactly the changes it selected, in
\* order, and nothing is left out without an error or the user's leaving.
FeedPromise == Feed!FeedSpec
=============================================================================
