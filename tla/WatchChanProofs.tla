-------------------------- MODULE WatchChanProofs --------------------------
(***************************************************************************)
(* Proofs about one registry watch, for every set of keys and values, every *)
(* buffer size and every length of etcd's history: what its goroutines do  *)
(* to the channels, and what the user makes of the events.                 *)
(***************************************************************************)
EXTENDS WatchChan, SequenceTheorems, WellFoundedInduction, TLAPS

---------------------------------------------------------------------------
(* The server's data. *)

\* A nonempty set of revisions has a last one.
LEMMA LastExists ==
  ASSUME NEW n \in Nat, NEW S \in SUBSET (1..n), S # {}
  PROVE  \E m \in S : \A j \in S : j <= m
<1> DEFINE T == {i \in Nat : \E j \in S : i = n - j}
           R == OpToRel(<, Nat)
<1>1. T \subseteq Nat /\ T # {}
  <2>1. PICK j \in S : TRUE
    OBVIOUS
  <2>2. n - j \in T
    BY <2>1, SMT
  <2> QED
    BY <2>2
<1>2. IsWellFoundedOn(R, Nat)
  BY NatLessThanWellFounded
<1>3. \A x, y \in Nat : <<x, y>> \in R <=> x < y
  BY DEF OpToRel
<1> HIDE DEF R
<1>4. PICK x \in T : \A y \in T : ~(<<y, x>> \in R)
  BY <1>1, <1>2, WFMin
<1>5. \A y \in T : ~(y < x)
  BY <1>1, <1>3, <1>4
<1>6. PICK m \in S : x = n - m
  OBVIOUS
<1>7. ASSUME NEW j \in S PROVE j <= m
  <2>1. n - j \in T
    BY SMT
  <2>2. ~(n - j < n - m)
    BY <1>5, <1>6, <2>1
  <2> QED
    BY <2>2
<1> QED
  BY <1>7

\* The value of a key is one that was written, or none.
LEMMA ValueAtType ==
  ASSUME hist \in Seq(Writes), NEW k \in Keys, NEW r \in Nat
  PROVE  ValueAt(k, r) \in Values \cup {NoValue}
<1>1. CASE WritesOf(k, r) = {}
  BY <1>1 DEF ValueAt
<1>2. CASE WritesOf(k, r) # {}
  <2>1. WritesOf(k, r) \in SUBSET (1..r)
    BY DEF WritesOf
  <2>2. \E m \in 1..r : IsModRevision(k, r, m)
    BY <1>2, <2>1, LastExists DEF IsModRevision
  <2> DEFINE m == CHOOSE m \in 1..r : IsModRevision(k, r, m)
  <2>3. m \in 1..Len(hist)
    BY <2>2, LenProperties DEF IsModRevision, WritesOf
  <2>4. hist[m] \in Writes
    BY <2>3, ElementOfSeq
  <2> QED
    BY <1>2, <2>4 DEF ValueAt, Writes
<1> QED
  BY <1>1, <1>2

---------------------------------------------------------------------------
(* Types. *)

\* What goroutine W holds is an event when it is about to send it, and an error
\* when it is about to report one; it watches from a revision on.
HandOK == /\ wpc = "sendEvent" => whand \in Events
          /\ wpc = "sendErr" => werr \in Errors
          /\ wpc = "watch" => nextRev > 0
          /\ wpc = "sendEvent" => whand.sync \/ nextRev > 0

TInv == TypeOK /\ HandOK

\* The operations of W preserve the types.
LEMMA TypeW ==
  ASSUME TInv, WStep \/ WatchErr
  PROVE  TInv'
<1> USE KeysAssumption, ValuesAssumption, CapsAssumption
<1> USE DEF TInv, TypeOK, HandOK, etcdVars, pVars
<1>e. RpcErrors \subseteq Errors
  BY DEF RpcErrors, Errors
<1>1. CASE SyncList
  BY <1>1, <1>e, LenProperties DEF SyncList, WFail, LiveKeys, Errors
<1>2. CASE SyncKey
  <2>1. CASE WFail(RpcErrors \cup
              (IF initialRev < compacted THEN {"compacted"} ELSE {}))
    BY <1>2, <2>1, <1>e DEF SyncKey, WFail, Errors
  <2>2. ASSUME NEW k \in todo, NEW m \in 1..initialRev,
               whand' = ParseKV(k, m)
        PROVE  whand' \in Events /\ whand'.sync
    <3>1. k \in Keys /\ m \in Nat
      OBVIOUS
    <3>2. ValueAt(k, initialRev) \in Values \cup {NoValue}
      BY <3>1, ValueAtType
    <3> QED
      BY <2>2, <3>1, <3>2 DEF ParseKV, Events
  <2>3. CASE /\ wpc' = "sendEvent"
             /\ UNCHANGED <<werr, initialRev, nextRev>>
             /\ \E k \in todo, m \in 1..initialRev :
                  whand' = ParseKV(k, m) /\ todo' = todo \ {k}
    BY <1>2, <2>2, <2>3 DEF SyncKey
  <2> QED
    BY <1>2, <2>1, <2>3 DEF SyncKey
<1>3. CASE StartWatch
  BY <1>3 DEF StartWatch
<1>4. CASE WatchRecv
  <2>1. nextRev \in 1..Len(hist)
    BY <1>4, LenProperties DEF WatchRecv
  <2>2. hist[nextRev] \in Writes
    BY <2>1, ElementOfSeq
  <2>3. ValueAt(hist[nextRev].key, nextRev - 1) \in Values \cup {NoValue}
    <3> DEFINE k == hist[nextRev].key
               r == nextRev - 1
    <3>1. k \in Keys /\ r \in Nat
      BY <2>1, <2>2 DEF Writes
    <3> HIDE DEF k, r
    <3>2. ValueAt(k, r) \in Values \cup {NoValue}
      BY <3>1, ValueAtType
    <3> QED
      BY <3>2 DEF k, r
  <2>4. whand' \in Events
    BY <1>4, <2>1, <2>2, <2>3 DEF WatchRecv, ParseEvent, Events, Writes
  <2> QED
    BY <1>4, <2>1, <2>4 DEF WatchRecv
<1>5. CASE WatchErr
  BY <1>5, <1>e DEF WatchErr, WFail, Errors
<1>6. CASE WatchEnd
  BY <1>6 DEF WatchEnd
<1>7. CASE SendEvent
  <2>1. incoming' \in Seq(Events) /\ Len(incoming') <= InCap
    <3>1. CASE incoming' = Append(incoming, whand) /\ Len(incoming) < InCap
      <4>1. whand \in Events
        BY <1>7 DEF SendEvent
      <4>2. incoming' \in Seq(Events) /\ Len(incoming') = Len(incoming) + 1
        BY <3>1, <4>1, AppendProperties
      <4> QED
        BY <3>1, <4>2, LenProperties
    <3>2. CASE UNCHANGED incoming
      BY <3>2
    <3> QED
      BY <1>7, <3>1, <3>2 DEF SendEvent
  <2>2. wpc' = "next" \/ (wpc' = "watch" /\ nextRev > 0)
    BY <1>7 DEF SendEvent
  <2> QED
    BY <1>7, <2>1, <2>2 DEF SendEvent
<1>8. CASE WSendError
  BY <1>8, AppendProperties DEF WSendError, SendError
<1> QED
  BY <1>1, <1>2, <1>3, <1>4, <1>5, <1>6, <1>7, <1>8 DEF WStep

\* So do those of P ...
LEMMA TypeP ==
  ASSUME TInv, PNext
  PROVE  TInv'
<1> USE DEF TInv, TypeOK, HandOK, etcdVars, wVars, pVars
<1>1. CASE Transform
  <2>1. Head(incoming) \in Events /\ Tail(incoming) \in Seq(Events)
        /\ Len(Tail(incoming)) <= InCap
    BY <1>1, HeadTailProperties, LenProperties, CapsAssumption DEF Transform
  <2>2. ResultType(Head(incoming)) \in ResultTypes \cup {"none"}
    BY DEF ResultType, ResultTypes
  <2>3. CASE UNCHANGED phand
    BY <1>1, <2>1, <2>3 DEF Transform
  <2>4. CASE /\ ppc' = "offer"
             /\ phand' = [type |-> ResultType(Head(incoming)),
                         ev |-> Head(incoming)]
             /\ ResultType(Head(incoming)) # "none"
    <3>1. phand' \in Results
      BY <2>1, <2>2, <2>4 DEF Results, ResultTypes
    <3> QED
      BY <1>1, <2>1, <2>4, <3>1 DEF Transform
  <2> QED
    BY <1>1, <2>3, <2>4 DEF Transform
<1>2. CASE PSendError
  BY <1>2, AppendProperties DEF PSendError, SendError
<1>3. CASE Deliver
  <2>1. CASE sent' = Append(sent, phand) /\ Len(sent) - taken < OutCap
    <3>1. sent' \in Seq(Results) /\ Len(sent') = Len(sent) + 1
      BY <2>1, AppendProperties
    <3>2. taken \in 0..Len(sent') /\ Len(sent') - taken <= OutCap
      BY <2>1, <3>1, CapsAssumption, LenProperties
    <3> QED
      BY <1>3, <3>1, <3>2 DEF Deliver
  <2>2. CASE UNCHANGED sent
    BY <1>3, <2>2 DEF Deliver
  <2> QED
    BY <1>3, <2>1, <2>2 DEF Deliver
<1>4. CASE ProcessDone
  BY <1>4 DEF ProcessDone
<1> QED
  BY <1>1, <1>2, <1>3, <1>4 DEF PNext

\* ... of R ...
LEMMA TypeR ==
  ASSUME TInv, RNext
  PROVE  TInv'
<1> USE DEF TInv, TypeOK, HandOK, etcdVars, wVars, pVars
<1>1. CASE RunSelect
  BY <1>1, HeadTailProperties, LenProperties DEF RunSelect
<1>2. CASE DeliverError
  <2>1. ErrorResult \in Results
    BY DEF ErrorResult, Results
  <2>2. CASE /\ sent' = Append(sent, ErrorResult)
             /\ Len(sent) - taken < OutCap
    <3>1. sent' \in Seq(Results) /\ Len(sent') = Len(sent) + 1
      BY <2>1, <2>2, AppendProperties
    <3>2. taken \in 0..Len(sent') /\ Len(sent') - taken <= OutCap
      BY <2>2, <3>1, CapsAssumption, LenProperties
    <3> QED
      BY <1>2, <3>1, <3>2 DEF DeliverError
  <2>3. CASE UNCHANGED sent
    BY <1>2, <2>3 DEF DeliverError
  <2> QED
    BY <1>2, <2>2, <2>3 DEF DeliverError
<1>3. CASE RunCancel
  BY <1>3 DEF RunCancel
<1>4. CASE CloseResult
  BY <1>4 DEF CloseResult
<1> QED
  BY <1>1, <1>2, <1>3, <1>4 DEF RNext

\* ... and what happens around them.
LEMMA TypeEnv ==
  ASSUME TInv, Receive \/ Stop \/ Write \/ Compact \/ CloseClient
  PROVE  TInv'
<1> USE DEF TInv, TypeOK, HandOK, etcdVars, wVars, pVars
<1>1. CASE Receive
  BY <1>1, CapsAssumption, LenProperties DEF Receive
<1>2. CASE Stop
  BY <1>2 DEF Stop
<1>3. CASE Write
  <2>1. PICK k \in Keys, v \in Values \cup {NoValue} :
          hist' = Append(hist, [key |-> k, val |-> v])
    BY <1>3 DEF Write
  <2>2. hist' \in Seq(Writes)
    BY <2>1, AppendProperties DEF Writes
  <2> QED
    BY <1>3, <2>2 DEF Write
<1>4. CASE Compact
  BY <1>4, LenProperties DEF Compact
<1>5. CASE CloseClient
  BY <1>5 DEF CloseClient
<1> QED
  BY <1>1, <1>2, <1>3, <1>4, <1>5

\* The program starts with them.
LEMMA InitTypes ==
  ASSUME Init
  PROVE  TInv
<1>1. ErrorResult \in Results
  BY DEF ErrorResult, Results
<1>2. /\ hist \in Seq(Writes)
      /\ incoming \in Seq(Events) /\ Len(incoming) = 0
      /\ sent \in Seq(Results) /\ Len(sent) = 0
      /\ errChan \in Seq(Errors \cup {"decode"}) /\ Len(errChan) = 0
  BY EmptySeq DEF Init
<1>3. /\ taken \in 0..Len(sent) /\ Len(sent) - taken <= OutCap
      /\ Len(incoming) <= InCap
  BY <1>2, CapsAssumption DEF Init
<1>4. call.rev \in Nat
  BY CallsAssumption DEF Init, CallRecords
<1>5. /\ wpc \in {"sync", "next"} /\ ppc = "select" /\ rpc = "wait"
      /\ whand = NoEvent /\ werr = "none" /\ phand = ErrorResult
      /\ call \in Calls
  BY DEF Init
<1>6. /\ compacted \in Nat /\ initialRev \in Nat /\ nextRev \in Nat
      /\ todo \subseteq Keys
  BY <1>4 DEF Init
<1>7. /\ clientClosed \in BOOLEAN /\ cancelled \in BOOLEAN
      /\ stopped \in BOOLEAN /\ watchClosed \in BOOLEAN
      /\ closed \in BOOLEAN
  BY DEF Init
<1>8. HandOK
  BY <1>5 DEF HandOK
<1>9. TypeOK
  BY <1>1, <1>2, <1>3, <1>5, <1>6, <1>7 DEF TypeOK
<1> QED
  BY <1>8, <1>9 DEF TInv

\* Every step preserves them.
LEMMA NextTypes ==
  ASSUME TInv, [Next]_vars
  PROVE  TInv'
<1>1. CASE UNCHANGED vars
  BY <1>1 DEF vars, TInv, TypeOK, HandOK
<1> QED
  BY <1>1, TypeW, TypeP, TypeR, TypeEnv DEF Next

\* Every reachable state has the types.
LEMMA Typed == Spec => []TInv
<1>1. Init => TInv
  BY InitTypes
<1>2. TInv /\ [Next]_vars => TInv'
  BY NextTypes
<1> QED
  BY <1>1, <1>2, PTL DEF Spec

\* The types of all variables, and the capacities of the channels, hold for
\* every key and value set, every buffer size and every history.
THEOREM TypeCorrect == Spec => []TypeOK
<1>1. TInv => TypeOK
  BY DEF TInv
<1> QED
  BY <1>1, Typed, PTL

---------------------------------------------------------------------------
(* Closing the result channel. *)

\* When the channel is closed both goroutines that send on it are gone.
CInv == closed => ppc = "done" /\ rpc = "done"

\* No step of any goroutine brings a sender back.
LEMMA NextCInv ==
  ASSUME CInv, [Next]_vars
  PROVE  CInv'
<1> USE DEF CInv, etcdVars, wVars, pVars
<1>1. CASE WStep \/ WatchErr
  BY <1>1 DEF WStep, SyncList, SyncKey, StartWatch, WatchRecv, WatchErr,
              WatchEnd, SendEvent, WSendError
<1>2. CASE PNext
  BY <1>2 DEF PNext, Transform, PSendError, Deliver, ProcessDone
<1>3. CASE RNext
  BY <1>3 DEF RNext, RunSelect, DeliverError, RunCancel, CloseResult
<1>4. CASE Receive \/ Stop \/ Write \/ Compact \/ CloseClient
  BY <1>4 DEF Receive, Stop, Write, Compact, CloseClient
<1>5. CASE UNCHANGED vars
  BY <1>5 DEF vars
<1> QED
  BY <1>1, <1>2, <1>3, <1>4, <1>5 DEF Next

\* With the senders gone a step leaves the channel alone.
LEMMA ClosedStep ==
  ASSUME TInv, CInv, [Next]_vars, closed
  PROVE  UNCHANGED <<sent, closed>>
<1> USE DEF CInv, etcdVars, wVars, pVars
<1>1. CASE WStep \/ WatchErr
  BY <1>1 DEF WStep, SyncList, SyncKey, StartWatch, WatchRecv, WatchErr,
              WatchEnd, SendEvent, WSendError
<1>2. CASE PNext
  BY <1>2 DEF PNext, Transform, PSendError, Deliver, ProcessDone
<1>3. CASE RNext
  BY <1>3 DEF RNext, RunSelect, DeliverError, RunCancel, CloseResult
<1>4. CASE Receive \/ Stop \/ Write \/ Compact \/ CloseClient
  BY <1>4 DEF Receive, Stop, Write, Compact, CloseClient
<1>5. CASE UNCHANGED vars
  BY <1>5 DEF vars
<1> QED
  BY <1>1, <1>2, <1>3, <1>4, <1>5 DEF Next

\* Nothing is sent on a closed result channel, nor is it closed again, for any
\* number of events and any size of the buffers.
THEOREM SendersGone == Spec => NoSendAfterClose
<1>1. Init => CInv
  BY DEF Init, CInv
<1>2. CInv /\ [Next]_vars => CInv'
  BY NextCInv
<1>3. TInv /\ CInv /\ [Next]_vars => [closed => UNCHANGED <<sent, closed>>]_vars
  BY ClosedStep
<1> QED
  BY <1>1, <1>2, <1>3, Typed, PTL DEF Spec, NoSendAfterClose

---------------------------------------------------------------------------
(* How a watch may end. *)

\* The two reasons for which a watch may end without a word.
Excused == stopped \/ clientClosed

\* While run still listens, a cancelled context, a closed watchClosedCh and a
\* "canceled" error on its way all come from such a reason; once run stops
\* listening there is one, or the error was sent.
DInv == /\ rpc \in {"wait", "offerErr"} /\ cancelled => Excused
        /\ rpc = "wait" /\ watchClosed => Excused
        /\ rpc = "wait" /\ wpc = "sendErr" /\ werr = "canceled" => Excused
        /\ rpc = "wait" /\ errChan # <<>> /\ Head(errChan) = "canceled"
             => Excused
        /\ rpc \in {"cancel", "waitGroup", "done"} => Excused \/ ErrorSent
        /\ closed => rpc = "done"

\* The only error of a sequence of one is its first.
LEMMA SendErrorHead ==
  ASSUME TInv, NEW err, SendError(err), err \in Errors \cup {"decode"}
  PROVE  \/ errChan' = errChan
         \/ errChan' # <<>> /\ Head(errChan') = err
<1>1. CASE UNCHANGED errChan
  BY <1>1
<1>2. CASE Len(errChan) < 1 /\ errChan' = Append(errChan, err)
  <2>1. errChan = <<>>
    BY <1>2, EmptySeq, LenProperties DEF TInv, TypeOK
  <2>2. errChan' = <<err>>
    BY <1>2, <2>1
  <2> QED
    BY <2>2
<1> QED
  BY <1>1, <1>2 DEF SendError

\* What was sent stays sent.
LEMMA ErrorStays ==
  ASSUME TInv, NEW r \in Results, sent' = Append(sent, r)
  PROVE  (ErrorSent \/ r.type = "ERROR") => ErrorSent'
<1>1. /\ Len(sent') = Len(sent) + 1 /\ Len(sent) \in Nat
      /\ \A i \in 1..Len(sent) : sent'[i] = sent[i]
      /\ sent'[Len(sent) + 1] = r
  BY AppendProperties, LenProperties DEF TInv, TypeOK
<1>2. ASSUME ErrorSent PROVE ErrorSent'
  BY <1>1, <1>2 DEF ErrorSent
<1>3. ASSUME r.type = "ERROR" PROVE ErrorSent'
  BY <1>1, <1>3 DEF ErrorSent
<1> QED
  BY <1>2, <1>3

\* Every step preserves the reasons.
LEMMA NextDInv ==
  ASSUME TInv, DInv, [Next]_vars
  PROVE  DInv'
<1> USE DEF DInv, Excused, etcdVars, wVars, pVars
<1>1. CASE SyncList \/ SyncKey \/ StartWatch \/ WatchRecv \/ SendEvent
            \/ WatchErr
  <2>1. UNCHANGED <<rpc, cancelled, stopped, clientClosed, watchClosed,
                    errChan, sent, closed>>
    BY <1>1 DEF SyncList, SyncKey, StartWatch, WatchRecv, SendEvent, WatchErr
  <2>2. wpc' = "sendErr" /\ werr' = "canceled" => cancelled \/ clientClosed
    BY <1>1 DEF SyncList, SyncKey, StartWatch, WatchRecv, SendEvent, WatchErr,
                WFail, RpcErrors
  <2> QED
    BY <2>1, <2>2 DEF ErrorSent
<1>2. CASE WatchEnd
  BY <1>2 DEF WatchEnd, ErrorSent
<1>3. CASE WSendError
  <2>1. UNCHANGED <<rpc, cancelled, stopped, clientClosed, watchClosed,
                    sent, closed>> /\ wpc = "sendErr" /\ wpc' = "done"
    BY <1>3 DEF WSendError
  <2>2. \/ errChan' = errChan
        \/ errChan' # <<>> /\ Head(errChan') = werr
    BY <1>3, SendErrorHead DEF WSendError, TInv, HandOK
  <2> QED
    BY <2>1, <2>2 DEF ErrorSent
<1>4. CASE Transform \/ ProcessDone
  BY <1>4 DEF Transform, ProcessDone, ErrorSent
<1>5. CASE PSendError
  <2>1. UNCHANGED <<rpc, cancelled, stopped, clientClosed, watchClosed,
                    sent, closed, wpc, werr>>
    BY <1>5 DEF PSendError
  <2>2. \/ errChan' = errChan
        \/ errChan' # <<>> /\ Head(errChan') = "decode"
    BY <1>5, SendErrorHead DEF PSendError
  <2> QED
    BY <2>1, <2>2 DEF ErrorSent
<1>6. CASE Deliver
  <2>1. UNCHANGED <<rpc, cancelled, stopped, clientClosed, watchClosed,
                    errChan, closed, wpc, werr>>
    BY <1>6 DEF Deliver
  <2>2. ErrorSent => ErrorSent'
    <3>1. CASE UNCHANGED sent
      BY <3>1 DEF ErrorSent
    <3>2. CASE sent' = Append(sent, phand)
      BY <3>2, ErrorStays DEF TInv, TypeOK
    <3> QED
      BY <1>6, <3>1, <3>2 DEF Deliver
  <2> QED
    BY <2>1, <2>2
<1>7. CASE RunSelect
  BY <1>7 DEF RunSelect, ErrorSent
<1>8. CASE DeliverError
  <2>1. UNCHANGED <<cancelled, stopped, clientClosed, watchClosed,
                    errChan, closed, wpc, werr>>
        /\ rpc = "offerErr" /\ rpc' = "cancel"
    BY <1>8 DEF DeliverError
  <2>2. CASE sent' = Append(sent, ErrorResult)
    <3>1. ErrorResult \in Results /\ ErrorResult.type = "ERROR"
      BY DEF ErrorResult, Results
    <3> QED
      BY <2>1, <2>2, <3>1, ErrorStays
  <2>3. CASE cancelled
    BY <2>1, <2>3
  <2> QED
    BY <1>8, <2>1, <2>2, <2>3 DEF DeliverError
<1>9. CASE RunCancel \/ CloseResult
  BY <1>9 DEF RunCancel, CloseResult, ErrorSent
<1>10. CASE Receive \/ Stop \/ Write \/ Compact \/ CloseClient
  BY <1>10 DEF Receive, Stop, Write, Compact, CloseClient, ErrorSent
<1>11. CASE UNCHANGED vars
  BY <1>11 DEF vars, ErrorSent
<1> QED
  BY <1>1, <1>2, <1>3, <1>4, <1>5, <1>6, <1>7, <1>8, <1>9, <1>10, <1>11
  DEF Next, WStep, PNext, RNext

\* No watch ends without a word but for Stop and a closed client, whatever
\* errors W and P raise, and in whatever order the channels fill.
THEOREM NoSilentDeath == Spec => []NeverDiesSilently
<1>1. Init => DInv
  BY DEF Init, DInv
<1>2. TInv /\ DInv /\ [Next]_vars => DInv'
  BY NextDInv
<1>3. DInv => NeverDiesSilently
  BY DEF DInv, Excused, NeverDiesSilently
<1> QED
  BY <1>1, <1>2, <1>3, Typed, PTL DEF Spec

---------------------------------------------------------------------------
(***************************************************************************)
(* The order of a watch's events. Events are followed through the whole     *)
(* pipe: held by W, queued in incomingEventChan, offered by P, and sent.    *)
(***************************************************************************)

Held == IF wpc = "sendEvent" THEN {whand} ELSE {}
Queued == {incoming[j] : j \in 1..Len(incoming)}
Offered == IF ppc = "offer" THEN {phand.ev} ELSE {}
SentEvents ==
  {sent[i].ev : i \in {i \in 1..Len(sent) : sent[i].type # "ERROR"}}

Precede(S, T) == \A e \in S, f \in T : Before(e, f)

\* W is past event e: everything it still produces comes behind it.
Passed(e) ==
  IF nextRev = 0
  THEN e.sync /\ e.rev <= initialRev /\ \A k \in todo : e.key < k
  ELSE e.rev < nextRev

QueueInOrder ==
  \A i, j \in 1..Len(incoming) : i < j => Before(incoming[i], incoming[j])

\* Where W is: still listing while nextRev is 0.
WPhase == /\ wpc = "next" => nextRev = 0
          /\ wpc = "watch" => nextRev # 0
          /\ wpc = "sync" => /\ nextRev = 0
                             /\ SentEvents = {} /\ Offered = {} /\ Queued = {}
          /\ wpc = "sendEvent" => (whand.sync <=> nextRev = 0)

\* The pipe is in order from end to end, and W is past all that is in it.
OInv == /\ InOrder /\ QueueInOrder
        /\ Precede(SentEvents, Offered)
        /\ Precede(SentEvents \cup Offered, Queued)
        /\ Precede(SentEvents \cup Offered \cup Queued, Held)
        /\ \A e \in SentEvents \cup Offered \cup Queued \cup Held : Passed(e)
        /\ ppc = "offer" => phand.type # "ERROR"
        /\ WPhase

---------------------------------------------------------------------------
(* What the steps do to the parts of the pipe. *)

\* Keys and revisions are numbers everywhere in the pipe.
LEMMA PipeTypes ==
  ASSUME TInv
  PROVE  /\ \A e \in SentEvents \cup Offered \cup Queued \cup Held :
              e.key \in Nat /\ e.rev \in Nat
         /\ \A e \in SentEvents \cup Offered : e \in Events \cup {NoEvent}
<1>1. \A e \in Events \cup {NoEvent} : e.key \in Nat /\ e.rev \in Nat
  <2>1. NoEvent.key \in Nat /\ NoEvent.rev \in Nat
    BY DEF NoEvent
  <2>2. \A e \in Events : e.key \in Nat /\ e.rev \in Nat
    BY KeysAssumption DEF Events
  <2> QED
    BY <2>1, <2>2
<1> USE DEF TInv, TypeOK, HandOK
<1>2. ASSUME NEW i \in 1..Len(sent) PROVE sent[i].ev \in Events \cup {NoEvent}
  <2>1. sent[i] \in Results
    BY ElementOfSeq
  <2> QED
    BY <2>1 DEF Results
<1>3. ASSUME NEW j \in 1..Len(incoming) PROVE incoming[j] \in Events
  BY ElementOfSeq
<1>4. phand.ev \in Events \cup {NoEvent}
  BY DEF Results
<1> QED
  BY <1>1, <1>2, <1>3, <1>4 DEF SentEvents, Offered, Queued, Held

\* A result put into resultChan.
LEMMA SentAppend ==
  ASSUME TInv, NEW r \in Results, sent' = Append(sent, r)
  PROVE  /\ r.type = "ERROR" => /\ SentEvents' = SentEvents
                                /\ InOrder => InOrder'
         /\ r.type # "ERROR" =>
              /\ SentEvents' = SentEvents \cup {r.ev}
              /\ InOrder /\ Precede(SentEvents, {r.ev}) => InOrder'
<1>1. /\ Len(sent') = Len(sent) + 1 /\ Len(sent) \in Nat
      /\ \A i \in 1..Len(sent) : sent'[i] = sent[i]
      /\ sent'[Len(sent) + 1] = r
  BY AppendProperties, LenProperties DEF TInv, TypeOK
<1>2. 1..Len(sent') = (1..Len(sent)) \cup {Len(sent) + 1}
  BY <1>1
<1>3. CASE r.type = "ERROR"
  <2>1. {i \in 1..Len(sent') : sent'[i].type # "ERROR"}
          = {i \in 1..Len(sent) : sent[i].type # "ERROR"}
    BY <1>1, <1>2, <1>3
  <2>2. SentEvents' = SentEvents
    BY <1>1, <2>1 DEF SentEvents
  <2>3. InOrder => InOrder'
    BY <1>1, <1>2, <1>3 DEF InOrder
  <2> QED
    BY <1>3, <2>2, <2>3
<1>4. CASE r.type # "ERROR"
  <2>1. {i \in 1..Len(sent') : sent'[i].type # "ERROR"}
          = {i \in 1..Len(sent) : sent[i].type # "ERROR"}
              \cup {Len(sent) + 1}
    BY <1>1, <1>2, <1>4
  <2>2. SentEvents' = SentEvents \cup {r.ev}
    BY <1>1, <2>1 DEF SentEvents
  <2>3. ASSUME InOrder, Precede(SentEvents, {r.ev}),
               NEW i \in 1..Len(sent'), NEW j \in 1..Len(sent'), i < j,
               sent'[i].type # "ERROR", sent'[j].type # "ERROR"
        PROVE  Before(sent'[i].ev, sent'[j].ev)
    <3>1. i \in 1..Len(sent) /\ sent'[i] = sent[i]
      BY <1>1, <2>3
    <3>2. CASE j \in 1..Len(sent)
      BY <1>1, <2>3, <3>1, <3>2 DEF InOrder
    <3>3. CASE j = Len(sent) + 1
      BY <1>1, <2>3, <3>1, <3>3 DEF Precede, SentEvents
    <3> QED
      BY <1>2, <3>2, <3>3
  <2> QED
    BY <1>4, <2>2, <2>3 DEF InOrder
<1> QED
  BY <1>3, <1>4

\* An event put into incomingEventChan.
LEMMA QueueAppend ==
  ASSUME TInv, NEW e \in Events, incoming' = Append(incoming, e)
  PROVE  /\ Queued' = Queued \cup {e}
         /\ QueueInOrder /\ Precede(Queued, {e}) => QueueInOrder'
<1>1. /\ Len(incoming') = Len(incoming) + 1 /\ Len(incoming) \in Nat
      /\ \A i \in 1..Len(incoming) : incoming'[i] = incoming[i]
      /\ incoming'[Len(incoming) + 1] = e
  BY AppendProperties, LenProperties DEF TInv, TypeOK
<1>2. 1..Len(incoming') = (1..Len(incoming)) \cup {Len(incoming) + 1}
  BY <1>1
<1>3. Queued' = Queued \cup {e}
  BY <1>1, <1>2 DEF Queued
<1>4. ASSUME QueueInOrder, Precede(Queued, {e}),
             NEW i \in 1..Len(incoming'), NEW j \in 1..Len(incoming'), i < j
      PROVE  Before(incoming'[i], incoming'[j])
  <2>1. i \in 1..Len(incoming) /\ incoming'[i] = incoming[i]
    BY <1>1, <1>4
  <2>2. CASE j \in 1..Len(incoming)
    BY <1>1, <1>4, <2>1, <2>2 DEF QueueInOrder
  <2>3. CASE j = Len(incoming) + 1
    BY <1>1, <1>4, <2>1, <2>3 DEF Precede, Queued
  <2> QED
    BY <1>2, <2>2, <2>3
<1> QED
  BY <1>3, <1>4 DEF QueueInOrder

\* An event taken from it.
LEMMA QueueTail ==
  ASSUME TInv, incoming # <<>>, incoming' = Tail(incoming)
  PROVE  /\ Head(incoming) \in Queued /\ Head(incoming) \in Events
         /\ Queued' \subseteq Queued
         /\ QueueInOrder => /\ QueueInOrder'
                            /\ Precede({Head(incoming)}, Queued')
<1>1. /\ Len(incoming) \in Nat /\ Len(incoming) >= 1
      /\ Len(incoming') = Len(incoming) - 1
      /\ \A i \in 1..Len(incoming') : incoming'[i] = incoming[i + 1]
      /\ Head(incoming) = incoming[1]
      /\ Head(incoming) \in Events
  BY HeadTailProperties, LenProperties, EmptySeq DEF TInv, TypeOK
<1>2. \A i \in 1..Len(incoming') : i + 1 \in 1..Len(incoming) /\ 1 < i + 1
  BY <1>1
<1>3. 1 \in 1..Len(incoming)
  BY <1>1
<1>4. Queued' \subseteq Queued
  BY <1>1, <1>2 DEF Queued
<1>5. QueueInOrder => QueueInOrder'
  BY <1>1, <1>2 DEF QueueInOrder
<1>6. QueueInOrder => Precede({Head(incoming)}, Queued')
  BY <1>1, <1>2, <1>3 DEF QueueInOrder, Precede, Queued
<1> QED
  BY <1>1, <1>3, <1>4, <1>5, <1>6 DEF Queued

---------------------------------------------------------------------------
(* The steps. *)

Pipe == SentEvents \cup Offered \cup Queued \cup Held

\* Most steps move nothing forward: they may only drop what they hold.
LEMMA NothingMoves ==
  ASSUME OInv, UNCHANGED <<sent, incoming, todo, initialRev, nextRev>>,
         Offered' \subseteq Offered, Held' \subseteq Held,
         (ppc = "offer" => phand.type # "ERROR")', WPhase'
  PROVE  OInv'
<1>1. SentEvents' = SentEvents /\ Queued' = Queued
  BY DEF SentEvents, Queued
<1>2. InOrder' /\ QueueInOrder'
  BY DEF OInv, InOrder, QueueInOrder
<1>3. (\A e \in SentEvents \cup Offered \cup Queued \cup Held : Passed(e))'
  BY <1>1 DEF OInv, Passed
<1>4. /\ Precede(SentEvents, Offered)'
      /\ Precede(SentEvents \cup Offered, Queued)'
      /\ Precede(SentEvents \cup Offered \cup Queued, Held)'
  BY <1>1 DEF OInv, Precede
<1> QED
  BY <1>2, <1>3, <1>4 DEF OInv

\* W takes up an event behind all that it is past.
LEMMA TakeUp ==
  ASSUME TInv, OInv, UNCHANGED <<sent, incoming, ppc, phand>>, Held = {},
         Precede(Pipe, Held'),
         \A e \in Pipe : Passed(e) => Passed(e)',
         (\A e \in Held : Passed(e))', WPhase'
  PROVE  OInv'
<1>1. SentEvents' = SentEvents /\ Queued' = Queued /\ Offered' = Offered
  BY DEF SentEvents, Queued, Offered
<1>2. InOrder' /\ QueueInOrder'
  BY DEF OInv, InOrder, QueueInOrder
<1>3. (\A e \in SentEvents \cup Offered \cup Queued \cup Held : Passed(e))'
  BY <1>1 DEF OInv, Pipe
<1>4. /\ Precede(SentEvents, Offered)'
      /\ Precede(SentEvents \cup Offered, Queued)'
      /\ Precede(SentEvents \cup Offered \cup Queued, Held)'
  BY <1>1 DEF OInv, Precede, Pipe
<1> QED
  BY <1>2, <1>3, <1>4 DEF OInv

\* A listed key comes behind the keys already listed ...
LEMMA OrderSyncKey ==
  ASSUME TInv, OInv, SyncKey
  PROVE  OInv'
<1> USE DEF etcdVars, pVars
<1>1. CASE wpc' = "sendErr"
  <2>1. /\ UNCHANGED <<sent, incoming, todo, initialRev, nextRev, ppc, phand>>
        /\ wpc = "next"
    BY <1>1 DEF SyncKey, WFail
  <2>2. /\ Offered' = Offered /\ Held' = {}
        /\ (ppc = "offer" => phand.type # "ERROR")' /\ WPhase'
    BY <1>1, <2>1 DEF Offered, Held, OInv, WPhase
  <2> QED
    BY <2>1, <2>2, NothingMoves
<1>2. CASE wpc' = "sendEvent"
  <2>1. PICK k \in todo, m \in 1..initialRev :
          /\ \A j \in todo : k <= j
          /\ todo' = todo \ {k}
          /\ whand' = ParseKV(k, m)
    BY <1>2 DEF SyncKey, WFail
  <2>2. /\ UNCHANGED <<sent, incoming, ppc, phand, initialRev, nextRev>>
        /\ wpc = "next" /\ nextRev = 0
    BY <1>2 DEF SyncKey, WFail, OInv, WPhase
  <2>3. k \in Nat /\ todo \subseteq Nat /\ m <= initialRev
    BY KeysAssumption DEF TInv, TypeOK
  <2>4. Held = {} /\ Held' = {whand'}
    BY <1>2, <2>2 DEF Held
  <2>5. whand'.sync /\ whand'.key = k /\ whand'.rev = m
    BY <2>1 DEF ParseKV
  <2>6. \A e \in Pipe : Passed(e)
    BY DEF OInv, Pipe
  <2>7. Precede(Pipe, Held')
    BY <2>2, <2>4, <2>5, <2>6 DEF Precede, Before, Passed
  <2>8. \A e \in Pipe : Passed(e) => Passed(e)'
    BY <2>1, <2>2 DEF Passed
  <2>9. \A j \in todo' : k < j
    BY <2>1, <2>3
  <2>10. (\A e \in Held : Passed(e))'
    BY <2>2, <2>3, <2>4, <2>5, <2>9 DEF Passed
  <2>11. WPhase'
    BY <1>2, <2>2, <2>5 DEF WPhase
  <2> QED
    BY <2>2, <2>4, <2>7, <2>8, <2>10, <2>11, TakeUp
<1> QED
  BY <1>1, <1>2 DEF SyncKey, WFail

\* ... and a revision behind the listing and the revisions before it.
LEMMA OrderWatchRecv ==
  ASSUME TInv, OInv, WatchRecv
  PROVE  OInv'
<1> USE DEF etcdVars, pVars
<1>1. /\ UNCHANGED <<sent, incoming, ppc, phand>>
      /\ nextRev' = nextRev + 1 /\ wpc = "watch" /\ wpc' = "sendEvent"
      /\ ~whand'.sync /\ whand'.rev = nextRev
  BY DEF WatchRecv, ParseEvent
<1>2. nextRev \in Nat /\ nextRev # 0
  BY <1>1 DEF OInv, WPhase, TInv, TypeOK
<1>3. Held = {} /\ Held' = {whand'}
  BY <1>1 DEF Held
<1>4. \A e \in Pipe : Passed(e) /\ e.rev \in Nat
  BY PipeTypes DEF OInv, Pipe
<1>5. Precede(Pipe, Held')
  BY <1>1, <1>2, <1>3, <1>4 DEF Precede, Before, Passed
<1>6. \A e \in Pipe : Passed(e) => Passed(e)'
  BY <1>1, <1>2, <1>4 DEF Passed
<1>7. (\A e \in Held : Passed(e))'
  BY <1>1, <1>2, <1>3 DEF Passed
<1>8. WPhase'
  BY <1>1, <1>2 DEF WPhase
<1> QED
  BY <1>1, <1>3, <1>5, <1>6, <1>7, <1>8, TakeUp

\* The listing starts on an empty pipe; the watch starts behind the listing.
LEMMA OrderStart ==
  ASSUME TInv, OInv, SyncList \/ StartWatch
  PROVE  OInv'
<1> USE DEF etcdVars, pVars
<1>0. UNCHANGED <<sent, incoming, ppc, phand>> /\ Held = {} /\ Held' = {}
  BY DEF SyncList, StartWatch, WFail, Held
<1>1. CASE SyncList
  <2>1. Pipe = {} /\ nextRev' = 0 /\ wpc' \in {"next", "sendErr"}
    BY <1>0, <1>1 DEF SyncList, WFail, OInv, WPhase, Pipe
  <2>2. WPhase'
    BY <2>1 DEF WPhase
  <2> QED
    BY <1>0, <2>1, <2>2, TakeUp DEF Precede
<1>2. CASE StartWatch
  <2>1. /\ nextRev = 0 /\ nextRev' = initialRev + 1 /\ wpc' = "watch"
        /\ initialRev \in Nat
    BY <1>2 DEF StartWatch, OInv, WPhase, TInv, TypeOK
  <2>2. \A e \in Pipe : e.rev \in Nat
    BY PipeTypes DEF Pipe
  <2>3. \A e \in Pipe : Passed(e) => Passed(e)'
    BY <2>1, <2>2 DEF Passed
  <2>4. WPhase'
    BY <2>1 DEF WPhase
  <2> QED
    BY <1>0, <2>3, <2>4, TakeUp DEF Precede
<1> QED
  BY <1>1, <1>2

\* The event W holds is the last of the queue, and W goes back to where it was.
LEMMA OrderSendEvent ==
  ASSUME TInv, OInv, SendEvent
  PROVE  OInv'
<1> USE DEF etcdVars, pVars
<1>1. /\ UNCHANGED <<sent, todo, initialRev, nextRev, ppc, phand>>
      /\ wpc = "sendEvent"
      /\ wpc' = IF whand.sync THEN "next" ELSE "watch"
  BY DEF SendEvent
<1>2. Held = {whand} /\ Held' = {} /\ whand \in Events
  BY <1>1 DEF Held, TInv, HandOK
<1>3. WPhase'
  BY <1>1 DEF OInv, WPhase
<1>4. SentEvents' = SentEvents /\ Offered' = Offered
  BY <1>1 DEF SentEvents, Offered
<1>5. CASE incoming' = Append(incoming, whand)
  <2>1. Queued' = Queued \cup {whand}
    BY <1>2, <1>5, QueueAppend
  <2>2. QueueInOrder'
    BY <1>2, <1>5, QueueAppend DEF OInv, Precede
  <2>3. InOrder'
    BY <1>1 DEF OInv, InOrder
  <2>4. (\A e \in SentEvents \cup Offered \cup Queued \cup Held : Passed(e))'
    BY <1>1, <1>2, <1>4, <2>1 DEF OInv, Passed
  <2>5. /\ Precede(SentEvents, Offered)'
        /\ Precede(SentEvents \cup Offered, Queued)'
        /\ Precede(SentEvents \cup Offered \cup Queued, Held)'
    BY <1>2, <1>4, <2>1 DEF OInv, Precede
  <2>6. (ppc = "offer" => phand.type # "ERROR")'
    BY <1>1 DEF OInv
  <2> QED
    BY <1>3, <2>2, <2>3, <2>4, <2>5, <2>6 DEF OInv
<1>6. CASE UNCHANGED incoming
  BY <1>1, <1>2, <1>3, <1>4, <1>6, NothingMoves DEF OInv
<1> QED
  BY <1>5, <1>6 DEF SendEvent

\* A result of transform is one of its three types.
LEMMA ResultIsNoError == \A e : ResultType(e) # "ERROR"
  BY DEF ResultType

\* The head of the queue is offered, or dropped.
LEMMA OrderTransform ==
  ASSUME TInv, OInv, Transform
  PROVE  OInv'
<1> USE DEF etcdVars, wVars, pVars
<1> DEFINE e0 == Head(incoming)
<1>1. /\ UNCHANGED <<sent, wVars>> /\ ppc = "select"
      /\ incoming # <<>> /\ incoming' = Tail(incoming)
      /\ ppc' = "offer" => phand'.ev = e0 /\ phand'.type # "ERROR"
  BY ResultIsNoError DEF Transform
<1>2. /\ Queued' \subseteq Queued /\ e0 \in Queued
      /\ QueueInOrder' /\ Precede({e0}, Queued')
  BY <1>1, QueueTail DEF OInv
<1>3. SentEvents' = SentEvents /\ Held' = Held /\ Offered = {}
      /\ Offered' \subseteq {e0}
  BY <1>1 DEF SentEvents, Held, Offered
<1> HIDE DEF e0
<1>4. InOrder'
  BY <1>1 DEF OInv, InOrder
<1>5. (\A e \in SentEvents \cup Offered \cup Queued \cup Held : Passed(e))'
  BY <1>1, <1>2, <1>3 DEF OInv, Passed
<1>6. /\ Precede(SentEvents, Offered)'
      /\ Precede(SentEvents \cup Offered, Queued)'
      /\ Precede(SentEvents \cup Offered \cup Queued, Held)'
  BY <1>2, <1>3 DEF OInv, Precede
<1>7. WPhase'
  BY <1>1, <1>2, <1>3 DEF OInv, WPhase
<1> QED
  BY <1>1, <1>2, <1>4, <1>5, <1>6, <1>7 DEF OInv

\* What P offers is the last result sent.
LEMMA OrderDeliver ==
  ASSUME TInv, OInv, Deliver
  PROVE  OInv'
<1> USE DEF etcdVars, wVars, pVars
<1>1. /\ UNCHANGED <<incoming, wVars, phand>> /\ ppc = "offer"
      /\ ppc' \in {"select", "done"} /\ phand \in Results
      /\ phand.type # "ERROR"
  BY DEF Deliver, OInv, TInv, TypeOK
<1>2. Queued' = Queued /\ Held' = Held /\ Offered = {phand.ev}
      /\ Offered' = {}
  BY <1>1 DEF Queued, Held, Offered
<1>3. WPhase /\ wpc # "sync"
  BY <1>2 DEF OInv, WPhase
<1>4. WPhase'
  BY <1>1, <1>3 DEF WPhase
<1>5. CASE sent' = Append(sent, phand)
  <2>1. SentEvents' = SentEvents \cup {phand.ev} /\ InOrder'
    BY <1>1, <1>2, <1>5, SentAppend DEF OInv
  <2>2. QueueInOrder'
    BY <1>1 DEF OInv, QueueInOrder
  <2>3. (\A e \in SentEvents \cup Offered \cup Queued \cup Held : Passed(e))'
    BY <1>1, <1>2, <2>1 DEF OInv, Passed
  <2>4. /\ Precede(SentEvents, Offered)'
        /\ Precede(SentEvents \cup Offered, Queued)'
        /\ Precede(SentEvents \cup Offered \cup Queued, Held)'
    BY <1>2, <2>1 DEF OInv, Precede
  <2> QED
    BY <1>1, <1>4, <2>1, <2>2, <2>3, <2>4 DEF OInv
<1>6. CASE UNCHANGED sent
  BY <1>1, <1>2, <1>4, <1>6, NothingMoves
<1> QED
  BY <1>5, <1>6 DEF Deliver

\* The error of run has no place in the order.
LEMMA OrderDeliverError ==
  ASSUME TInv, OInv, DeliverError
  PROVE  OInv'
<1> USE DEF etcdVars, wVars, pVars
<1>1. UNCHANGED <<incoming, wVars, pVars>>
  BY DEF DeliverError
<1>2. Queued' = Queued /\ Held' = Held /\ Offered' = Offered
  BY <1>1 DEF Queued, Held, Offered
<1>3. SentEvents' = SentEvents /\ InOrder'
  <2>1. CASE sent' = Append(sent, ErrorResult)
    <3>1. ErrorResult \in Results /\ ErrorResult.type = "ERROR"
      BY DEF ErrorResult, Results
    <3> QED
      BY <2>1, <3>1, SentAppend DEF OInv
  <2>2. CASE UNCHANGED sent
    BY <2>2 DEF SentEvents, OInv, InOrder
  <2> QED
    BY <2>1, <2>2 DEF DeliverError
<1>4. QueueInOrder'
  BY <1>1 DEF OInv, QueueInOrder
<1>5. (\A e \in SentEvents \cup Offered \cup Queued \cup Held : Passed(e))'
  BY <1>1, <1>2, <1>3 DEF OInv, Passed
<1>6. /\ Precede(SentEvents, Offered)'
      /\ Precede(SentEvents \cup Offered, Queued)'
      /\ Precede(SentEvents \cup Offered \cup Queued, Held)'
  BY <1>2, <1>3 DEF OInv, Precede
<1>7. WPhase' /\ (ppc = "offer" => phand.type # "ERROR")'
  BY <1>1, <1>2, <1>3 DEF OInv, WPhase
<1> QED
  BY <1>3, <1>4, <1>5, <1>6, <1>7 DEF OInv

\* Every other step leaves the pipe alone, or drops what a goroutine holds.
LEMMA OrderOthers ==
  ASSUME TInv, OInv,
         \/ WatchErr \/ WatchEnd \/ WSendError \/ PSendError \/ ProcessDone
         \/ RunSelect \/ RunCancel \/ CloseResult
         \/ Receive \/ Stop \/ Write \/ Compact \/ CloseClient
         \/ UNCHANGED vars
  PROVE  OInv'
<1> USE DEF etcdVars, wVars, pVars
<1>1. CASE WatchErr \/ WatchEnd \/ WSendError
  <2>1. /\ UNCHANGED <<sent, incoming, todo, initialRev, nextRev, pVars>>
        /\ wpc' \in {"sendErr", "done"}
    BY <1>1 DEF WatchErr, WatchEnd, WSendError, WFail
  <2> QED
    BY <2>1, NothingMoves DEF OInv, WPhase, Offered, Held
<1>2. CASE PSendError \/ ProcessDone
  <2>1. /\ UNCHANGED <<sent, incoming, wVars, phand>>
        /\ ppc' \in {"select", "done"}
    BY <1>2 DEF PSendError, ProcessDone
  <2>2. /\ SentEvents' = SentEvents /\ Queued' = Queued
        /\ Offered' = {} /\ Held' = Held
    BY <2>1 DEF SentEvents, Queued, Offered, Held
  <2>3. WPhase'
    BY <2>1, <2>2 DEF OInv, WPhase
  <2> QED
    BY <2>1, <2>2, <2>3, NothingMoves
<1>3. CASE \/ RunSelect \/ RunCancel \/ CloseResult
           \/ Receive \/ Stop \/ Write \/ Compact \/ CloseClient
           \/ UNCHANGED vars
  <2>1. UNCHANGED <<sent, incoming, wVars, pVars>>
    BY <1>3 DEF RunSelect, RunCancel, CloseResult, Receive, Stop, Write,
                Compact, CloseClient, vars
  <2>2. /\ SentEvents' = SentEvents /\ Queued' = Queued
        /\ Offered' = Offered /\ Held' = Held
    BY <2>1 DEF SentEvents, Queued, Offered, Held
  <2>3. WPhase' /\ (ppc = "offer" => phand.type # "ERROR")'
    BY <2>1, <2>2 DEF OInv, WPhase
  <2> QED
    BY <2>1, <2>2, <2>3, NothingMoves
<1> QED
  BY <1>1, <1>2, <1>3

\* A watch starts with an empty pipe.
LEMMA InitOrder ==
  ASSUME Init
  PROVE  OInv
<1>1. Len(sent) = 0 /\ Len(incoming) = 0
  BY EmptySeq DEF Init
<1>2. SentEvents = {} /\ Queued = {} /\ Offered = {} /\ Held = {}
  BY <1>1 DEF Init, SentEvents, Queued, Offered, Held
<1>3. InOrder /\ QueueInOrder
  BY <1>1 DEF InOrder, QueueInOrder
<1>4. WPhase /\ (ppc = "offer" => phand.type # "ERROR")
  BY <1>2 DEF Init, WPhase
<1> QED
  BY <1>2, <1>3, <1>4 DEF OInv, Precede

\* Every step keeps the pipe in order.
LEMMA NextOrder ==
  ASSUME TInv, OInv, [Next]_vars
  PROVE  OInv'
  BY OrderSyncKey, OrderWatchRecv, OrderStart, OrderSendEvent,
     OrderTransform, OrderDeliver, OrderDeliverError, OrderOthers
  DEF Next, WStep, PNext, RNext

\* A watch delivers in order, and nothing twice, whatever the history of the
\* store, the listing it starts from, and the size of its buffers.
THEOREM Ordered == Spec => []InOrder
<1>1. Init => OInv
  BY InitOrder
<1>2. TInv /\ OInv /\ [Next]_vars => OInv'
  BY NextOrder
<1>3. OInv => InOrder
  BY DEF OInv
<1> QED
  BY <1>1, <1>2, <1>3, Typed, PTL DEF Spec

---------------------------------------------------------------------------
(* The picture that the user of a watch has of the store, proved faithful   *)
(* for every history, filter and buffer size.  W, the queue and P together  *)
(* hold exactly the revisions between what was sent and what W has read,    *)
(* so that the user's view is the store's at the revision in between.       *)


---------------------------------------------------------------------------
(* The value of a key at a revision. *)

\* ValueAt is what the last write of the key up to the revision wrote.
ValueOK ==
  \A k \in Keys, r \in Nat :
    /\ WritesOf(k, r) = {} => ValueAt(k, r) = NoValue
    /\ \A m \in 1..r : IsModRevision(k, r, m) => ValueAt(k, r) = hist[m].val

LEMMA ValueDef == ValueOK
<1> SUFFICES ASSUME NEW k \in Keys, NEW r \in Nat, NEW m \in 1..r,
                    IsModRevision(k, r, m)
             PROVE  ValueAt(k, r) = hist[m].val
  BY DEF ValueOK, ValueAt
<1> DEFINE c == CHOOSE n \in 1..r : IsModRevision(k, r, n)
<1>1. c \in 1..r /\ IsModRevision(k, r, c)
  OBVIOUS
<1>2. c = m
  <2> HIDE DEF c
  <2> QED
    BY <1>1 DEF IsModRevision
<1>3. WritesOf(k, r) # {}
  BY DEF IsModRevision
<1> QED
  BY <1>2, <1>3 DEF ValueAt

\* A key that was written has a last write.
LEMMA LastWrite ==
  ASSUME NEW k, NEW r \in Nat, WritesOf(k, r) # {}
  PROVE  \E m \in 1..r : IsModRevision(k, r, m)
<1>1. WritesOf(k, r) \in SUBSET (1..r)
  BY DEF WritesOf
<1> QED
  BY <1>1, LastExists DEF IsModRevision

\* The history only grows, and nobody changes the call.
Grows == /\ hist \in Seq(Writes) /\ hist' \in Seq(Writes)
         /\ Len(hist) \in Nat /\ Len(hist') \in Nat
         /\ Len(hist) <= Len(hist')
         /\ \A i \in 1..Len(hist) : hist'[i] = hist[i]
         /\ call' = call

\* What a key was worth stays what it was.
LEMMA ValueSame ==
  ASSUME Grows, NEW k \in Keys, NEW r \in Nat, r <= Len(hist)
  PROVE  /\ \A m : IsModRevision(k, r, m)' <=> IsModRevision(k, r, m)
         /\ ValueAt(k, r)' = ValueAt(k, r)
<1>1. WritesOf(k, r)' = WritesOf(k, r)
  BY DEF WritesOf, Grows
<1>2. \A m : IsModRevision(k, r, m)' <=> IsModRevision(k, r, m)
  BY <1>1 DEF IsModRevision
<1>3. ValueOK /\ ValueOK'
  BY ValueDef, PTL
<1>4. CASE WritesOf(k, r) = {}
  <2>1. ValueAt(k, r) = NoValue
    BY <1>3, <1>4 DEF ValueOK
  <2>2. ValueAt(k, r)' = NoValue
    BY <1>1, <1>3, <1>4 DEF ValueOK
  <2> QED
    BY <1>2, <2>1, <2>2
<1>5. CASE WritesOf(k, r) # {}
  <2>1. PICK m \in 1..r : IsModRevision(k, r, m)
    BY <1>5, LastWrite
  <2>2. ValueAt(k, r) = hist[m].val
    BY <1>3, <2>1 DEF ValueOK
  <2>3. ValueAt(k, r)' = hist'[m].val
    BY <1>2, <1>3, <2>1 DEF ValueOK
  <2>4. hist'[m] = hist[m]
    BY <2>1 DEF IsModRevision, WritesOf, Grows
  <2> QED
    BY <1>2, <2>2, <2>3, <2>4
<1> QED
  BY <1>4, <1>5

\* A revision changes the value of its own key only.
LEMMA ValueStep ==
  ASSUME hist \in Seq(Writes), NEW k \in Keys, NEW r \in 1..Len(hist)
  PROVE  /\ hist[r].key = k => ValueAt(k, r) = hist[r].val
         /\ hist[r].key # k => ValueAt(k, r) = ValueAt(k, r - 1)
<1> USE LenProperties
<1>1. CASE hist[r].key = k
  <2>1. IsModRevision(k, r, r)
    BY <1>1 DEF IsModRevision, WritesOf
  <2> QED
    BY <1>1, <2>1, ValueDef DEF ValueOK
<1>2. CASE hist[r].key # k
  <2>1. WritesOf(k, r) = WritesOf(k, r - 1)
    BY <1>2 DEF WritesOf
  <2>2. r - 1 \in Nat /\ r \in Nat
    OBVIOUS
  <2>3. CASE WritesOf(k, r) = {}
    BY <1>2, <2>1, <2>2, <2>3, ValueDef DEF ValueOK
  <2>4. CASE WritesOf(k, r) # {}
    <3>1. PICK m \in 1..(r - 1) : IsModRevision(k, r - 1, m)
      BY <2>1, <2>2, <2>4, LastWrite
    <3>2. IsModRevision(k, r, m)
      BY <2>1, <3>1 DEF IsModRevision
    <3>3. m \in 1..r
      BY <3>1
    <3> HIDE DEF IsModRevision
    <3>4. ValueAt(k, r) = hist[m].val
      BY <2>2, <3>2, <3>3, ValueDef DEF ValueOK
    <3>5. ValueAt(k, r - 1) = hist[m].val
      BY <2>2, <3>1, ValueDef DEF ValueOK
    <3> QED
      BY <1>2, <3>4, <3>5
  <2> QED
    BY <2>3, <2>4
<1> QED
  BY <1>1, <1>2

\* A value is one that was written, or none.
LEMMA ValueWritten ==
  ASSUME NEW k \in Keys, NEW r \in Nat, ValueAt(k, r) # NoValue
  PROVE  \E i \in 1..Len(hist) : ValueAt(k, r) = hist[i].val
<1>1. WritesOf(k, r) # {}
  BY ValueDef DEF ValueOK
<1>2. PICK m \in 1..r : IsModRevision(k, r, m)
  BY <1>1, LastWrite
<1> QED
  BY <1>2, ValueDef DEF ValueOK, IsModRevision, WritesOf

---------------------------------------------------------------------------
(* What the user believes. *)

\* The last result about a key decides.
IsLastResult(k, i) == i \in ResultsOf(k) /\ \A j \in ResultsOf(k) : j <= i
Believed(r) == IF r.type = "DELETED" THEN NoValue ELSE Object(r)

ViewOK ==
  \A k \in Keys :
    /\ ResultsOf(k) = {} => View(k) = NoValue
    /\ \A i \in 1..Len(sent) :
         IsLastResult(k, i) => View(k) = Believed(sent[i])

LEMMA ViewDef == ViewOK
<1> SUFFICES ASSUME NEW k \in Keys, NEW i \in 1..Len(sent), IsLastResult(k, i)
             PROVE  View(k) = Believed(sent[i])
  BY DEF ViewOK, View
<1> DEFINE c == CHOOSE j \in ResultsOf(k) : \A l \in ResultsOf(k) : l <= j
<1>1. c \in ResultsOf(k) /\ \A l \in ResultsOf(k) : l <= c
  BY DEF IsLastResult
<1>2. c = i
  <2> HIDE DEF c
  <2>1. c <= i /\ i <= c
    BY <1>1 DEF IsLastResult
  <2>2. c \in 1..Len(sent)
    BY <1>1 DEF ResultsOf
  <2> QED
    BY <2>1, <2>2
<1> QED
  BY <1>1, <1>2 DEF View, Believed

LEMMA LastResult ==
  ASSUME sent \in Seq(Results), NEW k, ResultsOf(k) # {}
  PROVE  \E i \in 1..Len(sent) : IsLastResult(k, i)
<1>1. ResultsOf(k) \in SUBSET (1..Len(sent)) /\ Len(sent) \in Nat
  BY LenProperties DEF ResultsOf
<1> QED
  BY <1>1, LastExists DEF IsLastResult

\* Everything sent is about a revision that exists.
SentExist ==
  \A i \in 1..Len(sent) :
    sent[i].type # "ERROR" => sent[i].ev.rev \in 1..Len(hist)

\* A result about an existing revision says the same of it for ever.
LEMMA ObjectSame ==
  ASSUME Grows, NEW r, r.ev.rev \in 1..Len(hist)
  PROVE  Believed(r)' = Believed(r)
<1>1. hist'[r.ev.rev] = hist[r.ev.rev]
  BY DEF Grows
<1> QED
  BY <1>1 DEF Believed, Object, CurObj, OldObj, IsDeleted, AcceptAll, Grows

\* While nothing is sent the user's view stays.
LEMMA ViewSame ==
  ASSUME TInv, Grows, SentExist, sent' = sent, NEW k \in Keys
  PROVE  View(k)' = View(k)
<1>1. ResultsOf(k)' = ResultsOf(k)
  BY DEF ResultsOf
<1>2. \A i : IsLastResult(k, i)' <=> IsLastResult(k, i)
  BY <1>1 DEF IsLastResult
<1>3. ViewOK /\ ViewOK'
  BY ViewDef, PTL
<1>4. CASE ResultsOf(k) = {}
  BY <1>1, <1>3, <1>4 DEF ViewOK
<1>5. CASE ResultsOf(k) # {}
  <2>1. PICK i \in 1..Len(sent) : IsLastResult(k, i)
    BY <1>5, LastResult DEF TInv, TypeOK
  <2>2. View(k) = Believed(sent[i])
    BY <1>3, <2>1 DEF ViewOK
  <2>3. View(k)' = Believed(sent[i])'
    BY <1>2, <1>3, <2>1 DEF ViewOK
  <2>4. sent[i].ev.rev \in 1..Len(hist)
    BY <2>1 DEF SentExist, IsLastResult, ResultsOf
  <2>5. \A r : r.ev.rev \in 1..Len(hist) => Believed(r)' = Believed(r)
    BY ObjectSame
  <2>6. Believed(sent[i])' = Believed(sent[i])
    BY <2>4, <2>5
  <2> QED
    BY <2>2, <2>3, <2>6
<1> QED
  BY <1>4, <1>5
\* A result changes what the user believes of its own key only.
LEMMA ViewSend ==
  ASSUME TInv, Grows, SentExist, NEW r \in Results, sent' = Append(sent, r),
         NEW k \in Keys
  PROVE  /\ r.type = "ERROR" \/ r.ev.key # k => View(k)' = View(k)
         /\ r.type # "ERROR" /\ r.ev.key = k => View(k)' = Believed(r)'
<1>0. PICK n \in Nat : n = Len(sent)
  BY LenProperties DEF TInv, TypeOK
<1>1. /\ Len(sent') = n + 1
      /\ \A i \in 1..n : sent'[i] = sent[i]
      /\ sent'[n + 1] = r
  BY <1>0, AppendProperties DEF TInv, TypeOK
<1>2. 1..Len(sent') = (1..n) \cup {n + 1}
  BY <1>1
<1>3. ViewOK /\ ViewOK'
  BY ViewDef, PTL
<1>n. \A i, q : sent'[i] = q => Believed(sent[i])' = Believed(q)'
  BY DEF Believed, Object, CurObj, OldObj, IsDeleted, AcceptAll
<1>4. ASSUME r.type = "ERROR" \/ r.ev.key # k
      PROVE  View(k)' = View(k)
  <2>1. ResultsOf(k)' = ResultsOf(k)
    BY <1>0, <1>1, <1>2, <1>4 DEF ResultsOf
  <2>2. \A i : IsLastResult(k, i)' <=> IsLastResult(k, i)
    BY <2>1 DEF IsLastResult
  <2>3. CASE ResultsOf(k) = {}
    BY <1>3, <2>1, <2>3 DEF ViewOK
  <2>4. CASE ResultsOf(k) # {}
    <3>1. PICK i \in 1..Len(sent) : IsLastResult(k, i)
      BY <2>4, LastResult DEF TInv, TypeOK
    <3>2. PICK q : q = sent[i]
      OBVIOUS
    <3>3. i \in 1..Len(sent') /\ sent'[i] = q
      BY <1>0, <1>1, <1>2, <3>1, <3>2
    <3>4. View(k)' = Believed(sent[i])'
      BY <1>3, <2>2, <3>1, <3>3 DEF ViewOK
    <3>5. q.ev.rev \in 1..Len(hist)
      BY <3>1, <3>2 DEF SentExist, IsLastResult, ResultsOf
    <3>6. \A x : x.ev.rev \in 1..Len(hist) => Believed(x)' = Believed(x)
      BY ObjectSame
    <3>7. View(k) = Believed(q)
      BY <1>3, <3>1, <3>2 DEF ViewOK
    <3> QED
      BY <1>n, <3>3, <3>4, <3>5, <3>6, <3>7
  <2> QED
    BY <2>3, <2>4
<1>5. ASSUME r.type # "ERROR", r.ev.key = k
      PROVE  View(k)' = Believed(r)'
  <2>1. n + 1 \in ResultsOf(k)' /\ \A j \in ResultsOf(k)' : j <= n + 1
    BY <1>1, <1>2, <1>5 DEF ResultsOf
  <2>2. IsLastResult(k, n + 1)'
    BY <2>1 DEF IsLastResult
  <2>3. n + 1 \in 1..Len(sent')
    BY <1>1, <1>2
  <2>4. View(k)' = Believed(sent[n + 1])'
    BY <1>3, <2>2, <2>3 DEF ViewOK
  <2> QED
    BY <1>1, <1>n, <2>4
<1> QED
  BY <1>4, <1>5

---------------------------------------------------------------------------
(* What is in the pipe is true of the store. *)

\* No step takes history back, the call, or a compaction.
LEMMA NextGrows ==
  ASSUME TInv, TInv', [Next]_vars
  PROVE  /\ Grows
         /\ compacted' = compacted \/ compacted' # 0
         /\ cancelled => cancelled'
<1> USE DEF etcdVars, wVars, pVars
<1>0. /\ hist \in Seq(Writes) /\ hist' \in Seq(Writes)
      /\ Len(hist) \in Nat /\ Len(hist') \in Nat
  BY LenProperties DEF TInv, TypeOK
<1>1. CASE Write
  <2>1. PICK w \in Writes : hist' = Append(hist, w)
    BY <1>1 DEF Write, Writes
  <2>2. Len(hist') = Len(hist) + 1 /\ \A i \in 1..Len(hist) : hist'[i] = hist[i]
    BY <1>0, <2>1, AppendProperties
  <2> QED
    BY <1>0, <1>1, <2>2 DEF Write, Grows
<1>2. CASE Compact
  <2>1. compacted' # 0 /\ UNCHANGED <<hist, call, cancelled>>
    BY <1>2, <1>0 DEF Compact, TInv, TypeOK
  <2> QED
    BY <1>0, <2>1 DEF Grows
<1>3. CASE \/ WStep \/ WatchErr \/ PNext \/ RNext \/ Receive \/ Stop
           \/ CloseClient \/ UNCHANGED vars
  <2>1. UNCHANGED <<hist, call, compacted>> /\ (cancelled => cancelled')
    BY <1>3 DEF WStep, SyncList, SyncKey, StartWatch, WatchRecv, WatchErr,
                WatchEnd, SendEvent, WSendError, PNext, Transform, PSendError,
                Deliver, ProcessDone, RNext, RunSelect, DeliverError,
                RunCancel, CloseResult, Receive, Stop, CloseClient, vars
  <2> QED
    BY <1>0, <2>1 DEF Grows
<1> QED
  BY <1>1, <1>2, <1>3 DEF Next

\* An event says what its revision wrote and, as long as nothing is compacted,
\* what was there before; a listed one is of the key's revision then.
Good(e) ==
  /\ e.key \in Keys
  /\ e.rev \in 1..Len(hist) /\ hist[e.rev].key = e.key
  /\ e.sync => /\ IsModRevision(e.key, initialRev, e.rev)
               /\ hist[e.rev].val # NoValue
               /\ e.prev = ValueAt(e.key, initialRev)
  /\ ~e.sync => /\ initialRev < e.rev
                /\ e.prev \in {NoValue, ValueAt(e.key, e.rev - 1)}
                /\ compacted = 0 => e.prev = ValueAt(e.key, e.rev - 1)

GInv == /\ nextRev # 0 => todo = {} /\ initialRev < nextRev
        /\ wpc = "sync" => call.rev = 0 /\ initialRev = 0
        /\ \A k \in todo : ValueAt(k, initialRev) # NoValue
        /\ call.rev = 0 => initialRev <= Len(hist) /\ nextRev <= Len(hist) + 1
        /\ call.rev # 0 => /\ initialRev = call.rev /\ todo = {}
                           /\ \A e \in Pipe : ~e.sync
        /\ \A e \in Pipe : Good(e)
        /\ ppc = "offer" => phand.type = ResultType(phand.ev)

\* It stays true of what is in the pipe.
LEMMA GoodSame ==
  ASSUME TInv, Grows, compacted' = compacted \/ compacted' # 0,
         initialRev' = initialRev, NEW e, Good(e), e.sync => initialRev <= Len(hist)
  PROVE  Good(e)'
<1>1. e.sync =>
      /\ \A m : IsModRevision(e.key, initialRev, m)'
                  <=> IsModRevision(e.key, initialRev, m)
      /\ ValueAt(e.key, initialRev)' = ValueAt(e.key, initialRev)
  <2> DEFINE k == e.key
  <2> SUFFICES ASSUME e.sync
               PROVE  /\ \A m : IsModRevision(k, initialRev, m)'
                                  <=> IsModRevision(k, initialRev, m)
                      /\ ValueAt(k, initialRev)' = ValueAt(k, initialRev)
    OBVIOUS
  <2>1. PICK r \in Nat : r = initialRev /\ r <= Len(hist)
    BY DEF TInv, TypeOK
  <2>2. k \in Keys
    BY DEF Good
  <2>3. /\ \A m : IsModRevision(k, r, m)' <=> IsModRevision(k, r, m)
        /\ ValueAt(k, r)' = ValueAt(k, r)
    BY <2>1, <2>2, ValueSame
  <2>4. initialRev' = r
    BY <2>1
  <2>5. /\ \A m : IsModRevision(k, initialRev, m)' <=> IsModRevision(k, r, m)'
        /\ ValueAt(k, initialRev)' = ValueAt(k, r)'
    BY <2>4 DEF IsModRevision, WritesOf, ValueAt
  <2> QED
    BY <2>1, <2>3, <2>5
<1>2. e.rev - 1 \in Nat /\ e.rev - 1 <= Len(hist)
  BY DEF Good, Grows
<1>3. ValueAt(e.key, e.rev - 1)' = ValueAt(e.key, e.rev - 1)
  <2> DEFINE k == e.key
             r == e.rev - 1
  <2>1. k \in Keys /\ r \in Nat /\ r <= Len(hist)
    BY <1>2 DEF Good
  <2> HIDE DEF k, r
  <2>2. ValueAt(k, r)' = ValueAt(k, r)
    BY <2>1, ValueSame
  <2> QED
    BY <2>2 DEF k, r
<1>4. e.rev \in 1..Len(hist') /\ hist'[e.rev] = hist[e.rev]
  BY DEF Good, Grows
<1> QED
  BY <1>1, <1>3, <1>4 DEF Good

\* But for what W takes up nothing comes into the pipe.
LEMMA PipeShrinks ==
  ASSUME TInv, OInv, [Next]_vars
  PROVE  \/ Pipe' \subseteq Pipe
         \/ SyncKey /\ Held' = {whand'} /\ Pipe' \subseteq Pipe \cup Held'
         \/ WatchRecv /\ Held' = {whand'} /\ Pipe' \subseteq Pipe \cup Held'
<1> USE DEF etcdVars, wVars, pVars
<1>1. CASE WStep \/ WatchErr
  <2>1. /\ UNCHANGED <<sent, pVars>>
        /\ SentEvents' = SentEvents /\ Offered' = Offered
    BY <1>1 DEF WStep, SyncList, SyncKey, StartWatch, WatchRecv, WatchErr,
                WatchEnd, SendEvent, WSendError, SentEvents, Offered
  <2>2. CASE SyncKey \/ WatchRecv
    <3>1. Queued' = Queued /\ Held' \in {{}, {whand'}}
      BY <2>2 DEF SyncKey, WatchRecv, Queued, Held
    <3> QED
      BY <2>1, <2>2, <3>1 DEF Pipe
  <2>3. CASE SyncList \/ StartWatch \/ WatchErr \/ WatchEnd \/ WSendError
    <3>1. Queued' = Queued /\ Held' = {}
      BY <2>3 DEF SyncList, StartWatch, WatchErr, WatchEnd, WSendError, WFail,
                  Queued, Held
    <3> QED
      BY <2>1, <3>1 DEF Pipe
  <2>4. CASE SendEvent
    <3>1. Held = {whand} /\ Held' = {} /\ whand \in Events
      BY <2>4 DEF SendEvent, Held, TInv, HandOK
    <3>2. Queued' \subseteq Queued \cup {whand}
      <4>1. CASE incoming' = Append(incoming, whand)
        BY <3>1, <4>1, QueueAppend
      <4>2. CASE UNCHANGED incoming
        BY <4>2 DEF Queued
      <4> QED
        BY <2>4, <4>1, <4>2 DEF SendEvent
    <3> QED
      BY <2>1, <3>1, <3>2 DEF Pipe
  <2> QED
    BY <1>1, <2>2, <2>3, <2>4 DEF WStep
<1>2. CASE Transform
  <2>1. Head(incoming) \in Queued /\ Queued' \subseteq Queued
    BY <1>2, QueueTail DEF Transform
  <2>2. /\ SentEvents' = SentEvents /\ Held' = Held
        /\ Offered' \subseteq {Head(incoming)}
    BY <1>2 DEF Transform, SentEvents, Held, Offered
  <2> QED
    BY <2>1, <2>2 DEF Pipe
<1>3. CASE Deliver
  <2>1. /\ Queued' = Queued /\ Held' = Held /\ Offered = {phand.ev}
        /\ Offered' = {} /\ phand \in Results /\ phand.type # "ERROR"
    BY <1>3 DEF Deliver, Queued, Held, Offered, OInv, TInv, TypeOK
  <2>2. SentEvents' \subseteq SentEvents \cup {phand.ev}
    <3>1. CASE sent' = Append(sent, phand)
      BY <2>1, <3>1, SentAppend
    <3>2. CASE UNCHANGED sent
      BY <3>2 DEF SentEvents
    <3> QED
      BY <1>3, <3>1, <3>2 DEF Deliver
  <2> QED
    BY <2>1, <2>2 DEF Pipe
<1>4. CASE DeliverError
  <2>1. Queued' = Queued /\ Held' = Held /\ Offered' = Offered
    BY <1>4 DEF DeliverError, Queued, Held, Offered
  <2>2. SentEvents' = SentEvents
    <3>1. CASE sent' = Append(sent, ErrorResult)
      <4>1. ErrorResult \in Results /\ ErrorResult.type = "ERROR"
        BY DEF ErrorResult, Results
      <4> QED
        BY <3>1, <4>1, SentAppend
    <3>2. CASE UNCHANGED sent
      BY <3>2 DEF SentEvents
    <3> QED
      BY <1>4, <3>1, <3>2 DEF DeliverError
  <2> QED
    BY <2>1, <2>2 DEF Pipe
<1>5. CASE \/ PSendError \/ ProcessDone \/ RunSelect \/ RunCancel
           \/ CloseResult \/ Receive \/ Stop \/ Write \/ Compact
           \/ CloseClient \/ UNCHANGED vars
  <2>1. /\ UNCHANGED <<sent, incoming, wVars, phand>>
        /\ ppc' = "offer" => ppc = "offer"
    BY <1>5 DEF PSendError, ProcessDone, RunSelect, RunCancel, CloseResult,
                Receive, Stop, Write, Compact, CloseClient, vars
  <2>2. /\ SentEvents' = SentEvents /\ Queued' = Queued /\ Held' = Held
        /\ Offered' \subseteq Offered
    BY <2>1 DEF SentEvents, Queued, Held, Offered
  <2> QED
    BY <2>2 DEF Pipe
<1> QED
  BY <1>1, <1>2, <1>3, <1>4, <1>5 DEF Next, PNext, RNext

\* What W takes up is true of the store.
LEMMA NewIsGood ==
  ASSUME TInv, TInv', Grows, GInv, SyncKey \/ WatchRecv,
         Held' = {whand'}
  PROVE  Good(whand)'
<1> USE DEF etcdVars, pVars
<1>1. CASE SyncKey
  <2>1. wpc' = "sendEvent"
    BY <1>1 DEF SyncKey, WFail, Held
  <2>2. PICK k \in todo, m \in 1..initialRev :
          IsModRevision(k, initialRev, m) /\ whand' = ParseKV(k, m)
    BY <1>1, <2>1 DEF SyncKey, WFail
  <2>3. /\ UNCHANGED <<hist, initialRev, compacted>> /\ k \in Keys
    BY <1>1, <2>1 DEF SyncKey, WFail, TInv, TypeOK
  <2>4. whand'.sync /\ whand'.key = k /\ whand'.rev = m
        /\ whand'.prev = ValueAt(k, initialRev)
    BY <2>2 DEF ParseKV
  <2>5. m \in 1..Len(hist) /\ hist[m].key = k /\ hist[m].val # NoValue
    <3>1. m \in 1..Len(hist) /\ hist[m].key = k
      BY <2>2 DEF IsModRevision, WritesOf
    <3>2. ValueAt(k, initialRev) = hist[m].val
      BY <2>2, <2>3, ValueDef DEF ValueOK, TInv, TypeOK
    <3> QED
      BY <3>1, <3>2 DEF GInv
  <2>6. /\ ValueAt(k, initialRev)' = ValueAt(k, initialRev)
        /\ IsModRevision(k, initialRev, m)' <=> IsModRevision(k, initialRev, m)
    BY <2>3 DEF ValueAt, IsModRevision, WritesOf
  <2> QED
    BY <2>2, <2>3, <2>4, <2>5, <2>6 DEF Good
<1>2. CASE WatchRecv
  <2>1. /\ wpc = "watch" /\ nextRev \in 1..Len(hist) /\ initialRev < nextRev
        /\ UNCHANGED <<hist, compacted, initialRev>>
    BY <1>2 DEF WatchRecv, TInv, TypeOK, HandOK, Grows, GInv
  <2> DEFINE k == hist[nextRev].key
  <2>2. PICK prev \in {ValueAt(k, nextRev - 1)} \cup
                 (IF nextRev - 1 < compacted THEN {NoValue} ELSE {}) :
          whand' = ParseEvent(nextRev, prev)
    BY <1>2 DEF WatchRecv
  <2>3. /\ ~whand'.sync /\ whand'.key = k /\ whand'.rev = nextRev
        /\ whand'.prev = prev
    BY <2>2 DEF ParseEvent
  <2>4. k \in Keys
    <3>1. hist[nextRev] \in Writes
      BY <2>1, ElementOfSeq DEF Grows
    <3> QED
      BY <3>1 DEF Writes
  <2>5. compacted = 0 => prev = ValueAt(k, nextRev - 1)
    BY <2>1, <2>2
  <2>6. prev \in {NoValue, ValueAt(k, nextRev - 1)}
    BY <2>2
  <2>7. ValueAt(whand.key, whand.rev - 1)' = ValueAt(k, nextRev - 1)
    BY <2>1, <2>3 DEF ValueAt, IsModRevision, WritesOf
  <2> QED
    BY <2>1, <2>3, <2>4, <2>5, <2>6, <2>7 DEF Good
<1> QED
  BY <1>1, <1>2

\* What transform makes of an event does not change with what comes later.
LEMMA TypeSame ==
  ASSUME Grows, NEW e, Good(e)
  PROVE  ResultType(e)' = ResultType(e)
<1>1. hist'[e.rev] = hist[e.rev]
  BY DEF Good, Grows
<1>2. ValueAt(e.key, e.rev - 1)' = ValueAt(e.key, e.rev - 1)
  <2> DEFINE k == e.key
             r == e.rev - 1
  <2>1. k \in Keys /\ r \in Nat /\ r <= Len(hist)
    BY DEF Good, Grows
  <2> HIDE DEF k, r
  <2>2. ValueAt(k, r)' = ValueAt(k, r)
    BY <2>1, ValueSame
  <2> QED
    BY <2>2 DEF k, r
<1> QED
  BY <1>1, <1>2 DEF ResultType, IsDeleted, IsCreated, Filter, CurObj, OldObj,
                    AcceptAll, Grows

\* The pipe is true of the store in every reachable state.
LEMMA NextGInv ==
  ASSUME TInv, TInv', OInv, OInv', GInv, [Next]_vars
  PROVE  GInv'
<1> USE DEF etcdVars, wVars, pVars
<1>0. Grows /\ (compacted' = compacted \/ compacted' # 0)
  BY NextGrows
<1>1. (nextRev # 0 => todo = {} /\ initialRev < nextRev)'
  <2>1. CASE SyncList \/ SyncKey
    BY <2>1 DEF SyncList, SyncKey, WFail, GInv, OInv, WPhase
  <2>2. CASE StartWatch \/ WatchRecv
    BY <2>2 DEF StartWatch, WatchRecv, GInv, OInv, WPhase, TInv, TypeOK
  <2>3. CASE \/ WatchErr \/ WatchEnd \/ SendEvent \/ WSendError
             \/ PNext \/ RNext \/ Receive \/ Stop \/ Write \/ Compact
             \/ CloseClient \/ UNCHANGED vars
    <3>1. UNCHANGED <<nextRev, initialRev, todo>>
      BY <2>3 DEF WatchErr, WatchEnd, SendEvent, WSendError, WFail, PNext,
                  Transform, PSendError, Deliver, ProcessDone, RNext,
                  RunSelect, DeliverError, RunCancel, CloseResult, Receive,
                  Stop, Write, Compact, CloseClient, vars
    <3> QED
      BY <3>1 DEF GInv
  <2> QED
    BY <2>1, <2>2, <2>3 DEF Next, WStep
<1>2. (wpc = "sync" => call.rev = 0 /\ initialRev = 0)'
  <2>1. wpc' = "sync" => wpc = "sync" /\ initialRev' = initialRev
    BY DEF Next, WStep, SyncList, SyncKey, StartWatch, WatchRecv, WatchErr,
           WatchEnd, SendEvent, WSendError, WFail, PNext, Transform, PSendError,
           Deliver, ProcessDone, RNext, RunSelect, DeliverError, RunCancel,
           CloseResult, Receive, Stop, Write, Compact, CloseClient, vars
  <2> QED
    BY <1>0, <2>1 DEF GInv, Grows
<1>3. /\ initialRev \in Nat /\ nextRev \in Nat
      /\ \A e \in Pipe : Good(e)
      /\ ppc = "offer" => phand.type = ResultType(phand.ev)
  BY DEF GInv, TInv, TypeOK
<1>4. /\ (call.rev = 0 => initialRev <= Len(hist) /\ nextRev <= Len(hist) + 1)'
      /\ (call.rev # 0 => initialRev = call.rev /\ todo = {})'
      /\ initialRev' = initialRev \/ Pipe' = {}
  <2>1. CASE SyncList
    <3>1. Pipe' = {}
      BY <2>1 DEF SyncList, WFail, OInv, WPhase, Pipe, SentEvents, Offered,
                  Queued, Held
    <3>2. call.rev = 0 /\ call' = call
      BY <1>0, <2>1 DEF SyncList, GInv, Grows
    <3> QED
      BY <1>0, <1>3, <2>1, <3>1, <3>2 DEF SyncList, WFail, Grows, GInv
  <2>2. CASE SyncKey \/ StartWatch \/ WatchRecv
    <3>1. initialRev' = initialRev /\ todo' \subseteq todo
      BY <2>2 DEF SyncKey, StartWatch, WatchRecv, WFail
    <3>2. \/ nextRev' = nextRev \/ nextRev' = initialRev + 1
          \/ nextRev' = nextRev + 1 /\ nextRev <= Len(hist)
      <4>1. CASE SyncKey
        BY <4>1 DEF SyncKey, WFail
      <4>2. CASE StartWatch
        BY <4>2 DEF StartWatch
      <4>3. CASE WatchRecv
        BY <4>3 DEF WatchRecv
      <4> QED
        BY <2>2, <4>1, <4>2, <4>3
    <3>3. (call.rev # 0 => initialRev = call.rev /\ todo = {})'
      BY <1>0, <3>1 DEF Grows, GInv
    <3>4. call.rev = 0 => nextRev' <= Len(hist') + 1
      <4>1. call.rev = 0 => initialRev <= Len(hist) /\ nextRev <= Len(hist) + 1
        BY DEF GInv
      <4> QED
        BY <1>0, <1>3, <3>2, <4>1 DEF Grows
    <3> QED
      BY <1>0, <1>3, <3>1, <3>3, <3>4 DEF Grows, GInv
  <2>3. CASE \/ WatchErr \/ WatchEnd \/ SendEvent \/ WSendError
             \/ PNext \/ RNext \/ Receive \/ Stop \/ Write \/ Compact
             \/ CloseClient \/ UNCHANGED vars
    <3>1. UNCHANGED <<nextRev, initialRev, todo>>
      BY <2>3 DEF WatchErr, WatchEnd, SendEvent, WSendError, WFail, PNext,
                  Transform, PSendError, Deliver, ProcessDone, RNext,
                  RunSelect, DeliverError, RunCancel, CloseResult, Receive,
                  Stop, Write, Compact, CloseClient, vars
    <3> QED
      BY <1>0, <1>3, <3>1 DEF Grows, GInv
  <2> QED
    BY <2>1, <2>2, <2>3 DEF Next, WStep
<1>7. (call.rev # 0 => \A e \in Pipe : ~e.sync)'
  <2> SUFFICES ASSUME call.rev # 0
               PROVE  \A e \in Pipe' : ~e.sync
    BY <1>0 DEF Grows
  <2>1. ~SyncKey
    BY DEF SyncKey, GInv
  <2>2. WatchRecv => ~whand'.sync
    BY DEF WatchRecv, ParseEvent
  <2> QED
    BY <2>1, <2>2, PipeShrinks DEF GInv
<1>8. (\A k \in todo : ValueAt(k, initialRev) # NoValue)'
  <2>1. CASE SyncList /\ todo' = LiveKeys /\ initialRev' = Len(hist)
    <3>1. hist' = hist
      BY <2>1 DEF SyncList, etcdVars
    <3> QED
      BY <2>1, <3>1 DEF LiveKeys, ValueAt, IsModRevision, WritesOf
  <2>2. CASE initialRev' = initialRev /\ todo' \subseteq todo
    <3> SUFFICES ASSUME NEW k \in todo PROVE ValueAt(k, initialRev)' # NoValue
      BY <2>2
    <3>1. PICK r \in Nat : r = initialRev /\ r <= Len(hist)
      BY <1>3 DEF GInv
    <3>2. k \in Keys /\ ValueAt(k, r) # NoValue
      BY <3>1 DEF GInv, TInv, TypeOK
    <3>3. ValueAt(k, r)' = ValueAt(k, r)
      BY <1>0, <3>1, <3>2, ValueSame
    <3>4. ValueAt(k, initialRev)' = ValueAt(k, r)'
      BY <2>2, <3>1 DEF ValueAt, IsModRevision, WritesOf
    <3> QED
      BY <3>2, <3>3, <3>4
  <2>3. \/ SyncList /\ todo' = LiveKeys /\ initialRev' = Len(hist)
        \/ initialRev' = initialRev /\ todo' \subseteq todo
    BY DEF Next, WStep, SyncList, SyncKey, StartWatch, WatchRecv, WatchErr,
           WatchEnd, SendEvent, WSendError, WFail, PNext, Transform, PSendError,
           Deliver, ProcessDone, RNext, RunSelect, DeliverError, RunCancel,
           CloseResult, Receive, Stop, Write, Compact, CloseClient, vars
  <2> QED
    BY <2>1, <2>2, <2>3
<1>5. \A e \in Pipe' : Good(e)'
  <2>1. CASE Pipe' = {}
    BY <2>1
  <2>2. CASE initialRev' = initialRev
    <3>1. ASSUME NEW e \in Pipe PROVE Good(e)'
      <4>1. e.sync => initialRev <= Len(hist)
        BY <3>1 DEF GInv
      <4> QED
        BY <1>0, <1>3, <2>2, <3>1, <4>1, GoodSame
    <3>2. ASSUME SyncKey \/ WatchRecv, Held' = {whand'}
          PROVE  \A e \in Held' : Good(e)'
      <4>1. Good(whand)'
        BY <1>0, <3>2, NewIsGood
      <4>2. \A e : e = whand' => (Good(e)' <=> Good(whand)')
        BY DEF Good, IsModRevision, WritesOf, ValueAt
      <4> QED
        BY <3>2, <4>1, <4>2
    <3> QED
      BY <3>1, <3>2, PipeShrinks
  <2> QED
    BY <1>4, <2>1, <2>2
<1>6. ppc' = "offer" => phand'.type = ResultType(phand.ev)'
  <2>1. CASE Transform
    <3>1. SUFFICES ASSUME ppc' = "offer"
                   PROVE  phand'.type = ResultType(phand.ev)'
      OBVIOUS
    <3>2. PICK e : e = Head(incoming)
      OBVIOUS
    <3>3. phand' = [type |-> ResultType(e), ev |-> e]
      BY <2>1, <3>1, <3>2 DEF Transform
    <3>4. Good(e)
      BY <1>3, <2>1, <3>2, QueueTail DEF Transform, Pipe
    <3>5. ResultType(e)' = ResultType(e)
      BY <1>0, <3>4, TypeSame
    <3>6. ResultType(phand.ev)' = ResultType(e)'
      BY <3>3 DEF ResultType, IsDeleted, IsCreated, Filter, CurObj, OldObj,
                  ValueAt, IsModRevision, WritesOf
    <3> QED
      BY <3>3, <3>5, <3>6
  <2>2. CASE ~Transform
    <3>1. ppc' = "offer" => ppc = "offer" /\ phand' = phand
      BY <2>2 DEF Next, WStep, SyncList, SyncKey, StartWatch, WatchRecv,
                  WatchErr, WatchEnd, SendEvent, WSendError, PNext,
                  PSendError, Deliver, ProcessDone, RNext, RunSelect,
                  DeliverError, RunCancel, CloseResult, Receive, Stop, Write,
                  Compact, CloseClient, vars
    <3>2. SUFFICES ASSUME ppc' = "offer"
                   PROVE  phand'.type = ResultType(phand.ev)'
      OBVIOUS
    <3>3. PICK e : e = phand.ev
      OBVIOUS
    <3>4. Good(e)
      BY <1>3, <3>1, <3>2, <3>3 DEF Pipe, Offered
    <3>5. ResultType(e)' = ResultType(e)
      BY <1>0, <3>4, TypeSame
    <3>6. ResultType(phand.ev)' = ResultType(e)'
      BY <3>1, <3>2, <3>3 DEF ResultType, IsDeleted, IsCreated, Filter,
                  CurObj, OldObj, ValueAt, IsModRevision, WritesOf
    <3> QED
      BY <1>3, <3>1, <3>2, <3>3, <3>5, <3>6
  <2> QED
    BY <2>1, <2>2
<1> QED
  BY <1>1, <1>2, <1>4, <1>5, <1>6, <1>7, <1>8 DEF GInv

---------------------------------------------------------------------------
(* The filter. *)

\* No event may be lost, and what ViewFaithful takes for granted.
Trusted ==
  /\ ~cancelled
  /\ \A r \in 1..Len(hist) : hist[r].val \notin Undecodable
  /\ AcceptAll \/ compacted = 0
Ready == Trusted /\ call.rev = 0

\* It cannot become true.
LEMMA TrustedBefore ==
  ASSUME Grows, compacted' = compacted \/ compacted' # 0,
         cancelled => cancelled', Trusted'
  PROVE  Trusted
<1>1. \A r \in 1..Len(hist) : r \in 1..Len(hist') /\ hist'[r] = hist[r]
  BY DEF Grows
<1> QED
  BY <1>1 DEF Trusted, Grows, Undecodable, AcceptAll

\* Every event can be decoded then.
LEMMA Decodes ==
  ASSUME TInv, Trusted, NEW e, Good(e)
  PROVE  ~DecodeFails(e)
<1>1. NoValue \notin Undecodable
  BY CallsAssumption, ValuesAssumption
  DEF TInv, TypeOK, Undecodable, CallRecords
<1>2. hist[e.rev].val \notin Undecodable
  BY DEF Good, Trusted
<1>3. ASSUME NEW k \in Keys, NEW r \in Nat
      PROVE  ValueAt(k, r) \notin Undecodable
  BY <1>1, ValueWritten DEF Trusted
<1>4. e.prev \notin Undecodable
  <2>1. CASE e.sync
    BY <1>3, <2>1 DEF Good, TInv, TypeOK
  <2>2. CASE ~e.sync
    <3>1. e.rev - 1 \in Nat /\ e.key \in Keys
      BY LenProperties DEF Good, TInv, TypeOK
    <3>2. e.prev = NoValue \/ e.prev = ValueAt(e.key, e.rev - 1)
      BY <2>2 DEF Good
    <3> QED
      BY <1>1, <1>3, <3>1, <3>2
  <2> QED
    BY <2>1, <2>2
<1> QED
  BY <1>1, <1>2, <1>4 DEF DecodeFails, CurObj, OldObj

\* The result of a listed key shows it as it was listed.
LEMMA SyncFits ==
  ASSUME TInv, NEW e, Good(e), e.sync
  PROVE  /\ ResultType(e) = "none" => Selected(e.key, initialRev) = NoValue
         /\ \A x : x.type = ResultType(e) /\ x.ev = e /\ ResultType(e) # "none"
                     => Believed(x) = Selected(e.key, initialRev)
<1>1. hist[e.rev].val = ValueAt(e.key, initialRev)
  <2>1. e.rev \in 1..initialRev
    BY DEF Good, IsModRevision, WritesOf
  <2> QED
    BY <2>1, ValueDef DEF ValueOK, Good, TInv, TypeOK
<1>2. e.prev = ValueAt(e.key, initialRev)
  BY DEF Good
<1> QED
  BY <1>1, <1>2, ValuesAssumption
  DEF ResultType, Believed, Object, Selected, Filter, CurObj, OldObj, IsDeleted

\* The result of a revision leads from the value before it to the one it wrote.
LEMMA WatchFits ==
  ASSUME TInv, Trusted, NEW e, Good(e), ~e.sync
  PROVE  /\ ResultType(e) = "none" =>
              Selected(e.key, e.rev) = Selected(e.key, e.rev - 1)
         /\ \A x : x.type = ResultType(e) /\ x.ev = e /\ ResultType(e) # "none"
                     => Believed(x) = Selected(e.key, e.rev)
<1>1. hist[e.rev].val = ValueAt(e.key, e.rev)
  BY ValueStep DEF Good, TInv, TypeOK
<1>2. ~AcceptAll => e.prev = ValueAt(e.key, e.rev - 1)
  BY DEF Good, Trusted
<1> QED
  BY <1>1, <1>2, ValuesAssumption
  DEF ResultType, Believed, Object, Selected, Filter, CurObj, OldObj,
      IsDeleted, IsCreated

---------------------------------------------------------------------------
(* The picture the user has. *)

Pending == Offered \cup Queued \cup Held

\* A listed key of which the user has not been told.
Unseen(k) == k \in todo \/ \E e \in Pending : e.sync /\ e.key = k

\* The pipe holds the revisions behind r, up to the last that W has read.
IsCut(r) ==
  /\ r \in Nat /\ initialRev <= r
  /\ nextRev = 0 => r = initialRev
  /\ nextRev # 0 => r < nextRev
  /\ \A e \in Pending : ~e.sync => e.rev > r
  /\ \A q \in (r + 1)..(nextRev - 1) :
       \E e \in Pending : ~e.sync /\ e.rev = q
  /\ r = initialRev \/ \A k \in Keys : ~Unseen(k)

\* The user sees the store as of revision r, but for keys still to be listed.
PictureAt(r) ==
  /\ IsCut(r)
  /\ \A k \in Keys : View(k) = IF Unseen(k) THEN NoValue ELSE Selected(k, r)

VInv == (Ready => \E r : PictureAt(r)) /\ ViewFaithful

\* What was sent exists.
LEMMA SentIsGood ==
  ASSUME GInv
  PROVE  SentExist
  BY DEF GInv, Good, Pipe, SentEvents, SentExist

LEMMA SelectedSame ==
  ASSUME Grows, NEW k \in Keys, NEW r \in Nat, r <= Len(hist)
  PROVE  Selected(k, r)' = Selected(k, r)
  BY ValueSame DEF Selected, Filter, AcceptAll, Grows

\* When the first event of the pipe is a revision, it is the one behind the
\* picture, and every listed key has been seen.
LEMMA FirstRevision ==
  ASSUME TInv, OInv, GInv, NEW r, IsCut(r), NEW e \in Pending, ~e.sync,
         \A f \in Pending : f = e \/ Before(e, f)
  PROVE  /\ nextRev # 0 /\ todo = {} /\ e.rev < nextRev /\ e.rev = r + 1
         /\ \A f \in Pending : ~f.sync
         /\ \A k \in Keys : ~Unseen(k)
<1>1. \A f \in Pending : Good(f) /\ Passed(f)
  BY DEF GInv, OInv, Pending, Pipe
<1>2. nextRev # 0 /\ todo = {} /\ e.rev < nextRev
  BY <1>1 DEF GInv, Passed
<1>3. \A f \in Pending : ~f.sync
  BY DEF Before
<1>4. /\ r \in Nat /\ nextRev \in Nat /\ e.rev \in Nat /\ e.rev > r
      /\ \A q \in (r + 1)..(nextRev - 1) : \E f \in Pending : f.rev = q
  BY <1>1 DEF IsCut, TInv, TypeOK, Good
<1>5. PICK f \in Pending : f.rev = r + 1
  BY <1>2, <1>4
<1>6. f = e \/ e.rev < f.rev
  BY <1>3 DEF Before
<1>7. e.rev = r + 1
  BY <1>4, <1>5, <1>6
<1> QED
  BY <1>2, <1>3, <1>7 DEF Unseen

---------------------------------------------------------------------------
(* The steps, and the cut. *)

\* P is done with the first event of the pipe.
Leaves(e) ==
  /\ e \in Pending /\ Pending = Pending' \cup {e} /\ Precede({e}, Pending')
  /\ UNCHANGED <<todo, initialRev, nextRev>>

\* The cut then moves behind it.
LEMMA CutMoves ==
  ASSUME TInv, OInv, GInv, NEW r, IsCut(r), NEW e, Leaves(e)
  PROVE  /\ e.sync => /\ r = initialRev /\ IsCut(r)'
                      /\ Unseen(e.key) /\ ~Unseen(e.key)'
                      /\ \A k \in Keys : k # e.key => (Unseen(k)' <=> Unseen(k))
         /\ ~e.sync => /\ e.rev = r + 1 /\ IsCut(e.rev)'
                       /\ \A k \in Keys : ~Unseen(k) /\ ~Unseen(k)'
<1> USE DEF Leaves
<1>1. /\ Good(e) /\ Passed(e) /\ e.key \in Keys
      /\ \A f \in Pending : Good(f) /\ Passed(f)
  BY DEF GInv, OInv, Pending, Pipe, Good
<1>2. /\ r \in Nat /\ initialRev \in Nat /\ nextRev \in Nat
      /\ todo \subseteq Nat
  BY KeysAssumption DEF IsCut, TInv, TypeOK
<1>3. \A f \in Pending : f.rev \in Nat /\ f.key \in Nat
  BY PipeTypes DEF Pending
<1>4. \A f \in Pending' : IF f.sync THEN e.sync /\ e.key < f.key
                          ELSE e.rev < f.rev
  BY DEF Precede, Before
<1>5. nextRev # 0 => todo = {}
  BY DEF GInv
<1>6. CASE e.sync
  <2>1. Unseen(e.key)
    BY <1>6 DEF Unseen
  <2>2. r = initialRev
    BY <1>1, <2>1 DEF IsCut
  <2>3. e.key \notin todo
    BY <1>1, <1>2, <1>3, <1>5 DEF Passed
  <2>4. ~Unseen(e.key)'
    BY <1>3, <1>4, <2>3 DEF Unseen
  <2>5. \A k \in Keys : k # e.key => (Unseen(k)' <=> Unseen(k))
    BY DEF Unseen
  <2>6. IsCut(r)'
    BY <1>6, <2>2 DEF IsCut
  <2> QED
    BY <1>6, <2>1, <2>2, <2>4, <2>5, <2>6
<1>7. CASE ~e.sync
  <2>1. \A f \in Pending : f = e \/ Before(e, f)
    BY DEF Precede
  <2>2. /\ nextRev # 0 /\ todo = {} /\ e.rev < nextRev /\ e.rev = r + 1
        /\ \A f \in Pending : ~f.sync
        /\ \A k \in Keys : ~Unseen(k)
    BY <1>7, <2>1, FirstRevision
  <2>3. \A k \in Keys : ~Unseen(k) /\ ~Unseen(k)'
    BY <2>2 DEF Unseen
  <2>4. \A q \in (r + 1)..(nextRev - 1) : \E f \in Pending : f.rev = q
    BY DEF IsCut
  <2>5. \A f \in Pending' : f.rev > e.rev
    BY <1>3, <1>4, <2>2
  <2>6. ASSUME NEW q \in (e.rev + 1)..(nextRev - 1)
        PROVE  \E f \in Pending' : ~f.sync /\ f.rev = q
    <3>1. q \in (r + 1)..(nextRev - 1) /\ q # e.rev
      BY <1>2, <2>2
    <3>2. PICK f \in Pending : f.rev = q
      BY <2>4, <3>1
    <3> QED
      BY <2>2, <3>1, <3>2
  <2>7. e.rev \in Nat /\ initialRev <= e.rev
    BY <1>2, <2>2 DEF IsCut
  <2> QED
    BY <1>7, <2>2, <2>3, <2>5, <2>6, <2>7 DEF IsCut
<1> QED
  BY <1>6, <1>7

\* Nothing that the cut divides is moved.
CutStays(r) ==
  /\ IsCut(r)' /\ initialRev' = initialRev
  /\ \A k \in Keys : Unseen(k)' <=> Unseen(k)

LEMMA PipeStays ==
  ASSUME NEW r, IsCut(r), Pending' = Pending,
         UNCHANGED <<todo, initialRev, nextRev>>
  PROVE  CutStays(r)
  BY DEF CutStays, IsCut, Unseen

\* The cut is at the listing, and what is there will be listed.
LEMMA CutSyncList ==
  ASSUME TInv, OInv, SyncList, initialRev' = Len(hist), todo' = LiveKeys,
         NEW n \in Nat, n = Len(hist)
  PROVE  /\ IsCut(n)' /\ SentEvents = {} /\ UNCHANGED <<sent, hist, call>>
         /\ \A k \in Keys : ~Unseen(k)' => ValueAt(k, n) = NoValue
<1> USE DEF etcdVars, pVars
<1>1. /\ UNCHANGED <<sent, incoming, ppc, phand, hist, call, nextRev>>
      /\ nextRev = 0
      /\ SentEvents = {} /\ Pending' = {}
  BY DEF SyncList, WFail, OInv, WPhase, Pending, Held, Offered, Queued
<1>2. IsCut(n)'
  BY <1>1 DEF IsCut
<1>3. \A k \in Keys : ~Unseen(k)' => ValueAt(k, n) = NoValue
  BY <1>1 DEF Unseen, LiveKeys
<1> QED
  BY <1>1, <1>2, <1>3

\* A listed key is held from now on, and the watch starts behind the listing.
LEMMA CutSyncKey ==
  ASSUME TInv, OInv, SyncKey \/ StartWatch, NEW r, IsCut(r)
  PROVE  CutStays(r) /\ sent' = sent
<1> USE DEF etcdVars, pVars
<1>0. /\ UNCHANGED <<sent, incoming, ppc, phand, initialRev>>
      /\ nextRev = 0 /\ Held = {}
  BY DEF SyncKey, StartWatch, WFail, OInv, WPhase, Held
<1>1. Offered' = Offered /\ Queued' = Queued
  BY <1>0 DEF Offered, Queued
<1>2. CASE SyncKey /\ wpc' = "sendEvent"
  <2>1. PICK k \in todo : /\ todo' = todo \ {k}
                          /\ whand'.sync /\ whand'.key = k
    BY <1>2 DEF SyncKey, WFail, ParseKV
  <2>2. Pending' = Pending \cup {whand'} /\ nextRev' = nextRev
    BY <1>0, <1>1, <1>2 DEF Pending, Held, SyncKey, WFail
  <2>3. \A j \in Keys : Unseen(j)' <=> Unseen(j)
    BY <2>1, <2>2 DEF Unseen
  <2>4. IsCut(r)'
    BY <1>0, <2>1, <2>2, <2>3 DEF IsCut
  <2> QED
    BY <1>0, <2>3, <2>4 DEF CutStays
<1>3. CASE SyncKey /\ wpc' = "sendErr"
  <2>1. Pending' = Pending /\ UNCHANGED <<todo, nextRev>>
    BY <1>0, <1>1, <1>3 DEF Pending, Held, SyncKey, WFail
  <2> QED
    BY <1>0, <2>1, PipeStays
<1>4. CASE StartWatch
  <2>1. /\ Pending' = Pending /\ UNCHANGED todo
        /\ nextRev' = initialRev + 1 /\ initialRev \in Nat
    BY <1>0, <1>1, <1>4 DEF Pending, Held, StartWatch, TInv, TypeOK
  <2>2. \A j \in Keys : Unseen(j)' <=> Unseen(j)
    BY <2>1 DEF Unseen
  <2>3. IsCut(r)'
    BY <1>0, <2>1 DEF IsCut
  <2> QED
    BY <1>0, <2>2, <2>3 DEF CutStays
<1> QED
  BY <1>2, <1>3, <1>4 DEF SyncKey, WFail

\* The next revision joins the pipe.
LEMMA CutWatchRecv ==
  ASSUME TInv, OInv, WatchRecv, NEW r, IsCut(r)
  PROVE  CutStays(r) /\ sent' = sent
<1> USE DEF etcdVars, pVars
<1>1. /\ UNCHANGED <<sent, incoming, ppc, phand, initialRev, todo>>
      /\ nextRev # 0 /\ nextRev \in Nat /\ nextRev' = nextRev + 1
      /\ ~whand'.sync /\ whand'.rev = nextRev
      /\ Held = {} /\ Held' = {whand'}
  BY DEF WatchRecv, ParseEvent, OInv, WPhase, Held, TInv, TypeOK
<1>2. Pending' = Pending \cup {whand'}
  BY <1>1 DEF Pending, Offered, Queued
<1>3. \A j \in Keys : Unseen(j)' <=> Unseen(j)
  BY <1>1, <1>2 DEF Unseen
<1>4. r \in Nat /\ r < nextRev
  BY <1>1 DEF IsCut
<1>5. ASSUME NEW q \in (r + 1)..(nextRev' - 1)
      PROVE  \E e \in Pending' : ~e.sync /\ e.rev = q
  <2>1. q = nextRev \/ q \in (r + 1)..(nextRev - 1)
    BY <1>1, <1>4
  <2> QED
    BY <1>1, <1>2, <2>1 DEF IsCut
<1>6. IsCut(r)'
  BY <1>1, <1>2, <1>3, <1>4, <1>5 DEF IsCut
<1> QED
  BY <1>1, <1>3, <1>6 DEF CutStays

\* The event that W holds is queued.
LEMMA CutSendEvent ==
  ASSUME TInv, ~cancelled, SendEvent, NEW r, IsCut(r)
  PROVE  CutStays(r) /\ sent' = sent
<1> USE DEF etcdVars, pVars
<1>1. /\ UNCHANGED <<sent, ppc, phand, todo, initialRev, nextRev>>
      /\ Held = {whand} /\ Held' = {} /\ whand \in Events
      /\ incoming' = Append(incoming, whand)
  BY DEF SendEvent, Held, TInv, HandOK
<1>2. Queued' = Queued \cup {whand}
  BY <1>1, QueueAppend
<1>3. Pending' = Pending
  BY <1>1, <1>2 DEF Pending, Offered
<1> QED
  BY <1>1, <1>3, PipeStays

\* An event that shows nothing is dropped, a result is sent.
Dropped(e) == Leaves(e) /\ ResultType(e) = "none" /\ sent' = sent
Shown(e) == /\ Leaves(e) /\ ppc = "offer" /\ phand.ev = e
            /\ phand \in Results /\ phand.type # "ERROR"
            /\ phand.type = ResultType(e)
            /\ sent' = Append(sent, phand) /\ phand' = phand

\* The head of the queue is offered, or shows nothing new.
LEMMA CutTransform ==
  ASSUME TInv, OInv, GInv, Trusted, Transform, NEW r, IsCut(r)
  PROVE  (CutStays(r) /\ sent' = sent) \/ \E e : Dropped(e)
<1> USE DEF etcdVars, wVars, pVars
<1>1. PICK e : e = Head(incoming)
  OBVIOUS
<1>2. /\ UNCHANGED <<sent, wVars>> /\ ppc = "select"
      /\ incoming # <<>> /\ incoming' = Tail(incoming)
  BY DEF Transform
<1>3. /\ e \in Queued /\ Queued = Queued' \cup {e}
      /\ Precede({e}, Queued')
  <2>1. e \in Queued /\ Queued' \subseteq Queued /\ Precede({e}, Queued')
    BY <1>1, <1>2, QueueTail DEF OInv
  <2>2. /\ Len(incoming) \in Nat
        /\ Len(incoming') = Len(incoming) - 1
        /\ \A i \in 1..Len(incoming') : incoming'[i] = incoming[i + 1]
        /\ Head(incoming) = incoming[1]
    BY <1>2, HeadTailProperties, LenProperties, EmptySeq DEF TInv, TypeOK
  <2>3. ASSUME NEW j \in 1..Len(incoming), j # 1
        PROVE  incoming[j] \in Queued'
    <3>1. j - 1 \in 1..Len(incoming') /\ (j - 1) + 1 = j
      BY <2>2, <2>3
    <3> QED
      BY <2>2, <3>1 DEF Queued
  <2>4. Queued \subseteq Queued' \cup {e}
    BY <1>1, <2>2, <2>3 DEF Queued
  <2> QED
    BY <2>1, <2>4
<1>4. Held' = Held /\ Offered = {}
  BY <1>2 DEF Held, Offered
<1>5. ~DecodeFails(e)
  <2>1. Good(e)
    BY <1>3 DEF GInv, Pipe
  <2> QED
    BY <2>1, Decodes
<1>6. CASE ppc' = "offer" /\ phand'.ev = e
  <2>1. Pending' = Pending
    BY <1>3, <1>4, <1>6 DEF Pending, Offered
  <2> QED
    BY <1>2, <2>1, PipeStays
<1>7. CASE ResultType(e) = "none" /\ UNCHANGED <<ppc, phand>>
  <2>1. Offered' = {}
    BY <1>2, <1>7 DEF Offered
  <2>2. e \in Pending /\ Pending = Pending' \cup {e}
    BY <1>3, <1>4, <2>1 DEF Pending
  <2>3. Precede({e}, Pending')
    BY <1>3, <1>4, <2>1 DEF Pending, OInv, Precede
  <2>4. Dropped(e)
    BY <1>2, <1>7, <2>2, <2>3 DEF Dropped, Leaves
  <2> QED
    BY <2>4
<1> QED
  BY <1>1, <1>5, <1>6, <1>7 DEF Transform

\* What P offers is sent: a listed key, or the next revision.
LEMMA CutDeliver ==
  ASSUME TInv, OInv, GInv, Deliver, sent' = Append(sent, phand)
  PROVE  \E e : Shown(e)
<1> USE DEF etcdVars, wVars, pVars
<1>1. PICK e : e = phand.ev
  OBVIOUS
<1>2. /\ UNCHANGED <<incoming, wVars, phand>>
      /\ ppc = "offer" /\ ppc' \in {"select", "done"}
      /\ phand \in Results /\ phand.type # "ERROR"
  BY DEF Deliver, OInv, TInv, TypeOK
<1>3. Queued' = Queued /\ Held' = Held /\ Offered = {e} /\ Offered' = {}
  BY <1>1, <1>2 DEF Queued, Held, Offered
<1>4. e \in Pending /\ Pending = Pending' \cup {e} /\ Precede({e}, Pending')
  BY <1>3 DEF Pending, OInv, Precede
<1>5. phand.type = ResultType(e)
  BY <1>1, <1>2 DEF GInv
<1>6. Shown(e)
  BY <1>1, <1>2, <1>4, <1>5 DEF Shown, Leaves
<1> QED
  BY <1>6

\* What a step does to the cut, as long as no event may be lost.
LEMMA CutStep ==
  ASSUME TInv, OInv, GInv, Trusted, ~cancelled', [Next]_vars, NEW r, IsCut(r)
  PROVE  \/ SyncList /\ initialRev' = Len(hist) /\ todo' = LiveKeys
         \/ \E e : Dropped(e) \/ Shown(e)
         \/ CutStays(r) /\ sent' \in {sent, Append(sent, ErrorResult)}
<1> USE DEF etcdVars, wVars, pVars
<1>1. ~cancelled
  BY DEF Trusted
<1>2. CASE SyncKey \/ StartWatch \/ WatchRecv \/ SendEvent
  BY <1>1, <1>2, CutSyncKey, CutWatchRecv, CutSendEvent
<1>3. CASE Transform
  BY <1>3, CutTransform
<1>4. CASE Deliver
  <2>1. sent' = Append(sent, phand)
    BY <1>1, <1>4 DEF Deliver
  <2> QED
    BY <1>4, <2>1, CutDeliver
<1>5. CASE SyncList /\ ~(initialRev' = Len(hist) /\ todo' = LiveKeys)
  <2>1. UNCHANGED <<sent, incoming, todo, initialRev, nextRev, pVars>>
        /\ wpc = "sync" /\ wpc' = "sendErr"
    BY <1>5 DEF SyncList, WFail
  <2>2. Pending' = Pending
    BY <2>1 DEF Pending, Queued, Offered, Held
  <2> QED
    BY <2>1, <2>2, PipeStays
<1>6. CASE \/ WatchErr \/ WatchEnd \/ WSendError \/ PSendError
           \/ ProcessDone \/ RunSelect \/ DeliverError \/ RunCancel
           \/ CloseResult \/ Receive \/ Stop \/ Write \/ Compact
           \/ CloseClient \/ UNCHANGED vars
  <2>1. /\ UNCHANGED <<incoming, todo, initialRev, nextRev>>
        /\ sent' \in {sent, Append(sent, ErrorResult)}
    BY <1>6 DEF WatchErr, WatchEnd, WSendError, WFail, PSendError,
                ProcessDone, RunSelect, DeliverError, RunCancel, CloseResult,
                Receive, Stop, Write, Compact, CloseClient, vars
  <2>2. Queued' = Queued /\ Offered' = Offered /\ Held' = Held
    BY <1>1, <1>6
    DEF WatchErr, WatchEnd, WSendError, WFail, PSendError, ProcessDone,
        RunSelect, DeliverError, RunCancel, CloseResult, Receive, Stop, Write,
        Compact, CloseClient, vars, Queued, Offered, Held
  <2> QED
    BY <2>1, <2>2, PipeStays DEF Pending
<1> QED
  BY <1>2, <1>3, <1>4, <1>5, <1>6 DEF Next, WStep, PNext, RNext

---------------------------------------------------------------------------
(* The steps, and the picture. *)

\* A step that shows the user nothing leaves the picture as it is.
LEMMA PictureStays ==
  ASSUME TInv, Grows, GInv, Ready, NEW r, PictureAt(r), CutStays(r),
         \A k \in Keys : View(k)' = View(k)
  PROVE  PictureAt(r)'
<1>1. r \in Nat /\ r <= Len(hist)
  BY DEF PictureAt, IsCut, GInv, Ready, Grows, TInv, TypeOK
<1>2. \A k \in Keys : Selected(k, r)' = Selected(k, r)
  BY <1>1, SelectedSame
<1> QED
  BY <1>2 DEF PictureAt, CutStays

\* What the property says of the last result stays true while nothing is sent.
LEMMA FaithfulStays ==
  ASSUME TInv, Grows, GInv, Ready, ViewFaithful, sent' = sent
  PROVE  ViewFaithful'
<1>1. SentExist
  BY SentIsGood
<1>2. SUFFICES ASSUME NEW n \in {Len(sent)} \ {0},
                      sent[n].type # "ERROR", ~sent[n].ev.sync,
                      NEW k \in Keys
               PROVE  View(k)' = Selected(k, sent[n].ev.rev)'
  BY DEF ViewFaithful
<1>3. View(k) = Selected(k, sent[n].ev.rev)
  BY <1>2 DEF Ready, Trusted, ViewFaithful
<1>4. View(k)' = View(k)
  BY <1>1, ViewSame
<1>5. PICK q \in Nat : q = sent[n].ev.rev /\ q <= Len(hist)
  <2>1. n \in 1..Len(sent)
    BY LenProperties DEF TInv, TypeOK
  <2> QED
    BY <1>1, <1>2, <2>1 DEF SentExist, Grows
<1>6. Selected(k, q)' = Selected(k, q)
  BY <1>5, SelectedSame
<1>7. Selected(k, sent[n].ev.rev)' = Selected(k, q)'
  BY <1>5 DEF Selected, ValueAt, IsModRevision, WritesOf
<1> QED
  BY <1>3, <1>4, <1>5, <1>6, <1>7

\* When P is done with an event, the picture is one of it.
LEMMA Consume ==
  ASSUME TInv, OInv, GInv, Grows, Ready, NEW r, PictureAt(r), NEW e, Leaves(e),
         \A k \in Keys : k # e.key => View(k)' = View(k),
         e.sync => View(e.key)' = Selected(e.key, initialRev),
         ~e.sync => View(e.key)' = Selected(e.key, e.rev)
  PROVE  /\ \E q : PictureAt(q)'
         /\ ~e.sync => \A k \in Keys : View(k)' = Selected(k, e.rev)
<1>1. Good(e) /\ e.key \in Keys
  BY DEF GInv, Leaves, Pending, Pipe, Good
<1>2. r \in Nat /\ r <= Len(hist) /\ IsCut(r)
  <2>1. r \in Nat /\ r <= Len(hist)
    BY DEF PictureAt, IsCut, GInv, Ready, Grows, TInv, TypeOK
  <2> QED
    BY <2>1 DEF PictureAt
<1>3. CASE e.sync
  <2>1. /\ r = initialRev /\ IsCut(r)' /\ ~Unseen(e.key)'
        /\ \A k \in Keys : k # e.key => (Unseen(k)' <=> Unseen(k))
    BY <1>2, <1>3, CutMoves
  <2>2. \A k \in Keys : Selected(k, r)' = Selected(k, r)
    BY <1>2, SelectedSame
  <2>3. \A k \in Keys : View(k)' = IF Unseen(k)' THEN NoValue ELSE Selected(k, r)
    BY <1>3, <2>1 DEF PictureAt
  <2>4. PictureAt(r)'
    BY <2>1, <2>2, <2>3 DEF PictureAt
  <2> QED
    BY <1>3, <2>4
<1>4. CASE ~e.sync
  <2>1. /\ e.rev = r + 1 /\ IsCut(e.rev)'
        /\ \A k \in Keys : ~Unseen(k) /\ ~Unseen(k)'
    BY <1>2, <1>4, CutMoves
  <2>2. ASSUME NEW k \in Keys
        PROVE  View(k)' = Selected(k, e.rev)
    <3>1. CASE k = e.key
      BY <1>4, <3>1
    <3>2. CASE k # e.key
      <4>1. View(k)' = Selected(k, r)
        BY <2>1, <3>2 DEF PictureAt
      <4>2. e.rev \in 1..Len(hist) /\ hist[e.rev].key # k
        BY <1>1, <3>2 DEF Good
      <4>3. ValueAt(k, e.rev) = ValueAt(k, e.rev - 1)
        BY <4>2, ValueStep DEF TInv, TypeOK
      <4>4. e.rev - 1 = r
        BY <1>2, <2>1
      <4> QED
        BY <4>1, <4>3, <4>4 DEF Selected
    <3> QED
      BY <3>1, <3>2
  <2>3. PICK q \in Nat : q = e.rev /\ q <= Len(hist)
    BY <1>1 DEF Good, Grows
  <2>4. \A k \in Keys : Selected(k, q)' = Selected(k, q)
    BY <2>3, SelectedSame
  <2>5. PictureAt(q)'
    BY <2>1, <2>2, <2>3, <2>4 DEF PictureAt
  <2> QED
    BY <2>2, <2>5
<1> QED
  BY <1>3, <1>4

\* The listing: nothing has been sent, and every key there is will be.
LEMMA ViewSyncList ==
  ASSUME TInv, OInv, Grows, GInv, Ready, VInv, SyncList,
         initialRev' = Len(hist), todo' = LiveKeys
  PROVE  VInv'
<1>1. PICK n \in Nat : n = Len(hist)
  BY DEF Grows
<1>2. /\ IsCut(n)' /\ SentEvents = {} /\ sent' = sent
      /\ \A k \in Keys : ~Unseen(k)' => ValueAt(k, n) = NoValue
  BY <1>1, CutSyncList
<1>3. ASSUME NEW k \in Keys
      PROVE  View(k)' = NoValue
  <2>1. ResultsOf(k)' = {}
    BY <1>2 DEF ResultsOf, SentEvents
  <2>2. ViewOK'
    BY ViewDef, PTL
  <2> QED
    BY <2>1, <2>2 DEF ViewOK
<1>4. \A k \in Keys : Selected(k, n)' = Selected(k, n)
  BY <1>1, SelectedSame
<1>5. PictureAt(n)'
  BY <1>2, <1>3, <1>4 DEF PictureAt, Selected
<1> QED
  BY <1>2, <1>5, FaithfulStays DEF VInv

\* An event that shows nothing new.
LEMMA ViewDropped ==
  ASSUME TInv, OInv, Grows, GInv, Ready, VInv, NEW e, Dropped(e)
  PROVE  VInv'
<1>1. PICK r : PictureAt(r)
  BY DEF VInv
<1>2. Leaves(e) /\ ResultType(e) = "none" /\ sent' = sent
  BY DEF Dropped
<1>3. Good(e) /\ e.key \in Keys /\ e.rev \in 1..Len(hist)
  BY <1>2 DEF GInv, Leaves, Pending, Pipe, Good
<1>4. \A k \in Keys : View(k)' = View(k)
  BY <1>2, SentIsGood, ViewSame
<1>5. e.sync => View(e.key)' = Selected(e.key, initialRev)
  <2>1. e.sync => Unseen(e.key)
    BY <1>2 DEF Unseen, Leaves
  <2> QED
    BY <1>1, <1>2, <1>3, <1>4, <2>1, SyncFits DEF PictureAt
<1>6. ~e.sync => View(e.key)' = Selected(e.key, e.rev)
  <2>1. SUFFICES ASSUME ~e.sync PROVE View(e.key) = Selected(e.key, e.rev)
    BY <1>3, <1>4
  <2>2. Selected(e.key, e.rev) = Selected(e.key, e.rev - 1)
    BY <1>2, <1>3, <2>1, WatchFits DEF Ready
  <2>3. e.rev = r + 1 /\ ~Unseen(e.key) /\ r \in Nat
    BY <1>1, <1>2, <1>3, <2>1, CutMoves DEF PictureAt, IsCut
  <2>4. View(e.key) = Selected(e.key, r) /\ e.rev - 1 = r
    BY <1>1, <1>3, <2>3 DEF PictureAt
  <2> QED
    BY <2>2, <2>4
<1>7. \E q : PictureAt(q)'
  BY <1>1, <1>2, <1>4, <1>5, <1>6, Consume
<1> QED
  BY <1>2, <1>7, FaithfulStays DEF VInv

\* What P offers is sent: a listed key, or the next revision.
LEMMA ViewShown ==
  ASSUME TInv, OInv, Grows, GInv, Ready, VInv, NEW e, Shown(e)
  PROVE  VInv'
<1>1. /\ Leaves(e) /\ phand.ev = e /\ phand \in Results /\ phand.type # "ERROR"
      /\ phand.type = ResultType(e) /\ sent' = Append(sent, phand)
      /\ phand' = phand
  BY DEF Shown
<1>2. Good(e)
  BY <1>1 DEF GInv, Leaves, Pending, Pipe
<1>3. ResultType(e) # "none"
  BY <1>1 DEF Results, ResultTypes
<1>4. Believed(phand)' = Believed(phand)
  <2>1. PICK x : x = phand
    OBVIOUS
  <2>2. Believed(x)' = Believed(x)
    BY <1>1, <1>2, <2>1, ObjectSame DEF Good
  <2>3. Believed(phand)' = Believed(x)'
    BY <1>1, <2>1 DEF Believed, Object, CurObj, OldObj, IsDeleted, AcceptAll
  <2> QED
    BY <2>1, <2>2, <2>3
<1>5. /\ \A k \in Keys : k # e.key => View(k)' = View(k)
      /\ View(e.key)' = Believed(phand)
  <2>1. PICK x \in Results : x = phand
    BY <1>1
  <2>2. /\ \A k \in Keys : k # e.key => View(k)' = View(k)
        /\ View(e.key)' = Believed(x)'
    BY <1>1, <1>2, <2>1, SentIsGood, ViewSend DEF Good
  <2>3. Believed(phand)' = Believed(x)'
    BY <1>1, <2>1 DEF Believed, Object, CurObj, OldObj, IsDeleted, AcceptAll
  <2> QED
    BY <1>4, <2>2, <2>3
<1>6. e.sync => View(e.key)' = Selected(e.key, initialRev)
  BY <1>1, <1>2, <1>3, <1>5, SyncFits
<1>7. ~e.sync => View(e.key)' = Selected(e.key, e.rev)
  BY <1>1, <1>2, <1>3, <1>5, WatchFits DEF Ready
<1>8. PICK r : PictureAt(r)
  BY DEF VInv
<1>9. /\ \E q : PictureAt(q)'
      /\ ~e.sync => \A k \in Keys : View(k)' = Selected(k, e.rev)
  BY <1>1, <1>5, <1>6, <1>7, <1>8, Consume
<1>10. ViewFaithful'
  <2>1. SUFFICES ASSUME NEW n \in {Len(sent')} \ {0}, ~sent'[n].ev.sync,
                        NEW k \in Keys
                 PROVE  View(k)' = Selected(k, sent[n].ev.rev)'
    BY DEF ViewFaithful
  <2>2. sent'[n] = phand
    BY <1>1, AppendProperties DEF TInv, TypeOK
  <2>3. View(k)' = Selected(k, e.rev)
    BY <1>1, <1>9, <2>1, <2>2
  <2>4. PICK q \in Nat : q = e.rev /\ q <= Len(hist)
    BY <1>2 DEF Good, Grows
  <2>5. Selected(k, q)' = Selected(k, q)
    BY <2>4, SelectedSame
  <2>6. Selected(k, sent[n].ev.rev)' = Selected(k, q)'
    <3>1. sent'[n].ev.rev = q
      BY <1>1, <2>2, <2>4
    <3> QED
      BY <3>1 DEF Selected, Filter, AcceptAll, ValueAt, IsModRevision, WritesOf
  <2> QED
    BY <2>3, <2>4, <2>5, <2>6
<1> QED
  BY <1>9, <1>10 DEF VInv

\* An error shows nothing.
LEMMA ViewError ==
  ASSUME TInv, Grows, GInv, Ready, NEW r, PictureAt(r), CutStays(r),
         sent' = Append(sent, ErrorResult)
  PROVE  VInv'
<1>1. ErrorResult \in Results /\ ErrorResult.type = "ERROR"
  BY DEF ErrorResult, Results
<1>2. PICK x \in Results : x = ErrorResult
  BY <1>1
<1>3. \A k \in Keys : View(k)' = View(k)
  BY <1>1, <1>2, SentIsGood, ViewSend
<1>4. PictureAt(r)'
  BY <1>3, PictureStays
<1>5. \A n \in {Len(sent')} \ {0} : sent'[n].type = "ERROR"
  BY <1>1, AppendProperties DEF TInv, TypeOK
<1> QED
  BY <1>4, <1>5 DEF VInv, ViewFaithful

\* Every step preserves the picture, as long as the context is not done.
LEMMA NextView ==
  ASSUME TInv, TInv', OInv, GInv, VInv, [Next]_vars
  PROVE  VInv'
<1>1. Grows /\ (compacted' = compacted \/ compacted' # 0)
      /\ (cancelled => cancelled')
  BY NextGrows
<1>2. CASE ~Ready'
  BY <1>2 DEF VInv, ViewFaithful, Ready, Trusted
<1>3. CASE Ready'
  <2>1. Ready /\ Trusted /\ ~cancelled'
    BY <1>1, <1>3, TrustedBefore DEF Ready, Trusted, Grows
  <2>2. PICK r : PictureAt(r)
    BY <2>1 DEF VInv
  <2>3. IsCut(r)
    BY <2>2 DEF PictureAt
  <2>4. \/ SyncList /\ initialRev' = Len(hist) /\ todo' = LiveKeys
        \/ \E e : Dropped(e) \/ Shown(e)
        \/ CutStays(r) /\ sent' \in {sent, Append(sent, ErrorResult)}
    BY <2>1, <2>3, CutStep
  <2>5. CASE SyncList /\ initialRev' = Len(hist) /\ todo' = LiveKeys
    BY <1>1, <2>1, <2>5, ViewSyncList
  <2>6. ASSUME NEW e, Dropped(e) PROVE VInv'
    BY <1>1, <2>1, <2>6, ViewDropped
  <2>7. ASSUME NEW e, Shown(e) PROVE VInv'
    BY <1>1, <2>1, <2>7, ViewShown
  <2>8. CASE CutStays(r) /\ sent' = sent
    <3>1. \A k \in Keys : View(k)' = View(k)
      BY <1>1, <2>8, SentIsGood, ViewSame
    <3> QED
      BY <1>1, <2>1, <2>2, <2>8, <3>1, PictureStays, FaithfulStays DEF VInv
  <2>9. CASE CutStays(r) /\ sent' = Append(sent, ErrorResult)
    BY <1>1, <2>1, <2>2, <2>9, ViewError
  <2> QED
    BY <2>4, <2>5, <2>6, <2>7, <2>8, <2>9
<1> QED
  BY <1>2, <1>3

\* At first the pipe is empty, and so are the store and the picture.
LEMMA InitGood ==
  ASSUME Init
  PROVE  GInv /\ Pending = {} /\ IsCut(initialRev)
<1>1. /\ Len(sent) = 0 /\ Len(incoming) = 0 /\ Len(hist) = 0
      /\ nextRev = 0 /\ todo = {} /\ ppc = "select" /\ initialRev = call.rev
  BY EmptySeq DEF Init
<1>2. Pipe = {} /\ Pending = {}
  BY <1>1 DEF Init, Pipe, Pending, SentEvents, Queued, Offered, Held
<1>3. call.rev \in Nat /\ (wpc = "sync" => call.rev = 0)
  BY CallsAssumption DEF Init, CallRecords
<1>4. GInv
  BY <1>1, <1>2, <1>3 DEF GInv
<1>5. IsCut(initialRev)
  BY <1>1, <1>2, <1>3 DEF IsCut
<1> QED
  BY <1>2, <1>4, <1>5

LEMMA InitView ==
  ASSUME Init
  PROVE  VInv
<1>1. /\ Len(sent) = 0 /\ Len(hist) = 0 /\ todo = {} /\ Pending = {}
      /\ initialRev = call.rev /\ IsCut(initialRev)
  BY InitGood, EmptySeq DEF Init
<1>2. ASSUME Ready PROVE PictureAt(0)
  <2>1. IsCut(0)
    BY <1>1, <1>2 DEF Ready
  <2>2. ASSUME NEW k \in Keys PROVE View(k) = NoValue /\ Selected(k, 0) = NoValue
    <3>1. ResultsOf(k) = {} /\ WritesOf(k, 0) = {}
      BY <1>1 DEF ResultsOf, WritesOf
    <3> QED
      BY <3>1 DEF View, Selected, ValueAt
  <2> QED
    BY <2>1, <2>2 DEF PictureAt
<1> QED
  BY <1>1, <1>2 DEF VInv, ViewFaithful

\* Nothing is skipped between the listing and the watch, nor by the filter:
\* until its context is done, the user of a watch sees the store as of the
\* last result, whatever is written, listed, queued and left out on the way.
THEOREM FaithfulView == Spec => []ViewFaithful
<1>1. Init => OInv
  BY InitOrder
<1>2. TInv /\ OInv /\ [Next]_vars => OInv'
  BY NextOrder
<1>3. Init => GInv /\ VInv
  BY InitGood, InitView
<1>4. TInv /\ TInv' /\ OInv /\ OInv' /\ GInv /\ [Next]_vars => GInv'
  BY NextGInv
<1>5. TInv /\ TInv' /\ OInv /\ GInv /\ VInv /\ [Next]_vars => VInv'
  BY NextView
<1>6. VInv => ViewFaithful
  BY DEF VInv
<1> QED
  BY <1>1, <1>2, <1>3, <1>4, <1>5, <1>6, Typed, PTL DEF Spec
---------------------------------------------------------------------------
(***************************************************************************)
(* A watch is a feed (WatchFeed), whatever its filter and its call: the cut *)
(* of the pipe says which changes the user has been told of, and nothing    *)
(* that it would see lies between them and the cut.                         *)
(***************************************************************************)

\* The feed and the watch have the same words for the store.
FeedWords ==
  /\ Feed!Kinds = ResultTypes
  /\ \A k, r : /\ Feed!ValueAt(k, r) = ValueAt(k, r)
               /\ Feed!Selected(k, r) = Selected(k, r)

LEMMA SameWords == FeedWords
<1>1. Feed!Kinds = ResultTypes
  BY DEF Feed!Kinds, ResultTypes
<1>2. ASSUME NEW k, NEW r PROVE Feed!ValueAt(k, r) = ValueAt(k, r)
  BY DEF Feed!ValueAt, Feed!WritesOf, ValueAt, IsModRevision, WritesOf
<1>3. ASSUME NEW k, NEW r PROVE Feed!Selected(k, r) = Selected(k, r)
  <2>1. Feed!ValueAt(k, r) = ValueAt(k, r)
    BY <1>2
  <2> QED
    BY <2>1 DEF Feed!Selected, Selected, Filter, AcceptAll
<1> QED
  BY <1>1, <1>2, <1>3 DEF FeedWords

LEMMA BrokenIsLossy ==
  ASSUME TInv
  PROVE  Lossy <=> ~Trusted
  BY DEF Lossy, Trusted, TInv, TypeOK

---------------------------------------------------------------------------
(* The last result. *)

IsLastTold(i) == i \in Told /\ \A j \in Told : j <= i

\* It is what LastTold shows.
ToldOK ==
  /\ Told = {} => LastTold = Feed!Nothing
  /\ \A i \in 1..Len(sent) : IsLastTold(i) => LastTold = AsFeed(sent[i])

LEMMA ToldDef == ToldOK
<1> SUFFICES ASSUME NEW i \in 1..Len(sent), IsLastTold(i)
             PROVE  LastTold = AsFeed(sent[i])
  BY DEF ToldOK, LastTold, Feed!Nothing
<1> DEFINE c == CHOOSE j \in Told : \A l \in Told : l <= j
<1>1. c \in Told /\ \A l \in Told : l <= c
  BY DEF IsLastTold
<1>2. c = i
  <2> HIDE DEF c
  <2>1. c <= i /\ i <= c /\ c \in 1..Len(sent)
    BY <1>1 DEF IsLastTold, Told
  <2> QED
    BY <2>1
<1> QED
  BY <1>1, <1>2 DEF LastTold, IsLastTold

LEMMA SomeTold ==
  ASSUME TInv, Told # {}
  PROVE  \E i \in 1..Len(sent) : IsLastTold(i)
<1>1. Told \in SUBSET (1..Len(sent)) /\ Len(sent) \in Nat
  BY LenProperties DEF Told, TInv, TypeOK
<1> QED
  BY <1>1, LastExists DEF IsLastTold

\* A result about a revision that exists tells the same for ever.
LEMMA AsFeedSame ==
  ASSUME Grows, initialRev' = initialRev, NEW r, r.ev.rev \in 1..Len(hist)
  PROVE  AsFeed(r)' = AsFeed(r)
<1>1. hist'[r.ev.rev] = hist[r.ev.rev]
  BY DEF Grows
<1> QED
  BY <1>1 DEF AsFeed, CurObj

\* While no result is sent, the last stays as it was told.
LEMMA LastSame ==
  ASSUME TInv, Grows, SentExist, sent' = sent,
         initialRev' = initialRev \/ SentEvents = {}
  PROVE  LastTold' = LastTold
<1>1. Told' = Told /\ \A i : IsLastTold(i)' <=> IsLastTold(i)
  BY DEF Told, IsLastTold
<1>2. ToldOK /\ ToldOK'
  BY ToldDef, PTL
<1>3. CASE Told = {}
  BY <1>1, <1>2, <1>3 DEF ToldOK, Feed!Nothing
<1>4. CASE Told # {}
  <2>1. PICK i \in 1..Len(sent) : IsLastTold(i)
    BY <1>4, SomeTold
  <2>2. PICK x : x = sent[i]
    OBVIOUS
  <2>3. x.ev \in SentEvents /\ x.ev.rev \in 1..Len(hist)
    BY <2>1, <2>2 DEF IsLastTold, Told, SentEvents, SentExist
  <2>4. AsFeed(x)' = AsFeed(x)
    BY <2>3, AsFeedSame
  <2>5. LastTold = AsFeed(x)
    BY <1>2, <2>1, <2>2 DEF ToldOK
  <2>6. LastTold' = AsFeed(sent[i])'
    BY <1>1, <1>2, <2>1 DEF ToldOK
  <2>7. AsFeed(sent[i])' = AsFeed(x)'
    BY <2>2 DEF AsFeed, CurObj
  <2> QED
    BY <2>4, <2>5, <2>6, <2>7
<1> QED
  BY <1>3, <1>4

\* A result that is sent is the last, an error is not.
LEMMA LastSend ==
  ASSUME TInv, Grows, SentExist, NEW r \in Results, sent' = Append(sent, r),
         initialRev' = initialRev
  PROVE  /\ r.type = "ERROR" => LastTold' = LastTold /\ ErrorSent'
         /\ r.type # "ERROR" => /\ LastTold' = AsFeed(r)'
                                /\ ErrorSent' <=> ErrorSent
<1>0. PICK n \in Nat : n = Len(sent)
  BY LenProperties DEF TInv, TypeOK
<1>1. /\ Len(sent') = n + 1
      /\ \A i \in 1..n : sent'[i] = sent[i]
      /\ sent'[n + 1] = r
  BY <1>0, AppendProperties DEF TInv, TypeOK
<1>2. 1..Len(sent') = (1..n) \cup {n + 1}
  BY <1>1
<1>3. ToldOK /\ ToldOK'
  BY ToldDef, PTL
<1>4. ErrorSent' <=> ErrorSent \/ r.type = "ERROR"
  BY <1>0, <1>1, <1>2 DEF ErrorSent
<1>n. \A i, x : sent'[i] = x => AsFeed(sent[i])' = AsFeed(x)'
  BY DEF AsFeed, CurObj
<1>5. ASSUME r.type = "ERROR" PROVE LastTold' = LastTold
  <2>1. Told' = Told /\ \A i : IsLastTold(i)' <=> IsLastTold(i)
    <3>1. Told' = Told
      BY <1>0, <1>1, <1>2, <1>5 DEF Told
    <3> QED
      BY <3>1 DEF IsLastTold
  <2>2. CASE Told = {}
    BY <1>3, <2>1, <2>2 DEF ToldOK, Feed!Nothing
  <2>3. CASE Told # {}
    <3>1. PICK i \in 1..Len(sent) : IsLastTold(i)
      BY <2>3, SomeTold
    <3>2. PICK x : x = sent[i]
      OBVIOUS
    <3>3. i \in 1..Len(sent') /\ sent'[i] = x
      BY <1>0, <1>1, <1>2, <3>1, <3>2
    <3>4. LastTold' = AsFeed(sent[i])'
      BY <1>3, <2>1, <3>1, <3>3 DEF ToldOK
    <3>5. x.ev.rev \in 1..Len(hist)
      BY <3>1, <3>2 DEF SentExist, IsLastTold, Told
    <3>6. AsFeed(x)' = AsFeed(x)
      BY <3>5, AsFeedSame
    <3>7. LastTold = AsFeed(x)
      BY <1>3, <3>1, <3>2 DEF ToldOK
    <3> QED
      BY <1>n, <3>3, <3>4, <3>6, <3>7
  <2> QED
    BY <2>2, <2>3
<1>6. ASSUME r.type # "ERROR" PROVE LastTold' = AsFeed(r)'
  <2>1. n + 1 \in Told' /\ \A j \in Told' : j <= n + 1
    BY <1>1, <1>2, <1>6 DEF Told
  <2>2. IsLastTold(n + 1)'
    BY <2>1 DEF IsLastTold
  <2>3. n + 1 \in 1..Len(sent')
    BY <1>1, <1>2
  <2>4. LastTold' = AsFeed(sent[n + 1])'
    BY <1>3, <2>2, <2>3 DEF ToldOK
  <2> QED
    BY <1>1, <1>n, <2>4
<1> QED
  BY <1>4, <1>5, <1>6

\* It is about a key and a revision, that are numbers.
LEMMA ReachedNat ==
  ASSUME TInv
  PROVE  Feed!Reached \in Nat /\ LastTold.key \in Nat
<1>1. ToldOK /\ initialRev \in Nat
  BY ToldDef DEF TInv, TypeOK
<1>2. CASE Told = {}
  BY <1>1, <1>2 DEF ToldOK, Feed!Nothing, Feed!Reached
<1>3. CASE Told # {}
  <2>1. PICK i \in 1..Len(sent) : IsLastTold(i)
    BY <1>3, SomeTold
  <2>2. PICK x : x = sent[i]
    OBVIOUS
  <2>3. x.ev \in SentEvents /\ x.ev.rev \in Nat /\ x.ev.key \in Nat
    BY <2>1, <2>2, PipeTypes DEF IsLastTold, Told, SentEvents
  <2>4. LastTold = AsFeed(x)
    BY <1>1, <2>1, <2>2 DEF ToldOK
  <2> QED
    BY <1>1, <2>3, <2>4 DEF AsFeed, Feed!Reached
<1> QED
  BY <1>2, <1>3

\* What the user reached lies before every event that is still to come.
LEMMA ReachedBefore ==
  ASSUME TInv, GInv, NEW e, Good(e), Precede(SentEvents, {e})
  PROVE  /\ ~e.sync => Feed!Reached < e.rev
         /\ e.sync => /\ LastTold.kind \notin ResultTypes
                      /\ LastTold.kind = "LISTED" => LastTold.key < e.key
<1>1. ToldOK
  BY ToldDef
<1>2. CASE Told = {}
  <2>1. LastTold.kind = "none"
    BY <1>1, <1>2 DEF ToldOK, Feed!Nothing
  <2> QED
    BY <2>1 DEF Feed!Reached, Feed!Kinds, ResultTypes, Good
<1>3. CASE Told # {}
  <2>1. PICK i \in 1..Len(sent) : IsLastTold(i)
    BY <1>3, SomeTold
  <2>2. PICK x : x = sent[i]
    OBVIOUS
  <2>3. x.ev \in SentEvents /\ Good(x.ev) /\ Before(x.ev, e)
    BY <2>1, <2>2 DEF IsLastTold, Told, SentEvents, GInv, Pipe, Precede
  <2>4. LastTold = AsFeed(x)
    BY <1>1, <2>1, <2>2 DEF ToldOK
  <2>5. x.type \in ResultTypes
    <3>1. x \in Results /\ x.type # "ERROR"
      BY <2>1, <2>2, ElementOfSeq DEF IsLastTold, Told, TInv, TypeOK
    <3> QED
      BY <3>1 DEF Results
  <2> QED
    BY <2>3, <2>4, <2>5
    DEF AsFeed, Feed!Reached, Feed!Kinds, ResultTypes, Before, Good
<1> QED
  BY <1>2, <1>3
---------------------------------------------------------------------------
(* What there is to tell. *)

\* Only what is there is deleted.
LInv ==
  \A r \in 1..Len(hist) :
    hist[r].val = NoValue => ValueAt(hist[r].key, r - 1) # NoValue

LEMMA NextLInv ==
  ASSUME TInv, Grows, LInv, [Next]_vars
  PROVE  LInv'
<1> USE DEF etcdVars, wVars, pVars
<1> SUFFICES ASSUME NEW r \in 1..Len(hist'), hist'[r].val = NoValue
             PROVE  ValueAt(hist[r].key, r - 1)' # NoValue
  BY DEF LInv
<1>1. PICK k \in Keys : k = hist'[r].key
  <2>1. hist'[r] \in Writes
    BY ElementOfSeq DEF Grows
  <2> QED
    BY <2>1 DEF Writes
<1>2. PICK q \in Nat : q = r - 1 /\ q <= Len(hist)
  <2>1. Len(hist') \in {Len(hist), Len(hist) + 1}
    <3>1. CASE Write
      BY <3>1, AppendProperties DEF Write, Grows, Writes
    <3>2. CASE hist' = hist
      BY <3>2
    <3>3. Write \/ hist' = hist
      BY DEF Next, WStep, SyncList, SyncKey, StartWatch, WatchRecv, WatchErr,
             WatchEnd, SendEvent, WSendError, PNext, Transform, PSendError,
             Deliver, ProcessDone, RNext, RunSelect, DeliverError, RunCancel,
             CloseResult, Receive, Stop, Compact, CloseClient, vars
    <3> QED
      BY <3>1, <3>2, <3>3
  <2> QED
    BY <2>1 DEF Grows
<1>3. ValueAt(k, q)' = ValueAt(k, q)
  BY <1>2, ValueSame
<1>4. ValueAt(hist[r].key, r - 1)' = ValueAt(k, q)'
  BY <1>1, <1>2 DEF ValueAt, IsModRevision, WritesOf
<1>5. ValueAt(k, q) # NoValue
  <2>1. CASE r \in 1..Len(hist)
    <3>1. hist[r].val = NoValue /\ hist[r].key = k
      BY <1>1, <2>1 DEF Grows
    <3> QED
      BY <1>2, <2>1, <3>1 DEF LInv
  <2>2. CASE r \notin 1..Len(hist)
    <3>1. r = Len(hist) + 1 /\ q = Len(hist)
      BY <1>2, <2>2 DEF Grows
    <3>2. Write
      <4>1. hist' # hist
        BY <2>2
      <4> QED
        BY <4>1
        DEF Next, WStep, SyncList, SyncKey, StartWatch, WatchRecv, WatchErr,
            WatchEnd, SendEvent, WSendError, PNext, Transform, PSendError,
            Deliver, ProcessDone, RNext, RunSelect, DeliverError, RunCancel,
            CloseResult, Receive, Stop, Compact, CloseClient, vars
    <3>3. PICK w \in Writes :
            hist' = Append(hist, w) /\ (w.val = NoValue => w.key \in LiveKeys)
      BY <3>2 DEF Write, Writes
    <3>4. hist'[r] = w
      BY <3>1, <3>3, AppendProperties DEF Grows
    <3> QED
      BY <1>1, <3>1, <3>3, <3>4 DEF LiveKeys
  <2> QED
    BY <2>1, <2>2
<1> QED
  BY <1>3, <1>4, <1>5

\* A result has the kind that its revision has.
LEMMA KindFits ==
  ASSUME TInv, Trusted, LInv, NEW e, Good(e), ~e.sync
  PROVE  Feed!Kind(e.rev) = ResultType(e)
<1>1. FeedWords
  BY SameWords
<1>2. hist[e.rev].val = ValueAt(e.key, e.rev) /\ hist[e.rev].key = e.key
  BY ValueStep DEF Good, TInv, TypeOK
<1>3. ~AcceptAll => e.prev = ValueAt(e.key, e.rev - 1)
  BY DEF Good, Trusted
<1>4. hist[e.rev].val = NoValue => ValueAt(e.key, e.rev - 1) # NoValue
  BY <1>2 DEF LInv, Good
<1>5. Feed!Kind(e.rev) =
        LET was == Selected(e.key, e.rev - 1)
            is == Selected(e.key, e.rev)
        IN CASE was = NoValue /\ is # NoValue -> "ADDED"
             [] was # NoValue /\ is # NoValue -> "MODIFIED"
             [] was # NoValue /\ is = NoValue -> "DELETED"
             [] OTHER -> "none"
  BY <1>1, <1>2 DEF FeedWords, Feed!Kind
<1> DEFINE w == ValueAt(e.key, e.rev - 1)
           i == ValueAt(e.key, e.rev)
<1>6. NoValue \notin Passing
  BY ValuesAssumption
<1>7. /\ Selected(e.key, e.rev - 1) = IF AcceptAll \/ w \in Passing THEN w ELSE NoValue
      /\ Selected(e.key, e.rev) = IF AcceptAll \/ i \in Passing THEN i ELSE NoValue
  BY DEF Selected, Filter
<1>8. /\ IsDeleted(e) <=> i = NoValue
      /\ IsCreated(e) <=> w = NoValue
      /\ CurObj(e) = i
      /\ ~AcceptAll => OldObj(e) = w
  BY <1>2, <1>3 DEF IsDeleted, IsCreated, CurObj, OldObj
<1>9. i = NoValue => w # NoValue
  BY <1>2, <1>4
<1> HIDE DEF w, i
<1>10. CASE AcceptAll
  BY <1>5, <1>7, <1>8, <1>9, <1>10 DEF ResultType, Filter
<1>11. CASE ~AcceptAll
  BY <1>5, <1>6, <1>7, <1>8, <1>9, <1>11 DEF ResultType, Filter
<1> QED
  BY <1>10, <1>11

\* The kind of a revision stays what it is.
LEMMA KindSame ==
  ASSUME Grows, NEW r \in 1..Len(hist)
  PROVE  Feed!Kind(r)' = Feed!Kind(r)
<1>1. FeedWords /\ FeedWords'
  BY SameWords, PTL
<1>2. PICK k \in Keys : k = hist[r].key
  <2>1. hist[r] \in Writes
    BY ElementOfSeq DEF Grows
  <2> QED
    BY <2>1 DEF Writes
<1>3. hist'[r] = hist[r]
  BY DEF Grows
<1>4. /\ Selected(k, r)' = Selected(k, r)
      /\ Selected(k, r - 1)' = Selected(k, r - 1)
  <2>1. r \in Nat /\ r <= Len(hist)
    BY DEF Grows
  <2>2. PICK q \in Nat : q = r - 1 /\ q <= Len(hist)
    BY <2>1
  <2>3. Selected(k, q)' = Selected(k, q)
    BY <2>2, SelectedSame
  <2>4. Selected(k, r - 1)' = Selected(k, q)'
    BY <2>2 DEF Selected, Filter, AcceptAll, ValueAt, IsModRevision, WritesOf
  <2> QED
    BY <2>1, <2>2, <2>3, <2>4, SelectedSame
<1>5. /\ Feed!Selected(k, r) = Selected(k, r)
      /\ Feed!Selected(k, r - 1) = Selected(k, r - 1)
      /\ Feed!Selected(k, r)' = Selected(k, r)'
      /\ Feed!Selected(k, r - 1)' = Selected(k, r - 1)'
  BY <1>1 DEF FeedWords
<1>6. /\ Feed!Selected(hist[r].key, r)' = Feed!Selected(k, r)'
      /\ Feed!Selected(hist[r].key, r - 1)' = Feed!Selected(k, r - 1)'
  BY <1>2, <1>3 DEF Feed!Selected, Feed!ValueAt, Feed!WritesOf
<1> QED
  BY <1>2, <1>4, <1>5, <1>6 DEF Feed!Kind

---------------------------------------------------------------------------
(* What the user has been told of. *)

\* Nothing that the user sees lies between what it was told and the cut, and
\* what is left of the listing is on its way.
CaughtUp(r) ==
  /\ IsCut(r)
  /\ Feed!Reached <= r
  /\ \A q \in (Feed!Reached + 1)..r : q <= Len(hist) /\ Feed!Kind(q) = "none"
  /\ \A k \in Feed!Left : Unseen(k)

FInv == LInv /\ (Trusted => \E r : CaughtUp(r))

\* What is left of the listing, in the words of the watch.
LeftOver(k) ==
  /\ k \in Keys /\ call.rev = 0 /\ LastTold.kind \notin ResultTypes
  /\ Selected(k, initialRev) # NoValue
  /\ LastTold.kind = "LISTED" => LastTold.key < k

LeftWords == \A k : k \in Feed!Left <=> LeftOver(k)

LEMMA LeftIs == LeftWords
<1>1. FeedWords
  BY SameWords
<1> QED
  BY <1>1 DEF FeedWords, Feed!Left, LeftOver, LeftWords

\* It does not grow while the listing and the last result are the same.
LEMMA LeftSame ==
  ASSUME TInv, Grows, GInv, UNCHANGED initialRev, LastTold' = LastTold
  PROVE  \A k : LeftOver(k)' => LeftOver(k)
<1> SUFFICES ASSUME NEW k, LeftOver(k)' PROVE LeftOver(k)
  OBVIOUS
<1>1. k \in Keys /\ call.rev = 0
  BY DEF LeftOver, Grows
<1>2. PICK r \in Nat : r = initialRev /\ r <= Len(hist)
  BY <1>1 DEF GInv, TInv, TypeOK
<1>3. Selected(k, r)' = Selected(k, r)
  BY <1>1, <1>2, SelectedSame
<1>4. Selected(k, initialRev)' = Selected(k, r)'
  BY <1>2 DEF Selected, Filter, AcceptAll, ValueAt, IsModRevision, WritesOf
<1> QED
  BY <1>1, <1>2, <1>3, <1>4 DEF LeftOver

\* A step that tells nothing.
LEMMA CaughtUpStays ==
  ASSUME TInv, Grows, GInv, NEW r, CaughtUp(r), CutStays(r), LastTold' = LastTold
  PROVE  CaughtUp(r)'
<1>1. Feed!Reached' = Feed!Reached
  BY DEF Feed!Reached, Feed!Kinds, CutStays
<1>2. ASSUME NEW q \in (Feed!Reached + 1)..r
      PROVE  q <= Len(hist') /\ Feed!Kind(q)' = "none"
  <2>1. q <= Len(hist) /\ Feed!Kind(q) = "none"
    BY DEF CaughtUp
  <2>2. q \in 1..Len(hist)
    BY <2>1, ReachedNat DEF CaughtUp, IsCut
  <2>3. Feed!Kind(q)' = Feed!Kind(q)
    BY <2>2, KindSame
  <2> QED
    BY <2>1, <2>2, <2>3 DEF Grows
<1>n. LeftWords /\ LeftWords'
  BY LeftIs, PTL
<1>3. ASSUME NEW k \in Feed!Left'
      PROVE  Unseen(k)'
  <2>1. LeftOver(k)'
    BY <1>n DEF LeftWords
  <2>2. LeftOver(k)
    BY <2>1, LeftSame DEF CutStays
  <2>3. Unseen(k) /\ k \in Keys
    BY <1>n, <2>2 DEF CaughtUp, LeftOver, LeftWords
  <2> QED
    BY <2>3 DEF CutStays
<1> QED
  BY <1>1, <1>2, <1>3 DEF CaughtUp, CutStays
\* A listing leaves the user with all of it to be told.
LEMMA CaughtUpList ==
  ASSUME TInv, OInv, Grows, GInv, SyncList, initialRev' = Len(hist),
         todo' = LiveKeys
  PROVE  \E r : CaughtUp(r)'
<1>1. PICK n \in Nat : n = Len(hist)
  BY DEF Grows
<1>2. /\ IsCut(n)' /\ SentEvents = {} /\ UNCHANGED <<sent, hist, call>>
      /\ \A k \in Keys : ~Unseen(k)' => ValueAt(k, n) = NoValue
  BY <1>1, CutSyncList
<1>3. LastTold'.kind = "none"
  <2>1. Told' = {}
    BY <1>2 DEF Told, SentEvents
  <2>2. ToldOK'
    BY ToldDef, PTL
  <2> QED
    BY <2>1, <2>2 DEF ToldOK, Feed!Nothing
<1>4. Feed!Reached' = n
  BY <1>1, <1>3 DEF Feed!Reached, Feed!Kinds
<1>5. LeftWords'
  BY LeftIs, PTL
<1>6. ASSUME NEW k \in Feed!Left'
      PROVE  Unseen(k)'
  <2>1. LeftOver(k)'
    BY <1>5 DEF LeftWords
  <2>2. k \in Keys /\ Selected(k, initialRev)' # NoValue
    BY <2>1 DEF LeftOver
  <2>3. ValueAt(k, n) # NoValue
    BY <1>1, <1>2, <2>2
    DEF Selected, ValueAt, IsModRevision, WritesOf
  <2> QED
    BY <1>2, <2>2, <2>3
<1>7. CaughtUp(n)'
  BY <1>1, <1>2, <1>4, <1>6 DEF CaughtUp
<1> QED
  BY <1>7

\* An event that is dropped shows nothing to the user.
LEMMA CaughtUpDropped ==
  ASSUME TInv, OInv, Grows, GInv, Trusted, LInv, NEW r, CaughtUp(r),
         NEW e, Dropped(e)
  PROVE  \E q : CaughtUp(q)'
<1>1. Leaves(e) /\ ResultType(e) = "none" /\ sent' = sent /\ IsCut(r)
      /\ initialRev' = initialRev
  BY DEF Dropped, CaughtUp, Leaves
<1>2. Good(e) /\ e.key \in Keys /\ e.rev \in 1..Len(hist)
  BY <1>1 DEF GInv, Leaves, Pending, Pipe, Good
<1>3. LastTold' = LastTold
  BY <1>1, SentIsGood, LastSame
<1>4. Feed!Reached' = Feed!Reached /\ Feed!Reached \in Nat /\ r \in Nat
  BY <1>1, <1>3, ReachedNat DEF Feed!Reached, Feed!Kinds, IsCut
<1>5. ASSUME NEW q \in (Feed!Reached + 1)..r
      PROVE  q <= Len(hist') /\ Feed!Kind(q) = "none" /\ Feed!Kind(q)' = "none"
  <2>1. q <= Len(hist) /\ Feed!Kind(q) = "none"
    BY DEF CaughtUp
  <2>2. q \in 1..Len(hist)
    BY <1>4, <2>1
  <2> QED
    BY <2>1, <2>2, KindSame DEF Grows
<1>6. LeftWords /\ LeftWords'
  BY LeftIs, PTL
<1>7. ASSUME NEW k \in Feed!Left'
      PROVE  k \in Keys /\ Unseen(k) /\ LeftOver(k)
  <2>1. LeftOver(k)'
    BY <1>6 DEF LeftWords
  <2>2. LeftOver(k)
    BY <1>1, <1>3, <2>1, LeftSame
  <2> QED
    BY <1>6, <2>2 DEF CaughtUp, LeftOver, LeftWords
<1>8. CASE e.sync
  <2>1. /\ IsCut(r)'
        /\ \A k \in Keys : k # e.key => (Unseen(k)' <=> Unseen(k))
    BY <1>1, <1>8, CutMoves
  <2>2. Selected(e.key, initialRev) = NoValue
    BY <1>1, <1>2, <1>8, SyncFits
  <2>3. \A k \in Feed!Left' : Unseen(k)'
    BY <1>7, <2>1, <2>2 DEF LeftOver
  <2>4. CaughtUp(r)'
    BY <1>4, <1>5, <2>1, <2>3 DEF CaughtUp
  <2> QED
    BY <2>4
<1>9. CASE ~e.sync
  <2>1. /\ e.rev = r + 1 /\ IsCut(e.rev)'
        /\ \A k \in Keys : ~Unseen(k) /\ ~Unseen(k)'
    BY <1>1, <1>9, CutMoves
  <2>2. Feed!Kind(e.rev) = "none"
    BY <1>1, <1>2, <1>9, KindFits
  <2>3. Feed!Kind(e.rev)' = "none" /\ e.rev <= Len(hist')
    BY <1>2, <2>2, KindSame DEF Grows
  <2>4. PICK n : n = e.rev
    OBVIOUS
  <2>5. ASSUME NEW q \in (Feed!Reached + 1)..n
        PROVE  q <= Len(hist') /\ Feed!Kind(q)' = "none"
    <3>1. CASE q = n
      BY <2>3, <2>4, <3>1
    <3>2. CASE q # n
      <4>1. q \in (Feed!Reached + 1)..r
        BY <1>4, <2>1, <2>4, <3>2
      <4> QED
        BY <1>5, <4>1
    <3> QED
      BY <3>1, <3>2
  <2>6. Feed!Reached <= n
    BY <1>4, <2>1, <2>4 DEF CaughtUp
  <2>7. \A k \in Feed!Left' : FALSE
    BY <1>7, <2>1
  <2>8. CaughtUp(n)'
    BY <1>4, <2>1, <2>4, <2>5, <2>6, <2>7 DEF CaughtUp
  <2> QED
    BY <2>8
<1> QED
  BY <1>8, <1>9

\* What the user is told is the next it has to be told.
LEMMA CaughtUpShown ==
  ASSUME TInv, TInv', OInv, Grows, GInv, Trusted, LInv, NEW r, CaughtUp(r),
         NEW e, Shown(e)
  PROVE  \E q : CaughtUp(q)'
<1>1. /\ Leaves(e) /\ IsCut(r) /\ initialRev' = initialRev
      /\ phand.type = ResultType(e) /\ phand.ev = e
      /\ phand.type # "ERROR" /\ phand \in Results
      /\ sent' = Append(sent, phand) /\ phand' = phand
  BY DEF Shown, CaughtUp, Leaves
<1>2. Good(e) /\ e.key \in Keys /\ e.rev \in 1..Len(hist) /\ e.rev \in Nat
  BY <1>1, PipeTypes DEF GInv, Leaves, Pending, Pipe, Good
<1>3. phand.type \in ResultTypes
  BY <1>1 DEF Results
<1>4. /\ LastTold'.kind = IF e.sync THEN "LISTED" ELSE phand.type
      /\ LastTold'.key = e.key
      /\ LastTold'.rev = IF e.sync THEN initialRev ELSE e.rev
  <2>1. PICK x \in Results : x = phand
    BY <1>1
  <2>2. LastTold' = AsFeed(x)'
    BY <1>1, <2>1, SentIsGood, LastSend
  <2> QED
    BY <1>1, <2>1, <2>2 DEF AsFeed
<1>5. LeftWords /\ LeftWords'
  BY LeftIs, PTL
<1>6. r \in Nat /\ initialRev \in Nat
  BY <1>1 DEF IsCut, TInv, TypeOK
<1>7. CASE e.sync
  <2>1. /\ r = initialRev /\ IsCut(r)'
        /\ Unseen(e.key) /\ \A k \in Keys : k # e.key => (Unseen(k)' <=> Unseen(k))
    BY <1>1, <1>7, CutMoves
  <2>2. Feed!Reached' = r
    BY <1>1, <1>4, <1>7, <2>1 DEF Feed!Reached, Feed!Kinds
  <2>3. LastTold.kind \notin ResultTypes
        /\ (LastTold.kind = "LISTED" => LastTold.key < e.key)
    <3>1. Precede(SentEvents, {e})
      BY DEF Shown, Offered, OInv, Precede
    <3> QED
      BY <1>2, <1>7, <3>1, ReachedBefore
  <2>4. ASSUME NEW k \in Feed!Left'
        PROVE  Unseen(k)'
    <3>1. LeftOver(k)'
      BY <1>5 DEF LeftWords
    <3>2. k \in Keys /\ k > e.key /\ call.rev = 0
      BY <1>4, <1>7, <3>1 DEF LeftOver, Grows
    <3>3. PICK n \in Nat : n = initialRev /\ n <= Len(hist)
      BY <1>6, <3>2 DEF GInv
    <3>4. Selected(k, n)' = Selected(k, n)
      BY <3>2, <3>3, SelectedSame
    <3>5. Selected(k, initialRev)' = Selected(k, n)'
      BY <1>1, <3>3 DEF Selected, Filter, AcceptAll, ValueAt, IsModRevision, WritesOf
    <3>6. k \in Nat /\ e.key \in Nat
      BY <1>2, <3>2, KeysAssumption
    <3>7. LeftOver(k)
      <4>1. Selected(k, initialRev) # NoValue
        BY <3>1, <3>3, <3>4, <3>5 DEF LeftOver
      <4>2. LastTold.kind = "LISTED" => LastTold.key < k
        BY <2>3, <3>2, <3>6, ReachedNat
      <4> QED
        BY <2>3, <3>2, <4>1, <4>2 DEF LeftOver
    <3>8. Unseen(k) /\ k # e.key
      BY <1>5, <3>2, <3>6, <3>7 DEF CaughtUp, LeftWords
    <3> QED
      BY <2>1, <3>2, <3>8
  <2>5. CaughtUp(r)'
    BY <1>6, <2>1, <2>2, <2>4 DEF CaughtUp
  <2> QED
    BY <2>5
<1>8. CASE ~e.sync
  <2>1. PICK n \in Nat : n = e.rev /\ n <= Len(hist)
    BY <1>2 DEF Grows
  <2>2. IsCut(n)'
    <3>1. IsCut(e.rev)'
      BY <1>1, <1>8, CutMoves
    <3> QED
      BY <2>1, <3>1
  <2>3. Feed!Reached' = n
    BY <1>3, <1>4, <1>8, <2>1 DEF Feed!Reached, Feed!Kinds, ResultTypes
  <2>4. \A k \in Feed!Left' : FALSE
    BY <1>3, <1>4, <1>5, <1>8 DEF LeftWords, LeftOver
  <2>5. CaughtUp(n)'
    BY <2>1, <2>2, <2>3, <2>4 DEF CaughtUp
  <2> QED
    BY <2>5
<1> QED
  BY <1>7, <1>8

\* Every step keeps the user told of all that it has to know.
LEMMA NextFInv ==
  ASSUME TInv, TInv', OInv, GInv, FInv, [Next]_vars
  PROVE  FInv'
<1>1. Grows /\ (compacted' = compacted \/ compacted' # 0)
      /\ (cancelled => cancelled')
  BY NextGrows
<1>2. LInv /\ LInv'
  BY <1>1, NextLInv DEF FInv
<1>3. CASE ~Trusted'
  BY <1>2, <1>3 DEF FInv
<1>4. CASE Trusted'
  <2>1. Trusted /\ ~cancelled'
    BY <1>1, <1>4, TrustedBefore DEF Trusted
  <2>2. PICK r : CaughtUp(r)
    BY <2>1 DEF FInv
  <2>3. IsCut(r)
    BY <2>2 DEF CaughtUp
  <2>4. \/ SyncList /\ initialRev' = Len(hist) /\ todo' = LiveKeys
        \/ \E e : Dropped(e) \/ Shown(e)
        \/ CutStays(r) /\ sent' \in {sent, Append(sent, ErrorResult)}
    BY <2>1, <2>3, CutStep
  <2>5. CASE SyncList /\ initialRev' = Len(hist) /\ todo' = LiveKeys
    BY <1>1, <1>2, <2>5, CaughtUpList DEF FInv
  <2>6. ASSUME NEW e, Dropped(e) PROVE FInv'
    BY <1>1, <1>2, <2>1, <2>2, <2>6, CaughtUpDropped DEF FInv
  <2>7. ASSUME NEW e, Shown(e) PROVE FInv'
    BY <1>1, <1>2, <2>1, <2>2, <2>7, CaughtUpShown DEF FInv
  <2>8. CASE CutStays(r) /\ sent' \in {sent, Append(sent, ErrorResult)}
    <3>1. PICK x \in Results : x = ErrorResult /\ x.type = "ERROR"
      <4>1. ErrorResult \in Results /\ ErrorResult.type = "ERROR"
        BY DEF ErrorResult, Results
      <4> QED
        BY <4>1
    <3>2. LastTold' = LastTold
      BY <1>1, <2>8, <3>1, SentIsGood, LastSame, LastSend DEF CutStays
    <3>3. CaughtUp(r)'
      BY <1>1, <2>2, <2>8, <3>2, CaughtUpStays
    <3> QED
      BY <1>2, <3>3 DEF FInv
  <2> QED
    BY <2>4, <2>5, <2>6, <2>7, <2>8
<1> QED
  BY <1>3, <1>4

\* At first there is nothing to tell.
LEMMA InitFInv ==
  ASSUME Init
  PROVE  FInv /\ LastTold = Feed!Nothing
<1>1. /\ Len(sent) = 0 /\ Len(hist) = 0 /\ initialRev = call.rev
      /\ IsCut(initialRev) /\ initialRev \in Nat
  BY InitGood, EmptySeq DEF Init, IsCut
<1>2. Told = {} /\ LastTold = Feed!Nothing
  <2>1. Told = {}
    BY <1>1 DEF Told
  <2> QED
    BY <2>1, ToldDef DEF ToldOK
<1>3. Feed!Reached = initialRev
  BY <1>2 DEF Feed!Reached, Feed!Nothing, Feed!Kinds
<1>4. ASSUME NEW k \in Feed!Left PROVE FALSE
  <2>1. k \in Keys /\ call.rev = 0 /\ Selected(k, initialRev) # NoValue
    BY LeftIs DEF LeftWords, LeftOver
  <2>2. WritesOf(k, initialRev) = {}
    BY <1>1, <2>1 DEF WritesOf
  <2> QED
    BY <2>1, <2>2 DEF Selected, ValueAt
<1>5. CaughtUp(initialRev)
  BY <1>1, <1>3, <1>4 DEF CaughtUp
<1> QED
  BY <1>1, <1>2, <1>5 DEF FInv, LInv
---------------------------------------------------------------------------
(* The steps of the watch are steps of the feed. *)

\* What the steps that tell nothing leave alone.
Untold == /\ LastTold' = LastTold /\ (ErrorSent' <=> ErrorSent)
          /\ UNCHANGED <<closed, call, initialRev>>

LEMMA QuietStep ==
  ASSUME TInv, GInv, Grows, sent' = sent, UNCHANGED <<initialRev, closed>>
  PROVE  Untold
<1>1. LastTold' = LastTold
  BY SentIsGood, LastSame
<1> QED
  BY <1>1 DEF Untold, ErrorSent, Grows

\* Most steps tell the user nothing.
LEMMA FeedQuiet ==
  ASSUME TInv, GInv, Grows, UNCHANGED <<hist, compacted, clientClosed, call,
         cancelled, stopped, sent, closed, initialRev>>
  PROVE  UNCHANGED Feed!feedVars
<1>1. Untold
  BY QuietStep
<1>2. Lossy' <=> Lossy
  BY DEF Lossy, AcceptAll, Undecodable
<1> QED
  BY <1>1, <1>2 DEF Untold, Feed!feedVars

\* A write is a commit.
LEMMA FeedWrite ==
  ASSUME TInv, GInv, Grows, Write
  PROVE  Feed!FeedNext
<1> USE DEF etcdVars, wVars, pVars
<1>1. PICK k \in Keys, v \in Values \cup {NoValue} :
        /\ v = NoValue => k \in LiveKeys
        /\ hist' = Append(hist, [key |-> k, val |-> v])
  BY DEF Write
<1>2. /\ UNCHANGED <<compacted, clientClosed, call, cancelled, stopped, sent,
                     closed, initialRev>>
  BY DEF Write
<1>3. Untold
  BY <1>2, QuietStep
<1>4. v = NoValue => Feed!ValueAt(k, Len(hist)) # NoValue
  BY <1>1, SameWords DEF LiveKeys, FeedWords
<1>5. Lossy' <=> Lossy \/ v \in call.undecodable
  <2>1. PICK w \in Writes : w = [key |-> k, val |-> v]
    BY DEF Writes
  <2>2. /\ Len(hist') = Len(hist) + 1 /\ hist'[Len(hist) + 1] = w
        /\ \A i \in 1..Len(hist) : hist'[i] = hist[i]
    BY <1>1, <2>1, AppendProperties DEF Grows
  <2>3. 1..Len(hist') = (1..Len(hist)) \cup {Len(hist) + 1}
    BY <2>2 DEF Grows
  <2>4. (\E i \in 1..Len(hist') : hist'[i].val \in call.undecodable)
          <=> \/ \E i \in 1..Len(hist) : hist[i].val \in call.undecodable
              \/ v \in call.undecodable
    BY <2>1, <2>2, <2>3
  <2> QED
    BY <1>2, <2>4 DEF Lossy, AcceptAll, Undecodable
<1>6. Feed!Commit(k, v)
  BY <1>1, <1>2, <1>3, <1>4, <1>5 DEF Feed!Commit, Untold
<1> QED
  BY <1>6 DEF Feed!FeedNext

\* A result is told: a key of the listing, or a change; and the next one,
\* unless events may be lost.
LEMMA FeedDeliver ==
  ASSUME TInv, TInv', OInv, CInv, GInv, FInv, Grows, Deliver,
         sent' = Append(sent, phand)
  PROVE  Feed!FeedNext
<1> USE DEF etcdVars, wVars, pVars
<1>1. PICK e : Shown(e)
  BY CutDeliver
<1>2. /\ Leaves(e) /\ phand.type = ResultType(e) /\ phand.ev = e
      /\ phand.type # "ERROR" /\ phand \in Results /\ phand' = phand
      /\ UNCHANGED <<hist, compacted, clientClosed, call, cancelled, stopped,
                     closed, initialRev>>
      /\ ~closed
  BY <1>1 DEF Shown, Deliver, CInv
<1>3. /\ Good(e) /\ e.key \in Keys /\ e.rev \in 1..Len(hist)
      /\ Precede(SentEvents, {e}) /\ phand.type \in ResultTypes
  BY <1>1, <1>2
  DEF GInv, Leaves, Pending, Pipe, Good, Shown, Offered, OInv, Precede, Results
<1>4. /\ LastTold' = [kind |-> IF e.sync THEN "LISTED" ELSE phand.type,
                      key |-> e.key,
                      val |-> IF phand.type = "DELETED" THEN NoValue
                              ELSE hist[e.rev].val,
                      rev |-> IF e.sync THEN initialRev ELSE e.rev]
      /\ ErrorSent' <=> ErrorSent
  <2>1. PICK x \in Results : x = phand
    BY <1>2
  <2>2. LastTold' = AsFeed(x)' /\ (ErrorSent' <=> ErrorSent)
    BY <1>2, <2>1, SentIsGood, LastSend
  <2> QED
    BY <1>2, <2>1, <2>2 DEF AsFeed, CurObj
<1>5. Lossy' <=> Lossy
  BY <1>2 DEF Lossy, AcceptAll, Undecodable
<1>6. Lossy \/ (Trusted /\ \E r : CaughtUp(r))
  <2>1. Lossy <=> ~Trusted
    BY BrokenIsLossy
  <2>2. Trusted => \E r : CaughtUp(r)
    BY DEF FInv
  <2> QED
    BY <2>1, <2>2
<1>7. CASE e.sync
  <2>1. hist[e.rev].val = ValueAt(e.key, initialRev) /\ e.prev = hist[e.rev].val
        /\ hist[e.rev].val # NoValue
    <3>1. e.rev \in 1..initialRev
      BY <1>3, <1>7 DEF Good, IsModRevision, WritesOf
    <3> QED
      BY <1>3, <1>7, <3>1, ValueDef DEF ValueOK, Good, TInv, TypeOK
  <2>2. phand.type # "DELETED" /\ Selected(e.key, initialRev) = hist[e.rev].val
    BY <1>2, <1>3, <2>1, ValuesAssumption
    DEF ResultType, IsDeleted, Filter, CurObj, OldObj, Selected, ResultTypes
  <2>3. LastTold' = Feed!Listed(e.key)
    BY <1>4, <1>7, <2>2, SameWords DEF Feed!Listed, FeedWords
  <2>4. e.key \in Feed!Left
    <3>1. LastTold.kind \notin ResultTypes
          /\ (LastTold.kind = "LISTED" => LastTold.key < e.key)
      BY <1>3, <1>7, ReachedBefore
    <3>2. call.rev = 0
      BY <1>2, <1>7 DEF GInv, Leaves, Pending, Pipe
    <3>3. LeftOver(e.key)
      BY <1>3, <2>1, <2>2, <3>1, <3>2 DEF LeftOver
    <3> QED
      BY <3>3, LeftIs DEF LeftWords
  <2>5. Lossy \/ \A j \in Feed!Left : e.key <= j
    <3>1. SUFFICES ASSUME ~Lossy, NEW j \in Feed!Left PROVE e.key <= j
      OBVIOUS
    <3>2. Unseen(j) /\ j \in Keys
      BY <1>6, <3>1, LeftIs DEF CaughtUp, LeftWords, LeftOver
    <3>3. e.key \in Nat /\ j \in Nat
      BY <1>3, <3>2, KeysAssumption
    <3>4. CASE j \in todo
      <4>1. Passed(e)
        BY <1>2 DEF OInv, Leaves, Pending
      <4> QED
        BY <3>3, <3>4, <4>1 DEF Passed, GInv
    <3>5. CASE \E f \in Pending : f.sync /\ f.key = j
      BY <1>2, <3>3, <3>5 DEF Leaves, Precede, Before
    <3> QED
      BY <3>2, <3>4, <3>5 DEF Unseen
  <2>6. Feed!TellListed(e.key)
    BY <1>2, <1>4, <1>5, <2>3, <2>4, <2>5 DEF Feed!TellListed
  <2> QED
    BY <1>3, <2>6 DEF Feed!FeedNext
<1>8. CASE ~e.sync
  <2>1. e.rev \in (Feed!Reached + 1)..Len(hist)
    BY <1>3, <1>8, ReachedBefore, ReachedNat DEF Grows
  <2>2. hist[e.rev].key = e.key /\ phand.type \in Feed!Kinds
    BY <1>3, SameWords DEF Good, FeedWords
  <2>3. LastTold' = Feed!Change(e.rev, phand.type)
    BY <1>4, <1>8, <2>2 DEF Feed!Change
  <2>4. CASE Lossy
    <3>1. Feed!TellChange(e.rev)
      BY <1>2, <1>4, <1>5, <2>1, <2>2, <2>3, <2>4 DEF Feed!TellChange
    <3> QED
      BY <1>3, <3>1 DEF Feed!FeedNext
  <2>5. CASE ~Lossy
    <3>1. PICK r : CaughtUp(r)
      BY <1>6, <2>5
    <3>2. /\ e.rev = r + 1 /\ r \in Nat
          /\ \A k \in Keys : ~Unseen(k)
      BY <1>2, <1>8, <3>1, CutMoves DEF CaughtUp, IsCut
    <3>3. Feed!Left = {}
      BY <3>1, <3>2, LeftIs DEF CaughtUp, LeftWords, LeftOver
    <3>4. \A q \in (Feed!Reached + 1)..(e.rev - 1) : Feed!Kind(q) = "none"
      BY <3>1, <3>2 DEF CaughtUp
    <3>5. Feed!Kind(e.rev) = phand.type /\ phand.type # "none"
      BY <1>2, <1>3, <1>6, <1>8, <2>5, KindFits DEF FInv, ResultTypes
    <3>6. Feed!TellChange(e.rev)
      BY <1>2, <1>4, <1>5, <2>1, <2>3, <3>3, <3>4, <3>5 DEF Feed!TellChange
    <3> QED
      BY <1>3, <3>6 DEF Feed!FeedNext
  <2> QED
    BY <2>4, <2>5
<1> QED
  BY <1>7, <1>8

\* The error of run is told before the feed is over.
LEMMA FeedDeliverError ==
  ASSUME TInv, CInv, GInv, Grows, DeliverError, sent' = Append(sent, ErrorResult)
  PROVE  Feed!FeedNext
<1> USE DEF etcdVars, wVars, pVars
<1>1. /\ UNCHANGED <<hist, compacted, clientClosed, call, cancelled, stopped,
                     closed, initialRev>>
      /\ ~closed
  BY DEF DeliverError, CInv
<1>2. PICK x \in Results : x = ErrorResult /\ x.type = "ERROR"
  <2>1. ErrorResult \in Results /\ ErrorResult.type = "ERROR"
    BY DEF ErrorResult, Results
  <2> QED
    BY <2>1
<1>3. LastTold' = LastTold /\ ErrorSent'
  BY <1>1, <1>2, SentIsGood, LastSend
<1>4. Lossy' <=> Lossy
  BY <1>1 DEF Lossy, AcceptAll, Undecodable
<1>5. Feed!TellError
  BY <1>1, <1>3, <1>4 DEF Feed!TellError
<1> QED
  BY <1>5 DEF Feed!FeedNext

\* The listing is of the store as it is.
LEMMA FeedSyncList ==
  ASSUME TInv, OInv, GInv, Grows, SyncList
  PROVE  Feed!FeedNext \/ UNCHANGED Feed!feedVars
<1> USE DEF etcdVars, wVars, pVars
<1>1. /\ UNCHANGED <<hist, compacted, clientClosed, call, cancelled, stopped,
                     sent, closed>>
      /\ SentEvents = {} /\ call.rev = 0 /\ initialRev = 0
  BY DEF SyncList, OInv, WPhase, GInv
<1>2. LastTold' = LastTold /\ LastTold = Feed!Nothing
  <2>1. Told = {}
    BY <1>1 DEF Told, SentEvents
  <2> QED
    BY <1>1, <2>1, ToldDef, SentIsGood, LastSame DEF ToldOK
<1>3. Lossy' = Lossy /\ ErrorSent' = ErrorSent
  BY <1>1 DEF Lossy, AcceptAll, Undecodable, ErrorSent
<1>4. CASE initialRev' = Len(hist)
  <2>1. Feed!List
    BY <1>1, <1>2, <1>3, <1>4 DEF Feed!List
  <2> QED
    BY <2>1 DEF Feed!FeedNext
<1>5. CASE initialRev' = initialRev
  BY <1>1, <1>5, FeedQuiet
<1> QED
  BY <1>4, <1>5 DEF SyncList, WFail

\* The user leaves, the watch gives up and ends, the store is compacted.
LEMMA FeedEnds ==
  ASSUME TInv, TInv', CInv, DInv, GInv, Grows,
         Stop \/ CloseClient \/ RunCancel \/ CloseResult \/ Compact
  PROVE  Feed!FeedNext \/ UNCHANGED Feed!feedVars
<1> USE DEF etcdVars, wVars, pVars
<1>1. UNCHANGED <<hist, call, sent, initialRev>>
  BY DEF Stop, CloseClient, RunCancel, CloseResult, Compact
<1>2. LastTold' = LastTold /\ (ErrorSent' <=> ErrorSent)
  BY <1>1, SentIsGood, LastSame DEF ErrorSent
<1>3. CASE Stop
  <2>1. /\ stopped' /\ Lossy' /\ closed' = closed
    BY <1>3 DEF Stop, Lossy
  <2>2. Feed!Leave
    BY <1>1, <1>2, <2>1 DEF Feed!Leave
  <2> QED
    BY <2>2 DEF Feed!FeedNext
<1>4. CASE CloseClient
  <2>1. clientClosed' = TRUE /\ Lossy' = Lossy /\ closed' = closed
    BY <1>4 DEF CloseClient, Lossy, AcceptAll, Undecodable
  <2>2. Feed!Leave
    BY <1>1, <1>2, <2>1 DEF Feed!Leave
  <2> QED
    BY <2>2 DEF Feed!FeedNext
<1>5. CASE RunCancel
  <2>1. /\ Lossy' /\ UNCHANGED <<closed, stopped, clientClosed>>
    BY <1>5 DEF RunCancel, Lossy
  <2>2. Excused \/ ErrorSent
    BY <1>5 DEF RunCancel, DInv
  <2>3. Feed!Break
    BY <1>1, <1>2, <2>1, <2>2 DEF Feed!Break, Excused
  <2> QED
    BY <2>3 DEF Feed!FeedNext
<1>6. CASE CloseResult
  <2>1. /\ closed' = TRUE /\ ~closed /\ UNCHANGED <<stopped, clientClosed>>
        /\ Lossy' = Lossy
    BY <1>6 DEF CloseResult, CInv, Lossy, AcceptAll, Undecodable
  <2>2. Excused \/ ErrorSent
    BY <1>6 DEF CloseResult, DInv
  <2>3. Feed!End
    BY <1>1, <1>2, <2>1, <2>2 DEF Feed!End, Excused
  <2> QED
    BY <2>3 DEF Feed!FeedNext
<1>7. CASE Compact
  <2>1. /\ UNCHANGED <<closed, stopped, clientClosed, cancelled>>
        /\ compacted' > 0
    BY <1>7 DEF Compact, TInv, TypeOK
  <2>2. CASE AcceptAll
    <3>1. Lossy' <=> Lossy
      BY <1>1, <2>1, <2>2 DEF Lossy, AcceptAll, Undecodable
    <3> QED
      BY <1>1, <1>2, <2>1, <3>1 DEF Feed!feedVars
  <2>3. CASE ~AcceptAll
    <3>1. Lossy'
      BY <1>1, <2>1, <2>3 DEF Lossy, AcceptAll
    <3>2. Feed!Break
      BY <1>1, <1>2, <2>1, <2>3, <3>1 DEF Feed!Break, AcceptAll
    <3> QED
      BY <3>2 DEF Feed!FeedNext
  <2> QED
    BY <2>2, <2>3
<1> QED
  BY <1>3, <1>4, <1>5, <1>6, <1>7

\* Every step of the watch is one of the feed, or none.
LEMMA FeedStep ==
  ASSUME TInv, TInv', OInv, CInv, DInv, GInv, FInv, [Next]_vars
  PROVE  Feed!FeedNext \/ UNCHANGED Feed!feedVars
<1> USE DEF etcdVars, wVars, pVars
<1>1. Grows
  BY NextGrows
<1>2. CASE Write \/ SyncList
  BY <1>1, <1>2, FeedWrite, FeedSyncList
<1>3. CASE Stop \/ CloseClient \/ RunCancel \/ CloseResult \/ Compact
  BY <1>1, <1>3, FeedEnds
<1>4. CASE (Deliver \/ DeliverError) /\ sent' # sent
  <2>1. CASE Deliver
    <3>1. sent' = Append(sent, phand)
      BY <1>4, <2>1 DEF Deliver
    <3> QED
      BY <1>1, <2>1, <3>1, FeedDeliver
  <2>2. CASE DeliverError
    <3>1. sent' = Append(sent, ErrorResult)
      BY <1>4, <2>2 DEF DeliverError
    <3> QED
      BY <1>1, <2>2, <3>1, FeedDeliverError
  <2> QED
    BY <1>4, <2>1, <2>2
<1>5. CASE \/ (Deliver \/ DeliverError) /\ sent' = sent
           \/ SyncKey \/ StartWatch \/ WatchRecv \/ WatchErr \/ WatchEnd
           \/ SendEvent \/ WSendError \/ Transform \/ PSendError
           \/ ProcessDone \/ RunSelect \/ Receive \/ UNCHANGED vars
  <2>1. UNCHANGED <<hist, compacted, clientClosed, call, cancelled, stopped,
                    sent, closed, initialRev>>
    BY <1>5 DEF Deliver, DeliverError, SyncKey, StartWatch, WatchRecv, WatchErr,
                WatchEnd, SendEvent, WSendError, WFail, Transform, PSendError,
                ProcessDone, RunSelect, Receive, vars
  <2> QED
    BY <1>1, <2>1, FeedQuiet
<1> QED
  BY <1>2, <1>3, <1>4, <1>5 DEF Next, WStep, PNext, RNext

\* A watch gives what it promises: the selected objects of one revision, then
\* every change that the selection sees, in order and none of them twice, and
\* nothing is left out but after an error, for a user who left, or as far as
\* etcd has dropped what the filter needs; for every call and every history.
THEOREM KeepsPromise == Spec => FeedPromise
<1>1. Init => OInv /\ GInv /\ FInv /\ CInv /\ DInv
  BY InitOrder, InitGood, InitFInv DEF Init, CInv, DInv
<1>2. TInv /\ OInv /\ [Next]_vars => OInv'
  BY NextOrder
<1>3. TInv /\ TInv' /\ OInv /\ OInv' /\ GInv /\ [Next]_vars => GInv'
  BY NextGInv
<1>4. TInv /\ TInv' /\ OInv /\ GInv /\ FInv /\ [Next]_vars => FInv'
  BY NextFInv
<1>5. CInv /\ [Next]_vars => CInv'
  BY NextCInv
<1>6. TInv /\ DInv /\ [Next]_vars => DInv'
  BY NextDInv
<1>7. Init => Feed!FeedInit
  <2> SUFFICES ASSUME Init PROVE Feed!FeedInit
    OBVIOUS
  <2>1. LastTold = Feed!Nothing
    BY InitFInv
  <2>2. Len(sent) = 0 /\ Len(hist) = 0
    BY EmptySeq DEF Init
  <2>3. ErrorSent = FALSE
    BY <2>2 DEF ErrorSent
  <2>4. Lossy = FALSE
    BY <2>2 DEF Lossy, Init
  <2> QED
    BY <2>1, <2>3, <2>4 DEF Init, Feed!FeedInit
<1>8. /\ TInv /\ TInv' /\ OInv /\ CInv /\ DInv /\ GInv /\ FInv /\ [Next]_vars
      => [Feed!FeedNext]_(Feed!feedVars)
  BY FeedStep
<1> QED
  BY <1>1, <1>2, <1>3, <1>4, <1>5, <1>6, <1>7, <1>8, Typed, PTL
  DEF Spec, FeedPromise, Feed!FeedSpec
=============================================================================
