----------------------------- MODULE WatchFeed -----------------------------
(***************************************************************************)
(* What the user of a watch takes it for (the comments of Interface in      *)
(* registry/watch/watcher.go and of Watch in registry/generic/store.go):    *)
(* the objects that it selects as they were at one revision, in the order   *)
(* of keys, and then every later change that the selection sees, one by one *)
(* and in order.  Changes are left out only when the user was told of an    *)
(* error or has left, when an object does not fit the type, or when a       *)
(* filter asks for a value that etcd has dropped.                           *)
(***************************************************************************)
EXTENDS Naturals, Sequences

CONSTANTS Keys, Values, NoValue, Passing, Calls

VARIABLES log,     \* the writes to the store: log[r] made revision r
          call,    \* what the user asked for
          start,   \* the revision of the listing, or the one it asked for
          last,    \* the last result it was given, other than an error
          failed,  \* it was given an error
          excused, \* it has left, or the client was closed
          broken,  \* changes may be left out
          over     \* the feed has ended

feedVars == <<log, call, start, last, failed, excused, broken, over>>

---------------------------------------------------------------------------
(* What there is to tell. *)

WritesOf(k, r) == {i \in 1..r : i <= Len(log) /\ log[i].key = k}
ValueAt(k, r) ==
  IF WritesOf(k, r) = {} THEN NoValue
  ELSE log[CHOOSE m \in 1..r :
             m \in WritesOf(k, r) /\ \A j \in WritesOf(k, r) : j <= m].val

\* The object of k that the user sees at revision r.
Selected(k, r) ==
  IF call.acceptAll \/ ValueAt(k, r) \in Passing THEN ValueAt(k, r) ELSE NoValue

\* How the user sees the change of revision r.
Kind(r) ==
  LET was == Selected(log[r].key, r - 1)
      is == Selected(log[r].key, r)
  IN CASE was = NoValue /\ is # NoValue -> "ADDED"
       [] was # NoValue /\ is # NoValue -> "MODIFIED"
       [] was # NoValue /\ is = NoValue -> "DELETED"
       [] OTHER -> "none"
Kinds == {"ADDED", "MODIFIED", "DELETED"}

Nothing == [kind |-> "none", key |-> 0, val |-> NoValue, rev |-> 0]
Listed(k) == [kind |-> "LISTED", key |-> k, val |-> Selected(k, start), rev |-> start]
Change(r, kind) ==
  [kind |-> kind, key |-> log[r].key,
   val |-> IF kind = "DELETED" THEN NoValue ELSE log[r].val, rev |-> r]

\* The revision that the user knows of, and the keys still to be listed.
Reached == IF last.kind \in Kinds THEN last.rev ELSE start
Left ==
  {k \in Keys : /\ call.rev = 0 /\ last.kind \notin Kinds
                /\ Selected(k, start) # NoValue
                /\ last.kind = "LISTED" => last.key < k}

---------------------------------------------------------------------------
FeedInit ==
  /\ log = <<>> /\ call \in Calls /\ start = call.rev /\ last = Nothing
  /\ failed = FALSE /\ excused = FALSE /\ broken = FALSE /\ over = FALSE

\* The store is written by anybody; an object may not fit the user's type.
Commit(k, v) ==
  /\ v = NoValue => ValueAt(k, Len(log)) # NoValue
  /\ log' = Append(log, [key |-> k, val |-> v])
  /\ broken' = (broken \/ v \in call.undecodable)
  /\ UNCHANGED <<call, start, last, failed, excused, over>>

\* The listing is of the store as it is.
List ==
  /\ call.rev = 0 /\ start = 0 /\ last = Nothing
  /\ start' = Len(log)
  /\ UNCHANGED <<log, call, last, failed, excused, broken, over>>

TellListed(k) ==
  /\ ~over /\ k \in Left
  /\ broken \/ \A j \in Left : k <= j
  /\ last' = Listed(k)
  /\ UNCHANGED <<log, call, start, failed, excused, broken, over>>

\* The next change that the user sees.
TellChange(r) ==
  /\ ~over /\ r \in (Reached + 1)..Len(log)
  /\ \/ /\ Left = {} /\ \A q \in (Reached + 1)..(r - 1) : Kind(q) = "none"
        /\ Kind(r) # "none" /\ last' = Change(r, Kind(r))
     \/ broken /\ \E kind \in Kinds : last' = Change(r, kind)
  /\ UNCHANGED <<log, call, start, failed, excused, broken, over>>

TellError ==
  /\ ~over /\ failed' = TRUE
  /\ UNCHANGED <<log, call, start, last, excused, broken, over>>

\* The user leaves, or the client is closed.
Leave ==
  /\ excused' = TRUE /\ broken' \in {broken, TRUE}
  /\ UNCHANGED <<log, call, start, last, failed, over>>

Break ==
  /\ failed \/ excused \/ ~call.acceptAll
  /\ broken' = TRUE
  /\ UNCHANGED <<log, call, start, last, failed, excused, over>>

End ==
  /\ ~over
  /\ failed \/ excused
  /\ over' = TRUE
  /\ UNCHANGED <<log, call, start, last, failed, excused, broken>>

FeedNext ==
  \/ \E k \in Keys : TellListed(k) \/ \E v \in Values \cup {NoValue} : Commit(k, v)
  \/ \E r \in 1..Len(log) : TellChange(r)
  \/ List \/ TellError \/ Leave \/ Break \/ End

FeedSpec == FeedInit /\ [][FeedNext]_feedVars
=============================================================================
