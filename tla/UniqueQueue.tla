---------------------------- MODULE UniqueQueue ----------------------------
(***************************************************************************)
(* deploy/sync/unique_queue.go over status_pool.go: identities wait in a   *)
(* channel for a consumer; a table remembers which are waiting or worked   *)
(* on. The check of the table and the mark are two critical sections.      *)
(***************************************************************************)
EXTENDS Naturals, Sequences, FiniteSets

CONSTANTS Adders,    \* goroutines that call Add or AddFunc
          Consumers, \* goroutines that range over Queue()
          Names,     \* identities
          Adds,      \* the identities each adder may add
          Length,    \* queueLength
          NoId       \* not an identity

ASSUME LengthAssumption == Length \in Nat \ {0}
ASSUME NamesAssumption == NoId \notin Names
ASSUME AddsAssumption == Adds \in [Adders -> SUBSET Names]
ASSUME AddersAssumption == IsFiniteSet(Adders)

VARIABLES
  running, \* table.pool: the identities marked true
  queue,   \* the channel
  adding,  \* what each adder is adding, or NoId ...
  apc,     \* ... and where it is
  working  \* what each consumer has received and not removed, or NoId

queueVars == <<running, queue, adding, apc, working>>

QueueInit ==
  /\ running = {}
  /\ queue = <<>>
  /\ adding = [a \in Adders |-> NoId]
  /\ apc = [a \in Adders |-> "idle"]
  /\ working = [c \in Consumers |-> NoId]

\* AddFunc: Exist, under the read lock, answers no.
Check(a, i) ==
  /\ apc[a] = "idle" /\ i \notin running
  /\ adding' = [adding EXCEPT ![a] = i]
  /\ apc' = [apc EXCEPT ![a] = "mark"]
  /\ UNCHANGED <<running, queue, working>>

\* AddFunc: mark the identity, and run fn, under the table's lock.
Mark(a) ==
  /\ apc[a] = "mark"
  /\ running' = running \cup {adding[a]}
  /\ apc' = [apc EXCEPT ![a] = "send"]
  /\ UNCHANGED <<queue, adding, working>>

\* Mutant: AddFunc gives up on a full queue.
SendOrDrop(a) ==
  /\ apc[a] = "send"
  /\ queue' = IF Len(queue) < Length THEN Append(queue, adding[a]) ELSE queue
  /\ adding' = [adding EXCEPT ![a] = NoId]
  /\ apc' = [apc EXCEPT ![a] = "idle"]
  /\ UNCHANGED <<running, working>>

\* AddFunc: the channel may be full; nothing is locked meanwhile.
Send(a) ==
  /\ apc[a] = "send" /\ Len(queue) < Length
  /\ queue' = Append(queue, adding[a])
  /\ adding' = [adding EXCEPT ![a] = NoId]
  /\ apc' = [apc EXCEPT ![a] = "idle"]
  /\ UNCHANGED <<running, working>>

\* Mutant: the mark is removed when the identity leaves the channel.
ReceiveUnmarks(c) ==
  /\ working[c] = NoId /\ queue # <<>>
  /\ working' = [working EXCEPT ![c] = Head(queue)]
  /\ queue' = Tail(queue)
  /\ running' = running \ {Head(queue)}
  /\ UNCHANGED <<adding, apc>>

\* A consumer takes the next identity from Queue() ...
Receive(c) ==
  /\ working[c] = NoId /\ queue # <<>>
  /\ working' = [working EXCEPT ![c] = Head(queue)]
  /\ queue' = Tail(queue)
  /\ UNCHANGED <<running, adding, apc>>

\* Mutant: the mark is not removed.
RemoveNothing(c) ==
  /\ working[c] # NoId
  /\ working' = [working EXCEPT ![c] = NoId]
  /\ UNCHANGED <<running, queue, adding, apc>>

\* ... and removes it when its work is done.
Remove(c) ==
  /\ working[c] # NoId
  /\ running' = running \ {working[c]}
  /\ working' = [working EXCEPT ![c] = NoId]
  /\ UNCHANGED <<queue, adding, apc>>

QueueNext ==
  \/ \E a \in Adders : Mark(a) \/ Send(a) \/ \E i \in Adds[a] : Check(a, i)
  \/ \E c \in Consumers : Receive(c) \/ Remove(c)

QueueSpec == QueueInit /\ [][QueueNext]_queueVars

\* Goroutines run on; a consumer finishes its work; senders to a channel and
\* receivers from it are served in the order they came.
QueueFairness ==
  /\ \A a \in Adders : WF_queueVars(Mark(a)) /\ SF_queueVars(Send(a))
  /\ \A c \in Consumers : SF_queueVars(Receive(c)) /\ WF_queueVars(Remove(c))

---------------------------------------------------------------------------
(* Properties. *)

InLine(i) == {n \in 1..Len(queue) : queue[n] = i}
Sending(i) == {a \in Adders : apc[a] = "send" /\ adding[a] = i}
Working(i) == {c \in Consumers : working[c] = i}

\* An identity marked running is really on its way: an adder is sending it, it
\* is in line, or a consumer works on it. A mark that outlived its task would
\* make AddFunc discard every later task of that identity, forever.
NoStaleMark ==
  \A i \in running : Sending(i) \cup InLine(i) \cup Working(i) # {}

\* An identity that only one goroutine adds keeps what the queue's comment
\* promises, whatever is added beside it: it is in line once, and not while a
\* consumer still works on it.
OneInLine ==
  \A i \in Names :
    Cardinality({a \in Adders : i \in Adds[a]}) = 1 =>
      Cardinality(Sending(i)) + Cardinality(InLine(i))
      + Cardinality(Working(i)) <= 1

\* An identity that passed the check is worked on in the end.
WorkedOn ==
  \A i \in Names :
    (\E a \in Adders : apc[a] = "mark" /\ adding[a] = i)
      ~> \E c \in Consumers : working[c] = i

=============================================================================
