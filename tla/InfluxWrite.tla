----------------------------- MODULE InfluxWrite -----------------------------
(***************************************************************************)
(* report/client.go: InfluxDB.Write offers a batch of metrics to the       *)
(* servers of the cluster in a random order until one takes it.  All of    *)
(* them read from one reader (report/influx/http.go: the body of the       *)
(* request), which goes on where the last one stopped.                     *)
(***************************************************************************)
EXTENDS MetricReader, FiniteSets

CONSTANTS Servers, None

ASSUME ServersAssumption == IsFiniteSet(Servers) /\ None \notin Servers

VARIABLES
  tried,  \* the servers Write has gone to
  cur,    \* the one it is at
  pc,     \* "loop", "send", "sent" or what Write returned: "ok", "error"
  db,     \* the servers that have the database
  taken,  \* Len(out) when the current request began
  stored, \* the parts of lines each server has taken in
  dropped \* a server had a conflict of field types

writeVars == <<tried, cur, pc, db, taken, stored, dropped>>
vars == <<readerVars, writeVars>>

\* Connect creates the database on every server, and only logs where it fails.
Init ==
  /\ ReaderInit
  /\ tried = {} /\ cur = None /\ pc = "loop"
  /\ db \in SUBSET Servers
  /\ taken = 0 /\ stored = [s \in Servers |-> <<>>] /\ dropped = FALSE

Body == SubSeq(out, taken + 1, Len(out))

\* Mutant: a reader of its own for every server.
TryAnew(s) ==
  /\ pc = "loop" /\ s \notin tried
  /\ tried' = tried \cup {s} /\ cur' = s /\ pc' = "send" /\ taken' = Len(out)
  /\ state' = "normal" /\ iM' = 1 /\ iSM' = 0 /\ iB' = 0
  /\ UNCHANGED <<metrics, pieces, buf, out, db, stored, dropped>>

\* Write: the next server of the permutation; WriteStream begins.
Try(s) ==
  /\ pc = "loop" /\ s \notin tried
  /\ tried' = tried \cup {s} /\ cur' = s /\ pc' = "send" /\ taken' = Len(out)
  /\ UNCHANGED <<readerVars, db, stored, dropped>>

\* net/http reads the body until io.EOF.
Send ==
  /\ pc = "send"
  /\ \E p \in Sizes : Read(p)
  /\ pc' = IF state' = "done" THEN "sent" ELSE "send"
  /\ UNCHANGED <<tried, cur, db, taken, stored, dropped>>

\* The server has all of the body and takes the points in.
Stores == stored' = [stored EXCEPT ![cur] = Body]

\* It answers 204: Write returns nil.
Accept ==
  /\ pc = "sent" /\ cur \in db
  /\ Stores
  /\ pc' = "ok"
  /\ UNCHANGED <<readerVars, tried, cur, db, taken, dropped>>

\* A connection that fails, a timeout, an answer with another error. The server
\* may have taken in what it had received in full, its answer being lost.
Fail ==
  /\ pc \in {"send", "sent"}
  /\ \/ UNCHANGED stored
     \/ pc = "sent" /\ cur \in db /\ Stores
  /\ pc' = "loop"
  /\ UNCHANGED <<readerVars, tried, cur, db, taken, dropped>>

\* "database not found": Write has it created, or fails to, and in either case
\* goes on with the next server.
NotFound ==
  /\ pc \in {"send", "sent"} /\ cur \notin db
  /\ db' \in {db, db \cup {cur}}
  /\ pc' = "loop"
  /\ UNCHANGED <<readerVars, tried, cur, taken, stored, dropped>>

\* "field type conflict": the server keeps the points without one, and Write
\* returns nil, dropping the others.
Conflict ==
  /\ pc = "sent" /\ cur \in db
  /\ Stores
  /\ dropped' = TRUE /\ pc' = "ok"
  /\ UNCHANGED <<readerVars, tried, cur, db, taken>>

\* Every server failed.
Exhausted ==
  /\ pc = "loop" /\ tried = Servers
  /\ pc' = "error"
  /\ UNCHANGED <<readerVars, tried, cur, db, taken, stored, dropped>>

Next ==
  \/ \E s \in Servers : Try(s)
  \/ Send \/ Accept \/ Fail \/ NotFound \/ Conflict \/ Exhausted

Spec == Init /\ [][Next]_vars

\* net/http reads on as long as the connection holds.
FairSpec == Spec /\ WF_vars(Send)

---------------------------------------------------------------------------
(* Properties. *)

\* The fields a server has taken in: of the lines it got the first byte of.
Fields(s) ==
  LET starts == {i \in DOMAIN stored[s] : stored[s][i].from = 0}
      FieldsOf(l) == {<<l.metric, j>> : j \in l.first..l.last}
  IN UNION {FieldsOf(stored[s][i].line) : i \in starts}
AllFields == UNION {{<<m, j>> : j \in 1..NumFields(m)} : m \in DOMAIN metrics}

\* No field is taken in by two servers, even if the first one's answer was
\* lost and Write went on to the next.
AtMostOnce ==
  \A s, t \in Servers : s # t => Fields(s) \cap Fields(t) = {}

\* A request whose connection holds comes to its end: the reader reaches
\* io.EOF with buffers of any size.
BodyEnds == pc = "send" ~> pc # "send"

\* client.go: Write goes from server to server until a successful write occurs
\* and returns an error if all fail; one that returns nil has been taken in.
OkIsTaken ==
  pc = "ok" /\ ~dropped => UNION {Fields(s) : s \in Servers} = AllFields
=============================================================================
