---------------------------- MODULE MetricReader ----------------------------
(***************************************************************************)
(* report/metric/reader.go: an io.Reader over a batch of metrics in line   *)
(* protocol, read with buffers of any size.  A metric that does not fit a  *)
(* buffer is split into lines of fewer fields or, when that does not help, *)
(* copied over several reads.                                              *)
(*                                                                         *)
(* A metric is the length of what every line of it repeats (name, tags,    *)
(* time, two spaces and a newline) and the lengths of its fields, a field  *)
(* being what Split takes for one: the bytes between unescaped commas.     *)
(* Counters start at 1 where they index a sequence, iSM counts the pieces  *)
(* that were read as it does in the code.                                  *)
(***************************************************************************)
EXTENDS Naturals, Sequences, SequencesExt

CONSTANTS Batches, \* the batches NewReader may be given
          Sizes    \* the sizes of the buffers Read may be given

ASSUME BatchesAssumption ==
  Batches \subseteq
    Seq([const : Nat \ {0}, fields : Seq(Nat \ {0}) \ {<<>>}]) \ {<<>>}
ASSUME SizesAssumption == Sizes \subseteq Nat \ {0}

VARIABLES
  metrics, \* r.metrics
  pieces,  \* r.splitMetrics
  buf,     \* r.buf: the line it holds
  state,   \* r.state
  iM, iSM, iB, \* r.iM, r.iSM, r.iB
  out      \* what was read: parts of lines, in order

readerVars == <<metrics, pieces, buf, state, iM, iSM, iB, out>>

---------------------------------------------------------------------------
(* metric.go *)

\* The line with the fields a to b of metric m.
Line(m, a, b) == [metric |-> m, first |-> a, last |-> b]
NumFields(m) == Len(metrics[m].fields)
Whole(m) == Line(m, 1, NumFields(m))

\* Fields a to b, with the commas between them.
FieldBytes(m, a, b) ==
  IF b < a THEN 0
  ELSE FoldLeft(LAMBDA s, n : s + n, b - a, SubSeq(metrics[m].fields, a, b))

LenOf(l) == metrics[l.metric].const + FieldBytes(l.metric, l.first, l.last)

\* A new line begins with the field that would fill the current one, if each
\* line has c more bytes than its fields.
Cut(m, maxSize, c) ==
  LET Take(s, j) ==
        IF /\ j > s.from
           /\ metrics[m].fields[j] + FieldBytes(m, s.from, j - 1) + c >= maxSize
        THEN [done |-> Append(s.done, Line(m, s.from, j - 1)), from |-> j]
        ELSE s
      all == FoldLeft(Take, [done |-> <<>>, from |-> 1],
                      [j \in 1..NumFields(m) |-> j])
  IN Append(all.done, Line(m, all.from, NumFields(m)))

\* Mutant: the rest of the line does not count.
SplitFieldsOnly(m, maxSize) ==
  IF LenOf(Whole(m)) <= maxSize THEN <<Whole(m)>> ELSE Cut(m, maxSize, 0)

Split(m, maxSize) ==
  IF LenOf(Whole(m)) <= maxSize THEN <<Whole(m)>>
  ELSE Cut(m, maxSize, metrics[m].const)

---------------------------------------------------------------------------
(* reader.go *)

\* Bytes from + 1 to to of a line, and all of it (SerializeTo).
Part(l, from, to) == [line |-> l, from |-> from, to |-> to]
All(l) == Part(l, 0, LenOf(l))

\* NewReader. buf is nil until a line overflows: no bytes of the first one.
ReaderInit ==
  /\ metrics \in Batches
  /\ pieces = <<>> /\ buf = Whole(1) /\ state = "normal"
  /\ iM = 1 /\ iSM = 0 /\ iB = 0
  /\ out = <<>>

\* The reader goes on with metric m, or is done.
GoTo(m) ==
  /\ iM' = m
  /\ state' = IF m > Len(metrics) THEN "done" ELSE "normal"

\* The lengths of metrics iM to m, which the buffer takes one by one.
Room(m) == FoldLeft(LAMBDA s, n : s + n, 0,
                    [k \in 1..(m + 1 - iM) |-> LenOf(Whole(iM + k - 1))])

\* State normal: the metrics that fit.
ReadWhole(p) ==
  /\ state = "normal" /\ LenOf(Whole(iM)) <= p
  /\ LET last == CHOOSE m \in iM..Len(metrics) :
           /\ Room(m) <= p
           /\ m < Len(metrics) => Room(m + 1) > p
     IN /\ GoTo(last + 1)
        /\ out' = out \o [k \in 1..(last + 1 - iM) |-> All(Whole(iM + k - 1))]
  /\ UNCHANGED <<metrics, pieces, buf, iSM, iB>>

\* State normal: none fits, but the first piece of the next one does.
ReadFirstPiece(p) ==
  LET new == Split(iM, p) IN
  /\ state = "normal" /\ LenOf(Whole(iM)) > p
  /\ Len(new) > 1 /\ LenOf(new[1]) <= p
  /\ pieces' = new /\ iSM' = 1 /\ state' = "split"
  /\ out' = Append(out, All(new[1]))
  /\ UNCHANGED <<metrics, buf, iM, iB>>

\* A line is written to r.buf and as much of it as fits is read.
Overflow(l, p, s) ==
  /\ buf' = l /\ iB' = iB + p /\ state' = s
  /\ out' = Append(out, Part(l, iB, iB + p))
  /\ UNCHANGED <<metrics, iM>>

\* State normal: the pieces do not fit either.
ReadOverflow(p) ==
  LET new == Split(iM, p) IN
  /\ state = "normal" /\ LenOf(Whole(iM)) > p
  /\ ~(Len(new) > 1 /\ LenOf(new[1]) <= p)
  /\ IF Len(new) > 1 THEN pieces' = new /\ iSM' = 0
                     ELSE UNCHANGED <<pieces, iSM>>
  /\ Overflow(Whole(iM), p, "overflow")

\* State split: the next piece, if it fits this buffer.
ReadPiece(p) ==
  LET l == pieces[iSM + 1] IN
  /\ state = "split" /\ LenOf(l) <= p
  /\ out' = Append(out, All(l))
  /\ IF iSM + 1 < Len(pieces)
     THEN iSM' = iSM + 1 /\ UNCHANGED <<iM, state>>
     ELSE iSM' = 0 /\ GoTo(iM + 1)
  /\ UNCHANGED <<metrics, pieces, buf, iB>>

ReadPieceOverflow(p) ==
  LET l == pieces[iSM + 1] IN
  /\ state = "split" /\ LenOf(l) > p
  /\ Overflow(l, p, "splitOverflow")
  /\ UNCHANGED <<pieces, iSM>>

\* Mutant: r.iB does not move on.
MoreStands(n) == UNCHANGED <<iM, iSM, iB, state, out>>

\* The buffer is smaller than the rest of the line.
More(n) ==
  /\ out' = Append(out, Part(buf, iB, iB + n)) /\ iB' = iB + n
  /\ UNCHANGED <<iM, iSM, state>>

\* Mutant: r.iB is not reset for the next line.
EndLineKeepsOffset ==
  /\ out' = Append(out, Part(buf, iB, LenOf(buf)))
  /\ IF state = "overflow" THEN GoTo(iM + 1) /\ UNCHANGED iSM
     ELSE /\ iSM' = iSM + 1
          /\ IF iSM + 1 = Len(pieces) THEN GoTo(iM + 1)
             ELSE state' = "split" /\ UNCHANGED iM
  /\ UNCHANGED iB

\* The rest of the line. iSM is not reset after the last piece; the next split
\* sets it.
EndLine ==
  /\ out' = Append(out, Part(buf, iB, LenOf(buf)))
  /\ IF state = "overflow" THEN GoTo(iM + 1) /\ UNCHANGED iSM
     ELSE /\ iSM' = iSM + 1
          /\ IF iSM + 1 = Len(pieces) THEN GoTo(iM + 1)
             ELSE state' = "split" /\ UNCHANGED iM
  /\ iB' = 0

\* States overflow and splitOverflow: more of the line in r.buf.
ReadRest(p) ==
  /\ state \in {"overflow", "splitOverflow"}
  /\ \/ p < LenOf(buf) - iB /\ More(p)
     \/ p >= LenOf(buf) - iB /\ EndLine
  /\ UNCHANGED <<metrics, pieces, buf>>

\* Read(p) with a buffer of p bytes; at the end it returns (0, io.EOF).
Read(p) ==
  \/ ReadWhole(p) \/ ReadFirstPiece(p) \/ ReadOverflow(p)
  \/ ReadPiece(p) \/ ReadPieceOverflow(p) \/ ReadRest(p)
  \/ state = "done" /\ UNCHANGED readerVars

---------------------------------------------------------------------------
(* Properties. *)

\* Where part t goes on after part s: in the same line, or at the beginning of
\* the line with the field after the last one of s.
Continues(s, t) ==
  IF s.to < LenOf(s.line) THEN t.line = s.line /\ t.from = s.to
  ELSE /\ t.from = 0
       /\ IF s.line.last < NumFields(s.line.metric)
          THEN t.line.metric = s.line.metric /\ t.line.first = s.line.last + 1
          ELSE t.line.metric = s.line.metric + 1 /\ t.line.first = 1

\* Whatever buffers a batch is read with, every line is read to its end before
\* the next begins, the lines carry every field of every metric once and in
\* order, and all of them have been read at io.EOF.
Faithful ==
  /\ out # <<>> => /\ out[1].from = 0 /\ out[1].line.metric = 1
                   /\ out[1].line.first = 1
  /\ \A i \in 1..(Len(out) - 1) : Continues(out[i], out[i + 1])
  /\ state = "done" =>
       LET s == out[Len(out)] IN
         /\ s.to = LenOf(s.line) /\ s.line.metric = Len(metrics)
         /\ s.line.last = NumFields(Len(metrics))

\* types.go: the metrics Split returns are no longer than maxSize, unless they
\* have a single field. (metrics does not change after NewReader.)
SplitFits ==
  out = <<>> => \A m \in DOMAIN metrics, p \in Sizes :
    \A i \in DOMAIN Split(m, p) :
      LET l == Split(m, p)[i] IN LenOf(l) <= p \/ l.first = l.last
=============================================================================
