------------------------------ MODULE MCReport ------------------------------
(* Small instances of how metrics reach InfluxDB: batches of them written   *)
(* over HTTP, and single metrics edited in their wire form.  The two share  *)
(* no state, so a behaviour uses one of them.                               *)
EXTENDS InfluxWrite, LineParser, TLC

CONSTANTS s1, s2, nil \* model values

TwoServers == {s1, s2}

Metric(c, fs) == [const |-> c, fields |-> fs]

\* A metric of three fields between two of one, one that splits evenly, and a
\* single field.
SomeBatches == {
  <<Metric(5, <<3>>), Metric(6, <<3, 30, 4>>), Metric(5, <<4>>)>>,
  <<Metric(5, <<3, 3, 3, 3>>), Metric(6, <<3, 4>>)>>,
  <<Metric(5, <<12>>)>>}

\* Buffers smaller than any line, for one or two fields, and for two metrics.
SomeSizes == {6, 11, 13, 22}

SomeBytes == {Comma, Quote, " ", "=", Backslash, "-", "0", "1", "a", "b", "e", "i",
              "m", "r", "t", "u", "v", "x", "y"}

\* Texts with every character that the line protocol treats specially.
TwoNames == {<<"m">>, <<"m", Comma, " ", "=", Backslash, "x">>}
TwoTagKeys == {<<"a">>, <<"b", "=", Quote>>}
TwoTagValues == {<<"v", Comma, " ">>, <<Quote, Backslash, "1">>}
TwoFieldKeys == {<<"x">>, <<"y", Comma, "=", " ", Quote>>}
FieldValue(k, text) == [kind |-> k, text |-> text]
SomeFieldValues == {
  FieldValue("string", <<"v", Comma, " ", "=">>), FieldValue("string", <<Quote, "1">>),
  FieldValue("number", <<"-", "1", "i">>), FieldValue("boolean", <<"t", "r", "u", "e">>)}
OneField == <<<<"x">>, FieldValue("boolean", <<"t", "r", "u", "e">>)>>
SomeNow == <<"1", "0">>

VARIABLE used

reportVars == <<vars, metricVars, used>>

\* What is not used has one initial state.
ReportInit ==
  /\ used \in {"output", "metric"}
  /\ Init /\ (used # "output" => metrics = <<Metric(5, <<12>>)>> /\ db = {})
  /\ MetricInit /\ (used # "metric" => metric = New(<<"m">>, <<>>, <<OneField>>, Now))

ReportNext ==
  \/ used = "output" /\ Next /\ UNCHANGED <<metricVars, used>>
  \/ used = "metric" /\ MetricNext /\ UNCHANGED <<vars, used>>

ReportSpec == ReportInit /\ [][ReportNext]_reportVars

\* The client keeps sending; nothing else is owed.
ReportFairSpec == ReportSpec /\ WF_vars(Send)
=============================================================================
