---------------------------- MODULE MetricObject ----------------------------
(***************************************************************************)
(* report/metric/metric.go: one metric that its user builds, changes and    *)
(* reads, beside the map of tags and the map of fields that the user takes  *)
(* it for.                                                                  *)
(***************************************************************************)
EXTENDS LineProtocol

CONSTANTS Bytes,    \* what texts are made of
          Names, TagKeys, TagValues, FieldKeys, FieldValues, \* texts and values
          Now,      \* the time, in digits
          MaxCalls  \* calls after New

ASSUME BytesAssumption == KeyChars \cup {Backslash} \subseteq Bytes

\* A text in which no backslash precedes one of chars or ends the text.
Plain(s, chars) ==
  /\ s \in Seq(Bytes)
  /\ \A i \in DOMAIN s : s[i] = Backslash => i < Len(s) /\ s[i + 1] \notin chars

\* The text of a number or a boolean.
Bare(s) ==
  /\ s \in Seq(Bytes) \ {<<>>} /\ s[1] \in Unquoted
  /\ \A i \in DOMAIN s : s[i] \notin {Comma, Backslash}

\* What the line protocol can carry: empty tags it cannot, nor a backslash in
\* front of what is escaped. RemoveTag needs that no tag key ends another one.
ASSUME TextsAssumption ==
  /\ Names \subseteq Seq(Bytes)
  /\ IsFiniteSet(TagKeys) /\ IsFiniteSet(FieldKeys)
  /\ \A s \in TagKeys \cup TagValues : s # <<>> /\ Plain(s, KeyChars)
  /\ \A k, l \in TagKeys : \A i \in 2..Len(l) : From(l, i) # k
  /\ \A s \in FieldKeys : Plain(s, KeyChars)
  /\ \A v \in FieldValues : /\ v.kind = "string" => Plain(v.text, ValueChars)
                            /\ v.kind # "string" => Bare(v.text)

VARIABLES metric,  \* the object
          named, tagged, fielded, \* the name, tags and fields it should have
          calls,   \* how many calls there were after New
          removed  \* a field was removed

metricVars == <<metric, named, tagged, fielded, calls, removed>>

\* New, the maps being given in some order.
MetricInit ==
  /\ named \in Names
  /\ \E ks \in SUBSET TagKeys : tagged \in [ks -> TagValues]
  /\ \E ks \in (SUBSET FieldKeys) \ {{}} : fielded \in [ks -> FieldValues]
  /\ \E ts \in SetToSeqs({<<k, tagged[k]>> : k \in DOMAIN tagged}) :
       \E fs \in SetToSeqs({<<k, fielded[k]>> : k \in DOMAIN fielded}) :
         metric = New(named, ts, fs, Now)
  /\ calls = 0 /\ removed = FALSE

Call(m) == calls < MaxCalls /\ calls' = calls + 1 /\ metric' = m

With(map, k, v) == [x \in DOMAIN map \cup {k} |-> IF x = k THEN v ELSE map[x]]
Without(map, k) == [x \in DOMAIN map \ {k} |-> map[x]]

CallAddTag(k, v) ==
  /\ Call(AddTag(metric, k, v)) /\ tagged' = With(tagged, k, v)
  /\ UNCHANGED <<named, fielded, removed>>
CallRemoveTag(k) ==
  /\ Call(RemoveTag(metric, k)) /\ tagged' = Without(tagged, k)
  /\ UNCHANGED <<named, fielded, removed>>
CallAddField(k, v) ==
  /\ Call(AddField(metric, k, v)) /\ fielded' = With(fielded, k, v)
  /\ UNCHANGED <<named, tagged, removed>>
CallRemoveField(k) ==
  /\ Call(RemoveField(metric, k)) /\ removed' = TRUE
  /\ UNCHANGED <<named, tagged, fielded>>

CallSetName(s) ==
  /\ Call(SetName(metric, s)) /\ named' = s
  /\ UNCHANGED <<tagged, fielded, removed>>
CallAffix(s) ==
  /\ \/ Call(SetPrefix(metric, s)) /\ named' = s \o named
     \/ Call(SetSuffix(metric, s)) /\ named' = named \o s
  /\ UNCHANGED <<tagged, fielded, removed>>

MetricNext ==
  \/ \E k \in TagKeys : CallRemoveTag(k) \/ \E v \in TagValues : CallAddTag(k, v)
  \/ \E k \in FieldKeys :
       CallRemoveField(k) \/ \E v \in FieldValues : CallAddField(k, v)
  \/ \E s \in Names : CallSetName(s) \/ CallAffix(s)

MetricSpec == MetricInit /\ [][MetricNext]_metricVars

---------------------------------------------------------------------------
(* Properties.                                                               *)

\* A field reads back as it was put, but for the kind of a number or boolean.
Same(v, w) == v.text = w.text /\ (v.kind = "string") = (w.kind = "string")

\* The getters give what the user put in, whatever the texts hold: commas,
\* spaces, quotes and equals signs. RemoveField breaks the fields (it cuts
\* strings at commas and leaves the comma of the first field).
ReadsBack ==
  /\ Name(metric) = named
  /\ AsMap(TagsOf(metric.tags)) = tagged
  /\ ~removed =>
       LET fs == AsMap(FieldsOf(metric.fields)) IN
         /\ DOMAIN fs = DOMAIN fielded
         /\ \A k \in DOMAIN fs : Same(fs[k], fielded[k])
=============================================================================
