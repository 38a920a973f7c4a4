---------------------------- MODULE LineProtocol ----------------------------
(***************************************************************************)
(* report/metric/metric.go: a metric as bytes.  Names, tags and fields are  *)
(* written into byte slices and read back from them.  A text is a sequence  *)
(* of bytes, of which those the code looks at are themselves; every other   *)
(* one is a letter or a digit.                                              *)
(***************************************************************************)
EXTENDS Integers, Sequences, FiniteSets, FiniteSetsExt, SequencesExt

Comma == ","
Backslash == "\\"
Quote == "\""
Digits == {"0", "1"}

\* escape.go: what each kind of text has escaped.
KeyChars == {Comma, Quote, " ", "="}
NameChars == {Comma, " "}
ValueChars == {Quote}

\* Mutant: the equals sign is not escaped.
EscapeNoEquals(s, chars) ==
  FlattenSeq([i \in DOMAIN s |->
    IF s[i] \in chars \ {"="} THEN <<Backslash, s[i]>> ELSE <<s[i]>>])

Escape(s, chars) ==
  FlattenSeq([i \in DOMAIN s |->
    IF s[i] \in chars THEN <<Backslash, s[i]>> ELSE <<s[i]>>])

Unescape(s, chars) ==
  FlattenSeq([i \in DOMAIN s |->
    IF s[i] = Backslash /\ i < Len(s) /\ s[i + 1] \in chars THEN <<>>
    ELSE <<s[i]>>])

---------------------------------------------------------------------------
(* metric.go: searching.  Positions begin at 1, and 0 is the code's -1.      *)

MinOr0(S) == IF S = {} THEN 0 ELSE Min(S)
From(s, i) == SubSeq(s, i, Len(s))

\* countBackslashes: how many of them end at position i.
CountBackslashes(s, i) == i - Max({0} \cup {j \in 1..i : s[j] # Backslash})

IndexUnescaped(s, b) ==
  MinOr0({i \in DOMAIN s : s[i] = b /\ CountBackslashes(s, i - 1) % 2 = 0})

\* bytes.Index
IndexOf(s, t) ==
  MinOr0({i \in 1..(Len(s) - Len(t) + 1) : SubSeq(s, i, i + Len(t) - 1) = t})

---------------------------------------------------------------------------
(* metric.go: the metric object [name, tags, fields, t].  A value is a       *)
(* string or the text of a number or a boolean.                             *)

ValueText(v) ==
  IF v.kind = "string"
  THEN <<Quote>> \o Escape(v.text, ValueChars) \o <<Quote>> ELSE v.text

FieldText(k, v) == Escape(k, KeyChars) \o <<"=">> \o ValueText(v)
TagText(k, v) == <<Comma>> \o Escape(k, KeyChars) \o <<"=">> \o Escape(v, KeyChars)

\* New, with tags and fields in the order in which the maps gave them. Tags
\* without a key or a value are left out.
New(name, tags, fields, time) ==
  LET tag(k, v) == IF k = <<>> \/ v = <<>> THEN <<>> ELSE TagText(k, v)
      field(i) == (IF i = 1 THEN <<>> ELSE <<Comma>>)
                  \o FieldText(fields[i][1], fields[i][2])
  IN [name |-> Escape(name, NameChars),
      tags |-> FlattenSeq([i \in DOMAIN tags |-> tag(tags[i][1], tags[i][2])]),
      fields |-> FlattenSeq([i \in DOMAIN fields |-> field(i)]),
      t |-> time]

\* String and Serialize.
Serialize(m) ==
  m.name \o m.tags \o <<" ">> \o m.fields \o <<" ">> \o m.t \o <<"\n">>

\* Mutant: the key is looked for as the caller wrote it.
RemoveTagRaw(m, key) ==
  LET i == IndexOf(m.tags, key \o <<"=">>)
      j == IndexUnescaped(From(m.tags, i), Comma)
  IN IF i = 0 THEN m
     ELSE [m EXCEPT !.tags = SubSeq(m.tags, 1, i - 2) \o
             IF j = 0 THEN <<>> ELSE From(m.tags, i + j - 1)]

\* A tag runs up to the next comma that is not escaped.
RemoveTag(m, key) ==
  LET i == IndexOf(m.tags, Escape(key, KeyChars) \o <<"=">>)
      j == IndexUnescaped(From(m.tags, i), Comma)
  IN IF i = 0 THEN m
     ELSE [m EXCEPT !.tags = SubSeq(m.tags, 1, i - 2) \o
             IF j = 0 THEN <<>> ELSE From(m.tags, i + j - 1)]

AddTag(m, key, v) ==
  LET r == RemoveTag(m, key) IN [r EXCEPT !.tags = @ \o TagText(key, v)]

AddField(m, key, v) == [m EXCEPT !.fields = @ \o <<Comma>> \o FieldText(key, v)]

\* The first field of the key, up to the next comma, in a string or not; the
\* comma after the first field of all is left. The last field is kept.
RemoveField(m, key) ==
  LET i == IndexOf(m.fields, Escape(key, KeyChars) \o <<"=">>)
      j == IndexUnescaped(From(m.fields, i), Comma)
      left == (IF i <= 1 THEN <<>> ELSE SubSeq(m.fields, 1, i - 2)) \o
              (IF j = 0 THEN <<>> ELSE From(m.fields, i + j - 1))
  IN IF i = 0 \/ left = <<>> THEN m ELSE [m EXCEPT !.fields = left]

SetName(m, s) == [m EXCEPT !.name = Escape(s, NameChars)]
SetPrefix(m, s) == [m EXCEPT !.name = Escape(s, NameChars) \o @]
SetSuffix(m, s) == [m EXCEPT !.name = @ \o Escape(s, NameChars)]

Name(m) == Unescape(m.name, NameChars)

\* A tag goes from comma to equals sign to the next comma or the end.
EndOfTag(s) ==
  LET i1 == IndexUnescaped(s, "=")
      i3 == IndexUnescaped(From(s, i1 + 1), Comma)
  IN IF i3 = 0 THEN Len(s) ELSE i1 + i3 - 1
FirstTag(s) ==
  LET i0 == IndexUnescaped(s, Comma) + 1
      i1 == IndexUnescaped(s, "=")
  IN <<Unescape(SubSeq(s, i0, i1 - 1), KeyChars),
       Unescape(SubSeq(s, i1 + 1, EndOfTag(s)), KeyChars)>>

\* The loop of Tags: n rounds of it, in each of which there is a comma.
TagsOf(s) ==
  LET round[n \in 0..Len(s)] ==
        IF n = 0 THEN [got |-> <<>>, rest |-> s]
        ELSE LET r == round[n - 1] IN
             IF IndexUnescaped(r.rest, Comma) = 0 THEN r
             ELSE [got |-> Append(r.got, FirstTag(r.rest)),
                   rest |-> From(r.rest, EndOfTag(r.rest) + 1)]
  IN round[Len(s)].got

\* The value of a field: a string ends with the next quote that is not
\* escaped, any other value before the next comma.
ValueOf(s) == IndexUnescaped(s, "=") + 1
IsString(s) == s[ValueOf(s)] = Quote
EndOfField(s) ==
  LET quote == IndexUnescaped(From(s, ValueOf(s) + 1), Quote)
      comma == IndexUnescaped(s, Comma)
  IN IF IsString(s) THEN (IF quote = 0 THEN Len(s) ELSE ValueOf(s) + quote)
     ELSE IF comma = 0 THEN Len(s) ELSE comma - 1

\* What a number or a boolean begins with.
Unquoted == Digits \cup {"-", "t", "T", "f", "F"}

\* A value that is none of the known kinds is passed over.
FirstField(s) ==
  LET key == Unescape(SubSeq(s, 1, ValueOf(s) - 2), KeyChars)
      text == SubSeq(s, ValueOf(s), EndOfField(s))
      inside == SubSeq(s, ValueOf(s) + 1, EndOfField(s) - 1)
  IN IF IsString(s)
     THEN <<<<key, [kind |-> "string", text |-> Unescape(inside, ValueChars)]>>>>
     ELSE IF s[ValueOf(s)] \in Unquoted
     THEN <<<<key, [kind |-> "other", text |-> text]>>>>
     ELSE <<>>

\* The loop of Fields, the same way.
FieldsOf(s) ==
  LET round[n \in 0..Len(s)] ==
        IF n = 0 THEN [got |-> <<>>, rest |-> s]
        ELSE LET r == round[n - 1] IN
             IF IndexUnescaped(r.rest, "=") = 0 THEN r
             ELSE [got |-> r.got \o FirstField(r.rest),
                   rest |-> From(r.rest, EndOfField(r.rest) + 2)]
  IN round[Len(s)].got

\* The map that a sequence of pairs makes: the last one of a key counts.
AsMap(pairs) ==
  [k \in {p[1] : p \in ToSet(pairs)} |->
     pairs[Max({i \in DOMAIN pairs : pairs[i][1] = k})][2]]
=============================================================================
