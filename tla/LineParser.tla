----------------------------- MODULE LineParser -----------------------------
(***************************************************************************)
(* report/metric/parse.go: lines taken apart.  Each scanner returns the     *)
(* position after what it took, and 0 where the code returns an error.     *)
(***************************************************************************)
EXTENDS MetricObject

At(s, i) == IF i \in DOMAIN s THEN s[i] ELSE "end"

\* The first of chars after position i that no backslash precedes.
FirstOf(s, i, chars) ==
  MinOr0({j \in (i + 1)..Len(s) : s[j] \in chars /\ s[j - 1] # Backslash})

SkipWhitespace(s, i) ==
  Min({Len(s) + 1} \cup {j \in i..Len(s) : s[j] # " "})

\* At the comma or the space after the name.
ScanMeasurement(s, i) ==
  IF At(s, i) \in {"end", Comma} THEN 0 ELSE FirstOf(s, i, {Comma, " "})

ScanTagsKey(s, i) ==
  LET j == FirstOf(s, i, {" ", Comma, "="}) IN
  IF At(s, i) \in {"end", " ", Comma, "="} \/ j = 0 \/ At(s, j) # "=" THEN 0
  ELSE j + 1

ScanTagsValue(s, i) ==
  LET j == FirstOf(s, i, {" ", Comma, "="}) IN
  IF At(s, i) \in {"end", Comma, " "} \/ j = 0 \/ At(s, j) = "=" THEN 0 ELSE j

RECURSIVE ScanTags(_, _)
ScanTags(s, i) ==
  LET v == ScanTagsKey(s, i)
      j == ScanTagsValue(s, v)
  IN IF v = 0 \/ j = 0 THEN 0 ELSE IF s[j] = " " THEN j ELSE ScanTags(s, j + 1)

ScanKey(s, i) ==
  LET j == ScanMeasurement(s, i) IN
  IF j # 0 /\ At(s, j) = Comma THEN ScanTags(s, j + 1) ELSE j

\* Where a number or a boolean that begins at i ends.
EndOfValue(s, i) ==
  Min({Len(s) + 1} \cup {j \in i..Len(s) : s[j] \in {Comma, " "}})

\* Digits, one point, an exponent, or an i at the end of an integer.
ScanNumber(s, i) ==
  LET end == EndOfValue(s, i)
      w == SubSeq(s, i, end - 1)
      Count(chars) == Cardinality({k \in DOMAIN w : w[k] \in chars})
      sign == IF At(w, 1) = "-" THEN 1 ELSE 0
      legal(k) ==
        \/ w[k] \in Digits \cup {"."}
        \/ w[k] \in {"i", "e", "E"} /\ k > 1
        \/ w[k] \in {"+", "-"} /\ k > 1 /\ w[k - 1] \in {"e", "E"}
  IN IF /\ \A k \in (1 + sign)..Len(w) : legal(k)
        /\ Count({"."}) <= 1 /\ Count({"i"}) <= 1
        /\ Count({"i"}) = 1 => w[Len(w)] = "i" /\ Count({".", "e", "E"}) = 0
        /\ Len(w) - sign - Count({".", "i"}) # 0
     THEN end ELSE 0

ScanBoolean(s, i) ==
  LET end == EndOfValue(s, i) IN
  IF SubSeq(s, i, end - 1) \in
       {<<"t">>, <<"f">>, <<"T">>, <<"F">>, <<"t", "r", "u", "e">>,
        <<"T", "r", "u", "e">>, <<"T", "R", "U", "E">>,
        <<"f", "a", "l", "s", "e">>, <<"F", "a", "l", "s", "e">>,
        <<"F", "A", "L", "S", "E">>}
  THEN end ELSE 0

\* Quotes matter between an equals sign and the comma after its value.
InValue(equals, commas) == equals > commas

\* Position i of the fields, so many equals signs and commas having been seen.
RECURSIVE ScanFieldsFrom(_, _, _, _, _)
ScanFieldsFrom(s, i, quoted, equals, commas) ==
  LET c == At(s, i)
      Missing(k) == At(s, k) \in {" ", Comma} /\ At(s, k - 1) # Backslash
      next == At(s, i + 1)
      value == IF next \in Digits \cup {".", "-", "N", "n"}
               THEN ScanNumber(s, i + 1) ELSE ScanBoolean(s, i + 1)
  IN IF c = "end" \/ (c = " " /\ ~quoted)
     THEN IF quoted \/ equals = 0 \/ commas # equals - 1 THEN 0 ELSE i
     ELSE IF c = Backslash /\ i < Len(s)
     THEN ScanFieldsFrom(s, i + 2, quoted, equals, commas)
     ELSE IF c = Quote /\ InValue(equals, commas)
     THEN ScanFieldsFrom(s, i + 1, ~quoted, equals, commas)
     ELSE IF c = "=" /\ ~quoted
     THEN IF Missing(i - 1) \/ next \in {"end", Comma, " "} THEN 0
          ELSE IF next = Quote
          THEN ScanFieldsFrom(s, i + 1, quoted, equals + 1, commas)
          ELSE IF value = 0 THEN 0
          ELSE ScanFieldsFrom(s, value, quoted, equals + 1, commas)
     ELSE ScanFieldsFrom(s, i + 1, quoted, equals,
                         IF c = Comma /\ ~quoted THEN commas + 1 ELSE commas)

ScanFields(s, i) == ScanFieldsFrom(s, i, FALSE, 0, 0)

ScanTime(s, i) ==
  LET end == Min({Len(s) + 1} \cup {j \in i..Len(s) : s[j] = " "})
      digit(k) == s[k] \in Digits \/ (k = i /\ s[k] = "-")
  IN IF \A k \in i..(end - 1) : digit(k) THEN end ELSE 0

NoMetric == [name |-> <<>>, tags |-> <<>>, fields |-> <<>>, t |-> <<>>]

\* parseMetric of a line, with a default time.
ParseMetric(s, now) ==
  LET k0 == SkipWhitespace(s, 1)
      k1 == ScanKey(s, k0)
      f0 == SkipWhitespace(s, k1)
      f1 == ScanFields(s, f0)
      t0 == SkipWhitespace(s, f1)
      t1 == ScanTime(s, t0)
      key == SubSeq(s, k0, k1 - 1)
      namei == IndexUnescaped(key, Comma)
      time == SubSeq(s, t0, t1 - 1)
  IN IF k1 = 0 \/ f1 = 0 \/ t1 = 0 THEN NoMetric
     ELSE [name |-> IF namei <= 1 THEN key ELSE SubSeq(key, 1, namei - 1),
           tags |-> IF namei <= 1 THEN <<>> ELSE From(key, namei),
           fields |-> SubSeq(s, f0, f1 - 1),
           t |-> IF time = <<>> THEN now ELSE time]

\* Parse: every line of at least two bytes that ends; lines with an error are
\* left out. A buffer of up to six bytes is not looked at.
RECURSIVE ParseLines(_, _)
ParseLines(s, now) ==
  LET j == MinOr0({i \in DOMAIN s : s[i] = "\n"})
      m == IF j > 2 THEN ParseMetric(SubSeq(s, 1, j - 1), now) ELSE NoMetric
  IN IF j = 0 THEN <<>>
     ELSE (IF m = NoMetric THEN <<>> ELSE <<m>>)
          \o ParseLines(From(s, j + 1), now)
Parse(s, now) == IF Len(s) <= 6 THEN <<>> ELSE ParseLines(s, now)

---------------------------------------------------------------------------
\* What is written is one line that Parse takes for the very same metric.
ParsesBack == ~removed => Parse(Serialize(metric), Now) = <<metric>>
=============================================================================
