---------------------------- MODULE MetricProofs ----------------------------
(***************************************************************************)
(* A metric reads back, for texts of any length and any bytes that the     *)
(* line protocol can carry.  Escaping and unescaping are taken apart along *)
(* rows of texts; then a search is shown to end where a guarded text ends, *)
(* one with a lone backslash before each byte that is looked for.  The     *)
(* tags are a line of rows, one for each tag: Tags reads a row in each     *)
(* round, and RemoveTag finds the row of its key and no other.  Fields go  *)
(* the same way, but a key may have several rows, and the last one counts. *)
(* The invariant at the end says which rows the bytes are, and each call   *)
(* keeps it.                                                               *)
(***************************************************************************)
EXTENDS MetricObject, SequenceTheorems, FiniteSetTheorems, NaturalsInduction,
        WellFoundedInduction, TLAPS

---------------------------------------------------------------------------
(* Numbers and sequences.                                                  *)

\* A set of numbers with 0 that has the next of each of its numbers below n
\* has them all up to n.
LEMMA UpTo ==
  ASSUME NEW n \in Nat, NEW G, 0 \in G, \A k \in 1..n : k - 1 \in G => k \in G
  PROVE  n \in G
<1> DEFINE R == OpToRel(<, Nat)
           Bad == (0..n) \ G
<1> SUFFICES ASSUME Bad # {}
             PROVE  FALSE
  OBVIOUS
<1>1. IsWellFoundedOn(R, Nat)
  BY NatLessThanWellFounded
<1>2. \A x, y \in Nat : x < y => <<x, y>> \in R
  BY DEF OpToRel
<1> HIDE DEF R
<1>3. PICK x \in Bad : \A y \in Bad : ~(<<y, x>> \in R)
  <2>1. Bad \subseteq Nat
    OBVIOUS
  <2> HIDE DEF Bad
  <2> QED
    BY <1>1, <2>1, WFMin
<1>4. x \in 1..n /\ x - 1 \in 0..n /\ x - 1 < x
  OBVIOUS
<1>5. <<x - 1, x>> \in R
  BY <1>2, <1>4
<1>6. x - 1 \notin Bad
  BY <1>3, <1>5
<1>7. x - 1 \in G
  BY <1>4, <1>6
<1> QED
  BY <1>4, <1>7

\* The first k of a sequence, and what is behind them.
Before(s, k) == SubSeq(s, 1, k)
Behind(s, k) == SubSeq(s, k + 1, Len(s))

PartsOf(S, s) ==
  /\ Len(s) \in Nat
  /\ Before(s, 0) = <<>> /\ Before(s, Len(s)) = s
  /\ Behind(s, Len(s)) = <<>> /\ Behind(s, 0) = s
  /\ \A k \in 0..Len(s) : /\ Before(s, k) \in Seq(S) /\ Behind(s, k) \in Seq(S)
                          /\ Len(Before(s, k)) = k /\ Len(Behind(s, k)) = Len(s) - k
                          /\ Before(s, k) \o Behind(s, k) = s
  /\ \A k \in 1..Len(s) : /\ s[k] \in S
                          /\ Before(s, k) = Append(Before(s, k - 1), s[k])
                          /\ Behind(s, k - 1) = <<s[k]>> \o Behind(s, k)

\* Where a sequence is cut, the pieces are its first and its last ones.
LEMMA Parts ==
  ASSUME NEW S, NEW s \in Seq(S)
  PROVE  PartsOf(S, s)
<1>1. Len(s) \in Nat /\ \A k \in 1..Len(s) : s[k] \in S
  BY LenProperties, ElementOfSeq
<1>2. Before(s, 0) = <<>> /\ Behind(s, Len(s)) = <<>>
  BY <1>1, SubSeqEmpty DEF Before, Behind
<1>3. Before(s, Len(s)) = s /\ Behind(s, 0) = s
  BY <1>1, SubSeqFull DEF Before, Behind
<1>4. ASSUME NEW k \in 0..Len(s)
      PROVE  /\ Before(s, k) \in Seq(S) /\ Behind(s, k) \in Seq(S)
             /\ Len(Before(s, k)) = k /\ Len(Behind(s, k)) = Len(s) - k
  <2>1. Before(s, k) \in Seq(S) /\ Len(Before(s, k)) = k
    BY <1>1, SubSeqProperties DEF Before
  <2>2. Behind(s, k) \in Seq(S) /\ Len(Behind(s, k)) = Len(s) - k
    BY <1>1, SubSeqProperties DEF Behind
  <2> QED
    BY <2>1, <2>2
<1>5. ASSUME NEW k \in 0..Len(s) PROVE Before(s, k) \o Behind(s, k) = s
  <2>1. 1 \in 1..(Len(s) + 1) /\ k \in (1 - 1)..Len(s) /\ Len(s) \in k..Len(s)
    BY <1>1
  <2>2. SubSeq(s, 1, k) \o SubSeq(s, k + 1, Len(s)) = SubSeq(s, 1, Len(s))
    BY <2>1, ConcatAdjacentSubSeq
  <2> QED
    BY <1>3, <2>2 DEF Before, Behind
<1>6. ASSUME NEW k \in 1..Len(s)
      PROVE  /\ Before(s, k) = Append(Before(s, k - 1), s[k])
             /\ Behind(s, k - 1) = <<s[k]>> \o Behind(s, k)
  <2>1. Before(s, k) = Before(s, k - 1) \o <<s[k]>>
    <3>1. 1 \in 1..Len(s) /\ k \in 1..Len(s)
      BY <1>1
    <3> QED
      BY <3>1, SubSeqRecursiveSecond DEF Before
  <2>2. k - 1 \in 0..Len(s)
    BY <1>1
  <2>3. Append(Before(s, k - 1), s[k]) = Before(s, k - 1) \o <<s[k]>>
    BY <1>1, <1>4, <2>2, AppendIsConcat
  <2>4. Behind(s, k - 1) = <<s[k]>> \o Behind(s, k)
    <3>1. k \in 1..Len(s) /\ Len(s) \in k..Len(s) /\ (k - 1) + 1 = k
      BY <1>1
    <3> QED
      BY <3>1, SubSeqRecursiveFirst DEF Behind
  <2> QED
    BY <2>1, <2>3, <2>4
<1> QED
  BY <1>1, <1>2, <1>3, <1>4, <1>5, <1>6 DEF PartsOf

\* A set that has the empty sequence, and with each sequence what is one longer
\* at its end, has them all.
LEMMA ByAppend ==
  ASSUME NEW S, NEW G, <<>> \in G,
         \A s \in Seq(S), x \in S : s \in G => Append(s, x) \in G
  PROVE  Seq(S) \subseteq G
<1> SUFFICES ASSUME NEW s \in Seq(S) PROVE s \in G
  OBVIOUS
<1>p. PartsOf(S, s)
  BY Parts
<1> DEFINE K == {k \in 0..Len(s) : Before(s, k) \in G}
<1>1. Len(s) \in Nat /\ Before(s, 0) = <<>> /\ Before(s, Len(s)) = s
  BY <1>p DEF PartsOf
<1>k. \A k : k \in K <=> k \in 0..Len(s) /\ Before(s, k) \in G
  OBVIOUS
<1> HIDE DEF K
<1>2. 0 \in K
  BY <1>1, <1>k
<1>3. ASSUME NEW k \in 1..Len(s), k - 1 \in K PROVE k \in K
  <2>1. PICK j \in 0..Len(s) : j = k - 1
    BY <1>1
  <2>2. Before(s, j) \in Seq(S) /\ s[k] \in S /\ Before(s, k) = Append(Before(s, j), s[k])
    BY <1>p, <2>1 DEF PartsOf
  <2>3. Before(s, j) \in G
    BY <1>3, <1>k, <2>1
  <2>4. Before(s, k) \in G
    BY <2>2, <2>3
  <2> QED
    BY <1>1, <1>k, <2>4
<1>4. Len(s) \in K
  BY <1>1, <1>2, <1>3, UpTo
<1> QED
  BY <1>1, <1>4, <1>k

\* What is at each place of two sequences in a row.
LEMMA Both ==
  ASSUME NEW S, NEW s \in Seq(S), NEW t \in Seq(S)
  PROVE  /\ s \o t \in Seq(S)
         /\ Len(s \o t) = Len(s) + Len(t) /\ Len(s) \in Nat /\ Len(t) \in Nat
         /\ \A i \in 1..Len(s) : (s \o t)[i] = s[i]
         /\ \A i \in 1..Len(t) : (s \o t)[Len(s) + i] = t[i]
         /\ \A i \in (Len(s) + 1)..(Len(s) + Len(t)) : (s \o t)[i] = t[i - Len(s)]
  BY ConcatProperties, LenProperties

\* Two sequences in a row are the sequence with their elements.
LEMMA RowIs ==
  ASSUME NEW S, NEW a \in Seq(S), NEW b \in Seq(S), NEW c \in Seq(S),
         Len(c) = Len(a) + Len(b),
         \A i \in 1..Len(a) : c[i] = a[i],
         \A i \in 1..Len(b) : c[Len(a) + i] = b[i]
  PROVE  c = a \o b
<1>1. /\ a \o b \in Seq(S) /\ Len(a \o b) = Len(c) /\ Len(a) \in Nat /\ Len(b) \in Nat
      /\ \A i \in 1..Len(a) : (a \o b)[i] = a[i]
      /\ \A i \in 1..Len(b) : (a \o b)[Len(a) + i] = b[i]
  BY Both
<1>2. ASSUME NEW i \in 1..Len(c) PROVE c[i] = (a \o b)[i]
  <2>1. CASE i \in 1..Len(a)
    BY <1>1, <2>1
  <2>2. CASE i \notin 1..Len(a)
    <3>1. PICK j \in 1..Len(b) : i = Len(a) + j
      <4>1. i - Len(a) \in 1..Len(b) /\ i = Len(a) + (i - Len(a))
        BY <1>1, <2>2
      <4> QED
        BY <4>1
    <3> QED
      BY <1>1, <3>1
  <2> QED
    BY <2>1, <2>2
<1> QED
  BY <1>1, <1>2, SeqEqual

\* Sequences of one and of two.
LEMMA Singles ==
  ASSUME NEW S, NEW b \in S, NEW c \in S
  PROVE  /\ <<c>> \in Seq(S) /\ Len(<<c>>) = 1 /\ <<c>>[1] = c
         /\ <<b, c>> \in Seq(S) /\ Len(<<b, c>>) = 2
         /\ <<b, c>>[1] = b /\ <<b, c>>[2] = c /\ <<b, c>> = <<b>> \o <<c>>
<1>1. /\ <<c>> \in Seq(S) /\ Len(<<c>>) = 1 /\ <<c>>[1] = c
      /\ <<b>> \in Seq(S) /\ Len(<<b>>) = 1 /\ <<b>>[1] = b
      /\ <<b, c>> \in Seq(S) /\ Len(<<b, c>>) = 2
      /\ <<b, c>>[1] = b /\ <<b, c>>[2] = c
  OBVIOUS
<1>2. \A i \in 1..1 : i = 1
  OBVIOUS
<1>3. <<b, c>> = <<b>> \o <<c>>
  <2>1. PICK x, y, z : x = <<b>> /\ y = <<c>> /\ z = <<b, c>>
    OBVIOUS
  <2>2. /\ x \in Seq(S) /\ Len(x) = 1 /\ x[1] = b
        /\ y \in Seq(S) /\ Len(y) = 1 /\ y[1] = c
        /\ z \in Seq(S) /\ Len(z) = 2 /\ z[1] = b /\ z[2] = c
    BY <1>1, <2>1
  <2>3. /\ Len(z) = Len(x) + Len(y)
        /\ \A i \in 1..Len(x) : z[i] = x[i]
        /\ \A i \in 1..Len(y) : z[Len(x) + i] = y[i]
    BY <2>2
  <2> QED
    BY <2>1, <2>2, <2>3, RowIs
<1> QED
  BY <1>1, <1>3

\* Appending to the second is appending to both.
LEMMA AppendConcat ==
  ASSUME NEW S, NEW s \in Seq(S), NEW t \in Seq(S), NEW x \in S
  PROVE  s \o Append(t, x) = Append(s \o t, x)
<1>1. Append(t, x) = t \o <<x>> /\ Append(s \o t, x) = (s \o t) \o <<x>>
  BY AppendIsConcat, ConcatProperties
<1>2. <<x>> \in Seq(S)
  OBVIOUS
<1> QED
  BY <1>1, <1>2, ConcatAssociative

---------------------------------------------------------------------------
(* FlattenSeq.                                                             *)

Text == Seq(Bytes)

\* The function in the definition of FlattenSeq, for sequences of texts.
JoinsTo(f, ss, k) ==
  f = [i \in 1..k |-> IF i = 1 THEN ss[i] ELSE f[i - 1] \o ss[i]]
JoinOf(ss) == CHOOSE f : JoinsTo(f, ss, Len(ss))

\* FlattenSeq is the last step of a function that joins one more at a time.
LEMMA FlattenDef ==
  ASSUME NEW ss
  PROVE  FlattenSeq(ss) = IF Len(ss) = 0 THEN ss ELSE JoinOf(ss)[Len(ss)]
  BY DEF FlattenSeq, JoinOf, JoinsTo

\* There is such a function.
LEMMA JoinExists ==
  ASSUME NEW ss \in Seq(Text)
  PROVE  JoinsTo(JoinOf(ss), ss, Len(ss))
<1> DEFINE K == {k \in 0..Len(ss) : \E f : JoinsTo(f, ss, k)}
<1>k. \A k : k \in K <=> k \in 0..Len(ss) /\ \E f : JoinsTo(f, ss, k)
  OBVIOUS
<1> HIDE DEF K
<1>1. Len(ss) \in Nat
  BY LenProperties
<1>2. 0 \in K
  <2>1. JoinsTo([i \in 1..0 |-> <<>>], ss, 0)
    BY DEF JoinsTo
  <2> QED
    BY <1>1, <1>k, <2>1
<1>3. ASSUME NEW k \in 1..Len(ss), k - 1 \in K PROVE k \in K
  <2>1. PICK f : JoinsTo(f, ss, k - 1)
    BY <1>3, <1>k
  <2>2. \A i \in 1..(k - 1) : f[i] = IF i = 1 THEN ss[i] ELSE f[i - 1] \o ss[i]
    BY <2>1 DEF JoinsTo
  <2>3. PICK g : g = [i \in 1..k |-> IF i = k THEN (IF k = 1 THEN ss[k] ELSE f[k - 1] \o ss[k])
                                     ELSE f[i]]
    OBVIOUS
  <2>4. /\ DOMAIN g = 1..k /\ g = [i \in 1..k |-> g[i]]
        /\ g[k] = IF k = 1 THEN ss[k] ELSE f[k - 1] \o ss[k]
        /\ \A i \in 1..(k - 1) : g[i] = f[i]
    <3>1. \A i \in 1..(k - 1) : i \in 1..k /\ i # k
      OBVIOUS
    <3>2. \A i \in 1..k : g[i] =
          IF i = k THEN (IF k = 1 THEN ss[k] ELSE f[k - 1] \o ss[k]) ELSE f[i]
      BY <2>3
    <3>3. DOMAIN g = 1..k /\ g = [i \in 1..k |-> g[i]]
      BY <2>3
    <3>4. k \in 1..k
      OBVIOUS
    <3> QED
      BY <3>1, <3>2, <3>3, <3>4
  <2>5. ASSUME NEW i \in 1..k
        PROVE  g[i] = IF i = 1 THEN ss[i] ELSE g[i - 1] \o ss[i]
    <3>1. i = 1 \/ (i - 1 \in 1..(k - 1) /\ g[i - 1] = f[i - 1])
      BY <2>4
    <3>2. CASE i = k
      BY <2>4, <3>1, <3>2
    <3>3. CASE i # k
      <4>1. i \in 1..(k - 1)
        BY <3>3
      <4>2. f[i] = g[i]
        BY <2>4, <4>1
      <4> QED
        BY <2>2, <3>1, <4>1, <4>2
    <3> QED
      BY <3>2, <3>3
  <2>6. JoinsTo(g, ss, k)
    BY <2>4, <2>5 DEF JoinsTo
  <2> QED
    BY <1>1, <1>k, <2>6
<1>4. Len(ss) \in K
  BY <1>1, <1>2, <1>3, UpTo
<1>5. \E f : JoinsTo(f, ss, Len(ss))
  BY <1>4, <1>k
<1> QED
  BY <1>5 DEF JoinOf

\* ... and the one that is chosen takes those steps.
LEMMA JoinSteps ==
  ASSUME NEW ss \in Seq(Text)
  PROVE  \E f : /\ FlattenSeq(ss) = IF Len(ss) = 0 THEN ss ELSE f[Len(ss)]
                /\ \A i \in 1..Len(ss) : f[i] = IF i = 1 THEN ss[i] ELSE f[i - 1] \o ss[i]
<1>1. PICK f : f = JoinOf(ss)
  OBVIOUS
<1>2. f = [i \in 1..Len(ss) |-> IF i = 1 THEN ss[i] ELSE f[i - 1] \o ss[i]]
  BY <1>1, JoinExists DEF JoinsTo
<1>3. \A i \in 1..Len(ss) : f[i] = IF i = 1 THEN ss[i] ELSE f[i - 1] \o ss[i]
  BY <1>2
<1> QED
  BY <1>1, <1>3, FlattenDef

\* Nothing flattened is nothing.
LEMMA FlattenEmpty == FlattenSeq(<<>>) = <<>>
  BY FlattenDef

\* Flattening goes from the left to the right.
LEMMA FlattenAppend ==
  ASSUME NEW ss \in Seq(Text), NEW x \in Text, FlattenSeq(ss) \in Text
  PROVE  FlattenSeq(Append(ss, x)) = FlattenSeq(ss) \o x
<1> DEFINE n == Len(ss)
           st == Append(ss, x)
<1>1. /\ n \in Nat /\ st \in Seq(Text) /\ Len(st) = n + 1 /\ st[n + 1] = x
      /\ \A i \in 1..n : st[i] = ss[i]
  BY LenProperties, AppendProperties
<1>2. PICK f : /\ FlattenSeq(ss) = IF n = 0 THEN ss ELSE f[n]
               /\ \A i \in 1..n : f[i] = IF i = 1 THEN ss[i] ELSE f[i - 1] \o ss[i]
  BY JoinSteps
<1>3. PICK g : /\ FlattenSeq(st) = IF Len(st) = 0 THEN st ELSE g[Len(st)]
               /\ \A i \in 1..Len(st) : g[i] = IF i = 1 THEN st[i] ELSE g[i - 1] \o st[i]
  BY <1>1, JoinSteps
<1> HIDE DEF st
<1>4. FlattenSeq(st) = g[n + 1] /\ g[n + 1] = IF n = 0 THEN x ELSE g[n] \o x
  BY <1>1, <1>3
<1>5. CASE n = 0
  <2>1. ss = <<>>
    BY <1>5, EmptySeq
  <2>2. FlattenSeq(ss) \o x = x
    BY <2>1, FlattenEmpty, ConcatEmptySeq DEF Text
  <2> QED
    BY <1>4, <1>5, <2>2 DEF st
<1>6. CASE n # 0
  <2> DEFINE K == {k \in 0..n : k # 0 => f[k] = g[k]}
  <2>1. 0 \in K
    BY <1>1
  <2>2. ASSUME NEW k \in 1..n, k - 1 \in K PROVE k \in K
    <3>1. f[k] = IF k = 1 THEN ss[k] ELSE f[k - 1] \o ss[k]
      BY <1>2
    <3>2. g[k] = IF k = 1 THEN ss[k] ELSE g[k - 1] \o ss[k]
      BY <1>1, <1>3
    <3>3. f[k] = g[k]
      BY <2>2, <3>1, <3>2
    <3> QED
      BY <1>1, <3>3
  <2>3. n \in K
    <3> HIDE DEF K, n
    <3> QED
      BY <1>1, <2>1, <2>2, UpTo
  <2> QED
    BY <1>2, <1>4, <1>6, <2>3 DEF st
<1> QED
  BY <1>5, <1>6

\* Texts flattened are a text.
LEMMA FlattenText ==
  ASSUME NEW ss \in Seq(Text)
  PROVE  FlattenSeq(ss) \in Text
<1> DEFINE G == {tt \in Seq(Text) : FlattenSeq(tt) \in Text}
<1>k. \A tt : tt \in G <=> tt \in Seq(Text) /\ FlattenSeq(tt) \in Text
  OBVIOUS
<1> HIDE DEF G
<1>1. <<>> \in G
  BY <1>k, FlattenEmpty, EmptySeq DEF Text
<1>2. ASSUME NEW tt \in Seq(Text), NEW x \in Text, tt \in G PROVE Append(tt, x) \in G
  <2>1. FlattenSeq(tt) \in Text
    BY <1>2, <1>k
  <2>2. FlattenSeq(Append(tt, x)) = FlattenSeq(tt) \o x
    BY <2>1, FlattenAppend
  <2>3. FlattenSeq(tt) \o x \in Text
    BY <2>1, ConcatProperties DEF Text
  <2>4. Append(tt, x) \in Seq(Text)
    BY AppendProperties
  <2> QED
    BY <1>k, <2>2, <2>3, <2>4
<1>3. Seq(Text) \subseteq G
  BY <1>1, <1>2, ByAppend
<1> QED
  BY <1>3, <1>k

\* FlattenSeq goes through both parts of a row.
LEMMA FlattenConcat ==
  ASSUME NEW ss \in Seq(Text), NEW tt \in Seq(Text)
  PROVE  FlattenSeq(ss \o tt) = FlattenSeq(ss) \o FlattenSeq(tt)
<1> DEFINE G == {uu \in Seq(Text) : FlattenSeq(ss \o uu) = FlattenSeq(ss) \o FlattenSeq(uu)}
<1>k. \A uu : uu \in G <=> /\ uu \in Seq(Text)
                           /\ FlattenSeq(ss \o uu) = FlattenSeq(ss) \o FlattenSeq(uu)
  OBVIOUS
<1> HIDE DEF G
<1>1. <<>> \in G
  <2>1. ss \o <<>> = ss /\ FlattenSeq(ss) \o <<>> = FlattenSeq(ss)
    BY ConcatEmptySeq, FlattenText DEF Text
  <2> QED
    BY <1>k, <2>1, FlattenEmpty, EmptySeq
<1>2. ASSUME NEW uu \in Seq(Text), NEW x \in Text, uu \in G PROVE Append(uu, x) \in G
  <2>1. /\ FlattenSeq(uu) \in Text /\ FlattenSeq(ss) \in Text /\ ss \o uu \in Seq(Text)
        /\ Append(uu, x) \in Seq(Text)
    BY FlattenText, ConcatProperties, AppendProperties
  <2>2. FlattenSeq(Append(uu, x)) = FlattenSeq(uu) \o x
    BY <2>1, FlattenAppend
  <2>3. FlattenSeq(ss \o Append(uu, x)) = FlattenSeq(ss \o uu) \o x
    <3>1. ss \o Append(uu, x) = Append(ss \o uu, x)
      BY AppendConcat
    <3>2. FlattenSeq(ss \o uu) \in Text
      BY <2>1, FlattenText
    <3> QED
      BY <2>1, <3>1, <3>2, FlattenAppend
  <2>4. FlattenSeq(ss \o uu) = FlattenSeq(ss) \o FlattenSeq(uu)
    BY <1>2, <1>k
  <2>5. (FlattenSeq(ss) \o FlattenSeq(uu)) \o x = FlattenSeq(ss) \o (FlattenSeq(uu) \o x)
    BY <2>1, ConcatAssociative DEF Text
  <2> QED
    BY <1>k, <2>1, <2>2, <2>3, <2>4, <2>5
<1>3. Seq(Text) \subseteq G
  BY <1>1, <1>2, ByAppend
<1> QED
  BY <1>3, <1>k

\* One text flattened is that text.
LEMMA FlattenOne ==
  ASSUME NEW x \in Text
  PROVE  FlattenSeq(<<x>>) = x
<1>1. <<>> \in Seq(Text) /\ FlattenSeq(<<>>) \in Text
  BY EmptySeq, FlattenText
<1>2. FlattenSeq(Append(<<>>, x)) = <<>> \o x
  BY <1>1, FlattenAppend, FlattenEmpty
<1>3. Append(<<>>, x) = <<x>> /\ <<>> \o x = x
  BY ConcatEmptySeq DEF Text
<1> QED
  BY <1>2, <1>3

---------------------------------------------------------------------------
(* Escaping.                                                               *)

Esc(c, chars) == IF c \in chars THEN <<Backslash, c>> ELSE <<c>>
Escs(s, chars) == [i \in DOMAIN s |-> Esc(s[i], chars)]

\* Escape flattens what becomes of each byte.
LEMMA EscapeDef ==
  ASSUME NEW s, NEW chars
  PROVE  Escape(s, chars) = FlattenSeq(Escs(s, chars))
  BY DEF Escape, Escs, Esc

\* A byte becomes a text.
LEMMA EscText ==
  ASSUME NEW c \in Bytes, NEW chars
  PROVE  Esc(c, chars) \in Text
<1>1. Backslash \in Bytes
  BY BytesAssumption
<1>2. <<c>> \in Text /\ <<Backslash, c>> \in Text
  BY <1>1, Singles DEF Text
<1> QED
  BY <1>2 DEF Esc

\* So do all bytes.
LEMMA EscsText ==
  ASSUME NEW s \in Text, NEW chars
  PROVE  /\ Escs(s, chars) \in Seq(Text) /\ Len(Escs(s, chars)) = Len(s)
         /\ \A i \in 1..Len(s) : Escs(s, chars)[i] = Esc(s[i], chars)
<1>1. Len(s) \in Nat /\ DOMAIN s = 1..Len(s)
  BY LenProperties DEF Text
<1>2. \A i \in 1..Len(s) : Esc(s[i], chars) \in Text
  BY ElementOfSeq, EscText DEF Text
<1>3. Escs(s, chars) = [i \in 1..Len(s) |-> Esc(s[i], chars)]
  BY <1>1 DEF Escs
<1>4. Escs(s, chars) \in Seq(Text)
  BY <1>1, <1>2, <1>3, IsASeq
<1> QED
  BY <1>1, <1>3, <1>4

\* An escaped text is a text.
LEMMA EscapeText ==
  ASSUME NEW s \in Text, NEW chars
  PROVE  Escape(s, chars) \in Text
  BY EscapeDef, EscsText, FlattenText

\* Escape goes through both parts of a row.
LEMMA EscapeConcat ==
  ASSUME NEW s \in Text, NEW t \in Text, NEW chars
  PROVE  Escape(s \o t, chars) = Escape(s, chars) \o Escape(t, chars)
<1>1. s \o t \in Text /\ Len(s \o t) = Len(s) + Len(t) /\ Len(s) \in Nat /\ Len(t) \in Nat
  BY Both DEF Text
<1>2. /\ Escs(s, chars) \in Seq(Text) /\ Len(Escs(s, chars)) = Len(s)
      /\ \A i \in 1..Len(s) : Escs(s, chars)[i] = Esc(s[i], chars)
  BY EscsText
<1>3. /\ Escs(t, chars) \in Seq(Text) /\ Len(Escs(t, chars)) = Len(t)
      /\ \A i \in 1..Len(t) : Escs(t, chars)[i] = Esc(t[i], chars)
  BY EscsText
<1>4. /\ Escs(s \o t, chars) \in Seq(Text) /\ Len(Escs(s \o t, chars)) = Len(s) + Len(t)
      /\ \A i \in 1..(Len(s) + Len(t)) : Escs(s \o t, chars)[i] = Esc((s \o t)[i], chars)
  BY <1>1, EscsText
<1>5. Escs(s \o t, chars) = Escs(s, chars) \o Escs(t, chars)
  <2>1. ASSUME NEW i \in 1..Len(s) PROVE Escs(s \o t, chars)[i] = Escs(s, chars)[i]
    <3>1. (s \o t)[i] = s[i] /\ i \in 1..(Len(s) + Len(t))
      BY <1>1, Both DEF Text
    <3> QED
      BY <1>2, <1>4, <3>1
  <2>2. ASSUME NEW i \in 1..Len(t)
        PROVE  Escs(s \o t, chars)[Len(s) + i] = Escs(t, chars)[i]
    <3>1. (s \o t)[Len(s) + i] = t[i] /\ Len(s) + i \in 1..(Len(s) + Len(t))
      BY <1>1, Both DEF Text
    <3> QED
      BY <1>3, <1>4, <3>1
  <2>3. PICK a, b, c : a = Escs(s, chars) /\ b = Escs(t, chars) /\ c = Escs(s \o t, chars)
    OBVIOUS
  <2>4. a \in Seq(Text) /\ b \in Seq(Text) /\ c \in Seq(Text)
    BY <1>2, <1>3, <1>4, <2>3
  <2>5. /\ Len(c) = Len(a) + Len(b)
        /\ \A i \in 1..Len(a) : c[i] = a[i]
        /\ \A i \in 1..Len(b) : c[Len(a) + i] = b[i]
    BY <1>2, <1>3, <1>4, <2>1, <2>2, <2>3
  <2> QED
    BY <2>3, <2>4, <2>5, RowIs
<1> QED
  BY <1>1, <1>2, <1>3, <1>5, EscapeDef, FlattenConcat

\* One byte escaped.
LEMMA EscapeOne ==
  ASSUME NEW c \in Bytes, NEW chars
  PROVE  Escape(<<c>>, chars) = Esc(c, chars) /\ <<c>> \in Text
<1>1. <<c>> \in Text
  BY Singles DEF Text
<1>2. Escs(<<c>>, chars) = <<Esc(c, chars)>>
  <2>1. Len(<<c>>) = 1 /\ <<c>>[1] = c
    OBVIOUS
  <2>2. PICK e : e = Escs(<<c>>, chars)
    OBVIOUS
  <2>3. e \in Seq(Text) /\ Len(e) = 1 /\ e[1] = Esc(c, chars)
    BY <1>1, <2>1, <2>2, EscsText
  <2>4. <<Esc(c, chars)>> \in Seq(Text)
    BY Singles, EscText
  <2>5. Len(<<Esc(c, chars)>>) = 1 /\ <<Esc(c, chars)>>[1] = Esc(c, chars)
    OBVIOUS
  <2>6. \A i \in 1..1 : i = 1
    OBVIOUS
  <2> QED
    BY <2>2, <2>3, <2>4, <2>5, <2>6, SeqEqual
<1> QED
  BY <1>1, <1>2, EscapeDef, FlattenOne, EscText

\* Nothing escaped is nothing.
LEMMA EscapeEmpty ==
  ASSUME NEW chars
  PROVE  Escape(<<>>, chars) = <<>>
<1>1. Escs(<<>>, chars) = <<>>
  BY DEF Escs
<1> QED
  BY <1>1, EscapeDef, FlattenEmpty

---------------------------------------------------------------------------
(* Unescaping.                                                             *)

Uns(s, chars) ==
  [i \in DOMAIN s |-> IF s[i] = Backslash /\ i < Len(s) /\ s[i + 1] \in chars THEN <<>>
                      ELSE <<s[i]>>]

\* Unescape flattens what is left of each byte.
LEMMA UnescapeDef ==
  ASSUME NEW s, NEW chars
  PROVE  Unescape(s, chars) = FlattenSeq(Uns(s, chars))
  BY DEF Unescape, Uns

\* Each byte is left or dropped.
LEMMA UnsText ==
  ASSUME NEW s \in Text, NEW chars
  PROVE  /\ Uns(s, chars) \in Seq(Text) /\ Len(Uns(s, chars)) = Len(s)
         /\ \A i \in 1..Len(s) :
              Uns(s, chars)[i] = IF s[i] = Backslash /\ i < Len(s) /\ s[i + 1] \in chars
                                 THEN <<>> ELSE <<s[i]>>
<1>1. Len(s) \in Nat /\ DOMAIN s = 1..Len(s)
  BY LenProperties DEF Text
<1>2. \A i \in 1..Len(s) : <<>> \in Text /\ <<s[i]>> \in Text
  BY ElementOfSeq, EmptySeq, Singles DEF Text
<1>3. PICK n \in Nat : n = Len(s)
  BY <1>1
<1>4. Uns(s, chars) = [i \in 1..n |-> IF s[i] = Backslash /\ i < n /\ s[i + 1] \in chars
                                      THEN <<>> ELSE <<s[i]>>]
  BY <1>1, <1>3 DEF Uns
<1>5. \A i \in 1..n : (IF s[i] = Backslash /\ i < n /\ s[i + 1] \in chars
                       THEN <<>> ELSE <<s[i]>>) \in Text
  BY <1>2, <1>3
<1>6. Uns(s, chars) \in Seq(Text)
  BY <1>4, <1>5, IsASeq
<1> QED
  BY <1>3, <1>4, <1>6

\* An unescaped text is a text.
LEMMA UnescapeText ==
  ASSUME NEW s \in Text, NEW chars
  PROVE  Unescape(s, chars) \in Text
  BY UnescapeDef, UnsText, FlattenText

\* A backslash at the end of s escapes what t begins with.
Apart(s, t, chars) ==
  s # <<>> /\ t # <<>> => s[Len(s)] # Backslash \/ t[1] \notin chars

\* Unescape goes through both parts of a row that does not part a backslash from
\* what it escapes.
LEMMA UnescapeConcat ==
  ASSUME NEW s \in Text, NEW t \in Text, NEW chars, Apart(s, t, chars)
  PROVE  Unescape(s \o t, chars) = Unescape(s, chars) \o Unescape(t, chars)
<1>1. /\ s \o t \in Text /\ Len(s \o t) = Len(s) + Len(t) /\ Len(s) \in Nat /\ Len(t) \in Nat
      /\ \A i \in 1..Len(s) : (s \o t)[i] = s[i]
      /\ \A i \in 1..Len(t) : (s \o t)[Len(s) + i] = t[i]
  BY Both DEF Text
<1>2. PICK a, b, c : a = Uns(s, chars) /\ b = Uns(t, chars) /\ c = Uns(s \o t, chars)
  OBVIOUS
<1>u. \A i \in 1..(Len(s) + Len(t)) :
        c[i] = IF /\ (s \o t)[i] = Backslash /\ i < Len(s) + Len(t)
                  /\ (s \o t)[i + 1] \in chars
               THEN <<>> ELSE <<(s \o t)[i]>>
  <2>1. PICK st \in Text : st = s \o t
    BY <1>1
  <2>2. \A i \in 1..Len(st) :
          Uns(st, chars)[i] = IF st[i] = Backslash /\ i < Len(st) /\ st[i + 1] \in chars
                              THEN <<>> ELSE <<st[i]>>
    BY UnsText
  <2>3. c = Uns(st, chars) /\ Len(st) = Len(s) + Len(t)
    BY <1>1, <1>2, <2>1
  <2> QED
    BY <2>1, <2>2, <2>3
<1>3. a \in Seq(Text) /\ b \in Seq(Text) /\ c \in Seq(Text)
  BY <1>1, <1>2, UnsText
<1>4. Len(a) = Len(s) /\ Len(b) = Len(t) /\ Len(c) = Len(s) + Len(t)
  BY <1>1, <1>2, UnsText
<1>5. ASSUME NEW i \in 1..Len(s) PROVE c[i] = a[i]
  <2>1. a[i] = IF s[i] = Backslash /\ i < Len(s) /\ s[i + 1] \in chars THEN <<>> ELSE <<s[i]>>
    BY <1>2, UnsText
  <2>2. c[i] = IF /\ (s \o t)[i] = Backslash /\ i < Len(s) + Len(t)
                  /\ (s \o t)[i + 1] \in chars
               THEN <<>> ELSE <<(s \o t)[i]>>
    <3>1. i \in 1..(Len(s) + Len(t))
      BY <1>1
    <3> QED
      BY <1>u, <3>1
  <2>3. CASE i < Len(s)
    <3>1. i + 1 \in 1..Len(s)
      BY <1>1, <2>3
    <3> QED
      BY <1>1, <2>1, <2>2, <2>3, <3>1
  <2>4. CASE i = Len(s) /\ Len(t) = 0
    BY <1>1, <2>1, <2>2, <2>4
  <2>5. CASE i = Len(s) /\ Len(t) # 0
    <3>1. 1 \in 1..Len(t) /\ (s \o t)[i + 1] = t[1]
      BY <1>1, <2>5
    <3>2. s # <<>> /\ t # <<>>
      BY <1>1, <2>5, EmptySeq
    <3>3. s[i] # Backslash \/ t[1] \notin chars
      BY <2>5, <3>2 DEF Apart
    <3> QED
      BY <1>1, <2>1, <2>2, <2>5, <3>1, <3>3
  <2> QED
    BY <1>1, <2>3, <2>4, <2>5
<1>6. ASSUME NEW i \in 1..Len(t) PROVE c[Len(s) + i] = b[i]
  <2>1. b[i] = IF t[i] = Backslash /\ i < Len(t) /\ t[i + 1] \in chars THEN <<>> ELSE <<t[i]>>
    BY <1>2, UnsText
  <2>2. PICK j \in 1..(Len(s) + Len(t)) : j = Len(s) + i
    BY <1>1
  <2>3. c[j] = IF /\ (s \o t)[j] = Backslash /\ j < Len(s) + Len(t)
                  /\ (s \o t)[j + 1] \in chars
               THEN <<>> ELSE <<(s \o t)[j]>>
    BY <1>u
  <2>4. (s \o t)[j] = t[i] /\ (j < Len(s) + Len(t) <=> i < Len(t))
    BY <1>1, <2>2
  <2>5. i < Len(t) => (s \o t)[j + 1] = t[i + 1]
    <3>1. i < Len(t) => i + 1 \in 1..Len(t) /\ j + 1 = Len(s) + (i + 1)
      BY <1>1, <2>2
    <3> QED
      BY <1>1, <3>1
  <2> QED
    BY <2>1, <2>2, <2>3, <2>4, <2>5
<1>7. c = a \o b
  <2>1. /\ Len(c) = Len(a) + Len(b)
        /\ \A i \in 1..Len(a) : c[i] = a[i]
        /\ \A i \in 1..Len(b) : c[Len(a) + i] = b[i]
    BY <1>4, <1>5, <1>6
  <2> QED
    BY <1>3, <2>1, RowIs
<1>8. FlattenSeq(c) = FlattenSeq(a) \o FlattenSeq(b)
  BY <1>3, <1>7, FlattenConcat
<1> QED
  BY <1>2, <1>8, UnescapeDef

\* A byte alone is left.
LEMMA UnescapeOne ==
  ASSUME NEW c \in Bytes, NEW chars
  PROVE  Unescape(<<c>>, chars) = <<c>>
<1>1. <<c>> \in Text /\ Len(<<c>>) = 1 /\ <<c>>[1] = c
  BY Singles DEF Text
<1>2. PICK u : u = Uns(<<c>>, chars)
  OBVIOUS
<1>3. u \in Seq(Text) /\ Len(u) = 1 /\ u[1] = <<c>>
  BY <1>1, <1>2, UnsText
<1>4. u = <<u[1]>>
  <2>1. \A i \in 1..1 : i = 1
    OBVIOUS
  <2>2. <<u[1]>> \in Seq(Text) /\ Len(<<u[1]>>) = 1 /\ <<u[1]>>[1] = u[1]
    BY <1>1, <1>3, Singles
  <2> QED
    BY <1>3, <2>1, <2>2, SeqEqual
<1> QED
  BY <1>1, <1>2, <1>3, <1>4, UnescapeDef, FlattenOne

\* An escaped byte comes back.
LEMMA UnescapeEsc ==
  ASSUME NEW c \in Bytes, NEW chars, Backslash \notin chars
  PROVE  Unescape(Esc(c, chars), chars) = <<c>>
<1>1. CASE c \notin chars
  BY <1>1, UnescapeOne DEF Esc
<1>2. CASE c \in chars
  <2>0. Backslash \in Bytes
    BY BytesAssumption
  <2>1. /\ <<Backslash, c>> \in Text /\ Len(<<Backslash, c>>) = 2
        /\ <<Backslash, c>>[1] = Backslash /\ <<Backslash, c>>[2] = c
    BY <2>0, Singles DEF Text
  <2>2. PICK p \in Text : p = <<Backslash, c>>
    BY <2>1
  <2>3. PICK u : u = Uns(p, chars)
    OBVIOUS
  <2>4. u \in Seq(Text) /\ Len(u) = Len(p)
        /\ \A i \in 1..Len(p) : u[i] = IF p[i] = Backslash /\ i < Len(p) /\ p[i + 1] \in chars
                                       THEN <<>> ELSE <<p[i]>>
    BY <2>3, UnsText
  <2>8. u \in Seq(Text) /\ Len(u) = 2 /\ u[1] = <<>> /\ u[2] = <<c>>
    <3>1. Len(p) = 2 /\ p[1] = Backslash /\ p[2] = c /\ 1 \in 1..2 /\ 2 \in 1..2 /\ 1 + 1 = 2
      BY <2>1, <2>2
    <3> QED
      BY <1>2, <2>4, <3>1
  <2>5. <<>> \in Text /\ <<c>> \in Text
    BY EmptySeq, Singles DEF Text
  <2>6. FlattenSeq(u) = <<>> \o <<c>>
    <3>1. PICK x, y : x = <<>> /\ y = <<c>> /\ x \in Text /\ y \in Text
      BY <2>5
    <3>s. /\ <<x>> \in Seq(Text) /\ Len(<<x>>) = 1 /\ <<x>>[1] = x
          /\ <<y>> \in Seq(Text) /\ Len(<<y>>) = 1 /\ <<y>>[1] = y
      <4>1. x \in Text /\ y \in Text
        BY <3>1
      <4> QED
        BY <4>1, Singles
    <3>p. PICK xs, ys : xs = <<x>> /\ ys = <<y>>
      OBVIOUS
    <3>2. /\ xs = <<x>> /\ ys = <<y>> /\ xs \in Seq(Text) /\ ys \in Seq(Text)
          /\ Len(xs) = 1 /\ Len(ys) = 1 /\ xs[1] = x /\ ys[1] = y
      BY <3>s, <3>p
    <3>3. /\ Len(u) = Len(xs) + Len(ys)
          /\ \A i \in 1..Len(xs) : u[i] = xs[i]
          /\ \A i \in 1..Len(ys) : u[Len(xs) + i] = ys[i]
      BY <2>8, <3>1, <3>2
    <3>4. u = xs \o ys
      BY <2>8, <3>2, <3>3, RowIs
    <3>5. FlattenSeq(xs) = x /\ FlattenSeq(ys) = y
      BY <3>1, <3>2, FlattenOne
    <3> QED
      BY <3>1, <3>2, <3>4, <3>5, FlattenConcat
  <2>7. <<>> \o <<c>> = <<c>>
    BY <2>5, ConcatEmptySeq DEF Text
  <2> QED
    BY <1>2, <2>2, <2>3, <2>6, <2>7, UnescapeDef DEF Esc
<1> QED
  BY <1>1, <1>2

\* Every text comes back.
LEMMA UnescapeEscape ==
  ASSUME NEW s \in Text, NEW chars, Backslash \notin chars
  PROVE  Unescape(Escape(s, chars), chars) = s
<1> DEFINE G == {t \in Text : Unescape(Escape(t, chars), chars) = t}
<1>k. \A t : t \in G <=> t \in Text /\ Unescape(Escape(t, chars), chars) = t
  OBVIOUS
<1> HIDE DEF G
<1>1. <<>> \in G
  <2>1. <<>> \in Text
    BY EmptySeq DEF Text
  <2>2. Len(Uns(<<>>, chars)) = 0 /\ Uns(<<>>, chars) \in Seq(Text)
    BY <2>1, UnsText
  <2>3. Uns(<<>>, chars) = <<>>
    BY <2>2, EmptySeq
  <2> QED
    BY <1>k, <2>1, <2>3, EscapeEmpty, UnescapeDef, FlattenEmpty
<1>2. ASSUME NEW t \in Text, NEW c \in Bytes, t \in G PROVE Append(t, c) \in G
  <2>1. Append(t, c) \in Text /\ Append(t, c) = t \o <<c>> /\ <<c>> \in Text
    BY AppendProperties, AppendIsConcat, Singles DEF Text
  <2>2. Escape(t \o <<c>>, chars) = Escape(t, chars) \o Esc(c, chars)
    <3>1. PICK u \in Text : u = <<c>>
      BY <2>1
    <3>2. Escape(t \o u, chars) = Escape(t, chars) \o Escape(u, chars)
      BY EscapeConcat
    <3> QED
      BY <3>1, <3>2, EscapeOne
  <2>3. Escape(t, chars) \in Text /\ Esc(c, chars) \in Text
    BY EscapeText, EscText
  <2>4. Apart(Escape(t, chars), Esc(c, chars), chars)
    <3>1. Esc(c, chars)[1] \notin chars
      BY DEF Esc
    <3> QED
      BY <3>1 DEF Apart
  <2>5. Unescape(Escape(t, chars) \o Esc(c, chars), chars) =
          Unescape(Escape(t, chars), chars) \o Unescape(Esc(c, chars), chars)
    BY <2>3, <2>4, UnescapeConcat
  <2>6. Unescape(Escape(t, chars), chars) = t
    BY <1>2, <1>k
  <2>7. Unescape(Escape(Append(t, c), chars), chars) = Append(t, c)
    BY <2>1, <2>2, <2>5, <2>6, UnescapeEsc
  <2> QED
    BY <1>k, <2>1, <2>7
<1>3. Seq(Bytes) \subseteq G
  BY <1>1, <1>2, ByAppend DEF Text
<1> QED
  BY <1>3, <1>k DEF Text

---------------------------------------------------------------------------
(* What is escaped.                                                        *)

\* Exactly one backslash before place j.
Lone(t, j) == j > 1 /\ t[j - 1] = Backslash /\ (j > 2 => t[j - 2] # Backslash)
Guarded(t, D) == \A j \in 1..Len(t) : t[j] \in D => Lone(t, j)
Ends(t) == t # <<>> /\ t[Len(t)] = Backslash
Calm(s, chars) == \A i \in 2..Len(s) : s[i] \in chars => s[i - 1] # Backslash

\* A place of the first part is behind a lone backslash in the row if it is there.
LEMMA LoneLeft ==
  ASSUME NEW a \in Text, NEW b \in Text, NEW j \in 1..Len(a)
  PROVE  (a \o b)[j] = a[j] /\ (Lone(a \o b, j) <=> Lone(a, j))
<1>1. /\ Len(a) \in Nat /\ \A i \in 1..Len(a) : (a \o b)[i] = a[i]
  BY Both DEF Text
<1>2. j > 1 => j - 1 \in 1..Len(a) /\ (a \o b)[j - 1] = a[j - 1]
  BY <1>1
<1>3. j > 2 => j - 2 \in 1..Len(a) /\ (a \o b)[j - 2] = a[j - 2]
  BY <1>1
<1> QED
  BY <1>1, <1>2, <1>3 DEF Lone

\* A row of guarded texts is guarded, unless one more backslash follows one.
LEMMA GuardedConcat ==
  ASSUME NEW a \in Text, NEW b \in Text, NEW D, Guarded(a, D), Guarded(b, D),
         Ends(a) /\ b # <<>> => b[1] # Backslash
  PROVE  Guarded(a \o b, D)
<1>1. /\ Len(a) \in Nat /\ Len(b) \in Nat /\ Len(a \o b) = Len(a) + Len(b)
      /\ \A i \in 1..Len(a) : (a \o b)[i] = a[i]
      /\ \A i \in 1..Len(b) : (a \o b)[Len(a) + i] = b[i]
  BY Both DEF Text
<1> SUFFICES ASSUME NEW j \in 1..Len(a \o b), (a \o b)[j] \in D
             PROVE  Lone(a \o b, j)
  BY DEF Guarded
<1>2. CASE j <= Len(a)
  <2>1. j \in 1..Len(a)
    BY <1>1, <1>2
  <2> QED
    BY <2>1, LoneLeft DEF Guarded
<1>3. CASE j > Len(a)
  <2>1. PICK i \in 1..Len(b) : j = Len(a) + i
    <3>1. j - Len(a) \in 1..Len(b) /\ j = Len(a) + (j - Len(a))
      BY <1>1, <1>3
    <3> QED
      BY <3>1
  <2>2. b[i] \in D /\ Lone(b, i)
    BY <1>1, <2>1 DEF Guarded
  <2>3. i > 1 /\ b[i - 1] = Backslash /\ (i > 2 => b[i - 2] # Backslash)
    BY <2>2 DEF Lone
  <2>4. i - 1 \in 1..Len(b) /\ (a \o b)[j - 1] = b[i - 1]
    <3>1. i - 1 \in 1..Len(b) /\ j - 1 = Len(a) + (i - 1)
      BY <1>1, <2>1, <2>3
    <3> QED
      BY <1>1, <3>1
  <2>5. CASE i > 2
    <3>1. i - 2 \in 1..Len(b) /\ j - 2 = Len(a) + (i - 2)
      BY <1>1, <2>1, <2>5
    <3>2. (a \o b)[j - 2] = b[i - 2]
      BY <1>1, <3>1
    <3> QED
      BY <1>1, <2>1, <2>3, <2>4, <2>5, <3>2 DEF Lone
  <2>6. CASE i = 2
    <3>1. b # <<>> /\ b[1] = Backslash
      BY <1>1, <2>3, <2>6, EmptySeq
    <3>2. ~Ends(a)
      BY <3>1
    <3>3. j > 2 => Len(a) \in 1..Len(a) /\ j - 2 = Len(a) /\ a # <<>>
      BY <1>1, <2>1, <2>6, EmptySeq
    <3>4. j > 2 => (a \o b)[j - 2] # Backslash
      BY <1>1, <3>2, <3>3 DEF Ends
    <3> QED
      BY <1>1, <2>1, <2>3, <2>4, <3>4 DEF Lone
  <2> QED
    BY <2>3, <2>5, <2>6
<1> QED
  BY <1>1, <1>2, <1>3

\* What a sequence in a row ends with.
LEMMA EndsConcat ==
  ASSUME NEW a \in Text, NEW b \in Text
  PROVE  /\ b # <<>> => (Ends(a \o b) <=> Ends(b))
         /\ b = <<>> => a \o b = a
<1>1. /\ Len(a) \in Nat /\ Len(b) \in Nat /\ Len(a \o b) = Len(a) + Len(b)
      /\ a \o b \in Text
      /\ \A i \in 1..Len(b) : (a \o b)[Len(a) + i] = b[i]
  BY Both DEF Text
<1>2. b = <<>> => a \o b = a
  BY ConcatEmptySeq DEF Text
<1>3. ASSUME b # <<>> PROVE Ends(a \o b) <=> Ends(b)
  <2>1. Len(b) \in 1..Len(b) /\ Len(a) + Len(b) # 0
    BY <1>1, <1>3, EmptySeq DEF Text
  <2>2. a \o b # <<>>
    BY <1>1, <2>1, EmptySeq DEF Text
  <2> QED
    BY <1>1, <1>3, <2>1, <2>2 DEF Ends
<1> QED
  BY <1>2, <1>3

\* A byte is guarded when it is escaped.
LEMMA EscGuarded ==
  ASSUME NEW c \in Bytes, NEW chars, Backslash \notin chars
  PROVE  /\ Guarded(Esc(c, chars), chars) /\ Esc(c, chars) # <<>>
         /\ Esc(c, chars)[1] = (IF c \in chars THEN Backslash ELSE c)
         /\ Ends(Esc(c, chars)) <=> c = Backslash
<1>0. Backslash \in Bytes
  BY BytesAssumption
<1>1. CASE c \in chars
  <2>0. PICK p : p = <<Backslash, c>>
    OBVIOUS
  <2>1. p = <<Backslash, c>> /\ Len(p) = 2 /\ p[1] = Backslash /\ p[2] = c /\ p # <<>>
    BY <1>0, <2>0, Singles, EmptySeq
  <2>2. \A j \in 1..2 : j = 1 \/ j = 2
    OBVIOUS
  <2>3. Guarded(p, chars)
    BY <2>1, <2>2 DEF Guarded, Lone
  <2> QED
    BY <1>1, <2>1, <2>3 DEF Esc, Ends
<1>2. CASE c \notin chars
  <2>0. PICK p : p = <<c>>
    OBVIOUS
  <2>1. p = <<c>> /\ Len(p) = 1 /\ p[1] = c /\ p # <<>>
    BY <2>0, Singles, EmptySeq
  <2>2. \A j \in 1..1 : j = 1
    OBVIOUS
  <2>3. Guarded(p, chars)
    BY <1>2, <2>1, <2>2 DEF Guarded, Lone
  <2> QED
    BY <1>2, <2>1, <2>3 DEF Esc, Ends
<1> QED
  BY <1>1, <1>2

\* A calm text is guarded when it is escaped, and ends as it did.
LEMMA EscapeGuarded ==
  ASSUME NEW s \in Text, NEW chars, Backslash \notin chars, Calm(s, chars)
  PROVE  /\ Guarded(Escape(s, chars), chars)
         /\ Ends(Escape(s, chars)) <=> Ends(s)
         /\ Escape(s, chars) = <<>> <=> s = <<>>
<1> DEFINE Good(t) == Calm(t, chars) =>
                        /\ Guarded(Escape(t, chars), chars)
                        /\ Ends(Escape(t, chars)) <=> Ends(t)
                        /\ Escape(t, chars) = <<>> <=> t = <<>>
           G == {t \in Text : Good(t)}
<1>k. \A t : t \in G <=> t \in Text /\ Good(t)
  OBVIOUS
<1> HIDE DEF G
<1>1. <<>> \in G
  <2>1. Escape(<<>>, chars) = <<>> /\ <<>> \in Text /\ Len(<<>>) = 0
    BY EscapeEmpty, EmptySeq DEF Text
  <2>2. Guarded(<<>>, chars)
    BY <2>1 DEF Guarded
  <2> QED
    BY <1>k, <2>1, <2>2
<1>2. ASSUME NEW t \in Text, NEW c \in Bytes, t \in G PROVE Append(t, c) \in G
  <2>1. PICK u : u = Append(t, c)
    OBVIOUS
  <2>2. /\ u \in Text /\ u # <<>> /\ Len(u) = Len(t) + 1 /\ u[Len(t) + 1] = c /\ Len(t) \in Nat
        /\ \A i \in 1..Len(t) : u[i] = t[i]
    BY <2>1, AppendProperties, LenProperties DEF Text
  <2>3. Escape(u, chars) = Escape(t, chars) \o Esc(c, chars)
    <3>1. PICK v \in Text : v = <<c>>
      BY EscapeOne
    <3>2. Escape(t \o v, chars) = Escape(t, chars) \o Escape(v, chars)
      BY EscapeConcat
    <3>3. u = t \o v
      BY <2>1, <3>1, AppendIsConcat DEF Text
    <3> QED
      BY <3>1, <3>2, <3>3, EscapeOne
  <2>4. Ends(u) <=> c = Backslash
    BY <2>2 DEF Ends
  <2>5. ASSUME Calm(u, chars)
        PROVE  /\ Guarded(Escape(u, chars), chars)
               /\ Ends(Escape(u, chars)) <=> Ends(u)
               /\ Escape(u, chars) = <<>> <=> u = <<>>
    <3>1. Calm(t, chars)
      <4>1. ASSUME NEW i \in 2..Len(t), t[i] \in chars PROVE t[i - 1] # Backslash
        <5>1. i \in 1..Len(t) /\ i - 1 \in 1..Len(t) /\ i \in 2..Len(u)
          BY <2>2
        <5> QED
          BY <2>2, <2>5, <4>1, <5>1 DEF Calm
      <4> QED
        BY <4>1 DEF Calm
    <3>2. /\ Guarded(Escape(t, chars), chars)
          /\ Ends(Escape(t, chars)) <=> Ends(t)
          /\ Escape(t, chars) = <<>> <=> t = <<>>
      BY <1>2, <1>k, <3>1
    <3>3. PICK a, b : a = Escape(t, chars) /\ b = Esc(c, chars)
      OBVIOUS
    <3>4. a \in Text /\ b \in Text
      BY <3>3, EscapeText, EscText
    <3>5. /\ Guarded(b, chars) /\ b # <<>> /\ b[1] = (IF c \in chars THEN Backslash ELSE c)
          /\ Ends(b) <=> c = Backslash
      BY <3>3, EscGuarded
    <3>6. Ends(a) /\ b # <<>> => b[1] # Backslash \/ c = Backslash
      <4>1. ASSUME Ends(t), c \in chars PROVE FALSE
        <5>1. Len(t) \in 1..Len(t) /\ Len(u) \in 2..Len(u) /\ Len(u) - 1 = Len(t)
          BY <2>2, <4>1, EmptySeq DEF Ends, Text
        <5>2. u[Len(u)] \in chars /\ u[Len(u) - 1] = Backslash
          BY <2>2, <4>1, <5>1 DEF Ends
        <5> QED
          BY <2>5, <5>1, <5>2 DEF Calm
      <4> QED
        BY <3>2, <3>3, <3>5, <4>1
    <3>7. Guarded(a \o b, chars)
      <4>1. CASE c = Backslash
        <5>1. b = <<c>> /\ Len(b) = 1 /\ b[1] = c
          BY <3>3, <4>1 DEF Esc
        <5>2. /\ Len(a) \in Nat /\ Len(a \o b) = Len(a) + 1 /\ (a \o b)[Len(a) + 1] = b[1]
              /\ \A j \in 1..Len(a) : (a \o b)[j] = a[j]
          BY <3>4, <5>1, Both DEF Text
        <5>3. ASSUME NEW j \in 1..Len(a \o b), (a \o b)[j] \in chars PROVE Lone(a \o b, j)
          <6>1. j # Len(a) + 1
            BY <4>1, <5>1, <5>2, <5>3
          <6>2. j \in 1..Len(a)
            BY <5>2, <6>1
          <6> QED
            BY <3>2, <3>3, <3>4, <5>2, <5>3, <6>2, LoneLeft DEF Guarded
        <5> QED
          BY <5>3 DEF Guarded
      <4>2. CASE c # Backslash
        BY <3>2, <3>3, <3>4, <3>5, <3>6, <4>2, GuardedConcat
      <4> QED
        BY <4>1, <4>2
    <3>8. Ends(a \o b) <=> Ends(b)
      BY <3>4, <3>5, EndsConcat
    <3>9. a \o b # <<>>
      BY <3>4, <3>5, ConcatEqualIffEmpty DEF Text
    <3> QED
      BY <2>2, <2>3, <2>4, <3>3, <3>5, <3>7, <3>8, <3>9
  <2> QED
    BY <1>k, <2>1, <2>2, <2>5
<1>3. Seq(Bytes) \subseteq G
  BY <1>1, <1>2, ByAppend DEF Text
<1> QED
  BY <1>3, <1>k DEF Text

---------------------------------------------------------------------------
(* Searching.                                                              *)

\* Max by its definition.
LEMMA MaxIs ==
  ASSUME NEW S, S \subseteq Int, NEW m \in S, \A y \in S : m >= y
  PROVE  Max(S) = m
<1>1. \E x \in S : \A y \in S : x >= y
  OBVIOUS
<1>2. PICK x : x = Max(S)
  OBVIOUS
<1>3. x \in S /\ \A y \in S : x >= y
  BY <1>1, <1>2 DEF Max
<1>4. x >= m /\ m >= x /\ x \in Int /\ m \in Int
  BY <1>3
<1> QED
  BY <1>2, <1>4

\* The least one, by its definition.
LEMMA MinIs ==
  ASSUME NEW S, S \subseteq Int, NEW m \in S, \A y \in S : m <= y
  PROVE  MinOr0(S) = m
<1>1. \E x \in S : \A y \in S : x =< y
  OBVIOUS
<1>2. PICK x : x = Min(S)
  OBVIOUS
<1>3. x \in S /\ \A y \in S : x =< y
  BY <1>1, <1>2 DEF Min
<1>4. x =< m /\ m =< x /\ x \in Int /\ m \in Int
  BY <1>3
<1>5. x = m /\ S # {}
  BY <1>4
<1> QED
  BY <1>2, <1>5 DEF MinOr0

\* No backslash ends there.
LEMMA CountNone ==
  ASSUME NEW s, NEW i \in Nat, i = 0 \/ s[i] # Backslash
  PROVE  CountBackslashes(s, i) = 0
<1> DEFINE S == {0} \cup {j \in 1..i : s[j] # Backslash}
<1>1. S \subseteq Int /\ i \in S /\ \A y \in S : i >= y
  OBVIOUS
<1>2. Max(S) = i
  <2> HIDE DEF S
  <2> QED
    BY <1>1, MaxIs
<1> QED
  BY <1>2 DEF CountBackslashes

\* Exactly one does.
LEMMA CountOne ==
  ASSUME NEW s, NEW i \in Nat \ {0}, s[i] = Backslash, i > 1 => s[i - 1] # Backslash
  PROVE  CountBackslashes(s, i) = 1
<1> DEFINE S == {0} \cup {j \in 1..i : s[j] # Backslash}
<1>1. S \subseteq Int /\ i - 1 \in S /\ \A y \in S : i - 1 >= y
  <2>1. i - 1 \in S
    <3>1. CASE i = 1
      BY <3>1
    <3>2. CASE i > 1
      <4>1. i - 1 \in 1..i
        BY <3>2
      <4> QED
        BY <3>2, <4>1
    <3> QED
      BY <3>1, <3>2
  <2>2. ASSUME NEW y \in S PROVE y \in Int /\ i - 1 >= y
    <3>1. CASE y = 0
      BY <3>1
    <3>2. CASE y # 0
      <4>1. y \in 1..i /\ s[y] # Backslash
        BY <3>2
      <4>2. y # i
        BY <4>1
      <4> QED
        BY <4>1, <4>2
    <3> QED
      BY <3>1, <3>2
  <2> QED
    BY <2>1, <2>2
<1>2. Max(S) = i - 1
  <2> HIDE DEF S
  <2> QED
    BY <1>1, MaxIs
<1> QED
  BY <1>2 DEF CountBackslashes

\* What stands behind one backslash is no find.
LEMMA CountLone ==
  ASSUME NEW s, NEW j \in Nat, Lone(s, j)
  PROVE  CountBackslashes(s, j - 1) % 2 = 1
<1>1. /\ j - 1 \in Nat \ {0} /\ s[j - 1] = Backslash
      /\ j - 1 > 1 => s[(j - 1) - 1] # Backslash
  <2>1. j > 1 /\ s[j - 1] = Backslash /\ (j > 2 => s[j - 2] # Backslash)
    BY DEF Lone
  <2>2. (j - 1) - 1 = j - 2
    OBVIOUS
  <2> QED
    BY <2>1, <2>2
<1>2. CountBackslashes(s, j - 1) = 1
  BY <1>1, CountOne
<1> QED
  BY <1>2

\* The first place not behind a lone backslash is the one that is found.
LEMMA FirstAt ==
  ASSUME NEW s \in Text, NEW b, NEW n \in 1..Len(s), s[n] = b,
         n > 1 => s[n - 1] # Backslash,
         \A j \in 1..(n - 1) : s[j] = b => Lone(s, j)
  PROVE  IndexUnescaped(s, b) = n
<1> DEFINE S == {i \in DOMAIN s : s[i] = b /\ CountBackslashes(s, i - 1) % 2 = 0}
<1>1. DOMAIN s = 1..Len(s) /\ Len(s) \in Nat
  BY LenProperties DEF Text
<1>2. n \in S
  <2>1. n - 1 \in Nat /\ (n - 1 = 0 \/ s[n - 1] # Backslash)
    OBVIOUS
  <2>2. CountBackslashes(s, n - 1) = 0
    BY <2>1, CountNone
  <2> QED
    BY <1>1, <2>2
<1>3. ASSUME NEW y \in S PROVE n <= y
  <2>1. SUFFICES ASSUME y < n PROVE FALSE
    BY <1>1
  <2>2. y \in 1..(n - 1) /\ s[y] = b /\ CountBackslashes(s, y - 1) % 2 = 0 /\ y \in Nat
    BY <1>1, <2>1
  <2>3. CountBackslashes(s, y - 1) % 2 = 1
    BY <2>2, CountLone
  <2> QED
    BY <2>2, <2>3
<1>4. S \subseteq Int
  BY <1>1
<1>5. MinOr0(S) = n
  <2> HIDE DEF S
  <2> QED
    BY <1>2, <1>3, <1>4, MinIs
<1> QED
  BY <1>5 DEF IndexUnescaped

\* In a guarded text there is nothing to find.
LEMMA NoneAt ==
  ASSUME NEW s \in Text, NEW D, NEW b \in D, Guarded(s, D)
  PROVE  IndexUnescaped(s, b) = 0
<1> DEFINE S == {i \in DOMAIN s : s[i] = b /\ CountBackslashes(s, i - 1) % 2 = 0}
<1>1. DOMAIN s = 1..Len(s) /\ Len(s) \in Nat
  BY LenProperties DEF Text
<1>2. ASSUME NEW y \in S PROVE FALSE
  <2>1. y \in 1..Len(s) /\ s[y] = b /\ CountBackslashes(s, y - 1) % 2 = 0 /\ y \in Nat
    BY <1>1
  <2>2. Lone(s, y)
    BY <2>1 DEF Guarded
  <2>3. CountBackslashes(s, y - 1) % 2 = 1
    BY <2>1, <2>2, CountLone
  <2> QED
    BY <2>1, <2>3
<1>3. S = {}
  BY <1>2
<1> QED
  BY <1>3 DEF IndexUnescaped, MinOr0

\* The first find is where the guarded text ends.
LEMMA FirstBehind ==
  ASSUME NEW a \in Text, NEW r \in Text, NEW D, NEW b \in D,
         Guarded(a, D), ~Ends(a), r # <<>>, r[1] = b
  PROVE  IndexUnescaped(a \o r, b) = Len(a) + 1
<1>1. /\ a \o r \in Text /\ Len(a \o r) = Len(a) + Len(r) /\ Len(a) \in Nat /\ Len(r) \in Nat
      /\ \A i \in 1..Len(a) : (a \o r)[i] = a[i]
      /\ \A i \in 1..Len(r) : (a \o r)[Len(a) + i] = r[i]
  BY Both DEF Text
<1>2. 1 \in 1..Len(r)
  BY <1>1, EmptySeq DEF Text
<1>3. Len(a) + 1 \in 1..Len(a \o r) /\ (a \o r)[Len(a) + 1] = b
  BY <1>1, <1>2
<1>4. Len(a) + 1 > 1 => (a \o r)[(Len(a) + 1) - 1] # Backslash
  <2>1. ASSUME Len(a) + 1 > 1 PROVE (a \o r)[(Len(a) + 1) - 1] # Backslash
    <3>1. Len(a) \in 1..Len(a) /\ (Len(a) + 1) - 1 = Len(a)
      BY <1>1, <2>1
    <3>2. a # <<>>
      BY <3>1, EmptySeq
    <3> QED
      BY <1>1, <3>1, <3>2 DEF Ends
  <2> QED
    BY <2>1
<1>5. ASSUME NEW j \in 1..((Len(a) + 1) - 1), (a \o r)[j] = b
      PROVE  Lone(a \o r, j)
  <2>1. j \in 1..Len(a)
    BY <1>1
  <2>2. Lone(a, j)
    BY <1>1, <1>5, <2>1 DEF Guarded
  <2> QED
    BY <2>1, <2>2, LoneLeft
<1>6. PICK s \in Text : s = a \o r
  BY <1>1
<1> QED
  BY <1>3, <1>4, <1>5, <1>6, FirstAt

---------------------------------------------------------------------------
(* Cutting.                                                                *)

\* The parts of a row are found where they meet.
LEMMA CutConcat ==
  ASSUME NEW S, NEW a \in Seq(S), NEW r \in Seq(S)
  PROVE  /\ SubSeq(a \o r, 1, Len(a)) = a
         /\ From(a \o r, Len(a) + 1) = r
<1>1. /\ a \o r \in Seq(S) /\ Len(a \o r) = Len(a) + Len(r) /\ Len(a) \in Nat /\ Len(r) \in Nat
      /\ \A i \in 1..Len(a) : (a \o r)[i] = a[i]
      /\ \A i \in 1..Len(r) : (a \o r)[Len(a) + i] = r[i]
  BY Both
<1>2. PICK w \in Seq(S) : w = a \o r
  BY <1>1
<1>3. \A i \in 1..Len(w) : w[i] \in S
  BY ElementOfSeq
<1>4. SubSeq(w, 1, Len(a)) = a
  <2>1. \A i \in 1..Len(a) : w[i] \in S
    BY <1>1, <1>2, <1>3
  <2>2. /\ SubSeq(w, 1, Len(a)) \in Seq(S)
        /\ Len(SubSeq(w, 1, Len(a))) = IF 1 <= Len(a) THEN Len(a) - 1 + 1 ELSE 0
        /\ \A i \in 1..(Len(a) - 1 + 1) : SubSeq(w, 1, Len(a))[i] = w[1 + i - 1]
    BY <1>1, <2>1, SubSeqProperties
  <2>3. PICK u : u = SubSeq(w, 1, Len(a))
    OBVIOUS
  <2>4. u \in Seq(S) /\ Len(u) = Len(a)
    BY <1>1, <2>2, <2>3
  <2>5. ASSUME NEW i \in 1..Len(u) PROVE u[i] = a[i]
    <3>1. i \in 1..(Len(a) - 1 + 1) /\ 1 + i - 1 = i /\ i \in 1..Len(a)
      BY <1>1, <2>4
    <3> QED
      BY <1>1, <1>2, <2>2, <2>3, <3>1
  <2> QED
    BY <2>3, <2>4, <2>5, SeqEqual
<1>5. From(w, Len(a) + 1) = r
  <2>1. \A i \in (Len(a) + 1)..Len(w) : w[i] \in S
    BY <1>1, <1>2, <1>3
  <2>2. /\ SubSeq(w, Len(a) + 1, Len(w)) \in Seq(S)
        /\ Len(SubSeq(w, Len(a) + 1, Len(w))) =
             IF Len(a) + 1 <= Len(w) THEN Len(w) - (Len(a) + 1) + 1 ELSE 0
        /\ \A i \in 1..(Len(w) - (Len(a) + 1) + 1) :
             SubSeq(w, Len(a) + 1, Len(w))[i] = w[Len(a) + 1 + i - 1]
    <3>1. Len(a) + 1 \in Int /\ Len(w) \in Int
      BY <1>1, <1>2
    <3> QED
      BY <2>1, <3>1, SubSeqProperties
  <2>3. PICK u : u = SubSeq(w, Len(a) + 1, Len(w))
    OBVIOUS
  <2>4. u \in Seq(S) /\ Len(u) = Len(r)
    <3>1. Len(w) = Len(a) + Len(r)
      BY <1>1, <1>2
    <3> QED
      BY <1>1, <2>2, <2>3, <3>1
  <2>5. ASSUME NEW i \in 1..Len(u) PROVE u[i] = r[i]
    <3>1. /\ i \in 1..(Len(w) - (Len(a) + 1) + 1) /\ Len(a) + 1 + i - 1 = Len(a) + i
          /\ i \in 1..Len(r)
      BY <1>1, <1>2, <2>4
    <3> QED
      BY <1>1, <1>2, <2>2, <2>3, <3>1
  <2>6. u = r
    BY <2>4, <2>5, SeqEqual
  <2> QED
    BY <2>3, <2>6 DEF From
<1> QED
  BY <1>2, <1>4, <1>5

\* The middle one of three.
LEMMA CutMiddle ==
  ASSUME NEW S, NEW a \in Seq(S), NEW b \in Seq(S), NEW c \in Seq(S)
  PROVE  /\ SubSeq(a \o (b \o c), Len(a) + 1, Len(a) + Len(b)) = b
         /\ From(a \o (b \o c), Len(a) + Len(b) + 1) = c
<1>1. a \o b \in Seq(S) /\ b \o c \in Seq(S) /\ Len(a \o b) = Len(a) + Len(b)
      /\ Len(a) \in Nat /\ Len(b) \in Nat /\ Len(c) \in Nat /\ Len(b \o c) = Len(b) + Len(c)
  BY Both
<1>2. a \o (b \o c) = (a \o b) \o c
  BY ConcatAssociative
<1>3. From((a \o b) \o c, Len(a \o b) + 1) = c
  BY <1>1, CutConcat
<1>4. CASE b = <<>>
  <2>1. Len(b) = 0 /\ Len(a) + Len(b) < Len(a) + 1 /\ Len(a) + 1 \in Int /\ Len(a) + Len(b) \in Int
    BY <1>1, <1>4, EmptySeq
  <2>2. SubSeq(a \o (b \o c), Len(a) + 1, Len(a) + Len(b)) = <<>>
    BY <2>1, SubSeqEmpty
  <2> QED
    BY <1>1, <1>2, <1>3, <1>4, <2>2
<1>5. CASE b # <<>>
  <2>1. 1 \in 1..Len(b) /\ Len(b) \in 1..Len(b)
    BY <1>1, <1>5, EmptySeq
  <2>2. PICK r \in Seq(S) : r = b \o c
    BY <1>1
  <2>3. /\ Len(a) + 1 \in Len(a) + 1 .. Len(a) + Len(r)
        /\ Len(a) + Len(b) \in Len(a) + 1 .. Len(a) + Len(r)
    BY <1>1, <2>1, <2>2
  <2>4. SubSeq(a \o r, Len(a) + 1, Len(a) + Len(b)) =
          SubSeq(r, (Len(a) + 1) - Len(a), (Len(a) + Len(b)) - Len(a))
    BY <2>3, SubSeqOfConcat2
  <2>5. (Len(a) + 1) - Len(a) = 1 /\ (Len(a) + Len(b)) - Len(a) = Len(b)
    BY <1>1
  <2>6. SubSeq(r, 1, Len(b)) = b
    BY <2>2, CutConcat
  <2>7. SubSeq(a \o (b \o c), Len(a) + 1, Len(a) + Len(b)) = b
    BY <2>2, <2>4, <2>5, <2>6
  <2> QED
    BY <1>1, <1>2, <1>3, <2>7
<1> QED
  BY <1>4, <1>5

---------------------------------------------------------------------------
(* Keys, tags and fields in a row.                                         *)

\* The backslash itself is never escaped.
LEMMA NoBackslash ==
  Backslash \notin KeyChars /\ Backslash \notin NameChars /\ Backslash \notin ValueChars
  BY DEF Comma, Backslash, Quote, KeyChars, NameChars, ValueChars

\* The bytes the protocol is made of.
LEMMA Marks ==
  /\ <<Comma>> \in Text /\ Len(<<Comma>>) = 1 /\ <<Comma>>[1] = Comma /\ <<Comma>> # <<>>
  /\ <<"=">> \in Text /\ Len(<<"=">>) = 1 /\ <<"=">>[1] = "=" /\ <<"=">> # <<>>
  /\ <<Quote>> \in Text /\ Len(<<Quote>>) = 1 /\ <<Quote>>[1] = Quote /\ <<Quote>> # <<>>
  /\ Comma \in KeyChars /\ "=" \in KeyChars /\ Quote \in ValueChars
  /\ Comma # Backslash /\ "=" # Backslash /\ Quote # Backslash /\ Comma # "="
<1>1. Comma \in Bytes /\ "=" \in Bytes /\ Quote \in Bytes
  BY BytesAssumption DEF KeyChars
<1>2. ASSUME NEW b \in Bytes
      PROVE  <<b>> \in Text /\ Len(<<b>>) = 1 /\ <<b>>[1] = b /\ <<b>> # <<>>
  BY Singles, EmptySeq DEF Text
<1>3. /\ Comma \in KeyChars /\ "=" \in KeyChars /\ Quote \in ValueChars
      /\ Comma # Backslash /\ "=" # Backslash /\ Quote # Backslash /\ Comma # "="
  BY DEF KeyChars, ValueChars, Comma, Quote, Backslash
<1> QED
  BY <1>1, <1>2, <1>3

\* A plain text is calm and does not end with a backslash; escaped, it holds
\* no special character that is not behind exactly one backslash.
LEMMA PlainEscaped ==
  ASSUME NEW s, NEW chars, Plain(s, chars), Backslash \notin chars
  PROVE  /\ s \in Text /\ Escape(s, chars) \in Text
         /\ Guarded(Escape(s, chars), chars) /\ ~Ends(Escape(s, chars))
         /\ Escape(s, chars) = <<>> <=> s = <<>>
<1>1. s \in Text /\ DOMAIN s = 1..Len(s) /\ Len(s) \in Nat
  BY LenProperties DEF Plain, Text
<1>2. \A i \in 1..Len(s) : s[i] = Backslash => i < Len(s) /\ s[i + 1] \notin chars
  BY <1>1 DEF Plain
<1>3. Calm(s, chars)
  <2>1. ASSUME NEW i \in 2..Len(s), s[i] \in chars PROVE s[i - 1] # Backslash
    <3>1. i - 1 \in 1..Len(s) /\ (i - 1) + 1 = i
      BY <1>1
    <3> QED
      BY <1>2, <2>1, <3>1
  <2> QED
    BY <2>1 DEF Calm
<1>4. ~Ends(s)
  <2>1. SUFFICES ASSUME s # <<>>, s[Len(s)] = Backslash PROVE FALSE
    BY DEF Ends
  <2>2. Len(s) \in 1..Len(s)
    BY <1>1, <2>1, EmptySeq DEF Text
  <2> QED
    BY <1>1, <1>2, <2>1, <2>2
<1> QED
  BY <1>1, <1>3, <1>4, EscapeGuarded, EscapeText

Lines(f, p) == [i \in DOMAIN p |-> f[p[i]]]
Line(f, p) == FlattenSeq(Lines(f, p))

\* The rows are texts.
LEMMA LinesText ==
  ASSUME NEW S, NEW f \in [S -> Text], NEW p \in Seq(S)
  PROVE  /\ Lines(f, p) \in Seq(Text) /\ Len(Lines(f, p)) = Len(p)
         /\ \A i \in 1..Len(p) : Lines(f, p)[i] = f[p[i]]
<1>1. Len(p) \in Nat /\ DOMAIN p = 1..Len(p)
  BY LenProperties
<1>2. \A i \in 1..Len(p) : f[p[i]] \in Text
  BY ElementOfSeq
<1>3. Lines(f, p) = [i \in 1..Len(p) |-> f[p[i]]]
  BY <1>1 DEF Lines
<1>4. Lines(f, p) \in Seq(Text)
  BY <1>1, <1>2, <1>3, IsASeq
<1> QED
  BY <1>1, <1>3, <1>4

\* So is the line.
LEMMA LineText ==
  ASSUME NEW S, NEW f \in [S -> Text], NEW p \in Seq(S)
  PROVE  Line(f, p) \in Text
  BY LinesText, FlattenText DEF Line

\* No rows make an empty line.
LEMMA LineEmpty == \A f : Line(f, <<>>) = <<>>
<1>1. ASSUME NEW f PROVE Line(f, <<>>) = <<>>
  <2>1. Lines(f, <<>>) = <<>>
    BY DEF Lines
  <2> QED
    BY <2>1, FlattenEmpty DEF Line
<1> QED
  BY <1>1

\* RowIs, for sequences of texts.
LEMMA RowOfTexts ==
  ASSUME NEW a \in Seq(Text), NEW b \in Seq(Text), NEW c \in Seq(Text),
         Len(c) = Len(a) + Len(b),
         \A i \in 1..Len(a) : c[i] = a[i],
         \A i \in 1..Len(b) : c[Len(a) + i] = b[i]
  PROVE  c = a \o b
  BY RowIs

\* The line goes through both parts of a row.
LEMMA LineConcat ==
  ASSUME NEW S, NEW f \in [S -> Text], NEW p \in Seq(S), NEW q \in Seq(S)
  PROVE  Line(f, p \o q) = Line(f, p) \o Line(f, q)
<1>1. /\ p \o q \in Seq(S) /\ Len(p \o q) = Len(p) + Len(q) /\ Len(p) \in Nat /\ Len(q) \in Nat
      /\ \A i \in 1..Len(p) : (p \o q)[i] = p[i]
      /\ \A i \in 1..Len(q) : (p \o q)[Len(p) + i] = q[i]
  BY Both
<1>0. PICK pq \in Seq(S) : pq = p \o q
  BY <1>1
<1>2. PICK a, b, c : a = Lines(f, p) /\ b = Lines(f, q) /\ c = Lines(f, pq)
  OBVIOUS
<1>3. /\ a \in Seq(Text) /\ b \in Seq(Text) /\ c \in Seq(Text)
      /\ Len(a) = Len(p) /\ Len(b) = Len(q) /\ Len(c) = Len(a) + Len(b)
      /\ \A i \in 1..Len(p) : a[i] = f[p[i]]
      /\ \A i \in 1..Len(q) : b[i] = f[q[i]]
      /\ \A i \in 1..(Len(p) + Len(q)) : c[i] = f[pq[i]]
  <2>1. a \in Seq(Text) /\ Len(a) = Len(p) /\ \A i \in 1..Len(p) : a[i] = f[p[i]]
    BY <1>2, LinesText
  <2>2. b \in Seq(Text) /\ Len(b) = Len(q) /\ \A i \in 1..Len(q) : b[i] = f[q[i]]
    BY <1>2, LinesText
  <2>3. c \in Seq(Text) /\ Len(c) = Len(pq) /\ \A i \in 1..Len(pq) : c[i] = f[pq[i]]
    BY <1>2, LinesText
  <2> QED
    BY <1>0, <1>1, <2>1, <2>2, <2>3
<1>4. \A i \in 1..Len(a) : c[i] = a[i]
  BY <1>0, <1>1, <1>3
<1>5. ASSUME NEW i \in 1..Len(b) PROVE c[Len(a) + i] = b[i]
  <2>1. Len(a) + i \in 1..(Len(p) + Len(q)) /\ i \in 1..Len(q)
    BY <1>1, <1>3
  <2>2. pq[Len(a) + i] = q[i]
    BY <1>0, <1>1, <1>3, <2>1
  <2> QED
    BY <1>3, <2>1, <2>2
<1>6. c = a \o b
  <2>1. a \in Seq(Text) /\ b \in Seq(Text) /\ c \in Seq(Text)
    BY <1>3
  <2>2. /\ Len(c) = Len(a) + Len(b)
        /\ \A i \in 1..Len(a) : c[i] = a[i]
        /\ \A i \in 1..Len(b) : c[Len(a) + i] = b[i]
    BY <1>3, <1>4, <1>5
  <2> QED
    BY <2>1, <2>2, RowOfTexts
<1>7. FlattenSeq(a \o b) = FlattenSeq(a) \o FlattenSeq(b)
  BY <1>3, FlattenConcat
<1> QED
  BY <1>0, <1>2, <1>6, <1>7 DEF Line

\* One row is its own line.
LEMMA LineOne ==
  ASSUME NEW S, NEW f \in [S -> Text], NEW x \in S
  PROVE  Line(f, <<x>>) = f[x] /\ <<x>> \in Seq(S)
<1>1. PICK p \in Seq(S) : p = <<x>> /\ Len(p) = 1 /\ p[1] = x
  BY Singles
<1>2. PICK y \in Text : y = f[x]
  OBVIOUS
<1>3. PICK a \in Seq(Text) : a = Lines(f, p) /\ Len(a) = 1 /\ a[1] = y
  <2>1. 1 \in 1..Len(p)
    BY <1>1
  <2> QED
    BY <1>1, <1>2, <2>1, LinesText
<1>4. PICK b \in Seq(Text) : b = <<y>> /\ Len(b) = 1 /\ b[1] = y
  BY Singles
<1>5. a = b
  <2>1. \A i \in 1..Len(a) : a[i] = b[i]
    BY <1>3, <1>4
  <2> HIDE DEF Text
  <2> QED
    BY <1>3, <1>4, <2>1, SeqEqual
<1>6. Line(f, p) = FlattenSeq(<<y>>)
  BY <1>3, <1>4, <1>5 DEF Line
<1> QED
  BY <1>1, <1>2, <1>6, FlattenOne

\* Each row begins with a comma and ends with no backslash.
Rowlike(f, S) ==
  /\ f \in [S -> Text]
  /\ \A x \in S : f[x] # <<>> /\ f[x][1] = Comma /\ ~Ends(f[x])

\* A line begins with its first row.
LEMMA LineCons ==
  ASSUME NEW S, NEW f, Rowlike(f, S), NEW p \in Seq(S), NEW x \in S
  PROVE  Line(f, <<x>> \o p) = f[x] \o Line(f, p)
<1>0. f \in [S -> Text]
  BY DEF Rowlike
<1>1. PICK w \in Seq(S) : w = <<x>> /\ Line(f, w) = f[x]
  BY <1>0, LineOne
<1>2. Line(f, w \o p) = Line(f, w) \o Line(f, p)
  BY <1>0, LineConcat
<1> QED
  BY <1>1, <1>2

\* ... and ends with its last one.
LEMMA LineAppend ==
  ASSUME NEW S, NEW f, Rowlike(f, S), NEW p \in Seq(S), NEW x \in S
  PROVE  Line(f, Append(p, x)) = Line(f, p) \o f[x]
<1>0. f \in [S -> Text]
  BY DEF Rowlike
<1>1. PICK w \in Seq(S) : w = <<x>> /\ Line(f, w) = f[x]
  BY <1>0, LineOne
<1>2. Append(p, x) = p \o w
  BY <1>1, AppendIsConcat
<1>3. Line(f, p \o w) = Line(f, p) \o Line(f, w)
  BY <1>0, LineConcat
<1> QED
  BY <1>1, <1>2, <1>3

\* So does the whole line.
LEMMA LineRowlike ==
  ASSUME NEW S, NEW f, Rowlike(f, S), NEW p \in Seq(S)
  PROVE  /\ Line(f, p) \in Text /\ ~Ends(Line(f, p))
         /\ p # <<>> => Line(f, p) # <<>> /\ Line(f, p)[1] = Comma
<1> DEFINE G == {q \in Seq(S) : ~Ends(Line(f, q))}
<1>k. \A q : q \in G <=> q \in Seq(S) /\ ~Ends(Line(f, q))
  OBVIOUS
<1> HIDE DEF G
<1>0. f \in [S -> Text]
  BY DEF Rowlike
<1>1. Line(f, p) \in Text
  BY <1>0, LineText
<1>2. <<>> \in G
  BY <1>k, LineEmpty, EmptySeq DEF Ends
<1>3. ASSUME NEW q \in Seq(S), NEW x \in S, q \in G PROVE Append(q, x) \in G
  <2>1. PICK a \in Text, b \in Text : a = Line(f, q) /\ b = f[x]
    BY <1>0, LineText
  <2>2. b # <<>> /\ ~Ends(b)
    BY <2>1 DEF Rowlike
  <2>3. ~Ends(a \o b)
    BY <2>2, EndsConcat
  <2>4. Append(q, x) \in Seq(S)
    BY AppendProperties
  <2>5. Line(f, Append(q, x)) = a \o b
    BY <2>1, LineAppend
  <2> QED
    BY <1>k, <2>3, <2>4, <2>5
<1>4. Seq(S) \subseteq G
  BY <1>2, <1>3, ByAppend
<1>5. ASSUME p # <<>> PROVE Line(f, p) # <<>> /\ Line(f, p)[1] = Comma
  <2>1. PartsOf(S, p)
    BY Parts
  <2>2. Len(p) \in Nat /\ 1 \in 1..Len(p) /\ 0 \in 0..Len(p)
    BY <1>5, EmptySeq, LenProperties
  <2>3. PICK q \in Seq(S), x \in S : p = <<x>> \o q
    <3>0. \A k \in 1..Len(p) : p[k] \in S /\ Behind(p, k - 1) = <<p[k]>> \o Behind(p, k)
      BY <2>1 DEF PartsOf
    <3>a. 1 - 1 = 0
      OBVIOUS
    <3>b. p[1] \in S /\ Behind(p, 1 - 1) = <<p[1]>> \o Behind(p, 1)
      BY <2>2, <3>0
    <3>c. Behind(p, 0) = p
      BY <2>1 DEF PartsOf
    <3>1. p[1] \in S /\ p = <<p[1]>> \o Behind(p, 1)
      BY <3>a, <3>b, <3>c
    <3>2. Behind(p, 1) \in Seq(S)
      <4>1. 1 \in 0..Len(p)
        BY <2>2
      <4> QED
        BY <2>1, <4>1 DEF PartsOf
    <3>3. PICK q : q = Behind(p, 1)
      OBVIOUS
    <3>4. p = <<p[1]>> \o q
      BY <3>1, <3>3
    <3> QED
      BY <3>1, <3>2, <3>3, <3>4
  <2>4. PICK a \in Text, b \in Text : a = f[x] /\ b = Line(f, q)
    BY <1>0, LineText
  <2>5. a # <<>> /\ a[1] = Comma
    BY <2>4 DEF Rowlike
  <2>6. a \o b # <<>> /\ (a \o b)[1] = a[1]
    <3>1. 1 \in 1..Len(a)
      <4>1. Len(a) \in Nat \ {0}
        BY <2>5, EmptySeq DEF Text
      <4> QED
        BY <4>1
    <3>2. \A i \in 1..Len(a) : (a \o b)[i] = a[i]
      BY Both DEF Text
    <3>3. a \o b # <<>>
      <4>1. Len(a \o b) = Len(a) + Len(b) /\ Len(a) \in Nat /\ Len(b) \in Nat
        BY Both DEF Text
      <4> QED
        BY <3>1, <4>1, EmptySeq
    <3> QED
      BY <3>1, <3>2, <3>3
  <2> QED
    BY <2>3, <2>4, <2>5, <2>6, LineCons
<1> QED
  BY <1>1, <1>4, <1>5, <1>k

---------------------------------------------------------------------------
(* Tags.                                                                   *)

\* Two texts in a row.
LEMMA TextBoth ==
  ASSUME NEW a \in Text, NEW b \in Text
  PROVE  /\ a \o b \in Text /\ Len(a \o b) = Len(a) + Len(b)
         /\ Len(a) \in Nat /\ Len(b) \in Nat
         /\ \A i \in 1..Len(a) : (a \o b)[i] = a[i]
         /\ \A i \in 1..Len(b) : (a \o b)[Len(a) + i] = b[i]
         /\ a # <<>> => a \o b # <<>> /\ (a \o b)[1] = a[1]
<1>1. /\ a \o b \in Text /\ Len(a \o b) = Len(a) + Len(b)
      /\ Len(a) \in Nat /\ Len(b) \in Nat
      /\ \A i \in 1..Len(a) : (a \o b)[i] = a[i]
      /\ \A i \in 1..Len(b) : (a \o b)[Len(a) + i] = b[i]
  BY Both DEF Text
<1>2. ASSUME a # <<>> PROVE a \o b # <<>> /\ (a \o b)[1] = a[1]
  <2>1. Len(a) \in Nat \ {0}
    BY <1>2, EmptySeq DEF Text
  <2>2. 1 \in 1..Len(a) /\ Len(a \o b) # 0
    BY <1>1, <2>1
  <2> QED
    BY <1>1, <2>2, EmptySeq
<1> QED
  BY <1>1, <1>2

\* Three texts in a row.
LEMMA TextAssoc ==
  ASSUME NEW a \in Text, NEW b \in Text, NEW c \in Text
  PROVE  (a \o b) \o c = a \o (b \o c)
  BY ConcatAssociative DEF Text

\* The second and the third of three, where they begin.
LEMMA TextMiddle ==
  ASSUME NEW a \in Text, NEW b \in Text, NEW c \in Text
  PROVE  /\ SubSeq(a \o (b \o c), Len(a) + 1, Len(a) + Len(b)) = b
         /\ From(a \o (b \o c), Len(a) + Len(b) + 1) = c
  BY CutMiddle DEF Text

\* Five in a row: how they regroup, and where each is found.
Five(s, c, k, e, v, r) ==
  /\ c \in Text /\ k \in Text /\ e \in Text /\ v \in Text /\ r \in Text
  /\ s = (((c \o k) \o e) \o v) \o r

Regrouped(s, c, k, e, v, r) ==
  /\ s = ((c \o k) \o e) \o (v \o r)
  /\ s = (c \o k) \o (e \o (v \o r))
  /\ s = c \o (k \o (e \o (v \o r)))

FiveFound(s, c, k, e, v, r) ==
  /\ Len(s) = Len(c) + Len(k) + Len(e) + Len(v) + Len(r)
  /\ SubSeq(s, Len(c) + 1, Len(c) + Len(k)) = k
  /\ From(s, Len(c) + Len(k) + Len(e) + 1) = v \o r
  /\ SubSeq(s, Len(c) + Len(k) + Len(e) + 1, Len(c) + Len(k) + Len(e) + Len(v)) = v
  /\ From(s, Len(c) + Len(k) + Len(e) + Len(v) + 1) = r

\* Five in a row can be grouped from either end.
LEMMA Regroup ==
  ASSUME NEW s, NEW c, NEW k, NEW e, NEW v, NEW r, Five(s, c, k, e, v, r)
  PROVE  Regrouped(s, c, k, e, v, r)
<1>1. PICK ck : ck \in Text /\ ck = c \o k
  BY TextBoth DEF Five
<1>2. PICK vr : vr \in Text /\ vr = v \o r
  BY TextBoth DEF Five
<1>3. e \in Text
  BY DEF Five
<1>4. PICK cke : cke \in Text /\ cke = ck \o e
  BY <1>1, <1>3, TextBoth
<1>5. PICK evr : evr \in Text /\ evr = e \o vr
  BY <1>2, <1>3, TextBoth
<1>6. (cke \o v) \o r = cke \o (v \o r)
  <2>1. cke \in Text /\ v \in Text /\ r \in Text
    BY <1>4 DEF Five
  <2> QED
    BY <2>1, TextAssoc
<1>7. (ck \o e) \o vr = ck \o (e \o vr)
  BY <1>1, <1>2, <1>3, TextAssoc
<1>8. (c \o k) \o evr = c \o (k \o evr)
  <2>1. c \in Text /\ k \in Text /\ evr \in Text
    BY <1>5 DEF Five
  <2> QED
    BY <2>1, TextAssoc
<1>9. s = (cke \o v) \o r
  BY <1>1, <1>4 DEF Five
<1>10. s = cke \o vr /\ s = ck \o evr /\ s = c \o (k \o evr)
  BY <1>1, <1>2, <1>4, <1>5, <1>6, <1>7, <1>8, <1>9
<1> QED
  BY <1>1, <1>2, <1>4, <1>5, <1>10 DEF Regrouped

\* The parts of five in a row are where the lengths of those before say.
LEMMA FiveParts ==
  ASSUME NEW s, NEW c, NEW k, NEW e, NEW v, NEW r, Five(s, c, k, e, v, r)
  PROVE  FiveFound(s, c, k, e, v, r)
<1>0. c \in Text /\ k \in Text
  BY DEF Five
<1>a. v \in Text /\ r \in Text
  BY DEF Five
<1>b. e \in Text
  BY DEF Five
<1>1. PICK ck : ck \in Text /\ ck = c \o k /\ Len(ck) = Len(c) + Len(k)
  BY <1>0, TextBoth
<1>2. PICK vr : vr \in Text /\ vr = v \o r /\ Len(vr) = Len(v) + Len(r)
  BY <1>a, TextBoth
<1>3. PICK cke : cke \in Text /\ cke = ck \o e /\ Len(cke) = Len(ck) + Len(e)
  BY <1>1, <1>b, TextBoth
<1>4. PICK evr : evr \in Text /\ evr = e \o vr
  BY <1>2, <1>b, TextBoth
<1>5. s = cke \o vr /\ s = ck \o evr /\ s = c \o (k \o evr)
  <2>1. Regrouped(s, c, k, e, v, r)
    BY Regroup
  <2> QED
    BY <2>1, <1>1, <1>2, <1>3, <1>4 DEF Regrouped
<1>6. /\ Len(c) \in Nat /\ Len(k) \in Nat /\ Len(e) \in Nat /\ Len(v) \in Nat /\ Len(r) \in Nat
  BY LenProperties DEF Five, Text
<1>7. Len(cke \o vr) = Len(cke) + Len(vr)
  BY <1>2, <1>3, TextBoth
<1>8. SubSeq(c \o (k \o evr), Len(c) + 1, Len(c) + Len(k)) = k
  BY <1>0, <1>4, TextMiddle
<1>9. From(ck \o (e \o vr), Len(ck) + Len(e) + 1) = vr
  BY <1>1, <1>2, <1>b, TextMiddle
<1>10. /\ SubSeq(cke \o (v \o r), Len(cke) + 1, Len(cke) + Len(v)) = v
       /\ From(cke \o (v \o r), Len(cke) + Len(v) + 1) = r
  BY <1>3, <1>a, TextMiddle
<1>11. /\ Len(cke) = Len(c) + Len(k) + Len(e)
       /\ Len(s) = Len(c) + Len(k) + Len(e) + Len(v) + Len(r)
  BY <1>1, <1>2, <1>3, <1>5, <1>6, <1>7
<1>12. SubSeq(s, Len(c) + 1, Len(c) + Len(k)) = k
  BY <1>5, <1>8
<1>13. From(s, Len(c) + Len(k) + Len(e) + 1) = v \o r
  BY <1>1, <1>2, <1>4, <1>5, <1>9
<1>14. /\ SubSeq(s, Len(cke) + 1, Len(cke) + Len(v)) = v
       /\ From(s, Len(cke) + Len(v) + 1) = r
  BY <1>2, <1>5, <1>10
<1> QED
  BY <1>11, <1>12, <1>13, <1>14 DEF FiveFound

Pairs == TagKeys \X TagValues
TagRow == [x \in Pairs |-> TagText(x[1], x[2])]

\* Fewer bytes are guarded with more.
LEMMA GuardedSub ==
  ASSUME NEW a, NEW D, NEW E \in SUBSET D, Guarded(a, D)
  PROVE  Guarded(a, E)
  BY DEF Guarded

\* One byte that is not looked for.
LEMMA GuardedOne ==
  ASSUME NEW b \in Bytes, NEW D, b \notin D
  PROVE  Guarded(<<b>>, D)
<1>1. PICK p : p = <<b>>
  OBVIOUS
<1>2. Len(p) = 1 /\ p[1] = b
  BY <1>1, Singles
<1>3. \A j \in 1..1 : j = 1
  OBVIOUS
<1> QED
  BY <1>1, <1>2, <1>3 DEF Guarded

\* What the assumption on texts says of the key and the value of a tag.
LEMMA PairIs ==
  ASSUME NEW x \in Pairs
  PROVE  /\ x = <<x[1], x[2]>> /\ x[1] \in TagKeys /\ x[2] \in TagValues
         /\ \A s \in {x[1], x[2]} :
              /\ s \in Text /\ s # <<>> /\ Escape(s, KeyChars) \in Text
              /\ Guarded(Escape(s, KeyChars), KeyChars) /\ ~Ends(Escape(s, KeyChars))
              /\ Escape(s, KeyChars) # <<>> /\ Unescape(Escape(s, KeyChars), KeyChars) = s
<1>1. x = <<x[1], x[2]>> /\ x[1] \in TagKeys /\ x[2] \in TagValues
  BY DEF Pairs
<1>2. ASSUME NEW s \in {x[1], x[2]}
      PROVE  /\ s \in Text /\ s # <<>> /\ Escape(s, KeyChars) \in Text
             /\ Guarded(Escape(s, KeyChars), KeyChars) /\ ~Ends(Escape(s, KeyChars))
             /\ Escape(s, KeyChars) # <<>> /\ Unescape(Escape(s, KeyChars), KeyChars) = s
  <2>1. s # <<>> /\ Plain(s, KeyChars)
    BY <1>1, <1>2, TextsAssumption
  <2>2. /\ s \in Text /\ Escape(s, KeyChars) \in Text
        /\ Guarded(Escape(s, KeyChars), KeyChars) /\ ~Ends(Escape(s, KeyChars))
        /\ Escape(s, KeyChars) = <<>> <=> s = <<>>
    BY <2>1, PlainEscaped, NoBackslash
  <2>3. Unescape(Escape(s, KeyChars), KeyChars) = s
    BY <2>2, UnescapeEscape, NoBackslash
  <2> QED
    BY <2>1, <2>2, <2>3
<1> QED
  BY <1>1, <1>2

\* A comma, the key, an equals sign, the value.
IsTag(x, c, k, e, v) ==
  /\ c \in Text /\ k \in Text /\ e \in Text /\ v \in Text
  /\ Len(c) = 1 /\ c[1] = Comma /\ c # <<>> /\ Len(e) = 1 /\ e[1] = "=" /\ e # <<>>
  /\ c = <<Comma>> /\ e = <<"=">>
  /\ k = Escape(x[1], KeyChars) /\ v = Escape(x[2], KeyChars)
  /\ k # <<>> /\ Guarded(k, KeyChars) /\ ~Ends(k) /\ Unescape(k, KeyChars) = x[1]
  /\ v # <<>> /\ Guarded(v, KeyChars) /\ ~Ends(v) /\ Unescape(v, KeyChars) = x[2]
  /\ TagRow[x] = ((c \o k) \o e) \o v

\* Every tag is written that way.
LEMMA TagIs ==
  ASSUME NEW x \in Pairs
  PROVE  \E c, k, e, v : IsTag(x, c, k, e, v)
<1>1. PICK k, v \in Text : k = Escape(x[1], KeyChars) /\ v = Escape(x[2], KeyChars)
  BY PairIs
<1>2. /\ k # <<>> /\ Guarded(k, KeyChars) /\ ~Ends(k) /\ Unescape(k, KeyChars) = x[1]
      /\ v # <<>> /\ Guarded(v, KeyChars) /\ ~Ends(v) /\ Unescape(v, KeyChars) = x[2]
  BY <1>1, PairIs
<1>3. PICK c, e \in Text : c = <<Comma>> /\ e = <<"=">>
  BY Marks
<1>4. Len(c) = 1 /\ c[1] = Comma /\ Len(e) = 1 /\ e[1] = "=" /\ e # <<>> /\ c # <<>>
  BY <1>3, Marks
<1>5. TagRow[x] = ((c \o k) \o e) \o v
  BY <1>1, <1>3 DEF TagRow, TagText
<1> QED
  BY <1>1, <1>2, <1>3, <1>4, <1>5 DEF IsTag

\* The rows of tags make a line.
LEMMA TagRowlike == Rowlike(TagRow, Pairs)
<1>1. ASSUME NEW x \in Pairs
      PROVE  TagRow[x] \in Text /\ TagRow[x] # <<>> /\ TagRow[x][1] = Comma /\ ~Ends(TagRow[x])
  <2>1. PICK c, k, e, v \in Text :
           /\ c[1] = Comma /\ c # <<>> /\ v # <<>> /\ ~Ends(v)
           /\ TagRow[x] = ((c \o k) \o e) \o v
    <3>1. PICK c, k, e, v : IsTag(x, c, k, e, v)
      BY TagIs
    <3> QED
      BY <3>1 DEF IsTag
  <2>2. PICK g \in Text : g = c \o k /\ g # <<>> /\ g[1] = Comma
    BY <2>1, TextBoth
  <2>3. PICK h \in Text : h = g \o e /\ h # <<>> /\ h[1] = Comma
    BY <2>2, TextBoth
  <2>4. h \o v \in Text /\ h \o v # <<>> /\ (h \o v)[1] = Comma
    BY <2>3, TextBoth
  <2>5. ~Ends(h \o v)
    BY <2>1, EndsConcat
  <2> QED
    BY <2>1, <2>2, <2>3, <2>4, <2>5
<1>2. TagRow \in [Pairs -> Text]
  BY <1>1 DEF TagRow
<1> QED
  BY <1>1, <1>2 DEF Rowlike

\* Tags reads the first tag and goes on behind it.
LEMMA TagRead ==
  ASSUME NEW x \in Pairs, NEW r, r \in Text, r = <<>> \/ r[1] = Comma,
         NEW s, s \in Text, s = TagRow[x] \o r
  PROVE  /\ IndexUnescaped(s, Comma) = 1
         /\ FirstTag(s) = x
         /\ From(s, EndOfTag(s) + 1) = r
<1>p. PICK c, k, e, v : IsTag(x, c, k, e, v)
  BY TagIs
<1>1. /\ c \in Text /\ k \in Text /\ e \in Text /\ v \in Text
      /\ Len(c) = 1 /\ c[1] = Comma /\ Len(e) = 1 /\ e[1] = "=" /\ e # <<>> /\ c # <<>>
      /\ c = <<Comma>> /\ e = <<"=">>
      /\ k # <<>> /\ Guarded(k, KeyChars) /\ ~Ends(k) /\ Unescape(k, KeyChars) = x[1]
      /\ v # <<>> /\ Guarded(v, KeyChars) /\ ~Ends(v) /\ Unescape(v, KeyChars) = x[2]
  BY <1>p DEF IsTag
<1>b. PICK ck : ck \in Text /\ ck = c \o k /\ Len(ck) = Len(c) + Len(k)
  <2>1. c \in Text /\ k \in Text
    BY <1>1
  <2> QED
    BY <2>1, TextBoth
<1>c. PICK vr : vr \in Text /\ vr = v \o r
  <2>1. v \in Text
    BY <1>1
  <2> QED
    BY <2>1, TextBoth
<1>2. ck \in Text /\ vr \in Text /\ ck = c \o k /\ vr = v \o r /\ Len(ck) = Len(c) + Len(k)
  BY <1>b, <1>c
<1>3. PICK evr : evr \in Text /\ evr = e \o vr
  BY <1>1, <1>2, TextBoth
<1>a. PICK kevr : kevr \in Text /\ kevr = k \o evr
  BY <1>1, <1>3, TextBoth
<1>0. Five(s, c, k, e, v, r)
  BY <1>p DEF Five, IsTag
<1>4. /\ Len(c) = 1 /\ Len(e) = 1 /\ Len(k) \in Nat /\ Len(v) \in Nat /\ Len(r) \in Nat
      /\ Len(ck) = Len(k) + 1
  <2>1. Len(k) \in Nat /\ Len(v) \in Nat /\ Len(r) \in Nat
    BY <1>1, LenProperties DEF Text
  <2> QED
    BY <1>1, <1>2, <2>1
<1>5. s = ck \o evr /\ s = c \o kevr
  <2>1. Regrouped(s, c, k, e, v, r)
    BY <1>0, Regroup
  <2> QED
    BY <1>2, <1>3, <1>a, <2>1 DEF Regrouped
<1>6. /\ Len(s) = Len(c) + Len(k) + Len(e) + Len(v) + Len(r)
      /\ SubSeq(s, Len(c) + 1, Len(c) + Len(k)) = k
      /\ From(s, Len(c) + Len(k) + Len(e) + 1) = v \o r
      /\ SubSeq(s, Len(c) + Len(k) + Len(e) + 1,
                   Len(c) + Len(k) + Len(e) + Len(v)) = v
      /\ From(s, Len(c) + Len(k) + Len(e) + Len(v) + 1) = r
  <2>1. FiveFound(s, c, k, e, v, r)
    BY <1>0, FiveParts
  <2> QED
    BY <2>1 DEF FiveFound
<1>7. /\ Len(c) + 1 = 2 /\ Len(c) + Len(k) = Len(k) + 1
      /\ Len(c) + Len(k) + Len(e) + 1 = Len(k) + 3
      /\ Len(c) + Len(k) + Len(e) + Len(v) = Len(k) + Len(v) + 2
      /\ Len(c) + Len(k) + Len(e) + Len(v) + 1 = Len(k) + Len(v) + 3
  BY <1>4
<1>8. IndexUnescaped(s, Comma) = 1
  <2>1. PICK z : z \in Text /\ z = <<>> /\ Len(z) = 0
    BY EmptySeq DEF Text
  <2>2. Guarded(z, {Comma}) /\ ~Ends(z)
    BY <2>1 DEF Guarded, Ends
  <2>3. s # <<>> /\ s[1] = Comma
    <3>1. c \o kevr # <<>> /\ (c \o kevr)[1] = c[1]
      BY <1>1, <1>a, TextBoth
    <3> QED
      BY <1>1, <1>5, <3>1
  <2>a. Comma \in {Comma}
    OBVIOUS
  <2>4. IndexUnescaped(z \o s, Comma) = Len(z) + 1
    BY <2>1, <2>2, <2>3, <2>a, FirstBehind
  <2>5. z \o s = s
    BY <2>1, ConcatEmptySeq DEF Text
  <2> QED
    BY <2>1, <2>4, <2>5
<1>9. IndexUnescaped(s, "=") = Len(k) + 2
  <2>1. Guarded(k, {"="}) /\ Guarded(c, {"="})
    <3>1. Comma \in Bytes /\ Comma \notin {"="} /\ {"="} \subseteq KeyChars
      BY BytesAssumption, Marks
    <3> QED
      BY <1>1, <3>1, GuardedOne, GuardedSub
  <2>2. ~Ends(c)
    BY <1>1, Marks DEF Ends
  <2>3. Guarded(ck, {"="}) /\ ~Ends(ck)
    <3>1. Guarded(c \o k, {"="})
      BY <1>1, <2>1, <2>2, GuardedConcat
    <3>2. ~Ends(c \o k)
      BY <1>1, EndsConcat
    <3> QED
      BY <1>2, <3>1, <3>2
  <2>4. evr # <<>> /\ evr[1] = "="
    <3>1. e \o vr # <<>> /\ (e \o vr)[1] = e[1]
      BY <1>1, <1>2, TextBoth
    <3> QED
      BY <1>1, <1>3, <3>1
  <2>5. IndexUnescaped(ck \o evr, "=") = Len(ck) + 1
    <3>1. "=" \in {"="}
      OBVIOUS
    <3> QED
      BY <1>2, <1>3, <2>3, <2>4, <3>1, FirstBehind
  <2> QED
    BY <1>4, <1>5, <2>5
<1>10. SubSeq(s, 2, Len(k) + 1) = k /\ From(s, Len(k) + 3) = vr
  BY <1>2, <1>6, <1>7
<1>12. SubSeq(s, Len(k) + 3, Len(k) + Len(v) + 2) = v /\ From(s, Len(k) + Len(v) + 3) = r
  BY <1>6, <1>7
<1>13. EndOfTag(s) = Len(k) + Len(v) + 2
  <2>1. Guarded(v, {Comma}) /\ Comma \in {Comma}
    BY <1>1, GuardedSub, Marks
  <2>2. CASE r = <<>>
    <3>1. vr = v /\ Len(r) = 0
      BY <1>1, <1>2, <2>2, ConcatEmptySeq, EmptySeq DEF Text
    <3>2. IndexUnescaped(vr, Comma) = 0
      BY <1>1, <2>1, <3>1, NoneAt
    <3>3. Len(s) = Len(k) + Len(v) + 2
      BY <1>4, <1>6, <3>1
    <3>4. (Len(k) + 2) + 1 = Len(k) + 3
      BY <1>4
    <3> QED
      BY <1>9, <1>10, <3>2, <3>3, <3>4 DEF EndOfTag
  <2>3. CASE r # <<>>
    <3>0. r[1] = Comma
      BY <2>3
    <3>1. IndexUnescaped(v \o r, Comma) = Len(v) + 1
      BY <1>1, <2>1, <2>3, <3>0, FirstBehind
    <3>a. IndexUnescaped(vr, Comma) = Len(v) + 1
      BY <1>2, <3>1
    <3>2. (Len(k) + 2) + 1 = Len(k) + 3 /\ Len(v) + 1 # 0
          /\ (Len(k) + 2) + (Len(v) + 1) - 1 = Len(k) + Len(v) + 2
      BY <1>4
    <3> QED
      BY <1>9, <1>10, <3>a, <3>2 DEF EndOfTag
  <2> QED
    BY <2>2, <2>3
<1>14. FirstTag(s) = x
  <2>1. 1 + 1 = 2 /\ (Len(k) + 2) - 1 = Len(k) + 1 /\ (Len(k) + 2) + 1 = Len(k) + 3
    BY <1>4
  <2>2. FirstTag(s) = <<Unescape(k, KeyChars), Unescape(v, KeyChars)>>
    BY <1>8, <1>9, <1>10, <1>12, <1>13, <2>1 DEF FirstTag
  <2> QED
    BY <1>1, <2>2, PairIs
<1>15. From(s, EndOfTag(s) + 1) = r
  <2>1. (Len(k) + Len(v) + 2) + 1 = Len(k) + Len(v) + 3
    BY <1>4
  <2> QED
    BY <1>12, <1>13, <2>1
<1> QED
  BY <1>8, <1>14, <1>15

\* A line is as long as it has rows, at least.
LEMMA LineLong ==
  ASSUME NEW S, NEW f, Rowlike(f, S), NEW p \in Seq(S)
  PROVE  Len(p) <= Len(Line(f, p))
<1> DEFINE G == {q \in Seq(S) : Len(q) <= Len(Line(f, q))}
<1>k. \A q : q \in G <=> q \in Seq(S) /\ Len(q) <= Len(Line(f, q))
  OBVIOUS
<1> HIDE DEF G
<1>1. <<>> \in G
  <2>1. PICK z : z = <<>>
    OBVIOUS
  <2>2. z \in Seq(S) /\ Len(z) = 0
    BY <2>1, EmptySeq
  <2>3. Line(f, z) = z
    BY <2>1, LineEmpty
  <2>4. Len(z) <= Len(Line(f, z))
    BY <2>2, <2>3
  <2>5. z \in G
    BY <1>k, <2>2, <2>4
  <2> QED
    BY <2>1, <2>5
<1>2. ASSUME NEW q \in Seq(S), NEW x \in S, q \in G PROVE Append(q, x) \in G
  <2>1. Append(q, x) \in Seq(S) /\ Len(Append(q, x)) = Len(q) + 1 /\ Len(q) \in Nat
    BY AppendProperties, LenProperties
  <2>2. Line(f, Append(q, x)) = Line(f, q) \o f[x]
    BY LineAppend
  <2>3. PICK a, b : a \in Text /\ b \in Text /\ a = Line(f, q) /\ b = f[x]
    BY LineRowlike DEF Rowlike
  <2>4. Len(b) \in Nat \ {0}
    BY <2>3, EmptySeq DEF Rowlike, Text
  <2>5. Len(a \o b) = Len(a) + Len(b) /\ Len(a) \in Nat
    BY <2>3, TextBoth
  <2>6. Len(q) <= Len(a)
    BY <1>2, <1>k, <2>3
  <2>7. Len(q) + 1 <= Len(a \o b)
    BY <2>1, <2>4, <2>5, <2>6
  <2> QED
    BY <1>k, <2>1, <2>2, <2>3, <2>7
<1>3. Seq(S) \subseteq G
  BY <1>1, <1>2, ByAppend
<1> QED
  BY <1>3, <1>k

\* Nothing is found in nothing.
LEMMA EmptyRest ==
  /\ IndexUnescaped(<<>>, Comma) = 0 /\ IndexUnescaped(<<>>, "=") = 0
<1>1. PICK z : z \in Text /\ z = <<>> /\ Len(z) = 0
  BY EmptySeq DEF Text
<1>2. Guarded(z, {Comma, "="})
  BY <1>1 DEF Guarded
<1> QED
  BY <1>1, <1>2, NoneAt

\* One round of the loop of Tags.
TagRound(r) ==
  IF IndexUnescaped(r.rest, Comma) = 0 THEN r
  ELSE [got |-> Append(r.got, FirstTag(r.rest)),
        rest |-> From(r.rest, EndOfTag(r.rest) + 1)]
TagRounds(f, s) ==
  f = [n \in 0..Len(s) |-> IF n = 0 THEN [got |-> <<>>, rest |-> s] ELSE TagRound(f[n - 1])]

\* TagsOf is what its loop has in the end.
LEMMA TagsOfDef ==
  ASSUME NEW s
  PROVE  TagsOf(s) = (CHOOSE f : TagRounds(f, s))[Len(s)].got
  BY DEF TagsOf, TagRounds, TagRound

\* What it has after m tags.
TagsRead(p, m) == [got |-> Before(p, m), rest |-> Line(TagRow, Behind(p, m))]

\* A round reads one more tag; at the end it does nothing.
LEMMA TagRoundIs ==
  ASSUME NEW p \in Seq(Pairs)
  PROVE  /\ \A m \in 1..Len(p) : TagRound(TagsRead(p, m - 1)) = TagsRead(p, m)
         /\ TagRound(TagsRead(p, Len(p))) = TagsRead(p, Len(p))
<1>1. PartsOf(Pairs, p)
  BY Parts
<1>2. ASSUME NEW m \in 1..Len(p) PROVE TagRound(TagsRead(p, m - 1)) = TagsRead(p, m)
  <2>1. /\ p[m] \in Pairs /\ Before(p, m) = Append(Before(p, m - 1), p[m])
        /\ Behind(p, m - 1) = <<p[m]>> \o Behind(p, m)
    BY <1>1 DEF PartsOf
  <2>2. Behind(p, m) \in Seq(Pairs)
    <3>1. m \in 0..Len(p)
      BY <1>1 DEF PartsOf
    <3> QED
      BY <1>1, <3>1 DEF PartsOf
  <2>3. PICK x \in Pairs, q \in Seq(Pairs) : x = p[m] /\ q = Behind(p, m)
    BY <2>1, <2>2
  <2>4. PICK r : r \in Text /\ r = Line(TagRow, q) /\ (r = <<>> \/ r[1] = Comma)
    <3>1. Line(TagRow, q) \in Text /\ (q # <<>> => Line(TagRow, q)[1] = Comma)
      BY LineRowlike, TagRowlike
    <3>2. q = <<>> => Line(TagRow, q) = <<>>
      BY LineEmpty
    <3> QED
      BY <3>1, <3>2
  <2>5. PICK s : s \in Text /\ s = TagRow[x] \o r
    <3>1. TagRow[x] \in Text
      BY TagRowlike DEF Rowlike
    <3> QED
      BY <2>4, <3>1, TextBoth
  <2>6. Line(TagRow, Behind(p, m - 1)) = s
    BY <2>1, <2>3, <2>4, <2>5, LineCons, TagRowlike
  <2>7. /\ IndexUnescaped(s, Comma) = 1 /\ FirstTag(s) = x
        /\ From(s, EndOfTag(s) + 1) = r
    BY <2>4, <2>5, TagRead
  <2>8. PICK b : b = Before(p, m - 1)
    OBVIOUS
  <2>9. /\ TagsRead(p, m - 1) = [got |-> b, rest |-> s]
        /\ TagsRead(p, m) = [got |-> Append(b, x), rest |-> r]
    BY <2>1, <2>3, <2>4, <2>6, <2>8 DEF TagsRead
  <2>10. TagRound([got |-> b, rest |-> s]) = [got |-> Append(b, x), rest |-> r]
    BY <2>7 DEF TagRound
  <2> QED
    BY <2>9, <2>10
<1>3. TagRound(TagsRead(p, Len(p))) = TagsRead(p, Len(p))
  <2>1. Behind(p, Len(p)) = <<>>
    BY <1>1 DEF PartsOf
  <2>2. Line(TagRow, Behind(p, Len(p))) = <<>>
    BY <2>1, LineEmpty
  <2> QED
    BY <2>2, EmptyRest DEF TagRound, TagsRead
<1> QED
  BY <1>2, <1>3

\* Tags reads back what the rows were made from.
LEMMA TagsReadBack ==
  ASSUME NEW p \in Seq(Pairs)
  PROVE  TagsOf(Line(TagRow, p)) = p
<1>1. PICK s : s = Line(TagRow, p) /\ Len(s) \in Nat
  BY LineRowlike, TagRowlike, LenProperties DEF Text
<1>2. Len(p) \in Nat /\ Len(p) <= Len(s)
  BY <1>1, LineLong, TagRowlike, LenProperties
<1> DEFINE upTo(n) == IF n <= Len(p) THEN n ELSE Len(p)
           g == [n \in 0..Len(s) |-> TagsRead(p, upTo(n))]
<1>3. PartsOf(Pairs, p)
  BY Parts
<1>4. TagsRead(p, 0) = [got |-> <<>>, rest |-> s]
  BY <1>1, <1>3 DEF TagsRead, PartsOf
<1>5. ASSUME NEW n \in 1..Len(s) PROVE TagsRead(p, upTo(n)) = TagRound(TagsRead(p, upTo(n - 1)))
  <2>1. CASE n <= Len(p)
    <3>1. n \in 1..Len(p) /\ upTo(n) = n /\ upTo(n - 1) = n - 1
      BY <1>1, <1>2, <2>1
    <3> QED
      BY <3>1, TagRoundIs
  <2>2. CASE n > Len(p)
    <3>1. upTo(n) = Len(p) /\ upTo(n - 1) = Len(p)
      BY <1>1, <1>2, <2>2
    <3> QED
      BY <3>1, TagRoundIs
  <2> QED
    BY <1>1, <1>2, <2>1, <2>2
<1>6. TagRounds(g, s)
  <2>1. upTo(0) = 0
    BY <1>2
  <2>2. ASSUME NEW n \in 0..Len(s)
        PROVE  TagsRead(p, upTo(n)) =
                 IF n = 0 THEN [got |-> <<>>, rest |-> s] ELSE TagRound(g[n - 1])
    <3>1. CASE n = 0
      BY <1>4, <2>1, <3>1
    <3>2. CASE n # 0
      <4>1. n \in 1..Len(s) /\ n - 1 \in 0..Len(s)
        BY <1>1, <3>2
      <4>2. g[n - 1] = TagsRead(p, upTo(n - 1))
        BY <4>1
      <4> HIDE DEF g, upTo
      <4> QED
        BY <1>5, <3>2, <4>1, <4>2
    <3> QED
      BY <3>1, <3>2
  <2>3. PICK h : h = g
    OBVIOUS
  <2>4. h = [n \in 0..Len(s) |-> TagsRead(p, upTo(n))]
    BY <2>3
  <2> HIDE DEF g, upTo
  <2>5. h = [n \in 0..Len(s) |-> IF n = 0 THEN [got |-> <<>>, rest |-> s] ELSE TagRound(h[n - 1])]
    BY <2>2, <2>3, <2>4
  <2> QED
    BY <2>3, <2>5 DEF TagRounds
<1>7. PICK f : f = (CHOOSE h : TagRounds(h, s)) /\ TagRounds(f, s)
  <2> HIDE DEF g
  <2> QED
    BY <1>6
<1>8. f[Len(s)] = g[Len(s)]
  <2> HIDE DEF g
  <2> DEFINE G == {n \in Nat : f[n] = g[n]}
  <2>k. \A n : n \in G <=> n \in Nat /\ f[n] = g[n]
    OBVIOUS
  <2> HIDE DEF G
  <2>1. \A n \in 0..Len(s) :
          /\ f[n] = IF n = 0 THEN [got |-> <<>>, rest |-> s] ELSE TagRound(f[n - 1])
          /\ g[n] = IF n = 0 THEN [got |-> <<>>, rest |-> s] ELSE TagRound(g[n - 1])
    BY <1>6, <1>7 DEF TagRounds
  <2>2. 0 \in G
    <3>1. 0 \in 0..Len(s)
      BY <1>1
    <3> QED
      BY <2>k, <2>1, <3>1
  <2>3. \A n \in 1..Len(s) : n - 1 \in G => n \in G
    <3>1. ASSUME NEW n \in 1..Len(s), n - 1 \in G PROVE n \in G
      <4>1. n \in 0..Len(s) /\ n # 0 /\ n \in Nat
        BY <1>1
      <4>2. f[n - 1] = g[n - 1]
        BY <2>k, <3>1
      <4>3. f[n] = TagRound(f[n - 1]) /\ g[n] = TagRound(g[n - 1])
        BY <2>1, <4>1
      <4> QED
        BY <2>k, <4>1, <4>2, <4>3
    <3> QED
      BY <3>1
  <2>4. Len(s) \in G
    BY <1>1, <2>2, <2>3, UpTo
  <2> QED
    BY <2>k, <2>4
<1>9. g[Len(s)] = TagsRead(p, Len(p))
  <2>1. Len(s) \in 0..Len(s) /\ upTo(Len(s)) = Len(p)
    BY <1>1, <1>2
  <2> QED
    BY <2>1
<1>10. TagsRead(p, Len(p)).got = p
  BY <1>3 DEF TagsRead, PartsOf
<1> HIDE DEF g
<1> QED
  BY <1>1, <1>7, <1>8, <1>9, <1>10, TagsOfDef

---------------------------------------------------------------------------
(* Finding the tag of a key.                                               *)

Occurs(s, t, i) ==
  i \in 1..(Len(s) - Len(t) + 1) /\ SubSeq(s, i, i + Len(t) - 1) = t

FoundAt(s, t, i) ==
  /\ i \in Nat \ {0} /\ i + Len(t) - 1 <= Len(s)
  /\ \A q \in 1..Len(t) : s[i + q - 1] = t[q]

\* What occurs, byte by byte.
LEMMA OccursAt ==
  ASSUME NEW s, s \in Text, NEW t, t \in Text, NEW i, Occurs(s, t, i)
  PROVE  FoundAt(s, t, i)
<1>1. /\ Len(s) \in Nat /\ Len(t) \in Nat /\ i \in 1..(Len(s) - Len(t) + 1)
      /\ SubSeq(s, i, i + Len(t) - 1) = t
  BY LenProperties DEF Occurs, Text
<1>2. \A q \in i..(i + Len(t) - 1) : s[q] \in Bytes
  <2>1. ASSUME NEW q \in i..(i + Len(t) - 1) PROVE s[q] \in Bytes
    <3>1. q \in 1..Len(s)
      BY <1>1
    <3> QED
      BY <3>1, ElementOfSeq DEF Text
  <2> QED
    BY <2>1
<1>3. \A q \in 1..((i + Len(t) - 1) - i + 1) : SubSeq(s, i, i + Len(t) - 1)[q] = s[i + q - 1]
  <2>1. PICK m, n : m \in Int /\ n \in Int /\ m = i /\ n = i + Len(t) - 1
    BY <1>1
  <2>2. \A q \in m..n : s[q] \in Bytes
    BY <1>2, <2>1
  <2>3. \A q \in 1..(n - m + 1) : SubSeq(s, m, n)[q] = s[m + q - 1]
    BY <2>1, <2>2, SubSeqProperties
  <2> QED
    BY <2>1, <2>3
<1>4. (i + Len(t) - 1) - i + 1 = Len(t)
  BY <1>1
<1>5. \A q \in 1..Len(t) : s[i + q - 1] = t[q]
  BY <1>1, <1>3, <1>4
<1> QED
  BY <1>1, <1>5 DEF FoundAt

\* Of a tag, the equals sign in the middle is the only one that is not behind
\* a backslash.
LEMMA Separator ==
  ASSUME NEW x, NEW c, NEW k, NEW e, NEW v, IsTag(x, c, k, e, v),
         NEW j, j \in 2..Len(TagRow[x]), TagRow[x][j] = "=", TagRow[x][j - 1] # Backslash
  PROVE  j = Len(k) + 2
<1>1. PICK T : T = TagRow[x]
  OBVIOUS
<1>2. /\ c \in Text /\ k \in Text /\ Guarded(k, KeyChars) /\ Len(c) = 1 /\ c[1] = Comma
      /\ c = <<Comma>>
  BY DEF IsTag
<1>3. e \in Text /\ Len(e) = 1
  BY DEF IsTag
<1>4. v \in Text /\ Guarded(v, KeyChars)
  BY DEF IsTag
<1>5. PICK ck : ck \in Text /\ ck = c \o k /\ Len(ck) = 1 + Len(k) /\ Len(k) \in Nat
  <2>1. c \in Text /\ k \in Text
    BY <1>2
  <2>2. c \o k \in Text /\ Len(c \o k) = Len(c) + Len(k) /\ Len(k) \in Nat
    BY <2>1, TextBoth
  <2> QED
    BY <1>2, <2>2
<1>6. Guarded(ck, {"="})
  <2>1. "=" \in KeyChars /\ Comma \in Bytes /\ Comma \notin {"="} /\ Comma # Backslash
    BY BytesAssumption, Marks
  <2>2. Guarded(k, {"="}) /\ Guarded(c, {"="})
    BY <1>2, <2>1, GuardedOne, GuardedSub
  <2>3. ~Ends(c)
    BY <1>2, <2>1 DEF Ends
  <2>4. Guarded(c \o k, {"="})
    BY <1>2, <2>2, <2>3, GuardedConcat
  <2> QED
    BY <1>5, <2>4
<1>7. PICK cke : /\ cke \in Text /\ cke = ck \o e /\ Len(cke) = Len(k) + 2
                 /\ \A q \in 1..Len(ck) : cke[q] = ck[q]
  <2>1. /\ ck \o e \in Text /\ Len(ck \o e) = Len(ck) + Len(e)
        /\ \A q \in 1..Len(ck) : (ck \o e)[q] = ck[q]
    BY <1>3, <1>5, TextBoth
  <2>2. Len(ck) + Len(e) = Len(k) + 2
    BY <1>3, <1>5
  <2>3. PICK w : w = ck \o e
    OBVIOUS
  <2>4. /\ w \in Text /\ w = ck \o e /\ Len(w) = Len(k) + 2
        /\ \A q \in 1..Len(ck) : w[q] = ck[q]
    BY <2>1, <2>2, <2>3
  <2> QED
    BY <2>4
<1>8. /\ T = cke \o v /\ Len(T) = Len(cke) + Len(v) /\ Len(v) \in Nat
      /\ \A q \in 1..Len(cke) : T[q] = cke[q]
      /\ \A q \in 1..Len(v) : T[Len(cke) + q] = v[q]
  <2>1. T = cke \o v
    BY <1>1, <1>5, <1>7 DEF IsTag
  <2> QED
    BY <1>4, <1>7, <2>1, TextBoth
<1>9. j \in 2..Len(T) /\ T[j] = "=" /\ T[j - 1] # Backslash
  BY <1>1
<1>10. CASE j <= Len(ck)
  <2>1. j \in 1..Len(ck) /\ j - 1 \in 1..Len(ck) /\ j \in 1..Len(cke) /\ j - 1 \in 1..Len(cke)
    BY <1>5, <1>7, <1>9, <1>10
  <2>2. T[j] = ck[j] /\ T[j - 1] = ck[j - 1]
    BY <1>7, <1>8, <2>1
  <2>3. Lone(ck, j)
    BY <1>6, <1>9, <2>1, <2>2 DEF Guarded
  <2> QED
    BY <1>9, <2>2, <2>3 DEF Lone
<1>11. CASE j > Len(cke)
  <2>1. PICK q \in 1..Len(v) : j = Len(cke) + q
    <3>1. j - Len(cke) \in 1..Len(v) /\ j = Len(cke) + (j - Len(cke))
      BY <1>7, <1>5, <1>8, <1>9, <1>11
    <3> QED
      BY <3>1
  <2>2. v[q] = "=" /\ "=" \in KeyChars
    BY <1>8, <1>9, <2>1, Marks
  <2>3. q > 1 /\ v[q - 1] = Backslash
    BY <1>4, <2>2 DEF Guarded, Lone
  <2>4. q - 1 \in 1..Len(v) /\ j - 1 = Len(cke) + (q - 1)
    BY <1>5, <1>7, <2>1, <2>3
  <2>5. T[j - 1] = v[q - 1]
    BY <1>8, <2>4
  <2> QED
    BY <1>9, <2>3, <2>5
<1> QED
  BY <1>5, <1>7, <1>9, <1>10, <1>11

\* What ends the escaped key of a tag, escaped, is that key.
LEMMA KeyEnds ==
  ASSUME NEW x \in Pairs, NEW y \in Pairs,
         NEW k, k = Escape(y[1], KeyChars), NEW E, E = Escape(x[1], KeyChars),
         NEW u, u \in Text, k = u \o E
  PROVE  u = <<>> /\ y[1] = x[1]
<1>1. /\ x[1] \in TagKeys /\ x[1] \in Text /\ x[1] # <<>> /\ E \in Text /\ E # <<>>
      /\ Guarded(E, KeyChars) /\ Unescape(E, KeyChars) = x[1]
  BY PairIs
<1>2. y[1] \in TagKeys /\ y[1] \in Text /\ k \in Text /\ Unescape(k, KeyChars) = y[1]
  BY PairIs
<1>3. PICK U : U \in Text /\ U = Unescape(u, KeyChars)
  BY UnescapeText
<1>4. Apart(u, E, KeyChars)
  <2>1. 1 \in 1..Len(E)
    <3>1. Len(E) \in Nat \ {0}
      BY <1>1, EmptySeq DEF Text
    <3> QED
      BY <3>1
  <2>2. E[1] \notin KeyChars
    BY <1>1, <2>1 DEF Guarded, Lone
  <2> QED
    BY <2>2 DEF Apart
<1>5. y[1] = U \o x[1]
  <2>1. Unescape(u \o E, KeyChars) = Unescape(u, KeyChars) \o Unescape(E, KeyChars)
    BY <1>1, <1>4, UnescapeConcat
  <2> QED
    BY <1>1, <1>2, <1>3, <2>1
<1>6. U = <<>>
  <2>1. SUFFICES ASSUME U # <<>> PROVE FALSE
    OBVIOUS
  <2>2. Len(U) \in Nat \ {0} /\ Len(x[1]) \in Nat \ {0}
    BY <1>1, <1>3, <2>1, EmptySeq DEF Text
  <2>3. Len(y[1]) = Len(U) + Len(x[1])
    BY <1>1, <1>3, <1>5, TextBoth
  <2>4. Len(U) + 1 \in 2..Len(y[1])
    BY <2>2, <2>3
  <2>5. From(U \o x[1], Len(U) + 1) = x[1]
    BY <1>1, <1>3, CutConcat DEF Text
  <2> QED
    BY <1>1, <1>2, <1>5, <2>4, <2>5, TextsAssumption
<1>7. y[1] = x[1]
  BY <1>1, <1>5, <1>6, ConcatEmptySeq DEF Text
<1>8. u \o E = E
  BY <1>7
<1>9. u = <<>>
  BY <1>1, <1>8, ConcatEqualIffEmpty DEF Text
<1> QED
  BY <1>7, <1>9

\* The key and its equals sign are found in the rows at that tag alone.
Tailing(x, y, g, s, t, i) ==
  /\ g \in Text /\ ~Ends(g) /\ s = g \o TagRow[y]
  /\ t = Escape(x[1], KeyChars) \o <<"=">>
  /\ Occurs(s, t, i) /\ i + Len(t) - 1 > Len(g)

\* A key with its equals sign that reaches into the last row is the key of that
\* row, if no key ends another one.
LEMMA FoundLast ==
  ASSUME NEW x \in Pairs, NEW y \in Pairs, NEW g, NEW s, NEW t, NEW i,
         Tailing(x, y, g, s, t, i)
  PROVE  y[1] = x[1] /\ i = Len(g) + 2
<1> SUFFICES ASSUME g \in Text, ~Ends(g), s = g \o TagRow[y],
                    t = Escape(x[1], KeyChars) \o <<"=">>,
                    Occurs(s, t, i), i + Len(t) - 1 > Len(g)
             PROVE  y[1] = x[1] /\ i = Len(g) + 2
  BY DEF Tailing
<1>1. PICK c, k, e, v : IsTag(y, c, k, e, v)
  BY TagIs
<1>2. PICK T : /\ T = TagRow[y] /\ T \in Text /\ T # <<>> /\ T[1] = Comma
  BY TagRowlike DEF Rowlike
<1>3. PICK E : /\ E = Escape(x[1], KeyChars) /\ E \in Text /\ E # <<>>
               /\ Guarded(E, KeyChars) /\ ~Ends(E)
  BY PairIs
<1>4. PICK n : n \in Nat \ {0} /\ n = Len(E)
  BY <1>3, EmptySeq DEF Text
<1>5. PICK L : L \in Nat /\ L = Len(g)
  BY LenProperties DEF Text
<1>6. PICK m : m \in Nat \ {0} /\ m = Len(T)
  BY <1>2, EmptySeq DEF Text
<1>7. /\ s \in Text /\ Len(s) = L + m
      /\ \A q \in 1..L : s[q] = g[q]
      /\ \A q \in 1..m : s[L + q] = T[q]
  BY <1>2, <1>5, <1>6, TextBoth
<1>8. /\ t \in Text /\ Len(t) = n + 1 /\ t[n + 1] = "="
      /\ \A q \in 1..n : t[q] = E[q]
  <2>1. PICK h : h \in Text /\ h = <<"=">> /\ Len(h) = 1 /\ h[1] = "="
    BY Marks
  <2>2. /\ E \o h \in Text /\ Len(E \o h) = Len(E) + Len(h)
        /\ \A q \in 1..Len(E) : (E \o h)[q] = E[q]
        /\ \A q \in 1..Len(h) : (E \o h)[Len(E) + q] = h[q]
    BY <1>3, <2>1, TextBoth
  <2>3. 1 \in 1..Len(h)
    BY <2>1
  <2> QED
    BY <1>3, <1>4, <2>1, <2>2, <2>3
<1>9. /\ i \in Nat \ {0} /\ i + n <= L + m /\ i + n > L
      /\ \A q \in 1..(n + 1) : s[i + q - 1] = t[q]
  <2>1. /\ i \in Nat \ {0} /\ i + Len(t) - 1 <= Len(s)
        /\ \A q \in 1..Len(t) : s[i + q - 1] = t[q]
    <3>1. s \in Text /\ t \in Text /\ Occurs(s, t, i)
      BY <1>7, <1>8
    <3>2. FoundAt(s, t, i)
      BY <3>1, OccursAt
    <3> QED
      BY <3>2 DEF FoundAt
  <2>2. i + Len(t) - 1 > L
    BY <1>5
  <2> QED
    BY <1>4, <1>5, <1>7, <1>8, <2>1, <2>2
<1>10. /\ s[i + n] = "="
       /\ \A q \in 1..n : s[i + q - 1] = E[q]
  <2>1. n + 1 \in 1..(n + 1) /\ i + (n + 1) - 1 = i + n
    BY <1>4, <1>9
  <2>2. \A q \in 1..n : q \in 1..(n + 1)
    BY <1>4
  <2> QED
    BY <1>8, <1>9, <2>1, <2>2
<1>11. s[i + n - 1] # Backslash
  <2>1. n \in 1..n
    BY <1>4
  <2> QED
    BY <1>3, <1>4, <1>10, <2>1 DEF Ends
<1>12. PICK j : j \in 1..m /\ i + n = L + j
  <2>1. i + n - L \in 1..m /\ i + n = L + (i + n - L)
    BY <1>4, <1>5, <1>6, <1>9
  <2> QED
    BY <2>1
<1>13. T[j] = "="
  BY <1>7, <1>10, <1>12
<1>14. j # 1
  BY <1>2, <1>13, Marks
<1>15. j \in 2..m /\ T[j - 1] # Backslash
  <2>1. j - 1 \in 1..m /\ i + n - 1 = L + (j - 1) /\ j \in 2..m
    BY <1>4, <1>5, <1>6, <1>9, <1>12, <1>14
  <2> QED
    BY <1>7, <1>11, <2>1
<1>16. j = Len(k) + 2
  BY <1>1, <1>2, <1>6, <1>13, <1>15, Separator
<1>17. PICK l : l \in Nat /\ l = Len(k)
  BY <1>1, LenProperties DEF IsTag, Text
<1>18. i + n = L + l + 2
  BY <1>5, <1>12, <1>16, <1>17
<1>19. n <= l
  <2>1. SUFFICES ASSUME n > l PROVE FALSE
    BY <1>4, <1>17
  <2>2. PICK q : q \in 1..n /\ i + q - 1 = L + 1
    <3>1. L + 2 - i \in 1..n /\ i + (L + 2 - i) - 1 = L + 1
      BY <1>4, <1>5, <1>9, <1>17, <1>18, <2>1
    <3> QED
      BY <3>1
  <2>3. E[q] = Comma
    <3>1. 1 \in 1..m
      BY <1>6
    <3>2. s[L + 1] = Comma
      BY <1>2, <1>7, <3>1
    <3> QED
      BY <1>10, <2>2, <3>2
  <2>4. q > 1 /\ E[q - 1] = Backslash
    <3>1. Lone(E, q)
      BY <1>3, <1>4, <2>2, <2>3, Marks DEF Guarded
    <3> QED
      BY <3>1 DEF Lone
  <2>5. q - 1 \in 1..n /\ i + (q - 1) - 1 = L /\ L \in 1..L
    BY <1>4, <1>5, <1>9, <2>2, <2>4
  <2>6. g[L] = Backslash
    BY <1>7, <1>10, <2>4, <2>5
  <2>7. g # <<>>
    BY <1>5, <2>5, EmptySeq
  <2> QED
    BY <1>5, <2>6, <2>7 DEF Ends
<1>20. /\ k \in Text /\ k = Escape(y[1], KeyChars)
       /\ \A q \in 1..l : T[1 + q] = k[q]
  <2>1. c \in Text /\ k \in Text /\ Len(c) = 1
    BY <1>1 DEF IsTag
  <2>2. PICK ck : /\ ck \in Text /\ ck = c \o k /\ Len(ck) = 1 + l
                  /\ \A q \in 1..l : ck[1 + q] = k[q]
    <3>1. /\ c \o k \in Text /\ Len(c \o k) = Len(c) + Len(k)
          /\ \A q \in 1..Len(k) : (c \o k)[Len(c) + q] = k[q]
      BY <2>1, TextBoth
    <3>2. PICK w : w = c \o k
      OBVIOUS
    <3>3. /\ w \in Text /\ w = c \o k /\ Len(w) = 1 + l
          /\ \A q \in 1..l : w[1 + q] = k[q]
      BY <1>17, <2>1, <3>1, <3>2
    <3> QED
      BY <3>3
  <2>3. e \in Text /\ v \in Text
    BY <1>1 DEF IsTag
  <2>4. PICK cke : /\ cke \in Text /\ cke = ck \o e /\ Len(cke) = 1 + l + Len(e) /\ Len(e) \in Nat
                   /\ \A q \in 1..(1 + l) : cke[q] = ck[q]
    <3>1. /\ ck \o e \in Text /\ Len(ck \o e) = Len(ck) + Len(e) /\ Len(e) \in Nat
          /\ \A q \in 1..Len(ck) : (ck \o e)[q] = ck[q]
      BY <2>2, <2>3, TextBoth
    <3>2. PICK w : w = ck \o e
      OBVIOUS
    <3>3. /\ w \in Text /\ w = ck \o e /\ Len(w) = 1 + l + Len(e) /\ Len(e) \in Nat
          /\ \A q \in 1..(1 + l) : w[q] = ck[q]
      BY <2>2, <3>1, <3>2
    <3> QED
      BY <3>3
  <2>5. T = cke \o v
    BY <1>1, <1>2, <2>2, <2>4 DEF IsTag
  <2>6. \A q \in 1..Len(cke) : T[q] = cke[q]
    <3>1. cke \in Text /\ v \in Text
      BY <2>3, <2>4
    <3>2. \A q \in 1..Len(cke) : (cke \o v)[q] = cke[q]
      BY <3>1, TextBoth
    <3> QED
      BY <2>5, <3>2
  <2>7. ASSUME NEW q \in 1..l PROVE T[1 + q] = k[q]
    <3>1. 1 + q \in 1..(1 + l) /\ 1 + q \in 1..Len(cke)
      BY <1>17, <2>4
    <3> QED
      BY <2>2, <2>4, <2>6, <3>1
  <2>8. k = Escape(y[1], KeyChars)
    BY <1>1 DEF IsTag
  <2> QED
    BY <2>1, <2>7, <2>8
<1>21. PICK d : d \in Nat /\ d = l - n
  BY <1>4, <1>17, <1>19
<1>22. PICK u : /\ u \in Text /\ u = Before(k, d) /\ Len(u) = d
                /\ \A q \in 1..d : k[q] = u[q]
  <2>1. PartsOf(Bytes, k)
    BY <1>20, Parts DEF Text
  <2>2. d \in 0..Len(k)
    BY <1>4, <1>17, <1>21
  <2>a. /\ Before(k, d) \in Seq(Bytes) /\ Behind(k, d) \in Seq(Bytes)
        /\ Len(Before(k, d)) = d /\ Before(k, d) \o Behind(k, d) = k
    BY <2>1, <2>2 DEF PartsOf
  <2>3. PICK a, b : a \in Text /\ b \in Text /\ a = Before(k, d) /\ Len(a) = d /\ a \o b = k
    BY <2>a DEF Text
  <2>4. \A q \in 1..d : k[q] = a[q]
    BY <2>3, TextBoth
  <2> QED
    BY <2>3, <2>4
<1>a. /\ i \in Int /\ n \in Nat /\ L \in Nat /\ m \in Nat /\ l \in Nat /\ d \in Nat
      /\ i + n = L + l + 2 /\ d = l - n /\ l + 2 <= m
  BY <1>4, <1>5, <1>6, <1>9, <1>12, <1>16, <1>17, <1>18, <1>21
<1>23. \A q \in 1..n : k[d + q] = E[q]
  <2>1. ASSUME NEW q \in 1..n PROVE k[d + q] = E[q]
    <3>1. d + q \in 1..l /\ i + q - 1 = L + (1 + (d + q)) /\ 1 + (d + q) \in 1..m
      BY <1>a
    <3>2. s[i + q - 1] = T[1 + (d + q)]
      BY <1>7, <3>1
    <3> QED
      BY <1>10, <1>20, <3>1, <3>2
  <2> QED
    BY <2>1
<1>24. k = u \o E
  <2>1. /\ u \in Seq(Bytes) /\ E \in Seq(Bytes) /\ k \in Seq(Bytes)
        /\ Len(k) = Len(u) + Len(E)
        /\ \A q \in 1..Len(u) : k[q] = u[q]
        /\ \A q \in 1..Len(E) : k[Len(u) + q] = E[q]
    <3>1. Len(k) = l /\ Len(u) = d /\ Len(E) = n /\ l = d + n
      BY <1>4, <1>17, <1>22, <1>a
    <3>2. u \in Seq(Bytes) /\ E \in Seq(Bytes) /\ k \in Seq(Bytes)
      BY <1>3, <1>20, <1>22 DEF Text
    <3> QED
      BY <1>22, <1>23, <3>1, <3>2
  <2> QED
    BY <2>1, RowIs
<1>25. u = <<>> /\ y[1] = x[1]
  BY <1>3, <1>20, <1>22, <1>24, KeyEnds
<1>26. i = L + 2
  <2>1. d = 0
    BY <1>22, <1>25, EmptySeq
  <2> QED
    BY <1>4, <1>5, <1>9, <1>17, <1>18, <1>21, <2>1
<1> QED
  BY <1>5, <1>25, <1>26

\* p has the tag x between a and b.
Between(p, a, x, b) ==
  a \in Seq(Pairs) /\ x \in Pairs /\ b \in Seq(Pairs) /\ p = a \o (<<x>> \o b)

Parted(p, a, x, b) ==
  /\ p \in Seq(Pairs) /\ Len(a) + 1 \in 1..Len(p) /\ p[Len(a) + 1] = x
  /\ a = Before(p, Len(a)) /\ Len(p) = Len(a) + 1 + Len(b)
  /\ Line(TagRow, p) = Line(TagRow, a) \o (TagRow[x] \o Line(TagRow, b))

\* Where the tag is in the rows and in the line.
LEMMA BetweenIs ==
  ASSUME NEW p, NEW a, NEW x, NEW b, Between(p, a, x, b)
  PROVE  Parted(p, a, x, b)
<1>1. a \in Seq(Pairs) /\ x \in Pairs /\ b \in Seq(Pairs) /\ p = a \o (<<x>> \o b)
  BY DEF Between
<1>2. PICK o : o \in Seq(Pairs) /\ o = <<x>> /\ Len(o) = 1 /\ o[1] = x
  BY <1>1, Singles
<1>3. PICK r : r \in Seq(Pairs) /\ r = o \o b /\ Len(r) = 1 + Len(b) /\ r[1] = x
  <2>1. o \o b \in Seq(Pairs) /\ Len(o \o b) = Len(o) + Len(b)
        /\ \A i \in 1..Len(o) : (o \o b)[i] = o[i]
    BY <1>1, <1>2, Both
  <2>2. 1 \in 1..Len(o)
    BY <1>2
  <2> QED
    BY <1>2, <2>1, <2>2
<1>4. /\ a \o r \in Seq(Pairs) /\ Len(a \o r) = Len(a) + Len(r)
      /\ Len(a) \in Nat /\ Len(r) \in Nat
      /\ \A i \in 1..Len(r) : (a \o r)[Len(a) + i] = r[i]
  <2>1. a \in Seq(Pairs) /\ r \in Seq(Pairs)
    BY <1>1, <1>3
  <2> QED
    BY <2>1, Both
<1>5. p = a \o r /\ Len(b) \in Nat
  BY <1>1, <1>2, <1>3, LenProperties
<1>6. 1 \in 1..Len(r) /\ Len(a) + 1 \in 1..(Len(a) + Len(r))
  BY <1>3, <1>4, <1>5
<1>7. p \in Seq(Pairs) /\ Len(p) = Len(a) + Len(r) /\ p[Len(a) + 1] = x
  BY <1>3, <1>4, <1>5, <1>6
<1>8. a = Before(p, Len(a))
  <2>1. a \in Seq(Pairs) /\ r \in Seq(Pairs)
    BY <1>1, <1>3
  <2>2. SubSeq(a \o r, 1, Len(a)) = a
    BY <2>1, CutConcat
  <2> QED
    BY <1>5, <2>2 DEF Before
<1>9. Line(TagRow, p) = Line(TagRow, a) \o Line(TagRow, r)
  <2>1. TagRow \in [Pairs -> Text]
    BY TagRowlike DEF Rowlike
  <2>2. a \in Seq(Pairs) /\ r \in Seq(Pairs)
    BY <1>1, <1>3
  <2>3. Line(TagRow, a \o r) = Line(TagRow, a) \o Line(TagRow, r)
    BY <2>1, <2>2, LineConcat
  <2> QED
    BY <1>5, <2>3
<1>10. Line(TagRow, r) = TagRow[x] \o Line(TagRow, b)
  BY <1>1, <1>2, <1>3, LineCons, TagRowlike
<1> QED
  BY <1>3, <1>4, <1>5, <1>6, <1>7, <1>8, <1>9, <1>10 DEF Parted

\* Where the key of x is found in the rows of p, p has a tag of that key.
FoundIn(p, x, i) ==
  \E a, y, b : Between(p, a, y, b) /\ y[1] = x[1] /\ i = Len(Line(TagRow, a)) + 2

Key(x) == Escape(x[1], KeyChars) \o <<"=">>

\* What RemoveTag looks for.
LEMMA KeyText ==
  ASSUME NEW x \in Pairs
  PROVE  Key(x) \in Text /\ Len(Key(x)) \in Nat /\ Len(Key(x)) >= 2
<1>1. PICK E : E = Escape(x[1], KeyChars) /\ E \in Text /\ E # <<>>
  BY PairIs
<1>2. PICK h : h \in Text /\ h = <<"=">> /\ Len(h) = 1
  BY Marks
<1>3. E \o h \in Text /\ Len(E \o h) = Len(E) + Len(h)
  BY <1>1, <1>2, TextBoth
<1>4. Len(E) \in Nat \ {0}
  BY <1>1, EmptySeq DEF Text
<1>5. Key(x) = E \o h
  BY <1>1, <1>2 DEF Key
<1> QED
  BY <1>2, <1>3, <1>4, <1>5

\* A key that reaches into the last row is found at its front.
LEMMA FoundTail ==
  ASSUME NEW x \in Pairs, NEW y \in Pairs, NEW g, g \in Text /\ ~Ends(g),
         NEW i, Occurs(g \o TagRow[y], Key(x), i), i + Len(Key(x)) - 1 > Len(g)
  PROVE  y[1] = x[1] /\ i = Len(g) + 2
<1>1. PICK s : s = g \o TagRow[y]
  OBVIOUS
<1>2. PICK t : t = Escape(x[1], KeyChars) \o <<"=">>
  OBVIOUS
<1>3. Tailing(x, y, g, s, t, i)
  BY <1>1, <1>2 DEF Key, Tailing
<1> QED
  BY <1>3, FoundLast

\* One more row: the key is found in it or before it.
LEMMA FoundStep ==
  ASSUME NEW x \in Pairs, NEW q \in Seq(Pairs), NEW y \in Pairs,
         \A i : Occurs(Line(TagRow, q), Key(x), i) => FoundIn(q, x, i),
         NEW i, Occurs(Line(TagRow, Append(q, y)), Key(x), i)
  PROVE  FoundIn(Append(q, y), x, i)
<1>1. PICK g : g \in Text /\ ~Ends(g) /\ g = Line(TagRow, q)
  BY LineRowlike, TagRowlike
<1>2. PICK T : T \in Text /\ T = TagRow[y]
  BY TagRowlike DEF Rowlike
<1>3. PICK s : /\ s \in Text /\ s = g \o T
               /\ Len(s) = Len(g) + Len(T) /\ Len(g) \in Nat /\ Len(T) \in Nat
  <2>1. g \o T \in Text /\ Len(g \o T) = Len(g) + Len(T) /\ Len(g) \in Nat /\ Len(T) \in Nat
    BY <1>1, <1>2, TextBoth
  <2> QED
    BY <2>1
<1>4. s = Line(TagRow, Append(q, y))
  BY <1>1, <1>2, <1>3, LineAppend, TagRowlike
<1>5. PICK t : t \in Text /\ t = Key(x) /\ Len(t) \in Nat /\ Len(t) >= 2
  BY KeyText
<1>6. Occurs(s, t, i)
  BY <1>4, <1>5
<1>7. CASE i + Len(t) - 1 > Len(g)
  <2>1. y[1] = x[1] /\ i = Len(g) + 2
    <3>1. Occurs(g \o TagRow[y], Key(x), i) /\ i + Len(Key(x)) - 1 > Len(g)
      BY <1>2, <1>3, <1>5, <1>6, <1>7
    <3>2. g \in Text /\ ~Ends(g)
      BY <1>1
    <3> QED
      BY <3>1, <3>2, FoundTail
  <2>2. Between(Append(q, y), q, y, <<>>)
    <3>1. PICK o : o \in Seq(Pairs) /\ o = <<y>>
      BY Singles
    <3>2. o \o <<>> = o /\ <<>> \in Seq(Pairs)
      BY <3>1, ConcatEmptySeq, EmptySeq
    <3>3. Append(q, y) = q \o o
      BY <3>1, AppendIsConcat
    <3> QED
      BY <3>1, <3>2, <3>3 DEF Between
  <2> QED
    BY <1>1, <2>1, <2>2 DEF FoundIn
<1>8. CASE ~(i + Len(t) - 1 > Len(g))
  <2>1. i \in 1..(Len(s) - Len(t) + 1) /\ SubSeq(s, i, i + Len(t) - 1) = t
    BY <1>6 DEF Occurs
  <2>2. i \in 1..Len(g) /\ i + Len(t) - 1 \in 1..Len(g) /\ i \in 1..(Len(g) - Len(t) + 1)
    BY <1>3, <1>5, <1>8, <2>1
  <2>3. SubSeq(g \o T, i, i + Len(t) - 1) = SubSeq(g, i, i + Len(t) - 1)
    <3>1. PICK n : n = i + Len(t) - 1
      OBVIOUS
    <3>2. g \in Seq(Bytes) /\ T \in Seq(Bytes) /\ i \in 1..Len(g) /\ n \in 1..Len(g)
      BY <1>1, <1>2, <2>2, <3>1 DEF Text
    <3>3. SubSeq(g \o T, i, n) = SubSeq(g, i, n)
      BY <3>2, SubSeqOfConcat1
    <3> QED
      BY <3>1, <3>3
  <2>4. Occurs(g, t, i)
    BY <1>3, <2>1, <2>2, <2>3 DEF Occurs
  <2>5. FoundIn(q, x, i)
    BY <1>1, <1>5, <2>4
  <2>6. PICK a, z, b : Between(q, a, z, b) /\ z[1] = x[1] /\ i = Len(Line(TagRow, a)) + 2
    BY <2>5 DEF FoundIn
  <2>7. Between(Append(q, y), a, z, Append(b, y))
    <3>1. a \in Seq(Pairs) /\ z \in Pairs /\ b \in Seq(Pairs) /\ q = a \o (<<z>> \o b)
      BY <2>6 DEF Between
    <3>2. PICK o : o \in Seq(Pairs) /\ o = <<z>>
      BY <3>1, Singles
    <3>3. o \o Append(b, y) = Append(o \o b, y)
      BY <3>1, <3>2, AppendConcat
    <3>4. PICK r : r \in Seq(Pairs) /\ r = o \o b
      BY <3>1, <3>2, Both
    <3>5. a \o Append(r, y) = Append(a \o r, y)
      BY <3>1, <3>4, AppendConcat
    <3>6. Append(b, y) \in Seq(Pairs)
      BY <3>1, AppendProperties
    <3>7. Append(q, y) = a \o (<<z>> \o Append(b, y))
      BY <3>1, <3>2, <3>3, <3>4, <3>5
    <3> QED
      BY <3>1, <3>6, <3>7 DEF Between
  <2> QED
    BY <2>6, <2>7 DEF FoundIn
<1> QED
  BY <1>7, <1>8

\* Wherever the key is found in the line, a row of that key begins there.
LEMMA FoundRows ==
  ASSUME NEW x \in Pairs, NEW p \in Seq(Pairs), NEW i, Occurs(Line(TagRow, p), Key(x), i)
  PROVE  FoundIn(p, x, i)
<1> DEFINE Good(q) == \A n : Occurs(Line(TagRow, q), Key(x), n) => FoundIn(q, x, n)
           G == {q \in Seq(Pairs) : Good(q)}
<1>k. \A q : q \in G <=> q \in Seq(Pairs) /\ Good(q)
  OBVIOUS
<1> HIDE DEF G
<1>1. <<>> \in G
  <2>1. PICK z : z = <<>> /\ z \in Seq(Pairs) /\ Len(z) = 0
    BY EmptySeq
  <2>2. Line(TagRow, z) = z
    BY <2>1, LineEmpty
  <2>3. ASSUME NEW n, Occurs(z, Key(x), n) PROVE FALSE
    <3>1. n \in 1..(Len(z) - Len(Key(x)) + 1)
      BY <2>3 DEF Occurs
    <3>2. Len(Key(x)) \in Nat /\ Len(Key(x)) >= 2
      BY KeyText
    <3> QED
      BY <2>1, <3>1, <3>2
  <2>4. Good(z)
    BY <2>2, <2>3
  <2>5. z \in G
    BY <1>k, <2>1, <2>4
  <2> QED
    BY <2>1, <2>5
<1>2. ASSUME NEW q \in Seq(Pairs), NEW y \in Pairs, q \in G PROVE Append(q, y) \in G
  <2>1. Good(q)
    BY <1>2, <1>k
  <2>2. Good(Append(q, y))
    BY <2>1, FoundStep
  <2>3. Append(q, y) \in Seq(Pairs)
    BY AppendProperties
  <2> QED
    BY <1>k, <2>2, <2>3
<1>3. Seq(Pairs) \subseteq G
  BY <1>1, <1>2, ByAppend
<1> QED
  BY <1>3, <1>k

\* No two tags of p have the same key.
Distinct(p) == \A i, j \in 1..Len(p) : p[i][1] = p[j][1] => i = j

\* IndexOf is the first of the occurrences.
LEMMA IndexDef ==
  ASSUME NEW s, NEW t
  PROVE  IndexOf(s, t) = MinOr0({i \in 1..(Len(s) - Len(t) + 1) : Occurs(s, t, i)})
<1>1. {i \in 1..(Len(s) - Len(t) + 1) : SubSeq(s, i, i + Len(t) - 1) = t} =
      {i \in 1..(Len(s) - Len(t) + 1) : Occurs(s, t, i)}
  BY DEF Occurs
<1> QED
  BY <1>1 DEF IndexOf

\* A key that no row has is not found.
LEMMA NotFound ==
  ASSUME NEW x \in Pairs, NEW p \in Seq(Pairs), \A i \in 1..Len(p) : p[i][1] # x[1]
  PROVE  IndexOf(Line(TagRow, p), Key(x)) = 0
<1>1. ASSUME NEW i, Occurs(Line(TagRow, p), Key(x), i) PROVE FALSE
  <2>1. PICK a, y, b : Between(p, a, y, b) /\ y[1] = x[1]
    BY <1>1, FoundRows DEF FoundIn
  <2>2. Len(a) + 1 \in 1..Len(p) /\ p[Len(a) + 1] = y
    BY <2>1, BetweenIs DEF Parted
  <2> QED
    BY <2>1, <2>2
<1>2. PICK s, t : s = Line(TagRow, p) /\ t = Key(x)
  OBVIOUS
<1>3. {i \in 1..(Len(s) - Len(t) + 1) : Occurs(s, t, i)} = {}
  BY <1>1, <1>2
<1> QED
  BY <1>2, <1>3, IndexDef DEF MinOr0

\* The rows, cut where the tag is: g, the comma, the key, the value, r.
Cut(p, a, x, b, s, g, c, t, v, r) ==
  /\ s = Line(TagRow, p) /\ g = Line(TagRow, a) /\ r = Line(TagRow, b) /\ t = Key(x)
  /\ Five(s, g, c, t, v, r) /\ Len(c) = 1
  /\ t \o v \in Text /\ Guarded(t \o v, {Comma}) /\ ~Ends(t \o v)
  /\ s \in Text /\ (r # <<>> => r[1] = Comma)

\* The line can be cut at each tag.
LEMMA CutThere ==
  ASSUME NEW p, NEW a, NEW x, NEW b, Between(p, a, x, b)
  PROVE  \E s, g, c, t, v, r : Cut(p, a, x, b, s, g, c, t, v, r)
<1>1. a \in Seq(Pairs) /\ x \in Pairs /\ b \in Seq(Pairs) /\ p \in Seq(Pairs)
  BY BetweenIs DEF Between, Parted
<1>2. PICK g : g \in Text /\ g = Line(TagRow, a)
  BY <1>1, LineRowlike, TagRowlike
<1>3. PICK r : r \in Text /\ r = Line(TagRow, b) /\ (r # <<>> => r[1] = Comma)
  <2>1. Line(TagRow, b) \in Text /\ (b # <<>> => Line(TagRow, b)[1] = Comma)
    BY <1>1, LineRowlike, TagRowlike
  <2>2. b = <<>> => Line(TagRow, b) = <<>>
    BY LineEmpty
  <2> QED
    BY <2>1, <2>2
<1>4. PICK c, k, e, v : IsTag(x, c, k, e, v)
  BY <1>1, TagIs
<1>5. /\ c \in Text /\ Len(c) = 1 /\ k \in Text /\ e \in Text /\ v \in Text
      /\ Guarded(k, KeyChars) /\ Guarded(v, KeyChars) /\ e = <<"=">>
      /\ ~Ends(k) /\ ~Ends(v) /\ v # <<>> /\ e # <<>> /\ e[1] = "=" /\ Len(e) = 1
  BY <1>4 DEF IsTag
<1>6. PICK t : t \in Text /\ t = k \o e /\ t = Key(x)
  <2>1. k \in Text /\ e \in Text
    BY <1>5
  <2>2. k \o e \in Text
    BY <2>1, TextBoth
  <2>3. k \o e = Key(x)
    BY <1>4 DEF IsTag, Key
  <2> QED
    BY <2>2, <2>3
<1>7. PICK T : T \in Text /\ T = TagRow[x] /\ T = (c \o t) \o v
  <2>1. TagRow[x] = ((c \o k) \o e) \o v
    BY <1>4 DEF IsTag
  <2>2. (c \o k) \o e = c \o (k \o e)
    <3>1. c \in Text /\ k \in Text /\ e \in Text
      BY <1>5
    <3> QED
      BY <3>1, TextAssoc
  <2>3. TagRow[x] \in Text
    BY <1>1, TagRowlike DEF Rowlike
  <2> QED
    BY <1>6, <2>1, <2>2, <2>3
<1>8. PICK s : s \in Text /\ s = Line(TagRow, p)
  BY <1>1, LineRowlike, TagRowlike
<1>9. s = (((g \o c) \o t) \o v) \o r
  <2>1. s = g \o (T \o r)
    <3>0. Parted(p, a, x, b)
      BY BetweenIs
    <3>1. Line(TagRow, p) = Line(TagRow, a) \o (TagRow[x] \o Line(TagRow, b))
      BY <3>0 DEF Parted
    <3> QED
      BY <1>2, <1>3, <1>7, <1>8, <3>1
  <2>2. g \o (T \o r) = (g \o T) \o r
    BY <1>2, <1>3, <1>7, TextAssoc
  <2>3. PICK ct : ct \in Text /\ ct = c \o t
    <3>1. c \in Text
      BY <1>5
    <3> QED
      BY <1>6, <3>1, TextBoth
  <2>4. g \o (ct \o v) = (g \o ct) \o v
    <3>1. v \in Text
      BY <1>5
    <3> QED
      BY <1>2, <2>3, <3>1, TextAssoc
  <2>5. g \o (c \o t) = (g \o c) \o t
    <3>1. c \in Text
      BY <1>5
    <3> QED
      BY <1>2, <1>6, <3>1, TextAssoc
  <2> QED
    BY <1>7, <2>1, <2>2, <2>3, <2>4, <2>5
<1>10. t \o v \in Text /\ Guarded(t \o v, {Comma}) /\ ~Ends(t \o v)
  <2>1. /\ "=" \in Bytes /\ "=" \notin {Comma} /\ {Comma} \subseteq KeyChars /\ "=" # Backslash
    BY BytesAssumption, Marks
  <2>2. Guarded(k, {Comma}) /\ Guarded(e, {Comma}) /\ Guarded(v, {Comma})
    BY <1>5, <2>1, GuardedOne, GuardedSub
  <2>3. ~Ends(e)
    BY <1>5, <2>1 DEF Ends
  <2>4. Guarded(t, {Comma})
    <3>1. k \in Text /\ e \in Text /\ ~Ends(k)
      BY <1>5
    <3>2. Guarded(k \o e, {Comma})
      BY <2>2, <3>1, GuardedConcat
    <3> QED
      BY <1>6, <3>2
  <2>5. ~Ends(t)
    <3>1. k \in Text /\ e \in Text /\ e # <<>>
      BY <1>5
    <3>2. ~Ends(k \o e)
      BY <2>3, <3>1, EndsConcat
    <3> QED
      BY <1>6, <3>2
  <2>6. v \in Text /\ v # <<>> /\ ~Ends(v)
    BY <1>5
  <2>7. t \o v \in Text
    BY <1>6, <2>6, TextBoth
  <2>8. Guarded(t \o v, {Comma})
    BY <1>6, <2>2, <2>4, <2>5, <2>6, GuardedConcat
  <2>9. ~Ends(t \o v)
    BY <1>6, <2>6, EndsConcat
  <2> QED
    BY <2>7, <2>8, <2>9
<1>11. Five(s, g, c, t, v, r)
  BY <1>2, <1>3, <1>5, <1>6, <1>9 DEF Five
<1>12. Cut(p, a, x, b, s, g, c, t, v, r)
  BY <1>2, <1>3, <1>5, <1>6, <1>8, <1>10, <1>11 DEF Cut
<1> QED
  BY <1>12

\* What RemoveTag computes there.
CutFound(s, g, t, v, r) ==
  /\ Occurs(s, t, Len(g) + 2)
  /\ IndexUnescaped(From(s, Len(g) + 2), Comma) = IF r = <<>> THEN 0 ELSE Len(t) + Len(v) + 1
  /\ SubSeq(s, 1, Len(g)) = g
  /\ From(s, Len(g) + 2 + Len(t) + Len(v)) = r
  /\ Len(g) \in Nat /\ Len(t) \in Nat /\ Len(v) \in Nat

\* There the key is found, and the tag ends before the next comma.
LEMMA CutIs ==
  ASSUME NEW p, NEW a, NEW x, NEW b, NEW s, NEW g, NEW c, NEW t, NEW v, NEW r,
         Cut(p, a, x, b, s, g, c, t, v, r)
  PROVE  CutFound(s, g, t, v, r)
<1>1. g \in Text /\ c \in Text
  BY DEF Cut, Five
<1>2. t \in Text
  BY DEF Cut, Five
<1>3. v \in Text /\ r \in Text /\ Len(c) = 1
  BY DEF Cut, Five
<1>4. Five(s, g, c, t, v, r)
  BY DEF Cut
<1>5. Regrouped(s, g, c, t, v, r) /\ FiveFound(s, g, c, t, v, r)
  BY <1>4, Regroup, FiveParts
<1>6. /\ Len(g) \in Nat /\ Len(t) \in Nat /\ Len(v) \in Nat /\ Len(r) \in Nat
  BY <1>1, <1>2, <1>3, LenProperties DEF Text
<1>7. PICK gc : gc \in Text /\ gc = g \o c /\ Len(gc) = Len(g) + 1
  <2>1. g \o c \in Text /\ Len(g \o c) = Len(g) + Len(c)
    BY <1>1, TextBoth
  <2> QED
    BY <1>3, <2>1
<1>8. PICK vr : vr \in Text /\ vr = v \o r
  BY <1>3, TextBoth
<1>9. PICK tvr : tvr \in Text /\ tvr = t \o vr
  BY <1>2, <1>8, TextBoth
<1>10. s = gc \o tvr
  BY <1>5, <1>7, <1>8, <1>9 DEF Regrouped
<1>11. From(s, Len(g) + 2) = tvr
  <2>1. From(gc \o tvr, Len(gc) + 1) = tvr
    BY <1>7, <1>9, CutConcat DEF Text
  <2>2. Len(gc) + 1 = Len(g) + 2
    BY <1>6, <1>7
  <2> QED
    BY <1>10, <2>1, <2>2
<1>12. SubSeq(s, Len(g) + 2, Len(g) + 2 + Len(t) - 1) = t
  <2>1. SubSeq(gc \o (t \o vr), Len(gc) + 1, Len(gc) + Len(t)) = t
    BY <1>2, <1>7, <1>8, TextMiddle
  <2>2. Len(gc) + 1 = Len(g) + 2 /\ Len(gc) + Len(t) = Len(g) + 2 + Len(t) - 1
    BY <1>6, <1>7
  <2> QED
    BY <1>9, <1>10, <2>1, <2>2
<1>13. Occurs(s, t, Len(g) + 2)
  <2>1. Len(s) = Len(g) + 1 + Len(t) + Len(v) + Len(r)
    BY <1>3, <1>5 DEF FiveFound
  <2>2. Len(g) + 2 \in 1..(Len(s) - Len(t) + 1)
    <3>1. v # <<>> => Len(v) # 0
      BY <1>3, EmptySeq DEF Text
    <3> QED
      BY <1>6, <2>1
  <2> QED
    BY <1>12, <2>2 DEF Occurs
<1>14. SubSeq(s, 1, Len(g)) = g
  <2>1. PICK ctvr : ctvr \in Text /\ ctvr = c \o tvr
    BY <1>1, <1>9, TextBoth
  <2>2. s = g \o ctvr
    BY <1>5, <1>8, <1>9, <2>1 DEF Regrouped
  <2> QED
    BY <1>1, <2>1, <2>2, CutConcat DEF Text
<1>15. From(s, Len(g) + 2 + Len(t) + Len(v)) = r
  <2>1. From(s, Len(g) + Len(c) + Len(t) + Len(v) + 1) = r
    BY <1>5 DEF FiveFound
  <2>2. Len(g) + Len(c) + Len(t) + Len(v) + 1 = Len(g) + 2 + Len(t) + Len(v)
    BY <1>3, <1>6
  <2> QED
    BY <2>1, <2>2
<1>16. IndexUnescaped(tvr, Comma) = IF r = <<>> THEN 0 ELSE Len(t) + Len(v) + 1
  <2>1. PICK tv : tv \in Text /\ tv = t \o v /\ Guarded(tv, {Comma}) /\ ~Ends(tv)
    BY DEF Cut
  <2>2. Len(tv) = Len(t) + Len(v)
    BY <1>2, <1>3, <2>1, TextBoth
  <2>3. tvr = tv \o r
    <3>1. (t \o v) \o r = t \o (v \o r)
      BY <1>2, <1>3, TextAssoc
    <3> QED
      BY <1>8, <1>9, <2>1, <3>1
  <2>4. Comma \in {Comma}
    OBVIOUS
  <2>5. CASE r = <<>>
    <3>1. tvr = tv
      BY <2>1, <2>3, <2>5, ConcatEmptySeq DEF Text
    <3> QED
      BY <2>1, <2>4, <2>5, <3>1, NoneAt
  <2>6. CASE r # <<>>
    <3>1. r[1] = Comma
      BY <2>6 DEF Cut
    <3>2. IndexUnescaped(tv \o r, Comma) = Len(tv) + 1
      BY <1>3, <2>1, <2>4, <2>6, <3>1, FirstBehind
    <3> QED
      BY <2>2, <2>3, <2>6, <3>2
  <2> QED
    BY <2>5, <2>6
<1> QED
  BY <1>6, <1>11, <1>13, <1>14, <1>15, <1>16 DEF CutFound

\* The key is found at its own row, as there is but one of that key.
LEMMA IndexFound ==
  ASSUME NEW p, NEW a, NEW x, NEW b, Between(p, a, x, b), Distinct(p)
  PROVE  IndexOf(Line(TagRow, p), Key(x)) = Len(Line(TagRow, a)) + 2
<1>1. PICK s, g, c, t, v, r : Cut(p, a, x, b, s, g, c, t, v, r)
  BY CutThere
<1>2. CutFound(s, g, t, v, r)
  BY <1>1, CutIs
<1>3. s = Line(TagRow, p) /\ g = Line(TagRow, a) /\ t = Key(x)
  BY <1>1 DEF Cut
<1>4. Occurs(s, t, Len(g) + 2) /\ Len(g) \in Nat
  BY <1>2 DEF CutFound
<1> DEFINE S == {i \in 1..(Len(s) - Len(t) + 1) : Occurs(s, t, i)}
<1>5. Len(g) + 2 \in S
  BY <1>4 DEF Occurs
<1>6. ASSUME NEW i \in S PROVE i = Len(g) + 2
  <2>1. /\ p \in Seq(Pairs) /\ x \in Pairs
        /\ Len(a) + 1 \in 1..Len(p) /\ p[Len(a) + 1] = x /\ a = Before(p, Len(a))
        /\ a \in Seq(Pairs)
    BY BetweenIs DEF Parted, Between
  <2>2. FoundIn(p, x, i)
    BY <1>3, <2>1, FoundRows
  <2>3. PICK aa, y, bb : Between(p, aa, y, bb) /\ y[1] = x[1] /\ i = Len(Line(TagRow, aa)) + 2
    BY <2>2 DEF FoundIn
  <2>4. /\ Len(aa) + 1 \in 1..Len(p) /\ p[Len(aa) + 1] = y /\ aa = Before(p, Len(aa))
        /\ aa \in Seq(Pairs)
    <3>1. Between(p, aa, y, bb)
      BY <2>3
    <3>2. Parted(p, aa, y, bb)
      BY <3>1, BetweenIs
    <3> QED
      BY <3>1, <3>2 DEF Parted, Between
  <2>5. Len(aa) + 1 = Len(a) + 1
    BY <2>1, <2>3, <2>4 DEF Distinct
  <2>6. Len(aa) = Len(a)
    BY <2>1, <2>4, <2>5, LenProperties
  <2> QED
    BY <1>3, <2>1, <2>3, <2>4, <2>6
<1>7. MinOr0(S) = Len(g) + 2
  <2>1. S \subseteq Int /\ \A i \in S : Len(g) + 2 <= i
    BY <1>4, <1>6
  <2> HIDE DEF S
  <2> QED
    BY <1>5, <2>1, MinIs
<1> QED
  BY <1>3, <1>7, IndexDef

\* RemoveTag leaves the other tags, in their order.
LEMMA RemoveTagHit ==
  ASSUME NEW m, NEW p, NEW a, NEW x, NEW b, Between(p, a, x, b), Distinct(p),
         m.tags = Line(TagRow, p)
  PROVE  RemoveTag(m, x[1]) = [m EXCEPT !.tags = Line(TagRow, a \o b)]
<1>1. PICK s, g, c, t, v, r : Cut(p, a, x, b, s, g, c, t, v, r)
  BY CutThere
<1>2. CutFound(s, g, t, v, r)
  BY <1>1, CutIs
<1>3. /\ s = Line(TagRow, p) /\ g = Line(TagRow, a) /\ t = Key(x) /\ r = Line(TagRow, b)
      /\ m.tags = s
  BY <1>1 DEF Cut
<1>4. g \in Text /\ r \in Text
  BY <1>1 DEF Cut, Five
<1>5. Len(g) \in Nat /\ Len(t) \in Nat /\ Len(v) \in Nat
  BY <1>2 DEF CutFound
<1>6. IndexOf(s, t) = Len(g) + 2
  BY <1>3, IndexFound
<1>7. PICK i : i = Len(g) + 2
  OBVIOUS
<1>8. i # 0 /\ i - 2 = Len(g)
  BY <1>5, <1>7
<1>9. PICK j : j = IndexUnescaped(From(s, i), Comma)
  OBVIOUS
<1>10. j = IF r = <<>> THEN 0 ELSE Len(t) + Len(v) + 1
  BY <1>2, <1>7, <1>9 DEF CutFound
<1>11. SubSeq(s, 1, i - 2) = g
  BY <1>2, <1>8 DEF CutFound
<1>12. (IF j = 0 THEN <<>> ELSE From(s, i + j - 1)) = r
  <2>1. CASE r = <<>>
    BY <1>10, <2>1
  <2>2. CASE r # <<>>
    <3>1. j = Len(t) + Len(v) + 1
      BY <1>10, <2>2
    <3>2. j # 0 /\ i + j - 1 = Len(g) + 2 + Len(t) + Len(v)
      BY <1>5, <1>7, <3>1
    <3>3. From(s, Len(g) + 2 + Len(t) + Len(v)) = r
      BY <1>2 DEF CutFound
    <3> QED
      BY <3>2, <3>3
  <2> QED
    BY <2>1, <2>2
<1>13. RemoveTag(m, x[1]) = IF i = 0 THEN m
         ELSE [m EXCEPT !.tags = SubSeq(s, 1, i - 2) \o IF j = 0 THEN <<>> ELSE From(s, i + j - 1)]
  <2>1. Escape(x[1], KeyChars) \o <<"=">> = t
    BY <1>3 DEF Key
  <2>2. i = IndexOf(m.tags, Escape(x[1], KeyChars) \o <<"=">>)
    BY <1>3, <1>6, <1>7, <2>1
  <2>3. j = IndexUnescaped(From(m.tags, i), Comma)
    BY <1>3, <1>9
  <2> QED
    BY <1>3, <2>2, <2>3 DEF RemoveTag
<1>14. RemoveTag(m, x[1]) = [m EXCEPT !.tags = g \o r]
  BY <1>8, <1>11, <1>12, <1>13
<1>15. g \o r = Line(TagRow, a \o b)
  <2>1. a \in Seq(Pairs) /\ b \in Seq(Pairs)
    BY DEF Between
  <2>2. TagRow \in [Pairs -> Text]
    BY TagRowlike DEF Rowlike
  <2>3. Line(TagRow, a \o b) = Line(TagRow, a) \o Line(TagRow, b)
    BY <2>1, <2>2, LineConcat
  <2> QED
    BY <1>3, <2>3
<1> QED
  BY <1>14, <1>15

\* RemoveTag of a key that is not there changes nothing.
LEMMA RemoveTagMiss ==
  ASSUME NEW m, NEW p \in Seq(Pairs), NEW x \in Pairs, \A i \in 1..Len(p) : p[i][1] # x[1],
         m.tags = Line(TagRow, p)
  PROVE  RemoveTag(m, x[1]) = m
<1>1. IndexOf(m.tags, Escape(x[1], KeyChars) \o <<"=">>) = 0
  BY NotFound DEF Key
<1> QED
  BY <1>1 DEF RemoveTag

---------------------------------------------------------------------------
(* The rows and the map of tags.                                           *)

\* The map has the tags of p and no others.
Keeps(p, map) ==
  /\ p \in Seq(Pairs) /\ Distinct(p)
  /\ map \in [DOMAIN map -> TagValues]
  /\ DOMAIN map = {p[i][1] : i \in 1..Len(p)}
  /\ \A i \in 1..Len(p) : map[p[i][1]] = p[i][2]

\* The map that the tags make is the map.
LEMMA KeepsAsMap ==
  ASSUME NEW p, NEW map, Keeps(p, map)
  PROVE  AsMap(p) = map
<1>1. /\ p \in Seq(Pairs) /\ Distinct(p)
      /\ map \in [DOMAIN map -> TagValues]
      /\ DOMAIN map = {p[i][1] : i \in 1..Len(p)}
      /\ \A i \in 1..Len(p) : map[p[i][1]] = p[i][2]
  BY DEF Keeps
<1>2. DOMAIN p = 1..Len(p) /\ Len(p) \in Nat
  BY <1>1, LenProperties
<1>3. {q[1] : q \in ToSet(p)} = DOMAIN map
  BY <1>1, <1>2 DEF ToSet
<1>4. ASSUME NEW k \in DOMAIN map
      PROVE  p[Max({i \in DOMAIN p : p[i][1] = k})][2] = map[k]
  <2>1. PICK i \in 1..Len(p) : p[i][1] = k
    BY <1>1
  <2> DEFINE S == {j \in DOMAIN p : p[j][1] = k}
  <2>2. i \in S /\ S \subseteq Int
    BY <1>2, <2>1
  <2>3. \A j \in S : i >= j
    <3>1. ASSUME NEW j \in S PROVE i >= j
      <4>1. i = j
        BY <1>1, <1>2, <2>1 DEF Distinct
      <4> QED
        BY <2>1, <4>1
    <3> QED
      BY <3>1
  <2>4. Max(S) = i
    <3> HIDE DEF S
    <3> QED
      BY <2>2, <2>3, MaxIs
  <2> QED
    BY <1>1, <2>1, <2>4
<1>5. AsMap(p) = [k \in DOMAIN map |-> map[k]]
  BY <1>3, <1>4 DEF AsMap
<1> QED
  BY <1>1, <1>5

\* The tags without x.
LEMMA RestIs ==
  ASSUME NEW p, NEW a, NEW x, NEW b, Between(p, a, x, b)
  PROVE  /\ a \o b \in Seq(Pairs) /\ Len(a \o b) \in Nat /\ Len(p) = Len(a \o b) + 1
         /\ Len(a) \in 0..Len(a \o b)
         /\ \A i \in 1..Len(a \o b) : (a \o b)[i] = p[IF i <= Len(a) THEN i ELSE i + 1]
<1>1. a \in Seq(Pairs) /\ x \in Pairs /\ b \in Seq(Pairs) /\ p = a \o (<<x>> \o b)
  BY DEF Between
<1>2. PICK o : o \in Seq(Pairs) /\ o = <<x>> /\ Len(o) = 1
  BY <1>1, Singles
<1>3. PICK r : /\ r \in Seq(Pairs) /\ r = o \o b /\ Len(r) = 1 + Len(b) /\ Len(b) \in Nat
               /\ \A i \in 1..Len(b) : r[1 + i] = b[i]
  <2>1. /\ o \o b \in Seq(Pairs) /\ Len(o \o b) = Len(o) + Len(b) /\ Len(b) \in Nat
        /\ \A i \in 1..Len(b) : (o \o b)[Len(o) + i] = b[i]
    BY <1>1, <1>2, Both
  <2>2. PICK w : w = o \o b
    OBVIOUS
  <2>3. /\ w \in Seq(Pairs) /\ w = o \o b /\ Len(w) = 1 + Len(b) /\ Len(b) \in Nat
        /\ \A i \in 1..Len(b) : w[1 + i] = b[i]
    BY <1>2, <2>1, <2>2
  <2> QED
    BY <2>3
<1>4. /\ Len(a \o r) = Len(a) + Len(r) /\ Len(a) \in Nat
      /\ \A i \in 1..Len(a) : (a \o r)[i] = a[i]
      /\ \A i \in 1..Len(r) : (a \o r)[Len(a) + i] = r[i]
  <2>1. a \in Seq(Pairs) /\ r \in Seq(Pairs)
    BY <1>1, <1>3
  <2> QED
    BY <2>1, Both
<1>5. p = a \o r
  BY <1>1, <1>2, <1>3
<1>6. /\ a \o b \in Seq(Pairs) /\ Len(a \o b) = Len(a) + Len(b)
      /\ \A i \in 1..Len(a) : (a \o b)[i] = a[i]
      /\ \A i \in 1..Len(b) : (a \o b)[Len(a) + i] = b[i]
  <2>1. a \in Seq(Pairs) /\ b \in Seq(Pairs)
    BY <1>1
  <2> QED
    BY <2>1, Both
<1>7. ASSUME NEW i \in 1..Len(a \o b) PROVE (a \o b)[i] = p[IF i <= Len(a) THEN i ELSE i + 1]
  <2>1. CASE i <= Len(a)
    <3>1. i \in 1..Len(a)
      BY <1>3, <1>4, <1>6, <2>1
    <3> QED
      BY <1>4, <1>5, <1>6, <2>1, <3>1
  <2>2. CASE i > Len(a)
    <3>1. PICK q \in 1..Len(b) : i = Len(a) + q
      <4>1. i - Len(a) \in 1..Len(b) /\ i = Len(a) + (i - Len(a))
        BY <1>3, <1>4, <1>6, <2>2
      <4> QED
        BY <4>1
    <3>2. 1 + q \in 1..Len(r) /\ Len(a) + (1 + q) = i + 1 /\ ~(i <= Len(a))
      BY <1>3, <1>4, <2>2, <3>1
    <3>3. (a \o r)[i + 1] = r[1 + q]
      BY <1>4, <3>2
    <3>4. (a \o b)[i] = b[q] /\ r[1 + q] = b[q]
      BY <1>3, <1>6, <3>1
    <3> QED
      BY <1>5, <3>2, <3>3, <3>4
  <2> QED
    BY <1>4, <1>6, <2>1, <2>2
<1> QED
  BY <1>3, <1>4, <1>5, <1>6, <1>7

\* The rows without a tag are those of the map without it.
LEMMA KeepsRemoved ==
  ASSUME NEW p, NEW a, NEW x, NEW b, Between(p, a, x, b), NEW map, Keeps(p, map)
  PROVE  Keeps(a \o b, Without(map, x[1]))
<1>1. /\ p \in Seq(Pairs) /\ Distinct(p)
      /\ map \in [DOMAIN map -> TagValues]
      /\ DOMAIN map = {p[i][1] : i \in 1..Len(p)}
      /\ \A i \in 1..Len(p) : map[p[i][1]] = p[i][2]
  BY DEF Keeps
<1>2. Len(a) + 1 \in 1..Len(p) /\ p[Len(a) + 1] = x
  BY BetweenIs DEF Parted
<1>3. PICK w : w = a \o b
  OBVIOUS
<1>4. PICK A : A = Len(a)
  OBVIOUS
<1>5. PICK N : N = Len(w)
  OBVIOUS
<1>6. /\ w \in Seq(Pairs) /\ N \in Nat /\ Len(p) = N + 1 /\ A \in 0..N
      /\ \A i \in 1..N : w[i] = p[IF i <= A THEN i ELSE i + 1]
  BY <1>3, <1>4, <1>5, RestIs
<1> DEFINE at(i) == IF i <= A THEN i ELSE i + 1
<1>7. \A i \in 1..N : at(i) \in 1..Len(p) /\ at(i) # A + 1 /\ w[i] = p[at(i)]
  BY <1>6
<1>8. \A i, j \in 1..N : at(i) = at(j) => i = j
  BY <1>6
<1>9. \A j \in 1..Len(p) : j # A + 1 => \E i \in 1..N : at(i) = j
  <2>1. ASSUME NEW j \in 1..Len(p), j # A + 1 PROVE \E i \in 1..N : at(i) = j
    <3>1. CASE j <= A
      <4>1. j \in 1..N /\ at(j) = j
        BY <1>6, <3>1
      <4> QED
        BY <4>1
    <3>2. CASE j > A
      <4>1. j - 1 \in 1..N /\ at(j - 1) = j
        BY <1>6, <2>1, <3>2
      <4> QED
        BY <4>1
    <3> QED
      BY <1>6, <3>1, <3>2
  <2> QED
    BY <2>1
<1>10. A + 1 \in 1..Len(p) /\ p[A + 1] = x
  BY <1>2, <1>4
<1> HIDE DEF at
<1>11. Distinct(w)
  <2>1. ASSUME NEW i \in 1..N, NEW j \in 1..N, w[i][1] = w[j][1] PROVE i = j
    <3>1. at(i) = at(j)
      BY <1>1, <1>7, <2>1 DEF Distinct
    <3> QED
      BY <1>8, <3>1
  <2> QED
    BY <1>5, <2>1 DEF Distinct
<1>12. {w[i][1] : i \in 1..N} = DOMAIN map \ {x[1]}
  <2>1. ASSUME NEW i \in 1..N PROVE w[i][1] \in DOMAIN map \ {x[1]}
    <3>1. w[i][1] \in DOMAIN map
      BY <1>1, <1>7
    <3>2. w[i][1] # x[1]
      BY <1>1, <1>7, <1>10 DEF Distinct
    <3> QED
      BY <3>1, <3>2
  <2>2. ASSUME NEW k \in DOMAIN map \ {x[1]} PROVE \E i \in 1..N : w[i][1] = k
    <3>1. PICK j \in 1..Len(p) : p[j][1] = k
      BY <1>1
    <3>2. j # A + 1
      BY <1>10, <2>2, <3>1
    <3>3. PICK i \in 1..N : at(i) = j
      BY <1>9, <3>2
    <3> QED
      BY <1>7, <3>1, <3>3
  <2> QED
    BY <2>1, <2>2
<1>13. PICK M : M = Without(map, x[1])
  OBVIOUS
<1>14. /\ DOMAIN M = DOMAIN map \ {x[1]}
       /\ \A k \in DOMAIN M : M[k] = map[k]
       /\ M \in [DOMAIN M -> TagValues]
  BY <1>1, <1>13 DEF Without
<1>15. \A i \in 1..N : M[w[i][1]] = w[i][2]
  <2>1. ASSUME NEW i \in 1..N PROVE M[w[i][1]] = w[i][2]
    <3>1. w[i][1] \in DOMAIN M
      BY <1>12, <1>14
    <3>2. M[w[i][1]] = map[w[i][1]]
      BY <1>14, <3>1
    <3> QED
      BY <1>1, <1>7, <3>2
  <2> QED
    BY <2>1
<1>16. Keeps(w, M)
  BY <1>5, <1>6, <1>11, <1>12, <1>14, <1>15 DEF Keeps
<1> QED
  BY <1>3, <1>13, <1>16

\* One more row is one more tag of the map.
LEMMA KeepsAdded ==
  ASSUME NEW p, NEW map, NEW k \in TagKeys, NEW v \in TagValues,
         Keeps(p, Without(map, k))
  PROVE  Keeps(Append(p, <<k, v>>), With(map, k, v))
<1>1. PICK M : M = Without(map, k)
  OBVIOUS
<1>2. /\ p \in Seq(Pairs) /\ Distinct(p)
      /\ M \in [DOMAIN M -> TagValues]
      /\ DOMAIN M = {p[i][1] : i \in 1..Len(p)}
      /\ \A i \in 1..Len(p) : M[p[i][1]] = p[i][2]
  BY <1>1 DEF Keeps
<1>3. /\ DOMAIN M = DOMAIN map \ {k}
      /\ \A y \in DOMAIN M : M[y] = map[y]
  BY <1>1 DEF Without
<1>0. PICK x : x = <<k, v>>
  OBVIOUS
<1>4. x = <<k, v>> /\ x \in Pairs /\ x[1] = k /\ x[2] = v
  <2>1. <<k, v>> \in TagKeys \X TagValues
    OBVIOUS
  <2>2. <<k, v>>[1] = k /\ <<k, v>>[2] = v
    OBVIOUS
  <2> QED
    BY <1>0, <2>1, <2>2 DEF Pairs
<1>5. PICK N : N \in Nat /\ N = Len(p)
  BY <1>2, LenProperties
<1>6. PICK w : w = Append(p, x)
  OBVIOUS
<1>7. /\ w \in Seq(Pairs) /\ Len(w) = N + 1 /\ w[N + 1] = x
      /\ \A i \in 1..N : w[i] = p[i]
  BY <1>2, <1>4, <1>5, <1>6, AppendProperties
<1>8. \A i \in 1..(N + 1) : i \in 1..N \/ i = N + 1
  BY <1>5
<1>9. \A i \in 1..N : w[i][1] # k
  BY <1>2, <1>3, <1>5, <1>7
<1>10. Distinct(w)
  <2>1. ASSUME NEW i \in 1..(N + 1), NEW j \in 1..(N + 1), w[i][1] = w[j][1] PROVE i = j
    <3>1. CASE i = N + 1 \/ j = N + 1
      BY <1>4, <1>7, <1>8, <1>9, <2>1, <3>1
    <3>2. CASE i \in 1..N /\ j \in 1..N
      BY <1>2, <1>5, <1>7, <2>1, <3>2 DEF Distinct
    <3> QED
      BY <1>8, <3>1, <3>2
  <2> QED
    BY <1>7, <2>1 DEF Distinct
<1>11. PICK W : W = With(map, k, v)
  OBVIOUS
<1>12. /\ DOMAIN W = DOMAIN M \cup {k}
       /\ \A y \in DOMAIN M : W[y] = M[y]
       /\ W[k] = v
       /\ W = [y \in DOMAIN W |-> W[y]]
  BY <1>3, <1>11 DEF With
<1>13. W \in [DOMAIN W -> TagValues]
  BY <1>2, <1>12
<1>14. DOMAIN W = {w[i][1] : i \in 1..(N + 1)}
  <2>1. ASSUME NEW y \in DOMAIN W PROVE \E i \in 1..(N + 1) : w[i][1] = y
    <3>1. CASE y = k
      <4>1. N + 1 \in 1..(N + 1)
        BY <1>5
      <4> QED
        BY <1>4, <1>7, <3>1, <4>1
    <3>2. CASE y # k
      <4>1. PICK i \in 1..N : p[i][1] = y
        BY <1>2, <1>5, <1>12, <2>1, <3>2
      <4>2. i \in 1..(N + 1)
        BY <1>5
      <4> QED
        BY <1>7, <4>1, <4>2
    <3> QED
      BY <3>1, <3>2
  <2>2. ASSUME NEW i \in 1..(N + 1) PROVE w[i][1] \in DOMAIN W
    BY <1>2, <1>4, <1>5, <1>7, <1>8, <1>12
  <2> QED
    BY <2>1, <2>2
<1>15. \A i \in 1..(N + 1) : W[w[i][1]] = w[i][2]
  <2>1. ASSUME NEW i \in 1..(N + 1) PROVE W[w[i][1]] = w[i][2]
    <3>1. CASE i = N + 1
      BY <1>4, <1>7, <1>12, <3>1
    <3>2. CASE i \in 1..N
      <4>1. w[i] = p[i] /\ p[i][1] \in DOMAIN M /\ M[p[i][1]] = p[i][2]
        BY <1>2, <1>5, <1>7, <3>2
      <4> QED
        BY <1>12, <4>1
    <3> QED
      BY <1>8, <3>1, <3>2
  <2> QED
    BY <2>1
<1>16. Keeps(w, W)
  BY <1>7, <1>10, <1>13, <1>14, <1>15 DEF Keeps
<1> QED
  BY <1>4, <1>6, <1>11, <1>16

\* Each tag is between two others.
LEMMA Place ==
  ASSUME NEW p \in Seq(Pairs), NEW i \in 1..Len(p)
  PROVE  \E a, b : Between(p, a, p[i], b)
<1>1. PartsOf(Pairs, p)
  BY Parts
<1>2. PICK j \in 0..Len(p) : j = i - 1
  <2>1. Len(p) \in Nat
    BY LenProperties
  <2>2. i - 1 \in 0..Len(p)
    BY <2>1
  <2> QED
    BY <2>2
<1>3. i \in 0..Len(p)
  BY LenProperties
<1>4. p[i] \in Pairs /\ Behind(p, j) = <<p[i]>> \o Behind(p, i)
  BY <1>1, <1>2 DEF PartsOf
<1>5. Before(p, j) \in Seq(Pairs) /\ Before(p, j) \o Behind(p, j) = p
  BY <1>1 DEF PartsOf
<1>6. Behind(p, i) \in Seq(Pairs)
  BY <1>1, <1>3 DEF PartsOf
<1>7. PICK a, b : a = Before(p, j) /\ b = Behind(p, i)
  OBVIOUS
<1>8. Between(p, a, p[i], b)
  BY <1>4, <1>5, <1>6, <1>7 DEF Between
<1> QED
  BY <1>8

\* A metric object; what its tags are; and what a call on tags leaves alone.
IsMetric(m) == m = [name |-> m.name, tags |-> m.tags, fields |-> m.fields, t |-> m.t]
TagState(tags, map) == \E p : Keeps(p, map) /\ tags = Line(TagRow, p)
OnlyTags(m, r) == IsMetric(r) /\ r.name = m.name /\ r.fields = m.fields /\ r.t = m.t

\* Tags gives the map.
LEMMA TagsKept ==
  ASSUME NEW tags, NEW map, TagState(tags, map)
  PROVE  AsMap(TagsOf(tags)) = map
<1>1. PICK p : Keeps(p, map) /\ tags = Line(TagRow, p)
  BY DEF TagState
<1>2. p \in Seq(Pairs)
  BY <1>1 DEF Keeps
<1>3. TagsOf(tags) = p
  BY <1>1, <1>2, TagsReadBack
<1> QED
  BY <1>1, <1>3, KeepsAsMap

\* What an assignment to the tags leaves alone.
LEMMA NewTags ==
  ASSUME NEW m, IsMetric(m), NEW tags
  PROVE  OnlyTags(m, [m EXCEPT !.tags = tags]) /\ [m EXCEPT !.tags = tags].tags = tags
<1>1. PICK n, g, f, t : m = [name |-> n, tags |-> g, fields |-> f, t |-> t]
  BY DEF IsMetric
<1>2. [m EXCEPT !.tags = tags] = [name |-> n, tags |-> tags, fields |-> f, t |-> t]
  BY <1>1
<1> QED
  BY <1>1, <1>2 DEF OnlyTags, IsMetric

\* RemoveTag of a key that no tag has.
LEMMA RemoveTagNone ==
  ASSUME NEW m, NEW p \in Seq(Pairs), NEW k \in TagKeys, \A i \in 1..Len(p) : p[i][1] # k,
         m.tags = Line(TagRow, p)
  PROVE  RemoveTag(m, k) = m
<1>1. CASE TagValues = {}
  <2>1. Len(p) = 0
    <3>1. Pairs = {}
      BY <1>1 DEF Pairs
    <3>2. \A i \in 1..Len(p) : p[i] \in Pairs
      BY ElementOfSeq
    <3>3. Len(p) \in Nat
      BY LenProperties
    <3>4. ASSUME Len(p) # 0 PROVE FALSE
      <4>1. 1 \in 1..Len(p)
        BY <3>3, <3>4
      <4> QED
        BY <3>1, <3>2, <4>1
    <3> QED
      BY <3>4
  <2>2. p = <<>>
    BY <2>1, EmptySeq
  <2>3. m.tags = <<>>
    BY <2>2, LineEmpty
  <2>4. PICK z : z = <<>> /\ Len(z) = 0
    BY EmptySeq
  <2>5. PICK E : E \in Text /\ E = Escape(k, KeyChars)
    <3>1. Plain(k, KeyChars)
      BY TextsAssumption
    <3>2. Escape(k, KeyChars) \in Text
      BY <3>1, PlainEscaped, NoBackslash
    <3> QED
      BY <3>2
  <2>6. PICK h : h \in Text /\ h = <<"=">> /\ Len(h) = 1
    BY Marks
  <2>7. PICK t : t = E \o h /\ Len(t) = Len(E) + 1 /\ Len(E) \in Nat
    <3>1. Len(E \o h) = Len(E) + Len(h) /\ Len(E) \in Nat
      BY <2>5, <2>6, TextBoth
    <3> QED
      BY <2>6, <3>1
  <2>8. 1..(Len(z) - Len(t) + 1) = {}
    BY <2>4, <2>7
  <2>9. {i \in 1..(Len(z) - Len(t) + 1) : Occurs(z, t, i)} = {}
    BY <2>8
  <2>10. IndexOf(z, t) = 0
    BY <2>9, IndexDef DEF MinOr0
  <2>11. IndexOf(m.tags, Escape(k, KeyChars) \o <<"=">>) = 0
    BY <2>3, <2>4, <2>5, <2>6, <2>7, <2>10
  <2> QED
    BY <2>11 DEF RemoveTag
<1>2. CASE TagValues # {}
  <2>1. PICK v \in TagValues : TRUE
    BY <1>2
  <2>2. PICK x : x = <<k, v>>
    OBVIOUS
  <2>3. x \in Pairs /\ x[1] = k
    <3>1. <<k, v>> \in TagKeys \X TagValues /\ <<k, v>>[1] = k
      OBVIOUS
    <3> QED
      BY <2>2, <3>1 DEF Pairs
  <2> QED
    BY <2>3, RemoveTagMiss
<1> QED
  BY <1>1, <1>2

\* RemoveTag removes the tag from the map, and touches nothing but the tags.
LEMMA RemoveTagKeeps ==
  ASSUME NEW m, IsMetric(m), NEW map, TagState(m.tags, map), NEW k \in TagKeys
  PROVE  TagState(RemoveTag(m, k).tags, Without(map, k)) /\ OnlyTags(m, RemoveTag(m, k))
<1>1. PICK p : Keeps(p, map) /\ m.tags = Line(TagRow, p)
  BY DEF TagState
<1>2. /\ p \in Seq(Pairs) /\ Distinct(p) /\ map \in [DOMAIN map -> TagValues]
      /\ DOMAIN map = {p[i][1] : i \in 1..Len(p)}
  BY <1>1 DEF Keeps
<1>3. CASE \E i \in 1..Len(p) : p[i][1] = k
  <2>1. PICK i \in 1..Len(p) : p[i][1] = k
    BY <1>3
  <2>2. PICK x : x = p[i]
    OBVIOUS
  <2>3. PICK a, b : Between(p, a, x, b)
    BY <1>2, <2>2, Place
  <2>4. RemoveTag(m, x[1]) = [m EXCEPT !.tags = Line(TagRow, a \o b)]
    BY <1>1, <1>2, <2>3, RemoveTagHit
  <2>5. Keeps(a \o b, Without(map, x[1]))
    BY <1>1, <2>3, KeepsRemoved
  <2>6. PICK q, r : q = a \o b /\ r = RemoveTag(m, k)
    OBVIOUS
  <2>7. x[1] = k
    BY <2>1, <2>2
  <2>8. OnlyTags(m, r) /\ r.tags = Line(TagRow, q)
    <3>1. PICK tt : tt = Line(TagRow, q)
      OBVIOUS
    <3>2. r = [m EXCEPT !.tags = tt]
      BY <2>4, <2>6, <2>7, <3>1
    <3>3. OnlyTags(m, [m EXCEPT !.tags = tt]) /\ [m EXCEPT !.tags = tt].tags = tt
      BY NewTags
    <3> QED
      BY <3>1, <3>2, <3>3
  <2>9. Keeps(q, Without(map, k))
    BY <2>5, <2>6, <2>7
  <2>10. TagState(r.tags, Without(map, k))
    BY <2>8, <2>9 DEF TagState
  <2> QED
    BY <2>6, <2>8, <2>10
<1>4. CASE ~ \E i \in 1..Len(p) : p[i][1] = k
  <2>1. \A i \in 1..Len(p) : p[i][1] # k
    BY <1>4
  <2>2. RemoveTag(m, k) = m
    BY <1>1, <1>2, <2>1, RemoveTagNone
  <2>3. k \notin DOMAIN map
    BY <1>2, <2>1
  <2>4. DOMAIN map \ {k} = DOMAIN map
    BY <2>3
  <2>5. Without(map, k) = map
    BY <1>2, <2>4 DEF Without
  <2>6. OnlyTags(m, m)
    BY DEF OnlyTags
  <2> QED
    BY <2>2, <2>5, <2>6
<1> QED
  BY <1>3, <1>4

\* AddTag gives the tag its value, and touches nothing but the tags.
LEMMA AddTagKeeps ==
  ASSUME NEW m, IsMetric(m), NEW map, TagState(m.tags, map),
         NEW k \in TagKeys, NEW v \in TagValues
  PROVE  TagState(AddTag(m, k, v).tags, With(map, k, v)) /\ OnlyTags(m, AddTag(m, k, v))
<1>1. PICK r : r = RemoveTag(m, k)
  OBVIOUS
<1>2. TagState(r.tags, Without(map, k)) /\ OnlyTags(m, r)
  BY <1>1, RemoveTagKeeps
<1>3. PICK q : Keeps(q, Without(map, k)) /\ r.tags = Line(TagRow, q)
  BY <1>2 DEF TagState
<1>4. q \in Seq(Pairs)
  BY <1>3 DEF Keeps
<1>5. PICK x : x = <<k, v>>
  OBVIOUS
<1>6. x \in Pairs /\ x[1] = k /\ x[2] = v
  <2>1. <<k, v>> \in TagKeys \X TagValues /\ <<k, v>>[1] = k /\ <<k, v>>[2] = v
    OBVIOUS
  <2> QED
    BY <1>5, <2>1 DEF Pairs
<1>7. TagRow[x] = TagText(k, v)
  BY <1>6 DEF TagRow
<1>8. Line(TagRow, Append(q, x)) = Line(TagRow, q) \o TagText(k, v)
  BY <1>4, <1>6, <1>7, LineAppend, TagRowlike
<1>9. Keeps(Append(q, x), With(map, k, v))
  BY <1>3, <1>5, KeepsAdded
<1>10. PICK tags, a : tags = r.tags \o TagText(k, v) /\ a = AddTag(m, k, v)
  OBVIOUS
<1>11. a = [r EXCEPT !.tags = r.tags \o TagText(k, v)]
  BY <1>1, <1>10 DEF AddTag
<1>12. a = [r EXCEPT !.tags = tags] /\ IsMetric(r)
  BY <1>2, <1>10, <1>11 DEF OnlyTags
<1>13. OnlyTags(r, a) /\ a.tags = tags
  BY <1>12, NewTags
<1>14. OnlyTags(m, a)
  BY <1>2, <1>13 DEF OnlyTags
<1>15. tags = Line(TagRow, Append(q, x))
  BY <1>3, <1>8, <1>10
<1>16. TagState(a.tags, With(map, k, v))
  BY <1>9, <1>13, <1>15 DEF TagState
<1> QED
  BY <1>10, <1>14, <1>16

---------------------------------------------------------------------------
(* The name.                                                               *)

\* A name reads back.
LEMMA NameRead ==
  ASSUME NEW s \in Text
  PROVE  Escape(s, NameChars) \in Text /\ Unescape(Escape(s, NameChars), NameChars) = s
  BY EscapeText, UnescapeEscape, NoBackslash

---------------------------------------------------------------------------
(* Fields.                                                                 *)

\* What is one behind the end of the first of two.
LEMMA FromBehind ==
  ASSUME NEW a \in Text, NEW r \in Text
  PROVE  From(a \o r, Len(a) + 2) = From(r, 2)
<1>1. /\ a \o r \in Text /\ Len(a \o r) = Len(a) + Len(r)
      /\ Len(a) \in Nat /\ Len(r) \in Nat
  BY TextBoth
<1>2. CASE r = <<>>
  <2>1. Len(r) = 0
    BY <1>2, EmptySeq
  <2>2. SubSeq(r, 2, 0) = <<>>
    BY SubSeqEmpty
  <2>3. PICK w : w = a \o r
    OBVIOUS
  <2>4. Len(w) < Len(a) + 2 /\ Len(w) \in Int /\ Len(a) + 2 \in Int
    BY <1>1, <2>1, <2>3
  <2>5. SubSeq(w, Len(a) + 2, Len(w)) = <<>>
    BY <2>4, SubSeqEmpty
  <2> QED
    BY <2>1, <2>2, <2>3, <2>5 DEF From
<1>3. CASE r # <<>>
  <2>1. PartsOf(Bytes, r)
    BY Parts DEF Text
  <2>2. Len(r) \in Nat \ {0}
    BY <1>1, <1>3, EmptySeq
  <2>3. 1 \in 1..Len(r) /\ 1 \in 0..Len(r) /\ 1 - 1 = 0
    BY <2>2
  <2>4. r[1] \in Bytes /\ Behind(r, 1 - 1) = <<r[1]>> \o Behind(r, 1)
    BY <2>1, <2>3 DEF PartsOf
  <2>5. Behind(r, 1) \in Text /\ Behind(r, 0) = r
    BY <2>1, <2>3 DEF PartsOf, Text
  <2>6. PICK q : q \in Text /\ q = Behind(r, 1)
    BY <2>5
  <2>7. PICK h : h \in Text /\ h = <<r[1]>> /\ Len(h) = 1
    <3>1. PICK b : b = r[1]
      OBVIOUS
    <3>2. b \in Bytes
      BY <2>4, <3>1
    <3>3. <<b>> \in Text /\ Len(<<b>>) = 1
      BY <3>2, Singles DEF Text
    <3> QED
      BY <3>1, <3>3
  <2>8. r = h \o q
    BY <2>3, <2>4, <2>5, <2>6, <2>7
  <2>9. From(h \o q, Len(h) + 1) = q
    BY <2>6, <2>7, CutConcat DEF Text
  <2>10. Len(h) + 1 = 2
    BY <2>7
  <2>11. From(r, 2) = q
    BY <2>8, <2>9, <2>10
  <2>12. From(a \o (h \o q), Len(a) + Len(h) + 1) = q
    BY <2>6, <2>7, TextMiddle
  <2>13. Len(a) + Len(h) + 1 = Len(a) + 2
    BY <1>1, <2>7
  <2> QED
    BY <2>8, <2>11, <2>12, <2>13
<1> QED
  BY <1>2, <1>3

\* ... and of a row, if the first has something.
LEMMA FromFront ==
  ASSUME NEW a \in Text, NEW r \in Text, a # <<>>
  PROVE  From(a \o r, 2) = From(a, 2) \o r
<1>1. PartsOf(Bytes, a)
  BY Parts DEF Text
<1>2. Len(a) \in Nat \ {0}
  BY <1>1, EmptySeq DEF PartsOf, Text
<1>3. 1 \in 1..Len(a) /\ 1 \in 0..Len(a) /\ 1 - 1 = 0
  BY <1>2
<1>4. a[1] \in Bytes /\ Behind(a, 1 - 1) = <<a[1]>> \o Behind(a, 1)
  BY <1>1, <1>3 DEF PartsOf
<1>5. Behind(a, 1) \in Text /\ Behind(a, 0) = a
  BY <1>1, <1>3 DEF PartsOf, Text
<1>6. PICK q : q \in Text /\ q = Behind(a, 1)
  BY <1>5
<1>7. PICK h : h \in Text /\ h = <<a[1]>> /\ Len(h) = 1
  <2>1. PICK b : b = a[1]
    OBVIOUS
  <2>2. b \in Bytes
    BY <1>4, <2>1
  <2>3. <<b>> \in Text /\ Len(<<b>>) = 1
    BY <2>2, Singles DEF Text
  <2> QED
    BY <2>1, <2>3
<1>8. a = h \o q
  BY <1>3, <1>4, <1>5, <1>6, <1>7
<1>9. From(h \o q, Len(h) + 1) = q
  BY <1>6, <1>7, CutConcat DEF Text
<1>10. Len(h) + 1 = 2
  BY <1>7
<1>11. PICK qr : qr \in Text /\ qr = q \o r
  BY <1>6, TextBoth
<1>12. From(h \o qr, Len(h) + 1) = qr
  BY <1>7, <1>11, CutConcat DEF Text
<1>13. a \o r = h \o qr
  BY <1>6, <1>7, <1>8, <1>11, TextAssoc
<1> QED
  BY <1>8, <1>9, <1>10, <1>11, <1>12, <1>13

FieldPairs == FieldKeys \X FieldValues
FieldRow == [x \in FieldPairs |-> <<Comma>> \o FieldText(x[1], x[2])]

\* A string: a quote, the escaped text, a quote.
IsStringOf(V, v, q, w) ==
  /\ q \in Text /\ w \in Text /\ q = <<Quote>> /\ Len(q) = 1 /\ q # <<>> /\ q[1] = Quote
  /\ Guarded(w, ValueChars) /\ ~Ends(w) /\ Unescape(w, ValueChars) = v.text
  /\ V = (q \o w) \o q

\* A string value is written that way.
LEMMA StringIs ==
  ASSUME NEW v \in FieldValues, v.kind = "string"
  PROVE  \E q, w : IsStringOf(ValueText(v), v, q, w)
<1>1. Plain(v.text, ValueChars)
  BY TextsAssumption
<1>2. PICK w : w = Escape(v.text, ValueChars)
  OBVIOUS
<1>3. w \in Text /\ Guarded(w, ValueChars) /\ ~Ends(w) /\ v.text \in Text
  BY <1>1, <1>2, PlainEscaped, NoBackslash
<1>4. Unescape(w, ValueChars) = v.text
  BY <1>2, <1>3, UnescapeEscape, NoBackslash
<1>5. PICK q : q \in Text /\ q = <<Quote>> /\ Len(q) = 1 /\ q # <<>> /\ q[1] = Quote
  BY Marks
<1>6. ValueText(v) = (q \o w) \o q
  BY <1>2, <1>5 DEF ValueText
<1>7. IsStringOf(ValueText(v), v, q, w)
  BY <1>3, <1>4, <1>5, <1>6 DEF IsStringOf
<1> QED
  BY <1>7

\* Any other value is its own text, without commas.
LEMMA BareIs ==
  ASSUME NEW v \in FieldValues, v.kind # "string"
  PROVE  /\ ValueText(v) = v.text /\ v.text \in Text /\ v.text # <<>>
         /\ v.text[1] \in Unquoted /\ v.text[1] # Quote
         /\ Guarded(v.text, {Comma}) /\ ~Ends(v.text)
<1>1. Bare(v.text)
  BY TextsAssumption
<1>2. PICK s : s = v.text
  OBVIOUS
<1>3. /\ s \in Text /\ s # <<>> /\ s[1] \in Unquoted
      /\ \A i \in DOMAIN s : s[i] # Comma /\ s[i] # Backslash
  BY <1>1, <1>2 DEF Bare, Text
<1>4. DOMAIN s = 1..Len(s) /\ Len(s) \in Nat \ {0}
  BY <1>3, LenProperties, EmptySeq DEF Text
<1>5. Guarded(s, {Comma})
  BY <1>3, <1>4 DEF Guarded
<1>6. ~Ends(s)
  <2>1. Len(s) \in 1..Len(s)
    BY <1>4
  <2> QED
    BY <1>3, <1>4, <2>1 DEF Ends
<1>7. Quote \notin Unquoted
  BY DEF Unquoted, Digits, Quote
<1>8. ValueText(v) = s
  BY <1>2 DEF ValueText
<1> QED
  BY <1>2, <1>3, <1>5, <1>6, <1>7, <1>8

\* The text of a value begins with a quote if it is a string.
LEMMA ValueIs ==
  ASSUME NEW v \in FieldValues
  PROVE  /\ ValueText(v) \in Text /\ ValueText(v) # <<>> /\ ~Ends(ValueText(v))
<1>1. CASE v.kind = "string"
  <2>1. PICK q, w : IsStringOf(ValueText(v), v, q, w)
    BY <1>1, StringIs
  <2>2. q \in Text /\ w \in Text /\ q = <<Quote>> /\ Len(q) = 1 /\ q # <<>> /\ q[1] = Quote
    BY <2>1 DEF IsStringOf
  <2>3. ValueText(v) = (q \o w) \o q
    BY <2>1 DEF IsStringOf
  <2>4. PICK qw : qw \in Text /\ qw = q \o w /\ qw # <<>>
    <3>1. q \o w \in Text /\ q \o w # <<>>
      BY <2>2, TextBoth
    <3> QED
      BY <3>1
  <2>5. qw \o q \in Text /\ qw \o q # <<>>
    BY <2>2, <2>4, TextBoth
  <2>6. ~Ends(q)
    BY <2>2, Marks DEF Ends
  <2>7. ~Ends(qw \o q)
    BY <2>2, <2>4, <2>6, EndsConcat
  <2> QED
    BY <2>3, <2>4, <2>5, <2>7
<1>2. CASE v.kind # "string"
  BY <1>2, BareIs
<1> QED
  BY <1>1, <1>2

\* The key, an equals sign, the value.
IsField(x, k, e, V) ==
  /\ k \in Text /\ e \in Text /\ V \in Text
  /\ e = <<"=">> /\ Len(e) = 1 /\ e[1] = "=" /\ e # <<>>
  /\ Guarded(k, KeyChars) /\ ~Ends(k) /\ Unescape(k, KeyChars) = x[1]
  /\ V = ValueText(x[2]) /\ V # <<>> /\ ~Ends(V)
  /\ FieldText(x[1], x[2]) = (k \o e) \o V

\* Every field is written that way.
LEMMA FieldIs ==
  ASSUME NEW x \in FieldPairs
  PROVE  \E k, e, V : IsField(x, k, e, V)
<1>1. x[1] \in FieldKeys /\ x[2] \in FieldValues
  BY DEF FieldPairs
<1>2. Plain(x[1], KeyChars)
  BY <1>1, TextsAssumption
<1>3. PICK k : k = Escape(x[1], KeyChars)
  OBVIOUS
<1>4. k \in Text /\ Guarded(k, KeyChars) /\ ~Ends(k) /\ x[1] \in Text
  BY <1>2, <1>3, PlainEscaped, NoBackslash
<1>5. Unescape(k, KeyChars) = x[1]
  BY <1>3, <1>4, UnescapeEscape, NoBackslash
<1>6. PICK e : e \in Text /\ e = <<"=">> /\ Len(e) = 1 /\ e[1] = "=" /\ e # <<>>
  BY Marks
<1>7. PICK V : V = ValueText(x[2])
  OBVIOUS
<1>8. V \in Text /\ V # <<>> /\ ~Ends(V)
  BY <1>1, <1>7, ValueIs
<1>9. FieldText(x[1], x[2]) = (k \o e) \o V
  BY <1>3, <1>6, <1>7 DEF FieldText
<1>10. IsField(x, k, e, V)
  BY <1>4, <1>5, <1>6, <1>7, <1>8, <1>9 DEF IsField
<1> QED
  BY <1>10

\* The text of a field is not empty and does not end with a backslash.
LEMMA FieldTextIs ==
  ASSUME NEW x \in FieldPairs
  PROVE  /\ FieldText(x[1], x[2]) \in Text /\ FieldText(x[1], x[2]) # <<>>
         /\ ~Ends(FieldText(x[1], x[2]))
<1>1. PICK k, e, V : IsField(x, k, e, V)
  BY FieldIs
<1>2. /\ k \in Text /\ e \in Text /\ V \in Text /\ V # <<>> /\ ~Ends(V) /\ e # <<>>
      /\ FieldText(x[1], x[2]) = (k \o e) \o V
  BY <1>1 DEF IsField
<1>3. PICK ke : ke \in Text /\ ke = k \o e
  BY <1>2, TextBoth
<1>4. ke \o V \in Text /\ Len(ke \o V) = Len(ke) + Len(V) /\ Len(ke) \in Nat
  BY <1>2, <1>3, TextBoth
<1>5. Len(V) \in Nat \ {0}
  BY <1>2, EmptySeq DEF Text
<1>6. ke \o V # <<>>
  BY <1>4, <1>5, EmptySeq
<1>7. ~Ends(ke \o V)
  BY <1>2, <1>3, EndsConcat
<1> QED
  BY <1>2, <1>3, <1>4, <1>6, <1>7

\* The rows of fields make a line.
LEMMA FieldRowlike == Rowlike(FieldRow, FieldPairs)
<1>1. ASSUME NEW x \in FieldPairs
      PROVE  /\ FieldRow[x] \in Text /\ FieldRow[x] # <<>> /\ FieldRow[x][1] = Comma
             /\ ~Ends(FieldRow[x])
  <2>1. PICK F : F = FieldText(x[1], x[2])
    OBVIOUS
  <2>2. F \in Text /\ F # <<>> /\ ~Ends(F)
    BY <2>1, FieldTextIs
  <2>3. PICK c : c \in Text /\ c = <<Comma>> /\ c # <<>> /\ c[1] = Comma
    BY Marks
  <2>4. c \o F \in Text /\ c \o F # <<>> /\ (c \o F)[1] = Comma
    BY <2>2, <2>3, TextBoth
  <2>5. ~Ends(c \o F)
    BY <2>2, <2>3, EndsConcat
  <2>6. FieldRow[x] = c \o F
    BY <2>1, <2>3 DEF FieldRow
  <2> QED
    BY <2>4, <2>5, <2>6
<1>2. FieldRow \in [FieldPairs -> Text]
  BY <1>1 DEF FieldRow
<1> QED
  BY <1>1, <1>2 DEF Rowlike

\* How Fields finds its way in the text s of a field x and the rest r of the
\* fields: where the key, the value and the field end.
FieldFound(s, k, V, F) ==
  /\ IndexUnescaped(s, "=") = Len(k) + 1
  /\ SubSeq(s, 1, Len(k)) = k
  /\ s[Len(k) + 2] = V[1]
  /\ SubSeq(s, Len(k) + 2, Len(F)) = V
  /\ Len(k) \in Nat /\ Len(F) = Len(k) + 1 + Len(V) /\ Len(V) \in Nat \ {0}

\* It finds the equals sign, the key and the value.
LEMMA FieldStarts ==
  ASSUME NEW x, NEW k, NEW e, NEW V, IsField(x, k, e, V), NEW r \in Text,
         NEW F, F = FieldText(x[1], x[2]), NEW s, s = F \o r
  PROVE  FieldFound(s, k, V, F)
<1>1. k \in Text /\ Guarded(k, KeyChars) /\ ~Ends(k)
  BY DEF IsField
<1>2. e \in Text /\ e = <<"=">> /\ Len(e) = 1 /\ e[1] = "=" /\ e # <<>>
  BY DEF IsField
<1>3. V \in Text /\ V # <<>>
  BY DEF IsField
<1>4. PICK ke : ke \in Text /\ ke = k \o e /\ Len(ke) = Len(k) + 1 /\ Len(k) \in Nat
  <2>1. k \o e \in Text /\ Len(k \o e) = Len(k) + Len(e) /\ Len(k) \in Nat
    BY <1>1, <1>2, TextBoth
  <2> QED
    BY <1>2, <2>1
<1>5. F = ke \o V
  BY <1>4 DEF IsField
<1>6. PICK Vr : Vr \in Text /\ Vr = V \o r /\ Vr # <<>> /\ Vr[1] = V[1] /\ Len(Vr) \in Nat \ {0}
  <2>1. V \o r \in Text /\ V \o r # <<>> /\ (V \o r)[1] = V[1]
    BY <1>3, TextBoth
  <2>2. Len(V \o r) \in Nat \ {0}
    BY <2>1, LenProperties, EmptySeq DEF Text
  <2> QED
    BY <2>1, <2>2
<1>7. s = ke \o Vr
  <2>1. (ke \o V) \o r = ke \o (V \o r)
    BY <1>3, <1>4, TextAssoc
  <2> QED
    BY <1>5, <1>6, <2>1
<1>8. PICK eVr : eVr \in Text /\ eVr = e \o Vr /\ eVr # <<>> /\ eVr[1] = "="
  <2>1. e \o Vr \in Text /\ e \o Vr # <<>> /\ (e \o Vr)[1] = e[1]
    BY <1>2, <1>6, TextBoth
  <2> QED
    BY <1>2, <2>1
<1>9. s = k \o eVr
  <2>1. (k \o e) \o Vr = k \o (e \o Vr)
    BY <1>1, <1>2, <1>6, TextAssoc
  <2> QED
    BY <1>4, <1>7, <1>8, <2>1
<1>10. IndexUnescaped(s, "=") = Len(k) + 1
  <2>1. "=" \in KeyChars
    BY Marks
  <2>2. IndexUnescaped(k \o eVr, "=") = Len(k) + 1
    BY <1>1, <1>8, <2>1, FirstBehind
  <2> QED
    BY <1>9, <2>2
<1>11. SubSeq(s, 1, Len(k)) = k
  <2>1. SubSeq(k \o eVr, 1, Len(k)) = k
    BY <1>1, <1>8, CutConcat DEF Text
  <2> QED
    BY <1>9, <2>1
<1>12. s[Len(k) + 2] = V[1]
  <2>1. \A i \in 1..Len(Vr) : (ke \o Vr)[Len(ke) + i] = Vr[i]
    BY <1>4, <1>6, TextBoth
  <2>2. 1 \in 1..Len(Vr) /\ Len(ke) + 1 = Len(k) + 2
    BY <1>4, <1>6
  <2>3. (ke \o Vr)[Len(ke) + 1] = Vr[1]
    BY <2>1, <2>2
  <2> QED
    BY <1>6, <1>7, <2>2, <2>3
<1>13. Len(F) = Len(k) + 1 + Len(V) /\ Len(V) \in Nat \ {0}
  <2>1. Len(ke \o V) = Len(ke) + Len(V)
    BY <1>3, <1>4, TextBoth
  <2>2. Len(V) \in Nat \ {0}
    BY <1>3, LenProperties, EmptySeq DEF Text
  <2> QED
    BY <1>4, <1>5, <2>1, <2>2
<1>14. SubSeq(s, Len(k) + 2, Len(F)) = V
  <2>1. SubSeq(ke \o (V \o r), Len(ke) + 1, Len(ke) + Len(V)) = V
    BY <1>3, <1>4, TextMiddle
  <2>2. Len(ke) + 1 = Len(k) + 2 /\ Len(ke) + Len(V) = Len(F)
    BY <1>4, <1>13
  <2> QED
    BY <1>6, <1>7, <2>1, <2>2
<1> QED
  BY <1>4, <1>10, <1>11, <1>12, <1>13, <1>14 DEF FieldFound

\* Where a string is found.
InString(s, k, F, w) ==
  /\ IndexUnescaped(From(s, Len(k) + 3), Quote) = Len(w) + 1
  /\ SubSeq(s, Len(k) + 3, Len(F) - 1) = w
  /\ Len(F) = Len(k) + 3 + Len(w) /\ Len(k) \in Nat /\ Len(w) \in Nat

\* It finds the closing quote of a string.
LEMMA StringFound ==
  ASSUME NEW x, NEW k, NEW e, NEW V, IsField(x, k, e, V), NEW r \in Text,
         NEW F, F = FieldText(x[1], x[2]), NEW s, s = F \o r,
         NEW q, NEW w, IsStringOf(V, x[2], q, w)
  PROVE  InString(s, k, F, w)
<1>1. k \in Text /\ e \in Text /\ Len(e) = 1
  BY DEF IsField
<1>2. q \in Text /\ w \in Text /\ Len(q) = 1 /\ q # <<>> /\ q[1] = Quote
  BY DEF IsStringOf
<1>3. Guarded(w, ValueChars) /\ ~Ends(w)
  BY DEF IsStringOf
<1>4. PICK ke : ke \in Text /\ ke = k \o e /\ Len(ke) = Len(k) + 1 /\ Len(k) \in Nat
  <2>1. k \o e \in Text /\ Len(k \o e) = Len(k) + Len(e) /\ Len(k) \in Nat
    BY <1>1, TextBoth
  <2> QED
    BY <1>1, <2>1
<1>5. PICK qw : qw \in Text /\ qw = q \o w
  BY <1>2, TextBoth
<1>6. PICK V2 : V2 = V /\ V2 = qw \o q /\ V2 \in Text
  <2>1. qw \o q \in Text
    BY <1>2, <1>5, TextBoth
  <2>2. V = qw \o q
    BY <1>5 DEF IsStringOf
  <2> QED
    BY <2>1, <2>2
<1>7. F = ke \o V2
  BY <1>4, <1>6 DEF IsField
<1>8. PICK keq : keq \in Text /\ keq = ke \o q /\ Len(keq) = Len(k) + 2
  <2>1. ke \o q \in Text /\ Len(ke \o q) = Len(ke) + Len(q)
    BY <1>2, <1>4, TextBoth
  <2>2. Len(ke) + Len(q) = Len(k) + 2
    BY <1>2, <1>4
  <2> QED
    BY <2>1, <2>2
<1>9. PICK keqw : /\ keqw \in Text /\ keqw = keq \o w
                  /\ Len(keqw) = Len(k) + 2 + Len(w) /\ Len(w) \in Nat
  <2>1. keq \o w \in Text /\ Len(keq \o w) = Len(keq) + Len(w) /\ Len(w) \in Nat
    BY <1>2, <1>8, TextBoth
  <2> QED
    BY <1>8, <2>1
<1>10. F = keqw \o q
  <2>1. (ke \o qw) \o q = ke \o (qw \o q)
    BY <1>2, <1>4, <1>5, TextAssoc
  <2>2. (ke \o q) \o w = ke \o (q \o w)
    BY <1>2, <1>4, TextAssoc
  <2> QED
    BY <1>5, <1>6, <1>7, <1>8, <1>9, <2>1, <2>2
<1>11. Len(F) = Len(k) + 3 + Len(w)
  <2>1. Len(keqw \o q) = Len(keqw) + Len(q)
    BY <1>2, <1>9, TextBoth
  <2> QED
    BY <1>2, <1>4, <1>9, <1>10, <2>1
<1>12. PICK qr : qr \in Text /\ qr = q \o r /\ qr # <<>> /\ qr[1] = Quote
  <2>1. q \o r \in Text /\ q \o r # <<>> /\ (q \o r)[1] = q[1]
    BY <1>2, TextBoth
  <2> QED
    BY <1>2, <2>1
<1>13. PICK wqr : wqr \in Text /\ wqr = w \o qr
  BY <1>2, <1>12, TextBoth
<1>14. s = keq \o wqr
  <2>1. (keqw \o q) \o r = keqw \o (q \o r)
    BY <1>2, <1>9, TextAssoc
  <2>2. (keq \o w) \o qr = keq \o (w \o qr)
    BY <1>2, <1>8, <1>12, TextAssoc
  <2> QED
    BY <1>9, <1>10, <1>12, <1>13, <2>1, <2>2
<1>15. From(s, Len(k) + 3) = wqr
  <2>1. From(keq \o wqr, Len(keq) + 1) = wqr
    BY <1>8, <1>13, CutConcat DEF Text
  <2>2. Len(keq) + 1 = Len(k) + 3
    BY <1>4, <1>8
  <2> QED
    BY <1>14, <2>1, <2>2
<1>16. IndexUnescaped(wqr, Quote) = Len(w) + 1
  <2>1. Quote \in ValueChars
    BY Marks
  <2>2. IndexUnescaped(w \o qr, Quote) = Len(w) + 1
    BY <1>2, <1>3, <1>12, <2>1, FirstBehind
  <2> QED
    BY <1>13, <2>2
<1>17. SubSeq(s, Len(k) + 3, Len(F) - 1) = w
  <2>1. SubSeq(keq \o (w \o qr), Len(keq) + 1, Len(keq) + Len(w)) = w
    BY <1>2, <1>8, <1>12, TextMiddle
  <2>2. Len(keq) + 1 = Len(k) + 3 /\ Len(keq) + Len(w) = Len(F) - 1
    BY <1>4, <1>8, <1>9, <1>11
  <2> QED
    BY <1>13, <1>14, <2>1, <2>2
<1> QED
  BY <1>4, <1>9, <1>11, <1>15, <1>16, <1>17 DEF InString

\* What a value reads as.
Read(v) == IF v.kind = "string" THEN [kind |-> "string", text |-> v.text]
           ELSE [kind |-> "other", text |-> v.text]

\* Fields reads the first field and goes on behind the comma after it.
FieldReads(s, x, r) ==
  /\ IndexUnescaped(s, "=") # 0
  /\ FirstField(s) = <<<<x[1], Read(x[2])>>>>
  /\ From(s, EndOfField(s) + 2) = From(r, 2)

\* ... whatever follows the field.
LEMMA FieldRead ==
  ASSUME NEW x \in FieldPairs, NEW r \in Text, r = <<>> \/ r[1] = Comma,
         NEW s, s = FieldText(x[1], x[2]) \o r
  PROVE  FieldReads(s, x, r)
<1>1. x[2] \in FieldValues
  BY DEF FieldPairs
<1>2. PICK k, e, V : IsField(x, k, e, V)
  BY FieldIs
<1>3. PICK F : F = FieldText(x[1], x[2]) /\ F \in Text /\ ~Ends(F)
  BY FieldTextIs
<1>4. FieldFound(s, k, V, F)
  BY <1>2, <1>3, FieldStarts
<1>5. PICK K, L : K = Len(k) /\ L = Len(F)
  OBVIOUS
<1>6. /\ IndexUnescaped(s, "=") = K + 1 /\ SubSeq(s, 1, K) = k
      /\ s[K + 2] = V[1] /\ SubSeq(s, K + 2, L) = V
      /\ K \in Nat /\ L = K + 1 + Len(V) /\ Len(V) \in Nat \ {0}
  BY <1>4, <1>5 DEF FieldFound
<1>7. ValueOf(s) = K + 2
  BY <1>6 DEF ValueOf
<1>8. SubSeq(s, 1, ValueOf(s) - 2) = k
  <2>1. (K + 2) - 2 = K
    BY <1>6
  <2> QED
    BY <1>6, <1>7, <2>1
<1>9. Unescape(k, KeyChars) = x[1] /\ V = ValueText(x[2])
  BY <1>2 DEF IsField
<1>10. EndOfField(s) = L => From(s, EndOfField(s) + 2) = From(r, 2)
  BY <1>3, <1>5, FromBehind
<1>11. IndexUnescaped(s, "=") # 0
  BY <1>6
<1>12. CASE x[2].kind = "string"
  <2>1. PICK q, w : IsStringOf(V, x[2], q, w)
    BY <1>1, <1>9, <1>12, StringIs
  <2>2. InString(s, k, F, w)
    BY <1>2, <1>3, <2>1, StringFound
  <2>3. V[1] = Quote
    <3>1. q \in Text /\ w \in Text /\ q # <<>> /\ q[1] = Quote /\ V = (q \o w) \o q
      BY <2>1 DEF IsStringOf
    <3>2. PICK qw : qw \in Text /\ qw = q \o w /\ qw # <<>> /\ qw[1] = q[1]
      <4>1. q \o w \in Text /\ q \o w # <<>> /\ (q \o w)[1] = q[1]
        BY <3>1, TextBoth
      <4> QED
        BY <4>1
    <3>3. (qw \o q)[1] = qw[1]
      BY <3>1, <3>2, TextBoth
    <3> QED
      BY <3>1, <3>2, <3>3
  <2>4. IsString(s)
    BY <1>6, <1>7, <2>3 DEF IsString
  <2>5. /\ IndexUnescaped(From(s, K + 3), Quote) = Len(w) + 1
        /\ SubSeq(s, K + 3, L - 1) = w /\ L = K + 3 + Len(w) /\ Len(w) \in Nat
    BY <1>5, <2>2 DEF InString
  <2>6. ValueOf(s) + 1 = K + 3 /\ Len(w) + 1 # 0 /\ ValueOf(s) + (Len(w) + 1) = L
    BY <1>6, <1>7, <2>5
  <2>7. EndOfField(s) = L
    BY <2>4, <2>5, <2>6 DEF EndOfField
  <2>8. SubSeq(s, ValueOf(s) + 1, EndOfField(s) - 1) = w
    BY <2>5, <2>6, <2>7
  <2>9. Unescape(w, ValueChars) = x[2].text
    BY <2>1 DEF IsStringOf
  <2>10. FirstField(s) = <<<<x[1], [kind |-> "string", text |-> x[2].text]>>>>
    BY <1>8, <1>9, <2>4, <2>8, <2>9 DEF FirstField
  <2>11. Read(x[2]) = [kind |-> "string", text |-> x[2].text]
    BY <1>12 DEF Read
  <2> QED
    BY <1>10, <1>11, <2>7, <2>10, <2>11 DEF FieldReads
<1>13. CASE x[2].kind # "string"
  <2>1. /\ V = x[2].text /\ V[1] \in Unquoted /\ V[1] # Quote
        /\ Guarded(V, {Comma}) /\ ~Ends(V) /\ V \in Text
    BY <1>1, <1>9, <1>13, BareIs
  <2>2. ~IsString(s) /\ s[ValueOf(s)] \in Unquoted
    BY <1>6, <1>7, <2>1 DEF IsString
  <2>3. Guarded(F, {Comma})
    <3>1. k \in Text /\ Guarded(k, KeyChars) /\ ~Ends(k)
      BY <1>2 DEF IsField
    <3>2. e \in Text /\ e = <<"=">> /\ e # <<>> /\ e[1] = "=" /\ Len(e) = 1 /\ F = (k \o e) \o V
      BY <1>2, <1>3 DEF IsField
    <3>3. "=" \in Bytes /\ "=" \notin {Comma} /\ {Comma} \subseteq KeyChars /\ "=" # Backslash
      BY BytesAssumption, Marks
    <3>4. Guarded(k, {Comma}) /\ Guarded(e, {Comma})
      BY <3>1, <3>2, <3>3, GuardedOne, GuardedSub
    <3>5. PICK ke : ke \in Text /\ ke = k \o e
      BY <3>1, <3>2, TextBoth
    <3>6. Guarded(ke, {Comma})
      BY <3>1, <3>2, <3>4, <3>5, GuardedConcat
    <3>7. ~Ends(ke)
      <4>1. ~Ends(e)
        BY <3>2, <3>3 DEF Ends
      <4> QED
        BY <3>1, <3>2, <3>5, <4>1, EndsConcat
    <3>8. Guarded(ke \o V, {Comma})
      BY <2>1, <3>5, <3>6, <3>7, GuardedConcat
    <3> QED
      BY <3>2, <3>5, <3>8
  <2>4. EndOfField(s) = L
    <3>1. Comma \in {Comma}
      OBVIOUS
    <3>2. CASE r = <<>>
      <4>1. s = F
        BY <1>3, <3>2, ConcatEmptySeq DEF Text
      <4>2. IndexUnescaped(s, Comma) = 0
        BY <1>3, <2>3, <3>1, <4>1, NoneAt
      <4> QED
        BY <1>5, <2>2, <4>1, <4>2 DEF EndOfField
    <3>3. CASE r # <<>>
      <4>1. r[1] = Comma
        BY <3>3
      <4>2. IndexUnescaped(F \o r, Comma) = Len(F) + 1
        BY <1>3, <2>3, <3>1, <3>3, <4>1, FirstBehind
      <4>3. IndexUnescaped(s, Comma) = L + 1
        BY <1>3, <1>5, <4>2
      <4>4. L + 1 # 0 /\ (L + 1) - 1 = L
        BY <1>6
      <4> QED
        BY <2>2, <4>3, <4>4 DEF EndOfField
    <3> QED
      BY <3>2, <3>3
  <2>5. SubSeq(s, ValueOf(s), EndOfField(s)) = V
    BY <1>6, <1>7, <2>4
  <2>6. FirstField(s) = <<<<x[1], [kind |-> "other", text |-> V]>>>>
    BY <1>8, <1>9, <2>2, <2>5 DEF FirstField
  <2>7. Read(x[2]) = [kind |-> "other", text |-> V]
    BY <1>13, <2>1 DEF Read
  <2> QED
    BY <1>10, <1>11, <2>4, <2>6, <2>7 DEF FieldReads
<1> QED
  BY <1>12, <1>13

\* The fields of q: what New and AddField have written for them.
Rest(q) == From(Line(FieldRow, q), 2)

\* No fields are an empty text.
LEMMA RestEmpty == Rest(<<>>) = <<>>
<1>1. PICK z : z = <<>> /\ Len(z) = 0
  BY EmptySeq
<1>2. SubSeq(z, 2, 0) = <<>>
  BY SubSeqEmpty
<1>3. Line(FieldRow, <<>>) = z
  BY <1>1, LineEmpty
<1> QED
  BY <1>1, <1>2, <1>3 DEF Rest, From

\* The first field has no comma before it.
LEMMA RestCons ==
  ASSUME NEW x \in FieldPairs, NEW b \in Seq(FieldPairs)
  PROVE  /\ Rest(<<x>> \o b) = FieldText(x[1], x[2]) \o Line(FieldRow, b)
         /\ Rest(<<x>> \o b) \in Text
<1>1. Line(FieldRow, <<x>> \o b) = FieldRow[x] \o Line(FieldRow, b)
  BY LineCons, FieldRowlike
<1>2. PICK F : F \in Text /\ F = FieldText(x[1], x[2])
  BY FieldTextIs
<1>3. PICK c : c \in Text /\ c = <<Comma>> /\ Len(c) = 1
  BY Marks
<1>4. PICK r : r \in Text /\ r = Line(FieldRow, b)
  BY LineRowlike, FieldRowlike
<1>5. PICK Fr : Fr \in Text /\ Fr = F \o r
  BY <1>2, <1>4, TextBoth
<1>6. (c \o F) \o r = c \o (F \o r)
  BY <1>2, <1>3, <1>4, TextAssoc
<1>7. From(c \o Fr, Len(c) + 1) = Fr
  BY <1>3, <1>5, CutConcat DEF Text
<1>8. FieldRow[x] = c \o F
  BY <1>2, <1>3 DEF FieldRow
<1>9. Len(c) + 1 = 2
  BY <1>3
<1>10. Rest(<<x>> \o b) = Fr
  BY <1>1, <1>4, <1>5, <1>6, <1>7, <1>8, <1>9 DEF Rest
<1> QED
  BY <1>2, <1>4, <1>5, <1>10

ReadPairs == {<<x[1], Read(x[2])>> : x \in FieldPairs}
Reads(q) == [i \in DOMAIN q |-> <<q[i][1], Read(q[i][2])>>]

\* What Fields gives has one pair for each field.
LEMMA ReadsIs ==
  ASSUME NEW q \in Seq(FieldPairs)
  PROVE  /\ Reads(q) \in Seq(ReadPairs) /\ Len(Reads(q)) = Len(q)
         /\ \A i \in 1..Len(q) : Reads(q)[i] = <<q[i][1], Read(q[i][2])>>
<1>1. Len(q) \in Nat /\ DOMAIN q = 1..Len(q)
  BY LenProperties
<1>2. \A i \in 1..Len(q) : <<q[i][1], Read(q[i][2])>> \in ReadPairs
  <2>1. \A i \in 1..Len(q) : q[i] \in FieldPairs
    BY ElementOfSeq
  <2> QED
    BY <2>1 DEF ReadPairs
<1>3. Reads(q) = [i \in 1..Len(q) |-> <<q[i][1], Read(q[i][2])>>]
  BY <1>1 DEF Reads
<1>4. Reads(q) \in Seq(ReadPairs)
  BY <1>1, <1>2, <1>3, IsASeq
<1> QED
  BY <1>1, <1>3, <1>4

\* One round of the loop of Fields.
FieldRound(r) ==
  IF IndexUnescaped(r.rest, "=") = 0 THEN r
  ELSE [got |-> r.got \o FirstField(r.rest),
        rest |-> From(r.rest, EndOfField(r.rest) + 2)]
FieldRounds(f, s) ==
  f = [n \in 0..Len(s) |-> IF n = 0 THEN [got |-> <<>>, rest |-> s] ELSE FieldRound(f[n - 1])]

\* FieldsOf is what its loop has in the end.
LEMMA FieldsOfDef ==
  ASSUME NEW s
  PROVE  FieldsOf(s) = (CHOOSE f : FieldRounds(f, s))[Len(s)].got
  BY DEF FieldsOf, FieldRounds, FieldRound

\* What it has after m fields.
FieldsRead(q, m) == [got |-> Before(Reads(q), m), rest |-> Rest(Behind(q, m))]

\* A round reads one more field; at the end it does nothing.
LEMMA FieldRoundIs ==
  ASSUME NEW p \in Seq(FieldPairs)
  PROVE  /\ \A m \in 1..Len(p) : FieldRound(FieldsRead(p, m - 1)) = FieldsRead(p, m)
         /\ FieldRound(FieldsRead(p, Len(p))) = FieldsRead(p, Len(p))
<1>1. PartsOf(FieldPairs, p)
  BY Parts
<1>r. PICK R : R = Reads(p)
  OBVIOUS
<1>e. /\ R \in Seq(ReadPairs) /\ Len(R) = Len(p) /\ Len(p) \in Nat
      /\ \A i \in 1..Len(p) : R[i] = <<p[i][1], Read(p[i][2])>>
  BY <1>r, ReadsIs, LenProperties
<1>s. PartsOf(ReadPairs, R)
  BY <1>e, Parts
<1>2. ASSUME NEW m \in 1..Len(p) PROVE FieldRound(FieldsRead(p, m - 1)) = FieldsRead(p, m)
  <2>1. p[m] \in FieldPairs /\ Behind(p, m - 1) = <<p[m]>> \o Behind(p, m)
    BY <1>1 DEF PartsOf
  <2>a. m \in 0..Len(p) /\ m - 1 \in 0..Len(p) /\ m \in 1..Len(R) /\ m - 1 \in 0..Len(R)
    BY <1>e
  <2>2. Behind(p, m) \in Seq(FieldPairs)
    BY <1>1, <2>a DEF PartsOf
  <2>3. PICK x \in FieldPairs, q \in Seq(FieldPairs) : x = p[m] /\ q = Behind(p, m)
    BY <2>1, <2>2
  <2>4. PICK r : r \in Text /\ r = Line(FieldRow, q) /\ (r = <<>> \/ r[1] = Comma)
    <3>1. Line(FieldRow, q) \in Text /\ (q # <<>> => Line(FieldRow, q)[1] = Comma)
      BY LineRowlike, FieldRowlike
    <3>2. q = <<>> => Line(FieldRow, q) = <<>>
      BY LineEmpty
    <3> QED
      BY <3>1, <3>2
  <2>5. PICK s : s = FieldText(x[1], x[2]) \o r
    OBVIOUS
  <2>6. Rest(Behind(p, m - 1)) = s
    BY <2>1, <2>3, <2>4, <2>5, RestCons
  <2>7. FieldReads(s, x, r)
    BY <2>4, <2>5, FieldRead
  <2>8. PICK y : y = <<x[1], Read(x[2])>>
    OBVIOUS
  <2>9. /\ IndexUnescaped(s, "=") # 0 /\ FirstField(s) = <<y>>
        /\ From(s, EndOfField(s) + 2) = From(r, 2)
    BY <2>7, <2>8 DEF FieldReads
  <2>10. From(r, 2) = Rest(q)
    BY <2>4 DEF Rest
  <2>11. PICK b : b = Before(R, m - 1) /\ b \in Seq(ReadPairs)
    BY <1>s, <2>a DEF PartsOf
  <2>12. R[m] = y /\ y \in ReadPairs
    <3>1. R[m] = y
      BY <1>e, <2>3, <2>8
    <3>2. R[m] \in ReadPairs
      BY <1>s, <2>a DEF PartsOf
    <3> QED
      BY <3>1, <3>2
  <2>13. Before(R, m) = Append(b, y)
    BY <1>s, <2>a, <2>11, <2>12 DEF PartsOf
  <2>14. Append(b, y) = b \o <<y>>
    BY <2>11, <2>12, AppendIsConcat
  <2>15. FieldsRead(p, m - 1) = [got |-> b, rest |-> s]
    BY <1>r, <2>6, <2>11 DEF FieldsRead
  <2>16. FieldsRead(p, m) = [got |-> b \o <<y>>, rest |-> Rest(q)]
    BY <1>r, <2>3, <2>13, <2>14 DEF FieldsRead
  <2>17. FieldRound([got |-> b, rest |-> s]) = [got |-> b \o <<y>>, rest |-> Rest(q)]
    BY <2>9, <2>10 DEF FieldRound
  <2> QED
    BY <2>15, <2>16, <2>17
<1>3. FieldRound(FieldsRead(p, Len(p))) = FieldsRead(p, Len(p))
  <2>1. Behind(p, Len(p)) = <<>>
    BY <1>1 DEF PartsOf
  <2>2. Rest(Behind(p, Len(p))) = <<>>
    BY <2>1, RestEmpty
  <2> QED
    BY <2>2, EmptyRest DEF FieldRound, FieldsRead
<1> QED
  BY <1>2, <1>3

\* A line of fields is as long as it has fields, at least.
LEMMA RestLong ==
  ASSUME NEW p \in Seq(FieldPairs)
  PROVE  Rest(p) \in Text /\ Len(p) <= Len(Rest(p))
<1>1. CASE p = <<>>
  <2>1. PICK z : z = <<>> /\ Len(z) = 0 /\ z \in Text
    BY EmptySeq DEF Text
  <2>2. Rest(p) = z /\ p = z
    BY <1>1, <2>1, RestEmpty
  <2> QED
    BY <2>1, <2>2
<1>2. CASE p # <<>>
  <2>1. PartsOf(FieldPairs, p)
    BY Parts
  <2>2. Len(p) \in Nat \ {0}
    BY <1>2, LenProperties, EmptySeq
  <2>3. 1 \in 1..Len(p) /\ 1 \in 0..Len(p) /\ 1 - 1 = 0
    BY <2>2
  <2>4. p[1] \in FieldPairs /\ Behind(p, 1 - 1) = <<p[1]>> \o Behind(p, 1)
    BY <2>1, <2>3 DEF PartsOf
  <2>5. Behind(p, 1) \in Seq(FieldPairs) /\ Len(Behind(p, 1)) = Len(p) - 1 /\ Behind(p, 0) = p
    BY <2>1, <2>3 DEF PartsOf
  <2>6. PICK x, b : x = p[1] /\ b = Behind(p, 1)
    OBVIOUS
  <2>7. x \in FieldPairs /\ b \in Seq(FieldPairs) /\ Len(b) = Len(p) - 1 /\ p = <<x>> \o b
    BY <2>3, <2>4, <2>5, <2>6
  <2>8. Rest(p) = FieldText(x[1], x[2]) \o Line(FieldRow, b) /\ Rest(p) \in Text
    BY <2>7, RestCons
  <2>9. PICK F : F \in Text /\ F = FieldText(x[1], x[2]) /\ F # <<>>
    BY <2>7, FieldTextIs
  <2>10. PICK r : r \in Text /\ r = Line(FieldRow, b)
    BY <2>7, LineRowlike, FieldRowlike
  <2>11. Len(b) <= Len(r)
    BY <2>7, <2>10, LineLong, FieldRowlike
  <2>12. Len(F \o r) = Len(F) + Len(r) /\ Len(r) \in Nat
    BY <2>9, <2>10, TextBoth
  <2>13. Len(F) \in Nat \ {0}
    BY <2>9, LenProperties, EmptySeq DEF Text
  <2>14. Rest(p) = F \o r
    BY <2>8, <2>9, <2>10
  <2>15. Len(p) <= Len(F \o r)
    BY <2>2, <2>7, <2>11, <2>12, <2>13
  <2> QED
    BY <2>8, <2>14, <2>15
<1> QED
  BY <1>1, <1>2

\* Fields reads back what the rows were made from.
LEMMA FieldsReadBack ==
  ASSUME NEW p \in Seq(FieldPairs)
  PROVE  FieldsOf(Rest(p)) = Reads(p)
<1>1. PICK s : s = Rest(p) /\ Len(s) \in Nat
  BY RestLong, LenProperties DEF Text
<1>2. Len(p) \in Nat /\ Len(p) <= Len(s)
  BY <1>1, RestLong, LenProperties
<1> DEFINE upTo(n) == IF n <= Len(p) THEN n ELSE Len(p)
           g == [n \in 0..Len(s) |-> FieldsRead(p, upTo(n))]
<1>3. /\ Before(Reads(p), 0) = <<>> /\ Before(Reads(p), Len(p)) = Reads(p)
      /\ Behind(p, 0) = p
  <2>1. PartsOf(FieldPairs, p)
    BY Parts
  <2>2. Reads(p) \in Seq(ReadPairs) /\ Len(Reads(p)) = Len(p)
    BY ReadsIs
  <2>3. PartsOf(ReadPairs, Reads(p))
    BY <2>2, Parts
  <2> QED
    BY <2>1, <2>2, <2>3 DEF PartsOf
<1>4. FieldsRead(p, 0) = [got |-> <<>>, rest |-> s]
  BY <1>1, <1>3 DEF FieldsRead
<1>5. ASSUME NEW n \in 1..Len(s)
      PROVE  FieldsRead(p, upTo(n)) = FieldRound(FieldsRead(p, upTo(n - 1)))
  <2>1. CASE n <= Len(p)
    <3>1. n \in 1..Len(p) /\ upTo(n) = n /\ upTo(n - 1) = n - 1
      BY <1>1, <1>2, <2>1
    <3> QED
      BY <3>1, FieldRoundIs
  <2>2. CASE n > Len(p)
    <3>1. upTo(n) = Len(p) /\ upTo(n - 1) = Len(p)
      BY <1>1, <1>2, <2>2
    <3> QED
      BY <3>1, FieldRoundIs
  <2> QED
    BY <1>1, <1>2, <2>1, <2>2
<1>6. FieldRounds(g, s)
  <2>1. upTo(0) = 0
    BY <1>2
  <2>2. ASSUME NEW n \in 0..Len(s)
        PROVE  FieldsRead(p, upTo(n)) =
                 IF n = 0 THEN [got |-> <<>>, rest |-> s] ELSE FieldRound(g[n - 1])
    <3>1. CASE n = 0
      BY <1>4, <2>1, <3>1
    <3>2. CASE n # 0
      <4>1. n \in 1..Len(s) /\ n - 1 \in 0..Len(s)
        BY <1>1, <3>2
      <4>2. g[n - 1] = FieldsRead(p, upTo(n - 1))
        BY <4>1
      <4> HIDE DEF g, upTo
      <4> QED
        BY <1>5, <3>2, <4>1, <4>2
    <3> QED
      BY <3>1, <3>2
  <2>3. PICK h : h = g
    OBVIOUS
  <2>4. h = [n \in 0..Len(s) |-> FieldsRead(p, upTo(n))]
    BY <2>3
  <2> HIDE DEF g, upTo
  <2>5. h = [n \in 0..Len(s) |-> IF n = 0 THEN [got |-> <<>>, rest |-> s] ELSE FieldRound(h[n - 1])]
    BY <2>2, <2>3, <2>4
  <2> QED
    BY <2>3, <2>5 DEF FieldRounds
<1>7. PICK f : f = (CHOOSE h : FieldRounds(h, s)) /\ FieldRounds(f, s)
  <2> HIDE DEF g
  <2> QED
    BY <1>6
<1>8. f[Len(s)] = g[Len(s)]
  <2> HIDE DEF g
  <2> DEFINE G == {n \in Nat : f[n] = g[n]}
  <2>k. \A n : n \in G <=> n \in Nat /\ f[n] = g[n]
    OBVIOUS
  <2> HIDE DEF G
  <2>1. \A n \in 0..Len(s) :
          /\ f[n] = IF n = 0 THEN [got |-> <<>>, rest |-> s] ELSE FieldRound(f[n - 1])
          /\ g[n] = IF n = 0 THEN [got |-> <<>>, rest |-> s] ELSE FieldRound(g[n - 1])
    BY <1>6, <1>7 DEF FieldRounds
  <2>2. 0 \in G
    <3>1. 0 \in 0..Len(s)
      BY <1>1
    <3> QED
      BY <2>k, <2>1, <3>1
  <2>3. \A n \in 1..Len(s) : n - 1 \in G => n \in G
    <3>1. ASSUME NEW n \in 1..Len(s), n - 1 \in G PROVE n \in G
      <4>1. n \in 0..Len(s) /\ n # 0 /\ n \in Nat
        BY <1>1
      <4>2. f[n - 1] = g[n - 1]
        BY <2>k, <3>1
      <4>3. f[n] = FieldRound(f[n - 1]) /\ g[n] = FieldRound(g[n - 1])
        BY <2>1, <4>1
      <4> QED
        BY <2>k, <4>1, <4>2, <4>3
    <3> QED
      BY <3>1
  <2>4. Len(s) \in G
    BY <1>1, <2>2, <2>3, UpTo
  <2> QED
    BY <2>k, <2>4
<1>9. g[Len(s)] = FieldsRead(p, Len(p))
  <2>1. Len(s) \in 0..Len(s) /\ upTo(Len(s)) = Len(p)
    BY <1>1, <1>2
  <2> QED
    BY <2>1
<1>10. FieldsRead(p, Len(p)).got = Reads(p)
  BY <1>3 DEF FieldsRead
<1> HIDE DEF g
<1> QED
  BY <1>1, <1>7, <1>8, <1>9, <1>10, FieldsOfDef

---------------------------------------------------------------------------
(* The rows and the map of fields: a key may come again, and then the last *)
(* one counts.                                                             *)

NoLater(q, i) == \A j \in (i + 1)..Len(q) : q[j][1] # q[i][1]
Holds(q, map) ==
  /\ q \in Seq(FieldPairs) /\ q # <<>>
  /\ DOMAIN map = {q[i][1] : i \in 1..Len(q)}
  /\ \A i \in 1..Len(q) : NoLater(q, i) => map[q[i][1]] = q[i][2]

\* Each key has a last one.
LEMMA HasLast ==
  ASSUME NEW n \in Nat, NEW S, S \subseteq 1..n, S # {}
  PROVE  \E m \in S : \A j \in S : m >= j
<1> SUFFICES ASSUME \A m \in S : \E j \in S : j > m
             PROVE  FALSE
  <2>1. ASSUME NEW m \in S, NEW j \in S PROVE m >= j \/ j > m
    OBVIOUS
  <2> QED
    BY <2>1
<1> DEFINE G == {k \in 0..n : \E i \in S : i > k}
<1>k. \A k : k \in G <=> k \in 0..n /\ \E i \in S : i > k
  OBVIOUS
<1> HIDE DEF G
<1>1. 0 \in G
  <2>1. PICK i \in S : TRUE
    OBVIOUS
  <2>2. i > 0 /\ 0 \in 0..n
    OBVIOUS
  <2> QED
    BY <1>k, <2>2
<1>2. ASSUME NEW k \in 1..n, k - 1 \in G PROVE k \in G
  <2>1. PICK i \in S : i > k - 1
    BY <1>2, <1>k
  <2>2. PICK j \in S : j > i
    OBVIOUS
  <2>3. j > k /\ k \in 0..n
    BY <2>1, <2>2
  <2> QED
    BY <1>k, <2>3
<1>3. n \in G
  BY <1>1, <1>2, UpTo
<1>4. PICK i \in S : i > n
  BY <1>3, <1>k
<1> QED
  BY <1>4

SameMap(fs, map) ==
  DOMAIN fs = DOMAIN map /\ \A k \in DOMAIN fs : Same(fs[k], map[k])

\* The map that what was read makes is the map.
LEMMA HoldsAsMap ==
  ASSUME NEW q, NEW map, Holds(q, map)
  PROVE  SameMap(AsMap(Reads(q)), map)
<1>1. /\ q \in Seq(FieldPairs) /\ DOMAIN map = {q[i][1] : i \in 1..Len(q)}
      /\ \A i \in 1..Len(q) : NoLater(q, i) => map[q[i][1]] = q[i][2]
  BY DEF Holds
<1>2. PICK N : N \in Nat /\ N = Len(q)
  BY <1>1, LenProperties
<1>3. PICK R : R = Reads(q)
  OBVIOUS
<1>4. /\ R \in Seq(ReadPairs) /\ Len(R) = N
      /\ \A i \in 1..N : R[i] = <<q[i][1], Read(q[i][2])>>
  BY <1>1, <1>2, <1>3, ReadsIs
<1>5. DOMAIN R = 1..N
  BY <1>4, LenProperties
<1>6. \A i \in 1..N : R[i][1] = q[i][1] /\ R[i][2] = Read(q[i][2])
  BY <1>4
<1>7. {p[1] : p \in ToSet(R)} = DOMAIN map
  <2>1. ToSet(R) = {R[i] : i \in 1..N}
    BY <1>5 DEF ToSet
  <2>2. {p[1] : p \in {R[i] : i \in 1..N}} = {R[i][1] : i \in 1..N}
    OBVIOUS
  <2>3. {R[i][1] : i \in 1..N} = {q[i][1] : i \in 1..N}
    BY <1>6
  <2> QED
    BY <1>1, <1>2, <2>1, <2>2, <2>3
<1>8. ASSUME NEW k \in DOMAIN map
      PROVE  Same(R[Max({i \in DOMAIN R : R[i][1] = k})][2], map[k])
  <2> DEFINE S == {i \in DOMAIN R : R[i][1] = k}
  <2>1. S \subseteq 1..N /\ S # {}
    <3>1. PICK i \in 1..N : q[i][1] = k
      BY <1>1, <1>2
    <3> QED
      BY <1>5, <1>6, <3>1
  <2>k. \A i : i \in S <=> i \in 1..N /\ q[i][1] = k
    BY <1>5, <1>6
  <2> HIDE DEF S
  <2>2. PICK m \in S : \A j \in S : m >= j
    BY <1>2, <2>1, HasLast
  <2>3. Max(S) = m
    <3>1. S \subseteq Int
      BY <2>1
    <3> QED
      BY <2>2, <3>1, MaxIs
  <2>4. m \in 1..N /\ q[m][1] = k
    BY <2>2, <2>k
  <2>5. NoLater(q, m)
    <3>1. ASSUME NEW j \in (m + 1)..N, q[j][1] = q[m][1] PROVE FALSE
      <4>1. j \in 1..N /\ j > m
        BY <1>2, <2>4
      <4>2. j \in S
        BY <2>4, <2>k, <3>1, <4>1
      <4> QED
        BY <2>2, <2>4, <4>1, <4>2
    <3> QED
      BY <1>2, <3>1 DEF NoLater
  <2>6. map[k] = q[m][2]
    BY <1>1, <1>2, <2>4, <2>5
  <2>7. R[m][2] = Read(q[m][2])
    BY <1>6, <2>4
  <2>8. Same(R[m][2], map[k])
    <3>1. PICK v : v = q[m][2]
      OBVIOUS
    <3>2. Same(Read(v), v)
      BY DEF Same, Read
    <3> QED
      BY <2>6, <2>7, <3>1, <3>2
  <2>9. Max({i \in DOMAIN R : R[i][1] = k}) = m
    BY <2>3 DEF S
  <2> QED
    BY <2>8, <2>9
<1>9. AsMap(R) = [k \in DOMAIN map |-> R[Max({i \in DOMAIN R : R[i][1] = k})][2]]
  BY <1>7 DEF AsMap
<1>10. SameMap(AsMap(R), map)
  BY <1>8, <1>9 DEF SameMap
<1> QED
  BY <1>3, <1>10

FieldState(fields, map) == \E q : Holds(q, map) /\ fields = Rest(q)

\* Fields gives the map.
LEMMA FieldsKept ==
  ASSUME NEW fields, NEW map, FieldState(fields, map)
  PROVE  SameMap(AsMap(FieldsOf(fields)), map)
<1>1. PICK q : Holds(q, map) /\ fields = Rest(q)
  BY DEF FieldState
<1>2. q \in Seq(FieldPairs)
  BY <1>1 DEF Holds
<1>3. FieldsOf(fields) = Reads(q)
  BY <1>1, <1>2, FieldsReadBack
<1> QED
  BY <1>1, <1>3, HoldsAsMap

\* One more field is one more value of the map, in place of an earlier one.
LEMMA HoldsAdded ==
  ASSUME NEW q, NEW map, NEW x \in FieldPairs, Holds(q, map)
  PROVE  Holds(Append(q, x), With(map, x[1], x[2]))
<1>1. /\ q \in Seq(FieldPairs) /\ DOMAIN map = {q[i][1] : i \in 1..Len(q)}
      /\ \A i \in 1..Len(q) : NoLater(q, i) => map[q[i][1]] = q[i][2]
  BY DEF Holds
<1>2. PICK N : N \in Nat /\ N = Len(q)
  BY <1>1, LenProperties
<1>3. PICK w : w = Append(q, x)
  OBVIOUS
<1>4. /\ w \in Seq(FieldPairs) /\ Len(w) = N + 1 /\ w[N + 1] = x
      /\ \A i \in 1..N : w[i] = q[i]
  BY <1>1, <1>2, <1>3, AppendProperties
<1>5. w # <<>>
  BY <1>2, <1>4, EmptySeq
<1>6. PICK k, v : k = x[1] /\ v = x[2]
  OBVIOUS
<1>7. PICK W : W = With(map, k, v)
  OBVIOUS
<1>8. /\ DOMAIN W = DOMAIN map \cup {k} /\ W[k] = v
      /\ \A y \in DOMAIN map : y # k => W[y] = map[y]
  BY <1>7 DEF With
<1>9. \A i \in 1..(N + 1) : i \in 1..N \/ i = N + 1
  BY <1>2
<1>10. N + 1 \in 1..(N + 1) /\ 1..N \subseteq 1..(N + 1)
  BY <1>2
<1>11. DOMAIN W = {w[i][1] : i \in 1..(N + 1)}
  <2>1. ASSUME NEW y \in DOMAIN W PROVE \E i \in 1..(N + 1) : w[i][1] = y
    <3>1. CASE y = k
      BY <1>4, <1>6, <1>10, <3>1
    <3>2. CASE y # k
      <4>1. PICK i \in 1..N : q[i][1] = y
        BY <1>1, <1>2, <1>8, <2>1, <3>2
      <4> QED
        BY <1>4, <1>10, <4>1
    <3> QED
      BY <3>1, <3>2
  <2>2. ASSUME NEW i \in 1..(N + 1) PROVE w[i][1] \in DOMAIN W
    <3>1. CASE i \in 1..N
      BY <1>1, <1>2, <1>4, <1>8, <3>1
    <3>2. CASE i = N + 1
      BY <1>4, <1>6, <1>8, <3>2
    <3> QED
      BY <1>9, <3>1, <3>2
  <2> QED
    BY <2>1, <2>2
<1>12. ASSUME NEW i \in 1..(N + 1), NoLater(w, i) PROVE W[w[i][1]] = w[i][2]
  <2>1. CASE i = N + 1
    BY <1>4, <1>6, <1>8, <2>1
  <2>2. CASE i \in 1..N
    <3>1. w[N + 1][1] # w[i][1]
      <4>1. N + 1 \in (i + 1)..Len(w)
        BY <1>2, <1>4, <2>2
      <4> QED
        BY <1>12, <4>1 DEF NoLater
    <3>2. NoLater(q, i)
      <4>1. ASSUME NEW j \in (i + 1)..N PROVE q[j][1] # q[i][1]
        <5>1. j \in 1..N /\ j \in (i + 1)..Len(w)
          BY <1>2, <1>4, <2>2
        <5>2. w[j][1] # w[i][1]
          BY <1>12, <5>1 DEF NoLater
        <5> QED
          BY <1>4, <2>2, <5>1, <5>2
      <4> QED
        BY <1>2, <4>1 DEF NoLater
    <3>3. map[q[i][1]] = q[i][2] /\ q[i][1] \in DOMAIN map
      BY <1>1, <1>2, <2>2, <3>2
    <3>4. w[i] = q[i]
      BY <1>4, <2>2
    <3>5. q[i][1] # k
      BY <1>4, <1>6, <3>1, <3>4
    <3> QED
      BY <1>8, <3>3, <3>4, <3>5
  <2> QED
    BY <1>9, <2>1, <2>2
<1>13. Holds(w, W)
  BY <1>4, <1>5, <1>11, <1>12 DEF Holds
<1> QED
  BY <1>3, <1>6, <1>7, <1>13

\* AddField puts a comma before the field.
LEMMA RestAppend ==
  ASSUME NEW q \in Seq(FieldPairs), NEW x \in FieldPairs, q # <<>>
  PROVE  Rest(Append(q, x)) = (Rest(q) \o <<Comma>>) \o FieldText(x[1], x[2])
<1>1. PICK L : L \in Text /\ L = Line(FieldRow, q) /\ L # <<>>
  BY LineRowlike, FieldRowlike
<1>2. PICK F : F \in Text /\ F = FieldText(x[1], x[2])
  BY FieldTextIs
<1>3. PICK c : c \in Text /\ c = <<Comma>>
  BY Marks
<1>4. PICK cF : cF \in Text /\ cF = c \o F
  BY <1>2, <1>3, TextBoth
<1>5. FieldRow[x] = cF
  BY <1>2, <1>3, <1>4 DEF FieldRow
<1>6. Line(FieldRow, Append(q, x)) = L \o cF
  BY <1>1, <1>5, LineAppend, FieldRowlike
<1>7. From(L \o cF, 2) = From(L, 2) \o cF
  BY <1>1, <1>4, FromFront
<1>8. PICK r : r \in Text /\ r = Rest(q)
  BY RestLong
<1>9. r = From(L, 2)
  BY <1>1, <1>8 DEF Rest
<1>10. (r \o c) \o F = r \o (c \o F)
  BY <1>2, <1>3, <1>8, TextAssoc
<1>11. Rest(Append(q, x)) = r \o cF
  BY <1>6, <1>7, <1>9 DEF Rest
<1> QED
  BY <1>2, <1>3, <1>4, <1>8, <1>10, <1>11

\* What an assignment to the fields leaves alone.
LEMMA NewFields ==
  ASSUME NEW m, IsMetric(m), NEW fields
  PROVE  LET r == [m EXCEPT !.fields = fields]
         IN  IsMetric(r) /\ r.name = m.name /\ r.tags = m.tags /\ r.fields = fields
<1>1. PICK n, g, f, t : m = [name |-> n, tags |-> g, fields |-> f, t |-> t]
  BY DEF IsMetric
<1>2. [m EXCEPT !.fields = fields] = [name |-> n, tags |-> g, fields |-> fields, t |-> t]
  BY <1>1
<1> QED
  BY <1>1, <1>2 DEF IsMetric

\* AddField gives the field its value, and touches nothing but the fields.
LEMMA AddFieldKeeps ==
  ASSUME NEW m, IsMetric(m), NEW k \in FieldKeys, NEW v \in FieldValues
  PROVE  /\ IsMetric(AddField(m, k, v)) /\ AddField(m, k, v).name = m.name
         /\ AddField(m, k, v).tags = m.tags
         /\ \A map : FieldState(m.fields, map) =>
                       FieldState(AddField(m, k, v).fields, With(map, k, v))
<1>1. PICK a, fields : a = AddField(m, k, v) /\ fields = (m.fields \o <<Comma>>) \o FieldText(k, v)
  OBVIOUS
<1>2. a = [m EXCEPT !.fields = (m.fields \o <<Comma>>) \o FieldText(k, v)]
  BY <1>1 DEF AddField
<1>3. a = [m EXCEPT !.fields = fields]
  BY <1>1, <1>2
<1>4. IsMetric(a) /\ a.name = m.name /\ a.tags = m.tags /\ a.fields = fields
  BY <1>3, NewFields
<1>5. PICK x : x = <<k, v>>
  OBVIOUS
<1>6. x \in FieldPairs /\ x[1] = k /\ x[2] = v
  <2>1. <<k, v>> \in FieldKeys \X FieldValues /\ <<k, v>>[1] = k /\ <<k, v>>[2] = v
    OBVIOUS
  <2> QED
    BY <1>5, <2>1 DEF FieldPairs
<1>7. ASSUME NEW map, FieldState(m.fields, map) PROVE FieldState(a.fields, With(map, k, v))
  <2>1. PICK q : Holds(q, map) /\ m.fields = Rest(q)
    BY <1>7 DEF FieldState
  <2>2. q \in Seq(FieldPairs) /\ q # <<>>
    BY <2>1 DEF Holds
  <2>3. Rest(Append(q, x)) = (Rest(q) \o <<Comma>>) \o FieldText(x[1], x[2])
    BY <1>6, <2>2, RestAppend
  <2>4. a.fields = Rest(Append(q, x))
    BY <1>1, <1>4, <1>6, <2>1, <2>3
  <2>5. Holds(Append(q, x), With(map, x[1], x[2]))
    BY <1>6, <2>1, HoldsAdded
  <2>6. Holds(Append(q, x), With(map, k, v))
    BY <1>6, <2>5
  <2> QED
    BY <2>4, <2>6 DEF FieldState
<1> QED
  BY <1>1, <1>4, <1>7

---------------------------------------------------------------------------
(* New: the maps in some order.                                            *)

\* What an order of a finite set is.
LEMMA OrderIs ==
  ASSUME NEW S, IsFiniteSet(S), NEW ts \in SetToSeqs(S)
  PROVE  /\ ts \in Seq(S) /\ Len(ts) \in Nat
         /\ \A i, j \in 1..Len(ts) : ts[i] = ts[j] => i = j
         /\ \A y \in S : \E i \in 1..Len(ts) : ts[i] = y
<1>1. PICK n : n = Cardinality(S) /\ n \in Nat
  BY FS_CardinalityType
<1>2. ts \in [1..n -> S] /\ \A i, j \in 1..n : i # j => ts[i] # ts[j]
  BY <1>1 DEF SetToSeqs
<1>3. ts \in Seq(S) /\ Len(ts) = n
  <2>1. \A i \in 1..n : ts[i] \in S
    BY <1>2
  <2>2. ts = [i \in 1..n |-> ts[i]]
    BY <1>2
  <2> QED
    BY <1>1, <2>1, <2>2, IsASeq
<1>4. ts \in Injection(1..n, S)
  BY <1>2 DEF Injection, IsInjective
<1>5. IsFiniteSet(1..n) /\ Cardinality(1..n) = n
  <2>1. 1 \in Int /\ n \in Int
    BY <1>1
  <2>2. IsFiniteSet(1..n) /\ Cardinality(1..n) = IF 1 > n THEN 0 ELSE n - 1 + 1
    BY <2>1, FS_Interval
  <2> QED
    BY <1>1, <2>2
<1>6. ts \in Surjection(1..n, S)
  BY <1>1, <1>4, <1>5, FS_Injection
<1>7. \A y \in S : \E i \in 1..n : ts[i] = y
  BY <1>6 DEF Surjection
<1> QED
  BY <1>1, <1>2, <1>3, <1>7

\* The pairs of a map: each of its keys once, with its value.
Listed(ts, map) ==
  /\ \A i \in 1..Len(ts) : ts[i][1] \in DOMAIN map /\ ts[i][2] = map[ts[i][1]]
  /\ \A i, j \in 1..Len(ts) : ts[i][1] = ts[j][1] => i = j
  /\ \A k \in DOMAIN map : \E i \in 1..Len(ts) : ts[i][1] = k

\* Any order of a map's pairs lists them.
LEMMA ListedIs ==
  ASSUME NEW K, IsFiniteSet(K), NEW V, NEW ks \in SUBSET K, NEW map \in [ks -> V],
         NEW ts \in SetToSeqs({<<k, map[k]>> : k \in DOMAIN map})
  PROVE  ts \in Seq(K \X V) /\ Listed(ts, map)
<1>0. DOMAIN map = ks
  OBVIOUS
<1>1. PICK S : S = {<<k, map[k]>> : k \in DOMAIN map}
  OBVIOUS
<1>2. /\ \A k \in ks : <<k, map[k]>> \in S
      /\ \A y \in S : y[1] \in ks /\ y[2] = map[y[1]] /\ y = <<y[1], y[2]>> /\ y \in K \X V
  BY <1>0, <1>1
<1>3. IsFiniteSet(S)
  <2>1. PICK f : f = [y \in S |-> y[1]]
    OBVIOUS
  <2>2. f \in [S -> K]
    BY <1>2, <2>1
  <2>3. \A a, b \in S : f[a] = f[b] => a = b
    BY <1>2, <2>1
  <2>4. f \in Injection(S, K)
    BY <2>2, <2>3 DEF Injection, IsInjective
  <2> QED
    BY <2>4, FS_Injection
<1>4. ts \in SetToSeqs(S)
  BY <1>1
<1>5. /\ ts \in Seq(S) /\ Len(ts) \in Nat
      /\ \A i, j \in 1..Len(ts) : ts[i] = ts[j] => i = j
      /\ \A y \in S : \E i \in 1..Len(ts) : ts[i] = y
  BY <1>3, <1>4, OrderIs
<1>6. \A i \in 1..Len(ts) : ts[i] \in S
  BY <1>5, ElementOfSeq
<1>7. ts \in Seq(K \X V)
  <2>1. \A i \in 1..Len(ts) : ts[i] \in K \X V
    BY <1>2, <1>6
  <2>2. ts = [i \in 1..Len(ts) |-> ts[i]]
    BY <1>5, LenProperties
  <2> QED
    BY <1>5, <2>1, <2>2, IsASeq
<1>8. Listed(ts, map)
  <2>1. ASSUME NEW i \in 1..Len(ts) PROVE ts[i][1] \in DOMAIN map /\ ts[i][2] = map[ts[i][1]]
    BY <1>0, <1>2, <1>6
  <2>2. ASSUME NEW i \in 1..Len(ts), NEW j \in 1..Len(ts), ts[i][1] = ts[j][1] PROVE i = j
    <3>1. PICK y, z : y = ts[i] /\ z = ts[j]
      OBVIOUS
    <3>2. y \in S /\ z \in S /\ y[1] = z[1]
      BY <1>6, <2>2, <3>1
    <3>3. y = z
      BY <1>2, <3>2
    <3> QED
      BY <1>5, <3>1, <3>3
  <2>3. ASSUME NEW k \in DOMAIN map PROVE \E i \in 1..Len(ts) : ts[i][1] = k
    <3>1. PICK y \in S : y[1] = k
      <4>1. <<k, map[k]>> \in S /\ <<k, map[k]>>[1] = k
        BY <1>0, <1>2
      <4> QED
        BY <4>1
    <3>2. PICK i \in 1..Len(ts) : ts[i] = y
      BY <1>5
    <3> QED
      BY <3>1, <3>2
  <2> QED
    BY <2>1, <2>2, <2>3 DEF Listed
<1> QED
  BY <1>7, <1>8

\* New leaves out no tag, as none of them is empty.
LEMMA NewTagsAre ==
  ASSUME NEW p \in Seq(Pairs), NEW name, NEW fs, NEW time
  PROVE  New(name, p, fs, time).tags = Line(TagRow, p)
<1>1. DOMAIN p = 1..Len(p) /\ \A i \in 1..Len(p) : p[i] \in Pairs
  BY LenProperties, ElementOfSeq
<1>2. ASSUME NEW i \in DOMAIN p
      PROVE  (IF p[i][1] = <<>> \/ p[i][2] = <<>> THEN <<>> ELSE TagText(p[i][1], p[i][2]))
             = TagRow[p[i]]
  <2>1. PICK x \in Pairs : x = p[i]
    BY <1>1
  <2>2. x[1] # <<>> /\ x[2] # <<>>
    BY PairIs
  <2>3. TagRow[x] = TagText(x[1], x[2])
    BY DEF TagRow
  <2> QED
    BY <2>1, <2>2, <2>3
<1>3. [i \in DOMAIN p |->
         IF p[i][1] = <<>> \/ p[i][2] = <<>> THEN <<>> ELSE TagText(p[i][1], p[i][2])]
      = Lines(TagRow, p)
  BY <1>2 DEF Lines
<1> QED
  BY <1>3 DEF New, Line

\* New writes no comma before the first field.
LEMMA NewFieldsAre ==
  ASSUME NEW q \in Seq(FieldPairs), q # <<>>, NEW name, NEW ts, NEW time
  PROVE  New(name, ts, q, time).fields = Rest(q)
<1> DEFINE text(i) == (IF i = 1 THEN <<>> ELSE <<Comma>>) \o FieldText(q[i][1], q[i][2])
<1>1. PICK N : N = Len(q) /\ N \in Nat \ {0} /\ DOMAIN q = 1..N
  BY LenProperties, EmptySeq
<1>2. PICK A : A = [i \in DOMAIN q |-> text(i)]
  OBVIOUS
<1>3. PartsOf(FieldPairs, q)
  BY Parts
<1>4. 1 \in 1..N /\ 1 \in 0..N /\ 1 - 1 = 0
  BY <1>1
<1>5. q[1] \in FieldPairs /\ Behind(q, 1 - 1) = <<q[1]>> \o Behind(q, 1)
  BY <1>1, <1>3, <1>4 DEF PartsOf
<1>6. Behind(q, 1) \in Seq(FieldPairs) /\ Len(Behind(q, 1)) = N - 1 /\ Behind(q, 0) = q
  BY <1>1, <1>3, <1>4 DEF PartsOf
<1>7. PICK x, b : x = q[1] /\ b = Behind(q, 1)
  OBVIOUS
<1>8. x \in FieldPairs /\ b \in Seq(FieldPairs) /\ Len(b) = N - 1 /\ q = <<x>> \o b
  BY <1>4, <1>5, <1>6, <1>7
<1>9. ASSUME NEW i \in 1..Len(b) PROVE q[1 + i] = b[i]
  <2>1. PICK o : o = <<x>> /\ o \in Seq(FieldPairs) /\ Len(o) = 1
    <3>1. x \in FieldPairs
      BY <1>8
    <3>2. <<x>> \in Seq(FieldPairs) /\ Len(<<x>>) = 1
      BY <3>1, Singles
    <3> QED
      BY <3>2
  <2>2. \A j \in 1..Len(b) : (o \o b)[Len(o) + j] = b[j]
    BY <1>8, <2>1, Both
  <2>3. q = o \o b
    BY <1>8, <2>1
  <2> QED
    BY <2>1, <2>2, <2>3
<1>10. PICK F : F \in Text /\ F = FieldText(x[1], x[2])
  BY <1>8, FieldTextIs
<1>11. A = [i \in 1..N |-> text(i)]
  BY <1>1, <1>2
<1>12. text(1) = F
  <2>1. <<>> \o F = F
    BY <1>10, ConcatEmptySeq DEF Text
  <2> QED
    BY <1>7, <1>10, <2>1
<1>13. ASSUME NEW i \in 1..Len(b)
       PROVE  1 + i \in 1..N /\ text(1 + i) = FieldRow[b[i]] /\ text(1 + i) \in Text
  <2>1. 1 + i \in 1..N /\ 1 + i # 1
    BY <1>1, <1>8
  <2>2. b[i] \in FieldPairs
    BY <1>8, ElementOfSeq
  <2>3. FieldRow[b[i]] = <<Comma>> \o FieldText(b[i][1], b[i][2])
    BY <2>2 DEF FieldRow
  <2>4. FieldRow[b[i]] \in Text
    BY <2>2, FieldRowlike DEF Rowlike
  <2> QED
    BY <1>9, <2>1, <2>3, <2>4
<1> HIDE DEF text
<1>14. ASSUME NEW i \in 1..N PROVE text(i) \in Text
  <2>1. CASE i = 1
    BY <1>10, <1>12, <2>1
  <2>2. CASE i # 1
    <3>1. i - 1 \in 1..Len(b) /\ 1 + (i - 1) = i
      BY <1>1, <1>8, <2>2
    <3>2. text(1 + (i - 1)) \in Text
      BY <1>13, <3>1
    <3> QED
      BY <3>1, <3>2
  <2> QED
    BY <2>1, <2>2
<1>15. A \in Seq(Text) /\ Len(A) = N /\ \A i \in 1..N : A[i] = text(i)
  <2>1. A \in Seq(Text)
    BY <1>1, <1>11, <1>14, IsASeq
  <2> QED
    BY <1>1, <1>11, <2>1
<1>16. PICK o : o = <<F>> /\ o \in Seq(Text) /\ Len(o) = 1 /\ o[1] = F
  BY <1>10, Singles
<1>17. PICK B : /\ B = Lines(FieldRow, b) /\ B \in Seq(Text) /\ Len(B) = Len(b)
                /\ \A i \in 1..Len(b) : B[i] = FieldRow[b[i]]
  <2>1. FieldRow \in [FieldPairs -> Text]
    BY FieldRowlike DEF Rowlike
  <2>2. /\ Lines(FieldRow, b) \in Seq(Text) /\ Len(Lines(FieldRow, b)) = Len(b)
        /\ \A i \in 1..Len(b) : Lines(FieldRow, b)[i] = FieldRow[b[i]]
    <3>1. b \in Seq(FieldPairs)
      BY <1>8
    <3> QED
      BY <2>1, <3>1, LinesText
  <2> QED
    BY <2>2
<1>18. A = o \o B
  <2>1. Len(A) = Len(o) + Len(B)
    BY <1>1, <1>8, <1>15, <1>16, <1>17
  <2>2. \A i \in 1..Len(o) : A[i] = o[i]
    BY <1>4, <1>12, <1>15, <1>16
  <2>3. \A i \in 1..Len(B) : A[Len(o) + i] = B[i]
    <3>1. ASSUME NEW i \in 1..Len(b) PROVE A[1 + i] = B[i]
      BY <1>13, <1>15, <1>17
    <3> QED
      BY <1>16, <1>17, <3>1
  <2> QED
    BY <1>15, <1>16, <1>17, <2>1, <2>2, <2>3, RowOfTexts
<1>19. FlattenSeq(A) = FlattenSeq(o) \o FlattenSeq(B)
  BY <1>16, <1>17, <1>18, FlattenConcat
<1>20. FlattenSeq(o) = F
  BY <1>10, <1>16, FlattenOne
<1>21. FlattenSeq(A) = Rest(q)
  BY <1>8, <1>10, <1>17, <1>19, <1>20, RestCons DEF Line
<1>22. New(name, ts, q, time).fields = FlattenSeq(A)
  BY <1>2 DEF New, text
<1> QED
  BY <1>21, <1>22

---------------------------------------------------------------------------
(* The invariant: the name is the escaped name, the tags are the rows of the *)
(* map's tags in some order, and the fields those of calls that make the map. *)

MetricInv ==
  /\ named \in Text /\ IsMetric(metric) /\ metric.name = Escape(named, NameChars)
  /\ TagState(metric.tags, tagged)
  /\ ~removed => FieldState(metric.fields, fielded)

\* The invariant says that the metric reads back.
LEMMA InvReads == MetricInv => ReadsBack
<1> SUFFICES ASSUME MetricInv
             PROVE  ReadsBack
  OBVIOUS
<1>1. Name(metric) = named
  BY NameRead DEF MetricInv, Name
<1>2. AsMap(TagsOf(metric.tags)) = tagged
  BY TagsKept DEF MetricInv
<1>3. ASSUME ~removed PROVE SameMap(AsMap(FieldsOf(metric.fields)), fielded)
  BY <1>3, FieldsKept DEF MetricInv
<1> QED
  BY <1>1, <1>2, <1>3 DEF ReadsBack, SameMap

\* New makes it true.
LEMMA InvInit == MetricInit => MetricInv
<1> SUFFICES ASSUME MetricInit
             PROVE  MetricInv
  OBVIOUS
<1>1. PICK tk \in SUBSET TagKeys : tagged \in [tk -> TagValues]
  BY DEF MetricInit
<1>2. PICK fk \in (SUBSET FieldKeys) \ {{}} : fielded \in [fk -> FieldValues]
  BY DEF MetricInit
<1>3. PICK ts \in SetToSeqs({<<k, tagged[k]>> : k \in DOMAIN tagged}) :
        \E fs \in SetToSeqs({<<k, fielded[k]>> : k \in DOMAIN fielded}) :
          metric = New(named, ts, fs, Now)
  BY DEF MetricInit
<1>4. PICK fs \in SetToSeqs({<<k, fielded[k]>> : k \in DOMAIN fielded}) :
        metric = New(named, ts, fs, Now)
  BY <1>3
<1>5. ts \in Seq(Pairs) /\ Listed(ts, tagged)
  <2>1. IsFiniteSet(TagKeys)
    BY TextsAssumption
  <2>2. ts \in Seq(TagKeys \X TagValues) /\ Listed(ts, tagged)
    BY <1>1, <2>1, ListedIs
  <2> QED
    BY <2>2 DEF Pairs
<1>6. fs \in Seq(FieldPairs) /\ Listed(fs, fielded)
  <2>1. IsFiniteSet(FieldKeys) /\ fk \in SUBSET FieldKeys
    BY <1>2, TextsAssumption
  <2>2. fs \in Seq(FieldKeys \X FieldValues) /\ Listed(fs, fielded)
    BY <1>2, <2>1, ListedIs
  <2> QED
    BY <2>2 DEF FieldPairs
<1>7. Keeps(ts, tagged)
  <2>1. tagged \in [DOMAIN tagged -> TagValues]
    BY <1>1
  <2>2. DOMAIN tagged = {ts[i][1] : i \in 1..Len(ts)}
    <3>1. /\ \A i \in 1..Len(ts) : ts[i][1] \in DOMAIN tagged
          /\ \A k \in DOMAIN tagged : \E i \in 1..Len(ts) : ts[i][1] = k
      BY <1>5 DEF Listed
    <3> QED
      BY <3>1
  <2>3. \A i \in 1..Len(ts) : tagged[ts[i][1]] = ts[i][2]
    BY <1>5 DEF Listed
  <2>4. Distinct(ts)
    BY <1>5 DEF Listed, Distinct
  <2> QED
    BY <1>5, <2>1, <2>2, <2>3, <2>4 DEF Keeps
<1>8. Holds(fs, fielded)
  <2>1. DOMAIN fielded = {fs[i][1] : i \in 1..Len(fs)}
    <3>1. /\ \A i \in 1..Len(fs) : fs[i][1] \in DOMAIN fielded
          /\ \A k \in DOMAIN fielded : \E i \in 1..Len(fs) : fs[i][1] = k
      BY <1>6 DEF Listed
    <3> QED
      BY <3>1
  <2>2. \A i \in 1..Len(fs) : fielded[fs[i][1]] = fs[i][2]
    BY <1>6 DEF Listed
  <2>3. fs # <<>>
    <3>1. PICK k : k \in DOMAIN fielded
      BY <1>2
    <3>2. PICK i \in 1..Len(fs) : fs[i][1] = k
      BY <1>6, <3>1 DEF Listed
    <3>3. Len(fs) # 0
      BY <3>2
    <3> QED
      BY <3>3, EmptySeq
  <2> QED
    BY <1>6, <2>1, <2>2, <2>3 DEF Holds
<1>9. fs # <<>>
  BY <1>8 DEF Holds
<1>10. named \in Text
  BY TextsAssumption DEF MetricInit, Text
<1>11. PICK m : m = New(named, ts, fs, Now)
  OBVIOUS
<1>12. IsMetric(m) /\ m.name = Escape(named, NameChars)
  BY <1>11 DEF IsMetric, New
<1>13. m.tags = Line(TagRow, ts)
  BY <1>5, <1>11, NewTagsAre
<1>14. m.fields = Rest(fs)
  BY <1>6, <1>9, <1>11, NewFieldsAre
<1>15. TagState(m.tags, tagged) /\ FieldState(m.fields, fielded)
  BY <1>7, <1>8, <1>13, <1>14 DEF TagState, FieldState
<1> QED
  BY <1>4, <1>10, <1>11, <1>12, <1>15 DEF MetricInv

\* What an assignment to the name leaves alone.
LEMMA NewName ==
  ASSUME NEW m, IsMetric(m), NEW name
  PROVE  LET r == [m EXCEPT !.name = name]
         IN  IsMetric(r) /\ r.tags = m.tags /\ r.fields = m.fields /\ r.name = name
<1>1. PICK n, g, f, t : m = [name |-> n, tags |-> g, fields |-> f, t |-> t]
  BY DEF IsMetric
<1>2. [m EXCEPT !.name = name] = [name |-> name, tags |-> g, fields |-> f, t |-> t]
  BY <1>1
<1> QED
  BY <1>1, <1>2 DEF IsMetric

\* Every call keeps it.
LEMMA InvNext == MetricInv /\ [MetricNext]_metricVars => MetricInv'
<1> SUFFICES ASSUME MetricInv, [MetricNext]_metricVars
             PROVE  MetricInv'
  OBVIOUS
<1> USE DEF MetricInv
<1>1. ASSUME NEW k \in TagKeys, CallRemoveTag(k) PROVE MetricInv'
  <2>1. PICK r : r = RemoveTag(metric, k) /\ r = metric'
    BY <1>1 DEF CallRemoveTag, Call
  <2>2. TagState(r.tags, Without(tagged, k)) /\ OnlyTags(metric, r)
    BY <2>1, RemoveTagKeeps
  <2>3. /\ tagged' = Without(tagged, k) /\ named' = named
        /\ fielded' = fielded /\ removed' = removed
    BY <1>1 DEF CallRemoveTag
  <2> QED
    BY <2>1, <2>2, <2>3 DEF OnlyTags
<1>2. ASSUME NEW k \in TagKeys, NEW v \in TagValues, CallAddTag(k, v) PROVE MetricInv'
  <2>1. PICK r : r = AddTag(metric, k, v) /\ r = metric'
    BY <1>2 DEF CallAddTag, Call
  <2>2. TagState(r.tags, With(tagged, k, v)) /\ OnlyTags(metric, r)
    BY <2>1, AddTagKeeps
  <2>3. /\ tagged' = With(tagged, k, v) /\ named' = named
        /\ fielded' = fielded /\ removed' = removed
    BY <1>2 DEF CallAddTag
  <2> QED
    BY <2>1, <2>2, <2>3 DEF OnlyTags
<1>3. ASSUME NEW k \in FieldKeys, CallRemoveField(k) PROVE MetricInv'
  <2>1. PICK r : r = RemoveField(metric, k) /\ r = metric'
    BY <1>3 DEF CallRemoveField, Call
  <2>2. r = metric \/ \E left : r = [metric EXCEPT !.fields = left]
    BY <2>1 DEF RemoveField
  <2>3. IsMetric(r) /\ r.name = metric.name /\ r.tags = metric.tags
    <3>1. CASE r = metric
      BY <3>1
    <3>2. CASE \E left : r = [metric EXCEPT !.fields = left]
      <4>1. PICK left : r = [metric EXCEPT !.fields = left]
        BY <3>2
      <4> QED
        BY <4>1, NewFields
    <3> QED
      BY <2>2, <3>1, <3>2
  <2>4. removed' = TRUE /\ tagged' = tagged /\ named' = named
    BY <1>3 DEF CallRemoveField
  <2> QED
    BY <2>1, <2>3, <2>4
<1>4. ASSUME NEW k \in FieldKeys, NEW v \in FieldValues, CallAddField(k, v) PROVE MetricInv'
  <2>1. PICK r : r = AddField(metric, k, v) /\ r = metric'
    BY <1>4 DEF CallAddField, Call
  <2>2. /\ IsMetric(r) /\ r.name = metric.name /\ r.tags = metric.tags
        /\ \A map : FieldState(metric.fields, map) => FieldState(r.fields, With(map, k, v))
    BY <2>1, AddFieldKeeps
  <2>3. /\ fielded' = With(fielded, k, v) /\ named' = named
        /\ tagged' = tagged /\ removed' = removed
    BY <1>4 DEF CallAddField
  <2> QED
    BY <2>1, <2>2, <2>3
<1>5. ASSUME NEW r, NEW s \in Text, r = [metric EXCEPT !.name = Escape(s, NameChars)],
             r = metric', named' = s, UNCHANGED <<tagged, fielded, removed>>
      PROVE  MetricInv'
  <2>1. /\ IsMetric(r) /\ r.tags = metric.tags /\ r.fields = metric.fields
        /\ r.name = Escape(s, NameChars)
    <3>1. PICK name : name = Escape(s, NameChars)
      OBVIOUS
    <3> QED
      BY <1>5, <3>1, NewName
  <2> QED
    BY <1>5, <2>1
<1>6. ASSUME NEW s \in Names, CallSetName(s) PROVE MetricInv'
  <2>1. s \in Text
    BY TextsAssumption DEF Text
  <2>2. /\ metric' = [metric EXCEPT !.name = Escape(s, NameChars)] /\ named' = s
        /\ UNCHANGED <<tagged, fielded, removed>>
    BY <1>6 DEF CallSetName, Call, SetName
  <2> QED
    BY <1>5, <2>1, <2>2
<1>7. ASSUME NEW s \in Names, CallAffix(s) PROVE MetricInv'
  <2>1. PICK n : n = named /\ n \in Text /\ metric.name = Escape(n, NameChars)
    OBVIOUS
  <2>2. s \in Text /\ UNCHANGED <<tagged, fielded, removed>>
    BY <1>7, TextsAssumption DEF Text, CallAffix
  <2>3. CASE metric' = SetPrefix(metric, s) /\ named' = s \o named
    <3>1. metric' = [metric EXCEPT !.name = Escape(s, NameChars) \o metric.name]
      BY <2>3 DEF SetPrefix
    <3>2. Escape(s, NameChars) \o metric.name = Escape(s \o n, NameChars)
      BY <2>1, <2>2, EscapeConcat
    <3>3. s \o n \in Text
      BY <2>1, <2>2, TextBoth
    <3>4. metric' = [metric EXCEPT !.name = Escape(s \o n, NameChars)] /\ named' = s \o n
      BY <2>1, <2>3, <3>1, <3>2
    <3> QED
      BY <1>5, <2>2, <3>3, <3>4
  <2>4. CASE metric' = SetSuffix(metric, s) /\ named' = named \o s
    <3>1. metric' = [metric EXCEPT !.name = metric.name \o Escape(s, NameChars)]
      BY <2>4 DEF SetSuffix
    <3>2. metric.name \o Escape(s, NameChars) = Escape(n \o s, NameChars)
      <4>1. Escape(n \o s, NameChars) = Escape(n, NameChars) \o Escape(s, NameChars)
        BY <2>1, <2>2, EscapeConcat
      <4> QED
        BY <2>1, <4>1
    <3>3. n \o s \in Text
      BY <2>1, <2>2, TextBoth
    <3>4. metric' = [metric EXCEPT !.name = Escape(n \o s, NameChars)] /\ named' = n \o s
      BY <2>1, <2>4, <3>1, <3>2
    <3> QED
      BY <1>5, <2>2, <3>3, <3>4
  <2> QED
    BY <1>7, <2>3, <2>4 DEF CallAffix, Call
<1>8. CASE UNCHANGED metricVars
  BY <1>8 DEF metricVars
<1> QED
  BY <1>1, <1>2, <1>3, <1>4, <1>6, <1>7, <1>8 DEF MetricNext

\* After any number of calls, Name, Tags and Fields give what the user put in,
\* for texts of any length and of any bytes that the line protocol can carry.
THEOREM ReadsBackAlways == MetricSpec => []ReadsBack
<1>1. MetricInit => MetricInv
  BY InvInit
<1>2. MetricInv /\ [MetricNext]_metricVars => MetricInv'
  BY InvNext
<1>3. MetricInv => ReadsBack
  BY InvReads
<1> QED
  BY <1>1, <1>2, <1>3, PTL DEF MetricSpec

=============================================================================
