----------------------------- MODULE ReaderProofs -----------------------------
(***************************************************************************)
(* The reader of a batch of metrics and the writes that share it, for any   *)
(* batch, any sizes of buffers and any number of servers.                  *)
(***************************************************************************)
EXTENDS InfluxWrite, NaturalsInduction, WellFoundedInduction,
        SequenceTheorems, TLAPS

---------------------------------------------------------------------------
(* Numbers. *)

\* A set of numbers with 0 that has the next of each of its numbers below n
\* has them all up to n.
LEMMA UpTo ==
  ASSUME NEW n \in Nat, NEW G, 0 \in G, \A k \in 1..n : k - 1 \in G => k \in G
  PROVE  \A k \in 0..n : k \in G
<1> DEFINE R == OpToRel(<, Nat)
           Bad == (0..n) \ G
<1> SUFFICES ASSUME Bad # {}
             PROVE  FALSE
  OBVIOUS
<1>1. IsWellFoundedOn(R, Nat)
  BY NatLessThanWellFounded
<1>2. \A x, y \in Nat : x < y => <<x, y>> \in R
  BY DEF OpToRel
<1> HIDE DEF R
<1>3. PICK x \in Bad : \A y \in Bad : ~(<<y, x>> \in R)
  <2>1. Bad \subseteq Nat
    OBVIOUS
  <2> HIDE DEF Bad
  <2> QED
    BY <1>1, <2>1, WFMin
<1>4. x \in 1..n /\ x - 1 \in 0..n /\ x - 1 < x
  OBVIOUS
<1>5. <<x - 1, x>> \in R
  BY <1>2, <1>4
<1>6. x - 1 \notin Bad
  BY <1>3, <1>5
<1>7. x - 1 \in G
  BY <1>4, <1>6
<1> QED
  BY <1>4, <1>7

\* A nonempty set of numbers up to n has a last one.
LEMMA LastOf ==
  ASSUME NEW n \in Nat, NEW S \in SUBSET (1..n), S # {}
  PROVE  /\ Max(S) \in S /\ \A j \in S : j <= Max(S)
<1> DEFINE G == {k \in 0..n : \A T \in SUBSET (1..k) : T # {} => \E m \in T : \A j \in T : j <= m}
<1>1. 0 \in G
  <2>1. 0 \in 0..n /\ 1..0 = {}
    OBVIOUS
  <2>2. \A T \in SUBSET (1..0) : T = {}
    BY <2>1
  <2>3. \A T \in SUBSET (1..0) : T # {} => \E m \in T : \A j \in T : j <= m
    BY <2>2
  <2> QED
    BY <2>1, <2>3
<1>2. ASSUME NEW k \in 1..n, k - 1 \in G
      PROVE  k \in G
  <2> SUFFICES ASSUME NEW T \in SUBSET (1..k), T # {}
               PROVE  \E m \in T : \A j \in T : j <= m
    OBVIOUS
  <2>1. CASE k \in T
    BY <2>1
  <2>2. CASE k \notin T
    <3>1. T \in SUBSET (1..(k - 1))
      BY <2>2
    <3> QED
      BY <1>2, <3>1
  <2> QED
    BY <2>1, <2>2
<1> HIDE DEF G
<1>3. n \in G
  BY <1>1, <1>2, UpTo
<1>4. \E m \in S : \A j \in S : m >= j
  BY <1>3 DEF G
<1>5. Max(S) \in S /\ \A j \in S : Max(S) >= j
  BY <1>4 DEF Max
<1> QED
  BY <1>5

\* The last of a set of numbers up to k that has k.
LEMMA LastIs ==
  ASSUME NEW k \in Nat \ {0}, NEW S \in SUBSET (1..k), k \in S
  PROVE  Max(S) = k
<1>1. Max(S) \in S /\ \A j \in S : j <= Max(S)
  BY LastOf
<1>2. k <= Max(S) /\ Max(S) \in 1..k
  BY <1>1
<1> QED
  BY <1>2

LEMMA LastOfRange ==
  ASSUME NEW k \in Nat \ {0}
  PROVE  Max(1..k) = k /\ (1..k) \ {k} = 1..(k - 1)
<1>1. 1..k \in SUBSET (1..k) /\ k \in 1..k
  OBVIOUS
<1>2. Max(1..k) = k
  BY <1>1, LastIs
<1> QED
  BY <1>2

---------------------------------------------------------------------------
(* Folds: what the library's FoldLeft of a sum and of Take come to. *)

\* How the library adds the numbers g[1], g[2] and so on to b.
SumOne(s, n) == s + n
SumFolds(it, b, g, S) ==
  it = [s \in SUBSET S |-> IF s = {} THEN b
                           ELSE SumOne(it[s \ {Max(s)}], g[Max(s)])]
SumFold(b, g, S) == (CHOOSE it : SumFolds(it, b, g, S))[S]

LEMMA SumIntro ==
  ASSUME NEW S, NEW b, NEW g, NEW it, it = [s \in SUBSET S |-> it[s]],
         it[{}] = b,
         \A s \in SUBSET S : s # {} => it[s] = SumOne(it[s \ {Max(s)}], g[Max(s)])
  PROVE  SumFolds(it, b, g, S)
BY Zenon DEF SumFolds

LEMMA SumDef ==
  \A S, b, g, it : SumFolds(it, b, g, S) =>
    /\ it[{}] = b
    /\ \A s \in SUBSET S : s # {} => it[s] = SumOne(it[s \ {Max(s)}], g[Max(s)])
<1> SUFFICES ASSUME NEW S, NEW b, NEW g, NEW it, SumFolds(it, b, g, S)
             PROVE  /\ it[{}] = b
                    /\ \A s \in SUBSET S : s # {} => it[s] = SumOne(it[s \ {Max(s)}], g[Max(s)])
  OBVIOUS
<1>1. it = [s \in SUBSET S |-> IF s = {} THEN b ELSE SumOne(it[s \ {Max(s)}], g[Max(s)])]
  BY DEF SumFolds
<1>2. {} \in SUBSET S
  OBVIOUS
<1>3. \A s \in SUBSET S : it[s] = IF s = {} THEN b ELSE SumOne(it[s \ {Max(s)}], g[Max(s)])
  BY <1>1, Zenon
<1> QED
  BY <1>2, <1>3

\* There is such a function.
LEMMA SumExists ==
  ASSUME NEW n \in Nat, NEW b, NEW g
  PROVE  \E it : SumFolds(it, b, g, 1..n)
<1> DEFINE G == {k \in 0..n : \E it : SumFolds(it, b, g, 1..k)}
<1>1. 0 \in G
  <2> DEFINE it == [s \in SUBSET (1..0) |-> b]
  <2>1. SUBSET (1..0) = {{}}
    OBVIOUS
  <2>2. it[{}] = b /\ it = [s \in SUBSET (1..0) |-> it[s]]
    BY <2>1
  <2> HIDE DEF it
  <2>3. SumFolds(it, b, g, 1..0)
    BY <2>1, <2>2, SumIntro
  <2> QED
    BY <2>3
<1>2. ASSUME NEW k \in 1..n, k - 1 \in G
      PROVE  k \in G
  <2>1. PICK old : SumFolds(old, b, g, 1..(k - 1))
    BY <1>2
  <2> DEFINE it == [s \in SUBSET (1..k) |->
                      IF k \in s THEN SumOne(old[s \ {k}], g[k]) ELSE old[s]]
  <2>2. /\ old[{}] = b
        /\ \A s \in SUBSET (1..(k - 1)) : s # {} =>
             old[s] = SumOne(old[s \ {Max(s)}], g[Max(s)])
    <3> DEFINE D == 1..(k - 1)
    <3>1. SumFolds(old, b, g, D)
      BY <2>1
    <3> HIDE DEF D
    <3>2. /\ old[{}] = b
          /\ \A s \in SUBSET D : s # {} => old[s] = SumOne(old[s \ {Max(s)}], g[Max(s)])
      BY <3>1, SumDef
    <3> QED
      BY <3>2 DEF D
  <2>3. \A s \in SUBSET (1..k) :
          it[s] = IF k \in s THEN SumOne(old[s \ {k}], g[k]) ELSE old[s]
    OBVIOUS
  <2>4. it = [s \in SUBSET (1..k) |-> it[s]]
    OBVIOUS
  <2> HIDE DEF it
  <2>5. it[{}] = b
    BY <2>2, <2>3
  <2>6. ASSUME NEW s \in SUBSET (1..k), s # {}
        PROVE  it[s] = SumOne(it[s \ {Max(s)}], g[Max(s)])
    <3>1. CASE k \in s
      <4>1. Max(s) = k
        BY <3>1, LastIs
      <4>2. it[s \ {k}] = old[s \ {k}]
        BY <2>3
      <4>3. it[s] = SumOne(old[s \ {k}], g[k])
        BY <2>3, <3>1
      <4> QED
        BY <4>1, <4>2, <4>3
    <3>2. CASE k \notin s
      <4>1. s \in SUBSET (1..(k - 1)) /\ s \ {Max(s)} \in SUBSET (1..k)
        <5>1. \A j \in s : j \in 1..(k - 1)
          BY <3>2
        <5> QED
          BY <5>1
      <4>2. it[s] = old[s] /\ it[s \ {Max(s)}] = old[s \ {Max(s)}]
        BY <2>3, <3>2, <4>1
      <4>3. old[s] = SumOne(old[s \ {Max(s)}], g[Max(s)])
        BY <2>2, <2>6, <4>1
      <4> QED
        BY <4>2, <4>3
    <3> QED
      BY <3>1, <3>2
  <2>7. SumFolds(it, b, g, 1..k)
    BY <2>4, <2>5, <2>6, SumIntro
  <2> QED
    BY <2>7
<1> HIDE DEF G
<1>3. n \in G
  BY <1>1, <1>2, UpTo
<1> QED
  BY <1>3 DEF G

\* The sum of 1 to k is one step from that of 1 to k - 1.
SumSteps(it, b, g, n) ==
  it[1..0] = b /\ \A k \in 1..n : it[1..k] = SumOne(it[1..(k - 1)], g[k])
LEMMA SumNext ==
  ASSUME NEW n \in Nat, NEW b, NEW g
  PROVE  \E it : SumFold(b, g, 1..n) = it[1..n] /\ SumSteps(it, b, g, n)
<1> DEFINE chosen == CHOOSE it : SumFolds(it, b, g, 1..n)
<1>0. SumFolds(chosen, b, g, 1..n) /\ SumFold(b, g, 1..n) = chosen[1..n]
  BY SumExists DEF SumFold
<1> HIDE DEF chosen
<1>1. PICK sofar : SumFolds(sofar, b, g, 1..n) /\ SumFold(b, g, 1..n) = sofar[1..n]
  BY <1>0
<1>3. /\ sofar[{}] = b
      /\ \A s \in SUBSET (1..n) : s # {} => sofar[s] = SumOne(sofar[s \ {Max(s)}], g[Max(s)])
  <2>1. sofar = [s \in SUBSET (1..n) |-> IF s = {} THEN b ELSE SumOne(sofar[s \ {Max(s)}], g[Max(s)])]
    BY <1>1 DEF SumFolds
  <2>2. {} \in SUBSET (1..n)
    OBVIOUS
  <2>3. \A s \in SUBSET (1..n) : sofar[s] = IF s = {} THEN b ELSE SumOne(sofar[s \ {Max(s)}], g[Max(s)])
    BY <2>1, Zenon
  <2> QED
    BY <2>2, <2>3
<1>4. sofar[1..0] = b
  <2>1. 1..0 = {}
    OBVIOUS
  <2> QED
    BY <1>3, <2>1
<1>5. ASSUME NEW k \in 1..n
      PROVE  sofar[1..k] = SumOne(sofar[1..(k - 1)], g[k])
  <2>1. Max(1..k) = k /\ (1..k) \ {k} = 1..(k - 1)
    BY LastOfRange
  <2>2. 1..k \in SUBSET (1..n) /\ 1..k # {}
    OBVIOUS
  <2>3. sofar[1..k] = SumOne(sofar[(1..k) \ {Max(1..k)}], g[Max(1..k)])
    BY <1>3, <2>2
  <2> QED
    BY <2>1, <2>3
<1>6. SumSteps(sofar, b, g, n)
  BY <1>4, <1>5 DEF SumSteps
<1> QED
  BY <1>1, <1>6

\* Take, in Cut of metric m for p bytes and c more in each line.
TakeOne(m, p, c, s, j) ==
  IF /\ j > s.from
     /\ metrics[m].fields[j] + FieldBytes(m, s.from, j - 1) + c >= p
  THEN [done |-> Append(s.done, Line(m, s.from, j - 1)), from |-> j]
  ELSE s
Nothing == [done |-> <<>>, from |-> 1]

\* How the library folds it over the fields g[1], g[2] and so on.
TakeFolds(it, m, p, c, g, S) ==
  it = [s \in SUBSET S |-> IF s = {} THEN Nothing
                           ELSE TakeOne(m, p, c, it[s \ {Max(s)}], g[Max(s)])]
TakeFold(m, p, c, g, S) == (CHOOSE it : TakeFolds(it, m, p, c, g, S))[S]

LEMMA TakeIntro ==
  ASSUME NEW S, NEW m, NEW p, NEW c, NEW g, NEW it, it = [s \in SUBSET S |-> it[s]],
         it[{}] = Nothing,
         \A s \in SUBSET S : s # {} => it[s] = TakeOne(m, p, c, it[s \ {Max(s)}], g[Max(s)])
  PROVE  TakeFolds(it, m, p, c, g, S)
BY Zenon DEF TakeFolds

LEMMA TakeDef ==
  \A S, m, p, c, g, it : TakeFolds(it, m, p, c, g, S) =>
    /\ it[{}] = Nothing
    /\ \A s \in SUBSET S : s # {} => it[s] = TakeOne(m, p, c, it[s \ {Max(s)}], g[Max(s)])
<1> SUFFICES ASSUME NEW S, NEW m, NEW p, NEW c, NEW g, NEW it, TakeFolds(it, m, p, c, g, S)
             PROVE  /\ it[{}] = Nothing
                    /\ \A s \in SUBSET S : s # {} => it[s] = TakeOne(m, p, c, it[s \ {Max(s)}], g[Max(s)])
  OBVIOUS
<1>1. it = [s \in SUBSET S |-> IF s = {} THEN Nothing ELSE TakeOne(m, p, c, it[s \ {Max(s)}], g[Max(s)])]
  BY DEF TakeFolds
<1>2. {} \in SUBSET S
  OBVIOUS
<1>3. \A s \in SUBSET S : it[s] = IF s = {} THEN Nothing ELSE TakeOne(m, p, c, it[s \ {Max(s)}], g[Max(s)])
  BY <1>1, Zenon
<1> QED
  BY <1>2, <1>3

\* There is such a function.
LEMMA TakeExists ==
  ASSUME NEW n \in Nat, NEW m, NEW p, NEW c, NEW g
  PROVE  \E it : TakeFolds(it, m, p, c, g, 1..n)
<1> DEFINE G == {k \in 0..n : \E it : TakeFolds(it, m, p, c, g, 1..k)}
<1>1. 0 \in G
  <2> DEFINE it == [s \in SUBSET (1..0) |-> Nothing]
  <2>1. SUBSET (1..0) = {{}}
    OBVIOUS
  <2>2. it[{}] = Nothing /\ it = [s \in SUBSET (1..0) |-> it[s]]
    BY <2>1
  <2> HIDE DEF it
  <2>3. TakeFolds(it, m, p, c, g, 1..0)
    BY <2>1, <2>2, TakeIntro
  <2> QED
    BY <2>3
<1>2. ASSUME NEW k \in 1..n, k - 1 \in G
      PROVE  k \in G
  <2>1. PICK old : TakeFolds(old, m, p, c, g, 1..(k - 1))
    BY <1>2
  <2> DEFINE it == [s \in SUBSET (1..k) |->
                      IF k \in s THEN TakeOne(m, p, c, old[s \ {k}], g[k]) ELSE old[s]]
  <2>2. /\ old[{}] = Nothing
        /\ \A s \in SUBSET (1..(k - 1)) : s # {} =>
             old[s] = TakeOne(m, p, c, old[s \ {Max(s)}], g[Max(s)])
    <3> DEFINE D == 1..(k - 1)
    <3>1. TakeFolds(old, m, p, c, g, D)
      BY <2>1
    <3> HIDE DEF D
    <3>2. /\ old[{}] = Nothing
          /\ \A s \in SUBSET D : s # {} => old[s] = TakeOne(m, p, c, old[s \ {Max(s)}], g[Max(s)])
      BY <3>1, TakeDef
    <3> QED
      BY <3>2 DEF D
  <2>3. \A s \in SUBSET (1..k) :
          it[s] = IF k \in s THEN TakeOne(m, p, c, old[s \ {k}], g[k]) ELSE old[s]
    OBVIOUS
  <2>4. it = [s \in SUBSET (1..k) |-> it[s]]
    OBVIOUS
  <2> HIDE DEF it
  <2>5. it[{}] = Nothing
    BY <2>2, <2>3
  <2>6. ASSUME NEW s \in SUBSET (1..k), s # {}
        PROVE  it[s] = TakeOne(m, p, c, it[s \ {Max(s)}], g[Max(s)])
    <3>1. CASE k \in s
      <4>1. Max(s) = k
        BY <3>1, LastIs
      <4>2. it[s \ {k}] = old[s \ {k}]
        BY <2>3
      <4>3. it[s] = TakeOne(m, p, c, old[s \ {k}], g[k])
        BY <2>3, <3>1
      <4> QED
        BY <4>1, <4>2, <4>3
    <3>2. CASE k \notin s
      <4>1. s \in SUBSET (1..(k - 1)) /\ s \ {Max(s)} \in SUBSET (1..k)
        <5>1. \A j \in s : j \in 1..(k - 1)
          BY <3>2
        <5> QED
          BY <5>1
      <4>2. it[s] = old[s] /\ it[s \ {Max(s)}] = old[s \ {Max(s)}]
        BY <2>3, <3>2, <4>1
      <4>3. old[s] = TakeOne(m, p, c, old[s \ {Max(s)}], g[Max(s)])
        BY <2>2, <2>6, <4>1
      <4> QED
        BY <4>2, <4>3
    <3> QED
      BY <3>1, <3>2
  <2>7. TakeFolds(it, m, p, c, g, 1..k)
    BY <2>4, <2>5, <2>6, TakeIntro
  <2> QED
    BY <2>7
<1> HIDE DEF G
<1>3. n \in G
  BY <1>1, <1>2, UpTo
<1> QED
  BY <1>3 DEF G

\* The lines cut at fields 1 to k are one step from those at 1 to k - 1.
TakeSteps(it, m, p, c, g, n) ==
  it[1..0] = Nothing /\ \A k \in 1..n : it[1..k] = TakeOne(m, p, c, it[1..(k - 1)], g[k])
LEMMA TakeNext ==
  ASSUME NEW n \in Nat, NEW m, NEW p, NEW c, NEW g
  PROVE  \E it : TakeFold(m, p, c, g, 1..n) = it[1..n] /\ TakeSteps(it, m, p, c, g, n)
<1> DEFINE chosen == CHOOSE it : TakeFolds(it, m, p, c, g, 1..n)
<1>0. TakeFolds(chosen, m, p, c, g, 1..n) /\ TakeFold(m, p, c, g, 1..n) = chosen[1..n]
  BY TakeExists DEF TakeFold
<1> HIDE DEF chosen
<1>1. PICK sofar : TakeFolds(sofar, m, p, c, g, 1..n) /\ TakeFold(m, p, c, g, 1..n) = sofar[1..n]
  BY <1>0
<1>3. /\ sofar[{}] = Nothing
      /\ \A s \in SUBSET (1..n) : s # {} => sofar[s] = TakeOne(m, p, c, sofar[s \ {Max(s)}], g[Max(s)])
  <2>1. sofar = [s \in SUBSET (1..n) |-> IF s = {} THEN Nothing ELSE TakeOne(m, p, c, sofar[s \ {Max(s)}], g[Max(s)])]
    BY <1>1 DEF TakeFolds
  <2>2. {} \in SUBSET (1..n)
    OBVIOUS
  <2>3. \A s \in SUBSET (1..n) : sofar[s] = IF s = {} THEN Nothing ELSE TakeOne(m, p, c, sofar[s \ {Max(s)}], g[Max(s)])
    BY <2>1, Zenon
  <2> QED
    BY <2>2, <2>3
<1>4. sofar[1..0] = Nothing
  <2>1. 1..0 = {}
    OBVIOUS
  <2> QED
    BY <1>3, <2>1
<1>5. ASSUME NEW k \in 1..n
      PROVE  sofar[1..k] = TakeOne(m, p, c, sofar[1..(k - 1)], g[k])
  <2>1. Max(1..k) = k /\ (1..k) \ {k} = 1..(k - 1)
    BY LastOfRange
  <2>2. 1..k \in SUBSET (1..n) /\ 1..k # {}
    OBVIOUS
  <2>3. sofar[1..k] = TakeOne(m, p, c, sofar[(1..k) \ {Max(1..k)}], g[Max(1..k)])
    BY <1>3, <2>2
  <2> QED
    BY <2>1, <2>3
<1>6. TakeSteps(sofar, m, p, c, g, n)
  BY <1>4, <1>5 DEF TakeSteps
<1> QED
  BY <1>1, <1>6

---------------------------------------------------------------------------
(* Sums of numbers, and what Split returns. *)

\* Numbers add up to a number.
LEMMA SumType ==
  ASSUME NEW n \in Nat, NEW b \in Nat, NEW g, \A k \in 1..n : g[k] \in Nat
  PROVE  SumFold(b, g, 1..n) \in Nat
<1>0. PICK sofar : SumFold(b, g, 1..n) = sofar[1..n] /\ SumSteps(sofar, b, g, n)
  BY SumNext
<1>1. /\ SumFold(b, g, 1..n) = sofar[1..n]
      /\ sofar[1..0] = b
      /\ \A k \in 1..n : sofar[1..k] = SumOne(sofar[1..(k - 1)], g[k])
  BY <1>0 DEF SumSteps
<1> DEFINE G == {k \in 0..n : sofar[1..k] \in Nat}
<1>2. 0 \in G
  BY <1>1
<1>3. ASSUME NEW k \in 1..n, k - 1 \in G
      PROVE  k \in G
  <2>1. sofar[1..(k - 1)] \in Nat /\ g[k] \in Nat
    BY <1>3
  <2>2. sofar[1..k] = sofar[1..(k - 1)] + g[k]
    BY <1>1 DEF SumOne
  <2> QED
    BY <2>1, <2>2
<1> HIDE DEF G
<1>4. n \in G
  BY <1>2, <1>3, UpTo
<1> QED
  BY <1>1, <1>4 DEF G

\* The sum of a single number.
LEMMA SumOfOne ==
  ASSUME NEW g, g[1] \in Nat
  PROVE  SumFold(0, g, 1..1) = g[1]
<1>0. PICK sofar : SumFold(0, g, 1..1) = sofar[1..1] /\ SumSteps(sofar, 0, g, 1)
  BY SumNext
<1>1. /\ SumFold(0, g, 1..1) = sofar[1..1]
      /\ sofar[1..0] = 0
      /\ \A k \in 1..1 : sofar[1..k] = SumOne(sofar[1..(k - 1)], g[k])
  BY <1>0 DEF SumSteps
<1>2. sofar[1..1] = SumOne(sofar[1..0], g[1])
  <2>1. 1 \in 1..1 /\ 1 - 1 = 0
    OBVIOUS
  <2>2. sofar[1..1] = SumOne(sofar[1..(1 - 1)], g[1])
    BY <1>1, <2>1
  <2> QED
    BY <2>1, <2>2
<1>3. sofar[1..1] = 0 + g[1]
  BY <1>1, <1>2 DEF SumOne
<1> QED
  BY <1>1, <1>3

\* One number more, and one more to begin with.
LEMMA SumMore ==
  ASSUME NEW n \in Nat \ {0}, NEW b \in Nat, NEW g, NEW h,
         \A k \in 1..n : h[k] \in Nat, \A k \in 1..(n - 1) : g[k] = h[k]
  PROVE  SumFold(b + 1, h, 1..n) = SumFold(b, g, 1..(n - 1)) + 1 + h[n]
<1>8. n \in Nat /\ n - 1 \in Nat
  OBVIOUS
<1>9. PICK x : SumFold(b + 1, h, 1..n) = x[1..n] /\ SumSteps(x, b + 1, h, n)
  BY <1>8, SumNext
<1>10. PICK y : SumFold(b, g, 1..(n - 1)) = y[1..(n - 1)] /\ SumSteps(y, b, g, n - 1)
  BY <1>8, SumNext
<1>1. /\ SumFold(b + 1, h, 1..n) = x[1..n]
      /\ x[1..0] = b + 1
      /\ \A k \in 1..n : x[1..k] = SumOne(x[1..(k - 1)], h[k])
  BY <1>9 DEF SumSteps
<1>2. /\ SumFold(b, g, 1..(n - 1)) = y[1..(n - 1)]
      /\ y[1..0] = b
      /\ \A k \in 1..(n - 1) : y[1..k] = SumOne(y[1..(k - 1)], g[k])
  BY <1>10 DEF SumSteps
<1> DEFINE G == {k \in 0..(n - 1) : y[1..k] \in Nat /\ x[1..k] = y[1..k] + 1}
<1>3. 0 \in G
  BY <1>1, <1>2
<1>4. ASSUME NEW k \in 1..(n - 1), k - 1 \in G
      PROVE  k \in G
  <2>1. y[1..(k - 1)] \in Nat /\ x[1..(k - 1)] = y[1..(k - 1)] + 1
    BY <1>4
  <2>2. k \in 1..n /\ h[k] \in Nat /\ g[k] = h[k]
    OBVIOUS
  <2>3. x[1..k] = x[1..(k - 1)] + h[k] /\ y[1..k] = y[1..(k - 1)] + h[k]
    BY <1>1, <1>2, <2>2 DEF SumOne
  <2> QED
    BY <2>1, <2>2, <2>3
<1> HIDE DEF G
<1>5. n - 1 \in G
  <2>1. n - 1 \in Nat /\ n - 1 \in 0..(n - 1)
    OBVIOUS
  <2> QED
    BY <1>3, <1>4, <2>1, UpTo
<1>6. y[1..(n - 1)] \in Nat /\ x[1..(n - 1)] = y[1..(n - 1)] + 1
  BY <1>5 DEF G
<1>7. x[1..n] = x[1..(n - 1)] + h[n] /\ h[n] \in Nat
  BY <1>1 DEF SumOne
<1> QED
  BY <1>1, <1>2, <1>6, <1>7

\* The batch is one NewReader may be given.
Given == metrics \in Batches

LEMMA GivenType ==
  ASSUME Given
  PROVE  /\ metrics \in Seq([const : Nat \ {0}, fields : Seq(Nat \ {0}) \ {<<>>}])
         /\ Len(metrics) \in Nat \ {0} /\ DOMAIN metrics = 1..Len(metrics)
         /\ \A m \in 1..Len(metrics) :
              /\ metrics[m].const \in Nat
              /\ NumFields(m) \in Nat \ {0}
              /\ metrics[m].fields \in Seq(Nat) /\ NumFields(m) = Len(metrics[m].fields)
              /\ \A j \in 1..NumFields(m) : metrics[m].fields[j] \in Nat
<1>1. metrics \in Seq([const : Nat \ {0}, fields : Seq(Nat \ {0}) \ {<<>>}]) /\ metrics # <<>>
  BY BatchesAssumption DEF Given
<1>2. ASSUME NEW m \in 1..Len(metrics)
      PROVE  /\ metrics[m].const \in Nat
             /\ NumFields(m) \in Nat \ {0}
             /\ metrics[m].fields \in Seq(Nat) /\ NumFields(m) = Len(metrics[m].fields)
             /\ \A j \in 1..NumFields(m) : metrics[m].fields[j] \in Nat
  <2> DEFINE M == [const : Nat \ {0}, fields : Seq(Nat \ {0}) \ {<<>>}]
  <2>3. metrics \in Seq(M)
    BY <1>1
  <2> HIDE DEF M
  <2>4. metrics[m] \in M
    BY <2>3
  <2>1. metrics[m] \in [const : Nat \ {0}, fields : Seq(Nat \ {0}) \ {<<>>}]
    BY <2>4 DEF M
  <2>2. metrics[m].const \in Nat /\ metrics[m].fields \in Seq(Nat \ {0}) /\ metrics[m].fields # <<>>
    BY <2>1
  <2> QED
    BY <2>2 DEF NumFields
<1> QED
  BY <1>1, <1>2

\* What FieldBytes adds up.
LEMMA FieldBytesFolds ==
  ASSUME NEW m, NEW a, NEW b
  PROVE  FieldBytes(m, a, b) =
           IF b < a THEN 0
           ELSE SumFold(b - a, SubSeq(metrics[m].fields, a, b),
                        DOMAIN SubSeq(metrics[m].fields, a, b))
BY Zenon DEF FieldBytes, FoldLeft, MapThenFoldSet, SumFold, SumFolds, SumOne

LEMMA FieldBytesNext ==
  ASSUME Given, NEW m \in 1..Len(metrics), NEW a \in 1..NumFields(m)
  PROVE  /\ \A b \in 0..NumFields(m) : FieldBytes(m, a, b) \in Nat
         /\ \A b \in (a + 1)..NumFields(m) :
              FieldBytes(m, a, b) = FieldBytes(m, a, b - 1) + 1 + metrics[m].fields[b]
<1> DEFINE F == metrics[m].fields
           N == NumFields(m)
           S(b) == SubSeq(F, a, b)
<1>1. F \in Seq(Nat) /\ N \in Nat \ {0} /\ N = Len(F) /\ \A j \in 1..N : F[j] \in Nat
  BY GivenType
<1> HIDE DEF F, N
<1>2. a \in 1..N
  BY DEF N
<1>3. ASSUME NEW b \in a..N
      PROVE  /\ DOMAIN S(b) = 1..(b - a + 1) /\ b - a \in Nat
             /\ \A k \in 1..(b - a + 1) : S(b)[k] = F[a + k - 1] /\ F[a + k - 1] \in Nat
  <2>1. b \in Nat /\ a \in Nat /\ a <= b /\ 1 <= a /\ b <= N
    BY <1>1, <1>2
  <2>2. \A k \in 1..(b - a + 1) : a + k - 1 \in 1..N
    BY <1>1, <2>1
  <2>3. S(b) = [k \in 1..(b - a + 1) |-> F[a + k - 1]]
    BY <1>1, <2>1
  <2>4. \A k \in 1..(b - a + 1) : F[a + k - 1] \in Nat
    BY <1>1, <2>2
  <2> HIDE DEF S
  <2>5. DOMAIN S(b) = 1..(b - a + 1) /\ \A k \in 1..(b - a + 1) : S(b)[k] = F[a + k - 1]
    BY <2>3
  <2>6. b - a \in Nat
    BY <2>1
  <2> QED
    BY <2>4, <2>5, <2>6
<1> HIDE DEF S
<1>4. ASSUME NEW b \in a..N
      PROVE  FieldBytes(m, a, b) = SumFold(b - a, S(b), 1..(b - a + 1))
  <2>1. ~(b < a)
    BY <1>1, <1>2
  <2> QED
    BY <1>3, <2>1, FieldBytesFolds DEF S, F
<1>5. ASSUME NEW b \in 0..N
      PROVE  FieldBytes(m, a, b) \in Nat
  <2>1. CASE b < a
    BY <2>1, FieldBytesFolds
  <2>2. CASE b >= a
    <3>1. b \in a..N /\ b - a + 1 \in Nat
      BY <1>1, <1>2, <2>2
    <3>2. b - a \in Nat /\ \A k \in 1..(b - a + 1) : S(b)[k] \in Nat
      BY <1>3, <3>1
    <3>3. SumFold(b - a, S(b), 1..(b - a + 1)) \in Nat
      BY <3>1, <3>2, SumType
    <3> QED
      BY <1>4, <3>1, <3>3
  <2> QED
    BY <1>1, <1>2, <2>1, <2>2
<1>6. ASSUME NEW b \in (a + 1)..N
      PROVE  FieldBytes(m, a, b) = FieldBytes(m, a, b - 1) + 1 + F[b]
  <2> DEFINE n == b - a + 1
             c == (b - 1) - a
  <2>1. /\ b \in a..N /\ b - 1 \in a..N /\ n \in Nat \ {0} /\ c \in Nat
        /\ (b - 1) - a + 1 = n - 1 /\ c + 1 = b - a /\ a + n - 1 = b /\ n \in 1..n
    BY <1>1, <1>2
  <2>2. \A k \in 1..n : S(b)[k] = F[a + k - 1] /\ S(b)[k] \in Nat
    BY <1>3, <2>1
  <2>3. \A k \in 1..(n - 1) : S(b - 1)[k] = S(b)[k]
    <3>1. \A k \in 1..(n - 1) : S(b - 1)[k] = F[a + k - 1]
      BY <1>3, <2>1
    <3>2. \A k \in 1..(n - 1) : k \in 1..n
      BY <2>1
    <3> QED
      BY <2>2, <3>1, <3>2
  <2>4. S(b)[n] = F[b]
    BY <2>1, <2>2
  <2>5. FieldBytes(m, a, b) = SumFold(c + 1, S(b), 1..n)
    BY <1>4, <2>1
  <2>6. FieldBytes(m, a, b - 1) = SumFold(c, S(b - 1), 1..(n - 1))
    BY <1>4, <2>1
  <2> HIDE DEF n, c
  <2>7. SumFold(c + 1, S(b), 1..n) = SumFold(c, S(b - 1), 1..(n - 1)) + 1 + S(b)[n]
    BY <2>1, <2>2, <2>3, SumMore
  <2> QED
    BY <2>4, <2>5, <2>6, <2>7
<1> QED
  BY <1>5, <1>6 DEF N, F

\* Lines of some fields of metric m, and sequences of them that carry its
\* fields one after the other: up to the one before from, or all.
Lines(m) == {l \in [metric : {m}, first : 1..NumFields(m), last : 1..NumFields(m)] :
               l.first <= l.last}
InTurn(d) == \A i \in 1..(Len(d) - 1) : d[i + 1].first = d[i].last + 1
Pieces(d, m) ==
  /\ d \in Seq(Lines(m)) /\ d # <<>>
  /\ d[1].first = 1 /\ d[Len(d)].last = NumFields(m)
  /\ InTurn(d)
Fits(l, p) == LenOf(l) <= p \/ l.first = l.last
Covers(d, m, from, p) ==
  /\ d \in Seq(Lines(m)) /\ \A i \in 1..Len(d) : Fits(d[i], p)
  /\ d = <<>> => from = 1
  /\ d # <<>> => d[1].first = 1 /\ d[Len(d)].last = from - 1
  /\ InTurn(d)

LEMMA LineType ==
  ASSUME Given, NEW m \in 1..Len(metrics), NEW l \in Lines(m)
  PROVE  /\ LenOf(l) \in Nat
         /\ l.metric = m /\ l.first \in 1..NumFields(m) /\ l.last \in l.first..NumFields(m)
<1>1. /\ NumFields(m) \in Nat \ {0} /\ metrics[m].const \in Nat
  BY GivenType
<1>2. /\ l.metric = m /\ l.first \in 1..NumFields(m) /\ l.last \in 1..NumFields(m)
      /\ l.first <= l.last
  BY DEF Lines
<1>3. l.last \in 0..NumFields(m)
  BY <1>1, <1>2
<1>4. FieldBytes(m, l.first, l.last) \in Nat
  BY <1>2, <1>3, FieldBytesNext
<1>5. LenOf(l) = metrics[m].const + FieldBytes(m, l.first, l.last)
  BY <1>2 DEF LenOf
<1> QED
  BY <1>1, <1>2, <1>4, <1>5

LEMMA LineIs ==
  ASSUME Given, NEW m \in 1..Len(metrics), NEW a \in 1..NumFields(m), NEW b \in a..NumFields(m)
  PROVE  /\ Line(m, a, b) \in Lines(m)
         /\ Line(m, a, b).first = a /\ Line(m, a, b).last = b /\ Line(m, a, b).metric = m
         /\ LenOf(Line(m, a, b)) = metrics[m].const + FieldBytes(m, a, b)
<1>1. NumFields(m) \in Nat \ {0}
  BY GivenType
<1>2. b \in 1..NumFields(m) /\ a <= b
  BY <1>1
<1> QED
  BY <1>2 DEF Line, Lines, LenOf

LEMMA WholeIs ==
  ASSUME Given, NEW m \in 1..Len(metrics)
  PROVE  /\ Whole(m) \in Lines(m)
         /\ Whole(m).first = 1 /\ Whole(m).last = NumFields(m) /\ Whole(m).metric = m
         /\ LenOf(Whole(m)) \in Nat
<1>1. 1 \in 1..NumFields(m) /\ NumFields(m) \in 1..NumFields(m)
  BY GivenType
<1> QED
  BY <1>1, LineIs, LineType DEF Whole

\* A piece more.
LEMMA CoversMore ==
  ASSUME Given, NEW m \in 1..Len(metrics), NEW p, NEW d, NEW from \in 1..NumFields(m),
         Covers(d, m, from, p), NEW last \in from..NumFields(m),
         Fits(Line(m, from, last), p)
  PROVE  Covers(Append(d, Line(m, from, last)), m, last + 1, p)
<1> DEFINE l == Line(m, from, last)
           e == Append(d, l)
<1>1. l \in Lines(m) /\ l.first = from /\ l.last = last /\ Fits(l, p)
  BY LineIs
<1>2. /\ d \in Seq(Lines(m)) /\ \A i \in 1..Len(d) : Fits(d[i], p)
      /\ d = <<>> => from = 1
      /\ d # <<>> => d[1].first = 1 /\ d[Len(d)].last = from - 1
      /\ \A i \in 1..(Len(d) - 1) : d[i + 1].first = d[i].last + 1
  BY DEF Covers, InTurn
<1> HIDE DEF l
<1>3. /\ e \in Seq(Lines(m)) /\ Len(e) = Len(d) + 1 /\ Len(d) \in Nat /\ e # <<>>
      /\ \A i \in 1..Len(d) : e[i] = d[i]
      /\ e[Len(d) + 1] = l
  BY <1>1, <1>2
<1> HIDE DEF e
<1>4. ASSUME NEW i \in 1..Len(e)
      PROVE  Fits(e[i], p)
  <2>1. CASE i = Len(d) + 1
    BY <1>1, <1>3, <2>1
  <2>2. CASE i # Len(d) + 1
    <3>1. i \in 1..Len(d)
      BY <1>3, <2>2
    <3> QED
      BY <1>2, <1>3, <3>1
  <2> QED
    BY <2>1, <2>2
<1>5. e[1].first = 1
  <2>1. CASE d = <<>>
    <3>1. Len(d) = 0
      BY <2>1
    <3> QED
      BY <1>1, <1>2, <1>3, <2>1, <3>1
  <2>2. CASE d # <<>>
    <3>1. 1 \in 1..Len(d)
      BY <1>2, <2>2
    <3> QED
      BY <1>2, <1>3, <2>2, <3>1
  <2> QED
    BY <2>1, <2>2
<1>6. e[Len(e)].last = (last + 1) - 1
  BY <1>1, <1>3, GivenType
<1>7. ASSUME NEW i \in 1..(Len(e) - 1)
      PROVE  e[i + 1].first = e[i].last + 1
  <2>1. CASE i = Len(d)
    <3>1. d # <<>> /\ e[i] = d[Len(d)] /\ e[i + 1] = l
      BY <1>2, <1>3, <2>1
    <3> QED
      BY <1>1, <1>2, <3>1
  <2>2. CASE i # Len(d)
    <3>1. i \in 1..(Len(d) - 1) /\ i \in 1..Len(d) /\ i + 1 \in 1..Len(d)
      BY <1>3, <2>2
    <3> QED
      BY <1>2, <1>3, <3>1
  <2> QED
    BY <2>1, <2>2
<1>8. Covers(e, m, last + 1, p)
  BY <1>3, <1>4, <1>5, <1>6, <1>7 DEF Covers, InTurn
<1> QED
  BY <1>8 DEF e, l

\* Where Cut is after field k: the lines that it has ended, and the one it has
\* begun, which ends at k so far and still fits.
Cutting(s, m, p, k) ==
  /\ s.from \in 1..NumFields(m)
  /\ \/ s.from <= k
     \/ k = 0 /\ s.from = 1
  /\ Covers(s.done, m, s.from, p)
  /\ s.from < k => metrics[m].const + FieldBytes(m, s.from, k) <= p

LEMMA CuttingNext ==
  ASSUME Given, NEW m \in 1..Len(metrics), NEW p \in Nat, NEW g, NEW s,
         NEW k \in 1..NumFields(m), Cutting(s, m, p, k - 1), g[k] = k
  PROVE  Cutting(TakeOne(m, p, metrics[m].const, s, g[k]), m, p, k)
<1> DEFINE c == metrics[m].const
           f == metrics[m].fields[k]
           r == TakeOne(m, p, c, s, k)
<1>1. c \in Nat /\ f \in Nat /\ NumFields(m) \in Nat \ {0} /\ k \in Nat \ {0} /\ k <= NumFields(m)
  <2>1. c \in Nat /\ f \in Nat /\ NumFields(m) \in Nat \ {0}
    BY GivenType
  <2> HIDE DEF c, f
  <2> QED
    BY <2>1
<1>2. /\ s.from \in 1..NumFields(m) /\ s.from <= k
      /\ Covers(s.done, m, s.from, p)
      /\ s.from < k - 1 => c + FieldBytes(m, s.from, k - 1) <= p
  BY <1>1 DEF Cutting
<1>3. FieldBytes(m, s.from, k - 1) \in Nat
  <2>1. k - 1 \in 0..NumFields(m)
    BY <1>1
  <2> QED
    BY <1>2, <2>1, FieldBytesNext
<1>4. CASE k > s.from /\ f + FieldBytes(m, s.from, k - 1) + c >= p
  <2> DEFINE l == Line(m, s.from, k - 1)
  <2>1. k - 1 \in s.from..NumFields(m)
    BY <1>1, <1>2, <1>4
  <2>2. l.first = s.from /\ l.last = k - 1 /\ LenOf(l) = c + FieldBytes(m, s.from, k - 1)
    BY <1>2, <2>1, LineIs
  <2>3. Fits(l, p)
    <3>1. CASE s.from = k - 1
      BY <2>2, <3>1 DEF Fits
    <3>2. CASE s.from # k - 1
      <4>1. s.from < k - 1
        BY <1>1, <1>2, <1>4, <3>2
      <4> QED
        BY <1>2, <2>2, <4>1 DEF Fits
    <3> QED
      BY <3>1, <3>2
  <2>4. Covers(Append(s.done, l), m, (k - 1) + 1, p)
    BY <1>2, <2>1, <2>3, CoversMore
  <2>5. r.done = Append(s.done, l) /\ r.from = k
    BY <1>4 DEF TakeOne
  <2>6. (k - 1) + 1 = k
    BY <1>1
  <2> HIDE DEF l, r, c, f
  <2>7. Cutting(r, m, p, k)
    BY <1>1, <2>4, <2>5, <2>6 DEF Cutting
  <2> QED
    BY <2>7 DEF r, c
<1>5. CASE ~(k > s.from /\ f + FieldBytes(m, s.from, k - 1) + c >= p)
  <2>1. r = s
    BY <1>5 DEF TakeOne
  <2>2. ASSUME s.from < k
        PROVE  c + FieldBytes(m, s.from, k) <= p
    <3>1. FieldBytes(m, s.from, k) = FieldBytes(m, s.from, k - 1) + 1 + f
      <4>1. k \in (s.from + 1)..NumFields(m)
        BY <1>1, <1>2, <2>2
      <4> QED
        BY <1>2, <4>1, FieldBytesNext
    <3>2. f + FieldBytes(m, s.from, k - 1) + c < p
      <4>1. k > s.from
        BY <1>1, <1>2, <2>2
      <4>2. f + FieldBytes(m, s.from, k - 1) + c \in Nat
        BY <1>1, <1>3
      <4> HIDE DEF f, c
      <4> QED
        BY <1>5, <4>1, <4>2
    <3> HIDE DEF f, c
    <3> QED
      BY <1>1, <1>3, <3>1, <3>2
  <2> HIDE DEF r, f
  <2>3. Cutting(r, m, p, k)
    BY <1>2, <2>1, <2>2 DEF Cutting
  <2> QED
    BY <2>3 DEF r
<1> QED
  BY <1>4, <1>5

\* What Cut folds.
CutFields(m) == [j \in 1..NumFields(m) |-> j]
LEMMA CutFolds ==
  ASSUME NEW m, NEW p, NEW c
  PROVE  LET all == TakeFold(m, p, c, CutFields(m), DOMAIN CutFields(m))
         IN Cut(m, p, c) = Append(all.done, Line(m, all.from, NumFields(m)))
BY Zenon DEF Cut, FoldLeft, MapThenFoldSet, TakeFold, TakeFolds, TakeOne, CutFields, Nothing

LEMMA CutPieces ==
  ASSUME Given, NEW m \in 1..Len(metrics), NEW p \in Nat
  PROVE  LET d == Cut(m, p, metrics[m].const) IN
           Pieces(d, m) /\ \A i \in 1..Len(d) : Fits(d[i], p)
<1> DEFINE c == metrics[m].const
           g == CutFields(m)
           N == NumFields(m)
           all == TakeFold(m, p, c, g, 1..N)
           d == Cut(m, p, c)
<1>1. N \in Nat \ {0} /\ c \in Nat /\ DOMAIN g = 1..N /\ \A k \in 1..N : g[k] = k
  BY GivenType DEF CutFields
<1>2. d = Append(all.done, Line(m, all.from, N))
  <2>1. DOMAIN CutFields(m) = 1..N
    BY <1>1
  <2> QED
    BY <2>1, CutFolds
<1> HIDE DEF g, c, d
<1>3. PICK sofar : TakeFold(m, p, c, g, 1..N) = sofar[1..N] /\ TakeSteps(sofar, m, p, c, g, N)
  BY <1>1, TakeNext
<1> HIDE DEF all
<1>4. /\ sofar[1..0] = Nothing
      /\ \A k \in 1..N : sofar[1..k] = TakeOne(m, p, c, sofar[1..(k - 1)], g[k])
  BY <1>3 DEF TakeSteps
<1> DEFINE G == {k \in 0..N : Cutting(sofar[1..k], m, p, k)}
<1>5. 0 \in G
  <2>1. /\ Nothing.from = 1 /\ Nothing.done = <<>>
    BY DEF Nothing
  <2>2. Covers(<<>>, m, 1, p)
    BY DEF Covers, InTurn
  <2>3. Cutting(Nothing, m, p, 0)
    BY <1>1, <2>1, <2>2 DEF Cutting
  <2> QED
    BY <1>1, <1>4, <2>3
<1>6. ASSUME NEW k \in 1..N, k - 1 \in G
      PROVE  k \in G
  <2>1. Cutting(sofar[1..(k - 1)], m, p, k - 1)
    BY <1>6
  <2>2. g[k] = k
    BY <1>1
  <2>3. Cutting(TakeOne(m, p, c, sofar[1..(k - 1)], g[k]), m, p, k)
    BY <2>1, <2>2, CuttingNext DEF c
  <2> QED
    BY <1>4, <2>3
<1> HIDE DEF G
<1>7. N \in G
  <2>1. N \in Nat /\ N \in 0..N
    BY <1>1
  <2> HIDE DEF N
  <2> QED
    BY <1>5, <1>6, <2>1, UpTo
<1>8. /\ all.from \in 1..N /\ Covers(all.done, m, all.from, p)
      /\ all.from < N => c + FieldBytes(m, all.from, N) <= p
  <2>1. Cutting(sofar[1..N], m, p, N)
    BY <1>7 DEF G
  <2>2. Cutting(all, m, p, N)
    BY <1>3, <2>1 DEF all
  <2> QED
    BY <1>1, <2>2 DEF Cutting, c
<1>9. Fits(Line(m, all.from, N), p)
  <2>1. N \in all.from..NumFields(m)
    BY <1>1, <1>8
  <2>2. /\ Line(m, all.from, N).first = all.from /\ Line(m, all.from, N).last = N
        /\ LenOf(Line(m, all.from, N)) = c + FieldBytes(m, all.from, N)
    BY <1>8, <2>1, LineIs DEF c
  <2>3. CASE all.from = N
    BY <2>2, <2>3 DEF Fits
  <2>4. CASE all.from # N
    <3>1. all.from < N
      BY <1>1, <1>8, <2>4
    <3> QED
      BY <1>8, <2>2, <3>1 DEF Fits
  <2> QED
    BY <2>3, <2>4
<1>10. Covers(d, m, N + 1, p)
  <2>1. N \in all.from..NumFields(m)
    BY <1>1, <1>8
  <2> QED
    BY <1>2, <1>8, <1>9, <2>1, CoversMore
<1>11. d # <<>> /\ (N + 1) - 1 = N
  <2>1. all.done \in Seq(Lines(m))
    BY <1>8 DEF Covers
  <2> QED
    BY <1>1, <1>2, <2>1
<1>12. Pieces(d, m) /\ \A i \in 1..Len(d) : Fits(d[i], p)
  BY <1>10, <1>11 DEF Covers, Pieces
<1> QED
  BY <1>12 DEF d, c

\* Split returns lines that carry all of the metric, no longer than maxSize or
\* of a single field.
LEMMA SplitPieces ==
  ASSUME Given, NEW m \in 1..Len(metrics), NEW p \in Nat
  PROVE  Pieces(Split(m, p), m) /\ \A i \in 1..Len(Split(m, p)) : Fits(Split(m, p)[i], p)
<1>1. CASE LenOf(Whole(m)) <= p
  <2> DEFINE d == <<Whole(m)>>
  <2>1. Split(m, p) = d
    BY <1>1 DEF Split
  <2>2. /\ Whole(m) \in Lines(m) /\ Fits(Whole(m), p)
        /\ Whole(m).first = 1 /\ Whole(m).last = NumFields(m)
    BY <1>1, WholeIs DEF Fits
  <2>3. d \in Seq(Lines(m)) /\ Len(d) = 1 /\ d[1] = Whole(m) /\ d # <<>>
    BY <2>2
  <2> HIDE DEF d
  <2>4. Pieces(d, m) /\ \A i \in 1..Len(d) : Fits(d[i], p)
    BY <2>2, <2>3 DEF Pieces, InTurn
  <2> QED
    BY <2>1, <2>4
<1>2. CASE ~(LenOf(Whole(m)) <= p)
  <2>1. Split(m, p) = Cut(m, p, metrics[m].const)
    BY <1>2 DEF Split
  <2> QED
    BY <2>1, CutPieces
<1> QED
  BY <1>1, <1>2

---------------------------------------------------------------------------
(* What was read, o, and where the reader goes on. *)

AllLines == UNION {Lines(m) : m \in 1..Len(metrics)}
Behind(l, m, f) == l.metric < m \/ (l.metric = m /\ l.last < f)
OutOK(o) ==
  /\ o \in Seq([line : AllLines, from : Nat, to : Nat])
  /\ o # <<>> => o[1].from = 0 /\ o[1].line.metric = 1 /\ o[1].line.first = 1
  /\ \A i \in 1..(Len(o) - 1) : Continues(o[i], o[i + 1])
  /\ \A j \in 1..Len(o) : o[j].from = 0 =>
       \A i \in 1..(j - 1) : Behind(o[i].line, o[j].line.metric, o[j].line.first)
AllBehind(o, m, f) == \A i \in 1..Len(o) : Behind(o[i].line, m, f)

\* The metric and the field with which the line after l begins.
NextMetric(l) == IF l.last < NumFields(l.metric) THEN l.metric ELSE l.metric + 1
NextField(l) == IF l.last < NumFields(l.metric) THEN l.last + 1 ELSE 1

\* All lines before field f of metric m have been read.
Ready(o, m, f) ==
  /\ OutOK(o) /\ AllBehind(o, m, f)
  /\ o = <<>> => m = 1 /\ f = 1
  /\ o # <<>> => LET s == o[Len(o)] IN
       s.to = LenOf(s.line) /\ m = NextMetric(s.line) /\ f = NextField(s.line)
\* And n bytes of line l.
Started(o, l, n) ==
  /\ OutOK(o) /\ AllBehind(o, NextMetric(l), NextField(l))
  /\ o # <<>> /\ o[Len(o)].line = l /\ o[Len(o)].to = n
  /\ n \in Nat \ {0} /\ n < LenOf(l)

LEMMA SameBytes ==
  ASSUME metrics' = metrics
  PROVE  \A m, a, b : FieldBytes(m, a, b)' = FieldBytes(m, a, b)
<1>1. \A m, a, b :
        FieldBytes(m, a, b)' =
          IF b < a THEN 0
          ELSE SumFold(b - a, SubSeq(metrics'[m].fields, a, b),
                       DOMAIN SubSeq(metrics'[m].fields, a, b))
  BY Zenon DEF FieldBytes, FoldLeft, MapThenFoldSet, SumFold, SumFolds, SumOne
<1> QED
  BY <1>1, FieldBytesFolds

\* While the batch stays, what is said of it does.
LEMMA SameBatch ==
  ASSUME metrics' = metrics
  PROVE  /\ Given' <=> Given
         /\ \A m : NumFields(m)' = NumFields(m)
         /\ \A l : LenOf(l)' = LenOf(l)
         /\ \A m : Whole(m)' = Whole(m)
         /\ \A d, m : Pieces(d, m)' <=> Pieces(d, m)
         /\ \A o, m, f : Ready(o, m, f)' <=> Ready(o, m, f)
         /\ \A o, l, n : Started(o, l, n)' <=> Started(o, l, n)
<1>1. \A m : NumFields(m)' = NumFields(m)
  BY DEF NumFields
<1>2. \A l : LenOf(l)' = LenOf(l)
  BY SameBytes DEF LenOf
<1>3. \A m : Lines(m)' = Lines(m)
  BY <1>1 DEF Lines
<1>4. AllLines' = AllLines
  BY <1>3 DEF AllLines
<1>5. \A s, t : Continues(s, t)' <=> Continues(s, t)
  BY <1>1, <1>2 DEF Continues
<1>6. \A o : OutOK(o)' <=> OutOK(o)
  BY <1>4, <1>5 DEF OutOK
<1>7. \A l : NextMetric(l)' = NextMetric(l) /\ NextField(l)' = NextField(l)
  BY <1>1 DEF NextMetric, NextField
<1>8. \A o, m, f : Ready(o, m, f)' <=> Ready(o, m, f)
  BY <1>2, <1>6, <1>7 DEF Ready
<1>9. \A o, l, n : Started(o, l, n)' <=> Started(o, l, n)
  BY <1>2, <1>6, <1>7 DEF Started
<1>10. \A m : Whole(m)' = Whole(m)
  BY <1>1 DEF Whole
<1>11. \A d, m : Pieces(d, m)' <=> Pieces(d, m)
  BY <1>1, <1>3 DEF Pieces
<1>12. Given' <=> Given
  BY DEF Given
<1> QED
  BY <1>1, <1>2, <1>8, <1>9, <1>10, <1>11, <1>12

LEMMA LinesOfAll ==
  ASSUME Given, NEW l \in AllLines
  PROVE  /\ l.metric \in 1..Len(metrics) /\ l \in Lines(l.metric)
         /\ LenOf(l) \in Nat
         /\ l.metric \in Nat /\ NumFields(l.metric) \in Nat
         /\ l.first \in Nat \ {0} /\ l.last \in Nat \ {0}
         /\ l.first <= l.last /\ l.last <= NumFields(l.metric)
<1>1. PICK m \in 1..Len(metrics) : l \in Lines(m)
  BY DEF AllLines
<1>2. l.metric = m
  BY <1>1, LineType
<1>3. /\ LenOf(l) \in Nat
      /\ l.first \in 1..NumFields(m) /\ l.last \in l.first..NumFields(m)
  BY <1>1, LineType
<1>4. NumFields(m) \in Nat \ {0} /\ m \in Nat
  BY <1>1, GivenType
<1>5. /\ l.first \in Nat \ {0} /\ l.last \in Nat \ {0}
      /\ l.first <= l.last /\ l.last <= NumFields(m)
  BY <1>3, <1>4
<1> QED
  BY <1>1, <1>2, <1>3, <1>4, <1>5

LEMMA PartsRead ==
  ASSUME NEW o, OutOK(o)
  PROVE  /\ Len(o) \in Nat
         /\ \A i \in 1..Len(o) : o[i].line \in AllLines
         /\ o # <<>> => Len(o) \in 1..Len(o)
<1> DEFINE P == [line : AllLines, from : Nat, to : Nat]
<1>1. o \in Seq(P)
  BY DEF OutOK
<1> HIDE DEF P
<1>2. /\ Len(o) \in Nat /\ \A i \in 1..Len(o) : o[i] \in P
      /\ o # <<>> => Len(o) \in 1..Len(o)
  BY <1>1
<1> QED
  BY <1>2 DEF P

\* The line after l begins behind l, and behind what l begins behind.
LEMMA NextBehind ==
  ASSUME Given, NEW l \in AllLines
  PROVE  /\ NextMetric(l) \in Nat /\ NextField(l) \in Nat \ {0}
         /\ Behind(l, NextMetric(l), NextField(l))
         /\ \A k \in AllLines : Behind(k, l.metric, l.first) =>
              Behind(k, NextMetric(l), NextField(l))
<1>1. /\ l.metric \in Nat /\ NumFields(l.metric) \in Nat
      /\ l.first \in Nat \ {0} /\ l.last \in Nat \ {0} /\ l.first <= l.last
  BY LinesOfAll
<1>2. \A k \in AllLines : k.metric \in Nat /\ k.last \in Nat
  BY LinesOfAll
<1> QED
  BY <1>1, <1>2 DEF Behind, NextMetric, NextField

\* A part is read: the next of a line, or the first of the next line.
LEMMA ReadPart ==
  ASSUME Given, NEW o, OutOK(o), NEW l \in AllLines, NEW from \in Nat, NEW to \in Nat,
         o = <<>> => from = 0 /\ l.metric = 1 /\ l.first = 1,
         o # <<>> => Continues(o[Len(o)], Part(l, from, to)),
         from = 0 => AllBehind(o, l.metric, l.first)
  PROVE  LET e == Append(o, Part(l, from, to)) IN
         /\ OutOK(e) /\ e # <<>> /\ e[Len(e)] = Part(l, from, to)
         /\ Len(e) = Len(o) + 1 /\ Len(o) \in Nat /\ \A i \in 1..Len(o) : e[i] = o[i]
<1> DEFINE t == Part(l, from, to)
           e == Append(o, t)
           P == [line : AllLines, from : Nat, to : Nat]
<1>1. t \in P /\ t.line = l /\ t.from = from /\ t.to = to
  BY DEF Part
<1>2. o \in Seq(P)
  BY DEF OutOK
<1> HIDE DEF t, P
<1>0. /\ Append(o, t) \in Seq(P) /\ Len(Append(o, t)) = Len(o) + 1 /\ Len(o) \in Nat
      /\ \A i \in 1..Len(o) : Append(o, t)[i] = o[i]
      /\ Append(o, t)[Len(o) + 1] = t
  BY <1>1, <1>2
<1>3. /\ e \in Seq(P) /\ Len(e) = Len(o) + 1 /\ Len(o) \in Nat
      /\ \A i \in 1..Len(o) : e[i] = o[i]
      /\ e[Len(o) + 1] = t /\ e # <<>>
  <2> HIDE DEF e
  <2>1. /\ e \in Seq(P) /\ Len(e) = Len(o) + 1 /\ Len(o) \in Nat
        /\ \A i \in 1..Len(o) : e[i] = o[i]
        /\ e[Len(o) + 1] = t
    BY <1>0 DEF e
  <2>2. e # <<>>
    BY <2>1
  <2> QED
    BY <2>1, <2>2
<1> HIDE DEF e
<1>4. e[1].from = 0 /\ e[1].line.metric = 1 /\ e[1].line.first = 1
  <2>1. CASE o = <<>>
    <3>1. Len(o) = 0
      BY <2>1
    <3> QED
      BY <1>1, <1>3, <2>1, <3>1
  <2>2. CASE o # <<>>
    <3>1. 1 \in 1..Len(o)
      BY <1>2, <2>2
    <3> QED
      BY <1>3, <2>2, <3>1 DEF OutOK
  <2> QED
    BY <2>1, <2>2
<1>5. ASSUME NEW i \in 1..(Len(e) - 1)
      PROVE  Continues(e[i], e[i + 1])
  <2>1. CASE i = Len(o)
    <3>1. o # <<>> /\ e[i] = o[Len(o)] /\ e[i + 1] = t
      BY <1>2, <1>3, <2>1
    <3> QED
      BY <3>1 DEF t
  <2>2. CASE i # Len(o)
    <3>1. i \in 1..(Len(o) - 1) /\ i \in 1..Len(o) /\ i + 1 \in 1..Len(o)
      BY <1>3, <2>2
    <3> QED
      BY <1>3, <3>1 DEF OutOK
  <2> QED
    BY <2>1, <2>2
<1>6. ASSUME NEW j \in 1..Len(e), e[j].from = 0, NEW i \in 1..(j - 1)
      PROVE  Behind(e[i].line, e[j].line.metric, e[j].line.first)
  <2>1. i \in 1..Len(o) /\ e[i] = o[i]
    BY <1>3
  <2>2. CASE j = Len(o) + 1
    <3>1. e[j] = t /\ from = 0
      BY <1>1, <1>3, <1>6, <2>2
    <3> QED
      BY <1>1, <2>1, <3>1 DEF AllBehind
  <2>3. CASE j # Len(o) + 1
    <3>1. j \in 1..Len(o) /\ e[j] = o[j]
      BY <1>3, <2>3
    <3> QED
      BY <1>6, <2>1, <3>1 DEF OutOK
  <2> QED
    BY <2>2, <2>3
<1>7. OutOK(e) /\ e[Len(e)] = t
  BY <1>3, <1>4, <1>5, <1>6 DEF OutOK, P
<1> QED
  BY <1>3, <1>7 DEF e, t

\* It leaves all lines behind the next one.
LEMMA BehindNext ==
  ASSUME Given, NEW o, OutOK(o), NEW l \in AllLines, NEW e,
         Len(o) \in Nat, Len(e) = Len(o) + 1, e[Len(e)].line = l,
         \A i \in 1..Len(o) : e[i] = o[i],
         \/ AllBehind(o, l.metric, l.first)
         \/ AllBehind(o, NextMetric(l), NextField(l))
  PROVE  AllBehind(e, NextMetric(l), NextField(l))
<1>1. ASSUME NEW i \in 1..Len(e)
      PROVE  Behind(e[i].line, NextMetric(l), NextField(l))
  <2>1. CASE i = Len(e)
    BY <2>1, NextBehind
  <2>2. CASE i # Len(e)
    <3>1. i \in 1..Len(o) /\ e[i] = o[i]
      BY <2>2
    <3>2. o[i].line \in AllLines
      BY <3>1, PartsRead
    <3> QED
      BY <3>1, <3>2, NextBehind DEF AllBehind
  <2> QED
    BY <2>1, <2>2
<1> QED
  BY <1>1 DEF AllBehind

\* The next line is read to its end, or begun.
LEMMA ReadLine ==
  ASSUME Given, NEW o, NEW l \in AllLines, Ready(o, l.metric, l.first)
  PROVE  /\ Ready(Append(o, All(l)), NextMetric(l), NextField(l))
         /\ \A n \in Nat \ {0} : n < LenOf(l) => Started(Append(o, Part(l, 0, n)), l, n)
<1>1. ASSUME NEW n \in Nat
      PROVE  LET e == Append(o, Part(l, 0, n)) IN
             /\ OutOK(e) /\ e # <<>> /\ e[Len(e)] = Part(l, 0, n)
             /\ AllBehind(e, NextMetric(l), NextField(l))
  <2> DEFINE e == Append(o, Part(l, 0, n))
  <2>1. /\ OutOK(o) /\ AllBehind(o, l.metric, l.first)
        /\ o = <<>> => l.metric = 1 /\ l.first = 1
    BY DEF Ready
  <2>2. o # <<>> => Continues(o[Len(o)], Part(l, 0, n))
    <3> SUFFICES ASSUME o # <<>>
                 PROVE  Continues(o[Len(o)], Part(l, 0, n))
      OBVIOUS
    <3> DEFINE s == o[Len(o)]
               t == Part(l, 0, n)
    <3>1. s.to = LenOf(s.line) /\ l.metric = NextMetric(s.line) /\ l.first = NextField(s.line)
      BY DEF Ready
    <3>2. t.line = l /\ t.from = 0
      BY DEF Part
    <3>3. s.line \in AllLines
      BY <2>1, PartsRead
    <3> HIDE DEF s, t
    <3>4. LenOf(s.line) \in Nat
      BY <3>3, LinesOfAll
    <3>5. Continues(s, t)
      BY <3>1, <3>2, <3>4 DEF Continues, NextMetric, NextField
    <3> QED
      BY <3>5 DEF s, t
  <2>3. /\ OutOK(e) /\ e # <<>> /\ e[Len(e)] = Part(l, 0, n)
        /\ Len(e) = Len(o) + 1 /\ Len(o) \in Nat /\ \A i \in 1..Len(o) : e[i] = o[i]
    BY <2>1, <2>2, ReadPart
  <2>4. e[Len(e)].line = l
    BY <2>3 DEF Part
  <2> HIDE DEF e
  <2>5. AllBehind(e, NextMetric(l), NextField(l))
    BY <2>1, <2>3, <2>4, BehindNext
  <2> QED
    BY <2>3, <2>5 DEF e
<1>2. LenOf(l) \in Nat
  BY LinesOfAll
<1>3. Ready(Append(o, All(l)), NextMetric(l), NextField(l))
  <2> DEFINE e == Append(o, All(l))
  <2>1. OutOK(e) /\ e # <<>> /\ e[Len(e)] = All(l) /\ AllBehind(e, NextMetric(l), NextField(l))
    BY <1>1, <1>2 DEF All
  <2>2. All(l).line = l /\ All(l).to = LenOf(l)
    BY DEF All, Part
  <2> HIDE DEF e
  <2>3. Ready(e, NextMetric(l), NextField(l))
    BY <2>1, <2>2 DEF Ready
  <2> QED
    BY <2>3 DEF e
<1>4. ASSUME NEW n \in Nat \ {0}, n < LenOf(l)
      PROVE  Started(Append(o, Part(l, 0, n)), l, n)
  <2> DEFINE e == Append(o, Part(l, 0, n))
  <2>1. OutOK(e) /\ e # <<>> /\ e[Len(e)] = Part(l, 0, n) /\ AllBehind(e, NextMetric(l), NextField(l))
    BY <1>1
  <2>2. Part(l, 0, n).line = l /\ Part(l, 0, n).to = n
    BY DEF Part
  <2> HIDE DEF e
  <2>3. Started(e, l, n)
    BY <1>4, <2>1, <2>2 DEF Started
  <2> QED
    BY <2>3 DEF e
<1> QED
  BY <1>3, <1>4

\* More of a line, or the rest of it.
LEMMA ReadOn ==
  ASSUME Given, NEW o, NEW l \in AllLines, NEW n, Started(o, l, n)
  PROVE  /\ Ready(Append(o, Part(l, n, LenOf(l))), NextMetric(l), NextField(l))
         /\ \A k \in Nat : n < k /\ k < LenOf(l) => Started(Append(o, Part(l, n, k)), l, k)
<1>1. /\ OutOK(o) /\ AllBehind(o, NextMetric(l), NextField(l))
      /\ o # <<>> /\ o[Len(o)].line = l /\ o[Len(o)].to = n
      /\ n \in Nat \ {0} /\ n < LenOf(l)
  BY DEF Started
<1>2. ASSUME NEW k \in Nat
      PROVE  LET e == Append(o, Part(l, n, k)) IN
             /\ OutOK(e) /\ e # <<>> /\ e[Len(e)] = Part(l, n, k)
             /\ AllBehind(e, NextMetric(l), NextField(l))
  <2> DEFINE e == Append(o, Part(l, n, k))
  <2>1. Continues(o[Len(o)], Part(l, n, k))
    <3>1. Part(l, n, k).line = l /\ Part(l, n, k).from = n
      BY DEF Part
    <3> QED
      BY <1>1, <3>1 DEF Continues
  <2>2. n \in Nat /\ n # 0
    BY <1>1
  <2>3. /\ OutOK(e) /\ e # <<>> /\ e[Len(e)] = Part(l, n, k)
        /\ Len(e) = Len(o) + 1 /\ Len(o) \in Nat /\ \A i \in 1..Len(o) : e[i] = o[i]
    <3>1. /\ o = <<>> => n = 0 /\ l.metric = 1 /\ l.first = 1
          /\ n = 0 => AllBehind(o, l.metric, l.first)
      BY <1>1, <2>2
    <3> QED
      BY <1>1, <2>1, <2>2, <3>1, ReadPart
  <2>4. e[Len(e)].line = l
    BY <2>3 DEF Part
  <2> HIDE DEF e
  <2>5. AllBehind(e, NextMetric(l), NextField(l))
    BY <1>1, <2>3, <2>4, BehindNext
  <2> QED
    BY <2>3, <2>5 DEF e
<1>3. LenOf(l) \in Nat
  BY LinesOfAll
<1>4. Ready(Append(o, Part(l, n, LenOf(l))), NextMetric(l), NextField(l))
  <2> DEFINE t == Part(l, n, LenOf(l))
             e == Append(o, t)
  <2>1. OutOK(e) /\ e # <<>> /\ e[Len(e)] = t /\ AllBehind(e, NextMetric(l), NextField(l))
    BY <1>2, <1>3
  <2>2. t.line = l /\ t.to = LenOf(l)
    BY DEF Part
  <2> HIDE DEF e, t
  <2>3. Ready(e, NextMetric(l), NextField(l))
    BY <2>1, <2>2 DEF Ready
  <2> QED
    BY <2>3 DEF e, t
<1>5. ASSUME NEW k \in Nat, n < k, k < LenOf(l)
      PROVE  Started(Append(o, Part(l, n, k)), l, k)
  <2> DEFINE t == Part(l, n, k)
             e == Append(o, t)
  <2>1. OutOK(e) /\ e # <<>> /\ e[Len(e)] = t /\ AllBehind(e, NextMetric(l), NextField(l))
    BY <1>2
  <2>2. t.line = l /\ t.to = k /\ k \in Nat \ {0}
    BY <1>1, <1>5 DEF Part
  <2> HIDE DEF e, t
  <2>3. Started(e, l, k)
    BY <1>5, <2>1, <2>2 DEF Started
  <2> QED
    BY <2>3 DEF e, t
<1> QED
  BY <1>4, <1>5

---------------------------------------------------------------------------
(* The reader. *)

\* In state normal the next metric is to be read, in state split the next piece
\* of this one; in the two overflow states some of the line in the buffer was.
ReaderInv ==
  /\ Given
  /\ iM \in 1..(Len(metrics) + 1)
  /\ state \in {"normal", "split", "overflow", "splitOverflow", "done"}
  /\ state = "done" <=> iM = Len(metrics) + 1
  /\ state \in {"normal", "done"} => iB = 0 /\ Ready(out, iM, 1)
  /\ state \in {"split", "splitOverflow"} => Pieces(pieces, iM) /\ iSM \in 1..(Len(pieces) - 1)
  /\ state = "split" => iB = 0 /\ Ready(out, iM, pieces[iSM + 1].first)
  /\ state = "overflow" => buf = Whole(iM)
  /\ state = "splitOverflow" => buf = pieces[iSM + 1]
  /\ state \in {"overflow", "splitOverflow"} => Started(out, buf, iB)

LEMMA ReaderInitially == ReaderInit => ReaderInv
<1> SUFFICES ASSUME ReaderInit
             PROVE  ReaderInv
  OBVIOUS
<1>1. Given /\ pieces = <<>> /\ state = "normal" /\ iM = 1 /\ iB = 0 /\ out = <<>>
  BY DEF ReaderInit, Given
<1>2. Len(metrics) \in Nat \ {0}
  BY <1>1, GivenType
<1>3. Ready(<<>>, 1, 1)
  BY DEF Ready, OutOK, AllBehind
<1>4. iM \in 1..(Len(metrics) + 1) /\ iM # Len(metrics) + 1
  BY <1>1, <1>2
<1> QED
  BY <1>1, <1>3, <1>4 DEF ReaderInv

\* After the whole of a metric comes the next one.
LEMMA AfterWhole ==
  ASSUME Given, NEW m \in 1..Len(metrics)
  PROVE  /\ Whole(m) \in AllLines /\ Whole(m).metric = m /\ Whole(m).first = 1
         /\ NextMetric(Whole(m)) = m + 1 /\ NextField(Whole(m)) = 1
<1>1. /\ Whole(m) \in Lines(m) /\ Whole(m).metric = m /\ Whole(m).first = 1
      /\ Whole(m).last = NumFields(m)
  BY WholeIs
<1>2. NumFields(m) \in Nat
  BY GivenType
<1> QED
  BY <1>1, <1>2 DEF AllLines, NextMetric, NextField

\* After a piece comes the next one, after the last one the next metric.
LEMMA AfterPiece ==
  ASSUME Given, NEW m \in 1..Len(metrics), NEW d, Pieces(d, m), NEW i \in 1..Len(d)
  PROVE  /\ d[i] \in AllLines /\ d[i].metric = m
         /\ i = 1 => d[i].first = 1
         /\ i < Len(d) => NextMetric(d[i]) = m /\ NextField(d[i]) = d[i + 1].first
         /\ i = Len(d) => NextMetric(d[i]) = m + 1 /\ NextField(d[i]) = 1
<1>1. /\ d \in Seq(Lines(m)) /\ d[1].first = 1 /\ d[Len(d)].last = NumFields(m)
      /\ \A k \in 1..(Len(d) - 1) : d[k + 1].first = d[k].last + 1
  BY DEF Pieces, InTurn
<1>2. Len(d) \in Nat /\ \A k \in 1..Len(d) : d[k] \in Lines(m)
  BY <1>1
<1>3. \A k \in 1..Len(d) : d[k] \in AllLines
  BY <1>2 DEF AllLines
<1>4. d[i].metric = m
  BY <1>2, LineType
<1>5. CASE i < Len(d)
  <2>1. i \in 1..(Len(d) - 1) /\ i + 1 \in 1..Len(d)
    BY <1>2, <1>5
  <2>2. d[i + 1].first = d[i].last + 1
    BY <1>1, <2>1
  <2>3. d[i + 1] \in Lines(m) /\ d[i + 1] \in AllLines /\ d[i] \in AllLines
    BY <1>2, <1>3, <2>1
  <2>4. d[i + 1].first <= d[i + 1].last /\ d[i + 1].last <= NumFields(m)
        /\ d[i + 1].first \in Nat /\ d[i + 1].last \in Nat /\ NumFields(m) \in Nat
        /\ d[i].last \in Nat
    BY <2>3, LinesOfAll, LineType, GivenType
  <2>5. d[i].last < NumFields(m)
    BY <2>2, <2>4
  <2> QED
    BY <1>1, <1>3, <1>4, <1>5, <2>2, <2>5 DEF NextMetric, NextField
<1>6. CASE i = Len(d)
  <2>1. NumFields(m) \in Nat
    BY GivenType
  <2> QED
    BY <1>1, <1>3, <1>4, <1>6, <2>1 DEF NextMetric, NextField
<1> QED
  BY <1>2, <1>5, <1>6

\* A batch read up to a metric, or to its end.
LEMMA GoingOn ==
  ASSUME ReaderInv, NEW m \in 1..Len(metrics), metrics' = metrics, iB' = 0,
         GoTo(m + 1), Ready(out', m + 1, 1)
  PROVE  ReaderInv'
<1>1. Given /\ Len(metrics) \in Nat \ {0}
  BY GivenType DEF ReaderInv
<1>2. iM' = m + 1 /\ state' = IF m + 1 > Len(metrics) THEN "done" ELSE "normal"
  BY DEF GoTo
<1>3. m + 1 \in 1..(Len(metrics) + 1) /\ (m + 1 > Len(metrics) <=> m + 1 = Len(metrics) + 1)
  BY <1>1
<1>4. Given' /\ Ready(out, iM, 1)'
  BY <1>1, <1>2, SameBatch
<1> QED
  BY <1>2, <1>3, <1>4 DEF ReaderInv

\* A line is begun that overflows the buffer.
LEMMA Overflowing ==
  ASSUME ReaderInv, iM \in 1..Len(metrics), NEW l \in AllLines, NEW p \in Nat \ {0},
         p < LenOf(l), Ready(out, l.metric, l.first), iB = 0,
         NEW s, Overflow(l, p, s)
  PROVE  Started(out, buf, iB)'
<1>1. Given /\ metrics' = metrics /\ buf' = l /\ iB' = p /\ out' = Append(out, Part(l, 0, p))
  BY DEF Overflow, ReaderInv
<1>2. Started(Append(out, Part(l, 0, p)), l, p)
  BY <1>1, ReadLine
<1> QED
  BY <1>1, <1>2, SameBatch

\* Where Read ends a line, or does not.
LEMMA Positions ==
  ASSUME ReaderInv
  PROVE  /\ Given /\ Len(metrics) \in Nat \ {0}
         /\ state # "done" => iM \in 1..Len(metrics)
<1> QED
  BY GivenType DEF ReaderInv

\* The lengths of metrics iM to m, which Room adds up.
Lengths(m) == [k \in 1..(m + 1 - iM) |-> LenOf(Whole(iM + k - 1))]

LEMMA RoomFolds ==
  ASSUME NEW m
  PROVE  Room(m) = SumFold(0, Lengths(m), DOMAIN Lengths(m))
BY Zenon DEF Room, Lengths, FoldLeft, MapThenFoldSet, SumFold, SumFolds, SumOne

LEMMA RoomType ==
  ASSUME Given, iM \in 1..Len(metrics)
  PROVE  /\ \A m \in iM..Len(metrics) : Room(m) \in Nat
         /\ Room(iM) = LenOf(Whole(iM))
<1>1. iM \in Nat /\ Len(metrics) \in Nat /\ \A m \in 1..Len(metrics) : LenOf(Whole(m)) \in Nat
  BY GivenType, WholeIs
<1>2. \A m : Lengths(m) = [k \in 1..(m + 1 - iM) |-> LenOf(Whole(iM + k - 1))]
  BY DEF Lengths
<1>3. ASSUME NEW m \in iM..Len(metrics)
      PROVE  /\ m + 1 - iM \in Nat /\ DOMAIN Lengths(m) = 1..(m + 1 - iM)
             /\ \A k \in 1..(m + 1 - iM) :
                  /\ iM + k - 1 \in 1..Len(metrics)
                  /\ Lengths(m)[k] = LenOf(Whole(iM + k - 1)) /\ Lengths(m)[k] \in Nat
  <2>1. m + 1 - iM \in Nat /\ \A k \in 1..(m + 1 - iM) : iM + k - 1 \in 1..Len(metrics)
    BY <1>1
  <2>2. /\ DOMAIN Lengths(m) = 1..(m + 1 - iM)
        /\ \A k \in 1..(m + 1 - iM) : Lengths(m)[k] = LenOf(Whole(iM + k - 1))
    BY <1>2
  <2> QED
    BY <1>1, <2>1, <2>2
<1>4. ASSUME NEW m \in iM..Len(metrics)
      PROVE  Room(m) \in Nat
  <2>1. SumFold(0, Lengths(m), 1..(m + 1 - iM)) \in Nat
    BY <1>3, SumType
  <2> QED
    BY <1>3, <2>1, RoomFolds
<1>5. Room(iM) = LenOf(Whole(iM))
  <2>1. iM \in iM..Len(metrics) /\ iM + 1 - iM = 1 /\ 1 \in 1..1 /\ iM + 1 - 1 = iM
    BY <1>1
  <2>2. Lengths(iM)[1] = LenOf(Whole(iM)) /\ Lengths(iM)[1] \in Nat /\ DOMAIN Lengths(iM) = 1..1
    <3>1. /\ DOMAIN Lengths(iM) = 1..(iM + 1 - iM)
          /\ \A k \in 1..(iM + 1 - iM) :
               Lengths(iM)[k] = LenOf(Whole(iM + k - 1)) /\ Lengths(iM)[k] \in Nat
      BY <1>3, <2>1
    <3>2. /\ DOMAIN Lengths(iM) = 1..1
          /\ \A k \in 1..1 :
               Lengths(iM)[k] = LenOf(Whole(iM + k - 1)) /\ Lengths(iM)[k] \in Nat
      BY <2>1, <3>1
    <3> QED
      BY <2>1, <3>2
  <2>3. SumFold(0, Lengths(iM), 1..1) = Lengths(iM)[1]
    BY <2>2, SumOfOne
  <2> QED
    BY <2>2, <2>3, RoomFolds
<1> QED
  BY <1>4, <1>5

\* A buffer with room for the first metric is full at some metric or takes all.
LEMMA Full ==
  ASSUME Given, iM \in 1..Len(metrics), NEW p \in Nat, LenOf(Whole(iM)) <= p
  PROVE  \E m \in iM..Len(metrics) : Room(m) <= p /\ (m < Len(metrics) => Room(m + 1) > p)
<1> DEFINE last == Len(metrics)
           n == last - iM
<1>1. last \in Nat /\ iM \in Nat /\ iM <= last /\ n \in Nat
  BY GivenType
<1> HIDE DEF last
<1>2. (\A m \in iM..last : Room(m) \in Nat) /\ Room(iM) <= p
  BY RoomType DEF last
<1> SUFFICES ASSUME \A m \in iM..last : ~(Room(m) <= p /\ (m < last => Room(m + 1) > p))
             PROVE  FALSE
  BY DEF last
<1> DEFINE G == {k \in 0..n : Room(iM + k) <= p}
<1>3. 0 \in G
  <2>1. 0 \in 0..n /\ iM + 0 = iM
    BY <1>1
  <2> QED
    BY <1>2, <2>1
<1>4. ASSUME NEW k \in 1..n, k - 1 \in G
      PROVE  k \in G
  <2> DEFINE m == iM + (k - 1)
  <2>1. /\ m \in iM..last /\ m + 1 = iM + k /\ m < last /\ m + 1 \in iM..last
        /\ k \in 0..n
    BY <1>1
  <2>2. Room(m) <= p
    BY <1>4
  <2>3. Room(m + 1) <= p
    <3>1. ~(Room(m + 1) > p) /\ Room(m + 1) \in Nat
      BY <1>2, <2>1, <2>2
    <3> QED
      BY <3>1
  <2> QED
    BY <2>1, <2>3
<1> HIDE DEF G
<1>5. n \in G
  <2>1. n \in 0..n
    BY <1>1
  <2> HIDE DEF n
  <2> QED
    BY <1>1, <1>3, <1>4, <2>1, UpTo
<1>6. Room(last) <= p
  <2>1. iM + n = last
    BY <1>1
  <2>2. Room(iM + n) <= p
    BY <1>5 DEF G
  <2> QED
    BY <2>1, <2>2
<1> QED
  BY <1>1, <1>6

\* e has all that o has.
Adds(o, e) ==
  /\ Len(o) \in Nat /\ Len(e) \in Nat /\ Len(o) <= Len(e)
  /\ \A i \in 1..Len(o) : e[i] = o[i]

\* Whole metrics are read.
Wholes(m, n) == [k \in 1..n |-> All(Whole(m + k - 1))]
LEMMA WholesRead ==
  ASSUME Given, NEW o, NEW m \in 1..Len(metrics), Ready(o, m, 1),
         NEW n \in Nat, m + n <= Len(metrics) + 1
  PROVE  Ready(o \o Wholes(m, n), m + n, 1) /\ Adds(o, o \o Wholes(m, n))
<1> DEFINE P == [line : AllLines, from : Nat, to : Nat]
           G == {k \in 0..n : /\ Wholes(m, k) \in Seq(P) /\ o \o Wholes(m, k) \in Seq(P)
                              /\ Ready(o \o Wholes(m, k), m + k, 1)}
<1>1. o \in Seq(P) /\ Len(metrics) \in Nat /\ m \in Nat
  BY GivenType DEF Ready, OutOK
<1> HIDE DEF P
<1>2. 0 \in G
  <2>1. Wholes(m, 0) = <<>> /\ m + 0 = m /\ 0 \in 0..n
    BY <1>1 DEF Wholes
  <2>2. o \o <<>> = o
    BY <1>1, ConcatEmptySeq
  <2>3. <<>> \in Seq(P)
    OBVIOUS
  <2> QED
    BY <1>1, <2>1, <2>2, <2>3
<1>3. ASSUME NEW k \in 1..n, k - 1 \in G
      PROVE  k \in G
  <2> DEFINE w == m + k - 1
             x == All(Whole(w))
             W == Wholes(m, k - 1)
  <2>1. /\ o \o W \in Seq(P) /\ Ready(o \o W, m + (k - 1), 1)
    BY <1>3
  <2>2. w \in 1..Len(metrics) /\ m + (k - 1) = w /\ w + 1 = m + k /\ k - 1 \in Nat /\ k \in 0..n
    BY <1>1
  <2>3. /\ Whole(w) \in AllLines /\ Whole(w).metric = w /\ Whole(w).first = 1
        /\ NextMetric(Whole(w)) = w + 1 /\ NextField(Whole(w)) = 1
        /\ LenOf(Whole(w)) \in Nat
    BY <2>2, AfterWhole, WholeIs
  <2>4. Ready(Append(o \o W, x), w + 1, 1)
    BY <2>1, <2>2, <2>3, ReadLine
  <2>5. x \in P
    BY <2>3 DEF All, Part, P
  <2>6. /\ W \in Seq(P) /\ Wholes(m, k) = Append(W, x)
    <3>1. ASSUME NEW j \in 1..(k - 1)
          PROVE  All(Whole(m + j - 1)) \in P
      <4>1. m + j - 1 \in 1..Len(metrics)
        BY <1>1
      <4>2. Whole(m + j - 1) \in AllLines /\ LenOf(Whole(m + j - 1)) \in Nat
        BY <4>1, AfterWhole, WholeIs
      <4> QED
        BY <4>2 DEF All, Part, P
    <3>2. W = [j \in 1..(k - 1) |-> All(Whole(m + j - 1))]
      BY DEF Wholes
    <3> HIDE DEF W
    <3>3. W \in Seq(P) /\ Len(W) = k - 1
      BY <2>2, <3>1, <3>2
    <3>4. Wholes(m, k) = [j \in 1..k |-> All(Whole(m + j - 1))]
      BY DEF Wholes
    <3>5. \A j \in 1..k : j = k \/ j \in 1..(k - 1)
      OBVIOUS
    <3>6. Len(Wholes(m, k)) = k /\ Wholes(m, k) \in Seq(P)
      <4>1. \A j \in 1..k : All(Whole(m + j - 1)) \in P
        BY <2>5, <3>1, <3>5
      <4> QED
        BY <3>4, <4>1
    <3> HIDE DEF x
    <3>7. /\ Append(W, x) \in Seq(P) /\ Len(Append(W, x)) = k
          /\ \A j \in 1..(k - 1) : Append(W, x)[j] = W[j]
          /\ Append(W, x)[k] = x
      <4>1. Len(W) + 1 = k
        BY <3>3
      <4> QED
        BY <2>5, <3>3, <4>1, AppendProperties
    <3>8. \A j \in 1..k : Wholes(m, k)[j] = Append(W, x)[j]
      <4>1. Wholes(m, k)[k] = x
        BY <3>4 DEF x
      <4>2. \A j \in 1..(k - 1) : Wholes(m, k)[j] = W[j]
        BY <3>2, <3>4
      <4> QED
        BY <3>5, <3>7, <4>1, <4>2
    <3> QED
      BY <3>3, <3>6, <3>7, <3>8, SeqEqual
  <2> HIDE DEF W, x
  <2>7. o \o Append(W, x) = Append(o \o W, x)
    <3>1. Append(W, x) = W \o <<x>> /\ Append(o \o W, x) = (o \o W) \o <<x>> /\ <<x>> \in Seq(P)
      BY <2>1, <2>5, <2>6, AppendIsConcat
    <3> QED
      BY <1>1, <2>6, <3>1, ConcatAssociative
  <2>8. Append(o \o W, x) \in Seq(P) /\ Append(W, x) \in Seq(P)
    BY <2>1, <2>5, <2>6, AppendProperties
  <2> QED
    BY <2>2, <2>4, <2>6, <2>7, <2>8
<1> HIDE DEF G
<1>4. n \in G
  BY <1>2, <1>3, UpTo
<1>5. Ready(o \o Wholes(m, n), m + n, 1) /\ Wholes(m, n) \in Seq(P)
  BY <1>4 DEF G
<1>6. Adds(o, o \o Wholes(m, n))
  <2> DEFINE W == Wholes(m, n)
  <2> HIDE DEF W
  <2>1. W \in Seq(P) /\ Len(W) \in Nat /\ Len(o) \in Nat
    BY <1>1, <1>5, LenProperties DEF W
  <2>2. /\ Len(o \o W) = Len(o) + Len(W)
        /\ \A i \in 1..(Len(o) + Len(W)) : (o \o W)[i] = IF i <= Len(o) THEN o[i] ELSE W[i - Len(o)]
    BY <1>1, <2>1, ConcatProperties
  <2>3. Adds(o, o \o W)
    BY <2>1, <2>2 DEF Adds
  <2> QED
    BY <2>3 DEF W
<1> QED
  BY <1>5, <1>6

LEMMA WholesAreRead ==
  ASSUME ReaderInv, NEW p \in Nat \ {0}, ReadWhole(p)
  PROVE  ReaderInv' /\ Adds(out, out')
<1> DEFINE Filled(m) == Room(m) <= p /\ (m < Len(metrics) => Room(m + 1) > p)
           last == CHOOSE m \in iM..Len(metrics) : Filled(m)
           n == last + 1 - iM
<1>1. /\ state = "normal" /\ LenOf(Whole(iM)) <= p
      /\ GoTo(last + 1) /\ out' = out \o Wholes(iM, n)
      /\ metrics' = metrics /\ iB' = iB
  BY DEF ReadWhole, Wholes
<1>2. /\ Given /\ Len(metrics) \in Nat \ {0} /\ iM \in 1..Len(metrics)
      /\ iB = 0 /\ Ready(out, iM, 1)
  BY <1>1, Positions DEF ReaderInv
<1>3. \E m \in iM..Len(metrics) : Filled(m)
  BY <1>1, <1>2, Full
<1> HIDE DEF Filled
<1>4. last \in iM..Len(metrics)
  BY <1>3
<1> HIDE DEF last
<1>5. /\ n \in Nat /\ iM + n <= Len(metrics) + 1 /\ iM + n = last + 1
      /\ last \in 1..Len(metrics)
  BY <1>2, <1>4
<1> HIDE DEF n
<1>6. Ready(out', last + 1, 1) /\ Adds(out, out')
  BY <1>1, <1>2, <1>5, WholesRead
<1> QED
  BY <1>1, <1>2, <1>5, <1>6, GoingOn

LEMMA FirstPieceIsRead ==
  ASSUME ReaderInv, NEW p \in Nat \ {0}, ReadFirstPiece(p)
  PROVE  ReaderInv'
<1> DEFINE new == Split(iM, p)
<1>1. /\ state = "normal" /\ Len(new) > 1
      /\ pieces' = new /\ iSM' = 1 /\ state' = "split"
      /\ out' = Append(out, All(new[1]))
      /\ metrics' = metrics /\ iM' = iM /\ iB' = iB
  BY DEF ReadFirstPiece
<1>2. /\ Given /\ iM \in 1..Len(metrics) /\ Len(metrics) \in Nat
      /\ iB = 0 /\ Ready(out, iM, 1)
  BY <1>1, Positions DEF ReaderInv
<1>3. Pieces(new, iM)
  BY <1>2, SplitPieces
<1> HIDE DEF new
<1>4. Len(new) \in Nat
  BY <1>3 DEF Pieces
<1>5. 1 \in 1..Len(new) /\ 1 < Len(new) /\ 1 \in 1..(Len(new) - 1)
  BY <1>1, <1>4
<1>6. /\ new[1] \in AllLines /\ new[1].metric = iM /\ new[1].first = 1
      /\ NextMetric(new[1]) = iM /\ NextField(new[1]) = new[1 + 1].first
  BY <1>2, <1>3, <1>5, AfterPiece
<1>7. Ready(out', iM, new[1 + 1].first)
  BY <1>1, <1>2, <1>6, ReadLine
<1>8. Ready(out, iM, pieces[iSM + 1].first)' /\ Given' /\ Pieces(pieces, iM)'
  BY <1>1, <1>2, <1>3, <1>7, SameBatch
<1>9. iM # Len(metrics) + 1 /\ iM \in 1..(Len(metrics) + 1)
  BY <1>2
<1> QED
  BY <1>1, <1>2, <1>5, <1>8, <1>9 DEF ReaderInv

LEMMA OverflowIsRead ==
  ASSUME ReaderInv, NEW p \in Nat \ {0}, ReadOverflow(p)
  PROVE  ReaderInv'
<1>1. /\ state = "normal" /\ LenOf(Whole(iM)) > p
      /\ Overflow(Whole(iM), p, "overflow")
      /\ buf' = Whole(iM) /\ state' = "overflow" /\ metrics' = metrics /\ iM' = iM
  BY DEF ReadOverflow, Overflow
<1>2. /\ Given /\ iM \in 1..Len(metrics) /\ Len(metrics) \in Nat
      /\ iB = 0 /\ Ready(out, iM, 1)
  BY <1>1, Positions DEF ReaderInv
<1>3. /\ Whole(iM) \in AllLines /\ Whole(iM).metric = iM /\ Whole(iM).first = 1
      /\ LenOf(Whole(iM)) \in Nat
  BY <1>2, AfterWhole, WholeIs
<1>4. p < LenOf(Whole(iM))
  BY <1>1, <1>3
<1>5. Started(out, buf, iB)'
  BY <1>1, <1>2, <1>3, <1>4, Overflowing
<1>6. Given' /\ Whole(iM)' = Whole(iM')
  BY <1>1, <1>2, SameBatch
<1>7. iM # Len(metrics) + 1 /\ iM \in 1..(Len(metrics) + 1)
  BY <1>2
<1> QED
  BY <1>1, <1>5, <1>6, <1>7, SameBatch DEF ReaderInv

\* The piece that is to be read in a split.
LEMMA PieceToRead ==
  ASSUME ReaderInv, state \in {"split", "splitOverflow"}
  PROVE  /\ Given /\ iM \in 1..Len(metrics) /\ Len(metrics) \in Nat
         /\ Pieces(pieces, iM) /\ Len(pieces) \in Nat /\ iSM \in 1..(Len(pieces) - 1)
         /\ pieces[iSM + 1] \in AllLines /\ pieces[iSM + 1].metric = iM
         /\ LenOf(pieces[iSM + 1]) \in Nat
         /\ iSM + 1 < Len(pieces) =>
              /\ NextMetric(pieces[iSM + 1]) = iM
              /\ NextField(pieces[iSM + 1]) = pieces[(iSM + 1) + 1].first
              /\ iSM + 1 \in 1..(Len(pieces) - 1)
         /\ ~(iSM + 1 < Len(pieces)) =>
              /\ iSM + 1 = Len(pieces)
              /\ NextMetric(pieces[iSM + 1]) = iM + 1
              /\ NextField(pieces[iSM + 1]) = 1
<1>1. /\ Given /\ iM \in 1..Len(metrics) /\ Len(metrics) \in Nat
      /\ Pieces(pieces, iM) /\ iSM \in 1..(Len(pieces) - 1)
  BY Positions DEF ReaderInv
<1>2. Len(pieces) \in Nat
  BY <1>1 DEF Pieces
<1>3. iSM + 1 \in 1..Len(pieces)
  BY <1>1, <1>2
<1>4. pieces[iSM + 1] \in AllLines /\ pieces[iSM + 1].metric = iM
  BY <1>1, <1>3, AfterPiece
<1>5. LenOf(pieces[iSM + 1]) \in Nat
  BY <1>1, <1>4, LinesOfAll
<1>6. /\ iSM + 1 < Len(pieces) => iSM + 1 \in 1..(Len(pieces) - 1)
      /\ ~(iSM + 1 < Len(pieces)) => iSM + 1 = Len(pieces)
  BY <1>1, <1>2
<1> QED
  BY <1>1, <1>2, <1>3, <1>4, <1>5, <1>6, AfterPiece

LEMMA PieceIsRead ==
  ASSUME ReaderInv, NEW p \in Nat \ {0}, ReadPiece(p)
  PROVE  ReaderInv'
<1> DEFINE l == pieces[iSM + 1]
<1>1. /\ state = "split" /\ out' = Append(out, All(l))
      /\ IF iSM + 1 < Len(pieces) THEN iSM' = iSM + 1 /\ iM' = iM /\ state' = state
                                  ELSE GoTo(iM + 1)
      /\ metrics' = metrics /\ pieces' = pieces /\ iB' = iB
  BY DEF ReadPiece
<1>2. /\ Given /\ iM \in 1..Len(metrics) /\ Len(metrics) \in Nat
      /\ Pieces(pieces, iM) /\ l \in AllLines /\ l.metric = iM
      /\ iB = 0 /\ Ready(out, iM, l.first)
  BY <1>1, PieceToRead DEF ReaderInv
<1>3. Ready(out', NextMetric(l), NextField(l))
  BY <1>1, <1>2, ReadLine
<1> HIDE DEF l
<1>4. CASE iSM + 1 < Len(pieces)
  <2>1. iSM' = iSM + 1 /\ iM' = iM /\ state' = "split"
    BY <1>1, <1>4
  <2>2. /\ NextMetric(l) = iM /\ NextField(l) = pieces[(iSM + 1) + 1].first
        /\ iSM + 1 \in 1..(Len(pieces) - 1)
    BY <1>1, <1>4, PieceToRead DEF l
  <2>3. Ready(out, iM, pieces[iSM + 1].first)' /\ Given' /\ Pieces(pieces, iM)'
    BY <1>1, <1>2, <1>3, <2>1, <2>2, SameBatch
  <2>4. iM # Len(metrics) + 1 /\ iM \in 1..(Len(metrics) + 1)
    BY <1>2
  <2> QED
    BY <1>1, <1>2, <2>1, <2>2, <2>3, <2>4 DEF ReaderInv
<1>5. CASE ~(iSM + 1 < Len(pieces))
  <2>1. NextMetric(l) = iM + 1 /\ NextField(l) = 1
    BY <1>1, <1>5, PieceToRead DEF l
  <2>2. GoTo(iM + 1) /\ iB' = 0
    BY <1>1, <1>2, <1>5
  <2> QED
    BY <1>1, <1>2, <1>3, <2>1, <2>2, GoingOn
<1> QED
  BY <1>4, <1>5

LEMMA PieceOverflowIsRead ==
  ASSUME ReaderInv, NEW p \in Nat \ {0}, ReadPieceOverflow(p)
  PROVE  ReaderInv'
<1> DEFINE l == pieces[iSM + 1]
<1>1. /\ state = "split" /\ LenOf(l) > p /\ Overflow(l, p, "splitOverflow")
      /\ pieces' = pieces /\ iSM' = iSM
      /\ buf' = l /\ state' = "splitOverflow" /\ metrics' = metrics /\ iM' = iM
  BY DEF ReadPieceOverflow, Overflow
<1>2. /\ Given /\ iM \in 1..Len(metrics) /\ Len(metrics) \in Nat
      /\ Pieces(pieces, iM) /\ iSM \in 1..(Len(pieces) - 1)
      /\ l \in AllLines /\ l.metric = iM /\ LenOf(l) \in Nat
      /\ iB = 0 /\ Ready(out, iM, l.first)
  BY <1>1, PieceToRead DEF ReaderInv
<1>3. p < LenOf(l)
  BY <1>1, <1>2
<1>4. Started(out, buf, iB)'
  BY <1>1, <1>2, <1>3, Overflowing
<1>5. Given' /\ Pieces(pieces, iM)'
  BY <1>1, <1>2, SameBatch
<1>6. iM # Len(metrics) + 1 /\ iM \in 1..(Len(metrics) + 1)
  BY <1>2
<1> QED
  BY <1>1, <1>2, <1>4, <1>5, <1>6 DEF ReaderInv

LEMMA RestIsRead ==
  ASSUME ReaderInv, NEW p \in Nat \ {0}, ReadRest(p)
  PROVE  ReaderInv'
<1>1. /\ state \in {"overflow", "splitOverflow"}
      /\ metrics' = metrics /\ pieces' = pieces /\ buf' = buf
  BY DEF ReadRest
<1>2. /\ Given /\ iM \in 1..Len(metrics) /\ Len(metrics) \in Nat /\ Started(out, buf, iB)
      /\ iM # Len(metrics) + 1 /\ iM \in 1..(Len(metrics) + 1)
  BY <1>1, Positions DEF ReaderInv
<1>3. buf \in AllLines
  <2>1. CASE state = "overflow"
    BY <1>2, <2>1, AfterWhole DEF ReaderInv
  <2>2. CASE state = "splitOverflow"
    BY <2>2, PieceToRead DEF ReaderInv
  <2> QED
    BY <1>1, <2>1, <2>2
<1>4. LenOf(buf) \in Nat /\ iB \in Nat \ {0} /\ iB < LenOf(buf)
  BY <1>2, <1>3, LinesOfAll DEF Started
<1>5. Given' /\ Whole(iM)' = Whole(iM')
  BY <1>1, <1>2, SameBatch
<1>6. CASE p < LenOf(buf) - iB /\ More(p)
  <2>1. /\ out' = Append(out, Part(buf, iB, iB + p)) /\ iB' = iB + p
        /\ iM' = iM /\ iSM' = iSM /\ state' = state
    BY <1>6 DEF More
  <2>2. iB + p \in Nat /\ iB < iB + p /\ iB + p < LenOf(buf)
    BY <1>4, <1>6
  <2>3. Started(out', buf, iB + p)
    BY <1>2, <1>3, <2>1, <2>2, ReadOn
  <2>4. Started(out, buf, iB)'
    BY <1>1, <2>1, <2>3, SameBatch
  <2>5. CASE state = "overflow"
    BY <1>1, <1>2, <1>5, <2>1, <2>4, <2>5, SameBatch DEF ReaderInv
  <2>6. CASE state = "splitOverflow"
    <3>1. /\ Pieces(pieces, iM) /\ iSM \in 1..(Len(pieces) - 1) /\ buf = pieces[iSM + 1]
      BY <2>6 DEF ReaderInv
    <3>2. Pieces(pieces, iM)'
      BY <1>1, <2>1, <3>1, SameBatch
    <3> QED
      BY <1>1, <1>2, <1>5, <2>1, <2>4, <2>6, <3>1, <3>2 DEF ReaderInv
  <2> QED
    BY <1>1, <2>5, <2>6
<1>7. CASE EndLine
  <2>1. /\ out' = Append(out, Part(buf, iB, LenOf(buf))) /\ iB' = 0
        /\ IF state = "overflow" THEN GoTo(iM + 1)
           ELSE /\ iSM' = iSM + 1
                /\ IF iSM + 1 = Len(pieces) THEN GoTo(iM + 1)
                   ELSE state' = "split" /\ iM' = iM
    BY <1>7 DEF EndLine
  <2>2. Ready(out', NextMetric(buf), NextField(buf))
    BY <1>2, <1>3, <2>1, ReadOn
  <2>3. CASE state = "overflow"
    <3>1. NextMetric(buf) = iM + 1 /\ NextField(buf) = 1
      BY <1>2, <2>3, AfterWhole DEF ReaderInv
    <3> QED
      BY <1>1, <1>2, <2>1, <2>2, <2>3, <3>1, GoingOn
  <2>4. CASE state = "splitOverflow" /\ iSM + 1 = Len(pieces)
    <3>1. ~(iSM + 1 < Len(pieces)) /\ buf = pieces[iSM + 1]
      BY <2>4, PieceToRead DEF ReaderInv
    <3>2. NextMetric(buf) = iM + 1 /\ NextField(buf) = 1
      BY <2>4, <3>1, PieceToRead
    <3> QED
      BY <1>1, <1>2, <2>1, <2>2, <2>4, <3>2, GoingOn
  <2>5. CASE state = "splitOverflow" /\ iSM + 1 # Len(pieces)
    <3>1. iSM' = iSM + 1 /\ state' = "split" /\ iM' = iM
      BY <2>1, <2>5
    <3>2. iSM + 1 < Len(pieces) /\ buf = pieces[iSM + 1] /\ Pieces(pieces, iM)
      BY <2>5, PieceToRead DEF ReaderInv
    <3>3. /\ NextMetric(buf) = iM /\ NextField(buf) = pieces[(iSM + 1) + 1].first
          /\ iSM + 1 \in 1..(Len(pieces) - 1)
      BY <2>5, <3>2, PieceToRead
    <3>4. Ready(out, iM, pieces[iSM + 1].first)' /\ Pieces(pieces, iM)'
      BY <1>1, <2>2, <3>1, <3>2, <3>3, SameBatch
    <3> QED
      BY <1>1, <1>2, <1>5, <2>1, <3>1, <3>3, <3>4 DEF ReaderInv
  <2> QED
    BY <1>1, <2>3, <2>4, <2>5
<1> QED
  BY <1>6, <1>7 DEF ReadRest

LEMMA ReaderStays ==
  ASSUME ReaderInv, UNCHANGED readerVars
  PROVE  ReaderInv'
<1>1. /\ metrics' = metrics /\ pieces' = pieces /\ buf' = buf /\ state' = state
      /\ iM' = iM /\ iSM' = iSM /\ iB' = iB /\ out' = out
  BY DEF readerVars
<1>2. /\ Given' <=> Given
      /\ \A m : Whole(m)' = Whole(m)
      /\ \A d, m : Pieces(d, m)' <=> Pieces(d, m)
      /\ \A o, m, f : Ready(o, m, f)' <=> Ready(o, m, f)
      /\ \A o, l, n : Started(o, l, n)' <=> Started(o, l, n)
  BY <1>1, SameBatch
<1>3. /\ Ready(out, iM, 1)' <=> Ready(out, iM, 1)
      /\ Ready(out, iM, pieces[iSM + 1].first)' <=> Ready(out, iM, pieces[iSM + 1].first)
      /\ Started(out, buf, iB)' <=> Started(out, buf, iB)
      /\ Pieces(pieces, iM)' <=> Pieces(pieces, iM)
      /\ Whole(iM)' = Whole(iM)
  BY <1>1, <1>2
<1> QED
  BY <1>1, <1>2, <1>3 DEF ReaderInv

LEMMA ReaderStep ==
  ASSUME ReaderInv, NEW p \in Sizes, Read(p)
  PROVE  ReaderInv'
<1>1. p \in Nat \ {0}
  BY SizesAssumption
<1> QED
  BY <1>1, WholesAreRead, FirstPieceIsRead, OverflowIsRead, PieceIsRead,
     PieceOverflowIsRead, RestIsRead, ReaderStays DEF Read

LEMMA ReaderFaithful ==
  ASSUME ReaderInv
  PROVE  Faithful
<1>1. Given /\ OutOK(out)
  BY DEF ReaderInv, Ready, Started
<1>2. /\ out # <<>> => out[1].from = 0 /\ out[1].line.metric = 1 /\ out[1].line.first = 1
      /\ \A i \in 1..(Len(out) - 1) : Continues(out[i], out[i + 1])
  BY <1>1 DEF OutOK
<1>3. ASSUME state = "done"
      PROVE  LET s == out[Len(out)] IN
               /\ s.to = LenOf(s.line) /\ s.line.metric = Len(metrics)
               /\ s.line.last = NumFields(Len(metrics))
  <2> DEFINE s == out[Len(out)]
  <2>1. Ready(out, iM, 1) /\ iM = Len(metrics) + 1 /\ Len(metrics) \in Nat \ {0}
    BY <1>3, Positions DEF ReaderInv
  <2>2. out # <<>>
    BY <2>1 DEF Ready
  <2>3. s.to = LenOf(s.line) /\ iM = NextMetric(s.line) /\ 1 = NextField(s.line)
    BY <2>1, <2>2 DEF Ready
  <2>4. s.line \in AllLines
    BY <1>1, <2>2, PartsRead
  <2> HIDE DEF s
  <2>5. /\ s.line.metric \in 1..Len(metrics) /\ s.line.last \in Nat \ {0}
        /\ s.line.metric \in Nat
        /\ NumFields(s.line.metric) \in Nat /\ s.line.last <= NumFields(s.line.metric)
    BY <1>1, <2>4, LinesOfAll
  <2>6. ~(s.line.last < NumFields(s.line.metric))
    BY <2>3, <2>5 DEF NextField
  <2>7. s.line.metric = Len(metrics)
    BY <2>1, <2>3, <2>5, <2>6 DEF NextMetric
  <2>8. s.line.last = NumFields(Len(metrics))
    BY <2>5, <2>6, <2>7
  <2> QED
    BY <2>3, <2>7, <2>8 DEF s
<1> QED
  BY <1>2, <1>3 DEF Faithful

LEMMA SplitsFit ==
  ASSUME ReaderInv
  PROVE  SplitFits
<1>1. Given /\ DOMAIN metrics = 1..Len(metrics)
  BY GivenType DEF ReaderInv
<1>2. ASSUME NEW m \in DOMAIN metrics, NEW p \in Sizes, NEW i \in DOMAIN Split(m, p)
      PROVE  LET l == Split(m, p)[i] IN LenOf(l) <= p \/ l.first = l.last
  <2>1. p \in Nat /\ m \in 1..Len(metrics)
    BY <1>1, SizesAssumption
  <2>2. Pieces(Split(m, p), m) /\ \A k \in 1..Len(Split(m, p)) : Fits(Split(m, p)[k], p)
    BY <1>1, <2>1, SplitPieces
  <2>3. Split(m, p) \in Seq(Lines(m))
    BY <2>2 DEF Pieces
  <2>4. DOMAIN Split(m, p) = 1..Len(Split(m, p))
    BY <2>3, LenProperties
  <2> QED
    BY <2>2, <2>4 DEF Fits
<1> QED
  BY <1>2 DEF SplitFits

---------------------------------------------------------------------------
(* The servers that read it. *)

\* What is read is only added to.
LEMMA ReadAdds ==
  ASSUME ReaderInv, NEW p \in Sizes, Read(p)
  PROVE  Adds(out, out')
<1> DEFINE P == [line : AllLines, from : Nat, to : Nat]
<1>1. OutOK(out)
  BY DEF ReaderInv, Ready, Started
<1>2. out \in Seq(P) /\ Len(out) \in Nat
  BY <1>1, PartsRead DEF OutOK
<1> HIDE DEF P
<1>3. ASSUME NEW t, out' = Append(out, t)
      PROVE  Adds(out, out')
  <2>1. /\ Len(out') = Len(out) + 1
        /\ \A i \in 1..Len(out) : out'[i] = out[i]
    BY <1>2, <1>3
  <2> QED
    BY <1>2, <2>1 DEF Adds
<1>4. out' = out => Adds(out, out')
  BY <1>2 DEF Adds
<1>5. ReadWhole(p) => Adds(out, out')
  <2>1. p \in Nat \ {0}
    BY SizesAssumption
  <2> QED
    BY <2>1, WholesAreRead
<1>6. ReadFirstPiece(p) => Adds(out, out')
  BY <1>3 DEF ReadFirstPiece
<1>7. ReadOverflow(p) => Adds(out, out')
  BY <1>3 DEF ReadOverflow, Overflow
<1>8. ReadPiece(p) => Adds(out, out')
  BY <1>3 DEF ReadPiece
<1>9. ReadPieceOverflow(p) => Adds(out, out')
  BY <1>3 DEF ReadPieceOverflow, Overflow
<1>10. ReadRest(p) => Adds(out, out')
  BY <1>3 DEF ReadRest, More, EndLine
<1>11. UNCHANGED readerVars => Adds(out, out')
  BY <1>4 DEF readerVars
<1> QED
  BY <1>5, <1>6, <1>7, <1>8, <1>9, <1>10, <1>11 DEF Read

\* No server has taken in a field of a line that another one has.
Apart(l, k) == l.metric = k.metric => l.last < k.first \/ k.last < l.first

\* A server that Write has not gone to, or is at, has taken in nothing. The
\* others have parts read before the current request, no line by two of them.
StoredInv ==
  /\ tried \subseteq Servers
  /\ stored \in [Servers -> Seq([line : AllLines, from : Nat, to : Nat])]
  /\ taken \in Nat /\ taken <= Len(out)
  /\ pc \in {"loop", "send", "sent", "ok", "error"}
  /\ pc \in {"send", "sent"} => cur \in tried /\ stored[cur] = <<>>
  /\ \A s \in Servers \ tried : stored[s] = <<>>
  /\ \A s \in Servers, k \in Nat : k \in 1..Len(stored[s]) =>
       \E i \in 1..Len(out) : stored[s][k] = out[i]
  /\ pc \in {"send", "sent"} => \A s \in Servers, k \in Nat : k \in 1..Len(stored[s]) =>
       \E i \in 1..taken : stored[s][k] = out[i]
  /\ \A s, t \in Servers : s # t => \A k, j \in Nat :
       k \in 1..Len(stored[s]) /\ j \in 1..Len(stored[t])
         /\ stored[s][k].from = 0 /\ stored[t][j].from = 0
           => Apart(stored[s][k].line, stored[t][j].line)

WriteInv == ReaderInv /\ StoredInv

LEMMA WriteInitially == Init => WriteInv
<1> SUFFICES ASSUME Init
             PROVE  WriteInv
  OBVIOUS
<1>1. ReaderInv
  BY ReaderInitially DEF Init
<1>2. tried = {} /\ pc = "loop" /\ taken = 0 /\ out = <<>> /\ stored = [s \in Servers |-> <<>>]
  BY DEF Init, ReaderInit
<1>3. \A s \in Servers : stored[s] = <<>>
  BY <1>2
<1>4. stored \in [Servers -> Seq([line : AllLines, from : Nat, to : Nat])]
  <2>1. <<>> \in Seq([line : AllLines, from : Nat, to : Nat])
    OBVIOUS
  <2> QED
    BY <1>2, <2>1
<1>5. Len(<<>>) = 0 /\ 1..0 = {}
  OBVIOUS
<1>6. \A s \in Servers : 1..Len(stored[s]) = {}
  BY <1>3, <1>5
<1>7. StoredInv
  BY <1>2, <1>3, <1>4, <1>5, <1>6 DEF StoredInv
<1> QED
  BY <1>1, <1>7 DEF WriteInv

\* Where nothing is taken in and more may be read.
LEMMA NothingTaken ==
  ASSUME WriteInv, ReaderInv', metrics' = metrics, Adds(out, out'), stored' = stored,
         tried \subseteq tried', tried' \subseteq Servers,
         taken' \in Nat, taken' <= Len(out'),
         pc' \in {"loop", "send", "sent", "ok", "error"},
         pc' \in {"send", "sent"} => cur' \in tried' /\ stored[cur'] = <<>>,
         pc' \in {"send", "sent"} =>
           \/ taken' = Len(out)
           \/ taken' = taken /\ pc \in {"send", "sent"}
  PROVE  WriteInv'
<1>1. AllLines' = AllLines
  <2>1. \A m : Lines(m)' = Lines(m)
    BY SameBatch DEF Lines
  <2> QED
    BY <2>1 DEF AllLines
<1>2. /\ Len(out) \in Nat /\ Len(out') \in Nat /\ Len(out) <= Len(out')
      /\ \A i \in 1..Len(out) : i \in 1..Len(out') /\ out'[i] = out[i]
  BY DEF Adds
<1>3. taken \in Nat /\ taken <= Len(out) /\ \A i \in 1..taken : i \in 1..Len(out)
  BY <1>2 DEF WriteInv, StoredInv
<1>4. ASSUME NEW s \in Servers, NEW k \in Nat, k \in 1..Len(stored[s])
      PROVE  \E i \in 1..Len(out') : stored[s][k] = out'[i]
  BY <1>2, <1>4 DEF WriteInv, StoredInv
<1>5. ASSUME pc' \in {"send", "sent"}, NEW s \in Servers, NEW k \in Nat, k \in 1..Len(stored[s])
      PROVE  \E i \in 1..taken' : stored[s][k] = out'[i]
  <2>1. CASE taken' = Len(out)
    BY <1>2, <1>5, <2>1 DEF WriteInv, StoredInv
  <2>2. CASE taken' = taken /\ pc \in {"send", "sent"}
    BY <1>2, <1>3, <1>5, <2>2 DEF WriteInv, StoredInv
  <2> QED
    BY <1>5, <2>1, <2>2
<1>6. \A s \in Servers \ tried' : stored[s] = <<>>
  BY DEF WriteInv, StoredInv
<1>7. /\ stored \in [Servers -> Seq([line : AllLines, from : Nat, to : Nat])]
      /\ \A s, t \in Servers : s # t => \A k, j \in Nat :
           k \in 1..Len(stored[s]) /\ j \in 1..Len(stored[t])
             /\ stored[s][k].from = 0 /\ stored[t][j].from = 0
               => Apart(stored[s][k].line, stored[t][j].line)
  BY DEF WriteInv, StoredInv
<1>8. StoredInv'
  BY <1>1, <1>4, <1>5, <1>6, <1>7 DEF StoredInv, Apart
<1> QED
  BY <1>8 DEF WriteInv

\* A server takes in what was read in its request.
LEMMA BodyTaken ==
  ASSUME WriteInv, pc = "sent", Stores, UNCHANGED readerVars, tried' = tried, taken' = taken,
         pc' \in {"loop", "ok"}
  PROVE  WriteInv'
<1> DEFINE P == [line : AllLines, from : Nat, to : Nat]
           n == Len(out) - taken
<1>1. ReaderInv' /\ ReaderInv
  BY ReaderStays DEF WriteInv
<1>2. metrics' = metrics /\ out' = out
  BY DEF readerVars
<1>3. Given /\ OutOK(out) /\ out \in Seq(P) /\ Len(out) \in Nat
  <2>1. Given /\ OutOK(out)
    BY <1>1 DEF ReaderInv, Ready, Started
  <2> QED
    BY <2>1, PartsRead DEF OutOK
<1>4. AllLines' = AllLines
  <2>1. \A m : Lines(m)' = Lines(m)
    BY <1>2, SameBatch DEF Lines
  <2> QED
    BY <1>2, <2>1 DEF AllLines
<1>5. /\ taken \in Nat /\ taken <= Len(out) /\ n \in Nat /\ cur \in Servers /\ cur \in tried
      /\ stored \in [Servers -> Seq(P)] /\ tried \subseteq Servers
  <2>1. /\ taken \in Nat /\ taken <= Len(out) /\ cur \in tried /\ tried \subseteq Servers
        /\ stored \in [Servers -> Seq(P)]
    BY DEF WriteInv, StoredInv
  <2>2. n \in Nat
    BY <1>3, <2>1
  <2> QED
    BY <2>1, <2>2
<1> HIDE DEF P
<1>6. /\ Body \in Seq(P) /\ Len(Body) = n
      /\ \A k \in 1..n : /\ taken + k \in 1..Len(out) /\ Body[k] = out[taken + k]
                         /\ \A i \in 1..taken : i \in 1..(taken + k - 1)
  <2>1. \A k \in 1..n : taken + k \in 1..Len(out) /\ \A i \in 1..taken : i \in 1..(taken + k - 1)
    BY <1>3, <1>5
  <2>2. Body \in Seq(P) /\ Len(Body) = n /\ \A k \in 1..n : Body[k] = out[taken + k]
    <3>1. Body = [k \in 1..n |-> out[taken + k]]
      BY <1>3, <1>5 DEF Body
    <3>2. \A k \in 1..n : out[taken + k] \in P
      BY <1>3, <2>1
    <3> QED
      BY <1>5, <3>1, <3>2
  <2> QED
    BY <2>1, <2>2
<1> HIDE DEF n
<1>7. stored' = [stored EXCEPT ![cur] = Body]
  BY DEF Stores
<1>8. /\ stored' \in [Servers -> Seq(P)] /\ stored'[cur] = Body
      /\ \A s \in Servers : s # cur => stored'[s] = stored[s]
  BY <1>5, <1>6, <1>7
<1>9. /\ \A s \in Servers, k \in Nat : k \in 1..Len(stored[s]) =>
            /\ \E i \in 1..Len(out) : stored[s][k] = out[i]
            /\ \E i \in 1..taken : stored[s][k] = out[i]
      /\ \A s, t \in Servers : s # t => \A k, j \in Nat :
           k \in 1..Len(stored[s]) /\ j \in 1..Len(stored[t])
             /\ stored[s][k].from = 0 /\ stored[t][j].from = 0
               => Apart(stored[s][k].line, stored[t][j].line)
      /\ \A s \in Servers \ tried : stored[s] = <<>>
  BY DEF WriteInv, StoredInv
<1>10. ASSUME NEW i \in 1..taken, NEW k \in 1..n, Body[k].from = 0
       PROVE  Apart(out[i].line, Body[k].line) /\ Apart(Body[k].line, out[i].line)
  <2> DEFINE j == taken + k
  <2>1. j \in 1..Len(out) /\ i \in 1..(j - 1) /\ i \in 1..Len(out) /\ Body[k] = out[j]
    BY <1>3, <1>5, <1>6
  <2>2. out[i].line \in AllLines /\ out[j].line \in AllLines
    BY <1>3, <2>1, PartsRead
  <2>3. Behind(out[i].line, out[j].line.metric, out[j].line.first)
    BY <1>3, <1>10, <2>1 DEF OutOK
  <2>4. out[i].line.metric \in Nat /\ out[j].line.metric \in Nat
    BY <1>3, <2>2, LinesOfAll
  <2> QED
    BY <2>1, <2>3, <2>4 DEF Behind, Apart
<1>11. ASSUME NEW s \in Servers, NEW k \in Nat, k \in 1..Len(stored'[s])
       PROVE  \E i \in 1..Len(out) : stored'[s][k] = out[i]
  <2>1. CASE s = cur
    BY <1>6, <1>8, <1>11, <2>1
  <2>2. CASE s # cur
    BY <1>8, <1>9, <1>11, <2>2
  <2> QED
    BY <2>1, <2>2
<1>12. ASSUME NEW s \in Servers, NEW t \in Servers, s # t, NEW k \in Nat, NEW j \in Nat,
              k \in 1..Len(stored'[s]), j \in 1..Len(stored'[t]),
              stored'[s][k].from = 0, stored'[t][j].from = 0
       PROVE  Apart(stored'[s][k].line, stored'[t][j].line)
  <2>1. CASE s = cur
    <3>1. stored'[s] = Body /\ stored'[t] = stored[t]
      BY <1>8, <1>12, <2>1
    <3>2. PICK i \in 1..taken : stored[t][j] = out[i]
      BY <1>9, <1>12, <3>1
    <3>3. k \in 1..n /\ Body[k].from = 0
      BY <1>6, <1>12, <3>1
    <3> QED
      BY <1>10, <3>1, <3>2, <3>3
  <2>2. CASE t = cur
    <3>1. stored'[t] = Body /\ stored'[s] = stored[s]
      BY <1>8, <1>12, <2>2
    <3>2. PICK i \in 1..taken : stored[s][k] = out[i]
      BY <1>9, <1>12, <3>1
    <3>3. j \in 1..n /\ Body[j].from = 0
      BY <1>6, <1>12, <3>1
    <3> QED
      BY <1>10, <3>1, <3>2, <3>3
  <2>3. CASE s # cur /\ t # cur
    <3>1. stored'[t] = stored[t] /\ stored'[s] = stored[s]
      BY <1>8, <2>3
    <3> QED
      BY <1>9, <1>12, <3>1
  <2> QED
    BY <2>1, <2>2, <2>3
<1>13. \A s \in Servers \ tried : stored'[s] = <<>>
  BY <1>5, <1>8, <1>9
<1>14. StoredInv'
  <2>1. stored' \in [Servers -> Seq([line : AllLines', from : Nat, to : Nat])]
    BY <1>4, <1>8 DEF P
  <2>2. /\ tried' \subseteq Servers /\ taken' \in Nat /\ taken' <= Len(out')
        /\ pc' \in {"loop", "send", "sent", "ok", "error"} /\ ~(pc' \in {"send", "sent"})
    BY <1>2, <1>5
  <2> QED
    BY <1>2, <1>11, <1>12, <1>13, <2>1, <2>2 DEF StoredInv, Apart
<1> QED
  BY <1>1, <1>14 DEF WriteInv

LEMMA WriteStep == WriteInv /\ [Next]_vars => WriteInv'
<1> SUFFICES ASSUME WriteInv, [Next]_vars
             PROVE  WriteInv'
  OBVIOUS
<1>1. /\ ReaderInv /\ tried \subseteq Servers /\ taken \in Nat /\ taken <= Len(out)
      /\ pc \in {"loop", "send", "sent", "ok", "error"}
      /\ pc \in {"send", "sent"} => cur \in tried /\ stored[cur] = <<>>
      /\ \A s \in Servers \ tried : stored[s] = <<>>
  BY DEF WriteInv, StoredInv
<1>2. Len(out) \in Nat
  <2>1. OutOK(out)
    BY <1>1 DEF ReaderInv, Ready, Started
  <2> QED
    BY <2>1, PartsRead
<1>3. ASSUME UNCHANGED readerVars
      PROVE  ReaderInv' /\ metrics' = metrics /\ Adds(out, out') /\ out' = out
  <2>1. metrics' = metrics /\ out' = out
    BY <1>3 DEF readerVars
  <2> QED
    BY <1>1, <1>2, <1>3, <2>1, ReaderStays DEF Adds
<1>4. ASSUME NEW s \in Servers, Try(s)
      PROVE  WriteInv'
  <2>1. /\ UNCHANGED readerVars /\ s \notin tried /\ tried' = tried \cup {s} /\ cur' = s
        /\ pc' = "send" /\ taken' = Len(out) /\ stored' = stored
    BY <1>4 DEF Try
  <2> QED
    BY <1>1, <1>2, <1>3, <2>1, NothingTaken
<1>5. ASSUME Send
      PROVE  WriteInv'
  <2>1. PICK p \in Sizes : Read(p)
    BY <1>5 DEF Send
  <2>2. /\ pc = "send" /\ pc' \in {"send", "sent"} /\ tried' = tried /\ cur' = cur
        /\ taken' = taken /\ stored' = stored
    BY <1>5 DEF Send
  <2>3. ReaderInv' /\ Adds(out, out')
    BY <1>1, <2>1, ReaderStep, ReadAdds
  <2>4. metrics' = metrics
    BY <2>1 DEF Read, ReadWhole, ReadFirstPiece, ReadOverflow, ReadPiece, ReadPieceOverflow,
           ReadRest, Overflow, readerVars
  <2>5. taken' <= Len(out')
    BY <1>1, <1>2, <2>2, <2>3 DEF Adds
  <2> QED
    BY <1>1, <2>2, <2>3, <2>4, <2>5, NothingTaken
<1>6. ASSUME Accept \/ Conflict
      PROVE  WriteInv'
  <2>1. /\ pc = "sent" /\ Stores /\ pc' = "ok" /\ UNCHANGED readerVars
        /\ tried' = tried /\ taken' = taken
    BY <1>6 DEF Accept, Conflict
  <2> QED
    BY <2>1, BodyTaken
<1>7. ASSUME Fail
      PROVE  WriteInv'
  <2>1. /\ pc' = "loop" /\ UNCHANGED readerVars /\ tried' = tried /\ taken' = taken /\ cur' = cur
        /\ stored' = stored \/ (pc = "sent" /\ Stores)
    BY <1>7 DEF Fail
  <2>2. CASE stored' = stored
    BY <1>1, <1>3, <2>1, <2>2, NothingTaken
  <2>3. CASE pc = "sent" /\ Stores
    BY <2>1, <2>3, BodyTaken
  <2> QED
    BY <2>1, <2>2, <2>3
<1>8. ASSUME NotFound \/ Exhausted
      PROVE  WriteInv'
  <2>1. /\ pc' \in {"loop", "error"} /\ UNCHANGED readerVars /\ tried' = tried /\ taken' = taken
        /\ cur' = cur /\ stored' = stored
    BY <1>8 DEF NotFound, Exhausted
  <2> QED
    BY <1>1, <1>3, <2>1, NothingTaken
<1>9. ASSUME UNCHANGED vars
      PROVE  WriteInv'
  <2>1. /\ UNCHANGED readerVars /\ pc' = pc /\ tried' = tried /\ taken' = taken
        /\ cur' = cur /\ stored' = stored
    BY <1>9 DEF vars, writeVars
  <2> QED
    BY <1>1, <1>3, <2>1, NothingTaken
<1> QED
  BY <1>4, <1>5, <1>6, <1>7, <1>8, <1>9 DEF Next

LEMMA TakenInOnce == WriteInv => AtMostOnce
<1> SUFFICES ASSUME WriteInv, NEW s \in Servers, NEW t \in Servers, s # t,
                    NEW f \in Fields(s), f \in Fields(t)
             PROVE  FALSE
  BY DEF AtMostOnce
<1>1. Given
  BY DEF WriteInv, ReaderInv
<1>2. \A r \in Servers : f \in Fields(r) =>
        \E k \in Nat : /\ k \in 1..Len(stored[r]) /\ stored[r][k].from = 0
                       /\ stored[r][k].line \in AllLines
                       /\ \E j \in stored[r][k].line.first..stored[r][k].line.last :
                            f = <<stored[r][k].line.metric, j>>
  <2> SUFFICES ASSUME NEW r \in Servers, f \in Fields(r)
               PROVE  \E k \in Nat : /\ k \in 1..Len(stored[r]) /\ stored[r][k].from = 0
                         /\ stored[r][k].line \in AllLines
                         /\ \E j \in stored[r][k].line.first..stored[r][k].line.last :
                              f = <<stored[r][k].line.metric, j>>
    OBVIOUS
  <2> DEFINE P == [line : AllLines, from : Nat, to : Nat]
             q == stored[r]
  <2>1. q \in Seq(P)
    BY DEF WriteInv, StoredInv
  <2>2. PICK k \in DOMAIN q : /\ q[k].from = 0
                              /\ \E j \in q[k].line.first..q[k].line.last : f = <<q[k].line.metric, j>>
    BY DEF Fields
  <2> HIDE DEF q, P
  <2>3. k \in Nat /\ k \in 1..Len(q) /\ q[k] \in P
    BY <2>1, <2>2
  <2>4. q[k].line \in AllLines
    BY <2>3 DEF P
  <2> QED
    BY <2>2, <2>3, <2>4 DEF q
<1>3. PICK k \in Nat : /\ k \in 1..Len(stored[s]) /\ stored[s][k].from = 0
                       /\ stored[s][k].line \in AllLines
                       /\ \E x \in stored[s][k].line.first..stored[s][k].line.last :
                            f = <<stored[s][k].line.metric, x>>
  BY <1>2
<1>4. PICK j \in Nat : /\ j \in 1..Len(stored[t]) /\ stored[t][j].from = 0
                       /\ stored[t][j].line \in AllLines
                       /\ \E x \in stored[t][j].line.first..stored[t][j].line.last :
                            f = <<stored[t][j].line.metric, x>>
  BY <1>2
<1> DEFINE l == stored[s][k].line
           m == stored[t][j].line
<1>5. Apart(l, m)
  BY <1>3, <1>4 DEF WriteInv, StoredInv
<1>6. PICK x \in l.first..l.last : f = <<l.metric, x>>
  BY <1>3
<1>7. PICK y \in m.first..m.last : f = <<m.metric, y>>
  BY <1>4
<1>8. /\ l.first \in Nat /\ l.last \in Nat /\ m.first \in Nat /\ m.last \in Nat
  BY <1>1, <1>3, <1>4, LinesOfAll
<1> HIDE DEF l, m
<1>9. l.metric = m.metric /\ x = y
  BY <1>6, <1>7
<1> QED
  BY <1>5, <1>6, <1>7, <1>8, <1>9 DEF Apart

---------------------------------------------------------------------------
(* Theorems. *)

LEMMA WriteAlways == Spec => []WriteInv
<1> QED
  BY WriteInitially, WriteStep, PTL DEF Spec

\* reader.go: Whatever buffers the batch is read with, in one request or
\* several, every line is read to its end before the next begins, the lines
\* carry every field of every metric once and in order, and all have been read
\* at io.EOF.
THEOREM BatchReadInFull == Spec => []Faithful
<1>1. WriteInv => Faithful
  BY ReaderFaithful DEF WriteInv
<1> QED
  BY <1>1, WriteAlways, PTL

\* types.go: Split's pieces are no longer than the buffer unless they have a
\* single field, for metrics of any number of fields.
THEOREM PiecesFit == Spec => []SplitFits
<1>1. WriteInv => SplitFits
  BY SplitsFit DEF WriteInv
<1> QED
  BY <1>1, WriteAlways, PTL

\* client.go: The servers share one reader, so that no field is taken in by two
\* of them, even if the answer of the first one was lost.
THEOREM FieldsTakenInOnce == Spec => []AtMostOnce
  BY TakenInOnce, WriteAlways, PTL
=============================================================================
