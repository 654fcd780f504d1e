-------------------------- MODULE TensorFactoryProofs --------------------------
(***************************************************************************)
(* Theorems about TensorFactory: for any shapes, element types, layouts,   *)
(* resources, addresses and offsets.                                       *)
(*                                                                         *)
(* Sums and pitches are recursive functions.  What they are is derived     *)
(* here from the least number principle, with sets of numbers in the       *)
(* place of predicates.                                                    *)
(***************************************************************************)
EXTENDS ProducerSuite, FiniteSetTheorems, WellFoundedInduction, TLAPS

(***************************************************************************)
(* Numbers                                                                 *)
(***************************************************************************)
LEMMA LeastNumber ==
  ASSUME NEW T \in SUBSET Nat, T # {}
  PROVE  \E x \in T : \A y \in T : x <= y
<1> DEFINE R == OpToRel(<, Nat)
<1>1. PICK x \in T : \A y \in T : ~(<<y, x>> \in R)
  <2>1. IsWellFoundedOn(R, Nat)
    BY NatLessThanWellFounded
  <2> HIDE DEF R
  <2>. QED  BY <2>1, WFMin
<1>2. \A y \in T : ~(y < x)
  BY <1>1 DEF OpToRel
<1>. QED  BY <1>2

\* Induction up to n, over the set of the numbers for which it is done.
LEMMA UpTo ==
  ASSUME NEW n \in Nat, NEW P, 0 \in P, \A k \in 1..n : k - 1 \in P => k \in P
  PROVE  (\A k \in 0..n : k \in P) /\ n \in P
<1> DEFINE T == {k \in 0..n : k \notin P}
<1> SUFFICES ASSUME T # {} PROVE FALSE
  OBVIOUS
<1>0. T \in SUBSET Nat
  OBVIOUS
<1>1. PICK x \in T : \A y \in T : x <= y
  <2> HIDE DEF T
  <2>. QED  BY <1>0, LeastNumber
<1>2. x \in 1..n /\ x - 1 \notin T
  BY <1>1
<1>. QED  BY <1>1, <1>2

LEMMA GreatestNumber ==
  ASSUME NEW S \in SUBSET Nat, S # {}, NEW m \in Nat, \A x \in S : x <= m
  PROVE  Max(S) \in S /\ \A x \in S : x <= Max(S)
<1> DEFINE T == {m - x : x \in S}
<1>1. T \in SUBSET Nat /\ T # {}
  <2>1. \A x \in S : m - x \in Nat
    OBVIOUS
  <2>. QED  BY <2>1
<1>2. PICK y \in T : \A z \in T : y <= z
  BY <1>1, LeastNumber
<1>3. PICK x \in S : y = m - x
  BY <1>2
<1>4. \A z \in S : m - x <= m - z
  BY <1>2, <1>3
<1>5. \A z \in S : x >= z
  BY <1>4
<1>. QED  BY <1>5 DEF Max

LEMMA Division ==
  ASSUME NEW a \in Int, NEW b \in Nat \ {0}
  PROVE  /\ a \div b \in Int /\ a % b \in 0..(b - 1)
         /\ a = (a \div b) * b + (a % b)
         /\ a >= 0 => a \div b >= 0
OBVIOUS

LEMMA Remainder ==
  ASSUME NEW q \in Int, NEW b \in Nat \ {0}, NEW r \in 0..(b - 1)
  PROVE  (q * b + r) % b = r
OBVIOUS

\* a is a multiple of b.
Multiple(a, b) == \E q \in Int : a = q * b

LEMMA MultiplesDivide ==
  ASSUME NEW a \in Int, NEW b \in Nat \ {0}
  PROVE  Multiple(a, b) <=> a % b = 0
<1>1. ASSUME NEW q \in Int, a = q * b PROVE a % b = 0
  <2>1. (q * b + 0) % b = 0
    BY Remainder
  <2>. QED  BY <1>1, <2>1
<1>2. ASSUME a % b = 0 PROVE Multiple(a, b)
  <2>1. a = (a \div b) * b /\ a \div b \in Int
    BY <1>2, Division
  <2>. QED  BY <2>1 DEF Multiple
<1>. QED  BY <1>1, <1>2 DEF Multiple

LEMMA MultiplesOfMultiples ==
  ASSUME NEW a \in Int, NEW b \in Int, NEW c \in Int, Multiple(a, b), Multiple(b, c)
  PROVE  Multiple(a, c)
<1>1. PICK q \in Int : a = q * b
  BY DEF Multiple
<1>2. PICK r \in Int : b = r * c
  BY DEF Multiple
<1>3. a = (q * r) * c /\ q * r \in Int
  BY <1>1, <1>2
<1>. QED  BY <1>3 DEF Multiple

LEMMA MultiplesAdd ==
  ASSUME NEW a \in Int, NEW b \in Int, NEW c \in Int, Multiple(a, c), Multiple(b, c)
  PROVE  Multiple(a + b, c) /\ Multiple(a - b, c)
<1>1. PICK q \in Int : a = q * c
  BY DEF Multiple
<1>2. PICK r \in Int : b = r * c
  BY DEF Multiple
<1>3. a + b = (q + r) * c /\ a - b = (q - r) * c /\ q + r \in Int /\ q - r \in Int
  BY <1>1, <1>2
<1>. QED  BY <1>3 DEF Multiple

LEMMA MultiplesTimes ==
  ASSUME NEW a \in Int, NEW c \in Int, NEW x \in Int, Multiple(a, c)
  PROVE  Multiple(a * x, c) /\ Multiple(x * a, c)
<1>1. PICK q \in Int : a = q * c
  BY DEF Multiple
<1>2. a * x = (q * x) * c /\ x * a = (q * x) * c /\ q * x \in Int
  BY <1>1
<1>. QED  BY <1>2 DEF Multiple

\* There is no multiple of b between 0 and b.
LEMMA MultiplesAreFar ==
  ASSUME NEW a \in Int, NEW b \in Nat \ {0}, Multiple(a, b), -b < a, a < b
  PROVE  a = 0
<1>1. PICK q \in Int : a = q * b
  BY DEF Multiple
<1>2. CASE q >= 1
  <2>1. q * b >= 1 * b
    BY <1>2
  <2>. QED  BY <1>1, <2>1
<1>3. CASE q <= -1
  <2>1. q * b <= (-1) * b
    BY <1>3
  <2>. QED  BY <1>1, <2>1
<1>4. CASE q = 0
  BY <1>1, <1>4
<1>. QED  BY <1>2, <1>3, <1>4
-------------------------------------------------------------------------------
(***************************************************************************)
(* Sums                                                                    *)
(***************************************************************************)
Adds(n, f, g) == g = [k \in 0..n |-> IF k = 0 THEN 0 ELSE g[k - 1] + f[k]]

LEMMA LengthOf ==
  ASSUME NEW n \in Nat, NEW S, NEW f \in [1..n -> S]
  PROVE  f \in Seq(S) /\ Len(f) = n /\ DOMAIN f = 1..n
OBVIOUS

LEMMA AddsExists ==
  ASSUME NEW n \in Nat, NEW f \in [1..n -> Int]
  PROVE  \E g : Adds(n, f, g)
<1> DEFINE P == {k \in 0..n : \E g : Adds(k, f, g)}
<1>1. 0 \in P
  <2> DEFINE g == [k \in 0..0 |-> 0]
  <2>1. Adds(0, f, g)
    BY DEF Adds
  <2>. QED  BY <2>1
<1>2. ASSUME NEW k \in 1..n, k - 1 \in P PROVE k \in P
  <2>1. PICK g : Adds(k - 1, f, g)
    BY <1>2
  <2> DEFINE h == [m \in 0..k |-> IF m = k THEN g[k - 1] + f[k] ELSE g[m]]
  <2>2. ASSUME NEW m \in 0..k PROVE h[m] = IF m = 0 THEN 0 ELSE h[m - 1] + f[m]
    <3>1. CASE m = k
      BY <3>1
    <3>2. CASE m # k
      <4>1. m \in 0..(k - 1) /\ h[m] = g[m]
        BY <3>2
      <4>2. g[m] = IF m = 0 THEN 0 ELSE g[m - 1] + f[m]
        BY <2>1, <4>1 DEF Adds
      <4>3. m # 0 => h[m - 1] = g[m - 1]
        BY <4>1
      <4>. QED  BY <4>1, <4>2, <4>3
    <3>. QED  BY <3>1, <3>2
  <2>3. Adds(k, f, h)
    <3>1. h = [m \in 0..k |-> h[m]]
      OBVIOUS
    <3> HIDE DEF h
    <3>. QED  BY <2>2, <3>1 DEF Adds
  <2>. QED  BY <2>3
<1> HIDE DEF P
<1>3. n \in P
  <2>1. \A k \in 1..n : k - 1 \in P => k \in P
    BY <1>2
  <2>. QED  BY <1>1, <2>1, UpTo
<1>. QED  BY <1>3 DEF P

\* The partial sums of f, up to Sum(f).
Sums(n, f, g) ==
  /\ g \in [0..n -> Int]
  /\ g[0] = 0
  /\ \A k \in 1..n : g[k] = g[k - 1] + f[k]
  /\ Sum(f) = g[n]

LEMMA PartialSums ==
  ASSUME NEW n \in Nat, NEW f \in [1..n -> Int]
  PROVE  \E g : Sums(n, f, g)
<1> DEFINE g == CHOOSE g : Adds(n, f, g)
<1>1. Len(f) = n
  BY LengthOf
<1>2. Sum(f) = g[n]
  <2>1. Sum(f) = (CHOOSE h : Adds(Len(f), f, h))[Len(f)]
    BY Zenon DEF Sum, Adds
  <2>. QED  BY <1>1, <2>1
<1>3. Adds(n, f, g)
  BY AddsExists
<1> HIDE DEF g
<1>4. /\ DOMAIN g = 0..n /\ g[0] = 0 /\ g = [k \in 0..n |-> g[k]]
      /\ \A k \in 1..n : g[k] = g[k - 1] + f[k]
  BY <1>3 DEF Adds
<1> DEFINE P == {k \in 0..n : g[k] \in Int}
<1>5. 0 \in P /\ \A k \in 1..n : k - 1 \in P => k \in P
  <2>1. 0 \in P
    BY <1>4
  <2>2. ASSUME NEW k \in 1..n, k - 1 \in P PROVE k \in P
    <3>1. g[k] = g[k - 1] + f[k] /\ g[k - 1] \in Int /\ f[k] \in Int
      BY <1>4, <2>2
    <3>. QED  BY <3>1
  <2>. QED  BY <2>1, <2>2
<1>6. \A k \in 0..n : k \in P
  <2> HIDE DEF P
  <2>. QED  BY <1>5, UpTo
<1>7. g \in [0..n -> Int]
  BY <1>4, <1>6
<1>. QED  BY <1>2, <1>4, <1>7 DEF Sums

LEMMA SumType == ASSUME NEW n \in Nat, NEW f \in [1..n -> Int] PROVE Sum(f) \in Int
<1>1. PICK g : Sums(n, f, g)
  BY PartialSums
<1>. QED  BY <1>1 DEF Sums

LEMMA SumsCompare ==
  ASSUME NEW n \in Nat, NEW f \in [1..n -> Int], NEW h \in [1..n -> Int],
         \A k \in 1..n : f[k] <= h[k]
  PROVE  Sum(f) <= Sum(h)
<1>1. PICK a : Sums(n, f, a)
  BY PartialSums
<1>2. PICK b : Sums(n, h, b)
  BY PartialSums
<1> DEFINE P == {k \in 0..n : a[k] <= b[k]}
<1>3. 0 \in P
  BY <1>1, <1>2 DEF Sums
<1>4. ASSUME NEW k \in 1..n, k - 1 \in P PROVE k \in P
  <2>1. a[k] = a[k - 1] + f[k] /\ b[k] = b[k - 1] + h[k] /\ a[k - 1] <= b[k - 1]
    BY <1>1, <1>2, <1>4 DEF Sums
  <2>2. a[k - 1] \in Int /\ b[k - 1] \in Int /\ f[k] <= h[k] /\ f[k] \in Int /\ h[k] \in Int
    BY <1>1, <1>2 DEF Sums
  <2>. QED  BY <2>1, <2>2
<1>5. n \in P
  <2> HIDE DEF P
  <2>1. \A k \in 1..n : k - 1 \in P => k \in P
    BY <1>4
  <2>. QED  BY <1>3, <2>1, UpTo
<1>. QED  BY <1>1, <1>2, <1>5 DEF Sums

LEMMA SumsSubtract ==
  ASSUME NEW n \in Nat, NEW f \in [1..n -> Int], NEW h \in [1..n -> Int],
         NEW e \in [1..n -> Int], \A k \in 1..n : e[k] = f[k] - h[k]
  PROVE  Sum(e) = Sum(f) - Sum(h)
<1>1. PICK a : Sums(n, f, a)
  BY PartialSums
<1>2. PICK b : Sums(n, h, b)
  BY PartialSums
<1>3. PICK c : Sums(n, e, c)
  BY PartialSums
<1> DEFINE P == {k \in 0..n : c[k] = a[k] - b[k]}
<1>4. 0 \in P
  BY <1>1, <1>2, <1>3 DEF Sums
<1>5. ASSUME NEW k \in 1..n, k - 1 \in P PROVE k \in P
  <2>1. /\ a[k] = a[k - 1] + f[k] /\ b[k] = b[k - 1] + h[k] /\ c[k] = c[k - 1] + e[k]
        /\ c[k - 1] = a[k - 1] - b[k - 1] /\ e[k] = f[k] - h[k]
    BY <1>1, <1>2, <1>3, <1>5 DEF Sums
  <2>2. a[k - 1] \in Int /\ b[k - 1] \in Int /\ f[k] \in Int /\ h[k] \in Int
    BY <1>1, <1>2, SMTT(30) DEF Sums
  <2>3. c[k] = (a[k - 1] - b[k - 1]) + (f[k] - h[k])
    BY <2>1
  <2>4. a[k] - b[k] = (a[k - 1] + f[k]) - (b[k - 1] + h[k])
    BY <2>1
  <2>5. c[k] = a[k] - b[k]
    BY <2>2, <2>3, <2>4
  <2>. QED  BY <2>5
<1>6. n \in P
  <2> HIDE DEF P
  <2>1. \A k \in 1..n : k - 1 \in P => k \in P
    BY <1>5
  <2>. QED  BY <1>4, <2>1, UpTo
<1>. QED  BY <1>1, <1>2, <1>3, <1>6 DEF Sums

LEMMA SumsOfMultiples ==
  ASSUME NEW n \in Nat, NEW f \in [1..n -> Int], NEW m \in Int,
         \A k \in 1..n : Multiple(f[k], m)
  PROVE  Multiple(Sum(f), m)
<1>1. PICK a : Sums(n, f, a)
  BY PartialSums
<1> DEFINE P == {k \in 0..n : Multiple(a[k], m)}
<1>2. 0 \in P
  <2>1. a[0] = 0 * m
    BY <1>1 DEF Sums
  <2>2. Multiple(a[0], m)
    BY <2>1 DEF Multiple
  <2>. QED  BY <2>2
<1>3. ASSUME NEW k \in 1..n, k - 1 \in P PROVE k \in P
  <2>1. /\ a[k] = a[k - 1] + f[k] /\ a[k - 1] \in Int /\ f[k] \in Int
        /\ Multiple(a[k - 1], m) /\ Multiple(f[k], m)
    BY <1>1, <1>3 DEF Sums
  <2>2. Multiple(a[k - 1] + f[k], m)
    BY <2>1, MultiplesAdd
  <2>. QED  BY <2>1, <2>2
<1>4. n \in P
  <2> HIDE DEF P
  <2>1. \A k \in 1..n : k - 1 \in P => k \in P
    BY <1>3
  <2>. QED  BY <1>2, <2>1, UpTo
<1>. QED  BY <1>1, <1>4 DEF Sums

\* A sum of which only one summand is not zero.
LEMMA SumOfOne ==
  ASSUME NEW n \in Nat, NEW f \in [1..n -> Int], NEW d \in 1..n,
         \A k \in 1..n : k # d => f[k] = 0
  PROVE  Sum(f) = f[d]
<1>1. PICK a : Sums(n, f, a)
  BY PartialSums
<1> DEFINE P == {k \in 0..n : a[k] = IF k < d THEN 0 ELSE f[d]}
<1>2. 0 \in P
  BY <1>1 DEF Sums
<1>3. ASSUME NEW k \in 1..n, k - 1 \in P PROVE k \in P
  <2>1. a[k] = a[k - 1] + f[k] /\ f[k] \in Int /\ f[d] \in Int
    BY <1>1 DEF Sums
  <2>2. a[k - 1] = IF k - 1 < d THEN 0 ELSE f[d]
    BY <1>3
  <2>3. k # d => f[k] = 0
    OBVIOUS
  <2>. QED  BY <2>1, <2>2, <2>3
<1>4. n \in P
  <2> HIDE DEF P
  <2>1. \A k \in 1..n : k - 1 \in P => k \in P
    BY <1>3
  <2>. QED  BY <1>2, <2>1, UpTo
<1>. QED  BY <1>1, <1>4 DEF Sums
-------------------------------------------------------------------------------
(***************************************************************************)
(* Strides that nest                                                       *)
(***************************************************************************)
LEMMA AtLeastOne ==
  ASSUME NEW k \in Nat
  PROVE  AtLeast1(k) = (IF k = 0 THEN 1 ELSE k) /\ AtLeast1(k) \in Nat \ {0}
<1> DEFINE m == IF k = 0 THEN 1 ELSE k
<1>1. \A x : (x \in {k, 1} /\ \A y \in {k, 1} : x >= y) <=> x = m
  OBVIOUS
<1> HIDE DEF m
<1>2. (CHOOSE x \in {k, 1} : \A y \in {k, 1} : x >= y) = m
  BY <1>1
<1>. QED  BY <1>2 DEF AtLeast1, Max, m

\* The order of n dimensions.
Permutation(n, p) ==
  /\ p \in [1..n -> 1..n]
  /\ \A d \in 1..n : \E j \in 1..n : p[j] = d

\* What Layout.validate asks of the order and the strides: every stride is a multiple of
\* the one inside of it, and steps over its extent.
Nested(n, shape, p, s) ==
  /\ p \in [1..n -> 1..n] /\ \A d \in 1..n : \E j \in 1..n : p[j] = d
  /\ s \in [1..n -> Int] /\ \A d \in 1..n : s[d] >= 1
  /\ \A j \in 1..(n - 1) :
       Multiple(s[p[j]], s[p[j + 1]]) /\ s[p[j]] >= s[p[j + 1]] * AtLeast1(shape[p[j + 1]])

LEMMA OuterMultiples ==
  ASSUME NEW n \in Nat, NEW shape, NEW p, NEW s, Nested(n, shape, p, s),
         NEW j \in 1..n, NEW m \in 1..j
  PROVE  Multiple(s[p[m]], s[p[j]])
<1> DEFINE P == {t \in 0..(j - 1) : Multiple(s[p[j - t]], s[p[j]])}
<1>1. \A k \in 1..n : p[k] \in 1..n /\ s[p[k]] \in Int
  BY DEF Nested
<1>2. 0 \in P
  <2>1. s[p[j]] = 1 * s[p[j]]
    BY <1>1
  <2>2. Multiple(s[p[j]], s[p[j]])
    BY <2>1 DEF Multiple
  <2>. QED  BY <2>2
<1>3. ASSUME NEW t \in 1..(j - 1), t - 1 \in P PROVE t \in P
  <2> DEFINE k == j - t
  <2>1. k \in 1..(n - 1) /\ k \in 1..n /\ k + 1 \in 1..n /\ j - (t - 1) = k + 1
    OBVIOUS
  <2>2. Multiple(s[p[k]], s[p[k + 1]])
    BY <2>1 DEF Nested
  <2>3. Multiple(s[p[k + 1]], s[p[j]])
    BY <1>3, <2>1
  <2>4. Multiple(s[p[k]], s[p[j]])
    <3> HIDE DEF k
    <3>. QED  BY <1>1, <2>1, <2>2, <2>3, MultiplesOfMultiples
  <2>. QED  BY <2>4
<1>4. j - m \in P
  <2> HIDE DEF P
  <2>1. \A t \in 1..(j - 1) : t - 1 \in P => t \in P
    BY <1>3
  <2>2. \A t \in 0..(j - 1) : t \in P
    BY <1>2, <2>1, UpTo
  <2>. QED  BY <2>2
<1>5. j - (j - m) = m
  OBVIOUS
<1>. QED  BY <1>4, <1>5

\* An index of an array of this shape.
Indexes(n, shape, x) == x \in [1..n -> Nat] /\ \A d \in 1..n : x[d] < shape[d]

LEMMA PositionIs ==
  ASSUME NEW n \in Nat, NEW s, NEW x, DOMAIN x = 1..n
  PROVE  Position(s, x) = Sum([d \in 1..n |-> s[d] * x[d]])
BY DEF Position

LEMMA PositionsInside ==
  ASSUME NEW n \in Nat, NEW shape \in [1..n -> Nat], NEW p, NEW s, Nested(n, shape, p, s),
         NEW x, Indexes(n, shape, x)
  PROVE  Position(s, x) \in Int /\ 0 <= Position(s, x) /\ Position(s, x) < Span(shape, s)
<1> DEFINE f == [d \in 1..n |-> s[d] * x[d]]
           z == [d \in 1..n |-> 0]
           l == [d \in 1..n |-> s[d] * (shape[d] - 1)]
<1>1. ASSUME NEW d \in 1..n
      PROVE  s[d] * x[d] \in Int /\ 0 <= s[d] * x[d] /\ s[d] * (shape[d] - 1) \in Int
             /\ s[d] * x[d] <= s[d] * (shape[d] - 1)
  <2>1. s[d] \in Int /\ s[d] >= 1
    BY DEF Nested
  <2>2. x[d] \in Nat /\ x[d] < shape[d] /\ shape[d] \in Nat
    BY DEF Indexes
  <2> DEFINE a == s[d]
             b == x[d]
             c == shape[d] - 1
  <2>3. a \in Nat /\ b \in Nat /\ c \in Int /\ b <= c
    BY <2>1, <2>2
  <2> HIDE DEF a, b, c
  <2>4. a * b \in Int /\ 0 <= a * b /\ a * c \in Int /\ a * b <= a * c
    BY <2>3
  <2>. QED  BY <2>4 DEF a, b, c
<1>2. /\ f \in [1..n -> Int] /\ z \in [1..n -> Int] /\ l \in [1..n -> Int]
      /\ \A d \in 1..n : z[d] <= f[d] /\ f[d] <= l[d]
  BY <1>1
<1>3. Position(s, x) = Sum(f)
  BY PositionIs DEF Indexes
<1>4. Span(shape, s) = 1 + Sum(l)
  BY DEF Span
<1> HIDE DEF f, l
<1>5. Sum(z) \in Int /\ Sum(f) \in Int /\ Sum(l) \in Int
  BY <1>2, SumType
<1>6. Sum(z) <= Sum(f) /\ Sum(f) <= Sum(l)
  <2> HIDE DEF z
  <2>. QED  BY <1>2, SumsCompare
<1>7. Sum(z) = 0
  <2>1. PICK g : Sums(n, z, g)
    BY <1>2, PartialSums
  <2> DEFINE P == {k \in 0..n : g[k] = 0}
  <2>2. 0 \in P
    BY <2>1 DEF Sums
  <2>3. \A k \in 1..n : k - 1 \in P => k \in P
    BY <2>1 DEF Sums
  <2>4. n \in P
    <3> HIDE DEF P
    <3>. QED  BY <2>2, <2>3, UpTo
  <2>. QED  BY <2>1, <2>4 DEF Sums
<1>. QED  BY <1>3, <1>4, <1>5, <1>6, <1>7

LEMMA PositionsApart ==
  ASSUME NEW n \in Nat, NEW shape \in [1..n -> Nat], NEW p, NEW s, Nested(n, shape, p, s),
         NEW x, Indexes(n, shape, x), NEW y, Indexes(n, shape, y),
         Position(s, x) = Position(s, y)
  PROVE  x = y
<1> SUFFICES ASSUME x # y PROVE FALSE
  OBVIOUS
<1> DEFINE f == [d \in 1..n |-> s[d] * x[d]]
           h == [d \in 1..n |-> s[d] * y[d]]
           e == [d \in 1..n |-> s[d] * (x[d] - y[d])]
<1>1. \A d \in 1..n : s[d] \in Int /\ s[d] >= 1 /\ x[d] \in Nat /\ y[d] \in Nat
  BY DEF Nested, Indexes
<1>2. /\ f \in [1..n -> Int] /\ h \in [1..n -> Int] /\ e \in [1..n -> Int]
      /\ \A d \in 1..n : e[d] = f[d] - h[d]
  BY <1>1
<1>3. Sum(e) = 0
  <2>1. Sum(f) = Sum(h)
    BY PositionIs, ZenonT(40) DEF Indexes
  <2>2. Sum(f) \in Int
    <3> HIDE DEF f
    <3>. QED  BY <1>2, SumType
  <2> HIDE DEF f, h, e
  <2>3. Sum(e) = Sum(f) - Sum(h)
    BY <1>2, SumsSubtract
  <2>. QED  BY <2>1, <2>2, <2>3
\* The innermost dimension in which they differ.
<1>4. PICK j \in 1..n : x[p[j]] # y[p[j]] /\ \A m \in 1..n : m > j => x[p[m]] = y[p[m]]
  <2> DEFINE T == {t \in 0..(n - 1) : x[p[n - t]] # y[p[n - t]]}
  <2>1. PICK d \in 1..n : x[d] # y[d]
    BY DEF Indexes
  <2>2. PICK m \in 1..n : p[m] = d
    BY DEF Nested
  <2>3. n - m \in T
    <3>1. n - m \in 0..(n - 1) /\ n - (n - m) = m
      OBVIOUS
    <3>. QED  BY <2>1, <2>2, <3>1
  <2>4. PICK t \in T : \A u \in T : t <= u
    <3>1. T \in SUBSET Nat
      OBVIOUS
    <3> HIDE DEF T
    <3>. QED  BY <2>3, <3>1, LeastNumber
  <2>5. n - t \in 1..n /\ x[p[n - t]] # y[p[n - t]]
    BY <2>4
  <2>6. ASSUME NEW k \in 1..n, k > n - t PROVE x[p[k]] = y[p[k]]
    <3>1. n - k \in 0..(n - 1) /\ n - k < t /\ n - (n - k) = k
      BY <2>4, <2>6
    <3>2. ASSUME n - k \in T PROVE FALSE
      <4>1. t <= n - k
        <5> HIDE DEF T
        <5>. QED  BY <2>4, <3>2
      <4>. QED  BY <2>4, <3>1, <4>1
    <3>. QED  BY <3>1, <3>2
  <2>. QED  BY <2>5, <2>6
<1> DEFINE a == p[j]
<1>5. a \in 1..n /\ x[a] # y[a]
  BY <1>4 DEF Nested
<1>6. ASSUME NEW d \in 1..n, d # a
      PROVE  e[d] = 0 \/ \E m \in 1..(j - 1) : p[m] = d
  <2>1. PICK m \in 1..n : p[m] = d
    BY DEF Nested
  <2>2. CASE m > j
    <3>1. x[d] = y[d] /\ x[d] - y[d] = 0
      BY <1>1, <1>4, <2>1, <2>2
    <3>2. s[d] * 0 = 0
      BY <1>1
    <3>. QED  BY <3>1, <3>2
  <2>3. CASE m < j
    BY <2>1, <2>3
  <2>4. CASE m = j
    BY <1>6, <2>1, <2>4
  <2>. QED  BY <2>2, <2>3, <2>4
<1>7. /\ e[a] \in Int /\ s[a] * shape[a] \in Int
      /\ e[a] # 0 /\ e[a] < s[a] * shape[a] /\ -(s[a] * shape[a]) < e[a]
  <2> DEFINE b == s[a]
             u == x[a] - y[a]
             v == shape[a]
  <2>1. b \in Int /\ b >= 1 /\ u \in Int /\ u # 0 /\ v \in Nat /\ u < v /\ -v < u
    <3>1. s[a] \in Int /\ s[a] >= 1 /\ x[a] \in Nat /\ y[a] \in Nat /\ x[a] # y[a]
      BY <1>1, <1>5
    <3>2. x[a] < shape[a] /\ y[a] < shape[a] /\ shape[a] \in Nat
      BY <1>5 DEF Indexes
    <3> HIDE DEF a
    <3>. QED  BY <3>1, <3>2
  <2>2. e[a] = b * u
    BY <1>5
  <2> HIDE DEF b, u, v, e
  <2>3. b * u \in Int /\ b * v \in Int /\ b * u # 0 /\ b * u < b * v /\ -(b * v) < b * u
    BY <2>1
  <2>. QED  BY <2>1, <2>2, <2>3 DEF b, v
<1>8. CASE j = 1
  <2>1. \A d \in 1..n : d # a => e[d] = 0
    BY <1>6, <1>8
  <2> HIDE DEF e, a
  <2>. QED  BY <1>2, <1>3, <1>5, <1>7, <2>1, SumOfOne
<1>9. CASE j # 1
  <2> DEFINE M == s[p[j - 1]]
             one == [d \in 1..n |-> IF d = a THEN e[a] ELSE 0]
             rest == [d \in 1..n |-> IF d = a THEN 0 ELSE e[d]]
  <2>1. j - 1 \in 1..(n - 1) /\ j - 1 \in 1..n /\ (j - 1) + 1 = j
    BY <1>9
  <2>2. p[j - 1] \in 1..n /\ M \in Nat \ {0}
    <3>1. p[j - 1] \in 1..n
      BY <2>1 DEF Nested
    <3>. QED  BY <1>1, <3>1
  <2>3. M >= s[a] * shape[a]
    <3>1. M >= s[a] * AtLeast1(shape[a])
      BY <2>1 DEF Nested
    <3>2. x[a] \in Nat /\ x[a] < shape[a]
      BY <1>5 DEF Indexes
    <3>3. shape[a] \in Nat /\ shape[a] # 0
      BY <1>5, <3>2
    <3>. QED  BY <3>1, <3>3, AtLeastOne
  <2>4. ASSUME NEW d \in 1..n PROVE Multiple(rest[d], M)
    <3>1. CASE rest[d] = 0
      <4>1. 0 = 0 * M
        BY <2>2
      <4>. QED  BY <3>1, <4>1 DEF Multiple
    <3>2. CASE rest[d] # 0
      <4>1. d # a /\ rest[d] = e[d] /\ e[d] = s[d] * (x[d] - y[d])
        BY <3>2
      <4>2. PICK m \in 1..(j - 1) : p[m] = d
        BY <1>6, <3>2, <4>1
      <4>3. Multiple(s[d], M)
        BY <2>1, <4>2, OuterMultiples
      <4>4. s[d] \in Int /\ x[d] - y[d] \in Int
        BY <1>1
      <4>5. Multiple(s[d] * (x[d] - y[d]), M)
        <5> HIDE DEF M
        <5>. QED  BY <2>2, <4>3, <4>4, MultiplesTimes
      <4>. QED  BY <4>1, <4>5
    <3>. QED  BY <3>1, <3>2
  <2> HIDE DEF e, f, h, a
  <2>5. /\ one \in [1..n -> Int] /\ rest \in [1..n -> Int]
        /\ \A d \in 1..n : rest[d] = e[d] - one[d]
        /\ \A d \in 1..n : d # a => one[d] = 0
        /\ one[a] = e[a]
    BY <1>2, <1>5
  <2> HIDE DEF one, rest, M
  <2>6. Sum(rest) = Sum(e) - Sum(one)
    <3>1. e \in [1..n -> Int]
      BY <1>2
    <3>2. one \in [1..n -> Int] /\ rest \in [1..n -> Int] /\ \A d \in 1..n : rest[d] = e[d] - one[d]
      BY <2>5
    <3>. QED  BY <3>1, <3>2, SumsSubtract
  <2>7. Sum(one) = e[a]
    BY <1>5, <2>5, SumOfOne
  <2>8. Multiple(Sum(rest), M)
    <3>1. M \in Int /\ rest \in [1..n -> Int] /\ \A d \in 1..n : Multiple(rest[d], M)
      BY <2>2, <2>4, <2>5
    <3>. QED  BY <3>1, SumsOfMultiples
  <2>9. Multiple(-e[a], M)
    BY <1>3, <1>7, <2>6, <2>7, <2>8
  <2>10. -e[a] \in Int /\ -M < -e[a] /\ -e[a] < M
    <3> DEFINE w == s[a] * shape[a]
    <3>1. e[a] \in Int /\ w \in Int /\ e[a] < w /\ -w < e[a] /\ M >= w /\ M \in Int
      BY <1>7, <2>2, <2>3
    <3> HIDE DEF w
    <3>. QED  BY <3>1
  <2>11. -e[a] = 0
    BY <2>2, <2>9, <2>10, MultiplesAreFar
  <2>. QED  BY <1>7, <2>11
<1>. QED  BY <1>8, <1>9
-------------------------------------------------------------------------------
(***************************************************************************)
(* Indices                                                                 *)
(***************************************************************************)
LEMMA Bounded ==
  ASSUME NEW n \in Nat, NEW f \in [1..n -> Nat]
  PROVE  \E m \in Nat : \A k \in 1..n : f[k] <= m
<1> DEFINE P == {k \in 0..n : \E m \in Nat : \A j \in 1..k : f[j] <= m}
<1>1. 0 \in P
  OBVIOUS
<1>2. ASSUME NEW k \in 1..n, k - 1 \in P PROVE k \in P
  <2>1. PICK m \in Nat : \A j \in 1..(k - 1) : f[j] <= m
    BY <1>2
  <2>2. \E u \in Nat : m <= u /\ f[k] <= u
    <3>1. m + f[k] \in Nat /\ m <= m + f[k] /\ f[k] <= m + f[k]
      OBVIOUS
    <3>. QED  BY <3>1
  <2>3. PICK u \in Nat : m <= u /\ f[k] <= u
    BY <2>2
  <2>4. ASSUME NEW j \in 1..k PROVE f[j] <= u
    <3>1. CASE j = k
      BY <2>3, <3>1
    <3>2. CASE j # k
      <4>1. j \in 1..(k - 1) /\ f[j] \in Nat
        BY <3>2
      <4>. QED  BY <2>1, <2>3, <4>1
    <3>. QED  BY <3>1, <3>2
  <2>. QED  BY <2>4, SMTT(30)
<1>3. n \in P
  <2> HIDE DEF P
  <2>1. \A k \in 1..n : k - 1 \in P => k \in P
    BY <1>2
  <2>. QED  BY <1>1, <2>1, UpTo
<1>. QED  BY <1>3

LEMMA GreatestExtent ==
  ASSUME NEW n \in Nat, NEW shape \in [1..n -> Nat]
  PROVE  /\ Max({0} \cup Range(shape)) \in Nat
         /\ \A d \in 1..n : shape[d] <= Max({0} \cup Range(shape))
<1> DEFINE S == {0} \cup Range(shape)
<1>1. \A x : x \in S <=> x = 0 \/ \E d \in 1..n : x = shape[d]
  BY DEF Range
<1>2. PICK m \in Nat : \A d \in 1..n : shape[d] <= m
  BY Bounded
<1> HIDE DEF S
<1>3. S \in SUBSET Nat /\ S # {}
  BY <1>1
<1>4. \A x \in S : x <= m
  BY <1>1, <1>2
<1>5. Max(S) \in S /\ \A x \in S : x <= Max(S)
  BY <1>3, <1>4, GreatestNumber
<1>6. Max(S) \in Nat
  BY <1>3, <1>5
<1>7. \A d \in 1..n : shape[d] \in S
  BY <1>1
<1>. QED  BY <1>5, <1>6, <1>7 DEF S

LEMMA IndicesAre ==
  ASSUME NEW n \in Nat, NEW shape \in [1..n -> Nat]
  PROVE  \A x : x \in Indices(shape) <=> Indexes(n, shape, x)
<1> DEFINE m == Max({0} \cup Range(shape))
<1>1. m \in Nat /\ \A d \in 1..n : shape[d] <= m
  BY GreatestExtent
<1>2. Indices(shape) = {i \in [1..n -> 0..m] : \A d \in 1..n : i[d] < shape[d]}
  BY DEF Indices
<1> HIDE DEF m
<1>3. ASSUME NEW x, x \in Indices(shape) PROVE Indexes(n, shape, x)
  BY <1>1, <1>2, <1>3 DEF Indexes
<1>4. ASSUME NEW x, Indexes(n, shape, x) PROVE x \in Indices(shape)
  <2>1. ASSUME NEW d \in 1..n PROVE x[d] \in 0..m
    <3>1. x[d] \in Nat /\ x[d] < shape[d] /\ shape[d] <= m /\ shape[d] \in Nat
      BY <1>1, <1>4 DEF Indexes
    <3>. QED  BY <1>1, <3>1
  <2>2. x \in [1..n -> 0..m]
    BY <1>4, <2>1 DEF Indexes
  <2>. QED  BY <1>2, <1>4, <2>2 DEF Indexes
<1>. QED  BY <1>3, <1>4

LEMMA IndicesFinite ==
  ASSUME NEW n \in Nat, NEW shape \in [1..n -> Nat]
  PROVE  IsFiniteSet(Indices(shape))
<1> DEFINE m == Max({0} \cup Range(shape))
           I == Indices(shape)
           G == (1..n) \X (0..m)
           F == [x \in I |-> {<<d, x[d]>> : d \in 1..n}]
<1>1. m \in Nat
  BY GreatestExtent
<1>2. I \subseteq [1..n -> 0..m]
  BY DEF Indices
<1> HIDE DEF m, I
<1>3. IsFiniteSet(SUBSET G)
  <2>1. IsFiniteSet(1..n) /\ IsFiniteSet(0..m)
    BY <1>1, FS_Interval
  <2>2. IsFiniteSet(G)
    BY <2>1, FS_Product
  <2> HIDE DEF G
  <2>. QED  BY <2>2, FS_SUBSET
<1>4. ASSUME NEW x \in I PROVE F[x] \in SUBSET G
  <2>1. \A d \in 1..n : x[d] \in 0..m
    BY <1>2
  <2>2. \A d \in 1..n : <<d, x[d]>> \in G
    BY <2>1
  <2> HIDE DEF G
  <2>. QED  BY <2>2
<1>5. ASSUME NEW x \in I, NEW y \in I, F[x] = F[y] PROVE x = y
  <2>1. x \in [1..n -> 0..m] /\ y \in [1..n -> 0..m]
    BY <1>2
  <2>2. ASSUME NEW d \in 1..n PROVE x[d] = y[d]
    <3>1. <<d, x[d]>> \in F[x]
      OBVIOUS
    <3>2. <<d, x[d]>> \in F[y]
      BY <1>5, <3>1
    <3>3. PICK e \in 1..n : <<d, x[d]>> = <<e, y[e]>>
      BY <3>2
    <3>. QED  BY <3>3
  <2>. QED  BY <2>1, <2>2
<1>6. F \in Injection(I, SUBSET G)
  <2>1. F \in [I -> SUBSET G]
    BY <1>4
  <2> HIDE DEF F, G
  <2>2. \A x \in DOMAIN F, y \in DOMAIN F : F[x] = F[y] => x = y
    BY <1>5, <2>1
  <2>. QED  BY <2>1, <2>2 DEF Injection, IsInjective
<1>7. IsFiniteSet(I)
  <2> HIDE DEF F, G
  <2>. QED  BY <1>3, <1>6, FS_Injection
<1>. QED  BY <1>7 DEF I

\* As many values as arguments.
LEMMA ImagesCounted ==
  ASSUME NEW I, IsFiniteSet(I), NEW F, DOMAIN F = I, F = [x \in I |-> F[x]],
         \A x, y \in I : F[x] = F[y] => x = y
  PROVE  Cardinality({F[x] : x \in I}) = Cardinality(I)
<1> DEFINE T == {F[x] : x \in I}
<1>1. F \in [I -> T]
  OBVIOUS
<1>2. \A t \in T : \E x \in I : F[x] = t
  OBVIOUS
<1> HIDE DEF T
<1>3. F \in Bijection(I, T)
  BY <1>1, <1>2 DEF Bijection, Injection, Surjection, IsInjective
<1>4. ExistsBijection(I, T)
  BY <1>3 DEF ExistsBijection
<1>5. Cardinality(T) = Cardinality(I)
  BY <1>4, FS_Bijection
<1>. QED  BY <1>5 DEF T

\* An array has no index if and only if one of its extents is zero.
LEMMA EmptyIndices ==
  ASSUME NEW n \in Nat, NEW shape \in [1..n -> Nat]
  PROVE  Empty(shape) <=> Indices(shape) = {}
<1>1. ASSUME NEW d \in 1..n, shape[d] = 0, NEW x \in Indices(shape) PROVE FALSE
  <2>1. Indexes(n, shape, x)
    BY IndicesAre
  <2>2. x[d] \in Nat /\ x[d] < 0
    BY <1>1, <2>1 DEF Indexes
  <2>. QED  BY <2>2
<1>2. ASSUME \A d \in 1..n : shape[d] # 0 PROVE \E x : x \in Indices(shape)
  <2> DEFINE z == [d \in 1..n |-> 0]
  <2>1. z \in [1..n -> Nat] /\ \A d \in 1..n : z[d] < shape[d]
    BY <1>2
  <2> HIDE DEF z
  <2>2. Indexes(n, shape, z)
    BY <2>1 DEF Indexes
  <2>. QED  BY <2>2, IndicesAre
<1>. QED  BY <1>1, <1>2 DEF Empty
-------------------------------------------------------------------------------
(***************************************************************************)
(* Layout.validate                                                         *)
(***************************************************************************)
LayoutType(l) ==
  /\ l.permutation \in Seq(Nat) /\ l.strides \in Seq(Int)
  /\ l.required \in Int /\ l.base \in Int

LEMMA Permutes ==
  ASSUME NEW n \in Nat, NEW p \in Seq(Nat), IsPermutation(p, n)
  PROVE  p \in [1..n -> 1..n] /\ \A d \in 1..n : \E j \in 1..n : p[j] = d
<1>1. p \in [1..n -> Nat] /\ Range(p) = 1..n
  BY DEF IsPermutation
<1>2. \A j \in 1..n : p[j] \in Range(p)
  BY <1>1 DEF Range
<1>3. \A d \in 1..n : \E j \in 1..n : p[j] = d
  BY <1>1 DEF Range
<1>. QED  BY <1>1, <1>2, <1>3

LEMMA ValidNests ==
  ASSUME NEW shape \in Seq(Nat), NEW l, LayoutType(l), NEW size \in Nat,
         Validate(l, shape, size)
  PROVE  /\ Nested(Len(shape), shape, l.permutation, l.strides)
         /\ size >= 1 /\ l.required >= 0 /\ l.base >= 1
         /\ ~Empty(shape) => Span(shape, l.strides) * size <= l.required
<1> DEFINE n == Len(shape)
           p == l.permutation
           s == l.strides
<1>1. n \in Nat /\ shape \in [1..n -> Nat]
  OBVIOUS
<1>2. p \in [1..n -> 1..n] /\ \A d \in 1..n : \E j \in 1..n : p[j] = d
  <2>1. p \in Seq(Nat) /\ IsPermutation(p, n)
    BY DEF LayoutType, Validate
  <2> HIDE DEF n, p
  <2>. QED  BY <1>1, <2>1, Permutes
<1>3. s \in [1..n -> Int] /\ \A d \in 1..n : s[d] >= 1
  <2>1. s \in Seq(Int) /\ Len(s) = n /\ \A d \in DOMAIN shape : s[d] >= 1
    BY DEF LayoutType, Validate
  <2>2. DOMAIN shape = 1..n
    BY <1>1
  <2> HIDE DEF s, n
  <2>3. s \in [1..n -> Int]
    BY <2>1
  <2>. QED  BY <2>1, <2>2, <2>3
<1>4. ASSUME NEW j \in 1..(n - 1)
      PROVE  Multiple(s[p[j]], s[p[j + 1]]) /\ s[p[j]] >= s[p[j + 1]] * AtLeast1(shape[p[j + 1]])
  <2> DEFINE a == s[p[j]]
             b == s[p[j + 1]]
             m == AtLeast1(shape[p[j + 1]])
  <2>1. j \in 1..n /\ j + 1 \in 1..n
    BY <1>1
  <2>2. p[j] \in 1..n /\ p[j + 1] \in 1..n
    BY <1>2, <2>1
  <2>3. a \in Int /\ b \in Nat \ {0} /\ m \in Nat
    <3>1. \A d \in 1..n : s[d] \in Int /\ s[d] >= 1
      <4> HIDE DEF s, n
      <4>. QED  BY <1>3
    <3>2. shape[p[j + 1]] \in Nat
      BY <1>1, <2>2
    <3>3. m \in Nat
      BY <3>2, AtLeastOne
    <3>4. a \in Int /\ b \in Int /\ b >= 1
      BY <2>2, <3>1
    <3> HIDE DEF a, b, m
    <3>. QED  BY <3>3, <3>4
  <2>4. a % b = 0 /\ a \div b >= m
    <3>1. Len(p) = n
      BY DEF Validate, IsPermutation
    <3>2. <<p[j], p[j + 1]>> \in Neighbours(p)
      BY <3>1 DEF Neighbours
    <3>. QED  BY <3>2 DEF Validate
  <2> HIDE DEF a, b, m
  <2>5. Multiple(a, b)
    BY <2>3, <2>4, MultiplesDivide
  <2>6. a = (a \div b) * b /\ a \div b \in Int
    BY <2>3, <2>4, Division
  <2>7. a >= b * m
    <3> DEFINE q == a \div b
    <3>1. q \in Int /\ q >= m /\ a = q * b
      BY <2>4, <2>6
    <3> HIDE DEF q
    <3>2. q * b >= m * b
      BY <2>3, <3>1
    <3>. QED  BY <2>3, <3>1, <3>2
  <2>. QED  BY <2>5, <2>7 DEF a, b, m
<1>5. Nested(n, shape, p, s)
  BY <1>2, <1>3, <1>4 DEF Nested
<1>. QED  BY <1>5 DEF Validate
-------------------------------------------------------------------------------
(***************************************************************************)
(* _resolve                                                                *)
(***************************************************************************)
LEMMA GcdDivides ==
  ASSUME NEW size \in Nat, NEW unit \in Nat \ {0}
  PROVE  /\ Gcd(size, unit) \in Nat \ {0}
         /\ Multiple(size, Gcd(size, unit)) /\ Multiple(unit, Gcd(size, unit))
         /\ unit \div Gcd(size, unit) \in Nat \ {0}
         /\ unit = (unit \div Gcd(size, unit)) * Gcd(size, unit)
<1> DEFINE S == {d \in 1..unit : size % d = 0 /\ unit % d = 0}
           g == Gcd(size, unit)
<1>1. S \in SUBSET Nat /\ \A x \in S : x <= unit
  OBVIOUS
<1>2. 1 \in S
  <2>1. size = size * 1 /\ unit = unit * 1
    OBVIOUS
  <2>2. Multiple(size, 1) /\ Multiple(unit, 1)
    BY <2>1 DEF Multiple
  <2>. QED  BY <2>2, MultiplesDivide
<1>3. g \in S
  <2>1. g = Max(S)
    BY DEF Gcd
  <2> HIDE DEF S, g
  <2>. QED  BY <1>1, <1>2, <2>1, GreatestNumber
<1>4. g \in 1..unit /\ size % g = 0 /\ unit % g = 0
  BY <1>3
<1> HIDE DEF S, g
<1>5. Multiple(size, g) /\ Multiple(unit, g)
  BY <1>4, MultiplesDivide
<1> DEFINE q == unit \div g
<1>6. q \in Int /\ q >= 0 /\ unit = q * g
  BY <1>4, Division
<1>7. q # 0
  <2> HIDE DEF q
  <2>. QED  BY <1>4, <1>6
<1>. QED  BY <1>4, <1>5, <1>6, <1>7 DEF g

LEMMA CeilToIs ==
  ASSUME NEW k \in Nat, NEW m \in Nat \ {0}
  PROVE  /\ CeilTo(k, m) \in Nat /\ CeilTo(k, m) >= k /\ Multiple(CeilTo(k, m), m)
<1> DEFINE a == k + m - 1
           q == a \div m
           r == a % m
<1>1. a \in Int /\ a >= 0
  OBVIOUS
<1>2. q \in Int /\ r \in 0..(m - 1) /\ a = (q * m) + r
  <2> HIDE DEF a
  <2>. QED  BY <1>1, Division
<1>3. CeilTo(k, m) = q * m
  BY DEF CeilTo
<1> DEFINE c == q * m
<1>4. c \in Int
  <2> HIDE DEF q
  <2>. QED  BY <1>2
<1>5. Multiple(c, m)
  <2> HIDE DEF q
  <2>. QED  BY <1>2 DEF Multiple
<1>6. a = k + m - 1 /\ a = c + r
  BY <1>2
<1> HIDE DEF a, q, r, c
<1>7. c >= k
  BY <1>2, <1>4, <1>6
<1>. QED  BY <1>3, <1>4, <1>5, <1>7 DEF c

\* The pitches of _resolve: what separates two neighbours in the dimension outside of p[j].
Pitched(n, shape, p, c, g) ==
  g = [j \in 1..n |-> IF j = n THEN c ELSE g[j + 1] * AtLeast1(shape[p[j]])]

LEMMA PitchesExist ==
  ASSUME NEW n \in Nat, NEW shape, NEW p, NEW c
  PROVE  \E g : Pitched(n, shape, p, c, g)
<1> DEFINE Upper(k, g) ==
             g = [j \in (n + 1 - k)..n |->
                    IF j = n THEN c ELSE g[j + 1] * AtLeast1(shape[p[j]])]
           P == {k \in 0..n : \E g : Upper(k, g)}
<1>1. 0 \in P
  <2> DEFINE z == [j \in (n + 1 - 0)..n |-> c]
  <2>1. (n + 1 - 0)..n = {}
    OBVIOUS
  <2>2. Upper(0, z)
    BY <2>1
  <2>. QED  BY <2>2
<1>2. ASSUME NEW k \in 1..n, k - 1 \in P PROVE k \in P
  <2>1. PICK g : Upper(k - 1, g)
    BY <1>2
  <2> DEFINE b == n + 1 - k
             v(f, j) == IF j = n THEN c ELSE f[j + 1] * AtLeast1(shape[p[j]])
             h == [j \in b..n |-> IF j = b THEN v(g, b) ELSE g[j]]
  <2>2. b \in 1..n /\ n + 1 - (k - 1) = b + 1
    OBVIOUS
  <2>3. ASSUME NEW j \in b..n PROVE h[j] = v(h, j)
    <3>1. j # n => j + 1 \in (b + 1)..n /\ h[j + 1] = g[j + 1]
      BY <2>2
    <3>2. CASE j = b
      BY <3>1, <3>2
    <3>3. CASE j # b
      <4>1. j \in (b + 1)..n /\ h[j] = g[j]
        BY <2>2, <3>3
      <4>2. g[j] = v(g, j)
        BY <2>1, <2>2, <4>1
      <4>. QED  BY <3>1, <4>1, <4>2
    <3>. QED  BY <3>2, <3>3
  <2>4. h = [j \in b..n |-> h[j]]
    OBVIOUS
  <2>5. h = [j \in b..n |-> v(h, j)]
    <3> HIDE DEF h, v
    <3>. QED  BY <2>3, <2>4
  <2>6. Upper(k, h)
    <3> HIDE DEF h
    <3>. QED  BY <2>5
  <2>7. \E f : Upper(k, f)
    <3> HIDE DEF h, Upper
    <3>. QED  BY <2>6
  <2> HIDE DEF h, Upper
  <2>. QED  BY <2>7
<1>3. n \in P
  <2> HIDE DEF P
  <2>1. \A k \in 1..n : k - 1 \in P => k \in P
    BY <1>2
  <2>. QED  BY <1>1, <2>1, UpTo
<1>4. PICK g : Upper(n, g)
  BY <1>3
<1>5. n + 1 - n = 1
  OBVIOUS
<1>. QED  BY <1>4, <1>5 DEF Pitched

LEMMA PitchesAre ==
  ASSUME NEW n \in Nat, NEW shape, NEW p, NEW c, NEW g, Pitched(n, shape, p, c, g)
  PROVE  /\ g = [j \in 1..n |-> g[j]]
         /\ n > 0 => g[n] = c
         /\ \A j \in 1..(n - 1) : g[j] = g[j + 1] * AtLeast1(shape[p[j]])
<1>1. \A j \in 1..n : g[j] = IF j = n THEN c ELSE g[j + 1] * AtLeast1(shape[p[j]])
  BY Zenon DEF Pitched
<1>2. g = [j \in 1..n |-> g[j]]
  BY Zenon DEF Pitched
<1>3. n > 0 => g[n] = c
  <2>1. n > 0 => n \in 1..n
    OBVIOUS
  <2>. QED  BY <1>1, <2>1
<1>4. ASSUME NEW j \in 1..(n - 1) PROVE g[j] = g[j + 1] * AtLeast1(shape[p[j]])
  <2>1. j \in 1..n /\ j # n
    OBVIOUS
  <2>. QED  BY Zenon, <1>1, <2>1
<1>. QED  BY <1>2, <1>3, <1>4

LEMMA PitchTypes ==
  ASSUME NEW n \in Nat, NEW shape \in [1..n -> Nat], NEW p, Permutation(n, p),
         NEW c \in Nat \ {0}, NEW g, Pitched(n, shape, p, c, g)
  PROVE  /\ g \in [1..n -> Nat \ {0}]
         /\ n > 0 => g[n] = c
         /\ \A j \in 1..(n - 1) : g[j] = g[j + 1] * AtLeast1(shape[p[j]])
<1>1. /\ g = [j \in 1..n |-> g[j]]
      /\ n > 0 => g[n] = c
      /\ \A j \in 1..(n - 1) : g[j] = g[j + 1] * AtLeast1(shape[p[j]])
  BY PitchesAre
<1> DEFINE P == {k \in 0..n : \A j \in 1..n : j > n - k => g[j] \in Nat \ {0}}
<1>2. 0 \in P
  OBVIOUS
<1>3. ASSUME NEW k \in 1..n, k - 1 \in P PROVE k \in P
  <2>1. ASSUME NEW j \in 1..n, j > n - k PROVE g[j] \in Nat \ {0}
    <3>1. CASE j = n
      BY <1>1, <3>1
    <3>2. CASE j # n
      <4>1. j \in 1..(n - 1) /\ j + 1 \in 1..n /\ j + 1 > n - (k - 1)
        BY <2>1, <3>2
      <4>2. g[j + 1] \in Nat \ {0}
        BY <1>3, <4>1
      <4>3. AtLeast1(shape[p[j]]) \in Nat \ {0}
        <5> DEFINE e == shape[p[j]]
        <5>1. e \in Nat
          BY DEF Permutation
        <5> HIDE DEF e
        <5>2. AtLeast1(e) \in Nat \ {0}
          BY <5>1, AtLeastOne
        <5>. QED  BY <5>2 DEF e
      <4>4. \A x, y \in Nat \ {0} : x * y \in Nat \ {0}
        OBVIOUS
      <4>. QED  BY <1>1, <4>1, <4>2, <4>3, <4>4
    <3>. QED  BY <3>1, <3>2
  <2>. QED  BY <2>1
<1>4. n \in P
  <2> HIDE DEF P
  <2>1. \A k \in 1..n : k - 1 \in P => k \in P
    BY <1>3
  <2>. QED  BY <1>2, <2>1, UpTo
<1>5. \A j \in 1..n : g[j] \in Nat \ {0}
  BY <1>4
<1>. QED  BY <1>1, <1>5

LEMMA Quotient ==
  ASSUME NEW q \in Int, NEW b \in Nat \ {0}
  PROVE  (q * b) \div b = q /\ (q * b) % b = 0
<1>1. (q * b + 0) % b = 0
  BY Remainder
<1> DEFINE a == q * b
           d == a \div b
<1>2. a \in Int
  OBVIOUS
<1>3. d \in Int /\ a = d * b
  BY <1>1, <1>2, Division
<1>4. (d - q) * b = 0
  BY <1>3
<1>5. d = q
  <2> HIDE DEF d
  <2>. QED  BY <1>3, <1>4
<1>. QED  BY <1>1, <1>5

LEMMA Injective ==
  ASSUME NEW n \in Nat, NEW p, Permutation(n, p)
  PROVE  \A j, k \in 1..n : p[j] = p[k] => j = k
<1>1. IsFiniteSet(1..n)
  BY FS_Interval
<1>2. p \in Surjection(1..n, 1..n)
  BY DEF Surjection, Permutation
<1>3. p \in Injection(1..n, 1..n)
  BY <1>1, <1>2, FS_SurjSameCardinalityImpliesInj
<1>. QED  BY <1>3 DEF Injection, IsInjective

\* The strides that _resolve makes of its pitches, from the innermost outwards.
Stepped(n, shape, p, size, unit, s, g) ==
  LET step == unit \div Gcd(size, unit) IN
  /\ s \in [1..n -> Nat \ {0}] /\ g \in [1..n -> Nat \ {0}]
  /\ s[p[n]] = 1 /\ \A j \in 1..(n - 1) : s[p[j]] = g[j + 1]
  /\ g[n] >= AtLeast1(shape[p[n]]) /\ Multiple(g[n], step)
  /\ \A j \in 1..(n - 1) : g[j] = g[j + 1] * AtLeast1(shape[p[j]])

LEMMA StridesStep ==
  ASSUME NEW n \in Nat \ {0}, NEW shape \in [1..n -> Nat], NEW p, Permutation(n, p),
         NEW size \in Nat, NEW unit \in Nat \ {0}
  PROVE  \E g : Stepped(n, shape, p, size, unit, Strides(p, shape, size, unit), g)
<1> DEFINE step == unit \div Gcd(size, unit)
           c == CeilTo(AtLeast1(shape[p[n]]), step)
           g == CHOOSE f : Pitched(n, shape, p, c, f)
           place == [d \in 1..n |-> CHOOSE j \in 1..n : p[j] = d]
           s == [d \in 1..n |-> IF place[d] = n THEN 1 ELSE g[place[d] + 1]]
<1>1. Len(shape) = n
  BY LengthOf
<1>2. Strides(p, shape, size, unit) = s
  <2>1. Strides(p, shape, size, unit) =
             [d \in 1..Len(shape) |->
               IF (CHOOSE j \in 1..Len(shape) : p[j] = d) = Len(shape) THEN 1
               ELSE (CHOOSE f : Pitched(Len(shape), shape, p,
                                  CeilTo(AtLeast1(shape[p[Len(shape)]]), step), f))
                      [(CHOOSE j \in 1..Len(shape) : p[j] = d) + 1]]
    BY Zenon DEF Strides, Pitched
  <2>2. Strides(p, shape, size, unit) =
             [d \in 1..n |->
               IF (CHOOSE j \in 1..n : p[j] = d) = n THEN 1
               ELSE g[(CHOOSE j \in 1..n : p[j] = d) + 1]]
    BY <1>1, <2>1
  <2> HIDE DEF g
  <2>. QED  BY <2>2
<1>3. step \in Nat \ {0}
  BY GcdDivides
<1>4. AtLeast1(shape[p[n]]) \in Nat \ {0}
  <2>1. p[n] \in 1..n
    BY DEF Permutation
  <2>2. shape[p[n]] \in Nat
    BY <2>1
  <2>. QED  BY <2>2, AtLeastOne
<1> HIDE DEF step
<1>5. c \in Nat \ {0} /\ c >= AtLeast1(shape[p[n]]) /\ Multiple(c, step)
  <2> DEFINE e == AtLeast1(shape[p[n]])
  <2>1. e \in Nat \ {0}
    BY <1>4
  <2> HIDE DEF e
  <2>2. CeilTo(e, step) \in Nat /\ CeilTo(e, step) >= e /\ Multiple(CeilTo(e, step), step)
    BY <1>3, <2>1, CeilToIs
  <2>. QED  BY <2>1, <2>2 DEF e
<1> HIDE DEF c
<1>6. Pitched(n, shape, p, c, g)
  BY PitchesExist
<1> HIDE DEF g
<1>7. /\ g \in [1..n -> Nat \ {0}] /\ (n > 0 => g[n] = c)
      /\ \A j \in 1..(n - 1) : g[j] = g[j + 1] * AtLeast1(shape[p[j]])
  <2>1. n \in Nat /\ c \in Nat \ {0}
    BY <1>5
  <2>2. \A f : Pitched(n, shape, p, c, f) =>
          /\ f \in [1..n -> Nat \ {0}] /\ (n > 0 => f[n] = c)
          /\ \A j \in 1..(n - 1) : f[j] = f[j + 1] * AtLeast1(shape[p[j]])
    <3>1. ASSUME NEW f, Pitched(n, shape, p, c, f)
          PROVE  f \in [1..n -> Nat \ {0}]
      BY <2>1, <3>1, PitchTypes
    <3>2. ASSUME NEW f, Pitched(n, shape, p, c, f)
          PROVE  n > 0 => f[n] = c
      BY <2>1, <3>2, PitchTypes
    <3>3. ASSUME NEW f, Pitched(n, shape, p, c, f)
          PROVE  \A j \in 1..(n - 1) : f[j] = f[j + 1] * AtLeast1(shape[p[j]])
      BY <2>1, <3>3, PitchesAre, SMTT(30)
    <3>. QED  BY <3>1, <3>2, <3>3
  <2>. QED  BY <1>6, <2>2
<1>8. /\ \A j \in 1..n : place[p[j]] = j
      /\ \A d \in 1..n : place[d] \in 1..n
  <2>1. \A j, k \in 1..n : p[j] = p[k] => j = k
    BY Injective
  <2>2. ASSUME NEW j \in 1..n PROVE place[p[j]] = j
    <3>1. p[j] \in 1..n
      BY DEF Permutation
    <3>2. \A k \in 1..n : p[k] = p[j] <=> k = j
      BY <2>1
    <3>. QED  BY <3>1, <3>2
  <2>3. ASSUME NEW d \in 1..n PROVE place[d] \in 1..n
    <3>1. \E j \in 1..n : p[j] = d
      BY DEF Permutation
    <3>. QED  BY <3>1
  <2> HIDE DEF place
  <2>. QED  BY <2>2, <2>3
<1> HIDE DEF place
<1>9. s[p[n]] = 1 /\ \A j \in 1..(n - 1) : s[p[j]] = g[j + 1]
  <2>1. \A j \in 1..n : p[j] \in 1..n
    BY DEF Permutation
  <2>2. \A j \in 1..n : s[p[j]] = IF j = n THEN 1 ELSE g[j + 1]
    BY <1>8, <2>1
  <2> HIDE DEF s
  <2>. QED  BY <2>2
<1>10. ASSUME NEW d \in 1..n PROVE s[d] \in Nat \ {0}
  <2>1. CASE place[d] = n
    BY <2>1
  <2>2. CASE place[d] # n
    <3>1. place[d] + 1 \in 1..n
      BY <1>8, <2>2
    <3>2. g[place[d] + 1] \in Nat \ {0}
      BY <1>7, <3>1
    <3>. QED  BY <2>2, <3>2
  <2>. QED  BY <2>1, <2>2
<1>11. s \in [1..n -> Nat \ {0}]
  BY <1>10
<1> HIDE DEF s
<1>12. Stepped(n, shape, p, size, unit, s, g)
  BY <1>5, <1>7, <1>9, <1>11, SMTT(30) DEF Stepped, step
<1>. QED  BY <1>2, <1>12

LEMMA StepsNest ==
  ASSUME NEW n \in Nat \ {0}, NEW shape \in [1..n -> Nat], NEW p, Permutation(n, p),
         NEW size \in Nat, NEW unit \in Nat \ {0}, NEW s, NEW g,
         Stepped(n, shape, p, size, unit, s, g)
  PROVE  /\ Nested(n, shape, p, s)
         /\ \A j \in 1..(n - 1) :
              /\ s[p[j]] % s[p[j + 1]] = 0
              /\ s[p[j]] \div s[p[j + 1]] >= AtLeast1(shape[p[j + 1]])
              /\ Multiple(s[p[j]] * size, unit)
<1> DEFINE step == unit \div Gcd(size, unit)
           c == g[n]
<1>1. step \in Nat \ {0}
  BY GcdDivides
<1> HIDE DEF step
<1>3. c \in Nat \ {0} /\ c >= AtLeast1(shape[p[n]]) /\ Multiple(c, step)
  BY DEF Stepped, step
<1>5. /\ g \in [1..n -> Nat \ {0}] /\ g[n] = c
      /\ \A j \in 1..(n - 1) : g[j] = g[j + 1] * AtLeast1(shape[p[j]])
  BY DEF Stepped
<1> HIDE DEF c
<1>7. s[p[n]] = 1 /\ \A j \in 1..(n - 1) : s[p[j]] = g[j + 1]
  BY DEF Stepped
<1>9. s \in [1..n -> Int] /\ \A d \in 1..n : s[d] >= 1
  BY SMTT(30) DEF Stepped
<1>10. ASSUME NEW j \in 1..(n - 1)
       PROVE  \E w \in Nat : s[p[j]] = w * s[p[j + 1]] /\ w >= AtLeast1(shape[p[j + 1]])
  <2>1. CASE j + 1 = n
    <3>1. s[p[j]] = c /\ s[p[j + 1]] = 1
      BY <1>5, <1>7, <2>1
    <3>2. s[p[j]] = c * s[p[j + 1]]
      BY <1>3, <3>1
    <3>. QED  BY <1>3, <2>1, <3>2
  <2>2. CASE j + 1 # n
    <3> DEFINE w == AtLeast1(shape[p[j + 1]])
               u == g[j + 2]
    <3>1. j + 1 \in 1..(n - 1) /\ j + 1 \in 1..n /\ j + 2 \in 1..n /\ (j + 1) + 1 = j + 2
      BY <2>2
    <3>2. s[p[j]] = g[j + 1] /\ s[p[j + 1]] = u /\ g[j + 1] = u * w
      BY <1>5, <1>7, <3>1
    <3>3. w \in Nat \ {0} /\ u \in Nat
      <4> DEFINE e == shape[p[j + 1]]
      <4>1. e \in Nat
        BY <3>1 DEF Permutation
      <4> HIDE DEF e
      <4>2. AtLeast1(e) \in Nat \ {0}
        BY <4>1, AtLeastOne
      <4>3. u \in Nat
        BY <1>5, <3>1
      <4>. QED  BY <4>2, <4>3 DEF e
    <3> HIDE DEF w, u
    <3>4. s[p[j]] = w * s[p[j + 1]] /\ w >= w
      BY <3>2, <3>3
    <3>. QED  BY <3>3, <3>4 DEF w
  <2>. QED  BY <2>1, <2>2
<1>11. ASSUME NEW j \in 1..(n - 1)
       PROVE  /\ Multiple(s[p[j]], s[p[j + 1]])
              /\ s[p[j]] >= s[p[j + 1]] * AtLeast1(shape[p[j + 1]])
              /\ s[p[j]] % s[p[j + 1]] = 0
              /\ s[p[j]] \div s[p[j + 1]] >= AtLeast1(shape[p[j + 1]])
  <2> DEFINE a == s[p[j]]
             b == s[p[j + 1]]
             m == AtLeast1(shape[p[j + 1]])
  <2>1. p[j] \in 1..n /\ p[j + 1] \in 1..n
    <3>1. \A k \in 1..n : p[k] \in 1..n
      BY DEF Permutation
    <3>2. j \in 1..n /\ j + 1 \in 1..n
      OBVIOUS
    <3>. QED  BY Zenon, <3>1, <3>2
  <2>2. PICK w \in Nat : a = w * b /\ w >= m
    BY <1>10
  <2>3. m \in Nat
    <3> DEFINE e == shape[p[j + 1]]
    <3>1. e \in Nat
      BY <2>1
    <3> HIDE DEF e
    <3>2. AtLeast1(e) \in Nat
      BY <3>1, AtLeastOne
    <3>. QED  BY <3>2 DEF e
  <2>4. b \in Nat \ {0}
    <3>1. \A d \in 1..n : s[d] \in Nat \ {0}
      BY <1>9
    <3>. QED  BY Zenon, <2>1, <3>1
  <2> HIDE DEF a, b, m
  <2>5. Multiple(a, b)
    BY <2>2 DEF Multiple
  <2>6. w * b >= m * b /\ m * b = b * m
    BY <2>2, <2>3, <2>4
  <2>7. a % b = 0 /\ a \div b = w
    BY <2>2, <2>4, Quotient
  <2>. QED  BY <2>2, <2>5, <2>6, <2>7 DEF a, b, m
<1>12. Nested(n, shape, p, s)
  BY <1>9, <1>11 DEF Nested, Permutation
<1>13. Multiple(c * size, unit)
  <2> DEFINE d == Gcd(size, unit)
  <2>1. d \in Nat \ {0} /\ Multiple(size, d) /\ unit = step * d
    BY GcdDivides DEF step
  <2> HIDE DEF d
  <2>2. PICK k \in Int : size = k * d
    BY <2>1 DEF Multiple
  <2>3. PICK q \in Int : c = q * step
    BY <1>3 DEF Multiple
  <2>4. c * size = (q * k) * unit /\ q * k \in Int
    <3>1. (q * step) * (k * d) = (q * k) * (step * d)
      BY <1>1, <2>1, <2>2, <2>3
    <3>2. q * k \in Int
      BY <2>2, <2>3
    <3>. QED  BY <2>1, <2>2, <2>3, <3>1, <3>2
  <2>. QED  BY <2>4 DEF Multiple
<1>14. ASSUME NEW j \in 1..(n - 1) PROVE Multiple(s[p[j]] * size, unit)
  <2>1. n - 1 \in 1..n /\ n - 1 \in 1..(n - 1) /\ j \in 1..(n - 1) /\ (n - 1) + 1 = n
    OBVIOUS
  <2>2. s[p[n - 1]] = c
    BY <1>5, <1>7, <2>1
  <2>3. Multiple(s[p[j]], s[p[n - 1]])
    BY <1>12, <2>1, OuterMultiples
  <2>4. PICK q \in Int : s[p[j]] = q * c
    BY <2>2, <2>3 DEF Multiple
  <2>5. s[p[j]] * size = q * (c * size) /\ c * size \in Int
    BY <1>3, <2>4
  <2>6. Multiple(q * (c * size), unit)
    <3> DEFINE t == c * size
    <3>1. t \in Int /\ Multiple(t, unit)
      BY <1>13, <2>5
    <3> HIDE DEF t
    <3>2. unit \in Int /\ q \in Int
      OBVIOUS
    <3>3. Multiple(q * t, unit)
      BY Zenon, <3>1, <3>2, MultiplesTimes
    <3>. QED  BY <3>3 DEF t
  <2>. QED  BY <2>5, <2>6
<1>. QED  BY <1>11, <1>12, <1>14

\* What _resolve makes of an order passes validate, and its lines are `unit` bytes apart,
\* or a multiple of that.
LEMMA Resolves ==
  ASSUME NEW n \in Nat, NEW shape \in [1..n -> Nat], NEW p, Permutation(n, p),
         NEW size \in Nat, NEW unit \in Nat \ {0}
  PROVE  LET s == Strides(p, shape, size, unit) IN
         /\ Nested(n, shape, p, s)
         /\ n > 0 => s[p[n]] = 1
         /\ \A j \in 1..(n - 1) :
              /\ s[p[j]] % s[p[j + 1]] = 0
              /\ s[p[j]] \div s[p[j + 1]] >= AtLeast1(shape[p[j + 1]])
              /\ Multiple(s[p[j]] * size, unit)
<1> DEFINE s == Strides(p, shape, size, unit)
<1>1. CASE n = 0
  <2>1. 1..n = {} /\ 1..(n - 1) = {}
    BY <1>1
  <2>2. DOMAIN s = {} /\ s = [d \in {} |-> s[d]]
    <3>1. Len(shape) = n
      BY LengthOf
    <3>. QED  BY <2>1, <3>1 DEF Strides
  <2> HIDE DEF s
  <2>3. s \in [1..n -> Int]
    BY <2>1, <2>2
  <2>4. Nested(n, shape, p, s)
    BY <2>1, <2>3 DEF Nested, Permutation
  <2>. QED  BY <1>1, <2>1, <2>4 DEF s
<1>2. CASE n # 0
  <2>1. n \in Nat \ {0}
    BY <1>2
  <2>2. PICK g : Stepped(n, shape, p, size, unit, s, g)
    BY <2>1, StridesStep
  <2> HIDE DEF s
  <2>3. s[p[n]] = 1
    BY <2>2 DEF Stepped
  <2>4. Nested(n, shape, p, s)
    BY <2>1, <2>2, StepsNest
  <2>5. \A j \in 1..(n - 1) :
          /\ s[p[j]] % s[p[j + 1]] = 0
          /\ s[p[j]] \div s[p[j + 1]] >= AtLeast1(shape[p[j + 1]])
          /\ Multiple(s[p[j]] * size, unit)
    BY <2>1, <2>2, StepsNest
  <2>. QED  BY <2>3, <2>4, <2>5 DEF s
<1>. QED  BY <1>1, <1>2

LEMMA SpanIs ==
  ASSUME NEW n \in Nat, NEW shape \in [1..n -> Nat], NEW p, NEW s, Nested(n, shape, p, s),
         ~Empty(shape)
  PROVE  Span(shape, s) \in Nat
<1>1. PICK x : x \in Indices(shape)
  BY EmptyIndices
<1>2. Indexes(n, shape, x)
  BY <1>1, IndicesAre
<1>3. Position(s, x) \in Int /\ 0 <= Position(s, x) /\ Position(s, x) < Span(shape, s)
  BY <1>2, PositionsInside
<1>4. Span(shape, s) \in Int
  <2> DEFINE f == [d \in 1..n |-> s[d] * (shape[d] - 1)]
  <2>1. \A d \in 1..n : s[d] * (shape[d] - 1) \in Int
    <3>1. \A d \in 1..n : s[d] \in Int /\ shape[d] - 1 \in Int
      BY DEF Nested
    <3>. QED  BY <3>1
  <2>2. f \in [1..n -> Int]
    BY <2>1
  <2>3. Span(shape, s) = 1 + Sum(f)
    BY DEF Span
  <2> HIDE DEF f
  <2>4. Sum(f) \in Int
    BY <2>2, SumType
  <2>. QED  BY <2>3, <2>4
<1>. QED  BY <1>3, <1>4

LEMMA PolicyOrders ==
  ASSUME NEW policy \in Policies, NEW n \in Nat, NEW device
  PROVE  /\ Order(policy, n) \in Seq(Nat)
         /\ UnitOf(policy, device) \in Nat \ {0} /\ BaseOf(policy, device) \in Nat \ {0}
<1>1. /\ policy.kind = "Aligned" => policy.unit \in Nat \ {0} /\ policy.base \in Nat \ {0}
      /\ Ordering(policy).kind = "Permuted" => Ordering(policy).permutation \in Seq(Nat)
  BY FactoryAssumption
<1>2. Order(policy, n) \in Seq(Nat)
  <2>1. [j \in 1..n |-> n + 1 - j] \in Seq(Nat) /\ [j \in 1..n |-> j] \in Seq(Nat)
    <3>1. /\ [j \in 1..n |-> n + 1 - j] \in [1..n -> Nat]
          /\ [j \in 1..n |-> j] \in [1..n -> Nat]
      OBVIOUS
    <3>. QED  BY <3>1, LengthOf
  <2>. QED  BY <1>1, <2>1 DEF Order
<1>. QED  BY <1>1, <1>2 DEF UnitOf, BaseOf, CpuCacheline, GpuUnit, GpuBase

\* A layout that _resolve made is one that validate accepts.
LEMMA PolicyResolves ==
  ASSUME NEW policy \in Policies, NEW shape \in Seq(Nat), NEW size \in Nat, NEW device, NEW l,
         l = LayoutOf(policy, shape, size, device), l # NoLayout
  PROVE  /\ LayoutType(l)
         /\ l.base = BaseOf(policy, device) /\ l.base \in Nat \ {0}
         /\ size >= 1 => Validate(l, shape, size)
         /\ \A j \in 1..(Len(shape) - 1) :
              Multiple(l.strides[l.permutation[j]] * size, UnitOf(policy, device))
<1> DEFINE n == Len(shape)
           p == Order(policy, n)
           unit == UnitOf(policy, device)
           base == BaseOf(policy, device)
           s == Strides(p, shape, size, unit)
           r == IF Empty(shape) THEN 0 ELSE CeilTo(Span(shape, s) * size, base)
<1>1. n \in Nat /\ shape \in [1..n -> Nat] /\ DOMAIN shape = 1..n
  OBVIOUS
<1>2. p \in Seq(Nat) /\ unit \in Nat \ {0} /\ base \in Nat \ {0}
  BY <1>1, PolicyOrders
<1>3. /\ IsPermutation(p, n)
      /\ l = [permutation |-> p, strides |-> s, required |-> r, base |-> base]
  BY DEF LayoutOf, Resolve
<1> HIDE DEF p, unit, base
<1>4. Permutation(n, p)
  BY <1>1, <1>2, <1>3, Permutes DEF Permutation
<1>5. /\ Nested(n, shape, p, s)
      /\ n > 0 => s[p[n]] = 1
      /\ \A j \in 1..(n - 1) :
           /\ s[p[j]] % s[p[j + 1]] = 0
           /\ s[p[j]] \div s[p[j + 1]] >= AtLeast1(shape[p[j + 1]])
           /\ Multiple(s[p[j]] * size, unit)
  BY <1>1, <1>2, <1>4, Resolves
<1> HIDE DEF s
<1>6. s \in Seq(Int) /\ Len(s) = n /\ \A d \in 1..n : s[d] >= 1
  <2>1. s \in [1..n -> Int] /\ \A d \in 1..n : s[d] >= 1
    BY <1>5 DEF Nested
  <2>. QED  BY <1>1, <2>1, LengthOf
<1>7. r \in Nat /\ (~Empty(shape) => Span(shape, s) * size <= r)
  <2>1. CASE Empty(shape)
    BY <2>1
  <2>2. CASE ~Empty(shape)
    <3> DEFINE k == Span(shape, s)
    <3>1. k \in Nat
      <4> HIDE DEF n
      <4>. QED  BY <1>1, <1>5, <2>2, SpanIs
    <3> HIDE DEF k
    <3>2. k * size \in Nat
      BY <3>1
    <3>3. CeilTo(k * size, base) \in Nat /\ CeilTo(k * size, base) >= k * size
      BY <1>2, <3>2, CeilToIs
    <3>. QED  BY <2>2, <3>2, <3>3 DEF k
  <2>. QED  BY <2>1, <2>2
<1> HIDE DEF r
<1>8. LayoutType(l)
  BY <1>2, <1>3, <1>6, <1>7 DEF LayoutType
<1>9. ASSUME size >= 1 PROVE Validate(l, shape, size)
  <2>1. UnitInnermost(l)
    <3>1. Len(p) = n
      BY <1>3 DEF IsPermutation
    <3>2. p # <<>> => n > 0
      BY <1>1, <1>2, <3>1
    <3>. QED  BY <1>3, <1>5, <3>1, <3>2 DEF UnitInnermost
  <2>2. \A q \in Neighbours(p) : s[q[1]] % s[q[2]] = 0 /\ s[q[1]] \div s[q[2]] >= AtLeast1(shape[q[2]])
    <3>1. Len(p) = n
      BY <1>3 DEF IsPermutation
    <3>2. ASSUME NEW q \in Neighbours(p)
          PROVE  s[q[1]] % s[q[2]] = 0 /\ s[q[1]] \div s[q[2]] >= AtLeast1(shape[q[2]])
      <4>1. PICK j \in 1..(n - 1) : q = <<p[j], p[j + 1]>>
        BY <3>1 DEF Neighbours
      <4>2. q[1] = p[j] /\ q[2] = p[j + 1]
        BY <4>1
      <4>. QED  BY <1>5, <4>2
    <3>. QED  BY <3>2
  <2>3. base >= 1 /\ r >= 0
    BY <1>2, <1>7
  <2>4. \A d \in DOMAIN shape : s[d] >= 1
    BY <1>1, <1>6
  <2>. QED  BY <1>3, <1>6, <1>7, <1>9, <2>1, <2>2, <2>3, <2>4 DEF Validate
<1>. QED  BY <1>2, <1>3, <1>5, <1>8, <1>9 DEF unit, base
-------------------------------------------------------------------------------
(***************************************************************************)
(* Element types                                                           *)
(***************************************************************************)
LEMMA AliasesCount ==
  ASSUME NEW name
  PROVE  FromString(name).bits \in Nat /\ FromString(name).lanes \in Nat
BY DEF FromString, ALIASES, DType, NoDType

LEMMA TypesCount ==
  ASSUME NEW o, Countable(o)
  PROVE  /\ FromAny(o).bits \in Nat /\ FromAny(o).lanes \in Nat
         /\ DTypeLike(o).bits \in Nat /\ DTypeLike(o).lanes \in Nat
<1>1. ASSUME NEW kind, NEW itemsize \in Nat
      PROVE  FromKind(kind, itemsize).bits \in Nat /\ FromKind(kind, itemsize).lanes \in Nat
  BY DEF FromKind, DType, NoDType
<1>2. NoDType.bits \in Nat /\ NoDType.lanes \in Nat
  BY DEF NoDType, DType
<1>3. FromAny(o).bits \in Nat /\ FromAny(o).lanes \in Nat
  BY <1>1, <1>2, AliasesCount DEF FromAny, Countable
<1>. QED  BY <1>3, AliasesCount DEF DTypeLike

LEMMA SizesCount ==
  ASSUME NEW d, d.bits \in Nat, d.lanes \in Nat
  PROVE  /\ ItemSize(d) \in Nat
         /\ d.bits >= 1 /\ d.lanes >= 1 => ItemSize(d) >= 1
<1> DEFINE a == d.bits * d.lanes
<1>1. a \in Nat
  OBVIOUS
<1>2. d.bits >= 1 /\ d.lanes >= 1 => a >= 1
  OBVIOUS
<1>3. ItemSize(d) = (a + 7) \div 8
  BY DEF ItemSize
<1> HIDE DEF a
<1>. QED  BY <1>1, <1>2, <1>3
-------------------------------------------------------------------------------
(***************************************************************************)
(* The inductive invariant                                                 *)
(***************************************************************************)
\* The element types that some spelling names.
Types == {DTypeLike(o) : o \in Objects \cup {a.dtype : a \in Arrays}} \ {NoDType}

LEMMA TypesAre ==
  /\ \A d \in Types : d.bits \in Nat /\ d.lanes \in Nat /\ ItemSize(d) \in Nat
  /\ \A o \in Objects : FromAny(o) # NoDType => FromAny(o) \in Types
  /\ \A o \in Objects \cup {a.dtype : a \in Arrays} : DTypeLike(o) # NoDType => DTypeLike(o) \in Types
<1>1. ASSUME NEW d \in Types PROVE d.bits \in Nat /\ d.lanes \in Nat /\ ItemSize(d) \in Nat
  <2>1. PICK o \in Objects \cup {a.dtype : a \in Arrays} : d = DTypeLike(o)
    BY DEF Types
  <2>2. Countable(o)
    BY <2>1, FactoryAssumption
  <2>3. d.bits \in Nat /\ d.lanes \in Nat
    BY <2>1, <2>2, TypesCount
  <2>. QED  BY <2>3, SizesCount
<1>2. ASSUME NEW o \in Objects, FromAny(o) # NoDType PROVE FromAny(o) \in Types
  BY <1>2 DEF Types, DTypeLike
<1>. QED  BY <1>1, <1>2 DEF Types

RequestType(r) ==
  /\ r.shape \in Seq(Nat)
  /\ r.dtype \in Types
  /\ r.layout \in Policies \cup HandBuilt
  /\ r.mr \in Resources /\ r.mr.device = r.device

HasTensor == pc \in {"made", "viewed", "answered"}
HasBuffer == pc = "allocated" \/ HasTensor
HasLayout == pc = "resolved" \/ HasBuffer

RequestInv == (pc = "asked" \/ HasLayout) => RequestType(request)

LayoutInv == HasLayout => layout = Resolved(request) /\ layout # NoLayout

BufferInv ==
  HasBuffer =>
    /\ buffer \in [ptr : Addresses, nbytes : {layout.required + pad}, closed : BOOLEAN]
    /\ buffer.ptr % request.mr.guarantee = 0
    /\ pad = Padding(layout, request.mr)

TensorType(t) ==
  /\ t.shape \in Seq(Nat)
  /\ t.dtype \in Types
  /\ LayoutType(t.layout)
  /\ t.offset \in Nat

TensorInv ==
  HasTensor =>
    /\ TensorType(tensor) /\ tensor.dtype = request.dtype
    /\ Accepts(tensor.shape, tensor.dtype, tensor.layout, tensor.offset)

\* The first tensor is the one that was asked for.
FirstInv ==
  pc = "made" =>
    /\ tensor.shape = request.shape /\ tensor.layout = layout /\ tensor.offset = Offset
    /\ tensor.dtype = request.dtype

CapsuleInv == pc = "answered" => call \in Calls /\ capsule = Answer(tensor, call)

FactoryInv ==
  RequestInv /\ LayoutInv /\ BufferInv /\ TensorInv /\ FirstInv /\ CapsuleInv

LEMMA FactoryInit == Init => FactoryInv
BY DEF Init, FactoryInv, RequestInv, LayoutInv, BufferInv, TensorInv, FirstInv, CapsuleInv,
       HasLayout, HasBuffer, HasTensor

LEMMA CalledAsks ==
  ASSUME Called
  PROVE  /\ pc' \in {"asked", "refused"} /\ (pc' = "asked" => RequestType(request'))
         /\ UNCHANGED <<layout, buffer, pad, tensor, call, capsule>>
<1>1. ASSUME NEW shape \in Seq(Nat), NEW dtype, dtype # NoDType => dtype \in Types,
             NEW means, NEW device, NEW l \in Policies \cup HandBuilt, NEW mr \in Resources,
             Ask(shape, dtype, means, device, l, mr)
      PROVE  /\ pc' \in {"asked", "refused"} /\ (pc' = "asked" => RequestType(request'))
             /\ UNCHANGED <<layout, buffer, pad, tensor, call, capsule>>
  BY <1>1 DEF Ask, RequestType
<1>2. PICK l \in Policies \cup HandBuilt, mr \in Resources :
        \/ \E shape \in Shapes, object \in Objects, device \in {r.device : r \in Resources} :
             EmptyOf(shape, object, device, l, mr)
        \/ \E array \in Arrays, object \in Optional(Objects),
              device \in Optional({r.device : r \in Resources}) :
             EmptyLike(array, object, device, l, mr)
  BY DEF Called
<1>3. ASSUME NEW shape \in Shapes, NEW object \in Objects, NEW device,
             EmptyOf(shape, object, device, l, mr)
      PROVE  /\ pc' \in {"asked", "refused"} /\ (pc' = "asked" => RequestType(request'))
             /\ UNCHANGED <<layout, buffer, pad, tensor, call, capsule>>
  <2>1. shape \in Seq(Nat) /\ (FromAny(object) # NoDType => FromAny(object) \in Types)
    BY FactoryAssumption, TypesAre
  <2>2. Ask(shape, FromAny(object), object.means, device, l, mr)
    BY <1>3 DEF EmptyOf
  <2>. QED  BY <1>1, <2>1, <2>2
<1>4. ASSUME NEW array \in Arrays, NEW object \in Optional(Objects), NEW device,
             EmptyLike(array, object, device, l, mr)
      PROVE  /\ pc' \in {"asked", "refused"} /\ (pc' = "asked" => RequestType(request'))
             /\ UNCHANGED <<layout, buffer, pad, tensor, call, capsule>>
  <2> DEFINE like == IF object = <<>> THEN array.dtype ELSE object[1]
             on == IF device = <<>> THEN array.device ELSE device[1]
             dtype == IF on \in DeviceTypes THEN DTypeLike(like) ELSE NoDType
  <2>1. like \in Objects \cup {a.dtype : a \in Arrays}
    BY DEF Optional
  <2>2. array.shape \in Seq(Nat)
    BY FactoryAssumption
  <2>3. Ask(array.shape, dtype, like.means, on, l, mr)
    BY <1>4 DEF EmptyLike
  <2> HIDE DEF like, on
  <2>4. dtype # NoDType => dtype \in Types
    BY <2>1, TypesAre
  <2> HIDE DEF dtype
  <2>. QED  BY <1>1, <2>2, <2>3, <2>4
<1>. QED  BY <1>2, <1>3, <1>4

LEMMA LayoutsResolve ==
  ASSUME NEW r, RequestType(r), NEW l, l = Resolved(r), l # NoLayout
  PROVE  /\ LayoutType(l) /\ l.base \in Nat \ {0}
         /\ ItemSize(r.dtype) >= 1 => Validate(l, r.shape, ItemSize(r.dtype))
<1> DEFINE size == ItemSize(r.dtype)
<1>1. size \in Nat /\ r.shape \in Seq(Nat)
  BY TypesAre DEF RequestType
<1>2. CASE IsPolicy(r.layout)
  <2>1. l = LayoutOf(r.layout, r.shape, size, r.device) /\ r.layout \in Policies
    BY <1>2 DEF Resolved, IsPolicy
  <2> HIDE DEF size
  <2>2. LayoutType(l) /\ l.base \in Nat \ {0}
    BY <1>1, <2>1, PolicyResolves
  <2>3. size >= 1 => Validate(l, r.shape, size)
    BY <1>1, <2>1, PolicyResolves
  <2>. QED  BY <2>2, <2>3 DEF size
<1>3. CASE ~IsPolicy(r.layout)
  <2>1. Validate(r.layout, r.shape, size) /\ l = r.layout
    BY <1>3 DEF Resolved
  <2>2. r.layout \in HandBuilt
    BY <1>3 DEF RequestType, IsPolicy
  <2>3. LayoutType(r.layout)
    BY <2>2, FactoryAssumption DEF LayoutType
  <2>4. r.layout.base \in Nat \ {0}
    BY <2>1, <2>3 DEF Validate, LayoutType
  <2>. QED  BY <2>1, <2>3, <2>4
<1>. QED  BY <1>2, <1>3

LEMMA OffsetsCount ==
  ASSUME HasBuffer, RequestInv, LayoutInv, BufferInv, ItemSize(request.dtype) >= 1
  PROVE  /\ Offset \in Nat /\ buffer.ptr \in Nat \ {0} /\ layout.required \in Int
         /\ Offset * ItemSize(request.dtype) <= pad /\ pad \in Nat
<1> DEFINE size == ItemSize(request.dtype)
           m == (-buffer.ptr) % layout.base
<1>1. size \in Nat \ {0}
  BY TypesAre DEF RequestInv, RequestType, HasLayout
<1>2. layout.base \in Nat \ {0} /\ layout.required \in Int
  <2>1. RequestType(request) /\ layout = Resolved(request) /\ layout # NoLayout
    BY DEF RequestInv, LayoutInv, HasLayout
  <2>2. LayoutType(layout) /\ layout.base \in Nat \ {0}
    BY <2>1, LayoutsResolve
  <2>. QED  BY <2>2 DEF LayoutType
<1>3. buffer.ptr \in Nat \ {0}
  BY FactoryAssumption DEF BufferInv
<1>4. pad \in Nat /\ (pad = 0 \/ pad = layout.base)
  BY <1>2 DEF BufferInv, Padding
<1>5. m \in Nat /\ m < layout.base
  <2> DEFINE a == -buffer.ptr
             b == layout.base
  <2>1. a \in Int /\ b \in Nat \ {0}
    BY <1>2, <1>3
  <2> HIDE DEF a, b
  <2>2. a % b \in 0..(b - 1)
    BY <2>1, Division
  <2>3. a % b \in Nat /\ a % b < b
    BY <2>1, <2>2
  <2>. QED  BY <2>3 DEF a, b
<1>6. CASE pad = 0
  <2>1. Offset = 0
    BY <1>6 DEF Offset
  <2>2. 0 * size = 0
    BY <1>1
  <2>. QED  BY <1>2, <1>3, <1>4, <1>6, <2>1, <2>2
<1>7. CASE pad # 0
  <2>1. Offset = IF m % size = 0 THEN m \div size ELSE 0
    BY <1>7 DEF Offset, AlignedElementOffset
  <2> HIDE DEF m, size
  <2>2. m = (m \div size) * size + (m % size) /\ m \div size \in Int /\ m \div size >= 0
    <3>1. m \in Int /\ m >= 0
      BY <1>5
    <3>2. m = (m \div size) * size + (m % size) /\ m \div size \in Int
      BY Zenon, <1>1, <3>1, Division
    <3>3. m \div size >= 0
      BY Zenon, <1>1, <3>1, Division
    <3>. QED  BY <3>2, <3>3
  <2>3. CASE m % size = 0
    <3> DEFINE q == m \div size
    <3>1. Offset = q /\ q \in Nat /\ m = q * size
      BY <1>1, <2>1, <2>2, <2>3
    <3> HIDE DEF q
    <3>. QED  BY <1>2, <1>3, <1>4, <1>5, <1>7, <3>1 DEF size
  <2>4. CASE m % size # 0
    <3>1. Offset = 0 /\ 0 * size = 0
      BY <1>1, <2>1, <2>4
    <3>. QED  BY <1>2, <1>3, <1>4, <3>1 DEF size
  <2>. QED  BY <2>3, <2>4
<1>. QED  BY <1>6, <1>7

LEMMA RequestsStay == FactoryInv /\ [Next]_vars => RequestInv'
<1> SUFFICES ASSUME FactoryInv, [Next]_vars PROVE RequestInv'
  OBVIOUS
<1> USE DEF RequestInv, HasLayout, HasBuffer, HasTensor
<1>0. RequestInv
  BY DEF FactoryInv
<1>1. CASE Called
  BY <1>1, CalledAsks
<1>2. CASE ResolveLayout
  BY <1>0, <1>2 DEF ResolveLayout
<1>3. CASE \E ptr \in Addresses : Allocate(ptr)
  BY <1>0, <1>3 DEF Allocate
<1>4. CASE AllocateFails
  BY <1>4 DEF AllocateFails
<1>5. CASE Construct
  BY <1>0, <1>5 DEF Construct
<1>6. CASE FreeBuffer
  BY <1>0, <1>6 DEF FreeBuffer
<1>7. CASE \E shape \in Shapes, l \in HandBuilt \cup {layout}, offset \in Offsets,
              readOnly \in BOOLEAN : View(shape, l, offset, readOnly)
  BY <1>0, <1>7 DEF View
<1>8. CASE \E c \in Calls : Export(c)
  BY <1>0, <1>8 DEF Export
<1>9. CASE StartOver
  BY <1>9 DEF StartOver
<1>10. CASE UNCHANGED vars
  BY <1>0, <1>10 DEF vars
<1>. QED  BY <1>1, <1>2, <1>3, <1>4, <1>5, <1>6, <1>7, <1>8, <1>9, <1>10 DEF Next

LEMMA LayoutsStay == FactoryInv /\ [Next]_vars => LayoutInv'
<1> SUFFICES ASSUME FactoryInv, [Next]_vars PROVE LayoutInv'
  OBVIOUS
<1> USE DEF LayoutInv, HasLayout, HasBuffer, HasTensor
<1>0. LayoutInv
  BY DEF FactoryInv
<1>1. CASE Called
  BY <1>1, CalledAsks
<1>2. CASE ResolveLayout
  BY <1>2 DEF ResolveLayout, Resolved, IsPolicy
<1>3. CASE \E ptr \in Addresses : Allocate(ptr)
  BY <1>0, <1>3 DEF Allocate, Resolved, IsPolicy
<1>4. CASE AllocateFails
  BY <1>4 DEF AllocateFails
<1>5. CASE Construct
  BY <1>0, <1>5 DEF Construct, Resolved, IsPolicy
<1>6. CASE FreeBuffer
  BY <1>0, <1>6 DEF FreeBuffer, Resolved, IsPolicy
<1>7. CASE \E shape \in Shapes, l \in HandBuilt \cup {layout}, offset \in Offsets,
              readOnly \in BOOLEAN : View(shape, l, offset, readOnly)
  BY <1>0, <1>7 DEF View, Resolved, IsPolicy
<1>8. CASE \E c \in Calls : Export(c)
  BY <1>0, <1>8 DEF Export, Resolved, IsPolicy
<1>9. CASE StartOver
  BY <1>9 DEF StartOver
<1>10. CASE UNCHANGED vars
  BY <1>0, <1>10 DEF vars, Resolved, IsPolicy
<1>. QED  BY <1>1, <1>2, <1>3, <1>4, <1>5, <1>6, <1>7, <1>8, <1>9, <1>10 DEF Next

LEMMA BuffersStay == FactoryInv /\ [Next]_vars => BufferInv'
<1> SUFFICES ASSUME FactoryInv, [Next]_vars PROVE BufferInv'
  OBVIOUS
<1> USE DEF BufferInv, HasBuffer, HasTensor
<1>0. BufferInv
  BY DEF FactoryInv
<1>1. CASE Called
  BY <1>1, CalledAsks
<1>2. CASE ResolveLayout
  BY <1>2 DEF ResolveLayout
<1>3. CASE \E ptr \in Addresses : Allocate(ptr)
  BY <1>3 DEF Allocate, Padding
<1>4. CASE AllocateFails
  BY <1>4 DEF AllocateFails
<1>5. CASE Construct
  BY <1>0, <1>5 DEF Construct, Padding
<1>6. CASE FreeBuffer
  <2>1. /\ buffer \in [ptr : Addresses, nbytes : {layout.required + pad}, closed : BOOLEAN]
        /\ buffer.ptr % request.mr.guarantee = 0 /\ pad = Padding(layout, request.mr)
    BY <1>0, <1>6 DEF FreeBuffer
  <2>2. buffer' = [buffer EXCEPT !.closed = TRUE] /\ UNCHANGED <<request, layout, pad>>
    BY <1>6 DEF FreeBuffer
  <2>3. /\ buffer' \in [ptr : Addresses, nbytes : {layout.required + pad}, closed : BOOLEAN]
        /\ buffer'.ptr = buffer.ptr
    BY <2>1, <2>2
  <2>. QED  BY <2>1, <2>2, <2>3 DEF Padding
<1>7. CASE \E shape \in Shapes, l \in HandBuilt \cup {layout}, offset \in Offsets,
              readOnly \in BOOLEAN : View(shape, l, offset, readOnly)
  BY <1>0, <1>7 DEF View, Padding
<1>8. CASE \E c \in Calls : Export(c)
  BY <1>0, <1>8 DEF Export, Padding
<1>9. CASE StartOver
  BY <1>9 DEF StartOver
<1>10. CASE UNCHANGED vars
  BY <1>0, <1>10 DEF vars, Padding
<1>. QED  BY <1>1, <1>2, <1>3, <1>4, <1>5, <1>6, <1>7, <1>8, <1>9, <1>10 DEF Next

LEMMA TensorsStay == FactoryInv /\ [Next]_vars => TensorInv'
<1> SUFFICES ASSUME FactoryInv, [Next]_vars PROVE TensorInv'
  OBVIOUS
<1> USE DEF TensorInv, HasTensor
<1>0. TensorInv
  BY DEF FactoryInv
<1>1. CASE Called
  BY <1>1, CalledAsks
<1>2. CASE ResolveLayout
  BY <1>2 DEF ResolveLayout
<1>3. CASE \E ptr \in Addresses : Allocate(ptr)
  BY <1>3 DEF Allocate
<1>4. CASE AllocateFails
  BY <1>4 DEF AllocateFails
<1>5. CASE Construct
  <2>1. CASE ~Accepts(request.shape, request.dtype, layout, Offset)
    BY <1>5, <2>1 DEF Construct
  <2>2. CASE Accepts(request.shape, request.dtype, layout, Offset)
    <3>1. /\ tensor' = [shape |-> request.shape, dtype |-> request.dtype, layout |-> layout,
                        offset |-> Offset, readOnly |-> FALSE]
          /\ UNCHANGED <<request, buffer>>
      BY <1>5, <2>2 DEF Construct
    <3>2. HasBuffer /\ HasLayout
      BY <1>5 DEF Construct, HasBuffer, HasLayout
    <3>3. RequestType(request) /\ layout = Resolved(request) /\ layout # NoLayout
      BY <3>2 DEF FactoryInv, RequestInv, LayoutInv
    <3>4. LayoutType(layout)
      BY <3>3, LayoutsResolve
    <3>5. ItemSize(request.dtype) >= 1
      BY <2>2 DEF Accepts, Validate
    <3>6. Offset \in Nat
      BY <3>2, <3>5, OffsetsCount DEF FactoryInv
    <3>7. TensorType(tensor')
      BY <3>1, <3>3, <3>4, <3>6 DEF TensorType, RequestType
    <3>8. Accepts(tensor'.shape, tensor'.dtype, tensor'.layout, tensor'.offset)
      <4>1. /\ tensor'.shape = request.shape /\ tensor'.dtype = request.dtype
            /\ tensor'.layout = layout /\ tensor'.offset = Offset
        BY <3>1
      <4>. QED  BY <2>2, <4>1
    <3>9. Accepts(tensor.shape, tensor.dtype, tensor.layout, tensor.offset)'
      BY <3>1, <3>8 DEF Accepts
    <3>. QED  BY <3>1, <3>7, <3>9
  <2>. QED  BY <2>1, <2>2
<1>6. CASE FreeBuffer
  <2>1. /\ tensor' = tensor /\ request' = request /\ HasTensor /\ HasBuffer
        /\ buffer' = [buffer EXCEPT !.closed = TRUE]
    BY <1>6 DEF FreeBuffer, HasBuffer
  <2>2. buffer'.nbytes = buffer.nbytes
    <3>1. buffer \in [ptr : Addresses, nbytes : {layout.required + pad}, closed : BOOLEAN]
      BY <2>1 DEF FactoryInv, BufferInv
    <3>. QED  BY <2>1, <3>1
  <2>. QED  BY <1>0, <2>1, <2>2 DEF Accepts
<1>7. CASE \E shape \in Shapes, l \in HandBuilt \cup {layout}, offset \in Offsets,
              readOnly \in BOOLEAN : View(shape, l, offset, readOnly)
  <2>1. PICK shape \in Shapes, l \in HandBuilt \cup {layout}, offset \in Offsets,
             readOnly \in BOOLEAN : View(shape, l, offset, readOnly)
    BY <1>7
  <2>2. HasLayout
    BY <2>1 DEF View, HasLayout, HasBuffer
  <2>3. RequestType(request) /\ layout = Resolved(request) /\ layout # NoLayout
    BY <2>2 DEF FactoryInv, RequestInv, LayoutInv
  <2>4. LayoutType(l)
    <3>1. LayoutType(layout)
      BY <2>3, LayoutsResolve
    <3>2. \A h \in HandBuilt : LayoutType(h)
      BY FactoryAssumption DEF LayoutType
    <3>. QED  BY <3>1, <3>2
  <2>5. shape \in Seq(Nat) /\ offset \in Nat
    BY FactoryAssumption
  <2>6. /\ Accepts(shape, request.dtype, l, offset) /\ UNCHANGED <<request, buffer>>
        /\ tensor' = [shape |-> shape, dtype |-> request.dtype, layout |-> l, offset |-> offset,
                      readOnly |-> readOnly]
    BY <2>1 DEF View
  <2>7. TensorType(tensor')
    BY <2>3, <2>4, <2>5, <2>6 DEF TensorType, RequestType
  <2>8. /\ tensor'.shape = shape /\ tensor'.dtype = request.dtype
        /\ tensor'.layout = l /\ tensor'.offset = offset
    BY <2>6
  <2>9. Accepts(tensor.shape, tensor.dtype, tensor.layout, tensor.offset)'
    BY <2>6, <2>8 DEF Accepts
  <2>. QED  BY <2>6, <2>7, <2>8, <2>9
<1>8. CASE \E c \in Calls : Export(c)
  BY <1>0, <1>8 DEF Export, Accepts
<1>9. CASE StartOver
  BY <1>9 DEF StartOver
<1>10. CASE UNCHANGED vars
  BY <1>0, <1>10 DEF vars, Accepts
<1>. QED  BY <1>1, <1>2, <1>3, <1>4, <1>5, <1>6, <1>7, <1>8, <1>9, <1>10 DEF Next

LEMMA FirstsStay == FactoryInv /\ [Next]_vars => FirstInv'
<1> SUFFICES ASSUME FactoryInv, [Next]_vars PROVE FirstInv'
  OBVIOUS
<1> USE DEF FirstInv
<1>0. FirstInv
  BY DEF FactoryInv
<1>1. CASE Called
  BY <1>1, CalledAsks
<1>2. CASE ResolveLayout
  BY <1>2 DEF ResolveLayout
<1>3. CASE \E ptr \in Addresses : Allocate(ptr)
  BY <1>3 DEF Allocate
<1>4. CASE AllocateFails
  BY <1>4 DEF AllocateFails
<1>5. CASE Construct
  <2>1. UNCHANGED <<request, layout, buffer, pad>>
    BY <1>5 DEF Construct
  <2>2. Offset' = Offset
    BY <2>1 DEF Offset
  <2>3. pc' = "made" =>
          tensor' = [shape |-> request.shape, dtype |-> request.dtype, layout |-> layout,
                     offset |-> Offset, readOnly |-> FALSE]
    BY <1>5 DEF Construct
  <2>. QED  BY <2>1, <2>2, <2>3
<1>6. CASE FreeBuffer
  <2>1. /\ UNCHANGED <<pc, request, layout, pad, tensor>> /\ HasBuffer
        /\ buffer' = [buffer EXCEPT !.closed = TRUE]
    BY <1>6 DEF FreeBuffer, HasBuffer, HasTensor
  <2>2. buffer'.ptr = buffer.ptr
    <3>1. buffer \in [ptr : Addresses, nbytes : {layout.required + pad}, closed : BOOLEAN]
      BY <2>1 DEF FactoryInv, BufferInv
    <3>. QED  BY <2>1, <3>1
  <2>3. Offset' = Offset
    BY <2>1, <2>2 DEF Offset
  <2>. QED  BY <1>0, <2>1, <2>3
<1>7. CASE \E shape \in Shapes, l \in HandBuilt \cup {layout}, offset \in Offsets,
              readOnly \in BOOLEAN : View(shape, l, offset, readOnly)
  BY <1>7 DEF View
<1>8. CASE \E c \in Calls : Export(c)
  BY <1>8 DEF Export
<1>9. CASE StartOver
  BY <1>9 DEF StartOver
<1>10. CASE UNCHANGED vars
  BY <1>0, <1>10 DEF vars, Offset
<1>. QED  BY <1>1, <1>2, <1>3, <1>4, <1>5, <1>6, <1>7, <1>8, <1>9, <1>10 DEF Next

LEMMA CapsulesStay == FactoryInv /\ [Next]_vars => CapsuleInv'
<1> SUFFICES ASSUME FactoryInv, [Next]_vars PROVE CapsuleInv'
  OBVIOUS
<1> USE DEF CapsuleInv
<1>0. CapsuleInv
  BY DEF FactoryInv
<1>1. CASE Called
  BY <1>1, CalledAsks
<1>2. CASE ResolveLayout
  BY <1>2 DEF ResolveLayout
<1>3. CASE \E ptr \in Addresses : Allocate(ptr)
  BY <1>3 DEF Allocate
<1>4. CASE AllocateFails
  BY <1>4 DEF AllocateFails
<1>5. CASE Construct
  BY <1>5 DEF Construct
<1>6. CASE FreeBuffer
  BY <1>6 DEF FreeBuffer
<1>7. CASE \E shape \in Shapes, l \in HandBuilt \cup {layout}, offset \in Offsets,
              readOnly \in BOOLEAN : View(shape, l, offset, readOnly)
  BY <1>7 DEF View
<1>8. CASE \E c \in Calls : Export(c)
  <2>1. PICK c \in Calls : Export(c)
    BY <1>8
  <2>2. /\ call' = c /\ capsule' = Answer(tensor, c)
        /\ UNCHANGED <<request, buffer, tensor>>
    BY <2>1 DEF Export
  <2>3. Answer(tensor, call)' = Answer(tensor, c)
    BY <2>2 DEF Answer, DLTensor
  <2>. QED  BY <2>2, <2>3
<1>9. CASE StartOver
  BY <1>9 DEF StartOver
<1>10. CASE UNCHANGED vars
  BY <1>0, <1>10 DEF vars, Answer, DLTensor
<1>. QED  BY <1>1, <1>2, <1>3, <1>4, <1>5, <1>6, <1>7, <1>8, <1>9, <1>10 DEF Next

LEMMA FactoryKept == Spec => []FactoryInv
<1>1. FactoryInv /\ [Next]_vars => FactoryInv'
  BY RequestsStay, LayoutsStay, BuffersStay, TensorsStay, FirstsStay, CapsulesStay
  DEF FactoryInv
<1>. QED  BY FactoryInit, <1>1, PTL DEF Spec
-------------------------------------------------------------------------------
(***************************************************************************)
(* Elements                                                                *)
(***************************************************************************)
LEMMA TensorNests ==
  ASSUME HasTensor, TensorInv, NEW n, n = Len(tensor.shape)
  PROVE  /\ n \in Nat /\ tensor.shape \in [1..n -> Nat]
         /\ Nested(n, tensor.shape, tensor.layout.permutation, tensor.layout.strides)
         /\ ItemSize(tensor.dtype) \in Nat \ {0} /\ tensor.offset \in Nat
         /\ tensor.layout.required \in Nat
         /\ tensor.offset * ItemSize(tensor.dtype) + tensor.layout.required <= buffer.nbytes
         /\ ~Empty(tensor.shape) =>
              Span(tensor.shape, tensor.layout.strides) * ItemSize(tensor.dtype)
                <= tensor.layout.required
<1> DEFINE t == tensor
           size == ItemSize(t.dtype)
<1>1. t.shape \in Seq(Nat) /\ LayoutType(t.layout) /\ t.offset \in Nat /\ size \in Nat
  BY TypesAre DEF TensorInv, TensorType
<1>2. Validate(t.layout, t.shape, size) /\ t.offset * size + t.layout.required <= buffer.nbytes
  BY DEF TensorInv, Accepts
<1>3. t.layout.required \in Int
  BY <1>1 DEF LayoutType
<1> HIDE DEF t, size
<1>4. /\ Nested(Len(t.shape), t.shape, t.layout.permutation, t.layout.strides)
      /\ size >= 1 /\ t.layout.required >= 0
      /\ ~Empty(t.shape) => Span(t.shape, t.layout.strides) * size <= t.layout.required
  BY <1>1, <1>2, ValidNests
<1>5. n \in Nat /\ t.shape \in [1..n -> Nat]
  BY <1>1 DEF t
<1>. QED  BY <1>1, <1>2, <1>3, <1>4, <1>5 DEF t, size

LEMMA BuffersCount ==
  ASSUME HasBuffer, FactoryInv
  PROVE  buffer.ptr \in Nat \ {0} /\ buffer.nbytes \in Int /\ pad \in Nat
         /\ buffer.nbytes = layout.required + pad
<1>1. RequestType(request) /\ layout = Resolved(request) /\ layout # NoLayout
  BY DEF FactoryInv, RequestInv, LayoutInv, HasLayout
<1>2. layout.required \in Int /\ layout.base \in Nat \ {0}
  <2>1. LayoutType(layout) /\ layout.base \in Nat \ {0}
    BY <1>1, LayoutsResolve
  <2>. QED  BY <2>1 DEF LayoutType
<1>3. /\ buffer.ptr \in Addresses /\ buffer.nbytes = layout.required + pad
      /\ pad = Padding(layout, request.mr)
  BY DEF FactoryInv, BufferInv
<1>4. pad \in Nat
  BY <1>2, <1>3 DEF Padding
<1>5. buffer.ptr \in Nat \ {0}
  BY <1>3, FactoryAssumption
<1>. QED  BY <1>2, <1>3, <1>4, <1>5

\* An element's address, from the position of the element.
LEMMA AddressesAre ==
  ASSUME HasTensor, TensorInv, buffer.nbytes \in Int, NEW i \in Indices(tensor.shape)
  PROVE  \E k \in Nat :
           /\ k = Position(tensor.layout.strides, i)
           /\ AddressOf(tensor, i) =
                buffer.ptr + tensor.offset * ItemSize(tensor.dtype) + k * ItemSize(tensor.dtype)
           /\ tensor.offset * ItemSize(tensor.dtype) + k * ItemSize(tensor.dtype)
                + ItemSize(tensor.dtype) <= buffer.nbytes
<1> DEFINE shape == tensor.shape
           p == tensor.layout.permutation
           s == tensor.layout.strides
           size == ItemSize(tensor.dtype)
           off == tensor.offset
           req == tensor.layout.required
           n == Len(shape)
           k == Position(s, i)
           span == Span(shape, s)
<1>1. /\ n \in Nat /\ shape \in [1..n -> Nat] /\ Nested(n, shape, p, s)
      /\ size \in Nat \ {0} /\ off \in Nat /\ req \in Nat
      /\ off * size + req <= buffer.nbytes
      /\ ~Empty(shape) => span * size <= req
  BY TensorNests
<1>2. AddressOf(tensor, i) = buffer.ptr + off * size + k * size
  BY DEF AddressOf, Start
<1>3. i \in Indices(shape)
  OBVIOUS
<1> HIDE DEF shape, p, s, size, off, req, n
<1>4. Indexes(n, shape, i)
  BY <1>1, <1>3, IndicesAre
<1>5. k \in Int /\ 0 <= k /\ k < span
  BY <1>1, <1>4, PositionsInside
<1>6. ~Empty(shape)
  BY <1>1, <1>3, EmptyIndices
<1>7. span \in Nat
  BY <1>1, <1>6, SpanIs
<1> HIDE DEF k, span
<1>8. k * size + size <= span * size
  <2>1. k + 1 <= span
    BY <1>5, <1>7
  <2>2. (k + 1) * size <= span * size
    BY <1>1, <1>5, <1>7, <2>1
  <2>. QED  BY <1>1, <1>5, <2>2
<1>9. off * size + k * size + size <= buffer.nbytes
  <2> DEFINE a == off * size
             b == k * size
             c == span * size
  <2>1. a \in Int /\ b \in Int /\ c \in Int /\ b + size <= c /\ c <= req /\ a + req <= buffer.nbytes
    BY <1>1, <1>5, <1>6, <1>7, <1>8
  <2> HIDE DEF a, b, c
  <2>2. a + b + size <= buffer.nbytes
    BY <1>1, <2>1
  <2>. QED  BY <2>2 DEF a, b
<1>. QED  BY <1>2, <1>5, <1>9 DEF k, shape, p, s, size, off, req

\* The elements of a tensor lie in its buffer, and no two of them in the same place,
\* whatever layout and offset were passed: Layout.validate and Tensor.__init__ together.
THEOREM ElementsLieApart == Spec => []ElementsApart
<1>1. FactoryInv => ElementsApart
  <2> SUFFICES ASSUME FactoryInv, pc \in {"made", "viewed"}
               PROVE  /\ \A i \in Indices(tensor.shape) :
                           /\ buffer.ptr <= AddressOf(tensor, i)
                           /\ AddressOf(tensor, i) + ItemSize(tensor.dtype)
                                <= buffer.ptr + buffer.nbytes
                      /\ Cardinality({AddressOf(tensor, i) : i \in Indices(tensor.shape)}) =
                           Cardinality(Indices(tensor.shape))
    BY DEF ElementsApart
  <2> DEFINE n == Len(tensor.shape)
             size == ItemSize(tensor.dtype)
             o == tensor.offset * size
             at == [i \in Indices(tensor.shape) |-> AddressOf(tensor, i)]
  <2>1. HasTensor /\ HasBuffer /\ TensorInv
    BY DEF HasTensor, HasBuffer, FactoryInv
  <2>2. buffer.ptr \in Nat \ {0} /\ buffer.nbytes \in Int
    BY <2>1, BuffersCount
  <2>3. /\ n \in Nat /\ tensor.shape \in [1..n -> Nat]
        /\ Nested(n, tensor.shape, tensor.layout.permutation, tensor.layout.strides)
        /\ size \in Nat \ {0} /\ tensor.offset \in Nat
    BY <2>1, TensorNests
  <2>4. ASSUME NEW i \in Indices(tensor.shape)
        PROVE  \E k \in Nat :
                 /\ k = Position(tensor.layout.strides, i)
                 /\ AddressOf(tensor, i) = buffer.ptr + o + k * size
                 /\ o + k * size + size <= buffer.nbytes
    BY <2>1, <2>2, AddressesAre
  <2>5. o \in Nat
    BY <2>3
  <2> HIDE DEF size, o, n
  <2>6. ASSUME NEW i \in Indices(tensor.shape)
        PROVE  /\ buffer.ptr <= AddressOf(tensor, i)
               /\ AddressOf(tensor, i) + size <= buffer.ptr + buffer.nbytes
    <3>1. PICK k \in Nat :
            AddressOf(tensor, i) = buffer.ptr + o + k * size /\ o + k * size + size <= buffer.nbytes
      BY <2>4
    <3> DEFINE b == k * size
    <3>2. b \in Nat
      BY <2>3
    <3>3. AddressOf(tensor, i) = buffer.ptr + o + b /\ o + b + size <= buffer.nbytes
      BY <3>1
    <3> HIDE DEF b
    <3>. QED  BY <2>2, <2>3, <2>5, <3>2, <3>3
  <2>7. ASSUME NEW i \in Indices(tensor.shape), NEW j \in Indices(tensor.shape),
               AddressOf(tensor, i) = AddressOf(tensor, j)
        PROVE  i = j
    <3>1. PICK k \in Nat : /\ k = Position(tensor.layout.strides, i)
                           /\ AddressOf(tensor, i) = buffer.ptr + o + k * size
      BY <2>4
    <3>2. PICK m \in Nat : /\ m = Position(tensor.layout.strides, j)
                           /\ AddressOf(tensor, j) = buffer.ptr + o + m * size
      BY <2>4
    <3>3. k = m
      <4>1. k * size \in Int /\ m * size \in Int
        BY <2>3
      <4>2. k * size = m * size
        <5> DEFINE a == k * size
                   b == m * size
        <5>1. buffer.ptr + o + a = buffer.ptr + o + b /\ a \in Int /\ b \in Int
          BY <2>7, <3>1, <3>2, <4>1
        <5> HIDE DEF a, b
        <5>2. a = b
          BY <2>2, <2>5, <5>1
        <5>. QED  BY <5>2 DEF a, b
      <4>3. (k - m) * size = 0
        BY <2>3, <4>2
      <4>. QED  BY <2>3, <4>3
    <3>4. Indexes(n, tensor.shape, i) /\ Indexes(n, tensor.shape, j)
      BY <2>3, IndicesAre
    <3>5. Position(tensor.layout.strides, i) = Position(tensor.layout.strides, j)
      BY <3>1, <3>2, <3>3
    <3> DEFINE sh == tensor.shape
               p == tensor.layout.permutation
               s == tensor.layout.strides
    <3>6. /\ n \in Nat /\ sh \in [1..n -> Nat] /\ Nested(n, sh, p, s)
          /\ Indexes(n, sh, i) /\ Indexes(n, sh, j) /\ Position(s, i) = Position(s, j)
      BY <2>3, <3>4, <3>5
    <3> HIDE DEF sh, p, s
    <3>. QED  BY <3>6, PositionsApart
  <2>8. Cardinality({at[i] : i \in Indices(tensor.shape)}) = Cardinality(Indices(tensor.shape))
    <3>1. IsFiniteSet(Indices(tensor.shape))
      BY <2>3, IndicesFinite
    <3>2. \A i, j \in Indices(tensor.shape) : at[i] = at[j] => i = j
      BY <2>7
    <3>3. DOMAIN at = Indices(tensor.shape) /\ at = [i \in Indices(tensor.shape) |-> at[i]]
      OBVIOUS
    <3> HIDE DEF at
    <3>. QED  BY <3>1, <3>2, <3>3, ImagesCounted
  <2>9. {at[i] : i \in Indices(tensor.shape)} = {AddressOf(tensor, i) : i \in Indices(tensor.shape)}
    OBVIOUS
  <2>. QED  BY <2>6, <2>8, <2>9 DEF size
<1>. QED  BY FactoryKept, <1>1, PTL
-------------------------------------------------------------------------------
(***************************************************************************)
(* What consumers are told                                                 *)
(***************************************************************************)
LEMMA VersionsKnown ==
  ASSUME NEW max \in Seq(Int), NEW readOnly, NEW v, v = NegotiateVersion(max, readOnly),
         v # Refusal
  PROVE  /\ v # Legacy => NotBelow(max, v) /\ NotBelow(DLPackVersion, v)
         /\ v = Legacy => (max = <<>> \/ ~NotBelow(max, <<1, 0>>))
         /\ v = Legacy => ~readOnly
<1>1. CASE max # <<>> /\ Len(max) # 2
  BY <1>1 DEF NegotiateVersion
<1>2. CASE Len(max) = 2 /\ max[1] >= 1
  <2>1. max[1] \in Int /\ max[2] \in Int
    BY <1>2
  <2>2. v = IF NotBelow(max, DLPackVersion) THEN DLPackVersion ELSE <<1, max[2]>>
    BY <1>2 DEF NegotiateVersion
  <2>3. v # Legacy
    BY <2>2 DEF DLPackVersion, Legacy
  <2>4. CASE NotBelow(max, DLPackVersion)
    BY <2>2, <2>3, <2>4 DEF NotBelow, DLPackVersion
  <2>5. CASE ~NotBelow(max, DLPackVersion)
    <3>1. v[1] = 1 /\ v[2] = max[2]
      BY <2>2, <2>5
    <3>2. max[1] <= 1 /\ (max[1] = 1 => max[2] < 1)
      BY <2>1, <2>5 DEF NotBelow, DLPackVersion
    <3>3. DLPackVersion[1] = 1 /\ DLPackVersion[2] = 1
      BY DEF DLPackVersion
    <3>4. NotBelow(max, v)
      BY <1>2, <2>1, <3>1 DEF NotBelow
    <3>5. NotBelow(DLPackVersion, v)
      BY <1>2, <2>1, <3>1, <3>2, <3>3 DEF NotBelow
    <3>. QED  BY <2>3, <3>4, <3>5
  <2>. QED  BY <2>4, <2>5
<1>3. CASE ~(max # <<>> /\ Len(max) # 2) /\ ~(Len(max) = 2 /\ max[1] >= 1)
  <2>1. v = IF readOnly THEN Refusal ELSE Legacy
    BY <1>3 DEF NegotiateVersion
  <2>2. v = Legacy /\ ~readOnly
    BY <2>1
  <2>3. max = <<>> \/ ~NotBelow(max, <<1, 0>>)
    <3>1. CASE max # <<>>
      <4>1. Len(max) = 2 /\ max[1] < 1 /\ max[1] \in Int
        BY <1>3, <3>1
      <4>2. <<1, 0>>[1] = 1
        OBVIOUS
      <4>. QED  BY <4>1, <4>2 DEF NotBelow
    <3>. QED  BY <3>1
  <2>. QED  BY <2>2, <2>3
<1>. QED  BY <1>1, <1>2, <1>3

LEMMA StreamsOrder ==
  ASSUME NEW device, NEW stream, NEW after, after = ConsumerStream(device, stream),
         after # Refusal, after = <<>>
  PROVE  stream = <<-1>> \/ device = "cpu"
BY DEF ConsumerStream, CudaLike, Refusal

\* What to_capsule answers, where it does not refuse.
LEMMA AnswersAre ==
  ASSUME FactoryInv, pc = "answered", capsule.version # Refusal
  PROVE  /\ HasTensor /\ HasBuffer /\ TensorInv /\ call \in Calls
         /\ capsule.version = NegotiateVersion(call.version, tensor.readOnly)
         /\ capsule.readOnly = (capsule.version # Legacy /\ tensor.readOnly)
         /\ capsule.after = ConsumerStream(request.mr.device, call.stream)
         /\ capsule.after # Refusal
         /\ capsule.tensor = DLTensor(tensor)
<1>1. HasTensor /\ HasBuffer /\ TensorInv
  BY DEF HasTensor, HasBuffer, FactoryInv
<1>2. call \in Calls /\ capsule = Answer(tensor, call)
  BY DEF FactoryInv, CapsuleInv
<1> DEFINE version == NegotiateVersion(call.version, tensor.readOnly)
           consumer == ConsumerStream(request.mr.device, call.stream)
           whole == [ version  |-> version,
                      readOnly |-> version # Legacy /\ tensor.readOnly,
                      after    |-> consumer,
                      tensor   |-> DLTensor(tensor) ]
<1>3. consumer # Refusal /\ capsule = whole
  <2>1. [version |-> Refusal].version = Refusal
    OBVIOUS
  <2>2. capsule # [version |-> Refusal]
    BY <2>1
  <2> HIDE DEF version, consumer
  <2>. QED  BY <1>2, <2>2 DEF Answer, version, consumer
<1> HIDE DEF version, consumer
<1>4. /\ capsule.version = version /\ capsule.after = consumer /\ capsule.tensor = DLTensor(tensor)
      /\ capsule.readOnly = (version # Legacy /\ tensor.readOnly)
  BY <1>3
<1>. QED  BY <1>1, <1>2, <1>3, <1>4 DEF version, consumer

\* A consumer that knows only the struct finds the tensor's elements, and is told of what
\* it must not do and of what it must wait for, whatever it asks: to_capsule and
\* _fill_dl_tensor.  The data types are those that the fields of DLDataType can hold.
THEOREM CapsulesAreHonest ==
  ASSUME \A d \in Types : DLDataType(d) = d
  PROVE  Spec => []CapsuleHonest
<1>1. FactoryInv => CapsuleHonest
  <2> SUFFICES ASSUME FactoryInv, pc = "answered", capsule.version # Refusal
               PROVE  LET dl == capsule.tensor IN
                      /\ dl.data = 0 <=> Indices(dl.shape) = {}
                      /\ Indices(dl.shape) = Indices(tensor.shape)
                      /\ \A i \in Indices(dl.shape) : ElementSeen(dl, i) = AddressOf(tensor, i)
                      /\ tensor.readOnly => capsule.readOnly
                      /\ capsule.version # Legacy =>
                           /\ NotBelow(call.version, capsule.version)
                           /\ NotBelow(DLPackVersion, capsule.version)
                      /\ capsule.version = Legacy =>
                           call.version = <<>> \/ ~NotBelow(call.version, <<1, 0>>)
                      /\ capsule.after = <<>> => call.stream = <<-1>> \/ request.mr.device = "cpu"
    BY DEF CapsuleHonest
  <2> DEFINE dl == capsule.tensor
             n == Len(tensor.shape)
             size == ItemSize(tensor.dtype)
             o == tensor.offset * size
  <2>1. /\ HasTensor /\ HasBuffer /\ TensorInv /\ call \in Calls
        /\ capsule.version = NegotiateVersion(call.version, tensor.readOnly)
        /\ capsule.readOnly = (capsule.version # Legacy /\ tensor.readOnly)
        /\ capsule.after = ConsumerStream(request.mr.device, call.stream)
        /\ capsule.after # Refusal
        /\ dl = DLTensor(tensor)
    BY AnswersAre
  <2>2. /\ call.version \in Seq(Int)
        /\ buffer.ptr \in Nat \ {0} /\ buffer.nbytes \in Int
    BY <2>1, BuffersCount, FactoryAssumption
  <2>3. /\ n \in Nat /\ tensor.shape \in [1..n -> Nat]
        /\ size \in Nat \ {0} /\ tensor.offset \in Nat
    BY <2>1, TensorNests
  <2>4. o \in Nat
    BY <2>3
  <2>5. DLDataType(tensor.dtype) = tensor.dtype
    BY <2>1 DEF TensorInv, TensorType
  <2> HIDE DEF n, o
  <2>6. /\ dl.data = IF Empty(tensor.shape) THEN 0 ELSE buffer.ptr + o
        /\ dl.dtype = tensor.dtype
        /\ dl.shape = tensor.shape /\ dl.strides = tensor.layout.strides
    BY <2>1, <2>5 DEF DLTensor, o
  <2> HIDE DEF dl
  <2>7. Empty(tensor.shape) <=> Indices(tensor.shape) = {}
    BY <2>3, EmptyIndices
  <2>8. dl.data = 0 <=> Empty(tensor.shape)
    BY <2>2, <2>4, <2>6
  <2>9. ASSUME NEW i \in Indices(tensor.shape)
        PROVE  ElementSeen(dl, i) = AddressOf(tensor, i)
    <3>1. dl.data = buffer.ptr + o
      BY <2>6, <2>7
    <3>2. ElementSeen(dl, i) = buffer.ptr + o + Position(tensor.layout.strides, i) * size
      BY <2>6, <3>1 DEF ElementSeen
    <3>. QED  BY <3>2 DEF AddressOf, Start, o
  <2>10. tensor.readOnly => capsule.readOnly
    <3> DEFINE v == capsule.version
    <3>1. v = NegotiateVersion(call.version, tensor.readOnly) /\ v # Refusal
      BY <2>1
    <3> HIDE DEF v
    <3>2. v = Legacy => ~tensor.readOnly
      BY <2>2, <3>1, VersionsKnown
    <3>. QED  BY <2>1, <3>2 DEF v
  <2>11. /\ capsule.version # Legacy =>
              NotBelow(call.version, capsule.version) /\ NotBelow(DLPackVersion, capsule.version)
         /\ capsule.version = Legacy =>
              (call.version = <<>> \/ ~NotBelow(call.version, <<1, 0>>))
    BY <2>1, <2>2, VersionsKnown
  <2>12. capsule.after = <<>> => (call.stream = <<-1>> \/ request.mr.device = "cpu")
    BY <2>1, StreamsOrder
  <2>. QED  BY <2>6, <2>7, <2>8, <2>9, <2>10, <2>11, <2>12 DEF dl
<1>. QED  BY FactoryKept, <1>1, PTL

\* The suite for producers accepts what to_capsule answers, whatever resource is current
\* and wherever it allocates: testing/_conformance.py.
THEOREM ProducersConform == Spec => []ProducerConforms
<1>1. FactoryInv => ProducerConforms
  <2> SUFFICES ASSUME FactoryInv, pc = "answered" PROVE DLPackConformance
    BY DEF ProducerConforms
  <2> DEFINE device == request.mr.device
  <2>1. capsule = Answer(tensor, call) /\ HasTensor /\ tensor.dtype = request.dtype
    BY DEF FactoryInv, CapsuleInv, TensorInv, HasTensor
  \* The answer to a call that to_capsule does not refuse.
  <2>2. ASSUME ~buffer.closed, call.device = <<>> \/ call.device = <<device>>, ~call.copy,
               NEW v, v = NegotiateVersion(call.version, tensor.readOnly), v # Refusal,
               ConsumerStream(device, call.stream) # Refusal
        PROVE  /\ capsule.version = v
               /\ capsule.readOnly = (v # Legacy /\ tensor.readOnly)
               /\ capsule.tensor = DLTensor(tensor)
    <3>1. capsule = [ version  |-> v,
                      readOnly |-> v # Legacy /\ tensor.readOnly,
                      after    |-> ConsumerStream(device, call.stream),
                      tensor   |-> DLTensor(tensor) ]
      BY <2>1, <2>2 DEF Answer
    <3>. QED  BY <3>1
  <2>3. ASSUME \/ buffer.closed \/ (call.device # <<>> /\ call.device # <<device>>) \/ call.copy
               \/ NegotiateVersion(call.version, tensor.readOnly) = Refusal
        PROVE  capsule.version = Refusal
    BY <2>1, <2>3 DEF Answer
  <2>4. ASSUME request.dtype = Float32, capsule.tensor = DLTensor(tensor)
        PROVE  CheckDLTensor(capsule.tensor, tensor)
    <3>1. DLDataType(Float32) = Float32
      BY DEF DLDataType, Float32, DType, kDLFloat
    <3>. QED  BY <2>1, <2>4, <3>1 DEF CheckDLTensor, DLTensor
  <2>5. ConsumerStream(device, <<>>) # Refusal /\ ConsumerStream(device, <<-1>>) # Refusal
    <3> DEFINE none == <<>>
               one == <<1>>
               zero == <<0>>
               unordered == <<-1>>
    <3>1. none # unordered /\ one # unordered /\ zero # unordered
      <4>1. none # unordered
        OBVIOUS
      <4>2. one # unordered
        <5>1. one[1] = 1 /\ unordered[1] = -1
          OBVIOUS
        <5>. QED  BY <5>1
      <4>3. zero # unordered
        <5>1. zero[1] = 0 /\ unordered[1] = -1
          OBVIOUS
        <5>. QED  BY <5>1
      <4>. QED  BY <4>1, <4>2, <4>3
    <3>2. ConsumerStream(device, none) \in {none, one, zero}
      BY DEF ConsumerStream
    <3>3. ConsumerStream(device, unordered) = none
      BY DEF ConsumerStream
    <3> HIDE DEF none, one, zero
    <3>. QED  BY <3>1, <3>2, <3>3 DEF none, Refusal
  <2>6. ASSUME NEW readOnly
        PROVE  /\ NegotiateVersion(DLPackVersion, readOnly) = DLPackVersion
               /\ NegotiateVersion(<<1, 0>>, readOnly) = <<1, 0>>
               /\ NegotiateVersion(<<1>>, readOnly) = Refusal
               /\ NegotiateVersion(<<>>, readOnly) = IF readOnly THEN Refusal ELSE Legacy
    BY DEF NegotiateVersion, DLPackVersion, NotBelow
  <2>7. /\ Current.version = DLPackVersion /\ Current.stream = <<>> /\ Current.device = <<>> /\ Current.copy = FALSE
        /\ \A v : LET c == WithVersion(v) IN
                    c.version = v /\ c.stream = <<>> /\ c.device = <<>> /\ c.copy = FALSE
        /\ \A d : LET c == ForDevice(d) IN
                    c.version = DLPackVersion /\ c.stream = <<>> /\ c.device = <<d>> /\ c.copy = FALSE
        /\ WithCopy.copy = TRUE
        /\ Unordered.version = DLPackVersion /\ Unordered.stream = <<-1>>
        /\ Unordered.device = <<>> /\ Unordered.copy = FALSE
    <3>1. ASSUME NEW v
          PROVE  LET c == WithVersion(v) IN
                   c.version = v /\ c.stream = <<>> /\ c.device = <<>> /\ c.copy = FALSE
      BY DEF WithVersion
    <3>2. Current.version = DLPackVersion /\ Current.stream = <<>> /\ Current.device = <<>> /\ Current.copy = FALSE
      BY <3>1 DEF Current
    <3>3. ASSUME NEW d
          PROVE  LET c == ForDevice(d) IN
                   c.version = DLPackVersion /\ c.stream = <<>> /\ c.device = <<d>> /\ c.copy = FALSE
      BY DEF ForDevice, Current, WithVersion
    <3>4. WithCopy.copy = TRUE
      BY DEF WithCopy, Current, WithVersion
    <3>5. /\ Unordered.version = DLPackVersion /\ Unordered.stream = <<-1>>
          /\ Unordered.device = <<>> /\ Unordered.copy = FALSE
      BY DEF Unordered, Current, WithVersion
    <3>. QED  BY <3>1, <3>2, <3>3, <3>4, <3>5
  <2>8. /\ Plainest.readOnly = FALSE /\ Plainest.closed = FALSE
        /\ Padded.readOnly = FALSE /\ Padded.closed = FALSE
        /\ NoElements.readOnly = FALSE /\ NoElements.closed = FALSE
        /\ ReadOnly(Plainest).readOnly = TRUE /\ ReadOnly(Plainest).closed = FALSE
        /\ Freed(Plainest).closed = TRUE
    BY DEF Plainest, Padded, NoElements, ReadOnly, Freed, Made
  <2>9. ForeignTo(device) # device
    BY DEF ForeignTo
  <2>10. DLPackVersion # Refusal /\ DLPackVersion # Legacy /\ Legacy # Refusal /\ <<1, 0>> # Refusal
    BY DEF DLPackVersion, Refusal, Legacy
  <2> HIDE DEF device
  <2>11. ASSUME NEW t, NEW c, Reached(t, c)
         PROVE  /\ request.dtype = Float32 /\ tensor.readOnly = t.readOnly
                /\ buffer.closed = t.closed /\ call = c
    BY <2>11 DEF Reached
  \* A tensor that may be written to, and one that may not.
  \* The calls that to_capsule does not refuse of a tensor that may be written to.
  <2> DEFINE Served(c, v) ==
               /\ c.version = v /\ c.copy = FALSE
               /\ ConsumerStream(device, c.stream) # Refusal
               /\ c.device = <<>> \/ c.device = <<device>>
             Answered(v) == Checked(v) /\ ~capsule.readOnly
  <2>12. ASSUME NEW t, t.closed = FALSE, t.readOnly = FALSE, NEW c, Reached(t, c),
                NEW v, Served(c, v), NEW n, n = NegotiateVersion(v, FALSE), n # Refusal
         PROVE  Answered(n)
    <3>1. /\ request.dtype = Float32 /\ tensor.readOnly = FALSE /\ buffer.closed = FALSE /\ call = c
      BY <2>11, <2>12
    <3>2. /\ call.version = v /\ call.copy = FALSE
          /\ ConsumerStream(device, call.stream) # Refusal
          /\ call.device = <<>> \/ call.device = <<device>>
      BY <2>12, <3>1
    <3>3. n = NegotiateVersion(call.version, tensor.readOnly)
      BY <2>12, <3>1, <3>2
    <3>4. /\ capsule.version = n /\ capsule.tensor = DLTensor(tensor)
          /\ capsule.readOnly = (n # Legacy /\ tensor.readOnly)
      BY <2>2, <2>12, <3>1, <3>2, <3>3
    <3>5. ~capsule.readOnly
      BY <3>1, <3>4
    <3>. QED  BY <2>4, <3>1, <3>4, <3>5 DEF Checked
  <2>13. /\ Served(Current, DLPackVersion) /\ Served(Unordered, DLPackVersion)
         /\ Served(ForDevice(device), DLPackVersion)
    BY <2>5, <2>7
  <2>14. \A v : Served(WithVersion(v), v)
    BY <2>5, <2>7
  <2> HIDE DEF Served, Answered
  <2>15. ASSUME NEW t, t.closed = FALSE, t.readOnly = FALSE
         PROVE  /\ Reached(t, Current) => Answered(DLPackVersion)
                /\ Reached(t, Unordered) => Answered(DLPackVersion)
                /\ Reached(t, ForDevice(device)) => Answered(DLPackVersion)
    BY <2>6, <2>10, <2>12, <2>13, <2>15
  <2>16. /\ Reached(Plainest, WithVersion(<<1, 0>>)) => Answered(<<1, 0>>)
         /\ Reached(Plainest, WithVersion(<<>>)) => Answered(Legacy)
    <3> DEFINE old == <<1, 0>>
               none == <<>>
    <3>1. NegotiateVersion(old, FALSE) = old /\ NegotiateVersion(none, FALSE) = Legacy
      BY <2>6
    <3>2. old # Refusal
      BY <2>10
    <3>3. Served(WithVersion(old), old) /\ Served(WithVersion(none), none)
      BY <2>14
    <3> HIDE DEF old, none
    <3>4. Reached(Plainest, WithVersion(old)) => Answered(old)
      BY <2>8, <2>12, <3>1, <3>2, <3>3
    <3>5. Reached(Plainest, WithVersion(none)) => Answered(Legacy)
      BY <2>8, <2>10, <2>12, <3>1, <3>3
    <3>. QED  BY <3>4, <3>5 DEF old, none
  <2>17. Reached(Plainest, Current) => Checked(DLPackVersion) /\ ~capsule.readOnly
    BY <2>8, <2>15 DEF Answered
  <2>18. Reached(Plainest, WithVersion(<<1, 0>>)) => capsule.version = <<1, 0>>
    BY <2>16 DEF Answered, Checked
  <2>19. Reached(Plainest, WithVersion(<<>>)) => Checked(Legacy)
    BY <2>16 DEF Answered
  <2>20. Reached(Padded, Current) => Checked(DLPackVersion)
    BY <2>8, <2>15 DEF Answered
  <2>21. Reached(ReadOnly(Plainest), Current) => Versioned /\ capsule.readOnly
    <3> SUFFICES ASSUME Reached(ReadOnly(Plainest), Current) PROVE Versioned /\ capsule.readOnly
      OBVIOUS
    <3>1. tensor.readOnly = TRUE /\ buffer.closed = FALSE /\ call = Current
      BY <2>8, <2>11
    <3>2. call.version = DLPackVersion /\ call.stream = <<>> /\ call.device = <<>> /\ call.copy = FALSE
      BY <2>7, <3>1
    <3>3. capsule.version = DLPackVersion /\ capsule.readOnly
      BY <2>2, <2>5, <2>6, <2>10, <3>1, <3>2
    <3>. QED  BY <2>10, <3>3 DEF Versioned
  <2>22. Reached(ReadOnly(Plainest), WithVersion(<<>>)) => capsule.version = Refusal
    <3> SUFFICES ASSUME Reached(ReadOnly(Plainest), WithVersion(<<>>)) PROVE capsule.version = Refusal
      OBVIOUS
    <3>1. tensor.readOnly = TRUE /\ call = WithVersion(<<>>)
      BY <2>8, <2>11
    <3>2. call.version = <<>>
      BY <2>7, <3>1
    <3>. QED  BY <2>3, <2>6, <3>1, <3>2
  <2>23. Reached(Plainest, ForDevice(device)) => Versioned
    BY <2>8, <2>10, <2>15 DEF Answered, Checked, Versioned
  <2>24. Reached(Plainest, ForDevice(ForeignTo(device))) => capsule.version = Refusal
    <3> SUFFICES ASSUME Reached(Plainest, ForDevice(ForeignTo(device))) PROVE capsule.version = Refusal
      OBVIOUS
    <3>1. call.device = <<ForeignTo(device)>>
      BY <2>7, <2>11
    <3>2. call.device # <<>> /\ call.device # <<device>>
      BY <2>9, <3>1
    <3>. QED  BY <2>3, <3>2
  <2>25. Reached(Plainest, WithCopy) => capsule.version = Refusal
    BY <2>3, <2>7, <2>11
  <2>26. Reached(Plainest, WithVersion(<<1>>)) => capsule.version = Refusal
    <3> HAVE Reached(Plainest, WithVersion(<<1>>))
    <3>1. call.version = <<1>>
      BY <2>7, <2>11
    <3>. QED  BY <2>3, <2>6, <3>1
  <2>27. Reached(Plainest, Unordered) => Versioned
    BY <2>8, <2>10, <2>15 DEF Answered, Checked, Versioned
  <2>28. Reached(NoElements, Current) => Checked(DLPackVersion)
    BY <2>8, <2>10, <2>15 DEF Answered
  <2>29. Reached(Freed(Plainest), WithVersion(<<>>)) => capsule.version = Refusal
    BY <2>3, <2>8, <2>11
  <2>. QED
    BY <2>17, <2>18, <2>19, <2>20, <2>21, <2>22, <2>23, <2>24, <2>25, <2>26, <2>27, <2>28, <2>29
    DEF DLPackConformance, device
<1>. QED  BY FactoryKept, <1>1, PTL

\* empty() never fails after it took the memory: where every element has a byte, what it
\* resolved and allocated is what Tensor.__init__ accepts, over whatever resource.
THEOREM NothingRefusedLate ==
  ASSUME \A d \in Types : ItemSize(d) >= 1
  PROVE  Spec => []NoLateRefusal
<1>1. ASSUME FactoryInv, pc = "allocated"
      PROVE  Accepts(request.shape, request.dtype, layout, Offset)
  <2> DEFINE size == ItemSize(request.dtype)
  <2>1. HasBuffer /\ HasLayout
    BY <1>1 DEF HasBuffer, HasLayout
  <2>2. /\ RequestType(request) /\ layout = Resolved(request) /\ layout # NoLayout
        /\ RequestInv /\ LayoutInv /\ BufferInv
    BY <1>1, <2>1 DEF FactoryInv, RequestInv, LayoutInv
  <2>3. size \in Nat /\ size >= 1
    BY <2>2, TypesAre DEF RequestType
  <2>4. Validate(layout, request.shape, size)
    BY <2>2, <2>3, LayoutsResolve
  <2>5. Offset \in Nat /\ layout.required \in Int /\ Offset * size <= pad
    BY <2>1, <2>2, <2>3, OffsetsCount
  <2>6. buffer.nbytes \in Int /\ pad \in Nat /\ buffer.nbytes = layout.required + pad
    BY <1>1, <2>1, BuffersCount
  <2> HIDE DEF size
  <2>7. Offset * size + layout.required <= buffer.nbytes
    <3> DEFINE a == Offset * size
    <3>1. a \in Int
      BY <2>3, <2>5
    <3> HIDE DEF a
    <3>2. a + layout.required <= buffer.nbytes
      BY <2>5, <2>6, <3>1 DEF a
    <3>. QED  BY <3>2 DEF a
  <2>. QED  BY <2>4, <2>7 DEF Accepts, size
<1>2. FactoryInv => NoLateRefusal
  BY <1>1 DEF NoLateRefusal
<1>. QED  BY FactoryKept, <1>2, PTL
-------------------------------------------------------------------------------
(***************************************************************************)
(* Alignment                                                               *)
(***************************************************************************)
LEMMA ZeroIsMultiple ==
  ASSUME NEW m \in Int, NEW z, z = 0
  PROVE  Multiple(z, m)
<1>1. z = 0 * m
  OBVIOUS
<1>. QED  BY <1>1 DEF Multiple

\* A sum that is scaled, of summands that are multiples when they are.
LEMMA ScaledSumsOfMultiples ==
  ASSUME NEW n \in Nat, NEW f \in [1..n -> Int], NEW m \in Int, NEW x \in Int,
         \A k \in 1..n : Multiple(f[k] * x, m)
  PROVE  Multiple(Sum(f) * x, m)
<1>1. PICK a : Sums(n, f, a)
  BY PartialSums
<1> DEFINE P == {k \in 0..n : Multiple(a[k] * x, m)}
<1>2. 0 \in P
  <2>1. a[0] * x = 0
    BY <1>1 DEF Sums
  <2>2. Multiple(a[0] * x, m)
    BY <2>1, ZeroIsMultiple
  <2>. QED  BY <2>2
<1>3. ASSUME NEW k \in 1..n, k - 1 \in P PROVE k \in P
  <2> DEFINE b == a[k - 1]
             c == f[k]
  <2>1. a[k] = b + c /\ b \in Int /\ c \in Int /\ Multiple(b * x, m) /\ Multiple(c * x, m)
    BY <1>1, <1>3 DEF Sums
  <2> HIDE DEF b, c
  <2>2. b * x \in Int /\ c * x \in Int /\ (b + c) * x = b * x + c * x
    BY <2>1
  <2>3. Multiple(b * x + c * x, m)
    BY <2>1, <2>2, MultiplesAdd
  <2>. QED  BY <2>1, <2>2, <2>3
<1>4. n \in P
  <2> HIDE DEF P
  <2>1. \A k \in 1..n : k - 1 \in P => k \in P
    BY <1>3
  <2>. QED  BY <1>2, <2>1, UpTo
<1>. QED  BY <1>1, <1>4 DEF Sums

\* Where the strides outside of the innermost dimension are multiples of unit bytes, so
\* is the position of whatever is first in its line.
LEMMA LinesStart ==
  ASSUME NEW n \in Nat \ {0}, NEW shape \in [1..n -> Nat], NEW p, Permutation(n, p),
         NEW s \in [1..n -> Int], NEW size \in Nat, NEW unit \in Nat \ {0},
         \A j \in 1..(n - 1) : Multiple(s[p[j]] * size, unit),
         NEW x, Indexes(n, shape, x), x[p[n]] = 0
  PROVE  Multiple(Position(s, x) * size, unit)
<1> DEFINE f == [d \in 1..n |-> s[d] * x[d]]
<1>1. \A d \in 1..n : x[d] \in Nat /\ s[d] \in Int
  BY DEF Indexes
<1>2. f \in [1..n -> Int]
  BY <1>1
<1>3. ASSUME NEW d \in 1..n PROVE Multiple(f[d] * size, unit)
  <2> DEFINE a == s[d]
             b == x[d]
  <2>1. a \in Int /\ b \in Int /\ f[d] = a * b
    BY <1>1
  <2>2. PICK j \in 1..n : p[j] = d
    BY DEF Permutation
  <2>3. CASE j = n
    <3>1. b = 0
      BY <2>2, <2>3
    <3> HIDE DEF a, b, f
    <3>2. f[d] * size = 0
      BY <2>1, <3>1
    <3>. QED  BY <3>2, ZeroIsMultiple
  <2>4. CASE j # n
    <3>1. j \in 1..(n - 1)
      BY <2>4
    <3>2. Multiple(a * size, unit)
      BY <2>2, <3>1
    <3> HIDE DEF a, b, f
    <3> DEFINE w == a * size
    <3>3. w \in Int /\ Multiple(w, unit) /\ f[d] * size = w * b
      BY <2>1, <3>2
    <3> HIDE DEF w
    <3>4. Multiple(w * b, unit)
      BY <2>1, <3>3, MultiplesTimes
    <3>. QED  BY <3>3, <3>4
  <2>. QED  BY <2>3, <2>4
<1>4. Position(s, x) = Sum(f)
  <2>1. DOMAIN x = 1..n
    BY DEF Indexes
  <2>2. n \in Nat
    OBVIOUS
  <2>. QED  BY <2>1, <2>2, PositionIs
<1> HIDE DEF f
<1>5. Multiple(Sum(f) * size, unit)
  <2>1. n \in Nat /\ unit \in Int /\ size \in Int
    OBVIOUS
  <2>2. \A k \in 1..n : Multiple(f[k] * size, unit)
    BY <1>3
  <2>. QED  BY Zenon, <1>2, <2>1, <2>2, ScaledSumsOfMultiples
<1>. QED  BY <1>4, <1>5

LEMMA PowersDivide ==
  ASSUME NEW a \in PowersOfTwo, NEW b \in PowersOfTwo
  PROVE  a \in Nat \ {0} /\ (a <= b => Multiple(b, a))
<1> DEFINE P == {1, 2, 4, 8, 16, 32, 64, 128, 256, 512, 1024}
<1>1. PowersOfTwo \subseteq P
  <2>1. ASSUME NEW k \in 0..10 PROVE 2^k \in P
    <3>1. k = 0 \/ k = 1 \/ k = 2 \/ k = 3 \/ k = 4 \/ k = 5 \/ k = 6 \/ k = 7 \/ k = 8 \/ k = 9 \/ k = 10
      OBVIOUS
    <3>2. 2^0 \in P /\ 2^1 \in P /\ 2^2 \in P /\ 2^3 \in P /\ 2^4 \in P /\ 2^5 \in P
      OBVIOUS
    <3>3. 2^6 \in P /\ 2^7 \in P /\ 2^8 \in P /\ 2^9 \in P /\ 2^10 \in P
      OBVIOUS
    <3> HIDE DEF P
    <3>. QED  BY Zenon, <3>1, <3>2, <3>3
  <2>. QED  BY <2>1 DEF PowersOfTwo
<1>2. a \in P /\ b \in P
  BY <1>1
<1>3. a \in Nat \ {0} /\ b \in Int
  BY <1>2
<1>4. a <= b => b % a = 0
  BY <1>2
<1>. QED  BY <1>3, <1>4, MultiplesDivide

\* _aligned_element_offset brings the pointer to the boundary, or nothing does.
LEMMA OffsetsAlign ==
  ASSUME NEW ptr \in Nat, NEW size \in PowersOfTwo, NEW base \in PowersOfTwo,
         NEW off, off = AlignedElementOffset(ptr, size, base)
  PROVE  \/ (ptr + off * size) % base = 0
         \/ \A k \in 0..base : (ptr + k * size) % base # 0
<1> DEFINE m == (-ptr) % base
           q == (-ptr) \div base
<1>1. size \in Nat \ {0} /\ base \in Nat \ {0}
  BY PowersDivide
<1>2. m \in 0..(base - 1) /\ q \in Int /\ -ptr = q * base + m
  <2>1. -ptr \in Int
    OBVIOUS
  <2>. QED  BY <1>1, <2>1, Division
<1>3. off = IF m % size = 0 THEN m \div size ELSE 0
  BY DEF AlignedElementOffset
<1> HIDE DEF m, q
<1>4. m \in Int /\ ptr + m \in Int /\ Multiple(ptr + m, base)
  <2>1. q * base \in Int /\ (-q) * base = -(q * base)
    BY <1>1, <1>2
  <2>2. ptr + m = (-q) * base /\ -q \in Int
    BY <1>1, <1>2, <2>1
  <2>. QED  BY <1>2, <2>2 DEF Multiple
<1>5. CASE m % size = 0
  <2>1. m = (m \div size) * size + (m % size) /\ m \div size \in Int
    BY <1>1, <1>4, Division
  <2>2. off * size = m
    BY <1>1, <1>3, <1>5, <2>1
  <2>3. (ptr + m) % base = 0
    BY <1>1, <1>4, MultiplesDivide
  <2>. QED  BY <2>2, <2>3
<1>6. CASE m % size # 0
  <2> SUFFICES ASSUME NEW k \in 0..base, (ptr + k * size) % base = 0 PROVE FALSE
    OBVIOUS
  <2> DEFINE w == k * size
  <2>1. w \in Int /\ ptr + w \in Int /\ Multiple(w, size)
    <3>1. k \in Int
      BY <1>1
    <3>. QED  BY <1>1, <3>1 DEF Multiple
  <2>2. (ptr + w) % base = 0
    OBVIOUS
  <2> HIDE DEF w
  <2>3. Multiple(ptr + w, base)
    BY <1>1, <2>1, <2>2, MultiplesDivide
  <2>4. Multiple(w - m, base) /\ w - m \in Int
    <3>1. Multiple((ptr + w) - (ptr + m), base)
      BY <1>1, <1>4, <2>1, <2>3, MultiplesAdd
    <3>2. (ptr + w) - (ptr + m) = w - m
      BY <1>4, <2>1
    <3>. QED  BY <1>4, <2>1, <3>1, <3>2
  <2>5. w - (w - m) = m
    BY <1>4, <2>1
  <2>6. CASE size <= base
    <3>1. Multiple(base, size)
      BY <2>6, PowersDivide
    <3>2. Multiple(w - m, size)
      BY <1>1, <2>4, <3>1, MultiplesOfMultiples
    <3>3. Multiple(w - (w - m), size)
      BY <1>1, <2>1, <2>4, <3>2, MultiplesAdd
    <3>. QED  BY <1>1, <1>4, <1>6, <2>5, <3>3, MultiplesDivide
  <2>7. CASE base <= size
    <3>1. Multiple(size, base)
      BY <2>7, PowersDivide
    <3>2. Multiple(w, base)
      BY <1>1, <2>1, <3>1, MultiplesOfMultiples
    <3>3. Multiple(w - (w - m), base)
      BY <1>1, <2>1, <2>4, <3>2, MultiplesAdd
    <3>4. m = 0
      BY <1>1, <1>2, <2>5, <3>3, MultiplesAreFar
    <3>5. Multiple(0, size)
      BY <1>1, ZeroIsMultiple
    <3>6. 0 % size = 0
      BY <1>1, <3>5, MultiplesDivide
    <3>. QED  BY <1>6, <3>4, <3>6
  <2>. QED  BY <1>1, <2>6, <2>7
<1>. QED  BY <1>5, <1>6

\* What Aligned promises holds of addresses, and not only of strides and counts: every
\* line starts on its boundary where the tensor does, and empty() starts it there unless
\* no offset in elements would.
THEOREM AlignedInMemory == Spec => []AlignmentKept
<1>1. ASSUME FactoryInv, pc = "made"
      PROVE  /\ HasTensor /\ HasBuffer /\ RequestType(request)
             /\ layout = Resolved(request) /\ layout # NoLayout
             /\ tensor.shape = request.shape /\ tensor.layout = layout /\ tensor.offset = Offset
             /\ tensor.dtype = request.dtype /\ TensorInv
  BY <1>1 DEF FactoryInv, FirstInv, RequestInv, LayoutInv, HasTensor, HasBuffer, HasLayout
<1>2. ASSUME FactoryInv PROVE LinesAligned
  <2> SUFFICES ASSUME pc = "made", IsPolicy(request.layout), tensor.shape # <<>>,
                      NEW unit, unit = UnitOf(request.layout, request.device),
                      NEW innermost, innermost = layout.permutation[Len(layout.permutation)],
                      layout.base % unit = 0, Start(tensor) % layout.base = 0,
                      NEW i \in Indices(tensor.shape), i[innermost] = 0
               PROVE  AddressOf(tensor, i) % unit = 0
    BY DEF LinesAligned
  <2> DEFINE shape == tensor.shape
             s == layout.strides
             p == layout.permutation
             size == ItemSize(tensor.dtype)
             n == Len(shape)
             base == layout.base
             start == Start(tensor)
  <2>1. /\ HasTensor /\ HasBuffer /\ RequestType(request) /\ TensorInv
        /\ layout = Resolved(request) /\ layout # NoLayout
        /\ shape = request.shape /\ tensor.layout = layout
        /\ tensor.dtype = request.dtype /\ tensor.offset \in Nat
    BY <1>1, <1>2 DEF TensorInv, TensorType
  <2>2. size \in Nat /\ shape \in Seq(Nat)
    BY <2>1, TypesAre DEF RequestType
  <2>3. layout = LayoutOf(request.layout, shape, size, request.device)
        /\ request.layout \in Policies
    BY <2>1 DEF Resolved, IsPolicy
  <2>4. base \in Nat \ {0} /\ \A j \in 1..(n - 1) : Multiple(s[p[j]] * size, unit)
    <3> HIDE DEF size, shape
    <3>. QED  BY <2>1, <2>2, <2>3, PolicyResolves, SMTT(30)
  <2>5. unit \in Nat \ {0}
    <3>1. n \in Nat
      BY <2>2
    <3>. QED  BY <2>3, <3>1, PolicyOrders
  <2>6. n \in Nat \ {0} /\ shape \in [1..n -> Nat] /\ Nested(n, shape, p, s)
    <3>1. n \in Nat /\ shape \in [1..n -> Nat] /\ Nested(n, shape, p, s)
      BY <2>1, TensorNests
    <3>2. n # 0
      BY <2>2
    <3>. QED  BY <3>1, <3>2
  <2>7. Len(p) = n
    <3>1. Validate(layout, shape, size)
      BY <2>1 DEF TensorInv, Accepts
    <3>. QED  BY <3>1 DEF Validate, IsPermutation
  <2>8. Permutation(n, p) /\ s \in [1..n -> Int]
    BY <2>6 DEF Nested, Permutation
  <2>9. AddressOf(tensor, i) = start + Position(s, i) * size
    BY <2>1 DEF AddressOf
  <2>10. start \in Int
    <3>1. buffer.ptr \in Nat
      BY <1>2, <2>1, BuffersCount
    <3> DEFINE o == tensor.offset
    <3>2. o * size \in Int
      <4> HIDE DEF o, size
      <4>. QED  BY <2>1, <2>2 DEF o
    <3>. QED  BY <3>1, <3>2 DEF Start
  <2>11. i[p[n]] = 0 /\ i \in Indices(shape)
    BY <2>7
  <2> HIDE DEF shape, s, p, size, n, base, start
  <2>12. Indexes(n, shape, i)
    BY <2>6, <2>11, IndicesAre
  <2> DEFINE w == Position(s, i) * size
  <2>13. Multiple(w, unit)
    BY <2>2, <2>4, <2>5, <2>6, <2>8, <2>11, <2>12, LinesStart
  <2>14. w \in Int
    <3>1. Position(s, i) \in Int
      BY <2>6, <2>12, PositionsInside
    <3>. QED  BY <2>2, <3>1
  <2>15. Multiple(start, unit)
    <3>1. Multiple(start, base)
      BY <2>4, <2>10, MultiplesDivide DEF start, base
    <3>2. Multiple(base, unit)
      BY <2>4, <2>5, MultiplesDivide DEF base
    <3>. QED  BY <2>4, <2>5, <2>10, <3>1, <3>2, MultiplesOfMultiples
  <2> HIDE DEF w
  <2>16. Multiple(start + w, unit) /\ start + w \in Int
    BY <2>5, <2>10, <2>13, <2>14, <2>15, MultiplesAdd
  <2>17. (start + w) % unit = 0
    BY <2>5, <2>16, MultiplesDivide
  <2>. QED  BY <2>9, <2>17 DEF w
<1>3. ASSUME FactoryInv PROVE StartAligned
  <2> DEFINE size == ItemSize(tensor.dtype)
             base == layout.base
             guarantee == request.mr.guarantee
             ptr == buffer.ptr
  <2> SUFFICES ASSUME pc = "made", layout.required # 0,
                      size \in PowersOfTwo, base \in PowersOfTwo, guarantee \in PowersOfTwo
               PROVE  \/ Start(tensor) % base = 0
                      \/ \A k \in 0..base : (ptr + k * size) % base # 0
    BY DEF StartAligned
  <2>1. /\ HasBuffer /\ tensor.offset = Offset /\ tensor.dtype = request.dtype
    BY <1>1, <1>3
  <2>2. ptr \in Nat
    BY <1>3, <2>1, BuffersCount
  <2>3. /\ ptr % guarantee = 0
        /\ pad = IF guarantee < base THEN base ELSE 0
    BY <1>3, <2>1 DEF FactoryInv, BufferInv, Padding
  <2>4. Start(tensor) = ptr + Offset * size
    BY <2>1 DEF Start
  <2>5. Offset = IF pad = 0 THEN 0 ELSE AlignedElementOffset(ptr, size, base)
    BY <2>1 DEF Offset
  <2> HIDE DEF size, base, guarantee, ptr
  <2>6. size \in Nat \ {0} /\ base \in Nat \ {0} /\ guarantee \in Nat \ {0}
    BY PowersDivide
  <2>7. CASE guarantee < base
    <3>1. Offset = AlignedElementOffset(ptr, size, base)
      BY <2>3, <2>5, <2>6, <2>7
    <3> DEFINE off == Offset
    <3> HIDE DEF off
    <3>2. off = AlignedElementOffset(ptr, size, base)
      BY <3>1 DEF off
    <3>. QED  BY <2>2, <2>4, <3>2, OffsetsAlign DEF off
  <2>8. CASE ~(guarantee < base)
    <3>1. Multiple(guarantee, base)
      BY <2>6, <2>8, PowersDivide
    <3>2. Multiple(ptr, guarantee)
      BY <2>2, <2>3, <2>6, MultiplesDivide
    <3>3. Multiple(ptr, base)
      BY <2>2, <2>6, <3>1, <3>2, MultiplesOfMultiples
    <3>4. ptr % base = 0
      BY <2>2, <2>6, <3>3, MultiplesDivide
    <3>5. Offset = 0
      BY <2>3, <2>5, <2>8
    <3>6. ptr + 0 * size = ptr
      BY <2>2, <2>6
    <3>. QED  BY <2>4, <3>4, <3>5, <3>6
  <2>. QED  BY <2>7, <2>8
<1>4. FactoryInv => AlignmentKept
  BY <1>2, <1>3 DEF AlignmentKept
<1>. QED  BY FactoryKept, <1>4, PTL
-------------------------------------------------------------------------------
(***************************************************************************)
(* What was asked for                                                      *)
(***************************************************************************)
\* What is supposed of the element types: one that is recognised, by whatever it can be
\* asked, is what its elements are.
TypesMean == \A o \in Objects \cup {a.dtype : a \in Arrays} : DTypeLike(o) = o.means

Meant(r) == r.dtype = r.means /\ r.mr.device = r.device

\* Inductive: also what was refused after it took memory was meant.
AskedInv ==
  /\ pc = "idle" => buffer = NoBuffer
  /\ (pc = "asked" \/ HasLayout \/ buffer # NoBuffer) => Meant(request)

LEMMA CalledMeans ==
  ASSUME TypesMean, Called
  PROVE  pc' \in {"asked", "refused"} /\ (pc' = "asked" => Meant(request')) /\ buffer' = buffer
<1>1. ASSUME NEW shape, NEW dtype, NEW means, dtype # NoDType => dtype = means,
             NEW device, NEW l, NEW mr, Ask(shape, dtype, means, device, l, mr)
      PROVE  /\ pc' \in {"asked", "refused"} /\ (pc' = "asked" => Meant(request'))
             /\ buffer' = buffer
  BY <1>1 DEF Ask, Meant
<1>2. PICK l \in Policies \cup HandBuilt, mr \in Resources :
        \/ \E shape \in Shapes, object \in Objects, device \in {r.device : r \in Resources} :
             EmptyOf(shape, object, device, l, mr)
        \/ \E array \in Arrays, object \in Optional(Objects),
              device \in Optional({r.device : r \in Resources}) :
             EmptyLike(array, object, device, l, mr)
  BY DEF Called
<1>3. ASSUME NEW shape \in Shapes, NEW object \in Objects, NEW device,
             EmptyOf(shape, object, device, l, mr)
      PROVE  /\ pc' \in {"asked", "refused"} /\ (pc' = "asked" => Meant(request'))
             /\ buffer' = buffer
  <2>1. FromAny(object) # NoDType => FromAny(object) = object.means
    BY DEF TypesMean, DTypeLike
  <2>. QED  BY <1>1, <1>3, <2>1 DEF EmptyOf
<1>4. ASSUME NEW array \in Arrays, NEW object \in Optional(Objects), NEW device,
             EmptyLike(array, object, device, l, mr)
      PROVE  /\ pc' \in {"asked", "refused"} /\ (pc' = "asked" => Meant(request'))
             /\ buffer' = buffer
  <2> DEFINE like == IF object = <<>> THEN array.dtype ELSE object[1]
             on == IF device = <<>> THEN array.device ELSE device[1]
             dtype == IF on \in DeviceTypes THEN DTypeLike(like) ELSE NoDType
  <2>1. like \in Objects \cup {a.dtype : a \in Arrays}
    BY DEF Optional
  <2>2. Ask(array.shape, dtype, like.means, on, l, mr)
    BY <1>4 DEF EmptyLike
  <2> HIDE DEF like, on
  <2>3. dtype # NoDType => dtype = like.means
    BY <2>1 DEF TypesMean
  <2> HIDE DEF dtype
  <2>. QED  BY <1>1, <2>2, <2>3
<1>. QED  BY <1>2, <1>3, <1>4

LEMMA AskedStays == ASSUME TypesMean, AskedInv, [Next]_vars PROVE AskedInv'
<1> USE DEF HasLayout, HasBuffer, HasTensor
<1>1. ASSUME UNCHANGED <<request, buffer>>, pc = "asked" \/ HasLayout, pc' # "idle"
      PROVE  AskedInv'
  BY <1>1 DEF AskedInv
<1>2. CASE Called
  <2>1. pc = "idle"
    BY <1>2 DEF Called
  <2>. QED  BY <1>2, <2>1, CalledMeans DEF AskedInv
<1>3. CASE ResolveLayout
  BY <1>1, <1>3 DEF ResolveLayout
<1>4. ASSUME NEW ptr \in Addresses, Allocate(ptr) PROVE AskedInv'
  BY <1>4 DEF Allocate, AskedInv
<1>5. CASE AllocateFails
  BY <1>1, <1>5 DEF AllocateFails
<1>6. CASE Construct
  BY <1>1, <1>6 DEF Construct
<1>7. CASE FreeBuffer
  BY <1>7 DEF FreeBuffer, AskedInv
<1>8. ASSUME NEW shape, NEW l, NEW offset, NEW readOnly, View(shape, l, offset, readOnly)
      PROVE  AskedInv'
  BY <1>1, <1>8 DEF View
<1>9. ASSUME NEW c, Export(c) PROVE AskedInv'
  BY <1>1, <1>9 DEF Export
<1>10. CASE StartOver
  BY <1>10 DEF StartOver, AskedInv
<1>11. CASE UNCHANGED vars
  BY <1>11 DEF vars, AskedInv
<1>. QED
  BY <1>2, <1>3, <1>4, <1>5, <1>6, <1>7, <1>8, <1>9, <1>10, <1>11 DEF Next

\* empty(), empty_like() and to_capsule: memory is only taken for elements of the type that
\* was meant and from a resource of the device that was meant, and a consumer is told of no
\* other, whatever is passed and whatever is left out; as long as what the code recognises a
\* type by does not deceive it, and the fields of DLDataType can hold it.
THEOREM NothingElseIsMade ==
  ASSUME TypesMean, \A d \in Types : DLDataType(d) = d
  PROVE  Spec => []AsAsked
<1>1. Init => AskedInv
  BY DEF Init, AskedInv, HasLayout, HasBuffer, HasTensor
<1>2. AskedInv /\ [Next]_vars => AskedInv'
  BY AskedStays
<1>3. FactoryInv /\ AskedInv => AsAsked
  <2> SUFFICES ASSUME FactoryInv, AskedInv PROVE AsAsked
    OBVIOUS
  <2>1. \A o \in Objects : DTypeLike(o) = o.means
    BY DEF TypesMean
  <2>2. buffer # NoBuffer => Meant(request)
    BY DEF AskedInv
  <2>3. ASSUME pc = "answered", capsule.version # Refusal
        PROVE  capsule.tensor.dtype = request.means /\ capsule.tensor.device = request.device
    <3>1. HasTensor /\ TensorInv /\ capsule.tensor = DLTensor(tensor)
      BY <2>3, AnswersAre
    <3>2. tensor.dtype \in Types /\ tensor.dtype = request.dtype
      BY <3>1 DEF TensorInv, TensorType
    <3>3. DLDataType(tensor.dtype) = request.dtype
      BY <3>2
    <3>4. Meant(request)
      BY <3>1 DEF AskedInv, HasLayout, HasBuffer
    <3>. QED  BY <3>1, <3>3, <3>4 DEF DLTensor, Meant
  <2>. QED  BY <2>1, <2>2, <2>3 DEF AsAsked, Meant
<1>. QED  BY FactoryKept, <1>1, <1>2, <1>3, PTL DEF Spec
===============================================================================
