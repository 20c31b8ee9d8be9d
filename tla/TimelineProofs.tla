--------------------------- MODULE TimelineProofs ---------------------------
(***************************************************************************)
(* The promises of the annotate pipeline, Timeline, for any episode, any   *)
(* events of the detectors, any answers and faults of the model, and any   *)
(* windows and weights.                                                    *)
(*                                                                         *)
(* NoPartialLabels: an annotation is labelled throughout or not at all     *)
(* (LabelInv).                                                             *)
(*                                                                         *)
(* PublishedCovers: its segments leave out nothing but what is shorter     *)
(* than a segment may be, at the two ends.  Candidates lie further apart   *)
(* than the merge window, so that between them no piece is dropped if the  *)
(* window is as long as a frame (BracketCovers); labelling and smoothing   *)
(* keep the segments in order and without gaps (OrderInv, CoverInv).       *)
(*                                                                         *)
(* GoalsReached: what the smoother was to remove is gone (GoalsInv).       *)
(*                                                                         *)
(* ResultExplained: no segment has a label or a confidence that the        *)
(* segments it was made of do not account for.  ExplainInv says so of      *)
(* every step, with the arithmetic of the rationals it needs.              *)
(*                                                                         *)
(* DecodingIsBest: the labels of Viterbi decoding have the greatest score  *)
(* there is.  Its columns are what DecoderInv says; a path through them    *)
(* scores no more than the state it comes to, and the way back no less     *)
(* (PathScores).  That the recursive functions of the decoder and of the   *)
(* score exist is shown first (SumsExist, WayExists), as is that the keys  *)
(* have a first greatest (FirstBestIs).                                    *)
(*                                                                         *)
(* AnnotationRunsOut: every step leaves fewer, so that a run cannot go on  *)
(* for ever (CountInv).                                                    *)
(***************************************************************************)
EXTENDS Timeline, FiniteSetTheorems, SequenceTheorems, WellFoundedInduction, TLAPS

-----------------------------------------------------------------------------
(* Orders. *)

\* A nonempty set of numbers has a least one, and that is its minimum.
LEMMA MinOf ==
    ASSUME NEW T \in SUBSET Nat, T # {}
    PROVE  Min(T) \in T /\ \A x \in T : Min(T) <= x
<1> DEFINE R == OpToRel(<, Nat)
<1>1. \A x, y \in Nat : <<x, y>> \in R <=> x < y
  BY DEF OpToRel
<1>2. IsWellFoundedOn(R, Nat)
  BY NatLessThanWellFounded
<1> HIDE DEF R
<1>3. PICK m \in T : \A y \in T : ~(<<y, m>> \in R)
  BY <1>2, WFMin
<1>4. \A y \in T : y \in Nat /\ ~(y < m)
  BY <1>1, <1>3, Zenon
<1>5. \A y \in T : m <= y
  BY <1>4
<1> QED
  BY <1>5 DEF Min

\* Smaller elements of a set.
Below(T, t) == {u \in T : u < t}

\* The smaller elements of a greater element are more.
LEMMA BelowGrows ==
    ASSUME NEW T \in SUBSET Nat, IsFiniteSet(T), NEW t \in T, NEW u \in T, t < u
    PROVE  /\ Cardinality(Below(T, t)) \in Nat /\ Cardinality(Below(T, u)) \in Nat
           /\ Cardinality(Below(T, t)) < Cardinality(Below(T, u))
           /\ Cardinality(Below(T, u)) < Cardinality(T)
<1>1. Below(T, t) \in SUBSET Below(T, u) /\ Below(T, u) \in SUBSET T
  <2>1. \A x \in T : x < t => x < u
    OBVIOUS
  <2> QED
    BY <2>1 DEF Below
<1>2. t \in Below(T, u) /\ t \notin Below(T, t) /\ u \in T /\ u \notin Below(T, u)
  BY DEF Below
<1>3. IsFiniteSet(Below(T, u)) /\ Cardinality(Below(T, u)) <= Cardinality(T)
      /\ Cardinality(Below(T, u)) # Cardinality(T)
  BY <1>1, <1>2, FS_Subset
<1>4. IsFiniteSet(Below(T, t)) /\ Cardinality(Below(T, t)) <= Cardinality(Below(T, u))
      /\ Cardinality(Below(T, t)) # Cardinality(Below(T, u))
  BY <1>1, <1>2, <1>3, FS_Subset
<1>5. Cardinality(Below(T, t)) \in Nat /\ Cardinality(Below(T, u)) \in Nat
      /\ Cardinality(T) \in Nat
  BY <1>3, <1>4, FS_CardinalityType
<1> QED
  BY <1>3, <1>4, <1>5

\* Nth is in order.
LEMMA NthInOrder ==
    ASSUME NEW T \in SUBSET Nat, IsFiniteSet(T)
    PROVE  /\ Cardinality(T) \in Nat
           /\ \A k \in 1 .. Cardinality(T) : Nth(T, k) \in T
           /\ \A k, l \in 1 .. Cardinality(T) : k < l => Nth(T, k) < Nth(T, l)
<1> DEFINE n == Cardinality(T)
           r == [t \in T |-> Cardinality(Below(T, t))]
<1>1. n \in Nat
  BY FS_CardinalityType
<1>2. \A t \in T : r[t] \in 0 .. n - 1
  <2> SUFFICES ASSUME NEW t \in T PROVE r[t] \in 0 .. n - 1
    OBVIOUS
  <2>1. Below(T, t) \in SUBSET T /\ t \notin Below(T, t)
    BY DEF Below
  <2>2. IsFiniteSet(Below(T, t)) /\ Cardinality(Below(T, t)) <= n
        /\ Cardinality(Below(T, t)) # n
    BY <2>1, FS_Subset
  <2>3. Cardinality(Below(T, t)) \in Nat
    BY <2>2, FS_CardinalityType
  <2> QED
    BY <1>1, <2>2, <2>3
<1>3. \A t, u \in T : t < u => r[t] < r[u]
  BY BelowGrows
<1>4. r \in Injection(T, 0 .. n - 1)
  <2>1. r \in [T -> 0 .. n - 1]
    BY <1>2
  <2>2. \A t, u \in T : r[t] = r[u] => t = u
    <3> SUFFICES ASSUME NEW t \in T, NEW u \in T, r[t] = r[u] PROVE t = u
      OBVIOUS
    <3>1. t \in Nat /\ u \in Nat /\ r[t] \in Nat /\ r[u] \in Nat
      BY <1>1, <1>2
    <3> HIDE DEF r
    <3>2. ~(t < u) /\ ~(u < t)
      BY <1>3, <3>1
    <3> QED
      BY <3>1, <3>2
  <2> HIDE DEF r, n
  <2> QED
    BY <2>1, <2>2 DEF Injection, IsInjective
<1>5. IsFiniteSet(0 .. n - 1) /\ Cardinality(0 .. n - 1) = n
  <2>1. 0 \in Int /\ n - 1 \in Int /\ (IF 0 > n - 1 THEN 0 ELSE n - 1 - 0 + 1) = n
    BY <1>1
  <2> HIDE DEF n
  <2> QED
    BY <2>1, FS_Interval, Zenon
<1>6. r \in Surjection(T, 0 .. n - 1)
  <2> HIDE DEF r
  <2> QED
    BY <1>4, <1>5, FS_Injection
<1>7. ASSUME NEW k \in 1 .. n
      PROVE  Nth(T, k) \in T /\ Cardinality(Below(T, Nth(T, k))) = k - 1
  <2>1. k - 1 \in 0 .. n - 1
    BY <1>1
  <2>2. PICK t \in T : r[t] = k - 1
    <3> HIDE DEF r, n
    <3> QED
      BY <1>6, <2>1 DEF Surjection
  <2>3. Cardinality(Below(T, t)) = k - 1
    BY <2>2
  <2> QED
    BY <2>3 DEF Nth, Below
<1>8. ASSUME NEW k \in 1 .. n, NEW l \in 1 .. n, k < l
      PROVE  Nth(T, k) < Nth(T, l)
  <2> DEFINE t == Nth(T, k)
             u == Nth(T, l)
  <2>1. t \in T /\ u \in T /\ t \in Nat /\ u \in Nat
    BY <1>7
  <2>2. Cardinality(Below(T, t)) = k - 1 /\ Cardinality(Below(T, u)) = l - 1
    BY <1>7
  <2>3. k - 1 < l - 1 /\ k - 1 \in Int /\ l - 1 \in Int
    BY <1>1, <1>8
  <2> HIDE DEF t, u
  <2>4. t # u
    BY <2>2, <2>3
  <2>5. ~(u < t)
    BY <2>1, <2>2, <2>3, BelowGrows
  <2>6. t < u
    BY <2>1, <2>4, <2>5
  <2> QED
    BY <2>6 DEF t, u
<1> QED
  BY <1>1, <1>7, <1>8

\* In an interval it is the k-th number.
LEMMA NthOfInterval ==
    ASSUME NEW a \in Int, NEW b \in Int, NEW k \in 1 .. b - a + 1
    PROVE  Nth(a .. b, k) = a + k - 1
<1>1. \A t \in a .. b : Cardinality({u \in a .. b : u < t}) = t - a
  <2> SUFFICES ASSUME NEW t \in a .. b
               PROVE  Cardinality({u \in a .. b : u < t}) = t - a
    OBVIOUS
  <2>1. {u \in a .. b : u < t} = a .. t - 1
    OBVIOUS
  <2>2. t - 1 \in Int /\ (IF a > t - 1 THEN 0 ELSE t - 1 - a + 1) = t - a
    OBVIOUS
  <2>3. Cardinality(a .. t - 1) = t - a
    BY <2>2, FS_Interval, Zenon
  <2> QED
    BY <2>1, <2>3
<1>2. a + k - 1 \in a .. b
  OBVIOUS
<1>3. \A t \in a .. b : t - a = k - 1 <=> t = a + k - 1
  OBVIOUS
<1> QED
  BY <1>1, <1>2, <1>3 DEF Nth

-----------------------------------------------------------------------------
(* Rational numbers. *)

\* The first divides the second.
Divides(d, n) == \E k \in Nat : n = d * k

\* What divides a remainder and the divisor divides the number, and conversely.
LEMMA RemainderDivides ==
    ASSUME NEW m \in Nat, NEW n \in Nat, m > 0, NEW d \in Nat, d > 0, Divides(d, m)
    PROVE  Divides(d, n % m) <=> Divides(d, n)
<1> DEFINE q == n \div m
           r == n % m
<1>1. q \in Nat /\ r \in Nat /\ n = m * q + r
  BY SMTT(30)
<1> HIDE DEF q, r
<1>2. PICK k \in Nat : m = d * k
  BY DEF Divides
<1>3. k * q \in Nat /\ m * q = d * (k * q)
  BY <1>1, <1>2
<1> DEFINE c == k * q
<1> HIDE DEF c
<1>4. c \in Nat /\ n = d * c + r
  BY <1>1, <1>3 DEF c
<1>5. ASSUME Divides(d, r)
      PROVE  Divides(d, n)
  <2>1. PICK j \in Nat : r = d * j
    BY <1>5 DEF Divides
  <2>2. n = d * (c + j) /\ c + j \in Nat
    BY <1>4, <2>1
  <2> QED
    BY <2>2 DEF Divides
<1>6. ASSUME Divides(d, n)
      PROVE  Divides(d, r)
  <2>1. PICK j \in Nat : n = d * j
    BY <1>6 DEF Divides
  <2>2. r = d * (j - c) /\ j - c \in Int
    BY <1>1, <1>4, <2>1
  <2>3. j - c \in Nat
    <3>1. d * (j - c) >= 0
      BY <1>1, <2>2
    <3> DEFINE x == j - c
    <3> HIDE DEF x
    <3>2. x \in Int /\ d * x >= 0
      BY <2>2, <3>1 DEF x
    <3>3. x >= 0
      BY <3>2
    <3> QED
      BY <3>2, <3>3 DEF x
  <2> QED
    BY <2>2, <2>3 DEF Divides
<1> QED
  BY <1>5, <1>6 DEF r

\* The common divisors of two numbers, of which the first is positive.
Common(m, n) == {d \in 1 .. m : Divides(d, m) /\ Divides(d, n)}
Greatest(S) == CHOOSE d \in S : \A x \in S : x <= d

\* The greatest common divisor satisfies the equation that defines Gcd; so there is
\* such a function, and Gcd is one.
LEMMA GcdEquation ==
    \A m, n \in Nat : Gcd[<<m, n>>] = IF m = 0 THEN n ELSE Gcd[<<n % m, m>>]
<1> DEFINE g == [p \in Nat \X Nat |-> IF p[1] = 0 THEN p[2] ELSE Greatest(Common(p[1], p[2]))]
           E(f) == f = [p \in Nat \X Nat |->
                            IF p[1] = 0 THEN p[2] ELSE f[<<p[2] % p[1], p[1]>>]]
<1>1. ASSUME NEW m \in Nat, NEW n \in Nat, m > 0
      PROVE  g[<<n % m, m>>] = Greatest(Common(m, n))
  <2> DEFINE r == n % m
  <2> SUFFICES g[<<r, m>>] = Greatest(Common(m, n))
    OBVIOUS
  <2>1. r \in Nat /\ r < m
    BY <1>1
  <2>2. g[<<r, m>>] = IF r = 0 THEN m ELSE Greatest(Common(r, m))
    BY <2>1
  <2>3. \A d \in 1 .. m : Divides(d, m) => (Divides(d, r) <=> Divides(d, n))
    BY <1>1, RemainderDivides
  <2> HIDE DEF r, g
  <2>4. CASE r = 0
    <3>1. Divides(m, m) /\ Divides(m, r) /\ m \in 1 .. m
      <4>1. m = m * 1 /\ r = m * 0 /\ m \in 1 .. m
        BY <1>1, <2>4
      <4> QED
        BY <4>1 DEF Divides
    <3>2. m \in Common(m, n) /\ \A x \in Common(m, n) : x \in Nat /\ x <= m
      BY <2>3, <3>1 DEF Common
    <3>3. Greatest(Common(m, n)) = m
      <4> DEFINE S == Common(m, n)
      <4>1. m \in S /\ \A x \in S : x \in Nat /\ x <= m
        BY <3>2
      <4> HIDE DEF S
      <4>2. Greatest(S) \in S /\ \A x \in S : x <= Greatest(S)
        BY <4>1 DEF Greatest
      <4>3. Greatest(S) \in Nat /\ Greatest(S) <= m /\ m <= Greatest(S)
        BY <4>1, <4>2
      <4>4. Greatest(S) = m
        BY <4>3
      <4> QED
        BY <4>4 DEF S
    <3> QED
      BY <2>2, <2>4, <3>3
  <2>5. CASE r # 0
    <3>1. ASSUME NEW d \in Nat, d > 0, Divides(d, r)
          PROVE  d <= r
      <4>1. PICK k \in Nat : r = d * k
        BY <3>1 DEF Divides
      <4>2. k # 0
        BY <2>5, <3>1, <4>1
      <4> QED
        BY <3>1, <4>1, <4>2
    <3>2. \A d : d \in Common(m, n) <=> d \in Common(r, m)
      BY <2>1, <2>3, <3>1 DEF Common
    <3>3. Common(m, n) = Common(r, m)
      BY <3>2
    <3> QED
      BY <2>2, <2>5, <3>3
  <2> QED
    BY <2>4, <2>5
<1>2. E(g)
  <2>1. ASSUME NEW p \in Nat \X Nat
        PROVE  g[p] = IF p[1] = 0 THEN p[2] ELSE g[<<p[2] % p[1], p[1]>>]
    <3>1. p[1] \in Nat /\ p[2] \in Nat /\ p = <<p[1], p[2]>>
      OBVIOUS
    <3>2. g[p] = IF p[1] = 0 THEN p[2] ELSE Greatest(Common(p[1], p[2]))
      OBVIOUS
    <3> HIDE DEF g
    <3>3. p[1] # 0 => g[<<p[2] % p[1], p[1]>>] = Greatest(Common(p[1], p[2]))
      BY <1>1, <3>1
    <3> QED
      BY <3>2, <3>3
  <2> DEFINE h == [p \in Nat \X Nat |-> IF p[1] = 0 THEN p[2] ELSE g[<<p[2] % p[1], p[1]>>]]
  <2>2. DOMAIN g = Nat \X Nat /\ g = [p \in Nat \X Nat |-> g[p]]
    OBVIOUS
  <2> HIDE DEF g
  <2>3. [p \in Nat \X Nat |-> g[p]] = h
    BY <2>1
  <2> QED
    BY <2>2, <2>3
<1>3. Gcd = CHOOSE f : E(f)
  BY DEF Gcd
<1> HIDE DEF E, g
<1>4. E(Gcd)
  BY <1>2, <1>3
<1>5. \A p \in Nat \X Nat : Gcd[p] = IF p[1] = 0 THEN p[2] ELSE Gcd[<<p[2] % p[1], p[1]>>]
  BY <1>4 DEF E
<1> QED
  BY <1>5

\* Gcd divides both.
LEMMA GcdDivides ==
    \A m, n \in Nat : LET d == Gcd[<<m, n>>]
                      IN  d \in Nat /\ Divides(d, m) /\ Divides(d, n)
<1> DEFINE Good(m, n) == LET d == Gcd[<<m, n>>]
                         IN  d \in Nat /\ Divides(d, m) /\ Divides(d, n)
           T == {m \in Nat : \E n \in Nat : ~Good(m, n)}
<1>1. ASSUME T # {}
      PROVE  FALSE
  <2> DEFINE m == Min(T)
  <2>1. m \in T /\ \A x \in T : m <= x
    <3>1. T \in SUBSET Nat
      OBVIOUS
    <3> HIDE DEF T
    <3> QED
      BY <1>1, <3>1, MinOf
  <2>2. m \in Nat /\ \A x \in Nat : x < m => x \notin T
    <3>1. m \in Nat
      BY <2>1
    <3> HIDE DEF T, m
    <3> QED
      BY <2>1, <3>1
  <2>3. PICK n \in Nat : ~Good(m, n)
    BY <2>1
  <2> HIDE DEF m
  <2>4. Gcd[<<m, n>>] = IF m = 0 THEN n ELSE Gcd[<<n % m, m>>]
    BY <2>2, GcdEquation
  <2>5. CASE m = 0
    <3>1. m = n * 0 /\ n = n * 1
      BY <2>5
    <3> QED
      BY <2>3, <2>4, <2>5, <3>1 DEF Divides
  <2>6. CASE m # 0
    <3> DEFINE r == n % m
               d == Gcd[<<r, m>>]
    <3>1. r \in Nat /\ r < m /\ m > 0
      BY <2>2, <2>6
    <3>2. Good(r, m)
      BY <2>2, <3>1
    <3>3. d \in Nat /\ Divides(d, r) /\ Divides(d, m)
      BY <3>2
    <3> HIDE DEF d
    <3>4. d > 0
      <4>1. PICK k \in Nat : m = d * k
        BY <3>3 DEF Divides
      <4> QED
        BY <2>6, <3>3, <4>1
    <3>5. Divides(d, n)
      BY <2>2, <3>1, <3>3, <3>4, RemainderDivides
    <3> QED
      BY <2>3, <2>4, <2>6, <3>3, <3>5 DEF d
  <2> QED
    BY <2>5, <2>6
<1> QED
  BY <1>1

\* A reduced rational is equal to what it was.
LEMMA ReducedIs ==
    ASSUME NEW a \in Int, NEW b \in Nat, b > 0
    PROVE  LET r == Reduced[<<a, b>>]
           IN  /\ r[1] \in Int /\ r[2] \in Nat /\ r[2] > 0 /\ r \in Rational
               /\ r[1] * b = a * r[2]
<1> DEFINE c == IF a < 0 THEN - a ELSE a
           d == Gcd[<<c, b>>]
<1>1. c \in Nat /\ (a = c \/ a = - c)
  OBVIOUS
<1>2. Reduced[<<a, b>>] = <<a \div d, b \div d>>
  <2>1. <<a, b>> \in Rational /\ <<a, b>>[1] = a /\ <<a, b>>[2] = b
    BY DEF Rational
  <2> QED
    BY <2>1 DEF Reduced
<1> HIDE DEF c
<1>3. d \in Nat /\ Divides(d, c) /\ Divides(d, b)
  BY <1>1, GcdDivides
<1> HIDE DEF d
<1>4. PICK k \in Nat : c = d * k
  BY <1>3 DEF Divides
<1>5. PICK j \in Nat : b = d * j
  BY <1>3 DEF Divides
<1>6. d > 0 /\ j > 0
  BY <1>3, <1>5
<1>7. PICK i \in Int : a = i * d
  <2>1. CASE a = c
    <3>1. a = k * d
      BY <1>3, <1>4, <2>1
    <3> QED
      BY <3>1
  <2>2. CASE a = - c
    <3>1. a = (- k) * d /\ - k \in Int
      BY <1>3, <1>4, <2>2
    <3> QED
      BY <3>1
  <2> QED
    BY <1>1, <2>1, <2>2
<1>8. b = j * d
  BY <1>3, <1>5
<1>9. a \div d = i /\ b \div d = j
  <2>1. (i * d) \div d = i /\ (j * d) \div d = j
    BY <1>3, <1>6
  <2> QED
    BY <1>7, <1>8, <2>1
<1>10. i * b = a * j
  BY <1>3, <1>7, <1>8
<1>11. <<i, j>> \in Rational
  BY <1>6 DEF Rational
<1> QED
  BY <1>2, <1>6, <1>9, <1>10, <1>11

\* The order of rational numbers.
AtLeast(x, y) == ~Less(x, y)
IsRational(x) == x[1] \in Int /\ x[2] \in Nat /\ x[2] > 0

\* The rational numbers are such pairs.
LEMMA RationalIs == \A x \in Rational : IsRational(x)
  BY DEF Rational, IsRational

\* A factor that is not negative keeps the order of integers ...
LEMMA TimesKeeps ==
    ASSUME NEW x \in Int, NEW y \in Int, NEW z \in Nat, x <= y
    PROVE  x * z <= y * z
  OBVIOUS

\* ... and one that is positive can be cancelled.
LEMMA CancelTimes ==
    ASSUME NEW x \in Int, NEW y \in Int, NEW z \in Nat, z > 0, x * z <= y * z
    PROVE  x <= y
  OBVIOUS

\* The order of the rationals is that of the products, and it is total ...
LEMMA AtLeastIs ==
    ASSUME NEW x, NEW y, IsRational(x), IsRational(y)
    PROVE  /\ AtLeast(x, y) <=> y[1] * x[2] <= x[1] * y[2]
           /\ AtLeast(x, y) \/ AtLeast(y, x)
<1>1. x[1] * y[2] \in Int /\ y[1] * x[2] \in Int
  BY DEF IsRational
<1> QED
  BY <1>1 DEF AtLeast, Less

\* ... and transitive.
LEMMA AtLeastTransitive ==
    ASSUME NEW x, NEW y, NEW z, IsRational(x), IsRational(y), IsRational(z),
           AtLeast(x, y), AtLeast(y, z)
    PROVE  AtLeast(x, z)
<1> DEFINE a == x[1]
           b == x[2]
           c == y[1]
           d == y[2]
           e == z[1]
           f == z[2]
<1>1. /\ a \in Int /\ c \in Int /\ e \in Int /\ b \in Nat /\ d \in Nat /\ f \in Nat /\ d > 0
      /\ c * b <= a * d /\ e * d <= c * f
  BY AtLeastIs DEF IsRational
<1>2. AtLeast(x, z) <=> e * b <= a * f
  BY AtLeastIs
<1> HIDE DEF a, b, c, d, e, f
<1> DEFINE p == (e * d) * b
           q == (c * b) * f
           r == (a * d) * f
<1>3. q <= r /\ p <= (c * f) * b
  BY <1>1, TimesKeeps
<1>4. (e * b) * d = p /\ q = (c * f) * b /\ (a * f) * d = r
      /\ e * b \in Int /\ a * f \in Int /\ p \in Int /\ q \in Int /\ r \in Int
  BY <1>1
<1> HIDE DEF p, q, r
<1>5. (e * b) * d <= (a * f) * d
  <2>1. p <= q /\ q <= r
    BY <1>3, <1>4
  <2>2. p <= r
    BY <1>4, <2>1
  <2> QED
    BY <1>4, <2>2
<1>6. e * b <= a * f
  BY <1>1, <1>4, <1>5, CancelTimes
<1> QED
  BY <1>2, <1>6

\* Plus is the sum.
LEMMA PlusIs ==
    ASSUME NEW x, NEW y, x \in Rational, y \in Rational
    PROVE  LET r == Plus(x, y)
           IN  /\ r \in Rational /\ IsRational(r) /\ IsRational(x) /\ IsRational(y)
               /\ r[1] * (x[2] * y[2]) = (x[1] * y[2] + y[1] * x[2]) * r[2]
<1> DEFINE a == x[1] * y[2] + y[1] * x[2]
           b == x[2] * y[2]
<1>1. IsRational(x) /\ IsRational(y)
  BY DEF Rational, IsRational
<1>2. a \in Int /\ b \in Nat /\ b > 0
  <2>1. x[1] \in Int /\ y[1] \in Int /\ x[2] \in Nat /\ y[2] \in Nat /\ x[2] > 0 /\ y[2] > 0
    BY <1>1 DEF IsRational
  <2> QED
    BY <2>1
<1>3. Plus(x, y) = Reduced[<<a, b>>]
  BY DEF Plus, Sums
<1> HIDE DEF a, b
<1>4. LET r == Reduced[<<a, b>>]
      IN  /\ r[1] \in Int /\ r[2] \in Nat /\ r[2] > 0 /\ r \in Rational
          /\ r[1] * b = a * r[2]
  BY <1>2, ReducedIs
<1> QED
  BY <1>1, <1>3, <1>4 DEF IsRational, a, b

\* Times is the product.
LEMMA TimesIs ==
    ASSUME NEW x, NEW y, x \in Rational, y \in Rational
    PROVE  LET r == Times(x, y)
           IN  /\ r \in Rational /\ IsRational(r) /\ IsRational(x) /\ IsRational(y)
               /\ r[1] * (x[2] * y[2]) = (x[1] * y[1]) * r[2]
<1> DEFINE a == x[1] * y[1]
           b == x[2] * y[2]
<1>1. IsRational(x) /\ IsRational(y)
  BY DEF Rational, IsRational
<1>2. a \in Int /\ b \in Nat /\ b > 0
  <2>1. x[1] \in Int /\ y[1] \in Int /\ x[2] \in Nat /\ y[2] \in Nat /\ x[2] > 0 /\ y[2] > 0
    BY <1>1 DEF IsRational
  <2> QED
    BY <2>1
<1>3. Times(x, y) = Reduced[<<a, b>>]
  BY DEF Times, Products
<1> HIDE DEF a, b
<1>4. LET r == Reduced[<<a, b>>]
      IN  /\ r[1] \in Int /\ r[2] \in Nat /\ r[2] > 0 /\ r \in Rational
          /\ r[1] * b = a * r[2]
  BY <1>2, ReducedIs
<1> QED
  BY <1>1, <1>3, <1>4 DEF IsRational, a, b

\* The weighted mean of two numbers is between them.  First its parts, as a bound z
\* from below (s = 1) or from above (s = -1).
LEMMA WeightedBound ==
    ASSUME NEW x, x \in Rational, NEW n \in Nat, n > 0,
           NEW e \in Int, NEW f \in Nat, f > 0, NEW s \in {1, -1},
           s * (e * x[2]) <= s * (x[1] * f)
    PROVE  LET w == Times(<<n, 1>>, x)
           IN  s * ((n * e) * w[2]) <= s * (w[1] * f)
<1> DEFINE w == Times(<<n, 1>>, x)
           a == x[1]
           b == x[2]
           c == w[1]
           d == w[2]
<1>1. <<n, 1>> \in Rational /\ <<n, 1>>[1] = n /\ <<n, 1>>[2] = 1
  BY DEF Rational
<1>2. IsRational(w) /\ IsRational(x) /\ w[1] * (1 * x[2]) = (n * x[1]) * w[2]
  BY <1>1, TimesIs
<1>3. /\ a \in Int /\ b \in Nat /\ b > 0 /\ c \in Int /\ d \in Nat /\ d > 0
      /\ c * (1 * b) = (n * a) * d /\ s * (e * b) <= s * (a * f) /\ s \in Int
  BY <1>2 DEF IsRational
<1> HIDE DEF a, b, c, d, w
<1>4. s * (e * b) \in Int /\ s * (a * f) \in Int /\ n * d \in Nat
  BY <1>3
<1>5. (s * (e * b)) * (n * d) <= (s * (a * f)) * (n * d)
  BY <1>3, <1>4, TimesKeeps
<1>6. (s * (e * b)) * (n * d) = (s * ((n * e) * d)) * b
  BY <1>3
<1>7. (s * (a * f)) * (n * d) = (s * f) * ((n * a) * d)
  BY <1>3
<1>8. (s * f) * (c * (1 * b)) = (s * (c * f)) * b
  BY <1>3
<1>9. (s * ((n * e) * d)) * b <= (s * (c * f)) * b
  BY <1>3, <1>5, <1>6, <1>7, <1>8
<1>10. s * ((n * e) * d) \in Int /\ s * (c * f) \in Int
  BY <1>3
<1>11. s * ((n * e) * d) <= s * (c * f)
  BY <1>3, <1>9, <1>10, CancelTimes
<1> QED
  BY <1>11 DEF c, d, w

\* Then their sum ...
LEMMA SumBound ==
    ASSUME NEW v, NEW w, v \in Rational, w \in Rational, NEW m \in Int, NEW n \in Int,
           NEW f \in Nat, f > 0, NEW s \in {1, -1},
           s * (m * v[2]) <= s * (v[1] * f), s * (n * w[2]) <= s * (w[1] * f)
    PROVE  LET p == Plus(v, w)
           IN  s * ((m + n) * p[2]) <= s * (p[1] * f)
<1> DEFINE p == Plus(v, w)
           a == v[1]
           b == v[2]
           c == w[1]
           d == w[2]
           g == p[1]
           h == p[2]
<1>1. IsRational(p) /\ IsRational(v) /\ IsRational(w)
      /\ p[1] * (v[2] * w[2]) = (v[1] * w[2] + w[1] * v[2]) * p[2]
  BY PlusIs
<1>2. /\ a \in Int /\ b \in Nat /\ b > 0 /\ c \in Int /\ d \in Nat /\ d > 0
      /\ g \in Int /\ h \in Nat /\ h > 0 /\ s \in Int
      /\ g * (b * d) = (a * d + c * b) * h
      /\ s * (m * b) <= s * (a * f) /\ s * (n * d) <= s * (c * f)
  BY <1>1 DEF IsRational
<1> HIDE DEF a, b, c, d, g, h, p
<1> DEFINE x == (s * (m * b)) * (d * h)
           y == (s * (n * d)) * (b * h)
           u == (s * (a * f)) * (d * h)
           z == (s * (c * f)) * (b * h)
<1>3. d * h \in Nat /\ b * h \in Nat /\ s * (m * b) \in Int /\ s * (a * f) \in Int
      /\ s * (n * d) \in Int /\ s * (c * f) \in Int
  BY <1>2
<1>4. x <= u /\ y <= z
  BY <1>2, <1>3, TimesKeeps
<1>5. x + y = (s * ((m + n) * h)) * (b * d) /\ x \in Int /\ y \in Int
  BY <1>2
<1>6. u + z = (s * f) * ((a * d + c * b) * h) /\ u \in Int /\ z \in Int
  BY <1>2
<1>7. (s * f) * (g * (b * d)) = (s * (g * f)) * (b * d)
  BY <1>2
<1> HIDE DEF x, y, u, z
<1>8. x + y <= u + z
  BY <1>4, <1>5, <1>6
<1>9. (s * ((m + n) * h)) * (b * d) <= (s * (g * f)) * (b * d)
  BY <1>2, <1>5, <1>6, <1>7, <1>8
<1>10. s * ((m + n) * h) \in Int /\ s * (g * f) \in Int /\ b * d \in Nat /\ b * d > 0
  BY <1>2
<1>11. s * ((m + n) * h) <= s * (g * f)
  BY <1>9, <1>10, CancelTimes
<1> QED
  BY <1>11 DEF g, h, p

\* ... and the quotient by the weights.
LEMMA QuotientBound ==
    ASSUME NEW p, p \in Rational, NEW n \in Nat, n > 0,
           NEW e \in Int, NEW f \in Nat, f > 0, NEW s \in {1, -1},
           s * ((n * e) * p[2]) <= s * (p[1] * f)
    PROVE  LET q == Times(p, <<1, n>>)
           IN  s * (e * q[2]) <= s * (q[1] * f)
<1> DEFINE q == Times(p, <<1, n>>)
           a == p[1]
           b == p[2]
           c == q[1]
           d == q[2]
<1>1. <<1, n>> \in Rational /\ <<1, n>>[1] = 1 /\ <<1, n>>[2] = n
  BY DEF Rational
<1>2. IsRational(q) /\ IsRational(p) /\ q[1] * (p[2] * n) = (p[1] * 1) * q[2]
  BY <1>1, TimesIs
<1>3. /\ a \in Int /\ b \in Nat /\ b > 0 /\ c \in Int /\ d \in Nat /\ d > 0
      /\ c * (b * n) = (a * 1) * d /\ s * ((n * e) * b) <= s * (a * f) /\ s \in Int
  BY <1>2 DEF IsRational
<1> HIDE DEF a, b, c, d, q
<1>4. s * ((n * e) * b) \in Int /\ s * (a * f) \in Int
  BY <1>3
<1>5. (s * ((n * e) * b)) * d <= (s * (a * f)) * d
  BY <1>3, <1>4, TimesKeeps
<1>6. (s * ((n * e) * b)) * d = (s * (e * d)) * (b * n)
  BY <1>3
<1>7. (s * (a * f)) * d = (s * f) * ((a * 1) * d)
  BY <1>3
<1>8. (s * f) * (c * (b * n)) = (s * (c * f)) * (b * n)
  BY <1>3
<1>9. (s * (e * d)) * (b * n) <= (s * (c * f)) * (b * n)
  BY <1>3, <1>5, <1>6, <1>7, <1>8
<1>10. s * (e * d) \in Int /\ s * (c * f) \in Int /\ b * n \in Nat /\ b * n > 0
  BY <1>3
<1>11. s * (e * d) <= s * (c * f)
  BY <1>9, <1>10, CancelTimes
<1> QED
  BY <1>11 DEF c, d, q

\* The mean is not below a number that neither of the two is below, and not above
\* one that neither is above.
LEMMA MeanBetween ==
    ASSUME NEW x, NEW y, x \in Rational, y \in Rational,
           NEW m \in Nat, NEW n \in Nat, m > 0, n > 0
    PROVE  LET q == Times(Plus(Times(<<m, 1>>, x), Times(<<n, 1>>, y)), <<1, m + n>>)
           IN  /\ q \in Rational
               /\ \A z \in Rational : AtLeast(x, z) /\ AtLeast(y, z) => AtLeast(q, z)
               /\ \A z \in Rational : AtLeast(z, x) /\ AtLeast(z, y) => AtLeast(z, q)
<1> DEFINE v == Times(<<m, 1>>, x)
           w == Times(<<n, 1>>, y)
           p == Plus(v, w)
           q == Times(p, <<1, m + n>>)
<1>1. <<m, 1>> \in Rational /\ <<n, 1>> \in Rational /\ <<1, m + n>> \in Rational
      /\ m + n \in Nat /\ m + n > 0
  BY DEF Rational
<1>2. v \in Rational /\ w \in Rational
  BY <1>1, TimesIs
<1>3. p \in Rational
  BY <1>2, PlusIs
<1>4. q \in Rational
  BY <1>1, <1>3, TimesIs
<1>5. \A z \in Rational : IsRational(z)
  BY DEF Rational, IsRational
<1>6. ASSUME NEW s \in {1, -1}, NEW z \in Rational,
             s * (z[1] * x[2]) <= s * (x[1] * z[2]), s * (z[1] * y[2]) <= s * (y[1] * z[2])
      PROVE  s * (z[1] * q[2]) <= s * (q[1] * z[2])
  <2> DEFINE e == z[1]
             f == z[2]
  <2>1. e \in Int /\ f \in Nat /\ f > 0
    BY <1>5 DEF IsRational
  <2>2. s * (e * x[2]) <= s * (x[1] * f) /\ s * (e * y[2]) <= s * (y[1] * f)
    BY <1>6
  <2> HIDE DEF e, f
  <2>3. s * ((m * e) * v[2]) <= s * (v[1] * f)
    BY <2>1, <2>2, WeightedBound
  <2>4. s * ((n * e) * w[2]) <= s * (w[1] * f)
    BY <2>1, <2>2, WeightedBound
  <2> HIDE DEF v, w
  <2>5. m * e \in Int /\ n * e \in Int /\ m * e + n * e = (m + n) * e
    BY <2>1
  <2>6. s * ((m * e + n * e) * p[2]) <= s * (p[1] * f)
    BY <1>2, <2>1, <2>3, <2>4, <2>5, SumBound
  <2> HIDE DEF p
  <2>7. s * (((m + n) * e) * p[2]) <= s * (p[1] * f)
    BY <2>5, <2>6
  <2>8. s * (e * q[2]) <= s * (q[1] * f)
    BY <1>1, <1>3, <2>1, <2>7, QuotientBound
  <2> QED
    BY <2>8 DEF e, f
<1> HIDE DEF q, p, v, w
<1>7. ASSUME NEW z \in Rational, AtLeast(x, z), AtLeast(y, z)
      PROVE  AtLeast(q, z)
  <2>1. z[1] * x[2] <= x[1] * z[2] /\ z[1] * y[2] <= y[1] * z[2]
    BY <1>5, <1>7, AtLeastIs
  <2>2. /\ z[1] * x[2] \in Int /\ x[1] * z[2] \in Int /\ z[1] * y[2] \in Int
        /\ y[1] * z[2] \in Int /\ z[1] * q[2] \in Int /\ q[1] * z[2] \in Int
    BY <1>4, <1>5 DEF IsRational
  <2>3. 1 * (z[1] * x[2]) <= 1 * (x[1] * z[2]) /\ 1 * (z[1] * y[2]) <= 1 * (y[1] * z[2])
    BY <2>1, <2>2
  <2>4. 1 * (z[1] * q[2]) <= 1 * (q[1] * z[2])
    BY <1>6, <2>3
  <2>5. z[1] * q[2] <= q[1] * z[2]
    BY <2>2, <2>4
  <2> QED
    BY <1>4, <1>5, <2>5, AtLeastIs
<1>8. ASSUME NEW z \in Rational, AtLeast(z, x), AtLeast(z, y)
      PROVE  AtLeast(z, q)
  <2>1. x[1] * z[2] <= z[1] * x[2] /\ y[1] * z[2] <= z[1] * y[2]
    BY <1>5, <1>8, AtLeastIs
  <2>2. /\ z[1] * x[2] \in Int /\ x[1] * z[2] \in Int /\ z[1] * y[2] \in Int
        /\ y[1] * z[2] \in Int /\ z[1] * q[2] \in Int /\ q[1] * z[2] \in Int
    BY <1>4, <1>5 DEF IsRational
  <2>3. (-1) * (z[1] * x[2]) <= (-1) * (x[1] * z[2]) /\ (-1) * (z[1] * y[2]) <= (-1) * (y[1] * z[2])
    BY <2>1, <2>2
  <2>4. (-1) * (z[1] * q[2]) <= (-1) * (q[1] * z[2])
    BY <1>6, <2>3
  <2>5. q[1] * z[2] <= z[1] * q[2]
    BY <2>2, <2>4
  <2> QED
    BY <1>4, <1>5, <2>5, AtLeastIs
<1> QED
  BY <1>4, <1>7, <1>8 DEF q, p, v, w

-----------------------------------------------------------------------------
(* Groups of events. *)

\* A nonempty finite set of events, and the times of events.
Events(G) == IsFiniteSet(G) /\ \A e \in G : e.time \in Nat
TimesOf(G) == {e.time : e \in G}
UpTo(G, t) == {e \in G : e.time <= t}

\* One event of a group is the last.
LEMMA LastEvent ==
    ASSUME NEW G, Events(G), G # {}
    PROVE  \E t \in TimesOf(G) : UpTo(G, t) = G
<1> DEFINE c(t) == Cardinality(UpTo(G, t))
           n == Cardinality(G)
           D == {n - c(t) : t \in TimesOf(G)}
<1>1. n \in Nat /\ \A e \in G : e.time \in Nat
  BY FS_CardinalityType DEF Events
<1>2. ASSUME NEW t
      PROVE  IsFiniteSet(UpTo(G, t)) /\ c(t) \in Nat /\ c(t) <= n
  <2>1. UpTo(G, t) \in SUBSET G
    BY DEF UpTo
  <2>2. IsFiniteSet(UpTo(G, t)) /\ c(t) <= n
    BY <2>1, FS_Subset DEF Events
  <2> QED
    BY <2>2, FS_CardinalityType
<1> HIDE DEF c, n
<1>3. D \in SUBSET Nat /\ D # {}
  <2>1. TimesOf(G) # {}
    BY DEF TimesOf
  <2>2. \A t \in TimesOf(G) : n - c(t) \in Nat
    BY <1>1, <1>2
  <2> QED
    BY <2>1, <2>2
<1>4. Min(D) \in D /\ \A d \in D : Min(D) <= d
  <2> HIDE DEF D
  <2> QED
    BY <1>3, MinOf
<1>5. PICK t \in TimesOf(G) : Min(D) = n - c(t)
  BY <1>4
<1>6. \A u \in TimesOf(G) : c(u) <= c(t)
  <2> SUFFICES ASSUME NEW u \in TimesOf(G) PROVE c(u) <= c(t)
    OBVIOUS
  <2>1. n - c(t) <= n - c(u)
    BY <1>4, <1>5
  <2> QED
    BY <1>1, <1>2, <2>1
<1>7. ASSUME NEW e \in G, ~(e.time <= t)
      PROVE  FALSE
  <2>1. t \in Nat /\ e.time \in Nat /\ t < e.time /\ e.time \in TimesOf(G)
    BY <1>1, <1>7 DEF TimesOf
  <2>2. UpTo(G, t) \in SUBSET UpTo(G, e.time)
    <3>1. \A f \in G : f.time <= t => f.time <= e.time
      BY <1>1, <2>1
    <3> QED
      BY <3>1 DEF UpTo
  <2>3. e \in UpTo(G, e.time) /\ e \notin UpTo(G, t)
    BY <1>7, <2>1 DEF UpTo
  <2>4. /\ Cardinality(UpTo(G, t)) <= Cardinality(UpTo(G, e.time))
        /\ Cardinality(UpTo(G, t)) # Cardinality(UpTo(G, e.time))
    BY <1>2, <2>2, <2>3, FS_Subset
  <2>5. c(e.time) <= c(t) /\ c(t) \in Nat /\ c(e.time) \in Nat
    BY <1>2, <1>6, <2>1
  <2> QED
    BY <2>4, <2>5 DEF c
<1>8. UpTo(G, t) = G
  BY <1>7 DEF UpTo
<1> QED
  BY <1>8

\* The median is between the first and the last event.
LEMMA MedianBetween ==
    ASSUME NEW G, Events(G), G # {}, NEW lo \in Nat, NEW hi \in Int,
           \A e \in G : lo <= e.time /\ e.time <= hi
    PROVE  MedianOf(G) \in Nat /\ lo <= MedianOf(G) /\ MedianOf(G) <= hi
<1> DEFINE n == Cardinality(G)
           T(k) == {t \in {e.time : e \in G} : k <= Cardinality({e \in G : e.time <= t})}
<1>1. n \in Nat /\ n # 0
  BY FS_CardinalityType, FS_EmptySet DEF Events
<1>2. ASSUME NEW k \in 1 .. n
      PROVE  Min(T(k)) \in Nat /\ lo <= Min(T(k)) /\ Min(T(k)) <= hi
  <2>1. PICK t \in TimesOf(G) : UpTo(G, t) = G
    BY LastEvent
  <2>2. t \in T(k)
    <3>1. {e \in G : e.time <= t} = G /\ t \in {e.time : e \in G}
      BY <2>1 DEF TimesOf, UpTo
    <3>2. k <= n
      BY <1>1
    <3>3. k <= Cardinality({e \in G : e.time <= t})
      BY <3>1, <3>2, Zenon
    <3> QED
      BY <3>1, <3>3
  <2>3. T(k) \in SUBSET Nat /\ T(k) \in SUBSET TimesOf(G)
    BY DEF Events, TimesOf
  <2>4. Min(T(k)) \in T(k)
    <3> HIDE DEF T
    <3> QED
      BY <2>2, <2>3, MinOf
  <2>5. Min(T(k)) \in TimesOf(G)
    <3> HIDE DEF T
    <3> QED
      BY <2>3, <2>4
  <2> HIDE DEF T
  <2>6. PICK e \in G : Min(T(k)) = e.time
    BY <2>5 DEF TimesOf
  <2> QED
    BY <2>3, <2>4, <2>6
<1>3. (n + 1) \div 2 \in 1 .. n /\ n \div 2 + 1 \in 1 .. n
  <2> HIDE DEF n
  <2> QED
    BY <1>1
<1> DEFINE a == Min(T((n + 1) \div 2))
           b == Min(T(n \div 2 + 1))
<1>4. MedianOf(G) = (a + b) \div 2
  BY DEF MedianOf
<1>5. a \in Nat /\ b \in Nat /\ lo <= a /\ a <= hi /\ lo <= b /\ b <= hi
  <2> HIDE DEF T, n
  <2> QED
    BY <1>2, <1>3
<1> HIDE DEF a, b
<1> QED
  BY <1>4, <1>5

\* Events that are linked to one event are linked.
LEMMA LinkedTransitive ==
    ASSUME NEW E, Events(E), NEW e \in E, NEW f \in E, NEW g \in E,
           Linked(E, e, f), Linked(E, f, g)
    PROVE  Linked(E, e, g)
<1>1. e.time \in Nat /\ f.time \in Nat /\ g.time \in Nat /\ TimesOf(E) \in SUBSET Nat
  BY DEF Events, TimesOf
<1>2. ASSUME NEW t \in TimesOf(E), e.time <= t, t < g.time
      PROVE  \E u \in TimesOf(E) : t < u /\ u <= t + MergeWindow
  <2>1. CASE t < f.time
    BY <1>2, <2>1 DEF Linked, TimesOf
  <2>2. CASE f.time <= t
    BY <1>2, <2>2 DEF Linked, TimesOf
  <2> QED
    BY <1>1, <2>1, <2>2
<1> QED
  BY <1>2 DEF Linked, TimesOf

\* A time with no event in the merge window after it lies between two groups.
Parted(G, H) ==
    \E t \in Nat : /\ \A g \in G : g.time <= t
                   /\ \A h \in H : t + MergeWindow < h.time

\* Between events that are not linked there is such a time.
LEMMA NotLinkedIsParted ==
    ASSUME NEW E, Events(E), NEW e \in E, NEW f \in E, ~Linked(E, e, f)
    PROVE  Parted(GroupOf(E, e), GroupOf(E, f))
<1>1. PICK t \in TimesOf(E) : /\ e.time <= t /\ t < f.time
                              /\ \A u \in TimesOf(E) : ~(t < u /\ u <= t + MergeWindow)
  BY DEF Linked, TimesOf
<1>2. TimesOf(E) \in SUBSET Nat /\ MergeWindow \in Nat
  BY WindowAssumption DEF Events, TimesOf
<1>3. ASSUME NEW g \in GroupOf(E, e)
      PROVE  g.time <= t
  <2>1. g \in E /\ Linked(E, e, g) /\ g.time \in TimesOf(E)
    BY DEF GroupOf, TimesOf
  <2>2. ~(t < g.time)
    BY <1>1, <2>1 DEF Linked, TimesOf
  <2> QED
    BY <1>2, <2>1, <2>2
<1>4. ASSUME NEW h \in GroupOf(E, f)
      PROVE  t + MergeWindow < h.time
  <2>1. h \in E /\ Linked(E, h, f) /\ h.time \in TimesOf(E)
    BY DEF GroupOf, TimesOf
  <2>2. ~(h.time <= t)
    BY <1>1, <2>1 DEF Linked, TimesOf
  <2>3. ~(h.time <= t + MergeWindow)
    BY <1>1, <1>2, <2>1, <2>2
  <2> QED
    BY <1>2, <2>1, <2>3
<1> QED
  BY <1>2, <1>3, <1>4 DEF Parted

\* Two groups are one or lie apart by more than the merge window.
LEMMA GroupsApart ==
    ASSUME NEW E, Events(E), NEW e \in E, NEW f \in E
    PROVE  \/ GroupOf(E, e) = GroupOf(E, f)
           \/ Parted(GroupOf(E, e), GroupOf(E, f))
           \/ Parted(GroupOf(E, f), GroupOf(E, e))
<1>1. CASE ~Linked(E, e, f) \/ ~Linked(E, f, e)
  BY <1>1, NotLinkedIsParted
<1>2. CASE Linked(E, e, f) /\ Linked(E, f, e)
  <2>1. \A g \in E : Linked(E, e, g) <=> Linked(E, f, g)
    BY <1>2, LinkedTransitive
  <2>2. \A g \in E : Linked(E, g, e) <=> Linked(E, g, f)
    BY <1>2, LinkedTransitive
  <2> QED
    BY <2>1, <2>2 DEF GroupOf
<1> QED
  BY <1>1, <1>2

\* The medians of two groups are apart by more than the merge window as well.
LEMMA MediansApart ==
    ASSUME NEW G, NEW H, Events(G), Events(H), G # {}, H # {}, Parted(G, H)
    PROVE  MedianOf(G) + MergeWindow < MedianOf(H)
<1>1. PICK t \in Nat : /\ \A g \in G : g.time <= t
                       /\ \A h \in H : t + MergeWindow < h.time
  BY DEF Parted
<1>2. MergeWindow \in Nat /\ 0 \in Nat /\ t \in Int /\ t + MergeWindow + 1 \in Nat
  BY WindowAssumption
<1>3. \A g \in G : 0 <= g.time /\ g.time <= t
  BY <1>1 DEF Events
<1>4. MedianOf(G) \in Nat /\ MedianOf(G) <= t
  BY <1>2, <1>3, MedianBetween
<1>5. PICK last \in TimesOf(H) : UpTo(H, last) = H
  BY LastEvent
<1>6. last \in Int /\ \A h \in H : t + MergeWindow + 1 <= h.time /\ h.time <= last
  BY <1>1, <1>2, <1>5 DEF Events, TimesOf, UpTo
<1>7. MedianOf(H) \in Nat /\ t + MergeWindow + 1 <= MedianOf(H)
  BY <1>2, <1>6, MedianBetween
<1> QED
  BY <1>2, <1>4, <1>7

-----------------------------------------------------------------------------
(* Candidates. *)

\* A sequence, of whatever it is a sequence of.
IsSeq(s) == s \in Seq(ToSet(s))

\* A function on 1 .. n is a sequence of length n.
LEMMA SequenceOf ==
    ASSUME NEW n \in Nat, NEW s, DOMAIN s = 1 .. n, s = [k \in 1 .. n |-> s[k]]
    PROVE  IsSeq(s) /\ Len(s) = n
<1>1. s \in [1 .. n -> ToSet(s)]
  BY DEF ToSet
<1>2. s \in Seq(ToSet(s))
  BY <1>1, SeqDef
<1>3. Len(s) \in Nat /\ 1 .. Len(s) = 1 .. n
  BY <1>2, LenProperties
<1>4. Len(s) = n
  BY <1>3
<1> QED
  BY <1>2, <1>4 DEF IsSeq

\* What a sequence has.
LEMMA IsSeqHas ==
    ASSUME NEW s, IsSeq(s)
    PROVE  /\ Len(s) \in Nat /\ DOMAIN s = 1 .. Len(s)
           /\ \A k \in 1 .. Len(s) : s[k] \in ToSet(s)
           /\ s = << >> <=> Len(s) = 0
<1>1. /\ Len(s) \in Nat /\ DOMAIN s = 1 .. Len(s)
      /\ \A k \in 1 .. Len(s) : s[k] \in ToSet(s)
  BY LenProperties, ElementOfSeq DEF IsSeq
<1>2. s = << >> <=> Len(s) = 0
  BY EmptySeq DEF IsSeq
<1> QED
  BY <1>1, <1>2

\* The groups of a finite set of events are finitely many, each with events in it.
LEMMA GroupsOfEvents ==
    ASSUME NEW E, Events(E)
    PROVE  /\ IsFiniteSet({GroupOf(E, e) : e \in E})
           /\ \A G \in {GroupOf(E, e) : e \in E} : Events(G) /\ G # {}
<1> DEFINE Gs == {GroupOf(E, e) : e \in E}
           f == [e \in E |-> GroupOf(E, e)]
<1>1. f \in Surjection(E, Gs)
  BY DEF Surjection
<1>2. IsFiniteSet(Gs)
  <2> HIDE DEF f, Gs
  <2> QED
    BY <1>1, FS_Surjection DEF Events
<1>3. ASSUME NEW e \in E
      PROVE  Events(GroupOf(E, e)) /\ GroupOf(E, e) # {}
  <2>1. GroupOf(E, e) \in SUBSET E
    BY DEF GroupOf
  <2>2. IsFiniteSet(GroupOf(E, e))
    BY <2>1, FS_Subset DEF Events
  <2>3. Linked(E, e, e)
    <3>1. \A t \in TimesOf(E) : ~(e.time <= t /\ t < e.time)
      BY DEF Events, TimesOf
    <3> QED
      BY <3>1 DEF Linked, TimesOf
  <2>4. e \in GroupOf(E, e)
    BY <2>3 DEF GroupOf
  <2> QED
    BY <2>1, <2>2, <2>4 DEF Events
<1> QED
  BY <1>2, <1>3

\* The candidates are in the order of their times and apart by more than the merge
\* window, and their frames are those of their times.
LEMMA CandidatesApart ==
    ASSUME NEW E, Events(E), NEW up
    PROVE  LET c == Candidates(E, up)
           IN  /\ IsSeq(c)
               /\ \A k \in 1 .. Len(c) : c[k].time \in Nat
                                         /\ c[k].frame = RoundedFrame(c[k].time, up)
               /\ \A k, l \in 1 .. Len(c) : k < l => c[k].time + MergeWindow < c[l].time
<1> DEFINE Gs == {GroupOf(E, e) : e \in E}
           promoted == {G \in Gs : ~Less(ScoreOf(G), ScoreThreshold)}
           times == {MedianOf(G) : G \in promoted}
           at(t) == CHOOSE G \in promoted : MedianOf(G) = t
           c == Candidates(E, up)
           n == Cardinality(times)
<1>1. IsFiniteSet(promoted) /\ \A G \in promoted : Events(G) /\ G # {}
  <2>1. promoted \in SUBSET Gs
    OBVIOUS
  <2>2. IsFiniteSet(Gs) /\ \A G \in Gs : Events(G) /\ G # {}
    BY GroupsOfEvents
  <2> HIDE DEF Gs, promoted
  <2> QED
    BY <2>1, <2>2, FS_Subset
<1>2. \A G \in promoted, H \in promoted : G = H \/ Parted(G, H) \/ Parted(H, G)
  BY GroupsApart
<1>3. c = [k \in 1 .. n |->
              Boundary(MedianOf(at(Nth(times, k))), SourcesOf(at(Nth(times, k))),
                       ScoreOf(at(Nth(times, k))), up)]
  BY DEF Candidates
<1> HIDE DEF promoted, c
<1>4. times \in SUBSET Nat /\ IsFiniteSet(times)
  <2>1. ASSUME NEW G \in promoted
        PROVE  MedianOf(G) \in Nat
    <3>1. PICK last \in TimesOf(G) : UpTo(G, last) = G
      BY <1>1, LastEvent
    <3>2. last \in Int /\ 0 \in Nat /\ \A g \in G : 0 <= g.time /\ g.time <= last
      BY <1>1, <3>1 DEF Events, TimesOf, UpTo
    <3> QED
      BY <1>1, <3>2, MedianBetween
  <2>2. [G \in promoted |-> MedianOf(G)] \in Surjection(promoted, times)
    BY DEF Surjection
  <2>3. IsFiniteSet(times)
    <3> HIDE DEF times
    <3> QED
      BY <1>1, <2>2, FS_Surjection
  <2> QED
    BY <2>1, <2>3
<1>5. \A t \in times : at(t) \in promoted /\ MedianOf(at(t)) = t
  OBVIOUS
<1> HIDE DEF at, times
<1>6. /\ n \in Nat
      /\ \A k \in 1 .. n : Nth(times, k) \in times
      /\ \A k, l \in 1 .. n : k < l => Nth(times, k) < Nth(times, l)
  BY <1>4, NthInOrder
<1> HIDE DEF n
<1>7. IsSeq(c) /\ Len(c) = n
  BY <1>3, <1>6, SequenceOf
<1>8. ASSUME NEW k \in 1 .. n
      PROVE  /\ c[k].time = Nth(times, k)
             /\ c[k].frame = RoundedFrame(c[k].time, up)
  BY <1>3, <1>5, <1>6 DEF Boundary
<1>9. ASSUME NEW k \in 1 .. n, NEW l \in 1 .. n, k < l
      PROVE  c[k].time + MergeWindow < c[l].time
  <2> DEFINE t == Nth(times, k)
             u == Nth(times, l)
  <2>1. t \in times /\ u \in times /\ t < u /\ t \in Nat /\ u \in Nat
    BY <1>4, <1>6, <1>9
  <2>2. /\ at(t) \in promoted /\ at(u) \in promoted
        /\ MedianOf(at(t)) = t /\ MedianOf(at(u)) = u
    BY <1>5, <2>1
  <2> HIDE DEF t, u
  <2>3. MergeWindow \in Nat
    BY WindowAssumption
  <2>4. ~(u + MergeWindow < t) /\ t # u
    BY <2>1, <2>3
  <2>5. Parted(at(t), at(u)) \/ Parted(at(u), at(t))
    BY <1>2, <2>2, <2>4
  <2>6. t + MergeWindow < u
    BY <1>1, <2>2, <2>4, <2>5, MediansApart
  <2> QED
    BY <1>8, <2>6 DEF t, u
<1>10. \A k \in 1 .. n : c[k].time \in Nat
  BY <1>4, <1>6, <1>8
<1> QED
  BY <1>7, <1>8, <1>9, <1>10 DEF c

-----------------------------------------------------------------------------
(* Segments that cover the episode. *)

\* A segment, and one that has a length.
IsSegment(seg) ==
    seg = [left |-> seg.left, right |-> seg.right, first |-> seg.first, last |-> seg.last,
           phase |-> seg.phase, vlm |-> seg.vlm, ops |-> seg.ops]
Measured(seg) ==
    /\ IsSegment(seg)
    /\ seg.left.time \in Int /\ seg.right.time \in Int /\ seg.left.time < seg.right.time

\* The segments are in the order of their times.
Ordered(s) ==
    /\ IsSeq(s) /\ \A k \in 1 .. Len(s) : Measured(s[k])
    /\ \A k \in 1 .. Len(s) - 1 : s[k].right.time <= s[k + 1].left.time

\* They follow one another without a gap, from the first frame to the last.
Follows(seg, next) == seg.right.time = next.left.time /\ seg.last + 1 = next.first
Covering(s) ==
    /\ Len(s) > 0
    /\ \A k \in 1 .. Len(s) - 1 : Follows(s[k], s[k + 1])
    /\ s[1].left.time < FrameTicks /\ s[Len(s)].right.time > Duration - FrameTicks

\* A numerator greater by the denominator has a quotient greater by one.
LEMMA QuotientGrows ==
    ASSUME NEW x \in Int, NEW y \in Int, NEW d \in Nat, d > 0, x + d <= y
    PROVE  x \div d \in Int /\ y \div d \in Int /\ x \div d < y \div d
  OBVIOUS

\* Times apart by more than a frame are in different frames, in whichever direction
\* halves are rounded ...
LEMMA FramesApart ==
    ASSUME NEW t \in Nat, NEW u \in Nat, NEW up, t + FrameTicks < u
    PROVE  /\ RoundedFrame(t, up) \in Int /\ RoundedFrame(u, up) \in Int
           /\ RoundedFrame(t, up) < RoundedFrame(u, up)
<1> DEFINE x == 2 * t + FrameTicks - (IF t \in up THEN 0 ELSE 1)
           y == 2 * u + FrameTicks - (IF u \in up THEN 0 ELSE 1)
<1>1. FrameTicks \in Nat /\ FrameTicks > 0
  BY TicksAssumption
<1>2. x \in Int /\ y \in Int /\ 2 * FrameTicks \in Nat /\ 2 * FrameTicks > 0
      /\ x + 2 * FrameTicks <= y
  BY <1>1
<1>3. RoundedFrame(t, up) = x \div (2 * FrameTicks) /\ RoundedFrame(u, up) = y \div (2 * FrameTicks)
  BY DEF RoundedFrame
<1> HIDE DEF x, y
<1> QED
  BY <1>2, <1>3, QuotientGrows

\* ... and what is a frame after the start is not in the first one.
LEMMA FrameOfStart ==
    ASSUME NEW u \in Nat, NEW up, FrameTicks <= u
    PROVE  /\ RoundedFrame(0, up) \in Int /\ RoundedFrame(u, up) \in Int
           /\ RoundedFrame(0, up) < RoundedFrame(u, up)
<1> DEFINE F == FrameTicks
           x == 2 * 0 + F - (IF 0 \in up THEN 0 ELSE 1)
           y == 2 * u + F - (IF u \in up THEN 0 ELSE 1)
<1>1. F \in Nat /\ F > 0
  BY TicksAssumption
<1>2. x \in Int /\ y \in Int /\ 0 <= x /\ x < 2 * F /\ 2 * F <= y
  BY <1>1
<1>3. RoundedFrame(0, up) = x \div (2 * F) /\ RoundedFrame(u, up) = y \div (2 * F)
  BY DEF RoundedFrame
<1> HIDE DEF x, y, F
<1>4. x \div (2 * F) = 0
  BY <1>1, <1>2
<1>5. 0 + 2 * F <= y /\ 0 \div (2 * F) = 0
  BY <1>1, <1>2
<1>6. 2 * F \in Nat /\ 2 * F > 0
  BY <1>1
<1>7. 0 \div (2 * F) < y \div (2 * F) /\ y \div (2 * F) \in Int
  BY <1>2, <1>5, <1>6, QuotientGrows
<1> QED
  BY <1>3, <1>4, <1>5, <1>7

\* What is kept of a sequence.
LEMMA KeepIs ==
    ASSUME NEW s, NEW n \in Nat, NEW kept \in SUBSET (1 .. n)
    PROVE  LET r == Keep(s, kept)
           IN  /\ IsSeq(r) /\ Len(r) = Cardinality(kept)
               /\ \A k \in 1 .. Len(r) : Nth(kept, k) \in kept /\ r[k] = s[Nth(kept, k)]
               /\ \A k, l \in 1 .. Len(r) : k < l => Nth(kept, k) < Nth(kept, l)
<1>1. kept \in SUBSET Nat /\ IsFiniteSet(kept)
  <2>1. IsFiniteSet(1 .. n)
    BY FS_Interval
  <2>2. IsFiniteSet(kept)
    BY <2>1, FS_Subset
  <2> QED
    BY <2>2
<1>2. /\ Cardinality(kept) \in Nat
      /\ \A k \in 1 .. Cardinality(kept) : Nth(kept, k) \in kept
      /\ \A k, l \in 1 .. Cardinality(kept) : k < l => Nth(kept, k) < Nth(kept, l)
  BY <1>1, NthInOrder
<1> DEFINE r == Keep(s, kept)
<1>3. r = [k \in 1 .. Cardinality(kept) |-> s[Nth(kept, k)]]
  BY DEF Keep
<1> HIDE DEF r
<1>4. IsSeq(r) /\ Len(r) = Cardinality(kept)
  BY <1>2, <1>3, SequenceOf
<1> QED
  BY <1>2, <1>3, <1>4 DEF r

\* The edges are the candidates between start and end of the episode.
LEMMA EdgesAre ==
    ASSUME NEW E, Events(E), NEW up
    PROVE  LET c == Candidates(E, up)
               e == Edges(E, up)
           IN  /\ Len(c) \in Nat /\ Len(e) = Len(c) + 2
               /\ e[1].time = 0 /\ e[1].frame = RoundedFrame(0, up)
               /\ \A k \in 2 .. Len(c) + 1 : e[k] = c[k - 1]
               /\ e[Len(c) + 2].time = Duration
<1> DEFINE c == Candidates(E, up)
           first == Boundary(0, {"episode_start"}, One, up)
           last == Boundary(Duration, {"episode_end"}, One, up)
           S == ToSet(c) \cup {first, last}
           n == Len(c)
<1>1. IsSeq(c) /\ n \in Nat
  BY CandidatesApart, IsSeqHas
<1>2. first.time = 0 /\ first.frame = RoundedFrame(0, up) /\ last.time = Duration
  BY DEF Boundary
<1>3. Edges(E, up) = <<first>> \o c \o <<last>>
  BY DEF Edges
<1>4. c \in Seq(ToSet(c)) /\ ToSet(c) \subseteq S /\ first \in S /\ last \in S
  BY <1>1 DEF IsSeq
<1> HIDE DEF c, first, last, S
<1>5. c \in Seq(S) /\ <<first>> \in Seq(S) /\ <<last>> \in Seq(S)
      /\ Len(<<first>>) = 1 /\ Len(<<last>>) = 1
      /\ <<first>>[1] = first /\ <<last>>[1] = last
  BY <1>4, SeqMonotonic
<1> DEFINE d == <<first>> \o c
           e == d \o <<last>>
<1>6. /\ d \in Seq(S) /\ Len(d) = 1 + n
      /\ \A i \in 1 .. 1 + n : d[i] = IF i <= 1 THEN <<first>>[i] ELSE c[i - 1]
  BY <1>5, ConcatProperties
<1> HIDE DEF d
<1>7. /\ Len(e) = 1 + n + 1
      /\ \A i \in 1 .. 1 + n + 1 : e[i] = IF i <= 1 + n THEN d[i] ELSE <<last>>[i - (1 + n)]
  BY <1>5, <1>6, ConcatProperties
<1> HIDE DEF e
<1>8. Len(e) = n + 2 /\ e[1] = first /\ e[n + 2] = last
  <2>1. 1 \in 1 .. 1 + n /\ n + 2 \in 1 .. 1 + n + 1 /\ ~(n + 2 <= 1 + n) /\ n + 2 - (1 + n) = 1
    BY <1>1
  <2>2. e[1] = d[1] /\ d[1] = <<first>>[1]
    <3>1. 1 \in 1 .. 1 + n /\ 1 \in 1 .. 1 + n + 1 /\ 1 <= 1 + n
      BY <1>1
    <3>2. e[1] = d[1]
      BY <1>7, <3>1
    <3>3. d[1] = <<first>>[1]
      BY <1>6, <3>1
    <3> QED
      BY <3>2, <3>3
  <2>3. e[n + 2] = <<last>>[1]
    BY <1>7, <2>1
  <2> QED
    BY <1>1, <1>5, <1>7, <2>2, <2>3
<1>9. \A k \in 2 .. n + 1 : e[k] = c[k - 1]
  BY <1>1, <1>6, <1>7
<1>10. Edges(E, up) = e
  BY <1>3 DEF d, e
<1> QED
  BY <1>1, <1>2, <1>8, <1>9, <1>10 DEF c

\* The times of the edges but the last are in their order.
LEMMA EdgesInOrder ==
    ASSUME NEW E, Events(E), NEW up
    PROVE  LET e == Edges(E, up)
               n == Len(e) - 2
           IN  /\ n \in Nat
               /\ \A k \in 1 .. n + 1 : e[k].time \in Nat /\ e[k].frame = RoundedFrame(e[k].time, up)
               /\ \A k \in 2 .. n + 1, l \in 2 .. n + 1 :
                      k < l => e[k].time + MergeWindow < e[l].time
               /\ e[1].time = 0 /\ e[n + 2].time = Duration
<1> DEFINE c == Candidates(E, up)
           e == Edges(E, up)
           n == Len(e) - 2
<1>1. /\ Len(c) \in Nat /\ Len(e) = Len(c) + 2
      /\ e[1].time = 0 /\ e[1].frame = RoundedFrame(0, up)
      /\ \A k \in 2 .. Len(c) + 1 : e[k] = c[k - 1]
      /\ e[Len(c) + 2].time = Duration
  BY EdgesAre
<1>2. /\ \A k \in 1 .. Len(c) : c[k].time \in Nat /\ c[k].frame = RoundedFrame(c[k].time, up)
      /\ \A k, l \in 1 .. Len(c) : k < l => c[k].time + MergeWindow < c[l].time
  BY CandidatesApart
<1> HIDE DEF c, e
<1>3. n = Len(c)
  BY <1>1
<1>4. ASSUME NEW k \in 2 .. n + 1
      PROVE  /\ e[k].time \in Nat /\ e[k].frame = RoundedFrame(e[k].time, up)
  <2>1. k - 1 \in 1 .. Len(c)
    BY <1>1, <1>3
  <2> QED
    BY <1>1, <1>2, <1>3, <2>1
<1>5. ASSUME NEW k \in 2 .. n + 1, NEW l \in 2 .. n + 1, k < l
      PROVE  e[k].time + MergeWindow < e[l].time
  <2>1. k - 1 \in 1 .. Len(c) /\ l - 1 \in 1 .. Len(c) /\ k - 1 < l - 1
    BY <1>1, <1>3, <1>5
  <2> QED
    BY <1>1, <1>2, <1>3, <2>1
<1>6. \A k \in 1 .. n + 1 : k = 1 \/ k \in 2 .. n + 1
  BY <1>1, <1>3
<1> QED
  BY <1>1, <1>3, <1>4, <1>5, <1>6 DEF e

\* What the episode is cut into, and which pieces are long enough.
PiecesOf(e) == [i \in 1 .. Len(e) - 1 |-> NewSegment(e[i], e[i + 1])]
LongOf(e) == {i \in DOMAIN PiecesOf(e) : Length(PiecesOf(e)[i]) >= FrameTicks}

\* A piece that is long enough is a segment, and unlabelled.
LEMMA PieceIsMeasured ==
    ASSUME NEW e, NEW i \in LongOf(e), e[i].time \in Int, e[i + 1].time \in Int
    PROVE  LET seg == NewSegment(e[i], e[i + 1])
           IN  /\ Measured(seg) /\ seg.phase = "unlabeled" /\ seg.vlm = NoConfidence
               /\ seg.left = e[i] /\ seg.right = e[i + 1] /\ seg.first = e[i].frame
               /\ seg.last = Larger(e[i + 1].frame - 1, e[i].frame)
               /\ e[i].time + FrameTicks <= e[i + 1].time
<1> DEFINE seg == NewSegment(e[i], e[i + 1])
<1>1. /\ IsSegment(seg) /\ seg.phase = "unlabeled" /\ seg.vlm = NoConfidence
      /\ seg.left = e[i] /\ seg.right = e[i + 1] /\ seg.first = e[i].frame
      /\ seg.last = Larger(e[i + 1].frame - 1, e[i].frame)
  BY DEF NewSegment, IsSegment
<1>2. Length(seg) >= FrameTicks
  BY DEF LongOf, PiecesOf
<1>3. FrameTicks \in Nat /\ FrameTicks > 0
  BY TicksAssumption
<1> HIDE DEF seg
<1>4. e[i].time + FrameTicks <= e[i + 1].time
  BY <1>1, <1>2, <1>3 DEF Length
<1>5. Measured(seg)
  BY <1>1, <1>3, <1>4 DEF Measured
<1> QED
  BY <1>1, <1>4, <1>5 DEF seg

\* Bracketing gives unlabelled segments in their order, each a piece.
LEMMA BracketIs ==
    ASSUME NEW E, Events(E), NEW up
    PROVE  LET e == Edges(E, up)
               s == Bracket(e)
           IN  /\ Ordered(s) /\ Len(s) = Cardinality(LongOf(e))
               /\ \A k \in 1 .. Len(s) :
                     LET i == Nth(LongOf(e), k)
                     IN  /\ i \in LongOf(e) /\ i \in 1 .. Len(e) - 1
                         /\ s[k] = NewSegment(e[i], e[i + 1])
                         /\ s[k].phase = "unlabeled" /\ s[k].vlm = NoConfidence
<1> DEFINE e == Edges(E, up)
           n == Len(e) - 2
           s == Bracket(e)
           kept == LongOf(e)
           at(k) == Nth(kept, k)
<1>1. /\ n \in Nat /\ Len(e) - 1 = n + 1
      /\ \A k \in 1 .. n + 1 : e[k].time \in Nat
      /\ \A k \in 2 .. n + 1, l \in 2 .. n + 1 :
             k < l => e[k].time + MergeWindow < e[l].time
      /\ e[1].time = 0 /\ e[n + 2].time = Duration
  <2>1. Len(Candidates(E, up)) \in Nat /\ Len(e) = Len(Candidates(E, up)) + 2
    BY EdgesAre
  <2>2. Len(e) - 1 = n + 1
    BY <2>1
  <2> QED
    BY <2>2, EdgesInOrder
<1>2. s = Keep(PiecesOf(e), kept) /\ kept \in SUBSET (1 .. n + 1)
      /\ \A i \in 1 .. n + 1 : PiecesOf(e)[i] = NewSegment(e[i], e[i + 1])
  BY <1>1 DEF Bracket, LongOf, PiecesOf
<1> HIDE DEF e, n, s, kept
<1>3. /\ IsSeq(s) /\ Len(s) = Cardinality(kept)
      /\ \A k \in 1 .. Len(s) : at(k) \in kept /\ s[k] = PiecesOf(e)[at(k)]
      /\ \A k, l \in 1 .. Len(s) : k < l => at(k) < at(l)
  <2>1. n + 1 \in Nat
    BY <1>1
  <2> DEFINE r == Keep(PiecesOf(e), kept)
  <2>2. /\ IsSeq(r) /\ Len(r) = Cardinality(kept)
        /\ \A k \in 1 .. Len(r) : Nth(kept, k) \in kept
                                 /\ r[k] = PiecesOf(e)[Nth(kept, k)]
        /\ \A k, l \in 1 .. Len(r) : k < l => Nth(kept, k) < Nth(kept, l)
    BY <1>2, <2>1, KeepIs
  <2> HIDE DEF r
  <2>3. s = r
    BY <1>2 DEF r
  <2> QED
    BY <2>2, <2>3
<1> HIDE DEF at
<1>4. \A k \in 1 .. n + 2 : e[k].time \in Int
  BY <1>1, TicksAssumption
<1>5. ASSUME NEW k \in 1 .. Len(s)
      PROVE  /\ at(k) \in 1 .. n + 1
             /\ s[k] = NewSegment(e[at(k)], e[at(k) + 1])
             /\ Measured(s[k]) /\ s[k].phase = "unlabeled" /\ s[k].vlm = NoConfidence
             /\ s[k].left = e[at(k)] /\ s[k].right = e[at(k) + 1]
  <2>1. at(k) \in kept /\ at(k) \in 1 .. n + 1 /\ at(k) \in 1 .. n + 2 /\ at(k) + 1 \in 1 .. n + 2
    <3>1. at(k) \in kept /\ at(k) \in 1 .. n + 1
      BY <1>2, <1>3
    <3> QED
      BY <1>1, <3>1
  <2>2. s[k] = NewSegment(e[at(k)], e[at(k) + 1])
    BY <1>2, <1>3, <2>1
  <2> QED
    BY <1>4, <2>1, <2>2, PieceIsMeasured DEF kept
<1>6. ASSUME NEW k \in 1 .. Len(s) - 1
      PROVE  s[k].right.time <= s[k + 1].left.time
  <2>1. Len(s) \in Nat
    BY <1>3, IsSeqHas
  <2>2. k \in 1 .. Len(s) /\ k + 1 \in 1 .. Len(s) /\ k < k + 1
    BY <2>1
  <2> DEFINE i == at(k)
             j == at(k + 1)
  <2>3. i \in 1 .. n + 1 /\ j \in 1 .. n + 1 /\ i < j
    BY <1>3, <1>5, <2>2
  <2> HIDE DEF i, j
  <2>4. i + 1 \in 2 .. n + 1 /\ j \in 2 .. n + 1 /\ MergeWindow \in Nat
    BY <1>1, <2>3, WindowAssumption
  <2>5. e[i + 1].time \in Nat /\ e[j].time \in Nat
        /\ (i + 1 < j => e[i + 1].time + MergeWindow < e[j].time)
    BY <1>1, <2>3, <2>4
  <2>6. e[i + 1].time <= e[j].time
    <3>1. CASE i + 1 = j
      BY <2>5, <3>1
    <3>2. CASE i + 1 < j
      BY <2>4, <2>5, <3>2
    <3> QED
      BY <2>3, <2>4, <3>1, <3>2
  <2> QED
    BY <1>5, <2>2, <2>6 DEF i, j
<1>7. Ordered(s)
  BY <1>3, <1>5, <1>6 DEF Ordered
<1> QED
  BY <1>1, <1>3, <1>5, <1>7 DEF e, n, s, kept, at

\* Candidates are farther apart than a frame if the merge window is as long as one:
\* only the first and the last piece can be dropped, and then they are short.
LEMMA BracketCovers ==
    ASSUME MergeWindow >= FrameTicks, NEW E, Events(E), NEW up
    PROVE  Covering(Bracket(Edges(E, up)))
<1> DEFINE e == Edges(E, up)
           n == Len(e) - 2
           s == Bracket(e)
           kept == LongOf(e)
           a == IF FrameTicks <= e[2].time THEN 1 ELSE 2
           b == IF FrameTicks <= Duration - e[n + 1].time THEN n + 1 ELSE n
<1>1. /\ n \in Nat /\ Len(e) - 1 = n + 1
      /\ \A k \in 1 .. n + 1 : e[k].time \in Nat /\ e[k].frame = RoundedFrame(e[k].time, up)
      /\ \A k \in 2 .. n + 1, l \in 2 .. n + 1 :
             k < l => e[k].time + MergeWindow < e[l].time
      /\ e[1].time = 0 /\ e[n + 2].time = Duration
  BY EdgesInOrder
<1>2. /\ FrameTicks \in Nat /\ FrameTicks > 0 /\ Duration \in Nat /\ Duration >= 2 * FrameTicks
      /\ MergeWindow \in Nat
  BY TicksAssumption, WindowAssumption
<1>3. /\ Len(s) = Cardinality(kept)
      /\ \A k \in 1 .. Len(s) :
            LET i == Nth(kept, k)
            IN  i \in kept /\ i \in 1 .. n + 1 /\ s[k] = NewSegment(e[i], e[i + 1])
  <2>1. /\ Len(s) = Cardinality(kept)
        /\ \A k \in 1 .. Len(s) :
              /\ Nth(kept, k) \in kept /\ Nth(kept, k) \in 1 .. Len(e) - 1
              /\ s[k] = NewSegment(e[Nth(kept, k)], e[Nth(kept, k) + 1])
    BY BracketIs
  <2> HIDE DEF e, n, s, kept
  <2> QED
    BY <1>1, <2>1
<1>4. \A i \in 1 .. n + 1 : i \in kept <=> e[i].time + FrameTicks <= e[i + 1].time
  <2> SUFFICES ASSUME NEW i \in 1 .. n + 1
               PROVE  i \in kept <=> e[i].time + FrameTicks <= e[i + 1].time
    OBVIOUS
  <2>1. e[i].time \in Nat /\ e[i + 1].time \in Nat
    <3> HIDE DEF n
    <3>1. i + 1 \in 1 .. n + 1 \/ i + 1 = n + 2
      BY <1>1
    <3> QED
      BY <1>1, <1>2, <3>1
  <2>2. i \in kept <=> e[i + 1].time - e[i].time >= FrameTicks
    BY <1>1 DEF LongOf, PiecesOf, Length, NewSegment
  <2> HIDE DEF kept, e
  <2> QED
    BY <1>2, <2>1, <2>2
<1>5. kept \in SUBSET (1 .. n + 1)
  BY <1>1 DEF LongOf, PiecesOf
<1> HIDE DEF e, n, s, kept
\* A frame and a candidate after it.
<1>6. ASSUME NEW i \in 2 .. n
      PROVE  i \in kept
  <2>1. i \in 2 .. n + 1 /\ i + 1 \in 2 .. n + 1 /\ i < i + 1 /\ i \in 1 .. n + 1
        /\ i + 1 \in 1 .. n + 1
    BY <1>1
  <2>2. /\ e[i].time + MergeWindow < e[i + 1].time
        /\ e[i].time \in Nat /\ e[i + 1].time \in Nat
    BY <1>1, <2>1
  <2> QED
    BY <1>2, <1>4, <2>1, <2>2
<1>7. a \in 1 .. b /\ b \in Nat /\ a \in {1, 2} /\ b \in {n, n + 1} /\ kept = a .. b
  <2>1. 1 \in kept <=> FrameTicks <= e[2].time
    <3>1. 1 \in 1 .. n + 1 /\ 1 + 1 = 2
      BY <1>1
    <3>2. 1 \in kept <=> e[1].time + FrameTicks <= e[2].time
      BY <1>4, <3>1
    <3> QED
      BY <1>1, <1>2, <3>2
  <2>2. n + 1 \in kept <=> FrameTicks <= Duration - e[n + 1].time
    <3>1. n + 1 \in 1 .. n + 1 /\ e[n + 1].time \in Nat /\ n + 1 + 1 = n + 2
      BY <1>1
    <3>2. n + 1 \in kept <=> e[n + 1].time + FrameTicks <= Duration
      BY <1>1, <1>4, <3>1
    <3> QED
      BY <1>2, <3>1, <3>2
  <2>3. CASE n = 0
    <3>1. e[2].time = Duration /\ e[n + 1].time = 0
      BY <1>1, <2>3
    <3>2. a = 1 /\ b = 1 /\ 1 \in kept
      BY <1>2, <2>1, <2>3, <3>1
    <3> HIDE DEF a, b
    <3>3. kept = 1 .. 1
      <4>1. 1 .. n + 1 = {1} /\ 1 .. 1 = {1}
        BY <2>3
      <4> QED
        BY <1>5, <3>2, <4>1
    <3> QED
      BY <2>3, <3>2, <3>3
  <2>4. CASE n # 0
    <3>1. a \in {1, 2} /\ b \in {n, n + 1} /\ (a = 1 <=> 1 \in kept) /\ (b = n + 1 <=> n + 1 \in kept)
      BY <1>1, <2>1, <2>2
    <3>2. a <= b
      <4>1. CASE n = 1
        <5>1. e[2].time \in Nat /\ e[n + 1].time = e[2].time
          BY <1>1, <4>1
        <5>2. FrameTicks <= e[2].time \/ FrameTicks <= Duration - e[n + 1].time
          BY <1>2, <5>1
        <5> QED
          BY <4>1, <5>2
      <4>2. CASE n # 1
        <5> HIDE DEF a, b
        <5> QED
          BY <1>1, <2>4, <3>1, <4>2
      <4> QED
        BY <4>1, <4>2
    <3> HIDE DEF a, b
    <3>3. ASSUME NEW i \in 1 .. n + 1
          PROVE  i \in kept <=> i \in a .. b
      <4>1. CASE i = 1
        BY <1>1, <2>4, <3>1, <4>1
      <4>2. CASE i = n + 1
        BY <1>1, <2>4, <3>1, <4>2
      <4>3. CASE i # 1 /\ i # n + 1
        BY <1>1, <1>6, <3>1, <4>3
      <4> QED
        BY <4>1, <4>2, <4>3
    <3>4. a .. b \in SUBSET (1 .. n + 1)
      BY <1>1, <3>1
    <3>5. kept = a .. b
      BY <1>5, <3>3, <3>4
    <3> QED
      BY <1>1, <2>4, <3>1, <3>2, <3>5
  <2> QED
    BY <2>3, <2>4
<1>8. a = 2 => 2 \in 1 .. n + 1 /\ e[2].time < FrameTicks
  <2>1. a = 2 => ~(FrameTicks <= e[2].time)
    OBVIOUS
  <2>2. a = 2 => 2 \in 1 .. n + 1
    BY <1>1, <1>7
  <2> QED
    BY <1>1, <1>2, <2>1, <2>2
<1>9. b = n => e[n + 1].time > Duration - FrameTicks
  <2>1. b = n => ~(FrameTicks <= Duration - e[n + 1].time)
    BY <1>1
  <2>2. e[n + 1].time \in Nat
    BY <1>1
  <2> QED
    BY <1>2, <2>1, <2>2
<1> HIDE DEF a, b
<1>10. Len(s) = b - a + 1
  <2>1. a \in Int /\ b \in Int /\ (IF a > b THEN 0 ELSE b - a + 1) = b - a + 1
    BY <1>7
  <2> QED
    BY <1>3, <1>7, <2>1, FS_Interval, Zenon
<1>11. ASSUME NEW k \in 1 .. Len(s)
       PROVE  LET i == a + k - 1
              IN  /\ i \in kept /\ i \in 1 .. n + 1
                  /\ s[k].left = e[i] /\ s[k].right = e[i + 1] /\ s[k].first = e[i].frame
                  /\ s[k].last = Larger(e[i + 1].frame - 1, e[i].frame)
  <2>1. a \in Int /\ b \in Int /\ k \in 1 .. b - a + 1
    BY <1>7, <1>10
  <2>2. Nth(kept, k) = a + k - 1
    BY <1>7, <2>1, NthOfInterval
  <2> DEFINE i == a + k - 1
  <2>3. i \in kept /\ i \in 1 .. n + 1 /\ s[k] = NewSegment(e[i], e[i + 1])
    BY <1>3, <2>2
  <2> HIDE DEF i
  <2>4. LET seg == NewSegment(e[i], e[i + 1])
        IN  /\ seg.left = e[i] /\ seg.right = e[i + 1] /\ seg.first = e[i].frame
            /\ seg.last = Larger(e[i + 1].frame - 1, e[i].frame)
    BY DEF NewSegment
  <2> QED
    BY <2>3, <2>4 DEF i
\* The frames of two neighbouring edges differ, but at the end.
<1>12. ASSUME NEW i \in kept, i <= n
       PROVE  e[i].frame \in Int /\ e[i + 1].frame \in Int /\ e[i].frame < e[i + 1].frame
  <2>1. i \in 1 .. n + 1 /\ i + 1 \in 1 .. n + 1 /\ i + 1 \in 2 .. n + 1
    BY <1>1, <1>5, <1>12
  <2>2. /\ e[i].time \in Nat /\ e[i + 1].time \in Nat
        /\ e[i].frame = RoundedFrame(e[i].time, up)
        /\ e[i + 1].frame = RoundedFrame(e[i + 1].time, up)
    BY <1>1, <2>1
  <2>3. CASE i = 1
    <3>1. e[i].time = 0 /\ FrameTicks <= e[i + 1].time
      BY <1>1, <1>2, <1>4, <2>1, <2>2, <2>3
    <3> QED
      BY <2>2, <3>1, FrameOfStart
  <2>4. CASE i # 1
    <3>1. i \in 2 .. n + 1 /\ i < i + 1
      BY <2>1, <2>4
    <3>2. e[i].time + MergeWindow < e[i + 1].time
      BY <1>1, <2>1, <3>1
    <3>3. e[i].time + FrameTicks < e[i + 1].time
      BY <1>2, <2>2, <3>2
    <3> QED
      BY <2>2, <3>3, FramesApart
  <2> QED
    BY <2>3, <2>4
<1>13. ASSUME NEW k \in 1 .. Len(s) - 1
       PROVE  Follows(s[k], s[k + 1])
  <2> DEFINE i == a + k - 1
  <2>1. k \in 1 .. Len(s) /\ k + 1 \in 1 .. Len(s) /\ a + (k + 1) - 1 = i + 1 /\ i <= n /\ i \in Int
    <3>1. a \in Int /\ b \in Int /\ n \in Nat /\ b <= n + 1 /\ Len(s) = b - a + 1
      BY <1>1, <1>7, <1>10
    <3> HIDE DEF n, s
    <3> QED
      BY <3>1
  <2>2. /\ i \in kept /\ s[k].right = e[i + 1]
        /\ s[k].last = Larger(e[i + 1].frame - 1, e[i].frame)
    BY <1>11, <2>1
  <2>3. s[k + 1].left = e[i + 1] /\ s[k + 1].first = e[i + 1].frame
    BY <1>11, <2>1
  <2> HIDE DEF i
  <2>4. e[i].frame \in Int /\ e[i + 1].frame \in Int /\ e[i].frame < e[i + 1].frame
    BY <1>12, <2>1, <2>2
  <2>5. Larger(e[i + 1].frame - 1, e[i].frame) + 1 = e[i + 1].frame
    BY <2>4 DEF Larger
  <2> QED
    BY <2>2, <2>3, <2>5 DEF Follows
<1>14. Len(s) > 0 /\ 1 \in 1 .. Len(s) /\ Len(s) \in 1 .. Len(s)
  BY <1>7, <1>10
<1>15. s[1].left.time < FrameTicks
  <2>1. s[1].left = e[a + 1 - 1] /\ a + 1 - 1 = a
    BY <1>7, <1>11, <1>14
  <2> QED
    BY <1>1, <1>2, <1>7, <1>8, <2>1
<1>16. s[Len(s)].right.time > Duration - FrameTicks
  <2>1. a + Len(s) - 1 = b
    BY <1>7, <1>10
  <2>2. s[Len(s)].right = e[b + 1]
    BY <1>11, <1>14, <2>1
  <2>3. CASE b = n
    BY <1>9, <2>2, <2>3
  <2>4. CASE b = n + 1
    <3>1. e[b + 1].time = Duration
      BY <1>1, <2>4
    <3> QED
      BY <1>2, <2>2, <3>1
  <2> QED
    BY <1>7, <2>3, <2>4
<1> QED
  BY <1>13, <1>14, <1>15, <1>16 DEF Covering, s, e

-----------------------------------------------------------------------------
(* What the labeler and the smoother do to the segments. *)

\* The segments of t are those of s with other labels.
SameCuts(s, t) ==
    /\ IsSeq(t) /\ Len(t) = Len(s)
    /\ \A k \in 1 .. Len(s) :
          /\ IsSegment(t[k]) /\ t[k].left = s[k].left /\ t[k].right = s[k].right
          /\ t[k].first = s[k].first /\ t[k].last = s[k].last

\* Then what is said of the times of s holds of t.
LEMMA SameCutsKeep ==
    ASSUME NEW s, NEW t, Ordered(s), SameCuts(s, t)
    PROVE  /\ Ordered(t) /\ (Covering(s) => Covering(t))
           /\ \A k \in 1 .. Len(s) : Length(t[k]) = Length(s[k])
<1>1. Len(s) \in Nat /\ Len(t) = Len(s)
  BY IsSeqHas DEF Ordered, SameCuts
<1>2. ASSUME NEW k \in 1 .. Len(t)
      PROVE  Measured(t[k]) /\ Length(t[k]) = Length(s[k])
  BY <1>1 DEF Ordered, SameCuts, Measured, Length
<1>3. ASSUME NEW k \in 1 .. Len(t) - 1
      PROVE  /\ t[k].right.time <= t[k + 1].left.time
             /\ Follows(s[k], s[k + 1]) => Follows(t[k], t[k + 1])
  <2>1. k \in 1 .. Len(s) /\ k + 1 \in 1 .. Len(s) /\ k \in 1 .. Len(s) - 1
    BY <1>1
  <2>2. s[k].right.time <= s[k + 1].left.time
    BY <2>1 DEF Ordered
  <2>3. /\ t[k].right = s[k].right /\ t[k].last = s[k].last
        /\ t[k + 1].left = s[k + 1].left /\ t[k + 1].first = s[k + 1].first
    BY <2>1 DEF SameCuts
  <2> QED
    BY <2>2, <2>3 DEF Follows
<1>4. Ordered(t)
  BY <1>2, <1>3 DEF Ordered, SameCuts
<1>5. ASSUME Covering(s)
      PROVE  Covering(t)
  <2>1. Len(s) > 0 /\ 1 \in 1 .. Len(s) /\ Len(s) \in 1 .. Len(s)
    BY <1>1, <1>5 DEF Covering
  <2>2. t[1].left = s[1].left /\ t[Len(t)].right = s[Len(s)].right
    BY <1>1, <2>1 DEF SameCuts
  <2>3. \A k \in 1 .. Len(t) - 1 : Follows(t[k], t[k + 1])
    BY <1>1, <1>3, <1>5 DEF Covering
  <2> QED
    BY <1>1, <1>5, <2>1, <2>2, <2>3 DEF Covering
<1> QED
  BY <1>1, <1>2, <1>4, <1>5

\* A segment with another label.
LEMMA RespondIs ==
    ASSUME NEW seg, IsSegment(seg), NEW phase, NEW confidence
    PROVE  LET r == Respond(seg, phase, confidence)
           IN  /\ IsSegment(r) /\ r.phase = phase /\ r.vlm = confidence
               /\ r.left = seg.left /\ r.right = seg.right
               /\ r.first = seg.first /\ r.last = seg.last
<1> DEFINE r == [left |-> seg.left, right |-> seg.right, first |-> seg.first,
                 last |-> seg.last, phase |-> phase, vlm |-> confidence, ops |-> seg.ops]
<1>1. Respond(seg, phase, confidence) = r
  <2>1. Respond(seg, phase, confidence) = [seg EXCEPT !.phase = phase, !.vlm = confidence]
    BY DEF Respond
  <2> DEFINE a == seg.left
             b == seg.right
             c == seg.first
             d == seg.last
             o == seg.ops
             p == seg.phase
             v == seg.vlm
  <2>2. seg = [left |-> a, right |-> b, first |-> c, last |-> d,
               phase |-> p, vlm |-> v, ops |-> o]
    BY DEF IsSegment
  <2>3. r = [left |-> a, right |-> b, first |-> c, last |-> d,
             phase |-> phase, vlm |-> confidence, ops |-> o]
    OBVIOUS
  <2> HIDE DEF a, b, c, d, o, p, v, r
  <2> QED
    BY <2>1, <2>2, <2>3
<1>2. /\ r.left = seg.left /\ r.right = seg.right /\ r.first = seg.first
      /\ r.last = seg.last /\ r.phase = phase /\ r.vlm = confidence /\ r.ops = seg.ops
  OBVIOUS
<1>3. IsSegment(r)
  BY <1>2 DEF IsSegment
<1> QED
  BY <1>1, <1>2, <1>3

\* One answer of the model labels one segment.
LEMMA AnswerIs ==
    ASSUME NEW s, Ordered(s), NEW i \in 1 .. Len(s), NEW phase, NEW confidence
    PROVE  LET t == [s EXCEPT ![i] = Respond(@, phase, confidence)]
           IN  /\ SameCuts(s, t) /\ t[i].phase = phase /\ t[i].vlm = confidence
               /\ \A k \in 1 .. Len(s) : k # i => t[k] = s[k]
<1> DEFINE r == Respond(s[i], phase, confidence)
           t == [s EXCEPT ![i] = r]
<1>1. Len(s) \in Nat /\ DOMAIN s = 1 .. Len(s) /\ \A k \in 1 .. Len(s) : IsSegment(s[k])
  BY IsSeqHas DEF Ordered, Measured
<1>2. /\ IsSegment(r) /\ r.phase = phase /\ r.vlm = confidence
      /\ r.left = s[i].left /\ r.right = s[i].right
      /\ r.first = s[i].first /\ r.last = s[i].last
  BY <1>1, RespondIs
<1> HIDE DEF r
<1>3. /\ DOMAIN t = 1 .. Len(s) /\ t = [k \in 1 .. Len(s) |-> t[k]]
      /\ t[i] = r /\ \A k \in 1 .. Len(s) : k # i => t[k] = s[k]
  BY <1>1
<1> HIDE DEF t
<1>4. IsSeq(t) /\ Len(t) = Len(s)
  BY <1>1, <1>3, SequenceOf
<1>5. SameCuts(s, t)
  <2> SUFFICES ASSUME NEW k \in 1 .. Len(s)
               PROVE  /\ IsSegment(t[k]) /\ t[k].left = s[k].left /\ t[k].right = s[k].right
                      /\ t[k].first = s[k].first /\ t[k].last = s[k].last
    BY <1>4 DEF SameCuts
  <2>1. CASE k = i
    BY <1>2, <1>3, <2>1
  <2>2. CASE k # i
    BY <1>1, <1>3, <2>2
  <2> QED
    BY <2>1, <2>2
<1> QED
  BY <1>2, <1>3, <1>5 DEF t, r

\* Relabelling keeps the cuts, and tells what it has labelled.
LEMMA RelabelIs ==
    ASSUME NEW s, Ordered(s), NEW labels
    PROVE  LET t == [k \in DOMAIN s |-> Relabelled(s[k], labels[k])]
           IN  /\ SameCuts(s, t)
               /\ \A k \in 1 .. Len(s) :
                     /\ t[k].vlm = s[k].vlm /\ s[k].ops \subseteq t[k].ops
                     /\ t[k] = s[k] \/ "viterbi_relabel" \in t[k].ops
<1> DEFINE t == [k \in DOMAIN s |-> Relabelled(s[k], labels[k])]
<1>1. Len(s) \in Nat /\ DOMAIN s = 1 .. Len(s) /\ \A k \in 1 .. Len(s) : IsSegment(s[k])
  BY IsSeqHas DEF Ordered, Measured
<1>2. /\ DOMAIN t = 1 .. Len(s) /\ t = [k \in 1 .. Len(s) |-> t[k]]
      /\ \A k \in 1 .. Len(s) : t[k] = Relabelled(s[k], labels[k])
  BY <1>1
<1> HIDE DEF t
<1>3. IsSeq(t) /\ Len(t) = Len(s)
  BY <1>1, <1>2, SequenceOf
<1>4. ASSUME NEW k \in 1 .. Len(s)
      PROVE  /\ IsSegment(t[k]) /\ t[k].left = s[k].left /\ t[k].right = s[k].right
             /\ t[k].first = s[k].first /\ t[k].last = s[k].last
             /\ t[k].vlm = s[k].vlm /\ s[k].ops \subseteq t[k].ops
             /\ t[k] = s[k] \/ "viterbi_relabel" \in t[k].ops
  <2>1. CASE labels[k] = s[k].phase
    BY <1>1, <1>2, <2>1 DEF Relabelled
  <2>2. CASE labels[k] # s[k].phase
    <3> DEFINE seg == s[k]
               o == seg.ops \cup {"viterbi_relabel"}
               r == [left |-> seg.left, right |-> seg.right, first |-> seg.first,
                     last |-> seg.last, phase |-> labels[k], vlm |-> seg.vlm, ops |-> o]
    <3>1. IsSegment(seg) /\ t[k] = [seg EXCEPT !.phase = labels[k], !.ops = o]
      BY <1>1, <1>2, <2>2 DEF Relabelled
    <3> HIDE DEF seg, o
    <3>2. t[k] = r
      BY <3>1 DEF IsSegment
    <3>3. /\ r.left = seg.left /\ r.right = seg.right /\ r.first = seg.first
          /\ r.last = seg.last /\ r.phase = labels[k] /\ r.vlm = seg.vlm /\ r.ops = o
      OBVIOUS
    <3>4. IsSegment(r)
      BY <3>3 DEF IsSegment
    <3> HIDE DEF r
    <3> QED
      BY <3>2, <3>3, <3>4 DEF seg, o
  <2> QED
    BY <2>1, <2>2
<1> QED
  BY <1>3, <1>4 DEF SameCuts, t

\* A segment in the place of two.
LEMMA ReplaceIs ==
    ASSUME NEW s, IsSeq(s), NEW k \in 1 .. Len(s) - 1, NEW seg
    PROVE  LET t == Replace(s, k, seg)
           IN  /\ IsSeq(t) /\ Len(t) = Len(s) - 1 /\ t[k] = seg
               /\ \A i \in 1 .. k - 1 : t[i] = s[i]
               /\ \A i \in k + 1 .. Len(s) - 1 : t[i] = s[i + 1]
<1> DEFINE n == Len(s)
           S == ToSet(s) \cup {seg}
           a == SubSeq(s, 1, k - 1)
           b == SubSeq(s, k + 2, n)
           c == <<seg>>
           d == a \o c
           t == d \o b
<1>1. n \in Nat /\ k \in Int /\ 1 <= k /\ k <= n - 1
  BY IsSeqHas
<1>2. s \in Seq(S) /\ c \in Seq(S) /\ Len(c) = 1 /\ c[1] = seg
  <2>1. ToSet(s) \subseteq S /\ seg \in S
    OBVIOUS
  <2> HIDE DEF S
  <2>2. s \in Seq(S)
    BY <2>1, SeqMonotonic DEF IsSeq
  <2> QED
    BY <2>1, <2>2
<1>3. \A i \in 1 .. n : s[i] \in S
  BY IsSeqHas
<1> HIDE DEF n, S
<1>4. /\ a \in Seq(S) /\ Len(a) = k - 1
      /\ \A i \in 1 .. k - 1 : a[i] = s[i]
  <2>1. 1 \in Int /\ k - 1 \in Int /\ \A i \in 1 .. k - 1 : s[i] \in S
    BY <1>1, <1>3
  <2>2. /\ a \in Seq(S) /\ Len(a) = (IF 1 <= k - 1 THEN k - 1 - 1 + 1 ELSE 0)
        /\ \A i \in 1 .. k - 1 - 1 + 1 : a[i] = s[1 + i - 1]
    BY <2>1, SubSeqProperties
  <2> HIDE DEF a
  <2> QED
    BY <1>1, <2>2
<1>5. /\ b \in Seq(S) /\ Len(b) = n - k - 1
      /\ \A i \in 1 .. n - k - 1 : b[i] = s[k + 1 + i]
  <2>1. k + 2 \in Int /\ n \in Int /\ \A i \in k + 2 .. n : s[i] \in S
    BY <1>1, <1>3
  <2>2. /\ b \in Seq(S) /\ Len(b) = (IF k + 2 <= n THEN n - (k + 2) + 1 ELSE 0)
        /\ \A i \in 1 .. n - (k + 2) + 1 : b[i] = s[k + 2 + i - 1]
    BY <2>1, SubSeqProperties
  <2> HIDE DEF b
  <2>3. \A i \in 1 .. n - k - 1 : i \in 1 .. n - (k + 2) + 1 /\ k + 2 + i - 1 = k + 1 + i
    BY <1>1
  <2> QED
    BY <1>1, <2>2, <2>3
<1> HIDE DEF a, b, c
<1>6. /\ d \in Seq(S) /\ Len(d) = k
      /\ \A i \in 1 .. k : d[i] = IF i <= k - 1 THEN a[i] ELSE c[i - (k - 1)]
  <2>1. /\ d \in Seq(S) /\ Len(d) = Len(a) + Len(c)
        /\ \A i \in 1 .. Len(a) + Len(c) :
              d[i] = IF i <= Len(a) THEN a[i] ELSE c[i - Len(a)]
    BY <1>2, <1>4, ConcatProperties
  <2> HIDE DEF d
  <2> QED
    BY <1>1, <1>2, <1>4, <2>1
<1> HIDE DEF d
<1>7. /\ t \in Seq(S) /\ Len(t) = n - 1
      /\ \A i \in 1 .. n - 1 : t[i] = IF i <= k THEN d[i] ELSE b[i - k]
  <2>0. d \in Seq(S) /\ b \in Seq(S)
    BY <1>5, <1>6
  <2>1. /\ t \in Seq(S) /\ Len(t) = Len(d) + Len(b)
        /\ \A i \in 1 .. Len(d) + Len(b) :
              t[i] = IF i <= Len(d) THEN d[i] ELSE b[i - Len(d)]
    BY <2>0, ConcatProperties, Zenon
  <2> HIDE DEF t
  <2>2. Len(d) + Len(b) = n - 1
    BY <1>1, <1>5, <1>6
  <2> QED
    BY <1>6, <2>1, <2>2
<1> HIDE DEF t
<1>8. t[k] = seg
  <2>1. k \in 1 .. n - 1 /\ k <= k /\ k \in 1 .. k /\ ~(k <= k - 1) /\ k - (k - 1) = 1
    BY <1>1
  <2>2. t[k] = d[k]
    BY <1>7, <2>1
  <2>3. d[k] = c[k - (k - 1)]
    BY <1>6, <2>1
  <2> QED
    BY <1>2, <2>1, <2>2, <2>3
<1>9. ASSUME NEW i \in 1 .. k - 1
      PROVE  t[i] = s[i]
  <2>1. i \in 1 .. n - 1 /\ i <= k /\ i \in 1 .. k /\ i <= k - 1
    BY <1>1
  <2> QED
    BY <1>4, <1>6, <1>7, <2>1
<1>10. ASSUME NEW i \in k + 1 .. n - 1
      PROVE  t[i] = s[i + 1]
  <2>1. i \in 1 .. n - 1 /\ ~(i <= k) /\ i - k \in 1 .. n - k - 1 /\ k + 1 + (i - k) = i + 1
    BY <1>1
  <2>2. t[i] = b[i - k]
    BY <1>7, <2>1
  <2> QED
    BY <1>5, <2>1, <2>2
<1>11. IsSeq(t)
  <2>1. t = [i \in 1 .. Len(t) |-> t[i]] /\ Len(t) \in Nat /\ DOMAIN t = 1 .. Len(t)
    BY <1>7, LenProperties
  <2> QED
    BY <2>1, SequenceOf
<1>12. t = Replace(s, k, seg)
  BY DEF Replace, t, d, a, b, c, n
<1> QED
  BY <1>7, <1>8, <1>9, <1>10, <1>11, <1>12 DEF n

\* Two segments joined.
Joins(seg, l, r) ==
    /\ IsSegment(seg) /\ seg.left = l.left /\ seg.right = r.right
    /\ seg.first = l.first /\ seg.last = r.last

\* Two segments merged or one of them absorbed: a label that changes was that of
\* a short segment, and a cut that goes was not preserved or next to a short one.
Merges(seg, l, r) ==
    /\ Joins(seg, l, r) /\ l.ops \subseteq seg.ops /\ r.ops \subseteq seg.ops
    /\ seg.vlm = MeanConfidence(l, r)
    /\ seg.phase = l.phase \/ seg.phase = r.phase
    /\ l.phase = seg.phase \/ Length(l) < MinDuration
    /\ r.phase = seg.phase \/ Length(r) < MinDuration
    /\ "merge_short" \in seg.ops \/ ~Preserved(l, r)

\* A join is a segment from the start of the one to the end of the other.
LEMMA JoinIs ==
    ASSUME NEW l, NEW r, NEW phase, NEW name
    PROVE  LET seg == Join(l, r, phase, name)
           IN  /\ Joins(seg, l, r) /\ seg.phase = phase /\ seg.vlm = MeanConfidence(l, r)
               /\ seg.ops = l.ops \cup r.ops \cup {name}
  BY DEF Joins, Join, IsSegment

\* Op 1 merges.
LEMMA MergePairIs ==
    ASSUME NEW l, NEW r, l.phase = r.phase, ~Preserved(l, r)
    PROVE  Merges(MergePair(l, r), l, r)
<1>1. MergePair(l, r) = Join(l, r, l.phase, "merge_same_label")
  BY DEF MergePair
<1> DEFINE seg == Join(l, r, l.phase, "merge_same_label")
<1>2. /\ Joins(seg, l, r) /\ seg.phase = l.phase /\ seg.vlm = MeanConfidence(l, r)
      /\ seg.ops = l.ops \cup r.ops \cup {"merge_same_label"}
  BY JoinIs
<1> HIDE DEF seg
<1>3. Merges(seg, l, r)
  BY <1>2 DEF Merges
<1> QED
  BY <1>1, <1>3 DEF seg

\* Op 2 absorbs the side that is not named.
LEMMA AbsorbIs ==
    ASSUME NEW l, NEW r, NEW side, side \in {"left", "right"},
           Length(IF side = "left" THEN r ELSE l) < MinDuration
    PROVE  Merges(Absorb(l, r, side), l, r)
<1> DEFINE phase == IF side = "left" THEN l.phase ELSE r.phase
           seg == Join(l, r, phase, "merge_short")
<1>1. Absorb(l, r, side) = seg
  BY DEF Absorb
<1>2. /\ Joins(seg, l, r) /\ seg.phase = phase /\ seg.vlm = MeanConfidence(l, r)
      /\ seg.ops = l.ops \cup r.ops \cup {"merge_short"}
  BY JoinIs
<1> HIDE DEF seg
<1>3. Merges(seg, l, r)
  <2>1. CASE side = "left"
    BY <1>2, <2>1 DEF Merges
  <2>2. CASE side = "right"
    BY <1>2, <2>2 DEF Merges
  <2> QED
    BY <2>1, <2>2
<1> QED
  BY <1>1, <1>3

\* The segments stay in order and without a gap, and none becomes short.
LEMMA JoinKeeps ==
    ASSUME NEW s, Ordered(s), NEW k \in 1 .. Len(s) - 1, NEW seg, Joins(seg, s[k], s[k + 1])
    PROVE  LET t == Replace(s, k, seg)
           IN  /\ Ordered(t) /\ (Covering(s) => Covering(t))
               /\ Short(s) = {} => Short(t) = {}
<1> DEFINE n == Len(s)
           t == Replace(s, k, seg)
<1>1. n \in Nat /\ k \in Int /\ 1 <= k /\ k <= n - 1 /\ k \in 1 .. n /\ k + 1 \in 1 .. n
  BY IsSeqHas DEF Ordered
<1>2. /\ IsSeq(t) /\ Len(t) = n - 1 /\ t[k] = seg
      /\ \A i \in 1 .. k - 1 : t[i] = s[i]
      /\ \A i \in k + 1 .. n - 1 : t[i] = s[i + 1]
  <2>1. IsSeq(s)
    BY DEF Ordered
  <2> QED
    BY <2>1, ReplaceIs
<1> HIDE DEF t, n
<1>3. \A i \in 1 .. n : Measured(s[i])
  BY DEF Ordered, n
<1>4. \A i \in 1 .. n - 1 : s[i].right.time <= s[i + 1].left.time
  BY DEF Ordered, n
<1>5. /\ IsSegment(seg) /\ seg.left = s[k].left /\ seg.right = s[k + 1].right
      /\ seg.first = s[k].first /\ seg.last = s[k + 1].last
  BY DEF Joins
<1>6. /\ Measured(seg) /\ Length(seg) >= Length(s[k]) /\ Length(seg) >= Length(s[k + 1])
      /\ Length(s[k]) \in Int /\ Length(s[k + 1]) \in Int /\ Length(seg) \in Int
  <2>1. Measured(s[k]) /\ Measured(s[k + 1]) /\ s[k].right.time <= s[k + 1].left.time
    BY <1>1, <1>3, <1>4
  <2> QED
    BY <1>5, <2>1 DEF Measured, Length
<1>7. \A i \in 1 .. n - 1 : i \in 1 .. k - 1 \/ i = k \/ i \in k + 1 .. n - 1
  BY <1>1
\* A segment of t ends and begins where one of s does.
<1>8. ASSUME NEW i \in 1 .. n - 1
      PROVE  /\ Measured(t[i])
             /\ \E j \in 1 .. n : t[i].left = s[j].left /\ t[i].first = s[j].first
                                  /\ j = IF i <= k THEN i ELSE i + 1
             /\ \E j \in 1 .. n : t[i].right = s[j].right /\ t[i].last = s[j].last
                                  /\ j = IF i < k THEN i ELSE i + 1
  <2>1. CASE i \in 1 .. k - 1
    <3>1. t[i] = s[i] /\ i \in 1 .. n /\ i <= k /\ i < k
      BY <1>1, <1>2, <2>1
    <3> QED
      BY <1>3, <3>1
  <2>2. CASE i = k
    <3>1. t[i] = seg /\ i <= k /\ ~(i < k)
      BY <1>1, <1>2, <2>2
    <3> QED
      BY <1>1, <1>5, <1>6, <2>2, <3>1
  <2>3. CASE i \in k + 1 .. n - 1
    <3>1. t[i] = s[i + 1] /\ i + 1 \in 1 .. n /\ ~(i <= k) /\ ~(i < k)
      BY <1>1, <1>2, <2>3
    <3> QED
      BY <1>3, <3>1
  <2> QED
    BY <1>7, <2>1, <2>2, <2>3
<1>9. ASSUME NEW i \in 1 .. n - 1 - 1
      PROVE  \E j \in 1 .. n - 1 :
                /\ t[i].right = s[j].right /\ t[i].last = s[j].last
                /\ t[i + 1].left = s[j + 1].left /\ t[i + 1].first = s[j + 1].first
  <2>1. i \in 1 .. n - 1 /\ i + 1 \in 1 .. n - 1
    BY <1>1
  <2>2. CASE i < k
    <3>1. ~(k <= i) /\ i + 1 <= k /\ i \in 1 .. n - 1
      BY <1>1, <2>1, <2>2
    <3>2. t[i].right = s[i].right /\ t[i].last = s[i].last
      BY <1>8, <2>1, <2>2
    <3>3. t[i + 1].left = s[i + 1].left /\ t[i + 1].first = s[i + 1].first
      BY <1>8, <2>1, <3>1
    <3> QED
      BY <3>1, <3>2, <3>3
  <2>3. CASE ~(i < k)
    <3>1. ~(i + 1 <= k) /\ i + 1 \in 1 .. n - 1
      BY <1>1, <2>1, <2>3
    <3>2. t[i].right = s[i + 1].right /\ t[i].last = s[i + 1].last
      BY <1>8, <2>1, <2>3
    <3>3. t[i + 1].left = s[i + 1 + 1].left /\ t[i + 1].first = s[i + 1 + 1].first
      BY <1>8, <2>1, <3>1
    <3> QED
      BY <3>1, <3>2, <3>3
  <2> QED
    BY <2>2, <2>3
<1>10. Ordered(t)
  <2>1. \A i \in 1 .. Len(t) : Measured(t[i])
    BY <1>2, <1>8
  <2>2. ASSUME NEW i \in 1 .. Len(t) - 1
        PROVE  t[i].right.time <= t[i + 1].left.time
    <3>1. PICK j \in 1 .. n - 1 :
              t[i].right = s[j].right /\ t[i + 1].left = s[j + 1].left
      BY <1>2, <1>9
    <3>2. s[j].right.time <= s[j + 1].left.time
      BY <1>4
    <3> QED
      BY <3>1, <3>2
  <2> QED
    BY <1>2, <2>1, <2>2 DEF Ordered
<1>11. ASSUME Covering(s)
       PROVE  Covering(t)
  <2>1. /\ \A i \in 1 .. n - 1 : Follows(s[i], s[i + 1])
        /\ s[1].left.time < FrameTicks /\ s[n].right.time > Duration - FrameTicks
    BY <1>11 DEF Covering, n
  <2>2. ASSUME NEW i \in 1 .. Len(t) - 1
        PROVE  Follows(t[i], t[i + 1])
    <3>1. PICK j \in 1 .. n - 1 :
              /\ t[i].right = s[j].right /\ t[i].last = s[j].last
              /\ t[i + 1].left = s[j + 1].left /\ t[i + 1].first = s[j + 1].first
      BY <1>2, <1>9
    <3>2. Follows(s[j], s[j + 1])
      BY <2>1
    <3> QED
      BY <3>1, <3>2 DEF Follows
  <2>3. n - 1 > 0 /\ 1 \in 1 .. n - 1 /\ 1 <= k /\ n - 1 \in 1 .. n - 1 /\ ~(n - 1 < k)
        /\ n - 1 + 1 = n
    BY <1>1
  <2>4. t[1].left = s[1].left
    BY <1>8, <2>3
  <2>5. t[n - 1].right = s[n].right
    BY <1>8, <2>3
  <2> QED
    BY <1>2, <2>1, <2>2, <2>3, <2>4, <2>5 DEF Covering
<1>12. ASSUME Short(s) = {}
       PROVE  Short(t) = {}
  <2>1. \A i \in 1 .. n : ~(Length(s[i]) < MinDuration)
    <3>1. n > 1
      BY <1>1
    <3> QED
      BY <1>12, <3>1 DEF Short, n
  <2>2. ASSUME NEW i \in 1 .. n - 1
        PROVE  ~(Length(t[i]) < MinDuration)
    <3>1. CASE i = k
      BY <1>1, <1>2, <1>6, <2>1, <3>1, MinDurationAssumption
    <3>2. CASE i \in 1 .. k - 1
      <4>1. t[i] = s[i] /\ i \in 1 .. n
        BY <1>1, <1>2, <3>2
      <4> QED
        BY <2>1, <4>1
    <3>3. CASE i \in k + 1 .. n - 1
      <4>1. t[i] = s[i + 1] /\ i + 1 \in 1 .. n
        BY <1>1, <1>2, <3>3
      <4> QED
        BY <2>1, <4>1
    <3> QED
      BY <1>7, <3>1, <3>2, <3>3
  <2> QED
    BY <1>2, <2>2 DEF Short
<1> QED
  BY <1>10, <1>11, <1>12 DEF t

-----------------------------------------------------------------------------
(* What a step does to the segments. *)

\* The labeler gives up and returns the segments as it was given them ...
Degrades ==
    /\ segments' = baseline /\ labelled' = baseline /\ degraded' # Nothing
    /\ stage' \in {"smooth", "done"}

\* ... labels the segment it is at ...
LabelsOne ==
    /\ idx <= Len(segments) /\ idx' = idx + 1
    /\ \E phase, confidence :
          /\ phase # "unlabeled" /\ confidence \in Rational
          /\ segments' = [segments EXCEPT ![idx] = Respond(@, phase, confidence)]
    /\ stage' = "label" /\ degraded' = degraded /\ labelled' = labelled

\* ... tries again or is left by an exception ...
Stays ==
    /\ segments' = segments /\ idx' = idx
    /\ stage' \in {"label", "raised"} /\ degraded' = degraded /\ labelled' = labelled

\* ... or has labelled all of them.
EndsLabeled ==
    /\ idx > Len(segments)
    /\ segments' = segments /\ labelled' = segments /\ degraded' = Nothing
    /\ stage' \in {"smooth", "done"}

\* The labeler does one of them and nothing else.
LEMMA LabelStep ==
    ASSUME LabelSegments
    PROVE  /\ stage = "label" /\ UNCHANGED smootherVars
           /\ baseline' = baseline /\ idx' \in {idx, idx + 1}
           /\ Degrades \/ LabelsOne \/ Stays \/ EndsLabeled
<1>1. stage = "label" /\ UNCHANGED smootherVars
  BY DEF LabelSegments
<1>2. AfterLabeling \in {"smooth", "done"}
  BY DEF AfterLabeling
<1> HIDE DEF AfterLabeling
<1>3. ASSUME NEW reason, reason # Nothing, Degrade(AfterLabeling, reason)
      PROVE  Degrades /\ baseline' = baseline /\ idx' \in {idx, idx + 1}
  BY <1>2, <1>3 DEF Degrade, Return, Degrades
<1>4. ASSUME RetryOrFallBack, idx <= Len(segments)
      PROVE  (LabelsOne \/ Stays) /\ baseline' = baseline /\ idx' \in {idx, idx + 1}
  <2>1. CASE attempt < MaxRetries
    BY <1>1, <1>4, <2>1 DEF RetryOrFallBack, Stays
  <2>2. CASE ~(attempt < MaxRetries)
    <3>1. segments' = [segments EXCEPT ![idx] = Respond(@, "unknown", Zero)]
          /\ idx' = idx + 1 /\ UNCHANGED <<stage, baseline, degraded, labelled>>
      BY <1>4, <2>2 DEF RetryOrFallBack
    <3>2. Zero \in Rational
      BY DEF Zero, Rational
    <3> QED
      BY <1>1, <1>4, <3>1, <3>2 DEF LabelsOne
  <2> QED
    BY <2>1, <2>2
<1>5. CASE FactoryFails(AfterLabeling)
  <2>1. Degrade(AfterLabeling, "vlm_init_failed") /\ "vlm_init_failed" # Nothing
    BY <1>5 DEF FactoryFails, Nothing
  <2> QED
    BY <1>1, <1>3, <2>1
<1>6. CASE Answer
  <2>1. PICK raw \in Accepted :
           segments' = [segments EXCEPT ![idx] = Respond(@, raw.phase, raw.confidence)]
    BY <1>6 DEF Answer
  <2>2. raw.phase # "unlabeled" /\ raw.confidence \in Rational
    <3>1. /\ raw.phase \in ToSet(Labelset) \cup {"unknown"}
          /\ raw.form # "text" /\ raw.form # "json"
      BY DEF Accepted, parse_and_validate
    <3>2. raw \in Responses
      BY <3>1 DEF Accepted, Texts
    <3>3. raw.confidence \in Confidences
      BY <3>2 DEF Responses
    <3> QED
      BY <3>1, <3>3, LabelsAssumption, ConfidencesAssumption DEF Reserved
  <2> QED
    BY <1>1, <1>6, <2>1, <2>2 DEF Answer, LabelsOne
<1>7. CASE Reject
  BY <1>1, <1>4, <1>7 DEF Reject
<1>8. ASSUME NEW reason \in Faults, Fault(AfterLabeling, reason)
      PROVE  (Degrades \/ LabelsOne \/ Stays) /\ baseline' = baseline /\ idx' \in {idx, idx + 1}
  <2>1. "vlm_unreachable" # Nothing /\ "vlm_runtime_failed" # Nothing
    BY DEF Nothing
  <2> QED
    BY <1>3, <1>4, <1>8, <2>1 DEF Fault
<1>9. CASE Propagate
  BY <1>1, <1>9 DEF Propagate, labelerVars, Stays
<1>10. CASE LabelingEnds(AfterLabeling)
  BY <1>1, <1>2, <1>10 DEF LabelingEnds, Return, EndsLabeled
<1> QED
  BY <1>1, <1>5, <1>6, <1>7, <1>8, <1>9, <1>10 DEF LabelSegments

\* Labelling a segment keeps the cuts.
LEMMA LabelsOneKeeps ==
    ASSUME Ordered(segments), idx \in Nat \ {0}, LabelsOne
    PROVE  /\ SameCuts(segments, segments')
           /\ segments'[idx].phase # "unlabeled" /\ segments'[idx].vlm \in Rational
           /\ \A k \in 1 .. Len(segments) : k # idx => segments'[k] = segments[k]
<1>1. PICK phase, confidence :
         /\ phase # "unlabeled" /\ confidence \in Rational
         /\ segments' = [segments EXCEPT ![idx] = Respond(@, phase, confidence)]
  BY DEF LabelsOne
<1>2. idx \in 1 .. Len(segments)
  <2>1. Len(segments) \in Nat
    BY IsSeqHas DEF Ordered
  <2> QED
    BY <2>1 DEF LabelsOne
<1> DEFINE t == [segments EXCEPT ![idx] = Respond(@, phase, confidence)]
<1>3. /\ SameCuts(segments, t) /\ t[idx].phase = phase /\ t[idx].vlm = confidence
      /\ \A k \in 1 .. Len(segments) : k # idx => t[k] = segments[k]
  BY <1>2, AnswerIs
<1>4. segments' = t
  BY <1>1
<1> HIDE DEF t
<1> QED
  BY <1>1, <1>3, <1>4

\* The positions of merges and absorptions are those of two neighbours.
LEMMA NextMergeable ==
    ASSUME NEW s, IsSeq(s), From(Mergeable(s)) # {}
    PROVE  LET k == Min(From(Mergeable(s)))
           IN  /\ k \in 1 .. Len(s) - 1
               /\ s[k].phase = s[k + 1].phase /\ ~Preserved(s[k], s[k + 1])
<1>1. Len(s) \in Nat
  BY IsSeqHas
<1> DEFINE T == From(Mergeable(s))
<1>2. /\ T \in SUBSET (1 .. Len(s) - 1) /\ T # {}
      /\ \A k \in T : s[k].phase = s[k + 1].phase /\ ~Preserved(s[k], s[k + 1])
  BY DEF From, Mergeable
<1> HIDE DEF T
<1>3. Min(T) \in T
  <2>1. T \in SUBSET Nat
    BY <1>1, <1>2
  <2> QED
    BY <1>2, <2>1, MinOf
<1>4. /\ Min(T) \in 1 .. Len(s) - 1 /\ s[Min(T)].phase = s[Min(T) + 1].phase
      /\ ~Preserved(s[Min(T)], s[Min(T) + 1])
  BY <1>2, <1>3
<1> QED
  BY <1>4 DEF T

\* The same for a short segment, on the side that absorbs it.
LEMMA NextAbsorbed ==
    ASSUME NEW s, IsSeq(s), From(Short(s)) # {}
    PROVE  LET k == Min(From(Short(s)))
               side == AbsorbingSide(s, k)
               l == IF side = "left" THEN k - 1 ELSE k
           IN  /\ l \in 1 .. Len(s) - 1 /\ side \in {"left", "right"}
               /\ Length(IF side = "left" THEN s[l + 1] ELSE s[l]) < MinDuration
<1>1. Len(s) \in Nat
  BY IsSeqHas
<1> DEFINE T == From(Short(s))
           k == Min(T)
           side == AbsorbingSide(s, k)
           l == IF side = "left" THEN k - 1 ELSE k
<1>2. /\ T \in SUBSET (1 .. Len(s)) /\ T # {} /\ Len(s) > 1
      /\ \A i \in T : Length(s[i]) < MinDuration
  BY DEF From, Short
<1> HIDE DEF T
<1>3. k \in T
  <2>1. T \in SUBSET Nat
    BY <1>1, <1>2
  <2> QED
    BY <1>2, <2>1, MinOf
<1> HIDE DEF k
<1>4. k \in 1 .. Len(s) /\ Length(s[k]) < MinDuration
  BY <1>2, <1>3
<1>5. /\ side \in {"left", "right"} /\ (k = 1 => side = "right")
      /\ (k = Len(s) => side = "left")
  BY <1>1, <1>2, <1>4 DEF AbsorbingSide
<1> HIDE DEF side
<1>6. l \in 1 .. Len(s) - 1 /\ (side = "left" => l + 1 = k) /\ (side = "right" => l = k)
  BY <1>1, <1>2, <1>4, <1>5
<1> HIDE DEF l
<1>7. Length(IF side = "left" THEN s[l + 1] ELSE s[l]) < MinDuration
  <2>1. CASE side = "left"
    BY <1>4, <1>6, <2>1
  <2>2. CASE side = "right"
    BY <1>4, <1>6, <2>2
  <2> QED
    BY <1>5, <2>1, <2>2
<1> QED
  BY <1>5, <1>6, <1>7 DEF l, side, k, T

\* Merging and absorbing join two neighbours.
JoinsTwo ==
    \E k \in 1 .. Len(segments) - 1 : \E seg :
        /\ Merges(seg, segments[k], segments[k + 1])
        /\ segments' = Replace(segments, k, seg)

\* An operator of the smoother joins two segments, relabels them or leaves them.
LEMMA SmoothStep ==
    ASSUME IsSeq(segments)
    PROVE  /\ MergeNext \/ AbsorbNext => JoinsTwo
           /\ EndRound \/ EndPass \/ ExtendColumns => UNCHANGED segments
           /\ Relabel => \/ UNCHANGED segments
                         \/ \E labels : segments' = [k \in DOMAIN segments |->
                                                        Relabelled(segments[k], labels[k])]
<1>1. ASSUME MergeNext
      PROVE  JoinsTwo
  <2> DEFINE k == Min(From(Mergeable(segments)))
             seg == MergePair(segments[k], segments[k + 1])
  <2>1. From(Mergeable(segments)) # {} /\ segments' = Replace(segments, k, seg)
    BY <1>1 DEF MergeNext
  <2>2. /\ k \in 1 .. Len(segments) - 1 /\ segments[k].phase = segments[k + 1].phase
        /\ ~Preserved(segments[k], segments[k + 1])
    BY <2>1, NextMergeable
  <2> HIDE DEF k
  <2>3. Merges(seg, segments[k], segments[k + 1])
    BY <2>2, MergePairIs
  <2> HIDE DEF seg
  <2> QED
    BY <2>1, <2>2, <2>3 DEF JoinsTwo
<1>2. ASSUME AbsorbNext
      PROVE  JoinsTwo
  <2> DEFINE k == Min(From(Short(segments)))
             side == AbsorbingSide(segments, k)
             l == IF side = "left" THEN k - 1 ELSE k
             seg == Absorb(segments[l], segments[l + 1], side)
  <2>1. From(Short(segments)) # {} /\ segments' = Replace(segments, l, seg)
    BY <1>2 DEF AbsorbNext
  <2>2. /\ l \in 1 .. Len(segments) - 1 /\ side \in {"left", "right"}
        /\ Length(IF side = "left" THEN segments[l + 1] ELSE segments[l]) < MinDuration
    BY <2>1, NextAbsorbed
  <2> HIDE DEF l, side
  <2>3. Merges(seg, segments[l], segments[l + 1])
    BY <2>2, AbsorbIs
  <2> HIDE DEF seg
  <2> QED
    BY <2>1, <2>2, <2>3 DEF JoinsTwo
<1>3. EndRound \/ EndPass \/ ExtendColumns => UNCHANGED segments
  BY DEF EndRound, EndPass, ExtendColumns
<1>4. ASSUME Relabel
      PROVE  \/ UNCHANGED segments
             \/ \E labels : segments' = [k \in DOMAIN segments |->
                                            Relabelled(segments[k], labels[k])]
  BY <1>4 DEF Relabel
<1> QED
  BY <1>1, <1>2, <1>3, <1>4

\* What all that keeps: the order, the cover, and that no segment is short.
Kept(s, t) ==
    /\ Ordered(t) /\ (Covering(s) => Covering(t)) /\ (Short(s) = {} => Short(t) = {})

\* A step of the smoother keeps them.
LEMMA SmoothKeeps ==
    ASSUME Ordered(segments), SmootherNext
    PROVE  Kept(segments, segments')
<1>1. IsSeq(segments)
  BY DEF Ordered
<1>2. CASE UNCHANGED segments
  BY <1>2 DEF Kept
<1>3. CASE JoinsTwo
  BY <1>3, JoinKeeps DEF JoinsTwo, Merges, Kept
<1>4. ASSUME NEW labels, segments' = [k \in DOMAIN segments |-> Relabelled(segments[k], labels[k])]
      PROVE  Kept(segments, segments')
  <2> DEFINE t == [k \in DOMAIN segments |-> Relabelled(segments[k], labels[k])]
  <2>1. SameCuts(segments, t)
    BY RelabelIs
  <2>2. segments' = t
    BY <1>4
  <2> HIDE DEF t
  <2>3. /\ Ordered(t) /\ (Covering(segments) => Covering(t)) /\ Len(t) = Len(segments)
        /\ \A k \in 1 .. Len(segments) : Length(t[k]) = Length(segments[k])
    BY <2>1, SameCutsKeep DEF SameCuts
  <2>4. Short(t) = Short(segments)
    BY <2>3 DEF Short
  <2> QED
    BY <2>2, <2>3, <2>4 DEF Kept
<1> QED
  BY <1>1, <1>2, <1>3, <1>4, SmoothStep DEF SmootherNext

-----------------------------------------------------------------------------
(* The order of the segments. *)

\* The segments are in order from the bracketing on, and so is the copy the
\* labeler keeps of them.
OrderInv == Ordered(segments) /\ Ordered(baseline) /\ idx \in Nat \ {0}

\* The empty sequence is in order.
LEMMA EmptyOrdered == Ordered(<< >>)
<1>1. Len(<< >>) = 0 /\ << >> \in Seq(ToSet(<< >>))
  BY EmptySeq
<1> QED
  BY <1>1 DEF Ordered, IsSeq

\* The order holds at the beginning.
LEMMA InitOrder == Init => OrderInv
  BY EmptyOrdered DEF Init, LabelerInit, OrderInv

\* Bracketing finds the segments and copies them.
LEMMA DetectStep ==
    ASSUME DetectBoundaries
    PROVE  /\ \E E, up : Events(E) /\ segments' = Bracket(Edges(E, up))
           /\ baseline' = segments' /\ stage' \in {"label", "done"} /\ stage = "detect"
           /\ UNCHANGED <<idx, degraded, labelled, op, pos, changed, ever>>
<1>1. PICK E \in EventSets : \E up : segments' = Bracket(Edges(E, up))
  BY DEF DetectBoundaries
<1>2. Events(E)
  BY EventsAssumption DEF Events
<1>3. baseline' = segments' /\ stage' \in {"label", "done"} /\ stage = "detect"
      /\ UNCHANGED <<idx, degraded, labelled, op, pos, changed, ever>>
  BY DEF DetectBoundaries, smootherVars
<1> QED
  BY <1>1, <1>2, <1>3

\* Every step keeps the order.
LEMMA NextOrder ==
    ASSUME OrderInv, [Next]_vars
    PROVE  OrderInv'
<1>1. Ordered(segments) /\ Ordered(baseline) /\ idx \in Nat \ {0}
  BY DEF OrderInv
<1>2. CASE TrackObjects
  BY <1>1, <1>2 DEF TrackObjects, labelerVars, OrderInv
<1>3. CASE DetectBoundaries
  <2>1. PICK E, up : Events(E) /\ segments' = Bracket(Edges(E, up))
    BY <1>3, DetectStep
  <2>2. Ordered(Bracket(Edges(E, up)))
    BY <2>1, BracketIs
  <2> QED
    BY <1>3, <2>1, <2>2, DetectStep DEF OrderInv
<1>4. CASE LabelSegments
  <2>1. /\ baseline' = baseline /\ idx' \in Nat \ {0}
        /\ Degrades \/ LabelsOne \/ Stays \/ EndsLabeled
    BY <1>1, <1>4, LabelStep
  <2>2. CASE LabelsOne
    <3>1. Ordered(segments')
      BY <1>1, <2>2, LabelsOneKeeps, SameCutsKeep
    <3> QED
      BY <1>1, <2>1, <3>1 DEF OrderInv
  <2> QED
    BY <1>1, <2>1, <2>2 DEF Degrades, Stays, EndsLabeled, OrderInv
<1>5. CASE SmoothSegments
  <2>1. baseline' = baseline /\ idx' = idx
    BY <1>5 DEF SmoothSegments, labelerVars
  <2>2. CASE SmootherNext
    BY <1>1, <2>1, <2>2, SmoothKeeps DEF Kept, OrderInv
  <2>3. CASE CheckInvariants("done")
    BY <1>1, <2>1, <2>3 DEF CheckInvariants, OrderInv
  <2> QED
    BY <1>5, <2>2, <2>3 DEF SmoothSegments
<1>6. CASE UNCHANGED vars
  BY <1>1, <1>6 DEF vars, labelerVars, OrderInv
<1> QED
  BY <1>2, <1>3, <1>4, <1>5, <1>6 DEF Next

\* The order is an invariant.
LEMMA OrderIsInvariant == Spec => []OrderInv
<1>1. OrderInv /\ [Next]_vars => OrderInv'
  BY NextOrder
<1> QED
  BY <1>1, InitOrder, PTL DEF Spec

-----------------------------------------------------------------------------
(* The labels. *)

\* While the labeler runs, its copy is unlabelled and what it is past is labelled;
\* when it has returned, the labels are as promised.
LabelInv ==
    /\ stage \in {"track", "detect"} => idx = 1
    /\ stage = "label" =>
          /\ \A k \in 1 .. Len(baseline) : baseline[k].phase = "unlabeled"
          /\ \A k \in 1 .. Len(segments) : k < idx => segments[k].phase # "unlabeled"
    /\ AllLabelsOrNone

\* What the labeler returns is either.
LEMMA ReturnedLabels ==
    ASSUME NEW s, IsSeq(s), NEW reason,
           \/ reason = Nothing /\ \A k \in 1 .. Len(s) : s[k].phase # "unlabeled"
           \/ reason # Nothing /\ \A k \in 1 .. Len(s) : s[k].phase = "unlabeled"
    PROVE  \A seg \in ToSet(s) : seg.phase = "unlabeled" <=> reason # Nothing
<1>1. \A seg \in ToSet(s) : \E k \in 1 .. Len(s) : seg = s[k]
  BY IsSeqHas DEF ToSet
<1> QED
  BY <1>1

\* Nothing is labelled at the beginning.
LEMMA InitLabel == Init => LabelInv
<1> SUFFICES ASSUME Init
             PROVE  LabelInv
  OBVIOUS
<1>1. labelled = << >> /\ idx = 1 /\ stage \in {"track", "detect"}
  BY DEF Init, LabelerInit
<1> QED
  BY <1>1 DEF LabelInv, AllLabelsOrNone

\* Every step keeps it.
LEMMA NextLabel ==
    ASSUME OrderInv, LabelInv, [Next]_vars
    PROVE  LabelInv'
<1>1. Ordered(segments) /\ Ordered(baseline) /\ idx \in Nat \ {0}
      /\ IsSeq(segments) /\ IsSeq(baseline) /\ Len(segments) \in Nat
  BY IsSeqHas DEF OrderInv, Ordered
<1>2. CASE TrackObjects
  BY <1>2 DEF TrackObjects, labelerVars, LabelInv, AllLabelsOrNone
<1>3. CASE DetectBoundaries
  <2>1. PICK E, up : Events(E) /\ segments' = Bracket(Edges(E, up))
    BY <1>3, DetectStep
  <2>2. /\ baseline' = segments' /\ stage' \in {"label", "done"} /\ stage = "detect"
        /\ UNCHANGED <<idx, degraded, labelled>>
    BY <1>3, DetectStep
  <2>3. \A k \in 1 .. Len(segments') : segments'[k].phase = "unlabeled"
    BY <2>1, BracketIs
  <2>4. AllLabelsOrNone' /\ idx' = 1
    BY <2>2 DEF LabelInv, AllLabelsOrNone
  <2> QED
    BY <2>2, <2>3, <2>4 DEF LabelInv
<1>4. CASE LabelSegments
  <2>1. /\ stage = "label" /\ baseline' = baseline
        /\ Degrades \/ LabelsOne \/ Stays \/ EndsLabeled
    BY <1>4, LabelStep
  <2>2. /\ \A k \in 1 .. Len(baseline) : baseline[k].phase = "unlabeled"
        /\ \A k \in 1 .. Len(segments) : k < idx => segments[k].phase # "unlabeled"
    BY <2>1 DEF LabelInv
  <2>3. CASE Degrades
    <3>1. \A seg \in ToSet(baseline) : seg.phase = "unlabeled" <=> degraded' # Nothing
      BY <1>1, <2>2, <2>3, ReturnedLabels DEF Degrades
    <3> QED
      BY <2>3, <3>1 DEF Degrades, LabelInv, AllLabelsOrNone
  <2>4. CASE LabelsOne
    <3>1. /\ Len(segments') = Len(segments) /\ segments'[idx].phase # "unlabeled"
          /\ \A k \in 1 .. Len(segments) : k # idx => segments'[k] = segments[k]
      BY <1>1, <2>4, LabelsOneKeeps DEF SameCuts
    <3>2. stage' = "label" /\ idx' = idx + 1 /\ AllLabelsOrNone'
      BY <2>4 DEF LabelsOne, LabelInv, AllLabelsOrNone
    <3>3. ASSUME NEW k \in 1 .. Len(segments), k < idx + 1
          PROVE  segments'[k].phase # "unlabeled"
      <4>1. CASE k = idx
        BY <3>1, <4>1
      <4>2. CASE k # idx
        <5>1. k < idx /\ segments'[k] = segments[k]
          BY <1>1, <3>1, <3>3, <4>2
        <5> QED
          BY <2>2, <5>1
      <4> QED
        BY <4>1, <4>2
    <3> QED
      BY <2>1, <2>2, <3>1, <3>2, <3>3 DEF LabelInv
  <2>5. CASE Stays
    <3>1. AllLabelsOrNone'
      BY <2>5 DEF Stays, LabelInv, AllLabelsOrNone
    <3> QED
      BY <2>1, <2>2, <2>5, <3>1 DEF Stays, LabelInv
  <2>6. CASE EndsLabeled
    <3>1. \A k \in 1 .. Len(segments) : segments[k].phase # "unlabeled"
      BY <1>1, <2>2, <2>6 DEF EndsLabeled
    <3>2. \A seg \in ToSet(segments) : seg.phase = "unlabeled" <=> degraded' # Nothing
      BY <1>1, <2>6, <3>1, ReturnedLabels DEF EndsLabeled
    <3> QED
      BY <2>6, <3>2 DEF EndsLabeled, LabelInv, AllLabelsOrNone
  <2> QED
    BY <2>1, <2>3, <2>4, <2>5, <2>6
<1>5. CASE SmoothSegments
  <2>1. UNCHANGED labelerVars /\ stage' \in {"smooth", "done", "aborted"}
    BY <1>5 DEF SmoothSegments, SmootherNext, CheckInvariants
  <2> QED
    BY <2>1 DEF labelerVars, LabelInv, AllLabelsOrNone
<1>6. CASE UNCHANGED vars
  BY <1>6 DEF vars, labelerVars, LabelInv, AllLabelsOrNone
<1> QED
  BY <1>2, <1>3, <1>4, <1>5, <1>6 DEF Next

\* No partial labels leak: the labeler returns labels for every segment, or none
\* and the reason, wherever in its loop over segments and attempts it gives up.
THEOREM NoPartialLabels == Spec => []AllLabelsOrNone
<1>1. OrderInv /\ LabelInv /\ [Next]_vars => LabelInv'
  BY NextLabel
<1>2. LabelInv => AllLabelsOrNone
  BY DEF LabelInv
<1> QED
  BY <1>1, <1>2, InitLabel, OrderIsInvariant, PTL DEF Spec

-----------------------------------------------------------------------------
(* The cover of the episode. *)

\* From the bracketing on the segments cover the episode, and so does the copy that
\* the labeler may return; so the smoother has no reason to abort.
CoverInv ==
    stage \notin {"track", "detect"} =>
        Covering(segments) /\ Covering(baseline) /\ stage # "aborted"

\* There is nothing to cover yet.
LEMMA InitCover == Init => CoverInv
  BY DEF Init, CoverInv

\* Every step keeps the cover if the merge window is as long as a frame.
LEMMA NextCover ==
    ASSUME MergeWindow >= FrameTicks, OrderInv, CoverInv, [Next]_vars
    PROVE  CoverInv'
<1>1. Ordered(segments) /\ Ordered(baseline) /\ idx \in Nat \ {0}
  BY DEF OrderInv
<1>2. CASE TrackObjects
  BY <1>2 DEF TrackObjects, CoverInv
<1>3. CASE DetectBoundaries
  <2>1. PICK E, up : Events(E) /\ segments' = Bracket(Edges(E, up))
    BY <1>3, DetectStep
  <2>2. Covering(Bracket(Edges(E, up)))
    BY <2>1, BracketCovers
  <2>3. baseline' = segments' /\ stage' \in {"label", "done"}
    BY <1>3, DetectStep
  <2> QED
    BY <2>1, <2>2, <2>3 DEF CoverInv
<1>4. CASE LabelSegments
  <2>1. /\ stage = "label" /\ baseline' = baseline
        /\ Degrades \/ LabelsOne \/ Stays \/ EndsLabeled
    BY <1>4, LabelStep
  <2>2. Covering(segments) /\ Covering(baseline)
    BY <2>1 DEF CoverInv
  <2>3. CASE LabelsOne
    <3>1. Covering(segments')
      BY <1>1, <2>2, <2>3, LabelsOneKeeps, SameCutsKeep
    <3> QED
      BY <2>1, <2>2, <2>3, <3>1 DEF LabelsOne, CoverInv
  <2> QED
    BY <2>1, <2>2, <2>3 DEF Degrades, Stays, EndsLabeled, CoverInv
<1>5. CASE SmoothSegments
  <2>1. stage = "smooth" /\ baseline' = baseline /\ Covering(segments) /\ Covering(baseline)
    BY <1>5 DEF SmoothSegments, labelerVars, CoverInv
  <2>2. CASE SmootherNext
    <3>1. Covering(segments') /\ stage' = stage
      BY <1>1, <2>1, <2>2, SmoothKeeps DEF Kept, SmootherNext
    <3> QED
      BY <2>1, <3>1 DEF CoverInv
  <2>3. CASE CheckInvariants("done")
    <3>1. Adjoin(segments)
      BY <2>1 DEF Covering, Follows, Adjoin
    <3> QED
      BY <2>1, <2>3, <3>1 DEF CheckInvariants, CoverInv
  <2> QED
    BY <1>5, <2>2, <2>3 DEF SmoothSegments
<1>6. CASE UNCHANGED vars
  BY <1>6 DEF vars, labelerVars, CoverInv
<1> QED
  BY <1>2, <1>3, <1>4, <1>5, <1>6 DEF Next

\* What is published covers the episode frame by frame, and the smoother never
\* throws a run away, if two candidates are farther apart than a frame: then every
\* piece but the first and the last is long enough to be a segment.
THEOREM PublishedCovers ==
    ASSUME MergeWindow >= FrameTicks
    PROVE  Spec => []CoversEpisode
<1>1. OrderInv /\ CoverInv /\ [Next]_vars => CoverInv'
  BY NextCover
<1>2. OrderInv /\ CoverInv => CoversEpisode
  <2> SUFFICES ASSUME OrderInv, CoverInv
               PROVE  CoversEpisode
    OBVIOUS
  <2>1. stage # "aborted"
    BY DEF CoverInv
  <2>2. ASSUME stage = "done"
        PROVE  /\ segments # <<>>
               /\ segments[1].left.time < FrameTicks
               /\ Last(segments).right.time > Duration - FrameTicks
               /\ \A k \in 1 .. Len(segments) - 1 :
                     segments[k].last + 1 = segments[k + 1].first
    <3>1. Covering(segments)
      BY <2>2 DEF CoverInv
    <3>2. Last(segments) = segments[Len(segments)]
      BY DEF Last
    <3>3. segments # <<>>
      <4>1. IsSeq(segments) /\ Len(segments) # 0
        BY <3>1 DEF OrderInv, Ordered, Covering
      <4> QED
        BY <4>1, IsSeqHas
    <3> QED
      BY <3>1, <3>2, <3>3 DEF Covering, Follows
  <2> QED
    BY <2>1, <2>2 DEF CoversEpisode
<1> QED
  BY <1>1, <1>2, InitCover, OrderIsInvariant, PTL DEF Spec

-----------------------------------------------------------------------------
(* The goals of the smoother. *)

\* Each operator ends with a round or pass that began at the first segment and
\* changed nothing, so its goal is reached; what runs afterwards keeps it.  A pair
\* that absorption makes mergeable is left to a further run of Op 1.
GoalsInv ==
    /\ stage \in {"track", "detect", "label"} => op = "op1"
    /\ ~changed => pos = 1
    /\ op = "op2" /\ ~ever => Mergeable(segments) = {}
    /\ op \in {"op1b", "op3", "op1c", "check"} => Short(segments) = {}
    /\ op \in {"op3", "check"} => Mergeable(segments) = {}

\* Nothing is left of a round that began at the first segment.
LEMMA FromStart ==
    ASSUME NEW S \in SUBSET Nat, 0 \notin S, pos = 1, From(S) = {}
    PROVE  S = {}
<1>1. \A k \in S : k >= 1
  OBVIOUS
<1> QED
  BY <1>1 DEF From

\* The positions of pairs and of segments.
LEMMA Positions ==
    ASSUME NEW s, IsSeq(s)
    PROVE  /\ Mergeable(s) \in SUBSET Nat /\ 0 \notin Mergeable(s)
           /\ Short(s) \in SUBSET Nat /\ 0 \notin Short(s)
<1>1. Len(s) \in Nat
  BY IsSeqHas
<1> QED
  BY <1>1 DEF Mergeable, Short

\* The smoother begins with Op 1.
LEMMA InitGoals == Init => GoalsInv
  BY DEF Init, SmootherInit, GoalsInv

\* A step of the smoother keeps them.
LEMMA SmootherGoals ==
    ASSUME Ordered(segments), GoalsInv, stage = "smooth", SmootherNext
    PROVE  GoalsInv'
<1>1. /\ ~changed => pos = 1
      /\ op = "op2" /\ ~ever => Mergeable(segments) = {}
      /\ op \in {"op1b", "op3", "op1c", "check"} => Short(segments) = {}
      /\ op \in {"op3", "check"} => Mergeable(segments) = {}
  BY DEF GoalsInv
<1>2. stage' = "smooth" /\ (Short(segments) = {} => Short(segments') = {})
  BY SmoothKeeps DEF SmootherNext, Kept
<1>3. /\ Mergeable(segments) \in SUBSET Nat /\ 0 \notin Mergeable(segments)
      /\ Short(segments) \in SUBSET Nat /\ 0 \notin Short(segments)
  BY Positions DEF Ordered
<1>4. CASE MergeNext
  <2>1. op \in {"op1", "op1b", "op1c"} /\ op' = op /\ changed' = TRUE
    BY <1>4 DEF MergeNext
  <2> QED
    BY <1>1, <1>2, <2>1 DEF GoalsInv
<1>5. CASE EndRound
  <2>1. op \in {"op1", "op1b", "op1c"} /\ From(Mergeable(segments)) = {} /\ segments' = segments
    BY <1>5 DEF EndRound
  <2>2. CASE changed
    <3>1. pos' = 1 /\ op' = op
      BY <1>5, <2>2 DEF EndRound
    <3> QED
      BY <1>1, <1>2, <2>1, <3>1 DEF GoalsInv
  <2>3. CASE ~changed
    <3>1. op' = AfterMerging /\ pos' = 1
      BY <1>5, <2>3 DEF EndRound, Enter
    <3>2. Mergeable(segments) = {}
      BY <1>1, <1>3, <2>1, <2>3, FromStart
    <3>3. op' \in {"op2", "op3", "check"} /\ (op' # "op2" => op \in {"op1b", "op1c"})
      BY <2>1, <3>1 DEF AfterMerging
    <3>4. op' # "op2" => Short(segments) = {}
      BY <1>1, <3>3
    <3> QED
      BY <1>2, <2>1, <3>1, <3>2, <3>3, <3>4 DEF GoalsInv
  <2> QED
    BY <2>2, <2>3
<1>6. CASE AbsorbNext
  <2>1. op' = "op2" /\ changed' = TRUE /\ ever' = TRUE
    BY <1>6 DEF AbsorbNext
  <2> QED
    BY <1>2, <2>1 DEF GoalsInv
<1>7. CASE EndPass
  <2>1. op = "op2" /\ From(Short(segments)) = {} /\ segments' = segments
    BY <1>7 DEF EndPass
  <2>2. CASE changed
    <3>1. pos' = 1 /\ op' = op /\ ever' = ever
      BY <1>7, <2>2 DEF EndPass
    <3> QED
      BY <1>1, <1>2, <2>1, <3>1 DEF GoalsInv
  <2>3. CASE ~changed
    <3>1. op' = (IF ever THEN "op1b" ELSE "op3") /\ pos' = 1
      BY <1>7, <2>3 DEF EndPass, Enter
    <3>2. Short(segments) = {}
      BY <1>1, <1>3, <2>1, <2>3, FromStart
    <3>3. op' \in {"op1b", "op3"} /\ (op' = "op3" => Mergeable(segments) = {})
      BY <1>1, <2>1, <3>1
    <3> QED
      BY <1>2, <2>1, <3>1, <3>2, <3>3 DEF GoalsInv
  <2> QED
    BY <2>2, <2>3
<1>8. CASE ExtendColumns
  BY <1>1, <1>2, <1>8 DEF ExtendColumns, GoalsInv
<1>9. CASE Relabel
  <2>1. op = "op3" /\ pos' = 1 /\ op' = (IF segments' # segments THEN "op1c" ELSE "check")
    BY <1>9 DEF Relabel, Enter
  <2>2. Short(segments') = {} /\ Mergeable(segments) = {}
    BY <1>1, <1>2, <2>1
  <2>3. op' \in {"op1c", "check"} /\ (op' = "check" => segments' = segments)
    BY <2>1
  <2>4. op' = "check" => Mergeable(segments') = {}
    BY <2>2, <2>3
  <2> QED
    BY <1>2, <2>1, <2>2, <2>3, <2>4 DEF GoalsInv
<1> QED
  BY <1>4, <1>5, <1>6, <1>7, <1>8, <1>9 DEF SmootherNext

\* So does every step of the pipeline.
LEMMA NextGoals ==
    ASSUME OrderInv, GoalsInv, [Next]_vars
    PROVE  GoalsInv'
<1>1. Ordered(segments)
  BY DEF OrderInv
<1>2. CASE TrackObjects
  BY <1>2 DEF TrackObjects, smootherVars, GoalsInv
<1>3. CASE DetectBoundaries
  <2>1. stage = "detect" /\ UNCHANGED <<op, pos, changed, ever>>
    BY <1>3, DetectStep
  <2> QED
    BY <2>1 DEF GoalsInv
<1>4. CASE LabelSegments
  <2>1. stage = "label" /\ UNCHANGED <<op, pos, changed, ever>>
    BY <1>4, LabelStep DEF smootherVars
  <2> QED
    BY <2>1 DEF GoalsInv
<1>5. CASE SmoothSegments
  <2>1. stage = "smooth"
    BY <1>5 DEF SmoothSegments
  <2>2. CASE SmootherNext
    BY <1>1, <2>1, <2>2, SmootherGoals
  <2>3. CASE CheckInvariants("done")
    <3>1. /\ UNCHANGED <<segments, op, pos, changed, ever>>
          /\ stage' \in {"done", "aborted"}
      BY <2>3 DEF CheckInvariants, smootherVars
    <3> QED
      BY <3>1 DEF GoalsInv
  <2> QED
    BY <1>5, <2>2, <2>3 DEF SmoothSegments
<1>6. CASE UNCHANGED vars
  BY <1>6 DEF vars, smootherVars, GoalsInv
<1> QED
  BY <1>2, <1>3, <1>4, <1>5, <1>6 DEF Next

\* Smoothing reaches both its goals whatever the labels and the lengths: no segment
\* stays short although Op 2 does not run again after Op 1 and Op 3, and no pair that
\* could have been merged is left.
THEOREM GoalsReached == Spec => []SmoothingReachesItsGoals
<1>1. OrderInv /\ GoalsInv /\ [Next]_vars => GoalsInv'
  BY NextGoals
<1>2. OrderInv /\ GoalsInv => SmoothingReachesItsGoals
  <2> SUFFICES ASSUME OrderInv, GoalsInv, Smoothed
               PROVE  /\ Len(segments) > 1 =>
                            \A k \in DOMAIN segments : Length(segments[k]) >= MinDuration
                      /\ Mergeable(segments) = {}
    BY DEF SmoothingReachesItsGoals
  <2>1. Short(segments) = {} /\ Mergeable(segments) = {}
    BY DEF GoalsInv, Smoothed
  <2>2. /\ DOMAIN segments = 1 .. Len(segments)
        /\ \A k \in 1 .. Len(segments) : Measured(segments[k])
    BY IsSeqHas DEF OrderInv, Ordered
  <2>3. ASSUME Len(segments) > 1, NEW k \in DOMAIN segments
        PROVE  Length(segments[k]) >= MinDuration
    <3>1. Length(segments[k]) \in Int /\ MinDuration \in Int
      BY <2>2, MinDurationAssumption DEF Measured, Length
    <3>2. ~(Length(segments[k]) < MinDuration)
      BY <2>1, <2>2, <2>3 DEF Short
    <3> QED
      BY <3>1, <3>2
  <2> QED
    BY <2>1, <2>3
<1> QED
  BY <1>1, <1>2, InitGoals, OrderIsInvariant, PTL DEF Spec

-----------------------------------------------------------------------------
(* What smoothing removed and kept. *)

\* Neighbours in order are in order with everything between them.
LEMMA OrderedThroughout ==
    ASSUME NEW s, Ordered(s)
    PROVE  \A k, l \in 1 .. Len(s) : k < l => s[k].right.time <= s[l].left.time
<1> SUFFICES ASSUME NEW k \in 1 .. Len(s)
             PROVE  \A l \in 1 .. Len(s) : k < l => s[k].right.time <= s[l].left.time
  OBVIOUS
<1> DEFINE T == {l \in 1 .. Len(s) : k < l /\ ~(s[k].right.time <= s[l].left.time)}
<1>1. Len(s) \in Nat /\ \A i \in 1 .. Len(s) : Measured(s[i])
  BY IsSeqHas DEF Ordered
<1>2. ASSUME T # {}
      PROVE  FALSE
  <2> DEFINE l == Min(T)
  <2>1. l \in T /\ \A x \in T : l <= x
    <3>1. T \in SUBSET Nat
      BY <1>1
    <3> HIDE DEF T
    <3> QED
      BY <1>2, <3>1, MinOf
  <2>2. l \in 1 .. Len(s) /\ k < l /\ ~(s[k].right.time <= s[l].left.time) /\ l - 1 \notin T
    <3>1. l \in 1 .. Len(s) /\ k < l /\ ~(s[k].right.time <= s[l].left.time)
      BY <2>1
    <3> HIDE DEF T, l
    <3>2. l - 1 \notin T
      BY <1>1, <2>1, <3>1
    <3> QED
      BY <3>1, <3>2
  <2> HIDE DEF l
  <2>3. /\ l - 1 \in 1 .. Len(s) - 1 /\ l - 1 \in 1 .. Len(s) /\ l - 1 + 1 = l
        /\ k \in Int /\ l \in Int
    BY <1>1, <2>2
  <2>4. s[l - 1].right.time <= s[l].left.time
    BY <2>3 DEF Ordered
  <2>5. CASE k = l - 1
    BY <2>2, <2>4, <2>5
  <2>6. CASE k # l - 1
    <3>1. k < l - 1
      BY <2>2, <2>3, <2>6
    <3>2. s[k].right.time <= s[l - 1].left.time
      BY <2>2, <2>3, <3>1
    <3>3. Measured(s[k]) /\ Measured(s[l]) /\ Measured(s[l - 1])
      BY <1>1, <2>2, <2>3
    <3> QED
      BY <2>2, <2>4, <3>2, <3>3 DEF Measured
  <2> QED
    BY <2>5, <2>6
<1> QED
  BY <1>2

\* The segments begin and end where those the labeler returned do, and what is
\* between two neighbours was between two neighbours then.
Seams(s, t) ==
    \A k \in 1 .. Len(t) - 1 : \E i \in 1 .. Len(s) - 1 :
        t[k].right = s[i].right /\ t[k + 1].left = s[i + 1].left

\* A part of two joined segments is a part of one of them.
LEMMA PartOfEither ==
    ASSUME NEW s, Ordered(s), NEW t, Ordered(t), Seams(s, t), NEW k \in 1 .. Len(t) - 1,
           NEW seg, Joins(seg, t[k], t[k + 1]), NEW part \in ToSet(s), Within(part, seg)
    PROVE  Within(part, t[k]) \/ Within(part, t[k + 1])
<1>1. PICK i \in 1 .. Len(s) - 1 : t[k].right = s[i].right /\ t[k + 1].left = s[i + 1].left
  BY DEF Seams
<1>2. Len(s) \in Nat /\ \A x \in 1 .. Len(s) : Measured(s[x])
  BY IsSeqHas DEF Ordered
<1>3. PICK x \in 1 .. Len(s) : part = s[x]
  BY IsSeqHas DEF ToSet, Ordered
<1>4. i \in 1 .. Len(s) /\ i + 1 \in 1 .. Len(s) /\ i \in Int /\ x \in Int
  BY <1>2
<1>5. seg.left = t[k].left /\ seg.right = t[k + 1].right
  BY DEF Joins
<1>6. /\ seg.left.time <= s[x].left.time /\ s[x].right.time <= seg.right.time
      /\ s[x].left.time \in Int /\ s[x].right.time \in Int /\ s[x].left.time < s[x].right.time
  BY <1>2, <1>3 DEF Within, Measured
<1>7. CASE x = i
  <2>1. t[k].left = seg.left /\ t[k].right = s[x].right
    BY <1>1, <1>5, <1>7
  <2> QED
    BY <1>3, <1>6, <2>1 DEF Within
<1>8. CASE x < i
  <2>1. s[x].right.time <= s[i].left.time
    BY <1>4, <1>8, OrderedThroughout
  <2>2. s[x].right.time <= s[i].right.time
    BY <1>2, <1>4, <1>6, <2>1 DEF Measured
  <2> QED
    BY <1>1, <1>3, <1>5, <1>6, <2>2 DEF Within
<1>9. CASE x = i + 1
  <2>1. t[k + 1].right = seg.right /\ t[k + 1].left = s[x].left
    BY <1>1, <1>5, <1>9
  <2> QED
    BY <1>3, <1>6, <2>1 DEF Within
<1>10. CASE x > i + 1
  <2>1. s[i + 1].right.time <= s[x].left.time
    BY <1>4, <1>10, OrderedThroughout
  <2>2. s[i + 1].left.time <= s[x].left.time
    BY <1>2, <1>4, <1>6, <2>1 DEF Measured
  <2> QED
    BY <1>1, <1>3, <1>5, <1>6, <2>2 DEF Within
<1> QED
  BY <1>4, <1>7, <1>8, <1>9, <1>10

\* The seams stay when two segments are joined ...
LEMMA JoinSeams ==
    ASSUME NEW s, NEW t, Ordered(t), Seams(s, t), NEW k \in 1 .. Len(t) - 1,
           NEW seg, Joins(seg, t[k], t[k + 1])
    PROVE  Seams(s, Replace(t, k, seg))
<1> DEFINE n == Len(t)
           u == Replace(t, k, seg)
<1>1. n \in Nat /\ k \in Int /\ 1 <= k /\ k <= n - 1
  BY IsSeqHas DEF Ordered
<1>2. /\ Len(u) = n - 1 /\ u[k] = seg
      /\ \A i \in 1 .. k - 1 : u[i] = t[i]
      /\ \A i \in k + 1 .. n - 1 : u[i] = t[i + 1]
  <2>1. IsSeq(t)
    BY DEF Ordered
  <2> QED
    BY <2>1, ReplaceIs
<1>3. \A i \in 1 .. n - 1 : \E j \in 1 .. Len(s) - 1 :
          t[i].right = s[j].right /\ t[i + 1].left = s[j + 1].left
  BY DEF Seams
<1> HIDE DEF u, n
<1>4. seg.left = t[k].left /\ seg.right = t[k + 1].right
  BY DEF Joins
<1>5. ASSUME NEW i \in 1 .. n - 1 - 1
      PROVE  \E x \in 1 .. n - 1 : u[i].right = t[x].right /\ u[i + 1].left = t[x + 1].left
  <2>1. CASE i < k - 1
    <3>1. i \in 1 .. k - 1 /\ i + 1 \in 1 .. k - 1 /\ i \in 1 .. n - 1
      BY <1>1, <2>1
    <3> QED
      BY <1>2, <3>1
  <2>2. CASE i = k - 1
    <3>1. i \in 1 .. k - 1 /\ i + 1 = k /\ i \in 1 .. n - 1
      BY <1>1, <2>2
    <3> QED
      BY <1>2, <1>4, <3>1
  <2>3. CASE i = k
    <3>1. i + 1 \in k + 1 .. n - 1 /\ i + 1 \in 1 .. n - 1
      BY <1>1, <2>3
    <3> QED
      BY <1>2, <1>4, <2>3, <3>1
  <2>4. CASE i > k
    <3>1. i \in k + 1 .. n - 1 /\ i + 1 \in k + 1 .. n - 1 /\ i + 1 \in 1 .. n - 1
      BY <1>1, <2>4
    <3> QED
      BY <1>2, <3>1
  <2> QED
    BY <1>1, <2>1, <2>2, <2>3, <2>4
<1>6. Seams(s, u)
  BY <1>2, <1>3, <1>5 DEF Seams
<1> QED
  BY <1>6 DEF u

\* ... and when they are relabelled.
LEMMA SameSeams ==
    ASSUME NEW s, NEW t, IsSeq(t), NEW u, Seams(s, t), SameCuts(t, u)
    PROVE  Seams(s, u)
<1> SUFFICES ASSUME NEW k \in 1 .. Len(u) - 1
             PROVE  \E i \in 1 .. Len(s) - 1 :
                        u[k].right = s[i].right /\ u[k + 1].left = s[i + 1].left
  BY DEF Seams
<1>1. Len(t) \in Nat /\ Len(u) = Len(t)
  BY IsSeqHas DEF SameCuts
<1>2. k \in 1 .. Len(t) - 1 /\ k \in 1 .. Len(t) /\ k + 1 \in 1 .. Len(t)
  BY <1>1
<1>3. u[k].right = t[k].right /\ u[k + 1].left = t[k + 1].left
  BY <1>2 DEF SameCuts
<1> QED
  BY <1>2, <1>3 DEF Seams

\* The cut is still there, or has gone because a segment next to it was short.
CutStays(t, cut) ==
    cut.sources \cap Preserve # {} =>
        \E k \in 1 .. Len(t) :
            \/ t[k].right = cut
            \/ /\ t[k].left.time < cut.time /\ cut.time < t[k].right.time
               /\ "merge_short" \in t[k].ops

\* The label is that of a part, and of all parts that were long enough.
LabelFrom(s, seg) ==
    \/ "viterbi_relabel" \in seg.ops
    \/ /\ \E part \in ToSet(s) : Within(part, seg) /\ part.phase = seg.phase
       /\ \A part \in ToSet(s) :
             Within(part, seg) /\ Length(part) >= MinDuration => part.phase = seg.phase

\* Confidences are rational numbers, where there are any.
Confident(s) ==
    \A k \in 1 .. Len(s) : s[k].vlm = NoConfidence \/ s[k].vlm \in Rational

\* The confidence is between those of two parts.
Given(s, seg) ==
    {part.vlm : part \in {p \in ToSet(s) : Within(p, seg)}} \ {NoConfidence}
ConfidenceFrom(s, seg) ==
    seg.vlm # NoConfidence =>
        /\ seg.vlm \in Rational
        /\ \E low \in Given(s, seg) : AtLeast(seg.vlm, low)
        /\ \E high \in Given(s, seg) : AtLeast(high, seg.vlm)

\* The segments t can be explained from the segments s.
Explained(s, t) ==
    /\ Seams(s, t)
    /\ \A k \in 1 .. Len(s) - 1 : CutStays(t, s[k].right)
    /\ \A k \in 1 .. Len(t) : LabelFrom(s, t[k]) /\ ConfidenceFrom(s, t[k])

\* As long as nothing is merged they explain themselves.
LEMMA ExplainedByItself ==
    ASSUME NEW s, Ordered(s), Confident(s)
    PROVE  Explained(s, s)
<1>1. Len(s) \in Nat /\ (\A k \in 1 .. Len(s) : Measured(s[k])) /\ IsSeq(s)
  BY IsSeqHas DEF Ordered
<1>2. Seams(s, s)
  BY DEF Seams
<1>3. ASSUME NEW k \in 1 .. Len(s) - 1
      PROVE  CutStays(s, s[k].right)
  <2>1. k \in 1 .. Len(s)
    BY <1>1
  <2> QED
    BY <2>1 DEF CutStays
<1>4. ASSUME NEW k \in 1 .. Len(s)
      PROVE  LabelFrom(s, s[k]) /\ ConfidenceFrom(s, s[k])
  <2>1. s[k] \in ToSet(s) /\ Within(s[k], s[k])
    BY <1>1, IsSeqHas DEF Within, Measured
  <2>2. ASSUME NEW part \in ToSet(s), Within(part, s[k])
        PROVE  part = s[k]
    <3>1. PICK x \in 1 .. Len(s) : part = s[x]
      BY <1>1, IsSeqHas DEF ToSet
    <3>2. Measured(s[x]) /\ Measured(s[k]) /\ x \in Int /\ k \in Int
      BY <1>1
    <3>3. CASE x < k
      <4>1. s[x].right.time <= s[k].left.time
        BY <3>3, OrderedThroughout
      <4> QED
        BY <2>2, <3>1, <3>2, <4>1 DEF Within, Measured
    <3>4. CASE k < x
      <4>1. s[k].right.time <= s[x].left.time
        BY <3>4, OrderedThroughout
      <4> QED
        BY <2>2, <3>1, <3>2, <4>1 DEF Within, Measured
    <3> QED
      BY <3>1, <3>2, <3>3, <3>4
  <2>3. LabelFrom(s, s[k])
    BY <2>1, <2>2 DEF LabelFrom
  <2>4. ASSUME s[k].vlm # NoConfidence
        PROVE  s[k].vlm \in Rational /\ s[k].vlm \in Given(s, s[k])
               /\ AtLeast(s[k].vlm, s[k].vlm)
    <3>1. s[k].vlm \in Rational
      BY <2>4 DEF Confident
    <3>2. s[k].vlm \in Given(s, s[k])
      BY <2>1, <2>4 DEF Given
    <3>3. AtLeast(s[k].vlm, s[k].vlm)
      BY <3>1, RationalIs, AtLeastIs
    <3> QED
      BY <3>1, <3>2, <3>3
  <2> QED
    BY <2>3, <2>4 DEF ConfidenceFrom
<1> QED
  BY <1>2, <1>3, <1>4 DEF Explained

\* What is within a segment is within what that is joined into, and is no longer.
LEMMA WithinJoined ==
    ASSUME NEW l, NEW r, Measured(l), Measured(r), l.right.time <= r.left.time,
           NEW seg, Joins(seg, l, r), NEW part, Measured(part)
    PROVE  /\ Within(part, l) \/ Within(part, r) => Within(part, seg)
           /\ Within(part, l) => Length(part) <= Length(l)
           /\ Within(part, r) => Length(part) <= Length(r)
           /\ Length(part) \in Int /\ Length(l) \in Int /\ Length(r) \in Int
<1>1. seg.left = l.left /\ seg.right = r.right
  BY DEF Joins
<1> QED
  BY <1>1 DEF Within, Measured, Length

\* A merge and an absorption can be explained if what they are given can.
LEMMA MergedLabel ==
    ASSUME NEW s, Ordered(s), NEW t, Ordered(t), Explained(s, t),
           NEW k \in 1 .. Len(t) - 1, NEW seg, Merges(seg, t[k], t[k + 1])
    PROVE  LabelFrom(s, seg)
<1> DEFINE l == t[k]
           r == t[k + 1]
<1>1. /\ Measured(l) /\ Measured(r) /\ l.right.time <= r.left.time
      /\ LabelFrom(s, l) /\ LabelFrom(s, r)
  <2>1. Len(t) \in Nat
    BY IsSeqHas DEF Ordered
  <2>2. k \in 1 .. Len(t) /\ k + 1 \in 1 .. Len(t)
    BY <2>1
  <2> QED
    BY <2>2 DEF Ordered, Explained
<1>2. \A part \in ToSet(s) : Measured(part)
  <2>1. \A part \in ToSet(s) : \E x \in 1 .. Len(s) : part = s[x]
    BY IsSeqHas DEF ToSet, Ordered
  <2> QED
    BY <2>1 DEF Ordered
<1>3. \A part \in ToSet(s) : Within(part, seg) => Within(part, l) \/ Within(part, r)
  BY PartOfEither DEF Explained, Merges
<1>4. /\ Joins(seg, l, r) /\ l.ops \subseteq seg.ops /\ r.ops \subseteq seg.ops
      /\ seg.phase = l.phase \/ seg.phase = r.phase
      /\ l.phase = seg.phase \/ Length(l) < MinDuration
      /\ r.phase = seg.phase \/ Length(r) < MinDuration
  BY DEF Merges
<1> HIDE DEF l, r
<1>5. CASE "viterbi_relabel" \in l.ops \/ "viterbi_relabel" \in r.ops
  BY <1>4, <1>5 DEF LabelFrom
<1>6. CASE ~("viterbi_relabel" \in l.ops \/ "viterbi_relabel" \in r.ops)
  <2>1. /\ \E part \in ToSet(s) : Within(part, l) /\ part.phase = l.phase
        /\ \A part \in ToSet(s) :
              Within(part, l) /\ Length(part) >= MinDuration => part.phase = l.phase
        /\ \E part \in ToSet(s) : Within(part, r) /\ part.phase = r.phase
        /\ \A part \in ToSet(s) :
              Within(part, r) /\ Length(part) >= MinDuration => part.phase = r.phase
    BY <1>1, <1>6 DEF LabelFrom
  <2>2. \E part \in ToSet(s) : Within(part, seg) /\ part.phase = seg.phase
    <3>1. CASE seg.phase = l.phase
      BY <1>1, <1>2, <1>4, <2>1, <3>1, WithinJoined
    <3>2. CASE seg.phase = r.phase
      BY <1>1, <1>2, <1>4, <2>1, <3>2, WithinJoined
    <3> QED
      BY <1>4, <3>1, <3>2
  <2>3. ASSUME NEW part \in ToSet(s), Within(part, seg), Length(part) >= MinDuration
        PROVE  part.phase = seg.phase
    <3>1. /\ Within(part, l) => Length(part) <= Length(l)
          /\ Within(part, r) => Length(part) <= Length(r)
          /\ Length(part) \in Int /\ Length(l) \in Int /\ Length(r) \in Int
          /\ MinDuration \in Int
      BY <1>1, <1>2, <1>4, WithinJoined, MinDurationAssumption
    <3>2. CASE Within(part, l)
      <4>1. part.phase = l.phase /\ ~(Length(l) < MinDuration)
        BY <2>1, <2>3, <3>1, <3>2
      <4> QED
        BY <1>4, <4>1
    <3>3. CASE Within(part, r)
      <4>1. part.phase = r.phase /\ ~(Length(r) < MinDuration)
        BY <2>1, <2>3, <3>1, <3>3
      <4> QED
        BY <1>4, <4>1
    <3> QED
      BY <1>3, <2>3, <3>2, <3>3
  <2> QED
    BY <2>2, <2>3 DEF LabelFrom
<1> QED
  BY <1>5, <1>6

\* The mean of two confidences is between those of parts of the two.
LEMMA MergedConfidence ==
    ASSUME NEW s, Ordered(s), Confident(s), NEW t, Ordered(t), Explained(s, t),
           NEW k \in 1 .. Len(t) - 1, NEW seg, Merges(seg, t[k], t[k + 1])
    PROVE  ConfidenceFrom(s, seg)
<1> DEFINE l == t[k]
           r == t[k + 1]
           m == Length(l)
           n == Length(r)
<1>1. /\ Measured(l) /\ Measured(r) /\ l.right.time <= r.left.time
      /\ ConfidenceFrom(s, l) /\ ConfidenceFrom(s, r)
  <2>1. Len(t) \in Nat
    BY IsSeqHas DEF Ordered
  <2>2. k \in 1 .. Len(t) /\ k + 1 \in 1 .. Len(t)
    BY <2>1
  <2> QED
    BY <2>2 DEF Ordered, Explained
<1>2. /\ \A part \in ToSet(s) : Measured(part)
      /\ \A part \in ToSet(s) : part.vlm = NoConfidence \/ part.vlm \in Rational
  <2>1. \A part \in ToSet(s) : \E x \in 1 .. Len(s) : part = s[x]
    BY IsSeqHas DEF ToSet, Ordered
  <2> QED
    BY <2>1 DEF Ordered, Confident
<1>3. Joins(seg, l, r) /\ seg.vlm = MeanConfidence(l, r)
  BY DEF Merges
<1>4. m \in Nat /\ m > 0 /\ n \in Nat /\ n > 0
  BY <1>1 DEF Measured, Length
<1> HIDE DEF l, r
<1>5. Given(s, l) \subseteq Given(s, seg) /\ Given(s, r) \subseteq Given(s, seg)
  <2>1. \A part \in ToSet(s) : Within(part, l) \/ Within(part, r) => Within(part, seg)
    BY <1>1, <1>2, <1>3, WithinJoined
  <2> QED
    BY <2>1 DEF Given
<1>6. Given(s, l) \subseteq Rational /\ Given(s, r) \subseteq Rational
  BY <1>2 DEF Given
<1>7. CASE l.vlm = NoConfidence
  <2>1. seg.vlm = r.vlm
    BY <1>3, <1>7 DEF MeanConfidence
  <2> QED
    BY <1>1, <1>5, <2>1 DEF ConfidenceFrom
<1>8. CASE l.vlm # NoConfidence /\ r.vlm = NoConfidence
  <2>1. seg.vlm = l.vlm
    BY <1>3, <1>8 DEF MeanConfidence
  <2> QED
    BY <1>1, <1>5, <2>1 DEF ConfidenceFrom
<1>9. CASE l.vlm # NoConfidence /\ r.vlm # NoConfidence
  <2> DEFINE x == l.vlm
             y == r.vlm
             q == Times(Plus(Times(<<m, 1>>, x), Times(<<n, 1>>, y)), <<1, m + n>>)
  <2>1. seg.vlm = q
    BY <1>3, <1>9 DEF MeanConfidence
  <2>2. x \in Rational /\ y \in Rational
    BY <1>1, <1>9 DEF ConfidenceFrom
  <2>3. PICK low \in Given(s, l), low2 \in Given(s, r) : AtLeast(x, low) /\ AtLeast(y, low2)
    BY <1>1, <1>9 DEF ConfidenceFrom
  <2>4. PICK high \in Given(s, l), high2 \in Given(s, r) : AtLeast(high, x) /\ AtLeast(high2, y)
    BY <1>1, <1>9 DEF ConfidenceFrom
  <2> HIDE DEF x, y, m, n
  <2>5. /\ q \in Rational
        /\ \A z \in Rational : AtLeast(x, z) /\ AtLeast(y, z) => AtLeast(q, z)
        /\ \A z \in Rational : AtLeast(z, x) /\ AtLeast(z, y) => AtLeast(z, q)
    BY <1>4, <2>2, MeanBetween
  <2> HIDE DEF q
  <2>6. AtLeast(x, x) /\ AtLeast(y, y) /\ (AtLeast(x, y) \/ AtLeast(y, x))
    BY <2>2, RationalIs, AtLeastIs
  <2>7. \A a, b, c \in Rational : AtLeast(a, b) /\ AtLeast(b, c) => AtLeast(a, c)
    BY RationalIs, AtLeastTransitive
  <2>8. low \in Rational /\ low2 \in Rational /\ high \in Rational /\ high2 \in Rational
    BY <1>6
  <2>9. AtLeast(q, low) \/ AtLeast(q, low2)
    <3>1. CASE AtLeast(x, y)
      <4>1. AtLeast(q, y)
        BY <2>2, <2>5, <2>6, <3>1
      <4> QED
        BY <2>2, <2>3, <2>5, <2>7, <2>8, <4>1
    <3>2. CASE AtLeast(y, x)
      <4>1. AtLeast(q, x)
        BY <2>2, <2>5, <2>6, <3>2
      <4> QED
        BY <2>2, <2>3, <2>5, <2>7, <2>8, <4>1
    <3> QED
      BY <2>6, <3>1, <3>2
  <2>10. AtLeast(high, q) \/ AtLeast(high2, q)
    <3>1. CASE AtLeast(x, y)
      <4>1. AtLeast(x, q)
        BY <2>2, <2>5, <2>6, <3>1
      <4> QED
        BY <2>2, <2>4, <2>5, <2>7, <2>8, <4>1
    <3>2. CASE AtLeast(y, x)
      <4>1. AtLeast(y, q)
        BY <2>2, <2>5, <2>6, <3>2
      <4> QED
        BY <2>2, <2>4, <2>5, <2>7, <2>8, <4>1
    <3> QED
      BY <2>6, <3>1, <3>2
  <2> QED
    BY <1>5, <2>1, <2>5, <2>9, <2>10 DEF ConfidenceFrom
<1> QED
  BY <1>7, <1>8, <1>9

\* So do the cuts.
LEMMA MergedCut ==
    ASSUME NEW t, Ordered(t), NEW k \in 1 .. Len(t) - 1,
           NEW seg, Merges(seg, t[k], t[k + 1]),
           NEW cut, cut.time \in Int, CutStays(t, cut)
    PROVE  CutStays(Replace(t, k, seg), cut)
<1> DEFINE n == Len(t)
           u == Replace(t, k, seg)
           l == t[k]
           r == t[k + 1]
           At(x) == \/ x.right = cut
                    \/ /\ x.left.time < cut.time /\ cut.time < x.right.time
                       /\ "merge_short" \in x.ops
<1>1. /\ n \in Nat /\ k \in Int /\ 1 <= k /\ k <= n - 1
      /\ k \in 1 .. n /\ k + 1 \in 1 .. n
  BY IsSeqHas DEF Ordered
<1>2. /\ Len(u) = n - 1 /\ u[k] = seg
      /\ \A i \in 1 .. k - 1 : u[i] = t[i]
      /\ \A i \in k + 1 .. n - 1 : u[i] = t[i + 1]
  <2>1. IsSeq(t)
    BY DEF Ordered
  <2> QED
    BY <2>1, ReplaceIs
<1>3. Measured(l) /\ Measured(r) /\ l.right.time <= r.left.time
  BY <1>1 DEF Ordered
<1>4. /\ seg.left = l.left /\ seg.right = r.right
      /\ l.ops \subseteq seg.ops /\ r.ops \subseteq seg.ops
      /\ "merge_short" \in seg.ops \/ ~Preserved(l, r)
  BY DEF Merges, Joins
<1> SUFFICES ASSUME cut.sources \cap Preserve # {}
             PROVE  \E i \in 1 .. n - 1 : At(u[i])
  BY <1>2 DEF CutStays
<1>5. PICK x \in 1 .. n : At(t[x])
  BY DEF CutStays
<1> HIDE DEF u, n
<1>6. CASE x \in 1 .. k - 1
  <2>1. u[x] = t[x] /\ x \in 1 .. n - 1
    BY <1>1, <1>2, <1>6
  <2> QED
    BY <1>5, <2>1
<1>7. CASE x \in k + 2 .. n
  <2>1. x - 1 \in k + 1 .. n - 1 /\ x - 1 \in 1 .. n - 1 /\ x - 1 + 1 = x
    BY <1>1, <1>7
  <2>2. u[x - 1] = t[x]
    BY <1>2, <2>1
  <2> QED
    BY <1>5, <2>1, <2>2
<1>8. At(r) => At(seg)
  <2> HIDE DEF l, r
  <2>1. CASE r.right = cut
    BY <1>4, <2>1
  <2>2. CASE r.left.time < cut.time /\ cut.time < r.right.time /\ "merge_short" \in r.ops
    <3>1. seg.left.time < cut.time
      BY <1>3, <1>4, <2>2 DEF Measured
    <3>2. cut.time < seg.right.time /\ "merge_short" \in seg.ops
      BY <1>4, <2>2
    <3> QED
      BY <3>1, <3>2
  <2> QED
    BY <2>1, <2>2
<1>9. At(l) => At(seg)
  <2> HIDE DEF l, r
  <2>1. CASE l.right = cut
    <3>1. "merge_short" \in seg.ops
      BY <1>4, <2>1 DEF Preserved
    <3>2. seg.left.time < cut.time /\ cut.time < seg.right.time
      BY <1>3, <1>4, <2>1 DEF Measured
    <3> QED
      BY <3>1, <3>2
  <2>2. CASE l.left.time < cut.time /\ cut.time < l.right.time /\ "merge_short" \in l.ops
    <3>1. seg.left.time < cut.time /\ "merge_short" \in seg.ops
      BY <1>4, <2>2
    <3>2. cut.time < seg.right.time
      BY <1>3, <1>4, <2>2 DEF Measured
    <3> QED
      BY <3>1, <3>2
  <2> QED
    BY <2>1, <2>2
<1>10. CASE x = k \/ x = k + 1
  <2>1. At(seg)
    BY <1>5, <1>8, <1>9, <1>10
  <2>2. k \in 1 .. n - 1
    BY <1>1
  <2> QED
    BY <1>2, <2>1, <2>2
<1>11. x \in 1 .. k - 1 \/ x \in k + 2 .. n \/ x = k \/ x = k + 1
  BY <1>1
<1> QED
  BY <1>6, <1>7, <1>10, <1>11

\* Merging and absorbing can be explained ...
LEMMA MergedExplained ==
    ASSUME NEW s, Ordered(s), Confident(s), NEW t, Ordered(t), Explained(s, t),
           NEW k \in 1 .. Len(t) - 1, NEW seg, Merges(seg, t[k], t[k + 1])
    PROVE  Explained(s, Replace(t, k, seg))
<1> DEFINE u == Replace(t, k, seg)
<1>1. Len(t) \in Nat /\ Len(s) \in Nat /\ IsSeq(t) /\ k \in Int /\ 1 <= k /\ k <= Len(t) - 1
  BY IsSeqHas DEF Ordered
<1>2. /\ Len(u) = Len(t) - 1 /\ u[k] = seg
      /\ \A i \in 1 .. k - 1 : u[i] = t[i]
      /\ \A i \in k + 1 .. Len(t) - 1 : u[i] = t[i + 1]
  BY <1>1, ReplaceIs
<1>3. Seams(s, u)
  BY JoinSeams DEF Explained, Merges
<1>4. ASSUME NEW i \in 1 .. Len(s) - 1
      PROVE  CutStays(u, s[i].right)
  <2>1. i \in 1 .. Len(s)
    BY <1>1
  <2>2. s[i].right.time \in Int
    BY <2>1 DEF Ordered, Measured
  <2> QED
    BY <2>2, MergedCut DEF Explained
<1> HIDE DEF u
<1>5. ASSUME NEW i \in 1 .. Len(u)
      PROVE  LabelFrom(s, u[i]) /\ ConfidenceFrom(s, u[i])
  <2>1. CASE i \in 1 .. k - 1
    <3>1. u[i] = t[i] /\ i \in 1 .. Len(t)
      BY <1>1, <1>2, <2>1
    <3> QED
      BY <3>1 DEF Explained
  <2>2. CASE i = k
    BY <1>2, <2>2, MergedLabel, MergedConfidence
  <2>3. CASE i \in k + 1 .. Len(t) - 1
    <3>1. u[i] = t[i + 1] /\ i + 1 \in 1 .. Len(t)
      BY <1>1, <1>2, <2>3
    <3> QED
      BY <3>1 DEF Explained
  <2> QED
    BY <1>1, <1>2, <2>1, <2>2, <2>3
<1>6. Explained(s, u)
  BY <1>3, <1>4, <1>5 DEF Explained
<1> QED
  BY <1>6 DEF u

\* ... and so can relabelling.
LEMMA RelabelledExplained ==
    ASSUME NEW s, Ordered(s), NEW t, Ordered(t), Explained(s, t), NEW labels
    PROVE  Explained(s, [k \in DOMAIN t |-> Relabelled(t[k], labels[k])])
<1> DEFINE u == [k \in DOMAIN t |-> Relabelled(t[k], labels[k])]
<1>1. /\ SameCuts(t, u)
      /\ \A k \in 1 .. Len(t) : /\ u[k].vlm = t[k].vlm /\ t[k].ops \subseteq u[k].ops
                                /\ u[k] = t[k] \/ "viterbi_relabel" \in u[k].ops
  BY RelabelIs
<1> HIDE DEF u
<1>2. /\ Len(u) = Len(t)
      /\ \A k \in 1 .. Len(t) : u[k].left = t[k].left /\ u[k].right = t[k].right
  BY <1>1 DEF SameCuts
<1>3. Seams(s, u)
  BY <1>1, SameSeams DEF Explained, Ordered
<1>4. ASSUME NEW i \in 1 .. Len(s) - 1
      PROVE  CutStays(u, s[i].right)
  <2> DEFINE cut == s[i].right
  <2>1. CutStays(t, cut)
    BY DEF Explained
  <2> HIDE DEF cut
  <2>2. CutStays(u, cut)
    BY <1>1, <1>2, <2>1 DEF CutStays
  <2> QED
    BY <2>2 DEF cut
<1>5. ASSUME NEW i \in 1 .. Len(u)
      PROVE  LabelFrom(s, u[i]) /\ ConfidenceFrom(s, u[i])
  <2>1. /\ LabelFrom(s, t[i]) /\ ConfidenceFrom(s, t[i]) /\ u[i].vlm = t[i].vlm
        /\ u[i] = t[i] \/ "viterbi_relabel" \in u[i].ops
        /\ u[i].left = t[i].left /\ u[i].right = t[i].right
    BY <1>1, <1>2 DEF Explained
  <2>2. Given(s, u[i]) = Given(s, t[i])
    BY <2>1 DEF Given, Within
  <2> QED
    BY <2>1, <2>2 DEF LabelFrom, ConfidenceFrom
<1>6. Explained(s, u)
  BY <1>3, <1>4, <1>5 DEF Explained
<1> QED
  BY <1>6 DEF u

\* The confidences are rational as long as the labeler runs.
ConfidentInv ==
    stage \in {"track", "detect", "label"} => Confident(segments) /\ Confident(baseline)

\* While the smoother runs and when it has checked the result, the segments can be
\* explained from what the labeler returned.
ExplainInv ==
    stage = "smooth" \/ op = "check" =>
        Ordered(labelled) /\ Confident(labelled) /\ Explained(labelled, segments)

\* The smoother has not begun, and there is no confidence.
LEMMA InitExplain == Init => ConfidentInv /\ ExplainInv
<1> SUFFICES ASSUME Init
             PROVE  ConfidentInv /\ ExplainInv
  OBVIOUS
<1>1. segments = <<>> /\ baseline = <<>> /\ op = "op1" /\ stage # "smooth"
  BY DEF Init, SmootherInit, LabelerInit
<1>2. Confident(<<>>)
  BY DEF Confident
<1> QED
  BY <1>1, <1>2 DEF ConfidentInv, ExplainInv

\* The model answers with rational numbers, and the fallback is one.
LEMMA NextConfident ==
    ASSUME OrderInv, ConfidentInv, [Next]_vars
    PROVE  ConfidentInv'
<1>1. Ordered(segments) /\ Ordered(baseline) /\ idx \in Nat \ {0} /\ Len(segments) \in Nat
  BY IsSeqHas DEF OrderInv, Ordered
<1>2. CASE TrackObjects
  BY <1>2 DEF TrackObjects, labelerVars, ConfidentInv
<1>3. CASE DetectBoundaries
  <2>1. PICK E, up : Events(E) /\ segments' = Bracket(Edges(E, up))
    BY <1>3, DetectStep
  <2>2. baseline' = segments'
    BY <1>3, DetectStep
  <2>3. Confident(Bracket(Edges(E, up)))
    BY <2>1, BracketIs DEF Confident
  <2> QED
    BY <2>1, <2>2, <2>3 DEF ConfidentInv
<1>4. CASE LabelSegments
  <2>1. /\ stage = "label" /\ baseline' = baseline
        /\ Degrades \/ LabelsOne \/ Stays \/ EndsLabeled
    BY <1>4, LabelStep
  <2>2. Confident(segments) /\ Confident(baseline)
    BY <2>1 DEF ConfidentInv
  <2>3. CASE LabelsOne
    <3>1. /\ Len(segments') = Len(segments) /\ segments'[idx].vlm \in Rational
          /\ \A k \in 1 .. Len(segments) : k # idx => segments'[k] = segments[k]
      BY <1>1, <2>3, LabelsOneKeeps DEF SameCuts
    <3>2. ASSUME NEW k \in 1 .. Len(segments)
          PROVE  segments'[k].vlm = NoConfidence \/ segments'[k].vlm \in Rational
      BY <2>2, <3>1 DEF Confident
    <3>3. Confident(segments')
      BY <3>1, <3>2 DEF Confident
    <3> QED
      BY <2>1, <2>2, <3>3 DEF ConfidentInv
  <2> QED
    BY <2>1, <2>2, <2>3 DEF Degrades, Stays, EndsLabeled, ConfidentInv
<1>5. CASE SmoothSegments
  <2>1. stage' \in {"smooth", "done", "aborted"}
    BY <1>5 DEF SmoothSegments, SmootherNext, CheckInvariants
  <2> QED
    BY <2>1 DEF ConfidentInv
<1>6. CASE UNCHANGED vars
  BY <1>6 DEF vars, labelerVars, ConfidentInv
<1> QED
  BY <1>2, <1>3, <1>4, <1>5, <1>6 DEF Next

\* Every step keeps it.
LEMMA NextExplain ==
    ASSUME OrderInv, GoalsInv, ConfidentInv, ExplainInv, [Next]_vars
    PROVE  ExplainInv'
<1>1. Ordered(segments) /\ Ordered(baseline) /\ idx \in Nat \ {0}
      /\ (stage \in {"track", "detect", "label"} => op = "op1")
  BY DEF OrderInv, GoalsInv
<1>2. CASE TrackObjects
  BY <1>1, <1>2 DEF TrackObjects, smootherVars, ExplainInv
<1>3. CASE DetectBoundaries
  <2>1. stage = "detect" /\ stage' \in {"label", "done"} /\ op' = op
    BY <1>3, DetectStep
  <2> QED
    BY <1>1, <2>1 DEF ExplainInv
<1>4. CASE LabelSegments
  <2>1. /\ stage = "label" /\ op' = op
        /\ Degrades \/ LabelsOne \/ Stays \/ EndsLabeled
    BY <1>4, LabelStep DEF smootherVars
  <2>2. CASE Degrades \/ EndsLabeled
    <3>1. labelled' = segments' /\ Ordered(segments') /\ Confident(segments')
      BY <1>1, <2>1, <2>2 DEF Degrades, EndsLabeled, ConfidentInv
    <3> QED
      BY <3>1, ExplainedByItself DEF ExplainInv
  <2>3. CASE LabelsOne \/ Stays
    BY <1>1, <2>1, <2>3 DEF LabelsOne, Stays, ExplainInv
  <2> QED
    BY <2>1, <2>2, <2>3
<1>5. CASE SmoothSegments
  <2>1. /\ stage = "smooth" /\ labelled' = labelled
        /\ Ordered(labelled) /\ Confident(labelled) /\ Explained(labelled, segments)
    BY <1>5 DEF SmoothSegments, labelerVars, ExplainInv
  <2>2. CASE UNCHANGED segments
    BY <2>1, <2>2 DEF ExplainInv
  <2>3. CASE JoinsTwo
    <3>1. PICK k \in 1 .. Len(segments) - 1 : \E seg :
              /\ Merges(seg, segments[k], segments[k + 1])
              /\ segments' = Replace(segments, k, seg)
      BY <2>3 DEF JoinsTwo
    <3>2. PICK seg : /\ Merges(seg, segments[k], segments[k + 1])
                     /\ segments' = Replace(segments, k, seg)
      BY <3>1
    <3>3. Explained(labelled, Replace(segments, k, seg))
      BY <1>1, <2>1, <3>2, MergedExplained
    <3> QED
      BY <2>1, <3>2, <3>3 DEF ExplainInv
  <2>4. CASE \E labels : segments' = [k \in DOMAIN segments |->
                                         Relabelled(segments[k], labels[k])]
    <3>1. PICK labels : segments' = [k \in DOMAIN segments |->
                                        Relabelled(segments[k], labels[k])]
      BY <2>4
    <3>2. Explained(labelled, [k \in DOMAIN segments |-> Relabelled(segments[k], labels[k])])
      BY <1>1, <2>1, RelabelledExplained
    <3> QED
      BY <2>1, <3>1, <3>2 DEF ExplainInv
  <2>5. SmootherNext => \/ UNCHANGED segments \/ JoinsTwo
                        \/ \E labels : segments' = [k \in DOMAIN segments |->
                                                       Relabelled(segments[k], labels[k])]
    BY <1>1, SmoothStep DEF SmootherNext, Ordered
  <2>6. CheckInvariants("done") => UNCHANGED segments
    BY DEF CheckInvariants
  <2> QED
    BY <1>5, <2>2, <2>3, <2>4, <2>5, <2>6 DEF SmoothSegments
<1>6. CASE UNCHANGED vars
  BY <1>6 DEF vars, labelerVars, smootherVars, ExplainInv
<1> QED
  BY <1>2, <1>3, <1>4, <1>5, <1>6 DEF Next

\* What smoothing removed and kept can be explained: a preserved cut goes only next to
\* a short segment, only Viterbi decoding, which the segment then names, gives a label
\* that the model did not, and a confidence lies between those of the parts.
THEOREM ResultExplained == Spec => []SmoothingExplained
<1>1. OrderInv /\ GoalsInv /\ [Next]_vars => GoalsInv'
  BY NextGoals
<1>2. OrderInv /\ ConfidentInv /\ [Next]_vars => ConfidentInv'
  BY NextConfident
<1>3. OrderInv /\ GoalsInv /\ ConfidentInv /\ ExplainInv /\ [Next]_vars => ExplainInv'
  BY NextExplain
<1>4. OrderInv /\ ExplainInv => SmoothingExplained
  <2> SUFFICES ASSUME OrderInv, ExplainInv, Smoothed
               PROVE  /\ \A k \in 1 .. Len(labelled) - 1 :
                            PreservedCutStays(labelled[k].right)
                      /\ \A seg \in ToSet(segments) :
                            LabelExplained(seg) /\ ConfidenceExplained(seg)
    BY DEF SmoothingExplained
  <2>1. Explained(labelled, segments) /\ IsSeq(segments)
    BY DEF ExplainInv, Smoothed, OrderInv, Ordered
  <2>2. ASSUME NEW k \in 1 .. Len(labelled) - 1
        PROVE  PreservedCutStays(labelled[k].right)
    <3> DEFINE cut == labelled[k].right
    <3>1. CutStays(segments, cut)
      BY <2>1 DEF Explained
    <3>2. \A x \in 1 .. Len(segments) : segments[x] \in ToSet(segments)
      BY <2>1, IsSeqHas
    <3> HIDE DEF cut
    <3>3. PreservedCutStays(cut)
      BY <3>1, <3>2 DEF CutStays, PreservedCutStays
    <3> QED
      BY <3>3 DEF cut
  <2>3. ASSUME NEW seg \in ToSet(segments)
        PROVE  LabelExplained(seg) /\ ConfidenceExplained(seg)
    <3>1. PICK x \in 1 .. Len(segments) : seg = segments[x]
      BY <2>1, IsSeqHas DEF ToSet
    <3>2. LabelFrom(labelled, seg) /\ ConfidenceFrom(labelled, seg)
      BY <2>1, <3>1 DEF Explained
    <3>3. LabelExplained(seg)
      BY <3>2 DEF LabelFrom, LabelExplained
    <3>4. ConfidenceExplained(seg)
      BY <3>2 DEF ConfidenceFrom, Given, AtLeast, ConfidenceExplained
    <3> QED
      BY <3>3, <3>4
  <2> QED
    BY <2>2, <2>3
<1> QED
  BY <1>1, <1>2, <1>3, <1>4, InitGoals, InitExplain, OrderIsInvariant, PTL DEF Spec

-----------------------------------------------------------------------------
(* Sums of rational numbers. *)

\* Greater summands have a greater sum.
LEMMA PlusKeeps ==
    ASSUME NEW x, NEW y, NEW u, NEW v,
           x \in Rational, y \in Rational, u \in Rational, v \in Rational,
           AtLeast(x, u), AtLeast(y, v)
    PROVE  AtLeast(Plus(x, y), Plus(u, v))
<1> DEFINE p == Plus(x, y)
           q == Plus(u, v)
           m == u[1] * v[2]
           n == v[1] * u[2]
           f == u[2] * v[2]
<1>1. /\ IsRational(p) /\ IsRational(q) /\ IsRational(x) /\ IsRational(y)
      /\ IsRational(u) /\ IsRational(v)
      /\ q[1] * f = (m + n) * q[2]
  BY PlusIs
<1>2. /\ m \in Int /\ n \in Int /\ f \in Nat /\ f > 0
      /\ p[1] \in Int /\ p[2] \in Nat /\ p[2] > 0
      /\ q[1] \in Int /\ q[2] \in Nat /\ q[2] > 0
  BY <1>1 DEF IsRational
<1>3. 1 * (m * x[2]) <= 1 * (x[1] * f)
  <2> DEFINE a == x[1]
             b == x[2]
             c == u[1]
             d == u[2]
             e == v[2]
  <2>1. /\ a \in Int /\ b \in Nat /\ c \in Int /\ d \in Nat /\ e \in Nat
        /\ c * b <= a * d
    BY <1>1, AtLeastIs DEF IsRational
  <2> HIDE DEF a, b, c, d, e
  <2>2. (c * b) * e <= (a * d) * e
    BY <2>1, TimesKeeps
  <2>3. (c * b) * e = (c * e) * b /\ (a * d) * e = a * (d * e)
    BY <2>1
  <2>4. (c * e) * b <= a * (d * e) /\ (c * e) * b \in Int /\ a * (d * e) \in Int
    BY <2>1, <2>2, <2>3
  <2>5. (c * e) * b = 1 * ((c * e) * b) /\ a * (d * e) = 1 * (a * (d * e))
    BY <2>4
  <2> QED
    BY <2>4, <2>5 DEF a, b, c, d, e
<1>4. 1 * (n * y[2]) <= 1 * (y[1] * f)
  <2> DEFINE a == y[1]
             b == y[2]
             c == v[1]
             d == v[2]
             e == u[2]
  <2>1. /\ a \in Int /\ b \in Nat /\ c \in Int /\ d \in Nat /\ e \in Nat
        /\ c * b <= a * d
    BY <1>1, AtLeastIs DEF IsRational
  <2> HIDE DEF a, b, c, d, e
  <2>2. (c * b) * e <= (a * d) * e
    BY <2>1, TimesKeeps
  <2>3. (c * b) * e = (c * e) * b /\ (a * d) * e = a * (e * d)
    BY <2>1
  <2>4. (c * e) * b <= a * (e * d) /\ (c * e) * b \in Int /\ a * (e * d) \in Int
    BY <2>1, <2>2, <2>3
  <2>5. (c * e) * b = 1 * ((c * e) * b) /\ a * (e * d) = 1 * (a * (e * d))
    BY <2>4
  <2> QED
    BY <2>4, <2>5 DEF a, b, c, d, e
<1>5. 1 * ((m + n) * p[2]) <= 1 * (p[1] * f)
  <2> HIDE DEF m, n, f
  <2> QED
    BY <1>2, <1>3, <1>4, SumBound DEF p
<1>6. q[1] * p[2] <= p[1] * q[2]
  <2> DEFINE a == p[1]
             b == p[2]
             c == q[1]
             d == q[2]
  <2>1. /\ a \in Int /\ b \in Nat /\ c \in Int /\ d \in Nat
        /\ c * f = (m + n) * d /\ 1 * ((m + n) * b) <= 1 * (a * f)
    BY <1>1, <1>2, <1>5
  <2> HIDE DEF a, b, c, d, m, n, f
  <2>2. (m + n) * b <= a * f /\ (m + n) * b \in Int /\ a * f \in Int
    BY <1>2, <2>1
  <2>3. ((m + n) * b) * d <= (a * f) * d
    BY <2>1, <2>2, TimesKeeps
  <2>4. ((m + n) * b) * d = (c * f) * b /\ (a * f) * d = (a * d) * f
    BY <1>2, <2>1
  <2>5. (c * b) * f = (c * f) * b
    BY <1>2, <2>1
  <2>6. (c * b) * f <= (a * d) * f
    BY <2>3, <2>4, <2>5
  <2>7. c * b \in Int /\ a * d \in Int
    BY <2>1
  <2>8. c * b <= a * d
    BY <1>2, <2>6, <2>7, CancelTimes
  <2> QED
    BY <2>8 DEF a, b, c, d
<1> QED
  BY <1>1, <1>6, AtLeastIs DEF p, q

\* Zero adds nothing.
LEMMA PlusZero ==
    ASSUME NEW x, x \in Rational
    PROVE  /\ Zero \in Rational
           /\ AtLeast(Plus(Zero, x), x) /\ AtLeast(x, Plus(Zero, x))
           /\ AtLeast(Plus(x, Zero), x) /\ AtLeast(x, Plus(x, Zero))
<1>1. Zero \in Rational /\ Zero[1] = 0 /\ Zero[2] = 1
  BY DEF Zero, Rational
<1>2. ASSUME NEW p, IsRational(p), IsRational(x), p[1] * x[2] = x[1] * p[2]
      PROVE  AtLeast(p, x) /\ AtLeast(x, p)
  <2>1. p[1] * x[2] \in Int /\ x[1] * p[2] \in Int
    BY <1>2 DEF IsRational
  <2> QED
    BY <1>2, <2>1, AtLeastIs
<1>3. IsRational(x) /\ x[1] \in Int /\ x[2] \in Nat
  BY RationalIs DEF IsRational
<1>4. /\ IsRational(Plus(Zero, x))
      /\ Plus(Zero, x)[1] * (Zero[2] * x[2]) = (Zero[1] * x[2] + x[1] * Zero[2]) * Plus(Zero, x)[2]
  BY <1>1, PlusIs
<1>5. /\ IsRational(Plus(x, Zero))
      /\ Plus(x, Zero)[1] * (x[2] * Zero[2]) = (x[1] * Zero[2] + Zero[1] * x[2]) * Plus(x, Zero)[2]
  BY <1>1, PlusIs
<1>6. /\ Zero[2] * x[2] = x[2] /\ Zero[1] * x[2] + x[1] * Zero[2] = x[1]
      /\ x[2] * Zero[2] = x[2] /\ x[1] * Zero[2] + Zero[1] * x[2] = x[1]
  BY <1>1, <1>3
<1>7. /\ Plus(Zero, x)[1] * x[2] = x[1] * Plus(Zero, x)[2]
      /\ Plus(x, Zero)[1] * x[2] = x[1] * Plus(x, Zero)[2]
  BY <1>4, <1>5, <1>6
<1>8. AtLeast(Plus(Zero, x), x) /\ AtLeast(x, Plus(Zero, x))
  BY <1>2, <1>3, <1>4, <1>7
<1>9. AtLeast(Plus(x, Zero), x) /\ AtLeast(x, Plus(x, Zero))
  BY <1>2, <1>3, <1>5, <1>7
<1> QED
  BY <1>1, <1>8, <1>9

-----------------------------------------------------------------------------
(* The order of the keys, and the first best of them. *)

\* The parts of a key.
LEMMA KeyIs ==
    ASSUME NEW a, a \in Key
    PROVE  a[1] \in Rational /\ IsRational(a[1]) /\ a[2] \in Int /\ a[3] \in Int /\ a[4] \in Int
<1>1. a[1] \in Rational /\ a[2] \in Int /\ a[3] \in Int /\ a[4] \in Int
  BY DEF Key
<1> QED
  BY <1>1, RationalIs

\* The order is one: of two keys only one is less than the other ...
LEMMA KeyAsymmetric ==
    ASSUME NEW a, NEW b, a \in Key, b \in Key, KeyLess(a, b)
    PROVE  ~KeyLess(b, a)
<1>1. /\ a[2] \in Int /\ a[3] \in Int /\ a[4] \in Int
      /\ b[2] \in Int /\ b[3] \in Int /\ b[4] \in Int
      /\ IsRational(a[1]) /\ IsRational(b[1])
  BY KeyIs
<1>2. ~Less(a[1], b[1]) \/ ~Less(b[1], a[1])
  BY <1>1, AtLeastIs DEF AtLeast
<1> QED
  BY <1>1, <1>2 DEF KeyLess

\* ... and a third one is above the less or below the greater.
LEMMA KeyBetween ==
    ASSUME NEW a, NEW b, NEW c, a \in Key, b \in Key, c \in Key, KeyLess(a, c)
    PROVE  KeyLess(a, b) \/ KeyLess(b, c)
<1>1. /\ a[2] \in Int /\ a[3] \in Int /\ a[4] \in Int
      /\ b[2] \in Int /\ b[3] \in Int /\ b[4] \in Int
      /\ c[2] \in Int /\ c[3] \in Int /\ c[4] \in Int
      /\ IsRational(a[1]) /\ IsRational(b[1]) /\ IsRational(c[1])
  BY KeyIs
<1>2. ASSUME NEW x, NEW y, NEW z, IsRational(x), IsRational(y), IsRational(z),
             ~Less(x, y), ~Less(y, z)
      PROVE  ~Less(x, z)
  BY <1>2, AtLeastTransitive DEF AtLeast
<1>3. /\ Less(a[1], c[1]) => Less(a[1], b[1]) \/ Less(b[1], c[1])
      /\ ~Less(c[1], a[1]) /\ Less(b[1], a[1]) => Less(b[1], c[1])
      /\ ~Less(c[1], a[1]) /\ Less(c[1], b[1]) => Less(a[1], b[1])
  BY <1>1, <1>2
<1> QED
  BY <1>1, <1>3 DEF KeyLess

\* A key that is not less has no lower score.
LEMMA ScoreDecides ==
    ASSUME NEW a, NEW b, a \in Key, b \in Key, ~KeyLess(a, b)
    PROVE  AtLeast(a[1], b[1])
  BY DEF KeyLess, AtLeast

\* The states the decoder knows: the labels, and one for no label.
LEMMA StatesAre ==
    /\ DOMAIN States = 1 .. Len(States) /\ Len(States) \in Nat \ {0}
    /\ \A q \in DOMAIN States : States[q] \in ToSet(Labelset) \cup {"unknown"}
<1> DEFINE S == ToSet(Labelset) \cup {"unknown"}
<1>1. Labelset \in Seq(STRING)
  BY StatesAssumption
<1>2. Len(Labelset) \in Nat /\ \A q \in 1 .. Len(Labelset) : Labelset[q] \in ToSet(Labelset)
  BY <1>1, LenProperties DEF ToSet
<1>3. /\ States \in Seq(S) /\ Len(States) = Len(Labelset) + 1
      /\ States[Len(Labelset) + 1] = "unknown"
      /\ \A q \in 1 .. Len(Labelset) : States[q] = Labelset[q]
  <2>1. Labelset \in [1 .. Len(Labelset) -> S]
    BY <1>1, <1>2, LenProperties
  <2>2. Labelset \in Seq(S) /\ "unknown" \in S
    BY <1>2, <2>1, SeqDef
  <2> HIDE DEF S
  <2> QED
    BY <2>2, AppendProperties DEF States
<1>4. DOMAIN States = 1 .. Len(States)
  BY <1>3, LenProperties
<1> QED
  BY <1>2, <1>3, <1>4

\* The first best state is one that no other exceeds.
LEMMA FirstBestIs ==
    ASSUME NEW keys, keys \in [DOMAIN States -> Key]
    PROVE  LET q == FirstBest[keys]
           IN  /\ q \in DOMAIN States
               /\ \A r \in DOMAIN States : AtLeast(keys[q][1], keys[r][1])
<1> DEFINE n == Len(States)
           First(q, m) ==
               /\ q \in 1 .. m
               /\ \A r \in 1 .. m : ~KeyLess(keys[q], keys[r])
               /\ \A r \in 1 .. m : r < q => KeyLess(keys[r], keys[q])
           T == {m \in 1 .. n : ~\E q \in 1 .. m : First(q, m)}
<1>1. DOMAIN States = 1 .. n /\ n \in Nat /\ n # 0 /\ \A r \in 1 .. n : keys[r] \in Key
  BY StatesAre
<1>2. ASSUME T # {}
      PROVE  FALSE
  <2> DEFINE m == Min(T)
  <2>1. m \in T /\ \A x \in T : m <= x
    <3> HIDE DEF First
    <3>1. T \in SUBSET Nat
      BY <1>1
    <3> HIDE DEF T
    <3> QED
      BY <1>2, <3>1, MinOf
  <2>2. m \in 1 .. n /\ ~\E q \in 1 .. m : First(q, m)
    BY <2>1
  <2> HIDE DEF m
  <2>3. CASE m = 1
    <3>1. ~KeyLess(keys[1], keys[1])
      BY <1>1, KeyAsymmetric
    <3>2. First(1, 1)
      BY <3>1
    <3> HIDE DEF First
    <3> QED
      BY <2>2, <2>3, <3>2
  <2>4. CASE m # 1
    <3>1. m - 1 \in 1 .. n /\ m - 1 \notin T
      <4>1. m - 1 \in 1 .. n /\ ~(m <= m - 1)
        BY <1>1, <2>2, <2>4
      <4> HIDE DEF T
      <4> QED
        BY <2>1, <4>1
    <3>2. PICK q \in 1 .. m - 1 : First(q, m - 1)
      <4> HIDE DEF First
      <4> QED
        BY <3>1
    <3>3. \A r \in 1 .. m : r \in 1 .. n /\ (r \in 1 .. m - 1 \/ r = m)
      BY <1>1, <2>2
    <3>4. q \in 1 .. m /\ m \in 1 .. m
      BY <2>2, <2>4
    <3>5. CASE KeyLess(keys[q], keys[m])
      <4>1. ASSUME NEW r \in 1 .. m - 1
            PROVE  KeyLess(keys[r], keys[m])
        <5>1. keys[q] \in Key /\ keys[r] \in Key /\ keys[m] \in Key
          BY <1>1, <3>3, <3>4
        <5>2. ~KeyLess(keys[q], keys[r])
          BY <3>2
        <5> QED
          BY <3>5, <5>1, <5>2, KeyBetween
      <4>2. ASSUME NEW r \in 1 .. m
            PROVE  ~KeyLess(keys[m], keys[r])
        <5>1. keys[r] \in Key /\ keys[m] \in Key
          BY <1>1, <3>3, <3>4
        <5>2. CASE r = m
          BY <5>1, <5>2, KeyAsymmetric
        <5>3. CASE r \in 1 .. m - 1
          BY <4>1, <5>1, <5>3, KeyAsymmetric
        <5> QED
          BY <3>3, <5>2, <5>3
      <4>3. First(m, m)
        BY <3>3, <3>4, <4>1, <4>2
      <4> HIDE DEF First
      <4> QED
        BY <2>2, <3>4, <4>3
    <3>6. CASE ~KeyLess(keys[q], keys[m])
      <4>1. \A r \in 1 .. m : ~KeyLess(keys[q], keys[r])
        BY <3>2, <3>3, <3>6
      <4>2. \A r \in 1 .. m : r < q => KeyLess(keys[r], keys[q])
        <5>1. \A r \in 1 .. m : r < q => r \in 1 .. m - 1
          BY <2>2, <2>4, <3>2
        <5> QED
          BY <3>2, <5>1
      <4>3. First(q, m)
        BY <3>4, <4>1, <4>2
      <4> HIDE DEF First
      <4> QED
        BY <2>2, <3>4, <4>3
    <3> QED
      BY <3>5, <3>6
  <2> QED
    BY <2>3, <2>4
<1> DEFINE Best(q) == /\ \A r \in DOMAIN keys : ~KeyLess(keys[q], keys[r])
                      /\ \A r \in DOMAIN keys : r < q => KeyLess(keys[r], keys[q])
<1>3. DOMAIN keys = 1 .. n
  BY <1>1
<1>4. \E q \in DOMAIN keys : Best(q)
  <2>1. n \in 1 .. n
    BY <1>1
  <2>2. \E q \in 1 .. n : First(q, n)
    <3> HIDE DEF First
    <3> QED
      BY <1>2, <2>1
  <2> QED
    BY <1>3, <2>2
<1>5. FirstBest[keys] = CHOOSE q \in DOMAIN keys : Best(q)
  BY DEF FirstBest
<1> HIDE DEF Best
<1>6. FirstBest[keys] \in DOMAIN keys /\ Best(FirstBest[keys])
  BY <1>4, <1>5
<1> DEFINE q == FirstBest[keys]
<1> HIDE DEF q
<1>7. q \in 1 .. n /\ Best(q)
  BY <1>3, <1>6 DEF q
<1>8. ASSUME NEW r \in 1 .. n
      PROVE  AtLeast(keys[q][1], keys[r][1])
  <2>1. ~KeyLess(keys[q], keys[r])
    BY <1>3, <1>7 DEF Best
  <2> QED
    BY <1>1, <1>7, <2>1, ScoreDecides
<1> QED
  BY <1>1, <1>7, <1>8 DEF q

-----------------------------------------------------------------------------
(* The columns of the decoder. *)

\* A segment whose confidence, if it has one, is a rational number.
Scored(seg) == seg.vlm = NoConfidence \/ seg.vlm \in Rational

\* What a state and a pair of states add to the score.
Reward(seg, label) ==
    IF label = seg.phase /\ seg.vlm # NoConfidence THEN seg.vlm ELSE Zero
Debt(before, label) ==
    IF <<before, label>> \in Forbidden THEN <<- Lambda[1], Lambda[2]>> ELSE Zero

LEMMA RewardIs ==
    ASSUME NEW seg, Scored(seg), NEW label, NEW before
    PROVE  Reward(seg, label) \in Rational /\ Debt(before, label) \in Rational
<1>1. Zero \in Rational
  BY DEF Zero, Rational
<1>2. <<- Lambda[1], Lambda[2]>> \in Rational
  BY StatesAssumption DEF Rational
<1> QED
  BY <1>1, <1>2 DEF Reward, Debt, Scored

\* The key of a segment.
LEMMA EmissionIs ==
    ASSUME NEW seg, Scored(seg), NEW q \in DOMAIN States
    PROVE  Emission(seg, q) \in Key /\ Emission(seg, q)[1] = Reward(seg, States[q])
<1>1. Reward(seg, States[q]) \in Rational
  BY RewardIs
<1>2. 1 - q \in Int /\ - AlphaRank[States[q]] \in Int
  BY StatesAre, StatesAssumption
<1> DEFINE a == IF States[q] = seg.phase /\ seg.vlm # NoConfidence THEN seg.vlm ELSE Zero
           b == IF States[q] = seg.phase /\ seg.phase # "unknown" THEN 1 ELSE 0
           c == 1 - q
           d == - AlphaRank[States[q]]
<1>3. Emission(seg, q) = <<a, b, c, d>>
  BY DEF Emission
<1>4. a = Reward(seg, States[q]) /\ b \in Int /\ c \in Int /\ d \in Int
  BY <1>2 DEF Reward
<1> HIDE DEF a, b, c, d
<1> QED
  BY <1>1, <1>3, <1>4 DEF Key

\* The key of a path that goes on.
LEMMA ExtendIs ==
    ASSUME NEW key, key \in Key, NEW seg, Scored(seg),
           NEW p \in DOMAIN States, NEW q \in DOMAIN States
    PROVE  /\ Extend(key, p, q, seg) \in Key
           /\ Extend(key, p, q, seg)[1] =
                 Plus(key[1], Plus(Reward(seg, States[q]), Debt(States[p], States[q])))
<1> DEFINE e == Emission(seg, q)
           sum == Plus(key[1], Plus(Reward(seg, States[q]), Debt(States[p], States[q])))
<1>1. e \in Key /\ e[1] = Reward(seg, States[q])
  BY EmissionIs
<1>2. Penalty(p, q) = Debt(States[p], States[q])
  BY DEF Penalty, Debt
<1>3. Extend(key, p, q, seg) = <<Plus(key[1], Plus(e[1], Penalty(p, q))),
                                 key[2] + e[2], key[3] + e[3], key[4] + e[4]>>
  BY DEF Extend
<1>4. sum \in Rational
  <2>1. Plus(Reward(seg, States[q]), Debt(States[p], States[q])) \in Rational
    BY RewardIs, PlusIs
  <2> QED
    BY <2>1, KeyIs, PlusIs
<1> HIDE DEF e
<1>5. key[2] + e[2] \in Int /\ key[3] + e[3] \in Int /\ key[4] + e[4] \in Int
  BY <1>1, KeyIs
<1>6. Extend(key, p, q, seg) = <<sum, key[2] + e[2], key[3] + e[3], key[4] + e[4]>>
  BY <1>1, <1>2, <1>3
<1> HIDE DEF sum
<1> DEFINE x == key[2] + e[2]
           y == key[3] + e[3]
           z == key[4] + e[4]
<1>7. x \in Int /\ y \in Int /\ z \in Int /\ Extend(key, p, q, seg) = <<sum, x, y, z>>
  BY <1>5, <1>6
<1> HIDE DEF x, y, z
<1>8. Extend(key, p, q, seg) \in Key /\ Extend(key, p, q, seg)[1] = sum
  BY <1>4, <1>7 DEF Key
<1> QED
  BY <1>8 DEF sum

\* A column has a key for each state, and the state before it.
IsColumn(c) ==
    /\ DOMAIN c = DOMAIN States
    /\ \A q \in DOMAIN States : c[q].key \in Key /\ c[q].prev \in Int

\* The first column.
LEMMA FirstColumnIs ==
    ASSUME NEW seg, Scored(seg)
    PROVE  /\ IsColumn(FirstColumn(seg))
           /\ \A q \in DOMAIN States :
                 FirstColumn(seg)[q].key[1] = Reward(seg, States[q])
<1>1. \A q \in DOMAIN States : FirstColumn(seg)[q] = [key |-> Emission(seg, q), prev |-> 0]
  BY DEF FirstColumn
<1>2. DOMAIN FirstColumn(seg) = DOMAIN States
  BY DEF FirstColumn
<1>3. \A q \in DOMAIN States :
         Emission(seg, q) \in Key /\ Emission(seg, q)[1] = Reward(seg, States[q])
  BY EmissionIs
<1> QED
  BY <1>1, <1>2, <1>3 DEF IsColumn

\* The keys of the paths to state q that pass through each of the states.
Ways(c, q, seg) == [p \in DOMAIN States |-> Extend(c[p].key, p, q, seg)]

\* In column d each state has the greatest of the scores that lead to it from column
\* c, and the state it comes from ...
Continues(c, d, seg) ==
    \A q \in DOMAIN States :
        /\ d[q].prev \in DOMAIN States
        /\ d[q].key = Extend(c[d[q].prev].key, d[q].prev, q, seg)
        /\ \A p \in DOMAIN States :
              AtLeast(d[q].key[1], Extend(c[p].key, p, q, seg)[1])

\* ... as in the next one.
LEMMA NextColumnIs ==
    ASSUME NEW c, IsColumn(c), NEW seg, Scored(seg)
    PROVE  IsColumn(NextColumn(c, seg)) /\ Continues(c, NextColumn(c, seg), seg)
<1> DEFINE d == NextColumn(c, seg)
<1>1. DOMAIN d = DOMAIN States
  BY DEF NextColumn
<1>2. ASSUME NEW q \in DOMAIN States
      PROVE  /\ d[q].prev \in DOMAIN States /\ d[q].key \in Key
             /\ d[q].key = Extend(c[d[q].prev].key, d[q].prev, q, seg)
             /\ \A p \in DOMAIN States :
                   AtLeast(d[q].key[1], Extend(c[p].key, p, q, seg)[1])
  <2> DEFINE keys == Ways(c, q, seg)
             best == FirstBest[keys]
  <2>1. d[q] = [key |-> keys[best], prev |-> best]
    BY DEF NextColumn, Ways
  <2>2. \A p \in DOMAIN States :
           keys[p] = Extend(c[p].key, p, q, seg) /\ keys[p] \in Key
    BY ExtendIs DEF Ways, IsColumn
  <2>3. keys \in [DOMAIN States -> Key]
    BY <2>2 DEF Ways
  <2> HIDE DEF keys
  <2>4. /\ best \in DOMAIN States
        /\ \A r \in DOMAIN States : AtLeast(keys[best][1], keys[r][1])
    BY <2>3, FirstBestIs
  <2> HIDE DEF best, d
  <2>5. d[q].key = keys[best] /\ d[q].prev = best
    BY <2>1
  <2>6. ASSUME NEW p \in DOMAIN States
        PROVE  AtLeast(d[q].key[1], Extend(c[p].key, p, q, seg)[1])
    BY <2>2, <2>4, <2>5
  <2> QED
    BY <2>2, <2>4, <2>5, <2>6
<1> HIDE DEF d
<1>3. IsColumn(d)
  <2>1. \A q \in DOMAIN States : d[q].prev \in Int
    BY <1>2, StatesAre
  <2> QED
    BY <1>1, <1>2, <2>1 DEF IsColumn
<1> QED
  BY <1>2, <1>3 DEF d, Continues

-----------------------------------------------------------------------------
(* What the score of a labelling and the way back are: the functions their *)
(* definitions speak of exist.                                             *)

\* There are the sums of the first elements of a sequence ...
LEMMA SumsExist ==
    ASSUME NEW n \in Nat, NEW g
    PROVE  \E f : f = [k \in 0 .. n |-> IF k = 0 THEN Zero ELSE Plus(f[k - 1], g[k])]
<1> DEFINE SumsTo(f, m) == f = [k \in 0 .. m |-> IF k = 0 THEN Zero ELSE Plus(f[k - 1], g[k])]
           T == {m \in 0 .. n : ~\E f : SumsTo(f, m)}
<1>1. ASSUME T # {}
      PROVE  FALSE
  <2> DEFINE m == Min(T)
  <2>1. m \in T /\ \A x \in T : m <= x
    <3> HIDE DEF SumsTo
    <3>1. T \in SUBSET Nat
      OBVIOUS
    <3> HIDE DEF T
    <3> QED
      BY <1>1, <3>1, MinOf
  <2>2. m \in 0 .. n /\ ~\E f : SumsTo(f, m)
    BY <2>1
  <2> HIDE DEF m
  <2>3. CASE m = 0
    <3> DEFINE f == [k \in 0 .. 0 |-> Zero]
    <3>1. f = [k \in 0 .. 0 |-> IF k = 0 THEN Zero ELSE Plus(f[k - 1], g[k])]
      OBVIOUS
    <3> HIDE DEF f
    <3> QED
      BY <2>2, <2>3, <3>1
  <2>4. CASE m # 0
    <3>1. m - 1 \in 0 .. n /\ ~(m <= m - 1)
      BY <2>2, <2>4
    <3>2. m - 1 \notin T
      <4> HIDE DEF T
      <4> QED
        BY <2>1, <3>1
    <3>3. PICK f : SumsTo(f, m - 1)
      <4> HIDE DEF SumsTo
      <4> QED
        BY <3>1, <3>2
    <3> DEFINE h == [k \in 0 .. m |-> IF k = m THEN Plus(f[m - 1], g[m]) ELSE f[k]]
               E(k) == IF k = 0 THEN Zero ELSE Plus(h[k - 1], g[k])
    <3>4. ASSUME NEW k \in 0 .. m
          PROVE  h[k] = E(k)
      <4>1. CASE k = m
        <5>1. h[k] = Plus(f[m - 1], g[m]) /\ h[k - 1] = f[m - 1]
          BY <2>2, <2>4, <4>1
        <5> HIDE DEF h
        <5> QED
          BY <2>4, <4>1, <5>1
      <4>2. CASE k # m
        <5>1. k \in 0 .. m - 1 /\ h[k] = f[k] /\ (k # 0 => h[k - 1] = f[k - 1])
          BY <2>2, <4>2
        <5>2. f[k] = IF k = 0 THEN Zero ELSE Plus(f[k - 1], g[k])
          BY <3>3, <5>1
        <5> HIDE DEF h
        <5> QED
          BY <5>1, <5>2
      <4> QED
        BY <4>1, <4>2
    <3>5. h = [k \in 0 .. m |-> h[k]]
      OBVIOUS
    <3> HIDE DEF h
    <3>6. [k \in 0 .. m |-> h[k]] = [k \in 0 .. m |-> E(k)]
      <4> HIDE DEF E
      <4> QED
        BY <3>4
    <3>7. SumsTo(h, m)
      BY <3>5, <3>6
    <3> HIDE DEF SumsTo
    <3> QED
      BY <2>2, <3>7
  <2> QED
    BY <2>3, <2>4
<1>2. n \in 0 .. n
  OBVIOUS
<1> HIDE DEF SumsTo
<1>3. \E f : SumsTo(f, n)
  BY <1>1, <1>2
<1> QED
  BY <1>3 DEF SumsTo

\* What a segment adds to the score of a labelling.
Gain(s, labels, k) ==
    Plus(Reward(s[k], labels[k]), IF k > 1 THEN Debt(labels[k - 1], labels[k]) ELSE Zero)

\* The scores of the first k segments, for each k up to n.
SumsOf(f, s, labels, n) ==
    f[0] = Zero /\ \A k \in 1 .. n : f[k] = Plus(f[k - 1], Gain(s, labels, k))

\* ... so that the score of a labelling is the last of them.
LEMMA ScoreIs ==
    ASSUME NEW s, IsSeq(s), NEW labels
    PROVE  \E f : SumsOf(f, s, labels, Len(s)) /\ ScoreOfLabels(s, labels) = f[Len(s)]
<1> DEFINE n == Len(s)
           kept(k) == IF labels[k] = s[k].phase /\ s[k].vlm # NoConfidence
                      THEN s[k].vlm ELSE Zero
           broken(k) == IF k > 1 /\ <<labels[k - 1], labels[k]>> \in Forbidden
                        THEN <<- Lambda[1], Lambda[2]>> ELSE Zero
           g == [k \in 1 .. n |-> Gain(s, labels, k)]
           Up(f) == f = [k \in 0 .. n |-> IF k = 0 THEN Zero
                                          ELSE Plus(f[k - 1], Plus(kept(k), broken(k)))]
<1>1. n \in Nat
  BY IsSeqHas
<1>2. PICK f : f = [k \in 0 .. n |-> IF k = 0 THEN Zero ELSE Plus(f[k - 1], g[k])]
  <2> HIDE DEF g, n
  <2> QED
    BY <1>1, SumsExist
<1>3. \A k \in 1 .. n : Gain(s, labels, k) = Plus(kept(k), broken(k))
  <2> SUFFICES ASSUME NEW k \in 1 .. n
               PROVE  Gain(s, labels, k) = Plus(kept(k), broken(k))
    OBVIOUS
  <2>1. kept(k) = Reward(s[k], labels[k])
    BY DEF Reward
  <2>2. broken(k) = IF k > 1 THEN Debt(labels[k - 1], labels[k]) ELSE Zero
    BY DEF Debt
  <2> HIDE DEF kept, broken
  <2> QED
    BY <2>1, <2>2 DEF Gain
<1>4. Up(f)
  <2> DEFINE E(k) == IF k = 0 THEN Zero ELSE Plus(f[k - 1], g[k])
             D(k) == IF k = 0 THEN Zero ELSE Plus(f[k - 1], Plus(kept(k), broken(k)))
  <2>1. ASSUME NEW k \in 0 .. n
        PROVE  E(k) = D(k)
    <3>1. CASE k = 0
      BY <3>1
    <3>2. CASE k # 0
      <4>1. k \in 1 .. n
        BY <1>1, <3>2
      <4>2. g[k] = Plus(kept(k), broken(k))
        <5>1. g[k] = Gain(s, labels, k)
          BY <4>1
        <5> HIDE DEF g, kept, broken
        <5> QED
          BY <1>3, <4>1, <5>1
      <4> HIDE DEF g, kept, broken
      <4> QED
        BY <3>2, <4>2
    <3> QED
      BY <3>1, <3>2
  <2>2. f = [k \in 0 .. n |-> E(k)]
    BY <1>2
  <2>3. [k \in 0 .. n |-> E(k)] = [k \in 0 .. n |-> D(k)]
    <3> HIDE DEF E, D, n
    <3> QED
      BY <2>1
  <2>4. f = [k \in 0 .. n |-> D(k)]
    <3> HIDE DEF E, D
    <3> QED
      BY <2>2, <2>3
  <2> QED
    BY <2>4
<1> DEFINE u == CHOOSE h : Up(h)
<1>5. ScoreOfLabels(s, labels) = u[n]
  BY DEF ScoreOfLabels
<1>6. Up(u)
  <2> HIDE DEF Up
  <2> QED
    BY <1>4
<1> HIDE DEF u
<1>7. u = [k \in 0 .. n |-> IF k = 0 THEN Zero
                            ELSE Plus(u[k - 1], Plus(kept(k), broken(k)))]
  BY <1>6
<1> DEFINE D(k) == IF k = 0 THEN Zero ELSE Plus(u[k - 1], Plus(kept(k), broken(k)))
<1>8. \A k \in 0 .. n : u[k] = D(k)
  <2> HIDE DEF kept, broken
  <2> QED
    BY <1>7
<1>9. u[0] = Zero
  <2> HIDE DEF kept, broken
  <2> QED
    BY <1>1, <1>8
<1>10. ASSUME NEW k \in 1 .. n
       PROVE  u[k] = Plus(u[k - 1], Gain(s, labels, k))
  <2>1. k \in 0 .. n /\ k # 0
    BY <1>1
  <2> HIDE DEF kept, broken, n
  <2> QED
    BY <1>3, <1>8, <1>10, <2>1
<1> QED
  BY <1>5, <1>9, <1>10 DEF SumsOf

\* The state before state q of column k.
Before(d, k, q) == d[k][q].prev

\* A way back through the columns d from state z of column n to column m.
IsWay(f, d, n, z, m) == f = [k \in m .. n |-> IF k = n THEN z ELSE Before(d, k + 1, f[k + 1])]

\* There is the way back through the columns d from the state z of the last ...
LEMMA WayExists ==
    ASSUME NEW n \in Nat, n > 0, NEW d, NEW z
    PROVE  \E f : IsWay(f, d, n, z, 1)
<1> DEFINE Way(f, m) == IsWay(f, d, n, z, m)
           T == {j \in 0 .. n - 1 : ~\E f : Way(f, n - j)}
<1>1. ASSUME T # {}
      PROVE  FALSE
  <2> DEFINE i == Min(T)
  <2>1. i \in T /\ \A x \in T : i <= x
    <3> HIDE DEF Way
    <3>1. T \in SUBSET Nat
      OBVIOUS
    <3> HIDE DEF T
    <3> QED
      BY <1>1, <3>1, MinOf
  <2>2. i \in 0 .. n - 1 /\ ~\E f : Way(f, n - i)
    BY <2>1
  <2> HIDE DEF i
  <2>3. CASE i = 0
    <3> DEFINE f == [k \in n .. n |-> z]
    <3>1. f = [k \in n .. n |-> IF k = n THEN z ELSE Before(d, k + 1, f[k + 1])]
      OBVIOUS
    <3>2. n - i = n
      BY <2>3
    <3> HIDE DEF f
    <3>3. Way(f, n - i)
      BY <3>1, <3>2 DEF IsWay
    <3> HIDE DEF Way
    <3> QED
      BY <2>2, <3>3
  <2>4. CASE i # 0
    <3> DEFINE m == n - i
    <3>1. i - 1 \in 0 .. n - 1 /\ ~(i <= i - 1) /\ m \in 1 .. n - 1 /\ n - (i - 1) = m + 1
      BY <2>2, <2>4
    <3>2. i - 1 \notin T
      <4> HIDE DEF T
      <4> QED
        BY <2>1, <3>1
    <3> HIDE DEF m
    <3>3. PICK f : Way(f, m + 1)
      <4> HIDE DEF Way
      <4> QED
        BY <3>1, <3>2
    <3> DEFINE h == [k \in m .. n |-> IF k = m THEN Before(d, m + 1, f[m + 1]) ELSE f[k]]
               E(k) == IF k = n THEN z ELSE Before(d, k + 1, h[k + 1])
    <3>4. ASSUME NEW k \in m .. n
          PROVE  h[k] = E(k)
      <4>1. CASE k = m
        <5>1. h[k] = Before(d, m + 1, f[m + 1]) /\ h[k + 1] = f[m + 1] /\ k # n
          BY <3>1, <4>1
        <5> HIDE DEF h
        <5> QED
          BY <4>1, <5>1
      <4>2. CASE k # m
        <5>1. k \in m + 1 .. n /\ h[k] = f[k] /\ (k # n => h[k + 1] = f[k + 1])
          BY <3>1, <4>2
        <5>2. f[k] = IF k = n THEN z ELSE Before(d, k + 1, f[k + 1])
          BY <3>3, <5>1 DEF IsWay
        <5> HIDE DEF h
        <5> QED
          BY <5>1, <5>2
      <4> QED
        BY <4>1, <4>2
    <3>5. h = [k \in m .. n |-> h[k]]
      OBVIOUS
    <3> HIDE DEF h
    <3>6. [k \in m .. n |-> h[k]] = [k \in m .. n |-> E(k)]
      <4> HIDE DEF E
      <4> QED
        BY <3>4
    <3>7. Way(h, m)
      BY <3>5, <3>6 DEF IsWay
    <3> HIDE DEF Way
    <3> QED
      BY <2>2, <3>7 DEF m
  <2> QED
    BY <2>3, <2>4
<1>2. n - 1 \in 0 .. n - 1 /\ n - (n - 1) = 1
  OBVIOUS
<1>3. \E f : Way(f, 1)
  <2> HIDE DEF Way
  <2>1. \E f : Way(f, n - (n - 1))
    BY <1>1, <1>2
  <2> QED
    BY <1>2, <2>1
<1> QED
  BY <1>3 DEF Way

\* The path p through the columns d goes from each state to where it came from.
GoesBack(d, p) == \A k \in 1 .. Len(d) - 1 : p[k] = d[k + 1][p[k + 1]].prev

\* The keys of the last column.
LastKeys(d) == [q \in DOMAIN States |-> d[Len(d)][q].key]

\* ... which is what the decoder follows.
LEMMA DecodedIs ==
    ASSUME IsSeq(dp), Len(dp) > 0
    PROVE  \E path : /\ path[Len(dp)] = FirstBest[LastKeys(dp)] /\ GoesBack(dp, path)
                     /\ \A k \in 1 .. Len(dp) : Decoded[k] = States[path[k]]
<1> DEFINE n == Len(dp)
           z == FirstBest[LastKeys(dp)]
           E(f) == IsWay(f, dp, n, z, 1)
           path == CHOOSE f : E(f)
<1>1. n \in Nat /\ n > 0 /\ DOMAIN dp = 1 .. n
  BY IsSeqHas
<1>2. Last(dp) = dp[n]
  BY DEF Last
<1>3. Decoded = [k \in 1 .. n |-> States[path[k]]]
  BY <1>1, <1>2 DEF Decoded, LastKeys, Before, IsWay
<1>4. E(path)
  <2>1. \E f : E(f)
    <3> HIDE DEF z, n
    <3> QED
      BY <1>1, WayExists
  <2> HIDE DEF E
  <2> QED
    BY <2>1
<1> HIDE DEF path, z
<1>5. path[n] = z /\ \A k \in 1 .. n - 1 : path[k] = dp[k + 1][path[k + 1]].prev
  <2> HIDE DEF n
  <2>1. path = [k \in 1 .. n |-> IF k = n THEN z ELSE Before(dp, k + 1, path[k + 1])]
    BY <1>4 DEF IsWay
  <2>2. n \in 1 .. n /\ \A k \in 1 .. n - 1 : k \in 1 .. n /\ k # n
    BY <1>1
  <2> DEFINE D(k) == IF k = n THEN z ELSE Before(dp, k + 1, path[k + 1])
  <2>3. \A k \in 1 .. n : path[k] = D(k)
    BY <2>1
  <2> QED
    BY <2>2, <2>3 DEF Before
<1>6. \A k \in 1 .. n : Decoded[k] = States[path[k]]
  BY <1>3
<1> QED
  BY <1>5, <1>6 DEF z, GoesBack

-----------------------------------------------------------------------------
(* The columns and the paths through them. *)

\* The columns d are those the decoder finds for the segments s, so far.
Decoding(s, d) ==
    /\ IsSeq(d) /\ \A k \in 1 .. Len(d) : IsColumn(d[k])
    /\ Len(d) > 0 => d[1] = FirstColumn(s[1])
    /\ \A k \in 1 .. Len(d) - 1 : d[k + 1] = NextColumn(d[k], s[k + 1])

\* The path p passes through states of these labels.
Passes(p, labels, n) == \A k \in 1 .. n : p[k] \in DOMAIN States /\ labels[k] = States[p[k]]

\* The scores f of the beginnings of a path are at most those of the states it comes to,
\* and no less if it is the way back from there.
Bounded(d, p, f) ==
    \A k \in 1 .. Len(d) :
        /\ f[k] \in Rational /\ AtLeast(d[k][p[k]].key[1], f[k])
        /\ GoesBack(d, p) => AtLeast(f[k], d[k][p[k]].key[1])

\* So are those of any labelling.
LEMMA PathScores ==
    ASSUME NEW s, NEW d, Decoding(s, d), \A k \in 1 .. Len(d) : Scored(s[k]),
           NEW p, NEW labels, Passes(p, labels, Len(d)),
           NEW f, SumsOf(f, s, labels, Len(d))
    PROVE  Bounded(d, p, f)
<1> DEFINE n == Len(d)
           key(k) == d[k][p[k]].key
           Ok(k) == /\ f[k] \in Rational /\ AtLeast(key(k)[1], f[k])
                    /\ GoesBack(d, p) => AtLeast(f[k], key(k)[1])
           T == {k \in 1 .. n : ~Ok(k)}
<1>1. n \in Nat
  BY IsSeqHas DEF Decoding
<1>0. /\ f[0] = Zero /\ \A k \in 1 .. n : f[k] = Plus(f[k - 1], Gain(s, labels, k))
      /\ \A k \in 1 .. n : p[k] \in DOMAIN States /\ labels[k] = States[p[k]]
  BY DEF SumsOf, Passes
<1>2. \A k \in 1 .. n : key(k) \in Key /\ key(k)[1] \in Rational /\ IsRational(key(k)[1])
  BY <1>0, KeyIs DEF Decoding, IsColumn
<1>3. ASSUME 1 \in 1 .. n
      PROVE  Ok(1)
  <2> DEFINE r == Reward(s[1], labels[1])
             g == Plus(r, Zero)
  <2>1. r \in Rational
    BY <1>3, RewardIs
  <2>2. key(1)[1] = r
    <3>1. d[1] = FirstColumn(s[1]) /\ p[1] \in DOMAIN States /\ labels[1] = States[p[1]]
      BY <1>0, <1>1, <1>3 DEF Decoding
    <3>2. Scored(s[1])
      BY <1>3
    <3> QED
      BY <3>1, <3>2, FirstColumnIs
  <2>3. f[1] = Plus(Zero, g)
    <3>1. Gain(s, labels, 1) = g
      BY DEF Gain
    <3>2. f[1] = Plus(f[0], Gain(s, labels, 1)) /\ f[0] = Zero
      BY <1>0, <1>3
    <3> QED
      BY <3>1, <3>2
  <2> HIDE DEF r, key
  <2>4. /\ Zero \in Rational /\ g \in Rational
        /\ AtLeast(g, r) /\ AtLeast(r, g)
    BY <2>1, PlusZero, PlusIs
  <2> HIDE DEF g
  <2>5. /\ f[1] \in Rational /\ AtLeast(f[1], g) /\ AtLeast(g, f[1])
    BY <2>3, <2>4, PlusZero, PlusIs
  <2>6. AtLeast(r, f[1]) /\ AtLeast(f[1], r)
    BY <2>1, <2>4, <2>5, AtLeastTransitive, RationalIs
  <2> QED
    BY <2>2, <2>5, <2>6
<1>4. ASSUME NEW k \in 1 .. n, k # 1, Ok(k - 1)
      PROVE  Ok(k)
  <2> DEFINE i == k - 1
             a == p[i]
             q == p[k]
             g == Plus(Reward(s[k], labels[k]), Debt(labels[i], labels[k]))
  <2>1. i \in 1 .. n /\ i \in 1 .. Len(d) - 1 /\ i + 1 = k /\ k > 1
    BY <1>1, <1>4
  <2>2. /\ a \in DOMAIN States /\ q \in DOMAIN States
        /\ labels[i] = States[a] /\ labels[k] = States[q] /\ Scored(s[k])
    BY <1>0, <1>4, <2>1
  <2>3. d[k] = NextColumn(d[i], s[k]) /\ IsColumn(d[i])
    BY <2>1 DEF Decoding
  <2>4. f[k] = Plus(f[i], g) /\ g \in Rational
    <3>1. Gain(s, labels, k) = g
      BY <2>1 DEF Gain
    <3>2. f[k] = Plus(f[i], Gain(s, labels, k))
      BY <1>0, <1>4
    <3>3. g \in Rational
      BY <2>2, RewardIs, PlusIs
    <3> QED
      BY <3>1, <3>2, <3>3
  <2>5. f[i] \in Rational /\ AtLeast(key(i)[1], f[i])
        /\ (GoesBack(d, p) => AtLeast(f[i], key(i)[1]))
        /\ key(i) = d[i][a].key /\ key(i) \in Key /\ key(i)[1] \in Rational
    BY <1>2, <1>4, <2>1
  <2> DEFINE x == Extend(key(i), a, q, s[k])
  <2>6. x[1] = Plus(key(i)[1], g) /\ x[1] \in Rational
    <3>1. ASSUME NEW w, w \in Key
          PROVE  Extend(w, a, q, s[k])[1] = Plus(w[1], g)
      <4>1. g = Plus(Reward(s[k], States[q]), Debt(States[a], States[q]))
        BY <2>2
      <4> HIDE DEF g, a, q
      <4>2. Extend(w, a, q, s[k])[1] =
               Plus(w[1], Plus(Reward(s[k], States[q]), Debt(States[a], States[q])))
        BY <2>2, <3>1, ExtendIs
      <4> QED
        BY <4>1, <4>2
    <3>2. x[1] = Plus(key(i)[1], g)
      BY <2>5, <3>1
    <3> QED
      BY <2>4, <2>5, <3>2, PlusIs
  <2>7. /\ AtLeast(key(k)[1], x[1])
        /\ d[k][q].prev = a => key(k) = x
    <3>1. /\ d[k][q].key = Extend(d[i][d[k][q].prev].key, d[k][q].prev, q, s[k])
          /\ AtLeast(d[k][q].key[1], Extend(d[i][a].key, a, q, s[k])[1])
      <4>1. Continues(d[i], d[k], s[k])
        BY <2>2, <2>3, NextColumnIs
      <4> QED
        BY <2>2, <4>1 DEF Continues
    <3> QED
      BY <3>1
  <2>8. key(k)[1] \in Rational
    BY <1>2
  <2>9. GoesBack(d, p) => d[k][q].prev = a
    BY <2>1 DEF GoesBack
  <2> HIDE DEF i, a, q, x, key, g
  <2>10. f[k] \in Rational /\ AtLeast(x[1], f[k])
         /\ (GoesBack(d, p) => AtLeast(f[k], x[1]))
    <3>1. AtLeast(g, g)
      BY <2>4, RationalIs, AtLeastIs
    <3>2. f[k] \in Rational
      BY <2>4, <2>5, PlusIs
    <3>3. AtLeast(x[1], f[k])
      BY <2>4, <2>5, <2>6, <3>1, PlusKeeps
    <3>4. GoesBack(d, p) => AtLeast(f[k], x[1])
      BY <2>4, <2>5, <2>6, <3>1, PlusKeeps
    <3> QED
      BY <3>2, <3>3, <3>4
  <2>11. AtLeast(key(k)[1], f[k])
    BY <2>6, <2>7, <2>8, <2>10, AtLeastTransitive, RationalIs
  <2>12. GoesBack(d, p) => AtLeast(f[k], key(k)[1])
    BY <2>7, <2>9, <2>10
  <2> QED
    BY <2>10, <2>11, <2>12
<1> HIDE DEF Ok
<1>5. T = {}
  <2> SUFFICES ASSUME T # {} PROVE FALSE
    OBVIOUS
  <2> DEFINE m == Min(T)
  <2>1. m \in T /\ \A x \in T : m <= x
    <3>1. T \in SUBSET Nat
      BY <1>1
    <3> HIDE DEF T
    <3> QED
      BY <3>1, MinOf
  <2>2. m \in 1 .. n /\ ~Ok(m)
    BY <2>1
  <2> HIDE DEF m
  <2>3. m # 1
    BY <1>3, <2>2
  <2>4. m - 1 \in 1 .. n /\ ~(m <= m - 1)
    BY <1>1, <2>2, <2>3
  <2>5. m - 1 \notin T
    <3> HIDE DEF T
    <3> QED
      BY <2>1, <2>4
  <2>6. Ok(m - 1)
    BY <2>4, <2>5
  <2> QED
    BY <1>4, <2>2, <2>3, <2>6
<1>6. \A k \in 1 .. n : Ok(k)
  BY <1>5
<1> QED
  BY <1>6 DEF Ok, Bounded

-----------------------------------------------------------------------------
(* The decoder. *)

\* Its columns are those of the segments it has got to, and there are none when it
\* does not run.
DecoderInv == Decoding(segments, dp) /\ (op # "op3" => dp = << >>)

\* No columns are the first of any.
LEMMA NoColumns == \A s : Decoding(s, << >>)
<1>1. IsSeq(<< >>) /\ Len(<< >>) = 0
  BY EmptySeq DEF IsSeq
<1> QED
  BY <1>1 DEF Decoding

\* The decoder has not begun.
LEMMA InitDecoder == Init => DecoderInv
  BY NoColumns DEF Init, SmootherInit, DecoderInv

\* What is explained by confident segments is confident.
LEMMA ExplainedIsScored ==
    ASSUME ExplainInv, stage = "smooth"
    PROVE  \A k \in 1 .. Len(segments) : Scored(segments[k])
  BY DEF ExplainInv, Explained, ConfidenceFrom, Scored

\* A further column is the next one.
LEMMA FurtherColumn ==
    ASSUME NEW s, NEW d, Decoding(s, d), NEW c, \A k \in 1 .. Len(s) : Scored(s[k]),
           Len(s) \in Nat, Len(d) < Len(s),
           c = IF d = << >> THEN FirstColumn(s[1]) ELSE NextColumn(d[Len(d)], s[Len(d) + 1])
    PROVE  Decoding(s, Append(d, c))
<1> DEFINE n == Len(d)
           t == Append(d, c)
           S == ToSet(d) \cup {c}
<1>1. /\ n \in Nat /\ (d = << >> <=> n = 0)
      /\ DOMAIN d = 1 .. n /\ \A k \in 1 .. n : d[k] \in S
  BY IsSeqHas DEF Decoding
<1>2. d \in Seq(S)
  <2>1. d \in Seq(ToSet(d))
    BY DEF Decoding, IsSeq
  <2>2. d \in [1 .. n -> S]
    BY <1>1, <2>1, LenProperties
  <2> HIDE DEF S, n
  <2> QED
    BY <1>1, <2>2, SeqDef
<1>3. /\ t \in Seq(S) /\ Len(t) = n + 1 /\ t[n + 1] = c
      /\ \A k \in 1 .. n : t[k] = d[k]
  <2>1. c \in S
    OBVIOUS
  <2> HIDE DEF S
  <2> QED
    BY <1>2, <2>1, AppendProperties
<1> HIDE DEF t, S
<1>4. IsSeq(t)
  <2>1. DOMAIN t = 1 .. n + 1 /\ t = [k \in 1 .. n + 1 |-> t[k]]
    BY <1>3, LenProperties
  <2> QED
    BY <1>1, <2>1, SequenceOf
<1>5. \A k \in 1 .. n : IsColumn(d[k])
  BY DEF Decoding
<1>6. n + 1 \in 1 .. Len(s) /\ Scored(s[n + 1])
  BY <1>1
<1>7. IsColumn(c)
  <2>1. CASE n = 0
    BY <1>1, <1>6, <2>1, FirstColumnIs
  <2>2. CASE n # 0
    <3>1. n \in 1 .. n /\ c = NextColumn(d[n], s[n + 1])
      BY <1>1, <2>2
    <3> HIDE DEF n
    <3> QED
      BY <1>5, <1>6, <3>1, NextColumnIs
  <2> QED
    BY <2>1, <2>2
<1>8. \A k \in 1 .. n + 1 : IsColumn(t[k])
  <2>1. \A k \in 1 .. n + 1 : k \in 1 .. n \/ k = n + 1
    BY <1>1
  <2> QED
    BY <1>3, <1>5, <1>7, <2>1
<1>9. t[1] = FirstColumn(s[1])
  <2>1. CASE n = 0
    BY <1>1, <1>3, <2>1
  <2>2. CASE n # 0
    <3>1. 1 \in 1 .. n /\ n > 0
      BY <1>1, <2>2
    <3> QED
      BY <1>3, <3>1 DEF Decoding
  <2> QED
    BY <2>1, <2>2
<1>10. ASSUME NEW k \in 1 .. n
       PROVE  t[k + 1] = NextColumn(t[k], s[k + 1])
  <2>1. CASE k = n
    BY <1>1, <1>3, <2>1
  <2>2. CASE k # n
    <3>1. k \in 1 .. n - 1 /\ k + 1 \in 1 .. n
      <4>1. n \in Nat
        BY <1>1
      <4> HIDE DEF n
      <4> QED
        BY <2>2, <4>1
    <3>2. d[k + 1] = NextColumn(d[k], s[k + 1])
      BY <3>1 DEF Decoding
    <3>3. t[k + 1] = d[k + 1] /\ t[k] = d[k]
      BY <1>3, <3>1
    <3> QED
      BY <3>2, <3>3
  <2> QED
    BY <2>1, <2>2
<1>11. Len(t) - 1 = n
  BY <1>1, <1>3
<1> QED
  BY <1>3, <1>4, <1>8, <1>9, <1>10, <1>11 DEF Decoding, t

\* Every step keeps the columns.
LEMMA NextDecoder ==
    ASSUME OrderInv, GoalsInv, ExplainInv, DecoderInv, [Next]_vars
    PROVE  DecoderInv'
<1>1. /\ Decoding(segments, dp) /\ (op # "op3" => dp = << >>)
      /\ (stage \in {"track", "detect", "label"} => op = "op1")
      /\ Len(segments) \in Nat
  BY IsSeqHas DEF DecoderInv, GoalsInv, OrderInv, Ordered
<1>2. ASSUME dp' = << >>
      PROVE  DecoderInv'
  BY <1>2, NoColumns DEF DecoderInv
<1>3. CASE TrackObjects
  BY <1>1, <1>3 DEF TrackObjects, smootherVars, DecoderInv
<1>4. CASE DetectBoundaries
  <2>1. stage = "detect" /\ dp' = dp
    BY <1>4 DEF DetectBoundaries, smootherVars
  <2> QED
    BY <1>1, <1>2, <2>1
<1>5. CASE LabelSegments
  <2>1. stage = "label" /\ dp' = dp
    BY <1>5, LabelStep DEF smootherVars
  <2> QED
    BY <1>1, <1>2, <2>1
<1>6. CASE SmoothSegments
  <2>1. stage = "smooth"
    BY <1>6 DEF SmoothSegments
  <2>2. CASE (MergeNext \/ EndRound \/ AbsorbNext \/ EndPass) /\ UNCHANGED dp
    <3>1. op # "op3"
      BY <2>2 DEF MergeNext, EndRound, AbsorbNext, EndPass
    <3> QED
      BY <1>1, <1>2, <2>2, <3>1
  <2>3. CASE ExtendColumns
    <3> DEFINE c == IF dp = << >> THEN FirstColumn(segments[1])
                    ELSE NextColumn(dp[Len(dp)], segments[Len(dp) + 1])
    <3>1. /\ Len(dp) < Len(segments) /\ segments' = segments
          /\ op = "op3" /\ op' = op /\ dp' = Append(dp, c)
      BY <2>3 DEF ExtendColumns, Last
    <3>2. \A k \in 1 .. Len(segments) : Scored(segments[k])
      BY <2>1, ExplainedIsScored
    <3>3. Decoding(segments, Append(dp, c))
      BY <1>1, <3>1, <3>2, FurtherColumn
    <3> HIDE DEF c
    <3> QED
      BY <3>1, <3>3 DEF DecoderInv
  <2>4. CASE Relabel
    BY <1>2, <2>4 DEF Relabel
  <2>5. CASE CheckInvariants("done")
    BY <1>1, <2>5 DEF CheckInvariants, smootherVars, DecoderInv
  <2> QED
    BY <1>6, <2>2, <2>3, <2>4, <2>5 DEF SmoothSegments, SmootherNext
<1>7. CASE UNCHANGED vars
  BY <1>1, <1>7 DEF vars, smootherVars, DecoderInv
<1> QED
  BY <1>3, <1>4, <1>5, <1>6, <1>7 DEF Next

\* A segment has the label it is given.
LEMMA RelabelledIs ==
    ASSUME NEW seg, IsSegment(seg), NEW phase
    PROVE  Relabelled(seg, phase).phase = phase
  BY DEF Relabelled, IsSegment

\* No labelling has a greater score than the one that is decoded.
LEMMA DecodedIsBest ==
    ASSUME Decoding(segments, dp), Ordered(segments), Len(dp) = Len(segments), Len(dp) > 0,
           \A k \in 1 .. Len(segments) : Scored(segments[k]),
           NEW found, \A k \in 1 .. Len(segments) : found[k] = Decoded[k],
           NEW labels, labels \in [DOMAIN segments -> ToSet(States)]
    PROVE  AtLeast(ScoreOfLabels(segments, found), ScoreOfLabels(segments, labels))
<1> DEFINE n == Len(dp)
           last == dp[n]
           keys == LastKeys(dp)
<1>1. /\ IsSeq(segments) /\ IsSeq(dp) /\ n \in Nat /\ n > 0 /\ Len(segments) = n
      /\ DOMAIN segments = 1 .. n /\ n \in 1 .. n
  BY IsSeqHas DEF Ordered, Decoding
<1>2. PICK path : /\ path[n] = FirstBest[keys] /\ GoesBack(dp, path)
                  /\ \A k \in 1 .. n : Decoded[k] = States[path[k]]
  BY <1>1, DecodedIs
<1>3. keys \in [DOMAIN States -> Key]
  BY <1>1 DEF Decoding, IsColumn, LastKeys
<1>4. path[n] \in DOMAIN States
      /\ \A q \in DOMAIN States : AtLeast(last[path[n]].key[1], last[q].key[1])
  <2>1. \A q \in DOMAIN States : keys[q] = last[q].key
    BY DEF LastKeys
  <2> HIDE DEF keys, last
  <2> QED
    BY <1>2, <1>3, <2>1, FirstBestIs
<1> HIDE DEF keys
<1> DEFINE T == {j \in 0 .. n - 1 : path[n - j] \notin DOMAIN States}
<1>5. T = {}
  <2> SUFFICES ASSUME T # {} PROVE FALSE
    OBVIOUS
  <2> DEFINE m == Min(T)
  <2>1. m \in T /\ \A x \in T : m <= x
    <3>1. T \in SUBSET Nat
      BY <1>1
    <3> HIDE DEF T
    <3> QED
      BY <3>1, MinOf
  <2>2. m \in 0 .. n - 1 /\ path[n - m] \notin DOMAIN States
    BY <2>1
  <2> HIDE DEF m
  <2>3. m # 0
    BY <1>1, <1>4, <2>2
  <2> DEFINE k == n - m
  <2>4. /\ m - 1 \in 0 .. n - 1 /\ ~(m <= m - 1) /\ n - (m - 1) = k + 1
        /\ k \in 1 .. n - 1 /\ k + 1 \in 1 .. n
    BY <1>1, <2>2, <2>3
  <2>5. m - 1 \notin T
    <3> HIDE DEF T
    <3> QED
      BY <2>1, <2>4
  <2> HIDE DEF k
  <2>6. path[k + 1] \in DOMAIN States
    BY <2>4, <2>5
  <2>7. path[k] = dp[k + 1][path[k + 1]].prev
    BY <1>2, <2>4 DEF GoesBack
  <2>8. dp[k + 1] = NextColumn(dp[k], segments[k + 1]) /\ IsColumn(dp[k])
    BY <1>1, <2>4 DEF Decoding
  <2>9. Continues(dp[k], dp[k + 1], segments[k + 1])
    BY <2>4, <2>8, NextColumnIs
  <2>10. path[k] \in DOMAIN States
    BY <2>6, <2>7, <2>9 DEF Continues
  <2> QED
    BY <2>2, <2>10 DEF k
<1>6. \A k \in 1 .. n : path[k] \in DOMAIN States
  <2> SUFFICES ASSUME NEW k \in 1 .. n PROVE path[k] \in DOMAIN States
    OBVIOUS
  <2>1. n - k \in 0 .. n - 1 /\ n - (n - k) = k
    BY <1>1
  <2> QED
    BY <1>5, <2>1
<1> HIDE DEF T
<1>7. PICK f : SumsOf(f, segments, found, n) /\ ScoreOfLabels(segments, found) = f[n]
  BY <1>1, ScoreIs
<1>8. f[n] \in Rational /\ AtLeast(f[n], last[path[n]].key[1])
  <2>1. Passes(path, found, n)
    BY <1>1, <1>2, <1>6 DEF Passes
  <2>2. Bounded(dp, path, f)
    BY <1>1, <1>7, <2>1, PathScores
  <2> QED
    BY <1>1, <1>2, <2>2 DEF Bounded
<1>9. PICK g : SumsOf(g, segments, labels, n) /\ ScoreOfLabels(segments, labels) = g[n]
  BY <1>1, ScoreIs
<1> DEFINE p == [k \in 1 .. n |-> CHOOSE q \in DOMAIN States : States[q] = labels[k]]
<1>10. Passes(p, labels, n)
  <2> SUFFICES ASSUME NEW k \in 1 .. n
               PROVE  p[k] \in DOMAIN States /\ labels[k] = States[p[k]]
    BY DEF Passes
  <2>1. labels[k] \in ToSet(States)
    BY <1>1
  <2>2. \E q \in DOMAIN States : States[q] = labels[k]
    BY <2>1, StatesAre DEF ToSet
  <2> QED
    BY <2>2
<1> HIDE DEF p
<1>11. g[n] \in Rational /\ AtLeast(last[p[n]].key[1], g[n]) /\ p[n] \in DOMAIN States
  <2>1. Bounded(dp, p, g)
    BY <1>1, <1>9, <1>10, PathScores
  <2> QED
    BY <1>1, <1>10, <2>1 DEF Bounded, Passes
<1>12. \A q \in DOMAIN States : IsRational(last[q].key[1])
  <2>1. IsColumn(last)
    BY <1>1 DEF Decoding
  <2> QED
    BY <2>1, KeyIs DEF IsColumn
<1>13. IsRational(f[n]) /\ IsRational(g[n])
  BY <1>8, <1>11, RationalIs
<1>14. AtLeast(f[n], last[p[n]].key[1])
  BY <1>4, <1>8, <1>11, <1>12, <1>13, AtLeastTransitive
<1>15. AtLeast(f[n], g[n])
  BY <1>11, <1>12, <1>13, <1>14, AtLeastTransitive
<1> QED
  BY <1>7, <1>9, <1>15

\* For any labels, confidences and forbidden transitions, and any number of segments:
\* of all labellings, Viterbi decoding gives the segments one of the greatest score.
THEOREM DecodingIsBest == Spec => ViterbiIsBest
<1>1. ASSUME OrderInv, ExplainInv, DecoderInv, [Next]_vars,
             op = "op3", op' # "op3", ViterbiEnabled, Len(segments) > 1,
             NEW labels \in [DOMAIN segments -> ToSet(States)]
      PROVE  LET found == [k \in DOMAIN segments |-> segments'[k].phase]
             IN  ~Less(ScoreOfLabels(segments, found), ScoreOfLabels(segments, labels))
  <2> DEFINE found == [k \in DOMAIN segments |-> segments'[k].phase]
             n == Len(segments)
  <2>1. /\ Ordered(segments) /\ n \in Nat /\ DOMAIN segments = 1 .. n
        /\ \A k \in 1 .. n : IsSegment(segments[k])
    BY <1>1, IsSeqHas DEF OrderInv, Ordered, Measured
  <2>2. stage = "smooth" /\ Relabel
    <3>1. SmoothSegments
      <4>1. ~TrackObjects /\ ~UNCHANGED vars
        BY <1>1 DEF TrackObjects, smootherVars, vars
      <4>2. ~DetectBoundaries
        BY <1>1, DetectStep
      <4>3. ~LabelSegments
        BY <1>1, LabelStep DEF smootherVars
      <4> QED
        BY <1>1, <4>1, <4>2, <4>3 DEF Next
    <3>2. ~MergeNext /\ ~EndRound /\ ~AbsorbNext /\ ~EndPass /\ ~CheckInvariants("done")
      BY <1>1 DEF MergeNext, EndRound, AbsorbNext, EndPass, CheckInvariants
    <3>3. ~ExtendColumns
      BY <1>1 DEF ExtendColumns
    <3> QED
      BY <3>1, <3>2, <3>3 DEF SmoothSegments, SmootherNext
  <2>3. /\ Len(dp) = n
        /\ segments' = [k \in DOMAIN segments |-> Relabelled(segments[k], Decoded[k])]
    BY <1>1, <2>2 DEF Relabel
  <2>4. \A k \in 1 .. n : found[k] = Decoded[k]
    BY <2>1, <2>3, RelabelledIs
  <2>5. \A k \in 1 .. n : Scored(segments[k])
    BY <1>1, <2>2, ExplainedIsScored
  <2>6. Decoding(segments, dp)
    BY <1>1 DEF DecoderInv
  <2> HIDE DEF found
  <2>7. AtLeast(ScoreOfLabels(segments, found), ScoreOfLabels(segments, labels))
    BY <1>1, <2>1, <2>3, <2>4, <2>5, <2>6, DecodedIsBest
  <2> QED
    BY <2>7 DEF AtLeast, found
<1>2. OrderInv /\ ExplainInv /\ DecoderInv /\ [Next]_vars =>
         [(op = "op3" /\ op' # "op3" /\ ViterbiEnabled /\ Len(segments) > 1) =>
            LET found == [k \in DOMAIN segments |-> segments'[k].phase]
            IN  \A labels \in [DOMAIN segments -> ToSet(States)] :
                    ~Less(ScoreOfLabels(segments, found), ScoreOfLabels(segments, labels))]_vars
  BY <1>1
<1>3. OrderInv /\ GoalsInv /\ [Next]_vars => GoalsInv'
  BY NextGoals
<1>4. OrderInv /\ ConfidentInv /\ [Next]_vars => ConfidentInv'
  BY NextConfident
<1>5. OrderInv /\ GoalsInv /\ ConfidentInv /\ ExplainInv /\ [Next]_vars => ExplainInv'
  BY NextExplain
<1>6. OrderInv /\ GoalsInv /\ ExplainInv /\ DecoderInv /\ [Next]_vars => DecoderInv'
  BY NextDecoder
<1> QED
  BY <1>2, <1>3, <1>4, <1>5, <1>6, InitGoals, InitExplain, InitDecoder, OrderIsInvariant,
     PTL DEF Spec, ViterbiIsBest

-----------------------------------------------------------------------------
(* The end of a run. *)

\* The stages that are left, counted down ...
StagesLeft ==
    CASE stage = "track" -> 4
      [] stage = "detect" -> 3
      [] stage = "label" -> 2
      [] stage = "smooth" -> 1
      [] OTHER -> 0

\* ... the operators of the smoother that are ...
OperatorsLeft(o) ==
    CASE o = "op1" -> 5
      [] o = "op2" -> 4
      [] o = "op1b" -> 3
      [] o = "op3" -> 2
      [] o = "op1c" -> 1
      [] o = "check" -> 0

\* ... the columns that Viterbi decoding may have to compute, of n segments when it
\* has m ...
ColumnsLeft(o, n, m) == IF o \in {"op1", "op2", "op1b", "op3"} THEN n - m ELSE 0

\* ... the steps of the smoother: those, and merges, each with the round that must
\* follow it, counted in rounds ...
SmoothingLeft(o, n, m, rounds) == OperatorsLeft(o) + ColumnsLeft(o, n, m) + 2 * n + rounds

Rounds == IF changed THEN 1 ELSE 0

\* ... and the steps of a stage: those, or attempts at segments.
StepsLeft ==
    CASE stage = "label" -> (Len(segments) + 1 - idx) * MaxRetries + (MaxRetries - attempt)
      [] stage = "smooth" -> SmoothingLeft(op, Len(segments), Len(dp), Rounds)
      [] OTHER -> 0

\* A step ends a stage, or leaves fewer steps of it.
Advances ==
    \/ StagesLeft' < StagesLeft
    \/ StagesLeft' = StagesLeft /\ StepsLeft' < StepsLeft

\* What these counts need to be numbers: nothing is counted beyond its end.
CountInv ==
    /\ stage \in {"track", "detect", "label", "smooth", "done", "aborted", "raised"}
    /\ op \in {"op1", "op2", "op1b", "op3", "op1c", "check"} /\ changed \in BOOLEAN
    /\ attempt \in 1 .. MaxRetries
    /\ stage \in {"track", "detect"} => idx = 1
    /\ stage = "label" => idx <= Len(segments) + 1
    /\ op = "op3" => Len(dp) <= Len(segments)

\* The counts begin right.
LEMMA InitCount == Init => CountInv
<1> SUFFICES ASSUME Init
             PROVE  CountInv
  OBVIOUS
<1>1. /\ stage \in {"track", "detect"} /\ op = "op1" /\ changed = FALSE /\ dp = << >>
      /\ idx = 1 /\ attempt = 1
  BY DEF Init, LabelerInit, SmootherInit
<1>2. attempt \in 1 .. MaxRetries
  BY <1>1, RetriesAssumption
<1> QED
  BY <1>1, <1>2 DEF CountInv

\* The labeler ends, goes on to the next segment or to the next attempt at one.
NextSegment ==
    /\ idx <= Len(segments) /\ idx' = idx + 1 /\ attempt' = 1 /\ LabelsOne
NextAttempt ==
    /\ attempt < MaxRetries /\ attempt' = attempt + 1 /\ UNCHANGED <<segments, idx, stage>>

LEMMA LabelAdvances ==
    ASSUME LabelSegments, idx \in Nat \ {0}
    PROVE  \/ stage' \in {"smooth", "done", "raised"} /\ attempt' = attempt
           \/ NextSegment
           \/ NextAttempt
<1>1. /\ stage = "label"
      /\ Degrades \/ LabelsOne \/ Stays \/ EndsLabeled
  BY LabelStep
<1>2. AfterLabeling \in {"smooth", "done"}
  BY DEF AfterLabeling
<1> HIDE DEF AfterLabeling
<1>3. ASSUME NEW reason, Degrade(AfterLabeling, reason)
      PROVE  stage' \in {"smooth", "done"} /\ attempt' = attempt
  BY <1>2, <1>3 DEF Degrade, Return
<1>4. ASSUME RetryOrFallBack, idx <= Len(segments)
      PROVE  NextSegment \/ NextAttempt
  <2>1. CASE attempt < MaxRetries
    BY <1>4, <2>1 DEF RetryOrFallBack, NextAttempt
  <2>2. CASE ~(attempt < MaxRetries)
    <3>1. /\ segments' = [segments EXCEPT ![idx] = Respond(@, "unknown", Zero)]
          /\ attempt' = 1 /\ idx' = idx + 1 /\ UNCHANGED <<stage, degraded, labelled>>
      BY <1>4, <2>2 DEF RetryOrFallBack
    <3>2. Zero \in Rational
      BY DEF Zero, Rational
    <3> QED
      BY <1>1, <1>4, <3>1, <3>2 DEF LabelsOne, NextSegment
  <2> QED
    BY <2>1, <2>2
<1>5. CASE FactoryFails(AfterLabeling)
  BY <1>3, <1>5 DEF FactoryFails
<1>6. CASE Answer
  <2>1. idx <= Len(segments) /\ idx' = idx + 1 /\ attempt' = 1
        /\ stage' = stage /\ labelled' = labelled
    BY <1>6 DEF Answer
  <2>2. ~Degrades /\ ~EndsLabeled
    BY <1>1, <2>1 DEF Degrades, EndsLabeled
  <2>3. ~Stays
    BY <2>1 DEF Stays
  <2> QED
    BY <1>1, <2>1, <2>2, <2>3 DEF NextSegment
<1>7. CASE Reject
  BY <1>4, <1>7 DEF Reject
<1>8. ASSUME NEW reason \in Faults, Fault(AfterLabeling, reason)
      PROVE  \/ stage' \in {"smooth", "done"} /\ attempt' = attempt
             \/ NextSegment \/ NextAttempt
  BY <1>3, <1>4, <1>8 DEF Fault
<1>9. CASE Propagate
  BY <1>9 DEF Propagate, labelerVars
<1>10. CASE LabelingEnds(AfterLabeling)
  BY <1>2, <1>10 DEF LabelingEnds, Return
<1> QED
  BY <1>3, <1>5, <1>6, <1>7, <1>8, <1>9, <1>10 DEF LabelSegments

\* A stage ends.
LEMMA StageAdvances ==
    ASSUME \/ stage = "track" /\ stage' = "detect"
           \/ stage = "detect" /\ stage' \in {"label", "done"}
           \/ stage = "label" /\ stage' \in {"smooth", "done", "raised"}
           \/ stage = "smooth" /\ stage' \in {"done", "aborted"}
    PROVE  Advances
  BY DEF Advances, StagesLeft

\* A further column is one more.
LEMMA FurtherLength ==
    ASSUME NEW d, IsSeq(d), NEW c
    PROVE  Len(Append(d, c)) = Len(d) + 1
<1> DEFINE S == ToSet(d) \cup {c}
<1>1. ToSet(d) \subseteq S /\ c \in S
  OBVIOUS
<1> HIDE DEF S
<1>2. d \in Seq(S)
  BY <1>1, SeqMonotonic DEF IsSeq
<1> QED
  BY <1>1, <1>2, AppendProperties

\* Labelling advances, and counts no segment beyond the last.
LEMMA LabelCounts ==
    ASSUME OrderInv, GoalsInv, CountInv, LabelSegments
    PROVE  CountInv' /\ Advances
<1>1. /\ stage = "label" /\ op = "op1" /\ op' = op /\ changed' = changed
      /\ idx \in Nat \ {0} /\ Ordered(segments) /\ IsSeq(segments)
      /\ attempt \in 1 .. MaxRetries
  BY LabelStep DEF smootherVars, OrderInv, GoalsInv, Ordered, CountInv
<1>2. Len(segments) \in Nat /\ MaxRetries \in Nat \ {0} /\ idx <= Len(segments) + 1
  BY <1>1, IsSeqHas, RetriesAssumption DEF CountInv
<1>3. CASE stage' \in {"smooth", "done", "raised"} /\ attempt' = attempt
  <2>1. Advances
    BY <1>1, <1>3, StageAdvances
  <2> QED
    BY <1>1, <1>3, <2>1 DEF CountInv
<1>4. CASE NextSegment
  <2>1. /\ idx <= Len(segments) /\ idx' = idx + 1 /\ attempt' = 1 /\ stage' = "label"
        /\ Len(segments') = Len(segments)
    BY <1>1, <1>4, LabelsOneKeeps DEF NextSegment, LabelsOne, SameCuts
  <2> DEFINE n == Len(segments) + 1 - idx
  <2>2. n \in Nat /\ n >= 1 /\ Len(segments') + 1 - idx' = n - 1
    BY <1>1, <1>2, <2>1
  <2>3. /\ StepsLeft = n * MaxRetries + (MaxRetries - attempt)
        /\ StepsLeft' = (n - 1) * MaxRetries + (MaxRetries - 1)
    BY <1>1, <2>1, <2>2 DEF StepsLeft
  <2> HIDE DEF n
  <2>4. (n - 1) * MaxRetries = n * MaxRetries - MaxRetries /\ n * MaxRetries \in Nat
    BY <1>2, <2>2
  <2>5. StepsLeft' < StepsLeft
    BY <1>1, <1>2, <2>3, <2>4
  <2>6. StagesLeft' = StagesLeft
    BY <1>1, <2>1 DEF StagesLeft
  <2> QED
    BY <1>1, <1>2, <2>1, <2>5, <2>6 DEF Advances, CountInv
<1>5. CASE NextAttempt
  <2>1. /\ attempt < MaxRetries /\ attempt' = attempt + 1
        /\ segments' = segments /\ idx' = idx /\ stage' = stage
    BY <1>5 DEF NextAttempt
  <2> DEFINE m == (Len(segments) + 1 - idx) * MaxRetries
  <2>2. m \in Int
    BY <1>1, <1>2
  <2>3. /\ StepsLeft = m + (MaxRetries - attempt)
        /\ StepsLeft' = m + (MaxRetries - (attempt + 1))
    BY <1>1, <2>1 DEF StepsLeft
  <2> HIDE DEF m
  <2>4. StepsLeft' < StepsLeft
    BY <1>1, <1>2, <2>1, <2>2, <2>3
  <2>5. StagesLeft' = StagesLeft
    BY <2>1 DEF StagesLeft
  <2> QED
    BY <1>1, <1>2, <2>1, <2>4, <2>5 DEF Advances, CountInv
<1> QED
  BY <1>1, <1>3, <1>4, <1>5, LabelAdvances

\* What is left of the smoother decreases with a merge, the end of a round that has
\* merged, the end of an operator, a column and the decoding, and it is a number.
LEMMA SmoothingLeftDecreases ==
    ASSUME NEW n \in Nat, NEW m \in Nat, NEW r \in {0, 1}
    PROVE  /\ \A o \in {"op1", "op2", "op1b", "op3", "op1c", "check"} :
                 /\ SmoothingLeft(o, n - 1, m, 1) < SmoothingLeft(o, n, m, r)
                 /\ SmoothingLeft(o, n, m, 0) < SmoothingLeft(o, n, m, 1)
                 /\ m <= n => SmoothingLeft(o, n, m, r) \in Nat
           /\ SmoothingLeft("op2", n, m, 0) < SmoothingLeft("op1", n, m, r)
           /\ SmoothingLeft("op1b", n, m, 0) < SmoothingLeft("op2", n, m, r)
           /\ SmoothingLeft("op3", n, m, 0) < SmoothingLeft("op2", n, m, r)
           /\ SmoothingLeft("op3", n, m, 0) < SmoothingLeft("op1b", n, m, r)
           /\ SmoothingLeft("check", n, m, 0) < SmoothingLeft("op1c", n, m, r)
           /\ SmoothingLeft("op3", n, m + 1, r) < SmoothingLeft("op3", n, m, r)
           /\ \A k \in Nat :
                 m <= n => /\ SmoothingLeft("op1c", n, k, 0) < SmoothingLeft("op3", n, m, r)
                           /\ SmoothingLeft("check", n, k, 0) < SmoothingLeft("op3", n, m, r)
<1>1. /\ OperatorsLeft("op1") = 5 /\ OperatorsLeft("op2") = 4 /\ OperatorsLeft("op1b") = 3
      /\ OperatorsLeft("op3") = 2 /\ OperatorsLeft("op1c") = 1 /\ OperatorsLeft("check") = 0
  BY DEF OperatorsLeft
<1>2. \A o \in {"op1", "op2", "op1b", "op3", "op1c", "check"} : OperatorsLeft(o) \in Nat
  BY <1>1
<1>3. ASSUME NEW o \in {"op1", "op2", "op1b", "op3", "op1c", "check"}
      PROVE  /\ SmoothingLeft(o, n - 1, m, 1) < SmoothingLeft(o, n, m, r)
             /\ SmoothingLeft(o, n, m, 0) < SmoothingLeft(o, n, m, 1)
             /\ m <= n => SmoothingLeft(o, n, m, r) \in Nat
  <2> DEFINE a == OperatorsLeft(o)
             b == ColumnsLeft(o, n, m)
             c == ColumnsLeft(o, n - 1, m)
  <2>1. a \in Nat
    BY <1>2
  <2>2. b \in Int /\ c \in Int /\ c <= b /\ (m <= n => b >= 0)
    BY DEF ColumnsLeft
  <2>3. /\ SmoothingLeft(o, n - 1, m, 1) = a + c + 2 * (n - 1) + 1
        /\ SmoothingLeft(o, n, m, 1) = a + b + 2 * n + 1
        /\ SmoothingLeft(o, n, m, 0) = a + b + 2 * n + 0
        /\ SmoothingLeft(o, n, m, r) = a + b + 2 * n + r
    BY DEF SmoothingLeft
  <2> HIDE DEF a, b, c
  <2> QED
    BY <2>1, <2>2, <2>3
<1>4. \A k \in Nat :
         /\ ColumnsLeft("op1", n, k) = n - k /\ ColumnsLeft("op2", n, k) = n - k
         /\ ColumnsLeft("op1b", n, k) = n - k /\ ColumnsLeft("op3", n, k) = n - k
         /\ ColumnsLeft("op1c", n, k) = 0 /\ ColumnsLeft("check", n, k) = 0
  BY DEF ColumnsLeft
<1>5. ASSUME NEW k \in Nat, NEW i \in {0, 1}
      PROVE  /\ SmoothingLeft("op1", n, k, i) = 5 + (n - k) + 2 * n + i
             /\ SmoothingLeft("op2", n, k, i) = 4 + (n - k) + 2 * n + i
             /\ SmoothingLeft("op1b", n, k, i) = 3 + (n - k) + 2 * n + i
             /\ SmoothingLeft("op3", n, k, i) = 2 + (n - k) + 2 * n + i
             /\ SmoothingLeft("op1c", n, k, i) = 1 + 2 * n + i
             /\ SmoothingLeft("check", n, k, i) = 2 * n + i
  BY <1>1, <1>4 DEF SmoothingLeft
<1>6. /\ SmoothingLeft("op2", n, m, 0) < SmoothingLeft("op1", n, m, r)
      /\ SmoothingLeft("op1b", n, m, 0) < SmoothingLeft("op2", n, m, r)
      /\ SmoothingLeft("op3", n, m, 0) < SmoothingLeft("op2", n, m, r)
      /\ SmoothingLeft("op3", n, m, 0) < SmoothingLeft("op1b", n, m, r)
      /\ SmoothingLeft("check", n, m, 0) < SmoothingLeft("op1c", n, m, r)
  BY <1>5
<1>7. SmoothingLeft("op3", n, m + 1, r) < SmoothingLeft("op3", n, m, r)
  <2>1. m + 1 \in Nat
    OBVIOUS
  <2> QED
    BY <1>5, <2>1
<1>8. ASSUME NEW k \in Nat, m <= n
      PROVE  /\ SmoothingLeft("op1c", n, k, 0) < SmoothingLeft("op3", n, m, r)
             /\ SmoothingLeft("check", n, k, 0) < SmoothingLeft("op3", n, m, r)
  BY <1>5, <1>8
<1> QED
  BY <1>3, <1>6, <1>7, <1>8

\* Smoothing advances, and computes no column beyond the last segment.
LEMMA SmoothCounts ==
    ASSUME OrderInv, DecoderInv, CountInv, SmoothSegments
    PROVE  CountInv' /\ Advances
<1>1. /\ stage = "smooth" /\ attempt' = attempt /\ attempt \in 1 .. MaxRetries
      /\ Ordered(segments) /\ IsSeq(segments) /\ Len(segments) \in Nat
      /\ IsSeq(dp) /\ Len(dp) \in Nat /\ Len(<< >>) = 0
  BY IsSeqHas, EmptySeq
     DEF SmoothSegments, labelerVars, OrderInv, Ordered, DecoderInv, Decoding, CountInv
<1>2. /\ op \in {"op1", "op2", "op1b", "op3", "op1c", "check"} /\ changed \in BOOLEAN
      /\ (op = "op3" => Len(dp) <= Len(segments))
      /\ (op # "op3" => Len(dp) = 0)
  BY <1>1 DEF CountInv, DecoderInv
<1> DEFINE n == Len(segments)
           m == Len(dp)
<1>3. StepsLeft = SmoothingLeft(op, n, m, Rounds)
  BY <1>1 DEF StepsLeft
<1>4. /\ Rounds \in {0, 1} /\ (changed = TRUE => Rounds = 1)
      /\ (changed' = TRUE => Rounds' = 1) /\ (changed' = FALSE => Rounds' = 0)
  BY DEF Rounds
<1>5. ASSUME stage' = "smooth",
             op' \in {"op1", "op2", "op1b", "op3", "op1c", "check"}, changed' \in BOOLEAN,
             op' = "op3" => Len(dp') <= Len(segments'),
             SmoothingLeft(op', Len(segments'), Len(dp'), Rounds')
                < SmoothingLeft(op, n, m, Rounds)
      PROVE  CountInv' /\ Advances
  <2>1. StepsLeft' = SmoothingLeft(op', Len(segments'), Len(dp'), Rounds')
    BY <1>5 DEF StepsLeft
  <2> QED
    BY <1>1, <1>3, <1>5, <2>1 DEF CountInv, Advances, StagesLeft
<1>6. CASE MergeNext /\ UNCHANGED dp /\ UNCHANGED stage
  <2>1. Len(segments') = Len(segments) - 1
    BY <1>1, <1>6, SmoothStep, ReplaceIs DEF JoinsTwo
  <2>2. op \in {"op1", "op1b", "op1c"} /\ op' = op /\ changed' = TRUE /\ dp' = dp
    BY <1>6 DEF MergeNext
  <2>3. SmoothingLeft(op, n - 1, m, 1) < SmoothingLeft(op, n, m, Rounds)
    BY <1>1, <1>2, <1>4, <2>2, SmoothingLeftDecreases
  <2> QED
    BY <1>1, <1>4, <1>5, <1>6, <2>1, <2>2, <2>3
<1>7. CASE AbsorbNext /\ UNCHANGED dp /\ UNCHANGED stage
  <2>1. Len(segments') = Len(segments) - 1
    BY <1>1, <1>7, SmoothStep, ReplaceIs DEF JoinsTwo
  <2>2. op = "op2" /\ op' = op /\ changed' = TRUE /\ dp' = dp
    BY <1>7 DEF AbsorbNext
  <2>3. SmoothingLeft(op, n - 1, m, 1) < SmoothingLeft(op, n, m, Rounds)
    BY <1>1, <1>2, <1>4, <2>2, SmoothingLeftDecreases
  <2> QED
    BY <1>1, <1>4, <1>5, <1>7, <2>1, <2>2, <2>3
<1>8. CASE EndRound /\ UNCHANGED dp /\ UNCHANGED stage
  <2>1. /\ op \in {"op1", "op1b", "op1c"} /\ segments' = segments /\ dp' = dp
        /\ changed' = FALSE
        /\ \/ changed = TRUE /\ op' = op
           \/ op' = AfterMerging
    BY <1>2, <1>8 DEF EndRound, Enter
  <2>2. stage' = "smooth" /\ Len(segments') = n /\ Len(dp') = m /\ Rounds' = 0
    BY <1>1, <1>4, <1>8, <2>1
  <2>3. changed' \in BOOLEAN
    BY <2>1
  <2>4. CASE changed = TRUE /\ op' = op
    <3>1. SmoothingLeft(op, n, m, 0) < SmoothingLeft(op, n, m, Rounds)
      BY <1>1, <1>2, <1>4, <2>1, <2>4, SmoothingLeftDecreases
    <3>2. op' = "op3" => Len(dp') <= Len(segments')
      BY <2>1, <2>4
    <3> QED
      BY <1>2, <1>5, <2>2, <2>3, <2>4, <3>1, <3>2
  <2>5. CASE op' = AfterMerging
    <3>1. \/ op = "op1" /\ op' = "op2"
          \/ op = "op1b" /\ op' = "op3"
          \/ op = "op1c" /\ op' = "check"
      BY <2>1, <2>5 DEF AfterMerging
    <3>2. SmoothingLeft(op', n, m, 0) < SmoothingLeft(op, n, m, Rounds)
      BY <1>1, <1>2, <1>4, <3>1, SmoothingLeftDecreases
    <3>3. m <= n
      BY <1>1, <1>2, <2>1
    <3>4. op' \in {"op1", "op2", "op1b", "op3", "op1c", "check"}
      BY <3>1
    <3> QED
      BY <1>5, <2>2, <2>3, <3>2, <3>3, <3>4
  <2> QED
    BY <2>1, <2>4, <2>5
<1>9. CASE EndPass /\ UNCHANGED dp /\ UNCHANGED stage
  <2>1. /\ op = "op2" /\ segments' = segments /\ dp' = dp
        /\ changed' = FALSE
        /\ \/ changed = TRUE /\ op' = op
           \/ op' \in {"op1b", "op3"}
    BY <1>2, <1>9 DEF EndPass, Enter
  <2>2. stage' = "smooth" /\ Len(segments') = n /\ Len(dp') = m /\ Rounds' = 0
    BY <1>1, <1>4, <1>9, <2>1
  <2>3. changed' \in BOOLEAN
    BY <2>1
  <2>4. CASE changed = TRUE /\ op' = op
    <3>1. SmoothingLeft(op, n, m, 0) < SmoothingLeft(op, n, m, Rounds)
      BY <1>1, <1>2, <1>4, <2>1, <2>4, SmoothingLeftDecreases
    <3>2. op' = "op3" => Len(dp') <= Len(segments')
      BY <2>1, <2>4
    <3> QED
      BY <1>2, <1>5, <2>2, <2>3, <2>4, <3>1, <3>2
  <2>5. CASE op' \in {"op1b", "op3"}
    <3>1. SmoothingLeft(op', n, m, 0) < SmoothingLeft(op, n, m, Rounds)
      BY <1>1, <1>2, <1>4, <2>1, <2>5, SmoothingLeftDecreases
    <3>2. m <= n
      BY <1>1, <1>2, <2>1
    <3>3. op' \in {"op1", "op2", "op1b", "op3", "op1c", "check"}
      BY <2>5
    <3> QED
      BY <1>5, <2>2, <2>3, <3>1, <3>2, <3>3
  <2> QED
    BY <2>1, <2>4, <2>5
<1>10. CASE ExtendColumns /\ UNCHANGED stage
  <2>1. /\ op = "op3" /\ op' = op /\ changed' = changed /\ segments' = segments
        /\ Len(dp) < Len(segments) /\ Len(dp') = Len(dp) + 1
    BY <1>1, <1>10, FurtherLength DEF ExtendColumns
  <2>2. SmoothingLeft("op3", n, m + 1, Rounds) < SmoothingLeft("op3", n, m, Rounds)
    BY <1>1, <1>2, <1>4, SmoothingLeftDecreases
  <2>3. Len(dp') <= Len(segments')
    BY <1>1, <2>1
  <2>4. changed' \in BOOLEAN /\ Rounds' = Rounds
    BY <1>2, <2>1 DEF Rounds
  <2> QED
    BY <1>1, <1>5, <1>10, <2>1, <2>2, <2>3, <2>4
<1>11. CASE Relabel /\ UNCHANGED stage
  <2>1. op = "op3" /\ op' \in {"op1c", "check"} /\ changed' = FALSE /\ Len(dp') = 0
    BY <1>1, <1>11 DEF Relabel, Enter
  <2>2. Len(segments') = Len(segments)
    BY <1>1, <1>11, SmoothStep, RelabelIs DEF SameCuts
  <2>3. SmoothingLeft(op', n, Len(dp'), 0) < SmoothingLeft("op3", n, m, Rounds)
    BY <1>1, <1>2, <1>4, <2>1, SmoothingLeftDecreases
  <2> QED
    BY <1>1, <1>4, <1>5, <1>11, <2>1, <2>2, <2>3
<1>12. CASE CheckInvariants("done")
  <2>1. stage' \in {"done", "aborted"} /\ op' = op /\ changed' = changed
        /\ dp' = dp /\ segments' = segments
    BY <1>12 DEF CheckInvariants, smootherVars
  <2>2. Advances
    BY <1>1, <2>1, StageAdvances
  <2> QED
    BY <1>1, <1>2, <2>1, <2>2 DEF CountInv
<1> QED
  BY <1>6, <1>7, <1>8, <1>9, <1>10, <1>11, <1>12 DEF SmoothSegments, SmootherNext

\* Every step but stuttering advances.
LEMMA NextAdvances ==
    ASSUME OrderInv, GoalsInv, DecoderInv, CountInv, Next
    PROVE  CountInv' /\ Advances
<1>1. CASE TrackObjects
  <2>1. /\ stage = "track" /\ stage' = "detect" /\ Advances
        /\ UNCHANGED <<idx, attempt, op, changed, dp, segments>>
    BY <1>1, StageAdvances DEF TrackObjects, labelerVars, smootherVars
  <2> QED
    BY <2>1 DEF CountInv
<1>2. CASE DetectBoundaries
  <2>1. /\ stage = "detect" /\ stage' \in {"label", "done"}
        /\ UNCHANGED <<idx, attempt, op, changed, dp>>
    BY <1>2, DetectStep DEF DetectBoundaries, smootherVars
  <2>2. Advances
    BY <2>1, StageAdvances
  <2>3. op = "op1" /\ idx = 1
    BY <2>1 DEF CountInv, GoalsInv
  <2>4. Len(segments') \in Nat
    <3>1. PICK E, up : Events(E) /\ segments' = Bracket(Edges(E, up))
      BY <1>2, DetectStep
    <3> QED
      BY <3>1, BracketIs, IsSeqHas DEF Ordered
  <2> QED
    BY <2>1, <2>2, <2>3, <2>4 DEF CountInv
<1> QED
  BY <1>1, <1>2, LabelCounts, SmoothCounts DEF Next

\* An annotation cannot go on for ever: every step ends a stage or an operator, or uses
\* up an attempt at a segment, a merge, a round or a column; how many are left is a
\* number, and it only decreases.  This is what lets it end (AnnotationEnds), whatever
\* the model answers and however often one goal of the smoother undoes the other.
THEOREM AnnotationRunsOut ==
    Spec => /\ [](StagesLeft \in 0 .. 4 /\ StepsLeft \in Nat)
            /\ [][Advances]_vars
<1>1. CountInv /\ OrderInv /\ DecoderInv => StagesLeft \in 0 .. 4 /\ StepsLeft \in Nat
  <2> SUFFICES ASSUME CountInv, OrderInv, DecoderInv
               PROVE  StagesLeft \in 0 .. 4 /\ StepsLeft \in Nat
    OBVIOUS
  <2>1. Len(segments) \in Nat /\ idx \in Nat \ {0} /\ Len(dp) \in Nat
        /\ (op # "op3" => Len(dp) = 0)
    BY IsSeqHas, EmptySeq DEF OrderInv, Ordered, DecoderInv, Decoding
  <2>2. StagesLeft \in 0 .. 4
    BY DEF StagesLeft
  <2>3. SmoothingLeft(op, Len(segments), Len(dp), Rounds) \in Nat
    <3>1. Len(dp) <= Len(segments)
      BY <2>1 DEF CountInv
    <3> QED
      BY <2>1, <3>1, SmoothingLeftDecreases DEF CountInv, Rounds
  <2>4. CASE stage = "label"
    <3> DEFINE n == Len(segments) + 1 - idx
    <3>1. n \in Nat /\ MaxRetries \in Nat /\ MaxRetries - attempt \in Nat
      BY <2>1, <2>4, RetriesAssumption DEF CountInv
    <3>2. StepsLeft = n * MaxRetries + (MaxRetries - attempt)
      BY <2>4 DEF StepsLeft
    <3> HIDE DEF n
    <3>3. n * MaxRetries \in Nat
      BY <3>1
    <3>4. StepsLeft \in Nat
      BY <3>1, <3>2, <3>3
    <3> QED
      BY <2>2, <3>4
  <2>5. CASE stage # "label"
    <3>1. StepsLeft \in Nat
      BY <2>1, <2>3, <2>5 DEF StepsLeft
    <3> QED
      BY <2>2, <3>1
  <2> QED
    BY <2>2, <2>4, <2>5
<1>2. OrderInv /\ GoalsInv /\ DecoderInv /\ CountInv /\ [Next]_vars
        => CountInv' /\ [Advances]_vars
  <2> SUFFICES ASSUME OrderInv, GoalsInv, DecoderInv, CountInv, [Next]_vars
               PROVE  CountInv' /\ [Advances]_vars
    OBVIOUS
  <2>1. CASE Next
    BY <2>1, NextAdvances
  <2>2. CASE UNCHANGED vars
    BY <2>2 DEF vars, labelerVars, smootherVars, CountInv
  <2> QED
    BY <2>1, <2>2
<1>3. OrderInv /\ GoalsInv /\ [Next]_vars => GoalsInv'
  BY NextGoals
<1>4. OrderInv /\ ConfidentInv /\ [Next]_vars => ConfidentInv'
  BY NextConfident
<1>5. OrderInv /\ GoalsInv /\ ConfidentInv /\ ExplainInv /\ [Next]_vars => ExplainInv'
  BY NextExplain
<1>6. OrderInv /\ GoalsInv /\ ExplainInv /\ DecoderInv /\ [Next]_vars => DecoderInv'
  BY NextDecoder
<1> QED
  BY <1>1, <1>2, <1>3, <1>4, <1>5, <1>6, InitGoals, InitExplain, InitDecoder, InitCount,
     OrderIsInvariant, PTL DEF Spec
=============================================================================
