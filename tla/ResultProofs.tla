---------------------------- MODULE ResultProofs ----------------------------
(***************************************************************************)
(* Theorems of RegionChart, Overlay and Comparison, what becomes of an     *)
(* opened result: for every chart, picture and window of it, and every two *)
(* sides that are compared.                                                *)
(*                                                                         *)
(* Percentiles are ranks, ranks are counts, and a colour is a rounded      *)
(* share of a scale; the theorems rest on what each of the three can never *)
(* do: leave its field, or put a larger value lower.  A chart rests on the *)
(* crop: which cells it keeps, and where it puts what they hold.           *)
(***************************************************************************)
EXTENDS RetrievalProofs

-----------------------------------------------------------------------------
(* Ranks, percentiles and rounding, of pictures and comparisons. *)

LEMMA PictureSame ==
    ASSUME NEW S
    PROVE  /\ Picture!Cardinality(S) = Cardinality(S) /\ Pair!Cardinality(S) = Cardinality(S)
           /\ Picture!Min(S) = Min(S) /\ Picture!Max(S) = Max(S)
           /\ Pair!Min(S) = Min(S) /\ Pair!Max(S) = Max(S)
  BY DEF Cardinality, Picture!Cardinality, Pair!Cardinality, Min, Max, Picture!Min, Picture!Max,
         Pair!Min, Pair!Max

\* The members of K that f takes below v, or to v at most, and the value of rank k.
Under(K, f, v) == {i \in K : f[i] < v}
UpTo(K, f, v) == {i \in K : f[i] <= v}
RankIn(K, f, k) ==
    CHOOSE v \in {f[i] : i \in K} :
        Cardinality(Under(K, f, v)) < k /\ k <= Cardinality(UpTo(K, f, v))

LEMMA CountsAreWhole ==
    ASSUME NEW K, IsFiniteSet(K), NEW f, NEW v
    PROVE  /\ IsFiniteSet(Under(K, f, v)) /\ Cardinality(Under(K, f, v)) \in Nat
           /\ IsFiniteSet(UpTo(K, f, v)) /\ Cardinality(UpTo(K, f, v)) \in Nat
<1>1. Under(K, f, v) \in SUBSET K /\ UpTo(K, f, v) \in SUBSET K
  BY DEF Under, UpTo
<1>2. IsFiniteSet(Under(K, f, v)) /\ IsFiniteSet(UpTo(K, f, v))
  BY <1>1, FS_Subset
<1> QED
  BY <1>2, FS_CardinalityType

\* Each rank has a value.
LEMMA RankLaws ==
    ASSUME NEW K, IsFiniteSet(K), NEW f, \A i \in K : f[i] \in Int, NEW k \in 1 .. Cardinality(K)
    PROVE  /\ RankIn(K, f, k) \in {f[i] : i \in K}
           /\ Cardinality(Under(K, f, RankIn(K, f, k))) < k
           /\ k <= Cardinality(UpTo(K, f, RankIn(K, f, k)))
<1> DEFINE V == {f[i] : i \in K}
           G == {v \in V : k <= Cardinality(UpTo(K, f, v))}
<1>1. Cardinality(K) \in Nat /\ K # {}
  BY FS_CardinalityType, FS_EmptySet
<1>2. V \in SUBSET Int /\ IsFiniteSet(V) /\ V # {}
  BY <1>1, FiniteImage
<1>3. Max(V) \in V /\ \A x \in V : x <= Max(V)
  <2> HIDE DEF V
  <2> QED
    BY <1>2, Extremes
<1>4. UpTo(K, f, Max(V)) = K
  BY <1>3 DEF UpTo
<1>5. Max(V) \in G
  <2>1. k <= Cardinality(UpTo(K, f, Max(V)))
    BY <1>1, <1>4
  <2> HIDE DEF V
  <2> QED
    BY <1>3, <2>1
<1>6. G \in SUBSET Int /\ IsFiniteSet(G) /\ G # {}
  <2>1. G \in SUBSET V
    OBVIOUS
  <2> QED
    BY <1>2, <1>5, <2>1, FS_Subset
<1> DEFINE v == Min(G)
<1>7. v \in G /\ \A x \in G : v <= x
  <2> HIDE DEF G
  <2> QED
    BY <1>6, Extremes
<1>8. Cardinality(Under(K, f, v)) < k
  <2> DEFINE L == {w \in V : w < v}
  <2>1. CASE L = {}
    <3>1. Under(K, f, v) = {}
      BY <2>1 DEF Under
    <3> QED
      BY <3>1, FS_EmptySet
  <2>2. CASE L # {}
    <3>1. L \in SUBSET Int /\ IsFiniteSet(L)
      <4>1. L \in SUBSET V
        OBVIOUS
      <4> QED
        BY <1>2, <4>1, FS_Subset
    <3> DEFINE w == Max(L)
    <3>2. w \in L /\ \A x \in L : x <= w
      <4> HIDE DEF L
      <4> QED
        BY <2>2, <3>1, Extremes
    <3> HIDE DEF w
    <3>3. Under(K, f, v) = UpTo(K, f, w)
      <4>1. v \in Int /\ w \in V /\ w \in Int /\ w < v
        BY <1>2, <1>6, <1>7, <3>2
      <4>2. ASSUME NEW i \in K PROVE f[i] < v <=> f[i] <= w
        <5>1. f[i] \in V /\ f[i] \in Int
          OBVIOUS
        <5>2. f[i] < v => f[i] \in L
          BY <5>1
        <5> HIDE DEF L, V, G, v
        <5> QED
          BY <3>2, <4>1, <5>1, <5>2
      <4> HIDE DEF v
      <4> QED
        BY <4>2 DEF Under, UpTo
    <3>4. w \in V /\ w < v
      BY <3>2
    <3>5. w \notin G
      <4>1. v \in Int /\ w \in Int
        BY <1>2, <1>6, <1>7, <3>4
      <4> HIDE DEF G, v
      <4> QED
        BY <1>7, <3>4, <4>1
    <3>6. ~(k <= Cardinality(UpTo(K, f, w)))
      BY <3>4, <3>5
    <3> QED
      BY <3>3, <3>6, CountsAreWhole
  <2> QED
    BY <2>1, <2>2
<1>9. \E x \in V : Cardinality(Under(K, f, x)) < k /\ k <= Cardinality(UpTo(K, f, x))
  BY <1>7, <1>8
<1> QED
  BY <1>9 DEF RankIn

\* A higher rank has no lower a value.
LEMMA RanksRise ==
    ASSUME NEW K, IsFiniteSet(K), NEW f, \A i \in K : f[i] \in Int,
           NEW j \in 1 .. Cardinality(K), NEW k \in 1 .. Cardinality(K), j <= k
    PROVE  RankIn(K, f, j) <= RankIn(K, f, k)
<1> DEFINE u == RankIn(K, f, j)
           v == RankIn(K, f, k)
<1>1. /\ Cardinality(Under(K, f, u)) < j /\ k <= Cardinality(UpTo(K, f, v))
      /\ u \in Int /\ v \in Int
  BY RankLaws
<1> HIDE DEF u, v
<1>2. ASSUME v < u PROVE FALSE
  <2>1. UpTo(K, f, v) \in SUBSET Under(K, f, u)
    BY <1>1, <1>2 DEF UpTo, Under
  <2>2. Cardinality(UpTo(K, f, v)) <= Cardinality(Under(K, f, u))
    BY <2>1, CountsAreWhole, FS_Subset
  <2> QED
    BY <1>1, <2>2, CountsAreWhole
<1> QED
  BY <1>1, <1>2 DEF u, v

PercentileIn(K, f, p) ==
    LET rank == (Cardinality(K) - 1) * p
        at == RankIn(K, f, rank \div 100 + 1)
    IN IF rank % 100 = 0 THEN 100 * at
       ELSE 100 * at + (rank % 100) * (RankIn(K, f, rank \div 100 + 2) - at)

LEMMA ThePercentiles ==
    ASSUME NEW f, NEW p
    PROVE  /\ Pair!Percentile(f, p) = PercentileIn(Pair!Known(f), f, p)
           /\ Picture!Percentile(f, p) = PercentileIn(Picture!Known(f), f, p)
<1>1. ASSUME NEW k PROVE Pair!Ranked(f, k) = RankIn(Pair!Known(f), f, k)
  BY PictureSame DEF Pair!Ranked, RankIn, Under, UpTo
<1>2. ASSUME NEW k PROVE Picture!Ranked(f, k) = RankIn(Picture!Known(f), f, k)
  BY PictureSame DEF Picture!Ranked, RankIn, Under, UpTo
<1> QED
  BY <1>1, <1>2, PictureSame DEF Pair!Percentile, Picture!Percentile, PercentileIn, Pair!Unit, Picture!Unit

\* Between two ranks.
LEMMA Between ==
    ASSUME NEW e \in 0 .. 100, NEW d \in Nat
    PROVE  e * d \in Nat /\ e * d <= 100 * d
  OBVIOUS

\* The rank of a percentile of n values, what is left over, and the next rank.
Place(n, p) == ((n - 1) * p) \div 100 + 1
Rest(n, p) == ((n - 1) * p) % 100
NextPlace(n, p) == IF Rest(n, p) = 0 THEN Place(n, p) ELSE Place(n, p) + 1

\* A percentile lies between the value of its rank and that of the next.
LEMMA PercentileLaws ==
    ASSUME NEW K, IsFiniteSet(K), K # {}, NEW f, \A i \in K : f[i] \in Int, NEW p \in {2, 98}
    PROVE  LET n == Cardinality(K)
               a == RankIn(K, f, Place(n, p))
               b == RankIn(K, f, NextPlace(n, p))
           IN  /\ n \in Nat \ {0} /\ Place(n, p) \in 1 .. n /\ NextPlace(n, p) \in 1 .. n
               /\ Rest(n, p) \in 0 .. 99 /\ (n - 1) * p = 100 * (Place(n, p) - 1) + Rest(n, p)
               /\ a \in Int /\ b \in Int /\ a <= b
               /\ PercentileIn(K, f, p) = 100 * a + Rest(n, p) * (b - a)
               /\ PercentileIn(K, f, p) \in Int
               /\ 100 * a <= PercentileIn(K, f, p) /\ PercentileIn(K, f, p) <= 100 * b
<1> DEFINE n == Cardinality(K)
           rank == (n - 1) * p
           k == rank \div 100 + 1
           e == rank % 100
           j == IF e = 0 THEN k ELSE k + 1
           a == RankIn(K, f, k)
           b == RankIn(K, f, j)
<1>1. n \in Nat \ {0}
  BY FS_CardinalityType, FS_EmptySet
<1> HIDE DEF n
<1>2. rank \in Nat /\ rank <= 98 * (n - 1)
  <2>1. p = 2 \/ p = 98
    OBVIOUS
  <2> QED
    BY <1>1, <2>1
<1> HIDE DEF rank
<1>3. k \in Int /\ e \in 0 .. 99 /\ rank = 100 * (k - 1) + e
  BY <1>2
<1> HIDE DEF k, e
<1>4. k \in 1 .. n /\ j \in 1 .. n /\ k <= j
  BY <1>1, <1>2, <1>3
<1>5. a \in Int /\ b \in Int /\ a <= b
  <2>1. k \in 1 .. Cardinality(K) /\ j \in 1 .. Cardinality(K)
    BY <1>4 DEF n
  <2> HIDE DEF j
  <2>2. a \in {f[i] : i \in K} /\ b \in {f[i] : i \in K}
    BY <2>1, RankLaws
  <2>3. a <= b
    BY <1>4, <2>1, RanksRise
  <2> QED
    BY <2>2, <2>3
<1>6. PercentileIn(K, f, p) = IF e = 0 THEN 100 * a ELSE 100 * a + e * (RankIn(K, f, rank \div 100 + 2) - a)
  BY DEF PercentileIn, e, a, k, rank, n
<1>7. rank \div 100 + 2 = k + 1
  BY <1>2 DEF k
<1> DEFINE P == PercentileIn(K, f, p)
           d == b - a
<1>8. P = 100 * a + e * d
  <2>1. CASE e = 0
    <3>1. P = 100 * a
      BY <1>6, <2>1
    <3> HIDE DEF P, a, b, d
    <3>2. d \in Int
      BY <1>5 DEF d
    <3> QED
      BY <1>5, <2>1, <3>1, <3>2
  <2>2. CASE e # 0
    BY <1>6, <1>7, <2>2
  <2> QED
    BY <2>1, <2>2
<1>9. d \in Nat /\ e * d \in Nat /\ e * d <= 100 * d
  <2>1. d \in Nat
    BY <1>5
  <2>2. e \in 0 .. 100
    BY <1>3
  <2> HIDE DEF d
  <2> QED
    BY <2>1, <2>2, Between
<1>10. P \in Int /\ 100 * a <= P /\ P <= 100 * b
  <2> DEFINE m == e * d
  <2>1. m \in Nat /\ m <= 100 * (b - a) /\ P = 100 * a + m
    BY <1>8, <1>9
  <2> HIDE DEF m, P, a, b
  <2> QED
    BY <1>5, <2>1
<1>11. k = Place(n, p) /\ e = Rest(n, p) /\ j = NextPlace(n, p)
  BY DEF k, e, rank, Place, Rest, NextPlace
<1>12. rank = (n - 1) * p
  BY DEF rank
<1> HIDE DEF P, j, a, b
<1>13. PercentileIn(K, f, p) = 100 * a + e * (b - a)
  BY <1>8 DEF P
<1>14. a = RankIn(K, f, Place(n, p)) /\ b = RankIn(K, f, NextPlace(n, p))
  BY <1>11 DEF a, b
<1> QED
  BY <1>1, <1>3, <1>4, <1>5, <1>10, <1>11, <1>12, <1>13, <1>14 DEF n, P

\* Percentiles of one field are in order, and between its extremes.
LEMMA PercentilesRise ==
    ASSUME NEW K, IsFiniteSet(K), K # {}, NEW f, \A i \in K : f[i] \in Int
    PROVE  /\ PercentileIn(K, f, 2) \in Int /\ PercentileIn(K, f, 98) \in Int
           /\ PercentileIn(K, f, 2) <= PercentileIn(K, f, 98)
           /\ \E i \in K : 100 * f[i] <= PercentileIn(K, f, 2)
           /\ \E i \in K : PercentileIn(K, f, 98) <= 100 * f[i]
<1> DEFINE n == Cardinality(K)
           r(p) == (n - 1) * p
           k(p) == Place(n, p)
           e(p) == Rest(n, p)
           j(p) == NextPlace(n, p)
           R(m) == RankIn(K, f, m)
           P(p) == PercentileIn(K, f, p)
           Laws(p) ==
             /\ n \in Nat \ {0} /\ k(p) \in 1 .. n /\ j(p) \in 1 .. n
             /\ e(p) \in 0 .. 99 /\ r(p) = 100 * (k(p) - 1) + e(p)
             /\ R(k(p)) \in Int /\ R(j(p)) \in Int /\ R(k(p)) <= R(j(p))
             /\ P(p) = 100 * R(k(p)) + e(p) * (R(j(p)) - R(k(p)))
             /\ P(p) \in Int /\ 100 * R(k(p)) <= P(p) /\ P(p) <= 100 * R(j(p))
<1>1. Laws(2) /\ Laws(98)
  <2> SUFFICES ASSUME NEW p \in {2, 98} PROVE Laws(p)
    OBVIOUS
  <2> QED
    BY PercentileLaws
<1>2. \A m \in 1 .. n : R(m) \in {f[i] : i \in K}
  BY RankLaws
<1>3. \A l, m \in 1 .. n : l <= m => R(l) <= R(m)
  BY RanksRise
<1>4. r(2) = (n - 1) * 2 /\ r(98) = (n - 1) * 98
  OBVIOUS
<1>5. /\ j(2) = IF e(2) = 0 THEN k(2) ELSE k(2) + 1
      /\ j(98) = IF e(98) = 0 THEN k(98) ELSE k(98) + 1
  BY DEF NextPlace
<1> HIDE DEF n, r, k, e, j, R, P
<1>6. k(2) <= k(98) /\ (k(2) = k(98) => e(2) <= e(98))
  BY <1>1, <1>4
<1>7. CASE k(2) < k(98)
  <2>0. k(2) \in Int /\ k(98) \in Int
    BY <1>1
  <2>1. j(2) <= k(98)
    BY <1>5, <1>7, <2>0
  <2>2. R(j(2)) <= R(k(98))
    BY <1>1, <1>3, <2>1
  <2>3. P(2) <= P(98)
    BY <1>1, <2>2
  <2> QED
    BY <1>1, <1>2, <2>3 DEF P
<1>8. CASE k(2) = k(98)
  <2> DEFINE a == R(k(2))
             x == e(2)
             y == e(98)
             b == R(j(98))
  <2>1. x <= y /\ x \in 0 .. 99 /\ y \in 0 .. 99 /\ a \in Int /\ b \in Int /\ a <= b
    BY <1>1, <1>6, <1>8
  <2>2. P(98) = 100 * a + y * (b - a)
    BY <1>1, <1>8
  <2>3. P(2) = 100 * a + x * (b - a)
    <3>1. CASE x = 0
      <4>1. P(2) = 100 * a + 0 * (R(j(2)) - a) /\ R(j(2)) \in Int
        BY <1>1, <3>1
      <4> HIDE DEF a, b, x
      <4> QED
        BY <2>1, <3>1, <4>1
    <3>2. CASE x # 0
      <4>1. j(2) = j(98)
        BY <1>5, <1>8, <2>1, <3>2
      <4> QED
        BY <1>1, <4>1
    <3> QED
      BY <3>1, <3>2
  <2> HIDE DEF a, b, x, y
  <2>4. x * (b - a) <= y * (b - a)
    <3>1. \A d \in Nat, s \in Nat : (x + s) * d = x * d + s * d /\ s * d \in Nat /\ x * d \in Nat
      BY <2>1
    <3>2. b - a \in Nat /\ y - x \in Nat /\ y = x + (y - x)
      BY <2>1
    <3> QED
      BY <3>1, <3>2
  <2>5. x * (b - a) \in Int /\ y * (b - a) \in Int
    BY <2>1
  <2>6. P(2) <= P(98)
    BY <2>1, <2>2, <2>3, <2>4, <2>5
  <2> QED
    BY <1>1, <1>2, <2>6 DEF P
<1>9. k(2) \in Int /\ k(98) \in Int
  BY <1>1
<1> QED
  BY <1>6, <1>7, <1>8, <1>9

\* Rounded halves: never further than half away, and never out of order.
LEMMA Halves ==
    ASSUME NEW a \in Int, NEW d \in Nat \ {0}
    PROVE  /\ Pair!RoundHalfEven(a, d) \in Int
           /\ 2 * (d * Pair!RoundHalfEven(a, d)) <= 2 * a + d
           /\ 2 * a <= 2 * (d * Pair!RoundHalfEven(a, d)) + d
<1> DEFINE q == a \div d
           r == a % d
           h == Pair!RoundHalfEven(a, d)
<1>1. q \in Int /\ r \in 0 .. (d - 1) /\ a = d * q + r
  OBVIOUS
<1>2. h = IF 2 * r < d THEN q ELSE IF 2 * r > d THEN q + 1 ELSE q + (q % 2)
  BY DEF Pair!RoundHalfEven
<1> HIDE DEF q, r, h
<1>3. q % 2 \in {0, 1}
  BY <1>1
<1>4. d * (q + 1) = d * q + d /\ d * q \in Int
  BY <1>1
<1>5. \/ h = q /\ 2 * r <= d
      \/ h = q + 1 /\ 2 * r >= d
  BY <1>1, <1>2, <1>3
<1> QED
  BY <1>1, <1>4, <1>5 DEF h

LEMMA HalvesRise ==
    ASSUME NEW a \in Int, NEW b \in Int, a <= b, NEW d \in Nat \ {0}
    PROVE  Pair!RoundHalfEven(a, d) <= Pair!RoundHalfEven(b, d)
<1> DEFINE p == a \div d
           q == b \div d
           r == a % d
           s == b % d
<1>1. /\ p \in Int /\ r \in 0 .. (d - 1) /\ a = d * p + r
      /\ q \in Int /\ s \in 0 .. (d - 1) /\ b = d * q + s
  OBVIOUS
<1>2. /\ Pair!RoundHalfEven(a, d) = IF 2 * r < d THEN p ELSE IF 2 * r > d THEN p + 1 ELSE p + (p % 2)
      /\ Pair!RoundHalfEven(b, d) = IF 2 * s < d THEN q ELSE IF 2 * s > d THEN q + 1 ELSE q + (q % 2)
  BY DEF Pair!RoundHalfEven
<1> HIDE DEF p, q, r, s
<1>3. p % 2 \in {0, 1} /\ q % 2 \in {0, 1}
  BY <1>1
<1>4. p <= q
  <2> SUFFICES ASSUME p >= q + 1 PROVE FALSE
    BY <1>1
  <2>1. p - q - 1 \in Nat
    BY <1>1
  <2>2. d * (p - q - 1) \in Nat /\ d * (p - q - 1) = d * p - d * q - d /\ d * p \in Int /\ d * q \in Int
    BY <1>1, <2>1
  <2> QED
    BY <1>1, <2>2
<1>5. p = q => r <= s
  BY <1>1
<1> QED
  BY <1>1, <1>2, <1>3, <1>4, <1>5

\* Whole numbers whose multiples are near are near.
LEMMA NearMultiples ==
    ASSUME NEW d \in Nat \ {0}, NEW z \in Int, 2 * (d * z) <= 3 * d, -(3 * d) <= 2 * (d * z)
    PROVE  z \in -1 .. 1
<1>1. z >= 2 => d * z >= d * 2
  <2>1. z >= 2 => d * (z - 2) \in Nat /\ d * (z - 2) = d * z - d * 2
    OBVIOUS
  <2> QED
    BY <2>1
<1>2. z <= -2 => d * z <= -(d * 2)
  <2>1. z <= -2 => d * (-z - 2) \in Nat /\ d * (-z - 2) = -(d * z) - d * 2
    OBVIOUS
  <2> QED
    BY <2>1
<1> QED
  BY <1>1, <1>2

\* How wide a scale is that has no width.
Width(lo, hi) == IF lo = hi THEN 100 ELSE hi - lo

EndsMeet(x, n, lo, hi) ==
    /\ x <= n * lo => Pair!Entry(x, n, <<lo, hi>>) = 1
    /\ lo < hi /\ n * hi <= x => Pair!Entry(x, n, <<lo, hi>>) = 6

\* The colour of a value, from the middle of the table's entries to half an entry
\* away, and its ends at the ends of the scale.
LEMMA EntryLaws ==
    ASSUME NEW x \in Int, NEW n \in Nat \ {0}, NEW lo \in Int, NEW hi \in Int, lo <= hi
    PROVE  LET den == n * Width(lo, hi)
               clip == Pair!Clip(x - n * lo, 0, den)
               entry == Pair!Entry(x, n, <<lo, hi>>)
           IN  /\ Width(lo, hi) \in Nat \ {0} /\ den \in Nat \ {0} /\ clip \in 0 .. den
               /\ entry = 1 + Pair!RoundHalfEven(clip * 5, den) /\ entry \in 1 .. 6
               /\ 2 * (den * (entry - 1)) <= 10 * clip + den /\ 10 * clip <= 2 * (den * (entry - 1)) + den
               /\ EndsMeet(x, n, lo, hi)
<1> DEFINE den == n * Width(lo, hi)
           clip == Pair!Clip(x - n * lo, 0, den)
           entry == Pair!Entry(x, n, <<lo, hi>>)
           w == Width(lo, hi)
<1>1. w \in Nat \ {0}
  BY DEF Width
<1>2. entry = 1 + Pair!RoundHalfEven(clip * 5, den)
  BY DEF Pair!Entry, Width, Pair!Unit, Pair!LUT
<1>3. n * lo \in Int /\ n * hi \in Int /\ n * w \in Nat /\ n * w # 0
  BY <1>1
<1>4. lo < hi => n * hi - n * lo = n * w
  <2> DEFINE v == hi - lo
  <2>1. lo < hi => w = v
    BY DEF Width
  <2>2. n * v = n * hi - n * lo
    OBVIOUS
  <2> HIDE DEF w
  <2> QED
    BY <2>1, <2>2
<1> HIDE DEF w
<1>5. den = n * w
  BY DEF w
<1> HIDE DEF den
<1>6. den \in Nat \ {0}
  BY <1>3, <1>5
<1> DEFINE e == x - n * lo
<1>7. clip = (IF e < 0 THEN 0 ELSE IF e > den THEN den ELSE e) /\ e \in Int
  BY <1>3, <1>6 DEF Pair!Clip
<1>8. e \in Int /\ (x <= n * lo => e <= 0) /\ (lo < hi /\ n * hi <= x => den <= e)
  BY <1>3, <1>4, <1>5
<1> HIDE DEF clip, entry, e
<1>9. clip \in 0 .. den /\ (x <= n * lo => clip = 0) /\ (lo < hi /\ n * hi <= x => clip = den)
  BY <1>6, <1>7, <1>8
<1> DEFINE h == Pair!RoundHalfEven(clip * 5, den)
<1>10. h \in Int /\ 2 * (den * h) <= 2 * (clip * 5) + den /\ 2 * (clip * 5) <= 2 * (den * h) + den
  <2>1. clip * 5 \in Int
    BY <1>6, <1>9
  <2> QED
    BY <1>6, <2>1, Halves
<1>11. entry = 1 + h
  BY <1>2
<1> HIDE DEF h
<1>12. den * h \in Int
  BY <1>6, <1>10
<1>13. h <= 5
  <2>1. h >= 6 => den * (h - 6) \in Nat /\ den * (h - 6) = den * h - 6 * den
    BY <1>6, <1>10
  <2> QED
    BY <1>6, <1>9, <1>10, <1>12, <2>1
<1>14. h >= 0
  <2>1. h <= -1 => den * (-1 - h) \in Nat /\ den * (-1 - h) = -den - den * h
    BY <1>6, <1>10
  <2> QED
    BY <1>6, <1>9, <1>10, <1>12, <2>1
<1>15. clip = 0 => h = 0
  <2>1. h >= 1 => den * (h - 1) \in Nat /\ den * (h - 1) = den * h - den
    BY <1>6, <1>10
  <2> QED
    BY <1>6, <1>10, <1>12, <1>14, <2>1
<1>16. clip = den => h = 5
  <2>1. h <= 4 => den * (4 - h) \in Nat /\ den * (4 - h) = 4 * den - den * h
    BY <1>6, <1>10
  <2> QED
    BY <1>6, <1>10, <1>12, <1>13, <2>1
<1>17. entry - 1 = h
  BY <1>10, <1>11
<1>18. 2 * (den * h) <= 10 * clip + den /\ 10 * clip <= 2 * (den * h) + den
  BY <1>6, <1>9, <1>10, <1>12
<1> QED
  BY <1>1, <1>2, <1>6, <1>9, <1>10, <1>11, <1>13, <1>14, <1>15, <1>16, <1>17, <1>18 DEF clip, den, entry, w, EndsMeet

LEMMA EntryRange ==
    ASSUME NEW x \in Int, NEW n \in Nat \ {0}, NEW lo \in Int, NEW hi \in Int, lo <= hi
    PROVE  Pair!Entry(x, n, <<lo, hi>>) \in 1 .. 6
  BY EntryLaws

\* A larger value has no lower a colour.
LEMMA EntriesRise ==
    ASSUME NEW x \in Int, NEW y \in Int, x <= y, NEW n \in Nat \ {0},
           NEW lo \in Int, NEW hi \in Int, lo <= hi
    PROVE  Pair!Entry(x, n, <<lo, hi>>) <= Pair!Entry(y, n, <<lo, hi>>)
<1> DEFINE den == n * Width(lo, hi)
           a == Pair!Clip(x - n * lo, 0, den)
           b == Pair!Clip(y - n * lo, 0, den)
<1>1. den \in Nat \ {0} /\ a \in 0 .. den /\ b \in 0 .. den
  BY EntryLaws
<1>2. Pair!Entry(x, n, <<lo, hi>>) = 1 + Pair!RoundHalfEven(a * 5, den)
  BY DEF Pair!Entry, Width, Pair!Unit, Pair!LUT
<1>6. Pair!Entry(y, n, <<lo, hi>>) = 1 + Pair!RoundHalfEven(b * 5, den)
  BY DEF Pair!Entry, Width, Pair!Unit, Pair!LUT
<1>3. a <= b
  <2>1. n * lo \in Int
    OBVIOUS
  <2> HIDE DEF den
  <2> QED
    BY <1>1, <2>1 DEF Pair!Clip
<1> HIDE DEF a, b, den
<1>4. a * 5 \in Int /\ b * 5 \in Int /\ a * 5 <= b * 5
  BY <1>1, <1>3
<1>5. /\ Pair!RoundHalfEven(a * 5, den) \in Int /\ Pair!RoundHalfEven(b * 5, den) \in Int
      /\ Pair!RoundHalfEven(a * 5, den) <= Pair!RoundHalfEven(b * 5, den)
  BY <1>1, <1>4, Halves, HalvesRise
<1> QED
  BY <1>2, <1>5, <1>6

\* A value given in twelfths that is within half an entry of another has its
\* colour but for one entry.
LEMMA EntriesNear ==
    ASSUME NEW x \in Int, NEW y \in Int, NEW lo \in Int, NEW hi \in Int, lo <= hi,
           10 * (y - 12 * x) <= 12 * Width(lo, hi), 10 * (12 * x - y) <= 12 * Width(lo, hi)
    PROVE  Pair!Entry(y, 12, <<lo, hi>>) - Pair!Entry(x, 1, <<lo, hi>>) \in -1 .. 1
<1> DEFINE w == Width(lo, hi)
           a == Pair!Clip(x - 1 * lo, 0, 1 * w)
           b == Pair!Clip(y - 12 * lo, 0, 12 * w)
           s == Pair!Entry(x, 1, <<lo, hi>>)
           t == Pair!Entry(y, 12, <<lo, hi>>)
<1>1. /\ w \in Nat \ {0} /\ a \in 0 .. (1 * w) /\ s \in 1 .. 6
      /\ 2 * ((1 * w) * (s - 1)) <= 10 * a + 1 * w /\ 10 * a <= 2 * ((1 * w) * (s - 1)) + 1 * w
  <2>1. 1 \in Nat \ {0}
    OBVIOUS
  <2> QED
    BY <2>1, EntryLaws
<1>2. /\ b \in 0 .. (12 * w) /\ t \in 1 .. 6
      /\ 2 * ((12 * w) * (t - 1)) <= 10 * b + 12 * w /\ 10 * b <= 2 * ((12 * w) * (t - 1)) + 12 * w
  <2>1. 12 \in Nat \ {0}
    OBVIOUS
  <2> QED
    BY <2>1, EntryLaws
<1>3. 10 * (y - 12 * x) <= 12 * w /\ 10 * (12 * x - y) <= 12 * w
  OBVIOUS
<1> HIDE DEF w, s, t
<1>4. /\ a = IF x - lo < 0 THEN 0 ELSE IF x - lo > w THEN w ELSE x - lo
      /\ b = IF y - 12 * lo < 0 THEN 0 ELSE IF y - 12 * lo > 12 * w THEN 12 * w ELSE y - 12 * lo
  BY <1>1 DEF Pair!Clip
<1> HIDE DEF a, b
<1>5. 10 * (b - 12 * a) <= 12 * w /\ 10 * (12 * a - b) <= 12 * w
  BY <1>1, <1>3, <1>4
<1> DEFINE S == w * s
           T == w * t
<1>6. /\ S \in Int /\ T \in Int
      /\ (1 * w) * (s - 1) = S - w /\ (12 * w) * (t - 1) = 12 * T - 12 * w /\ w * (t - s) = T - S
  BY <1>1, <1>2
<1> HIDE DEF S, T
<1>7. 2 * (w * (t - s)) <= 3 * w /\ -(3 * w) <= 2 * (w * (t - s))
  BY <1>1, <1>2, <1>5, <1>6
<1>8. t - s \in Int
  BY <1>1, <1>2
<1> QED
  BY <1>1, <1>7, <1>8, NearMultiples DEF s, t

\* Values mirrored about the middle of their scale have mirrored colours.
LEMMA EntriesMirror ==
    ASSUME NEW x \in Int, NEW z \in Nat \ {0}
    PROVE  Pair!Entry(x, 1, <<-z, z>>) + Pair!Entry(-x, 1, <<-z, z>>) - 7 \in -1 .. 1
<1> DEFINE w == Width(-z, z)
           a == Pair!Clip(x - 1 * (-z), 0, 1 * w)
           b == Pair!Clip(-x - 1 * (-z), 0, 1 * w)
           s == Pair!Entry(x, 1, <<-z, z>>)
           t == Pair!Entry(-x, 1, <<-z, z>>)
<1>0. 1 \in Nat \ {0} /\ -z \in Int /\ z \in Int /\ -z <= z /\ -x \in Int
  OBVIOUS
<1>1. /\ w \in Nat \ {0} /\ a \in 0 .. (1 * w) /\ s \in 1 .. 6
      /\ 2 * ((1 * w) * (s - 1)) <= 10 * a + 1 * w /\ 10 * a <= 2 * ((1 * w) * (s - 1)) + 1 * w
  BY <1>0, EntryLaws
<1>2. /\ b \in 0 .. (1 * w) /\ t \in 1 .. 6
      /\ 2 * ((1 * w) * (t - 1)) <= 10 * b + 1 * w /\ 10 * b <= 2 * ((1 * w) * (t - 1)) + 1 * w
  BY <1>0, EntryLaws
<1>3. w = 2 * z
  BY DEF Width
<1> HIDE DEF w, s, t
<1>4. a + b = w
  BY <1>1, <1>3 DEF Pair!Clip
<1> HIDE DEF a, b
<1> DEFINE S == w * s
           T == w * t
<1>6. /\ S \in Int /\ T \in Int
      /\ (1 * w) * (s - 1) = S - w /\ (1 * w) * (t - 1) = T - w /\ w * (s + t - 7) = S + T - 7 * w
  BY <1>1, <1>2
<1> HIDE DEF S, T
<1>7. 2 * (w * (s + t - 7)) <= 3 * w /\ -(3 * w) <= 2 * (w * (s + t - 7))
  BY <1>1, <1>2, <1>4, <1>6
<1>8. s + t - 7 \in Int
  BY <1>1, <1>2
<1> QED
  BY <1>1, <1>7, <1>8, NearMultiples DEF s, t

-----------------------------------------------------------------------------
(* Pictures. *)

LEMMA ThePictures ==
    ASSUME NEW x, NEW n, NEW scale, NEW d
    PROVE  /\ Picture!Entry(x, n, scale) = Pair!Entry(x, n, scale)
           /\ Picture!RoundHalfEven(x, d) = Pair!RoundHalfEven(x, d)
  BY DEF Picture!Entry, Pair!Entry, Picture!RoundHalfEven, Pair!RoundHalfEven, Picture!Clip, Pair!Clip,
         Picture!Unit, Pair!Unit, Picture!LUT, Pair!LUT

\* The known values of a field are finitely many whole numbers.
LEMMA FieldLaws ==
    ASSUME NEW arr \in Seq(Int)
    PROVE  /\ Picture!Known(arr) = Pair!Known(arr)
           /\ Pair!Known(arr) = {i \in DOMAIN arr : arr[i] # -100}
           /\ IsFiniteSet(Pair!Known(arr)) /\ \A i \in DOMAIN arr : arr[i] \in Int
           /\ LET V == {arr[i] : i \in Pair!Known(arr)}
              IN  /\ V \in SUBSET Int /\ IsFiniteSet(V)
                  /\ Pair!Known(arr) # {} =>
                       /\ Min(V) \in V /\ Max(V) \in V /\ \A v \in V : Min(V) <= v /\ v <= Max(V)
<1> DEFINE K == Pair!Known(arr)
           V == {arr[i] : i \in K}
<1>1. /\ Picture!Known(arr) = K /\ K = {i \in DOMAIN arr : arr[i] # -100}
      /\ K \in SUBSET (1 .. Len(arr)) /\ Len(arr) \in Nat
      /\ \A i \in DOMAIN arr : arr[i] \in Int
  BY DEF Pair!Known, Picture!Known, Pair!NaN, Picture!NaN
<1>2. IsFiniteSet(K)
  <2>1. IsFiniteSet(1 .. Len(arr))
    BY <1>1, FS_Interval, 1 \in Int
  <2> QED
    BY <1>1, <2>1, FS_Subset
<1>3. V \in SUBSET Int
  BY <1>1
<1> HIDE DEF K
<1>4. IsFiniteSet(V)
  BY <1>2, FiniteImage
<1>5. K # {} => V # {}
  OBVIOUS
<1> HIDE DEF V
<1>6. K # {} => Min(V) \in V /\ Max(V) \in V /\ \A v \in V : Min(V) <= v /\ v <= Max(V)
  BY <1>3, <1>4, <1>5, Extremes
<1> QED
  BY <1>1, <1>2, <1>3, <1>4, <1>6 DEF V, K

\* What a field's raster holds: the extremes, and a code for each value within
\* half a step of it.
LEMMA RasterLaws ==
    ASSUME NEW arr \in Seq(Int), NEW raster \in Picture!encode_value_raster(arr)
    PROVE  /\ raster.lo \in Int /\ raster.hi \in Int /\ raster.lo <= raster.hi
           /\ DOMAIN raster.codes = DOMAIN arr
           /\ \A i \in DOMAIN arr :
                /\ arr[i] = -100 => raster.codes[i] = 0
                /\ arr[i] # -100 => LET k == raster.codes[i] - 1
                                        s == raster.hi - raster.lo
                                        e == arr[i] - raster.lo
                                    IN  /\ raster.codes[i] # 0 /\ k \in Int
                                        /\ 2 * (k * s) <= 24 * e + s /\ 24 * e <= 2 * (k * s) + s
<1> DEFINE K == Pair!Known(arr)
           V == {arr[i] : i \in K}
           lo == Min(V)
           hi == Max(V)
           s == hi - lo
           codes == [i \in DOMAIN arr |-> IF arr[i] = -100 THEN 0 ELSE IF s = 0 THEN 1
                                          ELSE 1 + Pair!RoundHalfEven((arr[i] - lo) * 12, s)]
<1>1. /\ Picture!Known(arr) = K /\ K = {i \in DOMAIN arr : arr[i] # -100}
      /\ \A i \in DOMAIN arr : arr[i] \in Int
  BY FieldLaws
<1>2. K # {} /\ raster = [lo |-> lo, hi |-> hi, codes |-> codes]
  <2>1. Picture!encode_value_raster(arr) =
          IF V = {} THEN {}
          ELSE {[lo |-> lo, hi |-> hi,
                 codes |-> [i \in DOMAIN arr |-> IF arr[i] = -100 THEN 0 ELSE IF s = 0 THEN 1
                                                 ELSE 1 + Picture!RoundHalfEven((arr[i] - lo) * (13 - 1), s)]]}
    BY <1>1, PictureSame DEF Picture!encode_value_raster, Picture!CODE_MAX, Picture!NaN
  <2>2. \A i \in DOMAIN arr : Picture!RoundHalfEven((arr[i] - lo) * (13 - 1), s) = Pair!RoundHalfEven((arr[i] - lo) * 12, s)
    BY ThePictures
  <2>3. V # {} => K # {}
    OBVIOUS
  <2> HIDE DEF V, K, lo, hi, s
  <2> QED
    BY <2>1, <2>2, <2>3
<1>3. lo \in V /\ hi \in V /\ \A v \in V : lo <= v /\ v <= hi
  BY <1>2, FieldLaws
<1>4. V \in SUBSET Int
  BY <1>1
<1>5. lo \in Int /\ hi \in Int /\ lo <= hi /\ s \in Nat
  <2> HIDE DEF V, lo, hi
  <2> QED
    BY <1>3, <1>4
<1>6. ASSUME NEW i \in DOMAIN arr, arr[i] # -100
      PROVE  LET k == codes[i] - 1
                 e == arr[i] - lo
             IN  codes[i] # 0 /\ k \in Int /\ 2 * (k * s) <= 24 * e + s /\ 24 * e <= 2 * (k * s) + s
  <2> DEFINE e == arr[i] - lo
             k == codes[i] - 1
  <2>1. arr[i] \in V
    BY <1>1, <1>6
  <2>2. e \in Nat /\ e <= s
    <3> HIDE DEF V, lo, hi
    <3> QED
      BY <1>3, <1>4, <1>5, <2>1
  <2>3. s = 0 => codes[i] = 1
    BY <1>6
  <2>4. s # 0 => codes[i] = 1 + Pair!RoundHalfEven(e * 12, s)
    BY <1>6
  <2> HIDE DEF e, codes, s
  <2>5. CASE s = 0
    <3>1. k = 0 /\ codes[i] # 0 /\ e = 0
      BY <2>2, <2>3, <2>5
    <3> HIDE DEF k
    <3>2. 2 * (k * s) <= 24 * e + s /\ 24 * e <= 2 * (k * s) + s /\ k \in Int
      BY <2>5, <3>1
    <3> QED
      BY <3>1, <3>2 DEF k, e
  <2>6. CASE s # 0
    <3> DEFINE h == Pair!RoundHalfEven(e * 12, s)
    <3>1. e * 12 \in Int /\ s \in Nat \ {0}
      BY <1>5, <2>2, <2>6
    <3>2. h \in Int /\ 2 * (s * h) <= 2 * (e * 12) + s /\ 2 * (e * 12) <= 2 * (s * h) + s
      BY <3>1, Halves
    <3>3. codes[i] = 1 + h
      BY <2>4, <2>6
    <3> HIDE DEF h
    <3>4. k = h
      BY <3>2, <3>3
    <3>5. h * s = s * h /\ s * h \in Int
      BY <3>1, <3>2
    <3>6. h # -1
      <4>1. h = -1 => s * h = -s
        BY <3>1
      <4> QED
        BY <2>2, <3>1, <3>2, <3>5, <4>1
    <3>7. codes[i] # 0
      BY <3>2, <3>3, <3>6
    <3> HIDE DEF k
    <3>8. 2 * (k * s) <= 24 * e + s /\ 24 * e <= 2 * (k * s) + s
      BY <2>2, <3>1, <3>2, <3>4, <3>5
    <3> QED
      BY <3>2, <3>4, <3>7, <3>8 DEF k, e
  <2> QED
    BY <2>5, <2>6
<1> HIDE DEF codes, lo, hi, s
<1>7. raster.lo = lo /\ raster.hi = hi /\ raster.codes = codes
  BY <1>2
<1>8. DOMAIN codes = DOMAIN arr /\ \A i \in DOMAIN arr : arr[i] = -100 => codes[i] = 0
  BY DEF codes
<1> QED
  BY <1>5, <1>6, <1>7, <1>8 DEF s

\* Colours of codes are near those of values on a scale that resolves the codes.
LEMMA RastersAreNear ==
    ASSUME NEW arr \in Seq(Int), NEW raster \in Picture!encode_value_raster(arr),
           NEW lo \in Int, NEW hi \in Int, Picture!Resolves(raster, <<lo, hi>>)
    PROVE  /\ Picture!Near(Picture!render_value_raster_png(raster, <<lo, hi>>), Picture!_colorize(arr, <<lo, hi>>))
           /\ Picture!Near(Picture!_colorize(arr, <<lo, hi>>), Picture!render_value_raster_png(raster, <<lo, hi>>))
<1> DEFINE s == raster.hi - raster.lo
           a == Picture!render_value_raster_png(raster, <<lo, hi>>)
           b == Picture!_colorize(arr, <<lo, hi>>)
<1>1. /\ raster.lo \in Int /\ raster.hi \in Int /\ s \in Nat
      /\ DOMAIN raster.codes = DOMAIN arr
  BY RasterLaws
<1>2. lo <= hi /\ 500 * s <= 12 * Width(lo, hi)
  <2>1. (hi - lo) * 12 >= 100 * s * 5
    BY DEF Picture!Resolves, Picture!CODE_MAX, Picture!Unit, Picture!LUT
  <2> HIDE DEF s
  <2> QED
    BY <1>1, <2>1 DEF Width
<1>3. DOMAIN a = DOMAIN arr /\ DOMAIN b = DOMAIN arr
  BY <1>1 DEF Picture!render_value_raster_png, Picture!_colorize
<1>4. ASSUME NEW i \in DOMAIN arr
      PROVE  (a[i] = 0) = (b[i] = 0) /\ a[i] - b[i] \in -1 .. 1 /\ b[i] - a[i] \in -1 .. 1
  <2>1. CASE arr[i] = -100
    <3>1. raster.codes[i] = 0
      BY <2>1, RasterLaws
    <3>2. a[i] = 0 /\ b[i] = 0
      BY <1>1, <2>1, <3>1 DEF Picture!render_value_raster_png, Picture!_colorize, Picture!NaN
    <3> HIDE DEF a, b
    <3> QED
      BY <3>2
  <2>2. CASE arr[i] # -100
    <3> DEFINE k == raster.codes[i] - 1
               e == arr[i] - raster.lo
               x == 100 * arr[i]
               y == 100 * (raster.lo * 12 + k * s)
    <3>1. /\ raster.codes[i] # 0 /\ k \in Int
          /\ 2 * (k * s) <= 24 * e + s /\ 24 * e <= 2 * (k * s) + s
      BY <2>2, RasterLaws
    <3>2. arr[i] \in Int
      BY FieldLaws
    <3>3. b[i] = Pair!Entry(x, 1, <<lo, hi>>)
      BY <2>2, ThePictures DEF Picture!_colorize, Picture!NaN, Picture!Unit
    <3>4. a[i] = Pair!Entry(y, 12, <<lo, hi>>)
      <4>1. a[i] = Picture!Entry(100 * (raster.lo * (13 - 1) + k * s), 13 - 1, <<lo, hi>>)
        BY <1>1, <3>1 DEF Picture!render_value_raster_png, Picture!CODE_MAX, Picture!Unit
      <4>2. 13 - 1 = 12
        OBVIOUS
      <4> HIDE DEF a, k, s
      <4> QED
        BY <4>1, <4>2, ThePictures
    <3> DEFINE m == k * s
               v == arr[i]
               l == raster.lo
    <3>5. m \in Int /\ v \in Int /\ l \in Int /\ s \in Nat
      <4>1. k \in Int /\ s \in Nat /\ l \in Int
        BY <1>1, <3>1
      <4>2. v \in Int
        BY <3>2
      <4> HIDE DEF k, s, v, l
      <4> QED
        BY <4>1, <4>2
    <3>6. 2 * m <= 24 * (v - l) + s /\ 24 * (v - l) <= 2 * m + s /\ x = 100 * v /\ y = 100 * (l * 12 + m)
      BY <3>1
    <3> HIDE DEF m, v, l, s, x, y, a, b
    <3>7. x \in Int /\ y \in Int
      BY <3>5, <3>6
    <3>8. 10 * (y - 12 * x) <= 500 * s /\ 10 * (12 * x - y) <= 500 * s
      BY <3>5, <3>6
    <3>9. Width(lo, hi) \in Int
      BY DEF Width
    <3>10. 10 * (y - 12 * x) <= 12 * Width(lo, hi) /\ 10 * (12 * x - y) <= 12 * Width(lo, hi)
      BY <1>2, <3>5, <3>7, <3>8, <3>9
    <3>11. a[i] - b[i] \in -1 .. 1
      BY <1>2, <3>3, <3>4, <3>7, <3>10, EntriesNear
    <3>12. a[i] \in 1 .. 6 /\ b[i] \in 1 .. 6
      <4>1. 1 \in Nat \ {0} /\ 12 \in Nat \ {0}
        OBVIOUS
      <4> QED
        BY <1>2, <3>3, <3>4, <3>7, <4>1, EntryRange
    <3>13. b[i] - a[i] \in -1 .. 1
      <4>1. \A one, other \in 1 .. 6 : one - other \in -1 .. 1 => other - one \in -1 .. 1
        OBVIOUS
      <4> QED
        BY <3>11, <3>12, <4>1
    <3>14. a[i] # 0 /\ b[i] # 0
      BY <3>12
    <3> QED
      BY <3>11, <3>13, <3>14
  <2> QED
    BY <2>1, <2>2
<1> HIDE DEF a, b
<1>5. Picture!Near(a, b) /\ Picture!Near(b, a)
  BY <1>3, <1>4 DEF Picture!Near
<1> QED
  BY <1>5 DEF a, b

\* The pixels of a projected field are whole.
LEMMA PixelsAreWhole ==
    ASSUME NEW arr \in Seq(Int), NEW warp \in Seq(Nat \X Nat),
           \A p \in DOMAIN warp : {warp[p][1], warp[p][2]} \subseteq DOMAIN arr
    PROVE  Picture!_reproject_to_mercator(arr, warp) \in Seq(Int)
<1>1. ASSUME NEW p \in DOMAIN warp PROVE Picture!Blend(arr[warp[p][1]], arr[warp[p][2]]) \in Int
  <2> DEFINE x == arr[warp[p][1]]
             y == arr[warp[p][2]]
  <2>1. x \in Int /\ y \in Int
    <3>1. warp[p][1] \in DOMAIN arr /\ warp[p][2] \in DOMAIN arr
      BY <1>1
    <3>2. \A i \in DOMAIN arr : arr[i] \in Int
      OBVIOUS
    <3> QED
      BY <3>1, <3>2
  <2> HIDE DEF x, y
  <2> QED
    BY <2>1 DEF Picture!Blend
<1>2. DOMAIN warp = 1 .. Len(warp) /\ Len(warp) \in Nat
  OBVIOUS
<1> DEFINE q == Picture!_reproject_to_mercator(arr, warp)
<1>3. q = [p \in 1 .. Len(warp) |-> q[p]] /\ \A p \in 1 .. Len(warp) : q[p] \in Int
  BY <1>1, <1>2 DEF Picture!_reproject_to_mercator
<1> HIDE DEF q
<1>4. q \in [1 .. Len(warp) -> Int]
  BY <1>3
<1>5. \A n \in Nat : \A g \in [1 .. n -> Int] : g \in Seq(Int)
  OBVIOUS
<1>6. q \in Seq(Int)
  BY <1>2, <1>4, <1>5
<1> QED
  BY <1>6 DEF q

\* Every panel of a case is a panel, and its pixels are whole.
LEMMA PanelsArePanels ==
    ASSUME NEW c, Picture!IsPictureCase(c), NEW i \in DOMAIN c.panels
    PROVE  /\ c.panels[i] \in [arr : Seq(Int), warp : Seq(Nat \X Nat), range : Int, colormap : STRING,
                                failing : {"none", "values", "render", "write"}]
           /\ Picture!Pixels(c.panels[i]) \in Seq(Int)
<1> DEFINE P == c.panels
           Panel == [arr : Seq(Int), warp : Seq(Nat \X Nat), range : Int, colormap : STRING,
                     failing : {"none", "values", "render", "write"}]
           panel == P[i]
<1>1. P \in Seq(Panel) /\ i \in DOMAIN P
  BY DEF Picture!IsPictureCase
<1>2. panel \in Panel
  <2>1. ASSUME NEW S, NEW s \in Seq(S) PROVE \A j \in DOMAIN s : s[j] \in S
    OBVIOUS
  <2> HIDE DEF P, Panel
  <2> QED
    BY <1>1, <2>1
<1>3. \A p \in DOMAIN panel.warp : {panel.warp[p][1], panel.warp[p][2]} \subseteq DOMAIN panel.arr
  BY DEF Picture!IsPictureCase
<1>4. Picture!Pixels(panel) \in Seq(Int)
  <2>1. panel.arr \in Seq(Int) /\ panel.warp \in Seq(Nat \X Nat)
    BY <1>2
  <2> HIDE DEF panel
  <2> QED
    BY <1>3, <2>1, PixelsAreWhole DEF Picture!Pixels
<1> QED
  BY <1>2, <1>4

\* The scale of a picture's own percentiles is made of whole hundredths.
LEMMA OwnScales ==
    ASSUME NEW panel, panel.arr \in Seq(Int), panel.range \in Int
    PROVE  \E lo, hi \in Int : Picture!_build_heatmap_payload(panel).scale = <<lo, hi>>
<1> DEFINE arr == panel.arr
           K == Pair!Known(arr)
           lo == PercentileIn(K, arr, 2)
           hi == PercentileIn(K, arr, 98)
           delta == IF lo = 0 THEN 100 ELSE Picture!Abs(lo) \div 100
           r == panel.range
<1>1. Picture!Known(arr) = K /\ IsFiniteSet(K) /\ \A i \in K : arr[i] \in Int
  BY FieldLaws
<1>2. Picture!_percentile_bounds(arr) =
        IF K = {} THEN <<0, 100>> ELSE IF lo = hi THEN <<lo - delta, hi + delta>> ELSE <<lo, hi>>
  <2>1. Picture!Percentile(arr, 2) = lo /\ Picture!Percentile(arr, 98) = hi
    BY <1>1, ThePercentiles
  <2> HIDE DEF lo, hi, K, arr
  <2> QED
    BY <1>1, <2>1 DEF Picture!_percentile_bounds, Picture!Unit
<1>3. K # {} => lo \in Int /\ hi \in Int
  <2> HIDE DEF K, arr
  <2> QED
    BY <1>1, PercentilesRise
<1>4. lo \in Int => delta \in Int
  <2> HIDE DEF lo
  <2> QED
    BY DEF Picture!Abs
<1> HIDE DEF lo, hi, delta, K, arr
<1>5. \E l, h \in Int : Picture!_percentile_bounds(arr) = <<l, h>>
  <2>1. CASE K = {}
    BY <1>2, <2>1
  <2>2. CASE K # {}
    <3>1. lo \in Int /\ hi \in Int /\ lo - delta \in Int /\ hi + delta \in Int
      BY <1>3, <1>4, <2>2
    <3> QED
      BY <1>2, <2>2, <3>1
  <2> QED
    BY <2>1, <2>2
<1>6. Picture!_build_heatmap_payload(panel).scale =
        IF r = Picture!Unset THEN Picture!_percentile_bounds(arr) ELSE <<-r, r>>
  BY DEF Picture!_build_heatmap_payload, arr
<1>7. r \in Int /\ -r \in Int
  OBVIOUS
<1> HIDE DEF r
<1> QED
  BY <1>5, <1>6, <1>7

\* A panel of a case, as it is drawn and as a request finds it.
LEMMA PanelsAreFound ==
    ASSUME NEW c, Picture!IsPictureCase(c), NEW i \in Picture!Shown(c)
    PROVE  LET panel == c.panels[i]
           IN  /\ i \in DOMAIN c.panels /\ panel.arr \in Seq(Int) /\ panel.range \in Int
               /\ Picture!Pixels(panel) \in Seq(Int)
               /\ panel.failing \in {"none", "values", "render", "write"}
               /\ Picture!_chart_overlay_source(Picture!Chart(c), Picture!PanelOf(c, i)) =
                    {Picture!_build_heatmap_payload(panel)}
<1> DEFINE P == c.panels
           Panel == [arr : Seq(Int), warp : Seq(Nat \X Nat), range : Int, colormap : STRING,
                     failing : {"none", "values", "render", "write"}]
           drawn == [j \in DOMAIN P |-> Picture!_build_heatmap_payload(P[j])]
<1>1. /\ P \in Seq(Panel)
      /\ P # <<>> /\ c.layout \in {"one", "panels", "difference"}
  BY DEF Picture!IsPictureCase
<1>2. Len(P) \in Nat /\ DOMAIN P = 1 .. Len(P) /\ 1 \in DOMAIN P
  <2> HIDE DEF P
  <2> QED
    BY <1>1
<1>3. i \in DOMAIN P /\ (c.layout # "panels" => i = 1)
  BY <1>2 DEF Picture!Shown
<1>4. P[i] \in Panel /\ Picture!Pixels(P[i]) \in Seq(Int)
  BY <1>3, PanelsArePanels
<1> SUFFICES Picture!_chart_overlay_source(Picture!Chart(c), Picture!PanelOf(c, i)) =
               {Picture!_build_heatmap_payload(P[i])}
  BY <1>3, <1>4
<1>5. CASE c.layout = "one"
  <2>1. Picture!Chart(c) = [type |-> "heatmap", own |-> {drawn[1]}, panels |-> <<>>, difference |-> {}]
    BY <1>5 DEF Picture!Chart
  <2>2. drawn[1] = Picture!_build_heatmap_payload(P[i])
    BY <1>2, <1>3, <1>5
  <2> HIDE DEF drawn
  <2> QED
    BY <2>1, <2>2 DEF Picture!_chart_overlay_source
<1>6. CASE c.layout = "difference"
  <2>1. Picture!Chart(c) = [type |-> "heatmap_multi", own |-> {}, panels |-> <<>>, difference |-> {drawn[1]}]
    BY <1>6 DEF Picture!Chart
  <2>2. drawn[1] = Picture!_build_heatmap_payload(P[i])
    BY <1>2, <1>3, <1>6
  <2>3. Picture!PanelOf(c, i) = Picture!Unset
    BY <1>6 DEF Picture!PanelOf
  <2> HIDE DEF drawn
  <2> QED
    BY <2>1, <2>2, <2>3 DEF Picture!_chart_overlay_source
<1>7. CASE c.layout = "panels"
  <2>1. Picture!Chart(c) = [type |-> "heatmap_multi", own |-> {}, panels |-> drawn, difference |-> {}]
    BY <1>7 DEF Picture!Chart
  <2>2. Picture!PanelOf(c, i) = i - 1
    BY <1>7 DEF Picture!PanelOf
  <2>3. Len(drawn) = Len(P)
    <3> HIDE DEF P
    <3> QED
      BY <1>2
  <2>4. i - 1 \in 0 .. (Len(P) - 1) /\ i - 1 # -101 /\ (i - 1) + 1 = i
    <3> HIDE DEF P
    <3> QED
      BY <1>2, <1>3
  <2>5. drawn[i] = Picture!_build_heatmap_payload(P[i])
    BY <1>3
  <2> HIDE DEF drawn
  <2>6. Picture!_chart_overlay_source(Picture!Chart(c), i - 1) = {drawn[(i - 1) + 1]}
    BY <2>1, <2>3, <2>4 DEF Picture!_chart_overlay_source, Picture!Unset
  <2>7. Picture!_chart_overlay_source(Picture!Chart(c), Picture!PanelOf(c, i)) = {Picture!_build_heatmap_payload(P[i])}
    BY <2>2, <2>4, <2>5, <2>6
  <2> QED
    BY <2>7
<1> QED
  BY <1>1, <1>5, <1>6, <1>7

\* Recolouring from stored codes agrees with drawing the values, for any panels
\* and any window that the codes resolve.
THEOREM RecolouringAlwaysAgrees == ASSUME NEW c, Picture!IsPictureCase(c) PROVE Picture!RecolouringAgrees(c)
<1> SUFFICES ASSUME NEW i \in DOMAIN c.panels, NEW raster \in Picture!encode_value_raster(Picture!Pixels(c.panels[i])),
                    Picture!Resolves(raster, c.window)
             PROVE  Picture!Near(Picture!render_value_raster_png(raster, c.window),
                                 Picture!_colorize(Picture!Pixels(c.panels[i]), c.window))
  BY DEF Picture!RecolouringAgrees
<1>1. Picture!Pixels(c.panels[i]) \in Seq(Int)
  BY PanelsArePanels
<1>2. PICK lo, hi : lo \in Int /\ hi \in Int /\ c.window = <<lo, hi>>
  BY DEF Picture!IsPictureCase
<1> QED
  BY <1>1, <1>2, RastersAreNear

\* A panel whose picture is still stored is served whatever became of its values
\* and of the other panels, for any chart.
THEOREM FailuresAlwaysStayLocal == ASSUME NEW c, Picture!IsPictureCase(c) PROVE Picture!FailuresStayLocal(c)
<1> SUFFICES ASSUME NEW i \in Picture!Shown(c)
             PROVE  Picture!chart_overlay_png(Picture!Chart(c), Picture!Plain(Picture!PanelOf(c, i)), c.lost).status = 200
                    <=> c.panels[i].failing \in {"none", "values"} /\ "drawn" \notin c.lost
  BY DEF Picture!FailuresStayLocal
<1> DEFINE panel == c.panels[i]
           q == Picture!Plain(Picture!PanelOf(c, i))
           source == Picture!_build_heatmap_payload(panel)
           answer == Picture!chart_overlay_png(Picture!Chart(c), q, c.lost)
<1>1. /\ panel.failing \in {"none", "values", "render", "write"}
      /\ Picture!_chart_overlay_source(Picture!Chart(c), Picture!PanelOf(c, i)) = {source}
  BY PanelsAreFound
<1>2. source.overlay.drawn = {} <=> panel.failing \in {"render", "write"}
  BY DEF Picture!_build_heatmap_payload, Picture!_render_and_store_overlay
<1>3. q.panel = Picture!PanelOf(c, i) /\ q.vmin = Picture!Unset /\ q.vmax = Picture!Unset /\ q.cmap = "none"
  BY DEF Picture!Plain
<1> HIDE DEF q, source
<1>4. answer = IF "drawn" \in c.lost THEN Picture!Answer(404, <<>>) ELSE Picture!Served(source.overlay.drawn)
  <2>1. UNION {s.overlay.drawn : s \in {source}} = source.overlay.drawn
    OBVIOUS
  <2> QED
    BY <1>1, <1>3, <2>1 DEF Picture!chart_overlay_png
<1>5. answer.status = 200 <=> "drawn" \notin c.lost /\ source.overlay.drawn # {}
  BY <1>4 DEF Picture!Answer, Picture!Served
<1>6. panel.failing \in {"none", "values"} <=> ~(panel.failing \in {"render", "write"})
  BY <1>1
<1> QED
  BY <1>2, <1>5, <1>6 DEF q

\* Asked for in its own scale a panel comes back as it was drawn, for any chart
\* whose codes that scale resolves.
THEOREM OwnScalesAlwaysRedraw == ASSUME NEW c, Picture!IsPictureCase(c) PROVE Picture!OwnScaleRedraws(c)
<1> SUFFICES ASSUME NEW i \in Picture!Shown(c)
             PROVE  LET chart == Picture!Chart(c)
                        scale == Picture!_build_heatmap_payload(c.panels[i]).scale
                        plain == Picture!chart_overlay_png(chart, Picture!Plain(Picture!PanelOf(c, i)), c.lost)
                        own == Picture!chart_overlay_png(chart, Picture!In(Picture!PanelOf(c, i), scale), c.lost)
                    IN /\ plain.status = 200 /\ own.status = 200
                       /\ \A raster \in Picture!encode_value_raster(Picture!Pixels(c.panels[i])) : Picture!Resolves(raster, scale)
                       => Picture!Near(plain.content, own.content)
  BY Zenon DEF Picture!OwnScaleRedraws
<1> DEFINE panel == c.panels[i]
           arr == Picture!Pixels(panel)
           chart == Picture!Chart(c)
           place == Picture!PanelOf(c, i)
           source == Picture!_build_heatmap_payload(panel)
           scale == source.scale
           p == Picture!Plain(place)
           q == Picture!In(place, scale)
           plain == Picture!chart_overlay_png(chart, p, c.lost)
           own == Picture!chart_overlay_png(chart, q, c.lost)
           drawing == Picture!_colorize(arr, scale)
<1> SUFFICES ASSUME plain.status = 200, own.status = 200,
                    \A raster \in Picture!encode_value_raster(arr) : Picture!Resolves(raster, scale)
             PROVE  Picture!Near(plain.content, own.content)
  BY Zenon
<1>1. /\ arr \in Seq(Int) /\ panel.arr \in Seq(Int) /\ panel.range \in Int
      /\ Picture!_chart_overlay_source(chart, place) = {source}
  BY PanelsAreFound
<1>2. PICK lo, hi : lo \in Int /\ hi \in Int /\ scale = <<lo, hi>>
  BY <1>1, OwnScales
<1>3. /\ source.overlay.drawn \in SUBSET {drawing}
      /\ source.overlay.values \in SUBSET Picture!encode_value_raster(arr)
  BY DEF Picture!_build_heatmap_payload, Picture!_render_and_store_overlay, Picture!Pixels
<1>4. /\ p.panel = place /\ p.vmin = Picture!Unset /\ p.vmax = Picture!Unset /\ p.cmap = "none"
      /\ q.panel = place /\ q.vmin = scale[1] /\ q.vmax = scale[2] /\ q.cmap = "none"
  BY DEF Picture!Plain, Picture!In
<1> HIDE DEF p, q, source, scale, chart, place, arr, drawing, panel
<1>5. plain = IF "drawn" \in c.lost THEN Picture!Answer(404, <<>>) ELSE Picture!Served(source.overlay.drawn)
  <2>1. UNION {s.overlay.drawn : s \in {source}} = source.overlay.drawn
    OBVIOUS
  <2> QED
    BY <1>1, <1>4, <2>1 DEF Picture!chart_overlay_png
<1>6. plain.content = drawing
  BY <1>3, <1>5 DEF Picture!Answer, Picture!Served
<1>7. own = IF q.vmin # Picture!Unset \/ q.vmax # Picture!Unset
            THEN Picture!_rescaled_overlay_png(chart, q, c.lost)
            ELSE plain
  BY <1>1, <1>4 DEF Picture!chart_overlay_png
<1>8. CASE q.vmin = Picture!Unset /\ q.vmax = Picture!Unset
  <2>1. own.content = drawing
    BY <1>6, <1>7, <1>8
  <2>2. DOMAIN drawing = DOMAIN arr /\ \A j \in DOMAIN arr : drawing[j] \in Int
    <3>1. ASSUME NEW j \in DOMAIN arr, lo <= hi PROVE drawing[j] \in Int
      <4>1. 100 * arr[j] \in Int
        BY <1>1, FieldLaws
      <4>3. Pair!Entry(100 * arr[j], 1, <<lo, hi>>) \in 1 .. 6
        BY <1>2, <3>1, <4>1, EntryRange, 1 \in Nat \ {0}
      <4>2. Picture!Entry(100 * arr[j], 1, scale) \in 1 .. 6
        BY <1>2, <4>3, ThePictures
      <4> QED
        BY <4>2 DEF drawing, Picture!_colorize, Picture!Unit
    <3>2. lo <= hi
      BY <1>2, <1>4, <1>8
    <3> QED
      BY <3>1, <3>2 DEF drawing, Picture!_colorize
  <2>3. \A j \in DOMAIN arr : drawing[j] - drawing[j] \in -1 .. 1
    BY <2>2
  <2> QED
    BY <1>6, <2>1, <2>2, <2>3 DEF Picture!Near
<1>9. CASE ~(q.vmin = Picture!Unset /\ q.vmax = Picture!Unset)
  <2>1. own = Picture!_rescaled_overlay_png(chart, q, c.lost)
    BY <1>7, <1>9
  <2>2. own = Picture!Served({Picture!render_value_raster_png(r, <<q.vmin, q.vmax>>) : r \in source.overlay.values})
    <3> DEFINE all(s) == {Picture!render_value_raster_png(r, <<q.vmin, q.vmax>>) : r \in s.overlay.values}
               X == all(source)
               refuse == Picture!Answer(422, <<>>)
               lose == Picture!Answer(404, <<>>)
               first == CHOOSE s \in Picture!_chart_overlay_source(chart, q.panel) : TRUE
    <3>1. first = source
      BY <1>1, <1>4
    <3>4. Picture!_rescaled_overlay_png(chart, q, c.lost) \in {refuse, lose, Picture!Served(all(first))}
      <4> DEFINE odd == q.vmin = Picture!Unset \/ q.vmax = Picture!Unset \/ q.vmin >= q.vmax
                 none == Picture!_chart_overlay_source(chart, q.panel) = {}
                 unknown == (IF q.cmap = "none" THEN first.colormap ELSE q.cmap) \notin Picture!Colormaps
                 gone == "values" \in c.lost
                 served == Picture!Served(all(first))
      <4>1. Picture!_rescaled_overlay_png(chart, q, c.lost) =
              IF odd THEN refuse ELSE IF none THEN lose ELSE IF unknown THEN refuse ELSE IF gone THEN lose ELSE served
        BY Zenon DEF Picture!_rescaled_overlay_png
      <4> HIDE DEF odd, none, unknown, gone, served, refuse, lose
      <4> QED
        BY <4>1 DEF served
    <3>2. Picture!_rescaled_overlay_png(chart, q, c.lost) \in {refuse, lose, Picture!Served(X)}
      BY <3>1, <3>4
    <3>3. refuse.status # 200 /\ lose.status # 200
      BY DEF Picture!Answer
    <3> HIDE DEF own, X, refuse, lose
    <3> QED
      BY <2>1, <3>2, <3>3 DEF X
  <2>3. PICK raster \in source.overlay.values :
          own.content = Picture!render_value_raster_png(raster, <<q.vmin, q.vmax>>)
    <3> DEFINE X == {Picture!render_value_raster_png(r, <<q.vmin, q.vmax>>) : r \in source.overlay.values}
    <3>1. own = IF X = {} THEN Picture!Answer(404, <<>>) ELSE Picture!Answer(200, CHOOSE x \in X : TRUE)
      BY <2>2 DEF Picture!Served
    <3> HIDE DEF own, X
    <3>2. X # {} /\ own.content = CHOOSE x \in X : TRUE
      BY <3>1 DEF Picture!Answer
    <3>3. own.content \in X
      BY <3>2
    <3> QED
      BY <3>3 DEF X
  <2>4. raster \in Picture!encode_value_raster(arr) /\ Picture!Resolves(raster, scale)
    BY <1>3, <2>3
  <2>5. <<q.vmin, q.vmax>> = <<lo, hi>>
    BY <1>2, <1>4
  <2>6. Picture!Near(drawing, Picture!render_value_raster_png(raster, <<lo, hi>>))
    BY <1>1, <1>2, <2>4, RastersAreNear DEF drawing
  <2> QED
    BY <1>6, <2>3, <2>5, <2>6
<1> QED
  BY <1>8, <1>9

-----------------------------------------------------------------------------
(* Comparisons. *)

\* The known values of two fields side by side are those of the one and those of
\* the other.
LEMMA SidesTogether ==
    ASSUME NEW a \in Seq(Int), NEW b \in Seq(Int)
    PROVE  /\ a \o b \in Seq(Int)
           /\ Pair!Known(a \o b) = Pair!Known(a) \cup {Len(a) + j : j \in Pair!Known(b)}
           /\ \A i \in DOMAIN a : (a \o b)[i] = a[i]
           /\ \A j \in DOMAIN b : (a \o b)[Len(a) + j] = b[j]
<1> DEFINE m == Len(a)
           n == Len(b)
           s == a \o b
<1>1. /\ m \in Nat /\ n \in Nat /\ DOMAIN a = 1 .. m /\ DOMAIN b = 1 .. n
      /\ s \in Seq(Int) /\ Len(s) = m + n /\ DOMAIN s = 1 .. (m + n)
      /\ \A i \in 1 .. (m + n) : s[i] = IF i <= m THEN a[i] ELSE b[i - m]
  OBVIOUS
<1> HIDE DEF m, n, s
<1>2. \A i \in 1 .. m : i \in DOMAIN s /\ s[i] = a[i]
  BY <1>1
<1>3. ASSUME NEW j \in 1 .. n PROVE m + j \in DOMAIN s /\ s[m + j] = b[j]
  <2>1. m + j \in 1 .. (m + n) /\ ~(m + j <= m) /\ (m + j) - m = j
    BY <1>1
  <2> QED
    BY <1>1, <2>1
<1>4. ASSUME NEW i \in DOMAIN s PROVE i \in 1 .. m \/ \E j \in 1 .. n : i = m + j
  <2>1. ~(i \in 1 .. m) => i - m \in 1 .. n /\ i = m + (i - m)
    BY <1>1
  <2> QED
    BY <2>1
<1>5. Pair!Known(s) = Pair!Known(a) \cup {m + j : j \in Pair!Known(b)}
  BY <1>1, <1>2, <1>3, <1>4 DEF Pair!Known
<1> QED
  BY <1>1, <1>2, <1>3, <1>5 DEF s, m

LEMMA SideCounts ==
    ASSUME NEW a \in Seq(Int), NEW b \in Seq(Int), NEW T
    PROVE  /\ Cardinality({i \in Pair!Known(a \o b) : (a \o b)[i] \in T}) =
                Cardinality({i \in Pair!Known(a) : a[i] \in T}) + Cardinality({j \in Pair!Known(b) : b[j] \in T})
           /\ Cardinality({i \in Pair!Known(a) : a[i] \in T}) \in Nat
<1> DEFINE m == Len(a)
           s == a \o b
           A == {i \in Pair!Known(a) : a[i] \in T}
           B == {j \in Pair!Known(b) : b[j] \in T}
           C == {m + j : j \in B}
           S == {i \in Pair!Known(s) : s[i] \in T}
<1>1. /\ Pair!Known(s) = Pair!Known(a) \cup {m + j : j \in Pair!Known(b)}
      /\ \A i \in DOMAIN a : s[i] = a[i]
      /\ \A j \in DOMAIN b : s[m + j] = b[j]
  BY SidesTogether
<1>2. /\ Pair!Known(a) \in SUBSET (1 .. m) /\ m \in Nat /\ Pair!Known(b) \in SUBSET (1 .. Len(b)) /\ Len(b) \in Nat
      /\ DOMAIN a = 1 .. m /\ DOMAIN b = 1 .. Len(b)
  BY DEF Pair!Known
<1>3. IsFiniteSet(Pair!Known(a)) /\ IsFiniteSet(Pair!Known(b))
  BY FieldLaws
<1> HIDE DEF s, m
<1>4. S = A \cup C
  BY <1>1, <1>2
<1>5. A \cap C = {}
  BY <1>2
<1>6. IsFiniteSet(A) /\ IsFiniteSet(B)
  BY <1>3, FS_Subset
<1>7. IsFiniteSet(C) /\ Cardinality(C) = Cardinality(B)
  <2> DEFINE f == [j \in B |-> m + j]
  <2>1. B \in SUBSET Int
    BY <1>2
  <2> HIDE DEF B
  <2>2. f \in Bijection(B, C)
    <3>1. \A x, y \in B : m + x = m + y => x = y
      BY <1>2, <2>1
    <3> QED
      BY <3>1 DEF Bijection, Injection, IsInjective, Surjection
  <2> HIDE DEF f
  <2>3. ExistsBijection(B, C)
    BY <2>2 DEF ExistsBijection
  <2> HIDE DEF B, C
  <2> QED
    BY <1>6, <2>3, FS_Bijection
<1> HIDE DEF A, B, C, S
<1>8. Cardinality(A \cup C) = Cardinality(A) + Cardinality(C)
  <2>1. Cardinality(A \cap C) = 0
    BY <1>5, FS_EmptySet
  <2>2. Cardinality(A) \in Nat /\ Cardinality(C) \in Nat
    BY <1>6, <1>7, FS_CardinalityType
  <2>3. Cardinality(A \cup C) = Cardinality(A) + Cardinality(C) - Cardinality(A \cap C)
    BY <1>6, <1>7, FS_Union
  <2> QED
    BY <2>1, <2>2, <2>3
<1>9. Cardinality(A) \in Nat
  BY <1>6, FS_CardinalityType
<1> QED
  BY <1>4, <1>7, <1>8, <1>9 DEF A, B, S, s

\* It does not matter which side comes first.
LEMMA SidesCommute ==
    ASSUME NEW a \in Seq(Int), NEW b \in Seq(Int)
    PROVE  Pair!_percentile_bounds(a \o b) = Pair!_percentile_bounds(b \o a)
<1> DEFINE f == a \o b
           g == b \o a
           K == Pair!Known(f)
           L == Pair!Known(g)
<1>0. /\ \A i \in K : f[i] \in Int
      /\ \A i \in L : g[i] \in Int
  <2>1. f \in Seq(Int) /\ g \in Seq(Int)
    BY SidesTogether
  <2> HIDE DEF f, g
  <2> QED
    BY <2>1, FieldLaws DEF Pair!Known
<1>1. ASSUME NEW T PROVE Cardinality({i \in K : f[i] \in T}) = Cardinality({i \in L : g[i] \in T})
  <2>1. /\ Cardinality({i \in K : f[i] \in T}) =
             Cardinality({i \in Pair!Known(a) : a[i] \in T}) + Cardinality({j \in Pair!Known(b) : b[j] \in T})
        /\ Cardinality({i \in L : g[i] \in T}) =
             Cardinality({i \in Pair!Known(b) : b[i] \in T}) + Cardinality({j \in Pair!Known(a) : a[j] \in T})
        /\ Cardinality({i \in Pair!Known(a) : a[i] \in T}) \in Nat
        /\ Cardinality({i \in Pair!Known(b) : b[i] \in T}) \in Nat
    <3>1. /\ Cardinality({i \in K : f[i] \in T}) =
               Cardinality({i \in Pair!Known(a) : a[i] \in T}) + Cardinality({j \in Pair!Known(b) : b[j] \in T})
          /\ Cardinality({i \in Pair!Known(a) : a[i] \in T}) \in Nat
      BY SideCounts, Zenon
    <3>2. /\ Cardinality({i \in L : g[i] \in T}) =
               Cardinality({i \in Pair!Known(b) : b[i] \in T}) + Cardinality({j \in Pair!Known(a) : a[j] \in T})
          /\ Cardinality({i \in Pair!Known(b) : b[i] \in T}) \in Nat
      BY SideCounts, Zenon
    <3> HIDE DEF K, L, f, g
    <3> QED
      BY <3>1, <3>2
  <2> DEFINE p == Cardinality({i \in Pair!Known(a) : a[i] \in T})
             q == Cardinality({i \in Pair!Known(b) : b[i] \in T})
             x == Cardinality({i \in K : f[i] \in T})
             y == Cardinality({i \in L : g[i] \in T})
  <2>2. x = p + q /\ y = q + p /\ p \in Nat /\ q \in Nat
    BY <2>1, Zenon
  <2>3. x = y
    <3> HIDE DEF p, q, x, y
    <3> QED
      BY <2>2
  <2> QED
    BY <2>3, Zenon
<1>2. ASSUME NEW v PROVE (\E i \in K : f[i] = v) <=> (\E i \in L : g[i] = v)
  <2> DEFINE F == {i \in K : f[i] \in {v}}
             G == {i \in L : g[i] \in {v}}
  <2>1. IsFiniteSet(F) /\ IsFiniteSet(G)
    <3>1. IsFiniteSet(K) /\ IsFiniteSet(L)
      <4>1. f \in Seq(Int) /\ g \in Seq(Int)
        BY SidesTogether
      <4> HIDE DEF f, g
      <4> QED
        BY <4>1, FieldLaws
    <3> HIDE DEF K, L
    <3> QED
      BY <3>1, FS_Subset
  <2>2. Cardinality(F) = Cardinality(G)
    BY <1>1
  <2>3. F = {} <=> G = {}
    <3> HIDE DEF F, G
    <3> QED
      BY <2>1, <2>2, FS_EmptySet
  <2>4. (\E i \in K : f[i] = v) <=> F # {}
    <3> HIDE DEF K, f
    <3> QED
      OBVIOUS
  <2>5. (\E i \in L : g[i] = v) <=> G # {}
    <3> HIDE DEF L, g
    <3> QED
      OBVIOUS
  <2> HIDE DEF F, G
  <2> QED
    BY <2>3, <2>4, <2>5
<1> HIDE DEF f, g, K, L
<1>3. {f[i] : i \in K} = {g[i] : i \in L}
  BY <1>2
<1>4. Cardinality(K) = Cardinality(L)
  <2>1. {i \in K : f[i] \in Int} = K /\ {i \in L : g[i] \in Int} = L
    BY <1>0
  <2> QED
    BY <1>1, <2>1
<1>5. ASSUME NEW v PROVE /\ Cardinality(Under(K, f, v)) = Cardinality(Under(L, g, v))
                         /\ Cardinality(UpTo(K, f, v)) = Cardinality(UpTo(L, g, v))
  <2> DEFINE T == {x \in Int : x < v}
             U == {x \in Int : x <= v}
  <2>1. /\ {i \in K : f[i] \in T} = Under(K, f, v) /\ {i \in L : g[i] \in T} = Under(L, g, v)
        /\ {i \in K : f[i] \in U} = UpTo(K, f, v) /\ {i \in L : g[i] \in U} = UpTo(L, g, v)
    BY <1>0 DEF Under, UpTo
  <2> HIDE DEF T, U
  <2> QED
    BY <1>1, <2>1
<1>6. ASSUME NEW k PROVE RankIn(K, f, k) = RankIn(L, g, k)
  <2>1. \A v \in {f[i] : i \in K} : /\ Cardinality(Under(K, f, v)) = Cardinality(Under(L, g, v))
                                    /\ Cardinality(UpTo(K, f, v)) = Cardinality(UpTo(L, g, v))
    BY <1>5, Zenon
  <2> QED
    BY <1>3, <2>1 DEF RankIn
<1>7. ASSUME NEW p PROVE Pair!Percentile(f, p) = Pair!Percentile(g, p)
  <2>1. PercentileIn(K, f, p) = PercentileIn(L, g, p)
    BY <1>4, <1>6 DEF PercentileIn
  <2> QED
    BY <2>1, ThePercentiles DEF K, L
<1>8. K = {} <=> L = {}
  BY <1>3
<1> DEFINE lo == Pair!Percentile(f, 2)
           hi == Pair!Percentile(f, 98)
<1>9. Pair!Percentile(g, 2) = lo /\ Pair!Percentile(g, 98) = hi
  BY <1>7
<1> HIDE DEF lo, hi
<1> QED
  BY <1>8, <1>9 DEF Pair!_percentile_bounds, f, g, K, L, lo, hi

\* What is known of a comparison as soon as its sides and gates have been seen.
Halted(c) ==
    \/ Pair!_retry_transient(c.a.step).out # "ok" \/ Pair!_retry_transient(c.b.step).out # "ok"
    \/ Pair!_variable_mismatch_error(c.a, c.b) \/ Pair!_units_mismatch_error(c.a, c.b)
    \/ Pair!_empty_overlap_error(c.a) \/ Pair!_empty_overlap_error(c.b)
    \/ IF c.mode = "region" THEN Pair!_disjoint_periods_error(c.a, c.b)
       ELSE \/ Pair!_retry_transient(c.align).out # "ok" \/ Pair!_retry_transient(c.reopen).out # "ok"
            \/ Len(c.labels) # 2

\* Whatever labels two sources carry, each is found as the side it is of.
LEMMA SourcesAreFound ==
    ASSUME NEW c, Pair!IsComparisonCase(c), Len(c.labels) = 2
    PROVE  LET order == Pair!_aligned_source_order(c.labels, c.a.handle, c.b.handle)
           IN  Pair!Aligned(c)[order[1]] = c.a /\ Pair!Aligned(c)[order[2]] = c.b
<1> DEFINE L == c.labels
           x == c.a.handle
           y == c.b.handle
           order == Pair!_aligned_source_order(L, x, y)
<1>1. /\ L \in Seq(STRING) /\ Len(L) = 2 /\ DOMAIN L = {1, 2} /\ x # y
      /\ Pair!Range(L) = {L[i] : i \in DOMAIN L}
      /\ \/ Pair!Range(L) = {x, y}
         \/ Pair!Range(L) \cap {x, y} = {}
  <2>1. /\ L \in Seq(STRING) /\ x # y
        /\ \/ Pair!Range(L) = {x, y}
           \/ Pair!Range(L) \cap {x, y} = {}
    BY Zenon DEF Pair!IsComparisonCase
  <2>2. Pair!Range(L) = {L[i] : i \in DOMAIN L}
    BY DEF Pair!Range
  <2> HIDE DEF L
  <2>3. DOMAIN L = 1 .. 2 /\ Len(L) = 2
    BY <2>1 DEF L
  <2>4. 1 .. 2 = {1, 2}
    OBVIOUS
  <2> HIDE DEF x, y
  <2> QED
    BY <2>1, <2>2, <2>3, <2>4
<1>2. \A i \in DOMAIN L : Pair!Aligned(c)[i] = IF L[i] = x THEN c.a ELSE IF L[i] = y THEN c.b
                                              ELSE IF i = 1 THEN c.a ELSE c.b
  BY DEF Pair!Aligned
<1>3. order = IF x \in Pair!Range(L) /\ y \in Pair!Range(L)
              THEN <<CHOOSE i \in DOMAIN L : L[i] = x, CHOOSE i \in DOMAIN L : L[i] = y>> ELSE <<1, 2>>
  BY DEF Pair!_aligned_source_order
<1> HIDE DEF L, x, y, order
<1>4. CASE Pair!Range(L) = {x, y}
  <2> DEFINE i == CHOOSE i \in DOMAIN L : L[i] = x
             j == CHOOSE j \in DOMAIN L : L[j] = y
  <2>1. (\E k \in DOMAIN L : L[k] = x) /\ (\E k \in DOMAIN L : L[k] = y)
    BY <1>1, <1>4
  <2>2. i \in DOMAIN L /\ L[i] = x /\ j \in DOMAIN L /\ L[j] = y
    BY <2>1
  <2>3. order = <<i, j>>
    BY <1>3, <1>4
  <2> HIDE DEF i, j
  <2>4. order[1] = i /\ order[2] = j
    BY <2>3
  <2> QED
    BY <1>1, <1>2, <2>2, <2>4 DEF L, x, y, order
<1>5. CASE Pair!Range(L) \cap {x, y} = {}
  <2>1. order = <<1, 2>>
    BY <1>3, <1>5
  <2>2. order[1] = 1 /\ order[2] = 2
    BY <2>1
  <2>3. 1 \in DOMAIN L /\ 2 \in DOMAIN L /\ L[1] \notin {x, y} /\ L[2] \notin {x, y}
    BY <1>1, <1>5
  <2> QED
    BY <1>2, <2>2, <2>3 DEF L, x, y, order
<1> QED
  BY <1>1, <1>4, <1>5

\* What the reader gets: a refusal, the two panels, or B minus A.
LEMMA ComparisonsEnd ==
    ASSUME NEW c, Pair!IsComparisonCase(c)
    PROVE  LET r == Pair!compare(c)
           IN  /\ Halted(c) =>
                    /\ r.chart = "none"
                    /\ r.cards = IF r.error \in {<<"a", "choice">>, <<"b", "choice">>} THEN 1 ELSE 0
               /\ ~Halted(c) /\ c.mode = "region" => r = Pair!_build_region_comparison(c.a, c.b)
               /\ ~Halted(c) /\ c.mode # "region" =>
                    r = Pair!_build_period_comparison(c.a, c.b, c.threshold)
<1> DEFINE r == Pair!compare(c)
           sa == Pair!_retry_transient(c.a.step)
           sb == Pair!_retry_transient(c.b.step)
           al == Pair!_retry_transient(c.align)
           re == Pair!_retry_transient(c.reopen)
           order == Pair!_aligned_source_order(c.labels, c.a.handle, c.b.handle)
           reasons == Pair!SidesTold(sa, sb)
           vm == Pair!_variable_mismatch_error(c.a, c.b)
           um == Pair!_units_mismatch_error(c.a, c.b)
           eo == Pair!_empty_overlap_error(c.a) \/ Pair!_empty_overlap_error(c.b)
           dp == Pair!_disjoint_periods_error(c.a, c.b)
           region == Pair!_build_region_comparison(c.a, c.b)
           period == Pair!_build_period_comparison(Pair!Aligned(c)[order[1]], Pair!Aligned(c)[order[2]], c.threshold)
<1>1. r = IF reasons # {} THEN CHOOSE t \in reasons : TRUE
          ELSE IF vm THEN Pair!Refusal(<<"variables">>, 0)
          ELSE IF um THEN Pair!Refusal(<<"units">>, 0)
          ELSE IF eo THEN Pair!Refusal(<<"empty">>, 0)
          ELSE IF c.mode = "region"
               THEN IF dp THEN Pair!Refusal(<<"disjoint">>, 0) ELSE region
          ELSE IF al.out # "ok" THEN Pair!Refusal(<<"align", al.out>>, 0)
          ELSE IF re.out # "ok" THEN Pair!Refusal(<<"reopen", re.out>>, 0)
          ELSE IF Len(c.labels) # 2 THEN Pair!Refusal(<<"sources">>, 0)
          ELSE period
  BY Zenon DEF Pair!compare
<1>2. reasons = IF sa.out # "ok" THEN {Pair!Refusal(<<"a", sa.out>>, IF sa.out = "choice" THEN 1 ELSE 0)}
             ELSE IF sb.out # "ok" THEN {Pair!Refusal(<<"b", sb.out>>, IF sb.out = "choice" THEN 1 ELSE 0)} ELSE {}
  BY DEF Pair!SidesTold, Pair!CardOf
<1>3. Halted(c) <=> \/ sa.out # "ok" \/ sb.out # "ok" \/ vm \/ um \/ eo
                    \/ IF c.mode = "region" THEN dp ELSE al.out # "ok" \/ re.out # "ok" \/ Len(c.labels) # 2
  BY DEF Halted
<1>4. Len(c.labels) = 2 => period = Pair!_build_period_comparison(c.a, c.b, c.threshold)
  BY SourcesAreFound
<1>5. \A t : \A n : Pair!Refusal(t, n).chart = "none" /\ Pair!Refusal(t, n).error = t /\ Pair!Refusal(t, n).cards = n
  BY DEF Pair!Refusal
<1> HIDE DEF r, sa, sb, al, re, reasons, vm, um, eo, dp, region, period
<1>6. ~Halted(c) => r = IF c.mode = "region" THEN region ELSE period
  BY <1>1, <1>2, <1>3
<1>7. CASE sa.out # "ok"
  <2> DEFINE n == IF sa.out = "choice" THEN 1 ELSE 0
  <2>1. r = Pair!Refusal(<<"a", sa.out>>, n)
    BY <1>1, <1>2, <1>7
  <2>2. r.chart = "none" /\ r.error = <<"a", sa.out>> /\ r.cards = n
    BY <1>5, <2>1, Zenon
  <2>3. <<"a", sa.out>> \in {<<"a", "choice">>, <<"b", "choice">>} <=> sa.out = "choice"
    OBVIOUS
  <2> QED
    BY <1>3, <1>7, <2>2, <2>3 DEF r
<1>8. CASE sa.out = "ok" /\ sb.out # "ok"
  <2> DEFINE n == IF sb.out = "choice" THEN 1 ELSE 0
  <2>1. r = Pair!Refusal(<<"b", sb.out>>, n)
    BY <1>1, <1>2, <1>8
  <2>2. r.chart = "none" /\ r.error = <<"b", sb.out>> /\ r.cards = n
    BY <1>5, <2>1, Zenon
  <2>3. <<"b", sb.out>> \in {<<"a", "choice">>, <<"b", "choice">>} <=> sb.out = "choice"
    OBVIOUS
  <2> QED
    BY <1>3, <1>8, <2>2, <2>3 DEF r
<1>9. CASE sa.out = "ok" /\ sb.out = "ok" /\ Halted(c)
  <2> DEFINE whys == {<<"variables">>, <<"units">>, <<"empty">>, <<"disjoint">>, <<"align", al.out>>,
                      <<"reopen", re.out>>, <<"sources">>}
  <2>1. \E t \in whys : r = Pair!Refusal(t, 0)
    BY <1>1, <1>2, <1>3, <1>9
  <2>2. \A t \in whys : t \notin {<<"a", "choice">>, <<"b", "choice">>}
    OBVIOUS
  <2> HIDE DEF whys
  <2>3. r.chart = "none" /\ r.error \in whys /\ r.cards = 0
    BY <1>5, <2>1
  <2> QED
    BY <1>9, <2>2, <2>3 DEF r
<1> QED
  BY <1>4, <1>3, <1>6, <1>7, <1>8, <1>9 DEF r, region, sa, sb

LEMMA RowsAreSequences ==
    ASSUME NEW n \in Nat, NEW f \in [1 .. n -> Int]
    PROVE  f \in Seq(Int) /\ Len(f) = n
  OBVIOUS

\* A panel's scale is made of its percentiles, wherever they differ.
LEMMA BoundsLaws ==
    ASSUME NEW f \in Seq(Int), Pair!Known(f) # {}
    PROVE  LET bounds == Pair!_percentile_bounds(f)
               lo == Pair!Percentile(f, 2)
               hi == Pair!Percentile(f, 98)
           IN  /\ bounds = <<bounds[1], bounds[2]>> /\ bounds[1] \in Int /\ bounds[2] \in Int
               /\ bounds[1] <= bounds[2]
               /\ lo < hi => bounds[1] = lo /\ bounds[2] = hi
<1> DEFINE K == Pair!Known(f)
           lo == Pair!Percentile(f, 2)
           hi == Pair!Percentile(f, 98)
           delta == IF lo = 0 THEN 100 ELSE Pair!Abs(lo) \div 100
           bounds == Pair!_percentile_bounds(f)
<1>1. lo \in Int /\ hi \in Int /\ lo <= hi
  <2>1. IsFiniteSet(K) /\ \A i \in K : f[i] \in Int
    BY FieldLaws DEF Pair!Known
  <2>2. PercentileIn(K, f, 2) \in Int /\ PercentileIn(K, f, 98) \in Int /\ PercentileIn(K, f, 2) <= PercentileIn(K, f, 98)
    BY <2>1, PercentilesRise
  <2> QED
    BY <2>2, ThePercentiles
<1>2. bounds = IF lo = hi THEN <<lo - delta, hi + delta>> ELSE <<lo, hi>>
  <2> HIDE DEF lo, hi
  <2> QED
    BY DEF Pair!_percentile_bounds, Pair!Unit, lo, hi
<1> HIDE DEF lo, hi, bounds
<1>3. delta \in Nat
  BY <1>1 DEF Pair!Abs
<1> HIDE DEF delta
<1> QED
  BY <1>1, <1>2, <1>3 DEF lo, hi, bounds

\* The ends of the table are at the ends of the scale.
LEMMA EntryEnds ==
    ASSUME NEW x \in Int, NEW lo \in Int, NEW hi \in Int, lo < hi
    PROVE  /\ x <= lo => Pair!Entry(x, 1, <<lo, hi>>) = 1
           /\ hi <= x => Pair!Entry(x, 1, <<lo, hi>>) = 6
<1>1. ASSUME NEW n \in Nat \ {0} PROVE EndsMeet(x, n, lo, hi)
  <2>1. lo <= hi
    OBVIOUS
  <2> QED
    BY <2>1, EntryLaws
<1>2. ASSUME NEW n \in Nat \ {0}, n = 1
      PROVE  /\ x <= lo => Pair!Entry(x, n, <<lo, hi>>) = 1
             /\ hi <= x => Pair!Entry(x, n, <<lo, hi>>) = 6
  <2>1. n * lo = lo /\ n * hi = hi
    BY <1>2
  <2>2. EndsMeet(x, n, lo, hi)
    BY <1>1
  <2> QED
    BY <2>1, <2>2 DEF EndsMeet
<1> QED
  BY <1>2, 1 \in Nat \ {0}

LEMMA ColoursAreEntries ==
    ASSUME NEW arr, NEW scale, NEW i \in Pair!Known(arr)
    PROVE  Pair!_colorize(arr, scale)[i] = Pair!Entry(100 * arr[i], 1, scale)
  BY DEF Pair!_colorize, Pair!Known, Pair!Unit

\* Two panels on their shared scale.
LEMMA PanelsCompare ==
    ASSUME NEW a \in Seq(Int), NEW b \in Seq(Int), Pair!Known(a \o b) # {}
    PROVE  LET both == a \o b
               scale == Pair!_shared_bounds(a, b)
               shown == {<<a[i], Pair!_colorize(a, scale)[i]>> : i \in Pair!Known(a)} \cup
                        {<<b[i], Pair!_colorize(b, scale)[i]>> : i \in Pair!Known(b)}
           IN  /\ \A x, y \in shown : x[1] <= y[1] => x[2] <= y[2]
               /\ Pair!Percentile(both, 2) < Pair!Percentile(both, 98) => {1, 6} \subseteq {x[2] : x \in shown}
<1> DEFINE both == a \o b
           scale == Pair!_shared_bounds(a, b)
           drawnA == Pair!_colorize(a, scale)
           drawnB == Pair!_colorize(b, scale)
           shown == {<<a[i], drawnA[i]>> : i \in Pair!Known(a)} \cup {<<b[i], drawnB[i]>> : i \in Pair!Known(b)}
           K == Pair!Known(both)
           lo == scale[1]
           hi == scale[2]
           low == Pair!Percentile(both, 2)
           high == Pair!Percentile(both, 98)
           Colour(v) == Pair!Entry(100 * v, 1, <<lo, hi>>)
<1>1. /\ both \in Seq(Int) /\ K = Pair!Known(a) \cup {Len(a) + j : j \in Pair!Known(b)}
      /\ \A i \in DOMAIN a : both[i] = a[i]
      /\ \A j \in DOMAIN b : both[Len(a) + j] = b[j]
      /\ K # {}
  BY SidesTogether
<1>2. /\ scale = <<lo, hi>> /\ lo \in Int /\ hi \in Int /\ lo <= hi
      /\ low < high => lo = low /\ hi = high
  BY <1>1, BoundsLaws DEF Pair!_shared_bounds
<1>3. /\ \A i \in Pair!Known(a) : drawnA[i] = Colour(a[i]) /\ a[i] \in Int
      /\ \A i \in Pair!Known(b) : drawnB[i] = Colour(b[i]) /\ b[i] \in Int
  <2>1. /\ \A i \in Pair!Known(a) : drawnA[i] = Pair!Entry(100 * a[i], 1, scale)
        /\ \A i \in Pair!Known(b) : drawnB[i] = Pair!Entry(100 * b[i], 1, scale)
    BY ColoursAreEntries
  <2>2. /\ \A i \in Pair!Known(a) : a[i] \in Int
        /\ \A i \in Pair!Known(b) : b[i] \in Int
    BY FieldLaws DEF Pair!Known
  <2> HIDE DEF drawnA, drawnB, lo, hi, scale
  <2> QED
    BY <1>2, <2>1, <2>2
<1>4. \A v, w \in Int : v <= w => Colour(v) <= Colour(w)
  <2> SUFFICES ASSUME NEW v \in Int, NEW w \in Int, v <= w PROVE Colour(v) <= Colour(w)
    OBVIOUS
  <2>1. 100 * v \in Int /\ 100 * w \in Int /\ 100 * v <= 100 * w /\ 1 \in Nat \ {0}
    OBVIOUS
  <2> HIDE DEF lo, hi
  <2> QED
    BY <1>2, <2>1, EntriesRise
<1>5. low < high => /\ \E i \in K : Colour(both[i]) = 1
                    /\ \E i \in K : Colour(both[i]) = 6
  <2> SUFFICES ASSUME low < high PROVE /\ \E i \in K : Colour(both[i]) = 1
                                       /\ \E i \in K : Colour(both[i]) = 6
    OBVIOUS
  <2>1. IsFiniteSet(K) /\ \A i \in K : both[i] \in Int
    BY <1>1, FieldLaws DEF Pair!Known
  <2>2. low = PercentileIn(K, both, 2) /\ high = PercentileIn(K, both, 98)
    BY ThePercentiles
  <2>3. lo = low /\ hi = high
    BY <1>2
  <2> HIDE DEF low, high, K, both, lo, hi
  <2>4. /\ \E i \in K : 100 * both[i] <= lo
        /\ \E i \in K : hi <= 100 * both[i]
    BY <1>1, <2>1, <2>2, <2>3, PercentilesRise
  <2>5. ASSUME NEW v \in Int PROVE (100 * v <= lo => Colour(v) = 1) /\ (hi <= 100 * v => Colour(v) = 6)
    <3>1. 100 * v \in Int /\ lo < hi
      BY <1>2, <2>3
    <3> QED
      BY <1>2, <3>1, EntryEnds
  <2> QED
    BY <2>1, <2>4, <2>5
<1>6. \A x \in shown : x[1] \in Int /\ x[2] = Colour(x[1])
  <2> HIDE DEF drawnA, drawnB, Colour
  <2> QED
    BY <1>3
<1>7. \A i \in K : \E x \in shown : x[2] = Colour(both[i])
  <2> HIDE DEF drawnA, drawnB, Colour
  <2> SUFFICES ASSUME NEW i \in K PROVE \E x \in shown : x[2] = Colour(both[i])
    OBVIOUS
  <2>1. CASE i \in Pair!Known(a)
    <3>1. both[i] = a[i]
      BY <1>1, <2>1 DEF Pair!Known
    <3>2. <<a[i], drawnA[i]>> \in shown /\ drawnA[i] = Colour(both[i])
      BY <1>3, <2>1, <3>1
    <3> HIDE DEF shown
    <3> QED
      BY <3>2
  <2>2. ASSUME NEW j \in Pair!Known(b), i = Len(a) + j PROVE \E x \in shown : x[2] = Colour(both[i])
    <3>1. both[i] = b[j]
      BY <1>1, <2>2 DEF Pair!Known
    <3>2. <<b[j], drawnB[j]>> \in shown /\ drawnB[j] = Colour(both[i])
      BY <1>3, <3>1
    <3> HIDE DEF shown
    <3> QED
      BY <3>2
  <2> HIDE DEF K, both, shown
  <2> QED
    BY <1>1, <2>1, <2>2
<1> HIDE DEF shown, Colour, K, both, low, high
<1>8. \A x, y \in shown : x[1] <= y[1] => x[2] <= y[2]
  BY <1>4, <1>6
<1>9. low < high => {1, 6} \subseteq {x[2] : x \in shown}
  BY <1>5, <1>7
<1> QED
  BY <1>8, <1>9 DEF shown, low, high, both

\* B minus A, a cell at a time.
LEMMA Differences ==
    ASSUME NEW a \in Seq(Int), NEW b \in Seq(Int), Len(a) = Len(b),
           \A i \in Pair!Known(a) \cap Pair!Known(b) : b[i] - a[i] \notin {-100, 100}
    PROVE  LET diff == Pair!_difference(a, b)
           IN  /\ diff \in Seq(Int) /\ DOMAIN diff = DOMAIN a /\ DOMAIN a = DOMAIN b
               /\ Pair!Known(diff) = Pair!Known(a) \cap Pair!Known(b)
               /\ \A i \in DOMAIN diff : diff[i] = IF i \in Pair!Known(diff) THEN b[i] - a[i] ELSE -100
<1> DEFINE n == Len(a)
           diff == Pair!_difference(a, b)
<1>1. /\ n \in Nat /\ DOMAIN a = 1 .. n /\ DOMAIN b = 1 .. n
      /\ \A i \in 1 .. n : a[i] \in Int /\ b[i] \in Int
  OBVIOUS
<1>2. diff = [i \in 1 .. n |-> IF a[i] = -100 \/ b[i] = -100 THEN -100 ELSE b[i] - a[i]]
  <2> HIDE DEF n
  <2> QED
    BY <1>1 DEF Pair!_difference, Pair!NaN
<1> HIDE DEF n, diff
<1>3. diff \in [1 .. n -> Int]
  BY <1>1, <1>2
<1>4. diff \in Seq(Int) /\ DOMAIN diff = 1 .. n
  BY <1>1, <1>3, RowsAreSequences
<1>5. Pair!Known(a) \cap Pair!Known(b) = {i \in 1 .. n : a[i] # -100 /\ b[i] # -100}
  BY <1>1 DEF Pair!Known, Pair!NaN
<1>6. \A i \in 1 .. n : ~(a[i] = -100 \/ b[i] = -100) => b[i] - a[i] # -100
  BY <1>5
<1>7. Pair!Known(diff) = {i \in 1 .. n : a[i] # -100 /\ b[i] # -100}
  BY <1>2, <1>4, <1>6 DEF Pair!Known, Pair!NaN
<1>8. \A i \in DOMAIN diff : diff[i] = IF i \in Pair!Known(diff) THEN b[i] - a[i] ELSE -100
  BY <1>2, <1>4, <1>7
<1> QED
  BY <1>1, <1>4, <1>5, <1>7, <1>8 DEF diff

\* The sizes of a field's values.
LEMMA SizesAreWhole ==
    ASSUME NEW f \in Seq(Int)
    PROVE  LET sizes == Pair!Magnitudes(f)
           IN  /\ DOMAIN sizes = Pair!Known(f) /\ Pair!Known(sizes) = Pair!Known(f)
               /\ \A i \in Pair!Known(f) : sizes[i] \in Nat /\ sizes[i] = IF f[i] < 0 THEN -f[i] ELSE f[i]
<1>1. \A i \in Pair!Known(f) : f[i] \in Int
  BY FieldLaws DEF Pair!Known
<1> DEFINE sizes == Pair!Magnitudes(f)
           K == Pair!Known(f)
<1>2. sizes = [i \in K |-> IF f[i] < 0 THEN -f[i] ELSE f[i]]
  BY DEF Pair!Magnitudes, Pair!Abs
<1> HIDE DEF K, sizes
<1>3. DOMAIN sizes = K /\ \A i \in K : sizes[i] = IF f[i] < 0 THEN -f[i] ELSE f[i]
  BY <1>2
<1>4. \A i \in K : sizes[i] \in Nat
  BY <1>1, <1>3 DEF K
<1>5. Pair!Known(sizes) = K
  BY <1>3, <1>4 DEF Pair!Known, Pair!NaN
<1> QED
  BY <1>3, <1>4, <1>5 DEF K, sizes

\* The scale of a difference is the same on both sides of nothing.
LEMMA DivergingScales ==
    ASSUME NEW f \in Seq(Int)
    PROVE  \E z \in Nat \ {0} : Pair!_diverging_bounds(f) = <<-z, z>>
<1> DEFINE K == Pair!Known(f)
           sizes == Pair!Magnitudes(f)
           large == Pair!Percentile(sizes, 98)
           largest == IF K = {} THEN 0 ELSE large
<1>1. Pair!_diverging_bounds(f) = IF largest = 0 THEN <<-100, 100>> ELSE <<-largest, largest>>
  BY DEF Pair!_diverging_bounds, Pair!Unit
<1>2. K # {} => large \in Nat
  <2> SUFFICES ASSUME K # {} PROVE large \in Nat
    OBVIOUS
  <2>1. IsFiniteSet(K) /\ Pair!Known(sizes) = K /\ \A i \in K : sizes[i] \in Nat
    BY FieldLaws, SizesAreWhole
  <2>2. large = PercentileIn(K, sizes, 98)
    BY <2>1, ThePercentiles
  <2> HIDE DEF K, sizes, large
  <2>3. \A i \in K : sizes[i] \in Int
    BY <2>1
  <2>4. /\ PercentileIn(K, sizes, 2) \in Int /\ large \in Int
        /\ PercentileIn(K, sizes, 2) <= large
        /\ \E i \in K : 100 * sizes[i] <= PercentileIn(K, sizes, 2)
    BY <2>1, <2>2, <2>3, PercentilesRise
  <2>5. PICK i \in K : 100 * sizes[i] <= PercentileIn(K, sizes, 2)
    BY <2>4
  <2>6. sizes[i] \in Nat
    BY <2>1
  <2> QED
    BY <2>4, <2>5, <2>6
<1> HIDE DEF K, large
<1>3. largest \in Nat
  BY <1>2
<1> HIDE DEF largest
<1>4. CASE largest = 0
  <2>1. Pair!_diverging_bounds(f) = <<-100, 100>> /\ 100 \in Nat \ {0}
    BY <1>1, <1>4
  <2> QED
    BY <2>1
<1>5. CASE largest # 0
  <2>1. Pair!_diverging_bounds(f) = <<-largest, largest>> /\ largest \in Nat \ {0}
    BY <1>1, <1>3, <1>5
  <2> QED
    BY <2>1
<1> QED
  BY <1>4, <1>5

\* A rise and a fall of one size have mirrored colours.
LEMMA DifferencesMirror ==
    ASSUME NEW f \in Seq(Int), NEW i \in Pair!Known(f), NEW j \in Pair!Known(f), f[i] = -f[j]
    PROVE  LET drawn == Pair!_colorize(f, Pair!_diverging_bounds(f))
           IN  drawn[i] + drawn[j] - 7 \in -1 .. 1
<1> DEFINE drawn == Pair!_colorize(f, Pair!_diverging_bounds(f))
           x == 100 * f[j]
<1>1. PICK z \in Nat \ {0} : Pair!_diverging_bounds(f) = <<-z, z>>
  BY DivergingScales
<1>2. f[i] \in Int /\ f[j] \in Int
  BY FieldLaws DEF Pair!Known
<1>3. 100 * f[i] = -x /\ x \in Int
  BY <1>2
<1>4. /\ drawn[i] = Pair!Entry(100 * f[i], 1, <<-z, z>>)
      /\ drawn[j] = Pair!Entry(100 * f[j], 1, <<-z, z>>)
  <2>1. /\ drawn[i] = Pair!Entry(100 * f[i], 1, Pair!_diverging_bounds(f))
        /\ drawn[j] = Pair!Entry(100 * f[j], 1, Pair!_diverging_bounds(f))
    BY ColoursAreEntries
  <2> HIDE DEF drawn
  <2> QED
    BY <1>1, <2>1, Zenon
<1> HIDE DEF drawn
<1>5. drawn[i] = Pair!Entry(-x, 1, <<-z, z>>) /\ drawn[j] = Pair!Entry(x, 1, <<-z, z>>)
  <2>1. x = 100 * f[j]
    OBVIOUS
  <2> QED
    BY <1>3, <1>4, <2>1, Zenon
<1> HIDE DEF x
<1>6. Pair!Entry(x, 1, <<-z, z>>) + Pair!Entry(-x, 1, <<-z, z>>) - 7 \in -1 .. 1
  BY <1>3, EntriesMirror
<1>7. Pair!Entry(x, 1, <<-z, z>>) \in Int /\ Pair!Entry(-x, 1, <<-z, z>>) \in Int
  <2>1. ASSUME NEW u \in Int, NEW w \in Int, w <= z PROVE Pair!Entry(u, 1, <<w, z>>) \in Int
    <3>1. Pair!Entry(u, 1, <<w, z>>) \in 1 .. 6
      BY <2>1, EntryRange, 1 \in Nat \ {0}
    <3> QED
      BY <3>1
  <2>2. -z \in Int /\ -z <= z /\ -x \in Int
    BY <1>3
  <2> QED
    BY <1>3, <2>1, <2>2
<1> DEFINE p == Pair!Entry(x, 1, <<-z, z>>)
           q == Pair!Entry(-x, 1, <<-z, z>>)
<1>8. drawn[i] = q /\ drawn[j] = p /\ p \in Int /\ q \in Int /\ p + q - 7 \in -1 .. 1
  BY <1>5, <1>6, <1>7
<1> HIDE DEF p, q
<1> QED
  BY <1>8 DEF drawn

\* A field's cells, each as often as it weighs.
Weighted(cells, field) == [i \in cells |-> Pair!Weight(i) * field[i]]

LEMMA FieldTotals ==
    ASSUME NEW cells, IsFiniteSet(cells), NEW field, \A i \in cells : field[i] \in Int
    PROVE  /\ Weighted(cells, field) \in [cells -> Int]
           /\ Pair!TotalOver(cells, field) = TotalOf(Weighted(cells, field), cells)
           /\ Pair!TotalOver(cells, field) \in Int
<1> DEFINE F == Weighted(cells, field)
           Sums(t) == [s \in SUBSET cells |->
                         IF s = {} THEN 0
                         ELSE LET x == CHOOSE x \in s : TRUE IN Pair!Weight(x) * field[x] + t[s \ {x}]]
           sums == CHOOSE t : t = Sums(t)
<1>1. \A i \in cells : Pair!Weight(i) * field[i] \in Int
  BY DEF Pair!Weight
<1>2. F \in [cells -> Int]
  BY <1>1 DEF Weighted
<1>3. Pair!TotalOver(cells, field) = sums[cells]
  BY Zenon DEF Pair!TotalOver, Pair!MapThenSumSet, Pair!MapThenFoldSet, sums, Sums
<1>4. \A t : Sums(t) = SumsOf(cells, F, t)
  BY DEF SumsOf, Pick, Weighted
<1> HIDE DEF Sums, F
<1>5. /\ \E t : t = SumsOf(cells, F, t)
      /\ \A t : t = SumsOf(cells, F, t) => t[cells] = TotalOf(F, cells)
      /\ TotalOf(F, cells) \in Int
  <2>1. cells \in SUBSET cells
    OBVIOUS
  <2> QED
    BY <1>2, <2>1, TotalIsTheSum
<1>6. sums = Sums(sums)
  BY <1>4, <1>5
<1> HIDE DEF sums
<1>7. sums[cells] = TotalOf(F, cells)
  BY <1>4, <1>5, <1>6
<1> QED
  BY <1>2, <1>3, <1>5, <1>7 DEF F

Adds(S, a, d, b) == \A x \in S : b[x] = a[x] + d[x]

\* Sums of sums, a term at a time.
LEMMA TotalsAdd ==
    ASSUME NEW S, IsFiniteSet(S), NEW a \in [S -> Int], NEW b \in [S -> Int], NEW d \in [S -> Int],
           Adds(S, a, d, b)
    PROVE  TotalOf(b, S) = TotalOf(a, S) + TotalOf(d, S)
<1> DEFINE bad == {s \in SUBSET S : TotalOf(b, s) # TotalOf(a, s) + TotalOf(d, s)}
<1>1. \A s \in SUBSET S : IsFiniteSet(s)
  BY FS_Subset
<1>2. {} \notin bad
  BY TotalOfNothing
<1>3. ASSUME NEW s \in bad, s # {} PROVE \E x \in s : s \ {x} \in bad
  <2>1. PICK x \in s : TRUE
    BY <1>3
  <2> DEFINE r == s \ {x}
  <2>2. s \in SUBSET S /\ r \in SUBSET S
    OBVIOUS
  <2>3. /\ TotalOf(a, s) = a[x] + TotalOf(a, r) /\ TotalOf(b, s) = b[x] + TotalOf(b, r)
        /\ TotalOf(d, s) = d[x] + TotalOf(d, r)
    BY <1>1, <2>2, TotalStep
  <2>4. /\ TotalOf(a, r) \in Int /\ TotalOf(b, r) \in Int /\ TotalOf(d, r) \in Int
        /\ a[x] \in Int /\ b[x] \in Int /\ d[x] \in Int /\ b[x] = a[x] + d[x]
        /\ TotalOf(b, s) # TotalOf(a, s) + TotalOf(d, s)
    BY <1>1, <2>2, TotalIsWhole DEF Adds
  <2> HIDE DEF r, bad
  <2>5. TotalOf(b, r) # TotalOf(a, r) + TotalOf(d, r)
    BY <2>3, <2>4
  <2> QED
    BY <2>2, <2>5 DEF r, bad
<1>4. bad \in SUBSET SUBSET S
  OBVIOUS
<1> HIDE DEF bad
<1>5. bad = {}
  BY <1>1, <1>2, <1>3, <1>4, Shrinking
<1> QED
  BY <1>5 DEF bad

\* The total of a difference is the difference of the totals over the cells both have.
LEMMA TotalsDiffer ==
    ASSUME NEW a \in Seq(Int), NEW b \in Seq(Int), Len(a) = Len(b),
           \A i \in Pair!Known(a) \cap Pair!Known(b) : b[i] - a[i] \notin {-100, 100}
    PROVE  LET diff == Pair!_difference(a, b)
               paired == [i \in DOMAIN a |-> IF diff[i] = -100 THEN -100 ELSE a[i]]
               both == Pair!Known(a) \cap Pair!Known(b)
           IN  /\ Pair!Total(paired) = Pair!TotalOver(both, a)
               /\ Pair!TotalOver(both, a) \in Int /\ Pair!Total(diff) \in Int
               /\ Pair!TotalOver(both, b) = Pair!TotalOver(both, a) + Pair!Total(diff)
<1> DEFINE diff == Pair!_difference(a, b)
           paired == [i \in DOMAIN a |-> IF diff[i] = -100 THEN -100 ELSE a[i]]
           both == Pair!Known(a) \cap Pair!Known(b)
<1>1. /\ Pair!Known(diff) = both /\ DOMAIN diff = DOMAIN a
      /\ \A i \in DOMAIN diff : diff[i] = IF i \in Pair!Known(diff) THEN b[i] - a[i] ELSE -100
  BY Differences
<1>2. /\ IsFiniteSet(both) /\ both \in SUBSET DOMAIN a
      /\ \A i \in both : a[i] \in Int /\ b[i] \in Int /\ a[i] # -100
  <2>1. IsFiniteSet(Pair!Known(a)) /\ both \in SUBSET Pair!Known(a)
    BY FieldLaws
  <2>2. \A i \in both : i \in DOMAIN a /\ i \in DOMAIN b /\ a[i] # -100
    BY DEF Pair!Known, Pair!NaN
  <2>3. IsFiniteSet(both)
    BY <2>1, FS_Subset
  <2> QED
    BY <2>2, <2>3
<1> HIDE DEF diff, both
<1>3. \A i \in both : diff[i] = b[i] - a[i] /\ diff[i] # -100
  <2>1. \A i \in both : diff[i] # -100
    BY <1>1 DEF Pair!Known, Pair!NaN
  <2> QED
    BY <1>1, <1>2, <2>1
<1>4. Pair!Known(paired) = both
  <2>1. \A i \in DOMAIN a : i \notin both => diff[i] = -100
    BY <1>1
  <2>2. DOMAIN paired = DOMAIN a /\ \A i \in DOMAIN a : paired[i] = IF diff[i] = -100 THEN -100 ELSE a[i]
    OBVIOUS
  <2> HIDE DEF paired
  <2> QED
    BY <1>2, <1>3, <2>1, <2>2 DEF Pair!Known, Pair!NaN
<1>5. \A i \in both : paired[i] = a[i]
  BY <1>2, <1>3
<1> HIDE DEF paired
<1> DEFINE A == Weighted(both, a)
           B == Weighted(both, b)
           D == Weighted(both, diff)
<1>6. /\ A \in [both -> Int] /\ B \in [both -> Int] /\ D \in [both -> Int]
      /\ Pair!TotalOver(both, a) = TotalOf(A, both) /\ Pair!TotalOver(both, b) = TotalOf(B, both)
      /\ Pair!TotalOver(both, diff) = TotalOf(D, both)
      /\ Pair!TotalOver(both, a) \in Int /\ Pair!TotalOver(both, diff) \in Int
      /\ Pair!TotalOver(both, paired) = TotalOf(Weighted(both, paired), both)
  <2>1. ASSUME NEW i \in both PROVE diff[i] \in Int /\ paired[i] \in Int
    <3>1. a[i] \in Int /\ b[i] \in Int /\ diff[i] = b[i] - a[i] /\ paired[i] = a[i]
      BY <1>2, <1>3, <1>5
    <3> HIDE DEF both
    <3> QED
      BY <3>1
  <2> QED
    BY <1>2, <2>1, FieldTotals
<1>7. Adds(both, A, D, B)
  BY <1>2, <1>3 DEF Weighted, Pair!Weight, Adds
<1>8. Weighted(both, paired) = A
  BY <1>5 DEF Weighted
<1> HIDE DEF A, B, D
<1>9. TotalOf(B, both) = TotalOf(A, both) + TotalOf(D, both)
  <2>1. IsFiniteSet(both) /\ A \in [both -> Int] /\ B \in [both -> Int] /\ D \in [both -> Int]
    BY <1>2, <1>6
  <2> QED
    BY <2>1, <1>7, TotalsAdd
<1>10. Pair!Total(paired) = Pair!TotalOver(both, paired) /\ Pair!Total(diff) = Pair!TotalOver(both, diff)
  BY <1>1, <1>4 DEF Pair!Total
<1> QED
  BY <1>6, <1>8, <1>9, <1>10 DEF diff, paired, both

\* Five tries wait for twenty seconds and a half.
LEMMA WaitsAreShort ==
    ASSUME NEW tries \in 1 .. 5
    PROVE  Pair!Waited(tries) <= 42
<1> DEFINE S == 1 .. (tries - 1)
           F == [k \in 1 .. 4 |-> Pair!Delay(k)]
           Sums(t) == [s \in SUBSET S |->
                         IF s = {} THEN 0
                         ELSE LET x == CHOOSE x \in s : TRUE IN Pair!Delay(x) + t[s \ {x}]]
           sums == CHOOSE t : t = Sums(t)
<1>1. F[1] = 3 /\ F[2] = 6 /\ F[3] = 12 /\ F[4] = 20
  <2>1. \A n \in Int : Pair!Min({n, 20}) = IF n <= 20 THEN n ELSE 20
    <3> TAKE n \in Int
    <3>1. Pair!Min({n, 20}) = Min({n, 20})
      BY PictureSame
    <3>2. LET V == {n, 20} IN Min(V) = CHOOSE x \in V : \A y \in V : x <= y
      BY DEF Min
    <3> QED
      BY <3>1, <3>2
  <2>2. /\ 2 ^ (1 - 1) = 1 /\ 2 ^ (2 - 1) = 2 /\ 2 ^ (3 - 1) = 4 /\ 2 ^ (4 - 1) = 8
    OBVIOUS
  <2>3. \A k \in 1 .. 4 : F[k] = Pair!Min({3 * 2 ^ (k - 1), 20})
    BY DEF Pair!Delay, Pair!BaseDelay, Pair!MaxDelay
  <2> HIDE DEF F
  <2> QED
    BY <2>1, <2>2, <2>3
<1>2. F \in [1 .. 4 -> Int]
  <2>1. \A k \in 1 .. 4 : k \in {1, 2, 3, 4}
    OBVIOUS
  <2>2. DOMAIN F = 1 .. 4 /\ F = [k \in 1 .. 4 |-> F[k]]
    OBVIOUS
  <2> HIDE DEF F
  <2> QED
    BY <1>1, <2>1, <2>2
<1>3. S \in SUBSET (1 .. 4) /\ IsFiniteSet(S)
  BY FS_Interval
<1>4. Pair!Waited(tries) = sums[S]
  BY Zenon DEF Pair!Waited, Pair!MapThenSumSet, Pair!MapThenFoldSet, sums, Sums
<1>5. \A t : Sums(t) = SumsOf(S, F, t)
  BY <1>3 DEF SumsOf, Pick
<1> HIDE DEF S, F, Sums
<1>6. /\ \E t : t = SumsOf(S, F, t)
      /\ \A t : t = SumsOf(S, F, t) => t[S] = TotalOf(F, S)
  BY <1>2, <1>3, TotalIsTheSum
<1>7. sums = Sums(sums)
  BY <1>5, <1>6
<1> HIDE DEF sums
<1>8. sums[S] = TotalOf(F, S)
  BY <1>5, <1>6, <1>7
<1>9. ASSUME NEW n \in 1 .. 4 PROVE TotalOf(F, 1 .. n) = F[n] + TotalOf(F, 1 .. (n - 1))
  <2> DEFINE I == 1 .. n
  <2>1. I \in SUBSET (1 .. 4) /\ n \in I /\ I \ {n} = 1 .. (n - 1)
    OBVIOUS
  <2>2. IsFiniteSet(I)
    BY FS_Interval
  <2> HIDE DEF I
  <2>3. TotalOf(F, I) = F[n] + TotalOf(F, I \ {n})
    BY <1>2, <2>1, <2>2, TotalStep
  <2> QED
    BY <2>1, <2>3 DEF I
<1>10. TotalOf(F, 1 .. 0) = 0
  <2>1. 1 .. 0 = {}
    OBVIOUS
  <2> QED
    BY <1>2, <2>1, TotalOfNothing
<1>11. TotalOf(F, 1 .. 1) = 3
  BY <1>1, <1>9, <1>10
<1>12. TotalOf(F, 1 .. 2) = 9
  BY <1>1, <1>9, <1>11
<1>13. TotalOf(F, 1 .. 3) = 21
  BY <1>1, <1>9, <1>12
<1>14. TotalOf(F, 1 .. 4) = 41
  BY <1>1, <1>9, <1>13
<1> DEFINE m == tries - 1
<1>15. m \in {0, 1, 2, 3, 4} /\ Pair!Waited(tries) = TotalOf(F, 1 .. m)
  BY <1>4, <1>8 DEF S
<1> HIDE DEF m
<1> DEFINE w == Pair!Waited(tries)
<1>16. w \in {0, 3, 9, 21, 41}
  BY <1>10, <1>11, <1>12, <1>13, <1>14, <1>15, Zenon
<1> HIDE DEF w
<1>17. w <= 42
  BY <1>16
<1> QED
  BY <1>17 DEF w

\* A step is tried at most five times, and its own failures are told.
LEMMA RetriesEnd ==
    ASSUME NEW step \in [transients : Nat, end : STRING]
    PROVE  LET met == Pair!_retry_transient(step)
           IN  /\ met.tries \in 1 .. 5
               /\ met.out # step.end => met.out = "provider_unavailable"
<1>1. step.transients \in Nat
  OBVIOUS
<1> DEFINE n == step.transients
<1>2. Pair!_retry_transient(step) = IF n >= 5 THEN [out |-> "provider_unavailable", tries |-> 5]
                                    ELSE [out |-> step.end, tries |-> n + 1]
  BY DEF Pair!_retry_transient, Pair!_TRANSIENT_RETRY_ATTEMPTS
<1> HIDE DEF n
<1>3. n \in Nat
  BY <1>1 DEF n
<1>4. CASE n >= 5
  BY <1>2, <1>4
<1>5. CASE ~(n >= 5)
  BY <1>2, <1>3, <1>5
<1> QED
  BY <1>4, <1>5

\* A comparison answers once and in bounded time, for any retries and sides.
THEOREM ComparisonsAnswerInTime ==
    ASSUME NEW c, Pair!IsComparisonCase(c)
    PROVE  Pair!OneAnswerInTime(c, Pair!compare(c))
<1> DEFINE r == Pair!compare(c)
<1>1. r.cards = IF r.error \in {<<"a", "choice">>, <<"b", "choice">>} THEN 1 ELSE 0
  <2>1. CASE Halted(c)
    BY <2>1, ComparisonsEnd
  <2>2. CASE ~Halted(c) /\ c.mode = "region"
    <3>1. r = Pair!_build_region_comparison(c.a, c.b)
      BY <2>2, ComparisonsEnd
    <3>2. r.cards = 0 /\ r.error = <<>>
      <4> HIDE DEF r
      <4> QED
        BY <3>1 DEF Pair!_build_region_comparison
    <3> HIDE DEF r
    <3>3. <<>> \notin {<<"a", "choice">>, <<"b", "choice">>}
      OBVIOUS
    <3> QED
      BY <3>2, <3>3
  <2>3. CASE ~Halted(c) /\ c.mode # "region"
    <3>1. r = Pair!_build_period_comparison(c.a, c.b, c.threshold)
      BY <2>3, ComparisonsEnd
    <3>2. r.cards = 0 /\ r.error = <<>>
      <4> HIDE DEF r
      <4> QED
        BY <3>1 DEF Pair!_build_period_comparison
    <3> HIDE DEF r
    <3>3. <<>> \notin {<<"a", "choice">>, <<"b", "choice">>}
      OBVIOUS
    <3> QED
      BY <3>2, <3>3
  <2> QED
    BY <2>1, <2>2, <2>3
<1>2. \A step \in {c.a.step, c.b.step, c.align, c.reopen} : step \in [transients : Nat, end : STRING]
  BY Zenon DEF Pair!IsComparisonCase, Pair!IsSide
<1>3. ASSUME NEW step \in {c.a.step, c.b.step, c.align, c.reopen}
      PROVE  LET met == Pair!_retry_transient(step)
             IN  met.tries <= 5 /\ Pair!Waited(met.tries) <= 42
                 /\ (met.out # step.end => met.out = "provider_unavailable")
  <2> DEFINE met == Pair!_retry_transient(step)
  <2>1. met.tries \in 1 .. 5 /\ (met.out # step.end => met.out = "provider_unavailable")
    BY <1>2, RetriesEnd
  <2> HIDE DEF met
  <2>2. Pair!Waited(met.tries) <= 42 /\ met.tries <= 5
    BY <2>1, WaitsAreShort
  <2> QED
    BY <2>1, <2>2 DEF met
<1> QED
  BY <1>1, <1>3 DEF Pair!OneAnswerInTime

\* What is left of a side is some of its cells.
LEMMA SidesArePrepared ==
    ASSUME NEW c, Pair!IsComparisonCase(c), NEW side \in {c.a, c.b}
    PROVE  LET field == Pair!_prepare_2d(side)
           IN  /\ field \in Seq(Int) /\ Len(field) = Len(side.cells)
               /\ \A i \in Pair!Known(field) : i \in Pair!Known(side.cells) /\ field[i] = side.cells[i]
<1> DEFINE field == Pair!_prepare_2d(side)
           cells == side.cells
<1>1. cells \in Seq(Int)
  BY Zenon DEF Pair!IsComparisonCase, Pair!IsSide
<1>2. /\ DOMAIN field = DOMAIN cells /\ field = [i \in DOMAIN cells |-> field[i]]
      /\ \A i \in DOMAIN cells : field[i] = IF i \in side.masked THEN -100 ELSE cells[i]
  BY DEF Pair!_prepare_2d, Pair!NaN
<1> HIDE DEF field, cells
<1>3. DOMAIN cells = 1 .. Len(cells) /\ Len(cells) \in Nat /\ \A i \in DOMAIN cells : cells[i] \in Int
  BY <1>1
<1>4. \A i \in 1 .. Len(cells) : field[i] \in Int
  BY <1>2, <1>3
<1>5. field \in [1 .. Len(cells) -> Int]
  BY <1>2, <1>3, <1>4
<1>6. field \in Seq(Int) /\ Len(field) = Len(cells)
  BY <1>3, <1>5
<1>7. \A i \in Pair!Known(field) : i \in Pair!Known(cells) /\ field[i] = cells[i]
  BY <1>2 DEF Pair!Known, Pair!NaN
<1> QED
  BY <1>6, <1>7 DEF field, cells

\* Two sides that are compared over a period.
LEMMA PeriodsAreCompared ==
    ASSUME NEW c, Pair!IsComparisonCase(c), Pair!compare(c).chart = "difference"
    PROVE  LET a == Pair!_prepare_2d(c.a)
               b == Pair!_prepare_2d(c.b)
           IN  /\ ~Halted(c) /\ c.mode # "region"
               /\ Pair!compare(c) = Pair!_build_period_comparison(c.a, c.b, c.threshold)
               /\ a \in Seq(Int) /\ b \in Seq(Int) /\ Len(a) = Len(b)
               /\ \A i \in Pair!Known(a) \cap Pair!Known(b) : b[i] - a[i] \notin {-100, 100}
<1>1. ~Halted(c)
  BY ComparisonsEnd
<1>2. c.mode # "region"
  <2>1. Pair!_build_region_comparison(c.a, c.b).chart = "panels"
    BY DEF Pair!_build_region_comparison
  <2> QED
    BY <1>1, <2>1, ComparisonsEnd
<1>3. Pair!compare(c) = Pair!_build_period_comparison(c.a, c.b, c.threshold)
  BY <1>1, <1>2, ComparisonsEnd
<1> DEFINE x == Pair!_prepare_2d(c.a)
           y == Pair!_prepare_2d(c.b)
<1>4. /\ x \in Seq(Int) /\ Len(x) = Len(c.a.cells)
      /\ \A i \in Pair!Known(x) : i \in Pair!Known(c.a.cells) /\ x[i] = c.a.cells[i]
  BY SidesArePrepared
<1>5. /\ y \in Seq(Int) /\ Len(y) = Len(c.b.cells)
      /\ \A i \in Pair!Known(y) : i \in Pair!Known(c.b.cells) /\ y[i] = c.b.cells[i]
  BY SidesArePrepared
<1>6. /\ Len(c.a.cells) = Len(c.b.cells)
      /\ \A i \in Pair!Known(c.a.cells) \cap Pair!Known(c.b.cells) :
            c.b.cells[i] - c.a.cells[i] \notin {Pair!NaN, -Pair!NaN}
  BY <1>2, Zenon DEF Pair!IsComparisonCase
<1>7. {Pair!NaN, -Pair!NaN} = {-100, 100}
  BY DEF Pair!NaN
<1> HIDE DEF x, y
<1>8. \A i \in Pair!Known(x) \cap Pair!Known(y) : y[i] - x[i] \notin {-100, 100}
  BY <1>4, <1>5, <1>6, <1>7
<1>9. Len(x) = Len(y)
  BY <1>4, <1>5, <1>6
<1> QED
  BY <1>1, <1>2, <1>3, <1>4, <1>5, <1>8, <1>9, Zenon DEF x, y

LEMMA PanelsAreCompared ==
    ASSUME NEW c, Pair!IsComparisonCase(c), Pair!compare(c).chart = "panels"
    PROVE  /\ ~Halted(c) /\ c.mode = "region"
           /\ Pair!compare(c) = Pair!_build_region_comparison(c.a, c.b)
           /\ Pair!_prepare_2d(c.a) \in Seq(Int) /\ Pair!_prepare_2d(c.b) \in Seq(Int)
<1>1. ~Halted(c)
  BY ComparisonsEnd
<1>2. c.mode = "region"
  <2>1. Pair!_build_period_comparison(c.a, c.b, c.threshold).chart = "difference"
    BY DEF Pair!_build_period_comparison
  <2> QED
    BY <1>1, <2>1, ComparisonsEnd
<1>3. Pair!compare(c) = Pair!_build_region_comparison(c.a, c.b)
  BY <1>1, <1>2, ComparisonsEnd
<1>4. Pair!_prepare_2d(c.a) \in Seq(Int)
  BY SidesArePrepared
<1>5. Pair!_prepare_2d(c.b) \in Seq(Int)
  BY SidesArePrepared
<1> QED
  BY <1>1, <1>2, <1>3, <1>4, <1>5, Zenon

\* A difference is B minus A of what each side's own mask leaves of it, whatever
\* order and labels the server stores the aligned sources with.
THEOREM DifferencesAreBMinusA ==
    ASSUME NEW c, Pair!IsComparisonCase(c)
    PROVE  Pair!DifferenceIsBMinusA(c, Pair!compare(c))
<1> DEFINE r == Pair!compare(c)
<1> SUFFICES ASSUME r.chart = "difference" PROVE r.diff = Pair!_difference(Pair!_prepare_2d(c.a), Pair!_prepare_2d(c.b))
  BY DEF Pair!DifferenceIsBMinusA
<1>1. r = Pair!_build_period_comparison(c.a, c.b, c.threshold)
  BY PeriodsAreCompared
<1> HIDE DEF r
<1> QED
  BY <1>1 DEF Pair!_build_period_comparison

\* A percentage relates the means over the cells both sides have, for any fields.
THEOREM PercentsAreOfPairedCells ==
    ASSUME NEW c, Pair!IsComparisonCase(c)
    PROVE  Pair!PercentIsOfThePairedCells(c, Pair!compare(c))
<1> DEFINE r == Pair!compare(c)
           a == Pair!_prepare_2d(c.a)
           b == Pair!_prepare_2d(c.b)
           both == Pair!Known(a) \cap Pair!Known(b)
           p == r.stats.percent
           diff == Pair!_difference(a, b)
           paired == [i \in DOMAIN a |-> IF diff[i] = -100 THEN -100 ELSE a[i]]
           stats == Pair!_anomaly_stats(a, b, c.threshold)
           x == Pair!TotalOver(both, a)
           y == Pair!Total(diff)
<1> SUFFICES ASSUME r.chart = "difference", p # <<>>
             PROVE  x * (p[2] + p[1]) = Pair!TotalOver(both, b) * p[2]
  BY DEF Pair!PercentIsOfThePairedCells
<1>1. /\ r = Pair!_build_period_comparison(c.a, c.b, c.threshold)
      /\ a \in Seq(Int) /\ b \in Seq(Int) /\ Len(a) = Len(b)
      /\ \A i \in both : b[i] - a[i] \notin {-100, 100}
  BY PeriodsAreCompared
<1>2. Pair!Total(paired) = x /\ x \in Int /\ y \in Int /\ Pair!TotalOver(both, b) = x + y
  BY <1>1, TotalsDiffer
<1>3. stats.percent \in {<<>>, <<y, Pair!Total(paired)>>}
  <2> DEFINE given == <<y, Pair!Total(paired)>>
             held == \/ Pair!Known(diff) = {} \/ Pair!Total(paired) = 0
                     \/ Pair!Abs(Pair!Total(paired)) * Pair!Unit * Pair!FloorShare
                          < Pair!Spread(paired) * Pair!TotalWeight(paired)
  <2>1. stats.percent = IF held THEN <<>> ELSE given
    BY DEF Pair!_anomaly_stats, Pair!NaN
  <2> HIDE DEF given, held, stats
  <2> QED
    BY <2>1 DEF given
<1>4. p = stats.percent
  <2> HIDE DEF r, stats
  <2> QED
    BY <1>1 DEF Pair!_build_period_comparison, stats
<1>5. p = <<y, x>>
  <2> HIDE DEF p, x, y, paired, stats
  <2> QED
    BY <1>2, <1>3, <1>4
<1> HIDE DEF p, x, y, both, paired, diff, stats
<1>6. p[1] = y /\ p[2] = x
  BY <1>5
<1>7. x * (x + y) = (x + y) * x
  BY <1>2
<1> QED
  BY <1>2, <1>6, <1>7

\* Side by side a colour means a value, for any two fields.
THEOREM ColoursAlwaysCompare ==
    ASSUME NEW c, Pair!IsComparisonCase(c)
    PROVE  Pair!ColoursCompare(c, Pair!compare(c))
<1> DEFINE r == Pair!compare(c)
           a == Pair!_prepare_2d(c.a)
           b == Pair!_prepare_2d(c.b)
           scale == Pair!_shared_bounds(a, b)
           drawn == r.drawn
           shown == {<<a[i], drawn[1][i]>> : i \in Pair!Known(a)} \cup {<<b[i], drawn[2][i]>> : i \in Pair!Known(b)}
           known == {<<a[i], Pair!_colorize(a, scale)[i]>> : i \in Pair!Known(a)} \cup
                    {<<b[i], Pair!_colorize(b, scale)[i]>> : i \in Pair!Known(b)}
<1> SUFFICES ASSUME r.chart = "panels"
             PROVE  /\ \A x, y \in shown : x[1] <= y[1] => x[2] <= y[2]
                    /\ Pair!Known(a \o b) # {} /\ Pair!Percentile(a \o b, 2) < Pair!Percentile(a \o b, 98)
                         => {1, 6} \subseteq {x[2] : x \in shown}
  BY DEF Pair!ColoursCompare, Pair!LUT
<1>1. /\ r = Pair!_build_region_comparison(c.a, c.b)
      /\ a \in Seq(Int) /\ b \in Seq(Int)
  BY PanelsAreCompared
<1>2. drawn[1] = Pair!_colorize(a, scale) /\ drawn[2] = Pair!_colorize(b, scale)
  <2> HIDE DEF r
  <2> QED
    BY <1>1 DEF Pair!_build_region_comparison
<1>3. shown = known
  <2> HIDE DEF drawn, scale
  <2> QED
    BY <1>2
<1>4. ASSUME Pair!Known(a \o b) # {}
      PROVE  /\ \A x, y \in known : x[1] <= y[1] => x[2] <= y[2]
             /\ Pair!Percentile(a \o b, 2) < Pair!Percentile(a \o b, 98) => {1, 6} \subseteq {x[2] : x \in known}
  BY <1>1, <1>4, PanelsCompare
<1>5. Pair!Known(a \o b) = {} => known = {}
  <2>1. Pair!Known(a \o b) = Pair!Known(a) \cup {Len(a) + j : j \in Pair!Known(b)}
    BY <1>1, SidesTogether
  <2> QED
    BY <2>1
<1> HIDE DEF shown, known, a, b
<1> QED
  BY <1>3, <1>4, <1>5

\* A rise and a fall of one size are mirrored about the middle colour, for any
\* difference.
THEOREM ChangesAlwaysMirror ==
    ASSUME NEW c, Pair!IsComparisonCase(c)
    PROVE  Pair!ChangesMirror(Pair!compare(c))
<1> DEFINE r == Pair!compare(c)
           a == Pair!_prepare_2d(c.a)
           b == Pair!_prepare_2d(c.b)
           diff == Pair!_difference(a, b)
<1> SUFFICES ASSUME r.chart = "difference", NEW i \in Pair!Known(r.diff), NEW j \in Pair!Known(r.diff),
                    r.diff[i] = -r.diff[j]
             PROVE  r.drawn[1][i] + r.drawn[1][j] - 7 \in -1 .. 1
  BY DEF Pair!ChangesMirror, Pair!LUT
<1>1. /\ r = Pair!_build_period_comparison(c.a, c.b, c.threshold)
      /\ a \in Seq(Int) /\ b \in Seq(Int) /\ Len(a) = Len(b)
      /\ \A k \in Pair!Known(a) \cap Pair!Known(b) : b[k] - a[k] \notin {-100, 100}
  BY PeriodsAreCompared
<1>2. r.diff = diff /\ r.drawn[1] = Pair!_colorize(diff, Pair!_diverging_bounds(diff))
  <2> HIDE DEF r, diff
  <2> QED
    BY <1>1 DEF Pair!_build_period_comparison, diff
<1>3. diff \in Seq(Int)
  BY <1>1, Differences
<1> HIDE DEF r, diff
<1>4. i \in Pair!Known(diff) /\ j \in Pair!Known(diff) /\ diff[i] = -diff[j]
  BY <1>2
<1> DEFINE drawn == Pair!_colorize(diff, Pair!_diverging_bounds(diff))
<1>5. drawn[i] + drawn[j] - 7 \in -1 .. 1
  BY <1>3, <1>4, DifferencesMirror
<1> HIDE DEF drawn
<1> QED
  BY <1>2, <1>5 DEF drawn, r

\* The other way round a comparison is as well formed, and halts as often.
LEMMA SwappedCases ==
    ASSUME NEW c, Pair!IsComparisonCase(c)
    PROVE  LET s == Pair!Swapped(c)
           IN  /\ Pair!IsComparisonCase(s) /\ Halted(s) = Halted(c)
               /\ s.a = c.b /\ s.b = c.a /\ s.mode = c.mode /\ s.threshold = c.threshold
<1> DEFINE s == Pair!Swapped(c)
<1>1. /\ s.a = c.b /\ s.b = c.a /\ s.mode = c.mode /\ s.threshold = c.threshold
      /\ s.align = c.align /\ s.reopen = c.reopen /\ s.labels = c.labels
  BY DEF Pair!Swapped
<1> HIDE DEF s
<1>2. Pair!IsComparisonCase(s)
  <2> DEFINE x == c.a.handle
             y == c.b.handle
             a == c.a.cells
             b == c.b.cells
             L == Pair!Range(c.labels)
  <2>1. /\ Pair!IsSide(c.a) /\ Pair!IsSide(c.b) /\ x # y
        /\ {c.align, c.reopen} \subseteq [transients : Nat, end : STRING]
        /\ c.labels \in Seq(STRING)
        /\ Len(c.labels) = 2 => (L = {x, y} \/ L \cap {x, y} = {})
        /\ c.mode # "region" => Len(a) = Len(b)
    BY Zenon DEF Pair!IsComparisonCase
  <2>2. \A i \in Pair!Known(a) \cap Pair!Known(b) : b[i] - a[i] \notin {-100, 100}
    BY DEF Pair!IsComparisonCase, Pair!NaN
  <2>3. \A i \in Pair!Known(a) \cap Pair!Known(b) : a[i] \in Int /\ b[i] \in Int
    <3>1. a \in Seq(Int) /\ b \in Seq(Int)
      BY <2>1, Zenon DEF Pair!IsSide
    <3>2. /\ \A i \in DOMAIN a : a[i] \in Int
          /\ \A i \in DOMAIN b : b[i] \in Int
      BY <3>1, FieldLaws
    <3> QED
      BY <3>2, Zenon DEF Pair!Known
  <2>4. \A i \in Pair!Known(b) \cap Pair!Known(a) : a[i] - b[i] \notin {Pair!NaN, -Pair!NaN}
    <3> SUFFICES ASSUME NEW i \in Pair!Known(b) \cap Pair!Known(a) PROVE a[i] - b[i] \notin {-100, 100}
      BY DEF Pair!NaN
    <3>1. a[i] \in Int /\ b[i] \in Int /\ b[i] - a[i] \notin {-100, 100}
      BY <2>2, <2>3
    <3> HIDE DEF a, b
    <3> QED
      BY <3>1
  <2>5. {x, y} = {y, x} /\ (c.mode # "region" => Len(b) = Len(a))
    BY <2>1
  <2>6. Len(s.labels) = 2 => (Pair!Range(s.labels) = {s.a.handle, s.b.handle}
                              \/ Pair!Range(s.labels) \cap {s.a.handle, s.b.handle} = {})
    BY <1>1, <2>1, <2>5, Zenon
  <2>7. /\ s.mode # "region" => Len(s.a.cells) = Len(s.b.cells)
        /\ \A i \in Pair!Known(s.a.cells) \cap Pair!Known(s.b.cells) :
              s.b.cells[i] - s.a.cells[i] \notin {Pair!NaN, -Pair!NaN}
    BY <1>1, <2>4, <2>5, Zenon
  <2>8. /\ Pair!IsSide(s.a) /\ Pair!IsSide(s.b)
        /\ {s.align, s.reopen} \subseteq [transients : Nat, end : STRING] /\ s.labels \in Seq(STRING)
    BY <1>1, <2>1, Zenon
  <2>9. s.a.handle # s.b.handle
    BY <1>1, <2>1
  <2> QED
    BY <2>6, <2>7, <2>8, <2>9, Zenon DEF Pair!IsComparisonCase
<1>3. Halted(s) = Halted(c)
  <2>1. /\ Pair!_variable_mismatch_error(c.a, c.b) <=> Pair!_variable_mismatch_error(c.b, c.a)
        /\ Pair!_units_mismatch_error(c.a, c.b) <=> Pair!_units_mismatch_error(c.b, c.a)
        /\ Pair!_disjoint_periods_error(c.a, c.b) <=> Pair!_disjoint_periods_error(c.b, c.a)
    BY Zenon DEF Pair!_variable_mismatch_error, Pair!_units_mismatch_error, Pair!_disjoint_periods_error
  <2> QED
    BY <1>1, <2>1, Zenon DEF Halted
<1> QED
  BY <1>1, <1>2, <1>3 DEF s

\* Two differences that are each other's negative have one scale.
LEMMA ScalesOfNegatives ==
    ASSUME NEW f \in Seq(Int), NEW g \in Seq(Int), Pair!Known(f) = Pair!Known(g),
           \A i \in Pair!Known(f) : g[i] = -f[i]
    PROVE  /\ Pair!_diverging_bounds(f) = Pair!_diverging_bounds(g)
           /\ \A i \in Pair!Known(f) : Pair!Abs(f[i]) = Pair!Abs(g[i])
<1>1. \A i \in Pair!Known(f) : f[i] \in Int
  BY FieldLaws DEF Pair!Known
<1>2. \A i \in Pair!Known(f) : Pair!Abs(f[i]) = Pair!Abs(g[i])
  BY <1>1 DEF Pair!Abs
<1>3. Pair!Magnitudes(f) = Pair!Magnitudes(g)
  BY <1>2 DEF Pair!Magnitudes
<1> QED
  BY <1>2, <1>3 DEF Pair!_diverging_bounds

LEMMA DifferencesAreNegatives ==
    ASSUME NEW a \in Seq(Int), NEW b \in Seq(Int), Len(a) = Len(b),
           \A i \in Pair!Known(a) \cap Pair!Known(b) : b[i] - a[i] \notin {-100, 100}
    PROVE  LET f == Pair!_difference(a, b)
               g == Pair!_difference(b, a)
           IN  /\ Pair!Known(g) = Pair!Known(f) /\ DOMAIN g = DOMAIN f
               /\ \A i \in DOMAIN f : IF f[i] = -100 THEN g[i] = -100 ELSE g[i] = -f[i]
               /\ Pair!_diverging_bounds(f) = Pair!_diverging_bounds(g)
               /\ \A i \in Pair!Known(f) : Pair!Abs(f[i]) = Pair!Abs(g[i])
<1> DEFINE f == Pair!_difference(a, b)
           g == Pair!_difference(b, a)
           K == Pair!Known(f)
<1>1. \A i \in DOMAIN a : a[i] \in Int
  BY FieldLaws
<1>2. \A i \in DOMAIN b : b[i] \in Int
  BY FieldLaws
<1>3. \A i \in Pair!Known(a) : i \in DOMAIN a
  BY DEF Pair!Known
<1>4. \A i \in Pair!Known(b) : i \in DOMAIN b
  BY DEF Pair!Known
<1>5. \A i \in Pair!Known(b) \cap Pair!Known(a) : a[i] - b[i] \notin {-100, 100}
  <2> SUFFICES ASSUME NEW i \in Pair!Known(b) \cap Pair!Known(a) PROVE a[i] - b[i] \notin {-100, 100}
    OBVIOUS
  <2>1. a[i] \in Int /\ b[i] \in Int /\ b[i] - a[i] \notin {-100, 100}
    BY <1>1, <1>2, <1>3, <1>4
  <2> QED
    BY <2>1
<1>6. /\ f \in Seq(Int) /\ DOMAIN f = DOMAIN a /\ DOMAIN a = DOMAIN b
      /\ K = Pair!Known(a) \cap Pair!Known(b)
      /\ \A i \in DOMAIN f : f[i] = IF i \in K THEN b[i] - a[i] ELSE -100
  BY Differences
<1>7. /\ g \in Seq(Int) /\ DOMAIN g = DOMAIN b
      /\ Pair!Known(g) = Pair!Known(b) \cap Pair!Known(a)
      /\ \A i \in DOMAIN g : g[i] = IF i \in Pair!Known(g) THEN a[i] - b[i] ELSE -100
  BY <1>5, Differences
<1>8. K \in SUBSET DOMAIN f /\ \A i \in DOMAIN f : f[i] = -100 <=> i \notin K
  BY DEF Pair!Known, Pair!NaN
<1> HIDE DEF f, g, K
<1>9. Pair!Known(g) = K
  BY <1>6, <1>7
<1>10. \A i \in K : g[i] = -f[i]
  <2> SUFFICES ASSUME NEW i \in K PROVE g[i] = -f[i]
    OBVIOUS
  <2>1. f[i] = b[i] - a[i] /\ g[i] = a[i] - b[i] /\ a[i] \in Int /\ b[i] \in Int
    BY <1>1, <1>2, <1>6, <1>7, <1>8, <1>9
  <2> QED
    BY <2>1
<1>11. \A i \in DOMAIN f : IF f[i] = -100 THEN g[i] = -100 ELSE g[i] = -f[i]
  BY <1>6, <1>7, <1>8, <1>9, <1>10
<1>12. /\ Pair!_diverging_bounds(f) = Pair!_diverging_bounds(g)
       /\ \A i \in K : Pair!Abs(f[i]) = Pair!Abs(g[i])
  <2>1. /\ f \in Seq(Int) /\ g \in Seq(Int) /\ Pair!Known(f) = Pair!Known(g)
        /\ \A i \in Pair!Known(f) : g[i] = -f[i]
    BY <1>6, <1>7, <1>9, <1>10 DEF K
  <2>2. /\ Pair!_diverging_bounds(f) = Pair!_diverging_bounds(g)
        /\ \A i \in Pair!Known(f) : Pair!Abs(f[i]) = Pair!Abs(g[i])
    BY <2>1, ScalesOfNegatives
  <2> QED
    BY <2>2 DEF K
<1> QED
  BY <1>6, <1>7, <1>9, <1>11, <1>12 DEF f, g, K

\* The order of the two sides is only a sign, for any comparison.
THEOREM SwappingIsAlwaysASign ==
    ASSUME NEW c, Pair!IsComparisonCase(c)
    PROVE  Pair!SwappingIsASign(Pair!compare(c), Pair!compare(Pair!Swapped(c)))
<1> DEFINE s == Pair!Swapped(c)
           one == Pair!compare(c)
           other == Pair!compare(s)
           a == Pair!_prepare_2d(c.a)
           b == Pair!_prepare_2d(c.b)
<1>1. /\ Pair!IsComparisonCase(s) /\ Halted(s) = Halted(c)
      /\ s.a = c.b /\ s.b = c.a /\ s.mode = c.mode /\ s.threshold = c.threshold
  BY SwappedCases
<1>2. a \in Seq(Int) /\ b \in Seq(Int)
  BY SidesArePrepared
<1>3. CASE Halted(c)
  <2>1. one.chart = "none"
    BY <1>3, ComparisonsEnd
  <2>2. other.chart = "none"
    <3> HIDE DEF s
    <3> QED
      BY <1>1, <1>3, ComparisonsEnd
  <2> HIDE DEF one, other
  <2> QED
    BY <2>1, <2>2 DEF Pair!SwappingIsASign, one, other
<1>4. CASE ~Halted(c) /\ c.mode = "region"
  <2>1. one = Pair!_build_region_comparison(c.a, c.b)
    BY <1>4, ComparisonsEnd
  <2>2. other = Pair!_build_region_comparison(c.b, c.a)
    <3> HIDE DEF s
    <3> QED
      BY <1>1, <1>4, ComparisonsEnd
  <2> HIDE DEF one, other
  <2>3. Pair!_shared_bounds(a, b) = Pair!_shared_bounds(b, a)
    BY <1>2, SidesCommute DEF Pair!_shared_bounds
  <2> DEFINE scale == Pair!_shared_bounds(a, b)
  <2>4. /\ one.chart = "panels" /\ one.scale = scale /\ one.stats[1] = Pair!_region_stats(a)
        /\ one.drawn[1] = Pair!_colorize(a, scale)
    BY <2>1 DEF Pair!_build_region_comparison
  <2>5. /\ other.chart = "panels" /\ other.scale = Pair!_shared_bounds(b, a) /\ other.stats[2] = Pair!_region_stats(a)
        /\ other.drawn[2] = Pair!_colorize(a, Pair!_shared_bounds(b, a))
    BY <2>2 DEF Pair!_build_region_comparison
  <2> HIDE DEF scale
  <2>6. /\ one.chart = other.chart /\ one.scale = other.scale /\ one.chart = "panels"
        /\ one.stats[1] = other.stats[2] /\ one.drawn[1] = other.drawn[2]
    BY <2>3, <2>4, <2>5, Zenon DEF scale
  <2> QED
    BY <2>6 DEF Pair!SwappingIsASign, one, other
<1>5. CASE ~Halted(c) /\ c.mode # "region"
  <2> DEFINE f == Pair!_difference(a, b)
             g == Pair!_difference(b, a)
             K == Pair!Known(f)
             t == c.threshold
  <2>1. one = Pair!_build_period_comparison(c.a, c.b, t)
    BY <1>5, ComparisonsEnd
  <2>2. other = Pair!_build_period_comparison(c.b, c.a, t)
    <3> HIDE DEF s
    <3> QED
      BY <1>1, <1>5, ComparisonsEnd
  <2>3. /\ one.chart = "difference" /\ one.scale = Pair!_diverging_bounds(f) /\ one.diff = f
        /\ one.stats = Pair!_anomaly_stats(a, b, t)
        /\ other.chart = "difference" /\ other.scale = Pair!_diverging_bounds(g) /\ other.diff = g
        /\ other.stats = Pair!_anomaly_stats(b, a, t)
    <3> HIDE DEF one, other
    <3> QED
      BY <2>1, <2>2 DEF Pair!_build_period_comparison
  <2>4. /\ Len(a) = Len(b)
        /\ \A i \in Pair!Known(a) \cap Pair!Known(b) : b[i] - a[i] \notin {-100, 100}
    <3> HIDE DEF one
    <3> QED
      BY <2>3, PeriodsAreCompared DEF one
  <2> HIDE DEF one, other, a, b
  <2>5. /\ Pair!Known(g) = K /\ DOMAIN g = DOMAIN f
        /\ \A i \in DOMAIN f : IF f[i] = -100 THEN g[i] = -100 ELSE g[i] = -f[i]
        /\ Pair!_diverging_bounds(f) = Pair!_diverging_bounds(g)
        /\ \A i \in K : Pair!Abs(f[i]) = Pair!Abs(g[i])
    BY <1>2, <2>4, DifferencesAreNegatives
  <2> HIDE DEF f, g, K, t
  <2>14. /\ Pair!_anomaly_stats(a, b, t).exceeding = Cardinality({i \in K : Pair!Abs(f[i]) >= t})
         /\ Pair!_anomaly_stats(b, a, t).exceeding = Cardinality({i \in Pair!Known(g) : Pair!Abs(g[i]) >= t})
    BY PictureSame DEF Pair!_anomaly_stats, f, g, K
  <2>15. {i \in K : Pair!Abs(f[i]) >= t} = {i \in Pair!Known(g) : Pair!Abs(g[i]) >= t}
    BY <2>5
  <2>16. other.stats.exceeding = one.stats.exceeding
    BY <2>3, <2>14, <2>15
  <2>17. one.chart = other.chart /\ one.scale = other.scale /\ one.chart # "panels"
    BY <2>3, <2>5
  <2>18. \A i \in DOMAIN one.diff : IF one.diff[i] = -100 THEN other.diff[i] = -100 ELSE other.diff[i] = -one.diff[i]
    BY <2>3, <2>5
  <2> QED
    BY <2>16, <2>17, <2>18 DEF Pair!SwappingIsASign, Pair!NaN, one, other
<1> QED
  BY <1>3, <1>4, <1>5

-----------------------------------------------------------------------------
(* Charts. *)

LEMMA ChartSame ==
    ASSUME NEW S
    PROVE  /\ Chart!Cardinality(S) = Cardinality(S)
           /\ Chart!IsFiniteSet(S) <=> IsFiniteSet(S)
           /\ Chart!Min(S) = Min(S) /\ Chart!Max(S) = Max(S)
  BY DEF Cardinality, Chart!Cardinality, IsFiniteSet, Chart!IsFiniteSet,
         Min, Max, Chart!Min, Chart!Max

\* A line of cells, and the cells of it that a region holds.
Line == Seq([lon : Int, col : Int])
Held(g, region) == {i \in 1 .. Len(g) : Chart!Inside(g[i].lon, region)}

LEMMA LinesAreFunctions ==
    ASSUME NEW n \in Nat, NEW g \in [1 .. n -> [lon : Int, col : Int]]
    PROVE  g \in Line /\ Len(g) = n /\ DOMAIN g = 1 .. n
<1> DEFINE R == [lon : Int, col : Int]
<1> HIDE DEF R
<1>1. \A h \in [1 .. n -> R] : h \in Seq(R) /\ Len(h) = n /\ DOMAIN h = 1 .. n
  OBVIOUS
<1> QED
  BY <1>1 DEF Line, R

\* Every cell of a scene has its own place on the globe, and is given there where
\* longitudes are not changed.
LEMMA ScenePlaces ==
    ASSUME NEW s, Chart!IsScene(s)
    PROVE  LET n == Len(s.lons) IN
           /\ n \in Nat \ {0} /\ DOMAIN s.lons = 1 .. n
           /\ \A i \in 1 .. n : s.lons[i] \in Int /\ Chart!Place(s, i) \in Int /\ Chart!Place(s, i) % 2 = 0
           /\ \A i, j \in 1 .. n : Chart!Place(s, i) = Chart!Place(s, j) => i = j
           /\ (\E i \in 1 .. n : s.lons[i] < 0) \/ (\A i \in 1 .. n : s.lons[i] <= 24)
                => \A i \in 1 .. n : Chart!Place(s, i) = s.lons[i]
<1> DEFINE n == Len(s.lons)
           lon(i) == s.lons[i]
           place(i) == Chart!Place(s, i)
<1>1. s.lons \in Seq(Int) /\ s.lons # <<>>
  BY DEF Chart!IsScene
<1>2. n \in Nat \ {0} /\ DOMAIN s.lons = 1 .. n
  BY <1>1
<1>3. \A i \in 1 .. n : lon(i) \in Int
  BY <1>1
<1>4. \A i \in 1 .. n : place(i) = ((lon(i) + 24) % 48) - 24
  BY DEF Chart!Place, Chart!Wrapped, Chart!Half
<1>5. /\ \A i, j \in 1 .. n : lon(i) = lon(j) => i = j
      /\ \A i \in 1 .. n : lon(i) % 2 = 0
      /\ \/ \A i \in 1 .. n : -24 <= lon(i) /\ lon(i) < 24
         \/ /\ \A i \in 1 .. n : 0 <= lon(i) /\ lon(i) < 48
            /\ (\E i \in 1 .. n : lon(i) = 24) => \E i \in 1 .. n : lon(i) > 24
  <2> DEFINE D == DOMAIN s.lons
  <2>1. /\ \A i, j \in D : lon(i) = lon(j) => i = j
        /\ \A i \in D : lon(i) % 2 = 0
    BY DEF Chart!IsScene
  <2>2. \/ \A i \in D : -24 <= lon(i) /\ lon(i) < 24
        \/ /\ \A i \in D : 0 <= lon(i) /\ lon(i) < 48
           /\ (\E i \in D : lon(i) = 24) => \E i \in D : lon(i) > 24
    BY DEF Chart!IsScene, Chart!Half
  <2>3. D = 1 .. n
    BY <1>2
  <2> HIDE DEF D, lon
  <2> QED
    BY <2>1, <2>2, <2>3
<1> HIDE DEF lon, place, n
<1>6. \A i \in 1 .. n : place(i) \in Int /\ place(i) % 2 = 0
  BY <1>3, <1>4, <1>5
<1>7. \A i, j \in 1 .. n : place(i) = place(j) => i = j
  <2> SUFFICES ASSUME NEW i \in 1 .. n, NEW j \in 1 .. n, place(i) = place(j) PROVE lon(i) = lon(j)
    BY <1>5
  <2>1. lon(i) \in Int /\ lon(j) \in Int /\ (lon(i) + 24) % 48 = (lon(j) + 24) % 48
    BY <1>3, <1>4
  <2>2. \/ -24 <= lon(i) /\ lon(i) < 24 /\ -24 <= lon(j) /\ lon(j) < 24
        \/ 0 <= lon(i) /\ lon(i) < 48 /\ 0 <= lon(j) /\ lon(j) < 48
    BY <1>5
  <2> QED
    BY <2>1, <2>2
<1>8. ASSUME (\E i \in 1 .. n : lon(i) < 0) \/ (\A i \in 1 .. n : lon(i) <= 24), NEW i \in 1 .. n
      PROVE  place(i) = lon(i)
  <2>1. -24 <= lon(i) /\ lon(i) < 24
    BY <1>3, <1>5, <1>8
  <2> QED
    BY <1>3, <1>4, <2>1
<1> QED
  BY <1>2, <1>3, <1>6, <1>7, <1>8 DEF lon, place, n

\* Cells put in order of their longitudes are all there, each once.
LEMMA OrderedCells ==
    ASSUME NEW cells \in SUBSET [lon : Int, col : Int], IsFiniteSet(cells),
           \A x, y \in cells : x.lon = y.lon => x = y
    PROVE  LET g == Chart!ByLon(cells) IN
           /\ Cardinality(cells) \in Nat /\ g \in [1 .. Cardinality(cells) -> cells]
           /\ \A x \in cells : \E k \in 1 .. Cardinality(cells) : g[k] = x
           /\ \A j, k \in 1 .. Cardinality(cells) : g[j] = g[k] => j = k
<1> DEFINE before == {p \in cells \X cells : p[1].lon < p[2].lon}
           N == Cardinality(cells)
           line == Opening!InOrder(cells, before)
           g == Chart!ByLon(cells)
<1>1. \A x, y \in cells : /\ x.lon \in Int /\ y.lon \in Int
                          /\ <<x, y>> \in before <=> x.lon < y.lon
  OBVIOUS
<1>2. /\ \A x \in cells : <<x, x>> \notin before
      /\ \A x, y, z \in cells : <<x, y>> \in before /\ <<y, z>> \in before => <<x, z>> \in before
      /\ \A x, y \in cells : x # y => <<x, y>> \in before \/ <<y, x>> \in before
  BY <1>1
<1>3. \A x \in cells : {h \in cells : <<h, x>> \in before} = {other \in cells : other.lon < x.lon}
  BY <1>1
<1>4. g = [k \in 1 .. N |-> g[k]] /\ \A k \in 1 .. N : line[k] = g[k]
  <2> DEFINE low(x) == {other \in cells : other.lon < x.lon}
             lower(x) == {h \in cells : <<h, x>> \in before}
  <2>1. \A k \in 1 .. N : (CHOOSE x \in cells : Cardinality(lower(x)) = k - 1)
                        = (CHOOSE x \in cells : Cardinality(low(x)) = k - 1)
    BY <1>3
  <2>2. \A k \in 1 .. N : line[k] = CHOOSE x \in cells : Cardinality(lower(x)) = k - 1
    <3>1. \A x : Opening!Cardinality(lower(x)) = Cardinality(lower(x)) /\ Opening!Cardinality(cells) = N
      BY OpeningSame
    <3> QED
      BY <3>1 DEF Opening!InOrder
  <2>3. \A k \in 1 .. N : g[k] = CHOOSE x \in cells : Cardinality(low(x)) = k - 1
    <3>1. \A x : Chart!Cardinality(low(x)) = Cardinality(low(x)) /\ Chart!Cardinality(cells) = N
      BY ChartSame
    <3> QED
      BY <3>1 DEF Chart!ByLon
  <2>4. g = [k \in 1 .. N |-> g[k]]
    <3> DEFINE e(k) == CHOOSE cell \in cells : Chart!Cardinality({other \in cells : other.lon < cell.lon}) = k - 1
    <3>1. g = [k \in 1 .. Chart!Cardinality(cells) |-> e(k)]
      BY Zenon DEF Chart!ByLon
    <3>2. Chart!Cardinality(cells) = N
      BY ChartSame
    <3> HIDE DEF e, g, N
    <3> QED
      BY <3>1, <3>2
  <2> HIDE DEF line, g
  <2>5. \A k \in 1 .. N : line[k] = g[k]
    BY <2>1, <2>2, <2>3
  <2> QED
    BY <2>4, <2>5
<1> HIDE DEF before
<1>5. /\ N \in Nat /\ DOMAIN line = 1 .. N
      /\ \A i \in 1 .. N : line[i] \in cells
      /\ \A x \in cells : \E i \in 1 .. N : line[i] = x
      /\ \A i, j \in 1 .. N : i < j => <<line[i], line[j]>> \in before
  BY <1>2, OrderLaws
<1>7. \A j, k \in 1 .. N : line[j] = line[k] => j = k
  <2> SUFFICES ASSUME NEW j \in 1 .. N, NEW k \in 1 .. N, line[j] = line[k], j < k PROVE FALSE
    BY <1>5
  <2> QED
    BY <1>2, <1>5
<1> HIDE DEF line, g
<1>8. g \in [1 .. N -> cells]
  BY <1>4, <1>5
<1> QED
  BY <1>4, <1>5, <1>7, <1>8 DEF g

\* Whichever way a file counts its longitudes, the line it is put on has each of
\* its cells once, at its own place.
LEMMA NormalLines ==
    ASSUME NEW s, Chart!IsScene(s)
    PROVE  LET g == Chart!_normalize_longitudes(Chart!Grid(s))
               n == Len(s.lons)
           IN  /\ g \in Line /\ Len(g) = n
               /\ \A k \in 1 .. n : g[k].col \in 1 .. n /\ g[k].lon = Chart!Place(s, g[k].col)
               /\ \A i \in 1 .. n : \E k \in 1 .. n : g[k].col = i
               /\ \A j, k \in 1 .. n : g[j].col = g[k].col => j = k
<1> DEFINE n == Len(s.lons)
           h == Chart!Grid(s)
           g == Chart!_normalize_longitudes(h)
           place(i) == Chart!Place(s, i)
<1>1. /\ n \in Nat \ {0} /\ DOMAIN s.lons = 1 .. n
      /\ \A i \in 1 .. n : s.lons[i] \in Int /\ place(i) \in Int
      /\ \A i, j \in 1 .. n : place(i) = place(j) => i = j
      /\ (\E i \in 1 .. n : s.lons[i] < 0) \/ (\A i \in 1 .. n : s.lons[i] <= 24)
           => \A i \in 1 .. n : place(i) = s.lons[i]
  BY ScenePlaces
<1>2. h = [i \in 1 .. n |-> [lon |-> s.lons[i], col |-> i]]
  BY <1>1 DEF Chart!Grid
<1> DEFINE L == Chart!Lons(h)
<1>3. L = {s.lons[i] : i \in 1 .. n}
  BY <1>2 DEF Chart!Lons
<1>4. L \in SUBSET Int /\ L # {} /\ IsFiniteSet(L)
  <2>1. IsFiniteSet(1 .. n)
    BY <1>1, FS_Interval, 1 \in Int
  <2>2. IsFiniteSet({s.lons[i] : i \in 1 .. n})
    BY <2>1, FiniteImage
  <2>3. 1 \in 1 .. n
    BY <1>1
  <2>4. s.lons[1] \in L
    BY <1>3, <2>3
  <2>5. L \in SUBSET Int
    BY <1>1, <1>3
  <2> HIDE DEF L
  <2> QED
    BY <1>3, <2>2, <2>4, <2>5
<1> HIDE DEF L
<1>5. /\ Min(L) \in L /\ \A x \in L : Min(L) <= x
      /\ Max(L) \in L /\ \A x \in L : x <= Max(L)
  BY <1>4, Extremes
<1>6. CASE Chart!Min(L) < 0 \/ Chart!Max(L) <= Chart!Half
  <2>1. g = h
    BY <1>6 DEF Chart!_normalize_longitudes, L
  <2>2. (\E i \in 1 .. n : s.lons[i] < 0) \/ (\A i \in 1 .. n : s.lons[i] <= 24)
    <3>1. Min(L) < 0 \/ Max(L) <= 24
      BY <1>6, ChartSame DEF Chart!Half
    <3>2. \A i \in 1 .. n : s.lons[i] \in L
      BY <1>3
    <3>3. CASE Min(L) < 0
      BY <1>3, <1>5, <3>3
    <3>4. CASE Max(L) <= 24
      <4> DEFINE top == Max(L)
      <4>1. top \in Int /\ top <= 24 /\ \A x \in L : x \in Int /\ x <= top
        BY <1>4, <1>5, <3>4
      <4> HIDE DEF top
      <4>2. \A x \in L : x <= 24
        BY <4>1
      <4> QED
        BY <3>2, <4>2
    <3> QED
      BY <3>1, <3>3, <3>4
  <2>3. \A i \in 1 .. n : place(i) = s.lons[i]
    BY <1>1, <2>2
  <2>4. h \in Line /\ Len(h) = n
    <3>1. h \in [1 .. n -> [lon : Int, col : Int]]
      BY <1>1, <1>2
    <3> HIDE DEF h
    <3> QED
      BY <1>1, <3>1, LinesAreFunctions
  <2>5. \A i \in 1 .. n : h[i].col = i /\ h[i].lon = place(i)
    BY <1>2, <2>3
  <2> HIDE DEF place, h, g
  <2>6. /\ \A k \in 1 .. n : g[k].col \in 1 .. n /\ g[k].lon = place(g[k].col)
        /\ \A i \in 1 .. n : \E k \in 1 .. n : g[k].col = i
        /\ \A j, k \in 1 .. n : g[j].col = g[k].col => j = k
    BY <2>1, <2>5
  <2> QED
    BY <2>1, <2>4, <2>6 DEF place, h, g
<1>7. CASE ~(Chart!Min(L) < 0 \/ Chart!Max(L) <= Chart!Half)
  <2> DEFINE cell == [i \in 1 .. n |-> [lon |-> place(i), col |-> i]]
             cells == {cell[i] : i \in 1 .. n}
             moved(i) == [lon |-> Chart!Wrapped(h[i].lon), col |-> h[i].col]
  <2>1. DOMAIN h = 1 .. n /\ \A i \in 1 .. n : moved(i) = cell[i]
    BY <1>2 DEF Chart!Place
  <2>2. g = Chart!ByLon(cells)
    <3>1. {moved(i) : i \in DOMAIN h} = cells
      <4> HIDE DEF moved, cell, h, n
      <4> QED
        BY <2>1
    <3> HIDE DEF cells, h
    <3> QED
      BY <1>7, <3>1 DEF Chart!_normalize_longitudes, L
  <2> HIDE DEF moved
  <2>3. \A i \in 1 .. n : /\ cell[i] \in [lon : Int, col : Int] /\ cell[i] \in cells
                          /\ cell[i].col = i /\ cell[i].lon = place(i)
    <3> HIDE DEF place
    <3> QED
      BY <1>1
  <2>4. \A x \in cells : /\ x \in [lon : Int, col : Int]
                        /\ x.col \in 1 .. n /\ x = cell[x.col] /\ x.lon = place(x.col)
    <3> TAKE x \in cells
    <3>1. PICK i \in 1 .. n : x = cell[i]
      OBVIOUS
    <3> HIDE DEF cell, place
    <3> QED
      BY <2>3, <3>1
  <2>5. cell \in Bijection(1 .. n, cells)
    <3>1. cell \in [1 .. n -> cells] /\ \A x \in cells : \E i \in 1 .. n : cell[i] = x
      OBVIOUS
    <3> HIDE DEF cell, cells
    <3>2. \A i, j \in 1 .. n : cell[i] = cell[j] => i = j
      BY <2>3
    <3> QED
      BY <3>1, <3>2 DEF Bijection, Injection, Surjection, IsInjective
  <2> HIDE DEF cells, cell, place, g, h
  <2>6. IsFiniteSet(1 .. n) /\ Cardinality(1 .. n) = n
    <3>1. n \in Nat /\ n \in Int
      BY <1>1
    <3> HIDE DEF n
    <3> QED
      BY <3>1, FS_Interval, 1 \in Int
  <2>7. IsFiniteSet(cells) /\ Cardinality(cells) = n
    BY <2>5, <2>6, FS_Bijection DEF ExistsBijection
  <2>8. \A x, y \in cells : x.lon = y.lon => x = y
    BY <1>1, <2>4 DEF place
  <2>10. /\ g \in [1 .. n -> cells]
         /\ \A x \in cells : \E k \in 1 .. n : g[k] = x
         /\ \A j, k \in 1 .. n : g[j] = g[k] => j = k
    <3>1. cells \in SUBSET [lon : Int, col : Int]
      BY <2>4
    <3> QED
      BY <2>2, <2>7, <2>8, <3>1, OrderedCells
  <2>11. g \in Line /\ Len(g) = n
    <3>1. g \in [1 .. n -> [lon : Int, col : Int]]
      BY <2>4, <2>10
    <3> QED
      BY <1>1, <3>1, LinesAreFunctions
  <2>12. \A i \in 1 .. n : \E k \in 1 .. n : g[k].col = i
    BY <2>3, <2>10
  <2>13. \A k \in 1 .. n : g[k].col \in 1 .. n /\ g[k].lon = place(g[k].col)
    BY <2>4, <2>10
  <2>14. \A j, k \in 1 .. n : g[j].col = g[k].col => j = k
    <3> SUFFICES ASSUME NEW j \in 1 .. n, NEW k \in 1 .. n, g[j].col = g[k].col PROVE j = k
      OBVIOUS
    <3>1. g[j] \in cells /\ g[k] \in cells
      BY <2>10
    <3>2. g[j] = cell[g[j].col] /\ g[k] = cell[g[k].col]
      BY <2>4, <3>1
    <3>3. g[j] = g[k]
      BY <3>2
    <3> QED
      BY <2>10, <3>3
  <2> QED
    BY <2>11, <2>12, <2>13, <2>14 DEF place, g, h
<1> QED
  BY <1>6, <1>7

\* A sum is the same by whatever names its terms go.
Renames(m, S, T) ==
    /\ m \in [S -> T]
    /\ \A x, y \in S : m[x] = m[y] => x = y
    /\ \A z \in T : \E x \in S : m[x] = z

LEMMA TotalsMove ==
    ASSUME NEW S, IsFiniteSet(S), NEW T, NEW m, Renames(m, S, T),
           NEW D, NEW f \in [D -> Int], S \in SUBSET D, NEW E, NEW h \in [E -> Int], T \in SUBSET E,
           \A x \in S : f[x] = h[m[x]]
    PROVE  IsFiniteSet(T) /\ Cardinality(T) = Cardinality(S) /\ TotalOf(f, S) = TotalOf(h, T)
<1> DEFINE image(s) == {m[x] : x \in s}
           bad == {s \in SUBSET S : TotalOf(f, s) # TotalOf(h, image(s))}
<1>1. \A s \in SUBSET S : IsFiniteSet(s) /\ IsFiniteSet(image(s)) /\ image(s) \in SUBSET T
  <2>1. \A s \in SUBSET S : IsFiniteSet(s)
    BY FS_Subset
  <2>2. \A s \in SUBSET S : image(s) \in SUBSET T
    BY DEF Renames
  <2> QED
    BY <2>1, <2>2, FiniteImage
<1>2. {} \notin bad
  <2>1. image({}) = {}
    OBVIOUS
  <2> HIDE DEF image
  <2>2. TotalOf(f, {}) = 0 /\ TotalOf(h, {}) = 0
    BY TotalOfNothing
  <2> QED
    BY <2>1, <2>2
<1>3. ASSUME NEW s \in bad, s # {} PROVE \E x \in s : s \ {x} \in bad
  <2>1. PICK x \in s : TRUE
    BY <1>3
  <2> DEFINE r == s \ {x}
  <2>2. s \in SUBSET S /\ r \in SUBSET S /\ x \in S
    OBVIOUS
  <2>3. image(s) \ {m[x]} = image(r) /\ m[x] \in image(s)
    BY <2>2 DEF Renames
  <2>4. TotalOf(f, s) # TotalOf(h, image(s))
    OBVIOUS
  <2> HIDE DEF r, bad, image
  <2>5. TotalOf(f, s) = f[x] + TotalOf(f, r)
    BY <1>1, <2>1, <2>2, TotalStep DEF r
  <2>6. TotalOf(h, image(s)) = h[m[x]] + TotalOf(h, image(r))
    <3>1. IsFiniteSet(image(s)) /\ image(s) \in SUBSET T
      BY <1>1, <2>2
    <3> QED
      BY <2>3, <3>1, TotalStep
  <2>7. f[x] = h[m[x]]
    BY <2>2
  <2>8. TotalOf(f, r) # TotalOf(h, image(r))
    BY <2>4, <2>5, <2>6, <2>7
  <2> QED
    BY <2>1, <2>2, <2>8 DEF bad, r
<1>4. bad = {}
  <2>1. bad \in SUBSET SUBSET S
    OBVIOUS
  <2> HIDE DEF bad
  <2> QED
    BY <1>2, <1>3, <2>1, Shrinking
<1>5. image(S) = T
  BY DEF Renames
<1>6. TotalOf(f, S) = TotalOf(h, image(S))
  BY <1>4
<1>7. m \in Bijection(S, T)
  BY DEF Renames, Bijection, Injection, Surjection, IsInjective
<1>8. IsFiniteSet(T) /\ Cardinality(T) = Cardinality(S)
  BY <1>7, FS_Bijection DEF ExistsBijection
<1> HIDE DEF image
<1> QED
  BY <1>5, <1>6, <1>8

\* An axis in equal steps: where its cells are, and the step a tool reads off it.
Spaced(g, n, d) == \A i \in 1 .. n : g[i].lon = g[1].lon + (i - 1) * d

LEMMA EvenLines ==
    ASSUME NEW g, NEW n \in Nat, Len(g) = n, n > 1, \A i \in 1 .. n : g[i].lon \in Int,
           Chart!_is_uniform_1d(g)
    PROVE  g[2].lon - g[1].lon \in Int /\ Spaced(g, n, g[2].lon - g[1].lon)
<1> DEFINE lon(i) == g[i].lon
           d == lon(2) - lon(1)
           bad == {i \in 1 .. n : lon(i) # lon(1) + (i - 1) * d}
<1>1. \A i \in 1 .. n : lon(i) \in Int
  OBVIOUS
<1>2. \A i \in 1 .. (n - 2) : lon(i + 2) - lon(i + 1) = lon(i + 1) - lon(i)
  BY DEF Chart!_is_uniform_1d
<1>3. d \in Int /\ lon(1) \in Int /\ lon(2) \in Int
  BY <1>1
<1>4. \A i \in Int : (i - 1) * d = (i - 2) * d + d /\ (i - 2) * d = (i - 3) * d + d
  <2> HIDE DEF d
  <2> QED
    BY <1>3
<1>5. bad = {}
  <2> SUFFICES ASSUME bad # {} PROVE FALSE
    OBVIOUS
  <2>1. PICK b \in bad : \A j \in bad : b <= j
    <3>1. bad \in SUBSET Nat /\ bad # {}
      OBVIOUS
    <3> HIDE DEF bad
    <3> QED
      BY <3>1, LeastNatural
  <2>2. b \in 1 .. n /\ lon(b) # lon(1) + (b - 1) * d
    OBVIOUS
  <2>3. b # 1 /\ b # 2
    <3>1. (1 - 1) * d = 0 /\ (2 - 1) * d = d
      <4>1. d \in Int
        BY <1>3
      <4> HIDE DEF d
      <4> QED
        BY <4>1
    <3>2. lon(1) = lon(1) + 0 /\ lon(2) = lon(1) + d
      <4> HIDE DEF lon
      <4> QED
        BY <1>3
    <3> HIDE DEF lon, d
    <3> QED
      BY <2>2, <3>1, <3>2
  <2>4. b - 1 \in 1 .. n /\ b - 2 \in 1 .. (n - 2) /\ b - 2 \in 1 .. n
    BY <2>2, <2>3
  <2>5. b - 1 \notin bad /\ b - 2 \notin bad
    <3> HIDE DEF bad
    <3> QED
      BY <2>1, <2>2, <2>4
  <2>6. lon(b - 1) = lon(1) + (b - 2) * d /\ lon(b - 2) = lon(1) + (b - 3) * d
    <3>1. \A i \in 1 .. n : i \notin bad => lon(i) = lon(1) + (i - 1) * d
      OBVIOUS
    <3>2. lon(b - 1) = lon(1) + ((b - 1) - 1) * d /\ lon(b - 2) = lon(1) + ((b - 2) - 1) * d
      <4> HIDE DEF bad, lon, d
      <4> QED
        BY <2>4, <2>5, <3>1
    <3>3. (b - 1) - 1 = b - 2 /\ (b - 2) - 1 = b - 3
      BY <2>2
    <3> HIDE DEF lon, d
    <3> QED
      BY <3>2, <3>3
  <2>7. lon(b) - lon(b - 1) = lon(b - 1) - lon(b - 2)
    <3>1. (b - 2) + 2 = b /\ (b - 2) + 1 = b - 1
      BY <2>2
    <3> HIDE DEF lon
    <3> QED
      BY <1>2, <2>4, <3>1
  <2>8. /\ (b - 1) * d = (b - 2) * d + d /\ (b - 2) * d = (b - 3) * d + d
        /\ (b - 3) * d \in Int /\ lon(b) \in Int /\ lon(1) \in Int
    <3> HIDE DEF d, lon
    <3> QED
      BY <1>1, <1>3, <1>4, <2>2
  <2> DEFINE p == (b - 1) * d
             q == (b - 2) * d
             r == (b - 3) * d
  <2>9. /\ lon(b) # lon(1) + p /\ lon(b - 1) = lon(1) + q /\ lon(b - 2) = lon(1) + r
        /\ p = q + d /\ q = r + d /\ r \in Int /\ lon(b) \in Int
    BY <2>2, <2>6, <2>8
  <2> DEFINE x == lon(b)
             y == lon(b - 1)
             w == lon(b - 2)
             first == lon(1)
  <2>10. /\ x - y = y - w /\ x # first + p /\ y = first + q /\ w = first + r
         /\ p = q + d /\ q = r + d
         /\ first \in Int /\ d \in Int /\ r \in Int /\ x \in Int
    BY <1>3, <2>7, <2>9
  <2> HIDE DEF lon, d, p, q, r, x, y, w, first
  <2> QED
    BY <2>10
<1>6. Spaced(g, n, d)
  BY <1>5 DEF Spaced
<1> QED
  BY <1>3, <1>6

LEMMA StepsAreRead ==
    ASSUME NEW g, NEW n \in Nat, Len(g) = n, n > 1, g[1].lon \in Int, NEW d \in Int,
           g[n].lon = g[1].lon + (n - 1) * d
    PROVE  Chart!Step(g) = d
<1> DEFINE a == g[1].lon
           z == g[n].lon
           b == n - 1
<1>1. Chart!Step(g) = (z - a) \div b
  BY DEF Chart!Step
<1>2. a \in Int /\ b \in Nat \ {0} /\ z = a + b * d /\ b * d \in Int
  OBVIOUS
<1> HIDE DEF a, z, b
<1>3. z - a = b * d
  BY <1>2
<1>4. b * d \in Int /\ b * d <= b * d /\ b * d < b * d + b
  BY <1>2
<1>5. d = (b * d) \div b
  BY <1>2, <1>4, Division
<1> QED
  BY <1>1, <1>3, <1>5

LEMMA LineCells ==
    ASSUME NEW g \in Line
    PROVE  /\ Len(g) \in Nat /\ DOMAIN g = 1 .. Len(g)
           /\ \A k \in 1 .. Len(g) : g[k].lon \in Int /\ g[k].col \in Int
<1> DEFINE R == [lon : Int, col : Int]
<1>1. \A x \in R : x.lon \in Int /\ x.col \in Int
  OBVIOUS
<1>2. g \in Seq(R)
  BY DEF Line
<1> HIDE DEF R
<1>3. Len(g) \in Nat /\ DOMAIN g = 1 .. Len(g) /\ \A k \in 1 .. Len(g) : g[k] \in R
  BY <1>2
<1> QED
  BY <1>1, <1>3

LEMMA CentresAreTheCells ==
    ASSUME NEW g \in Line, Chart!_is_uniform_1d(g), NEW i \in 1 .. Len(g)
    PROVE  Chart!Centre(g, i) = g[i].lon
<1> DEFINE n == Len(g)
<1>1. n \in Nat /\ n >= 1 /\ \A k \in 1 .. n : g[k].lon \in Int
  BY LineCells
<1>2. CASE n > 1
  <2> DEFINE d == g[2].lon - g[1].lon
  <2>1. d \in Int /\ Spaced(g, n, d)
    BY <1>1, <1>2, EvenLines
  <2> HIDE DEF d
  <2>2. /\ g[i].lon = g[1].lon + (i - 1) * d
        /\ g[n].lon = g[1].lon + (n - 1) * d
    BY <1>1, <2>1 DEF Spaced
  <2>3. g[1].lon \in Int
    BY <1>1
  <2>4. Chart!Step(g) = d
    BY <1>1, <1>2, <2>1, <2>2, <2>3, StepsAreRead
  <2> QED
    BY <2>2, <2>4 DEF Chart!Centre
<1>3. CASE n = 1
  <2>1. i = 1 /\ Chart!Step(g) = 2
    BY <1>3 DEF Chart!Step
  <2>2. Chart!Centre(g, i) = g[1].lon + (1 - 1) * 2
    BY <2>1 DEF Chart!Centre
  <2>3. g[1].lon \in Int
    BY <1>1, <1>3
  <2> QED
    BY <2>1, <2>2, <2>3
<1> HIDE DEF n
<1> QED
  BY <1>1, <1>2, <1>3

-----------------------------------------------------------------------------
(* What is kept of a line. *)

ShownCell == [lon : Int, col : Int, kept : BOOLEAN]
\* m cells of the line g, in its order, from the one after its first o: those of H
\* are kept and all there.
IsStrip(cells, g, H, o, m) ==
    /\ o \in Nat /\ m \in Nat /\ o + m <= Len(g)
    /\ cells \in Seq(ShownCell) /\ Len(cells) = m
    /\ \A k \in 1 .. m : /\ cells[k].lon = g[o + k].lon /\ cells[k].col = g[o + k].col
                         /\ cells[k].kept <=> o + k \in H
    /\ \A i \in H : \E k \in 1 .. m : i = o + k

LEMMA PlainMasks ==
    ASSUME NEW g \in Line, Chart!_is_uniform_1d(g), NEW region,
           ~Chart!geometry_mask(g, region).healed
    PROVE  Chart!geometry_mask(g, region).cells = Held(g, region)
<1> DEFINE inside == {i \in DOMAIN g : Chart!Inside(Chart!Centre(g, i), region)}
           touched == {i \in DOMAIN g :
                          Chart!Touches(Chart!Centre(g, i) - Chart!Abs(Chart!Step(g)) \div 2,
                                        Chart!Centre(g, i) + Chart!Abs(Chart!Step(g)) \div 2, region)}
           mask == Chart!geometry_mask(g, region)
<1>1. mask = IF inside # {} THEN [cells |-> inside, healed |-> FALSE]
             ELSE [cells |-> touched, healed |-> touched # {}]
  BY DEF Chart!geometry_mask
<1>2. inside = Held(g, region)
  <2>1. DOMAIN g = 1 .. Len(g) /\ \A i \in 1 .. Len(g) : Chart!Centre(g, i) = g[i].lon
    BY LineCells, CentresAreTheCells
  <2> QED
    BY <2>1 DEF Held
<1> HIDE DEF inside, touched
<1>3. mask.cells = inside
  <2>1. CASE inside # {}
    BY <1>1, <2>1
  <2>2. CASE inside = {}
    <3>1. mask = [cells |-> touched, healed |-> touched # {}]
      BY <1>1, <2>2
    <3>2. mask.healed = (touched # {}) /\ mask.cells = touched
      BY <3>1
    <3> QED
      BY <2>2, <3>2
  <2> QED
    BY <2>1, <2>2
<1> QED
  BY <1>2, <1>3

\* The cells of a line from lo to hi, those of H marked.
IsWindow(cut, g, H, lo, hi) ==
    /\ IsStrip(cut.cells, g, H, lo - 1, hi - lo + 1)
    /\ cut.region_cells = Cardinality(H)

LEMMA LineWindows ==
    ASSUME NEW g \in Line, NEW lo \in 1 .. Len(g), NEW hi \in 1 .. Len(g), lo <= hi,
           NEW H \in SUBSET (lo .. hi), NEW mask, mask.cells = H
    PROVE  IsWindow(Chart!Cut(g, mask, lo .. hi), g, H, lo, hi)
<1> DEFINE W == lo .. hi
           cut == Chart!Cut(g, mask, W)
           m == hi - lo + 1
           cell(k) == LET i == lo + k - 1 IN [lon |-> g[i].lon, col |-> g[i].col, kept |-> i \in H]
<1>1. /\ Len(g) \in Nat /\ DOMAIN g = 1 .. Len(g)
      /\ \A k \in 1 .. Len(g) : g[k].lon \in Int /\ g[k].col \in Int
  BY LineCells
<1>2. lo \in Int /\ hi \in Int /\ m \in Nat \ {0}
  BY <1>1
<1>3. IsFiniteSet(W) /\ Cardinality(W) = m /\ Min(W) = lo
  <2>1. IsFiniteSet(W) /\ Cardinality(W) = m
    BY <1>2, FS_Interval
  <2>2. W \in SUBSET Int /\ lo \in W /\ \A x \in W : lo <= x
    BY <1>2
  <2>3. Min(W) \in W /\ \A x \in W : Min(W) <= x
    BY <2>1, <2>2, Extremes
  <2>4. Min(W) \in Int
    BY <2>2, <2>3
  <2> HIDE DEF m
  <2> QED
    BY <1>2, <2>1, <2>2, <2>3, <2>4
<1>4. cut.cells = [k \in 1 .. m |-> cell(k)] /\ cut.region_cells = Cardinality(H)
  <2> DEFINE e(k) == LET i == Chart!Min(W) + k - 1
                     IN [lon |-> g[i].lon, col |-> g[i].col, kept |-> i \in mask.cells]
  <2>1. /\ cut.cells = [k \in 1 .. Chart!Cardinality(W) |-> e(k)]
        /\ cut.region_cells = Chart!Cardinality(H)
    BY DEF Chart!Cut
  <2>2. Chart!Min(W) = lo /\ Chart!Cardinality(W) = m
    BY <1>3, ChartSame
  <2>3. \A k : e(k) = cell(k)
    BY <2>2
  <2>4. Chart!Cardinality(H) = Cardinality(H)
    BY ChartSame
  <2> HIDE DEF e, cell, m, cut
  <2> QED
    BY <2>1, <2>2, <2>3, <2>4
<1>5. \A k \in 1 .. m : lo + k - 1 \in 1 .. Len(g) /\ lo + k - 1 = (lo - 1) + k
  BY <1>1, <1>2
<1>6. \A k \in 1 .. m : cell(k) \in ShownCell
  <2> TAKE k \in 1 .. m
  <2>1. lo + k - 1 \in 1 .. Len(g)
    BY <1>5
  <2> DEFINE i == lo + k - 1
  <2>2. cell(k) = [lon |-> g[i].lon, col |-> g[i].col, kept |-> i \in H]
    OBVIOUS
  <2> HIDE DEF i, cell
  <2>3. g[i].lon \in Int /\ g[i].col \in Int
    BY <1>1, <2>1 DEF i
  <2> QED
    BY <2>2, <2>3 DEF ShownCell
<1>7. cut.cells \in Seq(ShownCell) /\ Len(cut.cells) = m
  <2> HIDE DEF cell, m, cut
  <2> QED
    BY <1>2, <1>4, <1>6
<1>8. \A k \in 1 .. m : /\ cut.cells[k].lon = g[(lo - 1) + k].lon
                        /\ cut.cells[k].col = g[(lo - 1) + k].col
                        /\ cut.cells[k].kept <=> (lo - 1) + k \in H
  <2> TAKE k \in 1 .. m
  <2>1. cut.cells[k] = cell(k)
    <3> HIDE DEF cell, m, cut
    <3> QED
      BY <1>4
  <2> DEFINE i == lo + k - 1
  <2>2. cell(k) = [lon |-> g[i].lon, col |-> g[i].col, kept |-> i \in H]
    OBVIOUS
  <2>3. i = (lo - 1) + k
    BY <1>5
  <2> HIDE DEF cell, cut, i
  <2>4. cut.cells[k] = [lon |-> g[i].lon, col |-> g[i].col, kept |-> i \in H]
    BY <2>1, <2>2
  <2>5. /\ cut.cells[k].lon = g[i].lon /\ cut.cells[k].col = g[i].col
        /\ cut.cells[k].kept = (i \in H)
    BY <2>4
  <2> QED
    BY <2>3, <2>5
<1>9. \A i \in H : \E k \in 1 .. m : i = (lo - 1) + k
  <2> TAKE i \in H
  <2>1. i \in lo .. hi
    OBVIOUS
  <2>2. i - lo + 1 \in 1 .. m /\ i = (lo - 1) + (i - lo + 1)
    BY <1>2, <2>1
  <2> HIDE DEF m
  <2> QED
    BY <2>2
<1>10. lo - 1 \in Nat /\ m \in Nat /\ (lo - 1) + m <= Len(g)
  BY <1>1, <1>2
<1> HIDE DEF cut, m
<1>11. IsStrip(cut.cells, g, H, lo - 1, m)
  BY <1>7, <1>8, <1>9, <1>10 DEF IsStrip
<1> QED
  BY <1>4, <1>11 DEF cut, m, W, IsWindow

LEMMA CutsAreStrips ==
    ASSUME NEW g \in Line, g # <<>>, NEW H \in SUBSET (1 .. Len(g)), NEW mask, mask.cells = H
    PROVE  LET cut == Chart!Cut(g, mask, Chart!_crop_to_mask_footprint(g, H)) IN
           /\ \E o, m : IsStrip(cut.cells, g, H, o, m)
           /\ cut.region_cells = Cardinality(H)
<1> DEFINE n == Len(g)
           W == Chart!_crop_to_mask_footprint(g, H)
<1>1. n \in Nat \ {0} /\ DOMAIN g = 1 .. n
  <2>1. n \in Nat /\ DOMAIN g = 1 .. n
    BY LineCells
  <2>2. n # 0
    BY DEF Line
  <2> QED
    BY <2>1, <2>2
<1>2. \E lo, hi \in 1 .. n : lo <= hi /\ H \in SUBSET (lo .. hi) /\ W = lo .. hi
  <2>1. CASE H = {}
    <3>1. W = 1 .. n
      BY <1>1, <2>1 DEF Chart!_crop_to_mask_footprint
    <3>2. 1 \in 1 .. n /\ n \in 1 .. n /\ 1 <= n
      BY <1>1
    <3> HIDE DEF n, W
    <3> QED
      BY <2>1, <3>1, <3>2
  <2>2. CASE H # {}
    <3>1. W = Min(H) .. Max(H)
      BY <2>2, ChartSame DEF Chart!_crop_to_mask_footprint
    <3>2. IsFiniteSet(1 .. n)
      BY <1>1, FS_Interval, 1 \in Int
    <3>3. IsFiniteSet(H) /\ H \in SUBSET Int
      <4>1. H \in SUBSET (1 .. n)
        OBVIOUS
      <4>2. IsFiniteSet(H)
        BY <3>2, <4>1, FS_Subset
      <4> QED
        BY <1>1, <4>1, <4>2
    <3>4. /\ Min(H) \in H /\ \A x \in H : Min(H) <= x
          /\ Max(H) \in H /\ \A x \in H : x <= Max(H)
      BY <2>2, <3>3, Extremes
    <3>5. Min(H) \in 1 .. n /\ Max(H) \in 1 .. n /\ Min(H) <= Max(H)
      BY <3>4
    <3>6. H \in SUBSET (Min(H) .. Max(H))
      <4> SUFFICES ASSUME NEW x \in H PROVE x \in Min(H) .. Max(H)
        OBVIOUS
      <4> QED
        BY <3>3, <3>4, <3>5
    <3> HIDE DEF n, W
    <3> QED
      BY <3>1, <3>5, <3>6
  <2> QED
    BY <2>1, <2>2
<1>3. PICK lo \in 1 .. n, hi \in 1 .. n : lo <= hi /\ H \in SUBSET (lo .. hi) /\ W = lo .. hi
  BY <1>2
<1> HIDE DEF W
<1>4. IsWindow(Chart!Cut(g, mask, lo .. hi), g, H, lo, hi)
  <2>1. lo \in 1 .. Len(g) /\ hi \in 1 .. Len(g) /\ lo <= hi /\ H \in SUBSET (lo .. hi)
    BY <1>3
  <2> QED
    BY <2>1, LineWindows
<1> QED
  BY <1>3, <1>4 DEF W, IsWindow

\* The bounds of a region hold every point of it.
LEMMA BoundsHold ==
    ASSUME NEW region \in SUBSET (Int \X Int), IsFiniteSet(region),
           NEW x \in Int, Chart!Inside(x, region)
    PROVE  Chart!Bounds(region)[1] <= x /\ x <= Chart!Bounds(region)[2]
<1> DEFINE lows == {i[1] : i \in region}
           highs == {i[2] : i \in region}
           low == [i \in region |-> i[1]]
           high == [i \in region |-> i[2]]
<1>1. Chart!Bounds(region) = <<Min(lows), Max(highs)>>
  BY ChartSame DEF Chart!Bounds
<1>2. \A i \in region : i[1] \in Int /\ i[2] \in Int
  OBVIOUS
<1>3. PICK i \in region : i[1] <= x /\ x < i[2]
  BY DEF Chart!Inside
<1>4. IsFiniteSet(lows) /\ IsFiniteSet(highs)
  <2>1. IsFiniteSet({low[j] : j \in region}) /\ IsFiniteSet({high[j] : j \in region})
    <3> HIDE DEF low, high
    <3> QED
      BY FiniteImage
  <2>2. {low[j] : j \in region} = lows /\ {high[j] : j \in region} = highs
    OBVIOUS
  <2> QED
    BY <2>1, <2>2
<1>5. lows \in SUBSET Int /\ highs \in SUBSET Int /\ i[1] \in lows /\ i[2] \in highs
  BY <1>2
<1> HIDE DEF lows, highs
<1>6. Min(lows) \in lows /\ Max(highs) \in highs /\ Min(lows) <= i[1] /\ i[2] <= Max(highs)
  BY <1>4, <1>5, Extremes
<1>7. Min(lows) <= x /\ x <= Max(highs)
  <2> DEFINE a == i[1]
             z == i[2]
             low1 == Min(lows)
             high1 == Max(highs)
  <2>1. /\ a \in Int /\ z \in Int /\ a <= x /\ x < z
        /\ low1 \in Int /\ high1 \in Int /\ low1 <= a /\ z <= high1
    BY <1>2, <1>3, <1>5, <1>6
  <2> HIDE DEF a, z, low1, high1
  <2>2. low1 <= x /\ x <= high1
    BY <2>1
  <2> QED
    BY <2>2 DEF low1, high1
<1> QED
  BY <1>1, <1>7

LEMMA Slices ==
    ASSUME NEW S, NEW s \in Seq(S), NEW lo \in 1 .. Len(s), NEW hi \in 1 .. Len(s), lo <= hi
    PROVE  LET t == SubSeq(s, lo, hi) IN
           /\ t \in Seq(S) /\ Len(t) = hi - lo + 1
           /\ \A k \in 1 .. (hi - lo + 1) : t[k] = s[lo + k - 1]
<1>1. \A k \in 1 .. (hi - lo + 1) : lo + k - 1 \in 1 .. Len(s)
  OBVIOUS
<1>2. \A k \in 1 .. (hi - lo + 1) : s[lo + k - 1] \in S
  BY <1>1
<1> DEFINE t == SubSeq(s, lo, hi)
<1>3. Len(t) = hi - lo + 1
  OBVIOUS
<1>4. \A k \in 1 .. (hi - lo + 1) : t[k] = s[lo + k - 1]
  OBVIOUS
<1>5. t \in Seq(S)
  BY <1>2, <1>4
<1> QED
  BY <1>3, <1>4, <1>5

\* Cut again to bounds that hold what was kept, a strip is a strip of the same line.
LEMMA SelectionsAreStrips ==
    ASSUME NEW g \in Line, NEW H \in SUBSET (1 .. Len(g)), NEW cells, NEW o, NEW m,
           IsStrip(cells, g, H, o, m),
           NEW b, \A i \in H : b[1] <= g[i].lon /\ g[i].lon <= b[2]
    PROVE  \E p, l : IsStrip(Chart!sel_bounds(cells, b), g, H, p, l)
<1> DEFINE between == {k \in DOMAIN cells : b[1] <= cells[k].lon /\ cells[k].lon <= b[2]}
           chosen == Chart!sel_bounds(cells, b)
<1>1. /\ o \in Nat /\ m \in Nat /\ o + m <= Len(g) /\ Len(g) \in Nat
      /\ cells \in Seq(ShownCell) /\ Len(cells) = m /\ DOMAIN cells = 1 .. m
      /\ \A k \in 1 .. m : /\ cells[k].lon = g[o + k].lon /\ cells[k].col = g[o + k].col
                           /\ cells[k].kept <=> o + k \in H
      /\ \A i \in H : \E k \in 1 .. m : i = o + k
  BY LineCells DEF IsStrip
<1>2. \A i \in H : \E k \in between : i = o + k
  BY <1>1
<1>3. CASE between = {}
  <2>1. chosen = <<>> /\ H = {}
    BY <1>2, <1>3 DEF Chart!sel_bounds
  <2>2. IsStrip(<<>>, g, H, 0, 0)
    BY <1>1, <2>1 DEF IsStrip
  <2> QED
    BY <2>1, <2>2
<1>4. CASE between # {}
  <2> DEFINE lo == Min(between)
             hi == Max(between)
             l == hi - lo + 1
             p == o + lo - 1
  <2>1. chosen = SubSeq(cells, lo, hi)
    BY <1>4, ChartSame DEF Chart!sel_bounds
  <2>2. between \in SUBSET (1 .. m)
    BY <1>1
  <2> HIDE DEF between
  <2>3. IsFiniteSet(between)
    <3>1. IsFiniteSet(1 .. m)
      BY <1>1, FS_Interval, 1 \in Int
    <3> QED
      BY <2>2, <3>1, FS_Subset
  <2>4. /\ lo \in between /\ hi \in between /\ lo <= hi
        /\ \A k \in between : lo <= k /\ k <= hi
    <3>1. between \in SUBSET Int
      BY <2>2
    <3> QED
      BY <1>4, <2>3, <3>1, Extremes
  <2>5. lo \in 1 .. m /\ hi \in 1 .. m
    BY <2>2, <2>4
  <2> HIDE DEF lo, hi
  <2>6. /\ l \in Nat /\ p \in Nat /\ p + l <= Len(g)
        /\ \A k \in 1 .. l : lo + k - 1 \in 1 .. m /\ p + k = o + (lo + k - 1)
    BY <1>1, <2>4, <2>5
  <2>7. /\ chosen \in Seq(ShownCell) /\ Len(chosen) = l
        /\ \A k \in 1 .. l : chosen[k] = cells[lo + k - 1]
    <3> HIDE DEF chosen, l
    <3>1. lo \in 1 .. Len(cells) /\ hi \in 1 .. Len(cells) /\ lo <= hi
      BY <1>1, <2>4, <2>5
    <3>2. /\ chosen \in Seq(ShownCell) /\ Len(chosen) = hi - lo + 1
          /\ \A k \in 1 .. (hi - lo + 1) : chosen[k] = cells[lo + k - 1]
      BY <1>1, <2>1, <3>1, Slices
    <3> QED
      BY <3>2 DEF l
  <2>8. \A i \in H : \E k \in 1 .. l : i = p + k
    <3> TAKE i \in H
    <3>1. PICK k \in between : i = o + k
      BY <1>2
    <3>2. k \in 1 .. m /\ lo <= k /\ k <= hi
      BY <2>2, <2>4, <3>1
    <3>3. k - lo + 1 \in 1 .. l /\ i = p + (k - lo + 1)
      <4>1. lo \in Int /\ hi \in Int /\ o \in Int /\ k \in Int
        BY <1>1, <2>5, <3>2
      <4> QED
        BY <3>1, <3>2, <4>1
    <3> HIDE DEF l, p
    <3> QED
      BY <3>3
  <2>9. \A k \in 1 .. l : /\ chosen[k].lon = g[p + k].lon /\ chosen[k].col = g[p + k].col
                          /\ chosen[k].kept <=> p + k \in H
    <3> HIDE DEF l, p, chosen
    <3> QED
      BY <1>1, <2>6, <2>7
  <2> HIDE DEF l, p, chosen
  <2>10. IsStrip(chosen, g, H, p, l)
    BY <2>6, <2>7, <2>8, <2>9 DEF IsStrip
  <2> QED
    BY <2>10 DEF chosen
<1> QED
  BY <1>3, <1>4

\* The line of a case, and the cells of it its region holds.
AxisLine(c) == Chart!_normalize_longitudes(Chart!Grid(c.scene))
HeldBy(c) == Held(AxisLine(c), c.region)

\* What every tool reduces over is a strip of the same line with the same cells kept.
LEMMA PlainStrips ==
    ASSUME NEW c, Chart!IsSceneCase(c), Chart!Plain(c)
    PROVE  LET M == Chart!Masked(c.scene, c.region)
               K == Chart!Cropped(c.scene, c.region)
           IN  /\ Chart!_is_uniform_1d(AxisLine(c))
               /\ \E o, m : IsStrip(M.cells, AxisLine(c), HeldBy(c), o, m)
               /\ \E o, m : IsStrip(K.cells, AxisLine(c), HeldBy(c), o, m)
               /\ K.region_cells = Cardinality(HeldBy(c))
<1> DEFINE s == c.scene
           g == AxisLine(c)
           H == HeldBy(c)
           mask == Chart!geometry_mask(g, c.region)
           M == Chart!Masked(s, c.region)
           K == Chart!Cropped(s, c.region)
           B == Chart!Bounds(c.region)
<1>1. Chart!IsScene(s) /\ c.region \in SUBSET (Int \X Int) /\ IsFiniteSet(c.region)
  BY ChartSame DEF Chart!IsSceneCase
<1>2. g \in Line /\ Len(g) = Len(s.lons) /\ Len(g) # 0
  BY <1>1, NormalLines, ScenePlaces DEF AxisLine
<1>3. Chart!_is_uniform_1d(g)
  BY DEF Chart!Plain, Chart!Answers, Chart!Refused, AxisLine
<1>4. M = Chart!Cut(g, mask, Chart!_crop_to_mask_footprint(g, mask.cells))
  BY DEF Chart!Masked, Chart!mask_data_by_geometry, AxisLine
<1>5. M.healed = mask.healed /\ ~M.healed
  BY <1>4 DEF Chart!Cut, Chart!Plain
<1>6. mask.cells = H
  BY <1>2, <1>3, <1>5, PlainMasks DEF HeldBy
<1>7. H \in SUBSET (1 .. Len(g)) /\ \A i \in H : Chart!Inside(g[i].lon, c.region)
  BY DEF HeldBy, Held
<1>8. /\ K.cells = Chart!sel_bounds(M.cells, B)
      /\ K.region_cells = M.region_cells
  <2>1. K = [M EXCEPT !.cells = Chart!sel_bounds(@, B)]
    BY DEF Chart!Cropped
  <2>2. DOMAIN M = {"cells", "region_cells", "healed"}
    BY <1>4 DEF Chart!Cut
  <2> HIDE DEF K, M, B
  <2> QED
    BY <2>1, <2>2
<1> HIDE DEF g, H, mask, M, K, B, s
<1>9. (\E o, m : IsStrip(M.cells, g, H, o, m)) /\ M.region_cells = Cardinality(H)
  <2>1. g # <<>>
    BY <1>2
  <2> QED
    BY <1>2, <1>4, <1>6, <1>7, <2>1, CutsAreStrips
<1>10. PICK o, m : IsStrip(M.cells, g, H, o, m)
  BY <1>9
<1>11. \A i \in H : B[1] <= g[i].lon /\ g[i].lon <= B[2]
  <2> TAKE i \in H
  <2>1. g[i].lon \in Int
    BY <1>2, <1>7, LineCells
  <2> QED
    BY <1>1, <1>7, <2>1, BoundsHold DEF B
<1>12. \E p, l : IsStrip(K.cells, g, H, p, l)
  BY <1>2, <1>7, <1>8, <1>10, <1>11, SelectionsAreStrips
<1> QED
  BY <1>3, <1>8, <1>9, <1>12 DEF g, H, M, K, s

-----------------------------------------------------------------------------
(* The columns of the data a region is about. *)

Columns(s, region) == {col \in 1 .. Len(s.lons) : Chart!Inside(Chart!Place(s, col), region)}

\* The cells kept are those columns, each once, at its own place.
Shows(cells, s, region) ==
    /\ cells \in Seq(ShownCell)
    /\ \A k \in 1 .. Len(cells) : cells[k].kept =>
          cells[k].col \in Columns(s, region) /\ cells[k].lon = Chart!Place(s, cells[k].col)
    /\ \A col \in Columns(s, region) : \E k \in 1 .. Len(cells) : cells[k].kept /\ cells[k].col = col
    /\ \A j, k \in 1 .. Len(cells) :
          cells[j].kept /\ cells[k].kept /\ cells[j].col = cells[k].col => j = k

LEMMA StripsShow ==
    ASSUME NEW s, Chart!IsScene(s), NEW region, NEW g, g = Chart!_normalize_longitudes(Chart!Grid(s)),
           NEW cells, NEW o, NEW m, IsStrip(cells, g, Held(g, region), o, m)
    PROVE  Shows(cells, s, region)
<1> DEFINE n == Len(s.lons)
           place(i) == Chart!Place(s, i)
           H == Held(g, region)
           C == Columns(s, region)
<1>1. /\ g \in Line /\ Len(g) = n /\ n \in Nat
      /\ \A k \in 1 .. n : g[k].col \in 1 .. n /\ g[k].lon = place(g[k].col)
      /\ \A i \in 1 .. n : \E k \in 1 .. n : g[k].col = i
      /\ \A j, k \in 1 .. n : g[j].col = g[k].col => j = k
  BY NormalLines, ScenePlaces
<1>2. /\ \A k \in 1 .. n : k \in H <=> Chart!Inside(g[k].lon, region)
      /\ \A i \in 1 .. n : i \in C <=> Chart!Inside(place(i), region)
      /\ H \in SUBSET (1 .. n) /\ C \in SUBSET (1 .. n)
  BY <1>1 DEF Held, Columns
<1>3. /\ o \in Nat /\ m \in Nat /\ o + m <= n
      /\ cells \in Seq(ShownCell) /\ Len(cells) = m
      /\ \A k \in 1 .. m : /\ cells[k].lon = g[o + k].lon /\ cells[k].col = g[o + k].col
                           /\ cells[k].kept <=> o + k \in H
      /\ \A i \in H : \E k \in 1 .. m : i = o + k
  BY <1>1 DEF IsStrip
<1>4. \A k \in 1 .. m : o + k \in 1 .. n
  BY <1>1, <1>3
<1> HIDE DEF n, H, C, place
<1>5. \A k \in 1 .. m : cells[k].kept => cells[k].col \in C /\ cells[k].lon = place(cells[k].col)
  <2> TAKE k \in 1 .. m
  <2> HAVE cells[k].kept
  <2> DEFINE i == o + k
  <2>1. i \in 1 .. n /\ i \in H /\ cells[k].lon = g[i].lon /\ cells[k].col = g[i].col
    BY <1>3, <1>4
  <2> HIDE DEF i
  <2>2. g[i].col \in 1 .. n /\ g[i].lon = place(g[i].col) /\ Chart!Inside(g[i].lon, region)
    BY <1>1, <1>2, <2>1
  <2> QED
    BY <1>2, <2>1, <2>2
<1>6. \A col \in C : \E k \in 1 .. m : cells[k].kept /\ cells[k].col = col
  <2> TAKE col \in C
  <2>1. col \in 1 .. n /\ Chart!Inside(place(col), region)
    BY <1>2
  <2>2. PICK i \in 1 .. n : g[i].col = col
    BY <1>1, <2>1
  <2>3. i \in H
    <3>1. g[i].lon = place(col) /\ Chart!Inside(g[i].lon, region)
      BY <1>1, <2>1, <2>2
    <3> QED
      BY <1>2, <3>1
  <2>4. PICK k \in 1 .. m : i = o + k
    BY <1>3, <2>3
  <2>5. cells[k].kept /\ cells[k].col = col
    BY <1>3, <2>2, <2>3, <2>4
  <2> QED
    BY <2>5
<1>7. \A j, k \in 1 .. m : cells[j].kept /\ cells[k].kept /\ cells[j].col = cells[k].col => j = k
  <2> SUFFICES ASSUME NEW j \in 1 .. m, NEW k \in 1 .. m, cells[j].col = cells[k].col
               PROVE  j = k
    OBVIOUS
  <2>1. g[o + j].col = g[o + k].col /\ o + j \in 1 .. n /\ o + k \in 1 .. n
    BY <1>3, <1>4
  <2>2. o + j = o + k
    BY <1>1, <2>1
  <2> QED
    BY <1>3, <2>2
<1> QED
  BY <1>3, <1>5, <1>6, <1>7 DEF Shows, C, place

\* As many cells of the line are held as there are columns in the region.
LEMMA AsManyHeld ==
    ASSUME NEW c, Chart!IsSceneCase(c)
    PROVE  /\ IsFiniteSet(Columns(c.scene, c.region))
           /\ Cardinality(HeldBy(c)) = Cardinality(Columns(c.scene, c.region))
<1> DEFINE s == c.scene
           g == AxisLine(c)
           n == Len(s.lons)
           place(i) == Chart!Place(s, i)
           H == HeldBy(c)
           C == Columns(s, c.region)
           m == [k \in H |-> g[k].col]
<1>1. /\ g \in Line /\ Len(g) = n /\ n \in Nat
      /\ \A k \in 1 .. n : g[k].col \in 1 .. n /\ g[k].lon = place(g[k].col)
      /\ \A i \in 1 .. n : \E k \in 1 .. n : g[k].col = i
      /\ \A j, k \in 1 .. n : g[j].col = g[k].col => j = k
  BY NormalLines, ScenePlaces DEF Chart!IsSceneCase, AxisLine
<1>2. /\ \A k \in 1 .. n : k \in H <=> Chart!Inside(g[k].lon, c.region)
      /\ \A i \in 1 .. n : i \in C <=> Chart!Inside(place(i), c.region)
      /\ H \in SUBSET (1 .. n) /\ C \in SUBSET (1 .. n)
  BY <1>1 DEF Held, HeldBy, Columns
<1>3. IsFiniteSet(1 .. n)
  BY <1>1, FS_Interval, 1 \in Int
<1> HIDE DEF n, H, C, place, g
<1>4. IsFiniteSet(H)
  BY <1>2, <1>3, FS_Subset
<1>5. m \in Bijection(H, C)
  <2>4. \A k \in H : g[k].col \in C
    <3> TAKE k \in H
    <3>1. k \in 1 .. n /\ Chart!Inside(place(g[k].col), c.region) /\ g[k].col \in 1 .. n
      BY <1>1, <1>2
    <3> QED
      BY <1>2, <3>1
  <2>5. \A z \in C : \E k \in H : g[k].col = z
    <3> TAKE z \in C
    <3>1. z \in 1 .. n /\ Chart!Inside(place(z), c.region)
      BY <1>2
    <3>2. PICK k \in 1 .. n : g[k].col = z
      BY <1>1, <3>1
    <3>3. k \in H
      <4>1. g[k].lon = place(z) /\ Chart!Inside(g[k].lon, c.region)
        BY <1>1, <3>1, <3>2
      <4> QED
        BY <1>2, <4>1
    <3> QED
      BY <3>2, <3>3
  <2>1. m \in [H -> C]
    BY <2>4
  <2>2. \A x, y \in H : m[x] = m[y] => x = y
    BY <1>1, <1>2
  <2>3. \A z \in C : \E x \in H : m[x] = z
    BY <2>5
  <2> HIDE DEF m
  <2> QED
    BY <2>1, <2>2, <2>3 DEF Bijection, Injection, Surjection, IsInjective
<1>6. IsFiniteSet(C) /\ Cardinality(H) = Cardinality(C)
  BY <1>4, <1>5, FS_Bijection DEF ExistsBijection
<1> QED
  BY <1>6 DEF H, C, s

\* What a plain case reduces over, for each tool.
LEMMA PlainShows ==
    ASSUME NEW c, Chart!IsSceneCase(c), Chart!Plain(c)
    PROVE  /\ Shows(Chart!Masked(c.scene, c.region).cells, c.scene, c.region)
           /\ Shows(Chart!Cropped(c.scene, c.region).cells, c.scene, c.region)
           /\ Chart!Cropped(c.scene, c.region).region_cells = Cardinality(Columns(c.scene, c.region))
<1>1. Chart!IsScene(c.scene)
  BY DEF Chart!IsSceneCase
<1>2. PICK o, m : IsStrip(Chart!Masked(c.scene, c.region).cells, AxisLine(c), HeldBy(c), o, m)
  BY PlainStrips
<1>3. PICK p, l : IsStrip(Chart!Cropped(c.scene, c.region).cells, AxisLine(c), HeldBy(c), p, l)
  BY PlainStrips
<1>4. Chart!Cropped(c.scene, c.region).region_cells = Cardinality(Columns(c.scene, c.region))
  BY PlainStrips, AsManyHeld
<1> QED
  BY <1>1, <1>2, <1>3, <1>4, StripsShow DEF AxisLine, HeldBy

LEMMA KeptAreTheColumns ==
    ASSUME NEW cells, NEW s, NEW region, Shows(cells, s, region)
    PROVE  Chart!Kept(cells) = Columns(s, region)
<1>1. DOMAIN cells = 1 .. Len(cells)
  BY DEF Shows
<1>2. Chart!Kept(cells) = {cells[k].col : k \in {i \in DOMAIN cells : cells[i].kept}}
  BY DEF Chart!Kept
<1> QED
  BY <1>1, <1>2 DEF Shows

LEMMA CellsAreInPlace ==
    ASSUME NEW c, Chart!IsSceneCase(c)
    PROVE  Chart!CellsAreWhereTheyAre(c) /\ Chart!CropsKeepTheRegion(c)
<1> SUFFICES ASSUME Chart!Plain(c) PROVE Chart!CellsAreWhereTheyAre(c) /\ Chart!CropsKeepTheRegion(c)
  BY DEF Chart!CellsAreWhereTheyAre, Chart!CropsKeepTheRegion
<1>1. /\ Chart!Kept(Chart!Masked(c.scene, c.region).cells) = Columns(c.scene, c.region)
      /\ Chart!Kept(Chart!Cropped(c.scene, c.region).cells) = Columns(c.scene, c.region)
  BY PlainShows, KeptAreTheColumns
<1>2. DOMAIN c.scene.lons = 1 .. Len(c.scene.lons)
  BY ScenePlaces DEF Chart!IsSceneCase
<1> QED
  BY <1>1, <1>2 DEF Chart!CellsAreWhereTheyAre, Chart!CropsKeepTheRegion, Columns

-----------------------------------------------------------------------------
(* What a column shows. *)

\* The instants at which a column of a layer has a value, and its values then.
SeenAt(s, l, col) == {t \in 1 .. Len(s.data) : s.data[t][l][col] # -100}
Shown(s, l, col) == [t \in SeenAt(s, l, col) |-> s.data[t][l][col]]
MeanAt(s, l, col) == TotalOf(Shown(s, l, col), SeenAt(s, l, col)) \div Cardinality(SeenAt(s, l, col))
ValuesAt(s, l, col) == {s.data[t][l][col] : t \in SeenAt(s, l, col)}

LEMMA SceneData ==
    ASSUME NEW s, Chart!IsScene(s)
    PROVE  LET T == Len(s.data)
               n == Len(s.lons)
           IN  /\ T \in Nat /\ DOMAIN s.data = 1 .. T
               /\ \A t \in 1 .. T, l \in DOMAIN s.layers, col \in 1 .. n :
                     s.data[t][l][col] \in Int /\ Chart!IsObservation(s.data[t][l][col], T)
<1> DEFINE T == Len(s.data)
           n == Len(s.lons)
           Layers == [DOMAIN s.layers -> [DOMAIN s.lons -> Int]]
<1>1. DOMAIN s.lons = 1 .. n
  BY ScenePlaces
<1>2. s.data \in Seq(Layers)
  BY DEF Chart!IsScene
<1>3. \A x \in Layers, l \in DOMAIN s.layers, col \in 1 .. n : x[l][col] \in Int
  BY <1>1
<1> HIDE DEF Layers
<1>4. T \in Nat /\ DOMAIN s.data = 1 .. T /\ \A t \in 1 .. T : s.data[t] \in Layers
  BY <1>2
<1>5. \A t \in 1 .. T, l \in DOMAIN s.layers, col \in 1 .. n : Chart!IsObservation(s.data[t][l][col], T)
  BY <1>1, <1>4 DEF Chart!IsScene
<1> QED
  BY <1>3, <1>4, <1>5

LEMMA ColumnValues ==
    ASSUME NEW s, Chart!IsScene(s), NEW l \in DOMAIN s.layers, NEW col \in 1 .. Len(s.lons)
    PROVE  /\ SeenAt(s, l, col) \in SUBSET (1 .. Len(s.data)) /\ IsFiniteSet(SeenAt(s, l, col))
           /\ Shown(s, l, col) \in [SeenAt(s, l, col) -> Int]
           /\ \A t \in SeenAt(s, l, col) :
                 /\ Shown(s, l, col)[t] = s.data[t][l][col]
                 /\ Shown(s, l, col)[t] \in Int /\ Shown(s, l, col)[t] > -100
                 /\ Shown(s, l, col)[t] % Len(s.data) = 0
<1> DEFINE T == Len(s.data)
           S == SeenAt(s, l, col)
           v(t) == s.data[t][l][col]
<1>1. T \in Nat /\ \A t \in 1 .. T : v(t) \in Int /\ Chart!IsObservation(v(t), T)
  BY SceneData
<1>2. S \in SUBSET (1 .. T) /\ \A t \in S : v(t) # -100
  BY DEF SeenAt
<1>3. IsFiniteSet(S)
  <2>1. IsFiniteSet(1 .. T)
    BY <1>1, FS_Interval, 1 \in Int
  <2> HIDE DEF S, T
  <2> QED
    BY <1>2, <2>1, FS_Subset
<1>4. Shown(s, l, col) = [t \in S |-> v(t)]
  BY DEF Shown
<1> HIDE DEF S, v, T
<1>5. \A t \in S : v(t) \in Int /\ v(t) > -100 /\ v(t) % T = 0
  <2> TAKE t \in S
  <2>1. v(t) \in Int /\ Chart!IsObservation(v(t), T) /\ v(t) # -100
    BY <1>1, <1>2
  <2> QED
    BY <2>1 DEF Chart!IsObservation, Chart!NaN
<1> QED
  BY <1>2, <1>3, <1>4, <1>5 DEF S, v, T

\* What a tool reads at one of its cells.
LEMMA CellsSee ==
    ASSUME NEW s, Chart!IsScene(s), NEW l, NEW cell, cell.kept \in BOOLEAN
    PROVE  Chart!Seen(s, l, cell) = IF cell.kept THEN SeenAt(s, l, cell.col) ELSE {}
<1>1. DOMAIN s.data = 1 .. Len(s.data)
  BY SceneData
<1>2. Chart!Seen(s, l, cell) = {t \in DOMAIN s.data : cell.kept /\ s.data[t][l][cell.col] # -100}
  BY DEF Chart!Seen, Chart!NaN
<1>3. CASE cell.kept
  BY <1>1, <1>2, <1>3 DEF SeenAt
<1>4. CASE ~cell.kept
  BY <1>2, <1>4
<1> QED
  BY <1>3, <1>4

ReadsMean(s, l, cell) ==
    Chart!Reduced(s, l, cell, "mean") =
        IF cell.kept /\ SeenAt(s, l, cell.col) # {} THEN MeanAt(s, l, cell.col) ELSE -100
LEMMA CellMeans ==
    ASSUME NEW s, Chart!IsScene(s), NEW l \in DOMAIN s.layers, NEW cell, cell.kept \in BOOLEAN,
           cell.kept => cell.col \in 1 .. Len(s.lons)
    PROVE  ReadsMean(s, l, cell)
<1> USE DEF ReadsMean
<1> DEFINE seen == Chart!Seen(s, l, cell)
           col == cell.col
           Sums(g) == [x \in SUBSET seen |->
                          IF x = {} THEN 0
                          ELSE LET t == CHOOSE t \in x : TRUE IN s.data[t][l][col] + g[x \ {t}]]
           sums == CHOOSE g : g = Sums(g)
           total == sums[seen]
<1>1. Chart!Reduced(s, l, cell, "mean") = IF seen = {} THEN -100 ELSE total \div Cardinality(seen)
  <2>1. Chart!Reduced(s, l, cell, "mean") =
        IF seen = {} THEN Chart!NaN
        ELSE CASE "mean" = "mean" -> total \div Chart!Cardinality(seen)
               [] "mean" = "max" -> Chart!Max({s.data[t][l][col] : t \in seen})
               [] "mean" = "min" -> Chart!Min({s.data[t][l][col] : t \in seen})
    BY Zenon DEF Chart!Reduced, Chart!MapThenSumSet, Chart!MapThenFoldSet, total, sums, Sums, seen, col
  <2>2. Chart!Cardinality(seen) = Cardinality(seen)
    BY ChartSame
  <2> HIDE DEF seen, total
  <2> QED
    BY <2>1, <2>2 DEF Chart!NaN
<1>2. seen = IF cell.kept THEN SeenAt(s, l, col) ELSE {}
  BY CellsSee
<1>3. CASE cell.kept
  <2>1. seen = SeenAt(s, l, col) /\ col \in 1 .. Len(s.lons)
    BY <1>2, <1>3
  <2> DEFINE f == Shown(s, l, col)
  <2>2. /\ f \in [seen -> Int] /\ IsFiniteSet(seen)
        /\ \A t \in seen : f[t] = s.data[t][l][col]
    BY <2>1, ColumnValues
  <2>3. \A g : Sums(g) = SumsOf(seen, f, g)
    <3> TAKE g
    <3>1. \A x \in SUBSET seen : x # {} => f[Pick(x)] = s.data[Pick(x)][l][col]
      <4>1. \A x \in SUBSET seen : x # {} => Pick(x) \in seen
        BY DEF Pick
      <4> QED
        BY <2>2, <4>1
    <3> HIDE DEF f, seen, col
    <3> QED
      BY <3>1 DEF SumsOf, Pick
  <2> HIDE DEF Sums, f, seen, col
  <2>4. /\ \E g : g = SumsOf(seen, f, g)
        /\ \A g : g = SumsOf(seen, f, g) => g[seen] = TotalOf(f, seen)
    <3>1. seen \in SUBSET seen
      OBVIOUS
    <3> QED
      BY <2>2, <3>1, TotalIsTheSum
  <2>5. sums = Sums(sums)
    BY <2>3, <2>4
  <2> HIDE DEF sums
  <2>6. total = TotalOf(f, seen)
    BY <2>3, <2>4, <2>5
  <2> QED
    BY <1>1, <1>3, <2>1, <2>6 DEF MeanAt, f, col
<1>4. CASE ~cell.kept
  <2>1. seen = {}
    BY <1>2, <1>4
  <2> HIDE DEF seen, total
  <2> QED
    BY <1>1, <1>4, <2>1
<1> QED
  BY <1>3, <1>4

\* A mean of values is none of the sentinels.
LEMMA MeansAreValues ==
    ASSUME NEW s, Chart!IsScene(s), NEW l \in DOMAIN s.layers, NEW col \in 1 .. Len(s.lons),
           SeenAt(s, l, col) # {}
    PROVE  MeanAt(s, l, col) \in Int /\ MeanAt(s, l, col) > -100
<1> DEFINE S == SeenAt(s, l, col)
           f == Shown(s, l, col)
           N == Cardinality(S)
           total == TotalOf(f, S)
           q == total \div N
<1>1. /\ IsFiniteSet(S) /\ f \in [S -> Int] /\ \A t \in S : f[t] \in Int /\ f[t] > -100
  BY ColumnValues
<1>2. N \in Nat \ {0}
  BY <1>1, FS_CardinalityType, FS_EmptySet
<1>3. MeanAt(s, l, col) = q /\ S \in SUBSET S
  BY DEF MeanAt
<1> HIDE DEF S, f
<1>4. total \in Int
  BY <1>1, <1>3, TotalIsWhole
<1>5. 0 * total + (-99) * N <= 1 * total
  <2>1. \A t \in S : 0 * f[t] + (-99) <= 1 * f[t]
    BY <1>1
  <2>2. 0 \in Int /\ 1 \in Int /\ -99 \in Int
    OBVIOUS
  <2> QED
    BY <1>1, <1>3, <2>1, <2>2, TotalsCompare
<1> HIDE DEF N, total
<1>6. q \in Int /\ total < N * q + N
  BY <1>2, <1>4, Division
<1> HIDE DEF q
<1>7. q > -100
  <2> SUFFICES ASSUME q <= -100 PROVE FALSE
    BY <1>6
  <2>1. N * q <= N * (-100)
    BY <1>2, <1>6
  <2>2. N * (-100) + N = (-99) * N
    BY <1>2
  <2> QED
    BY <1>2, <1>4, <1>5, <1>6, <2>1, <2>2
<1> QED
  BY <1>3, <1>6, <1>7

ReadsHighest(s, l, cell) ==
    Chart!Reduced(s, l, cell, "max") =
        IF cell.kept /\ SeenAt(s, l, cell.col) # {} THEN Max(ValuesAt(s, l, cell.col)) ELSE -100
LEMMA CellHighs ==
    ASSUME NEW s, Chart!IsScene(s), NEW l, NEW cell, cell.kept \in BOOLEAN
    PROVE  ReadsHighest(s, l, cell)
<1> USE DEF ReadsHighest
<1> DEFINE seen == Chart!Seen(s, l, cell)
           col == cell.col
           values == {s.data[t][l][col] : t \in seen}
<1>1. Chart!Reduced(s, l, cell, "max") = IF seen = {} THEN -100 ELSE Max(values)
  <2>1. Chart!Reduced(s, l, cell, "max") =
        IF seen = {} THEN Chart!NaN
        ELSE CASE "max" = "mean" -> Chart!MapThenSumSet(LAMBDA t : s.data[t][l][col], seen) \div Chart!Cardinality(seen)
               [] "max" = "max" -> Chart!Max(values)
               [] "max" = "min" -> Chart!Min(values)
    BY Zenon DEF Chart!Reduced, seen, values, col
  <2>2. Chart!Max(values) = Max(values)
    BY ChartSame
  <2>3. "max" # "mean" /\ "max" # "min"
    OBVIOUS
  <2> DEFINE other == Chart!MapThenSumSet(LAMBDA t : s.data[t][l][col], seen) \div Chart!Cardinality(seen)
  <2>4. Chart!Reduced(s, l, cell, "max") =
        IF seen = {} THEN Chart!NaN
        ELSE CASE "max" = "mean" -> other
               [] "max" = "max" -> Chart!Max(values)
               [] "max" = "min" -> Chart!Min(values)
    BY <2>1, Zenon
  <2> HIDE DEF seen, values, other
  <2> QED
    BY <2>2, <2>3, <2>4 DEF Chart!NaN
<1>2. seen = IF cell.kept THEN SeenAt(s, l, col) ELSE {}
  BY CellsSee
<1>3. cell.kept => values = ValuesAt(s, l, col)
  BY <1>2 DEF ValuesAt
<1> HIDE DEF seen, values
<1> QED
  BY <1>1, <1>2, <1>3

\* The columns of a region with a value, and the terms of their weighted mean.
KnownAt(s, l, region) == {col \in Columns(s, region) : SeenAt(s, l, col) # {}}
PlaceWeight(s, col) == Chart!Weight(Chart!Place(s, col))
MeanTerms(s, l, region) == [col \in KnownAt(s, l, region) |-> PlaceWeight(s, col) * MeanAt(s, l, col)]
WeightTerms(s, l, region) == [col \in KnownAt(s, l, region) |-> PlaceWeight(s, col)]
MeanOver(s, l, region) ==
    <<TotalOf(MeanTerms(s, l, region), KnownAt(s, l, region)),
      TotalOf(WeightTerms(s, l, region), KnownAt(s, l, region))>>

LEMMA WeightsArePositive ==
    ASSUME NEW lon \in Int
    PROVE  Chart!Weight(lon) \in Nat \ {0}
<1> DEFINE a == IF lon < 0 THEN -lon ELSE lon
<1>1. a \in Nat
  OBVIOUS
<1>2. Chart!Weight(lon) = 1 + a \div 8
  BY DEF Chart!Weight
<1> HIDE DEF a
<1> QED
  BY <1>1, <1>2

\* The weighted mean of a field, as sums over the places of its values.
FieldTerms(field) == [k \in Chart!Known(field) |-> Chart!Weight(field[k].lon) * field[k].v]
FieldWeights(field) == [k \in Chart!Known(field) |-> Chart!Weight(field[k].lon)]
LEMMA FieldSums ==
    ASSUME NEW field, IsFiniteSet(Chart!Known(field)),
           \A k \in Chart!Known(field) : field[k].v \in Int /\ field[k].lon \in Int
    PROVE  /\ FieldTerms(field) \in [Chart!Known(field) -> Int]
           /\ FieldWeights(field) \in [Chart!Known(field) -> Int]
           /\ Chart!area_weighted_mean(field) =
                <<TotalOf(FieldTerms(field), Chart!Known(field)), TotalOf(FieldWeights(field), Chart!Known(field))>>
<1> DEFINE K == Chart!Known(field)
           f == FieldTerms(field)
           h == FieldWeights(field)
           Sums(g) == [x \in SUBSET K |->
                          IF x = {} THEN 0
                          ELSE LET k == CHOOSE k \in x : TRUE
                               IN Chart!Weight(field[k].lon) * field[k].v + g[x \ {k}]]
           Weights(g) == [x \in SUBSET K |->
                          IF x = {} THEN 0
                          ELSE LET k == CHOOSE k \in x : TRUE IN Chart!Weight(field[k].lon) + g[x \ {k}]]
           sums == CHOOSE g : g = Sums(g)
           weights == CHOOSE g : g = Weights(g)
<1>1. Chart!area_weighted_mean(field) = <<sums[K], weights[K]>>
  BY Zenon DEF Chart!area_weighted_mean, Chart!MapThenSumSet, Chart!MapThenFoldSet, sums, Sums, weights, Weights, K
<1>2. /\ \A k \in K : f[k] = Chart!Weight(field[k].lon) * field[k].v /\ h[k] = Chart!Weight(field[k].lon)
      /\ f \in [K -> Int] /\ h \in [K -> Int]
  <2>1. \A k \in K : Chart!Weight(field[k].lon) \in Int /\ Chart!Weight(field[k].lon) * field[k].v \in Int
    <3> TAKE k \in K
    <3> DEFINE w == Chart!Weight(field[k].lon)
    <3>1. w \in Int /\ field[k].v \in Int
      BY WeightsArePositive
    <3> HIDE DEF w
    <3>2. w * field[k].v \in Int
      BY <3>1
    <3> QED
      BY <3>1, <3>2 DEF w
  <2>2. f = [k \in K |-> Chart!Weight(field[k].lon) * field[k].v] /\ h = [k \in K |-> Chart!Weight(field[k].lon)]
    BY DEF FieldTerms, FieldWeights
  <2> HIDE DEF K, f, h
  <2> QED
    BY <2>1, <2>2
<1>3. (\A g : Sums(g) = SumsOf(K, f, g)) /\ \A g : Weights(g) = SumsOf(K, h, g)
  <2>1. \A x \in SUBSET K : x # {} => Pick(x) \in K
    BY DEF Pick
  <2>2. \A x \in SUBSET K : x # {} => /\ f[Pick(x)] = Chart!Weight(field[Pick(x)].lon) * field[Pick(x)].v
                                      /\ h[Pick(x)] = Chart!Weight(field[Pick(x)].lon)
    BY <1>2, <2>1
  <2> HIDE DEF K, f, h
  <2> QED
    BY <2>2 DEF SumsOf, Pick
<1>4. IsFiniteSet(K) /\ K \in SUBSET K
  OBVIOUS
<1> HIDE DEF Sums, Weights, K, f, h
<1>5. /\ \E g : g = SumsOf(K, f, g)
      /\ \A g : g = SumsOf(K, f, g) => g[K] = TotalOf(f, K)
  BY <1>2, <1>4, TotalIsTheSum
<1>6. /\ \E g : g = SumsOf(K, h, g)
      /\ \A g : g = SumsOf(K, h, g) => g[K] = TotalOf(h, K)
  BY <1>2, <1>4, TotalIsTheSum
<1>7. sums = Sums(sums) /\ weights = Weights(weights)
  BY <1>3, <1>5, <1>6
<1> HIDE DEF sums, weights
<1>8. sums[K] = TotalOf(f, K) /\ weights[K] = TotalOf(h, K)
  BY <1>3, <1>5, <1>6, <1>7
<1> QED
  BY <1>1, <1>2, <1>8 DEF K, f, h

LEMMA ColumnTerms ==
    ASSUME NEW s, Chart!IsScene(s), NEW l \in DOMAIN s.layers, NEW region
    PROVE  /\ IsFiniteSet(KnownAt(s, l, region))
           /\ Columns(s, region) \in SUBSET (1 .. Len(s.lons))
           /\ KnownAt(s, l, region) \in SUBSET Columns(s, region)
           /\ \A col \in Columns(s, region) : PlaceWeight(s, col) \in Nat \ {0}
           /\ \A col \in KnownAt(s, l, region) : MeanAt(s, l, col) \in Int /\ MeanAt(s, l, col) > -100
           /\ MeanTerms(s, l, region) \in [KnownAt(s, l, region) -> Int]
           /\ WeightTerms(s, l, region) \in [KnownAt(s, l, region) -> Nat \ {0}]
<1> DEFINE K == KnownAt(s, l, region)
           C == Columns(s, region)
           w(col) == PlaceWeight(s, col)
           v(col) == MeanAt(s, l, col)
<1>1. C \in SUBSET (1 .. Len(s.lons)) /\ K \in SUBSET C /\ \A col \in K : SeenAt(s, l, col) # {}
  BY DEF Columns, KnownAt
<1>2. IsFiniteSet(1 .. Len(s.lons))
  BY FS_Interval, ScenePlaces, 1 \in Int
<1>3. \A col \in C : w(col) \in Nat \ {0}
  BY <1>1, ScenePlaces, WeightsArePositive DEF PlaceWeight
<1>4. \A col \in K : v(col) \in Int /\ v(col) > -100
  BY <1>1, MeansAreValues
<1>5. /\ MeanTerms(s, l, region) = [col \in K |-> w(col) * v(col)]
      /\ WeightTerms(s, l, region) = [col \in K |-> w(col)]
  BY DEF MeanTerms, WeightTerms
<1> HIDE DEF K, C, w, v
<1>6. \A col \in K : w(col) \in Nat \ {0} /\ w(col) * v(col) \in Int
  BY <1>1, <1>3, <1>4
<1>7. IsFiniteSet(K)
  BY <1>1, <1>2, FS_Subset
<1> QED
  BY <1>1, <1>3, <1>4, <1>5, <1>6, <1>7 DEF K, C, w, v

LEMMA ShownCells ==
    ASSUME NEW s, NEW region, NEW cells, Shows(cells, s, region)
    PROVE  /\ Len(cells) \in Nat /\ DOMAIN cells = 1 .. Len(cells)
           /\ \A k \in 1 .. Len(cells) : /\ cells[k].kept \in BOOLEAN /\ cells[k].lon \in Int
                                         /\ cells[k].kept => cells[k].col \in 1 .. Len(s.lons)
<1>1. \A x \in ShownCell : x.kept \in BOOLEAN /\ x.lon \in Int
  BY DEF ShownCell
<1>2. cells \in Seq(ShownCell)
  BY DEF Shows
<1>3. /\ Len(cells) \in Nat /\ DOMAIN cells = 1 .. Len(cells)
      /\ \A k \in 1 .. Len(cells) : cells[k] \in ShownCell
  BY <1>2
<1>4. \A k \in 1 .. Len(cells) : cells[k].kept => cells[k].col \in 1 .. Len(s.lons)
  BY DEF Shows, Columns
<1> QED
  BY <1>1, <1>3, <1>4

\* The places of a field's values, by column.
LEMMA KnownPlaces ==
    ASSUME NEW s, Chart!IsScene(s), NEW l \in DOMAIN s.layers, NEW region,
           NEW cells, Shows(cells, s, region),
           NEW P, P = {k \in 1 .. Len(cells) : cells[k].kept /\ SeenAt(s, l, cells[k].col) # {}}
    PROVE  IsFiniteSet(P) /\ Renames([k \in P |-> cells[k].col], P, KnownAt(s, l, region))
<1> DEFINE n == Len(cells)
           C == Columns(s, region)
           K == KnownAt(s, l, region)
           m == [k \in P |-> cells[k].col]
<1>1. /\ n \in Nat
      /\ \A k \in 1 .. n : cells[k].kept => cells[k].col \in C
      /\ \A col \in C : \E k \in 1 .. n : cells[k].kept /\ cells[k].col = col
      /\ \A j, k \in 1 .. n : cells[j].kept /\ cells[k].kept /\ cells[j].col = cells[k].col => j = k
  BY ShownCells DEF Shows
<1>2. \A col : col \in K <=> col \in C /\ SeenAt(s, l, col) # {}
  BY DEF KnownAt
<1>3. IsFiniteSet(P)
  <2>1. IsFiniteSet(1 .. n)
    BY <1>1, FS_Interval, 1 \in Int
  <2> QED
    BY <2>1, FS_Subset
<1>4. m \in [P -> K]
  <2>1. \A k \in P : cells[k].col \in K
    BY <1>1, <1>2
  <2> QED
    BY <2>1
<1>5. \A x, y \in P : m[x] = m[y] => x = y
  BY <1>1
<1>6. \A z \in K : \E x \in P : m[x] = z
  BY <1>1, <1>2
<1> QED
  BY <1>3, <1>4, <1>5, <1>6 DEF Renames

\* Any strip of a region's cells has the same weighted mean and as many values.
LEMMA FieldMeans ==
    ASSUME NEW s, Chart!IsScene(s), NEW l \in DOMAIN s.layers, NEW region,
           NEW cells, Shows(cells, s, region)
    PROVE  LET field == Chart!Field(s, l, cells, "mean") IN
           /\ Chart!area_weighted_mean(field) = MeanOver(s, l, region)
           /\ Chart!Cardinality(Chart!Known(field)) = Cardinality(KnownAt(s, l, region))
<1> DEFINE n == Len(cells)
           F == Chart!Field(s, l, cells, "mean")
           K == KnownAt(s, l, region)
           P == {k \in 1 .. n : cells[k].kept /\ SeenAt(s, l, cells[k].col) # {}}
           m == [k \in P |-> cells[k].col]
<1>1. /\ DOMAIN cells = 1 .. n
      /\ \A k \in 1 .. n : /\ cells[k].kept \in BOOLEAN /\ cells[k].lon \in Int
                           /\ cells[k].kept => cells[k].col \in 1 .. Len(s.lons)
  BY ShownCells
<1>2. /\ DOMAIN F = 1 .. n
      /\ \A k \in 1 .. n : F[k].lon = cells[k].lon /\ F[k].v = Chart!Reduced(s, l, cells[k], "mean")
  BY <1>1 DEF Chart!Field
<1>3. \A k \in 1 .. n : F[k].v = IF cells[k].kept /\ SeenAt(s, l, cells[k].col) # {}
                                 THEN MeanAt(s, l, cells[k].col) ELSE -100
  <2> TAKE k \in 1 .. n
  <2> DEFINE cell == cells[k]
  <2>1. cell.kept \in BOOLEAN /\ (cell.kept => cell.col \in 1 .. Len(s.lons))
    BY <1>1
  <2>2. F[k].v = Chart!Reduced(s, l, cell, "mean")
    BY <1>2
  <2> HIDE DEF F, cell
  <2>3. ReadsMean(s, l, cell)
    BY <2>1, CellMeans
  <2> QED
    BY <2>2, <2>3 DEF cell, ReadsMean
<1>4. \A k \in P : /\ k \in 1 .. n /\ cells[k].col \in K /\ cells[k].lon = Chart!Place(s, cells[k].col)
                   /\ F[k].v = MeanAt(s, l, cells[k].col) /\ F[k].v \in Int /\ F[k].v # -100
  <2> TAKE k \in P
  <2> DEFINE col == cells[k].col
  <2>1. /\ k \in 1 .. n /\ cells[k].kept /\ SeenAt(s, l, col) # {}
        /\ col \in Columns(s, region) /\ cells[k].lon = Chart!Place(s, col)
    BY DEF Shows
  <2>2. F[k].v = MeanAt(s, l, col)
    BY <1>3, <2>1
  <2>3. col \in K
    BY <2>1 DEF KnownAt
  <2>4. MeanAt(s, l, col) \in Int /\ MeanAt(s, l, col) > -100
    BY <2>3, ColumnTerms
  <2> HIDE DEF F, K
  <2> QED
    BY <2>1, <2>2, <2>3, <2>4
<1>5. Chart!Known(F) = P
  <2>1. Chart!Known(F) = {k \in 1 .. n : F[k].v # -100}
    BY <1>2 DEF Chart!Known, Chart!NaN
  <2>2. \A k \in 1 .. n : k \notin P => F[k].v = -100
    BY <1>3
  <2>3. P \in SUBSET (1 .. n)
    OBVIOUS
  <2> HIDE DEF F, P
  <2> QED
    BY <1>4, <2>1, <2>2, <2>3
<1>6. IsFiniteSet(P) /\ Renames(m, P, K)
  BY KnownPlaces
<1> HIDE DEF F, P, K, n
<1>7. \A k \in P : F[k].v \in Int /\ F[k].lon \in Int
  BY <1>1, <1>2, <1>4
<1>8. /\ FieldTerms(F) \in [P -> Int] /\ FieldWeights(F) \in [P -> Int]
      /\ Chart!area_weighted_mean(F) = <<TotalOf(FieldTerms(F), P), TotalOf(FieldWeights(F), P)>>
  BY <1>5, <1>6, <1>7, FieldSums
<1>9. \A k \in P : /\ FieldTerms(F)[k] = MeanTerms(s, l, region)[m[k]]
                   /\ FieldWeights(F)[k] = WeightTerms(s, l, region)[m[k]]
  <2> TAKE k \in P
  <2> DEFINE col == cells[k].col
  <2>1. /\ FieldTerms(F)[k] = Chart!Weight(F[k].lon) * F[k].v
        /\ FieldWeights(F)[k] = Chart!Weight(F[k].lon)
    BY <1>5 DEF FieldTerms, FieldWeights
  <2>2. col \in K /\ m[k] = col /\ F[k].lon = Chart!Place(s, col) /\ F[k].v = MeanAt(s, l, col)
    BY <1>2, <1>4
  <2>3. /\ MeanTerms(s, l, region)[col] = PlaceWeight(s, col) * MeanAt(s, l, col)
        /\ WeightTerms(s, l, region)[col] = PlaceWeight(s, col)
    BY <2>2 DEF MeanTerms, WeightTerms, K
  <2>4. Chart!Weight(F[k].lon) = PlaceWeight(s, col)
    BY <2>2 DEF PlaceWeight
  <2> HIDE DEF m, col
  <2> QED
    BY <2>1, <2>2, <2>3, <2>4
<1>10. /\ MeanTerms(s, l, region) \in [K -> Int] /\ WeightTerms(s, l, region) \in [K -> Int]
       /\ P \in SUBSET P /\ K \in SUBSET K
  BY ColumnTerms DEF K
<1> HIDE DEF m
<1>11. /\ TotalOf(FieldTerms(F), P) = TotalOf(MeanTerms(s, l, region), K)
       /\ Cardinality(K) = Cardinality(P)
  BY <1>6, <1>8, <1>9, <1>10, TotalsMove
<1>12. TotalOf(FieldWeights(F), P) = TotalOf(WeightTerms(s, l, region), K)
  BY <1>6, <1>8, <1>9, <1>10, TotalsMove
<1>13. Chart!Cardinality(Chart!Known(F)) = Cardinality(K)
  BY <1>5, <1>11, ChartSame
<1> QED
  BY <1>8, <1>11, <1>12, <1>13 DEF MeanOver, F, K

-----------------------------------------------------------------------------
(* One instant of a scene. *)

At(s, t) == [s EXCEPT !.data = <<@[t]>>]

LEMMA SceneShape ==
    ASSUME NEW s, Chart!IsScene(s), NEW t \in 1 .. Len(s.data)
    PROVE  /\ At(s, t) = [lons |-> s.lons, layers |-> s.layers, data |-> <<s.data[t]>>]
           /\ At(s, t).lons = s.lons /\ At(s, t).layers = s.layers /\ At(s, t).data = <<s.data[t]>>
           /\ Len(s.data) = 1 => At(s, t) = s
<1>1. s = [lons |-> s.lons, layers |-> s.layers, data |-> s.data]
  BY DEF Chart!IsScene
<1>2. At(s, t) = [lons |-> s.lons, layers |-> s.layers, data |-> <<s.data[t]>>]
  <2> DEFINE x == <<s.data[t]>>
             lons == s.lons
             layers == s.layers
             data == s.data
  <2>1. At(s, t) = [s EXCEPT !.data = x]
    BY DEF At
  <2>2. s = [lons |-> lons, layers |-> layers, data |-> data]
    BY <1>1
  <2> HIDE DEF x, lons, layers, data
  <2>3. [[lons |-> lons, layers |-> layers, data |-> data] EXCEPT !.data = x]
        = [lons |-> lons, layers |-> layers, data |-> x]
    OBVIOUS
  <2>4. At(s, t) = [lons |-> lons, layers |-> layers, data |-> x]
    BY <2>1, <2>2, <2>3
  <2> QED
    BY <2>4 DEF x, lons, layers
<1>3. Len(s.data) = 1 => <<s.data[t]>> = s.data
  <2> DEFINE R == [DOMAIN s.layers -> [DOMAIN s.lons -> Int]]
  <2>1. s.data \in Seq(R)
    BY DEF Chart!IsScene
  <2> HIDE DEF R
  <2> QED
    BY <2>1
<1>4. At(s, t).lons = s.lons /\ At(s, t).layers = s.layers /\ At(s, t).data = <<s.data[t]>>
  BY <1>2
<1>5. Len(s.data) = 1 => At(s, t) = s
  BY <1>1, <1>2, <1>3
<1> QED
  BY <1>2, <1>4, <1>5

LEMMA InstantsAreScenes ==
    ASSUME NEW s, Chart!IsScene(s), NEW t \in 1 .. Len(s.data)
    PROVE  Chart!IsScene(At(s, t)) /\ Len(At(s, t).data) = 1 /\ At(s, t).data[1] = s.data[t]
<1> DEFINE a == At(s, t)
           R == [DOMAIN s.layers -> [DOMAIN s.lons -> Int]]
           n == Len(s.lons)
<1>1. /\ a = [lons |-> s.lons, layers |-> s.layers, data |-> <<s.data[t]>>]
      /\ a.lons = s.lons /\ a.layers = s.layers /\ a.data = <<s.data[t]>>
  BY SceneShape
<1>2. s.data \in Seq(R)
  BY DEF Chart!IsScene
<1>3. s.data[t] \in R
  <2> HIDE DEF R
  <2> QED
    BY <1>2
<1>4. a.data \in Seq(R) /\ Len(a.data) = 1 /\ a.data[1] = s.data[t] /\ DOMAIN a.data = {1}
  <2> HIDE DEF R, a
  <2> QED
    BY <1>1, <1>3
<1>5. \A l \in DOMAIN s.layers, col \in DOMAIN s.lons : Chart!IsObservation(s.data[t][l][col], 1)
  <2> TAKE l \in DOMAIN s.layers, col \in DOMAIN s.lons
  <2>1. DOMAIN s.lons = 1 .. n
    BY ScenePlaces
  <2> DEFINE v == s.data[t][l][col]
  <2>2. v \in Int /\ Chart!IsObservation(v, Len(s.data))
    BY <2>1, SceneData
  <2> HIDE DEF v
  <2>4. v % 1 = 0
    BY <2>2
  <2>3. Chart!IsObservation(v, 1)
    <3> DEFINE r == v % Len(s.data)
               q == v % 1
    <3>1. v = Chart!NaN \/ (v > Chart!NaN /\ r = 0)
      BY <2>2 DEF Chart!IsObservation
    <3>2. q = 0
      BY <2>4
    <3> HIDE DEF r, q
    <3>3. v = Chart!NaN \/ (v > Chart!NaN /\ q = 0)
      BY <3>1, <3>2
    <3> QED
      BY <3>3 DEF Chart!IsObservation, q
  <2> QED
    BY <2>3 DEF v
<1>6. \A u \in DOMAIN a.data, l \in DOMAIN a.layers, col \in DOMAIN a.lons :
         Chart!IsObservation(a.data[u][l][col], Len(a.data))
  <2> HIDE DEF a
  <2> QED
    BY <1>1, <1>4, <1>5
<1>7. a = [lons |-> a.lons, layers |-> a.layers, data |-> a.data]
  <2> HIDE DEF a
  <2> QED
    BY <1>1
<1>8. Chart!IsScene(a)
  <2> HIDE DEF a
  <2> QED
    BY <1>1, <1>4, <1>6, <1>7 DEF Chart!IsScene
<1> QED
  BY <1>4, <1>8

\* What one instant shows of a region.
LEMMA InstantTerms ==
    ASSUME NEW s, Chart!IsScene(s), NEW t \in 1 .. Len(s.data), NEW l \in DOMAIN s.layers, NEW region
    PROVE  LET a == At(s, t) IN
           /\ Columns(a, region) = Columns(s, region)
           /\ KnownAt(a, l, region) = {col \in Columns(s, region) : s.data[t][l][col] # -100}
           /\ \A col \in KnownAt(a, l, region) : MeanAt(a, l, col) = s.data[t][l][col]
           /\ \A col : PlaceWeight(a, col) = PlaceWeight(s, col) /\ Chart!Place(a, col) = Chart!Place(s, col)
<1> DEFINE a == At(s, t)
           v(col) == s.data[t][l][col]
<1>1. a.lons = s.lons /\ a.layers = s.layers /\ Len(a.data) = 1 /\ a.data[1] = s.data[t] /\ Chart!IsScene(a)
  BY SceneShape, InstantsAreScenes
<1> HIDE DEF a
<1>2. \A col : Chart!Place(a, col) = Chart!Place(s, col)
  BY <1>1 DEF Chart!Place
<1>3. Columns(a, region) = Columns(s, region)
  BY <1>1, <1>2 DEF Columns
<1>4. \A col : SeenAt(a, l, col) = IF v(col) # -100 THEN {1} ELSE {}
  <2> TAKE col
  <2>1. SeenAt(a, l, col) = {u \in {1} : a.data[u][l][col] # -100}
    BY <1>1 DEF SeenAt
  <2>2. a.data[1][l][col] = v(col)
    BY <1>1
  <2> HIDE DEF v
  <2> QED
    BY <2>1, <2>2
<1>5. KnownAt(a, l, region) = {col \in Columns(s, region) : v(col) # -100}
  <2>1. \A col : SeenAt(a, l, col) # {} <=> v(col) # -100
    <3> HIDE DEF v
    <3> QED
      BY <1>4
  <2> HIDE DEF v
  <2> QED
    BY <1>3, <2>1 DEF KnownAt
<1>6. \A col \in KnownAt(a, l, region) : MeanAt(a, l, col) = v(col)
  <2> TAKE col \in KnownAt(a, l, region)
  <2>1. SeenAt(a, l, col) = {1} /\ col \in 1 .. Len(a.lons)
    <3>1. SeenAt(a, l, col) # {} /\ col \in Columns(a, region)
      BY DEF KnownAt
    <3> QED
      BY <1>4, <3>1 DEF Columns
  <2> DEFINE f == Shown(a, l, col)
  <2>2. f \in [{1} -> Int] /\ f[1] = v(col) /\ f[1] \in Int
    <3>1. l \in DOMAIN a.layers /\ col \in 1 .. Len(a.lons) /\ Chart!IsScene(a)
      BY <1>1, <2>1
    <3>2. /\ f \in [SeenAt(a, l, col) -> Int]
          /\ \A u \in SeenAt(a, l, col) : f[u] = a.data[u][l][col] /\ f[u] \in Int
      BY <3>1, ColumnValues
    <3>3. f[1] = a.data[1][l][col] /\ f[1] \in Int /\ f \in [{1} -> Int]
      BY <2>1, <3>2
    <3> HIDE DEF f
    <3> QED
      BY <1>1, <3>3
  <2> HIDE DEF f, v
  <2>3. TotalOf(f, {1}) = f[1]
    <3>1. IsFiniteSet({1}) /\ {1} \in SUBSET {1} /\ 1 \in {1} /\ {1} \ {1} = {}
      BY FS_Singleton
    <3>2. TotalOf(f, {1}) = f[1] + TotalOf(f, {1} \ {1})
      BY <2>2, <3>1, TotalStep
    <3>3. TotalOf(f, {}) = 0
      BY <2>2, TotalOfNothing
    <3>4. TotalOf(f, {1}) = f[1] + 0
      BY <3>1, <3>2, <3>3
    <3> QED
      BY <2>2, <3>4
  <2>4. Cardinality({1}) = 1
    BY FS_Singleton
  <2>5. MeanAt(a, l, col) = f[1] \div 1
    BY <2>1, <2>3, <2>4 DEF MeanAt, f
  <2> QED
    BY <2>2, <2>5
<1>7. \A col : PlaceWeight(a, col) = PlaceWeight(s, col)
  BY <1>2 DEF PlaceWeight
<1> QED
  BY <1>2, <1>3, <1>5, <1>6, <1>7 DEF a

\* The mean of one instant over a region.
LEMMA InstantMeans ==
    ASSUME NEW s, Chart!IsScene(s), NEW t \in 1 .. Len(s.data), NEW l \in DOMAIN s.layers, NEW region,
           NEW cells, Shows(cells, s, region)
    PROVE  Chart!reduce_keeping_axes(s, l, cells, t) = MeanOver(At(s, t), l, region)
<1> DEFINE a == At(s, t)
<1>1. Chart!IsScene(a) /\ a.lons = s.lons /\ a.layers = s.layers
  BY SceneShape, InstantsAreScenes
<1>2. Chart!reduce_keeping_axes(s, l, cells, t) = Chart!area_weighted_mean(Chart!Field(a, l, cells, "mean"))
  BY DEF Chart!reduce_keeping_axes, At
<1>3. Columns(a, region) = Columns(s, region) /\ \A col : Chart!Place(a, col) = Chart!Place(s, col)
  BY InstantTerms
<1> HIDE DEF a
<1>4. Shows(cells, a, region)
  BY <1>3 DEF Shows
<1>5. l \in DOMAIN a.layers
  BY <1>1
<1> QED
  BY <1>1, <1>2, <1>4, <1>5, FieldMeans DEF a

\* A region has weight when something in it has a value.
LEMMA KnownWeights ==
    ASSUME NEW s, Chart!IsScene(s), NEW l \in DOMAIN s.layers, NEW region
    PROVE  LET K == KnownAt(s, l, region)
               B == TotalOf(WeightTerms(s, l, region), K)
           IN  /\ B \in Nat /\ (B > 0 <=> K # {}) /\ (K = {} => MeanOver(s, l, region) = <<0, 0>>)
               /\ TotalOf(MeanTerms(s, l, region), K) \in Int
<1> DEFINE K == KnownAt(s, l, region)
           f == WeightTerms(s, l, region)
           h == MeanTerms(s, l, region)
           B == TotalOf(f, K)
<1>1. IsFiniteSet(K) /\ f \in [K -> Nat \ {0}] /\ h \in [K -> Int] /\ K \in SUBSET K
  BY ColumnTerms
<1>2. MeanOver(s, l, region) = <<TotalOf(h, K), B>>
  BY DEF MeanOver
<1> HIDE DEF K, f, h
<1>3. f \in [K -> Nat] /\ f \in [K -> Int]
  BY <1>1
<1>4. B \in Nat /\ TotalOf(h, K) \in Int
  BY <1>1, <1>3, TotalsAreNatural, TotalIsWhole
<1>5. ASSUME K = {} PROVE B = 0 /\ TotalOf(h, K) = 0
  BY <1>1, <1>3, <1>5, TotalOfNothing
<1>6. ASSUME K # {} PROVE B > 0
  <2>1. PICK x \in K : TRUE
    BY <1>6
  <2>2. B = f[x] + TotalOf(f, K \ {x})
    BY <1>1, <1>3, TotalStep
  <2>3. 0 * f[x] + 1 <= 1 * f[x] /\ f[x] \in Nat /\ f[x] > 0
    BY <1>1
  <2>4. 0 * B + 1 * Cardinality(K) <= 1 * B
    <3>1. \A y \in K : 0 * f[y] + 1 <= 1 * f[y]
      BY <1>1
    <3>2. 0 \in Int /\ 1 \in Int
      OBVIOUS
    <3> QED
      BY <1>1, <1>3, <3>1, <3>2, TotalsCompare
  <2>5. Cardinality(K) \in Nat /\ Cardinality(K) # 0
    BY <1>1, <1>6, FS_CardinalityType, FS_EmptySet
  <2> QED
    BY <1>4, <2>4, <2>5
<1> HIDE DEF B
<1> QED
  BY <1>2, <1>4, <1>5, <1>6 DEF K, f, h, B

-----------------------------------------------------------------------------
(* The layer an answer is about. *)

Nearer(gap, l, m) == gap[l] < gap[m] \/ (gap[l] = gap[m] /\ l <= m)

LEMMA OneIsNearest ==
    ASSUME NEW S \in SUBSET Nat, IsFiniteSet(S), S # {}, NEW gap \in [S -> Int]
    PROVE  \E l \in S : \A m \in S : Nearer(gap, l, m)
<1> DEFINE gaps == {gap[l] : l \in S}
           least == {l \in S : gap[l] = Min(gaps)}
<1>1. gaps \in SUBSET Int /\ gaps # {}
  OBVIOUS
<1>2. IsFiniteSet(gaps)
  BY FiniteImage
<1>3. Min(gaps) \in gaps /\ \A x \in gaps : Min(gaps) <= x
  <2> HIDE DEF gaps
  <2> QED
    BY <1>1, <1>2, Extremes
<1>4. least \in SUBSET Nat /\ least # {}
  BY <1>3
<1>5. PICK l \in least : \A m \in least : l <= m
  <2> HIDE DEF least
  <2> QED
    BY <1>4, LeastNatural
<1>6. l \in S /\ gap[l] = Min(gaps)
  OBVIOUS
<1>7. \A m \in S : Nearer(gap, l, m)
  <2> TAKE m \in S
  <2>1. gap[m] \in Int /\ gap[l] \in Int /\ gap[l] <= gap[m]
    BY <1>3, <1>6
  <2>2. CASE gap[m] = gap[l]
    <3>1. m \in least
      BY <1>6, <2>2
    <3>2. l <= m
      BY <1>5, <3>1
    <3> QED
      BY <2>2, <3>2 DEF Nearer
  <2>3. CASE gap[m] # gap[l]
    BY <2>1, <2>3 DEF Nearer
  <2> QED
    BY <2>2, <2>3
<1> QED
  BY <1>6, <1>7

LEMMA LayersAreChosen ==
    ASSUME NEW layers \in Seq(Int), NEW selector \in Int
    PROVE  LET chosen == Chart!_normalize_to_2d(layers, selector) IN
           /\ chosen \in SUBSET DOMAIN layers
           /\ Len(layers) > 1 /\ selector = -100 => chosen = {}
           /\ \E x : chosen \in SUBSET {x}
           /\ \A l \in chosen : Len(layers) > 1 /\ layers[l] # -100 =>
                \A m \in DOMAIN layers : layers[m] # -100 =>
                    Chart!Abs(layers[l] - selector) <= Chart!Abs(layers[m] - selector)
<1> DEFINE finite == {l \in DOMAIN layers : layers[l] # -100}
           far(l) == Chart!Abs(layers[l] - selector)
           gap == [l \in finite |-> far(l)]
           nearest == CHOOSE l \in finite : \A m \in finite : far(l) < far(m) \/ (far(l) = far(m) /\ l <= m)
           out == selector < Chart!Min({layers[l] : l \in finite}) \/ selector > Chart!Max({layers[l] : l \in finite})
           at == {l \in DOMAIN layers : l = selector + 1}
           chosen == Chart!_normalize_to_2d(layers, selector)
<1>1. chosen = IF Len(layers) = 1 THEN {1}
               ELSE IF selector = -100 THEN {}
               ELSE IF finite = {} THEN at
               ELSE IF out THEN {} ELSE {nearest}
  BY Zenon DEF Chart!_normalize_to_2d, Chart!NaN, finite, far, nearest, out, at
<1>2. Len(layers) \in Nat /\ DOMAIN layers = 1 .. Len(layers) /\ \A l \in DOMAIN layers : layers[l] \in Int
  OBVIOUS
<1>3. \A l \in DOMAIN layers : far(l) \in Int
  <2> TAKE l \in DOMAIN layers
  <2> DEFINE x == layers[l]
  <2>1. x \in Int
    BY <1>2
  <2> HIDE DEF x
  <2>2. Chart!Abs(x - selector) \in Int
    BY <2>1 DEF Chart!Abs
  <2> QED
    BY <2>2 DEF x
<1>4. finite \in SUBSET DOMAIN layers /\ \A m \in DOMAIN layers : layers[m] # -100 => m \in finite
  OBVIOUS
<1>5. finite # {} => nearest \in finite /\ \A m \in finite : far(nearest) <= far(m)
  <2> SUFFICES ASSUME finite # {} PROVE nearest \in finite /\ \A m \in finite : far(nearest) <= far(m)
    OBVIOUS
  <2>1. IsFiniteSet(1 .. Len(layers))
    BY <1>2, FS_Interval, 1 \in Int
  <2> HIDE DEF finite
  <2>2. IsFiniteSet(finite) /\ finite \in SUBSET Nat
    BY <1>2, <1>4, <2>1, FS_Subset
  <2>3. gap \in [finite -> Int] /\ \A l \in finite : gap[l] = far(l) /\ far(l) \in Int
    <3> HIDE DEF far
    <3> QED
      BY <1>3, <1>4
  <2> HIDE DEF gap, far
  <2>4. PICK l \in finite : \A m \in finite : Nearer(gap, l, m)
    BY <2>2, <2>3, OneIsNearest
  <2>5. \A m \in finite : far(l) < far(m) \/ (far(l) = far(m) /\ l <= m)
    BY <2>3, <2>4 DEF Nearer
  <2>6. nearest \in finite /\ \A m \in finite : far(nearest) < far(m) \/ (far(nearest) = far(m) /\ nearest <= m)
    BY <2>5
  <2> HIDE DEF nearest
  <2> QED
    BY <2>3, <2>6
<1> HIDE DEF finite, nearest, out, gap
<1>6. \A l \in at : layers[l] # -100 => l \in finite
  BY <1>4
<1>7. at \in SUBSET DOMAIN layers /\ at \in SUBSET {selector + 1}
  OBVIOUS
<1> HIDE DEF at, chosen
<1>8. chosen \in SUBSET DOMAIN layers
  <2>1. Len(layers) = 1 => 1 \in DOMAIN layers
    BY <1>2
  <2> QED
    BY <1>1, <1>4, <1>5, <1>7, <2>1
<1>9. Len(layers) > 1 /\ selector = -100 => chosen = {}
  BY <1>1, <1>2
<1>10. \E x : chosen \in SUBSET {x}
  <2>1. chosen = {1} \/ chosen = {} \/ chosen = at \/ chosen = {nearest}
    BY <1>1
  <2>2. chosen \in SUBSET {1} \/ chosen \in SUBSET {selector + 1} \/ chosen \in SUBSET {nearest}
    BY <1>7, <2>1
  <2> QED
    BY <2>2
<1>11. ASSUME NEW l \in chosen, Len(layers) > 1, layers[l] # -100,
              NEW m \in DOMAIN layers, layers[m] # -100
       PROVE  far(l) <= far(m)
  <2>1. m \in finite
    BY <1>4, <1>11
  <2>2. l = nearest
    <3>1. chosen = {} \/ chosen = {nearest}
      BY <1>1, <1>2, <1>11, <2>1
    <3> QED
      BY <1>11, <3>1
  <2> HIDE DEF far
  <2> QED
    BY <1>5, <2>1, <2>2
<1> QED
  BY <1>8, <1>9, <1>10, <1>11 DEF chosen

LEMMA LayersAreAsked ==
    ASSUME NEW c, Chart!IsSceneCase(c)
    PROVE  Chart!LayersAreNotGuessed(c)
<1> DEFINE layers == c.scene.layers
           chosen == Chart!_normalize_to_2d(layers, c.selector)
<1>1. layers \in Seq(Int) /\ c.selector \in Int
  BY DEF Chart!IsSceneCase, Chart!IsScene
<1>2. /\ Len(layers) > 1 /\ c.selector = -100 => chosen = {}
      /\ \A l \in chosen : Len(layers) > 1 /\ layers[l] # -100 =>
           \A m \in DOMAIN layers : layers[m] # -100 =>
               Chart!Abs(layers[l] - c.selector) <= Chart!Abs(layers[m] - c.selector)
  BY <1>1, LayersAreChosen
<1>3. PICK x : chosen \in SUBSET {x}
  BY <1>1, LayersAreChosen
<1> HIDE DEF chosen
<1>4. Cardinality(chosen) <= 1
  <2>1. IsFiniteSet({x}) /\ Cardinality({x}) = 1
    BY FS_Singleton
  <2>2. Cardinality(chosen) \in Nat /\ Cardinality(chosen) <= Cardinality({x})
    BY <1>3, <2>1, FS_Subset, FS_CardinalityType
  <2> QED
    BY <2>1, <2>2
<1>5. Chart!Cardinality(chosen) <= 1
  BY <1>4, ChartSame
<1> QED
  BY <1>2, <1>5 DEF Chart!LayersAreNotGuessed, Chart!NaN, chosen, layers

-----------------------------------------------------------------------------
(* Sums scaled, and sums of sums. *)

IsTimes(x, k, y) == x = k * y
Scales(S, k, a, b) == \A x \in S : IsTimes(b[x], k, a[x])
LEMMA TotalsScale ==
    ASSUME NEW D, NEW a \in [D -> Int], NEW b \in [D -> Int], NEW S \in SUBSET D, IsFiniteSet(S),
           NEW k \in Int, Scales(S, k, a, b)
    PROVE  IsTimes(TotalOf(b, S), k, TotalOf(a, S))
<1>0. \A x \in S : b[x] = k * a[x]
  BY DEF Scales, IsTimes
<1>1. TotalOf(a, S) \in Int /\ TotalOf(b, S) \in Int /\ Cardinality(S) \in Nat
  BY TotalIsWhole, FS_CardinalityType
<1>2. k * TotalOf(a, S) + 0 * Cardinality(S) <= 1 * TotalOf(b, S)
  <2>1. \A x \in S : k * a[x] + 0 <= 1 * b[x]
    <3> TAKE x \in S
    <3>1. b[x] = k * a[x] /\ b[x] \in Int
      BY <1>0
    <3> DEFINE y == k * a[x]
               z == b[x]
    <3>2. z = y /\ z \in Int
      BY <3>1
    <3> HIDE DEF y, z
    <3>3. y + 0 <= 1 * z
      BY <3>2
    <3> QED
      BY <3>3 DEF y, z
  <2>2. 0 \in Int /\ 1 \in Int
    OBVIOUS
  <2> QED
    BY <2>1, <2>2, TotalsCompare
<1>3. 1 * TotalOf(b, S) + 0 * Cardinality(S) <= k * TotalOf(a, S)
  <2>1. \A x \in S : 1 * b[x] + 0 <= k * a[x]
    <3> TAKE x \in S
    <3>1. b[x] = k * a[x] /\ b[x] \in Int
      BY <1>0
    <3> DEFINE y == k * a[x]
               z == b[x]
    <3>2. z = y /\ z \in Int
      BY <3>1
    <3> HIDE DEF y, z
    <3>3. 1 * z + 0 <= y
      BY <3>2
    <3> QED
      BY <3>3 DEF y, z
  <2>2. 0 \in Int /\ 1 \in Int
    OBVIOUS
  <2> QED
    BY <2>1, <2>2, TotalsCompare
<1> DEFINE A == TotalOf(a, S)
           B == TotalOf(b, S)
           N == Cardinality(S)
           M == k * A
<1>4. A \in Int /\ B \in Int /\ N \in Nat /\ M \in Int
  <2> HIDE DEF A
  <2>1. A \in Int
    BY <1>1 DEF A
  <2>2. k * A \in Int
    BY <2>1
  <2> QED
    BY <1>1, <2>1, <2>2
<1>5. M + 0 * N <= 1 * B /\ 1 * B + 0 * N <= M
  BY <1>2, <1>3
<1> HIDE DEF A, B, N, M
<1>6. B = M
  BY <1>4, <1>5
<1> QED
  BY <1>6 DEF A, B, M, IsTimes

\* A sum is of the terms in the set, whatever others there are.
PartOf(f, S) == [x \in S |-> f[x]]
LEMMA TotalsOfAPart ==
    ASSUME NEW D, NEW f \in [D -> Int], NEW S \in SUBSET D, IsFiniteSet(S)
    PROVE  PartOf(f, S) \in [S -> Int] /\ TotalOf(PartOf(f, S), S) = TotalOf(f, S)
<1> DEFINE same == [x \in S |-> x]
           part == PartOf(f, S)
<1>1. Renames(same, S, S)
  BY DEF Renames
<1>2. part \in [S -> Int] /\ \A x \in S : part[x] = f[same[x]]
  BY DEF PartOf
<1>3. S \in SUBSET S
  OBVIOUS
<1> HIDE DEF same
<1> QED
  BY <1>1, <1>2, <1>3, TotalsMove

\* What each term has as a factor their sum has.
LEMMA TotalsDivide ==
    ASSUME NEW D, NEW f \in [D -> Int], NEW S \in SUBSET D, IsFiniteSet(S),
           NEW T \in Nat \ {0}, \A x \in S : f[x] % T = 0
    PROVE  T * (TotalOf(f, S) \div T) = TotalOf(f, S)
<1> DEFINE q == [x \in D |-> f[x] \div T]
           Q == TotalOf(q, S)
<1>1. \A y \in Int : /\ y \div T \in Int
                     /\ y % T = 0 => y = T * (y \div T)
  OBVIOUS
<1>2. q \in [D -> Int] /\ Scales(S, T, q, f)
  BY <1>1 DEF Scales, IsTimes
<1> HIDE DEF q
<1>3. TotalOf(f, S) = T * Q /\ Q \in Int
  <2>1. IsTimes(TotalOf(f, S), T, Q) /\ Q \in Int
    BY <1>2, TotalsScale, TotalIsWhole
  <2> QED
    BY <2>1 DEF IsTimes
<1> HIDE DEF Q
<1>4. T * Q \in Int /\ T * Q <= T * Q /\ T * Q < T * Q + T
  BY <1>3
<1>5. Q = (T * Q) \div T
  BY <1>3, <1>4, Division
<1> QED
  BY <1>3, <1>5

\* A table summed by rows or by columns.
Rows(f, S, C) == [t \in S |-> TotalOf(f[t], C)]
Column(f, S, col) == [t \in S |-> f[t][col]]
ColumnSums(f, S, C, x) == [col \in C |-> TotalOf(Column(f, S, col), x)]
LEMMA TotalsExchange ==
    ASSUME NEW S, IsFiniteSet(S), NEW C, IsFiniteSet(C), NEW f \in [S -> [C -> Int]]
    PROVE  /\ Rows(f, S, C) \in [S -> Int] /\ ColumnSums(f, S, C, S) \in [C -> Int]
           /\ TotalOf(Rows(f, S, C), S) = TotalOf(ColumnSums(f, S, C, S), C)
<1> DEFINE rows == Rows(f, S, C)
           sums(x) == ColumnSums(f, S, C, x)
           bad == {x \in SUBSET S : TotalOf(rows, x) # TotalOf(sums(x), C)}
<1>1. \A x \in SUBSET S : IsFiniteSet(x)
  BY FS_Subset
<1>2. \A t \in S : f[t] \in [C -> Int] /\ TotalOf(f[t], C) \in Int
  <2> TAKE t \in S
  <2>1. f[t] \in [C -> Int] /\ C \in SUBSET C
    OBVIOUS
  <2> QED
    BY <2>1, TotalIsWhole
<1>3. rows \in [S -> Int] /\ \A t \in S : rows[t] = TotalOf(f[t], C)
  BY <1>2 DEF Rows
<1>4. \A col \in C : Column(f, S, col) \in [S -> Int] /\ \A t \in S : Column(f, S, col)[t] = f[t][col]
  BY <1>2 DEF Column
<1>5. \A x \in SUBSET S : /\ sums(x) \in [C -> Int]
                          /\ \A col \in C : sums(x)[col] = TotalOf(Column(f, S, col), x)
  <2> TAKE x \in SUBSET S
  <2>1. \A col \in C : TotalOf(Column(f, S, col), x) \in Int
    BY <1>1, <1>4, TotalIsWhole
  <2> QED
    BY <2>1 DEF ColumnSums
<1> HIDE DEF rows, sums
<1>6. {} \notin bad
  <2>1. \A col \in C : sums({})[col] = 0
    BY <1>4, <1>5, TotalOfNothing
  <2>2. sums({}) \in [C -> Int] /\ C \in SUBSET C /\ 0 \in Int
    BY <1>5
  <2>3. TotalOf(sums({}), C) = 0 * Cardinality(C)
    BY <2>1, <2>2, TotalOfSame
  <2>4. TotalOf(rows, {}) = 0
    BY <1>3, TotalOfNothing
  <2>5. Cardinality(C) \in Nat
    BY FS_CardinalityType
  <2> QED
    BY <2>3, <2>4, <2>5
<1>7. ASSUME NEW x \in bad, x # {} PROVE \E t \in x : x \ {t} \in bad
  <2>1. PICK t \in x : TRUE
    BY <1>7
  <2> DEFINE r == x \ {t}
  <2>2. x \in SUBSET S /\ r \in SUBSET S /\ t \in S /\ TotalOf(rows, x) # TotalOf(sums(x), C)
    OBVIOUS
  <2> HIDE DEF bad
  <2>3. TotalOf(rows, x) = TotalOf(f[t], C) + TotalOf(rows, r)
    BY <1>1, <1>3, <2>1, <2>2, TotalStep
  <2>4. TotalOf(sums(x), C) = TotalOf(sums(r), C) + TotalOf(f[t], C)
    <3>1. \A col \in C : sums(x)[col] = sums(r)[col] + f[t][col]
      <4> TAKE col \in C
      <4> DEFINE k == Column(f, S, col)
      <4>1. k \in [S -> Int] /\ k[t] = f[t][col] /\ f[t][col] \in Int
        BY <1>2, <1>4, <2>2
      <4> HIDE DEF k
      <4>2. TotalOf(k, x) = k[t] + TotalOf(k, r) /\ TotalOf(k, r) \in Int
        <5>1. IsFiniteSet(x) /\ IsFiniteSet(r) /\ x \in SUBSET S /\ r \in SUBSET S /\ t \in x
          BY <1>1, <2>1, <2>2
        <5>2. TotalOf(k, x) = k[t] + TotalOf(k, r)
          BY <4>1, <5>1, TotalStep DEF r
        <5> HIDE DEF r
        <5>3. TotalOf(k, r) \in Int
          BY <4>1, <5>1, TotalIsWhole
        <5> QED
          BY <5>2, <5>3
      <4>3. sums(x)[col] = TotalOf(k, x) /\ sums(r)[col] = TotalOf(k, r)
        BY <1>5, <2>2 DEF k
      <4> QED
        BY <4>1, <4>2, <4>3
    <3>2. Adds(C, sums(r), f[t], sums(x))
      BY <3>1 DEF Adds
    <3>3. sums(r) \in [C -> Int] /\ sums(x) \in [C -> Int] /\ f[t] \in [C -> Int]
      BY <1>2, <1>5, <2>2
    <3> DEFINE a == sums(r)
               b == sums(x)
               e == f[t]
    <3>4. Adds(C, a, e, b) /\ a \in [C -> Int] /\ b \in [C -> Int] /\ e \in [C -> Int]
      BY <3>2, <3>3
    <3> HIDE DEF a, b, e
    <3>5. TotalOf(b, C) = TotalOf(a, C) + TotalOf(e, C)
      BY <3>4, TotalsAdd
    <3> QED
      BY <3>5 DEF a, b, e
  <2>5. TotalOf(rows, r) # TotalOf(sums(r), C)
    <3>1. TotalOf(f[t], C) \in Int /\ TotalOf(rows, r) \in Int
      BY <1>1, <1>2, <1>3, <2>2, TotalIsWhole
    <3> QED
      BY <2>2, <2>3, <2>4, <3>1
  <2> QED
    BY <2>1, <2>2, <2>5 DEF bad, r
<1>8. bad = {}
  <2>1. bad \in SUBSET SUBSET S
    OBVIOUS
  <2> HIDE DEF bad
  <2> QED
    BY <1>6, <1>7, <2>1, Shrinking
<1>9. TotalOf(rows, S) = TotalOf(sums(S), C)
  BY <1>8
<1> QED
  BY <1>3, <1>5, <1>9 DEF rows, sums

-----------------------------------------------------------------------------
(* Means added as fractions. *)

PairsOf(S, slices, g) ==
    [x \in SUBSET S |-> IF x = {} THEN <<0, 0>> ELSE Chart!Plus(slices[Pick(x)], g[x \ {Pick(x)}])]

LEMMA PlusIsAPair ==
    ASSUME NEW a \in Int \X Int, NEW b \in Int \X Int
    PROVE  Chart!Plus(a, b) \in Int \X Int
<1> DEFINE V == Int \X Int
<1>1. PICK a1, a2, b1, b2 \in Int : a = <<a1, a2>> /\ b = <<b1, b2>>
  OBVIOUS
<1>2. a1 * b2 + b1 * a2 \in Int /\ a2 * b2 \in Int
  BY <1>1
<1>3. <<a1 * b2 + b1 * a2, a2 * b2>> \in V
  BY <1>2
<1>4. Chart!Plus(a, b) = IF a2 = 0 THEN b ELSE IF b2 = 0 THEN a ELSE <<a1 * b2 + b1 * a2, a2 * b2>>
  BY <1>1 DEF Chart!Plus
<1>5. a \in V /\ b \in V
  OBVIOUS
<1> HIDE DEF V
<1>6. Chart!Plus(a, b) \in V
  BY <1>3, <1>4, <1>5
<1> QED
  BY <1>6 DEF V

LEMMA PairsExist ==
    ASSUME NEW S, IsFiniteSet(S), NEW slices \in [S -> Int \X Int]
    PROVE  \E g \in [SUBSET S -> Int \X Int] : g = PairsOf(S, slices, g)
<1> DEFINE X == SUBSET S
           V == Int \X Int
           stop == {{}}
           start == [s \in X |-> <<0, 0>>]
           F == [p \in X \X V |-> IF p[1] = {} THEN <<0, 0>> ELSE Chart!Plus(slices[Pick(p[1])], p[2])]
           size == [s \in X |-> Cardinality(s)]
           next == [s \in X |-> s \ {Pick(s)}]
<1>1. start \in [X -> V] /\ size \in [X -> Nat]
  BY FS_Subset, FS_CardinalityType
<1>2. \A a, b \in V : Chart!Plus(a, b) \in V
  BY PlusIsAPair
<1>3. F \in [X \X V -> V]
  <2>1. \A p \in X \X V : p[1] # {} => slices[Pick(p[1])] \in V /\ p[2] \in V
    BY DEF Pick
  <2>2. <<0, 0>> \in V
    OBVIOUS
  <2> HIDE DEF V, X
  <2>3. \A p \in X \X V : (IF p[1] = {} THEN <<0, 0>> ELSE Chart!Plus(slices[Pick(p[1])], p[2])) \in V
    BY <1>2, <2>1, <2>2
  <2> QED
    BY <2>3
<1>4. \A s \in X \ stop : next[s] \in X /\ size[next[s]] < size[s]
  BY PickLaws
<1>5. \A s \in X, v \in V : s # {} => F[<<s, v>>] = Chart!Plus(slices[Pick(s)], v)
  <2> HIDE DEF V, X
  <2> QED
    OBVIOUS
<1>6. \A s \in X : s # {} => next[s] = s \ {Pick(s)} /\ next[s] \in X
  OBVIOUS
<1>7. \A s : s \in stop <=> s = {}
  OBVIOUS
<1>8. \A s \in X : start[s] = <<0, 0>>
  OBVIOUS
<1> HIDE DEF start, F, size, next, stop, V
<1>9. PICK h \in [X -> V] : h = Recursion(X, stop, start, F, next, h)
  <2>1. HasResults(X, V, stop, start, F, next)
    <3> HIDE DEF X
    <3> QED
      BY <1>1, <1>3, <1>4, RecursionsExist
  <2> QED
    BY <2>1 DEF HasResults
<1>10. \A s \in X : h[s] = IF s = {} THEN <<0, 0>> ELSE Chart!Plus(slices[Pick(s)], h[s \ {Pick(s)}])
  <2> TAKE s \in X
  <2>1. h[s] = IF s \in stop THEN start[s] ELSE F[<<s, h[next[s]]>>]
    BY <1>9 DEF Recursion
  <2>2. CASE s = {}
    BY <1>7, <1>8, <2>1, <2>2
  <2>3. CASE s # {}
    <3>1. h[next[s]] \in V /\ h[s] = F[<<s, h[next[s]]>>]
      BY <1>6, <1>7, <1>9, <2>1, <2>3
    <3>2. h[s] = Chart!Plus(slices[Pick(s)], h[next[s]])
      BY <1>5, <2>3, <3>1
    <3> QED
      BY <1>6, <2>3, <3>2
  <2> QED
    BY <2>2, <2>3
<1>11. h = PairsOf(S, slices, h)
  <2>1. h = [s \in X |-> h[s]]
    BY <1>9
  <2> DEFINE e(s) == IF s = {} THEN <<0, 0>> ELSE Chart!Plus(slices[Pick(s)], h[s \ {Pick(s)}])
  <2>2. \A s \in X : h[s] = e(s)
    BY <1>10
  <2>3. PairsOf(S, slices, h) = [s \in X |-> e(s)]
    BY Zenon DEF PairsOf, e, X
  <2> HIDE DEF e, X
  <2> QED
    BY <2>1, <2>2, <2>3
<1> QED
  BY <1>11 DEF X, V

LEMMA PairsArePairs ==
    ASSUME NEW S, IsFiniteSet(S), NEW slices \in [S -> Int \X Int], NEW g, g = PairsOf(S, slices, g)
    PROVE  g \in [SUBSET S -> Int \X Int]
<1> DEFINE V == Int \X Int
           bad == {x \in SUBSET S : g[x] \notin V}
<1>1. \A x \in SUBSET S : /\ x # {} => Pick(x) \in x /\ x \ {Pick(x)} \in SUBSET S /\ slices[Pick(x)] \in V
                          /\ g[x] = IF x = {} THEN <<0, 0>>
                                    ELSE Chart!Plus(slices[Pick(x)], g[x \ {Pick(x)}])
  BY DEF PairsOf, Pick
<1>2. {} \notin bad
  <2>1. <<0, 0>> \in V
    OBVIOUS
  <2> HIDE DEF V
  <2> QED
    BY <1>1, <2>1
<1>3. \A x \in bad : x # {} => \E y \in x : x \ {y} \in bad
  <2> SUFFICES ASSUME NEW x \in bad, x # {} PROVE x \ {Pick(x)} \in bad
    BY <1>1
  <2> DEFINE r == x \ {Pick(x)}
  <2>1. /\ x \in SUBSET S /\ r \in SUBSET S /\ slices[Pick(x)] \in V
        /\ g[x] = Chart!Plus(slices[Pick(x)], g[r]) /\ g[x] \notin V
    BY <1>1
  <2>2. g[r] \notin V
    BY <2>1, PlusIsAPair
  <2> QED
    BY <2>1, <2>2
<1>4. bad = {}
  <2>1. bad \in SUBSET SUBSET S
    OBVIOUS
  <2> HIDE DEF bad
  <2> QED
    BY <1>2, <1>3, <2>1, Shrinking
<1>5. DOMAIN g = SUBSET S /\ g = [x \in SUBSET S |-> g[x]]
  <2> DEFINE e(x) == IF x = {} THEN <<0, 0>> ELSE Chart!Plus(slices[Pick(x)], g[x \ {Pick(x)}])
  <2>1. g = [x \in SUBSET S |-> e(x)]
    BY Zenon DEF PairsOf, e
  <2> HIDE DEF e
  <2> QED
    BY <2>1
<1>6. \A x \in SUBSET S : g[x] \in V
  BY <1>4
<1> HIDE DEF V
<1>7. g \in [SUBSET S -> V]
  BY <1>5, <1>6
<1> QED
  BY <1>7 DEF V

\* Fractions of one denominator add up to the sum of their numerators over it.
OfOneWeight(S, slices, A, B) == \A t \in S : slices[t] = <<A[t], B>>
AreInProportion(a, b, c, d) == a \in Int /\ b \in Nat \ {0} /\ a * c = b * d
LEMMA FractionsAdd ==
    ASSUME NEW S, IsFiniteSet(S), S # {}, NEW A \in [S -> Int], NEW B \in Nat \ {0},
           NEW slices, OfOneWeight(S, slices, A, B),
           NEW g \in [SUBSET S -> Int \X Int], g = PairsOf(S, slices, g)
    PROVE  AreInProportion(g[S][1], g[S][2], B, TotalOf(A, S))
<1> DEFINE good(x) == g[x][2] > 0 /\ g[x][1] * B = g[x][2] * TotalOf(A, x)
           bad == {x \in SUBSET S : x # {} /\ ~good(x)}
<1>1. \A x \in SUBSET S : IsFiniteSet(x) /\ TotalOf(A, x) \in Int
  <2>1. \A x \in SUBSET S : IsFiniteSet(x)
    BY FS_Subset
  <2> QED
    BY <2>1, TotalIsWhole
<1>2. \A x \in SUBSET S : /\ x # {} => Pick(x) \in x /\ x \ {Pick(x)} \in SUBSET S
                          /\ g[x] = IF x = {} THEN <<0, 0>>
                                    ELSE Chart!Plus(slices[Pick(x)], g[x \ {Pick(x)}])
  BY DEF PairsOf, Pick
<1>3. \A x \in SUBSET S : g[x][1] \in Int /\ g[x][2] \in Int
  OBVIOUS
<1>4. ASSUME NEW x \in bad PROVE x \ {Pick(x)} \in bad
  <2> DEFINE t == Pick(x)
             r == x \ {t}
             a == A[t]
             p == g[r][1]
             q == g[r][2]
             sum == TotalOf(A, r)
  <2>1. x \in SUBSET S /\ x # {} /\ ~good(x)
    OBVIOUS
  <2>2. t \in S /\ t \in x /\ r \in SUBSET S
    BY <1>2, <2>1
  <2>3. a \in Int /\ p \in Int /\ q \in Int /\ sum \in Int /\ B \in Int /\ B > 0
    BY <1>1, <1>3, <2>2
  <2>4. TotalOf(A, x) = a + sum
    BY <1>1, <2>1, <2>2, TotalStep
  <2>5. g[x] = Chart!Plus(<<a, B>>, g[r])
    BY <1>2, <2>1, <2>2 DEF OfOneWeight
  <2>6. g[x] = IF q = 0 THEN <<a, B>> ELSE <<a * q + p * B, B * q>>
    <3>1. g[x] = IF B = 0 THEN g[r] ELSE IF q = 0 THEN <<a, B>> ELSE <<a * q + p * B, B * q>>
      BY <2>5 DEF Chart!Plus
    <3> HIDE DEF a, p, q, r, sum
    <3> QED
      BY <2>3, <3>1
  <2>7. r # {}
    <3> SUFFICES ASSUME r = {} PROVE FALSE
      OBVIOUS
    <3>1. q = 0
      <4>1. g[{}] = <<0, 0>>
        BY <1>2
      <4>2. g[r] = g[{}]
        OBVIOUS
      <4> HIDE DEF r
      <4> QED
        BY <4>1, <4>2
    <3>2. sum = 0
      BY TotalOfNothing
    <3>3. g[x][1] = a /\ g[x][2] = B
      BY <2>6, <3>1
    <3>4. TotalOf(A, x) = a
      <4> HIDE DEF a, sum
      <4> QED
        BY <2>3, <2>4, <3>2
    <3>5. a * B = B * a
      <4> HIDE DEF a
      <4> QED
        BY <2>3
    <3>6. good(x)
      BY <2>3, <3>3, <3>4, <3>5
    <3> QED
      BY <2>1, <3>6
  <2>8. ~good(r)
    <3> SUFFICES ASSUME good(r) PROVE FALSE
      OBVIOUS
    <3>1. q > 0 /\ p * B = q * sum
      OBVIOUS
    <3>2. g[x][1] = a * q + p * B /\ g[x][2] = B * q
      <4> HIDE DEF a, p, q, r, sum
      <4>1. g[x] = <<a * q + p * B, B * q>>
        BY <2>3, <2>6, <3>1
      <4> QED
        BY <4>1
    <3>3. B * q > 0
      <4> HIDE DEF q
      <4> QED
        BY <2>3, <3>1
    <3>4. (a * q + p * B) * B = (B * q) * (a + sum)
      <4> HIDE DEF a, p, q, sum
      <4>1. (a * q + p * B) * B = (a * q + q * sum) * B
        BY <3>1
      <4>2. (a * q + q * sum) * B = (B * q) * (a + sum)
        BY <2>3
      <4> QED
        BY <4>1, <4>2
    <3>5. good(x)
      BY <2>4, <3>2, <3>3, <3>4
    <3> QED
      BY <2>1, <3>5
  <2> HIDE DEF good
  <2>9. r \in bad
    BY <2>2, <2>7, <2>8
  <2> QED
    BY <2>9
<1>5. bad = {}
  <2>1. bad \in SUBSET SUBSET S /\ {} \notin bad /\ \A x \in bad : Pick(x) \in x
    BY <1>2
  <2> HIDE DEF bad
  <2>2. \A x \in bad : x # {} => \E y \in x : x \ {y} \in bad
    BY <1>4, <2>1
  <2> QED
    BY <2>1, <2>2, Shrinking
<1>6. good(S)
  <2> HIDE DEF good
  <2> QED
    BY <1>5
<1> QED
  BY <1>3, <1>6 DEF AreInProportion

-----------------------------------------------------------------------------
(* The numbers of one scene. *)

SliceMeans(s, l, cells) == [t \in 1 .. Len(s.data) |-> Chart!reduce_keeping_axes(s, l, cells, t)]
SeenIn(s, l, cells) == {t \in 1 .. Len(s.data) : Chart!reduce_keeping_axes(s, l, cells, t)[2] > 0}

\* The layer's part of a profile is a sum of the means of the instants it was seen at.
IsTheSum(s, l, cells) ==
    LET seen == SeenIn(s, l, cells) IN
    \E g \in [SUBSET seen -> Int \X Int] :
       /\ g = PairsOf(seen, SliceMeans(s, l, cells), g)
       /\ Chart!Profile(s, cells)[l] = <<g[seen][1], g[seen][2] * Cardinality(seen)>>

LEMMA ProfileSums ==
    ASSUME NEW s, Chart!IsScene(s), NEW l \in DOMAIN s.layers, NEW cells,
           \A t \in 1 .. Len(s.data) : Chart!reduce_keeping_axes(s, l, cells, t) \in Int \X Int
    PROVE  IsTheSum(s, l, cells)
<1> DEFINE slice(t, layer) == Chart!reduce_keeping_axes(s, layer, cells, t)
           over(layer) == {t \in DOMAIN s.data : slice(t, layer)[2] > 0}
           Sums(layer, g) == [x \in SUBSET over(layer) |->
                                 IF x = {} THEN <<0, 0>>
                                 ELSE LET t == CHOOSE t \in x : TRUE
                                      IN Chart!Plus(slice(t, layer), g[x \ {t}])]
           sums(layer) == CHOOSE g : g = Sums(layer, g)
           sum(layer) == sums(layer)[over(layer)]
           e(layer) == <<sum(layer)[1], sum(layer)[2] * Chart!Cardinality(over(layer))>>
           seen == SeenIn(s, l, cells)
           slices == SliceMeans(s, l, cells)
<1>1. Chart!Profile(s, cells) = [layer \in DOMAIN s.layers |-> e(layer)]
  BY Zenon DEF Chart!Profile, Chart!FoldSet, Chart!MapThenFoldSet, e, sum, sums, Sums, over, slice
<1>2. Chart!Profile(s, cells)[l] = e(l)
  <2> HIDE DEF e
  <2> QED
    BY <1>1
<1>3. over(l) = seen
  BY SceneData DEF SeenIn
<1>4. \A g : Sums(l, g) = PairsOf(seen, slices, g)
  <2>1. \A x \in SUBSET seen : x # {} => slices[Pick(x)] = slice(Pick(x), l)
    <3>1. \A x \in SUBSET seen : x # {} => Pick(x) \in 1 .. Len(s.data)
      BY DEF Pick, SeenIn
    <3> QED
      BY <3>1 DEF SliceMeans
  <2> HIDE DEF slices, seen, slice, over
  <2> QED
    BY <1>3, <2>1 DEF PairsOf, Pick
<1>5. IsFiniteSet(seen)
  <2>1. IsFiniteSet(1 .. Len(s.data))
    <3>1. Len(s.data) \in Nat
      BY SceneData
    <3> QED
      BY <3>1, FS_Interval, 1 \in Int
  <2> QED
    BY <2>1, FS_Subset DEF SeenIn
<1> DEFINE part == [t \in seen |-> slices[t]]
<1>6. part \in [seen -> Int \X Int] /\ \A t \in seen : part[t] = slices[t]
  BY DEF SliceMeans, SeenIn
<1>7. \A g : PairsOf(seen, part, g) = PairsOf(seen, slices, g)
  <2>1. \A x \in SUBSET seen : x # {} => part[Pick(x)] = slices[Pick(x)]
    BY <1>6 DEF Pick
  <2> HIDE DEF part, slices, seen
  <2> QED
    BY <2>1 DEF PairsOf
<1> HIDE DEF part, slices, seen
<1>8. \E g : g = PairsOf(seen, part, g)
  BY <1>5, <1>6, PairsExist
<1>9. sums(l) = Sums(l, sums(l))
  <2> HIDE DEF Sums
  <2> QED
    BY <1>4, <1>7, <1>8
<1> HIDE DEF sums, Sums
<1>10. sums(l) = PairsOf(seen, slices, sums(l)) /\ sums(l) = PairsOf(seen, part, sums(l))
  BY <1>4, <1>7, <1>9
<1>11. sums(l) \in [SUBSET seen -> Int \X Int]
  BY <1>5, <1>6, <1>10, PairsArePairs
<1>12. e(l) = <<sums(l)[seen][1], sums(l)[seen][2] * Cardinality(seen)>>
  <2>1. Chart!Cardinality(seen) = Cardinality(seen)
    BY ChartSame
  <2> HIDE DEF over
  <2> QED
    BY <1>3, <2>1
<1> HIDE DEF e
<1> QED
  BY <1>2, <1>10, <1>11, <1>12 DEF seen, slices, IsTheSum

\* The mean of one instant: its numerator and its weight.
Numerators(s, l, region) == [t \in 1 .. Len(s.data) |-> MeanOver(At(s, t), l, region)[1]]

LEMMA InstantPairs ==
    ASSUME NEW s, Chart!IsScene(s), NEW l \in DOMAIN s.layers, NEW region, NEW t \in 1 .. Len(s.data)
    PROVE  LET mean == MeanOver(At(s, t), l, region) IN
           /\ mean = <<mean[1], mean[2]>> /\ mean[1] \in Int /\ mean[2] \in Nat
           /\ mean[2] > 0 <=> KnownAt(At(s, t), l, region) # {}
<1>1. Chart!IsScene(At(s, t)) /\ l \in DOMAIN At(s, t).layers
  BY InstantsAreScenes, SceneShape
<1> DEFINE a == At(s, t)
           K == KnownAt(a, l, region)
           B == TotalOf(WeightTerms(a, l, region), K)
           A == TotalOf(MeanTerms(a, l, region), K)
<1>2. B \in Nat /\ (B > 0 <=> K # {}) /\ A \in Int
  BY <1>1, KnownWeights
<1>3. MeanOver(a, l, region) = <<A, B>>
  BY DEF MeanOver
<1> HIDE DEF A, B, K, a
<1>4. MeanOver(a, l, region)[1] = A /\ MeanOver(a, l, region)[2] = B
  BY <1>3
<1> QED
  BY <1>2, <1>3, <1>4 DEF K, a

\* The numerators of the instants something was seen at.
LEMMA NumeratorParts ==
    ASSUME NEW s, Chart!IsScene(s), NEW l \in DOMAIN s.layers, NEW region, NEW seen \in SUBSET (1 .. Len(s.data))
    PROVE  LET A == Numerators(s, l, region) IN
           /\ IsFiniteSet(seen) /\ A \in [1 .. Len(s.data) -> Int]
           /\ PartOf(A, seen) \in [seen -> Int] /\ TotalOf(PartOf(A, seen), seen) = TotalOf(A, seen)
<1> DEFINE A == Numerators(s, l, region)
           D == 1 .. Len(s.data)
           S == seen
<1>1. IsFiniteSet(S)
  <2>1. IsFiniteSet(D)
    <3>1. Len(s.data) \in Nat
      BY SceneData
    <3> QED
      BY <3>1, FS_Interval, 1 \in Int
  <2> QED
    BY <2>1, FS_Subset
<1>2. A \in [D -> Int]
  <2>1. \A t \in D : MeanOver(At(s, t), l, region)[1] \in Int
    BY InstantPairs
  <2> QED
    BY <2>1 DEF Numerators
<1>3. S \in SUBSET D
  OBVIOUS
<1> HIDE DEF A, D, S
<1>4. PartOf(A, S) \in [S -> Int] /\ TotalOf(PartOf(A, S), S) = TotalOf(A, S)
  BY <1>1, <1>2, <1>3, TotalsOfAPart
<1> QED
  BY <1>1, <1>2, <1>4 DEF A, D, S

\* A profile averages means of one weight.
LEMMA ProfilesAverage ==
    ASSUME NEW s, Chart!IsScene(s), NEW l \in DOMAIN s.layers, NEW region,
           NEW cells, Shows(cells, s, region), NEW M \in Int, NEW B \in Nat,
           NEW seen, seen = {t \in 1 .. Len(s.data) : MeanOver(At(s, t), l, region)[2] > 0},
           \A t \in seen : MeanOver(At(s, t), l, region)[2] = B,
           seen = {} <=> B = 0, B = 0 => M = 0,
           TotalOf(Numerators(s, l, region), seen) = M * Cardinality(seen)
    PROVE  Chart!Same(Chart!Profile(s, cells)[l], <<M, B>>)
<1> DEFINE T == Len(s.data)
           mean(t) == MeanOver(At(s, t), l, region)
           slices == SliceMeans(s, l, cells)
           A == Numerators(s, l, region)
           N == Cardinality(seen)
           P == Chart!Profile(s, cells)[l]
<1>1. \A t \in 1 .. T : /\ Chart!reduce_keeping_axes(s, l, cells, t) = mean(t)
                        /\ mean(t) = <<mean(t)[1], mean(t)[2]>> /\ mean(t)[1] \in Int /\ mean(t)[2] \in Int
  BY InstantMeans, InstantPairs
<1>2. \A t \in 1 .. T : mean(t) \in Int \X Int
  BY <1>1
<1>3. SeenIn(s, l, cells) = seen
  BY <1>1 DEF SeenIn
<1>4. PICK g \in [SUBSET seen -> Int \X Int] :
         /\ g = PairsOf(seen, slices, g) /\ P = <<g[seen][1], g[seen][2] * N>>
  <2>1. \A t \in 1 .. T : Chart!reduce_keeping_axes(s, l, cells, t) \in Int \X Int
    BY <1>1, <1>2
  <2>2. IsTheSum(s, l, cells)
    BY <2>1, ProfileSums
  <2> QED
    BY <1>3, <2>2 DEF IsTheSum
<1>5. IsFiniteSet(seen) /\ seen \in SUBSET (1 .. T)
  <2>1. IsFiniteSet(1 .. T)
    BY SceneData, FS_Interval, 1 \in Int
  <2> QED
    BY <2>1, FS_Subset
<1>6. CASE B = 0
  <2>1. seen = {} /\ M = 0 /\ N = 0
    BY <1>6, FS_EmptySet
  <2>2. g[{}] = <<0, 0>>
    BY <1>4, <2>1 DEF PairsOf
  <2>3. P = <<0, 0 * 0>>
    <3> HIDE DEF P, N, slices, A
    <3>1. g[seen] = <<0, 0>>
      BY <2>1, <2>2
    <3>2. g[seen][1] = 0 /\ g[seen][2] = 0
      BY <3>1
    <3> QED
      BY <1>4, <2>1, <3>2
  <2> HIDE DEF P
  <2>4. Chart!Same(P, <<M, B>>)
    BY <1>6, <2>1, <2>3 DEF Chart!Same
  <2> QED
    BY <2>4 DEF P
<1>7. CASE B # 0
  <2> DEFINE part == PartOf(A, seen)
  <2>1. seen # {} /\ B \in Nat \ {0} /\ N \in Nat \ {0}
    BY <1>5, <1>7, FS_CardinalityType, FS_EmptySet
  <2>2. A \in [1 .. T -> Int] /\ \A t \in seen : slices[t] = <<A[t], B>>
    BY <1>1, <1>5 DEF Numerators, SliceMeans
  <2>3. part \in [seen -> Int] /\ \A t \in seen : part[t] = A[t]
    <3> HIDE DEF A
    <3> QED
      BY <1>5, <2>2 DEF PartOf
  <2> HIDE DEF A, slices
  <2>4. TotalOf(part, seen) = TotalOf(A, seen)
    BY <1>5, NumeratorParts DEF A
  <2>5. OfOneWeight(seen, slices, part, B)
    BY <2>2, <2>3 DEF OfOneWeight
  <2> DEFINE p == g[seen][1]
             q == g[seen][2]
             sum == TotalOf(part, seen)
  <2> HIDE DEF part
  <2>6. p \in Int /\ q \in Nat \ {0} /\ p * B = q * sum
    <3>1. AreInProportion(p, q, B, sum)
      BY <1>4, <1>5, <2>1, <2>3, <2>5, FractionsAdd
    <3> QED
      BY <3>1 DEF AreInProportion
  <2>7. sum = M * N
    BY <2>4 DEF A
  <2>8. P = <<p, q * N>>
    BY <1>4
  <2> HIDE DEF p, q, sum, N, P
  <2>9. p * B = M * (q * N)
    <3>1. q * (M * N) = M * (q * N)
      BY <2>1, <2>6
    <3> QED
      BY <2>6, <2>7, <3>1
  <2>10. q * N # 0
    BY <2>1, <2>6
  <2>11. Chart!Same(P, <<M, B>>)
    BY <1>7, <2>8, <2>9, <2>10 DEF Chart!Same
  <2> QED
    BY <2>11 DEF P
<1> QED
  BY <1>6, <1>7

\* A layer with a value everywhere, always.
IsWhole(s, l) == \A t \in 1 .. Len(s.data), col \in 1 .. Len(s.lons) : s.data[t][l][col] # -100

LEMMA WholeTerms ==
    ASSUME NEW s, Chart!IsScene(s), NEW l \in DOMAIN s.layers, NEW region,
           Len(s.data) # 0, IsWhole(s, l)
    PROVE  LET K == KnownAt(s, l, region) IN
           /\ K = Columns(s, region)
           /\ \A col \in K : SeenAt(s, l, col) = 1 .. Len(s.data)
           /\ \A t \in 1 .. Len(s.data) :
                 /\ KnownAt(At(s, t), l, region) = K
                 /\ WeightTerms(At(s, t), l, region) = WeightTerms(s, l, region)
                 /\ \A col \in K : MeanTerms(At(s, t), l, region)[col] = PlaceWeight(s, col) * s.data[t][l][col]
<1> DEFINE T == Len(s.data)
           C == Columns(s, region)
           K == KnownAt(s, l, region)
<1>1. T \in Nat /\ 1 \in 1 .. T /\ C \in SUBSET (1 .. Len(s.lons))
  BY SceneData DEF Columns
<1>2. \A col \in C : SeenAt(s, l, col) = 1 .. T
  BY <1>1 DEF SeenAt, IsWhole
<1>3. K = C
  <2>1. \A col \in C : SeenAt(s, l, col) # {}
    BY <1>1, <1>2
  <2> QED
    BY <2>1 DEF KnownAt
<1>4. ASSUME NEW t \in 1 .. T
      PROVE  /\ KnownAt(At(s, t), l, region) = K
             /\ WeightTerms(At(s, t), l, region) = WeightTerms(s, l, region)
             /\ \A col \in K : MeanTerms(At(s, t), l, region)[col] = PlaceWeight(s, col) * s.data[t][l][col]
  <2> DEFINE a == At(s, t)
  <2>1. /\ KnownAt(a, l, region) = {col \in C : s.data[t][l][col] # -100}
        /\ \A col \in KnownAt(a, l, region) : MeanAt(a, l, col) = s.data[t][l][col]
        /\ \A col : PlaceWeight(a, col) = PlaceWeight(s, col)
    BY InstantTerms
  <2>2. KnownAt(a, l, region) = K
    <3>1. \A col \in C : s.data[t][l][col] # -100
      BY <1>1 DEF IsWhole
    <3> HIDE DEF C, K, a
    <3> QED
      BY <1>3, <2>1, <3>1
  <2>3. WeightTerms(a, l, region) = WeightTerms(s, l, region)
    <3>1. /\ WeightTerms(a, l, region) = [col \in KnownAt(a, l, region) |-> PlaceWeight(a, col)]
          /\ WeightTerms(s, l, region) = [col \in K |-> PlaceWeight(s, col)]
      BY DEF WeightTerms
    <3> HIDE DEF K, a
    <3> QED
      BY <2>1, <2>2, <3>1
  <2>4. \A col \in K : MeanTerms(a, l, region)[col] = PlaceWeight(s, col) * s.data[t][l][col]
    <3> TAKE col \in K
    <3>1. MeanTerms(a, l, region) = [x \in KnownAt(a, l, region) |-> PlaceWeight(a, x) * MeanAt(a, l, x)]
      BY DEF MeanTerms
    <3> HIDE DEF K, a
    <3>2. MeanTerms(a, l, region)[col] = PlaceWeight(a, col) * MeanAt(a, l, col)
      BY <2>2, <3>1
    <3> QED
      BY <2>1, <2>2, <3>2
  <2> QED
    BY <2>2, <2>3, <2>4
<1> QED
  BY <1>2, <1>3, <1>4

\* There the means of the instants add up to as many times the mean of the scene.
LEMMA WholeMeans ==
    ASSUME NEW s, Chart!IsScene(s), NEW l \in DOMAIN s.layers, NEW region,
           Len(s.data) # 0, IsWhole(s, l)
    PROVE  TotalOf(Numerators(s, l, region), 1 .. Len(s.data)) = MeanOver(s, l, region)[1] * Len(s.data)
<1> DEFINE T == Len(s.data)
           S == 1 .. T
           K == KnownAt(s, l, region)
           weighed == MeanTerms(s, l, region)
           f == [t \in S |-> MeanTerms(At(s, t), l, region)]
           sums == ColumnSums(f, S, K, S)
           w(col) == PlaceWeight(s, col)
           mean(col) == MeanAt(s, l, col)
<1>1. T \in Nat \ {0} /\ T \in Int /\ IsFiniteSet(S)
  <2>1. T \in Nat
    BY SceneData
  <2> QED
    BY <2>1, FS_Interval, 1 \in Int
<1>2. /\ IsFiniteSet(K) /\ K \in SUBSET (1 .. Len(s.lons)) /\ K \in SUBSET K /\ S \in SUBSET S
      /\ \A col \in K : w(col) \in Int /\ mean(col) \in Int
      /\ weighed \in [K -> Int]
      /\ \A col \in K : weighed[col] = w(col) * mean(col)
  <2>1. \A col \in K : weighed[col] = w(col) * mean(col)
    BY DEF MeanTerms
  <2>2. Columns(s, region) \in SUBSET (1 .. Len(s.lons))
    BY DEF Columns
  <2> QED
    BY <2>1, <2>2, ColumnTerms
<1>3. \A t \in S : /\ KnownAt(At(s, t), l, region) = K
                   /\ \A col \in K : MeanTerms(At(s, t), l, region)[col] = w(col) * s.data[t][l][col]
  BY WholeTerms
<1>4. \A t \in S : MeanTerms(At(s, t), l, region) \in [K -> Int]
  <2> TAKE t \in S
  <2>1. Chart!IsScene(At(s, t)) /\ l \in DOMAIN At(s, t).layers
    BY SceneShape, InstantsAreScenes
  <2> QED
    BY <1>3, <2>1, ColumnTerms
<1>5. f \in [S -> [K -> Int]] /\ \A t \in S : \A col \in K : f[t][col] = w(col) * s.data[t][l][col]
  <2> HIDE DEF K, S, w
  <2> QED
    BY <1>3, <1>4
<1>6. Numerators(s, l, region) = Rows(f, S, K)
  <2>1. \A t \in S : MeanOver(At(s, t), l, region)[1] = TotalOf(f[t], K)
    <3> TAKE t \in S
    <3>1. MeanOver(At(s, t), l, region)[1] = TotalOf(MeanTerms(At(s, t), l, region), KnownAt(At(s, t), l, region))
      BY DEF MeanOver
    <3> QED
      BY <1>3, <3>1
  <2> HIDE DEF f, K
  <2> QED
    BY <2>1 DEF Numerators, Rows
<1>7. MeanOver(s, l, region)[1] = TotalOf(weighed, K)
  BY DEF MeanOver
<1> HIDE DEF f, K, S, weighed
<1>8. sums \in [K -> Int] /\ TotalOf(Rows(f, S, K), S) = TotalOf(sums, K)
  <2>1. IsFiniteSet(S) /\ IsFiniteSet(K) /\ f \in [S -> [K -> Int]]
    BY <1>1, <1>2, <1>5
  <2> HIDE DEF w, mean
  <2> QED
    BY <2>1, TotalsExchange
<1>9. \A col \in K : sums[col] = T * weighed[col]
  <2> TAKE col \in K
  <2> DEFINE h == Column(f, S, col)
             g == Shown(s, l, col)
             G == TotalOf(g, S)
  <2>1. col \in 1 .. Len(s.lons) /\ SeenAt(s, l, col) = S /\ w(col) \in Int /\ mean(col) \in Int
    BY <1>2, WholeTerms DEF K, S
  <2>2. /\ g \in [S -> Int] /\ \A t \in S : g[t] = s.data[t][l][col] /\ g[t] % T = 0
    <3>1. /\ g \in [S -> Int]
          /\ \A t \in S : g[t] = s.data[t][l][col] /\ g[t] \in Int /\ g[t] > -100
      BY <2>1, ColumnValues
    <3> HIDE DEF g
    <3>2. \A t \in S : Chart!IsObservation(g[t], T)
      <4>1. \A t \in S : Chart!IsObservation(s.data[t][l][col], T)
        BY <2>1, SceneData DEF S
      <4> QED
        BY <3>1, <4>1
    <3>3. \A t \in S : g[t] % T = 0
      <4> TAKE t \in S
      <4> DEFINE v == g[t]
      <4>1. v \in Int /\ v > -100 /\ Chart!IsObservation(v, T)
        BY <3>1, <3>2
      <4> HIDE DEF v, T
      <4>2. v % T = 0
        BY <4>1 DEF Chart!IsObservation, Chart!NaN
      <4> QED
        BY <4>2 DEF v
    <3> QED
      BY <3>1, <3>3
  <2>3. h \in [S -> Int] /\ \A t \in S : h[t] = w(col) * g[t]
    <3>1. \A t \in S : f[t][col] \in Int /\ f[t][col] = w(col) * g[t]
      <4>1. \A t \in S : f[t][col] \in Int
        BY <1>5
      <4>2. \A t \in S : f[t][col] = w(col) * s.data[t][l][col]
        BY <1>5
      <4> HIDE DEF g, w
      <4> QED
        BY <2>2, <4>1, <4>2
    <3> HIDE DEF g, w
    <3> QED
      BY <3>1 DEF Column
  <2> HIDE DEF h, g, w, mean, T
  <2>4. TotalOf(h, S) = w(col) * G /\ G \in Int
    <3>1. Scales(S, w(col), g, h)
      BY <2>3 DEF Scales, IsTimes
    <3>2. IsTimes(TotalOf(h, S), w(col), G) /\ G \in Int
      <4> DEFINE k == w(col)
      <4>1. k \in Int /\ Scales(S, k, g, h) /\ g \in [S -> Int] /\ h \in [S -> Int]
        BY <2>1, <2>2, <2>3, <3>1
      <4> HIDE DEF k
      <4>2. IsTimes(TotalOf(h, S), k, TotalOf(g, S)) /\ TotalOf(g, S) \in Int
        BY <1>1, <1>2, <4>1, TotalsScale, TotalIsWhole
      <4> QED
        BY <4>2 DEF k
    <3> QED
      BY <3>2 DEF IsTimes
  <2>5. G = T * mean(col)
    <3>1. T * (G \div T) = G
      BY <1>1, <1>2, <2>2, TotalsDivide
    <3>2. mean(col) = G \div T
      <4>1. Cardinality(S) = T
        BY <1>1, FS_Interval DEF S
      <4>2. mean(col) = TotalOf(g, S) \div Cardinality(S)
        BY <2>1 DEF MeanAt, mean, g
      <4> QED
        BY <4>1, <4>2
    <3> QED
      BY <3>1, <3>2
  <2>6. sums[col] = TotalOf(h, S)
    BY DEF ColumnSums, h
  <2>7. w(col) * (T * mean(col)) = T * (w(col) * mean(col))
    <3> DEFINE x == w(col)
               y == mean(col)
    <3>1. x \in Int /\ y \in Int
      BY <2>1
    <3> HIDE DEF x, y
    <3>2. x * (T * y) = T * (x * y)
      BY <1>1, <3>1
    <3> QED
      BY <3>2 DEF x, y
  <2>8. weighed[col] = w(col) * mean(col)
    BY <1>2 DEF w, mean
  <2> HIDE DEF G, sums
  <2> QED
    BY <2>4, <2>5, <2>6, <2>7, <2>8
<1> HIDE DEF sums, T
<1>10. TotalOf(sums, K) = T * TotalOf(weighed, K)
  <2>1. Scales(K, T, weighed, sums)
    BY <1>9 DEF Scales, IsTimes
  <2>2. weighed \in [K -> Int] /\ T \in Int
    BY <1>1, <1>2
  <2>3. IsTimes(TotalOf(sums, K), T, TotalOf(weighed, K))
    BY <1>2, <1>8, <2>1, <2>2, TotalsScale
  <2> QED
    BY <2>3 DEF IsTimes
<1>11. T * TotalOf(weighed, K) = TotalOf(weighed, K) * T
  <2>1. TotalOf(weighed, K) \in Int
    BY <1>2, TotalIsWhole
  <2> QED
    BY <1>1, <2>1
<1> QED
  BY <1>6, <1>7, <1>8, <1>10, <1>11 DEF T, S

\* A scene whose instants have one weight, and means that average to its own.
IsSteady(s, l, region) ==
    /\ \A t \in 1 .. Len(s.data) : MeanOver(At(s, t), l, region)[2] = MeanOver(s, l, region)[2]
    /\ TotalOf(Numerators(s, l, region), 1 .. Len(s.data)) = MeanOver(s, l, region)[1] * Len(s.data)

LEMMA SceneMeans ==
    ASSUME NEW s, Chart!IsScene(s), NEW l \in DOMAIN s.layers, NEW region
    PROVE  LET mean == MeanOver(s, l, region) IN
           /\ mean = <<mean[1], mean[2]>> /\ mean[1] \in Int /\ mean[2] \in Nat
           /\ mean[2] > 0 <=> KnownAt(s, l, region) # {}
           /\ mean[2] = 0 => mean[1] = 0
           /\ Len(s.data) = 0 => mean[2] = 0
<1> DEFINE K == KnownAt(s, l, region)
           B == TotalOf(WeightTerms(s, l, region), K)
           A == TotalOf(MeanTerms(s, l, region), K)
<1>1. B \in Nat /\ (B > 0 <=> K # {}) /\ A \in Int /\ (K = {} => MeanOver(s, l, region) = <<0, 0>>)
  BY KnownWeights
<1>2. MeanOver(s, l, region) = <<A, B>>
  BY DEF MeanOver
<1>3. Len(s.data) = 0 => K = {}
  BY DEF KnownAt, SeenAt
<1> HIDE DEF A, B, K
<1>4. MeanOver(s, l, region)[1] = A /\ MeanOver(s, l, region)[2] = B
  BY <1>2
<1>5. K = {} => A = 0
  <2>1. K = {} => MeanOver(s, l, region)[1] = 0
    BY <1>1
  <2> QED
    BY <1>4, <2>1
<1> QED
  BY <1>1, <1>2, <1>3, <1>4, <1>5 DEF K

LEMMA SteadyProfiles ==
    ASSUME NEW s, Chart!IsScene(s), NEW l \in DOMAIN s.layers, NEW region,
           NEW cells, Shows(cells, s, region), IsSteady(s, l, region)
    PROVE  Chart!Same(Chart!Profile(s, cells)[l], MeanOver(s, l, region))
<1> DEFINE T == Len(s.data)
           M == MeanOver(s, l, region)[1]
           B == MeanOver(s, l, region)[2]
           heavy(t) == MeanOver(At(s, t), l, region)[2]
           seen == {t \in 1 .. T : heavy(t) > 0}
           A == Numerators(s, l, region)
<1>1. /\ MeanOver(s, l, region) = <<M, B>> /\ M \in Int /\ B \in Nat
      /\ B = 0 => M = 0
      /\ T = 0 => B = 0
  BY SceneMeans
<1>2. \A t \in 1 .. T : heavy(t) = B
  BY DEF IsSteady
<1>3. TotalOf(A, 1 .. T) = M * T
  BY DEF IsSteady
<1>4. T \in Nat
  BY SceneData
<1>5. A \in [1 .. T -> Int]
  <2>1. \A t \in 1 .. T : MeanOver(At(s, t), l, region)[1] \in Int
    BY InstantPairs
  <2> QED
    BY <2>1 DEF Numerators
<1>6. \A t \in seen : heavy(t) = B
  BY <1>2
<1>7. seen = {} <=> B = 0
  <2>1. T # 0 => 1 \in 1 .. T
    BY <1>4
  <2> HIDE DEF heavy, T, M, B
  <2> QED
    BY <1>1, <1>2, <2>1
<1>8. TotalOf(A, seen) = M * Cardinality(seen)
  <2>1. CASE seen = {}
    <3>1. TotalOf(A, {}) = 0 /\ Cardinality({}) = 0
      BY <1>5, TotalOfNothing, FS_EmptySet
    <3> HIDE DEF seen, A, M
    <3> QED
      BY <1>1, <2>1, <3>1
  <2>2. CASE seen # {}
    <3>1. seen = 1 .. T
      <4> HIDE DEF heavy, T, M, B
      <4>1. B > 0
        BY <1>1, <1>7, <2>2
      <4> QED
        BY <1>2, <4>1
    <3>2. Cardinality(1 .. T) = T
      BY <1>4, FS_Interval, 1 \in Int
    <3> HIDE DEF seen, A, M
    <3> QED
      BY <1>3, <3>1, <3>2
  <2> QED
    BY <2>1, <2>2
<1>9. seen = {t \in 1 .. Len(s.data) : MeanOver(At(s, t), l, region)[2] > 0}
  OBVIOUS
<1>10. \A t \in seen : MeanOver(At(s, t), l, region)[2] = B
  BY <1>6
<1> HIDE DEF seen, A, M, B
<1>11. Chart!Same(Chart!Profile(s, cells)[l], <<M, B>>)
  BY <1>1, <1>7, <1>8, <1>9, <1>10, ProfilesAverage DEF A
<1> QED
  BY <1>1, <1>11

LEMMA SingleScenes ==
    ASSUME NEW s, Chart!IsScene(s), NEW l \in DOMAIN s.layers, NEW region, Len(s.data) = 1
    PROVE  IsSteady(s, l, region)
<1> DEFINE A == Numerators(s, l, region)
           M == MeanOver(s, l, region)[1]
<1>1. At(s, 1) = s /\ 1 .. Len(s.data) = {1}
  BY SceneShape, 1 \in 1 .. Len(s.data)
<1>2. M \in Int
  BY SceneMeans
<1>3. A \in [{1} -> Int] /\ A[1] = M
  BY <1>1, <1>2 DEF Numerators
<1> HIDE DEF A, M
<1>4. TotalOf(A, {1}) = M
  <2>1. IsFiniteSet({1}) /\ {1} \in SUBSET {1} /\ 1 \in {1} /\ {1} \ {1} = {}
    BY FS_Singleton
  <2>2. TotalOf(A, {1}) = A[1] + TotalOf(A, {1} \ {1}) /\ TotalOf(A, {}) = 0
    BY <1>3, <2>1, TotalStep, TotalOfNothing
  <2>3. TotalOf(A, {1}) = A[1] + 0
    BY <2>1, <2>2
  <2> QED
    BY <1>2, <1>3, <2>3
<1>5. TotalOf(A, 1 .. Len(s.data)) = M * Len(s.data)
  <2>1. M * 1 = M
    BY <1>2
  <2> QED
    BY <1>1, <1>4, <2>1
<1>6. \A t \in 1 .. Len(s.data) : MeanOver(At(s, t), l, region)[2] = MeanOver(s, l, region)[2]
  BY <1>1
<1> QED
  BY <1>5, <1>6 DEF IsSteady, A, M

LEMMA WholeScenes ==
    ASSUME NEW s, Chart!IsScene(s), NEW l \in DOMAIN s.layers, NEW region, IsWhole(s, l)
    PROVE  IsSteady(s, l, region)
<1>1. CASE Len(s.data) # 0
  <2>1. ASSUME NEW t \in 1 .. Len(s.data)
        PROVE  MeanOver(At(s, t), l, region)[2] = MeanOver(s, l, region)[2]
    <3> DEFINE a == At(s, t)
               K == KnownAt(s, l, region)
    <3>1. KnownAt(a, l, region) = K /\ WeightTerms(a, l, region) = WeightTerms(s, l, region)
      BY <1>1, WholeTerms
    <3>2. /\ MeanOver(a, l, region)[2] = TotalOf(WeightTerms(a, l, region), KnownAt(a, l, region))
          /\ MeanOver(s, l, region)[2] = TotalOf(WeightTerms(s, l, region), K)
      BY DEF MeanOver
    <3> HIDE DEF a, K
    <3> QED
      BY <3>1, <3>2 DEF a
  <2> QED
    BY <1>1, <2>1, WholeMeans DEF IsSteady
<1>2. CASE Len(s.data) = 0
  <2> DEFINE A == Numerators(s, l, region)
             M == MeanOver(s, l, region)[1]
  <2>1. 1 .. Len(s.data) = {} /\ M \in Int
    BY <1>2, SceneMeans
  <2>2. A \in [1 .. Len(s.data) -> Int]
    <3>1. \A t \in 1 .. Len(s.data) : MeanOver(At(s, t), l, region)[1] \in Int
      BY <2>1
    <3> QED
      BY <3>1 DEF Numerators
  <2> HIDE DEF A, M
  <2>3. TotalOf(A, {}) = 0 /\ M * 0 = 0
    <3>1. TotalOf(A, {}) = 0
      BY <2>2, TotalOfNothing
    <3> QED
      BY <2>1, <3>1
  <2>4. TotalOf(A, 1 .. Len(s.data)) = M * Len(s.data)
    BY <1>2, <2>1, <2>3
  <2> QED
    BY <2>1, <2>4 DEF IsSteady, A, M
<1> QED
  BY <1>1, <1>2

\* The mean of the one granule of a scene is the first of its series.
LEMMA FirstOfASeries ==
    ASSUME NEW s, Chart!IsScene(s), NEW l \in DOMAIN s.layers, NEW region,
           NEW cells, Shows(cells, s, region), Len(s.data) = 1, KnownAt(s, l, region) # {}
    PROVE  Chart!Series(s, l, cells)[1] = MeanOver(s, l, region)
<1> DEFINE mean(t) == Chart!reduce_keeping_axes(s, l, cells, t)
           seen == {t \in DOMAIN s.data : mean(t)[2] > 0}
<1>1. Chart!Series(s, l, cells) = [t \in seen |-> mean(t)]
  BY DEF Chart!Series
<1>2. 1 \in 1 .. Len(s.data) /\ 1 \in DOMAIN s.data
  BY SceneData
<1>3. mean(1) = MeanOver(s, l, region)
  <2>1. mean(1) = MeanOver(At(s, 1), l, region)
    BY <1>2, InstantMeans
  <2>2. At(s, 1) = s
    BY <1>2, SceneShape
  <2> QED
    BY <2>1, <2>2
<1>4. MeanOver(s, l, region)[2] > 0
  BY SceneMeans
<1>5. 1 \in seen
  BY <1>2, <1>3, <1>4
<1> HIDE DEF seen, mean
<1>6. Chart!Series(s, l, cells)[1] = mean(1)
  BY <1>1, <1>5
<1> QED
  BY <1>3, <1>6

LEMMA NumbersAgree ==
    ASSUME NEW c, Chart!IsSceneCase(c)
    PROVE  Chart!OneSceneOneNumber(c)
<1> SUFFICES ASSUME Chart!Plain(c), NEW l \in Chart!_normalize_to_2d(c.scene.layers, c.selector)
    PROVE  Chart!MeansAgree(c.scene.data, l,
                       Chart!plot_singular(c.scene, c.region, l).stats,
                       Chart!compute_statistic_tool(c.scene, c.region, l),
                       Chart!conduct_temporal_statistic(c.scene, c.region, l),
                       Chart!plot_vertical_profile(c.scene, c.region))
  BY DEF Chart!OneSceneOneNumber
<1> DEFINE s == c.scene
           R == c.region
           cut == Chart!Cropped(s, R).cells
           all == Chart!Masked(s, R).cells
           map == Chart!plot_singular(s, R, l).stats
           stats == Chart!compute_statistic_tool(s, R, l)
           series == Chart!conduct_temporal_statistic(s, R, l)
           profile == Chart!plot_vertical_profile(s, R)
           K == KnownAt(s, l, R)
           mean == MeanOver(s, l, R)
<1>1. Chart!IsScene(s) /\ s.layers \in Seq(Int) /\ c.selector \in Int
  BY DEF Chart!IsSceneCase, Chart!IsScene
<1>2. l \in DOMAIN s.layers
  BY <1>1, LayersAreChosen
<1>3. Shows(cut, s, R) /\ Shows(all, s, R)
  BY PlainShows
<1>4. map.count = Cardinality(K) /\ map.mean = mean
  <2> DEFINE field == Chart!Field(s, l, cut, "mean")
  <2>1. map = [count |-> Chart!Cardinality(Chart!Known(field)), mean |-> Chart!area_weighted_mean(field)]
    BY DEF Chart!plot_singular, Chart!Drawn, Chart!_field_statistics
  <2>2. Chart!area_weighted_mean(field) = mean /\ Chart!Cardinality(Chart!Known(field)) = Cardinality(K)
    BY <1>1, <1>2, <1>3, FieldMeans
  <2> HIDE DEF field, map, mean, K
  <2> QED
    BY <2>1, <2>2
<1>5. stats.n_pixels = Cardinality(K) /\ stats.mean = mean
  <2> DEFINE field == Chart!Field(s, l, all, "mean")
             top == stats.max
             low == stats.min
  <2>1. /\ stats.n_pixels = Chart!Cardinality(Chart!Known(field))
        /\ stats.mean = Chart!area_weighted_mean(field)
    BY DEF Chart!compute_statistic_tool, Chart!Numbers
  <2>2. Chart!area_weighted_mean(field) = mean /\ Chart!Cardinality(Chart!Known(field)) = Cardinality(K)
    BY <1>1, <1>2, <1>3, FieldMeans
  <2> HIDE DEF field, stats, mean, K
  <2> QED
    BY <2>1, <2>2
<1>6. mean = <<mean[1], mean[2]>> /\ mean[1] \in Int /\ mean[2] \in Nat
  BY <1>1, <1>2, SceneMeans
<1>7. Chart!Same(mean, mean)
  <2> HIDE DEF mean
  <2> QED
    BY <1>6 DEF Chart!Same
<1>8. Len(s.data) = 1 /\ Cardinality(K) > 0 => series[1] = mean
  <2> SUFFICES ASSUME Len(s.data) = 1, Cardinality(K) > 0 PROVE series[1] = mean
    OBVIOUS
  <2>1. K # {}
    BY FS_EmptySet
  <2>2. Chart!Series(s, l, cut)[1] = mean
    BY <1>1, <1>2, <1>3, <2>1, FirstOfASeries
  <2> QED
    BY <2>2 DEF Chart!conduct_temporal_statistic
<1>9. ASSUME Len(s.data) = 1 \/ \A t \in DOMAIN s.data : Chart!NaN \notin Chart!Range(s.data[t][l])
      PROVE  Chart!Same(profile[l], mean)
  <2>1. CASE Len(s.data) = 1
    BY <1>1, <1>2, <1>3, <2>1, SingleScenes, SteadyProfiles DEF Chart!plot_vertical_profile
  <2>2. CASE \A t \in DOMAIN s.data : Chart!NaN \notin Chart!Range(s.data[t][l])
    <3>1. IsWhole(s, l)
      <4> SUFFICES ASSUME NEW t \in 1 .. Len(s.data), NEW col \in 1 .. Len(s.lons)
                   PROVE  s.data[t][l][col] # -100
        BY DEF IsWhole
      <4>1. t \in DOMAIN s.data /\ DOMAIN s.lons = 1 .. Len(s.lons)
        BY <1>1, SceneData, ScenePlaces
      <4>2. DOMAIN s.data[t][l] = DOMAIN s.lons
        <5> DEFINE V == [DOMAIN s.lons -> Int]
                   L == [DOMAIN s.layers -> V]
        <5>1. s.data \in Seq(L)
          BY <1>1 DEF Chart!IsScene
        <5>2. \A x \in V : DOMAIN x = DOMAIN s.lons
          OBVIOUS
        <5> HIDE DEF V
        <5>3. \A x \in L : x[l] \in V
          BY <1>2
        <5> HIDE DEF L
        <5>4. s.data[t] \in L
          BY <4>1, <5>1
        <5> QED
          BY <5>2, <5>3, <5>4
      <4>3. s.data[t][l][col] \in Chart!Range(s.data[t][l])
        BY <4>1, <4>2 DEF Chart!Range
      <4> QED
        BY <2>2, <4>1, <4>3 DEF Chart!NaN
    <3> QED
      BY <1>1, <1>2, <1>3, <3>1, WholeScenes, SteadyProfiles DEF Chart!plot_vertical_profile
  <2> QED
    BY <1>9, <2>1, <2>2
<1>10. Chart!MeansAgree(s.data, l, map, stats, series, profile)
  <2> HIDE DEF map, stats, series, profile, mean, K, s
  <2> QED
    BY <1>4, <1>5, <1>7, <1>8, <1>9 DEF Chart!MeansAgree
<1> QED
  BY <1>10 DEF s, R, map, stats, series, profile

-----------------------------------------------------------------------------
(* The largest observation of a region. *)

\* The highs of a strip of a region's cells: each is an observation there, and no
\* observation is above them all.
AreTheHighs(F, s, l, region) ==
    /\ IsFiniteSet(Chart!Known(F))
    /\ \A k \in Chart!Known(F) :
          /\ F[k].v \in Int /\ F[k].v # -100
          /\ \E col \in 1 .. Len(s.lons), t \in 1 .. Len(s.data) :
                Chart!Place(s, col) = F[k].lon /\ s.data[t][l][col] = F[k].v
    /\ \A col \in Columns(s, region) : \A t \in SeenAt(s, l, col) :
          \E k \in Chart!Known(F) : s.data[t][l][col] <= F[k].v

LEMMA FieldHighs ==
    ASSUME NEW s, Chart!IsScene(s), NEW l \in DOMAIN s.layers, NEW region,
           NEW cells, Shows(cells, s, region)
    PROVE  AreTheHighs(Chart!Field(s, l, cells, "max"), s, l, region)
<1> DEFINE n == Len(cells)
           F == Chart!Field(s, l, cells, "max")
           P == {k \in 1 .. n : cells[k].kept /\ SeenAt(s, l, cells[k].col) # {}}
<1>1. /\ DOMAIN cells = 1 .. n /\ n \in Nat
      /\ \A k \in 1 .. n : /\ cells[k].kept \in BOOLEAN /\ cells[k].lon \in Int
                           /\ cells[k].kept => cells[k].col \in 1 .. Len(s.lons)
  BY ShownCells
<1>2. /\ DOMAIN F = 1 .. n
      /\ \A k \in 1 .. n : F[k].lon = cells[k].lon /\ F[k].v = Chart!Reduced(s, l, cells[k], "max")
  BY <1>1 DEF Chart!Field
<1>3. \A k \in 1 .. n : F[k].v = IF cells[k].kept /\ SeenAt(s, l, cells[k].col) # {}
                                 THEN Max(ValuesAt(s, l, cells[k].col)) ELSE -100
  <2> TAKE k \in 1 .. n
  <2> DEFINE cell == cells[k]
  <2>1. cell.kept \in BOOLEAN
    BY <1>1
  <2>2. F[k].v = Chart!Reduced(s, l, cell, "max")
    BY <1>2
  <2> HIDE DEF F, cell
  <2>3. ReadsHighest(s, l, cell)
    BY <2>1, CellHighs
  <2> QED
    BY <2>2, <2>3 DEF cell, ReadsHighest
<1>4. ASSUME NEW col \in 1 .. Len(s.lons), SeenAt(s, l, col) # {}
      PROVE  /\ Max(ValuesAt(s, l, col)) \in Int
             /\ \E t \in SeenAt(s, l, col) : Max(ValuesAt(s, l, col)) = s.data[t][l][col]
             /\ \A t \in SeenAt(s, l, col) : s.data[t][l][col] <= Max(ValuesAt(s, l, col))
  <2> DEFINE S == SeenAt(s, l, col)
             f == Shown(s, l, col)
             V == ValuesAt(s, l, col)
  <2>1. IsFiniteSet(S) /\ \A t \in S : f[t] = s.data[t][l][col] /\ f[t] \in Int
    BY ColumnValues
  <2>2. V = {f[t] : t \in S}
    BY <2>1 DEF ValuesAt
  <2> HIDE DEF S, f, V
  <2>3. IsFiniteSet(V)
    BY <2>1, <2>2, FiniteImage
  <2>4. V \in SUBSET Int /\ V # {}
    BY <1>4, <2>1, <2>2 DEF S
  <2>5. Max(V) \in V /\ \A x \in V : x <= Max(V)
    BY <2>3, <2>4, Extremes
  <2>6. Max(V) \in Int
    BY <2>4, <2>5
  <2>7. \E t \in S : Max(V) = s.data[t][l][col]
    BY <2>1, <2>2, <2>5
  <2>8. \A t \in S : s.data[t][l][col] <= Max(V)
    BY <2>1, <2>2, <2>5
  <2> QED
    BY <2>6, <2>7, <2>8 DEF S, V
<1>5. \A k \in P : /\ k \in 1 .. n /\ cells[k].col \in 1 .. Len(s.lons)
                   /\ cells[k].lon = Chart!Place(s, cells[k].col)
                   /\ SeenAt(s, l, cells[k].col) # {} /\ F[k].v = Max(ValuesAt(s, l, cells[k].col))
  BY <1>1, <1>3 DEF Shows
<1>6. \A col : \A t \in SeenAt(s, l, col) : t \in 1 .. Len(s.data) /\ s.data[t][l][col] # -100
  BY DEF SeenAt
<1> HIDE DEF F
<1>7. \A k \in P : /\ F[k].v \in Int /\ F[k].v # -100
                   /\ \E col \in 1 .. Len(s.lons), t \in 1 .. Len(s.data) :
                         Chart!Place(s, col) = F[k].lon /\ s.data[t][l][col] = F[k].v
  <2> TAKE k \in P
  <2> DEFINE col == cells[k].col
  <2>1. /\ col \in 1 .. Len(s.lons) /\ SeenAt(s, l, col) # {} /\ F[k].lon = Chart!Place(s, col)
        /\ F[k].v = Max(ValuesAt(s, l, col))
    BY <1>2, <1>5
  <2> HIDE DEF P, col
  <2>2. PICK t \in SeenAt(s, l, col) : F[k].v = s.data[t][l][col]
    BY <1>4, <2>1
  <2>3. F[k].v \in Int
    BY <1>4, <2>1
  <2> QED
    BY <1>6, <2>1, <2>2, <2>3
<1>8. Chart!Known(F) = P
  <2>1. Chart!Known(F) = {k \in 1 .. n : F[k].v # -100}
    BY <1>2 DEF Chart!Known, Chart!NaN
  <2>2. \A k \in 1 .. n : k \notin P => F[k].v = -100
    BY <1>3
  <2>3. P \in SUBSET (1 .. n)
    OBVIOUS
  <2> HIDE DEF P
  <2> QED
    BY <1>7, <2>1, <2>2, <2>3
<1>9. IsFiniteSet(P)
  <2>1. IsFiniteSet(1 .. n)
    BY <1>1, FS_Interval, 1 \in Int
  <2> QED
    BY <2>1, FS_Subset
<1>10. ASSUME NEW col \in Columns(s, region), NEW t \in SeenAt(s, l, col)
       PROVE  \E k \in P : s.data[t][l][col] <= F[k].v
  <2>1. PICK k \in 1 .. n : cells[k].kept /\ cells[k].col = col
    BY DEF Shows
  <2>2. k \in P /\ col \in 1 .. Len(s.lons)
    BY <1>10, <2>1 DEF Columns
  <2>3. F[k].v = Max(ValuesAt(s, l, col))
    BY <1>5, <2>1, <2>2
  <2>4. s.data[t][l][col] <= F[k].v
    BY <1>4, <2>2, <2>3
  <2> QED
    BY <2>2, <2>4
<1> HIDE DEF P
<1>11. AreTheHighs(F, s, l, region)
  BY <1>7, <1>8, <1>9, <1>10 DEF AreTheHighs
<1> QED
  BY <1>11 DEF F

LEMMA PeaksAreHighest ==
    ASSUME NEW F, IsFiniteSet(Chart!Known(F)), Chart!Known(F) # {},
           \A k \in Chart!Known(F) : F[k].v \in Int
    PROVE  /\ Chart!Peak(F).value = Chart!Max(Chart!Values(F))
           /\ Chart!Values(F) # {}
           /\ \E k \in Chart!Known(F) : Chart!Peak(F) = [value |-> F[k].v, lon |-> F[k].lon]
           /\ \A k \in Chart!Known(F) : F[k].v <= Chart!Peak(F).value
<1> DEFINE K == Chart!Known(F)
           V == Chart!Values(F)
           f == [k \in K |-> F[k].v]
           top == CHOOSE i \in K : \A m \in K : F[i].v >= F[m].v
           peak == [value |-> F[top].v, lon |-> F[top].lon]
<1>1. Chart!Peak(F) = peak
  BY DEF Chart!Peak
<1>2. V = {F[k].v : k \in K}
  BY DEF Chart!Values
<1>3. IsFiniteSet(V)
  <2>1. IsFiniteSet({f[k] : k \in K})
    <3> HIDE DEF K, f
    <3> QED
      BY FiniteImage DEF K
  <2>2. {f[k] : k \in K} = {F[k].v : k \in K}
    OBVIOUS
  <2> QED
    BY <1>2, <2>1, <2>2
<1>4. V \in SUBSET Int /\ V # {}
  BY <1>2
<1> HIDE DEF V, K
<1>5. Max(V) \in V /\ \A x \in V : x <= Max(V)
  BY <1>3, <1>4, Extremes
<1>6. PICK k \in K : F[k].v = Max(V)
  BY <1>2, <1>5
<1>7. \A m \in K : F[m].v \in Int /\ F[m].v <= Max(V) /\ Max(V) \in Int
  BY <1>2, <1>4, <1>5 DEF K
<1>8. \A m \in K : F[k].v >= F[m].v
  BY <1>6, <1>7
<1>9. top \in K /\ \A m \in K : F[top].v >= F[m].v
  BY <1>8
<1> HIDE DEF top
<1>10. F[top].v = Max(V)
  <2>1. F[top].v >= F[k].v /\ F[top].v <= Max(V)
    BY <1>6, <1>7, <1>9
  <2> DEFINE x == F[top].v
             y == Max(V)
  <2>2. x >= y /\ x <= y /\ x \in Int /\ y \in Int
    BY <1>6, <1>7, <1>9, <2>1
  <2> HIDE DEF x, y
  <2>3. x = y
    BY <2>2
  <2> QED
    BY <2>3 DEF x, y
<1>11. peak.value = F[top].v
  OBVIOUS
<1>12. Chart!Max(V) = Max(V)
  BY ChartSame
<1> QED
  BY <1>1, <1>4, <1>7, <1>9, <1>10, <1>11, <1>12 DEF K, V

\* No mean of a region exceeds what none of its observations exceeds.
LEMMA MeansAreBelow ==
    ASSUME NEW s, Chart!IsScene(s), NEW l \in DOMAIN s.layers, NEW region, NEW t \in 1 .. Len(s.data),
           NEW x \in Int, \A col \in Columns(s, region) : s.data[t][l][col] # -100 => s.data[t][l][col] <= x
    PROVE  MeanOver(At(s, t), l, region)[1] <= x * MeanOver(At(s, t), l, region)[2]
<1> DEFINE a == At(s, t)
           K == KnownAt(a, l, region)
           f == MeanTerms(a, l, region)
           h == WeightTerms(a, l, region)
           w(col) == PlaceWeight(a, col)
           v(col) == MeanAt(a, l, col)
<1>1. Chart!IsScene(a) /\ l \in DOMAIN a.layers
  BY SceneShape, InstantsAreScenes
<1>2. /\ IsFiniteSet(K) /\ f \in [K -> Int] /\ h \in [K -> Nat \ {0}] /\ K \in SUBSET K
      /\ \A col \in K : w(col) \in Nat \ {0} /\ v(col) \in Int
  BY <1>1, ColumnTerms
<1>3. \A col \in K : f[col] = w(col) * v(col) /\ h[col] = w(col)
  BY DEF MeanTerms, WeightTerms
<1>4. \A col \in K : v(col) <= x
  <2> TAKE col \in K
  <2>1. col \in Columns(s, region) /\ s.data[t][l][col] # -100 /\ v(col) = s.data[t][l][col]
    BY InstantTerms
  <2> QED
    BY <2>1
<1>5. MeanOver(a, l, region)[1] = TotalOf(f, K) /\ MeanOver(a, l, region)[2] = TotalOf(h, K)
  BY DEF MeanOver
<1> HIDE DEF a, K, f, h
<1>6. \A col \in K : 1 * f[col] + 0 <= x * h[col]
  <2> TAKE col \in K
  <2> DEFINE p == w(col)
             q == v(col)
  <2>1. p \in Nat \ {0} /\ q \in Int /\ q <= x /\ f[col] = p * q /\ h[col] = p
    BY <1>2, <1>3, <1>4
  <2> HIDE DEF p, q
  <2>2. p * q <= x * p
    BY <2>1
  <2>3. p * q \in Int
    BY <2>1
  <2> DEFINE y == p * q
             z == x * p
  <2>4. z \in Int
    BY <2>1
  <2>5. y <= z /\ y \in Int
    BY <2>2, <2>3
  <2>6. f[col] = y /\ x * h[col] = z
    BY <2>1
  <2> HIDE DEF y, z
  <2>7. 1 * y + 0 <= z
    BY <2>4, <2>5
  <2> QED
    BY <2>6, <2>7
<1>7. 1 * TotalOf(f, K) + 0 * Cardinality(K) <= x * TotalOf(h, K)
  <2>1. h \in [K -> Int] /\ 1 \in Int /\ 0 \in Int
    BY <1>2
  <2> QED
    BY <1>2, <1>6, <2>1, TotalsCompare
<1>8. TotalOf(f, K) \in Int /\ TotalOf(h, K) \in Int /\ Cardinality(K) \in Nat
  <2>1. h \in [K -> Int]
    BY <1>2
  <2> QED
    BY <1>2, <2>1, TotalIsWhole, FS_CardinalityType
<1>9. TotalOf(f, K) <= x * TotalOf(h, K)
  <2> DEFINE y == TotalOf(f, K)
             z == TotalOf(h, K)
             N == Cardinality(K)
  <2>1. 1 * y + 0 * N <= x * z /\ y \in Int /\ N \in Nat /\ z \in Int
    BY <1>7, <1>8
  <2> HIDE DEF y, z, N
  <2>2. y <= x * z
    BY <2>1
  <2> QED
    BY <2>2 DEF y, z
<1> QED
  BY <1>5, <1>9 DEF a

LEMMA PeaksAreReached ==
    ASSUME NEW c, Chart!IsSceneCase(c)
    PROVE  Chart!PeakIsTheLargest(c)
<1> SUFFICES ASSUME Chart!Plain(c), NEW l \in Chart!_normalize_to_2d(c.scene.layers, c.selector)
    PROVE  Chart!PeakIsReached(c.scene, l, Chart!find_daily_peak(c.scene, c.region, l),
                               Chart!conduct_temporal_statistic(c.scene, c.region, l),
                               Chart!compute_statistic_tool(c.scene, c.region, l))
  BY DEF Chart!PeakIsTheLargest
<1> DEFINE s == c.scene
           R == c.region
           cut == Chart!Cropped(s, R).cells
           all == Chart!Masked(s, R).cells
           F == Chart!Field(s, l, all, "max")
           peak == Chart!find_daily_peak(s, R, l)
           stats == Chart!compute_statistic_tool(s, R, l)
           series == Chart!conduct_temporal_statistic(s, R, l)
           K == Chart!Known(F)
<1>1. Chart!IsScene(s) /\ s.layers \in Seq(Int) /\ c.selector \in Int
  BY DEF Chart!IsSceneCase, Chart!IsScene
<1>2. l \in DOMAIN s.layers
  BY <1>1, LayersAreChosen
<1>3. Shows(cut, s, R) /\ Shows(all, s, R)
  BY PlainShows
<1>4. AreTheHighs(F, s, l, R)
  BY <1>1, <1>2, <1>3, FieldHighs
<1>5. peak = Chart!Peak(F)
  BY DEF Chart!find_daily_peak
<1>6. stats.max = IF Chart!Values(F) = {} THEN -100 ELSE Chart!Max(Chart!Values(F))
  <2> DEFINE V == Chart!Values(F)
             W == Chart!Values(Chart!Field(s, l, all, "min"))
             G == Chart!Field(s, l, all, "mean")
             top == IF V = {} THEN Chart!NaN ELSE Chart!Max(V)
             low == IF W = {} THEN Chart!NaN ELSE Chart!Min(W)
             count == Chart!Cardinality(Chart!Known(G))
             mean == Chart!area_weighted_mean(G)
  <2>1. stats = [n_pixels |-> count, mean |-> mean, max |-> top, min |-> low]
    BY Zenon DEF Chart!compute_statistic_tool, Chart!Numbers, stats, count, mean, top, low, V, W, G, F, all
  <2> HIDE DEF count, mean, top, low, stats
  <2>2. stats.max = top
    BY <2>1
  <2> QED
    BY <2>2 DEF top, Chart!NaN
<1>7. \A t \in DOMAIN series : t \in 1 .. Len(s.data) /\ series[t] = MeanOver(At(s, t), l, R)
  <2> DEFINE mean(t) == Chart!reduce_keeping_axes(s, l, cut, t)
             seen == {t \in DOMAIN s.data : mean(t)[2] > 0}
  <2>1. series = [t \in seen |-> mean(t)]
    BY DEF Chart!conduct_temporal_statistic, Chart!Series
  <2>2. \A t \in seen : t \in 1 .. Len(s.data)
    BY <1>1, SceneData
  <2>3. \A t \in 1 .. Len(s.data) : mean(t) = MeanOver(At(s, t), l, R)
    BY <1>1, <1>2, <1>3, InstantMeans
  <2> HIDE DEF seen, mean, series
  <2> QED
    BY <2>1, <2>2, <2>3
<1>8. CASE K = {}
  <2>1. peak = [value |-> -100, lon |-> -100]
    BY <1>5, <1>8 DEF Chart!Peak, Chart!NaN
  <2>2. Chart!Values(F) = {}
    BY <1>8 DEF Chart!Values
  <2>3. peak.value = -100 /\ stats.max = -100
    BY <1>6, <2>1, <2>2
  <2>4. Chart!PeakIsReached(s, l, peak, series, stats)
    <3> HIDE DEF peak, stats, series, s
    <3> QED
      BY <2>3 DEF Chart!PeakIsReached, Chart!NaN
  <2> QED
    BY <2>4
<1>9. CASE K # {}
  <2>1. IsFiniteSet(K) /\ \A k \in K : F[k].v \in Int
    BY <1>4 DEF AreTheHighs
  <2>2. /\ Chart!Peak(F).value = Chart!Max(Chart!Values(F)) /\ Chart!Values(F) # {}
        /\ \E k \in K : Chart!Peak(F) = [value |-> F[k].v, lon |-> F[k].lon]
        /\ \A k \in K : F[k].v <= Chart!Peak(F).value
    BY <1>9, <2>1, PeaksAreHighest
  <2>3. peak.value = stats.max
    BY <1>5, <1>6, <2>2
  <2>4. PICK k \in K : Chart!Peak(F) = [value |-> F[k].v, lon |-> F[k].lon]
    BY <2>2
  <2>5. peak.value = F[k].v /\ peak.lon = F[k].lon
    BY <1>5, <2>4
  <2> DEFINE x == peak.value
  <2>6. x \in Int
    BY <2>1, <2>5
  <2>7. \E col \in DOMAIN s.lons, t \in DOMAIN s.data : Chart!Place(s, col) = peak.lon /\ s.data[t][l][col] = x
    <3>1. DOMAIN s.lons = 1 .. Len(s.lons) /\ DOMAIN s.data = 1 .. Len(s.data)
      BY <1>1, ScenePlaces, SceneData
    <3>2. \E col \in 1 .. Len(s.lons), t \in 1 .. Len(s.data) :
                Chart!Place(s, col) = F[k].lon /\ s.data[t][l][col] = F[k].v
      BY <1>4 DEF AreTheHighs
    <3> HIDE DEF F, s, K, peak
    <3> QED
      BY <2>5, <3>1, <3>2
  <2>8. \A t \in DOMAIN series : series[t][1] <= x * series[t][2]
    <3> TAKE t \in DOMAIN series
    <3>1. t \in 1 .. Len(s.data) /\ series[t] = MeanOver(At(s, t), l, R)
      BY <1>7
    <3>2. \A col \in Columns(s, R) : s.data[t][l][col] # -100 => s.data[t][l][col] <= x
      <4> SUFFICES ASSUME NEW col \in Columns(s, R), s.data[t][l][col] # -100
                   PROVE  s.data[t][l][col] <= x
        OBVIOUS
      <4>1. t \in SeenAt(s, l, col)
        BY <3>1 DEF SeenAt
      <4>2. PICK i \in K : s.data[t][l][col] <= F[i].v
        BY <1>4, <4>1 DEF AreTheHighs
      <4>3. F[i].v <= x /\ F[i].v \in Int
        BY <1>5, <2>1, <2>2
      <4>4. s.data[t][l][col] \in Int
        BY <1>1, <1>2, <3>1, SceneData DEF Columns
      <4> DEFINE y == s.data[t][l][col]
                 z == F[i].v
      <4>5. y <= z /\ z <= x /\ y \in Int /\ z \in Int
        BY <4>2, <4>3, <4>4
      <4> HIDE DEF y, z, x
      <4>6. y <= x
        BY <2>6, <4>5
      <4> QED
        BY <4>6 DEF y
    <3> HIDE DEF x, s, series
    <3> QED
      BY <1>1, <1>2, <2>6, <3>1, <3>2, MeansAreBelow
  <2>9. Chart!PeakIsReached(s, l, peak, series, stats)
    <3> HIDE DEF peak, stats, series, s
    <3> QED
      BY <2>3, <2>7, <2>8 DEF Chart!PeakIsReached, x
  <2> QED
    BY <2>9
<1> QED
  BY <1>8, <1>9

-----------------------------------------------------------------------------
(* How much of a region has a value. *)

LEMMA TotalsAreBounded ==
    ASSUME NEW C, IsFiniteSet(C), NEW f \in [C -> Int], NEW k \in Int, \A x \in C : f[x] <= k
    PROVE  /\ TotalOf(f, C) <= k * Cardinality(C)
           /\ TotalOf(f, C) = k * Cardinality(C) <=> \A x \in C : f[x] = k
<1> DEFINE N(S) == Cardinality(S)
<1>1. ASSUME NEW S \in SUBSET C
      PROVE  TotalOf(f, S) \in Int /\ N(S) \in Nat /\ TotalOf(f, S) <= k * N(S)
  <2>1. IsFiniteSet(S)
    BY FS_Subset
  <2>2. \A x \in S : 1 * f[x] + (-k) <= 0 * f[x]
    <3> TAKE x \in S
    <3>1. f[x] \in Int /\ f[x] <= k
      OBVIOUS
    <3> QED
      BY <3>1
  <2>3. 1 * TotalOf(f, S) + (-k) * N(S) <= 0 * TotalOf(f, S)
    <3>1. 1 \in Int /\ -k \in Int /\ 0 \in Int
      OBVIOUS
    <3> QED
      BY <2>1, <2>2, <3>1, TotalsCompare
  <2>4. TotalOf(f, S) \in Int /\ N(S) \in Nat
    BY <2>1, TotalIsWhole, FS_CardinalityType
  <2> DEFINE y == TotalOf(f, S)
             n == N(S)
  <2>5. 1 * y + (-k) * n <= 0 * y /\ y \in Int /\ n \in Nat
    BY <2>3, <2>4
  <2> HIDE DEF y, n
  <2>6. y <= k * n
    BY <2>5
  <2> QED
    BY <2>4, <2>6 DEF y, n
<1>2. C \in SUBSET C
  OBVIOUS
<1>3. ASSUME \A x \in C : f[x] = k PROVE TotalOf(f, C) = k * N(C)
  BY <1>2, <1>3, TotalOfSame
<1>4. ASSUME NEW x \in C, f[x] # k PROVE TotalOf(f, C) # k * N(C)
  <2> DEFINE r == C \ {x}
             a == f[x]
             rest == TotalOf(f, r)
             m == N(r)
  <2>1. TotalOf(f, C) = a + rest
    BY <1>2, TotalStep
  <2>2. rest \in Int /\ m \in Nat /\ rest <= k * m
    BY <1>1, r \in SUBSET C
  <2>3. N(C) = m + 1
    <3>1. m = N(C) - 1
      BY FS_RemoveElement
    <3>2. N(C) \in Nat
      BY <1>1, <1>2
    <3> QED
      BY <2>2, <3>1, <3>2
  <2>4. a \in Int /\ a < k
    BY <1>4
  <2> HIDE DEF a, rest, m, r, N
  <2>5. k * (m + 1) = k * m + k /\ k * m \in Int
    BY <2>2
  <2> QED
    BY <2>1, <2>2, <2>3, <2>4, <2>5
<1> QED
  BY <1>1, <1>2, <1>3, <1>4

\* Terms that are zero may be left out.
LEMMA ZerosAreNothing ==
    ASSUME NEW D, IsFiniteSet(D), NEW f \in [D -> Int], NEW P \in SUBSET D,
           \A x \in D : x \notin P => f[x] = 0
    PROVE  TotalOf(f, D) = TotalOf(f, P)
<1> DEFINE Z == D \ P
<1>1. /\ IsFiniteSet(P) /\ IsFiniteSet(Z) /\ P \in SUBSET D /\ Z \in SUBSET D
      /\ P \cap Z = {} /\ P \cup Z = D /\ \A x \in Z : f[x] = 0
  BY FS_Subset
<1> HIDE DEF Z
<1>2. TotalOf(f, P \cup Z) = TotalOf(f, P) + TotalOf(f, Z)
  BY <1>1, TotalSplits
<1>3. TotalOf(f, Z) = 0 * Cardinality(Z) /\ Cardinality(Z) \in Nat
  BY <1>1, TotalOfSame, 0 \in Int, FS_CardinalityType
<1> DEFINE p == TotalOf(f, P)
           z == TotalOf(f, Z)
<1>4. p \in Int
  BY <1>1, TotalIsWhole
<1>5. z = 0
  BY <1>3
<1>6. TotalOf(f, D) = p + z
  BY <1>1, <1>2, Zenon
<1> HIDE DEF p, z
<1>7. TotalOf(f, D) = p
  BY <1>4, <1>5, <1>6
<1> QED
  BY <1>7 DEF p

\* How often each column of a region has a value.
Counts(s, l, region) == [col \in Columns(s, region) |-> Cardinality(SeenAt(s, l, col))]

LEMMA CountsAreCovered ==
    ASSUME NEW s, Chart!IsScene(s), NEW l \in DOMAIN s.layers, NEW region,
           NEW cells, Shows(cells, s, region)
    PROVE  /\ IsFiniteSet(Columns(s, region)) /\ Counts(s, l, region) \in [Columns(s, region) -> Int]
           /\ Chart!MapThenSumSet(LAMBDA k : Chart!Cardinality(Chart!Seen(s, l, cells[k])), DOMAIN cells)
              = TotalOf(Counts(s, l, region), Columns(s, region))
<1> DEFINE n == Len(cells)
           D == DOMAIN cells
           C == Columns(s, region)
           P == {k \in D : cells[k].kept}
           m == [k \in P |-> cells[k].col]
           count(k) == Chart!Cardinality(Chart!Seen(s, l, cells[k]))
           f == [k \in D |-> count(k)]
           h == Counts(s, l, region)
           Sums(g) == [x \in SUBSET D |->
                          IF x = {} THEN 0
                          ELSE LET k == CHOOSE k \in x : TRUE IN count(k) + g[x \ {k}]]
           sums == CHOOSE g : g = Sums(g)
<1>1. Chart!MapThenSumSet(LAMBDA k : Chart!Cardinality(Chart!Seen(s, l, cells[k])), DOMAIN cells) = sums[D]
  BY Zenon DEF Chart!MapThenSumSet, Chart!MapThenFoldSet, sums, Sums, count, D
<1>2. /\ n \in Nat /\ D = 1 .. n
      /\ \A k \in D : /\ cells[k].kept \in BOOLEAN
                      /\ cells[k].kept => cells[k].col \in 1 .. Len(s.lons)
  BY ShownCells
<1>3. IsFiniteSet(D) /\ IsFiniteSet(P)
  <2>1. IsFiniteSet(1 .. n)
    BY <1>2, FS_Interval, 1 \in Int
  <2>2. P \in SUBSET D
    OBVIOUS
  <2> HIDE DEF n, D, P
  <2> QED
    BY <1>2, <2>1, <2>2, FS_Subset
<1>4. \A k \in D : count(k) = IF cells[k].kept THEN Cardinality(SeenAt(s, l, cells[k].col)) ELSE 0
  <2> TAKE k \in D
  <2> DEFINE cell == cells[k]
             seen == Chart!Seen(s, l, cell)
  <2>1. cell.kept \in BOOLEAN
    BY <1>2
  <2>2. count(k) = Cardinality(seen)
    BY ChartSame
  <2> HIDE DEF cell, count
  <2>3. seen = IF cell.kept THEN SeenAt(s, l, cell.col) ELSE {}
    BY <2>1, CellsSee
  <2> HIDE DEF seen
  <2> QED
    BY <2>2, <2>3, FS_EmptySet DEF cell
<1>5. \A col \in C : Cardinality(SeenAt(s, l, col)) \in Int
  <2> TAKE col \in C
  <2>1. IsFiniteSet(SeenAt(s, l, col))
    BY ColumnValues DEF Columns
  <2> QED
    BY <2>1, FS_CardinalityType
<1>6. /\ \A k \in D : cells[k].kept => cells[k].col \in C
      /\ \A col \in C : \E k \in D : cells[k].kept /\ cells[k].col = col
      /\ \A j, k \in D : cells[j].kept /\ cells[k].kept /\ cells[j].col = cells[k].col => j = k
  BY <1>2 DEF Shows
<1>7. h \in [C -> Int] /\ \A col \in C : h[col] = Cardinality(SeenAt(s, l, col))
  BY <1>5 DEF Counts
<1> HIDE DEF C, h, count, D
<1>8. Renames(m, P, C)
  <2>1. m \in [P -> C]
    BY <1>6
  <2>2. \A x, y \in P : m[x] = m[y] => x = y
    BY <1>6
  <2>3. \A z \in C : \E x \in P : m[x] = z
    BY <1>6
  <2> QED
    BY <2>1, <2>2, <2>3 DEF Renames
<1>9. \A k \in D : count(k) \in Int /\ (k \notin P => count(k) = 0) /\ (k \in P => count(k) = h[m[k]])
  <2> TAKE k \in D
  <2>1. CASE cells[k].kept
    <3>1. k \in P /\ m[k] = cells[k].col /\ cells[k].col \in C
      BY <1>6, <2>1
    <3> HIDE DEF P, m
    <3>2. count(k) = Cardinality(SeenAt(s, l, cells[k].col))
      BY <1>4, <2>1
    <3> QED
      BY <1>5, <1>7, <3>1, <3>2
  <2>2. CASE ~cells[k].kept
    <3>1. k \notin P
      BY <2>2
    <3> HIDE DEF P, m
    <3>2. count(k) = 0
      BY <1>4, <2>2
    <3> QED
      BY <3>1, <3>2
  <2> QED
    BY <2>1, <2>2
<1>10. f \in [D -> Int] /\ \A k \in D : f[k] = count(k)
  BY <1>9
<1>11. P \in SUBSET D /\ D \in SUBSET D /\ C \in SUBSET C
  OBVIOUS
<1>12. \A g : Sums(g) = SumsOf(D, f, g)
  <2> TAKE g
  <2>1. \A x \in SUBSET D : x # {} => f[Pick(x)] = count(Pick(x))
    <3>1. \A x \in SUBSET D : x # {} => Pick(x) \in D
      BY DEF Pick
    <3> QED
      BY <1>10, <3>1
  <2> HIDE DEF f
  <2> QED
    BY <2>1 DEF SumsOf, Pick
<1> HIDE DEF Sums, f, m, P
<1>13. /\ \E g : g = SumsOf(D, f, g)
       /\ \A g : g = SumsOf(D, f, g) => g[D] = TotalOf(f, D)
  BY <1>3, <1>10, <1>11, TotalIsTheSum
<1>14. sums = Sums(sums)
  BY <1>12, <1>13
<1> HIDE DEF sums
<1>15. sums[D] = TotalOf(f, D)
  BY <1>12, <1>13, <1>14
<1>16. TotalOf(f, D) = TotalOf(f, P)
  <2>1. \A k \in D : k \notin P => f[k] = 0
    BY <1>9, <1>10
  <2> QED
    BY <1>3, <1>10, <1>11, <2>1, ZerosAreNothing
<1>17. IsFiniteSet(C) /\ TotalOf(f, P) = TotalOf(h, C)
  <2>1. \A k \in P : f[k] = h[m[k]]
    BY <1>9, <1>10, <1>11
  <2> QED
    BY <1>3, <1>7, <1>8, <1>10, <1>11, <2>1, TotalsMove
<1> QED
  BY <1>1, <1>7, <1>15, <1>16, <1>17 DEF C, h

LEMMA CoversAreOfTheRegion ==
    ASSUME NEW c, Chart!IsSceneCase(c)
    PROVE  Chart!CoverageIsOfTheRegion(c)
<1> SUFFICES ASSUME Chart!Plain(c), NEW l \in DOMAIN c.scene.layers
    PROVE  LET covered == Chart!_per_layer_valid_fraction(c.scene, c.region, l)
           IN /\ covered[1] <= covered[2]
              /\ covered[1] = covered[2] <=>
                   \A t \in DOMAIN c.scene.data : \A col \in DOMAIN c.scene.lons :
                       Chart!Inside(Chart!Place(c.scene, col), c.region) => c.scene.data[t][l][col] # -100
  BY DEF Chart!CoverageIsOfTheRegion, Chart!NaN
<1> DEFINE s == c.scene
           R == c.region
           T == Len(s.data)
           C == Columns(s, R)
           h == Counts(s, l, R)
           cut == Chart!Cropped(s, R)
           covered == Chart!_per_layer_valid_fraction(s, R, l)
           x == TotalOf(h, C)
           N == Cardinality(C)
           whole == \A t \in DOMAIN s.data : \A col \in DOMAIN s.lons :
                       Chart!Inside(Chart!Place(s, col), R) => s.data[t][l][col] # -100
<1>1. Chart!IsScene(s)
  BY DEF Chart!IsSceneCase
<1>2. Shows(cut.cells, s, R) /\ cut.region_cells = N
  BY PlainShows
<1>3. /\ IsFiniteSet(C) /\ h \in [C -> Int]
      /\ Chart!MapThenSumSet(LAMBDA k : Chart!Cardinality(Chart!Seen(s, l, cut.cells[k])), DOMAIN cut.cells) = x
  BY <1>1, <1>2, CountsAreCovered
<1>4. covered = <<x, N * T>>
  <2> DEFINE a == Chart!MapThenSumSet(LAMBDA k : Chart!Cardinality(Chart!Seen(s, l, cut.cells[k])), DOMAIN cut.cells)
             b == cut.region_cells
  <2>1. covered = <<a, b * T>>
    BY Zenon DEF Chart!_per_layer_valid_fraction, covered, cut, s, R, T, a, b
  <2>2. a = x /\ b = N
    BY <1>2, <1>3
  <2> HIDE DEF a, b, x, N, covered
  <2> QED
    BY <2>1, <2>2
<1>5. T \in Nat /\ DOMAIN s.data = 1 .. T /\ DOMAIN s.lons = 1 .. Len(s.lons)
  BY <1>1, SceneData, ScenePlaces
<1>6. \A col \in C : /\ h[col] \in Int /\ h[col] <= T
                     /\ h[col] = T <=> \A t \in 1 .. T : s.data[t][l][col] # -100
  <2> TAKE col \in C
  <2> DEFINE S == SeenAt(s, l, col)
             D == 1 .. T
             k == Cardinality(S)
  <2>1. IsFiniteSet(D) /\ Cardinality(D) = T
    BY <1>5, FS_Interval, 1 \in Int
  <2>2. S \in SUBSET D
    BY DEF SeenAt
  <2>3. S = D <=> \A t \in D : s.data[t][l][col] # -100
    BY DEF SeenAt
  <2> HIDE DEF S, D
  <2>4. k \in Nat /\ k <= T /\ (k = T <=> S = D)
    BY <2>1, <2>2, FS_Subset, FS_CardinalityType
  <2>5. h[col] = k
    BY DEF Counts, S
  <2> HIDE DEF h, k, T
  <2> QED
    BY <2>3, <2>4, <2>5 DEF D
<1>7. whole <=> \A col \in C : h[col] = T
  <2>1. \A col : col \in C <=> col \in 1 .. Len(s.lons) /\ Chart!Inside(Chart!Place(s, col), R)
    BY DEF Columns
  <2> HIDE DEF C, h, T, s, R
  <2> QED
    BY <1>5, <1>6, <2>1
<1>8. N \in Nat
  BY <1>3, FS_CardinalityType
<1> HIDE DEF h, C, T, covered, whole
<1>9. x <= T * N /\ (x = T * N <=> \A col \in C : h[col] = T)
  <2>1. T \in Int /\ \A col \in C : h[col] <= T
    BY <1>5, <1>6
  <2> QED
    BY <1>3, <2>1, TotalsAreBounded
<1> HIDE DEF x, N
<1>10. T * N = N * T
  BY <1>5, <1>8
<1>11. covered[1] <= covered[2] /\ (covered[1] = covered[2] <=> whole)
  <2>1. covered[1] = x /\ covered[2] = T * N
    BY <1>4, <1>10
  <2> QED
    BY <1>7, <1>9, <2>1
<1> QED
  BY <1>11 DEF covered, whole, s, R

-----------------------------------------------------------------------------
(* The drawn overlay. *)

LEMMA TablesAreSequences ==
    ASSUME NEW n \in Nat, NEW R, NEW g \in [1 .. n -> R]
    PROVE  g \in Seq(R) /\ Len(g) = n
  OBVIOUS

\* The ends of an axis in equal steps.
Axis1d(n, a, d) == {a + (k - 1) * d : k \in 1 .. n}
Spans(V, n, d) == Max(V) - Min(V) = (n - 1) * Chart!Abs(d)
LEMMA AxesEnd ==
    ASSUME NEW n \in Nat \ {0}, NEW a \in Int, NEW d \in Int, NEW V, V = Axis1d(n, a, d)
    PROVE  Spans(V, n, d) /\ Min(V) \in Int /\ Max(V) \in Int
<1> USE DEF Axis1d, Spans
<1> DEFINE e == Chart!Abs(d)
           at == [k \in 1 .. n |-> a + (k - 1) * d]
           b == a + (n - 1) * d
<1>1. \A k \in 1 .. n : (k - 1) * d \in Int /\ a + (k - 1) * d \in Int
  <2> TAKE k \in 1 .. n
  <2>1. k - 1 \in Int
    OBVIOUS
  <2>2. (k - 1) * d \in Int
    BY <2>1
  <2> QED
    BY <2>2
<1>2. b \in Int /\ (n - 1) * d \in Int /\ n \in 1 .. n /\ 1 \in 1 .. n
  <2>1. n \in 1 .. n /\ 1 \in 1 .. n
    OBVIOUS
  <2> QED
    BY <1>1, <2>1
<1>3. IsFiniteSet(V) /\ V \in SUBSET Int
  <2>1. IsFiniteSet(1 .. n)
    BY FS_Interval, 1 \in Int
  <2>2. IsFiniteSet({at[k] : k \in 1 .. n})
    BY <2>1, FiniteImage
  <2>3. {at[k] : k \in 1 .. n} = V
    OBVIOUS
  <2> QED
    BY <1>1, <2>2, <2>3
<1>4. a \in V /\ b \in V
  <2>1. a + (1 - 1) * d = a
    OBVIOUS
  <2>2. a + (1 - 1) * d \in V
    BY <1>2
  <2> QED
    BY <1>2, <2>1, <2>2
<1>5. \A x \in V : \E k \in 1 .. n : x = a + (k - 1) * d
  OBVIOUS
<1>6. V # {}
  BY <1>4
<1>7. /\ Min(V) \in V /\ Max(V) \in V /\ Min(V) \in Int /\ Max(V) \in Int
      /\ \A x \in V : Min(V) <= x /\ x <= Max(V)
  <2>1. /\ Min(V) \in V /\ \A x \in V : Min(V) <= x
        /\ Max(V) \in V /\ \A x \in V : x <= Max(V)
    BY <1>3, <1>6, Extremes
  <2> QED
    BY <1>3, <2>1
<1>8. CASE d >= 0
  <2>1. \A x \in V : a <= x /\ x <= b
    <3> TAKE x \in V
    <3>1. PICK k \in 1 .. n : x = a + (k - 1) * d
      BY <1>5
    <3> DEFINE p == k - 1
               q == n - 1
               y == p * d
               z == q * d
    <3>2. p \in Nat /\ q \in Nat /\ p <= q
      OBVIOUS
    <3> HIDE DEF p, q
    <3>3. 0 <= y /\ y <= z /\ y \in Int /\ z \in Int
      BY <1>8, <3>2
    <3>4. x = a + y /\ b = a + z
      BY <3>1 DEF p, q
    <3> HIDE DEF y, z, b
    <3> QED
      BY <3>3, <3>4
  <2>2. Min(V) = a /\ Max(V) = b
    <3> HIDE DEF b
    <3>1. Min(V) <= a /\ a <= Min(V) /\ Max(V) <= b /\ b <= Max(V)
      BY <1>4, <1>7, <2>1
    <3> QED
      BY <1>2, <1>7, <3>1
  <2>3. Chart!Abs(d) = d
    BY <1>8 DEF Chart!Abs
  <2>4. b - a = (n - 1) * d
    BY <1>2
  <2> QED
    BY <1>7, <2>2, <2>3, <2>4
<1>9. CASE d < 0
  <2>1. \A x \in V : b <= x /\ x <= a
    <3> TAKE x \in V
    <3>1. PICK k \in 1 .. n : x = a + (k - 1) * d
      BY <1>5
    <3> DEFINE p == k - 1
               q == n - 1
               y == p * d
               z == q * d
    <3>2. p \in Nat /\ q \in Nat /\ p <= q
      OBVIOUS
    <3> HIDE DEF p, q
    <3>3. y <= 0 /\ z <= y /\ y \in Int /\ z \in Int
      BY <1>9, <3>2
    <3>4. x = a + y /\ b = a + z
      BY <3>1 DEF p, q
    <3> HIDE DEF y, z, b
    <3> QED
      BY <3>3, <3>4
  <2>2. Min(V) = b /\ Max(V) = a
    <3> HIDE DEF b
    <3>1. Min(V) <= b /\ b <= Min(V) /\ Max(V) <= a /\ a <= Max(V)
      BY <1>4, <1>7, <2>1
    <3> QED
      BY <1>2, <1>7, <3>1
  <2>3. Chart!Abs(d) = -d
    BY <1>9 DEF Chart!Abs
  <2>4. a - b = (n - 1) * (-d)
    <3> DEFINE q == n - 1
    <3>1. q \in Int /\ b = a + q * d
      OBVIOUS
    <3> HIDE DEF q, b
    <3>2. q * d \in Int /\ q * (-d) = -(q * d)
      BY <3>1
    <3>3. a - b = q * (-d)
      BY <3>1, <3>2
    <3> QED
      BY <3>3 DEF q
  <2> QED
    BY <1>7, <2>2, <2>3, <2>4
<1> QED
  BY <1>7, <1>8, <1>9

LEMMA EvensHalve == \A x \in Int : x % 2 = 0 => 2 * (x \div 2) = x /\ x \div 2 \in Int
OBVIOUS

\* The edges of a field on an axis in even steps.
RunsFrom(field, m, a, d) == DOMAIN field = 1 .. m /\ \A k \in 1 .. m : field[k].lon = a + (k - 1) * d
IsFramed(field, m, d) == Chart!Drawn(field).right - Chart!Drawn(field).left = m * Chart!Abs(d)
LEMMA FieldsAreFramed ==
    ASSUME NEW m \in Nat, m > 1, NEW field, NEW a \in Int, NEW d \in Int, d % 2 = 0,
           RunsFrom(field, m, a, d)
    PROVE  IsFramed(field, m, d)
<1> USE DEF RunsFrom, IsFramed
<1> DEFINE lons == [k \in DOMAIN field |-> [lon |-> field[k].lon]]
           V == Chart!Lons(field)
           half == Chart!half_cell(lons)
           left == IF field = <<>> THEN 0 ELSE Chart!Min(V) - half
           right == IF field = <<>> THEN 0 ELSE Chart!Max(V) + half
           drawn == Chart!Drawn(field)
           e == Chart!Abs(d)
<1>1. drawn.left = left /\ drawn.right = right
  <2> DEFINE stats == Chart!_field_statistics(field)
             thinned == Chart!_downsample_grid(field)
  <2>1. drawn = [stats |-> stats, thinned |-> thinned, left |-> left, right |-> right]
    BY Zenon DEF Chart!Drawn, drawn, stats, thinned, left, right, half, lons, V
  <2> HIDE DEF stats, thinned, left, right, drawn
  <2> QED
    BY <2>1
<1>2. field # <<>>
  <2>1. 1 \in DOMAIN field
    OBVIOUS
  <2> QED
    BY <2>1
<1>3. V = {a + (k - 1) * d : k \in 1 .. m}
  BY DEF Chart!Lons
<1>4. Max(V) - Min(V) = (m - 1) * e /\ Min(V) \in Int /\ Max(V) \in Int
  <2>1. V = Axis1d(m, a, d) /\ m \in Nat \ {0}
    BY <1>3 DEF Axis1d
  <2> HIDE DEF V
  <2>2. Spans(V, m, d) /\ Min(V) \in Int /\ Max(V) \in Int
    BY <2>1, AxesEnd
  <2> QED
    BY <2>2 DEF Spans
<1>5. Chart!Min(V) = Min(V) /\ Chart!Max(V) = Max(V)
  BY ChartSame
<1>6. \A k \in 1 .. m : lons[k].lon = a + (k - 1) * d
  OBVIOUS
<1>7. Len(lons) = m
  <2> DEFINE R == {lons[k] : k \in 1 .. m}
  <2>1. lons \in [1 .. m -> R]
    OBVIOUS
  <2> HIDE DEF R, lons
  <2> QED
    BY <2>1, TablesAreSequences
<1>8. Chart!Step(lons) = d
  <2>1. lons[1].lon = a /\ lons[m].lon = a + (m - 1) * d
    <3>1. 1 \in 1 .. m /\ m \in 1 .. m
      OBVIOUS
    <3>2. a + (1 - 1) * d = a
      OBVIOUS
    <3> HIDE DEF lons
    <3> QED
      BY <1>6, <3>1, <3>2
  <2> HIDE DEF lons
  <2>2. lons[1].lon \in Int /\ lons[m].lon = lons[1].lon + (m - 1) * d
    BY <2>1
  <2> QED
    BY <1>7, <2>2, StepsAreRead
<1>9. half = e \div 2
  <2> HIDE DEF lons
  <2> QED
    BY <1>7, <1>8 DEF Chart!half_cell
<1>10. e \in Int /\ 2 * (e \div 2) = e /\ e \div 2 \in Int
  <2>1. e \in Int /\ e % 2 = 0
    BY DEF Chart!Abs
  <2> HIDE DEF e
  <2> QED
    BY <2>1, EvensHalve
<1>11. left = Min(V) - half /\ right = Max(V) + half
  BY <1>2, <1>5
<1>12. right - left = m * e
  <2> DEFINE x == Min(V)
             y == Max(V)
             q == (m - 1) * e
             h == e \div 2
  <2>1. q + e = m * e /\ q \in Int
    <3> HIDE DEF e
    <3> QED
      BY <1>10
  <2>2. x \in Int /\ y \in Int /\ y - x = q /\ h \in Int /\ h + h = e
    BY <1>4, <1>10
  <2>3. left = x - h /\ right = y + h
    BY <1>9, <1>11
  <2> HIDE DEF x, y, q, h, e, left, right
  <2>4. right - left = q + e
    BY <1>10, <2>1, <2>2, <2>3
  <2> QED
    BY <2>1, <2>4
<1> QED
  BY <1>1, <1>12 DEF drawn, e

LEMMA OverlaysArePinned ==
    ASSUME NEW c, Chart!IsSceneCase(c)
    PROVE  Chart!OverlayIsPinned(c)
<1> DEFINE s == c.scene
           R == c.region
           g == AxisLine(c)
           n == Len(s.lons)
           cells == Chart!Cropped(s, R).cells
           field == Chart!Field(s, 1, cells, "mean")
           map == Chart!plot_singular(s, R, 1)
<1> SUFFICES ASSUME Chart!Plain(c), Len(cells) > 1
             PROVE  map.right - map.left = Len(cells) * Chart!Abs(cells[2].lon - cells[1].lon)
  BY DEF Chart!OverlayIsPinned
<1>1. Chart!IsScene(s)
  BY DEF Chart!IsSceneCase
<1>2. /\ g \in Line /\ Len(g) = n /\ n \in Nat
      /\ \A k \in 1 .. n : g[k].lon \in Int /\ g[k].lon % 2 = 0
  <2>1. g \in Line /\ Len(g) = n /\ n \in Nat
    BY <1>1, NormalLines, ScenePlaces DEF AxisLine
  <2>2. \A k \in 1 .. n : g[k].col \in 1 .. n /\ g[k].lon = Chart!Place(s, g[k].col)
    BY <1>1, NormalLines DEF AxisLine
  <2>3. \A i \in 1 .. n : Chart!Place(s, i) \in Int /\ Chart!Place(s, i) % 2 = 0
    BY <1>1, ScenePlaces
  <2> HIDE DEF g, n, s
  <2> QED
    BY <2>1, <2>2, <2>3
<1>3. Chart!_is_uniform_1d(g)
  BY PlainStrips
<1>4. PICK o, m : IsStrip(cells, g, HeldBy(c), o, m)
  BY PlainStrips
<1>5. /\ o \in Nat /\ m \in Nat /\ o + m <= n /\ m > 1 /\ Len(cells) = m /\ DOMAIN cells = 1 .. m
      /\ \A k \in 1 .. m : cells[k].lon = g[o + k].lon
  <2> HIDE DEF cells, g
  <2> QED
    BY <1>2, <1>4 DEF IsStrip
<1> DEFINE d == g[2].lon - g[1].lon
           a == cells[1].lon
<1>6. d \in Int /\ Spaced(g, n, d)
  <2>1. n > 1
    BY <1>2, <1>5
  <2> HIDE DEF g, n
  <2> QED
    BY <1>2, <1>3, <2>1, EvenLines
<1>7. d % 2 = 0
  <2> DEFINE x == g[1].lon
             y == g[2].lon
  <2>1. 1 \in 1 .. n /\ 2 \in 1 .. n
    BY <1>2, <1>5
  <2>2. x \in Int /\ y \in Int /\ x % 2 = 0 /\ y % 2 = 0
    BY <1>2, <2>1
  <2> HIDE DEF x, y
  <2>3. (y - x) % 2 = 0
    BY <2>2
  <2> QED
    BY <2>3 DEF x, y
<1> HIDE DEF g, n, cells, d
<1>8. a \in Int /\ \A k \in 1 .. m : cells[k].lon = a + (k - 1) * d
  <2> DEFINE z == g[1].lon
  <2>1. \A k \in 1 .. m : o + k \in 1 .. n
    BY <1>2, <1>5
  <2>2. z \in Int
    <3>1. 1 \in 1 .. n
      BY <1>2, <1>5
    <3> QED
      BY <1>2, <3>1
  <2>3. \A k \in 1 .. m : cells[k].lon = z + (o + k - 1) * d
    BY <1>5, <1>6, <2>1 DEF Spaced
  <2> HIDE DEF z
  <2>4. 1 \in 1 .. m
    BY <1>5
  <2>5. a = z + (o + 1 - 1) * d
    BY <2>3, <2>4
  <2>6. o * d \in Int /\ a = z + o * d
    BY <1>5, <1>6, <2>5
  <2> HIDE DEF a
  <2>7. \A k \in 1 .. m : cells[k].lon = a + (k - 1) * d
    <3> TAKE k \in 1 .. m
    <3> DEFINE p == k - 1
    <3>1. p \in Int /\ o + k - 1 = o + p
      BY <1>5
    <3> HIDE DEF p
    <3>2. (o + p) * d = o * d + p * d /\ p * d \in Int
      BY <1>5, <1>6, <3>1
    <3>3. cells[k].lon = z + (o * d + p * d)
      BY <2>3, <3>1, <3>2
    <3> DEFINE x == o * d
               y == p * d
    <3>4. x \in Int /\ y \in Int /\ a = z + x /\ cells[k].lon = z + (x + y)
      BY <2>6, <3>2, <3>3
    <3> HIDE DEF x, y
    <3>5. cells[k].lon = a + y
      BY <2>2, <3>4
    <3> QED
      BY <3>5 DEF y, p
  <2> QED
    BY <2>2, <2>6, <2>7
<1>9. cells[2].lon - cells[1].lon = d
  <2>1. 1 \in 1 .. m /\ 2 \in 1 .. m
    BY <1>5
  <2> HIDE DEF a
  <2>2. cells[2].lon = a + (2 - 1) * d /\ cells[1].lon = a + (1 - 1) * d
    BY <1>8, <2>1
  <2>3. (2 - 1) * d = d /\ (1 - 1) * d = 0
    BY <1>6
  <2> QED
    BY <1>6, <1>8, <2>2, <2>3
<1>10. map = Chart!Drawn(field)
  BY DEF Chart!plot_singular, cells
<1>11. DOMAIN field = 1 .. m /\ \A k \in 1 .. m : field[k].lon = cells[k].lon
  BY <1>5 DEF Chart!Field
<1> HIDE DEF field, map, a
<1>12. Chart!Drawn(field).right - Chart!Drawn(field).left = m * Chart!Abs(d)
  <2>1. \A k \in 1 .. m : field[k].lon = a + (k - 1) * d
    BY <1>8, <1>11
  <2>2. RunsFrom(field, m, a, d)
    BY <1>11, <2>1 DEF RunsFrom
  <2>3. IsFramed(field, m, d)
    BY <1>5, <1>6, <1>7, <1>8, <2>2, FieldsAreFramed
  <2> QED
    BY <2>3 DEF IsFramed
<1> QED
  BY <1>5, <1>9, <1>10, <1>12

-----------------------------------------------------------------------------
(* What the run checks of its bounded inputs, for every well-formed one. *)

\* A picture redrawn from its codes says what its values say, in its own scale it
\* is as it was drawn, and a failure stays its panel's, for any panels and window.
THEOREM PicturesAreAlwaysTrue == AnyDecision => []PicturesAreTrue
<1>1. WellFormed => PicturesAreTrue
  BY RecolouringAlwaysAgrees, OwnScalesAlwaysRedraw, FailuresAlwaysStayLocal
     DEF WellFormed, PicturesAreTrue
<1> QED
  BY <1>1, InputsAreWellFormed, PTL

\* A comparison is B minus A over the cells both sides have, in colours that
\* compare; swapping its sides changes a sign, and it answers once and in time, for
\* any sides, retries and labels.
THEOREM ComparisonsAreAlwaysFair == AnyDecision => []ComparisonsAreFair
<1>1. WellFormed => ComparisonsAreFair
  BY SwappingIsAlwaysASign, DifferencesAreBMinusA, PercentsAreOfPairedCells, ColoursAlwaysCompare,
     ChangesAlwaysMirror, ComparisonsAnswerInTime DEF WellFormed, ComparisonsAreFair, Fair
<1> QED
  BY <1>1, InputsAreWellFormed, PTL

\* The five tools show a region's cells where they are and get one number for one
\* scene, the peak and the coverage are the region's and the picture is pinned to
\* its edges, for any scene, region and selection.
THEOREM ChartsAreAlwaysTrue == AnyDecision => []ChartsAreTrue
<1>1. WellFormed => ChartsAreTrue
  BY CellsAreInPlace, NumbersAgree, PeaksAreReached, LayersAreAsked, CoversAreOfTheRegion,
     OverlaysArePinned DEF WellFormed, ChartsAreTrue
<1> QED
  BY <1>1, InputsAreWellFormed, PTL
=============================================================================
