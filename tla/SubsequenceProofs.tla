-------------------------- MODULE SubsequenceProofs --------------------------
(***************************************************************************)
(* The laws of Subsequences that the proofs about the stores, the event    *)
(* log and their queues rest on, and of recursions and sums over finite    *)
(* sets, which those about the decisions rest on.                          *)
(***************************************************************************)
EXTENDS Subsequences, SequencesExt, FiniteSetTheorems, FunctionTheorems, WellFoundedInduction, SequenceTheorems, TLAPS

\* A set of numbers has a least one.
Below == {p \in Nat \X Nat : p[1] < p[2]}

LEMMA LeastNatural ==
    ASSUME NEW S \in SUBSET Nat, S # {}
    PROVE  \E m \in S : \A x \in S : m <= x
<1>1. IsWellFoundedOn(Below, Nat)
  BY NatLessThanWellFounded DEF OpToRel, Below
<1>2. PICK m \in S : \A y \in S : ~(<<y, m>> \in Below)
  BY <1>1, WFMin
<1>3. \A y \in S : m <= y
  <2> TAKE y \in S
  <2>1. y \in Nat /\ m \in Nat /\ ~(<<y, m>> \in Below)
    BY <1>2
  <2> QED
    BY <2>1 DEF Below
<1> QED
  BY <1>3

\* Counting up to later places counts more: each place has a rank of its own.
LEMMA UptoGrows ==
    ASSUME NEW I \in SUBSET Nat, IsFiniteSet(I), NEW h \in I, NEW i \in I, h < i
    PROVE  /\ Cardinality(Upto(I, h)) \in 1 .. Cardinality(I)
           /\ Cardinality(Upto(I, h)) < Cardinality(Upto(I, i))
<1>1. /\ Upto(I, h) \in SUBSET Upto(I, i) /\ Upto(I, i) \in SUBSET I
      /\ i \in Upto(I, i) /\ i \notin Upto(I, h) /\ h \in Upto(I, h)
  <2>1. h \in Int /\ i \in Int /\ \A g \in I : g \in Int
    OBVIOUS
  <2>2. \A g \in I : g <= h => g <= i
    BY <2>1
  <2>3. Upto(I, h) \in SUBSET Upto(I, i) /\ Upto(I, i) \in SUBSET I
    BY <2>2 DEF Upto
  <2>4. h <= h /\ i <= i /\ ~(i <= h)
    BY <2>1
  <2>5. i \in Upto(I, i) /\ i \notin Upto(I, h) /\ h \in Upto(I, h)
    BY <2>4 DEF Upto
  <2> QED
    BY <2>3, <2>5
<1>2. IsFiniteSet(Upto(I, h)) /\ IsFiniteSet(Upto(I, i))
  BY <1>1, FS_Subset
<1>3. Cardinality(Upto(I, h)) \in Nat /\ Cardinality(Upto(I, i)) \in Nat /\ Cardinality(I) \in Nat
  BY <1>2, FS_CardinalityType
<1>4. Cardinality(Upto(I, h)) # 0
  BY <1>1, <1>2, FS_EmptySet
<1>5. /\ Cardinality(Upto(I, h)) <= Cardinality(Upto(I, i))
      /\ Cardinality(Upto(I, i)) = Cardinality(Upto(I, h)) => Upto(I, i) = Upto(I, h)
      /\ Cardinality(Upto(I, i)) <= Cardinality(I)
  BY <1>1, <1>2, FS_Subset
<1> QED
  BY <1>1, <1>3, <1>4, <1>5

\* The ranks of the chosen places are 1 to their number, in their order.
LEMMA NthPlace ==
    ASSUME NEW I \in SUBSET Nat, IsFiniteSet(I)
    PROVE  /\ Cardinality(I) \in Nat
           /\ \A j \in 1 .. Cardinality(I) : Nth(I, j) \in I /\ Cardinality(Upto(I, Nth(I, j))) = j
           /\ \A i \in I : /\ Cardinality(Upto(I, i)) \in 1 .. Cardinality(I)
                           /\ Nth(I, Cardinality(Upto(I, i))) = i
           /\ \A j, k \in 1 .. Cardinality(I) : j < k <=> Nth(I, j) < Nth(I, k)
<1> DEFINE n == Cardinality(I)
           rank == [i \in I |-> Cardinality(Upto(I, i))]
<1>1. n \in Nat
  BY FS_CardinalityType
<1>2. \A i \in I : rank[i] \in 1 .. n
  <2> TAKE i \in I
  <2>1. i \in Upto(I, i) /\ Upto(I, i) \in SUBSET I
    BY DEF Upto
  <2>2. IsFiniteSet(Upto(I, i)) /\ Cardinality(Upto(I, i)) <= n
    BY <2>1, FS_Subset
  <2>3. Cardinality(Upto(I, i)) \in Nat /\ Cardinality(Upto(I, i)) # 0
    BY <2>1, <2>2, FS_CardinalityType, FS_EmptySet
  <2> QED
    BY <1>1, <2>2, <2>3
<1>3. \A h, i \in I : h < i => rank[h] < rank[i]
  BY UptoGrows
<1>4. \A h, i \in I : rank[h] = rank[i] => h = i
  <2> TAKE h, i \in I
  <2> HAVE rank[h] = rank[i]
  <2>1. h \in Nat /\ i \in Nat /\ rank[h] \in Int /\ rank[i] \in Int
    BY <1>2
  <2> QED
    BY <1>3, <2>1
<1>5. rank \in Injection(I, 1 .. n)
  BY <1>2, <1>4 DEF Injection, IsInjective
<1>6. IsFiniteSet(1 .. n) /\ Cardinality(1 .. n) = n
  BY <1>1, FS_Interval
<1>7. rank \in Surjection(I, 1 .. n)
  BY <1>5, <1>6, FS_Injection
<1>8. \A j \in 1 .. n : \E i \in I : rank[i] = j
  BY <1>7 DEF Surjection
<1>9. \A j \in 1 .. n : Nth(I, j) \in I /\ Cardinality(Upto(I, Nth(I, j))) = j
  BY <1>8 DEF Nth
<1>10. \A i \in I : Nth(I, rank[i]) = i
  BY <1>2, <1>4, <1>9
<1>11. \A j, k \in 1 .. n : j < k <=> Nth(I, j) < Nth(I, k)
  <2> TAKE j, k \in 1 .. n
  <2>1. /\ Nth(I, j) \in I /\ rank[Nth(I, j)] = j /\ Nth(I, j) \in Nat
        /\ Nth(I, k) \in I /\ rank[Nth(I, k)] = k /\ Nth(I, k) \in Nat
    BY <1>9
  <2>2. Nth(I, j) < Nth(I, k) => j < k
    BY <1>3, <2>1
  <2>3. Nth(I, k) < Nth(I, j) => k < j
    BY <1>3, <2>1
  <2>4. Nth(I, j) = Nth(I, k) => j = k
    BY <2>1
  <2> QED
    BY <1>1, <2>1, <2>2, <2>3, <2>4
<1> QED
  BY <1>1, <1>2, <1>9, <1>10, <1>11

\* A subsequence has the elements at the chosen places and no others, each as
\* often as chosen and in their order.
LEMMA SubsequenceProperties ==
    ASSUME NEW S, NEW s \in Seq(S), NEW I \in SUBSET (1 .. Len(s))
    PROVE  /\ Subsequence(s, I) \in Seq(S)
           /\ Len(Subsequence(s, I)) = Cardinality(I)
           /\ Len(Subsequence(s, I)) <= Len(s)
           /\ \A j \in 1 .. Len(Subsequence(s, I)) :
                 Nth(I, j) \in I /\ Subsequence(s, I)[j] = s[Nth(I, j)]
           /\ \A i \in I : \E j \in 1 .. Len(Subsequence(s, I)) :
                 Nth(I, j) = i /\ Subsequence(s, I)[j] = s[i]
           /\ \A j, k \in 1 .. Len(Subsequence(s, I)) : j < k <=> Nth(I, j) < Nth(I, k)
<1>1. I \in SUBSET Nat /\ Len(s) \in Nat
  OBVIOUS
<1>2. IsFiniteSet(I) /\ Cardinality(I) <= Len(s)
  <2>1. IsFiniteSet(1 .. Len(s)) /\ Cardinality(1 .. Len(s)) = Len(s)
    <3> DEFINE n == Len(s)
    <3>1. n \in Nat
      OBVIOUS
    <3> HIDE DEF n
    <3>2. IsFiniteSet(1 .. n) /\ Cardinality(1 .. n) = n
      BY <3>1, FS_Interval
    <3> QED
      BY <3>2 DEF n
  <2> QED
    BY <2>1, FS_Subset
<1>3. /\ Cardinality(I) \in Nat
      /\ \A j \in 1 .. Cardinality(I) : Nth(I, j) \in I
      /\ \A i \in I : \E j \in 1 .. Cardinality(I) : Nth(I, j) = i
      /\ \A j, k \in 1 .. Cardinality(I) : j < k <=> Nth(I, j) < Nth(I, k)
  BY <1>1, <1>2, NthPlace
<1>4. \A i \in I : s[i] \in S
  OBVIOUS
<1>5. Subsequence(s, I) \in [1 .. Cardinality(I) -> S]
  BY <1>3, <1>4 DEF Subsequence
<1>6. Subsequence(s, I) \in Seq(S) /\ Len(Subsequence(s, I)) = Cardinality(I)
  BY <1>3, <1>5
<1>7. \A j \in 1 .. Cardinality(I) : Subsequence(s, I)[j] = s[Nth(I, j)]
  BY DEF Subsequence
<1> QED
  BY <1>2, <1>3, <1>6, <1>7

\* A subsequence of a sequence without repetitions has none.
LEMMA SubsequenceInjective ==
    ASSUME NEW S, NEW s \in Seq(S), NEW I \in SUBSET (1 .. Len(s)),
           \A i, k \in 1 .. Len(s) : s[i] = s[k] => i = k
    PROVE  \A j, k \in 1 .. Len(Subsequence(s, I)) :
              Subsequence(s, I)[j] = Subsequence(s, I)[k] => j = k
<1> TAKE j, k \in 1 .. Len(Subsequence(s, I))
<1> HAVE Subsequence(s, I)[j] = Subsequence(s, I)[k]
<1>1. Nth(I, j) = Nth(I, k) /\ Nth(I, j) \in Int /\ Nth(I, k) \in Int
  <2>1. /\ Nth(I, j) \in I /\ Subsequence(s, I)[j] = s[Nth(I, j)]
        /\ Nth(I, k) \in I /\ Subsequence(s, I)[k] = s[Nth(I, k)]
    BY SubsequenceProperties
  <2>2. Nth(I, j) \in 1 .. Len(s) /\ Nth(I, k) \in 1 .. Len(s)
    BY <2>1
  <2>3. s[Nth(I, j)] = s[Nth(I, k)]
    BY <2>1
  <2>4. Nth(I, j) = Nth(I, k)
    BY <2>2, <2>3
  <2> QED
    BY <2>2, <2>4
<1>2. ~(j < k) /\ ~(k < j) /\ j \in Int /\ k \in Int
  BY <1>1, SubsequenceProperties
<1> QED
  BY <1>2

\* A filter keeps exactly what it is to keep.
LEMMA WithoutProperties ==
    ASSUME NEW S, NEW s \in Seq(S), NEW gone
    PROVE  /\ Without(s, gone) \in Seq(S)
           /\ ToSet(Without(s, gone)) = ToSet(s) \ gone
           /\ Len(Without(s, gone)) <= Len(s)
           /\ IsInjective(s) => IsInjective(Without(s, gone))
<1> DEFINE I == {i \in 1 .. Len(s) : s[i] \notin gone}
<1>1. I \in SUBSET (1 .. Len(s)) /\ Without(s, gone) = Subsequence(s, I)
  BY DEF Without
<1>2. ToSet(Subsequence(s, I)) = ToSet(s) \ gone
  <2> HIDE DEF I
  <2>1. ASSUME NEW x \in ToSet(Subsequence(s, I)) PROVE \E i \in I : x = s[i]
    <3>1. PICK j \in 1 .. Len(Subsequence(s, I)) : x = Subsequence(s, I)[j]
      BY DEF ToSet
    <3>2. Nth(I, j) \in I /\ Subsequence(s, I)[j] = s[Nth(I, j)]
      BY <1>1, SubsequenceProperties
    <3> QED
      BY <3>1, <3>2
  <2>2. ASSUME NEW i \in I PROVE s[i] \in ToSet(Subsequence(s, I))
    BY <1>1, SubsequenceProperties DEF ToSet
  <2>3. I = {i \in 1 .. Len(s) : s[i] \notin gone}
    BY DEF I
  <2>4. ToSet(s) = {s[i] : i \in 1 .. Len(s)}
    BY DEF ToSet
  <2>5. \A x : x \in ToSet(Subsequence(s, I)) <=> \E i \in I : x = s[i]
    BY <2>1, <2>2
  <2> QED
    BY <2>3, <2>4, <2>5
<1> HIDE DEF I
<1>3. IsInjective(s) => IsInjective(Subsequence(s, I))
  BY <1>1, SubsequenceProperties, SubsequenceInjective DEF IsInjective
<1> QED
  BY <1>1, <1>2, <1>3, SubsequenceProperties

\* The same of what a filter by membership keeps.
LEMMA WithinProperties ==
    ASSUME NEW S, NEW s \in Seq(S), NEW kept
    PROVE  /\ Within(s, kept) \in Seq(S)
           /\ ToSet(Within(s, kept)) = ToSet(s) \cap kept
           /\ Len(Within(s, kept)) <= Len(s)
           /\ IsInjective(s) => IsInjective(Within(s, kept))
<1> DEFINE I == {i \in 1 .. Len(s) : s[i] \in kept}
<1>1. I \in SUBSET (1 .. Len(s)) /\ Within(s, kept) = Subsequence(s, I)
  BY DEF Within
<1>2. ToSet(Subsequence(s, I)) = ToSet(s) \cap kept
  <2> HIDE DEF I
  <2>1. ASSUME NEW x \in ToSet(Subsequence(s, I)) PROVE \E i \in I : x = s[i]
    <3>1. PICK j \in 1 .. Len(Subsequence(s, I)) : x = Subsequence(s, I)[j]
      BY DEF ToSet
    <3>2. Nth(I, j) \in I /\ Subsequence(s, I)[j] = s[Nth(I, j)]
      BY <1>1, SubsequenceProperties
    <3> QED
      BY <3>1, <3>2
  <2>2. ASSUME NEW i \in I PROVE s[i] \in ToSet(Subsequence(s, I))
    BY <1>1, SubsequenceProperties DEF ToSet
  <2>3. I = {i \in 1 .. Len(s) : s[i] \in kept}
    BY DEF I
  <2>4. ToSet(s) = {s[i] : i \in 1 .. Len(s)}
    BY DEF ToSet
  <2>5. \A x : x \in ToSet(Subsequence(s, I)) <=> \E i \in I : x = s[i]
    BY <2>1, <2>2
  <2> QED
    BY <2>3, <2>4, <2>5
<1> HIDE DEF I
<1>3. IsInjective(s) => IsInjective(Subsequence(s, I))
  BY <1>1, SubsequenceProperties, SubsequenceInjective DEF IsInjective
<1> QED
  BY <1>1, <1>2, <1>3, SubsequenceProperties

\* What Append adds to the elements.
LEMMA AppendLaws ==
    ASSUME NEW S, NEW s \in Seq(S), NEW e \in S
    PROVE  /\ Append(s, e) \in Seq(S)
           /\ Len(Append(s, e)) = Len(s) + 1
           /\ \A i \in 1 .. Len(s) : Append(s, e)[i] = s[i]
           /\ Append(s, e)[Len(s) + 1] = e
           /\ ToSet(Append(s, e)) = ToSet(s) \cup {e}
           /\ IsInjective(s) /\ e \notin ToSet(s) => IsInjective(Append(s, e))
<1>1. /\ Append(s, e) \in Seq(S) /\ Len(Append(s, e)) = Len(s) + 1
      /\ \A i \in 1 .. Len(s) : Append(s, e)[i] = s[i]
      /\ Append(s, e)[Len(s) + 1] = e
  OBVIOUS
<1> DEFINE t == Append(s, e)
           n == Len(s)
<1>2. /\ n \in Nat /\ DOMAIN s = 1 .. n /\ DOMAIN t = 1 .. n + 1
      /\ (\A i \in 1 .. n : t[i] = s[i]) /\ t[n + 1] = e
  OBVIOUS
<1> HIDE DEF t, n
<1>3. \A i : i \in 1 .. n + 1 <=> i \in 1 .. n \/ i = n + 1
  BY <1>2
<1>4. ToSet(t) = ToSet(s) \cup {e}
  BY <1>2, <1>3 DEF ToSet
<1>5. ASSUME IsInjective(s), e \notin ToSet(s) PROVE IsInjective(t)
  <2>1. \A i \in 1 .. n : s[i] # e
    BY <1>2, <1>5 DEF ToSet
  <2>2. \A i, k \in 1 .. n : s[i] = s[k] => i = k
    BY <1>2, <1>5 DEF IsInjective
  <2> QED
    BY <1>2, <1>3, <2>1, <2>2 DEF IsInjective
<1>6. /\ ToSet(Append(s, e)) = ToSet(s) \cup {e}
      /\ IsInjective(s) /\ e \notin ToSet(s) => IsInjective(Append(s, e))
  BY <1>4, <1>5, Zenon DEF t
<1> QED
  BY <1>1, <1>6, Zenon

\* An element moved to the end, or added there.
LEMMA MoveToEnd ==
    ASSUME NEW S, NEW s \in Seq(S), NEW e \in S
    PROVE  /\ Append(Without(s, {e}), e) \in Seq(S)
           /\ ToSet(Append(Without(s, {e}), e)) = ToSet(s) \cup {e}
           /\ IsInjective(s) => IsInjective(Append(Without(s, {e}), e))
<1>1. /\ Without(s, {e}) \in Seq(S) /\ ToSet(Without(s, {e})) = ToSet(s) \ {e}
      /\ IsInjective(s) => IsInjective(Without(s, {e}))
  BY WithoutProperties
<1> DEFINE w == Without(s, {e})
<1>2. w \in Seq(S) /\ e \notin ToSet(w)
  BY <1>1
<1> HIDE DEF w
<1>3. /\ Append(w, e) \in Seq(S) /\ ToSet(Append(w, e)) = ToSet(w) \cup {e}
      /\ IsInjective(w) => IsInjective(Append(w, e))
  BY <1>2, AppendLaws
<1>4. ToSet(w) \cup {e} = ToSet(s) \cup {e}
  BY <1>1 DEF w
<1> QED
  BY <1>1, <1>3, <1>4, Zenon DEF w

\* The elements of a rest are elements, its places one less.
LEMMA TailLaws ==
    ASSUME NEW S, NEW s \in Seq(S), s # << >>
    PROVE  /\ Tail(s) \in Seq(S) /\ Len(Tail(s)) = Len(s) - 1 /\ Head(s) = s[1] /\ Head(s) \in S
           /\ 1 \in 1 .. Len(s) /\ 1 \in DOMAIN s
           /\ \A i \in 1 .. Len(Tail(s)) : i + 1 \in 1 .. Len(s) /\ Tail(s)[i] = s[i + 1]
           /\ ToSet(Tail(s)) \subseteq ToSet(s)
           /\ ToSet(s) = ToSet(Tail(s)) \cup {Head(s)}
           /\ IsInjective(s) => IsInjective(Tail(s)) /\ Head(s) \notin ToSet(Tail(s))
<1> DEFINE t == Tail(s)
           n == Len(s)
<1>1. n \in Nat /\ n >= 1 /\ t \in Seq(S) /\ Len(t) = n - 1 /\ DOMAIN s = 1 .. n /\ DOMAIN t = 1 .. n - 1
  OBVIOUS
<1>2. Head(s) = s[1] /\ s[1] \in S /\ \A i \in 1 .. n - 1 : t[i] = s[i + 1]
  OBVIOUS
<1> HIDE DEF t, n
<1>3. \A i \in 1 .. n - 1 : i + 1 \in 1 .. n
  BY <1>1
<1>4. \A i \in 1 .. n : i = 1 \/ (i - 1 \in 1 .. n - 1 /\ i = (i - 1) + 1)
  BY <1>1
<1>5. ToSet(t) \subseteq ToSet(s)
  <2>1. \A i \in DOMAIN t : \E k \in DOMAIN s : t[i] = s[k]
    BY <1>1, <1>2, <1>3
  <2> QED
    BY <2>1 DEF ToSet
<1>6. ToSet(s) = ToSet(t) \cup {Head(s)}
  <2>1. \A i \in 1 .. n : s[i] = Head(s) \/ s[i] \in ToSet(t)
    <3> TAKE i \in 1 .. n
    <3>1. CASE i = 1
      BY <3>1, <1>2
    <3>2. CASE i - 1 \in 1 .. n - 1 /\ i = (i - 1) + 1
      BY <3>2, <1>1, <1>2 DEF ToSet
    <3> QED
      BY <3>1, <3>2, <1>4
  <2>2. Head(s) \in ToSet(s)
    BY <1>1, <1>2 DEF ToSet
  <2> QED
    BY <2>1, <2>2, <1>1, <1>5 DEF ToSet
<1>7. ASSUME IsInjective(s) PROVE IsInjective(t) /\ Head(s) \notin ToSet(t)
  <2>1. \A i, k \in 1 .. n : s[i] = s[k] => i = k
    BY <1>1, <1>7 DEF IsInjective
  <2>2. \A i \in 1 .. n - 1 : t[i] = s[i + 1] /\ i + 1 \in 1 .. n /\ i + 1 # 1 /\ 1 \in 1 .. n
    BY <1>1, <1>2, <1>3
  <2>3. \A i, k \in 1 .. n - 1 : i + 1 = k + 1 => i = k
    OBVIOUS
  <2>4. Head(s) \notin ToSet(t)
    BY <1>1, <1>2, <2>1, <2>2 DEF ToSet
  <2> QED
    BY <1>1, <2>1, <2>2, <2>3, <2>4 DEF IsInjective
<1> QED
  BY <1>1, <1>2, <1>3, <1>5, <1>6, <1>7 DEF t, n

\* A sequence without repetitions is no longer than its elements are many.
LEMMA InjectiveLength ==
    ASSUME NEW S, NEW s \in Seq(S), IsFiniteSet(S), IsInjective(s)
    PROVE  Len(s) <= Cardinality(S) /\ Cardinality(ToSet(s)) = Len(s) /\ IsFiniteSet(ToSet(s))
<1> DEFINE n == Len(s)
<1>1. n \in Nat /\ DOMAIN s = 1 .. n /\ s \in [1 .. n -> S]
  OBVIOUS
<1> HIDE DEF n
<1>2. IsFiniteSet(1 .. n) /\ Cardinality(1 .. n) = n
  BY <1>1, FS_Interval
<1>3. ToSet(s) \subseteq S
  BY <1>1 DEF ToSet
<1>4. IsFiniteSet(ToSet(s)) /\ Cardinality(ToSet(s)) <= Cardinality(S)
  BY <1>3, FS_Subset
<1>5. s \in Bijection(1 .. n, ToSet(s))
  BY <1>1 DEF Bijection, Injection, Surjection, IsInjective, ToSet
<1>6. Cardinality(ToSet(s)) = n
  BY <1>2, <1>5, FS_Bijection DEF ExistsBijection
<1> QED
  BY <1>4, <1>6 DEF n

\* Two sequences joined keep what is chosen of the first, then of the second.
Shifted(m, J) == {m + j : j \in J}
Joined(s, t, I, J) ==
    Subsequence(s \o t, I \cup Shifted(Len(s), J)) = Subsequence(s, I) \o Subsequence(t, J)

LEMMA ShiftedCount ==
    ASSUME NEW m \in Nat, NEW J \in SUBSET Nat, IsFiniteSet(J)
    PROVE  IsFiniteSet(Shifted(m, J)) /\ Cardinality(Shifted(m, J)) = Cardinality(J)
<1> DEFINE f == [j \in J |-> m + j]
<1>1. \A j, k \in J : m + j = m + k => j = k
  OBVIOUS
<1>2. f \in Bijection(J, Shifted(m, J))
  BY <1>1 DEF Bijection, Injection, Surjection, IsInjective, Shifted
<1> QED
  BY <1>2, FS_Bijection DEF ExistsBijection

LEMMA SubsequenceJoin ==
    ASSUME NEW S, NEW s \in Seq(S), NEW t \in Seq(S),
           NEW I \in SUBSET (1 .. Len(s)), NEW J \in SUBSET (1 .. Len(t))
    PROVE  Joined(s, t, I, J)
<1> DEFINE m == Len(s)
           n == Len(t)
           K == I \cup Shifted(m, J)
           p == Cardinality(I)
           q == Cardinality(J)
<1>1. /\ m \in Nat /\ n \in Nat
      /\ \A i \in 1 .. m : (s \o t)[i] = s[i] /\ s[i] \in S
      /\ \A j \in 1 .. n : (s \o t)[m + j] = t[j] /\ t[j] \in S
  OBVIOUS
<1>2. I \in SUBSET (1 .. m) /\ J \in SUBSET (1 .. n)
  BY DEF m, n
<1>3. /\ \A i \in I : (s \o t)[i] = s[i] /\ s[i] \in S
      /\ \A j \in J : (s \o t)[m + j] = t[j] /\ t[j] \in S
  BY <1>1, <1>2
<1> HIDE DEF m, n, p, q
<1>4. IsFiniteSet(1 .. m) /\ IsFiniteSet(1 .. n)
  BY <1>1, FS_Interval
<1>5. IsFiniteSet(I) /\ IsFiniteSet(J) /\ I \in SUBSET Nat /\ J \in SUBSET Nat
  <2>1. IsFiniteSet(I) /\ IsFiniteSet(J)
    BY <1>2, <1>4, FS_Subset
  <2> QED
    BY <1>1, <1>2, <2>1
<1>6. p \in Nat /\ q \in Nat
  BY <1>5, FS_CardinalityType DEF p, q
<1>7. \A X \in SUBSET J : /\ IsFiniteSet(I \cup Shifted(m, X))
                          /\ Cardinality(I \cup Shifted(m, X)) = p + Cardinality(X)
  <2> TAKE X \in SUBSET J
  <2>1. IsFiniteSet(X) /\ X \in SUBSET Nat
    BY <1>5, FS_Subset
  <2>2. IsFiniteSet(Shifted(m, X)) /\ Cardinality(Shifted(m, X)) = Cardinality(X)
    BY <1>1, <2>1, ShiftedCount
  <2>3. I \cap Shifted(m, X) = {}
    <3>1. \A x \in X : m + x \notin 1 .. m
      BY <1>1, <1>2
    <3> QED
      BY <1>2, <3>1 DEF Shifted
  <2>4. Cardinality(I \cap Shifted(m, X)) = 0
    BY <2>3, FS_EmptySet
  <2>5. /\ IsFiniteSet(I \cup Shifted(m, X))
        /\ Cardinality(I \cup Shifted(m, X)) = p + Cardinality(Shifted(m, X)) - Cardinality(I \cap Shifted(m, X))
    BY <1>5, <2>2, FS_Union DEF p
  <2>6. Cardinality(X) \in Nat
    BY <2>1, FS_CardinalityType
  <2> QED
    BY <1>6, <2>2, <2>4, <2>5, <2>6
<1>8. IsFiniteSet(K) /\ Cardinality(K) = p + q /\ K \in SUBSET Nat
  <2>1. K \in SUBSET Nat
    <3>1. \A j \in J : m + j \in Nat
      BY <1>1, <1>5
    <3> QED
      BY <1>5, <3>1 DEF Shifted
  <2> QED
    BY <1>7, <2>1 DEF q
<1>9. \A i \in K : Nth(K, Cardinality(Upto(K, i))) = i
  <2> HIDE DEF K
  <2> QED
    BY <1>8, NthPlace
<1>10. /\ \A r \in 1 .. p : Nth(I, r) \in I /\ Cardinality(Upto(I, Nth(I, r))) = r
       /\ \A r \in 1 .. q : Nth(J, r) \in J /\ Cardinality(Upto(J, Nth(J, r))) = r
  BY <1>5, NthPlace DEF p, q
<1>11. ASSUME NEW r \in 1 .. p PROVE Nth(K, r) = Nth(I, r)
  <2> DEFINE i == Nth(I, r)
  <2>1. i \in I /\ Cardinality(Upto(I, i)) = r
    BY <1>10
  <2> HIDE DEF i
  <2>2. \A j \in J : ~(m + j <= i)
    BY <1>1, <1>2, <2>1
  <2>3. Upto(K, i) = Upto(I, i)
    BY <2>2 DEF Upto, K, Shifted
  <2>4. i \in K
    BY <2>1 DEF K
  <2> QED
    BY <1>9, <2>1, <2>3, <2>4 DEF i
<1>12. ASSUME NEW r \in 1 .. q PROVE Nth(K, p + r) = m + Nth(J, r)
  <2> DEFINE j == Nth(J, r)
  <2>1. j \in J /\ Cardinality(Upto(J, j)) = r
    BY <1>10
  <2> HIDE DEF j
  <2>2. \A i \in I : i <= m + j
    BY <1>1, <1>2, <2>1
  <2>3. \A h \in J : m + h <= m + j <=> h <= j
    BY <1>1, <1>2, <2>1
  <2>4. Upto(K, m + j) = I \cup Shifted(m, Upto(J, j))
    BY <2>2, <2>3 DEF Upto, K, Shifted
  <2>5. Upto(J, j) \in SUBSET J
    BY DEF Upto
  <2>6. Cardinality(Upto(K, m + j)) = p + r
    BY <1>7, <2>1, <2>4, <2>5
  <2>7. m + j \in K
    BY <2>1 DEF K, Shifted
  <2> QED
    BY <1>9, <2>6, <2>7 DEF j
<1> DEFINE a == Subsequence(s, I)
           b == Subsequence(t, J)
           c == Subsequence(s \o t, K)
<1>13. /\ a \in Seq(S) /\ Len(a) = p /\ \A r \in 1 .. p : a[r] = s[Nth(I, r)]
       /\ b \in Seq(S) /\ Len(b) = q /\ \A r \in 1 .. q : b[r] = t[Nth(J, r)]
  BY SubsequenceProperties DEF p, q
<1>14. c = [r \in 1 .. p + q |-> (s \o t)[Nth(K, r)]]
  BY <1>8 DEF Subsequence
<1>15. \A r \in 1 .. p : c[r] = a[r] /\ a[r] \in S
  <2> TAKE r \in 1 .. p
  <2>1. r \in 1 .. p + q
    BY <1>6
  <2>2. c[r] = (s \o t)[Nth(I, r)]
    BY <1>11, <1>14, <2>1
  <2> QED
    BY <1>3, <1>10, <1>13, <2>2
<1>16. \A r \in 1 .. q : c[p + r] = b[r] /\ b[r] \in S
  <2> TAKE r \in 1 .. q
  <2>1. p + r \in 1 .. p + q
    BY <1>6
  <2>2. c[p + r] = (s \o t)[m + Nth(J, r)]
    BY <1>12, <1>14, <2>1
  <2> QED
    BY <1>3, <1>10, <1>13, <2>2
<1>17. \A r \in 1 .. p + q : r \in 1 .. p \/ (r - p \in 1 .. q /\ r = p + (r - p))
  BY <1>6
<1>18. DOMAIN c = 1 .. p + q
  BY <1>14
<1> HIDE DEF a, b, c, K
<1>19. \A r \in 1 .. p + q : c[r] \in S
  <2> TAKE r \in 1 .. p + q
  <2>1. CASE r \in 1 .. p
    BY <2>1, <1>15
  <2>2. CASE r - p \in 1 .. q /\ r = p + (r - p)
    BY <2>2, <1>16
  <2> QED
    BY <1>17, <2>1, <2>2
<1>20. c = [r \in 1 .. p + q |-> c[r]]
  BY <1>14, <1>18
<1>21. c \in Seq(S) /\ Len(c) = p + q
  <2> DEFINE z == p + q
  <2>1. z \in Nat
    BY <1>6
  <2> HIDE DEF z
  <2>2. c \in [1 .. z -> S]
    BY <1>19, <1>20 DEF z
  <2>3. c \in Seq(S) /\ Len(c) = z
    BY <2>1, <2>2
  <2> QED
    BY <2>3 DEF z
<1>22. /\ a \o b \in Seq(S) /\ Len(a \o b) = p + q
       /\ \A r \in 1 .. p : (a \o b)[r] = a[r]
       /\ \A r \in 1 .. q : (a \o b)[p + r] = b[r]
  <2>1. /\ a \o b \in Seq(S) /\ Len(a \o b) = p + q
        /\ \A r \in 1 .. p + q : (a \o b)[r] = IF r <= p THEN a[r] ELSE b[r - p]
    BY <1>13, ConcatProperties
  <2>2. \A r \in 1 .. p : r \in 1 .. p + q /\ r <= p
    BY <1>6
  <2>3. \A r \in 1 .. q : p + r \in 1 .. p + q /\ ~(p + r <= p) /\ (p + r) - p = r
    BY <1>6
  <2> QED
    BY <2>1, <2>2, <2>3
<1> DEFINE ab == a \o b
<1> HIDE DEF ab
<1>23. ab \in Seq(S) /\ Len(ab) = p + q /\ (\A r \in 1 .. p : ab[r] = a[r]) /\ \A r \in 1 .. q : ab[p + r] = b[r]
  BY <1>22 DEF ab
<1>24. \A r \in 1 .. p + q : c[r] = ab[r]
  <2> TAKE r \in 1 .. p + q
  <2>1. CASE r \in 1 .. p
    BY <2>1, <1>15, <1>23
  <2>2. CASE r - p \in 1 .. q /\ r = p + (r - p)
    BY <2>2, <1>16, <1>23
  <2> QED
    BY <1>17, <2>1, <2>2
<1>25. c = ab
  BY <1>21, <1>23, <1>24
<1> QED
  BY <1>25 DEF Joined, c, ab, a, b, K, m

-----------------------------------------------------------------------------
(* Recursions. *)

\* What a recursion says of a table of its results: where it stops, the result it
\* starts from, elsewhere one made of the next one's.
Recursion(X, stop, start, F, next, h) ==
    [x \in X |-> IF x \in stop THEN start[x] ELSE F[<<x, h[next[x]]>>]]
HasResults(X, V, stop, start, F, next) == \E h \in [X -> V] : h = Recursion(X, stop, start, F, next, h)

\* A recursion that gets smaller with every step has a solution: tables of what
\* it gives for all sizes up to one agree, and there is one for every size.
LEMMA RecursionsExist ==
    ASSUME NEW X, NEW V, NEW stop, NEW start \in [X -> V], NEW F \in [X \X V -> V],
           NEW size \in [X -> Nat], NEW next, \A x \in X \ stop : next[x] \in X /\ size[next[x]] < size[x]
    PROVE  HasResults(X, V, stop, start, F, next)
<1> DEFINE Small(k) == {x \in X : size[x] <= k}
           Table(k, g) == /\ g \in [Small(k) -> V]
                          /\ \A x \in Small(k) : g[x] = IF x \in stop THEN start[x] ELSE F[<<x, g[next[x]]>>]
           bad == {k \in Nat : ~\E g : Table(k, g)}
           T(k) == CHOOSE g : Table(k, g)
           h == [x \in X |-> T(size[x])[x]]
<1>1. \A x \in X : size[x] \in Nat /\ x \in Small(size[x])
  OBVIOUS
<1>2. \A k \in Nat : \A x \in Small(k) \ stop :
          x \in X /\ next[x] \in X /\ size[next[x]] \in Nat /\ size[next[x]] < size[x]
          /\ next[x] \in Small(k) /\ (k # 0 => next[x] \in Small(k - 1)) /\ k # 0
  BY <1>1
<1>3. bad = {}
  <2> SUFFICES ASSUME bad # {} PROVE FALSE
    OBVIOUS
  <2>1. PICK k \in bad : \A j \in bad : k <= j
    <3>1. bad \in SUBSET Nat
      OBVIOUS
    <3> HIDE DEF bad
    <3> QED
      BY <3>1, LeastNatural
  <2>2. k \in Nat /\ ~\E g : Table(k, g)
    OBVIOUS
  <2>3. k # 0
    <3> SUFFICES ASSUME k = 0 PROVE FALSE
      OBVIOUS
    <3>1. \A x \in Small(0) : x \in stop
      BY <1>2, 0 \in Nat
    <3>2. Small(0) \subseteq X
      OBVIOUS
    <3> HIDE DEF Small
    <3>3. Table(0, [x \in Small(0) |-> start[x]])
      BY <3>1, <3>2
    <3> QED
      BY <2>2, <3>3
  <2>4. PICK g : Table(k - 1, g)
    <3>1. k - 1 \in Nat /\ ~(k <= k - 1)
      BY <2>2, <2>3
    <3> HIDE DEF Table
    <3> QED
      BY <2>1, <3>1
  <2> DEFINE e == [x \in Small(k) |-> IF x \in stop THEN start[x] ELSE F[<<x, g[next[x]]>>]]
  <2>5. \A x \in Small(k) \ stop : next[x] \in Small(k - 1) /\ next[x] \in Small(k)
    BY <1>2, <2>2, <2>3
  <2>6. Small(k - 1) \subseteq Small(k) /\ Small(k) \subseteq X
    BY <1>1, <2>2
  <2> HIDE DEF Small
  <2>7. e \in [Small(k) -> V]
    BY <2>4, <2>5, <2>6
  <2>8. \A x \in Small(k - 1) : e[x] = g[x]
    BY <2>4, <2>6
  <2>9. Table(k, e)
    BY <2>5, <2>7, <2>8
  <2> QED
    BY <2>2, <2>9
<1>4. \A k \in Nat : Table(k, T(k))
  <2> TAKE k \in Nat
  <2>1. \E g : Table(k, g)
    BY <1>3
  <2> HIDE DEF Table
  <2> QED
    BY <2>1
<1> HIDE DEF T, bad
<1>5. ASSUME NEW j \in Nat, NEW k \in Nat, NEW y \in Small(j), y \in Small(k) PROVE T(j)[y] = T(k)[y]
  <2> DEFINE differ == {x \in Small(j) \cap Small(k) : T(j)[x] # T(k)[x]}
             sizes == {size[x] : x \in differ}
  <2> SUFFICES ASSUME differ # {} PROVE FALSE
    BY <1>5
  <2>1. PICK n \in sizes : \A m \in sizes : n <= m
    <3>1. sizes \in SUBSET Nat /\ sizes # {}
      BY <1>1
    <3> HIDE DEF sizes
    <3> QED
      BY <3>1, LeastNatural
  <2>2. PICK x \in differ : n = size[x]
    OBVIOUS
  <2>3. x \in Small(j) /\ x \in Small(k) /\ T(j)[x] # T(k)[x]
    OBVIOUS
  <2>4. x \notin stop
    BY <1>4, <2>3
  <2>5. next[x] \in Small(j) /\ next[x] \in Small(k) /\ size[next[x]] < size[x]
        /\ size[next[x]] \in Nat /\ size[x] \in Nat
    BY <1>1, <1>2, <2>3, <2>4
  <2>6. next[x] \notin differ
    <3>1. next[x] \in differ => size[next[x]] \in sizes
      OBVIOUS
    <3> HIDE DEF differ, sizes
    <3> QED
      BY <2>1, <2>2, <2>5, <3>1
  <2>7. T(j)[next[x]] = T(k)[next[x]]
    BY <2>5, <2>6
  <2>8. T(j)[x] = F[<<x, T(j)[next[x]]>>] /\ T(k)[x] = F[<<x, T(k)[next[x]]>>]
    BY <1>4, <2>3, <2>4
  <2> QED
    BY <2>3, <2>7, <2>8
<1>6. h \in [X -> V]
  <2>1. \A x \in X : T(size[x])[x] \in V
    BY <1>1, <1>4
  <2> QED
    BY <2>1
<1>7. \A x \in X : h[x] = IF x \in stop THEN start[x] ELSE F[<<x, h[next[x]]>>]
  <2> TAKE x \in X
  <2>1. T(size[x])[x] = IF x \in stop THEN start[x] ELSE F[<<x, T(size[x])[next[x]]>>]
    BY <1>1, <1>4
  <2>2. ASSUME x \notin stop PROVE T(size[x])[next[x]] = T(size[next[x]])[next[x]]
    <3>1. next[x] \in X /\ size[x] \in Nat /\ size[next[x]] \in Nat
          /\ next[x] \in Small(size[x]) /\ next[x] \in Small(size[next[x]])
      BY <1>1, <1>2, <2>2
    <3> HIDE DEF Small
    <3> QED
      BY <1>5, <3>1
  <2>3. x \notin stop => h[next[x]] = T(size[next[x]])[next[x]]
    OBVIOUS
  <2>4. h[x] = T(size[x])[x]
    OBVIOUS
  <2> HIDE DEF h
  <2> QED
    BY <2>1, <2>2, <2>3, <2>4
<1>8. h = [x \in X |-> h[x]]
  OBVIOUS
<1> HIDE DEF h
<1> QED
  BY <1>6, <1>7, <1>8 DEF Recursion, HasResults

-----------------------------------------------------------------------------
(* Sums over finite sets, whatever order they are taken in. *)

\* What MapThenSumSet (FiniteSetsExt) picks from a set, and a table of the sums of f over the
\* subsets of S that it picks its way through.
Pick(s) == CHOOSE x \in s : TRUE
SumsOf(S, f, g) == [s \in SUBSET S |-> IF s = {} THEN 0 ELSE f[Pick(s)] + g[s \ {Pick(s)}]]

\* Taking the picked member away leaves a smaller subset.
LEMMA PickLaws ==
    ASSUME NEW S, IsFiniteSet(S), NEW s \in SUBSET S, s # {}
    PROVE  /\ Pick(s) \in s /\ Pick(s) \in S /\ s \ {Pick(s)} \in SUBSET S
           /\ IsFiniteSet(s) /\ Cardinality(s) \in Nat
           /\ Cardinality(s \ {Pick(s)}) = Cardinality(s) - 1
<1>1. Pick(s) \in s
  BY DEF Pick
<1>2. IsFiniteSet(s) /\ Cardinality(s) \in Nat
  BY FS_Subset, FS_CardinalityType
<1> QED
  BY <1>1, <1>2, FS_RemoveElement

\* The table exists.
LEMMA SumsExist ==
    ASSUME NEW S, IsFiniteSet(S), NEW f \in [S -> Int]
    PROVE  \E g : g = SumsOf(S, f, g)
<1> DEFINE X == SUBSET S
           stop == {{}}
           start == [s \in X |-> 0]
           term == [p \in X \X Int |-> IF p[1] = {} THEN 0 ELSE f[Pick(p[1])] + p[2]]
           size == [s \in X |-> Cardinality(s)]
           next == [s \in X |-> s \ {Pick(s)}]
<1>1. start \in [X -> Int] /\ size \in [X -> Nat]
  BY FS_Subset, FS_CardinalityType
<1>2. term \in [X \X Int -> Int]
  BY DEF Pick
<1>3. \A s \in X \ stop : next[s] \in X /\ size[next[s]] < size[s]
  BY PickLaws
<1>4. \A s \in X, v \in Int : s # {} => term[<<s, v>>] = f[Pick(s)] + v
  OBVIOUS
<1>5. \A s \in X : s # {} => next[s] = s \ {Pick(s)} /\ next[s] \in X
  OBVIOUS
<1>6. \A s \in X : start[s] = 0
  OBVIOUS
<1>s. \A s : s \in stop <=> s = {}
  OBVIOUS
<1> HIDE DEF start, term, size, next, X, stop
<1>7. PICK g \in [X -> Int] : g = Recursion(X, stop, start, term, next, g)
  <2>1. HasResults(X, Int, stop, start, term, next)
    BY <1>1, <1>2, <1>3, RecursionsExist
  <2> QED
    BY <2>1 DEF HasResults
<1>a. \A s \in X : g[s] = IF s \in stop THEN start[s] ELSE term[<<s, g[next[s]]>>]
  BY <1>7 DEF Recursion
<1>b. \A s \in X : s # {} => g[next[s]] \in Int /\ g[next[s]] = g[s \ {Pick(s)}]
  BY <1>5
<1>8. \A s \in X : g[s] = IF s = {} THEN 0 ELSE f[Pick(s)] + g[s \ {Pick(s)}]
  <2> TAKE s \in X
  <2>1. CASE s = {}
    BY <1>s, <1>6, <1>a, <2>1
  <2>2. CASE s # {}
    <3>1. g[s] = term[<<s, g[next[s]]>>]
      BY <1>s, <1>a, <2>2
    <3> QED
      BY <1>4, <1>b, <2>2, <3>1
  <2> QED
    BY <2>1, <2>2
<1>9. g = SumsOf(S, f, g)
  BY <1>7, <1>8 DEF SumsOf, X
<1> QED
  BY <1>9

\* And what it says is a whole number.
LEMMA SumsAreWhole ==
    ASSUME NEW S, IsFiniteSet(S), NEW f \in [S -> Int], NEW g, g = SumsOf(S, f, g)
    PROVE  \A s \in SUBSET S : g[s] \in Int
<1> DEFINE bad == {s \in SUBSET S : g[s] \notin Int}
           sizes == {Cardinality(s) : s \in bad}
<1> SUFFICES ASSUME bad # {} PROVE FALSE
  OBVIOUS
<1>1. \A s \in SUBSET S : Cardinality(s) \in Nat
  BY FS_Subset, FS_CardinalityType
<1>2. PICK k \in sizes : \A j \in sizes : k <= j
  <2>1. sizes \in SUBSET Nat /\ sizes # {}
    BY <1>1
  <2> HIDE DEF sizes
  <2> QED
    BY <2>1, LeastNatural
<1>3. PICK s \in bad : k = Cardinality(s)
  OBVIOUS
<1>4. g[s] = IF s = {} THEN 0 ELSE f[Pick(s)] + g[s \ {Pick(s)}]
  BY DEF SumsOf
<1>5. s # {}
  BY <1>4
<1>6. /\ Pick(s) \in S /\ s \ {Pick(s)} \in SUBSET S
      /\ Cardinality(s \ {Pick(s)}) = k - 1 /\ k \in Nat
  BY <1>3, <1>5, PickLaws
<1>7. s \ {Pick(s)} \notin bad
  BY <1>2, <1>6
<1>8. g[s] \in Int
  BY <1>4, <1>5, <1>6, <1>7
<1> QED
  BY <1>8

TotalOf(f, S) == (CHOOSE g : g = SumsOf(S, f, g))[S]

\* Some subsets of a finite set, each of which has a smaller one among them
\* but the empty set is none of them: there are none.
LEMMA Shrinking ==
    ASSUME NEW S, IsFiniteSet(S), NEW bad \in SUBSET SUBSET S,
           {} \notin bad, \A s \in bad : s # {} => \E x \in s : s \ {x} \in bad
    PROVE  bad = {}
<1> DEFINE sizes == {Cardinality(s) : s \in bad}
<1> SUFFICES ASSUME bad # {} PROVE FALSE
  OBVIOUS
<1>1. \A s \in SUBSET S : IsFiniteSet(s) /\ Cardinality(s) \in Nat
  BY FS_Subset, FS_CardinalityType
<1>2. PICK k \in sizes : \A j \in sizes : k <= j
  <2>1. sizes \in SUBSET Nat /\ sizes # {}
    BY <1>1
  <2> HIDE DEF sizes
  <2> QED
    BY <2>1, LeastNatural
<1>3. PICK s \in bad : k = Cardinality(s)
  OBVIOUS
<1>4. PICK x \in s : s \ {x} \in bad
  OBVIOUS
<1>5. Cardinality(s \ {x}) = k - 1
  BY <1>1, <1>3, FS_RemoveElement
<1>6. k <= k - 1
  BY <1>2, <1>4, <1>5
<1> QED
  BY <1>1, <1>3, <1>6

\* Two tables give the same sum wherever both have one.
LEMMA TablesAgree ==
    ASSUME NEW D, NEW f \in [D -> Int], NEW S \in SUBSET D, IsFiniteSet(S), NEW T \in SUBSET S,
           NEW g, g = SumsOf(S, f, g), NEW h, h = SumsOf(T, f, h)
    PROVE  g[T] = h[T]
<1> DEFINE bad == {s \in SUBSET T : g[s] # h[s]}
<1>1. IsFiniteSet(T)
  BY FS_Subset
<1>2. \A s \in SUBSET T : /\ g[s] = IF s = {} THEN 0 ELSE f[Pick(s)] + g[s \ {Pick(s)}]
                          /\ h[s] = IF s = {} THEN 0 ELSE f[Pick(s)] + h[s \ {Pick(s)}]
                          /\ s # {} => Pick(s) \in s
  BY DEF SumsOf, Pick
<1>3. {} \notin bad
  BY <1>2
<1>4. \A s \in bad : s # {} => s \ {Pick(s)} \in bad
  BY <1>2
<1>5. \A s \in bad : s # {} => \E x \in s : s \ {x} \in bad
  BY <1>2, <1>4
<1>6. bad \in SUBSET SUBSET T
  OBVIOUS
<1> HIDE DEF bad
<1>7. bad = {}
  BY <1>1, <1>3, <1>5, <1>6, Shrinking
<1> QED
  BY <1>7 DEF bad

\* Any table of the sums over a set's subsets ends in its total, and there is one.
LEMMA TotalIsTheSum ==
    ASSUME NEW D, NEW f \in [D -> Int], NEW S \in SUBSET D, IsFiniteSet(S)
    PROVE  /\ \E g : g = SumsOf(S, f, g)
           /\ \A g : g = SumsOf(S, f, g) => g[S] = TotalOf(f, S)
           /\ TotalOf(f, S) \in Int
<1> DEFINE e == [x \in S |-> f[x]]
           G == CHOOSE g : g = SumsOf(S, f, g)
<1>1. \A g : SumsOf(S, f, g) = SumsOf(S, e, g)
  <2> TAKE g
  <2>1. \A s \in SUBSET S : s # {} => e[Pick(s)] = f[Pick(s)]
    BY DEF Pick
  <2> HIDE DEF e
  <2> QED
    BY <2>1 DEF SumsOf
<1>2. e \in [S -> Int]
  OBVIOUS
<1> HIDE DEF e
<1>3. \E g : g = SumsOf(S, f, g)
  BY <1>1, <1>2, SumsExist
<1>4. G = SumsOf(S, f, G) /\ TotalOf(f, S) = G[S]
  BY <1>3 DEF TotalOf
<1> HIDE DEF G
<1>5. ASSUME NEW g, g = SumsOf(S, f, g) PROVE g[S] = G[S]
  BY <1>4, <1>5, TablesAgree
<1>6. G[S] \in Int
  BY <1>1, <1>2, <1>4, SumsAreWhole
<1> QED
  BY <1>3, <1>4, <1>5, <1>6

\* A sum is a whole number, of nothing it is zero, and it is one of its terms
\* and the sum of the rest.
LEMMA TotalPicks ==
    ASSUME NEW D, NEW f \in [D -> Int], NEW S \in SUBSET D, IsFiniteSet(S)
    PROVE  /\ TotalOf(f, S) \in Int
           /\ S = {} => TotalOf(f, S) = 0
           /\ S # {} => TotalOf(f, S) = f[Pick(S)] + TotalOf(f, S \ {Pick(S)})
<1> DEFINE R == S \ {Pick(S)}
<1>1. R \in SUBSET D /\ R \in SUBSET S /\ IsFiniteSet(R)
  BY FS_Subset
<1>2. PICK g : g = SumsOf(S, f, g)
  BY TotalIsTheSum
<1>3. PICK h : h = SumsOf(R, f, h)
  BY <1>1, TotalIsTheSum
<1>4. g[S] = TotalOf(f, S)
  BY <1>2, TotalIsTheSum
<1>5. h[R] = TotalOf(f, R)
  <2> HIDE DEF R
  <2> QED
    BY <1>1, <1>3, TotalIsTheSum
<1>6. g[R] = h[R]
  <2> HIDE DEF R
  <2> QED
    BY <1>1, <1>2, <1>3, TablesAgree
<1>7. g[S] = IF S = {} THEN 0 ELSE f[Pick(S)] + g[R]
  BY <1>2 DEF SumsOf
<1>8. TotalOf(f, S) \in Int
  BY TotalIsTheSum
<1> QED
  BY <1>4, <1>5, <1>6, <1>7, <1>8

\* It does not matter which term.
LEMMA TotalStep ==
    ASSUME NEW D, NEW f \in [D -> Int], NEW S \in SUBSET D, IsFiniteSet(S), NEW x \in S
    PROVE  TotalOf(f, S) = f[x] + TotalOf(f, S \ {x})
<1> DEFINE bad == {s \in SUBSET S : \E y \in s : TotalOf(f, s) # f[y] + TotalOf(f, s \ {y})}
<1>1. \A s \in SUBSET S : /\ IsFiniteSet(s) /\ TotalOf(f, s) \in Int
                          /\ s # {} => Pick(s) \in s /\ TotalOf(f, s) = f[Pick(s)] + TotalOf(f, s \ {Pick(s)})
  <2> TAKE s \in SUBSET S
  <2>1. IsFiniteSet(s) /\ s \in SUBSET D
    BY FS_Subset
  <2>2. s # {} => Pick(s) \in s
    BY DEF Pick
  <2>3. /\ TotalOf(f, s) \in Int
        /\ s # {} => TotalOf(f, s) = f[Pick(s)] + TotalOf(f, s \ {Pick(s)})
    BY <2>1, TotalPicks
  <2> QED
    BY <2>1, <2>2, <2>3
<1>2. ASSUME NEW s \in bad PROVE \E z \in s : s \ {z} \in bad
  <2>1. PICK y \in s : TotalOf(f, s) # f[y] + TotalOf(f, s \ {y})
    OBVIOUS
  <2> DEFINE p == Pick(s)
             a == s \ {p}
             b == s \ {y}
             r == s \ {p, y}
  <2>2. s \in SUBSET S /\ p \in s /\ y # p /\ TotalOf(f, s) = f[p] + TotalOf(f, a)
    BY <1>1, <2>1
  <2>3. /\ a \in SUBSET S /\ b \in SUBSET S /\ r \in SUBSET S /\ y \in a /\ p \in b
        /\ a \ {y} = r /\ b \ {p} = r
    BY <2>2
  <2>4. f[p] \in Int /\ f[y] \in Int /\ \A t \in SUBSET S : TotalOf(f, t) \in Int
    BY <1>1, <2>2
  <2>5. a \notin bad => TotalOf(f, a) = f[y] + TotalOf(f, r)
    BY <2>3
  <2>6. b \notin bad => TotalOf(f, b) = f[p] + TotalOf(f, r)
    BY <2>3
  <2>7. TotalOf(f, s) # f[y] + TotalOf(f, b)
    BY <2>1
  <2> HIDE DEF a, b, r, p, bad
  <2>8. a \in bad \/ b \in bad
    BY <2>2, <2>3, <2>4, <2>5, <2>6, <2>7
  <2> QED
    BY <2>2, <2>8 DEF a, b
<1>3. IsFiniteSet(S) /\ {} \notin bad /\ bad \in SUBSET SUBSET S
  OBVIOUS
<1> HIDE DEF bad
<1>4. bad = {}
  BY <1>2, <1>3, Shrinking
<1>5. TotalOf(f, S) = f[x] + TotalOf(f, S \ {x})
  BY <1>4 DEF bad
<1> QED
  BY <1>5

\* A sum of nothing is zero.
LEMMA TotalOfNothing ==
    ASSUME NEW D, NEW f \in [D -> Int]
    PROVE  TotalOf(f, {}) = 0
  BY TotalPicks, FS_EmptySet

LEMMA TotalIsWhole ==
    ASSUME NEW D, NEW f \in [D -> Int], NEW S \in SUBSET D, IsFiniteSet(S)
    PROVE  TotalOf(f, S) \in Int
  BY TotalPicks

\* What holds between the terms holds between their sums: a multiple of one is
\* at most a multiple of the other, with so much to spare for each term.
LEMMA TotalsCompare ==
    ASSUME NEW D, NEW a \in [D -> Int], NEW b \in [D -> Int], NEW S \in SUBSET D, IsFiniteSet(S),
           NEW u \in Int, NEW v \in Int, NEW e \in Int, \A x \in S : u * a[x] + e <= v * b[x]
    PROVE  u * TotalOf(a, S) + e * Cardinality(S) <= v * TotalOf(b, S)
<1> DEFINE bad == {s \in SUBSET S : ~(u * TotalOf(a, s) + e * Cardinality(s) <= v * TotalOf(b, s))}
<1>1. \A s \in SUBSET S : IsFiniteSet(s) /\ s \in SUBSET D /\ Cardinality(s) \in Nat
  BY FS_Subset, FS_CardinalityType
<1>2. {} \notin bad
  BY TotalOfNothing, FS_EmptySet
<1>3. ASSUME NEW s \in bad, s # {} PROVE \E x \in s : s \ {x} \in bad
  <2>1. PICK x \in s : TRUE
    BY <1>3
  <2> DEFINE r == s \ {x}
  <2>2. s \in SUBSET S /\ r \in SUBSET S
    OBVIOUS
  <2>3. TotalOf(a, s) = a[x] + TotalOf(a, r) /\ TotalOf(b, s) = b[x] + TotalOf(b, r)
    BY <1>1, <2>2, TotalStep
  <2>4. Cardinality(s) = Cardinality(r) + 1
    BY <1>1, <2>2, FS_RemoveElement
  <2>5. /\ TotalOf(a, r) \in Int /\ TotalOf(b, r) \in Int /\ Cardinality(r) \in Nat
        /\ a[x] \in Int /\ b[x] \in Int /\ u * a[x] + e <= v * b[x]
    BY <1>1, <2>2, TotalIsWhole
  <2>6. ~(u * TotalOf(a, s) + e * Cardinality(s) <= v * TotalOf(b, s))
    OBVIOUS
  <2> HIDE DEF r, bad
  <2>7. ~(u * TotalOf(a, r) + e * Cardinality(r) <= v * TotalOf(b, r))
    <3> DEFINE A == TotalOf(a, r)
               B == TotalOf(b, r)
               n == Cardinality(r)
               i == a[x]
               j == b[x]
    <3>1. A \in Int /\ B \in Int /\ n \in Int /\ i \in Int /\ j \in Int /\ u * i + e <= v * j
      BY <2>5
    <3>2. ~(u * (i + A) + e * (n + 1) <= v * (j + B))
      BY <2>3, <2>4, <2>6
    <3> HIDE DEF A, B, n, i, j
    <3>3. u * (i + A) = u * i + u * A /\ e * (n + 1) = e * n + e /\ v * (j + B) = v * j + v * B
      BY <3>1
    <3>4. ~(u * A + e * n <= v * B)
      BY <3>1, <3>2, <3>3
    <3> QED
      BY <3>4 DEF A, B, n
  <2> QED
    BY <2>2, <2>7 DEF r, bad
<1>4. bad \in SUBSET SUBSET S
  OBVIOUS
<1> HIDE DEF bad
<1>5. bad = {}
  BY <1>2, <1>3, <1>4, Shrinking
<1> QED
  BY <1>5 DEF bad

\* Sums over parts that have nothing in common add up.
LEMMA TotalSplits ==
    ASSUME NEW D, NEW f \in [D -> Int], NEW S \in SUBSET D, IsFiniteSet(S),
           NEW T \in SUBSET D, IsFiniteSet(T), S \cap T = {}
    PROVE  TotalOf(f, S \cup T) = TotalOf(f, S) + TotalOf(f, T)
<1> DEFINE bad == {s \in SUBSET S : TotalOf(f, s \cup T) # TotalOf(f, s) + TotalOf(f, T)}
<1>1. \A s \in SUBSET S : IsFiniteSet(s \cup T) /\ IsFiniteSet(s) /\ s \in SUBSET D /\ s \cup T \in SUBSET D
  BY FS_Subset, FS_Union
<1>2. {} \notin bad
  <2>1. TotalOf(f, T) \in Int /\ {} \cup T = T
    BY TotalIsWhole
  <2> QED
    BY <2>1, TotalOfNothing
<1>3. ASSUME NEW s \in bad, s # {} PROVE \E x \in s : s \ {x} \in bad
  <2>1. PICK x \in s : TRUE
    BY <1>3
  <2> DEFINE r == s \ {x}
  <2>2. s \in SUBSET S /\ r \in SUBSET S /\ (s \cup T) \ {x} = r \cup T /\ x \in s \cup T
    OBVIOUS
  <2>3. TotalOf(f, s) = f[x] + TotalOf(f, r)
    BY <1>1, <2>2, TotalStep
  <2>4. TotalOf(f, s \cup T) = f[x] + TotalOf(f, r \cup T)
    BY <1>1, <2>2, TotalStep
  <2>5. /\ TotalOf(f, r) \in Int /\ TotalOf(f, T) \in Int /\ TotalOf(f, r \cup T) \in Int /\ f[x] \in Int
        /\ TotalOf(f, s \cup T) # TotalOf(f, s) + TotalOf(f, T)
    BY <1>1, <2>2, TotalIsWhole
  <2> HIDE DEF r, bad
  <2>6. TotalOf(f, r \cup T) # TotalOf(f, r) + TotalOf(f, T)
    BY <2>3, <2>4, <2>5
  <2> QED
    BY <2>2, <2>6 DEF r, bad
<1>4. bad \in SUBSET SUBSET S
  OBVIOUS
<1> HIDE DEF bad
<1>5. bad = {}
  BY <1>2, <1>3, <1>4, Shrinking
<1> QED
  BY <1>5 DEF bad

\* Sums of terms that are the same, and that differ by the same.
LEMMA TotalsShift ==
    ASSUME NEW D, NEW a \in [D -> Int], NEW b \in [D -> Int], NEW S \in SUBSET D, IsFiniteSet(S),
           NEW k \in Int, \A x \in S : b[x] = a[x] + k
    PROVE  TotalOf(b, S) = TotalOf(a, S) + k * Cardinality(S)
<1>1. \A x \in S : a[x] \in Int /\ b[x] \in Int
  OBVIOUS
<1>2. /\ \A x \in S : 1 * a[x] + k <= 1 * b[x]
      /\ \A x \in S : 1 * b[x] + (-k) <= 1 * a[x]
  BY <1>1
<1>3. 1 \in Int /\ -k \in Int
  OBVIOUS
<1>4. 1 * TotalOf(a, S) + k * Cardinality(S) <= 1 * TotalOf(b, S)
  BY <1>2, <1>3, TotalsCompare
<1>5. 1 * TotalOf(b, S) + (-k) * Cardinality(S) <= 1 * TotalOf(a, S)
  BY <1>2, <1>3, TotalsCompare
<1> DEFINE A == TotalOf(a, S)
           B == TotalOf(b, S)
           n == Cardinality(S)
<1>6. A \in Int /\ B \in Int /\ n \in Int
  BY TotalIsWhole, FS_CardinalityType
<1> HIDE DEF A, B, n
<1>7. A + k * n <= B /\ B + (-k) * n <= A
  BY <1>4, <1>5, <1>6 DEF A, B, n
<1>8. (-k) * n = -(k * n) /\ k * n \in Int
  BY <1>6
<1>9. B = A + k * n
  BY <1>6, <1>7, <1>8
<1> QED
  BY <1>9 DEF A, B, n

LEMMA TotalsEqual ==
    ASSUME NEW D, NEW a \in [D -> Int], NEW b \in [D -> Int], NEW S \in SUBSET D, IsFiniteSet(S),
           \A x \in S : b[x] = a[x]
    PROVE  TotalOf(b, S) = TotalOf(a, S)
<1>1. \A x \in S : b[x] = a[x] + 0
  OBVIOUS
<1>2. TotalOf(b, S) = TotalOf(a, S) + 0 * Cardinality(S)
  BY <1>1, TotalsShift, 0 \in Int
<1>3. TotalOf(a, S) \in Int /\ Cardinality(S) \in Nat
  BY TotalIsWhole, FS_CardinalityType
<1> QED
  BY <1>2, <1>3

LEMMA TotalOfSame ==
    ASSUME NEW D, NEW f \in [D -> Int], NEW S \in SUBSET D, IsFiniteSet(S), NEW k \in Int,
           \A x \in S : f[x] = k
    PROVE  TotalOf(f, S) = k * Cardinality(S)
<1>1. /\ \A x \in S : 0 * f[x] + k <= 1 * f[x]
      /\ \A x \in S : 1 * f[x] + (-k) <= 0 * f[x]
  OBVIOUS
<1>2. 0 \in Int /\ 1 \in Int /\ -k \in Int
  OBVIOUS
<1>3. 0 * TotalOf(f, S) + k * Cardinality(S) <= 1 * TotalOf(f, S)
  BY <1>1, <1>2, TotalsCompare
<1>4. 1 * TotalOf(f, S) + (-k) * Cardinality(S) <= 0 * TotalOf(f, S)
  BY <1>1, <1>2, TotalsCompare
<1> DEFINE A == TotalOf(f, S)
           n == Cardinality(S)
<1>5. A \in Int /\ n \in Int
  BY TotalIsWhole, FS_CardinalityType
<1> HIDE DEF A, n
<1>6. (-k) * n = -(k * n) /\ k * n \in Int
  BY <1>5
<1>7. A = k * n
  BY <1>3, <1>4, <1>5, <1>6 DEF A, n
<1> QED
  BY <1>7 DEF A, n

\* Of terms that are none below zero, a part of a set has no greater sum than the set.
LEMMA TotalGrows ==
    ASSUME NEW D, NEW f \in [D -> Int], NEW S \in SUBSET D, IsFiniteSet(S),
           NEW T \in SUBSET S, \A x \in S : f[x] >= 0
    PROVE  /\ TotalOf(f, T) \in Nat /\ TotalOf(f, S) \in Nat
           /\ TotalOf(f, T) <= TotalOf(f, S)
<1> DEFINE R == S \ T
<1>1. /\ R \in SUBSET D /\ T \in SUBSET D /\ R \in SUBSET S /\ T \cup R = S /\ T \cap R = {}
      /\ IsFiniteSet(T) /\ IsFiniteSet(R)
  BY FS_Subset
<1> HIDE DEF R
<1>2. ASSUME NEW s \in SUBSET S, s \in SUBSET D, IsFiniteSet(s) PROVE TotalOf(f, s) \in Nat
  <2>1. \A x \in s : 0 * f[x] + 0 <= 1 * f[x]
    OBVIOUS
  <2>2. 0 * TotalOf(f, s) + 0 * Cardinality(s) <= 1 * TotalOf(f, s)
    BY <1>2, <2>1, TotalsCompare, 0 \in Int, 1 \in Int
  <2>3. TotalOf(f, s) \in Int /\ Cardinality(s) \in Nat
    BY <1>2, TotalIsWhole, FS_CardinalityType
  <2> QED
    BY <2>2, <2>3
<1>3. TotalOf(f, T) \in Nat /\ TotalOf(f, R) \in Nat
  BY <1>1, <1>2
<1>4. TotalOf(f, S) = TotalOf(f, T) + TotalOf(f, R)
  BY <1>1, TotalSplits
<1> QED
  BY <1>3, <1>4

\* If no more than k members are taken to each member of K, what they are taken
\* to sums to k times the sum over K at most.
LEMMA TotalOfFibres ==
    ASSUME NEW P, IsFiniteSet(P), NEW D, NEW K \in SUBSET D, IsFiniteSet(K),
           NEW g \in [D -> Int], \A y \in K : g[y] >= 0,
           NEW phi \in [P -> K], NEW k \in Nat,
           \A y \in K : Cardinality({x \in P : phi[x] = y}) <= k
    PROVE  TotalOf([x \in P |-> g[phi[x]]], P) <= k * TotalOf(g, K)
<1> DEFINE f == [x \in P |-> g[phi[x]]]
           over(s) == {x \in P : phi[x] \in s}
           bad == {s \in SUBSET K : ~(TotalOf(f, over(s)) <= k * TotalOf(g, s))}
<1>1. f \in [P -> Int] /\ \A x \in P : f[x] = g[phi[x]]
  OBVIOUS
<1>2. \A s \in SUBSET K : IsFiniteSet(s) /\ s \in SUBSET D /\ IsFiniteSet(over(s)) /\ over(s) \in SUBSET P
  BY FS_Subset
<1>3. over({}) = {} /\ over(K) = P
  OBVIOUS
<1> HIDE DEF f
<1>4. {} \notin bad
  <2>1. TotalOf(f, {}) = 0 /\ TotalOf(g, {}) = 0
    BY <1>1, TotalOfNothing
  <2>2. TotalOf(f, over({})) <= k * TotalOf(g, {})
    <3> HIDE DEF over
    <3> QED
      BY <1>3, <2>1
  <2> QED
    BY <2>2
<1>5. ASSUME NEW s \in bad, s # {} PROVE \E y \in s : s \ {y} \in bad
  <2>1. PICK y \in s : TRUE
    BY <1>5
  <2> DEFINE r == s \ {y}
             fibre == {x \in P : phi[x] = y}
  <2>2. /\ s \in SUBSET K /\ r \in SUBSET K /\ y \in K
        /\ over(s) = over(r) \cup fibre /\ over(r) \cap fibre = {}
    OBVIOUS
  <2>3. IsFiniteSet(fibre) /\ fibre \in SUBSET P /\ Cardinality(fibre) <= k /\ Cardinality(fibre) \in Nat
    BY <2>2, FS_Subset, FS_CardinalityType
  <2>4. \A x \in fibre : f[x] = g[y]
    BY <1>1
  <2>5. ~(TotalOf(f, over(s)) <= k * TotalOf(g, s))
    OBVIOUS
  <2>6. IsFiniteSet(over(r)) /\ over(r) \in SUBSET P /\ IsFiniteSet(r) /\ r \in SUBSET D /\ IsFiniteSet(s) /\ s \in SUBSET D
    BY <1>2, <2>2
  <2>7. g[y] \in Int /\ g[y] >= 0
    BY <2>2
  <2> HIDE DEF over, bad, fibre, r
  <2>8. TotalOf(f, fibre) = g[y] * Cardinality(fibre)
    BY <1>1, <2>3, <2>4, <2>7, TotalOfSame
  <2>9. TotalOf(f, over(s)) = TotalOf(f, over(r)) + TotalOf(f, fibre)
    <3> DEFINE u == over(r)
    <3>1. u \in SUBSET P /\ IsFiniteSet(u) /\ u \cap fibre = {} /\ over(s) = u \cup fibre
      BY <2>2, <2>6
    <3> HIDE DEF u
    <3>2. TotalOf(f, u \cup fibre) = TotalOf(f, u) + TotalOf(f, fibre)
      BY <1>1, <2>3, <3>1, TotalSplits
    <3> QED
      BY <3>1, <3>2 DEF u
  <2>10. TotalOf(g, s) = g[y] + TotalOf(g, r)
    BY <2>6, TotalStep DEF r
  <2>11. TotalOf(f, over(r)) \in Int /\ TotalOf(g, r) \in Int
    BY <1>1, <2>6, TotalIsWhole
  <2> DEFINE a == TotalOf(f, over(r))
             b == TotalOf(g, r)
             n == Cardinality(fibre)
             v == g[y]
  <2>12. a \in Int /\ b \in Int /\ n \in Nat /\ v \in Int /\ v >= 0 /\ n <= k
    BY <2>3, <2>7, <2>11
  <2>13. ~(a + v * n <= k * (v + b))
    BY <2>5, <2>8, <2>9, <2>10
  <2> HIDE DEF a, b, n, v
  <2>14. v * n <= v * k
    BY <2>12
  <2>15. k * (v + b) = v * k + k * b /\ v * n \in Int /\ v * k \in Int /\ k * b \in Int
    BY <2>12
  <2>16. ~(a <= k * b)
    BY <2>12, <2>13, <2>14, <2>15
  <2>17. r \in SUBSET K /\ ~(TotalOf(f, over(r)) <= k * TotalOf(g, r))
    BY <2>2, <2>16 DEF a, b
  <2> QED
    BY <2>17 DEF bad, over, r
<1>6. bad \in SUBSET SUBSET K
  OBVIOUS
<1>7. bad = {}
  <2> HIDE DEF bad
  <2> QED
    BY <1>4, <1>5, <1>6, Shrinking
<1>8. TotalOf(f, over(K)) <= k * TotalOf(g, K)
  BY <1>7
<1> QED
  BY <1>3, <1>8 DEF f
=============================================================================
