----------------------------- MODULE DataFacts -----------------------------
(***************************************************************************)
(* What the data operators compute, for every input. A recursive            *)
(* function is a CHOOSE among the functions that satisfy its equation, so   *)
(* an equation that some function satisfies is one that it satisfies. The   *)
(* induction is over a set of numbers, not over an operator.                *)
(***************************************************************************)
EXTENDS Tables, Integers, Sequences, SequencesExt, FiniteSetTheorems, SequenceTheorems,
        WellFoundedInduction, TLAPS

Below == {p \in Nat \X Nat : p[1] < p[2]}

LEMMA BelowIsWellFounded == IsWellFoundedOn(Below, Nat)
BY NatLessThanWellFounded DEF Below, OpToRel

LEMMA LeastNumber ==
    ASSUME NEW T, T \subseteq Nat, T # {}
    PROVE  \E n \in T : \A m \in T : n <= m
<1>1. PICK n \in T : \A m \in T : <<m, n>> \notin Below
  BY BelowIsWellFounded, WFMin
<1>2. \A m \in T : ~(m < n)
  <2> TAKE m \in T
  <2>1. <<m, n>> \in Nat \X Nat
    BY <1>1
  <2>2. <<m, n>>[1] = m /\ <<m, n>>[2] = n
    OBVIOUS
  <2> QED BY <1>1, <2>1, <2>2 DEF Below
<1> QED BY <1>2

LEMMA InductionOnNat ==
    ASSUME NEW S, 0 \in S, \A n \in Nat : n \in S => n + 1 \in S
    PROVE  Nat \subseteq S
<1> SUFFICES ASSUME Nat \ S # {} PROVE FALSE
  OBVIOUS
<1>1. PICK n \in Nat \ S : \A m \in Nat \ S : n <= m
  <2> DEFINE T == Nat \ S
  <2>1. T \subseteq Nat /\ T # {}
    OBVIOUS
  <2> HIDE DEF T
  <2>2. \E n \in T : \A m \in T : n <= m
    BY <2>1, LeastNumber
  <2> QED BY <2>2 DEF T
<1>2. n # 0 /\ n - 1 \in Nat
  OBVIOUS
<1>3. n - 1 \in S
  BY <1>1, <1>2
<1> QED BY <1>2, <1>3

\* The same up to a bound.
LEMMA InductionUpTo ==
    ASSUME NEW S, NEW N \in Nat, 0 \in S, \A n \in 0 .. N - 1 : n \in S => n + 1 \in S
    PROVE  0 .. N \subseteq S
<1> DEFINE T == {n \in Nat : n <= N => n \in S}
<1>1. 0 \in T
  OBVIOUS
<1>2. \A n \in Nat : n \in T => n + 1 \in T
  OBVIOUS
<1> HIDE DEF T
<1>3. Nat \subseteq T
  BY <1>1, <1>2, InductionOnNat
<1> QED BY <1>3 DEF T

-----------------------------------------------------------------------------
(* Folds over the subsets of a finite set: an element is chosen, and what    *)
(* the fold makes of the rest is taken one step on.                          *)

Folds(f, S, base, choice, step) ==
    /\ f[{}] = base
    /\ \A s \in SUBSET S : s # {} => f[s] = step[<<choice[s], f[s \ {choice[s]}]>>]

LEMMA SmallerWithout ==
    ASSUME NEW S, IsFiniteSet(S), NEW s \in SUBSET S, NEW x \in s
    PROVE  /\ s \ {x} \in SUBSET S /\ IsFiniteSet(s) /\ Cardinality(s) \in Nat \ {0}
           /\ Cardinality(s \ {x}) = Cardinality(s) - 1
BY FS_Subset, FS_CardinalityType, FS_RemoveElement, FS_EmptySet

\* There is a fold for every step.
LEMMA FoldExists ==
    ASSUME NEW S, IsFiniteSet(S), NEW V, NEW base \in V, NEW choice, NEW step \in [S \X V -> V],
           \A s \in SUBSET S : s # {} => choice[s] \in s
    PROVE  \E f \in [SUBSET S -> V] : Folds(f, S, base, choice, step)
<1> DEFINE Upto(n) == {s \in SUBSET S : Cardinality(s) <= n}
           Next(f, s) == IF s = {} THEN base ELSE step[<<choice[s], f[s \ {choice[s]}]>>]
           Good == {n \in Nat : \E f \in [Upto(n) -> V] : f = [s \in Upto(n) |-> Next(f, s)]}
<1>1. \A s \in SUBSET S : Cardinality(s) \in Nat /\ Cardinality(s) <= Cardinality(S)
  BY FS_Subset, FS_CardinalityType
<1>2. 0 \in Good
  <2> DEFINE g == [s \in Upto(0) |-> base]
  <2>1. \A s \in Upto(0) : s = {}
    BY <1>1, FS_Subset, FS_EmptySet
  <2>2. g = [s \in Upto(0) |-> Next(g, s)]
    BY <2>1
  <2> QED BY <2>2
<1>3. ASSUME NEW n \in Nat, n \in Good
      PROVE  n + 1 \in Good
  <2>1. PICK f \in [Upto(n) -> V] : f = [s \in Upto(n) |-> Next(f, s)]
    BY <1>3
  <2> DEFINE g == [s \in Upto(n + 1) |-> Next(f, s)]
  <2>2. \A s \in Upto(n + 1) : s # {} => choice[s] \in S /\ s \ {choice[s]} \in Upto(n)
    BY SmallerWithout
  <2>3. g \in [Upto(n + 1) -> V]
    BY <2>2
  <2>4. \A s \in Upto(n) : s \in Upto(n + 1) /\ g[s] = f[s]
    <3>1. \A s \in Upto(n) : s \in Upto(n + 1)
      BY <1>1
    <3> HIDE DEF Upto, Next
    <3>2. \A s \in Upto(n + 1) : g[s] = Next(f, s)
      OBVIOUS
    <3>3. \A s \in Upto(n) : f[s] = Next(f, s)
      BY <2>1
    <3> QED BY <3>1, <3>2, <3>3
  <2>5. \A s \in Upto(n + 1) : Next(g, s) = Next(f, s)
    BY <2>2, <2>4
  <2>6. g = [s \in Upto(n + 1) |-> Next(g, s)]
    <3> HIDE DEF Upto, Next
    <3> QED BY <2>5
  <2>7. \E h \in [Upto(n + 1) -> V] : h = [s \in Upto(n + 1) |-> Next(h, s)]
    <3> HIDE DEF Next, Upto
    <3> QED BY <2>3, <2>6
  <2>8. n + 1 \in Nat
    OBVIOUS
  <2> HIDE DEF Next, Upto
  <2> QED BY <2>7, <2>8, Zenon
<1>4. Cardinality(S) \in Good
  <2> HIDE DEF Good
  <2> QED BY <1>1, <1>2, <1>3, InductionOnNat
<1>5. Upto(Cardinality(S)) = SUBSET S
  BY <1>1
<1>6. PICK f \in [SUBSET S -> V] : f = [s \in SUBSET S |-> Next(f, s)]
  <2> HIDE DEF Next, Upto
  <2> QED BY <1>4, <1>5
<1> QED BY <1>6 DEF Folds

\* What holds of the empty set, and of a set if it holds of the set without a
\* member of it, holds of all subsets of a finite set.
LEMMA SubsetInduction ==
    ASSUME NEW S, IsFiniteSet(S), NEW Good, {} \in Good,
           \A s \in SUBSET S : s # {} => \E x \in s : s \ {x} \in Good => s \in Good
    PROVE  SUBSET S \subseteq Good
<1> DEFINE Sizes == {n \in Nat : \A s \in SUBSET S : Cardinality(s) <= n => s \in Good}
<1>1. \A s \in SUBSET S : Cardinality(s) \in Nat /\ Cardinality(s) <= Cardinality(S)
  BY FS_Subset, FS_CardinalityType
<1>2. 0 \in Sizes
  BY <1>1, FS_Subset, FS_EmptySet
<1>3. ASSUME NEW n \in Nat, n \in Sizes
      PROVE  n + 1 \in Sizes
  <2>1. ASSUME NEW s \in SUBSET S, Cardinality(s) <= n + 1, s # {}
        PROVE  s \in Good
    <3>1. PICK x \in s : s \ {x} \in Good => s \in Good
      BY <2>1
    <3>2. s \ {x} \in SUBSET S /\ Cardinality(s \ {x}) <= n
      BY <2>1, SmallerWithout
    <3> QED BY <1>3, <3>1, <3>2
  <2>2. \A s \in SUBSET S : Cardinality(s) <= n + 1 => s \in Good
    BY <2>1, Zenon
  <2>3. n + 1 \in Nat
    OBVIOUS
  <2> QED BY <2>2, <2>3
<1>4. Cardinality(S) \in Sizes
  <2> HIDE DEF Sizes
  <2> QED BY <1>1, <1>2, <1>3, InductionOnNat
<1> QED BY <1>1, <1>4

-----------------------------------------------------------------------------
(* The largest and the smallest of a set of positions.                       *)

LEMMA MaxOfPositions ==
    ASSUME NEW n \in Nat, NEW s \in SUBSET (1 .. n), s # {}
    PROVE  /\ Max(s) \in s
           /\ \A i \in s : i <= Max(s)
<1> DEFINE T == {n - i : i \in s}
<1>1. T \subseteq Nat /\ T # {}
  OBVIOUS
<1>2. PICK k \in T : \A m \in T : k <= m
  <2> HIDE DEF T
  <2> QED BY <1>1, LeastNumber
<1>3. \E i \in s : \A j \in s : i >= j
  BY <1>2
<1> QED BY <1>3 DEF Max

LEMMA MinOfPositions ==
    ASSUME NEW s, s \subseteq Nat, s # {}
    PROVE  /\ Min(s) \in s
           /\ \A i \in s : Min(s) <= i
<1>1. \E i \in s : \A j \in s : i <= j
  BY LeastNumber
<1> QED BY <1>1 DEF Min

-----------------------------------------------------------------------------
(* Sums of a sequence of numbers, in the form in which FoldLeft has them.    *)

SumStep(f, w, s) == IF s = {} THEN 0 ELSE LET i == Max(s) IN f[s \ {i}] + w[i]
SumOf(w) == (CHOOSE f : f = [s \in SUBSET DOMAIN w |-> SumStep(f, w, s)])[DOMAIN w]

LEMMA SumIsDefined ==
    ASSUME NEW n \in Nat, NEW w, DOMAIN w = 1 .. n, \A i \in 1 .. n : w[i] \in Nat
    PROVE  \E f : /\ f[{}] = 0 /\ SumOf(w) = f[1 .. n]
                  /\ \A s \in SUBSET (1 .. n) : s # {} =>
                        Max(s) \in s /\ f[s] = f[s \ {Max(s)}] + w[Max(s)]
<1> DEFINE D == 1 .. n
           most == [s \in SUBSET D |-> Max(s)]
           plus == [p \in D \X Nat |-> p[2] + w[p[1]]]
           Sums(f) == f = [s \in SUBSET D |-> SumStep(f, w, s)]
<1>1. IsFiniteSet(D)
  BY FS_Interval
<1>2. \A s \in SUBSET D : s # {} => most[s] \in s /\ most[s] = Max(s)
  BY MaxOfPositions
<1>3. plus \in [D \X Nat -> Nat]
  OBVIOUS
<1>4. PICK f \in [SUBSET D -> Nat] : Folds(f, D, 0, most, plus)
  <2> HIDE DEF most, plus, D
  <2> QED BY <1>1, <1>2, <1>3, FoldExists
<1>5. \A s \in SUBSET D : s # {} => f[s] = f[s \ {Max(s)}] + w[Max(s)]
  <2> HIDE DEF D
  <2> QED BY <1>2, <1>4 DEF Folds
<1>6. Sums(f)
  BY <1>4, <1>5 DEF Folds, SumStep
<1> DEFINE F == CHOOSE g : Sums(g)
<1>7. SumOf(w) = F[D]
  BY Zenon DEF SumOf
<1>8. Sums(F)
  <2> HIDE DEF Sums
  <2> QED BY <1>6
<1>9. F[{}] = 0 /\ \A s \in SUBSET D : s # {} => F[s] = F[s \ {Max(s)}] + w[Max(s)]
  <2> HIDE DEF F
  <2> QED BY <1>8 DEF SumStep
<1> HIDE DEF F
<1> QED BY <1>2, <1>7, <1>9

LEMMA SumIsBounded ==
    ASSUME NEW n \in Nat, NEW w, DOMAIN w = 1 .. n, NEW b \in Nat, \A i \in 1 .. n : w[i] \in 0 .. b
    PROVE  SumOf(w) \in 0 .. n * b
<1>1. PICK f : /\ f[{}] = 0 /\ SumOf(w) = f[1 .. n]
               /\ \A s \in SUBSET (1 .. n) : s # {} =>
                     Max(s) \in s /\ f[s] = f[s \ {Max(s)}] + w[Max(s)]
  <2>1. \A i \in 1 .. n : w[i] \in Nat
    OBVIOUS
  <2> QED BY <2>1, SumIsDefined
<1> DEFINE D == 1 .. n
           Good == {s \in SUBSET D : f[s] \in 0 .. Cardinality(s) * b}
<1>2. IsFiniteSet(D) /\ Cardinality(D) = n
  BY FS_Interval
<1>3. {} \in Good
  BY <1>1, FS_EmptySet
<1>4. ASSUME NEW s \in SUBSET D, s # {}
      PROVE  \E i \in s : s \ {i} \in Good => s \in Good
  <2> DEFINE i == Max(s)
  <2>1. i \in s /\ w[i] \in 0 .. b /\ f[s] = f[s \ {i}] + w[i]
    BY <1>1, <1>4
  <2>2. Cardinality(s) \in Nat \ {0} /\ Cardinality(s \ {i}) = Cardinality(s) - 1
    BY <1>2, <2>1, SmallerWithout
  <2>3. (Cardinality(s) - 1) * b + b = Cardinality(s) * b
    BY <2>2
  <2> HIDE DEF i
  <2>4. f[s \ {i}] \in 0 .. (Cardinality(s) - 1) * b => f[s] \in 0 .. Cardinality(s) * b
    BY <2>1, <2>2, <2>3
  <2>5. s \ {i} \in Good => s \in Good
    BY <2>1, <2>2, <2>4
  <2> QED BY <2>1, <2>5
<1>5. SUBSET D \subseteq Good
  <2> HIDE DEF Good, D
  <2> QED BY <1>2, <1>3, <1>4, SubsetInduction
<1> QED BY <1>1, <1>2, <1>5

LEMMA SumIsNatural ==
    ASSUME NEW n \in Nat, NEW w, DOMAIN w = 1 .. n, \A i \in 1 .. n : w[i] \in Nat
    PROVE  SumOf(w) \in Nat
<1>1. PICK f : /\ f[{}] = 0 /\ SumOf(w) = f[1 .. n]
               /\ \A s \in SUBSET (1 .. n) : s # {} =>
                     Max(s) \in s /\ f[s] = f[s \ {Max(s)}] + w[Max(s)]
  BY SumIsDefined
<1> DEFINE D == 1 .. n
           Good == {s \in SUBSET D : f[s] \in Nat}
<1>2. IsFiniteSet(D)
  BY FS_Interval
<1>3. {} \in Good
  BY <1>1
<1>4. ASSUME NEW s \in SUBSET D, s # {}
      PROVE  \E i \in s : s \ {i} \in Good => s \in Good
  <2> DEFINE i == Max(s)
  <2>1. i \in s /\ w[i] \in Nat /\ f[s] = f[s \ {i}] + w[i]
    BY <1>1, <1>4
  <2> HIDE DEF i
  <2>2. s \ {i} \in Good => s \in Good
    BY <2>1
  <2> QED BY <2>1, <2>2
<1>5. SUBSET D \subseteq Good
  <2> HIDE DEF Good, D
  <2> QED BY <1>2, <1>3, <1>4, SubsetInduction
<1> QED BY <1>1, <1>5

-----------------------------------------------------------------------------
(* Sequences.                                                                *)

LEMMA RemoveAtKeeps ==
    ASSUME NEW S, NEW seq \in Seq(S), NEW i \in 1 .. Len(seq)
    PROVE  /\ RemoveAt(seq, i) \in Seq(S)
           /\ Len(RemoveAt(seq, i)) = Len(seq) - 1
           /\ \A k \in 1 .. Len(seq) - 1 :
                 RemoveAt(seq, i)[k] = IF k < i THEN seq[k] ELSE seq[k + 1]
<1> DEFINE a == SubSeq(seq, 1, i - 1)
           b == SubSeq(seq, i + 1, Len(seq))
<1>1. a \in Seq(S) /\ Len(a) = i - 1 /\ \A k \in 1 .. i - 1 : a[k] = seq[k]
  BY SubSeqProperties
<1>2. b \in Seq(S) /\ Len(b) = Len(seq) - i /\ \A k \in 1 .. Len(seq) - i : b[k] = seq[k + i]
  <2>1. \A k \in i + 1 .. Len(seq) : seq[k] \in S
    OBVIOUS
  <2> QED BY <2>1, SubSeqProperties
<1>3. RemoveAt(seq, i) = a \o b
  BY DEF RemoveAt
<1> HIDE DEF a, b
<1>4. /\ a \o b \in Seq(S) /\ Len(a \o b) = Len(a) + Len(b)
      /\ \A k \in 1 .. Len(a) + Len(b) : (a \o b)[k] = IF k <= Len(a) THEN a[k] ELSE b[k - Len(a)]
  <2>1. a \in Seq(S) /\ b \in Seq(S)
    BY <1>1, <1>2
  <2> QED BY <2>1, ConcatProperties
<1>5. Len(seq) \in Nat /\ Len(a) + Len(b) = Len(seq) - 1
  BY <1>1, <1>2
<1>6. ASSUME NEW k \in 1 .. Len(seq) - 1
      PROVE  (a \o b)[k] = IF k < i THEN seq[k] ELSE seq[k + 1]
  <2>1. (a \o b)[k] = IF k <= i - 1 THEN a[k] ELSE b[k - (i - 1)]
    BY <1>1, <1>4, <1>5
  <2>2. CASE k < i
    BY <1>1, <2>1, <2>2, <1>5
  <2>3. CASE k >= i
    <3>1. k - (i - 1) \in 1 .. Len(seq) - i
      BY <2>3, <1>5
    <3>2. b[k - (i - 1)] = seq[k - (i - 1) + i]
      BY <1>2, <3>1
    <3>3. k - (i - 1) + i = k + 1 /\ ~(k <= i - 1) /\ ~(k < i)
      BY <2>3, <1>5
    <3> QED BY <2>1, <3>2, <3>3
  <2>4. k < i \/ k >= i
    BY <1>5
  <2> QED BY <2>2, <2>3, <2>4
<1>7. Len(a \o b) = Len(seq) - 1
  BY <1>4, <1>5
<1> QED BY <1>3, <1>4, <1>6, <1>7

-----------------------------------------------------------------------------
(* Numbers from the highest down.                                            *)

Descends(s) == \A i, k \in DOMAIN s : i < k => s[i] > s[k]

LEMMA DescentExists ==
    ASSUME NEW T, T \subseteq Nat, IsFiniteSet(T)
    PROVE  \E s \in [1 .. Cardinality(T) -> T] : Range(s) = T /\ Descends(s)
<1> DEFINE Is(U, s) == Range(s) = U /\ Descends(s)
           Good == {n \in Nat : \A U \in SUBSET Nat : IsFiniteSet(U) /\ Cardinality(U) = n =>
                                   \E s \in [1 .. n -> U] : Is(U, s)}
<1>1. 0 \in Good
  <2>1. ASSUME NEW U \in SUBSET Nat, IsFiniteSet(U), Cardinality(U) = 0
        PROVE  \E s \in [1 .. 0 -> U] : Is(U, s)
    <3>1. U = {}
      BY <2>1, FS_EmptySet
    <3> DEFINE s == [i \in 1 .. 0 |-> i]
    <3>2. s \in [1 .. 0 -> U] /\ DOMAIN s = {}
      OBVIOUS
    <3> HIDE DEF s
    <3>3. Range(s) = {} /\ Descends(s)
      BY <3>2 DEF Range, Descends
    <3> QED BY <3>1, <3>2, <3>3
  <2> QED BY <2>1
<1>2. ASSUME NEW n \in Nat, n \in Good
      PROVE  n + 1 \in Good
  <2>1. ASSUME NEW U \in SUBSET Nat, IsFiniteSet(U), Cardinality(U) = n + 1
        PROVE  \E s \in [1 .. n + 1 -> U] : Is(U, s)
    <3>1. U # {}
      BY <2>1, FS_EmptySet
    <3>2. PICK m \in U : \A k \in U : m <= k
      BY <3>1, LeastNumber
    <3>3. IsFiniteSet(U \ {m}) /\ Cardinality(U \ {m}) = n
      BY <2>1, FS_RemoveElement
    <3>4. PICK t \in [1 .. n -> U \ {m}] : Is(U \ {m}, t)
      BY <1>2, <3>3
    <3> DEFINE s == [i \in 1 .. n + 1 |-> IF i = n + 1 THEN m ELSE t[i]]
    <3>5. /\ s \in [1 .. n + 1 -> U] /\ DOMAIN s = 1 .. n + 1 /\ s[n + 1] = m
          /\ \A i \in 1 .. n : s[i] = t[i] /\ t[i] \in U /\ t[i] > m
      <4>1. \A i \in 1 .. n : i \in 1 .. n + 1 /\ i # n + 1
        OBVIOUS
      <4>2. \A k \in U \ {m} : k \in Nat /\ k > m
        <5> TAKE k \in U \ {m}
        <5>1. k \in Nat /\ m \in Nat /\ k # m /\ m <= k
          BY <3>2
        <5> QED BY <5>1
      <4>3. \A i \in 1 .. n : t[i] \in U \ {m}
        OBVIOUS
      <4>4. n + 1 \in 1 .. n + 1
        OBVIOUS
      <4>5. \A i \in 1 .. n + 1 : i = n + 1 \/ i \in 1 .. n
        OBVIOUS
      <4>6. \A i \in 1 .. n : s[i] = t[i]
        BY <4>1
      <4>7. s[n + 1] = m /\ DOMAIN s = 1 .. n + 1
        BY <4>4
      <4>8. s \in [1 .. n + 1 -> U]
        BY <3>2, <4>3, <4>5
      <4> QED BY <4>2, <4>3, <4>6, <4>7, <4>8
    <3> HIDE DEF s
    <3>6. Descends(s)
      BY <3>4, <3>5 DEF Descends
    <3>7. Range(s) = U
      <4>1. Range(t) = U \ {m} /\ DOMAIN t = 1 .. n
        BY <3>4
      <4>2. \A x \in U : \E i \in 1 .. n + 1 : s[i] = x
        <5> TAKE x \in U
        <5>1. CASE x = m
          BY <3>5, <5>1
        <5>2. CASE x # m
          BY <3>5, <4>1, <5>2 DEF Range
        <5> QED BY <5>1, <5>2
      <4>3. \A i \in 1 .. n + 1 : s[i] \in U
        BY <3>5
      <4> QED BY <3>5, <4>2, <4>3 DEF Range
    <3> QED BY <3>5, <3>6, <3>7
  <2>2. n + 1 \in Nat
    OBVIOUS
  <2> HIDE DEF Is
  <2> QED BY <2>1, <2>2
<1>3. Cardinality(T) \in Nat
  BY FS_CardinalityType
<1>4. Cardinality(T) \in Good
  <2> HIDE DEF Good
  <2> QED BY <1>1, <1>2, <1>3, InductionOnNat
<1> QED BY <1>4

LEMMA ConcatDescends ==
    ASSUME NEW a \in Seq(Nat), NEW b \in Seq(Nat), Descends(a), Descends(b),
           \A x \in Range(a), y \in Range(b) : x > y
    PROVE  /\ a \o b \in Seq(Nat) /\ Descends(a \o b)
           /\ Range(a \o b) = Range(a) \cup Range(b)
           /\ a # << >> => a \o b # << >> /\ (a \o b)[1] = a[1]
<1> DEFINE c == a \o b
<1>1. /\ c \in Seq(Nat) /\ Len(c) = Len(a) + Len(b) /\ Len(a) \in Nat /\ Len(b) \in Nat
      /\ \A i \in 1 .. Len(a) + Len(b) : c[i] = IF i <= Len(a) THEN a[i] ELSE b[i - Len(a)]
      /\ DOMAIN a = 1 .. Len(a) /\ DOMAIN b = 1 .. Len(b) /\ DOMAIN c = 1 .. Len(c)
  BY ConcatProperties
<1> HIDE DEF c
<1>2. \A i \in DOMAIN a : c[i] = a[i] /\ i \in DOMAIN c
  BY <1>1
<1>3. ASSUME NEW i \in DOMAIN b PROVE i + Len(a) \in DOMAIN c /\ c[i + Len(a)] = b[i]
  <2>1. i \in 1 .. Len(b) /\ i + Len(a) \in 1 .. Len(a) + Len(b)
    BY <1>1
  <2>2. ~(i + Len(a) <= Len(a)) /\ i + Len(a) - Len(a) = i
    BY <1>1, <2>1
  <2> QED BY <1>1, <2>1, <2>2
<1>4. \A i \in DOMAIN c : i \in DOMAIN a \/ (~(i <= Len(a)) /\ i - Len(a) \in DOMAIN b /\ c[i] = b[i - Len(a)])
  BY <1>1
<1>5. \A i \in DOMAIN a : a[i] \in Nat /\ a[i] \in Range(a)
  BY <1>1 DEF Range
<1>6. \A i \in DOMAIN b : b[i] \in Nat /\ b[i] \in Range(b)
  BY <1>1 DEF Range
<1>7. ASSUME NEW i \in DOMAIN c, NEW k \in DOMAIN c, i < k
      PROVE  c[i] > c[k]
  <2>1. CASE i \in DOMAIN a /\ k \in DOMAIN a
    BY <1>2, <1>7, <2>1 DEF Descends
  <2>2. CASE i \in DOMAIN a /\ k \notin DOMAIN a
    BY <1>2, <1>4, <1>5, <1>6, <2>2
  <2>3. CASE i \notin DOMAIN a
    <3>1. k \notin DOMAIN a
      BY <1>1, <1>7, <2>3
    <3>2. i - Len(a) \in DOMAIN b /\ k - Len(a) \in DOMAIN b /\ i - Len(a) < k - Len(a)
      BY <1>1, <1>4, <1>7, <2>3, <3>1
    <3> QED BY <1>4, <2>3, <3>1, <3>2 DEF Descends
  <2> QED BY <2>1, <2>2, <2>3
<1>8. Range(c) = Range(a) \cup Range(b)
  <2>1. Range(c) \subseteq Range(a) \cup Range(b)
    BY <1>2, <1>4, <1>5, <1>6 DEF Range
  <2>2. Range(a) \subseteq Range(c) /\ Range(b) \subseteq Range(c)
    BY <1>2, <1>3 DEF Range
  <2> QED BY <2>1, <2>2
<1>9. ASSUME a # << >> PROVE c # << >> /\ c[1] = a[1]
  <2>1. 1 \in DOMAIN a
    BY <1>1, <1>9
  <2> QED BY <1>1, <1>2, <2>1
<1> QED BY <1>1, <1>7, <1>8, <1>9 DEF Descends, c

-----------------------------------------------------------------------------
(* One sequence after another.                                               *)

FlattenStep(f, w, i) == IF i = 1 THEN w[i] ELSE f[i - 1] \o w[i]

LEMMA FlattenIsDefined ==
    ASSUME NEW w, Len(w) \in Nat \ {0}
    PROVE  \E f : /\ FlattenSeq(w) = f[Len(w)] /\ f[1] = w[1]
                  /\ \A i \in 2 .. Len(w) : f[i] = f[i - 1] \o w[i]
<1> DEFINE n == Len(w)
<1>0. n \in Nat \ {0}
  OBVIOUS
<1>a. FlattenSeq(w) = (CHOOSE f : f = [i \in 1 .. Len(w) |-> IF i = 1 THEN w[i] ELSE f[i - 1] \o w[i]])[Len(w)]
  BY Zenon DEF FlattenSeq
<1> HIDE DEF n
<1>b. FlattenSeq(w) = (CHOOSE f : f = [i \in 1 .. n |-> IF i = 1 THEN w[i] ELSE f[i - 1] \o w[i]])[n]
  BY <1>a DEF n
<1> DEFINE Solves(f, k) == f = [i \in 1 .. k |-> FlattenStep(f, w, i)]
           Good == {k \in Nat : \E f : Solves(f, k)}
<1>1. 0 \in Good
  <2> DEFINE f == [i \in 1 .. 0 |-> i]
  <2>1. Solves(f, 0)
    OBVIOUS
  <2> QED BY <2>1
<1>2. ASSUME NEW k \in Nat, k \in Good PROVE k + 1 \in Good
  <2>1. PICK f : Solves(f, k)
    BY <1>2
  <2> DEFINE g == [i \in 1 .. k + 1 |-> FlattenStep(f, w, i)]
  <2>2. \A i \in 1 .. k : g[i] = f[i]
    BY <2>1
  <2>3. \A i \in 1 .. k + 1 : FlattenStep(f, w, i) = FlattenStep(g, w, i)
    <3> TAKE i \in 1 .. k + 1
    <3>1. i = 1 \/ i - 1 \in 1 .. k
      OBVIOUS
    <3> HIDE DEF g
    <3> QED BY <2>2, <3>1 DEF FlattenStep
  <2>4. g = [i \in 1 .. k + 1 |-> FlattenStep(g, w, i)]
    BY <2>3
  <2> HIDE DEF g
  <2>5. Solves(g, k + 1)
    BY <2>4
  <2> HIDE DEF Solves
  <2> QED BY <2>5
<1>3. n \in Good
  <2> HIDE DEF Good
  <2> QED BY <1>0, <1>1, <1>2, InductionOnNat
<1> DEFINE F == CHOOSE f : Solves(f, n)
<1>4. Solves(F, n)
  BY <1>3
<1>5. FlattenSeq(w) = F[n]
  <2>1. FlattenSeq(w) = (CHOOSE f : f = [i \in 1 .. n |-> IF i = 1 THEN w[i] ELSE f[i - 1] \o w[i]])[n]
    BY <1>b
  <2>2. \A f : (f = [i \in 1 .. n |-> IF i = 1 THEN w[i] ELSE f[i - 1] \o w[i]]) <=> Solves(f, n)
    BY DEF FlattenStep
  <2>3. (CHOOSE f : f = [i \in 1 .. n |-> IF i = 1 THEN w[i] ELSE f[i - 1] \o w[i]])
          = CHOOSE f : Solves(f, n)
    <3> DEFINE P(f) == f = [i \in 1 .. n |-> IF i = 1 THEN w[i] ELSE f[i - 1] \o w[i]]
    <3>1. \A f : P(f) <=> Solves(f, n)
      BY <2>2
    <3> HIDE DEF P, Solves
    <3>2. (CHOOSE f : P(f)) = CHOOSE f : Solves(f, n)
      BY <3>1
    <3> QED BY <3>2 DEF P
  <2> QED BY <2>1, <2>3
<1> HIDE DEF F
<1>6. F[1] = w[1] /\ \A i \in 2 .. n : F[i] = F[i - 1] \o w[i]
  <2>1. \A i \in 1 .. n : F[i] = FlattenStep(F, w, i)
    BY <1>4
  <2>2. 1 \in 1 .. n /\ \A i \in 2 .. n : i \in 1 .. n /\ i # 1
    BY <1>0
  <2> QED BY <2>1, <2>2 DEF FlattenStep
<1> QED BY <1>5, <1>6 DEF n

\* Falling sequences of which each is below the one before make one that falls.
LEMMA FlattenDescends ==
    ASSUME NEW n \in Nat, NEW w, Len(w) = n,
           \A i \in 1 .. n : w[i] \in Seq(Nat) /\ Descends(w[i]),
           \A i, k \in 1 .. n : i < k => \A x \in Range(w[i]), y \in Range(w[k]) : x > y
    PROVE  n # 0 =>
           /\ FlattenSeq(w) \in Seq(Nat) /\ Descends(FlattenSeq(w))
           /\ Range(FlattenSeq(w)) = UNION {Range(w[i]) : i \in 1 .. n}
           /\ w[1] # << >> => FlattenSeq(w)[1] = w[1][1]
<1> SUFFICES ASSUME n # 0
             PROVE  /\ FlattenSeq(w) \in Seq(Nat) /\ Descends(FlattenSeq(w))
                    /\ Range(FlattenSeq(w)) = UNION {Range(w[i]) : i \in 1 .. n}
                    /\ w[1] # << >> => FlattenSeq(w)[1] = w[1][1]
  OBVIOUS
<1>1. PICK f : /\ FlattenSeq(w) = f[n] /\ f[1] = w[1]
               /\ \A i \in 2 .. n : f[i] = f[i - 1] \o w[i]
  <2>1. Len(w) \in Nat \ {0}
    OBVIOUS
  <2>2. \E f : /\ FlattenSeq(w) = f[Len(w)] /\ f[1] = w[1]
               /\ \A i \in 2 .. Len(w) : f[i] = f[i - 1] \o w[i]
    BY <2>1, FlattenIsDefined
  <2> QED BY <2>2
<1> DEFINE Made(k) == /\ f[k] \in Seq(Nat) /\ Descends(f[k])
                      /\ Range(f[k]) = UNION {Range(w[i]) : i \in 1 .. k}
                      /\ w[1] # << >> => f[k] # << >> /\ f[k][1] = w[1][1]
           Good == {k \in Nat : k + 1 <= n => Made(k + 1)}
<1>2. 0 \in Good
  <2>1. UNION {Range(w[i]) : i \in 1 .. 1} = Range(w[1])
    OBVIOUS
  <2>2. f[1] \in Seq(Nat) /\ Descends(f[1])
    BY <1>1
  <2>3. Made(1)
    BY <1>1, <2>1, <2>2
  <2>4. 0 + 1 = 1 /\ 0 \in Nat
    OBVIOUS
  <2> HIDE DEF Made
  <2> QED BY <2>3, <2>4
<1>3. ASSUME NEW k \in Nat, k \in Good PROVE k + 1 \in Good
  <2>1. SUFFICES ASSUME k + 2 <= n PROVE Made(k + 2)
    <3>1. k + 1 \in Nat /\ (k + 1) + 1 = k + 2
      OBVIOUS
    <3> HIDE DEF Made
    <3> QED BY <3>1
  <2>2. /\ Made(k + 1) /\ k + 2 \in 1 .. n /\ k + 2 \in 2 .. n /\ k + 2 - 1 = k + 1
    BY <1>3, <2>1
  <2>3. f[k + 2] = f[k + 1] \o w[k + 2]
    <3>1. PICK j : j = k + 2
      OBVIOUS
    <3>2. j \in 2 .. n /\ j - 1 = k + 1
      BY <2>2, <3>1
    <3>3. f[j] = f[j - 1] \o w[j]
      BY <1>1, <3>2
    <3> QED BY <3>1, <3>2, <3>3
  <2>4. \A i \in 1 .. k + 1 : i \in 1 .. n /\ i < k + 2
    BY <2>1
  <2>5. \A x \in Range(f[k + 1]), y \in Range(w[k + 2]) : x > y
    BY <2>2, <2>4
  <2>6. w[k + 2] \in Seq(Nat) /\ Descends(w[k + 2])
    BY <2>2
  <2>7. UNION {Range(w[i]) : i \in 1 .. k + 2} = (UNION {Range(w[i]) : i \in 1 .. k + 1}) \cup Range(w[k + 2])
    <3>1. 1 .. k + 2 = (1 .. k + 1) \cup {k + 2}
      OBVIOUS
    <3> QED BY <3>1
  <2> DEFINE a == f[k + 1]
             b == w[k + 2]
  <2>8. a \in Seq(Nat) /\ b \in Seq(Nat) /\ Descends(a) /\ Descends(b)
        /\ \A x \in Range(a), y \in Range(b) : x > y
    BY <2>2, <2>5, <2>6
  <2> HIDE DEF a, b
  <2>9. /\ a \o b \in Seq(Nat) /\ Descends(a \o b)
        /\ Range(a \o b) = Range(a) \cup Range(b)
        /\ a # << >> => a \o b # << >> /\ (a \o b)[1] = a[1]
    BY <2>8, ConcatDescends
  <2> QED BY <2>2, <2>3, <2>7, <2>9 DEF a, b
<1>4. n - 1 \in Good
  <2>1. n - 1 \in Nat
    OBVIOUS
  <2> HIDE DEF Good
  <2> QED BY <1>2, <1>3, <2>1, InductionOnNat
<1>5. Made(n)
  <2>1. (n - 1) + 1 = n
    OBVIOUS
  <2> HIDE DEF Made
  <2> QED BY <1>4, <2>1
<1> QED BY <1>1, <1>5

-----------------------------------------------------------------------------
(* Recursion over numbers, where each is defined from one that is less, or   *)
(* is a base.                                                                *)

Recurs(f, n, B, first, prev, step) ==
    \A k \in 0 .. n : f[k] = IF k \in B THEN first[k] ELSE step[<<k, f[prev[k]]>>]

LEMMA RecursionUpTo ==
    ASSUME NEW n \in Nat, NEW V, NEW B, NEW first, \A k \in 0 .. n : first[k] \in V,
           NEW step \in [(0 .. n) \X V -> V],
           NEW prev, \A k \in 0 .. n : k \notin B => prev[k] \in 0 .. k - 1
    PROVE  \E f \in [0 .. n -> V] : Recurs(f, n, B, first, prev, step)
<1> DEFINE Good == {m \in 0 .. n : \E f \in [0 .. m -> V] : Recurs(f, m, B, first, prev, step)}
<1>1. 0 \in Good
  <2> DEFINE f == [k \in 0 .. 0 |-> first[k]]
  <2>1. f \in [0 .. 0 -> V]
    OBVIOUS
  <2>2. 0 \in B
    OBVIOUS
  <2>3. Recurs(f, 0, B, first, prev, step)
    BY <2>2 DEF Recurs
  <2> HIDE DEF f
  <2> QED BY <2>1, <2>3
<1>2. ASSUME NEW m \in 0 .. n - 1, m \in Good
      PROVE  m + 1 \in Good
  <2>1. PICK f \in [0 .. m -> V] : Recurs(f, m, B, first, prev, step)
    BY <1>2
  <2> DEFINE k == m + 1
             last == IF k \in B THEN first[k] ELSE step[<<k, f[prev[k]]>>]
             g == [i \in 0 .. k |-> IF i = k THEN last ELSE f[i]]
  <2>2. k \in 0 .. n /\ (k \notin B => prev[k] \in 0 .. m) /\ k \notin 0 .. m
    OBVIOUS
  <2>3. last \in V
    <3>1. CASE k \in B
      BY <2>2, <3>1
    <3>2. CASE k \notin B
      <4>1. f[prev[k]] \in V
        BY <2>2, <3>2
      <4>2. <<k, f[prev[k]]>> \in (0 .. n) \X V
        BY <2>2, <4>1
      <4> QED BY <3>2, <4>2
    <3> QED BY <3>1, <3>2
  <2>4. last = IF k \in B THEN first[k] ELSE step[<<k, f[prev[k]]>>]
    OBVIOUS
  <2>5. 0 .. k = (0 .. m) \cup {k}
    OBVIOUS
  <2> HIDE DEF last, k
  <2>6. g \in [0 .. k -> V] /\ g[k] = last /\ \A i \in 0 .. m : g[i] = f[i]
    BY <2>2, <2>3, <2>5
  <2> HIDE DEF g
  <2>7. ASSUME NEW i \in 0 .. k
        PROVE  g[i] = IF i \in B THEN first[i] ELSE step[<<i, g[prev[i]]>>]
    <3>1. CASE i = k
      <4>1. k \notin B => g[prev[k]] = f[prev[k]]
        BY <2>2, <2>6
      <4> QED BY <2>4, <2>6, <3>1, <4>1
    <3>2. CASE i \in 0 .. m
      <4>1. i \notin B => prev[i] \in 0 .. i - 1
        BY <3>2
      <4>2. i \notin B => prev[i] \in 0 .. m
        BY <3>2, <4>1
      <4>3. g[i] = f[i] /\ (i \notin B => g[prev[i]] = f[prev[i]])
        BY <2>6, <3>2, <4>2
      <4>4. f[i] = IF i \in B THEN first[i] ELSE step[<<i, f[prev[i]]>>]
        BY <2>1, <3>2 DEF Recurs
      <4> QED BY <4>3, <4>4
    <3> QED BY <2>5, <2>7, <3>1, <3>2
  <2>8. Recurs(g, k, B, first, prev, step)
    BY <2>7 DEF Recurs
  <2>9. k \in Good
    BY <2>2, <2>6, <2>8
  <2> QED BY <2>9 DEF k
<1> HIDE DEF Good
<1>3. 0 .. n \subseteq Good
  BY <1>1, <1>2, InductionUpTo
<1>4. n \in Good
  BY <1>3
<1> QED BY <1>4 DEF Good

-----------------------------------------------------------------------------
(* Positions. The rows of a set are placed 0, 1, 2 and so on; what the       *)
(* commands do to the places keeps it so.                                    *)

LEMMA PlacesDiffer ==
    ASSUME NEW f, NEW S, IsFiniteSet(S), Dense(f, S)
    PROVE  /\ Cardinality(S) \in Nat
           /\ \A x \in S : f[x].place \in 0 .. Cardinality(S) - 1
           /\ \A x, y \in S : f[x].place = f[y].place => x = y
<1>1. PICK n \in Nat : n = Cardinality(S)
  BY FS_CardinalityType
<1>2. PICK p : p = [x \in S |-> f[x].place]
  OBVIOUS
<1>3. {f[x].place : x \in S} = 0 .. n - 1
  BY <1>1 DEF Dense
<1>4. p \in Surjection(S, 0 .. n - 1)
  BY <1>2, <1>3 DEF Surjection
<1>5. Cardinality(0 .. n - 1) = n
  BY <1>1, FS_Interval
<1>6. p \in Injection(S, 0 .. n - 1)
  BY <1>1, <1>4, <1>5, FS_SurjSameCardinalityImpliesInj
<1>7. \A x, y \in S : p[x] = p[y] => x = y
  BY <1>6 DEF Injection, IsInjective
<1> QED BY <1>1, <1>2, <1>3, <1>7

\* A row that comes after all others.
LEMMA PlacedLast ==
    ASSUME NEW f, NEW S, IsFiniteSet(S), Dense(f, S), NEW x, x \notin S, NEW g,
           \A y \in S : g[y].place = f[y].place, g[x].place = Cardinality(S)
    PROVE  IsFiniteSet(S \cup {x}) /\ Dense(g, S \cup {x})
<1>1. PICK n \in Nat : n = Cardinality(S)
  BY FS_CardinalityType
<1>2. IsFiniteSet(S \cup {x}) /\ Cardinality(S \cup {x}) = n + 1
  BY <1>1, FS_AddElement
<1>3. {f[y].place : y \in S} = 0 .. n - 1
  BY <1>1 DEF Dense
<1>4. {g[y].place : y \in S \cup {x}} = {f[y].place : y \in S} \cup {n}
  BY <1>1
<1>5. {g[y].place : y \in S \cup {x}} = 0 .. (n + 1) - 1
  BY <1>3, <1>4
<1> QED BY <1>2, <1>5 DEF Dense

\* A row that goes, and those behind it move up.
ClosesUp(f, S, x, g) ==
    \A y \in S \ {x} :
        g[y].place = IF f[y].place > f[x].place THEN f[y].place - 1 ELSE f[y].place

LEMMA GapIsClosed ==
    ASSUME NEW f, NEW S, IsFiniteSet(S), Dense(f, S), NEW x \in S, NEW g, ClosesUp(f, S, x, g)
    PROVE  IsFiniteSet(S \ {x}) /\ Dense(g, S \ {x})
<1>1. PICK n \in Nat : n = Cardinality(S)
  BY FS_CardinalityType
<1>2. IsFiniteSet(S \ {x}) /\ Cardinality(S \ {x}) = n - 1
  BY <1>1, FS_RemoveElement
<1>3. {f[y].place : y \in S} = 0 .. n - 1
  BY <1>1 DEF Dense
<1>4. /\ \A y \in S : f[y].place \in 0 .. n - 1
      /\ \A y \in S \ {x} : f[y].place # f[x].place
  BY <1>1, PlacesDiffer
<1>5. ASSUME NEW y \in S \ {x} PROVE g[y].place \in 0 .. n - 2
  <2>1. /\ f[y].place \in 0 .. n - 1 /\ f[x].place \in 0 .. n - 1 /\ f[y].place # f[x].place
        /\ g[y].place = IF f[y].place > f[x].place THEN f[y].place - 1 ELSE f[y].place
    BY <1>4 DEF ClosesUp
  <2> QED BY <2>1
<1>6. ASSUME NEW k \in 0 .. n - 2 PROVE \E y \in S \ {x} : g[y].place = k
  <2>1. f[x].place \in 0 .. n - 1
    BY <1>4
  <2>2. CASE k < f[x].place
    <3>1. PICK y \in S : f[y].place = k
      BY <1>3, <1>6
    <3>2. y # x /\ ~(f[y].place > f[x].place)
      BY <2>1, <2>2, <3>1
    <3> QED BY <3>1, <3>2 DEF ClosesUp
  <2>3. CASE ~(k < f[x].place)
    <3>1. k + 1 \in 0 .. n - 1
      BY <1>6
    <3>2. PICK y \in S : f[y].place = k + 1
      BY <1>3, <3>1
    <3>3. y # x /\ f[y].place > f[x].place /\ f[y].place - 1 = k
      BY <2>1, <2>3, <3>2
    <3> QED BY <3>3 DEF ClosesUp
  <2> QED BY <2>2, <2>3
<1>7. {g[y].place : y \in S \ {x}} = 0 .. (n - 1) - 1
  BY <1>5, <1>6
<1> QED BY <1>2, <1>7 DEF Dense

LEMMA SamePlaces ==
    ASSUME NEW f, NEW S, Dense(f, S), NEW g, \A y \in S : g[y].place = f[y].place
    PROVE  Dense(g, S)
<1>1. {g[y].place : y \in S} = {f[y].place : y \in S}
  OBVIOUS
<1> QED BY <1>1 DEF Dense

\* Rows that take their places from an order that names each once.
LEMMA ArrangedIsFilled ==
    ASSUME NEW S, IsFiniteSet(S), NEW order, Arranges(order, S),
           NEW g, \A x \in S : g[x].place = IndexOf(order, x) - 1
    PROVE  Dense(g, S) /\ \A x \in S : g[x].place \in Nat
<1>1. PICK n \in Nat : n = Cardinality(S)
  BY FS_CardinalityType
<1>2. /\ order \in [1 .. n -> S] /\ DOMAIN order = 1 .. n
      /\ \A x \in S : \E k \in 1 .. n : order[k] = x
  BY <1>1 DEF Arranges, ToSet
<1>3. order \in Surjection(1 .. n, S)
  BY <1>2 DEF Surjection
<1>4. IsFiniteSet(1 .. n) /\ Cardinality(1 .. n) = n
  <2>1. 1 \in Int /\ n \in Int
    BY <1>1
  <2>2. IsFiniteSet(1 .. n) /\ Cardinality(1 .. n) = IF 1 > n THEN 0 ELSE n - 1 + 1
    BY <2>1, FS_Interval
  <2> QED BY <1>1, <2>2
<1>5. order \in Injection(1 .. n, S)
  BY <1>1, <1>3, <1>4, FS_SurjSameCardinalityImpliesInj
<1>6. \A k, l \in 1 .. n : order[k] = order[l] => k = l
  BY <1>2, <1>5 DEF Injection, IsInjective
<1>7. \A x \in S : IndexOf(order, x) \in 1 .. n /\ order[IndexOf(order, x)] = x
  BY <1>2 DEF IndexOf
<1>8. ASSUME NEW k \in 0 .. n - 1 PROVE \E x \in S : g[x].place = k
  <2>1. k + 1 \in 1 .. n /\ (k + 1) - 1 = k
    BY <1>8
  <2>2. order[k + 1] \in S /\ IndexOf(order, order[k + 1]) = k + 1
    BY <1>2, <1>6, <1>7, <2>1
  <2> QED BY <2>1, <2>2
<1>9. \A x \in S : g[x].place \in 0 .. n - 1
  BY <1>7
<1>10. {g[x].place : x \in S} = 0 .. n - 1
  BY <1>8, <1>9
<1> QED BY <1>1, <1>9, <1>10 DEF Dense

LEMMA OneIsFilled ==
    ASSUME NEW f, NEW x, f[x].place = 0 PROVE Dense(f, {x})
<1>1. Cardinality({x}) = 1
  BY FS_Singleton
<1>2. {f[y].place : y \in {x}} = 0 .. 1 - 1
  OBVIOUS
<1> QED BY <1>1, <1>2 DEF Dense

\* The rows of a table.
IsRow(row, fields) == row = [f \in fields |-> row[f]] /\ row.place \in Nat
IsTable(table, ids, fields) ==
    /\ DOMAIN table \subseteq ids /\ table = [x \in DOMAIN table |-> table[x]]
    /\ \A x \in DOMAIN table : IsRow(table[x], fields)

LEMMA ClosedRow ==
    ASSUME NEW row, NEW fields, "place" \in fields, IsRow(row, fields), NEW gap \in Nat
    PROVE  /\ IsRow(CloseGap(row, gap), fields)
           /\ CloseGap(row, gap).place = IF row.place > gap THEN row.place - 1 ELSE row.place
           /\ \A f \in fields \ {"place"} : CloseGap(row, gap)[f] = row[f]
BY DEF IsRow, CloseGap

LEMMA MergedRow ==
    ASSUME NEW row, NEW fields, "place" \in fields, IsRow(row, fields),
           NEW change, "place" \notin DOMAIN change
    PROVE  /\ IsRow(Merge(row, change), fields)
           /\ Merge(row, change).place = row.place
           /\ \A f \in fields : Merge(row, change)[f] = IF f \in DOMAIN change THEN change[f]
                                                         ELSE row[f]
BY DEF IsRow, Merge
=============================================================================
