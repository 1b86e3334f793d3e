----------------------------- MODULE DataProofs -----------------------------
(***************************************************************************)
(* Facts about data of any size that the proofs share: induction, folds    *)
(* over finite sets and sequences, sums, and lists ordered by rank.        *)
(*                                                                         *)
(* A predicate is a set here, and an operator that is folded a function,   *)
(* so every lemma is first-order: it is used by writing down the set or    *)
(* the function it is about.  Induction rests on WFMin: a non-empty set of *)
(* numbers has a least member.                                             *)
(***************************************************************************)
EXTENDS Integers, Sequences, FiniteSets, SequencesExt, FiniteSetsExt,
        FiniteSetTheorems, WellFoundedInduction, TLAPS

(***************************************************************************)
(* Induction                                                               *)
(***************************************************************************)

\* A non-empty set of natural numbers has a least member.
LEMMA LeastNat ==
    ASSUME NEW S \in SUBSET Nat, S # {}
    PROVE  \E x \in S : \A y \in S : x <= y
<1>1. PICK x \in S : \A y \in S : ~(<<y, x>> \in OpToRel(<, Nat))
  BY NatLessThanWellFounded, WFMin, Zenon
<1>2. ASSUME NEW y \in S, ~(x <= y) PROVE FALSE
  <2>1. y < x /\ y \in Nat /\ x \in Nat
    BY <1>2
  <2>2. <<y, x>> \in OpToRel(<, Nat)
    BY <2>1, Zenon DEF OpToRel
  <2> QED BY <1>1, <2>2
<1> QED BY <1>2

\* A set that holds 0 and with each number the next one holds them all.
LEMMA Induction ==
    ASSUME NEW S, 0 \in S, \A n \in Nat : n \in S => n + 1 \in S
    PROVE  \A n \in Nat : n \in S
<1> DEFINE Missing == {n \in Nat : n \notin S}
<1>1. SUFFICES ASSUME Missing # {} PROVE FALSE
  OBVIOUS
<1>2. PICK m \in Missing : \A y \in Missing : m <= y
  BY <1>1, LeastNat
<1>3. m \in Nat /\ m # 0 /\ m \notin S
  BY <1>2
<1>4. m - 1 \in Nat /\ m - 1 \notin Missing
  BY <1>2, <1>3
<1>5. m - 1 \in S
  BY <1>4
<1> QED BY <1>3, <1>4, <1>5

-----------------------------------------------------------------------------
(***************************************************************************)
(* Folds.  Folding D takes the member c[s] of what is left of it, and      *)
(* applies its step to the fold of the others.                             *)
(***************************************************************************)
FoldOf(D, A, c, base, step, g) ==
    /\ g \in [SUBSET D -> A]
    /\ g[{}] = base
    /\ \A s \in SUBSET D : s # {} => g[s] = step[c[s]][g[s \ {c[s]}]]

Picks(D, c) == \A s \in SUBSET D : s # {} => c[s] \in s

\* The fold of a finite set exists.
LEMMA FoldExists ==
    ASSUME NEW D, IsFiniteSet(D), NEW A, NEW c, Picks(D, c), NEW base \in A,
           NEW step \in [D -> [A -> A]]
    PROVE  \E g : FoldOf(D, A, c, base, step, g)
<1> DEFINE Small(n) == {s \in SUBSET D : Cardinality(s) <= n}
           Partial(n, g) ==
               /\ g \in [Small(n) -> A]
               /\ g[{}] = base
               /\ \A s \in Small(n) : s # {} => g[s] = step[c[s]][g[s \ {c[s]}]]
           S == {n \in Nat : \E g : Partial(n, g)}
<1>1. ASSUME NEW s \in SUBSET D
      PROVE  IsFiniteSet(s) /\ Cardinality(s) \in Nat /\ (Cardinality(s) = 0 <=> s = {})
  BY <1>1, FS_Subset, FS_CardinalityType, FS_EmptySet
<1>2. ASSUME NEW s \in SUBSET D, s # {}
      PROVE  /\ c[s] \in D /\ s \ {c[s]} \in SUBSET D
             /\ Cardinality(s \ {c[s]}) = Cardinality(s) - 1
  BY <1>1, <1>2, FS_RemoveElement DEF Picks
<1>3. 0 \in S
  <2> DEFINE g == [s \in Small(0) |-> base]
  <2>1. \A s \in Small(0) : s = {}
    BY <1>1
  <2>2. {} \in Small(0)
    BY <1>1
  <2>3. Partial(0, g)
    BY <2>1, <2>2
  <2> HIDE DEF g
  <2> QED BY <2>3
<1>4. ASSUME NEW n \in Nat, n \in S
      PROVE  n + 1 \in S
  <2>1. PICK g : Partial(n, g)
    BY <1>4
  <2> DEFINE h == [s \in Small(n + 1) |->
                      IF s = {} THEN base ELSE step[c[s]][g[s \ {c[s]}]]]
  <2>2. ASSUME NEW s \in Small(n + 1), s # {}
        PROVE  s \ {c[s]} \in Small(n) /\ step[c[s]] \in [A -> A]
    BY <1>1, <1>2, <2>2
  <2>3. h \in [Small(n + 1) -> A]
    <3>1. ASSUME NEW s \in Small(n + 1), s # {}
          PROVE  step[c[s]][g[s \ {c[s]}]] \in A
      BY <2>1, <2>2, <3>1
    <3> QED BY <3>1
  <2>4. ASSUME NEW s \in Small(n) PROVE s \in Small(n + 1) /\ h[s] = g[s]
    <3>1. s \in Small(n + 1)
      BY <1>1
    <3> QED BY <2>1, <3>1
  <2>5. {} \in Small(n + 1)
    BY <1>1
  <2>6. ASSUME NEW s \in Small(n + 1), s # {}
        PROVE  h[s] = step[c[s]][h[s \ {c[s]}]]
    BY <2>2, <2>4, <2>6
  <2>7. Partial(n + 1, h)
    BY <2>3, <2>5, <2>6
  <2>8. n + 1 \in Nat
    OBVIOUS
  <2> HIDE DEF h, Partial
  <2> QED BY <2>7, <2>8, Zenon
<1>5. Cardinality(D) \in S
  <2> HIDE DEF S
  <2> QED BY <1>1, <1>3, <1>4, Induction
<1>6. PICK g : Partial(Cardinality(D), g)
  BY <1>5
<1>7. Small(Cardinality(D)) = SUBSET D
  BY <1>1, FS_Subset
<1> QED BY <1>6, <1>7 DEF FoldOf

-----------------------------------------------------------------------------
(***************************************************************************)
(* Sums over finite sets, as MapThenSumSet computes them.                  *)
(***************************************************************************)
Member(s) == CHOOSE x \in s : TRUE

\* g[s] is the sum of the weights of s.
SumOf(D, w, g) ==
    g = [s \in SUBSET D |-> IF s = {} THEN 0 ELSE w[Member(s)] + g[s \ {Member(s)}]]

\* A non-empty set has that member.
LEMMA MemberIn == ASSUME NEW s, s # {} PROVE Member(s) \in s
BY Zenon DEF Member

\* What is left of a finite set when one member is taken.
LEMMA Remaining ==
    ASSUME NEW D, IsFiniteSet(D), NEW s \in SUBSET D
    PROVE  /\ IsFiniteSet(s) /\ Cardinality(s) \in Nat /\ (Cardinality(s) = 0 <=> s = {})
           /\ \A x \in s : s \ {x} \in SUBSET D /\ Cardinality(s \ {x}) = Cardinality(s) - 1
BY FS_Subset, FS_CardinalityType, FS_EmptySet, FS_RemoveElement

\* A sum exists,
LEMMA SumExists ==
    ASSUME NEW D, IsFiniteSet(D), NEW w \in [D -> Nat]
    PROVE  \E g : SumOf(D, w, g)
<1> DEFINE c == [s \in SUBSET D |-> Member(s)]
           step == [x \in D |-> [a \in Nat |-> w[x] + a]]
<1>1. Picks(D, c)
  BY MemberIn DEF Picks
<1>2. step \in [D -> [Nat -> Nat]]
  OBVIOUS
<1> HIDE DEF step
<1>3. PICK g : FoldOf(D, Nat, c, 0, step, g)
  BY <1>1, <1>2, FoldExists
<1>4. ASSUME NEW s \in SUBSET D, s # {}
      PROVE  g[s] = w[Member(s)] + g[s \ {Member(s)}]
  <2>1. Member(s) \in D /\ s \ {Member(s)} \in SUBSET D
    BY <1>4, MemberIn
  <2>2. g[s \ {Member(s)}] \in Nat
    BY <1>3, <2>1 DEF FoldOf
  <2> QED BY <1>3, <1>4, <2>1, <2>2 DEF FoldOf, step
<1>5. g = [s \in SUBSET D |-> g[s]] /\ g[{}] = 0
  BY <1>3 DEF FoldOf
<1>6. SumOf(D, w, g)
  BY <1>4, <1>5 DEF SumOf
<1> QED BY <1>6

\* and is what its equation says.
LEMMA SumUnfold ==
    ASSUME NEW D, NEW w, NEW g, SumOf(D, w, g)
    PROVE  /\ g[{}] = 0
           /\ \A s \in SUBSET D : s # {} => g[s] = w[Member(s)] + g[s \ {Member(s)}]
<1>1. ASSUME NEW s \in SUBSET D
      PROVE  g[s] = IF s = {} THEN 0 ELSE w[Member(s)] + g[s \ {Member(s)}]
  BY <1>1 DEF SumOf
<1> QED BY <1>1

Additive(D, w, g) ==
    \A s \in SUBSET D : g[s] \in Nat /\ \A x \in s : g[s] = w[x] + g[s \ {x}]

\* A sum of natural numbers is one, and any member can be taken out first.
LEMMA SumRemove ==
    ASSUME NEW D, IsFiniteSet(D), NEW w \in [D -> Nat], NEW g, SumOf(D, w, g)
    PROVE  Additive(D, w, g)
<1> DEFINE Good(s) == g[s] \in Nat /\ \A x \in s : g[s] = w[x] + g[s \ {x}]
           S == {n \in Nat : \A s \in SUBSET D : Cardinality(s) <= n => Good(s)}
<1>1. 0 \in S
  <2>1. ASSUME NEW s \in SUBSET D, Cardinality(s) <= 0 PROVE Good(s)
    <3>1. s = {}
      BY <2>1, Remaining
    <3>2. g[{}] = 0
      BY SumUnfold
    <3> QED BY <3>1, <3>2
  <2> QED BY <2>1
<1>2. ASSUME NEW n \in Nat, n \in S PROVE n + 1 \in S
  <2>1. ASSUME NEW s \in SUBSET D, Cardinality(s) <= n + 1, s # {} PROVE Good(s)
    <3> DEFINE m == Member(s)
               r == s \ {m}
    <3>1. /\ m \in s /\ m \in D /\ r \in SUBSET D /\ g[s] = w[m] + g[r]
      BY <2>1, MemberIn, SumUnfold
    <3>2. \A x \in s : s \ {x} \in SUBSET D /\ Cardinality(s \ {x}) <= n
      BY <2>1, Remaining
    <3> HIDE DEF m
    <3>3. \A x \in s : Good(s \ {x})
      <4> HIDE DEF Good
      <4> QED BY <1>2, <3>2
    <3>4. g[s] \in Nat
      <4>1. g[r] \in Nat
        BY <3>1, <3>3
      <4>2. w[m] \in Nat
        BY <3>1
      <4> QED BY <3>1, <4>1, <4>2
    <3>5. ASSUME NEW x \in s, x # m PROVE g[s] = w[x] + g[s \ {x}]
      <4>1. x \in r /\ m \in s \ {x} /\ r \ {x} = (s \ {x}) \ {m}
        BY <3>1, <3>5
      <4>2. g[r] = w[x] + g[r \ {x}] /\ g[s \ {x}] = w[m] + g[r \ {x}]
        BY <3>1, <3>3, <4>1
      <4>3. w[x] \in Nat /\ w[m] \in Nat
        BY <3>1
      <4>4. g[r \ {x}] \in Nat
        <5>1. Cardinality(r) \in Nat /\ Cardinality(r) <= n
          BY <3>1, <3>2, Remaining
        <5>2. r \ {x} \in SUBSET D /\ Cardinality(r \ {x}) = Cardinality(r) - 1
          BY <3>1, <4>1, Remaining
        <5>3. Cardinality(r \ {x}) <= n
          BY <5>1, <5>2
        <5> QED BY <1>2, <5>2, <5>3
      <4> QED BY <3>1, <4>2, <4>3, <4>4
    <3> QED BY <3>1, <3>4, <3>5
  <2>2. \A s \in SUBSET D : Cardinality(s) <= n + 1 => Good(s)
    <3>1. Good({})
      BY SumUnfold
    <3> HIDE DEF Good
    <3> QED BY <2>1, <3>1
  <2> QED BY <2>2
<1>3. ASSUME NEW s \in SUBSET D PROVE Good(s)
  <2>1. Cardinality(s) \in Nat
    BY Remaining
  <2> HIDE DEF S
  <2>2. Cardinality(s) \in S
    BY <1>1, <1>2, <2>1, Induction
  <2> USE DEF S
  <2> HIDE DEF Good
  <2> QED BY <2>1, <2>2
<1> QED BY <1>3 DEF Additive

\* A sum depends only on the weights of the members.
LEMMA SumUnique ==
    ASSUME NEW D, IsFiniteSet(D), NEW v, NEW g, SumOf(D, v, g),
           NEW E, IsFiniteSet(E), NEW w, NEW h, SumOf(E, w, h),
           NEW T, T \subseteq D, T \subseteq E, \A x \in T : v[x] = w[x]
    PROVE  g[T] = h[T]
<1> DEFINE S == {n \in Nat : \A s \in SUBSET T : Cardinality(s) <= n => g[s] = h[s]}
<1>1. IsFiniteSet(T)
  BY FS_Subset
<1>6. \A s \in SUBSET D : s # {} => g[s] = v[Member(s)] + g[s \ {Member(s)}]
  <2>1. ASSUME NEW s \in SUBSET D
        PROVE  g[s] = IF s = {} THEN 0 ELSE v[Member(s)] + g[s \ {Member(s)}]
    BY DEF SumOf
  <2> QED BY <2>1
<1>7. \A s \in SUBSET E : s # {} => h[s] = w[Member(s)] + h[s \ {Member(s)}]
  <2>1. ASSUME NEW s \in SUBSET E
        PROVE  h[s] = IF s = {} THEN 0 ELSE w[Member(s)] + h[s \ {Member(s)}]
    BY DEF SumOf
  <2> QED BY <2>1
<1>2. 0 \in S
  <2>1. ASSUME NEW s \in SUBSET T, Cardinality(s) <= 0 PROVE g[s] = h[s]
    <3>1. s = {}
      BY <1>1, <2>1, Remaining
    <3>2. g[{}] = 0 /\ h[{}] = 0
      BY SumUnfold
    <3> QED BY <3>1, <3>2
  <2> QED BY <2>1
<1>3. ASSUME NEW n \in Nat, n \in S PROVE n + 1 \in S
  <2>1. ASSUME NEW s \in SUBSET T, Cardinality(s) <= n + 1, s # {} PROVE g[s] = h[s]
    <3>1. Member(s) \in s
      BY <2>1, MemberIn
    <3>2. s \ {Member(s)} \in SUBSET T /\ Cardinality(s \ {Member(s)}) <= n
      BY <1>1, <2>1, <3>1, Remaining
    <3>3. s \in SUBSET D /\ s \in SUBSET E
      OBVIOUS
    <3>4. g[s] = v[Member(s)] + g[s \ {Member(s)}]
      BY <1>6, <2>1, <3>3
    <3>5. h[s] = w[Member(s)] + h[s \ {Member(s)}]
      BY <1>7, <2>1, <3>3
    <3>6. g[s \ {Member(s)}] = h[s \ {Member(s)}]
      BY <1>3, <3>2
    <3>7. v[Member(s)] = w[Member(s)]
      BY <3>1
    <3> QED BY <3>4, <3>5, <3>6, <3>7
  <2>2. g[{}] = h[{}]
    BY SumUnfold
  <2>3. \A s \in SUBSET T : Cardinality(s) <= n + 1 => g[s] = h[s]
    BY <2>1, <2>2
  <2> QED BY <2>3
<1>4. Cardinality(T) \in Nat
  BY <1>1, FS_CardinalityType
<1>5. Cardinality(T) \in S
  <2> HIDE DEF S
  <2> QED BY <1>2, <1>3, <1>4, Induction
<1> QED BY <1>4, <1>5

-----------------------------------------------------------------------------
(***************************************************************************)
(* Folds over sequences, as FoldLeft computes them: from the left, so what *)
(* is folded of a prefix depends on the prefix alone.                      *)
(***************************************************************************)

\* A non-empty set of positions has a greatest member.
LEMMA MaxIn ==
    ASSUME NEW n \in Nat, NEW s \in SUBSET (1..n), s # {}
    PROVE  Max(s) \in s /\ \A y \in s : Max(s) >= y
<1> DEFINE Below == {k \in Nat : n - k \in s}
<1>1. PICK z \in s : TRUE
  OBVIOUS
<1>2. z \in 1..n /\ n - z \in Nat /\ n - (n - z) = z
  OBVIOUS
<1>3. n - z \in Below
  BY <1>2
<1>4. Below \in SUBSET Nat /\ Below # {}
  BY <1>3
<1>5. PICK b \in Below : \A y \in Below : b <= y
  BY <1>4, LeastNat
<1>6. ASSUME NEW y \in s PROVE n - b >= y
  <2>1. y \in 1..n /\ n - y \in Nat /\ n - (n - y) = y
    OBVIOUS
  <2>2. n - y \in Below
    BY <2>1
  <2> QED BY <1>5, <2>1, <2>2
<1>7. n - b \in s
  BY <1>5
<1> HIDE DEF Below
<1> QED BY <1>6, <1>7, Zenon DEF Max

\* The prefixes of the positions.
LEMMA PrefixPositions ==
    ASSUME NEW n \in Nat, NEW i \in 1..n
    PROVE  /\ 1..i \in SUBSET (1..n)
           /\ 1..i # {}
           /\ Max(1..i) = i
           /\ (1..i) \ {i} = 1..(i - 1)
<1>1. (1..i) \in SUBSET (1..n) /\ i \in (1..i) /\ (1..i) # {}
  OBVIOUS
<1>4. (1..i) \ {i} = 1..(i - 1)
  OBVIOUS
<1>2. Max(1..i) \in 1..i /\ \A y \in 1..i : Max(1..i) >= y
  BY <1>1, MaxIn
<1>3. Max(1..i) = i
  BY <1>1, <1>2
<1> QED BY <1>1, <1>3, <1>4, Zenon

\* Folding n entries, with step[i] for what the i-th does.
ListFoldOf(n, A, base, step, g) ==
    /\ g \in [SUBSET (1..n) -> A]
    /\ g[{}] = base
    /\ \A s \in SUBSET (1..n) : s # {} => g[s] = step[Max(s)][g[s \ {Max(s)}]]

\* The fold of a sequence exists.
LEMMA ListFoldExists ==
    ASSUME NEW n \in Nat, NEW A, NEW base \in A, NEW step \in [1..n -> [A -> A]]
    PROVE  \E g : ListFoldOf(n, A, base, step, g)
<1> DEFINE c == [s \in SUBSET (1..n) |-> Max(s)]
<1>1. Picks(1..n, c)
  BY MaxIn DEF Picks
<1>2. IsFiniteSet(1..n)
  BY FS_Interval
<1>3. PICK g : FoldOf(1..n, A, c, base, step, g)
  BY <1>1, <1>2, FoldExists
<1>4. ListFoldOf(n, A, base, step, g)
  BY <1>3 DEF FoldOf, ListFoldOf
<1> QED BY <1>4

\* h[i] is the fold of the first i entries, and g of all.
FoldsTo(n, A, base, step, g, h) ==
    /\ h \in [0..n -> A]
    /\ h[0] = base
    /\ h[n] = g[1..n]
    /\ \A i \in 1..n : h[i] = step[i][h[i - 1]]

\* g folds as the steps say, as far as they say it.
FoldedBy(n, A, base, step, g) ==
    /\ g[{}] = base
    /\ \A s \in SUBSET (1..n) : s # {} /\ g[s \ {Max(s)}] \in A =>
          g[s] = step[Max(s)][g[s \ {Max(s)}]]

\* What is folded from the left is folded prefix by prefix.
LEMMA FoldPrefixes ==
    ASSUME NEW n \in Nat, NEW A, NEW base \in A, NEW step \in [1..n -> [A -> A]],
           NEW g, FoldedBy(n, A, base, step, g)
    PROVE  \E h : FoldsTo(n, A, base, step, g, h)
<1> DEFINE h == [i \in 0..n |-> g[1..i]]
           S == {i \in Nat : i <= n => g[1..i] \in A}
<1>1. 0 \in S
  <2>1. 1..0 = {}
    OBVIOUS
  <2> QED BY <2>1 DEF FoldedBy
<1>2. ASSUME NEW i \in 1..n, g[1..(i - 1)] \in A
      PROVE  g[1..i] = step[i][g[1..(i - 1)]] /\ g[1..i] \in A
  <2>1. /\ (1..i) \in SUBSET (1..n) /\ (1..i) # {} /\ Max(1..i) = i
        /\ (1..i) \ {i} = 1..(i - 1)
    BY PrefixPositions
  <2>2. g[1..i] = step[i][g[1..(i - 1)]]
    BY <1>2, <2>1 DEF FoldedBy
  <2> QED BY <1>2, <2>2
<1>3. ASSUME NEW i \in Nat, i \in S PROVE i + 1 \in S
  <2>1. ASSUME i + 1 <= n PROVE g[1..(i + 1)] \in A
    <3>1. i + 1 \in 1..n /\ (i + 1) - 1 = i /\ i <= n
      BY <2>1
    <3>2. g[1..((i + 1) - 1)] \in A
      BY <1>3, <3>1
    <3> QED BY <1>2, <3>1, <3>2
  <2> QED BY <2>1
<1>4. \A i \in Nat : i \in S
  <2> HIDE DEF S
  <2> QED BY <1>1, <1>3, Induction
<1>5. \A i \in 0..n : g[1..i] \in A
  BY <1>4
<1>6. h \in [0..n -> A]
  BY <1>5
<1>7. h[0] = base
  <2>1. 1..0 = {} /\ 0 \in 0..n
    OBVIOUS
  <2> QED BY <2>1 DEF FoldedBy
<1>8. ASSUME NEW i \in 1..n PROVE h[i] = step[i][h[i - 1]]
  <2>1. i \in 0..n /\ i - 1 \in 0..n
    OBVIOUS
  <2>2. g[1..i] = step[i][g[1..(i - 1)]]
    BY <1>2, <1>5, <2>1
  <2> QED BY <2>1, <2>2
<1>9. h[n] = g[1..n]
  OBVIOUS
<1> HIDE DEF h
<1>10. FoldsTo(n, A, base, step, g, h)
  BY <1>6, <1>7, <1>8, <1>9 DEF FoldsTo
<1> QED BY <1>10

\* The total of the weights along a sequence.
SeqTotal(W, list) == FoldLeft(LAMBDA sum, t : sum + W[t], 0, list)

TotalsTo(W, list, h) ==
    /\ h \in [0..Len(list) -> Nat]
    /\ h[0] = 0
    /\ \A i \in 1..Len(list) : h[i] = h[i - 1] + W[list[i]]

\* It grows entry by entry.
LEMMA TotalSteps ==
    ASSUME NEW A, NEW W \in [A -> Nat], NEW list \in Seq(A)
    PROVE  \E h : TotalsTo(W, list, h) /\ h[Len(list)] = SeqTotal(W, list)
<1> DEFINE n == Len(list)
           Eq(f) == f = [s \in SUBSET DOMAIN list |->
                            IF s = {} THEN 0 ELSE f[s \ {Max(s)}] + W[list[Max(s)]]]
           f == CHOOSE f : Eq(f)
           step == [i \in 1..n |-> [a \in Nat |-> a + W[list[i]]]]
<1>1. n \in Nat /\ DOMAIN list = 1..n /\ \A i \in 1..n : W[list[i]] \in Nat
  OBVIOUS
<1>2. SeqTotal(W, list) = f[DOMAIN list]
  BY DEF SeqTotal, FoldLeft, MapThenFoldSet
<1> HIDE DEF n
<1>3. step \in [1..n -> [Nat -> Nat]]
  BY <1>1
<1>4. ASSUME NEW s \in SUBSET (1..n), s # {}, NEW a \in Nat
      PROVE  step[Max(s)][a] = a + W[list[Max(s)]]
  BY <1>1, <1>4, MaxIn
<1> HIDE DEF step
<1>5. \E g : Eq(g)
  <2>1. PICK g : ListFoldOf(n, Nat, 0, step, g)
    BY <1>1, <1>3, ListFoldExists
  <2>2. ASSUME NEW s \in SUBSET (1..n), s # {}
        PROVE  g[s] = g[s \ {Max(s)}] + W[list[Max(s)]]
    <3>1. g[s \ {Max(s)}] \in Nat /\ g[s] = step[Max(s)][g[s \ {Max(s)}]]
      BY <2>1, <2>2 DEF ListFoldOf
    <3> QED BY <1>4, <2>2, <3>1
  <2>3. g = [s \in SUBSET (1..n) |-> g[s]] /\ g[{}] = 0
    BY <2>1 DEF ListFoldOf
  <2>4. Eq(g)
    BY <1>1, <2>2, <2>3
  <2> HIDE DEF Eq
  <2> QED BY <2>4
<1>6. Eq(f)
  <2> HIDE DEF Eq
  <2> QED BY <1>5, Zenon DEF f
<1> HIDE DEF f
<1>7. f[{}] = 0
  BY <1>6
<1>8. \A s \in SUBSET (1..n) : s # {} /\ f[s \ {Max(s)}] \in Nat =>
          f[s] = step[Max(s)][f[s \ {Max(s)}]]
  <2> SUFFICES ASSUME NEW s \in SUBSET (1..n), s # {}, f[s \ {Max(s)}] \in Nat
               PROVE  f[s] = step[Max(s)][f[s \ {Max(s)}]]
    OBVIOUS
  <2>1. f[s] = f[s \ {Max(s)}] + W[list[Max(s)]]
    BY <1>1, <1>6
  <2> QED BY <1>4, <2>1
<1> HIDE DEF Eq
<1>9. PICK h : FoldsTo(n, Nat, 0, step, f, h)
  <2>1. FoldedBy(n, Nat, 0, step, f)
    BY <1>7, <1>8 DEF FoldedBy
  <2>2. n \in Nat /\ 0 \in Nat
    BY <1>1
  <2> QED BY <1>3, <2>1, <2>2, FoldPrefixes
<1>10. ASSUME NEW i \in 1..n PROVE h[i] = h[i - 1] + W[list[i]]
  <2>1. h[i] = step[i][h[i - 1]] /\ h[i - 1] \in Nat
    BY <1>1, <1>9 DEF FoldsTo
  <2> QED BY <2>1 DEF step
<1>11. TotalsTo(W, list, h)
  BY <1>9, <1>10 DEF FoldsTo, TotalsTo, n
<1>12. h[n] = SeqTotal(W, list)
  BY <1>1, <1>2, <1>9 DEF FoldsTo
<1> QED BY <1>11, <1>12 DEF n

\* Nothing totals 0,
LEMMA TotalNone ==
    ASSUME NEW A, NEW W \in [A -> Nat]
    PROVE  SeqTotal(W, << >>) = 0
<1>1. << >> \in Seq(A) /\ Len(<< >>) = 0
  OBVIOUS
<1>2. PICK h : TotalsTo(W, << >>, h) /\ h[Len(<< >>)] = SeqTotal(W, << >>)
  BY <1>1, TotalSteps
<1> QED BY <1>1, <1>2 DEF TotalsTo

\* and an entry at the end adds its weight.
LEMMA TotalAppend ==
    ASSUME NEW A, NEW W \in [A -> Nat], NEW list \in Seq(A), NEW t \in A
    PROVE  /\ SeqTotal(W, list) \in Nat
           /\ SeqTotal(W, Append(list, t)) = SeqTotal(W, list) + W[t]
<1> DEFINE n == Len(list)
           more == Append(list, t)
<1>1. /\ n \in Nat /\ more \in Seq(A) /\ Len(more) = n + 1 /\ more[n + 1] = t
      /\ \A i \in 1..n : more[i] = list[i]
  OBVIOUS
<1>2. PICK h : TotalsTo(W, list, h) /\ h[n] = SeqTotal(W, list)
  BY TotalSteps
<1> HIDE DEF more
<1>3. PICK k : TotalsTo(W, more, k) /\ k[n + 1] = SeqTotal(W, more)
  BY <1>1, TotalSteps
<1>4. /\ h \in [0..n -> Nat] /\ h[0] = 0
      /\ \A i \in 1..n : h[i] = h[i - 1] + W[list[i]]
  BY <1>2 DEF TotalsTo
<1>5. /\ k[0] = 0
      /\ \A i \in 1..(n + 1) : k[i] = k[i - 1] + W[more[i]]
  BY <1>1, <1>3 DEF TotalsTo
<1> HIDE DEF n
<1>13. n \in Nat
  BY <1>1
<1> DEFINE S == {i \in Nat : i <= n => k[i] = h[i]}
<1>6. 0 \in S
  BY <1>4, <1>5
<1>7. ASSUME NEW i \in Nat, i \in S PROVE i + 1 \in S
  <2>1. ASSUME i + 1 <= n PROVE k[i + 1] = h[i + 1]
    <3>1. i + 1 \in 1..n /\ i + 1 \in 1..(n + 1) /\ (i + 1) - 1 = i /\ i <= n
      BY <1>13, <2>1
    <3>2. k[i + 1] = k[(i + 1) - 1] + W[more[i + 1]]
      BY <1>5, <3>1
    <3>3. h[i + 1] = h[(i + 1) - 1] + W[list[i + 1]]
      BY <1>4, <3>1
    <3>4. k[i] = h[i] /\ more[i + 1] = list[i + 1]
      BY <1>1, <1>7, <3>1
    <3>5. k[i + 1] = k[i] + W[more[i + 1]]
      BY <3>1, <3>2
    <3>6. h[i + 1] = h[i] + W[list[i + 1]]
      BY <3>1, <3>3
    <3> QED BY <3>4, <3>5, <3>6, Zenon
  <2>2. i + 1 \in Nat
    OBVIOUS
  <2> QED BY <2>1, <2>2
<1>8. \A i \in Nat : i \in S
  <2> HIDE DEF S
  <2> QED BY <1>6, <1>7, Induction
<1>9. k[n] = h[n]
  BY <1>1, <1>8
<1>10. k[n + 1] = k[n] + W[more[n + 1]]
  <2>1. n + 1 \in 1..(n + 1) /\ (n + 1) - 1 = n
    BY <1>1
  <2>2. k[n + 1] = k[(n + 1) - 1] + W[more[n + 1]]
    BY <1>5, <2>1
  <2> QED BY <2>1, <2>2
<1>11. SeqTotal(W, list) \in Nat
  <2>1. n \in 0..n
    BY <1>1
  <2> QED BY <1>2, <1>4, <2>1
<1>12. SeqTotal(W, more) = SeqTotal(W, list) + W[t]
  BY <1>1, <1>2, <1>3, <1>9, <1>10
<1> QED BY <1>11, <1>12 DEF more

-----------------------------------------------------------------------------
(***************************************************************************)
(* Lists ordered by rank.  B[e] holds the members of S that come before e, *)
(* and the list L has e at the place that their number says.               *)
(***************************************************************************)
Ordered(S, B) ==
    /\ B \in [S -> SUBSET S]
    /\ \A e \in S : e \notin B[e]
    /\ \A e, f, g \in S : f \in B[e] /\ g \in B[f] => g \in B[e]
    /\ \A e, f \in S : e # f => f \in B[e] \/ e \in B[f]

Ranked(S, B, L) ==
    /\ L \in [1..Cardinality(S) -> S]
    /\ \A i \in 1..Cardinality(S) : Cardinality(B[L[i]]) = i - 1

\* Each place of the list has its member.
LEMMA Ranks ==
    ASSUME NEW S, IsFiniteSet(S), NEW B, Ordered(S, B)
    PROVE  /\ Cardinality(S) \in Nat
           /\ \A e \in S : Cardinality(B[e]) \in 0..(Cardinality(S) - 1)
           /\ \A e, f \in S : f \in B[e] => Cardinality(B[f]) < Cardinality(B[e])
           /\ \A i \in 1..Cardinality(S) : \E e \in S : Cardinality(B[e]) = i - 1
<1> DEFINE n == Cardinality(S)
           rank == [e \in S |-> Cardinality(B[e])]
<1>1. n \in Nat
  BY FS_CardinalityType
<1>2. ASSUME NEW T \in SUBSET S, NEW U \in SUBSET T, NEW x \in T, x \notin U
      PROVE  /\ IsFiniteSet(T)
             /\ Cardinality(U) \in Nat /\ Cardinality(T) \in Nat
             /\ Cardinality(U) < Cardinality(T)
  <2>1. IsFiniteSet(T) /\ IsFiniteSet(U)
    BY FS_Subset
  <2>2. Cardinality(U) \in Nat /\ Cardinality(T) \in Nat
    BY <2>1, FS_CardinalityType
  <2>3. Cardinality(U) <= Cardinality(T) /\ Cardinality(U) # Cardinality(T)
    BY <1>2, <2>1, FS_Subset
  <2> QED BY <2>1, <2>2, <2>3
<1>3. ASSUME NEW e \in S PROVE Cardinality(B[e]) \in 0..(n - 1)
  <2>1. B[e] \in SUBSET S /\ S \in SUBSET S /\ e \notin B[e]
    BY DEF Ordered
  <2>2. Cardinality(B[e]) \in Nat /\ Cardinality(B[e]) < n
    BY <1>2, <2>1
  <2> QED BY <1>1, <2>2
<1>4. ASSUME NEW e \in S, NEW f \in S, f \in B[e]
      PROVE  Cardinality(B[f]) < Cardinality(B[e])
  <2>1. B[e] \in SUBSET S /\ B[f] \in SUBSET B[e] /\ f \notin B[f]
    BY <1>4 DEF Ordered
  <2> QED BY <1>2, <1>4, <2>1
<1>5. rank \in Injection(S, 0..(n - 1))
  <2>1. rank \in [S -> 0..(n - 1)]
    BY <1>3
  <2>2. ASSUME NEW e \in S, NEW f \in S, e # f PROVE rank[e] # rank[f]
    <3>1. f \in B[e] \/ e \in B[f]
      BY <2>2 DEF Ordered
    <3>2. rank[e] \in Int /\ rank[f] \in Int
      BY <1>3
    <3> QED BY <1>4, <3>1, <3>2
  <2> QED BY <2>1, <2>2 DEF Injection, IsInjective
<1>6. IsFiniteSet(0..(n - 1)) /\ Cardinality(0..(n - 1)) = n
  <2> HIDE DEF n
  <2>1. 0 \in Int /\ n - 1 \in Int
    BY <1>1
  <2>2. /\ IsFiniteSet(0..(n - 1))
        /\ Cardinality(0..(n - 1)) = IF 0 > n - 1 THEN 0 ELSE (n - 1) - 0 + 1
    BY <2>1, FS_Interval
  <2> QED BY <1>1, <2>2
<1>7. rank \in Surjection(S, 0..(n - 1))
  <2> HIDE DEF rank
  <2> QED BY <1>5, <1>6, FS_Injection
<1>8. ASSUME NEW i \in 1..n PROVE \E e \in S : Cardinality(B[e]) = i - 1
  <2>1. i - 1 \in 0..(n - 1)
    BY <1>1
  <2>2. PICK e \in S : rank[e] = i - 1
    BY <1>7, <2>1 DEF Surjection
  <2> QED BY <2>2
<1> QED BY <1>1, <1>3, <1>4, <1>8

\* The list has every member, and in their order.
LEMMA Ranking ==
    ASSUME NEW S, IsFiniteSet(S), NEW B, Ordered(S, B), NEW L, Ranked(S, B, L)
    PROVE  /\ \A e \in S : \E i \in 1..Cardinality(S) : L[i] = e
           /\ \A i, j \in 1..Cardinality(S) : i < j <=> L[i] \in B[L[j]]
<1> DEFINE n == Cardinality(S)
<1>1. /\ n \in Nat
      /\ \A e \in S : Cardinality(B[e]) \in 0..(n - 1)
      /\ \A e, f \in S : f \in B[e] => Cardinality(B[f]) < Cardinality(B[e])
  BY Ranks
<1>2. /\ \A i \in 1..n : L[i] \in S /\ Cardinality(B[L[i]]) = i - 1
  BY DEF Ranked
<1>3. \A e, f \in S : e # f => f \in B[e] \/ e \in B[f]
  BY DEF Ordered
<1>4. \A e \in S : e \notin B[e]
  BY DEF Ordered
<1> HIDE DEF n
<1>5. ASSUME NEW e \in S PROVE \E i \in 1..n : L[i] = e
  <2> DEFINE i == Cardinality(B[e]) + 1
  <2>1. i \in 1..n /\ i - 1 = Cardinality(B[e])
    BY <1>1
  <2>2. L[i] \in S /\ Cardinality(B[L[i]]) = Cardinality(B[e])
    BY <1>2, <2>1
  <2>3. Cardinality(B[e]) \in Int
    BY <1>1
  <2> HIDE DEF i
  <2>4. L[i] = e
    BY <1>1, <1>3, <2>2, <2>3
  <2> QED BY <2>1, <2>4
<1>6. ASSUME NEW i \in 1..n, NEW j \in 1..n, i < j PROVE L[i] \in B[L[j]]
  <2>1. L[i] \in S /\ L[j] \in S /\ Cardinality(B[L[i]]) < Cardinality(B[L[j]])
    BY <1>1, <1>2, <1>6
  <2>2. L[i] # L[j] /\ ~(Cardinality(B[L[j]]) < Cardinality(B[L[i]]))
    BY <1>1, <2>1
  <2> QED BY <1>1, <1>3, <2>1, <2>2
<1>7. ASSUME NEW i \in 1..n, NEW j \in 1..n, L[i] \in B[L[j]] PROVE i < j
  BY <1>1, <1>2, <1>7
<1> QED BY <1>5, <1>6, <1>7 DEF n

-----------------------------------------------------------------------------
(***************************************************************************)
(* Flattening a sequence of sequences, as FlattenSeq computes it.          *)
(***************************************************************************)

\* h[i] is what the first i of them make together.
Flattens(ss, A, h) ==
    /\ h \in [0..Len(ss) -> Seq(A)]
    /\ h[0] = <<>>
    /\ \A i \in 1..Len(ss) : h[i] = h[i - 1] \o ss[i]

\* The function that FlattenSeq computes exists,
LEMMA FlattenExists ==
    ASSUME NEW A, NEW ss \in Seq(Seq(A))
    PROVE  \E f : f = [i \in 1..Len(ss) |-> IF i = 1 THEN ss[i] ELSE f[i - 1] \o ss[i]]
<1> DEFINE n == Len(ss)
           step == [i \in 1..n |-> [a \in Seq(A) |-> a \o ss[i]]]
<1>1. n \in Nat /\ \A i \in 1..n : ss[i] \in Seq(A)
  OBVIOUS
<1>2. step \in [1..n -> [Seq(A) -> Seq(A)]]
  BY <1>1
<1>3. <<>> \in Seq(A)
  OBVIOUS
<1> HIDE DEF n, step
<1>4. PICK g : ListFoldOf(n, Seq(A), <<>>, step, g)
  BY <1>1, <1>2, <1>3, ListFoldExists
<1> DEFINE f == [i \in 1..n |-> g[1..i]]
<1>5. ASSUME NEW i \in 1..n
      PROVE  g[1..i] = g[1..(i - 1)] \o ss[i] /\ g[1..(i - 1)] \in Seq(A)
  <2>1. /\ (1..i) \in SUBSET (1..n) /\ (1..i) # {} /\ Max(1..i) = i
        /\ (1..i) \ {i} = 1..(i - 1)
    BY <1>1, PrefixPositions
  <2>2. g[1..(i - 1)] \in Seq(A)
    <3>1. 1..(i - 1) \in SUBSET (1..n)
      BY <1>1
    <3> QED BY <1>4, <3>1 DEF ListFoldOf
  <2>3. g[1..i] = step[i][g[1..(i - 1)]]
    BY <1>4, <2>1 DEF ListFoldOf
  <2> QED BY <2>2, <2>3 DEF step
<1>6. ASSUME NEW i \in 1..n
      PROVE  f[i] = IF i = 1 THEN ss[i] ELSE f[i - 1] \o ss[i]
  <2>1. CASE i = 1
    <3>1. 1..(i - 1) = {}
      BY <2>1
    <3>2. f[i] = <<>> \o ss[i]
      BY <1>4, <1>5, <3>1 DEF ListFoldOf
    <3>3. ss[i] \in Seq(A)
      BY <1>1
    <3> QED BY <2>1, <3>2, <3>3
  <2>2. CASE i # 1
    <3>1. i - 1 \in 1..n
      BY <1>1, <2>2
    <3> QED BY <1>5, <2>2, <3>1
  <2> QED BY <2>1, <2>2
<1>7. f = [i \in 1..n |-> IF i = 1 THEN ss[i] ELSE f[i - 1] \o ss[i]]
  BY <1>6
<1> HIDE DEF f
<1> QED BY <1>7 DEF n

\* and its prefixes flatten the prefixes.
LEMMA FlattenSteps ==
    ASSUME NEW A, NEW ss \in Seq(Seq(A))
    PROVE  \E h : Flattens(ss, A, h) /\ h[Len(ss)] = FlattenSeq(ss)
<1> DEFINE n == Len(ss)
           Eq(f) == f = [i \in 1..Len(ss) |-> IF i = 1 THEN ss[i] ELSE f[i - 1] \o ss[i]]
           f == CHOOSE f : Eq(f)
           h == [i \in 0..n |-> IF i = 0 THEN <<>> ELSE f[i]]
           S == {i \in Nat : i <= n => h[i] \in Seq(A)}
<1>1. n \in Nat /\ \A i \in 1..n : ss[i] \in Seq(A)
  OBVIOUS
<1>2. Eq(f)
  <2>1. \E g : Eq(g)
    BY FlattenExists
  <2> QED BY <2>1, Zenon
<1>3. FlattenSeq(ss) = IF n = 0 THEN ss ELSE f[n]
  BY DEF FlattenSeq
<1>4. \A i \in 1..n : f[i] = IF i = 1 THEN ss[i] ELSE f[i - 1] \o ss[i]
  <2> HIDE DEF f
  <2> QED BY <1>2
<1> HIDE DEF f, Eq
<1>5. h[0] = <<>> /\ \A i \in 1..n : h[i] = f[i]
  BY <1>1
<1>6. 0 \in S
  BY <1>5
<1>7. ASSUME NEW i \in Nat, i + 1 <= n, h[i] \in Seq(A)
      PROVE  h[i + 1] = h[i] \o ss[i + 1] /\ h[i + 1] \in Seq(A)
  <2>1. i + 1 \in 1..n /\ (i + 1) - 1 = i /\ ss[i + 1] \in Seq(A)
    BY <1>1, <1>7
  <2>2. h[i + 1] = h[i] \o ss[i + 1]
    <3>1. CASE i = 0
      <4>1. h[i + 1] = ss[i + 1]
        BY <1>4, <1>5, <2>1, <3>1
      <4>2. h[i] = <<>>
        BY <1>5, <3>1
      <4> HIDE DEF h
      <4> QED BY <2>1, <4>1, <4>2
    <3>2. CASE i # 0
      <4>1. i \in 1..n
        BY <1>1, <1>7, <3>2
      <4>2. h[i + 1] = f[i + 1] /\ h[i] = f[i]
        BY <1>5, <2>1, <4>1
      <4>3. f[i + 1] = f[i] \o ss[i + 1]
        <5>1. f[i + 1] = IF i + 1 = 1 THEN ss[i + 1] ELSE f[(i + 1) - 1] \o ss[i + 1]
          BY <1>4, <2>1
        <5>2. (i + 1) - 1 = i /\ i + 1 # 1
          BY <3>2
        <5> QED BY <5>1, <5>2, Zenon
      <4> QED BY <4>2, <4>3
    <3> QED BY <3>1, <3>2
  <2> HIDE DEF h
  <2> QED BY <1>7, <2>1, <2>2
<1>8. ASSUME NEW i \in Nat, i \in S PROVE i + 1 \in S
  <2>1. i + 1 <= n => h[i + 1] \in Seq(A)
    <3> HIDE DEF h
    <3>1. i <= n => h[i] \in Seq(A)
      BY <1>8
    <3>2. i + 1 <= n => i <= n
      BY <1>1
    <3> QED BY <1>7, <3>1, <3>2
  <2> HIDE DEF h
  <2> QED BY <2>1
<1>9. \A i \in Nat : i \in S
  <2> HIDE DEF S
  <2> QED BY <1>6, <1>8, Induction
<1>10. \A i \in 0..n : h[i] \in Seq(A)
  <2> HIDE DEF h
  <2> QED BY <1>1, <1>9
<1>11. \A i \in 1..n : h[i] = h[i - 1] \o ss[i]
  <2> SUFFICES ASSUME NEW i \in 1..n PROVE h[i] = h[i - 1] \o ss[i]
    OBVIOUS
  <2>1. i - 1 \in Nat /\ (i - 1) + 1 = i /\ i - 1 \in 0..n /\ (i - 1) + 1 <= n
    BY <1>1
  <2> HIDE DEF h
  <2> QED BY <1>7, <1>10, <2>1
<1>12. h \in [0..n -> Seq(A)]
  <2>1. h = [i \in 0..n |-> h[i]]
    OBVIOUS
  <2> HIDE DEF h
  <2> QED BY <1>10, <2>1
<1>13. h[n] = FlattenSeq(ss)
  <2>1. CASE n = 0
    <3>1. ss = <<>>
      BY <2>1
    <3> QED BY <1>3, <1>5, <2>1, <3>1
  <2>2. CASE n # 0
    <3>1. n \in 1..n
      BY <1>1, <2>2
    <3> QED BY <1>3, <1>5, <2>2, <3>1
  <2> QED BY <2>1, <2>2
<1>14. Flattens(ss, A, h)
  <2> HIDE DEF h
  <2> QED BY <1>5, <1>11, <1>12 DEF Flattens
<1> HIDE DEF h
<1> QED BY <1>13, <1>14

\* Nothing flattens to nothing.
LEMMA FlattenNone == FlattenSeq(<< >>) = << >>
BY DEF FlattenSeq

\* One more sequence comes at the end.
LEMMA FlattenAppend ==
    ASSUME NEW A, NEW ss \in Seq(Seq(A)), NEW s \in Seq(A)
    PROVE  /\ FlattenSeq(ss) \in Seq(A)
           /\ FlattenSeq(Append(ss, s)) = FlattenSeq(ss) \o s
<1> DEFINE n == Len(ss)
           tt == Append(ss, s)
<1>1. /\ n \in Nat /\ tt \in Seq(Seq(A)) /\ Len(tt) = n + 1 /\ tt[n + 1] = s
      /\ \A i \in 1..n : tt[i] = ss[i]
  OBVIOUS
<1>2. PICK h : Flattens(ss, A, h) /\ h[n] = FlattenSeq(ss)
  BY FlattenSteps
<1> HIDE DEF tt
<1>3. PICK k : Flattens(tt, A, k) /\ k[n + 1] = FlattenSeq(tt)
  BY <1>1, FlattenSteps
<1>4. /\ h \in [0..n -> Seq(A)] /\ h[0] = <<>>
      /\ \A i \in 1..n : h[i] = h[i - 1] \o ss[i]
  BY <1>2 DEF Flattens
<1>5. /\ k[0] = <<>>
      /\ \A i \in 1..(n + 1) : k[i] = k[i - 1] \o tt[i]
  BY <1>1, <1>3 DEF Flattens
<1> HIDE DEF n
<1> DEFINE S == {i \in Nat : i <= n => k[i] = h[i]}
<1>6. 0 \in S
  BY <1>4, <1>5
<1>7. ASSUME NEW i \in Nat, i \in S PROVE i + 1 \in S
  <2>1. ASSUME i + 1 <= n PROVE k[i + 1] = h[i + 1]
    <3>1. i + 1 \in 1..n /\ i + 1 \in 1..(n + 1) /\ (i + 1) - 1 = i /\ i <= n
      BY <1>1, <2>1
    <3>2. k[i + 1] = k[(i + 1) - 1] \o tt[i + 1]
      BY <1>5, <3>1
    <3>3. h[i + 1] = h[(i + 1) - 1] \o ss[i + 1]
      BY <1>4, <3>1
    <3>4. k[i] = h[i] /\ tt[i + 1] = ss[i + 1]
      BY <1>1, <1>7, <3>1
    <3> QED BY <3>1, <3>2, <3>3, <3>4
  <2>2. i + 1 \in Nat
    OBVIOUS
  <2> QED BY <2>1, <2>2
<1>8. \A i \in Nat : i \in S
  <2> HIDE DEF S
  <2> QED BY <1>6, <1>7, Induction
<1>9. k[n] = h[n]
  BY <1>1, <1>8
<1>10. k[n + 1] = k[n] \o tt[n + 1]
  <2>1. n + 1 \in 1..(n + 1) /\ (n + 1) - 1 = n
    BY <1>1
  <2>2. k[n + 1] = k[(n + 1) - 1] \o tt[n + 1]
    BY <1>5, <2>1
  <2> QED BY <2>1, <2>2
<1>11. FlattenSeq(ss) \in Seq(A)
  <2>1. n \in 0..n
    BY <1>1
  <2> QED BY <1>2, <1>4, <2>1
<1>12. FlattenSeq(tt) = FlattenSeq(ss) \o s
  BY <1>1, <1>2, <1>3, <1>9, <1>10
<1> QED BY <1>11, <1>12 DEF tt
=============================================================================
