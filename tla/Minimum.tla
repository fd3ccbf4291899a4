------------------------------ MODULE Minimum ------------------------------
(***************************************************************************)
(* A set of natural numbers has a least element.  A statement about all    *)
(* numbers is proved from it without the induction theorems of the         *)
(* library: the set of its counterexamples would have a least one.         *)
(* What the proofs about several components take from that.                *)
(***************************************************************************)
EXTENDS Ranking, FiniteSetTheorems, WellFoundedInduction, TLAPS

LEMMA LeastExists ==
  ASSUME NEW S \in SUBSET Nat, S # {}
  PROVE  \E x \in S : \A y \in S : x <= y
<1> DEFINE R == OpToRel(<, Nat)
<1>1. \E x \in S : \A y \in S : ~ (<<y, x>> \in R)
  BY NatLessThanWellFounded, WFMin
<1>2. \A x, y \in Nat : x < y => <<x, y>> \in R
  BY DEF OpToRel
<1> HIDE DEF R
<1>3. PICK x \in S : \A y \in S : ~ (<<y, x>> \in R)
  BY <1>1
<1>4. \A y \in S : x <= y
  <2> TAKE y \in S
  <2>1. ~ (y < x)
    BY <1>2, <1>3
  <2> QED
    BY <2>1
<1> QED
  BY <1>4

\* A set of numbers up to n has a greatest one.
LEMMA GreatestExists ==
  ASSUME NEW n \in Nat, NEW S \in SUBSET (0 .. n), S # {}
  PROVE  \E x \in S : \A y \in S : y <= x
<1> DEFINE D == {n - x : x \in S}
<1>1. D \in SUBSET Nat /\ D # {}
  OBVIOUS
<1>2. PICK d \in D : \A e \in D : d <= e
  BY <1>1, LeastExists
<1>3. PICK x \in S : d = n - x
  BY <1>2
<1>4. \A y \in S : y <= x
  <2> TAKE y \in S
  <2>1. n - x <= n - y
    BY <1>2, <1>3
  <2> QED
    BY <2>1
<1> QED
  BY <1>4

\* f gives the first n steps of g from a.
Iterates(f, n, S, a, g) ==
  /\ f \in [0 .. n -> S]
  /\ f[0] = a
  /\ \A d \in 1 .. n : f[d] = g[f[d - 1]]

\* A function on 0 .. n can be defined by its value at 0 and the step g from each
\* value to the next.
LEMMA RecursionExists ==
  ASSUME NEW n \in Nat, NEW S, NEW a \in S, NEW g \in [S -> S]
  PROVE  \E f : Iterates(f, n, S, a, g)
<1> DEFINE Ok(m) == \E f : Iterates(f, m, S, a, g)
           Bad == {m \in Nat : ~ Ok(m)}
<1>1. Ok(0)
  <2> DEFINE h == [d \in 0 .. 0 |-> a]
  <2>1. h \in [0 .. 0 -> S] /\ h[0] = a /\ 1 .. 0 = {}
    OBVIOUS
  <2>2. Iterates(h, 0, S, a, g)
    BY <2>1 DEF Iterates
  <2> QED
    BY <2>2
<1>2. ASSUME NEW m \in Nat, Ok(m)
      PROVE  Ok(m + 1)
  <2>1. PICK f : Iterates(f, m, S, a, g)
    BY <1>2
  <2> DEFINE h == [d \in 0 .. (m + 1) |-> IF d = m + 1 THEN g[f[m]] ELSE f[d]]
  <2>2. h \in [0 .. (m + 1) -> S] /\ h[0] = a
    BY <2>1 DEF Iterates
  <2>3. \A d \in 1 .. (m + 1) : h[d] = g[h[d - 1]]
    BY <2>1 DEF Iterates
  <2>4. Iterates(h, m + 1, S, a, g)
    BY <2>2, <2>3 DEF Iterates
  <2> QED
    BY <2>4
<1> HIDE DEF Ok
<1>3. Bad = {}
  <2> SUFFICES ASSUME Bad # {}
               PROVE  FALSE
    OBVIOUS
  <2>1. PICK x \in Bad : \A y \in Bad : x <= y
    BY LeastExists
  <2>2. x # 0 /\ x \in Nat /\ ~ Ok(x)
    BY <1>1
  <2>3. x - 1 \in Nat /\ x - 1 \notin Bad
    BY <2>1, <2>2
  <2> QED
    BY <2>2, <2>3, <1>2
<1> QED
  BY <1>3 DEF Ok
-----------------------------------------------------------------------------
(* The numbers of a finite set counted from the least one: Rank and Nth.   *)

LEMMA RankFacts ==
  ASSUME NEW n \in Nat, NEW S \in SUBSET (1 .. n)
  PROVE  /\ IsFiniteSet(S) /\ Cardinality(S) \in Nat
         /\ \A i \in S : Rank(S, i) \in 1 .. Cardinality(S)
         /\ \A i, j \in S : i < j => Rank(S, i) < Rank(S, j)
<1>1. IsFiniteSet(1 .. n)
  BY FS_Interval
<1>2. IsFiniteSet(S)
  BY <1>1, FS_Subset
<1>3. Cardinality(S) \in Nat
  BY <1>2, FS_CardinalityType
<1>4. ASSUME NEW i \in S
      PROVE  Rank(S, i) \in 1 .. Cardinality(S)
  <2> DEFINE T == {l \in S : l <= i}
  <2>1. T \in SUBSET S /\ i \in T
    OBVIOUS
  <2> HIDE DEF T
  <2>2. IsFiniteSet(T) /\ Cardinality(T) <= Cardinality(S)
    BY <1>2, <2>1, FS_Subset
  <2>3. Cardinality(T) \in Nat /\ Cardinality(T) # 0
    BY <2>1, <2>2, FS_CardinalityType, FS_EmptySet
  <2>4. Cardinality(T) \in 1 .. Cardinality(S)
    BY <2>2, <2>3, <1>3
  <2> QED
    BY <2>4 DEF Rank, T
<1>5. ASSUME NEW i \in S, NEW j \in S, i < j
      PROVE  Rank(S, i) < Rank(S, j)
  <2> DEFINE T == {l \in S : l <= i}
             U == {l \in S : l <= j}
  <2>a. \A l \in S : l \in Int
    OBVIOUS
  <2>b. i \in Int /\ j \in Int
    BY <2>a
  <2>1. U \in SUBSET S /\ T \in SUBSET U /\ j \in U /\ j \notin T
    <3>1. \A l \in S : l <= i => l <= j
      BY <1>5, <2>a, <2>b
    <3>2. j <= j /\ ~ (j <= i)
      BY <1>5, <2>b
    <3> QED
      BY <3>1, <3>2
  <2> HIDE DEF T, U
  <2>2. IsFiniteSet(U)
    BY <1>2, <2>1, FS_Subset
  <2>3. IsFiniteSet(T) /\ Cardinality(T) <= Cardinality(U) /\ Cardinality(T) # Cardinality(U)
    BY <2>1, <2>2, FS_Subset
  <2>4. Cardinality(T) \in Nat /\ Cardinality(U) \in Nat
    BY <2>2, <2>3, FS_CardinalityType
  <2>5. Cardinality(T) < Cardinality(U)
    BY <2>3, <2>4
  <2> QED
    BY <2>5 DEF Rank, T, U
<1> QED
  BY <1>2, <1>3, <1>4, <1>5

\* Nth counts through S from its least number to its greatest.
LEMMA NthFacts ==
  ASSUME NEW n \in Nat, NEW S \in SUBSET (1 .. n)
  PROVE  /\ \A r \in 1 .. Cardinality(S) : Nth(S, r) \in S /\ Rank(S, Nth(S, r)) = r
         /\ \A r, s \in 1 .. Cardinality(S) : r < s <=> Nth(S, r) < Nth(S, s)
         /\ \A i \in S : Nth(S, Rank(S, i)) = i
<1> DEFINE c == Cardinality(S)
           rank == [i \in S |-> Rank(S, i)]
<1>1. /\ IsFiniteSet(S) /\ c \in Nat
      /\ \A i \in S : Rank(S, i) \in 1 .. c
      /\ \A i, j \in S : i < j => Rank(S, i) < Rank(S, j)
  BY RankFacts
<1>2. \A i, j \in S : Rank(S, i) = Rank(S, j) => i = j
  <2> TAKE i, j \in S
  <2>1. i \in Int /\ j \in Int /\ Rank(S, i) \in Int /\ Rank(S, j) \in Int
    BY <1>1
  <2> QED
    BY <1>1, <2>1
<1>3. \A r \in 1 .. c : \E i \in S : Rank(S, i) = r
  <2>1. rank \in Injection(S, 1 .. c)
    BY <1>1, <1>2 DEF Injection, IsInjective
  <2>2. IsFiniteSet(1 .. c) /\ Cardinality(1 .. c) = c
    BY <1>1, FS_Interval
  <2>3. rank \in Surjection(S, 1 .. c)
    <3> HIDE DEF rank
    <3> QED
      BY <2>1, <2>2, FS_Injection
  <2> QED
    BY <2>3 DEF Surjection
<1>4. \A r \in 1 .. c : Nth(S, r) \in S /\ Rank(S, Nth(S, r)) = r
  BY <1>3 DEF Nth, Rank
<1>5. \A r, s \in 1 .. c : r < s <=> Nth(S, r) < Nth(S, s)
  <2> TAKE r, s \in 1 .. c
  <2> DEFINE i == Nth(S, r)
             j == Nth(S, s)
  <2>1. i \in S /\ j \in S /\ Rank(S, i) = r /\ Rank(S, j) = s
    BY <1>4
  <2> HIDE DEF i, j
  <2>2. i \in Int /\ j \in Int /\ r \in Int /\ s \in Int
    BY <2>1
  <2>3. r < s <=> i < j
    BY <1>1, <2>1, <2>2
  <2> QED
    BY <2>3 DEF i, j
<1>6. \A i \in S : Nth(S, Rank(S, i)) = i
  BY <1>1, <1>2, <1>4
<1> QED
  BY <1>4, <1>5, <1>6

\* g counts through the c numbers in S in order.
CountsThrough(g, c, S) ==
  /\ g \in [1 .. c -> S]
  /\ \A i \in S : \E r \in 1 .. c : g[r] = i
  /\ \A r, s \in 1 .. c : r < s => g[r] < g[s]

\* What does so is Nth.
LEMMA Enumerates ==
  ASSUME NEW n \in Nat, NEW S \in SUBSET (1 .. n), NEW c \in Nat, NEW g, CountsThrough(g, c, S)
  PROVE  Cardinality(S) = c /\ \A r \in 1 .. c : Nth(S, r) = g[r]
<1>0. /\ g \in [1 .. c -> S]
      /\ \A i \in S : \E r \in 1 .. c : g[r] = i
      /\ \A r, s \in 1 .. c : r < s => g[r] < g[s]
  BY DEF CountsThrough
<1>a. \A r \in 1 .. c : g[r] \in S /\ g[r] \in Int
  <2>1. \A l \in S : l \in Int
    OBVIOUS
  <2> QED
    BY <1>0, <2>1
<1>1. \A r, s \in 1 .. c : g[r] <= g[s] => r <= s
  <2> TAKE r, s \in 1 .. c
  <2>1. g[r] \in Int /\ g[s] \in Int
    BY <1>a
  <2> QED
    BY <1>0, <2>1
<1>2. ASSUME NEW r \in 1 .. c
      PROVE  Rank(S, g[r]) = r
  <2> DEFINE T == {l \in S : l <= g[r]}
             f == [s \in 1 .. r |-> g[s]]
  <2>1. \A s \in 1 .. r : s \in 1 .. c /\ g[s] \in S /\ g[s] <= g[r]
    <3> TAKE s \in 1 .. r
    <3>1. s \in 1 .. c /\ (s < r \/ s = r)
      OBVIOUS
    <3>2. g[s] \in S /\ g[s] \in Int /\ g[r] \in Int
      BY <1>a, <3>1
    <3>3. g[s] < g[r] \/ g[s] = g[r]
      BY <1>0, <3>1
    <3> QED
      BY <3>1, <3>2, <3>3
  <2>2. f \in [1 .. r -> T]
    BY <2>1
  <2>3. \A s, u \in 1 .. r : g[s] = g[u] => s = u
    <3> TAKE s, u \in 1 .. r
    <3>1. s \in 1 .. c /\ u \in 1 .. c /\ g[s] \in Int /\ g[u] \in Int
      BY <2>1, <1>a
    <3> QED
      BY <3>1, <1>1
  <2>4. \A i \in T : \E s \in 1 .. r : g[s] = i
    <3> TAKE i \in T
    <3>1. PICK s \in 1 .. c : g[s] = i
      BY <1>0
    <3>2. s <= r
      BY <1>1, <3>1
    <3> QED
      BY <3>1, <3>2
  <2>5. f \in Bijection(1 .. r, T)
    BY <2>2, <2>3, <2>4 DEF Bijection, Injection, IsInjective, Surjection
  <2>6. ExistsBijection(1 .. r, T)
    BY <2>5 DEF ExistsBijection
  <2> HIDE DEF T
  <2>7. Cardinality(T) = r
    BY <2>6, FS_CountingElements
  <2> QED
    BY <2>7 DEF Rank, T
<1>3. Cardinality(S) = c
  <2>1. g \in Bijection(1 .. c, S)
    <3>1. \A s, u \in 1 .. c : g[s] = g[u] => s = u
      <4> TAKE s, u \in 1 .. c
      <4>1. g[s] \in Int /\ g[u] \in Int
        BY <1>a
      <4> QED
        BY <4>1, <1>1
    <3> QED
      BY <1>0, <3>1 DEF Bijection, Injection, IsInjective, Surjection
  <2>2. ExistsBijection(1 .. c, S)
    BY <2>1 DEF ExistsBijection
  <2> QED
    BY <2>2, FS_CountingElements
<1>4. \A r \in 1 .. c : Nth(S, r) = g[r]
  <2> TAKE r \in 1 .. c
  <2>1. Nth(S, Rank(S, g[r])) = g[r]
    BY <1>a, NthFacts
  <2> QED
    BY <1>2, <2>1
<1> QED
  BY <1>3, <1>4

\* The first m numbers, when they are all in S, are counted as themselves.
LEMMA NthOfFirst ==
  ASSUME NEW n \in Nat, NEW S \in SUBSET (1 .. n), NEW m \in Nat, 1 .. m \subseteq S
  PROVE  /\ m <= Cardinality(S)
         /\ \A j \in 1 .. m : Nth(S, j) = j
         /\ \A j \in m + 1 .. Cardinality(S) : Nth(S, j) > m
<1>1. /\ IsFiniteSet(S) /\ Cardinality(S) \in Nat
      /\ \A r \in 1 .. Cardinality(S) : Nth(S, r) \in S /\ Rank(S, Nth(S, r)) = r
      /\ \A i \in S : Nth(S, Rank(S, i)) = i
  BY RankFacts, NthFacts
<1>2. ASSUME NEW j \in 1 .. m
      PROVE  j \in S /\ Rank(S, j) = j
  <2>1. j \in Nat /\ 1 <= j /\ j <= m /\ j \in S
    OBVIOUS
  <2>2. \A l \in S : l <= j => l \in 1 .. j
    BY <2>1
  <2>3. \A l \in 1 .. j : l \in S /\ l <= j
    <3>1. \A l \in 1 .. j : l \in 1 .. m /\ l <= j
      BY <2>1
    <3> QED
      BY <3>1
  <2>4. {l \in S : l <= j} = 1 .. j
    BY <2>2, <2>3
  <2>5. Cardinality(1 .. j) = j
    BY <2>1, FS_Interval
  <2> QED
    BY <2>1, <2>4, <2>5 DEF Rank
<1>3. m <= Cardinality(S)
  <2>1. Cardinality(1 .. m) = m
    BY FS_Interval
  <2> QED
    BY <1>1, <2>1, FS_Subset
<1>4. ASSUME NEW j \in m + 1 .. Cardinality(S)
      PROVE  Nth(S, j) > m
  <2>1. j \in 1 .. Cardinality(S) /\ j > m
    BY <1>1
  <2>2. Nth(S, j) \in S /\ Nth(S, j) \in 1 .. n /\ Rank(S, Nth(S, j)) = j
    BY <1>1, <2>1
  <2>3. Nth(S, j) \in 1 .. m => Rank(S, Nth(S, j)) = Nth(S, j)
    BY <1>2
  <2> DEFINE i == Nth(S, j)
  <2>4. i \in 1 .. n /\ (i \in 1 .. m => i = j)
    BY <2>2, <2>3
  <2> HIDE DEF i
  <2>5. i > m
    BY <2>1, <2>4
  <2> QED
    BY <2>5 DEF i
<1> QED
  BY <1>1, <1>2, <1>3, <1>4

LEMMA NthOfAll ==
  ASSUME NEW c \in Nat
  PROVE  Cardinality(1 .. c) = c /\ \A j \in 1 .. c : Nth(1 .. c, j) = j
<1> DEFINE S == 1 .. c
<1>1. Cardinality(S) = c
  BY FS_Interval
<1>2. S \in SUBSET (1 .. c) /\ 1 .. c \subseteq S
  OBVIOUS
<1> HIDE DEF S
<1>3. \A j \in 1 .. c : Nth(S, j) = j
  BY <1>2, NthOfFirst
<1> QED
  BY <1>1, <1>3 DEF S
=============================================================================
