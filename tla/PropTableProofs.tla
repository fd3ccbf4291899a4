--------------------------- MODULE PropTableProofs ---------------------------
(***************************************************************************)
(* What PropTable guarantees for all keys and hash functions, however a    *)
(* collection moves the keys: the table finds what it holds, and           *)
(* implements the ordered map OrderedProps.                                *)
(***************************************************************************)
EXTENDS PropTable, Minimum, FiniteSetTheorems, SequenceTheorems

-----------------------------------------------------------------------------
(* Powers of two and the size of the hash table.                           *)

\* Pow2 is the last value of a function that doubles at every step.
LEMMA Pow2Steps ==
  ASSUME NEW n \in Nat
  PROVE  \E p \in [0 .. n -> Nat] :
           p = [d \in 0 .. n |-> IF d = 0 THEN 1 ELSE 2 * p[d - 1]] /\ Pow2(n) = p[n]
<1> DEFINE g == [x \in Nat |-> 2 * x]
<1>1. PICK f : Iterates(f, n, Nat, 1, g)
  <2>1. g \in [Nat -> Nat] /\ 1 \in Nat
    OBVIOUS
  <2> HIDE DEF g
  <2> QED
    BY <2>1, RecursionExists
<1>2. \A d \in 0 .. n : f[d] = IF d = 0 THEN 1 ELSE 2 * f[d - 1]
  <2>1. f \in [0 .. n -> Nat] /\ f[0] = 1 /\ \A d \in 1 .. n : f[d] = g[f[d - 1]]
    BY <1>1 DEF Iterates
  <2>2. ASSUME NEW d \in 1 .. n
        PROVE  f[d] = 2 * f[d - 1]
    <3>1. f[d - 1] \in Nat
      BY <2>1
    <3> QED
      BY <2>1, <3>1
  <2> HIDE DEF g
  <2> QED
    BY <2>1, <2>2
<1> DEFINE Doubles(p) == p = [d \in 0 .. n |-> IF d = 0 THEN 1 ELSE 2 * p[d - 1]]
           P == CHOOSE p : Doubles(p)
<1>3. Doubles(f)
  <2>1. f \in [0 .. n -> Nat]
    BY <1>1 DEF Iterates
  <2> QED
    BY <1>2, <2>1
<1>4. Doubles(P)
  BY <1>3
<1>5. Pow2(n) = P[n]
  BY DEF Pow2
<1> HIDE DEF P
<1>6. \A d \in 0 .. n : P[d] = IF d = 0 THEN 1 ELSE 2 * P[d - 1]
  BY <1>4
<1>7. \A d \in 0 .. n : P[d] = f[d]
  <2> DEFINE Bad == {d \in 0 .. n : P[d] # f[d]}
  <2> SUFFICES ASSUME Bad # {}
               PROVE  FALSE
    OBVIOUS
  <2>1. PICK d \in Bad : \A e \in Bad : d <= e
    <3>1. Bad \in SUBSET Nat
      OBVIOUS
    <3> HIDE DEF Bad
    <3> QED
      BY <3>1, LeastExists
  <2>2. d \in 0 .. n /\ P[d] # f[d] /\ d # 0
    BY <1>2, <1>6
  <2>3. d - 1 \in 0 .. n /\ d - 1 \notin Bad
    BY <2>1, <2>2
  <2>4. P[d - 1] = f[d - 1]
    BY <2>3
  <2> QED
    BY <1>2, <1>6, <2>2, <2>4
<1>8. P = f /\ f \in [0 .. n -> Nat]
  BY <1>1, <1>4, <1>7 DEF Iterates
<1> QED
  BY <1>3, <1>5, <1>8

\* The laws of Pow2 that the sizes need.
LEMMA Pow2Facts ==
  /\ Pow2(0) = 1
  /\ \A n \in Nat : Pow2(n) \in Nat /\ Pow2(n + 1) = 2 * Pow2(n) /\ n < Pow2(n)
<1>1. Pow2(0) = 1
  BY Pow2Steps
<1>2. ASSUME NEW n \in Nat
      PROVE  Pow2(n) \in Nat /\ Pow2(n + 1) = 2 * Pow2(n)
  <2>1. PICK p \in [0 .. n -> Nat] :
          p = [d \in 0 .. n |-> IF d = 0 THEN 1 ELSE 2 * p[d - 1]] /\ Pow2(n) = p[n]
    BY Pow2Steps
  <2>2. PICK q \in [0 .. (n + 1) -> Nat] :
          q = [d \in 0 .. (n + 1) |-> IF d = 0 THEN 1 ELSE 2 * q[d - 1]] /\ Pow2(n + 1) = q[n + 1]
    <3>1. n + 1 \in Nat
      OBVIOUS
    <3> QED
      BY ONLY <3>1, Pow2Steps
  <2>3. \A d \in 0 .. n : p[d] = IF d = 0 THEN 1 ELSE 2 * p[d - 1]
    BY <2>1
  <2>4. \A d \in 0 .. (n + 1) : q[d] = IF d = 0 THEN 1 ELSE 2 * q[d - 1]
    BY <2>2
  <2>5. \A d \in 0 .. n : p[d] = q[d]
    <3> DEFINE Bad == {d \in 0 .. n : p[d] # q[d]}
    <3> SUFFICES ASSUME Bad # {}
                 PROVE  FALSE
      OBVIOUS
    <3>1. PICK d \in Bad : \A e \in Bad : d <= e
      <4>1. Bad \in SUBSET Nat
        OBVIOUS
      <4> HIDE DEF Bad
      <4> QED
        BY <4>1, LeastExists
    <3>2. d \in 0 .. n /\ p[d] # q[d] /\ d # 0
      BY <2>3, <2>4
    <3>3. d - 1 \in 0 .. n /\ d - 1 \notin Bad
      BY <3>1, <3>2
    <3>4. p[d - 1] = q[d - 1]
      BY <3>3
    <3> QED
      BY <2>3, <2>4, <3>2, <3>4
  <2>6. p[n] = q[n] /\ q[n + 1] = 2 * q[n] /\ p[n] \in Nat
    BY <2>4, <2>5
  <2> QED
    BY <2>1, <2>2, <2>6
<1>3. ASSUME NEW n \in Nat
      PROVE  n < Pow2(n)
  <2> DEFINE Bad == {m \in Nat : ~ (m < Pow2(m))}
  <2> SUFFICES ASSUME Bad # {}
               PROVE  FALSE
    OBVIOUS
  <2>1. PICK m \in Bad : \A e \in Bad : m <= e
    BY LeastExists
  <2>2. m \in Nat /\ ~ (m < Pow2(m)) /\ m # 0
    BY <1>1
  <2>3. m - 1 \in Nat /\ m - 1 \notin Bad
    BY <2>1, <2>2
  <2>4. m - 1 < Pow2(m - 1) /\ Pow2(m - 1) \in Nat /\ Pow2((m - 1) + 1) = 2 * Pow2(m - 1) /\ (m - 1) + 1 = m
    BY <2>3, <1>2
  <2> QED
    BY <2>2, <2>4
<1> QED
  BY <1>1, <1>2, <1>3

LEMMA Pow2Grows ==
  ASSUME NEW a \in Nat, NEW b \in Nat, a < b
  PROVE  Pow2(a) < Pow2(b)
<1> DEFINE Bad == {c \in Nat : a < c /\ ~ (Pow2(a) < Pow2(c))}
<1> SUFFICES ASSUME Bad # {}
             PROVE  FALSE
  OBVIOUS
<1>1. PICK c \in Bad : \A e \in Bad : c <= e
  BY LeastExists
<1>2. c \in Nat /\ a < c /\ ~ (Pow2(a) < Pow2(c)) /\ c - 1 \in Nat /\ c - 1 \notin Bad /\ (c - 1) + 1 = c
  BY <1>1
<1>3. /\ Pow2(a) \in Nat /\ Pow2(c - 1) \in Nat /\ Pow2(c) = 2 * Pow2(c - 1)
      /\ a < Pow2(a)
  BY <1>2, Pow2Facts
<1>4. c - 1 = a \/ Pow2(a) < Pow2(c - 1)
  BY <1>2
<1> QED
  BY <1>2, <1>3, <1>4

LEMMA SizeLog2 ==
  ASSUME NEW n \in Nat
  PROVE  get_prop_hash_size_log2(n) \in 0 .. n
<1>1. CASE n <= 1
  BY <1>1 DEF get_prop_hash_size_log2
<1>2. CASE n > 1
  <2> DEFINE m == n - 1
             Above == {l \in Nat : m < Pow2(l + 1)}
  <2>1. m \in Nat /\ m # 0
    BY <1>2
  <2> HIDE DEF m
  <2>2. m \in Above
    BY <2>1, Pow2Facts
  <2>3. PICK l \in Above : \A k \in Above : l <= k
    BY <2>2, LeastExists
  <2>4. l \in 0 .. m
    BY <2>1, <2>2, <2>3
  <2>5. Pow2(l) <= m
    <3>1. CASE l = 0
      BY <3>1, <2>1, Pow2Facts
    <3>2. CASE l # 0
      <4>1. l - 1 \in Nat /\ (l - 1) + 1 = l /\ l - 1 \notin Above
        BY <2>3, <2>4, <3>2
      <4>2. Pow2(l) \in Nat
        BY <2>4, Pow2Facts
      <4> QED
        BY <4>1, <4>2, <2>1
    <3> QED
      BY <3>1, <3>2
  <2>6. Log2(m) \in 0 .. m
    BY <2>3, <2>4, <2>5 DEF Log2
  <2>7. get_prop_hash_size_log2(n) = Log2(m)
    BY <1>2 DEF get_prop_hash_size_log2, m
  <2> QED
    BY <2>6, <2>7 DEF m
<1> QED
  BY <1>1, <1>2

-----------------------------------------------------------------------------
(* The last of a set of slots.                                             *)

LEMMA LastInFacts ==
  ASSUME NEW n \in Nat, NEW S \in SUBSET (1 .. n)
  PROVE  /\ LastIn(S) \in 0 .. n
         /\ S = {} => LastIn(S) = 0
         /\ S # {} => LastIn(S) \in S
         /\ \A j \in S : j <= LastIn(S)
         /\ \A x \in S : (\A j \in S : j <= x) => LastIn(S) = x
<1>1. CASE S = {}
  BY <1>1 DEF LastIn
<1>2. CASE S # {}
  <2>1. \E x \in S : \A y \in S : y <= x
    <3>1. S \in SUBSET (0 .. n)
      OBVIOUS
    <3> QED
      BY <1>2, <3>1, GreatestExists
  <2>2. Max(S) \in S /\ \A y \in S : y <= Max(S)
    BY <2>1 DEF Max
  <2>a. \A y \in S : y \in Int /\ y \in 0 .. n
    OBVIOUS
  <2>3. LastIn(S) = Max(S)
    BY <1>2 DEF LastIn
  <2>4. ASSUME NEW x \in S, \A j \in S : j <= x
        PROVE  LastIn(S) = x
    <3>1. x <= Max(S) /\ Max(S) <= x /\ x \in Int /\ Max(S) \in Int
      BY <2>2, <2>4, <2>a
    <3> QED
      BY <3>1, <2>3
  <2>5. LastIn(S) \in 0 .. n
    BY <2>2, <2>3, <2>a
  <2> QED
    BY <1>2, <2>2, <2>3, <2>4, <2>5
<1> QED
  BY <1>1, <1>2

-----------------------------------------------------------------------------
(* What is true of every table, whatever collections did to the hash h.    *)

Slot == [key : Key \cup {Uninit, Undef}, value : PropVal \cup {Undef}, next : Nat]
HashFunction == [Key -> Nat]

\* t has the four parts of a table.
Whole(t) == t = [count |-> t.count, hash_mask |-> t.hash_mask, heads |-> t.heads, slots |-> t.slots]

\* The parts of a table, with nothing said of its chains.
Array(t) ==
  /\ Whole(t)
  /\ t.count \in Nat /\ t.hash_mask \in Nat
  /\ t.slots \in Seq(Slot)

\* As many are live as are counted, all with different keys, and none is after a
\* slot that was not used yet.
Counted(t) ==
  /\ t.count = Cardinality(Live(t))
  /\ \A i, j \in Live(t) : t.slots[i].key = t.slots[j].key => i = j
  /\ \A i \in Live(t), j \in DOMAIN t.slots : t.slots[j].key = Undef => i < j

\* The mask is the one of a size that is a power of two.
Masked(t) == \E l \in 0 .. Len(t.slots) : t.hash_mask = Pow2(l) - 1

\* Heads and links are slots, or 0 at the end.
Pointing(t) ==
  /\ t.heads \in [0 .. t.hash_mask -> 0 .. Len(t.slots)]
  /\ \A i \in DOMAIN t.slots : t.slots[i].next \in 0 .. Len(t.slots)

\* Each chain goes through the live slots of its bucket from the last to the first.
Linked(t, h) ==
  /\ \A b \in 0 .. t.hash_mask : t.heads[b] = LastBefore(t, h, Live(t), b, Len(t.slots) + 1)
  /\ \A i \in Live(t) :
       t.slots[i].next = LastBefore(t, h, Live(t), Bucket(t, h, t.slots[i].key), i)

\* FreeAtTheEnd of any table.
EndsFree(t) ==
  LET f == get_first_free(t) IN
  /\ f \in 1 .. Len(t.slots) + 1
  /\ \A i \in f .. Len(t.slots) : t.slots[i].key \notin Key
  /\ \A i \in 1 .. f - 1 : t.slots[i].key # Undef
  /\ f > 1 => t.slots[f - 1].key \in Key

Good(t, h) ==
  Array(t) /\ Counted(t) /\ Masked(t) /\ Pointing(t) /\ Linked(t, h) /\ EndsFree(t)

\* Tables with one part changed, and with the heads and the slots changed.
LEMMA Parts ==
  ASSUME NEW t, NEW x, Whole(t)
  PROVE  /\ [t EXCEPT !.count = x]
               = [count |-> x, hash_mask |-> t.hash_mask, heads |-> t.heads, slots |-> t.slots]
         /\ [t EXCEPT !.hash_mask = x]
               = [count |-> t.count, hash_mask |-> x, heads |-> t.heads, slots |-> t.slots]
         /\ [t EXCEPT !.heads = x]
               = [count |-> t.count, hash_mask |-> t.hash_mask, heads |-> x, slots |-> t.slots]
         /\ [t EXCEPT !.slots = x]
               = [count |-> t.count, hash_mask |-> t.hash_mask, heads |-> t.heads, slots |-> x]
<1>1. ASSUME NEW c, NEW m, NEW a, NEW s,
             t = [count |-> c, hash_mask |-> m, heads |-> a, slots |-> s]
      PROVE  /\ [t EXCEPT !.count = x] = [count |-> x, hash_mask |-> m, heads |-> a, slots |-> s]
             /\ [t EXCEPT !.hash_mask = x] = [count |-> c, hash_mask |-> x, heads |-> a, slots |-> s]
             /\ [t EXCEPT !.heads = x] = [count |-> c, hash_mask |-> m, heads |-> x, slots |-> s]
             /\ [t EXCEPT !.slots = x] = [count |-> c, hash_mask |-> m, heads |-> a, slots |-> x]
  BY <1>1
<1> QED
  BY <1>1 DEF Whole

LEMMA TwoParts ==
  ASSUME NEW t, NEW hd, NEW sl, Whole(t)
  PROVE  [t EXCEPT !.heads = hd, !.slots = sl]
           = [count |-> t.count, hash_mask |-> t.hash_mask, heads |-> hd, slots |-> sl]
<1> DEFINE t1 == [t EXCEPT !.heads = hd]
<1>1. t1 = [count |-> t.count, hash_mask |-> t.hash_mask, heads |-> hd, slots |-> t.slots]
  BY Parts
<1>2. Whole(t1) /\ t1.count = t.count /\ t1.hash_mask = t.hash_mask /\ t1.heads = hd
  BY <1>1 DEF Whole
<1>3. [t EXCEPT !.heads = hd, !.slots = sl] = [t1 EXCEPT !.slots = sl]
  OBVIOUS
<1> HIDE DEF t1
<1>4. [t1 EXCEPT !.slots = sl]
        = [count |-> t1.count, hash_mask |-> t1.hash_mask, heads |-> t1.heads, slots |-> sl]
  BY <1>2, Parts
<1>5. [t1 EXCEPT !.slots = sl]
        = [count |-> t.count, hash_mask |-> t.hash_mask, heads |-> hd, slots |-> sl]
  BY <1>2, <1>4
<1> QED
  BY <1>3, <1>5

LEMMA Slots ==
  ASSUME PropTableAssumption, NEW t, Array(t)
  PROVE  /\ Len(t.slots) \in Nat /\ DOMAIN t.slots = 1 .. Len(t.slots)
         /\ \A i \in DOMAIN t.slots : t.slots[i] \in Slot
         /\ Live(t) \in SUBSET (1 .. Len(t.slots))
         /\ \A i \in Live(t) : t.slots[i].key # Uninit /\ t.slots[i].key # Undef
<1>1. Len(t.slots) \in Nat /\ DOMAIN t.slots = 1 .. Len(t.slots)
  BY DEF Array
<1>2. \A i \in DOMAIN t.slots : t.slots[i] \in Slot
  BY DEF Array
<1>3. Live(t) \in SUBSET (1 .. Len(t.slots))
  BY <1>1 DEF Live
<1>4. \A i \in Live(t) : t.slots[i].key # Uninit /\ t.slots[i].key # Undef
  BY DEF Live, PropTableAssumption
<1> QED
  BY <1>1, <1>2, <1>3, <1>4

LEMMA BucketType ==
  ASSUME NEW t, t.hash_mask \in Nat, NEW h \in HashFunction, NEW k
  PROVE  Bucket(t, h, k) \in 0 .. t.hash_mask
<1> DEFINE a == HashOf(h, k)
           m == t.hash_mask
<1>1. a \in Nat /\ m \in Nat
  BY DEF HashOf, HashFunction
<1> HIDE DEF a, m
<1>2. a % (m + 1) \in 0 .. m
  BY <1>1
<1> QED
  BY <1>2 DEF Bucket, a, m

\* LastBefore is the last of the slots before i in bucket b.
Earlier(t, h, S, b, i) == {j \in S : j < i /\ Bucket(t, h, t.slots[j].key) = b}

LEMMA LastBeforeFacts ==
  ASSUME PropTableAssumption, NEW t, Array(t), NEW h, NEW b, NEW S \in SUBSET (1 .. Len(t.slots)),
         NEW i
  PROVE  /\ LastBefore(t, h, S, b, i) \in 0 .. Len(t.slots)
         /\ LastBefore(t, h, S, b, i) # 0 => LastBefore(t, h, S, b, i) \in Earlier(t, h, S, b, i)
         /\ \A j \in Earlier(t, h, S, b, i) : j <= LastBefore(t, h, S, b, i)
         /\ \A q \in Earlier(t, h, S, b, i) :
              (\A j \in Earlier(t, h, S, b, i) : j <= q) => LastBefore(t, h, S, b, i) = q
         /\ Earlier(t, h, S, b, i) = {} => LastBefore(t, h, S, b, i) = 0
<1> DEFINE T == Earlier(t, h, S, b, i)
<1>1. T \in SUBSET (1 .. Len(t.slots)) /\ Len(t.slots) \in Nat
  BY Slots DEF Earlier
<1>2. LastBefore(t, h, S, b, i) = LastIn(T)
  BY DEF LastBefore, Earlier
<1> HIDE DEF T
<1>3. /\ LastIn(T) \in 0 .. Len(t.slots)
      /\ T = {} => LastIn(T) = 0
      /\ T # {} => LastIn(T) \in T
      /\ \A j \in T : j <= LastIn(T)
      /\ \A x \in T : (\A j \in T : j <= x) => LastIn(T) = x
  BY <1>1, LastInFacts
<1> QED
  BY <1>2, <1>3 DEF T

\* The loops that count visit exactly the live slots.
LEMMA VisitedAreLive ==
  ASSUME PropTableAssumption, NEW t, Array(t), Counted(t)
  PROVE  Visited(t) = Live(t)
<1> DEFINE n == Len(t.slots)
           Before(i) == {j \in 1 .. i - 1 : t.slots[j].key # Uninit}
<1>1. /\ n \in Nat /\ DOMAIN t.slots = 1 .. n /\ Live(t) \in SUBSET (1 .. n)
      /\ \A i \in 1 .. n : t.slots[i].key \in Key \cup {Uninit, Undef}
  BY Slots DEF Slot
<1> HIDE DEF n
<1>2. IsFiniteSet(Live(t)) /\ t.count = Cardinality(Live(t)) /\ t.count \in Nat
  BY <1>1, RankFacts DEF Counted
<1>3. ASSUME NEW i \in 1 .. n
      PROVE  IsFiniteSet(Before(i)) /\ Cardinality(Before(i)) \in Nat
  <2>1. Before(i) \in SUBSET (1 .. n)
    BY <1>1
  <2> HIDE DEF Before
  <2> QED
    BY <2>1, <1>1, RankFacts
<1>4. ASSUME NEW i \in 1 .. n, t.slots[i].key = Undef
      PROVE  ~ (Cardinality(Before(i)) < t.count)
  <2>1. Live(t) \in SUBSET Before(i)
    <3>1. ASSUME NEW j \in Live(t)
          PROVE  j \in 1 .. i - 1 /\ t.slots[j].key # Uninit
      <4>1. j < i /\ j \in 1 .. n
        BY <1>1, <1>4 DEF Counted
      <4> QED
        BY <4>1, Slots
    <3> QED
      BY <3>1
  <2> HIDE DEF Before
  <2>2. Cardinality(Live(t)) <= Cardinality(Before(i))
    BY <1>3, <2>1, FS_Subset
  <2> QED
    BY <1>2, <1>3, <2>2
<1>5. ASSUME NEW i \in Live(t)
      PROVE  Cardinality(Before(i)) < t.count
  <2>1. i \in 1 .. n
    BY <1>1
  <2>2. Before(i) \in SUBSET (Live(t) \ {i})
    <3>1. ASSUME NEW j \in 1 .. i - 1, t.slots[j].key # Uninit
          PROVE  j \in Live(t) /\ j # i
      <4>1. j \in 1 .. n /\ ~ (i < j) /\ j # i
        BY <2>1, <1>1
      <4>2. t.slots[j].key # Undef
        BY <4>1, <1>1 DEF Counted
      <4> QED
        BY <4>1, <4>2, <3>1, <1>1 DEF Live
    <3> QED
      BY <3>1
  <2> HIDE DEF Before
  <2>3. IsFiniteSet(Live(t) \ {i}) /\ Cardinality(Live(t) \ {i}) = Cardinality(Live(t)) - 1
    BY <1>2, FS_RemoveElement
  <2>4. Cardinality(Before(i)) <= Cardinality(Live(t) \ {i})
    BY <2>2, <2>3, FS_Subset
  <2> QED
    BY <1>2, <1>3, <2>1, <2>3, <2>4
<1>6. Visited(t) = {i \in 1 .. n : t.slots[i].key # Uninit /\ Cardinality(Before(i)) < t.count}
  BY <1>1 DEF Visited
<1> HIDE DEF Before
<1>7. ASSUME NEW i \in 1 .. n
      PROVE  i \in Visited(t) <=> i \in Live(t)
  <2>1. CASE t.slots[i].key \in Key
    BY <2>1, <1>1, <1>5, <1>6 DEF Live, PropTableAssumption
  <2>2. CASE t.slots[i].key = Undef
    BY <2>2, <1>4, <1>6 DEF Live, PropTableAssumption
  <2>3. CASE t.slots[i].key = Uninit
    BY <2>3, <1>6 DEF Live, PropTableAssumption
  <2> QED
    BY <2>1, <2>2, <2>3, <1>1
<1> QED
  BY <1>1, <1>6, <1>7

-----------------------------------------------------------------------------
(* A collection changes the links only.                                    *)

\* u holds what t holds, where t holds it.
Alike(t, u) ==
  /\ u.count = t.count /\ u.hash_mask = t.hash_mask /\ Len(u.slots) = Len(t.slots)
  /\ \A i \in 1 .. Len(t.slots) :
       u.slots[i].key = t.slots[i].key /\ u.slots[i].value = t.slots[i].value
  /\ \A i \in 1 .. Len(t.slots) : t.slots[i].key = Uninit => u.slots[i].next = t.slots[i].next

LEMMA AlikeFacts ==
  ASSUME PropTableAssumption, NEW t, NEW u, Array(t), Array(u), Alike(t, u)
  PROVE  /\ Live(u) = Live(t)
         /\ get_first_free(u) = get_first_free(t)
         /\ Counted(t) => Counted(u)
         /\ Masked(t) => Masked(u)
         /\ EndsFree(t) => EndsFree(u)
<1>1. /\ DOMAIN t.slots = 1 .. Len(t.slots) /\ DOMAIN u.slots = 1 .. Len(t.slots)
      /\ Len(t.slots) \in Nat
  BY Slots DEF Alike
<1>2. Live(u) = Live(t)
  BY <1>1 DEF Live, Alike
<1>3. get_first_free(u) = get_first_free(t)
  <2>1. Len(t.slots) > 0 => Len(t.slots) \in 1 .. Len(t.slots)
    BY <1>1
  <2> QED
    BY <2>1 DEF get_first_free, Alike
<1>4. Counted(t) => Counted(u)
  <2>1. Live(t) \in SUBSET (1 .. Len(t.slots))
    BY Slots
  <2> QED
    BY <1>1, <1>2, <2>1 DEF Counted, Alike
<1>5. Masked(t) => Masked(u)
  BY DEF Masked, Alike
<1>6. EndsFree(t) => EndsFree(u)
  <2> SUFFICES ASSUME EndsFree(t)
               PROVE  EndsFree(u)
    OBVIOUS
  <2> DEFINE f == get_first_free(t)
             n == Len(t.slots)
  <2>1. /\ f \in 1 .. n + 1
        /\ \A i \in f .. n : t.slots[i].key \notin Key
        /\ \A i \in 1 .. f - 1 : t.slots[i].key # Undef
        /\ f > 1 => t.slots[f - 1].key \in Key
    BY DEF EndsFree
  <2>2. f = get_first_free(u) /\ n = Len(u.slots) /\ n \in Nat
    BY <1>1, <1>3 DEF Alike
  <2> HIDE DEF f, n
  <2>3. \A i \in 1 .. n : u.slots[i].key = t.slots[i].key
    BY DEF Alike, n
  <2>4. /\ \A i \in f .. n : i \in 1 .. n
        /\ \A i \in 1 .. f - 1 : i \in 1 .. n
        /\ f > 1 => f - 1 \in 1 .. n
    BY <2>1, <2>2
  <2>5. /\ \A i \in f .. n : u.slots[i].key \notin Key
        /\ \A i \in 1 .. f - 1 : u.slots[i].key # Undef
        /\ f > 1 => u.slots[f - 1].key \in Key
    BY <2>1, <2>3, <2>4
  <2> QED
    BY <2>1, <2>2, <2>5 DEF EndsFree
<1> QED
  BY <1>2, <1>3, <1>4, <1>5, <1>6

\* A rehash links what is live by its new hash.
LEMMA Rehashed ==
  ASSUME PropTableAssumption, NEW t, NEW h \in HashFunction, Array(t), Counted(t), Masked(t),
         \A i \in 1 .. Len(t.slots) : i \notin Live(t) => t.slots[i].next \in 0 .. Len(t.slots)
  PROVE  LET u == js_rehash_props(t, h)
         IN  /\ Alike(t, u) /\ Array(u) /\ Counted(u) /\ Masked(u)
             /\ Pointing(u) /\ Linked(u, h)
<1> DEFINE n == Len(t.slots)
           m == t.hash_mask
           L == Live(t)
           before(b, i) == LastBefore(t, h, L, b, i)
           hd == [b \in 0 .. m |-> before(b, n + 1)]
           sl == [i \in 1 .. n |->
                    IF i \in L
                    THEN [t.slots[i] EXCEPT !.next = before(Bucket(t, h, t.slots[i].key), i)]
                    ELSE t.slots[i]]
           u == [count |-> t.count, hash_mask |-> m, heads |-> hd, slots |-> sl]
<1>1. /\ n \in Nat /\ DOMAIN t.slots = 1 .. n /\ L \in SUBSET (1 .. n)
      /\ \A i \in 1 .. n : t.slots[i] \in Slot
      /\ t.count \in Nat /\ m \in Nat
  BY Slots DEF Array
<1>2. \A b : \A i \in Nat : before(b, i) \in 0 .. n
  BY <1>1, LastBeforeFacts
<1>3. js_rehash_props(t, h) = u
  <2>1. Visited(t) = L
    BY VisitedAreLive
  <2>2. js_rehash_props(t, h) = [t EXCEPT !.heads = hd, !.slots = sl]
    BY <1>1, <2>1 DEF js_rehash_props
  <2> HIDE DEF hd, sl
  <2>3. [t EXCEPT !.heads = hd, !.slots = sl] = u
    BY TwoParts DEF Array
  <2> QED
    BY <2>2, <2>3
<1> HIDE DEF before, n, m, L
<1>4. \A i \in 1 .. n : i \notin L => t.slots[i].next \in 0 .. n
  BY DEF n, L
<1>5. \A i \in 1 .. n :
        /\ sl[i] \in Slot
        /\ sl[i].key = t.slots[i].key /\ sl[i].value = t.slots[i].value
        /\ sl[i].next \in 0 .. n
        /\ i \in L => sl[i].next = before(Bucket(t, h, t.slots[i].key), i)
        /\ i \notin L => sl[i].next = t.slots[i].next
  <2> TAKE i \in 1 .. n
  <2>1. i \in Nat /\ t.slots[i] \in Slot
    BY <1>1
  <2>2. CASE i \in L
    <3>1. sl[i] = [t.slots[i] EXCEPT !.next = before(Bucket(t, h, t.slots[i].key), i)]
      BY <2>2
    <3>2. before(Bucket(t, h, t.slots[i].key), i) \in 0 .. n
      BY <1>2, <2>1
    <3> HIDE DEF sl
    <3> QED
      BY <2>1, <2>2, <3>1, <3>2, <1>1 DEF Slot
  <2>3. CASE i \notin L
    <3>1. sl[i] = t.slots[i]
      BY <2>3
    <3> HIDE DEF sl
    <3> QED
      BY <2>1, <2>3, <3>1, <1>4
  <2> QED
    BY <2>2, <2>3
<1>6. sl \in Seq(Slot) /\ Len(sl) = n /\ DOMAIN sl = 1 .. n
  <2>1. sl = [i \in 1 .. n |-> sl[i]]
    OBVIOUS
  <2> HIDE DEF sl
  <2>2. sl \in [1 .. n -> Slot]
    BY <2>1, <1>5
  <2> QED
    BY <1>1, <2>2
<1>7. hd \in [0 .. m -> 0 .. n] /\ \A b \in 0 .. m : hd[b] = before(b, n + 1)
  BY <1>1, <1>2
<1> HIDE DEF hd, sl
<1>8. /\ u.count = t.count /\ u.hash_mask = m /\ u.heads = hd /\ u.slots = sl
      /\ u = [count |-> u.count, hash_mask |-> u.hash_mask, heads |-> u.heads, slots |-> u.slots]
  OBVIOUS
<1> HIDE DEF u
<1>9. Array(u)
  BY <1>1, <1>6, <1>8 DEF Array, Whole
<1>10. \A i \in 1 .. n : t.slots[i].key = Uninit => i \notin L
  BY <1>1 DEF L, Live, PropTableAssumption
<1>11. Alike(t, u)
  BY <1>5, <1>6, <1>8, <1>10 DEF Alike, n, m
<1>12. Live(u) = L /\ Counted(u) /\ Masked(u)
  BY <1>9, <1>11, AlikeFacts DEF L
<1>13. Pointing(u)
  BY <1>5, <1>6, <1>7, <1>8 DEF Pointing
<1>14. Linked(u, h)
  <2>1. \A k : Bucket(u, h, k) = Bucket(t, h, k)
    BY <1>8 DEF Bucket, m
  <2>2. \A b, i : LastBefore(u, h, L, b, i) = before(b, i)
    <3> TAKE b, i
    <3>1. {j \in L : j < i /\ Bucket(u, h, u.slots[j].key) = b} = {j \in L : j < i /\ Bucket(t, h, t.slots[j].key) = b}
      BY <2>1, <1>1, <1>5, <1>8
    <3> QED
      BY <3>1 DEF LastBefore, before
  <2>3. \A b \in 0 .. m : u.heads[b] = LastBefore(u, h, L, b, n + 1)
    BY <1>7, <1>8, <2>2
  <2>4. \A i \in L : u.slots[i].next = LastBefore(u, h, L, Bucket(u, h, u.slots[i].key), i)
    BY <1>1, <1>5, <1>8, <2>1, <2>2
  <2> QED
    BY <1>6, <1>8, <1>12, <2>3, <2>4 DEF Linked
<1>15. /\ Alike(t, u) /\ Array(u) /\ Counted(u) /\ Masked(u)
       /\ Pointing(u) /\ Linked(u, h)
  BY <1>9, <1>11, <1>12, <1>13, <1>14
<1> QED
  BY <1>3, <1>15

-----------------------------------------------------------------------------
(* The chains.                                                             *)

\* ChainFrom follows the links.
LEMMA ChainSteps ==
  ASSUME PropTableAssumption, NEW t, Array(t), Pointing(t), NEW b \in 0 .. t.hash_mask
  PROVE  LET at == ChainFrom(t, b)
             n == Len(t.slots)
         IN  /\ at \in [0 .. n -> 0 .. n]
             /\ at[0] = t.heads[b]
             /\ \A d \in 1 .. n : at[d] = IF at[d - 1] = 0 THEN 0 ELSE t.slots[at[d - 1]].next
<1> DEFINE n == Len(t.slots)
           g == [x \in 0 .. n |-> IF x = 0 THEN 0 ELSE t.slots[x].next]
           Step(x) == IF x \in DOMAIN t.slots THEN t.slots[x].next ELSE 0
           Follows(c) == c = [d \in 0 .. n |-> IF d = 0 THEN t.heads[b] ELSE Step(c[d - 1])]
           A == CHOOSE c : Follows(c)
<1>1. n \in Nat /\ DOMAIN t.slots = 1 .. n
  BY Slots
<1>2. t.heads[b] \in 0 .. n /\ \A x \in 1 .. n : t.slots[x].next \in 0 .. n
  BY <1>1 DEF Pointing
<1>3. ChainFrom(t, b) = A
  BY DEF ChainFrom
<1> HIDE DEF n
<1>4. \A x \in 0 .. n : g[x] = Step(x) /\ g[x] \in 0 .. n
  BY <1>1, <1>2
<1>5. g \in [0 .. n -> 0 .. n]
  BY <1>4
<1> HIDE DEF g, A, Step, Follows
<1>6. PICK f : Iterates(f, n, 0 .. n, t.heads[b], g)
  BY <1>1, <1>2, <1>5, RecursionExists
<1>7. f \in [0 .. n -> 0 .. n] /\ f[0] = t.heads[b] /\ \A d \in 1 .. n : f[d] = g[f[d - 1]]
  BY <1>6 DEF Iterates
<1>8. \A d \in 1 .. n : f[d - 1] \in 0 .. n /\ f[d] = Step(f[d - 1])
  <2> TAKE d \in 1 .. n
  <2>1. f[d - 1] \in 0 .. n
    BY <1>1, <1>7
  <2> QED
    BY <2>1, <1>4, <1>7
<1>9. Follows(f)
  <2>1. \A d \in 0 .. n : f[d] = IF d = 0 THEN t.heads[b] ELSE Step(f[d - 1])
    BY <1>1, <1>7, <1>8
  <2> QED
    BY <2>1, <1>7 DEF Follows
<1>10. Follows(A)
  BY <1>9 DEF A
<1>11. \A d \in 0 .. n : A[d] = IF d = 0 THEN t.heads[b] ELSE Step(A[d - 1])
  BY <1>10 DEF Follows
<1>12. \A d \in 0 .. n : A[d] = f[d]
  <2> DEFINE Bad == {d \in 0 .. n : A[d] # f[d]}
  <2> SUFFICES ASSUME Bad # {}
               PROVE  FALSE
    OBVIOUS
  <2>1. PICK d \in Bad : \A e \in Bad : d <= e
    <3>1. Bad \in SUBSET Nat
      BY <1>1
    <3> HIDE DEF Bad
    <3> QED
      BY <3>1, LeastExists
  <2>2. d \in 0 .. n /\ A[d] # f[d] /\ d # 0
    BY <1>7, <1>11
  <2>3. d - 1 \in 0 .. n /\ d - 1 \notin Bad /\ d \in 1 .. n
    BY <1>1, <2>1, <2>2
  <2>4. A[d - 1] = f[d - 1]
    BY <2>3
  <2> QED
    BY <1>8, <1>11, <2>2, <2>3, <2>4
<1>13. A = f
  BY <1>7, <1>10, <1>12 DEF Follows
<1>14. \A x \in 0 .. n : Step(x) = IF x = 0 THEN 0 ELSE t.slots[x].next
  BY <1>1 DEF Step
<1>15. /\ A \in [0 .. n -> 0 .. n]
       /\ A[0] = t.heads[b]
       /\ \A d \in 1 .. n : A[d] = IF A[d - 1] = 0 THEN 0 ELSE t.slots[A[d - 1]].next
  BY <1>7, <1>8, <1>13, <1>14
<1> QED
  BY <1>3, <1>15 DEF n

\* The live slots of bucket b.
InBucket(t, h, b) == {i \in Live(t) : Bucket(t, h, t.slots[i].key) = b}

\* The chain of a bucket descends through all its live slots.
LEMMA ChainIsExact ==
  ASSUME PropTableAssumption, NEW t, NEW h \in HashFunction, NEW b \in 0 .. t.hash_mask,
         Array(t), Pointing(t), Linked(t, h)
  PROVE  LET at == ChainFrom(t, b)
             n == Len(t.slots)
         IN  /\ at \in [0 .. n -> 0 .. n]
             /\ at[0] = t.heads[b]
             /\ \A d \in 0 .. n : at[d] # 0 => at[d] \in InBucket(t, h, b)
             /\ \A d \in 1 .. n : at[d] # 0 => at[d - 1] # 0 /\ at[d] = t.slots[at[d - 1]].next
             /\ \A i \in InBucket(t, h, b) : \E d \in 0 .. n : at[d] = i
             /\ \A d, e \in 0 .. n : d < e /\ at[d] # 0 => at[e] < at[d]
<1> DEFINE n == Len(t.slots)
           B == InBucket(t, h, b)
           at == ChainFrom(t, b)
<1>1. n \in Nat /\ DOMAIN t.slots = 1 .. n /\ Live(t) \in SUBSET (1 .. n) /\ B \in SUBSET (1 .. n)
  BY Slots DEF InBucket
<1>2. /\ at \in [0 .. n -> 0 .. n]
      /\ at[0] = t.heads[b]
      /\ \A d \in 1 .. n : at[d] = IF at[d - 1] = 0 THEN 0 ELSE t.slots[at[d - 1]].next
  BY ChainSteps
<1>a. \A d \in 1 .. n : d - 1 \in 0 .. n /\ at[d - 1] \in 0 .. n
  BY <1>1, <1>2
<1>3. /\ t.heads[b] \in B \cup {0}
      /\ \A i \in B : i <= t.heads[b]
  <2> DEFINE L == Live(t)
             o == n + 1
  <2>1. t.heads[b] = LastBefore(t, h, L, b, o)
    BY DEF Linked
  <2>2. Earlier(t, h, L, b, o) = B
    BY <1>1 DEF Earlier, InBucket
  <2>3. L \in SUBSET (1 .. Len(t.slots)) /\ Array(t) /\ PropTableAssumption
    BY <1>1
  <2> HIDE DEF L, o, B
  <2>4. /\ LastBefore(t, h, L, b, o) # 0 => LastBefore(t, h, L, b, o) \in Earlier(t, h, L, b, o)
        /\ \A j \in Earlier(t, h, L, b, o) : j <= LastBefore(t, h, L, b, o)
    BY ONLY <2>3, LastBeforeFacts
  <2> QED
    BY ONLY <2>1, <2>2, <2>4
<1>4. \A i \in B : /\ t.slots[i].next \in B \cup {0}
                   /\ t.slots[i].next < i
                   /\ \A j \in B : j < i => j <= t.slots[i].next
  <2> TAKE i \in B
  <2>1. i \in Live(t) /\ i \in 1 .. n /\ i \in Nat /\ Bucket(t, h, t.slots[i].key) = b
    BY <1>1 DEF InBucket
  <2>2. t.slots[i].next = LastBefore(t, h, Live(t), b, i)
    BY <2>1 DEF Linked
  <2>3. Earlier(t, h, Live(t), b, i) = {j \in B : j < i}
    BY DEF Earlier, InBucket
  <2> HIDE DEF B
  <2>4. /\ LastBefore(t, h, Live(t), b, i) # 0 => LastBefore(t, h, Live(t), b, i) \in {j \in B : j < i}
        /\ \A j \in {j \in B : j < i} : j <= LastBefore(t, h, Live(t), b, i)
    BY <1>1, <2>3, LastBeforeFacts
  <2>5. i > 0
    BY <2>1
  <2> QED
    BY <2>2, <2>4, <2>5
<1> HIDE DEF n, B, at
<1>b. \A x \in B : x \in 1 .. n /\ x \in Nat /\ x \in Int
  BY <1>1
<1>c. \A x \in B \cup {0} : x \in 0 .. n /\ x \in Int
  BY <1>1, <1>b
<1>5. \A d \in 0 .. n : at[d] \in B \cup {0} /\ at[d] <= n - d
  <2> DEFINE Bad == {d \in 0 .. n : ~ (at[d] \in B \cup {0} /\ at[d] <= n - d)}
  <2> SUFFICES ASSUME Bad # {}
               PROVE  FALSE
    OBVIOUS
  <2>1. PICK d \in Bad : \A e \in Bad : d <= e
    <3>1. Bad \in SUBSET Nat
      BY <1>1
    <3> HIDE DEF Bad
    <3> QED
      BY <3>1, LeastExists
  <2>2. d \in 0 .. n /\ ~ (at[d] \in B \cup {0} /\ at[d] <= n - d)
    BY <2>1
  <2>3. d # 0
    BY <1>1, <1>2, <1>3, <2>2
  <2>4. d - 1 \in 0 .. n /\ d - 1 \notin Bad /\ d \in 1 .. n
    BY <1>1, <2>1, <2>2, <2>3
  <2>5. at[d - 1] \in B \cup {0} /\ at[d - 1] <= n - (d - 1)
    BY <2>4
  <2>6. CASE at[d - 1] = 0
    <3>1. at[d] = 0
      BY <1>2, <2>4, <2>6
    <3>2. 0 <= n - d
      BY <1>1, <2>2
    <3> QED
      BY <2>2, <3>1, <3>2
  <2>7. CASE at[d - 1] # 0
    <3>1. at[d - 1] \in B /\ at[d] = t.slots[at[d - 1]].next /\ at[d - 1] \in Int
      BY <1>1, <1>2, <2>4, <2>5, <2>7, <1>b
    <3>2. at[d] \in B \cup {0} /\ at[d] < at[d - 1]
      BY <1>4, <3>1
    <3>3. at[d] \in Int
      BY <1>c, <3>2
    <3>4. d \in Int /\ n \in Int
      BY <1>1
    <3> DEFINE x == at[d - 1]
               y == at[d]
    <3>5. x \in Int /\ y \in Int /\ x <= n - (d - 1) /\ y < x
      BY <2>5, <3>1, <3>2, <3>3
    <3> HIDE DEF x, y
    <3>6. y <= n - d
      BY <3>4, <3>5
    <3> QED
      BY <2>2, <3>2, <3>6 DEF y
  <2> QED
    BY <2>6, <2>7
<1>6. \A d \in 1 .. n : at[d] # 0 => at[d - 1] # 0 /\ at[d] = t.slots[at[d - 1]].next
  BY <1>2
<1>7. ASSUME NEW i \in B
      PROVE  \E d \in 0 .. n : at[d] = i
  <2> DEFINE Missed == {j \in B : ~ \E d \in 0 .. n : at[d] = j}
  <2> SUFFICES ASSUME Missed # {}
               PROVE  FALSE
    OBVIOUS
  <2>1. PICK j \in Missed : \A k \in Missed : k <= j
    <3>1. Missed \in SUBSET (0 .. n)
      BY <1>c
    <3> HIDE DEF Missed
    <3> QED
      BY <1>1, <3>1, GreatestExists
  <2>2. j \in B /\ j \in 1 .. n /\ \A d \in 0 .. n : at[d] # j
    BY <1>b
  <2>3. t.heads[b] # j /\ j <= t.heads[b] /\ t.heads[b] \in B
    <3>1. 0 \in 0 .. n /\ j <= t.heads[b] /\ t.heads[b] \in B \cup {0}
      BY <1>1, <1>3, <2>2
    <3>2. t.heads[b] # 0
      BY <2>2, <3>1
    <3> QED
      BY <1>2, <2>2, <3>1, <3>2
  <2> DEFINE Above == {k \in B : j < k}
  <2>4. PICK k \in Above : \A l \in Above : k <= l
    <3>1. Above \in SUBSET Nat
      BY <1>b
    <3>2. t.heads[b] \in Int /\ j \in Int
      BY <1>b, <2>2, <2>3
    <3>3. t.heads[b] \in Above
      BY <2>3, <3>2
    <3> HIDE DEF Above
    <3> QED
      BY <3>1, <3>3, LeastExists
  <2>5. k \in B /\ k \in 1 .. n /\ j < k
    BY <1>b
  <2>6. t.slots[k].next = j
    <3> DEFINE p == t.slots[k].next
    <3>1. p \in B \cup {0} /\ p < k /\ j <= p
      BY <1>4, <2>2, <2>5
    <3>2. p \in Int /\ p # 0
      <4>1. \A x \in B \cup {0} : j <= x => x # 0
        BY <2>2
      <4> HIDE DEF p
      <4> QED
        BY <1>c, <3>1, <4>1
    <3> HIDE DEF p
    <3>3. p \notin Above
      BY <1>1, <2>4, <2>5, <3>1, <3>2
    <3>4. p = j
      BY <2>2, <3>1, <3>2, <3>3
    <3> QED
      BY <3>4 DEF p
  <2>7. k \notin Missed
    BY <2>1, <2>2, <2>5
  <2>8. PICK d \in 0 .. n : at[d] = k
    BY <2>5, <2>7
  <2>9. k <= n - d
    BY <1>5, <2>8
  <2>10. d + 1 \in 1 .. n /\ (d + 1) - 1 = d
    BY <1>1, <2>2, <2>5, <2>8, <2>9
  <2>11. at[d + 1] = t.slots[k].next
    BY <1>2, <2>5, <2>8, <2>10
  <2> QED
    BY <2>2, <2>6, <2>10, <2>11
<1>8. ASSUME NEW d \in 0 .. n, at[d] # 0
      PROVE  \A e \in 0 .. n : d < e => at[e] < at[d]
  <2> DEFINE Bad == {e \in 0 .. n : d < e /\ ~ (at[e] < at[d])}
  <2> SUFFICES ASSUME Bad # {}
               PROVE  FALSE
    OBVIOUS
  <2>1. PICK e \in Bad : \A k \in Bad : e <= k
    <3>1. Bad \in SUBSET Nat
      BY <1>1
    <3> HIDE DEF Bad
    <3> QED
      BY <3>1, LeastExists
  <2>2. e \in 1 .. n /\ d < e /\ ~ (at[e] < at[d]) /\ e - 1 \in 0 .. n /\ e - 1 \notin Bad
    BY <1>1, <2>1
  <2>3. at[d] \in B /\ at[d] \in 1 .. n /\ at[e] \in 0 .. n /\ at[e - 1] \in B \cup {0} /\ at[e - 1] \in 0 .. n
    BY <1>1, <1>2, <1>5, <1>8, <2>2
  <2>4. e - 1 = d \/ at[e - 1] < at[d]
    BY <1>1, <2>2
  <2>5. at[e - 1] <= at[d]
    BY <2>3, <2>4
  <2>6. CASE at[e - 1] = 0
    BY <1>2, <2>2, <2>3, <2>6
  <2>7. CASE at[e - 1] # 0
    <3>1. at[e] = t.slots[at[e - 1]].next /\ at[e - 1] \in B
      BY <1>2, <2>2, <2>3, <2>7
    <3>2. at[e] < at[e - 1]
      BY <1>4, <3>1
    <3> QED
      BY <2>2, <2>3, <2>5, <3>2
  <2> QED
    BY <2>6, <2>7
<1>9. \A d \in 0 .. n : at[d] # 0 => at[d] \in B
  BY <1>5
<1> QED
  BY <1>2, <1>6, <1>7, <1>8, <1>9 DEF n, B, at

-----------------------------------------------------------------------------
(* Tables whose live properties are where they were.                       *)

\* The links stay right when no live slot changes its bucket or its link.
LEMMA LinkedSame ==
  ASSUME PropTableAssumption, NEW t, NEW u, NEW h, NEW g, Array(t), Array(u),
         Linked(t, h), Live(u) = Live(t), u.hash_mask = t.hash_mask, u.heads = t.heads,
         \A i \in Live(t) : /\ Bucket(u, g, u.slots[i].key) = Bucket(t, h, t.slots[i].key)
                            /\ u.slots[i].next = t.slots[i].next
  PROVE  Linked(u, g)
<1>1. \A b, i : LastBefore(u, g, Live(u), b, i) = LastBefore(t, h, Live(t), b, i)
  <2> TAKE b, i
  <2>1. {j \in Live(u) : j < i /\ Bucket(u, g, u.slots[j].key) = b}
          = {j \in Live(t) : j < i /\ Bucket(t, h, t.slots[j].key) = b}
    OBVIOUS
  <2> QED
    BY <2>1 DEF LastBefore
<1>2. \A b : LastBefore(t, h, Live(t), b, Len(u.slots) + 1) = LastBefore(t, h, Live(t), b, Len(t.slots) + 1)
  <2> TAKE b
  <2> DEFINE n == Len(t.slots)
             m == Len(u.slots)
  <2>1. n \in Nat /\ m \in Nat /\ Live(t) \in SUBSET (1 .. n) /\ Live(t) \in SUBSET (1 .. m)
    BY Slots
  <2> HIDE DEF n, m
  <2>2. \A j \in Live(t) : j < n + 1 /\ j < m + 1
    BY <2>1
  <2>3. {j \in Live(t) : j < m + 1 /\ Bucket(t, h, t.slots[j].key) = b}
          = {j \in Live(t) : j < n + 1 /\ Bucket(t, h, t.slots[j].key) = b}
    BY <2>2
  <2> QED
    BY <2>3 DEF LastBefore, n, m
<1>3. \A b \in 0 .. u.hash_mask : u.heads[b] = LastBefore(u, g, Live(u), b, Len(u.slots) + 1)
  BY <1>1, <1>2 DEF Linked
<1>4. \A i \in Live(u) :
        u.slots[i].next = LastBefore(u, g, Live(u), Bucket(u, g, u.slots[i].key), i)
  BY <1>1 DEF Linked
<1> QED
  BY <1>3, <1>4 DEF Linked

\* Tables without live properties.
LEMMA NothingLive ==
  ASSUME PropTableAssumption, NEW t, NEW h, Array(t), t.count = 0,
         \A i \in 1 .. Len(t.slots) : t.slots[i].key = Uninit,
         t.heads = [b \in 0 .. t.hash_mask |-> 0]
  PROVE  Live(t) = {} /\ Counted(t) /\ Linked(t, h)
<1>1. Live(t) = {}
  BY Slots DEF Live, PropTableAssumption
<1>2. Counted(t)
  BY <1>1, FS_EmptySet DEF Counted
<1>3. \A b, i : LastBefore(t, h, Live(t), b, i) = 0
  BY <1>1 DEF LastBefore, LastIn
<1> QED
  BY <1>1, <1>2, <1>3 DEF Linked

LEMMA EmptyProps ==
  ASSUME PropTableAssumption, NEW h
  PROVE  Good(empty_props, h) /\ Live(empty_props) = {}
<1> DEFINE t == empty_props
<1>1. /\ t.count = 0 /\ t.hash_mask = 0 /\ t.heads = [b \in {0} |-> 0] /\ t.slots = <<>>
      /\ t = [count |-> t.count, hash_mask |-> t.hash_mask, heads |-> t.heads, slots |-> t.slots]
  BY DEF empty_props
<1> HIDE DEF t
<1>2. Array(t) /\ Len(t.slots) = 0 /\ 0 .. 0 = {0}
  BY <1>1 DEF Array, Whole
<1>3. Live(t) = {} /\ Counted(t) /\ Linked(t, h)
  <2>1. t.heads = [b \in 0 .. t.hash_mask |-> 0]
    BY <1>1, <1>2
  <2>2. \A i \in 1 .. Len(t.slots) : t.slots[i].key = Uninit
    BY <1>2
  <2> QED
    BY <1>1, <1>2, <2>1, <2>2, NothingLive
<1>4. Masked(t)
  BY <1>1, <1>2, Pow2Facts DEF Masked
<1>5. Pointing(t)
  BY <1>1, <1>2 DEF Pointing
<1>6. get_first_free(t) = 1
  BY <1>2 DEF get_first_free
<1>7. EndsFree(t)
  BY <1>2, <1>6 DEF EndsFree
<1> QED
  BY <1>2, <1>3, <1>4, <1>5, <1>7 DEF Good, t

LEMMA AllocProps ==
  ASSUME PropTableAssumption, NEW n \in Nat \ {0}, NEW h
  PROVE  LET t == js_alloc_props(n)
         IN  /\ Good(t, h) /\ Live(t) = {} /\ Len(t.slots) = n /\ get_first_free(t) = 1
             /\ t.slots[n].key = Uninit
<1> DEFINE t == js_alloc_props(n)
           m == Pow2(get_prop_hash_size_log2(n)) - 1
           s == [i \in 1 .. n |-> [FreeSlot(Uninit) EXCEPT !.next = IF i = n THEN 1 ELSE 0]]
<1>1. PICK l \in 0 .. n : l = get_prop_hash_size_log2(n)
  BY SizeLog2
<1>2. m = Pow2(l) - 1 /\ m \in Nat
  <2>1. l \in Nat
    OBVIOUS
  <2> QED
    BY <1>1, <2>1, Pow2Facts
<1>3. /\ t.count = 0 /\ t.hash_mask = m /\ t.heads = [b \in 0 .. m |-> 0] /\ t.slots = s
      /\ t = [count |-> t.count, hash_mask |-> t.hash_mask, heads |-> t.heads, slots |-> t.slots]
  BY DEF js_alloc_props
<1>4. /\ s \in Seq(Slot) /\ Len(s) = n /\ DOMAIN s = 1 .. n
      /\ \A i \in 1 .. n : s[i].key = Uninit /\ s[i].next \in 0 .. n
      /\ s[n].next = 1
  <2>1. \A i \in 1 .. n : s[i] \in Slot /\ s[i].key = Uninit /\ s[i].next = IF i = n THEN 1 ELSE 0
    BY DEF FreeSlot, Slot
  <2>2. s = [i \in 1 .. n |-> s[i]]
    OBVIOUS
  <2> HIDE DEF s
  <2>3. s \in [1 .. n -> Slot]
    BY <2>1, <2>2
  <2> QED
    BY <2>1, <2>3
<1> HIDE DEF t, m, s
<1>5. Array(t)
  BY <1>2, <1>3, <1>4 DEF Array, Whole
<1>6. Live(t) = {} /\ Counted(t) /\ Linked(t, h)
  BY <1>3, <1>4, <1>5, NothingLive
<1>7. Masked(t)
  BY <1>2, <1>3, <1>4 DEF Masked
<1>8. Pointing(t)
  BY <1>3, <1>4 DEF Pointing
<1>9. get_first_free(t) = 1
  BY <1>3, <1>4 DEF get_first_free
<1>10. EndsFree(t)
  <2>1. \A i \in 1 .. n : t.slots[i].key \notin Key
    BY <1>3, <1>4 DEF PropTableAssumption
  <2> QED
    BY <1>3, <1>4, <1>9, <2>1 DEF EndsFree
<1>11. t.slots[n].key = Uninit
  BY <1>3, <1>4
<1> QED
  BY <1>3, <1>4, <1>5, <1>6, <1>7, <1>8, <1>9, <1>10, <1>11 DEF Good, t

\* The keys of a list in ROM are atoms, and it has no room for more.
LEMMA RomTables ==
  ASSUME PropTableAssumption, NEW s \in RomProps, NEW h \in HashFunction
  PROVE  LET t == RomTable(s, h)
         IN  /\ Good(t, h) /\ Len(t.slots) # 0
             /\ \A i \in 1 .. Len(t.slots) : t.slots[i].key \in RomKey
<1> DEFINE n == Len(s)
           m == Pow2(get_prop_hash_size_log2(n)) - 1
           v == CHOOSE x \in PropVal : TRUE
           sl == [i \in DOMAIN s |-> [FreeSlot(s[i]) EXCEPT !.value = v]]
           t == [count |-> n, hash_mask |-> m, heads |-> [b \in 0 .. m |-> 0], slots |-> sl]
           u == js_rehash_props(t, h)
<1>1. /\ n \in Nat /\ n # 0 /\ DOMAIN s = 1 .. n
      /\ \A i \in 1 .. n : s[i] \in RomKey /\ s[i] \in Key
      /\ \A i, j \in 1 .. n : s[i] = s[j] => i = j
  <2>1. s \in Seq(RomKey) /\ s # <<>> /\ IsInjective(s) /\ RomKey \subseteq Key
    BY DEF PropTableAssumption
  <2>2. n \in Nat /\ n # 0 /\ DOMAIN s = 1 .. n /\ \A i \in 1 .. n : s[i] \in RomKey
    BY <2>1
  <2>3. \A i, j \in 1 .. n : s[i] = s[j] => i = j
    BY <2>1, <2>2 DEF IsInjective
  <2> QED
    BY <2>1, <2>2, <2>3
<1>2. PICK l \in 0 .. n : l = get_prop_hash_size_log2(n)
  BY <1>1, SizeLog2
<1>3. m = Pow2(l) - 1 /\ m \in Nat
  <2>1. l \in Nat
    BY <1>1
  <2>2. Pow2(l) \in Nat /\ l < Pow2(l)
    BY <2>1, Pow2Facts
  <2> QED
    BY <1>2, <2>1, <2>2
<1>4. v \in PropVal
  BY DEF PropTableAssumption
<1> HIDE DEF v, n
<1>5. /\ sl \in Seq(Slot) /\ Len(sl) = n /\ DOMAIN sl = 1 .. n
      /\ \A i \in 1 .. n : sl[i].key = s[i] /\ sl[i].next = 0
  <2>1. \A i \in 1 .. n : sl[i] \in Slot /\ sl[i].key = s[i] /\ sl[i].next = 0
    BY <1>1, <1>4 DEF FreeSlot, Slot
  <2>2. sl = [i \in 1 .. n |-> sl[i]]
    BY <1>1
  <2> HIDE DEF sl
  <2>3. sl \in [1 .. n -> Slot]
    BY <2>1, <2>2
  <2> QED
    BY <2>1, <2>3, <1>1
<1>6. RomTable(s, h) = u
  BY DEF RomTable, n, v
<1> HIDE DEF m, sl
<1>7. /\ t.count = n /\ t.hash_mask = m /\ t.slots = sl
      /\ t = [count |-> t.count, hash_mask |-> t.hash_mask, heads |-> t.heads, slots |-> t.slots]
  OBVIOUS
<1> HIDE DEF t, u
<1>8. Array(t)
  BY <1>1, <1>3, <1>5, <1>7 DEF Array, Whole
<1>9. Live(t) = 1 .. n
  BY <1>1, <1>5, <1>7 DEF Live
<1>10. Counted(t)
  <2>1. Cardinality(1 .. n) = n
    BY <1>1, FS_Interval
  <2>2. \A j \in DOMAIN t.slots : t.slots[j].key # Undef
    BY <1>1, <1>5, <1>7 DEF PropTableAssumption
  <2>3. \A i, j \in 1 .. n : t.slots[i].key = t.slots[j].key => i = j
    BY <1>1, <1>5, <1>7
  <2> QED
    BY <1>7, <1>9, <2>1, <2>2, <2>3 DEF Counted
<1>11. Masked(t)
  BY <1>3, <1>5, <1>7 DEF Masked
<1>12. \A i \in 1 .. Len(t.slots) : i \notin Live(t) => t.slots[i].next \in 0 .. Len(t.slots)
  BY <1>5, <1>7, <1>9
<1>13. /\ Alike(t, u) /\ Array(u) /\ Counted(u) /\ Masked(u)
       /\ Pointing(u) /\ Linked(u, h)
  BY <1>8, <1>10, <1>11, <1>12, Rehashed DEF u
<1>14. Len(t.slots) = n /\ \A i \in 1 .. n : t.slots[i].key = s[i]
  BY <1>5, <1>7
<1>15. EndsFree(t)
  <2>1. n \in 1 .. n /\ t.slots[n].key \in Key /\ t.slots[n].key # Uninit
    BY <1>1, <1>14 DEF PropTableAssumption
  <2>2. get_first_free(t) = n + 1
    BY <1>14, <2>1 DEF get_first_free
  <2>3. \A i \in 1 .. n : t.slots[i].key # Undef
    BY <1>1, <1>14 DEF PropTableAssumption
  <2>4. n + 1 \in 1 .. n + 1 /\ (n + 1) - 1 = n /\ (n + 1) .. n = {}
    BY <1>1
  <2> QED
    BY <1>14, <2>1, <2>2, <2>3, <2>4 DEF EndsFree
<1>16. EndsFree(u)
  BY <1>8, <1>13, <1>15, AlikeFacts
<1>17. Len(u.slots) # 0 /\ \A i \in 1 .. Len(u.slots) : u.slots[i].key \in RomKey
  BY <1>1, <1>13, <1>14 DEF Alike
<1> QED
  BY <1>6, <1>13, <1>16, <1>17 DEF Good

\* A rehash makes a good table good for the new addresses.
LEMMA RehashIsGood ==
  ASSUME PropTableAssumption, NEW t, NEW h, NEW g \in HashFunction, Good(t, h)
  PROVE  Good(js_rehash_props(t, g), g) /\ Alike(t, js_rehash_props(t, g))
<1> DEFINE u == js_rehash_props(t, g)
<1>1. \A i \in 1 .. Len(t.slots) : i \notin Live(t) => t.slots[i].next \in 0 .. Len(t.slots)
  BY Slots DEF Good, Pointing
<1>2. /\ Alike(t, u) /\ Array(u) /\ Counted(u) /\ Masked(u)
      /\ Pointing(u) /\ Linked(u, g)
  BY <1>1, Rehashed DEF Good
<1> HIDE DEF u
<1>3. EndsFree(u)
  BY <1>2, AlikeFacts DEF Good
<1> QED
  BY <1>2, <1>3 DEF Good, u

\* No rehash is needed when no live property changes its bucket.
LEMMA GoodAgain ==
  ASSUME PropTableAssumption, NEW t, NEW h, NEW g, Good(t, h),
         \/ t.hash_mask = 0 /\ h \in HashFunction /\ g \in HashFunction
         \/ \A i \in Live(t) : h[t.slots[i].key] = g[t.slots[i].key]
  PROVE  Good(t, g)
<1>1. \A i \in Live(t) : Bucket(t, g, t.slots[i].key) = Bucket(t, h, t.slots[i].key)
  <2>1. CASE t.hash_mask = 0 /\ h \in HashFunction /\ g \in HashFunction
    <3>1. \A f \in HashFunction : \A k : Bucket(t, f, k) \in 0 .. 0
      BY <2>1, BucketType
    <3> QED
      BY <2>1, <3>1
  <2>2. CASE \A i \in Live(t) : h[t.slots[i].key] = g[t.slots[i].key]
    BY <2>2 DEF Bucket, HashOf
  <2> QED
    BY <2>1, <2>2
<1>2. Linked(t, g)
  BY <1>1, LinkedSame DEF Good
<1> QED
  BY <1>2 DEF Good

-----------------------------------------------------------------------------
(* Finding a key.                                                          *)

LEMMA FindFacts ==
  ASSUME PropTableAssumption, NEW t, NEW h \in HashFunction, NEW k \in Key, Good(t, h)
  PROVE  LET d  == Distance(t, h, k)
             at == ChainFrom(t, Bucket(t, h, k))
         IN  /\ d = -1 => /\ find_own_property(t, h, k) = 0
                          /\ \A i \in Live(t) : t.slots[i].key # k
             /\ d # -1 => /\ d \in 0 .. Len(t.slots) /\ at[d] \in Live(t) /\ t.slots[at[d]].key = k
                          /\ find_own_property(t, h, k) = at[d]
<1> DEFINE n == Len(t.slots)
           b == Bucket(t, h, k)
           at == ChainFrom(t, b)
           hits == {e \in DOMAIN at : at[e] \in DOMAIN t.slots /\ t.slots[at[e]].key = k}
           d == Distance(t, h, k)
<1>1. n \in Nat /\ DOMAIN t.slots = 1 .. n /\ Live(t) \in SUBSET (1 .. n)
  BY Slots DEF Good
<1>2. b \in 0 .. t.hash_mask
  BY BucketType DEF Good, Array
<1>3. /\ at \in [0 .. n -> 0 .. n]
      /\ \A e \in 0 .. n : at[e] # 0 => at[e] \in InBucket(t, h, b)
      /\ \A i \in InBucket(t, h, b) : \E e \in 0 .. n : at[e] = i
  <2> HIDE DEF b
  <2> QED
    BY <1>2, ChainIsExact DEF Good
<1>4. d = IF hits = {} THEN -1 ELSE Min(hits)
  BY DEF Distance
<1>5. find_own_property(t, h, k) = IF d = -1 THEN 0 ELSE at[d]
  BY DEF find_own_property
<1>6. \A i \in Live(t) : t.slots[i].key = k => i \in InBucket(t, h, b)
  BY DEF InBucket
<1> HIDE DEF n, b, at, d
<1>7. hits \in SUBSET (0 .. n)
  BY <1>3
<1>8. hits = {} => \A i \in Live(t) : t.slots[i].key # k
  BY <1>1, <1>3, <1>6
<1>9. ASSUME NEW e \in hits
      PROVE  at[e] \in Live(t) /\ t.slots[at[e]].key = k
  BY <1>1 DEF Live
<1> HIDE DEF hits
<1>10. hits # {} => d \in hits
  <2> SUFFICES ASSUME hits # {}
               PROVE  d \in hits
    OBVIOUS
  <2>1. hits \in SUBSET Nat
    BY <1>1, <1>7
  <2>2. \E x \in hits : \A y \in hits : x <= y
    BY <2>1, LeastExists
  <2> QED
    BY <1>4, <2>2 DEF Min
<1>11. hits = {} => d = -1
  BY <1>4
<1>12. hits # {} => d # -1
  BY <1>7, <1>10
<1> QED
  BY <1>5, <1>7, <1>8, <1>9, <1>10, <1>11, <1>12 DEF n, b, at, d

-----------------------------------------------------------------------------
(* What an addition changes.                                               *)

\* A part of a table changed at one place.
LEMMA PartsAt ==
  ASSUME NEW t, NEW b, NEW i, NEW x
  PROVE  /\ [t EXCEPT !.heads[b] = x] = [t EXCEPT !.heads = [t.heads EXCEPT ![b] = x]]
         /\ [t EXCEPT !.slots[i].next = x]
              = [t EXCEPT !.slots = [t.slots EXCEPT ![i] = [t.slots[i] EXCEPT !.next = x]]]
         /\ [t EXCEPT !.slots[i].value = x]
              = [t EXCEPT !.slots = [t.slots EXCEPT ![i] = [t.slots[i] EXCEPT !.value = x]]]
         /\ [t EXCEPT !.slots[i].key = x]
              = [t EXCEPT !.slots = [t.slots EXCEPT ![i] = [t.slots[i] EXCEPT !.key = x]]]
         /\ [t EXCEPT !.slots[i] = x] = [t EXCEPT !.slots = [t.slots EXCEPT ![i] = x]]
OBVIOUS

LEMMA FirstFreeWritten ==
  ASSUME PropTableAssumption, NEW t, Array(t), NEW f \in Nat
  PROVE  LET u == WithFirstFree(t, f)
             n == Len(t.slots)
         IN  /\ Array(u) /\ Len(u.slots) = n
             /\ u.count = t.count /\ u.hash_mask = t.hash_mask /\ u.heads = t.heads
             /\ \A i \in 1 .. n :
                  /\ u.slots[i].key = t.slots[i].key /\ u.slots[i].value = t.slots[i].value
                  /\ u.slots[i].next = IF i = n /\ f <= n THEN f ELSE t.slots[i].next
<1> DEFINE n == Len(t.slots)
           s == [t.slots EXCEPT ![n] = [t.slots[n] EXCEPT !.next = f]]
           u == [count |-> t.count, hash_mask |-> t.hash_mask, heads |-> t.heads, slots |-> s]
<1>1. n \in Nat /\ DOMAIN t.slots = 1 .. n /\ \A i \in 1 .. n : t.slots[i] \in Slot
  BY Slots
<1>2. CASE f <= n
  <2>1. WithFirstFree(t, f) = [t EXCEPT !.slots = s]
    BY <1>2, PartsAt DEF WithFirstFree, Array
  <2> HIDE DEF n
  <2>2. /\ s \in Seq(Slot) /\ Len(s) = n /\ DOMAIN s = 1 .. n
        /\ \A i \in 1 .. n : /\ s[i].key = t.slots[i].key /\ s[i].value = t.slots[i].value
                             /\ s[i].next = IF i = n THEN f ELSE t.slots[i].next
    <3>1. DOMAIN s = 1 .. n /\ \A i \in 1 .. n : s[i] = IF i = n THEN [t.slots[n] EXCEPT !.next = f] ELSE t.slots[i]
      BY <1>1
    <3>2. s = [i \in 1 .. n |-> s[i]]
      BY <1>1
    <3> HIDE DEF s
    <3>3. \A i \in 1 .. n : /\ s[i] \in Slot
                            /\ s[i].key = t.slots[i].key /\ s[i].value = t.slots[i].value
                            /\ s[i].next = IF i = n THEN f ELSE t.slots[i].next
      <4> TAKE i \in 1 .. n
      <4>1. ASSUME NEW x \in Slot
            PROVE  /\ [x EXCEPT !.next = f] \in Slot
                   /\ [x EXCEPT !.next = f].key = x.key
                   /\ [x EXCEPT !.next = f].value = x.value
                   /\ [x EXCEPT !.next = f].next = f
        BY DEF Slot
      <4>2. CASE i = n
        <5>1. t.slots[n] \in Slot /\ s[i] = [t.slots[n] EXCEPT !.next = f]
          BY <1>1, <3>1, <4>2
        <5> QED
          BY <4>1, <4>2, <5>1
      <4>3. CASE i # n
        BY <1>1, <3>1, <4>3
      <4> QED
        BY <4>2, <4>3
    <3>4. s \in [1 .. n -> Slot]
      BY <3>2, <3>3
    <3> QED
      BY <1>1, <3>1, <3>3, <3>4
  <2> HIDE DEF s
  <2>3. [t EXCEPT !.slots = s] = u
    BY Parts DEF Array
  <2>4. /\ u.count = t.count /\ u.hash_mask = t.hash_mask /\ u.heads = t.heads /\ u.slots = s
        /\ u = [count |-> u.count, hash_mask |-> u.hash_mask, heads |-> u.heads, slots |-> u.slots]
    OBVIOUS
  <2> HIDE DEF u
  <2>5. Array(u)
    BY <2>2, <2>4 DEF Array, Whole
  <2>6. \A i \in 1 .. n :
          /\ u.slots[i].key = t.slots[i].key /\ u.slots[i].value = t.slots[i].value
          /\ u.slots[i].next = IF i = n /\ f <= n THEN f ELSE t.slots[i].next
    BY <1>2, <2>2, <2>4
  <2>7. WithFirstFree(t, f) = u /\ Len(u.slots) = n
    BY <2>1, <2>2, <2>3, <2>4
  <2> QED
    BY <2>4, <2>5, <2>6, <2>7 DEF n
<1>3. CASE ~ (f <= n)
  BY <1>3 DEF WithFirstFree
<1> QED
  BY <1>2, <1>3

\* One slot written.
LEMMA SlotWritten ==
  ASSUME PropTableAssumption, NEW t, Array(t), NEW f \in 1 .. Len(t.slots), NEW x \in Slot
  PROVE  LET s == [t.slots EXCEPT ![f] = x]
         IN  /\ s \in Seq(Slot) /\ Len(s) = Len(t.slots)
             /\ s[f] = x
             /\ \A i \in 1 .. Len(t.slots) : i # f => s[i] = t.slots[i]
<1> DEFINE n == Len(t.slots)
           s == [t.slots EXCEPT ![f] = x]
<1>1. n \in Nat /\ DOMAIN t.slots = 1 .. n /\ \A i \in 1 .. n : t.slots[i] \in Slot
  BY Slots
<1>2. t.slots \in [1 .. n -> Slot]
  BY <1>1 DEF Array
<1> HIDE DEF n
<1>3. /\ s \in [1 .. n -> Slot] /\ s[f] = x
      /\ \A i \in 1 .. n : i # f => s[i] = t.slots[i]
  BY <1>1, <1>2 DEF n
<1> HIDE DEF s
<1>4. s \in Seq(Slot) /\ Len(s) = n
  BY <1>1, <1>3
<1> QED
  BY <1>3, <1>4 DEF s, n

\* Slot f of t is the first free one, and k is not the key of any slot.
Room(t, h, f, k) ==
  /\ Array(t) /\ Counted(t) /\ Masked(t) /\ Pointing(t) /\ Linked(t, h)
  /\ f \in 1 .. Len(t.slots)
  /\ t.slots[Len(t.slots)].key = Uninit
  /\ \A i \in 1 .. f - 1 : t.slots[i].key # Undef
  /\ \A i \in f .. Len(t.slots) : i \notin Live(t)
  /\ \A i \in Live(t) : t.slots[i].key # k

LEMMA FilledIsGood ==
  ASSUME PropTableAssumption, NEW t, NEW h \in HashFunction, NEW f, NEW k \in Key, NEW v \in PropVal,
         Room(t, h, f, k)
  PROVE  LET u == Filled(t, h, f, k, v)
         IN  /\ Good(u, h)
             /\ Live(u) = Live(t) \cup {f} /\ f \notin Live(t)
             /\ \A i \in Live(t) :
                  i < f /\ u.slots[i].key = t.slots[i].key /\ u.slots[i].value = t.slots[i].value
             /\ u.slots[f].key = k /\ u.slots[f].value = v
<1> DEFINE n == Len(t.slots)
           L == Live(t)
           m == t.hash_mask
           b == Bucket(t, h, k)
           x == [key |-> k, value |-> v, next |-> t.heads[b]]
           hd == [t.heads EXCEPT ![b] = f]
           sl == [t.slots EXCEPT ![f] = x]
           a == [count |-> t.count + 1, hash_mask |-> m, heads |-> hd, slots |-> sl]
           u == WithFirstFree(a, f + 1)
<1>1. /\ n \in Nat /\ DOMAIN t.slots = 1 .. n /\ L \in SUBSET (1 .. n)
      /\ f \in 1 .. n /\ f \in Nat
      /\ \A i \in 1 .. n : t.slots[i] \in Slot
      /\ t.count \in Nat /\ m \in Nat
  BY Slots DEF Room, Array
<1>2. b \in 0 .. m
  BY <1>1, BucketType
<1>3. \A i \in L : i < f /\ i \in 1 .. n /\ i # f
  BY <1>1 DEF Room
<1>4. t.heads \in [0 .. m -> 0 .. n] /\ \A i \in 1 .. n : t.slots[i].next \in 0 .. n
  BY <1>1 DEF Room, Pointing
<1>5. Filled(t, h, f, k, v) = u
  <2> DEFINE a1 == [t EXCEPT !.count = t.count + 1]
             a2 == [a1 EXCEPT !.heads[b] = f]
             a3 == [a2 EXCEPT !.slots[f] = x]
  <2>1. Whole(t)
    BY DEF Room, Array
  <2>2. a1 = [count |-> t.count + 1, hash_mask |-> m, heads |-> t.heads, slots |-> t.slots]
    <3> DEFINE c == t.count + 1
    <3> HIDE DEF c
    <3> QED
      BY <2>1, Parts DEF c
  <2>3. Filled(t, h, f, k, v) = WithFirstFree(a3, f + 1)
    BY DEF Filled
  <2>4. a2 = [a1 EXCEPT !.heads = [a1.heads EXCEPT ![b] = f]]
    BY PartsAt
  <2> HIDE DEF a2
  <2>5. a3 = [a2 EXCEPT !.slots = [a2.slots EXCEPT ![f] = x]]
    BY PartsAt
  <2> HIDE DEF a1, a3, x
  <2>6. Whole(a1) /\ a1.heads = t.heads
    BY <2>2 DEF Whole
  <2>7. a2 = [count |-> t.count + 1, hash_mask |-> m, heads |-> hd, slots |-> t.slots]
    <3> HIDE DEF hd
    <3>1. [a1 EXCEPT !.heads = hd] = [count |-> a1.count, hash_mask |-> a1.hash_mask, heads |-> hd, slots |-> a1.slots]
      BY <2>6, Parts
    <3> QED
      BY <2>2, <2>4, <2>6, <3>1 DEF hd
  <2> HIDE DEF hd
  <2>8. Whole(a2) /\ a2.slots = t.slots
    BY <2>7 DEF Whole
  <2>9. a3 = a
    <3> HIDE DEF sl
    <3>1. [a2 EXCEPT !.slots = sl] = [count |-> a2.count, hash_mask |-> a2.hash_mask, heads |-> a2.heads, slots |-> sl]
      BY <2>8, Parts
    <3> QED
      BY <2>5, <2>7, <2>8, <3>1 DEF sl
  <2> QED
    BY <2>3, <2>9
<1>6. x \in Slot /\ x.key = k /\ x.value = v /\ x.next = t.heads[b]
  BY <1>1, <1>2, <1>4 DEF Slot
<1> HIDE DEF x
<1>7. /\ sl \in Seq(Slot) /\ Len(sl) = n /\ sl[f] = x
      /\ \A i \in 1 .. n : i # f => sl[i] = t.slots[i]
  BY <1>1, <1>6, SlotWritten DEF Room
<1>8. hd \in [0 .. m -> 0 .. n] /\ hd[b] = f /\ \A c \in 0 .. m : c # b => hd[c] = t.heads[c]
  BY <1>1, <1>2, <1>4
<1> HIDE DEF sl, hd
<1>9. /\ a.count = t.count + 1 /\ a.hash_mask = m /\ a.heads = hd /\ a.slots = sl
      /\ a = [count |-> a.count, hash_mask |-> a.hash_mask, heads |-> a.heads, slots |-> a.slots]
  OBVIOUS
<1> HIDE DEF a
<1>10. Array(a)
  BY <1>1, <1>7, <1>9 DEF Array, Whole
<1>11. /\ Array(u) /\ Len(u.slots) = n
       /\ u.count = t.count + 1 /\ u.hash_mask = m /\ u.heads = hd
       /\ \A i \in 1 .. n :
            /\ u.slots[i].key = sl[i].key /\ u.slots[i].value = sl[i].value
            /\ u.slots[i].next = IF i = n /\ f + 1 <= n THEN f + 1 ELSE sl[i].next
  <2> DEFINE o == f + 1
  <2>1. o \in Nat /\ Array(a) /\ PropTableAssumption
    BY <1>1, <1>10
  <2>2. u = WithFirstFree(a, o)
    OBVIOUS
  <2> HIDE DEF o, u
  <2>3. /\ Array(u) /\ Len(u.slots) = Len(a.slots)
        /\ u.count = a.count /\ u.hash_mask = a.hash_mask /\ u.heads = a.heads
        /\ \A i \in 1 .. Len(a.slots) :
             /\ u.slots[i].key = a.slots[i].key /\ u.slots[i].value = a.slots[i].value
             /\ u.slots[i].next = IF i = Len(a.slots) /\ o <= Len(a.slots) THEN o ELSE a.slots[i].next
    BY ONLY <2>1, <2>2, FirstFreeWritten
  <2>4. Len(a.slots) = n
    BY <1>7, <1>9
  <2> QED
    BY ONLY <1>9, <2>3, <2>4 DEF o
<1> HIDE DEF u
<1>12. /\ DOMAIN u.slots = 1 .. n
       /\ \A i \in 1 .. n : u.slots[i] \in Slot
  BY <1>11, Slots
<1>13. /\ u.slots[f].key = k /\ u.slots[f].value = v /\ u.slots[f].next = t.heads[b]
       /\ \A i \in 1 .. n : i # f => /\ u.slots[i].key = t.slots[i].key
                                     /\ u.slots[i].value = t.slots[i].value
  <2>1. u.slots[f].key = k /\ u.slots[f].value = v
    BY <1>1, <1>6, <1>7, <1>11
  <2>2. u.slots[f].next = t.heads[b]
    BY <1>1, <1>6, <1>7, <1>11
  <2> QED
    BY <2>1, <2>2, <1>1, <1>7, <1>11
<1>14. \A i \in L : u.slots[i].next = t.slots[i].next
  <2> TAKE i \in L
  <2>1. i \in 1 .. n /\ i < f /\ i # n
    BY <1>1, <1>3
  <2> QED
    BY <2>1, <1>7, <1>11, <1>3
<1>15. Live(u) = L \cup {f}
  BY <1>1, <1>12, <1>13 DEF Live
<1> HIDE DEF L, n, b, m
<1>16. Counted(u)
  <2>1. Cardinality(L \cup {f}) = Cardinality(L) + 1
    <3>1. IsFiniteSet(L)
      BY <1>1, RankFacts
    <3> QED
      BY <3>1, <1>3, FS_AddElement
  <2>2. t.count = Cardinality(L)
    BY DEF Room, Counted, L
  <2>3. \A i, j \in L \cup {f} : u.slots[i].key = u.slots[j].key => i = j
    <3>1. \A i \in L : u.slots[i].key = t.slots[i].key /\ t.slots[i].key # k
      BY <1>3, <1>13 DEF Room, L
    <3>2. \A i, j \in L : t.slots[i].key = t.slots[j].key => i = j
      BY DEF Room, Counted, L
    <3> QED
      BY <3>1, <3>2, <1>13
  <2>4. ASSUME NEW i \in L \cup {f}, NEW j \in 1 .. n, u.slots[j].key = Undef
        PROVE  i < j
    <3>1. j # f /\ t.slots[j].key = Undef
      BY <2>4, <1>13 DEF PropTableAssumption
    <3>2. ~ (j \in 1 .. f - 1)
      BY <3>1 DEF Room
    <3>3. f < j
      BY <3>1, <3>2, <1>1
    <3>4. i \in L => i < f /\ i \in 1 .. n
      BY <1>3
    <3> QED
      BY <3>3, <3>4, <1>1
  <2> QED
    BY <2>1, <2>2, <2>3, <2>4, <1>11, <1>12, <1>15 DEF Counted
<1>17. Masked(u)
  BY <1>11 DEF Room, Masked, m, n
<1>18. Pointing(u)
  <2>1. ASSUME NEW i \in 1 .. n
        PROVE  u.slots[i].next \in 0 .. n
    <3>1. sl[i].next \in 0 .. n
      <4>1. CASE i = f
        BY <4>1, <1>2, <1>4, <1>6, <1>7
      <4>2. CASE i # f
        BY <4>2, <1>4, <1>7
      <4> QED
        BY <4>1, <4>2
    <3>2. f + 1 <= n => f + 1 \in 0 .. n
      BY <1>1
    <3> QED
      BY <3>1, <3>2, <1>11
  <2> QED
    BY <2>1, <1>8, <1>11, <1>12 DEF Pointing
<1>19. Linked(u, h)
  <2> DEFINE before(c, i) == LastBefore(t, h, L, c, i)
             after(c, i) == LastBefore(u, h, Live(u), c, i)
  <2>1. \A j \in L : Bucket(u, h, u.slots[j].key) = Bucket(t, h, t.slots[j].key)
    BY <1>3, <1>11, <1>13 DEF Bucket, m
  <2>2. Bucket(u, h, u.slots[f].key) = b
    BY <1>11, <1>13 DEF Bucket, b, m
  <2>3. \A c, i : ~ (f < i /\ c = b) => after(c, i) = before(c, i)
    <3> TAKE c, i
    <3> HAVE ~ (f < i /\ c = b)
    <3>1. {j \in L \cup {f} : j < i /\ Bucket(u, h, u.slots[j].key) = c}
            = {j \in L : j < i /\ Bucket(t, h, t.slots[j].key) = c}
      BY <2>1, <2>2
    <3> QED
      BY <3>1, <1>15 DEF LastBefore
  <2>a. \A c : \A i \in 1 .. f : after(c, i) = before(c, i)
    <3> HIDE DEF after, before
    <3>1. \A i \in 1 .. f : ~ (f < i)
      BY <1>1
    <3> QED
      BY <2>3, <3>1
  <2>4. after(b, n + 1) = f
    <3>1. Live(u) \in SUBSET (1 .. Len(u.slots))
      BY <1>11, Slots
    <3>2. f \in Earlier(u, h, Live(u), b, n + 1)
      BY <1>1, <1>15, <2>2 DEF Earlier
    <3>3. \A j \in Earlier(u, h, Live(u), b, n + 1) : j <= f
      <4>1. \A j \in L \cup {f} : j <= f
        BY <1>1, <1>3
      <4> QED
        BY <4>1, <1>15 DEF Earlier
    <3> HIDE DEF b
    <3> QED
      BY <1>11, <3>1, <3>2, <3>3, LastBeforeFacts
  <2>5. before(b, f) = before(b, n + 1)
    <3>1. {j \in L : j < f /\ Bucket(t, h, t.slots[j].key) = b}
            = {j \in L : j < n + 1 /\ Bucket(t, h, t.slots[j].key) = b}
      <4>1. \A j \in L : j < f /\ j < n + 1
        BY <1>1, <1>3
      <4> QED
        BY <4>1
    <3> QED
      BY <3>1 DEF LastBefore
  <2>6. \A c \in 0 .. m : t.heads[c] = before(c, n + 1)
    BY DEF Room, Linked, L, m, n
  <2>7. \A i \in L : t.slots[i].next = before(Bucket(t, h, t.slots[i].key), i)
    BY DEF Room, Linked, L
  <2> HIDE DEF before, after
  <2>8. \A c \in 0 .. m : u.heads[c] = after(c, n + 1)
    <3> TAKE c \in 0 .. m
    <3>1. CASE c = b
      BY <3>1, <2>4, <1>8, <1>11
    <3>2. CASE c # b
      BY <3>2, <2>3, <2>6, <1>8, <1>11
    <3> QED
      BY <3>1, <3>2
  <2>9. \A i \in L : u.slots[i].next = after(Bucket(u, h, u.slots[i].key), i)
    <3> TAKE i \in L
    <3>1. i \in 1 .. f
      BY <1>1, <1>3
    <3>2. after(Bucket(t, h, t.slots[i].key), i) = before(Bucket(t, h, t.slots[i].key), i)
      BY <3>1, <2>a
    <3>3. Bucket(u, h, u.slots[i].key) = Bucket(t, h, t.slots[i].key)
      BY <2>1
    <3>4. u.slots[i].next = before(Bucket(t, h, t.slots[i].key), i)
      BY <2>7, <1>14
    <3> QED
      BY <3>2, <3>3, <3>4
  <2>10. u.slots[f].next = after(Bucket(u, h, u.slots[f].key), f)
    <3>1. f \in 1 .. f
      BY <1>1
    <3>2. after(b, f) = before(b, f)
      BY <3>1, <2>a
    <3>3. u.slots[f].next = before(b, n + 1)
      BY <2>6, <1>2, <1>13
    <3> QED
      BY <3>2, <3>3, <2>2, <2>5
  <2> QED
    BY <2>8, <2>9, <2>10, <1>11, <1>15 DEF Linked, after
<1>20. EndsFree(u)
  <2>1. get_first_free(u) = f + 1
    <3>1. CASE f = n
      <4>1. u.slots[n].key # Uninit
        BY <3>1, <1>13 DEF PropTableAssumption
      <4> QED
        BY <3>1, <4>1, <1>11 DEF get_first_free
    <3>2. CASE f # n
      <4>1. n \in 1 .. n /\ f + 1 <= n /\ n > 0
        BY <3>2, <1>1
      <4>2. u.slots[n].key = Uninit /\ u.slots[n].next = f + 1
        <5>1. t.slots[n].key = Uninit
          BY DEF Room, n
        <5> QED
          BY <5>1, <3>2, <4>1, <1>11, <1>13
      <4> QED
        BY <4>1, <4>2, <1>11 DEF get_first_free
    <3> QED
      BY <3>1, <3>2
  <2>2. f + 1 \in 1 .. n + 1 /\ (f + 1) - 1 = f
    BY <1>1
  <2>3. ASSUME NEW i \in f + 1 .. n
        PROVE  u.slots[i].key \notin Key
    <3>1. i \in f .. n /\ i \in 1 .. n /\ i # f
      BY <1>1
    <3>2. i \notin L
      BY <3>1 DEF Room, L, n
    <3> QED
      BY <3>1, <3>2, <1>1, <1>13 DEF Live, L
  <2>4. ASSUME NEW i \in 1 .. f
        PROVE  u.slots[i].key # Undef
    <3>1. CASE i = f
      BY <3>1, <1>13 DEF PropTableAssumption
    <3>2. CASE i # f
      <4>1. i \in 1 .. f - 1 /\ i \in 1 .. n
        BY <3>2, <1>1
      <4>2. t.slots[i].key # Undef
        BY <4>1 DEF Room
      <4> QED
        BY <3>2, <4>1, <4>2, <1>13
    <3> QED
      BY <3>1, <3>2
  <2> QED
    BY <2>1, <2>2, <2>3, <2>4, <1>11, <1>13 DEF EndsFree
<1>21. f \notin L
  BY <1>3
<1>22. \A i \in L : i < f /\ u.slots[i].key = t.slots[i].key /\ u.slots[i].value = t.slots[i].value
  BY <1>3, <1>13
<1> QED
  BY <1>5, <1>11, <1>13, <1>15, <1>16, <1>17, <1>18, <1>19, <1>20, <1>21, <1>22 DEF Good, L

-----------------------------------------------------------------------------
(* A larger table.                                                         *)

\* The number of properties a table with mask m grows to: more than it has.
LEMMA Lengths ==
  ASSUME NEW n \in Nat, NEW M \in Nat, NEW m \in Nat
  PROVE  LET need == Words(M, n) + 3 + (m - M)
             more == Words(M, n) + Words(M, n) \div 2
             size == IF more > need THEN more + ((Words(m, 0) - more) % 3) ELSE need
         IN  (size - Words(m, 0)) \div 3 \in Nat /\ (size - Words(m, 0)) \div 3 >= n + 1
<1> DEFINE need == Words(M, n) + 3 + (m - M)
           more == Words(M, n) + Words(M, n) \div 2
           size == IF more > need THEN more + ((Words(m, 0) - more) % 3) ELSE need
           w == Words(m, 0)
<1>1. w = 3 + m /\ need = 6 + 3 * n + m /\ w \in Nat /\ need \in Nat
  BY DEF Words
<1>2. more \in Nat
  BY DEF Words
<1> HIDE DEF w, need, more
<1>3. (w - more) % 3 \in Nat
  BY <1>1, <1>2
<1>4. size \in Nat /\ size >= need
  BY <1>1, <1>2, <1>3 DEF w
<1> HIDE DEF size
<1> DEFINE x == size - w
<1>5. x \in Nat /\ x >= 3 * (n + 1)
  BY <1>1, <1>4
<1> HIDE DEF x
<1>6. x \div 3 \in Nat /\ x \div 3 >= n + 1
  BY <1>5
<1> QED
  BY <1>6 DEF x, size, need, more, w

\* The larger table has room after its properties, and what it held where it was.
LEMMA ResizedHasRoom ==
  ASSUME PropTableAssumption, NEW t, NEW h \in HashFunction, NEW k \in Key, Good(t, h),
         get_first_free(t) = Len(t.slots) + 1,
         \A i \in Live(t) : t.slots[i].key # k
  PROVE  LET u == Resized(t, h)
         IN  /\ Room(u, h, Len(t.slots) + 1, k)
             /\ Live(u) = Live(t)
             /\ \A i \in Live(t) : u.slots[i].key = t.slots[i].key /\ u.slots[i].value = t.slots[i].value
<1> DEFINE n == Len(t.slots)
           M == t.hash_mask
           m == IF t.count + 1 > 2 * (M + 1) THEN 2 * (M + 1) - 1 ELSE M
           need == Size(t) + 3 + (m - M)
           more == Size(t) + Size(t) \div 2
           size == IF more > need THEN more + ((Words(m, 0) - more) % 3) ELSE need
           len == (size - Words(m, 0)) \div 3
           sl == [i \in 1 .. len |-> IF i <= n THEN t.slots[i] ELSE FreeSlot(Undef)]
           old == [t EXCEPT !.hash_mask = m, !.slots = sl]
           o == [count |-> t.count, hash_mask |-> m, heads |-> t.heads, slots |-> sl]
           new == IF m = M THEN old ELSE js_rehash_props(old, h)
           u == [new EXCEPT !.slots[len].key = Uninit]
<1>1. /\ n \in Nat /\ DOMAIN t.slots = 1 .. n /\ Live(t) \in SUBSET (1 .. n)
      /\ \A i \in 1 .. n : t.slots[i] \in Slot
      /\ t.count \in Nat /\ M \in Nat
  BY Slots DEF Good, Array
<1>2. Resized(t, h) = u
  BY DEF Resized
<1>3. m \in Nat
  BY <1>1
<1>4. len \in Nat /\ len >= n + 1
  <2>1. Size(t) = Words(M, n)
    BY DEF Size
  <2> HIDE DEF m, M, n
  <2> QED
    BY <1>1, <1>3, <2>1, Lengths
<1>5. old = o
  <2> DEFINE t1 == [t EXCEPT !.hash_mask = m]
  <2>1. Whole(t)
    BY DEF Good, Array
  <2> HIDE DEF m, sl
  <2>2. t1 = [count |-> t.count, hash_mask |-> m, heads |-> t.heads, slots |-> t.slots]
    BY <2>1, Parts
  <2>3. old = [t1 EXCEPT !.slots = sl]
    OBVIOUS
  <2> HIDE DEF t1
  <2>4. Whole(t1) /\ t1.count = t.count /\ t1.hash_mask = m /\ t1.heads = t.heads
    BY <2>2 DEF Whole
  <2>5. [t1 EXCEPT !.slots = sl] = [count |-> t1.count, hash_mask |-> t1.hash_mask, heads |-> t1.heads, slots |-> sl]
    BY <2>4, Parts
  <2> QED
    BY <2>3, <2>4, <2>5
<1> HIDE DEF len, old
<1>6. FreeSlot(Undef) \in Slot /\ FreeSlot(Undef).key = Undef /\ FreeSlot(Undef).next = 0
  BY DEF FreeSlot, Slot
<1>7. /\ sl \in Seq(Slot) /\ Len(sl) = len /\ DOMAIN sl = 1 .. len
      /\ \A i \in 1 .. n : i \in 1 .. len /\ sl[i] = t.slots[i]
      /\ \A i \in n + 1 .. len : i \in 1 .. len /\ sl[i] = FreeSlot(Undef)
  <2>1. \A i \in 1 .. len : sl[i] = IF i <= n THEN t.slots[i] ELSE FreeSlot(Undef)
    OBVIOUS
  <2>2. \A i \in 1 .. len : i <= n => i \in 1 .. n
    BY <1>1, <1>4
  <2>3. sl \in [1 .. len -> Slot]
    BY <1>1, <1>6, <2>1, <2>2
  <2> HIDE DEF sl, n
  <2>4. sl \in Seq(Slot) /\ Len(sl) = len /\ DOMAIN sl = 1 .. len
    BY <1>4, <2>3
  <2>5. /\ \A i \in 1 .. n : i \in 1 .. len /\ i <= n
        /\ \A i \in n + 1 .. len : i \in 1 .. len /\ ~ (i <= n)
    BY <1>1, <1>4
  <2> QED
    BY <2>1, <2>4, <2>5
<1> HIDE DEF sl
<1>8. /\ o.count = t.count /\ o.hash_mask = m /\ o.heads = t.heads /\ o.slots = sl
      /\ o = [count |-> o.count, hash_mask |-> o.hash_mask, heads |-> o.heads, slots |-> o.slots]
  OBVIOUS
<1> HIDE DEF o
<1>9. Array(o)
  BY <1>1, <1>3, <1>7, <1>8 DEF Array, Whole
<1>10. Live(o) = Live(t)
  <2>1. \A i \in 1 .. len : o.slots[i].key \in Key => i \in 1 .. n
    <3>1. \A i \in 1 .. len : i \in 1 .. n \/ i \in n + 1 .. len
      BY <1>1, <1>4
    <3> QED
      BY <3>1, <1>6, <1>7, <1>8 DEF PropTableAssumption
  <2>2. \A i \in 1 .. n : o.slots[i].key = t.slots[i].key /\ i \in 1 .. len
    BY <1>7, <1>8
  <2> HIDE DEF n
  <2> QED
    BY <1>1, <1>7, <1>8, <2>1, <2>2 DEF Live
<1>11. Counted(o)
  <2>1. ASSUME NEW i \in Live(t), NEW j \in 1 .. len, o.slots[j].key = Undef
        PROVE  i < j
    <3>1. i \in 1 .. n
      BY <1>1
    <3>2. CASE j \in 1 .. n
      BY <2>1, <3>2, <1>1, <1>7, <1>8 DEF Good, Counted
    <3>3. CASE j \notin 1 .. n
      BY <3>1, <3>3, <1>1
    <3> QED
      BY <3>2, <3>3
  <2>2. \A i \in Live(t) : o.slots[i].key = t.slots[i].key
    BY <1>1, <1>7, <1>8
  <2>3. /\ t.count = Cardinality(Live(t))
        /\ \A i, j \in Live(t) : t.slots[i].key = t.slots[j].key => i = j
    BY DEF Good, Counted
  <2> HIDE DEF n
  <2> QED
    BY <1>7, <1>8, <1>10, <2>1, <2>2, <2>3 DEF Counted
<1>12. Masked(o)
  <2>1. PICK l \in 0 .. n : M = Pow2(l) - 1
    BY DEF Good, Masked
  <2>2. l \in Nat /\ l \in 0 .. len /\ l + 1 \in 0 .. len
    BY <1>1, <1>4
  <2>3. Pow2(l) \in Nat /\ Pow2(l + 1) = 2 * Pow2(l)
    BY <2>2, Pow2Facts
  <2>4. m = Pow2(l) - 1 \/ m = Pow2(l + 1) - 1
    BY <2>1, <2>3
  <2> HIDE DEF m
  <2> QED
    BY <2>2, <2>4, <1>7, <1>8 DEF Masked
<1>13. \A i \in 1 .. len : o.slots[i].next \in 0 .. len
  <2>1. \A i \in 1 .. n : t.slots[i].next \in 0 .. n
    BY <1>1 DEF Good, Pointing
  <2>2. \A x \in 0 .. n : x \in 0 .. len
    BY <1>1, <1>4
  <2>3. \A i \in 1 .. len : i \in 1 .. n \/ i \in n + 1 .. len
    BY <1>1, <1>4
  <2>4. 0 \in 0 .. len
    BY <1>4
  <2> HIDE DEF n
  <2> QED
    BY <1>6, <1>7, <1>8, <2>1, <2>2, <2>3, <2>4
<1>14. /\ Alike(o, new) /\ Array(new) /\ Counted(new) /\ Masked(new)
       /\ Pointing(new) /\ Linked(new, h)
  <2>1. CASE m = M
    <3>1. new = o
      BY <1>5, <2>1
    <3>2. Alike(o, o)
      BY DEF Alike
    <3>3. Pointing(o)
      <4>1. t.heads \in [0 .. M -> 0 .. n]
        BY DEF Good, Pointing
      <4>2. \A x \in 0 .. n : x \in 0 .. len
        BY <1>1, <1>4
      <4>3. t.heads \in [0 .. M -> 0 .. len]
        BY <4>1, <4>2
      <4> HIDE DEF M, n, m
      <4> QED
        BY <1>7, <1>8, <1>13, <2>1, <4>3 DEF Pointing
    <3>4. Linked(o, h)
      <4>1. \A i \in Live(t) : o.slots[i] = t.slots[i]
        BY <1>1, <1>7, <1>8
      <4>2. \A k1 : Bucket(o, h, k1) = Bucket(t, h, k1)
        BY <1>8, <2>1 DEF Bucket
      <4>3. o.hash_mask = t.hash_mask /\ o.heads = t.heads
        BY <1>8, <2>1
      <4> HIDE DEF M, n, m, new
      <4> QED
        BY <1>9, <1>10, <4>1, <4>2, <4>3, LinkedSame DEF Good
    <3> HIDE DEF new
    <3> QED
      BY <3>1, <3>2, <3>3, <3>4, <1>9, <1>11, <1>12
  <2>2. CASE m # M
    <3>1. new = js_rehash_props(o, h)
      BY <1>5, <2>2
    <3> HIDE DEF new
    <3> QED
      BY <3>1, <1>7, <1>8, <1>9, <1>11, <1>12, <1>13, Rehashed
  <2> QED
    BY <2>1, <2>2
<1> HIDE DEF new, n, M, m
<1>15. Len(new.slots) = len /\ DOMAIN new.slots = 1 .. len /\ Live(new) = Live(t) /\ len \in 1 .. len
  <2>1. Len(new.slots) = len
    BY <1>7, <1>8, <1>14 DEF Alike
  <2>2. len \in 1 .. len
    BY <1>1, <1>4
  <2> QED
    BY <2>1, <2>2, <1>9, <1>10, <1>14, AlikeFacts, Slots
<1> DEFINE x == [new.slots[len] EXCEPT !.key = Uninit]
           sn == [new.slots EXCEPT ![len] = x]
<1>16. u = [count |-> new.count, hash_mask |-> new.hash_mask, heads |-> new.heads, slots |-> sn]
  <2>1. u = [new EXCEPT !.slots = sn]
    BY PartsAt
  <2> HIDE DEF sn
  <2> QED
    BY <2>1, <1>14, Parts DEF Array
<1>17. new.slots[len] \in Slot /\ x \in Slot /\ x.key = Uninit /\ x.next = new.slots[len].next
  BY <1>14, <1>15, Slots DEF Slot
<1> HIDE DEF x
<1>18. /\ sn \in Seq(Slot) /\ Len(sn) = len /\ DOMAIN sn = 1 .. len
       /\ sn[len] = x
       /\ \A i \in 1 .. len : i # len => sn[i] = new.slots[i]
  BY <1>14, <1>15, <1>17, SlotWritten
<1> HIDE DEF u, sn
<1>19. /\ u.count = new.count /\ u.hash_mask = new.hash_mask /\ u.heads = new.heads /\ u.slots = sn
       /\ Whole(u)
  BY <1>16 DEF Whole
<1>20. Array(u)
  BY <1>14, <1>18, <1>19 DEF Array
<1>21. \A i \in Live(t) : i \in 1 .. len /\ i # len /\ i \in 1 .. n
  BY <1>1, <1>4
<1>22. Live(u) = Live(t)
  <2>1. \A i \in 1 .. len : i # len => u.slots[i].key = new.slots[i].key
    BY <1>18, <1>19
  <2>2. u.slots[len].key \notin Key
    BY <1>17, <1>18, <1>19 DEF PropTableAssumption
  <2>3. Live(new) \in SUBSET (1 .. len) /\ len \notin Live(new)
    BY <1>15, <1>21
  <2> QED
    BY <1>15, <1>18, <1>19, <2>1, <2>2, <2>3 DEF Live
<1>23. \A i \in Live(t) : u.slots[i] = new.slots[i]
  BY <1>18, <1>19, <1>21
<1>24. Counted(u)
  <2>1. \A j \in 1 .. len : u.slots[j].key = Undef => new.slots[j].key = Undef
    BY <1>17, <1>18, <1>19 DEF PropTableAssumption
  <2> QED
    BY <2>1, <1>14, <1>15, <1>18, <1>19, <1>22, <1>23 DEF Counted
<1>25. Masked(u)
  BY <1>14, <1>15, <1>18, <1>19 DEF Masked
<1>26. Pointing(u)
  <2>1. \A i \in 1 .. len : u.slots[i].next = new.slots[i].next
    BY <1>17, <1>18, <1>19
  <2> QED
    BY <2>1, <1>14, <1>15, <1>18, <1>19 DEF Pointing
<1>27. Linked(u, h)
  <2>1. \A i \in Live(new) : /\ Bucket(u, h, u.slots[i].key) = Bucket(new, h, new.slots[i].key)
                             /\ u.slots[i].next = new.slots[i].next
    BY <1>15, <1>19, <1>23 DEF Bucket
  <2> QED
    BY <2>1, <1>14, <1>15, <1>19, <1>20, <1>22, LinkedSame
<1>28. \A i \in Live(t) : u.slots[i].key = t.slots[i].key /\ u.slots[i].value = t.slots[i].value
  <2> TAKE i \in Live(t)
  <2>1. i \in 1 .. len /\ i \in 1 .. n
    BY <1>21
  <2>2. u.slots[i].key = o.slots[i].key /\ u.slots[i].value = o.slots[i].value
    BY <2>1, <1>7, <1>8, <1>14, <1>23 DEF Alike
  <2> QED
    BY <2>1, <2>2, <1>7, <1>8
<1>29. \A i \in 1 .. n : u.slots[i].key # Undef
  <2> TAKE i \in 1 .. n
  <2>1. t.slots[i].key # Undef
    <3>1. i \in 1 .. (n + 1) - 1
      BY <1>1
    <3> QED
      BY <3>1 DEF Good, EndsFree, n
  <2>2. i \in 1 .. len /\ i # len
    BY <1>1, <1>4
  <2>3. new.slots[i].key = t.slots[i].key
    BY <2>2, <1>7, <1>8, <1>14 DEF Alike
  <2> QED
    BY <2>1, <2>2, <2>3, <1>18, <1>19
<1>30. Room(u, h, n + 1, k)
  <2>1. /\ n + 1 \in 1 .. len /\ (n + 1) - 1 = n
        /\ \A i \in n + 1 .. len : i \notin Live(t)
    BY <1>1, <1>4
  <2>2. u.slots[len].key = Uninit
    BY <1>17, <1>18, <1>19
  <2>3. \A i \in Live(t) : u.slots[i].key # k
    BY <1>28
  <2>4. Len(u.slots) = len
    BY <1>18, <1>19
  <2> QED
    BY <2>1, <2>2, <2>3, <2>4, <1>20, <1>22, <1>24, <1>25, <1>26, <1>27, <1>29 DEF Room
<1> QED
  BY <1>2, <1>22, <1>28, <1>30 DEF n

\* js_create_property adds k to the properties of t.
Added(t, u, k, v) ==
  \E f \in Nat \ Live(t) :
    /\ Live(u) = Live(t) \cup {f}
    /\ \A i \in Live(t) :
         i < f /\ u.slots[i].key = t.slots[i].key /\ u.slots[i].value = t.slots[i].value
    /\ u.slots[f].key = k /\ u.slots[f].value = v

LEMMA CreateIsGood ==
  ASSUME PropTableAssumption, NEW t, NEW h \in HashFunction, NEW k \in Key, NEW v \in PropVal,
         Good(t, h), \A i \in Live(t) : t.slots[i].key # k
  PROVE  LET u == js_create_property(t, h, k, v)
         IN  Good(u, h) /\ Added(t, u, k, v)
<1> DEFINE n == Len(t.slots)
           e == get_first_free(t)
           u == js_create_property(t, h, k, v)
<1>1. n \in Nat /\ e \in 1 .. n + 1
  BY Slots DEF Good, EndsFree
<1> HIDE DEF n, e
<1>2. CASE e <= n
  <2>1. u = Filled(t, h, e, k, v)
    BY <1>2 DEF js_create_property, e, n
  <2>2. e \in 1 .. n /\ n > 0
    BY <1>1, <1>2
  <2>3. t.slots[n].key = Uninit
    <3>1. n + 1 > n
      BY <1>1
    <3>2. e # n + 1
      BY <1>1, <2>2
    <3> QED
      BY <3>2, <2>2 DEF get_first_free, e, n
  <2>4. \A i \in e .. n : i \notin Live(t)
    BY DEF Good, EndsFree, Live, e, n
  <2>5. Room(t, h, e, k)
    BY <2>2, <2>3, <2>4 DEF Good, EndsFree, Room, e, n
  <2> HIDE DEF u
  <2>6. e \in Nat
    BY <2>2
  <2>7. /\ Good(u, h) /\ Live(u) = Live(t) \cup {e} /\ e \notin Live(t)
        /\ \A i \in Live(t) :
             i < e /\ u.slots[i].key = t.slots[i].key /\ u.slots[i].value = t.slots[i].value
        /\ u.slots[e].key = k /\ u.slots[e].value = v
    BY <2>1, <2>5, <2>6, FilledIsGood
  <2>8. Added(t, u, k, v)
    BY <2>6, <2>7 DEF Added
  <2> QED
    BY <2>7, <2>8 DEF u
<1>3. CASE ~ (e <= n) /\ t = empty_props
  <2> DEFINE a == js_alloc_props(1)
  <2>1. u = Filled(a, h, 1, k, v)
    BY <1>3 DEF js_create_property, e, n
  <2>2. /\ Good(a, h) /\ Live(a) = {} /\ Len(a.slots) = 1 /\ get_first_free(a) = 1
        /\ a.slots[1].key = Uninit
    <3>1. 1 \in Nat \ {0}
      OBVIOUS
    <3> QED
      BY <3>1, AllocProps
  <2>3. Live(t) = {}
    BY <1>3, EmptyProps
  <2> HIDE DEF a, u
  <2> DEFINE o == 1
  <2>4. o \in Nat /\ u = Filled(a, h, o, k, v) /\ Room(a, h, o, k)
        /\ PropTableAssumption /\ h \in HashFunction /\ k \in Key /\ v \in PropVal
    BY <2>1, <2>2 DEF Good, Room
  <2> HIDE DEF o
  <2>a. ASSUME NEW f, Room(a, h, f, k)
        PROVE  LET w == Filled(a, h, f, k, v)
               IN  /\ Good(w, h) /\ Live(w) = Live(a) \cup {f}
                   /\ w.slots[f].key = k /\ w.slots[f].value = v
    BY ONLY PropTableAssumption, h \in HashFunction, k \in Key, v \in PropVal, <2>a, FilledIsGood
  <2>5. Good(u, h) /\ Live(u) = Live(a) \cup {o} /\ u.slots[o].key = k /\ u.slots[o].value = v
    BY <2>4, <2>a
  <2>6. Added(t, u, k, v)
    BY <2>2, <2>3, <2>4, <2>5 DEF Added
  <2> QED
    BY <2>5, <2>6 DEF u
<1>4. CASE ~ (e <= n) /\ t # empty_props
  <2> DEFINE a == Resized(t, h)
  <2>1. e = n + 1
    BY <1>1, <1>4
  <2>2. u = Filled(a, h, n + 1, k, v)
    BY <1>4, <2>1 DEF js_create_property, e, n
  <2>3. /\ Room(a, h, n + 1, k) /\ Live(a) = Live(t)
        /\ \A i \in Live(t) : a.slots[i].key = t.slots[i].key /\ a.slots[i].value = t.slots[i].value
    BY <2>1, ResizedHasRoom DEF e, n
  <2> HIDE DEF a, u
  <2>4. /\ Good(u, h) /\ Live(u) = Live(t) \cup {n + 1} /\ n + 1 \notin Live(t)
        /\ \A i \in Live(t) :
             i < n + 1 /\ u.slots[i].key = a.slots[i].key /\ u.slots[i].value = a.slots[i].value
        /\ u.slots[n + 1].key = k /\ u.slots[n + 1].value = v
    BY <2>2, <2>3, FilledIsGood
  <2>5. n + 1 \in Nat
    BY <1>1
  <2>6. Added(t, u, k, v)
    BY <2>3, <2>4, <2>5 DEF Added
  <2> QED
    BY <2>4, <2>6 DEF u
<1> QED
  BY <1>2, <1>3, <1>4

-----------------------------------------------------------------------------
(* What a deletion changes.                                                *)

\* The property in slot i is taken out of the table.
Deleted(t, u, i) ==
  /\ Live(u) = Live(t) \ {i}
  /\ \A j \in Live(t) \ {i} :
       u.slots[j].key = t.slots[j].key /\ u.slots[j].value = t.slots[j].value

\* Slot i is linked over: heads and links that were i are what its link was.
LinkedOver(t, h, u, i) ==
  LET b == Bucket(t, h, t.slots[i].key) IN
  /\ u.hash_mask = t.hash_mask
  /\ \A c \in 0 .. t.hash_mask : u.heads[c] = IF t.heads[c] = i THEN t.slots[i].next ELSE t.heads[c]
  /\ \A j \in Live(t) \ {i} :
       u.slots[j].next = IF t.slots[j].next = i THEN t.slots[i].next ELSE t.slots[j].next

LEMMA UnlinkedIsLinked ==
  ASSUME PropTableAssumption, NEW t, NEW h, NEW u, NEW i \in Live(t), Array(t), Array(u),
         Linked(t, h), Deleted(t, u, i), LinkedOver(t, h, u, i), Len(u.slots) = Len(t.slots)
  PROVE  Linked(u, h)
<1> DEFINE n == Len(t.slots)
           L == Live(t)
           b == Bucket(t, h, t.slots[i].key)
           before(c, x) == LastBefore(t, h, L, c, x)
           after(c, x) == LastBefore(u, h, Live(u), c, x)
           Was(c, x) == Earlier(t, h, L, c, x)
           Is(c, x) == Earlier(u, h, Live(u), c, x)
<1>1. /\ n \in Nat /\ L \in SUBSET (1 .. n) /\ i \in 1 .. n /\ i \in L
      /\ Live(u) = L \ {i} /\ Live(u) \in SUBSET (1 .. Len(u.slots))
  BY Slots DEF Deleted
<1>2. \A j \in L \ {i} : Bucket(u, h, u.slots[j].key) = Bucket(t, h, t.slots[j].key)
  BY DEF Deleted, LinkedOver, Bucket
<1>3. \A c, x : Is(c, x) = Was(c, x) \ {i}
  BY <1>1, <1>2 DEF Earlier
<1>4. \A c, x :
        /\ before(c, x) \in 0 .. n
        /\ before(c, x) # 0 => before(c, x) \in Was(c, x)
        /\ \A j \in Was(c, x) : j <= before(c, x)
        /\ Was(c, x) = {} => before(c, x) = 0
  BY <1>1, LastBeforeFacts
<1>5. \A c, x :
        /\ \A q \in Is(c, x) : (\A j \in Is(c, x) : j <= q) => after(c, x) = q
        /\ Is(c, x) = {} => after(c, x) = 0
  BY <1>1, LastBeforeFacts
<1>a. \A c, x : \A j \in Was(c, x) : j \in L /\ j \in Int /\ j > 0 /\ Bucket(t, h, t.slots[j].key) = c
  <2>1. \A j \in L : j \in Int /\ j > 0
    BY <1>1
  <2> QED
    BY <2>1 DEF Earlier
<1>6. ASSUME NEW c, NEW x, before(c, x) # i
      PROVE  after(c, x) = before(c, x)
  <2> HIDE DEF Was, Is, before, after
  <2>1. CASE before(c, x) = 0
    <3>1. Was(c, x) = {}
      <4> SUFFICES ASSUME NEW j \in Was(c, x)
                   PROVE  FALSE
        OBVIOUS
      <4>1. j <= 0 /\ j > 0 /\ j \in Int
        BY <2>1, <1>4, <1>a
      <4> QED
        BY <4>1
    <3>2. Is(c, x) = {}
      BY <3>1, <1>3
    <3> QED
      BY <2>1, <3>2, <1>5
  <2>2. CASE before(c, x) # 0
    <3>1. before(c, x) \in Is(c, x)
      BY <2>2, <1>3, <1>4, <1>6
    <3>2. \A j \in Is(c, x) : j <= before(c, x)
      BY <1>3, <1>4
    <3> QED
      BY <3>1, <3>2, <1>5
  <2> QED
    BY <2>1, <2>2
<1>7. ASSUME NEW c, NEW x \in Int, before(c, x) = i
      PROVE  after(c, x) = t.slots[i].next
  <2>1. c = b /\ i < x
    <3>1. i \in Was(c, x)
      <4> HIDE DEF before, Was
      <4> QED
        BY <1>1, <1>4, <1>7
    <3> QED
      BY <3>1, <1>1 DEF Earlier
  <2>2. t.slots[i].next = before(b, i)
    BY <1>1 DEF Linked
  <2>3. Was(c, x) \ {i} = Was(b, i)
    <3>1. \A j \in Was(c, x) : j <= i
      <4> HIDE DEF before, Was
      <4> QED
        BY <1>4, <1>7
    <3>2. \A j \in L : j \in Int
      BY <1>1
    <3>3. \A j \in L : j < x /\ j <= i /\ j # i => j < i
      BY <1>1, <3>2
    <3>4. \A j \in L : j < i => j < x /\ j # i
      BY <1>1, <2>1, <3>2
    <3> QED
      BY <2>1, <3>1, <3>3, <3>4 DEF Earlier
  <2>4. Is(c, x) = Was(b, i)
    BY <1>3, <2>3
  <2> HIDE DEF Was, Is, before, after, b
  <2>5. CASE Was(b, i) = {}
    BY <2>2, <2>4, <2>5, <1>4, <1>5
  <2>6. CASE Was(b, i) # {}
    <3>1. before(b, i) # 0
      <4>1. PICK j \in Was(b, i) : TRUE
        BY <2>6
      <4>2. j <= before(b, i) /\ j > 0 /\ j \in Int
        BY <1>4, <1>a
      <4>3. ~ (j <= 0)
        BY <4>2
      <4> QED
        BY <4>2, <4>3
    <3>2. before(b, i) \in Is(c, x) /\ \A j \in Is(c, x) : j <= before(b, i)
      BY <3>1, <2>4, <1>4
    <3> QED
      BY <2>2, <3>2, <1>5
  <2> QED
    BY <2>5, <2>6
<1>8. \A c \in 0 .. t.hash_mask : t.heads[c] = before(c, n + 1)
  BY DEF Linked
<1>9. \A j \in L : t.slots[j].next = before(Bucket(t, h, t.slots[j].key), j)
  BY DEF Linked
<1> HIDE DEF before, after, Was, Is, n, b
<1>10. \A c \in 0 .. t.hash_mask : u.heads[c] = after(c, n + 1)
  <2> TAKE c \in 0 .. t.hash_mask
  <2>1. n + 1 \in Int
    BY <1>1
  <2>2. CASE t.heads[c] = i
    <3>1. u.heads[c] = t.slots[i].next
      BY <2>2 DEF LinkedOver
    <3> QED
      BY <3>1, <2>1, <2>2, <1>7, <1>8
  <2>3. CASE t.heads[c] # i
    <3>1. u.heads[c] = t.heads[c]
      BY <2>3 DEF LinkedOver
    <3> QED
      BY <3>1, <2>3, <1>6, <1>8
  <2> QED
    BY <2>2, <2>3
<1>11. \A j \in L \ {i} : u.slots[j].next = after(Bucket(u, h, u.slots[j].key), j)
  <2> TAKE j \in L \ {i}
  <2> DEFINE c == Bucket(t, h, t.slots[j].key)
  <2>1. j \in Int /\ Bucket(u, h, u.slots[j].key) = c /\ t.slots[j].next = before(c, j)
    BY <1>1, <1>2, <1>9
  <2> HIDE DEF c
  <2>2. CASE t.slots[j].next = i
    <3>1. u.slots[j].next = t.slots[i].next
      BY <2>2 DEF LinkedOver
    <3> QED
      BY <3>1, <2>1, <2>2, <1>7
  <2>3. CASE t.slots[j].next # i
    <3>1. u.slots[j].next = t.slots[j].next
      BY <2>3 DEF LinkedOver
    <3> QED
      BY <3>1, <2>1, <2>3, <1>6
  <2> QED
    BY <2>2, <2>3
<1> QED
  BY <1>1, <1>10, <1>11 DEF Linked, LinkedOver, after, n

-----------------------------------------------------------------------------
(* The order of the properties.                                            *)

\* KeyOrder of any table.
Order(t) ==
  LET L == Live(t) IN
  [j \in 1 .. Cardinality(L) |->
     [key |-> t.slots[Nth(L, j)].key, value |-> t.slots[Nth(L, j)].value]]

Entry == [key : Key, value : PropVal \cup {Undef}]

LEMMA OrderFacts ==
  ASSUME PropTableAssumption, NEW t, Array(t)
  PROVE  LET c == Cardinality(Live(t))
         IN  /\ c \in Nat /\ Len(Order(t)) = c /\ DOMAIN Order(t) = 1 .. c
             /\ Order(t) \in Seq(Entry)
             /\ \A j \in 1 .. c :
                  /\ Nth(Live(t), j) \in Live(t)
                  /\ Order(t)[j] = [key |-> t.slots[Nth(Live(t), j)].key,
                                    value |-> t.slots[Nth(Live(t), j)].value]
<1> DEFINE L == Live(t)
           c == Cardinality(L)
           n == Len(t.slots)
           o == Order(t)
<1>1. n \in Nat /\ L \in SUBSET (1 .. n) /\ \A i \in L : t.slots[i] \in Slot /\ t.slots[i].key \in Key
  BY Slots DEF Live
<1>2. o = [j \in 1 .. c |-> [key |-> t.slots[Nth(L, j)].key, value |-> t.slots[Nth(L, j)].value]]
  BY DEF Order
<1> HIDE DEF L, n, o
<1>3. c \in Nat /\ \A j \in 1 .. c : Nth(L, j) \in L
  BY <1>1, RankFacts, NthFacts
<1> HIDE DEF c
<1>4. \A j \in 1 .. c : t.slots[Nth(L, j)].key \in Key /\ t.slots[Nth(L, j)].value \in PropVal \cup {Undef}
  BY <1>1, <1>3 DEF Slot
<1> DEFINE E == Entry
<1>5. o \in [1 .. c -> E]
  BY <1>2, <1>4 DEF Entry
<1> HIDE DEF E
<1>6. o \in Seq(E) /\ Len(o) = c
  BY <1>3, <1>5
<1> QED
  BY <1>2, <1>3, <1>5, <1>6 DEF o, c, L, E

\* The keys of the live properties are those in the order.
PropKeys(t) == {t.slots[i].key : i \in Live(t)}

LEMMA OrderKeys ==
  ASSUME PropTableAssumption, NEW t, Array(t)
  PROVE  PropKeys(t) = {Order(t)[r].key : r \in DOMAIN Order(t)}
<1> DEFINE L == Live(t)
           c == Cardinality(L)
           n == Len(t.slots)
           o == Order(t)
<1>1. n \in Nat /\ L \in SUBSET (1 .. n)
  BY Slots
<1>2. /\ DOMAIN o = 1 .. c
      /\ \A j \in 1 .. c :
           Nth(L, j) \in L /\ o[j] = [key |-> t.slots[Nth(L, j)].key, value |-> t.slots[Nth(L, j)].value]
  BY OrderFacts
<1> HIDE DEF L, n, o
<1>3. \A i \in L : Rank(L, i) \in 1 .. c /\ Nth(L, Rank(L, i)) = i
  BY <1>1, RankFacts, NthFacts
<1> HIDE DEF c
<1>4. \A j \in 1 .. c : o[j].key = t.slots[Nth(L, j)].key
  BY <1>2
<1>5. {t.slots[i].key : i \in L} = {o[r].key : r \in 1 .. c}
  BY <1>2, <1>3, <1>4
<1> QED
  BY <1>2, <1>5 DEF PropKeys, L, o

\* Tables with the same live properties.
LEMMA SameOrder ==
  ASSUME PropTableAssumption, NEW t, NEW u, Array(t), Live(u) = Live(t),
         \A i \in Live(t) : u.slots[i].key = t.slots[i].key /\ u.slots[i].value = t.slots[i].value
  PROVE  Order(u) = Order(t)
<1> DEFINE L == Live(t)
           c == Cardinality(L)
<1>1. \A j \in 1 .. c : Nth(L, j) \in L
  BY OrderFacts
<1> HIDE DEF L, c
<1>2. Order(u) = [j \in 1 .. c |-> [key |-> u.slots[Nth(L, j)].key, value |-> u.slots[Nth(L, j)].value]]
  BY DEF Order, L, c
<1>3. Order(t) = [j \in 1 .. c |-> [key |-> t.slots[Nth(L, j)].key, value |-> t.slots[Nth(L, j)].value]]
  BY DEF Order, L, c
<1>4. \A j \in 1 .. c : /\ u.slots[Nth(L, j)].key = t.slots[Nth(L, j)].key
                        /\ u.slots[Nth(L, j)].value = t.slots[Nth(L, j)].value
  BY <1>1 DEF L
<1> QED
  BY <1>2, <1>3, <1>4

\* A new property comes last.
LEMMA OrderAdded ==
  ASSUME PropTableAssumption, NEW t, NEW u, NEW k \in Key, NEW v \in PropVal, Array(t), Array(u),
         Added(t, u, k, v)
  PROVE  Order(u) = Append(Order(t), [key |-> k, value |-> v])
<1> DEFINE L == Live(t)
           c == Cardinality(L)
           n == Len(u.slots)
<1>1. PICK e \in Nat \ L :
        /\ Live(u) = L \cup {e}
        /\ \A i \in L :
             i < e /\ u.slots[i].key = t.slots[i].key /\ u.slots[i].value = t.slots[i].value
        /\ u.slots[e].key = k /\ u.slots[e].value = v
  BY DEF Added
<1> DEFINE M == L \cup {e}
           g == [j \in 1 .. c + 1 |-> IF j = c + 1 THEN e ELSE Nth(L, j)]
<1>2. n \in Nat /\ M \in SUBSET (1 .. n)
  BY <1>1, Slots
<1>3. L \in SUBSET (1 .. n)
  BY <1>2
<1> HIDE DEF L, n
<1>4. /\ c \in Nat
      /\ \A j \in 1 .. c : Nth(L, j) \in L /\ Rank(L, Nth(L, j)) = j
      /\ \A r, s \in 1 .. c : r < s <=> Nth(L, r) < Nth(L, s)
      /\ \A i \in L : Rank(L, i) \in 1 .. c /\ Nth(L, Rank(L, i)) = i
  BY <1>2, <1>3, RankFacts, NthFacts
<1> HIDE DEF c
<1>5. c + 1 \in 1 .. c + 1 /\ \A j \in 1 .. c + 1 : j # c + 1 => j \in 1 .. c
  BY <1>4
<1>6. c + 1 \in Nat /\ \A j \in 1 .. c : j \in 1 .. c + 1 /\ j # c + 1
  BY <1>4
<1>7. g \in [1 .. c + 1 -> M] /\ g[c + 1] = e /\ \A j \in 1 .. c : g[j] = Nth(L, j)
  BY <1>4, <1>5, <1>6
<1> HIDE DEF g
<1>8. \A i \in M : \E r \in 1 .. c + 1 : g[r] = i
  BY <1>4, <1>5, <1>6, <1>7
<1>9. \A r, s \in 1 .. c + 1 : r < s => g[r] < g[s]
  <2> TAKE r, s \in 1 .. c + 1
  <2> HAVE r < s
  <2>1. r \in 1 .. c /\ g[r] \in L
    BY <1>4, <1>7
  <2>2. CASE s = c + 1
    BY <1>1, <1>7, <2>1, <2>2
  <2>3. CASE s # c + 1
    <3>1. s \in 1 .. c
      BY <1>5, <2>3
    <3> QED
      BY <1>4, <1>7, <2>1, <3>1
  <2> QED
    BY <2>2, <2>3
<1>10. Cardinality(M) = c + 1 /\ \A r \in 1 .. c + 1 : Nth(M, r) = g[r]
  <2> DEFINE m == c + 1
  <2>1. m \in Nat /\ M \in SUBSET (1 .. n) /\ n \in Nat
    BY <1>2, <1>6
  <2> HIDE DEF M
  <2>a. CountsThrough(g, m, M)
    BY <1>7, <1>8, <1>9 DEF CountsThrough
  <2> HIDE DEF m
  <2>2. Cardinality(M) = m /\ \A r \in 1 .. m : Nth(M, r) = g[r]
    BY ONLY <2>1, <2>a, Enumerates
  <2> QED
    BY <2>2 DEF m
<1> DEFINE o == Order(t)
           p == Order(u)
           x == [key |-> k, value |-> v]
<1>11. /\ o \in Seq(Entry) /\ Len(o) = c
       /\ \A j \in 1 .. c : o[j] = [key |-> t.slots[Nth(L, j)].key, value |-> t.slots[Nth(L, j)].value]
  BY OrderFacts DEF L, c
<1>12. p = [j \in 1 .. c + 1 |-> [key |-> u.slots[g[j]].key, value |-> u.slots[g[j]].value]]
  <2>1. Live(u) = M
    BY <1>1 DEF L
  <2> HIDE DEF M
  <2>2. p = [j \in 1 .. Cardinality(M) |-> [key |-> u.slots[Nth(M, j)].key, value |-> u.slots[Nth(M, j)].value]]
    BY <2>1 DEF Order
  <2> HIDE DEF p
  <2> QED
    BY <1>10, <2>2
<1> HIDE DEF o, p
<1>13. ASSUME NEW j \in 1 .. c
       PROVE  p[j] = o[j]
  <2>1. j \in 1 .. c + 1 /\ g[j] = Nth(L, j) /\ g[j] \in L
    BY <1>4, <1>6, <1>7
  <2>2. u.slots[g[j]].key = t.slots[g[j]].key /\ u.slots[g[j]].value = t.slots[g[j]].value
    BY <1>1, <2>1
  <2> QED
    BY <1>11, <1>12, <2>1, <2>2
<1>14. p[c + 1] = x
  BY <1>1, <1>5, <1>7, <1>12
<1>15. p \in Seq(Entry) /\ Len(p) = c + 1 /\ x \in Entry
  <2>1. Len(p) = Cardinality(Live(u)) /\ p \in Seq(Entry)
    BY OrderFacts DEF p
  <2> QED
    BY <1>1, <1>10, <2>1 DEF L, Entry
<1> HIDE DEF x
<1>16. /\ Append(o, x) \in Seq(Entry) /\ Len(Append(o, x)) = c + 1
       /\ \A j \in 1 .. c : Append(o, x)[j] = o[j]
       /\ Append(o, x)[c + 1] = x
  BY <1>11, <1>15, AppendProperties
<1>17. p = Append(o, x)
  <2>1. \A j \in 1 .. Len(p) : p[j] = Append(o, x)[j]
    BY <1>5, <1>13, <1>14, <1>15, <1>16
  <2> QED
    BY <1>15, <1>16, <2>1, SeqEqual
<1> QED
  BY <1>17 DEF o, p, x

\* A deleted property leaves its place.
LEMMA OrderDeleted ==
  ASSUME PropTableAssumption, NEW t, NEW u, NEW i \in Live(t), Array(t), Array(u), Deleted(t, u, i)
  PROVE  LET r == Rank(Live(t), i)
         IN  /\ r \in DOMAIN Order(t) /\ Order(t)[r].key = t.slots[i].key
             /\ Order(u) = SubSeq(Order(t), 1, r - 1) \o SubSeq(Order(t), r + 1, Len(Order(t)))
<1> DEFINE L == Live(t)
           c == Cardinality(L)
           n == Len(t.slots)
           q == Rank(L, i)
           M == L \ {i}
           m == c - 1
           g == [j \in 1 .. m |-> IF j < q THEN Nth(L, j) ELSE Nth(L, j + 1)]
           o == Order(t)
           p == Order(u)
<1>1. n \in Nat /\ L \in SUBSET (1 .. n) /\ M \in SUBSET (1 .. n)
  BY Slots
<1>2. /\ Live(u) = M
      /\ \A j \in M : u.slots[j].key = t.slots[j].key /\ u.slots[j].value = t.slots[j].value
  BY DEF Deleted
<1>3. /\ o \in Seq(Entry) /\ Len(o) = c /\ DOMAIN o = 1 .. c
      /\ \A j \in 1 .. c : o[j] = [key |-> t.slots[Nth(L, j)].key, value |-> t.slots[Nth(L, j)].value]
  BY OrderFacts
<1>4. /\ p \in Seq(Entry) /\ Len(p) = Cardinality(M) /\ DOMAIN p = 1 .. Cardinality(M)
      /\ \A j \in 1 .. Cardinality(M) : p[j] = [key |-> u.slots[Nth(M, j)].key, value |-> u.slots[Nth(M, j)].value]
  <2>1. Live(u) = M
    BY <1>2
  <2> HIDE DEF M
  <2>2. /\ p \in Seq(Entry) /\ Len(p) = Cardinality(Live(u)) /\ DOMAIN p = 1 .. Cardinality(Live(u))
        /\ \A j \in 1 .. Cardinality(Live(u)) :
             p[j] = [key |-> u.slots[Nth(Live(u), j)].key, value |-> u.slots[Nth(Live(u), j)].value]
    BY OrderFacts
  <2> HIDE DEF p
  <2> QED
    BY <2>1, <2>2
<1>5. i \in L
  OBVIOUS
<1> HIDE DEF L, n, o, p
<1>6. /\ c \in Nat
      /\ \A j \in 1 .. c : Nth(L, j) \in L /\ Rank(L, Nth(L, j)) = j
      /\ \A r, s \in 1 .. c : r < s <=> Nth(L, r) < Nth(L, s)
      /\ \A l \in L : Rank(L, l) \in 1 .. c /\ Nth(L, Rank(L, l)) = l
  BY <1>1, RankFacts, NthFacts
<1>7. q \in 1 .. c /\ Nth(L, q) = i /\ m \in Nat /\ c \in Nat
  BY <1>5, <1>6
<1> HIDE DEF c, q
<1>8. \A j \in 1 .. m : /\ j < q => j \in 1 .. c /\ j # q
                        /\ ~ (j < q) => j + 1 \in 1 .. c /\ j + 1 # q
  BY <1>7
<1>9. \A j \in 1 .. c : j # q => Nth(L, j) \in M
  <2> TAKE j \in 1 .. c
  <2> HAVE j # q
  <2>1. Nth(L, j) \in L /\ Nth(L, j) # i
    <3>1. Rank(L, Nth(L, j)) = j /\ Rank(L, Nth(L, q)) = q
      BY <1>6, <1>7
    <3> QED
      BY <1>6, <1>7, <3>1
  <2> QED
    BY <2>1
<1>10. g \in [1 .. m -> M] /\ \A j \in 1 .. m : g[j] = IF j < q THEN Nth(L, j) ELSE Nth(L, j + 1)
  BY <1>8, <1>9
<1> HIDE DEF g
<1>11. \A l \in M : \E r \in 1 .. m : g[r] = l
  <2> TAKE l \in M
  <2>1. Rank(L, l) \in 1 .. c /\ Nth(L, Rank(L, l)) = l /\ l # i
    BY <1>6
  <2> DEFINE r == Rank(L, l)
  <2>2. r # q
    BY <1>7, <2>1
  <2> HIDE DEF r
  <2>3. CASE r < q
    <3>1. r \in 1 .. m
      BY <1>7, <2>1, <2>3 DEF r
    <3> QED
      BY <1>10, <2>1, <2>3, <3>1 DEF r
  <2>4. CASE ~ (r < q)
    <3>1. r - 1 \in 1 .. m /\ ~ (r - 1 < q) /\ (r - 1) + 1 = r
      BY <1>7, <2>1, <2>2, <2>4 DEF r
    <3> QED
      BY <1>10, <2>1, <3>1 DEF r
  <2> QED
    BY <2>3, <2>4
<1>12. \A r, s \in 1 .. m : r < s => g[r] < g[s]
  <2> TAKE r, s \in 1 .. m
  <2> HAVE r < s
  <2> DEFINE a == IF r < q THEN r ELSE r + 1
             b == IF s < q THEN s ELSE s + 1
  <2>1. a \in 1 .. c /\ b \in 1 .. c /\ a < b
    BY <1>7
  <2>2. g[r] = Nth(L, a) /\ g[s] = Nth(L, b)
    BY <1>10
  <2> HIDE DEF a, b
  <2> QED
    BY <1>6, <2>1, <2>2
<1> HIDE DEF M
<1>13. Cardinality(M) = m /\ \A r \in 1 .. m : Nth(M, r) = g[r]
  <2>1. m \in Nat /\ g \in [1 .. m -> M] /\ M \in SUBSET (1 .. n) /\ n \in Nat
    BY <1>1, <1>7, <1>10
  <2> HIDE DEF m
  <2>2. CountsThrough(g, m, M)
    BY <2>1, <1>11, <1>12 DEF CountsThrough
  <2> QED
    BY ONLY <2>1, <2>2, Enumerates
<1>14. \A j \in 1 .. m : p[j] = IF j < q THEN o[j] ELSE o[j + 1]
  <2> TAKE j \in 1 .. m
  <2>1. p[j] = [key |-> u.slots[g[j]].key, value |-> u.slots[g[j]].value]
    BY <1>4, <1>13
  <2>2. p[j] = [key |-> t.slots[g[j]].key, value |-> t.slots[g[j]].value]
    BY <1>2, <1>10, <2>1
  <2> QED
    BY <1>3, <1>8, <1>10, <2>2
<1> DEFINE x == SubSeq(o, 1, q - 1)
           y == SubSeq(o, q + 1, c)
<1>a. \A j \in 1 .. c : o[j] \in Entry
  BY <1>3
<1>15. x \in Seq(Entry) /\ Len(x) = q - 1 /\ \A j \in 1 .. q - 1 : x[j] = o[j]
  <2>1. \A j \in 1 .. q - 1 : o[j] \in Entry
    BY <1>7, <1>a
  <2>2. 1 \in Int /\ q - 1 \in Int
    BY <1>7
  <2>3. x \in Seq(Entry)
    BY <2>1, <2>2, SubSeqProperties
  <2>4. Len(x) = IF 1 <= q - 1 THEN (q - 1) - 1 + 1 ELSE 0
    BY <2>1, <2>2, SubSeqProperties
  <2>5. \A j \in 1 .. (q - 1) - 1 + 1 : x[j] = o[1 + j - 1]
    BY <2>1, <2>2, SubSeqProperties
  <2> HIDE DEF x
  <2>6. (q - 1) - 1 + 1 = q - 1 /\ \A j \in 1 .. q - 1 : 1 + j - 1 = j
    BY <1>7
  <2>7. Len(x) = q - 1
    BY <1>7, <2>4
  <2> QED
    BY <2>3, <2>5, <2>6, <2>7
<1>16. y \in Seq(Entry) /\ Len(y) = c - q /\ \A j \in 1 .. c - q : y[j] = o[q + j]
  <2>1. \A j \in q + 1 .. c : o[j] \in Entry
    BY <1>7, <1>a
  <2>2. q + 1 \in Int /\ c \in Int
    BY <1>7
  <2>3. y \in Seq(Entry)
    BY <2>1, <2>2, SubSeqProperties
  <2>4. Len(y) = IF q + 1 <= c THEN c - (q + 1) + 1 ELSE 0
    BY <2>1, <2>2, SubSeqProperties
  <2>5. \A j \in 1 .. c - (q + 1) + 1 : y[j] = o[(q + 1) + j - 1]
    BY <2>1, <2>2, SubSeqProperties
  <2> HIDE DEF y
  <2>6. c - (q + 1) + 1 = c - q /\ \A j \in 1 .. c - q : (q + 1) + j - 1 = q + j
    BY <1>7
  <2>7. Len(y) = c - q
    BY <1>7, <2>4
  <2> QED
    BY <2>3, <2>5, <2>6, <2>7
<1> HIDE DEF x, y
<1> DEFINE z == x \o y
<1>17. /\ z \in Seq(Entry) /\ Len(z) = Len(x) + Len(y)
       /\ \A j \in 1 .. Len(x) + Len(y) : z[j] = IF j <= Len(x) THEN x[j] ELSE y[j - Len(x)]
  BY <1>15, <1>16, ConcatProperties
<1> HIDE DEF z
<1>18. Len(z) = m /\ Len(p) = m
  BY <1>4, <1>7, <1>13, <1>15, <1>16, <1>17
<1>19. ASSUME NEW j \in 1 .. m
       PROVE  z[j] = p[j]
  <2>1. z[j] = IF j <= q - 1 THEN x[j] ELSE y[j - (q - 1)]
    BY <1>15, <1>17, <1>18
  <2>2. CASE j < q
    <3>1. j <= q - 1 /\ j \in 1 .. q - 1
      BY <1>7, <2>2
    <3> QED
      BY <2>1, <2>2, <3>1, <1>14, <1>15
  <2>3. CASE ~ (j < q)
    <3>1. ~ (j <= q - 1) /\ j - (q - 1) \in 1 .. c - q /\ q + (j - (q - 1)) = j + 1
      BY <1>7, <2>3
    <3>2. y[j - (q - 1)] = o[q + (j - (q - 1))]
      BY <1>16, <3>1
    <3> QED
      BY <2>1, <2>3, <3>1, <3>2, <1>14
  <2> QED
    BY <2>2, <2>3
<1>20. p = z
  <2>1. \A j \in 1 .. Len(p) : p[j] = z[j]
    BY <1>18, <1>19
  <2> QED
    BY <1>4, <1>17, <1>18, <2>1, SeqEqual
<1>21. q \in DOMAIN o /\ o[q].key = t.slots[i].key
  BY <1>3, <1>7
<1> QED
  BY <1>3, <1>20, <1>21 DEF p, z, x, y, o, q, L

\* A property that is set keeps its place.
LEMMA OrderSet ==
  ASSUME PropTableAssumption, NEW t, NEW u, NEW i \in Live(t), NEW v \in PropVal, Array(t),
         Live(u) = Live(t),
         \A j \in Live(t) : u.slots[j].key = t.slots[j].key
                            /\ u.slots[j].value = IF j = i THEN v ELSE t.slots[j].value
  PROVE  LET r == Rank(Live(t), i)
         IN  /\ r \in DOMAIN Order(t) /\ Order(t)[r].key = t.slots[i].key
             /\ Order(u) = [Order(t) EXCEPT ![r].value = v]
<1> DEFINE L == Live(t)
           c == Cardinality(L)
           n == Len(t.slots)
           q == Rank(L, i)
           o == Order(t)
           p == Order(u)
           e(j) == [key |-> t.slots[Nth(L, j)].key, value |-> t.slots[Nth(L, j)].value]
           f(j) == [key |-> u.slots[Nth(L, j)].key, value |-> u.slots[Nth(L, j)].value]
<1>1. n \in Nat /\ L \in SUBSET (1 .. n) /\ i \in L
  BY Slots
<1>2. o = [j \in 1 .. c |-> e(j)]
  BY DEF Order
<1>3. p = [j \in 1 .. c |-> f(j)]
  BY DEF Order
<1> HIDE DEF L, n, o, p
<1>4. /\ c \in Nat
      /\ \A j \in 1 .. c : Nth(L, j) \in L /\ Rank(L, Nth(L, j)) = j
      /\ \A l \in L : Rank(L, l) \in 1 .. c /\ Nth(L, Rank(L, l)) = l
  BY <1>1, RankFacts, NthFacts
<1> HIDE DEF c
<1>5. q \in 1 .. c /\ Nth(L, q) = i
  BY <1>1, <1>4
<1>6. \A j \in 1 .. c : Nth(L, j) = i <=> j = q
  BY <1>4, <1>5
<1> HIDE DEF q
<1>7. \A j \in 1 .. c : f(j) = IF j = q THEN [e(j) EXCEPT !.value = v] ELSE e(j)
  <2> TAKE j \in 1 .. c
  <2>1. Nth(L, j) \in L
    BY <1>4
  <2>2. /\ u.slots[Nth(L, j)].key = t.slots[Nth(L, j)].key
        /\ u.slots[Nth(L, j)].value = IF j = q THEN v ELSE t.slots[Nth(L, j)].value
    BY <2>1, <1>6 DEF L
  <2> QED
    BY <2>2
<1> HIDE DEF e, f
<1>8. [o EXCEPT ![q].value = v] = [j \in 1 .. c |-> IF j = q THEN [e(j) EXCEPT !.value = v] ELSE e(j)]
  <2>1. [o EXCEPT ![q].value = v] = [o EXCEPT ![q] = [o[q] EXCEPT !.value = v]]
    OBVIOUS
  <2> DEFINE x == [o[q] EXCEPT !.value = v]
  <2>2. x = [e(q) EXCEPT !.value = v]
    BY <1>2, <1>5
  <2> HIDE DEF x
  <2>3. [o EXCEPT ![q] = x] = [j \in 1 .. c |-> IF j = q THEN x ELSE e(j)]
    BY <1>2
  <2> QED
    BY <2>1, <2>2, <2>3 DEF x
<1>9. p = [o EXCEPT ![q].value = v]
  BY <1>3, <1>7, <1>8
<1>10. q \in DOMAIN o /\ o[q].key = t.slots[i].key
  BY <1>2, <1>5 DEF e
<1> QED
  BY <1>9, <1>10 DEF o, p, q, L

-----------------------------------------------------------------------------
(* The properties move together.                                           *)

LEMMA CompactIsGood ==
  ASSUME PropTableAssumption, NEW t, NEW h \in HashFunction, Good(t, h)
  PROVE  LET u == js_compact_props(t, h)
         IN  Good(u, h) /\ Order(u) = Order(t)
<1> DEFINE n == Len(t.slots)
           c == t.count
           L == Live(t)
           M == t.hash_mask
           P == Pow2(get_prop_hash_size_log2(c)) - 1
           m == Min({M, P})
           sl == [j \in 1 .. c |-> t.slots[Nth(L, j)]]
           a == [count |-> c, hash_mask |-> m, heads |-> t.heads, slots |-> sl]
           u == js_compact_props(t, h)
<1>1. /\ n \in Nat /\ L \in SUBSET (1 .. n) /\ c \in Nat /\ M \in Nat
      /\ \A i \in L : t.slots[i] \in Slot /\ t.slots[i].key \in Key
      /\ c = Cardinality(L) /\ IsFiniteSet(L)
      /\ \A i, j \in L : t.slots[i].key = t.slots[j].key => i = j
  <2>1. n \in Nat /\ L \in SUBSET (1 .. n) /\ \A i \in L : t.slots[i] \in Slot /\ t.slots[i].key \in Key
    BY Slots DEF Good, Live
  <2> QED
    BY <2>1, RankFacts DEF Good, Array, Counted
<1>2. CASE c = 0
  <2>1. u = empty_props
    BY <1>2 DEF js_compact_props
  <2>2. L = {}
    BY <1>1, <1>2, FS_EmptySet
  <2>3. Good(empty_props, h) /\ Live(empty_props) = {}
    BY EmptyProps
  <2>4. Order(empty_props) = Order(t)
    BY <2>2, <2>3, SameOrder DEF Good
  <2> QED
    BY <2>1, <2>3, <2>4
<1>3. CASE c # 0 /\ Words(m, c) >= Size(t)
  BY <1>3 DEF js_compact_props
<1>4. CASE c # 0 /\ ~ (Words(m, c) >= Size(t))
  <2>1. u = js_rehash_props([t EXCEPT !.hash_mask = m, !.slots = sl], h)
    <3>1. Visited(t) = L
      BY VisitedAreLive DEF Good
    <3> HIDE DEF m
    <3> QED
      BY <1>4, <3>1 DEF js_compact_props, m
  <2>2. [t EXCEPT !.hash_mask = m, !.slots = sl] = a
    <3> DEFINE t1 == [t EXCEPT !.hash_mask = m]
    <3>1. Whole(t)
      BY DEF Good, Array
    <3> HIDE DEF m, sl
    <3>2. t1 = [count |-> t.count, hash_mask |-> m, heads |-> t.heads, slots |-> t.slots]
      BY <3>1, Parts
    <3>3. [t EXCEPT !.hash_mask = m, !.slots = sl] = [t1 EXCEPT !.slots = sl]
      OBVIOUS
    <3> HIDE DEF t1
    <3>4. Whole(t1) /\ t1.count = t.count /\ t1.hash_mask = m /\ t1.heads = t.heads
      BY <3>2 DEF Whole
    <3>5. [t1 EXCEPT !.slots = sl] = [count |-> t1.count, hash_mask |-> t1.hash_mask, heads |-> t1.heads, slots |-> sl]
      BY <3>4, Parts
    <3> QED
      BY <3>3, <3>4, <3>5
  <2>3. PICK lc \in 0 .. c : P = Pow2(lc) - 1
    BY <1>1, SizeLog2
  <2>4. PICK lm \in 0 .. n : M = Pow2(lm) - 1
    BY DEF Good, Masked
  <2>5. lc \in Nat /\ lm \in Nat /\ Pow2(lc) \in Nat /\ Pow2(lm) \in Nat
    <3>1. lc \in Nat /\ lm \in Nat
      BY <1>1
    <3> QED
      BY <3>1, Pow2Facts
  <2>6. m \in Nat /\ \E l \in 0 .. c : m = Pow2(l) - 1
    <3>1. P \in Int
      BY <2>3, <2>5
    <3> HIDE DEF P, M
    <3>2. m \in {M, P} /\ m <= M /\ m <= P
      <4>1. M <= P \/ P <= M
        BY <1>1, <3>1
      <4>2. \E x \in {M, P} : \A y \in {M, P} : x <= y
        BY <4>1, <1>1, <3>1
      <4>3. m \in {M, P} /\ \A y \in {M, P} : m <= y
        BY <4>2 DEF Min
      <4> QED
        BY <4>3
    <3> HIDE DEF m
    <3>3. CASE m = P
      <4>1. Pow2(lc) # 0
        BY <2>5, Pow2Facts
      <4> QED
        BY <2>3, <2>5, <3>3, <4>1
    <3>4. CASE m # P
      <4>1. m = M /\ M < P
        BY <1>1, <3>1, <3>2, <3>4
      <4>2. Pow2(lm) < Pow2(lc)
        BY <2>3, <2>4, <2>5, <4>1
      <4>3. ~ (lc < lm)
        <5>1. lc < lm => Pow2(lc) < Pow2(lm)
          BY <2>5, Pow2Grows
        <5> QED
          BY <2>5, <4>2, <5>1
      <4>4. lm \in 0 .. c
        BY <1>1, <2>5, <4>3
      <4> QED
        BY <1>1, <2>4, <4>1, <4>4
    <3> QED
      BY <3>3, <3>4
  <2>7. /\ \A j \in 1 .. c : Nth(L, j) \in L
        /\ \A r, s \in 1 .. c : r < s <=> Nth(L, r) < Nth(L, s)
    <3> HIDE DEF L, c, n
    <3> QED
      BY <1>1, NthFacts
  <2> HIDE DEF m, c, L, n, M, P
  <2>8. \A i, j \in 1 .. c : Nth(L, i) = Nth(L, j) => i = j
    <3> TAKE i, j \in 1 .. c
    <3>1. i < j \/ j < i \/ i = j
      BY <1>1
    <3>a. \A l \in L : l \in Int
      BY <1>1
    <3>2. Nth(L, i) \in Int /\ Nth(L, j) \in Int
      BY <2>7, <3>a
    <3> QED
      BY <2>7, <3>1, <3>2
  <2>9. /\ sl \in Seq(Slot) /\ Len(sl) = c /\ DOMAIN sl = 1 .. c
        /\ \A j \in 1 .. c : sl[j] = t.slots[Nth(L, j)] /\ sl[j].key \in Key
    <3>1. sl \in [1 .. c -> Slot] /\ \A j \in 1 .. c : sl[j] = t.slots[Nth(L, j)] /\ sl[j].key \in Key
      BY <1>1, <2>7
    <3> HIDE DEF sl
    <3> QED
      BY <1>1, <3>1
  <2> HIDE DEF sl
  <2>10. /\ a.count = c /\ a.hash_mask = m /\ a.slots = sl
         /\ a = [count |-> a.count, hash_mask |-> a.hash_mask, heads |-> a.heads, slots |-> a.slots]
    OBVIOUS
  <2> HIDE DEF a
  <2>11. Array(a)
    BY <1>1, <2>6, <2>9, <2>10 DEF Array, Whole
  <2>12. Live(a) = 1 .. c
    BY <2>9, <2>10 DEF Live
  <2>13. Counted(a)
    <3>1. Cardinality(1 .. c) = c
      BY <1>1, FS_Interval
    <3>2. \A i \in 1 .. c : a.slots[i].key # Undef
      BY <2>9, <2>10 DEF PropTableAssumption
    <3>3. \A i, j \in 1 .. c : a.slots[i].key = a.slots[j].key => i = j
      BY <1>1, <2>7, <2>8, <2>9, <2>10
    <3> QED
      BY <2>9, <2>10, <2>12, <3>1, <3>2, <3>3 DEF Counted
  <2>14. Masked(a)
    BY <2>6, <2>9, <2>10 DEF Masked
  <2>15. EndsFree(a)
    <3>1. c \in 1 .. c /\ c > 0
      BY <1>1, <1>4
    <3>2. \A i \in 1 .. c : a.slots[i].key # Uninit /\ a.slots[i].key # Undef /\ a.slots[i].key \in Key
      BY <2>9, <2>10 DEF PropTableAssumption
    <3>3. get_first_free(a) = c + 1
      BY <2>9, <2>10, <3>1, <3>2 DEF get_first_free
    <3>4. c + 1 \in 1 .. c + 1 /\ (c + 1) - 1 = c /\ (c + 1) .. c = {}
      BY <1>1
    <3> QED
      BY <2>9, <2>10, <3>1, <3>2, <3>3, <3>4 DEF EndsFree
  <2>16. u = js_rehash_props(a, h)
    BY <2>1, <2>2
  <2> HIDE DEF u
  <2>17. /\ Alike(a, u) /\ Array(u) /\ Counted(u) /\ Masked(u)
         /\ Pointing(u) /\ Linked(u, h)
    <3>1. \A i \in 1 .. Len(a.slots) : i \notin Live(a) => a.slots[i].next \in 0 .. Len(a.slots)
      BY <2>9, <2>10, <2>12
    <3> QED
      BY <3>1, <2>11, <2>13, <2>14, <2>16, Rehashed
  <2>18. EndsFree(u) /\ Live(u) = Live(a)
    BY <2>11, <2>15, <2>17, AlikeFacts
  <2>19. Order(u) = Order(a)
    <3>1. \A i \in Live(a) : u.slots[i].key = a.slots[i].key /\ u.slots[i].value = a.slots[i].value
      BY <2>9, <2>10, <2>12, <2>17 DEF Alike
    <3> QED
      BY <2>11, <2>18, <3>1, SameOrder
  <2>20. Order(a) = Order(t)
    <3>1. Cardinality(1 .. c) = c /\ \A j \in 1 .. c : Nth(1 .. c, j) = j
      BY <1>1, NthOfAll
    <3>2. Order(a) = [j \in 1 .. c |-> [key |-> a.slots[Nth(1 .. c, j)].key, value |-> a.slots[Nth(1 .. c, j)].value]]
      BY <2>12, <3>1 DEF Order
    <3>3. Order(t) = [j \in 1 .. c |-> [key |-> t.slots[Nth(L, j)].key, value |-> t.slots[Nth(L, j)].value]]
      BY <1>1 DEF Order, L
    <3>4. \A j \in 1 .. c : a.slots[Nth(1 .. c, j)] = t.slots[Nth(L, j)]
      BY <2>9, <2>10, <3>1
    <3> QED
      BY <3>2, <3>3, <3>4
  <2> QED
    BY <2>17, <2>18, <2>19, <2>20 DEF Good, u
<1> QED
  BY <1>2, <1>3, <1>4

-----------------------------------------------------------------------------
(* A deletion.                                                             *)

\* u is t with slot i written: y.
Wrote(t, u, i, y) ==
  /\ Array(u) /\ Len(u.slots) = Len(t.slots)
  /\ u.count = t.count /\ u.hash_mask = t.hash_mask /\ u.heads = t.heads
  /\ \A j \in 1 .. Len(t.slots) : j # i => u.slots[j] = t.slots[j]
  /\ u.slots[i] = y

LEMMA SlotPart ==
  ASSUME PropTableAssumption, NEW t, Array(t), NEW i \in 1 .. Len(t.slots), NEW x
  PROVE  /\ x \in Key \cup {Uninit, Undef} =>
              Wrote(t, [t EXCEPT !.slots[i].key = x], i, [t.slots[i] EXCEPT !.key = x])
         /\ x \in PropVal \cup {Undef} =>
              Wrote(t, [t EXCEPT !.slots[i].value = x], i, [t.slots[i] EXCEPT !.value = x])
         /\ x \in Nat =>
              Wrote(t, [t EXCEPT !.slots[i].next = x], i, [t.slots[i] EXCEPT !.next = x])
<1>1. t.slots[i] \in Slot
  BY Slots
<1>2. ASSUME NEW y \in Slot
      PROVE  Wrote(t, [t EXCEPT !.slots = [t.slots EXCEPT ![i] = y]], i, y)
  <2> DEFINE s == [t.slots EXCEPT ![i] = y]
             u == [t EXCEPT !.slots = s]
  <2>1. /\ s \in Seq(Slot) /\ Len(s) = Len(t.slots)
        /\ s[i] = y
        /\ \A j \in 1 .. Len(t.slots) : j # i => s[j] = t.slots[j]
    BY SlotWritten
  <2> HIDE DEF s
  <2>3. u = [count |-> t.count, hash_mask |-> t.hash_mask, heads |-> t.heads, slots |-> s]
    BY Parts DEF Array
  <2> HIDE DEF u
  <2>4. /\ u.count = t.count /\ u.hash_mask = t.hash_mask /\ u.heads = t.heads /\ u.slots = s
        /\ Whole(u)
    BY <2>3 DEF Whole
  <2>5. Array(u)
    BY <2>1, <2>4 DEF Array
  <2>6. Wrote(t, u, i, y)
    BY <2>1, <2>4, <2>5 DEF Wrote
  <2> QED
    BY <2>6 DEF u, s
<1>3. /\ [t EXCEPT !.slots[i].next = x]
           = [t EXCEPT !.slots = [t.slots EXCEPT ![i] = [t.slots[i] EXCEPT !.next = x]]]
      /\ [t EXCEPT !.slots[i].value = x]
           = [t EXCEPT !.slots = [t.slots EXCEPT ![i] = [t.slots[i] EXCEPT !.value = x]]]
      /\ [t EXCEPT !.slots[i].key = x]
           = [t EXCEPT !.slots = [t.slots EXCEPT ![i] = [t.slots[i] EXCEPT !.key = x]]]
  BY PartsAt
<1> DEFINE a == [t.slots[i] EXCEPT !.key = x]
           b == [t.slots[i] EXCEPT !.value = x]
           c == [t.slots[i] EXCEPT !.next = x]
<1>4. /\ x \in Key \cup {Uninit, Undef} => a \in Slot
      /\ x \in PropVal \cup {Undef} => b \in Slot
      /\ x \in Nat => c \in Slot
  BY <1>1 DEF Slot
<1>5. /\ [t EXCEPT !.slots[i].key = x] = [t EXCEPT !.slots = [t.slots EXCEPT ![i] = a]]
      /\ [t EXCEPT !.slots[i].value = x] = [t EXCEPT !.slots = [t.slots EXCEPT ![i] = b]]
      /\ [t EXCEPT !.slots[i].next = x] = [t EXCEPT !.slots = [t.slots EXCEPT ![i] = c]]
  BY <1>3
<1> HIDE DEF a, b, c
<1>6. /\ x \in Key \cup {Uninit, Undef} => Wrote(t, [t EXCEPT !.slots[i].key = x], i, a)
      /\ x \in PropVal \cup {Undef} => Wrote(t, [t EXCEPT !.slots[i].value = x], i, b)
      /\ x \in Nat => Wrote(t, [t EXCEPT !.slots[i].next = x], i, c)
  BY <1>2, <1>4, <1>5
<1> QED
  BY <1>6 DEF a, b, c

\* A slot is the link of one slot at most, and not when it is the head of its chain.
LEMMA OneLink ==
  ASSUME PropTableAssumption, NEW t, NEW h \in HashFunction, Array(t), Linked(t, h), NEW i \in Live(t)
  PROVE  /\ \A j, p \in Live(t) : t.slots[j].next = i /\ t.slots[p].next = i => j = p
         /\ \A c \in 0 .. t.hash_mask : t.heads[c] = i =>
              c = Bucket(t, h, t.slots[i].key) /\ \A j \in Live(t) : t.slots[j].next # i
<1> DEFINE n == Len(t.slots)
           L == Live(t)
           B(j) == Bucket(t, h, t.slots[j].key)
<1>1. n \in Nat /\ L \in SUBSET (1 .. n) /\ i \in L /\ \A j \in L : j \in Int /\ j # 0
  BY Slots
<1>2. ASSUME NEW j \in L, t.slots[j].next = i
      PROVE  B(j) = B(i) /\ i < j /\ \A p \in L : B(p) = B(j) /\ p < j => p <= i
  <2>1. i = LastBefore(t, h, L, B(j), j)
    BY <1>2 DEF Linked
  <2>2. /\ LastBefore(t, h, L, B(j), j) # 0 =>
             LastBefore(t, h, L, B(j), j) \in Earlier(t, h, L, B(j), j)
        /\ \A p \in Earlier(t, h, L, B(j), j) : p <= LastBefore(t, h, L, B(j), j)
    <3> HIDE DEF L, B
    <3> QED
      BY <1>1, LastBeforeFacts DEF L
  <2> QED
    BY <1>1, <2>1, <2>2 DEF Earlier
<1>3. \A j, p \in L : t.slots[j].next = i /\ t.slots[p].next = i => j = p
  <2> HIDE DEF L, B
  <2> TAKE j, p \in L
  <2> HAVE t.slots[j].next = i /\ t.slots[p].next = i
  <2>1. B(j) = B(p) /\ i < j /\ i < p /\ (p < j => p <= i) /\ (j < p => j <= i)
    BY <1>2
  <2>2. i \in Int /\ j \in Int /\ p \in Int
    BY <1>1
  <2> QED
    BY <2>1, <2>2
<1>4. ASSUME NEW c \in 0 .. t.hash_mask, t.heads[c] = i
      PROVE  c = B(i) /\ \A j \in L : t.slots[j].next # i
  <2>1. i = LastBefore(t, h, L, c, n + 1)
    BY <1>4 DEF Linked
  <2>2. /\ LastBefore(t, h, L, c, n + 1) # 0 =>
             LastBefore(t, h, L, c, n + 1) \in Earlier(t, h, L, c, n + 1)
        /\ \A p \in Earlier(t, h, L, c, n + 1) : p <= LastBefore(t, h, L, c, n + 1)
    <3> HIDE DEF L, n
    <3> QED
      BY <1>1, LastBeforeFacts DEF L, n
  <2>3. c = B(i)
    BY <1>1, <2>1, <2>2 DEF Earlier
  <2>4. \A j \in L : B(j) = c => j <= i
    <3>1. \A j \in L : j < n + 1
      BY <1>1
    <3> QED
      BY <2>1, <2>2, <3>1 DEF Earlier
  <2>5. ASSUME NEW j \in L, t.slots[j].next = i
        PROVE  FALSE
    <3>1. B(j) = c /\ i < j
      BY <1>2, <2>3, <2>5
    <3>2. j <= i
      BY <2>4, <3>1
    <3> HIDE DEF L
    <3> QED
      BY <1>1, <3>1, <3>2
  <2> QED
    BY <2>3, <2>5
<1> QED
  BY <1>3, <1>4

\* The first step of Removed: the property leaves its chain.
Cut(t, b, at, d, i) ==
  IF d = 0 THEN [t EXCEPT !.heads[b] = t.slots[i].next]
  ELSE [t EXCEPT !.slots[at[d - 1]].next = t.slots[i].next]

LEMMA CutFacts ==
  ASSUME PropTableAssumption, NEW t, NEW h \in HashFunction, NEW b \in 0 .. t.hash_mask,
         NEW d \in 0 .. Len(t.slots), Good(t, h),
         ChainFrom(t, b)[d] \in Live(t)
  PROVE  LET i == ChainFrom(t, b)[d]
             u == Cut(t, b, ChainFrom(t, b), d, i)
         IN  /\ Array(u) /\ Len(u.slots) = Len(t.slots) /\ u.count = t.count /\ u.hash_mask = t.hash_mask
             /\ \A j \in 1 .. Len(t.slots) :
                  u.slots[j].key = t.slots[j].key /\ u.slots[j].value = t.slots[j].value
             /\ Pointing(u) /\ LinkedOver(t, h, u, i)
<1> DEFINE at == ChainFrom(t, b)
           i == at[d]
           n == Len(t.slots)
           m == t.hash_mask
           L == Live(t)
           z == t.slots[i].next
           u == Cut(t, b, at, d, i)
<1>1. /\ n \in Nat /\ L \in SUBSET (1 .. n) /\ i \in L /\ i \in 1 .. n /\ i # 0
      /\ DOMAIN t.slots = 1 .. n /\ \A j \in 1 .. n : t.slots[j] \in Slot
  BY Slots DEF Good
<1>2. /\ at[0] = t.heads[b]
      /\ \A e \in 0 .. n : at[e] # 0 => at[e] \in InBucket(t, h, b)
      /\ \A e \in 1 .. n : at[e] # 0 => at[e - 1] # 0 /\ at[e] = t.slots[at[e - 1]].next
      /\ \A e, f \in 0 .. n : e < f /\ at[e] # 0 => at[f] < at[e]
  BY ChainIsExact DEF Good
<1>3. /\ t.heads \in [0 .. m -> 0 .. n]
      /\ \A j \in 1 .. n : t.slots[j].next \in 0 .. n
      /\ z \in 0 .. n /\ z \in Nat
  BY <1>1 DEF Good, Pointing
<1>4. /\ \A j, p \in L : t.slots[j].next = i /\ t.slots[p].next = i => j = p
      /\ \A c \in 0 .. m : t.heads[c] = i =>
           c = Bucket(t, h, t.slots[i].key) /\ \A j \in L : t.slots[j].next # i
  <2> HIDE DEF L, at
  <2> QED
    BY <1>1, OneLink DEF Good, L
<1>5. Bucket(t, h, t.slots[i].key) = b
  <2> HIDE DEF at
  <2> QED
    BY <1>1, <1>2 DEF InBucket
<1>6. CASE d = 0
  <2>1. i = t.heads[b]
    BY <1>2, <1>6
  <2> DEFINE hd == [t.heads EXCEPT ![b] = z]
  <2>2. hd \in [0 .. m -> 0 .. n] /\ \A c \in 0 .. m : hd[c] = IF c = b THEN z ELSE t.heads[c]
    BY <1>3
  <2>3. u = [t EXCEPT !.heads = hd]
    <3>1. u = [t EXCEPT !.heads[b] = z]
      BY <1>6 DEF Cut
    <3> QED
      BY <3>1, PartsAt
  <2> HIDE DEF hd, u, z, i
  <2>4. u = [count |-> t.count, hash_mask |-> t.hash_mask, heads |-> hd, slots |-> t.slots]
    BY <2>3, Parts DEF Good, Array
  <2>5. /\ u.count = t.count /\ u.hash_mask = t.hash_mask /\ u.heads = hd /\ u.slots = t.slots /\ Whole(u)
    BY <2>4 DEF Whole
  <2>6. Array(u)
    BY <2>5 DEF Good, Array
  <2>7. Pointing(u)
    BY <2>2, <2>5, <1>1, <1>3 DEF Pointing
  <2>8. \A c \in 0 .. m : t.heads[c] = i <=> c = b
    BY <2>1, <1>4, <1>5
  <2>9. \A j \in L : t.slots[j].next # i
    BY <2>1, <1>4
  <2>10. LinkedOver(t, h, u, i)
    BY <2>2, <2>5, <2>8, <2>9 DEF LinkedOver, z
  <2>11. /\ Array(u) /\ Len(u.slots) = n /\ u.count = t.count /\ u.hash_mask = t.hash_mask
         /\ \A j \in 1 .. n : u.slots[j].key = t.slots[j].key /\ u.slots[j].value = t.slots[j].value
         /\ Pointing(u) /\ LinkedOver(t, h, u, i)
    BY <2>5, <2>6, <2>7, <2>10
  <2> QED
    BY <2>11 DEF u, i
<1>7. CASE d # 0
  <2> DEFINE p == at[d - 1]
             y == [t.slots[p] EXCEPT !.next = z]
  <2>1. d \in 1 .. n /\ d - 1 \in 0 .. n /\ 0 \in 0 .. n /\ 0 < d
    BY <1>1, <1>7
  <2>2. p \in L /\ t.slots[p].next = i
    <3> HIDE DEF at
    <3> QED
      BY <1>1, <1>2, <2>1 DEF InBucket
  <2>3. p \in 1 .. n
    BY <1>1, <2>2
  <2>4. Wrote(t, u, p, y)
    <3>1. u = [t EXCEPT !.slots[p].next = z]
      BY <1>7 DEF Cut
    <3> HIDE DEF u, p, z
    <3> QED
      BY <3>1, <2>3, <1>3, SlotPart DEF Good
  <2>5. t.heads[b] # i
    <3>1. at[0] # 0 => i < at[0]
      <4> HIDE DEF at
      <4> QED
        BY <1>2, <2>1
    <3>2. i \in Int
      BY <1>1
    <3> HIDE DEF i
    <3> QED
      BY <1>1, <1>2, <3>1, <3>2
  <2> HIDE DEF u, z, i, p
  <2>6. /\ y.key = t.slots[p].key /\ y.value = t.slots[p].value /\ y.next = z
    BY <1>1, <2>3 DEF Slot
  <2> HIDE DEF y
  <2>7. /\ Array(u) /\ Len(u.slots) = n /\ u.count = t.count /\ u.hash_mask = m /\ u.heads = t.heads
        /\ \A j \in 1 .. n : j # p => u.slots[j] = t.slots[j]
        /\ u.slots[p] = y
    BY <2>4 DEF Wrote
  <2>8. \A j \in 1 .. n : u.slots[j].key = t.slots[j].key /\ u.slots[j].value = t.slots[j].value
    BY <2>6, <2>7
  <2>9. \A j \in 1 .. n : u.slots[j].next = IF j = p THEN z ELSE t.slots[j].next
    BY <2>6, <2>7
  <2>10. Pointing(u)
    <3>1. DOMAIN u.slots = 1 .. n
      BY <2>7, Slots
    <3> QED
      BY <3>1, <2>7, <2>9, <1>3 DEF Pointing
  <2>11. \A c \in 0 .. m : t.heads[c] # i
    BY <2>5, <1>4, <1>5
  <2>12. \A j \in L : t.slots[j].next = i <=> j = p
    BY <2>2, <1>4
  <2>13. \A j \in L : j \in 1 .. n
    BY <1>1
  <2>14. LinkedOver(t, h, u, i)
    BY <2>7, <2>9, <2>11, <2>12, <2>13 DEF LinkedOver, z
  <2>15. /\ Array(u) /\ Len(u.slots) = n /\ u.count = t.count /\ u.hash_mask = t.hash_mask
         /\ \A j \in 1 .. n : u.slots[j].key = t.slots[j].key /\ u.slots[j].value = t.slots[j].value
         /\ Pointing(u) /\ LinkedOver(t, h, u, i)
    BY <2>7, <2>8, <2>10, <2>14
  <2> QED
    BY <2>15 DEF u, i
<1> QED
  BY <1>6, <1>7

\* The second step of Removed: the slot becomes a hole.
Hole(t, i) == [t EXCEPT !.count = @ - 1, !.slots[i].key = Uninit, !.slots[i].value = Undef]

LEMMA HoleFacts ==
  ASSUME PropTableAssumption, NEW t, Array(t), NEW i \in 1 .. Len(t.slots), t.count - 1 \in Nat
  PROVE  LET u == Hole(t, i)
         IN  /\ Array(u) /\ Len(u.slots) = Len(t.slots)
             /\ u.count = t.count - 1 /\ u.hash_mask = t.hash_mask /\ u.heads = t.heads
             /\ \A j \in 1 .. Len(t.slots) : j # i => u.slots[j] = t.slots[j]
             /\ u.slots[i].key = Uninit /\ u.slots[i].next = t.slots[i].next
<1> DEFINE c == t.count - 1
           a == [t EXCEPT !.count = c]
           b == [a EXCEPT !.slots[i].key = Uninit]
           u == [b EXCEPT !.slots[i].value = Undef]
<1>1. Hole(t, i) = u
  BY DEF Hole
<1> HIDE DEF u, b, c
<1>2. a = [count |-> c, hash_mask |-> t.hash_mask, heads |-> t.heads, slots |-> t.slots]
  BY Parts DEF Array
<1> HIDE DEF a
<1>3. /\ a.count = c /\ a.hash_mask = t.hash_mask /\ a.heads = t.heads /\ a.slots = t.slots
      /\ Whole(a)
  BY <1>2 DEF Whole
<1>4. Array(a)
  BY <1>3 DEF Array, c
<1>5. Wrote(a, b, i, [a.slots[i] EXCEPT !.key = Uninit])
  BY <1>3, <1>4, SlotPart DEF b
<1> DEFINE y == [a.slots[i] EXCEPT !.key = Uninit]
           z == [b.slots[i] EXCEPT !.value = Undef]
<1>6. /\ Array(b) /\ Len(b.slots) = Len(t.slots)
      /\ b.count = c /\ b.hash_mask = t.hash_mask /\ b.heads = t.heads
      /\ \A j \in 1 .. Len(t.slots) : j # i => b.slots[j] = t.slots[j]
      /\ b.slots[i] = y
  BY <1>3, <1>5 DEF Wrote
<1>7. Wrote(b, u, i, z)
  BY <1>6, SlotPart DEF u
<1>8. y.key = Uninit /\ y.next = t.slots[i].next
  <2>1. t.slots[i] \in Slot /\ a.slots[i] = t.slots[i]
    BY <1>3, Slots
  <2> QED
    BY <2>1 DEF Slot
<1> HIDE DEF y
<1>9. z.key = Uninit /\ z.next = t.slots[i].next
  <2>1. b.slots[i] \in Slot
    BY <1>6, Slots
  <2> QED
    BY <2>1, <1>6, <1>8 DEF Slot
<1> HIDE DEF z
<1>10. /\ Array(u) /\ Len(u.slots) = Len(t.slots)
       /\ u.count = c /\ u.hash_mask = t.hash_mask /\ u.heads = t.heads
       /\ \A j \in 1 .. Len(t.slots) : j # i => u.slots[j] = t.slots[j]
       /\ u.slots[i].key = Uninit /\ u.slots[i].next = t.slots[i].next
  BY <1>6, <1>7, <1>9 DEF Wrote
<1> QED
  BY <1>1, <1>10 DEF c

\* The hole is good once the place where the free slots begin is written.
LEMMA LoweredIsGood ==
  ASSUME PropTableAssumption, NEW t, NEW h \in HashFunction, Good(t, h), NEW i \in Live(t), NEW a,
         Array(a), Len(a.slots) = Len(t.slots), a.count = t.count, a.hash_mask = t.hash_mask,
         \A j \in 1 .. Len(t.slots) :
           a.slots[j].key = t.slots[j].key /\ a.slots[j].value = t.slots[j].value,
         Pointing(a), LinkedOver(t, h, a, i)
  PROVE  LET u == WithFirstFree(Hole(a, i), Lowered(Hole(a, i), get_first_free(t)))
         IN  Good(u, h) /\ Deleted(t, u, i)
<1> DEFINE n == Len(t.slots)
           L == Live(t)
           M == L \ {i}
           e == get_first_free(t)
           o == Hole(a, i)
           g == Lowered(o, e)
           u == WithFirstFree(o, g)
<1>1. /\ n \in Nat /\ DOMAIN t.slots = 1 .. n /\ L \in SUBSET (1 .. n) /\ M \in SUBSET (1 .. n)
      /\ i \in L /\ i \in 1 .. n
      /\ \A j \in 1 .. n : t.slots[j] \in Slot
  BY Slots DEF Good
<1>2. /\ t.count = Cardinality(L) /\ IsFiniteSet(L) /\ t.count - 1 \in Nat /\ Cardinality(M) = t.count - 1
      /\ \A j, l \in L : t.slots[j].key = t.slots[l].key => j = l
      /\ \A j \in L : \A l \in 1 .. n : t.slots[l].key = Undef => j < l
  <2>1. t.count = Cardinality(L) /\ IsFiniteSet(L) /\ t.count \in Nat
    BY <1>1, RankFacts DEF Good, Counted
  <2>2. Cardinality(M) = Cardinality(L) - 1 /\ IsFiniteSet(M)
    BY <1>1, <2>1, FS_RemoveElement
  <2>3. Cardinality(M) \in Nat
    BY <2>2, FS_CardinalityType
  <2> QED
    BY <1>1, <2>1, <2>2, <2>3 DEF Good, Counted
<1>3. /\ e \in 1 .. n + 1 /\ e = get_first_free(t)
      /\ \A j \in e .. n : t.slots[j].key \notin Key
      /\ \A j \in 1 .. e - 1 : t.slots[j].key # Undef
      /\ e > 1 => t.slots[e - 1].key \in Key
  BY DEF Good, EndsFree
<1> HIDE DEF n, o, e
<1>4. /\ Array(o) /\ Len(o.slots) = n
      /\ o.count = t.count - 1 /\ o.hash_mask = t.hash_mask /\ o.heads = a.heads
      /\ \A j \in 1 .. n : j # i => o.slots[j] = a.slots[j]
      /\ o.slots[i].key = Uninit /\ o.slots[i].next = a.slots[i].next
  BY <1>1, <1>2, HoleFacts DEF o, n
<1>5. L \in SUBSET (1 .. e - 1)
  <2>1. ASSUME NEW j \in L
        PROVE  j \in 1 .. e - 1
    <3>1. j \in 1 .. n /\ t.slots[j].key \in Key
      BY <1>1 DEF Live
    <3>2. j \notin e .. n
      BY <1>3, <3>1
    <3> QED
      BY <1>1, <1>3, <3>1, <3>2
  <2> QED
    BY <2>1
<1>6. \A j \in 1 .. n : j # i => o.slots[j].key = t.slots[j].key /\ o.slots[j].value = t.slots[j].value
  BY <1>4 DEF n
<1>7. {j \in 1 .. e - 1 : o.slots[j].key # Uninit} = M
  <2>1. ASSUME NEW j \in 1 .. e - 1, o.slots[j].key # Uninit
        PROVE  j \in L /\ j # i
    <3>1. j \in 1 .. n /\ j # i
      BY <1>1, <1>3, <1>4, <2>1
    <3>2. t.slots[j].key # Uninit /\ t.slots[j].key # Undef /\ t.slots[j].key \in Key \cup {Uninit, Undef}
      BY <1>1, <1>3, <1>6, <2>1, <3>1 DEF Slot
    <3> QED
      BY <1>1, <3>1, <3>2 DEF Live
  <2>2. ASSUME NEW j \in M
        PROVE  o.slots[j].key # Uninit
    BY <1>1, <1>6, Slots DEF Good
  <2> QED
    BY <1>5, <2>1, <2>2
<1> DEFINE l == LastIn(M)
<1>8. g = l + 1
  <2>1. g = IF M = {} THEN 1 ELSE Max(M) + 1
    <3> HIDE DEF M
    <3> QED
      BY <1>7 DEF Lowered
  <2>2. l = IF M = {} THEN 0 ELSE Max(M)
    BY DEF LastIn
  <2> QED
    BY <2>1, <2>2
<1> HIDE DEF g, l
<1>9. /\ l \in 0 .. n
      /\ M # {} => l \in M
      /\ M = {} => l = 0
      /\ \A j \in M : j <= l
  <2> HIDE DEF M
  <2> QED
    BY <1>1, LastInFacts DEF l
<1>10. g \in Nat /\ g \in 1 .. n + 1
  BY <1>1, <1>8, <1>9
<1>11. /\ Array(u) /\ Len(u.slots) = n
       /\ u.count = t.count - 1 /\ u.hash_mask = t.hash_mask /\ u.heads = a.heads
       /\ \A j \in 1 .. n :
            /\ u.slots[j].key = o.slots[j].key /\ u.slots[j].value = o.slots[j].value
            /\ u.slots[j].next = IF j = n /\ g <= n THEN g ELSE o.slots[j].next
  BY <1>4, <1>10, FirstFreeWritten
<1> HIDE DEF u
<1>12. DOMAIN u.slots = 1 .. n
  BY <1>11, Slots
<1>13. /\ u.slots[i].key = Uninit
       /\ \A j \in 1 .. n : j # i => u.slots[j].key = t.slots[j].key /\ u.slots[j].value = t.slots[j].value
  BY <1>1, <1>4, <1>6, <1>11
<1>14. Live(u) = M
  <2>1. u.slots[i].key \notin Key
    BY <1>13 DEF PropTableAssumption
  <2> QED
    BY <1>1, <1>12, <1>13, <2>1 DEF Live
<1>15. Deleted(t, u, i)
  BY <1>1, <1>13, <1>14 DEF Deleted
<1>16. \A j \in M : u.slots[j].next = a.slots[j].next
  <2> TAKE j \in M
  <2>1. j \in 1 .. n /\ j # i
    BY <1>1
  <2>2. ~ (j = n /\ g <= n)
    <3>1. j <= l /\ j \in Int
      BY <1>9, <2>1
    <3> QED
      BY <1>1, <1>8, <1>9, <3>1
  <2> QED
    BY <2>1, <2>2, <1>4, <1>11
<1>17. LinkedOver(t, h, u, i)
  BY <1>11, <1>16 DEF LinkedOver
<1>18. Linked(u, h)
  BY <1>11, <1>15, <1>17, UnlinkedIsLinked DEF Good, n
<1>19. \A j \in 1 .. n : u.slots[j].key = Undef => t.slots[j].key = Undef /\ j # i
  BY <1>13 DEF PropTableAssumption
<1>20. Counted(u)
  <2>1. \A j, p \in M : u.slots[j].key = u.slots[p].key => j = p
    BY <1>1, <1>2, <1>13
  <2>2. \A j \in M : \A p \in 1 .. n : u.slots[p].key = Undef => j < p
    BY <1>2, <1>19
  <2> HIDE DEF M
  <2> QED
    BY <1>2, <1>11, <1>12, <1>14, <2>1, <2>2 DEF Counted
<1>21. Masked(u)
  BY <1>11 DEF Good, Masked, n
<1>22. Pointing(u)
  <2>1. ASSUME NEW j \in 1 .. n
        PROVE  u.slots[j].next \in 0 .. n
    <3>1. a.slots[j].next \in 0 .. n
      <4>1. DOMAIN a.slots = 1 .. n
        BY Slots DEF n
      <4> QED
        BY <4>1 DEF Pointing, n
    <3>2. o.slots[j].next = a.slots[j].next
      BY <1>4
    <3>3. g <= n => g \in 0 .. n
      BY <1>1, <1>10
    <3> QED
      BY <1>11, <3>1, <3>2, <3>3
  <2>2. a.heads \in [0 .. t.hash_mask -> 0 .. n]
    BY DEF Pointing, n
  <2> QED
    BY <1>11, <1>12, <2>1, <2>2 DEF Pointing
<1>23. get_first_free(u) = g
  <2>1. n \in 1 .. n /\ n > 0
    BY <1>1
  <2>2. CASE u.slots[n].key = Uninit
    <3>1. n \notin M
      BY <2>2, <1>14, <1>11, Slots
    <3>2. g <= n
      <4>1. l # n
        <5>1. l \in M \/ l = 0
          BY <1>9
        <5> QED
          BY <2>1, <3>1, <5>1
      <4> QED
        BY <1>1, <1>8, <1>9, <4>1
    <3> QED
      BY <1>11, <2>1, <2>2, <3>2 DEF get_first_free
  <2>3. CASE u.slots[n].key # Uninit
    <3>1. n # i /\ t.slots[n].key # Uninit
      BY <1>13, <2>1, <2>3
    <3>2. e = n + 1
      BY <3>1, <2>1 DEF get_first_free, e, n
    <3>3. t.slots[n].key \in Key
      <4>1. (n + 1) - 1 = n /\ n + 1 > 1
        BY <2>1, <1>1
      <4> QED
        BY <1>3, <3>2, <4>1
    <3>4. n \in M
      BY <1>1, <2>1, <3>1, <3>3 DEF Live
    <3>5. l = n
      BY <1>1, <1>9, <3>4
    <3> QED
      BY <1>8, <1>11, <2>3, <3>5 DEF get_first_free
  <2> QED
    BY <2>2, <2>3
<1>24. EndsFree(u)
  <2>1. ASSUME NEW j \in g .. n
        PROVE  u.slots[j].key \notin Key
    <3>1. j \in 1 .. n /\ ~ (j <= l)
      BY <1>1, <1>8, <1>9, <1>10
    <3>2. j \notin Live(u)
      BY <1>9, <1>14, <3>1
    <3> QED
      BY <1>12, <3>1, <3>2 DEF Live
  <2>2. ASSUME NEW j \in 1 .. g - 1, u.slots[j].key = Undef
        PROVE  FALSE
    <3>1. j \in 1 .. n /\ j <= l /\ l # 0
      BY <1>1, <1>8, <1>9, <1>10
    <3>2. l \in M
      BY <1>9, <3>1
    <3>3. l < j
      BY <1>2, <1>19, <2>2, <3>1, <3>2
    <3> QED
      BY <1>1, <1>9, <3>1, <3>3
  <2>3. g > 1 => u.slots[g - 1].key \in Key
    <3> SUFFICES ASSUME g > 1
                 PROVE  u.slots[g - 1].key \in Key
      OBVIOUS
    <3>1. g - 1 = l /\ l # 0
      BY <1>8, <1>9
    <3>2. l \in Live(u)
      BY <1>9, <1>14, <3>1
    <3> QED
      BY <3>1, <3>2 DEF Live
  <2>4. /\ g \in 1 .. n + 1
        /\ \A j \in g .. n : u.slots[j].key \notin Key
        /\ \A j \in 1 .. g - 1 : u.slots[j].key # Undef
        /\ g > 1 => u.slots[g - 1].key \in Key
    BY <1>10, <2>1, <2>2, <2>3
  <2> QED
    BY <1>11, <1>23, <2>4 DEF EndsFree
<1>25. Good(u, h) /\ Deleted(t, u, i)
  BY <1>11, <1>15, <1>18, <1>20, <1>21, <1>22, <1>24 DEF Good
<1> QED
  BY <1>25 DEF u, o, g, e

LEMMA RemovedIsGood ==
  ASSUME PropTableAssumption, NEW t, NEW h \in HashFunction, NEW k \in Key, Good(t, h),
         Distance(t, h, k) # -1
  PROVE  LET u == Removed(t, h, k, Distance(t, h, k))
             i == find_own_property(t, h, k)
             r == Rank(Live(t), i)
         IN  /\ Good(u, h)
             /\ i \in Live(t)
             /\ r \in DOMAIN Order(t) /\ Order(t)[r].key = k
             /\ Order(u) = SubSeq(Order(t), 1, r - 1) \o SubSeq(Order(t), r + 1, Len(Order(t)))
             /\ PropKeys(u) \subseteq PropKeys(t)
<1> DEFINE n == Len(t.slots)
           b == Bucket(t, h, k)
           at == ChainFrom(t, b)
           d == Distance(t, h, k)
           i == at[d]
           a == Cut(t, b, at, d, i)
           w == WithFirstFree(Hole(a, i), Lowered(Hole(a, i), get_first_free(t)))
           u == Removed(t, h, k, d)
           r == Rank(Live(t), i)
<1>1. d \in 0 .. n /\ i \in Live(t) /\ t.slots[i].key = k /\ find_own_property(t, h, k) = i
  BY FindFacts
<1>2. b \in 0 .. t.hash_mask
  BY BucketType DEF Good, Array
<1>3. u = IF Words(t.hash_mask, t.count) < Size(t) \div 2 THEN js_compact_props(w, h) ELSE w
  BY DEF Removed, Cut, Hole
<1> HIDE DEF d, b
<1>4. /\ Array(a) /\ Len(a.slots) = Len(t.slots) /\ a.count = t.count /\ a.hash_mask = t.hash_mask
      /\ \A j \in 1 .. Len(t.slots) :
           a.slots[j].key = t.slots[j].key /\ a.slots[j].value = t.slots[j].value
      /\ Pointing(a) /\ LinkedOver(t, h, a, i)
  BY <1>1, <1>2, CutFacts
<1> HIDE DEF a, i, at, u
<1>5. Good(w, h) /\ Deleted(t, w, i)
  BY <1>1, <1>4, LoweredIsGood
<1> HIDE DEF w
<1>6. /\ r \in DOMAIN Order(t) /\ Order(t)[r].key = t.slots[i].key
      /\ Order(w) = SubSeq(Order(t), 1, r - 1) \o SubSeq(Order(t), r + 1, Len(Order(t)))
  BY <1>1, <1>5, OrderDeleted DEF Good
<1>7. Good(u, h) /\ Order(u) = Order(w)
  <2>1. Good(js_compact_props(w, h), h) /\ Order(js_compact_props(w, h)) = Order(w)
    BY <1>5, CompactIsGood
  <2> QED
    BY <1>3, <1>5, <2>1
<1>8. PropKeys(u) \subseteq PropKeys(t)
  <2>1. PropKeys(u) = PropKeys(w)
    BY <1>5, <1>7, OrderKeys DEF Good
  <2>2. PropKeys(w) \subseteq PropKeys(t)
    BY <1>5 DEF Deleted, PropKeys
  <2> QED
    BY <2>1, <2>2
<1> QED
  BY <1>1, <1>6, <1>7, <1>8 DEF u, d

\* Setting a property changes its value only.
LEMMA SetIsGood ==
  ASSUME PropTableAssumption, NEW t, NEW h \in HashFunction, NEW k \in Key, NEW v \in PropVal, Good(t, h),
         find_own_property(t, h, k) # 0
  PROVE  LET i == find_own_property(t, h, k)
             u == [t EXCEPT !.slots[i].value = v]
             r == Rank(Live(t), i)
         IN  /\ Good(u, h)
             /\ r \in DOMAIN Order(t) /\ Order(t)[r].key = k
             /\ Order(u) = [Order(t) EXCEPT ![r].value = v]
             /\ PropKeys(u) = PropKeys(t)
<1> DEFINE i == find_own_property(t, h, k)
           n == Len(t.slots)
           u == [t EXCEPT !.slots[i].value = v]
           y == [t.slots[i] EXCEPT !.value = v]
           r == Rank(Live(t), i)
<1>1. i \in Live(t) /\ t.slots[i].key = k
  BY FindFacts
<1> HIDE DEF i
<1>2. /\ n \in Nat /\ DOMAIN t.slots = 1 .. n /\ i \in 1 .. n /\ t.slots[i] \in Slot
      /\ Live(t) \in SUBSET (1 .. n)
  BY <1>1, Slots DEF Good
<1>3. Wrote(t, u, i, y)
  BY <1>2, SlotPart DEF Good
<1>4. y.key = t.slots[i].key /\ y.value = v /\ y.next = t.slots[i].next
  BY <1>2 DEF Slot
<1> HIDE DEF u, y
<1>5. /\ Array(u) /\ Len(u.slots) = n /\ u.count = t.count /\ u.hash_mask = t.hash_mask /\ u.heads = t.heads
      /\ \A j \in 1 .. n : /\ u.slots[j].key = t.slots[j].key /\ u.slots[j].next = t.slots[j].next
                           /\ u.slots[j].value = IF j = i THEN v ELSE t.slots[j].value
  BY <1>3, <1>4 DEF Wrote
<1>6. DOMAIN u.slots = 1 .. n
  BY <1>5, Slots
<1>7. Live(u) = Live(t)
  BY <1>2, <1>5, <1>6 DEF Live
<1>8. Counted(u)
  BY <1>2, <1>5, <1>6, <1>7 DEF Good, Counted
<1>9. Masked(u) /\ Pointing(u)
  BY <1>2, <1>5, <1>6 DEF Good, Masked, Pointing
<1>10. Linked(u, h)
  <2>1. \A j \in Live(t) : /\ Bucket(u, h, u.slots[j].key) = Bucket(t, h, t.slots[j].key)
                           /\ u.slots[j].next = t.slots[j].next
    BY <1>2, <1>5 DEF Bucket
  <2> QED
    BY <2>1, <1>5, <1>7, LinkedSame DEF Good
<1>11. EndsFree(u)
  <2>1. get_first_free(u) = get_first_free(t)
    <3>1. n > 0 => n \in 1 .. n
      BY <1>2
    <3> QED
      BY <3>1, <1>5 DEF get_first_free
  <2> DEFINE e == get_first_free(t)
  <2>2. /\ e \in 1 .. n + 1
        /\ \A j \in e .. n : t.slots[j].key \notin Key
        /\ \A j \in 1 .. e - 1 : t.slots[j].key # Undef
        /\ e > 1 => t.slots[e - 1].key \in Key
    BY DEF Good, EndsFree
  <2> HIDE DEF e
  <2>3. /\ \A j \in e .. n : j \in 1 .. n
        /\ \A j \in 1 .. e - 1 : j \in 1 .. n
        /\ e > 1 => e - 1 \in 1 .. n
    BY <1>2, <2>2
  <2>4. /\ \A j \in e .. n : u.slots[j].key \notin Key
        /\ \A j \in 1 .. e - 1 : u.slots[j].key # Undef
        /\ e > 1 => u.slots[e - 1].key \in Key
    BY <1>5, <2>2, <2>3
  <2> QED
    BY <1>5, <2>1, <2>2, <2>4 DEF EndsFree, e
<1>12. Good(u, h)
  BY <1>5, <1>8, <1>9, <1>10, <1>11 DEF Good
<1>13. \A j \in Live(t) : u.slots[j].key = t.slots[j].key
                          /\ u.slots[j].value = IF j = i THEN v ELSE t.slots[j].value
  BY <1>2, <1>5
<1>14. /\ r \in DOMAIN Order(t) /\ Order(t)[r].key = t.slots[i].key
       /\ Order(u) = [Order(t) EXCEPT ![r].value = v]
  BY <1>1, <1>7, <1>13, OrderSet DEF Good
<1>15. PropKeys(u) = PropKeys(t)
  BY <1>7, <1>13 DEF PropKeys
<1> QED
  BY <1>1, <1>12, <1>14, <1>15 DEF i, u

-----------------------------------------------------------------------------
(* The invariant.                                                          *)

\* A list in ROM has no free slot, and keys that do not move.
InRom(t) ==
  /\ Len(t.slots) # 0
  /\ \A i \in 1 .. Len(t.slots) : t.slots[i].key \in RomKey

IInv ==
  /\ hash \in Hash /\ rom \in BOOLEAN
  /\ Good(props, hash)
  /\ rom => InRom(props)

LEMMA Hashes ==
  ASSUME PropTableAssumption, NEW h \in Hash
  PROVE  h \in HashFunction
BY DEF PropTableAssumption, HashFunction

\* What a table in ROM holds is where it was for any hash of the moved keys.
LEMMA RomIsGood ==
  ASSUME PropTableAssumption, NEW t, NEW h, NEW g, Good(t, h), PropKeys(t) \subseteq RomKey,
         \A k \in RomKey : g[k] = h[k]
  PROVE  Good(t, g)
<1>1. \A i \in Live(t) : h[t.slots[i].key] = g[t.slots[i].key]
  BY DEF PropKeys
<1> QED
  BY <1>1, GoodAgain

LEMMA CollectedIsGood ==
  ASSUME PropTableAssumption, IInv, NEW g \in KeysMoved
  PROVE  LET u == CollectedProps(props, g)
         IN  /\ g \in Hash /\ Good(u, g) /\ Alike(props, u)
             /\ rom => u = props
<1> DEFINE u == CollectedProps(props, g)
<1>1. /\ g \in Hash /\ g \in HashFunction /\ hash \in HashFunction
      /\ \A k \in RomKey : g[k] = hash[k]
  BY Hashes DEF KeysMoved, IInv
<1>2. Alike(props, props)
  BY DEF Alike
<1>3. CASE rom
  <2>1. u = props
    BY <1>3 DEF CollectedProps
  <2>2. PropKeys(props) \subseteq RomKey
    BY <1>3, Slots DEF IInv, InRom, PropKeys, Good
  <2>3. Good(props, g)
    BY <1>1, <2>2, RomIsGood DEF IInv
  <2> QED
    BY <1>1, <1>2, <2>1, <2>3
<1>4. CASE ~ rom /\ props.hash_mask = 0
  <2>1. u = props
    BY <1>4 DEF CollectedProps
  <2>2. Good(props, g)
    BY <1>1, <1>4, GoodAgain DEF IInv
  <2> QED
    BY <1>1, <1>2, <1>4, <2>1, <2>2
<1>5. CASE ~ rom /\ props.hash_mask # 0
  <2>1. u = js_rehash_props(props, g)
    BY <1>5 DEF CollectedProps
  <2>2. Good(u, g) /\ Alike(props, u)
    BY <1>1, <2>1, RehashIsGood DEF IInv
  <2> QED
    BY <1>1, <1>5, <2>2
<1> QED
  BY <1>3, <1>4, <1>5 DEF IInv

\* A collection keeps the properties and their order.
LEMMA AlikeOrder ==
  ASSUME PropTableAssumption, NEW t, NEW u, Array(t), Array(u), Alike(t, u)
  PROVE  Live(u) = Live(t) /\ Order(u) = Order(t) /\ \A i \in Live(t) : u.slots[i].key = t.slots[i].key
<1>1. Live(u) = Live(t)
  BY AlikeFacts
<1>2. \A i \in Live(t) : u.slots[i].key = t.slots[i].key /\ u.slots[i].value = t.slots[i].value
  BY Slots DEF Alike
<1> QED
  BY <1>1, <1>2, SameOrder

LEMMA InitInv ==
  ASSUME PropTableAssumption, PropsInit
  PROVE  IInv
<1>1. hash \in Hash /\ hash \in HashFunction /\ rom \in BOOLEAN
  BY Hashes DEF PropsInit
<1>2. CASE rom = FALSE /\ props = empty_props
  BY <1>1, <1>2, EmptyProps DEF IInv
<1>3. CASE rom = FALSE /\ \E n \in Prealloc : props = js_alloc_props(n)
  <2>1. PICK n \in Nat \ {0} : props = js_alloc_props(n)
    BY <1>3 DEF PropTableAssumption
  <2>2. Good(props, hash)
    BY <2>1, AllocProps
  <2> QED
    BY <1>1, <1>3, <2>2 DEF IInv
<1>4. CASE rom = TRUE /\ \E s \in RomProps : props = RomTable(s, hash)
  <2>1. PICK s \in RomProps : props = RomTable(s, hash)
    BY <1>4
  <2>2. /\ Good(props, hash) /\ Len(props.slots) # 0
        /\ \A i \in 1 .. Len(props.slots) : props.slots[i].key \in RomKey
    BY <1>1, <2>1, RomTables
  <2> QED
    BY <1>1, <2>2 DEF IInv, InRom
<1> QED
  BY <1>2, <1>3, <1>4 DEF PropsInit

-----------------------------------------------------------------------------
(* The steps: each keeps the invariant and changes the order of the        *)
(* properties as the ordered map does.                                     *)

\* Where a list in ROM is copied, a collection may come between.
LEMMA CopyIsGood ==
  ASSUME PropTableAssumption, IInv, NEW u, NEW g \in Hash, Good(u, hash),
         PropKeys(u) \subseteq PropKeys(props),
         g \in (IF rom THEN KeysMoved ELSE {hash})
  PROVE  Good(u, g)
<1>1. CASE rom
  <2>1. PropKeys(props) \subseteq RomKey
    BY <1>1, Slots DEF IInv, InRom, PropKeys, Good
  <2>2. \A k \in RomKey : g[k] = hash[k]
    BY <1>1 DEF KeysMoved
  <2>3. PropKeys(u) \subseteq RomKey
    BY <2>1
  <2> QED
    BY <2>2, <2>3, RomIsGood
<1>2. CASE ~ rom
  BY <1>2
<1> QED
  BY <1>1, <1>2

LEMMA SetOwnStep ==
  ASSUME PropTableAssumption, IInv, NEW k \in Key, NEW v \in PropVal, SetOwn(k, v)
  PROVE  /\ IInv'
         /\ \E i \in DOMAIN Order(props) :
              /\ Order(props)[i].key = k
              /\ Order(props') = [Order(props) EXCEPT ![i].value = v]
<1> DEFINE i == find_own_property(props, hash, k)
           u == [props EXCEPT !.slots[i].value = v]
           r == Rank(Live(props), i)
<1>1. /\ i # 0 /\ props' = u /\ rom' = FALSE
      /\ hash' \in (IF rom THEN KeysMoved ELSE {hash})
  BY DEF SetOwn
<1>2. hash \in HashFunction /\ hash' \in Hash
  BY <1>1, Hashes DEF IInv, KeysMoved
<1>3. Good(props, hash)
  BY DEF IInv
<1>4. /\ Good(u, hash)
      /\ r \in DOMAIN Order(props) /\ Order(props)[r].key = k
      /\ Order(u) = [Order(props) EXCEPT ![r].value = v]
      /\ PropKeys(u) = PropKeys(props)
  BY <1>1, <1>2, <1>3, SetIsGood
<1> HIDE DEF u, i
<1>5. Good(u, hash')
  BY <1>1, <1>2, <1>4, CopyIsGood
<1>6. IInv'
  BY <1>1, <1>2, <1>5 DEF IInv
<1> QED
  BY <1>1, <1>4, <1>6

LEMMA AddStep ==
  ASSUME PropTableAssumption, IInv, NEW k \in Key, NEW v \in PropVal, Add(k, v)
  PROVE  /\ IInv'
         /\ \A i \in DOMAIN Order(props) : Order(props)[i].key # k
         /\ Order(props') = Append(Order(props), [key |-> k, value |-> v])
<1>1. Good(props, hash) /\ hash \in HashFunction /\ hash \in Hash
  BY Hashes DEF IInv
<1>2. \A i \in Live(props) : props.slots[i].key # k
  <2>1. find_own_property(props, hash, k) = 0
    BY DEF Add
  <2>2. \A i \in Live(props) : i # 0
    BY <1>1, Slots DEF Good
  <2> QED
    BY <1>1, <2>1, <2>2, FindFacts
<1>3. PICK t : /\ Good(t, hash') /\ Alike(props, t)
               /\ hash' \in Hash
               /\ props' = js_create_property(t, hash', k, v)
  <2>1. CASE get_first_free(props) <= Len(props.slots)
    <3>1. hash' = hash /\ props' = js_create_property(props, hash, k, v)
      BY <2>1 DEF Add
    <3>2. Alike(props, props)
      BY DEF Alike
    <3> QED
      BY <1>1, <3>1, <3>2
  <2>2. CASE ~ (get_first_free(props) <= Len(props.slots))
    <3> DEFINE t == IF hash' = hash THEN props ELSE CollectedProps(props, hash')
    <3>1. hash' \in KeysMoved /\ props' = js_create_property(t, hash', k, v)
      BY <2>2 DEF Add
    <3>2. Alike(props, props)
      BY DEF Alike
    <3>3. /\ hash' \in Hash /\ Good(CollectedProps(props, hash'), hash')
          /\ Alike(props, CollectedProps(props, hash'))
      BY <3>1, CollectedIsGood
    <3>4. Good(t, hash') /\ Alike(props, t)
      BY <1>1, <3>2, <3>3
    <3> HIDE DEF t
    <3> QED
      BY <3>1, <3>3, <3>4
  <2> QED
    BY <2>1, <2>2
<1>4. /\ Live(t) = Live(props) /\ Order(t) = Order(props)
      /\ \A i \in Live(props) : t.slots[i].key = props.slots[i].key
  BY <1>1, <1>3, AlikeOrder DEF Good
<1>5. Good(props', hash') /\ Added(t, props', k, v)
  <2>1. \A i \in Live(t) : t.slots[i].key # k
    BY <1>2, <1>4
  <2>2. hash' \in HashFunction
    BY <1>3, Hashes
  <2> QED
    BY <1>3, <2>1, <2>2, CreateIsGood
<1>6. Order(props') = Append(Order(props), [key |-> k, value |-> v])
  BY <1>3, <1>4, <1>5, OrderAdded DEF Good
<1>7. \A i \in DOMAIN Order(props) : Order(props)[i].key # k
  <2>1. k \notin PropKeys(props)
    BY <1>2 DEF PropKeys
  <2> QED
    BY <1>1, <2>1, OrderKeys DEF Good
<1>8. IInv'
  <2>1. rom' = FALSE
    BY DEF Add
  <2> QED
    BY <1>3, <1>5, <2>1 DEF IInv
<1> QED
  BY <1>6, <1>7, <1>8

LEMMA DeleteStep ==
  ASSUME PropTableAssumption, IInv, NEW k \in Key, Delete(k)
  PROVE  /\ IInv'
         /\ \E i \in DOMAIN Order(props) :
              /\ Order(props)[i].key = k
              /\ Order(props') = SubSeq(Order(props), 1, i - 1)
                                   \o SubSeq(Order(props), i + 1, Len(Order(props)))
<1> DEFINE d == Distance(props, hash, k)
           u == Removed(props, hash, k, d)
           r == Rank(Live(props), find_own_property(props, hash, k))
<1>1. /\ d # -1 /\ props' = u /\ rom' = FALSE
      /\ hash' \in (IF rom THEN KeysMoved ELSE {hash})
  BY DEF Delete
<1>2. hash \in HashFunction /\ hash' \in Hash
  BY <1>1, Hashes DEF IInv, KeysMoved
<1>3. Good(props, hash)
  BY DEF IInv
<1>4. /\ Good(u, hash)
      /\ r \in DOMAIN Order(props) /\ Order(props)[r].key = k
      /\ Order(u) = SubSeq(Order(props), 1, r - 1) \o SubSeq(Order(props), r + 1, Len(Order(props)))
      /\ PropKeys(u) \subseteq PropKeys(props)
  BY <1>1, <1>2, <1>3, RemovedIsGood
<1> HIDE DEF u, d, r
<1>5. Good(u, hash')
  BY <1>1, <1>2, <1>4, CopyIsGood
<1>6. IInv'
  BY <1>1, <1>2, <1>5 DEF IInv
<1> QED
  BY <1>1, <1>4, <1>6

\* A collection, with or without a failed allocation.
LEMMA CollectStep ==
  ASSUME PropTableAssumption, IInv, SetFails \/ PropsGC
  PROVE  IInv' /\ Order(props') = Order(props)
<1> DEFINE u == CollectedProps(props, hash')
<1>1. /\ hash' \in KeysMoved /\ props' = u
      /\ rom' \in {rom, FALSE}
  BY DEF SetFails, PropsGC
<1>2. hash' \in Hash /\ Good(u, hash') /\ Alike(props, u) /\ (rom => u = props)
  BY <1>1, CollectedIsGood
<1> HIDE DEF u
<1>3. Order(u) = Order(props)
  BY <1>2, AlikeOrder DEF IInv, Good
<1>4. rom' \in BOOLEAN /\ (rom' => rom)
  <2>1. rom \in BOOLEAN
    BY DEF IInv
  <2>2. CASE rom' = rom
    BY <2>1, <2>2
  <2>3. CASE rom' = FALSE
    BY <2>3
  <2> QED
    BY <1>1, <2>2, <2>3
<1>5. rom' => InRom(props')
  BY <1>1, <1>2, <1>4 DEF IInv
<1>6. IInv'
  BY <1>1, <1>2, <1>4, <1>5 DEF IInv
<1> QED
  BY <1>1, <1>3, <1>6

LEMMA StepInv ==
  ASSUME PropTableAssumption, IInv, [PropsNext]_propsVars
  PROVE  IInv'
<1>1. ASSUME NEW k \in Key, NEW v \in PropVal, SetOwn(k, v)
      PROVE  IInv'
  BY <1>1, SetOwnStep
<1>2. ASSUME NEW k \in Key, NEW v \in PropVal, Add(k, v)
      PROVE  IInv'
  BY <1>2, AddStep
<1>3. ASSUME NEW k \in Key, Delete(k)
      PROVE  IInv'
  BY <1>3, DeleteStep
<1>4. CASE SetFails \/ PropsGC
  BY <1>4, CollectStep
<1>5. CASE UNCHANGED propsVars
  BY <1>5 DEF propsVars, IInv
<1> QED
  BY <1>1, <1>2, <1>3, <1>4, <1>5 DEF PropsNext

THEOREM Invariance ==
  ASSUME PropTableAssumption
  PROVE  PropsSpec => []IInv
<1>1. PropsInit => IInv
  BY InitInv
<1>2. IInv /\ [PropsNext]_propsVars => IInv'
  BY StepInv
<1> QED
  BY <1>1, <1>2, PTL DEF PropsSpec

-----------------------------------------------------------------------------
(* What it implies.                                                        *)

\* The types, and a size of the hash table and a count that fit what the array holds.
THEOREM TypesAreKept ==
  ASSUME PropTableAssumption
  PROVE  PropsSpec => []PropsTypeOK
<1>1. ASSUME IInv
      PROVE  PropsTypeOK
  <2> DEFINE n == Len(props.slots)
  <2>1. /\ DOMAIN props.slots = 1 .. n
        /\ \A i \in 1 .. n : props.slots[i].key \in Key \cup {Uninit, Undef}
    BY <1>1, Slots DEF IInv, Good, Slot
  <2>2. /\ props.heads \in [0 .. props.hash_mask -> 0 .. n]
        /\ \A i \in DOMAIN props.slots : props.slots[i].next \in 0 .. n
    BY <1>1 DEF IInv, Good, Pointing
  <2>3. DOMAIN props.heads = 0 .. props.hash_mask /\ \A b \in DOMAIN props.heads : props.heads[b] \in 0 .. n
    BY <2>2
  <2>4. \E l \in 0 .. n : props.hash_mask = Pow2(l) - 1
    BY <1>1 DEF IInv, Good, Masked
  <2>5. props.count = Cardinality(Live(props))
    BY <1>1 DEF IInv, Good, Counted
  <2>6. rom \in BOOLEAN /\ hash \in Hash
    BY <1>1 DEF IInv
  <2> HIDE DEF n
  <2>7. \A i \in DOMAIN props.slots :
          props.slots[i].key \in Key \cup {Uninit, Undef} /\ props.slots[i].next \in 0 .. n
    BY <2>1, <2>2
  <2> QED
    BY <2>3, <2>4, <2>5, <2>6, <2>7 DEF PropsTypeOK, n
<1> QED
  BY <1>1, Invariance, PTL

\* However collections move the keys, every live property is once on the chain of
\* its present hash and nothing else is on a chain; what is free is at the end.
THEOREM TableIsExact ==
  ASSUME PropTableAssumption
  PROVE  PropsSpec => []TableExact
<1>1. ASSUME IInv
      PROVE  TableExact
  <2>1. Good(props, hash) /\ hash \in HashFunction
    BY <1>1, Hashes DEF IInv
  <2>2. ASSUME NEW b \in 0 .. props.hash_mask
        PROVE  LET at == ChainFrom(props, b)
               IN  /\ {at[d] : d \in DOMAIN at} \ {0} = InBucket(props, hash, b)
                   /\ \A d, e \in DOMAIN at : at[d] = at[e] /\ d # e => at[d] = 0
    <3> DEFINE at == ChainFrom(props, b)
               n == Len(props.slots)
    <3>1. /\ at \in [0 .. n -> 0 .. n]
          /\ \A d \in 0 .. n : at[d] # 0 => at[d] \in InBucket(props, hash, b)
          /\ \A i \in InBucket(props, hash, b) : \E d \in 0 .. n : at[d] = i
          /\ \A d, e \in 0 .. n : d < e /\ at[d] # 0 => at[e] < at[d]
      BY <2>1, ChainIsExact DEF Good
    <3>2. n \in Nat /\ \A i \in InBucket(props, hash, b) : i # 0
      BY <2>1, Slots DEF Good, InBucket
    <3> HIDE DEF at, n
    <3>3. DOMAIN at = 0 .. n
      BY <3>1
    <3>4. {at[d] : d \in DOMAIN at} \ {0} = InBucket(props, hash, b)
      BY <3>1, <3>2, <3>3
    <3>5. \A d, e \in 0 .. n : d < e /\ at[d] = at[e] => at[d] = 0
      <4> TAKE d, e \in 0 .. n
      <4> HAVE d < e /\ at[d] = at[e]
      <4>1. at[d] # 0 => at[e] < at[d]
        BY <3>1
      <4>2. at[d] \in Int /\ at[e] \in Int
        BY <3>1, <3>2
      <4> QED
        BY <4>1, <4>2
    <3>6. \A d, e \in 0 .. n : at[d] = at[e] /\ d # e => at[d] = 0
      <4> TAKE d, e \in 0 .. n
      <4> HAVE at[d] = at[e] /\ d # e
      <4>1. d < e \/ e < d
        BY <3>2
      <4> QED
        BY <3>5, <4>1
    <3> QED
      BY <3>3, <3>4, <3>6 DEF at
  <2>3. ChainsExact
    BY <2>2 DEF ChainsExact, InBucket
  <2>4. FreeAtTheEnd
    BY <2>1 DEF Good, EndsFree, FreeAtTheEnd
  <2> QED
    BY <2>3, <2>4 DEF TableExact
<1> QED
  BY <1>1, Invariance, PTL

\* The table implements the ordered map.
THEOREM ImplementsOrderedMap ==
  ASSUME PropTableAssumption
  PROVE  PropsSpec => IsOrderedMap
<1>a. KeyOrder = Order(props) /\ KeyOrder' = Order(props')
  BY DEF KeyOrder, Order
<1>1. ASSUME IInv, [PropsNext]_propsVars
      PROVE  [Ordered!Next]_KeyOrder
  <2>1. ASSUME NEW k \in Key, NEW v \in PropVal, SetOwn(k, v)
        PROVE  Ordered!Set(k, v)
    BY <1>1, <1>a, <2>1, SetOwnStep DEF Ordered!Set
  <2>2. ASSUME NEW k \in Key, NEW v \in PropVal, Add(k, v)
        PROVE  Ordered!Set(k, v)
    <3>1. k \notin Ordered!Keys(KeyOrder)
      BY <1>1, <1>a, <2>2, AddStep DEF Ordered!Keys
    <3>2. KeyOrder' = Append(KeyOrder, [key |-> k, value |-> v])
      BY <1>1, <1>a, <2>2, AddStep
    <3> QED
      BY <3>1, <3>2 DEF Ordered!Set
  <2>3. ASSUME NEW k \in Key, Delete(k)
        PROVE  Ordered!Delete(k)
    BY <1>1, <1>a, <2>3, DeleteStep DEF Ordered!Delete, Ordered!RemoveAt
  <2>4. CASE SetFails \/ PropsGC
    BY <1>1, <1>a, <2>4, CollectStep
  <2>5. CASE UNCHANGED propsVars
    BY <1>a, <2>5 DEF propsVars
  <2> QED
    BY <1>1, <2>1, <2>2, <2>3, <2>4, <2>5 DEF PropsNext, Ordered!Next
<1> QED
  BY <1>1, Invariance, PTL DEF PropsSpec, IsOrderedMap, Ordered!Spec
=============================================================================
