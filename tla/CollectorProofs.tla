-------------------------- MODULE CollectorProofs --------------------------
(***************************************************************************)
(* What a collection of mquickjs.c does to the memory word by word, for    *)
(* every memory the program may leave to it (Sound): the sweep merges no   *)
(* block that is kept, the threaded lists of the compaction lose no        *)
(* reference, and in the end what could be reached lies in its old order   *)
(* at the start of the heap with every reference to its new place.         *)
(*                                                                         *)
(* The proof follows the collector.  InCache and InSweep are the memory in *)
(* the first two phases: the blocks that are kept and the words of each.   *)
(* From there on the memory is told by what it was before the compaction   *)
(* and by which places wait on which list (InRoots, InPass1, InPass2At).   *)
(* The mark phase is one step; MarkedAlike relates it to GCMark.           *)
(***************************************************************************)
EXTENDS Collector, Minimum, SequenceTheorems

-----------------------------------------------------------------------------
(* Loops.  Their definitions count the turns: what holds before the first  *)
(* turn and is kept by each holds after all of them.                       *)

LEMMA UpTo ==
  ASSUME NEW n \in Nat, NEW T, 0 \in T, \A d \in 1 .. n : d - 1 \in T => d \in T
  PROVE  \A d \in 0 .. n : d \in T
<1> DEFINE Bad == {d \in 0 .. n : d \notin T}
<1> SUFFICES ASSUME Bad # {}
             PROVE  FALSE
  OBVIOUS
<1>1. PICK d \in Bad : \A e \in Bad : d <= e
  <2>1. Bad \in SUBSET Nat
    OBVIOUS
  <2> HIDE DEF Bad
  <2> QED
    BY <2>1, LeastExists
<1>2. d \in 1 .. n /\ d - 1 \in 0 .. n /\ d - 1 \notin Bad
  BY <1>1
<1> QED
  BY <1>1, <1>2

\* A function on 0 .. n can be defined by its value at 0 and a step to each value
\* from the one before it.
StepsBy(f, n, S, a, g) == f \in [0 .. n -> S] /\ f[0] = a /\ \A d \in 1 .. n : f[d] = g[d][f[d - 1]]

LEMMA StepsExist ==
  ASSUME NEW n \in Nat, NEW S, NEW a \in S, NEW g, \A d \in 1 .. n : g[d] \in [S -> S]
  PROVE  \E f : StepsBy(f, n, S, a, g)
<1> DEFINE C == (0 .. n) \X S
           h == [c \in C |-> IF c[1] < n THEN <<c[1] + 1, g[c[1] + 1][c[2]]>> ELSE c]
<1>1. h \in [C -> C]
  <2>1. \A c \in C : c[1] \in 0 .. n /\ c[2] \in S /\ (c[1] < n => c[1] + 1 \in 1 .. n /\ c[1] + 1 \in 0 .. n)
    OBVIOUS
  <2>2. \A c \in C : c[1] < n => g[c[1] + 1][c[2]] \in S
    BY <2>1
  <2> QED
    BY <2>1, <2>2
<1>2. <<0, a>> \in C
  OBVIOUS
<1>3. PICK k : Iterates(k, n, C, <<0, a>>, h)
  <2> HIDE DEF C, h
  <2> QED
    BY <1>1, <1>2, RecursionExists
<1>4. k \in [0 .. n -> C] /\ k[0] = <<0, a>> /\ \A d \in 1 .. n : k[d] = h[k[d - 1]]
  BY <1>3 DEF Iterates
<1> HIDE DEF h
<1>a. \A d \in 1 .. n : d - 1 \in 0 .. n /\ k[d] = h[k[d - 1]] /\ k[d - 1] \in C /\ d - 1 < n /\ (d - 1) + 1 = d
  <2>1. \A d \in 1 .. n : d - 1 \in 0 .. n /\ d - 1 < n /\ (d - 1) + 1 = d
    OBVIOUS
  <2> HIDE DEF C
  <2> QED
    BY <1>4, <2>1
<1> DEFINE T == {d \in 0 .. n : k[d][1] = d}
<1>5. \A d \in 0 .. n : d \in T
  <2>1. 0 \in T
    BY <1>4
  <2>2. ASSUME NEW d \in 1 .. n, d - 1 \in T
        PROVE  d \in T
    <3>1. k[d] = h[k[d - 1]] /\ k[d - 1] \in C /\ k[d - 1][1] = d - 1 /\ d - 1 < n
      BY <1>a, <2>2
    <3> QED
      BY <3>1 DEF h
  <2> HIDE DEF T
  <2> QED
    BY <2>1, <2>2, UpTo
<1> DEFINE f == [d \in 0 .. n |-> k[d][2]]
<1>6. f \in [0 .. n -> S] /\ f[0] = a
  BY <1>4
<1>7. ASSUME NEW d \in 1 .. n
      PROVE  f[d] = g[d][f[d - 1]]
  <2>1. /\ d - 1 \in 0 .. n /\ k[d] = h[k[d - 1]] /\ k[d - 1] \in C
        /\ k[d - 1][1] = d - 1 /\ d - 1 < n /\ (d - 1) + 1 = d
    <3>1. d - 1 \in T
      BY <1>5, <1>a
    <3> QED
      BY <1>a, <3>1
  <2>2. k[d] = <<d, g[d][k[d - 1][2]]>>
    BY <2>1 DEF h
  <2> QED
    BY <2>1, <2>2
<1>8. StepsBy(f, n, S, a, g)
  <2> HIDE DEF f
  <2> QED
    BY <1>6, <1>7 DEF StepsBy
<1> QED
  BY <1>8

-----------------------------------------------------------------------------
(* The walk from header to header.                                         *)

\* A header is no pointer; it is what its fields are.
LEMMA HeaderFacts ==
  ASSUME NEW h \in Header
  PROVE  h.n \in Nat \ {0} /\ h.mark \in BOOLEAN /\ IsHeader(h) /\ ~JS_IsPtr(h)
<1>1. h.n \in Nat \ {0} /\ h.mark \in BOOLEAN /\ h.k = "hdr"
  BY DEF Header
<1> QED
  BY <1>1 DEF IsHeader, JS_IsPtr

LEMMA SameFields ==
  ASSUME NEW K, NEW M, NEW C, NEW N, NEW B,
         NEW g \in [k : K, mtag : M, cls : C, n : N, mark : B],
         NEW h \in [k : K, mtag : M, cls : C, n : N, mark : B],
         g.k = h.k, g.mtag = h.mtag, g.cls = h.cls, g.n = h.n, g.mark = h.mark
  PROVE  g = h
OBVIOUS

LEMMA SameHeader ==
  ASSUME NEW g \in Header, NEW h \in Header, g.mtag = h.mtag, g.cls = h.cls, g.n = h.n, g.mark = h.mark
  PROVE  g = h
<1> DEFINE K == {"hdr"}
           C == Class \cup {""}
           N == Nat \ {0}
<1>1. g.k = "hdr" /\ h.k = "hdr"
  BY DEF Header
<1>2. /\ g \in [k : K, mtag : MTag, cls : C, n : N, mark : BOOLEAN]
      /\ h \in [k : K, mtag : MTag, cls : C, n : N, mark : BOOLEAN]
  BY DEF Header
<1> HIDE DEF K, C, N
<1> QED
  BY <1>1, <1>2, SameFields

\* The blocks of a memory that is laid out are what the walk meets.
LEMMA WalkMeets ==
  ASSUME NEW m, NEW from \in Int, NEW to \in Int, NEW B, Laid(m, B, from, to)
  PROVE  Walkable(m, from, to) /\ BlockAddrs(m, from, to) = B
<1> DEFINE n == to - from
           Stepped(w) ==
             IF w.at < to /\ IsHeader(m[w.at])
             THEN [at |-> w.at + get_mblock_size(m, w.at), met |-> w.met \cup {w.at}]
             ELSE w
           w0 == [at |-> from, met |-> {}]
           S == {w \in [at : B \cup {to}, met : SUBSET B] : w.met = {b \in B : b < w.at}}
           g == [w \in S |-> Stepped(w)]
<1>1. /\ n \in Nat /\ B \subseteq Int /\ from \in B \cup {to}
      /\ \A b \in B : from <= b /\ b < to
      /\ \A b \in B : /\ IsHeader(m[b]) /\ get_mblock_size(m, b) \in Nat \ {0}
                      /\ b + get_mblock_size(m, b) \in B \cup {to}
                      /\ \A c \in B : b < c => b + get_mblock_size(m, b) <= c
  <2>1. /\ from <= to /\ B \subseteq from .. to - 1 /\ from \in B \cup {to}
        /\ \A b \in B : m[b] \in Header /\ b + m[b].n \in B \cup {to} /\ \A c \in B : b < c => b + m[b].n <= c
    BY DEF Laid
  <2>2. \A b \in B : IsHeader(m[b]) /\ m[b].n \in Nat \ {0}
    BY <2>1, HeaderFacts
  <2> QED
    BY <2>1, <2>2 DEF get_mblock_size
<1>2. w0 \in S
  <2>1. \A b \in B : ~(b < from)
    BY <1>1
  <2> QED
    BY <1>1, <2>1
<1>3. ASSUME NEW w \in S
      PROVE  /\ Stepped(w) \in S
             /\ w.at = to => Stepped(w) = w
             /\ w.at # to => Stepped(w).at > w.at
  <2>1. w.at \in B \cup {to} /\ w.met = {b \in B : b < w.at} /\ w.at \in Int
    BY <1>1
  <2>2. CASE w.at = to
    BY <2>1, <2>2
  <2>3. CASE w.at # to
    <3> DEFINE z == w.at + get_mblock_size(m, w.at)
    <3>1. w.at \in B /\ Stepped(w) = [at |-> z, met |-> w.met \cup {w.at}] /\ z > w.at /\ z \in B \cup {to}
      BY <1>1, <2>1, <2>3
    <3>2. w.met \cup {w.at} = {b \in B : b < z}
      <4>1. \A c \in B : w.at < c => z <= c
        BY <1>1, <3>1
      <4>2. \A c \in B : c \in Int /\ (c < z <=> c < w.at \/ c = w.at)
        BY <1>1, <2>1, <3>1, <4>1
      <4> HIDE DEF z
      <4> QED
        BY <2>1, <3>1, <4>2
    <3> HIDE DEF z, Stepped
    <3> QED
      BY <2>1, <3>1, <3>2, <2>3
  <2> QED
    BY <2>2, <2>3
<1> DEFINE Is(p) == p = [d \in 0 .. n |-> IF d = 0 THEN w0 ELSE Stepped(p[d - 1])]
           P == CHOOSE p : Is(p)
<1>4. Walked(m, from, to) = P[n]
  BY DEF Walked
<1> HIDE DEF n, w0, S, Stepped
<1>5. PICK f : Is(f)
  <2>1. g \in [S -> S]
    BY <1>3
  <2>2. PICK f : Iterates(f, n, S, w0, g)
    <3> HIDE DEF g
    <3> QED
      BY <1>1, <1>2, <2>1, RecursionExists
  <2>3. f \in [0 .. n -> S] /\ f[0] = w0 /\ \A d \in 1 .. n : f[d] = g[f[d - 1]]
    BY <2>2 DEF Iterates
  <2>4. \A d \in 1 .. n : d - 1 \in 0 .. n /\ f[d] = Stepped(f[d - 1])
    <3>1. \A d \in 1 .. n : d - 1 \in 0 .. n /\ f[d - 1] \in S
      BY <1>1, <2>3
    <3> QED
      BY <2>3, <3>1
  <2>5. f = [d \in 0 .. n |-> IF d = 0 THEN w0 ELSE Stepped(f[d - 1])]
    BY <1>1, <2>3, <2>4
  <2> QED
    BY <2>5
<1>6. Is(P)
  BY <1>5
<1> HIDE DEF P
<1>7. P[0] = w0 /\ \A d \in 1 .. n : P[d] = Stepped(P[d - 1])
  BY <1>1, <1>6
<1> DEFINE T == {d \in 0 .. n : P[d] \in S /\ (P[d].at = to \/ P[d].at >= from + d)}
<1>8. \A d \in 0 .. n : d \in T
  <2>1. 0 \in T
    BY <1>1, <1>2, <1>7 DEF w0
  <2>2. ASSUME NEW d \in 1 .. n, d - 1 \in T
        PROVE  d \in T
    <3>1. P[d - 1] \in S /\ (P[d - 1].at = to \/ P[d - 1].at >= from + (d - 1)) /\ P[d] = Stepped(P[d - 1])
      BY <1>7, <2>2
    <3>2. P[d] \in S /\ P[d].at \in Int /\ P[d - 1].at \in Int
      BY <1>1, <1>3, <3>1, ZenonT(40) DEF S
    <3> QED
      BY <1>1, <1>3, <3>1, <3>2
  <2> HIDE DEF T
  <2> QED
    BY <1>1, <2>1, <2>2, UpTo
<1>9. P[n] \in S /\ P[n].at = to
  <2>1. n \in T
    BY <1>1, <1>8
  <2>2. P[n].at \in B \cup {to} /\ P[n] \in S /\ (P[n].at = to \/ P[n].at >= from + n)
    BY <2>1 DEF S
  <2>3. from + n = to
    BY DEF n
  <2>4. \A b \in B \cup {to} : b \in Int /\ (b >= to => b = to)
    BY <1>1
  <2> QED
    BY <2>2, <2>3, <2>4
<1>10. P[n].met = B
  BY <1>1, <1>9 DEF S
<1> QED
  BY <1>4, <1>9, <1>10 DEF Walkable, BlockAddrs
-----------------------------------------------------------------------------
(* Where blocks slide to.                                                  *)

\* Blocks B of these sizes lie in the words up to e, none in another.
Apart(B, size, e) ==
  /\ B \subseteq 1 .. e - 1
  /\ \A b \in B : /\ size[b] \in Nat \ {0}
                  /\ b + size[b] <= e
                  /\ \A c \in B : b < c => b + size[b] <= c

\* Blocks slide down, keep their order and lie one after the other.
LEMMA SlidFacts ==
  ASSUME NEW B, NEW size, NEW e \in Nat \ {0}, Apart(B, size, e)
  PROVE  /\ \A a \in 1 .. e : Slid(B, size, a) \in 1 .. a
         /\ \A b \in B : Slid(B, size, b + size[b]) = Slid(B, size, b) + size[b]
         /\ \A a, c \in 1 .. e :
              (a <= c /\ \A b \in B : b + size[b] <= a \/ c <= b) => Slid(B, size, c) = Slid(B, size, a)
         /\ \A b \in B : \A c \in 1 .. e :
              b + size[b] <= c => Slid(B, size, b) + size[b] <= Slid(B, size, c)
<1> DEFINE Words(a) == {l \in 1 .. a - 1 : \E b \in B : l \in b .. b + size[b] - 1}
<1>1. /\ B \subseteq 1 .. e - 1
      /\ \A b \in B : b \in 1 .. e - 1 /\ size[b] \in Nat \ {0} /\ b + size[b] \in 1 .. e
      /\ \A b, c \in B : b < c => b + size[b] <= c
  BY DEF Apart
<1>2. ASSUME NEW a \in 1 .. e
      PROVE  /\ IsFiniteSet(Words(a)) /\ Cardinality(Words(a)) \in 0 .. a - 1
             /\ Slid(B, size, a) = 1 + Cardinality(Words(a))
  <2>1. IsFiniteSet(1 .. a - 1) /\ Cardinality(1 .. a - 1) = a - 1
    BY FS_Interval
  <2>2. Words(a) \subseteq 1 .. a - 1
    OBVIOUS
  <2>3. Slid(B, size, a) = 1 + Cardinality(Words(a))
    BY DEF Slid
  <2> HIDE DEF Words
  <2>4. IsFiniteSet(Words(a)) /\ Cardinality(Words(a)) <= a - 1
    BY <2>1, <2>2, FS_Subset
  <2> QED
    BY <2>3, <2>4, FS_CardinalityType
<1>3. ASSUME NEW b \in B
      PROVE  /\ Words(b + size[b]) = Words(b) \cup (b .. b + size[b] - 1)
             /\ Words(b) \cap (b .. b + size[b] - 1) = {}
             /\ IsFiniteSet(b .. b + size[b] - 1) /\ Cardinality(b .. b + size[b] - 1) = size[b]
  <2>1. b \in 1 .. e - 1 /\ size[b] \in Nat \ {0} /\ \A c \in B : c < b => c + size[c] <= b
    BY <1>1
  <2>2. IsFiniteSet(b .. b + size[b] - 1) /\ Cardinality(b .. b + size[b] - 1) = size[b]
    <3> DEFINE z == b + size[b] - 1
    <3>1. z \in Int /\ b \in Int /\ z - b + 1 = size[b] /\ ~(b > z)
      BY <2>1
    <3> HIDE DEF z
    <3>2. IsFiniteSet(b .. z) /\ Cardinality(b .. z) = IF b > z THEN 0 ELSE z - b + 1
      BY <3>1, FS_Interval
    <3>3. IsFiniteSet(b .. z) /\ Cardinality(b .. z) = size[b]
      BY <3>1, <3>2
    <3> QED
      BY <3>3 DEF z
  <2>3. \A l \in 1 .. b + size[b] - 1 :
          l \in Words(b + size[b]) <=> (l \in Words(b) \/ l \in b .. b + size[b] - 1)
    BY <2>1, <1>1
  <2>4. /\ Words(b) \subseteq 1 .. b - 1 /\ Words(b + size[b]) \subseteq 1 .. b + size[b] - 1
        /\ b .. b + size[b] - 1 \subseteq 1 .. b + size[b] - 1
        /\ 1 .. b - 1 \subseteq 1 .. b + size[b] - 1
        /\ (1 .. b - 1) \cap (b .. b + size[b] - 1) = {}
    BY <2>1
  <2> HIDE DEF Words
  <2> QED
    BY <2>2, <2>3, <2>4
<1>4. ASSUME NEW b \in B
      PROVE  Cardinality(Words(b + size[b])) = Cardinality(Words(b)) + size[b]
  <2>1. b \in 1 .. e
    BY <1>1
  <2>2. IsFiniteSet(Words(b)) /\ Cardinality(Words(b)) \in Nat
    BY <1>2, <2>1
  <2> DEFINE own == b .. b + size[b] - 1
             w == Words(b)
             w2 == Words(b + size[b])
             k == size[b]
  <2>3. /\ w2 = w \cup own /\ w \cap own = {}
        /\ IsFiniteSet(own) /\ Cardinality(own) = k /\ k \in Nat
        /\ IsFiniteSet(w) /\ Cardinality(w) \in Nat
    BY <1>1, <1>3, <2>2
  <2> SUFFICES Cardinality(w2) = Cardinality(w) + k
    OBVIOUS
  <2> HIDE DEF own, w, w2, k
  <2>4. Cardinality(w \cap own) = 0
    BY <2>3, FS_EmptySet
  <2>5. Cardinality(w \cup own) = Cardinality(w) + Cardinality(own) - Cardinality(w \cap own)
    BY <2>3, FS_Union
  <2> QED
    BY <2>3, <2>4, <2>5
<1>5. ASSUME NEW b \in B
      PROVE  Slid(B, size, b + size[b]) = Slid(B, size, b) + size[b]
  <2>1. b \in 1 .. e /\ b + size[b] \in 1 .. e /\ size[b] \in Nat
    BY <1>1
  <2> HIDE DEF Words
  <2> QED
    BY <1>2, <1>4, <2>1
<1>6. ASSUME NEW a \in 1 .. e, NEW c \in 1 .. e, a <= c, \A b \in B : b + size[b] <= a \/ c <= b
      PROVE  Slid(B, size, c) = Slid(B, size, a)
  <2>1. \A l \in 1 .. c - 1 : l \in Words(c) <=> l \in Words(a)
    BY <1>1, <1>6
  <2>2. Words(a) \subseteq 1 .. c - 1 /\ Words(c) \subseteq 1 .. c - 1
    BY <1>6
  <2> HIDE DEF Words
  <2>3. Words(a) = Words(c)
    BY <2>1, <2>2
  <2> QED
    BY <1>2, <2>3
<1>7. ASSUME NEW b \in B, NEW c \in 1 .. e, b + size[b] <= c
      PROVE  Slid(B, size, b) + size[b] <= Slid(B, size, c)
  <2>1. b \in 1 .. e /\ b + size[b] \in 1 .. e
    BY <1>1
  <2>2. Words(b + size[b]) \subseteq Words(c)
    BY <1>7, <2>1
  <2> HIDE DEF Words
  <2>3. Cardinality(Words(b + size[b])) <= Cardinality(Words(c))
    BY <1>2, <2>2, FS_Subset
  <2>4. Slid(B, size, b + size[b]) <= Slid(B, size, c)
    BY <1>2, <2>1, <2>3
  <2> QED
    BY <1>5, <2>4
<1>8. \A a \in 1 .. e : Slid(B, size, a) \in 1 .. a
  <2> HIDE DEF Words
  <2> QED
    BY <1>2
<1> QED
  BY <1>5, <1>6, <1>7, <1>8
-----------------------------------------------------------------------------
(* The run of dead blocks.                                                 *)

\* It ends at a marked block or at the end of the heap, and no block in it is
\* marked.
LEMMA RunEnds ==
  ASSUME heap_free \in Nat \ {0}, NEW B, Laid(mem, B, 1, heap_free), NEW a \in B
  PROVE  LET e == EndOfRun(a) IN
         /\ e \in B \cup {heap_free} /\ a < e /\ e \in Nat
         /\ \A b \in B : a < b /\ b < e => ~mem[b].mark
         /\ e = heap_free \/ mem[e].mark
<1> DEFINE n == heap_free - a
           e0 == a + get_mblock_size(mem, a)
           S == {b \in B \cup {heap_free} : a < b /\ \A c \in B : a < c /\ c < b => ~mem[c].mark}
           g == [b \in S |-> NextOfRun(b)]
<1>1. /\ n \in Nat /\ a \in Nat
      /\ \A b \in B : b \in Nat /\ b < heap_free
      /\ \A b \in B : /\ get_mblock_size(mem, b) \in Nat \ {0}
                      /\ b + get_mblock_size(mem, b) \in B \cup {heap_free}
                      /\ \A c \in B : b < c => b + get_mblock_size(mem, b) <= c
  <2>1. /\ B \subseteq 1 .. heap_free - 1
        /\ \A b \in B : /\ mem[b] \in Header /\ b + mem[b].n \in B \cup {heap_free}
                        /\ \A c \in B : b < c => b + mem[b].n <= c
    BY DEF Laid
  <2>2. \A b \in B : mem[b].n \in Nat \ {0}
    BY <2>1, HeaderFacts
  <2> QED
    BY <2>1, <2>2 DEF get_mblock_size
<1>2. e0 \in S
  <2>1. e0 \in B \cup {heap_free} /\ a < e0 /\ \A c \in B : a < c => ~(c < e0)
    BY <1>1
  <2> QED
    BY <2>1
<1>3. ASSUME NEW b \in S
      PROVE  /\ NextOfRun(b) \in S
             /\ b = heap_free \/ mem[b].mark => NextOfRun(b) = b
             /\ ~(b = heap_free \/ mem[b].mark) => NextOfRun(b) > b
  <2>1. b \in B \cup {heap_free} /\ a < b /\ b \in Nat /\ \A c \in B : a < c /\ c < b => ~mem[c].mark
    BY <1>1
  <2>2. CASE b = heap_free \/ mem[b].mark
    BY <1>1, <2>1, <2>2 DEF NextOfRun
  <2>3. CASE ~(b = heap_free \/ mem[b].mark)
    <3> DEFINE z == b + get_mblock_size(mem, b)
    <3>1. NextOfRun(b) = z /\ z \in B \cup {heap_free} /\ z > b /\ z \in Nat
      BY <1>1, <2>1, <2>3 DEF NextOfRun
    <3>2. \A c \in B : c < z => c <= b
      <4>1. \A c \in B : b < c => z <= c
        BY <1>1, <2>1, <2>3
      <4> HIDE DEF z
      <4> QED
        BY <1>1, <2>1, <3>1, <4>1
    <3> HIDE DEF z
    <3>3. \A c \in B : a < c /\ c < z => ~mem[c].mark
      BY <1>1, <2>1, <2>3, <3>2
    <3> QED
      BY <1>1, <2>1, <2>3, <3>1, <3>3
  <2> QED
    BY <2>2, <2>3
<1> DEFINE Is(p) == p = [d \in 0 .. n |-> IF d = 0 THEN e0 ELSE NextOfRun(p[d - 1])]
           P == CHOOSE p : Is(p)
<1>4. EndOfRun(a) = P[n]
  BY DEF EndOfRun
<1> HIDE DEF n, e0, S
<1>5. PICK f : Is(f)
  <2>1. g \in [S -> S]
    BY <1>3
  <2>2. PICK f : Iterates(f, n, S, e0, g)
    <3> HIDE DEF g
    <3> QED
      BY <1>1, <1>2, <2>1, RecursionExists
  <2>3. f \in [0 .. n -> S] /\ f[0] = e0 /\ \A d \in 1 .. n : f[d] = g[f[d - 1]]
    BY <2>2 DEF Iterates
  <2>4. \A d \in 1 .. n : d - 1 \in 0 .. n /\ f[d - 1] \in S
    BY <1>1, <2>3
  <2>5. \A d \in 1 .. n : f[d] = NextOfRun(f[d - 1])
    BY <2>3, <2>4
  <2>6. f = [d \in 0 .. n |-> IF d = 0 THEN e0 ELSE NextOfRun(f[d - 1])]
    BY <1>1, <2>3, <2>5
  <2> QED
    BY <2>6
<1>6. Is(P)
  BY <1>5
<1> HIDE DEF P
<1>7. P[0] = e0 /\ \A d \in 1 .. n : P[d] = NextOfRun(P[d - 1])
  BY <1>1, <1>6
<1>8. \A b \in S : b \in Nat /\ a < b /\ b <= heap_free
  BY <1>1 DEF S
<1> DEFINE T == {d \in 0 .. n : P[d] \in S /\ (P[d] = heap_free \/ mem[P[d]].mark \/ P[d] > a + d)}
<1>9. \A d \in 0 .. n : d \in T
  <2>1. 0 \in T
    BY <1>1, <1>2, <1>7, <1>8
  <2>2. ASSUME NEW d \in 1 .. n, d - 1 \in T
        PROVE  d \in T
    <3>1. /\ P[d - 1] \in S /\ P[d] = NextOfRun(P[d - 1])
          /\ P[d - 1] = heap_free \/ mem[P[d - 1]].mark \/ P[d - 1] > a + (d - 1)
      BY <1>7, <2>2
    <3>2. P[d] \in S /\ P[d] \in Nat /\ P[d - 1] \in Nat
      BY <1>3, <1>8, <3>1
    <3>3. P[d] = heap_free \/ mem[P[d]].mark \/ P[d] > a + d
      BY <1>1, <1>3, <3>1, <3>2
    <3> QED
      BY <3>2, <3>3
  <2> HIDE DEF T
  <2> QED
    BY <1>1, <2>1, <2>2, UpTo
<1>10. n \in T
  BY <1>1, <1>9
<1>11. P[n] \in S /\ (P[n] = heap_free \/ mem[P[n]].mark)
  BY <1>1, <1>8, <1>10 DEF n
<1> QED
  BY <1>1, <1>4, <1>8, <1>11 DEF S
-----------------------------------------------------------------------------
(* Lists of places.                                                        *)

\* q leads through the k places of the list from b: each points to the next, and
\* the last holds h.  The places on it but b are S.
Leads(q, k, m, b, h, S) ==
  /\ k \in Nat \ {0} /\ q \in [1 .. k -> DOMAIN m]
  /\ q[1] = b
  /\ \A i \in 1 .. k - 1 : m[q[i]] = Ptr(q[i + 1])
  /\ m[q[k]] = h
  /\ \A i, j \in 1 .. k : q[i] = q[j] => i = j
  /\ S = {q[i] : i \in 2 .. k}

\* The places S are on the list of the block at b, whose header is h.
Listed(m, b, h, S) == \E k, q : Leads(q, k, m, b, h, S)

LEMMA NoneListed ==
  ASSUME NEW m, NEW b \in DOMAIN m
  PROVE  Listed(m, b, m[b], {})
<1> DEFINE q == [i \in 1 .. 1 |-> b]
<1>1. Leads(q, 1, m, b, m[b], {})
  BY DEF Leads
<1> QED
  BY <1>1 DEF Listed

\* The list is what it is by the words on it.
LEMMA ListKept ==
  ASSUME NEW m, NEW b, NEW h, NEW S, Listed(m, b, h, S), NEW n, DOMAIN n = DOMAIN m,
         \A x \in S \cup {b} : n[x] = m[x]
  PROVE  Listed(n, b, h, S)
<1>1. PICK k, q : Leads(q, k, m, b, h, S)
  BY DEF Listed
<1>2. \A i \in 1 .. k : q[i] \in S \cup {b}
  BY <1>1 DEF Leads
<1>3. Leads(q, k, n, b, h, S)
  BY <1>1, <1>2 DEF Leads
<1> QED
  BY <1>3 DEF Listed

\* A place goes first on a list.
LEMMA PlaceListed ==
  ASSUME NEW m, NEW b, NEW h, NEW S, Listed(m, b, h, S),
         NEW l \in DOMAIN m, l \notin S, l # b,
         NEW n, DOMAIN n = DOMAIN m, n[l] = m[b], n[b] = Ptr(l), \A x \in S : n[x] = m[x]
  PROVE  Listed(n, b, h, S \cup {l})
<1>1. PICK k, q : Leads(q, k, m, b, h, S)
  BY DEF Listed
<1>2. /\ k \in Nat \ {0} /\ q \in [1 .. k -> DOMAIN m] /\ q[1] = b
      /\ \A i \in 1 .. k - 1 : m[q[i]] = Ptr(q[i + 1])
      /\ m[q[k]] = h
      /\ \A i, j \in 1 .. k : q[i] = q[j] => i = j
      /\ S = {q[i] : i \in 2 .. k}
  BY <1>1 DEF Leads
<1> DEFINE p == [i \in 1 .. k + 1 |-> IF i = 1 THEN b ELSE IF i = 2 THEN l ELSE q[i - 1]]
<1>3. /\ p \in [1 .. k + 1 -> DOMAIN n] /\ p[1] = b /\ p[2] = l
      /\ \A i \in 3 .. k + 1 : p[i] = q[i - 1] /\ i - 1 \in 2 .. k /\ q[i - 1] \in S
  BY <1>2
<1>4. \A i \in 1 .. k : n[p[i]] = Ptr(p[i + 1])
  <2>1. n[p[1]] = Ptr(p[2])
    BY <1>3
  <2>2. k > 1 => n[p[2]] = Ptr(p[3])
    <3>1. k > 1 => 1 \in 1 .. k - 1 /\ 3 \in 3 .. k + 1
      BY <1>2
    <3> QED
      BY <1>2, <1>3, <3>1
  <2>3. \A i \in 3 .. k : n[p[i]] = Ptr(p[i + 1])
    <3>1. \A i \in 3 .. k : /\ i \in 3 .. k + 1 /\ i + 1 \in 3 .. k + 1 /\ i - 1 \in 1 .. k - 1
                            /\ (i + 1) - 1 = i /\ (i - 1) + 1 = i
      BY <1>2
    <3>2. \A i \in 3 .. k : n[p[i]] = m[q[i - 1]] /\ p[i + 1] = q[i] /\ m[q[i - 1]] = Ptr(q[i])
      BY <1>2, <1>3, <3>1
    <3> QED
      BY <3>2
  <2>4. \A i \in 1 .. k : i = 1 \/ (i = 2 /\ k > 1) \/ i \in 3 .. k
    BY <1>2
  <2> QED
    BY <2>1, <2>2, <2>3, <2>4
<1>5. n[p[k + 1]] = h
  <2>1. CASE k = 1
    BY <1>2, <1>3, <2>1
  <2>2. CASE k # 1
    <3>1. k + 1 \in 3 .. k + 1 /\ (k + 1) - 1 = k
      BY <1>2, <2>2
    <3> QED
      BY <1>2, <1>3, <3>1
  <2> QED
    BY <2>1, <2>2
<1>6. \A i, j \in 1 .. k + 1 : p[i] = p[j] => i = j
  <2>1. \A i \in 1 .. k + 1 : i = 1 \/ i = 2 \/ i \in 3 .. k + 1
    BY <1>2
  <2>2. \A i \in 3 .. k + 1 : p[i] # b /\ p[i] # l
    <3>1. \A i \in 2 .. k : q[i] # b
      BY <1>2
    <3> QED
      BY <1>3, <3>1
  <2>3. \A i, j \in 3 .. k + 1 : p[i] = p[j] => i = j
    BY <1>2, <1>3
  <2> HIDE DEF p
  <2> QED
    BY <1>3, <2>1, <2>2, <2>3
<1>7. S \cup {l} = {p[i] : i \in 2 .. k + 1}
  <2>1. \A x \in S : \E i \in 2 .. k + 1 : x = p[i]
    <3>1. \A i \in 2 .. k : i + 1 \in 3 .. k + 1 /\ p[i + 1] = q[i] /\ i + 1 \in 2 .. k + 1
      BY <1>2, <1>3
    <3> HIDE DEF p
    <3> QED
      BY <1>2, <3>1
  <2>2. 2 \in 2 .. k + 1 /\ \A i \in 2 .. k + 1 : i = 2 \/ i \in 3 .. k + 1
    BY <1>2
  <2> HIDE DEF p
  <2> QED
    BY <1>3, <2>1, <2>2
<1>8. Leads(p, k + 1, n, b, h, S \cup {l})
  <2> HIDE DEF p
  <2>1. k + 1 \in Nat \ {0} /\ (k + 1) - 1 = k
    BY <1>2
  <2> QED
    BY <1>3, <1>4, <1>5, <1>6, <1>7, <2>1 DEF Leads
<1> QED
  BY <1>8 DEF Listed

\* Following the list finds its places and the header at its end.
LEMMA ListFollowed ==
  ASSUME NEW m, IsFiniteSet(DOMAIN m), NEW b, NEW h, NEW S, Listed(m, b, h, S), ~JS_IsPtr(h)
  PROVE  Chain(m, b) = S /\ ChainEnd(m, b) = h
<1>1. PICK k, q : Leads(q, k, m, b, h, S)
  BY DEF Listed
<1>2. /\ k \in Nat \ {0} /\ q \in [1 .. k -> DOMAIN m] /\ q[1] = b
      /\ \A i \in 1 .. k - 1 : m[q[i]] = Ptr(q[i + 1])
      /\ m[q[k]] = h
      /\ \A i, j \in 1 .. k : q[i] = q[j] => i = j
      /\ S = {q[i] : i \in 2 .. k}
  BY <1>1 DEF Leads
<1> DEFINE n == Cardinality(DOMAIN m)
           Stepped(f) == LET w == m[f.at] IN
                         IF JS_IsPtr(w) THEN [at |-> w.a, met |-> f.met \cup {w.a}] ELSE f
           At(i) == [at |-> q[i], met |-> {q[j] : j \in 2 .. i}]
           R == {At(i) : i \in 1 .. k}
           g == [f \in R |-> Stepped(f)]
           f0 == [at |-> b, met |-> {}]
<1>3. n \in Nat /\ k <= n
  <2>1. IsFiniteSet(1 .. k) /\ Cardinality(1 .. k) = k
    BY <1>2, FS_Interval
  <2>2. q \in Injection(1 .. k, DOMAIN m)
    BY <1>2 DEF Injection, IsInjective
  <2> QED
    BY <2>1, <2>2, FS_Injection, FS_CardinalityType
<1>4. f0 = At(1)
  <2>1. 2 .. 1 = {}
    OBVIOUS
  <2>2. {q[j] : j \in 2 .. 1} = {}
    BY <2>1
  <2> QED
    BY <1>2, <2>2
<1>5. ASSUME NEW i \in 1 .. k - 1
      PROVE  Stepped(At(i)) = At(i + 1)
  <2>1. m[q[i]] = Ptr(q[i + 1]) /\ JS_IsPtr(m[q[i]]) /\ m[q[i]].a = q[i + 1]
    BY <1>2 DEF Ptr, JS_IsPtr
  <2>2. {q[j] : j \in 2 .. i} \cup {q[i + 1]} = {q[j] : j \in 2 .. i + 1}
    <3>1. \A j : j \in 2 .. i + 1 <=> j \in 2 .. i \/ j = i + 1
      BY <1>2
    <3> QED
      BY <3>1
  <2> QED
    BY <2>1, <2>2
<1>6. Stepped(At(k)) = At(k)
  BY <1>2
<1> HIDE DEF Stepped, At, f0
<1> DEFINE Is(p) == p = [d \in 0 .. n |-> IF d = 0 THEN f0 ELSE Stepped(p[d - 1])]
           P == CHOOSE p : Is(p)
<1>7. Followed(m, b) = P[n]
  BY DEF Followed, Stepped, f0
<1> HIDE DEF n
<1>8. PICK f : Is(f)
  <2>1. g \in [R -> R]
    <3>1. \A i \in 1 .. k : Stepped(At(i)) \in R
      <4>1. \A i \in 1 .. k : i = k \/ (i \in 1 .. k - 1 /\ i + 1 \in 1 .. k)
        BY <1>2
      <4> QED
        BY <1>2, <1>5, <1>6, <4>1
    <3> QED
      BY <3>1
  <2>2. PICK f : Iterates(f, n, R, f0, g)
    <3>1. f0 \in R
      BY <1>2, <1>4
    <3> HIDE DEF g, R
    <3> QED
      BY <1>3, <2>1, <3>1, RecursionExists
  <2> HIDE DEF R
  <2>3. f \in [0 .. n -> R] /\ f[0] = f0 /\ \A d \in 1 .. n : f[d] = g[f[d - 1]]
    BY <2>2 DEF Iterates
  <2>4. \A d \in 1 .. n : d - 1 \in 0 .. n /\ f[d - 1] \in R
    BY <1>3, <2>3
  <2>5. \A d \in 1 .. n : f[d] = Stepped(f[d - 1])
    BY <2>3, <2>4
  <2>6. f = [d \in 0 .. n |-> IF d = 0 THEN f0 ELSE Stepped(f[d - 1])]
    BY <1>3, <2>3, <2>5
  <2> QED
    BY <2>6
<1>9. Is(P)
  BY <1>8
<1> HIDE DEF P
<1>10. P[0] = f0 /\ \A d \in 1 .. n : P[d] = Stepped(P[d - 1])
  BY <1>3, <1>9
<1> DEFINE T == {d \in 0 .. n : P[d] = At(IF d < k THEN d + 1 ELSE k)}
<1>11. \A d \in 0 .. n : d \in T
  <2>1. 0 \in T
    BY <1>2, <1>3, <1>4, <1>10
  <2>2. ASSUME NEW d \in 1 .. n, d - 1 \in T
        PROVE  d \in T
    <3>1. P[d] = Stepped(At(IF d - 1 < k THEN (d - 1) + 1 ELSE k))
      BY <1>10, <2>2
    <3>2. CASE d < k
      BY <1>2, <1>3, <1>5, <3>1, <3>2
    <3>3. CASE d = k
      BY <1>2, <1>3, <1>6, <3>1, <3>3
    <3>4. CASE d > k
      BY <1>2, <1>3, <1>6, <3>1, <3>4
    <3> QED
      BY <1>2, <3>2, <3>3, <3>4
  <2> HIDE DEF T
  <2> QED
    BY <1>3, <2>1, <2>2, UpTo
<1>12. P[n] = At(k)
  <2>1. n \in T /\ ~(n < k)
    BY <1>2, <1>3, <1>11
  <2> QED
    BY <2>1
<1> QED
  BY <1>2, <1>7, <1>12 DEF Chain, ChainEnd, At
-----------------------------------------------------------------------------
(* The memory that is compacted.                                           *)

OldEnd == HeapEnd(swept_mem)
AllOld == BlockAddrs(swept_mem, 1, OldEnd)
Slots(a) == ThreadSlots(swept_mem[a])
SlotAddrs(a) == {a + i : i \in Slots(a)}

\* The blocks lie one after the other, and every reference is to one that is not
\* free and not the block that holds it.
Ready ==
  /\ IsFiniteSet(DOMAIN swept_mem)
  /\ DOMAIN swept_mem = (-Cardinality(ExtOf(swept_mem)) .. -1) \cup (1 .. OldEnd - 1)
  /\ Laid(swept_mem, AllOld, 1, OldEnd)
  /\ \A a \in OldBlocks :
       /\ Slots(a) \subseteq 1 .. swept_mem[a].n - 1
       /\ \A l \in SlotAddrs(a) : JS_IsPtr(swept_mem[l]) => swept_mem[l].a \in OldBlocks \ {a}
  /\ \A l \in ExtOf(swept_mem) : JS_IsPtr(swept_mem[l]) => swept_mem[l].a \in OldBlocks

\* What a finite memory has outside and inside of the heap.
LEMMA EndFacts ==
  ASSUME NEW m, IsFiniteSet(DOMAIN m)
  PROVE  Cardinality(ExtOf(m)) \in Nat /\ HeapEnd(m) \in Nat \ {0}
<1>1. IsFiniteSet(ExtOf(m)) /\ IsFiniteSet({l \in DOMAIN m : l > 0})
  <2>1. ExtOf(m) \subseteq DOMAIN m /\ {l \in DOMAIN m : l > 0} \subseteq DOMAIN m
    BY DEF ExtOf
  <2> QED
    BY <2>1, FS_Subset
<1> QED
  BY <1>1, FS_CardinalityType DEF HeapEnd

LEMMA ReadyFacts ==
  ASSUME Ready
  PROVE  /\ OldEnd \in Nat \ {0} /\ AllOld \subseteq 1 .. OldEnd - 1 /\ OldBlocks \subseteq AllOld
         /\ 1 \in AllOld \cup {OldEnd}
         /\ \A l \in DOMAIN swept_mem : l \in Int /\ (l < 0 \/ l \in 1 .. OldEnd - 1)
         /\ \A l \in 1 .. OldEnd - 1 : l \in DOMAIN swept_mem
         /\ \A a \in AllOld :
              /\ swept_mem[a] \in Header /\ swept_mem[a].n \in Nat \ {0} /\ ~JS_IsPtr(swept_mem[a])
              /\ a + swept_mem[a].n \in AllOld \cup {OldEnd}
              /\ \A c \in AllOld : a < c => a + swept_mem[a].n <= c
         /\ OldBlocks = {a \in AllOld : swept_mem[a].mtag # "free"}
<1>1. OldEnd \in Nat \ {0} /\ Cardinality(ExtOf(swept_mem)) \in Nat
  BY EndFacts DEF Ready, OldEnd
<1>2. Laid(swept_mem, AllOld, 1, OldEnd)
  BY DEF Ready
<1>3. OldBlocks = {a \in AllOld : swept_mem[a].mtag # "free"}
  BY DEF OldBlocks, AllOld, OldEnd
<1> HIDE DEF OldEnd, AllOld
<1>4. /\ AllOld \subseteq 1 .. OldEnd - 1 /\ 1 \in AllOld \cup {OldEnd}
      /\ \A a \in AllOld :
              /\ swept_mem[a] \in Header
              /\ a + swept_mem[a].n \in AllOld \cup {OldEnd}
              /\ \A c \in AllOld : a < c => a + swept_mem[a].n <= c
  BY <1>2 DEF Laid
<1>5. \A a \in AllOld : swept_mem[a].n \in Nat \ {0} /\ ~JS_IsPtr(swept_mem[a])
  BY <1>4, HeaderFacts
<1>6. /\ \A l \in DOMAIN swept_mem : l \in Int /\ (l < 0 \/ l \in 1 .. OldEnd - 1)
      /\ \A l \in 1 .. OldEnd - 1 : l \in DOMAIN swept_mem
  BY <1>1 DEF Ready
<1> QED
  BY <1>1, <1>3, <1>4, <1>5, <1>6

\* No two words of blocks have one address.
LEMMA WordFacts ==
  ASSUME Ready, NEW a \in AllOld, NEW i \in 0 .. swept_mem[a].n - 1
  PROVE  /\ a + i \in 1 .. OldEnd - 1 /\ a + i \in DOMAIN swept_mem
         /\ i # 0 => a + i \notin AllOld
         /\ a + i < a + swept_mem[a].n
         /\ \A c \in AllOld : \A j \in 0 .. swept_mem[c].n - 1 : a + i = c + j => a = c /\ i = j
<1>1. a \in 1 .. OldEnd - 1 /\ OldEnd \in Nat \ {0} /\ swept_mem[a].n \in Nat \ {0} /\ a + swept_mem[a].n <= OldEnd
  <2>1. /\ a \in 1 .. OldEnd - 1 /\ OldEnd \in Nat \ {0} /\ swept_mem[a].n \in Nat \ {0}
        /\ a + swept_mem[a].n \in AllOld \cup {OldEnd} /\ AllOld \subseteq 1 .. OldEnd - 1
    BY ReadyFacts
  <2> QED
    BY <2>1
<1>2. a + i \in 1 .. OldEnd - 1 /\ a + i < a + swept_mem[a].n
  BY <1>1
<1>3. ASSUME NEW c \in AllOld, NEW j \in 0 .. swept_mem[c].n - 1, a + i = c + j
      PROVE  a = c /\ i = j
  <2>1. c \in Int /\ swept_mem[c].n \in Nat \ {0}
    BY ReadyFacts
  <2>2. (a < c => a + swept_mem[a].n <= c) /\ (c < a => c + swept_mem[c].n <= a)
    BY ReadyFacts
  <2> QED
    BY <1>1, <1>3, <2>1, <2>2
<1>4. i # 0 => a + i \notin AllOld
  <2> SUFFICES ASSUME i # 0, a + i \in AllOld
               PROVE  FALSE
    OBVIOUS
  <2>1. 0 \in 0 .. swept_mem[a + i].n - 1 /\ a + i = (a + i) + 0
    BY <1>2, ReadyFacts
  <2> QED
    BY <1>3, <2>1
<1> QED
  BY <1>2, <1>3, <1>4, ReadyFacts

\* The fields of a block.
LEMMA SlotFacts ==
  ASSUME Ready, NEW a \in OldBlocks, NEW l \in SlotAddrs(a)
  PROVE  /\ l \in DOMAIN swept_mem /\ l \in 1 .. OldEnd - 1 /\ l \notin AllOld
         /\ a < l /\ l < a + swept_mem[a].n
         /\ \A c \in OldBlocks : l \in SlotAddrs(c) => c = a
         /\ JS_IsPtr(swept_mem[l]) => swept_mem[l].a \in OldBlocks /\ swept_mem[l].a # a
<1>1. \A c \in OldBlocks : c \in AllOld /\ \A i \in Slots(c) : i \in 1 .. swept_mem[c].n - 1
  BY ReadyFacts DEF Ready
<1>2. PICK i \in Slots(a) : l = a + i
  BY DEF SlotAddrs
<1>3. i \in 0 .. swept_mem[a].n - 1 /\ i # 0 /\ i \in Nat /\ a \in Nat
  BY <1>1, ReadyFacts
<1>4. /\ l \in 1 .. OldEnd - 1 /\ l \in DOMAIN swept_mem /\ l \notin AllOld /\ l < a + swept_mem[a].n /\ a < l
      /\ \A c \in AllOld : \A j \in 0 .. swept_mem[c].n - 1 : l = c + j => a = c
  BY <1>1, <1>2, <1>3, WordFacts
<1>5. ASSUME NEW c \in OldBlocks, l \in SlotAddrs(c)
      PROVE  c = a
  <2>1. PICK j \in Slots(c) : l = c + j
    BY <1>5 DEF SlotAddrs
  <2>2. c \in AllOld /\ j \in 0 .. swept_mem[c].n - 1
    BY <1>1, ReadyFacts
  <2> QED
    BY <1>4, <2>1, <2>2
<1>6. JS_IsPtr(swept_mem[l]) => swept_mem[l].a \in OldBlocks /\ swept_mem[l].a # a
  BY DEF Ready
<1> QED
  BY <1>4, <1>5, <1>6

\* Where the blocks go.
LEMMA TargetFacts ==
  ASSUME Ready
  PROVE  /\ Target(1) = 1
         /\ \A p \in AllOld \cup {OldEnd} : Target(p) \in 1 .. p
         /\ \A p \in AllOld :
              Target(p + swept_mem[p].n) = IF p \in OldBlocks THEN Target(p) + swept_mem[p].n ELSE Target(p)
         /\ \A b \in OldBlocks : \A c \in AllOld \cup {OldEnd} :
              b < c => Target(b) + swept_mem[b].n <= Target(c)
<1> DEFINE e == OldEnd
<1>1. /\ e \in Nat \ {0} /\ AllOld \subseteq 1 .. e - 1 /\ OldBlocks \subseteq AllOld
      /\ \A a \in AllOld :
           /\ a \in 1 .. e - 1 /\ swept_mem[a].n \in Nat \ {0} /\ a + swept_mem[a].n \in AllOld \cup {e}
           /\ \A c \in AllOld : a < c => a + swept_mem[a].n <= c
  BY ReadyFacts
<1>2. \A a \in OldBlocks : OldSize[a] = swept_mem[a].n
  BY DEF OldSize
<1> HIDE DEF e
<1>3. \A a \in AllOld \cup {e} : a \in 1 .. e /\ a <= e
  BY <1>1
<1>4. Apart(OldBlocks, OldSize, e)
  BY <1>1, <1>2, <1>3 DEF Apart
<1>5. /\ \A a \in 1 .. e : Target(a) \in 1 .. a
      /\ \A b \in OldBlocks : Target(b + OldSize[b]) = Target(b) + OldSize[b]
      /\ \A a, c \in 1 .. e :
              (a <= c /\ \A b \in OldBlocks : b + OldSize[b] <= a \/ c <= b) => Target(c) = Target(a)
      /\ \A b \in OldBlocks : \A c \in 1 .. e :
              b + OldSize[b] <= c => Target(b) + OldSize[b] <= Target(c)
  BY <1>1, <1>4, SlidFacts DEF Target
<1>6. Target(1) = 1
  <2>1. 1 \in 1 .. e
    BY <1>1
  <2>2. Target(1) \in 1 .. 1
    BY <1>5, <2>1
  <2> QED
    BY <2>2
<1>7. \A p \in AllOld \cup {e} : Target(p) \in 1 .. p
  BY <1>3, <1>5
<1>8. ASSUME NEW p \in AllOld
      PROVE  Target(p + swept_mem[p].n) = IF p \in OldBlocks THEN Target(p) + swept_mem[p].n ELSE Target(p)
  <2>1. CASE p \in OldBlocks
    BY <1>2, <1>5, <2>1
  <2>2. CASE p \notin OldBlocks
    <3>1. p \in 1 .. e /\ p + swept_mem[p].n \in 1 .. e /\ p <= p + swept_mem[p].n
      BY <1>1, <1>3
    <3>2. ASSUME NEW b \in OldBlocks
          PROVE  b + OldSize[b] <= p \/ p + swept_mem[p].n <= b
      <4>1. b \in AllOld /\ b # p /\ b \in Int /\ p \in Int
        BY <1>1, <2>2
      <4> QED
        BY <1>1, <1>2, <4>1
    <3>3. Target(p + swept_mem[p].n) = Target(p)
      BY <1>5, <3>1, <3>2
    <3> QED
      BY <2>2, <3>3
  <2> QED
    BY <2>1, <2>2
<1>9. ASSUME NEW b \in OldBlocks, NEW c \in AllOld \cup {e}, b < c
      PROVE  Target(b) + swept_mem[b].n <= Target(c)
  <2>1. b + swept_mem[b].n <= c
    <3>1. b \in AllOld /\ (c \in AllOld => b + swept_mem[b].n <= c)
      BY <1>1, <1>9
    <3>2. b + swept_mem[b].n <= e
      BY <1>1, <1>3
    <3> QED
      BY <3>1, <3>2
  <2> QED
    BY <1>2, <1>3, <1>5, <2>1
<1> QED
  BY <1>6, <1>7, <1>8, <1>9 DEF e
-----------------------------------------------------------------------------
(* Threading.                                                              *)

IsFcn(m) == m = [x \in DOMAIN m |-> m[x]]

Places == ExtOf(swept_mem) \cup UNION {SlotAddrs(a) : a \in OldBlocks}

\* The lists of the blocks B: the places H[b] refer to b, and wait on its list.
Lists(m, H, B) ==
  /\ IsFcn(m) /\ DOMAIN m = DOMAIN swept_mem
  /\ \A b \in B : /\ Listed(m, b, swept_mem[b], H[b])
                  /\ \A l \in H[b] : l \in Places /\ JS_IsPtr(swept_mem[l]) /\ swept_mem[l].a = b

LEMMA PlaceFacts ==
  ASSUME Ready, NEW l \in Places
  PROVE  /\ l \in DOMAIN swept_mem /\ l \notin AllOld /\ l \notin OldBlocks
         /\ JS_IsPtr(swept_mem[l]) => swept_mem[l].a \in OldBlocks
<1>1. CASE l \in ExtOf(swept_mem)
  <2>1. l \in DOMAIN swept_mem /\ l < 0
    BY <1>1 DEF ExtOf
  <2>2. \A a \in AllOld : a \in Nat
    BY ReadyFacts
  <2> QED
    BY <1>1, <2>1, <2>2, ReadyFacts DEF Ready
<1>2. CASE \E a \in OldBlocks : l \in SlotAddrs(a)
  BY <1>2, SlotFacts, ReadyFacts
<1> QED
  BY <1>1, <1>2 DEF Places

\* gc_thread_pointer puts a place on the list of the block it refers to.
LEMMA PlaceThreaded ==
  ASSUME Ready, NEW m, NEW H, Lists(m, H, OldBlocks),
         NEW l \in Places, m[l] = swept_mem[l],
         \A b \in OldBlocks : l \notin H[b]
  PROVE  LET n == gc_thread_pointer(m, l)
             G == [b \in OldBlocks |-> IF JS_IsPtr(swept_mem[l]) /\ swept_mem[l].a = b THEN H[b] \cup {l} ELSE H[b]]
         IN /\ Lists(n, G, OldBlocks)
            /\ \A x \in DOMAIN m : x \notin OldBlocks /\ (x # l \/ ~JS_IsPtr(swept_mem[l])) => n[x] = m[x]
<1> DEFINE n == gc_thread_pointer(m, l)
           G == [b \in OldBlocks |-> IF JS_IsPtr(swept_mem[l]) /\ swept_mem[l].a = b THEN H[b] \cup {l} ELSE H[b]]
<1>1. CASE ~JS_IsPtr(swept_mem[l])
  <2>1. n = m
    BY <1>1 DEF gc_thread_pointer
  <2>2. \A b \in OldBlocks : G[b] = H[b]
    BY <1>1
  <2> HIDE DEF n, G
  <2>3. Lists(n, G, OldBlocks)
    BY <2>1, <2>2 DEF Lists
  <2> QED
    BY <2>1, <2>3 DEF n, G
<1>2. CASE JS_IsPtr(swept_mem[l])
  <2> DEFINE a == swept_mem[l].a
  <2>1. a \in OldBlocks /\ l \in DOMAIN m /\ l \notin OldBlocks /\ a \in DOMAIN m /\ l # a
    <3>1. \A b \in OldBlocks : b \in DOMAIN swept_mem
      BY ReadyFacts
    <3> QED
      BY <1>2, <3>1, PlaceFacts DEF Lists
  <2>2. n = [m EXCEPT ![l] = m[a], ![a] = Ptr(l)]
    BY <1>2 DEF gc_thread_pointer
  <2> HIDE DEF n
  <2>3. /\ DOMAIN n = DOMAIN m /\ n[l] = m[a] /\ n[a] = Ptr(l)
        /\ \A x \in DOMAIN m : x # l /\ x # a => n[x] = m[x]
    <3> HIDE DEF a
    <3> QED
      BY <2>1, <2>2
  <2>4. \A b \in OldBlocks : G[b] = IF b = a THEN H[b] \cup {l} ELSE H[b]
    BY <1>2
  <2> HIDE DEF G
  <2>5. ASSUME NEW b \in OldBlocks
        PROVE  /\ Listed(m, b, swept_mem[b], H[b])
               /\ \A x \in H[b] : x \in Places /\ JS_IsPtr(swept_mem[x]) /\ swept_mem[x].a = b
               /\ \A x \in H[b] : x \in DOMAIN m /\ x # l /\ x \notin OldBlocks
    <3>1. /\ Listed(m, b, swept_mem[b], H[b]) /\ DOMAIN m = DOMAIN swept_mem
          /\ \A x \in H[b] : x \in Places /\ JS_IsPtr(swept_mem[x]) /\ swept_mem[x].a = b
      BY <2>5 DEF Lists
    <3> QED
      BY <3>1, PlaceFacts
  <2>6. ASSUME NEW b \in OldBlocks
        PROVE  Listed(n, b, swept_mem[b], G[b])
    <3>1. CASE b = a
      <4>1. \A x \in H[b] : n[x] = m[x]
        BY <2>1, <2>3, <2>5
      <4>2. Listed(n, b, swept_mem[b], H[b] \cup {l})
        <5> HIDE DEF a
        <5> QED
          BY <2>1, <2>3, <2>5, <3>1, <4>1, PlaceListed
      <4> QED
        BY <2>4, <3>1, <4>2
    <3>2. CASE b # a
      <4>1. \A x \in H[b] \cup {b} : n[x] = m[x]
        <5>1. b \in DOMAIN m
          BY ReadyFacts DEF Lists
        <5> QED
          BY <2>1, <2>3, <2>5, <3>2, <5>1
      <4>2. Listed(n, b, swept_mem[b], H[b])
        BY <2>3, <2>5, <4>1, ListKept
      <4> QED
        BY <2>4, <3>2, <4>2
    <3> QED
      BY <3>1, <3>2
  <2>7. ASSUME NEW b \in OldBlocks, NEW x \in G[b]
        PROVE  x \in Places /\ JS_IsPtr(swept_mem[x]) /\ swept_mem[x].a = b
    <3>1. x \in H[b] \/ (b = a /\ x = l)
      <4> HIDE DEF a
      <4>1. G[b] = IF b = a THEN H[b] \cup {l} ELSE H[b]
        BY <2>4
      <4> QED
        BY <4>1, <2>7
    <3> QED
      BY <1>2, <2>5, <3>1
  <2>a. IsFcn(n)
    <3> HIDE DEF a
    <3> QED
      BY <2>2 DEF IsFcn
  <2>8. Lists(n, G, OldBlocks)
    BY <2>3, <2>6, <2>7, <2>a DEF Lists
  <2>9. \A x \in DOMAIN m : x \notin OldBlocks /\ x # l => n[x] = m[x]
    BY <2>1, <2>3
  <2> QED
    BY <1>2, <2>8, <2>9 DEF n, G
<1> QED
  BY <1>1, <1>2

\* The lists but that of p.
Without(H, B, p) == [b \in B |-> IF b = p THEN {} ELSE H[b]]

\* gc_update_threaded_pointers: the places on the list of p hold its new address,
\* its header is back, and the other lists are as they were.
LEMMA ListUndone ==
  ASSUME Ready, NEW m, NEW H, NEW B \in SUBSET OldBlocks, Lists(m, H, B), NEW p \in B, NEW new
  PROVE  LET u == gc_update_threaded_pointers(m, p, new) IN
            /\ Lists(u, Without(H, B, p), B)
            /\ u[p] = swept_mem[p]
            /\ \A x \in H[p] : u[x] = Ptr(new)
            /\ \A x \in DOMAIN m : x # p /\ x \notin H[p] => u[x] = m[x]
<1> DEFINE u == gc_update_threaded_pointers(m, p, new)
           G == Without(H, B, p)
<1>1. DOMAIN m = DOMAIN swept_mem /\ IsFiniteSet(DOMAIN m)
  BY DEF Lists, Ready
<1>2. ASSUME NEW b \in B
      PROVE  /\ Listed(m, b, swept_mem[b], H[b]) /\ b \in DOMAIN m /\ ~JS_IsPtr(swept_mem[b])
             /\ \A x \in H[b] : /\ x \in Places /\ JS_IsPtr(swept_mem[x]) /\ swept_mem[x].a = b
                                /\ x \in DOMAIN m /\ x \notin OldBlocks
  <2>1. /\ Listed(m, b, swept_mem[b], H[b])
        /\ \A x \in H[b] : x \in Places /\ JS_IsPtr(swept_mem[x]) /\ swept_mem[x].a = b
    BY <1>2 DEF Lists
  <2>2. b \in DOMAIN m /\ ~JS_IsPtr(swept_mem[b])
    BY <1>1, ReadyFacts
  <2> QED
    BY <1>1, <2>1, <2>2, PlaceFacts
<1>3. Chain(m, p) = H[p] /\ ChainEnd(m, p) = swept_mem[p]
  BY <1>1, <1>2, ListFollowed
<1>4. u = [l \in DOMAIN m |-> IF l = p THEN swept_mem[p] ELSE IF l \in H[p] THEN Ptr(new) ELSE m[l]]
  BY <1>3 DEF gc_update_threaded_pointers
<1> HIDE DEF u
<1>5. /\ DOMAIN u = DOMAIN m /\ u[p] = swept_mem[p]
      /\ \A x \in H[p] : u[x] = Ptr(new)
      /\ \A x \in DOMAIN m : x # p /\ x \notin H[p] => u[x] = m[x]
  BY <1>2, <1>4
<1>6. ASSUME NEW b \in B
      PROVE  /\ Listed(u, b, swept_mem[b], G[b])
             /\ \A x \in G[b] : x \in Places /\ JS_IsPtr(swept_mem[x]) /\ swept_mem[x].a = b
  <2>1. CASE b = p
    <3>1. Listed(u, p, u[p], {})
      BY <1>2, <1>5, NoneListed
    <3> QED
      BY <1>5, <2>1, <3>1 DEF Without
  <2>2. CASE b # p
    <3>1. \A x \in H[b] \cup {b} : u[x] = m[x]
      <4>1. \A x \in H[b] \cup {b} : x \in DOMAIN m /\ x # p /\ x \notin H[p]
        BY <1>2, <2>2
      <4> QED
        BY <1>5, <4>1
    <3>2. Listed(u, b, swept_mem[b], H[b])
      BY <1>2, <1>5, <3>1, ListKept
    <3> QED
      BY <1>2, <2>2, <3>2 DEF Without
  <2> QED
    BY <2>1, <2>2
<1>7. Lists(u, G, B)
  <2>1. IsFcn(u)
    BY <1>4 DEF IsFcn
  <2> HIDE DEF G
  <2> QED
    BY <1>1, <1>5, <1>6, <2>1 DEF Lists
<1> QED
  BY <1>5, <1>7 DEF u

\* gc_thread_block puts all fields of p on the lists of the blocks they refer to.
LEMMA BlockThreads ==
  ASSUME Ready, NEW m, NEW H, Lists(m, H, OldBlocks), NEW p \in OldBlocks,
         \A l \in SlotAddrs(p) : m[l] = swept_mem[l] /\ \A b \in OldBlocks : l \notin H[b]
  PROVE  LET n == gc_thread_block(m, p, swept_mem[p])
             G == [b \in OldBlocks |-> H[b] \cup {l \in SlotAddrs(p) : JS_IsPtr(swept_mem[l]) /\ swept_mem[l].a = b}]
         IN /\ Lists(n, G, OldBlocks)
            /\ \A x \in DOMAIN m :
                 x \notin OldBlocks /\ (x \notin SlotAddrs(p) \/ ~JS_IsPtr(swept_mem[x])) => n[x] = m[x]
<1> DEFINE k == swept_mem[p].n - 1
           D == DOMAIN m
           V == {m[x] : x \in D} \cup {Ptr(x) : x \in D}
           W == [D -> V]
           Stepped(i, x) == IF i \in Slots(p) THEN gc_thread_pointer(x, p + i) ELSE x
           g == [i \in 1 .. k |-> [x \in W |-> IF Stepped(i, x) \in W THEN Stepped(i, x) ELSE x]]
           Done(i) == {p + j : j \in {j \in Slots(p) : j <= i}}
           G(i) == [b \in OldBlocks |-> H[b] \cup {l \in Done(i) : JS_IsPtr(swept_mem[l]) /\ swept_mem[l].a = b}]
           Good(i, n) ==
             /\ n \in W
             /\ Lists(n, G(i), OldBlocks)
             /\ \A x \in D : x \notin OldBlocks /\ (x \notin Done(i) \/ ~JS_IsPtr(swept_mem[x])) => n[x] = m[x]
           Is(f) == f = [i \in 0 .. k |-> IF i = 0 THEN m ELSE Stepped(i, f[i - 1])]
           P == CHOOSE f : Is(f)
<1>1. /\ k \in Nat /\ D = DOMAIN swept_mem /\ p \in Nat
      /\ \A i \in Slots(p) : i \in 1 .. k
      /\ SlotAddrs(p) = Done(k) /\ Done(0) = {}
  <2>1. k \in Nat /\ D = DOMAIN swept_mem /\ p \in Nat /\ \A i \in Slots(p) : i \in 1 .. k
    BY ReadyFacts DEF Lists, Ready
  <2>2. \A i \in Slots(p) : i <= k /\ ~(i <= 0)
    BY <2>1
  <2> HIDE DEF k
  <2> QED
    BY <2>1, <2>2 DEF SlotAddrs
<1>2. ASSUME NEW i \in 1 .. k, NEW n, Good(i - 1, n)
      PROVE  Good(i, Stepped(i, n))
  <2>1. /\ n \in W /\ Lists(n, G(i - 1), OldBlocks) /\ i - 1 \in Int /\ i \in Int
        /\ \A x \in D : x \notin OldBlocks /\ (x \notin Done(i - 1) \/ ~JS_IsPtr(swept_mem[x])) => n[x] = m[x]
    BY <1>1, <1>2
  <2>2. CASE i \notin Slots(p)
    <3>1. Done(i) = Done(i - 1)
      <4>1. \A j \in Slots(p) : j <= i <=> j <= i - 1
        BY <1>1, <2>1, <2>2
      <4> QED
        BY <4>1
    <3>2. Stepped(i, n) = n
      BY <2>2
    <3> HIDE DEF Stepped, Done, W
    <3> QED
      BY <2>1, <3>1, <3>2
  <2>3. CASE i \in Slots(p)
    <3> DEFINE l == p + i
               z == gc_thread_pointer(n, l)
               Q == [b \in OldBlocks |-> IF JS_IsPtr(swept_mem[l]) /\ swept_mem[l].a = b
                                         THEN G(i - 1)[b] \cup {l} ELSE G(i - 1)[b]]
    <3>1. l \in SlotAddrs(p) /\ l \in Places /\ l \in D /\ l \notin OldBlocks
      <4>1. l \in SlotAddrs(p) /\ l \in Places
        BY <2>3 DEF SlotAddrs, Places
      <4> HIDE DEF l
      <4> QED
        BY <1>1, <4>1, PlaceFacts
    <3>2. l \notin Done(i - 1) /\ Done(i) = Done(i - 1) \cup {l}
      <4>1. \A j \in Slots(p) : j \in Int /\ (j <= i <=> j <= i - 1 \/ j = i)
        BY <1>1, <2>1
      <4>2. \A j \in Slots(p) : j <= i - 1 => p + j # l
        BY <1>1, <2>1, <4>1
      <4> QED
        BY <2>3, <4>1, <4>2
    <3>3. n[l] = swept_mem[l] /\ \A b \in OldBlocks : l \notin G(i - 1)[b]
      <4>1. m[l] = swept_mem[l] /\ \A b \in OldBlocks : l \notin H[b]
        BY <3>1
      <4> HIDE DEF l, Done
      <4> QED
        BY <2>1, <3>1, <3>2, <4>1
    <3>4. Stepped(i, n) = z
      BY <2>3
    <3>5. /\ Lists(z, Q, OldBlocks)
          /\ \A x \in DOMAIN n : x \notin OldBlocks /\ (x # l \/ ~JS_IsPtr(swept_mem[l])) => z[x] = n[x]
      <4> HIDE DEF l, G
      <4>1. n[l] = swept_mem[l] /\ l \in Places /\ \A b \in OldBlocks : l \notin G(i - 1)[b]
        BY <3>1, <3>3
      <4> QED
        BY <2>1, <4>1, PlaceThreaded
    <3>6. Q = G(i)
      <4> HIDE DEF l, Done
      <4>1. \A b \in OldBlocks : Q[b] = G(i)[b]
        BY <3>2
      <4> QED
        BY <4>1
    <3>7. \A x \in D : x \notin OldBlocks /\ (x \notin Done(i) \/ ~JS_IsPtr(swept_mem[x])) => z[x] = m[x]
      <4>1. DOMAIN n = D
        BY <2>1
      <4> HIDE DEF l, Done, z
      <4> QED
        BY <2>1, <3>2, <3>5, <4>1
    <3>8. z \in W
      <4>1. CASE ~JS_IsPtr(swept_mem[l])
        BY <2>1, <3>3, <4>1 DEF gc_thread_pointer
      <4>2. CASE JS_IsPtr(swept_mem[l])
        <5> DEFINE a == swept_mem[l].a
        <5>1. a \in D /\ l \in D
          <6> HIDE DEF l
          <6> QED
            BY <1>1, <3>1, <4>2, PlaceFacts, ReadyFacts
        <5>2. z = [n EXCEPT ![l] = n[a], ![a] = Ptr(l)]
          BY <3>3, <4>2 DEF gc_thread_pointer
        <5>3. Ptr(l) \in V /\ n[a] \in V /\ n \in [D -> V]
          BY <2>1, <5>1
        <5> HIDE DEF z, a, l, V, D
        <5> QED
          BY <5>1, <5>2, <5>3
      <4> QED
        BY <4>1, <4>2
    <3> HIDE DEF z, l, Done, Q, G, Stepped
    <3> QED
      BY <3>4, <3>5, <3>6, <3>7, <3>8
  <2> QED
    BY <2>2, <2>3
<1>3. Good(0, m)
  <2>1. \A b \in OldBlocks : G(0)[b] = H[b]
    BY <1>1
  <2>2. m \in W
    <3>1. m = [x \in D |-> m[x]]
      BY DEF Lists, IsFcn
    <3> QED
      BY <3>1
  <2>3. Lists(m, G(0), OldBlocks)
    <3> HIDE DEF G
    <3> QED
      BY <2>1 DEF Lists
  <2> QED
    BY <2>2, <2>3
<1>a. gc_thread_block(m, p, swept_mem[p]) = P[k]
  BY DEF gc_thread_block, Slots
<1> DEFINE n0 == gc_thread_block(m, p, swept_mem[p])
           G0 == [b \in OldBlocks |-> H[b] \cup {l \in SlotAddrs(p) : JS_IsPtr(swept_mem[l]) /\ swept_mem[l].a = b}]
<1>b. G(k) = G0
  BY <1>1
<1> HIDE DEF P
<1>4. PICK f : Is(f)
  <2>1. \A i \in 1 .. k : g[i] \in [W -> W]
    <3> HIDE DEF W, Stepped
    <3> QED
      OBVIOUS
  <2>2. m \in W
    BY <1>3
  <2>a. PICK f : StepsBy(f, k, W, m, g)
    <3>1. k \in Nat
      BY <1>1
    <3> HIDE DEF W, g, k
    <3> QED
      BY <2>1, <2>2, <3>1, StepsExist
  <2>3. f \in [0 .. k -> W] /\ f[0] = m /\ \A i \in 1 .. k : f[i] = g[i][f[i - 1]]
    <3> HIDE DEF W, g, k
    <3> QED
      BY <2>a DEF StepsBy
  <2> HIDE DEF W, Stepped, Good, k
  <2>4. \A i \in 1 .. k : i - 1 \in 0 .. k /\ f[i - 1] \in W
    BY <1>1, <2>3
  <2>5. \A i \in 1 .. k : f[i] = IF Stepped(i, f[i - 1]) \in W THEN Stepped(i, f[i - 1]) ELSE f[i - 1]
    BY <2>3, <2>4
  <2> DEFINE T == {i \in 0 .. k : Good(i, f[i])}
  <2>6. \A i \in 0 .. k : i \in T
    <3>1. 0 \in T
      BY <1>1, <1>3, <2>3
    <3>2. ASSUME NEW i \in 1 .. k, i - 1 \in T
          PROVE  i \in T
      <4>1. Good(i, Stepped(i, f[i - 1]))
        BY <1>2, <3>2
      <4>2. f[i] = Stepped(i, f[i - 1])
        BY <2>5, <4>1 DEF Good
      <4> QED
        BY <1>1, <4>1, <4>2
    <3> HIDE DEF T
    <3> QED
      BY <1>1, <3>1, <3>2, UpTo
  <2>7. ASSUME NEW i \in 1 .. k
        PROVE  f[i] = Stepped(i, f[i - 1])
    <3>1. i - 1 \in T
      BY <2>4, <2>6
    <3>2. Good(i, Stepped(i, f[i - 1]))
      BY <1>2, <3>1
    <3> QED
      BY <2>5, <3>2 DEF Good
  <2>8. f = [i \in 0 .. k |-> IF i = 0 THEN m ELSE Stepped(i, f[i - 1])]
    BY <1>1, <2>3, <2>7
  <2> QED
    BY <2>8
<1>5. Is(P)
  BY <1>4 DEF P
<1> HIDE DEF Good, Stepped
<1>6. P[0] = m /\ \A i \in 1 .. k : P[i] = Stepped(i, P[i - 1])
  BY <1>1, <1>5
<1> DEFINE T == {i \in 0 .. k : Good(i, P[i])}
<1>7. k \in T
  <2>1. 0 \in T
    BY <1>1, <1>3, <1>6
  <2>2. ASSUME NEW i \in 1 .. k, i - 1 \in T
        PROVE  i \in T
    BY <1>2, <1>6, <2>2
  <2> HIDE DEF T, k
  <2>3. \A i \in 0 .. k : i \in T
    BY <1>1, <2>1, <2>2, UpTo
  <2> QED
    BY <1>1, <2>3
<1>8. Lists(P[k], G(k), OldBlocks)
  BY <1>7 DEF Good
<1>9. \A x \in D : x \notin OldBlocks /\ (x \notin Done(k) \/ ~JS_IsPtr(swept_mem[x])) => P[k][x] = m[x]
  BY <1>7 DEF Good
<1> HIDE DEF k, Done, G
<1>10. /\ Lists(n0, G0, OldBlocks)
       /\ \A x \in D : x \notin OldBlocks /\ (x \notin SlotAddrs(p) \/ ~JS_IsPtr(swept_mem[x])) => n0[x] = m[x]
  <2> HIDE DEF D, G0
  <2> QED
    BY <1>1, <1>8, <1>9, <1>a, <1>b
<1> QED
  BY <1>10
-----------------------------------------------------------------------------
(* The passes.  What the memory m is like in each of them: which places     *)
(* wait on which list, and what the other words hold.                       *)

Fwd(w) == IF JS_IsPtr(w) THEN Ptr(Target(w.a)) ELSE w

\* Locations outside of the heap are threaded one after the other: those from e
\* on are not yet.
RootLists(e) ==
  [b \in OldBlocks |-> {l \in ExtOf(swept_mem) : l > e /\ JS_IsPtr(swept_mem[l]) /\ swept_mem[l].a = b}]
InRoots(m, e) ==
  /\ e \in Int
  /\ Lists(m, RootLists(e), OldBlocks)
  /\ \A l \in DOMAIN swept_mem :
       l \notin OldBlocks /\ ~(l < 0 /\ l > e /\ JS_IsPtr(swept_mem[l])) => m[l] = swept_mem[l]

\* The fields of the blocks before p are threaded.  A reference to a block from p
\* on waits on its list; one that was there when its block was reached has the
\* new address; one back to a block before its own waits for the second pass.
Threaded1(p) ==
  {l \in Places : JS_IsPtr(swept_mem[l]) /\ (l < 0 \/ \E a \in OldBlocks : a < p /\ l \in SlotAddrs(a))}
Waits1(l, p) ==
  \/ swept_mem[l].a >= p
  \/ \E a \in OldBlocks : l \in SlotAddrs(a) /\ swept_mem[l].a < a
Lists1(p) == [b \in OldBlocks |-> {l \in Threaded1(p) : swept_mem[l].a = b /\ Waits1(l, p)}]
InPass1(m, p) ==
  /\ Lists(m, Lists1(p), OldBlocks)
  /\ \A l \in Threaded1(p) : ~Waits1(l, p) => m[l] = Ptr(Target(swept_mem[l].a))
  /\ \A l \in DOMAIN swept_mem : l \notin OldBlocks /\ l \notin Threaded1(p) => m[l] = swept_mem[l]

LEMMA RootThreads ==
  ASSUME Ready, NEW m, NEW e \in DOMAIN swept_mem, e < 0, InRoots(m, e)
  PROVE  InRoots(gc_thread_pointer(m, e), e - 1)
<1> DEFINE n == gc_thread_pointer(m, e)
           H == RootLists(e)
           G == [b \in OldBlocks |-> IF JS_IsPtr(swept_mem[e]) /\ swept_mem[e].a = b THEN H[b] \cup {e} ELSE H[b]]
<1>1. /\ e \in Int /\ Lists(m, H, OldBlocks) /\ e \in ExtOf(swept_mem) /\ e \in Places
      /\ DOMAIN m = DOMAIN swept_mem
      /\ \A l \in DOMAIN swept_mem :
           l \notin OldBlocks /\ ~(l < 0 /\ l > e /\ JS_IsPtr(swept_mem[l])) => m[l] = swept_mem[l]
  BY DEF InRoots, ExtOf, Places, Lists
<1>2. e \notin OldBlocks /\ \A l \in DOMAIN swept_mem : l \in Int
  BY <1>1, PlaceFacts, ReadyFacts
<1>3. m[e] = swept_mem[e] /\ \A b \in OldBlocks : e \notin H[b]
  BY <1>1, <1>2 DEF RootLists
<1> HIDE DEF H
<1>4. /\ Lists(n, G, OldBlocks)
      /\ \A x \in DOMAIN m : x \notin OldBlocks /\ (x # e \/ ~JS_IsPtr(swept_mem[e])) => n[x] = m[x]
  BY <1>1, <1>3, PlaceThreaded
<1>5. G = RootLists(e - 1)
  <2>1. ASSUME NEW b \in OldBlocks
        PROVE  G[b] = RootLists(e - 1)[b]
    <3>1. \A l \in ExtOf(swept_mem) : l \in Int /\ (l > e - 1 <=> l > e \/ l = e)
      BY <1>1, <1>2 DEF ExtOf
    <3> QED
      BY <1>1, <3>1 DEF H, RootLists
  <2> HIDE DEF G
  <2>2. DOMAIN G = OldBlocks /\ G = [b \in OldBlocks |-> G[b]]
    BY DEF G
  <2> QED
    BY <2>1, <2>2 DEF RootLists
<1>6. ASSUME NEW l \in DOMAIN swept_mem, l \notin OldBlocks, ~(l < 0 /\ l > e - 1 /\ JS_IsPtr(swept_mem[l]))
      PROVE  n[l] = swept_mem[l]
  <2>1. ~(l < 0 /\ l > e /\ JS_IsPtr(swept_mem[l])) /\ (l # e \/ ~JS_IsPtr(swept_mem[e]))
    BY <1>1, <1>2, <1>6
  <2> HIDE DEF n
  <2> QED
    BY <1>1, <1>4, <1>6, <2>1
<1> QED
  BY <1>1, <1>4, <1>5, <1>6 DEF InRoots

LEMMA RootsThreaded ==
  ASSUME Ready, NEW m, NEW e, e \notin DOMAIN swept_mem, e < 0, InRoots(m, e)
  PROVE  InPass1(m, 1)
<1>1. /\ e \in Int /\ Lists(m, RootLists(e), OldBlocks)
      /\ \A l \in DOMAIN swept_mem :
           l \notin OldBlocks /\ ~(l < 0 /\ l > e /\ JS_IsPtr(swept_mem[l])) => m[l] = swept_mem[l]
  BY DEF InRoots
<1>2. \A l \in ExtOf(swept_mem) : l > e /\ l < 0 /\ l \in DOMAIN swept_mem
  <2>1. Cardinality(ExtOf(swept_mem)) \in Nat
    BY EndFacts DEF Ready
  <2>2. \A l \in ExtOf(swept_mem) : l \in DOMAIN swept_mem /\ l < 0
    BY DEF ExtOf
  <2> QED
    BY <1>1, <2>1, <2>2 DEF Ready
<1>3. Threaded1(1) = {l \in ExtOf(swept_mem) : JS_IsPtr(swept_mem[l])}
  <2>1. \A l \in Places : l < 0 => l \in ExtOf(swept_mem)
    BY PlaceFacts DEF ExtOf
  <2>2. \A a \in OldBlocks : ~(a < 1)
    BY ReadyFacts
  <2>3. ExtOf(swept_mem) \subseteq Places
    BY DEF Places
  <2> QED
    BY <1>2, <2>1, <2>2, <2>3 DEF Threaded1
<1>4. \A l \in Threaded1(1) : Waits1(l, 1)
  <2>1. \A b \in OldBlocks : b >= 1
    BY ReadyFacts
  <2> QED
    BY <1>3, <2>1 DEF Waits1, Ready
<1>5. Lists1(1) = RootLists(e)
  <2>1. ASSUME NEW b \in OldBlocks
        PROVE  Lists1(1)[b] = RootLists(e)[b]
    BY <1>2, <1>3, <1>4 DEF Lists1, RootLists
  <2> QED
    BY <2>1 DEF Lists1, RootLists
<1>6. \A l \in DOMAIN swept_mem : l \notin OldBlocks /\ l \notin Threaded1(1) => m[l] = swept_mem[l]
  BY <1>1, <1>3 DEF ExtOf
<1> QED
  BY <1>1, <1>4, <1>5, <1>6 DEF InPass1

\* A free block has no list.
LEMMA NothingUndone ==
  ASSUME Ready, NEW m, IsFcn(m), DOMAIN m = DOMAIN swept_mem, NEW p \in DOMAIN m, ~JS_IsPtr(m[p]), NEW new
  PROVE  gc_update_threaded_pointers(m, p, new) = m
<1>1. Chain(m, p) = {} /\ ChainEnd(m, p) = m[p]
  BY NoneListed, ListFollowed DEF Ready
<1> QED
  BY <1>1 DEF gc_update_threaded_pointers, IsFcn

\* The block at p, with the next at q, is before all that come later.
LEMMA NextBlock ==
  ASSUME Ready, NEW p \in AllOld, NEW q, q = p + swept_mem[p].n
  PROVE  /\ p \in Int /\ q \in AllOld \cup {OldEnd} /\ q \in Int /\ p < q
         /\ \A a \in AllOld : a \in Int /\ (a < q <=> a < p \/ a = p) /\ (a >= q <=> a > p)
<1>1. p \in Int /\ q \in AllOld \cup {OldEnd} /\ swept_mem[p].n \in Nat \ {0} /\ \A a \in AllOld : a \in Int /\ (p < a => q <= a)
  BY ReadyFacts
<1>2. q \in Int /\ p < q
  BY <1>1
<1> QED
  BY <1>1, <1>2

LEMMA Pass1Free ==
  ASSUME Ready, NEW m, NEW p \in AllOld, p \notin OldBlocks, InPass1(m, p), NEW new
  PROVE  /\ gc_update_threaded_pointers(m, p, new) = m /\ m[p] = swept_mem[p]
         /\ InPass1(m, p + swept_mem[p].n)
<1> DEFINE q == p + swept_mem[p].n
<1>1. /\ Lists(m, Lists1(p), OldBlocks)
      /\ \A l \in Threaded1(p) : ~Waits1(l, p) => m[l] = Ptr(Target(swept_mem[l].a))
      /\ \A l \in DOMAIN swept_mem : l \notin OldBlocks /\ l \notin Threaded1(p) => m[l] = swept_mem[l]
  BY DEF InPass1
<1>2. p \in DOMAIN swept_mem /\ p \notin Threaded1(p) /\ ~JS_IsPtr(swept_mem[p])
  BY ReadyFacts, PlaceFacts DEF Threaded1
<1>3. gc_update_threaded_pointers(m, p, new) = m /\ m[p] = swept_mem[p]
  BY <1>1, <1>2, NothingUndone DEF Lists
<1>4. \A a \in OldBlocks : (a < q <=> a < p) /\ (a >= q <=> a >= p)
  <2>1. \A a \in OldBlocks : a \in AllOld /\ a # p
    BY ReadyFacts
  <2> QED
    BY <2>1, NextBlock
<1> HIDE DEF q
<1>5. Threaded1(q) = Threaded1(p)
  BY <1>4 DEF Threaded1
<1>6. \A l \in Threaded1(p) : swept_mem[l].a \in OldBlocks
  BY PlaceFacts DEF Threaded1
<1>7. \A l \in Threaded1(p) : Waits1(l, q) <=> Waits1(l, p)
  BY <1>4, <1>6 DEF Waits1
<1>8. Lists1(q) = Lists1(p)
  BY <1>5, <1>7 DEF Lists1
<1>9. InPass1(m, q)
  BY <1>1, <1>5, <1>7, <1>8 DEF InPass1
<1> QED
  BY <1>3, <1>9 DEF q

LEMMA Pass1Live ==
  ASSUME Ready, NEW m, NEW p \in OldBlocks, InPass1(m, p)
  PROVE  LET u == gc_update_threaded_pointers(m, p, Target(p)) IN
         /\ u[p] = swept_mem[p]
         /\ InPass1(gc_thread_block(u, p, swept_mem[p]), p + swept_mem[p].n)
<1> DEFINE u == gc_update_threaded_pointers(m, p, Target(p))
           n == gc_thread_block(u, p, swept_mem[p])
           q == p + swept_mem[p].n
           H == Lists1(p)
           G == Without(H, OldBlocks, p)
           K == [b \in OldBlocks |-> G[b] \cup {l \in SlotAddrs(p) : JS_IsPtr(swept_mem[l]) /\ swept_mem[l].a = b}]
<1>1. /\ Lists(m, H, OldBlocks) /\ DOMAIN m = DOMAIN swept_mem
      /\ \A l \in Threaded1(p) : ~Waits1(l, p) => m[l] = Ptr(Target(swept_mem[l].a))
      /\ \A l \in DOMAIN swept_mem : l \notin OldBlocks /\ l \notin Threaded1(p) => m[l] = swept_mem[l]
  BY DEF InPass1, Lists
<1>2. \A b \in OldBlocks : H[b] = {l \in Threaded1(p) : swept_mem[l].a = b /\ Waits1(l, p)}
  BY DEF Lists1
<1>3. /\ p \in AllOld /\ p \in Int /\ q \in Int
      /\ \A a \in OldBlocks : a \in Int /\ (a < q <=> a < p \/ a = p) /\ (a >= q <=> a > p)
  BY NextBlock, ReadyFacts
<1> HIDE DEF q, H
<1>4. /\ Lists(u, G, OldBlocks) /\ DOMAIN u = DOMAIN swept_mem
      /\ u[p] = swept_mem[p]
      /\ \A x \in H[p] : u[x] = Ptr(Target(p))
      /\ \A x \in DOMAIN m : x # p /\ x \notin H[p] => u[x] = m[x]
  <2>1. OldBlocks \in SUBSET OldBlocks /\ Lists(m, H, OldBlocks)
    BY <1>1
  <2>2. /\ Lists(u, G, OldBlocks)
        /\ u[p] = swept_mem[p]
        /\ \A x \in H[p] : u[x] = Ptr(Target(p))
        /\ \A x \in DOMAIN m : x # p /\ x \notin H[p] => u[x] = m[x]
    BY <2>1, ListUndone
  <2> HIDE DEF G, u
  <2> QED
    BY <2>2 DEF Lists
<1> HIDE DEF u
<1>5. ASSUME NEW l \in SlotAddrs(p)
      PROVE  /\ l \in Places /\ l \in DOMAIN swept_mem /\ l \notin OldBlocks /\ l \notin Threaded1(p)
             /\ ~(l < 0) /\ u[l] = swept_mem[l] /\ \A b \in OldBlocks : l \notin G[b]
             /\ JS_IsPtr(swept_mem[l]) => swept_mem[l].a \in OldBlocks /\ swept_mem[l].a # p
  <2>1. l \in Places
    BY DEF Places
  <2>2. l \in DOMAIN swept_mem /\ l \notin OldBlocks /\ ~(l < 0) /\ \A a \in OldBlocks : l \in SlotAddrs(a) => a = p
    BY <2>1, PlaceFacts, SlotFacts
  <2>3. l \notin Threaded1(p)
    BY <1>3, <2>2 DEF Threaded1
  <2>4. \A b \in OldBlocks : l \notin H[b]
    BY <1>2, <2>3
  <2>5. u[l] = swept_mem[l]
    BY <1>1, <1>4, <2>2, <2>3, <2>4
  <2>6. \A b \in OldBlocks : l \notin G[b]
    BY <2>4 DEF Without
  <2> QED
    BY <2>1, <2>2, <2>3, <2>5, <2>6, SlotFacts
<1>6. /\ Lists(n, K, OldBlocks)
      /\ \A x \in DOMAIN u : x \notin OldBlocks /\ (x \notin SlotAddrs(p) \/ ~JS_IsPtr(swept_mem[x])) => n[x] = u[x]
  <2> HIDE DEF G
  <2> QED
    BY <1>4, <1>5, BlockThreads
<1> HIDE DEF n
<1>7. ASSUME NEW l
      PROVE  l \in Threaded1(q) <=> l \in Threaded1(p) \/ (l \in SlotAddrs(p) /\ JS_IsPtr(swept_mem[l]))
  BY <1>3, <1>5 DEF Threaded1
<1>8. ASSUME NEW l \in Threaded1(p)
      PROVE  /\ Waits1(l, q) <=> Waits1(l, p) /\ swept_mem[l].a # p
             /\ l \in DOMAIN swept_mem /\ l \notin OldBlocks /\ swept_mem[l].a \in OldBlocks /\ l \notin SlotAddrs(p)
  <2>1. l \in Places /\ JS_IsPtr(swept_mem[l]) /\ (l < 0 \/ \E a \in OldBlocks : a < p /\ l \in SlotAddrs(a))
    BY <1>8 DEF Threaded1
  <2>2. l \in DOMAIN swept_mem /\ l \notin OldBlocks /\ swept_mem[l].a \in OldBlocks
    BY <2>1, PlaceFacts
  <2>3. \A a \in OldBlocks : l \in SlotAddrs(a) => a < p
    <3>1. ASSUME NEW a \in OldBlocks, l \in SlotAddrs(a)
          PROVE  a < p
      <4>1. ~(l < 0) /\ \A c \in OldBlocks : l \in SlotAddrs(c) => c = a
        BY <3>1, SlotFacts
      <4> QED
        BY <2>1, <4>1
    <3> QED
      BY <3>1
  <2>4. l \notin SlotAddrs(p)
    BY <1>3, <2>3
  <2>5. p \in Int /\ swept_mem[l].a \in Int /\ (swept_mem[l].a >= q <=> swept_mem[l].a > p)
    BY <1>3, <2>2
  <2>6. \A a \in OldBlocks : l \in SlotAddrs(a) /\ swept_mem[l].a < a => swept_mem[l].a < p
    BY <1>3, <2>3, <2>5
  <2>7. Waits1(l, q) <=> Waits1(l, p) /\ swept_mem[l].a # p
    <3> HIDE DEF G
    <3> QED
      BY <2>5, <2>6 DEF Waits1
  <2> QED
    BY <2>2, <2>4, <2>7
<1>9. ASSUME NEW l \in SlotAddrs(p), JS_IsPtr(swept_mem[l])
      PROVE  Waits1(l, q)
  <2>1. swept_mem[l].a \in OldBlocks /\ swept_mem[l].a # p
    BY <1>5, <1>9
  <2>2. \A a \in OldBlocks : a # p => a >= q \/ a < p
    BY <1>3
  <2> QED
    BY <1>9, <2>1, <2>2 DEF Waits1
<1>10. K = Lists1(q)
  <2>1. ASSUME NEW b \in OldBlocks
        PROVE  K[b] = {l \in Threaded1(q) : swept_mem[l].a = b /\ Waits1(l, q)}
    <3>1. K[b] = (IF b = p THEN {} ELSE H[b]) \cup {l \in SlotAddrs(p) : JS_IsPtr(swept_mem[l]) /\ swept_mem[l].a = b}
      BY DEF Without
    <3> HIDE DEF K
    <3>2. ASSUME NEW l \in K[b]
          PROVE  l \in Threaded1(q) /\ swept_mem[l].a = b /\ Waits1(l, q)
      <4>1. CASE l \in SlotAddrs(p) /\ JS_IsPtr(swept_mem[l]) /\ swept_mem[l].a = b
        BY <1>7, <1>9, <4>1
      <4>2. CASE b # p /\ l \in H[b]
        BY <1>2, <1>7, <1>8, <4>2
      <4> QED
        BY <3>1, <3>2, <4>1, <4>2
    <3>3. ASSUME NEW l \in Threaded1(q), swept_mem[l].a = b, Waits1(l, q)
          PROVE  l \in K[b]
      <4>1. CASE l \in SlotAddrs(p) /\ JS_IsPtr(swept_mem[l])
        BY <3>1, <3>3, <4>1
      <4>2. CASE l \in Threaded1(p)
        BY <1>2, <1>8, <3>1, <3>3, <4>2
      <4> QED
        BY <1>7, <4>1, <4>2
    <3> QED
      BY <3>2, <3>3
  <2>2. K = [b \in OldBlocks |-> K[b]]
    OBVIOUS
  <2> HIDE DEF K
  <2> QED
    BY <2>1, <2>2 DEF Lists1
<1> HIDE DEF K, G
<1>11. ASSUME NEW l \in Threaded1(q), ~Waits1(l, q)
       PROVE  n[l] = Ptr(Target(swept_mem[l].a))
  <2>1. l \in Threaded1(p) /\ l \in DOMAIN swept_mem /\ l \notin OldBlocks /\ l \notin SlotAddrs(p)
    BY <1>7, <1>8, <1>9, <1>11
  <2>2. n[l] = u[l]
    BY <1>4, <1>6, <2>1
  <2>3. CASE Waits1(l, p)
    <3>1. swept_mem[l].a = p
      BY <1>8, <1>11, <2>1, <2>3
    <3> QED
      BY <1>2, <1>4, <2>1, <2>2, <2>3, <3>1
  <2>4. CASE ~Waits1(l, p)
    BY <1>1, <1>2, <1>4, <2>1, <2>2, <2>4
  <2> QED
    BY <2>3, <2>4
<1>12. ASSUME NEW l \in DOMAIN swept_mem, l \notin OldBlocks, l \notin Threaded1(q)
       PROVE  n[l] = swept_mem[l]
  <2>1. l \notin Threaded1(p) /\ (l \notin SlotAddrs(p) \/ ~JS_IsPtr(swept_mem[l]))
    BY <1>7, <1>12
  <2> QED
    BY <1>1, <1>2, <1>4, <1>6, <1>12, <2>1
<1>13. InPass1(n, q)
  BY <1>6, <1>10, <1>11, <1>12 DEF InPass1
<1> QED
  BY <1>4, <1>13 DEF u, n, q
-----------------------------------------------------------------------------
\* In the second pass only references to an earlier block wait, and those to the
\* blocks before p have their new address.  What x will hold in the end:
Now(x) == IF x \in Places THEN Fwd(swept_mem[x]) ELSE swept_mem[x]

Backward(l) ==
  /\ l \in Places /\ JS_IsPtr(swept_mem[l])
  /\ \E a \in OldBlocks : l \in SlotAddrs(a) /\ swept_mem[l].a < a
From(p) == {b \in OldBlocks : b >= p}
Back == [b \in OldBlocks |-> {l \in Places : Backward(l) /\ swept_mem[l].a = b}]

\* The blocks before p are at their new places.
MovedTo(m, p) ==
  \A a \in OldBlocks : a < p => \A i \in 0 .. swept_mem[a].n - 1 : m[Target(a) + i] = Now(a + i)

InPass2At(m, p) ==
  /\ Lists(m, Back, From(p))
  /\ \A x \in DOMAIN swept_mem :
       (x < 0 \/ x >= p) /\ x \notin OldBlocks /\ ~(Backward(x) /\ swept_mem[x].a >= p) => m[x] = Now(x)
  /\ MovedTo(m, p)

LEMMA BackwardFacts ==
  ASSUME Ready, NEW l, Backward(l)
  PROVE  /\ l \in Places /\ l \in DOMAIN swept_mem /\ l \in Int /\ l > 0 /\ l \notin OldBlocks
         /\ JS_IsPtr(swept_mem[l]) /\ swept_mem[l].a \in OldBlocks
         /\ \A a \in OldBlocks : l \in SlotAddrs(a) => swept_mem[l].a < a
         /\ \A q \in AllOld \cup {OldEnd} : swept_mem[l].a >= q => l > q
         /\ l > swept_mem[l].a
<1>1. PICK a \in OldBlocks : l \in SlotAddrs(a) /\ swept_mem[l].a < a
  BY DEF Backward
<1>2. /\ l \in Places /\ JS_IsPtr(swept_mem[l]) /\ l \in DOMAIN swept_mem /\ l \notin OldBlocks
      /\ swept_mem[l].a \in OldBlocks
  BY PlaceFacts DEF Backward
<1>3. l \in 1 .. OldEnd - 1 /\ a < l /\ \A c \in OldBlocks : l \in SlotAddrs(c) => c = a
  BY <1>1, SlotFacts
<1>4. /\ OldEnd \in Int /\ a \in Int /\ swept_mem[l].a \in Int /\ \A q \in AllOld \cup {OldEnd} : q \in Int
  BY <1>2, ReadyFacts
<1>5. \A q \in AllOld \cup {OldEnd} : swept_mem[l].a >= q => l > q
  BY <1>1, <1>3, <1>4
<1> QED
  BY <1>1, <1>2, <1>3, <1>4, <1>5

LEMMA Pass1Over ==
  ASSUME Ready, NEW m, InPass1(m, OldEnd)
  PROVE  InPass2At(m, 1)
<1>1. /\ Lists(m, Lists1(OldEnd), OldBlocks)
      /\ \A l \in Threaded1(OldEnd) : ~Waits1(l, OldEnd) => m[l] = Ptr(Target(swept_mem[l].a))
      /\ \A l \in DOMAIN swept_mem : l \notin OldBlocks /\ l \notin Threaded1(OldEnd) => m[l] = swept_mem[l]
  BY DEF InPass1
<1>2. \A a \in OldBlocks : a \in Int /\ a < OldEnd /\ a >= 1 /\ ~(a >= OldEnd) /\ ~(a < 1)
  BY ReadyFacts
<1>3. Threaded1(OldEnd) = {l \in Places : JS_IsPtr(swept_mem[l])}
  <2>1. \A l \in ExtOf(swept_mem) : l < 0
    BY DEF ExtOf
  <2> QED
    BY <1>2, <2>1 DEF Threaded1, Places
<1>4. ASSUME NEW l \in Threaded1(OldEnd)
      PROVE  Waits1(l, OldEnd) <=> Backward(l)
  <2>1. l \in Places /\ JS_IsPtr(swept_mem[l]) /\ swept_mem[l].a \in OldBlocks
    BY <1>3, PlaceFacts
  <2> QED
    BY <1>2, <2>1 DEF Waits1, Backward
<1>5. Lists1(OldEnd) = Back
  <2>1. ASSUME NEW b \in OldBlocks
        PROVE  {l \in Threaded1(OldEnd) : swept_mem[l].a = b /\ Waits1(l, OldEnd)}
                 = {l \in Places : Backward(l) /\ swept_mem[l].a = b}
    <3>1. \A l \in Places : Backward(l) => l \in Threaded1(OldEnd)
      BY <1>3 DEF Backward
    <3>2. \A l \in Threaded1(OldEnd) : l \in Places
      BY <1>3
    <3> QED
      BY <1>4, <3>1, <3>2
  <2> QED
    BY <2>1 DEF Lists1, Back
<1>6. From(1) = OldBlocks
  BY <1>2 DEF From
<1>7. ASSUME NEW x \in DOMAIN swept_mem, x \notin OldBlocks, ~(Backward(x) /\ swept_mem[x].a >= 1)
      PROVE  m[x] = Now(x)
  <2>1. CASE x \in Threaded1(OldEnd)
    <3>1. x \in Places /\ JS_IsPtr(swept_mem[x]) /\ swept_mem[x].a >= 1
      BY <1>2, <1>3, <2>1, PlaceFacts
    <3>2. m[x] = Ptr(Target(swept_mem[x].a))
      BY <1>1, <1>4, <1>7, <2>1, <3>1
    <3> QED
      BY <3>1, <3>2 DEF Now, Fwd
  <2>2. CASE x \notin Threaded1(OldEnd)
    BY <1>1, <1>3, <1>7, <2>2 DEF Now, Fwd
  <2> QED
    BY <2>1, <2>2
<1>8. MovedTo(m, 1)
  BY <1>2 DEF MovedTo
<1> QED
  BY <1>1, <1>5, <1>6, <1>7, <1>8 DEF InPass2At

LEMMA Pass2Free ==
  ASSUME Ready, NEW m, NEW p \in AllOld, p \notin OldBlocks, InPass2At(m, p), NEW new
  PROVE  /\ gc_update_threaded_pointers(m, p, new) = m /\ m[p] = swept_mem[p]
         /\ InPass2At(m, p + swept_mem[p].n)
<1> DEFINE q == p + swept_mem[p].n
<1>1. /\ Lists(m, Back, From(p))
      /\ \A x \in DOMAIN swept_mem :
           (x < 0 \/ x >= p) /\ x \notin OldBlocks /\ ~(Backward(x) /\ swept_mem[x].a >= p) => m[x] = Now(x)
      /\ MovedTo(m, p)
  BY DEF InPass2At
<1>2. p \in DOMAIN swept_mem /\ ~JS_IsPtr(swept_mem[p]) /\ p \notin Places /\ p \in Int
  BY ReadyFacts, PlaceFacts
<1>3. m[p] = swept_mem[p]
  BY <1>1, <1>2 DEF Now, Backward
<1>4. gc_update_threaded_pointers(m, p, new) = m
  BY <1>1, <1>2, <1>3, NothingUndone DEF Lists
<1>5. q \in Int /\ p < q /\ \A a \in OldBlocks : (a < q <=> a < p) /\ (a >= q <=> a >= p)
  <2>1. \A a \in OldBlocks : a \in AllOld /\ a # p
    BY ReadyFacts
  <2> QED
    BY <2>1, NextBlock
<1> HIDE DEF q
<1>6. From(q) = From(p)
  BY <1>5 DEF From
<1>7. MovedTo(m, q)
  BY <1>1, <1>5 DEF MovedTo
<1>8. ASSUME NEW x \in DOMAIN swept_mem, x < 0 \/ x >= q, x \notin OldBlocks,
             ~(Backward(x) /\ swept_mem[x].a >= q)
      PROVE  m[x] = Now(x)
  <2>1. x < 0 \/ x >= p
    BY <1>2, <1>5, <1>8, ReadyFacts
  <2>2. ~(Backward(x) /\ swept_mem[x].a >= p)
    BY <1>5, <1>8, BackwardFacts
  <2> QED
    BY <1>1, <1>8, <2>1, <2>2
<1>9. InPass2At(m, q)
  BY <1>1, <1>6, <1>7, <1>8 DEF InPass2At
<1> QED
  BY <1>3, <1>4, <1>9 DEF q

LEMMA Pass2Live ==
  ASSUME Ready, NEW m, NEW p \in OldBlocks, InPass2At(m, p)
  PROVE  LET u == gc_update_threaded_pointers(m, p, Target(p)) IN
         /\ u[p] = swept_mem[p]
         /\ InPass2At(Moved(u, p, Target(p), swept_mem[p].n), p + swept_mem[p].n)
<1> DEFINE u == gc_update_threaded_pointers(m, p, Target(p))
           t == Target(p)
           z == swept_mem[p].n
           n == Moved(u, p, t, z)
           q == p + z
           G == Without(Back, From(p), p)
<1>1. /\ Lists(m, Back, From(p)) /\ DOMAIN m = DOMAIN swept_mem
      /\ \A x \in DOMAIN swept_mem :
           (x < 0 \/ x >= p) /\ x \notin OldBlocks /\ ~(Backward(x) /\ swept_mem[x].a >= p) => m[x] = Now(x)
      /\ MovedTo(m, p)
  BY DEF InPass2At, Lists
<1>2. /\ p \in AllOld /\ p \in Int /\ z \in Nat \ {0} /\ q \in AllOld \cup {OldEnd} /\ q \in Int /\ p < q
      /\ t \in Int /\ t >= 1 /\ t <= p /\ OldEnd \in Nat /\ q <= OldEnd
      /\ \A a \in OldBlocks : a \in Int /\ (a < q <=> a < p \/ a = p) /\ (a >= q <=> a > p)
  <2>1. p \in AllOld /\ p \in Int /\ z \in Nat \ {0} /\ OldEnd \in Nat
    BY ReadyFacts
  <2>2. /\ q \in AllOld \cup {OldEnd} /\ q \in Int /\ p < q
        /\ \A a \in OldBlocks : a \in Int /\ (a < q <=> a < p \/ a = p) /\ (a >= q <=> a > p)
    BY <2>1, NextBlock, ReadyFacts
  <2>3. t \in 1 .. p
    BY <2>1, TargetFacts
  <2>4. q <= OldEnd
    <3> HIDE DEF q
    <3> QED
      BY <2>1, <2>2, ReadyFacts
  <2> HIDE DEF q, t, z
  <2> QED
    BY <2>1, <2>2, <2>3, <2>4
<1>3. /\ \A b \in OldBlocks : Back[b] = {l \in Places : Backward(l) /\ swept_mem[l].a = b}
      /\ From(p) \in SUBSET OldBlocks /\ p \in From(p)
  BY <1>2 DEF Back, From
<1>4. /\ Lists(u, G, From(p)) /\ DOMAIN u = DOMAIN swept_mem
      /\ u[p] = swept_mem[p]
      /\ \A x \in Back[p] : u[x] = Ptr(t)
      /\ \A x \in DOMAIN m : x # p /\ x \notin Back[p] => u[x] = m[x]
  <2>1. /\ Lists(u, G, From(p))
        /\ u[p] = swept_mem[p]
        /\ \A x \in Back[p] : u[x] = Ptr(t)
        /\ \A x \in DOMAIN m : x # p /\ x \notin Back[p] => u[x] = m[x]
    BY <1>1, <1>3, ListUndone
  <2> HIDE DEF G, u, t
  <2> QED
    BY <2>1 DEF Lists
<1> HIDE DEF u, G
<1>5. /\ DOMAIN n = DOMAIN swept_mem /\ IsFcn(n)
      /\ \A x \in DOMAIN swept_mem : n[x] = IF x \in t .. t + z - 1 THEN u[x - t + p] ELSE u[x]
  BY <1>4 DEF Moved, IsFcn
<1> HIDE DEF n
<1>6. /\ \A x \in DOMAIN swept_mem : x \in Int
      /\ \A x \in Int : x \in t .. t + z - 1 => x >= 1 /\ x < q
      /\ \A x \in Int : x < t => x < p
  <2>1. \A x \in DOMAIN swept_mem : x \in Int
    BY ReadyFacts
  <2> HIDE DEF z, t
  <2>2. q = p + z
    OBVIOUS
  <2> HIDE DEF q
  <2> QED
    BY <1>2, <2>1, <2>2
<1>7. \A x \in DOMAIN swept_mem : x < 0 \/ x >= q => n[x] = u[x]
  <2> HIDE DEF q, t, z
  <2>1. \A x \in DOMAIN swept_mem : x < 0 \/ x >= q => x \notin t .. t + z - 1
    BY <1>2, <1>6
  <2> QED
    BY <1>5, <2>1
<1> HIDE DEF q
<1>8. ASSUME NEW b \in From(q)
      PROVE  /\ Listed(n, b, swept_mem[b], Back[b])
             /\ \A l \in Back[b] : l \in Places /\ JS_IsPtr(swept_mem[l]) /\ swept_mem[l].a = b
  <2>1. b \in OldBlocks /\ b >= q /\ b \in From(p) /\ b # p /\ b \in DOMAIN swept_mem
    <3>1. b \in OldBlocks /\ b >= q /\ b > p
      BY <1>2, <1>8 DEF From
    <3>2. b \in Int /\ b >= p /\ b # p
      BY <1>2, <3>1
    <3> QED
      BY <3>1, <3>2, ReadyFacts DEF From
  <2>2. Listed(u, b, swept_mem[b], Back[b])
    <3>1. Listed(u, b, swept_mem[b], G[b])
      BY <1>4, <2>1 DEF Lists
    <3>2. G[b] = Back[b]
      BY <2>1 DEF Without, G
    <3> QED
      BY <3>1, <3>2
  <2>3. ASSUME NEW l \in Back[b]
        PROVE  l \in DOMAIN swept_mem /\ l >= q /\ l \in Places /\ JS_IsPtr(swept_mem[l]) /\ swept_mem[l].a = b
    <3>1. Backward(l) /\ swept_mem[l].a = b
      BY <1>3, <2>1, <2>3
    <3>2. l \in DOMAIN swept_mem /\ l \in Int /\ l > q /\ l \in Places /\ JS_IsPtr(swept_mem[l])
      BY <1>2, <2>1, <3>1, BackwardFacts
    <3> QED
      BY <1>2, <3>1, <3>2
  <2>4. \A x \in Back[b] \cup {b} : n[x] = u[x]
    BY <1>7, <2>1, <2>3
  <2>5. Listed(n, b, swept_mem[b], Back[b])
    BY <1>4, <1>5, <2>2, <2>4, ListKept
  <2> QED
    BY <2>3, <2>5
<1>9. Lists(n, Back, From(q))
  BY <1>5, <1>8 DEF Lists
<1>10. ASSUME NEW x \in DOMAIN swept_mem, x < 0 \/ x >= q, x \notin OldBlocks,
              ~(Backward(x) /\ swept_mem[x].a >= q)
       PROVE  n[x] = Now(x)
  <2>1. n[x] = u[x] /\ x # p
    BY <1>7, <1>10
  <2>2. CASE x \in Back[p]
    <3>1. u[x] = Ptr(t) /\ Backward(x) /\ swept_mem[x].a = p
      BY <1>3, <1>4, <2>2
    <3>2. x \in Places /\ JS_IsPtr(swept_mem[x])
      BY <3>1 DEF Backward
    <3> QED
      BY <2>1, <3>1, <3>2 DEF Now, Fwd
  <2>3. CASE x \notin Back[p]
    <3>1. x < 0 \/ x >= p
      BY <1>2, <1>6, <1>10
    <3>2. ~(Backward(x) /\ swept_mem[x].a >= p)
      <4> SUFFICES ASSUME Backward(x), swept_mem[x].a >= p
                   PROVE  FALSE
        OBVIOUS
      <4>1. swept_mem[x].a \in OldBlocks /\ x \in Places
        BY BackwardFacts
      <4>2. swept_mem[x].a = p
        <5> DEFINE b == swept_mem[x].a
        <5>1. b \in OldBlocks /\ b >= p /\ ~(b >= q)
          BY <1>10, <4>1
        <5> HIDE DEF b
        <5>2. b = p
          BY <1>2, <5>1
        <5> QED
          BY <5>2 DEF b
      <4> QED
        BY <1>3, <2>3, <4>1, <4>2
    <3> QED
      BY <1>1, <1>4, <1>10, <2>1, <2>3, <3>1, <3>2
  <2> QED
    BY <2>2, <2>3
<1>11. ASSUME NEW a \in OldBlocks, a < q, NEW i \in 0 .. swept_mem[a].n - 1
       PROVE  n[Target(a) + i] = Now(a + i)
  <2>1. CASE a < p
    <3> DEFINE y == Target(a) + i
    <3>1. Target(a) \in 1 .. a /\ Target(a) + swept_mem[a].n <= t /\ a \in Int /\ swept_mem[a].n \in Nat
      BY <1>2, <2>1, TargetFacts, ReadyFacts
    <3>2. y \in Int /\ y >= 1 /\ y < t /\ y < p /\ y < OldEnd
      <4> HIDE DEF t
      <4> QED
        BY <1>2, <3>1
    <3>3. y \in DOMAIN swept_mem /\ y # p
      BY <1>2, <3>2, ReadyFacts
    <3> HIDE DEF y
    <3>4. n[y] = u[y]
      BY <1>2, <1>5, <3>2, <3>3
    <3>5. y \notin Back[p]
      <4> SUFFICES ASSUME y \in Back[p]
                   PROVE  FALSE
        OBVIOUS
      <4>1. Backward(y) /\ swept_mem[y].a = p
        BY <1>3
      <4>2. y > p
        BY <4>1, BackwardFacts
      <4> QED
        BY <1>2, <3>2, <4>2
    <3>6. u[y] = m[y]
      BY <1>1, <1>4, <3>3, <3>5
    <3>7. m[y] = Now(a + i)
      BY <1>1, <2>1 DEF MovedTo, y
    <3> QED
      BY <3>4, <3>6, <3>7 DEF y
  <2>2. CASE a = p
    <3> DEFINE y == t + i
               x == p + i
    <3>1. i \in 0 .. z - 1
      BY <1>11, <2>2
    <3>2. /\ x \in DOMAIN swept_mem /\ x \in Int /\ x >= p /\ (i # 0 => x \notin OldBlocks)
          /\ y \in DOMAIN swept_mem /\ y \in t .. t + z - 1 /\ y - t + p = x
      <4>1. x \in DOMAIN swept_mem /\ x \in 1 .. OldEnd - 1 /\ (i # 0 => x \notin AllOld)
        BY <1>2, <3>1, WordFacts
      <4> HIDE DEF t, z
      <4>2. i \in Int /\ i >= 0 /\ i <= z - 1
        BY <1>2, <3>1
      <4>3. y \in 1 .. OldEnd - 1 /\ y \in t .. t + z - 1 /\ y - t + p = x /\ x >= p
        BY <1>2, <4>1, <4>2
      <4> HIDE DEF x, y
      <4> QED
        BY <4>1, <4>3, ReadyFacts
    <3>3. n[y] = u[x]
      <4> HIDE DEF x, y
      <4> QED
        BY <1>5, <3>2
    <3>4. CASE i = 0
      <4>1. x = p /\ p \notin Places
        BY <1>2, <3>4, PlaceFacts
      <4>2. Now(x) = swept_mem[p]
        BY <4>1 DEF Now
      <4> QED
        BY <1>4, <2>2, <3>3, <4>1, <4>2
    <3>5. CASE i # 0
      <4>1. x \notin OldBlocks /\ x # p
        BY <1>2, <3>2, <3>5
      <4>2. ASSUME Backward(x)
            PROVE  swept_mem[x].a < p
        <5>1. \A c \in OldBlocks : x \in SlotAddrs(c) => swept_mem[x].a < c
          BY <4>2, BackwardFacts
        <5>2. PICK c \in OldBlocks : x \in SlotAddrs(c)
          BY <4>2 DEF Backward
        <5>3. PICK j \in Slots(c) : x = c + j
          BY <5>2 DEF SlotAddrs
        <5>4. c \in AllOld /\ j \in 0 .. swept_mem[c].n - 1
          BY ReadyFacts DEF Ready
        <5>5. c = p
          BY <1>2, <3>1, <5>3, <5>4, WordFacts
        <5> QED
          BY <5>1, <5>2, <5>5
      <4>3. Backward(x) => swept_mem[x].a \in Int
        BY BackwardFacts, ReadyFacts
      <4>4. x \notin Back[p] /\ ~(Backward(x) /\ swept_mem[x].a >= p)
        <5> HIDE DEF x
        <5> QED
          BY <1>2, <1>3, <4>2, <4>3
      <4> HIDE DEF x, y
      <4>5. u[x] = Now(x)
        BY <1>1, <1>4, <3>2, <4>1, <4>4
      <4> QED
        BY <2>2, <3>3, <4>5 DEF x, y
    <3> QED
      BY <3>4, <3>5
  <2> QED
    BY <1>2, <1>11, <2>1, <2>2
<1>12. MovedTo(n, q)
  BY <1>11 DEF MovedTo
<1>13. InPass2At(n, q)
  BY <1>9, <1>10, <1>12 DEF InPass2At
<1> QED
  BY <1>4, <1>13 DEF u, n, q
-----------------------------------------------------------------------------
(* The steps of the compaction.                                            *)

CompactInv ==
  /\ Ready
  /\ phase # "done" => heap_free = OldEnd
  /\ phase = "roots" => ext < 0 /\ InRoots(mem, ext) /\ ptr = 1 /\ new_ptr = 1
  /\ phase = "pass1" => ptr \in AllOld \cup {OldEnd} /\ new_ptr = Target(ptr) /\ InPass1(mem, ptr)
  /\ phase = "pass2" => ptr \in AllOld \cup {OldEnd} /\ new_ptr = Target(ptr) /\ InPass2At(mem, ptr)
  /\ phase = "done" => ptr = OldEnd /\ heap_free = Target(OldEnd) /\ InPass2At(mem, OldEnd)

\* What depends on the memory before the compaction alone stays.
LEMMA OldStays ==
  ASSUME swept_mem' = swept_mem
  PROVE  /\ OldEnd' = OldEnd /\ AllOld' = AllOld /\ OldBlocks' = OldBlocks
         /\ \A a : Target(a)' = Target(a)
         /\ \A a : SlotAddrs(a)' = SlotAddrs(a)
         /\ Places' = Places
<1>1. OldEnd' = OldEnd /\ AllOld' = AllOld /\ OldBlocks' = OldBlocks
  BY DEF OldEnd, AllOld, OldBlocks
<1>2. OldSize' = OldSize
  BY <1>1 DEF OldSize
<1>3. \A a : Target(a)' = Target(a)
  BY <1>1, <1>2 DEF Target
<1>4. \A a : SlotAddrs(a)' = SlotAddrs(a)
  BY DEF Slots, SlotAddrs
<1>5. Places' = Places
  BY <1>1, <1>4 DEF Places
<1> QED
  BY <1>1, <1>3, <1>4, <1>5

LEMMA ReadyStays ==
  ASSUME Ready, swept_mem' = swept_mem
  PROVE  Ready'
BY OldStays DEF Ready, Slots, SlotAddrs

LEMMA InRootsStays ==
  ASSUME swept_mem' = swept_mem, InRoots(mem', ext')
  PROVE  InRoots(mem, ext)'
<1>1. OldBlocks' = OldBlocks /\ Places' = Places
  BY OldStays
<1>2. RootLists(ext)' = RootLists(ext')
  BY <1>1 DEF RootLists
<1>3. Lists(mem, RootLists(ext), OldBlocks)'
  <2>1. Lists(mem', RootLists(ext'), OldBlocks)
    BY DEF InRoots
  <2> QED
    BY <1>1, <1>2, <2>1 DEF Lists, IsFcn
<1> QED
  BY <1>1, <1>3 DEF InRoots

LEMMA InPass1Stays ==
  ASSUME swept_mem' = swept_mem, InPass1(mem', ptr')
  PROVE  InPass1(mem, ptr)'
<1>1. OldBlocks' = OldBlocks /\ Places' = Places /\ \A a : SlotAddrs(a)' = SlotAddrs(a) /\ Target(a)' = Target(a)
  BY OldStays
<1>2. Threaded1(ptr)' = Threaded1(ptr')
  BY <1>1 DEF Threaded1
<1>3. \A l : Waits1(l, ptr)' <=> Waits1(l, ptr')
  BY <1>1 DEF Waits1
<1>4. Lists1(ptr)' = Lists1(ptr')
  BY <1>1, <1>2, <1>3 DEF Lists1
<1>5. Lists(mem, Lists1(ptr), OldBlocks)'
  <2>1. Lists(mem', Lists1(ptr'), OldBlocks)
    BY DEF InPass1
  <2> QED
    BY <1>1, <1>4, <2>1 DEF Lists, IsFcn
<1>6. (\A l \in Threaded1(ptr) : ~Waits1(l, ptr) => mem[l] = Ptr(Target(swept_mem[l].a)))'
  BY <1>1, <1>2, <1>3 DEF InPass1
<1>7. (\A l \in DOMAIN swept_mem : l \notin OldBlocks /\ l \notin Threaded1(ptr) => mem[l] = swept_mem[l])'
  BY <1>1, <1>2 DEF InPass1
<1> QED
  BY <1>5, <1>6, <1>7 DEF InPass1

LEMMA InPass2Stays ==
  ASSUME swept_mem' = swept_mem
  PROVE  /\ InPass2At(mem', ptr') => InPass2At(mem, ptr)'
         /\ InPass2At(mem', OldEnd) => InPass2At(mem, OldEnd)'
<1>1. /\ OldEnd' = OldEnd /\ OldBlocks' = OldBlocks /\ Places' = Places
      /\ \A a : SlotAddrs(a)' = SlotAddrs(a) /\ Target(a)' = Target(a)
  BY OldStays
<1>2. \A l : Backward(l)' <=> Backward(l)
  BY <1>1 DEF Backward
<1>3. Back' = Back
  BY <1>1, <1>2 DEF Back
<1>4. \A x : Now(x)' = Now(x)
  BY <1>1 DEF Now, Fwd
<1>5. From(ptr)' = From(ptr') /\ From(OldEnd)' = From(OldEnd)
  BY <1>1 DEF From
<1>6. ASSUME InPass2At(mem', ptr')
      PROVE  InPass2At(mem, ptr)'
  <2>1. Lists(mem, Back, From(ptr))'
    <3>1. Lists(mem', Back, From(ptr'))
      BY <1>6 DEF InPass2At
    <3> QED
      BY <1>1, <1>3, <1>5, <3>1 DEF Lists, IsFcn
  <2>2. MovedTo(mem, ptr)'
    <3>1. MovedTo(mem', ptr')
      BY <1>6 DEF InPass2At
    <3> QED
      BY <1>1, <1>4, <3>1 DEF MovedTo
  <2>3. (\A x \in DOMAIN swept_mem :
          (x < 0 \/ x >= ptr) /\ x \notin OldBlocks /\ ~(Backward(x) /\ swept_mem[x].a >= ptr)
            => mem[x] = Now(x))'
    BY <1>1, <1>2, <1>4, <1>6 DEF InPass2At
  <2> QED
    BY <2>1, <2>2, <2>3 DEF InPass2At
<1>7. ASSUME InPass2At(mem', OldEnd)
      PROVE  InPass2At(mem, OldEnd)'
  <2>1. Lists(mem, Back, From(OldEnd))'
    <3>1. Lists(mem', Back, From(OldEnd))
      BY <1>7 DEF InPass2At
    <3> QED
      BY <1>1, <1>3, <1>5, <3>1 DEF Lists, IsFcn
  <2>2. MovedTo(mem, OldEnd)'
    <3>1. MovedTo(mem', OldEnd)
      BY <1>7 DEF InPass2At
    <3> QED
      BY <1>1, <1>4, <3>1 DEF MovedTo
  <2>3. (\A x \in DOMAIN swept_mem :
          (x < 0 \/ x >= OldEnd) /\ x \notin OldBlocks /\ ~(Backward(x) /\ swept_mem[x].a >= OldEnd)
            => mem[x] = Now(x))'
    BY <1>1, <1>2, <1>4, <1>7 DEF InPass2At
  <2> QED
    BY <2>1, <2>2, <2>3 DEF InPass2At
<1> QED
  BY <1>6, <1>7

LEMMA CompactKept ==
  ASSUME CompactInv, Compacting, CompactNext
  PROVE  CompactInv' /\ Compacting' /\ swept_mem' = swept_mem
<1>1. /\ Ready /\ phase \in {"roots", "pass1", "pass2", "done"}
      /\ OldEnd \in Nat \ {0} /\ \A a \in AllOld : a \in Int /\ a < OldEnd
      /\ OldBlocks = {a \in AllOld : swept_mem[a].mtag # "free"}
      /\ 1 \in AllOld \cup {OldEnd}
  BY ReadyFacts DEF CompactInv, Compacting
<1>2. CASE ThreadRoot
  <2>1. /\ phase = "roots" /\ ext \in DOMAIN mem /\ mem' = gc_thread_pointer(mem, ext) /\ ext' = ext - 1
        /\ UNCHANGED <<heap_free, phase, ptr, new_ptr, swept_mem>>
    BY <1>2 DEF ThreadRoot
  <2>2. ext < 0 /\ InRoots(mem, ext) /\ ptr = 1 /\ new_ptr = 1 /\ heap_free = OldEnd
    BY <2>1 DEF CompactInv
  <2>3. ext \in DOMAIN swept_mem /\ ext \in Int
    BY <2>1, <2>2 DEF InRoots, Lists
  <2>4. InRoots(mem', ext')
    BY <1>1, <2>1, <2>2, <2>3, RootThreads
  <2>5. InRoots(mem, ext)' /\ Ready' /\ OldEnd' = OldEnd
    BY <1>1, <2>1, <2>4, InRootsStays, ReadyStays, OldStays
  <2> QED
    BY <2>1, <2>2, <2>3, <2>5 DEF CompactInv, Compacting
<1>3. CASE StartPass1
  <2>1. /\ phase = "roots" /\ ext \notin DOMAIN mem /\ phase' = "pass1"
        /\ UNCHANGED <<mem, heap_free, ptr, ext, new_ptr, swept_mem>>
    BY <1>3 DEF StartPass1, compactVars
  <2>2. ext < 0 /\ InRoots(mem, ext) /\ ptr = 1 /\ new_ptr = 1 /\ heap_free = OldEnd
    BY <2>1 DEF CompactInv
  <2>3. InPass1(mem, 1)
    <3>1. ext \notin DOMAIN swept_mem
      BY <2>1, <2>2 DEF InRoots, Lists
    <3> QED
      BY <1>1, <2>2, <3>1, RootsThreaded
  <2>4. /\ InPass1(mem, ptr)' /\ Ready' /\ OldEnd' = OldEnd /\ AllOld' = AllOld
        /\ (new_ptr = Target(ptr))'
    <3>1. InPass1(mem', ptr') /\ Target(1) = 1
      BY <1>1, <2>1, <2>2, <2>3, TargetFacts
    <3>2. Target(ptr)' = Target(1)
      BY <2>1, <2>2, OldStays
    <3> QED
      BY <1>1, <2>1, <2>2, <3>1, <3>2, InPass1Stays, ReadyStays, OldStays
  <2> QED
    BY <1>1, <2>1, <2>2, <2>4 DEF CompactInv, Compacting
<1>4. CASE Pass1Block
  <2> DEFINE u == gc_update_threaded_pointers(mem, ptr, new_ptr)
             h == u[ptr]
  <2>1. /\ phase = "pass1" /\ ptr < heap_free
        /\ mem' = IF h.mtag # "free" THEN gc_thread_block(u, ptr, h) ELSE u
        /\ new_ptr' = IF h.mtag # "free" THEN new_ptr + h.n ELSE new_ptr
        /\ ptr' = ptr + h.n
        /\ UNCHANGED <<heap_free, phase, ext, swept_mem>>
    BY <1>4 DEF Pass1Block
  <2>2. ptr \in AllOld \cup {OldEnd} /\ new_ptr = Target(ptr) /\ InPass1(mem, ptr) /\ heap_free = OldEnd
    BY <2>1 DEF CompactInv
  <2>3. ptr \in AllOld
    BY <1>1, <2>1, <2>2
  <2>4. h = swept_mem[ptr] /\ InPass1(mem', ptr + swept_mem[ptr].n)
    <3>1. CASE ptr \in OldBlocks
      <4>1. /\ u[ptr] = swept_mem[ptr]
            /\ InPass1(gc_thread_block(u, ptr, swept_mem[ptr]), ptr + swept_mem[ptr].n)
        BY <1>1, <2>2, <3>1, Pass1Live
      <4> HIDE DEF u
      <4> QED
        BY <1>1, <2>1, <3>1, <4>1
    <3>2. CASE ptr \notin OldBlocks
      <4>1. u = mem /\ mem[ptr] = swept_mem[ptr] /\ InPass1(mem, ptr + swept_mem[ptr].n)
        BY <1>1, <2>2, <2>3, <3>2, Pass1Free
      <4> HIDE DEF u
      <4> QED
        BY <1>1, <2>1, <2>3, <3>2, <4>1
    <3> QED
      BY <3>1, <3>2
  <2> HIDE DEF h
  <2>5. ptr' \in AllOld \cup {OldEnd} /\ new_ptr' = Target(ptr')
    <3>1. ptr + swept_mem[ptr].n \in AllOld \cup {OldEnd}
      BY <1>1, <2>3, ReadyFacts
    <3>2. Target(ptr + swept_mem[ptr].n) = IF ptr \in OldBlocks THEN Target(ptr) + swept_mem[ptr].n ELSE Target(ptr)
      BY <1>1, <2>3, TargetFacts
    <3> QED
      BY <1>1, <2>1, <2>2, <2>3, <2>4, <3>1, <3>2
  <2>6. InPass1(mem, ptr)' /\ Ready' /\ OldEnd' = OldEnd /\ AllOld' = AllOld /\ (new_ptr = Target(ptr))'
    <3>1. InPass1(mem', ptr')
      BY <2>1, <2>4
    <3>2. Target(ptr)' = Target(ptr')
      BY <2>1, OldStays
    <3> QED
      BY <1>1, <2>1, <2>5, <3>1, <3>2, InPass1Stays, ReadyStays, OldStays
  <2> QED
    BY <2>1, <2>2, <2>5, <2>6 DEF CompactInv, Compacting
<1>5. CASE StartPass2
  <2>1. /\ phase = "pass1" /\ ptr >= heap_free /\ phase' = "pass2" /\ ptr' = 1 /\ new_ptr' = 1
        /\ UNCHANGED <<mem, heap_free, ext, swept_mem>>
    BY <1>5 DEF StartPass2
  <2>2. ptr \in AllOld \cup {OldEnd} /\ InPass1(mem, ptr) /\ heap_free = OldEnd
    BY <2>1 DEF CompactInv
  <2>3. ptr = OldEnd
    BY <1>1, <2>1, <2>2
  <2>4. InPass2At(mem', ptr') /\ Target(1) = 1
    BY <1>1, <2>1, <2>2, <2>3, Pass1Over, TargetFacts
  <2>5. Target(ptr)' = Target(1)
    BY <2>1, OldStays
  <2>6. InPass2At(mem, ptr)' /\ Ready' /\ OldEnd' = OldEnd /\ AllOld' = AllOld /\ (new_ptr = Target(ptr))'
    BY <1>1, <2>1, <2>4, <2>5, InPass2Stays, ReadyStays, OldStays
  <2> QED
    BY <1>1, <2>1, <2>2, <2>6 DEF CompactInv, Compacting
<1>6. CASE Pass2Block
  <2> DEFINE u == gc_update_threaded_pointers(mem, ptr, new_ptr)
             h == u[ptr]
  <2>1. /\ phase = "pass2" /\ ptr < heap_free
        /\ mem' = IF h.mtag # "free" THEN Moved(u, ptr, new_ptr, h.n) ELSE u
        /\ new_ptr' = IF h.mtag # "free" THEN new_ptr + h.n ELSE new_ptr
        /\ ptr' = ptr + h.n
        /\ UNCHANGED <<heap_free, phase, ext, swept_mem>>
    BY <1>6 DEF Pass2Block
  <2>2. ptr \in AllOld \cup {OldEnd} /\ new_ptr = Target(ptr) /\ InPass2At(mem, ptr) /\ heap_free = OldEnd
    BY <2>1 DEF CompactInv
  <2>3. ptr \in AllOld
    BY <1>1, <2>1, <2>2
  <2>4. h = swept_mem[ptr] /\ InPass2At(mem', ptr + swept_mem[ptr].n)
    <3>1. CASE ptr \in OldBlocks
      <4>1. /\ u[ptr] = swept_mem[ptr]
            /\ InPass2At(Moved(u, ptr, new_ptr, swept_mem[ptr].n), ptr + swept_mem[ptr].n)
        BY <1>1, <2>2, <3>1, Pass2Live
      <4> HIDE DEF u
      <4> QED
        BY <1>1, <2>1, <3>1, <4>1
    <3>2. CASE ptr \notin OldBlocks
      <4>1. u = mem /\ mem[ptr] = swept_mem[ptr] /\ InPass2At(mem, ptr + swept_mem[ptr].n)
        BY <1>1, <2>2, <2>3, <3>2, Pass2Free
      <4> HIDE DEF u
      <4> QED
        BY <1>1, <2>1, <2>3, <3>2, <4>1
    <3> QED
      BY <3>1, <3>2
  <2> HIDE DEF h
  <2>5. ptr' \in AllOld \cup {OldEnd} /\ new_ptr' = Target(ptr')
    <3>1. ptr + swept_mem[ptr].n \in AllOld \cup {OldEnd}
      BY <1>1, <2>3, ReadyFacts
    <3>2. Target(ptr + swept_mem[ptr].n) = IF ptr \in OldBlocks THEN Target(ptr) + swept_mem[ptr].n ELSE Target(ptr)
      BY <1>1, <2>3, TargetFacts
    <3> QED
      BY <1>1, <2>1, <2>2, <2>3, <2>4, <3>1, <3>2
  <2>6. InPass2At(mem, ptr)' /\ Ready' /\ OldEnd' = OldEnd /\ AllOld' = AllOld /\ (new_ptr = Target(ptr))'
    <3>1. InPass2At(mem', ptr')
      BY <2>1, <2>4
    <3>2. Target(ptr)' = Target(ptr')
      BY <2>1, OldStays
    <3> QED
      BY <1>1, <2>1, <2>5, <3>1, <3>2, InPass2Stays, ReadyStays, OldStays
  <2> QED
    BY <2>1, <2>2, <2>5, <2>6 DEF CompactInv, Compacting
<1>7. CASE Finish
  <2>1. /\ phase = "pass2" /\ ptr >= heap_free /\ phase' = "done" /\ heap_free' = new_ptr
        /\ UNCHANGED <<mem, ptr, ext, new_ptr, swept_mem>>
    BY <1>7 DEF Finish, compactVars
  <2>2. ptr \in AllOld \cup {OldEnd} /\ new_ptr = Target(ptr) /\ InPass2At(mem, ptr) /\ heap_free = OldEnd
    BY <2>1 DEF CompactInv
  <2>3. ptr = OldEnd
    BY <1>1, <2>1, <2>2
  <2>4. OldEnd' = OldEnd
    BY <2>1, OldStays
  <2>5. InPass2At(mem, OldEnd)' /\ Ready' /\ (heap_free = Target(OldEnd))'
    <3>1. InPass2At(mem', OldEnd)
      BY <2>1, <2>2, <2>3
    <3>2. Target(OldEnd)' = Target(OldEnd)
      BY <2>1, <2>4, OldStays
    <3> QED
      BY <1>1, <2>1, <2>2, <2>3, <3>1, <3>2, InPass2Stays, ReadyStays
  <2> QED
    BY <2>1, <2>3, <2>4, <2>5 DEF CompactInv, Compacting
<1> QED
  BY <1>2, <1>3, <1>4, <1>5, <1>6, <1>7 DEF CompactNext
-----------------------------------------------------------------------------
(* No reference is lost on the way.                                        *)

\* What a location y refers to that stands for the place l of before.
LEMMA Refers ==
  ASSUME Ready, NEW H, Lists(mem, H, Threadable), NEW l \in Places, NEW y \in DOMAIN mem, NEW threaded \in BOOLEAN,
         \/ JS_IsPtr(swept_mem[l]) /\ swept_mem[l].a \in Threadable /\ y = l /\ l \in H[swept_mem[l].a]
         \/ /\ \A b \in Threadable : y \notin H[b]
            /\ \/ ~threaded /\ mem[y] = swept_mem[l]
               \/ threaded /\ mem[y] = Fwd(swept_mem[l])
  PROVE  RefersTo(y, threaded, Chains) = ReferredTo(l)
<1> DEFINE C == Chains
<1>1. DOMAIN C = Threadable /\ \A b \in Threadable : C[b] = H[b]
  <2>1. ASSUME NEW b \in Threadable
        PROVE  Chain(mem, b) = H[b]
    <3>1. Listed(mem, b, swept_mem[b], H[b]) /\ DOMAIN mem = DOMAIN swept_mem
      BY <2>1 DEF Lists
    <3>2. ~JS_IsPtr(swept_mem[b]) /\ IsFiniteSet(DOMAIN mem)
      BY <3>1, ReadyFacts DEF Ready, Threadable
    <3> QED
      BY <3>1, <3>2, ListFollowed
  <2> QED
    BY <2>1 DEF Chains
<1>2. /\ JS_IsPtr(swept_mem[l]) => swept_mem[l].a \in OldBlocks
      /\ \A b \in Threadable : \A x \in H[b] : JS_IsPtr(swept_mem[x]) /\ swept_mem[x].a = b
  BY PlaceFacts DEF Lists
<1> HIDE DEF C
<1>3. CASE JS_IsPtr(swept_mem[l]) /\ swept_mem[l].a \in Threadable /\ y = l /\ l \in H[swept_mem[l].a]
  <2> DEFINE b == swept_mem[l].a
             Waiting(a) == a \in DOMAIN C /\ y \in C[a]
  <2>1. Waiting(b) /\ \A a : Waiting(a) => a = b
    BY <1>1, <1>2, <1>3
  <2>2. b = CHOOSE a : Waiting(a)
    <3> HIDE DEF b, Waiting
    <3> QED
      BY <2>1
  <2>3. (CHOOSE a \in DOMAIN C : y \in C[a]) = CHOOSE a : Waiting(a)
    OBVIOUS
  <2>4. RefersTo(y, threaded, C) = b
    <3> HIDE DEF b
    <3>1. \E a \in DOMAIN C : y \in C[a]
      BY <2>1
    <3> QED
      BY <2>2, <2>3, <3>1 DEF RefersTo
  <2> QED
    BY <1>3, <2>4 DEF ReferredTo, C
<1>4. CASE /\ \A b \in Threadable : y \notin H[b]
           /\ ~threaded /\ mem[y] = swept_mem[l]
  <2>1. ~\E a \in DOMAIN C : y \in C[a]
    BY <1>1, <1>4
  <2>2. RefersTo(y, threaded, C) = ReferredTo(l)
    BY <1>4, <2>1 DEF RefersTo, ReferredTo
  <2> QED
    BY <2>2 DEF C
<1>5. CASE /\ \A b \in Threadable : y \notin H[b]
           /\ threaded /\ mem[y] = Fwd(swept_mem[l])
  <2>1. ~\E a \in DOMAIN C : y \in C[a]
    BY <1>1, <1>5
  <2>2. CASE ~JS_IsPtr(swept_mem[l])
    <3>1. RefersTo(y, threaded, C) = ReferredTo(l)
      BY <1>5, <2>1, <2>2 DEF RefersTo, ReferredTo, Fwd
    <3> QED
      BY <3>1 DEF C
  <2>3. CASE JS_IsPtr(swept_mem[l])
    <3> DEFINE b == swept_mem[l].a
               t == Target(b)
               Moving(a) == a \in OldBlocks /\ Target(a) = t
    <3>1. JS_IsPtr(mem[y]) /\ mem[y].a = t
      BY <1>5, <2>3 DEF Fwd, Ptr, JS_IsPtr
    <3>2. Moving(b) /\ \A a : Moving(a) => a = b
      <4>1. b \in OldBlocks
        BY <1>2, <2>3
      <4> HIDE DEF b
      <4>2. ASSUME NEW a \in OldBlocks, Target(a) = t
            PROVE  a = b
        <5>1. /\ a \in Int /\ b \in Int /\ swept_mem[a].n \in Nat \ {0} /\ swept_mem[b].n \in Nat \ {0}
              /\ a \in AllOld /\ b \in AllOld
          BY <4>1, ReadyFacts
        <5>2. Target(a) \in Int /\ Target(b) \in Int
          BY <5>1, TargetFacts
        <5>3. /\ a < b => Target(a) + swept_mem[a].n <= Target(b)
              /\ b < a => Target(b) + swept_mem[b].n <= Target(a)
          BY <4>1, <5>1, TargetFacts
        <5> QED
          BY <4>2, <5>1, <5>2, <5>3
      <4> HIDE DEF t
      <4>3. Target(b) = t
        BY DEF t
      <4> QED
        BY <4>1, <4>2, <4>3
    <3>3. b = CHOOSE a : Moving(a)
      <4> HIDE DEF b, Moving, t
      <4> QED
        BY <3>2
    <3> HIDE DEF b, t
    <3>4. (CHOOSE a \in OldBlocks : Target(a) = t) = CHOOSE a : Moving(a)
      OBVIOUS
    <3>5. \E a \in OldBlocks : Target(a) = t
      BY <3>2
    <3>6. RefersTo(y, threaded, C) = b
      BY <1>5, <2>1, <3>1, <3>3, <3>4, <3>5 DEF RefersTo
    <3> QED
      BY <2>3, <3>6 DEF ReferredTo, C, b
  <2> QED
    BY <2>2, <2>3
<1> QED
  BY <1>3, <1>4, <1>5

\* gc_mark_flush and gc_thread_block go through the same fields.
LEMMA SameSlots == \A h : MarkSlots(h) = ThreadSlots(h)
BY Zenon DEF MarkSlots, ThreadSlots

LEMMA GraphHolds ==
  ASSUME CompactInv, Compacting
  PROVE  GraphPreserved
<1>1. /\ Ready /\ phase \in {"roots", "pass1", "pass2", "done"}
      /\ OldEnd \in Nat \ {0} /\ \A a \in OldBlocks : a \in Int /\ a < OldEnd /\ a \in AllOld /\ a >= 1
  BY ReadyFacts DEF CompactInv, Compacting
<1>2. \A l \in DOMAIN swept_mem : l \in Int /\ (l < 0 => l \in ExtOf(swept_mem) /\ l \in Places)
  BY <1>1, ReadyFacts DEF ExtOf, Places
<1>3. ASSUME NEW a \in OldBlocks, NEW i \in MarkSlots(swept_mem[a])
      PROVE  /\ a + i \in SlotAddrs(a) /\ a + i \in Places /\ a + i \in DOMAIN swept_mem /\ a + i \notin OldBlocks
             /\ a + i > a /\ ~(a + i < 0) /\ i \in 0 .. swept_mem[a].n - 1
             /\ \A c \in OldBlocks : a + i \in SlotAddrs(c) => c = a
             /\ JS_IsPtr(swept_mem[a + i]) => swept_mem[a + i].a \in OldBlocks /\ swept_mem[a + i].a # a
  <2> DEFINE l == a + i
  <2>1. i \in Slots(a) /\ l \in SlotAddrs(a)
    BY SameSlots DEF Slots, SlotAddrs
  <2>2. l \in Places /\ i \in 0 .. swept_mem[a].n - 1
    BY <1>1, <2>1, ReadyFacts DEF Places, Ready
  <2> HIDE DEF l
  <2>3. /\ l \in 1 .. OldEnd - 1 /\ l \in DOMAIN swept_mem /\ l \notin OldBlocks /\ l > a
        /\ \A c \in OldBlocks : l \in SlotAddrs(c) => c = a
        /\ JS_IsPtr(swept_mem[l]) => swept_mem[l].a \in OldBlocks /\ swept_mem[l].a # a
    BY <1>1, <2>1, <2>2, SlotFacts, PlaceFacts
  <2>4. ~(l < 0)
    BY <2>3
  <2> QED
    BY <2>1, <2>2, <2>3, <2>4 DEF l
<1> DEFINE Root(l) == RefersTo(l, RootThreaded(l), Chains) = ReferredTo(l)
           InBlock(a, i) == RefersTo(Field(a, i), BlockThreaded(a), Chains) = ReferredTo(a + i)
<1>a. \A l : RootThreaded(l) \in BOOLEAN /\ BlockThreaded(l) \in BOOLEAN
  BY DEF RootThreaded, BlockThreaded
<1>4. ASSUME NEW l, ~JS_IsPtr(swept_mem[l])
      PROVE  Fwd(swept_mem[l]) = swept_mem[l]
  BY <1>4 DEF Fwd
<1>5. CASE phase = "roots"
  <2>1. InRoots(mem, ext) /\ ext < 0
    BY <1>5 DEF CompactInv
  <2>2. /\ Lists(mem, RootLists(ext), OldBlocks) /\ ext \in Int /\ DOMAIN mem = DOMAIN swept_mem
        /\ \A l \in DOMAIN swept_mem :
             l \notin OldBlocks /\ ~(l < 0 /\ l > ext /\ JS_IsPtr(swept_mem[l])) => mem[l] = swept_mem[l]
        /\ \A b \in OldBlocks : RootLists(ext)[b] =
              {l \in ExtOf(swept_mem) : l > ext /\ JS_IsPtr(swept_mem[l]) /\ swept_mem[l].a = b}
    BY <2>1 DEF InRoots, RootLists, Lists
  <2>3. Threadable = OldBlocks
    BY <1>5 DEF Threadable, Passed
  <2>4. ASSUME NEW l \in ExtOf(mem)
        PROVE  Root(l)
    <3>1. /\ l \in ExtOf(swept_mem) /\ l \in DOMAIN swept_mem /\ l < 0 /\ l \in Places /\ l \notin OldBlocks
          /\ (RootThreaded(l) <=> l > ext)
      BY <1>2, <1>5, <2>2, <2>4, PlaceFacts, <1>1 DEF ExtOf, RootThreaded
    <3>2. CASE l > ext /\ JS_IsPtr(swept_mem[l])
      <4>1. swept_mem[l].a \in OldBlocks /\ l \in RootLists(ext)[swept_mem[l].a]
        BY <1>1, <2>2, <3>1, <3>2, PlaceFacts
      <4> QED
        BY <1>1, <2>2, <2>3, <3>1, <3>2, <4>1, <1>a, Refers
    <3>3. CASE ~(l > ext /\ JS_IsPtr(swept_mem[l]))
      <4>1. mem[l] = swept_mem[l] /\ \A b \in OldBlocks : l \notin RootLists(ext)[b]
        BY <2>2, <3>1, <3>3
      <4>2. ~RootThreaded(l) \/ mem[l] = Fwd(swept_mem[l])
        BY <1>4, <3>1, <3>3, <4>1
      <4> QED
        BY <1>1, <2>2, <2>3, <3>1, <4>1, <4>2, <1>a, Refers
    <3> QED
      BY <3>2, <3>3
  <2>5. ASSUME NEW a \in OldBlocks, NEW i \in MarkSlots(swept_mem[a])
        PROVE  InBlock(a, i)
    <3> DEFINE l == a + i
    <3>1. l \in Places /\ l \in DOMAIN swept_mem /\ l \notin OldBlocks /\ ~(l < 0)
      BY <1>3
    <3>2. Field(a, i) = l /\ ~BlockThreaded(a)
      BY <1>5 DEF Field, Where, Passed, BlockThreaded, InPass2
    <3> HIDE DEF l
    <3>3. mem[l] = swept_mem[l] /\ \A b \in OldBlocks : l \notin RootLists(ext)[b]
      BY <2>2, <3>1 DEF ExtOf
    <3>4. RefersTo(l, BlockThreaded(a), Chains) = ReferredTo(l)
      BY <1>1, <2>2, <2>3, <3>1, <3>2, <3>3, <1>a, Refers
    <3> QED
      BY <3>2, <3>4 DEF l
  <2> QED
    BY <2>4, <2>5 DEF GraphPreserved
<1>6. CASE phase = "pass1"
  <2>1. InPass1(mem, ptr) /\ ptr \in AllOld \cup {OldEnd}
    BY <1>6 DEF CompactInv
  <2> DEFINE H == Lists1(ptr)
  <2>2. /\ Lists(mem, H, OldBlocks) /\ DOMAIN mem = DOMAIN swept_mem
        /\ \A l \in Threaded1(ptr) : ~Waits1(l, ptr) => mem[l] = Ptr(Target(swept_mem[l].a))
        /\ \A l \in DOMAIN swept_mem : l \notin OldBlocks /\ l \notin Threaded1(ptr) => mem[l] = swept_mem[l]
        /\ \A b \in OldBlocks : H[b] = {l \in Threaded1(ptr) : swept_mem[l].a = b /\ Waits1(l, ptr)}
    BY <2>1 DEF InPass1, Lists1, Lists
  <2>3. Threadable = OldBlocks
    BY <1>6 DEF Threadable, Passed
  <2> HIDE DEF H
  <2>4. ASSUME NEW l \in Places, NEW t \in BOOLEAN, t => (JS_IsPtr(swept_mem[l]) => l \in Threaded1(ptr)),
               ~t => l \notin Threaded1(ptr)
        PROVE  RefersTo(l, t, Chains) = ReferredTo(l)
    <3>1. l \in DOMAIN mem /\ l \in DOMAIN swept_mem /\ l \notin OldBlocks
      BY <1>1, <2>2, PlaceFacts
    <3>2. CASE l \in Threaded1(ptr) /\ Waits1(l, ptr)
      <4>1. JS_IsPtr(swept_mem[l]) /\ swept_mem[l].a \in OldBlocks
        BY <1>1, <3>2, PlaceFacts DEF Threaded1
      <4>2. l \in H[swept_mem[l].a]
        BY <2>2, <3>2, <4>1
      <4> QED
        BY <1>1, <2>2, <2>3, <3>1, <4>1, <4>2, <1>a, Refers
    <3>3. CASE l \in Threaded1(ptr) /\ ~Waits1(l, ptr)
      <4>1. mem[l] = Fwd(swept_mem[l]) /\ t
        BY <2>2, <2>4, <3>3 DEF Fwd, Threaded1
      <4>2. \A b \in OldBlocks : l \notin H[b]
        BY <2>2, <3>3
      <4> QED
        BY <1>1, <2>2, <2>3, <3>1, <4>1, <4>2, <1>a, Refers
    <3>4. CASE l \notin Threaded1(ptr)
      <4>1. mem[l] = swept_mem[l] /\ \A b \in OldBlocks : l \notin H[b]
        BY <2>2, <3>1, <3>4
      <4>2. ~t \/ mem[l] = Fwd(swept_mem[l])
        BY <1>4, <2>4, <3>4, <4>1
      <4> QED
        BY <1>1, <2>2, <2>3, <3>1, <4>1, <4>2, <1>a, Refers
    <3> QED
      BY <3>2, <3>3, <3>4
  <2>5. ASSUME NEW l \in ExtOf(mem)
        PROVE  Root(l)
    <3>1. l \in Places /\ l < 0 /\ RootThreaded(l)
      BY <1>2, <1>6, <2>2, <2>5 DEF ExtOf, RootThreaded
    <3>2. JS_IsPtr(swept_mem[l]) => l \in Threaded1(ptr)
      BY <3>1 DEF Threaded1
    <3> QED
      BY <1>a, <2>4, <3>1, <3>2
  <2>6. ASSUME NEW a \in OldBlocks, NEW i \in MarkSlots(swept_mem[a])
        PROVE  InBlock(a, i)
    <3> DEFINE l == a + i
    <3>1. l \in Places /\ l \in SlotAddrs(a) /\ ~(l < 0) /\ \A c \in OldBlocks : l \in SlotAddrs(c) => c = a
      BY <1>3
    <3>2. Field(a, i) = l /\ (BlockThreaded(a) <=> a < ptr)
      BY <1>6 DEF Field, Where, Passed, BlockThreaded, InPass2
    <3> HIDE DEF l
    <3>3. l \in Threaded1(ptr) <=> JS_IsPtr(swept_mem[l]) /\ a < ptr
      BY <3>1 DEF Threaded1
    <3>4. RefersTo(l, BlockThreaded(a), Chains) = ReferredTo(l)
      BY <1>a, <2>4, <3>1, <3>2, <3>3
    <3> QED
      BY <3>2, <3>4 DEF l
  <2> QED
    BY <2>5, <2>6 DEF GraphPreserved
<1>7. CASE phase \in {"pass2", "done"}
  <2> DEFINE p == IF phase = "done" THEN OldEnd ELSE ptr
  <2>1. InPass2At(mem, p) /\ p \in AllOld \cup {OldEnd} /\ p \in Int /\ p <= OldEnd
    <3>1. InPass2At(mem, p) /\ p \in AllOld \cup {OldEnd}
      BY <1>7 DEF CompactInv
    <3> HIDE DEF p
    <3> QED
      BY <1>1, <3>1, ReadyFacts
  <2>2. \A a \in OldBlocks : Passed(a) <=> a < p
    BY <1>1, <1>7 DEF Passed
  <2> HIDE DEF p
  <2>3. /\ Lists(mem, Back, From(p)) /\ DOMAIN mem = DOMAIN swept_mem
        /\ \A x \in DOMAIN swept_mem :
             (x < 0 \/ x >= p) /\ x \notin OldBlocks /\ ~(Backward(x) /\ swept_mem[x].a >= p) => mem[x] = Now(x)
        /\ MovedTo(mem, p)
        /\ \A b \in OldBlocks : Back[b] = {l \in Places : Backward(l) /\ swept_mem[l].a = b}
    BY <2>1 DEF InPass2At, Lists, Back
  <2>4. Threadable = From(p)
    BY <1>1, <2>1, <2>2 DEF Threadable, From
  <2>5. ASSUME NEW l \in Places, l < 0 \/ l >= p, NEW t \in BOOLEAN, t
        PROVE  RefersTo(l, t, Chains) = ReferredTo(l)
    <3>1. l \in DOMAIN swept_mem /\ l \in DOMAIN mem /\ l \notin OldBlocks
      BY <1>1, <2>3, PlaceFacts
    <3>2. CASE Backward(l) /\ swept_mem[l].a >= p
      <4>1. JS_IsPtr(swept_mem[l]) /\ swept_mem[l].a \in OldBlocks
        BY <1>1, <3>2, BackwardFacts
      <4>2. l \in Back[swept_mem[l].a] /\ swept_mem[l].a \in From(p)
        BY <2>3, <3>2, <4>1 DEF From
      <4> QED
        BY <1>1, <2>3, <2>4, <3>1, <4>1, <4>2, <1>a, Refers
    <3>3. CASE ~(Backward(l) /\ swept_mem[l].a >= p)
      <4>1. mem[l] = Fwd(swept_mem[l])
        BY <2>3, <2>5, <3>1, <3>3 DEF Now
      <4>2. \A b \in From(p) : l \notin Back[b]
        BY <2>3, <3>3 DEF From
      <4> QED
        BY <1>1, <2>3, <2>4, <2>5, <3>1, <4>1, <4>2, <1>a, Refers
    <3> QED
      BY <3>2, <3>3
  <2>6. ASSUME NEW l \in ExtOf(mem)
        PROVE  Root(l)
    <3>1. l \in Places /\ l < 0 /\ RootThreaded(l)
      BY <1>2, <1>7, <2>3, <2>6 DEF ExtOf, RootThreaded
    <3> QED
      BY <1>a, <2>5, <3>1
  <2>7. ASSUME NEW a \in OldBlocks, NEW i \in MarkSlots(swept_mem[a])
        PROVE  InBlock(a, i)
    <3> DEFINE l == a + i
    <3>1. l \in Places /\ l > a /\ l \in DOMAIN swept_mem /\ i \in 0 .. swept_mem[a].n - 1 /\ BlockThreaded(a)
      BY <1>3, <1>7 DEF BlockThreaded, InPass2
    <3>2. CASE a >= p
      <4>1. Field(a, i) = l
        BY <1>1, <2>1, <2>2, <3>2 DEF Field, Where
      <4>2. l >= p
        <5>1. l \in Int
          BY <1>2, <3>1
        <5> HIDE DEF l
        <5> QED
          BY <1>1, <2>1, <3>1, <3>2, <5>1
      <4> HIDE DEF l
      <4>3. RefersTo(l, BlockThreaded(a), Chains) = ReferredTo(l)
        BY <1>a, <2>5, <3>1, <4>2
      <4> QED
        BY <4>1, <4>3 DEF l
    <3>3. CASE a < p
      <4> DEFINE y == Target(a) + i
      <4>1. Field(a, i) = y
        BY <2>2, <3>3 DEF Field, Where
      <4>2. mem[y] = Fwd(swept_mem[l])
        BY <2>3, <3>1, <3>3 DEF MovedTo, Now
      <4>3. y \in Int /\ y >= 1 /\ y < p
        <5>1. /\ Target(a) \in 1 .. a /\ Target(a) + swept_mem[a].n <= Target(p) /\ Target(p) \in 1 .. p
              /\ swept_mem[a].n \in Nat
          BY <1>1, <2>1, <3>3, TargetFacts, ReadyFacts
        <5> QED
          BY <1>1, <2>1, <3>1, <5>1
      <4> HIDE DEF y, l
      <4>4. y \in DOMAIN mem
        <5>1. y \in 1 .. OldEnd - 1
          BY <1>1, <2>1, <4>3
        <5> QED
          BY <1>1, <2>3, <5>1, ReadyFacts
      <4>5. ASSUME NEW b \in From(p), y \in Back[b]
            PROVE  FALSE
        <5>1. b \in OldBlocks /\ b >= p /\ b \in Int
          BY <1>1 DEF From
        <5>2. Backward(y) /\ swept_mem[y].a = b
          BY <2>3, <4>5, <5>1
        <5>3. y > b
          BY <1>1, <5>2, BackwardFacts
        <5> QED
          BY <2>1, <4>3, <5>1, <5>3
      <4>6. RefersTo(y, BlockThreaded(a), Chains) = ReferredTo(l)
        BY <1>1, <2>3, <2>4, <3>1, <4>2, <4>4, <4>5, <1>a, Refers
      <4> QED
        BY <4>1, <4>6 DEF l
    <3> QED
      BY <1>1, <2>1, <3>2, <3>3
  <2> QED
    BY <2>6, <2>7 DEF GraphPreserved
<1> QED
  BY <1>1, <1>5, <1>6, <1>7
-----------------------------------------------------------------------------
(* The memory after the compaction.                                        *)

NewBlocks == {Target(a) : a \in OldBlocks}

\* What is at the place where p would go is the next block that stays.
LEMMA NextStaying ==
  ASSUME Ready, NEW p \in AllOld \cup {OldEnd}
  PROVE  Target(p) \in NewBlocks \cup {Target(OldEnd)}
<1> DEFINE Good(x) == Target(x) \in NewBlocks \cup {Target(OldEnd)}
           T == {d \in 0 .. OldEnd : \A x \in AllOld \cup {OldEnd} : OldEnd - x <= d => Good(x)}
<1>1. /\ OldEnd \in Nat /\ \A x \in AllOld \cup {OldEnd} : x \in Int /\ x <= OldEnd /\ x >= 0
      /\ \A x \in AllOld : x < OldEnd
  BY ReadyFacts
<1>2. Good(OldEnd) /\ \A x \in OldBlocks : Good(x)
  BY DEF NewBlocks
<1>3. ASSUME NEW x \in AllOld, x \notin OldBlocks
      PROVE  /\ x + swept_mem[x].n \in AllOld \cup {OldEnd} /\ x + swept_mem[x].n > x
             /\ Target(x) = Target(x + swept_mem[x].n)
  BY <1>3, ReadyFacts, TargetFacts
<1> HIDE DEF Good
<1>4. 0 \in T
  <2>1. \A x \in AllOld \cup {OldEnd} : OldEnd - x <= 0 => x = OldEnd
    BY <1>1
  <2> QED
    BY <1>1, <1>2, <2>1
<1>5. ASSUME NEW d \in 1 .. OldEnd, d - 1 \in T
      PROVE  d \in T
  <2>1. ASSUME NEW x \in AllOld \cup {OldEnd}, OldEnd - x <= d
        PROVE  Good(x)
    <3>1. CASE x \in AllOld /\ x \notin OldBlocks
      <4> DEFINE q == x + swept_mem[x].n
      <4>1. q \in AllOld \cup {OldEnd} /\ q > x /\ Target(x) = Target(q)
        BY <1>3, <3>1
      <4> HIDE DEF q
      <4>2. OldEnd - q <= d - 1
        BY <1>1, <2>1, <4>1
      <4>3. Good(q)
        BY <1>5, <4>1, <4>2
      <4> QED
        BY <4>1, <4>3 DEF Good
    <3> QED
      BY <1>2, <3>1
  <2> QED
    BY <1>1, <2>1
<1>6. OldEnd \in T
  <2> HIDE DEF T
  <2>1. \A d \in 0 .. OldEnd : d \in T
    BY <1>1, <1>4, <1>5, UpTo
  <2> QED
    BY <1>1, <2>1
<1>7. OldEnd - p <= OldEnd
  BY <1>1
<1>8. Good(p)
  BY <1>6, <1>7
<1> QED
  BY <1>8 DEF Good

LEMMA Compacted ==
  ASSUME Ready, NEW m, InPass2At(m, OldEnd)
  PROVE  /\ DOMAIN m = DOMAIN swept_mem
         /\ \A l \in ExtOf(swept_mem) : m[l] = Fwd(swept_mem[l])
         /\ \A a \in OldBlocks : \A i \in 0 .. swept_mem[a].n - 1 : m[Target(a) + i] = Now(a + i)
         /\ \A a \in OldBlocks : m[Target(a)] = swept_mem[a]
         /\ Laid(m, NewBlocks, 1, Target(OldEnd))
<1>1. /\ DOMAIN m = DOMAIN swept_mem
      /\ \A x \in DOMAIN swept_mem :
           (x < 0 \/ x >= OldEnd) /\ x \notin OldBlocks /\ ~(Backward(x) /\ swept_mem[x].a >= OldEnd) => m[x] = Now(x)
      /\ MovedTo(m, OldEnd)
  BY DEF InPass2At, Lists
<1>2. /\ OldEnd \in Nat \ {0}
      /\ \A a \in OldBlocks : a \in Int /\ a < OldEnd /\ a \in AllOld /\ ~(a >= OldEnd) /\ a \notin Places
                              /\ swept_mem[a].n \in Nat \ {0} /\ swept_mem[a] \in Header
  BY ReadyFacts, PlaceFacts
<1>3. ASSUME NEW l \in ExtOf(swept_mem)
      PROVE  m[l] = Fwd(swept_mem[l])
  <2>1. l \in Places /\ l < 0 /\ l \in DOMAIN swept_mem
    BY DEF Places, ExtOf
  <2>2. l \notin OldBlocks /\ ~(Backward(l) /\ swept_mem[l].a >= OldEnd)
    BY <1>2, <2>1, PlaceFacts, BackwardFacts
  <2> QED
    BY <1>1, <2>1, <2>2 DEF Now
<1>4. \A a \in OldBlocks : \A i \in 0 .. swept_mem[a].n - 1 : m[Target(a) + i] = Now(a + i)
  BY <1>1, <1>2 DEF MovedTo
<1>5. \A a \in OldBlocks : Target(a) \in Int /\ Target(a) >= 1
  BY <1>2, TargetFacts
<1>6. ASSUME NEW a \in OldBlocks
      PROVE  m[Target(a)] = swept_mem[a]
  <2>1. 0 \in 0 .. swept_mem[a].n - 1 /\ Target(a) + 0 = Target(a) /\ a + 0 = a
    BY <1>2, <1>5
  <2>2. m[Target(a)] = Now(a)
    BY <1>4, <2>1
  <2> QED
    BY <1>2, <2>2 DEF Now
<1>7. Laid(m, NewBlocks, 1, Target(OldEnd))
  <2>1. Target(OldEnd) \in Int /\ 1 <= Target(OldEnd)
    BY <1>2, TargetFacts
  <2>2. 1 \in NewBlocks \cup {Target(OldEnd)}
    <3>1. 1 \in AllOld \cup {OldEnd} /\ Target(1) = 1
      BY ReadyFacts, TargetFacts
    <3> QED
      BY <3>1, NextStaying
  <2>3. ASSUME NEW a \in OldBlocks
        PROVE  /\ Target(a) + swept_mem[a].n \in NewBlocks \cup {Target(OldEnd)}
               /\ Target(a) + swept_mem[a].n <= Target(OldEnd)
    <3>1. Target(a + swept_mem[a].n) = Target(a) + swept_mem[a].n /\ a + swept_mem[a].n \in AllOld \cup {OldEnd}
      BY <1>2, TargetFacts, ReadyFacts
    <3>2. Target(a) + swept_mem[a].n <= Target(OldEnd)
      BY <1>2, TargetFacts
    <3> QED
      BY <3>1, <3>2, NextStaying
  <2>4. ASSUME NEW a \in OldBlocks, NEW b \in OldBlocks, Target(a) < Target(b)
        PROVE  Target(a) + swept_mem[a].n <= Target(b)
    <3>1. a < b
      <4>1. /\ a \in Int /\ b \in Int /\ swept_mem[b].n \in Nat \ {0}
            /\ Target(a) \in Int /\ Target(b) \in Int
        BY <1>2, <1>5
      <4>2. b < a => Target(b) + swept_mem[b].n <= Target(a)
        BY <1>2, TargetFacts
      <4> QED
        BY <2>4, <4>1, <4>2
    <3> QED
      BY <1>2, <3>1, TargetFacts
  <2>5. NewBlocks \subseteq 1 .. Target(OldEnd) - 1
    <3>1. ASSUME NEW a \in OldBlocks
          PROVE  Target(a) \in 1 .. Target(OldEnd) - 1
      BY <1>2, <1>5, <2>1, <2>3
    <3> QED
      BY <3>1 DEF NewBlocks
  <2>6. ASSUME NEW y \in NewBlocks
        PROVE  /\ m[y] \in Header /\ y + m[y].n \in NewBlocks \cup {Target(OldEnd)}
               /\ \A z \in NewBlocks : y < z => y + m[y].n <= z
    <3>1. PICK a \in OldBlocks : y = Target(a)
      BY DEF NewBlocks
    <3>2. \A z \in NewBlocks : \E b \in OldBlocks : z = Target(b)
      BY DEF NewBlocks
    <3> QED
      BY <1>2, <1>6, <2>3, <2>4, <3>1, <3>2
  <2> QED
    BY <2>1, <2>2, <2>5, <2>6 DEF Laid
<1> QED
  BY <1>1, <1>3, <1>4, <1>6, <1>7
-----------------------------------------------------------------------------
(* The memory before the collection, and what is kept of it.               *)

LEMMA SoundFacts ==
  ASSUME NEW s, Sound(s)
  PROVE  /\ HeapEnd(s) \in Nat \ {0} /\ BlocksOf(s) \subseteq 1 .. HeapEnd(s) - 1 /\ 1 \in BlocksOf(s) \cup {HeapEnd(s)}
         /\ \A l \in DOMAIN s : l \in Int /\ (l < 0 \/ l \in 1 .. HeapEnd(s) - 1)
         /\ \A l \in 1 .. HeapEnd(s) - 1 : l \in DOMAIN s
         /\ \A a \in BlocksOf(s) :
              /\ s[a] \in Header /\ s[a].n \in Nat \ {0} /\ ~JS_IsPtr(s[a]) /\ s[a].mark = FALSE
              /\ a + s[a].n \in BlocksOf(s) \cup {HeapEnd(s)}
              /\ \A c \in BlocksOf(s) : a < c => a + s[a].n <= c
              /\ \A i \in MarkSlots(s[a]) : i \in 1 .. s[a].n - 1
<1> DEFINE e == HeapEnd(s)
           B == BlocksOf(s)
<1>1. e \in Nat \ {0} /\ Cardinality(ExtOf(s)) \in Nat
  BY EndFacts DEF Sound
<1>2. Laid(s, B, 1, e)
  BY DEF Sound
<1>3. /\ \A a \in B : ~s[a].mark /\ MarkSlots(s[a]) \subseteq 1 .. s[a].n - 1
      /\ DOMAIN s = (-Cardinality(ExtOf(s)) .. -1) \cup (1 .. e - 1)
  BY DEF Sound
<1> HIDE DEF e, B
<1>4. /\ B \subseteq 1 .. e - 1 /\ 1 \in B \cup {e}
      /\ \A a \in B : /\ s[a] \in Header /\ a + s[a].n \in B \cup {e}
                      /\ \A c \in B : a < c => a + s[a].n <= c
  BY <1>2 DEF Laid
<1>5. \A a \in B : s[a].n \in Nat \ {0} /\ ~JS_IsPtr(s[a]) /\ s[a].mark = FALSE
  BY <1>3, <1>4, HeaderFacts
<1>6. /\ \A l \in DOMAIN s : l \in Int /\ (l < 0 \/ l \in 1 .. e - 1)
      /\ \A l \in 1 .. e - 1 : l \in DOMAIN s
  BY <1>1, <1>3
<1> QED
  BY <1>1, <1>3, <1>4, <1>5, <1>6 DEF e, B

\* What can be reached is allocated, and so is all it refers to.
LEMMA LiveFacts ==
  ASSUME NEW s, Sound(s)
  PROVE  /\ Reachable(s) \subseteq BlocksOf(s) /\ Closed(s, Reachable(s))
         /\ \A a \in Reachable(s) : s[a].mtag # "free"
<1> DEFINE A == {a \in BlocksOf(s) : s[a].mtag # "free"}
           C == {S \in SUBSET BlocksOf(s) : Closed(s, S)}
<1>1. Reachable(s) = {a \in BlocksOf(s) : \A S \in C : a \in S}
  BY DEF Reachable
<1>2. A \in C
  <2>1. ASSUME NEW b \in StrongRefs(s)
        PROVE  b \in A
    <3>1. PICK l \in StrongOf(s) : JS_IsPtr(s[l]) /\ b = s[l].a
      BY DEF StrongRefs
    <3>2. l \in ExtOf(s)
      BY DEF StrongOf
    <3> QED
      BY <3>1, <3>2 DEF Sound, IsBlock
  <2>2. ASSUME NEW a \in A, NEW b \in RefsOf(s, a)
        PROVE  b \in A
    BY <2>2 DEF Sound, IsBlock
  <2> QED
    BY <2>1, <2>2 DEF Closed
<1>3. StrongRefs(s) \subseteq Reachable(s)
  <2>1. \A S \in C : StrongRefs(s) \subseteq S
    BY DEF Closed
  <2>2. A \subseteq BlocksOf(s)
    OBVIOUS
  <2> HIDE DEF A, C
  <2> QED
    BY <1>1, <1>2, <2>1, <2>2
<1>4. ASSUME NEW a \in Reachable(s), NEW b \in RefsOf(s, a)
      PROVE  b \in Reachable(s)
  <2>1. \A S \in C : \A x \in S : RefsOf(s, x) \subseteq S
    BY DEF Closed
  <2>2. A \subseteq BlocksOf(s)
    OBVIOUS
  <2> HIDE DEF A, C
  <2>3. \A S \in C : a \in S
    BY <1>1
  <2>4. \A S \in C : b \in S
    BY <2>1, <2>3
  <2> QED
    BY <1>1, <1>2, <2>2, <2>4
<1>5. Reachable(s) \subseteq A
  <2> HIDE DEF A, C
  <2> QED
    BY <1>1, <1>2
<1> QED
  BY <1>3, <1>4, <1>5 DEF Closed

-----------------------------------------------------------------------------
(* The mark phase.  Its steps are in GCMark, where a block is its number   *)
(* and has its references as a sequence.                                   *)

\* GCMark on the heap h of n blocks, with 0 for a value that is no pointer.
GM(n, h) == INSTANCE GCMark WITH
  NBlocks <- n, Imm <- 0, GsSize <- 2, heap <- h,
  Blocks <- [mtag : {"value_array", "object", "leaf"}, refs : Seq(0 .. n)], Roots <- Seq(0 .. n),
  roots <- <<>>, marked <- {}, stack <- <<>>, gsp <- 0, todo <- <<>>, overflow <- FALSE, scan <- 1

\* The blocks that the values `vals' of GCMark are, by their addresses.
Addressed(addr, n, vals) == {addr[vals[j]] : j \in {k \in DOMAIN vals : vals[k] \in 1 .. n}}

MarkTag(mtag) ==
  CASE mtag = "value_array" -> "value_array"
    [] mtag \in {"object", "varref", "function_bytecode"} -> "object"
    [] OTHER -> "leaf"

\* h is the memory m as GCMark sees it: block i is the one at addr[i], in address
\* order, with the values that gc_mark_flush passes to gc_mark, in any order.
Abstracts(addr, n, h, m) ==
  /\ addr \in [1 .. n -> BlocksOf(m)] /\ BlocksOf(m) = {addr[i] : i \in 1 .. n}
  /\ \A i, j \in 1 .. n : i < j => addr[i] < addr[j]
  /\ \A i \in 1 .. n : /\ h.block[i].mtag = MarkTag(m[addr[i]].mtag)
                       /\ Addressed(addr, n, h.block[i].refs) = RefsOf(m, addr[i])
  /\ Addressed(addr, n, h.root) = StrongRefs(m)

LEMMA LeafHasNone ==
  ASSUME NEW m, NEW a, MarkTag(m[a].mtag) = "leaf"
  PROVE  RefsOf(m, a) = {}
<1>1. m[a].mtag \notin {"value_array", "object", "varref", "function_bytecode"}
  BY DEF MarkTag
<1>2. MarkSlots(m[a]) = {}
  BY <1>1 DEF MarkSlots
<1> QED
  BY <1>2 DEF RefsOf

LEMMA ClosedAlike ==
  ASSUME NEW n \in Nat, NEW h, NEW m, NEW addr, Abstracts(addr, n, h, m), Sound(m), NEW S \in SUBSET (1 .. n)
  PROVE  GM(n, h)!Closed(S) <=> Closed(m, {addr[i] : i \in S})
<1> DEFINE T == {addr[i] : i \in S}
<1>1. /\ \A i \in 1 .. n : addr[i] \in BlocksOf(m) /\ addr[i] \in Int
      /\ \A i, j \in 1 .. n : i < j => addr[i] < addr[j]
      /\ \A i \in 1 .. n : /\ h.block[i].mtag = MarkTag(m[addr[i]].mtag)
                           /\ Addressed(addr, n, h.block[i].refs) = RefsOf(m, addr[i])
      /\ Addressed(addr, n, h.root) = StrongRefs(m)
  <2>1. BlocksOf(m) \subseteq 1 .. HeapEnd(m) - 1 /\ HeapEnd(m) \in Nat
    BY SoundFacts
  <2>2. \A i \in 1 .. n : addr[i] \in BlocksOf(m)
    BY DEF Abstracts
  <2>3. \A i \in 1 .. n : addr[i] \in Int
    BY <2>1, <2>2
  <2>4. /\ \A i, j \in 1 .. n : i < j => addr[i] < addr[j]
        /\ \A i \in 1 .. n : /\ h.block[i].mtag = MarkTag(m[addr[i]].mtag)
                             /\ Addressed(addr, n, h.block[i].refs) = RefsOf(m, addr[i])
        /\ Addressed(addr, n, h.root) = StrongRefs(m)
    BY DEF Abstracts
  <2> QED
    BY <2>2, <2>3, <2>4
<1>2. \A i, j \in 1 .. n : addr[i] = addr[j] => i = j
  <2>1. \A i, j \in 1 .. n : i < j \/ j < i \/ i = j
    OBVIOUS
  <2>2. \A i, j \in 1 .. n : i < j => addr[i] # addr[j]
    BY <1>1
  <2> QED
    BY <2>1, <2>2
<1>3. \A i \in 1 .. n : addr[i] \in T <=> i \in S
  BY <1>2
\* The values are in S if their blocks are in T.
<1>4. ASSUME NEW vals
      PROVE  (\A j \in DOMAIN vals : vals[j] \in 1 .. n => vals[j] \in S) <=> Addressed(addr, n, vals) \subseteq T
  <2> HIDE DEF T
  <2> QED
    BY <1>3 DEF Addressed
<1>5. ASSUME NEW i \in 1 .. n, h.block[i].mtag \notin {"object", "value_array"}
      PROVE  RefsOf(m, addr[i]) = {}
  <2>1. MarkTag(m[addr[i]].mtag) = "leaf"
    BY <1>1, <1>5 DEF MarkTag
  <2> QED
    BY <2>1, LeafHasNone
<1>6. GM(n, h)!Closed(S) <=>
        /\ Addressed(addr, n, h.root) \subseteq T
        /\ \A i \in S : h.block[i].mtag \in {"object", "value_array"} => Addressed(addr, n, h.block[i].refs) \subseteq T
  <2> HIDE DEF T
  <2>1. GM(n, h)!Closed(S) <=>
          /\ \A j \in DOMAIN h.root : h.root[j] \in 1 .. n => h.root[j] \in S
          /\ \A i \in S : h.block[i].mtag \in {"object", "value_array"} =>
               \A j \in DOMAIN h.block[i].refs : h.block[i].refs[j] \in 1 .. n => h.block[i].refs[j] \in S
    BY DEF GM!Closed, GM!Block, GM!mtag_has_references, GM!Refs
  <2> QED
    BY <2>1, <1>4
<1>7. (\A i \in S : h.block[i].mtag \in {"object", "value_array"} => Addressed(addr, n, h.block[i].refs) \subseteq T)
        <=> \A a \in T : RefsOf(m, a) \subseteq T
  <2>1. \A i \in S : i \in 1 .. n /\ Addressed(addr, n, h.block[i].refs) = RefsOf(m, addr[i])
    BY <1>1
  <2>2. (\A a \in T : RefsOf(m, a) \subseteq T) <=> \A i \in S : RefsOf(m, addr[i]) \subseteq T
    OBVIOUS
  <2> HIDE DEF T
  <2> QED
    BY <1>5, <2>1, <2>2
<1> QED
  BY <1>1, <1>6, <1>7 DEF Closed

LEMMA ReachableAlike ==
  ASSUME NEW n \in Nat, NEW h, NEW m, NEW addr, Abstracts(addr, n, h, m), Sound(m)
  PROVE  Reachable(m) = {addr[i] : i \in GM(n, h)!Reachable}
<1> DEFINE C == {S \in SUBSET BlocksOf(m) : Closed(m, S)}
           D == {S \in SUBSET (1 .. n) : GM(n, h)!Closed(S)}
<1>1. /\ BlocksOf(m) = {addr[i] : i \in 1 .. n}
      /\ \A i, j \in 1 .. n : addr[i] = addr[j] => i = j
  <2>1. \A i, j \in 1 .. n : i < j => addr[i] < addr[j]
    BY DEF Abstracts
  <2>2. \A i \in 1 .. n : addr[i] \in Int
    <3>1. BlocksOf(m) \subseteq 1 .. HeapEnd(m) - 1 /\ HeapEnd(m) \in Nat
      BY SoundFacts
    <3> QED
      BY <3>1 DEF Abstracts
  <2>3. \A i, j \in 1 .. n : i < j \/ j < i \/ i = j
    OBVIOUS
  <2>4. \A i, j \in 1 .. n : i < j => addr[i] # addr[j]
    BY <2>1, <2>2
  <2> QED
    BY <2>3, <2>4 DEF Abstracts
<1>2. Reachable(m) = {a \in BlocksOf(m) : \A S \in C : a \in S}
  BY DEF Reachable
<1>3. GM(n, h)!Reachable = {i \in 1 .. n : \A S \in D : i \in S}
  BY DEF GM!Reachable, GM!Block
<1>4. ASSUME NEW S \in SUBSET (1 .. n)
      PROVE  S \in D <=> {addr[i] : i \in S} \in C
  <2>1. {addr[i] : i \in S} \subseteq BlocksOf(m)
    BY <1>1
  <2>2. GM(n, h)!Closed(S) <=> Closed(m, {addr[i] : i \in S})
    BY ClosedAlike
  <2> QED
    BY <2>1, <2>2
<1> HIDE DEF C, D
<1>5. ASSUME NEW T \in SUBSET BlocksOf(m)
      PROVE  T = {addr[i] : i \in {j \in 1 .. n : addr[j] \in T}}
  BY <1>1
<1>6. ASSUME NEW i \in 1 .. n
      PROVE  (\A S \in D : i \in S) <=> (\A T \in C : addr[i] \in T)
  <2>1. ASSUME \A S \in D : i \in S, NEW T \in C
        PROVE  addr[i] \in T
    <3> DEFINE S == {j \in 1 .. n : addr[j] \in T}
    <3>1. T \in SUBSET BlocksOf(m)
      BY DEF C
    <3>2. S \in D
      BY <1>4, <1>5, <3>1
    <3> QED
      BY <2>1, <3>2
  <2>2. ASSUME \A T \in C : addr[i] \in T, NEW S \in D
        PROVE  i \in S
    <3>1. S \in SUBSET (1 .. n)
      BY DEF D
    <3>2. addr[i] \in {addr[j] : j \in S}
      BY <1>4, <2>2, <3>1
    <3> QED
      BY <1>1, <3>1, <3>2
  <2> QED
    BY <2>1, <2>2
<1> QED
  BY <1>1, <1>2, <1>3, <1>6

\* The values of a set of blocks, as GCMark has them.
HasValues(addr, n, R) == \E vals \in Seq(0 .. n) : Addressed(addr, n, vals) = R

LEMMA ValuesExist ==
  ASSUME NEW n \in Nat, NEW e \in Nat, NEW B \in SUBSET (1 .. e), NEW addr \in [1 .. n -> B],
         B = {addr[i] : i \in 1 .. n}, NEW R \in SUBSET B
  PROVE  HasValues(addr, n, R)
<1> DEFINE I == {i \in 1 .. n : addr[i] \in R}
           c == Cardinality(I)
           vals == [j \in 1 .. c |-> Nth(I, j)]
<1>1. I \in SUBSET (1 .. n)
  OBVIOUS
<1> HIDE DEF I
<1>2. /\ c \in Nat
      /\ \A i \in I : Rank(I, i) \in 1 .. c /\ Nth(I, Rank(I, i)) = i
      /\ \A j \in 1 .. c : Nth(I, j) \in I
  BY <1>1, RankFacts, NthFacts
<1> HIDE DEF c
<1>3. vals \in Seq(0 .. n) /\ DOMAIN vals = 1 .. c
  <2>1. vals \in [1 .. c -> 0 .. n]
    <3>1. \A j \in 1 .. c : Nth(I, j) \in 1 .. n
      BY <1>1, <1>2
    <3>2. \A j \in 1 .. n : j \in 0 .. n
      OBVIOUS
    <3> QED
      BY <3>1, <3>2
  <2> HIDE DEF vals
  <2> QED
    BY <1>2, <2>1
<1>4. \A j \in 1 .. c : vals[j] \in I /\ vals[j] \in 1 .. n
  BY <1>1, <1>2
<1>5. \A i \in I : \E j \in 1 .. c : vals[j] = i
  BY <1>2
<1> HIDE DEF vals
<1>6. Addressed(addr, n, vals) = {addr[i] : i \in I}
  BY <1>3, <1>4, <1>5 DEF Addressed
<1>7. {addr[i] : i \in I} = R
  BY DEF I
<1> QED
  BY <1>3, <1>6, <1>7 DEF HasValues

\* Every memory that is Sound can be seen so, with blocks that GCMark may start from.
LEMMA AbstractionExists ==
  ASSUME NEW m, Sound(m)
  PROVE  \E n \in Nat : \E addr, h : h \in GM(n, h)!Heaps /\ Abstracts(addr, n, h, m)
<1> DEFINE e == HeapEnd(m) - 1
           B == BlocksOf(m)
           n == Cardinality(B)
           addr == [i \in 1 .. n |-> Nth(B, i)]
<1>1. e \in Nat /\ B \in SUBSET (1 .. e)
  <2>1. HeapEnd(m) \in Nat \ {0} /\ BlocksOf(m) \subseteq 1 .. HeapEnd(m) - 1
    BY SoundFacts
  <2> QED
    BY <2>1
<1>2. /\ StrongRefs(m) \subseteq B
      /\ \A a \in B : RefsOf(m, a) \subseteq B
  <2>1. ASSUME NEW b \in StrongRefs(m)
        PROVE  b \in B
    <3>1. PICK l \in StrongOf(m) : JS_IsPtr(m[l]) /\ b = m[l].a
      BY DEF StrongRefs
    <3>2. l \in ExtOf(m)
      BY DEF StrongOf
    <3> QED
      BY <3>1, <3>2 DEF Sound, IsBlock
  <2>2. ASSUME NEW a \in B, NEW b \in RefsOf(m, a)
        PROVE  b \in B
    BY DEF Sound, IsBlock
  <2> QED
    BY <2>1, <2>2
<1> HIDE DEF e, B
<1>3. /\ n \in Nat
      /\ \A i \in B : Rank(B, i) \in 1 .. n /\ Nth(B, Rank(B, i)) = i
      /\ \A i \in 1 .. n : Nth(B, i) \in B
      /\ \A i, j \in 1 .. n : i < j => Nth(B, i) < Nth(B, j)
  BY <1>1, RankFacts, NthFacts
<1> HIDE DEF n
<1>4. /\ addr \in [1 .. n -> B] /\ B = {addr[i] : i \in 1 .. n}
      /\ \A i, j \in 1 .. n : i < j => addr[i] < addr[j]
  BY <1>3
<1> HIDE DEF addr
<1> DEFINE Vals(R) == CHOOSE vals \in Seq(0 .. n) : Addressed(addr, n, vals) = R
           h == [block |-> [i \in 1 .. n |-> [mtag |-> MarkTag(m[addr[i]].mtag), refs |-> Vals(RefsOf(m, addr[i]))]],
                 root |-> Vals(StrongRefs(m))]
<1>5. ASSUME NEW R \in SUBSET B
      PROVE  Vals(R) \in Seq(0 .. n) /\ Addressed(addr, n, Vals(R)) = R
  <2>1. HasValues(addr, n, R)
    BY <1>1, <1>3, <1>4, ValuesExist
  <2> QED
    BY <2>1 DEF HasValues
<1> HIDE DEF Vals
<1>6. \A t : MarkTag(t) \in {"value_array", "object", "leaf"}
  BY DEF MarkTag
<1>7. \A i \in 1 .. n : addr[i] \in B
  BY <1>4
<1>8. h \in [block : [1 .. n -> [mtag : {"value_array", "object", "leaf"}, refs : Seq(0 .. n)]], root : Seq(0 .. n)]
  BY <1>2, <1>5, <1>6, <1>7
<1>9. \A i \in 1 .. n : /\ h.block[i].mtag = MarkTag(m[addr[i]].mtag)
                        /\ Addressed(addr, n, h.block[i].refs) = RefsOf(m, addr[i])
  BY <1>2, <1>5, <1>7
<1>10. Addressed(addr, n, h.root) = StrongRefs(m)
  BY <1>2, <1>5
<1> HIDE DEF h
<1>11. Abstracts(addr, n, h, m)
  BY <1>4, <1>9, <1>10 DEF Abstracts, B
<1>12. h \in GM(n, h)!Heaps
  BY <1>8 DEF GM!Heaps, GM!Block
<1> QED
  BY <1>3, <1>11, <1>12

\* What GCMark marks in the end (MarkIsExact in GCMarkProofs) is what the step Mark
\* of Collector marks: whichever way the memory is seen as a heap of GCMark, and
\* there is one, the reachable blocks are the same.
THEOREM MarkedAlike ==
  ASSUME NEW m, Sound(m)
  PROVE  /\ \E n \in Nat : \E addr, h : h \in GM(n, h)!Heaps /\ Abstracts(addr, n, h, m)
         /\ \A n \in Nat : \A addr, h :
              Abstracts(addr, n, h, m) => Reachable(m) = {addr[i] : i \in GM(n, h)!Reachable}
<1>1. \E n \in Nat : \E addr, h : h \in GM(n, h)!Heaps /\ Abstracts(addr, n, h, m)
  BY AbstractionExists
<1>2. ASSUME NEW n \in Nat, NEW addr, NEW h, Abstracts(addr, n, h, m)
      PROVE  Reachable(m) = {addr[i] : i \in GM(n, h)!Reachable}
  BY <1>2, ReachableAlike
<1> QED
  BY <1>1, <1>2
-----------------------------------------------------------------------------
(* What is kept.                                                           *)

\* The table of unique strings, as OldTable and OldEntries; and what is kept.
TableOf(s) == IF JS_IsPtr(s[TableLoc]) THEN s[TableLoc].a ELSE 0
EntriesOf(s) == IF TableOf(s) = 0 THEN <<>> ELSE Elements(s, TableOf(s))
IsLiveRef(s, w) == JS_IsPtr(w) /\ w.a \in Reachable(s)
KeptEntries(s) ==
  Selected(EntriesOf(s), {i \in DOMAIN EntriesOf(s) : IsLiveRef(s, EntriesOf(s)[i])})
Kept(s) == IF KeptEntries(s) = <<>> THEN Reachable(s) ELSE Reachable(s) \cup {TableOf(s)}
KeptSize(s) == [a \in Kept(s) |-> IF a = TableOf(s) THEN 1 + Len(KeptEntries(s)) ELSE s[a].n]

\* The table lives as long as one of its strings does.
LEMMA TableFacts ==
  ASSUME NEW s, Sound(s), NEW t, t = TableOf(s), t # 0
  PROVE  LET K == {i \in 1 .. s[t].n - 1 : IsLiveRef(s, s[t + i])} IN
         /\ t \in BlocksOf(s) /\ s[t].mtag = "value_array" /\ JS_IsPtr(s[TableLoc]) /\ s[TableLoc].a = t
         /\ MarkSlots(s[t]) = 1 .. s[t].n - 1
         /\ \A i \in 1 .. s[t].n - 1 : JS_IsPtr(s[t + i]) => IsBlock(s, s[t + i].a) /\ s[t + i].a # t
         /\ Cardinality(K) \in 0 .. s[t].n - 1 /\ Len(KeptEntries(s)) = Cardinality(K)
         /\ KeptEntries(s) = [j \in 1 .. Cardinality(K) |-> s[t + Nth(K, j)]]
         /\ \A j \in 1 .. Cardinality(K) : Nth(K, j) \in K /\ IsLiveRef(s, KeptEntries(s)[j])
         /\ t \in Reachable(s) => KeptEntries(s) # <<>>
<1> DEFINE n == s[t].n - 1
           K == {i \in 1 .. n : IsLiveRef(s, s[t + i])}
           c == Cardinality(K)
<1>1. JS_IsPtr(s[TableLoc]) /\ s[TableLoc].a = t
  BY DEF TableOf
<1>2. TableLoc \in ExtOf(s) /\ s[TableLoc] # Imm
  BY <1>1 DEF Sound, ExtOf, TableLoc, JS_IsPtr, Imm
<1>3. t \in BlocksOf(s) /\ s[t].mtag = "value_array" /\ \E i \in 1 .. n : JS_IsPtr(s[t + i])
  BY <1>1, <1>2 DEF Sound, IsBlock
<1>4. MarkSlots(s[t]) = 1 .. n
  BY <1>3 DEF MarkSlots
<1>5. ASSUME NEW i \in 1 .. n, JS_IsPtr(s[t + i])
      PROVE  s[t + i].a \in RefsOf(s, t) /\ IsBlock(s, s[t + i].a) /\ s[t + i].a # t
  <2>1. s[t + i].a \in RefsOf(s, t)
    BY <1>4, <1>5 DEF RefsOf
  <2> QED
    BY <1>3, <2>1 DEF Sound
<1>6. n \in Nat
  <2>1. s[t].n \in Nat \ {0}
    BY <1>3, SoundFacts
  <2> QED
    BY <2>1
<1>7. EntriesOf(s) = [i \in 1 .. n |-> s[t + i]]
  BY DEF EntriesOf, Elements
<1> HIDE DEF n
<1>8. c \in 0 .. n /\ IsFiniteSet(K) /\ \A j \in 1 .. c : Nth(K, j) \in K
  <2>1. K \in SUBSET (1 .. n)
    OBVIOUS
  <2>2. IsFiniteSet(1 .. n) /\ Cardinality(1 .. n) = n
    BY <1>6, FS_Interval
  <2> HIDE DEF K
  <2>3. IsFiniteSet(K) /\ c <= n
    BY <2>1, <2>2, FS_Subset
  <2>4. c \in Nat
    BY <2>3, FS_CardinalityType
  <2>5. \A j \in 1 .. c : Nth(K, j) \in K
    BY <1>6, <2>1, NthFacts
  <2> QED
    BY <1>6, <2>3, <2>4, <2>5
<1>9. KeptEntries(s) = [j \in 1 .. c |-> s[t + Nth(K, j)]]
  <2>1. {i \in DOMAIN EntriesOf(s) : IsLiveRef(s, EntriesOf(s)[i])} = K
    BY <1>7
  <2>3. \A j \in 1 .. c : EntriesOf(s)[Nth(K, j)] = s[t + Nth(K, j)]
    BY <1>7, <1>8
  <2> HIDE DEF K
  <2> QED
    BY <2>1, <2>3 DEF KeptEntries, Selected
<1>10. Len(KeptEntries(s)) = c /\ \A j \in 1 .. c : IsLiveRef(s, KeptEntries(s)[j])
  <2>1. \A j \in 1 .. c : IsLiveRef(s, s[t + Nth(K, j)])
    BY <1>8
  <2> HIDE DEF K, c
  <2>2. KeptEntries(s) \in Seq({s[t + Nth(K, j)] : j \in 1 .. c}) /\ Len(KeptEntries(s)) = c
    BY <1>8, <1>9
  <2> QED
    BY <1>8, <1>9, <2>1, <2>2
<1>11. ASSUME t \in Reachable(s)
       PROVE  KeptEntries(s) # <<>>
  <2>1. PICK i \in 1 .. n : JS_IsPtr(s[t + i])
    BY <1>3
  <2>2. s[t + i].a \in Reachable(s)
    BY <1>5, <1>11, <2>1, LiveFacts DEF Closed
  <2>3. i \in K
    BY <2>1, <2>2 DEF IsLiveRef
  <2>4. c # 0
    <3> HIDE DEF K
    <3> QED
      BY <1>8, <2>3, FS_EmptySet
  <2> HIDE DEF K, c
  <2> QED
    BY <1>8, <1>10, <2>4
<1> QED
  BY <1>1, <1>3, <1>4, <1>5, <1>8, <1>9, <1>10, <1>11 DEF n

\* The blocks that are kept: only the table gets smaller.
KeptHeader(s, a, mark) == [s[a] EXCEPT !.n = KeptSize(s)[a], !.mark = mark]
KeptWord(s, a, i) == IF a = TableOf(s) THEN KeptEntries(s)[i] ELSE s[a + i]

LEMMA KeptFacts ==
  ASSUME NEW s, Sound(s)
  PROVE  /\ Kept(s) \subseteq BlocksOf(s) /\ Reachable(s) \subseteq Kept(s)
         /\ \A a \in Kept(s) :
              /\ a # 0 /\ KeptSize(s)[a] \in 1 .. s[a].n /\ s[a].mtag # "free"
              /\ a # TableOf(s) => a \in Reachable(s) /\ KeptSize(s)[a] = s[a].n
              /\ a = TableOf(s) => KeptEntries(s) # <<>> /\ KeptSize(s)[a] = 1 + Len(KeptEntries(s))
              /\ \A mark \in BOOLEAN : LET h == KeptHeader(s, a, mark) IN
                   /\ h \in Header /\ h.mark = mark /\ h.n = KeptSize(s)[a] /\ ~JS_IsPtr(h)
                   /\ h.mtag = s[a].mtag /\ h.cls = s[a].cls
                   /\ a # TableOf(s) /\ ~mark => h = s[a]
         /\ KeptEntries(s) # <<>> => TableOf(s) # 0 /\ TableOf(s) \in Kept(s)
<1> DEFINE t == TableOf(s)
<1>1. /\ \A a \in BlocksOf(s) : a # 0 /\ s[a] \in Header /\ s[a].n \in Nat \ {0} /\ s[a].mark = FALSE
      /\ Reachable(s) \subseteq BlocksOf(s) /\ \A a \in Reachable(s) : s[a].mtag # "free"
  <2>1. /\ HeapEnd(s) \in Nat /\ BlocksOf(s) \subseteq 1 .. HeapEnd(s) - 1
        /\ \A a \in BlocksOf(s) : s[a] \in Header /\ s[a].n \in Nat \ {0} /\ s[a].mark = FALSE
    BY SoundFacts
  <2>2. Reachable(s) \subseteq BlocksOf(s) /\ \A a \in Reachable(s) : s[a].mtag # "free"
    BY LiveFacts
  <2> QED
    BY <2>1, <2>2
<1>2. ASSUME t # 0
      PROVE  /\ t \in BlocksOf(s) /\ s[t].mtag = "value_array" /\ Len(KeptEntries(s)) \in 0 .. s[t].n - 1
             /\ t \in Reachable(s) => KeptEntries(s) # <<>>
  BY <1>2, TableFacts
<1>3. t = 0 => KeptEntries(s) = <<>>
  <2>1. ASSUME t = 0
        PROVE  KeptEntries(s) = <<>>
    <3>1. {i \in DOMAIN <<>> : IsLiveRef(s, <<>>[i])} = {}
      OBVIOUS
    <3>2. KeptEntries(s) = Selected(<<>>, {})
      BY <2>1, <3>1 DEF KeptEntries, EntriesOf
    <3>3. Cardinality({}) = 0
      BY FS_EmptySet
    <3> QED
      BY <3>2, <3>3 DEF Selected
  <2> QED
    BY <2>1
<1> HIDE DEF t
<1>4. t = TableOf(s)
  BY DEF t
<1>5. /\ Kept(s) \subseteq BlocksOf(s) /\ Reachable(s) \subseteq Kept(s)
      /\ \A a \in Kept(s) : a # t => a \in Reachable(s)
      /\ \A a \in Kept(s) : a = t => KeptEntries(s) # <<>>
      /\ KeptEntries(s) # <<>> => t # 0 /\ t \in Kept(s)
  BY <1>1, <1>2, <1>3, <1>4 DEF Kept
<1>6. ASSUME NEW a \in Kept(s)
      PROVE  /\ a # 0 /\ KeptSize(s)[a] \in 1 .. s[a].n /\ s[a].mtag # "free"
             /\ a # t => KeptSize(s)[a] = s[a].n
             /\ a = t => KeptSize(s)[a] = 1 + Len(KeptEntries(s))
  <2>1. KeptSize(s)[a] = IF a = t THEN 1 + Len(KeptEntries(s)) ELSE s[a].n
    BY <1>4 DEF KeptSize
  <2>2. a \in BlocksOf(s) /\ a # 0 /\ s[a].n \in Nat \ {0}
    BY <1>1, <1>5
  <2>3. CASE a = t
    <3>1. s[a].mtag = "value_array" /\ Len(KeptEntries(s)) \in 0 .. s[a].n - 1
      BY <1>2, <2>2, <2>3
    <3> QED
      BY <2>1, <2>2, <2>3, <3>1
  <2>4. CASE a # t
    BY <1>1, <1>5, <2>1, <2>2, <2>4
  <2> QED
    BY <2>3, <2>4
<1>7. ASSUME NEW a \in Kept(s), NEW mark \in BOOLEAN
      PROVE  LET h == KeptHeader(s, a, mark) IN
             /\ h \in Header /\ h.mark = mark /\ h.n = KeptSize(s)[a] /\ ~JS_IsPtr(h)
             /\ h.mtag = s[a].mtag /\ h.cls = s[a].cls
             /\ a # t /\ ~mark => h = s[a]
  <2> DEFINE z == KeptSize(s)[a]
             h == KeptHeader(s, a, mark)
  <2>1. s[a] \in Header /\ s[a].mark = FALSE /\ z \in Nat \ {0} /\ (a # t => z = s[a].n)
    BY <1>1, <1>5, <1>6
  <2> HIDE DEF z
  <2>2. h = [s[a] EXCEPT !.n = z, !.mark = mark]
    BY DEF KeptHeader, z
  <2> HIDE DEF h
  <2>3. h \in Header /\ h.mark = mark /\ h.n = z /\ ~JS_IsPtr(h) /\ h.mtag = s[a].mtag /\ h.cls = s[a].cls
    BY <2>1, <2>2 DEF Header, JS_IsPtr
  <2>4. a # t /\ ~mark => h = s[a]
    <3> SUFFICES ASSUME a # t, ~mark
                 PROVE  h = s[a]
      OBVIOUS
    <3>1. h.mark = FALSE
      BY <2>3
    <3> QED
      BY <2>1, <2>3, <3>1, SameHeader
  <2> QED
    BY <2>3, <2>4 DEF h, z
<1> QED
  BY <1>4, <1>5, <1>6, <1>7
-----------------------------------------------------------------------------
(* The memory between the mark phase and the compaction.                   *)

\* What the mark phase leaves.
Marked(s) ==
  [l \in DOMAIN s |-> IF l \in Reachable(s) THEN [s[l] EXCEPT !.mark = TRUE] ELSE s[l]]

\* The sweep is at p: the blocks that are kept are marked from there on, the
\* others are free blocks before it and not marked after it.
InSweep(m, p, s, weak) ==
  /\ IsFcn(m) /\ DOMAIN m = DOMAIN s
  /\ Laid(m, BlocksOf(m), 1, HeapEnd(s))
  /\ p \in BlocksOf(m) \cup {HeapEnd(s)}
  /\ Kept(s) \subseteq BlocksOf(m)
  /\ \A a \in Kept(s) : /\ m[a] = IF a >= p THEN KeptHeader(s, a, TRUE) ELSE KeptHeader(s, a, FALSE)
                        /\ \A i \in 1 .. KeptSize(s)[a] - 1 : m[a + i] = KeptWord(s, a, i)
  /\ \A b \in BlocksOf(m) \ Kept(s) :
       /\ m[b].mark = FALSE
       /\ b < p => m[b].mtag = "free"
       /\ b >= p /\ m[b].mtag = "object" => m[b] = Marked(s)[b]
  /\ \A l \in StrongOf(s) : m[l] = s[l]
  /\ m[TableLoc] = IF KeptEntries(s) = <<>> THEN Imm ELSE s[TableLoc]
  /\ \A l \in CacheLocs : m[l] = IF weak /\ ~IsLiveRef(s, s[l]) THEN Imm ELSE s[l]

\* Before the cache is looked at only the table has changed.
InCache(m, s) ==
  /\ InSweep(m, 1, s, FALSE)
  /\ \A x \in BlocksOf(s) : x # TableOf(s) => m[x] = Marked(s)[x]

LEMMA BlocksAre ==
  ASSUME NEW s, Sound(s), NEW m, DOMAIN m = DOMAIN s, NEW B, Laid(m, B, 1, HeapEnd(s))
  PROVE  BlocksOf(m) = B /\ Walkable(m, 1, HeapEnd(s)) /\ HeapEnd(m) = HeapEnd(s)
<1>1. HeapEnd(m) = HeapEnd(s)
  BY DEF HeapEnd
<1>2. 1 \in Int /\ HeapEnd(s) \in Int
  <2>1. HeapEnd(s) \in Nat \ {0}
    BY SoundFacts
  <2> QED
    BY <2>1
<1>3. Walkable(m, 1, HeapEnd(s)) /\ BlockAddrs(m, 1, HeapEnd(s)) = B
  BY <1>2, WalkMeets
<1> QED
  BY <1>1, <1>3 DEF BlocksOf

LEMMA LaidKept ==
  ASSUME NEW m, NEW B, NEW e, Laid(m, B, 1, e), NEW n, \A a \in B : n[a] \in Header /\ n[a].n = m[a].n
  PROVE  Laid(n, B, 1, e)
BY DEF Laid

LEMMA MarkedFacts ==
  ASSUME NEW s, Sound(s)
  PROVE  LET m == Marked(s) IN
         /\ IsFcn(m) /\ DOMAIN m = DOMAIN s
         /\ \A x \in DOMAIN s : x \notin BlocksOf(s) => m[x] = s[x]
         /\ \A a \in BlocksOf(s) :
              /\ a \in DOMAIN s /\ m[a] \in Header /\ m[a].n = s[a].n /\ m[a].mtag = s[a].mtag /\ m[a].cls = s[a].cls
              /\ (m[a].mark = IF a \in Reachable(s) THEN TRUE ELSE FALSE) /\ ~JS_IsPtr(m[a])
         /\ \A a \in Reachable(s) : a # TableOf(s) => m[a] = KeptHeader(s, a, TRUE)
         /\ Laid(m, BlocksOf(s), 1, HeapEnd(s))
<1> DEFINE m == Marked(s)
<1>1. /\ \A a \in BlocksOf(s) : a \in DOMAIN s /\ s[a] \in Header /\ s[a].mark = FALSE
      /\ Reachable(s) \subseteq BlocksOf(s)
  <2>1. /\ BlocksOf(s) \subseteq 1 .. HeapEnd(s) - 1 /\ \A l \in 1 .. HeapEnd(s) - 1 : l \in DOMAIN s
        /\ \A a \in BlocksOf(s) : s[a] \in Header /\ s[a].mark = FALSE
    BY SoundFacts
  <2> QED
    BY <2>1, LiveFacts
<1>2. /\ IsFcn(m) /\ DOMAIN m = DOMAIN s
      /\ \A x \in DOMAIN s : m[x] = IF x \in Reachable(s) THEN [s[x] EXCEPT !.mark = TRUE] ELSE s[x]
  BY DEF Marked, IsFcn
<1> HIDE DEF m
<1>3. ASSUME NEW a \in BlocksOf(s)
      PROVE  /\ a \in DOMAIN s /\ m[a] \in Header /\ m[a].n = s[a].n /\ m[a].mtag = s[a].mtag /\ m[a].cls = s[a].cls
             /\ (m[a].mark = IF a \in Reachable(s) THEN TRUE ELSE FALSE) /\ ~JS_IsPtr(m[a])
  <2> DEFINE h == s[a]
  <2>1. a \in DOMAIN s /\ h \in Header /\ h.mark = FALSE
    BY <1>1
  <2>2. m[a] = IF a \in Reachable(s) THEN [h EXCEPT !.mark = TRUE] ELSE h
    BY <1>2, <2>1
  <2> HIDE DEF h
  <2>3. m[a] \in Header /\ m[a].n = h.n /\ m[a].mtag = h.mtag /\ m[a].cls = h.cls /\ ~JS_IsPtr(m[a])
    BY <2>1, <2>2 DEF Header, JS_IsPtr
  <2>4. CASE a \in Reachable(s)
    <3>1. m[a].mark = TRUE
      BY <2>1, <2>2, <2>4 DEF Header
    <3> QED
      BY <2>1, <2>3, <2>4, <3>1 DEF h
  <2>5. CASE a \notin Reachable(s)
    BY <2>1, <2>2, <2>3, <2>5 DEF h
  <2> QED
    BY <2>4, <2>5
<1>4. ASSUME NEW a \in Reachable(s), a # TableOf(s)
      PROVE  m[a] = KeptHeader(s, a, TRUE)
  <2>1. KeptSize(s)[a] = s[a].n /\ a \in BlocksOf(s) /\ s[a] \in Header /\ a \in DOMAIN s
    BY <1>1, <1>4, KeptFacts
  <2>2. m[a] = [s[a] EXCEPT !.mark = TRUE]
    BY <1>2, <2>1
  <2> DEFINE h == s[a]
  <2>3. [h EXCEPT !.mark = TRUE] = [h EXCEPT !.n = h.n, !.mark = TRUE]
    <3>1. h \in Header
      BY <2>1
    <3> HIDE DEF h
    <3> QED
      BY <3>1 DEF Header
  <2> QED
    BY <2>1, <2>2, <2>3 DEF KeptHeader
<1>5. Laid(m, BlocksOf(s), 1, HeapEnd(s))
  <2>1. Laid(s, BlocksOf(s), 1, HeapEnd(s))
    BY DEF Sound
  <2> QED
    BY <1>3, <2>1, LaidKept
<1> QED
  BY <1>1, <1>2, <1>3, <1>4, <1>5 DEF m

\* Cutting the table leaves its first elements, and a free block in place of the
\* others.
LEMMA TableCut ==
  ASSUME NEW s, Sound(s), mem = Marked(s), KeptEntries(s) # <<>>
  PROVE  LET t == TableOf(s)
             m == CutTable(t, KeptEntries(s))
             c == Len(KeptEntries(s))
             n == s[t].n
             cut == IF c + 1 < n THEN {t + c + 1} ELSE {}
         IN /\ IsFcn(m) /\ DOMAIN m = DOMAIN s
            /\ m[t] = KeptHeader(s, t, TRUE)
            /\ \A i \in 1 .. c : m[t + i] = KeptEntries(s)[i]
            /\ \A x \in DOMAIN s : x < t \/ x >= t + n => m[x] = mem[x]
            /\ \A x \in cut : m[x] = Free(n - 1 - c)
            /\ Laid(m, BlocksOf(s) \cup cut, 1, HeapEnd(s))
<1> DEFINE t == TableOf(s)
           m == CutTable(t, KeptEntries(s))
           K == KeptEntries(s)
           c == Len(KeptEntries(s))
           n == s[t].n
           cut == IF c + 1 < n THEN {t + c + 1} ELSE {}
           e == HeapEnd(s)
           B == BlocksOf(s)
<1>0. t = TableOf(s) /\ m = CutTable(t, KeptEntries(s))
  OBVIOUS
<1> HIDE DEF t, m
<1> USE <1>0
<1>1. t # 0 /\ t \in Kept(s) /\ KeptSize(s)[t] = 1 + c /\ t \in B
  BY KeptFacts
<1>2. c \in 0 .. n - 1
  <2>1. TableOf(s) # 0
    BY <1>1
  <2>2. Len(KeptEntries(s)) \in 0 .. s[TableOf(s)].n - 1
    BY ONLY Sound(s), <2>1, TableFacts
  <2> QED
    BY <2>2
<1>3. /\ e \in Nat \ {0} /\ B \subseteq 1 .. e - 1 /\ 1 \in B \cup {e} /\ n \in Nat \ {0}
      /\ \A l \in DOMAIN s : l \in Int
      /\ \A l \in 1 .. e - 1 : l \in DOMAIN s
      /\ \A a \in B :
           /\ a + s[a].n \in B \cup {e}
           /\ \A b \in B : a < b => a + s[a].n <= b
  <2>1. /\ e \in Nat \ {0} /\ B \subseteq 1 .. e - 1 /\ 1 \in B \cup {e}
        /\ \A l \in DOMAIN s : l \in Int
        /\ \A l \in 1 .. e - 1 : l \in DOMAIN s
    BY SoundFacts
  <2>2. /\ n \in Nat \ {0}
        /\ \A a \in B :
             /\ a + s[a].n \in B \cup {e}
             /\ \A b \in B : a < b => a + s[a].n <= b
    BY <1>1, SoundFacts
  <2> QED
    BY <2>1, <2>2
<1>4. /\ DOMAIN mem = DOMAIN s /\ mem[t].n = n
      /\ \A a \in B : mem[a] \in Header /\ mem[a].n = s[a].n
  <2>1. DOMAIN mem = DOMAIN s /\ \A a \in BlocksOf(s) : mem[a] \in Header /\ mem[a].n = s[a].n
    <3> HIDE DEF K, c, n, cut, e, B
    <3> QED
      BY MarkedFacts
  <2> QED
    BY <1>1, <2>1
<1> HIDE DEF e, B, c, n
<1>5. /\ t \in Nat \ {0} /\ t + n \in B \cup {e} /\ t + n <= e /\ t < e
      /\ \A a \in B : a \in Int /\ a >= 1 /\ a < e /\ (a < t => a + s[a].n <= t) /\ (a > t => a >= t + n)
  <2>1. \A a \in B : a \in Int /\ a >= 1 /\ a < e
    BY <1>3
  <2>2. t + n \in B \cup {e} /\ \A a \in B : (a < t => a + s[a].n <= t) /\ (a > t => t + n <= a)
    BY <1>1, <1>3 DEF n
  <2> QED
    BY <1>1, <1>3, <2>1, <2>2
<1>6. /\ IsFcn(m) /\ DOMAIN m = DOMAIN s
      /\ \A i \in DOMAIN s : m[i] =
           (CASE i = t -> [mem[t] EXCEPT !.n = c + 1, !.mark = TRUE]
              [] i \in t + 1 .. t + c -> K[i - t]
              [] i = t + c + 1 /\ i < t + n -> Free(n - 1 - c)
              [] OTHER -> mem[i])
  <2>1. m = [i \in DOMAIN s |->
               CASE i = t -> [mem[t] EXCEPT !.n = c + 1, !.mark = TRUE]
                 [] i \in t + 1 .. t + c -> K[i - t]
                 [] i = t + c + 1 /\ i < t + n -> Free(n - 1 - c)
                 [] OTHER -> mem[i]]
    BY <1>4 DEF CutTable, c
  <2> HIDE DEF K
  <2> QED
    BY <2>1 DEF IsFcn
<1> HIDE DEF K
<1>7. m[t] = [mem[t] EXCEPT !.n = c + 1, !.mark = TRUE]
  <2>1. t \in DOMAIN s /\ t \notin t + 1 .. t + c /\ t # t + c + 1
    BY <1>2, <1>3, <1>5
  <2> QED
    BY <1>6, <2>1
<1>8. \A i \in 1 .. c : m[t + i] = K[i]
  <2>1. ASSUME NEW i \in 1 .. c
        PROVE  m[t + i] = K[i]
    <3> DEFINE x == t + i
    <3>1. x \in DOMAIN s /\ x # t /\ x \in t + 1 .. t + c /\ x # t + c + 1 /\ x - t = i
      <4>1. t \in Nat \ {0} /\ c \in Nat /\ c < n /\ n \in Nat /\ e \in Nat /\ t + n <= e
        BY <1>2, <1>3, <1>5
      <4>2. x \in 1 .. e - 1 /\ x # t /\ x \in t + 1 .. t + c /\ x # t + c + 1 /\ x - t = i
        BY ONLY <4>1, i \in 1 .. c
      <4> HIDE DEF x
      <4> QED
        BY <1>3, <4>2
    <3> HIDE DEF x
    <3>2. m[x] = K[i]
      BY <1>6, <3>1
    <3> QED
      BY <3>2 DEF x
  <2> QED
    BY <2>1
<1>9. ASSUME NEW x \in DOMAIN s, x < t \/ x >= t + n
      PROVE  m[x] = mem[x]
  <2>1. x \in Int /\ x # t /\ x \notin t + 1 .. t + c /\ ~(x = t + c + 1 /\ x < t + n)
    BY <1>2, <1>3, <1>5, <1>9
  <2> QED
    BY <1>6, <2>1
<1>10. ASSUME NEW x \in cut
       PROVE  x = t + c + 1 /\ c + 1 < n /\ m[x] = Free(n - 1 - c)
  <2>1. x = t + c + 1 /\ c + 1 < n
    OBVIOUS
  <2> HIDE DEF cut
  <2>2. x \in 1 .. e - 1 /\ x # t /\ x \notin t + 1 .. t + c /\ x < t + n
    BY <1>2, <1>3, <1>5, <2>1
  <2> QED
    BY <1>3, <1>6, <2>1, <2>2
<1>11. m[t] = KeptHeader(s, t, TRUE)
  <2> DEFINE h == s[t]
  <2>1. mem[t] = h \/ mem[t] = [h EXCEPT !.mark = TRUE]
    <3>1. t \in DOMAIN s
      BY <1>3, <1>5
    <3> HIDE DEF h
    <3>2. mem[t] = IF t \in Reachable(s) THEN [s[t] EXCEPT !.mark = TRUE] ELSE s[t]
      BY <3>1 DEF Marked
    <3> QED
      BY <3>2 DEF h
  <2>2. h \in Header
    BY <1>1, SoundFacts DEF B
  <2>3. KeptHeader(s, t, TRUE) = [h EXCEPT !.n = 1 + c, !.mark = TRUE]
    BY <1>1 DEF KeptHeader
  <2> HIDE DEF h
  <2>4. 1 + c = c + 1
    BY <1>2
  <2>5. [mem[t] EXCEPT !.n = c + 1, !.mark = TRUE] = [h EXCEPT !.n = c + 1, !.mark = TRUE]
    BY <2>1, <2>2 DEF Header
  <2> QED
    BY <1>7, <2>3, <2>4, <2>5
<1>12. m[t] \in Header /\ m[t].n = c + 1
  <2>1. KeptHeader(s, t, TRUE) \in Header /\ KeptHeader(s, t, TRUE).n = KeptSize(s)[t]
    BY <1>1, KeptFacts
  <2>2. 1 + c = c + 1
    BY <1>2
  <2> QED
    BY <1>1, <1>11, <2>1, <2>2
<1>13. \A x \in cut : x = t + c + 1 /\ c + 1 < n /\ m[x] \in Header /\ m[x].n = n - 1 - c
  <2>1. ASSUME NEW z \in Nat \ {0}
        PROVE  Free(z) \in Header /\ Free(z).n = z
    BY DEF Free, Hdr, Header, MTag
  <2>2. c + 1 < n => n - 1 - c \in Nat \ {0}
    BY <1>2, <1>3
  <2> QED
    BY <1>10, <2>1, <2>2
<1>14. c + 1 < n => t + c + 1 \in cut
  OBVIOUS
<1> HIDE DEF cut
<1>15. Laid(m, B \cup cut, 1, e)
  <2>1. B \cup cut \subseteq 1 .. e - 1
    <3>1. \A x \in cut : x \in 1 .. e - 1
      BY <1>2, <1>3, <1>5, <1>13
    <3> QED
      BY <1>3, <3>1
  <2>2. ASSUME NEW a \in B, a # t
        PROVE  /\ m[a] \in Header /\ a + m[a].n \in (B \cup cut) \cup {e}
               /\ \A b \in B \cup cut : a < b => a + m[a].n <= b
    <3>1. a \in DOMAIN s /\ m[a] = mem[a] /\ m[a] \in Header /\ m[a].n = s[a].n
      <4>1. a \in DOMAIN s /\ (a < t \/ a >= t + n)
        BY <1>3, <1>5, <2>2
      <4> QED
        BY <1>4, <1>9, <4>1
    <3>2. ASSUME NEW b \in cut, a < b
          PROVE  a + s[a].n <= b
      <4>1. b = t + c + 1 /\ c + 1 < n
        BY <1>13
      <4>2. ~(a > t)
        BY <1>2, <1>3, <1>5, <3>2, <4>1
      <4>3. a + s[a].n <= t
        BY <1>5, <2>2, <4>2
      <4>4. a + s[a].n \in Int
        <5>1. a + s[a].n \in B \cup {e} /\ e \in Int /\ \A x \in B : x \in Int
          BY <1>3, <1>5
        <5> QED
          BY <5>1
      <4> QED
        BY <1>2, <1>5, <4>1, <4>3, <4>4
    <3> QED
      BY <1>3, <3>1, <3>2
  <2>3. /\ t + m[t].n \in (B \cup cut) \cup {e}
        /\ \A b \in B \cup cut : t < b => t + m[t].n <= b
    <3>1. t + m[t].n = t + c + 1
      BY <1>2, <1>5, <1>12
    <3>2. c + 1 = n \/ c + 1 < n
      BY <1>2, <1>3
    <3>3. t + c + 1 \in (B \cup cut) \cup {e}
      <4>1. c + 1 = n => t + c + 1 = t + n
        BY <1>2, <1>5
      <4> QED
        BY <1>5, <1>14, <3>2, <4>1
    <3>4. \A b \in B \cup cut : t < b => t + c + 1 <= b
      <4>1. ASSUME NEW b \in B, t < b
            PROVE  t + c + 1 <= b
        BY <1>2, <1>3, <1>5, <4>1
      <4>2. ASSUME NEW b \in cut
            PROVE  t + c + 1 <= b
        BY <1>2, <1>5, <1>13
      <4> QED
        BY <4>1, <4>2
    <3> QED
      BY <3>1, <3>3, <3>4
  <2>4. ASSUME NEW a \in cut
        PROVE  /\ m[a] \in Header /\ a + m[a].n \in (B \cup cut) \cup {e}
               /\ \A b \in B \cup cut : a < b => a + m[a].n <= b
    <3>1. a = t + c + 1 /\ c + 1 < n /\ m[a] \in Header /\ m[a].n = n - 1 - c
      BY <1>13
    <3>2. a + m[a].n = t + n
      BY <1>2, <1>3, <1>5, <3>1
    <3>3. ASSUME NEW b \in B \cup cut, a < b
          PROVE  t + n <= b
      <4>1. CASE b \in B
        BY <1>2, <1>5, <3>1, <3>3, <4>1
      <4>2. CASE b \in cut
        BY <1>2, <1>5, <1>13, <3>1, <3>3, <4>2
      <4> QED
        BY <3>3, <4>1, <4>2
    <3> QED
      BY <1>5, <3>1, <3>2, <3>3
  <2>5. 1 <= e /\ 1 \in (B \cup cut) \cup {e}
    BY <1>3
  <2>6. ASSUME NEW a \in B \cup cut
        PROVE  /\ m[a] \in Header /\ a + m[a].n \in (B \cup cut) \cup {e}
               /\ \A b \in B \cup cut : a < b => a + m[a].n <= b
    BY <1>12, <2>2, <2>3, <2>4
  <2> QED
    BY <2>1, <2>5, <2>6 DEF Laid
<1>16. /\ IsFcn(m) /\ DOMAIN m = DOMAIN s
       /\ \A x \in DOMAIN s : x < t \/ x >= t + n => m[x] = mem[x]
       /\ \A x \in cut : m[x] = Free(n - 1 - c)
  BY <1>6, <1>9, <1>10
<1> QED
  BY <1>8, <1>11, <1>15, <1>16 DEF t, m, K, c, n, cut, e, B

\* A word of a block is in no other block and is left alone by the mark phase.
LEMMA MarkedWord ==
  ASSUME NEW s, Sound(s), NEW a \in BlocksOf(s), NEW i \in 1 .. s[a].n - 1
  PROVE  /\ a + i \in 1 .. HeapEnd(s) - 1 /\ a + i \in DOMAIN s /\ a + i \notin BlocksOf(s)
         /\ Marked(s)[a + i] = s[a + i]
         /\ \A t \in BlocksOf(s) : t # a => a + i < t \/ a + i >= t + s[t].n
<1> DEFINE e == HeapEnd(s)
           B == BlocksOf(s)
           x == a + i
<1>1. /\ e \in Nat \ {0} /\ B \subseteq 1 .. e - 1
      /\ \A l \in 1 .. e - 1 : l \in DOMAIN s
      /\ \A b \in B : s[b].n \in Nat \ {0} /\ b + s[b].n \in B \cup {e} /\ \A c \in B : b < c => b + s[b].n <= c
  BY SoundFacts
<1>2. \A y \in DOMAIN s : y \notin B => Marked(s)[y] = s[y]
  BY MarkedFacts
<1> HIDE DEF e, B
<1>a. a \in B
  BY DEF B
<1>b. \A b \in B : b \in Int /\ b < e /\ b >= 1
  BY <1>1
<1>3. x \in Int /\ x >= 1 /\ a < x /\ x < a + s[a].n /\ a + s[a].n <= e
  <2>1. a \in Int /\ a >= 1 /\ s[a].n \in Nat /\ a + s[a].n \in Int /\ a + s[a].n <= e
    BY <1>a, <1>b, <1>1
  <2> QED
    BY <2>1
<1> HIDE DEF x
<1>c. e \in Int
  BY <1>1
<1>4. x \in 1 .. e - 1
  <2>1. a + s[a].n \in Int
    BY <1>a, <1>b, <1>1
  <2> QED
    BY <1>3, <1>c, <2>1
<1>5. ASSUME NEW t \in B
      PROVE  t # x /\ (t # a => x < t \/ x >= t + s[t].n)
  <2>1. t \in Int /\ t + s[t].n \in Int /\ a \in Int /\ a + s[a].n \in Int
    BY <1>1, <1>a, <1>b
  <2>2. CASE t < a
    <3>1. t + s[t].n <= a
      BY <1>1, <1>a, <2>2
    <3> QED
      BY <1>3, <2>1, <2>2, <3>1
  <2>3. CASE a < t
    <3>1. a + s[a].n <= t
      BY <1>1, <1>a, <2>3
    <3> QED
      BY <1>3, <2>1, <2>3, <3>1
  <2> QED
    BY <1>3, <2>1, <2>2, <2>3
<1>6. x \notin B /\ x \in DOMAIN s /\ Marked(s)[x] = s[x]
  BY <1>1, <1>2, <1>4, <1>5
<1> QED
  BY <1>4, <1>5, <1>6 DEF x, e, B

\* Of the locations outside of the heap.
LEMMA MarkedOutside ==
  ASSUME NEW s, Sound(s), NEW l \in DOMAIN s, l < 0
  PROVE  l \notin BlocksOf(s) /\ Marked(s)[l] = s[l]
<1>1. HeapEnd(s) \in Nat \ {0} /\ BlocksOf(s) \subseteq 1 .. HeapEnd(s) - 1
  BY SoundFacts
<1>2. l \notin BlocksOf(s)
  <2> DEFINE B == BlocksOf(s)
  <2>1. \A b \in B : b \in Int /\ b >= 1
    BY <1>1
  <2> HIDE DEF B
  <2>2. l \notin B
    BY <2>1
  <2> QED
    BY <2>2 DEF B
<1> QED
  BY <1>2, MarkedFacts

\* The table is gone, or there was none.
LEMMA NoTableKept ==
  ASSUME NEW s, Sound(s), KeptEntries(s) = <<>>, NEW m, IsFcn(m), DOMAIN m = DOMAIN s,
         \A x \in DOMAIN s : x # TableLoc => m[x] = Marked(s)[x], m[TableLoc] = Imm
  PROVE  InCache(m, s)
<1> DEFINE B == BlocksOf(s)
           e == HeapEnd(s)
<1>1. /\ \A x \in DOMAIN s : x # TableLoc => m[x] = Marked(s)[x]
      /\ Kept(s) = Reachable(s) /\ Kept(s) \subseteq B
  BY KeptFacts DEF Kept
<1>2. /\ e \in Nat \ {0} /\ B \subseteq 1 .. e - 1 /\ 1 \in B \cup {e}
      /\ \A l \in 1 .. e - 1 : l \in DOMAIN s
  BY SoundFacts
<1>3. \A x \in B : x \in DOMAIN s /\ x # TableLoc /\ x >= 1
  <2> HIDE DEF B, e
  <2> QED
    BY <1>2 DEF TableLoc
<1>4. /\ Laid(Marked(s), B, 1, e)
      /\ \A a \in B : Marked(s)[a] \in Header /\ (Marked(s)[a].mark = IF a \in Reachable(s) THEN TRUE ELSE FALSE)
      /\ \A a \in Reachable(s) : a # TableOf(s) => Marked(s)[a] = KeptHeader(s, a, TRUE)
  BY MarkedFacts
<1>5. Laid(m, B, 1, e)
  <2>1. \A a \in B : m[a] \in Header /\ m[a].n = Marked(s)[a].n
    BY <1>1, <1>3, <1>4
  <2> QED
    BY <1>4, <2>1, LaidKept
<1>6. BlocksOf(m) = B
  BY <1>5, BlocksAre
<1>7. ASSUME NEW a \in Kept(s)
      PROVE  /\ m[a] = IF a >= 1 THEN KeptHeader(s, a, TRUE) ELSE KeptHeader(s, a, FALSE)
             /\ \A i \in 1 .. KeptSize(s)[a] - 1 : m[a + i] = KeptWord(s, a, i)
  <2>1. a # TableOf(s) /\ a \in Reachable(s) /\ KeptSize(s)[a] = s[a].n /\ a \in B
    BY KeptFacts
  <2>2. m[a] = KeptHeader(s, a, TRUE) /\ a >= 1
    BY <1>1, <1>3, <1>4, <2>1
  <2>3. ASSUME NEW i \in 1 .. s[a].n - 1
        PROVE  m[a + i] = KeptWord(s, a, i)
    <3>1. a + i \in 1 .. HeapEnd(s) - 1 /\ a + i \in DOMAIN s /\ Marked(s)[a + i] = s[a + i]
      BY <2>1, MarkedWord
    <3>2. a + i # TableLoc
      BY <3>1 DEF TableLoc
    <3> QED
      BY <1>1, <2>1, <3>1, <3>2 DEF KeptWord
  <2> QED
    BY <2>1, <2>2, <2>3
<1>8. ASSUME NEW b \in B \ Kept(s)
      PROVE  /\ m[b].mark = FALSE /\ (b < 1 => m[b].mtag = "free")
             /\ m[b] = Marked(s)[b]
  <2>1. m[b] = Marked(s)[b] /\ b >= 1
    BY <1>1, <1>3
  <2>2. Marked(s)[b].mark = FALSE
    BY <1>1, <1>4
  <2>3. ~(b < 1)
    <3> HIDE DEF B
    <3>1. b \in Int
      BY <1>2
    <3> QED
      BY <2>1, <3>1
  <2> QED
    BY <2>1, <2>2, <2>3
<1>9. ASSUME NEW l \in DOMAIN s, l < 0, l # TableLoc
      PROVE  m[l] = s[l]
  BY <1>1, <1>9, MarkedOutside
<1>10. /\ \A l \in StrongOf(s) : m[l] = s[l]
       /\ \A l \in CacheLocs : m[l] = s[l]
  <2>1. CacheLocs \subseteq DOMAIN s
    BY DEF Sound
  <2>2. ASSUME NEW l \in CacheLocs
        PROVE  l \in DOMAIN s /\ l < 0 /\ l # TableLoc
    BY <2>1 DEF CacheLocs, TableLoc
  <2>3. ASSUME NEW l \in StrongOf(s)
        PROVE  l \in DOMAIN s /\ l < 0 /\ l # TableLoc
    BY DEF StrongOf, ExtOf
  <2> QED
    BY <1>9, <2>2, <2>3
<1>11. \A l \in CacheLocs : m[l] = IF FALSE /\ ~IsLiveRef(s, s[l]) THEN Imm ELSE s[l]
  BY <1>10
<1>12. 1 \in BlocksOf(m) \cup {HeapEnd(s)}
  BY <1>2, <1>6
<1>13. /\ \A b \in BlocksOf(m) \ Kept(s) :
             /\ m[b].mark = FALSE
             /\ b < 1 => m[b].mtag = "free"
             /\ b >= 1 /\ m[b].mtag = "object" => m[b] = Marked(s)[b]
       /\ Kept(s) \subseteq BlocksOf(m)
  BY <1>1, <1>6, <1>8
<1>14. m[TableLoc] = IF KeptEntries(s) = <<>> THEN Imm ELSE s[TableLoc]
  OBVIOUS
<1>15. Laid(m, BlocksOf(m), 1, HeapEnd(s))
  BY <1>5, <1>6
<1>16. \A x \in BlocksOf(s) : x # TableOf(s) => m[x] = Marked(s)[x]
  BY <1>1, <1>3
<1>17. InSweep(m, 1, s, FALSE)
  <2> HIDE DEF B, e
  <2> QED
    BY <1>7, <1>10, <1>11, <1>12, <1>13, <1>14, <1>15 DEF InSweep
<1> QED
  BY <1>16, <1>17 DEF InCache

\* The table is cut.
LEMMA TableKept ==
  ASSUME NEW s, Sound(s), mem = Marked(s), KeptEntries(s) # <<>>,
         NEW m, m = CutTable(TableOf(s), KeptEntries(s))
  PROVE  InCache(m, s)
<1> DEFINE B == BlocksOf(s)
           e == HeapEnd(s)
           t == TableOf(s)
           n == s[t].n
           c == Len(KeptEntries(s))
           cut == IF c + 1 < n THEN {t + c + 1} ELSE {}
<1>1. /\ IsFcn(m) /\ DOMAIN m = DOMAIN s
      /\ m[t] = KeptHeader(s, t, TRUE)
      /\ \A i \in 1 .. c : m[t + i] = KeptEntries(s)[i]
      /\ \A x \in DOMAIN s : x < t \/ x >= t + n => m[x] = Marked(s)[x]
      /\ \A x \in cut : m[x] = Free(n - 1 - c)
      /\ Laid(m, B \cup cut, 1, e)
  <2> HIDE DEF B, e
  <2>1. LET d == Len(KeptEntries(s))
            k == s[TableOf(s)].n
            f == IF d + 1 < k THEN {TableOf(s) + d + 1} ELSE {}
            w == CutTable(TableOf(s), KeptEntries(s))
        IN /\ IsFcn(w) /\ DOMAIN w = DOMAIN s
           /\ w[TableOf(s)] = KeptHeader(s, TableOf(s), TRUE)
           /\ \A i \in 1 .. d : w[TableOf(s) + i] = KeptEntries(s)[i]
           /\ \A x \in DOMAIN s : x < TableOf(s) \/ x >= TableOf(s) + k => w[x] = mem[x]
           /\ \A x \in f : w[x] = Free(k - 1 - d)
           /\ Laid(w, BlocksOf(s) \cup f, 1, HeapEnd(s))
    BY ONLY Sound(s), mem = Marked(s), KeptEntries(s) # <<>>, TableCut
  <2> QED
    BY <2>1 DEF B, e
<1>2. /\ e \in Nat \ {0} /\ B \subseteq 1 .. e - 1 /\ 1 \in B \cup {e}
      /\ \A l \in 1 .. e - 1 : l \in DOMAIN s
      /\ \A a \in B : s[a].n \in Nat \ {0} /\ \A b \in B : a < b => a + s[a].n <= b
  BY SoundFacts
<1>3. /\ Kept(s) \subseteq B /\ Kept(s) = Reachable(s) \cup {t} /\ t # 0 /\ t \in B
      /\ KeptSize(s)[t] = 1 + c
      /\ \A a \in Kept(s) : a # t => a \in Reachable(s) /\ KeptSize(s)[a] = s[a].n
  BY KeptFacts DEF Kept
<1>4. /\ \A a \in B : Marked(s)[a] \in Header /\ (Marked(s)[a].mark = IF a \in Reachable(s) THEN TRUE ELSE FALSE)
      /\ \A a \in Reachable(s) : a # t => Marked(s)[a] = KeptHeader(s, a, TRUE)
  BY MarkedFacts
<1>5. BlocksOf(m) = B \cup cut
  BY <1>1, BlocksAre
<1>6. c \in 0 .. n - 1
  <2>1. TableOf(s) # 0
    BY <1>3
  <2>2. Len(KeptEntries(s)) \in 0 .. s[TableOf(s)].n - 1
    BY ONLY Sound(s), <2>1, TableFacts
  <2> QED
    BY <2>2
<1>7. t = TableOf(s) /\ t \in Int /\ t >= 1 /\ n \in Nat \ {0} /\ n = s[t].n
  BY <1>2, <1>3
<1>8. \A x \in cut : x = t + c + 1 /\ c + 1 < n
  OBVIOUS
<1>e. e = HeapEnd(s) /\ B = BlocksOf(s) /\ c = Len(KeptEntries(s))
  OBVIOUS
<1> HIDE DEF B, e, t, n, c, cut
<1>9. \A x \in B : x \in DOMAIN s /\ x >= 1 /\ x \in Int /\ x < e
  BY <1>2
<1>10. ASSUME NEW x \in B, x # t
       PROVE  m[x] = Marked(s)[x]
  <2>1. x < t \/ x >= t + n
    BY <1>2, <1>3, <1>7, <1>9, <1>10
  <2> QED
    BY <1>1, <1>9, <2>1
<1>11. ASSUME NEW x \in cut
       PROVE  x \notin B /\ x > t /\ x \in Int /\ m[x].mark = FALSE /\ m[x].mtag = "free"
  <2>1. x = t + c + 1 /\ c + 1 < n
    BY <1>8
  <2>2. x \in Int /\ x > t /\ x < t + n
    BY <1>6, <1>7, <2>1
  <2>3. x \notin B
    <3>1. ASSUME x \in B
          PROVE  FALSE
      <4>1. t + n <= x
        BY <1>2, <1>3, <1>7, <2>2, <3>1
      <4> QED
        BY <1>7, <2>2, <4>1
    <3> QED
      BY <3>1
  <2>4. m[x] = Free(n - 1 - c)
    BY <1>1
  <2>5. \A z : Free(z).mark = FALSE /\ Free(z).mtag = "free"
    BY DEF Free, Hdr
  <2> QED
    BY <2>2, <2>3, <2>4, <2>5
<1>12. ASSUME NEW a \in Kept(s)
       PROVE  /\ m[a] = IF a >= 1 THEN KeptHeader(s, a, TRUE) ELSE KeptHeader(s, a, FALSE)
              /\ \A i \in 1 .. KeptSize(s)[a] - 1 : m[a + i] = KeptWord(s, a, i)
  <2>1. CASE a = t
    <3>1. KeptSize(s)[a] - 1 = c
      BY <1>3, <1>6, <2>1
    <3>2. \A i \in 1 .. c : m[a + i] = KeptWord(s, a, i)
      BY <1>1, <1>7, <2>1 DEF KeptWord
    <3> QED
      BY <1>1, <1>7, <2>1, <3>1, <3>2
  <2>2. CASE a # t
    <3>1. a \in Reachable(s) /\ KeptSize(s)[a] = s[a].n /\ a \in B
      BY <1>3, <2>2
    <3>2. m[a] = KeptHeader(s, a, TRUE) /\ a >= 1
      BY <1>4, <1>9, <1>10, <2>2, <3>1
    <3>3. ASSUME NEW i \in 1 .. s[a].n - 1
          PROVE  m[a + i] = KeptWord(s, a, i)
      <4>1. /\ a + i \in DOMAIN s /\ Marked(s)[a + i] = s[a + i]
            /\ \A b \in BlocksOf(s) : b # a => a + i < b \/ a + i >= b + s[b].n
        BY <1>e, <3>1, MarkedWord
      <4>2. a + i < t \/ a + i >= t + n
        BY <1>3, <1>7, <1>e, <2>2, <4>1
      <4> QED
        BY <1>1, <1>7, <2>2, <4>1, <4>2 DEF KeptWord
    <3> QED
      BY <3>1, <3>2, <3>3
  <2> QED
    BY <2>1, <2>2
<1>13. ASSUME NEW b \in BlocksOf(m) \ Kept(s)
       PROVE  /\ m[b].mark = FALSE /\ ~(b < 1)
              /\ m[b].mtag = "object" => m[b] = Marked(s)[b]
  <2>1. CASE b \in cut
    <3>1. b > t /\ b \in Int /\ m[b].mark = FALSE /\ m[b].mtag = "free"
      BY <1>11, <2>1
    <3>2. ~(b < 1)
      BY <1>7, <3>1
    <3> QED
      BY <3>1, <3>2
  <2>2. CASE b \in B
    <3>1. b # t /\ m[b] = Marked(s)[b] /\ b \notin Reachable(s) /\ b \in Int /\ b >= 1
      BY <1>3, <1>9, <1>10, <2>2
    <3>2. Marked(s)[b].mark = FALSE
      BY <1>4, <2>2, <3>1
    <3> QED
      BY <3>1, <3>2
  <2> QED
    BY <1>5, <2>1, <2>2
<1>14. ASSUME NEW l \in DOMAIN s, l < 0
       PROVE  m[l] = s[l]
  <2>1. l \in Int
    BY SoundFacts
  <2>2. l < t
    BY <1>7, <1>14, <2>1
  <2> QED
    BY <1>1, <1>14, <2>2, MarkedOutside
<1>15. /\ \A l \in StrongOf(s) : m[l] = s[l]
       /\ \A l \in CacheLocs : m[l] = s[l]
       /\ m[TableLoc] = s[TableLoc]
  <2>1. CacheLocs \cup {TableLoc} \subseteq DOMAIN s
    BY DEF Sound
  <2>2. ASSUME NEW l \in CacheLocs \cup {TableLoc}
        PROVE  l \in DOMAIN s /\ l < 0
    BY <2>1 DEF CacheLocs, TableLoc
  <2>3. ASSUME NEW l \in StrongOf(s)
        PROVE  l \in DOMAIN s /\ l < 0
    BY DEF StrongOf, ExtOf
  <2> QED
    BY <1>14, <2>2, <2>3
<1>16. \A l \in CacheLocs : m[l] = IF FALSE /\ ~IsLiveRef(s, s[l]) THEN Imm ELSE s[l]
  BY <1>15
<1>17. 1 \in BlocksOf(m) \cup {HeapEnd(s)}
  BY <1>2, <1>5, <1>e
<1>18. m[TableLoc] = IF KeptEntries(s) = <<>> THEN Imm ELSE s[TableLoc]
  BY <1>15
<1>19. Laid(m, BlocksOf(m), 1, HeapEnd(s)) /\ Kept(s) \subseteq BlocksOf(m)
  BY <1>1, <1>3, <1>5, <1>e
<1>20. \A x \in BlocksOf(s) : x # TableOf(s) => m[x] = Marked(s)[x]
  BY <1>7, <1>10, <1>e
<1>21. InSweep(m, 1, s, FALSE)
  BY <1>1, <1>12, <1>13, <1>15, <1>16, <1>17, <1>18, <1>19 DEF InSweep
<1> QED
  BY <1>20, <1>21 DEF InCache

\* update_unique_strings: the table is cut to the strings that are live, or
\* dropped when none is.
LEMMA TableUpdated ==
  ASSUME NEW s, Sound(s), mem = Marked(s), UpdateUniqueStrings,
         unique_strings_len \in 0 .. HeapEnd(s)
  PROVE  InCache(mem', s) /\ unique_strings_len' \in 0 .. HeapEnd(s)
<1> DEFINE t == TableOf(s)
<1>1. /\ IsFcn(mem) /\ DOMAIN mem = DOMAIN s
      /\ \A x \in BlocksOf(s) : mem[x] \in Header /\ mem[x].n = s[x].n /\ (mem[x].mark = IF x \in Reachable(s) THEN TRUE ELSE FALSE)
  BY MarkedFacts
<1>2. unique_strings = s[TableLoc] /\ TableLoc \in DOMAIN s
  <2>1. TableLoc \in DOMAIN s /\ TableLoc < 0
    BY DEF Sound, TableLoc
  <2> QED
    BY <2>1, MarkedOutside DEF unique_strings
<1>3. CASE ~JS_IsPtr(unique_strings)
  <2>1. mem' = mem /\ unique_strings_len' = unique_strings_len
    BY <1>3 DEF UpdateUniqueStrings
  <2>2. TableOf(s) = 0 /\ s[TableLoc] = Imm
    <3>1. s[TableLoc] # Imm => JS_IsPtr(s[TableLoc])
      BY DEF Sound
    <3> QED
      BY <1>2, <1>3, <3>1 DEF TableOf
  <2>3. KeptEntries(s) = <<>>
    BY <2>2, KeptFacts
  <2>4. mem[TableLoc] = Imm
    BY <1>2, <2>2 DEF unique_strings
  <2>5. InCache(mem, s)
    BY <1>1, <2>3, <2>4, NoTableKept
  <2> QED
    BY <2>1, <2>5
<1>4. CASE JS_IsPtr(unique_strings)
  <2> DEFINE old == Elements(mem, t)
             kept == Selected(old, {i \in DOMAIN old : gc_mb_is_marked(old[i])})
             n == s[t].n
  <2>1. unique_strings.a = t /\ t # 0
    <3>1. unique_strings.a = t
      BY <1>2, <1>4 DEF TableOf
    <3>2. IsBlock(s, s[TableLoc].a)
      BY <1>2, <1>4 DEF Sound, ExtOf, TableLoc
    <3>3. HeapEnd(s) \in Nat \ {0} /\ BlocksOf(s) \subseteq 1 .. HeapEnd(s) - 1
      BY SoundFacts
    <3>4. 0 \notin BlocksOf(s)
      BY <3>3
    <3> QED
      BY <1>2, <3>1, <3>2, <3>4 DEF IsBlock
  <2>2. /\ t \in BlocksOf(s)
        /\ \A i \in 1 .. n - 1 : JS_IsPtr(s[t + i]) => IsBlock(s, s[t + i].a)
        /\ Len(KeptEntries(s)) \in 0 .. n - 1
        /\ t \in Reachable(s) => KeptEntries(s) # <<>>
    <3>1. TableOf(s) # 0
      BY <2>1
    <3>2. /\ TableOf(s) \in BlocksOf(s)
          /\ \A i \in 1 .. s[TableOf(s)].n - 1 : JS_IsPtr(s[TableOf(s) + i]) => IsBlock(s, s[TableOf(s) + i].a)
          /\ Len(KeptEntries(s)) \in 0 .. s[TableOf(s)].n - 1
          /\ TableOf(s) \in Reachable(s) => KeptEntries(s) # <<>>
      BY ONLY Sound(s), <3>1, TableFacts
    <3> QED
      BY <3>2
  <2>3. old = EntriesOf(s) /\ old = [i \in 1 .. n - 1 |-> s[t + i]]
    <3>1. mem[t].n = n
      BY <1>1, <2>2
    <3>2. \A i \in 1 .. n - 1 : mem[t + i] = s[t + i]
      BY <2>2, MarkedWord
    <3>3. EntriesOf(s) = [i \in 1 .. n - 1 |-> s[t + i]]
      BY <2>1 DEF EntriesOf, Elements
    <3> HIDE DEF t, n
    <3> QED
      BY <3>1, <3>2, <3>3 DEF Elements
  <2>4. ASSUME NEW i \in DOMAIN old
        PROVE  gc_mb_is_marked(old[i]) <=> IsLiveRef(s, old[i])
    <3>1. i \in 1 .. n - 1 /\ old[i] = s[t + i]
      BY <2>3
    <3> DEFINE w == s[t + i]
    <3>2. JS_IsPtr(w) => w.a \in BlocksOf(s)
      BY <2>2, <3>1 DEF IsBlock
    <3> HIDE DEF w
    <3>3. JS_IsPtr(w) => (mem[w.a].mark <=> w.a \in Reachable(s))
      BY <1>1, <3>2
    <3>4. gc_mb_is_marked(w) <=> IsLiveRef(s, w)
      BY <3>3 DEF gc_mb_is_marked, IsLiveRef
    <3> QED
      BY <3>1, <3>4 DEF w
  <2>5. kept = KeptEntries(s)
    <3>1. {i \in DOMAIN old : gc_mb_is_marked(old[i])} = {i \in DOMAIN old : IsLiveRef(s, old[i])}
      BY <2>4
    <3> QED
      BY <2>3, <3>1 DEF KeptEntries
  <2>6. /\ unique_strings_len' = Len(kept)
        /\ mem' = IF kept # <<>> THEN CutTable(t, kept)
                  ELSE [SetMark(mem, t, FALSE) EXCEPT ![TableLoc] = Imm]
    BY <1>4, <2>1 DEF UpdateUniqueStrings
  <2> HIDE DEF kept, old
  <2>7. unique_strings_len' \in 0 .. HeapEnd(s)
    <3> DEFINE e == HeapEnd(s)
               c == Len(KeptEntries(s))
    <3>1. e \in Nat \ {0} /\ t \in 1 .. e - 1 /\ n \in Nat \ {0} /\ (t + n = e \/ t + n \in 1 .. e - 1)
      BY <2>2, SoundFacts
    <3>2. c \in 0 .. n - 1 /\ unique_strings_len' = c
      BY <2>2, <2>5, <2>6
    <3> HIDE DEF e, c, t, n
    <3>3. c \in 0 .. e
      BY <3>1, <3>2
    <3> QED
      BY <3>2, <3>3 DEF e
  <2>8. InCache(mem', s)
    <3>1. CASE KeptEntries(s) # <<>>
      <4>1. mem' = CutTable(TableOf(s), KeptEntries(s))
        BY <2>5, <2>6, <3>1
      <4> QED
        BY <3>1, <4>1, TableKept
    <3>2. CASE KeptEntries(s) = <<>>
      <4>1. mem' = [SetMark(mem, t, FALSE) EXCEPT ![TableLoc] = Imm]
        BY <2>5, <2>6, <3>2
      <4>2. t \in DOMAIN mem /\ mem[t] \in Header /\ mem[t].mark = FALSE
        <5>1. t \notin Reachable(s)
          BY <2>2, <3>2
        <5>2. t \in DOMAIN s
          BY <2>2, MarkedFacts
        <5> QED
          BY <1>1, <2>2, <5>1, <5>2
      <4>3. [mem[t] EXCEPT !.mark = FALSE] = mem[t]
        <5> DEFINE h == mem[t]
        <5>1. h \in Header /\ h.mark = FALSE
          BY <4>2
        <5> HIDE DEF h
        <5>2. [h EXCEPT !.mark = FALSE] \in Header
          BY <5>1 DEF Header
        <5>3. /\ [h EXCEPT !.mark = FALSE].mtag = h.mtag /\ [h EXCEPT !.mark = FALSE].cls = h.cls
              /\ [h EXCEPT !.mark = FALSE].n = h.n /\ [h EXCEPT !.mark = FALSE].mark = h.mark
          BY <5>1 DEF Header
        <5>4. [h EXCEPT !.mark = FALSE] = h
          BY <5>1, <5>2, <5>3, SameHeader
        <5> QED
          BY <5>4 DEF h
      <4>4. SetMark(mem, t, FALSE) = mem
        <5>1. SetMark(mem, t, FALSE) = [mem EXCEPT ![t] = [mem[t] EXCEPT !.mark = FALSE]]
          BY DEF SetMark
        <5> HIDE DEF t
        <5>2. SetMark(mem, t, FALSE) = [mem EXCEPT ![t] = mem[t]]
          BY <4>3, <5>1
        <5> QED
          BY <1>1, <4>2, <5>2 DEF IsFcn
      <4>5. mem' = [mem EXCEPT ![TableLoc] = Imm]
        BY <4>1, <4>4
      <4>6. /\ IsFcn(mem') /\ DOMAIN mem' = DOMAIN s /\ mem'[TableLoc] = Imm
            /\ \A x \in DOMAIN s : x # TableLoc => mem'[x] = Marked(s)[x]
        BY <1>1, <1>2, <4>5 DEF IsFcn
      <4> QED
        BY <3>2, <4>6, NoTableKept
    <3> QED
      BY <3>1, <3>2
  <2> QED
    BY <2>7, <2>8
<1> QED
  BY <1>3, <1>4

\* What the sweep finds.
LEMMA SweepFacts ==
  ASSUME NEW s, Sound(s), NEW m, NEW p, NEW weak, InSweep(m, p, s, weak)
  PROVE  /\ HeapEnd(s) \in Nat \ {0} /\ p \in 1 .. HeapEnd(s)
         /\ \A x \in BlocksOf(m) : x \in 1 .. HeapEnd(s) - 1 /\ x \in DOMAIN m
         /\ \A x \in BlocksOf(m) :
              /\ m[x] \in Header /\ m[x].n \in Nat \ {0} /\ x + m[x].n \in BlocksOf(m) \cup {HeapEnd(s)}
              /\ x + m[x].n \in Int
              /\ \A c \in BlocksOf(m) : x < c => x + m[x].n <= c
         /\ \A a \in Kept(s) : /\ a \in BlocksOf(m) /\ m[a].n = KeptSize(s)[a]
                               /\ a >= p => m[a] = KeptHeader(s, a, TRUE) /\ m[a].mark = TRUE
                               /\ a < p => m[a] = KeptHeader(s, a, FALSE) /\ m[a].mark = FALSE
         /\ \A b \in BlocksOf(m) \ Kept(s) : m[b].mark = FALSE
<1> DEFINE e == HeapEnd(s)
           B == BlocksOf(m)
<1>1. e \in Nat \ {0} /\ \A x \in 1 .. e - 1 : x \in DOMAIN s
  BY SoundFacts
<1>2. /\ B \subseteq 1 .. e - 1 /\ p \in B \cup {e} /\ DOMAIN m = DOMAIN s
      /\ \A x \in B : m[x] \in Header /\ x + m[x].n \in B \cup {e} /\ \A c \in B : x < c => x + m[x].n <= c
  <2>1. Laid(m, B, 1, e) /\ p \in B \cup {e} /\ DOMAIN m = DOMAIN s
    BY DEF InSweep
  <2> HIDE DEF B, e
  <2> QED
    BY <2>1 DEF Laid
<1>3. /\ Kept(s) \subseteq B
      /\ \A a \in Kept(s) : m[a] = IF a >= p THEN KeptHeader(s, a, TRUE) ELSE KeptHeader(s, a, FALSE)
      /\ \A b \in B \ Kept(s) : m[b].mark = FALSE
  BY DEF InSweep
<1> HIDE DEF e, B
<1>4. p \in 1 .. e /\ \A x \in B : x \in 1 .. e - 1 /\ x \in DOMAIN m /\ x \in Int
  <2>1. \A x \in B : x \in 1 .. e - 1
    BY <1>2
  <2>2. \A x \in B : x \in DOMAIN m /\ x \in Int
    BY <1>1, <1>2, <2>1
  <2>3. p \in 1 .. e
    BY <1>1, <1>2, <2>1
  <2> QED
    BY <2>1, <2>2, <2>3
<1>5. \A x \in B : m[x].n \in Nat \ {0} /\ x + m[x].n \in Int
  BY <1>1, <1>2, <1>4, HeaderFacts
<1>6. ASSUME NEW a \in Kept(s)
      PROVE  /\ a \in B /\ m[a].n = KeptSize(s)[a]
             /\ a >= p => m[a] = KeptHeader(s, a, TRUE) /\ m[a].mark = TRUE
             /\ a < p => m[a] = KeptHeader(s, a, FALSE) /\ m[a].mark = FALSE
  <2>1. a \in B /\ a \in Int /\ p \in Int
    BY <1>3, <1>4
  <2>2. /\ KeptHeader(s, a, TRUE).mark = TRUE /\ KeptHeader(s, a, FALSE).mark = FALSE
        /\ KeptHeader(s, a, TRUE).n = KeptSize(s)[a] /\ KeptHeader(s, a, FALSE).n = KeptSize(s)[a]
    BY KeptFacts, ZenonT(40)
  <2> DEFINE on == KeptHeader(s, a, TRUE)
             off == KeptHeader(s, a, FALSE)
  <2>3. m[a] = IF a >= p THEN on ELSE off
    BY <1>3
  <2>4. on.mark = TRUE /\ off.mark = FALSE /\ on.n = KeptSize(s)[a] /\ off.n = KeptSize(s)[a]
    BY <2>2
  <2> HIDE DEF on, off
  <2>5. /\ m[a].n = KeptSize(s)[a]
        /\ a >= p => m[a] = on /\ m[a].mark = TRUE
        /\ a < p => m[a] = off /\ m[a].mark = FALSE
    BY <2>1, <2>3, <2>4
  <2> QED
    BY <2>1, <2>5 DEF on, off
<1> QED
  BY <1>1, <1>2, <1>3, <1>4, <1>5, <1>6 DEF e, B

\* A word of a kept block is in no other block.
LEMMA SweepWord ==
  ASSUME NEW s, Sound(s), NEW m, NEW p, NEW weak, InSweep(m, p, s, weak),
         NEW a \in Kept(s), NEW i \in 1 .. KeptSize(s)[a] - 1
  PROVE  a + i \in DOMAIN m /\ a + i \in Int /\ a + i >= 1 /\ a + i \notin BlocksOf(m)
<1> DEFINE e == HeapEnd(s)
           B == BlocksOf(m)
           x == a + i
<1>1. /\ e \in Nat \ {0} /\ a \in B /\ m[a].n = KeptSize(s)[a] /\ m[a].n \in Nat \ {0}
      /\ \A b \in B : b \in 1 .. e - 1
      /\ a + m[a].n \in B \cup {e} /\ \A c \in B : a < c => a + m[a].n <= c
  <2>1. /\ HeapEnd(s) \in Nat \ {0} /\ a \in BlocksOf(m) /\ m[a].n = KeptSize(s)[a]
        /\ \A x1 \in BlocksOf(m) :
              /\ x1 \in 1 .. HeapEnd(s) - 1 /\ m[x1].n \in Nat \ {0} /\ x1 + m[x1].n \in BlocksOf(m) \cup {HeapEnd(s)}
              /\ \A c \in BlocksOf(m) : x1 < c => x1 + m[x1].n <= c
    <3> HIDE DEF e, B, x
    <3> QED
      BY SweepFacts
  <2> QED
    BY <2>1
<1>2. (\A l \in 1 .. e - 1 : l \in DOMAIN s) /\ DOMAIN m = DOMAIN s
  BY SoundFacts DEF InSweep
<1> HIDE DEF e, B
<1>3. a \in Int /\ a >= 1 /\ a + m[a].n <= e /\ i \in 1 .. m[a].n - 1
  BY <1>1
<1>4. x \in Int /\ x >= 1 /\ x < a + m[a].n /\ a < x /\ x < e
  BY <1>1, <1>3
<1> HIDE DEF x
<1>5. x \notin B
  BY <1>1, <1>3, <1>4
<1>6. x \in DOMAIN m
  BY <1>1, <1>2, <1>4
<1> QED
  BY <1>4, <1>5, <1>6 DEF x, B

\* update_string_pos_cache: an entry whose string is dead is cleared.
LEMMA CacheUpdated ==
  ASSUME NEW s, Sound(s), InCache(mem, s), UpdatePosCache
  PROVE  InSweep(mem', 1, s, TRUE)
<1> DEFINE B == BlocksOf(mem)
           e == HeapEnd(s)
<1>1. InSweep(mem, 1, s, FALSE) /\ \A x \in BlocksOf(s) : x # TableOf(s) => mem[x] = Marked(s)[x]
  BY DEF InCache
<1>2. /\ DOMAIN mem = DOMAIN s /\ Laid(mem, B, 1, e) /\ 1 \in B \cup {e} /\ Kept(s) \subseteq B
      /\ \A l \in StrongOf(s) : mem[l] = s[l]
      /\ mem[TableLoc] = IF KeptEntries(s) = <<>> THEN Imm ELSE s[TableLoc]
      /\ \A l \in CacheLocs : mem[l] = s[l]
  BY <1>1 DEF InSweep
<1>3. /\ IsFcn(mem') /\ DOMAIN mem' = DOMAIN s
      /\ \A l \in DOMAIN s : mem'[l] = IF l \in CacheLocs /\ ~gc_mb_is_marked(mem[l]) THEN Imm ELSE mem[l]
  BY <1>2 DEF UpdatePosCache, IsFcn
<1>4. CacheLocs \subseteq DOMAIN s /\ \A l \in CacheLocs : l < 0 /\ l \in Int /\ l # TableLoc
  BY DEF Sound, CacheLocs, TableLoc
<1>5. \A l \in DOMAIN s : l \notin CacheLocs => mem'[l] = mem[l]
  BY <1>3
<1>6. /\ \A x \in B : x \in DOMAIN s /\ x \in Int /\ x >= 1 /\ mem[x] \in Header
      /\ e \in Nat \ {0}
  <2>1. /\ HeapEnd(s) \in Nat \ {0}
        /\ \A x \in BlocksOf(mem) : x \in 1 .. HeapEnd(s) - 1 /\ x \in DOMAIN mem /\ mem[x] \in Header
    <3> HIDE DEF e, B
    <3> QED
      BY <1>1, SweepFacts
  <2>2. \A x \in B : x \in 1 .. e - 1
    BY <2>1
  <2> QED
    BY <1>2, <2>1, <2>2
<1>7. \A x \in B : mem'[x] = mem[x]
  BY <1>4, <1>5, <1>6
<1>8. Laid(mem', B, 1, e)
  BY <1>2, <1>6, <1>7, LaidKept
<1>9. BlocksOf(mem') = B
  BY <1>3, <1>8, BlocksAre
<1>10. ASSUME NEW a \in Kept(s), NEW i \in 1 .. KeptSize(s)[a] - 1
       PROVE  mem'[a + i] = mem[a + i]
  <2>1. a + i \in DOMAIN mem /\ a + i \in Int /\ a + i >= 1
    BY <1>1, SweepWord
  <2>2. a + i \notin CacheLocs
    BY <1>4, <2>1
  <2> QED
    BY <1>2, <1>5, <2>1, <2>2
<1>11. ASSUME NEW l \in CacheLocs
       PROVE  mem'[l] = IF ~IsLiveRef(s, s[l]) THEN Imm ELSE s[l]
  <2> DEFINE w == s[l]
  <2>1. mem[l] = w /\ l \in ExtOf(s)
    BY <1>2, <1>4 DEF ExtOf
  <2>2. ASSUME JS_IsPtr(w)
        PROVE  mem[w.a].mark <=> w.a \in Reachable(s)
    <3>1. w.a \in BlocksOf(s) /\ s[w.a].mtag = "string"
      BY <2>1, <2>2 DEF Sound, IsBlock
    <3>2. w.a # TableOf(s)
      <4>1. TableOf(s) # 0 => s[TableOf(s)].mtag = "value_array"
        BY ONLY Sound(s), TableFacts
      <4>2. HeapEnd(s) \in Nat \ {0} /\ BlocksOf(s) \subseteq 1 .. HeapEnd(s) - 1
        BY SoundFacts
      <4>3. 0 \notin BlocksOf(s)
        BY <4>2
      <4> QED
        BY <3>1, <4>1, <4>3
    <3>3. Marked(s)[w.a].mark = IF w.a \in Reachable(s) THEN TRUE ELSE FALSE
      BY <3>1, MarkedFacts, ZenonT(40)
    <3> QED
      BY <1>1, <3>1, <3>2, <3>3
  <2> HIDE DEF w
  <2>3. gc_mb_is_marked(w) <=> IsLiveRef(s, w)
    BY <2>2 DEF gc_mb_is_marked, IsLiveRef
  <2> QED
    BY <1>3, <1>4, <2>1, <2>3 DEF w
<1>12. \A l \in CacheLocs : mem'[l] = IF TRUE /\ ~IsLiveRef(s, s[l]) THEN Imm ELSE s[l]
  BY <1>11
<1>13. /\ \A l \in StrongOf(s) : mem'[l] = s[l]
       /\ mem'[TableLoc] = IF KeptEntries(s) = <<>> THEN Imm ELSE s[TableLoc]
  <2>1. \A l \in StrongOf(s) : l \in DOMAIN s /\ l \notin CacheLocs
    BY DEF StrongOf, ExtOf
  <2>2. TableLoc \in DOMAIN s
    BY DEF Sound
  <2> QED
    BY <1>2, <1>4, <1>5, <2>1, <2>2
<1>14. /\ \A a \in Kept(s) : /\ mem[a] = IF a >= 1 THEN KeptHeader(s, a, TRUE) ELSE KeptHeader(s, a, FALSE)
                             /\ \A i \in 1 .. KeptSize(s)[a] - 1 : mem[a + i] = KeptWord(s, a, i)
       /\ \A b \in B \ Kept(s) : /\ mem[b].mark = FALSE
                                 /\ b < 1 => mem[b].mtag = "free"
                                 /\ b >= 1 /\ mem[b].mtag = "object" => mem[b] = Marked(s)[b]
  BY <1>1 DEF InSweep
<1> HIDE DEF B, e
<1>15. /\ \A a \in Kept(s) : /\ mem'[a] = IF a >= 1 THEN KeptHeader(s, a, TRUE) ELSE KeptHeader(s, a, FALSE)
                             /\ \A i \in 1 .. KeptSize(s)[a] - 1 : mem'[a + i] = KeptWord(s, a, i)
       /\ \A b \in B \ Kept(s) : /\ mem'[b].mark = FALSE
                                 /\ b < 1 => mem'[b].mtag = "free"
                                 /\ b >= 1 /\ mem'[b].mtag = "object" => mem'[b] = Marked(s)[b]
  <2>1. \A a \in Kept(s) : mem'[a] = mem[a]
    BY <1>2, <1>7
  <2>2. \A a \in Kept(s) : \A i \in 1 .. KeptSize(s)[a] - 1 : mem'[a + i] = KeptWord(s, a, i)
    BY <1>10, <1>14
  <2>3. \A b \in B \ Kept(s) : mem'[b] = mem[b]
    BY <1>7
  <2> QED
    BY <1>14, <2>1, <2>2, <2>3
<1> QED
  BY <1>2, <1>3, <1>8, <1>9, <1>12, <1>13, <1>15 DEF InSweep, e

\* The words but the headers.
SweptWords(n, s) ==
  /\ \A a \in Kept(s) : \A i \in 1 .. KeptSize(s)[a] - 1 : n[a + i] = KeptWord(s, a, i)
  /\ \A l \in StrongOf(s) : n[l] = s[l]
  /\ n[TableLoc] = IF KeptEntries(s) = <<>> THEN Imm ELSE s[TableLoc]
  /\ \A l \in CacheLocs : n[l] = IF TRUE /\ ~IsLiveRef(s, s[l]) THEN Imm ELSE s[l]

\* A step of the sweep changes a header and no other word.
LEMMA WordsStay ==
  ASSUME NEW s, Sound(s), NEW m, NEW p, InSweep(m, p, s, TRUE), NEW q \in BlocksOf(m),
         NEW n, DOMAIN n = DOMAIN m, \A x \in DOMAIN m : x # q => n[x] = m[x]
  PROVE  SweptWords(n, s)
<1>1. /\ DOMAIN m = DOMAIN s
      /\ \A a \in Kept(s) : \A i \in 1 .. KeptSize(s)[a] - 1 : m[a + i] = KeptWord(s, a, i)
      /\ \A l \in StrongOf(s) : m[l] = s[l]
      /\ m[TableLoc] = IF KeptEntries(s) = <<>> THEN Imm ELSE s[TableLoc]
      /\ \A l \in CacheLocs : m[l] = IF TRUE /\ ~IsLiveRef(s, s[l]) THEN Imm ELSE s[l]
  BY DEF InSweep
<1>2. q \in Int /\ q >= 1
  <2>1. q \in 1 .. HeapEnd(s) - 1 /\ HeapEnd(s) \in Nat
    BY SweepFacts
  <2> QED
    BY <2>1
<1>3. \A l \in DOMAIN s : l < 0 => n[l] = m[l]
  BY <1>1, <1>2
<1>4. /\ \A l \in StrongOf(s) : l \in DOMAIN s /\ l < 0
      /\ \A l \in CacheLocs \cup {TableLoc} : l \in DOMAIN s /\ l < 0
  <2>1. CacheLocs \cup {TableLoc} \subseteq DOMAIN s
    BY DEF Sound
  <2>2. \A l \in CacheLocs \cup {TableLoc} : l < 0
    BY DEF CacheLocs, TableLoc
  <2> QED
    BY <2>1, <2>2 DEF StrongOf, ExtOf
<1>5. ASSUME NEW a \in Kept(s), NEW i \in 1 .. KeptSize(s)[a] - 1
      PROVE  n[a + i] = KeptWord(s, a, i)
  <2>1. a + i \in DOMAIN m /\ a + i \notin BlocksOf(m)
    BY SweepWord
  <2>2. n[a + i] = m[a + i]
    BY <2>1
  <2> QED
    BY <1>1, <2>2
<1> QED
  BY <1>1, <1>3, <1>4, <1>5 DEF SweptWords

\* A marked block is unmarked.
LEMMA MarkedSwept ==
  ASSUME NEW s, Sound(s), heap_free = HeapEnd(s), InSweep(mem, ptr, s, TRUE), SweepMarked
  PROVE  InSweep(mem', ptr', s, TRUE)
<1> DEFINE B == BlocksOf(mem)
           e == HeapEnd(s)
           p == ptr
           n == mem[p].n
<1>1. /\ IsFcn(mem) /\ DOMAIN mem = DOMAIN s /\ Laid(mem, B, 1, e) /\ p \in B \cup {e} /\ Kept(s) \subseteq B
      /\ \A b \in B \ Kept(s) : /\ mem[b].mark = FALSE
                                /\ b < p => mem[b].mtag = "free"
                                /\ b >= p /\ mem[b].mtag = "object" => mem[b] = Marked(s)[b]
  BY DEF InSweep
<1>2. p < e /\ mem[p].mark /\ mem' = SetMark(mem, p, FALSE) /\ ptr' = p + n
  BY DEF SweepMarked, get_mblock_size
<1>3. /\ e \in Nat \ {0} /\ p \in 1 .. e
      /\ \A x \in B : x \in 1 .. e - 1 /\ x \in DOMAIN mem
      /\ \A x \in B :
           /\ mem[x] \in Header /\ mem[x].n \in Nat \ {0} /\ x + mem[x].n \in B \cup {e}
           /\ x + mem[x].n \in Int
           /\ \A c \in B : x < c => x + mem[x].n <= c
      /\ \A a \in Kept(s) : /\ mem[a].n = KeptSize(s)[a]
                            /\ a >= p => mem[a] = KeptHeader(s, a, TRUE)
                            /\ a < p => mem[a] = KeptHeader(s, a, FALSE)
  <2> HIDE DEF n
  <2> QED
    BY SweepFacts
<1> HIDE DEF B, e
<1>4. p \in B /\ p \in Kept(s) /\ p \in Int /\ p \in DOMAIN mem
  BY <1>1, <1>2, <1>3
<1>5. mem' = [mem EXCEPT ![p] = [mem[p] EXCEPT !.mark = FALSE]]
  BY <1>2 DEF SetMark
<1>6. [mem[p] EXCEPT !.mark = FALSE] = KeptHeader(s, p, FALSE)
  <2>1. mem[p] = KeptHeader(s, p, TRUE)
    <3>1. p >= p
      BY <1>4
    <3>2. \A a \in Kept(s) : a >= p => mem[a] = KeptHeader(s, a, TRUE)
      BY <1>3
    <3> QED
      BY <1>4, <3>1, <3>2
  <2> DEFINE h == s[p]
             z == KeptSize(s)[p]
  <2>2. h \in Header
    BY <1>4, SoundFacts, KeptFacts
  <2>3. [[h EXCEPT !.n = z, !.mark = TRUE] EXCEPT !.mark = FALSE] = [h EXCEPT !.n = z, !.mark = FALSE]
    <3> HIDE DEF h, z
    <3> QED
      BY <2>2 DEF Header
  <2> QED
    BY <2>1, <2>3 DEF KeptHeader
<1>7. /\ IsFcn(mem') /\ DOMAIN mem' = DOMAIN mem /\ mem'[p] = KeptHeader(s, p, FALSE)
      /\ \A x \in DOMAIN mem : x # p => mem'[x] = mem[x]
  BY <1>1, <1>4, <1>5, <1>6 DEF IsFcn
<1>8. KeptHeader(s, p, FALSE) \in Header /\ KeptHeader(s, p, FALSE).n = n
  <2>1. KeptHeader(s, p, FALSE) \in Header /\ KeptHeader(s, p, FALSE).n = KeptSize(s)[p]
    BY <1>4, KeptFacts
  <2> QED
    BY <1>3, <1>4, <2>1
<1>9. Laid(mem', B, 1, e)
  <2>1. \A a \in B : mem'[a] \in Header /\ mem'[a].n = mem[a].n
    BY <1>3, <1>7, <1>8
  <2> QED
    BY <1>1, <2>1, LaidKept
<1>10. BlocksOf(mem') = B
  BY <1>1, <1>7, <1>9, BlocksAre DEF e
<1>11. p + n \in B \cup {e} /\ p + n \in Int /\ p < p + n /\ \A c \in B : p < c => p + n <= c
  BY <1>3, <1>4
<1>p. p = ptr
  OBVIOUS
<1> HIDE DEF n, p
<1>a. \A x \in B : x \in Int /\ x \in DOMAIN mem
  BY <1>3
<1>k. \A a \in Kept(s) :
        /\ a \in B
        /\ a >= p => mem[a] = KeptHeader(s, a, TRUE)
        /\ a < p => mem[a] = KeptHeader(s, a, FALSE)
  BY <1>1, <1>3
<1>12. ASSUME NEW a \in Kept(s)
       PROVE  mem'[a] = IF a >= p + n THEN KeptHeader(s, a, TRUE) ELSE KeptHeader(s, a, FALSE)
  <2>1. a \in B /\ a \in Int /\ a \in DOMAIN mem
    BY <1>a, <1>k
  <2>2. CASE a = p
    <3>1. ~(p >= p + n)
      BY <1>4, <1>11
    <3>2. mem'[a] = KeptHeader(s, a, FALSE)
      BY <1>7, <2>2
    <3> QED
      BY <2>2, <3>1, <3>2
  <2>3. CASE a < p
    <3>1. ~(a >= p + n) /\ a # p
      BY <1>4, <1>11, <2>1, <2>3
    <3>2. mem'[a] = mem[a] /\ mem[a] = KeptHeader(s, a, FALSE)
      BY <1>7, <1>k, <2>1, <2>3, <3>1
    <3> QED
      BY <3>1, <3>2
  <2>4. CASE a > p
    <3>1. a >= p + n /\ a # p /\ a >= p
      BY <1>4, <1>11, <2>1, <2>4
    <3>2. mem'[a] = mem[a] /\ mem[a] = KeptHeader(s, a, TRUE)
      BY <1>7, <1>k, <2>1, <3>1
    <3> QED
      BY <3>1, <3>2
  <2>5. a = p \/ a < p \/ a > p
    BY <1>4, <2>1
  <2> QED
    BY <2>2, <2>3, <2>4, <2>5
<1>13. ASSUME NEW b \in B \ Kept(s)
       PROVE  /\ mem'[b].mark = FALSE
              /\ b < p + n => mem'[b].mtag = "free"
              /\ b >= p + n /\ mem'[b].mtag = "object" => mem'[b] = Marked(s)[b]
  <2>1. b \in Int /\ b # p /\ mem'[b] = mem[b]
    BY <1>4, <1>7, <1>a
  <2>2. b < p + n => b < p
    BY <1>4, <1>11, <2>1
  <2>3. b >= p + n => b >= p
    BY <1>4, <1>11, <2>1
  <2> QED
    BY <1>1, <2>1, <2>2, <2>3
<1>14. SweptWords(mem', s)
  <2> DEFINE w == mem'
  <2>1. DOMAIN w = DOMAIN mem /\ \A x \in DOMAIN mem : x # ptr => w[x] = mem[x]
    BY <1>7, <1>p
  <2>2. ptr \in BlocksOf(mem)
    BY <1>4, <1>p DEF B
  <2> HIDE DEF w
  <2>3. SweptWords(w, s)
    BY <2>1, <2>2, WordsStay
  <2> QED
    BY <2>3 DEF w
<1>15. ptr' = p + n
  BY <1>2 DEF p, n
<1> DEFINE w == mem'
           r == ptr'
<1>16. /\ IsFcn(w) /\ DOMAIN w = DOMAIN s /\ Laid(w, BlocksOf(w), 1, HeapEnd(s)) /\ r \in BlocksOf(w) \cup {HeapEnd(s)}
       /\ Kept(s) \subseteq BlocksOf(w)
       /\ \A a \in Kept(s) : w[a] = IF a >= r THEN KeptHeader(s, a, TRUE) ELSE KeptHeader(s, a, FALSE)
       /\ \A b \in BlocksOf(w) \ Kept(s) :
            /\ w[b].mark = FALSE
            /\ b < r => w[b].mtag = "free"
            /\ b >= r /\ w[b].mtag = "object" => w[b] = Marked(s)[b]
  BY <1>1, <1>7, <1>9, <1>10, <1>11, <1>12, <1>13, <1>15 DEF e
<1> QED
  BY <1>14, <1>16 DEF InSweep, SweptWords

\* A run of dead blocks becomes one free block.  A finalizer is called for a block
\* that the mark phase left unmarked.
LEMMA DeadSwept ==
  ASSUME NEW s, Sound(s), heap_free = HeapEnd(s), InSweep(mem, ptr, s, TRUE), SweepDead
  PROVE  /\ InSweep(mem', ptr', s, TRUE)
         /\ ptr < ptr'
         /\ HasFinalizer(ptr) => LET h == Marked(s)[ptr] IN ~h.mark /\ h.mtag = "object" /\ h.cls = "user"
<1> DEFINE B == BlocksOf(mem)
           e == HeapEnd(s)
           p == ptr
           r == EndOfRun(ptr)
           C == {b \in B : b <= p \/ b >= r}
           w == mem'
<1>1. /\ IsFcn(mem) /\ DOMAIN mem = DOMAIN s /\ Laid(mem, B, 1, e) /\ p \in B \cup {e} /\ Kept(s) \subseteq B
      /\ \A b \in B \ Kept(s) : /\ mem[b].mark = FALSE
                                /\ b < p => mem[b].mtag = "free"
                                /\ b >= p /\ mem[b].mtag = "object" => mem[b] = Marked(s)[b]
  BY DEF InSweep
<1>2. p < e /\ ~mem[p].mark /\ w = [mem EXCEPT ![p] = Free(r - p)] /\ ptr' = r
  BY DEF SweepDead
<1>3. /\ e \in Nat \ {0} /\ p \in 1 .. e
      /\ \A x \in B : x \in 1 .. e - 1 /\ x \in DOMAIN mem
      /\ \A x \in B :
           /\ mem[x] \in Header /\ mem[x].n \in Nat \ {0} /\ x + mem[x].n \in B \cup {e}
           /\ x + mem[x].n \in Int
           /\ \A c \in B : x < c => x + mem[x].n <= c
  <2> HIDE DEF r, C, w
  <2> QED
    BY SweepFacts
<1>k. \A a \in Kept(s) :
        /\ a \in B
        /\ a >= p => mem[a] = KeptHeader(s, a, TRUE) /\ mem[a].mark = TRUE
        /\ a < p => mem[a] = KeptHeader(s, a, FALSE)
  <2> HIDE DEF r, C, w
  <2> QED
    BY SweepFacts
<1>p. p = ptr /\ r = EndOfRun(ptr) /\ e = heap_free /\ e = HeapEnd(s)
  OBVIOUS
<1> HIDE DEF e, p, r
<1>4. p \in B /\ p \in Int /\ p >= 1 /\ p \in DOMAIN mem
  <2>1. p \in B
    BY <1>1, <1>2, <1>3
  <2> QED
    BY <1>3, <2>1
<1>5. p \notin Kept(s)
  <2>1. p >= p
    BY <1>4
  <2> QED
    BY <1>2, <1>k, <2>1
<1>6. /\ r \in B \cup {e} /\ p < r /\ r \in Nat
      /\ \A b \in B : p < b /\ b < r => ~mem[b].mark
  <2> HIDE DEF B, C, w
  <2>1. heap_free \in Nat \ {0} /\ Laid(mem, B, 1, heap_free) /\ ptr \in B
    BY <1>1, <1>3, <1>4, <1>p
  <2>2. /\ EndOfRun(ptr) \in B \cup {heap_free} /\ ptr < EndOfRun(ptr) /\ EndOfRun(ptr) \in Nat
        /\ \A b \in B : ptr < b /\ b < EndOfRun(ptr) => ~mem[b].mark
    BY <2>1, RunEnds
  <2> QED
    BY <2>2, <1>p
<1>7. /\ IsFcn(w) /\ DOMAIN w = DOMAIN mem /\ w[p] = Free(r - p)
      /\ \A x \in DOMAIN mem : x # p => w[x] = mem[x]
  <2> HIDE DEF w
  <2> QED
    BY <1>1, <1>2, <1>4 DEF IsFcn
<1>8. w[p] \in Header /\ w[p].n = r - p /\ w[p].mark = FALSE /\ w[p].mtag = "free"
  <2>1. ASSUME NEW z \in Nat \ {0}
        PROVE  Free(z) \in Header /\ Free(z).n = z /\ Free(z).mark = FALSE /\ Free(z).mtag = "free"
    BY DEF Free, Hdr, Header, MTag
  <2>2. r - p \in Nat \ {0}
    BY <1>4, <1>6
  <2> QED
    BY <1>7, <2>1, <2>2
<1>a. \A x \in B : x \in Int /\ x \in DOMAIN mem /\ x < e /\ x >= 1
  BY <1>3
<1>9. ASSUME NEW a \in C, a # p
      PROVE  /\ a \in B /\ a \in Int /\ w[a] = mem[a] /\ (a < p \/ a >= r) /\ w[a] \in Header
             /\ a + w[a].n \in C \cup {e}
             /\ \A c \in C : a < c => a + w[a].n <= c
  <2>1. a \in B /\ (a < p \/ a >= r)
    BY <1>4, <1>9, <1>a
  <2>2. w[a] = mem[a] /\ a \in Int
    BY <1>7, <1>9, <1>a, <2>1
  <2> DEFINE z == a + mem[a].n
  <2>3. /\ mem[a] \in Header /\ z \in B \cup {e} /\ z \in Int /\ a < z
        /\ \A c \in B : a < c => z <= c
    BY <1>3, <2>1, <2>2
  <2> HIDE DEF z
  <2>4. z <= p \/ z >= r
    BY <1>4, <1>6, <2>1, <2>2, <2>3
  <2>5. z \in C \cup {e}
    BY <2>3, <2>4
  <2> QED
    BY <2>1, <2>2, <2>3, <2>5 DEF z
<1>10. /\ p \in C /\ p + w[p].n \in C \cup {e}
       /\ \A c \in C : p < c => p + w[p].n <= c
  <2>1. p + w[p].n = r
    BY <1>4, <1>6, <1>8
  <2>2. r \in C \cup {e} /\ p \in C
    BY <1>4, <1>6
  <2>3. \A c \in C : p < c => r <= c
    BY <1>4, <1>6, <1>a
  <2> QED
    BY <2>1, <2>2, <2>3
<1>11. Laid(w, C, 1, e)
  <2>1. C \subseteq 1 .. e - 1 /\ 1 <= e
    BY <1>3
  <2>2. 1 \in C \cup {e}
    <3>1. 1 \in B \cup {e}
      BY <1>1 DEF Laid
    <3>2. 1 <= p
      BY <1>4
    <3> QED
      BY <3>1, <3>2
  <2>3. \A a \in C : w[a] \in Header /\ a + w[a].n \in C \cup {e} /\ \A c \in C : a < c => a + w[a].n <= c
    BY <1>8, <1>9, <1>10
  <2> HIDE DEF C, w
  <2> QED
    BY <2>1, <2>2, <2>3 DEF Laid
<1>12. BlocksOf(w) = C
  BY <1>1, <1>7, <1>11, <1>p, BlocksAre
<1>13. r \in C \cup {e}
  BY <1>6
<1>14. ASSUME NEW a \in Kept(s)
       PROVE  a \in C /\ w[a] = IF a >= r THEN KeptHeader(s, a, TRUE) ELSE KeptHeader(s, a, FALSE)
  <2>1. a \in B /\ a \in Int /\ a # p
    BY <1>5, <1>a, <1>k
  <2>2. CASE a < p
    <3>1. ~(a >= r) /\ a \in C
      BY <1>4, <1>6, <2>1, <2>2
    <3>2. mem[a] = KeptHeader(s, a, FALSE)
      BY <1>k, <2>2
    <3>3. w[a] = mem[a]
      BY <1>9, <2>1, <3>1
    <3> QED
      BY <3>1, <3>2, <3>3
  <2>3. CASE a > p
    <3>1. a >= p
      BY <1>4, <2>1, <2>3
    <3>2. mem[a] = KeptHeader(s, a, TRUE) /\ mem[a].mark = TRUE
      BY <1>k, <3>1
    <3>3. ~(a < r)
      BY <1>6, <2>1, <2>3, <3>2
    <3>4. a >= r /\ a \in C
      BY <1>6, <2>1, <3>3
    <3>5. w[a] = mem[a]
      BY <1>9, <2>1, <3>4
    <3> QED
      BY <3>2, <3>4, <3>5
  <2>4. a < p \/ a > p
    BY <1>4, <2>1
  <2> QED
    BY <2>2, <2>3, <2>4
<1>15. ASSUME NEW b \in C \ Kept(s)
       PROVE  /\ w[b].mark = FALSE
              /\ b < r => w[b].mtag = "free"
              /\ b >= r /\ w[b].mtag = "object" => w[b] = Marked(s)[b]
  <2>1. CASE b = p
    <3>1. ~(p >= r)
      BY <1>4, <1>6
    <3> QED
      BY <1>8, <2>1, <3>1
  <2>2. CASE b # p
    <3>1. b \in B /\ b \in Int /\ w[b] = mem[b] /\ (b < p \/ b >= r)
      BY <1>9, <2>2
    <3>2. (b < r => b < p) /\ (b >= r => b >= p)
      BY <1>4, <1>6, <3>1
    <3> QED
      BY <1>1, <3>1, <3>2
  <2> QED
    BY <2>1, <2>2
<1>16. SweptWords(w, s)
  <2>1. ptr \in BlocksOf(mem) /\ DOMAIN w = DOMAIN mem /\ \A x \in DOMAIN mem : x # ptr => w[x] = mem[x]
    BY <1>4, <1>7, <1>p
  <2> HIDE DEF w, B, C
  <2> QED
    BY <2>1, WordsStay
<1>17. InSweep(w, r, s, TRUE)
  <2>1. /\ IsFcn(w) /\ DOMAIN w = DOMAIN s /\ Laid(w, BlocksOf(w), 1, HeapEnd(s)) /\ r \in BlocksOf(w) \cup {HeapEnd(s)}
        /\ Kept(s) \subseteq BlocksOf(w)
        /\ \A a \in Kept(s) : w[a] = IF a >= r THEN KeptHeader(s, a, TRUE) ELSE KeptHeader(s, a, FALSE)
        /\ \A b \in BlocksOf(w) \ Kept(s) :
             /\ w[b].mark = FALSE
             /\ b < r => w[b].mtag = "free"
             /\ b >= r /\ w[b].mtag = "object" => w[b] = Marked(s)[b]
    <3> HIDE DEF w, B, C
    <3> QED
      BY <1>1, <1>7, <1>11, <1>12, <1>13, <1>14, <1>15, <1>p
  <2> HIDE DEF w, B, C
  <2> QED
    BY <1>16, <2>1 DEF InSweep, SweptWords
<1>18. HasFinalizer(ptr) => LET h == Marked(s)[ptr] IN ~h.mark /\ h.mtag = "object" /\ h.cls = "user"
  <2> SUFFICES ASSUME HasFinalizer(ptr)
               PROVE  LET h == Marked(s)[ptr] IN ~h.mark /\ h.mtag = "object" /\ h.cls = "user"
    OBVIOUS
  <2>1. mem[p].mtag = "object" /\ mem[p].cls = "user"
    BY <1>p DEF HasFinalizer
  <2>2. p >= p
    BY <1>4
  <2>3. mem[p] = Marked(s)[p]
    BY <1>1, <1>4, <1>5, <2>1, <2>2
  <2> QED
    BY <1>2, <1>p, <2>1, <2>3
<1> QED
  BY <1>2, <1>6, <1>17, <1>18, <1>p
-----------------------------------------------------------------------------
(* What the sweep leaves is what the compaction needs.                     *)

\* A reference from a kept block, and one from outside, is to a kept block.
LEMMA KeptRefs ==
  ASSUME NEW s, Sound(s)
  PROVE  /\ \A a \in Kept(s) : LET h == KeptHeader(s, a, FALSE) IN
              /\ MarkSlots(h) \subseteq 1 .. KeptSize(s)[a] - 1
              /\ a # TableOf(s) => MarkSlots(h) = MarkSlots(s[a])
              /\ \A i \in MarkSlots(h) : JS_IsPtr(KeptWord(s, a, i)) => KeptWord(s, a, i).a \in Kept(s) \ {a}
         /\ \A l \in StrongOf(s) : JS_IsPtr(s[l]) => s[l].a \in Kept(s)
<1>1. /\ Kept(s) \subseteq BlocksOf(s) /\ Reachable(s) \subseteq Kept(s)
      /\ \A a \in Kept(s) : a # TableOf(s) => a \in Reachable(s) /\ KeptSize(s)[a] = s[a].n /\ KeptHeader(s, a, FALSE) = s[a]
  <2>1. \A a \in Kept(s) : a # TableOf(s) => KeptHeader(s, a, FALSE) = s[a]
    BY KeptFacts
  <2> QED
    BY <2>1, KeptFacts
<1>2. ASSUME NEW a \in Kept(s), a # TableOf(s)
      PROVE  LET h == KeptHeader(s, a, FALSE) IN
             /\ MarkSlots(h) \subseteq 1 .. KeptSize(s)[a] - 1
             /\ MarkSlots(h) = MarkSlots(s[a])
             /\ \A i \in MarkSlots(h) : JS_IsPtr(KeptWord(s, a, i)) => KeptWord(s, a, i).a \in Kept(s) \ {a}
  <2>1. a \in Reachable(s) /\ KeptSize(s)[a] = s[a].n /\ KeptHeader(s, a, FALSE) = s[a] /\ a \in BlocksOf(s)
    BY <1>1, <1>2
  <2>2. MarkSlots(s[a]) \subseteq 1 .. s[a].n - 1 /\ a \notin RefsOf(s, a)
    BY <2>1 DEF Sound
  <2>3. ASSUME NEW i \in MarkSlots(s[a]), JS_IsPtr(s[a + i])
        PROVE  s[a + i].a \in Kept(s) \ {a}
    <3>1. s[a + i].a \in RefsOf(s, a)
      BY <2>3 DEF RefsOf
    <3>2. s[a + i].a \in Reachable(s)
      BY <2>1, <3>1, LiveFacts DEF Closed
    <3> QED
      BY <1>1, <2>2, <3>1, <3>2
  <2> QED
    BY <1>2, <2>1, <2>2, <2>3 DEF KeptWord
<1>3. ASSUME NEW a \in Kept(s), a = TableOf(s)
      PROVE  LET h == KeptHeader(s, a, FALSE) IN
             /\ MarkSlots(h) \subseteq 1 .. KeptSize(s)[a] - 1
             /\ \A i \in MarkSlots(h) : JS_IsPtr(KeptWord(s, a, i)) => KeptWord(s, a, i).a \in Kept(s) \ {a}
  <2> DEFINE h == KeptHeader(s, a, FALSE)
             E == KeptEntries(s)
             K == {i \in 1 .. s[a].n - 1 : IsLiveRef(s, s[a + i])}
  <2>1. TableOf(s) # 0 /\ KeptSize(s)[a] = 1 + Len(E)
    BY <1>3, KeptFacts
  <2>2. h.mtag = s[a].mtag /\ h.n = KeptSize(s)[a]
    BY KeptFacts
  <2>3. LET t == TableOf(s)
            L == {i \in 1 .. s[t].n - 1 : IsLiveRef(s, s[t + i])}
        IN /\ s[t].mtag = "value_array"
           /\ \A i \in 1 .. s[t].n - 1 : JS_IsPtr(s[t + i]) => s[t + i].a # t
           /\ Cardinality(L) \in 0 .. s[t].n - 1 /\ Len(KeptEntries(s)) = Cardinality(L)
           /\ KeptEntries(s) = [j \in 1 .. Cardinality(L) |-> s[t + Nth(L, j)]]
           /\ \A j \in 1 .. Cardinality(L) : Nth(L, j) \in L /\ IsLiveRef(s, KeptEntries(s)[j])
    BY ONLY Sound(s), <2>1, TableFacts
  <2>4. /\ s[a].mtag = "value_array"
        /\ \A i \in 1 .. s[a].n - 1 : JS_IsPtr(s[a + i]) => s[a + i].a # a
        /\ Cardinality(K) \in Nat /\ Len(E) = Cardinality(K)
        /\ E = [j \in 1 .. Cardinality(K) |-> s[a + Nth(K, j)]]
        /\ \A j \in 1 .. Cardinality(K) : Nth(K, j) \in K /\ IsLiveRef(s, E[j])
    BY <1>3, <2>3
  <2> HIDE DEF h
  <2>5. MarkSlots(h) = 1 .. h.n - 1
    BY <2>2, <2>4 DEF MarkSlots
  <2>6. MarkSlots(h) = 1 .. Cardinality(K) /\ KeptSize(s)[a] - 1 = Cardinality(K)
    <3> DEFINE c == Cardinality(K)
    <3>1. h.n = 1 + c /\ c \in Nat
      BY <2>1, <2>2, <2>4
    <3> HIDE DEF c, K, E
    <3>2. h.n - 1 = c
      BY <3>1
    <3> QED
      BY <2>2, <2>5, <3>2 DEF c
  <2>7. ASSUME NEW j \in 1 .. Cardinality(K), JS_IsPtr(E[j])
        PROVE  E[j].a \in Kept(s) \ {a}
    <3>1. Nth(K, j) \in 1 .. s[a].n - 1 /\ IsLiveRef(s, E[j])
      BY <2>4
    <3>2. E[j] = s[a + Nth(K, j)]
      <4> HIDE DEF K, E
      <4> QED
        BY <2>4
    <3>3. E[j].a \in Reachable(s) /\ E[j].a # a
      BY <2>4, <2>7, <3>1, <3>2 DEF IsLiveRef
    <3> QED
      BY <1>1, <3>3
  <2> QED
    BY <1>3, <2>6, <2>7 DEF KeptWord, h
<1>4. ASSUME NEW l \in StrongOf(s), JS_IsPtr(s[l])
      PROVE  s[l].a \in Kept(s)
  <2>1. s[l].a \in StrongRefs(s)
    BY <1>4 DEF StrongRefs
  <2>2. s[l].a \in Reachable(s)
    BY <2>1, LiveFacts DEF Closed
  <2> QED
    BY <1>1, <2>2
<1> QED
  BY <1>2, <1>3, <1>4

\* The memory is ready to be compacted, and its blocks are the kept ones.
LEMMA SweptReady ==
  ASSUME NEW s, Sound(s), InSweep(swept_mem, HeapEnd(s), s, TRUE)
  PROVE  /\ Ready /\ OldEnd = HeapEnd(s) /\ OldBlocks = Kept(s)
         /\ \A a \in OldBlocks : swept_mem[a] = KeptHeader(s, a, FALSE)
<1> DEFINE e == HeapEnd(s)
           B == BlocksOf(swept_mem)
<1>1. /\ DOMAIN swept_mem = DOMAIN s /\ Laid(swept_mem, B, 1, e) /\ Kept(s) \subseteq B
      /\ \A b \in B \ Kept(s) : b < e => swept_mem[b].mtag = "free"
      /\ \A a \in Kept(s) : \A i \in 1 .. KeptSize(s)[a] - 1 : swept_mem[a + i] = KeptWord(s, a, i)
      /\ \A l \in StrongOf(s) : swept_mem[l] = s[l]
      /\ swept_mem[TableLoc] = IF KeptEntries(s) = <<>> THEN Imm ELSE s[TableLoc]
      /\ \A l \in CacheLocs : swept_mem[l] = IF TRUE /\ ~IsLiveRef(s, s[l]) THEN Imm ELSE s[l]
  BY DEF InSweep
<1>2. OldEnd = e /\ AllOld = B /\ ExtOf(swept_mem) = ExtOf(s)
  BY <1>1 DEF OldEnd, AllOld, BlocksOf, HeapEnd, ExtOf
<1>3. /\ \A x \in B : x \in 1 .. e - 1
      /\ e \in Nat \ {0}
  BY SweepFacts
<1>4. \A a \in Kept(s) : a < e => swept_mem[a] = KeptHeader(s, a, FALSE)
  BY SweepFacts
<1> HIDE DEF B
<1>5. \A x \in B : x \in Int /\ x < e
  BY <1>3
<1>6. ASSUME NEW a \in Kept(s)
      PROVE  swept_mem[a] = KeptHeader(s, a, FALSE) /\ swept_mem[a].mtag # "free" /\ swept_mem[a].n = KeptSize(s)[a]
  <2>1. swept_mem[a] = KeptHeader(s, a, FALSE)
    BY <1>1, <1>4, <1>5
  <2>2. KeptHeader(s, a, FALSE).mtag = s[a].mtag /\ s[a].mtag # "free" /\ KeptHeader(s, a, FALSE).n = KeptSize(s)[a]
    BY KeptFacts, ZenonT(40)
  <2> QED
    BY <2>1, <2>2
<1>7. OldBlocks = Kept(s)
  <2>1. OldBlocks = {a \in B : swept_mem[a].mtag # "free"}
    BY <1>2 DEF OldBlocks, AllOld, OldEnd
  <2> QED
    BY <1>1, <1>5, <1>6, <2>1
<1>8. ASSUME NEW a \in OldBlocks
      PROVE  /\ Slots(a) \subseteq 1 .. swept_mem[a].n - 1
             /\ \A l \in SlotAddrs(a) : JS_IsPtr(swept_mem[l]) => swept_mem[l].a \in OldBlocks \ {a}
  <2> DEFINE h == KeptHeader(s, a, FALSE)
  <2>1. a \in Kept(s) /\ swept_mem[a] = h /\ swept_mem[a].n = KeptSize(s)[a] /\ Slots(a) = MarkSlots(h)
    BY <1>6, <1>7, SameSlots DEF Slots
  <2>2. /\ MarkSlots(h) \subseteq 1 .. KeptSize(s)[a] - 1
        /\ \A i \in MarkSlots(h) : JS_IsPtr(KeptWord(s, a, i)) => KeptWord(s, a, i).a \in Kept(s) \ {a}
    BY <2>1, KeptRefs
  <2> HIDE DEF h
  <2>3. ASSUME NEW l \in SlotAddrs(a), JS_IsPtr(swept_mem[l])
        PROVE  swept_mem[l].a \in OldBlocks \ {a}
    <3>1. PICK i \in MarkSlots(h) : l = a + i
      BY <2>1 DEF SlotAddrs
    <3>2. swept_mem[a + i] = KeptWord(s, a, i)
      BY <1>1, <2>1, <2>2
    <3> QED
      BY <1>7, <2>2, <2>3, <3>1, <3>2
  <2> QED
    BY <2>1, <2>2, <2>3
<1>9. ASSUME NEW l \in ExtOf(swept_mem), JS_IsPtr(swept_mem[l])
      PROVE  swept_mem[l].a \in OldBlocks
  <2>1. ~JS_IsPtr(Imm)
    BY DEF JS_IsPtr, Imm
  <2>2. CASE l \in StrongOf(s)
    BY <1>1, <1>7, <1>9, <2>2, KeptRefs
  <2>3. CASE l \in CacheLocs
    <3>1. IsLiveRef(s, s[l]) /\ swept_mem[l] = s[l]
      BY <1>1, <1>9, <2>1, <2>3
    <3> QED
      BY <1>7, <3>1, KeptFacts DEF IsLiveRef
  <2>4. CASE l = TableLoc
    <3>1. KeptEntries(s) # <<>> /\ swept_mem[l] = s[TableLoc]
      BY <1>1, <1>9, <2>1, <2>4
    <3>2. TableOf(s) = s[TableLoc].a
      BY <1>9, <3>1 DEF TableOf
    <3> QED
      BY <1>7, <3>1, <3>2, KeptFacts
  <2> QED
    BY <1>2, <2>2, <2>3, <2>4 DEF StrongOf
<1>10. Ready
  <2>1. IsFiniteSet(DOMAIN s) /\ DOMAIN s = (-Cardinality(ExtOf(s)) .. -1) \cup (1 .. e - 1)
    BY DEF Sound
  <2> HIDE DEF e
  <2> QED
    BY <1>1, <1>2, <1>8, <1>9, <2>1 DEF Ready
<1> QED
  BY <1>2, <1>6, <1>7, <1>10
-----------------------------------------------------------------------------
(* The invariant of a collection.                                          *)

Swept == Sound(before) /\ InSweep(swept_mem, HeapEnd(before), before, TRUE)

\* No user finalizer was called but for dead objects below p.
Finals(p) ==
  /\ finalized \in Seq(Int)
  /\ \A i \in DOMAIN finalized :
       LET h == Marked(before)[finalized[i]]
       IN finalized[i] < p /\ ~h.mark /\ h.mtag = "object" /\ h.cls = "user"
  /\ \A i, j \in DOMAIN finalized : finalized[i] = finalized[j] => i = j

IInv ==
  /\ Sound(before)
  /\ phase \in {"mark", "unique", "cache", "sweep", "swept", "roots", "pass1", "pass2", "done"}
  /\ unique_strings_len \in 0 .. HeapEnd(before)
  /\ ~Compacting => heap_free = HeapEnd(before) /\ new_ptr = 1 /\ ext = -1
  /\ phase \in {"mark", "unique", "cache"} => ptr = 1 /\ finalized = <<>>
  /\ phase = "mark" => mem = before
  /\ phase # "mark" => marked_mem = Marked(before)
  /\ phase = "unique" => mem = Marked(before)
  /\ phase = "cache" => InCache(mem, before)
  /\ phase = "sweep" => InSweep(mem, ptr, before, TRUE) /\ Finals(ptr)
  /\ phase = "swept" => ptr = HeapEnd(before) /\ InSweep(mem, HeapEnd(before), before, TRUE)
  /\ phase = "swept" \/ Compacting => Finals(HeapEnd(before))
  /\ Compacting => Swept /\ CompactInv

\* The compaction begins with what the sweep left.
Begun ==
  /\ Swept /\ phase = "roots" /\ mem = swept_mem
  /\ ptr = 1 /\ new_ptr = 1 /\ ext = -1 /\ heap_free = HeapEnd(before)

LEMMA BegunInv == Begun => CompactInv
<1> SUFFICES ASSUME Begun
             PROVE  CompactInv
  OBVIOUS
<1>1. /\ Ready /\ OldEnd = HeapEnd(before)
      /\ IsFcn(swept_mem) /\ mem = swept_mem /\ phase = "roots" /\ ptr = 1 /\ new_ptr = 1 /\ ext = -1
      /\ heap_free = HeapEnd(before)
  BY SweptReady DEF Begun, Swept, InSweep
<1>2. RootLists(-1) = [b \in OldBlocks |-> {}]
  <2>1. ASSUME NEW l \in ExtOf(swept_mem)
        PROVE  ~(l > -1)
    <3>1. l \in DOMAIN swept_mem /\ l < 0
      BY DEF ExtOf
    <3>2. l \in Int
      BY <1>1, <3>1, ReadyFacts
    <3> QED
      BY <3>1, <3>2
  <2> QED
    BY <2>1 DEF RootLists
<1>3. ASSUME NEW b \in OldBlocks
      PROVE  Listed(swept_mem, b, swept_mem[b], RootLists(-1)[b]) /\ RootLists(-1)[b] = {}
  <2>1. b \in AllOld /\ AllOld \subseteq 1 .. OldEnd - 1 /\ \A l \in 1 .. OldEnd - 1 : l \in DOMAIN swept_mem
    BY <1>1, ReadyFacts
  <2>2. b \in DOMAIN swept_mem /\ RootLists(-1)[b] = {}
    BY <1>2, <2>1
  <2> QED
    BY <2>2, NoneListed
<1>4. Lists(swept_mem, RootLists(-1), OldBlocks)
  BY <1>1, <1>3 DEF Lists
<1>5. InRoots(swept_mem, -1)
  BY <1>4 DEF InRoots
<1> QED
  BY <1>1, <1>5 DEF CompactInv

LEMMA InitInv == Init => IInv
<1> SUFFICES ASSUME Init
             PROVE  IInv
  OBVIOUS
<1>1. Sound(before) /\ unique_strings_len \in 0 .. HeapEnd(before)
  BY StartHeapsAssumption DEF Init
<1> QED
  BY <1>1 DEF Init, IInv, Compacting

\* The mark phase.
LEMMA MarkKept ==
  ASSUME IInv, Mark
  PROVE  IInv'
<1>1. mem = before /\ mem' = Marked(before) /\ marked_mem' = mem' /\ phase = "mark" /\ phase' = "unique"
  BY DEF IInv, Mark, Marked
<1>2. before' = before /\ UNCHANGED <<heap_free, ptr, unique_strings_len, finalized, ext, new_ptr>>
  BY DEF Mark, compactVars
<1> QED
  BY <1>1, <1>2 DEF IInv, Compacting

LEMMA StartCompactKept ==
  ASSUME IInv, StartCompact
  PROVE  IInv'
<1>1. /\ phase = "swept" /\ swept_mem' = mem /\ mem' = mem /\ phase' = "roots" /\ ptr' = 1
      /\ before' = before /\ UNCHANGED <<heap_free, unique_strings_len, finalized, marked_mem, ext, new_ptr>>
  BY DEF StartCompact, sweepVars
<1>2. /\ Sound(before) /\ InSweep(mem, HeapEnd(before), before, TRUE)
      /\ heap_free = HeapEnd(before) /\ new_ptr = 1 /\ ext = -1
      /\ Finals(HeapEnd(before)) /\ unique_strings_len \in 0 .. HeapEnd(before)
      /\ marked_mem = Marked(before)
  BY <1>1 DEF IInv, Compacting
<1>3. Begun'
  BY <1>1, <1>2 DEF Begun, Swept
<1>4. CompactInv'
  BY <1>3, BegunInv, PTL
<1>5. Swept' /\ Compacting'
  BY <1>1, <1>2 DEF Swept, Compacting
<1>6. Finals(HeapEnd(before))'
  BY <1>1, <1>2 DEF Finals
<1> QED
  BY <1>1, <1>2, <1>4, <1>5, <1>6 DEF IInv

LEMMA CompactStepKept ==
  ASSUME IInv, Compact
  PROVE  IInv'
<1>1. Compacting
  BY DEF Compact, CompactNext, ThreadRoot, StartPass1, Pass1Block, StartPass2, Pass2Block, Finish, Compacting
<1>2. before' = before /\ UNCHANGED <<unique_strings_len, finalized, marked_mem>>
  BY DEF Compact, sweepVars
<1>3. CompactInv' /\ Compacting' /\ swept_mem' = swept_mem
  BY <1>1, CompactKept DEF IInv, Compact
<1>4. Sound(before) /\ Swept /\ Finals(HeapEnd(before)) /\ unique_strings_len \in 0 .. HeapEnd(before)
  BY <1>1 DEF IInv
<1>5. marked_mem = Marked(before)
  BY <1>1 DEF IInv, Compacting
<1>6. Swept'
  BY <1>2, <1>3, <1>4 DEF Swept
<1>7. Finals(HeapEnd(before))'
  BY <1>2, <1>4 DEF Finals
<1>8. phase' \in {"roots", "pass1", "pass2", "done"}
  BY <1>3 DEF Compacting
<1> QED
  BY <1>2, <1>3, <1>4, <1>5, <1>6, <1>7, <1>8 DEF IInv

\* No finalizer was called in a collection that has not come to the sweep.
LEMMA NoneFinalized ==
  ASSUME finalized = <<>>
  PROVE  \A p : Finals(p)
<1>1. finalized \in Seq(Int) /\ DOMAIN finalized = {}
  BY EmptySeq
<1> QED
  BY <1>1 DEF Finals

LEMMA SweepKept ==
  ASSUME IInv, Sweep
  PROVE  IInv'
<1>1. SweepNext /\ before' = before /\ UNCHANGED <<ext, new_ptr, swept_mem>>
  BY DEF Sweep, compactVars
<1>2. Sound(before) /\ unique_strings_len \in 0 .. HeapEnd(before)
  BY DEF IInv
<1>3. ASSUME phase \in {"unique", "cache", "sweep"}
      PROVE  /\ heap_free = HeapEnd(before) /\ new_ptr = 1 /\ ext = -1 /\ marked_mem = Marked(before)
             /\ phase = "unique" => mem = Marked(before) /\ ptr = 1 /\ finalized = <<>>
             /\ phase = "cache" => InCache(mem, before) /\ ptr = 1 /\ finalized = <<>>
             /\ phase = "sweep" => InSweep(mem, ptr, before, TRUE) /\ Finals(ptr)
  BY <1>3 DEF IInv, Compacting
<1>4. CASE UpdateUniqueStrings
  <2>1. phase = "unique" /\ phase' = "cache" /\ UNCHANGED <<heap_free, ptr, finalized, marked_mem>>
    BY <1>4 DEF UpdateUniqueStrings
  <2>2. InCache(mem', before) /\ unique_strings_len' \in 0 .. HeapEnd(before)
    BY <1>2, <1>3, <1>4, <2>1, TableUpdated
  <2> QED
    BY <1>1, <1>2, <1>3, <2>1, <2>2 DEF IInv, Compacting
<1>5. CASE UpdatePosCache
  <2>1. phase = "cache" /\ phase' = "sweep" /\ UNCHANGED <<heap_free, ptr, unique_strings_len, finalized, marked_mem>>
    BY <1>5 DEF UpdatePosCache, sweepVars
  <2>2. InSweep(mem', ptr', before, TRUE)
    BY <1>2, <1>3, <1>5, <2>1, CacheUpdated
  <2>3. Finals(1)
    BY <1>3, <2>1, NoneFinalized
  <2>4. Finals(ptr)'
    BY <1>1, <1>3, <2>1, <2>3 DEF Finals
  <2> QED
    BY <1>1, <1>2, <1>3, <2>1, <2>2, <2>4 DEF IInv, Compacting
<1>6. CASE SweepMarked
  <2>1. /\ phase = "sweep" /\ phase' = "sweep" /\ UNCHANGED <<heap_free, unique_strings_len, finalized, marked_mem>>
        /\ ptr' = ptr + mem[ptr].n /\ ptr < heap_free
    BY <1>6 DEF SweepMarked, sweepVars, get_mblock_size
  <2>2. InSweep(mem', ptr', before, TRUE)
    BY <1>2, <1>3, <1>6, <2>1, MarkedSwept
  <2>3. ptr \in Int /\ ptr' \in Int /\ ptr < ptr'
    <3>1. /\ ptr \in 1 .. HeapEnd(before) /\ HeapEnd(before) \in Nat
          /\ ptr \in BlocksOf(mem) => mem[ptr].n \in Nat \ {0}
      BY <1>2, <1>3, <2>1, SweepFacts
    <3>2. ptr \in BlocksOf(mem)
      BY <1>3, <2>1, <3>1 DEF InSweep
    <3> QED
      BY <2>1, <3>1, <3>2
  <2>4. Finals(ptr)'
    <3>1. Finals(ptr)
      BY <1>3, <2>1
    <3>2. \A i \in DOMAIN finalized : finalized[i] \in Int
      BY <3>1 DEF Finals
    <3> QED
      BY <1>1, <2>1, <2>3, <3>1, <3>2 DEF Finals
  <2> QED
    BY <1>1, <1>2, <1>3, <2>1, <2>2, <2>4 DEF IInv, Compacting
<1>7. CASE SweepDead
  <2>1. /\ phase = "sweep" /\ phase' = "sweep" /\ UNCHANGED <<heap_free, unique_strings_len, marked_mem>>
        /\ finalized' = IF HasFinalizer(ptr) THEN Append(finalized, ptr) ELSE finalized
    BY <1>7 DEF SweepDead, FinalizeFirst
  <2>2. /\ InSweep(mem', ptr', before, TRUE) /\ ptr < ptr'
        /\ HasFinalizer(ptr) => LET h == Marked(before)[ptr] IN ~h.mark /\ h.mtag = "object" /\ h.cls = "user"
    BY <1>2, <1>3, <1>7, <2>1, DeadSwept
  <2>3. ptr \in Int /\ ptr' \in Int
    <3>1. ptr \in 1 .. HeapEnd(before) /\ HeapEnd(before) \in Nat
      BY <1>2, <1>3, <2>1, SweepFacts
    <3> DEFINE q == ptr'
               w == mem'
    <3>2. InSweep(w, q, before, TRUE)
      BY <2>2
    <3> HIDE DEF q, w
    <3>3. q \in 1 .. HeapEnd(before)
      BY <1>2, <3>2, SweepFacts
    <3> QED
      BY <3>1, <3>3 DEF q
  <2>4. Finals(ptr)'
    <3>1. Finals(ptr)
      BY <1>3, <2>1
    <3>2. finalized \in Seq(Int) /\ \A i \in DOMAIN finalized : finalized[i] \in Int
      BY <3>1 DEF Finals
    <3>3. CASE ~HasFinalizer(ptr)
      BY <1>1, <2>1, <2>2, <2>3, <3>1, <3>2, <3>3 DEF Finals
    <3>4. CASE HasFinalizer(ptr)
      <4> DEFINE f == finalized'
                 n == Len(finalized)
      <4>1. f = Append(finalized, ptr)
        BY <2>1, <3>4
      <4>2. n \in Nat /\ DOMAIN finalized = 1 .. n
        BY <3>2
      <4>3. /\ f \in Seq(Int) /\ DOMAIN f = 1 .. n + 1 /\ f[n + 1] = ptr
            /\ \A i \in 1 .. n : f[i] = finalized[i]
        BY <2>3, <3>2, <4>1, <4>2
      <4> HIDE DEF f, n
      <4>4. ASSUME NEW i \in DOMAIN f
            PROVE  LET h == Marked(before)[f[i]]
                   IN f[i] < ptr' /\ ~h.mark /\ h.mtag = "object" /\ h.cls = "user"
        <5>1. CASE i = n + 1
          BY <2>2, <3>4, <4>3, <5>1
        <5>2. CASE i # n + 1
          <6>1. i \in 1 .. n
            BY <4>2, <4>3, <5>2
          <6>2. finalized[i] < ptr /\ finalized[i] \in Int
            BY <3>1, <3>2, <4>2, <6>1 DEF Finals
          <6>3. finalized[i] < ptr'
            BY <2>2, <2>3, <6>2
          <6> QED
            BY <3>1, <4>2, <4>3, <6>1, <6>3 DEF Finals
        <5> QED
          BY <5>1, <5>2
      <4>5. ASSUME NEW i \in DOMAIN f, NEW j \in DOMAIN f, f[i] = f[j]
            PROVE  i = j
        <5>1. ASSUME NEW k \in 1 .. n
              PROVE  f[k] # ptr
          <6>1. finalized[k] < ptr /\ finalized[k] \in Int
            BY <3>1, <3>2, <4>2 DEF Finals
          <6> QED
            BY <2>3, <4>3, <6>1
        <5>2. (i = n + 1 \/ i \in 1 .. n) /\ (j = n + 1 \/ j \in 1 .. n)
          BY <4>2, <4>3
        <5>3. CASE i \in 1 .. n /\ j \in 1 .. n
          BY <3>1, <4>2, <4>3, <4>5, <5>3 DEF Finals
        <5> QED
          BY <4>3, <4>5, <5>1, <5>2, <5>3
      <4> QED
        BY <1>1, <4>3, <4>4, <4>5 DEF Finals, f
    <3> QED
      BY <3>3, <3>4
  <2> QED
    BY <1>1, <1>2, <1>3, <2>1, <2>2, <2>4 DEF IInv, Compacting
<1>8. CASE SweepDone
  <2>1. /\ phase = "sweep" /\ phase' = "swept" /\ ptr >= heap_free
        /\ UNCHANGED <<mem, heap_free, ptr, unique_strings_len, finalized, marked_mem>>
    BY <1>8 DEF SweepDone, sweepVars
  <2>2. ptr = HeapEnd(before)
    <3>1. ptr \in 1 .. HeapEnd(before) /\ HeapEnd(before) \in Nat
      BY <1>2, <1>3, <2>1, SweepFacts
    <3> QED
      BY <1>3, <2>1, <3>1
  <2>3. Finals(HeapEnd(before))'
    <3>1. Finals(HeapEnd(before))
      BY <1>3, <2>1, <2>2
    <3> QED
      BY <1>1, <2>1, <3>1 DEF Finals
  <2> QED
    BY <1>1, <1>2, <1>3, <2>1, <2>2, <2>3 DEF IInv, Compacting
<1> QED
  BY <1>1, <1>4, <1>5, <1>6, <1>7, <1>8 DEF SweepNext

LEMMA StepKept == IInv /\ [Next]_vars => IInv'
<1> SUFFICES ASSUME IInv, [Next]_vars
             PROVE  IInv'
  OBVIOUS
<1>1. CASE UNCHANGED vars
  <2>1. /\ UNCHANGED <<mem, heap_free, phase, ptr, unique_strings_len, finalized, marked_mem>>
        /\ UNCHANGED <<ext, new_ptr, swept_mem, before>>
    BY <1>1 DEF vars, heapVars, sweepVars, compactVars
  <2>2. CompactInv => CompactInv'
    <3> SUFFICES ASSUME CompactInv
                 PROVE  CompactInv'
      OBVIOUS
    <3>1. /\ Ready'
          /\ OldEnd' = OldEnd /\ AllOld' = AllOld /\ \A a : Target(a)' = Target(a)
      BY <2>1, OldStays, ReadyStays DEF CompactInv
    <3>2. phase = "roots" => ext < 0 /\ InRoots(mem, ext)'
      BY <2>1, InRootsStays DEF CompactInv
    <3>3. phase = "pass1" => InPass1(mem, ptr)'
      BY <2>1, InPass1Stays DEF CompactInv
    <3>4. phase = "pass2" => InPass2At(mem, ptr)'
      BY <2>1, InPass2Stays DEF CompactInv
    <3>5. phase = "done" => InPass2At(mem, OldEnd)'
      BY <2>1, InPass2Stays DEF CompactInv
    <3> QED
      BY <2>1, <3>1, <3>2, <3>3, <3>4, <3>5 DEF CompactInv
  <2> QED
    BY <2>1, <2>2 DEF IInv, Compacting, Swept, Finals
<1> QED
  BY <1>1, MarkKept, SweepKept, StartCompactKept, CompactStepKept DEF Next
-----------------------------------------------------------------------------
(* What the invariant says in the end.                                     *)

\* The words of a kept block when all is done.
LEMMA KeptNow ==
  ASSUME NEW s, Sound(s), InSweep(swept_mem, HeapEnd(s), s, TRUE),
         NEW a \in Kept(s), NEW i \in 0 .. KeptSize(s)[a] - 1
  PROVE  LET h == KeptHeader(s, a, FALSE) IN
         /\ i \in MarkSlots(h) => Now(a + i) = Fwd(KeptWord(s, a, i))
         /\ i \notin MarkSlots(h) => Now(a + i) = IF i = 0 THEN h ELSE KeptWord(s, a, i)
<1> DEFINE h == KeptHeader(s, a, FALSE)
           x == a + i
<1>1. Ready /\ OldBlocks = Kept(s) /\ swept_mem[a] = h
  BY SweptReady
<1>2. h.n = KeptSize(s)[a]
  BY KeptFacts
<1>3. /\ a \in AllOld /\ a \in OldBlocks /\ swept_mem[a].n = KeptSize(s)[a] /\ Slots(a) = MarkSlots(h)
      /\ \A b \in OldBlocks : b \in AllOld /\ \A j \in Slots(b) : j \in 1 .. swept_mem[b].n - 1
  <2>1. \A b \in OldBlocks : b \in AllOld /\ \A j \in Slots(b) : j \in 1 .. swept_mem[b].n - 1
    BY <1>1, ReadyFacts DEF Ready
  <2>2. Slots(a) = MarkSlots(h)
    BY <1>1, SameSlots DEF Slots
  <2> HIDE DEF h
  <2> QED
    BY <1>1, <1>2, <2>1, <2>2
<1>4. \A j \in 1 .. KeptSize(s)[a] - 1 : swept_mem[a + j] = KeptWord(s, a, j)
  BY DEF InSweep
<1> HIDE DEF h
<1>5. /\ x \in 1 .. OldEnd - 1
      /\ \A c \in AllOld : \A j \in 0 .. swept_mem[c].n - 1 : x = c + j => a = c /\ i = j
  <2>1. i \in 0 .. swept_mem[a].n - 1
    BY <1>3
  <2> QED
    BY <1>1, <1>3, <2>1, WordFacts
<1> HIDE DEF x
<1>6. x \in Places => i \in Slots(a)
  <2> SUFFICES ASSUME x \in Places
               PROVE  i \in Slots(a)
    OBVIOUS
  <2>1. x \notin ExtOf(swept_mem)
    <3>1. x >= 1 /\ x \in Int
      BY <1>5
    <3> QED
      BY <3>1 DEF ExtOf
  <2>2. PICK b \in OldBlocks : x \in SlotAddrs(b)
    BY <2>1 DEF Places
  <2>3. PICK j \in Slots(b) : x = b + j
    BY <2>2 DEF SlotAddrs
  <2>4. b \in AllOld /\ j \in 0 .. swept_mem[b].n - 1
    <3>1. b \in AllOld /\ j \in 1 .. swept_mem[b].n - 1
      BY <1>3, <2>3
    <3> QED
      BY <3>1
  <2> QED
    BY <1>5, <2>3, <2>4
<1>7. i \in Slots(a) => x \in Places
  BY <1>3 DEF Places, SlotAddrs, x
<1>8. CASE i \in MarkSlots(h)
  <2>1. i \in 1 .. KeptSize(s)[a] - 1
    BY <1>3, <1>8
  <2>2. Now(x) = Fwd(swept_mem[x]) /\ swept_mem[x] = KeptWord(s, a, i)
    BY <1>3, <1>4, <1>7, <1>8, <2>1 DEF Now, x
  <2> QED
    BY <1>8, <2>2 DEF h, x
<1>9. CASE i \notin MarkSlots(h)
  <2>1. Now(x) = swept_mem[x]
    BY <1>3, <1>6, <1>9 DEF Now
  <2>2. CASE i = 0
    <3>1. x = a
      <4>1. a \in Int
        BY <1>1, <1>3, ReadyFacts
      <4> QED
        BY <2>2, <4>1 DEF x
    <3> QED
      BY <1>1, <1>9, <2>1, <2>2, <3>1 DEF h, x
  <2>3. CASE i # 0
    <3>1. i \in 1 .. KeptSize(s)[a] - 1
      BY <2>3
    <3>2. swept_mem[x] = KeptWord(s, a, i)
      BY <1>4, <3>1 DEF x
    <3> QED
      BY <1>9, <2>1, <2>3, <3>2 DEF h, x
  <2> QED
    BY <2>2, <2>3
<1> QED
  BY <1>8, <1>9 DEF h

\* The types hold.
LEMMA InvTypes == IInv => TypeOK
<1> SUFFICES ASSUME IInv
             PROVE  TypeOK
  OBVIOUS
<1> DEFINE e == HeapEnd(before)
<1>1. /\ Sound(before)
      /\ phase \in {"mark", "unique", "cache", "sweep", "swept", "roots", "pass1", "pass2", "done"}
      /\ unique_strings_len \in 0 .. e
  BY DEF IInv
<1>2. e \in Nat \ {0} /\ 1 \in BlocksOf(before) \cup {e}
  BY <1>1, SoundFacts
<1>3. ASSUME NEW m, NEW p, DOMAIN m = DOMAIN before, Laid(m, BlocksOf(m), 1, e), p \in BlocksOf(m) \cup {e}
      PROVE  Walkable(m, 1, e) /\ (p \in BlockAddrs(m, 1, e) \/ p >= e)
  <2>1. Walkable(m, 1, e) /\ HeapEnd(m) = e
    BY <1>1, <1>3, BlocksAre
  <2> QED
    BY <1>2, <1>3, <2>1 DEF BlocksOf
<1>4. CASE phase \in {"mark", "unique"}
  <2>1. heap_free = e /\ ptr = 1 /\ (mem = before \/ mem = Marked(before))
    BY <1>4 DEF IInv, Compacting
  <2>2. DOMAIN mem = DOMAIN before /\ Laid(mem, BlocksOf(before), 1, e)
    BY <1>1, <2>1, MarkedFacts DEF Sound
  <2>3. BlocksOf(mem) = BlocksOf(before)
    BY <1>1, <2>2, BlocksAre
  <2>4. Walkable(mem, 1, e) /\ (ptr \in BlockAddrs(mem, 1, e) \/ ptr >= e)
    BY <1>2, <1>3, <2>1, <2>2, <2>3
  <2> QED
    BY <1>1, <1>2, <2>1, <2>2, <2>4 DEF TypeOK
<1>5. CASE phase \in {"cache", "sweep", "swept"}
  <2>1. heap_free = e /\ DOMAIN mem = DOMAIN before /\ Laid(mem, BlocksOf(mem), 1, e) /\ ptr \in BlocksOf(mem) \cup {e}
    BY <1>5 DEF IInv, Compacting, InCache, InSweep
  <2>2. Walkable(mem, 1, e) /\ (ptr \in BlockAddrs(mem, 1, e) \/ ptr >= e)
    BY <1>3, <2>1
  <2> QED
    BY <1>1, <1>2, <2>1, <2>2 DEF TypeOK
<1>6. CASE Compacting
  <2>1. Swept /\ CompactInv
    BY <1>6 DEF IInv
  <2>2. Ready /\ OldEnd = e /\ DOMAIN swept_mem = DOMAIN before
    BY <2>1, SweptReady DEF Swept, InSweep
  <2>3. DOMAIN mem = DOMAIN swept_mem
    BY <1>6, <2>1 DEF CompactInv, Compacting, InRoots, InPass1, InPass2At, Lists
  <2>4. CASE phase # "done"
    BY <1>1, <1>2, <1>6, <2>1, <2>2, <2>3, <2>4 DEF TypeOK, CompactInv, Compacting
  <2>5. CASE phase = "done"
    <3>1. ptr = e /\ heap_free = Target(OldEnd) /\ InPass2At(mem, OldEnd)
      BY <2>1, <2>2, <2>5 DEF CompactInv
    <3>2. heap_free \in 1 .. e
      BY <2>2, <3>1, TargetFacts
    <3>3. Laid(mem, NewBlocks, 1, heap_free)
      BY <2>2, <3>1, Compacted
    <3>4. heap_free \in Int /\ 1 \in Int /\ ptr >= heap_free
      BY <1>2, <3>1, <3>2
    <3>5. Walkable(mem, 1, heap_free)
      BY <3>3, <3>4, WalkMeets
    <3> QED
      BY <1>1, <2>2, <2>3, <2>5, <3>2, <3>4, <3>5 DEF TypeOK
  <2> QED
    BY <2>4, <2>5
<1> QED
  BY <1>1, <1>4, <1>5, <1>6 DEF Compacting

LEMMA InvFinalized == IInv => FinalizedOnlyDead
<1> SUFFICES ASSUME IInv
             PROVE  FinalizedOnlyDead
  OBVIOUS
<1>1. CASE phase \in {"mark", "unique", "cache"}
  <2>1. finalized = <<>>
    BY <1>1 DEF IInv
  <2> QED
    BY <2>1 DEF FinalizedOnlyDead
<1>2. CASE phase \notin {"mark", "unique", "cache"}
  <2>1. marked_mem = Marked(before) /\ \E p : Finals(p)
    BY <1>2 DEF IInv, Compacting
  <2> QED
    BY <2>1 DEF FinalizedOnlyDead, Finals
<1> QED
  BY <1>1, <1>2

LEMMA InvGraph == IInv => GraphPreserved
<1>1. Compacting => (IInv => GraphPreserved)
  BY GraphHolds DEF IInv
<1> QED
  BY <1>1 DEF GraphPreserved

\* Collected, with what it says of the memory before the collection as parameters.
CollectedAs(live, entries, kept, size) ==
  LET IsLive(w) == JS_IsPtr(w) /\ w.a \in live
      New(a)   == Slid(kept, size, a)
      At(w)    == IF JS_IsPtr(w) THEN Ptr(New(w.a)) ELSE w
      Weak(w)  == IF IsLive(w) THEN At(w) ELSE Imm
  IN /\ BlockAddrs(mem, 1, heap_free) = {New(a) : a \in kept}
     /\ heap_free = New(HeapEnd(before))
     /\ \A a \in kept \ {OldTable} : \A i \in 0 .. before[a].n - 1 :
          mem[New(a) + i] = IF i \in MarkSlots(before[a]) THEN At(before[a + i])
                            ELSE before[a + i]
     /\ \A l \in StrongOf(mem) : mem[l] = At(before[l])
     /\ \A l \in CacheLocs : mem[l] = Weak(before[l])
     /\ IF entries = <<>> THEN mem[TableLoc] = Imm
        ELSE /\ mem[TableLoc] = Ptr(New(OldTable))
             /\ Elements(mem, New(OldTable)) = [i \in DOMAIN entries |-> At(entries[i])]

LEMMA InvCollected == IInv => Collected
<1> SUFFICES ASSUME IInv, phase = "done"
             PROVE  Collected
  BY DEF Collected
<1> DEFINE s == before
           t == TableOf(before)
           K == Kept(before)
           E == KeptEntries(before)
           size == KeptSize(before)
<1>1. /\ Sound(s) /\ InSweep(swept_mem, HeapEnd(s), s, TRUE)
      /\ heap_free = Target(OldEnd) /\ InPass2At(mem, OldEnd)
  BY DEF IInv, Compacting, Swept, CompactInv
<1>2. /\ Ready /\ OldEnd = HeapEnd(s) /\ OldBlocks = K
      /\ \A a \in OldBlocks : swept_mem[a] = KeptHeader(s, a, FALSE)
  BY <1>1, SweptReady
<1>3. /\ DOMAIN swept_mem = DOMAIN s
      /\ \A l \in StrongOf(s) : swept_mem[l] = s[l]
      /\ swept_mem[TableLoc] = IF E = <<>> THEN Imm ELSE s[TableLoc]
      /\ \A l \in CacheLocs : swept_mem[l] = IF TRUE /\ ~IsLiveRef(s, s[l]) THEN Imm ELSE s[l]
  BY <1>1 DEF InSweep
<1>4. /\ DOMAIN mem = DOMAIN swept_mem
      /\ \A l \in ExtOf(swept_mem) : mem[l] = Fwd(swept_mem[l])
      /\ \A a \in OldBlocks : \A i \in 0 .. swept_mem[a].n - 1 : mem[Target(a) + i] = Now(a + i)
      /\ \A a \in OldBlocks : mem[Target(a)] = swept_mem[a]
      /\ Laid(mem, NewBlocks, 1, Target(OldEnd))
  BY <1>1, <1>2, Compacted
<1>5. \A a \in K : swept_mem[a].n = size[a]
  <2>1. \A a \in K : KeptHeader(s, a, FALSE).n = size[a]
    BY <1>1, KeptFacts
  <2> QED
    BY <1>2, <2>1
<1>6. \A a : Slid(K, size, a) = Target(a)
  <2>1. OldSize = size
    BY <1>2, <1>5 DEF OldSize, KeptSize
  <2> QED
    BY <1>2, <2>1 DEF Target
<1>7. BlockAddrs(mem, 1, heap_free) = {Target(a) : a \in K}
  <2>1. 1 \in Int /\ Target(OldEnd) \in Int
    <3>1. Target(OldEnd) \in 1 .. OldEnd /\ OldEnd \in Nat
      BY <1>2, TargetFacts, ReadyFacts
    <3> QED
      BY <3>1
  <2>2. BlockAddrs(mem, 1, Target(OldEnd)) = NewBlocks
    BY <1>4, <2>1, WalkMeets
  <2> QED
    BY <1>1, <1>2, <2>2 DEF NewBlocks
<1>8. ASSUME NEW a \in K \ {t}, NEW i \in 0 .. s[a].n - 1
      PROVE  mem[Target(a) + i] = IF i \in MarkSlots(s[a]) THEN Fwd(s[a + i]) ELSE s[a + i]
  <2>1. size[a] = s[a].n /\ KeptHeader(s, a, FALSE) = s[a] /\ a \in Reachable(s)
    BY <1>1, KeptFacts
  <2>2. mem[Target(a) + i] = Now(a + i) /\ i \in 0 .. size[a] - 1
    BY <1>2, <1>4, <1>5, <2>1
  <2>3. LET h == KeptHeader(s, a, FALSE) IN
        /\ i \in MarkSlots(h) => Now(a + i) = Fwd(KeptWord(s, a, i))
        /\ i \notin MarkSlots(h) => Now(a + i) = IF i = 0 THEN h ELSE KeptWord(s, a, i)
    BY <1>1, <2>2, KeptNow
  <2>4. KeptWord(s, a, i) = s[a + i]
    BY DEF KeptWord
  <2>5. i = 0 => s[a + i] = s[a]
    <3>1. a \in Int
      <4>1. a \in 1 .. OldEnd - 1
        BY <1>2, ReadyFacts
      <4> QED
        BY <4>1
    <3> QED
      BY <3>1
  <2> QED
    BY <2>1, <2>2, <2>3, <2>4, <2>5
<1>9. /\ StrongOf(mem) = StrongOf(s) /\ StrongOf(s) \subseteq ExtOf(swept_mem)
      /\ CacheLocs \cup {TableLoc} \subseteq ExtOf(swept_mem)
  <2>1. CacheLocs \cup {TableLoc} \subseteq DOMAIN s
    BY <1>1 DEF Sound
  <2>2. \A l \in CacheLocs \cup {TableLoc} : l < 0
    BY DEF CacheLocs, TableLoc
  <2>3. ExtOf(mem) = ExtOf(s) /\ ExtOf(swept_mem) = ExtOf(s)
    BY <1>3, <1>4 DEF ExtOf
  <2> QED
    BY <1>3, <2>1, <2>2, <2>3 DEF StrongOf, ExtOf
<1>10. \A l \in StrongOf(mem) : mem[l] = Fwd(s[l])
  BY <1>3, <1>4, <1>9
<1>11. Fwd(Imm) = Imm
  BY DEF Fwd, Imm, JS_IsPtr
<1>12. \A l \in CacheLocs : mem[l] = IF IsLiveRef(s, s[l]) THEN Fwd(s[l]) ELSE Imm
  BY <1>3, <1>4, <1>9, <1>11
<1>13. E = <<>> => mem[TableLoc] = Imm
  BY <1>3, <1>4, <1>9, <1>11
<1>14. ASSUME E # <<>>
       PROVE  /\ mem[TableLoc] = Ptr(Target(t))
              /\ Elements(mem, Target(t)) = [i \in DOMAIN E |-> Fwd(E[i])]
  <2>1. t # 0 /\ t \in K
    BY <1>1, <1>14, KeptFacts
  <2>2. size[t] = 1 + Len(E)
    BY <1>1, <2>1, KeptFacts
  <2>3. JS_IsPtr(s[TableLoc]) /\ s[TableLoc].a = t /\ s[t].mtag = "value_array"
    <3>1. TableOf(before) # 0 /\ Sound(before)
      BY <1>1, <2>1
    <3>2. /\ JS_IsPtr(before[TableLoc]) /\ before[TableLoc].a = TableOf(before)
          /\ before[TableOf(before)].mtag = "value_array"
      BY ONLY <3>1, TableFacts
    <3> QED
      BY <3>2
  <2>4. mem[TableLoc] = Ptr(Target(t))
    BY <1>3, <1>4, <1>9, <1>14, <2>3 DEF Fwd
  <2>5. Len(E) \in Nat /\ DOMAIN E = 1 .. Len(E)
    <3>1. TableOf(before) # 0 /\ Sound(before)
      BY <1>1, <2>1
    <3>2. LET r == TableOf(before)
              L == {i \in 1 .. before[r].n - 1 : IsLiveRef(before, before[r + i])}
          IN /\ Cardinality(L) \in 0 .. before[r].n - 1 /\ Len(KeptEntries(before)) = Cardinality(L)
             /\ KeptEntries(before) = [j \in 1 .. Cardinality(L) |-> before[r + Nth(L, j)]]
      BY ONLY <3>1, TableFacts
    <3> DEFINE c == Cardinality({i \in 1 .. before[t].n - 1 : IsLiveRef(before, before[t + i])})
    <3>3. Len(E) = c /\ DOMAIN E = 1 .. c /\ c \in 0 .. before[t].n - 1
      BY <3>2
    <3> HIDE DEF c, E
    <3> QED
      BY <3>3
  <2>6. mem[Target(t)].n - 1 = Len(E)
    <3> DEFINE c == Len(E)
               n == mem[Target(t)].n
    <3>1. n = 1 + c /\ c \in Nat
      BY <1>2, <1>4, <1>5, <2>1, <2>2, <2>5
    <3> HIDE DEF c, n
    <3>2. n - 1 = c
      BY <3>1
    <3> QED
      BY <3>2 DEF c, n
  <2>7. ASSUME NEW i \in 1 .. Len(E)
        PROVE  mem[Target(t) + i] = Fwd(E[i])
    <3> DEFINE c == Len(E)
               h == KeptHeader(s, t, FALSE)
    <3>1. i \in 0 .. size[t] - 1 /\ (1 + c) - 1 = c
      BY <2>2, <2>5
    <3>2. mem[Target(t) + i] = Now(t + i)
      BY <1>2, <1>4, <1>5, <2>1, <3>1
    <3>3. i \in MarkSlots(h) => Now(t + i) = Fwd(KeptWord(s, t, i))
      BY <1>1, <2>1, <3>1, KeptNow
    <3>4. h.mtag = "value_array" /\ h.n = 1 + c
      <4>1. h.mtag = s[t].mtag /\ h.n = size[t]
        <5> HIDE DEF c, E
        <5> QED
          BY <1>1, <2>1, KeptFacts, ZenonT(40)
      <4> QED
        BY <2>2, <2>3, <4>1
    <3> HIDE DEF c, h
    <3>5. MarkSlots(h) = 1 .. c
      BY <3>1, <3>4 DEF MarkSlots
    <3>6. KeptWord(s, t, i) = E[i]
      BY DEF KeptWord
    <3> QED
      BY <3>2, <3>3, <3>5, <3>6 DEF c
  <2>8. Elements(mem, Target(t)) = [i \in DOMAIN E |-> Fwd(E[i])]
    <3> HIDE DEF t, E
    <3> QED
      BY <2>5, <2>6, <2>7 DEF Elements
  <2> QED
    BY <2>4, <2>8
<1>15. OldTable = t /\ OldEntries = EntriesOf(before)
  BY DEF OldTable, OldEntries, TableOf, EntriesOf
<1>16. CollectedAs(Reachable(before), E, K, size)
  <2>1. \A w : Fwd(w) = IF JS_IsPtr(w) THEN Ptr(Slid(K, size, w.a)) ELSE w
    BY <1>6 DEF Fwd
  <2>2. \A w : IsLiveRef(before, w) <=> JS_IsPtr(w) /\ w.a \in Reachable(before)
    BY DEF IsLiveRef
  <2> HIDE DEF t, K, E, size
  <2>3. BlockAddrs(mem, 1, heap_free) = {Slid(K, size, a) : a \in K}
    BY <1>6, <1>7
  <2>4. heap_free = Slid(K, size, HeapEnd(before))
    BY <1>1, <1>2, <1>6
  <2>5. ASSUME NEW a \in K \ {OldTable}, NEW i \in 0 .. before[a].n - 1
        PROVE  mem[Slid(K, size, a) + i] =
                 IF i \in MarkSlots(before[a])
                 THEN (IF JS_IsPtr(before[a + i]) THEN Ptr(Slid(K, size, before[a + i].a)) ELSE before[a + i])
                 ELSE before[a + i]
    BY <1>6, <1>8, <1>15, <2>1
  <2>6. \A l \in StrongOf(mem) :
          mem[l] = IF JS_IsPtr(before[l]) THEN Ptr(Slid(K, size, before[l].a)) ELSE before[l]
    BY <1>10, <2>1
  <2>7. \A l \in CacheLocs :
          mem[l] = IF JS_IsPtr(before[l]) /\ before[l].a \in Reachable(before)
                   THEN (IF JS_IsPtr(before[l]) THEN Ptr(Slid(K, size, before[l].a)) ELSE before[l])
                   ELSE Imm
    BY <1>12, <2>1, <2>2
  <2>8. ASSUME E # <<>>
        PROVE  /\ mem[TableLoc] = Ptr(Slid(K, size, OldTable))
               /\ Elements(mem, Slid(K, size, OldTable)) =
                    [i \in DOMAIN E |-> IF JS_IsPtr(E[i]) THEN Ptr(Slid(K, size, E[i].a)) ELSE E[i]]
    <3>1. Slid(K, size, OldTable) = Target(t)
      BY <1>6, <1>15
    <3>2. \A i \in DOMAIN E : Fwd(E[i]) = IF JS_IsPtr(E[i]) THEN Ptr(Slid(K, size, E[i].a)) ELSE E[i]
      BY <2>1
    <3> QED
      BY <1>14, <2>8, <3>1, <3>2
  <2> QED
    BY <1>13, <2>3, <2>4, <2>5, <2>6, <2>7, <2>8 DEF CollectedAs
<1> DEFINE entries == Selected(OldEntries, {i \in DOMAIN OldEntries : JS_IsPtr(OldEntries[i]) /\ OldEntries[i].a \in Reachable(before)})
           kept == IF entries = <<>> THEN Reachable(before) ELSE Reachable(before) \cup {OldTable}
           sizes == [a \in kept |-> IF a = OldTable THEN 1 + Len(entries) ELSE before[a].n]
<1>17. entries = E
  BY <1>15 DEF KeptEntries, IsLiveRef
<1>18. kept = K
  <2> HIDE DEF entries, E
  <2>1. K = IF E = <<>> THEN Reachable(before) ELSE Reachable(before) \cup {t}
    BY DEF Kept, E
  <2> HIDE DEF K, t
  <2> QED
    BY <1>15, <1>17, <2>1
<1>19. sizes = size
  <2> HIDE DEF entries, kept, E
  <2>1. size = [a \in K |-> IF a = t THEN 1 + Len(E) ELSE before[a].n]
    BY DEF KeptSize, E
  <2> HIDE DEF K, t, size
  <2> QED
    BY <1>15, <1>17, <1>18, <2>1
<1>20. CollectedAs(Reachable(before), entries, kept, sizes)
  <2> HIDE DEF entries, kept, sizes, t, K, E, size
  <2> QED
    BY <1>16, <1>17, <1>18, <1>19
<1> QED
  BY ONLY <1>20, phase = "done" DEF CollectedAs, Collected
-----------------------------------------------------------------------------
(* The theorems.                                                           *)

\* The invariant of every collection.
THEOREM CollectionInvariant == Spec => []IInv
BY InitInv, StepKept, PTL DEF Spec

\* The heap stays walkable from header to header until its blocks are threaded,
\* and is again in the end; the program finds heap_free and the length of the
\* table of unique strings in bounds.
THEOREM HeapIsLaidOut == Spec => []TypeOK
BY CollectionInvariant, InvTypes, PTL

\* gc_mark_all never calls a user finalizer for an object that can still be
\* reached, for a block that is none, or twice.
THEOREM OnlyDeadFinalized == Spec => []FinalizedOnlyDead
BY CollectionInvariant, InvFinalized, PTL

\* gc_compact_heap: at every step every field of every block that is kept, and
\* every value outside of the heap, can be followed to the block it was to.
THEOREM NoReferenceLost == Spec => []GraphPreserved
BY CollectionInvariant, InvGraph, PTL

\* JS_GC2 from end to end: what can be reached and the table of unique strings
\* are all that is kept, at the addresses they slide to; every reference is to
\* the new place, dead weak ones are cleared, no other word is changed.
THEOREM CollectionIsExact == Spec => []Collected
BY CollectionInvariant, InvCollected, PTL
=============================================================================
