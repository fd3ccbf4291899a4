------------------------ MODULE UniqueStringsProofs ------------------------
(***************************************************************************)
(* The table of unique strings, for all strings and any number of blocks.  *)
(* What it holds are always the allocated unique strings.  It stays sorted *)
(* as long as no collection in js_is_numeric_string takes out of the table *)
(* a string before the place that was found: that is the only step of the  *)
(* program that may put a string in the wrong place.                       *)
(***************************************************************************)
EXTENDS UniqueStrings, Minimum, SequenceTheorems

\* The elements beyond the length of the table are not used.
Spare == \A i \in unique_strings_len + 1 .. Len(unique_strings) : unique_strings[i] = Undefined

TInv == StringsTypeOK /\ WeakTable /\ Spare

\* The table is sorted, and a string to be inserted has its place in that order.
Ascending ==
  \A i, j \in 1 .. unique_strings_len : i < j => text[unique_strings[i]] < text[unique_strings[j]]
RightPlace ==
  pc # "idle" =>
    /\ a \in 1 .. unique_strings_len + 1
    /\ \A i \in 1 .. a - 1 : text[unique_strings[i]] < text[val]
    /\ \A i \in a .. unique_strings_len : text[val] < text[unique_strings[i]]

SInv == TInv /\ Ascending /\ RightPlace

\* What the elements are.
LEMMA ElementFacts ==
  ASSUME ContentAssumption, TInv
  PROVE  /\ unique_strings_len \in Nat
         /\ \A i \in 1 .. unique_strings_len :
              unique_strings[i] \in is_unique /\ unique_strings[i] \in Str /\ text[unique_strings[i]] \in Content
         /\ \A s \in is_unique : s \in Str /\ text[s] \in Content /\ text[s] # Freed
         /\ \A s \in is_unique : \E i \in 1 .. unique_strings_len : unique_strings[i] = s
         /\ \A i \in DOMAIN unique_strings : unique_strings[i] # Undefined => i \in 1 .. unique_strings_len
<1> DEFINE us == unique_strings
           n == unique_strings_len
<1>1. us \in Seq(Str \cup {Undefined}) /\ n \in 0 .. Len(us) /\ Len(us) \in Nat /\ DOMAIN us = 1 .. Len(us)
  BY DEF TInv, StringsTypeOK
<1>2. /\ {us[i] : i \in 1 .. n} = is_unique
      /\ \A s \in is_unique : text[s] \in Content
      /\ \A i \in n + 1 .. Len(us) : us[i] = Undefined
  BY DEF TInv, WeakTable, Elements, Spare
<1>3. Freed \notin Content /\ Undefined \notin Str /\ is_unique \subseteq Str
  BY DEF ContentAssumption, TInv, StringsTypeOK
<1> HIDE DEF us, n
<1>4. \A i \in 1 .. n : us[i] \in is_unique /\ us[i] \in Str \cup {Undefined}
  BY <1>1, <1>2
<1> QED
  BY <1>1, <1>2, <1>3, <1>4 DEF us, n
-----------------------------------------------------------------------------
(* The search.                                                             *)

Places(n) == [a : 1 .. n + 1, b : 0 .. n]

\* find_atom takes as many turns as there are elements.
LEMMA SearchSteps ==
  ASSUME NEW c, NEW n \in Nat, n = unique_strings_len
  PROVE  \E f : /\ f \in [0 .. n -> Places(n)]
                /\ f[0] = [a |-> 1, b |-> n]
                /\ \A d \in 1 .. n : f[d] = Halved(f[d - 1], c)
                /\ find_atom(c) = Result(f[n])
<1> DEFINE g == [r \in Places(n) |-> Halved(r, c)]
           r0 == [a |-> 1, b |-> n]
<1>1. ASSUME NEW r \in Places(n)
      PROVE  Halved(r, c) \in Places(n)
  <2>1. r.a \in 1 .. n + 1 /\ r.b \in 0 .. n /\ r = [a |-> r.a, b |-> r.b]
    BY DEF Places
  <2> DEFINE m == Middle(r)
  <2>2. r.a <= r.b => m \in r.a .. r.b
    BY <2>1 DEF Middle
  <2> HIDE DEF m
  <2>3. r.a <= r.b => [a |-> r.a, b |-> m - 1] \in Places(n) /\ [a |-> m + 1, b |-> r.b] \in Places(n)
    BY <2>1, <2>2 DEF Places
  <2>4. [r EXCEPT !.b = m - 1] = [a |-> r.a, b |-> m - 1] /\ [r EXCEPT !.a = m + 1] = [a |-> m + 1, b |-> r.b]
    BY <2>1
  <2>5. Halved(r, c) = r \/ (r.a <= r.b /\ Halved(r, c) \in {[r EXCEPT !.b = m - 1], [r EXCEPT !.a = m + 1]})
    BY <2>1 DEF Halved, m
  <2> QED
    BY <2>3, <2>4, <2>5
<1>2. PICK f : Iterates(f, n, Places(n), r0, g)
  <2>1. g \in [Places(n) -> Places(n)] /\ r0 \in Places(n)
    BY <1>1 DEF Places
  <2> HIDE DEF g, r0
  <2> QED
    BY <2>1, RecursionExists
<1>3. /\ f \in [0 .. n -> Places(n)] /\ f[0] = r0
      /\ \A d \in 1 .. n : f[d] = Halved(f[d - 1], c)
  <2>1. f \in [0 .. n -> Places(n)] /\ f[0] = r0 /\ \A d \in 1 .. n : f[d] = g[f[d - 1]]
    BY <1>2 DEF Iterates
  <2>2. \A d \in 1 .. n : f[d - 1] \in Places(n)
    BY <2>1
  <2> QED
    BY <2>1, <2>2
<1> DEFINE Searches(p) == p = [d \in 0 .. n |-> IF d = 0 THEN r0 ELSE Halved(p[d - 1], c)]
           P == CHOOSE p : Searches(p)
<1>4. find_atom(c) = Result(P[n])
  BY DEF find_atom, Searched
<1> HIDE DEF r0
<1>5. Searches(f)
  BY <1>3
<1>6. Searches(P)
  BY <1>5
<1> HIDE DEF P
<1>7. P[0] = r0 /\ \A d \in 1 .. n : P[d] = Halved(P[d - 1], c)
  BY <1>6
<1>8. \A d \in 0 .. n : P[d] = f[d]
  <2> DEFINE Bad == {d \in 0 .. n : P[d] # f[d]}
  <2> SUFFICES ASSUME Bad # {}
               PROVE  FALSE
    OBVIOUS
  <2>1. PICK d \in Bad : \A e \in Bad : d <= e
    <3>1. Bad \in SUBSET Nat
      OBVIOUS
    <3> HIDE DEF Bad
    <3> QED
      BY <3>1, LeastExists
  <2>2. d \in 1 .. n /\ P[d] # f[d]
    BY <1>3, <1>7
  <2>3. d - 1 \in 0 .. n /\ d - 1 \notin Bad
    BY <2>1, <2>2
  <2>4. P[d - 1] = f[d - 1]
    BY <2>3
  <2> QED
    BY <1>3, <1>7, <2>2, <2>4
<1>9. find_atom(c) = Result(f[n])
  BY <1>4, <1>8
<1> QED
  BY <1>3, <1>9 DEF r0

\* What is found is an element, and the place where nothing was found is one.
LEMMA SearchType ==
  ASSUME NEW c, NEW n \in Nat, n = unique_strings_len
  PROVE  LET f == find_atom(c) IN
         /\ f.found \in BOOLEAN
         /\ f.found => f.idx \in 1 .. n
         /\ ~f.found => f.idx \in 1 .. n + 1
<1>1. PICK f : f \in [0 .. n -> Places(n)] /\ find_atom(c) = Result(f[n])
  <2>1. PICK f : /\ f \in [0 .. n -> Places(n)]
                 /\ f[0] = [a |-> 1, b |-> n]
                 /\ \A d \in 1 .. n : f[d] = Halved(f[d - 1], c)
                 /\ find_atom(c) = Result(f[n])
    BY SearchSteps
  <2> QED
    BY <2>1
<1> DEFINE r == f[n]
<1>0. r \in Places(n)
  BY <1>1
<1> HIDE DEF r
<1>2. r.a \in 1 .. n + 1 /\ r.b \in 0 .. n
  BY <1>0 DEF Places
<1>3. r.a <= r.b => Middle(r) \in 1 .. n
  BY <1>2 DEF Middle
<1>4. find_atom(c) = Result(r)
  BY <1>1 DEF r
<1>5. CASE r.a <= r.b
  <2>1. find_atom(c).found = TRUE /\ find_atom(c).idx = Middle(r)
    BY <1>4, <1>5 DEF Result
  <2> QED
    BY <1>3, <1>5, <2>1
<1>6. CASE ~(r.a <= r.b)
  <2>1. find_atom(c).found = FALSE /\ find_atom(c).idx = r.a
    BY <1>4, <1>6 DEF Result
  <2> QED
    BY <1>2, <2>1
<1> QED
  BY <1>5, <1>6

-----------------------------------------------------------------------------
(* What a collection and an insertion make of the table.                   *)

\* A collection keeps the elements that are live, in their order.
LEMMA CollectedFacts ==
  ASSUME ContentAssumption, TInv, Collected,
         NEW K, K = {i \in DOMAIN unique_strings : unique_strings[i] \in live}
  PROVE  /\ K \in SUBSET (1 .. unique_strings_len)
         /\ Cardinality(K) \in Nat /\ unique_strings_len' = Cardinality(K)
         /\ unique_strings' \in Seq(Str) /\ Len(unique_strings') = Cardinality(K)
         /\ \A j \in 1 .. Cardinality(K) : Nth(K, j) \in K /\ unique_strings'[j] = unique_strings[Nth(K, j)]
         /\ \A i \in K : \E j \in 1 .. Cardinality(K) : Nth(K, j) = i
         /\ \A i, j \in 1 .. Cardinality(K) : i < j <=> Nth(K, i) < Nth(K, j)
         /\ is_unique' = is_unique \cap live
         /\ \A s \in live : text'[s] = text[s]
<1> DEFINE c == Cardinality(K)
<1>1. K \in SUBSET (1 .. unique_strings_len) /\ unique_strings_len \in Nat
  <2>1. Undefined \notin Str /\ live \subseteq Str
    BY DEF ContentAssumption, TInv, StringsTypeOK
  <2>2. \A i \in K : i \in DOMAIN unique_strings /\ unique_strings[i] # Undefined
    BY <2>1
  <2> QED
    BY <2>2, ElementFacts
<1>2. /\ c \in Nat
      /\ \A j \in 1 .. c : Nth(K, j) \in K
      /\ \A i, j \in 1 .. c : i < j <=> Nth(K, i) < Nth(K, j)
      /\ \A i \in K : Rank(K, i) \in 1 .. c /\ Nth(K, Rank(K, i)) = i
  <2>1. c \in Nat /\ \A i \in K : Rank(K, i) \in 1 .. c
    BY ONLY <1>1, RankFacts
  <2>2. /\ \A j \in 1 .. c : Nth(K, j) \in K
        /\ \A i, j \in 1 .. c : i < j <=> Nth(K, i) < Nth(K, j)
        /\ \A i \in K : Nth(K, Rank(K, i)) = i
    BY ONLY <1>1, NthFacts
  <2> QED
    BY <2>1, <2>2
<1> HIDE DEF c
<1>3. unique_strings' = [j \in 1 .. c |-> unique_strings[Nth(K, j)]] /\ unique_strings_len' = Len(unique_strings')
  BY DEF Collected, c
<1>4. \A i \in K : unique_strings[i] \in Str
  BY <1>1, ElementFacts
<1>5. unique_strings' \in Seq(Str) /\ Len(unique_strings') = c
  BY <1>2, <1>3, <1>4
<1>6. is_unique' = is_unique \cap live /\ \A s \in live : text'[s] = text[s]
  <2>1. live \subseteq Str
    BY DEF TInv, StringsTypeOK
  <2> QED
    BY <2>1 DEF Collected
<1> QED
  BY <1>1, <1>2, <1>3, <1>5, <1>6 DEF c

\* What a collection leaves satisfies the invariant again.
LEMMA CollectedIsGood ==
  ASSUME ContentAssumption, TInv, Collected, live' = live, StringsTypeOK,
         pc' \in {"idle", "numeric", "insert"}, a' \in Nat \ {0},
         val' \in IF pc' = "idle" THEN {Undefined} ELSE live \ is_unique
  PROVE  TInv'
<1> DEFINE K == {i \in DOMAIN unique_strings : unique_strings[i] \in live}
           c == Cardinality(K)
<1>1. live \in SUBSET Str /\ is_unique \subseteq Str /\ text \in [Str -> Content \cup {Freed}]
  BY DEF StringsTypeOK
<1>2. /\ K \in SUBSET (1 .. unique_strings_len)
      /\ c \in Nat /\ unique_strings_len' = c
      /\ unique_strings' \in Seq(Str) /\ Len(unique_strings') = c
      /\ \A j \in 1 .. c : Nth(K, j) \in K /\ unique_strings'[j] = unique_strings[Nth(K, j)]
      /\ \A i \in K : \E j \in 1 .. c : Nth(K, j) = i
      /\ is_unique' = is_unique \cap live
      /\ \A s \in live : text'[s] = text[s]
  <2>1. K = {i \in DOMAIN unique_strings : unique_strings[i] \in live}
    OBVIOUS
  <2> HIDE DEF K
  <2> QED
    BY <1>1, <2>1, CollectedFacts
<1>3. \A i \in K : unique_strings[i] \in live
  OBVIOUS
<1>4. \A i \in 1 .. unique_strings_len : unique_strings[i] \in live => i \in K
  BY DEF StringsTypeOK
<1> HIDE DEF K, c
<1>5. Elements' = is_unique'
  <2>1. ASSUME NEW j \in 1 .. c
        PROVE  unique_strings'[j] \in is_unique \cap live
    BY <1>2, <1>3, ElementFacts
  <2>2. ASSUME NEW s \in is_unique \cap live
        PROVE  \E j \in 1 .. c : unique_strings'[j] = s
    <3>1. PICK i \in 1 .. unique_strings_len : unique_strings[i] = s
      BY ElementFacts
    <3>2. i \in K
      BY <1>4, <3>1
    <3> QED
      BY <1>2, <3>1, <3>2
  <2> QED
    BY <1>2, <2>1, <2>2 DEF Elements
<1>6. \A s \in is_unique' : text'[s] \in Content
  BY <1>2, ElementFacts
<1>7. Spare'
  BY <1>2 DEF Spare
<1>8. StringsTypeOK'
  <2>1. text' \in [Str -> Content \cup {Freed}]
    BY <1>1 DEF Collected
  <2>2. live' \subseteq {s \in Str : text'[s] # Freed}
    BY <1>2 DEF StringsTypeOK
  <2>3. unique_strings' \in Seq(Str \cup {Undefined}) /\ unique_strings_len' \in 0 .. Len(unique_strings')
    BY <1>2
  <2>4. is_unique' \subseteq Str /\ val' \in IF pc' = "idle" THEN {Undefined} ELSE live' \ is_unique'
    BY <1>1, <1>2
  <2> QED
    BY <2>1, <2>2, <2>3, <2>4 DEF StringsTypeOK
<1> QED
  BY <1>5, <1>6, <1>7, <1>8 DEF TInv, WeakTable

\* After the insertion the elements are the old ones and val, in its place.
LEMMA InsertedFacts ==
  ASSUME ContentAssumption, TInv, val \in Str, a \in 1 .. unique_strings_len + 1,
         NEW t, t = Inserted(Resized), NEW n, n = unique_strings_len
  PROVE  /\ n \in Nat /\ t \in Seq(Str \cup {Undefined}) /\ n + 1 \in 0 .. Len(t)
         /\ \A i \in 1 .. n + 1 :
              t[i] = IF i < a THEN unique_strings[i] ELSE IF i = a THEN val ELSE unique_strings[i - 1]
         /\ \A i \in n + 2 .. Len(t) : t[i] = Undefined
<1> DEFINE old == Len(unique_strings)
           r == Resized
           m == Len(r)
<1>1. /\ unique_strings \in Seq(Str \cup {Undefined}) /\ old \in Nat /\ n \in 0 .. old
      /\ \A i \in n + 1 .. old : unique_strings[i] = Undefined
      /\ \A i \in 1 .. old : unique_strings[i] \in Str \cup {Undefined}
  BY DEF TInv, StringsTypeOK, Spare
<1>2. /\ r \in Seq(Str \cup {Undefined}) /\ m \in Nat /\ n + 1 <= m
      /\ \A i \in 1 .. n : r[i] = unique_strings[i]
      /\ \A i \in n + 1 .. m : r[i] = Undefined
  <2>1. CASE n + 1 <= old
    BY <1>1, <2>1 DEF Resized
  <2>2. CASE ~(n + 1 <= old)
    <3> DEFINE k == Max2(n + 1, old + old \div 2)
    <3>1. k \in Nat /\ n + 1 <= k /\ n = old
      BY <1>1, <2>2 DEF Max2
    <3> HIDE DEF k
    <3>2. r = [i \in 1 .. k |-> IF i <= old THEN unique_strings[i] ELSE Undefined]
      BY <2>2 DEF Resized, k
    <3>3. r \in Seq(Str \cup {Undefined}) /\ m = k
      BY <1>1, <3>1, <3>2
    <3> QED
      BY <1>1, <3>1, <3>2, <3>3
  <2> QED
    BY <2>1, <2>2
<1> HIDE DEF r
<1>3. t = [i \in 1 .. m |->
             IF i < a THEN r[i] ELSE IF i = a THEN val ELSE IF i <= n + 1 THEN r[i - 1] ELSE r[i]]
  BY <1>2 DEF Inserted, r
<1>4. \A i \in 1 .. m : r[i] \in Str \cup {Undefined}
  BY <1>2
<1> HIDE DEF m
<1>5. \A i \in 1 .. m : t[i] \in Str \cup {Undefined}
  BY <1>1, <1>2, <1>3, <1>4
<1>6. t \in Seq(Str \cup {Undefined}) /\ Len(t) = m
  BY <1>2, <1>3, <1>5
<1>7. \A i \in 1 .. n + 1 :
        t[i] = IF i < a THEN unique_strings[i] ELSE IF i = a THEN val ELSE unique_strings[i - 1]
  BY <1>1, <1>2, <1>3
<1>8. \A i \in n + 2 .. m : t[i] = Undefined
  BY <1>1, <1>2, <1>3
<1>9. n \in Nat /\ n + 1 \in 0 .. Len(t)
  BY <1>1, <1>2, <1>6
<1> QED
  BY <1>6, <1>7, <1>8, <1>9
-----------------------------------------------------------------------------
(* The elements of the table are the allocated unique strings.             *)

LEMMA TInvInit ==
  ASSUME ContentAssumption, StringsInit
  PROVE  TInv
<1>1. unique_strings = <<>> /\ unique_strings_len = 0 /\ is_unique = {} /\ live = {}
  BY DEF StringsInit
<1>2. StringsTypeOK
  <2>1. text \in [Str -> Content \cup {Freed}] /\ pc = "idle" /\ val = Undefined /\ a = 1
    BY DEF StringsInit
  <2> QED
    BY <1>1, <2>1 DEF StringsTypeOK
<1>3. WeakTable /\ Spare
  BY <1>1 DEF WeakTable, Elements, Spare
<1> QED
  BY <1>2, <1>3 DEF TInv

\* A step that leaves the table and what it holds alone.
LEMMA TableUnchanged ==
  ASSUME ContentAssumption, TInv, StringsTypeOK',
         UNCHANGED <<is_unique, unique_strings, unique_strings_len>>,
         \A s \in is_unique : text'[s] = text[s]
  PROVE  TInv'
<1>1. WeakTable'
  BY DEF TInv, WeakTable, Elements
<1>2. Spare'
  BY DEF TInv, Spare
<1> QED
  BY <1>1, <1>2 DEF TInv

LEMMA NewStringKeeps ==
  ASSUME ContentAssumption, TInv, NEW s \in Str, NEW c \in Content, NewString(s, c)
  PROVE  TInv'
<1>1. text' = [text EXCEPT ![s] = c] /\ live' = live \cup {s} /\ text[s] = Freed
      /\ UNCHANGED <<is_unique, unique_strings, unique_strings_len, pc, val, a>> /\ pc = "idle"
  BY DEF NewString
<1>2. StringsTypeOK'
  <2>1. text' \in [Str -> Content \cup {Freed}] /\ c # Freed
    BY <1>1 DEF TInv, StringsTypeOK, ContentAssumption
  <2>2. live' \subseteq {u \in Str : text'[u] # Freed}
    BY <1>1, <2>1 DEF TInv, StringsTypeOK
  <2> QED
    BY <1>1, <2>1, <2>2 DEF TInv, StringsTypeOK
<1>3. \A u \in is_unique : text'[u] = text[u]
  BY <1>1, ElementFacts DEF TInv, StringsTypeOK
<1> QED
  BY <1>1, <1>2, <1>3, TableUnchanged

LEMMA LookupKeeps ==
  ASSUME ContentAssumption, TInv, NEW s \in Str, Lookup(s)
  PROVE  TInv'
<1> DEFINE f == find_atom(text[s])
<1>1. /\ pc = "idle" /\ s \in live \ is_unique
      /\ UNCHANGED <<text, is_unique, unique_strings, unique_strings_len>>
  BY DEF Lookup
<1>2. \/ f.found /\ live' = live \cup {unique_strings[f.idx]} /\ UNCHANGED <<pc, val, a>>
      \/ ~f.found /\ val' = s /\ a' = f.idx /\ pc' \in {"numeric", "insert"} /\ UNCHANGED live
  BY DEF Lookup
<1>3. unique_strings_len \in Nat
  BY ElementFacts
<1>4. (f.found => f.idx \in 1 .. unique_strings_len) /\ (~f.found => f.idx \in 1 .. unique_strings_len + 1)
  BY <1>3, SearchType
<1> HIDE DEF f
<1>5. StringsTypeOK'
  <2>1. CASE f.found
    <3>1. unique_strings[f.idx] \in Str /\ text[unique_strings[f.idx]] # Freed
      BY <1>4, <2>1, ElementFacts
    <3> QED
      BY <1>1, <1>2, <2>1, <3>1 DEF TInv, StringsTypeOK
  <2>2. CASE ~f.found
    <3>1. a' \in Nat \ {0} /\ val' \in live' \ is_unique' /\ pc' # "idle"
      BY <1>1, <1>2, <1>3, <1>4, <2>2
    <3> QED
      BY <1>1, <1>2, <2>2, <3>1 DEF TInv, StringsTypeOK
  <2> QED
    BY <2>1, <2>2
<1> QED
  BY <1>1, <1>5, TableUnchanged

LEMMA NumericCheckKeeps ==
  ASSUME ContentAssumption, TInv, NumericCheck
  PROVE  TInv'
<1>1. /\ pc' \in {"idle", "insert"} /\ a' \in Nat \ {0} /\ live' = live
      /\ val' \in IF pc' = "idle" THEN {Undefined} ELSE live \ is_unique
  BY DEF NumericCheck, Done, TInv, StringsTypeOK
<1>2. CASE Collected
  <2>1. StringsTypeOK
    BY DEF TInv
  <2> QED
    BY <1>1, <1>2, <2>1, CollectedIsGood
<1>3. CASE UNCHANGED <<text, is_unique, unique_strings, unique_strings_len>>
  <2>1. StringsTypeOK'
    BY <1>1, <1>3 DEF TInv, StringsTypeOK
  <2> QED
    BY <1>3, <2>1, TableUnchanged
<1> QED
  BY <1>2, <1>3 DEF NumericCheck

LEMMA InsertKeeps ==
  ASSUME ContentAssumption, TInv, Insert
  PROVE  TInv'
<1> DEFINE n == unique_strings_len
           kept == live \cup {unique_strings[i] : i \in 1 .. n}
           t == Inserted(Resized)
<1>1. /\ pc = "insert" /\ a <= n + 1
      /\ unique_strings' = t /\ unique_strings_len' = n + 1
      /\ \/ UNCHANGED text /\ is_unique' = is_unique \cup {val}
         \/ /\ text' = [s \in Str |-> IF s \in kept THEN text[s] ELSE Freed]
            /\ is_unique' = (is_unique \cap kept) \cup {val}
      /\ Done /\ UNCHANGED live
  BY DEF Insert
<1>2. /\ val \in live /\ live \subseteq {s \in Str : text[s] # Freed} /\ is_unique \subseteq Str
      /\ text \in [Str -> Content \cup {Freed}]
      /\ a \in Nat \ {0}
  BY <1>1 DEF TInv, StringsTypeOK
<1>3. n \in Nat /\ val \in Str /\ a \in 1 .. n + 1
  BY <1>1, <1>2, ElementFacts
<1>4. /\ t \in Seq(Str \cup {Undefined}) /\ n + 1 \in 0 .. Len(t)
      /\ \A i \in 1 .. n + 1 :
           t[i] = IF i < a THEN unique_strings[i] ELSE IF i = a THEN val ELSE unique_strings[i - 1]
      /\ \A i \in n + 2 .. Len(t) : t[i] = Undefined
  BY <1>3, InsertedFacts
<1>5. /\ \A i \in 1 .. n : unique_strings[i] \in is_unique
      /\ \A s \in is_unique : text[s] \in Content
      /\ \A s \in is_unique : \E i \in 1 .. n : unique_strings[i] = s
  BY ElementFacts
<1>6. is_unique \subseteq kept /\ live \subseteq kept
  BY <1>5
<1> HIDE DEF kept, t
<1>7. is_unique' = is_unique \cup {val} /\ \A s \in is_unique \cup live : text'[s] = text[s]
  BY <1>1, <1>2, <1>6
<1>8. Elements' = is_unique'
  <2>1. Elements' = {t[i] : i \in 1 .. n + 1}
    BY <1>1 DEF Elements
  <2>2. ASSUME NEW i \in 1 .. n + 1
        PROVE  t[i] \in is_unique \cup {val}
    <3>1. i < a => i \in 1 .. n
      BY <1>3
    <3>2. ~(i < a) /\ i # a => i - 1 \in 1 .. n
      BY <1>3
    <3> QED
      BY <1>4, <1>5, <3>1, <3>2
  <2>3. ASSUME NEW s \in is_unique
        PROVE  \E i \in 1 .. n + 1 : t[i] = s
    <3>1. PICK i \in 1 .. n : unique_strings[i] = s
      BY <1>5
    <3>2. CASE i < a
      <4>1. i \in 1 .. n + 1 /\ t[i] = s
        BY <1>3, <1>4, <3>1, <3>2
      <4> QED
        BY <4>1
    <3>3. CASE ~(i < a)
      <4>1. i + 1 \in 1 .. n + 1 /\ ~(i + 1 < a) /\ i + 1 # a /\ (i + 1) - 1 = i
        BY <1>3, <3>3
      <4>2. t[i + 1] = s
        BY <1>4, <3>1, <4>1
      <4> QED
        BY <4>1, <4>2
    <3> QED
      BY <3>2, <3>3
  <2>4. t[a] = val
    BY <1>3, <1>4
  <2> QED
    BY <1>3, <1>7, <2>1, <2>2, <2>3, <2>4
<1>9. WeakTable'
  <2>1. text[val] \in Content
    BY <1>2
  <2> QED
    BY <1>2, <1>5, <1>7, <1>8, <2>1 DEF WeakTable
<1>10. Spare'
  <2>1. unique_strings_len' + 1 = n + 2
    BY <1>1, <1>3
  <2> QED
    BY <1>1, <1>4, <2>1 DEF Spare
<1>11. StringsTypeOK'
  <2>1. text' \in [Str -> Content \cup {Freed}]
    BY <1>1, <1>2
  <2>2. is_unique' \subseteq Str /\ live' \subseteq {s \in Str : text'[s] # Freed}
    BY <1>1, <1>2, <1>7
  <2>3. pc' = "idle" /\ val' = Undefined /\ a' = 1
    BY <1>1 DEF Done
  <2>4. unique_strings' \in Seq(Str \cup {Undefined}) /\ unique_strings_len' \in 0 .. Len(unique_strings')
    BY <1>1, <1>4
  <2> QED
    BY <2>1, <2>2, <2>3, <2>4 DEF StringsTypeOK
<1> QED
  BY <1>9, <1>10, <1>11 DEF TInv

LEMMA InsertFailsKeeps ==
  ASSUME ContentAssumption, TInv, InsertFails
  PROVE  TInv'
<1> DEFINE kept == live \cup {unique_strings[i] : i \in 1 .. unique_strings_len}
<1>1. /\ text' = [s \in Str |-> IF s \in kept THEN text[s] ELSE Freed]
      /\ is_unique' = is_unique \cap kept
      /\ Done /\ UNCHANGED <<live, unique_strings, unique_strings_len>>
  BY DEF InsertFails
<1>2. is_unique \subseteq kept
  BY ElementFacts
<1>3. live \subseteq kept
  OBVIOUS
<1> HIDE DEF kept
<1>4. is_unique' = is_unique /\ \A s \in is_unique \cup live : text'[s] = text[s]
  BY <1>1, <1>2, <1>3 DEF TInv, StringsTypeOK
<1>5. StringsTypeOK'
  <2>1. text' \in [Str -> Content \cup {Freed}]
    BY <1>1 DEF TInv, StringsTypeOK
  <2>2. live' \subseteq {s \in Str : text'[s] # Freed}
    BY <1>1, <1>4 DEF TInv, StringsTypeOK
  <2>3. pc' = "idle" /\ val' = Undefined /\ a' = 1
    BY <1>1 DEF Done
  <2>4. /\ is_unique' \subseteq Str /\ unique_strings' \in Seq(Str \cup {Undefined})
        /\ unique_strings_len' \in 0 .. Len(unique_strings')
    BY <1>1, <1>4 DEF TInv, StringsTypeOK
  <2> QED
    BY <2>1, <2>2, <2>3, <2>4 DEF StringsTypeOK
<1> QED
  BY <1>1, <1>4, <1>5, TableUnchanged

LEMMA TInvStep ==
  ASSUME ContentAssumption, TInv, [StringsNext]_stringsVars
  PROVE  TInv'
<1>1. ASSUME NEW s \in Str, NEW c \in Content, NewString(s, c)
      PROVE  TInv'
  BY <1>1, NewStringKeeps
<1>2. ASSUME NEW s \in Str, Drop(s)
      PROVE  TInv'
  <2>1. /\ live' = live \ {s} /\ pc = "idle"
        /\ UNCHANGED <<text, is_unique, unique_strings, unique_strings_len, pc, val, a>>
    BY <1>2 DEF Drop
  <2>2. live' \subseteq {u \in Str : text'[u] # Freed} /\ val' = Undefined
    BY <2>1 DEF TInv, StringsTypeOK
  <2>3. StringsTypeOK'
    BY <2>1, <2>2 DEF TInv, StringsTypeOK
  <2> QED
    BY <2>1, <2>3, TableUnchanged
<1>3. CASE GC
  <2>1. /\ Collected /\ live' = live /\ StringsTypeOK /\ pc' = "idle" /\ a' \in Nat \ {0} /\ val' = Undefined
    BY <1>3 DEF GC, TInv, StringsTypeOK
  <2> QED
    BY <2>1, CollectedIsGood
<1>4. ASSUME NEW s \in Str, Lookup(s)
      PROVE  TInv'
  BY <1>4, LookupKeeps
<1>5. CASE NumericCheck
  BY <1>5, NumericCheckKeeps
<1>6. CASE Insert
  BY <1>6, InsertKeeps
<1>7. CASE InsertFails
  BY <1>7, InsertFailsKeeps
<1>8. CASE UNCHANGED stringsVars
  <2>1. UNCHANGED <<text, is_unique, live, unique_strings, unique_strings_len, pc, val, a>>
    BY <1>8 DEF stringsVars
  <2>2. StringsTypeOK'
    BY <2>1 DEF TInv, StringsTypeOK
  <2> QED
    BY <2>1, <2>2, TableUnchanged
<1> QED
  BY <1>1, <1>2, <1>3, <1>4, <1>5, <1>6, <1>7, <1>8 DEF StringsNext
-----------------------------------------------------------------------------
(* The table stays sorted.                                                 *)

\* A collection in js_is_numeric_string leaves in the table what is before the
\* place that was found.
PlaceStays == pc = "numeric" => \A i \in 1 .. a - 1 : unique_strings[i] \in is_unique'

\* In a sorted table the search finds c if it is there, else its place.
LEMMA SearchInOrder ==
  ASSUME ContentAssumption, TInv, Ascending, NEW c \in Content
  PROVE  LET f == find_atom(c) IN
         /\ f.found => f.idx \in 1 .. unique_strings_len /\ text[unique_strings[f.idx]] = c
         /\ ~f.found =>
              /\ f.idx \in 1 .. unique_strings_len + 1
              /\ \A i \in 1 .. f.idx - 1 : text[unique_strings[i]] < c
              /\ \A i \in f.idx .. unique_strings_len : c < text[unique_strings[i]]
<1> DEFINE n == unique_strings_len
           at == [i \in 1 .. n |-> text[unique_strings[i]]]
           Hit(r) == r.a <= r.b /\ at[Middle(r)] = c
           Inside(r) == /\ \A i \in 1 .. r.a - 1 : at[i] < c
                        /\ \A i \in r.b + 1 .. n : c < at[i]
<1>1. n \in Nat /\ c \in Nat /\ \A i \in 1 .. n : at[i] \in Nat
  BY ElementFacts DEF ContentAssumption
<1>2. /\ \A i, j \in 1 .. n : i < j => at[i] < at[j]
      /\ \A i \in 1 .. n : at[i] = text[unique_strings[i]]
  BY DEF Ascending
<1> HIDE DEF at
<1>3. PICK f : /\ f \in [0 .. n -> Places(n)]
               /\ f[0] = [a |-> 1, b |-> n]
               /\ \A d \in 1 .. n : f[d] = Halved(f[d - 1], c)
               /\ find_atom(c) = Result(f[n])
  BY <1>1, SearchSteps
<1>4. ASSUME NEW r \in Places(n)
      PROVE  /\ r.a \in 1 .. n + 1 /\ r.b \in 0 .. n /\ r = [a |-> r.a, b |-> r.b]
             /\ r.a <= r.b => Middle(r) \in r.a .. r.b
  <2>1. r.a \in 1 .. n + 1 /\ r.b \in 0 .. n /\ r = [a |-> r.a, b |-> r.b]
    BY DEF Places
  <2> QED
    BY <2>1 DEF Middle
\* One turn: c is found, or the range without c gets smaller.
<1>5. ASSUME NEW r \in Places(n), Inside(r), r.a <= r.b, ~Hit(r), NEW h, h = Halved(r, c), h \in Places(n)
      PROVE  Inside(h) /\ h.b - h.a < r.b - r.a
  <2> DEFINE m == Middle(r)
  <2>1. r.a \in 1 .. n + 1 /\ r.b \in 0 .. n /\ r = [a |-> r.a, b |-> r.b] /\ m \in r.a .. r.b
    BY <1>4, <1>5
  <2>2. m \in 1 .. n /\ at[m] # c /\ at[m] \in Nat /\ at[m] = text[unique_strings[m]]
    BY <1>1, <1>2, <1>5, <2>1
  <2>3. h = IF c < at[m] THEN [r EXCEPT !.b = m - 1] ELSE [r EXCEPT !.a = m + 1]
    BY <1>5, <2>1, <2>2 DEF Halved
  <2> HIDE DEF m
  <2>4. CASE c < at[m]
    <3>1. h = [a |-> r.a, b |-> m - 1]
      BY <2>1, <2>3, <2>4
    <3>2. h.a = r.a /\ h.b = m - 1
      BY <3>1
    <3>3. \A i \in m .. n : c < at[i]
      BY <1>1, <1>2, <2>2, <2>4
    <3> QED
      BY <1>5, <2>1, <2>2, <3>2, <3>3
  <2>5. CASE ~(c < at[m])
    <3>1. h = [a |-> m + 1, b |-> r.b]
      BY <2>1, <2>3, <2>5
    <3>2. h.a = m + 1 /\ h.b = r.b
      BY <3>1
    <3>3. at[m] < c
      BY <1>1, <2>2, <2>5
    <3>4. \A i \in 1 .. m : at[i] < c
      BY <1>1, <1>2, <2>2, <3>3
    <3> QED
      BY <1>5, <2>1, <2>2, <3>2, <3>4
  <2> QED
    BY <2>4, <2>5
\* After d turns c is found, or no more than n - d places are left.
<1> DEFINE Ok(d) == Hit(f[d]) \/ (Inside(f[d]) /\ f[d].b - f[d].a < n - d)
<1>6. Ok(0)
  <2>1. f[0].a = 1 /\ f[0].b = n
    BY <1>3
  <2> QED
    BY <1>1, <2>1
<1>7. ASSUME NEW d \in 1 .. n, Ok(d - 1)
      PROVE  Ok(d)
  <2>0. d \in 1 .. n /\ d - 1 \in 0 .. n /\ d \in 0 .. n
    BY <1>1
  <2>1. f[d - 1] \in Places(n) /\ f[d] \in Places(n) /\ f[d] = Halved(f[d - 1], c)
    BY <1>3, <2>0
  <2> DEFINE r == f[d - 1]
             h == f[d]
  <2>2. r \in Places(n) /\ h \in Places(n) /\ h = Halved(r, c) /\ (Hit(r) \/ (Inside(r) /\ r.b - r.a < n - (d - 1)))
    BY <1>7, <2>1
  <2> HIDE DEF r, h
  <2>3. r.a \in 1 .. n + 1 /\ r.b \in 0 .. n /\ (r.a <= r.b => Middle(r) \in r.a .. r.b)
    BY <1>4, <2>2
  <2>4. h.a \in 1 .. n + 1 /\ h.b \in 0 .. n
    BY <1>4, <2>2
  <2>5. CASE Hit(r)
    <3>1. Middle(r) \in 1 .. n /\ text[unique_strings[Middle(r)]] = c
      BY <1>1, <1>2, <2>3, <2>5
    <3>2. h = r
      BY <2>2, <3>1 DEF Halved
    <3> QED
      BY <2>5, <3>2 DEF h
  <2>6. CASE ~Hit(r) /\ ~(r.a <= r.b)
    <3>1. h = r
      BY <2>2, <2>3, <2>6 DEF Halved
    <3>2. Inside(r)
      BY <2>2, <2>6
    <3>3. r.b - r.a < n - d
      BY <1>1, <2>0, <2>3, <2>6
    <3> QED
      BY <3>1, <3>2, <3>3 DEF h
  <2>7. CASE ~Hit(r) /\ r.a <= r.b
    <3>1. Inside(r) /\ r.b - r.a < n - (d - 1)
      BY <2>2, <2>7
    <3>2. Inside(h) /\ h.b - h.a < r.b - r.a
      <4> HIDE DEF Inside, Hit
      <4> QED
        BY <1>5, <2>2, <2>7, <3>1
    <3>3. h.b - h.a < n - d
      BY <1>1, <2>0, <2>3, <2>4, <3>1, <3>2
    <3> QED
      BY <3>2, <3>3 DEF h
  <2> QED
    BY <2>5, <2>6, <2>7
<1>8. Ok(n)
  <2> HIDE DEF Ok
  <2> DEFINE Bad == {d \in 0 .. n : ~Ok(d)}
  <2>1. Bad = {}
    <3> SUFFICES ASSUME Bad # {}
                 PROVE  FALSE
      OBVIOUS
    <3>1. PICK d \in Bad : \A e \in Bad : d <= e
      <4>1. Bad \in SUBSET Nat
        OBVIOUS
      <4> HIDE DEF Bad
      <4> QED
        BY <4>1, LeastExists
    <3>2. d \in 1 .. n /\ ~Ok(d)
      BY <1>6
    <3>3. d - 1 \in 0 .. n /\ ~(d <= d - 1)
      BY <1>1, <3>2
    <3>4. d - 1 \notin Bad
      BY <3>1, <3>3
    <3>5. Ok(d - 1)
      BY <3>3, <3>4
    <3> QED
      BY <1>7, <3>2, <3>5
  <2> QED
    BY <1>1, <2>1
<1> DEFINE r == f[n]
<1>9. r \in Places(n) /\ find_atom(c) = Result(r) /\ (Hit(r) \/ (Inside(r) /\ r.b - r.a < n - n))
  BY <1>1, <1>3, <1>8
<1> HIDE DEF r
<1>10. r.a \in 1 .. n + 1 /\ r.b \in 0 .. n /\ (r.a <= r.b => Middle(r) \in 1 .. n)
  <2>1. r.a \in 1 .. n + 1 /\ r.b \in 0 .. n /\ (r.a <= r.b => Middle(r) \in r.a .. r.b)
    BY <1>4, <1>9
  <2> QED
    BY <1>1, <2>1
<1>11. CASE r.a <= r.b
  <2>1. Hit(r)
    BY <1>1, <1>9, <1>10, <1>11
  <2>2. find_atom(c).found = TRUE /\ find_atom(c).idx = Middle(r)
    BY <1>9, <1>11 DEF Result
  <2>3. Middle(r) \in 1 .. n /\ text[unique_strings[Middle(r)]] = c
    BY <1>2, <1>10, <1>11, <2>1
  <2> QED
    BY <2>2, <2>3
<1>12. CASE ~(r.a <= r.b)
  <2>1. Inside(r)
    BY <1>9, <1>12
  <2>2. find_atom(c).found = FALSE /\ find_atom(c).idx = r.a
    BY <1>9, <1>12 DEF Result
  <2>3. \A i \in 1 .. r.a - 1 : text[unique_strings[i]] < c
    BY <1>1, <1>2, <1>10, <2>1
  <2>4. \A i \in r.a .. n : c < text[unique_strings[i]]
    BY <1>1, <1>2, <1>10, <1>12, <2>1
  <2> QED
    BY <1>10, <2>2, <2>3, <2>4
<1> QED
  BY <1>11, <1>12
\* A step that leaves the table and what it holds alone.
LEMMA OrderUnchanged ==
  ASSUME ContentAssumption, TInv, Ascending,
         UNCHANGED <<unique_strings, unique_strings_len>>,
         \A s \in is_unique : text'[s] = text[s]
  PROVE  Ascending'
<1>1. \A i \in 1 .. unique_strings_len : text'[unique_strings[i]] = text[unique_strings[i]]
  BY ElementFacts
<1> QED
  BY <1>1 DEF Ascending

\* A collection leaves the table sorted, and the place right if what is before
\* it stays.
LEMMA CollectedInOrder ==
  ASSUME ContentAssumption, TInv, Ascending, Collected
  PROVE  /\ Ascending'
         /\ RightPlace /\ pc = "numeric" /\ PlaceStays /\ val' = val /\ a' = a => RightPlace'
<1> DEFINE K == {i \in DOMAIN unique_strings : unique_strings[i] \in live}
           c == Cardinality(K)
<1>1. /\ K \in SUBSET (1 .. unique_strings_len)
      /\ c \in Nat /\ unique_strings_len' = c
      /\ \A j \in 1 .. c : Nth(K, j) \in K /\ unique_strings'[j] = unique_strings[Nth(K, j)]
      /\ \A i, j \in 1 .. c : i < j <=> Nth(K, i) < Nth(K, j)
      /\ is_unique' = is_unique \cap live
      /\ \A s \in live : text'[s] = text[s]
  <2>1. K = {i \in DOMAIN unique_strings : unique_strings[i] \in live}
    OBVIOUS
  <2> HIDE DEF K
  <2> QED
    BY <2>1, CollectedFacts
<1>2. \A i \in K : unique_strings[i] \in live
  OBVIOUS
<1>3. \A i \in 1 .. unique_strings_len : unique_strings[i] \in live => i \in K
  BY DEF TInv, StringsTypeOK
<1> HIDE DEF K, c
<1>4. \A j \in 1 .. c : /\ Nth(K, j) \in 1 .. unique_strings_len
                        /\ text'[unique_strings'[j]] = text[unique_strings[Nth(K, j)]]
  BY <1>1, <1>2
<1>5. Ascending'
  BY <1>1, <1>4 DEF Ascending
<1>6. ASSUME RightPlace, pc = "numeric", PlaceStays, val' = val, a' = a
      PROVE  RightPlace'
  <2>1. /\ a \in 1 .. unique_strings_len + 1 /\ unique_strings_len \in Nat
        /\ \A i \in 1 .. a - 1 : text[unique_strings[i]] < text[val]
        /\ \A i \in a .. unique_strings_len : text[val] < text[unique_strings[i]]
        /\ \A i \in 1 .. a - 1 : unique_strings[i] \in live
        /\ val \in live
    BY <1>1, <1>6, ElementFacts DEF RightPlace, PlaceStays, TInv, StringsTypeOK
  <2> DEFINE m == a - 1
  <2>2. m \in Nat /\ 1 .. m \subseteq K
    BY <1>3, <2>1
  <2>3. /\ m <= c
        /\ \A j \in 1 .. m : Nth(K, j) = j
        /\ \A j \in m + 1 .. c : Nth(K, j) > m
    <3> HIDE DEF m
    <3> QED
      BY <1>1, <2>1, <2>2, NthOfFirst DEF c
  <2>4. text'[val'] = text[val]
    BY <1>1, <1>6, <2>1
  <2>5. a' \in 1 .. unique_strings_len' + 1
    BY <1>1, <1>6, <2>1, <2>3
  <2>6. ASSUME NEW j \in 1 .. a' - 1
        PROVE  text'[unique_strings'[j]] < text'[val']
    <3>1. j \in 1 .. m /\ j \in 1 .. c /\ Nth(K, j) = j
      BY <1>1, <1>6, <2>1, <2>3
    <3> QED
      BY <1>4, <2>1, <2>4, <3>1
  <2>7. ASSUME NEW j \in a' .. unique_strings_len'
        PROVE  text'[val'] < text'[unique_strings'[j]]
    <3>1. j \in m + 1 .. c /\ j \in 1 .. c
      BY <1>1, <1>6, <2>1
    <3>2. Nth(K, j) \in a .. unique_strings_len
      BY <1>4, <2>1, <2>3, <3>1
    <3> QED
      BY <1>4, <2>1, <2>4, <3>1, <3>2
  <2> QED
    BY <2>5, <2>6, <2>7 DEF RightPlace
<1> QED
  BY <1>5, <1>6

LEMMA LookupInOrder ==
  ASSUME ContentAssumption, SInv, NEW s \in Str, Lookup(s)
  PROVE  RightPlace'
<1> DEFINE f == find_atom(text[s])
<1>1. /\ pc = "idle" /\ s \in live
      /\ UNCHANGED <<text, unique_strings, unique_strings_len>>
      /\ \/ f.found /\ pc' = pc
         \/ ~f.found /\ val' = s /\ a' = f.idx
  BY DEF Lookup
<1>2. text[s] \in Content /\ TInv /\ Ascending
  BY <1>1 DEF SInv, TInv, StringsTypeOK
<1>3. ~f.found =>
        /\ f.idx \in 1 .. unique_strings_len + 1
        /\ \A i \in 1 .. f.idx - 1 : text[unique_strings[i]] < text[s]
        /\ \A i \in f.idx .. unique_strings_len : text[s] < text[unique_strings[i]]
  BY <1>2, SearchInOrder
<1> HIDE DEF f
<1> QED
  BY <1>1, <1>3 DEF RightPlace

LEMMA InsertInOrder ==
  ASSUME ContentAssumption, SInv, Insert
  PROVE  Ascending'
<1> DEFINE n == unique_strings_len
           t == Inserted(Resized)
<1>1. /\ TInv /\ pc = "insert" /\ unique_strings' = t /\ unique_strings_len' = n + 1
  BY DEF Insert, SInv
<1>2. /\ a \in 1 .. n + 1
      /\ \A i \in 1 .. a - 1 : text[unique_strings[i]] < text[val]
      /\ \A i \in a .. n : text[val] < text[unique_strings[i]]
      /\ \A i, j \in 1 .. n : i < j => text[unique_strings[i]] < text[unique_strings[j]]
  BY <1>1 DEF SInv, RightPlace, Ascending
<1>3. /\ n \in Nat /\ val \in Str /\ val \in live
      /\ \A i \in 1 .. n : unique_strings[i] \in is_unique /\ unique_strings[i] \in Str
  BY <1>1, ElementFacts DEF TInv, StringsTypeOK
<1>4. \A i \in 1 .. n + 1 :
        t[i] = IF i < a THEN unique_strings[i] ELSE IF i = a THEN val ELSE unique_strings[i - 1]
  BY <1>1, <1>2, <1>3, InsertedFacts
<1>5. text'[val] = text[val] /\ \A i \in 1 .. n : text'[unique_strings[i]] = text[unique_strings[i]]
  <2> DEFINE kept == live \cup {unique_strings[i] : i \in 1 .. n}
  <2>1. text' = text \/ text' = [s \in Str |-> IF s \in kept THEN text[s] ELSE Freed]
    BY DEF Insert
  <2>2. val \in kept /\ \A i \in 1 .. n : unique_strings[i] \in kept
    BY <1>3
  <2> HIDE DEF kept
  <2> QED
    BY <1>3, <2>1, <2>2
<1> HIDE DEF t
<1>6. \A i \in 1 .. n + 1 :
        text'[t[i]] = IF i < a THEN text[unique_strings[i]]
                      ELSE IF i = a THEN text[val] ELSE text[unique_strings[i - 1]]
  <2> TAKE i \in 1 .. n + 1
  <2>1. CASE i < a
    BY <1>2, <1>3, <1>4, <1>5, <2>1
  <2>2. CASE i = a
    BY <1>4, <1>5, <2>2
  <2>3. CASE i > a
    <3>1. i - 1 \in 1 .. n /\ ~(i < a) /\ i # a
      BY <1>2, <1>3, <2>3
    <3> QED
      BY <1>4, <1>5, <3>1
  <2> QED
    BY <1>2, <2>1, <2>2, <2>3
<1>7. ASSUME NEW i \in 1 .. n + 1, NEW j \in 1 .. n + 1, i < j
      PROVE  text'[t[i]] < text'[t[j]]
  <2>1. i \in Int /\ j \in Int /\ a \in Int
    BY <1>2
  <2>2. CASE j < a
    <3>1. i < a /\ i \in 1 .. n /\ j \in 1 .. n
      BY <1>2, <1>3, <1>7, <2>2
    <3> QED
      BY <1>2, <1>6, <1>7, <2>2, <3>1
  <2>3. CASE j = a
    <3>1. i < a /\ i \in 1 .. a - 1
      BY <1>2, <1>7, <2>3
    <3> QED
      BY <1>2, <1>6, <2>3, <3>1
  <2>4. CASE j > a
    <3>1. j - 1 \in a .. n /\ j - 1 \in 1 .. n /\ ~(j < a) /\ j # a
      BY <1>2, <1>3, <2>4
    <3>2. text'[t[j]] = text[unique_strings[j - 1]]
      BY <1>6, <3>1
    <3>3. CASE i < a
      <4>1. i \in 1 .. n /\ i < j - 1
        BY <1>2, <1>3, <2>4, <3>3
      <4> QED
        BY <1>2, <1>6, <3>1, <3>2, <3>3, <4>1
    <3>4. CASE i = a
      BY <1>2, <1>6, <3>1, <3>2, <3>4
    <3>5. CASE i > a
      <4>1. i - 1 \in 1 .. n /\ i - 1 < j - 1 /\ ~(i < a) /\ i # a
        BY <1>2, <1>3, <1>7, <3>5
      <4> QED
        BY <1>2, <1>6, <3>1, <3>2, <4>1
    <3> QED
      BY <2>1, <3>3, <3>4, <3>5
  <2> QED
    BY <2>1, <2>2, <2>3, <2>4
<1> QED
  BY <1>1, <1>7 DEF Ascending
LEMMA SInvStep ==
  ASSUME ContentAssumption, SInv, [StringsNext]_stringsVars, PlaceStays
  PROVE  SInv'
<1>0. TInv /\ TInv' /\ Ascending /\ RightPlace
  BY TInvStep DEF SInv
<1> SUFFICES Ascending' /\ RightPlace'
  BY <1>0 DEF SInv
<1>1. ASSUME NEW s \in Str, NEW c \in Content, NewString(s, c)
      PROVE  Ascending' /\ RightPlace'
  <2>1. /\ text' = [text EXCEPT ![s] = c] /\ text[s] = Freed /\ pc' = "idle"
        /\ UNCHANGED <<unique_strings, unique_strings_len>>
    BY <1>1 DEF NewString
  <2>2. \A u \in is_unique : text'[u] = text[u]
    BY <1>0, <2>1, ElementFacts DEF TInv, StringsTypeOK
  <2> QED
    BY <1>0, <2>1, <2>2, OrderUnchanged DEF RightPlace
<1>2. ASSUME NEW s \in Str, Drop(s)
      PROVE  Ascending' /\ RightPlace'
  <2>1. pc' = "idle" /\ UNCHANGED <<text, unique_strings, unique_strings_len>>
    BY <1>2 DEF Drop
  <2> QED
    BY <1>0, <2>1, OrderUnchanged DEF RightPlace
<1>3. CASE GC
  <2>1. Collected /\ pc' = "idle"
    BY <1>3 DEF GC
  <2> QED
    BY <1>0, <2>1, CollectedInOrder DEF RightPlace
<1>4. ASSUME NEW s \in Str, Lookup(s)
      PROVE  Ascending' /\ RightPlace'
  <2>1. UNCHANGED <<text, unique_strings, unique_strings_len>>
    BY <1>4 DEF Lookup
  <2> QED
    BY <1>0, <1>4, <2>1, OrderUnchanged, LookupInOrder
<1>5. CASE NumericCheck
  <2>1. pc = "numeric" /\ (pc' = "idle" \/ (pc' = "insert" /\ val' = val /\ a' = a))
    BY <1>5 DEF NumericCheck, Done
  <2>2. CASE Collected
    <3>1. Ascending' /\ (val' = val /\ a' = a => RightPlace')
      BY <1>0, <2>1, <2>2, CollectedInOrder
    <3> QED
      BY <2>1, <3>1 DEF RightPlace
  <2>3. CASE UNCHANGED <<text, is_unique, unique_strings, unique_strings_len>>
    <3>1. Ascending'
      BY <1>0, <2>3, OrderUnchanged
    <3>2. RightPlace'
      BY <1>0, <2>1, <2>3 DEF RightPlace
    <3> QED
      BY <3>1, <3>2
  <2> QED
    BY <1>5, <2>2, <2>3 DEF NumericCheck
<1>6. CASE Insert
  <2>1. pc' = "idle"
    BY <1>6 DEF Insert, Done
  <2> QED
    BY <1>6, <2>1, InsertInOrder DEF RightPlace
<1>7. CASE InsertFails
  <2> DEFINE kept == live \cup {unique_strings[i] : i \in 1 .. unique_strings_len}
  <2>1. /\ text' = [s \in Str |-> IF s \in kept THEN text[s] ELSE Freed]
        /\ pc' = "idle" /\ UNCHANGED <<unique_strings, unique_strings_len>>
    BY <1>7 DEF InsertFails, Done
  <2>2. \A s \in is_unique : s \in kept /\ s \in Str
    BY <1>0, ElementFacts
  <2> HIDE DEF kept
  <2>3. \A s \in is_unique : text'[s] = text[s]
    BY <2>1, <2>2
  <2> QED
    BY <1>0, <2>1, <2>3, OrderUnchanged DEF RightPlace
<1>8. CASE UNCHANGED stringsVars
  <2>1. UNCHANGED <<text, is_unique, live, unique_strings, unique_strings_len, pc, val, a>>
    BY <1>8 DEF stringsVars
  <2>2. RightPlace'
    BY <1>0, <2>1 DEF RightPlace
  <2> QED
    BY <1>0, <2>1, <2>2, OrderUnchanged
<1> QED
  BY <1>1, <1>2, <1>3, <1>4, <1>5, <1>6, <1>7, <1>8 DEF StringsNext

-----------------------------------------------------------------------------
(* The theorems.                                                           *)

\* Whatever collections and failing allocations there are, and where the string
\* goes: the types hold.  JS_MakeUniqueString never works on a freed string.
THEOREM TypesAreKept ==
  ASSUME ContentAssumption
  PROVE  StringsSpec => []StringsTypeOK
<1>1. TInv => StringsTypeOK
  BY DEF TInv
<1> QED
  BY <1>1, TInvInit, TInvStep, PTL DEF StringsSpec

\* The elements of the table are always the allocated unique strings: a
\* collection leaves no freed string in the table, and no string is marked as
\* unique that is not in it.
THEOREM TableIsWeak ==
  ASSUME ContentAssumption
  PROVE  StringsSpec => []WeakTable
<1>1. TInv => WeakTable
  BY DEF TInv
<1> QED
  BY <1>1, TInvInit, TInvStep, PTL DEF StringsSpec

\* The invariant of the behaviours in which no collection in js_is_numeric_string
\* moves the place that was found.
LEMMA OrderIsKept ==
  ASSUME ContentAssumption
  PROVE  StringsSpec /\ [][PlaceStays]_stringsVars => []SInv
<1>1. StringsInit => SInv
  <2> SUFFICES ASSUME StringsInit
               PROVE  SInv
    OBVIOUS
  <2>1. TInv
    BY TInvInit
  <2>2. Ascending /\ RightPlace
    BY DEF StringsInit, Ascending, RightPlace
  <2> QED
    BY <2>1, <2>2 DEF SInv
<1>2. SInv /\ [StringsNext]_stringsVars /\ [PlaceStays]_stringsVars => SInv'
  <2> SUFFICES ASSUME SInv, [StringsNext]_stringsVars, [PlaceStays]_stringsVars
               PROVE  SInv'
    OBVIOUS
  <2>1. CASE PlaceStays
    BY <2>1, SInvStep
  <2>2. CASE UNCHANGED stringsVars
    <3>1. UNCHANGED <<is_unique, unique_strings, unique_strings_len, pc, a>>
      BY <2>2 DEF stringsVars
    <3>2. PlaceStays
      <4> SUFFICES ASSUME pc = "numeric", NEW i \in 1 .. a - 1
                   PROVE  unique_strings[i] \in is_unique'
        BY DEF PlaceStays
      <4>1. i \in 1 .. unique_strings_len
        BY ElementFacts DEF SInv, RightPlace
      <4> QED
        BY <3>1, <4>1, ElementFacts DEF SInv
    <3> QED
      BY <3>2, SInvStep
  <2> QED
    BY <2>1, <2>2
<1> QED
  BY <1>1, <1>2, PTL DEF StringsSpec

\* "JSValueArray of sorted strings" is true as long as no collection in
\* js_is_numeric_string takes out of the table a string before the place found.
\* Without that it is not: a run shows how.
THEOREM TableStaysSorted ==
  ASSUME ContentAssumption
  PROVE  StringsSpec /\ [][PlaceStays]_stringsVars => []TableSorted
<1>1. SInv => TableSorted
  <2> SUFFICES ASSUME SInv, NEW i \in 1 .. unique_strings_len - 1
               PROVE  text[unique_strings[i]] < text[unique_strings[i + 1]]
    BY DEF TableSorted
  <2>1. unique_strings_len \in Nat
    BY ElementFacts DEF SInv
  <2>2. i \in 1 .. unique_strings_len /\ i + 1 \in 1 .. unique_strings_len /\ i < i + 1
    BY <2>1
  <2> QED
    BY <2>2 DEF SInv, Ascending
<1> QED
  BY <1>1, OrderIsKept, PTL

\* In the same behaviours equal strings have one unique string, which the binary
\* search finds: keys may be compared by pointer.
THEOREM StringsAreCanonical ==
  ASSUME ContentAssumption
  PROVE  StringsSpec /\ [][PlaceStays]_stringsVars => []Canonical
<1>1. ASSUME SInv
      PROVE  Canonical
  <2>1. TInv /\ Ascending /\ unique_strings_len \in Nat
    BY <1>1, ElementFacts DEF SInv
  <2>2. \A i, j \in 1 .. unique_strings_len :
          text[unique_strings[i]] = text[unique_strings[j]] => i = j
    <3> TAKE i, j \in 1 .. unique_strings_len
    <3>0. i \in Int /\ j \in Int /\ Content \subseteq Nat
      BY <2>1 DEF ContentAssumption
    <3>1. text[unique_strings[i]] \in Nat /\ text[unique_strings[j]] \in Nat /\ i \in Int /\ j \in Int
      BY <2>1, <3>0, ElementFacts
    <3>2. (i < j => text[unique_strings[i]] < text[unique_strings[j]])
          /\ (j < i => text[unique_strings[j]] < text[unique_strings[i]])
      BY <2>1 DEF Ascending
    <3> QED
      BY <3>1, <3>2
  <2>3. ASSUME NEW s \in is_unique, NEW t \in is_unique, text[s] = text[t]
        PROVE  s = t
    <3>1. PICK i \in 1 .. unique_strings_len : unique_strings[i] = s
      BY <2>1, ElementFacts
    <3>2. PICK j \in 1 .. unique_strings_len : unique_strings[j] = t
      BY <2>1, ElementFacts
    <3> QED
      BY <2>2, <2>3, <3>1, <3>2
  <2>4. ASSUME NEW s \in is_unique
        PROVE  LET f == find_atom(text[s]) IN f.found /\ unique_strings[f.idx] = s
    <3> DEFINE f == find_atom(text[s])
               c == text[s]
    <3>1. PICK i \in 1 .. unique_strings_len : unique_strings[i] = s
      BY <2>1, ElementFacts
    <3>2. c \in Content /\ c \in Nat
      BY <2>1, ElementFacts DEF ContentAssumption
    <3>3. /\ f.found => f.idx \in 1 .. unique_strings_len /\ text[unique_strings[f.idx]] = c
          /\ ~f.found =>
               /\ f.idx \in 1 .. unique_strings_len + 1
               /\ \A k \in 1 .. f.idx - 1 : text[unique_strings[k]] < c
               /\ \A k \in f.idx .. unique_strings_len : c < text[unique_strings[k]]
      BY <2>1, <3>2, SearchInOrder
    <3> HIDE DEF f
    <3>4. f.found
      <4> SUFFICES ASSUME ~f.found
                   PROVE  FALSE
        OBVIOUS
      <4>1. i \in 1 .. f.idx - 1 \/ i \in f.idx .. unique_strings_len
        BY <2>1, <3>3
      <4>2. c < c
        BY <3>1, <3>3, <4>1
      <4> QED
        BY <3>2, <4>2
    <3>5. f.idx = i
      BY <2>2, <3>1, <3>3, <3>4
    <3> QED
      BY <3>1, <3>4, <3>5 DEF f
  <2> QED
    BY <2>1, <2>3, <2>4 DEF Canonical, TInv
<1> QED
  BY <1>1, OrderIsKept, PTL
=============================================================================
