----------------------------- MODULE PropTable -----------------------------
(***************************************************************************)
(* The property table of one object of mquickjs.c: an array that holds a   *)
(* count, a mask, the heads of the hash chains and the properties in the   *)
(* order they were added.  A deleted property leaves a hole; the last one, *)
(* when it is free, holds in its link where the free ones begin.           *)
(*                                                                         *)
(* Keys are compared and hashed by address, and a collection, which any    *)
(* allocation may cause, moves them: the hash of a key is part of the      *)
(* state.  Property indices count properties from 1, 0 is the end of a     *)
(* chain; sizes are in words, as the code computes them.                   *)
(***************************************************************************)
EXTENDS Integers, Sequences, FiniteSets, FiniteSetsExt, Ranking

CONSTANTS
  Key, PropVal,
  RomKey,     \* the keys that are atoms in ROM: no collection moves them
  Hash,       \* the hash functions that addresses may give: [Key -> Nat]
  Prealloc,   \* numbers of properties that objects are created with
  RomProps,   \* property lists in ROM: sequences of keys
  MaxSlots,   \* bound: properties that an array has room for
  Uninit,     \* the key JS_UNINITIALIZED
  Undef       \* the key JS_UNDEFINED

PropTableAssumption ==
  /\ RomKey \subseteq Key /\ Uninit \notin Key /\ Undef \notin Key /\ Uninit # Undef
  /\ \A h \in Hash : h \in [Key -> Nat]
  /\ Prealloc \subseteq Nat \ {0} /\ PropVal # {}
  /\ \A s \in RomProps : s \in Seq(RomKey) /\ s # <<>> /\ IsInjective(s)

VARIABLES
  props,   \* the table
  hash,    \* what hash_prop returns for each key
  rom      \* the table is in ROM

propsVars == <<props, hash, rom>>
-----------------------------------------------------------------------------
\* 1 << n
Pow2(n) == LET p[d \in 0 .. n] == IF d = 0 THEN 1 ELSE 2 * p[d - 1] IN p[n]

Log2(n) == CHOOSE l \in 0 .. n : Pow2(l) <= n /\ n < Pow2(l + 1)

get_prop_hash_size_log2(n) == IF n <= 1 THEN 0 ELSE Log2(n - 1)

\* Number of words of a table with mask m and n properties; arr->size.
Words(m, n) == 2 + (m + 1) + 3 * n
Size(t) == Words(t.hash_mask, Len(t.slots))

FreeSlot(k) == [key |-> k, value |-> Undef, next |-> 0]
HashOf(h, k) == IF k \in Key THEN h[k] ELSE 0
Bucket(t, h, k) == HashOf(h, k) % (t.hash_mask + 1)

empty_props == [count |-> 0, hash_mask |-> 0, heads |-> [b \in {0} |-> 0], slots |-> <<>>]

js_alloc_props(n) ==
  LET m == Pow2(get_prop_hash_size_log2(n)) - 1 IN
  [count |-> 0, hash_mask |-> m, heads |-> [b \in 0 .. m |-> 0],
   slots |-> [i \in 1 .. n |-> [FreeSlot(Uninit) EXCEPT !.next = IF i = n THEN 1 ELSE 0]]]

get_first_free(t) ==
  LET n == Len(t.slots) IN
  IF n > 0 /\ t.slots[n].key = Uninit THEN t.slots[n].next ELSE n + 1

\* The free slots begin at f: written in the last slot if that is free.
WithFirstFree(t, f) ==
  IF f <= Len(t.slots) THEN [t EXCEPT !.slots[Len(t.slots)].next = f] ELSE t

\* The chain that starts at b: its element at each distance from the head.
ChainFrom(t, b) ==
  LET at[d \in 0 .. Len(t.slots)] ==
        IF d = 0 THEN t.heads[b]
        ELSE IF at[d - 1] \in DOMAIN t.slots THEN t.slots[at[d - 1]].next ELSE 0
  IN at

\* The distance of k from the head of its chain, -1 if it is not on it.
Distance(t, h, k) ==
  LET at   == ChainFrom(t, Bucket(t, h, k))
      hits == {d \in DOMAIN at : at[d] \in DOMAIN t.slots /\ t.slots[at[d]].key = k}
  IN IF hits = {} THEN -1 ELSE Min(hits)

find_own_property(t, h, k) ==
  LET d == Distance(t, h, k) IN
  IF d = -1 THEN 0 ELSE ChainFrom(t, Bucket(t, h, k))[d]

\* The slots that the loops over all properties visit: those in use, up to the
\* first prop_count of them.
Visited(t) ==
  {i \in DOMAIN t.slots :
     /\ t.slots[i].key # Uninit
     /\ Cardinality({j \in 1 .. i - 1 : t.slots[j].key # Uninit}) < t.count}

\* The last slot before i of those in S that are in bucket b, 0 if there is none.
LastIn(S) == IF S = {} THEN 0 ELSE Max(S)
LastBefore(t, h, S, b, i) == LastIn({j \in S : j < i /\ Bucket(t, h, t.slots[j].key) = b})

\* Every property visited goes first on its chain.
js_rehash_props(t, h) ==
  LET V == Visited(t) IN
  [t EXCEPT
     !.heads = [b \in 0 .. t.hash_mask |-> LastBefore(t, h, V, b, Len(t.slots) + 1)],
     !.slots = [i \in DOMAIN t.slots |->
                  IF i \in V
                  THEN [t.slots[i] EXCEPT !.next = LastBefore(t, h, V, Bucket(t, h, t.slots[i].key), i)]
                  ELSE t.slots[i]]]

\* Mutation: only tables with many properties are rehashed after a collection.
CollectedProps_small(t, h) ==
  IF rom \/ t.hash_mask <= 1 THEN t ELSE js_rehash_props(t, h)

\* What a collection does to the table when it makes h the hash function.
CollectedProps(t, h) ==
  IF rom \/ t.hash_mask = 0 THEN t ELSE js_rehash_props(t, h)

\* Mutation: the properties are cut off without moving the live ones together.
js_compact_props_cut(t, h) ==
  IF t.count = 0 THEN empty_props
  ELSE LET m == Min({t.hash_mask, Pow2(get_prop_hash_size_log2(t.count)) - 1}) IN
       IF Words(m, t.count) >= Size(t) THEN t
       ELSE js_rehash_props([t EXCEPT !.hash_mask = m,
                                      !.slots = SubSeq(t.slots, 1, t.count)], h)

\* No allocation: the properties move together and the array is cut.
js_compact_props(t, h) ==
  IF t.count = 0 THEN empty_props
  ELSE LET m == Min({t.hash_mask, Pow2(get_prop_hash_size_log2(t.count)) - 1})
           V == Visited(t)
       IN IF Words(m, t.count) >= Size(t) THEN t
          ELSE js_rehash_props([t EXCEPT !.hash_mask = m,
                                         !.slots = [j \in 1 .. t.count |-> t.slots[Nth(V, j)]]], h)

\* js_resize_value_array2 as js_create_property calls it: half as many words
\* more, rounded up to whole properties; the new words are JS_UNDEFINED, but for
\* the last property.
Resized(t, h) ==
  LET n    == Len(t.slots)
      m    == IF t.count + 1 > 2 * (t.hash_mask + 1)
              THEN 2 * (t.hash_mask + 1) - 1 ELSE t.hash_mask
      need == Size(t) + 3 + (m - t.hash_mask)
      more == Size(t) + Size(t) \div 2
      size == IF more > need THEN more + ((Words(m, 0) - more) % 3) ELSE need
      len  == (size - Words(m, 0)) \div 3
      old  == [t EXCEPT !.hash_mask = m,
                        !.slots = [i \in 1 .. len |-> IF i <= n THEN t.slots[i]
                                                      ELSE FreeSlot(Undef)]]
      new  == IF m = t.hash_mask THEN old ELSE js_rehash_props(old, h)
  IN [new EXCEPT !.slots[len].key = Uninit]

\* js_create_property once there is room: the property goes to slot f.
Filled(t, h, f, k, v) ==
  LET b == Bucket(t, h, k) IN
  WithFirstFree([t EXCEPT !.count = @ + 1,
                          !.heads[b] = f,
                          !.slots[f] = [key |-> k, value |-> v, next |-> t.heads[b]]],
                f + 1)

\* js_create_property, where t is the table after the allocation, if there is one.
js_create_property(t, h, k, v) ==
  LET f == get_first_free(t) IN
  IF f <= Len(t.slots) THEN Filled(t, h, f, k, v)
  ELSE IF t = empty_props THEN Filled(js_alloc_props(1), h, 1, k, v)
  ELSE Filled(Resized(t, h), h, f, k, v)

\* The free slots begin after the last one in use before f.
Lowered(t, f) ==
  LET used == {i \in 1 .. f - 1 : t.slots[i].key # Uninit} IN
  IF used = {} THEN 1 ELSE Max(used) + 1

\* JS_DeleteProperty of the property at distance d from the head of its chain.
Removed(t, h, k, d) ==
  LET b    == Bucket(t, h, k)
      at   == ChainFrom(t, b)
      i    == at[d]
      cut  == IF d = 0 THEN [t EXCEPT !.heads[b] = t.slots[i].next]
              ELSE [t EXCEPT !.slots[at[d - 1]].next = t.slots[i].next]
      hole == [cut EXCEPT !.count = @ - 1, !.slots[i].key = Uninit, !.slots[i].value = Undef]
      del  == WithFirstFree(hole, Lowered(hole, get_first_free(t)))
  IN IF Words(t.hash_mask, t.count) < Size(t) \div 2 THEN js_compact_props(del, h) ELSE del

\* The hash functions after an allocation: keys in ROM do not move.
KeysMoved == {h \in Hash : \A k \in RomKey : h[k] = hash[k]}

\* mquickjs_build.c writes a list of properties for ROM, its keys as values.
RomTable(s, h) ==
  LET m == Pow2(get_prop_hash_size_log2(Len(s))) - 1 IN
  js_rehash_props([count |-> Len(s), hash_mask |-> m, heads |-> [b \in 0 .. m |-> 0],
                   slots |-> [i \in DOMAIN s |-> [FreeSlot(s[i]) EXCEPT !.value = CHOOSE v \in PropVal : TRUE]]], h)

PropsInit ==
  /\ hash \in Hash
  /\ \/ rom = FALSE /\ props \in {empty_props} \cup {js_alloc_props(n) : n \in Prealloc}
     \/ rom = TRUE /\ props \in {RomTable(s, hash) : s \in RomProps}

\* JS_SetPropertyInternal or JS_DefinePropertyInternal of a property there is; a
\* list in ROM is copied first.
SetOwn(k, v) ==
  LET i == find_own_property(props, hash, k) IN
  /\ i # 0
  /\ props' = [props EXCEPT !.slots[i].value = v]
  /\ rom' = FALSE
  /\ hash' \in (IF rom THEN KeysMoved ELSE {hash})

\* The same of a property there is not.
Add(k, v) ==
  /\ find_own_property(props, hash, k) = 0
  /\ IF get_first_free(props) <= Len(props.slots)
     THEN hash' = hash /\ props' = js_create_property(props, hash, k, v)
     ELSE /\ hash' \in KeysMoved
          /\ Len(Resized(props, hash).slots) <= MaxSlots
          /\ props' = js_create_property(IF hash' = hash THEN props ELSE CollectedProps(props, hash'),
                                         hash', k, v)
  /\ rom' = FALSE

\* No memory for the copy of a list in ROM or for a larger table.
SetFails ==
  /\ rom \/ get_first_free(props) > Len(props.slots)
  /\ hash' \in KeysMoved
  /\ props' = CollectedProps(props, hash')
  /\ rom' \in {rom, FALSE}

Delete(k) ==
  LET d == Distance(props, hash, k) IN
  /\ d # -1
  /\ hash' \in (IF rom THEN KeysMoved ELSE {hash})
  /\ props' = Removed(props, hash, k, d)
  /\ rom' = FALSE

PropsGC ==
  /\ hash' \in KeysMoved
  /\ props' = CollectedProps(props, hash')
  /\ UNCHANGED rom

PropsNext ==
  \/ \E k \in Key, v \in PropVal : SetOwn(k, v) \/ Add(k, v)
  \/ \E k \in Key : Delete(k)
  \/ SetFails
  \/ PropsGC

PropsSpec == PropsInit /\ [][PropsNext]_propsVars
-----------------------------------------------------------------------------
(* Properties.                                                             *)

Live(t) == {i \in DOMAIN t.slots : t.slots[i].key \in Key}

\* Types; the array has room for what it holds, and its size is that of the
\* allocation: a mask that is a power of two less one, one head for each bucket.
PropsTypeOK ==
  /\ rom \in BOOLEAN /\ hash \in Hash
  /\ \E l \in 0 .. Len(props.slots) : props.hash_mask = Pow2(l) - 1
  /\ DOMAIN props.heads = 0 .. props.hash_mask
  /\ \A b \in DOMAIN props.heads : props.heads[b] \in 0 .. Len(props.slots)
  /\ \A i \in DOMAIN props.slots :
       /\ props.slots[i].key \in Key \cup {Uninit, Undef}
       /\ props.slots[i].next \in 0 .. Len(props.slots)
  /\ props.count = Cardinality(Live(props))

\* Each live property is on the chain of its present hash, once, and nothing
\* else is on a chain: after any collection find_own_property finds every key.
ChainsExact ==
  \A b \in 0 .. props.hash_mask :
    LET at == ChainFrom(props, b) IN
    /\ {at[d] : d \in DOMAIN at} \ {0} =
         {i \in Live(props) : Bucket(props, hash, props.slots[i].key) = b}
    /\ \A d, e \in DOMAIN at : at[d] = at[e] /\ d # e => at[d] = 0

\* The free slots are those from first_free to the end, and a hole is never
\* one of the last slots in use: what js_create_property overwrites is free,
\* and the loops that count live properties stop before them.
FreeAtTheEnd ==
  LET f == get_first_free(props) IN
  /\ f \in 1 .. Len(props.slots) + 1
  /\ \A i \in f .. Len(props.slots) : props.slots[i].key \notin Key
  /\ \A i \in 1 .. f - 1 : props.slots[i].key # Undef
  /\ f > 1 => props.slots[f - 1].key \in Key

\* The table has all of the live properties where they are looked for, and only them.
TableExact == ChainsExact /\ FreeAtTheEnd

\* The properties in their order, without the holes (js_object_keys).
KeyOrder ==
  LET L == Live(props) IN
  [j \in 1 .. Cardinality(L) |->
     [key |-> props.slots[Nth(L, j)].key, value |-> props.slots[Nth(L, j)].value]]

Ordered == INSTANCE OrderedProps WITH Val <- PropVal, props <- KeyOrder

\* The table implements the ordered map, through resizes, holes, compactions
\* and collections.
IsOrderedMap == Ordered!Spec
=============================================================================
