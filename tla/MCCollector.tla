---------------------------- MODULE MCCollector ----------------------------
(***************************************************************************)
(* Small heaps.  Weak: blocks of every tag the sweep looks at, with a      *)
(* table of their strings among them, every subset of them in use and      *)
(* strings in the cache.  Dense: every way to point from root to block and  *)
(* from block to block.  Layouts: every kind of block between two others   *)
(* that it points to.                                                      *)
(***************************************************************************)
EXTENDS Collector

BH(mtag, cls, n) == Hdr(mtag, cls, n, FALSE)

AddrIn(bs, i) == 1 + FoldSeq(LAMBDA b, s : b.n + s, 0, SubSeq(bs, 1, i - 1))

\* The words of the blocks bs; those that are no headers hold raw data that
\* looks like a pointer to its own address.
LaidOut(bs) ==
  FoldSeq(LAMBDA i, m : [m EXCEPT ![AddrIn(bs, i)] = bs[i]],
          [l \in 1 .. AddrIn(bs, Len(bs) + 1) - 1 |-> Ptr(l)],
          [i \in DOMAIN bs |-> i])

NoWeak == [l \in CacheLocs \cup {TableLoc} |-> Imm]

\* The blocks bs with all ways to fill their references and the roots -4, ...
HeapsOf(bs, roots, targets) ==
  LET Slots(i) == {AddrIn(bs, i) + o : o \in MarkSlots(bs[i])}
      vals(i) == {Ptr(AddrIn(bs, j)) : j \in {k \in targets \ {i} : bs[k].mtag # "free"}}
                   \cup {Imm}
      fills == FoldSeq(LAMBDA i, fs : {f @@ g : f \in [Slots(i) -> vals(i)], g \in fs},
                       [roots -> vals(0)], [i \in DOMAIN bs |-> i])
  IN {[mem |-> f @@ NoWeak @@ LaidOut(bs), len |-> 0] : f \in fills}

Generic == {BH("value_array", "", 3), BH("string", "", 2), BH("free", "", 1)}
Kinds == {BH("object", "closure", 5), BH("object", "closure", 6),
          BH("object", "c_function", 4), BH("object", "c_function", 5),
          BH("object", "array", 5), BH("object", "error", 5),
          BH("object", "array_buffer", 4), BH("object", "uint8_array", 5),
          BH("object", "regexp", 6), BH("object", "user", 4),
          BH("object", "object", 3), BH("varref", "", 3),
          BH("function_bytecode", "", 10), BH("byte_array", "", 2)}
Str == BH("string", "", 2)

Dense == UNION {HeapsOf(bs, {-4}, DOMAIN bs) : bs \in [1 .. 3 -> Generic]}

Layouts ==
  UNION {{h \in HeapsOf(<<BH("free", "", 1), Str, b, Str>>, {-4, -5}, t) :
            /\ h.mem[-4] = Ptr(4)
            /\ h.mem[-5] = IF b.mtag = "byte_array" THEN h.mem[-5] ELSE Imm} :
          b \in Kinds, t \in {{2, 3}, {3, 4}}}

\* In the first and the last of these the references of an object are empty.
Palette == {Str, BH("object", "user", 4), BH("object", "array", 5), BH("free", "", 1)}

\* The blocks bs with the table inserted before block k; the table holds all
\* strings, the last address first, and `slack' unused elements.  The blocks
\* `used' have a root each.
WithTable(bs, k, slack, used) ==
  LET strings == {i \in DOMAIN bs : bs[i].mtag = "string"}
      n == Cardinality(strings)
      table == BH("value_array", "", 1 + n + slack)
      all == SubSeq(bs, 1, k - 1) \o <<table>> \o SubSeq(bs, k, Len(bs))
      AllIdx(i) == IF i < k THEN i ELSE i + 1
      order == SetToSortSeq(strings, LAMBDA i, j : i > j)
      t == AddrIn(all, k)
      empty == UNION {{AddrIn(all, i) + o : o \in MarkSlots(all[i])} : i \in DOMAIN all}
      place(i) == Ptr(AddrIn(all, AllIdx(i)))
      m == [l \in t + 1 .. t + n |-> place(order[l - t])]
             @@ [l \in empty |-> Imm] @@ LaidOut(all)
      roots == [l \in {-3 - i : i \in DOMAIN bs} |->
                  IF -3 - l \in used THEN place(-3 - l) ELSE Imm]
  IN {[mem |-> c @@ (TableLoc :> Ptr(t)) @@ roots @@ m, len |-> n] :
        c \in {(-2 :> Imm) @@ (-3 :> y) : y \in {Imm} \cup {place(i) : i \in strings}}
              \cup {(-2 :> place(i)) @@ (-3 :> Imm) : i \in {Min(strings)}}}

Weak ==
  UNION {UNION {WithTable(bs, k, slack, used) :
                  k \in IF Len(bs) = 3 THEN {1, 3} ELSE 1 .. Len(bs) + 1, slack \in IF Len(bs) = 3 THEN {1} ELSE {0, 1},
                  used \in {u \in SUBSET DOMAIN bs : \A i \in u : bs[i].mtag # "free"}} :
           bs \in {b \in UNION {[1 .. m -> Palette] : m \in 1 .. 3} :
                     \E i \in DOMAIN b : b[i].mtag = "string"}}

\* The table itself is in use, as when js_resize_value_array makes it larger.
HeldTable == {[h EXCEPT !.mem[-4] = h.mem[TableLoc]] : h \in Weak}

MCHeaps == Dense \cup Layouts \cup Weak
             \cup {h \in HeldTable : HeapEnd(h.mem) < 12}
=============================================================================
