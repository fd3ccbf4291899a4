----------------------------- MODULE Collector -----------------------------
(***************************************************************************)
(* A collection of mquickjs.c from end to end (JS_GC2): the mark phase,    *)
(* the weak references and the sweep (GCSweep), the compaction             *)
(* (GCCompact).                                                            *)
(*                                                                         *)
(* The mark phase is one step here.  GCMark has its steps, and             *)
(* GCMarkProofs proves for every heap that what it marks in the end is     *)
(* exactly what can be reached from the roots.                             *)
(***************************************************************************)
EXTENDS GCSweep, GCCompact

CONSTANT
  StartHeaps   \* the memories, with the length of the unique string table

VARIABLE before   \* the memory before the collection

vars == <<heapVars, sweepVars, compactVars, before>>

StrongRefs(m) == {m[l].a : l \in {x \in StrongOf(m) : JS_IsPtr(m[x])}}
RefsOf(m, a) ==
  {m[a + i].a : i \in {j \in MarkSlots(m[a]) : JS_IsPtr(m[a + j])}}

\* The blocks that can be reached from the strong references outside of the heap.
BlocksOf(m) == BlockAddrs(m, 1, HeapEnd(m))
Closed(m, S) == StrongRefs(m) \subseteq S /\ \A a \in S : RefsOf(m, a) \subseteq S
Reachable(m) ==
  LET closed == {S \in SUBSET BlocksOf(m) : Closed(m, S)}
  IN {a \in BlocksOf(m) : \A S \in closed : a \in S}

\* Every reference is to an allocated block.
IsBlock(m, a) == a \in BlocksOf(m) /\ m[a].mtag # "free"

\* A memory as the program leaves it between two collections.  No block is
\* marked, and none holds a pointer to itself, which the compaction could not
\* undo: an object refers to itself through its property array, a closure
\* through a varref.  The cache is one of strings, and there is a table of
\* unique strings only while one is in it.
Sound(m) ==
  /\ IsFiniteSet(DOMAIN m)
  /\ DOMAIN m = (-Cardinality(ExtOf(m)) .. -1) \cup (1 .. HeapEnd(m) - 1)
  /\ CacheLocs \cup {TableLoc} \subseteq DOMAIN m
  /\ Laid(m, BlocksOf(m), 1, HeapEnd(m))
  /\ \A a \in BlocksOf(m) :
       /\ ~m[a].mark
       /\ MarkSlots(m[a]) \subseteq 1 .. m[a].n - 1
       /\ a \notin RefsOf(m, a)
       /\ \A b \in RefsOf(m, a) : IsBlock(m, b)
  /\ \A l \in ExtOf(m) : JS_IsPtr(m[l]) => IsBlock(m, m[l].a)
  /\ \A l \in CacheLocs : JS_IsPtr(m[l]) => m[m[l].a].mtag = "string"
  /\ m[TableLoc] # Imm => LET t == m[TableLoc].a IN
       /\ JS_IsPtr(m[TableLoc]) /\ m[t].mtag = "value_array"
       /\ \E i \in 1 .. m[t].n - 1 : JS_IsPtr(m[t + i])

ASSUME StartHeapsAssumption ==
  \A h \in StartHeaps : Sound(h.mem) /\ h.len \in 0 .. HeapEnd(h.mem)

Init ==
  /\ \E h \in StartHeaps : before = h.mem /\ unique_strings_len = h.len
  /\ mem = before
  /\ heap_free = HeapEnd(before)
  /\ phase = "mark"
  /\ ptr = 1 /\ new_ptr = 1 /\ ext = -1
  /\ finalized = <<>>
  /\ marked_mem = <<>> /\ swept_mem = <<>>

Mark ==
  /\ phase = "mark"
  /\ LET live == Reachable(mem) IN
     mem' = [l \in DOMAIN mem |->
               IF l \in live THEN [mem[l] EXCEPT !.mark = TRUE] ELSE mem[l]]
  /\ marked_mem' = mem'
  /\ phase' = "unique"
  /\ UNCHANGED <<heap_free, ptr, unique_strings_len, finalized, compactVars, before>>

Sweep == SweepNext /\ UNCHANGED <<compactVars, before>>

StartCompact ==
  /\ phase = "swept"
  /\ swept_mem' = mem
  /\ phase' = "roots"
  /\ ptr' = 1
  /\ UNCHANGED <<mem, heap_free, sweepVars, ext, new_ptr, before>>

Compact == CompactNext /\ UNCHANGED <<sweepVars, before>>

Next == Mark \/ Sweep \/ StartCompact \/ Compact

Spec == Init /\ [][Next]_vars
-----------------------------------------------------------------------------
(* Properties.                                                             *)

\* Types.  Until the lists are threaded, and again in the end, the memory can be
\* walked from header to header: a word of a block is never taken for a header.
TypeOK ==
  /\ DOMAIN mem = DOMAIN before
  /\ phase \in {"mark", "unique", "cache", "sweep", "swept", "roots", "pass1", "pass2", "done"}
  /\ heap_free \in 1 .. HeapEnd(before)
  /\ phase \in {"mark", "unique", "cache", "sweep", "swept", "done"} =>
       /\ Walkable(mem, 1, heap_free)
       /\ ptr \in BlockAddrs(mem, 1, heap_free) \/ ptr >= heap_free
  /\ unique_strings_len \in 0 .. HeapEnd(before)

\* The table as it was, its address and what it held.
OldTable == IF JS_IsPtr(before[TableLoc]) THEN before[TableLoc].a ELSE 0
OldEntries == IF OldTable = 0 THEN <<>> ELSE Elements(before, OldTable)

\* A collection from end to end.  What was reachable is kept and nothing else
\* (but the table of unique strings, with the strings that are kept); the blocks
\* lie one after the other from heap_base in their old order; every reference
\* is to the new place of what it was to, weak ones to what is gone are cleared,
\* and the other words are unchanged, also those that look like a pointer.
Collected == phase = "done" =>
  LET live     == Reachable(before)
      IsLive(w) == JS_IsPtr(w) /\ w.a \in live
      entries  == Selected(OldEntries, {i \in DOMAIN OldEntries : IsLive(OldEntries[i])})
      kept     == IF entries = <<>> THEN live ELSE live \cup {OldTable}
      size     == [a \in kept |-> IF a = OldTable THEN 1 + Len(entries) ELSE before[a].n]
      New(a)   == Slid(kept, size, a)
      At(w)    == IF JS_IsPtr(w) THEN Ptr(New(w.a)) ELSE w
      Weak(w)  == IF IsLive(w) THEN At(w) ELSE Imm
  IN /\ BlockAddrs(mem, 1, heap_free) = {New(a) : a \in kept}
     /\ heap_free = New(HeapEnd(before))
     /\ \A a \in kept \ {OldTable} : \A i \in 0 .. before[a].n - 1 :
          mem[New(a) + i] = IF i \in MarkSlots(before[a]) THEN At(before[a + i])
                            ELSE before[a + i]
     /\ \A l \in StrongOf(mem) : mem[l] = At(before[l])
     /\ \A l \in CacheLocs : mem[l] = Weak(before[l])
     /\ IF entries = <<>> THEN mem[TableLoc] = Imm
        ELSE /\ mem[TableLoc] = Ptr(New(OldTable))
             /\ Elements(mem, New(OldTable)) = [i \in DOMAIN entries |-> At(entries[i])]
=============================================================================
