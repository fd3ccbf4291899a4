----------------------------- MODULE GCCompact -----------------------------
(***************************************************************************)
(* Heap compaction of mquickjs.c (gc_compact_heap), by Jonkers' algorithm: *)
(* no table of new addresses is built.  All the places that point to a     *)
(* block are threaded into a list that starts in its header; the header's  *)
(* own word waits at the end of the list.  When a block is reached and its *)
(* new address is known, the list is undone and every place on it gets the *)
(* new address.  Pass 1 does this for the references that come before a    *)
(* block, pass 2 for those that come after it, and moves the block.        *)
(***************************************************************************)
EXTENDS HeapLayout, SequencesExt

VARIABLES
  ext,        \* the next location outside of the heap to thread
  new_ptr,
  swept_mem   \* the memory before the compaction

compactVars == <<ext, new_ptr, swept_mem>>

\* The place l goes first on the list of the block it points to.
gc_thread_pointer(m, l) ==
  IF ~JS_IsPtr(m[l]) THEN m
  ELSE [m EXCEPT ![l] = m[m[l].a], ![m[l].a] = Ptr(l)]

\* The places met on the list that starts at l, and the last of them: no list
\* is longer than there are locations.
Followed(m, l) ==
  LET follow[d \in 0 .. Cardinality(DOMAIN m)] ==
        IF d = 0 THEN [at |-> l, met |-> {}]
        ELSE LET f == follow[d - 1]
                 w == m[f.at]
             IN IF JS_IsPtr(w) THEN [at |-> w.a, met |-> f.met \cup {w.a}] ELSE f
  IN follow[Cardinality(DOMAIN m)]

\* The places on the list, and the word at its end.
Chain(m, l) == Followed(m, l).met
ChainEnd(m, l) == m[Followed(m, l).at]

gc_update_threaded_pointers(m, a, new) ==
  LET places == Chain(m, a)
      end == ChainEnd(m, a)
  IN [l \in DOMAIN m |->
        IF l = a THEN end ELSE IF l \in places THEN Ptr(new) ELSE m[l]]

\* Thread the fields of the block at a, whose header is h.
gc_thread_block(m, a, h) ==
  LET threaded[i \in 0 .. h.n - 1] ==
        IF i = 0 THEN m
        ELSE IF i \in ThreadSlots(h) THEN gc_thread_pointer(threaded[i - 1], a + i)
        ELSE threaded[i - 1]
  IN threaded[h.n - 1]

ThreadRoot ==
  /\ phase = "roots" /\ ext \in DOMAIN mem
  /\ mem' = gc_thread_pointer(mem, ext)
  /\ ext' = ext - 1
  /\ UNCHANGED <<heap_free, phase, ptr, new_ptr, swept_mem>>

StartPass1 ==
  /\ phase = "roots" /\ ext \notin DOMAIN mem
  /\ phase' = "pass1"
  /\ UNCHANGED <<mem, heap_free, ptr, compactVars>>

Pass1Block ==
  /\ phase = "pass1" /\ ptr < heap_free
  /\ LET m == gc_update_threaded_pointers(mem, ptr, new_ptr)
         h == m[ptr]
     IN /\ mem' = IF h.mtag # "free" THEN gc_thread_block(m, ptr, h) ELSE m
        /\ new_ptr' = IF h.mtag # "free" THEN new_ptr + h.n ELSE new_ptr
        /\ ptr' = ptr + h.n
  /\ UNCHANGED <<heap_free, phase, ext, swept_mem>>

StartPass2 ==
  /\ phase = "pass1" /\ ptr >= heap_free
  /\ phase' = "pass2"
  /\ ptr' = 1
  /\ new_ptr' = 1
  /\ UNCHANGED <<mem, heap_free, ext, swept_mem>>

\* memmove: n words from `from' to `to'.
Moved(m, from, to, n) ==
  [l \in DOMAIN m |-> IF l \in to .. to + n - 1 THEN m[l - to + from] ELSE m[l]]

Pass2Block ==
  /\ phase = "pass2" /\ ptr < heap_free
  /\ LET m == gc_update_threaded_pointers(mem, ptr, new_ptr)
         h == m[ptr]
     IN /\ mem' = IF h.mtag # "free" THEN Moved(m, ptr, new_ptr, h.n) ELSE m
        /\ new_ptr' = IF h.mtag # "free" THEN new_ptr + h.n ELSE new_ptr
        /\ ptr' = ptr + h.n
  /\ UNCHANGED <<heap_free, phase, ext, swept_mem>>

Finish ==
  /\ phase = "pass2" /\ ptr >= heap_free
  /\ phase' = "done"
  /\ heap_free' = new_ptr
  /\ UNCHANGED <<mem, ptr, compactVars>>

CompactNext ==
  \/ ThreadRoot
  \/ StartPass1
  \/ Pass1Block
  \/ StartPass2
  \/ Pass2Block
  \/ Finish
-----------------------------------------------------------------------------
(* Properties.                                                             *)

OldBlocks == {a \in BlockAddrs(swept_mem, 1, HeapEnd(swept_mem)) : swept_mem[a].mtag # "free"}

\* Where the block that was at a goes: after the live blocks before it.
OldSize == [a \in OldBlocks |-> swept_mem[a].n]
Target(a) == Slid(OldBlocks, OldSize, a)

InPass2 == phase \in {"pass2", "done"}
Passed(a) == phase = "done" \/ (phase = "pass2" /\ a < ptr)
Where(a) == IF Passed(a) THEN Target(a) ELSE a

\* The field at offset i of the block that was at a.
Field(a, i) == Where(a) + i

\* The blocks whose list has not been undone yet in the pass under way.
Threadable == {a \in OldBlocks : ~Passed(a)}

Chains == [a \in Threadable |-> Chain(mem, a)]

\* The block (by its old address) that location l refers to, whether l waits on
\* one of the lists `chains', holds an old address or holds a new one already;
\* 0 if none.
RefersTo(l, threaded, chains) ==
  LET w == mem[l] IN
  IF \E a \in DOMAIN chains : l \in chains[a] THEN CHOOSE a \in DOMAIN chains : l \in chains[a]
  ELSE IF ~JS_IsPtr(w) THEN 0
  ELSE IF ~threaded THEN w.a
  ELSE IF \E a \in OldBlocks : Target(a) = w.a THEN CHOOSE a \in OldBlocks : Target(a) = w.a
  ELSE -1

ReferredTo(l) == IF JS_IsPtr(swept_mem[l]) THEN swept_mem[l].a ELSE 0

RootThreaded(l) == phase # "roots" \/ l > ext
BlockThreaded(a) == InPass2 \/ (phase = "pass1" /\ a < ptr)

Compacting == phase \in {"roots", "pass1", "pass2", "done"}

\* No reference is lost or redirected at any step: every field of every live
\* block and every value outside of the heap refers to the block it referred
\* to before, in whatever form the step has left it.
GraphPreserved == Compacting =>
  LET chains == Chains IN
  /\ \A l \in ExtOf(mem) : RefersTo(l, RootThreaded(l), chains) = ReferredTo(l)
  /\ \A a \in OldBlocks : \A i \in MarkSlots(swept_mem[a]) :
       RefersTo(Field(a, i), BlockThreaded(a), chains) = ReferredTo(a + i)
=============================================================================
