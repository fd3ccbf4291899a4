------------------------------ MODULE GCSweep ------------------------------
(***************************************************************************)
(* The second half of gc_mark_all of mquickjs.c: the blocks are marked;    *)
(* now the weak references are cleared and the dead blocks become free     *)
(* blocks.                                                                 *)
(*                                                                         *)
(* unique_strings, the sorted table of unique strings, is a heap block     *)
(* that is not marked from a root: it lives as long as one of its strings  *)
(* does, and what the collector cuts off its end becomes a free block of   *)
(* its own, which the sweep that follows must find.                        *)
(***************************************************************************)
EXTENDS HeapLayout, SequencesExt, Ranking

VARIABLES
  unique_strings_len,
  finalized,           \* the objects whose finalizer was called, in order
  marked_mem           \* the memory the mark phase left

sweepVars == <<unique_strings_len, finalized, marked_mem>>

unique_strings == mem[TableLoc]

gc_mb_is_marked(w) == JS_IsPtr(w) /\ mem[w.a].mark

SetMark(m, a, b) == [m EXCEPT ![a].mark = b]

Elements(m, t) == [i \in 1 .. m[t].n - 1 |-> m[t + i]]

\* Those of the elements `tab' that are in K.
Selected(tab, K) == [j \in 1 .. Cardinality(K) |-> tab[Nth(K, j)]]
-----------------------------------------------------------------------------
\* The table at t with the elements `kept', the words after them a free block.
CutTable(t, kept) ==
  [i \in DOMAIN mem |->
     CASE i = t -> [mem[t] EXCEPT !.n = Len(kept) + 1, !.mark = TRUE]
       [] i \in t + 1 .. t + Len(kept) -> kept[i - t]
       [] i = t + Len(kept) + 1 /\ i < t + mem[t].n ->
            Free(mem[t].n - 1 - Len(kept))
       [] OTHER -> mem[i]]

\* Its elements are weak references.
UpdateUniqueStrings ==
  /\ phase = "unique"
  /\ phase' = "cache"
  /\ IF ~JS_IsPtr(unique_strings)
     THEN UNCHANGED <<mem, unique_strings_len>>
     ELSE LET t == unique_strings.a
              old == Elements(mem, t)
              kept == Selected(old, {i \in DOMAIN old : gc_mb_is_marked(old[i])})
          IN /\ unique_strings_len' = Len(kept)
             /\ mem' = IF kept # <<>> THEN CutTable(t, kept)
                       ELSE [SetMark(mem, t, FALSE) EXCEPT ![TableLoc] = Imm]
  /\ UNCHANGED <<heap_free, ptr, finalized, marked_mem>>

UpdatePosCache ==
  /\ phase = "cache"
  /\ phase' = "sweep"
  /\ mem' = [l \in DOMAIN mem |->
        IF l \in CacheLocs /\ ~gc_mb_is_marked(mem[l]) THEN Imm ELSE mem[l]]
  /\ UNCHANGED <<heap_free, ptr, sweepVars>>

SweepMarked ==
  /\ phase = "sweep" /\ ptr < heap_free
  /\ mem[ptr].mark
  /\ mem' = SetMark(mem, ptr, FALSE)
  /\ ptr' = ptr + get_mblock_size(mem, ptr)
  /\ UNCHANGED <<heap_free, phase, sweepVars>>

\* class_id >= JS_CLASS_USER with an entry in c_finalizer_table.
HasFinalizer(a) == mem[a].mtag = "object" /\ mem[a].cls = "user"

\* Mutation: also marked blocks are merged.
NextOfRun_any(b) == IF b < heap_free THEN b + get_mblock_size(mem, b) ELSE b

NextOfRun(b) ==
  IF b < heap_free /\ ~mem[b].mark THEN b + get_mblock_size(mem, b) ELSE b

\* The end of the run of unmarked blocks that starts at a: each turn but the
\* last takes in a word at least.
EndOfRun(a) ==
  LET end[d \in 0 .. heap_free - a] ==
        IF d = 0 THEN a + get_mblock_size(mem, a) ELSE NextOfRun(end[d - 1])
  IN end[heap_free - a]

\* Mutation: the finalizer table is not consulted for the class.
FinalizeFirst_anyClass(a) ==
  finalized' = IF mem[a].mtag = "object" THEN Append(finalized, a) ELSE finalized

\* The user finalizer of the block that starts a run; those the run takes in
\* are not looked at.
FinalizeFirst(a) ==
  finalized' = IF HasFinalizer(a) THEN Append(finalized, a) ELSE finalized

\* A run of dead blocks becomes one free block.
SweepDead ==
  /\ phase = "sweep" /\ ptr < heap_free
  /\ ~mem[ptr].mark
  /\ FinalizeFirst(ptr)
  /\ mem' = [mem EXCEPT ![ptr] = Free(EndOfRun(ptr) - ptr)]
  /\ ptr' = EndOfRun(ptr)
  /\ UNCHANGED <<heap_free, phase, unique_strings_len, marked_mem>>

SweepDone ==
  /\ phase = "sweep" /\ ptr >= heap_free
  /\ phase' = "swept"
  /\ UNCHANGED <<mem, heap_free, ptr, sweepVars>>

SweepNext ==
  \/ UpdateUniqueStrings
  \/ UpdatePosCache
  \/ SweepMarked
  \/ SweepDead
  \/ SweepDone
-----------------------------------------------------------------------------
(* Properties.                                                             *)

MarkedBlocks == BlockAddrs(marked_mem, 1, HeapEnd(marked_mem))

\* A user finalizer is never called for a live object, for a block that has
\* none, or twice for one object.
FinalizedOnlyDead ==
  /\ \A i \in DOMAIN finalized : LET h == marked_mem[finalized[i]] IN
       ~h.mark /\ h.mtag = "object" /\ h.cls = "user"
  /\ \A i, j \in DOMAIN finalized : finalized[i] = finalized[j] => i = j

\* "call the user finalizer if needed": every dead object of a class with a
\* finalizer has had it called when the sweep ends.
EveryFinalizerCalled == phase = "swept" =>
  \A a \in MarkedBlocks :
    LET h == marked_mem[a] IN
    h.mtag = "object" /\ h.cls = "user" /\ ~h.mark => a \in Range(finalized)
=============================================================================
