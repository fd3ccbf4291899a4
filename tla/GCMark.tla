------------------------------- MODULE GCMark -------------------------------
(***************************************************************************)
(* The mark phase of the mquickjs collector (gc_mark_all, gc_mark_root,    *)
(* gc_mark and gc_mark_flush of mquickjs.c).                               *)
(*                                                                         *)
(* The collector runs when memory is short, so its mark stack is what is   *)
(* left between the heap and the JS stack: gs_bottom = heap_free and       *)
(* gs_top = sp.  A block that is marked when the stack is full is not      *)
(* pushed; `overflow' is raised instead and the whole heap is scanned      *)
(* again for marked blocks, until a scan completes without overflow.       *)
(*                                                                         *)
(* A heap block is the index of its position in address order.  What       *)
(* gc_mark_flush reads from a block is abstracted to `refs', the sequence  *)
(* of JSValue fields it passes to gc_mark, in its order.                   *)
(***************************************************************************)
EXTENDS Integers, Sequences, Functions

CONSTANTS
  NBlocks,   \* number of blocks between heap_base and heap_free
  Imm,       \* a JSValue that is no pointer into the heap (or points to ROM)
  GsSize,    \* words between gs_bottom and gs_top
  Blocks,    \* the blocks a heap may hold: [mtag, refs] records
  Roots      \* the root sequences to start from

Block == 1 .. NBlocks
Val == Block \cup {Imm}

\* JS_MTAG_VALUE_ARRAY; the tags whose fields are visited at once (object,
\* varref, function bytecode); the tags without references (string, float64,
\* byte array, free).
MTag == {"value_array", "object", "leaf"}

Heaps == [block : [Block -> Blocks], root : Roots]

ASSUME NBlocksAssumption == NBlocks \in Nat
ASSUME ImmAssumption == Imm \notin Block
\* The mark stack lies between heap_free and sp, where Arena!ApartWithinReserve
\* leaves two words, which are enough for what follows.  Not modelled is a
\* collection under a frame that has pushed past the reserve after a nested call,
\* for which nothing may be left.
ASSUME GsSizeAssumption == GsSize \in Nat /\ GsSize >= 2
ASSUME BlocksAssumption == Blocks \subseteq [mtag : MTag, refs : Seq(Val)]
ASSUME RootsAssumption == Roots \subseteq Seq(Val)

VARIABLES
  heap,      \* the heap being collected; the mark phase only sets mark bits
  roots,     \* the roots gc_mark_all has not passed to gc_mark_root yet
  marked,    \* the blocks with gc_mark = 1
  stack,     \* mark stack, top first: a block and the next index of an array
  gsp,       \* free words on the mark stack: s->gsp - s->gs_bottom
  todo,      \* fields of the block popped last that gc_mark must still see
  overflow,  \* s->overflow
  phase,     \* "roots", "scan" (overflow pass over the heap) or "done"
  scan       \* the block the overflow pass is at

vars == <<heap, roots, marked, stack, gsp, todo, overflow, phase, scan>>

mtag_has_references(b) == heap.block[b].mtag \in {"object", "value_array"}

IsArray(b) == heap.block[b].mtag = "value_array"
Refs(b) == heap.block[b].refs

\* Words an entry takes: an array is pushed with the index to go on from.
EntrySize(b) == IF IsArray(b) THEN 2 ELSE 1
Entry(b, i) == [blk |-> b, pos |-> i]

Idle == todo = <<>> /\ stack = <<>>
-----------------------------------------------------------------------------
Init ==
  /\ heap \in Heaps
  /\ roots = heap.root
  /\ marked = {}
  /\ stack = <<>>
  /\ gsp = GsSize
  /\ todo = <<>>
  /\ overflow = FALSE
  /\ phase = "roots"
  /\ scan = 1

\* gc_mark_root: the next root goes to gc_mark, the flush follows.
MarkRoot ==
  /\ phase = "roots" /\ Idle /\ roots # <<>>
  /\ todo' = <<Head(roots)>>
  /\ roots' = Tail(roots)
  /\ UNCHANGED <<heap, marked, stack, gsp, overflow, phase, scan>>

\* gc_mark of a value that is no heap pointer, or of a block already marked.
Skip ==
  /\ todo # <<>>
  /\ Head(todo) = Imm \/ Head(todo) \in marked
  /\ todo' = Tail(todo)
  /\ UNCHANGED <<heap, roots, marked, stack, gsp, overflow, phase, scan>>

\* Mutation: the block is marked and dropped, the overflow is not noted.
PushOrOverflow_silent(b) ==
  IF mtag_has_references(b) /\ gsp >= EntrySize(b)
  THEN /\ stack' = <<Entry(b, 1)>> \o stack
       /\ gsp' = gsp - EntrySize(b)
       /\ UNCHANGED overflow
  ELSE UNCHANGED <<stack, gsp, overflow>>

\* Mutation: one free word is taken to be enough for an array.
PushOrOverflow_oneWord(b) ==
  IF ~mtag_has_references(b)
  THEN UNCHANGED <<stack, gsp, overflow>>
  ELSE IF gsp >= 1
       THEN /\ stack' = <<Entry(b, 1)>> \o stack
            /\ gsp' = gsp - EntrySize(b)
            /\ UNCHANGED overflow
       ELSE /\ overflow' = TRUE
            /\ UNCHANGED <<stack, gsp>>

\* What gc_mark does with a block it has just marked.
PushOrOverflow(b) ==
  IF ~mtag_has_references(b)
  THEN UNCHANGED <<stack, gsp, overflow>>
  ELSE IF gsp >= EntrySize(b)
       THEN /\ stack' = <<Entry(b, 1)>> \o stack
            /\ gsp' = gsp - EntrySize(b)
            /\ UNCHANGED overflow
       ELSE /\ overflow' = TRUE
            /\ UNCHANGED <<stack, gsp>>

\* gc_mark of an unmarked block.
Mark ==
  /\ todo # <<>>
  /\ Head(todo) \in Block \ marked
  /\ marked' = marked \cup {Head(todo)}
  /\ PushOrOverflow(Head(todo))
  /\ todo' = Tail(todo)
  /\ UNCHANGED <<heap, roots, phase, scan>>

\* gc_mark_flush on an object, varref or bytecode: all its fields at once.
FlushObject ==
  /\ todo = <<>> /\ stack # <<>>
  /\ LET b == Head(stack).blk IN
     /\ ~IsArray(b)
     /\ todo' = Refs(b)
     /\ gsp' = gsp + 1
  /\ stack' = Tail(stack)
  /\ UNCHANGED <<heap, roots, marked, overflow, phase, scan>>

\* Mutation: the last element of an array is taken as already scanned.
NextOfArray_offByOne(b, pos) ==
  IF pos + 1 < Len(Refs(b))
  THEN /\ stack' = <<Entry(b, pos + 1)>> \o Tail(stack)
       /\ gsp' = gsp
  ELSE /\ stack' = Tail(stack)
       /\ gsp' = gsp + 2

\* Leave the array on the stack when elements follow the one at pos.
NextOfArray(b, pos) ==
  IF pos + 1 <= Len(Refs(b))
  THEN /\ stack' = <<Entry(b, pos + 1)>> \o Tail(stack)
       /\ gsp' = gsp
  ELSE /\ stack' = Tail(stack)
       /\ gsp' = gsp + 2

\* gc_mark_flush on a value array: the leading non-pointers are skipped, one
\* element is marked and the array stays on the stack for the others.
FlushArray ==
  /\ todo = <<>> /\ stack # <<>>
  /\ LET b == Head(stack).blk
         i == Head(stack).pos
     IN /\ IsArray(b)
        /\ \/ \E j \in i .. Len(Refs(b)) :
                /\ Refs(b)[j] # Imm
                /\ \A k \in i .. (j - 1) : Refs(b)[k] = Imm
                /\ NextOfArray(b, j)
                /\ todo' = <<Refs(b)[j]>>
           \/ /\ \A k \in i .. Len(Refs(b)) : Refs(b)[k] = Imm
              /\ stack' = Tail(stack)
              /\ gsp' = gsp + 2
              /\ todo' = <<>>
  /\ UNCHANGED <<heap, roots, marked, overflow, phase, scan>>

\* Mutation: a scan is started without clearing the overflow flag.
StartScan_keepFlag ==
  /\ Idle /\ overflow
  /\ \/ phase = "roots" /\ roots = <<>>
     \/ phase = "scan" /\ scan = NBlocks + 1
  /\ UNCHANGED overflow
  /\ phase' = "scan"
  /\ scan' = 1
  /\ UNCHANGED <<heap, roots, marked, stack, gsp, todo>>

\* while (s->overflow): a new pass over the whole heap.
StartScan ==
  /\ Idle /\ overflow
  /\ \/ phase = "roots" /\ roots = <<>>
     \/ phase = "scan" /\ scan = NBlocks + 1
  /\ overflow' = FALSE
  /\ phase' = "scan"
  /\ scan' = 1
  /\ UNCHANGED <<heap, roots, marked, stack, gsp, todo>>

\* One block of the pass; its push is not guarded by the room that is left.
ScanBlock ==
  /\ phase = "scan" /\ Idle /\ scan <= NBlocks
  /\ IF scan \in marked /\ mtag_has_references(scan)
     THEN /\ stack' = <<Entry(scan, 1)>>
          /\ gsp' = gsp - EntrySize(scan)
     ELSE UNCHANGED <<stack, gsp>>
  /\ scan' = scan + 1
  /\ UNCHANGED <<heap, roots, marked, todo, overflow, phase>>

MarkDone ==
  /\ Idle /\ ~overflow
  /\ \/ phase = "roots" /\ roots = <<>>
     \/ phase = "scan" /\ scan = NBlocks + 1
  /\ phase' = "done"
  /\ UNCHANGED <<heap, roots, marked, stack, gsp, todo, overflow, scan>>

Next ==
  \/ MarkRoot
  \/ Skip
  \/ Mark
  \/ FlushObject
  \/ FlushArray
  \/ StartScan
  \/ ScanBlock
  \/ MarkDone

Spec == Init /\ [][Next]_vars

\* The collector is a loop in one C function: it keeps running.
FairSpec == Spec /\ WF_vars(Next)
-----------------------------------------------------------------------------
(* Properties.                                                             *)

\* The blocks a set must hold to be what the collector has to keep: the roots
\* and, with a block, all its references.
Closed(S) ==
  /\ \A i \in DOMAIN heap.root : heap.root[i] \in Block => heap.root[i] \in S
  /\ \A b \in S : mtag_has_references(b) =>
       \A i \in DOMAIN Refs(b) : Refs(b)[i] \in Block => Refs(b)[i] \in S

\* The blocks reachable from the roots: the least closed set.
Reachable == {b \in Block : \A S \in SUBSET Block : Closed(S) => b \in S}

\* Types, and the mark stack never grows below gs_bottom into the heap, not
\* even by the unguarded push of an overflow pass.
TypeOK ==
  /\ heap \in Heaps
  /\ roots \in Seq(Val)
  /\ marked \subseteq Block
  /\ stack \in Seq([blk : Block, pos : Nat \ {0}])
  /\ gsp \in Nat
  /\ todo \in Seq(Val)
  /\ overflow \in BOOLEAN
  /\ phase \in {"roots", "scan", "done"}
  /\ scan \in 1 .. (NBlocks + 1)

\* Element i of b waits on the mark stack.
Waits(b, i) == \E k \in DOMAIN stack : stack[k].blk = b /\ stack[k].pos <= i

\* A reference of a marked block is marked, about to be, on the mark stack, or
\* will be found by a pass over the heap that is under way or must follow.
Tricolor ==
  \A b \in marked : mtag_has_references(b) =>
    \/ overflow
    \/ phase = "scan" /\ b >= scan
    \/ \A i \in DOMAIN Refs(b) : Refs(b)[i] \in Block =>
         \/ Refs(b)[i] \in marked
         \/ Refs(b)[i] \in Range(todo)
         \/ Waits(b, i)

\* When marking ends, exactly the reachable blocks are marked, however small
\* the mark stack was: nothing live is freed and no garbage survives.
MarkExact == phase = "done" => marked = Reachable

\* The repeated passes over the heap come to an end.
MarkTerminates == <>(phase = "done")
=============================================================================
