------------------------------- MODULE MCHeap -------------------------------
(* What lives in the heap: Collector, PropTable and VarRefs, each on its    *)
(* own.  part says which of them a behaviour is one of; the variables of    *)
(* the others keep one value.                                               *)
EXTENDS MCCollector, PropTable, VarRefs

VARIABLE part

all == <<part, vars, propsVars, refsVars>>

(* PropTable: three keys, one of them an atom in ROM; two hash functions,   *)
(* one with all keys in one bucket.  The third property doubles the mask of *)
(* a small table; an object may be created with five properties, and then   *)
(* has a mask of 3 that compaction reduces.                                 *)
MCHash == {<< 1, 2, 3 >>, << 1, 1, 1 >>}
MCRomProps == {<<1>>}

(* VarRefs: two closures at a time and calls two deep.  A function captures *)
(* both variables of the call that creates it, or one of them, or the first *)
(* variable that this call captured itself.                                 *)
OfCall(x) == [kind |-> "var", idx |-> x]
OfClosure(i) == [kind |-> "var_ref", idx |-> i]
MCCaptures == {<<OfCall(2), OfCall(1)>>, <<OfCall(1)>>, <<OfClosure(1)>>}

ASSUME PropTableAssumption /\ VarRefsAssumption

NoCollection == mem = <<>> /\ heap_free = 1 /\ phase = "swept" /\ ptr = 1 /\ unique_strings_len = 0 /\ before = <<>>
                  /\ finalized = <<>> /\ marked_mem = <<>> /\ swept_mem = <<>> /\ ext = -1 /\ new_ptr = 1
NoProps == props = empty_props /\ hash = << 1, 2, 3 >> /\ rom = FALSE
HeapInit ==
  /\ RefsInit
  /\ \/ part = "collector" /\ Init /\ NoProps
     \/ part = "closures" /\ NoCollection /\ NoProps
     \/ part = "properties" /\ NoCollection /\ PropsInit
HeapNext ==
  \/ part = "collector" /\ Next /\ UNCHANGED <<part, propsVars, refsVars>>
  \/ part = "properties" /\ PropsNext /\ UNCHANGED <<part, vars, refsVars>>
  \/ part = "closures" /\ RefsNext /\ UNCHANGED <<part, vars, propsVars>>
HeapSpec == HeapInit /\ [][HeapNext]_all

(* The type invariants of the three. *)
TypesOK ==
  /\ part = "collector" => TypeOK
  /\ PropsTypeOK
  /\ RefsTypeOK
=============================================================================
