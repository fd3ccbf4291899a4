------------------------------ MODULE MCGCMark ------------------------------
(* The mark phase (GCMark) and the table of unique strings (UniqueStrings), *)
(* each on its own.  part says which of them a behaviour is one of; the     *)
(* variables of the other keep one value.                                   *)
EXTENDS GCMark, UniqueStrings

VARIABLE part
all == <<part, vars, stringsVars>>

(* GCMark: every heap of four blocks with one or two fields.  The mark      *)
(* stack has two words, one array or two objects: a block that refers to    *)
(* two arrays overflows it.                                                 *)
Imm0 == 0
V == 0 .. 4

Leaf == [mtag : {"leaf"}, refs : {<<>>}]
Single == [mtag : {"object"}, refs : {<<x>> : x \in V}]
            \cup [mtag : {"value_array"}, refs : {<<0, x>> : x \in V}]
Fork == [mtag : {"object", "value_array"}, refs : {<<2, 3>>, <<3, 4>>}]

SomeBlocks == Leaf \cup Single \cup Fork
SomeRoots == {<<0, 1>>}

(* UniqueStrings: five strings in different order of content and address,   *)
(* one more equal to either of two of them and one equal to an atom in ROM: *)
(* the table grows twice, and the second time has a spare element.          *)
MCStr == 1 .. 7
MCContent == 1 .. 7
MCMayHold == << {2}, {1}, {4}, {3}, {5}, {2, 5}, {7} >>
ASSUME ContentAssumption

(* The end of the mark phase of a heap of leaves.                           *)
NoMarking ==
  /\ heap = [block |-> [b \in Block |-> [mtag |-> "leaf", refs |-> <<>>]], root |-> <<0, 1>>]
  /\ roots = <<>> /\ marked = {1} /\ stack = <<>> /\ gsp = GsSize
  /\ todo = <<>> /\ overflow = FALSE /\ phase = "done" /\ scan = 1
MarkInit ==
  /\ StringsInit
  /\ \/ part = "marking" /\ Init
     \/ part = "strings" /\ NoMarking
MarkNext ==
  \/ part = "marking" /\ Next /\ UNCHANGED <<part, stringsVars>>
  \/ part = "strings" /\ StringsNext /\ UNCHANGED <<part, vars>>

(* The fairness of GCMark: the mark phase goes on.                          *)
MarkSpec == MarkInit /\ [][MarkNext]_all /\ WF_vars(Next)

(* The type invariants of the two. *)
TypesOK == TypeOK /\ StringsTypeOK
=============================================================================
