------------------------------ MODULE Ranking ------------------------------
(***************************************************************************)
(* Arrays whose elements move together over those that are dropped, as     *)
(* js_compact_props does with properties and gc_mark_all with the table of *)
(* unique strings: the j-th element afterwards is the j-th of those kept.  *)
(***************************************************************************)
EXTENDS Integers, FiniteSets

\* How many numbers of S there are up to i.
Rank(S, i) == Cardinality({l \in S : l <= i})

\* The j-th of the numbers in S.
Nth(S, j) == CHOOSE i \in S : Rank(S, i) = j
=============================================================================
