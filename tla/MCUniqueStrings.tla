-------------------------- MODULE MCUniqueStrings --------------------------
(* Six strings in different order of content and address, one more equal   *)
(* to either of two of them and one equal to an atom in ROM: the table     *)
(* grows to five elements and a spare one, which the sixth takes.          *)
EXTENDS UniqueStrings

Blocks == 1 .. 7
Uses == << {2}, {1}, {4}, {3}, {5}, {2, 5}, {7} >>
=============================================================================
