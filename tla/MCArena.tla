------------------------------ MODULE MCArena ------------------------------
(* Sizes scaled down: the order of the constants is that of the code.      *)
EXTENDS Arena
=============================================================================
