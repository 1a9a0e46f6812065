------------------------------ MODULE MCChain ------------------------------
(* A small instance of Chain for TLC: an int64 of four bits.                *)
EXTENDS Chain, TLC

MCStamps == -8 .. 7
Symmetry == Permutations(Jobs) \cup Permutations(Admins) \cup Permutations(Consumers)
=============================================================================
