----------------------------- MODULE MCGateway -----------------------------
(* Instances of Gateway for TLC.                                           *)
EXTENDS Gateway, TLC

CONSTANTS w1, w2, o1, o2
Symmetry == Permutations(Workers) \cup Permutations(Operators)
=============================================================================
