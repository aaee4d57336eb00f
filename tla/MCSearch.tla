------------------------------ MODULE MCSearch ------------------------------
(* Search with two texts to type, which are alike. *)
EXTENDS Search, TLC

CONSTANTS q1, q2

Symmetry == Permutations(Queries)
=============================================================================
