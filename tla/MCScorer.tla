------------------------------ MODULE MCScorer ------------------------------
(* Scorer on three interchangeable nodes. *)
EXTENDS Scorer, TLC

CONSTANTS a, b, c

NodeSymmetry == Permutations(Nodes)
=============================================================================
