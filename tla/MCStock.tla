------------------------------ MODULE MCStock ------------------------------
(* A small instance of Stock. *)
EXTENDS Stock, TLC

MCAmounts == {-1, 1}

MCSymmetry == Permutations(Req) \cup Permutations(Flour)
=============================================================================
