----------------------------- MODULE MCCashBox -----------------------------
(* A small instance of CashBox. *)
EXTENDS CashBox, TLC

MCSymmetry == Permutations(Entry \ Payment) \cup Permutations(Closing)
=============================================================================
