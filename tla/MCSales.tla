------------------------------ MODULE MCSales ------------------------------
(* Small instances of Sales: cash sales, to a passer-by and to a customer who pays a *)
(* part, and for the question of paidAmount a sale on credit that leaves it out.     *)
EXTENDS Sales, TLC

CONSTANT c1

Ask(customer, method, total, paid) ==
  [customer |-> customer, method |-> method, total |-> total, paid |-> paid]

MCTerms       == {Ask(NoCustomer, "CASH", 1, Empty), Ask(c1, "CASH", 3, 1)}
MCCreditTerms == {Ask(c1, "CREDIT", 2, Empty), Ask(c1, "CREDIT", 2, 0)}
MCAmounts     == {-1}
MCSymmetry    == Permutations(Sale) \cup Permutations(Void)
=============================================================================
