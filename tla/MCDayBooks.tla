----------------------------- MODULE MCDayBooks -----------------------------
(* Small instances of DayBooks: days of two documents. *)
EXTENDS DayBooks, TLC

CONSTANTS d1, d2

Day(x, y) == d1 :> x @@ d2 :> y
MCDays == {Day("expense", "sale"), Day("sale", "expense"), Day("purchase", "sale"),
           Day("production", "flour"), Day("payroll", "attendance"), Day("debt", "fuel"),
           Day("card", "sale"), Day("sale", "card"), Day("card", "payout")}
MCAmount == d1 :> 1 @@ d2 :> 4
MCPaid   == d1 :> 1 @@ d2 :> 1
MCMethod == d1 :> "card" @@ d2 :> "terminal"
MCQuestions == {{}, {"fuel", "expense"}}
MCSymmetry == Permutations(Req)
=============================================================================
