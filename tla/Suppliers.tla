----------------------------- MODULE Suppliers -----------------------------
(***************************************************************************)
(* What is owed to suppliers: create of                                    *)
(* backend/src/purchases/purchases.service.ts, with its number from        *)
(* DocumentSequence, recordPayment and debtReport of                       *)
(* backend/src/suppliers/suppliers.service.ts.  The suppliers are rows of  *)
(* Catalog.                                                                *)
(*                                                                         *)
(* The rows that go with a change of the balance, SupplierTransaction and  *)
(* Payment, commit with it.  The audit log and findOne after the commit    *)
(* change nothing.                                                         *)
(***************************************************************************)
EXTENDS Catalog, DocumentSequence, Integers, Functions

CONSTANTS
  Purchase,     \* requests to record a purchase
  Payout,       \* requests to record a payment to a supplier
  Orders,       \* what a purchase may be asked for: its total and what is paid of it
  Payments,     \* what may be paid
  Empty         \* paidAmount left out

Supplier == {x \in Row : kindOf[x] = "supplier"}
NoOrder  == [total |-> 0, paid |-> 0]

ASSUME SupplierAssumption ==
  /\ Doc = Purchase /\ Purchase \cup Payout \subseteq Actor /\ Purchase \cap Payout = {}
ASSUME OrderAssumption ==
  /\ Orders \subseteq [total : Nat, paid : Nat \cup {Empty}]
  /\ Payments \subseteq Int      \* recordPayment's body is not validated

VARIABLES
  buying,       \* buying[p]: how far purchase p is
  order,        \* order[p]: what it is for
  from,         \* from[q]: the supplier of purchase or payment q, or NoRow
  paying,       \* paying[q]: how far payment q is
  sum,          \* sum[q]: what it pays
  balance       \* balance[x]: the column of the supplier's row

supplierVars == <<buying, order, from, paying, sum, balance, numberVars>>

SuppliersTypeOK ==
  /\ NumbersOK
  /\ buying  \in [Purchase -> {"new", "reading", "writing", "committing", "committed", "failed"}]
  /\ order   \in [Purchase -> Orders \cup {NoOrder}]
  /\ from    \in [Purchase \cup Payout -> Row \cup {NoRow}]
  /\ paying  \in [Payout -> {"new", "committing", "committed", "failed"}]
  /\ sum     \in [Payout -> Payments \cup {0}]
  /\ balance \in [Row -> Int]

SuppliersInit ==
  /\ NumbersInit
  /\ buying  = [p \in Purchase |-> "new"]
  /\ order   = [p \in Purchase |-> NoOrder]
  /\ from    = [q \in Purchase \cup Payout |-> NoRow]
  /\ paying  = [q \in Payout |-> "new"]
  /\ sum     = [q \in Payout |-> 0]
  /\ balance = [x \in Row |-> 0]

PurchaseGoes(p, st) == buying' = [buying EXCEPT ![p] = st]

-----------------------------------------------------------------------------
(* Purchases.                                                              *)

\* paidAmount, when it is left out, is the whole; more than the whole leaves no debt.
PaidOf(o) == IF o.paid = Empty THEN o.total ELSE o.paid
DebtOf(o) == IF o.total > PaidOf(o) THEN o.total - PaidOf(o) ELSE 0

\* The supplier, if one is given, is looked up: a removed one is found as well.
CheckSupplier(p, o, x) ==
  /\ p \in scene.who /\ buying[p] = "new"
  /\ x = NoRow \/ x \in Supplier \cap Visible
  /\ order' = [order EXCEPT ![p] = o]
  /\ from'  = [from EXCEPT ![p] = x]
  /\ PurchaseGoes(p, "reading")
  /\ UNCHANGED <<paying, sum, balance, numberVars>>

ReadPurchaseNumber(p) ==
  /\ buying[p] = "reading"
  /\ NextReads(p)
  /\ PurchaseGoes(p, "writing")
  /\ UNCHANGED <<order, from, paying, sum, balance>>

WritePurchaseNumber(p) ==
  /\ buying[p] = "writing"
  /\ \/ NextWrites(p) /\ PurchaseGoes(p, "committing")
     \/ NextThrows(p) /\ PurchaseGoes(p, "failed")
  /\ UNCHANGED <<order, from, paying, sum, balance>>

Taken(p) == \E x \in Purchase : buying[x] = "committed" /\ docNumber[x] = docNumber[p]

\* A faulty variant of CommitPurchase: the debt is set, not added.
CommitSetting(p) ==
  /\ buying[p] = "committing" /\ ~Taken(p)
  /\ balance' = [x \in Row |-> IF x = from[p] /\ DebtOf(order[p]) > 0
                                      THEN DebtOf(order[p]) ELSE balance[x]]
  /\ PurchaseGoes(p, "committed")
  /\ UNCHANGED <<order, from, paying, sum, numberVars>>

\* The transaction: the purchase and, with a supplier, the increment of the balance.
CommitPurchase(p) ==
  /\ buying[p] = "committing" /\ ~Taken(p)
  /\ balance' = [x \in Row |-> IF x = from[p] THEN balance[x] + DebtOf(order[p])
                                                   ELSE balance[x]]
  /\ PurchaseGoes(p, "committed")
  /\ UNCHANGED <<order, from, paying, sum, numberVars>>

\* docNumber is unique: nothing is recorded.  Or a call of the database fails.
PurchaseFails(p) ==
  /\ buying[p] \in {"reading", "writing", "committing"}
  /\ PurchaseGoes(p, "failed")
  /\ UNCHANGED <<order, from, paying, sum, balance, numberVars>>

-----------------------------------------------------------------------------
(* Payments and the report.                                                *)

\* findOne: the supplier must not have been removed.
BeginPayment(q, x, n) ==
  /\ q \in scene.who /\ paying[q] = "new"
  /\ x \in Supplier /\ row[x] = "live"
  /\ from'   = [from EXCEPT ![q] = x]
  /\ sum'    = [sum EXCEPT ![q] = n]
  /\ paying' = [paying EXCEPT ![q] = "committing"]
  /\ UNCHANGED <<buying, order, balance, numberVars>>

\* The transaction: the payment and the decrement of the balance.
RecordPayment(q) ==
  /\ paying[q] = "committing"
  /\ balance' = [balance EXCEPT ![from[q]] = @ - sum[q]]
  /\ paying'  = [paying EXCEPT ![q] = "committed"]
  /\ UNCHANGED <<buying, order, from, sum, numberVars>>

PaymentFails(q) ==
  /\ paying[q] = "committing"
  /\ paying' = [paying EXCEPT ![q] = "failed"]
  /\ UNCHANGED <<buying, order, from, sum, balance, numberVars>>

\* totalPayable: what is owed to those not removed, where it is more than nothing.
LiveSupplier == {x \in Supplier : row[x] = "live"}
DebtReport   == SumFunctionOnSet(balance, {x \in LiveSupplier : balance[x] > 0})

SupplierStep ==
  \/ \E p \in Purchase :
       \/ \E o \in Orders, x \in Row \cup {NoRow} : CheckSupplier(p, o, x)
       \/ ReadPurchaseNumber(p) \/ WritePurchaseNumber(p)
       \/ CommitPurchase(p) \/ PurchaseFails(p)
  \/ \E q \in Payout :
       \/ \E x \in Row, n \in Payments : BeginPayment(q, x, n)
       \/ RecordPayment(q) \/ PaymentFails(q)

-----------------------------------------------------------------------------

Unpaid    == [p \in Purchase |-> DebtOf(order[p])]
Bought(X) == SumFunctionOnSet(Unpaid, {p \in Purchase : buying[p] = "committed" /\ from[p] \in X})
PaidTo(X) == SumFunctionOnSet(sum, {q \in Payout : paying[q] = "committed" /\ from[q] \in X})

\* A supplier's balance is what its purchases left unpaid, less what was paid to it; and what
\* the report calls payable is that over all purchases and payments of those not removed by
\* now, but for what some of them were paid too much (purchases.service.ts line 91,
\* suppliers.service.ts lines 55 and 64-70).
PayableAccounted ==
  /\ \A x \in Row : balance[x] = Bought({x}) - PaidTo({x})
  /\ DebtReport + SumFunctionOnSet(balance, {x \in LiveSupplier : balance[x] < 0})
       = Bought(LiveSupplier) - PaidTo(LiveSupplier)
=============================================================================
