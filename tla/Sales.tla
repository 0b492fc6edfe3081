-------------------------------- MODULE Sales --------------------------------
(***************************************************************************)
(* Sales and the accounts of customers: create and void of                 *)
(* backend/src/sales/sales.service.ts and addTransaction of                *)
(* backend/src/customers/customers.service.ts, with the numbers they take  *)
(* from DocumentSequence and the cash they enter in CashBox.               *)
(*                                                                         *)
(* A sale is named from the moment its request arrives by the id its row   *)
(* will have.  Its transaction inserts the row, looks for the open cash    *)
(* box, and commits; voiding is a check and two updates with no            *)
(* transaction around them.  Whatever fails after the commit (the audit    *)
(* log, the closing findOne) changes nothing any more and is left out.     *)
(***************************************************************************)
EXTENDS CashBox, DocumentSequence, Integers, FiniteSetsExt

CONSTANTS
  Sale,         \* requests to create a sale
  Void,         \* requests to void one
  Customer,
  NoCustomer,
  Empty,        \* paidAmount left out
  NoSale,
  Terms,        \* what a sale may be asked for, totalAmount computed
  Amounts,      \* what addTransaction adds to a balance: debts, and payments as negatives
  MaxLedger     \* bound: how far the customers' own transactions may go, either way

ASSUME SaleAssumption == Doc = Sale /\ Sale \subseteq Entry \ Payment /\ NoSale \notin Sale
ASSUME TermsAssumption ==
  Terms \subseteq [customer : Customer \cup {NoCustomer},
                   method   : {"CASH", "CARD", "CREDIT"},
                   total    : Nat,
                   paid     : Nat \cup {Empty}]
ASSUME AmountsAssumption == Amounts \subseteq Int /\ MaxLedger \in Nat

VARIABLES
  stage,        \* stage[s]: how far sale s is; once committed, its status
  terms,        \* terms[s]: what it was asked for
  ledger,       \* ledger[c]: the sum of c's customer transactions, payments negative
  balance,      \* balance[c]: the column of the customer's row
  voiding,      \* voiding[v]: how far request v is
  voided,       \* voided[v]: the sale that v has found ACTIVE
  torn,         \* history: sales whose void failed between its two updates
  twice         \* history: sales with two voids under way at once

saleVars == <<stage, terms, ledger, balance, voiding, voided, torn, twice>>
vars == <<saleVars, cashVars, numberVars>>

Stages == {"new", "reading", "writing", "creating", "committing", "ACTIVE", "VOIDED",
           "failed", "duplicate"}

SalesTypeOK ==
  /\ CashTypeOK
  /\ NumbersOK
  /\ stage   \in [Sale -> Stages]
  /\ terms   \in [Sale -> Terms \cup {Empty}]
  /\ \A s \in Sale : stage[s] # "new" => terms[s] \in Terms
  /\ ledger  \in [Customer -> Int]
  /\ balance \in [Customer -> Int]
  /\ voiding \in [Void -> {"new", "updating", "correcting", "done"}]
  /\ voided  \in [Void -> Sale \cup {NoSale}]
  /\ torn    \subseteq Sale
  /\ twice   \subseteq Sale

SalesInit ==
  /\ CashInit
  /\ NumbersInit
  /\ stage   = [s \in Sale |-> "new"]
  /\ terms   = [s \in Sale |-> Empty]
  /\ ledger  = [c \in Customer |-> 0]
  /\ balance = [c \in Customer |-> 0]
  /\ voiding = [v \in Void |-> "new"]
  /\ voided  = [v \in Void |-> NoSale]
  /\ torn    = {}
  /\ twice   = {}

Becomes(s, st) == stage' = [stage EXCEPT ![s] = st]

accounts == <<terms, ledger, balance, voiding, voided, torn, twice>>

-----------------------------------------------------------------------------
(* What a sale comes to.                                                   *)

\* paidAmount, when it is left out, is the whole amount.
Paid(t) == IF t.paid = Empty THEN t.total ELSE t.paid

\* remainingDebt, where it is positive and there is a customer to bear it.
Debt(t) ==
  IF t.customer # NoCustomer /\ t.total > Paid(t) THEN t.total - Paid(t) ELSE 0

-----------------------------------------------------------------------------
(* create.                                                                 *)

\* The checks; the prices and the total are computed from data that create only reads.
Begin(s, t) ==
  /\ stage[s] = "new"
  /\ t.method = "CREDIT" => t.customer # NoCustomer
  /\ terms' = [terms EXCEPT ![s] = t]
  /\ Becomes(s, "reading")
  /\ UNCHANGED <<ledger, balance, voiding, voided, torn, twice, cashVars, numberVars>>

ReadNumber(s) ==
  /\ stage[s] = "reading"
  /\ NextReads(s)
  /\ Becomes(s, "writing")
  /\ UNCHANGED <<accounts, cashVars>>

WriteNumber(s) ==
  /\ stage[s] = "writing"
  /\ \/ NextWrites(s) /\ Becomes(s, "creating")
     \/ NextThrows(s) /\ Becomes(s, "failed")
  /\ UNCHANGED <<accounts, cashVars>>

Committed(s) == stage[s] \in {"ACTIVE", "VOIDED"}

\* The row inserted by another sale's transaction, committed or not, has the number of s.
SameNumber(s, x) == x # s /\ docNumber[x] = docNumber[s]

\* sale.create in its transaction, and, for cash, the search for the open box.  The insert
\* waits for the transaction that holds the same docNumber to end.
Insert(s) ==
  /\ stage[s] = "creating"
  /\ \A x \in Sale : SameNumber(s, x) => ~(Committed(x) \/ stage[x] = "committing")
  /\ IF terms[s].method = "CASH"
       THEN (FindLatest(s) \/ FindNone(s)) /\ Watch
       ELSE UNCHANGED cashVars
  /\ Becomes(s, "committing")
  /\ UNCHANGED <<accounts, numberVars>>

\* docNumber is unique: the whole transaction rolls back.
Duplicate(s) ==
  /\ stage[s] = "creating"
  /\ \E x \in Sale : SameNumber(s, x) /\ Committed(x)
  /\ Becomes(s, "duplicate")
  /\ UNCHANGED <<accounts, cashVars, numberVars>>

\* The debt's row and the increment of the balance.
Charge(c, amount) ==
  /\ ledger'  = [ledger EXCEPT ![c] = @ + amount]
  /\ balance' = [balance EXCEPT ![c] = @ + amount]

\* The transaction commits: the sale with its payment, the cash, the debt.
Commit(s) ==
  /\ stage[s] = "committing"
  /\ IF entering[s] = "found" THEN Enter(s) /\ Watch ELSE UNCHANGED cashVars
  /\ IF Debt(terms[s]) > 0
       THEN Charge(terms[s].customer, Debt(terms[s]))
       ELSE UNCHANGED <<ledger, balance>>
  /\ Becomes(s, "ACTIVE")
  /\ UNCHANGED <<terms, voiding, voided, torn, twice, numberVars>>

\* The handler throws or the server stops; nothing but the number remains.
CreateFails(s) ==
  /\ stage[s] \in {"reading", "writing", "creating", "committing"}
  /\ IF entering[s] = "found" THEN EntryFails(s) /\ Watch ELSE UNCHANGED cashVars
  /\ Becomes(s, "failed")
  /\ UNCHANGED <<accounts, numberVars>>

-----------------------------------------------------------------------------
(* void.                                                                   *)

VoidUnderWay(v, s) == voided[v] = s /\ voiding[v] \in {"updating", "correcting"}

\* findOne and the check of the status.
CheckActive(v, s) ==
  /\ voiding[v] = "new"
  /\ stage[s] = "ACTIVE"
  /\ voiding' = [voiding EXCEPT ![v] = "updating"]
  /\ voided'  = [voided EXCEPT ![v] = s]
  /\ twice'   = twice \cup {x \in {s} : \E w \in Void : VoidUnderWay(w, x)}
  /\ UNCHANGED <<stage, terms, ledger, balance, torn, cashVars, numberVars>>

UpdateStatus(v) ==
  /\ voiding[v] = "updating"
  /\ Becomes(voided[v], "VOIDED")
  /\ voiding' = [voiding EXCEPT ![v] =
                   IF Debt(terms[voided[v]]) > 0 THEN "correcting" ELSE "done"]
  /\ UNCHANGED <<terms, ledger, balance, voided, torn, twice, cashVars, numberVars>>

\* A faulty variant of CorrectBalance: the whole amount of the sale is taken off.
CorrectByTotal(v) ==
  /\ voiding[v] = "correcting"
  /\ LET t == terms[voided[v]]
     IN  balance' = [balance EXCEPT ![t.customer] = @ - t.total]
  /\ voiding' = [voiding EXCEPT ![v] = "done"]
  /\ UNCHANGED <<stage, terms, ledger, voided, torn, twice, cashVars, numberVars>>

\* The decrement of the balance.  No row of the ledger goes with it, and the cash that
\* was entered stays.
CorrectBalance(v) ==
  /\ voiding[v] = "correcting"
  /\ LET t == terms[voided[v]]
     IN  balance' = [balance EXCEPT ![t.customer] = @ - Debt(t)]
  /\ voiding' = [voiding EXCEPT ![v] = "done"]
  /\ UNCHANGED <<stage, terms, ledger, voided, torn, twice, cashVars, numberVars>>

\* The handler throws or the server stops.
VoidFails(v) ==
  /\ voiding[v] \in {"updating", "correcting"}
  /\ torn'    = IF voiding[v] = "correcting" THEN torn \cup {voided[v]} ELSE torn
  /\ voiding' = [voiding EXCEPT ![v] = "done"]
  /\ UNCHANGED <<stage, terms, ledger, balance, voided, twice, cashVars, numberVars>>

-----------------------------------------------------------------------------
(* The customers' own transactions.                                        *)

\* addTransaction: one row and one increment, in a transaction.
AddTransaction(c, amount) ==
  /\ ledger[c] + amount \in -MaxLedger .. MaxLedger
  /\ Charge(c, amount)
  /\ UNCHANGED <<stage, terms, voiding, voided, torn, twice, cashVars, numberVars>>

CashAlone ==
  /\ CashStep(Entry \ Sale)
  /\ Watch
  /\ UNCHANGED <<saleVars, numberVars>>

SaleStep(s) ==
  \/ \E t \in Terms : Begin(s, t)
  \/ ReadNumber(s)
  \/ WriteNumber(s)
  \/ Insert(s)
  \/ Duplicate(s)
  \/ Commit(s)
  \/ CreateFails(s)

VoidStep(v) ==
  \/ \E s \in Sale : CheckActive(v, s)
  \/ UpdateStatus(v)
  \/ CorrectBalance(v)
  \/ VoidFails(v)

SalesNext ==
  \/ \E s \in Sale : SaleStep(s)
  \/ \E v \in Void : VoidStep(v)
  \/ \E c \in Customer, amount \in Amounts : AddTransaction(c, amount)
  \/ CashAlone

SalesSpec == SalesInit /\ [][SalesNext]_vars

-----------------------------------------------------------------------------
(* What the books promise.                                                 *)

SalesOf(c) == {s \in Sale : stage[s] # "new" /\ terms[s].customer = c}

\* Nothing is under way, was left half done or overlapped among the voids of c's sales.
Settled(c) ==
  \A s \in SalesOf(c) :
    /\ s \notin torn \cup twice
    /\ \A v \in Void : voided[v] = s => voiding[v] # "correcting"

Debts(S) == SumFunction([s \in S |-> Debt(terms[s])])

\* The balance of a customer is what the transactions say, less the debts of the sales
\* that were voided (sales.service.ts lines 112-120 and 142-150, customers.service.ts
\* lines 50-58).
BalancesAgree ==
  \A c \in Customer : Settled(c) =>
    balance[c] = ledger[c] - Debts({s \in SalesOf(c) : stage[s] = "VOIDED"})

\* A sale is refused because its number is taken only after two calls of next have
\* overlapped, be it much earlier (document-sequence.service.ts lines 22-35).
DuplicateNeedsRace == \A s \in Sale : stage[s] = "duplicate" => rewound

\* Why: the inductive invariant of the proofs.  A void works on a sale that was committed,
\* and corrects a balance only for a debt; numbers are distinct as long as the counter
\* has never been set back.
VoidsOK ==
  \A v \in Void :
    /\ voiding[v] \in {"updating", "correcting"} =>
         voided[v] \in Sale /\ Committed(voided[v])
    /\ voiding[v] = "correcting" => Debt(terms[voided[v]]) > 0

SalesInv ==
  /\ SalesTypeOK
  /\ VoidsOK
  /\ NumbersDistinct
  /\ \A s \in Sale : stage[s] = "creating" => docNumber[s] > 0
  /\ DuplicateNeedsRace

\* And of the balances.  Of a sale's voids no two are under way, and none has its status
\* still before it when the sale is VOIDED, unless two of them overlapped.
OneVoid ==
  \A s \in Sale \ twice : \A v \in Void : VoidUnderWay(v, s) =>
    /\ \A w \in Void : VoidUnderWay(w, s) => w = v
    /\ stage[s] = "VOIDED" <=> voiding[v] = "correcting"

\* The sales of c whose debts have been taken off again.
TakenOff(c) ==
  {s \in SalesOf(c) : stage[s] = "VOIDED"
                        /\ \A v \in Void : ~(voided[v] = s /\ voiding[v] = "correcting")}

\* At every moment, not only when nothing is under way: the balance lacks the debts that
\* have been taken off, and no others.
BalancesInv ==
  /\ IsFiniteSet({s \in Sale : stage[s] # "new"})
  /\ OneVoid
  /\ \A c \in Customer : SalesOf(c) \cap (torn \cup twice) = {} =>
       balance[c] = ledger[c] - Debts(TakenOff(c))

\* What the DTO says of paidAmount (create-sale.dto.ts line 55): left empty on a sale on
\* credit, the whole amount becomes the customer's debt.
CreditBecomesDebt ==
  \A s \in Sale : stage[s] = "ACTIVE" /\ terms[s].method = "CREDIT"
                    /\ terms[s].paid = Empty => Debt(terms[s]) = terms[s].total
=============================================================================
