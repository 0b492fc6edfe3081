---------------------------- MODULE Sales_proofs ----------------------------
(***************************************************************************)
(* Proofs about CashBox, for any number of days, entries and closings, and *)
(* about Sales, for any number of sales, voids and customers.              *)
(*                                                                         *)
(* Sales is CashBox with more to it: every step of Sales is a step of      *)
(* CashBox or leaves the boxes alone, so what is proved of the cash boxes  *)
(* holds among sales too.  The inductive invariants are CashInv, SalesInv  *)
(* and BalancesInv; each lemma shows that one step keeps one part.         *)
(***************************************************************************)
EXTENDS Sales, SumTheorems

USE DEF cashVars

-----------------------------------------------------------------------------
\* Every step keeps the types: openDay, the steps that enter cash, those of closeDay.
LEMMA EntryTypes ==
  ASSUME CashTypeOK, Watch, NEW e \in Entry, EntryStep(e)
  PROVE  CashTypeOK'
<1> USE DayAssumption
<1>1. ASSUME NEW d \in Day, FindNamed(e, d) PROVE CashTypeOK'
  BY <1>1 DEF CashTypeOK, Watch, FindNamed, Finds
<1>2. CASE FindLatest(e)
  <2>1. PICK d \in Day : Finds(e, d)
    BY <1>2 DEF FindLatest, LatestOpen, OpenDays
  <2> QED
    BY <1>2, <2>1 DEF CashTypeOK, Watch, FindLatest, Finds
<1>3. CASE FindNone(e)
  BY <1>3 DEF CashTypeOK, Watch, FindNone
<1>4. CASE Enter(e)
  BY <1>4 DEF CashTypeOK, Watch, Enter
<1>5. CASE EntryFails(e)
  BY <1>5 DEF CashTypeOK, Watch, EntryFails
<1> QED
  BY <1>1, <1>2, <1>3, <1>4, <1>5 DEF EntryStep

LEMMA ClosingTypes ==
  ASSUME CashTypeOK, Watch, NEW k \in Closing, ClosingStep(k)
  PROVE  CashTypeOK'
<1> USE DayAssumption
<1>1. ASSUME NEW d \in Day, CheckOpen(k, d) PROVE CashTypeOK'
  BY <1>1 DEF CashTypeOK, Watch, CheckOpen
<1>2. CASE Calculate(k)
  BY <1>2 DEF CashTypeOK, Watch, Calculate
<1>3. CASE Close(k)
  BY <1>3 DEF CashTypeOK, Watch, Close
<1>4. CASE ClosingFails(k)
  BY <1>4 DEF CashTypeOK, Watch, ClosingFails
<1> QED
  BY <1>1, <1>2, <1>3, <1>4 DEF ClosingStep

LEMMA StepTypes ==
  ASSUME CashTypeOK, [CashNext]_cashVars
  PROVE  CashTypeOK'
<1>1. ASSUME NEW d \in Day, OpenDay(d), Watch PROVE CashTypeOK'
  BY <1>1 DEF CashTypeOK, OpenDay, Watch
<1>2. CASE UNCHANGED cashVars
  BY <1>2 DEF CashTypeOK
<1> QED
  BY <1>1, <1>2, EntryTypes, ClosingTypes DEF CashNext, CashStep

-----------------------------------------------------------------------------
\* What a step may do to a day that no entry and no closing have met on: the history
\* tells, so only the sums held and the closed boxes need an argument.
LEMMA NotDisturbed ==
  ASSUME Watch, NEW d \in Day, d \notin disturbed'
  PROVE  d \notin disturbed /\ ~(EntryUnderWay(d) /\ SumTaken(d))'
BY DEF Watch

LEMMA EntryUndisturbed ==
  ASSUME CashTypeOK, Watch, NEW e \in Entry, EntryStep(e),
         NEW d \in Day, d \notin disturbed', Undisturbed(d)
  PROVE  Undisturbed(d)'
<1>1. ~(EntryUnderWay(d) /\ SumTaken(d))'
  BY NotDisturbed
<1>2. ASSUME NEW x \in Day, box[x] = "open", Finds(e, x),
             UNCHANGED <<box, entries, counted, closing, target, summed>>
      PROVE  Undisturbed(d)'
  <2>1. box'[d] = "closed" /\ EntryUnderWay(d)' => EntryUnderWay(d)
    BY <1>2 DEF CashTypeOK, Finds, EntryUnderWay
  <2> QED
    BY <1>1, <1>2, <2>1 DEF Undisturbed
<1>3. ASSUME NEW x \in Day, FindNamed(e, x) PROVE Undisturbed(d)'
  BY <1>2, <1>3 DEF FindNamed
<1>4. CASE FindLatest(e)
  <2>1. PICK x \in Day : box[x] = "open" /\ Finds(e, x)
    BY <1>4 DEF FindLatest, LatestOpen, OpenDays
  <2> QED
    BY <1>2, <1>4, <2>1 DEF FindLatest
<1>5. CASE FindNone(e) \/ EntryFails(e)
  <2>1. EntryUnderWay(d)' => EntryUnderWay(d)
    BY <1>5 DEF CashTypeOK, FindNone, EntryFails, EntryUnderWay
  <2> QED
    BY <1>1, <1>5, <2>1 DEF Undisturbed, FindNone, EntryFails
<1>6. CASE Enter(e)
  <2>1. EntryUnderWay(d)' => EntryUnderWay(d)
    BY <1>6 DEF CashTypeOK, Enter, EntryUnderWay
  <2>2. CASE found[e] = d
    <3>1. EntryUnderWay(d)
      BY <1>6, <2>2 DEF Enter, EntryUnderWay
    <3>2. box[d] # "closed" /\ ~SumTaken(d)
      BY <3>1 DEF Undisturbed
    <3> QED
      BY <1>1, <1>6, <3>2 DEF Undisturbed, Enter, SumTaken
  <2>3. CASE found[e] # d
    <3>1. entries'[d] = entries[d]
      BY <1>6, <2>3 DEF CashTypeOK, Enter
    <3> QED
      BY <1>1, <1>6, <2>1, <3>1 DEF Undisturbed, Enter
  <2> QED
    BY <2>2, <2>3
<1> QED
  BY <1>3, <1>4, <1>5, <1>6 DEF EntryStep

LEMMA ClosingUndisturbed ==
  ASSUME CashTypeOK, Watch, NEW k \in Closing, ClosingStep(k),
         NEW d \in Day, d \notin disturbed', Undisturbed(d)
  PROVE  Undisturbed(d)'
<1>1. ~(EntryUnderWay(d) /\ SumTaken(d))'
  BY NotDisturbed
<1>2. EntryUnderWay(d)' <=> EntryUnderWay(d)
  BY DEF ClosingStep, CheckOpen, Calculate, Close, ClosingFails, EntryUnderWay
<1>3. ASSUME NEW x \in Day, CheckOpen(k, x) PROVE Undisturbed(d)'
  BY <1>1, <1>2, <1>3 DEF CashTypeOK, Undisturbed, CheckOpen
<1>4. CASE Calculate(k)
  BY <1>1, <1>2, <1>4 DEF CashTypeOK, Undisturbed, Calculate
<1>5. CASE Close(k)
  <2>1. CASE target[k] = d
    <3>1. SumTaken(d) /\ summed[k] = entries[d]
      BY <1>5, <2>1 DEF Close, SumTaken, Undisturbed
    <3> QED
      BY <1>1, <1>2, <1>5, <2>1, <3>1 DEF CashTypeOK, Undisturbed, Close
  <2>2. CASE target[k] # d
    BY <1>1, <1>2, <1>5, <2>2 DEF CashTypeOK, Undisturbed, Close
  <2> QED
    BY <2>1, <2>2
<1>6. CASE ClosingFails(k)
  BY <1>1, <1>2, <1>6 DEF CashTypeOK, Undisturbed, ClosingFails
<1> QED
  BY <1>3, <1>4, <1>5, <1>6 DEF ClosingStep

LEMMA StepUndisturbed ==
  ASSUME CashTypeOK, CashNext, NEW d \in Day, d \notin disturbed', Undisturbed(d)
  PROVE  Undisturbed(d)'
<1>1. ASSUME NEW x \in Day, OpenDay(x), Watch PROVE Undisturbed(d)'
  <2>1. EntryUnderWay(d)' <=> EntryUnderWay(d)
    BY <1>1 DEF OpenDay, EntryUnderWay
  <2> QED
    BY <1>1, <2>1, NotDisturbed DEF CashTypeOK, Undisturbed, OpenDay
<1> QED
  BY <1>1, EntryUndisturbed, ClosingUndisturbed DEF CashNext, CashStep

-----------------------------------------------------------------------------
\* The same for days on which no two closings have met.
LEMMA StepUncontested ==
  ASSUME CashTypeOK, CashNext, NEW d \in Day, d \notin contested', Uncontested(d)
  PROVE  Uncontested(d)'
<1>1. \A j, m \in Closing : (At(j, d) /\ At(m, d) => j = m)'
  BY DEF CashNext, Watch
<1>2. ASSUME NEW x \in Day, OpenDay(x) PROVE Uncontested(d)'
  BY <1>1, <1>2 DEF CashTypeOK, Uncontested, OpenDay, At
<1>3. ASSUME NEW e \in Entry, EntryStep(e) PROVE Uncontested(d)'
  <2>1. UNCHANGED <<box, closing, target>>
    BY <1>3 DEF EntryStep, FindNamed, FindLatest, FindNone, Enter, EntryFails
  <2> QED
    BY <2>1, <1>1 DEF Uncontested, At
<1>4. ASSUME NEW k \in Closing, ClosingStep(k) PROVE Uncontested(d)'
  <2>1. ASSUME NEW x \in Day, CheckOpen(k, x) PROVE Uncontested(d)'
    BY <1>1, <2>1 DEF CashTypeOK, Uncontested, CheckOpen, At
  <2>2. CASE Calculate(k)
    BY <1>1, <2>2 DEF CashTypeOK, Uncontested, Calculate, At
  <2>3. CASE Close(k)
    BY <1>1, <2>3 DEF CashTypeOK, Uncontested, Close, At
  <2>4. CASE ClosingFails(k)
    BY <1>1, <2>4 DEF CashTypeOK, Uncontested, ClosingFails, At
  <2> QED
    BY <1>4, <2>1, <2>2, <2>3, <2>4 DEF ClosingStep
<1> QED
  BY <1>2, <1>3, <1>4 DEF CashNext, CashStep

-----------------------------------------------------------------------------
LEMMA CashInit_CashInv == CashInit => CashInv
<1> SUFFICES ASSUME CashInit PROVE CashInv
  OBVIOUS
<1>1. CashTypeOK
  BY DEF CashInit, CashTypeOK
<1>2. ASSUME NEW d \in Day PROVE Undisturbed(d) /\ Uncontested(d)
  BY <1>2 DEF CashInit, Undisturbed, Uncontested, EntryUnderWay, SumTaken, At
<1> QED
  BY <1>1, <1>2 DEF CashInv

LEMMA CashNext_CashInv ==
  ASSUME CashInv, [CashNext]_cashVars
  PROVE  CashInv'
<1>1. CASE CashNext
  <2>1. disturbed \subseteq disturbed' /\ contested \subseteq contested'
    BY <1>1 DEF CashNext, Watch
  <2>2. \A d \in Day \ disturbed' : Undisturbed(d)'
    BY <1>1, <2>1, StepUndisturbed DEF CashInv
  <2>3. \A d \in Day \ contested' : Uncontested(d)'
    BY <1>1, <2>1, StepUncontested DEF CashInv
  <2> QED
    BY <1>1, <2>2, <2>3, StepTypes DEF CashInv
<1>2. CASE UNCHANGED cashVars
  <2>1. \A d \in Day : /\ Undisturbed(d) => Undisturbed(d)'
                       /\ Uncontested(d) => Uncontested(d)'
    BY <1>2 DEF Undisturbed, Uncontested, EntryUnderWay, SumTaken, At
  <2> QED
    BY <1>2, <2>1, StepTypes DEF CashInv
<1> QED
  BY <1>1, <1>2

\* The inductive invariant of the cash boxes.
THEOREM CashInvariant == CashSpec => []CashInv
BY CashInit_CashInv, CashNext_CashInv, PTL DEF CashSpec

\* Type correctness: in particular, nothing is ever entered in, and no closing ever works
\* on, a box that does not exist (cash-box.service.ts lines 39-101).
THEOREM CashTypeCorrect == CashSpec => []CashTypeOK
<1>1. CashInv => CashTypeOK
  BY DEF CashInv
<1> QED
  BY <1>1, CashInvariant, PTL

\* A closed day's calculated balance is that of all its entries, unless an entry and a
\* closing overlapped on it (cash-box.service.ts lines 39-45 and 63-80).
THEOREM ClosedDayIsComplete == CashSpec => []ClosingIsComplete
<1>1. CashInv => ClosingIsComplete
  BY DEF CashInv, ClosingIsComplete, Undisturbed
<1> QED
  BY <1>1, CashInvariant, PTL

\* The amounts of a closing stay, unless two closings overlapped (lines 63-80).
THEOREM ClosedDayIsFinal == CashSpec => ClosingIsFinal
<1>1. ASSUME CashInv, [CashNext]_cashVars, NEW d \in Day, box[d] = "closed", d \notin contested
      PROVE  closedBy'[d] = closedBy[d]
  <2>1. ASSUME NEW k \in Closing, Close(k) PROVE closedBy'[d] = closedBy[d]
    <3>1. target[k] # d
      BY <1>1, <2>1 DEF CashInv, Uncontested, At, Close
    <3> QED
      BY <1>1, <2>1, <3>1 DEF CashInv, CashTypeOK, Close
  <2> QED
    BY <1>1, <2>1 DEF CashNext, CashStep, OpenDay, EntryStep, FindNamed, FindLatest,
       FindNone, Enter, EntryFails, ClosingStep, CheckOpen, Calculate, ClosingFails
<1>2. CashInv /\ [CashNext]_cashVars =>
        [\A d \in Day : box[d] = "closed" /\ d \notin contested =>
           closedBy'[d] = closedBy[d]]_cashVars
  BY <1>1
<1> QED
  BY <1>2, CashInvariant, PTL DEF CashSpec, ClosingIsFinal
-----------------------------------------------------------------------------
LEMMA SaleIsEntry ==
  ASSUME NEW s \in Sale, EntryStep(s), Watch
  PROVE  CashNext
BY SaleAssumption DEF CashNext, CashStep

LEMMA SalesStepIsCashStep ==
  ASSUME SalesNext
  PROVE  [CashNext]_cashVars
<1>1. ASSUME NEW s \in Sale, SaleStep(s) PROVE [CashNext]_cashVars
  <2>1. CASE Insert(s)
    <3>1. CASE terms[s].method = "CASH"
      BY <2>1, <3>1, SaleIsEntry DEF Insert, EntryStep
    <3>2. CASE terms[s].method # "CASH"
      BY <2>1, <3>2 DEF Insert
    <3> QED
      BY <3>1, <3>2
  <2>2. CASE Commit(s)
    <3>1. CASE entering[s] = "found"
      BY <2>2, <3>1, SaleIsEntry DEF Commit, EntryStep
    <3>2. CASE entering[s] # "found"
      BY <2>2, <3>2 DEF Commit
    <3> QED
      BY <3>1, <3>2
  <2>3. CASE CreateFails(s)
    <3>1. CASE entering[s] = "found"
      BY <2>3, <3>1, SaleIsEntry DEF CreateFails, EntryStep
    <3>2. CASE entering[s] # "found"
      BY <2>3, <3>2 DEF CreateFails
    <3> QED
      BY <3>1, <3>2
  <2> QED
    BY <1>1, <2>1, <2>2, <2>3 DEF SaleStep, Begin, ReadNumber, WriteNumber, Duplicate
<1>2. ASSUME NEW v \in Void, VoidStep(v) PROVE [CashNext]_cashVars
  BY <1>2 DEF VoidStep, CheckActive, UpdateStatus, CorrectBalance, VoidFails
<1>3. ASSUME NEW c \in Customer, NEW amount \in Amounts, AddTransaction(c, amount)
      PROVE  [CashNext]_cashVars
  BY <1>3 DEF AddTransaction
<1>4. CASE CashAlone
  BY <1>4 DEF CashAlone, CashNext, CashStep
<1> QED
  BY <1>1, <1>2, <1>3, <1>4 DEF SalesNext

\* Sales respects the cash boxes: it enters cash in no other way than CashBox describes
\* (sales.service.ts lines 103-110).
THEOREM SalesRespectCashBox == SalesSpec => CashSpec
<1>1. SalesInit => CashInit
  BY DEF SalesInit
<1>2. [SalesNext]_vars => [CashNext]_cashVars
  <2>1. CASE UNCHANGED vars
    BY <2>1 DEF vars
  <2> QED
    BY <2>1, SalesStepIsCashStep
<1> QED
  BY <1>1, <1>2, PTL DEF SalesSpec, CashSpec

\* So a closed day's calculated balance is complete among sales as well, with the same
\* proviso (cash-box.service.ts lines 39-80, sales.service.ts lines 103-110).
THEOREM ClosedDayCountsSales == SalesSpec => []ClosingIsComplete
BY SalesRespectCashBox, ClosedDayIsComplete

-----------------------------------------------------------------------------
\* What a sale comes to is a natural number, and a debt has a customer.
LEMMA DebtIsNat ==
  ASSUME NEW t \in Terms
  PROVE  /\ Debt(t) \in Nat
         /\ Debt(t) > 0 => t.customer \in Customer
<1>1. /\ t.total \in Nat
      /\ t.paid \in Nat \cup {Empty}
      /\ t.customer \in Customer \cup {NoCustomer}
  BY TermsAssumption
<1>2. Paid(t) \in Nat
  BY <1>1 DEF Paid
<1> QED
  BY <1>1, <1>2 DEF Debt

LEMMA SaleTypes ==
  ASSUME SalesInv, NEW s \in Sale, SaleStep(s), CashTypeOK'
  PROVE  SalesTypeOK'
<1> USE SaleAssumption DEF SalesInv, SalesTypeOK, Becomes, Stages, NumbersOK
<1>1. ASSUME NEW t \in Terms, Begin(s, t) PROVE SalesTypeOK'
  BY <1>1 DEF Begin, numberVars
<1>2. CASE ReadNumber(s)
  BY <1>2 DEF ReadNumber, NextReads, accounts
<1>3. CASE WriteNumber(s)
  <2>1. rewound' \in BOOLEAN
    BY <1>3 DEF WriteNumber, NextWrites, NextThrows, numberVars
  <2>2. lastValue' \in Nat /\ docNumber' \in [Doc -> Nat] /\ seen' \in [Doc -> Nat]
    BY <1>3 DEF WriteNumber, NextWrites, NextThrows, NextValue, numberVars
  <2>3. stage' \in [Sale -> Stages] /\ UNCHANGED accounts
    BY <1>3 DEF WriteNumber
  <2>4. \A x \in Sale : stage'[x] # "new" => terms'[x] \in Terms
    BY <1>3, <2>3 DEF WriteNumber, accounts
  <2> QED
    BY <2>1, <2>2, <2>3, <2>4 DEF accounts
<1>4. CASE Insert(s)
  BY <1>4 DEF Insert, numberVars, accounts
<1>5. CASE Duplicate(s)
  BY <1>5 DEF Duplicate, numberVars, accounts
<1>6. CASE Commit(s)
  <2>1. terms[s] \in Terms
    BY <1>6 DEF Commit
  <2>2. ledger' \in [Customer -> Int] /\ balance' \in [Customer -> Int]
    BY <1>6, <2>1, DebtIsNat DEF Commit, Charge
  <2> QED
    BY <1>6, <2>2 DEF Commit, numberVars
<1>7. CASE CreateFails(s)
  BY <1>7 DEF CreateFails, numberVars, accounts
<1> QED
  BY <1>1, <1>2, <1>3, <1>4, <1>5, <1>6, <1>7 DEF SaleStep

LEMMA VoidTypes ==
  ASSUME SalesInv, NEW v \in Void, VoidStep(v), CashTypeOK'
  PROVE  SalesTypeOK'
<1> USE DEF SalesInv, SalesTypeOK, Becomes, Stages, NumbersOK
<1>1. ASSUME NEW s \in Sale, CheckActive(v, s) PROVE SalesTypeOK'
  BY <1>1 DEF CheckActive, numberVars
<1>2. CASE UpdateStatus(v)
  BY <1>2 DEF UpdateStatus, numberVars, VoidsOK, Committed
<1>3. CASE CorrectBalance(v)
  <2>1. voided[v] \in Sale /\ terms[voided[v]] \in Terms
    BY <1>3 DEF CorrectBalance, VoidsOK, Committed
  <2> DEFINE t == terms[voided[v]]
  <2>2. Debt(t) \in Nat /\ t.customer \in Customer
    BY <1>3, <2>1, DebtIsNat DEF CorrectBalance, VoidsOK
  <2>3. balance' = [balance EXCEPT ![t.customer] = @ - Debt(t)]
    BY <1>3 DEF CorrectBalance
  <2>4. balance' \in [Customer -> Int]
    BY <2>2, <2>3
  <2> QED
    BY <1>3, <2>4 DEF CorrectBalance, numberVars
<1>4. CASE VoidFails(v)
  BY <1>4 DEF VoidFails, numberVars, VoidsOK
<1> QED
  BY <1>1, <1>2, <1>3, <1>4 DEF VoidStep

-----------------------------------------------------------------------------
\* Who calls next, and when: the other steps leave the numbers and the history alone.
LEMMA SaleNumbers ==
  ASSUME SalesInv, NEW s \in Sale, SaleStep(s)
  PROVE  /\ NumbersDistinct'
         /\ \A x \in Sale : stage'[x] = "creating" => docNumber'[x] > 0
         /\ DuplicateNeedsRace'
<1> USE SaleAssumption DEF SalesInv, SalesTypeOK, NumbersOK, Becomes
<1>1. CASE WriteNumber(s) /\ NextWrites(s)
  <2>1. CASE rewound'
    BY <1>1, <2>1 DEF WriteNumber, NextWrites, NextValue, NumbersDistinct,
       DuplicateNeedsRace, NextThrows, numberVars
  <2>2. CASE ~rewound'
    <3>1. seen[s] = lastValue /\ ~rewound
      BY <1>1, <2>2 DEF NextWrites
    <3>2. NumbersDistinct'
      BY <1>1, <3>1 DEF NextWrites, NextValue, NumbersDistinct
    <3> QED
      BY <1>1, <3>1, <3>2 DEF WriteNumber, NextWrites, NextValue, DuplicateNeedsRace
  <2> QED
    BY <2>1, <2>2 DEF NextWrites
<1>2. CASE Duplicate(s)
  <2>1. rewound
    BY <1>2 DEF Duplicate, SameNumber, NumbersDistinct
  <2> QED
    BY <1>2, <2>1 DEF Duplicate, numberVars, NumbersDistinct, DuplicateNeedsRace
<1>3. CASE UNCHANGED <<lastValue, docNumber, rewound>> /\ stage'[s] \notin {"creating", "duplicate"}
           /\ stage' = [stage EXCEPT ![s] = stage'[s]]
  BY <1>3 DEF NumbersDistinct, DuplicateNeedsRace
<1>4. ASSUME ~Duplicate(s), ~(WriteNumber(s) /\ NextWrites(s))
      PROVE  /\ UNCHANGED <<lastValue, docNumber, rewound>>
             /\ \E st \in Stages \ {"creating", "duplicate"} : Becomes(s, st)
  <2>1. ASSUME NEW t \in Terms, Begin(s, t)
        PROVE  UNCHANGED numberVars /\ Becomes(s, "reading")
    BY <2>1 DEF Begin
  <2> QED
    BY <1>4, <2>1 DEF SaleStep, ReadNumber, NextReads, WriteNumber, NextThrows, Insert,
       Commit, CreateFails, numberVars, Stages
<1> QED
  BY <1>1, <1>2, <1>3, <1>4

LEMMA SaleVoids ==
  ASSUME SalesInv, NEW s \in Sale, SaleStep(s)
  PROVE  VoidsOK'
<1> USE DEF SalesInv, SalesTypeOK, VoidsOK, Committed, Becomes
<1>1. UNCHANGED <<voiding, voided>> /\ ~Committed(s)
  BY DEF SaleStep, Begin, ReadNumber, WriteNumber, Insert, Duplicate, Commit, CreateFails,
     accounts
<1>2. \A x \in Sale : x # s => stage'[x] = stage[x] /\ terms'[x] = terms[x]
  BY DEF SaleStep, Begin, ReadNumber, WriteNumber, Insert, Duplicate, Commit, CreateFails,
     accounts
<1> QED
  BY <1>1, <1>2 DEF Debt, Paid

LEMMA VoidKeeps ==
  ASSUME SalesInv, NEW v \in Void, VoidStep(v)
  PROVE  /\ VoidsOK'
         /\ NumbersDistinct'
         /\ \A x \in Sale : stage'[x] = "creating" => docNumber'[x] > 0
         /\ DuplicateNeedsRace'
<1> USE DEF SalesInv, SalesTypeOK, VoidsOK, Committed, Becomes
<1>1. UNCHANGED <<terms, numberVars>>
  BY DEF VoidStep, CheckActive, UpdateStatus, CorrectBalance, VoidFails
<1>2. \A x \in Sale : stage'[x] = stage[x] \/ (stage'[x] = "VOIDED" /\ Committed(x))
  BY DEF VoidStep, CheckActive, UpdateStatus, CorrectBalance, VoidFails
<1>3. VoidsOK'
  <2>1. ASSUME NEW s \in Sale, CheckActive(v, s) PROVE VoidsOK'
    BY <1>1, <2>1 DEF CheckActive, Debt, Paid
  <2>2. CASE UpdateStatus(v)
    BY <1>1, <2>2 DEF UpdateStatus, Debt, Paid
  <2>3. CASE CorrectBalance(v)
    BY <1>1, <2>3 DEF CorrectBalance, Debt, Paid
  <2>4. CASE VoidFails(v)
    BY <1>1, <2>4 DEF VoidFails, Debt, Paid
  <2> QED
    BY <2>1, <2>2, <2>3, <2>4 DEF VoidStep
<1> QED
  BY <1>1, <1>2, <1>3 DEF NumbersDistinct, DuplicateNeedsRace, numberVars

\* What neither the sales nor the voids are concerned in.
LEMMA OtherKeeps ==
  ASSUME SalesInv, UNCHANGED <<stage, terms, voiding, voided, torn, twice, numberVars>>,
         ledger' \in [Customer -> Int], balance' \in [Customer -> Int], CashTypeOK'
  PROVE  SalesInv'
BY DEF SalesInv, SalesTypeOK, NumbersOK, VoidsOK, Committed, Debt, Paid, NumbersDistinct,
   DuplicateNeedsRace, numberVars

LEMMA SalesInit_SalesInv == SalesInit => SalesInv
<1> SUFFICES ASSUME SalesInit PROVE SalesInv
  OBVIOUS
<1>1. CashTypeOK
  BY CashInit_CashInv DEF SalesInit, CashInv
<1>2. NumbersOK
  BY DEF SalesInit, NumbersInit, NumbersOK
<1>3. NumbersDistinct
  BY DEF SalesInit, NumbersInit, NumbersDistinct
<1> QED
  BY <1>1, <1>2, <1>3 DEF SalesInit, SalesInv, SalesTypeOK, Stages, VoidsOK, DuplicateNeedsRace

LEMMA SalesNext_SalesInv ==
  ASSUME SalesInv, [SalesNext]_vars
  PROVE  SalesInv'
<1>1. CASE SalesNext
  <2>1. CashTypeOK'
    BY <1>1, SalesStepIsCashStep, StepTypes DEF SalesInv, SalesTypeOK
  <2>2. ASSUME NEW s \in Sale, SaleStep(s) PROVE SalesInv'
    BY <2>1, <2>2, SaleTypes, SaleNumbers, SaleVoids DEF SalesInv
  <2>3. ASSUME NEW v \in Void, VoidStep(v) PROVE SalesInv'
    BY <2>1, <2>3, VoidTypes, VoidKeeps DEF SalesInv
  <2>4. ASSUME NEW c \in Customer, NEW amount \in Amounts, AddTransaction(c, amount)
        PROVE  SalesInv'
    <3>1. ledger' \in [Customer -> Int] /\ balance' \in [Customer -> Int]
      BY <2>4, AmountsAssumption DEF AddTransaction, Charge, SalesInv, SalesTypeOK
    <3> QED
      BY <2>1, <2>4, <3>1, OtherKeeps DEF AddTransaction
  <2>5. CASE CashAlone
    BY <2>1, <2>5, OtherKeeps DEF CashAlone, saleVars, SalesInv, SalesTypeOK
  <2> QED
    BY <1>1, <2>2, <2>3, <2>4, <2>5 DEF SalesNext
<1>2. CASE UNCHANGED vars
  <2>1. CashTypeOK'
    BY <1>2, StepTypes DEF vars, SalesInv, SalesTypeOK
  <2> QED
    BY <1>2, <2>1, OtherKeeps DEF vars, saleVars, SalesInv, SalesTypeOK
<1> QED
  BY <1>1, <1>2

\* The inductive invariant of sales, voids and document numbers.
THEOREM SalesInvariant == SalesSpec => []SalesInv
BY SalesInit_SalesInv, SalesNext_SalesInv, PTL DEF SalesSpec

\* Type correctness of the books: every status is one of its enum, every balance a
\* number, a void works on a sale there is (sales.service.ts lines 41-162).
THEOREM SalesTypeCorrect == SalesSpec => []SalesTypeOK
<1>1. SalesInv => SalesTypeOK
  BY DEF SalesInv
<1> QED
  BY <1>1, SalesInvariant, PTL

\* A sale is refused for its number only after two calls of next have overlapped
\* (document-sequence.service.ts lines 22-35).
THEOREM DuplicatesComeFromRaces == SalesSpec => []DuplicateNeedsRace
<1>1. SalesInv => DuplicateNeedsRace
  BY DEF SalesInv
<1> QED
  BY <1>1, SalesInvariant, PTL

-----------------------------------------------------------------------------
\* Sums of debts: they are numbers, depend on the terms of these sales only, and one sale more
\* adds its own.
DebtSum(S, t) == SumFunction([s \in S |-> Debt(t[s])])

LEMMA DebtSumSame ==
  ASSUME NEW S, IsFiniteSet(S), NEW t, NEW u, \A s \in S : t[s] = u[s]
  PROVE  DebtSum(S, t) = DebtSum(S, u)
<1>1. [s \in S |-> Debt(t[s])] = [s \in S |-> Debt(u[s])]
  OBVIOUS
<1> QED
  BY <1>1 DEF DebtSum

LEMMA DebtSumType ==
  ASSUME NEW S, IsFiniteSet(S), NEW t, \A s \in S : t[s] \in Terms
  PROVE  DebtSum(S, t) \in Int
<1> DEFINE f == [s \in S |-> Debt(t[s])]
<1>1. \A s \in S : f[s] \in Int
  BY DebtIsNat
<1>2. SumFunctionOnSet(f, S) \in Int
  <2> HIDE DEF f
  <2> QED
    BY <1>1, SumType
<1> QED
  BY <1>2 DEF DebtSum, SumFunction

LEMMA DebtSumAdd ==
  ASSUME NEW S, IsFiniteSet(S), NEW e, e \notin S,
         NEW t, t[e] \in Terms, \A s \in S : t[s] \in Terms
  PROVE  DebtSum(S \cup {e}, t) = Debt(t[e]) + DebtSum(S, t)
<1> DEFINE f == [s \in S |-> Debt(t[s])]
           h == [s \in S \cup {e} |-> Debt(t[s])]
<1>1. /\ h[e] = Debt(t[e])
      /\ h[e] \in Int
      /\ \A s \in S : h[s] \in Int
      /\ \A s \in S : h[s] = f[s]
  BY DebtIsNat
<1>2. DOMAIN f = S /\ DOMAIN h = S \cup {e}
  OBVIOUS
<1> HIDE DEF f, h
<1>3. SumFunctionOnSet(h, S \cup {e}) = h[e] + SumFunctionOnSet(h, S)
  BY <1>1, SumAdd
<1>4. SumFunctionOnSet(h, S) = SumFunctionOnSet(f, S)
  BY <1>1, SumSame
<1>5. DebtSum(S, t) = SumFunctionOnSet(f, S)
  BY <1>2 DEF f, DebtSum, SumFunction
<1>6. DebtSum(S \cup {e}, t) = SumFunctionOnSet(h, S \cup {e})
  BY <1>2 DEF h, DebtSum, SumFunction
<1> QED
  BY <1>1, <1>3, <1>4, <1>5, <1>6, Zenon

-----------------------------------------------------------------------------
\* The balance of c stays right when no debt of its sales is taken off, and its ledger and its
\* balance move alike.
LEMMA BalanceKept ==
  ASSUME SalesInv, BalancesInv, NEW c \in Customer,
         \A s \in Sale : stage[s] # "new" => terms'[s] = terms[s] /\ stage'[s] # "new",
         torn \subseteq torn', twice \subseteq twice',
         (SalesOf(c) \cap (torn \cup twice) = {})',
         TakenOff(c)' = TakenOff(c),
         balance[c] \in Int, ledger[c] \in Int, balance'[c] \in Int, ledger'[c] \in Int,
         balance'[c] - ledger'[c] = balance[c] - ledger[c]
  PROVE  balance'[c] = ledger'[c] - Debts(TakenOff(c))'
<1> DEFINE T == TakenOff(c)
<1>1. SalesOf(c) \cap (torn \cup twice) = {}
  BY DEF SalesOf
<1>2. balance[c] = ledger[c] - DebtSum(T, terms)
  BY <1>1 DEF BalancesInv, Debts, DebtSum
<1>3. IsFiniteSet(T)
  BY FS_Subset DEF BalancesInv, TakenOff, SalesOf
<1>4. \A s \in T : terms[s] \in Terms /\ terms'[s] = terms[s]
  BY DEF TakenOff, SalesOf, SalesInv, SalesTypeOK
<1> HIDE DEF T
<1>5. DebtSum(T, terms') = DebtSum(T, terms)
  BY <1>3, <1>4, DebtSumSame
<1>6. DebtSum(T, terms) \in Int
  BY <1>3, <1>4, DebtSumType
<1>7. Debts(TakenOff(c))' = DebtSum(T, terms')
  BY DEF T, Debts, DebtSum
<1>8. balance'[c] = ledger'[c] - DebtSum(T, terms)
  BY <1>2, <1>6
<1> QED
  BY <1>5, <1>7, <1>8, Zenon

\* And when a sale joins those whose debts have been taken off, and its debt goes off it.
LEMMA BalanceLess ==
  ASSUME SalesInv, BalancesInv, NEW c \in Customer, NEW s \in Sale,
         terms' = terms, UNCHANGED ledger,
         SalesOf(c) \cap (torn \cup twice) = {},
         s \in SalesOf(c), s \notin TakenOff(c),
         TakenOff(c)' = TakenOff(c) \cup {s},
         balance[c] \in Int, ledger[c] \in Int,
         balance'[c] = balance[c] - Debt(terms[s])
  PROVE  balance'[c] = ledger'[c] - Debts(TakenOff(c))'
<1> DEFINE T == TakenOff(c)
<1>1. balance[c] = ledger[c] - DebtSum(T, terms)
  BY DEF BalancesInv, Debts, DebtSum
<1>2. IsFiniteSet(T)
  BY FS_Subset DEF BalancesInv, TakenOff, SalesOf
<1>3. terms[s] \in Terms /\ \A x \in T : terms[x] \in Terms
  BY DEF TakenOff, SalesOf, SalesInv, SalesTypeOK
<1>4. Debts(TakenOff(c))' = DebtSum(T \cup {s}, terms)
  BY DEF Debts, DebtSum
<1>5. s \notin T
  OBVIOUS
<1> HIDE DEF T
<1>6. DebtSum(T \cup {s}, terms) = Debt(terms[s]) + DebtSum(T, terms)
  BY <1>2, <1>3, <1>5, DebtSumAdd
<1>7. DebtSum(T, terms) \in Int
  BY <1>2, <1>3, DebtSumType
<1>8. Debt(terms[s]) \in Int
  BY <1>3, DebtIsNat
<1>9. balance'[c] = ledger'[c] - (Debt(terms[s]) + DebtSum(T, terms))
  BY <1>1, <1>7, <1>8
<1> QED
  BY <1>4, <1>6, <1>9, Zenon

-----------------------------------------------------------------------------
\* A step of a sale: no void is at work on it yet, and what it owes is charged to both the
\* ledger and the balance.
LEMMA SaleBalances ==
  ASSUME SalesInv, SalesInv', BalancesInv, NEW s \in Sale, SaleStep(s)
  PROVE  BalancesInv'
<1> USE DEF Becomes, accounts
<1>1. /\ UNCHANGED <<voiding, voided, torn, twice>>
      /\ ~Committed(s)
      /\ stage'[s] \notin {"new", "VOIDED"}
      /\ \A x \in Sale : x # s => stage'[x] = stage[x]
      /\ \A x \in Sale : stage[x] # "new" => terms'[x] = terms[x]
      /\ \A x \in Sale : x # s => terms'[x] = terms[x]
  <2>1. stage \in [Sale -> Stages] /\ terms \in [Sale -> Terms \cup {Empty}]
    BY DEF SalesInv, SalesTypeOK
  <2>2. ASSUME NEW t \in Terms, Begin(s, t)
        PROVE  /\ stage'[s] = "reading" /\ UNCHANGED <<voiding, voided, torn, twice>>
               /\ stage[s] = "new"
               /\ \A x \in Sale : x # s => stage'[x] = stage[x] /\ terms'[x] = terms[x]
    BY <2>1, <2>2 DEF Begin
  <2> QED
    BY <2>1, <2>2 DEF SaleStep, ReadNumber, WriteNumber, Insert, Duplicate, Commit, CreateFails,
       Committed
<1>2. \A v \in Void : ~VoidUnderWay(v, s)
  BY <1>1 DEF SalesInv, VoidsOK, VoidUnderWay
<1>3. IsFiniteSet({x \in Sale : stage[x] # "new"})'
  <2>1. {x \in Sale : stage'[x] # "new"} \subseteq {x \in Sale : stage[x] # "new"} \cup {s}
    BY <1>1
  <2>2. IsFiniteSet({x \in Sale : stage[x] # "new"} \cup {s})
    BY FS_AddElement DEF BalancesInv
  <2> QED
    BY <2>1, <2>2, FS_Subset
<1>4. OneVoid'
  BY <1>1, <1>2 DEF BalancesInv, OneVoid, VoidUnderWay
<1>5. ASSUME NEW c \in Customer PROVE TakenOff(c)' = TakenOff(c)
  BY <1>1 DEF TakenOff, SalesOf, Committed
<1>6. ASSUME NEW c \in Customer
      PROVE  /\ balance[c] \in Int /\ ledger[c] \in Int
             /\ balance'[c] \in Int /\ ledger'[c] \in Int
             /\ balance'[c] - ledger'[c] = balance[c] - ledger[c]
  <2>1. /\ balance \in [Customer -> Int] /\ ledger \in [Customer -> Int]
        /\ balance' \in [Customer -> Int] /\ ledger' \in [Customer -> Int]
    BY DEF SalesInv, SalesTypeOK
  <2>2. CASE Commit(s) /\ Debt(terms[s]) > 0
    <3> DEFINE b == terms[s].customer
               d == Debt(terms[s])
    <3>1. d \in Nat
      BY <2>2, DebtIsNat DEF Commit, SalesInv, SalesTypeOK
    <3>2. ledger' = [ledger EXCEPT ![b] = @ + d] /\ balance' = [balance EXCEPT ![b] = @ + d]
      BY <2>2 DEF Commit, Charge
    <3> HIDE DEF b, d
    <3> QED
      BY <2>1, <3>1, <3>2
  <2>3. CASE UNCHANGED <<ledger, balance>>
    BY <2>1, <2>3
  <2>4. UNCHANGED <<ledger, balance>> \/ (Commit(s) /\ Debt(terms[s]) > 0)
    BY DEF SaleStep, Begin, ReadNumber, WriteNumber, Insert, Duplicate, Commit, CreateFails
  <2> QED
    BY <2>2, <2>3, <2>4
<1>7. ASSUME NEW c \in Customer, (SalesOf(c) \cap (torn \cup twice) = {})'
      PROVE  balance'[c] = ledger'[c] - Debts(TakenOff(c))'
  <2>1. \A x \in Sale : stage[x] # "new" => terms'[x] = terms[x] /\ stage'[x] # "new"
    BY <1>1
  <2>2. torn \subseteq torn' /\ twice \subseteq twice'
    BY <1>1
  <2> QED
    BY <1>5, <1>6, <1>7, <2>1, <2>2, BalanceKept
<1> QED
  BY <1>3, <1>4, <1>7 DEF BalancesInv

\* A step of a void: the debt is taken off by the one void of the sale that gets so far; one
\* that stops before it leaves the sale torn.
LEMMA VoidBalances ==
  ASSUME SalesInv, SalesInv', BalancesInv, NEW v \in Void, VoidStep(v)
  PROVE  BalancesInv'
<1> USE DEF Becomes
<1>1. /\ UNCHANGED <<terms, ledger>>
      /\ torn \subseteq torn' /\ twice \subseteq twice'
      /\ \A x \in Sale : stage'[x] # stage[x] => stage'[x] = "VOIDED" /\ Committed(x)
      /\ \A w \in Void : w # v => voiding'[w] = voiding[w] /\ voided'[w] = voided[w]
  BY DEF VoidStep, CheckActive, UpdateStatus, CorrectBalance, VoidFails, SalesInv, SalesTypeOK,
     VoidsOK
<1>2. /\ balance \in [Customer -> Int] /\ ledger \in [Customer -> Int]
      /\ balance' \in [Customer -> Int]
      /\ stage \in [Sale -> Stages] /\ voiding \in [Void -> {"new", "updating", "correcting", "done"}]
      /\ voided \in [Void -> Sale \cup {NoSale}]
  BY DEF SalesInv, SalesTypeOK
<1>3. \A x \in Sale : stage'[x] = "new" <=> stage[x] = "new"
  BY <1>1 DEF Committed
<1>4. IsFiniteSet({x \in Sale : stage[x] # "new"})'
  <2>1. {x \in Sale : stage'[x] # "new"} = {x \in Sale : stage[x] # "new"}
    BY <1>3
  <2> QED
    BY <2>1 DEF BalancesInv
<1>5. ASSUME NEW c \in Customer PROVE SalesOf(c)' = SalesOf(c)
  BY <1>1, <1>3 DEF SalesOf
<1>6. ASSUME NEW c \in Customer, (SalesOf(c) \cap (torn \cup twice) = {})',
             TakenOff(c)' = TakenOff(c), balance'[c] = balance[c]
      PROVE  balance'[c] = ledger'[c] - Debts(TakenOff(c))'
  <2>1. \A x \in Sale : stage[x] # "new" => terms'[x] = terms[x] /\ stage'[x] # "new"
    BY <1>1, <1>3
  <2>2. /\ balance[c] \in Int /\ ledger[c] \in Int /\ balance'[c] \in Int /\ ledger'[c] \in Int
        /\ balance'[c] - ledger'[c] = balance[c] - ledger[c]
    BY <1>1, <1>2, <1>6
  <2> QED
    BY <1>1, <1>6, <2>1, <2>2, BalanceKept
<1>7. ASSUME NEW s \in Sale, CheckActive(v, s) PROVE BalancesInv'
  <2>1. /\ UNCHANGED <<stage, balance>> /\ voiding[v] = "new" /\ voiding'[v] = "updating"
        /\ voided'[v] = s /\ stage[s] = "ACTIVE"
        /\ twice' = twice \cup {x \in {s} : \E w \in Void : VoidUnderWay(w, x)}
    BY <1>2, <1>7 DEF CheckActive
  <2>2. OneVoid'
    BY <1>1, <2>1 DEF BalancesInv, OneVoid, VoidUnderWay
  <2>3. ASSUME NEW c \in Customer PROVE TakenOff(c)' = TakenOff(c)
    BY <1>1, <1>5, <2>1 DEF TakenOff
  <2> QED
    BY <1>4, <1>6, <2>1, <2>2, <2>3 DEF BalancesInv
<1>8. CASE UpdateStatus(v)
  <2> DEFINE s == voided[v]
  <2>1. s \in Sale /\ Committed(s) /\ terms[s] \in Terms
    BY <1>8 DEF UpdateStatus, SalesInv, SalesTypeOK, VoidsOK, Committed
  <2>2. /\ UNCHANGED <<balance, voided, torn, twice>> /\ VoidUnderWay(v, s)
        /\ voiding[v] = "updating"
        /\ voiding'[v] = IF Debt(terms[s]) > 0 THEN "correcting" ELSE "done"
        /\ stage' = [stage EXCEPT ![s] = "VOIDED"]
    BY <1>2, <1>8 DEF UpdateStatus, VoidUnderWay
  <2>3. s \notin twice => stage[s] = "ACTIVE" /\ \A w \in Void : VoidUnderWay(w, s) => w = v
    BY <2>1, <2>2 DEF BalancesInv, OneVoid, Committed
  <2> HIDE DEF s
  <2>4. OneVoid'
    <3> SUFFICES ASSUME NEW x \in Sale \ twice, NEW w \in Void, VoidUnderWay(w, x)'
                 PROVE  /\ \A u \in Void : VoidUnderWay(u, x)' => u = w
                        /\ (stage'[x] = "VOIDED" <=> voiding'[w] = "correcting")
      BY <2>2 DEF OneVoid
    <3>1. CASE x = s
      BY <1>1, <1>2, <2>1, <2>2, <2>3, <3>1 DEF VoidUnderWay
    <3>2. CASE x # s
      <4>1. \A u \in Void : VoidUnderWay(u, x)' <=> VoidUnderWay(u, x) /\ u # v
        BY <1>1, <2>2, <3>2 DEF VoidUnderWay, s
      <4> QED
        BY <1>1, <1>2, <2>2, <3>2, <4>1 DEF BalancesInv, OneVoid
    <3> QED
      BY <3>1, <3>2
  <2>5. ASSUME NEW c \in Customer, (SalesOf(c) \cap (torn \cup twice) = {})'
        PROVE  balance'[c] = ledger'[c] - Debts(TakenOff(c))'
    <3>1. CASE s \in SalesOf(c) /\ Debt(terms[s]) > 0
      <4>1. TakenOff(c)' = TakenOff(c)
        <5>1. s \notin TakenOff(c)
          BY <1>5, <2>2, <2>3, <2>5, <3>1 DEF TakenOff
        <5>2. s \notin TakenOff(c)'
          BY <2>2, <3>1 DEF TakenOff, s
        <5>3. \A x \in SalesOf(c) : x # s => (x \in TakenOff(c)' <=> x \in TakenOff(c))
          BY <1>1, <1>2, <1>5, <2>1, <2>2 DEF TakenOff, s, SalesOf
        <5>4. TakenOff(c) \subseteq SalesOf(c) /\ TakenOff(c)' \subseteq SalesOf(c)
          BY <1>5 DEF TakenOff
        <5> QED
          BY <5>1, <5>2, <5>3, <5>4
      <4> QED
        BY <1>6, <2>2, <2>5, <4>1
    <3>2. CASE s \notin SalesOf(c)
      <4>1. TakenOff(c)' = TakenOff(c)
        BY <1>1, <1>2, <1>5, <2>1, <2>2, <3>2 DEF TakenOff, s
      <4> QED
        BY <1>6, <2>2, <2>5, <4>1
    <3>3. CASE s \in SalesOf(c) /\ ~(Debt(terms[s]) > 0)
      <4>1. SalesOf(c) \cap (torn \cup twice) = {} /\ s \notin twice
        BY <1>5, <2>2, <2>5, <3>3
      <4>2. Debt(terms[s]) = 0
        BY <2>1, <3>3, DebtIsNat
      <4>3. s \notin TakenOff(c)
        BY <2>3, <4>1 DEF TakenOff
      <4>4. \A w \in Void : ~(voided'[w] = s /\ voiding'[w] = "correcting")
        BY <1>1, <2>2, <2>3, <3>3, <4>1 DEF VoidUnderWay
      <4>5. TakenOff(c)' = TakenOff(c) \cup {s}
        <5>1. \A x \in SalesOf(c) : x # s => (x \in TakenOff(c)' <=> x \in TakenOff(c))
          BY <1>1, <1>2, <1>5, <2>1, <2>2 DEF TakenOff, s, SalesOf
        <5>2. s \in TakenOff(c)'
          BY <1>2, <1>5, <2>1, <2>2, <3>3, <4>4 DEF TakenOff
        <5>3. TakenOff(c) \subseteq SalesOf(c) /\ TakenOff(c)' \subseteq SalesOf(c)
          BY <1>5 DEF TakenOff
        <5> QED
          BY <5>1, <5>2, <5>3
      <4>6. /\ balance[c] \in Int /\ ledger[c] \in Int
            /\ balance'[c] = balance[c] - Debt(terms[s])
        BY <1>2, <2>2, <4>2
      <4> QED
        BY <1>1, <2>1, <3>3, <4>1, <4>3, <4>5, <4>6, BalanceLess
    <3> QED
      BY <3>1, <3>2, <3>3
  <2> QED
    BY <1>4, <2>4, <2>5 DEF BalancesInv
<1>9. CASE CorrectBalance(v)
  <2> DEFINE s == voided[v]
             b == terms[s].customer
  <2>1. s \in Sale /\ Committed(s) /\ terms[s] \in Terms /\ Debt(terms[s]) > 0
    BY <1>9 DEF CorrectBalance, SalesInv, SalesTypeOK, VoidsOK, Committed
  <2>2. /\ UNCHANGED <<stage, voided, torn, twice>> /\ VoidUnderWay(v, s)
        /\ voiding[v] = "correcting" /\ voiding'[v] = "done"
        /\ balance' = [balance EXCEPT ![b] = @ - Debt(terms[s])]
    BY <1>2, <1>9 DEF CorrectBalance, VoidUnderWay
  <2>3. s \notin twice => stage[s] = "VOIDED" /\ \A w \in Void : VoidUnderWay(w, s) => w = v
    BY <2>1, <2>2 DEF BalancesInv, OneVoid
  <2>4. s \in SalesOf(b) /\ \A c \in Customer : s \in SalesOf(c) => c = b
    BY <2>1 DEF SalesOf, Committed
  <2> HIDE DEF s, b
  <2>5. OneVoid'
    <3>1. \A w \in Void, x \in Sale : VoidUnderWay(w, x)' => VoidUnderWay(w, x) /\ w # v
      BY <1>1, <2>2 DEF VoidUnderWay
    <3> QED
      BY <1>1, <2>2, <3>1 DEF BalancesInv, OneVoid
  <2>6. ASSUME NEW c \in Customer, (SalesOf(c) \cap (torn \cup twice) = {})'
        PROVE  balance'[c] = ledger'[c] - Debts(TakenOff(c))'
    <3>1. \A x \in SalesOf(c) : x # s => (x \in TakenOff(c)' <=> x \in TakenOff(c))
      BY <1>1, <1>5, <2>2 DEF TakenOff, s, SalesOf
    <3>2. TakenOff(c) \subseteq SalesOf(c) /\ TakenOff(c)' \subseteq SalesOf(c)
      BY <1>5 DEF TakenOff
    <3>3. CASE c # b
      <4>1. TakenOff(c)' = TakenOff(c)
        BY <2>4, <3>1, <3>2, <3>3
      <4>2. balance'[c] = balance[c]
        BY <1>2, <2>2, <3>3
      <4> QED
        BY <1>6, <2>6, <4>1, <4>2
    <3>4. CASE c = b
      <4>1. SalesOf(c) \cap (torn \cup twice) = {} /\ s \in SalesOf(c) /\ s \notin twice
        BY <1>5, <2>2, <2>4, <2>6, <3>4
      <4>2. s \notin TakenOff(c)
        BY <2>2 DEF TakenOff, s
      <4>3. \A w \in Void : ~(voided'[w] = s /\ voiding'[w] = "correcting")
        BY <1>1, <2>2, <2>3, <4>1 DEF VoidUnderWay
      <4>4. s \in TakenOff(c)'
        BY <1>5, <2>2, <2>3, <4>1, <4>3 DEF TakenOff
      <4>5. TakenOff(c)' = TakenOff(c) \cup {s}
        BY <3>1, <3>2, <4>1, <4>4
      <4>6. /\ balance[c] \in Int /\ ledger[c] \in Int
            /\ balance'[c] = balance[c] - Debt(terms[s])
        BY <1>2, <2>2, <3>4
      <4> QED
        BY <1>1, <2>1, <4>1, <4>2, <4>5, <4>6, BalanceLess
    <3> QED
      BY <3>3, <3>4
  <2> QED
    BY <1>4, <2>5, <2>6 DEF BalancesInv
<1>10. CASE VoidFails(v)
  <2> DEFINE s == voided[v]
  <2>1. s \in Sale /\ Committed(s)
    BY <1>10 DEF VoidFails, SalesInv, VoidsOK
  <2>2. /\ UNCHANGED <<stage, balance, voided, twice>> /\ voiding'[v] = "done"
        /\ voiding[v] = "correcting" => s \in torn'
    BY <1>2, <1>10 DEF VoidFails
  <2>3. OneVoid'
    <3>1. \A w \in Void, x \in Sale : VoidUnderWay(w, x)' => VoidUnderWay(w, x) /\ w # v
      BY <1>1, <2>2 DEF VoidUnderWay
    <3> QED
      BY <1>1, <2>2, <3>1 DEF BalancesInv, OneVoid
  <2>4. ASSUME NEW c \in Customer, (SalesOf(c) \cap (torn \cup twice) = {})'
        PROVE  TakenOff(c)' = TakenOff(c)
    <3>1. s \in SalesOf(c) => voiding[v] # "correcting"
      BY <1>5, <2>2, <2>4
    <3> QED
      BY <1>1, <1>5, <2>2, <3>1 DEF TakenOff
  <2> QED
    BY <1>4, <1>6, <2>2, <2>3, <2>4 DEF BalancesInv
<1> QED
  BY <1>7, <1>8, <1>9, <1>10 DEF VoidStep

\* The steps that are no sale's and no void's.
LEMMA OtherBalances ==
  ASSUME SalesInv, SalesInv', BalancesInv,
         UNCHANGED <<stage, terms, voiding, voided, torn, twice>>,
         \A c \in Customer : balance'[c] - ledger'[c] = balance[c] - ledger[c]
  PROVE  BalancesInv'
<1>1. IsFiniteSet({x \in Sale : stage[x] # "new"})' /\ OneVoid'
  BY DEF BalancesInv, OneVoid, VoidUnderWay
<1>2. ASSUME NEW c \in Customer, (SalesOf(c) \cap (torn \cup twice) = {})'
      PROVE  balance'[c] = ledger'[c] - Debts(TakenOff(c))'
  <2>1. /\ balance[c] \in Int /\ ledger[c] \in Int /\ balance'[c] \in Int /\ ledger'[c] \in Int
    BY DEF SalesInv, SalesTypeOK
  <2>2. TakenOff(c)' = TakenOff(c)
    BY DEF TakenOff, SalesOf
  <2> QED
    BY <1>2, <2>1, <2>2, BalanceKept
<1> QED
  BY <1>1, <1>2 DEF BalancesInv

LEMMA SalesInit_BalancesInv == SalesInit => BalancesInv
<1> SUFFICES ASSUME SalesInit PROVE BalancesInv
  OBVIOUS
<1>1. IsFiniteSet({x \in Sale : stage[x] # "new"})
  <2>1. {x \in Sale : stage[x] # "new"} = {}
    BY DEF SalesInit
  <2> QED
    BY <2>1, FS_EmptySet
<1>2. OneVoid
  BY DEF SalesInit, OneVoid, VoidUnderWay
<1>3. ASSUME NEW c \in Customer PROVE balance[c] = ledger[c] - Debts(TakenOff(c))
  <2>1. TakenOff(c) = {}
    BY DEF SalesInit, TakenOff, SalesOf
  <2>2. Debts({}) = 0
    BY SumEmpty DEF Debts, SumFunction
  <2>3. balance[c] = 0 /\ ledger[c] = 0
    BY DEF SalesInit
  <2> QED
    BY <2>1, <2>2, <2>3
<1> QED
  BY <1>1, <1>2, <1>3 DEF BalancesInv

LEMMA SalesNext_BalancesInv ==
  ASSUME SalesInv, SalesInv', BalancesInv, [SalesNext]_vars
  PROVE  BalancesInv'
<1>1. ASSUME NEW c \in Customer, NEW amount \in Amounts, AddTransaction(c, amount)
      PROVE  BalancesInv'
  <2>1. /\ ledger' = [ledger EXCEPT ![c] = @ + amount]
        /\ balance' = [balance EXCEPT ![c] = @ + amount]
        /\ UNCHANGED <<stage, terms, voiding, voided, torn, twice>>
        /\ amount \in Int
    BY <1>1, AmountsAssumption DEF AddTransaction, Charge
  <2>2. ledger \in [Customer -> Int] /\ balance \in [Customer -> Int]
    BY DEF SalesInv, SalesTypeOK
  <2>3. \A x \in Customer : balance'[x] - ledger'[x] = balance[x] - ledger[x]
    BY <2>1, <2>2
  <2> QED
    BY <2>1, <2>3, OtherBalances
<1>2. CASE UNCHANGED saleVars
  BY <1>2, OtherBalances DEF saleVars
<1> QED
  BY <1>1, <1>2, SaleBalances, VoidBalances DEF SalesNext, CashAlone, vars

\* The balance of a customer never drifts from what it is made of: with SalesInv inductive.
THEOREM BalancesInvariant == SalesSpec => []BalancesInv
<1>1. SalesInit => SalesInv /\ BalancesInv
  BY SalesInit_SalesInv, SalesInit_BalancesInv
<1>2. SalesInv /\ BalancesInv /\ [SalesNext]_vars => (SalesInv /\ BalancesInv)'
  BY SalesNext_SalesInv, SalesNext_BalancesInv
<1> QED
  BY <1>1, <1>2, PTL DEF SalesSpec

\* Once nothing is under way, was torn or overlapped among the voids of a customer's sales,
\* the balance is what the transactions say, less the debts of the sales that were voided
\* (sales.service.ts lines 112-120 and 142-150, customers.service.ts lines 50-58).
THEOREM BalancesAreTheBooks == SalesSpec => []BalancesAgree
<1>1. BalancesInv => BalancesAgree
  <2> SUFFICES ASSUME BalancesInv, NEW c \in Customer, Settled(c)
               PROVE  balance[c] = ledger[c] - Debts({s \in SalesOf(c) : stage[s] = "VOIDED"})
    BY DEF BalancesAgree
  <2>1. SalesOf(c) \cap (torn \cup twice) = {}
    BY DEF Settled
  <2>2. TakenOff(c) = {s \in SalesOf(c) : stage[s] = "VOIDED"}
    BY DEF TakenOff, Settled
  <2> QED
    BY <2>1, <2>2 DEF BalancesInv
<1> QED
  BY <1>1, BalancesInvariant, PTL
=============================================================================
