------------------------------ MODULE DayBooks ------------------------------
(***************************************************************************)
(* The documents of a day and what is made of them: the closing of the day *)
(* (backend/src/daily-closing/daily-closing.service.ts), the reports, the  *)
(* reconciliation of the card terminal, payroll and the figures that the   *)
(* assistant answers with.                                                 *)
(*                                                                         *)
(* All of these read one kind of document after the other, each in a query *)
(* of its own and with no transaction around them, while documents are     *)
(* being made, voided and removed.  What is read is a set of documents;    *)
(* the totals are sums over it.  A stock level that is read stands for the *)
(* documents it sums up.                                                   *)
(*                                                                         *)
(* Making a document is one step here, its commit; Sales, CashBox, Stock   *)
(* and SyncServer say how its handler gets there.  Nothing that makes,     *)
(* voids or removes documents looks at the closing.                        *)
(***************************************************************************)
EXTENDS Integers, Sequences, FiniteSetsExt

CONSTANTS
  Doc,          \* documents, by the id they will have
  Days,         \* which documents a day may have: the table of each
  amount,       \* amount[d]: what d comes to
  paid,         \* paid[d]: what is paid of d, if it is a sale
  method,       \* method[d]: how, if it is a sale or a payment to a supplier: "terminal", the
                \* method named after the card terminal, "card", others by card, or "other"
  Personal,     \* those that, as expenses, are withdrawals of the owner
  Wasteful,     \* those that, as productions, have an item with more than a tenth of waste
  Req,          \* requests that read documents
  NoReq,
  Questions     \* for each question put to the assistant, the topics it mentions

Kinds  == {"sale", "expense", "purchase", "flour", "fuel", "production", "payroll",
           "attendance", "card", "debt", "payout"}
Tables == Kinds \cup {"payment", "box"}

ASSUME DocAssumption ==
  /\ Days \subseteq [Doc -> Kinds]
  /\ amount \in [Doc -> Int] /\ paid \in [Doc -> Int]
  /\ method \in [Doc -> {"terminal", "card", "other"}]
  /\ Personal \subseteq Doc /\ Wasteful \subseteq Doc
ASSUME ReqAssumption == NoReq \notin Req /\ Req \cap Doc = {}
ASSUME QuestionAssumption ==
  Questions \subseteq SUBSET {"sale", "debt", "flour", "fuel", "expense"}

VARIABLES
  kind,         \* kind[d]: the table of d, which never changes
  row,          \* row[d]: "none", "counted" or, voided or removed, "dropped"
  box,          \* the cash box of the day: "none", "open" or "closed"
  closed,       \* the closing of the day: its state and the request that made it
  request,      \* request[r]: how far r is and what it has read
  notices,      \* what notifications were created for: productions and reconciliations
  noticing,     \* productions that were made and whose items are being looked at
  moved,        \* history: documents, and "box", that changed since r began
  contested     \* history: the last request to close or reopen the day met another one

bookVars == <<kind, row, box, closed, request, notices, noticing, moved, contested>>

Jobs  == {"none", "close", "reopen", "profit", "sales", "yield", "reconcile", "payroll", "ask"}
Steps == {"new", "reading", "writing", "done"}
Closings == [state : {"none", "locked", "reopened"}, by : Req \cup {NoReq}]

At(r)  == request[r].at
Job(r) == request[r].job

DayTypeOK ==
  /\ kind    \in [Doc -> Kinds]
  /\ row     \in [Doc -> {"none", "counted", "dropped"}]
  /\ box     \in {"none", "open", "closed"}
  /\ closed  \in Closings
  /\ request \in [Req -> [job : Jobs, at : Steps, todo : Seq(Tables), read : SUBSET Tables,
                          seen : SUBSET Doc, cash : {"none", "open", "closed"},
                          found : Closings]]
  /\ notices  \subseteq Doc \cup Req
  /\ noticing \subseteq Doc
  /\ moved    \in [Req -> SUBSET (Doc \cup {"box"})]
  /\ contested \in BOOLEAN
  /\ \A d \in Doc : row[d] = "dropped" => kind[d] \in {"sale", "expense"}
  /\ closed.state # "none" => closed.by \in Req

NoClosing == [state |-> "none", by |-> NoReq]

Blank(st) == [job |-> "none", at |-> st, todo |-> <<>>, read |-> {}, seen |-> {},
              cash |-> "none", found |-> NoClosing]

DayInit ==
  /\ kind     \in Days
  /\ row      = [d \in Doc |-> "none"]
  /\ box      = "none"
  /\ closed   = NoClosing
  /\ request  = [r \in Req |-> Blank("new")]
  /\ notices  = {} /\ noticing = {}
  /\ moved    = [r \in Req |-> {}]
  /\ contested = FALSE

-----------------------------------------------------------------------------
(* Documents.                                                              *)

\* What r has read still matters: r is under way, or made the closing there is.
Tracked(r) == At(r) = "reading" \/ closed.by = r

Moved(x) == [r \in Req |-> IF Tracked(r) THEN moved[r] \cup {x} ELSE moved[r]]

Make(d) ==
  /\ row[d] = "none"
  /\ row' = [row EXCEPT ![d] = "counted"]
  /\ moved' = Moved(d)
  /\ UNCHANGED <<box, closed, notices, contested>>

Drop(d) ==
  /\ row[d] = "counted"
  /\ row' = [row EXCEPT ![d] = "dropped"]
  /\ moved' = Moved(d)
  /\ UNCHANGED <<box, closed, request, notices, noticing, contested>>

CreateSale(d)       == kind[d] = "sale"     /\ Make(d) /\ UNCHANGED <<request, noticing>>
CreateExpense(d)    == kind[d] = "expense"  /\ Make(d) /\ UNCHANGED <<request, noticing>>
CreatePurchase(d)   == kind[d] = "purchase" /\ Make(d) /\ UNCHANGED <<request, noticing>>
ConsumeFlour(d)     == kind[d] = "flour"    /\ Make(d) /\ UNCHANGED <<request, noticing>>
ConsumeFuel(d)      == kind[d] = "fuel"     /\ Make(d) /\ UNCHANGED <<request, noticing>>
AddDebt(d)          == kind[d] = "debt"     /\ Make(d) /\ UNCHANGED <<request, noticing>>
CardSlip(d)         == kind[d] = "card"     /\ Make(d) /\ UNCHANGED <<request, noticing>>
PaySupplier(d)      == kind[d] = "payout"   /\ Make(d) /\ UNCHANGED <<request, noticing>>
RecordAttendance(d) == kind[d] = "attendance" /\ Make(d) /\ UNCHANGED <<request, noticing>>

\* The production with its items; then one notification after the other for the wasteful ones.
CreateProduction(d) ==
  /\ kind[d] = "production"
  /\ Make(d)
  /\ noticing' = noticing \cup ({d} \cap Wasteful)
  /\ UNCHANGED request

NoticeWaste(d) ==
  /\ d \in noticing
  /\ noticing' = noticing \ {d}
  /\ notices' \in {notices \cup {d}, notices}   \* the second: the server stops before
  /\ UNCHANGED <<row, box, closed, request, moved, contested>>

VoidSale(d)      == kind[d] = "sale"    /\ Drop(d)
RemoveExpense(d) == kind[d] = "expense" /\ Drop(d)

\* openDay and closeDay of the cash box, CashBox's business.
MoveBox ==
  /\ box' = CASE box = "none" -> "open" [] OTHER -> "closed"
  /\ box # "closed"
  /\ moved' = Moved("box")
  /\ UNCHANGED <<row, closed, request, notices, noticing, contested>>

-----------------------------------------------------------------------------
(* What is read, and in which order.                                       *)

\* computeTotals; the box's balance is read last.
ClosingReads   == <<"sale", "expense", "purchase", "flour", "fuel", "production", "box">>
\* profitAndLoss.
ProfitReads    == <<"sale", "purchase", "expense", "payroll">>
\* salesReport, which the exports of it begin with.
SalesReads     == <<"sale">>
\* productionVsSalesReport.
YieldReads     == <<"production", "sale">>
\* reconcileForDate.
ReconcileReads == <<"card", "payment">>
\* debtReport of the customers: whose balance is more than nothing.
DebtReads      == <<"debt">>
\* report of the expenses, withdrawals among them and apart.
ExpenseReads   == <<"expense">>
\* gatherContext, for a question that mentions the topics of T; of none, the first three.
AskReads(T) ==
  LET asked == IF T = {} THEN {"sale", "debt", "flour"} ELSE T
      about(t, reads) == IF t \in asked THEN reads ELSE <<>>
  IN  about("sale", <<"sale">>) \o about("debt", DebtReads) \o about("flour", <<"flour">>)
        \o about("fuel", <<"fuel">>) \o about("expense", ExpenseReads)

ReadsOf(j) == CASE j = "close"     -> ClosingReads
                [] j = "profit"    -> ProfitReads
                [] j = "sales"     -> SalesReads
                [] j = "yield"     -> YieldReads
                [] j = "reconcile" -> ReconcileReads
                [] j = "payroll"   -> <<"attendance">>

\* A faulty variant of Found: the payments by all methods are taken.
FoundAnyMethod(t) ==
  IF t = "payment" THEN {d \in Doc : kind[d] \in {"sale", "payout"} /\ row[d] # "none"}
                   ELSE {d \in Doc : kind[d] = t /\ row[d] = "counted"}

\* The rows of a table that its query finds.  Payments are found by their method only: those
\* of voided sales, which keep theirs, and those to suppliers are among them.
Found(t) ==
  IF t = "payment"
    THEN {d \in Doc : kind[d] \in {"sale", "payout"} /\ method[d] = "terminal" /\ row[d] # "none"}
    ELSE {d \in Doc : kind[d] = t /\ row[d] = "counted"}

Begin(r, j, todo) ==
  /\ At(r) = "new"
  /\ request' = [request EXCEPT ![r] =
       [job |-> j, at |-> "reading", todo |-> todo, read |-> {}, seen |-> {},
        cash |-> "none", found |-> closed]]

\* One findMany, or the look at the box of the day.
Read(r) ==
  /\ At(r) = "reading"
  /\ request[r].todo # <<>>
  /\ LET t == Head(request[r].todo) IN
       request' = [request EXCEPT
         ![r].todo = Tail(@), ![r].read = @ \cup {t}, ![r].seen = @ \cup Found(t),
         ![r].cash = IF t = "box" THEN box ELSE @]
  /\ UNCHANGED <<row, box, closed, notices, noticing, moved, contested>>

HasRead(r, j) == At(r) = "reading" /\ Job(r) = j /\ request[r].todo = <<>>

End(r) ==
  /\ request' = [request EXCEPT ![r] = Blank("done")]
  /\ moved'   = [moved EXCEPT ![r] = {}]

-----------------------------------------------------------------------------
(* Sums.                                                                   *)

SumOf(D)     == SumFunctionOnSet(amount, D)
Total(S, t)  == SumOf({d \in S : kind[d] = t})
Withdrawn(S) == Total(S \cap Personal, "expense")
Spent(S)     == Total(S \ Personal, "expense")

\* A faulty variant of ApproxProfit: withdrawals are taken for expenses of the bakery only.
ProfitBeforeWithdrawals(S) == Total(S, "sale") - Spent(S) - Total(S, "purchase")

\* approxProfit of the closing, netProfit of the report, whether the discrepancy of the card
\* terminal is not 0.
ApproxProfit(S) == Total(S, "sale") - Spent(S) - Total(S, "purchase") - Withdrawn(S)
NetProfit(S)    == Total(S, "sale") - Total(S, "purchase") - Spent(S) - Total(S, "payroll")
Discrepancy(S)  ==
  Total(S, "card") # SumFunctionOnSet(paid, {d \in S : kind[d] = "sale"}) + Total(S, "payout")

-----------------------------------------------------------------------------
(* The closing.                                                            *)

OnTheDay(r) ==
  At(r) = "writing" \/ (At(r) = "reading" /\ Job(r) = "close")
Contest == contested' = \E q \in Req : OnTheDay(q)

\* A faulty variant of BeginClosing: a locked day can be closed again.
BeginClosingLocked(r) ==
  /\ Begin(r, "close", ClosingReads)
  /\ Contest
  /\ UNCHANGED <<row, box, closed, notices, noticing, moved>>

\* closeDay, its check of the lock.
BeginClosing(r) ==
  /\ closed.state # "locked"
  /\ Begin(r, "close", ClosingReads)
  /\ Contest
  /\ UNCHANGED <<row, box, closed, notices, noticing, moved>>

\* The upsert: the row of the day with these totals, locked.
Close(r) ==
  /\ HasRead(r, "close")
  /\ closed'  = [state |-> "locked", by |-> r]
  /\ request' = [request EXCEPT ![r].at = "done", ![r].found = NoClosing]
  /\ UNCHANGED <<row, box, notices, noticing, moved, contested>>

\* A faulty variant of BeginReopening: a day that was never closed is reopened.
BeginReopeningAny(r) ==
  /\ At(r) = "new"
  /\ request' = [request EXCEPT ![r] =
       [Blank("writing") EXCEPT !.job = "reopen", !.found = closed]]
  /\ Contest
  /\ UNCHANGED <<row, box, closed, notices, noticing, moved>>

\* reopen, its findUnique: any row of the day, locked or not.
BeginReopening(r) ==
  /\ At(r) = "new"
  /\ closed.state # "none"
  /\ request' = [request EXCEPT ![r] =
       [Blank("writing") EXCEPT !.job = "reopen", !.found = closed]]
  /\ Contest
  /\ UNCHANGED <<row, box, closed, notices, noticing, moved>>

Reopen(r) ==
  /\ At(r) = "writing"
  /\ closed' = [closed EXCEPT !.state = "reopened"]
  /\ End(r)
  /\ UNCHANGED <<row, box, notices, noticing, contested>>

-----------------------------------------------------------------------------
(* The other readers.                                                      *)

\* preview, which reads what a closing reads, is left out.
BeginReport(r, j) ==
  /\ Begin(r, j, ReadsOf(j))
  /\ UNCHANGED <<row, box, closed, notices, noticing, moved, contested>>

ProfitAndLoss(r)     == BeginReport(r, "profit")
SalesReport(r)       == BeginReport(r, "sales")
ProductionVsSales(r) == BeginReport(r, "yield")
ReconcileForDate(r)  == BeginReport(r, "reconcile")
GeneratePayroll(r)   == BeginReport(r, "payroll")

\* ask: the conversation and the question are stored, and what the question is about is read.
Ask(r) ==
  /\ \E T \in Questions : Begin(r, "ask", AskReads(T))
  /\ UNCHANGED <<row, box, closed, notices, noticing, moved, contested>>

\* A notification if the terminal and the payments differ.
Reconcile(r) ==
  /\ HasRead(r, "reconcile")
  /\ notices' = IF Discrepancy(request[r].seen) THEN notices \cup {r} ELSE notices
  /\ End(r)
  /\ UNCHANGED <<row, box, closed, noticing, contested>>

\* generate: the payroll, whose overtime is that of the attendances read.
CreatePayroll(r, d) ==
  /\ HasRead(r, "payroll")
  /\ kind[d] = "payroll" /\ row[d] = "none"
  /\ row'     = [row EXCEPT ![d] = "counted"]
  /\ request' = [request EXCEPT ![r] = Blank("done")]
  /\ moved'   = [Moved(d) EXCEPT ![r] = {}]
  /\ UNCHANGED <<box, closed, notices, noticing, contested>>

\* The report is returned; the assistant's answer is stored with the figures, worded by the
\* language model or, when that fails, without.
Answer(r) ==
  /\ \E j \in {"profit", "sales", "yield", "ask"} : HasRead(r, j)
  /\ End(r)
  /\ UNCHANGED <<row, box, closed, notices, noticing, contested>>

\* A query fails or the server stops.  The question to the assistant stays without answer.
ReadingFails(r) ==
  /\ At(r) \in {"reading", "writing"}
  /\ End(r)
  /\ UNCHANGED <<row, box, closed, notices, noticing, contested>>

-----------------------------------------------------------------------------

DocStep(d) ==
  \/ CreateSale(d) \/ CreateExpense(d) \/ CreatePurchase(d) \/ CreateProduction(d)
  \/ ConsumeFlour(d) \/ ConsumeFuel(d) \/ AddDebt(d) \/ CardSlip(d) \/ PaySupplier(d)
  \/ RecordAttendance(d)
  \/ NoticeWaste(d)
  \/ VoidSale(d) \/ RemoveExpense(d)

ReqStep(r) ==
  \/ BeginClosing(r) \/ Close(r)
  \/ BeginReopening(r) \/ Reopen(r)
  \/ ProfitAndLoss(r) \/ SalesReport(r) \/ ProductionVsSales(r)
  \/ ReconcileForDate(r) \/ GeneratePayroll(r)
  \/ Ask(r)
  \/ Read(r) \/ Reconcile(r) \/ Answer(r) \/ ReadingFails(r)
  \/ \E d \in Doc : CreatePayroll(r, d)

DayNext ==
  /\ \/ \E d \in Doc : DocStep(d)
     \/ MoveBox
     \/ \E r \in Req : ReqStep(r)
  /\ UNCHANGED kind

DaySpec == DayInit /\ [][DayNext]_bookVars

-----------------------------------------------------------------------------
(* What the figures promise.                                               *)

Sign(d) == CASE kind[d] = "sale" -> 1
             [] kind[d] \in {"expense", "purchase"} -> -1
             [] OTHER -> 0

\* If none of the documents has changed since they began: the profit stored by the closing is
\* that of the day's documents one by one (daily-closing.service.ts line 87), and the profit and
\* loss report says more, by the withdrawals, and less, by the payrolls (reports.service.ts
\* lines 35-36).
ProfitsAgree ==
  closed.by # NoReq /\ moved[closed.by] = {} =>
    LET day == request[closed.by].seen IN
      /\ ApproxProfit(day)
           = SumFunction([d \in {x \in Doc : row[x] = "counted"} |-> Sign(d) * amount[d]])
      /\ \A r \in Req : HasRead(r, "profit") /\ moved[r] = {} =>
           NetProfit(request[r].seen)
             = ApproxProfit(day) + Withdrawn(day) - Total(request[r].seen, "payroll")

\* A closing that is locked gives way to nothing but a reopening that found this very closing,
\* unless requests to close or reopen the day met (daily-closing.service.ts lines 7-9, 108-117
\* and 125-132).
LockHolds ==
  [][closed.state = "locked" /\ closed' # closed /\ ~contested =>
       /\ closed' = [closed EXCEPT !.state = "reopened"]
       /\ \E r \in Req : At(r) = "writing" /\ request[r].found = closed]_bookVars

Counted == {d \in Doc : row[d] = "counted"}
Dropped == {d \in Doc : row[d] = "dropped"}

PaidBy(S, m) == SumFunctionOnSet(paid, {d \in S : kind[d] = "sale" /\ method[d] = m})

\* What was paid by card for the sales there are.
CardSales == PaidBy(Counted, "terminal") + PaidBy(Counted, "card")

\* How far the payments that the terminal is compared with are from that: those of voided sales
\* and to suppliers are among them, and those by the other methods of the type are not.
Astray ==
  PaidBy(Dropped, "terminal") - PaidBy(Counted, "card")
    + SumOf({d \in Counted : kind[d] = "payout" /\ method[d] = "terminal"})

\* An alarm means that terminal and sales by card differ by other than that, unless slips, sales
\* or payments came in between the two queries (card-transactions.service.ts lines 5-6, 26-44).
AlarmIsReal ==
  [][\A r \in Req : r \in notices' \ notices /\ moved[r] = {} =>
       Total(Counted, "card") - CardSales # Astray]_bookVars
=============================================================================
