-------------------------- MODULE DayBooks_proofs --------------------------
(***************************************************************************)
(* Proofs about DayBooks, for any documents, days and requests.  DayInv    *)
(* adds to the types where the figures of a request come from: what it has *)
(* read so far (FiguresAccounted, with Locked saying whose figures the     *)
(* closing keeps), what a reconciliation reads (Pairs), and that a request *)
(* which closes or reopens the day is alone unless contested (Alone) and   *)
(* found what there still is (FoundIsCurrent), which is no locked closing  *)
(* if it closes (OpenFound).  SumInv is what the sums rest on besides: a   *)
(* request that closes or reports reads all the tables it is to read, and  *)
(* there are finitely many documents.                                      *)
(***************************************************************************)
EXTENDS DayBooks, SumTheorems, SequenceTheorems

\* The closing there is was made by a request that is done, and a day being reopened has one.
Locked ==
  /\ closed.by # NoReq => At(closed.by) = "done"
  /\ \A r \in Req : At(r) = "writing" => closed.state # "none"

\* What a request that reconciles has read, and what it is still to read.
Pairs ==
  \A r \in Req : At(r) = "reading" /\ Job(r) = "reconcile" =>
    \/ request[r].todo = <<"card", "payment">> /\ request[r].read = {}
    \/ request[r].todo = <<"payment">> /\ request[r].read = {"card"}
    \/ request[r].todo = <<>> /\ request[r].read = {"card", "payment"}

\* Where the figures of a request, or of the closing, are not those of the books as they are,
\* the difference is documents that changed since the request began.
FiguresAccounted ==
  \A r \in Req : Tracked(r) =>
    /\ request[r].seen \ moved[r] = (UNION {Found(t) : t \in request[r].read}) \ moved[r]
    /\ "box" \in request[r].read /\ "box" \notin moved[r] => request[r].cash = box

Alone == ~contested => \A r, q \in Req : OnTheDay(r) /\ OnTheDay(q) => r = q

FoundIsCurrent ==
  \A r \in Req : OnTheDay(r) /\ ~contested => request[r].found = closed

\* Who closes the day found it open.
OpenFound ==
  \A r \in Req : At(r) = "reading" /\ Job(r) = "close" => request[r].found.state # "locked"

DayInv ==
  DayTypeOK /\ Locked /\ Pairs /\ FiguresAccounted /\ Alone /\ FoundIsCurrent /\ OpenFound

USE DocAssumption, ReqAssumption
USE DEF At, Job

Record == [job : Jobs, at : Steps, todo : Seq(Tables), read : SUBSET Tables,
           seen : SUBSET Doc, cash : {"none", "open", "closed"}, found : Closings]

Changes(r) ==
  request' \in [Req -> Record] /\ \A q \in Req : q # r => request'[q] = request[q]

-----------------------------------------------------------------------------
(* The types.                                                              *)

LEMMA Records == DayTypeOK => request \in [Req -> Record] /\ closed \in Closings
BY DEF DayTypeOK, Record

LEMMA Replaced ==
  ASSUME request \in [Req -> Record], NEW r \in Req, NEW rec \in Record,
         request' = [request EXCEPT ![r] = rec]
  PROVE  Changes(r) /\ request'[r] = rec
BY DEF Changes

LEMMA BlankRecord ==
  /\ Blank("new") \in Record /\ Blank("done") \in Record
  /\ Blank("new").at = "new" /\ Blank("done").at = "done"
<1>1. <<>> \in Seq(Tables)
  OBVIOUS
<1>2. NoClosing \in Closings
  BY DEF NoClosing, Closings
<1> QED
  BY <1>1, <1>2 DEF Blank, Record, Jobs, Steps

LEMMA EndRecord ==
  ASSUME DayTypeOK, NEW r \in Req, request' = [request EXCEPT ![r] = Blank("done")]
  PROVE  Changes(r) /\ At(r)' = "done"
BY Records, BlankRecord, Replaced

LEMMA BeginRecord ==
  ASSUME DayTypeOK, NEW r \in Req, NEW j \in Jobs, NEW todo \in Seq(Tables), Begin(r, j, todo)
  PROVE  /\ Changes(r)
         /\ At(r) = "new" /\ At(r)' = "reading" /\ Job(r)' = j
         /\ request'[r].todo = todo /\ request'[r].read = {} /\ request'[r].seen = {}
         /\ request'[r].found = closed
<1> DEFINE rec == [job |-> j, at |-> "reading", todo |-> todo, read |-> {}, seen |-> {},
                   cash |-> "none", found |-> closed]
<1>1. rec \in Record
  BY Records DEF Record, Steps
<1>2. At(r) = "new" /\ request' = [request EXCEPT ![r] = rec]
  BY DEF Begin
<1> HIDE DEF rec
<1>3. Changes(r) /\ request'[r] = rec
  BY <1>1, <1>2, Records, Replaced
<1> QED
  BY <1>2, <1>3 DEF rec

\* The lists of tables to read.
LEMMA ListsOK ==
  /\ ClosingReads \in Seq(Tables) /\ ProfitReads \in Seq(Tables)
  /\ YieldReads \in Seq(Tables) /\ ReconcileReads \in Seq(Tables)
  /\ SalesReads \in Seq(Tables) /\ <<"attendance">> \in Seq(Tables)
  /\ \A T : AskReads(T) \in Seq(Tables)
<1>1. ClosingReads \in Seq(Tables)
  BY DEF ClosingReads, Tables, Kinds
<1>2. /\ ProfitReads \in Seq(Tables) /\ YieldReads \in Seq(Tables)
      /\ ReconcileReads \in Seq(Tables) /\ SalesReads \in Seq(Tables)
      /\ <<"attendance">> \in Seq(Tables)
  BY DEF SalesReads, ProfitReads, YieldReads, ReconcileReads, Tables, Kinds
<1>3. ASSUME NEW T PROVE AskReads(T) \in Seq(Tables)
  <2> DEFINE asked == IF T = {} THEN {"sale", "debt", "flour"} ELSE T
             about(t, reads) == IF t \in asked THEN reads ELSE <<>>
             sales    == about("sale", <<"sale">>)
             debts    == about("debt", DebtReads)
             flour    == about("flour", <<"flour">>)
             fuel     == about("fuel", <<"fuel">>)
             expenses == about("expense", ExpenseReads)
  <2>0. <<>> \in Seq(Tables) /\ \A t \in Tables : <<t>> \in Seq(Tables)
    OBVIOUS
  <2>1. \A t : \A reads \in Seq(Tables) : about(t, reads) \in Seq(Tables)
    <3> HIDE DEF asked
    <3> QED
      BY <2>0
  <2>2. /\ <<"sale">> \in Seq(Tables) /\ DebtReads \in Seq(Tables) /\ <<"flour">> \in Seq(Tables)
        /\ <<"fuel">> \in Seq(Tables) /\ ExpenseReads \in Seq(Tables)
    <3>1. {"sale", "debt", "flour", "fuel", "expense"} \subseteq Tables
      BY DEF Tables, Kinds
    <3> QED
      BY <2>0, <3>1 DEF DebtReads, ExpenseReads
  <2> HIDE DEF about
  <2>3. /\ sales \in Seq(Tables) /\ debts \in Seq(Tables) /\ flour \in Seq(Tables)
        /\ fuel \in Seq(Tables) /\ expenses \in Seq(Tables)
    BY <2>1, <2>2
  <2> HIDE DEF sales, debts, flour, fuel, expenses
  <2>4. sales \o debts \o flour \in Seq(Tables)
    BY <2>3, ConcatProperties
  <2>5. sales \o debts \o flour \o fuel \o expenses \in Seq(Tables)
    BY <2>3, <2>4, ConcatProperties
  <2> QED
    BY <2>5 DEF AskReads, sales, debts, flour, fuel, expenses, about
<1> QED
  BY <1>1, <1>2, <1>3

\* The record of a request that has read on.
ReadOn(x, a, b, c, d) == [x EXCEPT !.todo = a, !.read = b, !.seen = c, !.cash = d]

LEMMA ReadOnRecord ==
  ASSUME NEW x \in Record, NEW a \in Seq(Tables), NEW b \in SUBSET Tables,
         NEW c \in SUBSET Doc, NEW d \in {"none", "open", "closed"},
         NEW y, y = ReadOn(x, a, b, c, d)
  PROVE  /\ y \in Record
         /\ y.at = x.at /\ y.job = x.job /\ y.found = x.found
         /\ y.todo = a /\ y.read = b /\ y.seen = c /\ y.cash = d
<1>1. /\ x.at \in Steps /\ x.job \in Jobs /\ x.found \in Closings
      /\ y.at = x.at /\ y.job = x.job /\ y.found = x.found
  BY DEF Record, ReadOn
<1>2. y.todo = a /\ y.read = b /\ y.seen = c /\ y.cash = d
  BY DEF Record, ReadOn
<1>3. y \in Record
  BY DEF Record, ReadOn
<1> QED
  BY <1>1, <1>2, <1>3

LEMMA ReadRecord ==
  ASSUME DayTypeOK, NEW r \in Req, Read(r)
  PROVE  /\ Changes(r)
         /\ At(r) = "reading" /\ At(r)' = At(r) /\ Job(r)' = Job(r)
         /\ request'[r].found = request[r].found
         /\ request[r].todo \in Seq(Tables) /\ request[r].todo # <<>>
         /\ Head(request[r].todo) \in Tables
         /\ request'[r].todo = Tail(request[r].todo)
         /\ request'[r].read = request[r].read \cup {Head(request[r].todo)}
         /\ request'[r].seen = request[r].seen \cup Found(Head(request[r].todo))
         /\ request'[r].cash = IF Head(request[r].todo) = "box" THEN box ELSE request[r].cash
<1> DEFINE q == request[r]
           t == Head(q.todo)
           a == Tail(q.todo)
           b == q.read \cup {t}
           c == q.seen \cup Found(t)
           d == IF t = "box" THEN box ELSE q.cash
           rec == ReadOn(q, a, b, c, d)
<1>1. q \in Record /\ At(r) = "reading" /\ q.todo # <<>>
  BY Records DEF Read
<1>2. q.todo \in Seq(Tables) /\ q.read \in SUBSET Tables /\ q.seen \in SUBSET Doc
      /\ q.cash \in {"none", "open", "closed"}
  BY <1>1 DEF Record
<1>3. t \in Tables /\ Tail(q.todo) \in Seq(Tables)
  BY <1>1, <1>2, HeadTailProperties
<1>4. b \in SUBSET Tables /\ c \in SUBSET Doc /\ d \in {"none", "open", "closed"}
  BY <1>2, <1>3 DEF Found, DayTypeOK
<1>5. request' = [request EXCEPT ![r] = rec]
  <2>1. request' = [request EXCEPT
         ![r].todo = Tail(@), ![r].read = @ \cup {t}, ![r].seen = @ \cup Found(t),
         ![r].cash = IF t = "box" THEN box ELSE @]
    BY DEF Read, t
  <2> QED
    BY <2>1, Zenon DEF ReadOn
<1>6. /\ rec \in Record /\ rec.at = q.at /\ rec.job = q.job /\ rec.found = q.found
      /\ rec.todo = Tail(q.todo) /\ rec.read = b /\ rec.seen = c /\ rec.cash = d
  <2>1. rec = ReadOn(q, a, b, c, d)
    OBVIOUS
  <2>2. a \in Seq(Tables) /\ q \in Record
    BY <1>1, <1>3
  <2>3. b \in SUBSET Tables /\ c \in SUBSET Doc /\ d \in {"none", "open", "closed"}
    BY <1>4
  <2> HIDE DEF q, t, a, b, c, d, rec
  <2>4. /\ rec \in Record /\ rec.at = q.at /\ rec.job = q.job /\ rec.found = q.found
        /\ rec.todo = a /\ rec.read = b /\ rec.seen = c /\ rec.cash = d
    BY <2>1, <2>2, <2>3, ReadOnRecord
  <2> QED
    BY <2>4 DEF a
<1> HIDE DEF rec
<1>7. Changes(r) /\ request'[r] = rec
  BY <1>5, <1>6, Records, Replaced
<1> QED
  BY <1>1, <1>2, <1>3, <1>6, <1>7

LEMMA StartTypes == DayInit => DayTypeOK
<1> SUFFICES ASSUME DayInit PROVE DayTypeOK
  OBVIOUS
<1>1. kind \in [Doc -> Kinds] /\ row \in [Doc -> {"none", "counted", "dropped"}]
  BY DEF DayInit
<1>2. closed \in Closings /\ closed.state = "none"
  BY DEF DayInit, NoClosing, Closings
<1>3. request \in [Req -> Record]
  BY BlankRecord DEF DayInit
<1>4. \A d \in Doc : row[d] # "dropped"
  BY DEF DayInit
<1>5. moved \in [Req -> SUBSET (Doc \cup {"box"})]
  BY DEF DayInit
<1> QED
  BY <1>1, <1>2, <1>3, <1>4, <1>5 DEF DayInit, DayTypeOK, Record

\* What DayTypeOK says, part by part.
LEMMA TypesOf ==
  DayTypeOK <=>
  /\ kind \in [Doc -> Kinds] /\ row \in [Doc -> {"none", "counted", "dropped"}]
  /\ box \in {"none", "open", "closed"}
  /\ closed \in Closings /\ request \in [Req -> Record]
  /\ notices \subseteq Doc \cup Req /\ noticing \subseteq Doc
  /\ moved \in [Req -> SUBSET (Doc \cup {"box"})] /\ contested \in BOOLEAN
  /\ \A d \in Doc : row[d] = "dropped" => kind[d] \in {"sale", "expense"}
  /\ closed.state # "none" => closed.by \in Req
BY DEF DayTypeOK, Record

LEMMA MovedTypes ==
  ASSUME DayTypeOK, NEW x \in Doc \cup {"box"}
  PROVE  /\ Moved(x) \in [Req -> SUBSET (Doc \cup {"box"})]
         /\ \A r \in Req : moved[r] \subseteq Moved(x)[r] /\ (Tracked(r) => x \in Moved(x)[r])
BY DEF Moved, DayTypeOK

\* Documents.
LEMMA DocTypes ==
  ASSUME DayTypeOK, NEW d \in Doc, DocStep(d), UNCHANGED kind
  PROVE  DayTypeOK' /\ UNCHANGED <<box, closed, request, contested>>
<1>1. UNCHANGED <<box, closed, request, contested>>
  BY DEF DocStep, CreateSale, CreateExpense, CreatePurchase, CreateProduction, ConsumeFlour,
         ConsumeFuel, AddDebt, CardSlip, PaySupplier, RecordAttendance, NoticeWaste, VoidSale, RemoveExpense,
         Make, Drop
<1>2. CASE Make(d)
  <2>1. noticing' \subseteq Doc /\ notices' = notices
    <3>1. noticing' = noticing \/ noticing' \subseteq noticing \cup {d}
      BY <1>2 DEF DocStep, CreateSale, CreateExpense, CreatePurchase, CreateProduction,
                  ConsumeFlour, ConsumeFuel, AddDebt, CardSlip, PaySupplier, RecordAttendance, NoticeWaste,
                  VoidSale, RemoveExpense, Drop
    <3> QED
      BY <1>2, <3>1 DEF Make, DayTypeOK
  <2>2. row' \in [Doc -> {"none", "counted", "dropped"}]
        /\ \A x \in Doc : row'[x] = "dropped" => row[x] = "dropped"
    BY <1>2 DEF Make, DayTypeOK
  <2>3. moved' \in [Req -> SUBSET (Doc \cup {"box"})]
    BY <1>2, MovedTypes DEF Make
  <2> QED
    BY <1>1, <2>1, <2>2, <2>3, TypesOf DEF DayTypeOK
<1>3. CASE NoticeWaste(d)
  <2>1. notices' \subseteq Doc \cup Req /\ noticing' \subseteq Doc /\ UNCHANGED <<row, moved>>
    BY <1>3 DEF NoticeWaste, DayTypeOK
  <2> QED
    BY <1>1, <2>1 DEF DayTypeOK
<1>4. CASE Drop(d) /\ kind[d] \in {"sale", "expense"}
  <2>1. row' \in [Doc -> {"none", "counted", "dropped"}]
        /\ \A x \in Doc : row'[x] = "dropped" => row[x] = "dropped" \/ x = d
    BY <1>4 DEF Drop, DayTypeOK
  <2>2. moved' \in [Req -> SUBSET (Doc \cup {"box"})] /\ UNCHANGED <<notices, noticing>>
    BY <1>4, MovedTypes DEF Drop
  <2> QED
    BY <1>1, <1>4, <2>1, <2>2 DEF DayTypeOK
<1> QED
  BY <1>1, <1>2, <1>3, <1>4
  DEF DocStep, CreateSale, CreateExpense, CreatePurchase, CreateProduction, ConsumeFlour,
      ConsumeFuel, AddDebt, CardSlip, PaySupplier, RecordAttendance, VoidSale, RemoveExpense

\* The cash box.
LEMMA BoxTypes ==
  ASSUME DayTypeOK, MoveBox, UNCHANGED kind
  PROVE  DayTypeOK' /\ UNCHANGED <<row, closed, request, contested>>
<1>1. box' \in {"none", "open", "closed"}
  BY DEF MoveBox
<1>2. moved' \in [Req -> SUBSET (Doc \cup {"box"})]
  BY MovedTypes DEF MoveBox
<1> QED
  BY <1>1, <1>2 DEF MoveBox, DayTypeOK

-----------------------------------------------------------------------------
(* The shapes a step of a request can have.                                *)

\* It begins to read.
Starts(r) ==
  /\ Changes(r)
  /\ At(r) = "new" /\ At(r)' = "reading"
  /\ request'[r].read = {} /\ request'[r].seen = {} /\ request'[r].found = closed
  /\ Job(r)' \in {"close", "profit", "reconcile"} => request'[r].todo = ReadsOf(Job(r)')
  /\ IF Job(r)' = "close" THEN closed.state # "locked" /\ Contest ELSE contested' = contested
  /\ UNCHANGED <<row, box, closed, notices, noticing, moved>>

\* It is to reopen the day.
StartsWriting(r) ==
  /\ Changes(r)
  /\ At(r) = "new" /\ At(r)' = "writing" /\ request'[r].found = closed
  /\ closed.state # "none"
  /\ Contest
  /\ UNCHANGED <<row, box, closed, notices, noticing, moved>>

\* It is done, and only the state of the closing, the notices and documents may have changed.
Ends(r) ==
  /\ Changes(r)
  /\ At(r) \in {"reading", "writing"} /\ At(r)' = "done"
  /\ closed' \in Closings /\ closed'.by = closed.by
  /\ closed' # closed => At(r) = "writing" /\ closed'.state = "reopened"
  /\ notices' \subseteq notices \cup {r}
  /\ moved' \in [Req -> SUBSET (Doc \cup {"box"})]
  /\ UNCHANGED <<box, noticing, contested>>

\* The documents are those there were, or one more, of which those that read are told.
AddsDoc(r) ==
  \/ UNCHANGED row /\ \A q \in Req : q # r => moved'[q] = moved[q]
  \/ \E d \in Doc : /\ row[d] = "none" /\ row' = [row EXCEPT ![d] = "counted"]
                    /\ \A q \in Req : q # r => moved'[q] = Moved(d)[q]

\* It has closed the day with what it read.
Closes(r) ==
  /\ Changes(r)
  /\ HasRead(r, "close") /\ At(r)' = "done"
  /\ request'[r].seen = request[r].seen /\ request'[r].read = request[r].read
  /\ request'[r].cash = request[r].cash
  /\ closed' \in Closings /\ closed'.by = r /\ closed'.state = "locked"
  /\ UNCHANGED <<row, box, notices, noticing, moved, contested>>

LEMMA StartShape ==
  ASSUME DayTypeOK, NEW r \in Req, NEW j \in Jobs, NEW todo \in Seq(Tables), Begin(r, j, todo),
         UNCHANGED <<row, box, closed, notices, noticing, moved>>,
         j \in {"close", "profit", "reconcile"} => todo = ReadsOf(j),
         IF j = "close" THEN closed.state # "locked" /\ Contest ELSE contested' = contested
  PROVE  Starts(r)
<1>1. /\ Changes(r)
      /\ At(r) = "new" /\ At(r)' = "reading" /\ Job(r)' = j
      /\ request'[r].todo = todo /\ request'[r].read = {} /\ request'[r].seen = {}
      /\ request'[r].found = closed
  BY BeginRecord
<1> QED
  BY <1>1 DEF Starts

LEMMA ReportShape ==
  ASSUME DayTypeOK, NEW r \in Req,
         ProfitAndLoss(r) \/ SalesReport(r) \/ ProductionVsSales(r) \/ ReconcileForDate(r)
           \/ GeneratePayroll(r) \/ Ask(r)
  PROVE  Starts(r)
<1>1. ASSUME NEW j \in {"profit", "sales", "yield", "reconcile", "payroll"}, BeginReport(r, j)
      PROVE  Starts(r)
  <2>1. ReadsOf(j) \in Seq(Tables)
    BY ListsOK DEF ReadsOf, ReconcileReads
  <2>2. j \in Jobs /\ j # "close"
    BY DEF Jobs
  <2>3. Begin(r, j, ReadsOf(j)) /\ UNCHANGED <<row, box, closed, notices, noticing, moved, contested>>
    BY <1>1 DEF BeginReport
  <2> QED
    BY <2>1, <2>2, <2>3, StartShape
<1>2. ASSUME Ask(r) PROVE Starts(r)
  <2>1. PICK T \in Questions : Begin(r, "ask", AskReads(T))
    BY <1>2 DEF Ask
  <2>2. AskReads(T) \in Seq(Tables) /\ "ask" \in Jobs
    BY ListsOK DEF Jobs
  <2> QED
    BY <1>2, <2>1, <2>2, StartShape DEF Ask
<1> QED
  BY <1>1, <1>2 DEF ProfitAndLoss, SalesReport, ProductionVsSales, ReconcileForDate, GeneratePayroll

LEMMA ClosingShape ==
  ASSUME DayTypeOK, NEW r \in Req, BeginClosing(r)
  PROVE  Starts(r)
<1>1. ClosingReads \in Seq(Tables) /\ "close" \in Jobs /\ ReadsOf("close") = ClosingReads
  BY ListsOK DEF Jobs, ReadsOf
<1> QED
  BY <1>1, StartShape DEF BeginClosing

LEMMA WritingShape ==
  ASSUME DayTypeOK, NEW r \in Req, BeginReopening(r)
  PROVE  StartsWriting(r)
<1> DEFINE rec == [Blank("writing") EXCEPT !.job = "reopen", !.found = closed]
<1>1. rec \in Record /\ rec.at = "writing" /\ rec.found = closed
  <2>1. closed \in Closings /\ <<>> \in Seq(Tables)
    BY Records
  <2> QED
    BY <2>1 DEF Blank, Record, Jobs, Steps
<1>2. request' = [request EXCEPT ![r] = rec]
  BY DEF BeginReopening
<1> HIDE DEF rec
<1>3. Changes(r) /\ request'[r] = rec
  BY <1>1, <1>2, Records, Replaced
<1> QED
  BY <1>1, <1>3 DEF BeginReopening, StartsWriting

LEMMA CloseShape ==
  ASSUME DayTypeOK, NEW r \in Req, Close(r)
  PROVE  Closes(r)
<1> DEFINE rec == [request[r] EXCEPT !.at = "done", !.found = NoClosing]
<1>1. /\ rec \in Record /\ rec.at = "done" /\ rec.seen = request[r].seen
      /\ rec.read = request[r].read /\ rec.cash = request[r].cash
  <2>1. NoClosing \in Closings /\ request[r] \in Record
    BY Records DEF NoClosing, Closings
  <2> QED
    BY <2>1 DEF Record, Steps
<1>2. request' = [request EXCEPT ![r] = rec]
  <2>1. request' = [request EXCEPT ![r].at = "done", ![r].found = NoClosing]
    BY DEF Close
  <2> QED
    BY <2>1, Zenon
<1> HIDE DEF rec
<1>3. Changes(r) /\ request'[r] = rec
  BY <1>1, <1>2, Records, Replaced
<1>4. closed' \in Closings /\ closed'.by = r /\ closed'.state = "locked"
  BY DEF Close, Closings
<1> QED
  BY <1>1, <1>3, <1>4 DEF Close, Closes

LEMMA EndShape ==
  ASSUME DayTypeOK, NEW r \in Req, Reopen(r) \/ Reconcile(r) \/ Answer(r) \/ ReadingFails(r)
  PROVE  Ends(r) /\ AddsDoc(r)
<1>1. At(r) \in {"reading", "writing"}
  BY DEF Reopen, Reconcile, Answer, ReadingFails, HasRead
<1>2. End(r) /\ UNCHANGED <<row, box, noticing, contested>>
  BY DEF Reopen, Reconcile, Answer, ReadingFails
<1>3. Changes(r) /\ At(r)' = "done"
  BY <1>2, EndRecord DEF End
<1>4. moved' \in [Req -> SUBSET (Doc \cup {"box"})] /\ \A q \in Req : q # r => moved'[q] = moved[q]
  BY <1>2 DEF End, DayTypeOK
<1>5. /\ closed' \in Closings /\ closed'.by = closed.by
      /\ closed' # closed => At(r) = "writing" /\ closed'.state = "reopened"
  <2>1. CASE Reopen(r)
    BY <2>1, Records DEF Reopen, Closings
  <2>2. CASE closed' = closed
    BY <2>2, Records
  <2> QED
    BY <2>1, <2>2 DEF Reconcile, Answer, ReadingFails
<1>6. notices' \subseteq notices \cup {r}
  BY DEF Reopen, Reconcile, Answer, ReadingFails
<1> QED
  BY <1>1, <1>2, <1>3, <1>4, <1>5, <1>6 DEF Ends, AddsDoc

LEMMA PayrollShape ==
  ASSUME DayTypeOK, NEW r \in Req, NEW d \in Doc, CreatePayroll(r, d)
  PROVE  Ends(r) /\ AddsDoc(r)
<1>1. Changes(r) /\ At(r)' = "done"
  BY EndRecord DEF CreatePayroll
<1>2. Moved(d) \in [Req -> SUBSET (Doc \cup {"box"})]
  BY MovedTypes
<1>3. /\ moved' \in [Req -> SUBSET (Doc \cup {"box"})]
      /\ \A q \in Req : q # r => moved'[q] = Moved(d)[q]
  <2>1. moved' = [Moved(d) EXCEPT ![r] = {}]
    BY DEF CreatePayroll
  <2> QED
    BY <1>2, <2>1
<1>4. AddsDoc(r)
  BY <1>3 DEF CreatePayroll, AddsDoc
<1> QED
  BY <1>1, <1>3, <1>4, Records DEF CreatePayroll, Ends, HasRead

\* Every step of a request has one of these shapes.
LEMMA Shapes ==
  ASSUME DayTypeOK, NEW r \in Req, ReqStep(r)
  PROVE  Starts(r) \/ StartsWriting(r) \/ Read(r) \/ Closes(r) \/ (Ends(r) /\ AddsDoc(r))
<1>1. CASE BeginClosing(r)
  BY <1>1, ClosingShape
<1>2. CASE ProfitAndLoss(r) \/ SalesReport(r) \/ ProductionVsSales(r) \/ ReconcileForDate(r)
             \/ GeneratePayroll(r) \/ Ask(r)
  BY <1>2, ReportShape
<1>3. CASE BeginReopening(r)
  BY <1>3, WritingShape
<1>4. CASE Close(r)
  BY <1>4, CloseShape
<1>5. CASE Reopen(r) \/ Reconcile(r) \/ Answer(r) \/ ReadingFails(r)
  BY <1>5, EndShape
<1>6. CASE \E d \in Doc : CreatePayroll(r, d)
  BY <1>6, PayrollShape
<1> QED
  BY <1>1, <1>2, <1>3, <1>4, <1>5, <1>6 DEF ReqStep

-----------------------------------------------------------------------------
(* The types and the closing's makers are kept.                            *)

LEMMA ReqTypes ==
  ASSUME DayTypeOK, Locked, NEW r \in Req, ReqStep(r), UNCHANGED kind
  PROVE  DayTypeOK'
<1>1. CASE Starts(r)
  <2>1. contested' \in BOOLEAN
    BY <1>1 DEF Starts, Contest, DayTypeOK
  <2> QED
    BY <1>1, <2>1 DEF Starts, Changes, DayTypeOK, Record
<1>2. CASE StartsWriting(r)
  <2>1. contested' \in BOOLEAN
    BY <1>2 DEF StartsWriting, Contest, DayTypeOK
  <2> QED
    BY <1>2, <2>1 DEF StartsWriting, Changes, DayTypeOK, Record
<1>3. CASE Read(r)
  <2>1. request' \in [Req -> Record]
    BY <1>3, ReadRecord DEF Changes
  <2> QED
    BY <1>3, <2>1 DEF Read, DayTypeOK, Record
<1>4. CASE Closes(r)
  BY <1>4 DEF Closes, Changes, DayTypeOK, Record
<1>5. CASE Ends(r) /\ AddsDoc(r)
  <2>1. row' \in [Doc -> {"none", "counted", "dropped"}]
        /\ \A x \in Doc : row'[x] = "dropped" => row[x] = "dropped"
    <3>1. row \in [Doc -> {"none", "counted", "dropped"}]
      BY DEF DayTypeOK
    <3>2. row' = row \/ \E d \in Doc : row' = [row EXCEPT ![d] = "counted"]
      BY <1>5 DEF AddsDoc
    <3> QED
      BY <3>1, <3>2
  <2>2. closed'.state # "none" => closed'.by \in Req
    BY <1>5 DEF Ends, Locked, DayTypeOK
  <2>3. notices' \subseteq Doc \cup Req
    BY <1>5 DEF Ends, DayTypeOK
  <2> QED
    BY <1>5, <2>1, <2>2, <2>3 DEF Ends, Changes, DayTypeOK, Record
<1> QED
  BY <1>1, <1>2, <1>3, <1>4, <1>5, Shapes

LEMMA ReqLocked ==
  ASSUME DayTypeOK, Locked, NEW r \in Req, ReqStep(r)
  PROVE  Locked'
<1>1. closed.by # NoReq => closed.by \in Req \cup {NoReq}
  BY DEF DayTypeOK, Closings
<1>2. CASE Starts(r)
  BY <1>1, <1>2 DEF Starts, Changes, Locked
<1>3. CASE StartsWriting(r)
  BY <1>1, <1>3 DEF StartsWriting, Changes, Locked
<1>4. CASE Read(r)
  <2>1. Changes(r) /\ At(r) = "reading" /\ At(r)' = "reading" /\ closed' = closed
    BY <1>4, ReadRecord DEF Read
  <2> QED
    BY <1>1, <2>1 DEF Changes, Locked
<1>5. CASE Closes(r)
  BY <1>1, <1>5 DEF Closes, Changes, Locked
<1>6. CASE Ends(r) /\ AddsDoc(r)
  BY <1>1, <1>6 DEF Ends, Changes, Locked
<1> QED
  BY <1>2, <1>3, <1>4, <1>5, <1>6, Shapes

LEMMA ReqPairs ==
  ASSUME DayTypeOK, Pairs, NEW r \in Req, ReqStep(r)
  PROVE  Pairs'
<1> SUFFICES ASSUME NEW q \in Req, (At(q) = "reading" /\ Job(q) = "reconcile")'
             PROVE  \/ request'[q].todo = <<"card", "payment">> /\ request'[q].read = {}
                    \/ request'[q].todo = <<"payment">> /\ request'[q].read = {"card"}
                    \/ request'[q].todo = <<>> /\ request'[q].read = {"card", "payment"}
  BY DEF Pairs
<1>1. CASE q # r
  <2>1. Changes(r)
    BY Shapes, ReadRecord DEF Starts, StartsWriting, Closes, Ends
  <2> QED
    BY <1>1, <2>1 DEF Changes, Pairs
<1>2. CASE q = r /\ Read(r)
  <2>1. /\ At(r) = "reading" /\ Job(r) = "reconcile"
        /\ request[r].todo # <<>>
        /\ request'[r].todo = Tail(request[r].todo)
        /\ request'[r].read = request[r].read \cup {Head(request[r].todo)}
    BY <1>2, ReadRecord
  <2>2. CASE request[r].todo = <<"card", "payment">> /\ request[r].read = {}
    BY <1>2, <2>1, <2>2
  <2>3. CASE request[r].todo = <<"payment">> /\ request[r].read = {"card"}
    BY <1>2, <2>1, <2>3
  <2> QED
    BY <2>1, <2>2, <2>3 DEF Pairs
<1>3. CASE q = r /\ Starts(r)
  <2>1. ReadsOf("reconcile") = <<"card", "payment">>
    BY DEF ReadsOf, ReconcileReads
  <2> QED
    BY <1>3, <2>1 DEF Starts
<1> QED
  BY <1>1, <1>2, <1>3, Shapes DEF StartsWriting, Closes, Ends

-----------------------------------------------------------------------------
(* The figures.                                                            *)

\* FiguresAccounted of one request, document by document.
Figures(q) ==
  Tracked(q) =>
    /\ \A x : x \notin moved[q] =>
         (x \in request[q].seen <=> \E t \in request[q].read : x \in Found(t))
    /\ "box" \in request[q].read /\ "box" \notin moved[q] => request[q].cash = box

LEMMA FiguresOfEach ==
  ASSUME NEW q \in Req, FiguresAccounted
  PROVE  Figures(q)
<1> DEFINE U == UNION {Found(t) : t \in request[q].read}
<1>1. Tracked(q) =>
      /\ request[q].seen \ moved[q] = U \ moved[q]
      /\ "box" \in request[q].read /\ "box" \notin moved[q] => request[q].cash = box
  BY DEF FiguresAccounted
<1>2. \A x : x \in U <=> \E t \in request[q].read : x \in Found(t)
  OBVIOUS
<1> HIDE DEF U
<1> QED
  BY <1>1, <1>2 DEF Figures

LEMMA FiguresOfAll ==
  ASSUME \A q \in Req : Figures(q)'
  PROVE  FiguresAccounted'
<1> SUFFICES ASSUME NEW q \in Req, Tracked(q)'
             PROVE  /\ request'[q].seen \ moved'[q]
                         = (UNION {Found(t)' : t \in request'[q].read}) \ moved'[q]
                    /\ "box" \in request'[q].read /\ "box" \notin moved'[q]
                         => request'[q].cash = box'
  BY DEF FiguresAccounted
<1> DEFINE U == UNION {Found(t)' : t \in request'[q].read}
<1>1. /\ \A x : x \notin moved'[q] =>
           (x \in request'[q].seen <=> \E t \in request'[q].read : x \in Found(t)')
      /\ "box" \in request'[q].read /\ "box" \notin moved'[q] => request'[q].cash = box'
  BY DEF Figures
<1>2. \A x : x \in U <=> \E t \in request'[q].read : x \in Found(t)'
  OBVIOUS
<1> HIDE DEF U
<1>3. request'[q].seen \ moved'[q] = U \ moved'[q]
  BY <1>1, <1>2
<1> QED
  BY <1>1, <1>3 DEF U

\* A request keeps its figures as long as all that changes is in what it is told of.
LEMMA FiguresKept ==
  ASSUME NEW q \in Req, Figures(q), UNCHANGED kind, Tracked(q)' => Tracked(q),
         Tracked(q)' => /\ request'[q].seen = request[q].seen
                        /\ request'[q].read = request[q].read
                        /\ request'[q].cash = request[q].cash
                        /\ moved[q] \subseteq moved'[q]
                        /\ \A x \in Doc : x \notin moved'[q] => row'[x] = row[x]
                        /\ "box" \notin moved'[q] => box' = box
  PROVE  Figures(q)'
<1> SUFFICES ASSUME Tracked(q)'
             PROVE  /\ \A x : x \notin moved'[q] =>
                         (x \in request'[q].seen <=> \E t \in request'[q].read : x \in Found(t)')
                    /\ "box" \in request'[q].read /\ "box" \notin moved'[q]
                         => request'[q].cash = box'
  BY DEF Figures
<1>1. ASSUME NEW x, x \notin moved'[q]
      PROVE  x \in request'[q].seen <=> \E t \in request'[q].read : x \in Found(t)'
  <2>1. \A t : x \in Found(t)' <=> x \in Found(t)
    BY <1>1 DEF Found
  <2>2. x \in request[q].seen <=> \E t \in request[q].read : x \in Found(t)
    BY <1>1 DEF Figures
  <2> QED
    BY <2>1, <2>2
<1> QED
  BY <1>1 DEF Figures

\* A document is made or dropped, and all that read are told.
LEMMA FiguresOfDoc ==
  ASSUME DayTypeOK, FiguresAccounted, NEW d \in Doc, DocStep(d), UNCHANGED kind
  PROVE  FiguresAccounted'
<1>1. UNCHANGED <<box, closed, request>> /\ DayTypeOK'
  BY DocTypes
<1>2. \/ /\ \A x \in Doc : x # d => row'[x] = row[x]
         /\ moved' = Moved(d)
      \/ UNCHANGED <<row, moved>>
  <2>1. Make(d) \/ Drop(d) \/ NoticeWaste(d)
    BY DEF DocStep, CreateSale, CreateExpense, CreatePurchase, CreateProduction, ConsumeFlour,
           ConsumeFuel, AddDebt, CardSlip, PaySupplier, RecordAttendance, VoidSale, RemoveExpense
  <2> QED
    BY <2>1 DEF Make, Drop, NoticeWaste, DayTypeOK
<1>3. ASSUME NEW q \in Req PROVE Figures(q)'
  <2>1. Figures(q)
    BY FiguresOfEach
  <2>2. Tracked(q)' <=> Tracked(q)
    BY <1>1 DEF Tracked
  <2>3. Tracked(q) => /\ moved[q] \subseteq moved'[q]
                      /\ \A x \in Doc : x \notin moved'[q] => row'[x] = row[x]
    BY <1>2, MovedTypes
  <2> QED
    BY <1>1, <2>1, <2>2, <2>3, FiguresKept
<1> QED
  BY <1>3, FiguresOfAll

LEMMA FiguresOfBox ==
  ASSUME DayTypeOK, FiguresAccounted, MoveBox, UNCHANGED kind
  PROVE  FiguresAccounted'
<1>1. UNCHANGED <<row, closed, request>> /\ moved' = Moved("box")
  BY DEF MoveBox
<1>2. ASSUME NEW q \in Req PROVE Figures(q)'
  <2>1. Figures(q)
    BY FiguresOfEach
  <2>2. Tracked(q)' <=> Tracked(q)
    BY <1>1 DEF Tracked
  <2>3. Tracked(q) => moved[q] \subseteq moved'[q] /\ "box" \in moved'[q]
    BY <1>1, MovedTypes
  <2> QED
    BY <1>1, <2>1, <2>2, <2>3, FiguresKept
<1> QED
  BY <1>2, FiguresOfAll

\* The request that reads finds what there is at this step.
LEMMA FiguresOfRead ==
  ASSUME DayTypeOK, NEW r \in Req, Figures(r), Read(r), UNCHANGED kind
  PROVE  Figures(r)'
<1> DEFINE t == Head(request[r].todo)
<1>1. /\ At(r) = "reading"
      /\ request'[r].read = request[r].read \cup {t}
      /\ request'[r].seen = request[r].seen \cup Found(t)
      /\ request'[r].cash = IF t = "box" THEN box ELSE request[r].cash
  BY ReadRecord
<1>2. UNCHANGED <<row, box, moved>>
  BY DEF Read
<1>3. \A u : Found(u)' = Found(u)
  BY <1>2 DEF Found
<1> HIDE DEF t
<1>4. /\ \A x : x \notin moved[r] =>
           (x \in request[r].seen <=> \E u \in request[r].read : x \in Found(u))
      /\ "box" \in request[r].read /\ "box" \notin moved[r] => request[r].cash = box
  BY <1>1 DEF Figures, Tracked
<1>5. \A x : x \notin moved'[r] =>
        (x \in request'[r].seen <=> \E u \in request'[r].read : x \in Found(u)')
  BY <1>1, <1>2, <1>3, <1>4
<1>6. "box" \in request'[r].read /\ "box" \notin moved'[r] => request'[r].cash = box'
  BY <1>1, <1>2, <1>4
<1> QED
  BY <1>5, <1>6 DEF Figures

LEMMA FiguresOfReq ==
  ASSUME DayTypeOK, Locked, FiguresAccounted, NEW r \in Req, ReqStep(r), UNCHANGED kind
  PROVE  FiguresAccounted'
<1>1. ASSUME NEW q \in Req, q # r PROVE Figures(q)'
  <2>1. Figures(q) /\ UNCHANGED box
    BY FiguresOfEach, Shapes DEF Starts, StartsWriting, Read, Closes, Ends
  <2>2. request'[q] = request[q]
    BY <1>1, Shapes, ReadRecord DEF Changes, Starts, StartsWriting, Closes, Ends
  <2>3. Tracked(q)' => Tracked(q)
    BY <1>1, <2>2, Shapes DEF Tracked, Starts, StartsWriting, Read, Closes, Ends
  <2>4. Tracked(q) => /\ moved[q] \subseteq moved'[q]
                      /\ \A x \in Doc : x \notin moved'[q] => row'[x] = row[x]
    <3>1. CASE UNCHANGED <<row, moved>>
      BY <3>1
    <3>2. CASE Ends(r) /\ AddsDoc(r)
      <4>1. CASE UNCHANGED row /\ moved'[q] = moved[q]
        BY <4>1
      <4>2. CASE \E d \in Doc : row' = [row EXCEPT ![d] = "counted"] /\ moved'[q] = Moved(d)[q]
        BY <4>2, MovedTypes DEF DayTypeOK
      <4> QED
        BY <1>1, <3>2, <4>1, <4>2 DEF AddsDoc
    <3> QED
      BY <3>1, <3>2, Shapes DEF Starts, StartsWriting, Read, Closes
  <2> QED
    BY <2>1, <2>2, <2>3, <2>4, FiguresKept
<1>2. Figures(r)'
  <2>1. CASE Starts(r)
    <3>1. request'[r].read = {} /\ request'[r].seen = {}
      BY <2>1 DEF Starts
    <3> QED
      BY <3>1 DEF Figures
  <2>2. CASE StartsWriting(r) \/ (Ends(r) /\ AddsDoc(r))
    <3>1. ~Tracked(r)'
      <4>1. closed.by # r
        BY <2>2 DEF Locked, StartsWriting, Ends
      <4> QED
        BY <2>2, <4>1 DEF Tracked, StartsWriting, Ends
    <3> QED
      BY <3>1 DEF Figures
  <2>3. CASE Read(r)
    BY <2>3, FiguresOfEach, FiguresOfRead
  <2>4. CASE Closes(r)
    <3>1. /\ Tracked(r) /\ UNCHANGED <<row, box, moved>>
          /\ request'[r].seen = request[r].seen /\ request'[r].read = request[r].read
          /\ request'[r].cash = request[r].cash
      BY <2>4 DEF Closes, HasRead, Tracked
    <3> QED
      BY <3>1, FiguresOfEach, FiguresKept
  <2> QED
    BY <2>1, <2>2, <2>3, <2>4, Shapes
<1> QED
  BY <1>1, <1>2, FiguresOfAll

-----------------------------------------------------------------------------
(* Closing and reopening.                                                  *)

LEMMA ReqAlone ==
  ASSUME DayTypeOK, Alone, NEW r \in Req, ReqStep(r)
  PROVE  Alone'
<1>1. \A q \in Req : q # r => (OnTheDay(q)' <=> OnTheDay(q))
  BY Shapes, ReadRecord DEF Changes, OnTheDay, Starts, StartsWriting, Closes, Ends
<1>2. CASE contested' = contested /\ (OnTheDay(r)' => OnTheDay(r))
  BY <1>1, <1>2 DEF Alone
<1>3. CASE Contest
  BY <1>1, <1>3 DEF Contest, Alone
<1>4. CASE Starts(r) /\ Job(r)' # "close"
  BY <1>2, <1>4 DEF Starts, OnTheDay
<1>5. CASE Read(r)
  BY <1>2, <1>5, ReadRecord DEF Read, OnTheDay
<1>6. CASE Closes(r) \/ Ends(r)
  BY <1>2, <1>6 DEF Closes, Ends, OnTheDay
<1> QED
  BY <1>3, <1>4, <1>5, <1>6, Shapes DEF Starts, StartsWriting

LEMMA ReqCurrent ==
  ASSUME DayTypeOK, Alone, FoundIsCurrent, NEW r \in Req, ReqStep(r)
  PROVE  FoundIsCurrent'
<1> SUFFICES ASSUME NEW q \in Req, OnTheDay(q)', ~contested'
             PROVE  request'[q].found = closed'
  BY DEF FoundIsCurrent
<1>1. CASE Starts(r)
  <2>1. CASE q = r
    BY <1>1, <2>1 DEF Starts
  <2>2. CASE q # r
    <3>1. OnTheDay(q) /\ request'[q] = request[q]
      BY <1>1, <2>2 DEF Starts, Changes, OnTheDay
    <3>2. ~Contest /\ contested' = contested /\ closed' = closed
      BY <1>1, <3>1 DEF Starts, Contest
    <3> QED
      BY <3>1, <3>2 DEF FoundIsCurrent
  <2> QED
    BY <2>1, <2>2
<1>2. CASE StartsWriting(r)
  BY <1>2 DEF StartsWriting, Changes, Contest, OnTheDay, FoundIsCurrent
<1>3. CASE Read(r)
  <2>1. /\ Changes(r) /\ OnTheDay(q) /\ ~contested /\ closed' = closed
        /\ request'[r].found = request[r].found
    BY <1>3, ReadRecord DEF Read, Changes, OnTheDay
  <2> QED
    BY <2>1 DEF Changes, FoundIsCurrent
<1>4. CASE Closes(r)
  <2>1. q # r /\ OnTheDay(q) /\ OnTheDay(r) /\ ~contested
    BY <1>4 DEF Closes, Changes, HasRead, OnTheDay
  <2> QED
    BY <2>1 DEF Alone
<1>5. CASE Ends(r)
  <2>1. q # r /\ OnTheDay(q) /\ request'[q] = request[q] /\ ~contested
    BY <1>5 DEF Ends, Changes, OnTheDay
  <2>2. closed' = closed
    BY <1>5, <2>1 DEF Ends, OnTheDay, Alone
  <2> QED
    BY <2>1, <2>2 DEF FoundIsCurrent
<1> QED
  BY <1>1, <1>2, <1>3, <1>4, <1>5, Shapes

LEMMA ReqOpenFound ==
  ASSUME DayTypeOK, OpenFound, NEW r \in Req, ReqStep(r)
  PROVE  OpenFound'
<1>1. Changes(r)
  BY Shapes, ReadRecord DEF Starts, StartsWriting, Closes, Ends
<1>2. (At(r) = "reading" /\ Job(r) = "close")' => request'[r].found.state # "locked"
  <2>1. CASE Read(r)
    BY <2>1, ReadRecord DEF OpenFound
  <2> QED
    BY <2>1, Shapes DEF Starts, StartsWriting, Closes, Ends
<1> QED
  BY <1>1, <1>2 DEF Changes, OpenFound

-----------------------------------------------------------------------------
(* The theorems.                                                           *)

LEMMA DayStart == DayInit => DayInv
<1> SUFFICES ASSUME DayInit PROVE DayInv
  OBVIOUS
<1>1. DayTypeOK
  BY StartTypes
<1>2. closed.by = NoReq /\ contested = FALSE /\ \A r \in Req : At(r) = "new"
  BY DEF DayInit, NoClosing, Blank
<1>3. \A r \in Req : ~Tracked(r) /\ ~OnTheDay(r)
  BY <1>2 DEF Tracked, OnTheDay
<1> QED
  BY <1>1, <1>2, <1>3
  DEF DayInv, Locked, Pairs, FiguresAccounted, Alone, FoundIsCurrent, OpenFound

LEMMA DayStep == DayInv /\ [DayNext]_bookVars => DayInv'
<1> SUFFICES ASSUME DayInv, [DayNext]_bookVars PROVE DayInv'
  OBVIOUS
<1>1. CASE UNCHANGED bookVars
  <2>1. DayTypeOK' /\ FiguresAccounted'
    BY <1>1 DEF bookVars, DayInv, DayTypeOK, FiguresAccounted, Tracked, Found
  <2> QED
    BY <1>1, <2>1 DEF bookVars, DayInv, Locked, Pairs, Alone, FoundIsCurrent, OpenFound, OnTheDay
<1>2. ASSUME NEW d \in Doc, DocStep(d), UNCHANGED kind
      PROVE  DayInv'
  <2>1. DayTypeOK' /\ UNCHANGED <<closed, request, contested>>
    BY <1>2, DocTypes DEF DayInv
  <2>2. FiguresAccounted'
    BY <1>2, FiguresOfDoc DEF DayInv
  <2> QED
    BY <2>1, <2>2 DEF DayInv, Locked, Pairs, Alone, FoundIsCurrent, OpenFound, OnTheDay
<1>3. ASSUME MoveBox, UNCHANGED kind
      PROVE  DayInv'
  <2>1. DayTypeOK' /\ UNCHANGED <<closed, request, contested>>
    BY <1>3, BoxTypes DEF DayInv
  <2>2. FiguresAccounted'
    BY <1>3, FiguresOfBox DEF DayInv
  <2> QED
    BY <2>1, <2>2 DEF DayInv, Locked, Pairs, Alone, FoundIsCurrent, OpenFound, OnTheDay
<1>4. ASSUME NEW r \in Req, ReqStep(r), UNCHANGED kind
      PROVE  DayInv'
  BY <1>4, ReqTypes, ReqLocked, ReqPairs, FiguresOfReq, ReqAlone, ReqCurrent, ReqOpenFound DEF DayInv
<1> QED
  BY <1>1, <1>2, <1>3, <1>4 DEF DayNext

-----------------------------------------------------------------------------
(* The profits.                                                            *)

\* What a request for a closing or a profit and loss report has read and is still to read are,
\* together, the tables it is to read; a closing was made of all of them.
ReadsAll ==
  /\ \A r \in Req : At(r) = "reading" /\ Job(r) \in {"close", "profit"} =>
       request[r].read \cup Range(request[r].todo) = Range(ReadsOf(Job(r)))
  /\ closed.by # NoReq => request[closed.by].read = Range(ClosingReads)

\* However many documents there may ever be, there are finitely many at any time.
MadeIsFinite == IsFiniteSet({d \in Doc : row[d] # "none"})

SumInv == ReadsAll /\ MadeIsFinite

LEMMA ListRange ==
  ASSUME NEW s \in Seq(Tables), s # <<>>
  PROVE  Range(s) = {Head(s)} \cup Range(Tail(s))
<1>1. /\ DOMAIN s = 1 .. Len(s) /\ Len(s) \in Nat \ {0}
      /\ DOMAIN Tail(s) = 1 .. Len(s) - 1
      /\ \A i \in 1 .. Len(s) - 1 : Tail(s)[i] = s[i + 1]
      /\ Head(s) = s[1]
  BY HeadTailProperties, EmptySeq
<1>2. ASSUME NEW i \in 1 .. Len(s) PROVE s[i] = Head(s) \/ s[i] \in Range(Tail(s))
  <2>1. CASE i = 1
    BY <1>1, <2>1
  <2>2. CASE i # 1
    <3>1. i - 1 \in 1 .. Len(s) - 1 /\ Tail(s)[i - 1] = s[i]
      BY <1>1, <2>2
    <3> QED
      BY <1>1, <3>1 DEF Range
  <2> QED
    BY <2>1, <2>2
<1>3. ASSUME NEW i \in 1 .. Len(s) - 1 PROVE Tail(s)[i] \in Range(s)
  <2>1. i + 1 \in 1 .. Len(s) /\ Tail(s)[i] = s[i + 1]
    BY <1>1
  <2> QED
    BY <1>1, <2>1 DEF Range
<1>4. Head(s) \in Range(s)
  BY <1>1 DEF Range
<1> QED
  BY <1>1, <1>2, <1>3, <1>4 DEF Range

LEMMA ReqReadsAll ==
  ASSUME DayTypeOK, Locked, ReadsAll, NEW r \in Req, ReqStep(r)
  PROVE  ReadsAll'
<1>1. Changes(r)
  BY Shapes, ReadRecord DEF Starts, StartsWriting, Closes, Ends
<1>2. closed.by \in Req \cup {NoReq}
  BY DEF DayTypeOK, Closings
<1>3. CASE Starts(r)
  <2>1. Job(r)' \in {"close", "profit"} => Range(request'[r].todo) = Range(ReadsOf(Job(r)'))
    BY <1>3 DEF Starts
  <2>2. request'[r].read = {} /\ closed' = closed /\ closed.by # r
    BY <1>3 DEF Starts, Locked
  <2> QED
    BY <1>1, <1>2, <2>1, <2>2 DEF Changes, ReadsAll
<1>4. CASE Read(r)
  <2>1. /\ At(r) = "reading" /\ Job(r)' = Job(r) /\ closed' = closed
        /\ request[r].todo \in Seq(Tables) /\ request[r].todo # <<>>
        /\ request'[r].todo = Tail(request[r].todo)
        /\ request'[r].read = request[r].read \cup {Head(request[r].todo)}
    BY <1>4, ReadRecord DEF Read
  <2>2. Range(request[r].todo) = {Head(request[r].todo)} \cup Range(request'[r].todo)
    BY <2>1, ListRange
  <2>3. request'[r].read \cup Range(request'[r].todo) = request[r].read \cup Range(request[r].todo)
    BY <2>1, <2>2
  <2>4. closed.by # r
    BY <2>1 DEF Locked
  <2> QED
    BY <1>1, <1>2, <2>1, <2>3, <2>4 DEF Changes, ReadsAll
<1>5. CASE Closes(r)
  <2>1. /\ At(r) = "reading" /\ Job(r) = "close" /\ request[r].todo = <<>>
        /\ At(r)' = "done" /\ closed'.by = r /\ request'[r].read = request[r].read
    BY <1>5 DEF Closes, HasRead
  <2>2. Range(<<>>) = {} /\ ReadsOf("close") = ClosingReads
    BY DEF Range, ReadsOf
  <2>3. request[r].read = Range(ClosingReads)
    <3>1. request[r].read \cup Range(request[r].todo) = Range(ReadsOf(Job(r)))
      BY <2>1 DEF ReadsAll
    <3> QED
      BY <2>1, <2>2, <3>1
  <2> QED
    BY <1>1, <2>1, <2>3 DEF Changes, ReadsAll
<1>6. CASE StartsWriting(r) \/ Ends(r)
  <2>1. closed'.by = closed.by /\ closed.by # r /\ At(r)' # "reading"
    BY <1>6 DEF StartsWriting, Ends, Locked
  <2> QED
    BY <1>1, <1>2, <2>1 DEF Changes, ReadsAll
<1> QED
  BY <1>3, <1>4, <1>5, <1>6, Shapes

LEMMA DayStepMade ==
  ASSUME DayTypeOK, MadeIsFinite, [DayNext]_bookVars
  PROVE  MadeIsFinite'
<1> DEFINE M == {d \in Doc : row[d] # "none"}
<1>1. UNCHANGED row \/ \E d \in Doc : \A x \in Doc : x # d => row'[x] = row[x]
  <2>1. ASSUME NEW d \in Doc, DocStep(d)
        PROVE  UNCHANGED row \/ \A x \in Doc : x # d => row'[x] = row[x]
    BY <2>1 DEF DocStep, CreateSale, CreateExpense, CreatePurchase, CreateProduction, ConsumeFlour,
           ConsumeFuel, AddDebt, CardSlip, PaySupplier, RecordAttendance, NoticeWaste, VoidSale,
           RemoveExpense, Make, Drop, DayTypeOK
  <2>2. ASSUME NEW r \in Req, ReqStep(r)
        PROVE  UNCHANGED row \/ \E d \in Doc : \A x \in Doc : x # d => row'[x] = row[x]
    <3>1. CASE Ends(r) /\ AddsDoc(r)
      BY <3>1 DEF AddsDoc, DayTypeOK
    <3> QED
      BY <2>2, <3>1, Shapes DEF Starts, StartsWriting, Read, Closes
  <2> QED
    BY <2>1, <2>2 DEF DayNext, MoveBox, bookVars
<1>2. \E d : {x \in Doc : row'[x] # "none"} \subseteq M \cup {d}
  BY <1>1
<1>3. PICK d : {x \in Doc : row'[x] # "none"} \subseteq M \cup {d}
  BY <1>2
<1>4. IsFiniteSet(M \cup {d})
  BY FS_AddElement DEF MadeIsFinite
<1> QED
  BY <1>3, <1>4, FS_Subset DEF MadeIsFinite

LEMMA DayStartProfit == DayInit => SumInv
<1> SUFFICES ASSUME DayInit PROVE SumInv
  OBVIOUS
<1>1. ReadsAll
  BY DEF DayInit, ReadsAll, NoClosing, Blank
<1>2. {d \in Doc : row[d] # "none"} = {}
  BY DEF DayInit
<1>3. MadeIsFinite
  BY <1>2, FS_EmptySet DEF MadeIsFinite
<1> QED
  BY <1>1, <1>3 DEF SumInv

LEMMA DayStepProfit ==
  ASSUME DayInv, SumInv, [DayNext]_bookVars
  PROVE  SumInv'
<1>1. MadeIsFinite'
  BY DayStepMade DEF DayInv, SumInv
<1>2. ASSUME UNCHANGED <<request, closed>> PROVE ReadsAll'
  BY <1>2 DEF SumInv, ReadsAll
<1>3. ReadsAll'
  BY <1>2, ReqReadsAll, DocTypes, BoxTypes DEF DayNext, DayInv, SumInv, bookVars
<1> QED
  BY <1>1, <1>3 DEF SumInv


\* Once the closing has been made and nothing has changed since it began, it has read what is
\* counted of its tables.
LEMMA DayRead ==
  ASSUME DayInv, ReadsAll, closed.by # NoReq, moved[closed.by] = {}
  PROVE  request[closed.by].seen
           = {d \in Doc : row[d] = "counted" /\ kind[d] \in Range(ClosingReads)}
<1> DEFINE r == closed.by
           S == request[r].seen
<1>1. r \in Req /\ Tracked(r) /\ Figures(r)
  BY FiguresOfEach DEF DayInv, DayTypeOK, Closings, Tracked
<1>2. \A x : x \in S <=> \E t \in request[r].read : x \in Found(t)
  BY <1>1 DEF Figures
<1>3. request[r].read = Range(ClosingReads)
  BY DEF ReadsAll
<1>4. "payment" \notin Range(ClosingReads)
  BY DEF ClosingReads, Range
<1> HIDE DEF S
<1>5. \A x : x \in S <=> \E t \in Range(ClosingReads) :
                            x \in Doc /\ kind[x] = t /\ row[x] = "counted"
  BY <1>2, <1>3, <1>4 DEF Found
<1> QED
  BY <1>5 DEF S

LEMMA ReportRead ==
  ASSUME DayInv, ReadsAll, NEW r \in Req, HasRead(r, "profit"), moved[r] = {}
  PROVE  request[r].seen
           = {d \in Doc : row[d] = "counted" /\ kind[d] \in Range(ProfitReads)}
<1> DEFINE S == request[r].seen
<1>1. Tracked(r) /\ Figures(r)
  BY FiguresOfEach DEF DayInv, HasRead, Tracked
<1>2. \A x : x \in S <=> \E t \in request[r].read : x \in Found(t)
  BY <1>1 DEF Figures
<1>3. request[r].read = Range(ProfitReads)
  <2>1. Range(<<>>) = {} /\ ReadsOf("profit") = ProfitReads
    BY DEF Range, ReadsOf
  <2> QED
    BY <2>1 DEF ReadsAll, HasRead
<1>4. "payment" \notin Range(ProfitReads)
  BY DEF ProfitReads, Range
<1> HIDE DEF S
<1>5. \A x : x \in S <=> \E t \in Range(ProfitReads) :
                            x \in Doc /\ kind[x] = t /\ row[x] = "counted"
  BY <1>2, <1>3, <1>4 DEF Found
<1> QED
  BY <1>5 DEF S

\* The sum of the signed amounts is the profit that is made of the totals.
LEMMA ProfitIsSigned ==
  ASSUME DayTypeOK, NEW C \in SUBSET Doc, IsFiniteSet(C)
  PROVE  SumFunction([d \in C |-> Sign(d) * amount[d]]) = ApproxProfit(C)
<1> DEFINE f    == [d \in C |-> Sign(d) * amount[d]]
           sale == {d \in C : kind[d] = "sale"}
           own  == {d \in C \cap Personal : kind[d] = "expense"}
           cost == {d \in C \ Personal : kind[d] = "expense"}
           buy  == {d \in C : kind[d] = "purchase"}
<1>1. /\ IsFiniteSet(sale) /\ IsFiniteSet(own) /\ IsFiniteSet(cost) /\ IsFiniteSet(buy)
      /\ IsFiniteSet(own \cup cost) /\ IsFiniteSet(own \cup cost \cup buy)
      /\ own \cup cost \cup buy \cup sale \in SUBSET C
  <2>1. /\ sale \in SUBSET C /\ own \in SUBSET C /\ cost \in SUBSET C /\ buy \in SUBSET C
        /\ own \cup cost \in SUBSET C /\ own \cup cost \cup buy \in SUBSET C
    OBVIOUS
  <2> QED
    BY <2>1, FS_Subset
<1>2. /\ \A d \in sale : f[d] = amount[d]
      /\ \A d \in own \cup cost \cup buy : f[d] = -amount[d]
      /\ \A d \in C \ (own \cup cost \cup buy \cup sale) : f[d] = 0
      /\ \A d \in C : amount[d] \in Int /\ f[d] \in Int
      /\ DOMAIN f = C
  <2>1. \A d \in C : amount[d] \in Int /\ f[d] = Sign(d) * amount[d]
    OBVIOUS
  <2>2. \A d \in sale : Sign(d) = 1
    BY DEF Sign
  <2>3. \A d \in own \cup cost \cup buy : Sign(d) = -1
    BY DEF Sign
  <2>4. \A d \in C \ (own \cup cost \cup buy \cup sale) : Sign(d) = 0
    BY DEF Sign
  <2>5. \A d \in C : Sign(d) \in {-1, 0, 1}
    BY DEF Sign
  <2>6. DOMAIN f = C
    OBVIOUS
  <2> HIDE DEF f, sale, own, cost, buy
  <2>7. \A d \in C : f[d] \in Int
    BY <2>1, <2>5
  <2> QED
    BY <1>1, <2>1, <2>2, <2>3, <2>4, <2>6, <2>7
<1>3. /\ sale \cap (own \cup cost \cup buy) = {} /\ own \cap cost = {}
      /\ (own \cup cost) \cap buy = {}
  OBVIOUS
<1>4. ApproxProfit(C) = SumOf(sale) - SumOf(cost) - SumOf(buy) - SumOf(own)
  BY DEF ApproxProfit, Total, Spent, Withdrawn
<1> HIDE DEF f, sale, own, cost, buy
<1> DEFINE F(S) == SumFunctionOnSet(f, S)
<1>5. F(C) = F(own \cup cost \cup buy \cup sale)
  BY <1>1, <1>2, SumRestrict
<1>6. F(own \cup cost \cup buy \cup sale) = F(own \cup cost \cup buy) + F(sale)
  <2>1. (own \cup cost \cup buy) \cap sale = {}
    BY <1>3
  <2>2. \A d \in own \cup cost \cup buy \cup sale : f[d] \in Int
    BY <1>1, <1>2
  <2> QED
    BY <1>1, <2>1, <2>2, SumUnion
<1>7. F(own \cup cost \cup buy) = F(own \cup cost) + F(buy)
  <2>1. \A d \in own \cup cost \cup buy : f[d] \in Int
    BY <1>1, <1>2
  <2> QED
    BY <1>1, <1>3, <2>1, SumUnion
<1>8. F(own \cup cost) = F(own) + F(cost)
  <2>1. \A d \in own \cup cost : f[d] \in Int
    BY <1>1, <1>2
  <2> QED
    BY <1>1, <1>3, <2>1, SumUnion
<1>9. F(sale) = SumOf(sale)
  BY <1>1, <1>2, SumSame DEF SumOf
<1>10. ASSUME NEW S \in {own, cost, buy}
       PROVE  F(S) = -SumOf(S)
  <2>1. IsFiniteSet(S) /\ \A d \in S : amount[d] \in Int /\ f[d] = -amount[d]
    BY <1>1, <1>2
  <2> QED
    BY <2>1, SumOpposite DEF SumOf
<1>11. SumOf(sale) \in Int /\ SumOf(own) \in Int /\ SumOf(cost) \in Int /\ SumOf(buy) \in Int
  <2>1. ASSUME NEW S \in {sale, own, cost, buy} PROVE SumOf(S) \in Int
    <3>1. IsFiniteSet(S) /\ \A d \in S : amount[d] \in Int
      BY <1>1, <1>2
    <3> QED
      BY <3>1, SumType DEF SumOf
  <2> QED
    BY <2>1
<1>12. SumFunction(f) = F(C)
  BY <1>2 DEF SumFunction
<1> HIDE DEF F
<1>13. F(C) = ((-SumOf(own) + -SumOf(cost)) + -SumOf(buy)) + SumOf(sale)
  BY <1>5, <1>6, <1>7, <1>8, <1>9, <1>10
<1>14. F(C) = SumOf(sale) - SumOf(cost) - SumOf(buy) - SumOf(own)
  BY <1>11, <1>13
<1> QED
  BY <1>4, <1>12, <1>14 DEF f

\* Profits depend on what is in the tables they are made of.
LEMMA ProfitOf ==
  ASSUME NEW S, NEW T, \A d : kind[d] \in {"sale", "expense", "purchase"} => (d \in S <=> d \in T)
  PROVE  /\ ApproxProfit(S) = ApproxProfit(T)
         /\ Total(S, "sale") = Total(T, "sale") /\ Total(S, "purchase") = Total(T, "purchase")
         /\ Spent(S) = Spent(T)
<1>1. /\ {d \in S : kind[d] = "sale"} = {d \in T : kind[d] = "sale"}
      /\ {d \in S : kind[d] = "purchase"} = {d \in T : kind[d] = "purchase"}
      /\ {d \in S \cap Personal : kind[d] = "expense"} = {d \in T \cap Personal : kind[d] = "expense"}
      /\ {d \in S \ Personal : kind[d] = "expense"} = {d \in T \ Personal : kind[d] = "expense"}
  OBVIOUS
<1> QED
  BY <1>1, Zenon DEF ApproxProfit, Total, Spent, Withdrawn

LEMMA TotalType ==
  ASSUME DayTypeOK, NEW S \in SUBSET Doc, IsFiniteSet(S), NEW t
  PROVE  Total(S, t) \in Int
<1> DEFINE D == {d \in S : kind[d] = t}
<1>1. IsFiniteSet(D) /\ \A d \in D : amount[d] \in Int
  BY FS_Subset
<1> HIDE DEF D
<1>2. SumOf(D) \in Int
  BY <1>1, SumType DEF SumOf
<1> QED
  BY <1>2 DEF D, Total

LEMMA ProfitsFollow == DayInv /\ SumInv => ProfitsAgree
<1> SUFFICES ASSUME DayInv, SumInv, closed.by # NoReq, moved[closed.by] = {}
             PROVE  /\ ApproxProfit(request[closed.by].seen)
                         = SumFunction([d \in {x \in Doc : row[x] = "counted"} |->
                                          Sign(d) * amount[d]])
                    /\ \A r \in Req : HasRead(r, "profit") /\ moved[r] = {} =>
                         NetProfit(request[r].seen)
                           = ApproxProfit(request[closed.by].seen)
                               + Withdrawn(request[closed.by].seen)
                               - Total(request[r].seen, "payroll")
  BY DEF ProfitsAgree
<1> DEFINE C == {d \in Doc : row[d] = "counted"}
           day == request[closed.by].seen
<1>1. DayTypeOK /\ ReadsAll
  BY DEF DayInv, SumInv
<1>2. IsFiniteSet(C) /\ C \subseteq Doc
  <2>1. C \in SUBSET {d \in Doc : row[d] # "none"}
    OBVIOUS
  <2> QED
    BY <2>1, FS_Subset DEF SumInv, MadeIsFinite
<1>3. day = {d \in C : kind[d] \in Range(ClosingReads)}
  BY <1>1, DayRead
<1>4. {"sale", "expense", "purchase"} \subseteq Range(ClosingReads)
  BY DEF ClosingReads, Range
<1> HIDE DEF C, day
<1>5. \A d : kind[d] \in {"sale", "expense", "purchase"} => (d \in day <=> d \in C)
  BY <1>3, <1>4
<1>6. ApproxProfit(day) = SumFunction([d \in C |-> Sign(d) * amount[d]])
  BY <1>1, <1>2, <1>5, ProfitIsSigned, ProfitOf
<1>7. ASSUME NEW r \in Req, HasRead(r, "profit"), moved[r] = {}
      PROVE  NetProfit(request[r].seen)
               = ApproxProfit(day) + Withdrawn(day) - Total(request[r].seen, "payroll")
  <2> DEFINE S == request[r].seen
  <2>1. S = {d \in C : kind[d] \in Range(ProfitReads)}
    BY <1>1, <1>7, ReportRead DEF C
  <2>2. {"sale", "expense", "purchase"} \subseteq Range(ProfitReads)
    BY DEF ProfitReads, Range
  <2> HIDE DEF S
  <2>3. \A d : kind[d] \in {"sale", "expense", "purchase"} => (d \in day <=> d \in S)
    BY <1>5, <2>1, <2>2
  <2>4. /\ Total(day, "sale") = Total(S, "sale") /\ Total(day, "purchase") = Total(S, "purchase")
        /\ Spent(day) = Spent(S)
    BY <2>3, ProfitOf
  <2>5. /\ IsFiniteSet(S) /\ S \in SUBSET Doc
        /\ IsFiniteSet(day) /\ day \in SUBSET Doc
    BY <1>2, <1>3, <2>1, FS_Subset
  <2>6. /\ IsFiniteSet(day \cap Personal) /\ day \cap Personal \in SUBSET Doc
        /\ IsFiniteSet(day \ Personal) /\ day \ Personal \in SUBSET Doc
    BY <2>5, FS_Subset
  <2>7. /\ Total(day, "sale") \in Int /\ Total(day, "purchase") \in Int
        /\ Spent(day) \in Int /\ Withdrawn(day) \in Int /\ Total(S, "payroll") \in Int
    BY <1>1, <2>5, <2>6, TotalType DEF Spent, Withdrawn
  <2>8. NetProfit(S)
          = Total(day, "sale") - Total(day, "purchase") - Spent(day) - Total(S, "payroll")
    BY <2>4 DEF NetProfit
  <2>9. ApproxProfit(day)
          = Total(day, "sale") - Spent(day) - Total(day, "purchase") - Withdrawn(day)
    BY DEF ApproxProfit
  <2> DEFINE x == Total(day, "sale")
             y == Total(day, "purchase")
             z == Spent(day)
             w == Withdrawn(day)
             p == Total(S, "payroll")
  <2> HIDE DEF x, y, z, w, p
  <2>10. x - y - z - p = (x - z - y - w) + w - p
    BY <2>7 DEF x, y, z, w, p
  <2> QED
    BY <2>8, <2>9, <2>10 DEF S, x, y, z, w, p
<1> QED
  BY <1>6, <1>7 DEF C, day

-----------------------------------------------------------------------------
(* The lock and the card terminal.                                         *)

LEMMA LockStep ==
  ASSUME DayInv, DayNext, closed.state = "locked", closed' # closed, ~contested
  PROVE  /\ closed' = [closed EXCEPT !.state = "reopened"]
         /\ \E r \in Req : At(r) = "writing" /\ request[r].found = closed
<1>1. DayTypeOK /\ FoundIsCurrent
  BY DEF DayInv
<1>2. PICK r \in Req : Close(r) \/ Reopen(r)
  <2>1. ASSUME NEW d \in Doc, DocStep(d), UNCHANGED kind PROVE UNCHANGED closed
    BY <1>1, <2>1, DocTypes
  <2>2. ASSUME NEW r \in Req, ReqStep(r) PROVE Close(r) \/ Reopen(r) \/ UNCHANGED closed
    BY <2>2 DEF ReqStep, BeginClosing, BeginReopening, ProfitAndLoss, SalesReport,
         ProductionVsSales, ReconcileForDate, GeneratePayroll, BeginReport, Ask, Read, Reconcile,
         Answer, ReadingFails, CreatePayroll
  <2> QED
    BY <2>1, <2>2 DEF DayNext, MoveBox
<1>3. OnTheDay(r)
  BY <1>2 DEF Close, Reopen, HasRead, OnTheDay
<1>4. request[r].found = closed
  BY <1>1, <1>3 DEF FoundIsCurrent
<1>5. ~Close(r)
  BY <1>4 DEF DayInv, OpenFound, Close, HasRead
<1> QED
  BY <1>2, <1>4, <1>5 DEF Reopen

\* The payments that are read are those of the sales by card, but for Astray.
LEMMA PaymentsAre ==
  ASSUME DayTypeOK, MadeIsFinite, NEW S,
         \A x : x \in S <=> x \in Found("card") \/ x \in Found("payment")
  PROVE  /\ Total(S, "card") = Total(Counted, "card")
         /\ SumFunctionOnSet(paid, {d \in S : kind[d] = "sale"}) + Total(S, "payout")
              = CardSales + Astray
         /\ CardSales \in Int /\ Astray \in Int /\ Total(S, "card") \in Int
<1> DEFINE M    == {d \in Doc : row[d] # "none"}
           P(D, m) == {d \in D : kind[d] = "sale" /\ method[d] = m}
           outs == {d \in Counted : kind[d] = "payout" /\ method[d] = "terminal"}
           here == P(Counted, "terminal")
           gone == P(Dropped, "terminal")
           card == P(Counted, "card")
<1>1. /\ IsFiniteSet(here) /\ IsFiniteSet(gone) /\ IsFiniteSet(card) /\ IsFiniteSet(outs)
      /\ IsFiniteSet({d \in Counted : kind[d] = "card"})
  <2>1. \A D \in SUBSET M : IsFiniteSet(D)
    BY FS_Subset DEF MadeIsFinite
  <2> QED
    BY <2>1 DEF Counted, Dropped
<1>2. {d \in S : kind[d] = "card"} = {d \in Counted : kind[d] = "card"}
  BY DEF Found, Counted
<1>3. {d \in S : kind[d] = "sale"} = here \cup gone /\ here \cap gone = {}
  BY DEF Found, Counted, Dropped, DayTypeOK
<1>4. {d \in S : kind[d] = "payout"} = outs
  BY DEF Found, Counted, DayTypeOK
<1>5. /\ here \subseteq Doc /\ gone \subseteq Doc /\ card \subseteq Doc /\ outs \subseteq Doc
      /\ {d \in Counted : kind[d] = "card"} \subseteq Doc
  BY DEF Counted, Dropped
<1>6. /\ PaidBy(Counted, "terminal") = SumFunctionOnSet(paid, here)
      /\ PaidBy(Dropped, "terminal") = SumFunctionOnSet(paid, gone)
      /\ PaidBy(Counted, "card") = SumFunctionOnSet(paid, card)
      /\ Astray = PaidBy(Dropped, "terminal") - PaidBy(Counted, "card") + SumOf(outs)
  BY DEF PaidBy, Astray
<1>7. Total(S, "card") = Total(Counted, "card") /\ Total(S, "payout") = SumOf(outs)
  BY <1>2, <1>4, Zenon DEF Total
<1>8. Total(Counted, "card") = SumOf({d \in Counted : kind[d] = "card"})
  BY Zenon DEF Total
<1> DEFINE slips == {d \in Counted : kind[d] = "card"}
<1> HIDE DEF here, gone, card, outs, slips
<1>9. SumFunctionOnSet(paid, here \cup gone)
        = SumFunctionOnSet(paid, here) + SumFunctionOnSet(paid, gone)
  <2>1. \A d \in here \cup gone : paid[d] \in Int
    BY <1>5
  <2> QED
    BY <1>1, <1>3, <2>1, SumUnion
<1>10. /\ SumFunctionOnSet(paid, here) \in Int /\ SumFunctionOnSet(paid, gone) \in Int
       /\ SumFunctionOnSet(paid, card) \in Int
  <2>1. \A D \in {here, gone, card} : IsFiniteSet(D) /\ \A d \in D : paid[d] \in Int
    BY <1>1, <1>5
  <2> QED
    BY <2>1, SumType
<1>11. SumOf(outs) \in Int /\ SumOf(slips) \in Int
  <2>1. \A D \in {outs, slips} : IsFiniteSet(D) /\ \A d \in D : amount[d] \in Int
    BY <1>1, <1>5 DEF slips
  <2> QED
    BY <2>1, SumType DEF SumOf
<1>12. /\ CardSales = SumFunctionOnSet(paid, here) + SumFunctionOnSet(paid, card)
       /\ Astray = SumFunctionOnSet(paid, gone) - SumFunctionOnSet(paid, card) + SumOf(outs)
  BY <1>6 DEF CardSales
<1>13. SumFunctionOnSet(paid, {d \in S : kind[d] = "sale"})
         = SumFunctionOnSet(paid, here) + SumFunctionOnSet(paid, gone)
  BY <1>3, <1>9
<1>14. Total(S, "card") \in Int
  BY <1>7, <1>8, <1>11 DEF slips
<1> DEFINE a == SumFunctionOnSet(paid, here)
           b == SumFunctionOnSet(paid, gone)
           c == SumFunctionOnSet(paid, card)
           e == SumOf(outs)
<1>15. a \in Int /\ b \in Int /\ c \in Int /\ e \in Int
  BY <1>10, <1>11
<1> HIDE DEF a, b, c, e
<1>16. (a + b) + e = (a + c) + (b - c + e) /\ a + c \in Int /\ b - c + e \in Int
  BY <1>15
<1> QED
  BY <1>7, <1>12, <1>13, <1>14, <1>16 DEF a, b, c, e

LEMMA AlarmStep ==
  ASSUME DayInv, SumInv, DayNext
  PROVE  \A r \in Req : r \in notices' \ notices /\ moved[r] = {} =>
           Total(Counted, "card") - CardSales # Astray
<1> SUFFICES ASSUME NEW r \in Req, r \in notices', r \notin notices, moved[r] = {}
             PROVE  Total(Counted, "card") - CardSales # Astray
  OBVIOUS
<1>1. Reconcile(r)
  <2>1. \A d \in Doc : DocStep(d) => notices' \subseteq notices \cup Doc
    BY DEF DocStep, CreateSale, CreateExpense, CreatePurchase, CreateProduction, ConsumeFlour,
           ConsumeFuel, AddDebt, CardSlip, PaySupplier, RecordAttendance, NoticeWaste, VoidSale,
           RemoveExpense, Make, Drop
  <2>2. \A q \in Req : ReqStep(q) =>
          (Reconcile(q) /\ notices' \subseteq notices \cup {q}) \/ notices' = notices
    BY DEF ReqStep, BeginClosing, Close, BeginReopening, Reopen, ProfitAndLoss,
           SalesReport, ProductionVsSales, ReconcileForDate, GeneratePayroll, BeginReport, Ask, Read,
           Reconcile, Answer, ReadingFails, CreatePayroll
  <2> QED
    BY <2>1, <2>2 DEF DayNext, MoveBox
<1> DEFINE S == request[r].seen
           took == SumFunctionOnSet(paid, {d \in S : kind[d] = "sale"}) + Total(S, "payout")
<1>2. Total(S, "card") # took
  BY <1>1 DEF Reconcile, Discrepancy
<1>3. /\ At(r) = "reading" /\ request[r].read = {"card", "payment"}
  BY <1>1 DEF Reconcile, HasRead, DayInv, Pairs
<1>4. \A x : x \in S <=> x \in Found("card") \/ x \in Found("payment")
  BY <1>3, FiguresOfEach DEF Figures, Tracked, DayInv
<1> HIDE DEF S
<1>5. /\ Total(S, "card") = Total(Counted, "card") /\ took = CardSales + Astray
      /\ CardSales \in Int /\ Astray \in Int /\ Total(S, "card") \in Int
  BY <1>4, PaymentsAre DEF DayInv, SumInv
<1> HIDE DEF took
<1> QED
  BY <1>2, <1>5

-----------------------------------------------------------------------------

\* The invariant holds in every state, for any number of documents and requests.
THEOREM BooksHold == DaySpec => []DayInv
BY DayStart, DayStep, PTL DEF DaySpec

LEMMA SumsHold == DaySpec => [](DayInv /\ SumInv)
<1>1. DayInit => DayInv /\ SumInv
  BY DayStart, DayStartProfit
<1>2. DayInv /\ SumInv /\ [DayNext]_bookVars => (DayInv /\ SumInv)'
  BY DayStep, DayStepProfit
<1> QED
  BY <1>1, <1>2, PTL DEF DaySpec

\* Every variable keeps its type; only sales and expenses are voided or removed; a closed day
\* has a request that closed it (daily-closing.service.ts lines 105-135).
THEOREM BookTypes == DaySpec => []DayTypeOK
<1>1. DayInv => DayTypeOK
  BY DEF DayInv
<1> QED
  BY <1>1, BooksHold, PTL

\* Where nothing has changed since they began, the closing's profit is that of the counted
\* documents one by one, and the report's is it without the withdrawals and with the payrolls,
\* however many documents there are (daily-closing.service.ts line 87, reports.service.ts lines
\* 35-36).
THEOREM ProfitsAreTheBooks == DaySpec => []ProfitsAgree
BY SumsHold, ProfitsFollow, PTL

\* Locked means locked: only a reopening that found it undoes it, unless requests to close or
\* reopen the day met (daily-closing.service.ts lines 108-117, 125-132).
THEOREM LockIsKept == DaySpec => LockHolds
<1>1. DayInv /\ [DayNext]_bookVars =>
        [closed.state = "locked" /\ closed' # closed /\ ~contested =>
           /\ closed' = [closed EXCEPT !.state = "reopened"]
           /\ \E r \in Req : At(r) = "writing" /\ request[r].found = closed]_bookVars
  BY LockStep
<1> QED
  BY <1>1, BooksHold, PTL DEF DaySpec, LockHolds

\* No false alarm about the card terminal, but for what the payments it is compared with have
\* besides those of the sales by card, and lack (card-transactions.service.ts lines 26-44).
THEOREM NoFalseAlarm == DaySpec => AlarmIsReal
<1>1. DayInv /\ SumInv /\ [DayNext]_bookVars =>
        [\A r \in Req : r \in notices' \ notices /\ moved[r] = {} =>
           Total(Counted, "card") - CardSales # Astray]_bookVars
  BY AlarmStep
<1> QED
  BY <1>1, SumsHold, PTL DEF DaySpec, AlarmIsReal
=============================================================================
