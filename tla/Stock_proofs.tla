---------------------------- MODULE Stock_proofs ----------------------------
(***************************************************************************)
(* Proofs about Stock, for any number of requests and of stores and any    *)
(* amounts.  StockInv adds to the types that the flour a dough has found   *)
(* is still there until another request takes of it, that a row about to   *)
(* be made is empty, and what keeps the row single: whoever is about to    *)
(* make it is alone, and there is none yet.  LowIsNoticed is inductive as  *)
(* it stands.                                                              *)
(***************************************************************************)
EXTENDS Stock, FiniteSetTheorems, TLAPS

\* A request looks for the flour's row only if it is about flour, and writes in a store of
\* its kind.
FlourJobs == {"look", "setMin", "add", "dough"}

KindsMatch ==
  \A r \in Req :
    /\ At(r) \in {"find", "create"} => Job(r) \in FlourJobs
    /\ At(r) = "write" /\ Of(r) \in Flour => Job(r) \in FlourJobs

\* The flour that a dough needs is there when it has checked it and nobody took any since.
Covered ==
  \A x \in Flour : \A r \in Checked(x) : r \notin undercut => level[x] >= Amount(r)

NewIsEmpty == \A x \in Flour \ exists : level[x] = 0

Creators == {r \in Req : At(r) = "create"}

SingleRow ==
  /\ \A x, y \in exists : x = y
  /\ \A r, q \in Creators : r = q
  /\ Creators # {} => exists = {}

StockInv ==
  /\ StockTypeOK
  /\ KindsMatch
  /\ NewIsEmpty
  /\ Covered
  /\ ~raced => SingleRow

USE AmountsAssumption DEF At, Job, Of, Amount

-----------------------------------------------------------------------------
\* The types, of all requests (the steps of the other requests leave theirs alone).

LEMMA StartTypes == StockInit => StockTypeOK
<1> SUFFICES ASSUME StockInit PROVE StockTypeOK
  OBVIOUS
<1>1. low \in [Store -> Int] /\ level \in [Store -> Int]
  <2>1. level \in [Store -> Int]
    BY DEF StockInit
  <2>2. Amounts \cup {0} \subseteq Int
    OBVIOUS
  <2>3. low \in [Store -> Amounts \cup {0}]
    BY DEF StockInit
  <2> QED
    BY <2>1, <2>2, <2>3
<1>2. request \in [Req -> [job : Jobs, pc : Steps, store : Store \cup {NoStore}, amount : Int]]
  BY DEF StockInit, Idle, Jobs, Steps
<1>3. \A r \in Req : At(r) = "idle"
  BY DEF StockInit, Idle
<1> QED
  BY <1>1, <1>2, <1>3 DEF StockInit, StockTypeOK

LEMMA SettleTypes ==
  ASSUME NEW xs \in SUBSET Store, settled \subseteq Store, Settle(xs)
  PROVE  settled' \subseteq Store
BY DEF Settle

LEMMA StepTypes ==
  ASSUME StockTypeOK, NEW r \in Req, StockStep(r)
  PROVE  StockTypeOK'
<1>0. CASE BeginLook(r)
  BY <1>0 DEF StockTypeOK, BeginLook, Begins, Jobs, Steps
<1>1. ASSUME NEW j \in Jobs, NEW a \in Amounts, BeginFlour(r, j, a) PROVE StockTypeOK'
  BY <1>1 DEF StockTypeOK, BeginFlour, Begins, Steps
<1>2. ASSUME NEW j \in Jobs, NEW a \in Amounts, NEW x \in Store, BeginOther(r, j, a, x)
      PROVE  StockTypeOK'
  BY <1>2 DEF StockTypeOK, BeginOther, Begins, Steps
<1>3. CASE FindFlour(r)
  <2>1. ASSUME NEW x \in Found, Continue(r, x, level[x]), UNCHANGED exists
        PROVE  request' \in [Req -> [job : Jobs, pc : Steps, store : Store \cup {NoStore}, amount : Int]]
               /\ (\A q \in Req : At(q)' \in {"write", "reread", "notify"} =>
                     Of(q)' \in exists' \cup Item \cup Tank)
    BY <2>1 DEF StockTypeOK, Found, Continue, Ends, Idle, Jobs, Steps, Store
  <2>2. ASSUME Goto(r, "create"), UNCHANGED exists
        PROVE  request' \in [Req -> [job : Jobs, pc : Steps, store : Store \cup {NoStore}, amount : Int]]
               /\ (\A q \in Req : At(q)' \in {"write", "reread", "notify"} =>
                     Of(q)' \in exists' \cup Item \cup Tank)
    BY <2>2 DEF StockTypeOK, Goto, Jobs, Steps
  <2>3. undercut' \subseteq Req /\ raced' \in BOOLEAN
    BY <1>3 DEF StockTypeOK, FindFlour, Found
  <2> QED
    BY <1>3, <2>1, <2>2, <2>3 DEF StockTypeOK, FindFlour
<1>4. CASE CreateFlour(r)
  BY <1>4 DEF StockTypeOK, CreateFlour, Continue, Ends, Idle, Jobs, Steps, Store
<1>5. CASE Write(r)
  <2>1. Of(r) \in Store /\ settled' \subseteq Store /\ undercut' \subseteq Req
    BY <1>5 DEF StockTypeOK, Write, SetMin, Receive, Consume, Adjust, Settle, Unheard, Checked,
       Store
  <2>2. CASE SetMin(r)
    BY <1>5, <2>1, <2>2 DEF StockTypeOK, Write, SetMin, Ends, Idle, Jobs, Steps
  <2>3. CASE Receive(r)
    BY <1>5, <2>1, <2>3 DEF StockTypeOK, Write, Receive, Moves, Ends, Idle, Jobs, Steps
  <2>4. CASE Consume(r)
    BY <1>5, <2>1, <2>4 DEF StockTypeOK, Write, Consume, Moves, Goto, Jobs, Steps
  <2>5. CASE Adjust(r)
    BY <1>5, <2>1, <2>5 DEF StockTypeOK, Write, Adjust, Moves, Goto, Ends, Idle, Jobs, Steps
  <2> QED
    BY <1>5, <2>2, <2>3, <2>4, <2>5 DEF Write
<1>6. CASE Reread(r)
  BY <1>6 DEF StockTypeOK, Reread, Goto, Ends, Idle, Jobs, Steps
<1>7. CASE Notify(r)
  BY <1>7 DEF StockTypeOK, Notify, Settle, Ends, Idle, Jobs, Steps, Store
<1>8. CASE Fails(r)
  BY <1>8 DEF StockTypeOK, Fails, Settle, Ends, Idle, Jobs, Steps, Store
<1> QED
  BY <1>0, <1>1, <1>2, <1>3, <1>4, <1>5, <1>6, <1>7, <1>8 DEF StockStep

-----------------------------------------------------------------------------
\* What a step does to the requests: the others stay as they are.
LEMMA OthersStay ==
  ASSUME StockTypeOK, NEW r \in Req, StockStep(r)
  PROVE  \A q \in Req : q # r => request'[q] = request[q]
BY DEF StockTypeOK, StockStep, BeginLook, BeginFlour, BeginOther, Begins, FindFlour, CreateFlour,
       Continue, Write, SetMin, Receive, Consume, Adjust, Reread, Notify, Fails, Goto, Ends

LEMMA StepKinds ==
  ASSUME StockTypeOK, KindsMatch, NEW r \in Req, StockStep(r)
  PROVE  KindsMatch'
<1> USE StoreAssumption DEF KindsMatch, FlourJobs, StockTypeOK
<1>1. \A q \in Req : q # r => request'[q] = request[q]
  BY OthersStay
<1>2. ASSUME request'[r] = request[r] \/ At(r)' \notin {"find", "create", "write"}
      PROVE  KindsMatch'
  BY <1>1, <1>2
<1>0. CASE BeginLook(r)
  BY <1>1, <1>0 DEF BeginLook, Begins
<1>3. ASSUME NEW j \in Jobs, NEW a \in Amounts, BeginFlour(r, j, a) PROVE KindsMatch'
  BY <1>3 DEF BeginFlour, Begins
<1>4. ASSUME NEW j \in Jobs, NEW a \in Amounts, NEW x \in Store, BeginOther(r, j, a, x)
      PROVE  KindsMatch'
  BY <1>4 DEF BeginOther, Begins
<1>5. ASSUME NEW x, NEW n, Continue(r, x, n), At(r) \in {"find", "create"} PROVE KindsMatch'
  BY <1>5 DEF Continue, Ends, Idle
<1>6. CASE FindFlour(r)
  <2>1. CASE Goto(r, "create")
    BY <1>6, <2>1 DEF FindFlour, Goto
  <2> QED
    BY <1>5, <1>6, <2>1 DEF FindFlour
<1>7. CASE CreateFlour(r)
  BY <1>5, <1>7 DEF CreateFlour
<1>8. ASSUME Ends(r) \/ Goto(r, "reread") \/ Goto(r, "notify") PROVE KindsMatch'
  BY <1>2, <1>8 DEF Ends, Goto, Idle
<1> QED
  BY <1>0, <1>3, <1>4, <1>6, <1>7, <1>8
     DEF StockStep, Write, SetMin, Receive, Consume, Adjust, Reread, Notify, Fails

-----------------------------------------------------------------------------
\* Flour.

\* A request that comes to no check of its own, and under whose change the doughs it takes
\* from are marked, leaves the others covered.
LEMMA CoveredKept ==
  ASSUME StockTypeOK, NEW r \in Req, StockStep(r), Covered,
         \A x \in Flour : r \notin Checked(x)',
         \A x \in Flour : level'[x] >= level[x] \/ Checked(x) \ {r} \subseteq undercut',
         undercut \ {r} \subseteq undercut'
  PROVE  Covered'
<1> SUFFICES ASSUME NEW x \in Flour, NEW q \in Checked(x)', q \notin undercut'
             PROVE  level'[x] >= Amount(q)'
  BY DEF Covered
<1>1. q \in Req /\ q # r
  BY DEF Checked
<1>2. q \in Checked(x) /\ Amount(q)' = Amount(q)
  BY <1>1, OthersStay DEF Checked
<1>3. level[x] \in Int /\ level'[x] \in Int /\ Amount(q) \in Int
  BY <1>1, StepTypes DEF StockTypeOK, Store
<1>4. level[x] >= Amount(q)
  BY <1>1, <1>2 DEF Covered
<1>5. level'[x] >= level[x]
  BY <1>1, <1>2
<1> QED
  BY <1>2, <1>3, <1>4, <1>5

LEMMA StepNew ==
  ASSUME StockTypeOK, NewIsEmpty, NEW r \in Req, StockStep(r)
  PROVE  NewIsEmpty'
<1> USE StoreAssumption DEF StockTypeOK, NewIsEmpty
<1>1. CASE UNCHANGED level /\ exists \subseteq exists'
  BY <1>1
<1>2. CASE Write(r)
  <2>1. Of(r) \in exists \cup Item \cup Tank
    BY <1>2 DEF Write
  <2> QED
    BY <1>2, <2>1 DEF Write, SetMin, Receive, Consume, Adjust, Moves, Store
<1> QED
  BY <1>1, <1>2 DEF StockStep, BeginLook, BeginFlour, BeginOther, Begins, FindFlour,
     CreateFlour, Reread, Notify, Fails

LEMMA StepCovered ==
  ASSUME StockTypeOK, KindsMatch, NewIsEmpty, Covered, NEW r \in Req, StockStep(r)
  PROVE  Covered'
<1> USE DEF StockTypeOK
<1>1. \A q \in Req : q # r => request'[q] = request[q]
  BY OthersStay
<1>2. ASSUME UNCHANGED <<level, undercut>>, \A x \in Flour : r \notin Checked(x)'
      PROVE  Covered'
  BY <1>2, CoveredKept DEF Store
<1>3. ASSUME NEW j \in Jobs, NEW a \in Amounts, BeginFlour(r, j, a) PROVE Covered'
  BY <1>2, <1>3 DEF BeginFlour, Begins, Checked
<1>4. ASSUME NEW j \in Jobs, NEW a \in Amounts, NEW y \in Store, BeginOther(r, j, a, y)
      PROVE  Covered'
  BY <1>2, <1>4 DEF BeginOther, Begins, Checked
<1>5. CASE BeginLook(r)
  BY <1>2, <1>5 DEF BeginLook, Begins, Checked
<1>6. ASSUME NEW y \in Flour, NEW n \in Int, Continue(r, y, n), UNCHANGED <<level, undercut>>,
             n = level[y]
      PROVE  Covered'
  <2>1. CASE \A x \in Flour : r \notin Checked(x)'
    BY <1>2, <1>6, <2>1
  <2>2. ASSUME NEW x \in Flour, r \in Checked(x)'
        PROVE  x = y /\ Job(r) = "dough" /\ n >= Amount(r) /\ Amount(r)' = Amount(r)
    <3>1. At(r)' = "write" /\ Job(r)' = "dough" /\ Of(r)' = x
      BY <2>2 DEF Checked
    <3>2. ~(Job(r) = "look" \/ (Job(r) = "dough" /\ ~Enough(r, n)))
      BY <1>6, <3>1 DEF Continue, Ends, Idle
    <3>3. request' = [request EXCEPT ![r].store = y, ![r].pc = "write"]
      BY <1>6, <3>2 DEF Continue
    <3>4. Job(r) = "dough" /\ y = x /\ Amount(r)' = Amount(r)
      BY <3>1, <3>3
    <3> QED
      BY <3>2, <3>4 DEF Enough
  <2>3. ASSUME r \in Checked(y)', n <= level[y] PROVE Covered'
    <3> SUFFICES ASSUME NEW x \in Flour, NEW q \in Checked(x)', q \notin undercut
                 PROVE  level[x] >= Amount(q)'
      BY <1>6 DEF Covered
    <3>1. CASE q = r
      <4>1. x = y /\ n >= Amount(r) /\ Amount(r)' = Amount(r)
        BY <2>2, <3>1
      <4>2. level[y] \in Int /\ Amount(r) \in Int
        BY DEF Store
      <4> QED
        BY <2>3, <3>1, <4>1, <4>2
    <3>2. CASE q # r
      BY <1>1, <3>2 DEF Covered, Checked
    <3> QED
      BY <3>1, <3>2
  <2>4. PICK x \in Flour : r \in Checked(x)' \/ \A z \in Flour : r \notin Checked(z)'
    BY <1>6
  <2>5. CASE r \in Checked(x)'
    BY <1>6, <2>2, <2>3, <2>5 DEF Store
  <2> QED
    BY <1>6, <2>1, <2>4, <2>5
<1>7. CASE FindFlour(r)
  <2>1. CASE Goto(r, "create")
    BY <1>2, <1>7, <2>1 DEF FindFlour, Goto, Checked
  <2>2. ASSUME NEW y \in exists, Continue(r, y, level[y]) PROVE Covered'
    BY <1>6, <1>7, <2>2 DEF FindFlour, Store
  <2> QED
    BY <1>7, <2>1, <2>2 DEF FindFlour, Found
<1>8. CASE CreateFlour(r)
  <2>1. PICK y \in Flour \ exists : Continue(r, y, 0)
    BY <1>8 DEF CreateFlour
  <2> QED
    BY <1>6, <1>8, <2>1 DEF CreateFlour, NewIsEmpty
<1>9. CASE Write(r)
  <2>1. /\ undercut' = (undercut \cup {q \in Checked(Of(r)) : level'[Of(r)] < level[Of(r)]}) \ {r}
        /\ Of(r) \in Store
    BY <1>9 DEF Write, Store
  <2>2. \A x \in Flour : r \notin Checked(x)'
    BY <1>9 DEF Write, SetMin, Receive, Consume, Adjust, Ends, Goto, Idle, Checked
  <2>3. \A x \in Store : x # Of(r) => level'[x] = level[x]
    BY <1>9 DEF Write, SetMin, Receive, Consume, Adjust, Moves
  <2>4. level' \in [Store -> Int]
    BY StepTypes
  <2>5. \A x \in Flour : level'[x] >= level[x] \/ Checked(x) \ {r} \subseteq undercut'
    BY <2>1, <2>3, <2>4 DEF Store
  <2> QED
    BY <2>1, <2>2, <2>5, CoveredKept
<1>10. ASSUME Ends(r) \/ Goto(r, "reread") \/ Goto(r, "notify"), UNCHANGED level,
              undercut \ {r} \subseteq undercut'
       PROVE  Covered'
  BY <1>10, CoveredKept DEF Ends, Goto, Idle, Checked, Store
<1> QED
  BY <1>3, <1>4, <1>5, <1>7, <1>8, <1>9, <1>10 DEF StockStep, Reread, Notify, Fails

\* Who takes flour below nothing.
LEMMA StepTakes ==
  ASSUME StockTypeOK, KindsMatch, Covered, NEW r \in Req, StockStep(r), NEW x \in Flour,
         level'[x] < level[x], level'[x] < 0
  PROVE  /\ At(r) = "write" /\ At(r)' # "write" /\ Of(r) = x
         /\ Job(r) = "add" \/ r \in undercut
<1> USE DEF StockTypeOK
<1>1. level' # level
  BY DEF Store
<1>2. Write(r)
  BY <1>1 DEF StockStep, BeginLook, BeginFlour, BeginOther, Begins, FindFlour, CreateFlour,
     Reread, Notify, Fails
<1>3. /\ At(r) = "write" /\ At(r)' # "write" /\ Of(r) = x /\ Job(r) \in FlourJobs
  BY <1>1, <1>2 DEF Write, SetMin, Receive, Consume, Adjust, Moves, Ends, Goto, Idle, Store,
     KindsMatch
<1>4. CASE Consume(r)
  <2>1. r \in Checked(x)
    BY <1>3, <1>4 DEF Consume, Checked, FlourJobs
  <2>2. level'[x] = level[x] - Amount(r) /\ level[x] \in Int /\ Amount(r) \in Int
    BY <1>3, <1>4 DEF Consume, Moves, Store
  <2>3. r \in undercut
    BY <2>1, <2>2 DEF Covered
  <2> QED
    BY <1>3, <2>3
<1> QED
  BY <1>1, <1>2, <1>3, <1>4 DEF Write, SetMin, Receive, Adjust, FlourJobs

-----------------------------------------------------------------------------
\* The flour's row.
LEMMA StepSingle ==
  ASSUME StockTypeOK, NEW r \in Req, StockStep(r), ~raced', ~raced => SingleRow
  PROVE  SingleRow'
<1> USE DEF StockTypeOK
<1>1. SingleRow
  BY DEF StockStep, BeginLook, BeginFlour, BeginOther, Begins, FindFlour, CreateFlour, Write,
         Reread, Notify, Fails
<1>2. \A q \in Req : q # r => request'[q] = request[q]
  BY OthersStay
<1>3. ASSUME UNCHANGED exists, At(r)' # "create" PROVE SingleRow'
  <2>1. Creators' \subseteq Creators
    BY <1>2, <1>3 DEF Creators
  <2> QED
    BY <1>1, <1>3, <2>1 DEF SingleRow
<1>4. ASSUME NEW y, NEW n, Continue(r, y, n) PROVE At(r)' \in {"idle", "write"}
  BY <1>4 DEF Continue, Ends, Idle
<1>5. CASE FindFlour(r)
  <2>1. CASE Goto(r, "create") /\ Found = {}
    <3>1. Creators = {} /\ exists' = {}
      BY <1>5, <2>1 DEF FindFlour, Found, Goto, Creators
    <3>2. Creators' \subseteq {r}
      BY <1>2, <3>1 DEF Creators
    <3> QED
      BY <3>1, <3>2 DEF SingleRow
  <2> QED
    BY <1>3, <1>4, <1>5, <2>1 DEF FindFlour
<1>6. CASE CreateFlour(r)
  <2>1. PICK y : exists' = exists \cup {y} /\ Continue(r, y, 0)
    BY <1>6 DEF CreateFlour
  <2>2. r \in Creators /\ r \notin Creators'
    BY <1>4, <1>6, <2>1 DEF CreateFlour, Creators
  <2>3. Creators' = {} /\ exists = {}
    BY <1>1, <1>2, <2>2 DEF SingleRow, Creators
  <2> QED
    BY <2>1, <2>3 DEF SingleRow
<1>0. CASE BeginLook(r)
  BY <1>3, <1>0 DEF BeginLook, Begins
<1>7. ASSUME NEW j \in Jobs, NEW a \in Amounts, BeginFlour(r, j, a) PROVE SingleRow'
  BY <1>3, <1>7 DEF BeginFlour, Begins
<1>8. ASSUME NEW j \in Jobs, NEW a \in Amounts, NEW x \in Store, BeginOther(r, j, a, x)
      PROVE  SingleRow'
  BY <1>3, <1>8 DEF BeginOther, Begins
<1>9. ASSUME Ends(r) \/ Goto(r, "reread") \/ Goto(r, "notify"), UNCHANGED exists
      PROVE  SingleRow'
  BY <1>3, <1>9 DEF Ends, Goto, Idle
<1> QED
  BY <1>0, <1>5, <1>6, <1>7, <1>8, <1>9
     DEF StockStep, Write, SetMin, Receive, Consume, Adjust, Reread, Notify, Fails

-----------------------------------------------------------------------------
\* The inductive invariant: what StockTypeOK says, requests in stores of their kind, flour
\* that is there for a dough that has checked it until another request takes of it
\* (dough.service.ts lines 31-36), and a single row of flour unless two requests met in
\* getOrCreate (flour-inventory.service.ts lines 18-22).
THEOREM StockInvariant == StockSpec => []StockInv
<1>1. StockInit => StockInv
  <2> SUFFICES ASSUME StockInit PROVE StockInv
    OBVIOUS
  <2>1. \A r \in Req : At(r) = "idle"
    BY DEF StockInit, Idle
  <2>2. KindsMatch /\ Creators = {} /\ (\A x \in Flour : Checked(x) = {})
    BY <2>1 DEF StockInit, KindsMatch, Creators, Checked, Store
  <2> QED
    BY <2>2, StartTypes DEF StockInv, StockInit, NewIsEmpty, Covered, SingleRow,
       Store
<1>2. StockInv /\ [StockNext]_stockVars => StockInv'
  <2> SUFFICES ASSUME StockInv, [StockNext]_stockVars PROVE StockInv'
    OBVIOUS
  <2>1. CASE UNCHANGED stockVars
    BY <2>1 DEF stockVars, StockInv, StockTypeOK, KindsMatch, NewIsEmpty, Covered, Checked,
       SingleRow, Creators
  <2>2. ASSUME NEW r \in Req, StockStep(r) PROVE StockInv'
    BY <2>2, StepTypes, StepKinds, StepNew, StepCovered, StepSingle DEF StockInv
  <2> QED
    BY <2>1, <2>2 DEF StockNext
<1> QED
  BY <1>1, <1>2, PTL DEF StockSpec

\* Type correctness: a request only writes in a store that exists
\* (flour-inventory.service.ts lines 18-22).
THEOREM StockTypeCorrect == StockSpec => []StockTypeOK
BY StockInvariant, PTL DEF StockInv

\* Nothing takes flour below nothing but a dough that was undercut between check and
\* transaction, and a delivery of less than nothing (dough.service.ts lines 31-65,
\* flour-inventory.service.ts line 44).
THEOREM FlourNotOverdrawn == StockSpec => NotOverdrawn
<1> DEFINE Taken(x) == level'[x] < level[x] /\ level'[x] < 0
           Taker(r, x) == /\ At(r) = "write" /\ At(r)' # "write" /\ Of(r) = x
                          /\ Job(r) = "add" \/ r \in undercut
<1>1. StockInv /\ [StockNext]_stockVars =>
        [\A x \in Flour : Taken(x) => \E r \in Req : Taker(r, x)]_stockVars
  BY StepTakes DEF StockInv, StockNext
<1> QED
  BY <1>1, StockInvariant, PTL DEF StockSpec, NotOverdrawn

\* All flour is in one row, unless two requests have met in getOrCreate
\* (flour-inventory.service.ts lines 18-22).
THEOREM FlourInOneRow == StockSpec => []OneFlourRow
<1>1. StockInv => OneFlourRow
  <2> SUFFICES ASSUME \A x, y \in exists : x = y PROVE Cardinality(exists) <= 1
    BY DEF StockInv, SingleRow, OneFlourRow
  <2>1. CASE exists = {}
    BY <2>1, FS_EmptySet
  <2>2. ASSUME NEW x \in exists PROVE Cardinality(exists) <= 1
    <3>1. exists = {x}
      OBVIOUS
    <3> QED
      BY <3>1, FS_Singleton
  <2> QED
    BY <2>1, <2>2
<1> QED
  BY <1>1, StockInvariant, PTL

-----------------------------------------------------------------------------
\* Low stores.
LEMMA StepNoticed ==
  ASSUME StockTypeOK, StockTypeOK', LowIsNoticed, NEW r \in Req, StockStep(r)
  PROVE  LowIsNoticed'
<1> DEFINE Busy(q) == At(q) \in {"reread", "notify"}
<1> SUFFICES ASSUME NEW x \in Store, IsLow(x)', \A q \in Req : Of(q)' = x => ~Busy(q)'
             PROVE  x \in settled'
  BY DEF LowIsNoticed
<1> USE DEF StockTypeOK
<1>1. \A q \in Req : q # r => request'[q] = request[q]
  BY OthersStay
<1>2. ASSUME IsLow(x), Of(r) = x => ~Busy(r) PROVE x \in settled
  <2>1. \A q \in Req : Of(q) = x => ~Busy(q)
    BY <1>1, <1>2
  <2> QED
    BY <1>2, <2>1 DEF LowIsNoticed
<1>3. ASSUME UNCHANGED <<level, low, settled>>, Of(r) = x => ~Busy(r) PROVE x \in settled'
  BY <1>2, <1>3 DEF IsLow
<1>4. ASSUME NEW xs, Settle(xs), x \in xs PROVE x \in settled'
  BY <1>4 DEF Settle
<1>11. ASSUME Settle(Unheard(x)), Of(r) = x, ~Busy(r) PROVE x \in settled'
  <2>1. CASE IsLow(x)
    BY <1>2, <1>11, <2>1 DEF Settle
  <2>2. CASE ~IsLow(x)
    BY <1>4, <1>11, <2>2 DEF Unheard
  <2> QED
    BY <2>1, <2>2
<1>5. ASSUME NEW xs, Settle(xs), UNCHANGED low, level'[x] >= level[x], Of(r) = x => ~Busy(r)
      PROVE  x \in settled'
  BY <1>2, <1>5 DEF Settle, IsLow
<1>6. CASE Write(r)
  <2>1. Of(r) \in Store /\ ~Busy(r) /\ Amount(r) \in Int
    BY <1>6 DEF Write, Store
  <2>2. CASE SetMin(r)
    <3>1. CASE Of(r) = x
      BY <1>11, <2>1, <2>2, <3>1 DEF SetMin
    <3>2. CASE Of(r) # x
      BY <1>2, <2>1, <2>2, <3>2 DEF SetMin, Settle, IsLow
    <3> QED
      BY <3>1, <3>2
  <2>3. CASE Receive(r)
    <3>1. CASE Of(r) = x
      BY <1>11, <2>1, <2>3, <3>1 DEF Receive
    <3>2. CASE Of(r) # x
      BY <1>5, <2>1, <2>3, <3>2 DEF Receive, Moves
    <3> QED
      BY <3>1, <3>2
  <2>4. CASE Of(r) # x /\ (Consume(r) \/ Adjust(r))
    BY <1>5, <2>1, <2>4 DEF Consume, Adjust, Moves
  <2>5. CASE Of(r) = x /\ Consume(r)
    BY <2>5 DEF Consume, Goto
  <2>6. CASE Of(r) = x /\ Adjust(r)
    BY <2>6 DEF Adjust, Goto, IsLow
  <2> QED
    BY <1>6, <2>2, <2>3, <2>4, <2>5, <2>6 DEF Write
<1>7. CASE Reread(r)
  <2>1. CASE Of(r) = x
    BY <1>7, <2>1 DEF Reread, Goto, IsLow
  <2> QED
    BY <1>3, <1>7, <2>1 DEF Reread
<1>8. CASE Notify(r)
  BY <1>4, <1>5, <1>8 DEF Notify
<1>9. CASE Fails(r)
  BY <1>4, <1>5, <1>9 DEF Fails
<1>10. CASE UNCHANGED <<level, low, settled>> /\ At(r) \in {"idle", "find", "create"}
  BY <1>3, <1>10
<1> QED
  BY <1>6, <1>7, <1>8, <1>9, <1>10
     DEF StockStep, BeginLook, BeginFlour, BeginOther, Begins, FindFlour, CreateFlour

\* Whoever is done has notified that a store is low, if nothing failed and it was not a new
\* minimum or a negative delivery that made it low (dough.service.ts lines 79-88,
\* inventory.service.ts lines 44-52, fuel.service.ts lines 60-69).
THEOREM LowStoresNoticed == StockSpec => []LowIsNoticed
<1>1. StockInit => LowIsNoticed
  BY DEF StockInit, LowIsNoticed
<1>2. StockTypeOK /\ StockTypeOK' /\ LowIsNoticed /\ [StockNext]_stockVars => LowIsNoticed'
  <2>1. ASSUME LowIsNoticed, UNCHANGED stockVars PROVE LowIsNoticed'
    BY <2>1 DEF stockVars, LowIsNoticed, IsLow
  <2> QED
    BY <2>1, StepNoticed DEF StockNext
<1> QED
  BY <1>1, <1>2, StockTypeCorrect, PTL DEF StockSpec
=============================================================================
