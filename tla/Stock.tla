-------------------------------- MODULE Stock --------------------------------
(***************************************************************************)
(* What the bakery has in store: flour (backend/src/flour-inventory and    *)
(* backend/src/dough), other materials (backend/src/inventory) and fuel    *)
(* (backend/src/fuel).                                                     *)
(*                                                                         *)
(* A level changes in a transaction, together with the row that records    *)
(* the change.  What comes before it (finding the flour's row, making it,  *)
(* comparing the stock with what the dough needs) and after it (looking    *)
(* whether the store runs low, notifying) is outside, and other requests   *)
(* come in between.                                                        *)
(***************************************************************************)
EXTENDS Integers, FiniteSets

CONSTANTS
  Req,          \* slots for requests
  Flour,        \* ids that rows of flour_inventory may get
  Item,         \* rows of inventory
  Tank,         \* rows of fuel_tank
  NoStore,
  Amounts,      \* what a request says it moves, or sets as minimum; only that of a dough is
                \* checked to be positive, every other body has no validation class
  MaxLevel      \* bound: how far a level may go, either way

Store == Flour \cup Item \cup Tank

ASSUME StoreAssumption ==
  /\ Flour \cap Item = {} /\ Flour \cap Tank = {} /\ Item \cap Tank = {}
  /\ NoStore \notin Store
ASSUME AmountsAssumption == Amounts \subseteq Int /\ MaxLevel \in Nat

VARIABLES
  exists,       \* the flour rows there are
  level,        \* level[x]: currentStockKg, currentStock, currentLiters
  low,          \* low[x]: minStockKg, minStock, 15% of the capacity
  request,      \* request[r]: what slot r is about, what it does next, its store and amount
  raced,        \* history: two requests were about to make the flour's row at once
  undercut,     \* history: doughs that have compared the stock with their need, and from whose
                \* row another request has taken since
  settled       \* history: low stores that have been notified to be since they were last
                \* sufficient, or became low with nobody to notify it

stockVars == <<exists, level, low, request, raced, undercut, settled>>

Jobs  == {"look", "setMin", "add", "dough", "adjustUp", "adjustDown", "addFuel", "consumeFuel"}
Steps == {"idle", "find", "create", "write", "reread", "notify"}

At(r)     == request[r].pc
Job(r)    == request[r].job
Of(r)     == request[r].store
Amount(r) == request[r].amount

Idle == [job |-> "look", pc |-> "idle", store |-> NoStore, amount |-> 0]

StockTypeOK ==
  /\ exists \subseteq Flour
  /\ level  \in [Store -> Int]
  /\ low    \in [Store -> Int]
  /\ request \in [Req -> [job : Jobs, pc : Steps, store : Store \cup {NoStore}, amount : Int]]
  /\ raced  \in BOOLEAN
  /\ undercut \subseteq Req
  /\ settled \subseteq Store
  /\ \A r \in Req : At(r) \in {"write", "reread", "notify"} =>
       Of(r) \in exists \cup Item \cup Tank

IsLow(x) == level[x] < low[x]

StockInit ==
  /\ exists = {}
  /\ level  = [x \in Store |-> 0]
  /\ low    \in [Store -> Amounts \cup {0}]
  /\ \A x \in Flour : low[x] = 0
  /\ \A x \in Tank : low[x] \in Amounts
  /\ request = [r \in Req |-> Idle]
  /\ raced  = FALSE
  /\ undercut = {}
  /\ settled = {x \in Store : IsLow(x)}

Ends(r) == request' = [request EXCEPT ![r] = Idle]

Goto(r, step) == request' = [request EXCEPT ![r].pc = step]

\* x, unless it is low already: should it become low now, nobody will be notified of it.
Unheard(x) == {x} \ {y \in Store : IsLow(y)}

\* What is settled stays so until the store is sufficient again.
Settle(xs) == settled' = {x \in settled \cup xs : IsLow(x)'}

\* Dough requests that have compared the stock of x with what they need.
Checked(x) == {r \in Req : At(r) = "write" /\ Job(r) = "dough" /\ Of(r) = x}

-----------------------------------------------------------------------------
(* A request arrives.                                                      *)

Begins(r, j, step, x, a) ==
  /\ At(r) = "idle"
  /\ request' = [request EXCEPT ![r] = [job |-> j, pc |-> step, store |-> x, amount |-> a]]
  /\ UNCHANGED <<exists, level, low, raced, undercut, settled>>

\* Every request about flour begins with getOrCreate, and getCurrentStock ends with it.
BeginLook(r) == Begins(r, "look", "find", NoStore, 0)

BeginFlour(r, j, a) ==
  /\ j \in {"setMin", "add", "dough"}
  /\ j = "dough" => a > 0
  /\ Begins(r, j, "find", NoStore, a)

\* Requests about a material or a tank name it; that it exists is all that is checked.
BeginOther(r, j, a, x) ==
  /\ \/ j \in {"adjustUp", "adjustDown"} /\ x \in Item
     \/ j \in {"addFuel", "consumeFuel"} /\ x \in Tank
  /\ Begins(r, j, "write", x, a)

-----------------------------------------------------------------------------
(* getOrCreate and what follows on the row it returns.                     *)

\* A faulty variant of Enough: the stock is not compared with the need.
AlwaysEnough(r, available) == TRUE

Enough(r, available) == available >= Amount(r)

\* A faulty variant of Continue: the row is not kept.
ContinueNowhere(r, x, available) ==
  IF Job(r) = "look" THEN Ends(r) ELSE Goto(r, "write")

\* The row x, whose stock was read as available, is what the request goes on with; dough
\* that needs more is refused.
Continue(r, x, available) ==
  IF Job(r) = "look" \/ (Job(r) = "dough" /\ ~Enough(r, available))
    THEN Ends(r)
    ELSE request' = [request EXCEPT ![r].store = x, ![r].pc = "write"]

\* A faulty variant of Found: a row with nothing in it is not found.
FoundFilled == {x \in exists : level[x] # 0}

\* findFirst, which is given no order: any row there is.
Found == exists

FindFlour(r) ==
  /\ At(r) = "find"
  /\ \/ Found = {} /\ Goto(r, "create")
     \/ \E x \in Found : Continue(r, x, level[x])
  /\ raced' = (raced \/ (At(r)' = "create" /\ \E q \in Req : At(q) = "create"))
  /\ UNCHANGED <<exists, level, low, undercut, settled>>

\* create: nothing makes the row unique.
CreateFlour(r) ==
  /\ At(r) = "create"
  /\ \E x \in Flour \ exists :
       /\ exists' = exists \cup {x}
       /\ Continue(r, x, 0)
  /\ UNCHANGED <<level, low, raced, undercut, settled>>

-----------------------------------------------------------------------------
(* The changes.                                                            *)

Moves(r, by) ==
  /\ level[Of(r)] + by \in -MaxLevel .. MaxLevel
  /\ level' = [level EXCEPT ![Of(r)] = @ + by]

\* setMinStock, which notifies nobody.
SetMin(r) ==
  /\ Job(r) = "setMin"
  /\ low' = [low EXCEPT ![Of(r)] = Amount(r)]
  /\ UNCHANGED level
  /\ Settle(Unheard(Of(r)))
  /\ Ends(r)

\* addStock, addFuel.  What they add may be less than nothing, and they neither compare
\* nor notify.
Receive(r) ==
  /\ Job(r) \in {"add", "addFuel"}
  /\ Moves(r, Amount(r))
  /\ UNCHANGED low
  /\ Settle(Unheard(Of(r)))
  /\ Ends(r)

\* The transaction of a dough batch, and that of consumeFuel.
Consume(r) ==
  /\ Job(r) \in {"dough", "consumeFuel"}
  /\ Moves(r, -Amount(r))
  /\ UNCHANGED low
  /\ Settle({})
  /\ Goto(r, "reread")

\* A faulty variant of Adjust: the level found before the update is compared.
AdjustComparesOld(r) ==
  /\ Job(r) \in {"adjustUp", "adjustDown"}
  /\ Moves(r, IF Job(r) = "adjustUp" THEN Amount(r) ELSE -Amount(r))
  /\ UNCHANGED low
  /\ Settle({})
  /\ IF IsLow(Of(r)) THEN Goto(r, "notify") ELSE Ends(r)

\* adjustStock, which knows the new level from the update.
Adjust(r) ==
  /\ Job(r) \in {"adjustUp", "adjustDown"}
  /\ Moves(r, IF Job(r) = "adjustUp" THEN Amount(r) ELSE -Amount(r))
  /\ UNCHANGED low
  /\ Settle({})
  /\ IF level'[Of(r)] < low[Of(r)] THEN Goto(r, "notify") ELSE Ends(r)

Write(r) ==
  /\ At(r) = "write"
  /\ SetMin(r) \/ Receive(r) \/ Consume(r) \/ Adjust(r)
  /\ undercut' = (undercut \cup {q \in Checked(Of(r)) : level'[Of(r)] < level[Of(r)]}) \ {r}
  /\ UNCHANGED <<exists, raced>>

\* dough and consumeFuel read the level again.
Reread(r) ==
  /\ At(r) = "reread"
  /\ IF IsLow(Of(r)) THEN Goto(r, "notify") ELSE Ends(r)
  /\ UNCHANGED <<exists, level, low, raced, undercut, settled>>

\* notification.create.
Notify(r) ==
  /\ At(r) = "notify"
  /\ UNCHANGED <<exists, level, low, raced, undercut>>
  /\ Settle({Of(r)})
  /\ Ends(r)

\* The handler throws or the server stops.
Fails(r) ==
  /\ At(r) # "idle"
  /\ undercut' = undercut \ {r}
  /\ UNCHANGED <<exists, level, low, raced>>
  /\ Settle(IF At(r) \in {"reread", "notify"} THEN {Of(r)} ELSE {})
  /\ Ends(r)

StockStep(r) ==
  \/ BeginLook(r)
  \/ \E j \in Jobs, a \in Amounts : BeginFlour(r, j, a)
  \/ \E j \in Jobs, a \in Amounts, x \in Store : BeginOther(r, j, a, x)
  \/ FindFlour(r)
  \/ CreateFlour(r)
  \/ Write(r)
  \/ Reread(r)
  \/ Notify(r)
  \/ Fails(r)

StockNext == \E r \in Req : StockStep(r)

StockSpec == StockInit /\ [][StockNext]_stockVars

-----------------------------------------------------------------------------
(* What the stores promise.                                                *)

\* Nothing takes flour below nothing but a dough from under which another request took
\* flour between its check and its transaction, and a delivery of less than nothing
\* (dough.service.ts lines 31-65, flour-inventory.service.ts line 44).
NotOverdrawn ==
  [][\A x \in Flour :
       level'[x] < level[x] /\ level'[x] < 0 =>
         \E r \in Req :
           /\ At(r) = "write" /\ At(r)' # "write" /\ Of(r) = x
           /\ Job(r) = "add" \/ r \in undercut]_stockVars

\* All flour is in one row, unless the first requests have met in getOrCreate
\* (flour-inventory.service.ts lines 18-22).
OneFlourRow == ~raced => Cardinality(exists) <= 1

\* A store that is low has been notified to be since it was last sufficient, once the
\* requests that changed it have gone on to their end, except one that became low by a new
\* minimum or a negative delivery, or whose request failed between change and notification
\* (dough.service.ts lines 79-88, inventory.service.ts lines 44-52, fuel.service.ts
\* lines 60-69).
LowIsNoticed ==
  \A x \in Store :
    /\ IsLow(x)
    /\ \A r \in Req : Of(r) = x => At(r) \notin {"reread", "notify"}
    => x \in settled
=============================================================================
