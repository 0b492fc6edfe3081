------------------------------ MODULE Catalog ------------------------------
(***************************************************************************)
(* The rows that documents refer to: products with their prices            *)
(* (backend/src/products/products.service.ts), customers, suppliers,       *)
(* employees, payment methods, materials and fuel tanks (the services of   *)
(* those names; what is in store of the last two is in Stock).             *)
(*                                                                         *)
(* Each step is one database call.  A row's createdAt is taken before the  *)
(* row can be seen: between them lies the insert.  A removed row keeps all *)
(* it has and is marked with deletedAt.  Names, addresses and the audit    *)
(* log, which is written after the last change, are left out.              *)
(***************************************************************************)
EXTENDS Naturals

CONSTANTS
  Row,          \* rows, by the id they will have
  keyOf,        \* keyOf[x]: what is unique in it: a product's code, an employee's user,
  NoKey,        \* the name of a payment method or a material, or NoKey
  Change,       \* requests that change or remove a row
  NoRow, NoPrice,
  Actor,        \* whoever acts besides: the other modules say who
  Scenes,       \* bound: which table each row is of, and who is at work
  MaxTime       \* bound: the last moment

Edited == {"product", "customer", "supplier", "employee"}   \* those with an update
Kinds  == Edited \cup {"method", "material", "tank"}
Time  == 0 .. MaxTime
\* A product's first price goes by the product, any other by the change that makes it.
Price == Row \cup Change

ASSUME RowAssumption ==
  /\ NoRow \notin Row /\ NoPrice \notin Price /\ Row \cap Change = {}
ASSUME SceneAssumption ==
  Scenes \subseteq [kind : [Row -> Kinds], who : SUBSET (Row \cup Change \cup Actor)]
ASSUME ClockAssumption == MaxTime \in Nat

VARIABLES
  scene,        \* one of Scenes, which never changes
  clock,
  row,          \* row[x]: how far the request to make x is; then "live" or "removed"
  stamp,        \* stamp[x]: its createdAt
  rev,          \* rev[x]: the changes made to its other columns
  current,      \* current[x]: the prices of x with no effectiveTo
  change,       \* change[c]: how far request c is, on which row, and the price it closes
  raced         \* history: products with two changes of the price at once, or a torn one

catalogVars == <<clock, row, stamp, rev, current, change, raced>>

kindOf == scene.kind

RowStates == {"new", "checked", "inserting", "refused", "live", "removed"}
Visible   == {x \in Row : row[x] \in {"live", "removed"}}

At(c) == change[c].at
On(c) == change[c].on

CatalogTypeOK ==
  /\ scene   \in Scenes
  /\ clock   \in Time
  /\ row     \in [Row -> RowStates]
  /\ stamp   \in [Row -> Time]
  /\ rev     \in [Row -> SUBSET Change]
  /\ current \in [Row -> SUBSET Price]
  /\ change  \in [Change -> [at : {"new", "updating", "closing", "opening", "removing", "done"},
                             priced : BOOLEAN, on : Row \cup {NoRow}, old : Price \cup {NoPrice}]]
  /\ raced \subseteq Row
  /\ \A x \in Row : stamp[x] <= clock
  /\ \A c \in Change : At(c) \notin {"new", "done"} => On(c) \in Visible

Blank(st) == [at |-> st, priced |-> FALSE, on |-> NoRow, old |-> NoPrice]

CatalogInit ==
  /\ scene   \in Scenes
  /\ clock   = 0
  /\ row     = [x \in Row |-> "new"]
  /\ stamp   = [x \in Row |-> 0]
  /\ rev     = [x \in Row |-> {}]
  /\ current = [x \in Row |-> {}]
  /\ change  = [c \in Change |-> Blank("new")]
  /\ raced   = {}

Tick == clock < MaxTime /\ clock' = clock + 1
        /\ UNCHANGED <<row, stamp, rev, current, change, raced>>

-----------------------------------------------------------------------------
(* Making a row.                                                           *)

Goes(x, st) ==
  /\ row' = [row EXCEPT ![x] = st]
  /\ UNCHANGED <<clock, rev, current, change, raced>>

SameKey(x) == {y \in Visible : kindOf[y] = kindOf[x] /\ keyOf[y] = keyOf[x] /\ keyOf[x] # NoKey}

\* findUnique by the key; it finds removed rows as well.
Look(x) ==
  /\ x \in scene.who /\ row[x] = "new"
  /\ Goes(x, IF SameKey(x) = {} THEN "checked" ELSE "refused")
  /\ UNCHANGED stamp

LookForCode(x)    == kindOf[x] = "product" /\ Look(x)
LookForUser(x)    == kindOf[x] = "employee" /\ keyOf[x] # NoKey /\ Look(x)
LookForDefault(x) == kindOf[x] = "method" /\ Look(x)
LookForName(x)    == kindOf[x] = "material" /\ Look(x)

\* The insert begins: createdAt is taken.
Insert(x) ==
  /\ x \in scene.who
  /\ Goes(x, "inserting")
  /\ stamp' = [stamp EXCEPT ![x] = clock]

CreateProduct(x)  == kindOf[x] = "product"  /\ row[x] = "checked" /\ Insert(x)
CreateCustomer(x) == kindOf[x] = "customer" /\ row[x] = "new"     /\ Insert(x)
CreateSupplier(x) == kindOf[x] = "supplier" /\ row[x] = "new"     /\ Insert(x)
CreateEmployee(x) ==
  /\ kindOf[x] = "employee"
  /\ row[x] = (IF keyOf[x] = NoKey THEN "new" ELSE "checked")
  /\ Insert(x)
\* create of the payment methods, which does not look first, and ensureDefaults, which does.
CreateMethod(x)   == kindOf[x] = "method" /\ row[x] \in {"new", "checked"} /\ Insert(x)
CreateMaterial(x) == kindOf[x] = "material" /\ row[x] = "checked" /\ Insert(x)
\* An empty tank; it has no createdAt, and nothing looks for it.
CreateTank(x)     == kindOf[x] = "tank"     /\ row[x] = "new"     /\ Insert(x)

\* The insert commits, a product with its first price; or the key is taken by now.  A step of
\* ReferenceCache, which has to know of it.
Appear(x) ==
  /\ row[x] = "inserting"
  /\ IF SameKey(x) = {}
       THEN /\ row' = [row EXCEPT ![x] = "live"]
            /\ current' = [current EXCEPT ![x] = IF kindOf[x] = "product" THEN {x} ELSE {}]
       ELSE row' = [row EXCEPT ![x] = "refused"] /\ UNCHANGED current
  /\ UNCHANGED <<clock, stamp, rev, change, raced>>

CreateFails(x) ==
  /\ row[x] \in {"checked", "inserting"}
  /\ Goes(x, "refused")
  /\ UNCHANGED stamp

-----------------------------------------------------------------------------
(* Changing and removing one.                                              *)

Becomes(c, st) == change' = [change EXCEPT ![c] = IF st = "done" THEN Blank(st)
                                                  ELSE [@ EXCEPT !.at = st]]

Pricing(c, x) == change[c].priced /\ On(c) = x /\ At(c) \in {"updating", "closing", "opening"}

\* A faulty variant of BeginUpdate: the row is not looked up first.
BeginUpdateUnseen(c, x) ==
  /\ c \in scene.who /\ At(c) = "new" /\ kindOf[x] \in Edited
  /\ change' = [change EXCEPT ![c] = [Blank("updating") EXCEPT !.on = x]]
  /\ UNCHANGED <<clock, row, stamp, rev, current, raced>>

\* findOne; with it, for a product, its prices, of which a current one is chosen.
BeginUpdate(c, x) ==
  /\ c \in scene.who /\ At(c) = "new"
  /\ row[x] = "live" /\ kindOf[x] \in Edited
  /\ \E priced \in {kindOf[x] = "product", FALSE} :
     \E old \in (IF priced /\ current[x] # {} THEN current[x] ELSE {NoPrice}) :
       /\ change' = [change EXCEPT ![c] =
                       [at |-> "updating", priced |-> priced, on |-> x, old |-> old]]
       /\ raced' = IF priced /\ \E d \in Change : Pricing(d, x) THEN raced \cup {x} ELSE raced
  /\ UNCHANGED <<clock, row, stamp, rev, current>>

\* The update by id: whether the row has been removed meanwhile is not asked.
Update(c, kind) ==
  /\ At(c) = "updating" /\ kindOf[On(c)] = kind
  /\ rev' = [rev EXCEPT ![On(c)] = @ \cup {c}]
  /\ UNCHANGED <<clock, row, stamp, current, raced>>

\* A faulty variant of UpdateProduct: the price there was is not closed.
UpdateKeepingPrice(c) ==
  /\ Update(c, "product")
  /\ Becomes(c, IF change[c].priced THEN "opening" ELSE "done")

UpdateProduct(c) ==
  /\ Update(c, "product")
  /\ Becomes(c, CASE ~change[c].priced -> "done"
                  [] change[c].priced /\ change[c].old = NoPrice -> "opening"
                  [] OTHER -> "closing")

UpdateCustomer(c) == Update(c, "customer") /\ Becomes(c, "done")
UpdateSupplier(c) == Update(c, "supplier") /\ Becomes(c, "done")
UpdateEmployee(c) == Update(c, "employee") /\ Becomes(c, "done")

\* effectiveTo of the price that was found.
ClosePrice(c) ==
  /\ At(c) = "closing"
  /\ current' = [current EXCEPT ![On(c)] = @ \ {change[c].old}]
  /\ Becomes(c, "opening")
  /\ UNCHANGED <<clock, row, stamp, rev, raced>>

OpenPrice(c) ==
  /\ At(c) = "opening"
  /\ current' = [current EXCEPT ![On(c)] = @ \cup {c}]
  /\ Becomes(c, "done")
  /\ UNCHANGED <<clock, row, stamp, rev, raced>>

BeginRemoval(c, x) ==
  /\ c \in scene.who /\ At(c) = "new"
  /\ row[x] = "live" /\ kindOf[x] \in Edited \cup {"material"}
  /\ change' = [change EXCEPT ![c] = [Blank("removing") EXCEPT !.on = x]]
  /\ UNCHANGED <<clock, row, stamp, rev, current, raced>>

Remove(c, kind) ==
  /\ At(c) = "removing" /\ kindOf[On(c)] = kind
  /\ row' = [row EXCEPT ![On(c)] = "removed"]
  /\ Becomes(c, "done")
  /\ UNCHANGED <<clock, stamp, rev, current, raced>>

RemoveProduct(c)  == Remove(c, "product")
RemoveCustomer(c) == Remove(c, "customer")
RemoveSupplier(c) == Remove(c, "supplier")
RemoveEmployee(c) == Remove(c, "employee")
RemoveMaterial(c) == Remove(c, "material")

\* A call of the database fails or the server stops.
ChangeFails(c) ==
  /\ At(c) \notin {"new", "done"}
  /\ raced' = IF At(c) = "opening" THEN raced \cup {On(c)} ELSE raced
  /\ Becomes(c, "done")
  /\ UNCHANGED <<clock, row, stamp, rev, current>>

RowStep(x) ==
  \/ LookForCode(x) \/ LookForUser(x) \/ LookForDefault(x) \/ LookForName(x)
  \/ CreateProduct(x) \/ CreateCustomer(x) \/ CreateSupplier(x)
  \/ CreateEmployee(x) \/ CreateMethod(x) \/ CreateMaterial(x) \/ CreateTank(x)
  \/ CreateFails(x)

ChangeStep(c) ==
  \/ \E x \in Row : BeginUpdate(c, x) \/ BeginRemoval(c, x)
  \/ UpdateProduct(c) \/ UpdateCustomer(c) \/ UpdateSupplier(c) \/ UpdateEmployee(c)
  \/ ClosePrice(c) \/ OpenPrice(c)
  \/ RemoveProduct(c) \/ RemoveCustomer(c) \/ RemoveSupplier(c) \/ RemoveEmployee(c)
  \/ RemoveMaterial(c)
  \/ ChangeFails(c)

-----------------------------------------------------------------------------

\* A product has one current price, or, while a change is between its two statements, none,
\* unless two changes of its price overlapped or one stopped there (products.service.ts
\* lines 85-93).
OneCurrentPrice ==
  \A x \in Visible : kindOf[x] = "product" /\ x \notin raced =>
    \/ \E p \in Price : current[x] = {p}
    \/ current[x] = {} /\ \E c \in Change : Pricing(c, x) /\ At(c) = "opening"
=============================================================================
