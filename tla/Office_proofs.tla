--------------------------- MODULE Office_proofs ---------------------------
(***************************************************************************)
(* Proofs about Office, for any rows, changes, phones' pulls, purchases    *)
(* and dumps.  OfficeInv adds to the types what each property rests on:    *)
(* who changes a price and what is found current (PriceInv), what a pull   *)
(* has gathered so far (PullInv), that balances are what the documents say *)
(* and there are finitely many of these (BalanceInv), who has a number     *)
(* (NumberedInv), and which dumps are to be removed (DumpInv).             *)
(***************************************************************************)
EXTENDS Office, SumTheorems

USE RowAssumption, SceneAssumption, ClockAssumption
USE DEF At, On, kindOf

Record == [at : {"new", "updating", "closing", "opening", "removing", "done"},
           priced : BOOLEAN, on : Row \cup {NoRow}, old : Price \cup {NoPrice}]

\* Change c alone has moved.
Changes(c) ==
  change' \in [Change -> Record] /\ \A d \in Change : d # c => change'[d] = change[d]

\* What a step does to the rows that others rely on: none comes to be seen, none is lost sight
\* of, what is seen keeps its createdAt, and no change to a row is undone.
RowsStay ==
  /\ clock' \in Time /\ clock <= clock'
  /\ row' \in [Row -> RowStates] /\ stamp' \in [Row -> Time]
  /\ \A x \in Row : /\ row'[x] = "live" => row[x] = "live"
                    /\ x \in Visible <=> x \in Visible'
                    /\ x \in Visible => stamp'[x] = stamp[x]
                    /\ rev[x] \subseteq rev'[x]

-----------------------------------------------------------------------------
(* The rows.                                                               *)

LEMMA CatalogTypesOf ==
  CatalogTypeOK <=>
  /\ scene \in Scenes /\ clock \in Time
  /\ row \in [Row -> RowStates] /\ stamp \in [Row -> Time]
  /\ rev \in [Row -> SUBSET Change] /\ current \in [Row -> SUBSET Price]
  /\ change \in [Change -> Record] /\ raced \subseteq Row
  /\ \A x \in Row : stamp[x] <= clock
  /\ \A c \in Change : At(c) \notin {"new", "done"} => On(c) \in Visible
BY DEF CatalogTypeOK, Record

LEMMA BlankRecord ==
  /\ Blank("new") \in Record /\ Blank("done") \in Record
  /\ Blank("new").at = "new" /\ Blank("done").at = "done"
  /\ ~Blank("new").priced /\ ~Blank("done").priced
BY DEF Blank, Record

LEMMA Replaced ==
  ASSUME change \in [Change -> Record], NEW c \in Change, NEW rec \in Record,
         change' = [change EXCEPT ![c] = rec]
  PROVE  Changes(c) /\ change'[c] = rec
BY DEF Changes

LEMMA DoneRecord ==
  ASSUME change \in [Change -> Record], NEW c \in Change, Becomes(c, "done")
  PROVE  Changes(c) /\ At(c)' = "done" /\ ~change'[c].priced
<1>1. change' = [change EXCEPT ![c] = Blank("done")]
  BY DEF Becomes
<1> QED
  BY <1>1, BlankRecord, Replaced

LEMMA NextRecord ==
  ASSUME change \in [Change -> Record], NEW c \in Change, NEW st \in {"closing", "opening"},
         Becomes(c, st)
  PROVE  /\ Changes(c) /\ At(c)' = st /\ On(c)' = On(c)
         /\ change'[c].priced = change[c].priced /\ change'[c].old = change[c].old
<1> DEFINE rec == [change[c] EXCEPT !.at = st]
<1>1. change' = [change EXCEPT ![c] = rec]
  BY DEF Becomes
<1>2. /\ rec \in Record /\ rec.at = st /\ rec.on = change[c].on
      /\ rec.priced = change[c].priced /\ rec.old = change[c].old
  <2>1. change[c] \in Record
    OBVIOUS
  <2> QED
    BY <2>1 DEF Record
<1> HIDE DEF rec
<1> QED
  BY <1>1, <1>2, Replaced

LEMMA UpdateRecord ==
  ASSUME change \in [Change -> Record], NEW c \in Change, NEW x \in Row, NEW priced \in BOOLEAN,
         NEW old \in Price \cup {NoPrice},
         change' = [change EXCEPT ![c] =
                      [at |-> "updating", priced |-> priced, on |-> x, old |-> old]]
  PROVE  /\ Changes(c) /\ At(c)' = "updating" /\ On(c)' = x
         /\ change'[c].priced = priced /\ change'[c].old = old
<1> DEFINE rec == [at |-> "updating", priced |-> priced, on |-> x, old |-> old]
<1>1. /\ rec \in Record /\ rec.at = "updating" /\ rec.on = x /\ rec.priced = priced
      /\ rec.old = old
  BY DEF Record
<1> HIDE DEF rec
<1>2. change' = [change EXCEPT ![c] = rec]
  BY DEF rec
<1> QED
  BY <1>1, <1>2, Replaced

LEMMA RemovalRecord ==
  ASSUME change \in [Change -> Record], NEW c \in Change, NEW x \in Row,
         change' = [change EXCEPT ![c] = [Blank("removing") EXCEPT !.on = x]]
  PROVE  Changes(c) /\ At(c)' = "removing" /\ On(c)' = x /\ ~change'[c].priced
<1> DEFINE rec == [Blank("removing") EXCEPT !.on = x]
<1>1. rec \in Record /\ rec.at = "removing" /\ rec.on = x /\ ~rec.priced
  BY DEF Record, Blank
<1> HIDE DEF rec
<1>2. change' = [change EXCEPT ![c] = rec]
  BY DEF rec
<1> QED
  BY <1>1, <1>2, Replaced

\* The clock.
LEMMA TickTypes ==
  ASSUME CatalogTypeOK, Tick, UNCHANGED scene
  PROVE  CatalogTypeOK' /\ RowsStay
<1>1. clock' \in Time /\ clock <= clock' /\ \A s \in Time : s <= clock => s <= clock'
  BY DEF Tick, Time, CatalogTypeOK
<1> QED
  BY <1>1 DEF Tick, RowsStay, Visible, CatalogTypeOK

\* A row that is being made.
LEMMA RowTypes ==
  ASSUME CatalogTypeOK, NEW x \in Row, RowStep(x), UNCHANGED scene
  PROVE  /\ CatalogTypeOK' /\ RowsStay
         /\ UNCHANGED <<clock, rev, current, change, raced>>
<1>1. /\ row[x] \in {"new", "checked", "inserting"}
      /\ \E st \in {"checked", "inserting", "refused"} : Goes(x, st)
      /\ stamp' = stamp \/ stamp' = [stamp EXCEPT ![x] = clock]
  BY DEF RowStep, LookForCode, LookForUser, LookForDefault, LookForName, Look, CreateProduct,
         CreateCustomer, CreateSupplier, CreateEmployee, CreateMethod, CreateMaterial, CreateTank,
         Insert, CreateFails
<1>2. PICK st \in {"checked", "inserting", "refused"} : Goes(x, st)
  BY <1>1
<1>3. row' = [row EXCEPT ![x] = st] /\ UNCHANGED <<clock, rev, current, change, raced>>
  BY <1>2 DEF Goes
<1>4. row' \in [Row -> RowStates] /\ stamp' \in [Row -> Time]
  BY <1>1, <1>3 DEF CatalogTypeOK, RowStates
<1>5. \A y \in Row : /\ row'[y] = "live" => row[y] = "live"
                     /\ y \in Visible <=> y \in Visible'
                     /\ y \in Visible => stamp'[y] = stamp[y]
  BY <1>1, <1>3 DEF CatalogTypeOK, Visible
<1>6. RowsStay
  BY <1>3, <1>4, <1>5 DEF RowsStay, CatalogTypeOK, Time
<1>7. \A y \in Row : stamp'[y] <= clock
  BY <1>1 DEF CatalogTypeOK, Time
<1> QED
  BY <1>3, <1>4, <1>5, <1>6, <1>7 DEF CatalogTypeOK, Visible

LEMMA AppearTypes ==
  ASSUME CatalogTypeOK, NEW x \in Row, Appear(x), UNCHANGED scene
  PROVE  /\ CatalogTypeOK' /\ row[x] = "inserting"
         /\ \A y \in Row : y # x => row'[y] = row[y] /\ current'[y] = current[y]
         /\ row'[x] = "live" =>
              current'[x] = IF kindOf[x] = "product" THEN {x} ELSE {}
         /\ row'[x] \in {"live", "refused"}
         /\ UNCHANGED <<clock, stamp, rev, change, raced>>
<1>1. /\ row[x] = "inserting" /\ UNCHANGED <<clock, stamp, rev, change, raced>>
      /\ \/ row' = [row EXCEPT ![x] = "live"]
            /\ current' = [current EXCEPT ![x] = IF kindOf[x] = "product" THEN {x} ELSE {}]
         \/ row' = [row EXCEPT ![x] = "refused"] /\ current' = current
  BY DEF Appear
<1>2. row' \in [Row -> RowStates] /\ current' \in [Row -> SUBSET Price]
  BY <1>1 DEF CatalogTypeOK, RowStates, Price
<1>3. \A y \in Row : (y # x => row'[y] = row[y] /\ current'[y] = current[y])
                     /\ row'[x] \in {"live", "refused"}
                     /\ (row'[x] = "live" =>
                           current'[x] = IF kindOf[x] = "product" THEN {x} ELSE {})
  BY <1>1 DEF CatalogTypeOK
<1>4. \A y \in Visible : y \in Visible'
  BY <1>1, <1>3 DEF Visible
<1> QED
  BY <1>1, <1>2, <1>3, <1>4 DEF CatalogTypeOK, Visible

\* A request that changes or removes one.
LEMMA ChangeTypes ==
  ASSUME CatalogTypeOK, NEW c \in Change, ChangeStep(c), UNCHANGED scene
  PROVE  CatalogTypeOK' /\ RowsStay /\ Changes(c) /\ clock' = clock
<1>0. change \in [Change -> Record] /\ UNCHANGED <<clock, stamp>>
  BY CatalogTypesOf
  DEF ChangeStep, BeginUpdate, BeginRemoval, UpdateProduct, UpdateCustomer, UpdateSupplier,
      UpdateEmployee, Update, ClosePrice, OpenPrice, RemoveProduct, RemoveCustomer,
      RemoveSupplier, RemoveEmployee, RemoveMaterial, Remove, ChangeFails
<1>1. Changes(c) /\ (At(c)' \notin {"new", "done"} => On(c)' \in Visible)
  <2>1. CASE \E x \in Row : BeginUpdate(c, x)
    <3>1. PICK x \in Row : BeginUpdate(c, x)
      BY <2>1
    <3>0. PICK priced \in {kindOf[x] = "product", FALSE} :
            \E old \in (IF priced /\ current[x] # {} THEN current[x] ELSE {NoPrice}) :
              change' = [change EXCEPT ![c] =
                           [at |-> "updating", priced |-> priced, on |-> x, old |-> old]]
      BY <3>1 DEF BeginUpdate
    <3>2. PICK old \in (IF priced /\ current[x] # {} THEN current[x] ELSE {NoPrice}) :
            change' = [change EXCEPT ![c] =
                         [at |-> "updating", priced |-> priced, on |-> x, old |-> old]]
      BY <3>0
    <3>3. old \in Price \cup {NoPrice} /\ priced \in BOOLEAN /\ x \in Visible
      BY <3>1, <3>2 DEF CatalogTypeOK, BeginUpdate, Visible
    <3> QED
      BY <1>0, <3>2, <3>3, UpdateRecord
  <2>2. CASE \E x \in Row : BeginRemoval(c, x)
    <3>1. PICK x \in Row : BeginRemoval(c, x)
      BY <2>2
    <3>2. change' = [change EXCEPT ![c] = [Blank("removing") EXCEPT !.on = x]] /\ x \in Visible
      BY <3>1 DEF BeginRemoval, Visible
    <3> QED
      BY <1>0, <3>2, RemovalRecord
  <2>3. CASE Becomes(c, "done")
    BY <1>0, <2>3, DoneRecord
  <2>4. CASE (Becomes(c, "closing") \/ Becomes(c, "opening")) /\ At(c) \in {"updating", "closing"}
    <3>1. Changes(c) /\ On(c)' = On(c)
      BY <1>0, <2>4, NextRecord
    <3> QED
      BY <2>4, <3>1 DEF CatalogTypeOK
  <2> QED
    BY <2>1, <2>2, <2>3, <2>4
    DEF ChangeStep, UpdateProduct, UpdateCustomer, UpdateSupplier, UpdateEmployee, Update,
        ClosePrice, OpenPrice, RemoveProduct, RemoveCustomer, RemoveSupplier, RemoveEmployee,
        RemoveMaterial, Remove, ChangeFails
<1>2. row' = row \/ (At(c) = "removing" /\ row' = [row EXCEPT ![On(c)] = "removed"])
  BY DEF ChangeStep, BeginUpdate, BeginRemoval, UpdateProduct, UpdateCustomer, UpdateSupplier,
      UpdateEmployee, Update, ClosePrice, OpenPrice, RemoveProduct, RemoveCustomer,
      RemoveSupplier, RemoveEmployee, RemoveMaterial, Remove, ChangeFails
<1>3. /\ row' \in [Row -> RowStates]
      /\ \A x \in Row : (row'[x] = "live" => row[x] = "live") /\ (x \in Visible <=> x \in Visible')
  BY <1>2 DEF CatalogTypeOK, RowStates, Visible
<1>4. rev' \in [Row -> SUBSET Change] /\ \A x \in Row : rev[x] \subseteq rev'[x]
  <2>1. rev' = rev \/ rev' = [rev EXCEPT ![On(c)] = @ \cup {c}]
    BY DEF ChangeStep, BeginUpdate, BeginRemoval, UpdateProduct, UpdateCustomer,
        UpdateSupplier, UpdateEmployee, Update, ClosePrice, OpenPrice, RemoveProduct,
        RemoveCustomer, RemoveSupplier, RemoveEmployee, RemoveMaterial, Remove, ChangeFails
  <2> QED
    BY <2>1 DEF CatalogTypeOK
<1>5. current' \in [Row -> SUBSET Price]
  <2>1. \/ current' = current
        \/ current' = [current EXCEPT ![On(c)] = @ \ {change[c].old}]
        \/ current' = [current EXCEPT ![On(c)] = @ \cup {c}]
    BY DEF ChangeStep, BeginUpdate, BeginRemoval, UpdateProduct, UpdateCustomer,
        UpdateSupplier, UpdateEmployee, Update, ClosePrice, OpenPrice, RemoveProduct,
        RemoveCustomer, RemoveSupplier, RemoveEmployee, RemoveMaterial, Remove, ChangeFails
  <2>2. c \in Price
    BY DEF Price
  <2> QED
    BY <2>1, <2>2 DEF CatalogTypeOK
<1>6. raced' \subseteq Row
  <2>1. \/ raced' = raced \/ \E x \in Row : raced' = raced \cup {x}
        \/ At(c) = "opening" /\ raced' = raced \cup {On(c)}
    BY DEF ChangeStep, BeginUpdate, BeginRemoval, UpdateProduct, UpdateCustomer,
        UpdateSupplier, UpdateEmployee, Update, ClosePrice, OpenPrice, RemoveProduct,
        RemoveCustomer, RemoveSupplier, RemoveEmployee, RemoveMaterial, Remove, ChangeFails
  <2> QED
    BY <2>1 DEF CatalogTypeOK, Visible
<1>7. RowsStay
  BY <1>0, <1>3, <1>4 DEF RowsStay, CatalogTypeOK, Time
<1>8. \A d \in Change : At(d)' \notin {"new", "done"} => On(d)' \in Visible'
  BY <1>1, <1>3 DEF Changes, CatalogTypeOK, Visible
<1> QED
  BY <1>0, <1>1, <1>3, <1>4, <1>5, <1>6, <1>7, <1>8 DEF CatalogTypeOK, Changes, Record

-----------------------------------------------------------------------------
(* Prices.                                                                 *)

\* A change under way that has to do with a price is a product's.
PricingOK ==
  \A c \in Change : /\ At(c) \in {"closing", "opening"} => change[c].priced
                    /\ change[c].priced => kindOf[On(c)] = "product"

\* Of the changes of a price one is under way at most, and it has found the current one.
PriceOf(x) ==
  x \notin raced =>
    /\ \A c, d \in Change : Pricing(c, x) /\ Pricing(d, x) => c = d
    /\ x \in Visible /\ kindOf[x] = "product" =>
         /\ \A c \in Change : Pricing(c, x) =>
              current[x] = IF At(c) = "opening" THEN {} ELSE {change[c].old}
         /\ (\A c \in Change : Pricing(c, x) => At(c) # "opening") =>
              \E p \in Price : current[x] = {p}

PriceInv == PricingOK /\ \A x \in Row : PriceOf(x)

\* A price stays as it was found where nothing of it changes.
LEMMA PriceKept ==
  ASSUME NEW x \in Row, PriceOf(x), UNCHANGED <<scene, raced>>,
         x \in Visible' => x \in Visible, x \in Visible => current'[x] = current[x],
         \A c \in Change : /\ Pricing(c, x)' <=> Pricing(c, x)
                           /\ Pricing(c, x) => /\ At(c)' = At(c)
                                               /\ change'[c].old = change[c].old
  PROVE  PriceOf(x)'
BY DEF PriceOf

LEMMA PriceOfTick ==
  ASSUME CatalogTypeOK, PriceInv, UNCHANGED <<scene, row, current, change, raced>>
  PROVE  PriceInv'
BY DEF PriceInv, PricingOK, PriceOf, Pricing, Visible

LEMMA PriceOfRow ==
  ASSUME CatalogTypeOK, PriceInv, NEW x \in Row, RowStep(x), UNCHANGED scene
  PROVE  PriceInv'
<1>1. RowsStay /\ UNCHANGED <<current, change, raced>>
  BY RowTypes
<1>2. ASSUME NEW y \in Row PROVE PriceOf(y)'
  <2>1. PriceOf(y) /\ (y \in Visible' => y \in Visible)
    BY <1>1 DEF PriceInv, RowsStay
  <2>2. \A c \in Change : (Pricing(c, y)' <=> Pricing(c, y)) /\ At(c)' = At(c)
    BY <1>1 DEF Pricing
  <2> QED
    BY <1>1, <2>1, <2>2, PriceKept
<1> QED
  BY <1>1, <1>2 DEF PriceInv, PricingOK

LEMMA PriceOfAppear ==
  ASSUME CatalogTypeOK, PriceInv, NEW x \in Row, Appear(x), UNCHANGED scene
  PROVE  PriceInv'
<1>1. /\ row[x] = "inserting" /\ UNCHANGED <<change, raced>>
      /\ \A y \in Row : y # x => row'[y] = row[y] /\ current'[y] = current[y]
      /\ row'[x] = "live" =>
           current'[x] = IF kindOf[x] = "product" THEN {x} ELSE {}
      /\ row'[x] \in {"live", "refused"}
  BY AppearTypes
<1>2. ASSUME NEW y \in Row, y # x PROVE PriceOf(y)'
  <2>1. PriceOf(y) /\ (y \in Visible' => y \in Visible)
    BY <1>1, <1>2 DEF PriceInv, Visible
  <2>2. \A c \in Change : (Pricing(c, y)' <=> Pricing(c, y)) /\ At(c)' = At(c)
    BY <1>1 DEF Pricing
  <2> QED
    BY <1>1, <1>2, <2>1, <2>2, PriceKept
<1>3. PriceOf(x)'
  <2>1. \A c \in Change : ~Pricing(c, x)'
    BY <1>1 DEF Pricing, CatalogTypeOK, Visible
  <2>2. x \in Visible' => row'[x] = "live"
    BY <1>1 DEF Visible
  <2>3. x \in Price
    BY DEF Price
  <2> QED
    BY <1>1, <2>1, <2>2, <2>3 DEF PriceOf
<1> QED
  BY <1>1, <1>2, <1>3 DEF PriceInv, PricingOK

\* Change c ends, or goes on without a price.
LEMMA PriceNotTouched ==
  ASSUME CatalogTypeOK, PriceInv, NEW c \in Change, Changes(c), RowsStay, UNCHANGED <<scene, current>>,
         \A x \in Row : ~Pricing(c, x)',
         raced' = raced \/ (At(c) = "opening" /\ raced' = raced \cup {On(c)}),
         At(c) = "opening" => raced' = raced \cup {On(c)},
         ~change'[c].priced, At(c)' \notin {"closing", "opening"}
  PROVE  PriceInv'
<1>1. PricingOK'
  BY DEF PriceInv, PricingOK, Changes
<1>2. ASSUME NEW x \in Row PROVE PriceOf(x)'
  <2> SUFFICES ASSUME x \notin raced' PROVE PriceOf(x)'
    BY DEF PriceOf
  <2>1. PriceOf(x) /\ x \notin raced /\ (x \in Visible' => x \in Visible)
    BY DEF PriceInv, RowsStay
  <2>2. Pricing(c, x) => At(c) \in {"updating", "closing"}
    BY DEF Pricing
  <2>3. \A d \in Change : d # c => (Pricing(d, x)' <=> Pricing(d, x)) /\ change'[d] = change[d]
    BY DEF Changes, Pricing
  <2>4. \A d, e \in Change : Pricing(d, x)' /\ Pricing(e, x)' => d = e
    BY <2>1, <2>3 DEF PriceOf
  <2>5. ASSUME x \in Visible', kindOf[x] = "product"
        PROVE  /\ \A d \in Change : Pricing(d, x)' =>
                    current[x] = IF At(d)' = "opening" THEN {} ELSE {change'[d].old}
               /\ (\A d \in Change : Pricing(d, x)' => At(d)' # "opening") =>
                    \E p \in Price : current[x] = {p}
    <3>1. /\ \A d \in Change : Pricing(d, x) =>
                current[x] = IF At(d) = "opening" THEN {} ELSE {change[d].old}
          /\ (\A d \in Change : Pricing(d, x) => At(d) # "opening") =>
               \E p \in Price : current[x] = {p}
      BY <2>1, <2>5 DEF PriceOf
    <3> QED
      BY <2>2, <2>3, <3>1
  <2> QED
    BY <2>4, <2>5 DEF PriceOf
<1> QED
  BY <1>1, <1>2 DEF PriceInv

\* A row whose price c does not change sees none of it.
LEMMA PriceElsewhere ==
  ASSUME CatalogTypeOK, PriceInv, NEW c \in Change, Changes(c), RowsStay, UNCHANGED <<scene, raced>>,
         NEW x \in Row, ~Pricing(c, x), ~Pricing(c, x)', current'[x] = current[x]
  PROVE  PriceOf(x)'
<1>1. PriceOf(x) /\ (x \in Visible' => x \in Visible)
  BY DEF PriceInv, RowsStay
<1>2. \A d \in Change : /\ Pricing(d, x)' <=> Pricing(d, x)
                        /\ Pricing(d, x) => At(d)' = At(d) /\ change'[d].old = change[d].old
  BY DEF Changes, Pricing
<1> QED
  BY <1>1, <1>2, PriceKept

\* Change c is the only one of the price of x, which it has found.
LEMMA PriceFound ==
  ASSUME CatalogTypeOK, PriceInv, NEW c \in Change, Pricing(c, On(c)), On(c) \notin raced
  PROVE  /\ On(c) \in Row /\ On(c) \in Visible /\ kindOf[On(c)] = "product"
         /\ \A d \in Change : Pricing(d, On(c)) => d = c
         /\ current[On(c)] = IF At(c) = "opening" THEN {} ELSE {change[c].old}
         /\ At(c) # "opening" => change[c].old \in Price
<1>1. On(c) \in Visible /\ On(c) \in Row /\ change[c].priced
  BY DEF Pricing, CatalogTypeOK, Visible
<1>2. kindOf[On(c)] = "product" /\ PriceOf(On(c))
  BY <1>1 DEF PriceInv, PricingOK
<1>3. current[On(c)] = IF At(c) = "opening" THEN {} ELSE {change[c].old}
  BY <1>1, <1>2 DEF PriceOf
<1>4. current[On(c)] \subseteq Price
  BY <1>1 DEF CatalogTypeOK
<1>5. \A d \in Change : Pricing(d, On(c)) => d = c
  BY <1>2 DEF PriceOf
<1> QED
  BY <1>1, <1>2, <1>3, <1>4, <1>5

LEMMA PriceOfUpdate ==
  ASSUME CatalogTypeOK, PriceInv, NEW c \in Change, UpdateProduct(c), change[c].priced,
         RowsStay, UNCHANGED scene
  PROVE  PriceInv'
<1> DEFINE st == IF change[c].old = NoPrice THEN "opening" ELSE "closing"
<1>1. /\ At(c) = "updating" /\ UNCHANGED <<current, raced>>
      /\ Becomes(c, st)
  BY DEF UpdateProduct, Update
<1>2. /\ Changes(c) /\ At(c)' = st /\ On(c)' = On(c)
      /\ change'[c].priced = change[c].priced /\ change'[c].old = change[c].old
  BY <1>1, NextRecord, CatalogTypesOf
<1> HIDE DEF st
<1>3. PricingOK'
  <2>1. kindOf[On(c)] = "product" /\ UNCHANGED kindOf
    BY DEF PriceInv, PricingOK
  <2>2. ASSUME NEW d \in Change, d # c
        PROVE  /\ At(d)' \in {"closing", "opening"} => change'[d].priced
               /\ change'[d].priced => kindOf[On(d)'] = "product"
    BY <1>2, <2>2 DEF PriceInv, PricingOK, Changes
  <2> QED
    BY <1>2, <2>1, <2>2 DEF PricingOK
<1>4. ASSUME NEW x \in Row, x # On(c) PROVE PriceOf(x)'
  BY <1>1, <1>2, <1>4, PriceElsewhere DEF Pricing
<1>5. ASSUME NEW x \in Row, x = On(c), x \notin raced PROVE PriceOf(x)'
  <2>0. Pricing(c, On(c))
    BY <1>1 DEF Pricing
  <2>1. /\ On(c) \in Visible
        /\ \A d \in Change : Pricing(d, On(c)) => d = c
        /\ current[On(c)] = {change[c].old} /\ change[c].old \in Price
    BY <1>1, <1>5, <2>0, PriceFound
  <2>2. st = "closing"
    BY <2>1 DEF st
  <2>3. \A d \in Change : d # c => ~Pricing(d, x)'
    BY <1>2, <1>5, <2>1 DEF Changes, Pricing
  <2> QED
    BY <1>1, <1>2, <1>5, <2>1, <2>2, <2>3 DEF PriceOf
<1>6. ASSUME NEW x \in Row, x \in raced' PROVE PriceOf(x)'
  BY <1>6 DEF PriceOf
<1> QED
  BY <1>1, <1>3, <1>4, <1>5, <1>6 DEF PriceInv

LEMMA PriceOfClose ==
  ASSUME CatalogTypeOK, PriceInv, NEW c \in Change, ClosePrice(c), RowsStay, UNCHANGED scene
  PROVE  PriceInv'
<1>1. /\ At(c) = "closing" /\ UNCHANGED raced
      /\ current' = [current EXCEPT ![On(c)] = @ \ {change[c].old}]
      /\ Becomes(c, "opening")
  BY DEF ClosePrice
<1>2. /\ Changes(c) /\ At(c)' = "opening" /\ On(c)' = On(c)
      /\ change'[c].priced = change[c].priced /\ change'[c].old = change[c].old
  BY <1>1, NextRecord, CatalogTypesOf
<1>3. PricingOK' /\ change[c].priced
  BY <1>1, <1>2 DEF PriceInv, PricingOK, Changes
<1>4. ASSUME NEW x \in Row, x # On(c) PROVE PriceOf(x)'
  <2>1. current'[x] = current[x]
    BY <1>1, <1>4 DEF CatalogTypeOK
  <2> QED
    BY <1>1, <1>2, <1>4, <2>1, PriceElsewhere DEF Pricing
<1>5. ASSUME NEW x \in Row, x = On(c), x \notin raced PROVE PriceOf(x)'
  <2>0. Pricing(c, On(c))
    BY <1>1, <1>3 DEF Pricing
  <2>1. /\ \A d \in Change : Pricing(d, On(c)) => d = c
        /\ current[On(c)] = {change[c].old}
    BY <1>1, <1>5, <2>0, PriceFound
  <2>2. current'[x] = {}
    BY <1>1, <1>5, <2>1 DEF CatalogTypeOK
  <2>3. \A d \in Change : d # c => ~Pricing(d, x)'
    BY <1>2, <1>5, <2>1 DEF Changes, Pricing
  <2>4. Pricing(c, x)'
    BY <1>2, <1>3, <1>5 DEF Pricing
  <2> QED
    BY <1>2, <1>5, <2>2, <2>3, <2>4 DEF PriceOf
<1>6. ASSUME NEW x \in Row, x \in raced' PROVE PriceOf(x)'
  BY <1>6 DEF PriceOf
<1> QED
  BY <1>1, <1>3, <1>4, <1>5, <1>6 DEF PriceInv

LEMMA PriceOfOpen ==
  ASSUME CatalogTypeOK, PriceInv, NEW c \in Change, OpenPrice(c), RowsStay, UNCHANGED scene
  PROVE  PriceInv'
<1>1. /\ At(c) = "opening" /\ UNCHANGED raced
      /\ current' = [current EXCEPT ![On(c)] = @ \cup {c}]
      /\ Becomes(c, "done")
  BY DEF OpenPrice
<1>2. Changes(c) /\ At(c)' = "done" /\ ~change'[c].priced
  BY <1>1, DoneRecord, CatalogTypesOf
<1>3. PricingOK' /\ change[c].priced
  BY <1>1, <1>2 DEF PriceInv, PricingOK, Changes
<1>4. ASSUME NEW x \in Row, x # On(c) PROVE PriceOf(x)'
  <2>1. current'[x] = current[x]
    BY <1>1, <1>4 DEF CatalogTypeOK
  <2> QED
    BY <1>1, <1>2, <1>4, <2>1, PriceElsewhere DEF Pricing
<1>5. ASSUME NEW x \in Row, x = On(c), x \notin raced PROVE PriceOf(x)'
  <2>0. Pricing(c, On(c))
    BY <1>1, <1>3 DEF Pricing
  <2>1. /\ \A d \in Change : Pricing(d, On(c)) => d = c
        /\ current[On(c)] = {}
    BY <1>1, <1>5, <2>0, PriceFound
  <2>2. current'[x] = {c} /\ c \in Price
    BY <1>1, <1>5, <2>1 DEF CatalogTypeOK, Price
  <2>3. \A d \in Change : ~Pricing(d, x)'
    BY <1>2, <1>5, <2>1 DEF Changes, Pricing
  <2> QED
    BY <2>2, <2>3 DEF PriceOf
<1>6. ASSUME NEW x \in Row, x \in raced' PROVE PriceOf(x)'
  BY <1>6 DEF PriceOf
<1> QED
  BY <1>1, <1>3, <1>4, <1>5, <1>6 DEF PriceInv

\* A change of the price begins.
LEMMA PriceOfBegin ==
  ASSUME CatalogTypeOK, PriceInv, NEW c \in Change, NEW x \in Row, BeginUpdate(c, x), RowsStay,
         UNCHANGED scene
  PROVE  PriceInv'
<1>1. /\ At(c) = "new" /\ row[x] = "live" /\ x \in Visible /\ UNCHANGED current
  BY DEF BeginUpdate, Visible
<1>2. PICK priced \in {kindOf[x] = "product", FALSE} :
        /\ \E old \in (IF priced /\ current[x] # {} THEN current[x] ELSE {NoPrice}) :
             change' = [change EXCEPT ![c] =
                          [at |-> "updating", priced |-> priced, on |-> x, old |-> old]]
        /\ raced' = IF priced /\ \E d \in Change : Pricing(d, x) THEN raced \cup {x} ELSE raced
  BY DEF BeginUpdate
<1>3. PICK old \in (IF priced /\ current[x] # {} THEN current[x] ELSE {NoPrice}) :
        change' = [change EXCEPT ![c] =
                     [at |-> "updating", priced |-> priced, on |-> x, old |-> old]]
  BY <1>2
<1>4. old \in Price \cup {NoPrice} /\ priced \in BOOLEAN
  BY <1>2, <1>3 DEF CatalogTypeOK
<1>5. /\ Changes(c) /\ At(c)' = "updating" /\ On(c)' = x
      /\ change'[c].priced = priced /\ change'[c].old = old
  BY <1>3, <1>4, UpdateRecord, CatalogTypesOf
<1>6. CASE ~priced
  BY <1>1, <1>2, <1>5, <1>6, PriceNotTouched DEF Pricing
<1>7. CASE priced
  <2>1. PricingOK'
    BY <1>2, <1>5, <1>7 DEF PriceInv, PricingOK, Changes
  <2>2. ASSUME NEW y \in Row, y # x PROVE PriceOf(y)'
    <3>1. PriceOf(y) /\ (y \in Visible' => y \in Visible) /\ (y \in raced' <=> y \in raced)
      BY <1>2, <2>2 DEF PriceInv, RowsStay
    <3>2. ~Pricing(c, y)' /\ ~Pricing(c, y)
      BY <1>1, <1>5, <2>2 DEF Pricing
    <3>3. \A d \in Change : d # c => (Pricing(d, y)' <=> Pricing(d, y)) /\ change'[d] = change[d]
      BY <1>5 DEF Changes, Pricing
    <3> QED
      BY <1>1, <3>1, <3>2, <3>3 DEF PriceOf
  <2>3. ASSUME x \notin raced' PROVE PriceOf(x)'
    <3>1. x \notin raced /\ \A d \in Change : ~Pricing(d, x)
      BY <1>2, <1>7, <2>3
    <3>2. PriceOf(x) /\ kindOf[x] = "product"
      BY <1>2, <1>7 DEF PriceInv
    <3>3. PICK p \in Price : current[x] = {p}
      BY <1>1, <3>1, <3>2 DEF PriceOf
    <3>4. old = p
      BY <1>3, <1>7, <3>3
    <3>5. \A d \in Change : d # c => ~Pricing(d, x)'
      BY <1>5, <3>1 DEF Changes, Pricing
    <3> QED
      BY <1>1, <1>5, <3>3, <3>4, <3>5 DEF PriceOf
  <2> QED
    BY <2>1, <2>2, <2>3 DEF PriceInv, PriceOf
<1> QED
  BY <1>6, <1>7

LEMMA PriceOfChange ==
  ASSUME CatalogTypeOK, PriceInv, NEW c \in Change, ChangeStep(c), UNCHANGED scene
  PROVE  PriceInv'
<1>0. RowsStay /\ change \in [Change -> Record]
  BY ChangeTypes, CatalogTypesOf
<1>1. CASE \E x \in Row : BeginUpdate(c, x)
  BY <1>0, <1>1, PriceOfBegin
<1>2. CASE \E x \in Row : BeginRemoval(c, x)
  <2>1. PICK x \in Row : BeginRemoval(c, x)
    BY <1>2
  <2>2. Changes(c) /\ At(c)' = "removing" /\ ~change'[c].priced
    BY <1>0, <2>1, RemovalRecord DEF BeginRemoval
  <2> QED
    BY <1>0, <2>1, <2>2, PriceNotTouched DEF BeginRemoval, Pricing
<1>3. CASE UpdateProduct(c) /\ change[c].priced
  BY <1>0, <1>3, PriceOfUpdate
<1>4. CASE ClosePrice(c)
  BY <1>0, <1>4, PriceOfClose
<1>5. CASE OpenPrice(c)
  BY <1>0, <1>5, PriceOfOpen
<1>6. CASE /\ Becomes(c, "done") /\ UNCHANGED current
           /\ IF At(c) = "opening" THEN raced' = raced \cup {On(c)} ELSE raced' = raced
  <2>1. Changes(c) /\ At(c)' = "done" /\ ~change'[c].priced
    BY <1>0, <1>6, DoneRecord
  <2> QED
    BY <1>0, <1>6, <2>1, PriceNotTouched DEF Pricing
<1>7. CASE UpdateProduct(c) /\ ~change[c].priced
  <2>1. Becomes(c, "done")
    BY <1>7 DEF UpdateProduct
  <2> QED
    BY <1>6, <1>7, <2>1 DEF UpdateProduct, Update
<1>8. CASE \/ UpdateCustomer(c) \/ UpdateSupplier(c) \/ UpdateEmployee(c)
           \/ RemoveProduct(c) \/ RemoveCustomer(c) \/ RemoveSupplier(c) \/ RemoveEmployee(c)
           \/ RemoveMaterial(c)
           \/ ChangeFails(c)
  BY <1>6, <1>8
  DEF UpdateCustomer, UpdateSupplier, UpdateEmployee, Update, RemoveProduct, RemoveCustomer,
      RemoveSupplier, RemoveEmployee, RemoveMaterial, Remove, ChangeFails
<1> QED
  BY <1>1, <1>2, <1>3, <1>4, <1>5, <1>7, <1>8 DEF ChangeStep

LEMMA PriceImplies == CatalogTypeOK /\ PriceInv => OneCurrentPrice
BY DEF PriceInv, PriceOf, OneCurrentPrice, Visible

-----------------------------------------------------------------------------
(* The phone's copy.                                                       *)

USE PhoneAssumption

Pull == [at : {"idle", "reading", "answered"}, todo : SUBSET Kinds,
         since : Time \cup {Never}, rows : [Row -> Copy \cup {NoCopy}], time : Time]

\* What a pull has gathered: every row in the tables it has read, and, once answered, up to its
\* time; and of the rows that phones have by now none.
PullOf(x) ==
  /\ (kindOf[x] \in Pulled /\ row[x] = "live" /\ x \notin late
        /\ pull.at = "reading" /\ kindOf[x] \notin pull.todo) =>
       pull.rows[x] # NoCopy \/ cache[x] # NoCopy
  /\ (kindOf[x] \in Pulled /\ row[x] = "live" /\ x \notin late
        /\ pull.at = "answered" /\ stamp[x] <= pull.time) =>
       (pull.rows[x] # NoCopy /\ kindOf[x] \in pull.todo) \/ cache[x] # NoCopy
  /\ pull.at # "idle" /\ pull.rows[x] # NoCopy /\ kindOf[x] # "method" =>
       pull.since = Never \/ stamp[x] > pull.since
  /\ (kindOf[x] \in Pulled /\ row[x] = "live" /\ x \notin late
        /\ lastPulledAt # Never /\ stamp[x] <= lastPulledAt) =>
       cache[x] # NoCopy

\* How old what it has gathered may be.
FreshOf(x) ==
  /\ pull.at = "reading" => asked[x] \subseteq rev[x]
  /\ pull.at # "idle" /\ pull.rows[x] # NoCopy =>
       kindOf[x] \in Pulled /\ asked[x] \subseteq pull.rows[x].rev
  /\ pull.at = "answered" /\ pull.rows[x] # NoCopy /\ kindOf[x] \notin pull.todo =>
       cache[x] = pull.rows[x]

PullInv == pull.time <= clock /\ \A x \in Row : PullOf(x) /\ FreshOf(x)

LEMMA CacheTypesOf ==
  CacheTypeOK <=>
  /\ pull \in Pull /\ cache \in [Row -> Copy \cup {NoCopy}]
  /\ lastPulledAt \in Time \cup {Never} /\ late \subseteq Row /\ asked \in [Row -> SUBSET Change]
  /\ lastPulledAt # Never => lastPulledAt <= clock
  /\ pull.at # "idle" => pull.since = lastPulledAt
  /\ \A x \in Row : (pull.rows[x] # NoCopy \/ cache[x] # NoCopy) => x \in Visible
BY DEF CacheTypeOK, Pull

LEMMA PulledKinds == CatalogTypeOK => Pulled \subseteq Kinds
<1> SUFFICES ASSUME CatalogTypeOK PROVE Pulled \subseteq Kinds
  OBVIOUS
<1>1. scene \in Scenes
  BY DEF CatalogTypeOK
<1>2. \A x \in Row : kindOf[x] \in Kinds
  BY <1>1, SceneAssumption
<1> QED
  BY <1>2 DEF Pulled

\* What is pulled does not change.
LEMMA PulledStays == UNCHANGED scene => Pulled' = Pulled
BY DEF Pulled

LEMMA IdlePull ==
  /\ Idle \in Pull /\ Idle.at = "idle" /\ Idle.time = 0
  /\ \A x \in Row : Idle.rows[x] = NoCopy
<1>1. NoRows \in [Row -> Copy \cup {NoCopy}] /\ \A x \in Row : NoRows[x] = NoCopy
  BY DEF NoRows
<1>2. 0 \in Time
  BY DEF Time
<1> QED
  BY <1>1, <1>2 DEF Idle, Pull

\* The rows move on, none of them newly seen.
LEMMA PullOfRows ==
  ASSUME CatalogTypeOK, CacheTypeOK, PullInv, RowsStay, UNCHANGED <<scene, cacheVars>>
  PROVE  CacheTypeOK' /\ PullInv'
<1>0. UNCHANGED <<scene, pull, cache, lastPulledAt, late, asked>> /\ Pulled' = Pulled
  BY PulledStays DEF cacheVars
<1>1. CacheTypeOK'
  <2>1. lastPulledAt # Never => lastPulledAt <= clock'
    BY DEF RowsStay, CacheTypeOK, CatalogTypeOK, Time
  <2> QED
    BY <1>0, <2>1 DEF RowsStay, CacheTypeOK
<1>2. pull.time <= clock'
  BY CacheTypesOf DEF PullInv, RowsStay, CatalogTypeOK, Time, Pull
<1>3. ASSUME NEW x \in Row PROVE PullOf(x)' /\ FreshOf(x)'
  <2>1. /\ PullOf(x) /\ FreshOf(x) /\ rev[x] \subseteq rev'[x]
        /\ row'[x] = "live" => row[x] = "live"
        /\ x \in Visible => stamp'[x] = stamp[x]
    BY DEF PullInv, RowsStay
  <2>2. row[x] = "live" \/ pull.rows[x] # NoCopy => x \in Visible
    BY DEF CacheTypeOK, Visible
  <2> QED
    BY <1>0, <2>1, <2>2 DEF PullOf, FreshOf
<1> QED
  BY <1>0, <1>1, <1>2, <1>3 DEF PullInv

\* A row comes to be seen, and is told to be late if the pull may have missed it.
LEMMA PullOfAppear ==
  ASSUME CatalogTypeOK, CacheTypeOK, PullInv, NEW x \in Row, RowAppears(x), UNCHANGED scene
  PROVE  CacheTypeOK' /\ PullInv'
<1>1. /\ row[x] = "inserting" /\ row'[x] \in {"live", "refused"}
      /\ \A y \in Row : y # x => row'[y] = row[y]
      /\ UNCHANGED <<clock, stamp, rev, pull, cache, lastPulledAt, asked>>
      /\ late' = IF AppearsLate(x) THEN late \cup {x} ELSE late
  BY AppearTypes DEF RowAppears
<1>0. scene' = scene /\ Pulled' = Pulled
  BY PulledStays
<1>2. pull.rows[x] = NoCopy /\ cache[x] = NoCopy
  BY <1>1 DEF CacheTypeOK, Visible
<1>3. CacheTypeOK'
  <2>1. late' \subseteq Row
    BY <1>1 DEF CacheTypeOK
  <2>2. \A y \in Visible : y \in Visible'
    BY <1>1 DEF Visible
  <2> QED
    BY <1>1, <2>1, <2>2 DEF CacheTypeOK
<1>4. ASSUME NEW y \in Row, y # x PROVE PullOf(y)'
  BY <1>0, <1>1, <1>4 DEF PullInv, PullOf
<1>5. PullOf(x)'
  <2>1. CASE AppearsLate(x)
    BY <1>0, <1>1, <1>2, <2>1 DEF PullOf
  <2>2. CASE ~AppearsLate(x)
    BY <1>0, <1>1, <1>2, <2>2 DEF PullOf, AppearsLate
  <2> QED
    BY <2>1, <2>2
<1>6. ASSUME NEW y \in Row PROVE FreshOf(y)'
  BY <1>0, <1>1 DEF PullInv, FreshOf
<1> QED
  BY <1>1, <1>3, <1>4, <1>5, <1>6 DEF PullInv

\* A pull begins.
LEMMA PullOfAsk ==
  ASSUME CatalogTypeOK, CacheTypeOK, PullInv, Ask, UNCHANGED <<scene, catalogVars>>
  PROVE  CacheTypeOK' /\ PullInv'
<1>0. UNCHANGED <<clock, row, stamp, rev, cache, lastPulledAt, late>> /\ asked' = rev
  BY DEF Ask, catalogVars
<1>1. /\ pull' \in Pull /\ pull'.at = "reading" /\ pull'.todo = Pulled
      /\ pull'.since = lastPulledAt /\ pull'.time = 0
      /\ \A x \in Row : pull'.rows[x] = NoCopy
  <2>1. pull' = [Idle EXCEPT !.at = "reading", !.todo = Pulled, !.since = lastPulledAt]
    BY DEF Ask
  <2>2. Pulled \subseteq Kinds /\ lastPulledAt \in Time \cup {Never}
    BY PulledKinds DEF CacheTypeOK
  <2>3. Idle.rows \in [Row -> Copy \cup {NoCopy}] /\ Idle.time \in Time
    BY IdlePull DEF Pull
  <2> QED
    BY <2>1, <2>2, <2>3, IdlePull DEF Pull
<1>2. CacheTypeOK'
  <2>1. Visible' = Visible /\ asked' \in [Row -> SUBSET Change]
    BY <1>0 DEF Visible, CatalogTypeOK
  <2> QED
    BY <1>0, <1>1, <2>1 DEF CacheTypeOK, Pull
<1>3. ASSUME NEW x \in Row PROVE PullOf(x)' /\ FreshOf(x)'
  <2>1. PullOf(x)
    BY DEF PullInv
  <2>2. PullOf(x)'
    BY <1>0, <1>1, <2>1, PulledStays DEF PullOf
  <2>3. FreshOf(x)'
    BY <1>0, <1>1 DEF FreshOf
  <2> QED
    BY <2>2, <2>3
<1>4. 0 <= clock
  BY DEF CatalogTypeOK, Time
<1> QED
  BY <1>0, <1>1, <1>2, <1>3, <1>4 DEF PullInv

\* A table is read.
LEMMA PullOfQuery ==
  ASSUME CatalogTypeOK, CacheTypeOK, PullInv, NEW t \in Pulled, Query(t),
         UNCHANGED <<scene, catalogVars>>
  PROVE  CacheTypeOK' /\ PullInv'
<1>0. UNCHANGED <<clock, row, stamp, rev, cache, lastPulledAt, late, asked>> /\ pull.at = "reading"
  BY DEF Query, catalogVars
<1>1. /\ pull' \in Pull /\ pull'.at = "reading" /\ pull'.todo = pull.todo \ {t}
      /\ pull'.since = pull.since /\ pull'.time = pull.time
      /\ \A x \in Row : pull'.rows[x] =
           IF kindOf[x] = t /\ Sought(x) THEN CopyOf(x) ELSE pull.rows[x]
  <2> DEFINE rows == [x \in Row |-> IF kindOf[x] = t /\ Sought(x) THEN CopyOf(x)
                                                              ELSE pull.rows[x]]
  <2>1. pull' = [pull EXCEPT !.todo = @ \ {t}, !.rows = rows]
    BY DEF Query
  <2>2. pull \in Pull
    BY CacheTypesOf
  <2>3. \A x \in Row : CopyOf(x) \in Copy
    BY DEF CopyOf, Copy, CatalogTypeOK
  <2>4. rows \in [Row -> Copy \cup {NoCopy}]
    BY <2>2, <2>3 DEF Pull
  <2>5. \A x \in Row : rows[x] = IF kindOf[x] = t /\ Sought(x) THEN CopyOf(x) ELSE pull.rows[x]
    OBVIOUS
  <2> HIDE DEF rows
  <2> QED
    BY <1>0, <2>1, <2>2, <2>4, <2>5 DEF Pull
<1>2. \A x \in Row : CopyOf(x) # NoCopy
  BY DEF CopyOf, Copy, CatalogTypeOK
<1>3. CacheTypeOK'
  <2>1. \A x \in Row : Sought(x) => x \in Visible
    BY DEF Sought, Visible
  <2>2. Visible' = Visible
    BY <1>0 DEF Visible
  <2> QED
    BY <1>0, <1>1, <2>1, <2>2 DEF CacheTypeOK, Pull
<1>4. ASSUME NEW x \in Row PROVE PullOf(x)'
  <2>1. PullOf(x) /\ pull.since = lastPulledAt
    BY <1>0 DEF PullInv, CacheTypeOK
  <2>2. CASE kindOf[x] = t /\ Sought(x)
    BY <1>0, <1>1, <1>2, <2>1, <2>2, PulledStays DEF PullOf, Sought
  <2>3. CASE kindOf[x] = t /\ ~Sought(x)
    <3>1. row[x] = "live" =>
            kindOf[x] # "method" /\ lastPulledAt # Never /\ ~(stamp[x] > lastPulledAt)
      BY <2>1, <2>3 DEF Sought
    <3>2. row[x] = "live" => stamp[x] <= lastPulledAt
      BY <3>1 DEF CatalogTypeOK, CacheTypeOK, Time
    <3> QED
      BY <1>0, <1>1, <2>1, <2>3, <3>1, <3>2, PulledStays DEF PullOf
  <2>4. CASE kindOf[x] # t
    BY <1>0, <1>1, <2>1, <2>4, PulledStays DEF PullOf
  <2> QED
    BY <2>2, <2>3, <2>4
<1>5. ASSUME NEW x \in Row PROVE FreshOf(x)'
  <2>1. FreshOf(x) /\ CopyOf(x).rev = rev[x] /\ Pulled' = Pulled
    BY PulledStays DEF PullInv, CopyOf
  <2>2. CASE kindOf[x] = t /\ Sought(x)
    BY <1>0, <1>1, <2>1, <2>2 DEF FreshOf
  <2>3. CASE ~(kindOf[x] = t /\ Sought(x))
    BY <1>0, <1>1, <2>1, <2>3 DEF FreshOf
  <2> QED
    BY <2>2, <2>3
<1> QED
  BY <1>0, <1>1, <1>3, <1>4, <1>5 DEF PullInv

\* The answer is there.
LEMMA PullOfAnswer ==
  ASSUME CatalogTypeOK, CacheTypeOK, PullInv, AnswerPull, UNCHANGED <<scene, catalogVars>>
  PROVE  CacheTypeOK' /\ PullInv'
<1>0. /\ UNCHANGED <<clock, row, stamp, rev, cache, lastPulledAt, late, asked>>
      /\ pull.at = "reading" /\ pull.todo = {}
  BY DEF AnswerPull, catalogVars
<1>1. /\ pull' \in Pull /\ pull'.at = "answered" /\ pull'.todo = Pulled
      /\ pull'.since = pull.since /\ pull'.time = clock /\ pull'.rows = pull.rows
  <2>1. pull' = [pull EXCEPT !.at = "answered", !.todo = Pulled, !.time = clock]
    BY DEF AnswerPull
  <2>2. pull \in Pull /\ Pulled \subseteq Kinds /\ clock \in Time
    BY CacheTypesOf, PulledKinds DEF CatalogTypeOK
  <2> QED
    BY <2>1, <2>2 DEF Pull
<1>2. CacheTypeOK'
  <2>1. Visible' = Visible
    BY <1>0 DEF Visible
  <2> QED
    BY <1>0, <1>1, <2>1 DEF CacheTypeOK, Pull
<1>3. ASSUME NEW x \in Row PROVE PullOf(x)' /\ FreshOf(x)'
  <2>1. PullOf(x) /\ FreshOf(x)
    BY DEF PullInv
  <2> QED
    BY <1>0, <1>1, <2>1, PulledStays DEF PullOf, FreshOf
<1>4. clock <= clock
  BY DEF CatalogTypeOK, Time
<1> QED
  BY <1>0, <1>1, <1>2, <1>3, <1>4 DEF PullInv

\* The pull ends, with what it has brought so far.
LEMMA PullOfEnd ==
  ASSUME CatalogTypeOK, CacheTypeOK, PullInv, pull' = Idle, UNCHANGED <<scene, catalogVars, cache, late, asked>>,
         \/ lastPulledAt' = lastPulledAt
         \/ pull.at = "answered" /\ pull.todo = {} /\ lastPulledAt' = pull.time
  PROVE  CacheTypeOK' /\ PullInv'
<1>0. UNCHANGED <<clock, row, stamp, rev, asked>>
  BY DEF catalogVars
<1>1. /\ pull' \in Pull /\ pull'.at = "idle" /\ pull'.time = 0
      /\ \A x \in Row : pull'.rows[x] = NoCopy
  BY IdlePull
<1>2. CacheTypeOK'
  <2>1. Visible' = Visible
    BY <1>0 DEF Visible
  <2>2. pull.time \in Time /\ pull.time <= clock
    BY CacheTypesOf DEF PullInv, Pull
  <2> QED
    BY <1>0, <1>1, <2>1, <2>2 DEF CacheTypeOK, Pull
<1>3. ASSUME NEW x \in Row PROVE PullOf(x)' /\ FreshOf(x)'
  <2>1. PullOf(x) /\ FreshOf(x)
    BY DEF PullInv
  <2> QED
    BY <1>0, <1>1, <2>1, PulledStays DEF PullOf, FreshOf
<1>4. 0 <= clock
  BY DEF CatalogTypeOK, Time
<1> QED
  BY <1>0, <1>1, <1>2, <1>3, <1>4 DEF PullInv

\* A table is merged: what was cached before the time the phone has kept is not among it.
LEMMA PullOfMerge ==
  ASSUME CatalogTypeOK, CacheTypeOK, PullInv, NEW t \in Pulled, MergeChanges(t),
         UNCHANGED <<scene, catalogVars>>
  PROVE  CacheTypeOK' /\ PullInv'
<1>0. /\ UNCHANGED <<clock, row, stamp, lastPulledAt, late, asked>>
      /\ pull.at = "answered" /\ t \in pull.todo
  BY DEF MergeChanges, catalogVars
<1>1. /\ pull' \in Pull /\ pull'.at = "answered" /\ pull'.todo = pull.todo \ {t}
      /\ pull'.since = pull.since /\ pull'.time = pull.time /\ pull'.rows = pull.rows
  <2>1. pull' = [pull EXCEPT !.todo = @ \ {t}] /\ pull \in Pull
    BY CacheTypesOf DEF MergeChanges
  <2> QED
    BY <1>0, <2>1 DEF Pull
<1>2. \A x \in Row : cache'[x] = IF kindOf[x] = t /\ pull.rows[x] # NoCopy THEN pull.rows[x]
                                                                         ELSE cache[x]
  BY DEF MergeChanges, Held
<1>3. cache' \in [Row -> Copy \cup {NoCopy}]
  <2>1. pull.rows \in [Row -> Copy \cup {NoCopy}] /\ cache \in [Row -> Copy \cup {NoCopy}]
    BY DEF CacheTypeOK
  <2>2. \A x \in Row : cache'[x] \in Copy \cup {NoCopy}
    BY <1>2, <2>1
  <2>3. cache' = [x \in Row |-> IF x \in Held(t) THEN pull.rows[x] ELSE cache[x]]
    BY DEF MergeChanges
  <2> QED
    BY <2>2, <2>3
<1>4. CacheTypeOK'
  <2>1. Visible' = Visible
    BY <1>0 DEF Visible
  <2> QED
    BY <1>0, <1>1, <1>2, <1>3, <2>1 DEF CacheTypeOK, Pull
<1>5. ASSUME NEW x \in Row PROVE PullOf(x)' /\ FreshOf(x)'
  <2>1. PullOf(x) /\ FreshOf(x)
    BY DEF PullInv
  <2> QED
    BY <1>0, <1>1, <1>2, <2>1, PulledStays DEF PullOf, FreshOf
<1> QED
  BY <1>0, <1>1, <1>4, <1>5 DEF PullInv

LEMMA PullOfStep ==
  ASSUME CatalogTypeOK, CacheTypeOK, PullInv, PullStep, UNCHANGED <<scene, catalogVars>>
  PROVE  CacheTypeOK' /\ PullInv'
<1>1. CASE Remember \/ PullFails
  BY <1>1, PullOfEnd DEF Remember, PullFails
<1> QED
  BY <1>1, PullOfAsk, PullOfQuery, PullOfAnswer, PullOfMerge DEF PullStep

LEMMA PullImplies == PullInv => CacheComplete /\ MergedIsFresh
BY DEF PullInv, PullOf, FreshOf, CacheComplete, MergedIsFresh

-----------------------------------------------------------------------------
(* The suppliers.                                                          *)

LEMMA DebtNat == \A o \in Orders \cup {NoOrder} : DebtOf(o) \in Nat
<1>1. ASSUME NEW o \in Orders PROVE DebtOf(o) \in Nat
  <2>1. o.total \in Nat /\ PaidOf(o) \in Nat
    BY OrderAssumption DEF PaidOf
  <2> QED
    BY <2>1 DEF DebtOf
<1>2. DebtOf(NoOrder) \in Nat
  <2>1. NoOrder.total = 0 /\ PaidOf(NoOrder) = 0
    BY DEF NoOrder, PaidOf
  <2> QED
    BY <2>1 DEF DebtOf
<1> QED
  BY <1>1, <1>2

\* What a purchase or a payment comes to is a number.
LEMMA DocumentSums ==
  ASSUME SuppliersTypeOK
  PROVE  /\ \A p \in Purchase : Unpaid[p] = DebtOf(order[p]) /\ Unpaid[p] \in Int
         /\ \A q \in Payout : sum[q] \in Int
<1>1. ASSUME NEW p \in Purchase PROVE Unpaid[p] = DebtOf(order[p]) /\ Unpaid[p] \in Int
  <2>1. order[p] \in Orders \cup {NoOrder}
    BY DEF SuppliersTypeOK
  <2>2. Unpaid[p] = DebtOf(order[p])
    BY DEF Unpaid
  <2> QED
    BY <2>1, <2>2, DebtNat
<1>2. ASSUME NEW q \in Payout PROVE sum[q] \in Int
  <2>1. sum[q] \in Payments \cup {0}
    BY DEF SuppliersTypeOK
  <2>2. \A n \in Payments \cup {0} : n \in Int
    BY OrderAssumption
  <2>3. sum[q] \in Int
    BY <2>1, <2>2
  <2> QED
    BY <2>3
<1> QED
  BY <1>1, <1>2

LEMMA NumberTypes ==
  ASSUME NumbersOK, NEW p \in Doc, NextReads(p) \/ NextWrites(p) \/ NextThrows(p)
  PROVE  NumbersOK'
<1>1. CASE NextReads(p)
  BY <1>1 DEF NumbersOK, NextReads
<1>2. CASE NextWrites(p)
  <2>1. NextValue(seen[p]) \in Nat
    BY DEF NumbersOK, NextValue
  <2> HIDE DEF NextValue
  <2> QED
    BY <1>2, <2>1 DEF NumbersOK, NextWrites
<1>3. CASE NextThrows(p)
  BY <1>3 DEF NumbersOK, NextThrows, numberVars
<1> QED
  BY <1>1, <1>2, <1>3

LEMMA SupplierTypes ==
  ASSUME SuppliersTypeOK, SupplierStep
  PROVE  SuppliersTypeOK'
<1> USE SupplierAssumption
<1>1. ASSUME NEW p \in Purchase, NEW o \in Orders, NEW x \in Row \cup {NoRow}, CheckSupplier(p, o, x)
      PROVE  SuppliersTypeOK'
  BY <1>1 DEF CheckSupplier, PurchaseGoes, SuppliersTypeOK, NumbersOK, numberVars
<1>2. ASSUME NEW p \in Purchase, ReadPurchaseNumber(p) \/ WritePurchaseNumber(p)
      PROVE  SuppliersTypeOK'
  <2>1. NumbersOK'
    BY <1>2, NumberTypes DEF ReadPurchaseNumber, WritePurchaseNumber, SuppliersTypeOK
  <2> QED
    BY <1>2, <2>1 DEF ReadPurchaseNumber, WritePurchaseNumber, PurchaseGoes, SuppliersTypeOK
<1>3. ASSUME NEW p \in Purchase, CommitPurchase(p) PROVE SuppliersTypeOK'
  <2> DEFINE n == DebtOf(order[p])
  <2>1. n \in Int /\ balance \in [Row -> Int]
    BY DocumentSums DEF SuppliersTypeOK
  <2>2. balance' = [x \in Row |-> IF x = from[p] THEN balance[x] + n ELSE balance[x]]
    BY <1>3 DEF CommitPurchase
  <2> HIDE DEF n
  <2>3. balance' \in [Row -> Int]
    BY <2>1, <2>2
  <2>4. NumbersOK'
    BY <1>3 DEF CommitPurchase, SuppliersTypeOK, NumbersOK, numberVars
  <2>5. buying' = [buying EXCEPT ![p] = "committed"] /\ UNCHANGED <<order, from, paying, sum>>
    BY <1>3 DEF CommitPurchase, PurchaseGoes
  <2> QED
    BY <2>3, <2>4, <2>5 DEF SuppliersTypeOK
<1>4. ASSUME NEW p \in Purchase, PurchaseFails(p) PROVE SuppliersTypeOK'
  BY <1>4 DEF PurchaseFails, PurchaseGoes, SuppliersTypeOK, NumbersOK, numberVars
<1>5. ASSUME NEW q \in Payout, NEW x \in Row, NEW n \in Payments, BeginPayment(q, x, n)
      PROVE  SuppliersTypeOK'
  BY <1>5 DEF BeginPayment, SuppliersTypeOK, NumbersOK, numberVars
<1>6. ASSUME NEW q \in Payout, RecordPayment(q) PROVE SuppliersTypeOK'
  <2>1. sum[q] \in Int
    BY DocumentSums
  <2>2. balance \in [Row -> Int] /\ balance' = [balance EXCEPT ![from[q]] = @ - sum[q]]
    BY <1>6 DEF RecordPayment, SuppliersTypeOK
  <2> DEFINE n == sum[q]
             x == from[q]
  <2>3. n \in Int /\ balance' = [balance EXCEPT ![x] = @ - n]
    BY <2>1, <2>2
  <2> HIDE DEF n, x
  <2>4. balance' \in [Row -> Int]
    <3>1. \A y \in Row : balance'[y] = IF y = x THEN balance[y] - n ELSE balance[y]
      BY <2>2, <2>3
    <3>2. \A y \in Row : balance'[y] \in Int
      BY <2>2, <2>3, <3>1
    <3>3. balance' = [y \in Row |-> balance'[y]]
      BY <2>2, <2>3
    <3> QED
      BY <3>2, <3>3
  <2>5. NumbersOK'
    BY <1>6 DEF RecordPayment, SuppliersTypeOK, NumbersOK, numberVars
  <2> QED
    BY <1>6, <2>4, <2>5 DEF RecordPayment, SuppliersTypeOK
<1>7. ASSUME NEW q \in Payout, PaymentFails(q) PROVE SuppliersTypeOK'
  BY <1>7 DEF PaymentFails, SuppliersTypeOK, NumbersOK, numberVars
<1> QED
  BY <1>1, <1>2, <1>3, <1>4, <1>5, <1>6, <1>7 DEF SupplierStep

-----------------------------------------------------------------------------
(* What is owed to suppliers.                                              *)

\* What has been booked to the suppliers X, and what has been paid to them.
Purchases(X) == {p \in Purchase : buying[p] = "committed" /\ from[p] \in X}
Payouts(X)   == {q \in Payout : paying[q] = "committed" /\ from[q] \in X}

\* Of the requests finitely many have begun, so that there are the sums; and each balance is
\* what the documents say.
BalanceInv ==
  /\ IsFiniteSet({p \in Purchase : buying[p] # "new"})
  /\ IsFiniteSet({q \in Payout : paying[q] # "new"})
  /\ \A x \in Row : balance[x] = Bought({x}) - PaidTo({x})

LEMMA BookedSums ==
  ASSUME SuppliersTypeOK, BalanceInv, NEW X
  PROVE  /\ IsFiniteSet(Purchases(X)) /\ Bought(X) = SumFunctionOnSet(Unpaid, Purchases(X))
         /\ IsFiniteSet(Payouts(X))   /\ PaidTo(X) = SumFunctionOnSet(sum, Payouts(X))
         /\ Bought(X) \in Int /\ PaidTo(X) \in Int
<1>1. IsFiniteSet(Purchases(X)) /\ IsFiniteSet(Payouts(X))
  <2>1. /\ Purchases(X) \subseteq {p \in Purchase : buying[p] # "new"}
        /\ Payouts(X) \subseteq {q \in Payout : paying[q] # "new"}
    BY DEF Purchases, Payouts
  <2> QED
    BY <2>1, FS_Subset DEF BalanceInv
<1>2. /\ Bought(X) = SumFunctionOnSet(Unpaid, Purchases(X))
      /\ PaidTo(X) = SumFunctionOnSet(sum, Payouts(X))
  BY DEF Bought, PaidTo, Purchases, Payouts
<1>3. /\ \A p \in Purchases(X) : Unpaid[p] \in Int
      /\ \A q \in Payouts(X) : sum[q] \in Int
  BY DocumentSums DEF Purchases, Payouts
<1> QED
  BY <1>1, <1>2, <1>3, SumType

\* What is booked is what it was, as long as the same documents are.
LEMMA BoughtKept ==
  ASSUME SuppliersTypeOK, BalanceInv, NEW X, Purchases(X)' = Purchases(X),
         \A p \in Purchases(X) : order'[p] = order[p]
  PROVE  Bought(X)' = Bought(X)
<1>1. \A p \in Purchases(X) : Unpaid[p] = Unpaid'[p]
  BY DEF Unpaid, Purchases
<1>2. SumFunctionOnSet(Unpaid, Purchases(X)) = SumFunctionOnSet(Unpaid', Purchases(X))
  BY <1>1, BookedSums, SumSame
<1>3. Bought(X)' = SumFunctionOnSet(Unpaid', Purchases(X)')
  BY DEF Bought, Purchases
<1> QED
  BY <1>2, <1>3, BookedSums

LEMMA PaidKept ==
  ASSUME SuppliersTypeOK, BalanceInv, NEW X, Payouts(X)' = Payouts(X),
         \A q \in Payouts(X) : sum'[q] = sum[q]
  PROVE  PaidTo(X)' = PaidTo(X)
<1>1. SumFunctionOnSet(sum, Payouts(X)) = SumFunctionOnSet(sum', Payouts(X))
  BY BookedSums, SumSame
<1>2. PaidTo(X)' = SumFunctionOnSet(sum', Payouts(X)')
  BY DEF PaidTo, Payouts
<1> QED
  BY <1>1, <1>2, BookedSums

\* A step that commits nothing, and begins one request at most.
LEMMA BalanceQuiet ==
  ASSUME SuppliersTypeOK, BalanceInv, balance' = balance,
         \A p \in Purchase : /\ buying'[p] = "committed" <=> buying[p] = "committed"
                             /\ buying[p] = "committed" => /\ from'[p] = from[p]
                                                           /\ order'[p] = order[p],
         \A q \in Payout : /\ paying'[q] = "committed" <=> paying[q] = "committed"
                           /\ paying[q] = "committed" => /\ from'[q] = from[q]
                                                         /\ sum'[q] = sum[q],
         NEW r, \A p \in Purchase : buying[p] = "new" => buying'[p] = "new" \/ p = r,
         \A q \in Payout : paying[q] = "new" => paying'[q] = "new" \/ q = r
  PROVE  BalanceInv'
<1>1. \A X : Purchases(X)' = Purchases(X) /\ Payouts(X)' = Payouts(X)
  BY DEF Purchases, Payouts
<1>2. ASSUME NEW x \in Row PROVE balance'[x] = Bought({x})' - PaidTo({x})'
  <2>1. /\ \A p \in Purchases({x}) : order'[p] = order[p]
        /\ \A q \in Payouts({x}) : sum'[q] = sum[q]
    BY DEF Purchases, Payouts
  <2>2. Bought({x})' = Bought({x}) /\ PaidTo({x})' = PaidTo({x})
    BY <1>1, <2>1, BoughtKept, PaidKept
  <2> QED
    BY <2>2 DEF BalanceInv
<1>3. /\ IsFiniteSet({p \in Purchase : buying'[p] # "new"})
      /\ IsFiniteSet({q \in Payout : paying'[q] # "new"})
  <2> DEFINE P == {p \in Purchase : buying[p] # "new"}
             Q == {q \in Payout : paying[q] # "new"}
  <2>1. IsFiniteSet(P \cup {r}) /\ IsFiniteSet(Q \cup {r})
    BY FS_AddElement DEF BalanceInv
  <2>2. /\ {p \in Purchase : buying'[p] # "new"} \subseteq P \cup {r}
        /\ {q \in Payout : paying'[q] # "new"} \subseteq Q \cup {r}
    OBVIOUS
  <2> QED
    BY <2>1, <2>2, FS_Subset
<1> QED
  BY <1>2, <1>3 DEF BalanceInv

\* A purchase adds what it leaves unpaid to the balance of its supplier, and of no other.
LEMMA BalanceOfCommit ==
  ASSUME SuppliersTypeOK, BalanceInv, NEW p \in Purchase, CommitPurchase(p)
  PROVE  BalanceInv'
<1>0. /\ buying[p] = "committing" /\ buying' = [buying EXCEPT ![p] = "committed"]
      /\ balance' = [x \in Row |-> IF x = from[p] THEN balance[x] + DebtOf(order[p])
                                                  ELSE balance[x]]
      /\ UNCHANGED <<order, from, paying, sum>>
  BY DEF CommitPurchase, PurchaseGoes
<1>1. buying \in [Purchase -> {"new", "reading", "writing", "committing", "committed", "failed"}]
  BY DEF SuppliersTypeOK
<1>2. ASSUME NEW x \in Row PROVE balance'[x] = Bought({x})' - PaidTo({x})'
  <2>1. PaidTo({x})' = PaidTo({x})
    BY <1>0 DEF PaidTo
  <2>2. balance[x] = Bought({x}) - PaidTo({x}) /\ Bought({x}) \in Int /\ PaidTo({x}) \in Int
    BY BookedSums DEF BalanceInv
  <2>3. CASE x # from[p]
    <3>1. Purchases({x})' = Purchases({x}) /\ balance'[x] = balance[x]
      BY <1>0, <1>1, <2>3 DEF Purchases
    <3>2. Bought({x})' = Bought({x})
      BY <1>0, <3>1, BoughtKept
    <3> QED
      BY <2>1, <2>2, <3>1, <3>2
  <2>4. CASE x = from[p]
    <3>1. /\ Purchases({x})' = Purchases({x}) \cup {p} /\ p \notin Purchases({x})
          /\ balance'[x] = balance[x] + DebtOf(order[p])
      BY <1>0, <1>1, <2>4 DEF Purchases
    <3>2. Unpaid' = Unpaid
      BY <1>0 DEF Unpaid, DebtOf, PaidOf
    <3>3. Bought({x})' = SumFunctionOnSet(Unpaid, Purchases({x}) \cup {p})
      BY <3>1, <3>2 DEF Bought, Purchases
    <3>4. /\ Unpaid[p] = DebtOf(order[p]) /\ Unpaid[p] \in Int
          /\ \A e \in Purchases({x}) : Unpaid[e] \in Int
      BY DocumentSums DEF Purchases
    <3>5. /\ IsFiniteSet(Purchases({x}))
          /\ Bought({x}) = SumFunctionOnSet(Unpaid, Purchases({x}))
      BY BookedSums
    <3>6. SumFunctionOnSet(Unpaid, Purchases({x}) \cup {p})
            = Unpaid[p] + SumFunctionOnSet(Unpaid, Purchases({x}))
      BY <3>1, <3>4, <3>5, SumAdd
    <3> DEFINE k == Unpaid[p]
               m == Bought({x})
               n == PaidTo({x})
    <3>7. /\ balance'[x] = (m - n) + k /\ k \in Int /\ m \in Int /\ n \in Int
          /\ Bought({x})' = k + m /\ PaidTo({x})' = n
      BY <2>1, <2>2, <3>1, <3>3, <3>4, <3>5, <3>6, Zenon
    <3> HIDE DEF k, m, n
    <3>8. (m - n) + k = (k + m) - n
      BY <3>7
    <3> QED
      BY <3>7, <3>8, Zenon
  <2> QED
    BY <2>3, <2>4
<1>3. /\ {e \in Purchase : buying'[e] # "new"} = {e \in Purchase : buying[e] # "new"}
      /\ {q \in Payout : paying'[q] # "new"} = {q \in Payout : paying[q] # "new"}
  BY <1>0, <1>1
<1> QED
  BY <1>2, <1>3 DEF BalanceInv

\* A payment takes its sum off the balance of the supplier it is for, and of no other.
LEMMA BalanceOfPayment ==
  ASSUME SuppliersTypeOK, BalanceInv, NEW q \in Payout, RecordPayment(q)
  PROVE  BalanceInv'
<1>0. /\ paying[q] = "committing" /\ paying' = [paying EXCEPT ![q] = "committed"]
      /\ balance' = [balance EXCEPT ![from[q]] = @ - sum[q]]
      /\ UNCHANGED <<buying, order, from, sum>>
  BY DEF RecordPayment
<1>1. /\ paying \in [Payout -> {"new", "committing", "committed", "failed"}]
      /\ balance \in [Row -> Int]
  BY DEF SuppliersTypeOK
<1>2. ASSUME NEW x \in Row PROVE balance'[x] = Bought({x})' - PaidTo({x})'
  <2>1. Bought({x})' = Bought({x})
    BY <1>0 DEF Bought, Unpaid, DebtOf, PaidOf
  <2>2. balance[x] = Bought({x}) - PaidTo({x}) /\ Bought({x}) \in Int /\ PaidTo({x}) \in Int
    BY BookedSums DEF BalanceInv
  <2>3. CASE x # from[q]
    <3>1. Payouts({x})' = Payouts({x}) /\ balance'[x] = balance[x]
      BY <1>0, <1>1, <2>3 DEF Payouts
    <3>2. PaidTo({x})' = PaidTo({x})
      BY <1>0, <3>1, PaidKept
    <3> QED
      BY <2>1, <2>2, <3>1, <3>2
  <2>4. CASE x = from[q]
    <3>1. /\ Payouts({x})' = Payouts({x}) \cup {q} /\ q \notin Payouts({x})
          /\ balance'[x] = balance[x] - sum[q]
      BY <1>0, <1>1, <2>4 DEF Payouts
    <3>2. PaidTo({x})' = SumFunctionOnSet(sum, Payouts({x}) \cup {q})
      BY <1>0, <3>1 DEF PaidTo, Payouts
    <3>3. sum[q] \in Int /\ \A e \in Payouts({x}) : sum[e] \in Int
      BY DocumentSums DEF Payouts
    <3>4. /\ IsFiniteSet(Payouts({x}))
          /\ PaidTo({x}) = SumFunctionOnSet(sum, Payouts({x}))
      BY BookedSums
    <3>5. SumFunctionOnSet(sum, Payouts({x}) \cup {q})
            = sum[q] + SumFunctionOnSet(sum, Payouts({x}))
      BY <3>1, <3>3, <3>4, SumAdd
    <3> DEFINE k == sum[q]
               m == Bought({x})
               n == PaidTo({x})
    <3>6. /\ balance'[x] = (m - n) - k /\ k \in Int /\ m \in Int /\ n \in Int
          /\ PaidTo({x})' = k + n /\ Bought({x})' = m
      BY <2>1, <2>2, <3>1, <3>2, <3>3, <3>4, <3>5, Zenon
    <3> HIDE DEF k, m, n
    <3>7. (m - n) - k = m - (k + n)
      BY <3>6
    <3> QED
      BY <3>6, <3>7, Zenon
  <2> QED
    BY <2>3, <2>4
<1>3. /\ {e \in Purchase : buying'[e] # "new"} = {e \in Purchase : buying[e] # "new"}
      /\ {e \in Payout : paying'[e] # "new"} = {e \in Payout : paying[e] # "new"}
  BY <1>0, <1>1
<1> QED
  BY <1>2, <1>3 DEF BalanceInv

LEMMA BalanceOfStep ==
  ASSUME SuppliersTypeOK, BalanceInv, SupplierStep
  PROVE  BalanceInv'
<1>0. /\ buying \in [Purchase -> {"new", "reading", "writing", "committing", "committed", "failed"}]
      /\ paying \in [Payout -> {"new", "committing", "committed", "failed"}]
      /\ order \in [Purchase -> Orders \cup {NoOrder}]
      /\ from \in [Purchase \cup Payout -> Row \cup {NoRow}]
      /\ sum \in [Payout -> Payments \cup {0}]
  BY DEF SuppliersTypeOK
<1>1. ASSUME NEW p \in Purchase, NEW o \in Orders, NEW x \in Row \cup {NoRow}, CheckSupplier(p, o, x)
      PROVE  BalanceInv'
  BY <1>0, <1>1, BalanceQuiet, SupplierAssumption DEF CheckSupplier, PurchaseGoes
<1>2. ASSUME NEW p \in Purchase,
             ReadPurchaseNumber(p) \/ WritePurchaseNumber(p) \/ PurchaseFails(p)
      PROVE  BalanceInv'
  BY <1>0, <1>2, BalanceQuiet
  DEF ReadPurchaseNumber, WritePurchaseNumber, PurchaseFails, PurchaseGoes
<1>3. ASSUME NEW q \in Payout, NEW x \in Row, NEW n \in Payments, BeginPayment(q, x, n)
      PROVE  BalanceInv'
  BY <1>0, <1>3, BalanceQuiet, SupplierAssumption DEF BeginPayment
<1>4. ASSUME NEW q \in Payout, PaymentFails(q) PROVE BalanceInv'
  BY <1>0, <1>4, BalanceQuiet DEF PaymentFails
<1> QED
  BY <1>1, <1>2, <1>3, <1>4, BalanceOfCommit, BalanceOfPayment DEF SupplierStep

\* Steps of others leave all of it alone.
LEMMA BalanceStays ==
  ASSUME BalanceInv, UNCHANGED supplierVars
  PROVE  BalanceInv'
BY DEF BalanceInv, supplierVars, Bought, PaidTo, Unpaid, DebtOf, PaidOf

\* Balances by supplier add up to documents by supplier: those with a balance are among those
\* with a document, which are finitely many.
LEMMA BalancesAddUp ==
  ASSUME SuppliersTypeOK, BalanceInv
  PROVE  PayableAccounted
<1> DEFINE P    == Purchases(LiveSupplier)
           Q    == Payouts(LiveSupplier)
           L    == {from[d] : d \in P \cup Q}
           h    == [x \in L |-> Bought({x})]
           k    == [x \in L |-> PaidTo({x})]
           Pos  == {x \in LiveSupplier : balance[x] > 0}
           Neg  == {x \in LiveSupplier : balance[x] < 0}
           B(S) == SumFunctionOnSet(balance, S)
<1>1. /\ IsFiniteSet(P) /\ Bought(LiveSupplier) = SumFunctionOnSet(Unpaid, P)
      /\ IsFiniteSet(Q) /\ PaidTo(LiveSupplier) = SumFunctionOnSet(sum, Q)
  BY BookedSums
<1>2. IsFiniteSet(L) /\ L \subseteq LiveSupplier /\ LiveSupplier \subseteq Row
  <2>1. IsFiniteSet(P \cup Q)
    BY <1>1, FS_Union
  <2> DEFINE by == [d \in P \cup Q |-> from[d]]
  <2>2. by \in Surjection(P \cup Q, L)
    BY DEF Surjection
  <2> HIDE DEF by, P, Q, L
  <2>3. IsFiniteSet(L)
    BY <2>1, <2>2, FS_Surjection
  <2> QED
    BY <2>3 DEF P, Q, L, Purchases, Payouts, LiveSupplier, Supplier
<1>3. SumFunctionOnSet(h, L) = Bought(LiveSupplier)
  <2> DEFINE g == [x \in L |-> Purchases({x})]
  <2>1. /\ \A x \in L : g[x] \subseteq P
        /\ \A d \in P : \E x \in L : d \in g[x]
        /\ \A x, y \in L : x # y => g[x] \cap g[y] = {}
    BY <1>2 DEF Purchases
  <2>2. \A d \in P : Unpaid[d] \in Int
    BY DocumentSums DEF Purchases
  <2>3. \A x \in L : h[x] = SumFunctionOnSet(Unpaid, g[x])
    BY BookedSums
  <2> HIDE DEF P, L, g, h
  <2>4. SumFunctionOnSet(h, L) = SumFunctionOnSet(Unpaid, P)
    BY <1>1, <1>2, <2>1, <2>2, <2>3, SumByGroup
  <2> QED
    BY <1>1, <2>4
<1>4. SumFunctionOnSet(k, L) = PaidTo(LiveSupplier)
  <2> DEFINE g == [x \in L |-> Payouts({x})]
  <2>1. /\ \A x \in L : g[x] \subseteq Q
        /\ \A d \in Q : \E x \in L : d \in g[x]
        /\ \A x, y \in L : x # y => g[x] \cap g[y] = {}
    BY <1>2 DEF Payouts
  <2>2. \A d \in Q : sum[d] \in Int
    BY DocumentSums DEF Payouts
  <2>3. \A x \in L : k[x] = SumFunctionOnSet(sum, g[x])
    BY BookedSums
  <2> DEFINE s == sum
  <2>4. /\ \A d \in Q : s[d] \in Int
        /\ \A x \in L : k[x] = SumFunctionOnSet(s, g[x])
    BY <2>2, <2>3
  <2> HIDE DEF Q, L, g, k, s
  <2>5. IsFiniteSet(Q) /\ IsFiniteSet(L)
    BY <1>1, <1>2
  <2>6. SumFunctionOnSet(k, L) = SumFunctionOnSet(s, Q)
    BY <2>1, <2>4, <2>5, SumByGroup
  <2> QED
    BY <1>1, <2>6 DEF s
<1>5. \A x \in Row : balance[x] = Bought({x}) - PaidTo({x}) /\ balance[x] \in Int
  BY DEF BalanceInv, SuppliersTypeOK
<1>6. B(L) = Bought(LiveSupplier) - PaidTo(LiveSupplier)
  <2>1. /\ \A x \in L : h[x] \in Int
        /\ \A x \in L : k[x] \in Int
    BY BookedSums
  <2>2. \A x \in L : balance[x] = h[x] - k[x]
    BY <1>2, <1>5
  <2> HIDE DEF L, h, k
  <2> QED
    BY <1>2, <1>3, <1>4, <2>1, <2>2, SumMinus
<1>7. ASSUME NEW x \in LiveSupplier, x \notin L PROVE balance[x] = 0
  <2>1. Purchases({x}) = {} /\ Payouts({x}) = {}
    BY <1>7 DEF Purchases, Payouts
  <2>2. Bought({x}) = 0 /\ PaidTo({x}) = 0
    BY <2>1, BookedSums, SumEmpty
  <2> QED
    BY <1>2, <1>5, <2>2
<1>8. /\ Pos \cup Neg \subseteq L /\ Pos \cap Neg = {}
      /\ \A x \in L \ (Pos \cup Neg) : balance[x] = 0
  <2> HIDE DEF L
  <2>1. \A x \in LiveSupplier : balance[x] \in Int /\ (balance[x] # 0 => x \in L)
    BY <1>2, <1>5, <1>7
  <2> QED
    BY <1>2, <2>1
<1>9. B(Pos \cup Neg) = B(Pos) + B(Neg)
  <2>1. IsFiniteSet(Pos) /\ IsFiniteSet(Neg)
    BY <1>2, <1>8, FS_Subset
  <2>2. \A x \in Pos \cup Neg : balance[x] \in Int
    BY <1>2, <1>5
  <2> HIDE DEF Pos, Neg
  <2> QED
    BY <1>8, <2>1, <2>2, SumUnion
<1>10. B(L) = B(Pos \cup Neg)
  <2> DEFINE T == Pos \cup Neg
  <2>1. T \in SUBSET L /\ \A x \in T : balance[x] \in Int
    BY <1>2, <1>5, <1>8
  <2>2. \A x \in L \ T : balance[x] = 0
    BY <1>8
  <2> HIDE DEF L, T
  <2>3. SumFunctionOnSet(balance, L) = SumFunctionOnSet(balance, T)
    BY <1>2, <2>1, <2>2, SumRestrict
  <2> QED
    BY <2>3 DEF T
<1>11. DebtReport = B(Pos)
  BY DEF DebtReport
<1>12. DebtReport + B(Neg) = Bought(LiveSupplier) - PaidTo(LiveSupplier)
  <2> HIDE DEF B, Pos, Neg, L
  <2> QED
    BY <1>6, <1>9, <1>10, <1>11
<1> QED
  BY <1>5, <1>12 DEF PayableAccounted

\* The numbers of purchases are distinct as long as no call of next has set the counter back,
\* and who is to commit has one.
NumberedInv ==
  /\ NumbersDistinct
  /\ \A p \in Purchase : buying[p] = "committing" => docNumber[p] > 0

\* The unique index on docNumber finds nothing to refuse before the counter was set back.
RefusalNeedsRace ==
  ~rewound => \A p \in Purchase : buying[p] = "committing" => ~Taken(p)

LEMMA NumbersOfStep ==
  ASSUME SuppliersTypeOK, NumberedInv, SupplierStep
  PROVE  NumberedInv'
<1> USE SupplierAssumption DEF SuppliersTypeOK, NumbersOK
<1>1. ASSUME NEW p \in Purchase, buying[p] = "writing", NextWrites(p),
             PurchaseGoes(p, "committing")
      PROVE  NumberedInv'
  <2>0. /\ seen[p] \in Nat /\ lastValue \in Nat /\ docNumber \in [Purchase -> Nat]
        /\ lastValue' = seen[p] + 1 /\ docNumber' = [docNumber EXCEPT ![p] = seen[p] + 1]
        /\ rewound' = (rewound \/ lastValue # seen[p])
        /\ buying' = [buying EXCEPT ![p] = "committing"]
    BY <1>1 DEF NextWrites, NextValue, PurchaseGoes
  <2>1. NumbersDistinct'
    <3> SUFFICES ASSUME ~rewound' PROVE NumbersDistinct'
      BY DEF NumbersDistinct
    <3>1. seen[p] = lastValue /\ ~rewound
      BY <2>0
    <3> QED
      BY <2>0, <3>1 DEF NumberedInv, NumbersDistinct
  <2>2. \A x \in Purchase : buying'[x] = "committing" => docNumber'[x] > 0
    BY <2>0 DEF NumberedInv
  <2> QED
    BY <2>1, <2>2 DEF NumberedInv
<1>2. ASSUME UNCHANGED <<lastValue, docNumber, rewound>>,
             \A p \in Purchase : buying'[p] = "committing" => buying[p] = "committing"
      PROVE  NumberedInv'
  BY <1>2 DEF NumberedInv, NumbersDistinct
<1>3. ASSUME NEW p \in Purchase, NEW o \in Orders, NEW x \in Row \cup {NoRow}, CheckSupplier(p, o, x)
      PROVE  NumberedInv'
  BY <1>2, <1>3 DEF CheckSupplier, PurchaseGoes, numberVars
<1>4. ASSUME NEW p \in Purchase, ReadPurchaseNumber(p) \/ CommitPurchase(p) \/ PurchaseFails(p)
      PROVE  NumberedInv'
  BY <1>2, <1>4 DEF ReadPurchaseNumber, CommitPurchase, PurchaseFails, NextReads, PurchaseGoes,
     numberVars
<1>5. ASSUME NEW p \in Purchase, WritePurchaseNumber(p) PROVE NumberedInv'
  BY <1>1, <1>2, <1>5 DEF WritePurchaseNumber, NextThrows, PurchaseGoes, numberVars
<1>6. ASSUME NEW q \in Payout, NEW x \in Row, NEW n \in Payments, BeginPayment(q, x, n)
      PROVE  NumberedInv'
  BY <1>2, <1>6 DEF BeginPayment, numberVars
<1>7. ASSUME NEW q \in Payout, RecordPayment(q) \/ PaymentFails(q) PROVE NumberedInv'
  BY <1>2, <1>7 DEF RecordPayment, PaymentFails, numberVars
<1> QED
  BY <1>3, <1>4, <1>5, <1>6, <1>7 DEF SupplierStep

LEMMA NumbersStay ==
  ASSUME NumberedInv, UNCHANGED supplierVars
  PROVE  NumberedInv'
BY DEF NumberedInv, NumbersDistinct, supplierVars, numberVars

LEMMA NumbersImply ==
  ASSUME NumberedInv
  PROVE  RefusalNeedsRace
BY SupplierAssumption DEF NumberedInv, NumbersDistinct, RefusalNeedsRace, Taken

-----------------------------------------------------------------------------
(* The dumps.                                                              *)

USE DumpAssumption

Old(d)    == startedAt[d] + Retention < clock
Doomed(d) == file[d] = "removed" \/ \E e \in Dump : d \in outdated[e]

\* How far a dump is, what its record says, what its file is; and only old ones are doomed.
DumpOf(d) ==
  /\ backup[d] = "new" => status[d] = "none"
  /\ backup[d] \in {"new", "starting"} => file[d] = "none"
  /\ backup[d] \in {"starting", "dumping", "recording"} => status[d] = "PENDING"
  /\ backup[d] = "recording" => file[d] = "whole"
  /\ backup[d] \in {"auditing", "cleaning", "unlinking"} => status[d] = "SUCCESS"
  /\ status[d] = "SUCCESS" => file[d] \in {"whole", "removed"}
  /\ backup[d] \in {"dumping", "recording"} \/ status[d] = "SUCCESS" => before[d] \subseteq holds[d]
  /\ before[d] \subseteq Visible
  /\ Doomed(d) => Old(d) /\ backup[d] \notin {"new", "starting", "dumping", "recording"}

\* Once a dump was successful, there is a whole one that is younger than all that are doomed.
Stays(e) == file[e] = "whole" /\ \A x \in Dump : Doomed(x) => startedAt[x] < startedAt[e]
Used     == \E d \in Dump : status[d] = "SUCCESS" \/ Doomed(d)
OneStays == Used /\ dawdled = {} => \E e \in Dump : Stays(e)

DumpInv == (\A d \in Dump : DumpOf(d)) /\ OneStays

LEMMA BackupTypes ==
  ASSUME CatalogTypeOK, BackupsTypeOK, BackupStep, UNCHANGED catalogVars
  PROVE  BackupsTypeOK'
<1> PICK d \in Dump :
      \/ RunBackup(d) \/ StartDump(d) \/ DumpCloses(d)
      \/ RecordSuccess(d) \/ AuditBackup(d) \/ FindOld(d) \/ Unlink(d)
      \/ BackupThrows(d) \/ RecordFailure(d) \/ BackupStops(d)
  BY DEF BackupStep
<1>0. UNCHANGED clock /\ clock \in Time /\ clock <= clock /\ Visible \subseteq Row
  BY DEF catalogVars, CatalogTypeOK, Time, Visible
<1>1. CASE RunBackup(d)
  BY <1>0, <1>1 DEF RunBackup, BackupGoes, StatusIs, BackupsTypeOK
<1>2. CASE StartDump(d)
  BY <1>0, <1>2 DEF StartDump, BackupGoes, BackupsTypeOK
<1>3. CASE DumpCloses(d)
  BY <1>0, <1>3 DEF DumpCloses, BackupGoes, BackupsTypeOK
<1>4. CASE RecordSuccess(d)
  BY <1>0, <1>4 DEF RecordSuccess, BackupGoes, StatusIs, BackupsTypeOK
<1>5. CASE AuditBackup(d) \/ BackupThrows(d)
  BY <1>0, <1>5 DEF AuditBackup, BackupThrows, BackupGoes, BackupsTypeOK
<1>6. CASE FindOld(d)
  BY <1>0, <1>6 DEF FindOld, BackupGoes, BackupsTypeOK
<1>7. CASE Unlink(d)
  <2>1. file' \in [Dump -> {"none", "partial", "whole", "removed"}]
    BY <1>7 DEF Unlink, BackupsTypeOK
  <2> QED
    BY <1>0, <1>7, <2>1 DEF Unlink, BackupGoes, BackupsTypeOK
<1>8. CASE RecordFailure(d)
  BY <1>0, <1>8 DEF RecordFailure, BackupGoes, StatusIs, BackupsTypeOK
<1>9. CASE BackupStops(d)
  BY <1>0, <1>9 DEF BackupStops, BackupGoes, BackupsTypeOK
<1> QED
  BY <1>1, <1>2, <1>3, <1>4, <1>5, <1>6, <1>7, <1>8, <1>9

\* The clock and the rows.
LEMMA DumpOfRows ==
  ASSUME CatalogTypeOK, BackupsTypeOK, DumpInv, UNCHANGED backupVars,
         clock' \in Time, clock <= clock', \A x \in Row : x \in Visible => x \in Visible'
  PROVE  BackupsTypeOK' /\ DumpInv'
<1>0. UNCHANGED <<backup, status, startedAt, file, holds, outdated, before, dawdled>>
  BY DEF backupVars
<1>1. \A d \in Dump : startedAt[d] <= clock' /\ (Old(d) => Old(d)')
  BY <1>0 DEF Old, BackupsTypeOK, CatalogTypeOK, Time
<1>2. BackupsTypeOK'
  BY <1>0, <1>1 DEF BackupsTypeOK
<1>3. ASSUME NEW d \in Dump PROVE DumpOf(d)'
  <2>1. DumpOf(d) /\ (Old(d) => Old(d)') /\ (Doomed(d)' <=> Doomed(d))
    BY <1>0, <1>1 DEF DumpInv, Doomed
  <2>2. before[d] \subseteq Visible'
    BY <2>1 DEF DumpOf, BackupsTypeOK
  <2> QED
    BY <1>0, <2>1, <2>2 DEF DumpOf
<1>4. OneStays'
  <2>1. \A d \in Dump : Doomed(d)' <=> Doomed(d)
    BY <1>0 DEF Doomed
  <2> QED
    BY <1>0, <2>1 DEF DumpInv, OneStays, Used, Stays
<1> QED
  BY <1>2, <1>3, <1>4 DEF DumpInv

\* A dump that a step leaves alone.
LEMMA DumpKept ==
  ASSUME NEW d \in Dump, DumpOf(d), UNCHANGED <<clock, Visible>>,
         backup'[d] = backup[d], status'[d] = status[d], startedAt'[d] = startedAt[d],
         file'[d] = file[d], holds'[d] = holds[d], before'[d] = before[d],
         Doomed(d)' => Doomed(d)
  PROVE  DumpOf(d)'
BY DEF DumpOf, Old

LEMMA StaysKept ==
  ASSUME BackupsTypeOK, OneStays, Used' => Used, dawdled \subseteq dawdled',
         \A x \in Dump : /\ Doomed(x)' => Doomed(x)
                         /\ Doomed(x) \/ file[x] = "whole" => startedAt'[x] = startedAt[x]
                         /\ file[x] = "whole" /\ ~Doomed(x) => file'[x] = "whole"
  PROVE  OneStays'
<1> SUFFICES ASSUME Used', dawdled' = {} PROVE \E e \in Dump : Stays(e)'
  BY DEF OneStays
<1>1. PICK e \in Dump : Stays(e)
  BY DEF OneStays
<1>2. ~Doomed(e)
  BY <1>1 DEF Stays, BackupsTypeOK, Time
<1> QED
  BY <1>1, <1>2 DEF Stays

\* Dump d begins.
LEMMA DumpBegins ==
  ASSUME CatalogTypeOK, BackupsTypeOK, DumpInv, NEW d \in Dump, RunBackup(d), UNCHANGED catalogVars
  PROVE  DumpInv'
<1>0. /\ backup[d] = "new" /\ UNCHANGED <<clock, Visible, file, holds, outdated, dawdled>>
      /\ backup' = [backup EXCEPT ![d] = "starting"] /\ status' = [status EXCEPT ![d] = "PENDING"]
      /\ startedAt' = [startedAt EXCEPT ![d] = clock] /\ before' = [before EXCEPT ![d] = Visible]
  BY DEF RunBackup, BackupGoes, StatusIs, catalogVars, Visible
<1>1. \A x \in Dump : Doomed(x)' <=> Doomed(x)
  BY <1>0 DEF Doomed
<1>2. DumpOf(d) /\ ~Doomed(d) /\ file[d] = "none" /\ status[d] = "none"
  BY <1>0 DEF DumpInv, DumpOf
<1>3. \A x \in Dump : x # d => /\ backup'[x] = backup[x] /\ status'[x] = status[x]
                               /\ startedAt'[x] = startedAt[x] /\ before'[x] = before[x]
  BY <1>0 DEF BackupsTypeOK
<1>4. ASSUME NEW x \in Dump, x # d PROVE DumpOf(x)'
  BY <1>0, <1>1, <1>3, <1>4, DumpKept DEF DumpInv
<1>5. backup'[d] = "starting" /\ status'[d] = "PENDING" /\ before'[d] = Visible
  BY <1>0 DEF BackupsTypeOK
<1>6. DumpOf(d)'
  BY <1>0, <1>1, <1>2, <1>5 DEF DumpOf
<1>7. OneStays'
  <2>1. Used' => Used
    BY <1>1, <1>3, <1>5 DEF Used
  <2>2. \A x \in Dump : /\ Doomed(x)' => Doomed(x)
                        /\ Doomed(x) \/ file[x] = "whole" => startedAt'[x] = startedAt[x]
                        /\ file[x] = "whole" /\ ~Doomed(x) => file'[x] = "whole"
    BY <1>0, <1>1, <1>2, <1>3
  <2> QED
    BY <1>0, <2>1, <2>2, StaysKept DEF DumpInv
<1> QED
  BY <1>4, <1>6, <1>7 DEF DumpInv

\* pg_dump starts, closes, or is given up: its record is as pending as before.
LEMMA DumpGoesOn ==
  ASSUME CatalogTypeOK, BackupsTypeOK, DumpInv, NEW d \in Dump, StartDump(d) \/ DumpCloses(d),
         UNCHANGED catalogVars
  PROVE  DumpInv'
<1>0. /\ backup[d] \in {"starting", "dumping"}
      /\ UNCHANGED <<clock, Visible, status, startedAt, outdated, before, dawdled>>
      /\ \A x \in Dump : x # d => /\ backup'[x] = backup[x] /\ file'[x] = file[x]
                                  /\ holds'[x] = holds[x]
  BY DEF StartDump, DumpCloses, BackupGoes, catalogVars, Visible, BackupsTypeOK
<1>1. DumpOf(d) /\ status[d] = "PENDING" /\ ~Doomed(d)
  BY <1>0 DEF DumpInv, DumpOf
<1>2. /\ file'[d] # "removed" /\ (file[d] = "whole" => file'[d] = "whole")
      /\ \/ backup'[d] = "dumping" /\ holds'[d] = Visible
         \/ backup'[d] = "recording" /\ holds'[d] = holds[d] /\ backup[d] = "dumping"
              /\ file'[d] = "whole"
         \/ backup'[d] = "failing" /\ holds'[d] = holds[d]
  <2>1. CASE StartDump(d)
    <3>1. /\ backup[d] = "starting" /\ backup' = [backup EXCEPT ![d] = "dumping"]
          /\ file' = [file EXCEPT ![d] = "partial"] /\ holds' = [holds EXCEPT ![d] = Visible]
      BY <2>1 DEF StartDump, BackupGoes
    <3>2. file[d] = "none"
      BY <1>1, <3>1 DEF DumpOf
    <3> QED
      BY <3>1, <3>2 DEF BackupsTypeOK
  <2>2. CASE DumpCloses(d)
    <3>1. file[d] # "removed"
      BY <1>1 DEF Doomed
    <3> QED
      BY <2>2, <3>1 DEF DumpCloses, BackupGoes, BackupsTypeOK
  <2> QED
    BY <2>1, <2>2
<1>3. \A x \in Dump : Doomed(x)' <=> Doomed(x)
  BY <1>0, <1>1, <1>2 DEF Doomed
<1>4. ASSUME NEW x \in Dump, x # d PROVE DumpOf(x)'
  BY <1>0, <1>3, <1>4, DumpKept DEF DumpInv
<1>5. DumpOf(d)'
  BY <1>0, <1>1, <1>2, <1>3 DEF DumpOf
<1>6. OneStays'
  <2>1. Used' => Used
    BY <1>0, <1>3 DEF Used
  <2>2. \A x \in Dump : /\ Doomed(x)' => Doomed(x)
                        /\ Doomed(x) \/ file[x] = "whole" => startedAt'[x] = startedAt[x]
                        /\ file[x] = "whole" /\ ~Doomed(x) => file'[x] = "whole"
    BY <1>0, <1>2, <1>3
  <2> QED
    BY <1>0, <2>1, <2>2, StaysKept DEF DumpInv
<1> QED
  BY <1>4, <1>5, <1>6 DEF DumpInv

\* The record is a success: its file is whole, and, if it is the first one, the one that stays.
LEMMA DumpSucceeds ==
  ASSUME CatalogTypeOK, BackupsTypeOK, DumpInv, NEW d \in Dump, RecordSuccess(d),
         UNCHANGED catalogVars
  PROVE  DumpInv'
<1>0. /\ backup[d] = "recording"
      /\ UNCHANGED <<clock, Visible, startedAt, file, holds, outdated, before, dawdled>>
      /\ backup'[d] \in {"auditing", "cleaning"} /\ status'[d] = "SUCCESS"
      /\ \A x \in Dump : x # d => backup'[x] = backup[x] /\ status'[x] = status[x]
  BY DEF RecordSuccess, BackupGoes, StatusIs, catalogVars, Visible, BackupsTypeOK
<1>1. DumpOf(d) /\ ~Doomed(d) /\ file[d] = "whole"
  BY <1>0 DEF DumpInv, DumpOf
<1>2. \A x \in Dump : Doomed(x)' <=> Doomed(x)
  BY <1>0 DEF Doomed
<1>3. ASSUME NEW x \in Dump, x # d PROVE DumpOf(x)'
  BY <1>0, <1>2, <1>3, DumpKept DEF DumpInv
<1>4. DumpOf(d)'
  BY <1>0, <1>1, <1>2 DEF DumpOf
<1>5. OneStays'
  <2> SUFFICES ASSUME dawdled = {} PROVE \E e \in Dump : Stays(e)'
    BY <1>0 DEF OneStays
  <2>1. CASE Used
    BY <1>0, <1>2, <2>1 DEF DumpInv, OneStays, Stays
  <2>2. CASE ~Used
    BY <1>0, <1>1, <1>2, <2>2 DEF Used, Stays
  <2> QED
    BY <2>1, <2>2
<1> QED
  BY <1>3, <1>4, <1>5 DEF DumpInv

\* Old dumps are found.  If one is found by d itself, d has dawdled.
LEMMA DumpFindsOld ==
  ASSUME CatalogTypeOK, BackupsTypeOK, DumpInv, NEW d \in Dump, FindOld(d), UNCHANGED catalogVars
  PROVE  DumpInv'
<1>0. /\ backup[d] = "cleaning"
      /\ UNCHANGED <<clock, Visible, status, startedAt, file, holds, before>>
      /\ outdated' = [outdated EXCEPT ![d] = {e \in Dump : status[e] = "SUCCESS" /\ Old(e)}]
      /\ dawdled' = IF clock > startedAt[d] + Retention THEN dawdled \cup {d} ELSE dawdled
      /\ backup'[d] = "unlinking" /\ \A x \in Dump : x # d => backup'[x] = backup[x]
  BY DEF FindOld, BackupGoes, catalogVars, Visible, BackupsTypeOK, Old
<1>1. \A x \in Dump : Doomed(x)' => Doomed(x) \/ (status[x] = "SUCCESS" /\ Old(x))
  BY <1>0 DEF Doomed, BackupsTypeOK
<1>2. ASSUME NEW x \in Dump PROVE DumpOf(x)'
  <2>1. DumpOf(x) /\ (Old(x)' <=> Old(x)) /\ Visible' = Visible
    BY <1>0 DEF DumpInv, Old
  <2>2. status[x] = "SUCCESS" => backup[x] \notin {"new", "starting", "dumping", "recording"}
    BY <2>1 DEF DumpOf
  <2>3. CASE x = d
    <3>1. status[d] = "SUCCESS"
      BY <1>0, <2>1, <2>3 DEF DumpOf
    <3> QED
      BY <1>0, <1>1, <2>1, <2>2, <2>3, <3>1 DEF DumpOf
  <2>4. CASE x # d
    BY <1>0, <1>1, <2>1, <2>2, <2>4 DEF DumpOf
  <2> QED
    BY <2>3, <2>4
<1>3. OneStays'
  <2> SUFFICES ASSUME dawdled' = {} PROVE \E e \in Dump : Stays(e)'
    BY DEF OneStays
  <2>0. clock \in Nat /\ Retention \in Nat /\ \A x \in Dump : startedAt[x] \in Nat
    BY DEF CatalogTypeOK, BackupsTypeOK, Time
  <2>1. dawdled = {} /\ ~(clock > startedAt[d] + Retention)
    BY <1>0
  <2>2. status[d] = "SUCCESS" /\ file[d] \in {"whole", "removed"}
    BY <1>0 DEF DumpInv, DumpOf
  <2>3. PICK e \in Dump : Stays(e)
    BY <2>1, <2>2 DEF DumpInv, OneStays, Used
  <2>4. \A x \in Dump : Old(x) => startedAt[x] < startedAt[d]
    BY <2>0, <2>1 DEF Old
  <2>5. CASE startedAt[d] <= startedAt[e]
    <3>1. \A x \in Dump : Doomed(x)' => startedAt[x] < startedAt[e]
      BY <1>1, <2>0, <2>3, <2>4, <2>5 DEF Stays
    <3> QED
      BY <1>0, <2>3, <3>1 DEF Stays
  <2>6. CASE startedAt[e] < startedAt[d]
    <3>1. ~Doomed(d)
      BY <2>0, <2>3, <2>6 DEF Stays
    <3>2. file[d] = "whole"
      BY <2>2, <3>1 DEF Doomed
    <3>3. \A x \in Dump : Doomed(x)' => startedAt[x] < startedAt[d]
      BY <1>1, <2>0, <2>3, <2>4, <2>6 DEF Stays
    <3> QED
      BY <1>0, <3>2, <3>3 DEF Stays
  <2> QED
    BY <2>0, <2>5, <2>6
<1> QED
  BY <1>2, <1>3 DEF DumpInv

\* Files of old dumps are removed.
LEMMA DumpUnlinks ==
  ASSUME CatalogTypeOK, BackupsTypeOK, DumpInv, NEW d \in Dump, Unlink(d), UNCHANGED catalogVars
  PROVE  DumpInv'
<1>0. /\ backup[d] = "unlinking"
      /\ UNCHANGED <<clock, Visible, status, startedAt, holds, before, dawdled>>
      /\ outdated' = [outdated EXCEPT ![d] = {}]
      /\ backup'[d] = "done" /\ \A x \in Dump : x # d => backup'[x] = backup[x]
  BY DEF Unlink, BackupGoes, catalogVars, Visible, BackupsTypeOK
<1>1. \A x \in Dump : file'[x] = file[x] \/ (file'[x] = "removed" /\ x \in outdated[d])
  BY DEF Unlink
<1>2. \A x \in Dump : Doomed(x)' => Doomed(x)
  BY <1>0, <1>1 DEF Doomed, BackupsTypeOK
<1>3. ASSUME NEW x \in Dump PROVE DumpOf(x)'
  <2>1. DumpOf(x) /\ (Old(x)' <=> Old(x)) /\ Visible' = Visible
    BY <1>0 DEF DumpInv, Old
  <2>2. file'[x] = file[x] \/ (file'[x] = "removed" /\ Doomed(x))
    BY <1>1 DEF Doomed
  <2>3. backup'[x] = backup[x] \/ (backup'[x] = "done" /\ backup[x] = "unlinking")
    BY <1>0
  <2> QED
    BY <1>0, <1>2, <2>1, <2>2, <2>3 DEF DumpOf
<1>4. OneStays'
  <2>1. Used' => Used
    BY <1>0, <1>2 DEF Used
  <2>2. \A x \in Dump : /\ Doomed(x)' => Doomed(x)
                        /\ Doomed(x) \/ file[x] = "whole" => startedAt'[x] = startedAt[x]
                        /\ file[x] = "whole" /\ ~Doomed(x) => file'[x] = "whole"
    BY <1>0, <1>1, <1>2 DEF Doomed
  <2> QED
    BY <1>0, <2>1, <2>2, StaysKept DEF DumpInv
<1> QED
  BY <1>3, <1>4 DEF DumpInv

\* Something fails, is written to the audit log, or the server stops: no file is lost.
LEMMA DumpFails ==
  ASSUME CatalogTypeOK, BackupsTypeOK, DumpInv, NEW d \in Dump,
         AuditBackup(d) \/ BackupThrows(d) \/ RecordFailure(d) \/ BackupStops(d),
         UNCHANGED catalogVars
  PROVE  DumpInv'
<1>0. /\ UNCHANGED <<clock, Visible, startedAt, holds, before, dawdled>>
      /\ \A x \in Dump : x # d => /\ backup'[x] = backup[x] /\ status'[x] = status[x]
                                  /\ file'[x] = file[x]
      /\ \A x \in Dump : outdated'[x] \subseteq outdated[x]
  BY DEF AuditBackup, BackupThrows, RecordFailure, BackupStops, BackupGoes, StatusIs,
         catalogVars, Visible, BackupsTypeOK
<1>1. DumpOf(d)
  BY DEF DumpInv
<1>2. /\ file'[d] = file[d] \/ (backup[d] = "dumping" /\ file'[d] = "whole")
      /\ status'[d] = status[d] \/ status'[d] = "FAILED"
      /\ \/ backup'[d] \in {"failing", "done"} /\ backup[d] # "new"
         \/ backup'[d] = "cleaning" /\ backup[d] = "auditing" /\ status'[d] = status[d]
  BY DEF AuditBackup, BackupThrows, RecordFailure, BackupStops, BackupGoes, StatusIs,
         BackupsTypeOK
<1>3. \A x \in Dump : Doomed(x)' => Doomed(x)
  BY <1>0, <1>2 DEF Doomed
<1>4. ASSUME NEW x \in Dump, x # d PROVE DumpOf(x)'
  BY <1>0, <1>3, <1>4, DumpKept DEF DumpInv
<1>5. DumpOf(d)'
  <2>1. Old(d)' <=> Old(d)
    BY <1>0 DEF Old
  <2> QED
    BY <1>0, <1>1, <1>2, <1>3, <2>1 DEF DumpOf
<1>6. OneStays'
  <2>1. Used' => Used
    BY <1>0, <1>2, <1>3 DEF Used
  <2>2. \A x \in Dump : /\ Doomed(x)' => Doomed(x)
                        /\ Doomed(x) \/ file[x] = "whole" => startedAt'[x] = startedAt[x]
                        /\ file[x] = "whole" /\ ~Doomed(x) => file'[x] = "whole"
    BY <1>0, <1>2, <1>3
  <2> QED
    BY <1>0, <2>1, <2>2, StaysKept DEF DumpInv
<1> QED
  BY <1>4, <1>5, <1>6 DEF DumpInv

LEMMA DumpOfStep ==
  ASSUME CatalogTypeOK, BackupsTypeOK, DumpInv, BackupStep, UNCHANGED catalogVars
  PROVE  DumpInv'
BY DumpBegins, DumpGoesOn, DumpSucceeds, DumpFindsOld, DumpUnlinks, DumpFails DEF BackupStep

LEMMA DumpImplies ==
  ASSUME CatalogTypeOK, BackupsTypeOK, DumpInv
  PROVE  SuccessIsRestorable /\ SomeDumpIsKept
<1>1. SuccessIsRestorable
  <2> SUFFICES ASSUME NEW d \in Dump, status[d] = "SUCCESS", startedAt[d] + Retention >= clock
               PROVE  file[d] = "whole" /\ before[d] \subseteq holds[d]
    BY DEF SuccessIsRestorable
  <2>1. ~Old(d)
    BY DEF Old, CatalogTypeOK, BackupsTypeOK, Time
  <2> QED
    BY <2>1 DEF DumpInv, DumpOf, Doomed
<1>2. SomeDumpIsKept
  BY DEF SomeDumpIsKept, DumpInv, OneStays, Used, Stays
<1> QED
  BY <1>1, <1>2

-----------------------------------------------------------------------------
(* The theorems.                                                           *)

OfficeInv == OfficeTypeOK /\ PriceInv /\ PullInv /\ BalanceInv /\ NumberedInv /\ DumpInv

LEMMA OfficeStart == OfficeInit => OfficeInv
<1> SUFFICES ASSUME OfficeInit PROVE OfficeInv
  OBVIOUS
<1>1. CatalogTypeOK /\ PriceInv
  <2>1. change \in [Change -> Record] /\ \A c \in Change : At(c) = "new" /\ ~change[c].priced
    BY BlankRecord DEF OfficeInit, CatalogInit
  <2>2. Visible = {} /\ 0 \in Time
    BY DEF OfficeInit, CatalogInit, Visible, Time
  <2>3. CatalogTypeOK
    BY <2>1, <2>2 DEF OfficeInit, CatalogInit, CatalogTypeOK, Record, RowStates, Time
  <2>4. PriceInv
    BY <2>1, <2>2 DEF PriceInv, PricingOK, PriceOf, Pricing
  <2> QED
    BY <2>3, <2>4
<1>2. CacheTypeOK /\ PullInv
  <2>1. /\ pull \in Pull /\ pull.at = "idle" /\ pull.time = 0
        /\ \A x \in Row : pull.rows[x] = NoCopy /\ cache[x] = NoCopy
    BY IdlePull DEF OfficeInit, CacheInit, NoRows
  <2>2. /\ cache \in [Row -> Copy \cup {NoCopy}] /\ lastPulledAt = Never /\ late = {}
        /\ clock = 0 /\ asked \in [Row -> SUBSET Change]
    BY DEF OfficeInit, CacheInit, CatalogInit, NoRows
  <2>3. CacheTypeOK
    BY <2>1, <2>2, CacheTypesOf
  <2>4. ASSUME NEW x \in Row PROVE PullOf(x) /\ FreshOf(x)
    BY <2>1, <2>2 DEF PullOf, FreshOf
  <2>5. PullInv
    BY <2>1, <2>2, <2>4 DEF PullInv
  <2> QED
    BY <2>3, <2>5
<1>3. SuppliersTypeOK
  <2>1. NumbersOK
    BY DEF OfficeInit, SuppliersInit, NumbersInit, NumbersOK
  <2>2. balance \in [Row -> Int] /\ sum \in [Payout -> Payments \cup {0}]
    BY DEF OfficeInit, SuppliersInit
  <2> QED
    BY <2>1, <2>2 DEF OfficeInit, SuppliersInit, SuppliersTypeOK
<1>4. BackupsTypeOK
  <2>1. 0 \in Time /\ clock = 0
    BY DEF OfficeInit, CatalogInit, Time
  <2> QED
    BY <2>1 DEF OfficeInit, BackupsInit, BackupsTypeOK
<1>5. DumpInv
  BY DEF OfficeInit, BackupsInit, DumpInv, DumpOf, OneStays, Used, Doomed
<1>6. BalanceInv
  <2>1. /\ \A p \in Purchase : buying[p] = "new"
        /\ \A q \in Payout : paying[q] = "new"
        /\ \A x \in Row : balance[x] = 0
    BY DEF OfficeInit, SuppliersInit
  <2>2. /\ {p \in Purchase : buying[p] # "new"} = {}
        /\ {q \in Payout : paying[q] # "new"} = {}
        /\ \A x \in Row : Bought({x}) = SumFunctionOnSet(Unpaid, {})
        /\ \A x \in Row : PaidTo({x}) = SumFunctionOnSet(sum, {})
    <3>1. \A x \in Row : /\ {p \in Purchase : buying[p] = "committed" /\ from[p] \in {x}} = {}
                         /\ {q \in Payout : paying[q] = "committed" /\ from[q] \in {x}} = {}
      BY <2>1
    <3> QED
      BY <2>1, <3>1 DEF Bought, PaidTo
  <2>3. \A x \in Row : Bought({x}) = 0 /\ PaidTo({x}) = 0
    BY <2>2, SumEmpty
  <2>4. \A x \in Row : balance[x] = Bought({x}) - PaidTo({x})
    <3>1. 0 = 0 - 0
      OBVIOUS
    <3> QED
      BY <2>1, <2>3, <3>1, Zenon
  <2> QED
    BY <2>2, <2>4, FS_EmptySet DEF BalanceInv
<1>7. NumberedInv
  BY DEF OfficeInit, SuppliersInit, NumbersInit, NumberedInv, NumbersDistinct
<1> QED
  BY <1>1, <1>2, <1>3, <1>4, <1>5, <1>6, <1>7 DEF OfficeInv, OfficeTypeOK

LEMMA OfficeStep ==
  ASSUME OfficeInv, [OfficeNext]_officeVars
  PROVE  OfficeInv'
<1>0. CatalogTypeOK /\ CacheTypeOK /\ SuppliersTypeOK /\ BackupsTypeOK /\ PriceInv /\ PullInv /\ DumpInv
      /\ BalanceInv /\ NumberedInv
  BY DEF OfficeInv, OfficeTypeOK
<1>1. UNCHANGED supplierVars => SuppliersTypeOK' /\ BalanceInv' /\ NumberedInv'
  BY <1>0, BalanceStays, NumbersStay DEF SuppliersTypeOK, supplierVars, NumbersOK, numberVars
<1>2. RowsStay => clock' \in Time /\ clock <= clock' /\ \A x \in Row : x \in Visible => x \in Visible'
  BY DEF RowsStay
<1>3. ASSUME CatalogTypeOK', PriceInv', RowsStay,
             UNCHANGED <<scene, cacheVars, supplierVars, backupVars>>
      PROVE  OfficeInv'
  BY <1>0, <1>1, <1>2, <1>3, PullOfRows, DumpOfRows DEF OfficeInv, OfficeTypeOK
<1>4. CASE CatalogStep /\ UNCHANGED <<scene, supplierVars, backupVars>>
  <2>1. CASE Tick
    BY <1>0, <1>3, <1>4, <2>1, TickTypes, PriceOfTick DEF CatalogStep, Tick
  <2>2. CASE \E x \in Row : RowStep(x)
    BY <1>0, <1>3, <1>4, <2>2, RowTypes, PriceOfRow DEF CatalogStep
  <2>3. CASE \E c \in Change : ChangeStep(c)
    BY <1>0, <1>3, <1>4, <2>3, ChangeTypes, PriceOfChange DEF CatalogStep
  <2> QED
    BY <1>4, <2>1, <2>2, <2>3 DEF CatalogStep
<1>5. CASE (\E x \in Row : RowAppears(x)) /\ UNCHANGED <<scene, supplierVars, backupVars>>
  <2>1. PICK x \in Row : RowAppears(x) /\ Appear(x)
    BY <1>5 DEF RowAppears
  <2>2. CatalogTypeOK' /\ PriceInv'
    BY <1>0, <1>5, <2>1, AppearTypes, PriceOfAppear
  <2>3. CacheTypeOK' /\ PullInv'
    BY <1>0, <1>5, <2>1, PullOfAppear
  <2>4. clock' \in Time /\ clock <= clock' /\ \A y \in Row : y \in Visible => y \in Visible'
    <3>1. clock' = clock /\ clock \in Time /\ clock <= clock
      <4>1. clock' = clock
        BY <2>1 DEF Appear
      <4>2. clock \in Time /\ clock <= clock
        BY <1>0 DEF CatalogTypeOK, Time
      <4> QED
        BY <4>1, <4>2
    <3>2. row[x] = "inserting" /\ \A y \in Row : y # x => row'[y] = row[y]
      BY <1>0, <1>5, <2>1, AppearTypes
    <3> QED
      BY <3>1, <3>2 DEF Visible
  <2>5. BackupsTypeOK' /\ DumpInv'
    BY <1>0, <1>5, <2>4, DumpOfRows
  <2> QED
    BY <1>0, <1>1, <1>5, <2>2, <2>3, <2>5 DEF OfficeInv, OfficeTypeOK
<1>6. UNCHANGED <<scene, catalogVars>> => CatalogTypeOK' /\ PriceInv' /\ RowsStay
  BY <1>0, PriceOfTick DEF catalogVars, CatalogTypeOK, Visible, RowsStay, Time
<1>7. CASE PullStep /\ UNCHANGED <<scene, catalogVars, supplierVars, backupVars>>
  <2>1. CacheTypeOK' /\ PullInv'
    BY <1>0, <1>7, PullOfStep
  <2>2. BackupsTypeOK' /\ DumpInv'
    BY <1>0, <1>2, <1>6, <1>7, DumpOfRows
  <2> QED
    BY <1>0, <1>1, <1>6, <1>7, <2>1, <2>2 DEF OfficeInv, OfficeTypeOK
<1>8. CASE SupplierStep /\ UNCHANGED <<scene, catalogVars, cacheVars, backupVars>>
  <2>1. SuppliersTypeOK' /\ BalanceInv' /\ NumberedInv'
    BY <1>0, <1>8, SupplierTypes, BalanceOfStep, NumbersOfStep
  <2>2. CacheTypeOK' /\ PullInv' /\ BackupsTypeOK' /\ DumpInv'
    BY <1>0, <1>2, <1>6, <1>8, PullOfRows, DumpOfRows
  <2> QED
    BY <1>6, <1>8, <2>1, <2>2 DEF OfficeInv, OfficeTypeOK
<1>9. CASE BackupStep /\ UNCHANGED <<scene, catalogVars, cacheVars, supplierVars>>
  <2>1. BackupsTypeOK' /\ DumpInv'
    BY <1>0, <1>9, BackupTypes, DumpOfStep
  <2>2. CacheTypeOK' /\ PullInv'
    BY <1>0, <1>6, <1>9, PullOfRows
  <2> QED
    BY <1>0, <1>1, <1>6, <1>9, <2>1, <2>2 DEF OfficeInv, OfficeTypeOK
<1>10. CASE UNCHANGED officeVars
  BY <1>3, <1>6, <1>10 DEF officeVars
<1> QED
  BY <1>4, <1>5, <1>7, <1>8, <1>9, <1>10 DEF OfficeNext

\* The invariant holds in every state, for any number of rows, requests and dumps.
THEOREM OfficeHolds == OfficeSpec => []OfficeInv
BY OfficeStart, OfficeStep, PTL DEF OfficeSpec

\* Every variable of the back office keeps its type; what is being changed has been seen, and
\* the phone has copies of rows only that there are.
THEOREM OfficeTypes == OfficeSpec => []OfficeTypeOK
<1>1. OfficeInv => OfficeTypeOK
  BY DEF OfficeInv
<1> QED
  BY <1>1, OfficeHolds, PTL

\* One current price, or none between the two statements of a change, unless two changes
\* overlapped or one was torn (products.service.ts lines 85-93).
THEOREM PricesAreSingle == OfficeSpec => []OneCurrentPrice
<1>1. OfficeInv => OneCurrentPrice
  BY PriceImplies DEF OfficeInv, OfficeTypeOK
<1> QED
  BY <1>1, OfficeHolds, PTL

\* The phone has all rows up to the time it has kept but those that appeared late
\* (sync.service.ts lines 188-205).
THEOREM CacheHasAll == OfficeSpec => []CacheComplete
<1>1. OfficeInv => CacheComplete
  BY PullImplies DEF OfficeInv
<1> QED
  BY <1>1, OfficeHolds, PTL

\* What a pull has brought is no older than when it was asked for (sync_engine.dart
\* lines 229-251).
THEOREM MergesAreFresh == OfficeSpec => []MergedIsFresh
<1>1. OfficeInv => MergedIsFresh
  BY PullImplies DEF OfficeInv
<1> QED
  BY <1>1, OfficeHolds, PTL

\* What suppliers are owed is what their purchases left unpaid, less what they were paid, each
\* balance for itself and the report in all (purchases.service.ts line 91,
\* suppliers.service.ts lines 55 and 64-70).
THEOREM PayablesAreTheBooks == OfficeSpec => []PayableAccounted
<1>1. OfficeInv => PayableAccounted
  BY BalancesAddUp DEF OfficeInv, OfficeTypeOK
<1> QED
  BY <1>1, OfficeHolds, PTL

\* A purchase is refused for its number only after two calls of next have overlapped: until
\* then no purchase has the number of one that is to commit (purchases.service.ts line 64,
\* document-sequence.service.ts lines 22-35).
THEOREM RefusalsComeFromRaces == OfficeSpec => []RefusalNeedsRace
<1>1. OfficeInv => RefusalNeedsRace
  BY NumbersImply DEF OfficeInv
<1> QED
  BY <1>1, OfficeHolds, PTL

\* A success can be restored for as long as dumps are kept (backup.service.ts lines 44-56).
THEOREM DumpsCanBeRestored == OfficeSpec => []SuccessIsRestorable
<1>1. OfficeInv => SuccessIsRestorable
  BY DumpImplies DEF OfficeInv, OfficeTypeOK
<1> QED
  BY <1>1, OfficeHolds, PTL

\* Old dumps are removed, but never all of them, unless one took longer than dumps are kept
\* (backup.service.ts lines 68, 106-123).
THEOREM OneDumpIsKept == OfficeSpec => []SomeDumpIsKept
<1>1. OfficeInv => SomeDumpIsKept
  BY DumpImplies DEF OfficeInv, OfficeTypeOK
<1> QED
  BY <1>1, OfficeHolds, PTL
=============================================================================
