------------------------------ MODULE MCOffice ------------------------------
(* A small instance of Office, of which a part is at work at a time. *)
EXTENDS Office, TLC

CONSTANTS a, b, c, key

MCKeyOf == a :> key @@ b :> key @@ c :> NoKey

Scene(x, y, who) == [kind |-> a :> x @@ b :> x @@ c :> y, who |-> who]
MCScenes == {
  Scene("product",  "product",  {a, "u1", "u2", Phone}),       \* prices and the phone's copy
  Scene("product",  "product",  {a, b}),                       \* codes
  Scene("method",   "supplier", {a, c, "u1", Phone}),
  Scene("method",   "supplier", {a, b}),
  Scene("employee", "customer", {a, b, c, "u1"}),
  Scene("material", "tank",     {a, b, c, "u1"}),
  Scene("employee", "employee", {a, c, "u1", Phone}),
  Scene("supplier", "supplier", {b, c, "u1", "p1", "q1"}),     \* purchases and payments
  Scene("supplier", "supplier", {c, "u1", "p1", "p2", "q1"}),
  Scene("customer", "customer", {c, "b1", "b2"})}           \* dumps
MCPayments == {-2}
MCOrders == {[total |-> 3, paid |-> 1], [total |-> 2, paid |-> Empty]}
=============================================================================
