---------------------------- MODULE AtLeastOnce ----------------------------
(***************************************************************************)
(* What offline synchronisation promises about every operation the user    *)
(* enters, whatever becomes of requests, responses and processes:          *)
(*                                                                         *)
(*   - an operation the phone has taken into its queue leaves it either    *)
(*     acknowledged, and then the server has carried it out, or withdrawn  *)
(*     by the user;                                                        *)
(*   - the server carries out queued operations only, and what it has      *)
(*     carried out is never undone by synchronisation.                     *)
(*                                                                         *)
(* How often an operation is carried out is left open: "at least once" is  *)
(* what SyncEngine and SyncService give together.                          *)
(***************************************************************************)
EXTENDS Naturals

CONSTANT Op

VARIABLES
  stage,        \* stage[o]: where the operation is in its life
  executed      \* executed[o]: how often the server has carried it out

vars == <<stage, executed>>

Stages == {"entered", "queued", "acknowledged", "withdrawn"}

Init ==
  /\ stage    = [o \in Op |-> "entered"]
  /\ executed = [o \in Op |-> 0]

\* The phone takes the operation into its queue.
Enqueue(o) ==
  /\ stage[o] = "entered"
  /\ stage' = [stage EXCEPT ![o] = "queued"]
  /\ UNCHANGED executed

\* The server carries out an operation that was queued, perhaps again.
Execute(o) ==
  /\ stage[o] # "entered"
  /\ executed' = [executed EXCEPT ![o] = @ + 1]
  /\ UNCHANGED stage

\* The phone drops the operations S from its queue for good, all of them done.
Acknowledge(S) ==
  /\ \A o \in S : stage[o] = "queued" /\ executed[o] > 0
  /\ stage' = [o \in Op |-> IF o \in S THEN "acknowledged" ELSE stage[o]]
  /\ UNCHANGED executed

\* The user deletes the operation from the queue.
Withdraw(o) ==
  /\ stage[o] = "queued"
  /\ stage' = [stage EXCEPT ![o] = "withdrawn"]
  /\ UNCHANGED executed

Next ==
  \/ \E o \in Op : Enqueue(o) \/ Execute(o) \/ Withdraw(o)
  \/ \E S \in SUBSET Op : Acknowledge(S)

Spec == Init /\ [][Next]_vars
=============================================================================
