----------------------------- MODULE MCAccounts -----------------------------
(* A small instance of Accounts. *)
EXTENDS Accounts, TLC

CONSTANTS r1, r2

MCRoleSets  == {{r1}, {r2}}
MCPermission == {"users.manage", "roles.manage"}
MCGrantSets == {{"users.manage"}, {"roles.manage"}}
MCSymmetry  == Permutations(Call) \cup Permutations(Role)
=============================================================================
