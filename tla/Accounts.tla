------------------------------ MODULE Accounts ------------------------------
(***************************************************************************)
(* Users, their roles and their sessions: AuthService                      *)
(* (backend/src/auth/auth.service.ts), UsersService                        *)
(* (backend/src/users/users.service.ts), RolesService                      *)
(* (backend/src/roles/roles.service.ts) and what the guards of a request   *)
(* read (backend/src/auth/strategies, backend/src/common/guards).          *)
(*                                                                         *)
(* A session is a chain of refresh tokens: each is issued in exchange for  *)
(* the one before, the first at login.  A token is a signed JWT of the     *)
(* user and the second it is issued in, nothing else, so user and second   *)
(* are its identity; its row is found by its hash, which is unique.        *)
(*                                                                         *)
(* A call is one request; each of its steps is one database call.  What is *)
(* refused at once changes nothing and is left out.  lastLoginAt, names *)
(* and passwords are data, and so is the audit log: its failure is one of  *)
(* those of CallFails.                                                     *)
(***************************************************************************)
EXTENDS Naturals

CONSTANTS
  User, Role, Permission,
  Call,         \* requests of one or several steps
  Nobody,
  Founder,      \* the user that the seed makes
  RoleSets,     \* what a user's roles are set to
  GrantSets,    \* what a role's permissions are set to
  Life,         \* seconds for which a refresh token is valid
  MaxTime       \* bound: the last second

Second == 0 .. MaxTime
Token  == User \X Second
NoSecond == MaxTime + 1

ASSUME PeopleAssumption ==
  /\ Founder \in User
  /\ User \cap Role = {} /\ Nobody \notin User \cup Role
ASSUME SetsAssumption == RoleSets \subseteq SUBSET Role /\ GrantSets \subseteq SUBSET Permission
ASSUME TimeAssumption == Life \in Nat /\ MaxTime \in Nat

VARIABLES
  now,          \* the second it is
  account,      \* account[u]: "none", "active" or "removed"
  rolesOf,      \* rolesOf[u]: the rows of user_role
  grants,       \* grants[r]: the rows of role_permission
  token,        \* token[t]: the row of t: "none", "live" or "revoked"
  call,         \* call[c]: how far the request of slot c is, and what it is about
  parent,       \* history: parent[t], the second of the token t was exchanged for
  old,          \* history: the tokens of sessions begun before all were revoked
  raced,        \* history: tokens with two refreshes under way at once
  overtaken,    \* history: users with a login or refresh past its checks when their
                \* tokens were revoked, or they were removed
  asked,        \* history: asked[u], the roles last set
  tangled,      \* history: users with two changes of roles at once, or one that stopped halfway
  sees,         \* sees[c]: the rows of role_permission that c is deleting
  granted,      \* history: granted[r], the permissions last set
  met,          \* history: changes of permissions that overlap another one
  possible      \* history: possible[r], granted[r] and what the changes it overlapped may leave

sessionVars == <<now, token, parent, old, raced, overtaken>>
userVars    == <<account, rolesOf, asked, tangled>>
grantVars   == <<grants, sees, granted, met, possible>>
rightsVars  == <<userVars, grantVars>>
accountVars == <<sessionVars, rightsVars, call>>

Blank(st) == [at |-> st, who |-> Nobody, sec |-> NoSecond, want |-> {}]

Refreshing == {"checking", "rotating", "reused"}
Steps == Refreshing \cup {"new", "done", "signing", "clearing", "filling", "granting"}

At(c)    == call[c].at
Who(c)   == call[c].who
Given(c) == <<call[c].who, call[c].sec>>   \* the token a refresh was called with

AccountsTypeOK ==
  /\ now     \in Second
  /\ account \in [User -> {"none", "active", "removed"}]
  /\ rolesOf \in [User -> SUBSET Role]
  /\ grants  \in [Role -> SUBSET Permission]
  /\ token   \in [Token -> {"none", "live", "revoked"}]
  /\ call    \in [Call -> [at : Steps, who : User \cup Role \cup {Nobody},
                           sec : Second \cup {NoSecond},
                           want : SUBSET (Role \cup Permission)]]
  /\ parent  \in [Token -> Second \cup {NoSecond}]
  /\ old \subseteq Token /\ raced \subseteq Token /\ overtaken \subseteq User
  /\ asked   \in [User -> SUBSET Role]
  /\ tangled \subseteq User
  /\ sees    \in [Call -> SUBSET Permission]
  /\ met \subseteq Call
  /\ granted \in [Role -> SUBSET Permission] /\ possible \in [Role -> SUBSET Permission]
  /\ \A c \in Call :
       /\ At(c) \in Refreshing => Given(c) \in Token /\ token[Given(c)] # "none"
       /\ At(c) \in {"signing", "clearing", "filling"} => Who(c) \in User
       /\ At(c) \in {"clearing", "filling"} => call[c].want \subseteq Role
       /\ At(c) = "granting" => Who(c) \in Role /\ call[c].want \subseteq Permission

\* What the seed leaves: one role with every permission, and one user who has it.
AccountsInit ==
  /\ now     = 0
  /\ account = [u \in User |-> IF u = Founder THEN "active" ELSE "none"]
  /\ \E r \in Role :
       /\ rolesOf = [u \in User |-> IF u = Founder THEN {r} ELSE {}]
       /\ grants  = [x \in Role |-> IF x = r THEN Permission ELSE {}]
  /\ token   = [t \in Token |-> "none"]
  /\ call    = [c \in Call |-> Blank("new")]
  /\ parent  = [t \in Token |-> NoSecond]
  /\ old = {} /\ raced = {} /\ overtaken = {} /\ tangled = {} /\ met = {}
  /\ sees    = [c \in Call |-> {}]
  /\ asked   = rolesOf
  /\ granted = grants /\ possible = grants

Goto(c, st) == call' = [call EXCEPT ![c].at = st]
Begin(c, st, who, sec, want) ==
  /\ At(c) = "new"
  /\ call' = [call EXCEPT ![c] = [at |-> st, who |-> who, sec |-> sec, want |-> want]]
End(c) == call' = [call EXCEPT ![c] = Blank("done")]

-----------------------------------------------------------------------------
(* What the guards of a request look at.                                   *)

\* validate collects the permissions of all roles of the user.
Rights(u) == UNION {grants[r] : r \in rolesOf[u]}

\* The request of u passes JwtAuthGuard and PermissionsGuard.
Allowed(u, p) == account[u] = "active" /\ p \in Rights(u)

Someone(p) == \E u \in User : Allowed(u, p)

-----------------------------------------------------------------------------
(* Sessions.                                                               *)

\* login, up to its update of lastLoginAt and the audit log.
Login(c, u) ==
  /\ account[u] = "active"
  /\ Begin(c, "signing", u, NoSecond, {})
  /\ UNCHANGED <<sessionVars, rightsVars>>

\* Faulty variants of Present: the row is not looked for, or not whether it is revoked.
PresentUnknown(c, u, s) ==
  /\ now < s + Life
  /\ Begin(c, IF token[<<u, s>>] = "revoked" THEN "reused" ELSE "checking", u, s, {})
  /\ UNCHANGED <<now, token, parent, old, raced, overtaken, rightsVars>>

PresentRevoked(c, u, s) ==
  /\ token[<<u, s>>] # "none"
  /\ now < s + Life
  /\ Begin(c, "checking", u, s, {})
  /\ UNCHANGED <<now, token, parent, old, raced, overtaken, rightsVars>>

\* refresh with a token that was issued once: verify, and the row found by its hash.  An
\* expired token never gets so far: the JWT expires no later than its row does.
Present(c, u, s) ==
  /\ token[<<u, s>>] # "none"
  /\ now < s + Life
  /\ Begin(c, IF token[<<u, s>>] = "live" THEN "checking" ELSE "reused", u, s, {})
  /\ raced' = raced \cup
       {t \in {<<u, s>>} : \E d \in Call : Given(d) = t /\ At(d) # "reused"}
  /\ UNCHANGED <<now, token, parent, old, overtaken, rightsVars>>

\* A faulty variant of CheckUser: removal is not looked at.
CheckNothing(c) ==
  /\ At(c) = "checking"
  /\ Goto(c, "rotating")
  /\ UNCHANGED <<sessionVars, rightsVars>>

CheckUser(c) ==
  /\ At(c) = "checking"
  /\ IF account[Who(c)] = "active" THEN Goto(c, "rotating") ELSE End(c)
  /\ UNCHANGED <<sessionVars, rightsVars>>

\* A faulty variant of Rotate: the old token stays valid.
RotateNothing(c) ==
  /\ At(c) = "rotating"
  /\ Goto(c, "signing")
  /\ UNCHANGED <<sessionVars, rightsVars>>

\* The old token is revoked, whatever has become of it since it was found.
Rotate(c) ==
  /\ At(c) = "rotating"
  /\ token' = [token EXCEPT ![Given(c)] = "revoked"]
  /\ Goto(c, "signing")
  /\ UNCHANGED <<now, parent, old, raced, overtaken, rightsVars>>

\* signTokens.  Its row is refused if the user was issued the same token in this second.
Sign(c) ==
  LET t == <<Who(c), now>> IN
  /\ At(c) = "signing"
  /\ IF token[t] = "none"
       THEN /\ token'  = [token EXCEPT ![t] = "live"]
            /\ parent' = [parent EXCEPT ![t] = call[c].sec]
            /\ old'    = IF Given(c) \in old THEN old \cup {t} ELSE old
       ELSE UNCHANGED <<token, parent, old>>
  /\ End(c)
  /\ UNCHANGED <<now, raced, overtaken, rightsVars>>

\* revokeAllRefreshTokens.
RevokeAll(u) ==
  /\ token' = [t \in Token |-> IF t[1] = u /\ token[t] = "live" THEN "revoked" ELSE token[t]]
  /\ old'   = old \cup {t \in Token : t[1] = u /\ token[t] # "none"}
  /\ overtaken' = overtaken \cup
       {x \in {u} : \E d \in Call : Who(d) = x /\ At(d) \in {"checking", "rotating", "signing"}}
  /\ UNCHANGED <<now, parent, raced, rightsVars>>

\* A token that was revoked is used again: all sessions of its user end.
RevokeReused(c) ==
  /\ At(c) = "reused"
  /\ RevokeAll(Who(c))
  /\ End(c)

Logout(u) ==
  /\ account[u] = "active"
  /\ RevokeAll(u)
  /\ UNCHANGED call

Tick ==
  /\ now < MaxTime
  /\ now' = now + 1
  /\ UNCHANGED <<token, parent, old, raced, overtaken, rightsVars, call>>

-----------------------------------------------------------------------------
(* Users and their roles.                                                  *)

\* create: the phone is unique, that of a removed user included.
CreateUser(u, R) ==
  /\ Someone("users.manage")
  /\ account[u] = "none"
  /\ account' = [account EXCEPT ![u] = "active"]
  /\ rolesOf' = [rolesOf EXCEPT ![u] = R]
  /\ asked'   = [asked EXCEPT ![u] = R]
  /\ UNCHANGED <<sessionVars, tangled, grantVars, call>>

\* remove: nothing but the row of the user; the tokens stay.
RemoveUser(u) ==
  /\ Someone("users.manage")
  /\ account[u] = "active"
  /\ account' = [account EXCEPT ![u] = "removed"]
  /\ overtaken' = overtaken \cup
       {x \in {u} : \E d \in Call : Who(d) = x /\ At(d) \in {"rotating", "signing"}}
  /\ UNCHANGED <<now, token, parent, old, raced, rolesOf, asked, tangled, grantVars, call>>

\* update, up to its update of the user's row.
UpdateUser(c, u, R) ==
  /\ Someone("users.manage")
  /\ account[u] = "active"
  /\ Begin(c, "clearing", u, NoSecond, R)
  /\ UNCHANGED <<sessionVars, rightsVars>>

Filling(u) == {d \in Call : At(d) = "filling" /\ Who(d) = u}

\* A faulty variant of ClearRoles: the roles there are stay.
ClearNothing(c) ==
  /\ At(c) = "clearing"
  /\ Goto(c, "filling")
  /\ UNCHANGED <<sessionVars, rightsVars>>

\* userRole.deleteMany.
ClearRoles(c) ==
  /\ At(c) = "clearing"
  /\ rolesOf' = [rolesOf EXCEPT ![Who(c)] = {}]
  /\ tangled' = IF Filling(Who(c)) = {} THEN tangled \ {Who(c)} ELSE tangled \cup {Who(c)}
  /\ Goto(c, "filling")
  /\ UNCHANGED <<sessionVars, account, asked, grantVars>>

\* userRole.createMany: user and role are unique together, and one row that is refused
\* refuses them all.
FillRoles(c) ==
  LET u == Who(c) IN
  /\ At(c) = "filling"
  /\ IF rolesOf[u] \cap call[c].want = {}
       THEN /\ rolesOf' = [rolesOf EXCEPT ![u] = @ \cup call[c].want]
            /\ asked'   = [asked EXCEPT ![u] = call[c].want]
       ELSE UNCHANGED <<rolesOf, asked>>
  /\ End(c)
  /\ UNCHANGED <<sessionVars, account, tangled, grantVars>>

-----------------------------------------------------------------------------
(* Roles and their permissions.                                            *)

\* setPermissions, up to the start of deleteMany in its transaction: the rows it sees are
\* those it deletes, and it waits for another transaction that is deleting them.
BeginGrant(c, r, P) ==
  LET others == {d \in Call : At(d) = "granting" /\ Who(d) = r} IN
  /\ Someone("roles.manage")
  /\ Begin(c, "granting", r, NoSecond, P)
  /\ sees' = [sees EXCEPT ![c] = grants[r]]
  /\ met'  = IF others = {} THEN met ELSE met \cup others \cup {c}
  /\ UNCHANGED <<sessionVars, userVars, grants, granted, possible>>

\* deleteMany of c is over: a row it deleted is seen by no other one any more, and the row
\* that replaces it is new to all of them.
Deleted(c, rows) ==
  sees' = [d \in Call |-> IF d = c THEN {} ELSE IF Who(d) = Who(c) THEN sees[d] \ rows ELSE sees[d]]

\* The rows are deleted, createMany adds the new ones, and both are committed.  A row that
\* another transaction has added since is not deleted, and refused if it is added again:
\* role and permission are unique together.
Grant(c) ==
  LET r == Who(c)  rest == grants[r] \ sees[c]  want == call[c].want IN
  /\ At(c) = "granting"
  /\ IF rest \cap want = {}
       THEN /\ grants'   = [grants EXCEPT ![r] = rest \cup want]
            /\ granted'  = [granted EXCEPT ![r] = want]
            /\ possible' = [possible EXCEPT ![r] = IF c \in met THEN @ \cup want ELSE want]
            /\ Deleted(c, sees[c])
       ELSE Deleted(c, {}) /\ UNCHANGED <<grants, granted, possible>>
  /\ End(c)
  /\ UNCHANGED <<sessionVars, userVars, met>>

-----------------------------------------------------------------------------

\* The handler throws or the server stops; a transaction under way is rolled back.
CallFails(c) ==
  /\ At(c) \notin {"new", "done"}
  /\ End(c)
  /\ tangled' = IF At(c) = "filling" THEN tangled \cup {Who(c)} ELSE tangled
  /\ Deleted(c, {})
  /\ UNCHANGED <<sessionVars, account, rolesOf, asked, grants, granted, met, possible>>

CallStep(c) ==
  \/ \E u \in User : Login(c, u)
  \/ \E u \in User, s \in Second : Present(c, u, s)
  \/ CheckUser(c)
  \/ Rotate(c)
  \/ Sign(c)
  \/ RevokeReused(c)
  \/ \E u \in User, R \in RoleSets : UpdateUser(c, u, R)
  \/ ClearRoles(c)
  \/ FillRoles(c)
  \/ \E r \in Role, P \in GrantSets : BeginGrant(c, r, P)
  \/ Grant(c)
  \/ CallFails(c)

AccountsNext ==
  \/ \E c \in Call : CallStep(c)
  \/ \E u \in User : Logout(u) \/ RemoveUser(u)
  \/ \E u \in User, R \in RoleSets : CreateUser(u, R)
  \/ Tick

AccountsSpec == AccountsInit /\ [][AccountsNext]_accountVars

-----------------------------------------------------------------------------
(* What sessions and rights promise.                                       *)

\* A token is exchanged once, unless two refreshes with it were under way at once
\* (auth.service.ts lines 32 and 125: the token is revoked at once, so that it can be
\* used only once).
RotatedOnce ==
  \A u \in User, s, x, y \in Second :
    parent[<<u, x>>] = s /\ parent[<<u, y>>] = s => x = y \/ <<u, s>> \in raced

\* After all tokens of a user were revoked, by logout or because one was used again, no
\* session begun before goes on, unless a login or refresh was past its checks just then
\* (auth.service.ts lines 31-33, 67-73, 113-118 and 131-132).
RevokedSessionsEnd ==
  \A t \in old : token[t] = "live" => t[1] \in overtaken

\* A removed user is issued no token, unless removed while a login or refresh was past its
\* check of the user (lines 77, 120-123 and users.service.ts line 99).
NoTokenForRemoved ==
  [][\A t \in Token : token[t] = "none" /\ token'[t] = "live" =>
       account[t[1]] = "active" \/ t[1] \in overtaken]_accountVars

\* A user may do what the roles last given to him were last granted, all of it and nothing
\* else, but for what changes of a role's permissions leave that overlapped the last one;
\* unless the roles are being replaced, or a replacement failed halfway or met another one:
\* what the two statements of users.service.ts lines 79-82 and the transaction of
\* roles.service.ts lines 40-43 make of it, which is there so that no crash strips a role
\* (its comment, lines 33-37).
RightsAsAsked ==
  \A u \in User :
    account[u] = "active" /\ u \notin tangled /\ Filling(u) = {} =>
      /\ UNION {granted[r] : r \in asked[u]} \subseteq Rights(u)
      /\ Rights(u) \subseteq UNION {possible[r] : r \in asked[u]}
=============================================================================
