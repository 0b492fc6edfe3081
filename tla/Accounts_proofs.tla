-------------------------- MODULE Accounts_proofs --------------------------
(***************************************************************************)
(* Proofs about Accounts, for any users, roles, calls and lives of tokens. *)
(* AccountsInv adds to the types why a session that was ended stays ended  *)
(* (SessionInv), why a token has one successor (OnceInv), why a removed    *)
(* user gets none (VouchedInv), and that roles and permissions are those   *)
(* asked for except in the middle of a change (RolesInv, GrantsInv).       *)
(***************************************************************************)
EXTENDS Accounts, TLAPS

Exchanging == {"checking", "rotating", "signing"}

\* What was begun before all was revoked goes on only for a user who was overtaken.
SessionInv ==
  /\ \A t \in old : token[t] # "none"
  /\ RevokedSessionsEnd
  /\ \A c \in Call : At(c) \in Exchanging /\ Given(c) \in old => Who(c) \in overtaken

\* Unless raced, a token has one holder, a call or the token it was exchanged for, and it is
\* revoked before it is exchanged.
Holds(c, u, s) == At(c) \in Exchanging /\ Who(c) = u /\ call[c].sec = s

OneHolder(u, s) ==
  /\ \A c, d \in Call : Holds(c, u, s) /\ Holds(d, u, s) => c = d
  /\ \A c \in Call : Holds(c, u, s) /\ At(c) = "signing" => token[<<u, s>>] = "revoked"
  /\ \A x \in Second : parent[<<u, x>>] = s =>
       /\ token[<<u, s>>] = "revoked"
       /\ \A c \in Call : ~Holds(c, u, s)
       /\ \A y \in Second : parent[<<u, y>>] = s => x = y

OnceInv == \A u \in User, s \in Second : <<u, s>> \notin raced => OneHolder(u, s)

\* Who has passed the check is active, or was overtaken.
VouchedInv ==
  \A c \in Call : At(c) \in {"rotating", "signing"} =>
    account[Who(c)] = "active" \/ Who(c) \in overtaken

\* A user has the roles asked for, or none and one call about to fill them.
RolesInv ==
  /\ \A c \in Call : At(c) \in {"clearing", "filling"} => account[Who(c)] # "none"
  /\ \A u \in User : u \notin tangled =>
       /\ Filling(u) = {} => rolesOf[u] = asked[u]
       /\ \A c \in Filling(u) : rolesOf[u] = {} /\ \A d \in Filling(u) : c = d

\* A role has the permissions granted and at most the possible ones; a change of them that met
\* no other one is the only one of its role, and deletes all that there is.
Granting(r) == {c \in Call : At(c) = "granting" /\ Who(c) = r}

GrantsInv ==
  \A r \in Role :
    /\ granted[r] \subseteq grants[r] /\ grants[r] \subseteq possible[r]
    /\ \A c \in Granting(r) : c \notin met => sees[c] = grants[r] /\ \A d \in Granting(r) : c = d

AccountsInv ==
  AccountsTypeOK /\ SessionInv /\ OnceInv /\ VouchedInv /\ RolesInv /\ GrantsInv

USE PeopleAssumption, SetsAssumption, TimeAssumption
USE DEF At, Who, Given, Second, NoSecond, Token

-----------------------------------------------------------------------------
(* The types.                                                              *)

CallRecord == [at : Steps, who : User \cup Role \cup {Nobody}, sec : Second \cup {NoSecond},
               want : SUBSET (Role \cup Permission)]

LEMMA StartTypes == AccountsInit => AccountsTypeOK
<1> SUFFICES ASSUME AccountsInit PROVE AccountsTypeOK
  OBVIOUS
<1>1. now \in Second /\ account \in [User -> {"none", "active", "removed"}]
  BY DEF AccountsInit
<1>2. PICK r \in Role :
        /\ rolesOf = [u \in User |-> IF u = Founder THEN {r} ELSE {}]
        /\ grants  = [x \in Role |-> IF x = r THEN Permission ELSE {}]
  BY DEF AccountsInit
<1>3. /\ rolesOf \in [User -> SUBSET Role] /\ grants \in [Role -> SUBSET Permission]
      /\ asked \in [User -> SUBSET Role] /\ granted \in [Role -> SUBSET Permission]
      /\ possible \in [Role -> SUBSET Permission] /\ sees \in [Call -> SUBSET Permission]
  BY <1>2 DEF AccountsInit
<1>4. call \in [Call -> CallRecord] /\ \A c \in Call : At(c) = "new"
  BY DEF AccountsInit, Blank, CallRecord, Steps, Refreshing
<1>5. token \in [Token -> {"none", "live", "revoked"}] /\ parent \in [Token -> Second \cup {NoSecond}]
  BY DEF AccountsInit
<1> QED
  BY <1>1, <1>3, <1>4, <1>5 DEF AccountsInit, AccountsTypeOK, CallRecord, Refreshing

\* A call that begins, moves on or ends has a record of the type.
Changes(c) ==
  call' \in [Call -> CallRecord] /\ \A d \in Call : d # c => call'[d] = call[d]

LEMMA Records == AccountsTypeOK => call \in [Call -> CallRecord]
BY DEF AccountsTypeOK, CallRecord

LEMMA BeginRecord ==
  ASSUME call \in [Call -> CallRecord], NEW c \in Call,
         NEW st \in Steps, NEW who \in User \cup Role, NEW sec \in Second \cup {NoSecond},
         NEW want \in SUBSET (Role \cup Permission),
         Begin(c, st, who, sec, want)
  PROVE  /\ Changes(c)
         /\ At(c) = "new" /\ At(c)' = st /\ Who(c)' = who /\ call'[c].sec = sec
         /\ call'[c].want = want
<1> DEFINE rec == [at |-> st, who |-> who, sec |-> sec, want |-> want]
<1>1. rec \in CallRecord
  BY DEF CallRecord
<1>2. At(c) = "new" /\ call' = [call EXCEPT ![c] = rec]
  BY DEF Begin
<1> HIDE DEF rec
<1>3. Changes(c) /\ call'[c] = rec
  BY <1>1, <1>2 DEF Changes
<1> QED
  BY <1>2, <1>3 DEF rec

LEMMA GotoRecord ==
  ASSUME call \in [Call -> CallRecord], NEW c \in Call, NEW st \in Steps, Goto(c, st)
  PROVE  /\ Changes(c)
         /\ At(c)' = st /\ Who(c)' = Who(c) /\ call'[c].sec = call[c].sec
         /\ call'[c].want = call[c].want
BY DEF Goto, Changes, CallRecord

LEMMA EndRecord ==
  ASSUME call \in [Call -> CallRecord], NEW c \in Call, End(c)
  PROVE  Changes(c) /\ At(c)' = "done" /\ Who(c)' = Nobody /\ call'[c].sec = NoSecond
<1>1. Blank("done") \in CallRecord
  BY DEF Blank, CallRecord, Steps
<1>2. Changes(c) /\ call'[c] = Blank("done")
  BY <1>1 DEF End, Changes
<1> QED
  BY <1>2 DEF Blank

\* What AccountsTypeOK says of calls.
CallsTypeOK ==
  /\ call \in [Call -> CallRecord]
  /\ \A c \in Call :
       /\ At(c) \in Refreshing => Given(c) \in Token /\ token[Given(c)] # "none"
       /\ At(c) \in {"signing", "clearing", "filling"} => Who(c) \in User
       /\ At(c) \in {"clearing", "filling"} => call[c].want \subseteq Role
       /\ At(c) = "granting" => Who(c) \in Role /\ call[c].want \subseteq Permission

\* The calls stay as they are when one of them ends and no token is lost.
LEMMA EndedTypes ==
  ASSUME AccountsTypeOK, NEW c \in Call, Changes(c), At(c)' = "done",
         \A t \in Token : token[t] # "none" => token'[t] # "none"
  PROVE  CallsTypeOK'
<1>1. CallsTypeOK
  BY DEF AccountsTypeOK, CallsTypeOK, CallRecord
<1>2. ASSUME NEW d \in Call, d # c
      PROVE  /\ At(d)' \in Refreshing => Given(d)' \in Token /\ token'[Given(d)'] # "none"
             /\ At(d)' \in {"signing", "clearing", "filling"} => Who(d)' \in User
             /\ At(d)' \in {"clearing", "filling"} => call'[d].want \subseteq Role
             /\ At(d)' = "granting" => Who(d)' \in Role /\ call'[d].want \subseteq Permission
  <2>1. call'[d] = call[d]
    BY <1>2 DEF Changes
  <2> HIDE DEF Token
  <2> QED
    BY <1>1, <2>1 DEF CallsTypeOK
<1>3. At(c)' \notin Refreshing \cup {"signing", "clearing", "filling", "granting"}
  BY DEF Refreshing
<1>4. call' \in [Call -> CallRecord]
  BY DEF Changes
<1> HIDE DEF At, Given, Who, Token
<1> QED
  BY <1>2, <1>3, <1>4 DEF CallsTypeOK

LEMMA SessionTypes ==
  ASSUME AccountsTypeOK, NEW c \in Call,
         \/ \E u \in User : Login(c, u)
         \/ \E u \in User, s \in Second : Present(c, u, s)
         \/ CheckUser(c) \/ Rotate(c) \/ Sign(c) \/ RevokeReused(c)
  PROVE  AccountsTypeOK'
<1>1. ASSUME NEW u \in User, Login(c, u) PROVE AccountsTypeOK'
  <2>1. /\ Changes(c)
        /\ At(c)' = "signing" /\ Who(c)' = u
    BY <1>1, Records, BeginRecord DEF Login, Steps, Refreshing
  <2>2. CallsTypeOK'
    BY <1>1, <2>1 DEF Login, AccountsTypeOK, CallsTypeOK, Changes, Refreshing, sessionVars
  <2> QED
    BY <1>1, <2>2
    DEF Login, AccountsTypeOK, CallsTypeOK, CallRecord, sessionVars, rightsVars, userVars, grantVars
<1>2. ASSUME NEW u \in User, NEW s \in Second, Present(c, u, s) PROVE AccountsTypeOK'
  <2>1. /\ Changes(c)
        /\ At(c)' = (IF token[<<u, s>>] = "live" THEN "checking" ELSE "reused") /\ Who(c)' = u /\ call'[c].sec = s
        /\ call'[c].want = {}
    BY <1>2, Records, BeginRecord DEF Present, Steps, Refreshing
  <2>2. CallsTypeOK'
    BY <1>2, <2>1 DEF Present, AccountsTypeOK, CallsTypeOK, Changes, Refreshing
  <2> QED
    BY <1>2, <2>2
    DEF Present, AccountsTypeOK, CallsTypeOK, CallRecord, rightsVars, userVars, grantVars
<1>3. CASE CheckUser(c)
  <2>1. /\ Changes(c)
        /\ At(c)' \in {"rotating", "done"} /\ (At(c)' = "rotating" => Given(c)' = Given(c))
    BY <1>3, Records, GotoRecord, EndRecord DEF CheckUser, Steps, Refreshing
  <2>2. CallsTypeOK'
    BY <1>3, <2>1 DEF CheckUser, AccountsTypeOK, CallsTypeOK, Changes, Refreshing, sessionVars
  <2> QED
    BY <1>3, <2>2
    DEF CheckUser, AccountsTypeOK, CallsTypeOK, CallRecord, sessionVars, rightsVars, userVars, grantVars
<1>4. CASE Rotate(c)
  <2>1. /\ Changes(c)
        /\ At(c)' = "signing" /\ Who(c)' = Who(c) /\ call'[c].sec = call[c].sec
        /\ call'[c].want = call[c].want
    BY <1>4, Records, GotoRecord DEF Rotate, Steps, Refreshing
  <2>2. CallsTypeOK'
    <3>1. Given(c) \in Token /\ token[Given(c)] # "none" /\ Who(c) \in User
      BY <1>4 DEF Rotate, AccountsTypeOK, Refreshing
    <3>2. \A t \in Token : token[t] # "none" => token'[t] # "none"
      BY <1>4, <3>1 DEF Rotate, AccountsTypeOK
    <3> QED
      BY <2>1, <3>1, <3>2 DEF AccountsTypeOK, CallsTypeOK, Changes, Refreshing
  <2> QED
    BY <1>4, <2>2
    DEF Rotate, AccountsTypeOK, CallsTypeOK, CallRecord, rightsVars, userVars, grantVars
<1>5. CASE Sign(c)
  <2>1. <<Who(c), now>> \in Token /\ call[c].sec \in Second \cup {NoSecond}
    BY <1>5 DEF Sign, AccountsTypeOK
  <2>2. /\ token' \in [Token -> {"none", "live", "revoked"}]
        /\ \A t \in Token : token[t] # "none" => token'[t] # "none"
        /\ parent' \in [Token -> Second \cup {NoSecond}]
        /\ old' \subseteq Token
    <3>1. CASE token[<<Who(c), now>>] = "none"
      <4>1. /\ token' = [token EXCEPT ![<<Who(c), now>>] = "live"]
            /\ parent' = [parent EXCEPT ![<<Who(c), now>>] = call[c].sec]
            /\ old' \subseteq old \cup {<<Who(c), now>>}
        BY <1>5, <3>1 DEF Sign
      <4>2. /\ token \in [Token -> {"none", "live", "revoked"}] /\ old \subseteq Token
            /\ parent \in [Token -> Second \cup {NoSecond}]
        BY DEF AccountsTypeOK
      <4> HIDE DEF Token, Second, NoSecond
      <4> QED
        BY <2>1, <4>1, <4>2
    <3>2. CASE token[<<Who(c), now>>] # "none"
      BY <1>5, <3>2 DEF Sign, AccountsTypeOK
    <3> QED
      BY <3>1, <3>2
  <2>3. /\ Changes(c)
        /\ At(c)' = "done"
    BY <1>5, Records, EndRecord DEF Sign, Steps, Refreshing
  <2>4. CallsTypeOK'
    BY <2>2, <2>3, EndedTypes
  <2> QED
    BY <1>5, <2>2, <2>4
    DEF Sign, AccountsTypeOK, CallsTypeOK, CallRecord, rightsVars, userVars, grantVars
<1>6. CASE RevokeReused(c)
  <2>1. /\ Changes(c)
        /\ At(c)' = "done"
    BY <1>6, Records, EndRecord DEF RevokeReused, Steps, Refreshing
  <2>2. Who(c) \in User
    BY <1>6 DEF RevokeReused, AccountsTypeOK, Refreshing
  <2>3. /\ token' \in [Token -> {"none", "live", "revoked"}]
        /\ \A t \in Token : token[t] # "none" => token'[t] # "none"
        /\ old' \subseteq Token /\ overtaken' \subseteq User
    BY <1>6, <2>2 DEF RevokeReused, RevokeAll, AccountsTypeOK
  <2>4. CallsTypeOK'
    BY <2>1, <2>3, EndedTypes
  <2> QED
    BY <1>6, <2>3, <2>4
    DEF RevokeReused, RevokeAll, AccountsTypeOK, CallsTypeOK, CallRecord, rightsVars, userVars,
      grantVars
<1> QED
  BY <1>1, <1>2, <1>3, <1>4, <1>5, <1>6

LEMMA RightsTypes ==
  ASSUME AccountsTypeOK, NEW c \in Call,
         \/ \E u \in User, R \in RoleSets : UpdateUser(c, u, R)
         \/ ClearRoles(c) \/ FillRoles(c)
         \/ \E r \in Role, P \in GrantSets : BeginGrant(c, r, P)
         \/ Grant(c) \/ CallFails(c)
  PROVE  AccountsTypeOK'
<1>1. ASSUME NEW u \in User, NEW R \in RoleSets, UpdateUser(c, u, R) PROVE AccountsTypeOK'
  <2>1. /\ Changes(c)
        /\ At(c)' = "clearing" /\ Who(c)' = u /\ call'[c].sec = NoSecond
        /\ call'[c].want = R
    BY <1>1, Records, BeginRecord DEF UpdateUser, Steps, Refreshing
  <2>2. CallsTypeOK'
    BY <1>1, <2>1 DEF UpdateUser, AccountsTypeOK, CallsTypeOK, Changes, Refreshing, sessionVars
  <2> QED
    BY <1>1, <2>2
    DEF UpdateUser, AccountsTypeOK, CallsTypeOK, CallRecord, sessionVars, rightsVars, userVars, grantVars
<1>2. CASE ClearRoles(c)
  <2>1. /\ Changes(c)
        /\ At(c)' = "filling" /\ Who(c)' = Who(c) /\ call'[c].sec = call[c].sec
        /\ call'[c].want = call[c].want
    BY <1>2, Records, GotoRecord DEF ClearRoles, Steps, Refreshing
  <2>2. CallsTypeOK'
    <3>1. At(c) = "clearing" /\ UNCHANGED token
      BY <1>2 DEF ClearRoles, sessionVars
    <3> QED
      BY <2>1, <3>1 DEF AccountsTypeOK, CallsTypeOK, Changes, Refreshing
  <2>3. Who(c) \in User
    BY <1>2 DEF ClearRoles, AccountsTypeOK
  <2>4. rolesOf' \in [User -> SUBSET Role] /\ tangled' \subseteq User
    BY <1>2, <2>3 DEF ClearRoles, AccountsTypeOK
  <2>5. UNCHANGED <<sessionVars, account, asked, grantVars>>
    BY <1>2 DEF ClearRoles
  <2> QED
    BY <2>2, <2>4, <2>5 DEF AccountsTypeOK, CallsTypeOK, CallRecord, sessionVars, grantVars
<1>3. CASE FillRoles(c)
  <2>1. /\ Changes(c)
        /\ At(c)' = "done"
    BY <1>3, Records, EndRecord DEF FillRoles, Steps, Refreshing
  <2>2. CallsTypeOK'
    <3>1. UNCHANGED token
      BY <1>3 DEF FillRoles, sessionVars
    <3> QED
      BY <2>1, <3>1 DEF AccountsTypeOK, CallsTypeOK, Changes, Refreshing
  <2>3. Who(c) \in User /\ call[c].want \subseteq Role
    BY <1>3 DEF FillRoles, AccountsTypeOK
  <2>4. rolesOf' \in [User -> SUBSET Role] /\ asked' \in [User -> SUBSET Role]
    <3>1. /\ rolesOf[Who(c)] \cup call[c].want \in SUBSET Role
          /\ rolesOf \in [User -> SUBSET Role] /\ asked \in [User -> SUBSET Role]
      BY <2>3 DEF AccountsTypeOK
    <3>2. \/ /\ rolesOf' = [rolesOf EXCEPT ![Who(c)] = rolesOf[Who(c)] \cup call[c].want]
             /\ asked' = [asked EXCEPT ![Who(c)] = call[c].want]
          \/ UNCHANGED <<rolesOf, asked>>
      BY <1>3 DEF FillRoles
    <3> QED
      BY <2>3, <3>1, <3>2
  <2>5. UNCHANGED <<sessionVars, account, tangled, grantVars>>
    BY <1>3 DEF FillRoles
  <2>6. UNCHANGED <<now, account, token, parent, old, raced, overtaken, tangled, grantVars>>
    BY <2>5 DEF sessionVars
  <2> QED
    BY <2>2, <2>4, <2>6 DEF AccountsTypeOK, CallsTypeOK, CallRecord, grantVars
<1>4. ASSUME NEW r \in Role, NEW P \in GrantSets, BeginGrant(c, r, P) PROVE AccountsTypeOK'
  <2>1. /\ Changes(c)
        /\ At(c)' = "granting" /\ Who(c)' = r /\ call'[c].sec = NoSecond
        /\ call'[c].want = P
    BY <1>4, Records, BeginRecord DEF BeginGrant, Steps, Refreshing
  <2>2. CallsTypeOK'
    BY <1>4, <2>1
    DEF BeginGrant, AccountsTypeOK, CallsTypeOK, Changes, Refreshing, sessionVars, userVars
  <2>3. sees' \in [Call -> SUBSET Permission] /\ met' \subseteq Call
    BY <1>4 DEF BeginGrant, AccountsTypeOK
  <2> QED
    BY <1>4, <2>2, <2>3
    DEF BeginGrant, AccountsTypeOK, CallsTypeOK, CallRecord, sessionVars, userVars
<1>5. CASE Grant(c)
  <2>1. /\ Changes(c)
        /\ At(c)' = "done"
    BY <1>5, Records, EndRecord DEF Grant, Steps, Refreshing
  <2>2. UNCHANGED <<sessionVars, userVars, met>>
    BY <1>5 DEF Grant
  <2>3. CallsTypeOK'
    BY <2>1, <2>2 DEF AccountsTypeOK, CallsTypeOK, Changes, Refreshing, sessionVars, userVars
  <2>4. Who(c) \in Role /\ call[c].want \subseteq Permission
    BY <1>5 DEF Grant, AccountsTypeOK
  <2>5. /\ grants' \in [Role -> SUBSET Permission] /\ granted' \in [Role -> SUBSET Permission]
        /\ possible' \in [Role -> SUBSET Permission]
    <3> DEFINE W == (grants[Who(c)] \ sees[c]) \cup call[c].want
               M == IF c \in met THEN possible[Who(c)] \cup call[c].want ELSE call[c].want
    <3>1. \/ /\ grants' = [grants EXCEPT ![Who(c)] = W]
             /\ granted' = [granted EXCEPT ![Who(c)] = call[c].want]
             /\ possible' = [possible EXCEPT ![Who(c)] = M]
          \/ UNCHANGED <<grants, granted, possible>>
      BY <1>5 DEF Grant
    <3>2. /\ grants \in [Role -> SUBSET Permission] /\ granted \in [Role -> SUBSET Permission]
          /\ possible \in [Role -> SUBSET Permission]
          /\ W \in SUBSET Permission /\ M \in SUBSET Permission
      BY <2>4 DEF AccountsTypeOK
    <3> HIDE DEF W, M
    <3> QED
      BY <2>4, <3>1, <3>2
  <2>6. sees' \in [Call -> SUBSET Permission]
    <3>1. PICK rows : Deleted(c, rows)
      BY <1>5 DEF Grant
    <3>2. \A d \in Call : sees[d] \in SUBSET Permission /\ sees[d] \ rows \in SUBSET Permission
      BY DEF AccountsTypeOK
    <3> QED
      BY <3>1, <3>2 DEF Deleted
  <2> QED
    BY <2>2, <2>3, <2>5, <2>6 DEF AccountsTypeOK, CallsTypeOK, CallRecord, sessionVars, userVars
<1>6. CASE CallFails(c)
  <2>1. /\ Changes(c)
        /\ At(c)' = "done"
    BY <1>6, Records, EndRecord DEF CallFails, Steps, Refreshing
  <2>2. UNCHANGED <<sessionVars, account, rolesOf, asked, grants, granted, met, possible>>
    BY <1>6 DEF CallFails
  <2>3. CallsTypeOK'
    BY <2>1, <2>2 DEF AccountsTypeOK, CallsTypeOK, Changes, Refreshing, sessionVars
  <2>4. tangled' \subseteq User
    <3>1. At(c) = "filling" => Who(c) \in User
      BY DEF AccountsTypeOK
    <3>2. tangled' = (IF At(c) = "filling" THEN tangled \cup {Who(c)} ELSE tangled)
      BY <1>6 DEF CallFails
    <3> QED
      BY <3>1, <3>2 DEF AccountsTypeOK
  <2>5. sees' \in [Call -> SUBSET Permission]
    <3>1. \A d \in Call : sees[d] \in SUBSET Permission /\ sees[d] \ {} \in SUBSET Permission
      BY DEF AccountsTypeOK
    <3> QED
      BY <1>6, <3>1 DEF CallFails, Deleted
  <2> QED
    BY <2>2, <2>3, <2>4, <2>5 DEF AccountsTypeOK, CallsTypeOK, CallRecord, sessionVars
<1> QED
  BY <1>1, <1>2, <1>3, <1>4, <1>5, <1>6

LEMMA OtherTypes ==
  ASSUME AccountsTypeOK,
         \/ \E u \in User : Logout(u) \/ RemoveUser(u)
         \/ \E u \in User, R \in RoleSets : CreateUser(u, R)
         \/ Tick
  PROVE  AccountsTypeOK'
<1>1. ASSUME NEW u \in User, Logout(u) PROVE AccountsTypeOK'
  BY <1>1 DEF Logout, RevokeAll, AccountsTypeOK, rightsVars, userVars, grantVars
<1>2. ASSUME NEW u \in User, RemoveUser(u) PROVE AccountsTypeOK'
  BY <1>2 DEF RemoveUser, AccountsTypeOK, grantVars
<1>3. ASSUME NEW u \in User, NEW R \in RoleSets, CreateUser(u, R) PROVE AccountsTypeOK'
  BY <1>3 DEF CreateUser, AccountsTypeOK, sessionVars, grantVars
<1>4. CASE Tick
  BY <1>4 DEF Tick, AccountsTypeOK, rightsVars, userVars, grantVars
<1> QED
  BY <1>1, <1>2, <1>3, <1>4

LEMMA StutterTypes == AccountsTypeOK /\ UNCHANGED accountVars => AccountsTypeOK'
BY DEF accountVars, sessionVars, rightsVars, userVars, grantVars, AccountsTypeOK

\* All that the type invariant says is kept, whatever the users, roles and calls.
THEOREM TypesStay == AccountsSpec => []AccountsTypeOK
<1>1. AccountsTypeOK /\ [AccountsNext]_accountVars => AccountsTypeOK'
  BY SessionTypes, RightsTypes, OtherTypes, StutterTypes DEF AccountsNext, CallStep
<1> QED
  BY <1>1, StartTypes, PTL DEF AccountsSpec

-----------------------------------------------------------------------------
(* Sessions.  A step is calm if no call starts exchanging or gets on with  *)
(* it; most are, and most of these leave the tokens alone.                 *)

HIDE DEF Second, NoSecond, Token

LEMMA Tokens ==
  /\ NoSecond \notin Second
  /\ \A u \in User, s \in Second : <<u, s>> \in Token
  /\ \A t \in Token : t[1] \in User /\ t[2] \in Second /\ t = <<t[1], t[2]>>
BY DEF Second, NoSecond, Token

Calm == \A d \in Call : At(d)' \in Exchanging => call'[d] = call[d]

LEMMA CalmCalls ==
  ASSUME AccountsTypeOK, NEW c \in Call,
         \/ Sign(c) \/ RevokeReused(c)
         \/ \E u \in User, R \in RoleSets : UpdateUser(c, u, R)
         \/ ClearRoles(c) \/ FillRoles(c)
         \/ \E r \in Role, P \in GrantSets : BeginGrant(c, r, P)
         \/ Grant(c) \/ CallFails(c)
  PROVE  Calm
<1>1. CASE End(c)
  BY <1>1, Records, EndRecord DEF Changes, Calm, Exchanging
<1>2. ASSUME NEW u \in User, NEW R \in RoleSets, UpdateUser(c, u, R) PROVE Calm
  BY <1>2, Records, BeginRecord DEF UpdateUser, Changes, Calm, Exchanging, Steps
<1>3. CASE ClearRoles(c)
  BY <1>3, Records, GotoRecord DEF ClearRoles, Changes, Calm, Exchanging, Steps
<1>4. ASSUME NEW r \in Role, NEW P \in GrantSets, BeginGrant(c, r, P) PROVE Calm
  <2>1. r \in User \cup Role /\ "granting" \in Steps /\ Begin(c, "granting", r, NoSecond, P)
    BY <1>4 DEF BeginGrant, Steps
  <2>2. P \in SUBSET (Role \cup Permission)
    OBVIOUS
  <2> QED
    BY <2>1, <2>2, Records, BeginRecord DEF Changes, Calm, Exchanging
<1> QED
  BY <1>1, <1>2, <1>3, <1>4 DEF Sign, RevokeReused, FillRoles, Grant, CallFails

\* The steps that leave the tokens alone and may only add to those overtaken.
Aside ==
  /\ Calm
  /\ UNCHANGED <<token, parent, old, raced>>
  /\ overtaken \subseteq overtaken'

LEMMA AsideSteps ==
  ASSUME AccountsTypeOK,
         \/ \E c \in Call :
              \/ \E u \in User, R \in RoleSets : UpdateUser(c, u, R)
              \/ ClearRoles(c) \/ FillRoles(c)
              \/ \E r \in Role, P \in GrantSets : BeginGrant(c, r, P)
              \/ Grant(c) \/ CallFails(c)
         \/ \E u \in User : RemoveUser(u)
         \/ \E u \in User, R \in RoleSets : CreateUser(u, R)
         \/ Tick \/ UNCHANGED accountVars
  PROVE  Aside
<1>1. CASE \E c \in Call :
             \/ \E u \in User, R \in RoleSets : UpdateUser(c, u, R)
             \/ ClearRoles(c) \/ FillRoles(c)
             \/ \E r \in Role, P \in GrantSets : BeginGrant(c, r, P)
             \/ Grant(c) \/ CallFails(c)
  BY <1>1, CalmCalls
  DEF Aside, UpdateUser, ClearRoles, FillRoles, BeginGrant, Grant, CallFails, sessionVars
<1>2. CASE \E u \in User : RemoveUser(u)
  BY <1>2 DEF Aside, Calm, RemoveUser
<1>3. CASE \E u \in User, R \in RoleSets : CreateUser(u, R)
  BY <1>3 DEF Aside, Calm, CreateUser, sessionVars
<1>4. CASE Tick \/ UNCHANGED accountVars
  BY <1>4 DEF Aside, Calm, Tick, accountVars, sessionVars, rightsVars, userVars, grantVars
<1> QED
  BY <1>1, <1>2, <1>3, <1>4

\* A token has one holder still, if no call came to hold it, and it is revoked if one of those
\* that do is signing now.
LEMMA HolderStays ==
  ASSUME NEW u \in User, NEW s \in Second, OneHolder(u, s),
         parent' = parent,
         token[<<u, s>>] = "revoked" => token'[<<u, s>>] = "revoked",
         \A d \in Call : Holds(d, u, s)' =>
           /\ Holds(d, u, s)
           /\ At(d)' = "signing" => At(d) = "signing" \/ token'[<<u, s>>] = "revoked"
  PROVE  OneHolder(u, s)'
BY DEF OneHolder

LEMMA AsideKeeps ==
  ASSUME AccountsTypeOK, Aside
  PROVE  (SessionInv => SessionInv') /\ (OnceInv => OnceInv')
<1>1. SessionInv => SessionInv'
  BY DEF Aside, Calm, SessionInv, RevokedSessionsEnd, AccountsTypeOK
<1>2. ASSUME OnceInv PROVE OnceInv'
  <2> SUFFICES ASSUME NEW u \in User, NEW s \in Second, <<u, s>> \notin raced PROVE OneHolder(u, s)'
    BY DEF Aside, OnceInv
  <2>1. \A d \in Call : Holds(d, u, s)' => Holds(d, u, s) /\ At(d)' = At(d)
    BY DEF Aside, Calm, Holds
  <2> QED
    BY <1>2, <2>1, HolderStays DEF Aside, OnceInv
<1> QED
  BY <1>1, <1>2

\* All tokens of a user are revoked.
LEMMA RevokeAllKeeps ==
  ASSUME AccountsTypeOK, SessionInv, Calm, NEW u \in User, RevokeAll(u)
  PROVE  SessionInv' /\ (OnceInv => OnceInv')
<1>1. /\ \A t \in Token : token'[t] = "live" => token[t] = "live" /\ t[1] # u
      /\ \A t \in Token : token[t] # "live" => token'[t] = token[t]
      /\ \A t \in old' : token'[t] # "none"
      /\ \A t \in old' : t \in old \/ t[1] = u
      /\ overtaken \subseteq overtaken' /\ raced' = raced /\ parent' = parent
      /\ old' \subseteq Token
  <2>1. \A t \in Token : token'[t] = IF t[1] = u /\ token[t] = "live" THEN "revoked" ELSE token[t]
    BY DEF RevokeAll
  <2>2. old' = old \cup {t \in Token : t[1] = u /\ token[t] # "none"} /\ old \subseteq Token
    BY DEF RevokeAll, AccountsTypeOK
  <2>3. \A t \in old' : token'[t] # "none"
    BY <2>1, <2>2 DEF SessionInv
  <2> QED
    BY <2>1, <2>2, <2>3 DEF RevokeAll
<1>2. SessionInv'
  <2>1. ASSUME NEW c \in Call, At(c)' \in Exchanging, Given(c)' \in old'
        PROVE  Who(c)' \in overtaken'
    <3>1. call'[c] = call[c] /\ At(c) \in Exchanging
      BY <2>1 DEF Calm
    <3>2. CASE Who(c) = u
      BY <3>1, <3>2 DEF RevokeAll, Exchanging
    <3>3. CASE Who(c) # u
      BY <1>1, <2>1, <3>1, <3>3 DEF SessionInv
    <3> QED
      BY <3>2, <3>3
  <2>2. RevokedSessionsEnd'
    BY <1>1 DEF SessionInv, RevokedSessionsEnd
  <2> QED
    BY <1>1, <2>1, <2>2 DEF SessionInv
<1>3. ASSUME OnceInv PROVE OnceInv'
  <2> SUFFICES ASSUME NEW x \in User, NEW s \in Second, <<x, s>> \notin raced PROVE OneHolder(x, s)'
    BY <1>1 DEF OnceInv
  <2>1. \A d \in Call : Holds(d, x, s)' => Holds(d, x, s) /\ At(d)' = At(d)
    BY DEF Calm, Holds
  <2>2. token[<<x, s>>] = "revoked" => token'[<<x, s>>] = "revoked"
    BY <1>1, Tokens
  <2> QED
    BY <1>1, <1>3, <2>1, <2>2, HolderStays DEF OnceInv
<1> QED
  BY <1>2, <1>3

\* The steps of a session that are not calm, and Sign.
LEMMA LoginKeeps ==
  ASSUME AccountsTypeOK, NEW c \in Call, NEW u \in User, Login(c, u)
  PROVE  (SessionInv => SessionInv') /\ (OnceInv => OnceInv')
<1>1. /\ UNCHANGED <<token, parent, old, raced, overtaken>>
      /\ call'[c].sec = NoSecond /\ At(c)' = "signing"
      /\ \A d \in Call : d # c => call'[d] = call[d]
  BY Records, BeginRecord DEF Login, Changes, Steps, sessionVars
<1>2. SessionInv => SessionInv'
  <2>1. Given(c)' \notin Token
    BY <1>1, Tokens
  <2> QED
    BY <1>1, <2>1 DEF SessionInv, RevokedSessionsEnd, AccountsTypeOK
<1>3. ASSUME OnceInv PROVE OnceInv'
  <2> SUFFICES ASSUME NEW x \in User, NEW s \in Second, <<x, s>> \notin raced PROVE OneHolder(x, s)'
    BY <1>1 DEF OnceInv
  <2>1. \A d \in Call : Holds(d, x, s)' => Holds(d, x, s) /\ At(d)' = At(d)
    BY <1>1, Tokens DEF Holds
  <2> QED
    BY <1>1, <1>3, <2>1, HolderStays DEF OnceInv
<1> QED
  BY <1>2, <1>3

LEMMA PresentKeeps ==
  ASSUME AccountsTypeOK, NEW c \in Call, NEW u \in User, NEW s \in Second, Present(c, u, s)
  PROVE  (SessionInv => SessionInv') /\ (OnceInv => OnceInv')
<1>1. /\ UNCHANGED <<token, parent, old, overtaken>>
      /\ Who(c)' = u /\ call'[c].sec = s
      /\ At(c) = "new"
      /\ At(c)' = (IF token[<<u, s>>] = "live" THEN "checking" ELSE "reused")
      /\ \A d \in Call : d # c => call'[d] = call[d]
  <2> DEFINE st == IF token[<<u, s>>] = "live" THEN "checking" ELSE "reused"
  <2>1. st \in Steps /\ Begin(c, st, u, s, {})
    BY DEF Present, Steps, Refreshing
  <2> HIDE DEF st
  <2>2. Changes(c) /\ At(c) = "new" /\ At(c)' = st /\ Who(c)' = u /\ call'[c].sec = s
    BY <2>1, Records, BeginRecord
  <2> QED
    BY <2>2 DEF Present, Changes, st
<1>2. raced \subseteq raced'
      /\ (<<u, s>> \notin raced' => \A d \in Call : Given(d) # <<u, s>> \/ At(d) = "reused")
  BY DEF Present
<1>3. ASSUME SessionInv PROVE SessionInv'
  <2>1. ASSUME NEW d \in Call, At(d)' \in Exchanging, Given(d)' \in old PROVE Who(d)' \in overtaken
    <3>1. CASE d = c
      <4>1. <<u, s>> \in old /\ token[<<u, s>>] = "live"
        BY <1>1, <2>1, <3>1 DEF Exchanging
      <4>2. <<u, s>>[1] \in overtaken
        BY <1>3, <4>1 DEF SessionInv, RevokedSessionsEnd
      <4> QED
        BY <1>1, <3>1, <4>2
    <3>2. CASE d # c
      BY <1>1, <1>3, <2>1, <3>2 DEF SessionInv
    <3> QED
      BY <3>1, <3>2
  <2> QED
    BY <1>1, <1>3, <2>1 DEF SessionInv, RevokedSessionsEnd
<1>4. ASSUME OnceInv PROVE OnceInv'
  <2>1. ASSUME NEW x \in User, NEW y \in Second, <<x, y>> # <<u, s>>, NEW d \in Call, Holds(d, x, y)'
        PROVE  Holds(d, x, y) /\ At(d)' = At(d)
    BY <1>1, <2>1 DEF Holds
  <2>2. ASSUME <<u, s>> \notin raced', NEW d \in Call, Holds(d, u, s)'
        PROVE  d = c /\ At(d)' = "checking" /\ token[<<u, s>>] = "live"
    BY <1>1, <1>2, <2>2 DEF Holds, Exchanging
  <2> SUFFICES ASSUME NEW x \in User, NEW y \in Second, <<x, y>> \notin raced' PROVE OneHolder(x, y)'
    BY DEF OnceInv
  <2>3. OneHolder(x, y)
    BY <1>2, <1>4 DEF OnceInv
  <2>4. CASE x = u /\ y = s
    BY <1>1, <2>2, <2>3, <2>4 DEF OneHolder
  <2>5. CASE <<x, y>> # <<u, s>>
    BY <1>1, <2>1, <2>3, <2>5, HolderStays
  <2> QED
    BY <2>4, <2>5
<1> QED
  BY <1>3, <1>4

LEMMA CheckUserKeeps ==
  ASSUME AccountsTypeOK, NEW c \in Call, CheckUser(c)
  PROVE  (SessionInv => SessionInv') /\ (OnceInv => OnceInv')
<1>1. /\ UNCHANGED <<token, parent, old, raced, overtaken>>
      /\ At(c) = "checking" /\ At(c)' \in {"rotating", "done"}
      /\ At(c)' = "rotating" => Who(c)' = Who(c) /\ call'[c].sec = call[c].sec
      /\ \A d \in Call : d # c => call'[d] = call[d]
  BY Records, GotoRecord, EndRecord DEF CheckUser, Changes, Steps, Refreshing, sessionVars
<1>2. SessionInv => SessionInv'
  BY <1>1 DEF SessionInv, RevokedSessionsEnd, Exchanging
<1>3. ASSUME OnceInv PROVE OnceInv'
  <2> SUFFICES ASSUME NEW x \in User, NEW s \in Second, <<x, s>> \notin raced PROVE OneHolder(x, s)'
    BY <1>1 DEF OnceInv
  <2>1. \A d \in Call : Holds(d, x, s)' =>
          Holds(d, x, s) /\ (At(d)' = "signing" => At(d) = "signing")
    BY <1>1 DEF Holds, Exchanging
  <2> QED
    BY <1>1, <1>3, <2>1, HolderStays DEF OnceInv
<1> QED
  BY <1>2, <1>3

LEMMA RotateKeeps ==
  ASSUME AccountsTypeOK, NEW c \in Call, Rotate(c)
  PROVE  (SessionInv => SessionInv') /\ (OnceInv => OnceInv')
<1>1. /\ UNCHANGED <<parent, old, raced, overtaken>>
      /\ At(c) = "rotating" /\ At(c)' = "signing"
      /\ Who(c)' = Who(c) /\ call'[c].sec = call[c].sec
      /\ \A d \in Call : d # c => call'[d] = call[d]
  BY Records, GotoRecord DEF Rotate, Changes, Steps
<1>2. /\ Given(c) \in Token /\ token'[Given(c)] = "revoked"
      /\ \A t \in Token : t # Given(c) => token'[t] = token[t]
  BY DEF Rotate, AccountsTypeOK, Refreshing
<1>3. SessionInv => SessionInv'
  BY <1>1, <1>2 DEF SessionInv, RevokedSessionsEnd, Exchanging, AccountsTypeOK
<1>4. ASSUME OnceInv PROVE OnceInv'
  <2> SUFFICES ASSUME NEW x \in User, NEW s \in Second, <<x, s>> \notin raced PROVE OneHolder(x, s)'
    BY <1>1 DEF OnceInv
  <2>1. \A d \in Call : Holds(d, x, s)' => Holds(d, x, s) /\ (d # c => At(d)' = At(d))
    BY <1>1 DEF Holds, Exchanging
  <2>2. /\ token[<<x, s>>] = "revoked" => token'[<<x, s>>] = "revoked"
        /\ Holds(c, x, s)' => token'[<<x, s>>] = "revoked"
    BY <1>1, <1>2, Tokens DEF Holds
  <2> QED
    BY <1>1, <1>4, <2>1, <2>2, HolderStays DEF OnceInv
<1> QED
  BY <1>3, <1>4

LEMMA SignKeeps ==
  ASSUME AccountsTypeOK, NEW c \in Call, Sign(c)
  PROVE  (SessionInv => SessionInv') /\ (OnceInv => OnceInv')
<1> DEFINE t == <<Who(c), now>>
<1>1. /\ UNCHANGED <<raced, overtaken>>
      /\ At(c) = "signing" /\ At(c)' = "done"
      /\ \A d \in Call : d # c => call'[d] = call[d]
      /\ t \in Token /\ Who(c) \in User /\ now \in Second
  BY Records, EndRecord, Tokens DEF Sign, Changes, AccountsTypeOK
<1>2. CASE token[t] # "none"
  <2>1. UNCHANGED <<token, parent, old>>
    BY <1>2 DEF Sign
  <2>2. Calm
    BY <1>1 DEF Calm, Exchanging
  <2> QED
    BY <1>1, <2>1, <2>2, AsideKeeps DEF Aside
<1>3. CASE token[t] = "none"
  <2>1. /\ token'[t] = "live" /\ \A x \in Token : x # t => token'[x] = token[x]
        /\ parent'[t] = call[c].sec /\ \A x \in Token : x # t => parent'[x] = parent[x]
        /\ old' = IF Given(c) \in old THEN old \cup {t} ELSE old
    BY <1>1, <1>3 DEF Sign, AccountsTypeOK
  <2>2. ASSUME SessionInv PROVE SessionInv'
    <3>0. t \notin old
      BY <1>3, <2>2 DEF SessionInv
    <3>1. Given(c) \in old => Who(c) \in overtaken
      BY <1>1, <2>2 DEF SessionInv, Exchanging
    <3>2. \A x \in old' : token'[x] # "none"
      BY <1>1, <2>1, <2>2 DEF SessionInv, AccountsTypeOK
    <3>3. RevokedSessionsEnd'
      <4> SUFFICES ASSUME NEW x \in old', token'[x] = "live" PROVE x[1] \in overtaken'
        BY DEF RevokedSessionsEnd
      <4>1. CASE x = t
        BY <1>1, <2>1, <3>0, <3>1, <4>1
      <4>2. CASE x # t
        <5>1. x \in old /\ x \in Token
          BY <2>1, <4>2 DEF AccountsTypeOK
        <5> QED
          BY <1>1, <2>1, <2>2, <4>2, <5>1 DEF SessionInv, RevokedSessionsEnd
      <4> QED
        BY <4>1, <4>2
    <3>4. ASSUME NEW d \in Call, At(d)' \in Exchanging, Given(d)' \in old'
          PROVE  Who(d)' \in overtaken'
      <4>1. d # c /\ call'[d] = call[d]
        BY <1>1, <3>4 DEF Exchanging
      <4>2. CASE Given(d) \in old
        BY <1>1, <2>2, <3>4, <4>1, <4>2 DEF SessionInv
      <4>3. CASE Given(d) = t /\ Given(c) \in old
        BY <1>1, <3>1, <4>1, <4>3
      <4> QED
        BY <2>1, <3>4, <4>1, <4>2, <4>3
    <3> QED
      BY <3>2, <3>3, <3>4 DEF SessionInv
  <2>3. ASSUME OnceInv PROVE OnceInv'
    <3>1. ASSUME NEW u \in User, NEW s \in Second, NEW d \in Call, Holds(d, u, s)'
          PROVE  Holds(d, u, s) /\ At(d)' = At(d) /\ d # c
      BY <1>1, <3>1 DEF Holds, Exchanging
    <3>2. ASSUME NEW u \in User, NEW s \in Second, token[<<u, s>>] = "revoked"
          PROVE  token'[<<u, s>>] = "revoked"
      BY <1>3, <2>1, <3>2, Tokens
    <3> SUFFICES ASSUME NEW u \in User, NEW s \in Second, <<u, s>> \notin raced
                 PROVE  OneHolder(u, s)'
      BY <1>1 DEF OnceInv
    <3>3. OneHolder(u, s)
      BY <2>3 DEF OnceInv
    <3>4. ASSUME NEW x \in Second, parent'[<<u, x>>] = s
          PROVE  /\ token[<<u, s>>] = "revoked"
                 /\ \A d \in Call : ~Holds(d, u, s)'
                 /\ \A y \in Second : parent'[<<u, y>>] = s => x = y
      <4>1. CASE <<u, x>> = t
        <5>1. Holds(c, u, s) /\ At(c) = "signing"
          BY <1>1, <2>1, <3>4, <4>1 DEF Holds, Exchanging
        <5>2. \A y \in Second : parent[<<u, y>>] # s
          BY <3>3, <5>1 DEF OneHolder
        <5>3. \A y \in Second : parent'[<<u, y>>] = s => <<u, y>> = t
          BY <2>1, <5>2, Tokens
        <5> QED
          BY <3>1, <3>3, <4>1, <5>1, <5>3 DEF OneHolder
      <4>2. CASE <<u, x>> # t
        <5>1. parent[<<u, x>>] = s
          BY <2>1, <3>4, <4>2, Tokens
        <5>2. ~Holds(c, u, s)
          BY <3>3, <5>1 DEF OneHolder
        <5>3. \A y \in Second : <<u, y>> = t => parent'[<<u, y>>] # s
          BY <1>1, <2>1, <5>2 DEF Holds, Exchanging
        <5>4. \A y \in Second : parent'[<<u, y>>] = s => parent[<<u, y>>] = s
          BY <2>1, <5>3, Tokens
        <5> QED
          BY <3>1, <3>3, <5>1, <5>4 DEF OneHolder
      <4> QED
        BY <4>1, <4>2
    <3>5. /\ \A e, d \in Call : Holds(e, u, s)' /\ Holds(d, u, s)' => e = d
          /\ \A e \in Call : Holds(e, u, s)' /\ At(e)' = "signing" => token'[<<u, s>>] = "revoked"
      BY <3>1, <3>2, <3>3 DEF OneHolder
    <3> QED
      BY <3>2, <3>4, <3>5 DEF OneHolder
  <2> QED
    BY <2>2, <2>3
<1> QED
  BY <1>2, <1>3

LEMMA StartSessions == AccountsInit => SessionInv /\ OnceInv /\ VouchedInv
<1> SUFFICES ASSUME AccountsInit PROVE SessionInv /\ OnceInv /\ VouchedInv
  OBVIOUS
<1>1. \A c \in Call : At(c) = "new"
  BY DEF AccountsInit, Blank
<1>2. old = {} /\ \A t \in Token : parent[t] = NoSecond
  BY DEF AccountsInit
<1>3. \A u \in User, s, x \in Second : parent[<<u, x>>] # s
  BY <1>2, Tokens
<1> QED
  BY <1>1, <1>2, <1>3
  DEF SessionInv, RevokedSessionsEnd, OnceInv, OneHolder, VouchedInv, Holds, Exchanging

LEMMA SessionsStay ==
  ASSUME AccountsTypeOK, SessionInv, OnceInv, [AccountsNext]_accountVars
  PROVE  SessionInv' /\ OnceInv'
<1>1. ASSUME NEW c \in Call, CallStep(c) PROVE SessionInv' /\ OnceInv'
  <2>1. CASE RevokeReused(c)
    <3>1. Who(c) \in User
      BY <2>1 DEF RevokeReused, AccountsTypeOK, Refreshing, Token
    <3> QED
      BY <2>1, <3>1, CalmCalls, RevokeAllKeeps DEF RevokeReused
  <2> QED
    BY <1>1, <2>1, LoginKeeps, PresentKeeps, CheckUserKeeps, RotateKeeps, SignKeeps,
       AsideSteps, AsideKeeps
    DEF CallStep
<1>2. ASSUME NEW u \in User, Logout(u) PROVE SessionInv' /\ OnceInv'
  <2>1. Calm
    BY <1>2 DEF Logout, Calm
  <2> QED
    BY <1>2, <2>1, RevokeAllKeeps DEF Logout
<1> QED
  BY <1>1, <1>2, AsideSteps, AsideKeeps DEF AccountsNext

\* A call goes on past the check of the user only if the user is there, or was overtaken then.
LEMMA VouchedStays ==
  ASSUME AccountsTypeOK, VouchedInv, [AccountsNext]_accountVars
  PROVE  VouchedInv'
<1>1. ASSUME NEW c \in Call, NEW u \in User, Login(c, u) PROVE VouchedInv'
  BY <1>1 DEF Login, Begin, VouchedInv, AccountsTypeOK, sessionVars, rightsVars, userVars, grantVars
<1>2. ASSUME NEW c \in Call, NEW u \in User, NEW s \in Second, Present(c, u, s) PROVE VouchedInv'
  BY <1>2 DEF Present, Begin, VouchedInv, AccountsTypeOK, rightsVars, userVars, grantVars
<1>3. ASSUME NEW c \in Call, CheckUser(c) PROVE VouchedInv'
  BY <1>3
  DEF CheckUser, Goto, End, Blank, VouchedInv, AccountsTypeOK, sessionVars, rightsVars, userVars, grantVars
<1>4. ASSUME NEW c \in Call, Rotate(c) PROVE VouchedInv'
  BY <1>4 DEF Rotate, Goto, VouchedInv, AccountsTypeOK, rightsVars, userVars, grantVars
<1>5. ASSUME Calm, overtaken \subseteq overtaken',
             \A u \in User : account[u] = "active" =>
               account'[u] = "active" \/
               \A d \in Call : Who(d) = u /\ At(d) \in {"rotating", "signing"} => u \in overtaken'
      PROVE  VouchedInv'
  <2> SUFFICES ASSUME NEW d \in Call, At(d)' \in {"rotating", "signing"}
               PROVE  account'[Who(d)'] = "active" \/ Who(d)' \in overtaken'
    BY DEF VouchedInv
  <2>1. call'[d] = call[d]
    BY <1>5 DEF Calm, Exchanging
  <2>2. Who(d) \in User
    BY <2>1 DEF AccountsTypeOK, Refreshing, Token
  <2> QED
    BY <1>5, <2>1, <2>2 DEF VouchedInv
<1>6. ASSUME Calm, overtaken \subseteq overtaken', account' = account PROVE VouchedInv'
  BY <1>5, <1>6
<1>7. ASSUME NEW c \in Call, Sign(c) \/ RevokeReused(c) PROVE VouchedInv'
  BY <1>6, <1>7, CalmCalls DEF Sign, RevokeReused, RevokeAll, rightsVars, userVars, grantVars
<1>8. ASSUME NEW u \in User, Logout(u) PROVE VouchedInv'
  BY <1>6, <1>8 DEF Logout, Calm, RevokeAll, rightsVars, userVars, grantVars
<1>9. ASSUME NEW u \in User, RemoveUser(u) PROVE VouchedInv'
  <2>1. \A x \in User : x # u => account'[x] = account[x]
    BY <1>9 DEF RemoveUser, AccountsTypeOK
  <2>2. \A d \in Call : Who(d) = u /\ At(d) \in {"rotating", "signing"} => u \in overtaken'
    BY <1>9 DEF RemoveUser
  <2>3. Calm /\ overtaken \subseteq overtaken'
    BY <1>9 DEF RemoveUser, Calm
  <2> QED
    BY <1>5, <2>1, <2>2, <2>3
<1>10. ASSUME NEW u \in User, NEW R \in RoleSets, CreateUser(u, R) PROVE VouchedInv'
  <2>1. \A x \in User : account[x] = "active" => account'[x] = "active"
    BY <1>10 DEF CreateUser, AccountsTypeOK
  <2>2. Calm /\ overtaken' = overtaken
    BY <1>10 DEF CreateUser, Calm, sessionVars
  <2> QED
    BY <1>5, <2>1, <2>2
<1>11. ASSUME NEW c \in Call,
              \/ \E u \in User, R \in RoleSets : UpdateUser(c, u, R)
              \/ ClearRoles(c) \/ FillRoles(c)
              \/ \E r \in Role, P \in GrantSets : BeginGrant(c, r, P)
              \/ Grant(c) \/ CallFails(c)
       PROVE  VouchedInv'
  <2>1. account' = account
    BY <1>11 DEF UpdateUser, ClearRoles, FillRoles, BeginGrant, Grant, CallFails,
                  rightsVars, userVars
  <2> QED
    BY <1>6, <1>11, <2>1, AsideSteps DEF Aside
<1>12. CASE Tick \/ UNCHANGED accountVars
  BY <1>6, <1>12, AsideSteps DEF Aside, Tick, accountVars, rightsVars, userVars, grantVars
<1> QED
  BY <1>1, <1>2, <1>3, <1>4, <1>7, <1>8, <1>9, <1>10, <1>11, <1>12 DEF AccountsNext, CallStep

-----------------------------------------------------------------------------
(* Roles and permissions.                                                  *)

LEMMA StartRights == AccountsInit => RolesInv /\ GrantsInv
<1> SUFFICES ASSUME AccountsInit PROVE RolesInv /\ GrantsInv
  OBVIOUS
<1>1. \A c \in Call : At(c) = "new"
  BY DEF AccountsInit, Blank
<1>2. asked = rolesOf /\ granted = grants /\ possible = grants
  BY DEF AccountsInit
<1> QED
  BY <1>1, <1>2 DEF RolesInv, GrantsInv, Filling, Granting

\* No call starts or ends a change of roles or permissions, and none of these change.
Still ==
  /\ \A d \in Call : At(d)' \in {"clearing", "filling", "granting"} => call'[d] = call[d]
  /\ \A d \in Call : At(d) = "filling" => call'[d] = call[d]
  /\ UNCHANGED <<rolesOf, asked, grantVars>>
  /\ tangled \subseteq tangled'
  /\ \A u \in User : account[u] # "none" => account'[u] # "none"

LEMMA StillKeeps ==
  ASSUME AccountsTypeOK, RolesInv, GrantsInv, Still
  PROVE  RolesInv' /\ GrantsInv'
<1>1. \A d \in Call, u \in User : d \in Filling(u)' <=> d \in Filling(u)
  BY DEF Still, Filling
<1>2. \A u \in User : Filling(u)' = Filling(u)
  BY <1>1 DEF Filling
<1>3. ASSUME NEW c \in Call, At(c)' \in {"clearing", "filling"} PROVE account'[Who(c)'] # "none"
  <2>1. call'[c] = call[c] /\ Who(c) \in User
    BY <1>3 DEF Still, AccountsTypeOK
  <2> QED
    BY <1>3, <2>1 DEF Still, RolesInv
<1>4. RolesInv'
  BY <1>2, <1>3 DEF Still, RolesInv
<1>5. GrantsInv'
  BY DEF Still, GrantsInv, Granting, grantVars
<1> QED
  BY <1>4, <1>5

LEMMA StillSteps ==
  ASSUME AccountsTypeOK,
         \/ \E c \in Call :
              \/ \E u \in User : Login(c, u)
              \/ \E u \in User, s \in Second : Present(c, u, s)
              \/ CheckUser(c) \/ Rotate(c) \/ Sign(c) \/ RevokeReused(c)
         \/ \E u \in User : Logout(u) \/ RemoveUser(u)
         \/ Tick \/ UNCHANGED accountVars
  PROVE  Still
<1>1. ASSUME NEW c \in Call, NEW u \in User, Login(c, u) PROVE Still
  BY <1>1 DEF Still, Login, Begin, rightsVars, userVars, grantVars, AccountsTypeOK
<1>2. ASSUME NEW c \in Call, NEW u \in User, NEW s \in Second, Present(c, u, s) PROVE Still
  BY <1>2 DEF Still, Present, Begin, rightsVars, userVars, grantVars, AccountsTypeOK
<1>3. ASSUME NEW c \in Call, CheckUser(c) \/ Rotate(c) \/ Sign(c) \/ RevokeReused(c) PROVE Still
  BY <1>3
  DEF Still, CheckUser, Rotate, Sign, RevokeReused, RevokeAll, Goto, End, Blank, rightsVars,
      userVars, grantVars, AccountsTypeOK
<1>4. ASSUME NEW u \in User, Logout(u) PROVE Still
  BY <1>4 DEF Still, Logout, RevokeAll, rightsVars, userVars, grantVars
<1>5. ASSUME NEW u \in User, RemoveUser(u) PROVE Still
  BY <1>5 DEF Still, RemoveUser, AccountsTypeOK
<1>6. CASE Tick \/ UNCHANGED accountVars
  BY <1>6 DEF Still, Tick, accountVars, rightsVars, userVars, grantVars
<1> QED
  BY <1>1, <1>2, <1>3, <1>4, <1>5, <1>6

\* The changes of roles leave the permissions alone.
LEMMA RolesLeaveGrants ==
  ASSUME AccountsTypeOK, GrantsInv,
         UNCHANGED <<grants, granted, met, possible>>,
         \A d \in Call : At(d)' = "granting" => call'[d] = call[d] /\ sees'[d] = sees[d]
  PROVE  GrantsInv'
BY DEF GrantsInv, Granting

LEMMA CreateUserKeeps ==
  ASSUME AccountsTypeOK, RolesInv, GrantsInv,
         NEW u \in User, NEW R \in RoleSets, CreateUser(u, R)
  PROVE  RolesInv' /\ GrantsInv'
<1>1. Filling(u) = {}
  BY DEF CreateUser, RolesInv, Filling
<1>2. /\ rolesOf'[u] = R /\ asked'[u] = R
      /\ \A x \in User : x # u => rolesOf'[x] = rolesOf[x] /\ asked'[x] = asked[x]
      /\ \A x \in User : account[x] # "none" => account'[x] # "none"
      /\ UNCHANGED <<call, tangled, grantVars>>
  BY DEF CreateUser, AccountsTypeOK
<1>3. \A c \in Call : At(c) \in {"clearing", "filling"} => Who(c) \in User
  BY DEF AccountsTypeOK
<1>4. \A x \in User : Filling(x)' = Filling(x)
  BY <1>2 DEF Filling
<1>5. RolesInv'
  BY <1>1, <1>2, <1>3, <1>4 DEF RolesInv
<1> QED
  BY <1>2, <1>5, RolesLeaveGrants DEF grantVars

LEMMA UpdateUserKeeps ==
  ASSUME AccountsTypeOK, RolesInv, GrantsInv, NEW c \in Call,
         NEW u \in User, NEW R \in RoleSets, UpdateUser(c, u, R)
  PROVE  RolesInv' /\ GrantsInv'
<1>1. /\ At(c) = "new" /\ At(c)' = "clearing" /\ Who(c)' = u /\ account[u] = "active"
      /\ \A d \in Call : d # c => call'[d] = call[d]
      /\ UNCHANGED rightsVars
  BY DEF UpdateUser, Begin, AccountsTypeOK
<1>2. \A x \in User : Filling(x)' = Filling(x)
  BY <1>1 DEF Filling
<1>3. RolesInv'
  BY <1>1, <1>2 DEF RolesInv, rightsVars, userVars
<1> QED
  BY <1>1, <1>3, RolesLeaveGrants DEF rightsVars, grantVars

LEMMA ClearRolesKeeps ==
  ASSUME AccountsTypeOK, RolesInv, GrantsInv, NEW c \in Call, ClearRoles(c)
  PROVE  RolesInv' /\ GrantsInv'
<1> DEFINE u == Who(c)
<1>1. /\ u \in User /\ At(c) = "clearing" /\ At(c)' = "filling" /\ Who(c)' = u
      /\ \A d \in Call : d # c => call'[d] = call[d]
      /\ rolesOf'[u] = {} /\ \A x \in User : x # u => rolesOf'[x] = rolesOf[x]
      /\ UNCHANGED <<account, asked, grantVars>>
      /\ tangled' = IF Filling(u) = {} THEN tangled \ {u} ELSE tangled \cup {u}
  <2>1. u \in User /\ At(c) = "clearing"
    BY DEF ClearRoles, AccountsTypeOK
  <2>2. At(c)' = "filling" /\ Who(c)' = u /\ \A d \in Call : d # c => call'[d] = call[d]
    BY DEF ClearRoles, Goto, AccountsTypeOK
  <2>3. rolesOf'[u] = {} /\ \A x \in User : x # u => rolesOf'[x] = rolesOf[x]
    BY <2>1 DEF ClearRoles, AccountsTypeOK
  <2> QED
    BY <2>1, <2>2, <2>3 DEF ClearRoles
<1>2. Filling(u)' = Filling(u) \cup {c} /\ \A x \in User : x # u => Filling(x)' = Filling(x)
  BY <1>1 DEF Filling
<1>3. RolesInv'
  <2>1. \A d \in Call : At(d)' \in {"clearing", "filling"} => account'[Who(d)'] # "none"
    BY <1>1 DEF RolesInv
  <2>2. ASSUME NEW x \in User, x \notin tangled'
        PROVE  /\ Filling(x)' = {} => rolesOf'[x] = asked'[x]
               /\ \A d \in Filling(x)' : rolesOf'[x] = {} /\ \A e \in Filling(x)' : d = e
    <3>1. CASE x = u
      BY <1>1, <1>2, <2>2, <3>1
    <3>2. CASE x # u
      BY <1>1, <1>2, <2>2, <3>2 DEF RolesInv
    <3> QED
      BY <3>1, <3>2
  <2> QED
    BY <2>1, <2>2 DEF RolesInv
<1> QED
  BY <1>1, <1>3, RolesLeaveGrants DEF grantVars

LEMMA FillRolesKeeps ==
  ASSUME AccountsTypeOK, RolesInv, GrantsInv, NEW c \in Call, FillRoles(c)
  PROVE  RolesInv' /\ GrantsInv'
<1> DEFINE u == Who(c)
<1>1. /\ u \in User /\ At(c) = "filling" /\ At(c)' = "done"
      /\ \A d \in Call : d # c => call'[d] = call[d]
      /\ \A x \in User : x # u => rolesOf'[x] = rolesOf[x] /\ asked'[x] = asked[x]
      /\ UNCHANGED <<account, tangled, grantVars>>
  <2>1. u \in User /\ At(c) = "filling"
    BY DEF FillRoles, AccountsTypeOK
  <2>2. At(c)' = "done" /\ \A d \in Call : d # c => call'[d] = call[d]
    BY DEF FillRoles, End, Blank, AccountsTypeOK
  <2>3. \A x \in User : x # u => rolesOf'[x] = rolesOf[x] /\ asked'[x] = asked[x]
    BY <2>1 DEF FillRoles, AccountsTypeOK
  <2> QED
    BY <2>1, <2>2, <2>3 DEF FillRoles
<1>2. rolesOf[u] = {} => rolesOf'[u] = call[c].want /\ asked'[u] = call[c].want
  BY <1>1 DEF FillRoles, AccountsTypeOK
<1>3. /\ c \in Filling(u)
      /\ \A d \in Call, x \in User : d \in Filling(x)' <=> d # c /\ d \in Filling(x)
      /\ \A x \in User : x # u => c \notin Filling(x)
      /\ \A x \in User : Filling(x) \subseteq Call /\ Filling(x)' \subseteq Call
  BY <1>1 DEF Filling
<1>4. RolesInv'
  <2>1. \A d \in Call : At(d)' \in {"clearing", "filling"} => account'[Who(d)'] # "none"
    BY <1>1 DEF RolesInv
  <2>2. ASSUME NEW x \in User, x \notin tangled'
        PROVE  /\ Filling(x)' = {} => rolesOf'[x] = asked'[x]
               /\ \A d \in Filling(x)' : rolesOf'[x] = {} /\ \A e \in Filling(x)' : d = e
    <3>1. CASE x = u
      <4>1. rolesOf[u] = {} /\ \A d \in Filling(u) : c = d
        BY <1>1, <1>3, <2>2, <3>1 DEF RolesInv
      <4>2. \A d : d \notin Filling(x)'
        BY <1>1, <1>3, <3>1, <4>1
      <4>3. rolesOf'[x] = asked'[x]
        BY <1>2, <3>1, <4>1
      <4> QED
        BY <4>2, <4>3
    <3>2. CASE x # u
      <4>1. \A d : d \in Filling(x)' <=> d \in Filling(x)
        BY <1>3, <3>2
      <4> QED
        BY <1>1, <2>2, <3>2, <4>1 DEF RolesInv
    <3> QED
      BY <3>1, <3>2
  <2> QED
    BY <2>1, <2>2 DEF RolesInv
<1> QED
  BY <1>1, <1>4, RolesLeaveGrants DEF grantVars

\* The changes of permissions leave the roles of users alone.
LEMMA GrantsLeaveRoles ==
  ASSUME AccountsTypeOK, RolesInv,
         UNCHANGED <<account, rolesOf, asked>>,
         \A u \in User : u \in tangled => u \in tangled',
         \A d \in Call : At(d)' \in {"clearing", "filling"} => call'[d] = call[d],
         \A d \in Call : At(d) = "filling" => call'[d] = call[d]
  PROVE  RolesInv'
<1>1. \A u \in User : Filling(u)' = Filling(u)
  BY DEF Filling
<1> QED
  BY <1>1 DEF RolesInv

LEMMA BeginGrantKeeps ==
  ASSUME AccountsTypeOK, RolesInv, GrantsInv, NEW c \in Call,
         NEW r \in Role, NEW P \in GrantSets, BeginGrant(c, r, P)
  PROVE  RolesInv' /\ GrantsInv'
<1>1. /\ At(c) = "new" /\ At(c)' = "granting" /\ Who(c)' = r /\ sees'[c] = grants[r]
      /\ \A d \in Call : d # c => call'[d] = call[d] /\ sees'[d] = sees[d]
      /\ UNCHANGED <<userVars, grants, granted, possible>>
      /\ met' = IF Granting(r) = {} THEN met ELSE met \cup Granting(r) \cup {c}
  BY DEF BeginGrant, Begin, Granting, AccountsTypeOK
<1>2. RolesInv'
  BY <1>1, GrantsLeaveRoles DEF userVars
<1>3. /\ Granting(r)' = Granting(r) \cup {c}
      /\ \A x \in Role : x # r => Granting(x)' = Granting(x)
      /\ \A x \in Role : c \notin Granting(x) /\ Granting(x) \subseteq Call
  BY <1>1 DEF Granting
<1>4. GrantsInv'
  <2> SUFFICES ASSUME NEW x \in Role, NEW d \in Granting(x)', d \notin met'
               PROVE  sees'[d] = grants[x] /\ \A e \in Granting(x)' : d = e
    BY <1>1 DEF GrantsInv
  <2>1. met \subseteq met'
    BY <1>1
  <2>2. CASE x = r
    <3>1. Granting(r) = {}
      BY <1>1, <1>3, <2>2
    <3> QED
      BY <1>1, <1>3, <2>2, <3>1
  <2>3. CASE x # r
    <3>1. d \in Granting(x) /\ d # c /\ d \notin met /\ Granting(x)' = Granting(x) /\ d \in Call
      BY <1>3, <2>1, <2>3
    <3>2. sees[d] = grants[x] /\ \A e \in Granting(x) : d = e
      BY <3>1 DEF GrantsInv
    <3> QED
      BY <1>1, <3>1, <3>2
  <2> QED
    BY <2>2, <2>3
<1> QED
  BY <1>2, <1>4

LEMMA GrantKeeps ==
  ASSUME AccountsTypeOK, RolesInv, GrantsInv, NEW c \in Call, Grant(c)
  PROVE  RolesInv' /\ GrantsInv'
<1> DEFINE r == Who(c)
           want == call[c].want
           rest == grants[r] \ sees[c]
<1>1. /\ r \in Role /\ At(c) = "granting" /\ At(c)' = "done"
      /\ \A d \in Call : d # c => call'[d] = call[d]
      /\ UNCHANGED <<userVars, met>>
  BY DEF Grant, End, Blank, AccountsTypeOK
<1>2. /\ \A x \in Role : x # r => grants'[x] = grants[x] /\ granted'[x] = granted[x]
                                                 /\ possible'[x] = possible[x]
      /\ \/ /\ grants'[r] = rest \cup want /\ granted'[r] = want
            /\ possible'[r] = IF c \in met THEN possible[r] \cup want ELSE want
         \/ UNCHANGED <<grants, granted, possible>>
  BY <1>1 DEF Grant, AccountsTypeOK
<1>3. \A d \in Call : d # c /\ Who(d) # r => sees'[d] = sees[d]
  BY DEF Grant, Deleted, AccountsTypeOK
<1>4. RolesInv'
  BY <1>1, GrantsLeaveRoles DEF userVars
<1>5. /\ c \in Granting(r)
      /\ \A x \in Role : Granting(x)' = Granting(x) \ {c}
      /\ \A x \in Role : \A d \in Granting(x) : d \in Call /\ Who(d) = x
  BY <1>1 DEF Granting
<1>6. granted'[r] \subseteq grants'[r] /\ grants'[r] \subseteq possible'[r]
  <2>1. granted[r] \subseteq grants[r] /\ grants[r] \subseteq possible[r]
    BY <1>1 DEF GrantsInv
  <2>2. c \notin met => rest = {}
    BY <1>1, <1>5 DEF GrantsInv
  <2> QED
    BY <1>2, <2>1, <2>2
<1>7. ASSUME NEW x \in Role, NEW d \in Granting(x)', d \notin met'
      PROVE  sees'[d] = grants'[x] /\ \A e \in Granting(x)' : d = e
  <2>1. d \in Granting(x) /\ d # c /\ d \notin met
    BY <1>1, <1>5, <1>7
  <2>2. sees[d] = grants[x] /\ \A e \in Granting(x) : d = e
    BY <2>1 DEF GrantsInv
  <2>3. x # r
    BY <1>5, <2>1, <2>2
  <2> QED
    BY <1>2, <1>3, <1>5, <2>1, <2>2, <2>3
<1>8. GrantsInv'
  <2>1. \A x \in Role : granted'[x] \subseteq grants'[x] /\ grants'[x] \subseteq possible'[x]
    BY <1>2, <1>6 DEF GrantsInv
  <2> QED
    BY <1>7, <2>1 DEF GrantsInv
<1> QED
  BY <1>4, <1>8

LEMMA CallFailsKeeps ==
  ASSUME AccountsTypeOK, RolesInv, GrantsInv, NEW c \in Call, CallFails(c)
  PROVE  RolesInv' /\ GrantsInv'
<1>1. /\ At(c)' = "done"
      /\ \A d \in Call : d # c => call'[d] = call[d]
      /\ UNCHANGED <<account, rolesOf, asked, grants, granted, met, possible>>
      /\ tangled' = IF At(c) = "filling" THEN tangled \cup {Who(c)} ELSE tangled
  BY DEF CallFails, End, Blank, AccountsTypeOK
<1>2. \A x \in User : x \notin tangled' => Filling(x)' = Filling(x)
  BY <1>1 DEF Filling
<1>3. RolesInv'
  BY <1>1, <1>2 DEF RolesInv
<1>4. \A d \in Call : d # c => sees'[d] = sees[d]
  BY DEF CallFails, Deleted, AccountsTypeOK
<1> QED
  BY <1>1, <1>3, <1>4, RolesLeaveGrants

LEMMA RightsStay ==
  ASSUME AccountsTypeOK, RolesInv, GrantsInv, [AccountsNext]_accountVars
  PROVE  RolesInv' /\ GrantsInv'
BY StillSteps, StillKeeps, CreateUserKeeps, UpdateUserKeeps, ClearRolesKeeps, FillRolesKeeps,
   BeginGrantKeeps, GrantKeeps, CallFailsKeeps
DEF AccountsNext, CallStep

-----------------------------------------------------------------------------
(* The theorems.                                                           *)

LEMMA InvariantStays == AccountsSpec => []AccountsInv
<1>1. AccountsInit => AccountsInv
  BY StartTypes, StartSessions, StartRights DEF AccountsInv
<1>2. AccountsTypeOK /\ [AccountsNext]_accountVars => AccountsTypeOK'
  BY SessionTypes, RightsTypes, OtherTypes, StutterTypes DEF AccountsNext, CallStep
<1>3. AccountsInv /\ [AccountsNext]_accountVars => AccountsInv'
  BY <1>2, SessionsStay, VouchedStays, RightsStay DEF AccountsInv
<1> QED
  BY <1>1, <1>3, PTL DEF AccountsSpec

\* A token is exchanged for one other, unless two refreshes with it were under way at once.
THEOREM ExchangedOnce == AccountsSpec => []RotatedOnce
<1>1. AccountsInv => RotatedOnce
  BY DEF AccountsInv, OnceInv, OneHolder, RotatedOnce
<1> QED
  BY <1>1, InvariantStays, PTL

\* Ended sessions stay ended, unless a call was past its checks when they were.
THEOREM EndedStaysEnded == AccountsSpec => []RevokedSessionsEnd
<1>1. AccountsInv => RevokedSessionsEnd
  BY DEF AccountsInv, SessionInv
<1> QED
  BY <1>1, InvariantStays, PTL

\* Nobody who was removed is issued a token, unless a call was past its check just then.
THEOREM RemovedGetNone == AccountsSpec => NoTokenForRemoved
<1>1. ASSUME AccountsInv, [AccountsNext]_accountVars, NEW t \in Token,
             token[t] = "none", token'[t] = "live"
      PROVE  account[t[1]] = "active" \/ t[1] \in overtaken
  <2>1. PICK c \in Call : Sign(c)
    <3>1. AccountsTypeOK
      BY <1>1 DEF AccountsInv
    <3>2. CASE Aside
      BY <1>1, <3>2 DEF Aside
    <3>3. ASSUME NEW u, RevokeAll(u) PROVE FALSE
      BY <1>1, <3>3 DEF RevokeAll
    <3>4. ASSUME NEW c \in Call, Rotate(c) PROVE FALSE
      BY <1>1, <3>1, <3>4 DEF Rotate, AccountsTypeOK
    <3> QED
      BY <1>1, <3>1, <3>2, <3>3, <3>4, AsideSteps
      DEF AccountsNext, CallStep, Login, Present, CheckUser, RevokeReused, Logout, sessionVars
  <2>2. t = <<Who(c), now>>
    BY <1>1, <2>1 DEF Sign, AccountsInv, AccountsTypeOK
  <2> QED
    BY <1>1, <2>1, <2>2 DEF AccountsInv, VouchedInv, Sign
<1>2. AccountsInv /\ [AccountsNext]_accountVars =>
        [\A t \in Token : token[t] = "none" /\ token'[t] = "live" =>
           account[t[1]] = "active" \/ t[1] \in overtaken]_accountVars
  BY <1>1
<1> QED
  BY <1>2, InvariantStays, PTL DEF AccountsSpec, NoTokenForRemoved

\* Rights are those asked for, but for changes under way or gone wrong, and for what changes
\* of permissions that overlap leave of each other.
THEOREM RightsFollow == AccountsSpec => []RightsAsAsked
<1>1. AccountsInv => RightsAsAsked
  <2> SUFFICES ASSUME AccountsInv, NEW u \in User, u \notin tangled, Filling(u) = {}
               PROVE  /\ UNION {granted[r] : r \in asked[u]} \subseteq Rights(u)
                      /\ Rights(u) \subseteq UNION {possible[r] : r \in asked[u]}
    BY DEF RightsAsAsked
  <2>1. rolesOf[u] = asked[u] /\ asked[u] \subseteq Role
    BY DEF AccountsInv, RolesInv, AccountsTypeOK
  <2>2. \A r \in asked[u] : granted[r] \subseteq grants[r] /\ grants[r] \subseteq possible[r]
    BY <2>1 DEF AccountsInv, GrantsInv
  <2> QED
    BY <2>1, <2>2 DEF Rights
<1> QED
  BY <1>1, InvariantStays, PTL
=============================================================================
