# TLA+ models of the bakery manager

A bakery runs on one server (NestJS, Prisma, PostgreSQL; `backend/`) and a phone app
(Flutter; `mobile/`) that goes on working without a network. This directory holds TLA+
models of that program, the TLC configurations that check them on small instances, and
theorems that TLAPS proves about them for instances of any size. `PROJECT.json` lists the
runs, the mutants each property is tried against, the source lines of every definition, the
findings, the hazards and the theorems.

To check a run, `tlc -workers 2 -config sales.cfg MCSales`; to check the proofs of a
module, `tlapm Sales_proofs.tla`.

Contents: 1 the system, 2 the modules, 3 runs and bounds, 4 fairness, 5 proofs, 6 what the
code does not do although it says so, 7 what is left out, 8 what comes next.

## 1. The system

The server is a set of NestJS services over one PostgreSQL database. Each request is a
handler of its own; between two database calls any other handler may run. Prisma's
`$transaction(async tx => ...)` makes a group of calls commit together, at PostgreSQL's
default isolation (READ COMMITTED), so what is read inside may be replaced before it is
written. After a commit most handlers write the audit log; when that fails the client gets
an error for something that has happened. The phone submits an entry directly when it can
and otherwise queues it; the queue is sent in batches later.

| component | state it keeps | operations | interacts with | what is hard about it | correct when |
|---|---|---|---|---|---|
| sync server (`sync`) | `sync_queue` rows: status, serverId, createdAt | push, pull, queueStatus | sales, expenses, attendance, production services | concurrent requests for one operation, crash between commit and record, ageing rows, retries | an operation is applied once as far as the idempotency key reaches; SYNCED is true and final |
| sync engine (`mobile/.../offline`) | local queue, reference cache, isSyncing | enqueue, syncNow, retry, remove, submitOrQueue | sync server | lost answers, timeouts, restarts, an access token that expires, user and engine on the same rows | nothing leaves the queue undone, nothing stays in it for ever while the server takes it, no entry is recorded twice |
| sales (`sales`) | sales, their payments | create, void | document numbers, cash box, customers | void is a check and two updates with no transaction | a voided debt leaves the balance, once |
| customers (`customers`) | balance, transactions | addTransaction, CRUD | sales | balance and transactions are two representations of one fact | they agree |
| document numbers (`document-sequence`) | a counter row per type | next | sales, purchases | read and write may be separated by another call | numbers are distinct |
| cash box (`cash-box`, `expenses`) | a box per day, its transactions | openDay, addTransaction, closeDay; entries of sales and expenses | sales, expenses | entries while the box is being closed, two closings | a closed box's balance counts all it holds and stays |
| flour and dough (`flour-inventory`, `dough`) | the flour row, its transactions | getOrCreate, setMinStock, addStock, a dough batch | notifications | check of the stock outside the transaction; find-or-create; quantities that nothing validates | no dough overdraws flour, there is one row, a low store is noticed |
| materials, fuel (`inventory`, `fuel`) | levels, minimum or capacity | create, remove, adjustStock; createTank, addFuel, consumeFuel | notifications | level read again after the transaction | a low store is noticed |
| daily closing (`daily-closing`) | a row of totals and a lock per day | closeDay, reopen | reads nearly everything | totals read while documents are made; the lock is looked at by no one else | locked totals are those of the day, but for what changed since |
| reports, card terminal, payroll, AI assistant | payrolls, notifications, conversations | profitAndLoss, salesReport, reconcileForDate, generate, ask | read what the others write | several queries, no transaction around them | where nothing changed meanwhile, figures are the books'; an alarm has a cause |
| accounts (`auth`, `users`, `roles`, guards) | users, roles, refresh tokens | login, refresh, logout, changes of users and roles | every request | token rotation and revocation under concurrent requests; roles replaced in two statements | a token is exchanged once, no session outlives logout, a user has the rights given last, each but for overlaps |
| purchases, suppliers | purchases, supplier balance | create, recordPayment, debtReport | document numbers | suppliers removed while something is owed | balance and transactions agree, and the report leaves out only what it must |
| products (`products`) | products, price history | create, update, remove | sales, sync pull | a price change is two statements | one current price |
| customers, suppliers, employees, payment methods | rows with unique keys | create, update, remove, ensureDefaults | sync pull | look first, insert later | one row per key |
| reference data (`sync` pull, the phone's cache) | the phone's copy, lastPulledAt | pull, merge | all of the above | rows that appear between a query and the server time; an app that stops between two tables | what was made before lastPulledAt is cached, no older than when it was asked for |
| backups (`backup`) | backup rows, dump files | runBackup, cron, cleanup | `pg_dump` | overlap of cron and manual run; cleanup inside the try | SUCCESS stands for a dump that can be restored; one is always kept |
| production, attendance, notifications, audit log | rows | single inserts and updates | | nothing is read and written back | |
| screens, session of the phone | form state, stored token | | sync engine, API | logout with a filled queue | |

## 2. The modules

    AtLeastOnce                 what offline synchronisation promises
       ^ implemented by
    SyncSystem  = SyncServer + SyncPhone + the network     (SyncTypes: shared statuses)
    Sales       = CashBox + DocumentSequence + sales, voids, customers
       implements CashBox
    Stock                       flour, dough, materials, fuel
    Accounts                    users, roles, sessions
    DayBooks                    closing, reports, reconciliation, payroll, assistant
    Office      = Suppliers + ReferenceCache + Backups, all of them on Catalog
                                (Suppliers also on DocumentSequence)

    X_proofs                    the theorems about X, and their proofs
    SumTheorems                 facts about sums over finite sets, for any of them

Every module models a handler as a sequence of steps, one per database call that another
request can come before or after; a Prisma transaction whose calls cannot be told apart
from outside is one step. A variable named `pc`, `stage`, `entering`, `closing`, `voiding`
or a request's `pc` says which call comes next. An exception and the end of the server
process are steps of their own. Requests that are refused and change nothing are left out.

**SyncServer** is `SyncService.push`. `status`, `serverId` and `stale` are the columns of
`sync_queue` (`stale` is age: ten minutes from `createdAt`, which never changes).
`Find`, `Create`, `Refind`, `ApplyCommits`, `Record`, `RecordError` are the calls of
`processOperation` and `applyAndRecord`; `ResolveExisting` is what both lookups do with a
row. `ApplyRejects`, `ApplyThrowsLate`, `RecordThrows` and `QueryThrows` are its exception
paths, `Crash` the end of the process. A business record is its ordinal among those
created for the operation. `made` and `error` are locals and are reset when the handler
goes on to the next operation.

**SyncPhone** is `SyncEngine`, its SQLite queue and `submitOrQueue`. A Dart function runs
undisturbed up to its next await.  The loop over the results of a push has none (sqlite3 is
called synchronously), so it is one step, except that the app may be closed anywhere in it
and every statement of it is a transaction (`RestartAmidAnswers`). `fate` records what has become of each entry. `authorised` says whether the
stored access token is still accepted: it lives for fifteen minutes (`configuration.ts` line 7),
and nothing on the phone exchanges it. **SyncSystem** joins
both: `waiting` is the handler whose response the phone awaits, `direct` the fate of the
direct POST, which carries no idempotency key. With an expired token the global JwtAuthGuard
answers 401 before any handler begins: `PushRefused` fails the push, a direct POST is refused. **AtLeastOnce** is the abstract
specification: a queued operation leaves the queue executed or withdrawn, and only queued
operations are executed, how often is left open.

**CashBox** has the boxes of the days and the requests that work on them. The amounts do
not matter to what can go wrong, only which transactions a sum was taken over, so
`counted[d]` is the set of transactions in `calculatedBalance`. An entry finds an open box
(`FindNamed` for the manual entry, `FindLatest` and `FindNone` for expenses and sales, which
take the latest open box and go on without one) and then enters it; a closing checks, sums
up and updates.

**DocumentSequence** is `next`: `NextReads`, then `NextWrites`, which writes back the value
read plus one. **Sales** adds `create` (number, insert, cash, commit with the customer's
debt) and `void` (`CheckActive`, `UpdateStatus`, `CorrectBalance`). It inherits CashBox's
state: a sale is one of the requests that enter cash.

**Stock** has three kinds of store under one set of actions, because they share the code's
shape: a change in a transaction, a comparison with a minimum afterwards, a notification.
They differ where the code differs: dough compares the stock first, outside the
transaction, and reads the level again afterwards, as `consumeFuel` does; `adjustStock`
uses the level its own update returned. Requests about flour begin with `getOrCreate`. Only the
DTO of a dough asks for a positive quantity; the bodies of `addStock`, `addFuel`, `adjustStock`,
`consumeFuel` and `setMinStock` are inline types, which the ValidationPipe lets through, so
`Amounts` are any integers. `Receive` with a negative one takes from a store with no check of the
stock and no notification.

**Accounts** is `AuthService`, `UsersService`, `RolesService` and what the guards read. A
refresh token is the pair of its user and the second it was signed in, which is all that its
JWT holds; `token` is its row. A request in a slot of `Call` goes through its database calls:
login and refresh (`Present`, `CheckUser`, `Rotate`, `Sign`, or `RevokeReused`), the change of
a user's roles (`ClearRoles`, `FillRoles`) and of a role's permissions (`Grant`, one
transaction at READ COMMITTED). A change of permissions deletes the rows it saw when it began
(`sees`): what another one added, or deleted and created again, since then (`Deleted`) is not
among them and stays, and a row that both want makes the later one fail on the unique pair. `Logout`, `CreateUser` and
`RemoveUser` have one call that matters. `Rights` and `Allowed` are the guards' view.

**DayBooks** has the documents of a day by kind, and requests that read one table after the
other (`Read`), each in the order of its code (`ClosingReads`, `ProfitReads`, ...): `closeDay`
from `BeginClosing` to the upsert in `Close`, `reopen`, the reports, `reconcileForDate`,
`generate` of the payroll, and `ask`. A document comes into being in one step here, its
commit; how its handler gets there is the business of the other modules. What a request read
is a set of documents, and its totals are sums over it. The payments that `reconcileForDate`
reads are found by the name of their method alone (`Found`): those of voided sales and those to
suppliers are among them, those by another method of type CARD are not.

**Catalog** has the rows that documents refer to: products with prices, customers, suppliers,
employees, payment methods, materials, tanks. `Look` is the search for a row with the same
key, `Insert` the moment `createdAt` is taken, `Appear` the commit. `UpdateProduct`,
`ClosePrice` and `OpenPrice` are the three calls of a change of price. **ReferenceCache** is
`pull` query by query (`Query`), the server's time (`AnswerPull`), the merge on the phone table
by table (`MergeChanges`), and the time it keeps (`Remember`). **Suppliers** is `create` of the
purchases with its number, `recordPayment` and `debtReport`. **Backups** is `runBackup`: the
record, the process of `pg_dump`, its file, the removal of old files, and the catch around it
all. **Office** puts the four together on one database and one clock; a constant scene says
which table each row belongs to and who is at work.

### History variables and provisos

The code has places where two requests that overlap produce a wrong result, and no lock
prevents it. A property that ignored this would be false, and one that allowed anything
would say nothing. So the models record the overlap in a history variable that no guard
reads, and the properties say: without this overlap, the promise holds. In other words
they pin down the only cause.

| variable | recorded | property |
|---|---|---|
| `failed`, `stale` (SyncServer) | the operation's row was recorded as failed, or grew old | `AtMostOnce`, `NoParallelWork`, `SyncedIsFinal`, `RecordedOnce` |
| `disturbed` (CashBox) | an entry was between finding and entering while a closing held its sum | `ClosingIsComplete` |
| `contested` (CashBox) | two closings of a day were under way at once | `ClosingIsFinal` |
| `rewound` (DocumentSequence) | a call of next replaced a value it had not read | `DuplicateNeedsRace` |
| `torn`, `twice` (Sales) | a void failed between its updates; two voids overlapped | `BalancesAgree` |
| `undercut`, `raced` (Stock) | doughs past their check from whose row another request has taken; two requests about to create the row | `NotOverdrawn`, `OneFlourRow` |
| `settled` (Stock) | low stores that were notified, or that became low with nobody to notify it (a new minimum, a negative delivery, a failure) | `LowIsNoticed` |
| `parent`, `raced` (Accounts) | which token a token was exchanged for; tokens with two refreshes at once | `RotatedOnce` |
| `old`, `overtaken` (Accounts) | tokens of sessions begun before all were revoked; users with a login or refresh past its checks at that moment | `RevokedSessionsEnd`, `NoTokenForRemoved` |
| `asked`, `granted`, `tangled` (Accounts) | what was last set; users with two changes of roles at once, or a torn one | `RightsAsAsked` |
| `met`, `possible` (Accounts) | changes of permissions that overlapped; what such changes may leave on a role besides what was granted last | `RightsAsAsked` |
| `moved` (DayBooks) | documents that changed since a request began to read | `ProfitsAgree`, `AlarmIsReal` |
| `contested` (DayBooks) | the last request to close or reopen the day met another one | `LockHolds` |
| `raced` (Catalog) | products with two changes of the price at once, or a torn one | `OneCurrentPrice` |
| `late` (ReferenceCache) | rows that appeared behind the pull that should have brought them | `CacheComplete` |
| `asked` (ReferenceCache) | the changes made to each row when the pull was asked for | `MergedIsFresh` |
| `before`, `dawdled` (Backups) | the rows there were when a dump was asked for; dumps that took longer than dumps are kept | `SuccessIsRestorable`, `SomeDumpIsKept` |

Operators whose comment calls them faulty variants (`NeverFresh`, `AlwaysEnough`, ...) are
what the mutants of `PROJECT.json` put in the place of the real definition; no
specification uses them.

## 3. Runs and bounds

| run | instance | what it shows |
|---|---|---|
| `sync_server` | 2 operations, 2 concurrent requests, any list of up to 2 operations with repetitions, 2 records per operation | The idempotency key lets an operation be applied once; two handlers never work on one operation; SYNCED is true and final |
| `sync_twice` | 1 operation, 2 requests | violation, see section 6 |
| `sync_system` | 1 operation, 2 requests, 1 accident | an entry is recorded twice in two ways only; failures shown are failures recorded; `AtLeastOnce` is implemented; no row stays PENDING for ever while synchronisation is started again and again and the token is accepted |
| `sync_batch` | 2 operations in batches, 1 request, 1 accident | a request that breaks in the middle, an app closed while answers are stored |
| `sync_reconnect` | 1 operation, 2 requests, no accident | violation, see section 6 |
| `cash_box` | 2 days, 2 expenses, 1 manual entry, 2 closings | closed days are complete and final, except where entries or closings overlapped |
| `sales` | 3 sales, 2 voids, 1 customer, 1 day | balances agree; a duplicate number needs a race |
| `sales_credit` | 1 sale on credit | violation, see section 6 |
| `stock` | 2 requests at a time, 2 ids for flour rows, 1 material, 1 tank, quantities 1 and -1, levels -1 to 1 | only an undercut dough and a negative delivery overdraw; one row; low stores noticed |
| `accounts` | 3 calls, 2 users, 2 roles, 2 permissions, 3 seconds, tokens that live for 2 | tokens are exchanged once, sessions end, users have the rights last given, and more only where changes of permissions overlapped; each but for roles that are replaced at once or torn |
| `day_books` | 9 kinds of days of 2 documents, 2 requests, 2 questions | where nothing changed, closing and report agree; a locked closing gives way only to a reopening that found it; an alarm has a cause besides the payments wrongly taken or left |
| `office` | 3 rows, 2 changes, 2 purchases, 1 payment, 2 dumps, 3 moments, in 10 scenes | one current price, a complete copy as new as its pull, payables accounted for, dumps that can be restored |

Why these bounds are enough to be interesting:

* Every race in this code is between two requests; the third request or operation in
  `sync_server`, `sales` and `cash_box` is there for a later victim (two sales race for the
  number, a third one meets the duplicate).
* `MaxEffects` is 2 where a second record is possible, so that being recorded twice is
  reachable; in `sync_batch` it is 1, which only leaves out further retries.
* `MaxFaults` is 1: one lost message, timeout, crash or failing query at every possible
  moment. Being offline loses messages too and is not counted.
* `MaxLedger` and `MaxLevel` cap sums that the code does not cap. `Amounts` in `stock` is
  {-1, 1}: two doughs of 1 meet a stock of 1, and a delivery of -1 takes it from under one.
* `accounts`: the third call is the one that meets what two others left (a token presented
  again after two refreshes raced, a third change of roles). `Life` and `MaxTime` are 2, so
  that a token expires and two tokens of one user fall in different seconds, or in one.
* `day_books`: any two documents can be on either side of any two queries; the kinds are
  paired so that each request meets two of those it reads, or one read and one not. A slip meets a
  sale by the terminal's method, a sale by another card method, and a payment to a supplier. Of the
  two questions one mentions nothing.
* `office`: a scene is a part of the office at work, with the rows, changes and actors that
  meet there. Between components that share only the rows of Catalog the product of all would
  show nothing that the scenes do not; the theorems hold for any set of scenes, the one in
  which all are at work included. `Retention` is 1 and the clock has 3 moments, so that a dump
  grows old while a later one is made. The payment to a supplier is of -2, which nothing refuses.
* `Payment` is empty and there is no closing in `sales`: the box is in `cash_box`, and the
  theorem that Sales implements CashBox carries its results over.

Symmetry is used where the identities are interchangeable and no liveness is checked:
operations and requests of the server, sales and voids, the expenses and the closings,
the request slots and the flour ids, calls and roles of `accounts`, requests of `day_books`. `Doc`, `Sale` and `Entry` are the same set in
`sales`, so permuting one permutes all. The names of days and of the manual entry are not
permuted, for the order of days and the membership in `Payment` matter.

Deadlock is checked in the sync runs and in `stock`. It is not in `cash_box`, `sales`,
`sales_credit`, `accounts`, `day_books` and `office`, where each request is made once and then
nothing is left to do.

## 4. Fairness

`Progress` in SyncSystem is weak fairness of: every handler's own steps (Node runs the
continuation of a database call that has returned), the phone's own steps (Dart likewise,
and Dio's timeouts are finite), delivery of requests and responses while the phone is
online, and the passing of time (`RowAges`). Accidents, the user's clicks and the changes
of connectivity get none. A direct POST is served and answered or given up.

`AutoSpec` adds nothing: synchronisation starts only where the code starts it, when the app
opens, when connectivity returns, after a retry. Nothing in `submitOrQueue` starts one, and
there is no timer. The user is given no fairness. What `PendingSettles` needs of the user is its
premise instead: the phone is online from some point on, and `syncNow` gets to select rows again
and again. `sync_reconnect` shows what happens otherwise. Nor is it assumed that the token
lasts: `TokenExpires` may happen whenever, at the opening of the app the stored token may have
expired long ago, and the property promises that a row leaves PENDING or that the token is the
reason. In `sync_reconnect` a token that lasts is a premise, so that the counterexample is one
of the engine alone.

## 5. Proofs

Every proof goes down to leaves that tlapm checks. Nothing is assumed but
the constants' assumptions: operations of a batch are operations (`BatchesAssumption`),
services throw ConflictException or something else (`ErrorsAssumption`), bounds are natural
numbers (`MaxEffectsAssumption`, `MaxFaultsAssumption`, the second half of
`AmountsAssumption`), null ids are no ids (`NoReqAssumption`, `DayAssumption`,
`NoClosingAssumption`, `SaleAssumption`, `StoreAssumption`), the set of operations is
finite (`OpAssumption`, which gives created_at a next value), a manual entry is an entry
(`PaymentAssumption`), sales are asked for with sensible terms (`TermsAssumption`), and
quantities are integers (`AmountsAssumption` of Stock). In the newer modules they say
that users, roles and nobody are apart and the seed's user is a user (`PeopleAssumption`),
that roles and permissions are set to sets of them (`SetsAssumption`), that documents have
kinds and amounts and are not requests (`DocAssumption`, `ReqAssumption`), what questions and
scenes are made of (`QuestionAssumption`, `SceneAssumption`), that rows, changes and "none" are
apart (`RowAssumption`, `PhoneAssumption`), that purchases, payments and dumps are among those
who act (`SupplierAssumption`, `DumpAssumption`), that orders are natural numbers, as their DTO
demands, and payments to suppliers integers (`OrderAssumption`), and that times are natural (`TimeAssumption`, `ClockAssumption`).

* **SyncServer_proofs.** `ServerInv` adds to the types `KeyGuards`: while nothing but the
  key guards an operation, its row is PENDING for as long as a handler works on it, that
  handler is alone, and no record exists before it applies. `AtMostOnce` is not inductive
  without it: a state in which two handlers are about to apply satisfies it. `MadeIsReal`
  is what makes SYNCED true. From it follow `TypeCorrect`, `AppliedAtMostOnce`,
  `OneWorkerAtATime`, `SyncedMeansApplied` and `SyncedStaysSynced`.
* **SyncSystem_proofs.** `SystemInv` adds the phone: a row is in the queue exactly as long
  as its fate is "queued", whatever the server has in its requests or has created a record
  for was once in the queue, and failures shown were recorded. `SystemRefinesAtLeastOnce`
  maps `Stage` of an entry's fate and `effects` to the abstract state; steps of the phone
  (`PhoneKeeps`) and of the server (`ServerKeeps`) are shown to map to steps of AtLeastOnce
  or to stuttering and then put together. `NothingIsLost` is drawn from that: what the phone
  dropped as synchronised was carried out, and what has left the queue stays out of it.
  `SystemRespectsServer` shows that the server among phone and network takes no step that
  SyncServer has not, so that its four promises hold there too (`PushKeepsItsPromises`).
* **SumTheorems.** Balances, totals and profits are sums over finite sets, which the community
  module defines by a function that recurs from a set to the set without one chosen element.
  Induction over an operator is out of the provers' reach, but not a smallest counterexample:
  strict inclusion of finite sets is well-founded (`SubsetInduction`), from which follow that
  the defining equation has one solution (`EquationSolvable`, `EquationAgrees`), then that it
  does not matter which element is chosen (`SumRemove`), and then what the books need: sums of
  equal terms (`SumSame`), of a union (`SumUnion`), of one term changed (`SumChange`), and by
  group (`SumByGroup`).
* **Sales_proofs**, first the cash boxes. `Undisturbed(d)`: on a day no entry and closing have
  met on, every sum held is the whole box and nothing is on its way to a closed box.
  `Uncontested(d)`: likewise for closings. The properties alone are not inductive: they do not say what a
  closing between its sum and its update holds.
  Then the sales. `SalesRespectCashBox`: every step of a sale is a step of CashBox or
  leaves the boxes alone, so that `ClosedDayCountsSales` follows from the theorem about
  CashBox. `SalesInv` has the numbers distinct while the counter was never set back, which
  gives `DuplicatesComeFromRaces`. `BalancesInv` is behind `BalancesAreTheBooks`: a void past
  `UpdateStatus` still has its sale's debt to take off, and a sale that was not voided twice
  has one void at most, so that each debt is in the balance once or taken off it once.
* **Stock_proofs.** `Covered`: the row that a dough has checked holds what the dough needs, as
  long as no other request has taken from it. `NotOverdrawn` alone does not say what lies
  between the check and the transaction. To keep the row single: whoever is about to create it
  is alone and finds none. `LowIsNoticed` is inductive as it stands.

* **Accounts_proofs.** `AccountsInv`: a token that has not raced is held by one refresh, or
  has one successor (`OnceInv`); a refresh past its checks with a token of an ended session
  belongs to a user who was overtaken (`SessionInv`), as does one whose user was removed since
  (`VouchedInv`); roles are what was last set unless a change of them is between its statements (`RolesInv`); the
  permissions of a role lie between what was granted last and what is possible, and a change
  that met no other is alone and deletes all that is there (`GrantsInv`).
  The properties about sessions are not inductive: each is broken by a request that is already
  past its checks, and the invariant says what such a request may hold.
* **DayBooks_proofs.** `DayInv` follows what a request has read through every step: what it
  missed or has too much changed since it began (`FiguresAccounted`), the requests on a day are
  alone while it is not contested, the row they found is the row there is (`FoundIsCurrent`), a
  closing did not find it locked (`OpenFound`), and the reconciliation's two queries come in
  their order. Requests have many actions and only five shapes of step (begin, begin to
  write, read, close, end), and lemma `Shapes` reduces the first to the second.
  `LockIsKept` is drawn from these: who writes while the day is locked found this closing, and a
  closing finds none that is locked.
  `SumInv` adds that who closes, reports or reconciles reads every table it needs, whatever the
  order, and that finitely many documents were made; the profit of the closing and that of the
  report are then sums over the same documents in different groups (`ProfitsAreTheBooks`), and
  the payments that are read are those of the sales by card but for `Astray` (`PaymentsAre`,
  `NoFalseAlarm`).
* **Office_proofs.** `OfficeInv` is the conjunction of one invariant per component, each kept
  by its own steps and by those of Catalog: `PriceInv` (a change that closes a price is alone
  and has found the current one), `PullInv` (what a pull has gathered so far, of the tables it
  has read and up to the time it carries, and that it is no older than when it was asked for), `DumpInv` with `OneStays` (a dump under way holds
  what it must; some whole file is younger than every dump that is removed or about to be).
  `BalanceInv` says of each supplier that its balance is what its purchases left unpaid less
  what was paid to it; `BalancesAddUp` sums that over the suppliers not removed, which makes
  the report agree with the documents (`PayablesAreTheBooks`). `NumberedInv` is that of the
  sales' numbers for purchases: the unique index has something to refuse only after two calls
  of `next` have overlapped (`RefusalsComeFromRaces`).

There may be infinitely many sales, documents, purchases and payments to come: the constants
are not assumed finite. A sum over them means something because those that have begun so far
are finitely many, which is a part of each of these invariants.

Every invariant and every action property that a passing run checks is stated by a theorem.
Only model-checked is `PendingSettles`, which is liveness under fairness and would need
ENABLED; and the three runs of the next section, which refute what the words say.

## 6. Where the code and its words differ

* `sync_twice`: a resend is said never to be applied again (`sync.service.ts` lines 29-31).
  It is applied again when its row is FAILED or old and the earlier attempt had committed.
* `sync_reconnect`: what was queued offline is said to be synchronised by itself when the
  connection is back (`sync_status_screen.dart` line 251). `syncNow` is dropped while an
  earlier call of it is in its pull, and nobody calls it again. (The same sentence fails when the
  token has expired: see the first item below.)
* `sales_credit`: `paidAmount` left out of a sale on credit is said to make the whole
  amount a debt (`create-sale.dto.ts` line 55). It makes the sale paid in full.

These three have runs. The models show some more, which the history variables of section 2
make visible and which no run is spent on:

* The phone stores its refresh token (`session_controller.dart` line 53) and never uses it. Once
  the access token has expired every push and every direct POST is answered 401; the queue
  stays as it is, and no screen leads back to the login (`logout` is called by nobody). `PendingSettles` has
  `~authorised` as its second way out for that.
* A delivery of flour or fuel may be of less than nothing (`flour-inventory.controller.ts`
  line 21): it overdraws the store and notifies nobody. So may a payment to a supplier be
  (`suppliers.controller.ts` line 46), which raises what is owed.
* The terminal is said to be compared with the recorded cash and card sales
  (`card-transactions.service.ts` lines 5-6). It is compared with the payments of the method
  that is named after it: those of voided sales and those to suppliers count, those by another
  method of type CARD do not. `Astray` is the difference.
* A refresh token is said to be usable only once (`auth.service.ts` line 125). Two refreshes
  that both find it valid both get new tokens (`raced` in `RotatedOnce`); and one in the same
  second as another gets none, after its old token was revoked.
* A locked day is said not to be editable until it is reopened (`daily-closing.service.ts`
  lines 6-8). Nothing that makes, voids or removes documents looks at the lock: that is what
  `moved` stands for after the closing.
* A change of price is said to close one row and open the next (`products.service.ts` line 9).
  Two changes at once leave two open rows, a failure between the statements none.
* `pull` asks for rows made since the last one (`createdAt`), so that what is changed, priced or
  removed later never reaches the phone; only payment methods come in full. `MergedIsFresh` says
  how old a copy may be when it is merged, and nothing says how old it may become.
* What is owed to a removed supplier is in no report: `DebtReport` sums over `LiveSupplier`,
  and `CheckSupplier` does not ask whether the supplier of a purchase was removed.
* Files of dumps recorded as FAILED or left PENDING are never removed, and with
  `retentionDays` 0 a dump that takes its time removes its own file (`dawdled`).

## 7. What is left out, and simplifications

* **pull** changes nothing on the server, and in SyncSystem it ends with or without
  success; what it brings is in ReferenceCache. The fifty newest notifications and the lock
  of the day, which the phone does not use, are left out there.
* A role that is yet to be created is one without permissions that nobody has; that the last
  administrator may be removed, or that a new password revokes no token, has no property. The
  access token's expiry is a step of SyncPhone; Accounts leaves it out: `validate` looks at the
  user at each request.
* Documents are dropped in DayBooks only where the code drops them, sales and expenses. The
  language model of the assistant is external; so is `pg_dump`.
* Two dumps are taken never to begin in the same millisecond, which names their files.
* Without state of their own, or never called: markRead of the notifications, the audit log,
  `checkOverdueDebts`, `checkLowStockAlert`, exports, `recordPayment` of the payroll,
  `assignShift`, lists and summaries of one query.
* The four services behind push are reduced to "commits", "throws before", "throws after".
  None of the four throws ConflictException for what a phone sends, so the runs give
  `Errors` just "Error"; the proofs allow both.
* Errors of Dio that are no network errors appear as a refusal of the server only. SQLite
  errors in the loop over results are not modelled; closing the app inside it is.
* Two rows of the local queue with one `created_at` are taken to have an order.
* Handlers run in slots (`Req`); how many there are bounds how many run at once.
* Sums of money and quantities are integers; the rounding of `Decimal` is not modelled.
* The limit on requests (ThrottlerGuard) that refuses a push is one of the accidents of
  `PushLost`.
* Failures after a commit that change nothing any more (audit log, closing `findOne`) are
  left out of Sales, CashBox and Stock; in SyncServer they matter and are there.
* Not modelled at all: what `PROJECT.json` lists as `not_modelled`, with the reason.

## 8. What comes next

All that the first plan named is there. In this order, what would add most:

1. More of the phone's session than its token: the queue is kept at logout, so that the next user's synchronisation
   sends the entries of the one before in the new user's name. It joins SyncPhone and Accounts.
2. Larger instances of `accounts` (four calls) and of `day_books` (three documents), which TLC
   does not finish in minutes; the theorems cover them.
3. Liveness of the office: that a phone which pulls again and again has every row that is not
   late in the end.
