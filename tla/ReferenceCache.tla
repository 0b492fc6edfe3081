--------------------------- MODULE ReferenceCache ---------------------------
(***************************************************************************)
(* The phone's copy of the rows of Catalog: pull of                        *)
(* backend/src/sync/sync.service.ts and the second half of syncNow, with   *)
(* _mergeChanges, of mobile/lib/core/offline/sync_engine.dart.             *)
(*                                                                         *)
(* The server asks for each table in a query of its own, all of them at    *)
(* once, and takes its time after the last; the phone sends that time back *)
(* as "since" with the next pull.  isSyncing keeps a phone from pulling    *)
(* twice at once.  Expense categories are as payment methods are; the      *)
(* notifications, the fifty last ones, are left out.  Materials and tanks  *)
(* are not pulled.                                                         *)
(***************************************************************************)
EXTENDS Catalog

CONSTANTS Phone, NoCopy

Never   == MaxTime + 1
\* The tables that pull reads; those with no rows are empty.
Pulled  == {kindOf[x] : x \in Row} \ {"material", "tank"}
Copy    == [rev : SUBSET Change, oneOf : SUBSET Price]

ASSUME PhoneAssumption == Phone \in Actor /\ NoCopy \notin Copy

VARIABLES
  pull,         \* how far the pull is: since, the tables to do, the rows it has, serverTime
  cache,        \* cache[x]: the phone's copy of row x
  lastPulledAt,
  late,         \* history: rows that appeared after a pull had looked for them, or for
                \* rows made later
  asked         \* history: asked[x]: the changes made to row x when the pull was asked for

cacheVars == <<pull, cache, lastPulledAt, late, asked>>

CacheTypeOK ==
  /\ pull  \in [at : {"idle", "reading", "answered"}, todo : SUBSET Kinds,
                since : Time \cup {Never}, rows : [Row -> Copy \cup {NoCopy}], time : Time]
  /\ cache \in [Row -> Copy \cup {NoCopy}]
  /\ lastPulledAt \in Time \cup {Never}
  /\ late  \subseteq Row
  /\ asked \in [Row -> SUBSET Change]
  /\ lastPulledAt # Never => lastPulledAt <= clock
  /\ pull.at # "idle" => pull.since = lastPulledAt
  /\ \A x \in Row : (pull.rows[x] # NoCopy \/ cache[x] # NoCopy) => x \in Visible

NoRows == [x \in Row |-> NoCopy]
Idle   == [at |-> "idle", todo |-> {}, since |-> Never, rows |-> NoRows, time |-> 0]

CacheInit ==
  /\ pull  = Idle
  /\ cache = NoRows
  /\ lastPulledAt = Never
  /\ late  = {}
  /\ asked = rev

\* The row appears when its table has been read, or with a createdAt that is not after the
\* serverTime that an answer carries already or the phone has kept.
AppearsLate(x) ==
  \/ pull.at = "reading" /\ kindOf[x] \notin pull.todo
  \/ pull.at = "answered" /\ stamp[x] <= pull.time
  \/ lastPulledAt # Never /\ stamp[x] <= lastPulledAt

RowAppears(x) ==
  /\ Appear(x)
  /\ late' = IF AppearsLate(x) THEN late \cup {x} ELSE late
  /\ UNCHANGED <<pull, cache, lastPulledAt, asked>>

-----------------------------------------------------------------------------
(* The server's side.                                                      *)

\* A faulty variant of Ask: the moment of asking is kept whether or not an answer comes.
AskAndRemember ==
  /\ Phone \in scene.who /\ pull.at = "idle"
  /\ pull' = [Idle EXCEPT !.at = "reading", !.todo = Pulled, !.since = clock]
  /\ lastPulledAt' = clock
  /\ asked' = rev
  /\ UNCHANGED <<cache, late>>

\* syncNow, having pushed, asks with the lastPulledAt it has, or with none.
Ask ==
  /\ Phone \in scene.who /\ pull.at = "idle"
  /\ pull' = [Idle EXCEPT !.at = "reading", !.todo = Pulled, !.since = lastPulledAt]
  /\ asked' = rev
  /\ UNCHANGED <<cache, lastPulledAt, late>>

\* Made after since and not removed; payment methods come in full.
Sought(x) ==
  /\ row[x] = "live"
  /\ kindOf[x] # "method" => pull.since = Never \/ stamp[x] > pull.since

\* A product comes with one of its current prices, which one is not said.
CopyOf(x) == [rev |-> rev[x], oneOf |-> current[x]]

\* One of the findMany of pull.
Query(t) ==
  /\ pull.at = "reading" /\ t \in pull.todo
  /\ pull' = [pull EXCEPT
       !.todo = @ \ {t},
       !.rows = [x \in Row |-> IF kindOf[x] = t /\ Sought(x) THEN CopyOf(x) ELSE @[x]]]
  /\ UNCHANGED <<cache, lastPulledAt, late, asked>>

\* The closing of today is read, then the time.
AnswerPull ==
  /\ pull.at = "reading" /\ pull.todo = {}
  /\ pull' = [pull EXCEPT !.at = "answered", !.todo = Pulled, !.time = clock]
  /\ UNCHANGED <<cache, lastPulledAt, late, asked>>

\* A query fails, the answer is lost, the client's time is up, or the app stops between
\* two tables: what is merged stays.
PullFails ==
  /\ pull.at # "idle"
  /\ pull' = Idle
  /\ UNCHANGED <<cache, lastPulledAt, late, asked>>

-----------------------------------------------------------------------------
(* The phone's side.                                                       *)

Held(t) == {x \in Row : kindOf[x] = t /\ pull.rows[x] # NoCopy}

\* A faulty variant of MergeChanges: a row that is there already is not overwritten.
MergeMissing(t) ==
  /\ pull.at = "answered" /\ t \in pull.todo
  /\ cache' = [x \in Row |-> IF x \in Held(t) /\ cache[x] = NoCopy THEN pull.rows[x]
                                                                   ELSE cache[x]]
  /\ pull' = [pull EXCEPT !.todo = @ \ {t}]
  /\ UNCHANGED <<lastPulledAt, late, asked>>

\* _mergeChanges, one table: by id, what came in over what was there.
MergeChanges(t) ==
  /\ pull.at = "answered" /\ t \in pull.todo
  /\ cache' = [x \in Row |-> IF x \in Held(t) THEN pull.rows[x] ELSE cache[x]]
  /\ pull' = [pull EXCEPT !.todo = @ \ {t}]
  /\ UNCHANGED <<lastPulledAt, late, asked>>

Remember ==
  /\ pull.at = "answered" /\ pull.todo = {}
  /\ lastPulledAt' = pull.time
  /\ pull' = Idle
  /\ UNCHANGED <<cache, late, asked>>

PullStep ==
  \/ Ask \/ (\E t \in Pulled : Query(t)) \/ AnswerPull
  \/ (\E t \in Pulled : MergeChanges(t)) \/ Remember
  \/ PullFails

-----------------------------------------------------------------------------

\* A row made up to the time the phone has kept is cached, unless it appeared late: pull takes
\* that time after its queries and createdAt is not the time of the commit (sync.service.ts
\* lines 188-205).
CacheComplete ==
  lastPulledAt # Never =>
    \A x \in Row :
      kindOf[x] \in Pulled /\ row[x] = "live" /\ stamp[x] <= lastPulledAt /\ x \notin late
      => cache[x] # NoCopy

\* What a pull has brought is, once it is merged, no older than when that pull was asked for,
\* though the tables are read one by one while rows are changed, and though a pull that broke
\* off may have left an older copy of it (sync_engine.dart lines 229-251).
MergedIsFresh ==
  pull.at = "answered" /\ pull.todo = {} =>
    \A x \in Row : pull.rows[x] # NoCopy => cache[x] # NoCopy /\ asked[x] \subseteq cache[x].rev
=============================================================================
