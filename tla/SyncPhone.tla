----------------------------- MODULE SyncPhone -----------------------------
(***************************************************************************)
(* The phone's side of offline synchronisation: SyncEngine of              *)
(* mobile/lib/core/offline/sync_engine.dart, its sync_queue table, and     *)
(* submitOrQueue of offline_submit.dart, through which the screens enter   *)
(* operations.                                                             *)
(*                                                                         *)
(* Dart runs one piece of code at a time up to its next await; an action   *)
(* is such a piece.  What the network and the server do is in SyncSystem,  *)
(* which gives these actions their occasions and their arguments.          *)
(***************************************************************************)
EXTENDS SyncTypes, Naturals, Sequences, FiniteSets

VARIABLES
  item,         \* item[o]: status of o's row in the local sync_queue, or "ABSENT"
  createdAt,    \* createdAt[o]: the row's created_at, as its place among all rows
  fate,         \* fate[o]: what has become of what the user entered
  phase,        \* where syncNow is; isSyncing is phase # "idle"
  online,       \* what connectivity_plus last reported
  authorised    \* whether the stored access token is still accepted

phoneVars == <<item, createdAt, fate, phase, online, authorised>>

ItemStatuses == {"PENDING"} \cup Failure

\* new: not entered yet.  posting: the direct POST is on its way.  confirmed, rejected:
\* it was answered.  abandoned: the app was closed meanwhile.  queued: in the local
\* queue.  synced, removed: deleted from the queue by syncNow, by the user.
Fates == {"new", "posting", "confirmed", "rejected", "abandoned",
          "queued", "synced", "removed"}

PhoneTypeOK ==
  /\ item      \in [Op -> ItemStatuses \cup {"ABSENT"}]
  /\ createdAt \in [Op -> Nat]
  /\ fate      \in [Op -> Fates]
  /\ phase     \in {"idle", "select", "push", "pull"}
  /\ online    \in BOOLEAN
  /\ authorised \in BOOLEAN

PhoneInit ==
  /\ item      = [o \in Op |-> "ABSENT"]
  /\ createdAt = [o \in Op |-> 0]
  /\ fate      = [o \in Op |-> "new"]
  /\ phase     = "select"               \* start() has just called syncNow
  /\ online    \in BOOLEAN
  /\ authorised \in BOOLEAN            \* a stored token is taken for a login, however old

Becomes(o, f) == fate' = [fate EXCEPT ![o] = f]

-----------------------------------------------------------------------------
(* Entering an operation: POST first, queue on a network error.            *)

Submit(o) ==
  /\ fate[o] = "new"
  /\ Becomes(o, "posting")
  /\ UNCHANGED <<item, createdAt, phase, online, authorised>>

\* A 2xx answer.
SubmitConfirmed(o) ==
  /\ fate[o] = "posting"
  /\ Becomes(o, "confirmed")
  /\ UNCHANGED <<item, createdAt, phase, online, authorised>>

\* Any other answer of the server: rethrown to the screen.
SubmitRejected(o) ==
  /\ fate[o] = "posting"
  /\ Becomes(o, "rejected")
  /\ UNCHANGED <<item, createdAt, phase, online, authorised>>

\* Later than every row so far.
Now == Cardinality({o \in Op : createdAt[o] > 0}) + 1

\* A connection error or a timeout, the receive timeout among them: enqueue.
\* Nothing here starts a synchronisation.
SubmitQueued(o) ==
  /\ fate[o] = "posting"
  /\ Becomes(o, "queued")
  /\ item'      = [item EXCEPT ![o] = "PENDING"]
  /\ createdAt' = [createdAt EXCEPT ![o] = Now]
  /\ UNCHANGED <<phase, online, authorised>>

-----------------------------------------------------------------------------
(* syncNow.                                                                *)

\* What a call of syncNow does before its first await.
SyncNow == phase' = IF phase = "idle" THEN "select" ELSE phase

\* The button on the status screen, disabled while isSyncing; also the listener of
\* start when the phone changes from one network to another.
ManualSync ==
  /\ phase = "idle"
  /\ SyncNow
  /\ UNCHANGED <<item, createdAt, fate, online, authorised>>

PendingRows == {o \in Op : item[o] = "PENDING"}

\* rows is the result of SELECT ... WHERE status = 'PENDING' ORDER BY created_at ASC.
InOrder(rows, S) ==
  /\ {rows[i] : i \in 1 .. Len(rows)} = S
  /\ \A i, j \in 1 .. Len(rows) : i < j => createdAt[rows[i]] < createdAt[rows[j]]

\* There are rows: they go out in one POST /sync/push.
SelectRows(rows) ==
  /\ phase = "select"
  /\ PendingRows # {}
  /\ InOrder(rows, PendingRows)
  /\ phase' = "push"
  /\ UNCHANGED <<item, createdAt, fate, online, authorised>>

\* There is none: on to the pull.
SelectNone ==
  /\ phase = "select"
  /\ PendingRows = {}
  /\ phase' = "pull"
  /\ UNCHANGED <<item, createdAt, fate, online, authorised>>

\* Faulty variants of SyncedRows: every answered row counts as done; none does.
AnsweredRows(answer, S) == {o \in S : item[o] # "ABSENT" /\ answer[o] # "none"}
NoRows(answer, S) == {}

\* Of the answers for S: the rows that are deleted, being answered SYNCED.
SyncedRows(answer, S) == {o \in S : item[o] # "ABSENT" /\ answer[o] = "SYNCED"}

\* The queue when the answers for S are stored.  A row that the user deleted meanwhile
\* is not there to be updated, and stays deleted.
ItemsAfter(answer, S) ==
  [o \in Op |-> IF o \in SyncedRows(answer, S) THEN "ABSENT"
                ELSE IF o \in S /\ item[o] # "ABSENT" /\ answer[o] # "none" THEN answer[o]
                ELSE item[o]]

\* The loop over the results; there is no await in it.
PushAnswered(answer) ==
  /\ phase = "push"
  /\ item' = ItemsAfter(answer, Op)
  /\ fate' = [o \in Op |-> IF o \in SyncedRows(answer, Op) THEN "synced" ELSE fate[o]]
  /\ phase' = "pull"
  /\ UNCHANGED <<createdAt, online, authorised>>

\* A faulty variant of PushFailed: what was sent is marked as failed.
PushFailedMarksRows ==
  /\ phase = "push"
  /\ item' = [o \in Op |-> IF item[o] = "PENDING" THEN "FAILED" ELSE item[o]]
  /\ phase' = "idle"
  /\ UNCHANGED <<createdAt, fate, online, authorised>>

\* The POST throws: catch and finally.
PushFailed ==
  /\ phase = "push"
  /\ phase' = "idle"
  /\ UNCHANGED <<item, createdAt, fate, online, authorised>>

\* GET /sync/pull succeeds or throws; the rows of the queue are not touched either way.
PullEnds ==
  /\ phase = "pull"
  /\ phase' = "idle"
  /\ UNCHANGED <<item, createdAt, fate, online, authorised>>

-----------------------------------------------------------------------------
(* The user and the device.                                                *)

\* The delete button of a row: on every expense, on every other row that is not PENDING.
RemoveOperation(o) ==
  /\ item[o] # "ABSENT"
  /\ item' = [item EXCEPT ![o] = "ABSENT"]
  /\ Becomes(o, "removed")
  /\ UNCHANGED <<createdAt, phase, online, authorised>>

\* The retry button of a row, shown when it has FAILED.
RetryOperation(o) ==
  /\ item[o] = "FAILED"
  /\ item' = [item EXCEPT ![o] = "PENDING"]
  /\ SyncNow
  /\ UNCHANGED <<createdAt, fate, online, authorised>>

\* The access token expires, or its user is removed.  The phone has no way to another: it
\* never uses its refresh token, and asks for a login only when it has no token stored.
TokenExpires ==
  /\ authorised
  /\ authorised' = FALSE
  /\ UNCHANGED <<item, createdAt, fate, phase, online>>

GoOffline ==
  /\ online
  /\ online' = FALSE
  /\ UNCHANGED <<item, createdAt, fate, phase, authorised>>

\* The connectivity listener of start.
GoOnline ==
  /\ ~online
  /\ online' = TRUE
  /\ SyncNow
  /\ UNCHANGED <<item, createdAt, fate, authorised>>

\* What was being posted when the app is closed is forgotten.
FateAfterRestart(o) == IF fate[o] = "posting" THEN "abandoned" ELSE fate[o]

\* The app is closed and opened again: SQLite keeps the queue, and start synchronises.
Restart ==
  /\ phase' = "select"
  /\ fate'  = [o \in Op |-> FateAfterRestart(o)]
  /\ UNCHANGED <<item, createdAt, online, authorised>>

\* The app is closed in the loop over the results, when those for S are stored: every
\* statement of the loop is a transaction of its own.
RestartAmidAnswers(answer, S) ==
  /\ phase = "push"
  /\ item'  = ItemsAfter(answer, S)
  /\ fate'  = [o \in Op |-> IF o \in SyncedRows(answer, S) THEN "synced"
                             ELSE FateAfterRestart(o)]
  /\ phase' = "select"
  /\ UNCHANGED <<createdAt, online, authorised>>
=============================================================================
