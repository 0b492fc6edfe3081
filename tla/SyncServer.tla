----------------------------- MODULE SyncServer -----------------------------
(***************************************************************************)
(* The server side of offline synchronisation: SyncService.push of         *)
(* backend/src/sync/sync.service.ts and the sync_queue table it keeps.     *)
(*                                                                         *)
(* Requests run concurrently; a handler gives way to the others at every   *)
(* await, that is, at every database call.  Each action below is one such  *)
(* call together with the code that runs up to the next await, so pc names *)
(* the call a handler is about to make.                                    *)
(*                                                                         *)
(* A business record (the sale, expense, attendance or production that an  *)
(* operation creates) is abstracted to its ordinal among the records       *)
(* created for the operation: effects[o] counts them, and a serverId is    *)
(* such an ordinal, 0 standing for null.                                   *)
(***************************************************************************)
EXTENDS SyncTypes, Naturals, Sequences

CONSTANTS
  Req,          \* slots for the push requests the server handles at one time
  Batches,      \* the lists of operations a push request may carry
  Errors,       \* what the business services throw before they commit anything
  MaxEffects    \* bound: records created for one operation

ASSUME BatchesAssumption == Batches \subseteq Seq(Op)
ASSUME ErrorsAssumption == Errors \subseteq {"ConflictException", "Error"}
ASSUME MaxEffectsAssumption == MaxEffects \in Nat

VARIABLES
  status,       \* status[o]: the sync_queue row of o, "NONE" while there is none
  serverId,     \* serverId[o]: the column of that row
  stale,        \* operations whose row was created STALE_PENDING_MS ago or more
  effects,      \* effects[o]: business records committed on behalf of o
  failed,       \* history: operations whose row was ever recorded CONFLICT or FAILED
  pc,           \* pc[r]: the database call handler r makes next
  todo,         \* todo[r]: operations of the request not answered yet, in order
  results,      \* results[r][o]: the answer given for o so far, "none" if there is none
  made,         \* made[r]: the record id applyOperation returned to r
  error         \* error[r]: the status that r's catch block writes

table    == <<status, serverId, stale, effects, failed>>
handler  == <<pc, todo, results, made, error>>
serverVars == <<table, handler>>

Answers  == Recorded \cup {"none"}
Calls    == {"find", "create", "refind", "apply", "record", "recordError"}

TableOK ==
  /\ status   \in [Op -> Recorded \cup {"NONE"}]
  /\ serverId \in [Op -> Nat]
  /\ stale    \subseteq Op
  /\ effects  \in [Op -> Nat]
  /\ failed   \subseteq Op

HandlersOK ==
  /\ pc      \in [Req -> Calls \cup {"idle", "done", "broken"}]
  /\ todo    \in [Req -> Seq(Op)]
  /\ results \in [Req -> [Op -> Answers]]
  /\ made    \in [Req -> Nat]
  /\ error   \in [Req -> Failure]
  /\ \A r \in Req : pc[r] \in Calls => todo[r] # <<>>

TypeOK == TableOK /\ HandlersOK

NoAnswers == [o \in Op |-> "none"]

ServerInit ==
  /\ status   = [o \in Op |-> "NONE"]
  /\ serverId = [o \in Op |-> 0]
  /\ stale    = {}
  /\ effects  = [o \in Op |-> 0]
  /\ failed   = {}
  /\ pc       = [r \in Req |-> "idle"]
  /\ todo     = [r \in Req |-> <<>>]
  /\ results  = [r \in Req |-> NoAnswers]
  /\ made     = [r \in Req |-> 0]
  /\ error    = [r \in Req |-> "FAILED"]

-----------------------------------------------------------------------------
(* push: the loop over the operations of one request.                      *)

\* The loop's test: the next operation, or the response.
Continue(ops) == IF ops = <<>> THEN "done" ELSE "find"

Goto(r, call) == pc' = [pc EXCEPT ![r] = call]

\* A push request reaches the server.
Receive(r, ops) ==
  /\ pc[r] = "idle"
  /\ todo' = [todo EXCEPT ![r] = ops]
  /\ Goto(r, Continue(ops))
  /\ UNCHANGED <<table, results, made, error>>

\* processOperation returns and its locals die: push its result, go on with the rest.
Answer(r, answer) ==
  /\ results' = [results EXCEPT ![r][Head(todo[r])] = answer]
  /\ todo'    = [todo EXCEPT ![r] = Tail(@)]
  /\ made'    = [made EXCEPT ![r] = 0]
  /\ error'   = [error EXCEPT ![r] = "FAILED"]
  /\ Goto(r, Continue(Tail(todo[r])))

\* The response leaves (the results, or a 500 for the exception) and the handler ends.
Respond(r) ==
  /\ pc[r] \in {"done", "broken"}
  /\ Goto(r, "idle")
  /\ todo'    = [todo EXCEPT ![r] = <<>>]
  /\ results' = [results EXCEPT ![r] = NoAnswers]
  /\ made'    = [made EXCEPT ![r] = 0]
  /\ error'   = [error EXCEPT ![r] = "FAILED"]
  /\ UNCHANGED table

-----------------------------------------------------------------------------
(* processOperation and resolveExisting.                                   *)

\* Faulty variants, for the mutation runs only: no PENDING row counts as fresh, or every
\* one does; a SYNCED row is applied again.
NeverFresh(o)  == FALSE
AlwaysFresh(o) == TRUE
ResolveReapplies(r, o) ==
  /\ IF status[o] = "PENDING" /\ o \notin stale
       THEN Answer(r, "PENDING")
       ELSE Goto(r, "apply") /\ UNCHANGED <<todo, results, made, error>>
  /\ UNCHANGED table

\* A PENDING row younger than STALE_PENDING_MS: another request may be at work on it.
Fresh(o) == o \notin stale

\* What is done about a row that exists, decided on the row as the query returned it.
ResolveExisting(r, o) ==
  /\ \/ /\ status[o] = "SYNCED"
        /\ Answer(r, "SYNCED")
     \/ /\ status[o] = "PENDING"
        /\ Fresh(o)
        /\ Answer(r, "PENDING")
     \/ /\ status[o] \in Failure \/ (status[o] = "PENDING" /\ ~Fresh(o))
        /\ Goto(r, "apply")
        /\ UNCHANGED <<todo, results, made, error>>
  /\ UNCHANGED table

\* Step 1, findUnique: is this operation known?
Find(r) ==
  /\ pc[r] = "find"
  /\ LET o == Head(todo[r]) IN
       \/ status[o] # "NONE" /\ ResolveExisting(r, o)
       \/ /\ status[o] = "NONE"
          /\ Goto(r, "create")
          /\ UNCHANGED <<table, todo, results, made, error>>

\* A faulty variant of Create: a clientOperationId without its unique index.
CreateNotUnique(r) ==
  /\ pc[r] = "create"
  /\ status' = [status EXCEPT ![Head(todo[r])] = "PENDING"]
  /\ Goto(r, "apply")
  /\ UNCHANGED <<serverId, stale, effects, failed, todo, results, made, error>>

\* Step 2, create: the unique index lets one of several concurrent requests through;
\* the others get P2002.
Create(r) ==
  /\ pc[r] = "create"
  /\ LET o == Head(todo[r]) IN
       \/ /\ status[o] = "NONE"
          /\ status' = [status EXCEPT ![o] = "PENDING"]
          /\ Goto(r, "apply")
          /\ UNCHANGED <<serverId, stale, effects, failed, todo, results, made, error>>
       \/ /\ status[o] # "NONE"
          /\ Goto(r, "refind")
          /\ UNCHANGED <<table, todo, results, made, error>>

\* The findUnique of the P2002 branch.  Rows are never deleted: the row is there.
Refind(r) ==
  /\ pc[r] = "refind"
  /\ status[Head(todo[r])] # "NONE"
  /\ ResolveExisting(r, Head(todo[r]))

-----------------------------------------------------------------------------
(* applyAndRecord: apply through the business service, then record.        *)

\* A faulty variant of StatusOf: the class of the error as the status.
StatusIsClass(e) == e

\* The catch block: a ConflictException is a conflict, any other error a failure.
StatusOf(e) == IF e = "ConflictException" THEN "CONFLICT" ELSE "FAILED"

\* The service's transaction commits and the service returns the new record.
ApplyCommits(r) ==
  /\ pc[r] = "apply"
  /\ LET o == Head(todo[r]) IN
       /\ effects[o] < MaxEffects
       /\ effects' = [effects EXCEPT ![o] = @ + 1]
       /\ made'    = [made EXCEPT ![r] = effects[o] + 1]
  /\ Goto(r, "record")
  /\ UNCHANGED <<status, serverId, stale, failed, todo, results, error>>

\* The service throws before it commits anything: validation, an unknown id, a
\* rolled back transaction.
ApplyRejects(r, e) ==
  /\ pc[r] = "apply"
  /\ error' = [error EXCEPT ![r] = StatusOf(e)]
  /\ Goto(r, "recordError")
  /\ UNCHANGED <<table, todo, results, made>>

\* The transaction commits, and what the service does after it throws: the audit log,
\* a notification, the closing findOne.
ApplyThrowsLate(r) ==
  /\ pc[r] = "apply"
  /\ LET o == Head(todo[r]) IN
       /\ effects[o] < MaxEffects
       /\ effects' = [effects EXCEPT ![o] = @ + 1]
  /\ error' = [error EXCEPT ![r] = StatusOf("Error")]
  /\ Goto(r, "recordError")
  /\ UNCHANGED <<status, serverId, stale, failed, todo, results, made>>

\* The update to SYNCED.
Record(r) ==
  /\ pc[r] = "record"
  /\ LET o == Head(todo[r]) IN
       /\ status'   = [status EXCEPT ![o] = "SYNCED"]
       /\ serverId' = [serverId EXCEPT ![o] = made[r]]
  /\ Answer(r, "SYNCED")
  /\ UNCHANGED <<stale, effects, failed>>

\* The update to SYNCED fails.  It is inside the try: the catch block takes over.
RecordThrows(r) ==
  /\ pc[r] = "record"
  /\ error' = [error EXCEPT ![r] = StatusOf("Error")]
  /\ made'  = [made EXCEPT ![r] = 0]
  /\ Goto(r, "recordError")
  /\ UNCHANGED <<table, todo, results>>

\* A faulty variant of RecordError: the failure is answered as a success.
RecordErrorAnswersSynced(r) ==
  /\ pc[r] = "recordError"
  /\ status' = [status EXCEPT ![Head(todo[r])] = error[r]]
  /\ failed' = failed \cup {Head(todo[r])}
  /\ Answer(r, "SYNCED")
  /\ UNCHANGED <<serverId, stale, effects>>

\* The catch block's update; serverId keeps what an earlier attempt left in it.
RecordError(r) ==
  /\ pc[r] = "recordError"
  /\ status' = [status EXCEPT ![Head(todo[r])] = error[r]]
  /\ failed' = failed \cup {Head(todo[r])}
  /\ Answer(r, error[r])
  /\ UNCHANGED <<serverId, stale, effects>>

\* A database call that no try protects throws: push rejects, the rest of the batch
\* is left alone and the client gets a 500.
QueryThrows(r) ==
  /\ pc[r] \in {"find", "create", "refind", "recordError"}
  /\ Goto(r, "broken")
  /\ UNCHANGED <<table, todo, results, made, error>>

-----------------------------------------------------------------------------
(* The environment of the handlers.                                        *)

\* Time: the row of o reaches the age STALE_PENDING_MS.  createdAt is set once, so a
\* row stays old, whatever is done with it afterwards.
Age(o) ==
  /\ status[o] # "NONE"
  /\ o \notin stale
  /\ stale' = stale \cup {o}
  /\ UNCHANGED <<status, serverId, effects, failed, handler>>

\* The server process stops and starts again.  What the database holds stays, every
\* handler and its local variables are gone.
Crash ==
  /\ pc'      = [r \in Req |-> "idle"]
  /\ todo'    = [r \in Req |-> <<>>]
  /\ results' = [r \in Req |-> NoAnswers]
  /\ made'    = [r \in Req |-> 0]
  /\ error'   = [r \in Req |-> "FAILED"]
  /\ UNCHANGED table

\* What a handler does when no call of its own throws by accident ...
HandlerStep(r) ==
  \/ Find(r)
  \/ Create(r)
  \/ Refind(r)
  \/ ApplyCommits(r)
  \/ \E e \in Errors : ApplyRejects(r, e)
  \/ Record(r)
  \/ RecordError(r)

\* ... and the accidents.
HandlerFault(r) ==
  \/ ApplyThrowsLate(r)
  \/ RecordThrows(r)
  \/ QueryThrows(r)

ServerNext ==
  \/ \E r \in Req :
       \/ \E ops \in Batches : Receive(r, ops)
       \/ HandlerStep(r)
       \/ HandlerFault(r)
       \/ Respond(r)
  \/ \E o \in Op : Age(o)
  \/ Crash

\* The server among clients that send whatever they like, as often as they like.
ServerSpec == ServerInit /\ [][ServerNext]_serverVars

-----------------------------------------------------------------------------
(* What push promises.                                                     *)

\* Operations whose row is never retried on the strength of its status or age: the
\* idempotency key alone guards them.
Guarded(o) == o \notin stale /\ o \notin failed

\* Handler r is applying o or recording what came of it.
Working(r, o) ==
  /\ pc[r] \in {"apply", "record", "recordError"}
  /\ Head(todo[r]) = o

\* However many requests carry an operation, and in whatever order their queries run,
\* it is applied at most once as long as no attempt at it was recorded as failed and
\* its row is younger than STALE_PENDING_MS (processOperation, lines 51-88).
AtMostOnce == \A o \in Op : Guarded(o) => effects[o] <= 1

\* Two handlers are never at work on one operation under the same proviso: the
\* one that created the row keeps the operation to itself (lines 60-62, 101-110).
NoParallelWork ==
  \A o \in Op : \A r1, r2 \in Req :
    Guarded(o) /\ Working(r1, o) /\ Working(r2, o) => r1 = r2

\* An operation is reported SYNCED, in an answer or in its row, only when a record was
\* really created for it, and the row names one of those records (lines 92-99, 121-126).
SyncedIsReal ==
  /\ \A o \in Op : status[o] = "SYNCED" => serverId[o] \in 1 .. effects[o]
  /\ \A r \in Req, o \in Op : results[r][o] = "SYNCED" => effects[o] > 0

\* The result stored for a guarded operation is final: no later request changes its
\* status or the record id it is answered with (lines 29-31, 92-99).
SyncedIsFinal ==
  [][\A o \in Op : status[o] = "SYNCED" /\ Guarded(o) =>
       status'[o] = "SYNCED" /\ serverId'[o] = serverId[o]]_serverVars

-----------------------------------------------------------------------------
(* Why: the inductive invariant of the proofs.                             *)

\* While nothing but the idempotency key guards an operation, its row is PENDING for as
\* long as a handler works on it; that handler is the one whose create succeeded, and
\* no record exists before it applies.
KeyGuards(o) ==
  Guarded(o) =>
    /\ effects[o] <= 1
    /\ status[o] \notin Failure
    /\ status[o] = "NONE" => effects[o] = 0
    /\ \A r \in Req : Working(r, o) =>
         /\ status[o] = "PENDING"
         /\ pc[r] = "apply" => effects[o] = 0
         /\ \A q \in Req : Working(q, o) => q = r

\* The record id a handler is about to store is that of a record of its operation.
MadeIsReal ==
  \A r \in Req : pc[r] = "record" => made[r] \in 1 .. effects[Head(todo[r])]

\* A handler answers with a failure after recording it.
FailureAnswered ==
  \A r \in Req, o \in Op : results[r][o] \in Failure => o \in failed

ServerInv ==
  /\ TypeOK
  /\ \A o \in Op : KeyGuards(o)
  /\ SyncedIsReal
  /\ MadeIsReal
  /\ FailureAnswered

-----------------------------------------------------------------------------
\* The promise of the class comment (lines 29-31): an operation sent again is never
\* applied again.
NeverReapplied == \A o \in Op : effects[o] <= 1
=============================================================================
