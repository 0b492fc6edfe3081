----------------------------- MODULE SyncSystem -----------------------------
(***************************************************************************)
(* A phone and the server it synchronises with: SyncPhone and SyncServer   *)
(* joined by a network that loses requests and responses, with a phone     *)
(* that gives up waiting while the server goes on working, crashes of the  *)
(* server and restarts of the app.                                         *)
(*                                                                         *)
(* An HTTP request the server receives takes one of the slots Req.  One    *)
(* that is still under way behaves like one whose handler has not made its *)
(* first query yet, so sending and receiving are one step.                 *)
(***************************************************************************)
EXTENDS SyncServer, SyncPhone

CONSTANTS
  NoReq,        \* the phone's request reached no handler, or that handler is gone
  MaxFaults     \* bound: accidents (lost messages, timeouts, crashes, failing queries)

ASSUME NoReqAssumption == NoReq \notin Req
ASSUME MaxFaultsAssumption == MaxFaults \in Nat
ASSUME OpAssumption == IsFiniteSet(Op)

VARIABLES
  waiting,      \* the handler whose response syncNow awaits
  direct,       \* direct[o]: what the server does about the direct POST of o
  faults        \* accidents so far

networkVars == <<waiting, direct, faults>>
vars == <<serverVars, phoneVars, networkVars>>

\* none: the POST never arrived, or its handler died before it committed.
DirectStates == {"none", "running", "created", "refused", "createdThenThrew"}

SystemTypeOK ==
  /\ TypeOK
  /\ PhoneTypeOK
  /\ waiting \in Req \cup {NoReq}
  /\ direct  \in [Op -> DirectStates]
  /\ faults  \in Nat

SystemInit ==
  /\ ServerInit
  /\ PhoneInit
  /\ waiting = NoReq
  /\ direct  = [o \in Op |-> "none"]
  /\ faults  = 0

\* An accident happens, within the bound.
Fault == faults < MaxFaults /\ faults' = faults + 1

\* Something goes wrong because the phone is offline, or by accident.
Disturbed == \/ ~online /\ UNCHANGED faults
             \/ online /\ Fault

-----------------------------------------------------------------------------
(* The direct POST of submitOrQueue: no clientOperationId, no sync_queue.  *)

DirectIs(o, d) == direct' = [direct EXCEPT ![o] = d]

SubmitDelivered(o) ==
  /\ Submit(o)
  /\ online
  /\ DirectIs(o, IF authorised THEN "running" ELSE "refused")
  /\ UNCHANGED <<serverVars, waiting, faults>>

SubmitLost(o) ==
  /\ Submit(o)
  /\ Disturbed
  /\ UNCHANGED <<serverVars, waiting, direct>>

\* The business service handles the request.
DirectServed(o) ==
  /\ direct[o] = "running"
  /\ \/ DirectIs(o, "created") /\ UNCHANGED faults
     \/ DirectIs(o, "refused") /\ UNCHANGED faults
     \/ DirectIs(o, "createdThenThrew") /\ Fault
  /\ UNCHANGED <<serverVars, phoneVars, waiting>>

SubmitAnswered(o) ==
  /\ online
  /\ \/ direct[o] = "created" /\ SubmitConfirmed(o)
     \/ direct[o] \in {"refused", "createdThenThrew"} /\ SubmitRejected(o)
  /\ UNCHANGED <<serverVars, networkVars>>

\* A network error: the request or its response is lost, or the answer takes too long.
SubmitFails(o) ==
  /\ SubmitQueued(o)
  /\ \/ direct[o] = "none" /\ UNCHANGED faults
     \/ direct[o] # "none" /\ Disturbed
  /\ UNCHANGED <<serverVars, waiting, direct>>

-----------------------------------------------------------------------------
(* POST /sync/push.                                                        *)

PushDelivered ==
  /\ online
  /\ authorised
  /\ \E rows \in Batches, r \in Req :
       /\ SelectRows(rows)
       /\ Receive(r, rows)
       /\ waiting' = r
  /\ UNCHANGED <<direct, faults>>

\* The guard of every request: 401, which fails the push like any other error.
PushRefused ==
  /\ online
  /\ ~authorised
  /\ \E rows \in Batches : SelectRows(rows)
  /\ UNCHANGED <<serverVars, networkVars>>

\* Lost, or refused by the limit on requests.
PushLost ==
  /\ \E rows \in Batches : SelectRows(rows)
  /\ Disturbed
  /\ UNCHANGED <<serverVars, waiting, direct>>

PushResponse(r) ==
  /\ waiting = r
  /\ online
  /\ \/ pc[r] = "done" /\ PushAnswered(results[r])
     \/ pc[r] = "broken" /\ PushFailed
  /\ Respond(r)
  /\ waiting' = NoReq
  /\ UNCHANGED <<direct, faults>>

\* No response in time, or none to be expected.  The server knows nothing of it.
PushTimeout ==
  /\ PushFailed
  /\ \/ waiting = NoReq /\ UNCHANGED faults
     \/ waiting # NoReq /\ Disturbed
  /\ waiting' = NoReq
  /\ UNCHANGED <<serverVars, direct>>

\* A response nobody waits for.
ResponseDropped(r) ==
  /\ waiting # r
  /\ Respond(r)
  /\ UNCHANGED <<phoneVars, networkVars>>

-----------------------------------------------------------------------------
(* The server and the phone by themselves.                                 *)

ServerStep(r) == HandlerStep(r) /\ UNCHANGED <<phoneVars, networkVars>>

ServerFault(r) == HandlerFault(r) /\ Fault /\ UNCHANGED <<phoneVars, waiting, direct>>

RowAges(o) == Age(o) /\ UNCHANGED <<phoneVars, networkVars>>

\* Direct requests die with the others; connections break.
ServerCrash ==
  /\ Fault
  /\ Crash
  /\ direct'  = [o \in Op |-> IF direct[o] = "running" THEN "none" ELSE direct[o]]
  /\ waiting' = NoReq
  /\ UNCHANGED phoneVars

AppRestart ==
  /\ Fault
  /\ Restart
  /\ waiting' = NoReq
  /\ UNCHANGED <<serverVars, direct>>

\* The app is closed while syncNow stores the answers, which it does in the order of the
\* rows.
AppRestartAmidAnswers(r) ==
  /\ Fault
  /\ waiting = r
  /\ online
  /\ pc[r] = "done"
  /\ \E last \in 0 .. Cardinality(Op) :
       RestartAmidAnswers(results[r], {o \in Op : createdAt[o] <= last})
  /\ Respond(r)
  /\ waiting' = NoReq
  /\ UNCHANGED direct

PhoneStep == SelectNone \/ PullEnds

UserStep == ManualSync \/ \E o \in Op : RemoveOperation(o) \/ RetryOperation(o)

PhoneAlone ==
  /\ PhoneStep \/ UserStep \/ GoOffline \/ GoOnline \/ TokenExpires
  /\ UNCHANGED <<serverVars, networkVars>>

SystemNext ==
  \/ \E o \in Op :
       \/ SubmitDelivered(o) \/ SubmitLost(o) \/ DirectServed(o)
       \/ SubmitAnswered(o) \/ SubmitFails(o)
       \/ RowAges(o)
  \/ \E r \in Req :
       \/ PushResponse(r) \/ ResponseDropped(r) \/ ServerStep(r) \/ ServerFault(r)
       \/ AppRestartAmidAnswers(r)
  \/ PushDelivered \/ PushRefused \/ PushLost \/ PushTimeout
  \/ ServerCrash \/ AppRestart \/ PhoneAlone

SystemSpec == SystemInit /\ [][SystemNext]_vars

-----------------------------------------------------------------------------
(* Fairness.  The server keeps running its handlers, the phone keeps       *)
(* running its code, time passes (rows grow old), and a request or a       *)
(* response that nothing disturbs arrives.  Accidents need not happen, and *)
(* the bound makes them stop.  The user need not do anything.              *)

Progress ==
  /\ \A o \in Op :
       /\ WF_vars(RowAges(o))
       /\ WF_vars(DirectServed(o))
       /\ WF_vars(SubmitAnswered(o))
       /\ WF_vars(SubmitFails(o))
  /\ \A r \in Req :
       /\ WF_vars(ServerStep(r))
       /\ WF_vars(PushResponse(r))
       /\ WF_vars(ResponseDropped(r))
  /\ WF_vars(PushDelivered)
  /\ WF_vars(PushRefused)
  /\ WF_vars(PushLost)
  /\ WF_vars(PushTimeout)
  /\ WF_vars(PhoneStep /\ UNCHANGED <<serverVars, networkVars>>)

\* Synchronisation starts only when the code starts it: at the opening of the app, on
\* a change of connectivity, after a retry.
AutoSpec == SystemSpec /\ Progress

-----------------------------------------------------------------------------
(* What the two sides promise together.                                    *)

\* A record the direct POST of o created.
CreatedDirectly(o) == direct[o] \in {"created", "createdThenThrew"}

\* The phone has taken o into its queue.
WasQueued(o) == fate[o] \in {"queued", "synced", "removed"}

Records(o) == effects[o] + IF CreatedDirectly(o) THEN 1 ELSE 0

\* The two ways in which an entry can be recorded twice, and there is no third: the
\* server retries its row, or the direct POST is given up as a network error although
\* the server got it, and the entry goes to the queue as well (offline_submit.dart
\* lines 38-45, sync.service.ts lines 51-116).
RecordedOnce ==
  \A o \in Op :
    Guarded(o) /\ (WasQueued(o) => ~CreatedDirectly(o)) => Records(o) <= 1

\* The phone shows a failure only for an operation whose failure the server has
\* recorded; a 500, a timeout or a crash leaves the row PENDING (sync_engine.dart
\* lines 189-200).
FailureIsRecorded == \A o \in Op : item[o] \in Failure => o \in failed

\* Why: the inductive invariant of the proofs.  The server knows, and creates records
\* for, nothing but what was once in the queue, and a row is in the queue exactly as
\* long as nothing has become of it.
QueueFate == \A o \in Op : item[o] # "ABSENT" <=> fate[o] = "queued"

SentWasQueued == \A r \in Req : \A i \in 1 .. Len(todo[r]) : WasQueued(todo[r][i])

EffectWasQueued == \A o \in Op : effects[o] > 0 => WasQueued(o)

SystemInv ==
  /\ SystemTypeOK
  /\ ServerInv
  /\ QueueFate
  /\ SentWasQueued
  /\ EffectWasQueued
  /\ FailureIsRecorded

\* The abstract specification: an operation is acknowledged when the phone deletes its
\* row because the server answered SYNCED, and executed as often as a record was
\* created for its clientOperationId.
Stage(o) == CASE fate[o] = "queued"  -> "queued"
              [] fate[o] = "synced"  -> "acknowledged"
              [] fate[o] = "removed" -> "withdrawn"
              [] OTHER               -> "entered"

Abstract == INSTANCE AtLeastOnce
              WITH stage    <- [o \in Op |-> Stage(o)],
                   executed <- effects

\* No operation of the queue is lost, none leaves it as done before the server has
\* done it, and one the user deleted does not come back (sync_engine.dart lines 158-227).
ImplementsAtLeastOnce == Abstract!Spec

\* As long as synchronisations keep being started, a queued operation does not stay
\* PENDING for ever, crashes and lost messages notwithstanding: a row the server left
\* PENDING grows old and is applied (sync.service.ts lines 101-115).  It takes the phone to
\* stay online and its access token to last until then.
PendingSettles ==
  <>[]online /\ []<>(phase = "select") =>
    \A o \in Op : item[o] = "PENDING" ~> item[o] # "PENDING" \/ ~authorised

\* What the status screen says (sync_status_screen.dart line 251), even of a phone whose
\* token lasts: what was stored while offline is synchronised by itself when the
\* connection is back.
SyncedWhenOnlineAgain ==
  <>[]online /\ []authorised =>
    \A o \in Op : item[o] = "PENDING" /\ ~online ~> item[o] # "PENDING"
=============================================================================
