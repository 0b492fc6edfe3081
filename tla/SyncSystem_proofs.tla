------------------------- MODULE SyncSystem_proofs -------------------------
(***************************************************************************)
(* The phone and the server together: type correctness, the invariant      *)
(* SystemInv, and that SyncSystem implements AtLeastOnce.                  *)
(*                                                                         *)
(* A step of the system is a step of the phone next to a step of the       *)
(* server, either of which may be a stutter.  PhoneKeeps and ServerKeeps   *)
(* say what each side does to the parts of SystemInv that relate the two;  *)
(* there is one lemma per kind of step, and Compose puts them together.    *)
(***************************************************************************)
EXTENDS SyncSystem, SyncServer_proofs, FiniteSetTheorems

-----------------------------------------------------------------------------
(* The phone's side of a step.                                             *)

PhoneKeeps ==
  /\ PhoneTypeOK'
  /\ QueueFate'
  /\ \A o \in Op : WasQueued(o) => WasQueued(o)'
  /\ \A o \in Op : item'[o] \in Failure => o \in failed

LEMMA PhoneStutters ==
  ASSUME SystemInv, UNCHANGED <<item, createdAt, fate>>,
         phase' \in {"idle", "select", "push", "pull"}, online' \in BOOLEAN,
         authorised' \in BOOLEAN
  PROVE  PhoneKeeps
BY DEF SystemInv, SystemTypeOK, PhoneTypeOK, PhoneKeeps, QueueFate, FailureIsRecorded,
       WasQueued

LEMMA EnteringKeeps ==
  ASSUME SystemInv, NEW o \in Op,
         Submit(o) \/ SubmitConfirmed(o) \/ SubmitRejected(o) \/ SubmitQueued(o)
  PROVE  PhoneKeeps
<1>1. PhoneTypeOK /\ QueueFate /\ FailureIsRecorded
  BY DEF SystemInv, SystemTypeOK
<1>2. CASE Submit(o) \/ SubmitConfirmed(o) \/ SubmitRejected(o)
  <2>1. PICK f \in {"posting", "confirmed", "rejected"} :
          /\ fate' = [fate EXCEPT ![o] = f]
          /\ fate[o] \in {"new", "posting"}
          /\ UNCHANGED <<item, createdAt, phase, online, authorised>>
    BY <1>2 DEF Submit, SubmitConfirmed, SubmitRejected, Becomes
  <2> QED
    BY <1>1, <2>1 DEF PhoneKeeps, PhoneTypeOK, QueueFate, FailureIsRecorded, WasQueued, Fates
<1>3. CASE SubmitQueued(o)
  <2>1. Now \in Nat
    <3>1. IsFiniteSet({p \in Op : createdAt[p] > 0})
      BY OpAssumption, FS_Subset
    <3> QED
      BY <3>1, FS_CardinalityType DEF Now
  <2>2. createdAt' \in [Op -> Nat]
    BY <1>1, <1>3, <2>1 DEF SubmitQueued, PhoneTypeOK
  <2> QED
    BY <1>1, <1>3, <2>2 DEF SubmitQueued, Becomes, PhoneKeeps, PhoneTypeOK, QueueFate,
       FailureIsRecorded, WasQueued, Fates, ItemStatuses, Failure
<1> QED
  BY <1>2, <1>3

LEMMA UserKeeps ==
  ASSUME SystemInv, NEW o \in Op, RemoveOperation(o) \/ RetryOperation(o)
  PROVE  PhoneKeeps
BY DEF SystemInv, SystemTypeOK, RemoveOperation, RetryOperation, Becomes, SyncNow,
       PhoneKeeps, PhoneTypeOK, QueueFate, FailureIsRecorded, WasQueued, Fates,
       ItemStatuses, Failure

LEMMA RestartKeeps ==
  ASSUME SystemInv, Restart
  PROVE  PhoneKeeps
BY DEF SystemInv, SystemTypeOK, Restart, FateAfterRestart, PhoneKeeps, PhoneTypeOK,
       QueueFate, FailureIsRecorded, WasQueued, Fates

\* The answers of a handler are acted upon, by syncNow as it is meant to be or up to the
\* moment the app is closed.
LEMMA AnswersKeep ==
  ASSUME SystemInv, NEW r \in Req, NEW S \in SUBSET Op,
         \/ PushAnswered(results[r]) /\ S = Op
         \/ RestartAmidAnswers(results[r], S)
  PROVE  PhoneKeeps
<1> DEFINE answer == results[r]
<1>1. PhoneTypeOK /\ QueueFate /\ FailureIsRecorded
  BY DEF SystemInv, SystemTypeOK
<1>2. /\ answer \in [Op -> Answers]
      /\ \A o \in Op : answer[o] \in Failure => o \in failed
  BY DEF SystemInv, SystemTypeOK, TypeOK, HandlersOK, ServerInv, FailureAnswered
<1>3. /\ item' = ItemsAfter(answer, S)
      /\ UNCHANGED <<createdAt, online, authorised>>
      /\ phase' \in {"select", "pull"}
  BY DEF PushAnswered, RestartAmidAnswers
<1>4. fate' = [o \in Op |-> IF o \in SyncedRows(answer, S) THEN "synced" ELSE fate'[o]]
  BY DEF PushAnswered, RestartAmidAnswers
<1>5. \A o \in Op : o \notin SyncedRows(answer, S) =>
        fate'[o] = fate[o] \/ (fate[o] = "posting" /\ fate'[o] = "abandoned")
  BY DEF PushAnswered, RestartAmidAnswers, FateAfterRestart
<1>6. \A o \in Op : o \in SyncedRows(answer, S) =>
        /\ item[o] # "ABSENT" /\ item'[o] = "ABSENT" /\ fate'[o] = "synced"
  BY <1>3, <1>4 DEF SyncedRows, ItemsAfter
<1>7. \A o \in Op : o \notin SyncedRows(answer, S) =>
        \/ item'[o] = item[o]
        \/ /\ item[o] # "ABSENT"
           /\ item'[o] = answer[o]
           /\ answer[o] \in {"PENDING"} \cup Failure
  BY <1>2, <1>3 DEF SyncedRows, ItemsAfter, Answers, Recorded, Failure
<1>8. PhoneTypeOK'
  <2>1. \A o \in Op : item'[o] \in ItemStatuses \cup {"ABSENT"} /\ fate'[o] \in Fates
    BY <1>1, <1>5, <1>6, <1>7 DEF PhoneTypeOK, ItemStatuses, Fates
  <2> QED
    BY <1>1, <1>3, <1>4, <2>1 DEF PhoneTypeOK, ItemsAfter
<1>9. QueueFate'
  BY <1>1, <1>5, <1>6, <1>7 DEF QueueFate, Failure
<1>10. \A o \in Op : WasQueued(o) => WasQueued(o)'
  BY <1>5, <1>6 DEF WasQueued
<1>11. \A o \in Op : item'[o] \in Failure => o \in failed
  BY <1>1, <1>2, <1>6, <1>7 DEF FailureIsRecorded, Failure
<1> QED
  BY <1>8, <1>9, <1>10, <1>11 DEF PhoneKeeps

-----------------------------------------------------------------------------
(* The server's side of a step.                                            *)

ServerKeeps ==
  /\ ServerInv'
  /\ failed \subseteq failed'
  /\ \A r \in Req : \A i \in 1 .. Len(todo'[r]) :
       \/ \E j \in 1 .. Len(todo[r]) : todo'[r][i] = todo[r][j]
       \/ WasQueued(todo[r][i])'
  /\ \A o \in Op : effects'[o] > 0 =>
       \/ effects[o] > 0
       \/ \E r \in Req : \E j \in 1 .. Len(todo[r]) : todo[r][j] = o

LEMMA ServerStutters ==
  ASSUME SystemInv, UNCHANGED serverVars
  PROVE  ServerKeeps
<1>1. ServerInv'
  BY StutterInv DEF SystemInv
<1> QED
  BY <1>1 DEF ServerKeeps, serverVars, table, handler

\* What is left of a list is part of it.
LEMMA TailPart ==
  ASSUME NEW s \in Seq(Op), s # <<>>
  PROVE  /\ Head(s) = s[1] /\ 1 \in 1 .. Len(s)
         /\ \A i \in 1 .. Len(Tail(s)) : i + 1 \in 1 .. Len(s) /\ Tail(s)[i] = s[i + 1]
BY HeadTailProperties

LEMMA HandlerKeeps ==
  ASSUME SystemInv, NEW r \in Req,
         HandlerStep(r) \/ HandlerFault(r) \/ Respond(r)
  PROVE  ServerKeeps
<1>1. TypeOK /\ ServerInv
  BY DEF SystemInv, SystemTypeOK
<1>2. ServerInv'
  BY <1>1, HandlerInv
<1>3. failed \subseteq failed'
  BY DEF HandlerStep, HandlerFault, Find, ResolveExisting, Create, Refind, ApplyCommits,
         ApplyRejects, Record, RecordError, ApplyThrowsLate, RecordThrows, QueryThrows,
         Respond, table
<1>4. \/ UNCHANGED todo
      \/ todo' = [todo EXCEPT ![r] = Tail(@)] /\ pc[r] \in Calls
      \/ todo' = [todo EXCEPT ![r] = <<>>]
  BY DEF HandlerStep, HandlerFault, Find, ResolveExisting, Create, Refind, ApplyCommits,
         ApplyRejects, Record, RecordError, ApplyThrowsLate, RecordThrows, QueryThrows,
         Respond, Answer, Calls
<1>5. \/ UNCHANGED effects
      \/ effects' = [effects EXCEPT ![Head(todo[r])] = @ + 1] /\ pc[r] \in Calls
  BY DEF HandlerStep, HandlerFault, Find, ResolveExisting, Create, Refind, ApplyCommits,
         ApplyRejects, Record, RecordError, ApplyThrowsLate, RecordThrows, QueryThrows,
         Respond, table, Calls
<1>6. /\ todo \in [Req -> Seq(Op)] /\ effects \in [Op -> Nat]
      /\ pc[r] \in Calls => todo[r] # <<>>
  BY <1>1 DEF TypeOK, TableOK, HandlersOK
<1>7. \A q \in Req : \A i \in 1 .. Len(todo'[q]) :
        \E j \in 1 .. Len(todo[q]) : todo'[q][i] = todo[q][j]
  <2> SUFFICES ASSUME NEW q \in Req, NEW i \in 1 .. Len(todo'[q])
               PROVE  \E j \in 1 .. Len(todo[q]) : todo'[q][i] = todo[q][j]
    OBVIOUS
  <2>1. CASE todo'[q] = todo[q]
    BY <2>1
  <2>2. CASE q = r /\ todo' = [todo EXCEPT ![r] = Tail(@)] /\ pc[r] \in Calls
    <3>1. todo[r] \in Seq(Op) /\ todo[r] # <<>> /\ todo'[r] = Tail(todo[r])
      BY <1>6, <2>2
    <3>2. i + 1 \in 1 .. Len(todo[r]) /\ todo'[r][i] = todo[r][i + 1]
      BY <2>2, <3>1, TailPart
    <3> QED
      BY <2>2, <3>2
  <2>3. CASE todo'[q] = <<>>
    BY <2>3
  <2> QED
    BY <1>4, <1>6, <2>1, <2>2, <2>3
<1>8. ASSUME NEW o \in Op, effects'[o] > 0, ~(effects[o] > 0)
      PROVE  \E j \in 1 .. Len(todo[r]) : todo[r][j] = o
  <2>1. o = Head(todo[r]) /\ pc[r] \in Calls
    BY <1>5, <1>6, <1>8
  <2> QED
    BY <1>6, <2>1, TailPart
<1> QED
  BY <1>2, <1>3, <1>7, <1>8 DEF ServerKeeps

LEMMA EnvironmentKeeps ==
  ASSUME SystemInv, Crash \/ \E o \in Op : Age(o)
  PROVE  ServerKeeps
<1>1. ServerInv'
  BY EnvironmentInv DEF SystemInv
<1>2. UNCHANGED <<failed, effects>>
  BY DEF Crash, Age, table
<1>3. \A q \in Req : todo'[q] = todo[q] \/ todo'[q] = <<>>
  BY DEF Crash, Age, handler
<1>4. \A q \in Req : \A i \in 1 .. Len(todo'[q]) :
        \E j \in 1 .. Len(todo[q]) : todo'[q][i] = todo[q][j]
  BY <1>3
<1> QED
  BY <1>1, <1>2, <1>4 DEF ServerKeeps

\* The phone sends rows of its queue.
LEMMA ReceiveKeeps ==
  ASSUME SystemInv, NEW rows \in Batches, NEW r \in Req,
         SelectRows(rows), Receive(r, rows)
  PROVE  ServerKeeps
<1>1. rows \in Seq(Op)
  BY BatchesAssumption
<1>2. ServerInv'
  BY <1>1, HandlerInv DEF SystemInv
<1>3. UNCHANGED <<failed, effects, fate>>
  BY DEF Receive, SelectRows, table
<1>4. \A i \in 1 .. Len(rows) : WasQueued(rows[i])'
  <2>1. \A i \in 1 .. Len(rows) : rows[i] \in PendingRows
    BY DEF SelectRows, InOrder
  <2>2. \A o \in PendingRows : fate[o] = "queued"
    BY DEF PendingRows, SystemInv, QueueFate
  <2> QED
    BY <1>3, <2>1, <2>2 DEF WasQueued
<1>5. todo' = [todo EXCEPT ![r] = rows] /\ todo \in [Req -> Seq(Op)]
  BY DEF Receive, SystemInv, SystemTypeOK, TypeOK, HandlersOK
<1>6. ASSUME NEW q \in Req, NEW i \in 1 .. Len(todo'[q])
      PROVE  \/ \E j \in 1 .. Len(todo[q]) : todo'[q][i] = todo[q][j]
             \/ WasQueued(todo[q][i])'
  <2>1. CASE q = r
    <3>1. todo'[q] = rows
      BY <1>5, <2>1
    <3> QED
      BY <1>4, <1>6, <3>1 DEF WasQueued
  <2>2. CASE q # r
    BY <1>5, <1>6, <2>2
  <2> QED
    BY <2>1, <2>2
<1> QED
  BY <1>2, <1>3, <1>6 DEF ServerKeeps

-----------------------------------------------------------------------------
(* Both sides together.                                                    *)

NetworkOK ==
  /\ waiting \in Req \cup {NoReq}
  /\ direct  \in [Op -> DirectStates]
  /\ faults  \in Nat

LEMMA Compose ==
  ASSUME SystemInv, PhoneKeeps, ServerKeeps, NetworkOK'
  PROVE  SystemInv'
<1>1. SystemTypeOK' /\ ServerInv'
  BY DEF PhoneKeeps, ServerKeeps, ServerInv, NetworkOK, SystemTypeOK
<1>2. QueueFate'
  BY DEF PhoneKeeps
<1>3. FailureIsRecorded'
  BY DEF PhoneKeeps, ServerKeeps, FailureIsRecorded
<1>4. todo \in [Req -> Seq(Op)]
  BY DEF SystemInv, SystemTypeOK, TypeOK, HandlersOK
<1>5. \A r \in Req : \A j \in 1 .. Len(todo[r]) :
        todo[r][j] \in Op /\ WasQueued(todo[r][j])
  BY <1>4 DEF SystemInv, SentWasQueued
<1>6. \A o \in Op : WasQueued(o) => WasQueued(o)'
  BY DEF PhoneKeeps
<1>7. SentWasQueued'
  <2> SUFFICES ASSUME NEW r \in Req, NEW i \in 1 .. Len(todo'[r])
               PROVE  WasQueued(todo[r][i])'
    BY DEF SentWasQueued
  <2>1. CASE \E j \in 1 .. Len(todo[r]) : todo'[r][i] = todo[r][j]
    <3>1. PICK j \in 1 .. Len(todo[r]) : todo'[r][i] = todo[r][j]
      BY <2>1
    <3>2. todo[r][j] \in Op /\ WasQueued(todo[r][j])
      BY <1>5
    <3> QED
      BY <1>6, <3>1, <3>2 DEF WasQueued
  <2> QED
    BY <2>1 DEF ServerKeeps
<1>8. EffectWasQueued'
  <2> SUFFICES ASSUME NEW o \in Op, effects'[o] > 0
               PROVE  WasQueued(o)'
    BY DEF EffectWasQueued
  <2>1. WasQueued(o)
    BY <1>5 DEF ServerKeeps, SystemInv, EffectWasQueued
  <2> QED
    BY <1>6, <2>1
<1> QED
  BY <1>1, <1>2, <1>3, <1>7, <1>8 DEF SystemInv

LEMMA SystemInvInit == SystemInit => SystemInv
<1> SUFFICES ASSUME SystemInit
             PROVE  SystemInv
  OBVIOUS
<1>1. ServerInv /\ TypeOK
  BY ServerInvInit DEF SystemInit, ServerInv
<1>2. SystemTypeOK
  BY <1>1 DEF SystemInit, PhoneInit, SystemTypeOK, PhoneTypeOK, ItemStatuses, Fates,
     DirectStates
<1>3. QueueFate /\ FailureIsRecorded
  BY DEF SystemInit, PhoneInit, QueueFate, FailureIsRecorded, Failure
<1>4. SentWasQueued /\ EffectWasQueued
  BY DEF SystemInit, ServerInit, SentWasQueued, EffectWasQueued
<1> QED
  BY <1>1, <1>2, <1>3, <1>4 DEF SystemInv

\* What every kind of step does to the two sides.
LEMMA EntryStep ==
  ASSUME SystemInv, NEW o \in Op,
         \/ SubmitDelivered(o) \/ SubmitLost(o) \/ DirectServed(o)
         \/ SubmitAnswered(o) \/ SubmitFails(o)
  PROVE  SystemInv'
<1>1. PhoneKeeps
  <2>1. CASE DirectServed(o)
    BY <2>1, PhoneStutters DEF DirectServed, phoneVars, SystemInv, SystemTypeOK, PhoneTypeOK
  <2>2. CASE ~DirectServed(o)
    BY <2>2, EnteringKeeps DEF SubmitDelivered, SubmitLost, SubmitAnswered, SubmitFails
  <2> QED
    BY <2>1, <2>2
<1>2. ServerKeeps
  BY ServerStutters DEF SubmitDelivered, SubmitLost, DirectServed, SubmitAnswered,
     SubmitFails
<1>3. NetworkOK'
  BY DEF SubmitDelivered, SubmitLost, DirectServed, SubmitAnswered, SubmitFails, DirectIs,
     Disturbed, Fault, networkVars, SystemInv, SystemTypeOK, NetworkOK, DirectStates
<1> QED
  BY <1>1, <1>2, <1>3, Compose

LEMMA SlotStep ==
  ASSUME SystemInv, NEW r \in Req,
         \/ PushResponse(r) \/ ResponseDropped(r) \/ ServerStep(r) \/ ServerFault(r)
         \/ AppRestartAmidAnswers(r)
  PROVE  SystemInv'
<1>1. PhoneKeeps
  <2>1. CASE ResponseDropped(r) \/ ServerStep(r) \/ ServerFault(r)
    BY <2>1, PhoneStutters DEF ResponseDropped, ServerStep, ServerFault, phoneVars,
       SystemInv, SystemTypeOK, PhoneTypeOK
  <2>2. CASE PushResponse(r)
    <3>1. CASE PushFailed
      BY <3>1, PhoneStutters DEF PushFailed, SystemInv, SystemTypeOK, PhoneTypeOK
    <3>2. CASE PushAnswered(results[r])
      BY <3>2, AnswersKeep
    <3> QED
      BY <2>2, <3>1, <3>2 DEF PushResponse
  <2>3. CASE AppRestartAmidAnswers(r)
    <3>1. PICK S \in SUBSET Op : RestartAmidAnswers(results[r], S)
      BY <2>3 DEF AppRestartAmidAnswers
    <3> QED
      BY <3>1, AnswersKeep
  <2> QED
    BY <2>1, <2>2, <2>3
<1>2. ServerKeeps
  BY HandlerKeeps DEF PushResponse, ResponseDropped, ServerStep, ServerFault,
     AppRestartAmidAnswers
<1>3. NetworkOK'
  BY DEF PushResponse, ResponseDropped, ServerStep, ServerFault, AppRestartAmidAnswers,
     Fault, networkVars, SystemInv, SystemTypeOK, NetworkOK
<1> QED
  BY <1>1, <1>2, <1>3, Compose

LEMMA QuietStep ==
  ASSUME SystemInv,
         \/ PushDelivered \/ PushRefused \/ PushLost \/ PushTimeout \/ ServerCrash \/ AppRestart
         \/ PhoneAlone \/ \E o \in Op : RowAges(o)
  PROVE  SystemInv'
<1>1. PhoneKeeps
  <2>1. CASE \/ PushDelivered \/ PushRefused \/ PushLost \/ PushTimeout \/ ServerCrash
             \/ \E o \in Op : RowAges(o)
    BY <2>1, PhoneStutters DEF PushDelivered, PushRefused, PushLost, PushTimeout,
       ServerCrash, RowAges,
       SelectRows, PushFailed, phoneVars, SystemInv, SystemTypeOK, PhoneTypeOK
  <2>2. CASE AppRestart
    BY <2>2, RestartKeeps DEF AppRestart
  <2>3. CASE PhoneAlone
    <3>1. CASE \E o \in Op : RemoveOperation(o) \/ RetryOperation(o)
      BY <3>1, UserKeeps
    <3>2. CASE PhoneStep \/ ManualSync \/ GoOffline \/ GoOnline \/ TokenExpires
      BY <3>2, PhoneStutters DEF PhoneStep, SelectNone, PullEnds, ManualSync, GoOffline,
         GoOnline, TokenExpires, SyncNow, SystemInv, SystemTypeOK, PhoneTypeOK
    <3> QED
      BY <2>3, <3>1, <3>2 DEF PhoneAlone, UserStep
  <2> QED
    BY <2>1, <2>2, <2>3
<1>2. ServerKeeps
  <2>1. CASE PushDelivered
    BY <2>1, ReceiveKeeps DEF PushDelivered
  <2>2. CASE ServerCrash \/ \E o \in Op : RowAges(o)
    BY <2>2, EnvironmentKeeps DEF ServerCrash, RowAges
  <2>3. CASE PushRefused \/ PushLost \/ PushTimeout \/ AppRestart \/ PhoneAlone
    BY <2>3, ServerStutters DEF PushRefused, PushLost, PushTimeout, AppRestart, PhoneAlone
  <2> QED
    BY <2>1, <2>2, <2>3
<1>3. NetworkOK'
  BY DEF PushDelivered, PushRefused, PushLost, PushTimeout, ServerCrash, AppRestart,
     PhoneAlone, RowAges,
     Disturbed, Fault, networkVars, SystemInv, SystemTypeOK, NetworkOK, DirectStates
<1> QED
  BY <1>1, <1>2, <1>3, Compose

LEMMA StutterStep ==
  ASSUME SystemInv, UNCHANGED vars
  PROVE  SystemInv'
<1>1. PhoneKeeps
  BY PhoneStutters DEF vars, phoneVars, SystemInv, SystemTypeOK, PhoneTypeOK
<1>2. ServerKeeps
  BY ServerStutters DEF vars
<1>3. NetworkOK'
  BY DEF vars, networkVars, SystemInv, SystemTypeOK, NetworkOK
<1> QED
  BY <1>1, <1>2, <1>3, Compose

\* In every state of the system, what the phone, the network and the server hold fits
\* together: SystemInv.
THEOREM SystemInvariant == SystemSpec => []SystemInv
<1>1. SystemInv /\ [SystemNext]_vars => SystemInv'
  BY EntryStep, SlotStep, QuietStep, StutterStep DEF SystemNext
<1> QED
  BY <1>1, SystemInvInit, PTL DEF SystemSpec

\* Every variable keeps its type; in particular the phone's queue holds no status but
\* PENDING, CONFLICT and FAILED, whatever a response says.
THEOREM SystemTypeCorrect == SystemSpec => []SystemTypeOK
<1>1. SystemInv => SystemTypeOK
  BY DEF SystemInv
<1> QED
  BY <1>1, SystemInvariant, PTL

\* The phone shows a failure only for operations whose failure the server has recorded,
\* for any number of operations and of requests under way at the same time.
THEOREM ShownFailuresAreRecorded == SystemSpec => []FailureIsRecorded
<1>1. SystemInv => FailureIsRecorded
  BY DEF SystemInv
<1> QED
  BY <1>1, SystemInvariant, PTL

\* An entry is recorded twice in one of two ways only: the server retries its row, or
\* the direct POST succeeded behind a network error and the entry was queued as well.
THEOREM EntryRecordedOnce == SystemSpec => []RecordedOnce
<1>1. ASSUME SystemInv, NEW o \in Op, Guarded(o), WasQueued(o) => ~CreatedDirectly(o)
      PROVE  Records(o) <= 1
  <2>1. effects[o] \in Nat
    BY <1>1 DEF SystemInv, SystemTypeOK, TypeOK, TableOK
  <2>2. CASE WasQueued(o)
    BY <1>1, <2>1, <2>2 DEF SystemInv, ServerInv, KeyGuards, Records
  <2>3. CASE ~WasQueued(o)
    BY <1>1, <2>1, <2>3 DEF SystemInv, EffectWasQueued, Records
  <2> QED
    BY <2>2, <2>3
<1>2. SystemInv => RecordedOnce
  BY <1>1 DEF RecordedOnce
<1> QED
  BY <1>2, SystemInvariant, PTL

-----------------------------------------------------------------------------
(* Refinement.  A step of the phone moves stage, a step of the server moves *)
(* executed, and no step moves both.                                       *)

StageKept == \A o \in Op : Stage(o)' = Stage(o)

LEMMA KeptIsStutter ==
  ASSUME StageKept, UNCHANGED effects
  PROVE  UNCHANGED Abstract!vars
BY DEF StageKept, Abstract!vars

\* A handler creates no record, or one for an operation of its request.
LEMMA HandlerExecutes ==
  ASSUME SystemInv, UNCHANGED phoneVars, NEW r \in Req,
         HandlerStep(r) \/ HandlerFault(r)
  PROVE  [Abstract!Next]_(Abstract!vars)
<1>1. StageKept
  BY DEF phoneVars, StageKept, Stage
<1>2. \/ UNCHANGED effects
      \/ effects' = [effects EXCEPT ![Head(todo[r])] = @ + 1] /\ pc[r] \in Calls
  BY DEF HandlerStep, HandlerFault, Find, ResolveExisting, Create, Refind, ApplyCommits,
         ApplyRejects, Record, RecordError, ApplyThrowsLate, RecordThrows, QueryThrows,
         table, Calls
<1>3. CASE UNCHANGED effects
  BY <1>1, <1>3, KeptIsStutter
<1>4. CASE effects' = [effects EXCEPT ![Head(todo[r])] = @ + 1] /\ pc[r] \in Calls
  <2> DEFINE o == Head(todo[r])
  <2>1. todo[r] \in Seq(Op) /\ todo[r] # <<>>
    BY <1>4 DEF SystemInv, SystemTypeOK, TypeOK, HandlersOK
  <2>2. o \in Op /\ WasQueued(o)
    BY <2>1, HeadTail, TailPart DEF SystemInv, SentWasQueued
  <2>3. Stage(o) # "entered"
    BY <2>2 DEF Stage, WasQueued
  <2>4. Abstract!Execute(o)
    BY <1>1, <1>4, <2>2, <2>3 DEF Abstract!Execute, StageKept
  <2> QED
    BY <2>2, <2>4 DEF Abstract!Next
<1> QED
  BY <1>2, <1>3, <1>4

\* What the phone does without an answer.
LEMMA PhoneRefines ==
  ASSUME SystemInv, UNCHANGED effects,
         \/ UNCHANGED fate
         \/ \E o \in Op : \/ Submit(o) \/ SubmitConfirmed(o) \/ SubmitRejected(o)
                          \/ SubmitQueued(o) \/ RemoveOperation(o)
         \/ Restart
  PROVE  [Abstract!Next]_(Abstract!vars)
<1>1. fate \in [Op -> Fates] /\ QueueFate
  BY DEF SystemInv, SystemTypeOK, PhoneTypeOK
<1>2. CASE UNCHANGED fate
  BY <1>2, KeptIsStutter DEF StageKept, Stage
<1>3. CASE Restart
  BY <1>1, <1>3, KeptIsStutter DEF Restart, FateAfterRestart, StageKept, Stage
<1>4. ASSUME NEW o \in Op, Submit(o) \/ SubmitConfirmed(o) \/ SubmitRejected(o)
      PROVE  StageKept
  <2>1. PICK f \in {"posting", "confirmed", "rejected"} :
          fate' = [fate EXCEPT ![o] = f] /\ fate[o] \in {"new", "posting"}
    BY <1>4 DEF Submit, SubmitConfirmed, SubmitRejected, Becomes
  <2>2. \A p \in Op : p # o => fate'[p] = fate[p]
    BY <1>1, <2>1
  <2>3. fate'[o] = f
    BY <1>1, <2>1
  <2> QED
    BY <2>1, <2>2, <2>3 DEF StageKept, Stage
<1>5. ASSUME NEW o \in Op, SubmitQueued(o)
      PROVE  Abstract!Enqueue(o)
  <2>1. fate[o] = "posting" /\ fate' = [fate EXCEPT ![o] = "queued"]
    BY <1>5 DEF SubmitQueued, Becomes
  <2>2. Stage(o) = "entered" /\ Stage(o)' = "queued"
    BY <1>1, <2>1 DEF Stage
  <2>3. \A p \in Op : p # o => Stage(p)' = Stage(p)
    BY <1>1, <2>1 DEF Stage
  <2> QED
    BY <2>2, <2>3 DEF Abstract!Enqueue
<1>6. ASSUME NEW o \in Op, RemoveOperation(o)
      PROVE  Abstract!Withdraw(o)
  <2>1. fate[o] = "queued" /\ fate' = [fate EXCEPT ![o] = "removed"]
    BY <1>1, <1>6 DEF RemoveOperation, Becomes, QueueFate
  <2>2. Stage(o) = "queued" /\ Stage(o)' = "withdrawn"
    BY <1>1, <2>1 DEF Stage
  <2>3. \A p \in Op : p # o => Stage(p)' = Stage(p)
    BY <1>1, <2>1 DEF Stage
  <2> QED
    BY <2>2, <2>3 DEF Abstract!Withdraw
<1> QED
  BY <1>2, <1>3, <1>4, <1>5, <1>6, KeptIsStutter DEF Abstract!Next

\* The rows answered SYNCED leave the queue, and all of them are done.
LEMMA AnswersRefine ==
  ASSUME SystemInv, UNCHANGED effects, NEW r \in Req, NEW S \in SUBSET Op,
         \/ PushAnswered(results[r]) /\ S = Op
         \/ RestartAmidAnswers(results[r], S)
  PROVE  [Abstract!Next]_(Abstract!vars)
<1> DEFINE D == SyncedRows(results[r], S)
<1>1. fate \in [Op -> Fates] /\ QueueFate
  BY DEF SystemInv, SystemTypeOK, PhoneTypeOK
<1>2. ASSUME NEW o \in D
      PROVE  /\ o \in Op /\ Stage(o) = "queued" /\ effects[o] > 0
             /\ Stage(o)' = "acknowledged"
  <2>1. o \in Op /\ item[o] # "ABSENT" /\ results[r][o] = "SYNCED"
    BY <1>2 DEF SyncedRows
  <2>2. fate[o] = "queued" /\ effects[o] > 0
    BY <1>1, <2>1 DEF QueueFate, SystemInv, ServerInv, SyncedIsReal
  <2>3. fate'[o] = "synced"
    BY <1>2, <2>1 DEF PushAnswered, RestartAmidAnswers
  <2> QED
    BY <2>1, <2>2, <2>3 DEF Stage
<1>3. ASSUME NEW o \in Op, o \notin D
      PROVE  Stage(o)' = Stage(o)
  <2>1. fate'[o] = fate[o] \/ (fate[o] = "posting" /\ fate'[o] = "abandoned")
    BY <1>3 DEF PushAnswered, RestartAmidAnswers, FateAfterRestart
  <2> QED
    BY <2>1 DEF Stage
<1>4. D \in SUBSET Op
  BY DEF SyncedRows
<1>5. Abstract!Acknowledge(D)
  BY <1>2, <1>3, <1>4 DEF Abstract!Acknowledge
<1> QED
  BY <1>4, <1>5 DEF Abstract!Next

LEMMA StepRefines ==
  ASSUME SystemInv, [SystemNext]_vars
  PROVE  [Abstract!Next]_(Abstract!vars)
<1>1. ASSUME NEW o \in Op,
             \/ SubmitDelivered(o) \/ SubmitLost(o) \/ DirectServed(o)
             \/ SubmitAnswered(o) \/ SubmitFails(o) \/ RowAges(o)
      PROVE  [Abstract!Next]_(Abstract!vars)
  BY <1>1, PhoneRefines DEF SubmitDelivered, SubmitLost, DirectServed, SubmitAnswered,
     SubmitFails, RowAges, Age, phoneVars, serverVars, table
<1>2. ASSUME NEW r \in Req, ServerStep(r) \/ ServerFault(r)
      PROVE  [Abstract!Next]_(Abstract!vars)
  BY <1>2, HandlerExecutes DEF ServerStep, ServerFault
<1>3. ASSUME NEW r \in Req,
             PushResponse(r) \/ ResponseDropped(r) \/ AppRestartAmidAnswers(r)
      PROVE  [Abstract!Next]_(Abstract!vars)
  <2>1. UNCHANGED effects
    BY <1>3 DEF PushResponse, ResponseDropped, AppRestartAmidAnswers, Respond, table
  <2>2. CASE PushAnswered(results[r]) \/ \E S \in SUBSET Op : RestartAmidAnswers(results[r], S)
    BY <2>1, <2>2, AnswersRefine
  <2>3. CASE UNCHANGED fate
    BY <2>1, <2>3, PhoneRefines
  <2>4. \/ PushAnswered(results[r]) \/ \E S \in SUBSET Op : RestartAmidAnswers(results[r], S)
        \/ UNCHANGED fate
    BY <1>3 DEF PushResponse, ResponseDropped, AppRestartAmidAnswers, PushFailed, phoneVars
  <2> QED
    BY <2>2, <2>3, <2>4
<1>4. CASE PushDelivered \/ PushRefused \/ PushLost \/ PushTimeout \/ ServerCrash
  BY <1>4, PhoneRefines DEF PushDelivered, PushRefused, PushLost, PushTimeout, ServerCrash,
     SelectRows,
     Receive, PushFailed, Crash, phoneVars, serverVars, table
<1>5. CASE AppRestart
  BY <1>5, PhoneRefines DEF AppRestart, serverVars, table
<1>6. CASE PhoneAlone
  BY <1>6, PhoneRefines DEF PhoneAlone, PhoneStep, UserStep, SelectNone, PullEnds, ManualSync,
     RetryOperation, GoOffline, GoOnline, TokenExpires, serverVars, table
<1>7. CASE UNCHANGED vars
  BY <1>7, PhoneRefines DEF vars, phoneVars, serverVars, table
<1> QED
  BY <1>1, <1>2, <1>3, <1>4, <1>5, <1>6, <1>7 DEF SystemNext

\* Phone, network and server implement the abstract specification: no operation of the
\* queue is lost, none is acknowledged before the server has carried it out, and none the
\* user deleted comes back.
THEOREM SystemRefinesAtLeastOnce == SystemSpec => ImplementsAtLeastOnce
<1>1. SystemInit => Abstract!Init
  BY DEF SystemInit, ServerInit, PhoneInit, Stage, Abstract!Init
<1>2. SystemInv /\ [SystemNext]_vars => [Abstract!Next]_(Abstract!vars)
  BY StepRefines
<1> QED
  BY <1>1, <1>2, SystemInvariant, PTL DEF SystemSpec, ImplementsAtLeastOnce, Abstract!Spec
-----------------------------------------------------------------------------
(* What the refinements give: the system keeps what its server promises by *)
(* itself, and what AtLeastOnce promises.                                  *)

\* What the phone and the network do to the server is what any clients could do: the whole
\* system, in which they send what SyncEngine sends, implements SyncServer.
LEMMA ServerSteps ==
  ASSUME [SystemNext]_vars
  PROVE  [ServerNext]_serverVars
<1>1. ASSUME NEW o \in Op,
             \/ SubmitDelivered(o) \/ SubmitLost(o) \/ DirectServed(o)
             \/ SubmitAnswered(o) \/ SubmitFails(o)
      PROVE  UNCHANGED serverVars
  BY <1>1 DEF SubmitDelivered, SubmitLost, DirectServed, SubmitAnswered, SubmitFails
<1>2. ASSUME NEW o \in Op, RowAges(o) PROVE ServerNext
  BY <1>2 DEF RowAges, ServerNext
<1>3. ASSUME NEW r \in Req,
             \/ PushResponse(r) \/ ResponseDropped(r) \/ ServerStep(r) \/ ServerFault(r)
             \/ AppRestartAmidAnswers(r)
      PROVE  ServerNext
  BY <1>3 DEF PushResponse, ResponseDropped, ServerStep, ServerFault, AppRestartAmidAnswers,
     ServerNext
<1>4. CASE PushDelivered
  BY <1>4 DEF PushDelivered, ServerNext
<1>5. CASE ServerCrash
  BY <1>5 DEF ServerCrash, ServerNext
<1>6. CASE PushRefused \/ PushLost \/ PushTimeout \/ AppRestart \/ PhoneAlone \/ UNCHANGED vars
  BY <1>6 DEF PushRefused, PushLost, PushTimeout, AppRestart, PhoneAlone, vars
<1> QED
  BY <1>1, <1>2, <1>3, <1>4, <1>5, <1>6 DEF SystemNext

THEOREM SystemRespectsServer == SystemSpec => ServerSpec
<1>1. SystemInit => ServerInit
  BY DEF SystemInit
<1>2. [SystemNext]_vars => [ServerNext]_serverVars
  BY ServerSteps
<1> QED
  BY <1>1, <1>2, PTL DEF SystemSpec, ServerSpec

\* So nothing a phone does, and nothing that becomes of its requests, breaks what push
\* promises: applied at most once and by one handler at a time while the key alone guards it,
\* SYNCED only with a record, and a guarded result for good (sync.service.ts lines 51-126).
THEOREM PushKeepsItsPromises ==
  SystemSpec => [](AtMostOnce /\ NoParallelWork /\ SyncedIsReal) /\ SyncedIsFinal
BY SystemRespectsServer, AppliedAtMostOnce, OneWorkerAtATime, SyncedMeansApplied,
   SyncedStaysSynced, PTL

\* No entry is taken for synchronised that the server has not carried out.
NothingLost == \A o \in Op : fate[o] = "synced" => effects[o] > 0

\* What has left the queue, synchronised or deleted by the user, stays out of it.
GoneForGood == \A o \in Op : fate[o] \in {"synced", "removed"} => fate'[o] = fate[o]

\* Both follow from the steps of the abstract specification.
LEMMA AbstractPromise ==
  ASSUME \A o \in Op : effects[o] \in Nat, \A o \in Op : effects'[o] \in Nat,
         NothingLost, [Abstract!Next]_(Abstract!vars)
  PROVE  NothingLost' /\ GoneForGood
<1> DEFINE stg == [o \in Op |-> Stage(o)]
<1>0. /\ \A o \in Op : stg[o] = Stage(o) /\ stg'[o] = Stage(o)'
      /\ \A o \in Op : effects[o] + 1 > 0
  OBVIOUS
<1>1. \A o \in Op : /\ stg[o] = "acknowledged" <=> fate[o] = "synced"
                    /\ stg[o] = "withdrawn" <=> fate[o] = "removed"
                    /\ stg'[o] = "acknowledged" <=> fate'[o] = "synced"
                    /\ stg'[o] = "withdrawn" <=> fate'[o] = "removed"
  BY DEF Stage
<1>2. /\ \A o \in Op : stg[o] \in {"acknowledged", "withdrawn"} => stg'[o] = stg[o]
      /\ \A o \in Op : stg'[o] = "acknowledged" =>
           (stg[o] = "acknowledged" \/ effects[o] > 0)
      /\ \A o \in Op : effects[o] > 0 => effects'[o] > 0
  <2>1. ASSUME NEW x \in Op, Abstract!Enqueue(x)
        PROVE  /\ stg' = [stg EXCEPT ![x] = "queued"] /\ stg[x] = "entered"
               /\ effects' = effects
    BY <2>1 DEF Abstract!Enqueue
  <2>2. ASSUME NEW x \in Op, Abstract!Execute(x)
        PROVE  stg' = stg /\ effects' = [effects EXCEPT ![x] = @ + 1]
    BY <2>2 DEF Abstract!Execute
  <2>3. ASSUME NEW x \in Op, Abstract!Withdraw(x)
        PROVE  /\ stg' = [stg EXCEPT ![x] = "withdrawn"] /\ stg[x] = "queued"
               /\ effects' = effects
    BY <2>3 DEF Abstract!Withdraw
  <2>4. ASSUME NEW S \in SUBSET Op, Abstract!Acknowledge(S)
        PROVE  /\ stg' = [o \in Op |-> IF o \in S THEN "acknowledged" ELSE stg[o]]
               /\ \A o \in S : stg[o] = "queued" /\ effects[o] > 0
               /\ effects' = effects
    BY <2>4 DEF Abstract!Acknowledge
  <2>5. CASE UNCHANGED Abstract!vars
    BY <2>5 DEF Abstract!vars
  <2>6. DOMAIN stg = Op
    OBVIOUS
  <2> HIDE DEF stg
  <2>7. CASE \E x \in Op : Abstract!Execute(x)
    <3>1. PICK x \in Op : stg' = stg /\ effects' = [effects EXCEPT ![x] = @ + 1]
      BY <2>2, <2>7
    <3>2. \A o \in Op : effects'[o] = effects[o] \/ effects'[o] = effects[o] + 1
      BY <3>1
    <3> QED
      BY <1>0, <3>1, <3>2
  <2> QED
    BY <2>1, <2>3, <2>4, <2>5, <2>6, <2>7 DEF Abstract!Next
<1> QED
  BY <1>1, <1>2 DEF NothingLost, GoneForGood

\* An entry that the phone has dropped as synchronised was carried out by the server, whatever
\* was lost, repeated or interrupted, and neither it nor one the user has deleted comes back
\* (sync_engine.dart lines 158-227).
THEOREM NothingIsLost == SystemSpec => []NothingLost /\ [][GoneForGood]_vars
<1>1. SystemInit => NothingLost
  BY DEF SystemInit, PhoneInit, NothingLost
<1>2. ASSUME SystemInv, SystemInv', NothingLost, [SystemNext]_vars
      PROVE  NothingLost' /\ [GoneForGood]_vars
  <2>1. /\ \A o \in Op : effects[o] \in Nat
        /\ \A o \in Op : effects'[o] \in Nat
    BY <1>2 DEF SystemInv, SystemTypeOK, TypeOK, TableOK
  <2>2. [Abstract!Next]_(Abstract!vars)
    BY <1>2, StepRefines
  <2> QED
    BY <1>2, <2>1, <2>2, AbstractPromise
<1> QED
  BY <1>1, <1>2, SystemInvariant, PTL DEF SystemSpec
=============================================================================
