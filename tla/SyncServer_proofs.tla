------------------------- MODULE SyncServer_proofs -------------------------
(***************************************************************************)
(* Proofs about SyncServer, for every set of operations, every number of   *)
(* concurrent requests and every bound.                                    *)
(*                                                                         *)
(* The lemmas are about single actions and say nothing of ServerNext, so   *)
(* that SyncSystem_proofs can use them for the same actions in the larger  *)
(* system.                                                                 *)
(***************************************************************************)
EXTENDS SyncServer, SequenceTheorems, TLAPS

\* What is known of an operation list that is not empty.
LEMMA HeadTail ==
  ASSUME NEW s \in Seq(Op), s # <<>>
  PROVE  Head(s) \in Op /\ Tail(s) \in Seq(Op)
BY HeadTailProperties

\* Continue returns a control state, and asks for a query only if there is something
\* to query for.
LEMMA ContinueTyped ==
  ASSUME NEW s \in Seq(Op)
  PROVE  /\ Continue(s) \in {"done", "find"}
         /\ Continue(s) \in Calls => s # <<>>
BY DEF Continue, Calls

LEMMA AnswerTyped ==
  ASSUME HandlersOK, NEW r \in Req, pc[r] \in Calls,
         NEW answer \in Answers, Answer(r, answer)
  PROVE  HandlersOK'
<1> DEFINE o == Head(todo[r])
           rest == Tail(todo[r])
<1>1. todo[r] \in Seq(Op) /\ todo[r] # <<>>
  BY DEF HandlersOK
<1>2. o \in Op /\ rest \in Seq(Op)
  BY <1>1, HeadTail
<1>3. Continue(rest) \in {"done", "find"} /\ (Continue(rest) \in Calls => rest # <<>>)
  BY <1>2, ContinueTyped
<1> HIDE DEF o, rest
<1>4. /\ results' = [results EXCEPT ![r][o] = answer]
      /\ todo'    = [todo EXCEPT ![r] = rest]
      /\ made'    = [made EXCEPT ![r] = 0]
      /\ error'   = [error EXCEPT ![r] = "FAILED"]
      /\ pc'      = [pc EXCEPT ![r] = Continue(rest)]
  BY DEF Answer, Goto, o, rest
<1>5. results' \in [Req -> [Op -> Answers]]
  BY <1>2, <1>4 DEF HandlersOK
<1>6. /\ todo'  \in [Req -> Seq(Op)]
      /\ made'  \in [Req -> Nat]
      /\ error' \in [Req -> Failure]
      /\ pc'    \in [Req -> Calls \cup {"idle", "done", "broken"}]
  BY <1>2, <1>3, <1>4 DEF HandlersOK, Failure, Calls
<1>7. \A q \in Req : pc'[q] \in Calls => todo'[q] # <<>>
  BY <1>3, <1>4 DEF HandlersOK
<1> QED
  BY <1>5, <1>6, <1>7 DEF HandlersOK

LEMMA GotoTyped ==
  ASSUME HandlersOK, NEW r \in Req, pc[r] \in Calls,
         NEW call \in Calls \cup {"broken"}, Goto(r, call),
         UNCHANGED <<todo, results>>,
         made' \in [Req -> Nat], error' \in [Req -> Failure]
  PROVE  HandlersOK'
BY DEF HandlersOK, Goto, Calls

-----------------------------------------------------------------------------
(* Type correctness.                                                       *)

LEMMA InitTyped == ServerInit => TypeOK
BY EmptySeq DEF ServerInit, TypeOK, TableOK, HandlersOK, Calls, Failure, Recorded,
                Answers, NoAnswers

LEMMA ResolveTyped ==
  ASSUME TypeOK, NEW r \in Req, pc[r] \in Calls, NEW o \in Op, ResolveExisting(r, o)
  PROVE  TypeOK'
<1>1. TableOK'
  BY DEF ResolveExisting, table, TypeOK, TableOK
<1>2. CASE Answer(r, "SYNCED") \/ Answer(r, "PENDING")
  BY <1>1, <1>2, AnswerTyped DEF TypeOK, Answers, Recorded
<1>3. CASE Goto(r, "apply") /\ UNCHANGED <<todo, results, made, error>>
  BY <1>1, <1>3, GotoTyped DEF TypeOK, HandlersOK, Calls
<1> QED
  BY <1>2, <1>3 DEF ResolveExisting

LEMMA HandlerStepTyped ==
  ASSUME TypeOK, NEW r \in Req, HandlerStep(r)
  PROVE  TypeOK'
<1> DEFINE o == Head(todo[r])
<1>1. pc[r] \in Calls
  BY DEF HandlerStep, Find, Create, Refind, ApplyCommits, ApplyRejects, Record,
         RecordError, Calls
<1>2. o \in Op
  BY <1>1, HeadTail DEF TypeOK, HandlersOK
<1> HIDE DEF o
<1>3. CASE Find(r)
  <2>1. CASE ResolveExisting(r, o)
    BY <1>1, <1>2, <2>1, ResolveTyped
  <2>2. CASE Goto(r, "create") /\ UNCHANGED <<table, todo, results, made, error>>
    BY <1>1, <2>2, GotoTyped DEF TypeOK, TableOK, table, HandlersOK, Calls
  <2> QED
    BY <1>3, <2>1, <2>2 DEF Find, o
<1>4. CASE Create(r)
  <2>1. TableOK'
    BY <1>2, <1>4 DEF Create, o, TypeOK, TableOK, table, Recorded
  <2>2. HandlersOK'
    BY <1>1, <1>4, GotoTyped DEF Create, TypeOK, HandlersOK, Calls
  <2> QED
    BY <2>1, <2>2 DEF TypeOK
<1>5. CASE Refind(r)
  BY <1>1, <1>2, <1>5, ResolveTyped DEF Refind, o
<1>6. CASE ApplyCommits(r)
  <2>1. effects' \in [Op -> Nat] /\ made' \in [Req -> Nat]
    BY <1>2, <1>6 DEF ApplyCommits, o, TypeOK, TableOK, HandlersOK
  <2>2. TableOK'
    BY <1>6, <2>1 DEF ApplyCommits, TypeOK, TableOK
  <2>3. HandlersOK'
    BY <1>1, <1>6, <2>1, GotoTyped DEF ApplyCommits, TypeOK, HandlersOK, Calls
  <2> QED
    BY <2>2, <2>3 DEF TypeOK
<1>7. ASSUME NEW e \in Errors, ApplyRejects(r, e)
      PROVE  TypeOK'
  <2>1. TableOK'
    BY <1>7 DEF ApplyRejects, TypeOK, TableOK, table
  <2>2. error' \in [Req -> Failure]
    BY <1>7 DEF ApplyRejects, StatusOf, Failure, TypeOK, HandlersOK
  <2>3. HandlersOK'
    BY <1>1, <1>7, <2>2, GotoTyped DEF ApplyRejects, TypeOK, HandlersOK, Calls
  <2> QED
    BY <2>1, <2>3 DEF TypeOK
<1>8. CASE Record(r)
  <2>1. TableOK'
    BY <1>2, <1>8 DEF Record, o, TypeOK, TableOK, HandlersOK, Recorded
  <2>2. HandlersOK'
    BY <1>1, <1>8, AnswerTyped DEF Record, TypeOK, Answers, Recorded
  <2> QED
    BY <2>1, <2>2 DEF TypeOK
<1>9. CASE RecordError(r)
  <2>1. error[r] \in Failure
    BY DEF TypeOK, HandlersOK
  <2>2. TableOK'
    BY <1>2, <1>9, <2>1 DEF RecordError, o, TypeOK, TableOK, Recorded, Failure
  <2>3. HandlersOK'
    BY <1>1, <1>9, <2>1, AnswerTyped
       DEF RecordError, TypeOK, Answers, Recorded, Failure
  <2> QED
    BY <2>2, <2>3 DEF TypeOK
<1> QED
  BY <1>3, <1>4, <1>5, <1>6, <1>7, <1>8, <1>9 DEF HandlerStep

LEMMA HandlerFaultTyped ==
  ASSUME TypeOK, NEW r \in Req, HandlerFault(r)
  PROVE  TypeOK'
<1>1. pc[r] \in Calls
  BY DEF HandlerFault, ApplyThrowsLate, RecordThrows, QueryThrows, Calls
<1>2. Head(todo[r]) \in Op
  BY <1>1, HeadTail DEF TypeOK, HandlersOK
<1>3. CASE ApplyThrowsLate(r)
  <2>1. TableOK'
    BY <1>2, <1>3 DEF ApplyThrowsLate, TypeOK, TableOK
  <2>2. error' \in [Req -> Failure]
    BY <1>3 DEF ApplyThrowsLate, StatusOf, Failure, TypeOK, HandlersOK
  <2>3. HandlersOK'
    BY <1>1, <1>3, <2>2, GotoTyped DEF ApplyThrowsLate, TypeOK, HandlersOK, Calls
  <2> QED
    BY <2>1, <2>3 DEF TypeOK
<1>4. CASE RecordThrows(r)
  <2>1. TableOK'
    BY <1>4 DEF RecordThrows, TypeOK, TableOK, table
  <2>2. error' \in [Req -> Failure] /\ made' \in [Req -> Nat]
    BY <1>4 DEF RecordThrows, StatusOf, Failure, TypeOK, HandlersOK
  <2>3. HandlersOK'
    BY <1>1, <1>4, <2>2, GotoTyped DEF RecordThrows, TypeOK, HandlersOK, Calls
  <2> QED
    BY <2>1, <2>3 DEF TypeOK
<1>5. CASE QueryThrows(r)
  BY <1>1, <1>5, GotoTyped DEF QueryThrows, TypeOK, TableOK, table, HandlersOK
<1> QED
  BY <1>3, <1>4, <1>5 DEF HandlerFault

LEMMA ReceiveTyped ==
  ASSUME TypeOK, NEW r \in Req, NEW ops \in Seq(Op), Receive(r, ops)
  PROVE  TypeOK'
<1>1. Continue(ops) \in {"done", "find"} /\ (Continue(ops) \in Calls => ops # <<>>)
  BY ContinueTyped
<1>2. TableOK'
  BY DEF Receive, TypeOK, TableOK, table
<1>3. /\ todo' = [todo EXCEPT ![r] = ops]
      /\ pc'   = [pc EXCEPT ![r] = Continue(ops)]
      /\ UNCHANGED <<results, made, error>>
  BY DEF Receive, Goto
<1>4. HandlersOK'
  BY <1>1, <1>3 DEF TypeOK, HandlersOK, Calls
<1> QED
  BY <1>2, <1>4 DEF TypeOK

LEMMA RespondTyped ==
  ASSUME TypeOK, NEW r \in Req, Respond(r)
  PROVE  TypeOK'
<1>1. TableOK'
  BY DEF Respond, TypeOK, TableOK, table
<1>2. <<>> \in Seq(Op) /\ NoAnswers \in [Op -> Answers] /\ "FAILED" \in Failure
  BY EmptySeq DEF NoAnswers, Answers, Failure
<1>3. HandlersOK'
  BY <1>2 DEF Respond, Goto, TypeOK, HandlersOK, Calls
<1> QED
  BY <1>1, <1>3 DEF TypeOK

LEMMA AgeTyped ==
  ASSUME TypeOK, NEW o \in Op, Age(o)
  PROVE  TypeOK'
BY DEF Age, handler, TypeOK, TableOK, HandlersOK

LEMMA CrashTyped ==
  ASSUME TypeOK, Crash
  PROVE  TypeOK'
<1>1. <<>> \in Seq(Op) /\ NoAnswers \in [Op -> Answers] /\ "FAILED" \in Failure
  BY EmptySeq DEF NoAnswers, Answers, Failure
<1> QED
  BY <1>1 DEF Crash, table, TypeOK, TableOK, HandlersOK, Calls

\* Every variable of the server keeps its type.
THEOREM TypeCorrect == ServerSpec => []TypeOK
<1>1. ServerInit => TypeOK
  BY InitTyped
<1>2. TypeOK /\ [ServerNext]_serverVars => TypeOK'
  <2> SUFFICES ASSUME TypeOK, [ServerNext]_serverVars
               PROVE  TypeOK'
    OBVIOUS
  <2>1. ASSUME NEW r \in Req, NEW ops \in Batches, Receive(r, ops)
        PROVE  TypeOK'
    BY <2>1, ReceiveTyped, BatchesAssumption
  <2>2. ASSUME NEW r \in Req, HandlerStep(r) \/ HandlerFault(r) \/ Respond(r)
        PROVE  TypeOK'
    BY <2>2, HandlerStepTyped, HandlerFaultTyped, RespondTyped
  <2>3. ASSUME NEW o \in Op, Age(o)
        PROVE  TypeOK'
    BY <2>3, AgeTyped
  <2>4. CASE Crash
    BY <2>4, CrashTyped
  <2>5. CASE UNCHANGED serverVars
    BY <2>5 DEF serverVars, table, handler, TypeOK, TableOK, HandlersOK
  <2> QED
    BY <2>1, <2>2, <2>3, <2>4, <2>5 DEF ServerNext
<1> QED
  BY <1>1, <1>2, PTL DEF ServerSpec

-----------------------------------------------------------------------------
(* What a step of handler r leaves alone.                                  *)

LEMMA AnswerLocal ==
  ASSUME HandlersOK, NEW r \in Req, NEW answer \in Answers, Answer(r, answer)
  PROVE  /\ pc'[r] \in {"done", "find"}
         /\ results'[r] = [results[r] EXCEPT ![Head(todo[r])] = answer]
         /\ \A q \in Req \ {r} :
              /\ pc'[q] = pc[q] /\ todo'[q] = todo[q]
              /\ made'[q] = made[q] /\ results'[q] = results[q]
BY DEF HandlersOK, Answer, Goto, Continue

LEMMA GotoLocal ==
  ASSUME HandlersOK, NEW r \in Req, NEW call, Goto(r, call), UNCHANGED todo
  PROVE  /\ pc'[r] = call
         /\ \A q \in Req \ {r} : pc'[q] = pc[q]
         /\ \A q \in Req : todo'[q] = todo[q]
BY DEF HandlersOK, Goto

\* Sufficient for KeyGuards: the rows stay as they are and nobody starts to work.
LEMMA NobodyStarts ==
  ASSUME NEW o \in Op, KeyGuards(o), UNCHANGED <<status, effects>>,
         stale \subseteq stale', failed \subseteq failed',
         \A q \in Req :
           Working(q, o)' => Working(q, o) /\ (pc'[q] = "apply" => pc[q] = "apply")
  PROVE  KeyGuards(o)'
<1> SUFFICES ASSUME Guarded(o)'
             PROVE  KeyGuards(o)'
  BY DEF KeyGuards
<1>1. Guarded(o)
  BY DEF Guarded
<1>2. /\ effects'[o] <= 1
      /\ status'[o] \notin Failure
      /\ status'[o] = "NONE" => effects'[o] = 0
  BY <1>1 DEF KeyGuards
<1>3. ASSUME NEW r \in Req, Working(r, o)'
      PROVE  /\ status'[o] = "PENDING"
             /\ pc'[r] = "apply" => effects'[o] = 0
             /\ \A q \in Req : Working(q, o)' => q = r
  BY <1>1, <1>3 DEF KeyGuards
<1> QED
  BY <1>2, <1>3 DEF KeyGuards

-----------------------------------------------------------------------------
(* KeyGuards, action by action.                                            *)

LEMMA ResolveKeyGuards ==
  ASSUME TypeOK, NEW r \in Req, pc[r] \in {"find", "refind"},
         ResolveExisting(r, Head(todo[r])),
         NEW o \in Op, KeyGuards(o)
  PROVE  KeyGuards(o)'
<1>1. UNCHANGED <<status, effects, stale, failed>>
  BY DEF ResolveExisting, table
<1>2. ASSUME NEW answer \in Answers, Answer(r, answer)
      PROVE  KeyGuards(o)'
  BY <1>1, <1>2, AnswerLocal, NobodyStarts DEF Working, TypeOK
<1>3. CASE /\ status[Head(todo[r])] \in Failure \/ ~Fresh(Head(todo[r]))
           /\ Goto(r, "apply")
           /\ UNCHANGED <<todo, results, made, error>>
  <2>1. CASE Head(todo[r]) = o
    BY <1>1, <1>3, <2>1 DEF KeyGuards, Guarded, Fresh
  <2>2. CASE Head(todo[r]) # o
    BY <1>1, <1>3, <2>2, GotoLocal, NobodyStarts DEF Working, TypeOK
  <2> QED
    BY <2>1, <2>2
<1> QED
  BY <1>2, <1>3 DEF ResolveExisting, Answers, Recorded

LEMMA CreateKeyGuards ==
  ASSUME TypeOK, NEW r \in Req, Create(r), NEW o \in Op, KeyGuards(o)
  PROVE  KeyGuards(o)'
<1>1. /\ todo[r] \in Seq(Op) /\ todo[r] # <<>>
      /\ Head(todo[r]) \in Op
  BY HeadTail DEF Create, TypeOK, HandlersOK, Calls
<1>2. CASE Head(todo[r]) = o /\ status[o] = "NONE"
  <2>1. /\ status' = [status EXCEPT ![o] = "PENDING"]
        /\ Goto(r, "apply")
        /\ UNCHANGED <<effects, stale, failed, todo>>
    BY <1>2 DEF Create
  <2>2. status'[o] = "PENDING"
    BY <2>1 DEF TypeOK, TableOK
  <2>3. ASSUME Guarded(o)
        PROVE  effects[o] = 0 /\ \A q \in Req : ~Working(q, o)
    BY <1>2, <2>3 DEF KeyGuards
  <2>4. \A q \in Req \ {r} : Working(q, o)' => Working(q, o)
    BY <2>1, GotoLocal DEF Working, TypeOK
  <2> QED
    BY <2>1, <2>2, <2>3, <2>4 DEF KeyGuards, Guarded, Failure
<1>3. CASE Head(todo[r]) # o /\ status[Head(todo[r])] = "NONE"
  <2>1. UNCHANGED <<effects, stale, failed>> /\ status'[o] = status[o]
    BY <1>1, <1>3 DEF Create, TypeOK, TableOK
  <2>2. \A q \in Req : Working(q, o)' => Working(q, o) /\ pc'[q] = pc[q]
    BY <1>3, GotoLocal DEF Create, Working, TypeOK
  <2> QED
    BY <2>1, <2>2 DEF KeyGuards, Guarded
<1>4. CASE status[Head(todo[r])] # "NONE"
  <2>1. UNCHANGED table /\ Goto(r, "refind") /\ UNCHANGED todo
    BY <1>4 DEF Create
  <2> QED
    BY <2>1, GotoLocal, NobodyStarts DEF Working, TypeOK, table
<1> QED
  BY <1>2, <1>3, <1>4

LEMMA ApplyKeyGuards ==
  ASSUME TypeOK, NEW r \in Req, ApplyCommits(r) \/ ApplyThrowsLate(r),
         NEW o \in Op, KeyGuards(o)
  PROVE  KeyGuards(o)'
<1>1. /\ pc[r] = "apply"
      /\ effects' = [effects EXCEPT ![Head(todo[r])] = @ + 1]
      /\ pc'[r] # "apply"
      /\ \A q \in Req \ {r} : pc'[q] = pc[q]
      /\ UNCHANGED <<status, stale, failed, todo>>
  BY GotoLocal DEF ApplyCommits, ApplyThrowsLate, TypeOK
<1>2. Head(todo[r]) \in Op
  BY <1>1, HeadTail DEF TypeOK, HandlersOK, Calls
<1>3. \A q \in Req : Working(q, o)' => Working(q, o)
  BY <1>1 DEF Working
<1>4. CASE Head(todo[r]) = o
  <2>1. effects'[o] = effects[o] + 1 /\ effects[o] \in Nat
    BY <1>1, <1>4 DEF TypeOK, TableOK
  <2>2. Working(r, o)
    BY <1>1, <1>4 DEF Working
  <2>3. SUFFICES ASSUME Guarded(o)
                 PROVE  KeyGuards(o)'
    BY <1>1 DEF KeyGuards, Guarded
  <2>4. /\ effects[o] = 0 /\ status[o] = "PENDING"
        /\ \A q \in Req : Working(q, o) => q = r
    BY <1>1, <2>2, <2>3 DEF KeyGuards
  <2> QED
    BY <1>1, <1>3, <2>1, <2>4 DEF KeyGuards, Failure
<1>5. CASE Head(todo[r]) # o
  <2>1. effects'[o] = effects[o]
    BY <1>1, <1>2, <1>5 DEF TypeOK, TableOK
  <2>2. \A q \in Req : Working(q, o)' => pc'[q] = pc[q]
    BY <1>1, <1>5 DEF Working
  <2> QED
    BY <1>1, <1>3, <2>1, <2>2 DEF KeyGuards, Guarded
<1> QED
  BY <1>4, <1>5

LEMMA RecordKeyGuards ==
  ASSUME TypeOK, NEW r \in Req, Record(r) \/ RecordError(r), NEW o \in Op, KeyGuards(o)
  PROVE  KeyGuards(o)'
<1>1. pc[r] \in {"record", "recordError"}
  BY DEF Record, RecordError
<1>2. Head(todo[r]) \in Op
  BY <1>1, HeadTail DEF TypeOK, HandlersOK, Calls
<1>3. PICK answer \in Answers : Answer(r, answer)
  BY DEF Record, RecordError, TypeOK, HandlersOK, Answers, Recorded, Failure
<1>4. \A q \in Req : Working(q, o)' => q # r /\ Working(q, o) /\ pc'[q] = pc[q]
  BY <1>3, AnswerLocal DEF Working, TypeOK
<1>5. CASE Head(todo[r]) # o
  <2>1. /\ status'[o] = status[o] /\ effects'[o] = effects[o]
        /\ stale' = stale /\ failed \subseteq failed'
    BY <1>2, <1>5 DEF Record, RecordError, TypeOK, TableOK
  <2> QED
    BY <1>4, <2>1 DEF KeyGuards, Guarded
<1>6. CASE Head(todo[r]) = o /\ RecordError(r)
  BY <1>6 DEF RecordError, KeyGuards, Guarded
<1>7. CASE Head(todo[r]) = o /\ Record(r)
  <2>1. status'[o] = "SYNCED" /\ UNCHANGED <<effects, stale, failed>>
    BY <1>7 DEF Record, TypeOK, TableOK
  <2>2. Working(r, o)
    BY <1>1, <1>7 DEF Working
  <2>3. ASSUME Guarded(o)
        PROVE  \A q \in Req : ~Working(q, o)'
    BY <1>4, <2>2, <2>3 DEF KeyGuards
  <2> QED
    BY <2>1, <2>3 DEF KeyGuards, Guarded, Failure
<1> QED
  BY <1>5, <1>6, <1>7

\* The remaining actions of a handler: no row changes and nobody starts to work.
LEMMA QuietKeyGuards ==
  ASSUME TypeOK, NEW r \in Req,
         \/ \E e \in Errors : ApplyRejects(r, e)
         \/ RecordThrows(r) \/ QueryThrows(r) \/ Respond(r)
         \/ \E ops \in Seq(Op) : Receive(r, ops),
         NEW o \in Op, KeyGuards(o)
  PROVE  KeyGuards(o)'
<1>1. UNCHANGED <<status, effects, stale, failed>>
  BY DEF ApplyRejects, RecordThrows, QueryThrows, Respond, Receive, table
<1>2. \A q \in Req \ {r} : pc'[q] = pc[q] /\ todo'[q] = todo[q]
  BY DEF ApplyRejects, RecordThrows, QueryThrows, Respond, Receive, Goto, TypeOK,
         HandlersOK
<1>3. Working(r, o)' => Working(r, o) /\ pc'[r] # "apply"
  BY DEF ApplyRejects, RecordThrows, QueryThrows, Respond, Receive, Goto, TypeOK,
         HandlersOK, Working, Continue
<1> QED
  BY <1>1, <1>2, <1>3, NobodyStarts DEF Working

LEMMA HandlerStepKeyGuards ==
  ASSUME TypeOK, NEW r \in Req, HandlerStep(r), NEW o \in Op, KeyGuards(o)
  PROVE  KeyGuards(o)'
<1>1. CASE Find(r)
  <2>1. CASE ResolveExisting(r, Head(todo[r]))
    BY <1>1, <2>1, ResolveKeyGuards DEF Find
  <2>2. CASE Goto(r, "create") /\ UNCHANGED <<table, todo, results, made, error>>
    BY <2>2, GotoLocal, NobodyStarts DEF Working, TypeOK, table
  <2> QED
    BY <1>1, <2>1, <2>2 DEF Find
<1>2. CASE Refind(r)
  BY <1>2, ResolveKeyGuards DEF Refind
<1> QED
  BY <1>1, <1>2, CreateKeyGuards, ApplyKeyGuards, RecordKeyGuards, QuietKeyGuards
     DEF HandlerStep

LEMMA HandlerFaultKeyGuards ==
  ASSUME TypeOK, NEW r \in Req, HandlerFault(r), NEW o \in Op, KeyGuards(o)
  PROVE  KeyGuards(o)'
BY ApplyKeyGuards, QuietKeyGuards DEF HandlerFault

LEMMA EnvironmentKeyGuards ==
  ASSUME TypeOK, Crash \/ \E p \in Op : Age(p), NEW o \in Op, KeyGuards(o)
  PROVE  KeyGuards(o)'
<1>1. UNCHANGED <<status, effects, failed>> /\ stale \subseteq stale'
  BY DEF Crash, Age, table
<1>2. \A q \in Req : Working(q, o)' => Working(q, o) /\ pc'[q] = pc[q]
  BY DEF Crash, Age, handler, Working
<1> QED
  BY <1>1, <1>2, NobodyStarts

-----------------------------------------------------------------------------
(* What is called SYNCED is real, and what is called a failure is recorded. *)

Real == SyncedIsReal /\ MadeIsReal /\ FailureAnswered

\* Sufficient for Real: the table only grows, and of the handlers only r changes, which
\* is not about to store a record id and has no new answer.
LEMMA RealKept ==
  ASSUME Real, TypeOK, NEW r \in Req, UNCHANGED <<status, serverId>>,
         effects' \in [Op -> Nat], \A o \in Op : effects[o] <= effects'[o],
         failed \subseteq failed',
         \A q \in Req \ {r} : /\ pc'[q] = pc[q]
                              /\ todo'[q] = todo[q]
                              /\ made'[q] = made[q]
                              /\ results'[q] = results[q],
         pc'[r] # "record",
         \A o \in Op : results'[r][o] = results[r][o] \/ results'[r][o] \in {"none", "PENDING"}
  PROVE  Real'
<1>1. ASSUME NEW o \in Op, status'[o] = "SYNCED"
      PROVE  serverId'[o] \in 1 .. effects'[o]
  BY <1>1 DEF Real, SyncedIsReal, TypeOK, TableOK
<1>2. ASSUME NEW q \in Req, NEW o \in Op, results'[q][o] = "SYNCED"
      PROVE  effects'[o] > 0
  BY <1>2 DEF Real, SyncedIsReal, TypeOK, TableOK
<1>3. ASSUME NEW q \in Req, pc'[q] = "record"
      PROVE  made'[q] \in 1 .. effects'[Head(todo'[q])]
  <2>1. q # r /\ pc[q] = "record"
    BY <1>3
  <2>2. Head(todo[q]) \in Op
    BY <2>1, HeadTail DEF TypeOK, HandlersOK, Calls
  <2> QED
    BY <2>1, <2>2 DEF Real, MadeIsReal, TypeOK, TableOK
<1>4. ASSUME NEW q \in Req, NEW o \in Op, results'[q][o] \in Failure
      PROVE  o \in failed'
  BY <1>4 DEF Real, FailureAnswered, Failure
<1> QED
  BY <1>1, <1>2, <1>3, <1>4 DEF Real, SyncedIsReal, MadeIsReal, FailureAnswered

LEMMA ResolveReal ==
  ASSUME Real, TypeOK, NEW r \in Req, pc[r] \in {"find", "refind"},
         ResolveExisting(r, Head(todo[r]))
  PROVE  Real'
<1> DEFINE o == Head(todo[r])
<1>1. UNCHANGED table
  BY DEF ResolveExisting
<1>2. o \in Op
  BY HeadTail DEF TypeOK, HandlersOK, Calls
<1>3. CASE status[o] = "SYNCED" /\ Answer(r, "SYNCED")
  <2>1. effects[o] > 0
    BY <1>2, <1>3 DEF Real, SyncedIsReal, TypeOK, TableOK
  <2>2. /\ pc'[r] # "record"
        /\ results'[r] = [results[r] EXCEPT ![o] = "SYNCED"]
        /\ \A q \in Req \ {r} : /\ pc'[q] = pc[q]
                                /\ todo'[q] = todo[q]
                                /\ made'[q] = made[q]
                                /\ results'[q] = results[q]
    BY <1>3, AnswerLocal DEF TypeOK, Answers, Recorded
  <2>3. \A q \in Req, p \in Op :
          results'[q][p] = results[q][p] \/ (p = o /\ results'[q][p] = "SYNCED")
    <3> SUFFICES ASSUME NEW q \in Req, NEW p \in Op
                 PROVE  results'[q][p] = results[q][p]
                          \/ (p = o /\ results'[q][p] = "SYNCED")
      OBVIOUS
    <3>1. CASE q = r
      <4>1. results[r] \in [Op -> Answers]
        BY DEF TypeOK, HandlersOK
      <4> QED
        BY <2>2, <3>1, <4>1
    <3>2. CASE q # r
      BY <2>2, <3>2
    <3> QED
      BY <3>1, <3>2
  <2>4. ASSUME NEW q \in Req, NEW p \in Op, results'[q][p] = "SYNCED"
        PROVE  effects'[p] > 0
    <3>1. CASE results[q][p] = "SYNCED"
      BY <1>1, <3>1 DEF table, Real, SyncedIsReal
    <3>2. CASE p = o
      BY <1>1, <2>1, <3>2 DEF table
    <3> QED
      BY <2>3, <2>4, <3>1, <3>2
  <2>5. MadeIsReal'
    BY <1>1, <2>2 DEF table, Real, MadeIsReal
  <2>6. FailureAnswered'
    BY <1>1, <2>3 DEF table, Real, FailureAnswered, Failure
  <2>7. SyncedIsReal'
    BY <1>1, <2>4 DEF table, Real, SyncedIsReal
  <2> QED
    BY <2>5, <2>6, <2>7 DEF Real
<1>4. CASE Answer(r, "PENDING")
  <2>1. /\ pc'[r] # "record"
        /\ results'[r] = [results[r] EXCEPT ![o] = "PENDING"]
        /\ \A q \in Req \ {r} : /\ pc'[q] = pc[q]
                                /\ todo'[q] = todo[q]
                                /\ made'[q] = made[q]
                                /\ results'[q] = results[q]
    BY <1>4, AnswerLocal DEF TypeOK, Answers, Recorded
  <2>2. \A p \in Op : results'[r][p] = results[r][p] \/ results'[r][p] = "PENDING"
    BY <1>2, <2>1 DEF TypeOK, HandlersOK
  <2>3. /\ UNCHANGED <<status, serverId>> /\ failed \subseteq failed'
        /\ effects' \in [Op -> Nat] /\ \A p \in Op : effects[p] <= effects'[p]
    BY <1>1 DEF table, TypeOK, TableOK
  <2> QED
    BY <2>1, <2>2, <2>3, RealKept
<1>5. CASE Goto(r, "apply") /\ UNCHANGED <<todo, results, made, error>>
  BY <1>1, <1>5, GotoLocal, RealKept DEF table, TypeOK, TableOK
<1> QED
  BY <1>3, <1>4, <1>5 DEF ResolveExisting

LEMMA CreateReal ==
  ASSUME Real, TypeOK, NEW r \in Req, Create(r)
  PROVE  Real'
<1>1. Head(todo[r]) \in Op
  BY HeadTail DEF Create, TypeOK, HandlersOK, Calls
<1>2. /\ UNCHANGED <<serverId, effects, failed, todo, results, made>>
      /\ \A o \in Op : status'[o] = "SYNCED" => status[o] = "SYNCED"
  BY <1>1 DEF Create, table, TypeOK, TableOK
<1>3. \A q \in Req : pc'[q] = "record" => pc[q] = "record"
  BY DEF Create, Goto, TypeOK, HandlersOK
<1> QED
  BY <1>2, <1>3 DEF Real, SyncedIsReal, MadeIsReal, FailureAnswered

LEMMA ApplyReal ==
  ASSUME Real, TypeOK, NEW r \in Req, ApplyCommits(r) \/ ApplyThrowsLate(r)
  PROVE  Real'
<1> DEFINE o == Head(todo[r])
<1>1. o \in Op
  BY HeadTail DEF ApplyCommits, ApplyThrowsLate, TypeOK, HandlersOK, Calls
<1>2. /\ effects' = [effects EXCEPT ![o] = @ + 1]
      /\ UNCHANGED <<status, serverId, failed, todo, results>>
      /\ \A q \in Req \ {r} : pc'[q] = pc[q]
  BY GotoLocal DEF ApplyCommits, ApplyThrowsLate, TypeOK
<1>3. effects' \in [Op -> Nat] /\ \A p \in Op : effects[p] <= effects'[p]
  BY <1>1, <1>2 DEF TypeOK, TableOK
<1>4. CASE ApplyThrowsLate(r)
  <2>1. made' = made /\ pc'[r] # "record"
    BY <1>4, GotoLocal DEF ApplyThrowsLate, TypeOK
  <2> QED
    BY <1>2, <1>3, <2>1, RealKept
<1>5. CASE ApplyCommits(r)
  <2>1. made' = [made EXCEPT ![r] = effects[o] + 1] /\ pc[r] = "apply"
    BY <1>5 DEF ApplyCommits
  <2>2. \A q \in Req : pc[q] = "record" => Head(todo[q]) \in Op
    BY HeadTail DEF TypeOK, HandlersOK, Calls
  <2>3. ASSUME NEW q \in Req, pc'[q] = "record"
        PROVE  made'[q] \in 1 .. effects'[Head(todo[q])]
    <3>1. CASE q = r
      BY <1>1, <1>2, <2>1, <3>1 DEF TypeOK, TableOK, HandlersOK
    <3>2. CASE q # r
      BY <1>2, <1>3, <2>1, <2>2, <2>3, <3>2
         DEF Real, MadeIsReal, TypeOK, TableOK, HandlersOK
    <3> QED
      BY <3>1, <3>2
  <2>4. \A p \in Op : status[p] = "SYNCED" => serverId[p] \in 1 .. effects'[p]
    BY <1>3 DEF Real, SyncedIsReal, TypeOK, TableOK
  <2>5. \A q \in Req, p \in Op : results[q][p] = "SYNCED" => effects'[p] > 0
    BY <1>3 DEF Real, SyncedIsReal, TypeOK, TableOK
  <2> QED
    BY <1>2, <2>3, <2>4, <2>5 DEF Real, SyncedIsReal, MadeIsReal, FailureAnswered
<1> QED
  BY <1>4, <1>5

LEMMA RecordReal ==
  ASSUME Real, TypeOK, NEW r \in Req, Record(r) \/ RecordError(r)
  PROVE  Real'
<1> DEFINE o == Head(todo[r])
<1>1. o \in Op
  BY HeadTail DEF Record, RecordError, TypeOK, HandlersOK, Calls
<1>2. PICK answer \in Answers :
        /\ Answer(r, answer)
        /\ \/ Record(r) /\ answer = "SYNCED"
           \/ RecordError(r) /\ answer \in Failure
  BY DEF Record, RecordError, TypeOK, HandlersOK, Answers, Recorded, Failure
<1>3. /\ pc'[r] # "record"
      /\ results'[r] = [results[r] EXCEPT ![o] = answer]
      /\ \A q \in Req \ {r} : /\ pc'[q] = pc[q]
                              /\ todo'[q] = todo[q]
                              /\ made'[q] = made[q]
                              /\ results'[q] = results[q]
  BY <1>2, AnswerLocal DEF TypeOK
<1>4. \A q \in Req, p \in Op :
        results'[q][p] = results[q][p] \/ (p = o /\ results'[q][p] = answer)
  BY <1>1, <1>3 DEF TypeOK, HandlersOK
<1>5. effects' = effects
  BY <1>2 DEF Record, RecordError
<1>6. MadeIsReal'
  BY <1>3, <1>5 DEF Real, MadeIsReal
<1>7. CASE Record(r) /\ answer = "SYNCED"
  <2>1. /\ serverId' = [serverId EXCEPT ![o] = made[r]] /\ failed' = failed
        /\ status' = [status EXCEPT ![o] = "SYNCED"]
    BY <1>7 DEF Record
  <2>2. made[r] \in 1 .. effects[o]
    BY <1>7 DEF Record, Real, MadeIsReal
  <2>3. effects[o] > 0
    BY <1>1, <2>2 DEF TypeOK, TableOK
  <2>4. SyncedIsReal'
    <3>1. ASSUME NEW p \in Op, status'[p] = "SYNCED"
          PROVE  serverId'[p] \in 1 .. effects'[p]
      BY <1>1, <1>5, <2>1, <2>2, <3>1 DEF Real, SyncedIsReal, TypeOK, TableOK
    <3>2. ASSUME NEW q \in Req, NEW p \in Op, results'[q][p] = "SYNCED"
          PROVE  effects'[p] > 0
      BY <1>4, <1>5, <2>3, <3>2 DEF Real, SyncedIsReal
    <3> QED
      BY <3>1, <3>2 DEF SyncedIsReal
  <2>5. FailureAnswered'
    BY <1>3, <1>4, <1>7, <2>1 DEF Real, FailureAnswered, Failure
  <2> QED
    BY <1>6, <2>4, <2>5 DEF Real
<1>8. CASE RecordError(r) /\ answer \in Failure
  <2>1. /\ serverId' = serverId /\ failed' = failed \cup {o}
        /\ status' = [status EXCEPT ![o] = error[r]] /\ error[r] \in Failure
    BY <1>8 DEF RecordError, TypeOK, HandlersOK
  <2>2. SyncedIsReal'
    <3>1. ASSUME NEW p \in Op, status'[p] = "SYNCED"
          PROVE  serverId'[p] \in 1 .. effects'[p]
      BY <1>1, <1>5, <2>1, <3>1 DEF Real, SyncedIsReal, TypeOK, TableOK, Failure
    <3>2. ASSUME NEW q \in Req, NEW p \in Op, results'[q][p] = "SYNCED"
          PROVE  effects'[p] > 0
      BY <1>4, <1>5, <1>8, <3>2 DEF Real, SyncedIsReal, Failure
    <3> QED
      BY <3>1, <3>2 DEF SyncedIsReal
  <2>3. FailureAnswered'
    BY <1>3, <1>4, <2>1 DEF Real, FailureAnswered
  <2> QED
    BY <1>6, <2>2, <2>3 DEF Real
<1> QED
  BY <1>2, <1>7, <1>8

LEMMA QuietReal ==
  ASSUME Real, TypeOK, NEW r \in Req,
         \/ \E e \in Errors : ApplyRejects(r, e)
         \/ RecordThrows(r) \/ QueryThrows(r) \/ Respond(r)
         \/ \E ops \in Seq(Op) : Receive(r, ops)
  PROVE  Real'
<1>1. UNCHANGED <<status, serverId, effects, failed>>
  BY DEF ApplyRejects, RecordThrows, QueryThrows, Respond, Receive, table
<1>2. \A q \in Req \ {r} : /\ pc'[q] = pc[q]
                          /\ todo'[q] = todo[q]
                          /\ made'[q] = made[q]
                          /\ results'[q] = results[q]
  BY DEF ApplyRejects, RecordThrows, QueryThrows, Respond, Receive, Goto, TypeOK,
         HandlersOK
<1>3. pc'[r] # "record"
  BY DEF ApplyRejects, RecordThrows, QueryThrows, Respond, Receive, Goto, TypeOK,
         HandlersOK, Continue
<1>4. results'[r] = results[r] \/ results'[r] = NoAnswers
  BY DEF ApplyRejects, RecordThrows, QueryThrows, Respond, Receive, TypeOK, HandlersOK
<1>5. \A o \in Op : results'[r][o] = results[r][o] \/ results'[r][o] \in {"none", "PENDING"}
  BY <1>4 DEF NoAnswers
<1>6. effects' \in [Op -> Nat] /\ \A o \in Op : effects[o] <= effects'[o]
  BY <1>1 DEF TypeOK, TableOK
<1> QED
  BY <1>1, <1>2, <1>3, <1>5, <1>6, RealKept

LEMMA HandlerStepReal ==
  ASSUME Real, TypeOK, NEW r \in Req, HandlerStep(r)
  PROVE  Real'
<1>1. CASE Find(r)
  <2>1. CASE ResolveExisting(r, Head(todo[r]))
    BY <1>1, <2>1, ResolveReal DEF Find
  <2>2. CASE Goto(r, "create") /\ UNCHANGED <<table, todo, results, made, error>>
    BY <2>2, GotoLocal, RealKept DEF TypeOK, TableOK, table
  <2> QED
    BY <1>1, <2>1, <2>2 DEF Find
<1>2. CASE Refind(r)
  BY <1>2, ResolveReal DEF Refind
<1> QED
  BY <1>1, <1>2, CreateReal, ApplyReal, RecordReal, QuietReal DEF HandlerStep

LEMMA HandlerFaultReal ==
  ASSUME Real, TypeOK, NEW r \in Req, HandlerFault(r)
  PROVE  Real'
BY ApplyReal, QuietReal DEF HandlerFault

LEMMA EnvironmentReal ==
  ASSUME Real, TypeOK, Crash \/ \E o \in Op : Age(o)
  PROVE  Real'
<1>1. UNCHANGED <<status, serverId, effects, failed>>
  BY DEF Crash, Age, table
<1>2. CASE Crash
  BY <1>1, <1>2 DEF Crash, NoAnswers, Real, SyncedIsReal, MadeIsReal, FailureAnswered,
                    Failure
<1>3. CASE \E o \in Op : Age(o)
  BY <1>1, <1>3 DEF Age, handler, Real, SyncedIsReal, MadeIsReal, FailureAnswered
<1> QED
  BY <1>2, <1>3

-----------------------------------------------------------------------------
(* The inductive invariant and what follows from it.                       *)

LEMMA ServerInvInit == ServerInit => ServerInv
<1> SUFFICES ASSUME ServerInit
             PROVE  ServerInv
  OBVIOUS
<1>1. TypeOK
  BY InitTyped
<1>2. \A o \in Op : KeyGuards(o)
  BY DEF ServerInit, KeyGuards, Working, Failure
<1>3. SyncedIsReal /\ MadeIsReal /\ FailureAnswered
  BY DEF ServerInit, SyncedIsReal, MadeIsReal, FailureAnswered, NoAnswers, Failure
<1> QED
  BY <1>1, <1>2, <1>3 DEF ServerInv

\* One lemma for each kind of step, for use in SyncSystem_proofs as well.
LEMMA HandlerInv ==
  ASSUME ServerInv, NEW r \in Req,
         \/ HandlerStep(r) \/ HandlerFault(r) \/ Respond(r)
         \/ \E ops \in Seq(Op) : Receive(r, ops)
  PROVE  ServerInv'
<1>1. TypeOK'
  BY HandlerStepTyped, HandlerFaultTyped, RespondTyped, ReceiveTyped DEF ServerInv
<1>2. \A o \in Op : KeyGuards(o)'
  BY HandlerStepKeyGuards, HandlerFaultKeyGuards, QuietKeyGuards DEF ServerInv
<1>3. Real'
  BY HandlerStepReal, HandlerFaultReal, QuietReal DEF ServerInv, Real
<1> QED
  BY <1>1, <1>2, <1>3 DEF ServerInv, Real

LEMMA EnvironmentInv ==
  ASSUME ServerInv, Crash \/ \E o \in Op : Age(o)
  PROVE  ServerInv'
<1>1. TypeOK'
  BY AgeTyped, CrashTyped DEF ServerInv
<1>2. \A o \in Op : KeyGuards(o)'
  BY EnvironmentKeyGuards DEF ServerInv
<1>3. Real'
  BY EnvironmentReal DEF ServerInv, Real
<1> QED
  BY <1>1, <1>2, <1>3 DEF ServerInv, Real

LEMMA StutterInv ==
  ASSUME ServerInv, UNCHANGED serverVars
  PROVE  ServerInv'
BY DEF ServerInv, serverVars, table, handler, TypeOK, TableOK, HandlersOK, KeyGuards,
       Guarded, Working, SyncedIsReal, MadeIsReal, FailureAnswered

\* In every state of the server, among whatever requests, ServerInv holds.
THEOREM ServerInvariant == ServerSpec => []ServerInv
<1>1. ServerInv /\ [ServerNext]_serverVars => ServerInv'
  BY HandlerInv, EnvironmentInv, StutterInv, BatchesAssumption DEF ServerNext
<1> QED
  BY <1>1, ServerInvInit, PTL DEF ServerSpec

\* However many concurrent requests carry an operation, it is applied at most once
\* unless a failure of it was recorded or its row grew stale.
THEOREM AppliedAtMostOnce == ServerSpec => []AtMostOnce
<1>1. ServerInv => AtMostOnce
  BY DEF ServerInv, KeyGuards, AtMostOnce
<1> QED
  BY <1>1, ServerInvariant, PTL

\* Under the same proviso two handlers never work on one operation at a time.
THEOREM OneWorkerAtATime == ServerSpec => []NoParallelWork
<1>1. ServerInv => NoParallelWork
  BY DEF ServerInv, KeyGuards, NoParallelWork
<1> QED
  BY <1>1, ServerInvariant, PTL

\* SYNCED, in a row or in an answer, always stands for a record that exists.
THEOREM SyncedMeansApplied == ServerSpec => []SyncedIsReal
<1>1. ServerInv => SyncedIsReal
  BY DEF ServerInv
<1> QED
  BY <1>1, ServerInvariant, PTL

\* The stored result of a guarded operation never changes.
THEOREM SyncedStaysSynced == ServerSpec => SyncedIsFinal
<1> DEFINE Final == \A o \in Op : status[o] = "SYNCED" /\ Guarded(o) =>
                      status'[o] = "SYNCED" /\ serverId'[o] = serverId[o]
<1>1. ASSUME ServerInv, [ServerNext]_serverVars
      PROVE  [Final]_serverVars
  <2> SUFFICES ASSUME NEW o \in Op, status[o] = "SYNCED", Guarded(o), ServerNext
               PROVE  status'[o] = status[o] /\ serverId'[o] = serverId[o]
    BY <1>1
  <2>1. \A r \in Req : ~Working(r, o)
    BY <1>1 DEF ServerInv, KeyGuards
  <2>2. ASSUME NEW r \in Req, Create(r)
        PROVE  status'[o] = status[o] /\ serverId'[o] = serverId[o]
    BY <1>1, <2>2 DEF Create, table, ServerInv, TypeOK, TableOK
  <2>3. ASSUME NEW r \in Req, Record(r) \/ RecordError(r)
        PROVE  status'[o] = status[o] /\ serverId'[o] = serverId[o]
    <3>1. Head(todo[r]) # o
      BY <2>1, <2>3 DEF Record, RecordError, Working
    <3> QED
      BY <1>1, <2>3, <3>1 DEF Record, RecordError, ServerInv, TypeOK, TableOK
  <2>4. ASSUME NEW r \in Req,
               \/ Find(r) \/ Refind(r) \/ ApplyCommits(r) \/ Respond(r) \/ HandlerFault(r)
               \/ \E e \in Errors : ApplyRejects(r, e)
               \/ \E ops \in Batches : Receive(r, ops)
        PROVE  UNCHANGED <<status, serverId>>
    BY <2>4 DEF Find, Refind, ResolveExisting, ApplyCommits, ApplyRejects, HandlerFault,
                ApplyThrowsLate, RecordThrows, QueryThrows, Respond, Receive, table
  <2>5. ASSUME Crash \/ \E p \in Op : Age(p)
        PROVE  UNCHANGED <<status, serverId>>
    BY <2>5 DEF Crash, Age, table
  <2> QED
    BY <2>2, <2>3, <2>4, <2>5 DEF ServerNext, HandlerStep
<1> QED
  BY <1>1, ServerInvariant, PTL DEF ServerSpec, SyncedIsFinal
=============================================================================
