--------------------------- MODULE OperationService ---------------------------
(***************************************************************************)
(* One business operation of the operator agent and everything that may    *)
(* touch it at the same time: HTTP and event handlers, the maintenance     *)
(* loop of app/main.py, time, and faults.                                  *)
(*                                                                         *)
(* A handler of OperationService (app/service/nl2api/operation_service.py) *)
(* is a coroutine: it reads the row into a local record, computes, and     *)
(* writes back with a compare-and-set, suspending at every call to MySQL,  *)
(* Redis or the business tool.  One action below is the code between two   *)
(* such calls together with the call: what a store does in one statement   *)
(* or one transaction is one step, and every other task may run between    *)
(* two steps.  pc[t] is the call task t makes next and rec[t] its local    *)
(* record, which may be stale.                                             *)
(*                                                                         *)
(* Parameter dictionaries are members of Params; a hash is represented by  *)
(* the dictionary it was computed from.  A risk request id is the position *)
(* of its row in risk_reviews.  Left out: the fields nothing below         *)
(* branches on (warnings, result, error code, audit rows), permissions     *)
(* other than their outcome, and the outbox.                               *)
(***************************************************************************)
EXTENDS Integers, Sequences, OperationStatus

CONSTANTS
  Handlers,     \* coroutines that serve HTTP requests and agent events
  Monitors,     \* maintenance loops, one per process (monitor_risk_timeouts)
  Traffic,      \* the kinds of requests the handlers receive in this instance
  Params,       \* parameter dictionaries
  LargeParams,  \* those for which requires_confirmation is true
  NoParams,     \* stands for an empty params_json or params_hash
  MaxVersion,   \* bound: parameter versions of the operation
  MaxDeadlines, \* bound: confirmation deadlines ever computed
  MaxFaults     \* bound: aborted coroutines and database errors

RequestKinds == {"create", "update", "riskResult", "manualResult", "confirm",
                 "cancel", "reconcile"}

ASSUME ConstantsAssumption ==
  /\ Handlers \cap Monitors = {}
  /\ Traffic \subseteq RequestKinds
  /\ LargeParams \subseteq Params
  /\ NoParams \notin Params
  /\ MaxVersion \in Nat \ {0}
  /\ MaxDeadlines \in Nat
  /\ MaxFaults \in Nat

Tasks == Handlers \cup Monitors

VARIABLES
  \* MySQL
  op,             \* the row of table operations
  versionRows,    \* operation_versions: the parameters stored for a version
  reviews,        \* risk_reviews in the order of insertion
  confirmations,  \* operation_confirmations: pairs <<version, params_hash>>
  attempts,       \* execution_attempts: status by version (idempotency key)
  processed,      \* processed_events
  execution,      \* the row of operator_mock_api_executions
  \* Redis
  confKey,        \* operator:confirmation:<operation>
  locks,          \* operator:idempotency:<operation>:<version>
  \* time
  reviewsLapsed,  \* the first reviewsLapsed reviews are past expires_at
  deadlines,      \* confirmation deadlines computed so far
  deadlinesNear,  \* how many of them are less than two seconds ahead or past
  deadlinesLapsed,\* how many of them have passed
  \* coroutines
  job,            \* the request task t serves, or the monitor's current step
  pc,             \* the next store call of task t
  rec,            \* its OperationRecord
  ev,             \* the agent event it handles
  goal,           \* the status the outcome of the tool call leads to
  faults,
  \* history
  approvals,      \* <<version, params>> the risk agent's accepted approvals were for
  consents        \* <<version, hash>> of the confirmation requests admitted

tables == <<versionRows, reviews, confirmations, attempts, processed, execution>>
redis  == <<confKey, locks>>
time   == <<reviewsLapsed, deadlines, deadlinesNear, deadlinesLapsed>>
local  == <<job, pc, rec, ev, goal>>
history == <<approvals, consents>>
vars   == <<op, tables, redis, time, local, faults, history>>

-----------------------------------------------------------------------------
Versions == 1..MaxVersion
Decisions == {"approved", "rejected", "manual_review"}

Row == [status: OperationStatuses \cup {NotCreated}, version: 0..MaxVersion,
        params: Params \cup {NoParams}, hash: Params \cup {NoParams},
        needConf: BOOLEAN, deadline: 0..MaxDeadlines, riskReq: Nat]

NoRow == [status |-> NotCreated, version |-> 0, params |-> NoParams,
          hash |-> NoParams, needConf |-> FALSE, deadline |-> 0, riskReq |-> 0]

Review == [version: Versions, params: Params,
           status: {"waiting", "completed", "superseded", "timeout"}]

Event == [kind: {"check", "manual"}, req: Nat, decision: Decisions]
NoEvent == [kind |-> "none", req |-> 0, decision |-> "none"]

Execution == [status: {"none", "succeeded", "failed"},
              version: 0..MaxVersion, params: Params \cup {NoParams}]
NoExecution == [status |-> "none", version |-> 0, params |-> NoParams]

ConfKey == [version: 0..MaxVersion, deadline: 0..MaxDeadlines]
NoKey == [version |-> 0, deadline |-> 0]

AttemptStatuses == {"none", "executing", "succeeded", "failed",
                    "pending_verification"}

\* The calls at which a coroutine may be suspended.
CasPoints == {"resolve", "normalise", "validate", "permit", "reopen",
              "applyRisk", "applyManual", "offer", "execute", "settle",
              "commitConfirm", "expire", "cancel", "timeOut"}

Labels == CasPoints \cup
  {"idle", "request", "supersede", "dropKey", "completeReview", "markEvent",
   "putKey", "lock", "call", "recordFailure", "recordAttempt", "readKey",
   "addConfirmation", "query", "require", "markTimeout"}

\* The maintenance steps in the order of the loop; resume_ready_operations
\* makes two passes, first over the approved, then over the confirmed.
MonitorSteps == {"expireRisk", "expireConf", "resumeApproved",
                 "resumeConfirmed", "reconcileAll"}

\* Faulty variant: the first of the two passes is left out.
SkipsApproved(s) ==
  CASE s = "expireRisk" -> "expireConf"
    [] s = "expireConf" -> "resumeConfirmed"
    [] s = "resumeConfirmed" -> "reconcileAll"
    [] OTHER -> "expireRisk"

NextStep(s) ==
  CASE s = "expireRisk" -> "expireConf"
    [] s = "expireConf" -> "resumeApproved"
    [] s = "resumeApproved" -> "resumeConfirmed"
    [] s = "resumeConfirmed" -> "reconcileAll"
    [] OTHER -> "expireRisk"

\* An exception leaves the whole method: the second pass is skipped.
StepAfterError(s) ==
  IF s = "resumeApproved" THEN "reconcileAll" ELSE NextStep(s)

Jobs == RequestKinds \cup MonitorSteps \cup {"none"}

-----------------------------------------------------------------------------
(* Control flow of a coroutine.                                            *)

Goto(t, label) == pc' = [pc EXCEPT ![t] = label]

\* Task t ends what it does; its locals are gone.
Leave(t, next) ==
  /\ pc' = [pc EXCEPT ![t] = "idle"]
  /\ job' = [job EXCEPT ![t] = IF t \in Monitors THEN next ELSE "none"]
  /\ rec' = [rec EXCEPT ![t] = NoRow]
  /\ ev' = [ev EXCEPT ![t] = NoEvent]
  /\ goal' = [goal EXCEPT ![t] = "none"]

Return(t) == Leave(t, NextStep(job[t]))
Raise(t)  == Leave(t, StepAfterError(job[t]))

\* A request arrives at an idle handler, which reads the row.
Accept(t, kind) ==
  /\ t \in Handlers
  /\ kind \in Traffic
  /\ pc[t] = "idle"
  /\ job' = [job EXCEPT ![t] = kind]

Load(t) == rec' = [rec EXCEPT ![t] = op]

-----------------------------------------------------------------------------
(* repository.transition: one transaction that compares status, version    *)
(* and, when the caller passes it, the risk request with the row, and      *)
(* writes the caller's whole record.                                       *)

\* update_parameters validates with expected_version=previous_version.
ExpectedVersion(t) ==
  IF pc[t] = "validate" /\ job[t] = "update"
  THEN rec[t].version - 1 ELSE rec[t].version

\* handle_risk_result, handle_manual_review_result and expire_risk_reviews
\* pass expected_risk_request_id; the condition is dropped when it is None.
ComparesRequest(t) ==
  pc[t] \in {"applyRisk", "applyManual", "timeOut"} /\ rec[t].riskReq # 0

\* Faulty variants of CasHolds: a condition left out of the WHERE clause.
CasIgnoresStatus(t) ==
  op.version = ExpectedVersion(t)
  /\ (ComparesRequest(t) => op.riskReq = rec[t].riskReq)

CasIgnoresVersion(t) ==
  op.status = rec[t].status
  /\ (ComparesRequest(t) => op.riskReq = rec[t].riskReq)

CasHolds(t) ==
  /\ op.status = rec[t].status
  /\ op.version = ExpectedVersion(t)
  /\ ComparesRequest(t) => op.riskReq = rec[t].riskReq

\* _transition of record r to the status target, when the row still matches.
Transition(t, r, target) ==
  /\ CanMove(rec[t].status, target)
  /\ CasHolds(t)
  /\ op' = [r EXCEPT !.status = target]

Keep(t, r, target) == rec' = [rec EXCEPT ![t] = [r EXCEPT !.status = target]]

\* _transition ends in OP_CONCURRENT_MODIFICATION or, on the way out of a
\* status the outcome of the tool cannot follow, OP_INVALID_STATE_TRANSITION.
ConcurrentModification(t) ==
  /\ pc[t] \in CasPoints
  /\ \/ ~CasHolds(t)
     \/ pc[t] = "settle" /\ ~CanMove(rec[t].status, goal[t])
  /\ Raise(t)
  /\ UNCHANGED <<op, tables, redis, time, faults, history>>

-----------------------------------------------------------------------------
(* create_operation and update_parameters.                                 *)

\* The insert of a DRAFT row.  A repeated request finds the row, by
\* get_by_request or by the unique constraint, and changes nothing.
Create(t) ==
  /\ Accept(t, "create")
  /\ op.status = NotCreated
  /\ \E p \in Params :
       op' = [NoRow EXCEPT !.status = "draft", !.version = 1, !.params = p]
  /\ rec' = [rec EXCEPT ![t] = op']
  /\ Goto(t, "resolve")
  /\ UNCHANGED <<tables, redis, time, ev, goal, faults, history>>

ResolveEntities(t) ==
  /\ pc[t] = "resolve"
  /\ Transition(t, rec[t], "resolving_entities")
  /\ Keep(t, rec[t], "resolving_entities")
  /\ Goto(t, "normalise")
  /\ UNCHANGED <<tables, redis, time, job, ev, goal, faults, history>>

\* validate_operation_params raises.
RejectParams(t) ==
  /\ pc[t] = "normalise"
  /\ Transition(t, rec[t], "validation_failed")
  /\ Return(t)
  /\ UNCHANGED <<tables, redis, time, faults, history>>

\* The parameters of record r after the handler merged the request into them.
Merged(t) == IF job[t] = "update" THEN Params ELSE {rec[t].params}

\* Fields are missing: the merged parameters are kept, under the old version
\* number and the old hash.
AskForMore(t) ==
  /\ pc[t] = "normalise"
  /\ \E p \in Merged(t) :
       Transition(t, [rec[t] EXCEPT !.params = p], "need_more_information")
  /\ Return(t)
  /\ UNCHANGED <<tables, redis, time, faults, history>>

\* Faulty variant: confirmation_required is computed once, at creation.
KeepsConfirmationRule(t, p) ==
  [rec[t] EXCEPT
     !.version = IF job[t] = "update" THEN @ + 1 ELSE @,
     !.params = p, !.hash = p,
     !.needConf = IF job[t] = "update" THEN @ ELSE p \in LargeParams,
     !.riskReq = 0]

\* The record of the next version; an update drops what hung on the old one,
\* except confirmation_expires_at.
NewVersion(t, p) ==
  [rec[t] EXCEPT
     !.version = IF job[t] = "update" THEN @ + 1 ELSE @,
     !.params = p, !.hash = p, !.needConf = p \in LargeParams, !.riskReq = 0]

\* add_version; (operation_id, version) is unique.
AddVersion(t) ==
  /\ pc[t] = "normalise"
  /\ \E p \in Merged(t) :
       LET r == NewVersion(t, p) IN
       /\ versionRows[r.version] = NoParams
       /\ versionRows' = [versionRows EXCEPT ![r.version] = p]
       /\ rec' = [rec EXCEPT ![t] = r]
  /\ Goto(t, "validate")
  /\ UNCHANGED <<op, reviews, confirmations, attempts, processed, execution,
                 redis, time, job, ev, goal, faults, history>>

Validate(t) ==
  /\ pc[t] = "validate"
  /\ Transition(t, rec[t], "validating")
  /\ Keep(t, rec[t], "validating")
  /\ Goto(t, "permit")
  /\ UNCHANGED <<tables, redis, time, job, ev, goal, faults, history>>

DenyPermission(t) ==
  /\ pc[t] = "permit"
  /\ Transition(t, rec[t], "permission_denied")
  /\ Return(t)
  /\ UNCHANGED <<tables, redis, time, faults, history>>

Permit(t) ==
  /\ pc[t] = "permit"
  /\ Transition(t, rec[t], "waiting_risk_review")
  /\ Keep(t, rec[t], "waiting_risk_review")
  /\ Goto(t, "request")
  /\ UNCHANGED <<tables, redis, time, job, ev, goal, faults, history>>

\* Faulty variant: the update of the row does not compare current_version.
AwaitsAnyRequest(r) == op.status = "waiting_risk_review"

AwaitsRequest(r) ==
  op.status = "waiting_risk_review" /\ op.version = r.version

\* request_review: prepare_risk_review writes the request id, the review and
\* the outbox row of risk.check.requested in one transaction, or nothing.
RequestReview(t) ==
  /\ pc[t] = "request"
  /\ IF AwaitsRequest(rec[t])
     THEN /\ op' = [op EXCEPT !.riskReq = Len(reviews) + 1]
          /\ reviews' = Append(reviews, [version |-> rec[t].version,
                                         params |-> rec[t].params,
                                         status |-> "waiting"])
     ELSE UNCHANGED <<op, reviews>>
  /\ Return(t)
  /\ UNCHANGED <<versionRows, confirmations, attempts, processed, execution,
                 redis, time, faults, history>>

Editable == {"need_more_information", "waiting_risk_review", "risk_approved",
             "pending_confirmation"}

StartUpdate(t) ==
  /\ Accept(t, "update")
  /\ op.status \in Editable
  /\ op.version < MaxVersion
  /\ Load(t)
  /\ Goto(t, "reopen")
  /\ UNCHANGED <<op, tables, redis, time, ev, goal, faults, history>>

Reopen(t) ==
  /\ pc[t] = "reopen"
  /\ Transition(t, rec[t], "resolving_entities")
  /\ Keep(t, rec[t], "resolving_entities")
  /\ Goto(t, IF rec[t].riskReq # 0 THEN "supersede" ELSE "dropKey")
  /\ UNCHANGED <<tables, redis, time, job, ev, goal, faults, history>>

\* update_risk_review of the request the local record names.
SetReview(t, status) ==
  /\ reviews' = [reviews EXCEPT ![rec[t].riskReq].status = status]
  /\ UNCHANGED <<versionRows, confirmations, attempts, processed, execution>>

SupersedeReview(t) ==
  /\ pc[t] = "supersede"
  /\ SetReview(t, "superseded")
  /\ Goto(t, "dropKey")
  /\ UNCHANGED <<op, redis, time, job, rec, ev, goal, faults, history>>

\* Deletion of the confirmation key; what follows depends on the method.
DropKey(t) ==
  /\ pc[t] = "dropKey"
  /\ confKey' = NoKey
  /\ \/ /\ job[t] = "update"
        /\ Goto(t, "normalise")
        /\ UNCHANGED <<job, rec, ev, goal>>
     \/ /\ job[t] = "confirm"
        /\ Goto(t, "execute")
        /\ UNCHANGED <<job, rec, ev, goal>>
     \/ job[t] \notin {"update", "confirm"} /\ Return(t)
  /\ UNCHANGED <<op, tables, locks, time, faults, history>>

-----------------------------------------------------------------------------
(* Results of the risk agent.  It answers a request it has seen, any number *)
(* of times and in any order; a result the checks refuse changes nothing.  *)

Results(kind, decisions) ==
  {[kind |-> kind, req |-> i, decision |-> d] :
     i \in 1..Len(reviews), d \in decisions}

\* The checks on the payload: the event is new, its version, which is the one of
\* the request it answers, and its request are those of the record r.
Answers(e, r) ==
  /\ e \notin processed
  /\ reviews[e.req].version = r.version
  /\ e.req = r.riskReq

\* handle_risk_result up to the compare-and-set.
ReceiveRiskResult(t) ==
  /\ Accept(t, "riskResult")
  /\ op.status = "waiting_risk_review"
  /\ \E e \in Results("check", Decisions) :
       /\ Answers(e, op)
       /\ ev' = [ev EXCEPT ![t] = e]
  /\ Load(t)
  /\ Goto(t, "applyRisk")
  /\ UNCHANGED <<op, tables, redis, time, goal, faults, history>>

\* Faulty variant: everything but a rejection goes on.
ApprovedUnlessRejected(decision) ==
  IF decision = "rejected" THEN "risk_rejected" ELSE "risk_approved"

RiskTarget(decision) ==
  CASE decision = "rejected" -> "risk_rejected"
    [] decision = "manual_review" -> "manual_review"
    [] OTHER -> "risk_approved"

\* What an approving event approves: the version and the parameters its
\* request was published with.
Subject(e) == <<reviews[e.req].version, reviews[e.req].params>>

RecordApproval(e) ==
  approvals' = IF e.decision = "approved"
               THEN approvals \cup {Subject(e)} ELSE approvals

ApplyRiskResult(t) ==
  /\ pc[t] = "applyRisk"
  /\ LET target == RiskTarget(ev[t].decision) IN
       /\ Transition(t, rec[t], target)
       /\ Keep(t, rec[t], target)
       /\ RecordApproval(ev[t])
  /\ Goto(t, "completeReview")
  /\ UNCHANGED <<tables, redis, time, job, ev, goal, faults, consents>>

CompleteReview(t) ==
  /\ pc[t] = "completeReview"
  /\ SetReview(t, "completed")
  /\ Goto(t, "markEvent")
  /\ UNCHANGED <<op, redis, time, job, rec, ev, goal, faults, history>>

ReceiveManualResult(t) ==
  /\ Accept(t, "manualResult")
  /\ op.status = "manual_review"
  /\ \E e \in Results("manual", {"approved", "rejected"}) :
       /\ Answers(e, op)
       /\ ev' = [ev EXCEPT ![t] = e]
  /\ Load(t)
  /\ Goto(t, "applyManual")
  /\ UNCHANGED <<op, tables, redis, time, goal, faults, history>>

ApplyManualResult(t) ==
  /\ pc[t] = "applyManual"
  /\ LET target == RiskTarget(ev[t].decision) IN
       /\ Transition(t, rec[t], target)
       /\ Keep(t, rec[t], target)
       /\ RecordApproval(ev[t])
  /\ Goto(t, "markEvent")
  /\ UNCHANGED <<tables, redis, time, job, ev, goal, faults, consents>>

\* _continue_risk_approved starts here, without suspending.
AfterApproval(r) == IF r.needConf THEN "putKey" ELSE "execute"

\* mark_event_processed inserts the event id, which is unique.
MarkEvent(t) ==
  /\ pc[t] = "markEvent"
  /\ ev[t] \notin processed
  /\ processed' = processed \cup {ev[t]}
  /\ \/ /\ rec[t].status = "risk_approved"
        /\ Goto(t, AfterApproval(rec[t]))
        /\ ev' = [ev EXCEPT ![t] = NoEvent]
        /\ UNCHANGED <<job, rec, goal>>
     \/ rec[t].status # "risk_approved" /\ Return(t)
  /\ UNCHANGED <<op, versionRows, reviews, confirmations, attempts, execution,
                 redis, time, faults, history>>

-----------------------------------------------------------------------------
(* The second confirmation.                                                *)

\* A key whose time to live was computed from deadline d.
KeyFor(r, d) == [version |-> r.version, deadline |-> d]

\* The key is put for the deadline of the record, or for a new one.
PutKey(t) ==
  /\ pc[t] = "putKey"
  /\ \/ /\ rec[t].deadline # 0
        /\ confKey' = KeyFor(rec[t], rec[t].deadline)
        /\ UNCHANGED <<deadlines, rec>>
     \/ /\ rec[t].deadline = 0
        /\ deadlines < MaxDeadlines
        /\ deadlines' = deadlines + 1
        /\ confKey' = KeyFor(rec[t], deadlines + 1)
        /\ rec' = [rec EXCEPT ![t].deadline = deadlines + 1]
  /\ Goto(t, "offer")
  /\ UNCHANGED <<op, tables, locks, reviewsLapsed, deadlinesNear, deadlinesLapsed,
                 job, ev, goal, faults, history>>

\* Redis refuses the key.  That it always does once MaxDeadlines windows were
\* computed is how the bound shows.
PutKeyFails(t) ==
  /\ pc[t] = "putKey"
  /\ rec[t].deadline = 0 /\ deadlines = MaxDeadlines
  /\ Raise(t)
  /\ UNCHANGED <<op, tables, redis, time, faults, history>>

OfferConfirmation(t) ==
  /\ pc[t] = "offer"
  /\ Transition(t, rec[t], "pending_confirmation")
  /\ Return(t)
  /\ UNCHANGED <<tables, redis, time, faults, history>>

StartConfirm(t) ==
  /\ Accept(t, "confirm")
  /\ op.status = "pending_confirmation"
  /\ Load(t)
  /\ Goto(t, "readKey")
  /\ UNCHANGED <<op, tables, redis, time, ev, goal, faults, history>>

\* validate_confirmation: the request names a version and a hash.
ValidConfirmation(r, version, hash) == version = r.version /\ hash = r.hash

ReadKey(t) ==
  /\ pc[t] = "readKey"
  /\ \/ /\ confKey = NoKey
        /\ Goto(t, "expire")
        /\ UNCHANGED <<job, rec, ev, goal, consents>>
     \/ /\ confKey # NoKey
        /\ \E v \in Versions, h \in Params :
             /\ ValidConfirmation(rec[t], v, h)
             /\ consents' = consents \cup {<<v, h>>}
        /\ Goto(t, "addConfirmation")
        /\ UNCHANGED <<job, rec, ev, goal>>
     \/ /\ confKey # NoKey
        /\ \E v \in Versions, h \in Params : ~ValidConfirmation(rec[t], v, h)
        /\ Return(t)
        /\ UNCHANGED consents
  /\ UNCHANGED <<op, tables, redis, time, faults, approvals>>

AddConfirmation(t) ==
  /\ pc[t] = "addConfirmation"
  /\ confirmations' = confirmations \cup {<<rec[t].version, rec[t].hash>>}
  /\ Goto(t, "commitConfirm")
  /\ UNCHANGED <<op, versionRows, reviews, attempts, processed, execution,
                 redis, time, job, rec, ev, goal, faults, history>>

CommitConfirm(t) ==
  /\ pc[t] = "commitConfirm"
  /\ Transition(t, rec[t], "confirmed")
  /\ Keep(t, rec[t], "confirmed")
  /\ Goto(t, "dropKey")
  /\ UNCHANGED <<tables, redis, time, job, ev, goal, faults, history>>

\* EXPIRED, by a confirmation that found no key or by expire_confirmations;
\* only the latter goes on to delete the key.
Expire(t) ==
  /\ pc[t] = "expire"
  /\ Transition(t, rec[t], "expired")
  /\ \/ job[t] = "confirm" /\ Return(t)
     \/ /\ job[t] # "confirm"
        /\ Keep(t, rec[t], "expired")
        /\ Goto(t, "dropKey")
        /\ UNCHANGED <<job, ev, goal>>
  /\ UNCHANGED <<tables, redis, time, faults, history>>

StartCancel(t) ==
  /\ Accept(t, "cancel")
  /\ CanMove(op.status, "cancelled")
  /\ Load(t)
  /\ Goto(t, "cancel")
  /\ UNCHANGED <<op, tables, redis, time, ev, goal, faults, history>>

Cancel(t) ==
  /\ pc[t] = "cancel"
  /\ Transition(t, rec[t], "cancelled")
  /\ Keep(t, rec[t], "cancelled")
  /\ Goto(t, "dropKey")
  /\ UNCHANGED <<tables, redis, time, job, ev, goal, faults, history>>

-----------------------------------------------------------------------------
(* _execute, the business tool and the verification of its outcome.        *)

\* EXECUTING and the execution_attempts row in one transaction; the
\* idempotency key of the attempt is unique.
StartExecution(t) ==
  /\ pc[t] = "execute"
  /\ attempts[rec[t].version] = "none"
  /\ Transition(t, rec[t], "executing")
  /\ Keep(t, rec[t], "executing")
  /\ attempts' = [attempts EXCEPT ![rec[t].version] = "executing"]
  /\ Goto(t, "lock")
  /\ UNCHANGED <<versionRows, reviews, confirmations, processed, execution,
                 redis, time, job, ev, goal, faults, history>>

\* IdempotencyService.acquire, a SET NX; nobody releases the lock.
AcquireLock(t) ==
  /\ pc[t] = "lock"
  /\ rec[t].version \notin locks
  /\ locks' = locks \cup {rec[t].version}
  /\ Goto(t, "call")
  /\ UNCHANGED <<op, tables, confKey, time, job, rec, ev, goal, faults, history>>

\* The call came back: the next step settles the operation.
Outcome(t, target) ==
  /\ goal' = [goal EXCEPT ![t] = target]
  /\ Goto(t, "settle")
  /\ UNCHANGED <<op, versionRows, reviews, confirmations, attempts, processed,
                 redis, time, job, rec, ev, history>>

\* Faulty variant: any row of the execution counts as its success.
AnyRowSucceeded(status) == {"succeeded", "pending_verification"}

\* _existing_outcome; MockOperationTimeout may follow a success.
ExistingOutcomes(status) ==
  IF status = "succeeded" THEN {"succeeded", "pending_verification"}
  ELSE {"failed"}

\* The tool finds the execution row of this operation, by key or through the
\* unique constraint.
ToolFindsExecution(t) ==
  /\ pc[t] = "call"
  /\ execution # NoExecution
  /\ \E target \in ExistingOutcomes(execution.status) : Outcome(t, target)
  /\ UNCHANGED <<execution, faults>>

\* One transaction inserts the execution row and moves money and shares.
ToolCommits(t) ==
  /\ pc[t] = "call"
  /\ execution = NoExecution
  /\ execution' = [status |-> "succeeded", version |-> rec[t].version,
                   params |-> rec[t].params]
  /\ \/ /\ \E target \in {"succeeded", "pending_verification"} : Outcome(t, target)
        /\ UNCHANGED faults
     \* the connection breaks after the commit: SQLAlchemyError
     \/ /\ faults < MaxFaults
        /\ faults' = faults + 1
        /\ Outcome(t, "failed")

\* A business rule refuses; the transaction rolls back.
ToolRefuses(t) ==
  /\ pc[t] = "call"
  /\ execution = NoExecution
  /\ Goto(t, "recordFailure")
  /\ UNCHANGED <<op, tables, redis, time, job, rec, ev, goal, faults, history>>

\* _record_failure, in a transaction of its own; a row that appeared in the
\* meantime wins.
RecordFailure(t) ==
  /\ pc[t] = "recordFailure"
  /\ execution' = IF execution = NoExecution
                  THEN [status |-> "failed", version |-> rec[t].version,
                        params |-> rec[t].params]
                  ELSE execution
  /\ Outcome(t, "failed")
  /\ UNCHANGED faults

\* SQLAlchemyError before anything is written (lock wait timeout, deadlock).
ToolBreaks(t) ==
  /\ pc[t] = "call"
  /\ faults < MaxFaults
  /\ faults' = faults + 1
  /\ Outcome(t, "failed")
  /\ UNCHANGED execution

\* The outcome becomes the status; reconcile, the HTTP request, stops here.
Settle(t) ==
  /\ pc[t] = "settle"
  /\ Transition(t, rec[t], goal[t])
  /\ \/ job[t] = "reconcile" /\ Return(t)
     \/ /\ job[t] # "reconcile"
        /\ Keep(t, rec[t], goal[t])
        /\ Goto(t, "recordAttempt")
        /\ UNCHANGED <<job, ev, goal>>
  /\ UNCHANGED <<tables, redis, time, faults, history>>

\* update_attempt and update_attempt_by_idempotency name the same row.
RecordAttempt(t) ==
  /\ pc[t] = "recordAttempt"
  /\ attempts' = [attempts EXCEPT ![rec[t].version] = goal[t]]
  /\ Return(t)
  /\ UNCHANGED <<op, versionRows, reviews, confirmations, processed, execution,
                 redis, time, faults, history>>

StartReconcile(t) ==
  /\ Accept(t, "reconcile")
  /\ op.status = "pending_verification"
  /\ Load(t)
  /\ Goto(t, "query")
  /\ UNCHANGED <<op, tables, redis, time, ev, goal, faults, history>>

\* get_status: only a successful execution counts.  The maintenance loop
\* executes an operation it read as EXECUTING, under the same idempotency key
\* and without the lock.
QueryExecution(t) ==
  /\ pc[t] = "query"
  /\ \/ /\ execution.status = "succeeded"
        /\ goal' = [goal EXCEPT ![t] = "succeeded"]
        /\ Goto(t, "settle")
        /\ UNCHANGED <<job, rec, ev>>
     \/ /\ execution.status # "succeeded"
        /\ job[t] = "reconcileAll" /\ rec[t].status = "executing"
        /\ Goto(t, "call")
        /\ UNCHANGED <<job, rec, ev, goal>>
     \/ /\ execution.status # "succeeded"
        /\ ~(job[t] = "reconcileAll" /\ rec[t].status = "executing")
        /\ Return(t)
  /\ UNCHANGED <<op, tables, redis, time, faults, history>>

-----------------------------------------------------------------------------
(* monitor_risk_timeouts: the steps in turn, each with a query for the      *)
(* operations that are due and then, per operation, a fresh read.          *)

\* Faulty variants: a limit off by one, a query left out.
ReviewDueLater == \E i \in 1..reviewsLapsed - 1 : reviews[i].status = "waiting"
ConfirmationDueLater ==
  op.status = "pending_confirmation" /\ op.deadline \in 1..deadlinesLapsed - 1
VerificationDue == op.status = "pending_verification"

\* find_expired_risk_operations looks at the reviews, not at the operation.
ReviewDue == \E i \in 1..reviewsLapsed : reviews[i].status = "waiting"

\* find_expired_confirmations
ConfirmationDue ==
  op.status = "pending_confirmation" /\ op.deadline \in 1..deadlinesLapsed

\* find_pending_verification and find_executing
ExecutionDue == op.status \in {"pending_verification", "executing"}

Due(step) ==
  CASE step = "expireRisk" -> ReviewDue
    [] step = "expireConf" -> ConfirmationDue
    [] step = "resumeApproved" -> op.status = "risk_approved"
    [] step = "resumeConfirmed" -> op.status = "confirmed"
    [] OTHER -> ExecutionDue

Scan(m) ==
  /\ pc[m] = "idle"
  /\ \/ /\ Due(job[m])
        /\ Goto(m, "require")
        /\ UNCHANGED <<job, rec, ev, goal>>
     \/ ~Due(job[m]) /\ Return(m)
  /\ UNCHANGED <<op, tables, redis, time, faults, history>>

\* What the step does with the row it reads; reconcile_pending_operations
\* takes it in any status.
Wanted(step, r) ==
  CASE step = "expireRisk" -> r.status = "waiting_risk_review"
    [] step = "expireConf" -> r.status = "pending_confirmation"
    [] step = "resumeApproved" -> r.status = "risk_approved"
    [] step = "resumeConfirmed" -> r.status = "confirmed"
    [] OTHER -> TRUE

\* Faulty variant: the second pass goes on like the first.
ContinuesApprovedOnly(step, r) ==
  CASE step = "expireRisk" -> "timeOut"
    [] step = "expireConf" -> "expire"
    [] step \in {"resumeApproved", "resumeConfirmed"} -> AfterApproval(r)
    [] OTHER -> "query"

FirstCall(step, r) ==
  CASE step = "expireRisk" -> "timeOut"
    [] step = "expireConf" -> "expire"
    [] step = "resumeApproved" -> AfterApproval(r)
    [] step = "resumeConfirmed" -> "execute"
    [] OTHER -> "query"

Require(m) ==
  /\ pc[m] = "require"
  /\ \/ /\ Wanted(job[m], op)
        /\ Load(m)
        /\ Goto(m, FirstCall(job[m], op))
        /\ UNCHANGED <<job, ev, goal>>
     \/ ~Wanted(job[m], op) /\ Return(m)
  /\ UNCHANGED <<op, tables, redis, time, faults, history>>

TimeOutReview(m) ==
  /\ pc[m] = "timeOut"
  /\ Transition(m, rec[m], "risk_review_timeout")
  /\ \/ /\ rec[m].riskReq # 0
        /\ Keep(m, rec[m], "risk_review_timeout")
        /\ Goto(m, "markTimeout")
        /\ UNCHANGED <<job, ev, goal>>
     \/ rec[m].riskReq = 0 /\ Return(m)
  /\ UNCHANGED <<tables, redis, time, faults, history>>

MarkTimeout(m) ==
  /\ pc[m] = "markTimeout"
  /\ SetReview(m, "timeout")
  /\ Return(m)
  /\ UNCHANGED <<op, redis, time, faults, history>>

-----------------------------------------------------------------------------
(* Time and faults.  All reviews live equally long, and so do all          *)
(* confirmation windows: they lapse in the order in which they began.      *)

ReviewLapses ==
  /\ reviewsLapsed < Len(reviews)
  /\ reviewsLapsed' = reviewsLapsed + 1
  /\ UNCHANGED <<op, tables, redis, deadlines, deadlinesNear, deadlinesLapsed,
                 local, faults, history>>

DeadlineNears ==
  /\ deadlinesNear < deadlines
  /\ deadlinesNear' = deadlinesNear + 1
  /\ UNCHANGED <<op, tables, redis, reviewsLapsed, deadlines, deadlinesLapsed,
                 local, faults, history>>

DeadlineLapses ==
  /\ deadlinesLapsed < deadlinesNear
  /\ deadlinesLapsed' = deadlinesLapsed + 1
  /\ UNCHANGED <<op, tables, redis, reviewsLapsed, deadlines, deadlinesNear,
                 local, faults, history>>

\* Redis drops the key when its time to live is over.  That was the whole
\* seconds left until the deadline, and at least one, counted from when Redis
\* got the key; and the row's deadline may be rounded to a second.  So the key
\* goes at any time from two seconds before the deadline on.
KeyExpires ==
  /\ confKey # NoKey
  /\ confKey.deadline <= deadlinesNear
  /\ confKey' = NoKey
  /\ UNCHANGED <<op, tables, locks, time, local, faults, history>>

\* An exception of a store or of the publisher, or the end of the process,
\* stops the coroutine between two steps.
Abort(t) ==
  /\ pc[t] # "idle"
  /\ faults < MaxFaults
  /\ faults' = faults + 1
  /\ Raise(t)
  /\ UNCHANGED <<op, tables, redis, time, history>>

-----------------------------------------------------------------------------
Init ==
  /\ op = NoRow
  /\ versionRows = [v \in Versions |-> NoParams]
  /\ reviews = <<>>
  /\ confirmations = {}
  /\ attempts = [v \in Versions |-> "none"]
  /\ processed = {}
  /\ execution = NoExecution
  /\ confKey = NoKey
  /\ locks = {}
  /\ reviewsLapsed = 0 /\ deadlines = 0 /\ deadlinesNear = 0
  /\ deadlinesLapsed = 0
  /\ job = [t \in Tasks |-> IF t \in Monitors THEN "expireRisk" ELSE "none"]
  /\ pc = [t \in Tasks |-> "idle"]
  /\ rec = [t \in Tasks |-> NoRow]
  /\ ev = [t \in Tasks |-> NoEvent]
  /\ goal = [t \in Tasks |-> "none"]
  /\ faults = 0
  /\ approvals = {} /\ consents = {}

\* A request arrives.
Arrival(t) ==
  \/ Create(t) \/ StartUpdate(t) \/ ReceiveRiskResult(t)
  \/ ReceiveManualResult(t) \/ StartConfirm(t) \/ StartCancel(t)
  \/ StartReconcile(t)

\* A coroutine under way takes its next step.
Step(t) ==
  \/ ResolveEntities(t) \/ RejectParams(t) \/ AskForMore(t) \/ AddVersion(t)
  \/ Validate(t) \/ DenyPermission(t) \/ Permit(t) \/ RequestReview(t)
  \/ Reopen(t) \/ SupersedeReview(t) \/ DropKey(t)
  \/ ApplyRiskResult(t) \/ CompleteReview(t) \/ ApplyManualResult(t)
  \/ MarkEvent(t) \/ PutKey(t) \/ PutKeyFails(t) \/ OfferConfirmation(t)
  \/ ReadKey(t) \/ AddConfirmation(t) \/ CommitConfirm(t) \/ Expire(t)
  \/ Cancel(t) \/ StartExecution(t) \/ AcquireLock(t)
  \/ ToolFindsExecution(t) \/ ToolCommits(t) \/ ToolRefuses(t)
  \/ RecordFailure(t) \/ ToolBreaks(t) \/ Settle(t) \/ RecordAttempt(t)
  \/ QueryExecution(t) \/ ConcurrentModification(t)

MonitorStep(m) == Scan(m) \/ Require(m) \/ TimeOutReview(m) \/ MarkTimeout(m)

Tick == ReviewLapses \/ DeadlineNears \/ DeadlineLapses \/ KeyExpires

Next ==
  \/ \E t \in Handlers : Arrival(t)
  \/ \E t \in Tasks : Step(t) \/ Abort(t)
  \/ \E m \in Monitors : MonitorStep(m)
  \/ Tick

Spec == Init /\ [][Next]_vars

\* Every variable has a value the code could have stored.
TypeOK ==
  /\ op \in Row
  /\ versionRows \in [Versions -> Params \cup {NoParams}]
  /\ reviews \in Seq(Review)
  /\ confirmations \subseteq Versions \X Params
  /\ attempts \in [Versions -> AttemptStatuses]
  /\ processed \subseteq Event
  /\ execution \in Execution
  /\ confKey \in ConfKey
  /\ locks \subseteq Versions
  /\ reviewsLapsed \in 0..Len(reviews)
  /\ deadlines \in 0..MaxDeadlines
  /\ deadlinesNear \in 0..deadlines
  /\ deadlinesLapsed \in 0..deadlinesNear
  /\ job \in [Tasks -> Jobs]
  /\ pc \in [Tasks -> Labels]
  /\ rec \in [Tasks -> Row]
  /\ ev \in [Tasks -> Event \cup {NoEvent}]
  /\ goal \in [Tasks -> {"none", "succeeded", "failed", "pending_verification"}]
  /\ faults \in 0..MaxFaults
  /\ approvals \subseteq Versions \X Params
  /\ consents \subseteq Versions \X Params

-----------------------------------------------------------------------------
(* Safety.                                                                 *)

\* No operation is executed, nor has its business call succeeded, unless the
\* risk agent approved the parameters it carries as the version it carries; no
\* decision on another version, and no other decision, lets it pass
\* (handle_risk_result, handle_manual_review_result and the compare-and-set).
ExecutedIsApproved ==
  op.status \in Approved => <<op.version, op.params>> \in approvals

\* Large parameters are executed only after the customer named their version
\* and their hash while they were on offer, and after the row of
\* operation_confirmations was written (confirm, _continue_risk_approved).
ExecutedIsConfirmed ==
  op.status \in Dispatched \cup {"confirmed"} /\ op.params \in LargeParams =>
    /\ <<op.version, op.params>> \in consents
    /\ <<op.version, op.hash>> \in confirmations

\* Money or shares have moved only for an operation that was dispatched and
\* only with the parameters it still carries: neither an update nor a
\* cancellation gets past an execution, whatever each of them has read before.
EffectMatchesOperation ==
  execution.status = "succeeded" =>
    /\ op.status \in Dispatched
    /\ execution.version = op.version
    /\ execution.params = op.params

\* A success that is reported has happened (_execute and both reconciliations).
SucceededHasEffect ==
  op.status = "succeeded" => execution.status = "succeeded"

\* At most one version of the operation is ever attempted, the current one.
OneVersionExecutes ==
  \A v \in Versions :
    attempts[v] # "none" => v = op.version /\ op.status \in Dispatched

\* Of the results that arrive for one review only one takes effect, so
\* mark_event_processed never meets the unique constraint on the event id.
OneResultPerReview ==
  /\ \A e, f \in processed : e.kind = f.kind /\ e.req = f.req => e = f
  /\ \A t \in Tasks : pc[t] = "markEvent" =>
       \A e \in processed : ~(e.kind = ev[t].kind /\ e.req = ev[t].req)

\* The review an operation waits for was asked for its current version
\* (prepare_risk_review against update_parameters).
CurrentReviewIsCurrent ==
  op.riskReq # 0 /\ op.status \in Versioned =>
    /\ op.riskReq <= Len(reviews)
    /\ reviews[op.riskReq].version = op.version
    /\ reviews[op.riskReq].params = op.params

\* Until the last two seconds of an open offer its key in Redis is there: no
\* confirmation that comes before them is told that it came too late, whatever
\* handlers and monitors put and delete the key (_continue_risk_approved,
\* confirm, update_parameters).
OpenOfferHasKey ==
  op.status = "pending_confirmation" /\ op.deadline > deadlinesNear =>
    confKey # NoKey

-----------------------------------------------------------------------------
(* OperationService implements OperationLifecycle.                         *)

PhaseOf(status) ==
  CASE status = NotCreated -> "none"
    [] status \in Drafts -> "draft"
    [] status \in {"waiting_risk_review", "manual_review"} -> "review"
    [] status = "risk_approved" -> "approved"
    [] status = "pending_confirmation" -> "offered"
    [] status = "confirmed" -> "confirmed"
    [] status \in {"executing", "pending_verification"} -> "running"
    [] status \in {"succeeded", "failed"} -> status
    [] OTHER -> "closed"

EffectOf(x) ==
  IF x.status = "succeeded" THEN <<x.version, x.params>> ELSE <<0, NoParams>>

Lifecycle == INSTANCE OperationLifecycle
  WITH phase <- PhaseOf(op.status), version <- op.version, params <- op.params,
       approved <- approvals, consented <- consents,
       effect <- EffectOf(execution)

\* Every step of every task, interrupted anywhere, is a step of the life cycle
\* or leaves it alone: versions never go back, parameters change in drafts
\* only, terminal statuses are final, and an effect is had once.
ImplementsLifecycle == Lifecycle!Spec

-----------------------------------------------------------------------------
(* Liveness.  A coroutine that runs is scheduled again, the maintenance    *)
(* loop goes round, and time passes.  No request ever has to arrive.       *)

Fairness ==
  /\ \A t \in Tasks : WF_vars(Step(t))
  /\ \A m \in Monitors : WF_vars(MonitorStep(m))
  /\ WF_vars(ReviewLapses) /\ WF_vars(DeadlineNears) /\ WF_vars(DeadlineLapses)
  /\ WF_vars(KeyExpires)

FairSpec == Spec /\ Fairness

Leaves(status) == op.status = status ~> op.status # status

\* An operation is not left approved, nor confirmed: resume_ready_operations
\* goes on where a handler was interrupted.
ApprovedGoesOn == Leaves("risk_approved")
ConfirmedGoesOn == Leaves("confirmed")

\* An offer is confirmed, withdrawn or expires (expire_confirmations).
OfferEnds == Leaves("pending_confirmation")

\* An execution interrupted anywhere is settled, and a timeout of the tool is
\* resolved (reconcile_pending_operations).
ExecutionSettles ==
  op.status \in {"executing", "pending_verification"} ~>
    op.status \in {"succeeded", "failed"}

\* An operation whose review was asked for does not wait for it for ever
\* (expire_risk_reviews).
RequestedReviewEnds ==
  op.status = "waiting_risk_review" /\ op.riskReq # 0 ~>
    op.status # "waiting_risk_review" \/ op.riskReq = 0

-----------------------------------------------------------------------------
(* What the code's words promise and it does not do.                      *)

\* An operation reported as failed has moved nothing.
FailedHasNoEffect ==
  op.status = "failed" => execution.status # "succeeded"
=============================================================================
