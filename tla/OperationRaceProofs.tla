-------------------------- MODULE OperationRaceProofs --------------------------
(***************************************************************************)
(* Three properties of OperationService that hang on what a stale record   *)
(* can still do, for every number of handlers, monitors, parameters,       *)
(* versions, deadlines and faults.                                         *)
(*                                                                         *)
(* Of the results that arrive for one review only one takes effect.  The   *)
(* event id is looked up when a result arrives and inserted after the      *)
(* transition, several store calls later: copies and contradicting results *)
(* that arrive in between pass the lookup.  What stops them is that the    *)
(* row never awaits the same result again (Spent): it leaves the status by *)
(* the transition, comes back to it without a request id only, and gets a  *)
(* new request then.                                                       *)
(*                                                                         *)
(* An open offer has its key until its last two seconds.  The key is       *)
(* written before the transition, by handlers and monitors at the same     *)
(* time, and deleted after other transitions.  Records of an earlier stage *)
(* cannot get in between: at each stage of a version all records have the  *)
(* row's deadline, a key is replaced by one at least as late, and who      *)
(* deletes it has taken the row where no offer is open and no one else can *)
(* bring it back.                                                          *)
(*                                                                         *)
(* An operation reported as failed may have moved money all the same, but  *)
(* not by handlers alone: the transition to EXECUTING lets one of them     *)
(* through, so that a failure one task has seen is not overtaken by the    *)
(* success of another (AloneInv).                                          *)
(***************************************************************************)
EXTENDS OperationServiceProofs

-----------------------------------------------------------------------------
(* One result of a review takes effect.                                    *)

SameResult(e, f) == e.kind = f.kind /\ e.req = f.req

\* The row would still let a result like e through.
Awaits(e) ==
  /\ op.riskReq = e.req
  /\ \/ op.status = "waiting_risk_review"
     \/ op.status = "manual_review" /\ e.kind = "manual"

Spent(e) == e.req \in 1..Len(reviews) /\ ~Awaits(e)

\* Task t has applied its result and has not marked it yet.
Applied(t) == pc[t] \in {"completeReview", "markEvent"}

\* What the records carry that decides about the request id of the row.
Requests(t) ==
  /\ pc[t] = "permit" => rec[t].riskReq = 0
  /\ pc[t] = "applyRisk" => ev[t].kind = "check" /\ ev[t].req = rec[t].riskReq
  /\ pc[t] = "applyManual" => ev[t].kind = "manual" /\ ev[t].req = rec[t].riskReq

ResultInv ==
  /\ \A t \in Tasks : Requests(t)
  /\ \A e \in processed : Spent(e)
  /\ \A t \in Tasks : Applied(t) => Spent(ev[t])
  /\ \A e, f \in processed : SameResult(e, f) => e = f
  /\ \A t \in Tasks : Applied(t) =>
       \A e \in processed : ~SameResult(e, ev[t])
  /\ \A t \in Tasks, u \in Tasks : Applied(t) /\ Applied(u) /\ t # u =>
       ~SameResult(ev[t], ev[u])

-----------------------------------------------------------------------------
(* The frame: the other tasks and what they know stay.                     *)

Untouched(t) ==
  \A u \in Tasks \ {t} : pc'[u] = pc[u] /\ rec'[u] = rec[u] /\ ev'[u] = ev[u]

SpentStays == \A e : Spent(e) => Spent(e)'

LEMMA Reviews == IInv => Len(reviews) \in Nat
  BY LenProperties DEF IInv, TypeOK

\* A row that changes hands, reviews that only grow.
LEMMA SpentKept ==
  ASSUME IInv, Len(reviews') \in Nat, Len(reviews) <= Len(reviews'),
         \/ op'.status = op.status /\ op'.riskReq = op.riskReq
         \/ op'.status \notin {"waiting_risk_review", "manual_review"}
         \/ op'.riskReq \notin 1..Len(reviews)
  PROVE  SpentStays
<1>1. Len(reviews) \in Nat
  BY Reviews
<1> QED
  BY <1>1 DEF SpentStays, Spent, Awaits

\* A step after which its task has no result in hand.
LEMMA Elsewhere ==
  ASSUME ResultInv, SpentStays, processed' = processed,
         NEW t \in Tasks, Untouched(t), Requests(t)', ~Applied(t)'
  PROVE  ResultInv'
<1>1. \A u \in Tasks \ {t} : Requests(u)'
  BY DEF ResultInv, Requests, Untouched
<1>2. \A u \in Tasks : Applied(u)' => u # t /\ Applied(u) /\ ev'[u] = ev[u]
  BY DEF Applied, Untouched
<1> QED
  BY <1>1, <1>2 DEF ResultInv, SpentStays, SameResult

Quiet == Labels \ {"permit", "applyRisk", "applyManual", "completeReview",
                   "markEvent"}

LEMMA GoesQuiet ==
  ASSUME IInv, ResultInv, SpentStays, processed' = processed,
         NEW t \in Tasks, Untouched(t), pc'[t] \in Quiet
  PROVE  ResultInv'
<1>1. Requests(t)' /\ ~Applied(t)'
  BY DEF Requests, Applied, Quiet
<1> QED
  BY <1>1, Elsewhere

\* The row is left alone.
LEMMA RowKept ==
  ASSUME IInv, op' = op, Len(reviews') = Len(reviews) PROVE SpentStays
  BY Reviews, SpentKept

LEMMA LeaveUntouched ==
  ASSUME IInv, NEW t \in Tasks, Return(t) \/ Raise(t)
  PROVE  Untouched(t) /\ pc'[t] \in Quiet
  BY DEF IInv, TypeOK, Return, Raise, Leave, Untouched, Quiet, Labels

LEMMA GotoUntouched ==
  ASSUME IInv, NEW t \in Tasks, NEW l \in Quiet, Goto(t, l),
         \A u \in Tasks \ {t} : rec'[u] = rec[u] /\ ev'[u] = ev[u]
  PROVE  Untouched(t) /\ pc'[t] \in Quiet
  BY DEF IInv, TypeOK, Goto, Untouched, Quiet

-----------------------------------------------------------------------------
(* Requests and steps that leave the row of the operation alone.           *)

LEMMA ArrivalsKeep ==
  ASSUME IInv, ResultInv, NEW t \in Tasks,
         StartUpdate(t) \/ StartConfirm(t) \/ StartCancel(t) \/ StartReconcile(t)
  PROVE  ResultInv'
<1>1. \E l \in {"reopen", "readKey", "cancel", "query"} : Goto(t, l)
  BY DEF StartUpdate, StartConfirm, StartCancel, StartReconcile
<1>2. {"reopen", "readKey", "cancel", "query"} \subseteq Quiet
  BY DEF Quiet, Labels, CasPoints
<1>3. UNCHANGED <<op, reviews, processed, ev>> /\ Load(t)
  BY DEF StartUpdate, StartConfirm, StartCancel, StartReconcile, tables
<1>4. \A u \in Tasks \ {t} : rec'[u] = rec[u] /\ ev'[u] = ev[u]
  BY <1>3 DEF Load, IInv, TypeOK
<1> QED
  BY <1>1, <1>2, <1>3, <1>4, RowKept, GotoUntouched, GoesQuiet

\* A handler reads the row a result is for.
LEMMA ReceiveKeeps ==
  ASSUME IInv, ResultInv, NEW t \in Tasks,
         ReceiveRiskResult(t) \/ ReceiveManualResult(t)
  PROVE  ResultInv'
<1>1. UNCHANGED <<op, reviews, processed>> /\ Load(t)
  BY DEF ReceiveRiskResult, ReceiveManualResult, tables
<1>2. PICK e : /\ Answers(e, op) /\ ev' = [ev EXCEPT ![t] = e]
               /\ \/ Goto(t, "applyRisk") /\ e.kind = "check"
                  \/ Goto(t, "applyManual") /\ e.kind = "manual"
  BY DEF ReceiveRiskResult, ReceiveManualResult, Results
<1>3. Untouched(t)
  BY <1>1, <1>2 DEF IInv, TypeOK, Load, Goto, Untouched
<1>4. Requests(t)' /\ ~Applied(t)'
  BY <1>1, <1>2 DEF IInv, TypeOK, Load, Goto, Requests, Applied, Answers
<1> QED
  BY <1>1, <1>3, <1>4, RowKept, Elsewhere

LEMMA AsidesKeep ==
  ASSUME IInv, ResultInv, NEW t \in Tasks,
         \/ AddVersion(t) \/ DropKey(t) \/ PutKey(t) \/ PutKeyFails(t)
         \/ ReadKey(t) \/ AddConfirmation(t) \/ AcquireLock(t)
         \/ ConcurrentModification(t) \/ Abort(t) \/ Scan(t) \/ Require(t)
  PROVE  ResultInv'
<1>1. UNCHANGED <<op, reviews, processed>>
  BY DEF AddVersion, DropKey, PutKey, PutKeyFails, ReadKey, AddConfirmation,
         AcquireLock, ConcurrentModification, Abort, Scan, Require, tables
<1>2. \/ Return(t) \/ Raise(t)
      \/ /\ \E l \in Quiet : Goto(t, l)
         /\ \A u \in Tasks \ {t} : rec'[u] = rec[u] /\ ev'[u] = ev[u]
  <2>1. CASE AddVersion(t) \/ PutKey(t) \/ Require(t)
    <3>1. \A u \in Tasks \ {t} : rec'[u] = rec[u]
      BY <2>1 DEF AddVersion, PutKey, Require, Load, Return, Leave, IInv, TypeOK
    <3>2. FirstCall(job[t], op) \in Quiet
      BY DEF FirstCall, AfterApproval, Quiet, Labels, CasPoints
    <3> QED
      BY <2>1, <3>1, <3>2
         DEF AddVersion, PutKey, Require, Quiet, Labels, CasPoints
  <2>2. CASE DropKey(t) \/ ReadKey(t) \/ AddConfirmation(t) \/ AcquireLock(t)
             \/ Scan(t)
    BY <2>2 DEF DropKey, ReadKey, AddConfirmation, AcquireLock, Scan, Quiet,
                Labels, CasPoints
  <2>3. CASE PutKeyFails(t) \/ ConcurrentModification(t) \/ Abort(t)
    BY <2>3 DEF PutKeyFails, ConcurrentModification, Abort
  <2> QED
    BY <2>1, <2>2, <2>3
<1>3. Untouched(t) /\ pc'[t] \in Quiet
  BY <1>2, LeaveUntouched, GotoUntouched
<1> QED
  BY <1>1, <1>3, RowKept, GoesQuiet

LEMMA ToolKeeps ==
  ASSUME IInv, ResultInv, NEW t \in Tasks,
         \/ ToolFindsExecution(t) \/ ToolCommits(t) \/ ToolRefuses(t)
         \/ RecordFailure(t) \/ ToolBreaks(t) \/ RecordAttempt(t)
         \/ QueryExecution(t)
  PROVE  ResultInv'
<1>1. UNCHANGED <<op, reviews, processed>>
  BY DEF ToolFindsExecution, ToolCommits, ToolRefuses, RecordFailure,
         ToolBreaks, RecordAttempt, QueryExecution, Outcome, tables
<1>2. \/ Return(t) \/ Raise(t)
      \/ /\ \E l \in Quiet : Goto(t, l)
         /\ \A u \in Tasks \ {t} : rec'[u] = rec[u] /\ ev'[u] = ev[u]
  BY DEF ToolFindsExecution, ToolCommits, ToolRefuses, RecordFailure,
         ToolBreaks, RecordAttempt, QueryExecution, Outcome, Quiet, Labels,
         CasPoints
<1>3. Untouched(t) /\ pc'[t] \in Quiet
  BY <1>2, LeaveUntouched, GotoUntouched
<1> QED
  BY <1>1, <1>3, RowKept, GoesQuiet

LEMMA ReviewsKeep ==
  ASSUME IInv, ResultInv, NEW t \in Tasks, SupersedeReview(t) \/ MarkTimeout(t)
  PROVE  ResultInv'
<1>1. /\ SetReview(t, "superseded") \/ SetReview(t, "timeout")
      /\ op' = op /\ processed' = processed
  BY DEF SupersedeReview, MarkTimeout, SetReview
<1>2. Len(reviews') = Len(reviews)
  BY <1>1, SetReviewKeeps DEF IInv
<1>3. \/ Return(t) \/ Raise(t)
      \/ /\ \E l \in Quiet : Goto(t, l)
         /\ \A u \in Tasks \ {t} : rec'[u] = rec[u] /\ ev'[u] = ev[u]
  BY DEF SupersedeReview, MarkTimeout, Quiet, Labels, CasPoints
<1>4. Untouched(t) /\ pc'[t] \in Quiet
  BY <1>3, LeaveUntouched, GotoUntouched
<1> QED
  BY <1>1, <1>2, <1>4, RowKept, GoesQuiet

-----------------------------------------------------------------------------
(* Steps that write the row.                                               *)

\* Only a permission leads to a review, and only a result of the risk agent to
\* a manual one; every other move leaves what awaits results.
LEMMA MovesKeep ==
  ASSUME IInv, ResultInv, NEW t \in Tasks,
         \/ Create(t) \/ ResolveEntities(t) \/ RejectParams(t) \/ AskForMore(t)
         \/ Validate(t) \/ DenyPermission(t) \/ Reopen(t)
         \/ OfferConfirmation(t) \/ CommitConfirm(t) \/ Expire(t) \/ Cancel(t)
         \/ StartExecution(t) \/ Settle(t) \/ TimeOutReview(t)
  PROVE  ResultInv'
<1>1. op'.status \notin {"waiting_risk_review", "manual_review"}
  <2>1. op \in Row /\ rec[t] \in Row
        /\ goal[t] \in {"none", "succeeded", "failed", "pending_verification"}
    BY DEF IInv, TypeOK
  <2>2. CASE Create(t)
    BY <2>2, ConstantsAssumption DEF Create, NoRow
  <2>3. CASE ~Create(t)
    <3>1. PICK r \in Row, target \in
                 {"resolving_entities", "validation_failed",
                  "need_more_information", "validating", "permission_denied",
                  "pending_confirmation", "confirmed", "expired", "cancelled",
                  "executing", "risk_review_timeout", "none", "succeeded",
                  "failed", "pending_verification"} :
            op' = [r EXCEPT !.status = target]
      <4>1. CASE AskForMore(t)
        <5>1. PICK p \in Merged(t) :
                Transition(t, [rec[t] EXCEPT !.params = p],
                           "need_more_information")
          BY <4>1 DEF AskForMore
        <5>2. p \in Params \cup {NoParams}
          BY <2>1, <5>1 DEF Merged, Row
        <5> DEFINE r == [rec[t] EXCEPT !.params = p]
        <5>3. r \in Row
          BY <2>1, <5>2 DEF Row
        <5> QED
          BY <5>1, <5>3 DEF Transition
      <4>2. CASE ~AskForMore(t)
        BY <2>1, <2>3, <4>2
           DEF ResolveEntities, RejectParams, Validate, DenyPermission, Reopen,
               OfferConfirmation, CommitConfirm, Expire, Cancel, StartExecution,
               Settle, TimeOutReview, Transition
      <4> QED
        BY <4>1, <4>2
    <3> QED
      BY <3>1 DEF Row
  <2> QED
    BY <2>2, <2>3
<1>2. UNCHANGED <<reviews, processed>>
  BY DEF Create, ResolveEntities, RejectParams, AskForMore, Validate,
         DenyPermission, Reopen, OfferConfirmation, CommitConfirm, Expire,
         Cancel, StartExecution, Settle, TimeOutReview, tables
<1>3. SpentStays
  BY <1>1, <1>2, Reviews, SpentKept
<1>4. CASE Validate(t)
  <2>1. pc'[t] = "permit" /\ rec'[t].riskReq = rec[t].riskReq /\ Untouched(t)
    BY <1>4 DEF Validate, Goto, Keep, Untouched, IInv, TypeOK, Row
  <2>2. rec[t].riskReq = 0
    BY <1>4 DEF Validate, IInv, ControlOK, Control
  <2>3. Requests(t)' /\ ~Applied(t)'
    BY <2>1, <2>2 DEF Requests, Applied
  <2> QED
    BY <1>2, <1>3, <2>1, <2>3, Elsewhere
<1>5. CASE ~Validate(t)
  <2>1. \/ Return(t) \/ Raise(t)
        \/ /\ \E l \in Quiet : Goto(t, l)
           /\ \A u \in Tasks \ {t} : rec'[u] = rec[u] /\ ev'[u] = ev[u]
    <3>1. (\E r, s : Keep(t, r, s)) \/ (\E r : rec' = [rec EXCEPT ![t] = r]) =>
            \A u \in Tasks \ {t} : rec'[u] = rec[u]
      BY DEF Keep, IInv, TypeOK
    <3>2. {"resolve", "normalise", "supersede", "dropKey", "lock",
           "recordAttempt", "markTimeout"} \subseteq Quiet
      BY DEF Quiet, Labels, CasPoints
    <3>3. CASE \/ Create(t) \/ ResolveEntities(t) \/ RejectParams(t)
               \/ AskForMore(t) \/ DenyPermission(t) \/ Reopen(t)
               \/ OfferConfirmation(t)
      BY <3>1, <3>2, <3>3
         DEF Create, ResolveEntities, RejectParams, AskForMore, DenyPermission,
             Reopen, OfferConfirmation
    <3>4. CASE \/ CommitConfirm(t) \/ Expire(t) \/ Cancel(t)
               \/ StartExecution(t) \/ Settle(t) \/ TimeOutReview(t)
      BY <3>1, <3>2, <3>4
         DEF CommitConfirm, Expire, Cancel, StartExecution, Settle, TimeOutReview
    <3> QED
      BY <1>5, <3>3, <3>4
  <2>2. Untouched(t) /\ pc'[t] \in Quiet
    BY <2>1, LeaveUntouched, GotoUntouched
  <2> QED
    BY <1>2, <1>3, <2>2, GoesQuiet
<1> QED
  BY <1>4, <1>5

\* The row comes to a review without a request id.
LEMMA PermitKeeps ==
  ASSUME IInv, ResultInv, NEW t \in Tasks, Permit(t) PROVE ResultInv'
<1>1. /\ pc[t] = "permit" /\ UNCHANGED <<reviews, processed, ev>>
      /\ op' = [rec[t] EXCEPT !.status = "waiting_risk_review"]
      /\ Keep(t, rec[t], "waiting_risk_review") /\ Goto(t, "request")
  BY DEF Permit, Transition, tables
<1>2. op'.riskReq = 0
  BY <1>1 DEF ResultInv, Requests, IInv, TypeOK, Row
<1>3. SpentStays
  BY <1>1, <1>2, Reviews, SpentKept
<1>4. "request" \in Quiet
  BY DEF Quiet, Labels
<1>5. \A u \in Tasks \ {t} : rec'[u] = rec[u] /\ ev'[u] = ev[u]
  BY <1>1 DEF Keep, IInv, TypeOK
<1> QED
  BY <1>1, <1>3, <1>4, <1>5, GotoUntouched, GoesQuiet

\* A request id is new.
LEMMA RequestReviewKeeps ==
  ASSUME IInv, ResultInv, NEW t \in Tasks, RequestReview(t) PROVE ResultInv'
<1>1. processed' = processed /\ Return(t) /\ Len(reviews) \in Nat
  BY Reviews DEF RequestReview
<1>2. SpentStays
  <2>1. CASE ~AwaitsRequest(rec[t])
    BY <2>1, RowKept DEF RequestReview
  <2>2. CASE AwaitsRequest(rec[t])
    <3>1. op'.riskReq = Len(reviews) + 1
      BY <2>2 DEF RequestReview, IInv, TypeOK, Row
    <3>2. Len(reviews') = Len(reviews) + 1
      <4> DEFINE r == [version |-> rec[t].version, params |-> rec[t].params,
                       status |-> "waiting"]
      <4>1. /\ rec[t].version \in Versions /\ rec[t].params \in Params
        BY DEF RequestReview, IInv, ControlOK, Control, RecordsBacked, Backed,
               NotCreated
      <4>2. r \in Review /\ reviews \in Seq(Review)
        BY <4>1 DEF Review, IInv, TypeOK
      <4>3. reviews' = Append(reviews, r)
        BY <2>2 DEF RequestReview
      <4> QED
        BY <4>2, <4>3, AppendProperties
    <3> QED
      BY <1>1, <3>1, <3>2, SpentKept
  <2> QED
    BY <2>1, <2>2
<1> QED
  BY <1>1, <1>2, LeaveUntouched, GoesQuiet

-----------------------------------------------------------------------------
(* Results.                                                                *)

\* The row of which a result took effect awaited it, so that no equal one took
\* effect before; and it awaits it no more.
LEMMA ApplyKeeps ==
  ASSUME IInv, ResultInv, NEW t \in Tasks,
         ApplyRiskResult(t) \/ ApplyManualResult(t)
  PROVE  ResultInv'
<1>1. /\ pc[t] \in {"applyRisk", "applyManual"}
      /\ UNCHANGED <<reviews, processed, ev>>
      /\ \E target : Keep(t, rec[t], target)
      /\ Transition(t, rec[t], RiskTarget(ev[t].decision))
      /\ \/ Goto(t, "completeReview") \/ Goto(t, "markEvent")
  BY DEF ApplyRiskResult, ApplyManualResult, tables
<1>2. /\ Requests(t) /\ Answered(t)
      /\ pc[t] = "applyRisk" => rec[t].status = "waiting_risk_review"
      /\ pc[t] = "applyManual" => rec[t].status = "manual_review"
      /\ rec[t] \in Row /\ op \in Row /\ Len(reviews) \in Nat
  BY <1>1, Reviews DEF ResultInv, IInv, ControlOK, Control, TypeOK
<1>3. /\ op.status = rec[t].status /\ ev[t].req = rec[t].riskReq
      /\ ev[t].req \in 1..Len(reviews)
      /\ op.riskReq = ev[t].req
  <2>1. ev[t].req \in 1..Len(reviews) /\ ev[t].req = rec[t].riskReq
    BY <1>1, <1>2 DEF Requests, Answered
  <2>2. rec[t].riskReq # 0
    BY <1>2, <2>1
  <2> QED
    BY <1>1, <2>1, <2>2 DEF Transition, CasHolds, ComparesRequest
<1>4. \A e : SameResult(e, ev[t]) => Awaits(e)
  BY <1>1, <1>2, <1>3 DEF SameResult, Awaits, Requests
<1>5. op'.riskReq = op.riskReq /\ op'.status = RiskTarget(ev[t].decision)
  BY <1>1, <1>2, <1>3 DEF Transition, Row
<1>6. op'.status \in {"risk_approved", "risk_rejected", "manual_review"}
  BY <1>5 DEF RiskTarget
<1>7. pc[t] = "applyManual" => op'.status # "manual_review"
  BY <1>1, <1>2, <1>3, <1>5 DEF Transition, CanMove, ALLOWED_TRANSITIONS
<1>8. SpentStays
  <2> SUFFICES ASSUME NEW e, Spent(e) PROVE Spent(e)'
    BY DEF SpentStays
  <2>1. ~Awaits(e) /\ e.req \in 1..Len(reviews)
    BY DEF Spent
  <2>2. op.riskReq = e.req => op'.status # "manual_review" \/ e.kind # "manual"
    BY <1>1, <1>2, <1>3, <1>7, <2>1 DEF Awaits
  <2> QED
    BY <1>1, <1>5, <1>6, <2>1, <2>2 DEF Spent, Awaits
<1>9. /\ Untouched(t) /\ pc'[t] \in {"completeReview", "markEvent"}
      /\ ev'[t] = ev[t]
  BY <1>1 DEF Keep, Goto, Untouched, IInv, TypeOK
<1>10. Spent(ev[t])'
  <2>1. ev'[t].kind = "manual" => op'.status # "manual_review"
    BY <1>1, <1>2, <1>7, <1>9 DEF Requests
  <2> QED
    BY <1>1, <1>3, <1>6, <1>9, <2>1 DEF Spent, Awaits
<1>11. /\ \A e \in processed : ~SameResult(e, ev[t])
       /\ \A u \in Tasks : Applied(u) => ~SameResult(ev[u], ev[t])
  BY <1>4 DEF ResultInv, Spent
<1>12. \A u \in Tasks : Requests(u)'
  BY <1>9 DEF Requests, Untouched, ResultInv
<1>13. \A u \in Tasks \ {t} : Applied(u)' => Applied(u) /\ ev'[u] = ev[u]
  BY <1>9 DEF Applied, Untouched
<1>14. \A u \in Tasks : Applied(u)' => Spent(ev[u])'
  BY <1>8, <1>10, <1>13 DEF ResultInv, SpentStays
<1>15. \A u \in Tasks : Applied(u)' =>
         \A e \in processed' : ~SameResult(e, ev'[u])
  BY <1>1, <1>9, <1>11, <1>13 DEF ResultInv
<1>16. \A u \in Tasks, w \in Tasks : Applied(u)' /\ Applied(w)' /\ u # w =>
         ~SameResult(ev'[u], ev'[w])
  BY <1>9, <1>11, <1>13 DEF ResultInv, SameResult
<1>17. /\ \A e \in processed' : Spent(e)'
       /\ \A e, f \in processed' : SameResult(e, f) => e = f
  BY <1>1, <1>8 DEF ResultInv, SpentStays
<1> QED
  BY <1>12, <1>14, <1>15, <1>16, <1>17 DEF ResultInv, SameResult

LEMMA CompleteReviewKeeps ==
  ASSUME IInv, ResultInv, NEW t \in Tasks, CompleteReview(t) PROVE ResultInv'
<1>1. /\ pc[t] = "completeReview" /\ SetReview(t, "completed")
      /\ UNCHANGED <<op, processed, rec, ev>> /\ Goto(t, "markEvent")
  BY DEF CompleteReview, SetReview
<1>2. Len(reviews') = Len(reviews)
  BY <1>1, SetReviewKeeps DEF IInv
<1>3. SpentStays
  BY <1>1, <1>2, RowKept
<1>4. \A u \in Tasks : Requests(u)' /\ (Applied(u)' => Applied(u))
  BY <1>1 DEF Goto, Requests, Applied, ResultInv, IInv, TypeOK
<1> QED
  BY <1>1, <1>3, <1>4 DEF ResultInv, SpentStays, SameResult

LEMMA MarkEventKeeps ==
  ASSUME IInv, ResultInv, NEW t \in Tasks, MarkEvent(t) PROVE ResultInv'
<1>1. /\ pc[t] = "markEvent" /\ processed' = processed \cup {ev[t]}
      /\ UNCHANGED <<op, reviews>>
  BY DEF MarkEvent
<1>2. Untouched(t) /\ pc'[t] \in Quiet
  <2>1. CASE Return(t)
    BY <2>1, LeaveUntouched
  <2>2. CASE /\ Goto(t, AfterApproval(rec[t]))
             /\ ev' = [ev EXCEPT ![t] = NoEvent] /\ rec' = rec
    <3>1. AfterApproval(rec[t]) \in Quiet
      BY DEF AfterApproval, Quiet, Labels, CasPoints
    <3>2. \A u \in Tasks \ {t} : rec'[u] = rec[u] /\ ev'[u] = ev[u]
      BY <2>2 DEF IInv, TypeOK
    <3> QED
      BY <2>2, <3>1, <3>2, GotoUntouched
  <2> QED
    BY <2>1, <2>2 DEF MarkEvent
<1>3. SpentStays
  BY <1>1, RowKept
<1>4. Applied(t) /\ Spent(ev[t])
  BY <1>1 DEF Applied, ResultInv
<1>5. \A u \in Tasks : Requests(u)'
  BY <1>2 DEF Requests, Untouched, ResultInv, Quiet
<1>6. \A u \in Tasks : Applied(u)' => u # t /\ Applied(u) /\ ev'[u] = ev[u]
  BY <1>2 DEF Applied, Untouched, Quiet
<1>7. \A u \in Tasks : Applied(u)' =>
        Spent(ev[u])' /\ \A e \in processed' : ~SameResult(e, ev'[u])
  BY <1>1, <1>3, <1>4, <1>6 DEF ResultInv, SpentStays, SameResult
<1>8. \A u \in Tasks, w \in Tasks : Applied(u)' /\ Applied(w)' /\ u # w =>
        ~SameResult(ev'[u], ev'[w])
  BY <1>6 DEF ResultInv
<1>9. \A e \in processed' : Spent(e)'
  BY <1>1, <1>3, <1>4 DEF ResultInv, SpentStays
<1>10. \A e, f \in processed' : SameResult(e, f) => e = f
  BY <1>1, <1>4 DEF ResultInv, SameResult
<1> QED
  BY <1>5, <1>7, <1>8, <1>9, <1>10 DEF ResultInv, SameResult

-----------------------------------------------------------------------------
LEMMA ResultInvInit == Init => ResultInv
  BY DEF Init, ResultInv, Requests, Applied

LEMMA ResultInvStep ==
  ASSUME IInv, ResultInv, NEW t \in Tasks,
         Arrival(t) \/ Step(t) \/ Abort(t) \/ MonitorStep(t)
  PROVE  ResultInv'
<1>1. CASE Arrival(t)
  BY <1>1, MovesKeep, ArrivalsKeep, ReceiveKeeps DEF Arrival
<1>2. CASE Step(t)
  BY <1>2, MovesKeep, PermitKeeps, RequestReviewKeeps, ReviewsKeep, AsidesKeep,
     ToolKeeps, ApplyKeeps, CompleteReviewKeeps, MarkEventKeeps DEF Step
<1>3. CASE Abort(t)
  BY <1>3, AsidesKeep
<1>4. CASE MonitorStep(t)
  BY <1>4, MovesKeep, ReviewsKeep, AsidesKeep DEF MonitorStep
<1> QED
  BY <1>1, <1>2, <1>3, <1>4

LEMMA ResultInvNext == IInv /\ ResultInv /\ [Next]_vars => ResultInv'
<1> SUFFICES ASSUME IInv, ResultInv, [Next]_vars PROVE ResultInv'
  OBVIOUS
<1>1. Handlers \subseteq Tasks /\ Monitors \subseteq Tasks
  BY DEF Tasks
<1>2. CASE UNCHANGED vars \/ Tick
  <2>1. UNCHANGED <<op, reviews, processed, pc, rec, ev>>
    BY <1>2 DEF vars, Tick, ReviewLapses, DeadlineNears, DeadlineLapses,
                KeyExpires, tables, local
  <2> QED
    BY <2>1 DEF ResultInv, Requests, Spent, Awaits, Applied, SameResult
<1>3. CASE Next /\ ~Tick
  BY <1>1, <1>3, ResultInvStep DEF Next
<1> QED
  BY <1>2, <1>3

\* However often the risk agent repeats its answer to a review, contradicts it,
\* or has it delivered while another one is being handled, one of its results
\* takes effect (handle_risk_result, handle_manual_review_result).
THEOREM OneResult == Spec => []OneResultPerReview
<1>1. IInv /\ ResultInv => OneResultPerReview
  BY DEF ResultInv, OneResultPerReview, SameResult, Applied
<1>2. IInv /\ ResultInv /\ [Next]_vars => ResultInv'
  BY ResultInvNext
<1>3. Init => ResultInv
  BY ResultInvInit
<1> QED
  BY <1>1, <1>2, <1>3, Invariance, PTL DEF Spec

-----------------------------------------------------------------------------
(* The second confirmation: an open offer has its key.                     *)

\* Task t alone decides about the draft.
Drafting(t) ==
  \/ pc[t] \in {"supersede", "normalise", "validate"}
  \/ pc[t] = "dropKey" /\ job[t] = "update"

\* No offer can follow any more.
Past == {"confirmed", "executing", "pending_verification"} \cup TERMINAL_STATUSES

Vetting ==
  {"validating", "waiting_risk_review", "manual_review", "risk_approved"}

\* The order in which a version goes through its statuses.
Stage(s) ==
  CASE s = "validating" -> 1
    [] s = "waiting_risk_review" -> 2
    [] s = "manual_review" -> 3
    [] s = "risk_approved" -> 4
    [] s = "pending_confirmation" -> 5
    [] s \in {"resolving_entities", "need_more_information"} -> 6
    [] s \in Past -> 7
    [] OTHER -> 0

\* The draft is as its task left it.
DraftHeld(t) ==
  Drafting(t) =>
    /\ op.status = "resolving_entities" /\ op.version = ExpectedVersion(t)
    /\ rec[t].status = "resolving_entities" /\ rec[t].deadline = op.deadline
    /\ job[t] \in {"create", "update"}

\* Records are not ahead of the row.
Behind(t) ==
  /\ ~Drafting(t) => rec[t].version <= op.version
  /\ rec[t].version = op.version =>
       /\ rec[t].status \in Vetting \cup {"pending_confirmation"} =>
            Stage(op.status) >= Stage(rec[t].status)
       /\ rec[t].status = "need_more_information" => Stage(op.status) >= 6

\* Records the row would take have its deadline, but for the one of a task that
\* has computed a deadline and is about to offer it.
SameDeadline(t) ==
  pc[t] # "offer" =>
    /\ rec[t].version = op.version =>
         /\ rec[t].status \in Vetting /\ op.status \in Vetting =>
              rec[t].deadline = op.deadline
         /\ rec[t].status = "pending_confirmation" /\ op.status = rec[t].status =>
              rec[t].deadline = op.deadline
         /\ /\ rec[t].status = "need_more_information"
            /\ op.status \in {"resolving_entities", "need_more_information"}
            => rec[t].deadline = op.deadline
    /\ op.status \notin Past /\ rec[t].deadline # 0 =>
         rec[t].deadline = op.deadline

\* A task about to offer has put the key of its deadline or found a later one.
Offering(t) ==
  /\ pc[t] = "resolve" => rec[t].status = "draft"
  /\ pc[t] \in {"putKey", "offer"} => rec[t].status = "risk_approved"
  /\ /\ pc[t] = "offer"
     /\ op.status = "risk_approved" /\ rec[t].version = op.version
     => /\ op.deadline \in {0, rec[t].deadline}
        /\ rec[t].deadline > deadlinesNear =>
             confKey.deadline >= rec[t].deadline
  /\ pc[t] = "dropKey" /\ job[t] # "update" => op.status \in Past

TaskOK(t) ==
  /\ DraftHeld(t) /\ Behind(t) /\ SameDeadline(t) /\ Offering(t)
  /\ rec[t].deadline <= deadlines

OneDrafter == \A t \in Tasks, u \in Tasks : Drafting(t) /\ Drafting(u) => t = u

\* Before the first draft is finished there are no other records to speak of.
Early(r) == r.status \in {NotCreated, op.status, "draft"} /\ r.deadline = 0

FirstDraft ==
  \/ op.status \in {NotCreated, "draft"}
  \/ \E t \in Tasks : Drafting(t) /\ job[t] = "create"

FirstDraftOK ==
  /\ op.status = NotCreated => op.version = 0
  /\ FirstDraft => op.deadline = 0 /\ \A t \in Tasks : Early(rec[t])

KeyKept ==
  /\ op.deadline <= deadlines
  /\ op.status = "pending_confirmation" /\ op.deadline > deadlinesNear =>
       confKey.deadline >= op.deadline

OfferInv ==
  /\ \A t \in Tasks : TaskOK(t)
  /\ OneDrafter /\ FirstDraftOK /\ KeyKept

-----------------------------------------------------------------------------
LEMMA Stages ==
  /\ Stage("validating") = 1 /\ Stage("waiting_risk_review") = 2
  /\ Stage("manual_review") = 3 /\ Stage("risk_approved") = 4
  /\ Stage("pending_confirmation") = 5 /\ Stage("resolving_entities") = 6
  /\ Stage("need_more_information") = 6
  /\ \A s \in Past : Stage(s) = 7
  /\ \A s : Stage(s) \in 0..7
  BY DEF Stage, Past, TERMINAL_STATUSES

LEMMA Types ==
  ASSUME IInv
  PROVE  /\ op \in Row /\ \A t \in Tasks : rec[t] \in Row
         /\ op.version \in Nat /\ op.deadline \in Nat
         /\ \A t \in Tasks : rec[t].version \in Nat /\ rec[t].deadline \in Nat
         /\ confKey.deadline \in Nat /\ deadlines \in Nat
         /\ deadlinesNear \in Nat /\ deadlinesNear <= deadlines
<1>1. /\ op \in Row /\ \A t \in Tasks : rec[t] \in Row
      /\ confKey \in ConfKey
      /\ deadlines \in 0..MaxDeadlines /\ deadlinesNear \in 0..deadlines
  BY DEF IInv, TypeOK
<1>2. 0..MaxVersion \subseteq Nat /\ 0..MaxDeadlines \subseteq Nat
  BY ConstantsAssumption
<1>3. ASSUME NEW r \in Row PROVE r.version \in Nat /\ r.deadline \in Nat
  BY <1>2 DEF Row
<1>4. confKey.deadline \in Nat
  BY <1>1, <1>2 DEF ConfKey
<1>5. /\ deadlines \in Nat
      /\ deadlinesNear \in Nat /\ deadlinesNear <= deadlines
  <2>1. deadlines \in Nat
    BY <1>1, <1>2
  <2> QED
    BY <1>1, <2>1
<1> QED
  BY <1>1, <1>3, <1>4, <1>5

\* The other tasks stay as they are.
Stand(t) ==
  \A u \in Tasks \ {t} : pc'[u] = pc[u] /\ job'[u] = job[u] /\ rec'[u] = rec[u]

\* What the invariant says of the row and of the key stays.
RowStands ==
  /\ op'.status = op.status /\ op'.version = op.version
  /\ op'.deadline = op.deadline
  /\ confKey' = confKey
  /\ UNCHANGED <<deadlines, deadlinesNear>>

LEMMA OthersOK ==
  ASSUME OfferInv, RowStands, NEW t \in Tasks, Stand(t)
  PROVE  \A u \in Tasks \ {t} : TaskOK(u)'
<1> SUFFICES ASSUME NEW u \in Tasks \ {t} PROVE TaskOK(u)'
  OBVIOUS
<1>1. TaskOK(u)
  BY DEF OfferInv
<1>2. Drafting(u)' = Drafting(u)
  BY DEF Stand, Drafting
<1>3. DraftHeld(u)'
  BY <1>1, <1>2 DEF TaskOK, DraftHeld, ExpectedVersion, Stand, RowStands
<1>4. Behind(u)' /\ SameDeadline(u)' /\ Offering(u)'
  BY <1>1, <1>2 DEF TaskOK, Behind, SameDeadline, Offering, Stand, RowStands
<1> QED
  BY <1>1, <1>3, <1>4 DEF TaskOK, Stand, RowStands

LEMMA RowFrame ==
  ASSUME IInv, OfferInv, RowStands, NEW t \in Tasks, Stand(t), TaskOK(t)',
         Drafting(t)' => Drafting(t) /\ job'[t] = job[t],
         FirstDraft => Early(rec'[t])
  PROVE  OfferInv'
<1>1. \A u \in Tasks \ {t} : TaskOK(u)'
  BY OthersOK
<1>2. \A u \in Tasks : Drafting(u)' => Drafting(u) /\ job'[u] = job[u]
  BY DEF Stand, Drafting
<1>3. OneDrafter' /\ (FirstDraft' => FirstDraft)
  BY <1>2 DEF OfferInv, OneDrafter, FirstDraft, RowStands
<1>4. FirstDraftOK'
  BY <1>3 DEF OfferInv, FirstDraftOK, Early, RowStands, Stand
<1>5. KeyKept'
  BY DEF OfferInv, KeyKept, RowStands
<1> QED
  BY <1>1, <1>3, <1>4, <1>5 DEF OfferInv

\* A task that is done.
LEMMA DoneOK ==
  ASSUME IInv, OfferInv, NEW t \in Tasks, Return(t) \/ Raise(t)
  PROVE  /\ Stand(t) /\ pc'[t] = "idle" /\ rec'[t] = NoRow /\ ~Drafting(t)'
         /\ op'.version \in Nat /\ deadlines' \in Nat => TaskOK(t)'
<1>1. Stand(t) /\ pc'[t] = "idle" /\ rec'[t] = NoRow
  BY DEF Return, Raise, Leave, Stand, IInv, TypeOK
<1>2. ~Drafting(t)'
  BY <1>1 DEF Drafting
<1>3. op'.version \in Nat /\ deadlines' \in Nat => TaskOK(t)'
  BY <1>1, <1>2 DEF TaskOK, DraftHeld, Behind, SameDeadline, Offering, NoRow,
                    NotCreated, Vetting
<1> QED
  BY <1>1, <1>2, <1>3

LEMMA TaskLeaves ==
  ASSUME IInv, OfferInv, RowStands, NEW t \in Tasks, Return(t) \/ Raise(t)
  PROVE  OfferInv'
<1>1. op'.version \in Nat /\ deadlines' \in Nat
  BY Types DEF RowStands
<1>2. Stand(t) /\ rec'[t] = NoRow /\ ~Drafting(t)' /\ TaskOK(t)'
  BY <1>1, DoneOK
<1>3. Early(rec'[t])
  BY <1>2 DEF Early, NoRow
<1> QED
  BY <1>2, <1>3, RowFrame

\* A task that reads the row.
LEMMA TaskLoads ==
  ASSUME IInv, OfferInv, UNCHANGED <<op, confKey, deadlines, deadlinesNear>>,
         NEW t \in Tasks, Stand(t), rec'[t] = op,
         pc'[t] \notin {"supersede", "normalise", "validate", "dropKey", "offer",
                        "resolve"},
         pc'[t] = "putKey" => op.status = "risk_approved"
  PROVE  OfferInv'
<1>1. RowStands /\ ~Drafting(t)'
  BY DEF RowStands, Drafting
<1>2. Behind(t)' /\ DraftHeld(t)'
  BY <1>1, Types, Stages DEF Behind, DraftHeld, Vetting
<1>3. SameDeadline(t)' /\ Offering(t)'
  BY DEF SameDeadline, Offering
<1>4. TaskOK(t)'
  BY <1>2, <1>3 DEF TaskOK, OfferInv, KeyKept
<1>5. FirstDraft => Early(rec'[t])
  BY DEF OfferInv, FirstDraftOK, Early
<1> QED
  BY <1>1, <1>4, <1>5, RowFrame

\* A task that goes on with the record it has.
LEMMA TaskGoesOn ==
  ASSUME IInv, OfferInv, RowStands, NEW t \in Tasks, Stand(t),
         rec'[t] = rec[t], job'[t] = job[t],
         Drafting(t)' <=> Drafting(t),
         ExpectedVersion(t)' = ExpectedVersion(t),
         pc[t] # "offer" /\ pc'[t] \notin {"offer", "resolve"},
         pc'[t] = "dropKey" => pc[t] = "dropKey" \/ job[t] = "update",
         pc'[t] = "putKey" => rec[t].status = "risk_approved"
  PROVE  OfferInv'
<1>1. TaskOK(t)
  BY DEF OfferInv
<1>2. DraftHeld(t)' /\ Behind(t)'
  BY <1>1 DEF TaskOK, DraftHeld, Behind, RowStands
<1>3. SameDeadline(t)'
  BY <1>1 DEF TaskOK, SameDeadline, RowStands
<1>4. Offering(t)'
  BY <1>1 DEF TaskOK, Offering, RowStands
<1>5. TaskOK(t)'
  BY <1>1, <1>2, <1>3, <1>4 DEF TaskOK, RowStands
<1>6. FirstDraft => Early(rec'[t])
  BY DEF OfferInv, FirstDraftOK, Early
<1> QED
  BY <1>5, <1>6, RowFrame

-----------------------------------------------------------------------------
(* Steps that leave the row and the key alone.                             *)

LEMMA ArrivalsOffer ==
  ASSUME IInv, OfferInv, NEW t \in Tasks,
         \/ StartUpdate(t) \/ ReceiveRiskResult(t) \/ ReceiveManualResult(t)
         \/ StartConfirm(t) \/ StartCancel(t) \/ StartReconcile(t)
  PROVE  OfferInv'
<1>1. /\ UNCHANGED <<op, confKey, deadlines, deadlinesNear>> /\ Load(t)
      /\ \E k : job' = [job EXCEPT ![t] = k]
      /\ \E l \in {"reopen", "applyRisk", "applyManual", "readKey", "cancel",
                   "query"} : Goto(t, l)
  BY DEF StartUpdate, ReceiveRiskResult, ReceiveManualResult, StartConfirm,
         StartCancel, StartReconcile, Accept, redis, time
<1>2. /\ Stand(t) /\ rec'[t] = op
      /\ pc'[t] \in {"reopen", "applyRisk", "applyManual", "readKey", "cancel",
                     "query"}
  BY <1>1 DEF Stand, Load, Goto, IInv, TypeOK
<1> QED
  BY <1>1, <1>2, TaskLoads

LEMMA EndsOffer ==
  ASSUME IInv, OfferInv, NEW t \in Tasks,
         \/ RequestReview(t) \/ PutKeyFails(t) \/ RecordAttempt(t)
         \/ ConcurrentModification(t) \/ Abort(t) \/ MarkTimeout(t)
  PROVE  OfferInv'
<1>1. Return(t) \/ Raise(t)
  BY DEF RequestReview, PutKeyFails, RecordAttempt, ConcurrentModification,
         Abort, MarkTimeout
<1>2. RowStands
  <2>1. op \in Row
    BY Types
  <2> QED
    BY <2>1 DEF RequestReview, PutKeyFails, RecordAttempt,
                ConcurrentModification, Abort, MarkTimeout, RowStands, Row,
                redis, time
<1> QED
  BY <1>1, <1>2, TaskLeaves

LEMMA GoesToOffer ==
  ASSUME IInv, OfferInv, RowStands, NEW t \in Tasks, NEW l, Goto(t, l),
         UNCHANGED <<job, rec>>,
         pc[t] \notin {"supersede", "normalise", "validate", "dropKey", "offer"},
         l \notin {"supersede", "normalise", "validate", "dropKey", "offer",
                   "resolve"},
         l = "putKey" => rec[t].status = "risk_approved"
  PROVE  OfferInv'
<1>1. Stand(t) /\ rec'[t] = rec[t] /\ job'[t] = job[t] /\ pc'[t] = l
  BY DEF Stand, Goto, IInv, TypeOK
<1>2. /\ Drafting(t)' <=> Drafting(t)
      /\ ExpectedVersion(t)' = ExpectedVersion(t)
  BY <1>1 DEF Drafting, ExpectedVersion
<1> QED
  BY <1>1, <1>2, TaskGoesOn

LEMMA AsidesOffer ==
  ASSUME IInv, OfferInv, NEW t \in Tasks,
         \/ CompleteReview(t) \/ MarkEvent(t) \/ ReadKey(t)
         \/ AddConfirmation(t) \/ AcquireLock(t) \/ ToolFindsExecution(t)
         \/ ToolCommits(t) \/ ToolRefuses(t) \/ RecordFailure(t)
         \/ ToolBreaks(t) \/ QueryExecution(t)
  PROVE  OfferInv'
<1>1. RowStands
  BY DEF CompleteReview, MarkEvent, ReadKey, AddConfirmation, AcquireLock,
         ToolFindsExecution, ToolCommits, ToolRefuses, RecordFailure,
         ToolBreaks, QueryExecution, Outcome, RowStands, redis, time
<1>2. \/ Return(t) \/ Raise(t)
      \/ /\ UNCHANGED <<job, rec>>
         /\ \E l \in {"markEvent", "putKey", "execute", "expire",
                      "addConfirmation", "commitConfirm", "call", "settle",
                      "recordFailure"} :
              Goto(t, l) /\ (l = "putKey" => rec[t].status = "risk_approved")
  BY DEF CompleteReview, MarkEvent, ReadKey, AddConfirmation, AcquireLock,
         ToolFindsExecution, ToolCommits, ToolRefuses, RecordFailure,
         ToolBreaks, QueryExecution, Outcome, AfterApproval
<1>3. pc[t] \in {"completeReview", "markEvent", "readKey", "addConfirmation",
                 "lock", "call", "recordFailure", "query"}
  BY DEF CompleteReview, MarkEvent, ReadKey, AddConfirmation, AcquireLock,
         ToolFindsExecution, ToolCommits, ToolRefuses, RecordFailure,
         ToolBreaks, QueryExecution
<1> QED
  BY <1>1, <1>2, <1>3, TaskLeaves, GoesToOffer

LEMMA ScansOffer ==
  ASSUME IInv, OfferInv, NEW t \in Tasks, Scan(t) \/ Require(t) PROVE OfferInv'
<1>1. UNCHANGED <<op, confKey, deadlines, deadlinesNear>> /\ RowStands
  BY DEF Scan, Require, redis, time, RowStands
<1>2. CASE Return(t)
  BY <1>1, <1>2, TaskLeaves
<1>3. CASE pc[t] = "idle" /\ Goto(t, "require") /\ UNCHANGED <<job, rec>>
  BY <1>1, <1>3, GoesToOffer
<1>4. CASE /\ Wanted(job[t], op) /\ Load(t) /\ Goto(t, FirstCall(job[t], op))
           /\ UNCHANGED job
  <2>1. /\ FirstCall(job[t], op) \in {"timeOut", "expire", "putKey", "execute",
                                      "query"}
        /\ FirstCall(job[t], op) = "putKey" => op.status = "risk_approved"
    BY <1>4 DEF FirstCall, AfterApproval, Wanted
  <2>2. Stand(t) /\ rec'[t] = op /\ pc'[t] = FirstCall(job[t], op)
    BY <1>4 DEF Stand, Load, Goto, IInv, TypeOK
  <2> QED
    BY <1>1, <2>1, <2>2, TaskLoads
<1> QED
  BY <1>2, <1>3, <1>4 DEF Scan, Require

LEMMA SupersedeOffer ==
  ASSUME IInv, OfferInv, NEW t \in Tasks, SupersedeReview(t) PROVE OfferInv'
<1>1. /\ pc[t] = "supersede" /\ Goto(t, "dropKey") /\ UNCHANGED <<job, rec>>
      /\ RowStands
  BY DEF SupersedeReview, RowStands, redis, time
<1>2. job[t] = "update"
  BY <1>1 DEF IInv, ControlOK, Control
<1>3. Stand(t) /\ rec'[t] = rec[t] /\ job'[t] = job[t] /\ pc'[t] = "dropKey"
  BY <1>1 DEF Stand, Goto, IInv, TypeOK
<1>4. /\ Drafting(t)' <=> Drafting(t)
      /\ ExpectedVersion(t)' = ExpectedVersion(t)
  BY <1>1, <1>2, <1>3 DEF Drafting, ExpectedVersion
<1> QED
  BY <1>1, <1>2, <1>3, <1>4, TaskGoesOn

\* An update goes on with the number of the next version.
LEMMA AddVersionOffer ==
  ASSUME IInv, OfferInv, NEW t \in Tasks, AddVersion(t) PROVE OfferInv'
<1>1. /\ pc[t] = "normalise" /\ Goto(t, "validate") /\ job' = job /\ RowStands
  BY DEF AddVersion, RowStands, redis, time
<1>2. PICK p \in Merged(t) : rec' = [rec EXCEPT ![t] = NewVersion(t, p)]
  BY DEF AddVersion
<1>3. /\ rec'[t].status = rec[t].status /\ rec'[t].deadline = rec[t].deadline
      /\ rec'[t].version = IF job[t] = "update" THEN rec[t].version + 1
                                                ELSE rec[t].version
  BY <1>2, Types DEF NewVersion, Row, IInv, TypeOK
<1>4. Stand(t) /\ job'[t] = job[t] /\ pc'[t] = "validate"
  BY <1>1, <1>2 DEF Stand, Goto, IInv, TypeOK
<1>5. Drafting(t) /\ Drafting(t)' /\ DraftHeld(t)
  BY <1>1, <1>4 DEF Drafting, OfferInv, TaskOK
<1>6. ExpectedVersion(t)' = ExpectedVersion(t)
  BY <1>1, <1>3, <1>4, Types DEF ExpectedVersion
<1>7. DraftHeld(t)'
  BY <1>1, <1>3, <1>4, <1>5, <1>6 DEF DraftHeld, RowStands
<1>8. Behind(t)' /\ SameDeadline(t)' /\ Offering(t)'
  BY <1>1, <1>3, <1>4, <1>5 DEF Behind, SameDeadline, Offering, DraftHeld,
                                RowStands, Vetting
<1>9. TaskOK(t)'
  <2>1. rec[t].deadline <= deadlines
    BY DEF OfferInv, TaskOK
  <2> QED
    BY <1>1, <1>3, <1>7, <1>8, <2>1 DEF TaskOK, RowStands
<1>10. FirstDraft => Early(rec'[t])
  BY <1>3 DEF OfferInv, FirstDraftOK, Early
<1> QED
  BY <1>1, <1>4, <1>5, <1>9, <1>10, RowFrame

-----------------------------------------------------------------------------
(* The key and time.                                                       *)

\* A key is deleted when the operation is a draft or past its offers.
LEMMA DropKeyOffer ==
  ASSUME IInv, OfferInv, NEW t \in Tasks, DropKey(t) PROVE OfferInv'
<1>1. /\ pc[t] = "dropKey"
      /\ UNCHANGED <<op, deadlines, deadlinesNear>>
  BY DEF DropKey, time
<1>2. op.status \in Past \cup {"resolving_entities"}
  BY <1>1 DEF OfferInv, TaskOK, Offering, DraftHeld, Drafting
<1>3. op.status \notin {"risk_approved", "pending_confirmation"}
  BY <1>2 DEF Past, TERMINAL_STATUSES
<1>4. /\ Stand(t)
      /\ \/ Return(t)
         \/ /\ rec'[t] = rec[t] /\ job'[t] = job[t]
            /\ \/ job[t] = "update" /\ pc'[t] = "normalise"
               \/ job[t] = "confirm" /\ pc'[t] = "execute"
  BY DEF DropKey, Return, Leave, Goto, Stand, IInv, TypeOK
<1>5. TaskOK(t)'
  <2>1. CASE Return(t)
    BY <1>1, <2>1, DoneOK, Types
  <2>2. CASE /\ rec'[t] = rec[t] /\ job'[t] = job[t]
             /\ \/ job[t] = "update" /\ pc'[t] = "normalise"
                \/ job[t] = "confirm" /\ pc'[t] = "execute"
    <3>1. TaskOK(t) /\ (Drafting(t)' <=> Drafting(t))
      BY <1>1, <2>2 DEF OfferInv, Drafting
    <3>2. ExpectedVersion(t)' = ExpectedVersion(t)
      BY <1>1, <2>2 DEF ExpectedVersion
    <3>3. DraftHeld(t)' /\ Behind(t)'
      BY <1>1, <2>2, <3>1, <3>2 DEF TaskOK, DraftHeld, Behind
    <3>4. SameDeadline(t)' /\ Offering(t)'
      BY <1>1, <2>2, <3>1 DEF TaskOK, SameDeadline, Offering
    <3> QED
      BY <1>1, <2>2, <3>1, <3>3, <3>4 DEF TaskOK
  <2> QED
    BY <1>4, <2>1, <2>2
<1>6. \A u \in Tasks \ {t} : TaskOK(u)'
  <2> SUFFICES ASSUME NEW u \in Tasks \ {t} PROVE TaskOK(u)'
    OBVIOUS
  <2>1. TaskOK(u)
    BY DEF OfferInv
  <2>2. pc'[u] = pc[u] /\ job'[u] = job[u] /\ rec'[u] = rec[u]
    BY <1>4 DEF Stand
  <2>3. DraftHeld(u)' /\ Behind(u)'
    BY <1>1, <2>1, <2>2
       DEF TaskOK, DraftHeld, Behind, Drafting, ExpectedVersion
  <2>4. SameDeadline(u)' /\ Offering(u)'
    BY <1>1, <1>3, <2>1, <2>2 DEF TaskOK, SameDeadline, Offering
  <2> QED
    BY <1>1, <2>1, <2>2, <2>3, <2>4 DEF TaskOK
<1>7. \A u \in Tasks : Drafting(u)' => Drafting(u) /\ job'[u] = job[u]
  <2>1. Return(t) => ~Drafting(t)'
    BY DoneOK
  <2> QED
    BY <1>1, <1>4, <2>1 DEF Stand, Drafting
<1>8. \A u \in Tasks : FirstDraft => Early(rec'[u])
  <2>1. Return(t) => rec'[t] = NoRow
    BY DoneOK
  <2> QED
    BY <1>4, <2>1 DEF Stand, OfferInv, FirstDraftOK, Early, NoRow
<1>9. OneDrafter' /\ (FirstDraft' => FirstDraft)
  BY <1>1, <1>7 DEF OfferInv, OneDrafter, FirstDraft
<1>10. FirstDraftOK'
  BY <1>1, <1>8, <1>9 DEF OfferInv, FirstDraftOK, Early
<1>11. KeyKept'
  BY <1>1, <1>3 DEF OfferInv, KeyKept
<1> QED
  BY <1>5, <1>6, <1>9, <1>10, <1>11 DEF OfferInv

\* A key gets the deadline the row has; only where it has none yet, a later one
\* than any other.
LEMMA PutKeyOffer ==
  ASSUME IInv, OfferInv, NEW t \in Tasks, PutKey(t) PROVE OfferInv'
<1>1. /\ pc[t] = "putKey" /\ Goto(t, "offer")
      /\ UNCHANGED <<op, deadlinesNear, job>>
  BY DEF PutKey
<1>2. /\ rec'[t].status = rec[t].status /\ rec'[t].version = rec[t].version
      /\ rec'[t].deadline = confKey'.deadline
      /\ \A u \in Tasks \ {t} : rec'[u] = rec[u]
      /\ \/ /\ rec[t].deadline # 0 /\ rec'[t].deadline = rec[t].deadline
            /\ deadlines' = deadlines
         \/ /\ rec[t].deadline = 0 /\ rec'[t].deadline = deadlines + 1
            /\ deadlines' = deadlines + 1
  <2>1. CASE /\ rec[t].deadline # 0
             /\ confKey' = KeyFor(rec[t], rec[t].deadline)
             /\ UNCHANGED <<deadlines, rec>>
    BY <2>1 DEF KeyFor
  <2>2. CASE /\ rec[t].deadline = 0 /\ deadlines' = deadlines + 1
             /\ confKey' = KeyFor(rec[t], deadlines + 1)
             /\ rec' = [rec EXCEPT ![t].deadline = deadlines + 1]
    <3>1. rec[t] \in Row /\ rec \in [Tasks -> Row]
      BY DEF IInv, TypeOK
    <3>2. rec'[t] = [rec[t] EXCEPT !.deadline = deadlines + 1]
      BY <2>2, <3>1
    <3> QED
      BY <2>2, <3>1, <3>2 DEF KeyFor, Row
  <2> QED
    BY <2>1, <2>2 DEF PutKey
<1>3. Stand(t) /\ pc'[t] = "offer" /\ job'[t] = job[t]
  BY <1>1, <1>2 DEF Stand, Goto, IInv, TypeOK
<1>4. \A u \in Tasks : Drafting(u)' <=> Drafting(u)
  BY <1>1, <1>3 DEF Drafting, Stand
<1>5. TaskOK(t) /\ rec[t].status = "risk_approved"
  BY <1>1 DEF OfferInv, TaskOK, Offering
\* The key is later than any deadline that counts.
<1>6. \/ confKey'.deadline > deadlines
      \/ /\ op.status \notin Past => confKey'.deadline = op.deadline
         /\ confKey'.deadline # 0
  BY <1>1, <1>2, <1>5, Types DEF TaskOK, SameDeadline
<1>7. {"risk_approved", "pending_confirmation"} \cap Past = {}
  BY DEF Past, TERMINAL_STATUSES
<1>8. \A u \in Tasks \ {t} : TaskOK(u)'
  <2> SUFFICES ASSUME NEW u \in Tasks \ {t} PROVE TaskOK(u)'
    OBVIOUS
  <2>1. TaskOK(u) /\ rec[u].deadline <= deadlines /\ rec[u].deadline \in Nat
    BY Types DEF OfferInv, TaskOK
  <2>2. pc'[u] = pc[u] /\ job'[u] = job[u] /\ rec'[u] = rec[u]
    BY <1>3 DEF Stand
  <2>3. DraftHeld(u)' /\ Behind(u)' /\ SameDeadline(u)'
    BY <1>1, <2>1, <2>2 DEF TaskOK, DraftHeld, Behind, SameDeadline, Drafting,
                            ExpectedVersion
  <2>4. Offering(u)'
    <3>1. CASE /\ pc[u] = "offer" /\ op.status = "risk_approved"
               /\ rec[u].version = op.version
      <4>1. op.deadline \in {0, rec[u].deadline}
        BY <2>1, <3>1 DEF TaskOK, Offering
      <4>2. confKey'.deadline >= rec[u].deadline
        BY <1>2, <1>6, <1>7, <2>1, <3>1, <4>1, Types
      <4> QED
        BY <1>1, <2>1, <2>2, <3>1, <4>1, <4>2 DEF TaskOK, Offering
    <3>2. CASE ~(/\ pc[u] = "offer" /\ op.status = "risk_approved"
                 /\ rec[u].version = op.version)
      BY <1>1, <2>1, <2>2, <3>2 DEF TaskOK, Offering
    <3> QED
      BY <3>1, <3>2
  <2>5. rec[u].deadline <= deadlines'
    BY <1>2, <2>1, Types
  <2> QED
    BY <2>2, <2>3, <2>4, <2>5 DEF TaskOK
<1>9. TaskOK(t)'
  <2>1. ~Drafting(t) /\ DraftHeld(t)' /\ Behind(t)' /\ SameDeadline(t)'
    BY <1>1, <1>2, <1>3, <1>4, <1>5
       DEF Drafting, TaskOK, DraftHeld, Behind, SameDeadline
  <2>2. op.status = "risk_approved" /\ rec[t].version = op.version =>
          rec[t].deadline = op.deadline
    BY <1>1, <1>5 DEF TaskOK, SameDeadline, Vetting
  <2>3. Offering(t)'
    BY <1>1, <1>2, <1>3, <1>5, <2>2, Types DEF Offering
  <2>4. rec'[t].deadline <= deadlines'
    BY <1>2, <1>5, Types DEF TaskOK
  <2> QED
    BY <2>1, <2>3, <2>4 DEF TaskOK
<1>10. ~FirstDraft /\ ~FirstDraft'
  <2>1. ~FirstDraft
    BY <1>5 DEF OfferInv, FirstDraftOK, Early, FirstDraft, NotCreated, TaskOK,
                DraftHeld
  <2> QED
    BY <1>1, <1>4, <2>1, <1>3 DEF FirstDraft, Stand
<1>11. OneDrafter' /\ FirstDraftOK'
  BY <1>1, <1>4, <1>10 DEF OfferInv, OneDrafter, FirstDraftOK
<1>12. KeyKept'
  BY <1>1, <1>2, <1>6, <1>7, Types DEF OfferInv, KeyKept
<1> QED
  BY <1>8, <1>9, <1>11, <1>12 DEF OfferInv

LEMMA TickOffer ==
  ASSUME IInv, OfferInv, Tick \/ UNCHANGED vars PROVE OfferInv'
<1>1. /\ UNCHANGED <<op, deadlines, job, pc, rec>>
      /\ deadlinesNear' \in Nat /\ deadlinesNear <= deadlinesNear'
      /\ \/ confKey' = confKey
         \/ confKey.deadline <= deadlinesNear'
  BY Types DEF Tick, ReviewLapses, DeadlineNears, DeadlineLapses,
               KeyExpires, vars, redis, time, local
<1>2. \A u \in Tasks : TaskOK(u)'
  <2> SUFFICES ASSUME NEW u \in Tasks PROVE TaskOK(u)'
    OBVIOUS
  <2>1. TaskOK(u)
    BY DEF OfferInv
  <2>2. DraftHeld(u)' /\ Behind(u)' /\ SameDeadline(u)'
    BY <1>1, <2>1 DEF TaskOK, DraftHeld, Behind, SameDeadline, Drafting,
                      ExpectedVersion
  <2>3. Offering(u)'
    BY <1>1, <2>1, Types DEF TaskOK, Offering
  <2> QED
    BY <1>1, <2>1, <2>2, <2>3 DEF TaskOK
<1>3. OneDrafter' /\ FirstDraftOK'
  BY <1>1 DEF OfferInv, OneDrafter, FirstDraftOK, FirstDraft, Drafting, Early
<1>4. KeyKept'
  BY <1>1, Types DEF OfferInv, KeyKept
<1> QED
  BY <1>2, <1>3, <1>4 DEF OfferInv

-----------------------------------------------------------------------------
(* Steps that write the row.                                               *)

KeyStands == UNCHANGED <<confKey, deadlines, deadlinesNear>>

LEMMA Cas ==
  ASSUME IInv, OfferInv, NEW t \in Tasks, NEW target,
         Transition(t, rec[t], target), pc[t] # "validate"
  PROVE  /\ target \in ALLOWED_TRANSITIONS(op.status)
         /\ op'.status = target /\ op'.version = op.version
         /\ op'.deadline = rec[t].deadline /\ op'.deadline <= deadlines
         /\ op' = [rec[t] EXCEPT !.status = target]
         /\ rec[t].status = op.status /\ rec[t].version = op.version
<1>1. rec[t] \in Row /\ rec[t].deadline <= deadlines
  BY Types DEF OfferInv, TaskOK
<1> QED
  BY <1>1 DEF Transition, CanMove, CasHolds, ExpectedVersion, Row

LEMMA NoDrafter ==
  ASSUME OfferInv, op.status # "resolving_entities"
  PROVE  \A u \in Tasks : ~Drafting(u)
  BY DEF OfferInv, TaskOK, DraftHeld

\* A task that goes on with the record it has written.
LEMMA WriterOK ==
  ASSUME IInv, OfferInv, KeyStands, NEW t \in Tasks, rec'[t] = op',
         op'.version \in Nat, op'.deadline <= deadlines, ~Drafting(t)',
         pc'[t] \notin {"putKey", "offer", "resolve"},
         pc'[t] = "dropKey" => op'.status \in Past
  PROVE  TaskOK(t)'
<1>1. \/ op'.status \in {"waiting_risk_review", "manual_review", "validating",
                         "risk_approved", "pending_confirmation"}
         /\ Stage(op'.status) >= Stage(rec'[t].status)
      \/ op'.status \notin Vetting \cup {"pending_confirmation"}
  BY Stages DEF Vetting
<1>2. op'.status = "need_more_information" => Stage(op'.status) >= 6
  BY Stages
<1>3. Behind(t)' /\ DraftHeld(t)'
  BY <1>1, <1>2 DEF Behind, DraftHeld
<1>4. SameDeadline(t)' /\ Offering(t)'
  BY DEF SameDeadline, Offering
<1> QED
  BY <1>3, <1>4 DEF TaskOK, KeyStands

\* Nothing depends on a deadline any more.
LEMMA PastOffer ==
  ASSUME IInv, OfferInv, KeyStands, NEW t \in Tasks, Stand(t), TaskOK(t)',
         ~Drafting(t)', \A u \in Tasks \ {t} : ~Drafting(u),
         op'.version = op.version, op'.deadline <= deadlines,
         op'.status \in Past
  PROVE  OfferInv'
<1>1. /\ op'.status \notin Vetting /\ Stage(op'.status) = 7
      /\ op'.status \notin {"pending_confirmation", "resolving_entities",
                            "need_more_information", NotCreated, "draft"}
  BY Stages DEF Past, TERMINAL_STATUSES, Vetting, NotCreated
<1>2. \A u \in Tasks \ {t} : TaskOK(u)' /\ ~Drafting(u)'
  <2> SUFFICES ASSUME NEW u \in Tasks \ {t} PROVE TaskOK(u)' /\ ~Drafting(u)'
    OBVIOUS
  <2>1. TaskOK(u) /\ ~Drafting(u)
    BY DEF OfferInv
  <2>2. pc'[u] = pc[u] /\ job'[u] = job[u] /\ rec'[u] = rec[u]
    BY DEF Stand
  <2>3. ~Drafting(u)'
    BY <2>1, <2>2 DEF Drafting
  <2>4. DraftHeld(u)' /\ SameDeadline(u)'
    BY <1>1, <2>3 DEF DraftHeld, SameDeadline
  <2>5. Behind(u)'
    <3>1. 7 >= 6 /\ \A s : 7 >= Stage(s)
      BY Stages
    <3> QED
      BY <1>1, <2>1, <2>2, <2>3, <3>1 DEF TaskOK, Behind
  <2>6. Offering(u)'
    BY <1>1, <2>1, <2>2 DEF TaskOK, Offering, Vetting
  <2> QED
    BY <2>1, <2>2, <2>3, <2>4, <2>5, <2>6 DEF TaskOK, KeyStands
<1>3. \A u \in Tasks : ~Drafting(u)'
  BY <1>2
<1>4. OneDrafter' /\ FirstDraftOK' /\ KeyKept'
  BY <1>1, <1>3 DEF OneDrafter, FirstDraftOK, FirstDraft, KeyKept, KeyStands
<1> QED
  BY <1>2, <1>4 DEF OfferInv

\* The same version goes on towards an offer.
LEMMA VettingOffer ==
  ASSUME IInv, OfferInv, KeyStands, NEW t \in Tasks, Stand(t), TaskOK(t)',
         ~Drafting(t)',
         op'.version = op.version, op'.deadline = op.deadline,
         op.status \in Vetting, op'.status \in Vetting,
         Stage(op'.status) > Stage(op.status)
  PROVE  OfferInv'
<1>1. /\ \A s \in Vetting : /\ s \notin Past
                            /\ s \notin {"pending_confirmation", NotCreated,
                                         "draft", "resolving_entities",
                                         "need_more_information"}
                            /\ Stage(s) \in 1..4
      /\ Stage(op'.status) \in 0..7 /\ Stage(op.status) \in 0..7
  BY Stages DEF Past, TERMINAL_STATUSES, Vetting, NotCreated
<1>2. \A u \in Tasks : ~Drafting(u)
  BY <1>1, NoDrafter
<1>3. \A u \in Tasks \ {t} : TaskOK(u)' /\ ~Drafting(u)'
  <2> SUFFICES ASSUME NEW u \in Tasks \ {t} PROVE TaskOK(u)' /\ ~Drafting(u)'
    OBVIOUS
  <2>1. TaskOK(u) /\ ~Drafting(u)
    BY <1>2 DEF OfferInv
  <2>2. pc'[u] = pc[u] /\ job'[u] = job[u] /\ rec'[u] = rec[u]
    BY DEF Stand
  <2>3. ~Drafting(u)' /\ DraftHeld(u)'
    BY <2>1, <2>2 DEF Drafting, DraftHeld
  <2>4. SameDeadline(u)'
    BY <1>1, <2>1, <2>2 DEF TaskOK, SameDeadline
  <2>5. Behind(u)'
    <3>1. Stage(rec[u].status) \in 0..7
      BY Stages
    <3> QED
      BY <1>1, <2>1, <2>2, <2>3, <3>1 DEF TaskOK, Behind
  <2>6. Offering(u)'
    <3>1. ~(/\ pc[u] = "offer" /\ op'.status = "risk_approved"
            /\ rec[u].version = op.version)
      BY <1>1, <2>1, Stages DEF TaskOK, Offering, Behind, Vetting
    <3> QED
      BY <1>1, <2>1, <2>2, <3>1 DEF TaskOK, Offering
  <2> QED
    BY <2>1, <2>2, <2>3, <2>4, <2>5, <2>6 DEF TaskOK, KeyStands
<1>4. \A u \in Tasks : ~Drafting(u)'
  BY <1>3
<1>5. OneDrafter' /\ FirstDraftOK' /\ KeyKept'
  BY <1>1, <1>4 DEF OneDrafter, FirstDraftOK, FirstDraft, OfferInv, KeyKept,
                    KeyStands
<1> QED
  BY <1>3, <1>5 DEF OfferInv

\* A draft is taken up by one task.
LEMMA ReopenedOffer ==
  ASSUME IInv, OfferInv, KeyStands, NEW t \in Tasks, Stand(t), TaskOK(t)',
         op'.version = op.version, op'.deadline = op.deadline,
         op.status \notin {NotCreated, "resolving_entities"},
         op.status \notin Past, op'.status = "resolving_entities",
         rec'[t] = op', job'[t] # "create" \/ op.status = "draft"
  PROVE  OfferInv'
<1>1. \A u \in Tasks : ~Drafting(u)
  BY NoDrafter
<1>2. /\ Stage(op'.status) = 6 /\ op'.status \notin Vetting \cup Past
      /\ op'.status \notin {"pending_confirmation", "need_more_information",
                            "draft", NotCreated, "risk_approved"}
      /\ \A s \in Vetting \cup {"pending_confirmation"} : Stage(s) \in 1..5
      /\ Stage(op.status) >= 6 => op.status = "need_more_information"
  BY Stages DEF Past, TERMINAL_STATUSES, Vetting, NotCreated, Stage
<1>3. \A u \in Tasks \ {t} : TaskOK(u)' /\ ~Drafting(u)'
  <2> SUFFICES ASSUME NEW u \in Tasks \ {t} PROVE TaskOK(u)' /\ ~Drafting(u)'
    OBVIOUS
  <2>1. TaskOK(u) /\ ~Drafting(u)
    BY <1>1 DEF OfferInv
  <2>2. pc'[u] = pc[u] /\ job'[u] = job[u] /\ rec'[u] = rec[u]
    BY DEF Stand
  <2>3. ~Drafting(u)' /\ DraftHeld(u)'
    BY <2>1, <2>2 DEF Drafting, DraftHeld
  <2>4. Behind(u)'
    BY <1>2, <2>1, <2>2, <2>3 DEF TaskOK, Behind
  <2>5. SameDeadline(u)'
    BY <1>2, <2>1, <2>2 DEF TaskOK, SameDeadline, Behind
  <2>6. Offering(u)'
    BY <1>2, <2>1, <2>2 DEF TaskOK, Offering
  <2> QED
    BY <2>1, <2>2, <2>3, <2>4, <2>5, <2>6 DEF TaskOK, KeyStands
<1>4. OneDrafter'
  BY <1>3 DEF OneDrafter
<1>5. FirstDraftOK'
  <2>1. FirstDraft' => job'[t] = "create"
    BY <1>2, <1>3 DEF FirstDraft
  <2>2. op.status = "draft" => op'.deadline = 0 /\ \A u \in Tasks : Early(rec[u])
    BY DEF OfferInv, FirstDraftOK, FirstDraft
  <2>3. FirstDraft' => op'.deadline = 0 /\ \A u \in Tasks : Early(rec[u])'
    BY <2>1, <2>2 DEF Early, Stand
  <2> QED
    BY <1>2, <2>3 DEF FirstDraftOK
<1>6. KeyKept'
  BY <1>2 DEF OfferInv, KeyKept, KeyStands
<1> QED
  BY <1>3, <1>4, <1>5, <1>6 DEF OfferInv

\* The moves after which no offer follows.
LEMMA ClosesOffer ==
  ASSUME IInv, OfferInv, NEW t \in Tasks,
         \/ RejectParams(t) \/ DenyPermission(t) \/ CommitConfirm(t)
         \/ Expire(t) \/ Cancel(t) \/ StartExecution(t) \/ Settle(t)
         \/ TimeOutReview(t)
  PROVE  OfferInv'
<1>1. /\ KeyStands
      /\ pc[t] \in {"normalise", "permit", "commitConfirm", "expire", "cancel",
                    "execute", "settle", "timeOut"}
      /\ \/ Return(t)
         \/ /\ job' = job /\ Keep(t, rec[t], op'.status)
            /\ pc[t] # "normalise"
            /\ \/ Goto(t, "dropKey") /\ pc[t] \in {"commitConfirm", "expire", "cancel"}
               \/ \E l \in {"lock", "recordAttempt", "markTimeout"} : Goto(t, l)
  <2>1. CASE RejectParams(t) \/ DenyPermission(t)
    BY <2>1 DEF RejectParams, DenyPermission, KeyStands, redis, time
  <2>2. rec[t] \in Row
    BY Types
  <2>3. CASE CommitConfirm(t) \/ Expire(t) \/ Cancel(t)
    BY <2>2, <2>3 DEF CommitConfirm, Expire, Cancel, Transition, Row, KeyStands,
                      redis, time
  <2>4. CASE StartExecution(t) \/ Settle(t) \/ TimeOutReview(t)
    BY <2>2, <2>4 DEF StartExecution, Settle, TimeOutReview, Transition, Row,
                      KeyStands, redis, time
  <2> QED
    BY <2>1, <2>3, <2>4
<1>2. PICK target \in {"validation_failed", "permission_denied", "confirmed",
                       "expired", "cancelled", "executing", "succeeded",
                       "failed", "pending_verification", "none",
                       "risk_review_timeout"} :
        Transition(t, rec[t], target)
  <2>1. goal[t] \in {"none", "succeeded", "failed", "pending_verification"}
    BY DEF IInv, TypeOK
  <2> QED
    BY <2>1 DEF RejectParams, DenyPermission, CommitConfirm, Expire, Cancel,
                StartExecution, Settle, TimeOutReview
<1>3. /\ target \in ALLOWED_TRANSITIONS(op.status)
      /\ op'.status = target /\ op'.version = op.version
      /\ op'.deadline <= deadlines
      /\ op' = [rec[t] EXCEPT !.status = target]
      /\ rec[t].status = op.status
  BY <1>1, <1>2, Cas
<1>4. op'.status \in Past
  <2>1. target # "none"
    BY <1>3 DEF ALLOWED_TRANSITIONS
  <2> QED
    BY <1>2, <1>3, <2>1 DEF Past, TERMINAL_STATUSES
<1>5. \A u \in Tasks \ {t} : ~Drafting(u)
  <2>1. CASE pc[t] = "normalise"
    BY <2>1 DEF OfferInv, OneDrafter, Drafting
  <2>2. CASE pc[t] # "normalise"
    <3>1. target # "validation_failed"
      BY <1>2, <2>2 DEF Transition, RejectParams, DenyPermission, CommitConfirm,
             Expire, Cancel, StartExecution, Settle, TimeOutReview, IInv, TypeOK,
             Row
    <3>2. op.status # "resolving_entities"
      BY <1>2, <1>3, <3>1 DEF ALLOWED_TRANSITIONS
    <3> QED
      BY <3>2, NoDrafter
  <2> QED
    BY <2>1, <2>2
<1>6. op'.version \in Nat /\ deadlines' \in Nat
  BY <1>1, <1>3, Types DEF KeyStands
<1>7. Stand(t) /\ TaskOK(t)' /\ ~Drafting(t)'
  <2>1. CASE Return(t)
    BY <1>6, <2>1, DoneOK
  <2>2. CASE /\ job' = job /\ Keep(t, rec[t], op'.status) /\ pc[t] # "normalise"
             /\ \/ Goto(t, "dropKey") /\ pc[t] \in {"commitConfirm", "expire", "cancel"}
                \/ \E l \in {"lock", "recordAttempt", "markTimeout"} : Goto(t, l)
    <3>1. /\ Stand(t) /\ rec'[t] = op' /\ job'[t] = job[t]
          /\ pc'[t] \in {"dropKey", "lock", "recordAttempt", "markTimeout"}
          /\ pc'[t] = "dropKey" => pc[t] \in {"commitConfirm", "expire", "cancel"}
      BY <1>3, <2>2 DEF Keep, Goto, Stand, IInv, TypeOK
    <3>2. pc'[t] = "dropKey" => job[t] # "update"
      BY <3>1 DEF IInv, ControlOK, Control
    <3>3. ~Drafting(t)'
      BY <3>1, <3>2 DEF Drafting
    <3> QED
      BY <1>1, <1>3, <1>4, <1>6, <3>1, <3>3, WriterOK
  <2> QED
    BY <1>1, <2>1, <2>2
<1> QED
  BY <1>1, <1>3, <1>4, <1>5, <1>7, PastOffer

LEMMA PermitOffer ==
  ASSUME IInv, OfferInv, NEW t \in Tasks, Permit(t) PROVE OfferInv'
<1>1. /\ pc[t] = "permit" /\ Transition(t, rec[t], "waiting_risk_review")
      /\ Keep(t, rec[t], "waiting_risk_review") /\ Goto(t, "request")
      /\ KeyStands /\ job' = job
  BY DEF Permit, KeyStands, redis, time
<1>2. /\ "waiting_risk_review" \in ALLOWED_TRANSITIONS(op.status)
      /\ op'.status = "waiting_risk_review" /\ op'.version = op.version
      /\ op'.deadline = rec[t].deadline /\ op'.deadline <= deadlines
      /\ op' = [rec[t] EXCEPT !.status = "waiting_risk_review"]
      /\ rec[t].status = op.status /\ rec[t].version = op.version
  BY <1>1, Cas
<1>3. op.status = "validating"
  BY <1>2 DEF ALLOWED_TRANSITIONS
<1>4. op'.deadline = op.deadline
  BY <1>1, <1>2, <1>3 DEF OfferInv, TaskOK, SameDeadline, Vetting
<1>5. Stand(t) /\ rec'[t] = op' /\ pc'[t] = "request"
  BY <1>1, <1>2 DEF Keep, Goto, Stand, IInv, TypeOK
<1>6. ~Drafting(t)' /\ op'.version \in Nat
  BY <1>2, <1>5, Types DEF Drafting
<1>7. TaskOK(t)'
  BY <1>1, <1>2, <1>5, <1>6, WriterOK
<1>8. /\ {op.status, op'.status} \subseteq Vetting
      /\ Stage(op'.status) > Stage(op.status)
  BY <1>2, <1>3, Stages DEF Vetting
<1> QED
  BY <1>1, <1>2, <1>4, <1>5, <1>6, <1>7, <1>8, VettingOffer

LEMMA ApplyOffer ==
  ASSUME IInv, OfferInv, NEW t \in Tasks,
         ApplyRiskResult(t) \/ ApplyManualResult(t)
  PROVE  OfferInv'
<1> DEFINE target == RiskTarget(ev[t].decision)
<1>1. /\ pc[t] \in {"applyRisk", "applyManual"} /\ Transition(t, rec[t], target)
      /\ Keep(t, rec[t], target) /\ KeyStands /\ job' = job
      /\ \E l \in {"completeReview", "markEvent"} : Goto(t, l)
  BY DEF ApplyRiskResult, ApplyManualResult, KeyStands, redis, time
<1>2. target \in {"risk_approved", "risk_rejected", "manual_review"}
  BY DEF RiskTarget
<1> HIDE DEF target
<1>3. /\ target \in ALLOWED_TRANSITIONS(op.status)
      /\ op'.status = target /\ op'.version = op.version
      /\ op'.deadline = rec[t].deadline /\ op'.deadline <= deadlines
      /\ op' = [rec[t] EXCEPT !.status = target]
      /\ rec[t].status = op.status /\ rec[t].version = op.version
  BY <1>1, Cas
<1>4. rec[t].status \in {"waiting_risk_review", "manual_review"}
  BY <1>1 DEF IInv, ControlOK, Control
<1>5. op'.deadline = op.deadline
  BY <1>1, <1>3, <1>4 DEF OfferInv, TaskOK, SameDeadline, Vetting
<1>6. /\ Stand(t) /\ rec'[t] = op'
      /\ pc'[t] \in {"completeReview", "markEvent"}
  BY <1>1, <1>3 DEF Keep, Goto, Stand, IInv, TypeOK
<1>7. ~Drafting(t)' /\ op'.version \in Nat
  BY <1>3, <1>6, Types DEF Drafting
<1>8. TaskOK(t)'
  BY <1>1, <1>3, <1>6, <1>7, WriterOK
<1>9. CASE target = "risk_rejected"
  <2>1. \A u \in Tasks : ~Drafting(u)
    BY <1>3, <1>4, NoDrafter
  <2>2. op'.status \in Past
    BY <1>3, <1>9 DEF Past, TERMINAL_STATUSES
  <2> QED
    BY <1>1, <1>3, <1>6, <1>7, <1>8, <2>1, <2>2, PastOffer
<1>10. CASE target \in {"risk_approved", "manual_review"}
  <2>1. op.status = "manual_review" => target = "risk_approved"
    BY <1>3, <1>10 DEF ALLOWED_TRANSITIONS
  <2>2. /\ op.status \in Vetting /\ op'.status \in Vetting
        /\ Stage(op'.status) > Stage(op.status)
    BY <1>3, <1>4, <1>10, <2>1, Stages DEF Vetting
  <2> QED
    BY <1>1, <1>3, <1>5, <1>6, <1>7, <1>8, <2>2, VettingOffer
<1> QED
  BY <1>2, <1>9, <1>10

LEMMA ReopenOffer ==
  ASSUME IInv, OfferInv, NEW t \in Tasks, ResolveEntities(t) \/ Reopen(t)
  PROVE  OfferInv'
<1>1. /\ pc[t] \in {"resolve", "reopen"}
      /\ Transition(t, rec[t], "resolving_entities")
      /\ Keep(t, rec[t], "resolving_entities") /\ KeyStands /\ job' = job
      /\ \/ pc[t] = "resolve" /\ Goto(t, "normalise")
         \/ /\ pc[t] = "reopen"
            /\ \E l \in {"supersede", "dropKey"} : Goto(t, l)
  BY DEF ResolveEntities, Reopen, KeyStands, redis, time
<1>2. /\ "resolving_entities" \in ALLOWED_TRANSITIONS(op.status)
      /\ op'.status = "resolving_entities" /\ op'.version = op.version
      /\ op'.deadline = rec[t].deadline /\ op'.deadline <= deadlines
      /\ op' = [rec[t] EXCEPT !.status = "resolving_entities"]
      /\ rec[t].status = op.status /\ rec[t].version = op.version
  BY <1>1, Cas
<1>3. op.status \in {"draft", "need_more_information", "waiting_risk_review",
                     "risk_approved", "pending_confirmation"}
  BY <1>2 DEF ALLOWED_TRANSITIONS
<1>4. /\ pc[t] = "resolve" => job[t] = "create"
      /\ pc[t] = "reopen" => job[t] = "update"
  BY DEF IInv, ControlOK, Control
<1>5. op'.deadline = op.deadline
  <2>1. CASE op.status = "draft"
    BY <1>2, <2>1 DEF OfferInv, FirstDraftOK, FirstDraft, Early
  <2>2. CASE op.status # "draft"
    BY <1>1, <1>2, <1>3, <2>2 DEF OfferInv, TaskOK, SameDeadline, Vetting
  <2> QED
    BY <2>1, <2>2
<1>6. /\ Stand(t) /\ rec'[t] = op' /\ job'[t] = job[t]
      /\ \/ pc[t] = "resolve" /\ pc'[t] = "normalise"
         \/ pc[t] = "reopen" /\ pc'[t] \in {"supersede", "dropKey"}
  BY <1>1, <1>2 DEF Keep, Goto, Stand, IInv, TypeOK
<1>7. TaskOK(t)'
  <2>1. Drafting(t)'
    BY <1>4, <1>6 DEF Drafting
  <2>2. DraftHeld(t)'
    BY <1>2, <1>4, <1>6 DEF DraftHeld, ExpectedVersion
  <2>3. Behind(t)' /\ SameDeadline(t)' /\ Offering(t)'
    BY <1>2, <1>4, <1>6, <2>1 DEF Behind, SameDeadline, Offering, Vetting
  <2> QED
    BY <1>1, <1>2, <1>6, <2>2, <2>3 DEF TaskOK, KeyStands
<1>8. op.status \notin Past \cup {NotCreated, "resolving_entities"}
  BY <1>3 DEF Past, TERMINAL_STATUSES, NotCreated
<1>9. job'[t] # "create" \/ op.status = "draft"
  <2>1. CASE pc[t] = "reopen"
    BY <1>4, <1>6, <2>1
  <2>2. CASE pc[t] = "resolve"
    BY <1>2, <2>2 DEF OfferInv, TaskOK, Offering
  <2> QED
    BY <1>1, <2>1, <2>2
<1> QED
  BY <1>1, <1>2, <1>5, <1>6, <1>7, <1>8, <1>9, ReopenedOffer

LEMMA AskForMoreOffer ==
  ASSUME IInv, OfferInv, NEW t \in Tasks, AskForMore(t) PROVE OfferInv'
<1>1. /\ pc[t] = "normalise" /\ Return(t) /\ KeyStands
      /\ \E p : Transition(t, [rec[t] EXCEPT !.params = p],
                           "need_more_information")
  BY DEF AskForMore, KeyStands, redis, time
<1>2. /\ Drafting(t) /\ DraftHeld(t) /\ TaskOK(t)
      /\ \A u \in Tasks \ {t} : ~Drafting(u)
  BY <1>1 DEF Drafting, OfferInv, TaskOK, OneDrafter
<1>3. /\ op.status = "resolving_entities" /\ op'.status = "need_more_information"
      /\ op'.version = op.version /\ op'.deadline = op.deadline
  BY <1>1, <1>2, Types DEF DraftHeld, Transition, CasHolds, ExpectedVersion, Row
<1>4. Stand(t) /\ ~Drafting(t)' /\ TaskOK(t)'
  <2>1. op'.version \in Nat /\ deadlines' \in Nat
    BY <1>1, <1>3, Types DEF KeyStands
  <2> QED
    BY <1>1, <2>1, DoneOK
<1>5. /\ Stage(op'.status) = 6 /\ Stage(op.status) = 6
      /\ op'.status \notin Vetting \cup Past
      /\ op.status \notin Past
  BY <1>3, Stages DEF Past, TERMINAL_STATUSES, Vetting
<1>6. \A u \in Tasks \ {t} : TaskOK(u)' /\ ~Drafting(u)'
  <2> SUFFICES ASSUME NEW u \in Tasks \ {t} PROVE TaskOK(u)' /\ ~Drafting(u)'
    OBVIOUS
  <2>1. TaskOK(u) /\ ~Drafting(u)
    BY <1>2 DEF OfferInv
  <2>2. pc'[u] = pc[u] /\ job'[u] = job[u] /\ rec'[u] = rec[u]
    BY <1>4 DEF Stand
  <2>3. ~Drafting(u)' /\ DraftHeld(u)'
    BY <2>1, <2>2 DEF Drafting, DraftHeld
  <2>4. Behind(u)'
    BY <1>3, <1>5, <2>1, <2>2, <2>3 DEF TaskOK, Behind
  <2>5. SameDeadline(u)'
    BY <1>3, <1>5, <2>1, <2>2 DEF TaskOK, SameDeadline
  <2>6. Offering(u)'
    BY <1>3, <1>5, <2>1, <2>2 DEF TaskOK, Offering
  <2> QED
    BY <1>1, <2>1, <2>2, <2>3, <2>4, <2>5, <2>6 DEF TaskOK, KeyStands
<1>7. \A u \in Tasks : ~Drafting(u)'
  BY <1>4, <1>6
<1>8. OneDrafter' /\ FirstDraftOK' /\ KeyKept'
  BY <1>1, <1>3, <1>7 DEF OneDrafter, FirstDraftOK, FirstDraft, OfferInv,
                          KeyKept, KeyStands, NotCreated
<1> QED
  BY <1>4, <1>6, <1>8 DEF OfferInv

\* The first version is validated before there is any other record of it, a
\* later one gets a number no record has.
LEMMA ValidateOffer ==
  ASSUME IInv, OfferInv, NEW t \in Tasks, Validate(t) PROVE OfferInv'
<1>1. /\ pc[t] = "validate" /\ Transition(t, rec[t], "validating") /\ job' = job
      /\ Keep(t, rec[t], "validating") /\ Goto(t, "permit") /\ KeyStands
  BY DEF Validate, KeyStands, redis, time
<1>2. /\ Drafting(t) /\ DraftHeld(t) /\ TaskOK(t)
      /\ \A u \in Tasks \ {t} : ~Drafting(u)
  BY <1>1 DEF Drafting, OfferInv, TaskOK, OneDrafter
<1>3. /\ op.status = "resolving_entities" /\ op'.status = "validating"
      /\ op'.deadline = op.deadline /\ op'.deadline <= deadlines
      /\ op' = [rec[t] EXCEPT !.status = "validating"]
      /\ op'.version = rec[t].version /\ op'.version \in Nat
  BY <1>1, <1>2, Types DEF DraftHeld, Transition, Row, TaskOK
<1>4. \/ job[t] = "update" /\ op'.version = op.version + 1
      \/ job[t] = "create" /\ op'.version = op.version
  BY <1>1, <1>2, <1>3, Types DEF DraftHeld, ExpectedVersion
<1>5. Stand(t) /\ rec'[t] = op' /\ pc'[t] = "permit"
  BY <1>1, <1>3 DEF Keep, Goto, Stand, IInv, TypeOK
<1>6. ~Drafting(t)' /\ TaskOK(t)'
  <2>1. ~Drafting(t)'
    BY <1>5 DEF Drafting
  <2> QED
    BY <1>1, <1>3, <1>5, <2>1, WriterOK
<1>7. /\ op.status \notin Past /\ op'.status \notin Past
  BY <1>3 DEF Past, TERMINAL_STATUSES
<1>8. \A u \in Tasks \ {t} : TaskOK(u)' /\ ~Drafting(u)'
  <2> SUFFICES ASSUME NEW u \in Tasks \ {t} PROVE TaskOK(u)' /\ ~Drafting(u)'
    OBVIOUS
  <2>1. TaskOK(u) /\ ~Drafting(u)
    BY <1>2 DEF OfferInv
  <2>2. pc'[u] = pc[u] /\ job'[u] = job[u] /\ rec'[u] = rec[u]
    BY <1>5 DEF Stand
  <2>3. ~Drafting(u)' /\ DraftHeld(u)'
    BY <2>1, <2>2 DEF Drafting, DraftHeld
  <2>4. rec[u].version <= op.version
    BY <2>1 DEF TaskOK, Behind
  <2>5. rec[u].version = op'.version =>
          rec[u].status \in {NotCreated, "resolving_entities", "draft"}
    <3>1. CASE job[t] = "update"
      BY <1>4, <2>4, <3>1, Types
    <3>2. CASE job[t] = "create"
      BY <1>2, <1>3, <3>2 DEF OfferInv, FirstDraftOK, FirstDraft, Early
    <3> QED
      BY <1>4, <3>1, <3>2
  <2>6. rec[u].version <= op'.version
    BY <1>4, <2>4, Types
  <2>7. Behind(u)' /\ SameDeadline(u)'
    BY <1>3, <1>7, <2>1, <2>2, <2>5, <2>6
       DEF TaskOK, Behind, SameDeadline, Vetting, NotCreated
  <2>8. Offering(u)'
    BY <1>3, <1>7, <2>1, <2>2 DEF TaskOK, Offering
  <2> QED
    BY <1>1, <2>1, <2>2, <2>3, <2>7, <2>8 DEF TaskOK, KeyStands
<1>9. \A u \in Tasks : ~Drafting(u)'
  BY <1>6, <1>8
<1>10. OneDrafter' /\ FirstDraftOK' /\ KeyKept'
  BY <1>1, <1>3, <1>9 DEF OneDrafter, FirstDraftOK, FirstDraft, OfferInv,
                          KeyKept, KeyStands, NotCreated
<1> QED
  BY <1>6, <1>8, <1>10 DEF OfferInv

\* The offer opens with a deadline the key has.
LEMMA OfferOffer ==
  ASSUME IInv, OfferInv, NEW t \in Tasks, OfferConfirmation(t) PROVE OfferInv'
<1>1. /\ pc[t] = "offer" /\ Transition(t, rec[t], "pending_confirmation")
      /\ Return(t) /\ KeyStands
  BY DEF OfferConfirmation, KeyStands, redis, time
<1>2. /\ "pending_confirmation" \in ALLOWED_TRANSITIONS(op.status)
      /\ op'.status = "pending_confirmation" /\ op'.version = op.version
      /\ op'.deadline = rec[t].deadline /\ op'.deadline <= deadlines
      /\ rec[t].status = op.status /\ rec[t].version = op.version
  BY <1>1, Cas
<1>3. op.status = "risk_approved"
  BY <1>2 DEF ALLOWED_TRANSITIONS
<1>4. /\ op.deadline \in {0, op'.deadline}
      /\ op'.deadline > deadlinesNear => confKey.deadline >= op'.deadline
  BY <1>1, <1>2, <1>3 DEF OfferInv, TaskOK, Offering
<1>5. Stand(t) /\ ~Drafting(t)' /\ TaskOK(t)'
  <2>1. op'.version \in Nat /\ deadlines' \in Nat
    BY <1>1, <1>2, Types DEF KeyStands
  <2> QED
    BY <1>1, <2>1, DoneOK
<1>6. /\ Stage(op'.status) = 5 /\ Stage(op.status) = 4
      /\ op'.status \notin Vetting \cup Past /\ op.status \notin Past
      /\ \A s \in Vetting : Stage(s) \in 1..4
  BY <1>2, <1>3, Stages DEF Past, TERMINAL_STATUSES, Vetting
<1>7. \A u \in Tasks : ~Drafting(u)
  BY <1>3, NoDrafter
<1>8. \A u \in Tasks \ {t} : TaskOK(u)' /\ ~Drafting(u)'
  <2> SUFFICES ASSUME NEW u \in Tasks \ {t} PROVE TaskOK(u)' /\ ~Drafting(u)'
    OBVIOUS
  <2>1. TaskOK(u) /\ ~Drafting(u)
    BY <1>7 DEF OfferInv
  <2>2. pc'[u] = pc[u] /\ job'[u] = job[u] /\ rec'[u] = rec[u]
    BY <1>5 DEF Stand
  <2>3. ~Drafting(u)' /\ DraftHeld(u)'
    BY <2>1, <2>2 DEF Drafting, DraftHeld
  <2>4. rec[u].version = op.version =>
          rec[u].status \notin {"pending_confirmation", "need_more_information"}
    BY <1>6, <2>1, Stages DEF TaskOK, Behind
  <2>5. Behind(u)'
    BY <1>2, <1>6, <2>1, <2>2, <2>3, <2>4 DEF TaskOK, Behind
  <2>6. SameDeadline(u)'
    BY <1>2, <1>4, <1>6, <2>1, <2>2, <2>4 DEF TaskOK, SameDeadline
  <2>7. Offering(u)'
    BY <1>2, <1>6, <2>1, <2>2 DEF TaskOK, Offering
  <2> QED
    BY <1>1, <2>1, <2>2, <2>3, <2>5, <2>6, <2>7 DEF TaskOK, KeyStands
<1>9. \A u \in Tasks : ~Drafting(u)'
  BY <1>5, <1>8
<1>10. OneDrafter' /\ FirstDraftOK' /\ KeyKept'
  BY <1>1, <1>2, <1>4, <1>9 DEF OneDrafter, FirstDraftOK, FirstDraft, KeyKept,
                                KeyStands, NotCreated
<1> QED
  BY <1>5, <1>8, <1>10 DEF OfferInv

LEMMA CreateOffer ==
  ASSUME IInv, OfferInv, NEW t \in Tasks, Create(t) PROVE OfferInv'
<1>1. /\ op.status = NotCreated /\ KeyStands
      /\ rec' = [rec EXCEPT ![t] = op'] /\ Goto(t, "resolve")
      /\ \E k : job' = [job EXCEPT ![t] = k]
  BY DEF Create, Accept, KeyStands, redis, time
<1>2. op'.status = "draft" /\ op'.version = 1 /\ op'.deadline = 0
  BY DEF Create, NoRow
<1>3. op.version = 0 /\ op.deadline = 0 /\ \A u \in Tasks : Early(rec[u])
  BY <1>1 DEF OfferInv, FirstDraftOK, FirstDraft
<1>4. Stand(t) /\ rec'[t] = op' /\ pc'[t] = "resolve"
  BY <1>1 DEF Stand, Goto, IInv, TypeOK
<1>5. \A u \in Tasks : ~Drafting(u)
  BY <1>1, NoDrafter DEF NotCreated
<1>6. \A u \in Tasks : ~Drafting(u)'
  BY <1>4, <1>5 DEF Drafting, Stand
<1>7. \A u \in Tasks : /\ rec'[u].status \in {NotCreated, "draft"}
                       /\ rec'[u].deadline = 0 /\ rec'[u].version <= 1
  <2>1. \A u \in Tasks \ {t} :
          rec[u].version <= op.version /\ rec'[u] = rec[u]
    BY <1>4, <1>5 DEF OfferInv, TaskOK, Behind, Stand
  <2> QED
    BY <1>1, <1>2, <1>3, <1>4, <2>1, Types DEF Early
<1>8. \A u \in Tasks : TaskOK(u)'
  <2> SUFFICES ASSUME NEW u \in Tasks PROVE TaskOK(u)'
    OBVIOUS
  <2>1. DraftHeld(u)' /\ Behind(u)' /\ SameDeadline(u)'
    BY <1>2, <1>6, <1>7 DEF DraftHeld, Behind, SameDeadline, Vetting, NotCreated
  <2>2. Offering(u)'
    <3>1. CASE u = t
      BY <1>2, <1>4, <3>1 DEF Offering
    <3>2. CASE u # t
      BY <1>1, <1>2, <1>4, <3>2
         DEF OfferInv, TaskOK, Offering, Stand, Past, TERMINAL_STATUSES, NotCreated
    <3> QED
      BY <3>1, <3>2
  <2> QED
    BY <1>1, <1>7, <2>1, <2>2, Types DEF TaskOK, KeyStands
<1>9. OneDrafter' /\ FirstDraftOK' /\ KeyKept'
  BY <1>1, <1>2, <1>6, <1>7, Types
     DEF OneDrafter, FirstDraftOK, FirstDraft, Early, KeyKept, KeyStands, NotCreated
<1> QED
  BY <1>8, <1>9 DEF OfferInv

-----------------------------------------------------------------------------
LEMMA OfferInvInit == Init => OfferInv
<1> SUFFICES ASSUME Init PROVE OfferInv
  OBVIOUS
<1>1. \A t \in Tasks : pc[t] = "idle" /\ rec[t] = NoRow /\ ~Drafting(t)
  BY DEF Init, Drafting
<1>2. \A t \in Tasks : TaskOK(t)
  BY <1>1 DEF Init, TaskOK, DraftHeld, Behind, SameDeadline, Offering, NoRow,
              NotCreated, Vetting
<1>3. OneDrafter /\ FirstDraftOK /\ KeyKept
  BY <1>1 DEF Init, OneDrafter, FirstDraftOK, Early, KeyKept, NoRow, NotCreated
<1> QED
  BY <1>2, <1>3 DEF OfferInv

LEMMA OfferInvStep ==
  ASSUME IInv, OfferInv, NEW t \in Tasks,
         Arrival(t) \/ Step(t) \/ Abort(t) \/ MonitorStep(t)
  PROVE  OfferInv'
<1>1. CASE Arrival(t)
  BY <1>1, CreateOffer, ArrivalsOffer DEF Arrival
<1>2. CASE Step(t)
  BY <1>2, ReopenOffer, ClosesOffer, AskForMoreOffer, AddVersionOffer,
     ValidateOffer, PermitOffer, EndsOffer, SupersedeOffer, DropKeyOffer,
     ApplyOffer, AsidesOffer, PutKeyOffer, OfferOffer DEF Step
<1>3. CASE Abort(t)
  BY <1>3, EndsOffer
<1>4. CASE MonitorStep(t)
  BY <1>4, ScansOffer, ClosesOffer, EndsOffer DEF MonitorStep
<1> QED
  BY <1>1, <1>2, <1>3, <1>4

LEMMA OfferInvNext == IInv /\ OfferInv /\ [Next]_vars => OfferInv'
<1> SUFFICES ASSUME IInv, OfferInv, [Next]_vars PROVE OfferInv'
  OBVIOUS
<1>1. Handlers \subseteq Tasks /\ Monitors \subseteq Tasks
  BY DEF Tasks
<1>2. CASE Tick \/ UNCHANGED vars
  BY <1>2, TickOffer
<1>3. CASE Next /\ ~Tick
  BY <1>1, <1>3, OfferInvStep DEF Next
<1> QED
  BY <1>2, <1>3

\* Whatever handlers and maintenance loops put, read and delete at the same
\* time, and whichever coroutine stops between two of its calls, a customer who
\* confirms an open offer before its last two seconds finds its key
\* (_continue_risk_approved, update_parameters, confirm, cancel).
THEOREM OfferHasKey == Spec => []OpenOfferHasKey
<1>1. IInv /\ OfferInv => OpenOfferHasKey
  <2> SUFFICES ASSUME IInv, OfferInv PROVE OpenOfferHasKey
    OBVIOUS
  <2>1. NoKey.deadline = 0
    BY DEF NoKey
  <2> QED
    BY <2>1, Types DEF OfferInv, KeyKept, OpenOfferHasKey
<1>2. IInv /\ OfferInv /\ [Next]_vars => OfferInv'
  BY OfferInvNext
<1>3. Init => OfferInv
  BY OfferInvInit
<1> QED
  BY <1>1, <1>2, <1>3, Invariance, PTL DEF Spec

-----------------------------------------------------------------------------
(* When a failure that is reported may not be one.                         *)

\* Task t has called the tool for a failure, and not told the row yet.
Failing(t) ==
  pc[t] = "recordFailure" \/ (pc[t] = "settle" /\ goal[t] = "failed")

\* Task t has taken the operation over to execute it.
Executing(t) == pc[t] \in {"lock", "call"} \/ Failing(t)

\* Task t serves a request and does not execute what another has taken over.
Serves(t) == job[t] \in RequestKinds \cup {"none"}

\* Who executes is alone, and a failure it is about to report stays one.
AloneInv ==
  /\ \A t \in Tasks : Serves(t)
  /\ \A t \in Tasks : Executing(t) => rec[t].status \in Dispatched
  /\ \A t, u \in Tasks : Executing(t) /\ Executing(u) => t = u
  /\ \A t \in Tasks : Failing(t) => execution.status # "succeeded"
  /\ op.status = "failed" =>
       execution.status # "succeeded" /\ \A t \in Tasks : ~Executing(t)

\* A step of task t after which it does not execute.
StandsBy(t) == OthersKept(t) /\ Serves(t)' /\ ~Executing(t)'

LEMMA AloneFrame ==
  ASSUME AloneInv, NEW t \in Tasks, StandsBy(t), execution' = execution,
         op'.status = "failed" => op.status = "failed"
  PROVE  AloneInv'
<1>1. \A u \in Tasks : /\ Serves(u)'
                       /\ Executing(u)' => Executing(u) /\ u # t
                       /\ Failing(u)' => Failing(u)
                       /\ Executing(u)' => rec'[u] = rec[u]
  BY DEF StandsBy, OthersKept, AloneInv, Serves, Executing, Failing
<1> QED
  BY <1>1 DEF AloneInv

Waits == Labels \ {"lock", "call", "recordFailure", "settle"}

LEMMA LeavesStandingBy ==
  ASSUME IInv, NEW t \in Tasks, t \notin Monitors, Return(t) \/ Raise(t)
  PROVE  StandsBy(t)
<1>1. OthersKept(t) /\ pc'[t] = "idle"
  BY ReturnKeeps
<1>2. job'[t] = "none"
  BY DEF Return, Raise, Leave, IInv, TypeOK
<1> QED
  BY <1>1, <1>2 DEF StandsBy, Serves, Executing, Failing

LEMMA GoesStandingBy ==
  ASSUME IInv, NEW t \in Tasks, NEW l \in Waits, Goto(t, l), goal' = goal,
         (Serves(t) /\ job' = job) \/ (\E k \in Traffic : Accept(t, k)),
         \A u \in Tasks \ {t} : rec'[u] = rec[u] /\ ev'[u] = ev[u]
  PROVE  StandsBy(t)
<1>1. pc'[t] = l /\ \A u \in Tasks \ {t} : pc'[u] = pc[u]
  BY DEF IInv, TypeOK, Goto
<1>2. Serves(t)' /\ \A u \in Tasks \ {t} : job'[u] = job[u]
  BY ConstantsAssumption DEF IInv, TypeOK, Accept, Serves
<1> QED
  BY <1>1, <1>2 DEF StandsBy, OthersKept, Executing, Failing, Waits

LEMMA ArrivalsStandBy ==
  ASSUME IInv, NEW t \in Tasks, Arrival(t) PROVE StandsBy(t)
<1>1. {"resolve", "reopen", "applyRisk", "applyManual", "readKey", "cancel",
       "query"} \subseteq Waits
  BY DEF Waits, Labels, CasPoints
<1>2. /\ goal' = goal /\ (\E k \in Traffic : Accept(t, k))
      /\ \E l \in Waits : Goto(t, l)
      /\ \A u \in Tasks \ {t} : rec'[u] = rec[u] /\ ev'[u] = ev[u]
  <2>1. CASE Create(t)
    <3>1. /\ goal' = goal /\ ev' = ev /\ Goto(t, "resolve")
          /\ \E k \in Traffic : Accept(t, k)
      BY <2>1 DEF Create, Accept
    <3>2. \A u \in Tasks \ {t} : rec'[u] = rec[u]
      BY <2>1 DEF Create, IInv, TypeOK
    <3> QED
      BY <1>1, <3>1, <3>2
  <2>2. CASE ReceiveRiskResult(t) \/ ReceiveManualResult(t)
    <3>1. /\ goal' = goal /\ Load(t) /\ (\E k \in Traffic : Accept(t, k))
          /\ Goto(t, "applyRisk") \/ Goto(t, "applyManual")
          /\ \E e : ev' = [ev EXCEPT ![t] = e]
      BY <2>2 DEF ReceiveRiskResult, ReceiveManualResult, Accept
    <3>2. \A u \in Tasks \ {t} : rec'[u] = rec[u] /\ ev'[u] = ev[u]
      BY <3>1 DEF Load, IInv, TypeOK
    <3> QED
      BY <1>1, <3>1, <3>2
  <2>3. CASE \/ StartUpdate(t) \/ StartConfirm(t) \/ StartCancel(t)
             \/ StartReconcile(t)
    <3>1. /\ goal' = goal /\ ev' = ev /\ Load(t)
          /\ \E k \in Traffic : Accept(t, k)
          /\ \E l \in {"reopen", "readKey", "cancel", "query"} : Goto(t, l)
      BY <2>3 DEF StartUpdate, StartConfirm, StartCancel, StartReconcile, Accept
    <3>2. \A u \in Tasks \ {t} : rec'[u] = rec[u]
      BY <3>1 DEF Load, IInv, TypeOK
    <3> QED
      BY <1>1, <3>1, <3>2
  <2> QED
    BY <2>1, <2>2, <2>3 DEF Arrival
<1> QED
  BY <1>2, GoesStandingBy

\* The steps of a handler that neither call the tool nor have its outcome.
Otherwise(t) ==
  \/ ResolveEntities(t) \/ RejectParams(t) \/ AskForMore(t) \/ AddVersion(t)
  \/ Validate(t) \/ DenyPermission(t) \/ Permit(t) \/ RequestReview(t)
  \/ Reopen(t) \/ SupersedeReview(t) \/ DropKey(t)
  \/ ApplyRiskResult(t) \/ CompleteReview(t) \/ ApplyManualResult(t)
  \/ MarkEvent(t) \/ PutKey(t) \/ PutKeyFails(t) \/ OfferConfirmation(t)
  \/ ReadKey(t) \/ AddConfirmation(t) \/ CommitConfirm(t) \/ Expire(t)
  \/ Cancel(t) \/ RecordAttempt(t) \/ ConcurrentModification(t)

LEMMA OthersStandBy ==
  ASSUME IInv, NEW t \in Tasks, t \notin Monitors, Serves(t), Otherwise(t)
  PROVE  StandsBy(t)
<1>1. (\E r, s : Keep(t, r, s)) \/ (\E r : rec' = [rec EXCEPT ![t] = r])
        \/ (\E d : rec' = [rec EXCEPT ![t].deadline = d]) =>
        \A u \in Tasks \ {t} : rec'[u] = rec[u]
  BY DEF Keep, IInv, TypeOK
<1>2. {"normalise", "validate", "permit", "request", "supersede", "dropKey",
       "execute", "completeReview", "markEvent", "putKey", "offer", "expire",
       "addConfirmation", "commitConfirm"} \subseteq Waits
  BY DEF Waits, Labels, CasPoints
<1>3. \/ Return(t) \/ Raise(t)
      \/ /\ \E l \in Waits : Goto(t, l)
         /\ job' = job /\ goal' = goal
         /\ \A u \in Tasks \ {t} : rec'[u] = rec[u] /\ ev'[u] = ev[u]
  <2>1. CASE \/ ResolveEntities(t) \/ RejectParams(t) \/ AskForMore(t)
             \/ AddVersion(t) \/ Validate(t) \/ DenyPermission(t) \/ Permit(t)
    BY <1>1, <1>2, <2>1
       DEF ResolveEntities, RejectParams, AskForMore, AddVersion, Validate,
           DenyPermission, Permit
  <2>2. CASE \/ RequestReview(t) \/ Reopen(t) \/ SupersedeReview(t)
             \/ DropKey(t) \/ CompleteReview(t)
    BY <1>1, <1>2, <2>2
       DEF RequestReview, Reopen, SupersedeReview, DropKey, CompleteReview
  <2>3. CASE ApplyRiskResult(t) \/ ApplyManualResult(t) \/ MarkEvent(t)
    <3>1. \A e : ev' = [ev EXCEPT ![t] = e] =>
            \A u \in Tasks \ {t} : ev'[u] = ev[u]
      BY DEF IInv, TypeOK
    <3>2. AfterApproval(rec[t]) \in Waits
      BY <1>2 DEF AfterApproval
    <3> QED
      BY <1>1, <1>2, <2>3, <3>1, <3>2
         DEF ApplyRiskResult, ApplyManualResult, MarkEvent
  <2>4. CASE \/ PutKey(t) \/ PutKeyFails(t) \/ OfferConfirmation(t)
             \/ ReadKey(t) \/ AddConfirmation(t) \/ CommitConfirm(t)
    BY <1>1, <1>2, <2>4
       DEF PutKey, PutKeyFails, OfferConfirmation, ReadKey, AddConfirmation,
           CommitConfirm
  <2>5. CASE \/ Expire(t) \/ Cancel(t) \/ RecordAttempt(t)
             \/ ConcurrentModification(t)
    BY <1>1, <1>2, <2>5 DEF Expire, Cancel, RecordAttempt, ConcurrentModification
  <2> QED
    BY <2>1, <2>2, <2>3, <2>4, <2>5 DEF Otherwise
<1> QED
  BY <1>3, LeavesStandingBy, GoesStandingBy

\* Of these steps none makes the row a failed one.
LEMMA OthersDoNotFail ==
  ASSUME IInv, NEW t \in Tasks, Arrival(t) \/ Otherwise(t)
  PROVE  /\ op'.status = "failed" => op.status = "failed"
         /\ execution' = execution /\ faults' = faults
<1>1. execution' = execution /\ faults' = faults
  <2>1. CASE Arrival(t)
    <3>1. Create(t) => UNCHANGED <<tables, faults>>
      BY DEF Create
    <3>2. ~Create(t) => UNCHANGED <<tables, faults>>
      BY <2>1 DEF Arrival, StartUpdate, ReceiveRiskResult, ReceiveManualResult,
                  StartConfirm, StartCancel, StartReconcile
    <3> QED
      BY <3>1, <3>2 DEF tables
  <2>2. CASE Otherwise(t)
    BY <2>2 DEF Otherwise, ResolveEntities, RejectParams, AskForMore,
       AddVersion, Validate, DenyPermission, Permit, RequestReview, Reopen,
       SupersedeReview, DropKey, ApplyRiskResult, CompleteReview,
       ApplyManualResult, MarkEvent, PutKey, PutKeyFails, OfferConfirmation,
       ReadKey, AddConfirmation, CommitConfirm, Expire, Cancel, RecordAttempt,
       ConcurrentModification, SetReview, tables
  <2> QED
    BY <2>1, <2>2
<1>2. Unseen \/ ReadKey(t) => op' = op
  BY DEF Unseen, ReadKey
<1>3. op \in Row /\ rec[t] \in Row
  BY DEF IInv, TypeOK
<1>4. CASE Create(t)
  BY <1>1, <1>4, ConstantsAssumption DEF Create, NoRow
<1>5. CASE RequestReview(t)
  BY <1>1, <1>3, <1>5 DEF RequestReview, Row
<1>6. CASE AskForMore(t)
  <2>1. PICK p \in Merged(t) :
          Transition(t, [rec[t] EXCEPT !.params = p], "need_more_information")
    BY <1>6 DEF AskForMore
  <2> DEFINE r == [rec[t] EXCEPT !.params = p]
  <2>2. "status" \in DOMAIN r
    BY <1>3 DEF Row
  <2>3. op' = [r EXCEPT !.status = "need_more_information"]
    BY <2>1 DEF Transition
  <2> HIDE DEF r
  <2> QED
    BY <1>1, <2>2, <2>3
<1>7. CASE \/ ResolveEntities(t) \/ RejectParams(t) \/ Validate(t)
           \/ DenyPermission(t) \/ Permit(t) \/ Reopen(t)
           \/ ApplyRiskResult(t) \/ ApplyManualResult(t)
           \/ OfferConfirmation(t) \/ CommitConfirm(t) \/ Expire(t)
           \/ Cancel(t)
  <2>1. \E target \in OperationStatuses \ {"failed"} :
          op' = [rec[t] EXCEPT !.status = target]
    BY <1>7 DEF ResolveEntities, RejectParams, Validate, DenyPermission, Permit,
       Reopen, ApplyRiskResult, ApplyManualResult, RiskTarget,
       OfferConfirmation, CommitConfirm, Expire, Cancel, Transition,
       OperationStatuses, TERMINAL_STATUSES
  <2> QED
    BY <1>1, <1>3, <2>1 DEF Row
<1> QED
  BY <1>1, <1>2, <1>4, <1>5, <1>6, <1>7, HandlersUnseen, OthersUnseen
     DEF Arrival, Otherwise

LEMMA OthersAlone ==
  ASSUME IInv, AloneInv, NEW t \in Tasks, t \notin Monitors,
         Arrival(t) \/ Otherwise(t)
  PROVE  AloneInv'
<1>1. Serves(t)
  BY DEF AloneInv
<1>2. StandsBy(t)
  BY <1>1, ArrivalsStandBy, OthersStandBy
<1> QED
  BY <1>1, <1>2, OthersDoNotFail, AloneFrame

\* Before the row is EXECUTING no record is dispatched, and no task executes.
LEMMA StartAlone ==
  ASSUME IInv, AloneInv, NEW t \in Tasks, StartExecution(t) PROVE AloneInv'
<1>1. /\ Transition(t, rec[t], "executing") /\ Keep(t, rec[t], "executing")
      /\ Goto(t, "lock") /\ UNCHANGED <<execution, job, goal>>
  BY DEF StartExecution
<1>2. /\ op.status \in {"risk_approved", "confirmed"}
      /\ op'.status = "executing"
  BY <1>1, MoveTargets DEF Transition, CasHolds, IInv, TypeOK, Row
<1>3. \A u \in Tasks : ~Executing(u)
  BY <1>2 DEF AloneInv, IInv, Agreement, SameSubject, Dispatched
<1>4. /\ pc'[t] = "lock" /\ rec'[t].status = "executing"
      /\ \A u \in Tasks \ {t} : pc'[u] = pc[u] /\ rec'[u] = rec[u]
  BY <1>1 DEF Goto, Keep, IInv, TypeOK, Row
<1>5. \A u \in Tasks : ~Failing(u)' /\ (Executing(u)' => u = t)
  BY <1>1, <1>3, <1>4 DEF Executing, Failing
<1>6. \A u \in Tasks : Serves(u)'
  BY <1>1 DEF AloneInv, Serves
<1> QED
  BY <1>2, <1>4, <1>5, <1>6 DEF AloneInv, Dispatched

\* Who executes is alone with what it does to the execution and finds out.
LEMMA ToolAlone ==
  ASSUME IInv, AloneInv, NEW t \in Tasks, Executing(t), OthersKept(t),
         job'[t] = job[t], rec'[t] = rec[t], op' = op,
         Failing(t)' => execution'.status # "succeeded"
  PROVE  AloneInv'
<1>1. op.status # "failed" /\ \A u \in Tasks : Executing(u)' => u = t
  BY DEF AloneInv, OthersKept, Executing, Failing
<1>2. \A u \in Tasks : Failing(u)' => u = t
  BY <1>1 DEF Executing
<1>3. \A u \in Tasks : Serves(u)'
  BY DEF AloneInv, Serves, OthersKept
<1>4. rec'[t].status \in Dispatched
  BY DEF AloneInv
<1> QED
  BY <1>1, <1>2, <1>3, <1>4 DEF AloneInv

LEMMA CallAlone ==
  ASSUME IInv, AloneInv, NEW t \in Tasks, faults' = faults,
         \/ AcquireLock(t) \/ ToolFindsExecution(t) \/ ToolCommits(t)
         \/ ToolRefuses(t) \/ RecordFailure(t)
  PROVE  AloneInv'
<1>1. /\ Executing(t)
      /\ UNCHANGED <<op, job, rec, ev>>
  BY DEF AcquireLock, ToolFindsExecution, ToolCommits, ToolRefuses,
         RecordFailure, Outcome, Executing, Failing
<1>2. OthersKept(t)
  BY <1>1 DEF AcquireLock, ToolFindsExecution, ToolCommits, ToolRefuses,
              RecordFailure, Outcome, Goto, OthersKept, IInv, TypeOK
<1>3. faults \in Nat
  BY ConstantsAssumption DEF IInv, TypeOK
<1>4. Failing(t)' => execution'.status # "succeeded"
  <2>1. CASE ToolFindsExecution(t)
    <3>1. PICK target \in ExistingOutcomes(execution.status) :
            pc'[t] = "settle" /\ goal'[t] = target /\ execution' = execution
      BY <2>1 DEF ToolFindsExecution, Outcome, Goto, IInv, TypeOK
    <3> QED
      BY <3>1 DEF ExistingOutcomes, Failing
  <2>2. CASE ToolCommits(t)
    <3>1. PICK target \in {"succeeded", "pending_verification"} :
            Outcome(t, target)
      BY <1>3, <2>2 DEF ToolCommits
    <3>2. pc'[t] = "settle" /\ goal'[t] # "failed"
      BY <3>1 DEF Outcome, Goto, IInv, TypeOK
    <3> QED
      BY <3>2 DEF Failing
  <2>3. CASE ToolRefuses(t)
    BY <2>3 DEF ToolRefuses, tables, NoExecution
  <2>4. CASE RecordFailure(t)
    <3>1. execution.status # "succeeded"
      BY <2>4 DEF RecordFailure, AloneInv, Failing
    <3> QED
      BY <2>4, <3>1 DEF RecordFailure
  <2>5. CASE AcquireLock(t)
    <3>1. pc'[t] = "call"
      BY <2>5 DEF AcquireLock, Goto, IInv, TypeOK
    <3> QED
      BY <3>1 DEF Failing
  <2> QED
    BY <2>1, <2>2, <2>3, <2>4, <2>5
<1> QED
  BY <1>1, <1>2, <1>4, ToolAlone

\* The outcome is told by the one who has it.
LEMMA SettleAlone ==
  ASSUME IInv, AloneInv, NEW t \in Tasks, t \notin Monitors, Settle(t)
  PROVE  AloneInv'
<1>1. /\ pc[t] = "settle" /\ Transition(t, rec[t], goal[t])
      /\ execution' = execution
  BY DEF Settle, tables
<1>2. StandsBy(t)
  <2>1. CASE Return(t)
    BY <2>1, LeavesStandingBy
  <2>2. CASE ~Return(t)
    <3>1. /\ Keep(t, rec[t], goal[t]) /\ Goto(t, "recordAttempt")
          /\ UNCHANGED <<job, ev, goal>> /\ "recordAttempt" \in Waits
      BY <2>2 DEF Settle, Waits, Labels
    <3>2. Serves(t) /\ \A u \in Tasks \ {t} : rec'[u] = rec[u] /\ ev'[u] = ev[u]
      BY <3>1 DEF Keep, IInv, TypeOK, AloneInv
    <3> QED
      BY <3>1, <3>2, GoesStandingBy
  <2> QED
    BY <2>1, <2>2
<1>3. CASE goal[t] = "failed"
  <2>1. Executing(t) /\ Failing(t)
    BY <1>1, <1>3 DEF Executing, Failing
  <2>2. \A u \in Tasks : Serves(u)' /\ ~Executing(u)' /\ ~Failing(u)'
    BY <1>2, <2>1 DEF StandsBy, OthersKept, AloneInv, Serves, Executing, Failing
  <2> QED
    BY <1>1, <2>1, <2>2 DEF AloneInv
<1>4. CASE goal[t] # "failed"
  <2>1. op'.status = goal[t]
    BY <1>1 DEF Transition, IInv, TypeOK, Row
  <2> QED
    BY <1>1, <1>2, <1>4, <2>1, AloneFrame
<1> QED
  BY <1>3, <1>4

\* Without the loop a query never ends in a call.
LEMMA QueryAlone ==
  ASSUME IInv, AloneInv, NEW t \in Tasks, t \notin Monitors, QueryExecution(t)
  PROVE  AloneInv'
<1>1. UNCHANGED <<op, execution>> /\ job[t] # "reconcileAll"
  BY DEF QueryExecution, tables, AloneInv, Serves, RequestKinds
<1>2. StandsBy(t)
  <2>1. CASE Return(t)
    BY <2>1, LeavesStandingBy
  <2>2. CASE ~Return(t)
    <3>1. /\ goal' = [goal EXCEPT ![t] = "succeeded"] /\ Goto(t, "settle")
          /\ UNCHANGED <<job, rec, ev>>
      BY <1>1, <2>2 DEF QueryExecution
    <3>2. /\ pc'[t] = "settle" /\ goal'[t] = "succeeded" /\ OthersKept(t)
      BY <3>1 DEF Goto, OthersKept, IInv, TypeOK
    <3> QED
      BY <3>1, <3>2 DEF StandsBy, Serves, AloneInv, Executing, Failing
  <2> QED
    BY <2>1, <2>2
<1> QED
  BY <1>1, <1>2, AloneFrame

-----------------------------------------------------------------------------
Undisturbed == Monitors = {} /\ faults = 0

LEMMA AloneStep ==
  ASSUME IInv, Undisturbed => AloneInv, NEW t \in Tasks,
         Arrival(t) \/ Step(t) \/ Abort(t), Undisturbed'
  PROVE  AloneInv'
<1>1. t \notin Monitors /\ faults \in Nat /\ faults' = 0
  BY ConstantsAssumption DEF Undisturbed, IInv, TypeOK
<1>2. ~Abort(t) /\ ~ToolBreaks(t)
  BY <1>1 DEF Abort, ToolBreaks
<1>3. faults' = faults
  <2>1. CASE Arrival(t) \/ Otherwise(t)
    BY <2>1, OthersDoNotFail
  <2>2. CASE ~(Arrival(t) \/ Otherwise(t))
    BY <1>1, <1>2, <2>2
       DEF Step, Otherwise, StartExecution, AcquireLock, ToolFindsExecution,
           ToolCommits, ToolRefuses, RecordFailure, Settle, QueryExecution
  <2> QED
    BY <2>1, <2>2
<1>4. AloneInv
  BY <1>3 DEF Undisturbed
<1> QED
  BY <1>1, <1>2, <1>3, <1>4, OthersAlone, StartAlone, CallAlone, SettleAlone,
     QueryAlone DEF Step, Otherwise

LEMMA AloneNext ==
  IInv /\ (Undisturbed => AloneInv) /\ [Next]_vars => (Undisturbed => AloneInv)'
<1> SUFFICES ASSUME IInv, Undisturbed => AloneInv, [Next]_vars, Undisturbed'
             PROVE  AloneInv'
  OBVIOUS
<1>1. CASE Tick \/ UNCHANGED vars
  <2>1. UNCHANGED <<op, execution, faults, job, pc, rec, goal>>
    BY <1>1 DEF vars, Tick, ReviewLapses, DeadlineNears, DeadlineLapses,
                KeyExpires, tables, local
  <2> QED
    BY <2>1 DEF Undisturbed, AloneInv, Serves, Executing, Failing
<1>2. CASE Next /\ ~Tick
  BY <1>2, AloneStep DEF Next, Undisturbed, Tasks
<1> QED
  BY <1>1, <1>2

\* An operation that is reported as failed though money or shares have moved has
\* met a fault or the maintenance loop: the compare-and-set to EXECUTING lets one
\* handler through, whatever becomes of the lock that follows it, and only
\* reconcile_pending_operations executes an operation it has not taken over
\* (_execute, reconcile_pending_operations).
THEOREM FalseFailureHasCause ==
  Spec => [](op.status = "failed" /\ execution.status = "succeeded" =>
               faults > 0 \/ Monitors # {})
<1>1. Init => (Undisturbed => AloneInv)
  <2> SUFFICES ASSUME Init, Undisturbed PROVE AloneInv
    OBVIOUS
  <2> QED
    BY DEF Init, Undisturbed, AloneInv, Serves, Executing, Failing, NoRow,
           NotCreated
<1>2. IInv /\ (Undisturbed => AloneInv) =>
        (op.status = "failed" /\ execution.status = "succeeded" =>
           faults > 0 \/ Monitors # {})
  BY ConstantsAssumption DEF Undisturbed, AloneInv, IInv, TypeOK
<1>3. IInv /\ (Undisturbed => AloneInv) /\ [Next]_vars =>
        (Undisturbed => AloneInv)'
  BY AloneNext
<1> QED
  BY <1>1, <1>2, <1>3, Invariance, PTL DEF Spec
=============================================================================
