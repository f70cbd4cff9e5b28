------------------------ MODULE OperationServiceProofs ------------------------
(***************************************************************************)
(* Proofs about OperationService for every number of handlers, monitors,   *)
(* parameters and versions.                                                *)
(*                                                                         *)
(* The compare-and-set writes the whole record a task carries, which may   *)
(* be stale.  The invariant therefore speaks of every record, the row's    *)
(* and the tasks' alike: whatever a record claims by its status is backed  *)
(* by tables that only grow.  A write of any of them is then harmless      *)
(* before the operation is dispatched; from then on all records of that    *)
(* stage agree with the row (Agreement), which is where the comparison is  *)
(* needed.                                                                 *)
(*                                                                         *)
(* The second part proves that every step is one of OperationLifecycle or  *)
(* invisible to it, the third what a step may do to the row itself.        *)
(***************************************************************************)
EXTENDS OperationService, SequenceTheorems, TLAPS

\* What a record claims is backed by the tables and by what was decided.
Backed(r) ==
  /\ r.status # NotCreated => r.version \in Versions /\ r.params \in Params
  /\ r.status \in Versioned =>
       /\ r.hash = r.params
       /\ r.needConf = (r.params \in LargeParams)
       /\ versionRows[r.version] = r.params
       /\ r.riskReq # 0 => /\ r.riskReq \in 1..Len(reviews)
                           /\ reviews[r.riskReq].version = r.version
  /\ r.status \in Approved => <<r.version, r.params>> \in approvals
  /\ r.status \in Dispatched \cup {"confirmed"} /\ r.params \in LargeParams =>
       /\ <<r.version, r.params>> \in consents
       /\ <<r.version, r.params>> \in confirmations

RecordsBacked == Backed(op) /\ \A t \in Tasks : Backed(rec[t])

\* A review shows the risk agent the parameters stored for its version.
ReviewsBacked ==
  /\ op.status = NotCreated => reviews = <<>>
  /\ \A i \in 1..Len(reviews) :
       reviews[i].params = versionRows[reviews[i].version]

\* The event task t handles answers a review of the version its record carries.
Answered(t) ==
  /\ ev[t] \in Event
  /\ ev[t].req \in 1..Len(reviews)
  /\ reviews[ev[t].req].version = rec[t].version

\* What a task knows of its record at the call it makes next.
Control(t) ==
  /\ pc[t] = "require" => op.status # NotCreated
  /\ pc[t] \notin {"idle", "require"} => rec[t].status # NotCreated
  /\ pc[t] = "resolve" => job[t] = "create"
  /\ pc[t] \in {"reopen", "supersede"} => job[t] = "update"
  /\ pc[t] \in {"readKey", "addConfirmation", "commitConfirm"} => job[t] = "confirm"
  /\ pc[t] = "cancel" => job[t] = "cancel"
  /\ pc[t] = "expire" => job[t] \in {"confirm", "expireConf"}
  /\ pc[t] \in {"reopen", "supersede", "dropKey", "normalise"} /\ job[t] = "update" =>
       rec[t].version < MaxVersion
  /\ pc[t] \in {"supersede", "normalise"} => rec[t].status = "resolving_entities"
  /\ pc[t] = "dropKey" /\ job[t] = "update" =>
       rec[t].status = "resolving_entities"
  /\ pc[t] = "validate" =>
       /\ rec[t].hash = rec[t].params
       /\ rec[t].needConf = (rec[t].params \in LargeParams)
       /\ versionRows[rec[t].version] = rec[t].params
       /\ rec[t].riskReq = 0
  /\ pc[t] = "request" => rec[t].status = "waiting_risk_review"
  /\ pc[t] = "applyRisk" => rec[t].status = "waiting_risk_review" /\ Answered(t)
  /\ pc[t] = "applyManual" => rec[t].status = "manual_review" /\ Answered(t)
  /\ pc[t] \in {"completeReview", "markEvent"} => ev[t] \in Event
  /\ pc[t] = "execute" /\ rec[t].status = "risk_approved" => ~rec[t].needConf
  /\ pc[t] \in {"readKey", "addConfirmation", "commitConfirm"} =>
       rec[t].status = "pending_confirmation"
  /\ pc[t] \in {"addConfirmation", "commitConfirm"} =>
       <<rec[t].version, rec[t].hash>> \in consents
  /\ pc[t] = "commitConfirm" => <<rec[t].version, rec[t].hash>> \in confirmations
  /\ pc[t] = "dropKey" /\ job[t] = "confirm" => rec[t].status = "confirmed"
  /\ pc[t] \in {"lock", "call", "recordFailure", "recordAttempt"} =>
       rec[t].status \in Dispatched
  /\ pc[t] = "settle" /\ goal[t] = "succeeded" => execution.status = "succeeded"

ControlOK == \A t \in Tasks : Control(t)

\* Two records of the dispatched operation carry the same parameters.
SameSubject(r, s) ==
  /\ s.status \in Dispatched /\ r.version = s.version /\ r.params = s.params

Agreement ==
  /\ \A t \in Tasks : rec[t].status \in Dispatched => SameSubject(rec[t], op)
  /\ execution.status # "none" => SameSubject(execution, op)

IInv ==
  /\ TypeOK /\ RecordsBacked /\ ReviewsBacked /\ ControlOK /\ Agreement
  /\ OneVersionExecutes /\ SucceededHasEffect

-----------------------------------------------------------------------------
(* The frame of a step of task t: what the other tasks carry stays, and the *)
(* tables that back their records only grow.                               *)

LocalTypes ==
  /\ job \in [Tasks -> Jobs]
  /\ pc \in [Tasks -> Labels]
  /\ rec \in [Tasks -> Row]
  /\ ev \in [Tasks -> Event \cup {NoEvent}]
  /\ goal \in [Tasks -> {"none", "succeeded", "failed", "pending_verification"}]

OthersKept(t) ==
  \A u \in Tasks \ {t} :
    /\ job'[u] = job[u] /\ pc'[u] = pc[u] /\ rec'[u] = rec[u]
    /\ ev'[u] = ev[u] /\ goal'[u] = goal[u]

Grows ==
  /\ op.status # NotCreated => op'.status # NotCreated
  /\ \A v \in Versions :
       versionRows[v] # NoParams => versionRows'[v] = versionRows[v]
  /\ Len(reviews) <= Len(reviews')
  /\ \A i \in 1..Len(reviews) : reviews'[i].version = reviews[i].version
  /\ approvals \subseteq approvals'
  /\ consents \subseteq consents'
  /\ confirmations \subseteq confirmations'
  /\ execution.status = "succeeded" => execution'.status = "succeeded"

\* What Backed says of a record that stays, after the step.
StaysBacked(r) ==
  /\ r.status # NotCreated => r.version \in Versions /\ r.params \in Params
  /\ r.status \in Versioned =>
       /\ r.hash = r.params
       /\ r.needConf = (r.params \in LargeParams)
       /\ versionRows'[r.version] = r.params
       /\ r.riskReq # 0 => /\ r.riskReq \in 1..Len(reviews')
                           /\ reviews'[r.riskReq].version = r.version
  /\ r.status \in Approved => <<r.version, r.params>> \in approvals'
  /\ r.status \in Dispatched \cup {"confirmed"} /\ r.params \in LargeParams =>
       /\ <<r.version, r.params>> \in consents'
       /\ <<r.version, r.params>> \in confirmations'

LEMMA RecordKept ==
  ASSUME TypeOK, Grows, NEW r, Backed(r) PROVE StaysBacked(r)
<1>1. Len(reviews) \in Nat
  BY LenProperties DEF TypeOK
<1>2. NoParams \notin Params
  BY ConstantsAssumption
<1>3. r.status \in Versioned => r.status # NotCreated
  BY DEF Versioned, NotCreated
<1>4. r.status \in Versioned => versionRows'[r.version] = r.params
  BY <1>2, <1>3 DEF Backed, Grows
<1>5. r.status \in Versioned /\ r.riskReq # 0 =>
        /\ r.riskReq \in 1..Len(reviews') /\ reviews'[r.riskReq].version = r.version
  BY <1>1 DEF Backed, Grows
<1> QED
  BY <1>4, <1>5 DEF Backed, StaysBacked, Grows

LEMMA OthersBacked ==
  ASSUME IInv, Grows, NEW t \in Tasks, OthersKept(t)
  PROVE  \A u \in Tasks \ {t} : Backed(rec[u])'
<1> SUFFICES ASSUME NEW u \in Tasks \ {t} PROVE Backed(rec[u])'
  OBVIOUS
<1>1. rec'[u] = rec[u]
  BY DEF OthersKept
<1>2. Backed(rec[u]) /\ TypeOK
  BY DEF IInv, RecordsBacked
<1>3. StaysBacked(rec[u])
  BY <1>2, RecordKept
<1> QED
  BY <1>1, <1>3 DEF Backed, StaysBacked

LEMMA OthersControl ==
  ASSUME IInv, Grows, NEW t \in Tasks, OthersKept(t)
  PROVE  \A u \in Tasks \ {t} : Control(u)'
<1> SUFFICES ASSUME NEW u \in Tasks \ {t} PROVE Control(u)'
  OBVIOUS
<1>1. /\ job'[u] = job[u] /\ pc'[u] = pc[u] /\ rec'[u] = rec[u]
      /\ ev'[u] = ev[u] /\ goal'[u] = goal[u]
  BY DEF OthersKept
<1>2. Control(u) /\ TypeOK /\ Backed(rec[u])
  BY DEF IInv, ControlOK, RecordsBacked
<1>3. Answered(u) => Answered(u)'
  <2>1. Len(reviews) \in Nat
    BY <1>2, LenProperties DEF TypeOK
  <2> QED
    BY <1>1, <2>1 DEF Answered, Grows
<1>4. pc[u] = "validate" => versionRows'[rec[u].version] = rec[u].params
  <2>1. pc[u] = "validate" =>
          rec[u].params # NoParams /\ rec[u].version \in Versions
    BY <1>2, ConstantsAssumption DEF Backed, Control
  <2> QED
    BY <1>2, <2>1 DEF Grows, Control
<1> QED
  BY <1>1, <1>2, <1>3, <1>4 DEF Control, Grows

LEMMA Frame ==
  ASSUME IInv, TypeOK', Grows, NEW t \in Tasks, OthersKept(t),
         Backed(op)', Backed(rec[t])', ReviewsBacked', Control(t)',
         Agreement', OneVersionExecutes', SucceededHasEffect'
  PROVE  IInv'
BY OthersBacked, OthersControl DEF IInv, RecordsBacked, ControlOK

-----------------------------------------------------------------------------
(* What the helpers of the control flow do to the locals.                   *)

LEMMA GotoKeeps ==
  ASSUME TypeOK, NEW t \in Tasks, NEW l \in Labels, Goto(t, l)
  PROVE  /\ pc' \in [Tasks -> Labels] /\ pc'[t] = l
         /\ \A u \in Tasks \ {t} : pc'[u] = pc[u]
BY DEF Goto, TypeOK

LEMMA LeaveKeeps ==
  ASSUME IInv, NEW t \in Tasks, NEW n \in Jobs, Leave(t, n)
  PROVE  /\ LocalTypes' /\ OthersKept(t)
         /\ pc'[t] = "idle" /\ rec'[t] = NoRow
         /\ Backed(rec[t])' /\ Control(t)'
<1>1. TypeOK
  BY DEF IInv
<1>2. NoRow \in Row /\ NoEvent \in {NoEvent}
  BY ConstantsAssumption DEF NoRow, Row
<1>3. "none" \in Jobs /\ "idle" \in Labels
  BY DEF Jobs, Labels
<1>4. LocalTypes'
  BY <1>1, <1>2, <1>3 DEF TypeOK, LocalTypes, Leave
<1>5. OthersKept(t)
  BY <1>1 DEF TypeOK, OthersKept, Leave
<1>6. pc'[t] = "idle" /\ rec'[t] = NoRow
  BY <1>1 DEF TypeOK, Leave
<1>7. Backed(rec[t])'
  BY <1>6 DEF Backed, NoRow, NotCreated, Versioned, Approved, Dispatched
<1>8. Control(t)'
  BY <1>6 DEF Control
<1> QED
  BY <1>4, <1>5, <1>6, <1>7, <1>8

LEMMA JobTypes ==
  ASSUME NEW s \in Jobs
  PROVE  NextStep(s) \in Jobs /\ StepAfterError(s) \in Jobs
BY DEF NextStep, StepAfterError, Jobs, MonitorSteps

LEMMA ReturnKeeps ==
  ASSUME IInv, NEW t \in Tasks, Return(t) \/ Raise(t)
  PROVE  /\ LocalTypes' /\ OthersKept(t)
         /\ pc'[t] = "idle" /\ rec'[t] = NoRow
         /\ Backed(rec[t])' /\ Control(t)'
<1>1. job[t] \in Jobs
  BY DEF IInv, TypeOK
<1> QED
  BY <1>1, JobTypes, LeaveKeeps DEF Return, Raise

\* A step that leaves MySQL alone.  The record of its task is dropped, is read
\* anew or differs from what it was in the deadline only.
SameClaims(r, s) ==
  /\ r.status = s.status /\ r.version = s.version /\ r.params = s.params
  /\ r.hash = s.hash /\ r.needConf = s.needConf /\ r.riskReq = s.riskReq

StoresKept ==
  /\ UNCHANGED <<op, versionRows, reviews, confirmations, attempts, execution>>
  /\ approvals' = approvals /\ consents \subseteq consents'

LEMMA StoresKeptFrame ==
  ASSUME IInv, StoresKept, TypeOK', NEW t \in Tasks, OthersKept(t), Control(t)',
         \/ rec'[t] = NoRow
         \/ SameClaims(rec'[t], op)
         \/ SameClaims(rec'[t], rec[t])
  PROVE  IInv'
<1>1. Grows
  <2>1. Len(reviews) \in Nat
    BY LenProperties DEF IInv, TypeOK
  <2> QED
    BY <2>1 DEF StoresKept, Grows
<1>2. Backed(op)'
  BY DEF IInv, RecordsBacked, Backed, StoresKept
<1>3. Backed(rec[t])'
  <2>1. CASE rec'[t] = NoRow
    BY <2>1 DEF Backed, NoRow, NotCreated, Versioned, Approved, Dispatched
  <2>2. CASE SameClaims(rec'[t], op)
    BY <2>2 DEF IInv, RecordsBacked, Backed, StoresKept, SameClaims
  <2>3. CASE SameClaims(rec'[t], rec[t])
    BY <2>3 DEF IInv, RecordsBacked, Backed, StoresKept, SameClaims
  <2> QED
    BY <2>1, <2>2, <2>3
<1>4. ReviewsBacked' /\ OneVersionExecutes' /\ SucceededHasEffect'
  BY DEF IInv, ReviewsBacked, OneVersionExecutes, SucceededHasEffect, StoresKept
<1>5. Agreement'
  <2>1. \A u \in Tasks \ {t} :
          rec'[u].status \in Dispatched => SameSubject(rec'[u], op')
    BY DEF IInv, Agreement, OthersKept, StoresKept
  <2>2. rec'[t].status \in Dispatched => SameSubject(rec'[t], op')
    BY DEF IInv, Agreement, StoresKept, SameClaims, SameSubject, NoRow,
           NotCreated, Dispatched
  <2> QED
    BY <2>1, <2>2 DEF IInv, Agreement, StoresKept
<1> QED
  BY <1>1, <1>2, <1>3, <1>4, <1>5, Frame

\* A step that touches nothing but locals and, perhaps, the count of faults.
LEMMA LocalFrame ==
  ASSUME IInv, UNCHANGED <<op, tables, redis, time, history>>,
         faults' \in 0..MaxFaults, LocalTypes', NEW t \in Tasks, OthersKept(t),
         Control(t)',
         \/ rec'[t] = NoRow
         \/ SameClaims(rec'[t], op)
         \/ SameClaims(rec'[t], rec[t])
  PROVE  IInv'
<1>1. TypeOK'
  BY DEF IInv, TypeOK, LocalTypes, tables, redis, time, history
<1>2. StoresKept
  BY DEF StoresKept, tables, history
<1> QED
  BY <1>1, <1>2, StoresKeptFrame

LEMMA LeavingStep ==
  ASSUME IInv, UNCHANGED <<op, tables, redis, time, history>>,
         faults' \in 0..MaxFaults, NEW t \in Tasks, Return(t) \/ Raise(t)
  PROVE  IInv'
BY ReturnKeeps, LocalFrame

-----------------------------------------------------------------------------
(* Requests arrive.                                                         *)

\* What all arrivals that read the row have in common.
LEMMA LoadKeeps ==
  ASSUME IInv, NEW t \in Tasks, NEW k \in Traffic, NEW l \in Labels,
         Accept(t, k), Load(t), Goto(t, l), goal' = goal,
         ev' \in [Tasks -> Event \cup {NoEvent}],
         \A u \in Tasks \ {t} : ev'[u] = ev[u]
  PROVE  /\ LocalTypes' /\ OthersKept(t)
         /\ pc'[t] = l /\ job'[t] = k /\ rec'[t] = op
<1>1. TypeOK /\ Traffic \subseteq Jobs
  BY ConstantsAssumption DEF IInv, Jobs
<1> QED
  BY <1>1, GotoKeeps DEF TypeOK, LocalTypes, OthersKept, Accept, Load

LEMMA StepStartUpdate ==
  ASSUME IInv, NEW t \in Tasks, StartUpdate(t) PROVE IInv'
<1>1. "reopen" \in Labels /\ "update" \in Traffic
  BY DEF Labels, CasPoints, StartUpdate, Accept
<1>2. /\ LocalTypes' /\ OthersKept(t)
      /\ pc'[t] = "reopen" /\ job'[t] = "update" /\ rec'[t] = op
  BY <1>1, LoadKeeps DEF StartUpdate, IInv, TypeOK
<1>3. Control(t)'
  BY <1>2 DEF Control, StartUpdate, Editable, NotCreated
<1> QED
  BY <1>2, <1>3, LocalFrame DEF StartUpdate, SameClaims, IInv, TypeOK

LEMMA StepStartConfirm ==
  ASSUME IInv, NEW t \in Tasks, StartConfirm(t) PROVE IInv'
<1>1. "readKey" \in Labels /\ "confirm" \in Traffic
  BY DEF Labels, StartConfirm, Accept
<1>2. /\ LocalTypes' /\ OthersKept(t)
      /\ pc'[t] = "readKey" /\ job'[t] = "confirm" /\ rec'[t] = op
  BY <1>1, LoadKeeps DEF StartConfirm, IInv, TypeOK
<1>3. Control(t)'
  BY <1>2 DEF Control, StartConfirm, NotCreated
<1> QED
  BY <1>2, <1>3, LocalFrame DEF StartConfirm, SameClaims, IInv, TypeOK

LEMMA StepStartCancel ==
  ASSUME IInv, NEW t \in Tasks, StartCancel(t) PROVE IInv'
<1>1. "cancel" \in Labels /\ "cancel" \in Traffic
  BY DEF Labels, CasPoints, StartCancel, Accept
<1>2. /\ LocalTypes' /\ OthersKept(t)
      /\ pc'[t] = "cancel" /\ job'[t] = "cancel" /\ rec'[t] = op
  BY <1>1, LoadKeeps DEF StartCancel, IInv, TypeOK
<1>3. op.status # NotCreated
  BY DEF StartCancel, CanMove, ALLOWED_TRANSITIONS, NotCreated
<1>4. Control(t)'
  BY <1>2, <1>3 DEF Control, StartCancel
<1> QED
  BY <1>2, <1>4, LocalFrame DEF StartCancel, SameClaims, IInv, TypeOK

LEMMA StepStartReconcile ==
  ASSUME IInv, NEW t \in Tasks, StartReconcile(t) PROVE IInv'
<1>1. "query" \in Labels /\ "reconcile" \in Traffic
  BY DEF Labels, StartReconcile, Accept
<1>2. /\ LocalTypes' /\ OthersKept(t)
      /\ pc'[t] = "query" /\ job'[t] = "reconcile" /\ rec'[t] = op
  BY <1>1, LoadKeeps DEF StartReconcile, IInv, TypeOK
<1>3. Control(t)'
  BY <1>2 DEF Control, StartReconcile, NotCreated
<1> QED
  BY <1>2, <1>3, LocalFrame DEF StartReconcile, SameClaims, IInv, TypeOK

\* A result that passes the checks answers a review of the version read.
LEMMA ResultChecked ==
  ASSUME IInv, NEW k \in {"check", "manual"}, NEW D \in SUBSET Decisions,
         NEW e \in Results(k, D), Answers(e, op)
  PROVE  /\ e \in Event /\ e.req \in 1..Len(reviews)
         /\ reviews[e.req].version = op.version
<1>1. Len(reviews) \in Nat
  BY LenProperties DEF IInv, TypeOK
<1> QED
  BY <1>1 DEF Results, Answers, Event

LEMMA StepReceiveRiskResult ==
  ASSUME IInv, NEW t \in Tasks, ReceiveRiskResult(t) PROVE IInv'
<1>1. "applyRisk" \in Labels /\ "riskResult" \in Traffic /\ TypeOK
  BY DEF Labels, CasPoints, ReceiveRiskResult, Accept, IInv
<1>2. PICK e \in Results("check", Decisions) :
        Answers(e, op) /\ ev' = [ev EXCEPT ![t] = e]
  BY DEF ReceiveRiskResult
<1>3. /\ e \in Event /\ e.req \in 1..Len(reviews)
      /\ reviews[e.req].version = op.version
  BY <1>2, ResultChecked
<1>4. /\ ev' \in [Tasks -> Event \cup {NoEvent}] /\ ev'[t] = e
      /\ \A u \in Tasks \ {t} : ev'[u] = ev[u]
  BY <1>1, <1>2, <1>3 DEF TypeOK
<1>5. /\ LocalTypes' /\ OthersKept(t)
      /\ pc'[t] = "applyRisk" /\ job'[t] = "riskResult" /\ rec'[t] = op
  BY <1>1, <1>4, LoadKeeps DEF ReceiveRiskResult
<1>6. Answered(t)'
  BY <1>3, <1>4, <1>5 DEF Answered, ReceiveRiskResult, tables
<1>7. Control(t)'
  BY <1>5, <1>6 DEF Control, ReceiveRiskResult, NotCreated
<1> QED
  BY <1>1, <1>5, <1>7, LocalFrame DEF ReceiveRiskResult, SameClaims, TypeOK

LEMMA StepReceiveManualResult ==
  ASSUME IInv, NEW t \in Tasks, ReceiveManualResult(t) PROVE IInv'
<1>1. "applyManual" \in Labels /\ "manualResult" \in Traffic /\ TypeOK
  BY DEF Labels, CasPoints, ReceiveManualResult, Accept, IInv
<1>2. PICK e \in Results("manual", {"approved", "rejected"}) :
        Answers(e, op) /\ ev' = [ev EXCEPT ![t] = e]
  BY DEF ReceiveManualResult
<1>3. /\ e \in Event /\ e.req \in 1..Len(reviews)
      /\ reviews[e.req].version = op.version
  <2>1. {"approved", "rejected"} \in SUBSET Decisions
    BY DEF Decisions
  <2> QED
    BY <1>2, <2>1, ResultChecked
<1>4. /\ ev' \in [Tasks -> Event \cup {NoEvent}] /\ ev'[t] = e
      /\ \A u \in Tasks \ {t} : ev'[u] = ev[u]
  BY <1>1, <1>2, <1>3 DEF TypeOK
<1>5. /\ LocalTypes' /\ OthersKept(t)
      /\ pc'[t] = "applyManual" /\ job'[t] = "manualResult" /\ rec'[t] = op
  BY <1>1, <1>4, LoadKeeps DEF ReceiveManualResult
<1>6. Answered(t)'
  BY <1>3, <1>4, <1>5 DEF Answered, ReceiveManualResult, tables
<1>7. Control(t)'
  BY <1>5, <1>6 DEF Control, ReceiveManualResult, NotCreated
<1> QED
  BY <1>1, <1>5, <1>7, LocalFrame DEF ReceiveManualResult, SameClaims, TypeOK

-----------------------------------------------------------------------------
(* Steps that leave MySQL alone.                                            *)

\* A step to the next call that keeps the record, the event and the job.
LEMMA GoOnKeeps ==
  ASSUME IInv, NEW t \in Tasks, NEW l \in Labels, Goto(t, l),
         UNCHANGED <<job, rec, ev>>,
         \/ UNCHANGED goal
         \/ \E g \in {"none", "succeeded", "failed", "pending_verification"} :
              goal' = [goal EXCEPT ![t] = g]
  PROVE  LocalTypes' /\ OthersKept(t) /\ pc'[t] = l
<1>1. TypeOK
  BY DEF IInv
<1> QED
  BY <1>1, GotoKeeps DEF TypeOK, LocalTypes, OthersKept

LEMMA StepDropKey ==
  ASSUME IInv, NEW t \in Tasks, DropKey(t) PROVE IInv'
<1>1. TypeOK /\ StoresKept
  BY DEF IInv, DropKey, StoresKept, tables, history
<1>2. NoKey \in ConfKey
  BY ConstantsAssumption DEF NoKey, ConfKey
<1>3. CASE job[t] = "update" /\ Goto(t, "normalise") /\ UNCHANGED <<job, rec, ev, goal>>
  <2>1. LocalTypes' /\ OthersKept(t) /\ pc'[t] = "normalise"
    BY <1>3, GoOnKeeps DEF Labels, CasPoints
  <2>2. TypeOK'
    BY <1>1, <1>2, <2>1 DEF DropKey, TypeOK, LocalTypes, tables, time, history
  <2>3. Control(t) /\ pc[t] = "dropKey"
    BY DEF IInv, ControlOK, DropKey
  <2>4. Control(t)'
    BY <1>3, <2>1, <2>3 DEF Control
  <2> QED
    BY <1>1, <1>3, <2>1, <2>2, <2>4, StoresKeptFrame DEF SameClaims
<1>4. CASE job[t] = "confirm" /\ Goto(t, "execute") /\ UNCHANGED <<job, rec, ev, goal>>
  <2>1. LocalTypes' /\ OthersKept(t) /\ pc'[t] = "execute"
    BY <1>4, GoOnKeeps DEF Labels, CasPoints
  <2>2. TypeOK'
    BY <1>1, <1>2, <2>1 DEF DropKey, TypeOK, LocalTypes, tables, time, history
  <2>3. Control(t) /\ pc[t] = "dropKey"
    BY DEF IInv, ControlOK, DropKey
  <2>4. Control(t)'
    BY <1>4, <2>1, <2>3 DEF Control
  <2> QED
    BY <1>1, <1>4, <2>1, <2>2, <2>4, StoresKeptFrame DEF SameClaims
<1>5. CASE Return(t)
  <2>1. TypeOK'
    BY <1>1, <1>2, <1>5, ReturnKeeps DEF DropKey, TypeOK, LocalTypes, tables, time, history
  <2> QED
    BY <1>1, <1>5, <2>1, ReturnKeeps, StoresKeptFrame
<1> QED
  BY <1>3, <1>4, <1>5 DEF DropKey

LEMMA StepPutKey ==
  ASSUME IInv, NEW t \in Tasks, PutKey(t) PROVE IInv'
<1>1. TypeOK /\ StoresKept /\ rec[t] \in Row
  BY DEF IInv, TypeOK, PutKey, StoresKept, tables, history
<1>2. MaxDeadlines \in Nat /\ MaxVersion \in Nat
  BY ConstantsAssumption
<1>3. /\ pc' \in [Tasks -> Labels] /\ pc'[t] = "offer"
      /\ \A u \in Tasks \ {t} : pc'[u] = pc[u]
  BY <1>1, GotoKeeps DEF PutKey, Labels, CasPoints
<1>4. /\ deadlines' \in 0..MaxDeadlines /\ deadlines <= deadlines'
      /\ confKey' \in ConfKey
  <2>1. /\ deadlines \in 0..MaxDeadlines
        /\ rec[t].version \in 0..MaxVersion /\ rec[t].deadline \in 0..MaxDeadlines
    BY <1>1 DEF TypeOK, Row
  <2>2. \A d \in 0..MaxDeadlines : KeyFor(rec[t], d) \in ConfKey
    BY <2>1 DEF KeyFor, ConfKey
  <2> QED
    BY <1>2, <2>1, <2>2 DEF PutKey
<1>5. /\ rec' \in [Tasks -> Row] /\ SameClaims(rec'[t], rec[t])
      /\ \A u \in Tasks \ {t} : rec'[u] = rec[u]
  <2>1. CASE UNCHANGED rec
    BY <1>1, <2>1 DEF TypeOK, SameClaims
  <2>2. CASE /\ deadlines < MaxDeadlines
             /\ rec' = [rec EXCEPT ![t].deadline = deadlines + 1]
    <3>1. deadlines + 1 \in 0..MaxDeadlines
      BY <1>1, <1>2, <2>2 DEF TypeOK
    <3>2. rec'[t] = [rec[t] EXCEPT !.deadline = deadlines + 1]
      BY <1>1, <2>2 DEF TypeOK
    <3>3. rec'[t] \in Row /\ SameClaims(rec'[t], rec[t])
      BY <1>1, <3>1, <3>2 DEF Row, SameClaims
    <3> QED
      BY <1>1, <2>2, <3>3 DEF TypeOK
  <2> QED
    BY <2>1, <2>2 DEF PutKey
<1>6. TypeOK'
  BY <1>1, <1>2, <1>3, <1>4, <1>5 DEF PutKey, TypeOK, tables, history
<1>7. OthersKept(t)
  BY <1>3, <1>5 DEF OthersKept, PutKey
<1>8. Control(t)'
  <2>1. Control(t) /\ pc[t] = "putKey"
    BY DEF IInv, ControlOK, PutKey
  <2> QED
    BY <1>3, <1>5, <2>1 DEF Control, SameClaims
<1> QED
  BY <1>1, <1>5, <1>6, <1>7, <1>8, StoresKeptFrame

LEMMA StepReadKey ==
  ASSUME IInv, NEW t \in Tasks, ReadKey(t) PROVE IInv'
<1>1. TypeOK /\ Control(t) /\ pc[t] = "readKey"
  BY DEF IInv, ControlOK, ReadKey
<1>2. UNCHANGED <<op, tables, redis, time, faults, approvals>>
  BY DEF ReadKey
<1>3. CASE Goto(t, "expire") /\ UNCHANGED <<job, rec, ev, goal, consents>>
  <2>1. LocalTypes' /\ OthersKept(t) /\ pc'[t] = "expire"
    BY <1>3, GoOnKeeps DEF Labels, CasPoints
  <2>2. Control(t)'
    BY <1>1, <1>3, <2>1 DEF Control
  <2> QED
    BY <1>1, <1>2, <1>3, <2>1, <2>2, LocalFrame DEF SameClaims, TypeOK, history
<1>4. CASE /\ \E v \in Versions, h \in Params :
                /\ ValidConfirmation(rec[t], v, h)
                /\ consents' = consents \cup {<<v, h>>}
           /\ Goto(t, "addConfirmation")
           /\ UNCHANGED <<job, rec, ev, goal>>
  <2>1. PICK v \in Versions, h \in Params :
          /\ ValidConfirmation(rec[t], v, h)
          /\ consents' = consents \cup {<<v, h>>}
    BY <1>4
  <2>2. LocalTypes' /\ OthersKept(t) /\ pc'[t] = "addConfirmation"
    BY <1>4, GoOnKeeps DEF Labels
  <2>3. <<rec[t].version, rec[t].hash>> \in consents'
    BY <2>1 DEF ValidConfirmation
  <2>4. Control(t)'
    BY <1>1, <1>4, <2>2, <2>3 DEF Control
  <2>5. TypeOK'
    BY <1>1, <1>2, <2>1, <2>2 DEF TypeOK, LocalTypes, tables, redis, time
  <2>6. StoresKept
    BY <1>2, <2>1 DEF StoresKept, tables
  <2> QED
    BY <1>4, <2>2, <2>4, <2>5, <2>6, StoresKeptFrame DEF SameClaims
<1>5. CASE Return(t) /\ UNCHANGED consents
  BY <1>1, <1>2, <1>5, LeavingStep DEF TypeOK, history
<1> QED
  BY <1>3, <1>4, <1>5 DEF ReadKey

LEMMA StepAcquireLock ==
  ASSUME IInv, NEW t \in Tasks, AcquireLock(t) PROVE IInv'
<1>1. TypeOK /\ Control(t) /\ pc[t] = "lock" /\ Backed(rec[t])
  BY DEF IInv, ControlOK, RecordsBacked, AcquireLock
<1>2. LocalTypes' /\ OthersKept(t) /\ pc'[t] = "call"
  BY GoOnKeeps DEF Labels, AcquireLock
<1>3. rec[t].version \in Versions
  BY <1>1 DEF Control, Backed
<1>4. TypeOK'
  BY <1>1, <1>2, <1>3 DEF AcquireLock, TypeOK, LocalTypes, tables, time, history
<1>5. Control(t)'
  BY <1>1, <1>2 DEF Control, AcquireLock
<1> QED
  BY <1>2, <1>4, <1>5, StoresKeptFrame
     DEF AcquireLock, StoresKept, SameClaims, tables, history

LEMMA StepToolRefuses ==
  ASSUME IInv, NEW t \in Tasks, ToolRefuses(t) PROVE IInv'
<1>1. TypeOK /\ Control(t) /\ pc[t] = "call"
  BY DEF IInv, ControlOK, ToolRefuses
<1>2. LocalTypes' /\ OthersKept(t) /\ pc'[t] = "recordFailure"
  BY GoOnKeeps DEF Labels, ToolRefuses
<1>3. Control(t)'
  BY <1>1, <1>2 DEF Control, ToolRefuses
<1> QED
  BY <1>1, <1>2, <1>3, LocalFrame DEF ToolRefuses, SameClaims, TypeOK

\* A call that found an outcome, or failed, without changing the execution.
LEMMA OutcomeStep ==
  ASSUME IInv, NEW t \in Tasks, pc[t] = "call" \/ pc[t] = "recordFailure",
         NEW target \in {"succeeded", "failed", "pending_verification"},
         Outcome(t, target), UNCHANGED execution, faults' \in 0..MaxFaults,
         target = "succeeded" => execution.status = "succeeded"
  PROVE  IInv'
<1>1. TypeOK /\ Control(t)
  BY DEF IInv, ControlOK
<1>2. LocalTypes' /\ OthersKept(t) /\ pc'[t] = "settle"
  BY GoOnKeeps DEF Labels, CasPoints, Outcome
<1>3. goal'[t] = target
  BY <1>1 DEF Outcome, TypeOK
<1>4. Control(t)'
  BY <1>1, <1>2, <1>3 DEF Control, Outcome
<1> QED
  BY <1>2, <1>4, LocalFrame DEF Outcome, SameClaims, tables

LEMMA StepToolFindsExecution ==
  ASSUME IInv, NEW t \in Tasks, ToolFindsExecution(t) PROVE IInv'
<1>1. faults \in 0..MaxFaults
  BY DEF IInv, TypeOK
<1> QED
  BY <1>1, OutcomeStep DEF ToolFindsExecution, ExistingOutcomes

LEMMA StepToolBreaks ==
  ASSUME IInv, NEW t \in Tasks, ToolBreaks(t) PROVE IInv'
<1>1. faults' \in 0..MaxFaults
  BY ConstantsAssumption DEF IInv, TypeOK, ToolBreaks
<1> QED
  BY <1>1, OutcomeStep DEF ToolBreaks

LEMMA StepQueryExecution ==
  ASSUME IInv, NEW t \in Tasks, QueryExecution(t) PROVE IInv'
<1>1. TypeOK /\ Control(t) /\ pc[t] = "query"
  BY DEF IInv, ControlOK, QueryExecution
<1>2. /\ UNCHANGED <<op, tables, redis, time, history>>
      /\ faults' \in 0..MaxFaults
  BY <1>1 DEF QueryExecution, TypeOK
<1>3. CASE /\ execution.status = "succeeded"
           /\ goal' = [goal EXCEPT ![t] = "succeeded"]
           /\ Goto(t, "settle")
           /\ UNCHANGED <<job, rec, ev>>
  <2>1. LocalTypes' /\ OthersKept(t) /\ pc'[t] = "settle"
    BY <1>3, GoOnKeeps DEF Labels, CasPoints
  <2>2. Control(t)'
    BY <1>1, <1>2, <1>3, <2>1 DEF Control, tables
  <2> QED
    BY <1>2, <1>3, <2>1, <2>2, LocalFrame DEF SameClaims
<1>4. CASE /\ rec[t].status = "executing"
           /\ Goto(t, "call")
           /\ UNCHANGED <<job, rec, ev, goal>>
  <2>1. LocalTypes' /\ OthersKept(t) /\ pc'[t] = "call"
    BY <1>4, GoOnKeeps DEF Labels
  <2>2. Control(t)'
    BY <1>1, <1>4, <2>1 DEF Control, Dispatched, NotCreated
  <2> QED
    BY <1>2, <1>4, <2>1, <2>2, LocalFrame DEF SameClaims
<1>5. CASE Return(t)
  BY <1>2, <1>5, LeavingStep
<1> QED
  BY <1>3, <1>4, <1>5 DEF QueryExecution

LEMMA StepScan ==
  ASSUME IInv, NEW m \in Tasks, Scan(m) PROVE IInv'
<1>1. TypeOK /\ Control(m)
  BY DEF IInv, ControlOK
<1>2. /\ UNCHANGED <<op, tables, redis, time, history>>
      /\ faults' \in 0..MaxFaults
  BY <1>1 DEF Scan, TypeOK
<1>3. CASE Due(job[m]) /\ Goto(m, "require") /\ UNCHANGED <<job, rec, ev, goal>>
  <2>1. LocalTypes' /\ OthersKept(m) /\ pc'[m] = "require"
    BY <1>3, GoOnKeeps DEF Labels
  <2>2. op.status # NotCreated
    <3>1. ReviewDue => op.status # NotCreated
      <4>1. op.status = NotCreated => reviewsLapsed = 0
        BY <1>1, EmptySeq DEF IInv, ReviewsBacked, TypeOK
      <4> QED
        BY <4>1 DEF ReviewDue
    <3> QED
      BY <1>3, <3>1 DEF Due, ConfirmationDue, ExecutionDue, NotCreated
  <2>3. Control(m)'
    BY <1>2, <2>1, <2>2 DEF Control
  <2> QED
    BY <1>2, <1>3, <2>1, <2>3, LocalFrame DEF SameClaims
<1>4. CASE Return(m)
  BY <1>2, <1>4, LeavingStep
<1> QED
  BY <1>3, <1>4 DEF Scan

LEMMA StepRequire ==
  ASSUME IInv, NEW m \in Tasks, Require(m) PROVE IInv'
<1>1. TypeOK /\ Control(m) /\ pc[m] = "require"
  BY DEF IInv, ControlOK, Require
<1>2. /\ UNCHANGED <<op, tables, redis, time, history>>
      /\ faults' \in 0..MaxFaults
  BY <1>1 DEF Require, TypeOK
<1>3. CASE /\ Wanted(job[m], op) /\ Load(m)
           /\ Goto(m, FirstCall(job[m], op)) /\ UNCHANGED <<job, ev, goal>>
  <2>1. FirstCall(job[m], op) \in
          {"timeOut", "expire", "putKey", "execute", "query"}
    BY DEF FirstCall, AfterApproval
  <2>2. /\ FirstCall(job[m], op) = "execute" /\ op.status = "risk_approved" =>
             ~op.needConf
        /\ FirstCall(job[m], op) = "expire" => job[m] = "expireConf"
    BY <1>3 DEF FirstCall, AfterApproval, Wanted
  <2>3. /\ pc' \in [Tasks -> Labels] /\ pc'[m] = FirstCall(job[m], op)
        /\ \A u \in Tasks \ {m} : pc'[u] = pc[u]
    BY <1>1, <1>3, <2>1, GotoKeeps DEF Labels, CasPoints
  <2>4. rec'[m] = op /\ job' = job /\ LocalTypes' /\ OthersKept(m)
    BY <1>1, <1>3, <2>3 DEF TypeOK, LocalTypes, OthersKept, Load
  <2>5. Control(m)'
    BY <1>1, <2>1, <2>2, <2>3, <2>4 DEF Control
  <2> QED
    BY <1>2, <2>4, <2>5, LocalFrame DEF SameClaims
<1>4. CASE Return(m)
  BY <1>2, <1>4, LeavingStep
<1> QED
  BY <1>3, <1>4 DEF Require

LEMMA StepRaises ==
  ASSUME IInv, NEW t \in Tasks,
         ConcurrentModification(t) \/ PutKeyFails(t) \/ Abort(t)
  PROVE  IInv'
<1>1. faults' \in 0..MaxFaults
  BY ConstantsAssumption
     DEF IInv, TypeOK, ConcurrentModification, PutKeyFails, Abort
<1> QED
  BY <1>1, LeavingStep DEF ConcurrentModification, PutKeyFails, Abort

LEMMA StepTick == ASSUME IInv, Tick PROVE IInv'
<1>1. TypeOK /\ Len(reviews) \in Nat /\ MaxDeadlines \in Nat
  BY LenProperties, ConstantsAssumption DEF IInv, TypeOK
<1>2. TypeOK'
  <2>1. CASE ReviewLapses
    BY <1>1, <2>1 DEF ReviewLapses, TypeOK, tables, redis, local, history
  <2>2. CASE DeadlineNears \/ DeadlineLapses
    <3>1. deadlines \in Nat /\ deadlinesNear \in 0..deadlines
          /\ deadlinesLapsed \in 0..deadlinesNear
      BY <1>1 DEF TypeOK
    <3>2. deadlinesNear' \in 0..deadlines /\ deadlinesLapsed' \in 0..deadlinesNear'
      BY <2>2, <3>1 DEF DeadlineNears, DeadlineLapses
    <3> QED
      BY <1>1, <2>2, <3>2
         DEF DeadlineNears, DeadlineLapses, TypeOK, tables, redis, local, history
  <2>3. CASE KeyExpires
    <3>1. NoKey \in ConfKey
      BY ConstantsAssumption DEF NoKey, ConfKey
    <3> QED
      BY <1>1, <2>3, <3>1 DEF KeyExpires, TypeOK, tables, time, local, history
  <2> QED
    BY <2>1, <2>2, <2>3 DEF Tick
<1>3. UNCHANGED <<op, tables, local, history>>
  BY DEF Tick, ReviewLapses, DeadlineNears, DeadlineLapses, KeyExpires
<1>4. /\ op' = op /\ versionRows' = versionRows /\ reviews' = reviews
      /\ attempts' = attempts /\ execution' = execution
      /\ job' = job /\ pc' = pc /\ rec' = rec /\ ev' = ev /\ goal' = goal
      /\ confirmations' = confirmations /\ approvals' = approvals
      /\ consents' = consents
  BY <1>3 DEF tables, local, history
<1>5. RecordsBacked' /\ ReviewsBacked'
  BY <1>4 DEF IInv, RecordsBacked, Backed, ReviewsBacked
<1>6. ControlOK'
  <2>1. ASSUME NEW t \in Tasks PROVE Control(t)'
    <3>1. Control(t)
      BY DEF IInv, ControlOK
    <3>2. pc'[t] = pc[t] /\ job'[t] = job[t] /\ rec'[t] = rec[t] /\ ev'[t] = ev[t]
          /\ goal'[t] = goal[t]
      BY <1>4
    <3>3. Answered(t)' <=> Answered(t)
      BY <1>4, <3>2 DEF Answered
    <3> QED
      BY <1>4, <3>1, <3>2, <3>3 DEF Control
  <2> QED
    BY <2>1 DEF ControlOK
<1>7. Agreement'
  BY <1>4 DEF IInv, Agreement, SameSubject
<1>8. OneVersionExecutes' /\ SucceededHasEffect'
  BY <1>4 DEF IInv, OneVersionExecutes, SucceededHasEffect
<1> QED
  BY <1>2, <1>5, <1>6, <1>7, <1>8 DEF IInv

-----------------------------------------------------------------------------
(* Compare-and-set.                                                         *)

LEMMA MoveTargets ==
  ASSUME NEW s, NEW target, CanMove(s, target)
  PROVE  /\ target \in OperationStatuses /\ target # NotCreated
         /\ s # NotCreated
         /\ s \in Dispatched =>
              target \in {"succeeded", "failed", "pending_verification",
                          "manual_review"}
         /\ target \in Dispatched /\ target # "executing" => s \in Dispatched
         /\ target = "executing" => s \in {"risk_approved", "confirmed"}
BY DEF CanMove, ALLOWED_TRANSITIONS, OperationStatuses, TERMINAL_STATUSES,
       NotCreated, Dispatched

\* Once the operation is dispatched, a compare-and-set carries on its version
\* and its parameters; before that, no other record of that stage exists.
LEMMA CasFrame ==
  ASSUME IInv, NEW t \in Tasks, NEW r \in Row, NEW target,
         Transition(t, r, target),
         UNCHANGED <<tables, redis, time, faults, consents>>,
         approvals \subseteq approvals', approvals' \subseteq Versions \X Params,
         LocalTypes', OthersKept(t), rec'[t] = NoRow \/ rec'[t] = op',
         Backed(op)', Control(t)',
         r = rec[t] \/ rec[t].status \notin Dispatched,
         target = "manual_review" => rec[t].status \notin Dispatched,
         target # "executing",
         target = "succeeded" => execution.status = "succeeded"
  PROVE  IInv'
<1>1. /\ op' = [r EXCEPT !.status = target]
      /\ op.status = rec[t].status /\ CanMove(rec[t].status, target)
  BY DEF Transition, CasHolds
<1>2. /\ target \in OperationStatuses /\ target # NotCreated
      /\ rec[t].status \in Dispatched => target \in Dispatched
      /\ target \in Dispatched => rec[t].status \in Dispatched
  BY <1>1, MoveTargets DEF Dispatched
<1>3. /\ op' \in Row /\ op'.status = target
      /\ op'.version = r.version /\ op'.params = r.params
  BY <1>1, <1>2 DEF Row
<1>4. TypeOK'
  BY <1>3 DEF IInv, TypeOK, LocalTypes, tables, redis, time
<1>5. Grows
  <2>1. Len(reviews) \in Nat
    BY LenProperties DEF IInv, TypeOK
  <2> QED
    BY <1>2, <1>3, <2>1 DEF Grows, tables
<1>6. ReviewsBacked'
  BY <1>2, <1>3 DEF IInv, ReviewsBacked, tables
<1>7. Backed(rec[t])'
  BY DEF Backed, NoRow, NotCreated, Versioned, Approved, Dispatched
<1>8. CASE op.status \in Dispatched
  <2>1. SameSubject(rec[t], op) /\ r = rec[t] /\ op'.status \in Dispatched
    BY <1>1, <1>2, <1>3, <1>8 DEF IInv, Agreement
  <2>2. op'.version = op.version /\ op'.params = op.params
    BY <1>3, <2>1 DEF SameSubject
  <2>3. Agreement'
    <3>1. \A u \in Tasks \ {t} :
            rec'[u].status \in Dispatched => SameSubject(rec'[u], op')
      BY <2>1, <2>2 DEF IInv, Agreement, OthersKept, SameSubject
    <3>2. rec'[t].status \in Dispatched => SameSubject(rec'[t], op')
      BY <2>1 DEF SameSubject, NoRow, NotCreated, Dispatched
    <3> QED
      BY <2>1, <2>2, <3>1, <3>2 DEF IInv, Agreement, SameSubject, tables
  <2>4. OneVersionExecutes'
    BY <2>1, <2>2 DEF IInv, OneVersionExecutes, tables
  <2>5. SucceededHasEffect'
    BY <1>3 DEF SucceededHasEffect, tables
  <2> QED
    BY <1>4, <1>5, <1>6, <2>3, <2>4, <2>5, <1>7, Frame
<1>9. CASE op.status \notin Dispatched
  <2>1. op'.status \notin Dispatched
    BY <1>1, <1>2, <1>3, <1>9
  <2>2. Agreement'
    <3>1. \A u \in Tasks \ {t} : rec'[u].status \notin Dispatched
      BY <1>9 DEF IInv, Agreement, OthersKept, SameSubject
    <3>2. rec'[t].status \notin Dispatched
      BY <2>1 DEF NoRow, NotCreated, Dispatched
    <3>3. execution'.status = "none"
      BY <1>9 DEF IInv, Agreement, SameSubject, tables
    <3> QED
      BY <3>1, <3>2, <3>3 DEF Agreement
  <2>3. OneVersionExecutes'
    BY <1>9 DEF IInv, OneVersionExecutes, tables
  <2>4. SucceededHasEffect'
    BY <2>1 DEF SucceededHasEffect, Dispatched
  <2> QED
    BY <1>4, <1>5, <1>6, <2>2, <2>3, <2>4, <1>7, Frame
<1> QED
  BY <1>8, <1>9

\* A move keeps the record backed, where the step supplies what the new status
\* claims beyond the old one.
LEMMA MovedBacked ==
  ASSUME IInv, NEW t \in Tasks, NEW target, Transition(t, rec[t], target),
         UNCHANGED <<tables, consents>>, approvals \subseteq approvals',
         target # "validating",
         target = "risk_approved" =>
           <<rec[t].version, rec[t].params>> \in approvals',
         target = "confirmed" /\ rec[t].params \in LargeParams =>
           /\ <<rec[t].version, rec[t].params>> \in consents
           /\ <<rec[t].version, rec[t].params>> \in confirmations,
         target # "executing"
  PROVE  Backed(op)'
<1>1. /\ op' = [rec[t] EXCEPT !.status = target]
      /\ CanMove(rec[t].status, target)
  BY DEF Transition
<1>2. rec[t] \in Row /\ Backed(rec[t])
  BY DEF IInv, TypeOK, RecordsBacked
<1>3. /\ op'.status = target /\ op'.version = rec[t].version
      /\ op'.params = rec[t].params /\ op'.hash = rec[t].hash
      /\ op'.needConf = rec[t].needConf /\ op'.riskReq = rec[t].riskReq
  BY <1>1, <1>2 DEF Row
<1>4. /\ rec[t].status # NotCreated
      /\ target \in Versioned => rec[t].status \in Versioned
      /\ target \in Approved /\ target # "risk_approved" =>
           rec[t].status \in Approved
      /\ target \in Dispatched => rec[t].status \in Dispatched
  BY <1>1 DEF CanMove, ALLOWED_TRANSITIONS, NotCreated, Versioned, Approved,
              Dispatched
<1>5. /\ versionRows' = versionRows /\ reviews' = reviews
      /\ confirmations' = confirmations /\ consents' = consents
  BY DEF tables
<1> QED
  BY <1>2, <1>3, <1>4, <1>5 DEF Backed

\* The task keeps the record it wrote and goes on.
LEMMA KeepGoesOn ==
  ASSUME IInv, NEW t \in Tasks, NEW target, Transition(t, rec[t], target),
         Keep(t, rec[t], target), NEW l \in Labels, Goto(t, l),
         UNCHANGED <<job, ev, goal>>
  PROVE  /\ LocalTypes' /\ OthersKept(t) /\ pc'[t] = l /\ rec'[t] = op'
         /\ op'.status = target /\ op'.status # NotCreated
         /\ op'.version = rec[t].version /\ op'.params = rec[t].params
         /\ op'.hash = rec[t].hash /\ op'.riskReq = rec[t].riskReq
         /\ op'.needConf = rec[t].needConf
<1>1. TypeOK /\ rec[t] \in Row
  BY DEF IInv, TypeOK
<1>2. op' = [rec[t] EXCEPT !.status = target] /\ target \in OperationStatuses
      /\ target # NotCreated
  BY MoveTargets DEF Transition
<1>3. op' \in Row /\ rec'[t] = op'
  BY <1>1, <1>2 DEF Row, TypeOK, Keep
<1>4. /\ pc' \in [Tasks -> Labels] /\ pc'[t] = l
      /\ \A u \in Tasks \ {t} : pc'[u] = pc[u]
  BY <1>1, GotoKeeps
<1>5. /\ rec' \in [Tasks -> Row]
      /\ \A u \in Tasks \ {t} : rec'[u] = rec[u]
  BY <1>1, <1>2, <1>3 DEF TypeOK, Keep
<1>6. LocalTypes' /\ OthersKept(t)
  BY <1>1, <1>4, <1>5 DEF TypeOK, LocalTypes, OthersKept
<1>7. /\ op'.status = target /\ op'.version = rec[t].version
      /\ op'.params = rec[t].params /\ op'.hash = rec[t].hash
      /\ op'.riskReq = rec[t].riskReq /\ op'.needConf = rec[t].needConf
  BY <1>1, <1>2 DEF Row
<1> QED
  BY <1>2, <1>3, <1>4, <1>6, <1>7

\* A status that claims nothing the old one did not.
Unremarkable(target) ==
  /\ target \notin {"validating", "risk_approved", "confirmed", "executing",
                    "manual_review"}
  /\ target = "succeeded" => execution.status = "succeeded"

\* The task writes its record and returns.
LEMMA MoveAndReturn ==
  ASSUME IInv, NEW t \in Tasks, NEW target, Transition(t, rec[t], target),
         Return(t), UNCHANGED <<tables, redis, time, faults, history>>,
         Unremarkable(target)
  PROVE  IInv'
<1>1. Backed(op)'
  BY MovedBacked DEF history, Unremarkable
<1>2. rec[t] \in Row /\ approvals \subseteq Versions \X Params
  BY DEF IInv, TypeOK
<1> QED
  BY <1>1, <1>2, ReturnKeeps, CasFrame DEF history, Unremarkable

\* The task writes its record, keeps it and goes on.
LEMMA MoveAndGoOn ==
  ASSUME IInv, NEW t \in Tasks, NEW target, Transition(t, rec[t], target),
         Keep(t, rec[t], target), NEW l \in Labels, Goto(t, l),
         UNCHANGED <<job, ev, goal>>,
         UNCHANGED <<tables, redis, time, faults, history>>,
         Unremarkable(target), Control(t)'
  PROVE  IInv'
<1>1. Backed(op)'
  BY MovedBacked DEF history, Unremarkable
<1>2. rec[t] \in Row /\ approvals \subseteq Versions \X Params
  BY DEF IInv, TypeOK
<1> QED
  BY <1>1, <1>2, KeepGoesOn, CasFrame DEF history, Unremarkable

LEMMA StepMoveAndReturn ==
  ASSUME IInv, NEW t \in Tasks,
         RejectParams(t) \/ DenyPermission(t) \/ OfferConfirmation(t)
  PROVE  IInv'
BY MoveAndReturn DEF RejectParams, DenyPermission, OfferConfirmation, Unremarkable

LEMMA StepResolveEntities ==
  ASSUME IInv, NEW t \in Tasks, ResolveEntities(t) PROVE IInv'
<1>1. Control(t) /\ pc[t] = "resolve" /\ "normalise" \in Labels
  BY DEF IInv, ControlOK, ResolveEntities, Labels, CasPoints
<1>2. /\ pc'[t] = "normalise" /\ rec'[t] = op' /\ job' = job
      /\ op'.status = "resolving_entities" /\ op'.status # NotCreated
  BY <1>1, KeepGoesOn DEF ResolveEntities
<1>3. Control(t)'
  BY <1>1, <1>2 DEF Control, Versioned, Dispatched
<1>4. Unremarkable("resolving_entities")
  BY DEF Unremarkable
<1> QED
  BY <1>1, <1>3, <1>4, MoveAndGoOn DEF ResolveEntities

LEMMA StepAskForMore ==
  ASSUME IInv, NEW t \in Tasks, AskForMore(t) PROVE IInv'
<1>1. /\ TypeOK /\ Control(t) /\ pc[t] = "normalise"
      /\ rec[t] \in Row /\ Backed(rec[t])
  BY DEF IInv, TypeOK, ControlOK, RecordsBacked, AskForMore
<1>2. PICK p \in Merged(t) :
        Transition(t, [rec[t] EXCEPT !.params = p], "need_more_information")
  BY DEF AskForMore
<1> DEFINE r == [rec[t] EXCEPT !.params = p]
<1>3. rec[t].status = "resolving_entities" /\ rec[t].version \in Versions
  BY <1>1 DEF Control, Backed, NotCreated
<1>4. p \in Params
  BY <1>1, <1>3 DEF Merged, Backed, NotCreated
<1>5. r \in Row /\ op' = [r EXCEPT !.status = "need_more_information"]
  BY <1>1, <1>2, <1>4 DEF Row, Transition
<1>6. Backed(op)'
  BY <1>1, <1>3, <1>4, <1>5
     DEF Row, Backed, NotCreated, Versioned, Approved, Dispatched
<1>7. /\ LocalTypes' /\ OthersKept(t) /\ rec'[t] = NoRow /\ Control(t)'
      /\ UNCHANGED <<tables, redis, time, faults, approvals, consents>>
  BY ReturnKeeps DEF AskForMore, history
<1>8. rec[t].status \notin Dispatched /\ approvals \subseteq Versions \X Params
  BY <1>1, <1>3 DEF Dispatched, TypeOK
<1> HIDE DEF r
<1> QED
  BY <1>2, <1>5, <1>6, <1>7, <1>8, CasFrame DEF r

LEMMA StepAddVersion ==
  ASSUME IInv, NEW t \in Tasks, AddVersion(t) PROVE IInv'
<1>1. /\ TypeOK /\ Control(t) /\ pc[t] = "normalise"
      /\ rec[t] \in Row /\ Backed(rec[t]) /\ MaxVersion \in Nat
      /\ NoParams \notin Params
  BY ConstantsAssumption
     DEF IInv, TypeOK, ControlOK, RecordsBacked, AddVersion
<1>2. PICK p \in Merged(t) :
        /\ versionRows[NewVersion(t, p).version] = NoParams
        /\ versionRows' = [versionRows EXCEPT ![NewVersion(t, p).version] = p]
        /\ rec' = [rec EXCEPT ![t] = NewVersion(t, p)]
  BY DEF AddVersion
<1> DEFINE r == NewVersion(t, p)
<1>3. /\ rec[t].status = "resolving_entities" /\ rec[t].version \in Versions
      /\ job[t] = "update" => rec[t].version < MaxVersion
  BY <1>1 DEF Control, Backed, NotCreated
<1>4. p \in Params
  BY <1>1, <1>3 DEF Merged, Backed, NotCreated
<1>5. /\ r \in Row /\ r.version \in Versions /\ r.status = "resolving_entities"
      /\ r.params = p /\ r.hash = p /\ r.needConf = (p \in LargeParams)
      /\ r.riskReq = 0
  <2> DEFINE v == IF job[t] = "update" THEN rec[t].version + 1 ELSE rec[t].version
  <2>1. v \in Versions /\ v \in 0..MaxVersion
    BY <1>1, <1>3 DEF Versions
  <2> DEFINE b == p \in LargeParams
  <2>2. b \in BOOLEAN /\ b = (p \in LargeParams)
    OBVIOUS
  <2> HIDE DEF v, b
  <2>3. r = [rec[t] EXCEPT !.version = v, !.params = p, !.hash = p,
                           !.needConf = b, !.riskReq = 0]
    BY <1>1 DEF NewVersion, v, b, Row
  <2> HIDE DEF r
  <2>4. /\ r.version = v /\ r.status = rec[t].status
        /\ r.params = p /\ r.hash = p /\ r.needConf = b /\ r.riskReq = 0
    BY <1>1, <2>3 DEF Row
  <2>5. r \in Row
    BY <1>1, <1>4, <2>1, <2>2, <2>3 DEF Row
  <2> QED
    BY <1>3, <2>1, <2>2, <2>4, <2>5
<1> HIDE DEF r
<1>6. /\ versionRows[r.version] = NoParams
      /\ versionRows' = [versionRows EXCEPT ![r.version] = p]
      /\ rec' = [rec EXCEPT ![t] = r]
  BY <1>2 DEF r
<1>7. /\ pc' \in [Tasks -> Labels] /\ pc'[t] = "validate"
      /\ \A u \in Tasks \ {t} : pc'[u] = pc[u]
  BY <1>1, GotoKeeps DEF AddVersion, Labels, CasPoints
<1>8. TypeOK'
  BY <1>1, <1>4, <1>5, <1>6, <1>7 DEF AddVersion, TypeOK, redis, time, history
<1>9. OthersKept(t) /\ rec'[t] = r
  BY <1>1, <1>6, <1>7 DEF AddVersion, OthersKept, TypeOK
<1>10. versionRows'[r.version] = p
  BY <1>1, <1>5, <1>6 DEF TypeOK
<1>11. Grows
  <2>1. Len(reviews) \in Nat
    BY <1>1, LenProperties DEF TypeOK
  <2>2. \A v \in Versions :
          versionRows[v] # NoParams => versionRows'[v] = versionRows[v]
    BY <1>1, <1>6 DEF TypeOK
  <2> QED
    BY <2>1, <2>2 DEF AddVersion, Grows, history
<1>12. Backed(op)'
  <2>1. op' = op /\ Backed(op)
    BY DEF AddVersion, IInv, RecordsBacked
  <2>2. StaysBacked(op)
    BY <1>1, <1>11, <2>1, RecordKept
  <2> QED
    BY <2>1, <2>2 DEF Backed, StaysBacked
<1>13. Backed(rec[t])'
  BY <1>4, <1>5, <1>9 DEF Backed, NotCreated, Versioned, Approved, Dispatched
<1>14. ReviewsBacked'
  <2>1. \A i \in 1..Len(reviews) : reviews[i] \in Review
    BY <1>1, ElementOfSeq DEF TypeOK
  <2>2. \A i \in 1..Len(reviews) :
          versionRows'[reviews[i].version] = versionRows[reviews[i].version]
    BY <1>1, <1>11, <2>1 DEF IInv, ReviewsBacked, Review, Grows
  <2> QED
    BY <2>2 DEF IInv, ReviewsBacked, AddVersion
<1>15. Control(t)'
  BY <1>5, <1>7, <1>9, <1>10 DEF Control, NotCreated
<1>16. Agreement'
  BY <1>5, <1>9 DEF IInv, Agreement, AddVersion, OthersKept, SameSubject,
                    Dispatched
<1>17. OneVersionExecutes' /\ SucceededHasEffect'
  BY DEF IInv, OneVersionExecutes, SucceededHasEffect, AddVersion
<1> QED
  BY <1>8, <1>9, <1>11, <1>12, <1>13, <1>14, <1>15, <1>16, <1>17, Frame

LEMMA StepValidate ==
  ASSUME IInv, NEW t \in Tasks, Validate(t) PROVE IInv'
<1>1. /\ TypeOK /\ Control(t) /\ pc[t] = "validate"
      /\ rec[t] \in Row /\ Backed(rec[t])
  BY DEF IInv, TypeOK, ControlOK, RecordsBacked, Validate
<1>2. /\ Transition(t, rec[t], "validating") /\ "permit" \in Labels
      /\ CanMove(rec[t].status, "validating")
      /\ op' = [rec[t] EXCEPT !.status = "validating"]
  BY DEF Validate, Transition, Labels, CasPoints
<1>3. /\ LocalTypes' /\ OthersKept(t) /\ pc'[t] = "permit" /\ rec'[t] = op'
      /\ op'.status # NotCreated
  BY <1>2, KeepGoesOn DEF Validate
<1>4. Backed(op)'
  <2>1. /\ op'.status = "validating" /\ op'.version = rec[t].version
        /\ op'.params = rec[t].params /\ op'.hash = rec[t].hash
        /\ op'.needConf = rec[t].needConf /\ op'.riskReq = 0
    BY <1>1, <1>2 DEF Row, Control
  <2> QED
    BY <1>1, <2>1 DEF Control, Backed, Validate, tables, NotCreated, Versioned,
                      Approved, Dispatched
<1>5. Control(t)'
  BY <1>3 DEF Control
<1>6. UNCHANGED <<tables, redis, time, faults, approvals, consents>>
  BY DEF Validate, history
<1>7. approvals \subseteq Versions \X Params
  BY <1>1 DEF TypeOK
<1> QED
  BY <1>1, <1>2, <1>3, <1>4, <1>5, <1>6, <1>7, CasFrame

LEMMA StepPermit ==
  ASSUME IInv, NEW t \in Tasks, Permit(t) PROVE IInv'
<1>1. "request" \in Labels /\ Unremarkable("waiting_risk_review")
  BY DEF Labels, Unremarkable
<1>2. /\ pc'[t] = "request" /\ rec'[t] = op'
      /\ op'.status = "waiting_risk_review" /\ op'.status # NotCreated
  BY <1>1, KeepGoesOn DEF Permit
<1>3. Control(t)'
  BY <1>2 DEF Control
<1> QED
  BY <1>1, <1>3, MoveAndGoOn DEF Permit

LEMMA StepReopen ==
  ASSUME IInv, NEW t \in Tasks, Reopen(t) PROVE IInv'
<1>1. /\ Control(t) /\ pc[t] = "reopen" /\ Unremarkable("resolving_entities")
      /\ {"supersede", "dropKey"} \subseteq Labels
  BY DEF IInv, ControlOK, Reopen, Labels, Unremarkable
<1>2. PICK l \in {"supersede", "dropKey"} : Goto(t, l)
  BY DEF Reopen
<1>3. /\ pc'[t] = l /\ rec'[t] = op' /\ job' = job
      /\ op'.status = "resolving_entities" /\ op'.status # NotCreated
      /\ op'.version = rec[t].version
  BY <1>1, <1>2, KeepGoesOn DEF Reopen
<1>4. Control(t)'
  BY <1>1, <1>2, <1>3 DEF Control
<1> QED
  BY <1>1, <1>2, <1>4, MoveAndGoOn DEF Reopen

LEMMA StepCancel ==
  ASSUME IInv, NEW t \in Tasks, Cancel(t) PROVE IInv'
<1>1. /\ Control(t) /\ pc[t] = "cancel" /\ Unremarkable("cancelled")
      /\ "dropKey" \in Labels
  BY DEF IInv, ControlOK, Cancel, Labels, Unremarkable
<1>2. /\ pc'[t] = "dropKey" /\ rec'[t] = op' /\ job' = job
      /\ op'.status # NotCreated
  BY <1>1, KeepGoesOn DEF Cancel
<1>3. Control(t)'
  BY <1>1, <1>2 DEF Control
<1> QED
  BY <1>1, <1>3, MoveAndGoOn DEF Cancel

LEMMA StepExpire ==
  ASSUME IInv, NEW t \in Tasks, Expire(t) PROVE IInv'
<1>1. /\ Control(t) /\ pc[t] = "expire" /\ Unremarkable("expired")
      /\ "dropKey" \in Labels
  BY DEF IInv, ControlOK, Expire, Labels, Unremarkable
<1>2. CASE Return(t)
  BY <1>1, <1>2, MoveAndReturn DEF Expire
<1>3. CASE /\ job[t] # "confirm" /\ Keep(t, rec[t], "expired")
           /\ Goto(t, "dropKey") /\ UNCHANGED <<job, ev, goal>>
  <2>1. /\ pc'[t] = "dropKey" /\ rec'[t] = op' /\ job' = job
        /\ op'.status # NotCreated
    BY <1>1, <1>3, KeepGoesOn DEF Expire
  <2>2. Control(t)'
    BY <1>1, <1>3, <2>1 DEF Control
  <2> QED
    BY <1>1, <1>3, <2>2, MoveAndGoOn DEF Expire
<1> QED
  BY <1>2, <1>3 DEF Expire

LEMMA StepTimeOutReview ==
  ASSUME IInv, NEW t \in Tasks, TimeOutReview(t) PROVE IInv'
<1>1. Unremarkable("risk_review_timeout") /\ "markTimeout" \in Labels
  BY DEF Labels, Unremarkable
<1>2. CASE Return(t)
  BY <1>1, <1>2, MoveAndReturn DEF TimeOutReview
<1>3. CASE /\ Keep(t, rec[t], "risk_review_timeout")
           /\ Goto(t, "markTimeout") /\ UNCHANGED <<job, ev, goal>>
  <2>1. pc'[t] = "markTimeout" /\ rec'[t] = op' /\ op'.status # NotCreated
    BY <1>1, <1>3, KeepGoesOn DEF TimeOutReview
  <2>2. Control(t)'
    BY <2>1 DEF Control
  <2> QED
    BY <1>1, <1>3, <2>2, MoveAndGoOn DEF TimeOutReview
<1> QED
  BY <1>2, <1>3 DEF TimeOutReview

LEMMA StepSettle ==
  ASSUME IInv, NEW t \in Tasks, Settle(t) PROVE IInv'
<1>1. /\ Control(t) /\ pc[t] = "settle" /\ Transition(t, rec[t], goal[t])
      /\ goal[t] \in {"none", "succeeded", "failed", "pending_verification"}
      /\ "recordAttempt" \in Labels
  BY DEF IInv, TypeOK, ControlOK, Settle, Labels
<1>2. goal[t] \in Dispatched
  BY <1>1 DEF Transition, CanMove, ALLOWED_TRANSITIONS, Dispatched
<1>3. Unremarkable(goal[t])
  BY <1>1 DEF Control, Unremarkable
<1>4. CASE Return(t)
  BY <1>1, <1>3, <1>4, MoveAndReturn DEF Settle
<1>5. CASE /\ Keep(t, rec[t], goal[t])
           /\ Goto(t, "recordAttempt") /\ UNCHANGED <<job, ev, goal>>
  <2>1. /\ pc'[t] = "recordAttempt" /\ rec'[t] = op' /\ op'.status = goal[t]
        /\ op'.status # NotCreated
    BY <1>1, <1>5, KeepGoesOn
  <2>2. Control(t)'
    BY <1>2, <2>1 DEF Control
  <2> QED
    BY <1>1, <1>3, <1>5, <2>2, MoveAndGoOn DEF Settle
<1> QED
  BY <1>4, <1>5 DEF Settle

LEMMA StepCommitConfirm ==
  ASSUME IInv, NEW t \in Tasks, CommitConfirm(t) PROVE IInv'
<1>1. /\ TypeOK /\ Control(t) /\ pc[t] = "commitConfirm"
      /\ rec[t] \in Row /\ Backed(rec[t])
      /\ Transition(t, rec[t], "confirmed") /\ "dropKey" \in Labels
      /\ UNCHANGED <<tables, redis, time, faults, approvals, consents>>
      /\ approvals \subseteq Versions \X Params
  BY DEF IInv, TypeOK, ControlOK, RecordsBacked, CommitConfirm, history, Labels
<1>2. /\ <<rec[t].version, rec[t].params>> \in consents
      /\ <<rec[t].version, rec[t].params>> \in confirmations
  BY <1>1 DEF Control, Backed, Versioned
<1>3. Backed(op)'
  BY <1>1, <1>2, MovedBacked
<1>4. /\ LocalTypes' /\ OthersKept(t) /\ pc'[t] = "dropKey" /\ rec'[t] = op'
      /\ job' = job /\ op'.status = "confirmed" /\ op'.status # NotCreated
  BY <1>1, KeepGoesOn DEF CommitConfirm
<1>5. Control(t)'
  BY <1>1, <1>4 DEF Control
<1> QED
  BY <1>1, <1>3, <1>4, <1>5, CasFrame

\* A decision moves the record on; an approval is one of what the record carries.
LEMMA DecisionStep ==
  ASSUME IInv, NEW t \in Tasks,
         rec[t].status \in {"waiting_risk_review", "manual_review"}, Answered(t),
         Transition(t, rec[t], RiskTarget(ev[t].decision)),
         Keep(t, rec[t], RiskTarget(ev[t].decision)),
         RecordApproval(ev[t]),
         NEW l \in {"completeReview", "markEvent"}, Goto(t, l),
         UNCHANGED <<tables, redis, time, job, ev, goal, faults, consents>>
  PROVE  IInv'
<1>1. /\ TypeOK /\ rec[t] \in Row /\ Backed(rec[t]) /\ ev[t] \in Event
      /\ approvals \subseteq Versions \X Params /\ l \in Labels
      /\ l \in {"completeReview", "markEvent"}
  BY DEF IInv, TypeOK, RecordsBacked, Answered, Labels
<1> DEFINE target == RiskTarget(ev[t].decision)
<1>2. target \in {"risk_rejected", "manual_review", "risk_approved"}
  BY DEF RiskTarget
<1>3. target = "risk_approved" => ev[t].decision = "approved"
  BY <1>1 DEF RiskTarget, Event, Decisions
<1>4. Subject(ev[t]) = <<rec[t].version, rec[t].params>>
  BY <1>1 DEF Subject, Answered, IInv, ReviewsBacked, Backed, Versioned
<1>5. rec[t].version \in Versions /\ rec[t].params \in Params
  BY <1>1 DEF Backed, NotCreated
<1>6. /\ approvals \subseteq approvals' /\ approvals' \subseteq Versions \X Params
      /\ target = "risk_approved" =>
           <<rec[t].version, rec[t].params>> \in approvals'
  BY <1>1, <1>3, <1>4, <1>5 DEF RecordApproval
<1> HIDE DEF target
<1>7. Transition(t, rec[t], target) /\ Keep(t, rec[t], target)
  BY DEF target
<1>8. Backed(op)'
  <2>1. /\ target # "validating" /\ target # "executing"
        /\ target = "confirmed" /\ rec[t].params \in LargeParams =>
             /\ <<rec[t].version, rec[t].params>> \in consents
             /\ <<rec[t].version, rec[t].params>> \in confirmations
    BY <1>2
  <2> QED
    BY <1>6, <1>7, <2>1, MovedBacked
<1>9. /\ LocalTypes' /\ OthersKept(t) /\ pc'[t] = l /\ rec'[t] = op'
      /\ op'.status # NotCreated
  BY <1>1, <1>7, KeepGoesOn
<1>10. Control(t)'
  BY <1>1, <1>9 DEF Control
<1>11. /\ rec[t].status \notin Dispatched /\ target # "executing"
       /\ target # "succeeded"
  BY <1>2 DEF Dispatched
<1> QED
  BY <1>1, <1>6, <1>7, <1>8, <1>9, <1>10, <1>11, CasFrame

LEMMA StepApplyResult ==
  ASSUME IInv, NEW t \in Tasks, ApplyRiskResult(t) \/ ApplyManualResult(t)
  PROVE  IInv'
<1>1. Control(t)
  BY DEF IInv, ControlOK
<1>2. CASE ApplyRiskResult(t)
  BY <1>1, <1>2, DecisionStep DEF ApplyRiskResult, Control
<1>3. CASE ApplyManualResult(t)
  BY <1>1, <1>3, DecisionStep DEF ApplyManualResult, Control
<1> QED
  BY <1>2, <1>3

LEMMA StepMarkEvent ==
  ASSUME IInv, NEW t \in Tasks, MarkEvent(t) PROVE IInv'
<1>1. /\ TypeOK /\ Control(t) /\ pc[t] = "markEvent" /\ ev[t] \in Event
      /\ processed' \subseteq Event /\ StoresKept
  BY DEF IInv, TypeOK, ControlOK, Control, MarkEvent, StoresKept, history
<1>2. CASE /\ rec[t].status = "risk_approved"
           /\ Goto(t, AfterApproval(rec[t]))
           /\ ev' = [ev EXCEPT ![t] = NoEvent]
           /\ UNCHANGED <<job, rec, goal>>
  <2>1. /\ AfterApproval(rec[t]) \in {"putKey", "execute"}
        /\ AfterApproval(rec[t]) = "execute" => ~rec[t].needConf
        /\ AfterApproval(rec[t]) \in Labels
    BY DEF AfterApproval, Labels, CasPoints
  <2>2. /\ pc' \in [Tasks -> Labels] /\ pc'[t] = AfterApproval(rec[t])
        /\ \A u \in Tasks \ {t} : pc'[u] = pc[u]
    BY <1>1, <1>2, <2>1, GotoKeeps
  <2>3. LocalTypes' /\ OthersKept(t)
    BY <1>1, <1>2, <2>2 DEF TypeOK, LocalTypes, OthersKept
  <2>4. TypeOK'
    BY <1>1, <2>3 DEF MarkEvent, TypeOK, LocalTypes, redis, time, history
  <2>5. Control(t)'
    BY <1>1, <1>2, <2>1, <2>2 DEF Control
  <2> QED
    BY <1>1, <1>2, <2>3, <2>4, <2>5, StoresKeptFrame DEF SameClaims
<1>3. CASE Return(t)
  <2>1. TypeOK'
    BY <1>1, <1>3, ReturnKeeps DEF MarkEvent, TypeOK, LocalTypes, redis, time, history
  <2> QED
    BY <1>1, <1>3, <2>1, ReturnKeeps, StoresKeptFrame
<1> QED
  BY <1>2, <1>3 DEF MarkEvent

-----------------------------------------------------------------------------
(* Steps that write another table than operations.                          *)

LEMMA SetReviewKeeps ==
  ASSUME TypeOK, NEW t \in Tasks,
         NEW s \in {"waiting", "completed", "superseded", "timeout"},
         SetReview(t, s)
  PROVE  /\ reviews' \in Seq(Review) /\ Len(reviews') = Len(reviews)
         /\ \A i \in 1..Len(reviews) :
              /\ reviews'[i].version = reviews[i].version
              /\ reviews'[i].params = reviews[i].params
<1>1. /\ reviews \in Seq(Review) /\ Len(reviews) \in Nat
      /\ DOMAIN reviews = 1..Len(reviews)
      /\ \A i \in 1..Len(reviews) : reviews[i] \in Review
  BY LenProperties, ElementOfSeq DEF TypeOK
<1> DEFINE k == rec[t].riskReq
<1>2. reviews' = [reviews EXCEPT ![k].status = s]
  BY DEF SetReview
<1>3. /\ DOMAIN reviews' = 1..Len(reviews)
      /\ \A i \in 1..Len(reviews) :
           reviews'[i] = IF i = k THEN [reviews[i] EXCEPT !.status = s]
                                  ELSE reviews[i]
  BY <1>1, <1>2
<1>4. \A i \in 1..Len(reviews) :
        /\ reviews'[i] \in Review
        /\ reviews'[i].version = reviews[i].version
        /\ reviews'[i].params = reviews[i].params
  BY <1>1, <1>3 DEF Review
<1>5. reviews' = [i \in 1..Len(reviews) |-> reviews'[i]]
  BY <1>1, <1>2, <1>3
<1>6. reviews' \in [1..Len(reviews) -> Review]
  BY <1>4, <1>5
<1>7. reviews' \in Seq(Review)
  BY <1>1, <1>6, SeqDef
<1> QED
  BY <1>1, <1>3, <1>4, <1>7, LenProperties

LEMMA SetReviewStep ==
  ASSUME IInv, NEW t \in Tasks,
         NEW s \in {"waiting", "completed", "superseded", "timeout"},
         SetReview(t, s), UNCHANGED <<op, redis, time, faults, history>>,
         LocalTypes', OthersKept(t), Control(t)',
         rec'[t] = NoRow \/ rec'[t] = rec[t]
  PROVE  IInv'
<1>1. /\ TypeOK /\ Len(reviews) \in Nat
      /\ UNCHANGED <<versionRows, confirmations, attempts, processed, execution>>
  BY LenProperties DEF IInv, TypeOK, SetReview
<1>2. /\ reviews' \in Seq(Review) /\ Len(reviews') = Len(reviews)
      /\ \A i \in 1..Len(reviews) :
           /\ reviews'[i].version = reviews[i].version
           /\ reviews'[i].params = reviews[i].params
  BY <1>1, SetReviewKeeps
<1>3. TypeOK'
  BY <1>1, <1>2 DEF TypeOK, LocalTypes, redis, time, history
<1>4. Grows
  BY <1>1, <1>2 DEF Grows, history
<1>5. Backed(op)'
  <2>1. Backed(op) /\ op' = op
    BY DEF IInv, RecordsBacked
  <2>2. StaysBacked(op)
    BY <1>1, <1>4, <2>1, RecordKept
  <2> QED
    BY <2>1, <2>2 DEF Backed, StaysBacked
<1>6. Backed(rec[t])'
  <2>1. CASE rec'[t] = NoRow
    BY <2>1 DEF Backed, NoRow, NotCreated, Versioned, Approved, Dispatched
  <2>2. CASE rec'[t] = rec[t]
    <3>1. Backed(rec[t])
      BY DEF IInv, RecordsBacked
    <3>2. StaysBacked(rec[t])
      BY <1>1, <1>4, <3>1, RecordKept
    <3> QED
      BY <2>2, <3>2 DEF Backed, StaysBacked
  <2> QED
    BY <2>1, <2>2
<1>7. ReviewsBacked'
  <2>1. op.status = NotCreated => reviews' = <<>>
    BY <1>2, EmptySeq DEF IInv, ReviewsBacked
  <2> QED
    BY <1>1, <1>2, <2>1 DEF IInv, ReviewsBacked
<1>8. Agreement'
  BY <1>1 DEF IInv, Agreement, OthersKept, SameSubject, NoRow, NotCreated,
              Dispatched
<1>9. OneVersionExecutes' /\ SucceededHasEffect'
  BY <1>1 DEF IInv, OneVersionExecutes, SucceededHasEffect
<1> QED
  BY <1>3, <1>4, <1>5, <1>6, <1>7, <1>8, <1>9, Frame

LEMMA StepSupersedeReview ==
  ASSUME IInv, NEW t \in Tasks, SupersedeReview(t) PROVE IInv'
<1>1. Control(t) /\ pc[t] = "supersede" /\ "dropKey" \in Labels
  BY DEF IInv, ControlOK, SupersedeReview, Labels
<1>2. LocalTypes' /\ OthersKept(t) /\ pc'[t] = "dropKey"
  BY <1>1, GoOnKeeps DEF SupersedeReview
<1>3. Control(t)'
  BY <1>1, <1>2 DEF SupersedeReview, Control
<1> QED
  BY <1>2, <1>3, SetReviewStep DEF SupersedeReview

LEMMA StepCompleteReview ==
  ASSUME IInv, NEW t \in Tasks, CompleteReview(t) PROVE IInv'
<1>1. Control(t) /\ pc[t] = "completeReview" /\ "markEvent" \in Labels
  BY DEF IInv, ControlOK, CompleteReview, Labels
<1>2. LocalTypes' /\ OthersKept(t) /\ pc'[t] = "markEvent"
  BY <1>1, GoOnKeeps DEF CompleteReview
<1>3. Control(t)'
  BY <1>1, <1>2 DEF CompleteReview, Control
<1> QED
  BY <1>2, <1>3, SetReviewStep DEF CompleteReview

LEMMA StepMarkTimeout ==
  ASSUME IInv, NEW t \in Tasks, MarkTimeout(t) PROVE IInv'
BY ReturnKeeps, SetReviewStep DEF MarkTimeout

LEMMA StepRequestReview ==
  ASSUME IInv, NEW t \in Tasks, RequestReview(t) PROVE IInv'
<1>1. /\ TypeOK /\ Control(t) /\ pc[t] = "request" /\ Backed(rec[t]) /\ Backed(op)
      /\ Len(reviews) \in Nat
  BY LenProperties DEF IInv, TypeOK, ControlOK, RecordsBacked, RequestReview
<1>2. /\ LocalTypes' /\ OthersKept(t) /\ rec'[t] = NoRow
      /\ Backed(rec[t])' /\ Control(t)'
  BY ReturnKeeps DEF RequestReview
<1>3. CASE ~AwaitsRequest(rec[t])
  <2>1. UNCHANGED <<op, tables, redis, time, faults, history>>
    BY <1>3 DEF RequestReview, tables
  <2> QED
    BY <1>1, <2>1, LeavingStep DEF RequestReview, TypeOK
<1>4. CASE AwaitsRequest(rec[t])
  <2> DEFINE new == [version |-> rec[t].version, params |-> rec[t].params,
                     status |-> "waiting"]
  <2>1. /\ rec[t].status = "waiting_risk_review"
        /\ rec[t].version \in Versions /\ rec[t].params \in Params
        /\ versionRows[rec[t].version] = rec[t].params
    BY <1>1 DEF Control, Backed, Versioned, NotCreated
  <2>2. new \in Review
    BY <2>1 DEF Review
  <2>3. /\ reviews' = Append(reviews, new)
        /\ op' = [op EXCEPT !.riskReq = Len(reviews) + 1]
        /\ op.status = "waiting_risk_review" /\ op.version = rec[t].version
        /\ UNCHANGED <<versionRows, confirmations, attempts, processed,
                       execution, redis, time, faults, history>>
    BY <1>4 DEF RequestReview, AwaitsRequest
  <2> HIDE DEF new
  <2>4. /\ reviews' \in Seq(Review) /\ Len(reviews') = Len(reviews) + 1
        /\ \A i \in 1..Len(reviews) : reviews'[i] = reviews[i]
        /\ reviews'[Len(reviews) + 1] = new
    BY <1>1, <2>2, <2>3, AppendProperties DEF TypeOK
  <2>5. /\ op' \in Row /\ op'.status = op.status /\ op'.version = op.version
        /\ op'.params = op.params /\ op'.hash = op.hash
        /\ op'.needConf = op.needConf /\ op'.riskReq = Len(reviews) + 1
    <3>1. op \in Row /\ Len(reviews) + 1 \in Nat
      BY <1>1 DEF TypeOK
    <3>2. op' \in Row
      BY <2>3, <3>1 DEF Row
    <3> QED
      BY <2>3, <3>1, <3>2 DEF Row
  <2>6. TypeOK'
    <3>1. reviewsLapsed' \in 0..Len(reviews')
      BY <1>1, <2>3, <2>4 DEF TypeOK, time
    <3> QED
      BY <1>1, <1>2, <2>3, <2>4, <2>5, <3>1
         DEF TypeOK, LocalTypes, redis, time, history
  <2>7. Grows
    BY <1>1, <2>3, <2>4, <2>5 DEF Grows, history
  <2>8. Backed(op)'
    BY <1>1, <2>1, <2>3, <2>4, <2>5
       DEF Backed, new, NotCreated, Versioned, Approved, Dispatched
  <2>9. ReviewsBacked'
    BY <1>1, <2>1, <2>3, <2>4, <2>5
       DEF IInv, ReviewsBacked, new, NotCreated
  <2>10. Agreement'
    BY <1>2, <2>3, <2>5 DEF IInv, Agreement, OthersKept, SameSubject, NoRow,
                            NotCreated, Dispatched
  <2>11. OneVersionExecutes' /\ SucceededHasEffect'
    BY <2>3, <2>5 DEF IInv, OneVersionExecutes, SucceededHasEffect
  <2> QED
    BY <1>2, <2>6, <2>7, <2>8, <2>9, <2>10, <2>11, Frame
<1> QED
  BY <1>3, <1>4

LEMMA StepAddConfirmation ==
  ASSUME IInv, NEW t \in Tasks, AddConfirmation(t) PROVE IInv'
<1>1. /\ TypeOK /\ Control(t) /\ pc[t] = "addConfirmation" /\ Backed(op)
      /\ Backed(rec[t]) /\ Len(reviews) \in Nat
  BY LenProperties DEF IInv, TypeOK, ControlOK, RecordsBacked, AddConfirmation
<1>2. LocalTypes' /\ OthersKept(t) /\ pc'[t] = "commitConfirm"
  BY GoOnKeeps DEF Labels, CasPoints, AddConfirmation
<1>3. <<rec[t].version, rec[t].hash>> \in Versions \X Params
  BY <1>1 DEF Control, TypeOK
<1>4. TypeOK'
  BY <1>1, <1>2, <1>3 DEF AddConfirmation, TypeOK, LocalTypes, redis, time, history
<1>5. Grows
  BY <1>1 DEF AddConfirmation, Grows, history
<1>6. Backed(op)' /\ Backed(rec[t])'
  <2>1. op' = op /\ rec'[t] = rec[t]
    BY DEF AddConfirmation
  <2>2. StaysBacked(op) /\ StaysBacked(rec[t])
    BY <1>1, <1>5, RecordKept
  <2> QED
    BY <2>1, <2>2 DEF Backed, StaysBacked
<1>7. Control(t)'
  BY <1>1, <1>2 DEF Control, AddConfirmation, history
<1>8. ReviewsBacked' /\ Agreement' /\ OneVersionExecutes' /\ SucceededHasEffect'
  BY DEF IInv, ReviewsBacked, Agreement, SameSubject, OneVersionExecutes,
         SucceededHasEffect, AddConfirmation
<1> QED
  BY <1>2, <1>4, <1>5, <1>6, <1>7, <1>8, Frame

\* Before it is dispatched nothing of an operation is under way.
LEMMA NothingUnderWay ==
  ASSUME IInv, op.status \notin Dispatched
  PROVE  /\ \A t \in Tasks : rec[t].status \notin Dispatched
         /\ execution.status = "none"
         /\ \A v \in Versions : attempts[v] = "none"
BY DEF IInv, Agreement, SameSubject, OneVersionExecutes

LEMMA StepStartExecution ==
  ASSUME IInv, NEW t \in Tasks, StartExecution(t) PROVE IInv'
<1>1. /\ TypeOK /\ Control(t) /\ pc[t] = "execute" /\ Backed(rec[t])
      /\ rec[t] \in Row /\ Len(reviews) \in Nat
  BY LenProperties DEF IInv, TypeOK, ControlOK, RecordsBacked, StartExecution
<1>2. /\ Transition(t, rec[t], "executing")
      /\ op' = [rec[t] EXCEPT !.status = "executing"]
      /\ rec[t].status \in {"risk_approved", "confirmed"}
      /\ op.status = rec[t].status
  BY MoveTargets DEF StartExecution, Transition, CasHolds
<1>3. /\ LocalTypes' /\ OthersKept(t) /\ pc'[t] = "lock" /\ rec'[t] = op'
      /\ op'.status = "executing" /\ op'.status # NotCreated
      /\ op'.version = rec[t].version /\ op'.params = rec[t].params
      /\ op'.hash = rec[t].hash /\ op'.riskReq = rec[t].riskReq
      /\ op'.needConf = rec[t].needConf
  BY <1>2, KeepGoesOn DEF StartExecution, Labels
<1>4. /\ \A u \in Tasks : rec[u].status \notin Dispatched
      /\ execution.status = "none"
      /\ \A v \in Versions : attempts[v] = "none"
  BY <1>2, NothingUnderWay DEF Dispatched
<1>5. /\ attempts' = [attempts EXCEPT ![rec[t].version] = "executing"]
      /\ UNCHANGED <<versionRows, reviews, confirmations, processed, execution,
                     redis, time, faults, history>>
  BY DEF StartExecution
<1>6. rec[t].version \in Versions
  BY <1>1, <1>2 DEF Backed, NotCreated
<1>7. TypeOK'
  <2>1. op' \in Row
    BY <1>1, <1>2 DEF Row, OperationStatuses
  <2>2. attempts' \in [Versions -> AttemptStatuses]
    BY <1>1, <1>5 DEF TypeOK, AttemptStatuses
  <2> QED
    BY <1>1, <1>3, <1>5, <2>1, <2>2 DEF TypeOK, LocalTypes, redis, time, history
<1>8. Grows
  BY <1>1, <1>3, <1>5 DEF Grows, history
<1>9. Backed(op)' /\ Backed(rec[t])'
  <2>1. rec[t].params \in LargeParams =>
          /\ <<rec[t].version, rec[t].params>> \in consents
          /\ <<rec[t].version, rec[t].params>> \in confirmations
    BY <1>1, <1>2 DEF Backed, Control, Versioned
  <2>2. Backed(op)'
    BY <1>1, <1>2, <1>3, <1>5, <2>1
       DEF Backed, NotCreated, Versioned, Approved, Dispatched, history
  <2> QED
    BY <1>3, <2>2 DEF Backed
<1>10. ReviewsBacked'
  BY <1>3, <1>5 DEF IInv, ReviewsBacked
<1>11. Control(t)'
  BY <1>3 DEF Control, Dispatched
<1>12. Agreement'
  BY <1>3, <1>4, <1>5 DEF Agreement, SameSubject, OthersKept, Dispatched
<1>13. OneVersionExecutes'
  BY <1>1, <1>3, <1>4, <1>5 DEF OneVersionExecutes, TypeOK, Dispatched
<1>14. SucceededHasEffect'
  BY <1>3 DEF SucceededHasEffect
<1> QED
  BY <1>3, <1>7, <1>8, <1>9, <1>10, <1>11, <1>12, <1>13, <1>14, Frame

LEMMA StepRecordAttempt ==
  ASSUME IInv, NEW t \in Tasks, RecordAttempt(t) PROVE IInv'
<1>1. /\ TypeOK /\ Control(t) /\ pc[t] = "recordAttempt" /\ Backed(op)
      /\ Len(reviews) \in Nat
  BY LenProperties DEF IInv, TypeOK, ControlOK, RecordsBacked, RecordAttempt
<1>2. /\ LocalTypes' /\ OthersKept(t) /\ rec'[t] = NoRow
      /\ Backed(rec[t])' /\ Control(t)'
  BY ReturnKeeps DEF RecordAttempt
<1>3. rec[t].version = op.version /\ op.status \in Dispatched
  BY <1>1 DEF Control, IInv, Agreement, SameSubject
<1>4. /\ attempts' = [attempts EXCEPT ![rec[t].version] = goal[t]]
      /\ UNCHANGED <<op, versionRows, reviews, confirmations, processed,
                     execution, redis, time, faults, history>>
  BY DEF RecordAttempt
<1>5. TypeOK'
  <2>1. attempts' \in [Versions -> AttemptStatuses]
    BY <1>1, <1>4 DEF TypeOK, AttemptStatuses
  <2> QED
    BY <1>1, <1>2, <1>4, <2>1 DEF TypeOK, LocalTypes, redis, time, history
<1>6. Grows
  BY <1>1, <1>4 DEF Grows, history
<1>7. Backed(op)'
  BY <1>1, <1>4 DEF Backed, history
<1>8. ReviewsBacked' /\ SucceededHasEffect'
  BY <1>4 DEF IInv, ReviewsBacked, SucceededHasEffect
<1>9. Agreement'
  BY <1>2, <1>4 DEF IInv, Agreement, OthersKept, SameSubject, NoRow,
                    NotCreated, Dispatched
<1>10. OneVersionExecutes'
  BY <1>1, <1>3, <1>4 DEF IInv, OneVersionExecutes, TypeOK
<1> QED
  BY <1>2, <1>5, <1>6, <1>7, <1>8, <1>9, <1>10, Frame

LEMMA StepCreate ==
  ASSUME IInv, NEW t \in Tasks, Create(t) PROVE IInv'
<1>1. /\ TypeOK /\ Len(reviews) \in Nat /\ MaxVersion \in Nat \ {0}
      /\ "resolve" \in Labels /\ "create" \in Jobs /\ op.status = NotCreated
  BY LenProperties, ConstantsAssumption
     DEF IInv, TypeOK, Labels, CasPoints, Jobs, RequestKinds, Create
<1>2. PICK p \in Params :
        op' = [NoRow EXCEPT !.status = "draft", !.version = 1, !.params = p]
  BY DEF Create
<1>3. /\ op' \in Row /\ op'.status = "draft" /\ op'.version = 1
      /\ op'.params = p
  <2>1. /\ "draft" \in OperationStatuses /\ 1 \in 0..MaxVersion
        /\ 0 \in 0..MaxVersion /\ 0 \in 0..MaxDeadlines
    BY <1>1, ConstantsAssumption DEF OperationStatuses
  <2>2. NoRow \in Row
    BY <2>1 DEF NoRow, Row
  <2> QED
    BY <1>2, <2>1, <2>2 DEF Row
<1>4. /\ UNCHANGED <<tables, redis, time, faults, approvals, consents>>
      /\ rec' = [rec EXCEPT ![t] = op'] /\ job' = [job EXCEPT ![t] = "create"]
      /\ ev' = ev /\ goal' = goal
  BY DEF Create, Accept, history
<1>5. /\ pc' \in [Tasks -> Labels] /\ pc'[t] = "resolve"
      /\ \A u \in Tasks \ {t} : pc'[u] = pc[u]
  BY <1>1, GotoKeeps DEF Create
<1>6. LocalTypes' /\ OthersKept(t) /\ rec'[t] = op' /\ job'[t] = "create"
  BY <1>1, <1>3, <1>4, <1>5 DEF TypeOK, LocalTypes, OthersKept
<1>7. TypeOK'
  BY <1>1, <1>3, <1>4, <1>6 DEF TypeOK, LocalTypes, tables, redis, time
<1>8. Grows
  BY <1>1, <1>4 DEF Grows, tables
<1>9. Backed(op)' /\ Backed(rec[t])'
  BY <1>1, <1>3, <1>6
     DEF Backed, Versions, NotCreated, Versioned, Approved, Dispatched
<1>10. ReviewsBacked'
  BY <1>3, <1>4 DEF IInv, ReviewsBacked, tables, NotCreated
<1>11. Control(t)'
  BY <1>3, <1>5, <1>6 DEF Control, NotCreated
<1>12. /\ \A u \in Tasks : rec[u].status \notin Dispatched
       /\ execution.status = "none"
       /\ \A v \in Versions : attempts[v] = "none"
  BY <1>1, NothingUnderWay DEF Dispatched, NotCreated
<1>13. Agreement' /\ OneVersionExecutes' /\ SucceededHasEffect'
  BY <1>3, <1>4, <1>6, <1>12
     DEF Agreement, OthersKept, OneVersionExecutes, SucceededHasEffect,
         Dispatched, tables
<1> QED
  BY <1>6, <1>7, <1>8, <1>9, <1>10, <1>11, <1>13, Frame

\* The tool writes the execution of the operation a task has dispatched.
LEMMA ExecutionStep ==
  ASSUME IInv, NEW t \in Tasks, pc[t] \in {"call", "recordFailure"},
         NEW s \in {"succeeded", "failed"}, execution = NoExecution,
         execution' = [status |-> s, version |-> rec[t].version,
                       params |-> rec[t].params],
         faults' \in 0..MaxFaults,
         NEW target \in {"succeeded", "failed", "pending_verification"},
         Outcome(t, target), target = "succeeded" => s = "succeeded"
  PROVE  IInv'
<1>1. /\ TypeOK /\ Control(t) /\ Backed(op) /\ Backed(rec[t])
      /\ Len(reviews) \in Nat /\ rec[t] \in Row
  BY LenProperties DEF IInv, TypeOK, ControlOK, RecordsBacked
<1>2. /\ LocalTypes' /\ OthersKept(t) /\ pc'[t] = "settle" /\ goal'[t] = target
  BY <1>1, GoOnKeeps DEF Labels, CasPoints, Outcome, TypeOK
<1>3. UNCHANGED <<op, versionRows, reviews, confirmations, attempts, processed,
                  redis, time, job, rec, ev, history>>
  BY DEF Outcome
<1>4. /\ rec[t].version = op.version /\ rec[t].params = op.params
      /\ op.status \in Dispatched /\ rec[t].status # NotCreated
  BY <1>1 DEF Control, IInv, Agreement, SameSubject
<1>5. /\ execution' \in Execution /\ execution'.status = s
      /\ execution'.version = op.version /\ execution'.params = op.params
  BY <1>1, <1>4 DEF Execution, Row
<1>6. TypeOK'
  BY <1>1, <1>2, <1>3, <1>5 DEF TypeOK, LocalTypes, redis, time, history
<1>7. Grows
  BY <1>1, <1>3 DEF Grows, NoExecution, history
<1>8. Backed(op)' /\ Backed(rec[t])'
  BY <1>1, <1>3 DEF Backed, history
<1>9. ReviewsBacked' /\ OneVersionExecutes'
  BY <1>3 DEF IInv, ReviewsBacked, OneVersionExecutes
<1>10. SucceededHasEffect'
  BY <1>3 DEF IInv, SucceededHasEffect, NoExecution
<1>11. Control(t)'
  BY <1>1, <1>2, <1>3, <1>5 DEF Control
<1>12. Agreement'
  BY <1>3, <1>4, <1>5 DEF IInv, Agreement, SameSubject
<1> QED
  BY <1>2, <1>6, <1>7, <1>8, <1>9, <1>10, <1>11, <1>12, Frame

LEMMA StepToolCommits ==
  ASSUME IInv, NEW t \in Tasks, ToolCommits(t) PROVE IInv'
<1>1. /\ pc[t] \in {"call", "recordFailure"} /\ execution = NoExecution
      /\ execution' = [status |-> "succeeded", version |-> rec[t].version,
                       params |-> rec[t].params]
      /\ faults' \in 0..MaxFaults
  BY ConstantsAssumption DEF ToolCommits, IInv, TypeOK
<1>2. \E target \in {"succeeded", "failed", "pending_verification"} :
        Outcome(t, target)
  BY DEF ToolCommits
<1> QED
  BY <1>1, <1>2, ExecutionStep

LEMMA StepRecordFailure ==
  ASSUME IInv, NEW t \in Tasks, RecordFailure(t) PROVE IInv'
<1>1. pc[t] = "recordFailure" /\ Outcome(t, "failed") /\ faults' \in 0..MaxFaults
  BY DEF RecordFailure, IInv, TypeOK
<1>2. CASE execution = NoExecution
  BY <1>1, <1>2, ExecutionStep DEF RecordFailure
<1>3. CASE execution # NoExecution
  BY <1>1, <1>3, OutcomeStep DEF RecordFailure
<1> QED
  BY <1>2, <1>3

-----------------------------------------------------------------------------
(* The invariant, and what follows from it.                                 *)

LEMMA InitHolds == Init => IInv
<1> SUFFICES ASSUME Init PROVE IInv
  OBVIOUS
<1>1. /\ MaxVersion \in Nat \ {0} /\ MaxDeadlines \in Nat /\ MaxFaults \in Nat
  BY ConstantsAssumption
<1>2. NoRow \in Row /\ NoExecution \in Execution /\ NoKey \in ConfKey
  BY <1>1 DEF NoRow, Row, NoExecution, Execution, NoKey, ConfKey
<1>3. /\ reviews \in Seq(Review) /\ Len(reviews) = 0
  BY EmptySeq DEF Init
<1>4. TypeOK
  <2>1. {"none", "expireRisk"} \subseteq Jobs
    BY DEF Jobs, MonitorSteps
  <2>2. "idle" \in Labels /\ "none" \in AttemptStatuses
    BY DEF Labels, AttemptStatuses
  <2> QED
    BY <1>1, <1>2, <1>3, <2>1, <2>2 DEF Init, TypeOK
<1>5. Backed(NoRow)
  BY DEF Backed, NoRow, NotCreated, Versioned, Approved, Dispatched
<1>6. RecordsBacked
  BY <1>5 DEF Init, RecordsBacked
<1>7. ReviewsBacked
  BY <1>3 DEF Init, ReviewsBacked
<1>8. ControlOK
  BY DEF Init, ControlOK, Control
<1>9. Agreement /\ OneVersionExecutes /\ SucceededHasEffect
  BY DEF Init, Agreement, OneVersionExecutes, SucceededHasEffect, NoRow,
         NoExecution, NotCreated, Dispatched
<1> QED
  BY <1>4, <1>6, <1>7, <1>8, <1>9 DEF IInv

LEMMA StepHolds ==
  ASSUME IInv, NEW t \in Tasks, Step(t) \/ Abort(t) PROVE IInv'
<1>1. CASE \/ ResolveEntities(t) \/ RejectParams(t) \/ AskForMore(t)
           \/ AddVersion(t) \/ Validate(t) \/ DenyPermission(t) \/ Permit(t)
           \/ RequestReview(t) \/ Reopen(t) \/ SupersedeReview(t) \/ DropKey(t)
  BY <1>1, StepResolveEntities, StepMoveAndReturn, StepAskForMore,
     StepAddVersion, StepValidate, StepPermit, StepRequestReview, StepReopen,
     StepSupersedeReview, StepDropKey
<1>2. CASE \/ ApplyRiskResult(t) \/ CompleteReview(t) \/ ApplyManualResult(t)
           \/ MarkEvent(t) \/ PutKey(t) \/ PutKeyFails(t) \/ OfferConfirmation(t)
           \/ ReadKey(t) \/ AddConfirmation(t) \/ CommitConfirm(t) \/ Expire(t)
           \/ Cancel(t)
  BY <1>2, StepApplyResult, StepCompleteReview, StepMarkEvent, StepPutKey,
     StepRaises, StepMoveAndReturn, StepReadKey, StepAddConfirmation,
     StepCommitConfirm, StepExpire, StepCancel
<1>3. CASE \/ StartExecution(t) \/ AcquireLock(t) \/ ToolFindsExecution(t)
           \/ ToolCommits(t) \/ ToolRefuses(t) \/ RecordFailure(t)
           \/ ToolBreaks(t) \/ Settle(t) \/ RecordAttempt(t)
           \/ QueryExecution(t) \/ ConcurrentModification(t) \/ Abort(t)
  BY <1>3, StepStartExecution, StepAcquireLock, StepToolFindsExecution,
     StepToolCommits, StepToolRefuses, StepRecordFailure, StepToolBreaks,
     StepSettle, StepRecordAttempt, StepQueryExecution, StepRaises
<1> QED
  BY <1>1, <1>2, <1>3 DEF Step

LEMMA StutterHolds == ASSUME IInv, UNCHANGED vars PROVE IInv'
<1>1. UNCHANGED <<op, tables, redis, time, local, faults, history>>
  BY DEF vars
<1>2. TypeOK'
  BY <1>1 DEF IInv, TypeOK, tables, redis, time, local, history
<1>3. RecordsBacked' /\ ReviewsBacked'
  BY <1>1 DEF IInv, RecordsBacked, Backed, ReviewsBacked, tables, local, history
<1>4. ControlOK'
  BY SMTT(30), <1>1 DEF IInv, ControlOK, Control, Answered, tables, local, history
<1>5. Agreement' /\ OneVersionExecutes' /\ SucceededHasEffect'
  BY <1>1 DEF IInv, Agreement, SameSubject, OneVersionExecutes,
              SucceededHasEffect, tables, local
<1> QED
  BY <1>2, <1>3, <1>4, <1>5 DEF IInv

LEMMA NextHolds == IInv /\ [Next]_vars => IInv'
<1> SUFFICES ASSUME IInv, [Next]_vars PROVE IInv'
  OBVIOUS
<1>1. Handlers \subseteq Tasks /\ Monitors \subseteq Tasks
  BY DEF Tasks
<1>2. ASSUME NEW t \in Handlers, Arrival(t) PROVE IInv'
  BY <1>1, <1>2, StepCreate, StepStartUpdate, StepReceiveRiskResult,
     StepReceiveManualResult, StepStartConfirm, StepStartCancel,
     StepStartReconcile DEF Arrival
<1>3. ASSUME NEW t \in Tasks, Step(t) \/ Abort(t) PROVE IInv'
  BY <1>3, StepHolds
<1>4. ASSUME NEW m \in Monitors, MonitorStep(m) PROVE IInv'
  BY <1>1, <1>4, StepScan, StepRequire, StepTimeOutReview, StepMarkTimeout
     DEF MonitorStep
<1>5. CASE Tick
  BY <1>5, StepTick
<1>6. CASE UNCHANGED vars
  BY <1>6, StutterHolds
<1> QED
  BY <1>2, <1>3, <1>4, <1>5, <1>6 DEF Next

\* However many tasks interleave and wherever they are interrupted, the
\* invariant holds.
THEOREM Invariance == Spec => []IInv
BY InitHolds, NextHolds, PTL DEF Spec

\* The row, the tables, Redis and every coroutine's locals hold values of their
\* types: no handler stores a half-built record.
THEOREM TypeCorrect == Spec => []TypeOK
<1>1. IInv => TypeOK
  BY DEF IInv
<1> QED
  BY <1>1, Invariance, PTL

\* No operation is dispatched without an approval by the risk agent of the very
\* version and parameters it carries.
THEOREM Approval == Spec => []ExecutedIsApproved
<1>1. IInv => ExecutedIsApproved
  BY DEF IInv, RecordsBacked, Backed, ExecutedIsApproved
<1> QED
  BY <1>1, Invariance, PTL

\* No operation with large parameters is dispatched without the customer's
\* second confirmation of that version and that hash.
THEOREM Confirmation == Spec => []ExecutedIsConfirmed
<1>1. ASSUME IInv PROVE ExecutedIsConfirmed
  <2>1. op.status \in Dispatched \cup {"confirmed"} => op.status \in Versioned
    BY DEF Dispatched, Versioned
  <2> QED
    BY <1>1, <2>1 DEF IInv, RecordsBacked, Backed, ExecutedIsConfirmed
<1> QED
  BY <1>1, Invariance, PTL

\* Money and shares move for the version and the parameters of the row only,
\* and the row stays as it is afterwards.
THEOREM Effect == Spec => []EffectMatchesOperation
<1>1. IInv => EffectMatchesOperation
  BY DEF IInv, Agreement, SameSubject, EffectMatchesOperation
<1> QED
  BY <1>1, Invariance, PTL

\* What is reported as succeeded has been executed.
THEOREM ReportedEffect == Spec => []SucceededHasEffect
<1>1. IInv => SucceededHasEffect
  BY DEF IInv
<1> QED
  BY <1>1, Invariance, PTL

\* Only the current version of a dispatched operation is ever attempted.
THEOREM SingleAttempt == Spec => []OneVersionExecutes
<1>1. IInv => OneVersionExecutes
  BY DEF IInv
<1> QED
  BY <1>1, Invariance, PTL

\* The review an operation refers to is one of its current version and showed
\* the risk agent its current parameters.
THEOREM ReviewIsCurrent == Spec => []CurrentReviewIsCurrent
<1>1. ASSUME IInv PROVE CurrentReviewIsCurrent
  <2>1. Len(reviews) \in Nat
    BY <1>1, LenProperties DEF IInv, TypeOK
  <2> QED
    BY <1>1, <2>1 DEF IInv, RecordsBacked, Backed, ReviewsBacked,
                      CurrentReviewIsCurrent
<1> QED
  BY <1>1, Invariance, PTL

-----------------------------------------------------------------------------
(* Refinement.  OperationService implements OperationLifecycle.            *)
(*                                                                         *)
(* A task writes back the record it read, so that the abstract step needs  *)
(* the invariant above: a record whose status and version are those of the *)
(* row also has its parameters once they are stored as a version.          *)

\* A step as the life cycle sees it.
Implements == Lifecycle!Next \/ UNCHANGED Lifecycle!lifecycle

\* What the life cycle does not see of a step.
Unseen == UNCHANGED <<op, execution, approvals, consents>>

LEMMA UnseenImplements == ASSUME Unseen PROVE Implements
  BY DEF Unseen, Implements, Lifecycle!lifecycle

\* The statuses by phase.
LEMMA Phases ==
  /\ PhaseOf(NotCreated) = "none"
  /\ \A s \in Drafts : PhaseOf(s) = "draft"
  /\ \A s \in {"waiting_risk_review", "manual_review"} : PhaseOf(s) = "review"
  /\ PhaseOf("risk_approved") = "approved"
  /\ PhaseOf("pending_confirmation") = "offered"
  /\ PhaseOf("confirmed") = "confirmed"
  /\ \A s \in {"executing", "pending_verification"} : PhaseOf(s) = "running"
  /\ PhaseOf("succeeded") = "succeeded" /\ PhaseOf("failed") = "failed"
  /\ \A s \in {"permission_denied", "validation_failed", "risk_rejected",
               "risk_review_timeout", "cancelled", "expired"} :
       PhaseOf(s) = "closed"
  BY DEF PhaseOf, NotCreated, Drafts

\* A write that the compare-and-set admits changes no parameters of a version.
LEMMA Written ==
  ASSUME IInv, NEW t \in Tasks, NEW target, Transition(t, rec[t], target),
         pc[t] \notin {"idle", "require", "validate"}
  PROVE  /\ target \in ALLOWED_TRANSITIONS(op.status)
         /\ op'.status = target /\ op'.version = op.version
         /\ op.params \in Params /\ op'.params \in Params
         /\ op'.params = rec[t].params
         /\ op.status \in Versioned => op'.params = op.params
<1>1. op \in Row /\ rec[t] \in Row
  BY DEF IInv, TypeOK
<1>2. /\ rec[t].status = op.status /\ rec[t].version = op.version
      /\ target \in ALLOWED_TRANSITIONS(op.status)
  BY DEF Transition, CasHolds, ExpectedVersion, CanMove
<1>3. /\ op'.status = target /\ op'.version = rec[t].version
      /\ op'.params = rec[t].params
  BY <1>1 DEF Transition, Row
<1>4. rec[t].status # NotCreated /\ Backed(rec[t]) /\ Backed(op)
  BY DEF IInv, ControlOK, Control, RecordsBacked
<1>5. op.params \in Params /\ rec[t].params \in Params
  BY <1>2, <1>4 DEF Backed
<1>6. op.status \in Versioned => op.params = rec[t].params
  BY <1>2, <1>4 DEF Backed
<1> QED
  BY <1>2, <1>3, <1>5, <1>6

-----------------------------------------------------------------------------
(* Drafts.                                                                 *)

LEMMA CreateImplements ==
  ASSUME IInv, NEW t \in Tasks, Create(t) PROVE Implements
<1>1. op.status = NotCreated /\ UNCHANGED <<execution, approvals, consents>>
  BY DEF Create, tables, history
<1>2. op'.status = "draft" /\ op'.version = 1 /\ op'.params \in Params
  BY DEF Create, NoRow
<1>3. Lifecycle!Submit
  BY <1>1, <1>2, Phases DEF Lifecycle!Submit, Lifecycle!Enter, Drafts
<1> QED
  BY <1>3 DEF Implements, Lifecycle!Next

\* Most moves are told by the status they lead to.
LEMMA MoveImplements ==
  ASSUME IInv, NEW t \in Tasks,
         NEW target \in {"resolving_entities", "validation_failed",
                         "permission_denied", "waiting_risk_review",
                         "pending_confirmation", "cancelled", "expired",
                         "risk_rejected", "risk_review_timeout"},
         Transition(t, rec[t], target),
         pc[t] \notin {"idle", "require", "validate"},
         UNCHANGED <<execution, approvals, consents>>
  PROVE  Implements
<1>1. /\ target \in ALLOWED_TRANSITIONS(op.status)
      /\ op'.status = target /\ op'.version = op.version
      /\ op'.params \in Params
      /\ op.status \in Versioned => op'.params = op.params
  BY Written
<1> SUFFICES \/ Lifecycle!Revise \/ Lifecycle!Reopen \/ Lifecycle!AskForReview
             \/ Lifecycle!Offer \/ Lifecycle!Close
  BY DEF Implements, Lifecycle!Next
<1>2. CASE target = "resolving_entities"
  <2>1. \/ op.status \in {"draft", "need_more_information"}
        \/ op.status \in {"waiting_risk_review", "risk_approved",
                          "pending_confirmation"}
    BY <1>1, <1>2 DEF ALLOWED_TRANSITIONS
  <2>2. CASE op.status \in {"draft", "need_more_information"}
    BY <1>1, <1>2, <2>2, Phases
       DEF Lifecycle!Revise, Lifecycle!Enter, Drafts
  <2>3. CASE op.status \in {"waiting_risk_review", "risk_approved",
                            "pending_confirmation"}
    BY <1>1, <1>2, <2>3, Phases
       DEF Lifecycle!Reopen, Lifecycle!Enter, Drafts, Versioned
  <2> QED
    BY <2>1, <2>2, <2>3
<1>3. CASE target = "waiting_risk_review"
  <2>1. op.status = "validating"
    BY <1>1, <1>3 DEF ALLOWED_TRANSITIONS
  <2> QED
    BY <1>1, <1>3, <2>1, Phases
       DEF Lifecycle!AskForReview, Lifecycle!Enter, Drafts, Versioned
<1>4. CASE target = "pending_confirmation"
  <2>1. op.status = "risk_approved"
    BY <1>1, <1>4 DEF ALLOWED_TRANSITIONS
  <2> QED
    BY <1>1, <1>4, <2>1, Phases DEF Lifecycle!Offer, Lifecycle!Enter, Versioned
<1>5. CASE target \in {"validation_failed", "permission_denied", "cancelled",
                       "expired", "risk_rejected", "risk_review_timeout"}
  <2>1. \/ op.status \in Drafts
        \/ op.status \in {"waiting_risk_review", "manual_review",
                          "risk_approved", "pending_confirmation", "confirmed"}
    BY <1>1, <1>5 DEF ALLOWED_TRANSITIONS, Drafts
  <2>2. PhaseOf(op'.status) = "closed"
    BY <1>1, <1>5, Phases
  <2>3. CASE op.status \in Drafts
    BY <1>1, <2>2, <2>3, Phases DEF Lifecycle!Close, Lifecycle!Enter
  <2>4. CASE op.status \in {"waiting_risk_review", "manual_review",
                            "risk_approved", "pending_confirmation", "confirmed"}
    BY <1>1, <2>2, <2>4, Phases
       DEF Lifecycle!Close, Lifecycle!Enter, Versioned
  <2> QED
    BY <2>1, <2>3, <2>4
<1> QED
  BY <1>2, <1>3, <1>4, <1>5

LEMMA MovesImplement ==
  ASSUME IInv, NEW t \in Tasks,
         \/ ResolveEntities(t) \/ RejectParams(t) \/ DenyPermission(t)
         \/ Permit(t) \/ Reopen(t) \/ OfferConfirmation(t) \/ Expire(t)
         \/ Cancel(t) \/ TimeOutReview(t)
  PROVE  Implements
<1>1. UNCHANGED <<execution, approvals, consents>>
  BY DEF ResolveEntities, RejectParams, DenyPermission, Permit, Reopen,
         OfferConfirmation, Expire, Cancel, TimeOutReview, tables, history
<1>2. /\ pc[t] \notin {"idle", "require", "validate"}
      /\ \E target \in {"resolving_entities", "validation_failed",
                        "permission_denied", "waiting_risk_review",
                        "pending_confirmation", "cancelled", "expired",
                        "risk_rejected", "risk_review_timeout"} :
           Transition(t, rec[t], target)
  BY DEF ResolveEntities, RejectParams, DenyPermission, Permit, Reopen,
         OfferConfirmation, Expire, Cancel, TimeOutReview
<1> QED
  BY <1>1, <1>2, MoveImplements

LEMMA AskForMoreImplements ==
  ASSUME IInv, NEW t \in Tasks, AskForMore(t) PROVE Implements
<1>1. pc[t] = "normalise" /\ UNCHANGED <<execution, approvals, consents>>
  BY DEF AskForMore, tables, history
<1>2. /\ rec[t].status = "resolving_entities" /\ rec[t] \in Row
      /\ rec[t].params \in Params
  BY <1>1 DEF IInv, TypeOK, ControlOK, Control, RecordsBacked, Backed, NotCreated
<1>3. PICK p \in Merged(t) :
        Transition(t, [rec[t] EXCEPT !.params = p], "need_more_information")
  BY DEF AskForMore
<1>4. p \in Params
  BY <1>2, <1>3 DEF Merged
<1>5. /\ op.status = "resolving_entities" /\ op'.status = "need_more_information"
      /\ op'.version = op.version /\ op'.params = p
  BY <1>1, <1>2, <1>3 DEF Transition, CasHolds, ExpectedVersion, Row
<1>6. Lifecycle!Revise
  BY <1>1, <1>4, <1>5, Phases DEF Lifecycle!Revise, Lifecycle!Enter, Drafts
<1> QED
  BY <1>6 DEF Implements, Lifecycle!Next

\* An update writes the version that follows the one it read.
LEMMA ValidateImplements ==
  ASSUME IInv, NEW t \in Tasks, Validate(t) PROVE Implements
<1>1. /\ pc[t] = "validate" /\ Transition(t, rec[t], "validating")
      /\ UNCHANGED <<execution, approvals, consents>>
  BY DEF Validate, tables, history
<1>2. rec[t] \in Row /\ op \in Row /\ rec[t].params \in Params
  BY <1>1 DEF IInv, TypeOK, ControlOK, Control, RecordsBacked, Backed
<1>3. rec[t].version \in Nat /\ op.version \in Nat
  BY <1>2, ConstantsAssumption DEF Row
<1>4. /\ op.status = rec[t].status
      /\ "validating" \in ALLOWED_TRANSITIONS(op.status)
      /\ op.version \in {rec[t].version, rec[t].version - 1}
  BY <1>1 DEF Transition, CasHolds, CanMove, ExpectedVersion
<1>5. op.status = "resolving_entities"
  BY <1>4 DEF ALLOWED_TRANSITIONS
<1>6. /\ op'.status = "validating" /\ op'.params \in Params
      /\ op'.version \in {op.version, op.version + 1}
  BY <1>1, <1>2, <1>3, <1>4 DEF Transition, Row
<1>7. Lifecycle!Revise
  BY <1>1, <1>5, <1>6, Phases DEF Lifecycle!Revise, Lifecycle!Enter, Drafts
<1> QED
  BY <1>7 DEF Implements, Lifecycle!Next

-----------------------------------------------------------------------------
(* Decisions.                                                              *)

\* The approval is for what the row carries: the result answers a review of
\* its version, and that review showed the parameters of that version.
LEMMA ResultImplements ==
  ASSUME IInv, NEW t \in Tasks, ApplyRiskResult(t) \/ ApplyManualResult(t)
  PROVE  Implements
<1>1. /\ pc[t] \in {"applyRisk", "applyManual"}
      /\ Transition(t, rec[t], RiskTarget(ev[t].decision))
      /\ RecordApproval(ev[t])
      /\ UNCHANGED <<execution, consents>>
  BY DEF ApplyRiskResult, ApplyManualResult, tables
<1>2. /\ rec[t].status \in {"waiting_risk_review", "manual_review"}
      /\ Answered(t) /\ Backed(op) /\ op.status = rec[t].status
      /\ op.version = rec[t].version
  BY <1>1 DEF IInv, ControlOK, Control, RecordsBacked, Transition, CasHolds,
              ExpectedVersion
<1>3. Subject(ev[t]) = <<op.version, op.params>>
  BY <1>2 DEF Answered, Backed, Versioned, IInv, ReviewsBacked, Subject
<1>4. /\ RiskTarget(ev[t].decision) \in ALLOWED_TRANSITIONS(op.status)
      /\ op'.status = RiskTarget(ev[t].decision) /\ op'.version = op.version
      /\ op'.params = op.params
  BY <1>1, <1>2, Written DEF Versioned
<1>5. ev[t].decision \in Decisions
  BY <1>2 DEF Answered, Event
<1>6. CASE ev[t].decision = "approved"
  <2>1. op'.status = "risk_approved"
    BY <1>4, <1>6 DEF RiskTarget
  <2>2. approvals' = approvals \cup {<<op.version, op.params>>}
    BY <1>1, <1>3, <1>6 DEF RecordApproval
  <2>3. Lifecycle!Approve
    BY <1>1, <1>2, <1>4, <2>1, <2>2, Phases
       DEF Lifecycle!Approve, Lifecycle!Enter, Lifecycle!Subject
  <2> QED
    BY <2>3 DEF Implements, Lifecycle!Next
<1>7. CASE ev[t].decision = "rejected"
  <2>1. op'.status = "risk_rejected" /\ approvals' = approvals
    BY <1>1, <1>4, <1>7 DEF RiskTarget, RecordApproval
  <2>2. Lifecycle!Close
    BY <1>1, <1>2, <1>4, <2>1, Phases DEF Lifecycle!Close, Lifecycle!Enter
  <2> QED
    BY <2>2 DEF Implements, Lifecycle!Next
<1>8. CASE ev[t].decision = "manual_review"
  <2>1. op'.status = "manual_review" /\ approvals' = approvals
    BY <1>1, <1>4, <1>8 DEF RiskTarget, RecordApproval
  <2> QED
    BY <1>1, <1>2, <1>4, <2>1, Phases DEF Implements, Lifecycle!lifecycle
<1> QED
  BY <1>5, <1>6, <1>7, <1>8 DEF Decisions

LEMMA ReadKeyImplements ==
  ASSUME IInv, NEW t \in Tasks, ReadKey(t) PROVE Implements
<1>1. UNCHANGED <<op, execution, approvals>>
  BY DEF ReadKey, tables
<1>2. \/ consents' = consents
      \/ \E v \in Versions, h \in Params : consents' = consents \cup {<<v, h>>}
  BY DEF ReadKey
<1>3. CASE consents' = consents
  BY <1>1, <1>3, UnseenImplements DEF Unseen
<1>4. CASE \E v \in Versions, h \in Params :
             consents' = consents \cup {<<v, h>>}
  BY <1>1, <1>4 DEF Implements, Lifecycle!Next, Lifecycle!Consent
<1> QED
  BY <1>2, <1>3, <1>4

LEMMA CommitConfirmImplements ==
  ASSUME IInv, NEW t \in Tasks, CommitConfirm(t) PROVE Implements
<1>1. /\ pc[t] = "commitConfirm" /\ Transition(t, rec[t], "confirmed")
      /\ UNCHANGED <<execution, approvals, consents>>
  BY DEF CommitConfirm, tables, history
<1>2. /\ "confirmed" \in ALLOWED_TRANSITIONS(op.status)
      /\ op'.status = "confirmed" /\ op'.version = op.version
      /\ op.status \in Versioned => op'.params = op.params
      /\ op'.params = rec[t].params
  BY <1>1, Written
<1>3. op.status = "pending_confirmation"
  BY <1>2 DEF ALLOWED_TRANSITIONS
<1>4. <<op.version, op.params>> \in consents
  <2>1. /\ <<rec[t].version, rec[t].hash>> \in consents /\ Backed(rec[t])
        /\ rec[t].status = op.status /\ rec[t].version = op.version
    BY <1>1 DEF IInv, ControlOK, Control, RecordsBacked, Transition, CasHolds,
                ExpectedVersion
  <2> QED
    BY <1>2, <1>3, <2>1 DEF Backed, Versioned
<1>5. Lifecycle!Confirm
  BY <1>1, <1>2, <1>3, <1>4, Phases
     DEF Lifecycle!Confirm, Lifecycle!Enter, Lifecycle!Subject, Versioned
<1> QED
  BY <1>5 DEF Implements, Lifecycle!Next

-----------------------------------------------------------------------------
(* Execution.                                                              *)

LEMMA StartExecutionImplements ==
  ASSUME IInv, NEW t \in Tasks, StartExecution(t) PROVE Implements
<1>1. /\ pc[t] = "execute" /\ Transition(t, rec[t], "executing")
      /\ UNCHANGED <<execution, approvals, consents>>
  BY DEF StartExecution, history
<1>2. /\ "executing" \in ALLOWED_TRANSITIONS(op.status)
      /\ op'.status = "executing" /\ op'.version = op.version
      /\ op.status \in Versioned => op'.params = op.params
      /\ op'.params = rec[t].params
  BY <1>1, Written
<1>3. op.status \in {"risk_approved", "confirmed"}
  BY <1>2 DEF ALLOWED_TRANSITIONS
<1>4. op.status = "risk_approved" => op.params \notin LargeParams
  <2>1. /\ rec[t].status = "risk_approved" => ~rec[t].needConf
        /\ Backed(rec[t]) /\ rec[t].status = op.status
    BY <1>1 DEF IInv, ControlOK, Control, RecordsBacked, Transition, CasHolds
  <2> QED
    BY <1>2, <2>1 DEF Backed, Versioned
<1>5. Lifecycle!Execute
  BY <1>1, <1>2, <1>3, <1>4, Phases
     DEF Lifecycle!Execute, Lifecycle!Enter, Versioned
<1> QED
  BY <1>5 DEF Implements, Lifecycle!Next

\* A task that calls the tool carries the subject of the row.
LEMMA ToolCommitsImplements ==
  ASSUME IInv, NEW t \in Tasks, ToolCommits(t) PROVE Implements
<1>1. /\ pc[t] = "call" /\ execution = NoExecution
      /\ execution' = [status |-> "succeeded", version |-> rec[t].version,
                       params |-> rec[t].params]
      /\ UNCHANGED <<op, approvals, consents>>
  BY DEF ToolCommits, Outcome, history
<1>2. SameSubject(rec[t], op)
  BY <1>1 DEF IInv, ControlOK, Control, Agreement
<1>3. op.status \in {"executing", "pending_verification", "failed"}
  BY <1>1, <1>2 DEF SameSubject, Dispatched, IInv, SucceededHasEffect, NoExecution
<1>4. /\ EffectOf(execution) = <<0, NoParams>>
      /\ EffectOf(execution') = <<op.version, op.params>>
  BY <1>1, <1>2 DEF EffectOf, NoExecution, SameSubject
<1>5. Lifecycle!TakeEffect
  BY <1>1, <1>3, <1>4, Phases
     DEF Lifecycle!TakeEffect, Lifecycle!Nothing, Lifecycle!Subject
<1> QED
  BY <1>5 DEF Implements, Lifecycle!Next

LEMMA RecordFailureImplements ==
  ASSUME IInv, NEW t \in Tasks, RecordFailure(t) PROVE Implements
<1>1. UNCHANGED <<op, approvals, consents>>
  BY DEF RecordFailure, Outcome, history
<1>2. EffectOf(execution') = EffectOf(execution)
  BY DEF RecordFailure, EffectOf, NoExecution
<1> QED
  BY <1>1, <1>2 DEF Implements, Lifecycle!lifecycle

LEMMA SettleImplements ==
  ASSUME IInv, NEW t \in Tasks, Settle(t) PROVE Implements
<1>1. /\ pc[t] = "settle" /\ Transition(t, rec[t], goal[t])
      /\ UNCHANGED <<execution, approvals, consents>>
  BY DEF Settle, tables, history
<1>2. goal[t] \in {"none", "succeeded", "failed", "pending_verification"}
  BY DEF IInv, TypeOK
<1>3. /\ goal[t] \in ALLOWED_TRANSITIONS(op.status)
      /\ op'.status = goal[t] /\ op'.version = op.version
      /\ op.status \in Versioned => op'.params = op.params
  BY <1>1, Written
<1>4. /\ op.status \in {"executing", "pending_verification"}
      /\ goal[t] \in {"succeeded", "failed", "pending_verification"}
  BY <1>2, <1>3 DEF ALLOWED_TRANSITIONS
<1>5. op'.params = op.params
  BY <1>3, <1>4 DEF Versioned
<1>6. CASE goal[t] = "succeeded"
  <2>1. execution.status = "succeeded"
    BY <1>1, <1>6 DEF IInv, ControlOK, Control
  <2>2. EffectOf(execution) = <<op.version, op.params>>
    BY <2>1 DEF IInv, Agreement, SameSubject, EffectOf
  <2>3. Lifecycle!Succeed
    BY <1>1, <1>3, <1>4, <1>5, <1>6, <2>2, Phases
       DEF Lifecycle!Succeed, Lifecycle!Enter, Lifecycle!Subject
  <2> QED
    BY <2>3 DEF Implements, Lifecycle!Next
<1>7. CASE goal[t] = "failed"
  <2>1. Lifecycle!Fail
    BY <1>1, <1>3, <1>4, <1>5, <1>7, Phases DEF Lifecycle!Fail, Lifecycle!Enter
  <2> QED
    BY <2>1 DEF Implements, Lifecycle!Next
<1>8. CASE goal[t] = "pending_verification"
  BY <1>1, <1>3, <1>4, <1>5, <1>8, Phases DEF Implements, Lifecycle!lifecycle
<1> QED
  BY <1>4, <1>6, <1>7, <1>8

-----------------------------------------------------------------------------
(* What remains writes other tables, Redis or locals only.                 *)

LEMMA RequestReviewImplements ==
  ASSUME IInv, NEW t \in Tasks, RequestReview(t) PROVE Implements
<1>1. op \in Row
  BY DEF IInv, TypeOK
<1>2. /\ op'.status = op.status /\ op'.version = op.version
      /\ op'.params = op.params
      /\ UNCHANGED <<execution, approvals, consents>>
  BY <1>1 DEF RequestReview, Row, history
<1> QED
  BY <1>2 DEF Implements, Lifecycle!lifecycle

LEMMA HandlersUnseen ==
  ASSUME NEW t \in Tasks,
         \/ StartUpdate(t) \/ ReceiveRiskResult(t) \/ ReceiveManualResult(t)
         \/ StartConfirm(t) \/ StartCancel(t) \/ StartReconcile(t)
         \/ AddVersion(t) \/ SupersedeReview(t) \/ DropKey(t)
         \/ CompleteReview(t) \/ MarkEvent(t) \/ PutKey(t) \/ PutKeyFails(t)
         \/ AddConfirmation(t)
  PROVE  Unseen
  BY DEF StartUpdate, ReceiveRiskResult, ReceiveManualResult, StartConfirm,
         StartCancel, StartReconcile, AddVersion, SupersedeReview, DropKey,
         CompleteReview, MarkEvent, PutKey, PutKeyFails, AddConfirmation,
         SetReview, Unseen, tables, history

LEMMA OthersUnseen ==
  ASSUME NEW t \in Tasks,
         \/ AcquireLock(t) \/ ToolFindsExecution(t) \/ ToolRefuses(t)
         \/ ToolBreaks(t) \/ RecordAttempt(t) \/ QueryExecution(t)
         \/ ConcurrentModification(t) \/ Abort(t) \/ Scan(t) \/ Require(t)
         \/ MarkTimeout(t)
  PROVE  Unseen
  BY DEF AcquireLock, ToolFindsExecution, ToolRefuses, ToolBreaks,
         RecordAttempt, QueryExecution, ConcurrentModification, Abort, Scan,
         Require, MarkTimeout, SetReview, Outcome, Unseen, tables, history

-----------------------------------------------------------------------------
LEMMA InitImplements == Init => Lifecycle!Init
  BY Phases DEF Init, Lifecycle!Init, Lifecycle!Nothing, EffectOf, NoRow,
                NoExecution

LEMMA StepImplements ==
  ASSUME IInv, NEW t \in Tasks,
         Arrival(t) \/ Step(t) \/ Abort(t) \/ MonitorStep(t)
  PROVE  Implements
<1>1. CASE Arrival(t)
  BY <1>1, CreateImplements, HandlersUnseen, UnseenImplements DEF Arrival
<1>2. CASE Step(t)
  BY <1>2, MovesImplement, AskForMoreImplements, ValidateImplements,
     ResultImplements, ReadKeyImplements, CommitConfirmImplements,
     StartExecutionImplements, ToolCommitsImplements, RecordFailureImplements,
     SettleImplements, RequestReviewImplements, HandlersUnseen, OthersUnseen,
     UnseenImplements DEF Step
<1>3. CASE Abort(t)
  BY <1>3, OthersUnseen, UnseenImplements
<1>4. CASE MonitorStep(t)
  BY <1>4, MovesImplement, OthersUnseen, UnseenImplements DEF MonitorStep
<1> QED
  BY <1>1, <1>2, <1>3, <1>4

LEMMA NextImplements == IInv /\ [Next]_vars => [Lifecycle!Next]_Lifecycle!lifecycle
<1> SUFFICES ASSUME IInv, [Next]_vars PROVE Implements
  BY DEF Implements
<1>1. Handlers \subseteq Tasks /\ Monitors \subseteq Tasks
  BY DEF Tasks
<1>2. CASE UNCHANGED vars
  BY <1>2, UnseenImplements DEF Unseen, vars, tables, history
<1>3. CASE Tick
  <2>1. Unseen
    BY <1>3 DEF Tick, ReviewLapses, DeadlineNears, DeadlineLapses, KeyExpires,
                Unseen, tables, history
  <2> QED
    BY <2>1, UnseenImplements
<1>4. CASE Next /\ ~ Tick
  BY <1>1, <1>4, StepImplements DEF Next
<1> QED
  BY <1>2, <1>3, <1>4 DEF Next

\* Whatever handlers, maintenance loops, repeated and late events, timeouts and
\* interrupted coroutines do to an operation is a step of the abstract life
\* cycle or invisible to it (service/nl2api/operation_service.py).
THEOREM Implementation == Spec => ImplementsLifecycle
<1>1. Init => Lifecycle!Init
  BY InitImplements
<1>2. IInv /\ [Next]_vars => [Lifecycle!Next]_Lifecycle!lifecycle
  BY NextImplements
<1> QED
  BY <1>1, <1>2, Invariance, PTL DEF Spec, ImplementsLifecycle, Lifecycle!Spec
-----------------------------------------------------------------------------
(* What a single step may do to the row and to the execution.              *)

\* The statuses move along the table, a terminal row is not written again, a
\* stored version keeps its parameters until the row goes back to be edited,
\* versions do not go back, and the first row of the execution is the last.
RowMoves ==
  /\ op'.status # op.status =>
       IF op.status = NotCreated THEN op'.status = "draft"
       ELSE CanMove(op.status, op'.status)
  /\ op.status \in TERMINAL_STATUSES => op' = op
  /\ op.status \in Versioned /\ op'.status \in Versioned =>
       op'.version = op.version /\ op'.params = op.params
  /\ op.status # NotCreated => op'.version >= op.version
  /\ execution # NoExecution => execution' = execution

\* Steps that write other tables, Redis or locals.
LEMMA StillMoves ==
  ASSUME IInv, op' = op, execution # NoExecution => execution' = execution
  PROVE  RowMoves
<1>1. op.version \in Nat
  BY ConstantsAssumption DEF IInv, TypeOK, Row
<1> QED
  BY <1>1 DEF RowMoves

\* Nothing leaves a terminal status, so that a transition never starts there.
LEMMA TransitionMoves ==
  ASSUME IInv, NEW t \in Tasks, NEW r \in Row, NEW target,
         Transition(t, r, target), UNCHANGED execution,
         rec[t].status # NotCreated, r.version \in Nat,
         r.version >= op.version,
         op.status \in Versioned /\ target \in Versioned =>
           r.version = op.version /\ r.params = op.params
  PROVE  RowMoves
<1>1. /\ CanMove(op.status, target) /\ op.status # NotCreated
      /\ target \in ALLOWED_TRANSITIONS(op.status)
  BY DEF Transition, CasHolds, CanMove
<1>2. /\ op'.status = target /\ op'.version = r.version
      /\ op'.params = r.params
  BY DEF Transition, Row
<1>3. op.status \notin TERMINAL_STATUSES
  BY <1>1 DEF ALLOWED_TRANSITIONS, TERMINAL_STATUSES
<1> QED
  BY <1>1, <1>2, <1>3 DEF RowMoves

LEMMA WrittenMoves ==
  ASSUME IInv, NEW t \in Tasks, NEW target, Transition(t, rec[t], target),
         UNCHANGED execution, pc[t] \notin {"idle", "require", "validate"}
  PROVE  RowMoves
<1>1. rec[t] \in Row /\ rec[t].version \in Nat
  BY ConstantsAssumption DEF IInv, TypeOK, Row
<1>2. rec[t].status # NotCreated /\ rec[t].version = op.version
  BY DEF IInv, ControlOK, Control, Transition, CasHolds, ExpectedVersion
<1>3. op.status \in Versioned => rec[t].params = op.params
  BY Written
<1> QED
  BY <1>1, <1>2, <1>3, TransitionMoves

LEMMA CreateMoves == ASSUME IInv, NEW t \in Tasks, Create(t) PROVE RowMoves
<1>1. op.status = NotCreated /\ execution' = execution
  BY DEF Create, tables
<1>2. op'.status = "draft" /\ op'.version = 1
  BY DEF Create, NoRow
<1> QED
  BY <1>1, <1>2 DEF RowMoves, NotCreated, TERMINAL_STATUSES, Versioned

LEMMA AskForMoreMoves ==
  ASSUME IInv, NEW t \in Tasks, AskForMore(t) PROVE RowMoves
<1>1. pc[t] = "normalise" /\ UNCHANGED execution
  BY DEF AskForMore, tables
<1>2. /\ rec[t] \in Row /\ rec[t].status # NotCreated
      /\ rec[t].version \in Nat /\ rec[t].params \in Params
  <2>1. Control(t) /\ Backed(rec[t])
    BY DEF IInv, ControlOK, RecordsBacked
  <2>2. rec[t].status # NotCreated
    BY <1>1, <2>1 DEF Control
  <2>3. rec[t] \in Row
    BY DEF IInv, TypeOK
  <2> QED
    BY <2>1, <2>2, <2>3, ConstantsAssumption DEF Backed, Row
<1>3. PICK p \in Merged(t) :
        Transition(t, [rec[t] EXCEPT !.params = p], "need_more_information")
  BY DEF AskForMore
<1> DEFINE r == [rec[t] EXCEPT !.params = p]
<1>4. p \in Params
  BY <1>2, <1>3 DEF Merged
<1>5. r \in Row /\ r.version = rec[t].version
  BY <1>2, <1>4 DEF Row
<1>6. rec[t].version = op.version
  BY <1>1, <1>3 DEF Transition, CasHolds, ExpectedVersion
<1>7. Transition(t, r, "need_more_information")
  BY <1>3
<1>8. "need_more_information" \notin Versioned
  BY DEF Versioned
<1> HIDE DEF r
<1> QED
  BY <1>1, <1>2, <1>5, <1>6, <1>7, <1>8, TransitionMoves

\* An update writes the version after the one it read, from a status in which
\* the row is being edited.
LEMMA ValidateMoves == ASSUME IInv, NEW t \in Tasks, Validate(t) PROVE RowMoves
<1>1. /\ pc[t] = "validate" /\ Transition(t, rec[t], "validating")
      /\ UNCHANGED execution
  BY DEF Validate, tables
<1>2. rec[t] \in Row /\ rec[t].status # NotCreated
  BY <1>1 DEF IInv, TypeOK, ControlOK, Control
<1>3. rec[t].version \in Nat /\ op.version \in Nat
  BY ConstantsAssumption DEF IInv, TypeOK, Row
<1>4. /\ "validating" \in ALLOWED_TRANSITIONS(op.status)
      /\ op.version \in {rec[t].version, rec[t].version - 1}
  BY <1>1 DEF Transition, CasHolds, CanMove, ExpectedVersion
<1>5. op.status \notin Versioned
  BY <1>4 DEF ALLOWED_TRANSITIONS, Versioned
<1>6. rec[t].version >= op.version
  BY <1>3, <1>4
<1> QED
  BY <1>1, <1>2, <1>3, <1>5, <1>6, TransitionMoves

LEMMA ExecutionMoves ==
  ASSUME IInv, NEW t \in Tasks, ToolCommits(t) \/ RecordFailure(t)
  PROVE  RowMoves
<1>1. op' = op /\ (execution # NoExecution => execution' = execution)
  BY DEF ToolCommits, RecordFailure, Outcome
<1> QED
  BY <1>1, StillMoves

\* Only the reference to the review changes, of a row that is not terminal.
LEMMA RequestReviewMoves ==
  ASSUME IInv, NEW t \in Tasks, RequestReview(t) PROVE RowMoves
<1>1. op \in Row /\ op.version \in Nat /\ execution' = execution
  BY ConstantsAssumption DEF IInv, TypeOK, Row, RequestReview
<1>2. /\ op'.status = op.status /\ op'.version = op.version
      /\ op'.params = op.params
  BY <1>1 DEF RequestReview, Row
<1>3. op.status \in TERMINAL_STATUSES => op' = op
  BY DEF RequestReview, AwaitsRequest, TERMINAL_STATUSES
<1> QED
  BY <1>1, <1>2, <1>3 DEF RowMoves

LEMMA MovesMove ==
  ASSUME IInv, NEW t \in Tasks,
         \/ ResolveEntities(t) \/ RejectParams(t) \/ DenyPermission(t)
         \/ Permit(t) \/ Reopen(t) \/ OfferConfirmation(t) \/ Expire(t)
         \/ Cancel(t) \/ TimeOutReview(t) \/ ApplyRiskResult(t)
         \/ ApplyManualResult(t) \/ CommitConfirm(t) \/ StartExecution(t)
         \/ Settle(t)
  PROVE  RowMoves
<1>1. UNCHANGED execution
  BY DEF ResolveEntities, RejectParams, DenyPermission, Permit, Reopen,
         OfferConfirmation, Expire, Cancel, TimeOutReview, ApplyRiskResult,
         ApplyManualResult, CommitConfirm, StartExecution, Settle, tables
<1>2. pc[t] \notin {"idle", "require", "validate"}
  BY DEF ResolveEntities, RejectParams, DenyPermission, Permit, Reopen,
         OfferConfirmation, Expire, Cancel, TimeOutReview, ApplyRiskResult,
         ApplyManualResult, CommitConfirm, StartExecution, Settle
<1>3. \E target : Transition(t, rec[t], target)
  BY DEF ResolveEntities, RejectParams, DenyPermission, Permit, Reopen,
         OfferConfirmation, Expire, Cancel, TimeOutReview, ApplyRiskResult,
         ApplyManualResult, CommitConfirm, StartExecution, Settle
<1> QED
  BY <1>1, <1>2, <1>3, WrittenMoves

LEMMA StepMoves ==
  ASSUME IInv, NEW t \in Tasks,
         Arrival(t) \/ Step(t) \/ Abort(t) \/ MonitorStep(t)
  PROVE  RowMoves
<1>1. ReadKey(t) => op' = op /\ execution' = execution
  BY DEF ReadKey, tables
<1>2. Unseen => RowMoves
  BY StillMoves DEF Unseen
<1>3. CASE Arrival(t)
  BY <1>2, <1>3, CreateMoves, HandlersUnseen DEF Arrival
<1>4. CASE Step(t)
  BY <1>1, <1>2, <1>4, MovesMove, AskForMoreMoves, ValidateMoves,
     ExecutionMoves, RequestReviewMoves, StillMoves, HandlersUnseen,
     OthersUnseen DEF Step
<1>5. CASE Abort(t)
  BY <1>2, <1>5, OthersUnseen
<1>6. CASE MonitorStep(t)
  BY <1>2, <1>6, MovesMove, OthersUnseen DEF MonitorStep
<1> QED
  BY <1>3, <1>4, <1>5, <1>6

LEMMA NextMoves == IInv /\ [Next]_vars => RowMoves
<1> SUFFICES ASSUME IInv, [Next]_vars PROVE RowMoves
  OBVIOUS
<1>1. Handlers \subseteq Tasks /\ Monitors \subseteq Tasks
  BY DEF Tasks
<1>2. CASE UNCHANGED vars
  BY <1>2, StillMoves DEF vars, tables
<1>3. CASE Tick
  BY <1>3, StillMoves DEF Tick, ReviewLapses, DeadlineNears, DeadlineLapses,
                          KeyExpires, tables
<1>4. CASE Next /\ ~ Tick
  BY <1>1, <1>4, StepMoves DEF Next
<1> QED
  BY <1>2, <1>3, <1>4 DEF Next

\* However tasks interleave, are interrupted or work on stale records, the row
\* moves along ALLOWED_TRANSITIONS (service/nl2api/state_machine.py), stays as
\* it is once it is terminal, keeps the parameters of a stored version, and an
\* execution that has been recorded is never recorded differently
\* (dao/mysql/operation_repository.py, mock_business_repository.py).
THEOREM RowMovesForward == Spec => [][RowMoves]_vars
<1>1. IInv /\ [Next]_vars => [RowMoves]_vars
  BY NextMoves
<1> QED
  BY <1>1, Invariance, PTL DEF Spec
=============================================================================
