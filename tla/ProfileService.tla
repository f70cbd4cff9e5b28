--------------------------- MODULE ProfileService ---------------------------
(***************************************************************************)
(* The profile of one customer: its creation, field updates, assessments   *)
(* and suitability checks, each a transaction of MySQL at REPEATABLE READ, *)
(* and the copy of it in Redis (service/profile/profile_service.py,        *)
(* service/risk/risk_assessment_service.py).                               *)
(*                                                                         *)
(* A plain SELECT shows the snapshot of the transaction's first one; an    *)
(* UPDATE or upsert waits for the lock of the customer's row.  An inserted *)
(* row has its place in its table, the order in which "the latest" is      *)
(* looked for, from the INSERT on, and is seen once it is committed.       *)
(***************************************************************************)
EXTENDS ScoreEngine, Sequences, FiniteSetsExt

CONSTANTS
  Requests,    \* to this service; each is handled once
  Jobs,        \* what a request may ask for
  FirstFacts,  \* of the profile a customer begins with, if it has one
  FirstSheet,  \* of the assessment that profile rests on
  MaxFaults,   \* calls that fail and processes that stop
  MaxExpired   \* assessments that expire

Sources == {"RISK_QUESTIONNAIRE", "MANUAL_VERIFIED", "KYC", "HOLDINGS",
            "PROFILE_SERVICE", "SYSTEM_POLICY", "USER_CONFIRMED",
            "AI_CONVERSATION", "USER_DECLARED"}

\* In hundredths.
SOURCE_CONFIDENCE ==
  [s \in Sources |->
     CASE s \in {"RISK_QUESTIONNAIRE", "MANUAL_VERIFIED", "SYSTEM_POLICY"} -> 90
       [] s \in {"KYC", "HOLDINGS", "PROFILE_SERVICE"} -> 85
       [] s = "USER_CONFIRMED" -> 80
       [] s = "AI_CONVERSATION" -> 60
       [] s = "USER_DECLARED" -> 40]

FIELD_AUTHORITIES ==
  [investment_experience |-> {"KYC", "MANUAL_VERIFIED"},
   annual_income_range |-> {"KYC"},
   product_preference |-> {"USER_CONFIRMED", "MANUAL_VERIFIED"}]

Fields == DOMAIN FIELD_AUTHORITIES

NoTask == "no task"
Before == "before"   \* who wrote what a customer begins with

\* The trigger of a creation is not the number of an assessment.
ASSUME ProfileAssumption ==
  /\ NoTask \notin Requests /\ Before \notin Requests
  /\ \A j \in Jobs :
       /\ j.kind \in {"create", "submit", "update", "get", "check"}
       /\ j.kind \in {"create", "update"} => j.source \in Sources
       /\ j.kind = "create" => j.trigger \notin Requests
       /\ j.kind = "update" => j.fields \in (SUBSET Fields) \ {{}}
       /\ j.kind = "submit" => j.answers \in Sheets
       /\ j.kind = "check" => j.product \in Levels
  /\ FirstSheet \in Sheets
  /\ MaxFaults \in Nat /\ MaxExpired \in Nat

VARIABLES
  assessments,  \* fin_risk_assessment
  evaluations,  \* fin_profile_evaluation
  audits,       \* fin_profile_field_audit: the changes of fields that applied
  row,          \* fin_customer_profile, as committed
  lock,         \* the request whose transaction holds the lock of that row
  expired,      \* how many of the assessments are past their year
  cache,        \* profile:<customer> in Redis: nothing or one copy of the row
  checks,       \* fin_suitability_check, with what a check ought to allow
  pc,           \* of each request
  job,          \* what it asks for
  seen,         \* what the snapshot of its transaction shows
  work,         \* the row it will commit, or the copy it has loaded
  faults,
  overlapped,   \* history: two transactions that write were open at once
  late,         \* history: a copy was cached that was no longer the row
  past          \* history: every committed state of the row

tables == <<assessments, evaluations, audits>>
request == <<pc, job, seen, work>>
vars == <<tables, row, lock, expired, cache, checks, request, faults,
          overlapped, late, past>>

-----------------------------------------------------------------------------
(* The row, tables and snapshots.                                          *)

Unset == "unset"
NoJob == [kind |-> "none"]

\* The value of a field is the request that wrote it.
Row(level, fields) == [risk |-> level, fields |-> fields]
NoRow == Row(0, [f \in Fields |-> Unset])
AllFields(t) == [f \in Fields |-> t]

Ids(table) == {i \in DOMAIN table : table[i].committed}
Latest(ids) == Max(ids \cup {0})   \* 0 if there is none

ValidAssessment == Latest({i \in Ids(assessments) : i > expired})

Snapshot == [open |-> TRUE, assessment |-> ValidAssessment,
             evaluations |-> Ids(evaluations), audits |-> Ids(audits),
             row |-> row]
NoSnapshot == [open |-> FALSE]

Assessment(t, sheet, committed) ==
  [by |-> t, committed |-> committed, score |-> Score(sheet),
   level |-> map_score_to_level(Score(sheet))]

Evaluation(t, type, trigger, facts, a, committed) ==
  [by |-> t, committed |-> committed, trigger_type |-> type,
   trigger_id |-> trigger, facts |-> facts,
   result |-> evaluate_profile(facts, a.level, a.score)]

Audit(t, fields, source, committed) ==
  [by |-> t, committed |-> committed, fields |-> fields, source |-> source]

-----------------------------------------------------------------------------
(* Steps of a transaction.                                                 *)

Goto(t, from, to) == pc[t] = from /\ pc' = [pc EXCEPT ![t] = to]

Open(t) == pc[t] \in {"upsert", "insert", "assess", "rebuild", "level",
                      "write", "commit"}

\* A request comes in and opens its transaction with a first SELECT.
Begin(t, j, to) ==
  /\ Goto(t, "idle", to)
  /\ job' = [job EXCEPT ![t] = j]
  /\ seen' = [seen EXCEPT ![t] = IF to = "end" THEN NoSnapshot ELSE Snapshot]
  /\ overlapped' = (overlapped \/ \E o \in Requests : Open(o))
  /\ UNCHANGED <<tables, row, lock, expired, cache, checks, work, faults,
                 late, past>>

\* Faulty variant: the transaction puts back the row that its snapshot shows.
ChangeOldRow(t, new) ==
  /\ lock = NoTask
  /\ lock' = t
  /\ work' = [work EXCEPT ![t] =
                [new EXCEPT !.fields = [f \in Fields |->
                   IF @[f] = t THEN t ELSE seen[t].row.fields[f]]]]

\* The first statement of a transaction that changes the row: it waits for
\* the lock and works on the row as it is then.
ChangeRow(t, new) ==
  /\ lock = NoTask
  /\ lock' = t
  /\ work' = [work EXCEPT ![t] = new]

CommitRows(table, t) ==
  [i \in DOMAIN table |->
     IF table[i].by = t THEN [table[i] EXCEPT !.committed = TRUE] ELSE table[i]]

Commit(t) ==
  /\ Goto(t, "commit", "delete")
  /\ assessments' = CommitRows(assessments, t)
  /\ evaluations' = CommitRows(evaluations, t)
  /\ audits' = CommitRows(audits, t)
  /\ row' = IF lock = t THEN work[t] ELSE row
  /\ lock' = IF lock = t THEN NoTask ELSE lock
  /\ past' = past \cup {row'}
  /\ seen' = [seen EXCEPT ![t] = NoSnapshot]
  /\ work' = [work EXCEPT ![t] = NoRow]
  /\ UNCHANGED <<expired, cache, checks, job, faults, overlapped, late>>

\* A request that fails leaves nothing of an open transaction: what it
\* inserted is never committed.
Fail(t) ==
  /\ pc' = [pc EXCEPT ![t] = "end"]
  /\ lock' = IF lock = t THEN NoTask ELSE lock
  /\ seen' = [seen EXCEPT ![t] = NoSnapshot]
  /\ work' = [work EXCEPT ![t] = NoRow]
  /\ UNCHANGED <<tables, row, expired, cache, checks, job, overlapped, late,
                 past>>

-----------------------------------------------------------------------------
(* create: a profile from the facts a customer states.                     *)

Triggered(ids, trigger) == \E i \in ids : evaluations[i].trigger_id = trigger

BeginCreate(t, j) ==
  /\ j.kind = "create"
  /\ Begin(t, j,
       IF Triggered(Ids(evaluations), j.trigger) THEN "cache"
       ELSE IF ValidAssessment = 0 THEN "end"
       ELSE "upsert")

\* Scored with the latest valid assessment that the snapshot shows.
Scored(t) == assessments[seen[t].assessment]

Upsert(t) ==
  /\ Goto(t, "upsert", "insert")
  /\ LET result == evaluate_profile(job[t].facts, Scored(t).level,
                                    Scored(t).score)
     IN ChangeRow(t, Row(result.effective, AllFields(t)))
  /\ UNCHANGED <<tables, row, expired, cache, checks, job, seen, faults,
                 overlapped, late, past>>

\* Faulty variant: there is no unique key.
InsertAnyEvaluation(t) ==
  /\ Goto(t, "insert", "commit")
  /\ evaluations' = Append(evaluations,
       Evaluation(t, "MANUAL_CREATE", job[t].trigger, job[t].facts, Scored(t),
                  FALSE))
  /\ audits' = Append(audits, Audit(t, Fields, job[t].source, FALSE))
  /\ UNCHANGED <<assessments, row, lock, expired, cache, checks, job, seen,
                 work, faults, overlapped, late, past>>

\* The unique key of trigger_id refuses a second evaluation, whatever the
\* snapshot shows.
InsertEvaluation(t) ==
  /\ Goto(t, "insert", "commit")
  /\ ~ Triggered(Ids(evaluations), job[t].trigger)
  /\ evaluations' = Append(evaluations,
       Evaluation(t, "MANUAL_CREATE", job[t].trigger, job[t].facts, Scored(t),
                  FALSE))
  /\ audits' = Append(audits, Audit(t, Fields, job[t].source, FALSE))
  /\ UNCHANGED <<assessments, row, lock, expired, cache, checks, job, seen,
                 work, faults, overlapped, late, past>>

RefuseEvaluation(t) ==
  /\ pc[t] = "insert"
  /\ Triggered(Ids(evaluations), job[t].trigger)
  /\ Fail(t)
  /\ UNCHANGED faults

-----------------------------------------------------------------------------
(* submit: an assessment, and the evaluation scored anew with it.          *)

BeginSubmit(t, j) ==
  /\ j.kind = "submit"
  /\ Begin(t, j, "assess")

InsertAssessment(t) ==
  /\ Goto(t, "assess", "rebuild")
  /\ assessments' = Append(assessments, Assessment(t, job[t].answers, FALSE))
  /\ UNCHANGED <<evaluations, audits, row, lock, expired, cache, checks, job,
                 seen, work, faults, overlapped, late, past>>

\* The facts are those of the latest evaluation that the snapshot shows.
Rebuild(t) ==
  LET latest == Latest(seen[t].evaluations)
  IN /\ Goto(t, "rebuild", "level")
     /\ evaluations' =
          IF latest = 0 THEN evaluations
          ELSE Append(evaluations,
                 Evaluation(t, "ASSESSMENT_COMPLETED", t,
                            evaluations[latest].facts,
                            Assessment(t, job[t].answers, FALSE), FALSE))
     /\ UNCHANGED <<assessments, audits, row, lock, expired, cache, checks,
                    job, seen, work, faults, overlapped, late, past>>

SetLevel(t) ==
  LET rebuilt == {i \in DOMAIN evaluations : evaluations[i].by = t}
      level == IF rebuilt = {} THEN Assessment(t, job[t].answers, FALSE).level
               ELSE evaluations[Max(rebuilt)].result.effective
  IN /\ Goto(t, "level", "commit")
     /\ ChangeRow(t, [row EXCEPT !.risk = level])
     /\ UNCHANGED <<tables, row, expired, cache, checks, job, seen, faults,
                    overlapped, late, past>>

-----------------------------------------------------------------------------
(* update: fields, as far as their source may change them.                 *)

BeginUpdate(t, j) ==
  /\ j.kind = "update"
  /\ Begin(t, j, IF row = NoRow THEN "end" ELSE "write")

MayChange(source, field, ids) ==
  LET latest == Latest({i \in ids : field \in audits[i].fields})
  IN /\ source \in FIELD_AUTHORITIES[field]
     /\ latest # 0 =>
          \/ audits[latest].source = source
          \/ SOURCE_CONFIDENCE[source] >= SOURCE_CONFIDENCE[audits[latest].source]

\* Decided by the snapshot.  The audits of changes that are refused are
\* never looked at.
Applied(t) ==
  {f \in job[t].fields : MayChange(job[t].source, f, seen[t].audits)}

UpdateFields(t) ==
  /\ Goto(t, "write", "commit")
  /\ Applied(t) # {}
  /\ ChangeRow(t, [row EXCEPT !.fields =
                     [f \in Fields |-> IF f \in Applied(t) THEN t ELSE @[f]]])
  /\ audits' = Append(audits, Audit(t, Applied(t), job[t].source, FALSE))
  /\ UNCHANGED <<assessments, evaluations, row, expired, cache, checks, job,
                 seen, faults, overlapped, late, past>>

RefuseFields(t) ==
  /\ Goto(t, "write", "commit")
  /\ Applied(t) = {}
  /\ UNCHANGED <<tables, row, lock, expired, cache, checks, job, seen, work,
                 faults, overlapped, late, past>>

-----------------------------------------------------------------------------
(* The cache.  A failing call to it is swallowed.                          *)

Fault == faults < MaxFaults /\ faults' = faults + 1

\* submit ends with the deletion, the others answer with a copy.
AfterDelete(t) == IF job[t].kind = "submit" THEN "end" ELSE "cache"

\* Faulty variant: an assessment does not touch the cache.
DeleteUnlessSubmit(t) ==
  /\ Goto(t, "delete", AfterDelete(t))
  /\ cache' = IF job[t].kind = "submit" THEN cache ELSE {}
  /\ UNCHANGED <<tables, row, lock, expired, checks, job, seen, work, faults,
                 overlapped, late, past>>

DeleteCopy(t) ==
  /\ Goto(t, "delete", AfterDelete(t))
  /\ \/ cache' = {} /\ UNCHANGED faults
     \/ Fault /\ UNCHANGED cache
  /\ UNCHANGED <<tables, row, lock, expired, checks, job, seen, work,
                 overlapped, late, past>>

BeginGet(t, j) ==
  /\ j.kind = "get"
  /\ Goto(t, "idle", "cache")
  /\ job' = [job EXCEPT ![t] = j]
  /\ UNCHANGED <<tables, row, lock, expired, cache, checks, seen, work, faults,
                 overlapped, late, past>>

GetCopy(t) ==
  /\ \/ cache # {} /\ Goto(t, "cache", "end") /\ UNCHANGED faults
     \/ cache = {} /\ Goto(t, "cache", "select") /\ UNCHANGED faults
     \/ cache # {} /\ Goto(t, "cache", "select") /\ Fault
  /\ UNCHANGED <<tables, row, lock, expired, cache, checks, job, seen, work,
                 overlapped, late, past>>

\* Faulty variant: the row is read at READ UNCOMMITTED.
SelectDirtyRow(t) ==
  LET copy == IF lock = NoTask THEN row ELSE work[lock]
  IN /\ Goto(t, "select", IF copy = NoRow THEN "end" ELSE "fill")
     /\ work' = [work EXCEPT ![t] = copy]
     /\ seen' = [seen EXCEPT ![t] = NoSnapshot]
     /\ UNCHANGED <<tables, row, lock, expired, cache, checks, job, faults,
                    overlapped, late, past>>

\* A creation that was repeated still reads its snapshot.
SelectRow(t) ==
  LET copy == IF seen[t].open THEN seen[t].row ELSE row
  IN /\ Goto(t, "select", IF copy = NoRow THEN "end" ELSE "fill")
     /\ work' = [work EXCEPT ![t] = copy]
     /\ seen' = [seen EXCEPT ![t] = NoSnapshot]
     /\ UNCHANGED <<tables, row, lock, expired, cache, checks, job, faults,
                    overlapped, late, past>>

FillCache(t) ==
  /\ Goto(t, "fill", "end")
  /\ \/ /\ cache' = {work[t]}
        /\ late' = (late \/ work[t] # row)
        /\ UNCHANGED faults
     \/ Fault /\ UNCHANGED <<cache, late>>
  /\ work' = [work EXCEPT ![t] = NoRow]
  /\ UNCHANGED <<tables, row, lock, expired, checks, job, seen, overlapped,
                 past>>

-----------------------------------------------------------------------------
(* suitability_check: one snapshot, read and judged.                       *)

\* Faulty variant: the restriction of the evaluation is not looked at.
RowRank == row.risk

\* The highest level of a product that fits the customer, by what is stored.
MaximumRank ==
  LET latest == Latest(Ids(evaluations))
  IN IF latest = 0 THEN row.risk
     ELSE Least(row.risk, evaluations[latest].result.maximum)

\* By the last assessment that was handed in and the facts stated last.
TrueRank ==
  LET official == assessments[Latest(Ids(assessments))]
      stated == Latest({i \in Ids(evaluations) :
                          evaluations[i].trigger_type = "MANUAL_CREATE"})
      result == evaluate_profile(evaluations[stated].facts, official.level,
                                 official.score)
  IN IF stated = 0 THEN official.level
     ELSE Least(result.effective, result.maximum)

suitability_check(t, j) ==
  /\ j.kind = "check"
  /\ Goto(t, "idle", "end")
  /\ job' = [job EXCEPT ![t] = j]
  /\ \E available \in BOOLEAN :
       checks' =
         IF row = NoRow THEN checks
         ELSE checks \cup
                {[product |-> j.product, fits |-> j.product =< TrueRank,
                  overlapped |-> overlapped,
                  allowed |-> /\ ValidAssessment # 0
                              /\ available
                              /\ j.product =< MaximumRank]}
  /\ UNCHANGED <<tables, row, lock, expired, cache, seen, work, faults,
                 overlapped, late, past>>

-----------------------------------------------------------------------------
\* An assessment is valid for a year, the older ones end first.
AssessmentExpires ==
  /\ expired < MaxExpired
  /\ expired + 1 \in Ids(assessments)
  /\ expired' = expired + 1
  /\ UNCHANGED <<tables, row, lock, cache, checks, request, faults, overlapped,
                 late, past>>

\* Seven days after it was last read.
CopyExpires ==
  /\ cache # {}
  /\ cache' = {}
  /\ UNCHANGED <<tables, row, lock, expired, checks, request, faults,
                 overlapped, late, past>>

\* The database fails a statement, or the process ends.
RequestFails(t) ==
  /\ pc[t] \notin {"idle", "end"}
  /\ Fault
  /\ Fail(t)

\* Each route calls one method of a service.
Arrives(t) ==
  \E j \in Jobs :
    \/ BeginCreate(t, j) \/ BeginSubmit(t, j) \/ BeginUpdate(t, j)
    \/ BeginGet(t, j) \/ suitability_check(t, j)

Step(t) ==
  \/ Arrives(t)
  \/ Upsert(t) \/ InsertEvaluation(t) \/ RefuseEvaluation(t)
  \/ InsertAssessment(t) \/ Rebuild(t) \/ SetLevel(t)
  \/ UpdateFields(t) \/ RefuseFields(t)
  \/ Commit(t) \/ DeleteCopy(t) \/ GetCopy(t) \/ SelectRow(t) \/ FillCache(t)
  \/ RequestFails(t)

Next == AssessmentExpires \/ CopyExpires \/ \E t \in Requests : Step(t)

\* A customer nothing is known of, or one with an assessment and a profile.
Init ==
  /\ \/ /\ assessments = <<>> /\ evaluations = <<>> /\ audits = <<>>
        /\ row = NoRow
     \/ LET a == Assessment(Before, FirstSheet, TRUE)
            e == Evaluation(Before, "MANUAL_CREATE", Before, FirstFacts, a, TRUE)
        IN /\ assessments = <<a>> /\ evaluations = <<e>>
           /\ audits = <<Audit(Before, Fields, "KYC", TRUE)>>
           /\ row = Row(e.result.effective, AllFields(Before))
  /\ lock = NoTask /\ expired = 0 /\ cache = {} /\ checks = {}
  /\ pc = [t \in Requests |-> "idle"]
  /\ job = [t \in Requests |-> NoJob]
  /\ seen = [t \in Requests |-> NoSnapshot]
  /\ work = [t \in Requests |-> NoRow]
  /\ faults = 0 /\ overlapped = FALSE /\ late = FALSE
  /\ past = {row}

Spec == Init /\ [][Next]_vars

-----------------------------------------------------------------------------
(* Properties.                                                             *)

\* What readers get from Redis is a profile that was committed once, never
\* the work of a transaction that is open or rolled back
\* (profile_service.py:174: commit first, then the deletion and the copy).
CacheWasCommitted == cache \subseteq past \ {NoRow}

\* A copy that is out of date will still be deleted, unless a deletion
\* failed, or a reader that had loaded the row before a commit stored its
\* copy after the deletion (profile_service.py:195-202).
StaleCopyIsExplained ==
  cache \subseteq {row} \/ late \/ faults > 0
    \/ \E t \in Requests : pc[t] = "delete"

\* A repeated creation makes no second evaluation, even when both ran before
\* either was committed (schema.py:166, uk_profile_evaluation_trigger).
CreatedOnce ==
  \A i, k \in Ids(evaluations) :
    evaluations[i].trigger_id = evaluations[k].trigger_id => i = k

\* The last change of a field that the audit lists as applied is the one the
\* row has (profile_service.py:262-283), whatever updates run at once: the
\* confidence the next update is compared with is that of the value.
AuditMatchesRow ==
  \A f \in Fields :
    LET latest == Latest({i \in Ids(audits) : f \in audits[i].fields})
    IN row.fields[f] = IF latest = 0 THEN Unset ELSE audits[latest].by

\* No product is allowed that the last assessment or the facts stated last
\* forbid, not to a customer of low capacity above R2 either, unless writing
\* transactions overlapped.
NeverUnsuitable ==
  \A c \in checks : c.allowed /\ ~ c.overlapped => c.fits
=============================================================================
