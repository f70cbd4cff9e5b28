------------------------ MODULE ProfileServiceProofs ------------------------
(***************************************************************************)
(* Proofs about ProfileService for any number of requests, failures and    *)
(* expired assessments, and any answers, facts and sources.  ProfileInv    *)
(* carries the first four theorems; SuitabilityInv, beside it, carries the *)
(* fifth: what the levels and restrictions that are stored were scored     *)
(* from.  The last section is about the scores themselves, for all facts   *)
(* and answers, and what follows from them for the row.                    *)
(***************************************************************************)
EXTENDS ProfileService, FiniteSetTheorems, SequenceTheorems, TLAPS

-----------------------------------------------------------------------------
(* The invariant.                                                          *)

\* Steps at which a request has inserted nothing, and steps after its commit.
Early == {"idle", "upsert", "insert", "assess", "rebuild", "write"}
Late == {"delete", "cache", "select", "fill"}
Steps == Early \cup {"level", "commit", "end"} \cup Late

Shape ==
  /\ pc \in [Requests -> Steps] /\ DOMAIN job = Requests
  /\ DOMAIN seen = Requests /\ DOMAIN work = Requests
  /\ faults \in Nat
  /\ \E S : evaluations \in Seq(S)
  /\ \E S : audits \in Seq(S)

\* Whatever can become the copy in Redis was committed.
CopyInv ==
  /\ row \in past
  /\ \A t \in Requests :
       /\ seen[t].open => seen[t].row \in past
       /\ pc[t] = "fill" => work[t] \in past \ {NoRow}
  /\ CacheWasCommitted

JobOK(t) ==
  /\ job[t].kind = "create" => job[t].trigger \notin Requests
  /\ pc[t] \in {"upsert", "insert"} => job[t].kind = "create"
  /\ pc[t] \in {"assess", "rebuild", "level"} => job[t].kind = "submit"

\* What a request inserts is not committed before its commit, and is not
\* thrown away after it.
Inserted(table, i) ==
  /\ table[i].by \in Requests \cup {Before}
  /\ table[i].by = Before => table[i].committed
  /\ \A t \in Requests : table[i].by = t =>
       /\ pc[t] \notin Early
       /\ pc[t] \in {"level", "commit"} => ~ table[i].committed
       /\ pc[t] \in Late => table[i].committed
       /\ pc[t] = "commit" => lock = t

EvaluationOK(i) ==
  /\ DOMAIN evaluations[i] =
       {"by", "committed", "trigger_type", "trigger_id", "facts", "result"}
  /\ Inserted(evaluations, i)
  /\ evaluations[i].by = Before => evaluations[i].trigger_id = Before
  /\ \A t \in Requests : evaluations[i].by = t =>
       \/ /\ job[t].kind = "submit"
          /\ evaluations[i].trigger_id = t
       \/ /\ job[t].kind = "create"
          /\ evaluations[i].trigger_id = job[t].trigger
          /\ pc[t] = "commit" => ~ Triggered(Ids(evaluations), job[t].trigger)

EvaluationInv ==
  /\ \A i \in DOMAIN evaluations : EvaluationOK(i)
  /\ \A i, k \in DOMAIN evaluations :
       evaluations[i].by = evaluations[k].by => i = k
  /\ CreatedOnce

\* Who holds the lock inserted the last audit, or none.
AuditOK(i) ==
  /\ DOMAIN audits[i] = {"by", "committed", "fields", "source"}
  /\ Inserted(audits, i)
  /\ \A t \in Requests : audits[i].by = t => pc[t] # "level"
  /\ audits[i].by \in Requests /\ pc[audits[i].by] = "commit" =>
       /\ i = Len(audits)
       /\ \A f \in Fields :
            work[audits[i].by].fields[f] =
              IF f \in audits[i].fields THEN audits[i].by ELSE row.fields[f]

RowDomain == {"risk", "fields"}

HolderOK(t) ==
  /\ pc[t] = "insert" => lock = t
  /\ lock = t =>
       /\ pc[t] \in {"insert", "commit"}
       /\ DOMAIN work[t] = RowDomain
       /\ pc[t] = "insert" => \A f \in Fields : work[t].fields[f] = t
       /\ pc[t] = "commit" /\ (\A i \in DOMAIN audits : audits[i].by # t) =>
            \A f \in Fields : work[t].fields[f] = row.fields[f]

\* The value of a field is that of its last committed audit.
Changes(f) == {i \in Ids(audits) : f \in audits[i].fields}
FieldOK(f) ==
  \/ Changes(f) = {} /\ row.fields[f] = Unset
  \/ \E n \in Changes(f) :
       row.fields[f] = audits[n].by /\ \A i \in Changes(f) : i =< n

AuditInv ==
  /\ DOMAIN row = RowDomain
  /\ \A i \in DOMAIN audits : AuditOK(i)
  /\ \A t \in Requests : HolderOK(t)
  /\ \A f \in Fields : FieldOK(f)

ProfileInv ==
  /\ Shape /\ CopyInv /\ StaleCopyIsExplained
  /\ \A t \in Requests : JobOK(t)
  /\ EvaluationInv /\ AuditInv

-----------------------------------------------------------------------------
(* Tables.                                                                 *)

LEMMA Appended ==
  ASSUME NEW s, NEW x, \E S : s \in Seq(S)
  PROVE  /\ Len(s) \in Nat /\ DOMAIN s = 1..Len(s)
         /\ Len(Append(s, x)) = Len(s) + 1
         /\ DOMAIN Append(s, x) = 1..(Len(s) + 1)
         /\ \A i \in 1..Len(s) : Append(s, x)[i] = s[i]
         /\ Append(s, x)[Len(s) + 1] = x
         /\ \E S : Append(s, x) \in Seq(S)
<1>1. PICK S : s \in Seq(S)
  OBVIOUS
<1> DEFINE T == S \cup {x}
<1>2. s \in [1..Len(s) -> T] /\ Len(s) \in Nat /\ DOMAIN s = 1..Len(s)
  <2>1. s \in [1..Len(s) -> S] /\ Len(s) \in Nat
    BY <1>1, LenProperties
  <2> QED
    BY <2>1
<1>3. s \in Seq(T) /\ x \in T
  BY <1>2, SeqDef
<1>4. Append(s, x) \in Seq(T) /\ Len(Append(s, x)) = Len(s) + 1
  BY <1>3, AppendProperties
<1>5. DOMAIN Append(s, x) = 1..(Len(s) + 1)
  BY <1>4, LenProperties
<1> QED
  BY <1>2, <1>3, <1>4, <1>5, AppendProperties

\* What a table is with a row more that is not committed.
WithRow(table, x) ==
  /\ Len(table) \in Nat /\ DOMAIN table = 1..Len(table)
  /\ DOMAIN Append(table, x) = 1..(Len(table) + 1)
  /\ Len(Append(table, x)) = Len(table) + 1
  /\ \A i \in DOMAIN table : Append(table, x)[i] = table[i]
  /\ Append(table, x)[Len(table) + 1] = x
  /\ Ids(Append(table, x)) = Ids(table)

\* An insert, which is not committed.
LEMMA RowInserted ==
  ASSUME NEW table, NEW x, \E S : table \in Seq(S), x.committed = FALSE
  PROVE  WithRow(table, x)
<1>1. /\ Len(table) \in Nat /\ DOMAIN table = 1..Len(table)
      /\ DOMAIN Append(table, x) = 1..(Len(table) + 1)
      /\ Len(Append(table, x)) = Len(table) + 1
      /\ \A i \in DOMAIN table : Append(table, x)[i] = table[i]
      /\ Append(table, x)[Len(table) + 1] = x
  BY Appended
<1>2. ASSUME NEW i PROVE i \in Ids(Append(table, x)) <=> i \in Ids(table)
  <2>1. CASE i \in DOMAIN table
    <3>1. i \in DOMAIN Append(table, x) /\ Append(table, x)[i] = table[i]
      BY <1>1, <2>1
    <3> QED
      BY <2>1, <3>1 DEF Ids
  <2>2. CASE i \notin DOMAIN table
    <3>1. i \in DOMAIN Append(table, x) => i = Len(table) + 1
      BY <1>1, <2>2
    <3>2. i \in DOMAIN Append(table, x) => ~ Append(table, x)[i].committed
      BY <1>1, <3>1
    <3> QED
      BY <2>2, <3>2 DEF Ids
  <2> QED
    BY <2>1, <2>2
<1>3. Ids(Append(table, x)) = Ids(table)
  BY <1>2
<1> QED
  BY <1>1, <1>3 DEF WithRow

\* A commit touches the rows of its request, and sets their mark.
LEMMA RowsCommitted ==
  ASSUME NEW table, NEW t, \E S : table \in Seq(S)
  PROVE  LET new == CommitRows(table, t)
         IN /\ DOMAIN new = DOMAIN table /\ Len(new) = Len(table)
            /\ \E S : new \in Seq(S)
            /\ \A i \in DOMAIN table :
                 /\ table[i].by # t => new[i] = table[i]
                 /\ table[i].by = t =>
                      new[i] = [table[i] EXCEPT !.committed = TRUE]
<1>1. PICK S : table \in Seq(S)
  OBVIOUS
<1>2. table \in [1..Len(table) -> S] /\ Len(table) \in Nat /\ DOMAIN table = 1..Len(table)
  BY <1>1, LenProperties
<1> DEFINE new == CommitRows(table, t)
           T == {new[i] : i \in 1..Len(table)}
<1>3. new = [i \in 1..Len(table) |->
               IF table[i].by = t THEN [table[i] EXCEPT !.committed = TRUE] ELSE table[i]]
  BY <1>2 DEF CommitRows
<1>4. DOMAIN new = 1..Len(table) /\ new \in [1..Len(table) -> T]
  <2>1. DOMAIN new = 1..Len(table) /\ new = [i \in 1..Len(table) |-> new[i]]
    BY <1>3
  <2> HIDE DEF new
  <2> QED
    BY <2>1
<1>5. \A i \in DOMAIN table :
        /\ table[i].by # t => new[i] = table[i]
        /\ table[i].by = t => new[i] = [table[i] EXCEPT !.committed = TRUE]
  BY <1>2, <1>3
<1> HIDE DEF new, T
<1>6. new \in Seq(T)
  BY <1>2, <1>4, SeqDef
<1>7. Len(new) \in Nat /\ DOMAIN new = 1..Len(new)
  BY <1>6, LenProperties
<1>8. Len(new) = Len(table)
  BY <1>2, <1>4, <1>7
<1>9. \E U : new \in Seq(U)
  BY <1>6
<1> QED
  BY <1>2, <1>4, <1>5, <1>8, <1>9 DEF new

-----------------------------------------------------------------------------
(* Shape, and the frame of a step.                                         *)

\* A step of one request leaves the others where they are.
Alone(t) ==
  /\ \A s \in Requests \ {t} : /\ pc'[s] = pc[s] /\ job'[s] = job[s]
                               /\ seen'[s] = seen[s] /\ work'[s] = work[s]
  /\ pc' \in [Requests -> Steps] /\ DOMAIN job' = Requests
  /\ DOMAIN seen' = Requests /\ DOMAIN work' = Requests

LEMMA StepsAlone == ASSUME Shape, NEW t \in Requests, Step(t) PROVE Alone(t)
<1>0. /\ pc \in [Requests -> Steps] /\ DOMAIN job = Requests
      /\ DOMAIN seen = Requests /\ DOMAIN work = Requests
  BY DEF Shape
<1>1. /\ job' = job \/ \E j : job' = [job EXCEPT ![t] = j]
      /\ seen' = seen \/ \E j : seen' = [seen EXCEPT ![t] = j]
      /\ work' = work \/ \E j : work' = [work EXCEPT ![t] = j]
  BY DEF Step, Arrives, BeginCreate, BeginSubmit, BeginUpdate, BeginGet,
     suitability_check, Begin, Upsert, ChangeRow, InsertEvaluation,
     RefuseEvaluation, Fail, InsertAssessment, Rebuild, SetLevel, UpdateFields,
     RefuseFields, Commit, DeleteCopy, GetCopy, SelectRow, FillCache,
     RequestFails
<1>2. \E to \in Steps : pc' = [pc EXCEPT ![t] = to]
  <2>1. CASE Arrives(t)
    <3>1. PICK j \in Jobs :
            \/ BeginCreate(t, j) \/ BeginSubmit(t, j) \/ BeginUpdate(t, j)
            \/ BeginGet(t, j) \/ suitability_check(t, j)
      BY <2>1 DEF Arrives
    <3>2. CASE BeginCreate(t, j)
      BY <3>2 DEF BeginCreate, Begin, Goto, Steps, Early, Late
    <3>3. CASE BeginSubmit(t, j) \/ BeginUpdate(t, j)
      BY <3>3 DEF BeginSubmit, BeginUpdate, Begin, Goto, Steps, Early
    <3>4. CASE BeginGet(t, j) \/ suitability_check(t, j)
      BY <3>4 DEF BeginGet, suitability_check, Goto, Steps, Late
    <3> QED
      BY <3>1, <3>2, <3>3, <3>4
  <2>2. CASE \/ Upsert(t) \/ InsertEvaluation(t) \/ InsertAssessment(t)
             \/ Rebuild(t) \/ SetLevel(t) \/ UpdateFields(t) \/ RefuseFields(t)
             \/ Commit(t)
    BY <2>2 DEF Upsert, InsertEvaluation, InsertAssessment, Rebuild, SetLevel,
       UpdateFields, RefuseFields, Commit, Goto, Steps, Early, Late
  <2>3. CASE \/ DeleteCopy(t) \/ GetCopy(t) \/ SelectRow(t) \/ FillCache(t)
    BY <2>3 DEF DeleteCopy, AfterDelete, GetCopy, SelectRow, FillCache, Goto,
       Steps, Late
  <2>4. CASE RefuseEvaluation(t) \/ RequestFails(t)
    BY <2>4 DEF RefuseEvaluation, RequestFails, Fail, Steps
  <2> QED
    BY <2>1, <2>2, <2>3, <2>4 DEF Step
<1>3. \A s \in Requests \ {t} : pc'[s] = pc[s] /\ pc' \in [Requests -> Steps]
  BY <1>0, <1>2
<1>4. /\ DOMAIN job' = Requests /\ DOMAIN seen' = Requests /\ DOMAIN work' = Requests
      /\ \A s \in Requests \ {t} : /\ job'[s] = job[s] /\ seen'[s] = seen[s]
                                   /\ work'[s] = work[s]
  BY <1>0, <1>1
<1>5. pc' \in [Requests -> Steps]
  BY <1>0, <1>2
<1> QED
  BY <1>3, <1>4, <1>5 DEF Alone

LEMMA StepShape == ASSUME Shape, NEW t \in Requests, Step(t) PROVE Shape'
<1>1. Alone(t)
  BY StepsAlone
<1>2. faults' \in Nat
  <2>1. faults' = faults \/ faults' = faults + 1
    BY DEF Step, Arrives, BeginCreate, BeginSubmit, BeginUpdate, BeginGet,
       suitability_check, Begin, Upsert, ChangeRow, InsertEvaluation, Fault,
       RefuseEvaluation, InsertAssessment, Rebuild, SetLevel, UpdateFields,
       RefuseFields, Commit, DeleteCopy, GetCopy, SelectRow, FillCache,
       RequestFails
  <2>2. faults \in Nat
    BY DEF Shape
  <2> QED
    BY <2>1, <2>2
<1>3. /\ \/ evaluations' = evaluations \/ evaluations' = CommitRows(evaluations, t)
         \/ \E x : evaluations' = Append(evaluations, x)
      /\ \/ audits' = audits \/ audits' = CommitRows(audits, t)
         \/ \E x : audits' = Append(audits, x)
  BY DEF Step, Arrives, BeginCreate, BeginSubmit, BeginUpdate, BeginGet,
     suitability_check, Begin, Upsert, ChangeRow, InsertEvaluation, tables, Fail,
     RefuseEvaluation, InsertAssessment, Rebuild, SetLevel, UpdateFields,
     RefuseFields, Commit, DeleteCopy, GetCopy, SelectRow, FillCache,
     RequestFails
<1>4. \E S : evaluations' \in Seq(S)
  <2>1. \E S : evaluations \in Seq(S)
    BY DEF Shape
  <2>2. CASE evaluations' = CommitRows(evaluations, t)
    BY <2>1, <2>2, RowsCommitted
  <2>3. ASSUME NEW x, evaluations' = Append(evaluations, x) PROVE \E S : evaluations' \in Seq(S)
    BY <2>1, <2>3, Appended
  <2> QED
    BY <1>3, <2>1, <2>2, <2>3
<1>5. \E S : audits' \in Seq(S)
  <2>1. \E S : audits \in Seq(S)
    BY DEF Shape
  <2>2. CASE audits' = CommitRows(audits, t)
    BY <2>1, <2>2, RowsCommitted
  <2>3. ASSUME NEW x, audits' = Append(audits, x) PROVE \E S : audits' \in Seq(S)
    BY <2>1, <2>3, Appended
  <2> QED
    BY <1>3, <2>1, <2>2, <2>3
<1> QED
  BY <1>1, <1>2, <1>4, <1>5 DEF Shape, Alone

-----------------------------------------------------------------------------
(* Copies.                                                                 *)

\* A step that does not fill the cache, nor commit.
LEMMA CopyKept ==
  ASSUME Shape, CopyInv, NEW t \in Requests, Alone(t), UNCHANGED <<row, past>>,
         cache' = cache \/ cache' = {},
         pc'[t] # "fill",
         \/ seen'[t] = seen[t] \/ seen'[t] = Snapshot \/ seen'[t] = NoSnapshot
  PROVE  CopyInv'
<1>1. ASSUME NEW s \in Requests
      PROVE  /\ seen'[s].open => seen'[s].row \in past'
             /\ pc'[s] = "fill" => work'[s] \in past' \ {NoRow}
  <2>1. CASE s # t
    <3>1. pc'[s] = pc[s] /\ seen'[s] = seen[s] /\ work'[s] = work[s]
      BY <2>1 DEF Alone
    <3> QED
      BY <3>1 DEF CopyInv
  <2>2. CASE s = t
    <3>1. row \in past /\ (seen[t].open => seen[t].row \in past)
      BY DEF CopyInv
    <3>2. Snapshot.row = row /\ NoSnapshot.open = FALSE
      BY DEF Snapshot, NoSnapshot
    <3> QED
      BY <2>2, <3>1, <3>2
  <2> QED
    BY <2>1, <2>2
<1>2. CacheWasCommitted'
  BY DEF CopyInv, CacheWasCommitted
<1>3. row' \in past'
  BY DEF CopyInv
<1> QED
  BY <1>1, <1>2, <1>3 DEF CopyInv

LEMMA CopyStep ==
  ASSUME Shape, CopyInv, NEW t \in Requests, Step(t) PROVE CopyInv'
<1>0. /\ Alone(t) /\ pc \in [Requests -> Steps] /\ DOMAIN job = Requests
      /\ DOMAIN seen = Requests /\ DOMAIN work = Requests
  BY StepsAlone DEF Shape
<1>1. CASE Arrives(t)
  <2>1. PICK j \in Jobs :
          \/ BeginCreate(t, j) \/ BeginSubmit(t, j) \/ BeginUpdate(t, j)
          \/ BeginGet(t, j) \/ suitability_check(t, j)
    BY <1>1 DEF Arrives
  <2>2. /\ UNCHANGED <<row, past, cache>> /\ pc'[t] # "fill"
        /\ \/ seen'[t] = seen[t] \/ seen'[t] = Snapshot \/ seen'[t] = NoSnapshot
    BY <1>0, <2>1 DEF BeginCreate, BeginSubmit, BeginUpdate, BeginGet,
       suitability_check, Begin, Goto
  <2> QED
    BY <1>0, <2>2, CopyKept
<1>2. CASE \/ Upsert(t) \/ InsertEvaluation(t) \/ InsertAssessment(t)
           \/ Rebuild(t) \/ SetLevel(t) \/ UpdateFields(t) \/ RefuseFields(t)
           \/ DeleteCopy(t) \/ GetCopy(t)
  <2>1. /\ UNCHANGED <<row, past>> /\ pc'[t] # "fill" /\ seen'[t] = seen[t]
        /\ cache' = cache \/ cache' = {}
    BY <1>0, <1>2 DEF Upsert, InsertEvaluation, InsertAssessment, Rebuild,
       SetLevel, UpdateFields, RefuseFields, DeleteCopy, AfterDelete, GetCopy, Goto
  <2> QED
    BY <1>0, <2>1, CopyKept
<1>3. CASE RefuseEvaluation(t) \/ RequestFails(t)
  <2>1. UNCHANGED <<row, past, cache>> /\ pc'[t] # "fill" /\ seen'[t] = NoSnapshot
    BY <1>0, <1>3 DEF RefuseEvaluation, RequestFails, Fail
  <2> QED
    BY <1>0, <2>1, CopyKept
<1>4. CASE Commit(t)
  <2>1. /\ past' = past \cup {row'} /\ cache' = cache
        /\ pc'[t] = "delete" /\ seen'[t] = NoSnapshot
    BY <1>0, <1>4 DEF Commit, Goto
  <2>2. ASSUME NEW s \in Requests
        PROVE  /\ seen'[s].open => seen'[s].row \in past'
               /\ pc'[s] = "fill" => work'[s] \in past' \ {NoRow}
    <3>1. CASE s # t
      <4>1. pc'[s] = pc[s] /\ seen'[s] = seen[s] /\ work'[s] = work[s]
        BY <1>0, <3>1 DEF Alone
      <4> QED
        BY <2>1, <4>1 DEF CopyInv
    <3>2. CASE s = t
      BY <2>1, <3>2 DEF NoSnapshot
    <3> QED
      BY <3>1, <3>2
  <2>3. CacheWasCommitted' /\ row' \in past'
    BY <2>1 DEF CopyInv, CacheWasCommitted
  <2> QED
    BY <2>2, <2>3 DEF CopyInv
<1>5. CASE SelectRow(t)
  <2> DEFINE copy == IF seen[t].open THEN seen[t].row ELSE row
  <2>1. /\ UNCHANGED <<row, past, cache>> /\ seen'[t] = NoSnapshot
        /\ work'[t] = copy /\ (pc'[t] = "fill" => copy # NoRow)
    BY <1>0, <1>5 DEF SelectRow, Goto
  <2>2. copy \in past
    BY DEF CopyInv
  <2> HIDE DEF copy
  <2>3. ASSUME NEW s \in Requests
        PROVE  /\ seen'[s].open => seen'[s].row \in past'
               /\ pc'[s] = "fill" => work'[s] \in past' \ {NoRow}
    <3>1. CASE s # t
      <4>1. pc'[s] = pc[s] /\ seen'[s] = seen[s] /\ work'[s] = work[s]
        BY <1>0, <3>1 DEF Alone
      <4> QED
        BY <2>1, <4>1 DEF CopyInv
    <3>2. CASE s = t
      BY <2>1, <2>2, <3>2 DEF NoSnapshot
    <3> QED
      BY <3>1, <3>2
  <2>4. CacheWasCommitted' /\ row' \in past'
    BY <2>1 DEF CopyInv, CacheWasCommitted
  <2> QED
    BY <2>3, <2>4 DEF CopyInv
<1>6. CASE FillCache(t)
  <2>1. /\ UNCHANGED <<row, past, seen>> /\ pc[t] = "fill" /\ pc'[t] = "end"
        /\ cache' = {work[t]} \/ cache' = cache
    BY <1>0, <1>6 DEF FillCache, Goto
  <2>2. work[t] \in past \ {NoRow}
    BY <2>1 DEF CopyInv
  <2>3. ASSUME NEW s \in Requests
        PROVE  /\ seen'[s].open => seen'[s].row \in past'
               /\ pc'[s] = "fill" => work'[s] \in past' \ {NoRow}
    <3>1. seen'[s].open => seen'[s].row \in past'
      BY <2>1 DEF CopyInv
    <3>2. pc'[s] = "fill" => s # t
      BY <2>1
    <3>3. pc'[s] = "fill" => pc[s] = "fill" /\ work'[s] = work[s]
      BY <1>0, <3>2 DEF Alone
    <3> QED
      BY <2>1, <3>1, <3>3 DEF CopyInv
  <2>4. CacheWasCommitted' /\ row' \in past'
    BY <2>1, <2>2 DEF CopyInv, CacheWasCommitted
  <2> QED
    BY <2>3, <2>4 DEF CopyInv
<1> QED
  BY <1>1, <1>2, <1>3, <1>4, <1>5, <1>6 DEF Step

\* Where a step changes the row, a copy, or what explains an old one.
LEMMA StaleStep ==
  ASSUME Shape, StaleCopyIsExplained, NEW t \in Requests, Step(t)
  PROVE  StaleCopyIsExplained'
<1>0. /\ Alone(t) /\ pc \in [Requests -> Steps] /\ faults \in Nat
  BY StepsAlone DEF Shape
<1>1. ASSUME UNCHANGED <<row, cache, late, faults>>, pc[t] # "delete"
      PROVE  StaleCopyIsExplained'
  <2>1. \A s \in Requests : pc[s] = "delete" => pc'[s] = "delete"
    BY <1>0, <1>1 DEF Alone
  <2> QED
    BY <1>1, <2>1 DEF StaleCopyIsExplained
<1>2. CASE Arrives(t)
  <2>1. UNCHANGED <<row, cache, late, faults>> /\ pc[t] # "delete"
    BY <1>2 DEF Arrives, BeginCreate, BeginSubmit, BeginUpdate, BeginGet,
       suitability_check, Begin, Goto
  <2> QED
    BY <1>1, <2>1
<1>3. CASE \/ Upsert(t) \/ InsertEvaluation(t) \/ RefuseEvaluation(t)
           \/ InsertAssessment(t) \/ Rebuild(t) \/ SetLevel(t)
           \/ UpdateFields(t) \/ RefuseFields(t) \/ SelectRow(t)
  <2>1. UNCHANGED <<row, cache, late, faults>> /\ pc[t] # "delete"
    BY <1>3 DEF Upsert, InsertEvaluation, RefuseEvaluation, Fail,
       InsertAssessment, Rebuild, SetLevel, UpdateFields, RefuseFields,
       SelectRow, Goto
  <2> QED
    BY <1>1, <2>1
<1>4. CASE Commit(t)
  <2>1. pc'[t] = "delete"
    BY <1>0, <1>4 DEF Commit, Goto
  <2> QED
    BY <2>1 DEF StaleCopyIsExplained
<1>5. ASSUME Fault PROVE StaleCopyIsExplained'
  <2>1. faults' > 0
    BY <1>0, <1>5 DEF Fault
  <2> QED
    BY <2>1 DEF StaleCopyIsExplained
<1>6. CASE DeleteCopy(t)
  <2>1. cache' = {} \/ Fault
    BY <1>6 DEF DeleteCopy
  <2> QED
    BY <1>5, <2>1 DEF StaleCopyIsExplained
<1>7. CASE GetCopy(t)
  <2>1. Fault \/ (UNCHANGED <<row, cache, late, faults>> /\ pc[t] # "delete")
    BY <1>7 DEF GetCopy, Goto
  <2> QED
    BY <1>1, <1>5, <2>1
<1>8. CASE FillCache(t)
  <2>1. \/ Fault
        \/ cache' = {work[t]} /\ row' = row /\ (work[t] # row => late')
    BY <1>8 DEF FillCache
  <2> QED
    BY <1>5, <2>1 DEF StaleCopyIsExplained
<1>9. CASE RequestFails(t)
  BY <1>5, <1>9 DEF RequestFails
<1> QED
  BY <1>2, <1>3, <1>4, <1>6, <1>7, <1>8, <1>9 DEF Step

LEMMA JobStep ==
  ASSUME Shape, \A s \in Requests : JobOK(s), NEW t \in Requests, Step(t)
  PROVE  \A s \in Requests : JobOK(s)'
<1>0. /\ Alone(t) /\ pc \in [Requests -> Steps] /\ DOMAIN job = Requests
  BY StepsAlone DEF Shape
<1>1. JobOK(t)'
  <2>0. JobOK(t)
    OBVIOUS
  <2>1. CASE Arrives(t)
    <3>1. PICK j \in Jobs :
            \/ BeginCreate(t, j) \/ BeginSubmit(t, j) \/ BeginUpdate(t, j)
            \/ BeginGet(t, j) \/ suitability_check(t, j)
      BY <2>1 DEF Arrives
    <3>2. j.kind = "create" => j.trigger \notin Requests
      BY ProfileAssumption
    <3>3. /\ job'[t] = j
          /\ pc'[t] \in {"upsert", "insert"} => j.kind = "create"
          /\ pc'[t] \in {"assess", "rebuild", "level"} => j.kind = "submit"
      BY <1>0, <3>1 DEF BeginCreate, BeginSubmit, BeginUpdate, BeginGet,
         suitability_check, Begin, Goto
    <3> QED
      BY <3>2, <3>3 DEF JobOK
  <2>2. CASE ~ Arrives(t)
    <3>1. /\ job' = job
          /\ pc'[t] \in {"upsert", "insert"} => pc[t] = "upsert"
          /\ pc'[t] \in {"assess", "rebuild", "level"} => pc[t] \in {"assess", "rebuild"}
      BY <1>0, <2>2 DEF Step, Upsert, InsertEvaluation, RefuseEvaluation, Fail,
         InsertAssessment, Rebuild, SetLevel, UpdateFields, RefuseFields, Commit,
         DeleteCopy, AfterDelete, GetCopy, SelectRow, FillCache, RequestFails, Goto
    <3> QED
      BY <2>0, <3>1 DEF JobOK
  <2> QED
    BY <2>1, <2>2
<1>2. ASSUME NEW s \in Requests, s # t PROVE JobOK(s)'
  <2>1. pc'[s] = pc[s] /\ job'[s] = job[s] /\ JobOK(s)
    BY <1>0, <1>2 DEF Alone
  <2> QED
    BY <2>1 DEF JobOK
<1> QED
  BY <1>1, <1>2

-----------------------------------------------------------------------------
(* Evaluations.                                                            *)

\* What a request may do to its steps without touching a table.
Quiet(t) ==
  \/ pc[t] \in Early
  \/ pc[t] = "level" /\ pc'[t] = "commit" /\ lock' = t
  \/ pc'[t] = "end"
  \/ pc[t] \in Late /\ pc'[t] \in Late

OthersLock(t) == \A s \in Requests \ {t} : lock = s <=> lock' = s

LEMMA RowsQuiet ==
  ASSUME NEW table, NEW i, Inserted(table, i), NEW t \in Requests, Alone(t),
         OthersLock(t), Quiet(t), table' = table
  PROVE  Inserted(table, i)'
<1>1. ASSUME NEW s \in Requests, table[i].by = s
      PROVE  /\ pc'[s] \notin Early
             /\ pc'[s] \in {"level", "commit"} => ~ table[i].committed
             /\ pc'[s] \in Late => table[i].committed
             /\ pc'[s] = "commit" => lock' = s
  <2>1. /\ pc[s] \notin Early
        /\ pc[s] \in {"level", "commit"} => ~ table[i].committed
        /\ pc[s] \in Late => table[i].committed
        /\ pc[s] = "commit" => lock = s
    BY <1>1 DEF Inserted
  <2>2. CASE s = t
    BY <2>1, <2>2 DEF Quiet, Early, Late
  <2>3. CASE s # t
    <3>1. pc'[s] = pc[s] /\ (lock = s <=> lock' = s)
      BY <2>3 DEF Alone, OthersLock
    <3> QED
      BY <2>1, <3>1
  <2> QED
    BY <2>2, <2>3
<1> QED
  BY <1>1 DEF Inserted

LEMMA EvaluationsQuiet ==
  ASSUME EvaluationInv, NEW t \in Requests, Alone(t), OthersLock(t), Quiet(t),
         pc[t] \in Early \/ job'[t] = job[t],
         pc[t] = "level" /\ pc'[t] # "end" => job[t].kind = "submit",
         UNCHANGED evaluations
  PROVE  EvaluationInv'
<1>1. Ids(evaluations)' = Ids(evaluations)
  BY DEF Ids
<1>2. ASSUME NEW i \in DOMAIN evaluations PROVE EvaluationOK(i)'
  <2>1. EvaluationOK(i)
    BY DEF EvaluationInv
  <2>2. Inserted(evaluations, i)'
    BY <2>1, RowsQuiet DEF EvaluationOK
  <2>3. ASSUME NEW s \in Requests, evaluations[i].by = s
        PROVE  \/ /\ job'[s].kind = "submit"
                  /\ evaluations[i].trigger_id = s
               \/ /\ job'[s].kind = "create"
                  /\ evaluations[i].trigger_id = job'[s].trigger
                  /\ pc'[s] = "commit" => ~ Triggered(Ids(evaluations), job'[s].trigger)
    <3>1. /\ pc[s] \notin Early
          /\ \/ /\ job[s].kind = "submit"
                /\ evaluations[i].trigger_id = s
             \/ /\ job[s].kind = "create"
                /\ evaluations[i].trigger_id = job[s].trigger
                /\ pc[s] = "commit" => ~ Triggered(Ids(evaluations), job[s].trigger)
      BY <2>1, <2>3 DEF EvaluationOK, Inserted
    <3>2. job'[s] = job[s]
      BY <3>1 DEF Alone
    <3>3. job[s].kind = "create" /\ pc'[s] = "commit" => pc[s] = "commit"
      <4>1. CASE s = t
        BY <3>1, <4>1 DEF Quiet, Late
      <4>2. CASE s # t
        BY <4>2 DEF Alone
      <4> QED
        BY <4>1, <4>2
    <3> QED
      BY <3>1, <3>2, <3>3
  <2> QED
    BY <1>1, <2>1, <2>2, <2>3 DEF EvaluationOK, Triggered
<1>3. CreatedOnce'
  BY <1>1 DEF EvaluationInv, CreatedOnce
<1> QED
  BY <1>2, <1>3 DEF EvaluationInv

\* A request inserts its evaluation.
LEMMA EvaluationInserted ==
  ASSUME Shape, EvaluationInv, NEW t \in Requests, NEW e, Alone(t),
         pc[t] \in Early, pc'[t] \in {"level", "commit"}, pc'[t] = "commit" => lock = t,
         UNCHANGED <<lock, job>>, evaluations' = Append(evaluations, e),
         DOMAIN e = {"by", "committed", "trigger_type", "trigger_id", "facts", "result"},
         e.by = t, e.committed = FALSE,
         \/ job[t].kind = "submit" /\ e.trigger_id = t
         \/ /\ job[t].kind = "create" /\ e.trigger_id = job[t].trigger
            /\ ~ Triggered(Ids(evaluations), job[t].trigger)
  PROVE  EvaluationInv'
<1>0. PICK n : n = Len(evaluations) + 1
  OBVIOUS
<1>1. /\ Len(evaluations) \in Nat /\ DOMAIN evaluations = 1..Len(evaluations)
      /\ DOMAIN evaluations' = 1..n
      /\ \A i \in DOMAIN evaluations : evaluations'[i] = evaluations[i]
      /\ evaluations'[n] = e
      /\ Ids(evaluations') = Ids(evaluations)
  <2>1. \E S : evaluations \in Seq(S)
    BY DEF Shape
  <2>2. WithRow(evaluations, e)
    BY <2>1, RowInserted
  <2> QED
    BY <1>0, <2>2 DEF WithRow
<1>2. \A i \in DOMAIN evaluations' : i # n => i \in DOMAIN evaluations
  BY <1>0, <1>1
<1>3. \A i \in Ids(evaluations) : i \in DOMAIN evaluations
  BY DEF Ids
<1>4. t # Before
  BY ProfileAssumption
<1>5. \A x : Triggered(Ids(evaluations), x)' <=> Triggered(Ids(evaluations), x)
  BY <1>1, <1>3 DEF Triggered
<1>6. \A i \in DOMAIN evaluations : evaluations[i].by # t
  BY DEF EvaluationInv, EvaluationOK, Inserted
<1>7. EvaluationOK(n)'
  <2>1. /\ evaluations'[n].by = t /\ evaluations'[n].committed = FALSE
        /\ evaluations'[n].trigger_id = e.trigger_id
        /\ DOMAIN evaluations'[n] =
             {"by", "committed", "trigger_type", "trigger_id", "facts", "result"}
        /\ UNCHANGED <<lock, job>>
    BY <1>1
  <2>2. Inserted(evaluations, n)'
    <3>1. /\ evaluations'[n].by \in Requests /\ evaluations'[n].by # Before
          /\ ~ evaluations'[n].committed
      BY <1>4, <2>1
    <3>2. ASSUME NEW s \in Requests, evaluations'[n].by = s
          PROVE  /\ pc'[s] \notin Early /\ pc'[s] \notin Late
                 /\ pc'[s] = "commit" => lock' = s
      <4>1. s = t
        BY <2>1, <3>2
      <4> QED
        BY <2>1, <4>1 DEF Early, Late
    <3> QED
      BY <3>1, <3>2 DEF Inserted
  <2>3. \/ job'[t].kind = "submit" /\ evaluations'[n].trigger_id = t
        \/ /\ job'[t].kind = "create" /\ evaluations'[n].trigger_id = job'[t].trigger
           /\ ~ Triggered(Ids(evaluations), job[t].trigger)'
    BY <1>5, <2>1
  <2> QED
    BY <1>4, <2>1, <2>2, <2>3 DEF EvaluationOK
<1>8. ASSUME NEW i \in DOMAIN evaluations PROVE EvaluationOK(i)'
  <2>1. EvaluationOK(i) /\ evaluations'[i] = evaluations[i] /\ evaluations[i].by # t
    BY <1>1, <1>6 DEF EvaluationInv
  <2>2. \A s \in Requests : evaluations[i].by = s => pc'[s] = pc[s] /\ job'[s] = job[s]
    BY <2>1 DEF Alone
  <2>3. Inserted(evaluations, i)'
    BY <2>1, <2>2 DEF EvaluationOK, Inserted
  <2> QED
    BY <1>5, <2>1, <2>2, <2>3 DEF EvaluationOK
<1>9. ASSUME NEW i \in DOMAIN evaluations', NEW k \in DOMAIN evaluations',
             evaluations'[i].by = evaluations'[k].by
      PROVE  i = k
  BY <1>1, <1>2, <1>6, <1>9 DEF EvaluationInv
<1>10. CreatedOnce'
  BY <1>1, <1>3 DEF EvaluationInv, CreatedOnce
<1>11. \A i \in DOMAIN evaluations' : EvaluationOK(i)'
  BY <1>2, <1>7, <1>8
<1> QED
  BY <1>9, <1>10, <1>11 DEF EvaluationInv

\* What an evaluation was made for is its own, but for creations that repeat.
LEMMA EvaluationsCommitted ==
  ASSUME Shape, EvaluationInv, \A s \in Requests : JobOK(s),
         NEW t \in Requests, Commit(t)
  PROVE  EvaluationInv'
<1>0. /\ Alone(t) /\ DOMAIN pc = Requests
      /\ \E S : evaluations \in Seq(S)
  BY StepsAlone DEF Shape, Step
<1>1. /\ pc[t] = "commit" /\ pc'[t] = "delete" /\ job' = job
      /\ lock' = IF lock = t THEN NoTask ELSE lock
  BY <1>0 DEF Commit, Goto
<1>2. /\ DOMAIN evaluations' = DOMAIN evaluations
      /\ \A i \in DOMAIN evaluations :
           /\ evaluations[i].by # t => evaluations'[i] = evaluations[i]
           /\ evaluations[i].by = t =>
                evaluations'[i] = [evaluations[i] EXCEPT !.committed = TRUE]
  BY <1>0, RowsCommitted DEF Commit
<1>3. ASSUME NEW i \in DOMAIN evaluations
      PROVE  /\ DOMAIN evaluations'[i] =
                  {"by", "committed", "trigger_type", "trigger_id", "facts", "result"}
             /\ evaluations'[i].by = evaluations[i].by
             /\ evaluations'[i].trigger_id = evaluations[i].trigger_id
             /\ evaluations'[i].committed =
                  (IF evaluations[i].by = t THEN TRUE ELSE evaluations[i].committed)
  <2>1. DOMAIN evaluations[i] =
          {"by", "committed", "trigger_type", "trigger_id", "facts", "result"}
    BY DEF EvaluationInv, EvaluationOK
  <2>2. CASE evaluations[i].by # t
    BY <1>2, <2>1, <2>2
  <2>3. CASE evaluations[i].by = t
    <3>1. evaluations'[i] = [evaluations[i] EXCEPT !.committed = TRUE]
      BY <1>2, <2>3
    <3> QED
      BY <2>1, <2>3, <3>1
  <2> QED
    BY <2>2, <2>3
<1>4. ASSUME NEW i \in DOMAIN evaluations, evaluations[i].by # t PROVE EvaluationOK(i)'
  <2>1. EvaluationOK(i) /\ evaluations'[i] = evaluations[i]
    BY <1>2, <1>4 DEF EvaluationInv
  <2>2. ASSUME NEW s \in Requests, evaluations[i].by = s
        PROVE  /\ pc'[s] = pc[s] /\ job'[s] = job[s]
               /\ lock = s => lock' = s
    BY <1>0, <1>1, <1>4, <2>2 DEF Alone
  <2>3. Inserted(evaluations, i)'
    BY <2>1, <2>2 DEF EvaluationOK, Inserted
  <2>4. ASSUME NEW s \in Requests, evaluations[i].by = s, pc[s] = "commit",
               ~ Triggered(Ids(evaluations), job[s].trigger)
        PROVE  ~ Triggered(Ids(evaluations), job[s].trigger)'
    <3>1. lock = s /\ lock # t
      BY <1>4, <2>1, <2>4 DEF EvaluationOK, Inserted
    <3>2. \A k \in DOMAIN evaluations : evaluations[k].by # t
      BY <1>1, <3>1 DEF EvaluationInv, EvaluationOK, Inserted
    <3>3. /\ Ids(evaluations') = Ids(evaluations)
          /\ \A k \in Ids(evaluations) : evaluations'[k] = evaluations[k]
      BY <1>2, <3>2 DEF Ids
    <3>4. job'[s] = job[s]
      BY <1>1
    <3> QED
      BY <2>4, <3>3, <3>4 DEF Triggered
  <2> QED
    BY <2>1, <2>2, <2>3, <2>4 DEF EvaluationOK
<1>5. ASSUME NEW i \in DOMAIN evaluations, evaluations[i].by = t PROVE EvaluationOK(i)'
  <2>1. EvaluationOK(i) /\ evaluations'[i].committed
    BY <1>3, <1>5 DEF EvaluationInv
  <2>2. evaluations'[i].by = t /\ t # Before
    BY <1>3, <1>5, ProfileAssumption
  <2>3. Inserted(evaluations, i)'
    BY <1>1, <2>1, <2>2 DEF Inserted, Early, Late
  <2> QED
    BY <1>1, <1>3, <1>5, <2>1, <2>2, <2>3 DEF EvaluationOK
<1>6. ASSUME NEW i \in DOMAIN evaluations, NEW k \in DOMAIN evaluations,
             evaluations[i].by = t, evaluations[k].by # t, evaluations[k].committed
      PROVE  evaluations[i].trigger_id # evaluations[k].trigger_id
  <2>1. EvaluationOK(i) /\ EvaluationOK(k)
    BY DEF EvaluationInv
  <2>2. k \in Ids(evaluations)
    BY <1>6 DEF Ids
  <2>3. CASE job[t].kind = "create"
    <3>1. /\ evaluations[i].trigger_id = job[t].trigger
          /\ ~ Triggered(Ids(evaluations), job[t].trigger)
      BY <1>1, <1>6, <2>1, <2>3 DEF EvaluationOK
    <3> QED
      BY <2>2, <3>1 DEF Triggered
  <2>4. CASE job[t].kind # "create"
    <3>1. evaluations[i].trigger_id = t
      BY <1>6, <2>1, <2>4 DEF EvaluationOK
    <3>2. CASE evaluations[k].by = Before
      BY <2>1, <3>1, <3>2, ProfileAssumption DEF EvaluationOK
    <3>3. CASE evaluations[k].by \in Requests
      <4> DEFINE s == evaluations[k].by
      <4>1. \/ evaluations[k].trigger_id = s
            \/ job[s].kind = "create" /\ evaluations[k].trigger_id = job[s].trigger
        BY <2>1, <3>3 DEF EvaluationOK
      <4>2. JobOK(s) /\ s # t
        BY <1>6, <3>3
      <4> QED
        BY <3>1, <4>1, <4>2 DEF JobOK
    <3> QED
      BY <2>1, <3>2, <3>3 DEF EvaluationOK, Inserted
  <2> QED
    BY <2>3, <2>4
<1>7. CreatedOnce'
  <2> SUFFICES ASSUME NEW i \in Ids(evaluations'), NEW k \in Ids(evaluations'),
                      evaluations'[i].trigger_id = evaluations'[k].trigger_id
               PROVE  i = k
    BY DEF CreatedOnce
  <2>1. /\ i \in DOMAIN evaluations /\ k \in DOMAIN evaluations
        /\ evaluations[i].trigger_id = evaluations[k].trigger_id
        /\ evaluations[i].by # t => evaluations[i].committed
        /\ evaluations[k].by # t => evaluations[k].committed
    BY <1>2, <1>3 DEF Ids
  <2>2. CASE evaluations[i].by = t /\ evaluations[k].by = t
    BY <2>1, <2>2 DEF EvaluationInv
  <2>3. CASE evaluations[i].by # t /\ evaluations[k].by # t
    BY <2>1, <2>3 DEF EvaluationInv, CreatedOnce, Ids
  <2> QED
    BY <1>6, <2>1, <2>2, <2>3
<1>8. ASSUME NEW i \in DOMAIN evaluations', NEW k \in DOMAIN evaluations',
             evaluations'[i].by = evaluations'[k].by
      PROVE  i = k
  BY <1>2, <1>3, <1>8 DEF EvaluationInv
<1> QED
  BY <1>2, <1>4, <1>5, <1>7, <1>8 DEF EvaluationInv

-----------------------------------------------------------------------------
(* Audits.                                                                 *)

LEMMA AuditsQuiet ==
  ASSUME AuditInv, NEW t \in Requests, Alone(t), OthersLock(t), Quiet(t),
         pc'[t] = "level" => pc[t] \in Early,
         HolderOK(t)', UNCHANGED <<audits, row>>
  PROVE  AuditInv'
<1>1. ASSUME NEW i \in DOMAIN audits PROVE AuditOK(i)'
  <2>1. AuditOK(i)
    BY DEF AuditInv
  <2>2. Inserted(audits, i)'
    BY <2>1, RowsQuiet DEF AuditOK
  <2>3. ASSUME NEW s \in Requests, audits[i].by = s
        PROVE  /\ pc'[s] # "level"
               /\ pc'[s] = "commit" =>
                    /\ i = Len(audits)
                    /\ \A f \in Fields :
                         work'[s].fields[f] =
                           IF f \in audits[i].fields THEN s ELSE row.fields[f]
    <3>1. /\ pc[s] \notin Early /\ pc[s] # "level"
          /\ pc[s] = "commit" =>
               /\ i = Len(audits)
               /\ \A f \in Fields :
                    work[s].fields[f] =
                      IF f \in audits[i].fields THEN s ELSE row.fields[f]
      BY <2>1, <2>3 DEF AuditOK, Inserted
    <3>2. CASE s = t
      BY <3>1, <3>2 DEF Quiet, Late
    <3>3. CASE s # t
      <4>1. pc'[s] = pc[s] /\ work'[s] = work[s]
        BY <3>3 DEF Alone
      <4> QED
        BY <3>1, <4>1
    <3> QED
      BY <3>2, <3>3
  <2> QED
    BY <2>1, <2>2, <2>3 DEF AuditOK
<1>2. ASSUME NEW s \in Requests, s # t PROVE HolderOK(s)'
  <2>1. /\ pc'[s] = pc[s] /\ work'[s] = work[s] /\ (lock = s <=> lock' = s)
        /\ HolderOK(s)
    BY <1>2 DEF Alone, OthersLock, AuditInv
  <2> QED
    BY <2>1 DEF HolderOK
<1>3. ASSUME NEW f \in Fields PROVE FieldOK(f)'
  <2>1. FieldOK(f)
    BY DEF AuditInv
  <2> QED
    BY <2>1 DEF FieldOK, Changes, Ids
<1> QED
  BY <1>1, <1>2, <1>3 DEF AuditInv

\* A request inserts its audit while it holds the lock.
LEMMA AuditInserted ==
  ASSUME Shape, AuditInv, NEW t \in Requests, NEW a, Alone(t),
         pc[t] \in Early, pc'[t] = "commit", lock \in {NoTask, t}, lock' = t,
         audits' = Append(audits, a), row' = row,
         DOMAIN a = {"by", "committed", "fields", "source"},
         a.by = t, a.committed = FALSE,
         DOMAIN work'[t] = RowDomain,
         \A f \in Fields :
           work'[t].fields[f] = IF f \in a.fields THEN t ELSE row.fields[f]
  PROVE  AuditInv'
<1>0. PICK n : n = Len(audits) + 1
  OBVIOUS
<1>1. /\ Len(audits) \in Nat /\ DOMAIN audits = 1..Len(audits)
      /\ DOMAIN audits' = 1..n /\ Len(audits') = n
      /\ \A i \in DOMAIN audits : audits'[i] = audits[i]
      /\ audits'[n] = a
      /\ Ids(audits') = Ids(audits)
  <2>1. \E S : audits \in Seq(S)
    BY DEF Shape
  <2>2. WithRow(audits, a)
    BY <2>1, RowInserted
  <2> QED
    BY <1>0, <2>2 DEF WithRow
<1>2. /\ \A i \in DOMAIN audits' : i # n => i \in DOMAIN audits
      /\ n \in DOMAIN audits'
  BY <1>0, <1>1
<1>3. t # Before /\ NoTask \notin Requests
  BY ProfileAssumption
<1>5. AuditOK(n)'
  <2>1. /\ audits'[n].by = t /\ audits'[n].committed = FALSE
        /\ audits'[n].fields = a.fields
        /\ DOMAIN audits'[n] = {"by", "committed", "fields", "source"}
    BY <1>1
  <2>2. Inserted(audits, n)'
    <3>1. /\ audits'[n].by \in Requests /\ audits'[n].by # Before
          /\ ~ audits'[n].committed
      BY <1>3, <2>1
    <3>2. ASSUME NEW s \in Requests, audits'[n].by = s
          PROVE  /\ pc'[s] \notin Early /\ pc'[s] \notin Late
                 /\ pc'[s] = "commit" => lock' = s
      <4>1. s = t
        BY <2>1, <3>2
      <4> QED
        BY <2>1, <4>1 DEF Early, Late
    <3> QED
      BY <3>1, <3>2 DEF Inserted
  <2>3. \A f \in Fields :
          work'[t].fields[f] = IF f \in audits'[n].fields THEN t ELSE row'.fields[f]
    BY <2>1
  <2>4. n = Len(audits)'
    BY <1>1
  <2>5. \A s \in Requests : audits'[n].by = s => pc'[s] # "level"
    BY <2>1
  <2> QED
    BY <2>1, <2>2, <2>3, <2>4, <2>5 DEF AuditOK
<1>6. ASSUME NEW i \in DOMAIN audits PROVE AuditOK(i)'
  <2>1. AuditOK(i) /\ audits'[i] = audits[i]
    BY <1>1 DEF AuditInv
  <2>2. ASSUME NEW s \in Requests, audits[i].by = s
        PROVE  pc'[s] = pc[s] /\ pc[s] # "commit"
    <3>1. s # t
      BY <2>1, <2>2 DEF AuditOK, Inserted
    <3>2. pc[s] = "commit" => lock = s
      BY <2>1, <2>2 DEF AuditOK, Inserted
    <3> QED
      BY <1>3, <3>1, <3>2 DEF Alone
  <2>3. Inserted(audits, i)'
    BY <2>1, <2>2 DEF AuditOK, Inserted
  <2> QED
    BY <2>1, <2>2, <2>3 DEF AuditOK
<1>7. ASSUME NEW s \in Requests PROVE HolderOK(s)'
  <2>1. CASE s # t
    <3>1. pc'[s] = pc[s] /\ lock # s /\ HolderOK(s)
      BY <1>3, <2>1 DEF Alone, AuditInv
    <3> QED
      BY <2>1, <3>1 DEF HolderOK
  <2>2. CASE s = t
    <3>1. \E i \in DOMAIN audits' : audits'[i].by = t
      BY <1>1, <1>2
    <3> QED
      BY <2>2, <3>1 DEF HolderOK
  <2> QED
    BY <2>1, <2>2
<1>8. ASSUME NEW f \in Fields PROVE FieldOK(f)'
  <2>1. FieldOK(f)
    BY DEF AuditInv
  <2>2. Changes(f)' = Changes(f)
    BY <1>1 DEF Changes, Ids
  <2>3. \A i \in Changes(f) : audits'[i] = audits[i]
    BY <1>1 DEF Changes, Ids
  <2> QED
    BY <2>1, <2>2, <2>3 DEF FieldOK
<1>9. \A i \in DOMAIN audits' : AuditOK(i)'
  BY <1>2, <1>5, <1>6
<1>10. DOMAIN row' = RowDomain
  BY DEF AuditInv
<1> QED
  BY <1>7, <1>8, <1>9, <1>10 DEF AuditInv

\* The row takes what its last audit says.
LEMMA AuditsCommitted ==
  ASSUME Shape, AuditInv, NEW t \in Requests, Commit(t)
  PROVE  AuditInv'
<1>0. Alone(t) /\ DOMAIN pc = Requests
  BY StepsAlone DEF Shape, Step
<1>1. /\ pc[t] = "commit" /\ pc'[t] = "delete"
      /\ lock' = IF lock = t THEN NoTask ELSE lock
      /\ row' = IF lock = t THEN work[t] ELSE row
  BY <1>0 DEF Commit, Goto
<1>2. /\ Len(audits) \in Nat /\ DOMAIN audits = 1..Len(audits)
      /\ DOMAIN audits' = DOMAIN audits /\ Len(audits') = Len(audits)
      /\ \A i \in DOMAIN audits :
           /\ audits[i].by # t => audits'[i] = audits[i]
           /\ audits[i].by = t => audits'[i] = [audits[i] EXCEPT !.committed = TRUE]
  <2>1. PICK S : audits \in Seq(S)
    BY DEF Shape
  <2>2. Len(audits) \in Nat /\ DOMAIN audits = 1..Len(audits)
    BY <2>1, LenProperties
  <2>3. audits' = CommitRows(audits, t)
    BY DEF Commit
  <2> QED
    BY <2>1, <2>2, <2>3, RowsCommitted
<1>3. ASSUME NEW i \in DOMAIN audits
      PROVE  /\ DOMAIN audits'[i] = {"by", "committed", "fields", "source"}
             /\ audits'[i].by = audits[i].by /\ audits'[i].fields = audits[i].fields
             /\ audits'[i].committed =
                  (IF audits[i].by = t THEN TRUE ELSE audits[i].committed)
  <2>1. DOMAIN audits[i] = {"by", "committed", "fields", "source"}
    BY DEF AuditInv, AuditOK
  <2>2. CASE audits[i].by # t
    BY <1>2, <2>1, <2>2
  <2>3. CASE audits[i].by = t
    <3>1. audits'[i] = [audits[i] EXCEPT !.committed = TRUE]
      BY <1>2, <2>3
    <3> QED
      BY <2>1, <2>3, <3>1
  <2> QED
    BY <2>2, <2>3
<1>4. \A i \in DOMAIN audits : audits[i].by = t => lock = t /\ i = Len(audits)
  BY <1>1 DEF AuditInv, AuditOK, Inserted
<1>5. ASSUME NEW i \in DOMAIN audits PROVE AuditOK(i)'
  <2>1. AuditOK(i)
    BY DEF AuditInv
  <2>2. CASE audits[i].by = t
    <3>1. audits'[i].by = t /\ audits'[i].committed /\ t # Before
      BY <1>3, <2>2, ProfileAssumption
    <3>2. Inserted(audits, i)'
      BY <1>1, <3>1 DEF Inserted, Early, Late
    <3> QED
      BY <1>1, <1>3, <3>1, <3>2 DEF AuditOK
  <2>3. CASE audits[i].by # t
    <3>1. audits'[i] = audits[i]
      BY <1>2, <2>3
    <3>2. ASSUME NEW s \in Requests, audits[i].by = s
          PROVE  /\ pc'[s] = pc[s] /\ work'[s] = work[s]
                 /\ lock = s => lock' = s /\ row' = row
      BY <1>0, <1>1, <2>3, <3>2 DEF Alone
    <3>3. Inserted(audits, i)'
      BY <2>1, <3>1, <3>2 DEF AuditOK, Inserted
    <3>4. ASSUME NEW s \in Requests, audits[i].by = s, pc[s] = "commit"
          PROVE  /\ i = Len(audits)
                 /\ \A f \in Fields :
                      work'[s].fields[f] =
                        IF f \in audits[i].fields THEN s ELSE row'.fields[f]
      <4>1. lock = s
        BY <2>1, <3>4 DEF AuditOK, Inserted
      <4>2. work'[s] = work[s] /\ row' = row
        BY <3>2, <3>4, <4>1
      <4> QED
        BY <2>1, <3>4, <4>2 DEF AuditOK
    <3> QED
      BY <1>2, <2>1, <3>1, <3>2, <3>3, <3>4 DEF AuditOK
  <2> QED
    BY <2>2, <2>3
<1>6. ASSUME NEW s \in Requests PROVE HolderOK(s)'
  <2>1. CASE s = t
    <3>1. lock' # t
      BY <1>1, ProfileAssumption
    <3> QED
      BY <1>1, <2>1, <3>1 DEF HolderOK
  <2>2. CASE s # t
    <3>1. /\ pc'[s] = pc[s] /\ work'[s] = work[s] /\ HolderOK(s)
          /\ lock' = s => lock = s /\ row' = row
          /\ lock = s => lock' = s
      BY <1>0, <1>1, <2>2, ProfileAssumption DEF Alone, AuditInv
    <3>2. \A i \in DOMAIN audits : audits'[i].by = audits[i].by
      BY <1>3
    <3> QED
      BY <1>2, <3>1, <3>2 DEF HolderOK
  <2> QED
    BY <2>1, <2>2
<1>7. ASSUME NEW f \in Fields PROVE FieldOK(f)'
  <2>0. FieldOK(f) /\ HolderOK(t)
    BY DEF AuditInv
  <2>1. ASSUME \A i \in DOMAIN audits : audits[i].by = t => f \notin audits[i].fields,
               row'.fields[f] = row.fields[f]
        PROVE  FieldOK(f)'
    <3>1. Changes(f)' = Changes(f)
      <4>1. ASSUME NEW i \in DOMAIN audits
            PROVE  i \in Changes(f)' <=> i \in Changes(f)
        <5>1. CASE audits[i].by = t
          BY <1>3, <2>1, <5>1 DEF Changes, Ids
        <5>2. CASE audits[i].by # t
          BY <1>2, <5>2 DEF Changes, Ids
        <5> QED
          BY <5>1, <5>2
      <4>2. Changes(f) \subseteq DOMAIN audits /\ Changes(f)' \subseteq DOMAIN audits
        BY <1>2 DEF Changes, Ids
      <4> QED
        BY <4>1, <4>2
    <3>2. \A i \in Changes(f) : audits'[i].by = audits[i].by
      BY <1>3 DEF Changes, Ids
    <3> QED
      BY <2>0, <2>1, <3>1, <3>2 DEF FieldOK
  <2>2. CASE \A i \in DOMAIN audits : audits[i].by # t
    <3>1. row'.fields[f] = row.fields[f]
      BY <1>1, <2>0, <2>2 DEF HolderOK
    <3> QED
      BY <2>1, <2>2, <3>1
  <2>3. CASE \E i \in DOMAIN audits : audits[i].by = t
    <3>1. PICK n \in DOMAIN audits : audits[n].by = t
      BY <2>3
    <3>2. /\ n = Len(audits) /\ row' = work[t]
          /\ work[t].fields[f] = IF f \in audits[n].fields THEN t ELSE row.fields[f]
      <4>1. AuditOK(n)
        BY DEF AuditInv
      <4> QED
        BY <1>1, <1>4, <3>1, <4>1 DEF AuditOK
    <3>3. CASE f \in audits[n].fields
      <4>1. n \in Changes(f)'
        BY <1>2, <1>3, <3>1, <3>3 DEF Changes, Ids
      <4>2. \A i \in Changes(f)' : i \in 1..Len(audits)
        BY <1>2 DEF Changes, Ids
      <4>3. \A i \in Changes(f)' : i =< n
        BY <1>2, <3>2, <4>2
      <4>4. row'.fields[f] = audits'[n].by
        BY <1>3, <3>1, <3>2, <3>3
      <4> QED
        BY <4>1, <4>3, <4>4 DEF FieldOK
    <3>4. CASE f \notin audits[n].fields
      <4>1. \A i \in DOMAIN audits : audits[i].by = t => f \notin audits[i].fields
        BY <1>4, <3>2, <3>4
      <4>2. row'.fields[f] = row.fields[f]
        BY <3>2, <3>4
      <4> QED
        BY <2>1, <4>1, <4>2
    <3> QED
      BY <3>3, <3>4
  <2> QED
    BY <2>2, <2>3
<1>8. DOMAIN row' = RowDomain
  <2>1. HolderOK(t)
    BY DEF AuditInv
  <2> QED
    BY <1>1, <2>1 DEF HolderOK, AuditInv
<1> QED
  BY <1>2, <1>5, <1>6, <1>7, <1>8 DEF AuditInv

-----------------------------------------------------------------------------
(* Every step.                                                             *)

LEMMA NotHolder ==
  ASSUME NEW t \in Requests, HolderOK(t), pc[t] \notin {"insert", "commit"},
         pc'[t] # "insert", lock' = lock
  PROVE  HolderOK(t)'
<1>1. lock' # t
  BY DEF HolderOK
<1> QED
  BY <1>1 DEF HolderOK

LEMMA LedgerStep ==
  ASSUME Shape, \A s \in Requests : JobOK(s), EvaluationInv, AuditInv,
         NEW t \in Requests, Step(t)
  PROVE  EvaluationInv' /\ AuditInv'
<1>0. /\ Alone(t) /\ pc \in [Requests -> Steps] /\ DOMAIN work = Requests
      /\ NoTask \notin Requests /\ DOMAIN row = RowDomain
  BY StepsAlone, ProfileAssumption DEF Shape, AuditInv
<1>1. JobOK(t) /\ HolderOK(t)
  BY DEF AuditInv
<1>2. ASSUME UNCHANGED <<evaluations, audits, row>>, OthersLock(t), Quiet(t),
             pc[t] \in Early \/ job'[t] = job[t], HolderOK(t)',
             pc'[t] = "level" => pc[t] \in Early
      PROVE  EvaluationInv' /\ AuditInv'
  <2>1. pc[t] = "level" => job[t].kind = "submit"
    BY <1>1 DEF JobOK
  <2>2. EvaluationInv'
    BY <1>0, <1>2, <2>1, EvaluationsQuiet
  <2>3. AuditInv'
    BY <1>0, <1>2, AuditsQuiet
  <2> QED
    BY <2>2, <2>3
<1>3. CASE Arrives(t)
  <2>1. PICK j \in Jobs :
          \/ BeginCreate(t, j) \/ BeginSubmit(t, j) \/ BeginUpdate(t, j)
          \/ BeginGet(t, j) \/ suitability_check(t, j)
    BY <1>3 DEF Arrives
  <2>2. /\ UNCHANGED <<evaluations, audits, row, lock>>
        /\ pc[t] = "idle" /\ pc'[t] \in {"upsert", "assess", "write", "cache", "end"}
    BY <1>0, <2>1 DEF BeginCreate, BeginSubmit, BeginUpdate, BeginGet,
       suitability_check, Begin, Goto, tables
  <2>3. OthersLock(t) /\ Quiet(t) /\ HolderOK(t)'
    BY <1>1, <2>2, NotHolder DEF OthersLock, Quiet, Early
  <2> QED
    BY <1>2, <2>2, <2>3 DEF Early
<1>4. CASE Upsert(t)
  <2>1. PICK level : ChangeRow(t, Row(level, AllFields(t)))
    BY <1>4 DEF Upsert
  <2>2. /\ UNCHANGED <<evaluations, audits, row, job>>
        /\ pc[t] = "upsert" /\ pc'[t] = "insert" /\ lock = NoTask /\ lock' = t
        /\ work'[t] = Row(level, AllFields(t))
    BY <1>0, <1>4, <2>1 DEF Upsert, Goto, ChangeRow, tables
  <2>3. HolderOK(t)'
    BY <2>2 DEF HolderOK, Row, AllFields, RowDomain
  <2>4. OthersLock(t) /\ Quiet(t)
    BY <1>0, <2>2 DEF OthersLock, Quiet, Early
  <2> QED
    BY <1>2, <2>2, <2>3, <2>4
<1>5. CASE InsertAssessment(t) \/ RefuseFields(t)
  <2>1. /\ UNCHANGED <<evaluations, audits, row, job, lock>>
        /\ pc[t] \in {"assess", "write"} /\ pc'[t] \in {"rebuild", "commit"}
    BY <1>0, <1>5 DEF InsertAssessment, RefuseFields, Goto, tables
  <2>2. OthersLock(t) /\ Quiet(t) /\ HolderOK(t)'
    BY <1>1, <2>1, NotHolder DEF OthersLock, Quiet, Early
  <2> QED
    BY <1>2, <2>1, <2>2
<1>6. CASE SetLevel(t)
  <2>1. PICK level : ChangeRow(t, [row EXCEPT !.risk = level])
    BY <1>6 DEF SetLevel
  <2>2. /\ UNCHANGED <<evaluations, audits, row, job>>
        /\ pc[t] = "level" /\ pc'[t] = "commit" /\ lock = NoTask /\ lock' = t
        /\ work'[t] = [row EXCEPT !.risk = level]
    BY <1>0, <1>6, <2>1 DEF SetLevel, Goto, ChangeRow, tables
  <2>3. DOMAIN work'[t] = RowDomain /\ work'[t].fields = row'.fields
    BY <1>0, <2>2 DEF RowDomain
  <2>4. HolderOK(t)'
    BY <2>2, <2>3 DEF HolderOK
  <2>5. OthersLock(t) /\ Quiet(t)
    BY <1>0, <2>2 DEF OthersLock, Quiet
  <2> QED
    BY <1>2, <2>2, <2>4, <2>5
<1>7. CASE RefuseEvaluation(t) \/ RequestFails(t)
  <2>1. /\ UNCHANGED <<evaluations, audits, row, job>>
        /\ pc'[t] = "end" /\ lock' = (IF lock = t THEN NoTask ELSE lock)
    BY <1>0, <1>7 DEF RefuseEvaluation, RequestFails, Fail, tables
  <2>2. OthersLock(t) /\ Quiet(t) /\ HolderOK(t)'
    BY <1>0, <2>1 DEF OthersLock, Quiet, HolderOK
  <2> QED
    BY <1>2, <2>1, <2>2
<1>8. CASE DeleteCopy(t) \/ GetCopy(t) \/ SelectRow(t) \/ FillCache(t)
  <2>1. /\ UNCHANGED <<evaluations, audits, row, job, lock>>
        /\ pc[t] \in Late /\ pc'[t] \in Late \cup {"end"}
    BY <1>0, <1>8 DEF DeleteCopy, AfterDelete, GetCopy, SelectRow, FillCache,
       Goto, tables, Late
  <2>2. OthersLock(t) /\ Quiet(t) /\ HolderOK(t)'
    BY <1>1, <2>1, NotHolder DEF OthersLock, Quiet, Late
  <2> QED
    BY <1>2, <2>1, <2>2 DEF Late
<1>9. CASE Commit(t)
  BY <1>9, EvaluationsCommitted, AuditsCommitted
<1>10. CASE InsertEvaluation(t)
  <2>1. /\ pc[t] = "insert" /\ pc'[t] = "commit" /\ UNCHANGED <<job, lock, row, work>>
        /\ ~ Triggered(Ids(evaluations), job[t].trigger)
        /\ audits' = Append(audits, Audit(t, Fields, job[t].source, FALSE))
    BY <1>0, <1>10 DEF InsertEvaluation, Goto
  <2>2. lock = t /\ job[t].kind = "create"
    BY <1>1, <2>1 DEF HolderOK, JobOK
  <2>3. PICK facts, a : evaluations' = Append(evaluations,
          Evaluation(t, "MANUAL_CREATE", job[t].trigger, facts, a, FALSE))
    BY <1>10 DEF InsertEvaluation
  <2>4. EvaluationInv'
    <3> DEFINE e == Evaluation(t, "MANUAL_CREATE", job[t].trigger, facts, a, FALSE)
    <3>1. /\ DOMAIN e = {"by", "committed", "trigger_type", "trigger_id", "facts", "result"}
          /\ e.by = t /\ e.committed = FALSE /\ e.trigger_id = job[t].trigger
      BY DEF Evaluation
    <3>2. evaluations' = Append(evaluations, e)
      BY <2>3
    <3> HIDE DEF e
    <3> QED
      BY <1>0, <2>1, <2>2, <3>1, <3>2, EvaluationInserted DEF Early
  <2>5. AuditInv'
    <3> DEFINE a1 == Audit(t, Fields, job[t].source, FALSE)
    <3>1. /\ DOMAIN a1 = {"by", "committed", "fields", "source"}
          /\ a1.by = t /\ a1.committed = FALSE /\ a1.fields = Fields
      BY DEF Audit
    <3>2. audits' = Append(audits, a1)
      BY <2>1
    <3>3. DOMAIN work'[t] = RowDomain /\ \A f \in Fields : work'[t].fields[f] = t
      BY <1>1, <2>1, <2>2 DEF HolderOK
    <3> HIDE DEF a1
    <3> QED
      BY <1>0, <2>1, <2>2, <3>1, <3>2, <3>3, AuditInserted DEF Early
  <2> QED
    BY <2>4, <2>5
<1>11. CASE Rebuild(t)
  <2>1. /\ pc[t] = "rebuild" /\ pc'[t] = "level" /\ UNCHANGED <<job, lock, row, work, audits>>
    BY <1>0, <1>11 DEF Rebuild, Goto
  <2>2. job[t].kind = "submit"
    BY <1>1, <2>1 DEF JobOK
  <2>3. OthersLock(t) /\ Quiet(t) /\ HolderOK(t)'
    BY <1>1, <2>1, NotHolder DEF OthersLock, Quiet, Early
  <2>4. AuditInv'
    BY <1>0, <2>1, <2>3, AuditsQuiet DEF Early
  <2>5. CASE evaluations' = evaluations
    BY <1>2, <2>1, <2>3, <2>5 DEF Early
  <2>6. CASE evaluations' # evaluations
    <3>1. PICK facts, a : evaluations' = Append(evaluations,
            Evaluation(t, "ASSESSMENT_COMPLETED", t, facts, a, FALSE))
      BY <1>11, <2>6 DEF Rebuild
    <3> DEFINE e == Evaluation(t, "ASSESSMENT_COMPLETED", t, facts, a, FALSE)
    <3>2. /\ DOMAIN e = {"by", "committed", "trigger_type", "trigger_id", "facts", "result"}
          /\ e.by = t /\ e.committed = FALSE /\ e.trigger_id = t
      BY DEF Evaluation
    <3>3. evaluations' = Append(evaluations, e)
      BY <3>1
    <3> HIDE DEF e
    <3>4. EvaluationInv'
      BY <1>0, <2>1, <2>2, <3>2, <3>3, EvaluationInserted DEF Early
    <3> QED
      BY <2>4, <3>4
  <2> QED
    BY <2>5, <2>6
<1>12. CASE UpdateFields(t)
  <2> DEFINE F == Applied(t)
             a == Audit(t, F, job[t].source, FALSE)
  <2>1. /\ pc[t] = "write" /\ pc'[t] = "commit" /\ UNCHANGED <<evaluations, job, row>>
        /\ lock = NoTask /\ lock' = t
        /\ work'[t] = [row EXCEPT !.fields =
                         [f \in Fields |-> IF f \in F THEN t ELSE @[f]]]
        /\ audits' = Append(audits, a)
    BY <1>0, <1>12 DEF UpdateFields, Goto, ChangeRow
  <2>2. /\ DOMAIN a = {"by", "committed", "fields", "source"}
        /\ a.by = t /\ a.committed = FALSE /\ a.fields = F
    BY DEF Audit
  <2> HIDE DEF F, a
  <2>3. /\ DOMAIN work'[t] = RowDomain
        /\ \A f \in Fields :
             work'[t].fields[f] = IF f \in a.fields THEN t ELSE row.fields[f]
    BY <1>0, <2>1, <2>2 DEF RowDomain
  <2>4. AuditInv'
    <3>1. /\ pc[t] \in Early /\ pc'[t] = "commit" /\ lock \in {NoTask, t} /\ lock' = t
          /\ row' = row /\ audits' = Append(audits, a)
      BY <2>1 DEF Early
    <3>2. Shape /\ AuditInv /\ Alone(t)
      BY <1>0
    <3>3. DOMAIN a = {"by", "committed", "fields", "source"} /\ a.by = t /\ a.committed = FALSE
      BY <2>2
    <3>4. /\ DOMAIN work'[t] = RowDomain
          /\ \A f \in Fields :
               work'[t].fields[f] = IF f \in a.fields THEN t ELSE row.fields[f]
      BY <2>3
    <3> QED
      BY <3>1, <3>2, <3>3, <3>4, AuditInserted
  <2>5. OthersLock(t) /\ Quiet(t)
    BY <1>0, <2>1 DEF OthersLock, Quiet, Early
  <2>6. EvaluationInv'
    BY <1>0, <2>1, <2>5, EvaluationsQuiet
  <2> QED
    BY <2>4, <2>6
<1> QED
  BY <1>3, <1>4, <1>5, <1>6, <1>7, <1>8, <1>9, <1>10, <1>11, <1>12 DEF Step

LEMMA ProfileNext == ASSUME ProfileInv, [Next]_vars PROVE ProfileInv'
<1>1. ASSUME NEW t \in Requests, Step(t) PROVE ProfileInv'
  BY <1>1, StepShape, CopyStep, StaleStep, JobStep, LedgerStep DEF ProfileInv
<1>2. CASE AssessmentExpires \/ CopyExpires \/ UNCHANGED vars
  <2>1. /\ UNCHANGED <<evaluations, audits, row, lock, pc, job, seen, work, faults,
                       late, past>>
        /\ cache' = cache \/ cache' = {}
    BY <1>2 DEF AssessmentExpires, CopyExpires, vars, tables, request
  <2>2. Shape'
    BY <2>1 DEF ProfileInv, Shape
  <2>3. CopyInv' /\ StaleCopyIsExplained'
    BY <2>1 DEF ProfileInv, CopyInv, CacheWasCommitted, StaleCopyIsExplained
  <2>4. \A t \in Requests : JobOK(t)'
    BY <2>1 DEF ProfileInv, JobOK
  <2>5. EvaluationInv'
    BY <2>1 DEF ProfileInv, EvaluationInv, EvaluationOK, Inserted, CreatedOnce,
       Triggered, Ids
  <2>6. AuditInv'
    BY <2>1 DEF ProfileInv, AuditInv, AuditOK, Inserted, HolderOK, FieldOK,
       Changes, Ids
  <2> QED
    BY <2>2, <2>3, <2>4, <2>5, <2>6 DEF ProfileInv
<1> QED
  BY <1>1, <1>2 DEF ProfileInv, Next

LEMMA ProfileInit == Init => ProfileInv
<1> SUFFICES ASSUME Init PROVE ProfileInv
  OBVIOUS
<1>1. /\ lock = NoTask /\ cache = {} /\ faults = 0 /\ past = {row}
      /\ pc = [t \in Requests |-> "idle"] /\ job = [t \in Requests |-> NoJob]
      /\ seen = [t \in Requests |-> NoSnapshot]
      /\ work = [t \in Requests |-> NoRow]
      /\ NoTask \notin Requests /\ Before \notin Requests
  BY ProfileAssumption DEF Init
<1>2. CopyInv /\ StaleCopyIsExplained /\ \A t \in Requests : JobOK(t)
  BY <1>1 DEF CopyInv, StaleCopyIsExplained, CacheWasCommitted, JobOK,
     NoSnapshot, NoJob
<1>3. \A t \in Requests : HolderOK(t)
  BY <1>1 DEF HolderOK
<1>4. CASE evaluations = <<>> /\ audits = <<>> /\ row = NoRow
  <2>1. evaluations \in Seq({}) /\ audits \in Seq({})
    BY <1>4
  <2>2. DOMAIN evaluations = {} /\ DOMAIN audits = {}
    BY <1>4
  <2>3. Shape
    BY <1>1, <2>1 DEF Shape, Steps, Early
  <2>4. EvaluationInv
    BY <2>2 DEF EvaluationInv, CreatedOnce, Ids
  <2>5. DOMAIN row = RowDomain /\ \A f \in Fields : row.fields[f] = Unset
    BY <1>4 DEF NoRow, Row, RowDomain
  <2>6. AuditInv
    BY <1>3, <2>2, <2>5 DEF AuditInv, FieldOK, Changes, Ids
  <2> QED
    BY <1>2, <2>3, <2>4, <2>6 DEF ProfileInv
<1>5. ASSUME NEW e, NEW a, NEW level, NEW facts, NEW r,
             e = Evaluation(Before, "MANUAL_CREATE", Before, facts, r, TRUE),
             a = Audit(Before, Fields, "KYC", TRUE),
             evaluations = <<e>>, audits = <<a>>,
             row = Row(level, AllFields(Before))
      PROVE  ProfileInv
  <2>1. evaluations \in Seq({e}) /\ audits \in Seq({a})
    BY <1>5
  <2>2. /\ DOMAIN evaluations = {1} /\ evaluations[1] = e
        /\ DOMAIN audits = {1} /\ audits[1] = a
    BY <1>5
  <2>3. Shape
    <3>1. /\ pc \in [Requests -> Steps] /\ DOMAIN job = Requests
          /\ DOMAIN seen = Requests /\ DOMAIN work = Requests /\ faults \in Nat
      BY <1>1 DEF Steps, Early
    <3>2. (\E S : evaluations \in Seq(S)) /\ (\E S : audits \in Seq(S))
      BY <2>1
    <3> QED
      BY <3>1, <3>2 DEF Shape
  <2>4. /\ DOMAIN e = {"by", "committed", "trigger_type", "trigger_id", "facts", "result"}
        /\ e.by = Before /\ e.committed = TRUE /\ e.trigger_id = Before
    BY <1>5 DEF Evaluation
  <2>5. EvaluationInv
    BY <1>1, <2>2, <2>4 DEF EvaluationInv, EvaluationOK, Inserted, CreatedOnce, Ids
  <2>6. /\ DOMAIN a = {"by", "committed", "fields", "source"}
        /\ a.by = Before /\ a.committed = TRUE /\ a.fields = Fields
    BY <1>5 DEF Audit
  <2>7. AuditOK(1)
    BY <1>1, <2>2, <2>6 DEF AuditOK, Inserted
  <2>8. DOMAIN row = RowDomain /\ \A f \in Fields : row.fields[f] = Before
    BY <1>5 DEF Row, RowDomain, AllFields
  <2>9. ASSUME NEW f \in Fields PROVE FieldOK(f)
    <3>1. Changes(f) = {1}
      BY <2>2, <2>6 DEF Changes, Ids
    <3> QED
      BY <2>2, <2>6, <2>8, <3>1 DEF FieldOK
  <2>10. AuditInv
    BY <1>3, <2>2, <2>7, <2>8, <2>9 DEF AuditInv
  <2> QED
    BY <1>2, <2>3, <2>5, <2>10 DEF ProfileInv
<1>6. \/ evaluations = <<>> /\ audits = <<>> /\ row = NoRow
      \/ \E r, facts, level :
           /\ evaluations = <<Evaluation(Before, "MANUAL_CREATE", Before, facts, r, TRUE)>>
           /\ audits = <<Audit(Before, Fields, "KYC", TRUE)>>
           /\ row = Row(level, AllFields(Before))
  BY DEF Init
<1> QED
  BY <1>4, <1>5, <1>6

LEMMA Invariance == Spec => []ProfileInv
BY ProfileInit, ProfileNext, PTL DEF Spec

-----------------------------------------------------------------------------
(* What follows.                                                           *)

\* However requests interleave and fail, what readers get from Redis was a
\* committed profile (profile_service.py:174).
THEOREM CopiesWereCommitted == Spec => []CacheWasCommitted
<1>1. ProfileInv => CacheWasCommitted
  BY DEF ProfileInv, CopyInv
<1> QED
  BY <1>1, Invariance, PTL

\* The deletion after a commit, a failure of it, and a reader that overtook
\* it are all that can explain an old copy (profile_service.py:195-202).
THEOREM StaleCopiesExplained == Spec => []StaleCopyIsExplained
<1>1. ProfileInv => StaleCopyIsExplained
  BY DEF ProfileInv
<1> QED
  BY <1>1, Invariance, PTL

\* Any number of repeated creations and assessments at once make one
\* evaluation each: those that repeat wait for the lock of the row, and the
\* unique key refuses them after it (schema.py:166).
THEOREM CreationsAreOnce == Spec => []CreatedOnce
<1>1. ProfileInv => CreatedOnce
  BY DEF ProfileInv, EvaluationInv
<1> QED
  BY <1>1, Invariance, PTL

LEMMA LatestIs ==
  ASSUME NEW S, NEW n \in S, S \subseteq Nat \ {0}, \A i \in S : i =< n
  PROVE  Latest(S) = n
<1>1. n \in S \cup {0} /\ \A i \in S \cup {0} : n >= i
  OBVIOUS
<1>2. \A m \in S \cup {0} : (\A i \in S \cup {0} : m >= i) => m = n
  <2> SUFFICES ASSUME NEW m \in S \cup {0}, \A i \in S \cup {0} : m >= i
               PROVE  m = n
    OBVIOUS
  <2>1. m >= n /\ n >= m /\ m \in Nat /\ n \in Nat
    BY <1>1
  <2> QED
    BY <2>1
<1> QED
  BY <1>1, <1>2 DEF Latest, Max

LEMMA LatestOfNone == Latest({}) = 0
BY DEF Latest, Max

\* A field holds what its last committed audit says, for any number of
\* updates, creations and assessments at once: a transaction inserts its
\* audit while it holds the row (profile_service.py:262-283).
THEOREM AuditsMatchTheRow == Spec => []AuditMatchesRow
<1>1. ASSUME ProfileInv PROVE AuditMatchesRow
  <2> SUFFICES ASSUME NEW f \in Fields
               PROVE  LET latest == Latest(Changes(f))
                      IN row.fields[f] = IF latest = 0 THEN Unset
                                         ELSE audits[latest].by
    BY DEF AuditMatchesRow, Changes
  <2>1. FieldOK(f)
    BY <1>1 DEF ProfileInv, AuditInv
  <2>2. Changes(f) \subseteq Nat \ {0}
    <3>1. PICK S : audits \in Seq(S)
      BY <1>1 DEF ProfileInv, Shape
    <3>2. DOMAIN audits \subseteq Nat \ {0}
      BY <3>1, LenProperties
    <3> QED
      BY <3>2 DEF Changes, Ids
  <2>3. CASE Changes(f) = {} /\ row.fields[f] = Unset
    BY <2>3, LatestOfNone
  <2>4. ASSUME NEW n \in Changes(f), row.fields[f] = audits[n].by,
               \A i \in Changes(f) : i =< n
        PROVE  LET latest == Latest(Changes(f))
               IN row.fields[f] = IF latest = 0 THEN Unset ELSE audits[latest].by
    <3>1. Latest(Changes(f)) = n /\ n # 0
      BY <2>2, <2>4, LatestIs
    <3> QED
      BY <2>4, <3>1
  <2> QED
    BY <2>1, <2>3, <2>4 DEF FieldOK
<1> QED
  BY <1>1, Invariance, PTL

-----------------------------------------------------------------------------
(* Suitability.  While no two transactions that write were open at once,   *)
(* the last evaluation is that of the last assessment and the facts stated *)
(* last, and the row has its level; and the one open transaction is about  *)
(* to leave it so.                                                         *)

IsLast(n, ids) == n \in ids /\ \A i \in ids : i =< n
Above(n, ids) == \A i \in ids : i < n

Stated == {i \in Ids(evaluations) : evaluations[i].trigger_type = "MANUAL_CREATE"}

\* What is committed.
StoredOK ==
  /\ Ids(assessments) # {} => \E n \in Ids(assessments) : IsLast(n, Ids(assessments))
  /\ Ids(evaluations) = {} /\ row # NoRow =>
       \E n \in Ids(assessments) :
         IsLast(n, Ids(assessments)) /\ row.risk = assessments[n].level
  /\ Ids(evaluations) # {} =>
       \E n \in Ids(assessments), l \in Ids(evaluations), s \in Stated :
         /\ IsLast(n, Ids(assessments)) /\ IsLast(l, Ids(evaluations))
         /\ IsLast(s, Stated)
         /\ evaluations[l].facts = evaluations[s].facts
         /\ evaluations[l].result =
              evaluate_profile(evaluations[s].facts, assessments[n].level,
                               assessments[n].score)
         /\ row.risk = evaluations[l].result.effective

\* What a creation has inserted by its commit.
CreateOK(t) ==
  /\ IsLast(seen[t].assessment, Ids(assessments))
  /\ pc[t] = "insert" =>
       work[t].risk = evaluate_profile(job[t].facts, Scored(t).level,
                                       Scored(t).score).effective
  /\ pc[t] = "commit" =>
       /\ lock = t
       /\ \E i \in DOMAIN evaluations :
            /\ evaluations[i].by = t /\ Above(i, Ids(evaluations))
            /\ evaluations[i].trigger_type = "MANUAL_CREATE"
            /\ evaluations[i].result =
                 evaluate_profile(evaluations[i].facts, Scored(t).level,
                                  Scored(t).score)
            /\ work[t].risk = evaluations[i].result.effective

\* What an assessment has inserted.
Handed(t) == Assessment(t, job[t].answers, FALSE)

Rebuilt(t) ==
  \E e \in DOMAIN evaluations, l \in Ids(evaluations) :
    /\ evaluations[e].by = t /\ Above(e, Ids(evaluations))
    /\ evaluations[e].trigger_type = "ASSESSMENT_COMPLETED"
    /\ IsLast(l, Ids(evaluations)) /\ evaluations[e].facts = evaluations[l].facts
    /\ evaluations[e].result =
         evaluate_profile(evaluations[e].facts, Handed(t).level, Handed(t).score)
    /\ pc[t] = "commit" => work[t].risk = evaluations[e].result.effective

NothingRebuilt(t) ==
  /\ Ids(evaluations) = {} /\ \A i \in DOMAIN evaluations : evaluations[i].by # t
  /\ pc[t] = "commit" => work[t].risk = Handed(t).level

SubmitOK(t) ==
  /\ pc[t] \in {"assess", "rebuild"} => seen[t].evaluations = Ids(evaluations)
  /\ pc[t] \in {"rebuild", "level", "commit"} =>
       \E a \in DOMAIN assessments :
         /\ assessments[a].by = t /\ Above(a, Ids(assessments))
         /\ assessments[a].level = Handed(t).level
         /\ assessments[a].score = Handed(t).score
  /\ pc[t] \in {"level", "commit"} => Rebuilt(t) \/ NothingRebuilt(t)
  /\ pc[t] = "commit" => lock = t

UpdateOK(t) ==
  /\ row # NoRow
  /\ pc[t] = "commit" /\ lock = t => work[t].risk = row.risk

WriterOK(t) ==
  /\ job[t].kind = "create" => CreateOK(t)
  /\ job[t].kind = "submit" => SubmitOK(t)
  /\ job[t].kind = "update" => UpdateOK(t)
  /\ pc[t] = "write" => job[t].kind = "update"
  /\ job[t].kind \in {"create", "submit", "update"}

Apart ==
  ~ overlapped =>
    /\ StoredOK
    /\ \A s, t \in Requests : Open(s) /\ Open(t) => s = t
    /\ \A t \in Requests : Open(t) => WriterOK(t)

\* Assessments are inserted by those who hand them in, one by each.
AssessmentOK(i) ==
  /\ DOMAIN assessments[i] = {"by", "committed", "score", "level"}
  /\ assessments[i].by \in Requests \cup {Before}
  /\ \A t \in Requests : assessments[i].by = t =>
       /\ job[t].kind = "submit" /\ pc[t] \notin Early \ {"rebuild"}
       /\ pc[t] \in {"rebuild", "level", "commit"} => ~ assessments[i].committed

AssessmentInv ==
  /\ \E S : assessments \in Seq(S)
  /\ \A i \in DOMAIN assessments : AssessmentOK(i)
  /\ \A i, k \in DOMAIN assessments :
       assessments[i].by = assessments[k].by => i = k

SuitabilityInv == expired \in Nat /\ AssessmentInv /\ Apart /\ NeverUnsuitable

-----------------------------------------------------------------------------
(* What a step leaves of the tables.                                       *)

LEMMA IdsAreNumbers ==
  ASSUME NEW table, \E S : table \in Seq(S)
  PROVE  /\ DOMAIN table = 1..Len(table) /\ Len(table) \in Nat
         /\ Ids(table) \subseteq Nat \ {0} /\ Ids(table) \subseteq DOMAIN table
BY LenProperties DEF Ids

\* Nothing but uncommitted rows is added.
Kept(old, new) ==
  /\ Ids(new) = Ids(old) /\ DOMAIN old \subseteq DOMAIN new
  /\ \A i \in DOMAIN old : new[i] = old[i]

LEMMA InsertKeeps ==
  ASSUME NEW table, \E S : table \in Seq(S), NEW x, x.committed = FALSE
  PROVE  Kept(table, Append(table, x))
<1>1. WithRow(table, x)
  BY RowInserted
<1>2. DOMAIN table \subseteq DOMAIN Append(table, x)
  BY <1>1 DEF WithRow
<1> QED
  BY <1>1, <1>2 DEF Kept, WithRow

LEMMA StoredKept ==
  ASSUME StoredOK, Kept(assessments, assessments'), Kept(evaluations, evaluations'),
         row'.risk = row.risk, row' # NoRow => row # NoRow
  PROVE  StoredOK'
<1>1. /\ Ids(assessments)' = Ids(assessments) /\ Ids(evaluations)' = Ids(evaluations)
      /\ \A i \in Ids(assessments) : assessments'[i] = assessments[i]
      /\ \A i \in Ids(evaluations) : evaluations'[i] = evaluations[i]
  BY DEF Kept, Ids
<1>2. Stated' = Stated /\ Stated \subseteq Ids(evaluations)
  BY <1>1 DEF Stated
<1>3. ASSUME Ids(evaluations)' = {}, row' # NoRow
      PROVE  (\E n \in Ids(assessments) :
                IsLast(n, Ids(assessments)) /\ row.risk = assessments[n].level)'
  BY <1>1, <1>3 DEF StoredOK
<1>4. ASSUME Ids(evaluations)' # {}
      PROVE  (\E n \in Ids(assessments), l \in Ids(evaluations), s \in Stated :
                /\ IsLast(n, Ids(assessments)) /\ IsLast(l, Ids(evaluations))
                /\ IsLast(s, Stated)
                /\ evaluations[l].facts = evaluations[s].facts
                /\ evaluations[l].result =
                     evaluate_profile(evaluations[s].facts, assessments[n].level,
                                      assessments[n].score)
                /\ row.risk = evaluations[l].result.effective)'
  <2>1. PICK n \in Ids(assessments), l \in Ids(evaluations), s \in Stated :
          /\ IsLast(n, Ids(assessments)) /\ IsLast(l, Ids(evaluations))
          /\ IsLast(s, Stated)
          /\ evaluations[l].facts = evaluations[s].facts
          /\ evaluations[l].result =
               evaluate_profile(evaluations[s].facts, assessments[n].level,
                                assessments[n].score)
          /\ row.risk = evaluations[l].result.effective
    BY <1>1, <1>4 DEF StoredOK
  <2>2. /\ evaluations'[l] = evaluations[l] /\ evaluations'[s] = evaluations[s]
        /\ assessments'[n] = assessments[n]
    BY <1>1, <1>2
  <2> QED
    BY <1>1, <1>2, <2>1, <2>2
<1>5. (Ids(assessments) # {} => \E n \in Ids(assessments) : IsLast(n, Ids(assessments)))'
  BY <1>1 DEF StoredOK
<1> QED
  BY <1>3, <1>4, <1>5 DEF StoredOK

\* The commit of a request that has one row in the table, or none.
OneRow(table, t, i) ==
  /\ \E S : table \in Seq(S)
  /\ i \in DOMAIN table /\ "committed" \in DOMAIN table[i]
  /\ \A k \in DOMAIN table : table[k].by = t <=> k = i

LEMMA CommitsOne ==
  ASSUME NEW table, NEW t, NEW i, OneRow(table, t, i)
  PROVE  LET new == CommitRows(table, t)
         IN /\ Ids(new) = Ids(table) \cup {i}
            /\ new[i] = [table[i] EXCEPT !.committed = TRUE]
            /\ \A k \in DOMAIN table \ {i} : new[k] = table[k]
<1> DEFINE new == CommitRows(table, t)
<1>1. /\ DOMAIN new = DOMAIN table
      /\ \A k \in DOMAIN table :
           /\ table[k].by # t => new[k] = table[k]
           /\ table[k].by = t => new[k] = [table[k] EXCEPT !.committed = TRUE]
  BY RowsCommitted DEF OneRow
<1> HIDE DEF new
<1>2. new[i] = [table[i] EXCEPT !.committed = TRUE] /\ new[i].committed
  BY <1>1 DEF OneRow
<1>3. \A k \in DOMAIN table \ {i} : new[k] = table[k]
  BY <1>1 DEF OneRow
<1>4. Ids(new) = Ids(table) \cup {i}
  BY <1>1, <1>2, <1>3 DEF OneRow, Ids
<1> QED
  BY <1>2, <1>3, <1>4 DEF new

LEMMA CommitsNone ==
  ASSUME NEW table, \E S : table \in Seq(S), NEW t,
         \A k \in DOMAIN table : table[k].by # t
  PROVE  Kept(table, CommitRows(table, t))
<1> DEFINE new == CommitRows(table, t)
<1>0. /\ DOMAIN new = DOMAIN table
      /\ \A k \in DOMAIN table :
           /\ table[k].by # t => new[k] = table[k]
           /\ table[k].by = t => new[k] = [table[k] EXCEPT !.committed = TRUE]
  BY RowsCommitted
<1> HIDE DEF new
<1>1. DOMAIN new = DOMAIN table /\ \A k \in DOMAIN table : new[k] = table[k]
  BY <1>0
<1>2. Kept(table, new)
  BY <1>1 DEF Kept, Ids
<1> QED
  BY <1>2 DEF new

-----------------------------------------------------------------------------
(* Assessments.                                                            *)

\* A request that has inserted goes on to its commit, and past it.
Onward(t) ==
  pc[t] \notin Early \ {"rebuild"} =>
    /\ job'[t] = job[t] /\ pc'[t] \notin Early
    /\ pc'[t] \in {"level", "commit"} => pc[t] \in {"rebuild", "level"}

LEMMA StepsOnward == ASSUME Shape, NEW t \in Requests, Step(t) PROVE Onward(t)
<1>0. pc \in [Requests -> Steps] /\ DOMAIN job = Requests
  BY DEF Shape
<1>1. CASE Arrives(t)
  <2>1. pc[t] = "idle"
    BY <1>1 DEF Arrives, BeginCreate, BeginSubmit, BeginUpdate, BeginGet,
       suitability_check, Begin, Goto
  <2> QED
    BY <2>1 DEF Onward, Early
<1>2. CASE \/ Upsert(t) \/ InsertEvaluation(t) \/ InsertAssessment(t)
           \/ UpdateFields(t) \/ RefuseFields(t)
  <2>1. pc[t] \in {"upsert", "insert", "assess", "write"}
    BY <1>2 DEF Upsert, InsertEvaluation, InsertAssessment, UpdateFields,
       RefuseFields, Goto
  <2> QED
    BY <2>1 DEF Onward, Early
<1>3. CASE Rebuild(t) \/ SetLevel(t)
  BY <1>0, <1>3 DEF Rebuild, SetLevel, Goto, Onward, Early
<1>4. CASE Commit(t) \/ DeleteCopy(t) \/ GetCopy(t) \/ SelectRow(t) \/ FillCache(t)
  BY <1>0, <1>4 DEF Commit, DeleteCopy, AfterDelete, GetCopy, SelectRow,
     FillCache, Goto, Onward, Early
<1>5. CASE RefuseEvaluation(t) \/ RequestFails(t)
  BY <1>0, <1>5 DEF RefuseEvaluation, RequestFails, Fail, Onward, Early
<1> QED
  BY <1>1, <1>2, <1>3, <1>4, <1>5 DEF Step

LEMMA AssessmentKept ==
  ASSUME AssessmentInv, NEW t \in Requests, Alone(t), Onward(t),
         NEW i \in DOMAIN assessments, i \in DOMAIN assessments',
         assessments'[i] = assessments[i]
  PROVE  AssessmentOK(i)'
<1>1. AssessmentOK(i)
  BY DEF AssessmentInv
<1>2. ASSUME NEW s \in Requests, assessments[i].by = s
      PROVE  /\ job'[s].kind = "submit" /\ pc'[s] \notin Early \ {"rebuild"}
             /\ pc'[s] \in {"rebuild", "level", "commit"} => ~ assessments'[i].committed
  <2>1. /\ job[s].kind = "submit" /\ pc[s] \notin Early \ {"rebuild"}
        /\ pc[s] \in {"rebuild", "level", "commit"} => ~ assessments[i].committed
    BY <1>1, <1>2 DEF AssessmentOK
  <2>2. CASE s # t
    BY <2>1, <2>2 DEF Alone
  <2>3. CASE s = t
    BY <2>1, <2>3 DEF Onward, Early
  <2> QED
    BY <2>2, <2>3
<1> QED
  BY <1>1, <1>2 DEF AssessmentOK

LEMMA AssessmentsStep ==
  ASSUME ProfileInv, AssessmentInv, NEW t \in Requests, Step(t)
  PROVE  AssessmentInv'
<1>0. Alone(t) /\ Onward(t) /\ Shape
  BY StepsAlone, StepsOnward DEF ProfileInv
<1>1. \E S : assessments \in Seq(S)
  BY DEF AssessmentInv
<1>6. \A i, k \in DOMAIN assessments :
        assessments[i].by = assessments[k].by => i = k
  BY DEF AssessmentInv
<1>2. CASE assessments' = assessments
  BY <1>0, <1>1, <1>6, <1>2, AssessmentKept DEF AssessmentInv
<1>3. CASE InsertAssessment(t)
  <2> DEFINE a == Assessment(t, job[t].answers, FALSE)
  <2>1. /\ assessments' = Append(assessments, a)
        /\ pc[t] = "assess" /\ pc'[t] = "rebuild" /\ job' = job
    BY <1>0, <1>3 DEF InsertAssessment, Goto, Shape, Steps, Early
  <2>2. /\ DOMAIN a = {"by", "committed", "score", "level"}
        /\ a.by = t /\ a.committed = FALSE
    BY DEF Assessment
  <2> HIDE DEF a
  <2>0. /\ Len(assessments) \in Nat /\ DOMAIN assessments = 1..Len(assessments)
        /\ Len(Append(assessments, a)) = Len(assessments) + 1
        /\ DOMAIN Append(assessments, a) = 1..(Len(assessments) + 1)
        /\ \A i \in 1..Len(assessments) : Append(assessments, a)[i] = assessments[i]
        /\ Append(assessments, a)[Len(assessments) + 1] = a
        /\ \E S : Append(assessments, a) \in Seq(S)
    BY <1>1, Appended
  <2>3. PICK n \in Nat :
          /\ DOMAIN assessments' = DOMAIN assessments \cup {n}
          /\ n \notin DOMAIN assessments /\ assessments'[n] = a
          /\ \A i \in DOMAIN assessments : assessments'[i] = assessments[i]
    BY <2>0, <2>1
  <2>5. \A i \in DOMAIN assessments : assessments[i].by # t
    BY <2>1 DEF AssessmentInv, AssessmentOK, Early
  <2>6. job[t].kind = "submit"
    BY <2>1 DEF ProfileInv, JobOK
  <2>7. AssessmentOK(n)'
    BY <2>1, <2>2, <2>3, <2>6, ProfileAssumption DEF AssessmentOK, Early
  <2>8. \A i \in DOMAIN assessments : AssessmentOK(i)'
    BY <1>0, <2>3, AssessmentKept
  <2>9. \A i, k \in DOMAIN assessments' :
          assessments'[i].by = assessments'[k].by => i = k
    BY <1>6, <2>2, <2>3, <2>5
  <2> QED
    BY <2>0, <2>1, <2>3, <2>7, <2>8, <2>9 DEF AssessmentInv
<1>4. CASE Commit(t)
  <2>1. /\ assessments' = CommitRows(assessments, t)
        /\ pc[t] = "commit" /\ pc'[t] = "delete" /\ job' = job
    BY <1>0, <1>4 DEF Commit, Goto, Shape, Steps, Late
  <2>2. /\ DOMAIN assessments' = DOMAIN assessments
        /\ \E S : assessments' \in Seq(S)
        /\ \A i \in DOMAIN assessments :
             /\ assessments[i].by # t => assessments'[i] = assessments[i]
             /\ assessments[i].by = t =>
                  assessments'[i] = [assessments[i] EXCEPT !.committed = TRUE]
    BY <1>1, <2>1, RowsCommitted
  <2>3. ASSUME NEW i \in DOMAIN assessments
        PROVE  AssessmentOK(i)' /\ assessments'[i].by = assessments[i].by
    <3>1. AssessmentOK(i)
      BY DEF AssessmentInv
    <3>2. CASE assessments[i].by # t
      BY <1>0, <2>2, <3>2, AssessmentKept
    <3>3. CASE assessments[i].by = t
      <4>1. /\ DOMAIN assessments'[i] = {"by", "committed", "score", "level"}
            /\ assessments'[i].by = t /\ job[t].kind = "submit"
        BY <2>2, <3>1, <3>3 DEF AssessmentOK
      <4> QED
        BY <2>1, <3>3, <4>1 DEF AssessmentOK, Early
    <3> QED
      BY <3>2, <3>3
  <2> QED
    BY <1>6, <2>2, <2>3 DEF AssessmentInv
<1>5. assessments' = assessments \/ InsertAssessment(t) \/ Commit(t)
  BY DEF Step, Arrives, BeginCreate, BeginSubmit, BeginUpdate, BeginGet,
     suitability_check, Begin, Upsert, InsertEvaluation, RefuseEvaluation,
     Rebuild, SetLevel, UpdateFields, RefuseFields, DeleteCopy, GetCopy,
     SelectRow, FillCache, RequestFails, Fail, tables
<1> QED
  BY <1>2, <1>3, <1>4, <1>5

-----------------------------------------------------------------------------
(* The one open transaction.                                               *)

\* The step of the open transaction, or of one that opens when none is.
LEMMA WriterStep ==
  ASSUME Apart, NEW t \in Requests, Alone(t), ~ overlapped' => ~ overlapped,
         ~ overlapped' => Open(t) \/ \A s \in Requests : ~ Open(s),
         ~ overlapped => StoredOK' /\ (Open(t)' => WriterOK(t)')
  PROVE  Apart'
<1> SUFFICES ASSUME ~ overlapped'
             PROVE  /\ StoredOK'
                    /\ \A s, r \in Requests : Open(s)' /\ Open(r)' => s = r
                    /\ \A s \in Requests : Open(s)' => WriterOK(s)'
  BY DEF Apart
<1>1. /\ ~ overlapped /\ StoredOK' /\ (Open(t)' => WriterOK(t)')
      /\ \A s, r \in Requests : Open(s) /\ Open(r) => s = r
  BY DEF Apart
<1>2. \A s \in Requests \ {t} : ~ Open(s)'
  BY <1>1 DEF Alone, Open
<1> QED
  BY <1>1, <1>2

\* A step outside of any transaction, or one that ends without a commit.
LEMMA BystanderStep ==
  ASSUME Apart, NEW t \in Requests, Alone(t), ~ overlapped' => ~ overlapped,
         UNCHANGED <<assessments, evaluations, row>>, lock' = lock \/ Open(t),
         ~ Open(t)'
  PROVE  Apart'
<1> SUFFICES ASSUME ~ overlapped'
             PROVE  /\ StoredOK'
                    /\ \A s, r \in Requests : Open(s)' /\ Open(r)' => s = r
                    /\ \A s \in Requests : Open(s)' => WriterOK(s)'
  BY DEF Apart
<1>1. /\ StoredOK
      /\ \A s, r \in Requests : Open(s) /\ Open(r) => s = r
      /\ \A r \in Requests : Open(r) => WriterOK(r)
  BY DEF Apart
<1>2. StoredOK'
  BY <1>1 DEF StoredOK, Stated
<1>3. \A s \in Requests : Open(s)' => Open(s) /\ s # t
  BY DEF Alone, Open
<1>4. ASSUME NEW s \in Requests, Open(s)' PROVE WriterOK(s)'
  <2>1. WriterOK(s) /\ s # t /\ lock' = lock
    BY <1>1, <1>3, <1>4
  <2>2. pc'[s] = pc[s] /\ job'[s] = job[s] /\ seen'[s] = seen[s] /\ work'[s] = work[s]
    BY <2>1 DEF Alone
  <2>3. CreateOK(s)' <=> CreateOK(s)
    BY <2>1, <2>2 DEF CreateOK, Scored
  <2>4. /\ Handed(s)' = Handed(s)
        /\ Rebuilt(s)' <=> Rebuilt(s)
        /\ NothingRebuilt(s)' <=> NothingRebuilt(s)
    <3>1. Handed(s)' = Handed(s)
      BY <2>2 DEF Handed
    <3> QED
      BY <2>2, <3>1 DEF Rebuilt, NothingRebuilt
  <2>5. SubmitOK(s)' <=> SubmitOK(s)
    BY <2>1, <2>2, <2>4 DEF SubmitOK
  <2>6. UpdateOK(s)' <=> UpdateOK(s)
    BY <2>1, <2>2 DEF UpdateOK
  <2> QED
    BY <2>1, <2>2, <2>3, <2>5, <2>6 DEF WriterOK
<1> QED
  BY <1>1, <1>2, <1>3, <1>4

LEMMA LastIsLatest ==
  ASSUME NEW ids, ids \subseteq Nat \ {0}, NEW n, IsLast(n, ids)
  PROVE  Latest(ids) = n /\ n # 0
BY LatestIs DEF IsLast

LEMMA MaxOfOne == ASSUME NEW n \in Nat PROVE Max({n}) = n
BY DEF Max

\* The latest valid assessment is the latest of all: the older ones end first.
LEMMA ValidIsLast ==
  ASSUME AssessmentInv, StoredOK, expired \in Nat, ValidAssessment # 0
  PROVE  IsLast(ValidAssessment, Ids(assessments))
<1> DEFINE V == {i \in Ids(assessments) : i > expired}
<1>1. Ids(assessments) \subseteq Nat \ {0}
  BY IdsAreNumbers DEF AssessmentInv
<1>2. V # {}
  BY LatestOfNone DEF ValidAssessment
<1>3. PICK n \in Ids(assessments) : IsLast(n, Ids(assessments))
  BY <1>2 DEF StoredOK
<1>4. IsLast(n, V) /\ V \subseteq Nat \ {0}
  BY <1>1, <1>2, <1>3 DEF IsLast
<1>5. Latest(V) = n
  <2> HIDE DEF V
  <2> QED
    BY <1>4, LastIsLatest
<1> QED
  BY <1>3, <1>5 DEF ValidAssessment

LEMMA BeginStep ==
  ASSUME ProfileInv, SuitabilityInv, NEW t \in Requests, NEW j \in Jobs,
         BeginCreate(t, j) \/ BeginSubmit(t, j) \/ BeginUpdate(t, j), Alone(t)
  PROVE  Apart'
<1>1. PICK to \in {"cache", "end", "upsert", "assess", "write"} : Begin(t, j, to)
  BY DEF BeginCreate, BeginSubmit, BeginUpdate
<1>2. /\ pc[t] = "idle" /\ pc'[t] = to /\ job'[t] = j
      /\ UNCHANGED <<assessments, evaluations, row, lock>>
  BY <1>1 DEF Begin, Goto, tables, ProfileInv, Shape
<1>3. ~ overlapped' => ~ overlapped /\ \A s \in Requests : ~ Open(s)
  BY <1>1 DEF Begin
<1>4. CASE to \in {"cache", "end"}
  <2>1. ~ Open(t)'
    BY <1>2, <1>4 DEF Open
  <2> QED
    BY <1>2, <1>3, <2>1, BystanderStep DEF SuitabilityInv
<1>5. CASE to \in {"upsert", "assess", "write"}
  <2>1. seen'[t] = Snapshot
    BY <1>1, <1>5 DEF Begin, ProfileInv, Shape
  <2>2. ASSUME ~ overlapped PROVE StoredOK' /\ WriterOK(t)'
    <3>1. StoredOK
      BY <2>2 DEF SuitabilityInv, Apart
    <3>2. StoredOK'
      BY <1>2, <3>1 DEF StoredOK, Stated
    <3>3. CASE BeginCreate(t, j)
      <4>1. j.kind = "create" /\ ValidAssessment # 0 /\ to = "upsert"
        BY <1>2, <1>5, <3>3 DEF BeginCreate, Begin, Goto, ProfileInv, Shape
      <4>2. IsLast(ValidAssessment, Ids(assessments))
        BY <3>1, <4>1, ValidIsLast DEF SuitabilityInv
      <4>3. CreateOK(t)'
        BY <1>2, <2>1, <4>1, <4>2 DEF CreateOK, Snapshot
      <4> QED
        BY <1>2, <3>2, <4>1, <4>3 DEF WriterOK
    <3>4. CASE BeginSubmit(t, j)
      <4>1. j.kind = "submit" /\ to = "assess"
        BY <1>2, <3>4 DEF BeginSubmit, Begin, Goto, ProfileInv, Shape
      <4>2. SubmitOK(t)'
        BY <1>2, <2>1, <4>1 DEF SubmitOK, Snapshot
      <4> QED
        BY <1>2, <3>2, <4>1, <4>2 DEF WriterOK
    <3>5. CASE BeginUpdate(t, j)
      <4>1. j.kind = "update" /\ row # NoRow /\ to = "write"
        BY <1>2, <1>5, <3>5 DEF BeginUpdate, Begin, Goto, ProfileInv, Shape
      <4>2. UpdateOK(t)'
        BY <1>2, <4>1 DEF UpdateOK
      <4> QED
        BY <1>2, <3>2, <4>1, <4>2 DEF WriterOK
    <3> QED
      BY <3>3, <3>4, <3>5
  <2> QED
    BY <1>3, <2>2, WriterStep DEF SuitabilityInv
<1> QED
  BY <1>4, <1>5

\* A step of an open transaction that is not its commit.
LEMMA OpenStep ==
  ASSUME SuitabilityInv, NEW t \in Requests, Alone(t), Open(t),
         overlapped' = overlapped, row' = row,
         Kept(assessments, assessments'), Kept(evaluations, evaluations'),
         StoredOK /\ WriterOK(t) => WriterOK(t)'
  PROVE  Apart'
<1>1. ~ overlapped => StoredOK' /\ WriterOK(t)'
  BY StoredKept DEF SuitabilityInv, Apart
<1> QED
  BY <1>1, WriterStep DEF SuitabilityInv

LEMMA KeptSame == ASSUME NEW table PROVE Kept(table, table)
BY DEF Kept

LEMMA UpsertStep ==
  ASSUME ProfileInv, SuitabilityInv, NEW t \in Requests, Upsert(t), Alone(t)
  PROVE  Apart'
<1> DEFINE result == evaluate_profile(job[t].facts, Scored(t).level, Scored(t).score)
<1>1. /\ pc[t] = "upsert" /\ pc'[t] = "insert"
      /\ UNCHANGED <<assessments, evaluations, row, job, seen, overlapped>>
      /\ work'[t] = Row(result.effective, AllFields(t))
  BY DEF Upsert, Goto, ChangeRow, tables, ProfileInv, Shape
<1>2. job[t].kind = "create"
  BY <1>1 DEF ProfileInv, JobOK
<1>3. work'[t].risk = result.effective
  BY <1>1 DEF Row
<1>4. ASSUME WriterOK(t) PROVE WriterOK(t)'
  <2>1. CreateOK(t)'
    BY <1>1, <1>2, <1>3, <1>4 DEF WriterOK, CreateOK, Scored
  <2> QED
    BY <1>1, <1>2, <2>1 DEF WriterOK
<1> QED
  BY <1>1, <1>4, OpenStep, KeptSame DEF Open

LEMMA InsertEvaluationStep ==
  ASSUME ProfileInv, SuitabilityInv, NEW t \in Requests, InsertEvaluation(t), Alone(t)
  PROVE  Apart'
<1> DEFINE e == Evaluation(t, "MANUAL_CREATE", job[t].trigger, job[t].facts,
                           Scored(t), FALSE)
<1>1. /\ pc[t] = "insert" /\ pc'[t] = "commit"
      /\ UNCHANGED <<assessments, row, job, seen, work, lock, overlapped>>
      /\ evaluations' = Append(evaluations, e)
  BY DEF InsertEvaluation, Goto, ProfileInv, Shape
<1>2. /\ e.by = t /\ e.committed = FALSE /\ e.trigger_type = "MANUAL_CREATE"
      /\ e.result = evaluate_profile(e.facts, Scored(t).level, Scored(t).score)
      /\ e.facts = job[t].facts
  BY DEF Evaluation
<1> HIDE DEF e
<1>3. job[t].kind = "create" /\ lock = t
  BY <1>1 DEF ProfileInv, JobOK, AuditInv, HolderOK
<1>4. \E S : evaluations \in Seq(S)
  BY DEF ProfileInv, Shape
<1>5. /\ Kept(evaluations, Append(evaluations, e))
      /\ Len(evaluations) + 1 \in DOMAIN Append(evaluations, e)
      /\ Append(evaluations, e)[Len(evaluations) + 1] = e
      /\ Above(Len(evaluations) + 1, Ids(evaluations))
  <2>1. WithRow(evaluations, e)
    BY <1>2, <1>4, RowInserted
  <2>2. Above(Len(evaluations) + 1, Ids(evaluations))
    BY <2>1 DEF Above, Ids, WithRow
  <2>3. Kept(evaluations, Append(evaluations, e))
    <3>1. e.committed = FALSE
      BY <1>2
    <3> QED
      BY <1>4, <3>1, InsertKeeps
  <2>4. Len(evaluations) + 1 \in DOMAIN Append(evaluations, e)
    BY <2>1 DEF WithRow
  <2> QED
    BY <2>1, <2>2, <2>3, <2>4 DEF WithRow
<1>6. PICK n : /\ n \in DOMAIN evaluations' /\ evaluations'[n] = e
               /\ Above(n, Ids(evaluations)')
  BY <1>1, <1>5 DEF Kept
<1>7. ASSUME WriterOK(t) PROVE WriterOK(t)'
  <2>1. /\ IsLast(seen[t].assessment, Ids(assessments))
        /\ work[t].risk = evaluate_profile(job[t].facts, Scored(t).level,
                                           Scored(t).score).effective
    BY <1>1, <1>3, <1>7 DEF WriterOK, CreateOK
  <2>2. Scored(t)' = Scored(t)
    BY <1>1 DEF Scored
  <2>3. (/\ evaluations[n].by = t /\ Above(n, Ids(evaluations))
         /\ evaluations[n].trigger_type = "MANUAL_CREATE"
         /\ evaluations[n].result =
              evaluate_profile(evaluations[n].facts, Scored(t).level, Scored(t).score)
         /\ work[t].risk = evaluations[n].result.effective)'
    BY <1>1, <1>2, <1>6, <2>1, <2>2
  <2>4. CreateOK(t)'
    BY <1>1, <1>3, <1>6, <2>1, <2>3 DEF CreateOK
  <2> QED
    BY <1>1, <1>3, <2>4 DEF WriterOK
<1>8. Kept(evaluations, evaluations') /\ Kept(assessments, assessments')
  BY <1>1, <1>5, KeptSame
<1> QED
  BY <1>1, <1>7, <1>8, OpenStep DEF Open

LEMMA InsertAssessmentStep ==
  ASSUME ProfileInv, SuitabilityInv, NEW t \in Requests, InsertAssessment(t), Alone(t)
  PROVE  Apart'
<1> DEFINE a == Handed(t)
<1>1. /\ pc[t] = "assess" /\ pc'[t] = "rebuild"
      /\ UNCHANGED <<evaluations, row, job, seen, work, lock, overlapped>>
      /\ assessments' = Append(assessments, a)
  BY DEF InsertAssessment, Goto, ProfileInv, Shape, Handed
<1>2. a.by = t /\ a.committed = FALSE /\ Handed(t)' = a
  BY <1>1 DEF Handed, Assessment
<1> HIDE DEF a
<1>3. job[t].kind = "submit"
  BY <1>1 DEF ProfileInv, JobOK
<1>4. \E S : assessments \in Seq(S)
  BY DEF SuitabilityInv, AssessmentInv
<1>5. /\ Kept(assessments, Append(assessments, a))
      /\ Len(assessments) + 1 \in DOMAIN Append(assessments, a)
      /\ Append(assessments, a)[Len(assessments) + 1] = a
      /\ Above(Len(assessments) + 1, Ids(assessments))
  <2>1. WithRow(assessments, a)
    BY <1>2, <1>4, RowInserted
  <2>2. Above(Len(assessments) + 1, Ids(assessments))
    BY <2>1 DEF Above, Ids, WithRow
  <2>3. Kept(assessments, Append(assessments, a))
    <3>1. a.committed = FALSE
      BY <1>2
    <3> QED
      BY <1>4, <3>1, InsertKeeps
  <2>4. Len(assessments) + 1 \in DOMAIN Append(assessments, a)
    BY <2>1 DEF WithRow
  <2> QED
    BY <2>1, <2>2, <2>3, <2>4 DEF WithRow
<1>6. PICK n : /\ n \in DOMAIN assessments' /\ assessments'[n] = a
               /\ Above(n, Ids(assessments)')
  BY <1>1, <1>5 DEF Kept
<1>7. ASSUME WriterOK(t) PROVE WriterOK(t)'
  <2>1. seen[t].evaluations = Ids(evaluations)
    BY <1>1, <1>3, <1>7 DEF WriterOK, SubmitOK
  <2>2. SubmitOK(t)'
    BY <1>1, <1>2, <1>6, <2>1 DEF SubmitOK
  <2> QED
    BY <1>1, <1>3, <2>2 DEF WriterOK
<1>8. Kept(evaluations, evaluations') /\ Kept(assessments, assessments')
  BY <1>1, <1>5, KeptSame
<1> QED
  BY <1>1, <1>7, <1>8, OpenStep DEF Open

\* The facts are those of the latest evaluation that is committed.
LEMMA RebuildStep ==
  ASSUME ProfileInv, SuitabilityInv, NEW t \in Requests, Rebuild(t), Alone(t)
  PROVE  Apart'
<1> DEFINE latest == Latest(seen[t].evaluations)
           e == Evaluation(t, "ASSESSMENT_COMPLETED", t, evaluations[latest].facts,
                           Handed(t), FALSE)
<1>1. /\ pc[t] = "rebuild" /\ pc'[t] = "level"
      /\ UNCHANGED <<assessments, row, job, seen, work, lock, overlapped>>
      /\ evaluations' = IF latest = 0 THEN evaluations ELSE Append(evaluations, e)
  BY DEF Rebuild, Goto, ProfileInv, Shape, Handed
<1>2. /\ e.by = t /\ e.committed = FALSE /\ e.trigger_type = "ASSESSMENT_COMPLETED"
      /\ e.result = evaluate_profile(e.facts, Handed(t).level, Handed(t).score)
      /\ e.facts = evaluations[latest].facts
  BY DEF Evaluation
<1> HIDE DEF e
<1>3. job[t].kind = "submit" /\ Handed(t)' = Handed(t)
  BY <1>1 DEF ProfileInv, JobOK, Handed
<1>4. /\ \E S : evaluations \in Seq(S)
      /\ \A i \in DOMAIN evaluations : evaluations[i].by # t
  BY <1>1 DEF ProfileInv, Shape, EvaluationInv, EvaluationOK, Inserted, Early
<1>5. /\ Kept(evaluations, Append(evaluations, e))
      /\ Len(evaluations) + 1 \in DOMAIN Append(evaluations, e)
      /\ Append(evaluations, e)[Len(evaluations) + 1] = e
      /\ Above(Len(evaluations) + 1, Ids(evaluations))
  <2>1. WithRow(evaluations, e)
    BY <1>2, <1>4, RowInserted
  <2>2. Above(Len(evaluations) + 1, Ids(evaluations))
    BY <2>1 DEF Above, Ids, WithRow
  <2>3. Kept(evaluations, Append(evaluations, e))
    <3>1. e.committed = FALSE
      BY <1>2
    <3> QED
      BY <1>4, <3>1, InsertKeeps
  <2>4. Len(evaluations) + 1 \in DOMAIN Append(evaluations, e)
    BY <2>1 DEF WithRow
  <2> QED
    BY <2>1, <2>2, <2>3, <2>4 DEF WithRow
<1>6. Kept(evaluations, evaluations') /\ Kept(assessments, assessments')
  BY <1>1, <1>5, KeptSame
<1>7. ASSUME StoredOK, WriterOK(t) PROVE WriterOK(t)'
  <2>1. /\ seen[t].evaluations = Ids(evaluations)
        /\ \E a \in DOMAIN assessments :
             /\ assessments[a].by = t /\ Above(a, Ids(assessments))
             /\ assessments[a].level = Handed(t).level
             /\ assessments[a].score = Handed(t).score
    BY <1>1, <1>3, <1>7 DEF WriterOK, SubmitOK
  <2>2. Ids(evaluations) \subseteq Nat \ {0} /\ Ids(evaluations) \subseteq DOMAIN evaluations
    BY <1>4, IdsAreNumbers
  <2>3. Rebuilt(t)' \/ NothingRebuilt(t)'
    <3>1. CASE Ids(evaluations) = {}
      <4>1. evaluations' = evaluations
        BY <1>1, <2>1, <3>1, LatestOfNone
      <4> QED
        BY <1>1, <1>4, <3>1, <4>1 DEF NothingRebuilt
    <3>2. CASE Ids(evaluations) # {}
      <4>1. PICK l \in Ids(evaluations) : IsLast(l, Ids(evaluations))
        BY <1>7, <3>2 DEF StoredOK
      <4>2. latest = l /\ latest # 0
        BY <2>1, <2>2, <4>1, LastIsLatest
      <4>3. evaluations' = Append(evaluations, e) /\ e.facts = evaluations[l].facts
        BY <1>1, <1>2, <4>2
      <4> HIDE DEF latest
      <4>4. PICK n : /\ n \in DOMAIN evaluations' /\ evaluations'[n] = e
                     /\ Above(n, Ids(evaluations)')
        BY <1>5, <4>3 DEF Kept
      <4>5. /\ l \in Ids(evaluations)' /\ IsLast(l, Ids(evaluations)')
            /\ evaluations'[l] = evaluations[l]
        BY <1>6, <2>2, <4>1 DEF Kept
      <4>6. (/\ evaluations[n].by = t /\ Above(n, Ids(evaluations))
             /\ evaluations[n].trigger_type = "ASSESSMENT_COMPLETED"
             /\ IsLast(l, Ids(evaluations))
             /\ evaluations[n].facts = evaluations[l].facts
             /\ evaluations[n].result =
                  evaluate_profile(evaluations[n].facts, Handed(t).level,
                                   Handed(t).score)
             /\ pc[t] # "commit")'
        BY <1>1, <1>2, <1>3, <4>3, <4>4, <4>5
      <4> QED
        BY <4>4, <4>5, <4>6 DEF Rebuilt
    <3> QED
      BY <3>1, <3>2
  <2>4. SubmitOK(t)'
    BY <1>1, <1>3, <2>1, <2>3 DEF SubmitOK
  <2> QED
    BY <1>1, <1>3, <2>4 DEF WriterOK
<1> QED
  BY <1>1, <1>6, <1>7, OpenStep DEF Open

LEMMA SetLevelStep ==
  ASSUME ProfileInv, SuitabilityInv, NEW t \in Requests, SetLevel(t), Alone(t)
  PROVE  Apart'
<1> DEFINE own == {i \in DOMAIN evaluations : evaluations[i].by = t}
           level == IF own = {} THEN Handed(t).level
                    ELSE evaluations[Max(own)].result.effective
<1>1. /\ pc[t] = "level" /\ pc'[t] = "commit" /\ lock' = t
      /\ UNCHANGED <<assessments, evaluations, row, job, seen, overlapped>>
      /\ work'[t] = [row EXCEPT !.risk = level]
  BY DEF SetLevel, Goto, ChangeRow, tables, ProfileInv, Shape, Handed
<1>2. job[t].kind = "submit" /\ Handed(t)' = Handed(t) /\ DOMAIN row = RowDomain
  BY <1>1 DEF ProfileInv, JobOK, Handed, AuditInv
<1>3. work'[t].risk = level
  BY <1>1, <1>2 DEF RowDomain
<1>4. ASSUME WriterOK(t) PROVE WriterOK(t)'
  <2>1. /\ \E a \in DOMAIN assessments :
             /\ assessments[a].by = t /\ Above(a, Ids(assessments))
             /\ assessments[a].level = Handed(t).level
             /\ assessments[a].score = Handed(t).score
        /\ Rebuilt(t) \/ NothingRebuilt(t)
    BY <1>1, <1>2, <1>4 DEF WriterOK, SubmitOK
  <2>2. Rebuilt(t)' \/ NothingRebuilt(t)'
    <3>1. CASE NothingRebuilt(t)
      <4>1. own = {}
        BY <3>1 DEF NothingRebuilt
      <4> QED
        BY <1>1, <1>2, <1>3, <3>1, <4>1 DEF NothingRebuilt
    <3>2. ASSUME NEW e \in DOMAIN evaluations, NEW l \in Ids(evaluations),
                 evaluations[e].by = t, Above(e, Ids(evaluations)),
                 evaluations[e].trigger_type = "ASSESSMENT_COMPLETED",
                 IsLast(l, Ids(evaluations)),
                 evaluations[e].facts = evaluations[l].facts,
                 evaluations[e].result =
                   evaluate_profile(evaluations[e].facts, Handed(t).level,
                                    Handed(t).score)
          PROVE  Rebuilt(t)'
      <4>1. own = {e}
        BY <3>2 DEF ProfileInv, EvaluationInv
      <4>2. e \in Nat
        BY IdsAreNumbers DEF ProfileInv, Shape
      <4>3. work'[t].risk = evaluations[e].result.effective
        <5> HIDE DEF own
        <5> QED
          BY <1>3, <4>1, <4>2, MaxOfOne
      <4> QED
        BY <1>1, <1>2, <3>2, <4>3 DEF Rebuilt
    <3> QED
      BY <2>1, <3>1, <3>2 DEF Rebuilt
  <2>3. SubmitOK(t)'
    BY <1>1, <1>2, <2>1, <2>2 DEF SubmitOK
  <2> QED
    BY <1>1, <1>2, <2>3 DEF WriterOK
<1> QED
  BY <1>1, <1>4, OpenStep, KeptSame DEF Open

LEMMA FieldsStep ==
  ASSUME ProfileInv, SuitabilityInv, NEW t \in Requests,
         UpdateFields(t) \/ RefuseFields(t), Alone(t)
  PROVE  Apart'
<1>1. /\ pc[t] = "write" /\ pc'[t] = "commit"
      /\ UNCHANGED <<assessments, evaluations, row, job, seen, overlapped>>
  BY DEF UpdateFields, RefuseFields, Goto, ChangeRow, tables, ProfileInv, Shape
<1>2. lock' = t => work'[t].risk = row.risk
  <2>1. CASE UpdateFields(t)
    <3>1. PICK F : work'[t] = [row EXCEPT !.fields = F]
      BY <2>1 DEF UpdateFields, ChangeRow, ProfileInv, Shape
    <3> QED
      BY <3>1 DEF ProfileInv, AuditInv, RowDomain
  <2>2. CASE RefuseFields(t)
    BY <1>1, <2>2 DEF RefuseFields, ProfileInv, AuditInv, HolderOK
  <2> QED
    BY <2>1, <2>2
<1>3. WriterOK(t) => WriterOK(t)'
  BY <1>1, <1>2 DEF WriterOK, UpdateOK
<1> QED
  BY <1>1, <1>3, OpenStep, KeptSame DEF Open

-----------------------------------------------------------------------------
(* Commits.                                                                *)

LEMMA NewLast ==
  ASSUME NEW ids, ids \subseteq Nat \ {0}, NEW n \in Nat, Above(n, ids)
  PROVE  IsLast(n, ids \cup {n})
BY DEF Above, IsLast

LEMMA CommitCreate ==
  ASSUME ProfileInv, SuitabilityInv, NEW t \in Requests, Commit(t),
         StoredOK, CreateOK(t), job[t].kind = "create"
  PROVE  StoredOK'
<1>1. /\ pc[t] = "commit" /\ assessments' = CommitRows(assessments, t)
      /\ evaluations' = CommitRows(evaluations, t)
      /\ row' = IF lock = t THEN work[t] ELSE row
  BY DEF Commit, Goto
<1>2. PICK n : n = seen[t].assessment
  OBVIOUS
<1>3. /\ lock = t /\ IsLast(n, Ids(assessments))
      /\ Scored(t).level = assessments[n].level
      /\ Scored(t).score = assessments[n].score
  BY <1>1, <1>2 DEF CreateOK, Scored
<1>4. PICK i \in DOMAIN evaluations :
        /\ evaluations[i].by = t /\ Above(i, Ids(evaluations))
        /\ evaluations[i].trigger_type = "MANUAL_CREATE"
        /\ evaluations[i].result =
             evaluate_profile(evaluations[i].facts, assessments[n].level,
                              assessments[n].score)
        /\ work[t].risk = evaluations[i].result.effective
  BY <1>1, <1>3 DEF CreateOK
<1>5. /\ \E S : evaluations \in Seq(S)
      /\ \E S : assessments \in Seq(S)
      /\ \A k \in DOMAIN assessments : assessments[k].by # t
      /\ \A k \in DOMAIN evaluations : evaluations[k].by = t => k = i
      /\ DOMAIN evaluations[i] =
           {"by", "committed", "trigger_type", "trigger_id", "facts", "result"}
  <2>1. \A k \in DOMAIN assessments : assessments[k].by # t
    BY DEF SuitabilityInv, AssessmentInv, AssessmentOK
  <2>2. \A k \in DOMAIN evaluations : evaluations[k].by = t => k = i
    BY <1>4 DEF ProfileInv, EvaluationInv
  <2>3. DOMAIN evaluations[i] =
          {"by", "committed", "trigger_type", "trigger_id", "facts", "result"}
    BY DEF ProfileInv, EvaluationInv, EvaluationOK
  <2> QED
    BY <2>1, <2>2, <2>3 DEF ProfileInv, Shape, SuitabilityInv, AssessmentInv
<1>6. Kept(assessments, CommitRows(assessments, t))
  BY <1>5, CommitsNone
<1>7. /\ Ids(CommitRows(evaluations, t)) = Ids(evaluations) \cup {i}
      /\ CommitRows(evaluations, t)[i] = [evaluations[i] EXCEPT !.committed = TRUE]
      /\ \A k \in DOMAIN evaluations \ {i} :
           CommitRows(evaluations, t)[k] = evaluations[k]
  <2>1. OneRow(evaluations, t, i)
    BY <1>4, <1>5 DEF OneRow
  <2> QED
    BY <2>1, CommitsOne
<1>8. /\ evaluations'[i].trigger_type = "MANUAL_CREATE"
      /\ evaluations'[i].facts = evaluations[i].facts
      /\ evaluations'[i].result = evaluations[i].result
      /\ Ids(evaluations)' = Ids(evaluations) \cup {i}
  BY <1>1, <1>4, <1>5, <1>7
<1>9. /\ Ids(assessments)' = Ids(assessments) /\ assessments'[n] = assessments[n]
      /\ IsLast(n, Ids(assessments)')
  BY <1>1, <1>3, <1>6 DEF Kept, IsLast, Ids
<1>10. Ids(evaluations) \subseteq Nat \ {0} /\ i \in Nat
  BY <1>5, IdsAreNumbers
<1>11. IsLast(i, Ids(evaluations)') /\ i \in Stated' /\ IsLast(i, Stated')
  <2>1. IsLast(i, Ids(evaluations)')
    BY <1>4, <1>8, <1>10, NewLast
  <2>2. i \in Stated' /\ Stated' \subseteq Ids(evaluations)'
    BY <1>8 DEF Stated
  <2> QED
    BY <2>1, <2>2 DEF IsLast
<1>12. row'.risk = evaluations'[i].result.effective
  BY <1>1, <1>3, <1>4, <1>8
<1>13. (/\ IsLast(n, Ids(assessments)) /\ IsLast(i, Ids(evaluations))
        /\ IsLast(i, Stated) /\ evaluations[i].facts = evaluations[i].facts
        /\ evaluations[i].result =
             evaluate_profile(evaluations[i].facts, assessments[n].level,
                              assessments[n].score)
        /\ row.risk = evaluations[i].result.effective)'
  BY <1>4, <1>8, <1>9, <1>11, <1>12
<1>14. n \in Ids(assessments)' /\ i \in Ids(evaluations)'
  BY <1>8, <1>9 DEF IsLast
<1> QED
  BY <1>11, <1>13, <1>14 DEF StoredOK

LEMMA CommitSubmit ==
  ASSUME ProfileInv, SuitabilityInv, NEW t \in Requests, Commit(t),
         StoredOK, SubmitOK(t), job[t].kind = "submit"
  PROVE  StoredOK'
<1>1. /\ pc[t] = "commit" /\ assessments' = CommitRows(assessments, t)
      /\ evaluations' = CommitRows(evaluations, t)
      /\ row' = IF lock = t THEN work[t] ELSE row
  BY DEF Commit, Goto
<1>2. lock = t /\ (Rebuilt(t) \/ NothingRebuilt(t))
  BY <1>1 DEF SubmitOK
<1>3. PICK a \in DOMAIN assessments :
        /\ assessments[a].by = t /\ Above(a, Ids(assessments))
        /\ assessments[a].level = Handed(t).level
        /\ assessments[a].score = Handed(t).score
  BY <1>1 DEF SubmitOK
<1>4. /\ \E S : assessments \in Seq(S)
      /\ \E S : evaluations \in Seq(S)
      /\ \A k \in DOMAIN assessments : assessments[k].by = t => k = a
      /\ DOMAIN assessments[a] = {"by", "committed", "score", "level"}
  BY <1>3 DEF SuitabilityInv, AssessmentInv, AssessmentOK, ProfileInv, Shape
<1>5. /\ Ids(CommitRows(assessments, t)) = Ids(assessments) \cup {a}
      /\ CommitRows(assessments, t)[a] = [assessments[a] EXCEPT !.committed = TRUE]
      /\ \A k \in DOMAIN assessments \ {a} :
           CommitRows(assessments, t)[k] = assessments[k]
  <2>1. OneRow(assessments, t, a)
    BY <1>3, <1>4 DEF OneRow
  <2> QED
    BY <2>1, CommitsOne
<1>6. /\ Ids(assessments)' = Ids(assessments) \cup {a}
      /\ assessments'[a].level = Handed(t).level
      /\ assessments'[a].score = Handed(t).score
  BY <1>1, <1>3, <1>4, <1>5
<1>7. a \in Ids(assessments)' /\ IsLast(a, Ids(assessments)')
  <2>1. Ids(assessments) \subseteq Nat \ {0} /\ a \in Nat
    BY <1>4, IdsAreNumbers
  <2> QED
    BY <1>3, <1>6, <2>1, NewLast
<1>8. CASE NothingRebuilt(t)
  <2>1. Kept(evaluations, CommitRows(evaluations, t))
    <3>1. \A k \in DOMAIN evaluations : evaluations[k].by # t
      BY <1>8 DEF NothingRebuilt
    <3> QED
      BY <1>4, <3>1, CommitsNone
  <2>2. Ids(evaluations)' = {}
    BY <1>1, <1>8, <2>1 DEF Kept, NothingRebuilt
  <2>3. row'.risk = assessments'[a].level
    BY <1>1, <1>2, <1>6, <1>8 DEF NothingRebuilt
  <2> QED
    BY <1>7, <2>2, <2>3 DEF StoredOK
<1>9. CASE Rebuilt(t)
  <2>1. PICK e \in DOMAIN evaluations, l \in Ids(evaluations) :
          /\ evaluations[e].by = t /\ Above(e, Ids(evaluations))
          /\ evaluations[e].trigger_type = "ASSESSMENT_COMPLETED"
          /\ IsLast(l, Ids(evaluations))
          /\ evaluations[e].facts = evaluations[l].facts
          /\ evaluations[e].result =
               evaluate_profile(evaluations[e].facts, Handed(t).level,
                                Handed(t).score)
          /\ work[t].risk = evaluations[e].result.effective
    BY <1>1, <1>9 DEF Rebuilt
  <2>2. PICK m \in Ids(evaluations), s \in Stated :
          /\ IsLast(m, Ids(evaluations)) /\ IsLast(s, Stated)
          /\ evaluations[m].facts = evaluations[s].facts
    BY <2>1 DEF StoredOK
  <2>3. /\ \A k \in DOMAIN evaluations : evaluations[k].by = t => k = e
        /\ DOMAIN evaluations[e] =
             {"by", "committed", "trigger_type", "trigger_id", "facts", "result"}
    BY <2>1 DEF ProfileInv, EvaluationInv, EvaluationOK
  <2>4. /\ Ids(CommitRows(evaluations, t)) = Ids(evaluations) \cup {e}
        /\ CommitRows(evaluations, t)[e] = [evaluations[e] EXCEPT !.committed = TRUE]
        /\ \A k \in DOMAIN evaluations \ {e} :
             CommitRows(evaluations, t)[k] = evaluations[k]
    <3>1. OneRow(evaluations, t, e)
      BY <1>4, <2>1, <2>3 DEF OneRow
    <3> QED
      BY <3>1, CommitsOne
  <2>5. /\ evaluations'[e].trigger_type = "ASSESSMENT_COMPLETED"
        /\ evaluations'[e].facts = evaluations[e].facts
        /\ evaluations'[e].result = evaluations[e].result
        /\ Ids(evaluations)' = Ids(evaluations) \cup {e}
    BY <1>1, <2>1, <2>3, <2>4
  <2>6. Ids(evaluations) \subseteq Nat \ {0} /\ e \in Nat /\ e \notin Ids(evaluations)
    <3>1. Ids(evaluations) \subseteq Nat \ {0} /\ e \in Nat
      BY <1>4, IdsAreNumbers
    <3> QED
      BY <2>1, <3>1 DEF Above
  <2>7. \A k \in Ids(evaluations) : evaluations'[k] = evaluations[k]
    BY <1>1, <2>4, <2>6 DEF Ids
  <2>8. e \in Ids(evaluations)' /\ IsLast(e, Ids(evaluations)')
    BY <2>1, <2>5, <2>6, NewLast
  <2>9. Stated' = Stated
    BY <2>5, <2>7 DEF Stated
  <2>10. m = l
    BY <2>1, <2>2, <2>6 DEF IsLast
  <2>11. s \in Ids(evaluations) /\ evaluations'[s] = evaluations[s]
    BY <2>7 DEF Stated
  <2>12. evaluations'[e].facts = evaluations'[s].facts
    BY <2>1, <2>2, <2>5, <2>10, <2>11
  <2>13. row'.risk = evaluations'[e].result.effective
    BY <1>1, <1>2, <2>1, <2>5
  <2>14. evaluations'[e].result =
           evaluate_profile(evaluations'[s].facts, assessments'[a].level,
                            assessments'[a].score)
    BY <1>6, <2>1, <2>5, <2>12
  <2> QED
    BY <1>7, <2>2, <2>8, <2>9, <2>12, <2>13, <2>14 DEF StoredOK
<1> QED
  BY <1>2, <1>8, <1>9

LEMMA CommitUpdate ==
  ASSUME ProfileInv, SuitabilityInv, NEW t \in Requests, Commit(t),
         StoredOK, UpdateOK(t), job[t].kind = "update"
  PROVE  StoredOK'
<1>1. /\ pc[t] = "commit" /\ assessments' = CommitRows(assessments, t)
      /\ evaluations' = CommitRows(evaluations, t)
      /\ row' = IF lock = t THEN work[t] ELSE row
  BY DEF Commit, Goto
<1>2. /\ \E S : assessments \in Seq(S)
      /\ \A k \in DOMAIN assessments : assessments[k].by # t
  BY DEF SuitabilityInv, AssessmentInv, AssessmentOK
<1>3. /\ \E S : evaluations \in Seq(S)
      /\ \A k \in DOMAIN evaluations : evaluations[k].by # t
  BY DEF ProfileInv, Shape, EvaluationInv, EvaluationOK
<1>4. Kept(assessments, assessments')
  BY <1>1, <1>2, CommitsNone
<1>5. Kept(evaluations, evaluations')
  BY <1>1, <1>3, CommitsNone
<1>6. row'.risk = row.risk /\ row # NoRow
  BY <1>1 DEF UpdateOK
<1> QED
  BY <1>4, <1>5, <1>6, StoredKept

LEMMA CommitStep ==
  ASSUME ProfileInv, SuitabilityInv, NEW t \in Requests, Commit(t), Alone(t)
  PROVE  Apart'
<1>1. pc[t] = "commit" /\ pc'[t] = "delete" /\ overlapped' = overlapped
  BY DEF Commit, Goto, ProfileInv, Shape
<1>2. Open(t) /\ ~ Open(t)'
  BY <1>1 DEF Open
<1>3. ASSUME ~ overlapped PROVE StoredOK'
  <2>1. StoredOK /\ WriterOK(t)
    BY <1>2, <1>3 DEF SuitabilityInv, Apart
  <2> QED
    BY <2>1, CommitCreate, CommitSubmit, CommitUpdate DEF WriterOK
<1> QED
  BY <1>1, <1>2, <1>3, WriterStep DEF SuitabilityInv

-----------------------------------------------------------------------------
(* Steps outside of a transaction that writes, and the checks.             *)

LEMMA OutsideStep ==
  ASSUME ProfileInv, SuitabilityInv, NEW t \in Requests, Alone(t),
         \/ RefuseEvaluation(t) \/ RequestFails(t) \/ DeleteCopy(t) \/ GetCopy(t)
         \/ SelectRow(t) \/ FillCache(t)
         \/ \E j \in Jobs : BeginGet(t, j) \/ suitability_check(t, j)
  PROVE  Apart'
<1>1. CASE RefuseEvaluation(t) \/ RequestFails(t)
  <2>1. /\ pc'[t] = "end" /\ lock' = (IF lock = t THEN NoTask ELSE lock)
        /\ UNCHANGED <<assessments, evaluations, row, overlapped>>
    BY <1>1 DEF RefuseEvaluation, RequestFails, Fail, tables, ProfileInv, Shape
  <2>2. ~ Open(t)' /\ (lock' = lock \/ Open(t))
    BY <2>1 DEF Open, ProfileInv, AuditInv, HolderOK
  <2> QED
    BY <2>1, <2>2, BystanderStep DEF SuitabilityInv
<1>2. CASE \/ DeleteCopy(t) \/ GetCopy(t) \/ SelectRow(t) \/ FillCache(t)
           \/ \E j \in Jobs : BeginGet(t, j) \/ suitability_check(t, j)
  <2>1. /\ pc'[t] \in Late \cup {"end"}
        /\ UNCHANGED <<assessments, evaluations, row, lock, overlapped>>
    BY <1>2 DEF DeleteCopy, AfterDelete, GetCopy, SelectRow, FillCache, BeginGet,
       suitability_check, Goto, tables, Late, ProfileInv, Shape
  <2>2. ~ Open(t)'
    BY <2>1 DEF Open, Late
  <2> QED
    BY <2>1, <2>2, BystanderStep DEF SuitabilityInv
<1> QED
  BY <1>1, <1>2

\* The row and the last evaluation say what the last assessment and the facts
\* stated last do.
LEMMA RankIsTrue ==
  ASSUME ProfileInv, AssessmentInv, StoredOK, expired \in Nat, row # NoRow,
         ValidAssessment # 0
  PROVE  MaximumRank = TrueRank
<1>1. /\ Ids(assessments) \subseteq Nat \ {0}
      /\ Ids(evaluations) \subseteq Nat \ {0} /\ Stated \subseteq Ids(evaluations)
  BY IdsAreNumbers DEF AssessmentInv, ProfileInv, Shape, Stated
<1>2. ASSUME NEW n \in Ids(assessments), IsLast(n, Ids(assessments))
      PROVE  Latest(Ids(assessments)) = n
  BY <1>1, <1>2, LastIsLatest
<1>3. TrueRank =
        LET official == assessments[Latest(Ids(assessments))]
            stated == Latest(Stated)
            result == evaluate_profile(evaluations[stated].facts, official.level,
                                       official.score)
        IN IF stated = 0 THEN official.level
           ELSE Least(result.effective, result.maximum)
  BY DEF TrueRank, Stated
<1>4. CASE Ids(evaluations) = {}
  <2>1. PICK n \in Ids(assessments) :
          IsLast(n, Ids(assessments)) /\ row.risk = assessments[n].level
    BY <1>4 DEF StoredOK
  <2>2. Latest(Ids(evaluations)) = 0 /\ Latest(Stated) = 0
    BY <1>1, <1>4, LatestOfNone
  <2>3. MaximumRank = row.risk
    BY <2>2 DEF MaximumRank
  <2> QED
    BY <1>2, <1>3, <2>1, <2>2, <2>3
<1>5. CASE Ids(evaluations) # {}
  <2>1. PICK n \in Ids(assessments), l \in Ids(evaluations), s \in Stated :
          /\ IsLast(n, Ids(assessments)) /\ IsLast(l, Ids(evaluations))
          /\ IsLast(s, Stated)
          /\ evaluations[l].facts = evaluations[s].facts
          /\ evaluations[l].result =
               evaluate_profile(evaluations[s].facts, assessments[n].level,
                                assessments[n].score)
          /\ row.risk = evaluations[l].result.effective
    BY <1>5 DEF StoredOK
  <2>2. Latest(Ids(evaluations)) = l /\ l # 0
    BY <1>1, <2>1, LastIsLatest
  <2>3. Latest(Stated) = s /\ s # 0
    <3>1. Stated \subseteq Nat \ {0}
      BY <1>1
    <3> QED
      BY <2>1, <3>1, LastIsLatest
  <2>4. Latest(Ids(assessments)) = n
    BY <1>2, <2>1
  <2>5. MaximumRank = Least(evaluations[l].result.effective,
                            evaluations[l].result.maximum)
    BY <2>1, <2>2 DEF MaximumRank
  <2>6. TrueRank = Least(evaluations[l].result.effective,
                         evaluations[l].result.maximum)
    BY <1>3, <2>1, <2>3, <2>4
  <2> QED
    BY <2>5, <2>6
<1> QED
  BY <1>4, <1>5

LEMMA CheckStep ==
  ASSUME ProfileInv, SuitabilityInv, NEW t \in Requests, NEW j \in Jobs,
         suitability_check(t, j)
  PROVE  NeverUnsuitable'
<1>1. PICK available \in BOOLEAN :
        checks' =
          IF row = NoRow THEN checks
          ELSE checks \cup
                 {[product |-> j.product, fits |-> j.product =< TrueRank,
                   overlapped |-> overlapped,
                   allowed |-> /\ ValidAssessment # 0
                               /\ available
                               /\ j.product =< MaximumRank]}
  BY DEF suitability_check
<1>2. \A c \in checks : c.allowed /\ ~ c.overlapped => c.fits
  BY DEF SuitabilityInv, NeverUnsuitable
<1>3. CASE row = NoRow
  BY <1>1, <1>2, <1>3 DEF NeverUnsuitable
<1>4. CASE row # NoRow
  <2> DEFINE c == [product |-> j.product, fits |-> j.product =< TrueRank,
                   overlapped |-> overlapped,
                   allowed |-> /\ ValidAssessment # 0
                               /\ available
                               /\ j.product =< MaximumRank]
  <2>1. ASSUME ValidAssessment # 0, j.product =< MaximumRank, ~ overlapped
        PROVE  j.product =< TrueRank
    <3>1. MaximumRank = TrueRank
      BY <1>4, <2>1, RankIsTrue DEF SuitabilityInv, Apart
    <3> QED
      BY <2>1, <3>1
  <2>2. c.allowed /\ ~ c.overlapped => c.fits
    BY <2>1
  <2>3. checks' = checks \cup {c}
    BY <1>1, <1>4
  <2> HIDE DEF c
  <2> QED
    BY <1>2, <2>2, <2>3 DEF NeverUnsuitable
<1> QED
  BY <1>3, <1>4

LEMMA SuitabilityStep ==
  ASSUME ProfileInv, SuitabilityInv, NEW t \in Requests, Step(t)
  PROVE  SuitabilityInv'
<1>0. Alone(t)
  BY StepsAlone DEF ProfileInv
<1>1. AssessmentInv'
  BY AssessmentsStep DEF SuitabilityInv
<1>2. expired' = expired
  BY DEF Step, Arrives, BeginCreate, BeginSubmit, BeginUpdate, BeginGet,
     suitability_check, Begin, Upsert, InsertEvaluation, RefuseEvaluation, Fail,
     InsertAssessment, Rebuild, SetLevel, UpdateFields, RefuseFields, Commit,
     DeleteCopy, GetCopy, SelectRow, FillCache, RequestFails
<1>3. Apart'
  <2>1. CASE Arrives(t)
    BY <1>0, <2>1, BeginStep, OutsideStep DEF Arrives
  <2>2. CASE \/ Upsert(t) \/ InsertEvaluation(t) \/ InsertAssessment(t)
             \/ Rebuild(t) \/ SetLevel(t) \/ UpdateFields(t) \/ RefuseFields(t)
             \/ Commit(t)
    BY <1>0, <2>2, UpsertStep, InsertEvaluationStep, InsertAssessmentStep,
       RebuildStep, SetLevelStep, FieldsStep, CommitStep
  <2>3. CASE \/ RefuseEvaluation(t) \/ RequestFails(t) \/ DeleteCopy(t)
             \/ GetCopy(t) \/ SelectRow(t) \/ FillCache(t)
    BY <1>0, <2>3, OutsideStep
  <2> QED
    BY <2>1, <2>2, <2>3 DEF Step
<1>4. NeverUnsuitable'
  <2>1. checks' = checks \/ \E j \in Jobs : suitability_check(t, j)
    BY DEF Step, Arrives, BeginCreate, BeginSubmit, BeginUpdate, BeginGet, Begin,
       Upsert, InsertEvaluation, RefuseEvaluation, Fail, InsertAssessment,
       Rebuild, SetLevel, UpdateFields, RefuseFields, Commit, DeleteCopy,
       GetCopy, SelectRow, FillCache, RequestFails
  <2>2. CASE checks' = checks
    BY <2>2 DEF SuitabilityInv, NeverUnsuitable
  <2> QED
    BY <2>1, <2>2, CheckStep
<1> QED
  BY <1>1, <1>2, <1>3, <1>4 DEF SuitabilityInv

LEMMA SuitabilityNext ==
  ASSUME ProfileInv, SuitabilityInv, [Next]_vars PROVE SuitabilityInv'
<1>1. CASE AssessmentExpires \/ CopyExpires \/ UNCHANGED vars
  <2>1. /\ UNCHANGED <<assessments, evaluations, row, lock, checks, pc, job, seen,
                       work, overlapped>>
        /\ expired' = expired \/ expired' = expired + 1
    BY <1>1 DEF AssessmentExpires, CopyExpires, vars, tables, request
  <2>2. expired' \in Nat /\ NeverUnsuitable' /\ AssessmentInv'
    BY <2>1 DEF SuitabilityInv, NeverUnsuitable, AssessmentInv, AssessmentOK
  <2>3. StoredOK' <=> StoredOK
    BY <2>1 DEF StoredOK, Stated
  <2>4. \A t \in Requests : /\ Open(t)' <=> Open(t)
                            /\ WriterOK(t)' <=> WriterOK(t)
    BY <2>1 DEF Open, WriterOK, CreateOK, SubmitOK, UpdateOK, Scored, Handed,
       Rebuilt, NothingRebuilt
  <2>5. Apart'
    BY <2>1, <2>3, <2>4 DEF SuitabilityInv, Apart
  <2> QED
    BY <2>2, <2>5 DEF SuitabilityInv
<1> QED
  BY <1>1, SuitabilityStep DEF Next

LEMMA SuitabilityInit == Init => SuitabilityInv
<1> SUFFICES ASSUME Init PROVE SuitabilityInv
  OBVIOUS
<1>1. /\ expired = 0 /\ checks = {} /\ pc = [t \in Requests |-> "idle"]
      /\ Before \notin Requests
  BY ProfileAssumption DEF Init
<1>2. expired \in Nat /\ NeverUnsuitable /\ \A t \in Requests : ~ Open(t)
  BY <1>1 DEF NeverUnsuitable, Open
<1>3. CASE assessments = <<>> /\ evaluations = <<>> /\ row = NoRow
  <2>1. assessments \in Seq({}) /\ DOMAIN assessments = {} /\ DOMAIN evaluations = {}
    BY <1>3
  <2>2. AssessmentInv
    BY <2>1 DEF AssessmentInv
  <2>3. StoredOK
    BY <1>3, <2>1 DEF StoredOK, Ids
  <2> QED
    BY <1>2, <2>2, <2>3 DEF SuitabilityInv, Apart
<1>4. ASSUME NEW a, NEW e,
             a = Assessment(Before, FirstSheet, TRUE),
             e = Evaluation(Before, "MANUAL_CREATE", Before, FirstFacts, a, TRUE),
             assessments = <<a>>, evaluations = <<e>>,
             row = Row(e.result.effective, AllFields(Before))
      PROVE  SuitabilityInv
  <2>1. /\ assessments \in Seq({a})
        /\ DOMAIN assessments = {1} /\ assessments[1] = a
        /\ DOMAIN evaluations = {1} /\ evaluations[1] = e
    BY <1>4
  <2>2. /\ DOMAIN a = {"by", "committed", "score", "level"}
        /\ a.by = Before /\ a.committed = TRUE
    BY <1>4 DEF Assessment
  <2>3. /\ e.committed = TRUE /\ e.trigger_type = "MANUAL_CREATE"
        /\ e.result = evaluate_profile(e.facts, a.level, a.score)
    BY <1>4 DEF Evaluation
  <2>4. AssessmentInv
    <3>1. AssessmentOK(1)
      BY <1>1, <2>1, <2>2 DEF AssessmentOK
    <3>2. \E S : assessments \in Seq(S)
      BY <2>1
    <3> QED
      BY <2>1, <3>1, <3>2 DEF AssessmentInv
  <2>5. Ids(assessments) = {1} /\ Ids(evaluations) = {1} /\ Stated = {1}
    <3>1. Ids(assessments) = {1} /\ Ids(evaluations) = {1}
      BY <2>1, <2>2, <2>3 DEF Ids
    <3> QED
      BY <2>1, <2>3, <3>1 DEF Stated
  <2>6. IsLast(1, {1})
    BY DEF IsLast
  <2>7. row.risk = e.result.effective
    BY <1>4 DEF Row
  <2>8. StoredOK
    BY <2>1, <2>3, <2>5, <2>6, <2>7 DEF StoredOK
  <2> QED
    BY <1>2, <2>4, <2>8 DEF SuitabilityInv, Apart
<1>5. \/ assessments = <<>> /\ evaluations = <<>> /\ row = NoRow
      \/ \E a, e :
           /\ a = Assessment(Before, FirstSheet, TRUE)
           /\ e = Evaluation(Before, "MANUAL_CREATE", Before, FirstFacts, a, TRUE)
           /\ assessments = <<a>> /\ evaluations = <<e>>
           /\ row = Row(e.result.effective, AllFields(Before))
  BY DEF Init
<1> QED
  BY <1>3, <1>4, <1>5

\* For any sequence of creations, assessments, updates and failures in which
\* no two open transactions wrote, a check allows no product above what the
\* last assessment and the facts stated last make of the customer
\* (risk_assessment_service.py:183-257): every commit leaves the last evaluation and
\* the row as they would be scored anew, and the assessment that is still
\* valid is the last of all.
THEOREM ChecksAreSuitable == Spec => []NeverUnsuitable
<1>1. Init => SuitabilityInv
  BY SuitabilityInit
<1>2. ProfileInv /\ SuitabilityInv /\ [Next]_vars => SuitabilityInv'
  BY SuitabilityNext
<1>3. SuitabilityInv => NeverUnsuitable
  BY DEF SuitabilityInv
<1> QED
  BY <1>1, <1>2, <1>3, Invariance, PTL DEF Spec
-----------------------------------------------------------------------------
(* The scores, for all facts and answers.                                  *)

\* The facts a customer may state.
Facts ==
  [age : Nat, education : DOMAIN EducationScore,
   occupation : DOMAIN OccupationScore, annual_income : Nat,
   investable_assets : Nat, investment_years : Nat, product_types : Nat,
   trading_frequency : DOMAIN FrequencyScore, historical_return : Int,
   loss_tolerance : DOMAIN LossAdjustment, active_high_risk : BOOLEAN]

AtMost(S, n) == IsFiniteSet(S) /\ Cardinality(S) =< n

LEMMA OneMore ==
  ASSUME NEW S, NEW n \in Nat, AtMost(S, n), NEW x
  PROVE  AtMost(S \cup {x}, n + 1)
<1>1. Cardinality(S) \in Nat
  BY FS_CardinalityType DEF AtMost
<1>2. IsFiniteSet(S \cup {x})
      /\ Cardinality(S \cup {x}) \in {Cardinality(S), Cardinality(S) + 1}
  BY FS_AddElement DEF AtMost
<1> QED
  BY <1>1, <1>2 DEF AtMost

LEMMA FewLimits ==
  ASSUME NEW a, NEW b, NEW c, NEW d, NEW e, NEW f
  PROVE  /\ AtMost({a, b, c}, 3) /\ AtMost({a, b, c, d}, 4)
         /\ AtMost({a, b, c, d, e}, 5) /\ AtMost({a, b, c, d, e, f}, 6)
<1>1. AtMost({a}, 1)
  <2>1. IsFiniteSet({a}) /\ Cardinality({a}) = 1
    BY FS_Singleton
  <2> QED
    BY <2>1 DEF AtMost
<1>2. AtMost({a, b}, 2)
  BY <1>1, OneMore, {a, b} = {a} \cup {b}, 1 + 1 = 2
<1>3. AtMost({a, b, c}, 3)
  BY <1>2, OneMore, {a, b, c} = {a, b} \cup {c}, 2 + 1 = 3
<1>4. AtMost({a, b, c, d}, 4)
  BY <1>3, OneMore, {a, b, c, d} = {a, b, c} \cup {d}, 3 + 1 = 4
<1>5. AtMost({a, b, c, d, e}, 5)
  BY <1>4, OneMore, {a, b, c, d, e} = {a, b, c, d} \cup {e}, 4 + 1 = 5
<1>6. AtMost({a, b, c, d, e, f}, 6)
  BY <1>5, OneMore, {a, b, c, d, e, f} = {a, b, c, d, e} \cup {f}, 5 + 1 = 6
<1> QED
  BY <1>3, <1>4, <1>5, <1>6

LEMMA BandRange ==
  ASSUME NEW limits, NEW n \in Nat, AtMost(limits, n), NEW x
  PROVE  Band(x, limits) \in 1..(n + 1)
<1> DEFINE below == {l \in limits : l =< x}
<1>1. below \in SUBSET limits
  OBVIOUS
<1> HIDE DEF below
<1>2. IsFiniteSet(below) /\ Cardinality(below) =< Cardinality(limits)
  BY <1>1, FS_Subset DEF AtMost
<1>3. Cardinality(below) \in Nat /\ Cardinality(limits) \in Nat
  BY <1>2, FS_CardinalityType DEF AtMost
<1>4. Band(x, limits) = 1 + Cardinality(below)
  BY DEF Band, below
<1> QED
  BY <1>2, <1>3, <1>4 DEF AtMost

LEMMA BandMonotone ==
  ASSUME NEW limits \in SUBSET Int, NEW n \in Nat, AtMost(limits, n),
         NEW x \in Int, NEW y \in Int, x =< y
  PROVE  Band(x, limits) =< Band(y, limits)
<1> DEFINE below(z) == {l \in limits : l =< z}
<1>1. below(x) \in SUBSET below(y) /\ below(y) \in SUBSET limits
  <2>1. \A l \in limits : l =< x => l =< y
    OBVIOUS
  <2> QED
    BY <2>1
<1>2. Band(x, limits) = 1 + Cardinality(below(x))
      /\ Band(y, limits) = 1 + Cardinality(below(y))
  BY DEF Band
<1> HIDE DEF below
<1>3. IsFiniteSet(below(y))
  BY <1>1, FS_Subset DEF AtMost
<1>4. IsFiniteSet(below(x)) /\ Cardinality(below(x)) =< Cardinality(below(y))
  BY <1>1, <1>3, FS_Subset
<1>5. Cardinality(below(x)) \in Nat /\ Cardinality(below(y)) \in Nat
  BY <1>3, <1>4, FS_CardinalityType
<1> QED
  BY <1>2, <1>4, <1>5

\* Every score has a level, and a higher score no lower one.
LEMMA LevelOfScore ==
  /\ \A s : map_score_to_level(s) \in Levels
  /\ \A r, s \in Int : r =< s => map_score_to_level(r) =< map_score_to_level(s)
<1> DEFINE a == 2001
           b == 4001
           c == 6001
           d == 8001
           limits == {a, b, c, d}
<1>1. limits \in SUBSET Int
  BY SMTT(30)
<1>2. \A s : map_score_to_level(s) = Band(s, limits)
  BY SMTT(30) DEF map_score_to_level
<1> HIDE DEF a, b, c, d
<1>0. AtMost(limits, 4)
  BY FewLimits
<1> HIDE DEF limits
<1>3. \A s : Band(s, limits) \in 1..5
  BY <1>0, BandRange, 4 + 1 = 5
<1>4. \A r, s \in Int : r =< s => Band(r, limits) =< Band(s, limits)
  BY <1>0, <1>1, BandMonotone
<1> QED
  BY <1>2, <1>3, <1>4 DEF Levels

\* What an item of a dimension counts, what the dimensions and the whole do.
Item == 0..10
Quarter == 0..2500
AtMostThirty == 0..3000
Twenty == {0, 2000}
Hundred == 0..10000

\* Five items, or four, together.
LEMMA OutOfFifty ==
  ASSUME NEW s \in 0..50 PROVE RoundHalfUp(2500 * s, 50) \in Quarter
BY SMTT(30) DEF RoundHalfUp, Quarter

LEMMA OutOfForty ==
  ASSUME NEW s \in 0..40 PROVE RoundHalfUp(2500 * s, 40) \in Quarter
BY SMTT(30) DEF RoundHalfUp, Quarter

LEMMA BasicRange ==
  ASSUME NEW facts \in Facts PROVE Basic(facts) \in Quarter
<1>1. AgeScore(facts.age) \in Item
  <2>1. Band(facts.age, {18, 26, 41, 61, 71, 81}) \in 1..7
    BY FewLimits, BandRange, 6 + 1 = 7
  <2>2. \A i \in 1..7 : <<0, 4, 8, 10, 7, 4, 0>>[i] \in Item
    BY DEF Item
  <2> QED
    BY <2>1, <2>2 DEF AgeScore
<1>2. IncomeScore(facts.annual_income) \in Item
  <2> DEFINE a == 1
             b == 50000
             c == 100000
             d == 300000
             e == 500000
             limits == {a, b, c, d, e}
  <2>3. IncomeScore(facts.annual_income)
          = <<0, 2, 4, 6, 8, 10>>[Band(facts.annual_income, limits)]
    BY SMTT(30) DEF IncomeScore
  <2> HIDE DEF a, b, c, d, e
  <2>4. AtMost(limits, 5)
    BY FewLimits
  <2> HIDE DEF limits
  <2>1. Band(facts.annual_income, limits) \in 1..6
    BY <2>4, BandRange, 5 + 1 = 6
  <2>2. \A i \in 1..6 : <<0, 2, 4, 6, 8, 10>>[i] \in Item
    BY DEF Item
  <2> QED
    BY <2>1, <2>2, <2>3
<1>3. AssetScore(facts.investable_assets) \in Item
  <2> DEFINE a == 10000
             b == 100000
             c == 500000
             d == 1000000
             e == 5000000
             limits == {a, b, c, d, e}
  <2>3. AssetScore(facts.investable_assets)
          = <<1, 3, 5, 7, 9, 10>>[Band(facts.investable_assets, limits)]
    BY SMTT(30) DEF AssetScore
  <2> HIDE DEF a, b, c, d, e
  <2>4. AtMost(limits, 5)
    BY FewLimits
  <2> HIDE DEF limits
  <2>1. Band(facts.investable_assets, limits) \in 1..6
    BY <2>4, BandRange, 5 + 1 = 6
  <2>2. \A i \in 1..6 : <<1, 3, 5, 7, 9, 10>>[i] \in Item
    BY DEF Item
  <2> QED
    BY <2>1, <2>2, <2>3
<1>4. EducationScore[facts.education] \in Item
  BY DEF Facts, EducationScore, Item
<1>5. OccupationScore[facts.occupation] \in Item
  BY DEF Facts, OccupationScore, Item
<1> DEFINE sum == AgeScore(facts.age) + EducationScore[facts.education]
                    + OccupationScore[facts.occupation]
                    + IncomeScore(facts.annual_income)
                    + AssetScore(facts.investable_assets)
<1>6. sum \in 0..50
  BY <1>1, <1>2, <1>3, <1>4, <1>5 DEF Item
<1>7. Basic(facts) = RoundHalfUp(2500 * sum, 50)
  BY DEF Basic
<1> HIDE DEF sum
<1> QED
  BY <1>6, <1>7, OutOfFifty

LEMMA ExperienceRange ==
  ASSUME NEW facts \in Facts PROVE Experience(facts) \in Quarter
<1>1. ExperienceYearScore(facts.investment_years) \in Item
  <2>1. Band(facts.investment_years, {1, 3, 5, 10}) \in 1..5
    BY FewLimits, BandRange, 4 + 1 = 5
  <2>2. \A i \in 1..5 : <<0, 4, 6, 8, 10>>[i] \in Item
    BY DEF Item
  <2> QED
    BY <2>1, <2>2 DEF ExperienceYearScore
<1>2. Least(2 * facts.product_types, 10) \in Item
  <2>1. facts.product_types \in Nat
    BY DEF Facts
  <2> QED
    BY <2>1 DEF Least, Item
<1>3. FrequencyScore[facts.trading_frequency] \in Item
  BY DEF Facts, FrequencyScore, Item
<1>4. HistoricalReturnScore(facts.historical_return) \in Item
  <2>1. Band(facts.historical_return, {0, 5, 15}) \in 1..4
    BY FewLimits, BandRange, 3 + 1 = 4
  <2>2. \A i \in 1..4 : <<3, 5, 8, 10>>[i] \in Item
    BY DEF Item
  <2>3. 2 \in Item
    BY DEF Item
  <2> QED
    BY <2>1, <2>2, <2>3 DEF HistoricalReturnScore
<1> DEFINE sum == ExperienceYearScore(facts.investment_years)
                    + Least(2 * facts.product_types, 10)
                    + FrequencyScore[facts.trading_frequency]
                    + HistoricalReturnScore(facts.historical_return)
<1>5. sum \in 0..40
  BY <1>1, <1>2, <1>3, <1>4 DEF Item
<1>6. Experience(facts) = RoundHalfUp(2500 * sum, 40)
  BY DEF Experience
<1> HIDE DEF sum
<1> QED
  BY <1>5, <1>6, OutOfForty

LEMMA ToleranceIs ==
  ASSUME NEW facts \in Facts
  PROVE  \E loss \in Nat : \A q \in Nat :
           Tolerance(facts, q) = Least(3000, (2 * (q + 4 * loss) + 4) \div 8)
<1>1. LossAdjustment[facts.loss_tolerance] \in Nat
  BY SMTT(30) DEF Facts, LossAdjustment
<1> DEFINE loss == LossAdjustment[facts.loss_tolerance]
<1>2. ASSUME NEW q \in Nat
      PROVE  Tolerance(facts, q) = Least(3000, (2 * (q + 4 * loss) + 4) \div 8)
  <2>1. 2 * 4 = 8
    OBVIOUS
  <2> QED
    BY <2>1, SMTT(30) DEF Tolerance, RoundHalfUp
<1> HIDE DEF loss
<1>3. loss \in Nat
  BY <1>1 DEF loss
<1> QED
  BY <1>2, <1>3, SMTT(30)

LEMMA ToleranceRange ==
  ASSUME NEW facts \in Facts, NEW q \in Nat PROVE Tolerance(facts, q) \in AtMostThirty
<1>1. PICK loss \in Nat : Tolerance(facts, q)
                            = Least(3000, (2 * (q + 4 * loss) + 4) \div 8)
  BY ToleranceIs
<1> DEFINE a == (2 * (q + 4 * loss) + 4) \div 8
<1>2. a \in Nat
  OBVIOUS
<1>3. Tolerance(facts, q) = Least(3000, a)
  BY <1>1
<1> HIDE DEF a
<1>4. Least(3000, a) \in AtMostThirty
  BY <1>2, SMTT(30) DEF Least, AtMostThirty
<1> QED
  BY <1>3, <1>4

LEMMA ToleranceMonotone ==
  ASSUME NEW facts \in Facts, NEW q \in Nat, NEW r \in Nat, q =< r
  PROVE  Tolerance(facts, q) =< Tolerance(facts, r)
<1>1. PICK loss \in Nat : \A p \in Nat :
        Tolerance(facts, p) = Least(3000, (2 * (p + 4 * loss) + 4) \div 8)
  BY ToleranceIs
<1> DEFINE a == (2 * (q + 4 * loss) + 4) \div 8
           b == (2 * (r + 4 * loss) + 4) \div 8
<1>2. a \in Nat /\ b \in Nat /\ a =< b
  OBVIOUS
<1>3. Tolerance(facts, q) = Least(3000, a) /\ Tolerance(facts, r) = Least(3000, b)
  BY <1>1
<1> HIDE DEF a, b
<1> QED
  BY <1>2, <1>3, SMTT(30) DEF Least

LEMMA InHundred ==
  ASSUME NEW s \in Int, 0 =< s, s =< 10000 PROVE s \in Hundred
BY SMTT(90) DEF Hundred

\* The dimensions add up to the whole.
LEMMA Sums ==
  ASSUME NEW a \in Quarter, NEW b \in Quarter, NEW c \in AtMostThirty,
         NEW d \in Twenty
  PROVE  a + b + c + d \in Hundred
<1>1. a \in Int /\ 0 =< a /\ a =< 2500
  BY SMTT(30) DEF Quarter
<1>2. b \in Int /\ 0 =< b /\ b =< 2500
  BY SMTT(30) DEF Quarter
<1>3. c \in Int /\ 0 =< c /\ c =< 3000
  BY SMTT(30) DEF AtMostThirty
<1>4. d \in Int /\ 0 =< d /\ d =< 2000
  BY SMTT(30) DEF Twenty
<1>5. /\ a + b + c + d \in Int
      /\ 0 =< a + b + c + d /\ a + b + c + d =< 10000
  BY <1>1, <1>2, <1>3, <1>4, SMTT(30)
<1> QED
  BY <1>5, InHundred

LEMMA SumsMonotone ==
  ASSUME NEW a \in Quarter, NEW b \in Quarter, NEW c \in AtMostThirty,
         NEW e \in AtMostThirty, NEW d \in Twenty, c =< e
  PROVE  a + b + c + d =< a + b + e + d
<1>1. a \in Int /\ b \in Int
  BY SMTT(30) DEF Quarter
<1>2. c \in Int /\ e \in Int
  BY SMTT(30) DEF AtMostThirty
<1>3. d \in Int
  BY SMTT(30) DEF Twenty
<1> QED
  BY <1>1, <1>2, <1>3, SMTT(30)

LEMMA HundredIsInt == Hundred \subseteq Int
BY SMTT(30) DEF Hundred

LEMMA TotalRange ==
  ASSUME NEW facts \in Facts, NEW q \in Nat PROVE Total(facts, q) \in Hundred
<1>1. Conduct(facts) \in Twenty
  BY SMTT(30) DEF Conduct, Twenty
<1>2. Basic(facts) \in Quarter
  BY BasicRange
<1>3. Experience(facts) \in Quarter
  BY ExperienceRange
<1>4. Tolerance(facts, q) \in AtMostThirty
  BY ToleranceRange
<1> QED
  BY <1>1, <1>2, <1>3, <1>4, Sums DEF Total

LEMMA TotalMonotone ==
  ASSUME NEW facts \in Facts, NEW q \in Nat, NEW r \in Nat, q =< r
  PROVE  Total(facts, q) =< Total(facts, r)
<1>1. Conduct(facts) \in Twenty
  BY SMTT(30) DEF Conduct, Twenty
<1>2. Basic(facts) \in Quarter
  BY BasicRange
<1>3. Experience(facts) \in Quarter
  BY ExperienceRange
<1>4. Tolerance(facts, q) \in AtMostThirty
  BY ToleranceRange
<1>5. Tolerance(facts, r) \in AtMostThirty
  BY ToleranceRange
<1>6. Tolerance(facts, q) =< Tolerance(facts, r)
  BY ToleranceMonotone
<1> QED
  BY <1>1, <1>2, <1>3, <1>4, <1>5, <1>6, SumsMonotone DEF Total

\* The highest level of a product that an evaluation allows.
Ceiling(result) == Least(result.effective, result.maximum)

\* For all facts and every score of a questionnaire the four dimensions add up
\* to a score of at most 100, the model has a level for it, and the level that
\* counts is above neither the model's nor the official one; a customer of low
\* capacity is allowed nothing above R2 (service/profile/score_engine.py).
THEOREM MoreCautiousLevelWins ==
  ASSUME NEW facts \in Facts, NEW questionnaire \in Nat, NEW official \in Levels
  PROVE  LET result == evaluate_profile(facts, official, questionnaire)
         IN /\ Total(facts, questionnaire) \in Hundred
            /\ result.model \in Levels /\ result.effective \in Levels
            /\ result.effective =< result.model
            /\ result.effective =< official
            /\ Ceiling(result) \in Levels /\ Ceiling(result) =< official
            /\ LowCapacity(facts) => Ceiling(result) =< 2
<1> DEFINE model == map_score_to_level(Total(facts, questionnaire))
           result == evaluate_profile(facts, official, questionnaire)
<1>1. Total(facts, questionnaire) \in Hundred
  BY TotalRange
<1>2. model \in Levels
  BY LevelOfScore
<1>3. /\ result.model = model
      /\ result.effective = (IF official < model THEN official ELSE model)
      /\ result.maximum = IF LowCapacity(facts) THEN 2 ELSE result.effective
  BY DEF evaluate_profile, conservative_merge, Least
<1> HIDE DEF model, result
<1>4. /\ result.model \in Levels /\ result.effective \in Levels
      /\ result.effective =< result.model /\ result.effective =< official
  BY <1>2, <1>3 DEF Levels
<1>5. /\ result.effective \in 1..5 /\ official \in 1..5
      /\ result.effective =< official
      /\ result.maximum = IF LowCapacity(facts) THEN 2 ELSE result.effective
  BY <1>3, <1>4 DEF Levels
<1>6. Ceiling(result) = IF LowCapacity(facts) /\ 2 < result.effective THEN 2
                        ELSE result.effective
  BY <1>5 DEF Ceiling, Least
<1>7. /\ Ceiling(result) \in Levels /\ Ceiling(result) =< official
      /\ LowCapacity(facts) => Ceiling(result) =< 2
  BY <1>5, <1>6 DEF Levels
<1> QED
  BY <1>1, <1>4, <1>7 DEF result

\* Answers that score lower never lead to a higher level, nor to a higher
\* product, whatever the customer states besides.
THEOREM LowerScoreIsNoHigherLevel ==
  ASSUME NEW facts \in Facts, NEW low \in Nat, NEW high \in Nat, low =< high
  PROVE  LET evaluated(score) ==
               evaluate_profile(facts, map_score_to_level(score), score)
         IN /\ evaluated(low).effective =< evaluated(high).effective
            /\ Ceiling(evaluated(low)) =< Ceiling(evaluated(high))
<1> DEFINE model(q) == map_score_to_level(Total(facts, q))
           level(q) == map_score_to_level(q)
           result(q) == evaluate_profile(facts, level(q), q)
<1>1. /\ Total(facts, low) \in Int /\ Total(facts, high) \in Int
      /\ Total(facts, low) =< Total(facts, high)
  <2>1. Total(facts, low) \in Hundred
    BY TotalRange
  <2>2. Total(facts, high) \in Hundred
    BY TotalRange
  <2>3. Total(facts, low) =< Total(facts, high)
    BY TotalMonotone
  <2> QED
    BY <2>1, <2>2, <2>3, HundredIsInt
<1>2. /\ model(low) \in Levels /\ model(high) \in Levels
      /\ level(low) \in Levels /\ level(high) \in Levels
  BY LevelOfScore
<1>3. model(low) =< model(high) /\ level(low) =< level(high)
  BY <1>1, LevelOfScore
<1>4. ASSUME NEW q
      PROVE  /\ result(q).effective =
                  (IF level(q) < model(q) THEN level(q) ELSE model(q))
             /\ result(q).maximum =
                  IF LowCapacity(facts) THEN 2 ELSE result(q).effective
  BY DEF evaluate_profile, conservative_merge, Least
<1> HIDE DEF model, level, result
<1>5. /\ result(low).effective \in Int /\ result(high).effective \in Int
      /\ result(low).effective =< result(high).effective
  BY <1>2, <1>3, <1>4 DEF Levels
<1>6. Ceiling(result(low)) =< Ceiling(result(high))
  BY <1>4, <1>5 DEF Ceiling, Least
<1> QED
  BY <1>5, <1>6 DEF result, level

\* The row never has a level above that of the last assessment.
RowIsCautious ==
  ~ overlapped =>
    \A n \in Ids(assessments) :
      IsLast(n, Ids(assessments)) => row.risk =< assessments[n].level

AssessedInv == \A i \in DOMAIN assessments : assessments[i].level \in Levels

LEMMA AssessedLevel ==
  \A t, sheet, committed : Assessment(t, sheet, committed).level \in Levels
BY LevelOfScore DEF Assessment

LEMMA AssessedInit == Init => AssessedInv
<1> SUFFICES ASSUME Init PROVE AssessedInv
  OBVIOUS
<1> DEFINE a == Assessment(Before, FirstSheet, TRUE)
<1>1. a.level \in Levels
  BY LevelOfScore DEF Assessment
<1>2. assessments = <<>> \/ assessments = <<a>>
  BY DEF Init
<1> HIDE DEF a
<1> QED
  BY <1>1, <1>2 DEF AssessedInv

LEMMA AssessedNext ==
  ASSUME SuitabilityInv, AssessedInv, [Next]_vars PROVE AssessedInv'
<1>0. \E S : assessments \in Seq(S)
  BY DEF SuitabilityInv, AssessmentInv
<1>1. CASE assessments' = assessments
  BY <1>1 DEF AssessedInv
<1>2. ASSUME NEW t, assessments' = CommitRows(assessments, t) PROVE AssessedInv'
  <2>1. /\ DOMAIN assessments' = DOMAIN assessments
        /\ \A i \in DOMAIN assessments :
             \/ assessments'[i] = assessments[i]
             \/ assessments'[i] = [assessments[i] EXCEPT !.committed = TRUE]
    BY <1>0, <1>2, RowsCommitted
  <2>3. \A i \in DOMAIN assessments :
          DOMAIN assessments[i] = {"by", "committed", "score", "level"}
    BY DEF SuitabilityInv, AssessmentInv, AssessmentOK
  <2>2. ASSUME NEW i \in DOMAIN assessments
        PROVE  assessments'[i].level = assessments[i].level
    BY <2>1, <2>3
  <2> QED
    BY <2>1, <2>2 DEF AssessedInv
<1>3. ASSUME NEW t, InsertAssessment(t) PROVE AssessedInv'
  <2> DEFINE a == Assessment(t, job[t].answers, FALSE)
  <2>1. assessments' = Append(assessments, a)
    BY <1>3 DEF InsertAssessment
  <2>2. a.level \in Levels
    BY AssessedLevel
  <2> HIDE DEF a
  <2>3. /\ DOMAIN assessments = 1..Len(assessments) /\ Len(assessments) \in Nat
        /\ DOMAIN assessments' = 1..(Len(assessments) + 1)
        /\ \A i \in 1..Len(assessments) : assessments'[i] = assessments[i]
        /\ assessments'[Len(assessments) + 1] = a
    BY <1>0, <2>1, Appended
  <2> QED
    BY <2>2, <2>3 DEF AssessedInv
<1>4. ASSUME NEW t \in Requests, Step(t)
      PROVE  \/ assessments' = assessments \/ InsertAssessment(t)
             \/ assessments' = CommitRows(assessments, t)
  BY <1>4 DEF Step, Arrives, BeginCreate, BeginSubmit, BeginUpdate, BeginGet,
     suitability_check, Begin, Upsert, InsertEvaluation, RefuseEvaluation,
     Rebuild, SetLevel, UpdateFields, RefuseFields, Commit, DeleteCopy, GetCopy,
     SelectRow, FillCache, RequestFails, Fail, tables
<1>5. CASE AssessmentExpires \/ CopyExpires \/ UNCHANGED vars
  BY <1>1, <1>5 DEF AssessmentExpires, CopyExpires, vars, tables
<1> QED
  BY <1>1, <1>2, <1>3, <1>4, <1>5 DEF Next

\* The level in the row is the more cautious of the last assessment's and the
\* model's, so that no facts a customer states, in whatever order they are
\* stated and scored, raise it above the official one
\* (service/risk/scoring.py, conservative_merge); transactions that overlap
\* may.
THEOREM RowLevelIsCautious == Spec => []RowIsCautious
<1>1. ASSUME SuitabilityInv, AssessedInv, ProfileInv PROVE RowIsCautious
  <2> SUFFICES ASSUME ~ overlapped, NEW n \in Ids(assessments),
                      IsLast(n, Ids(assessments))
               PROVE  row.risk =< assessments[n].level
    BY DEF RowIsCautious
  <2>1. StoredOK
    BY <1>1 DEF SuitabilityInv, Apart
  <2>2. assessments[n].level \in Levels
    BY <1>1 DEF AssessedInv, Ids
  <2>3. \A m \in Ids(assessments) : IsLast(m, Ids(assessments)) => m = n
    BY <1>1, IdsAreNumbers DEF SuitabilityInv, AssessmentInv, IsLast
  <2>4. CASE row = NoRow
    BY <2>2, <2>4 DEF NoRow, Row, Levels
  <2>5. CASE Ids(evaluations) = {} /\ row # NoRow
    <3>1. row.risk = assessments[n].level
      BY <2>1, <2>3, <2>5 DEF StoredOK
    <3> QED
      BY <2>2, <3>1 DEF Levels
  <2>6. CASE Ids(evaluations) # {}
    <3>1. PICK facts : row.risk =
            evaluate_profile(facts, assessments[n].level, assessments[n].score).effective
      BY <2>1, <2>3, <2>6 DEF StoredOK
    <3> DEFINE model == map_score_to_level(Total(facts, assessments[n].score))
    <3>2. row.risk = Least(assessments[n].level, model)
      BY <3>1 DEF evaluate_profile, conservative_merge
    <3>3. model \in Levels
      BY LevelOfScore
    <3> HIDE DEF model
    <3> QED
      BY <2>2, <3>2, <3>3 DEF Least, Levels
  <2> QED
    BY <2>4, <2>5, <2>6
<1>2. Init => SuitabilityInv /\ AssessedInv
  BY SuitabilityInit, AssessedInit
<1>3. /\ ProfileInv /\ SuitabilityInv /\ AssessedInv /\ [Next]_vars
      => (SuitabilityInv /\ AssessedInv)'
  BY SuitabilityNext, AssessedNext
<1> QED
  BY <1>1, <1>2, <1>3, Invariance, PTL DEF Spec
=============================================================================
