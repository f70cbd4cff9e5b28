------------------------ MODULE KnowledgeServiceProofs ------------------------
(***************************************************************************)
(* Proofs about KnowledgeService for any number of calls and documents,    *)
(* failures and cancellations.                                             *)
(*                                                                         *)
(* A document that is not excused has one call at most at work on it.  So  *)
(* what this call has read is what is stored, and what it knows of the     *)
(* vectors at each of its steps is so; what a search has found of the      *)
(* document is no concern of it until the row is active again.             *)
(***************************************************************************)
EXTENDS KnowledgeService, SequenceTheorems, WellFoundedInduction, TLAPS

-----------------------------------------------------------------------------
(* What a call may rely on at each of its steps.                           *)

Fields == {"knowledge_type", "title", "status", "milvus_collection"}
AllTypes == DOMAIN COLLECTION_BY_TYPE
AllCollections == {COLLECTION_BY_TYPE[t] : t \in AllTypes}
Titles == Calls \cup {Earlier}
Row == [knowledge_type: AllTypes, title: Titles, status: Statuses,
        milvus_collection: AllCollections]

Uploading == {"draft", "insert", "publish", "undo"}
Labels == {"idle", "create", "old", "mark", "change", "write", "hits", "rows",
           "end"} \cup Uploading

KindOf(step) ==
  CASE step = "mark" -> "delete"
    [] step = "change" -> "update"
    [] OTHER -> "ingest"

TaskShape(c) ==
  /\ pc[c] \in {"old", "mark", "change", "write"} \cup Uploading =>
       task[c].id \in 1..Len(rows) /\ task[c].type \in AllTypes
  /\ pc[c] \in {"old", "mark", "change"} \cup Uploading => task[c].item \in Row
  /\ pc[c] \in {"create"} \cup Uploading => task[c].kind = "ingest"
  /\ pc[c] = "create" => task[c].id = 0 /\ task[c].type \in AllTypes
  /\ pc[c] = "old" => task[c].kind \in {"ingest", "delete"}
  /\ pc[c] = "mark" => task[c].kind = "delete"
  /\ pc[c] = "change" => task[c].kind = "update" /\ task[c].changes \in Requests(c)
  /\ pc[c] = "write" =>
       /\ task[c].step \in {"draft", "undo", "publish", "change", "mark"}
       /\ task[c].kind = KindOf(task[c].step)
       /\ task[c].row \in Row
  /\ pc[c] \in {"hits", "rows"} =>
       /\ task[c].kind = "search"
       /\ \A v \in task[c].hits : v.source_id \in 1..Len(rows)

Shape ==
  /\ rows \in Seq(Row) /\ published \in Seq(Seq(Titles))
  /\ Len(published) = Len(rows)
  /\ \A v \in vectors : v.source_id \in 1..Len(rows)
  /\ excused \subseteq 1..Len(rows) /\ deleted \subseteq 1..Len(rows)
  /\ pc \in [Calls -> Labels] /\ DOMAIN task = Calls
  /\ \A c \in Calls : TaskShape(c)

Counted == faults \in Nat /\ stops \in Nat

\* The uploads of i that were made active.
PublishedOf(i) == {published[i][n] : n \in DOMAIN published[i]}

\* What is in the collections and what searches have read there.
Hits(c) == IF pc[c] \in {"hits", "rows"} THEN task[c].hits ELSE {}
Found(v) == v \in vectors \/ \E c \in Calls : v \in Hits(c)

\* The vectors call c inserts for i.
Inserted(c, i) ==
  [collection |-> rows[i].milvus_collection, source_id |-> i, content |-> c]

\* The step of the upload, update or deletion a call is at.
At(c) == IF pc[c] = "write" THEN task[c].step ELSE pc[c]

\* What call c knows of the row it is about to write.
WriteOK(c, i) ==
  /\ task[c].columns = {f \in Fields : task[c].row[f] # rows[i][f]}
  /\ task[c].step = "draft" =>
       /\ task[c].row.status = "draft"
       /\ task[c].row.milvus_collection = COLLECTION_BY_TYPE[task[c].type]
  /\ task[c].step # "draft" =>
       task[c].row.milvus_collection = rows[i].milvus_collection
  /\ task[c].step = "undo" => task[c].row.status = "draft"
  /\ task[c].step = "publish" => task[c].row.status = "active"
  /\ task[c].step = "change" => task[c].row.status = rows[i].status
  /\ task[c].step = "mark" => task[c].row.status = "expired"

\* What call c knows of document i, at which it alone is at work.
WorkOK(c, i) ==
  /\ pc[c] = "write" => WriteOK(c, i)
  /\ pc[c] # "write" => task[c].item = rows[i]
  /\ At(c) \in {"draft", "mark", "insert"} => Vectors(i) = {}
  /\ At(c) = "publish" => Vectors(i) = {Inserted(c, i)}
  /\ At(c) = "undo" => Vectors(i) \subseteq {Inserted(c, i)}
  /\ At(c) \in {"old", "mark"} => rows[i].status # "expired"
  /\ At(c) = "draft" \/ (At(c) = "old" /\ task[c].kind = "ingest") =>
       rows[i].status = "active"
  /\ At(c) \in {"insert", "publish", "undo"} => rows[i].status = "draft"
  /\ pc[c] \in {"insert", "publish", "undo"} =>
       rows[i].milvus_collection = COLLECTION_BY_TYPE[task[c].type]
  /\ pc[c] = "change" => "status" \notin DOMAIN task[c].changes

Cleared(c, i) == Works(c, i) /\ At(c) \in {"draft", "mark"}

Agrees(i) ==
  /\ \A c, d \in Calls : Works(c, i) /\ Works(d, i) => c = d
  /\ \A c \in Calls : Works(c, i) => WorkOK(c, i)
  /\ \A v \in Vectors(i) : v.collection = rows[i].milvus_collection
  /\ rows[i].status = "active" /\ (\A c \in Calls : ~ Cleared(c, i)) =>
       /\ published[i] # <<>>
       /\ Vectors(i) = {Inserted(published[i][Len(published[i])], i)}
  /\ i \in deleted => rows[i].status = "expired" /\ Vectors(i) = {}

\* What was found of i has been active, or i is not active and none but the call
\* that inserted it will make it so.
Uploads(c, i) == Works(c, i) /\ task[c].kind = "ingest"
FoundOK(i) ==
  \A v : Found(v) /\ v.source_id = i =>
    \/ v.content \in PublishedOf(i)
    \/ /\ rows[i].status # "active"
       /\ \A c \in Calls : Uploads(c, i) => c = v.content

ResultsOK(c) ==
  pc[c] = "end" /\ task[c].kind = "search" =>
    \A v \in task[c].results :
      /\ v.source_id \in 1..Len(rows)
      /\ v.source_id \in excused \/ v.content \in PublishedOf(v.source_id)

Documents == 1..Len(rows) \ excused

Documented == \A i \in Documents : Agrees(i) /\ FoundOK(i)
Answered == \A c \in Calls : ResultsOK(c)

KnowledgeInv == Shape /\ Counted /\ Documented /\ Answered

-----------------------------------------------------------------------------
(* Numbers.                                                                *)

LEMMA LeastNat ==
  ASSUME NEW T, T \subseteq Nat, T # {}
  PROVE  \E x \in T : \A y \in T : x =< y
<1> DEFINE R == OpToRel(<, Nat)
<1>1. IsWellFoundedOn(R, Nat)
  BY NatLessThanWellFounded
<1>2. \A x, y \in Nat : <<y, x>> \notin R => x =< y
  BY DEF OpToRel
<1> HIDE DEF R
<1>3. PICK x \in T : \A y \in T : <<y, x>> \notin R
  BY <1>1, WFMin
<1> QED
  BY <1>2, <1>3

\* A set of numbers up to n has a largest one.
LEMMA Largest ==
  ASSUME NEW n \in Nat, NEW T, T \subseteq 1..n, T # {}
  PROVE  \E x \in T : \A y \in T : y =< x
<1> DEFINE D == {n - x : x \in T}
<1>1. D \subseteq Nat /\ D # {}
  <2>1. \A x \in T : x \in 1..n /\ n - x \in Nat
    OBVIOUS
  <2> QED
    BY <2>1
<1>2. PICK d \in D : \A e \in D : d =< e
  <2> HIDE DEF D
  <2> QED
    BY <1>1, LeastNat
<1>3. PICK x \in T : d = n - x
  BY <1>2
<1>4. \A y \in T : n - x =< n - y
  BY <1>2, <1>3
<1> QED
  BY <1>3, <1>4

-----------------------------------------------------------------------------
(* Steps.                                                                  *)

\* The other calls stay where they are.
Others(c) ==
  \A d \in Calls \ {c} : pc'[d] = pc[d] /\ task'[d] = task[d]

LEMMA Rows ==
  ASSUME Shape
  PROVE  /\ Len(rows) \in Nat /\ DOMAIN rows = 1..Len(rows)
         /\ \A i \in 1..Len(rows) : rows[i] \in Row
         /\ DOMAIN published = 1..Len(rows)
         /\ \A i \in 1..Len(rows) : published[i] \in Seq(Titles)
BY LenProperties, ElementOfSeq DEF Shape

\* Move, with a task of its own or the one it has.
LEMMA Moved ==
  ASSUME Shape, NEW c \in Calls, NEW l \in Labels, pc' = [pc EXCEPT ![c] = l]
  PROVE  /\ pc' \in [Calls -> Labels] /\ pc'[c] = l
         /\ \A d \in Calls \ {c} : pc'[d] = pc[d]
BY DEF Shape

LEMMA Given ==
  ASSUME Shape, NEW c \in Calls, NEW t, Set(c, t)
  PROVE  /\ DOMAIN task' = Calls /\ task'[c] = t
         /\ \A d \in Calls \ {c} : task'[d] = task[d]
BY DEF Shape, Set

LEMMA Goes ==
  ASSUME Shape, NEW c \in Calls, NEW l \in Labels, pc' = [pc EXCEPT ![c] = l],
         NEW t, Set(c, t)
  PROVE  /\ pc' \in [Calls -> Labels] /\ pc'[c] = l /\ Others(c)
         /\ DOMAIN task' = Calls /\ task'[c] = t
<1>1. pc' \in [Calls -> Labels] /\ pc'[c] = l /\ \A d \in Calls \ {c} : pc'[d] = pc[d]
  BY Moved
<1>2. DOMAIN task' = Calls /\ task'[c] = t /\ \A d \in Calls \ {c} : task'[d] = task[d]
  BY Given
<1> QED
  BY <1>1, <1>2 DEF Others

LEMMA ShapeKept ==
  ASSUME Shape, NEW c \in Calls, Others(c), Noted,
         pc' \in [Calls -> Labels], DOMAIN task' = Calls,
         rows' \in Seq(Row), Len(rows) =< Len(rows'),
         published' \in Seq(Seq(Titles)), Len(published') = Len(rows'),
         \A v \in vectors' : v.source_id \in 1..Len(rows'),
         deleted' \subseteq 1..Len(rows'), TaskShape(c)'
  PROVE  Shape'
<1>1. /\ Len(rows) \in Nat /\ Len(rows') \in Nat /\ DOMAIN rows' = 1..Len(rows')
      /\ 1..Len(rows) \subseteq 1..Len(rows')
  BY LenProperties DEF Shape
<1>2. excused' \subseteq 1..Len(rows')
  BY <1>1 DEF Shape, Noted
<1>3. ASSUME NEW d \in Calls \ {c} PROVE TaskShape(d)'
  <2>1. TaskShape(d) /\ pc'[d] = pc[d] /\ task'[d] = task[d]
    BY DEF Shape, Others
  <2> QED
    BY <1>1, <2>1 DEF TaskShape, Requests
<1> QED
  BY <1>1, <1>2, <1>3 DEF Shape

\* The stores stay as they are.
StoresKept == UNCHANGED <<rows, vectors, published, deleted>>

LEMMA ShapeKeptByReads ==
  ASSUME Shape, NEW c \in Calls, Others(c), Noted, StoresKept,
         pc' \in [Calls -> Labels], DOMAIN task' = Calls, TaskShape(c)'
  PROVE  Shape'
<1>1. Len(rows) \in Nat
  BY Rows
<1>2. /\ rows' \in Seq(Row) /\ Len(rows) =< Len(rows')
      /\ published' \in Seq(Seq(Titles)) /\ Len(published') = Len(rows')
      /\ \A v \in vectors' : v.source_id \in 1..Len(rows')
      /\ deleted' \subseteq 1..Len(rows')
  BY <1>1 DEF Shape, StoresKept
<1> QED
  BY <1>2, ShapeKept

-----------------------------------------------------------------------------
(* Shapes.                                                                 *)

\* The newest active document is one of them.
LEMMA IngestFinds ==
  ASSUME Shape, Active # {}
  PROVE  (CHOOSE j \in Active : \A k \in Active : k =< j) \in Active
<1>1. Active \subseteq 1..Len(rows) /\ Len(rows) \in Nat
  BY Rows DEF Active
<1>2. \E j \in Active : \A k \in Active : k =< j
  <2> HIDE DEF Active
  <2> QED
    BY <1>1, Largest
<1> QED
  BY <1>2

LEMMA Collection ==
  /\ \A t \in AllTypes : COLLECTION_BY_TYPE[t] \in AllCollections
  /\ Types \subseteq AllTypes
BY KnowledgeAssumption DEF AllTypes, AllCollections

\* What Ingest finds: nothing, or an active document i.
LEMMA IngestTask ==
  ASSUME Shape, NEW c \in Calls, NEW type \in Types, Ingest(c, type)
  PROVE  \/ /\ pc' = [pc EXCEPT ![c] = "create"]
            /\ Set(c, [kind |-> "ingest", id |-> 0, type |-> type])
         \/ \E i \in 1..Len(rows) :
              /\ rows[i].status = "active"
              /\ pc' = [pc EXCEPT ![c] = "old"]
              /\ Set(c, [kind |-> "ingest", id |-> i, type |-> type,
                         item |-> rows[i]])
<1>1. CASE Active = {}
  BY <1>1 DEF Ingest, Goto
<1>2. CASE Active # {}
  <2> DEFINE i == CHOOSE j \in Active : \A k \in Active : k =< j
  <2>1. i \in Active
    BY <1>2, IngestFinds
  <2>2. /\ pc' = [pc EXCEPT ![c] = "old"]
        /\ Set(c, [kind |-> "ingest", id |-> i, type |-> type, item |-> rows[i]])
    BY <1>2 DEF Ingest, Goto
  <2> HIDE DEF i
  <2>3. i \in 1..Len(rows) /\ rows[i].status = "active"
    BY <2>1, Rows DEF Active
  <2> QED
    BY <2>2, <2>3
<1> QED
  BY <1>1, <1>2

LEMMA IngestShape ==
  ASSUME Shape, NEW c \in Calls, NEW type \in Types, Ingest(c, type)
  PROVE  Shape' /\ StoresKept /\ Others(c) /\ Noted
<1>1. StoresKept /\ Noted
  BY DEF Ingest, StoresKept
<1>2. type \in AllTypes /\ \A i \in 1..Len(rows) : rows[i] \in Row
  BY Collection, Rows
<1>3. CASE /\ pc' = [pc EXCEPT ![c] = "create"]
           /\ Set(c, [kind |-> "ingest", id |-> 0, type |-> type])
  <2>1. /\ pc' \in [Calls -> Labels] /\ pc'[c] = "create" /\ Others(c)
        /\ DOMAIN task' = Calls
        /\ task'[c] = [kind |-> "ingest", id |-> 0, type |-> type]
    <3> DEFINE t == [kind |-> "ingest", id |-> 0, type |-> type]
    <3>1. pc' = [pc EXCEPT ![c] = "create"] /\ "create" \in Labels /\ Set(c, t)
      BY <1>3 DEF Labels
    <3> HIDE DEF t
    <3>2. /\ pc' \in [Calls -> Labels] /\ pc'[c] = "create" /\ Others(c)
          /\ DOMAIN task' = Calls /\ task'[c] = t
      BY <3>1, Goes
    <3> QED
      BY <3>2 DEF t
  <2>2. TaskShape(c)'
    BY <1>2, <2>1 DEF TaskShape, Uploading
  <2> QED
    BY <1>1, <2>1, <2>2, ShapeKeptByReads
<1>4. ASSUME NEW i \in 1..Len(rows), pc' = [pc EXCEPT ![c] = "old"],
             Set(c, [kind |-> "ingest", id |-> i, type |-> type, item |-> rows[i]])
      PROVE  Shape' /\ StoresKept /\ Others(c) /\ Noted
  <2>1. /\ pc' \in [Calls -> Labels] /\ pc'[c] = "old" /\ Others(c)
        /\ DOMAIN task' = Calls
        /\ task'[c] = [kind |-> "ingest", id |-> i, type |-> type, item |-> rows[i]]
    <3> DEFINE t == [kind |-> "ingest", id |-> i, type |-> type, item |-> rows[i]]
    <3>1. Set(c, t) /\ pc' = [pc EXCEPT ![c] = "old"]
      BY <1>4
    <3> HIDE DEF t
    <3>2. "old" \in Labels
      BY DEF Labels
    <3>3. /\ pc' \in [Calls -> Labels] /\ pc'[c] = "old" /\ Others(c)
          /\ DOMAIN task' = Calls /\ task'[c] = t
      BY <3>1, <3>2, Goes
    <3> QED
      BY <3>3 DEF t
  <2>2. TaskShape(c)'
    BY <1>1, <1>2, <2>1 DEF TaskShape, Uploading, StoresKept
  <2> QED
    BY <1>1, <2>1, <2>2, ShapeKeptByReads
<1> QED
  BY <1>3, <1>4, IngestTask

LEMMA UpdateShape ==
  ASSUME Shape, NEW c \in Calls, NEW i \in DOMAIN rows, NEW changes \in Requests(c),
         Update(c, i, changes)
  PROVE  /\ Shape' /\ StoresKept /\ Others(c) /\ Noted
         /\ \/ pc'[c] = "end" /\ task'[c] = NoTask
            \/ /\ pc'[c] = "change"
               /\ task'[c] = [kind |-> "update", id |-> i,
                              type |-> rows[i].knowledge_type, item |-> rows[i],
                              changes |-> changes]
<1>1. StoresKept /\ Noted
  BY DEF Update, StoresKept
<1>2. i \in 1..Len(rows) /\ rows[i] \in Row /\ rows[i].knowledge_type \in AllTypes
  BY Rows DEF Row
<1>3. \/ pc' = [pc EXCEPT ![c] = "end"] /\ Set(c, NoTask)
      \/ /\ pc' = [pc EXCEPT ![c] = "change"]
         /\ Set(c, [kind |-> "update", id |-> i,
                    type |-> rows[i].knowledge_type, item |-> rows[i],
                    changes |-> changes])
  BY DEF Update, Goto
<1>4. /\ pc' \in [Calls -> Labels] /\ Others(c) /\ DOMAIN task' = Calls
      /\ \/ pc'[c] = "end" /\ task'[c] = NoTask
         \/ /\ pc'[c] = "change"
            /\ task'[c] = [kind |-> "update", id |-> i,
                           type |-> rows[i].knowledge_type, item |-> rows[i],
                           changes |-> changes]
  <2>1. CASE pc' = [pc EXCEPT ![c] = "end"] /\ Set(c, NoTask)
    <3>1. "end" \in Labels
      BY DEF Labels
    <3> QED
      BY <2>1, <3>1, Goes
  <2>2. CASE /\ pc' = [pc EXCEPT ![c] = "change"]
             /\ Set(c, [kind |-> "update", id |-> i,
                        type |-> rows[i].knowledge_type, item |-> rows[i],
                        changes |-> changes])
    <3> DEFINE t == [kind |-> "update", id |-> i, type |-> rows[i].knowledge_type,
                     item |-> rows[i],
                     changes |-> changes]
    <3>1. "change" \in Labels
      BY DEF Labels
    <3>2. Set(c, t)
      BY <2>2
    <3> HIDE DEF t
    <3>3. /\ pc' \in [Calls -> Labels] /\ pc'[c] = "change" /\ Others(c)
          /\ DOMAIN task' = Calls /\ task'[c] = t
      BY <2>2, <3>1, <3>2, Goes
    <3> QED
      BY <2>2, <3>3 DEF t
  <2> QED
    BY <1>3, <2>1, <2>2
<1>5. TaskShape(c)'
  BY <1>1, <1>2, <1>4 DEF TaskShape, Uploading, StoresKept, Requests
<1> QED
  BY <1>1, <1>4, <1>5, ShapeKeptByReads

LEMMA DeleteShape ==
  ASSUME Shape, NEW c \in Calls, NEW i \in DOMAIN rows, StartDelete(c, i)
  PROVE  /\ Shape' /\ StoresKept /\ Others(c) /\ Noted
         /\ \/ pc'[c] = "end" /\ task'[c] = NoTask
            \/ /\ pc'[c] = "old" /\ rows[i].status # "expired"
               /\ task'[c] = [kind |-> "delete", id |-> i,
                              type |-> rows[i].knowledge_type, item |-> rows[i]]
<1>1. StoresKept /\ Noted
  BY DEF StartDelete, StoresKept
<1>2. i \in 1..Len(rows) /\ rows[i] \in Row /\ rows[i].knowledge_type \in AllTypes
  BY Rows DEF Row
<1>3. \/ pc' = [pc EXCEPT ![c] = "end"] /\ Set(c, NoTask)
      \/ /\ pc' = [pc EXCEPT ![c] = "old"] /\ rows[i].status # "expired"
         /\ Set(c, [kind |-> "delete", id |-> i,
                    type |-> rows[i].knowledge_type, item |-> rows[i]])
  BY DEF StartDelete, Goto
<1>4. /\ pc' \in [Calls -> Labels] /\ Others(c) /\ DOMAIN task' = Calls
      /\ \/ pc'[c] = "end" /\ task'[c] = NoTask
         \/ /\ pc'[c] = "old" /\ rows[i].status # "expired"
            /\ task'[c] = [kind |-> "delete", id |-> i,
                           type |-> rows[i].knowledge_type, item |-> rows[i]]
  <2>1. CASE pc' = [pc EXCEPT ![c] = "end"] /\ Set(c, NoTask)
    <3>1. "end" \in Labels
      BY DEF Labels
    <3> QED
      BY <2>1, <3>1, Goes
  <2>2. CASE /\ pc' = [pc EXCEPT ![c] = "old"] /\ rows[i].status # "expired"
             /\ Set(c, [kind |-> "delete", id |-> i,
                        type |-> rows[i].knowledge_type, item |-> rows[i]])
    <3> DEFINE t == [kind |-> "delete", id |-> i, type |-> rows[i].knowledge_type,
                     item |-> rows[i]]
    <3>1. "old" \in Labels
      BY DEF Labels
    <3>2. Set(c, t)
      BY <2>2
    <3> HIDE DEF t
    <3>3. /\ pc' \in [Calls -> Labels] /\ pc'[c] = "old" /\ Others(c)
          /\ DOMAIN task' = Calls /\ task'[c] = t
      BY <2>2, <3>1, <3>2, Goes
    <3> QED
      BY <2>2, <3>3 DEF t
  <2> QED
    BY <1>3, <2>1, <2>2
<1>5. TaskShape(c)'
  BY <1>1, <1>2, <1>4 DEF TaskShape, Uploading, StoresKept
<1> QED
  BY <1>1, <1>4, <1>5, ShapeKeptByReads

LEMMA SearchShape ==
  ASSUME Shape, NEW c \in Calls, NEW k, Search(c, k)
  PROVE  /\ Shape' /\ StoresKept /\ Others(c) /\ Noted
         /\ pc'[c] = "hits" /\ task'[c].kind = "search" /\ task'[c].hits = {}
<1>1. StoresKept /\ Noted
  BY DEF Search, StoresKept
<1>2. pc' = [pc EXCEPT ![c] = "hits"]
      /\ Set(c, [kind |-> "search", id |-> 0, left |-> k, hits |-> {}])
  BY DEF Search, Goto
<1>3. /\ pc' \in [Calls -> Labels] /\ Others(c) /\ DOMAIN task' = Calls
      /\ pc'[c] = "hits"
      /\ task'[c] = [kind |-> "search", id |-> 0, left |-> k, hits |-> {}]
  BY <1>2, Goes DEF Labels
<1>4. TaskShape(c)'
  BY <1>3 DEF TaskShape, Uploading
<1> QED
  BY <1>1, <1>3, <1>4, ShapeKeptByReads

LEMMA SearchCollectionShape ==
  ASSUME Shape, NEW c \in Calls, NEW k, SearchCollection(c, k)
  PROVE  /\ Shape' /\ StoresKept /\ Others(c) /\ Noted
         /\ pc[c] = "hits" /\ pc'[c] \in {"hits", "rows"}
         /\ task'[c].kind = "search"
         /\ task'[c].hits \subseteq task[c].hits \cup vectors
<1>1. StoresKept /\ Noted /\ pc[c] = "hits"
  BY DEF SearchCollection, StoresKept, Goto
<1>2. /\ \/ pc' = [pc EXCEPT ![c] = "hits"]
         \/ pc' = [pc EXCEPT ![c] = "rows"]
      /\ Set(c, [task[c] EXCEPT !.left = @ \ {k}, !.hits =
                   @ \cup {v \in vectors : v.collection = k}])
  BY DEF SearchCollection, Goto
<1>3. /\ pc' \in [Calls -> Labels] /\ Others(c) /\ DOMAIN task' = Calls
      /\ pc'[c] \in {"hits", "rows"}
      /\ task'[c] = [task[c] EXCEPT !.left = @ \ {k}, !.hits =
                       @ \cup {v \in vectors : v.collection = k}]
  <2>1. "hits" \in Labels /\ "rows" \in Labels
    BY DEF Labels
  <2> QED
    BY <1>2, <2>1, Goes
<1>4. /\ task'[c].kind = "search"
      /\ task'[c].hits \subseteq task[c].hits \cup vectors
  BY <1>1, <1>3 DEF Shape, TaskShape
<1>5. TaskShape(c)'
  BY <1>1, <1>3, <1>4 DEF Shape, TaskShape, Uploading, StoresKept
<1> QED
  BY <1>1, <1>3, <1>4, <1>5, ShapeKeptByReads

LEMMA AnswerShape ==
  ASSUME Shape, NEW c \in Calls, Answer(c)
  PROVE  /\ Shape' /\ StoresKept /\ Others(c) /\ Noted
         /\ pc[c] = "rows" /\ pc'[c] = "end"
         /\ \A v \in task'[c].results : v \in task[c].hits /\ Shown(v)
<1>1. StoresKept /\ Noted /\ pc[c] = "rows"
  BY DEF Answer, StoresKept, Goto
<1>2. PICK best \in SUBSET task[c].hits :
        Set(c, [kind |-> "search", id |-> 0,
                results |-> {v \in best : Shown(v)}])
  BY DEF Answer
<1>3. pc' = [pc EXCEPT ![c] = "end"]
  BY DEF Answer, Goto
<1>4. /\ pc' \in [Calls -> Labels] /\ Others(c) /\ DOMAIN task' = Calls
      /\ pc'[c] = "end"
      /\ task'[c] = [kind |-> "search", id |-> 0,
                     results |-> {v \in best : Shown(v)}]
  <2> DEFINE t == [kind |-> "search", id |-> 0, results |-> {v \in best : Shown(v)}]
  <2>1. "end" \in Labels /\ Set(c, t)
    BY <1>2 DEF Labels
  <2> HIDE DEF t
  <2>2. /\ pc' \in [Calls -> Labels] /\ pc'[c] = "end" /\ Others(c)
        /\ DOMAIN task' = Calls /\ task'[c] = t
    BY <1>3, <2>1, Goes
  <2> QED
    BY <2>2 DEF t
<1>5. TaskShape(c)'
  BY <1>4 DEF TaskShape, Uploading
<1> QED
  BY <1>1, <1>4, <1>5, ShapeKeptByReads

LEMMA CreateShape ==
  ASSUME Shape, NEW c \in Calls, Create(c)
  PROVE  /\ Shape' /\ Others(c) /\ Noted /\ pc'[c] = "insert"
         /\ UNCHANGED <<vectors, deleted>>
         /\ Len(rows') = Len(rows) + 1 /\ Len(rows) \in Nat
         /\ \A i \in 1..Len(rows) : rows'[i] = rows[i] /\ published'[i] = published[i]
         /\ rows'[Len(rows')].status = "draft"
         /\ rows'[Len(rows')].milvus_collection = COLLECTION_BY_TYPE[task'[c].type]
         /\ task'[c].id = Len(rows') /\ task'[c].item = rows'[Len(rows')]
         /\ task'[c].kind = "ingest"
<1> DEFINE row == [knowledge_type |-> task[c].type, title |-> c, status |-> "draft",
                   milvus_collection |-> COLLECTION_BY_TYPE[task[c].type]]
<1>1. /\ pc[c] = "create" /\ pc' = [pc EXCEPT ![c] = "insert"]
      /\ rows' = Append(rows, row) /\ published' = Append(published, <<>>)
      /\ Set(c, [kind |-> "ingest", type |-> task[c].type, id |-> Len(rows'),
                 item |-> row])
      /\ UNCHANGED <<vectors, deleted>> /\ Noted
  BY DEF Create, Goto
<1>2. task[c].type \in AllTypes
  BY <1>1 DEF Shape, TaskShape
<1>3. row \in Row /\ row.status = "draft"
      /\ row.milvus_collection = COLLECTION_BY_TYPE[task[c].type]
  BY <1>2, Collection DEF Row, Statuses, Titles
<1> HIDE DEF row
<1>4. /\ rows' \in Seq(Row) /\ Len(rows') = Len(rows) + 1 /\ Len(rows) \in Nat
      /\ (\A i \in 1..Len(rows) : rows'[i] = rows[i]) /\ rows'[Len(rows')] = row
  BY <1>1, <1>3, AppendProperties, LenProperties DEF Shape
<1>5. /\ published' \in Seq(Seq(Titles)) /\ Len(published') = Len(rows')
      /\ \A i \in 1..Len(rows) : published'[i] = published[i]
  <2>1. <<>> \in Seq(Titles)
    BY EmptySeq
  <2> QED
    BY <1>1, <1>4, <2>1, AppendProperties DEF Shape
<1>6. /\ pc' \in [Calls -> Labels] /\ Others(c) /\ DOMAIN task' = Calls
      /\ pc'[c] = "insert"
      /\ task'[c] = [kind |-> "ingest", type |-> task[c].type, id |-> Len(rows'),
                     item |-> row]
  <2> DEFINE t == [kind |-> "ingest", type |-> task[c].type, id |-> Len(rows'),
                   item |-> row]
  <2>1. Set(c, t) /\ pc' = [pc EXCEPT ![c] = "insert"]
    BY <1>1
  <2> HIDE DEF t
  <2>2. "insert" \in Labels
    BY DEF Labels, Uploading
  <2>3. /\ pc' \in [Calls -> Labels] /\ pc'[c] = "insert" /\ Others(c)
        /\ DOMAIN task' = Calls /\ task'[c] = t
    BY <2>1, <2>2, Goes
  <2> QED
    BY <2>3 DEF t
<1>7. TaskShape(c)'
  BY <1>2, <1>3, <1>4, <1>6 DEF TaskShape, Uploading
<1>8. /\ \A v \in vectors' : v.source_id \in 1..Len(rows')
      /\ deleted' \subseteq 1..Len(rows') /\ Len(rows) =< Len(rows')
  BY <1>1, <1>4 DEF Shape
<1>9. Shape'
  BY <1>1, <1>4, <1>5, <1>6, <1>7, <1>8, ShapeKept
<1> QED
  BY <1>1, <1>3, <1>4, <1>5, <1>6, <1>9

\* A step that changes vectors, of a call that goes on with its task.
LEMMA VectorsShape ==
  ASSUME Shape, NEW c \in Calls, Others(c), Noted,
         UNCHANGED <<rows, published, deleted>>,
         pc' \in [Calls -> Labels], DOMAIN task' = Calls, TaskShape(c)',
         pc[c] \in {"old", "insert"},
         UNCHANGED vectors \/ Delete(c) \/ Insert(c)
  PROVE  Shape'
<1>1. Len(rows) \in Nat /\ task[c].id \in 1..Len(rows)
  BY Rows DEF Shape, TaskShape, Uploading
<1>2. \A v \in vectors' : v.source_id \in 1..Len(rows')
  BY <1>1 DEF Delete, Insert, Shape
<1>3. /\ rows' \in Seq(Row) /\ Len(rows) =< Len(rows')
      /\ published' \in Seq(Seq(Titles)) /\ Len(published') = Len(rows')
      /\ deleted' \subseteq 1..Len(rows')
  BY <1>1 DEF Shape
<1> QED
  BY <1>2, <1>3, ShapeKept

LEMMA DeleteVectorsShape ==
  ASSUME Shape, NEW c \in Calls, DeleteVectors(c)
  PROVE  /\ Shape' /\ Others(c) /\ Noted /\ Delete(c)
         /\ UNCHANGED <<rows, task, published, deleted>> /\ pc[c] = "old"
         /\ pc'[c] = IF task[c].kind = "ingest" THEN "draft" ELSE "mark"
<1>1. /\ UNCHANGED <<rows, task, published, deleted>> /\ Noted /\ Delete(c)
      /\ pc[c] = "old"
      /\ pc' = [pc EXCEPT ![c] = IF task[c].kind = "ingest" THEN "draft" ELSE "mark"]
  BY DEF DeleteVectors, Goto
<1>2. /\ pc' \in [Calls -> Labels] /\ Others(c) /\ DOMAIN task' = Calls
      /\ pc'[c] = IF task[c].kind = "ingest" THEN "draft" ELSE "mark"
  BY <1>1 DEF Shape, Labels, Others, Uploading
<1>3. TaskShape(c)'
  BY <1>1, <1>2 DEF Shape, TaskShape, Uploading
<1> QED
  BY <1>1, <1>2, <1>3, VectorsShape

LEMMA InsertVectorsShape ==
  ASSUME Shape, NEW c \in Calls, InsertVectors(c)
  PROVE  /\ Shape' /\ Others(c) /\ Noted /\ Insert(c)
         /\ UNCHANGED <<rows, task, published, deleted>>
         /\ pc[c] = "insert" /\ pc'[c] = "publish"
<1>1. /\ UNCHANGED <<rows, task, published, deleted>> /\ Noted /\ Insert(c)
      /\ pc[c] = "insert" /\ pc' = [pc EXCEPT ![c] = "publish"]
  BY DEF InsertVectors, Goto
<1>2. /\ pc' \in [Calls -> Labels] /\ Others(c) /\ DOMAIN task' = Calls
      /\ pc'[c] = "publish"
  BY <1>1 DEF Shape, Labels, Others, Uploading
<1>3. TaskShape(c)'
  BY <1>1, <1>2 DEF Shape, TaskShape, Uploading
<1> QED
  BY <1>1, <1>2, <1>3, VectorsShape

\* A step that breaks off.
BrokenOff == faults' > faults \/ stops' > stops

LEMMA FaultShape ==
  ASSUME Shape, NEW c \in Calls, Fault(c) \/ Stop(c), Counted
  PROVE  /\ Shape' /\ Others(c) /\ Noted /\ LeftBehind(c) /\ BrokenOff
         /\ UNCHANGED <<rows, published, deleted>>
         /\ pc[c] \notin {"idle", "end"}
         /\ \/ pc[c] = "insert" /\ pc'[c] = "undo" /\ task'[c] = task[c]
            \/ pc'[c] = "end" /\ task'[c] = NoTask
<1>1. /\ UNCHANGED <<rows, published, deleted>> /\ Noted /\ LeftBehind(c)
      /\ BrokenOff /\ pc[c] \notin {"idle", "end"}
  BY DEF Fault, Stop, BrokenOff, Counted
<1>2. \/ /\ pc[c] = "insert" /\ pc' = [pc EXCEPT ![c] = "undo"]
         /\ Set(c, task[c])
      \/ pc' = [pc EXCEPT ![c] = "end"] /\ Set(c, NoTask)
  BY DEF Fault, Stop
<1>3. /\ pc' \in [Calls -> Labels] /\ Others(c) /\ DOMAIN task' = Calls
      /\ \/ pc[c] = "insert" /\ pc'[c] = "undo" /\ task'[c] = task[c]
         \/ pc'[c] = "end" /\ task'[c] = NoTask
  <2>1. "undo" \in Labels /\ "end" \in Labels
    BY DEF Labels, Uploading
  <2> QED
    BY <1>2, <2>1, Goes
<1>4. TaskShape(c)'
  BY <1>1, <1>3 DEF Shape, TaskShape, Uploading
<1>5. Shape'
  <2>1. CASE UNCHANGED vectors
    <3>1. StoresKept
      BY <1>1, <2>1 DEF StoresKept
    <3> QED
      BY <1>1, <1>3, <1>4, <3>1, ShapeKeptByReads
  <2>2. CASE pc[c] \in {"old", "insert"} /\ (Delete(c) \/ Insert(c))
    BY <1>1, <1>3, <1>4, <2>2, VectorsShape
  <2> QED
    BY <1>1, <2>1, <2>2 DEF LeftBehind
<1> QED
  BY <1>1, <1>3, <1>5

LEMMA MergeChanges ==
  ASSUME Shape, NEW c \in Calls,
         pc[c] \in {"draft", "undo", "publish", "change", "mark"}
  PROVE  LET row == Updated(task[c].item, Changes(c)) IN
         /\ row \in Row
         /\ pc[c] = "draft" =>
              /\ row.status = "draft"
              /\ row.milvus_collection = COLLECTION_BY_TYPE[task[c].type]
         /\ pc[c] # "draft" =>
              row.milvus_collection = task[c].item.milvus_collection
         /\ pc[c] = "undo" => row.status = "draft"
         /\ pc[c] = "publish" => row.status = "active"
         /\ pc[c] = "change" /\ "status" \notin DOMAIN task[c].changes =>
              row.status = task[c].item.status
         /\ pc[c] = "mark" => row.status = "expired"
<1> DEFINE item == task[c].item
           row == Updated(item, Changes(c))
<1>1. item \in Row /\ task[c].type \in AllTypes
  BY DEF Shape, TaskShape, Uploading
<1>2. CASE pc[c] = "draft"
  <2>1. Changes(c) = [knowledge_type |-> task[c].type, title |-> c,
                      status |-> "draft",
                      milvus_collection |-> COLLECTION_BY_TYPE[task[c].type]]
    BY <1>2 DEF Changes
  <2>2. row = [knowledge_type |-> task[c].type, title |-> c, status |-> "draft",
               milvus_collection |-> COLLECTION_BY_TYPE[task[c].type]]
    BY <1>1, <2>1 DEF Updated, Row
  <2>3. row \in Row
    BY <1>1, <2>2, Collection DEF Row, Statuses, Titles
  <2> QED
    BY <1>2, <2>2, <2>3
<1>3. ASSUME NEW s \in Statuses, Changes(c) = [status |-> s]
      PROVE  /\ row \in Row /\ row.status = s
             /\ row.milvus_collection = item.milvus_collection
  BY <1>1, <1>3 DEF Updated, Row
<1>4. CASE pc[c] \in {"undo", "publish", "mark"}
  <2>1. Changes(c) = [status |-> IF pc[c] = "undo" THEN "draft"
                                 ELSE IF pc[c] = "publish" THEN "active"
                                 ELSE "expired"]
    BY <1>4 DEF Changes
  <2> QED
    BY <1>3, <1>4, <2>1 DEF Statuses
<1>5. CASE pc[c] = "change"
  <2>1. Changes(c) = task[c].changes /\ task[c].changes \in Requests(c)
    BY <1>5 DEF Changes, Shape, TaskShape
  <2>2. CASE Changes(c) = [title |-> c]
    BY <1>1, <1>5, <2>2 DEF Updated, Row, Titles
  <2>3. ASSUME NEW t \in Types, Changes(c) = [knowledge_type |-> t]
        PROVE  row \in Row /\ row.status = item.status
               /\ row.milvus_collection = item.milvus_collection
    BY <1>1, <2>3, Collection DEF Updated, Row
  <2>4. ASSUME NEW s \in Statuses, Changes(c) = [status |-> s]
        PROVE  "status" \in DOMAIN task[c].changes
    BY <2>1, <2>4
  <2> QED
    BY <1>3, <1>5, <2>1, <2>2, <2>3, <2>4 DEF Requests
<1> QED
  BY <1>2, <1>4, <1>5


LEMMA MergeShape ==
  ASSUME Shape, NEW c \in Calls, Merge(c)
  PROVE  /\ Shape' /\ StoresKept /\ Others(c) /\ Noted
         /\ pc[c] \in {"draft", "undo", "publish", "change", "mark"}
         /\ pc'[c] = "write" /\ task'[c].kind = task[c].kind
         /\ task'[c].id = task[c].id /\ task'[c].type = task[c].type
         /\ task'[c].step = pc[c] /\ task'[c].row \in Row
         /\ task'[c].row = Updated(task[c].item, Changes(c))
         /\ task'[c].columns =
              {f \in Fields : task'[c].row[f] # rows[task[c].id][f]}
<1> DEFINE row == Updated(task[c].item, Changes(c))
           columns == {f \in DOMAIN row : row[f] # rows[task[c].id][f]}
<1>1. /\ pc[c] \in {"draft", "undo", "publish", "change", "mark"}
      /\ pc' = [pc EXCEPT ![c] = "write"]
      /\ Set(c, [kind |-> task[c].kind, id |-> task[c].id, type |-> task[c].type,
                 step |-> pc[c], row |-> row, columns |-> columns])
      /\ StoresKept /\ Noted
  BY DEF Merge, StoresKept
<1>2. row \in Row
  BY <1>1, MergeChanges
<1>3. columns = {f \in Fields : row[f] # rows[task[c].id][f]}
  BY <1>2 DEF Row, Fields
<1> HIDE DEF row, columns
<1>4. /\ pc' \in [Calls -> Labels] /\ Others(c) /\ DOMAIN task' = Calls
      /\ pc'[c] = "write"
      /\ task'[c] = [kind |-> task[c].kind, id |-> task[c].id,
                     type |-> task[c].type, step |-> pc[c], row |-> row,
                     columns |-> columns]
  <2> DEFINE t == [kind |-> task[c].kind, id |-> task[c].id,
                   type |-> task[c].type, step |-> pc[c], row |-> row,
                   columns |-> columns]
  <2>1. Set(c, t) /\ pc' = [pc EXCEPT ![c] = "write"]
    BY <1>1
  <2> HIDE DEF t
  <2>2. "write" \in Labels
    BY DEF Labels
  <2>3. /\ pc' \in [Calls -> Labels] /\ pc'[c] = "write" /\ Others(c)
        /\ DOMAIN task' = Calls /\ task'[c] = t
    BY <2>1, <2>2, Goes
  <2> QED
    BY <2>3 DEF t
<1>5. /\ task[c].id \in 1..Len(rows) /\ task[c].type \in AllTypes
      /\ task[c].kind = KindOf(pc[c])
  BY <1>1 DEF Shape, TaskShape, Uploading, KindOf
<1>6. TaskShape(c)'
  <2>1. /\ pc'[c] = "write" /\ rows' = rows
        /\ task'[c].id = task[c].id /\ task'[c].type = task[c].type
        /\ task'[c].kind = task[c].kind /\ task'[c].step = pc[c]
        /\ task'[c].row = row
    BY <1>1, <1>4 DEF StoresKept
  <2>2. /\ task'[c].id \in 1..Len(rows') /\ task'[c].type \in AllTypes
        /\ task'[c].step \in {"draft", "undo", "publish", "change", "mark"}
        /\ task'[c].kind = KindOf(task'[c].step) /\ task'[c].row \in Row
    BY <1>1, <1>2, <1>5, <2>1
  <2> QED
    BY <2>1, <2>2 DEF TaskShape, Uploading
<1>7. Shape'
  BY <1>1, <1>4, <1>6, ShapeKeptByReads
<1>8. /\ pc'[c] = "write" /\ task'[c].kind = task[c].kind
      /\ task'[c].id = task[c].id /\ task'[c].type = task[c].type
      /\ task'[c].step = pc[c] /\ task'[c].row = row /\ task'[c].columns = columns
  BY <1>4
<1>9. Others(c)
  BY <1>4
<1> QED
  BY <1>1, <1>2, <1>3, <1>7, <1>8, <1>9 DEF row

\* The row a write leaves.
Written(c) ==
  [f \in DOMAIN rows[task[c].id] |-> IF f \in task[c].columns
                                     THEN task[c].row[f] ELSE rows[task[c].id][f]]

LEMMA WrittenRow ==
  ASSUME Shape, NEW c \in Calls, pc[c] = "write"
  PROVE  Written(c) \in Row
<1>1. task[c].row \in Row /\ rows[task[c].id] \in Row
  BY Rows DEF Shape, TaskShape
<1> QED
  BY <1>1 DEF Written, Row

LEMMA WriteShape ==
  ASSUME Shape, NEW c \in Calls, Write(c)
  PROVE  /\ Shape' /\ Others(c) /\ Noted /\ pc[c] = "write"
         /\ UNCHANGED vectors
         /\ task[c].id \in 1..Len(rows) /\ Len(rows') = Len(rows)
         /\ rows'[task[c].id] = Written(c)
         /\ \A i \in 1..Len(rows) : i # task[c].id =>
              /\ rows'[i] = rows[i] /\ published'[i] = published[i]
              /\ i \in deleted' <=> i \in deleted
         /\ IF task[c].step = "publish"
            THEN published'[task[c].id] = Append(published[task[c].id], c)
            ELSE published' = published
         /\ deleted' = IF task[c].step = "mark" THEN deleted \cup {task[c].id}
                       ELSE deleted
         /\ IF task[c].step = "draft"
            THEN /\ pc'[c] = "insert"
                 /\ task'[c] = [kind |-> "ingest", id |-> task[c].id,
                                type |-> task[c].type, item |-> Written(c)]
            ELSE pc'[c] = "end" /\ task'[c] = NoTask
<1> DEFINE i == task[c].id
<1>1. /\ pc[c] = "write"
      /\ pc' = [pc EXCEPT ![c] = IF task[c].step = "draft" THEN "insert" ELSE "end"]
      /\ rows' = [rows EXCEPT ![i] = Written(c)]
      /\ UNCHANGED vectors /\ Noted
  BY DEF Write, Goto, Written
<1>2. /\ published' = IF task[c].step = "publish"
                      THEN [published EXCEPT ![i] = Append(@, c)] ELSE published
      /\ deleted' = IF task[c].step = "mark" THEN deleted \cup {i} ELSE deleted
      /\ Set(c, IF task[c].step # "draft" THEN NoTask
                ELSE [kind |-> "ingest", id |-> i, type |-> task[c].type,
                      item |-> Written(c)])
  BY DEF Write, Written
<1>3. i \in 1..Len(rows) /\ task[c].type \in AllTypes /\ Written(c) \in Row
  BY <1>1, WrittenRow DEF Shape, TaskShape
<1>4. Len(published) = Len(rows) /\ published[i] \in Seq(Titles)
  BY <1>3, Rows DEF Shape
<1>5. Append(published[i], c) \in Seq(Titles)
  BY <1>4, AppendProperties DEF Titles
<1> HIDE DEF i
<1>6. /\ rows' \in Seq(Row) /\ Len(rows') = Len(rows) /\ rows'[i] = Written(c)
      /\ \A j \in 1..Len(rows) : j # i => rows'[j] = rows[j]
  BY <1>1, <1>3, ExceptSeq DEF Shape
<1>7. /\ published' \in Seq(Seq(Titles)) /\ Len(published') = Len(rows)
      /\ \A j \in 1..Len(rows) : j # i => published'[j] = published[j]
      /\ IF task[c].step = "publish" THEN published'[i] = Append(published[i], c)
         ELSE published' = published
  <2>1. CASE task[c].step = "publish"
    <3>1. published' = [published EXCEPT ![i] = Append(published[i], c)]
      BY <1>2, <2>1
    <3> QED
      BY <1>3, <1>4, <1>5, <2>1, <3>1, ExceptSeq DEF Shape
  <2>2. CASE task[c].step # "publish"
    BY <1>2, <1>4, <2>2 DEF Shape
  <2> QED
    BY <2>1, <2>2
<1>8. /\ pc' \in [Calls -> Labels] /\ Others(c) /\ DOMAIN task' = Calls
      /\ IF task[c].step = "draft"
         THEN /\ pc'[c] = "insert"
              /\ task'[c] = [kind |-> "ingest", id |-> i, type |-> task[c].type,
                             item |-> Written(c)]
         ELSE pc'[c] = "end" /\ task'[c] = NoTask
  <2>1. CASE task[c].step = "draft"
    <3> DEFINE t == [kind |-> "ingest", id |-> i, type |-> task[c].type,
                     item |-> Written(c)]
    <3>1. Set(c, t) /\ pc' = [pc EXCEPT ![c] = "insert"]
      BY <1>1, <1>2, <2>1
    <3> HIDE DEF t
    <3>2. "insert" \in Labels
      BY DEF Labels, Uploading
    <3>3. /\ pc' \in [Calls -> Labels] /\ pc'[c] = "insert" /\ Others(c)
          /\ DOMAIN task' = Calls /\ task'[c] = t
      BY <3>1, <3>2, Goes
    <3> QED
      BY <2>1, <3>3 DEF t
  <2>2. CASE task[c].step # "draft"
    <3>1. "end" \in Labels
      BY DEF Labels
    <3>2. pc' = [pc EXCEPT ![c] = "end"] /\ Set(c, NoTask) /\ Shape
      BY <1>1, <1>2, <2>2
    <3> QED
      BY <2>2, <3>1, <3>2, Goes
  <2> QED
    BY <2>1, <2>2
<1>9. TaskShape(c)'
  BY <1>3, <1>6, <1>8 DEF TaskShape, Uploading
<1>10. /\ \A v \in vectors' : v.source_id \in 1..Len(rows')
       /\ deleted' \subseteq 1..Len(rows') /\ Len(rows) =< Len(rows')
  <2>1. Len(rows) \in Nat
    BY Rows
  <2>2. vectors' = vectors /\ deleted' \subseteq deleted \cup {i}
    BY <1>1, <1>2
  <2>3. /\ \A v \in vectors : v.source_id \in 1..Len(rows)
        /\ deleted \subseteq 1..Len(rows)
    BY DEF Shape
  <2>4. Len(rows') = Len(rows)
    BY <1>6
  <2> QED
    BY <1>3, <2>1, <2>2, <2>3, <2>4
<1>11. Shape'
  BY <1>1, <1>6, <1>7, <1>8, <1>9, <1>10, ShapeKept
<1>12. \A j \in 1..Len(rows) : j # i => (j \in deleted' <=> j \in deleted)
  BY <1>2
<1> QED
  BY <1>1, <1>2, <1>3, <1>6, <1>7, <1>8, <1>11, <1>12 DEF i

-----------------------------------------------------------------------------
(* One document over a step of one call.                                   *)

\* A document that is not excused by the step was not excused before, and one
\* call at most is at work on it afterwards.
LEMMA Alone ==
  ASSUME Shape, Shape', Noted, NEW i \in Documents'
  PROVE  /\ i \notin excused /\ ~ Excused(i)
         /\ \A d, e \in Calls : Works(d, i)' /\ Works(e, i)' => d = e
<1>1. DOMAIN rows' = 1..Len(rows')
  BY LenProperties DEF Shape
<1>2. i \notin excused /\ ~ Excused(i)
  BY <1>1 DEF Noted, Documents
<1> QED
  BY <1>2 DEF Excused

\* What the step of another call, or of this call elsewhere, leaves as it was.
SameDocument(i) ==
  /\ rows'[i] = rows[i] /\ published'[i] = published[i]
  /\ Vectors(i)' = Vectors(i) /\ (i \in deleted' <=> i \in deleted)

LEMMA SameWork ==
  ASSUME NEW c \in Calls, NEW d \in Calls \ {c}, NEW i, Others(c)
  PROVE  /\ Works(d, i)' <=> Works(d, i)
         /\ Cleared(d, i)' <=> Cleared(d, i)
         /\ Uploads(d, i)' <=> Uploads(d, i)
         /\ SameDocument(i) => (WorkOK(d, i)' <=> WorkOK(d, i))
<1>1. pc'[d] = pc[d] /\ task'[d] = task[d]
  BY DEF Others
<1>2. Works(d, i)' <=> Works(d, i)
  BY <1>1 DEF Works
<1>3. Cleared(d, i)' <=> Cleared(d, i)
  BY <1>1, <1>2 DEF Cleared, At
<1>4. Uploads(d, i)' <=> Uploads(d, i)
  BY <1>1, <1>2 DEF Uploads
<1>5. ASSUME SameDocument(i) PROVE WorkOK(d, i)' <=> WorkOK(d, i)
  <2>1. rows'[i] = rows[i] /\ Vectors(i)' = Vectors(i)
    BY <1>5 DEF SameDocument
  <2>2. WriteOK(d, i)' <=> WriteOK(d, i)
    BY <1>1, <2>1 DEF WriteOK
  <2>3. Inserted(d, i)' = Inserted(d, i) /\ At(d)' = At(d)
    BY <1>1, <2>1 DEF Inserted, At
  <2> QED
    BY <1>1, <2>1, <2>2, <2>3 DEF WorkOK
<1> QED
  BY <1>2, <1>3, <1>4, <1>5

\* A step that leaves the document and does not undo what its call relies on.
LEMMA Undisturbed ==
  ASSUME Shape, Shape', NEW c \in Calls, Others(c), Noted,
         NEW i \in Documents', Agrees(i), SameDocument(i),
         Works(c, i)' => WorkOK(c, i)', Cleared(c, i) => Cleared(c, i)'
  PROVE  Agrees(i)'
<1>1. \A d, e \in Calls : Works(d, i)' /\ Works(e, i)' => d = e
  BY Alone
<1>2. ASSUME NEW d \in Calls, Works(d, i)' PROVE WorkOK(d, i)'
  <2>1. CASE d = c
    BY <1>2, <2>1
  <2>2. CASE d # c
    BY <1>2, <2>2, SameWork DEF Agrees
  <2> QED
    BY <2>1, <2>2
<1>3. (\A d \in Calls : ~ Cleared(d, i)') => \A d \in Calls : ~ Cleared(d, i)
  BY SameWork
<1>4. (\A v \in Vectors(i) : v.collection = rows[i].milvus_collection)'
  BY DEF Agrees, SameDocument
<1>5. (rows[i].status = "active" /\ (\A d \in Calls : ~ Cleared(d, i)) =>
        /\ published[i] # <<>>
        /\ Vectors(i) = {Inserted(published[i][Len(published[i])], i)})'
  BY <1>3 DEF Agrees, SameDocument, Inserted
<1>6. (i \in deleted => rows[i].status = "expired" /\ Vectors(i) = {})'
  BY DEF Agrees, SameDocument
<1> QED
  BY <1>1, <1>2, <1>4, <1>5, <1>6 DEF Agrees

\* A step of the one call at work on the document.
LEMMA OwnStep ==
  ASSUME Shape, Shape', NEW c \in Calls, Others(c), Noted, NEW i \in Documents',
         \A d \in Calls \ {c} : ~ Works(d, i),
         Works(c, i)' => WorkOK(c, i)',
         (\A v \in Vectors(i) : v.collection = rows[i].milvus_collection)',
         (rows[i].status = "active" /\ ~ Cleared(c, i) =>
           /\ published[i] # <<>>
           /\ Vectors(i) = {Inserted(published[i][Len(published[i])], i)})',
         (i \in deleted => rows[i].status = "expired" /\ Vectors(i) = {})'
  PROVE  Agrees(i)'
<1>1. \A d, e \in Calls : Works(d, i)' /\ Works(e, i)' => d = e
  BY Alone
<1>2. ASSUME NEW d \in Calls, Works(d, i)' PROVE WorkOK(d, i)'
  BY <1>2, SameWork
<1> QED
  BY <1>1, <1>2 DEF Agrees

-----------------------------------------------------------------------------
(* What is found of a document.                                            *)

\* No upload that was made active is forgotten.
PublishedGrows ==
  \A i \in 1..Len(rows) : PublishedOf(i) \subseteq PublishedOf(i)'

LEMMA FoundShrinks ==
  ASSUME NEW c \in Calls, Others(c), Hits(c)' \subseteq Hits(c) \cup vectors,
         NEW W, vectors' \subseteq vectors \cup W
  PROVE  \A v : Found(v)' => Found(v) \/ v \in W
<1>1. \A d \in Calls \ {c} : Hits(d)' = Hits(d)
  BY DEF Others, Hits
<1> QED
  BY <1>1 DEF Found

\* Nothing new is found, no upload starts, and the row does not become active.
LEMMA FoundKept ==
  ASSUME NEW i, FoundOK(i), PublishedOf(i) \subseteq PublishedOf(i)',
         \A v : Found(v)' /\ v.source_id = i => Found(v),
         rows'[i].status = "active" => rows[i].status = "active",
         \A d \in Calls : Uploads(d, i)' => Uploads(d, i)
  PROVE  FoundOK(i)'
BY DEF FoundOK

\* All that is found of an active document has been active.
LEMMA FoundActive ==
  ASSUME NEW i, FoundOK(i), PublishedOf(i) \subseteq PublishedOf(i)',
         \A v : Found(v)' /\ v.source_id = i => Found(v),
         rows[i].status = "active"
  PROVE  FoundOK(i)'
BY DEF FoundOK

-----------------------------------------------------------------------------
(* What the searches showed.                                               *)

LEMMA ResultsKept ==
  ASSUME Shape, Shape', NEW c \in Calls, Others(c), Noted, PublishedGrows,
         Len(rows) =< Len(rows'), Answered,
         ~ (pc'[c] = "end" /\ task'[c].kind = "search")
  PROVE  Answered'
<1>1. /\ 1..Len(rows) \subseteq 1..Len(rows') /\ excused \subseteq excused'
  BY LenProperties DEF Shape, Noted
<1>2. ASSUME NEW d \in Calls \ {c} PROVE ResultsOK(d)'
  <2>1. pc'[d] = pc[d] /\ task'[d] = task[d] /\ ResultsOK(d)
    BY DEF Others, Answered
  <2> QED
    BY <1>1, <2>1 DEF ResultsOK, PublishedGrows
<1>3. ResultsOK(c)'
  BY DEF ResultsOK
<1> QED
  BY <1>2, <1>3 DEF Answered

-----------------------------------------------------------------------------
(* Steps that leave the stores as they are.                                *)

\* What the call of such a step must show of a document.
ReadOK(c, i) ==
  /\ Works(c, i)' => WorkOK(c, i)'
  /\ Cleared(c, i) => Cleared(c, i)'
  /\ Uploads(c, i)' => Uploads(c, i) \/ rows[i].status = "active"

LEMMA ReadStep ==
  ASSUME KnowledgeInv, Shape', NEW c \in Calls, Others(c), Noted, StoresKept,
         Hits(c)' \subseteq Hits(c) \cup vectors,
         \A i \in Documents' : ReadOK(c, i)
  PROVE  Documented' /\ PublishedGrows /\ Len(rows) =< Len(rows')
<1>1. /\ PublishedGrows /\ Len(rows) =< Len(rows')
      /\ \A i \in Documents' : i \in Documents
  <2>1. Len(rows) \in Nat /\ rows' = rows /\ published' = published
    BY Rows DEF KnowledgeInv, StoresKept
  <2>2. excused \subseteq excused'
    BY DEF Noted
  <2> QED
    BY <2>1, <2>2 DEF PublishedGrows, PublishedOf, Documents
<1>2. \A v : Found(v)' => Found(v)
  <2> DEFINE none == {}
  <2>1. vectors' \subseteq vectors \cup none
    BY DEF StoresKept
  <2>2. \A v : v \notin none
    OBVIOUS
  <2> HIDE DEF none
  <2>3. \A v : Found(v)' => Found(v) \/ v \in none
    BY <2>1, FoundShrinks
  <2> QED
    BY <2>2, <2>3
<1>3. ASSUME NEW i \in Documents' PROVE Agrees(i)' /\ FoundOK(i)'
  <2>1. Agrees(i) /\ FoundOK(i) /\ ReadOK(c, i)
    BY <1>1 DEF KnowledgeInv, Documented
  <2>2. SameDocument(i)
    BY DEF StoresKept, SameDocument, Vectors
  <2>3. Agrees(i)'
    BY <2>1, <2>2, Undisturbed DEF KnowledgeInv, ReadOK
  <2>4. PublishedOf(i) \subseteq PublishedOf(i)'
    BY <2>2 DEF SameDocument, PublishedOf
  <2>5. FoundOK(i)'
    <3>1. CASE rows[i].status = "active"
      BY <1>2, <2>1, <2>4, <3>1, FoundActive
    <3>2. CASE rows[i].status # "active"
      <4>1. \A d \in Calls : Uploads(d, i)' => Uploads(d, i)
        BY <2>1, <3>2, SameWork DEF ReadOK
      <4> QED
        BY <1>2, <2>1, <2>2, <2>4, <4>1, FoundKept DEF SameDocument
    <3> QED
      BY <3>1, <3>2
  <2> QED
    BY <2>3, <2>5
<1> QED
  BY <1>1, <1>3 DEF Documented

\* And of a call whose step answers no search.
LEMMA QuietStep ==
  ASSUME KnowledgeInv, Shape', NEW c \in Calls, Others(c), Noted, StoresKept,
         Hits(c)' \subseteq Hits(c) \cup vectors,
         \A i \in Documents' : ReadOK(c, i),
         ~ (pc'[c] = "end" /\ task'[c].kind = "search")
  PROVE  Documented' /\ Answered'
BY ReadStep, ResultsKept DEF KnowledgeInv

LEMMA IngestStep ==
  ASSUME KnowledgeInv, NEW c \in Calls, NEW type \in Types, Ingest(c, type)
  PROVE  Shape' /\ Documented' /\ Answered'
<1>1. Shape' /\ StoresKept /\ Others(c) /\ Noted
  BY IngestShape DEF KnowledgeInv
<1>2. pc[c] = "idle"
  BY DEF Ingest, Goto
<1>3. /\ Hits(c)' \subseteq Hits(c) \cup vectors
      /\ ~ (pc'[c] = "end" /\ task'[c].kind = "search")
      /\ \A i \in Documents' : ReadOK(c, i)
  <2>1. CASE /\ pc' = [pc EXCEPT ![c] = "create"]
             /\ Set(c, [kind |-> "ingest", id |-> 0, type |-> type])
    <3>1. pc'[c] = "create" /\ task'[c].id = 0
      <4> DEFINE t == [kind |-> "ingest", id |-> 0, type |-> type]
      <4>1. Set(c, t) /\ t.id = 0 /\ "create" \in Labels /\ Shape
        BY <2>1 DEF KnowledgeInv, Labels
      <4> HIDE DEF t
      <4> QED
        BY <2>1, <4>1, Moved, Given
    <3>2. \A i \in Documents' : i # 0
      BY LenProperties, <1>1 DEF Documents, Shape
    <3> QED
      BY <1>2, <3>1, <3>2 DEF ReadOK, Works, Cleared, Uploads, Hits
  <2>2. ASSUME NEW i \in 1..Len(rows), rows[i].status = "active",
               pc' = [pc EXCEPT ![c] = "old"],
               Set(c, [kind |-> "ingest", id |-> i, type |-> type,
                       item |-> rows[i]])
        PROVE  /\ Hits(c)' \subseteq Hits(c) \cup vectors
               /\ ~ (pc'[c] = "end" /\ task'[c].kind = "search")
               /\ \A j \in Documents' : ReadOK(c, j)
    <3> DEFINE t == [kind |-> "ingest", id |-> i, type |-> type, item |-> rows[i]]
    <3>1. Set(c, t) /\ t.id = i /\ t.kind = "ingest" /\ t.item = rows[i]
      BY <2>2
    <3> HIDE DEF t
    <3>2. pc'[c] = "old" /\ task'[c] = t
      BY <2>2, <3>1, Moved, Given DEF KnowledgeInv, Labels
    <3>3. rows' = rows
      BY <1>1 DEF StoresKept
    <3>4. \A j : Works(c, j)' => j = i /\ WorkOK(c, j)'
      BY <2>2, <3>1, <3>2, <3>3 DEF Works, WorkOK, At
    <3> QED
      BY <1>2, <2>2, <3>2, <3>4 DEF ReadOK, Works, Cleared, Uploads, Hits
  <2> QED
    BY <2>1, <2>2, IngestTask DEF KnowledgeInv
<1> QED
  BY <1>1, <1>3, QuietStep

LEMMA UpdateStep ==
  ASSUME KnowledgeInv, NEW c \in Calls, NEW i \in DOMAIN rows,
         NEW changes \in Requests(c), Update(c, i, changes)
  PROVE  Shape' /\ Documented' /\ Answered'
<1>1. /\ Shape' /\ StoresKept /\ Others(c) /\ Noted
      /\ \/ pc'[c] = "end" /\ task'[c] = NoTask
         \/ /\ pc'[c] = "change"
            /\ task'[c] = [kind |-> "update", id |-> i,
                           type |-> rows[i].knowledge_type, item |-> rows[i],
                           changes |-> changes]
  BY UpdateShape DEF KnowledgeInv
<1>2. pc[c] = "idle" /\ rows' = rows
  BY <1>1 DEF Update, Goto, StoresKept
<1>3. ASSUME NEW j \in Documents' PROVE ReadOK(c, j)
  <2>1. ASSUME Works(c, j)' PROVE WorkOK(c, j)' /\ ~ Uploads(c, j)'
    <3>1. /\ pc'[c] = "change" /\ task'[c].kind = "update" /\ task'[c].item = rows[i]
          /\ i = j
      BY <1>1, <2>1 DEF Works
    <3>2. "status" \notin DOMAIN task'[c].changes
      BY <1>1, <2>1, <3>1, Alone DEF Excused, KnowledgeInv
    <3> QED
      BY <1>2, <3>1, <3>2 DEF WorkOK, At, Uploads
  <2> QED
    BY <1>2, <2>1 DEF ReadOK, Works, Cleared, Uploads
<1>4. /\ Hits(c)' \subseteq Hits(c) \cup vectors
      /\ ~ (pc'[c] = "end" /\ task'[c].kind = "search")
  BY <1>1 DEF Hits, NoTask
<1> QED
  BY <1>1, <1>3, <1>4, QuietStep

LEMMA DeleteStep ==
  ASSUME KnowledgeInv, NEW c \in Calls, NEW i \in DOMAIN rows, StartDelete(c, i)
  PROVE  Shape' /\ Documented' /\ Answered'
<1>1. /\ Shape' /\ StoresKept /\ Others(c) /\ Noted
      /\ \/ pc'[c] = "end" /\ task'[c] = NoTask
         \/ /\ pc'[c] = "old" /\ rows[i].status # "expired"
            /\ task'[c] = [kind |-> "delete", id |-> i,
                           type |-> rows[i].knowledge_type, item |-> rows[i]]
  BY DeleteShape DEF KnowledgeInv
<1>2. pc[c] = "idle" /\ rows' = rows
  BY <1>1 DEF StartDelete, Goto, StoresKept
<1>3. ASSUME NEW j \in Documents' PROVE ReadOK(c, j)
  <2>1. ASSUME Works(c, j)' PROVE WorkOK(c, j)' /\ ~ Uploads(c, j)'
    <3>1. /\ pc'[c] = "old" /\ task'[c].kind = "delete" /\ task'[c].item = rows[i]
          /\ i = j /\ rows[i].status # "expired"
      BY <1>1, <2>1 DEF Works
    <3> QED
      BY <1>2, <3>1 DEF WorkOK, At, Uploads
  <2> QED
    BY <1>2, <2>1 DEF ReadOK, Works, Cleared, Uploads
<1>4. /\ Hits(c)' \subseteq Hits(c) \cup vectors
      /\ ~ (pc'[c] = "end" /\ task'[c].kind = "search")
  BY <1>1 DEF Hits, NoTask
<1> QED
  BY <1>1, <1>3, <1>4, QuietStep

LEMMA SearchStep ==
  ASSUME KnowledgeInv, NEW c \in Calls, NEW k, Search(c, k) \/ SearchCollection(c, k)
  PROVE  Shape' /\ Documented' /\ Answered'
<1>1. /\ Shape' /\ StoresKept /\ Others(c) /\ Noted
      /\ pc'[c] \in {"hits", "rows"} /\ task'[c].kind = "search"
  BY SearchShape, SearchCollectionShape DEF KnowledgeInv
<1>2. Hits(c)' \subseteq Hits(c) \cup vectors
  <2>1. CASE Search(c, k)
    BY <2>1, SearchShape DEF KnowledgeInv, Hits
  <2>2. CASE SearchCollection(c, k)
    BY <2>2, SearchCollectionShape DEF KnowledgeInv, Hits
  <2> QED
    BY <2>1, <2>2
<1>3. \A i : ~ Works(c, i) /\ ~ Works(c, i)'
  <2>1. pc[c] = "idle" \/ (pc[c] = "hits" /\ task[c].kind = "search")
    BY DEF Search, SearchCollection, Goto, KnowledgeInv, Shape, TaskShape
  <2> QED
    BY <1>1, <2>1 DEF Works
<1>4. \A i \in Documents' : ReadOK(c, i)
  BY <1>3 DEF ReadOK, Cleared, Uploads
<1> QED
  BY <1>1, <1>2, <1>4, QuietStep

\* What is shown is active, so that all that was found of it has been active.
LEMMA AnswerStep ==
  ASSUME KnowledgeInv, NEW c \in Calls, Answer(c)
  PROVE  Shape' /\ Documented' /\ Answered'
<1>1. /\ Shape' /\ StoresKept /\ Others(c) /\ Noted
      /\ pc[c] = "rows" /\ pc'[c] = "end"
      /\ \A v \in task'[c].results : v \in task[c].hits /\ Shown(v)
  BY AnswerShape DEF KnowledgeInv
<1>2. task[c].kind = "search" /\ \A v \in task[c].hits : v.source_id \in 1..Len(rows)
  BY <1>1 DEF KnowledgeInv, Shape, TaskShape
<1>3. Documented' /\ PublishedGrows /\ Len(rows) =< Len(rows')
  <2>1. Hits(c)' \subseteq Hits(c) \cup vectors
    BY <1>1 DEF Hits
  <2>2. \A i \in Documents' : ReadOK(c, i)
    BY <1>1, <1>2 DEF ReadOK, Works, Cleared, Uploads
  <2> QED
    BY <1>1, <2>1, <2>2, ReadStep
<1>4. ResultsOK(c)'
  <2>1. ASSUME NEW v \in task'[c].results
        PROVE  /\ v.source_id \in 1..Len(rows)
               /\ v.source_id \in excused \/ v.content \in PublishedOf(v.source_id)
    <3>1. v \in task[c].hits /\ Shown(v) /\ v.source_id \in 1..Len(rows)
      BY <1>1, <1>2
    <3>2. Found(v) /\ rows[v.source_id].status = "active"
      BY <1>1, <3>1 DEF Found, Hits, Shown
    <3>3. v.source_id \notin excused => FoundOK(v.source_id)
      BY <3>1 DEF KnowledgeInv, Documented, Documents
    <3> QED
      BY <3>1, <3>2, <3>3 DEF FoundOK
  <2>2. rows' = rows /\ published' = published /\ excused \subseteq excused'
    BY <1>1 DEF StoresKept, Noted
  <2> QED
    BY <2>1, <2>2 DEF ResultsOK, PublishedOf
<1>5. ASSUME NEW d \in Calls \ {c} PROVE ResultsOK(d)'
  <2>1. pc'[d] = pc[d] /\ task'[d] = task[d] /\ ResultsOK(d)
    BY <1>1 DEF Others, KnowledgeInv, Answered
  <2>2. rows' = rows /\ published' = published /\ excused \subseteq excused'
    BY <1>1 DEF StoresKept, Noted
  <2> QED
    BY <2>1, <2>2 DEF ResultsOK, PublishedOf
<1> QED
  BY <1>1, <1>3, <1>4, <1>5 DEF Answered

LEMMA MergeStep ==
  ASSUME KnowledgeInv, NEW c \in Calls, Merge(c)
  PROVE  Shape' /\ Documented' /\ Answered'
<1>1. /\ Shape' /\ StoresKept /\ Others(c) /\ Noted
      /\ pc[c] \in {"draft", "undo", "publish", "change", "mark"}
      /\ pc'[c] = "write" /\ task'[c].kind = task[c].kind
      /\ task'[c].id = task[c].id /\ task'[c].type = task[c].type
      /\ task'[c].step = pc[c] /\ task'[c].row \in Row
      /\ task'[c].row = Updated(task[c].item, Changes(c))
      /\ task'[c].columns =
           {f \in Fields : task'[c].row[f] # rows[task[c].id][f]}
  BY MergeShape DEF KnowledgeInv
<1>2. /\ task'[c].row = Updated(task[c].item, Changes(c))
      /\ pc[c] = "draft" =>
           /\ task'[c].row.status = "draft"
           /\ task'[c].row.milvus_collection = COLLECTION_BY_TYPE[task[c].type]
      /\ pc[c] # "draft" =>
           task'[c].row.milvus_collection = task[c].item.milvus_collection
      /\ pc[c] = "undo" => task'[c].row.status = "draft"
      /\ pc[c] = "publish" => task'[c].row.status = "active"
      /\ pc[c] = "change" /\ "status" \notin DOMAIN task[c].changes =>
           task'[c].row.status = task[c].item.status
      /\ pc[c] = "mark" => task'[c].row.status = "expired"
  BY <1>1, MergeChanges DEF KnowledgeInv
<1>3. \A i : /\ Works(c, i)' <=> Works(c, i)
             /\ Uploads(c, i)' <=> Uploads(c, i)
             /\ Cleared(c, i) => Cleared(c, i)'
  BY <1>1 DEF Works, Uploads, Cleared, At
<1>4. ASSUME NEW i \in Documents', Works(c, i)' PROVE WorkOK(c, i)'
  <2>1. rows' = rows /\ vectors' = vectors
    BY <1>1 DEF StoresKept
  <2>2. i \in Documents
    BY <1>1, <2>1, Alone DEF Documents, KnowledgeInv
  <2>3. WorkOK(c, i) /\ task[c].id = i
    BY <1>3, <1>4, <2>2 DEF KnowledgeInv, Documented, Agrees, Works
  <2>4. task[c].item = rows[i] /\ pc[c] # "write" /\ At(c)' = At(c) /\ At(c) = pc[c]
    BY <1>1, <2>3 DEF WorkOK, At
  <2>5. WriteOK(c, i)'
    <3>1. pc[c] = "change" => task'[c].row.status = rows[i].status
      BY <1>2, <2>3, <2>4 DEF WorkOK
    <3> QED
      BY <1>1, <1>2, <2>1, <2>3, <2>4, <3>1 DEF WriteOK
  <2>6. Inserted(c, i)' = Inserted(c, i) /\ Vectors(i)' = Vectors(i)
    BY <2>1 DEF Inserted, Vectors
  <2> QED
    BY <1>1, <2>1, <2>3, <2>4, <2>5, <2>6 DEF WorkOK
<1>5. \A i \in Documents' : ReadOK(c, i)
  BY <1>3, <1>4 DEF ReadOK
<1>6. /\ Hits(c)' \subseteq Hits(c) \cup vectors
      /\ ~ (pc'[c] = "end" /\ task'[c].kind = "search")
  BY <1>1 DEF Hits
<1> QED
  BY <1>1, <1>5, <1>6, QuietStep

-----------------------------------------------------------------------------
(* Steps that change vectors.                                              *)

\* What the call at work on document i knows, and what is known of it.
LEMMA OwnDocument ==
  ASSUME KnowledgeInv, Shape', Noted, Len(rows') = Len(rows), NEW c \in Calls,
         NEW i \in Documents', Works(c, i)
  PROVE  /\ i \in Documents /\ Agrees(i) /\ FoundOK(i) /\ WorkOK(c, i)
         /\ \A d \in Calls \ {c} : ~ Works(d, i)
<1>1. i \in Documents
  BY Alone DEF Documents, KnowledgeInv
<1> QED
  BY <1>1 DEF KnowledgeInv, Documented, Agrees

LEMMA VectorStep ==
  ASSUME KnowledgeInv, Shape', NEW c \in Calls, Others(c), Noted,
         UNCHANGED <<rows, published, deleted>>,
         pc[c] \in {"old", "insert"}, Delete(c) \/ (pc[c] = "insert" /\ Insert(c)),
         pc'[c] \notin {"hits", "rows"},
         task'[c] = task[c] \/ (pc'[c] = "end" /\ task'[c].kind # "search"),
         \A i \in Documents' : task[c].id = i => Agrees(i)'
  PROVE  Documented' /\ Answered'
<1>1. /\ task[c].kind \in {"ingest", "delete"}
      /\ \A i : Works(c, i) <=> task[c].id = i
      /\ \A i : Works(c, i)' => Works(c, i)
      /\ \A i : Uploads(c, i)' => Uploads(c, i)
  <2>1. task[c].kind \in {"ingest", "delete"}
    BY DEF KnowledgeInv, Shape, TaskShape, Uploading
  <2>2. \A i : Works(c, i) <=> task[c].id = i
    BY <2>1 DEF Works
  <2>3. \A i : Works(c, i)' => Works(c, i) /\ task'[c] = task[c]
    BY <2>1, <2>2 DEF Works
  <2> QED
    BY <2>1, <2>2, <2>3 DEF Uploads
<1>2. PublishedGrows /\ Len(rows') = Len(rows) /\ Len(rows) =< Len(rows')
  BY Rows DEF KnowledgeInv, PublishedGrows, PublishedOf
<1>3. ASSUME NEW i \in Documents' PROVE Agrees(i)' /\ FoundOK(i)'
  <2>1. i \in Documents /\ Agrees(i) /\ FoundOK(i)
    BY <1>2, Alone DEF Documents, KnowledgeInv, Documented
  <2>2. Agrees(i)'
    <3>1. CASE task[c].id = i
      BY <3>1
    <3>2. CASE task[c].id # i
      <4>1. SameDocument(i)
        BY <3>2 DEF SameDocument, Vectors, Delete, Insert
      <4>2. ~ Works(c, i) /\ ~ Works(c, i)' /\ ~ Cleared(c, i)
        BY <1>1, <3>2 DEF Cleared
      <4> QED
        BY <2>1, <4>1, <4>2, Undisturbed DEF KnowledgeInv
    <3> QED
      BY <3>1, <3>2
  <2>3. \A d \in Calls : Uploads(d, i)' => Uploads(d, i)
    BY <1>1, SameWork
  <2>4. rows'[i] = rows[i] /\ PublishedOf(i)' = PublishedOf(i)
    BY DEF PublishedOf
  <2>5. Hits(c)' \subseteq Hits(c) \cup vectors
    BY DEF Hits
  <2>6. CASE \A v \in vectors' : v.source_id = i => v \in vectors
    <3> DEFINE W == {v \in vectors' : v \notin vectors}
    <3>1. vectors' \subseteq vectors \cup W /\ \A v \in W : v.source_id # i
      BY <2>6
    <3> HIDE DEF W
    <3>2. \A v : Found(v)' => Found(v) \/ v \in W
      BY <2>5, <3>1, FoundShrinks
    <3> QED
      BY <2>1, <2>2, <2>3, <2>4, <3>1, <3>2, FoundKept
  <2>7. CASE pc[c] = "insert" /\ Insert(c) /\ task[c].id = i
    <3> DEFINE W == {[collection |-> COLLECTION_BY_TYPE[task[c].type],
                      source_id |-> i, content |-> c]}
    <3>1. vectors' \subseteq vectors \cup W /\ \A v \in W : v.content = c
      BY <2>7 DEF Insert
    <3> HIDE DEF W
    <3>2. \A v : Found(v)' => Found(v) \/ v \in W
      BY <2>5, <3>1, FoundShrinks
    <3>3. Works(c, i)
      BY <1>1, <2>7
    <3>4. rows[i].status = "draft" /\ \A d \in Calls : Uploads(d, i) => d = c
      BY <1>2, <2>7, <3>3, OwnDocument DEF WorkOK, At, Uploads
    <3>5. \A v : v \in W => v.content = c
      BY <3>1
    <3> QED
      BY <2>1, <2>2, <2>3, <2>4, <3>2, <3>4, <3>5 DEF FoundOK
  <2> QED
    BY <2>6, <2>7 DEF Delete, Insert
<1>4. ~ (pc'[c] = "end" /\ task'[c].kind = "search")
  BY <1>1
<1> QED
  BY <1>2, <1>3, <1>4, ResultsKept DEF KnowledgeInv, Documented

\* All vectors of the document are in the collection its row names.
LEMMA DeletesAll ==
  ASSUME KnowledgeInv, NEW c \in Calls, NEW i, Agrees(i), WorkOK(c, i),
         pc[c] = "old", task[c].id = i, Delete(c)
  PROVE  Vectors(i)' = {}
<1>1. \A v \in Vectors(i) : v.collection = task[c].item.milvus_collection
  BY DEF Agrees, WorkOK
<1> QED
  BY <1>1 DEF Delete, OldCollection, Vectors

LEMMA DeleteVectorsStep ==
  ASSUME KnowledgeInv, NEW c \in Calls, DeleteVectors(c)
  PROVE  Shape' /\ Documented' /\ Answered'
<1>1. /\ Shape' /\ Others(c) /\ Noted /\ Delete(c)
      /\ UNCHANGED <<rows, task, published, deleted>> /\ pc[c] = "old"
      /\ pc'[c] = IF task[c].kind = "ingest" THEN "draft" ELSE "mark"
  BY DeleteVectorsShape DEF KnowledgeInv
<1>2. ASSUME NEW i \in Documents', task[c].id = i PROVE Agrees(i)'
  <2>1. Works(c, i)
    BY <1>1, <1>2 DEF KnowledgeInv, Shape, TaskShape, Works
  <2>2. /\ Agrees(i) /\ WorkOK(c, i)
        /\ \A d \in Calls \ {c} : ~ Works(d, i)
    BY <1>1, <1>2, <2>1, OwnDocument
  <2>3. Vectors(i)' = {}
    BY <1>1, <1>2, <2>2, DeletesAll
  <2>4. rows'[i] = rows[i] /\ task'[c] = task[c]
    BY <1>1
  <2>5. /\ task[c].item = rows[i] /\ rows[i].status # "expired"
        /\ task[c].kind = "ingest" => rows[i].status = "active"
    BY <1>1, <2>2 DEF WorkOK, At
  <2>6. WorkOK(c, i)'
    BY <1>1, <2>3, <2>4, <2>5 DEF WorkOK, At
  <2>7. Cleared(c, i)'
    BY <1>1, <2>1, <2>4 DEF Cleared, Works, At
  <2>8. i \notin deleted'
    BY <1>1, <2>2, <2>5 DEF Agrees
  <2> QED
    BY <1>1, <1>2, <2>2, <2>3, <2>6, <2>7, <2>8, OwnStep DEF KnowledgeInv
<1>3. Documented' /\ Answered'
  BY <1>1, <1>2, VectorStep
<1> QED
  BY <1>1, <1>3

\* A vector is inserted where the row says.
LEMMA InsertsOne ==
  ASSUME KnowledgeInv, NEW c \in Calls, NEW i, WorkOK(c, i),
         pc[c] = "insert", task[c].id = i, Insert(c)
  PROVE  Vectors(i)' = {Inserted(c, i)}
<1>1. Vectors(i) = {} /\ COLLECTION_BY_TYPE[task[c].type] = rows[i].milvus_collection
  BY DEF WorkOK, At
<1>2. vectors' = vectors \cup {Inserted(c, i)} /\ Inserted(c, i).source_id = i
  BY <1>1 DEF Insert, Inserted
<1> HIDE DEF Inserted
<1> QED
  BY <1>1, <1>2 DEF Vectors

LEMMA InsertedAgrees ==
  ASSUME KnowledgeInv, Shape', NEW c \in Calls, Others(c), Noted, Insert(c),
         UNCHANGED <<rows, published, deleted>>, pc[c] = "insert",
         \/ pc'[c] \in {"publish", "undo"} /\ task'[c] = task[c]
         \/ pc'[c] = "end",
         NEW i \in Documents', task[c].id = i
  PROVE  Agrees(i)'
<1>1. Works(c, i)
  BY DEF KnowledgeInv, Shape, TaskShape, Works, Uploading
<1>2. /\ Agrees(i) /\ WorkOK(c, i)
      /\ \A d \in Calls \ {c} : ~ Works(d, i)
  BY <1>1, OwnDocument
<1>3. Vectors(i)' = {Inserted(c, i)}
  BY <1>2, InsertsOne
<1>4. rows'[i] = rows[i] /\ Inserted(c, i)' = Inserted(c, i)
  BY DEF Inserted
<1>5. /\ task[c].item = rows[i] /\ rows[i].status = "draft"
      /\ rows[i].milvus_collection = COLLECTION_BY_TYPE[task[c].type]
  BY <1>2 DEF WorkOK, At
<1>6. Works(c, i)' => WorkOK(c, i)'
  BY <1>3, <1>4, <1>5 DEF WorkOK, At, Works
<1>7. (\A v \in Vectors(i) : v.collection = rows[i].milvus_collection)'
  BY <1>3, <1>4 DEF Inserted
<1>8. i \notin deleted' /\ rows'[i].status # "active"
  BY <1>2, <1>4, <1>5 DEF Agrees
<1> QED
  BY <1>2, <1>6, <1>7, <1>8, OwnStep DEF KnowledgeInv

LEMMA InsertVectorsStep ==
  ASSUME KnowledgeInv, NEW c \in Calls, InsertVectors(c)
  PROVE  Shape' /\ Documented' /\ Answered'
<1>1. /\ Shape' /\ Others(c) /\ Noted /\ Insert(c)
      /\ UNCHANGED <<rows, task, published, deleted>>
      /\ pc[c] = "insert" /\ pc'[c] = "publish"
  BY InsertVectorsShape DEF KnowledgeInv
<1>2. \A i \in Documents' : task[c].id = i => Agrees(i)'
  BY <1>1, InsertedAgrees
<1>3. Documented' /\ Answered'
  BY <1>1, <1>2, VectorStep
<1> QED
  BY <1>1, <1>3

-----------------------------------------------------------------------------
(* Steps that break off.                                                   *)

LEMMA FaultStep ==
  ASSUME KnowledgeInv, NEW c \in Calls, Fault(c) \/ Stop(c)
  PROVE  Shape' /\ Documented' /\ Answered'
<1>1. /\ Shape' /\ Others(c) /\ Noted /\ LeftBehind(c) /\ BrokenOff
      /\ UNCHANGED <<rows, published, deleted>>
      /\ pc[c] \notin {"idle", "end"}
      /\ \/ pc[c] = "insert" /\ pc'[c] = "undo" /\ task'[c] = task[c]
         \/ pc'[c] = "end" /\ task'[c] = NoTask
  BY FaultShape DEF KnowledgeInv
<1>2. /\ ~ (pc'[c] = "end" /\ task'[c].kind = "search")
      /\ Hits(c)' \subseteq Hits(c) \cup vectors /\ pc'[c] \notin {"hits", "rows"}
  BY <1>1 DEF NoTask, Hits
<1>3. ASSUME NEW i \in Documents', Works(c, i), pc'[c] = "end"
      PROVE  ~ Cleared(c, i) /\ ~ (pc[c] = "old" /\ vectors' # vectors)
  <2>1. ~ BrokeOff(i)
    BY <1>1, Alone DEF Excused, KnowledgeInv
  <2> QED
    BY <1>1, <1>3, <2>1 DEF BrokeOff, BrokenOff, Cleared, At
<1>4. CASE UNCHANGED vectors
  <2>1. StoresKept
    BY <1>1, <1>4 DEF StoresKept
  <2>2. ASSUME NEW i \in Documents' PROVE ReadOK(c, i)
    <3>1. CASE pc'[c] = "end" /\ task'[c] = NoTask
      BY <1>3, <3>1 DEF ReadOK, Works, Cleared, Uploads
    <3>2. CASE pc[c] = "insert" /\ pc'[c] = "undo" /\ task'[c] = task[c]
      <4>1. /\ Works(c, i)' <=> Works(c, i)
            /\ Uploads(c, i)' <=> Uploads(c, i)
            /\ ~ Cleared(c, i)
        BY <3>2 DEF Works, Uploads, Cleared, At
      <4>2. ASSUME Works(c, i) PROVE WorkOK(c, i)'
        <5>1. rows'[i] = rows[i] /\ Vectors(i)' = Vectors(i)
          BY <1>1, <1>4 DEF Vectors
        <5>2. WorkOK(c, i)
          BY <1>1, <4>2, OwnDocument
        <5> QED
          BY <3>2, <5>1, <5>2 DEF WorkOK, At
      <4> QED
        BY <4>1, <4>2 DEF ReadOK
    <3> QED
      BY <1>1, <3>1, <3>2
  <2> QED
    BY <1>1, <1>2, <2>1, <2>2, QuietStep
<1>5. CASE pc[c] = "old" /\ Delete(c) /\ vectors' # vectors
  <2>1. pc'[c] = "end" /\ task'[c] = NoTask
    BY <1>1, <1>5
  <2>2. Works(c, task[c].id)
    BY <1>5 DEF KnowledgeInv, Shape, TaskShape, Works
  <2>3. task[c].id \notin Documents'
    BY <1>3, <1>5, <2>1, <2>2
  <2>4. Documented' /\ Answered'
    BY <1>1, <1>2, <1>5, <2>1, <2>3, VectorStep DEF NoTask
  <2> QED
    BY <1>1, <2>4
<1>6. CASE pc[c] = "insert" /\ Insert(c)
  <2>1. \A i \in Documents' : task[c].id = i => Agrees(i)'
    BY <1>1, <1>6, InsertedAgrees
  <2>2. Documented' /\ Answered'
    BY <1>1, <1>2, <1>6, <2>1, VectorStep DEF NoTask
  <2> QED
    BY <1>1, <2>2
<1> QED
  BY <1>1, <1>4, <1>5, <1>6 DEF LeftBehind

-----------------------------------------------------------------------------
(* A new document.                                                         *)

\* Calls work on documents that exist.
LEMMA WorksHere ==
  ASSUME Shape, NEW c \in Calls, NEW i, Works(c, i)
  PROVE  i \in 1..Len(rows) \/ (pc[c] = "create" /\ i = 0)
<1>1. TaskShape(c) /\ pc[c] \in Labels
  BY DEF Shape
<1> QED
  BY <1>1 DEF TaskShape, Works, Labels, Uploading

LEMMA CreateStep ==
  ASSUME KnowledgeInv, NEW c \in Calls, Create(c)
  PROVE  Shape' /\ Documented' /\ Answered'
<1> DEFINE n == Len(rows')
<1>1. /\ Shape' /\ Others(c) /\ Noted /\ pc'[c] = "insert"
      /\ UNCHANGED <<vectors, deleted>>
      /\ n = Len(rows) + 1 /\ Len(rows) \in Nat
      /\ \A i \in 1..Len(rows) : rows'[i] = rows[i] /\ published'[i] = published[i]
      /\ rows'[n].status = "draft"
      /\ rows'[n].milvus_collection = COLLECTION_BY_TYPE[task'[c].type]
      /\ task'[c].id = n /\ task'[c].item = rows'[n]
      /\ task'[c].kind = "ingest"
  BY CreateShape DEF KnowledgeInv
<1>2. pc[c] = "create" /\ task[c].id = 0
  BY DEF Create, Goto, KnowledgeInv, Shape, TaskShape
<1>3. PublishedGrows /\ Len(rows) =< Len(rows')
  BY <1>1 DEF PublishedGrows, PublishedOf
<1>4. \A v : Found(v)' => Found(v)
  <2>1. \A d \in Calls : Hits(d)' \subseteq Hits(d)
    BY <1>1 DEF Others, Hits
  <2> QED
    BY <1>1, <2>1 DEF Found
<1>5. ASSUME NEW i \in Documents', i \in 1..Len(rows)
      PROVE  Agrees(i)' /\ FoundOK(i)'
  <2>1. i \in Documents /\ Agrees(i) /\ FoundOK(i)
    BY <1>1, <1>5, Alone DEF Documents, KnowledgeInv, Documented
  <2>2. SameDocument(i)
    BY <1>1, <1>5 DEF SameDocument, Vectors
  <2>3. ~ Works(c, i) /\ ~ Works(c, i)' /\ ~ Cleared(c, i)
    BY <1>1, <1>2, <1>5 DEF Works, Cleared
  <2>4. Agrees(i)'
    BY <1>1, <2>1, <2>2, <2>3, Undisturbed DEF KnowledgeInv
  <2>5. \A d \in Calls : Uploads(d, i)' => Uploads(d, i)
    BY <1>1, <2>3, SameWork DEF Uploads
  <2>6. FoundOK(i)'
    BY <1>3, <1>4, <1>5, <2>1, <2>2, <2>5, FoundKept
       DEF SameDocument, PublishedGrows
  <2> QED
    BY <2>4, <2>6
<1>6. ASSUME NEW i \in Documents', i \notin 1..Len(rows)
      PROVE  Agrees(i)' /\ FoundOK(i)'
  <2>1. i = Len(rows) + 1 /\ i = Len(rows')
    BY <1>1, <1>6 DEF Documents
  <2>2. \A d \in Calls \ {c} : ~ Works(d, i)
    BY <1>1, <1>6, <2>1, WorksHere DEF KnowledgeInv
  <2>3. \A v : Found(v) => v.source_id \in 1..Len(rows)
    BY DEF KnowledgeInv, Shape, TaskShape, Found, Hits
  <2>4. Vectors(i)' = {} /\ FoundOK(i)'
    BY <1>1, <1>4, <1>6, <2>3 DEF Vectors, FoundOK, Found
  <2>5. WorkOK(c, i)'
    BY <1>1, <2>1, <2>4 DEF WorkOK, At
  <2>6. rows'[i].status # "active" /\ i \notin deleted'
    BY <1>1, <1>6, <2>1 DEF KnowledgeInv, Shape
  <2> QED
    BY <1>1, <2>2, <2>4, <2>5, <2>6, OwnStep DEF KnowledgeInv
<1>7. Documented'
  BY <1>5, <1>6 DEF Documented
<1>8. Answered'
  BY <1>1, <1>3, ResultsKept DEF KnowledgeInv
<1> QED
  BY <1>1, <1>7, <1>8

-----------------------------------------------------------------------------
(* A write.                                                                *)

\* The columns that differ make the row what the call has merged.
LEMMA WritesAll ==
  ASSUME Shape, NEW c \in Calls, NEW i, pc[c] = "write", task[c].id = i,
         WriteOK(c, i)
  PROVE  Written(c) = task[c].row
<1>1. task[c].row \in Row /\ rows[i] \in Row
  BY Rows DEF Shape, TaskShape
<1>2. Written(c) = [f \in Fields |-> IF task[c].row[f] # rows[i][f]
                                     THEN task[c].row[f] ELSE rows[i][f]]
  BY <1>1 DEF Written, WriteOK, Row, Fields
<1>3. task[c].row = [f \in Fields |-> task[c].row[f]]
  BY <1>1 DEF Row, Fields
<1> QED
  BY <1>2, <1>3

LEMMA WritePublished ==
  ASSUME Shape, NEW c \in Calls, Write(c)
  PROVE  /\ PublishedGrows
         /\ task[c].step = "publish" =>
              \A i : i = task[c].id =>
                /\ c \in PublishedOf(i)' /\ published'[i] # <<>>
                /\ published'[i][Len(published'[i])] = c
<1>1. /\ task[c].id \in 1..Len(rows)
      /\ \A i \in 1..Len(rows) : i # task[c].id => published'[i] = published[i]
      /\ IF task[c].step = "publish"
         THEN published'[task[c].id] = Append(published[task[c].id], c)
         ELSE published' = published
  BY WriteShape
<1>2. CASE task[c].step = "publish"
  <2> DEFINE i == task[c].id
             s == published[i]
  <2>1. i \in 1..Len(rows) /\ s \in Seq(Titles) /\ c \in Titles
        /\ published'[i] = Append(s, c)
    BY <1>1, <1>2, Rows DEF Titles
  <2> HIDE DEF s
  <2>2. /\ Len(Append(s, c)) = Len(s) + 1 /\ Len(s) \in Nat
        /\ Append(s, c)[Len(s) + 1] = c
        /\ \A n \in 1..Len(s) : Append(s, c)[n] = s[n]
        /\ DOMAIN s = 1..Len(s) /\ DOMAIN Append(s, c) = 1..Len(Append(s, c))
    BY <2>1, AppendProperties, LenProperties
  <2>3. \A n \in DOMAIN s : n \in DOMAIN Append(s, c) /\ Append(s, c)[n] = s[n]
    BY <2>2
  <2>4. Len(Append(s, c)) \in DOMAIN Append(s, c) /\ Append(s, c)[Len(Append(s, c))] = c
    BY <2>2
  <2>5. Append(s, c) # <<>>
    BY <2>1, AppendProperties
  <2>6. ASSUME NEW j \in 1..Len(rows), j = i
        PROVE  /\ PublishedOf(j) \subseteq PublishedOf(j)' /\ c \in PublishedOf(j)'
               /\ published'[j] # <<>> /\ published'[j][Len(published'[j])] = c
    <3>1. published[j] = s /\ published'[j] = Append(s, c)
      BY <2>1, <2>6 DEF s
    <3> HIDE DEF i
    <3> QED
      BY <2>3, <2>4, <2>5, <3>1 DEF PublishedOf
  <2>7. ASSUME NEW j \in 1..Len(rows), j # i
        PROVE  PublishedOf(j) \subseteq PublishedOf(j)'
    BY <1>1, <2>7 DEF PublishedOf
  <2> QED
    BY <2>1, <2>6, <2>7 DEF PublishedGrows
<1>3. CASE task[c].step # "publish"
  BY <1>1, <1>3 DEF PublishedGrows, PublishedOf
<1> QED
  BY <1>2, <1>3

LEMMA WrittenAgrees ==
  ASSUME KnowledgeInv, NEW c \in Calls, Write(c), NEW i \in Documents',
         task[c].id = i
  PROVE  Agrees(i)' /\ FoundOK(i)'
<1>1. /\ Shape' /\ Others(c) /\ Noted /\ pc[c] = "write"
      /\ UNCHANGED vectors
      /\ i \in 1..Len(rows) /\ Len(rows') = Len(rows)
      /\ rows'[i] = Written(c)
      /\ IF task[c].step = "publish" THEN published'[i] = Append(published[i], c)
         ELSE published' = published
      /\ deleted' = IF task[c].step = "mark" THEN deleted \cup {i} ELSE deleted
      /\ IF task[c].step = "draft"
         THEN /\ pc'[c] = "insert"
              /\ task'[c] = [kind |-> "ingest", id |-> i,
                             type |-> task[c].type, item |-> Written(c)]
         ELSE pc'[c] = "end" /\ task'[c] = NoTask
  BY WriteShape DEF KnowledgeInv
<1>2. /\ task[c].step \in {"draft", "undo", "publish", "change", "mark"}
      /\ task[c].kind = KindOf(task[c].step) /\ task[c].kind # "search"
      /\ At(c) = task[c].step
  BY <1>1 DEF KnowledgeInv, Shape, TaskShape, KindOf, At
<1>3. Works(c, i)
  BY <1>1, <1>2 DEF Works
<1>4. /\ Agrees(i) /\ FoundOK(i) /\ WorkOK(c, i)
      /\ \A d \in Calls \ {c} : ~ Works(d, i)
  BY <1>1, <1>3, OwnDocument
<1>5. WriteOK(c, i) /\ rows'[i] = task[c].row
  BY <1>1, <1>4, WritesAll DEF WorkOK, KnowledgeInv
<1>6. Vectors(i)' = Vectors(i)
  BY <1>1 DEF Vectors
<1>7. /\ PublishedOf(i) \subseteq PublishedOf(i)'
      /\ task[c].step = "publish" =>
           /\ c \in PublishedOf(i)' /\ published'[i] # <<>>
           /\ published'[i][Len(published'[i])] = c
  BY <1>1, WritePublished DEF KnowledgeInv, PublishedGrows
<1>8. \A v : Found(v)' => Found(v)
  <2>1. \A d \in Calls : Hits(d)' \subseteq Hits(d)
    BY <1>1 DEF Others, Hits
  <2> QED
    BY <1>1, <2>1 DEF Found
<1>9. ~ Cleared(c, i)'
  BY <1>1 DEF Cleared, At, Works
<1>10. task[c].step # "draft" => /\ rows'[i].milvus_collection = rows[i].milvus_collection
                                 /\ ~ Works(c, i)'
                                 /\ \A d \in Calls : Uploads(d, i)' => Uploads(d, i)
  <2>1. ASSUME task[c].step # "draft" PROVE ~ Works(c, i)'
    BY <1>1, <2>1 DEF Works
  <2> QED
    BY <1>1, <1>5, <2>1, SameWork DEF WriteOK, Uploads
<1>11. CASE task[c].step = "draft"
  <2>1. /\ rows[i].status = "active" /\ Vectors(i)' = {}
        /\ rows'[i].status = "draft"
        /\ rows'[i].milvus_collection = COLLECTION_BY_TYPE[task[c].type]
        /\ i \notin deleted'
    BY SMTT(30), <1>1, <1>2, <1>4, <1>5, <1>6, <1>11 DEF WorkOK, WriteOK, Agrees
  <2>2. WorkOK(c, i)'
    <3>1. pc'[c] = "insert" /\ task'[c].type = task[c].type /\ task'[c].item = rows'[i]
      BY <1>1, <1>11
    <3> QED
      BY <2>1, <3>1 DEF WorkOK, At
  <2>3. Agrees(i)'
    BY <1>1, <1>4, <2>1, <2>2, OwnStep DEF KnowledgeInv
  <2> QED
    BY <1>4, <1>7, <1>8, <2>1, <2>3, FoundActive
<1>12. CASE task[c].step = "publish"
  <2>1. /\ Vectors(i)' = {Inserted(c, i)} /\ rows[i].status = "draft"
        /\ rows'[i].milvus_collection = rows[i].milvus_collection
        /\ i \notin deleted'
    BY <1>1, <1>2, <1>4, <1>6, <1>10, <1>12 DEF WorkOK, Agrees
  <2>2. Inserted(c, i)' = Inserted(c, i)
    BY <2>1 DEF Inserted
  <2>3. (\A v \in Vectors(i) : v.collection = rows[i].milvus_collection)'
    BY <1>6, <2>1, <1>4 DEF Agrees
  <2>4. /\ published'[i] # <<>>
        /\ Vectors(i)' = {Inserted(published[i][Len(published[i])], i)'}
    BY <1>7, <1>12, <2>1, <2>2
  <2>5. Agrees(i)'
    BY <1>1, <1>4, <1>10, <1>12, <2>1, <2>3, <2>4, OwnStep DEF KnowledgeInv
  <2>6. ASSUME NEW v, Found(v)', v.source_id = i PROVE v.content \in PublishedOf(i)'
    <3>1. Uploads(c, i)
      BY <1>2, <1>3, <1>12 DEF Uploads, KindOf
    <3>2. v.content \in PublishedOf(i) \/ v.content = c
      BY <1>4, <1>8, <2>6, <3>1 DEF FoundOK
    <3> QED
      BY <1>7, <1>12, <3>2
  <2> QED
    BY <2>5, <2>6 DEF FoundOK
<1>13. CASE task[c].step \in {"undo", "change", "mark"}
  <2>1. /\ rows'[i].milvus_collection = rows[i].milvus_collection
        /\ ~ Works(c, i)' /\ published'[i] = published[i]
    BY <1>1, <1>10, <1>13
  <2>2. (\A v \in Vectors(i) : v.collection = rows[i].milvus_collection)'
    BY <1>4, <1>6, <2>1 DEF Agrees
  <2>3. CASE task[c].step \in {"undo", "mark"}
    <3>1. /\ rows'[i].status # "active"
          /\ i \in deleted' => rows'[i].status = "expired" /\ Vectors(i)' = {}
      BY SMTT(30), <1>1, <1>2, <1>4, <1>5, <1>6, <2>3 DEF WorkOK, WriteOK, Agrees
    <3>2. Agrees(i)'
      BY <1>1, <1>4, <2>1, <2>2, <3>1, OwnStep DEF KnowledgeInv
    <3> QED
      BY <1>4, <1>7, <1>8, <1>10, <1>13, <3>1, <3>2, FoundKept
  <2>4. CASE task[c].step = "change"
    <3>1. rows'[i].status = rows[i].status /\ deleted' = deleted
      BY <1>1, <1>5, <2>4 DEF WriteOK
    <3>2. \A d \in Calls : ~ Cleared(d, i)
      BY <1>2, <1>4, <2>4 DEF Cleared
    <3>3. (rows[i].status = "active" =>
            /\ published[i] # <<>>
            /\ Vectors(i) = {Inserted(published[i][Len(published[i])], i)})'
      BY <1>4, <1>6, <2>1, <3>1, <3>2 DEF Agrees, Inserted
    <3>4. (i \in deleted => rows[i].status = "expired" /\ Vectors(i) = {})'
      BY <1>4, <1>6, <3>1 DEF Agrees
    <3>5. Agrees(i)'
      BY <1>1, <1>4, <2>1, <2>2, <3>3, <3>4, OwnStep DEF KnowledgeInv
    <3> QED
      BY <1>4, <1>7, <1>8, <1>10, <1>13, <3>1, <3>5, FoundKept
  <2> QED
    BY <1>13, <2>3, <2>4
<1> QED
  BY <1>2, <1>11, <1>12, <1>13

LEMMA WriteStep ==
  ASSUME KnowledgeInv, NEW c \in Calls, Write(c)
  PROVE  Shape' /\ Documented' /\ Answered'
<1>1. /\ Shape' /\ Others(c) /\ Noted /\ pc[c] = "write"
      /\ UNCHANGED vectors
      /\ Len(rows') = Len(rows)
      /\ \A i \in 1..Len(rows) : i # task[c].id =>
           /\ rows'[i] = rows[i] /\ published'[i] = published[i]
           /\ i \in deleted' <=> i \in deleted
      /\ \/ pc'[c] = "insert" /\ task'[c].id = task[c].id
         \/ pc'[c] = "end" /\ task'[c] = NoTask
  <2>1. /\ Shape /\ Len(rows') = Len(rows)
        /\ IF task[c].step = "draft"
           THEN /\ pc'[c] = "insert"
                /\ task'[c] = [kind |-> "ingest", id |-> task[c].id,
                               type |-> task[c].type, item |-> Written(c)]
           ELSE pc'[c] = "end" /\ task'[c] = NoTask
    BY WriteShape DEF KnowledgeInv
  <2>2. \/ pc'[c] = "insert" /\ task'[c].id = task[c].id
        \/ pc'[c] = "end" /\ task'[c] = NoTask
    BY <2>1
  <2> QED
    BY <2>1, <2>2, WriteShape
<1>2. PublishedGrows
  BY WritePublished DEF KnowledgeInv
<1>3. \A v : Found(v)' => Found(v)
  <2>1. \A d \in Calls : Hits(d)' \subseteq Hits(d)
    BY <1>1 DEF Others, Hits
  <2> QED
    BY <1>1, <2>1 DEF Found
<1>4. ASSUME NEW i \in Documents', task[c].id # i
      PROVE  Agrees(i)' /\ FoundOK(i)'
  <2>1. i \in 1..Len(rows) /\ i \in Documents /\ Agrees(i) /\ FoundOK(i)
    BY <1>1, Alone DEF Documents, KnowledgeInv, Documented
  <2>2. SameDocument(i)
    BY <1>1, <1>4, <2>1 DEF SameDocument, Vectors
  <2>3. ~ Works(c, i) /\ ~ Works(c, i)' /\ ~ Cleared(c, i)
    BY <1>1, <1>4 DEF Works, Cleared
  <2>4. Agrees(i)'
    BY <1>1, <2>1, <2>2, <2>3, Undisturbed DEF KnowledgeInv
  <2>5. \A d \in Calls : Uploads(d, i)' => Uploads(d, i)
    BY <1>1, <2>3, SameWork DEF Uploads
  <2>6. FoundOK(i)'
    BY <1>2, <1>3, <2>1, <2>2, <2>5, FoundKept DEF SameDocument, PublishedGrows
  <2> QED
    BY <2>4, <2>6
<1>5. Documented'
  BY <1>4, WrittenAgrees DEF Documented
<1>6. ~ (pc'[c] = "end" /\ task'[c].kind = "search") /\ Len(rows) =< Len(rows')
  BY <1>1, Rows DEF NoTask, KnowledgeInv
<1>7. Answered'
  BY <1>1, <1>2, <1>6, ResultsKept DEF KnowledgeInv
<1> QED
  BY <1>1, <1>5, <1>7

-----------------------------------------------------------------------------
(* The invariant.                                                          *)

LEMMA KnowledgeInit ==
  ASSUME Init
  PROVE  KnowledgeInv
<1>1. /\ pc = [c \in Calls |-> "idle"] /\ task = [c \in Calls |-> NoTask]
      /\ faults = 0 /\ stops = 0 /\ deleted = {} /\ excused = {}
  BY DEF Init
<1>2. Counted /\ Answered /\ \A c \in Calls : TaskShape(c) /\ Hits(c) = {}
  BY <1>1 DEF Counted, Answered, ResultsOK, TaskShape, Hits, Uploading
<1>3. \A c \in Calls : \A i : ~ Works(c, i)
  BY <1>1 DEF Works
<1>4. CASE rows = <<>> /\ vectors = {} /\ published = <<>>
  <2>1. rows \in Seq(Row) /\ published \in Seq(Seq(Titles)) /\ Len(rows) = 0
        /\ Len(published) = 0
    BY <1>4, EmptySeq
  <2>2. Shape
    BY <1>1, <1>2, <1>4, <2>1 DEF Shape, Labels
  <2>3. Documented
    BY <2>1 DEF Documented, Documents
  <2> QED
    BY <1>2, <2>2, <2>3 DEF KnowledgeInv
<1>5. ASSUME NEW t \in Types,
             rows = <<[knowledge_type |-> t, title |-> Earlier,
                       status |-> "active",
                       milvus_collection |-> COLLECTION_BY_TYPE[t]]>>,
             vectors = {[collection |-> COLLECTION_BY_TYPE[t], source_id |-> 1,
                         content |-> Earlier]},
             published = <<<<Earlier>>>>
      PROVE  KnowledgeInv
  <2> DEFINE row == [knowledge_type |-> t, title |-> Earlier, status |-> "active",
                     milvus_collection |-> COLLECTION_BY_TYPE[t]]
             vector == [collection |-> COLLECTION_BY_TYPE[t], source_id |-> 1,
                        content |-> Earlier]
  <2>1. row \in Row /\ row.status = "active"
        /\ row.milvus_collection = COLLECTION_BY_TYPE[t]
    BY Collection DEF Row, Statuses, Titles
  <2>2. vector.source_id = 1 /\ vector.content = Earlier
        /\ vector.collection = COLLECTION_BY_TYPE[t]
    OBVIOUS
  <2>3. rows = <<row>> /\ vectors = {vector}
    BY <1>5
  <2> HIDE DEF row
  <2>4. /\ rows \in Seq(Row) /\ Len(rows) = 1 /\ rows[1] = row
        /\ published \in Seq(Seq(Titles)) /\ Len(published) = 1
        /\ published[1] = <<Earlier>>
    BY <1>5, <2>1, <2>3 DEF Titles
  <2>5. /\ published[1] # <<>> /\ published[1][Len(published[1])] = Earlier
        /\ PublishedOf(1) = {Earlier}
    BY <2>4 DEF PublishedOf
  <2>6. Shape
    BY <1>1, <1>2, <2>2, <2>3, <2>4 DEF Shape, Labels
  <2>7. Vectors(1) = {vector} /\ Inserted(Earlier, 1) = vector
    BY <2>1, <2>2, <2>3, <2>4 DEF Vectors, Inserted
  <2>8. Agrees(1)
    <3>1. \A v \in Vectors(1) : v.collection = rows[1].milvus_collection
      BY <2>1, <2>2, <2>4, <2>7
    <3> QED
      BY <1>1, <1>3, <2>5, <2>7, <3>1 DEF Agrees
  <2>9. FoundOK(1)
    BY <1>2, <2>2, <2>3, <2>5 DEF FoundOK, Found
  <2>10. Documented
    BY <2>4, <2>8, <2>9 DEF Documented, Documents
  <2> QED
    BY <1>2, <2>6, <2>10 DEF KnowledgeInv
<1> QED
  BY <1>4, <1>5 DEF Init

LEMMA CountedKept ==
  ASSUME Counted, Next
  PROVE  Counted'
<1>1. PICK c \in Calls : UNCHANGED <<faults, stops>> \/ Fault(c) \/ Stop(c)
  <2>1. ASSUME NEW c \in Calls,
               \/ \E t \in Types : Ingest(c, t)
               \/ \E i \in DOMAIN rows, changes \in Requests(c) : Update(c, i, changes)
               \/ \E i \in DOMAIN rows : StartDelete(c, i)
               \/ \E k : Search(c, k) \/ SearchCollection(c, k)
               \/ Answer(c)
        PROVE  UNCHANGED <<faults, stops>>
    BY <2>1 DEF Ingest, Update, StartDelete, Search, SearchCollection, Answer
  <2>2. ASSUME NEW c \in Calls,
               \/ Create(c) \/ DeleteVectors(c) \/ InsertVectors(c)
               \/ Merge(c) \/ Write(c)
        PROVE  UNCHANGED <<faults, stops>>
    BY <2>2 DEF Create, DeleteVectors, InsertVectors, Merge, Write
  <2> QED
    BY <2>1, <2>2 DEF Next
<1> QED
  BY <1>1 DEF Counted, Fault, Stop

LEMMA KnowledgeNext ==
  ASSUME KnowledgeInv, [Next]_vars
  PROVE  KnowledgeInv'
<1>1. CASE Next
  <2>1. PICK c \in Calls :
          \/ \E t \in Types : Ingest(c, t)
          \/ Create(c) \/ DeleteVectors(c) \/ InsertVectors(c)
          \/ Merge(c) \/ Write(c)
          \/ \E i \in DOMAIN rows, changes \in Requests(c) : Update(c, i, changes)
          \/ \E i \in DOMAIN rows : StartDelete(c, i)
          \/ \E k : Search(c, k) \/ SearchCollection(c, k)
          \/ Answer(c)
          \/ Fault(c) \/ Stop(c)
    BY <1>1 DEF Next
  <2>2. Shape' /\ Documented' /\ Answered'
    BY <2>1, IngestStep, CreateStep, DeleteVectorsStep, InsertVectorsStep,
       MergeStep, WriteStep, UpdateStep, DeleteStep, SearchStep, AnswerStep,
       FaultStep
  <2>3. Counted'
    BY <1>1, CountedKept DEF KnowledgeInv
  <2> QED
    BY <2>2, <2>3 DEF KnowledgeInv
<1>2. CASE UNCHANGED vars
  <2>1. UNCHANGED <<rows, vectors, pc, task, faults, stops, published, deleted,
                    excused>>
    BY <1>2 DEF vars, history
  <2>2. Shape'
    BY <2>1 DEF KnowledgeInv, Shape, TaskShape, Requests
  <2>3. Counted' /\ Answered'
    BY <2>1 DEF KnowledgeInv, Counted, Answered, ResultsOK, PublishedOf
  <2>4. ASSUME NEW i \in Documents' PROVE Agrees(i)' /\ FoundOK(i)'
    <3>1. i \in Documents /\ Agrees(i) /\ FoundOK(i)
      BY <2>1 DEF Documents, KnowledgeInv, Documented
    <3>2. /\ Vectors(i)' = Vectors(i) /\ PublishedOf(i)' = PublishedOf(i)
          /\ \A v : Found(v)' <=> Found(v)
      BY <2>1 DEF Vectors, PublishedOf, Found, Hits
    <3>3. \A c \in Calls : /\ Works(c, i)' <=> Works(c, i)
                           /\ Cleared(c, i)' <=> Cleared(c, i)
                           /\ Uploads(c, i)' <=> Uploads(c, i)
                           /\ WriteOK(c, i)' <=> WriteOK(c, i)
                           /\ At(c)' = At(c)
      BY <2>1 DEF Works, Cleared, Uploads, WriteOK, At
    <3>4. \A c : Inserted(c, i)' = Inserted(c, i)
      BY <2>1 DEF Inserted
    <3>5. \A c \in Calls : WorkOK(c, i)' <=> WorkOK(c, i)
      BY <2>1, <3>2, <3>3, <3>4 DEF WorkOK
    <3>6. Agrees(i)'
      BY <2>1, <3>1, <3>2, <3>3, <3>4, <3>5 DEF Agrees
    <3>7. FoundOK(i)'
      BY <2>1, <3>1, <3>2, <3>3 DEF FoundOK
    <3> QED
      BY <3>6, <3>7
  <2> QED
    BY <2>2, <2>3, <2>4 DEF KnowledgeInv, Documented
<1> QED
  BY <1>1, <1>2

\* What is known of the documents, their vectors and the calls at work holds at
\* all times.
THEOREM KnowledgeInvariant == Spec => []KnowledgeInv
<1>1. Init => KnowledgeInv
  BY KnowledgeInit
<1>2. KnowledgeInv /\ [Next]_vars => KnowledgeInv'
  BY KnowledgeNext
<1> QED
  BY <1>1, <1>2, PTL DEF Spec

\* MySQL and Milvus agree on every document nobody is at work on: an active one
\* has the vectors of its last upload, those only, and in the collection its row
\* names; a deleted one has none, whatever calls failed or were cancelled before
\* they had touched its vectors (service/knowledge.py:89-135, 175-183).
THEOREM StoresDoAgree == Spec => []StoresAgree
<1>1. KnowledgeInv => StoresAgree
  <2> SUFFICES ASSUME KnowledgeInv, NEW i \in DOMAIN rows \ excused
               PROVE  /\ rows[i].status = "active" /\ (\A c \in Calls : ~ Works(c, i)) =>
                           /\ published[i] # <<>>
                           /\ Vectors(i) = {[collection |-> rows[i].milvus_collection,
                                             source_id |-> i,
                                             content |-> published[i][Len(published[i])]]}
                      /\ i \in deleted => rows[i].status = "expired" /\ Vectors(i) = {}
    BY DEF StoresAgree
  <2>1. i \in Documents
    BY Rows DEF KnowledgeInv, Documents
  <2>2. Agrees(i)
    BY <2>1 DEF KnowledgeInv, Documented
  <2> QED
    BY <2>2 DEF Agrees, Cleared, Inserted
<1> QED
  BY <1>1, KnowledgeInvariant, PTL

\* A search shows no upload that failed or is not through, though it reads the
\* collections before the rows and others write to both in between
\* (service/knowledge.py:218-229).
THEOREM AnswersWerePublished == Spec => []ShownWasPublished
<1>1. KnowledgeInv => ShownWasPublished
  BY DEF KnowledgeInv, Answered, ResultsOK, ShownWasPublished, PublishedOf
<1> QED
  BY <1>1, KnowledgeInvariant, PTL
=============================================================================
