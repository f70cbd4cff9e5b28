--------------------------- MODULE KnowledgeService ---------------------------
(***************************************************************************)
(* The documents of the knowledge base: a row of each in MySQL, its        *)
(* vectors in a collection of Milvus, and no transaction over the two      *)
(* (service/knowledge.py, dao/mysql/knowledge.py, dao/milvus/knowledge.py).*)
(*                                                                         *)
(* Calls interleave at their awaits.  All documents come from one file:    *)
(* those of different files share nothing.  The chunks of one upload are   *)
(* inserted and deleted together and count as one vector, told by the call *)
(* that made it.  Tables and collections exist.                            *)
(***************************************************************************)
EXTENDS Integers, FiniteSets, Sequences

CONSTANTS
  Calls,     \* of ingest, update, delete and search; each is made once
  Types,     \* of knowledge that are uploaded
  TopK,      \* hits of a search
  MaxFaults, \* calls of MySQL, Milvus or the embedding model that fail
  MaxStops   \* calls that are cancelled or lost with their process

VARIABLES
  rows,      \* fin_knowledge_meta, by id
  vectors,   \* in the collections of Milvus
  pc, task,  \* of each call: its step and its local state
  faults, stops,
  published, \* history: of each row, the uploads that were made active
  deleted,   \* history: the ids whose deletion came to its end
  excused    \* history: the ids that two calls wrote at once, whose status was
             \* set by hand, or that lost their vectors to a call that broke off

history == <<published, deleted, excused>>
vars == <<rows, vectors, pc, task, faults, stops, history>>

-----------------------------------------------------------------------------
COLLECTION_BY_TYPE ==
  [faq |-> "faq", product |-> "product", guide |-> "product",
   report |-> "product", policy |-> "policy"]

ASSUME KnowledgeAssumption ==
  /\ Types \subseteq DOMAIN COLLECTION_BY_TYPE
  /\ TopK \in Nat \ {0} /\ MaxFaults \in Nat /\ MaxStops \in Nat

Statuses == {"active", "expired", "draft"}   \* KnowledgeStatus
Collections == {COLLECTION_BY_TYPE[t] : t \in Types}

Earlier == "an earlier call"
NoTask == [kind |-> "none", id |-> 0]

Vectors(i) == {v \in vectors : v.source_id = i}

\* A call that may yet write row i.
Works(c, i) ==
  /\ pc[c] \notin {"idle", "end"} /\ task[c].id = i /\ task[c].kind # "search"

\* A call ends with the vectors of i gone and its row as it was.
BrokeOff(i) ==
  /\ faults' > faults \/ stops' > stops
  /\ \E c \in Calls :
       /\ Works(c, i) /\ pc'[c] = "end"
       /\ \/ pc[c] = "old" /\ vectors' # vectors
          \/ pc[c] \in {"draft", "mark"}
          \/ pc[c] = "write" /\ task[c].step \in {"draft", "mark"}

Excused(i) ==
  \/ \E c, d \in Calls : c # d /\ Works(c, i)' /\ Works(d, i)'
  \/ BrokeOff(i)
  \/ \E c \in Calls : Works(c, i)' /\ task'[c].kind = "update"
                      /\ pc'[c] = "change" /\ "status" \in DOMAIN task'[c].changes

Noted == excused' = excused \cup {i \in DOMAIN rows' : Excused(i)}

Goto(c, from, to) == pc[c] = from /\ pc' = [pc EXCEPT ![c] = to]
Set(c, value) == task' = [task EXCEPT ![c] = value]

-----------------------------------------------------------------------------
(* update of the repository: the item, which another session read, is      *)
(* merged into the row of this session, and every column that differs is   *)
(* written.                                                                *)

\* What a step of a call sets on its item.
Changes(c) ==
  CASE pc[c] = "draft" ->
         [knowledge_type |-> task[c].type, title |-> c, status |-> "draft",
          milvus_collection |-> COLLECTION_BY_TYPE[task[c].type]]
    [] pc[c] = "undo" -> [status |-> "draft"]
    [] pc[c] = "publish" -> [status |-> "active"]
    [] pc[c] = "change" -> task[c].changes
    [] pc[c] = "mark" -> [status |-> "expired"]

Updated(item, changes) ==
  [f \in DOMAIN item |-> IF f \in DOMAIN changes THEN changes[f] ELSE item[f]]

Merge(c) ==
  LET row == Updated(task[c].item, Changes(c))
  IN /\ pc[c] \in {"draft", "undo", "publish", "change", "mark"}
     /\ pc' = [pc EXCEPT ![c] = "write"]
     /\ Set(c, [kind |-> task[c].kind, id |-> task[c].id, type |-> task[c].type,
                step |-> pc[c], row |-> row,
                columns |-> {f \in DOMAIN row : row[f] # rows[task[c].id][f]}])
     /\ UNCHANGED <<rows, vectors, faults, stops, published, deleted>>
     /\ Noted

Write(c) ==
  LET i == task[c].id
      row == [f \in DOMAIN rows[i] |-> IF f \in task[c].columns
                                       THEN task[c].row[f] ELSE rows[i][f]]
  IN /\ Goto(c, "write", IF task[c].step = "draft" THEN "insert" ELSE "end")
     /\ rows' = [rows EXCEPT ![i] = row]
     /\ Set(c, IF task[c].step # "draft" THEN NoTask
               ELSE [kind |-> "ingest", id |-> i, type |-> task[c].type,
                     item |-> row])
     /\ published' = IF task[c].step = "publish"
                     THEN [published EXCEPT ![i] = Append(@, c)] ELSE published
     /\ deleted' = IF task[c].step = "mark" THEN deleted \cup {i} ELSE deleted
     /\ UNCHANGED <<vectors, faults, stops>>
     /\ Noted

-----------------------------------------------------------------------------
(* ingest.                                                                 *)

Active == {i \in DOMAIN rows : rows[i].status = "active"}

\* find_active_by_source: the newest.
Ingest(c, type) ==
  LET found == Active
      i == CHOOSE j \in found : \A k \in found : k =< j
  IN /\ Goto(c, "idle", IF found = {} THEN "create" ELSE "old")
     /\ Set(c, IF found = {} THEN [kind |-> "ingest", id |-> 0, type |-> type]
               ELSE [kind |-> "ingest", id |-> i, type |-> type,
                     item |-> rows[i]])
     /\ UNCHANGED <<rows, vectors, faults, stops, published, deleted>>
     /\ Noted

Create(c) ==
  LET row == [knowledge_type |-> task[c].type, title |-> c, status |-> "draft",
              milvus_collection |-> COLLECTION_BY_TYPE[task[c].type]]
  IN /\ Goto(c, "create", "insert")
     /\ rows' = Append(rows, row)
     /\ Set(c, [kind |-> "ingest", type |-> task[c].type, id |-> Len(rows'),
                item |-> row])
     /\ published' = Append(published, <<>>)
     /\ UNCHANGED <<vectors, faults, stops, deleted>>
     /\ Noted

\* Faulty variant: the vectors are looked for where the new ones will be.
NewCollection(c) ==
  IF task[c].kind = "ingest" THEN COLLECTION_BY_TYPE[task[c].type]
  ELSE task[c].item.milvus_collection

OldCollection(c) == task[c].item.milvus_collection

\* delete_by_source, of ingest and of delete.
Delete(c) ==
  vectors' = {v \in vectors : ~ (/\ v.source_id = task[c].id
                                 /\ v.collection = OldCollection(c))}

DeleteVectors(c) ==
  /\ Goto(c, "old", IF task[c].kind = "ingest" THEN "draft" ELSE "mark")
  /\ Delete(c)
  /\ UNCHANGED <<rows, task, faults, stops, published, deleted>>
  /\ Noted

\* The chunks are embedded and inserted where the call said.
Insert(c) ==
  vectors' = vectors \cup {[collection |-> COLLECTION_BY_TYPE[task[c].type],
                            source_id |-> task[c].id, content |-> c]}

InsertVectors(c) ==
  /\ Goto(c, "insert", "publish")
  /\ Insert(c)
  /\ UNCHANGED <<rows, task, faults, stops, published, deleted>>
  /\ Noted

-----------------------------------------------------------------------------
(* update and delete.                                                      *)

Requests(c) ==
  {[title |-> c]} \cup {[status |-> s] : s \in Statuses} \cup
  {[knowledge_type |-> t] : t \in Types}

Update(c, i, changes) ==
  LET refused == "knowledge_type" \in DOMAIN changes
                 /\ changes.knowledge_type # rows[i].knowledge_type
  IN /\ Goto(c, "idle", IF refused THEN "end" ELSE "change")
     /\ Set(c, IF refused THEN NoTask
               ELSE [kind |-> "update", id |-> i,
                     type |-> rows[i].knowledge_type, item |-> rows[i],
                     changes |-> changes])
     /\ UNCHANGED <<rows, vectors, faults, stops, published, deleted>>
     /\ Noted

StartDelete(c, i) ==
  /\ Goto(c, "idle", IF rows[i].status = "expired" THEN "end" ELSE "old")
  /\ Set(c, IF rows[i].status = "expired" THEN NoTask
            ELSE [kind |-> "delete", id |-> i,
                  type |-> rows[i].knowledge_type, item |-> rows[i]])
  /\ UNCHANGED <<rows, vectors, faults, stops, published, deleted>>
  /\ Noted

-----------------------------------------------------------------------------
(* search: the collections are read at once, each in its time, then the    *)
(* rows of the best hits.  Which hits are the best is anybody's guess.     *)

Search(c, collections) ==
  /\ Goto(c, "idle", "hits")
  /\ Set(c, [kind |-> "search", id |-> 0, left |-> collections, hits |-> {}])
  /\ UNCHANGED <<rows, vectors, faults, stops, published, deleted>>
  /\ Noted

SearchCollection(c, collection) ==
  /\ collection \in task[c].left
  /\ Goto(c, "hits", IF task[c].left = {collection} THEN "rows" ELSE "hits")
  /\ Set(c, [task[c] EXCEPT !.left = @ \ {collection}, !.hits =
               @ \cup {v \in vectors : v.collection = collection}])
  /\ UNCHANGED <<rows, vectors, faults, stops, published, deleted>>
  /\ Noted

\* Faulty variant: a hit is shown whatever the status of its document.
AnyHit(hit) == hit.source_id \in DOMAIN rows

Shown(hit) == rows[hit.source_id].status = "active"

Answer(c) ==
  /\ Goto(c, "rows", "end")
  /\ \E best \in SUBSET task[c].hits :
       /\ Cardinality(best) =< TopK
       /\ Set(c, [kind |-> "search", id |-> 0,
                  results |-> {v \in best : Shown(v)}])
  /\ UNCHANGED <<rows, vectors, faults, stops, published, deleted>>
  /\ Noted

-----------------------------------------------------------------------------
\* What a step that breaks off leaves in Milvus: its calls run in threads that
\* come to their end even if nobody waits for them.
LeftBehind(c) ==
  \/ UNCHANGED vectors
  \/ pc[c] = "old" /\ Delete(c)
  \/ pc[c] = "insert" /\ Insert(c)

\* A failure to embed or insert is noted by a further update.
Fault(c) ==
  /\ faults < MaxFaults /\ faults' = faults + 1
  /\ pc[c] \notin {"idle", "end"}
  /\ pc' = [pc EXCEPT ![c] = IF pc[c] = "insert" THEN "undo" ELSE "end"]
  /\ Set(c, IF pc[c] = "insert" THEN task[c] ELSE NoTask)
  /\ LeftBehind(c)
  /\ UNCHANGED <<rows, stops, published, deleted>>
  /\ Noted

Stop(c) ==
  /\ stops < MaxStops /\ stops' = stops + 1
  /\ pc[c] \notin {"idle", "end"}
  /\ pc' = [pc EXCEPT ![c] = "end"]
  /\ Set(c, NoTask)
  /\ LeftBehind(c)
  /\ UNCHANGED <<rows, faults, published, deleted>>
  /\ Noted

-----------------------------------------------------------------------------
Next ==
  \E c \in Calls :
    \/ \E t \in Types : Ingest(c, t)
    \/ Create(c) \/ DeleteVectors(c) \/ InsertVectors(c)
    \/ Merge(c) \/ Write(c)
    \/ \E i \in DOMAIN rows, changes \in Requests(c) : Update(c, i, changes)
    \/ \E i \in DOMAIN rows : StartDelete(c, i)
    \/ \E k \in {{t} : t \in Collections} \cup {Collections} : Search(c, k)
    \/ \E k \in Collections :
         pc[c] = "hits" /\ SearchCollection(c, k)
    \/ Answer(c)
    \/ Fault(c) \/ Stop(c)

\* There is no document or an active one.
Init ==
  /\ \/ rows = <<>> /\ vectors = {} /\ published = <<>>
     \/ \E t \in Types :
          /\ rows = <<[knowledge_type |-> t, title |-> Earlier,
                       status |-> "active",
                       milvus_collection |-> COLLECTION_BY_TYPE[t]]>>
          /\ vectors = {[collection |-> COLLECTION_BY_TYPE[t], source_id |-> 1,
                         content |-> Earlier]}
          /\ published = <<<<Earlier>>>>
  /\ pc = [c \in Calls |-> "idle"] /\ task = [c \in Calls |-> NoTask]
  /\ faults = 0 /\ stops = 0
  /\ deleted = {} /\ excused = {}

Spec == Init /\ [][Next]_vars

-----------------------------------------------------------------------------
(* Properties.                                                             *)

\* An active document that nobody is at work on has the vectors of its last
\* upload, those only, and in the collection its row names; one that was
\* deleted has none and no later upload brings it back: vectors are put in
\* before a row becomes active, and the old ones are taken out of the
\* collection they were in (service/knowledge.py:89-135, 175-183).
StoresAgree ==
  \A i \in DOMAIN rows \ excused :
    /\ rows[i].status = "active" /\ (\A c \in Calls : ~ Works(c, i)) =>
         /\ published[i] # <<>>
         /\ Vectors(i) = {[collection |-> rows[i].milvus_collection,
                           source_id |-> i,
                           content |-> published[i][Len(published[i])]]}
    /\ i \in deleted => rows[i].status = "expired" /\ Vectors(i) = {}

\* A search shows no upload that failed or is not through
\* (service/knowledge.py:218-229).
ShownWasPublished ==
  \A c \in Calls : pc[c] = "end" /\ task[c].kind = "search" =>
    ("results" \in DOMAIN task[c] =>
       \A v \in task[c].results :
         v.source_id \in excused
         \/ \E n \in DOMAIN published[v.source_id] :
              published[v.source_id][n] = v.content)
=============================================================================
