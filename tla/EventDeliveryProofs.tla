------------------------ MODULE EventDeliveryProofs ------------------------
(***************************************************************************)
(* Proofs about AppLifecycle and EventDelivery for every number of         *)
(* replicas, events, publications, starts and failures.  DeliveryInv is    *)
(* inductive; CopiesInv is beside it.                                      *)
(***************************************************************************)
EXTENDS EventDelivery, FiniteSetTheorems, SequenceTheorems,
        WellFoundedInduction, TLAPS

-----------------------------------------------------------------------------
(* What a replica has open, and which of its tasks are alive, in each of   *)
(* its phases.                                                             *)

Quiet(r) == \A t \in Tasks : task[r][t] \notin Alive

InOrder(r) ==
  /\ phase[r] = "off" => open[r] = {}
  /\ phase[r] = "tunnel" => open[r] = {"tunnel"}
  /\ phase[r] = "tables" => open[r] = {"tunnel", "engine"}
  /\ phase[r] \in {"ping", "serving"} \cup Waiting => open[r] = Resources
  /\ phase[r] = "close engine" => "redis" \notin open[r]
  /\ phase[r] = "close tunnel" => open[r] \subseteq {"tunnel"}
  /\ phase[r] \in {"off"} \cup Starting \cup Closing => Quiet(r)
  /\ phase[r] = "maintenance" => task[r]["subscriber"] \notin Alive

LifecycleInv == LifecycleTypeOK /\ \A r \in Replicas : InOrder(r)

\* The steps of AppLifecycle.
LifecycleStep(r) ==
  \/ Progress(r) \/ Boot(r) \/ Stop(r) \/ Cancel(r) \/ TunnelRefused(r)
  \/ StartFails(r) \/ SubscriberBreaks(r) \/ Kill(r)
  \/ \E t \in Tasks : TaskTimesOut(r, t) \/ TaskEnds(r, t) \/ TaskHangs(r, t)

\* A step of r touches no other replica.
OnlyOf(r) ==
  \A q \in Replicas \ {r} :
    phase'[q] = phase[q] /\ open'[q] = open[q] /\ task'[q] = task[q]

LEMMA OthersInOrder ==
  ASSUME LifecycleInv, NEW r \in Replicas, OnlyOf(r), InOrder(r)',
         LifecycleTypeOK'
  PROVE  LifecycleInv'
<1>1. ASSUME NEW q \in Replicas, q # r PROVE InOrder(q)'
  <2>1. phase'[q] = phase[q] /\ open'[q] = open[q] /\ task'[q] = task[q]
    BY <1>1 DEF OnlyOf
  <2>2. InOrder(q)
    BY DEF LifecycleInv
  <2> QED
    BY <2>1, <2>2 DEF InOrder, Quiet
<1> QED
  BY <1>1 DEF LifecycleInv

LEMMA FaultCounts == ASSUME LifecycleTypeOK, Fault PROVE faults' \in 0..MaxFaults
  BY LifecycleAssumption DEF LifecycleTypeOK, Fault

LEMMA BootCounts ==
  ASSUME LifecycleTypeOK, NEW r, Boot(r) PROVE boots' \in 0..MaxBoots
  BY LifecycleAssumption DEF LifecycleTypeOK, Boot

LEMMA LifecycleSteps ==
  ASSUME LifecycleInv, NEW r \in Replicas, LifecycleStep(r)
  PROVE  LifecycleInv'
<1> USE DEF LifecycleInv, LifecycleTypeOK, Move, Starting, Waiting, Closing
<1>1. ASSUME Boot(r) PROVE LifecycleInv'
  <2>1. LifecycleTypeOK' /\ OnlyOf(r)
    <3>1. boots' \in 0..MaxBoots
      BY <1>1, BootCounts
    <3>2. {"tunnel"} \in SUBSET Resources
      BY DEF Resources
    <3> QED
      BY <1>1, <3>1, <3>2 DEF Boot, OnlyOf
  <2>2. InOrder(r)'
    BY <1>1 DEF Boot, InOrder, Quiet
  <2> QED
    BY <2>1, <2>2, OthersInOrder
<1>2. ASSUME TunnelStarted(r) PROVE LifecycleInv'
  <2>0. phase[r] = "tunnel" /\ open[r] = {"tunnel"} /\ Quiet(r)
    BY <1>2 DEF TunnelStarted, InOrder
  <2>1. LifecycleTypeOK' /\ OnlyOf(r)
    <3>1. open' \in [Replicas -> SUBSET Resources]
      <4>1. open[r] \cup {"engine"} \in SUBSET Resources
        BY <2>0 DEF Resources
      <4> QED
        BY <1>2, <4>1 DEF TunnelStarted
    <3> QED
      BY <1>2, <3>1 DEF TunnelStarted, OnlyOf
  <2>2. InOrder(r)'
    <3>1. CASE cancelled[r]
      <4>1. phase'[r] = "close redis" /\ task' = task
        BY <1>2, <3>1 DEF TunnelStarted
      <4> QED
        BY <2>0, <4>1 DEF InOrder, Quiet
    <3>2. CASE ~ cancelled[r]
      <4>1. phase'[r] = "tables" /\ task' = task
            /\ open'[r] = {"tunnel"} \cup {"engine"}
        BY <1>2, <2>0, <3>2 DEF TunnelStarted
      <4> QED
        BY <2>0, <4>1 DEF InOrder, Quiet
    <3> QED
      BY <3>1, <3>2
  <2> QED
    BY <2>1, <2>2, OthersInOrder
<1>3. ASSUME TablesCreated(r) PROVE LifecycleInv'
  <2>1. LifecycleTypeOK' /\ OnlyOf(r)
    <3>1. LifecycleTypeOK'
      BY <1>3 DEF TablesCreated, Resources
    <3>2. OnlyOf(r)
      BY <1>3 DEF TablesCreated, OnlyOf
    <3> QED
      BY <3>1, <3>2
  <2>2. InOrder(r)'
    BY <1>3 DEF TablesCreated, InOrder, Quiet, Resources
  <2> QED
    BY <2>1, <2>2, OthersInOrder
<1>4. ASSUME Pinged(r) PROVE LifecycleInv'
  <2>1. LifecycleTypeOK' /\ OnlyOf(r)
    <3>1. LifecycleTypeOK'
      BY <1>4 DEF Pinged, TaskStates
    <3>2. OnlyOf(r)
      BY <1>4 DEF Pinged, OnlyOf
    <3> QED
      BY <3>1, <3>2
  <2>2. InOrder(r)'
    BY <1>4 DEF Pinged, InOrder, Quiet
  <2> QED
    BY <2>1, <2>2, OthersInOrder
<1>5. ASSUME CloseRedis(r) \/ CloseEngine(r) PROVE LifecycleInv'
  <2>1. LifecycleTypeOK' /\ OnlyOf(r)
    <3>1. LifecycleTypeOK'
      BY <1>5 DEF CloseRedis, CloseEngine, Close
    <3>2. OnlyOf(r)
      BY <1>5 DEF CloseRedis, CloseEngine, Close, OnlyOf
    <3> QED
      BY <3>1, <3>2
  <2>2. InOrder(r)'
    <3>1. Quiet(r) /\ open[r] \subseteq Resources
      BY <1>5 DEF CloseRedis, CloseEngine, Close, InOrder
    <3>2. CASE CloseRedis(r)
      <4>1. phase'[r] = "close engine" /\ task' = task
            /\ open'[r] = open[r] \ {"redis"}
        BY <3>2 DEF CloseRedis, Close
      <4> QED
        BY <3>1, <4>1 DEF InOrder, Quiet
    <3>3. CASE CloseEngine(r)
      <4>1. phase'[r] = "close tunnel" /\ task' = task
            /\ open'[r] = open[r] \ {"engine"} /\ "redis" \notin open[r]
        BY <3>3 DEF CloseEngine, Close, InOrder
      <4>2. open'[r] \subseteq {"tunnel"}
        BY <3>1, <4>1 DEF Resources
      <4> QED
        BY <3>1, <4>1, <4>2 DEF InOrder, Quiet
    <3> QED
      BY <1>5, <3>2, <3>3
  <2> QED
    BY <2>1, <2>2, OthersInOrder
<1>6. ASSUME CloseTunnel(r) PROVE LifecycleInv'
  <2>1. LifecycleTypeOK' /\ OnlyOf(r)
    <3>1. LifecycleTypeOK'
      BY <1>6 DEF CloseTunnel, Close, TaskStates
    <3>2. OnlyOf(r)
      BY <1>6 DEF CloseTunnel, Close, OnlyOf
    <3> QED
      BY <3>1, <3>2
  <2>2. InOrder(r)'
    BY <1>6 DEF CloseTunnel, Close, InOrder, Quiet, Alive
  <2> QED
    BY <2>1, <2>2, OthersInOrder
<1>7. ASSUME Stop(r) PROVE LifecycleInv'
  <2>1. LifecycleTypeOK' /\ OnlyOf(r)
    <3>1. LifecycleTypeOK'
      BY <1>7 DEF Stop, Set, Told, TaskStates, Tasks
    <3>2. OnlyOf(r)
      BY <1>7 DEF Stop, OnlyOf, Set, Told, Tasks
    <3> QED
      BY <3>1, <3>2
  <2>2. InOrder(r)'
    BY <1>7 DEF Stop, InOrder, Quiet
  <2> QED
    BY <2>1, <2>2, OthersInOrder
<1>8. ASSUME SubscriberFinished(r) PROVE LifecycleInv'
  <2>1. LifecycleTypeOK' /\ OnlyOf(r)
    <3>1. LifecycleTypeOK'
      BY <1>8 DEF SubscriberFinished, Set, Told, TaskStates, Tasks
    <3>2. OnlyOf(r)
      BY <1>8 DEF SubscriberFinished, OnlyOf, Set, Told, Tasks
    <3> QED
      BY <3>1, <3>2
  <2>2. InOrder(r)'
    <3>1. /\ phase[r] = "subscriber" /\ phase'[r] = "maintenance"
          /\ open' = open /\ task[r]["subscriber"] \notin Alive
      BY <1>8 DEF SubscriberFinished, Finished
    <3>2. task'[r]["subscriber"] = task[r]["subscriber"]
      BY <1>8 DEF SubscriberFinished, Set, Tasks
    <3>3. open[r] = Resources
      BY <3>1 DEF InOrder
    <3> QED
      BY <3>1, <3>2, <3>3 DEF InOrder
  <2> QED
    BY <2>1, <2>2, OthersInOrder
<1>9. ASSUME MaintenanceFinished(r) PROVE LifecycleInv'
  <2>1. LifecycleTypeOK' /\ OnlyOf(r)
    <3>1. LifecycleTypeOK'
      BY <1>9 DEF MaintenanceFinished
    <3>2. OnlyOf(r)
      BY <1>9 DEF MaintenanceFinished, OnlyOf
    <3> QED
      BY <3>1, <3>2
  <2>2. InOrder(r)'
    BY <1>9 DEF MaintenanceFinished, Finished, InOrder, Quiet, Tasks
  <2> QED
    BY <2>1, <2>2, OthersInOrder
<1>10. ASSUME Cancel(r) PROVE LifecycleInv'
  <2>1. LifecycleTypeOK' /\ OnlyOf(r)
    <3>1. LifecycleTypeOK'
      BY <1>10, FaultCounts DEF Cancel, Shielded
    <3>2. OnlyOf(r)
      BY <1>10 DEF Cancel, OnlyOf
    <3> QED
      BY <3>1, <3>2
  <2>2. InOrder(r)'
    BY <1>10 DEF Cancel, InOrder, Quiet, Shielded
  <2> QED
    BY <2>1, <2>2, OthersInOrder
<1>11. ASSUME TunnelRefused(r) \/ StartFails(r) PROVE LifecycleInv'
  <2>1. LifecycleTypeOK' /\ OnlyOf(r)
    <3>1. LifecycleTypeOK'
      BY <1>11, FaultCounts DEF TunnelRefused, StartFails
    <3>2. OnlyOf(r)
      BY <1>11 DEF TunnelRefused, StartFails, OnlyOf
    <3> QED
      BY <3>1, <3>2
  <2>2. InOrder(r)'
    BY <1>11 DEF TunnelRefused, StartFails, InOrder, Quiet
  <2> QED
    BY <2>1, <2>2, OthersInOrder
<1>12. ASSUME Kill(r) PROVE LifecycleInv'
  <2>1. LifecycleTypeOK' /\ OnlyOf(r)
    <3>1. LifecycleTypeOK'
      BY <1>12, FaultCounts DEF Kill, TaskStates
    <3>2. OnlyOf(r)
      BY <1>12 DEF Kill, OnlyOf
    <3> QED
      BY <3>1, <3>2
  <2>2. InOrder(r)'
    BY <1>12 DEF Kill, InOrder, Quiet, Alive
  <2> QED
    BY <2>1, <2>2, OthersInOrder
<1>13. ASSUME NEW t \in Tasks, NEW state \in TaskStates, Set(r, t, state),
             task[r][t] \in Alive,
             faults' \in 0..MaxFaults, UNCHANGED <<phase, open, cancelled, boots>>
       PROVE LifecycleInv'
  <2>1. LifecycleTypeOK' /\ OnlyOf(r)
    <3>1. LifecycleTypeOK'
      BY <1>13 DEF Set
    <3>2. OnlyOf(r)
      BY <1>13 DEF OnlyOf, Set
    <3> QED
      BY <3>1, <3>2
  <2>2. InOrder(r)'
    <3>1. ~ Quiet(r) /\ phase[r] \notin {"off"} \cup Starting \cup Closing
      BY <1>13 DEF Quiet, InOrder
    <3>2. phase[r] = "maintenance" => task'[r]["subscriber"] \notin Alive
      <4> SUFFICES ASSUME phase[r] = "maintenance"
                   PROVE  task'[r]["subscriber"] \notin Alive
        OBVIOUS
      <4>1. task[r]["subscriber"] \notin Alive
        BY DEF InOrder
      <4>2. t # "subscriber" /\ "subscriber" \in Tasks
        BY <1>13, <4>1 DEF Tasks
      <4>3. task'[r]["subscriber"] = task[r]["subscriber"]
        BY <1>13, <4>2 DEF Set
      <4> QED
        BY <4>1, <4>3
    <3>3. phase'[r] = phase[r] /\ open'[r] = open[r]
      BY <1>13
    <3> QED
      BY <3>1, <3>2, <3>3 DEF InOrder
  <2> QED
    BY <2>1, <2>2, OthersInOrder
<1>14. ASSUME NEW t \in Tasks, TaskTimesOut(r, t) \/ TaskEnds(r, t) \/ TaskHangs(r, t)
       PROVE  LifecycleInv'
  BY <1>13, <1>14, FaultCounts
     DEF TaskTimesOut, TaskEnds, TaskHangs, TaskStates, Alive
<1>15. ASSUME SubscriberBreaks(r) PROVE LifecycleInv'
  BY <1>13, <1>15, FaultCounts DEF SubscriberBreaks, TaskStates, Alive, Tasks
<1> QED
  BY <1>1, <1>2, <1>3, <1>4, <1>5, <1>6, <1>7, <1>8, <1>9, <1>10, <1>11, <1>12,
     <1>14, <1>15 DEF LifecycleStep, Progress
-----------------------------------------------------------------------------
(* Type correctness.                                                       *)

PubTypes ==
  /\ now \in 0..MaxTime
  /\ sends \in [Events -> 0..MaxSends]
  /\ inbox \in [Replicas -> Seq(Events)]
TableTypes ==
  /\ claim \in [Events -> [status : {"none", "processing", "completed"},
                           until : 0..(MaxTime + Lease)]]
  /\ applied \in [Events -> Nat]
  /\ granted \in [Events -> Nat]
RowTypes ==
  /\ outbox \in Seq({"pending", "sent"})
  /\ copies \in Seq(Nat) /\ Len(copies) = Len(outbox)
SubTypes ==
  /\ pc \in [Replicas -> {"listen", "insert", "act", "publish", "mark"}]
  /\ event \in [Replicas -> Events \cup {NoEvent}]
  /\ lease \in [Replicas -> 0..(MaxTime + Lease)]
PendingTypes ==
  /\ toPublish \in [Replicas -> Seq(0..Len(outbox))]
  /\ flush \in [Replicas -> {"idle", "publish", "mark"}]
  /\ batch \in [Replicas -> SUBSET (1..Len(outbox))]

\* What the handler and the loop of a replica are at is there.
Pointed(r) ==
  /\ pc[r] = "listen" => event[r] = NoEvent
  /\ pc[r] \in {"insert", "act"} => event[r] # NoEvent
  /\ pc[r] = "mark" => toPublish[r] # <<>> /\ Head(toPublish[r]) # Unstored
  /\ flush[r] # "idle" => batch[r] # {}

Shape ==
  /\ PubTypes /\ TableTypes /\ RowTypes /\ SubTypes /\ PendingTypes
  /\ \A r \in Replicas : Pointed(r)

LEMMA ShapeTypes == LifecycleTypeOK /\ Shape => TypeOK
  BY DEF TypeOK, Shape, PubTypes, TableTypes, RowTypes, SubTypes, PendingTypes

LEMMA SeqOfMore ==
  ASSUME NEW S, NEW T, S \subseteq T, NEW q \in Seq(S) PROVE q \in Seq(T)
<1>1. q \in [1..Len(q) -> S] /\ Len(q) \in Nat
  BY LenProperties
<1>2. q \in [1..Len(q) -> T]
  BY <1>1
<1> QED
  BY <1>1, <1>2, SeqDef

\* A stored row does not disturb what points to others.
LEMMA StoreRowTypes ==
  ASSUME RowTypes, PendingTypes, StoreRow
  PROVE  /\ RowTypes' /\ Len(outbox') = Len(outbox) + 1
         /\ \A i \in DOMAIN outbox : outbox'[i] = outbox[i] /\ copies'[i] = copies[i]
         /\ outbox'[Len(outbox) + 1] = "pending"
         /\ toPublish \in [Replicas -> Seq(0..Len(outbox'))]
         /\ batch \in [Replicas -> SUBSET (1..Len(outbox'))]
         /\ Len(outbox) + 1 \in 0..Len(outbox')
<1>1. Len(outbox) \in Nat /\ DOMAIN outbox = 1..Len(outbox)
  BY LenProperties DEF RowTypes
<1>2. /\ outbox' \in Seq({"pending", "sent"}) /\ Len(outbox') = Len(outbox) + 1
      /\ \A i \in 1..Len(outbox) : outbox'[i] = outbox[i]
      /\ outbox'[Len(outbox) + 1] = "pending"
  BY AppendProperties DEF StoreRow, RowTypes
<1>3. /\ copies' \in Seq(Nat) /\ Len(copies') = Len(copies) + 1
      /\ \A i \in 1..Len(copies) : copies'[i] = copies[i]
  BY AppendProperties DEF StoreRow, RowTypes
<1>4. 0..Len(outbox) \subseteq 0..Len(outbox') /\ 1..Len(outbox) \subseteq 1..Len(outbox')
  BY <1>1, <1>2
<1>5. \A r \in Replicas : toPublish[r] \in Seq(0..Len(outbox'))
  BY <1>4, SeqOfMore DEF PendingTypes
<1>6. toPublish \in [Replicas -> Seq(0..Len(outbox'))]
  BY <1>5 DEF PendingTypes
<1>7. batch \in [Replicas -> SUBSET (1..Len(outbox'))]
  BY <1>4 DEF PendingTypes
<1> QED
  BY <1>1, <1>2, <1>3, <1>6, <1>7 DEF RowTypes

LEMMA MarkTypes ==
  ASSUME RowTypes, NEW i \in 1..Len(outbox), MarkSent(i)
  PROVE  /\ outbox' \in Seq({"pending", "sent"}) /\ Len(outbox') = Len(outbox)
         /\ \A k \in 1..Len(outbox) : outbox'[k] = IF k = i THEN "sent" ELSE outbox[k]
  BY ExceptSeq DEF RowTypes, MarkSent

LEMMA StreamTypes ==
  ASSUME RowTypes, NEW i \in 1..Len(outbox), AddToStream(i)
  PROVE  /\ copies' \in Seq(Nat) /\ Len(copies') = Len(copies)
         /\ \A k \in 1..Len(copies) :
              copies'[k] = IF k = i THEN copies[k] + 1 ELSE copies[k]
<1>1. i \in 1..Len(copies) /\ copies[i] + 1 \in Nat
  BY ElementOfSeq DEF RowTypes
<1> QED
  BY <1>1, ExceptSeq DEF RowTypes, AddToStream

\* The least row of a batch is one of it.
LEMMA FirstInBatch ==
  ASSUME RowTypes, PendingTypes, NEW r \in Replicas, batch[r] # {}
  PROVE  First(r) \in batch[r] /\ First(r) \in 1..Len(outbox)
<1> DEFINE R == OpToRel(<, Nat)
<1>1. Len(outbox) \in Nat /\ batch[r] \subseteq 1..Len(outbox)
  BY LenProperties DEF RowTypes, PendingTypes
<1>2. batch[r] \subseteq Nat
  BY <1>1
<1>3. IsWellFoundedOn(R, Nat)
  BY NatLessThanWellFounded
<1>4. \A x, y \in Nat : <<y, x>> \notin R => x =< y
  BY DEF OpToRel
<1> HIDE DEF R
<1>5. PICK x \in batch[r] : \A y \in batch[r] : <<y, x>> \notin R
  BY <1>2, <1>3, WFMin
<1>6. \E i \in batch[r] : \A k \in batch[r] : i =< k
  BY <1>2, <1>4, <1>5
<1>7. First(r) \in batch[r]
  BY <1>6 DEF First
<1> QED
  BY <1>1, <1>7

\* The handler and the loop of one replica point to nothing of another's.
OnlyAt(r) ==
  \A q \in Replicas \ {r} :
    /\ pc'[q] = pc[q] /\ event'[q] = event[q] /\ lease'[q] = lease[q]
    /\ toPublish'[q] = toPublish[q]
    /\ flush'[q] = flush[q] /\ batch'[q] = batch[q]

LEMMA OthersPointed ==
  ASSUME Shape, NEW r \in Replicas, OnlyAt(r), Pointed(r)',
         PubTypes', TableTypes', RowTypes', SubTypes', PendingTypes'
  PROVE  Shape'
<1>1. \A q \in Replicas \ {r} : Pointed(q)'
  BY DEF Shape, Pointed, OnlyAt
<1> QED
  BY <1>1 DEF Shape

\* The step of a handler that grants a claim.
LEMMA GrantTypes ==
  ASSUME TableTypes, PubTypes, SubTypes, NEW r \in Replicas, NEW e \in Events,
         Grant(r, e), UNCHANGED applied
  PROVE  TableTypes' /\ lease' \in [Replicas -> 0..(MaxTime + Lease)]
<1>1. now + Lease \in 0..(MaxTime + Lease)
  BY DeliveryAssumption DEF PubTypes
<1> QED
  BY <1>1 DEF TableTypes, SubTypes, Grant

LEMMA RejectTypes ==
  ASSUME RowTypes, PendingTypes, SubTypes, NEW r \in Replicas, Reject(r)
  PROVE  /\ toPublish' \in [Replicas -> Seq(0..Len(outbox))]
         /\ pc' \in [Replicas -> {"listen", "insert", "act", "publish", "mark"}]
         /\ event' \in [Replicas -> Events \cup {NoEvent}]
<1>1. Unstored \in 0..Len(outbox)
  BY LenProperties DEF RowTypes, Unstored
<1>2. <<Unstored>> \in Seq(0..Len(outbox))
  BY <1>1
<1> QED
  BY <1>2 DEF Reject, PendingTypes, SubTypes

LEMMA ForgetTypes ==
  ASSUME PendingTypes, SubTypes, NEW r \in Replicas, Forget(r)
  PROVE  /\ toPublish' \in [Replicas -> Seq(0..Len(outbox))]
         /\ pc' \in [Replicas -> {"listen", "insert", "act", "publish", "mark"}]
         /\ event' \in [Replicas -> Events \cup {NoEvent}]
<1>1. <<>> \in Seq(0..Len(outbox))
  BY EmptySeq
<1> QED
  BY <1>1 DEF Forget, PendingTypes, SubTypes

\* A replica that publishes a row points to one that is there.
LEMMA PublishedRow ==
  ASSUME Shape, NEW r \in Replicas,
         toPublish[r] # <<>>, Head(toPublish[r]) # Unstored
  PROVE  /\ Head(toPublish[r]) \in 1..Len(outbox)
         /\ Tail(toPublish[r]) \in Seq(0..Len(outbox))
<1>1. Head(toPublish[r]) \in 0..Len(outbox) /\ Tail(toPublish[r]) \in Seq(0..Len(outbox))
  BY HeadTailProperties DEF Shape, PendingTypes
<1> QED
  BY <1>1, LenProperties DEF Shape, RowTypes, Unstored

LEMMA HandleShape ==
  ASSUME Shape, NEW r \in Replicas, Handle(r)
  PROVE  Shape'
<1>0. /\ PubTypes /\ TableTypes /\ RowTypes /\ SubTypes /\ PendingTypes
      /\ Pointed(r)
  BY DEF Shape
<1>1. ASSUME Receive(r) PROVE Shape'
  <2>1. inbox[r] # <<>> /\ inbox' = [inbox EXCEPT ![r] = Tail(@)]
        /\ UNCHANGED <<now, sends, outbox, copies, flush, batch>>
    BY <1>1 DEF Receive, rows, flusher
  <2>2. Head(inbox[r]) \in Events /\ Tail(inbox[r]) \in Seq(Events)
    BY <1>0, <2>1, HeadTailProperties DEF PubTypes
  <2>3. PubTypes' /\ RowTypes'
    BY <1>0, <2>1, <2>2 DEF PubTypes, RowTypes
  <2>4. CASE Reject(r) /\ UNCHANGED <<table, lease>>
    <3>1. TableTypes' /\ SubTypes' /\ PendingTypes'
      BY <1>0, <2>1, <2>4, RejectTypes DEF TableTypes, SubTypes, PendingTypes, table
    <3>2. OnlyAt(r) /\ Pointed(r)'
      BY <1>0, <2>1, <2>4 DEF OnlyAt, Pointed, Reject, SubTypes, PendingTypes
    <3> QED
      BY <2>3, <3>1, <3>2, OthersPointed
  <2>5. CASE ~ (Reject(r) /\ UNCHANGED <<table, lease>>)
    <3> DEFINE e == Head(inbox[r])
    <3>1. /\ event' = [event EXCEPT ![r] = e]
          /\ UNCHANGED <<applied, toPublish>>
          /\ \/ Grant(r, e) /\ pc' = [pc EXCEPT ![r] = "act"]
             \/ pc' = [pc EXCEPT ![r] = "insert"] /\ UNCHANGED <<claim, granted, lease>>
      BY <1>1, <2>5 DEF Receive
    <3>2. TableTypes' /\ lease' \in [Replicas -> 0..(MaxTime + Lease)]
      BY <1>0, <2>2, <3>1, GrantTypes DEF TableTypes, SubTypes
    <3>3. SubTypes' /\ PendingTypes'
      BY <1>0, <2>1, <2>2, <3>1, <3>2 DEF SubTypes, PendingTypes
    <3>4. OnlyAt(r) /\ Pointed(r)'
      BY <1>0, <2>1, <2>2, <3>1, DeliveryAssumption
         DEF OnlyAt, Pointed, Grant, SubTypes, PendingTypes
    <3> QED
      BY <2>3, <3>2, <3>3, <3>4, OthersPointed
  <2> QED
    BY <2>4, <2>5
<1>2. ASSUME ClaimRow(r) PROVE Shape'
  <2>1. event[r] \in Events
    BY <1>0, <1>2 DEF ClaimRow, Goto, SubTypes, Pointed
  <2>2. TableTypes' /\ lease' \in [Replicas -> 0..(MaxTime + Lease)]
    BY <1>0, <1>2, <2>1, GrantTypes DEF ClaimRow
  <2>3. PubTypes' /\ RowTypes' /\ SubTypes' /\ PendingTypes'
    <3>1. PubTypes' /\ RowTypes'
      BY <1>0, <1>2 DEF ClaimRow, PubTypes, RowTypes, rows
    <3>2. SubTypes'
      BY <1>0, <1>2, <2>2 DEF ClaimRow, Goto, SubTypes
    <3>3. PendingTypes'
      BY <1>0, <1>2 DEF ClaimRow, PendingTypes, rows, flusher
    <3> QED
      BY <3>1, <3>2, <3>3
  <2>4. OnlyAt(r) /\ Pointed(r)'
    BY <1>0, <1>2 DEF ClaimRow, Goto, Grant, OnlyAt, Pointed, SubTypes, flusher
  <2> QED
    BY <2>2, <2>3, <2>4, OthersPointed
<1>3. ASSUME Duplicate(r) \/ Refuse(r) PROVE Shape'
  <2>1. Reject(r) /\ UNCHANGED <<now, sends, inbox, table, rows, lease, flusher>>
    BY <1>3 DEF Duplicate, Refuse
  <2>2. PubTypes' /\ TableTypes' /\ RowTypes' /\ SubTypes' /\ PendingTypes'
    BY <1>0, <2>1, RejectTypes
       DEF PubTypes, TableTypes, RowTypes, SubTypes, PendingTypes, table, rows, flusher
  <2>3. OnlyAt(r) /\ Pointed(r)'
    BY <1>0, <2>1 DEF OnlyAt, Pointed, Reject, SubTypes, PendingTypes, flusher
  <2> QED
    BY <2>2, <2>3, OthersPointed
<1>4. ASSUME Act(r) PROVE Shape'
  <2>1. <<Len(outbox) + 1>> \in Seq(0..Len(outbox'))
    BY <1>0, <1>4, StoreRowTypes DEF Act
  <2>2. PendingTypes' /\ RowTypes'
    BY <1>0, <1>4, <2>1, StoreRowTypes DEF Act, PendingTypes, flusher
  <2>3. event[r] \in Events
    BY <1>0, <1>4 DEF Act, Goto, SubTypes, Pointed
  <2>4. PubTypes' /\ TableTypes' /\ SubTypes'
    <3>1. /\ UNCHANGED <<now, sends, inbox, claim, granted, event, lease>>
          /\ pc' = [pc EXCEPT ![r] = "publish"]
          /\ applied' = [applied EXCEPT ![event[r]] = @ + 1]
      BY <1>4 DEF Act, Goto
    <3>2. PubTypes /\ TableTypes /\ SubTypes
      BY <1>0
    <3>3. PubTypes'
      BY <3>1, <3>2 DEF PubTypes
    <3>4. TableTypes'
      BY <2>3, <3>1, <3>2 DEF TableTypes
    <3>5. SubTypes'
      BY <3>1, <3>2 DEF SubTypes
    <3> QED
      BY <3>3, <3>4, <3>5
  <2>5. OnlyAt(r) /\ Pointed(r)'
    BY <1>0, <1>4 DEF Act, Goto, OnlyAt, Pointed, SubTypes, PendingTypes, flusher
  <2> QED
    BY <2>2, <2>4, <2>5, OthersPointed
<1>5. ASSUME Enqueue(r) PROVE Shape'
  <2>1. toPublish[r] # <<>> /\ Len(outbox) + 1 \in 0..Len(outbox')
        /\ toPublish[r] \in Seq(0..Len(outbox'))
    BY <1>0, <1>5, StoreRowTypes DEF Enqueue
  <2>2. 1 \in 1..Len(toPublish[r])
    BY <2>1, EmptySeq
  <2>3. [toPublish[r] EXCEPT ![1] = Len(outbox) + 1] \in Seq(0..Len(outbox'))
    BY <2>1, <2>2, ExceptSeq
  <2>4. PendingTypes' /\ RowTypes'
    BY <1>0, <1>5, <2>3, StoreRowTypes DEF Enqueue, PendingTypes, flusher
  <2>5. PubTypes' /\ TableTypes' /\ SubTypes'
    BY <1>0, <1>5 DEF Enqueue, PubTypes, TableTypes, SubTypes, table
  <2>6. OnlyAt(r) /\ Pointed(r)'
    BY <1>0, <1>5 DEF Enqueue, OnlyAt, Pointed, SubTypes, PendingTypes, flusher
  <2> QED
    BY <2>4, <2>5, <2>6, OthersPointed
<1>6. ASSUME Publish(r) PROVE Shape'
  <2>1. Head(toPublish[r]) \in 1..Len(outbox)
    BY <1>6, PublishedRow DEF Publish
  <2>2. RowTypes'
    BY <1>0, <1>6, <2>1, StreamTypes DEF Publish, RowTypes
  <2>3. PubTypes' /\ TableTypes' /\ SubTypes' /\ PendingTypes'
    BY <1>0, <1>6
       DEF Publish, Goto, PubTypes, TableTypes, SubTypes, PendingTypes, table, flusher
  <2>4. OnlyAt(r) /\ Pointed(r)'
    BY <1>0, <1>6 DEF Publish, Goto, OnlyAt, Pointed, SubTypes, flusher
  <2> QED
    BY <2>2, <2>3, <2>4, OthersPointed
<1>7. ASSUME Published(r) PROVE Shape'
  <2>1. /\ Head(toPublish[r]) \in 1..Len(outbox)
        /\ Tail(toPublish[r]) \in Seq(0..Len(outbox))
    BY <1>0, <1>7, PublishedRow DEF Published, Goto, Pointed
  <2>2. RowTypes' /\ Len(outbox') = Len(outbox)
    BY <1>0, <1>7, <2>1, MarkTypes DEF Published, RowTypes
  <2>3. PubTypes' /\ TableTypes' /\ SubTypes' /\ PendingTypes'
    BY <1>0, <1>7, <2>1, <2>2
       DEF Published, Goto, PubTypes, TableTypes, SubTypes, PendingTypes, table, flusher
  <2>4. OnlyAt(r) /\ Pointed(r)'
    BY <1>0, <1>7 DEF Published, Goto, OnlyAt, Pointed, SubTypes, PendingTypes, flusher
  <2> QED
    BY <2>2, <2>3, <2>4, OthersPointed
<1>8. ASSUME Complete(r) PROVE Shape'
  <2>1. PubTypes' /\ RowTypes' /\ SubTypes' /\ PendingTypes'
    BY <1>0, <1>8, ForgetTypes
       DEF Complete, PubTypes, RowTypes, SubTypes, PendingTypes, rows, flusher
  <2>2. TableTypes'
    <3>1. [status |-> "completed", until |-> 0] \in
            [status : {"none", "processing", "completed"}, until : 0..(MaxTime + Lease)]
      BY DeliveryAssumption
    <3> QED
      BY <1>0, <1>8, <3>1 DEF Complete, TableTypes
  <2>3. OnlyAt(r) /\ Pointed(r)'
    BY <1>0, <1>8 DEF Complete, Forget, OnlyAt, Pointed, SubTypes, PendingTypes, flusher
  <2> QED
    BY <2>1, <2>2, <2>3, OthersPointed
<1> QED
  BY <1>1, <1>2, <1>3, <1>4, <1>5, <1>6, <1>7, <1>8 DEF Handle

LEMMA FlushShape ==
  ASSUME Shape, NEW r \in Replicas, Flush(r)
  PROVE  Shape'
<1>0. /\ PubTypes /\ TableTypes /\ RowTypes /\ SubTypes /\ PendingTypes
      /\ Pointed(r)
  BY DEF Shape
<1>1. PubTypes' /\ TableTypes' /\ SubTypes' /\ UNCHANGED toPublish
  BY <1>0 DEF Flush, FlushList, FlushPublish, FlushMark, PubTypes, TableTypes,
              SubTypes, table, sub
<1>2. ASSUME FlushList(r) PROVE Shape'
  <2>1. Pending \in SUBSET (1..Len(outbox))
    BY <1>0, LenProperties DEF RowTypes, Pending
  <2>2. RowTypes' /\ PendingTypes'
    BY <1>0, <1>2, <2>1 DEF FlushList, RowTypes, PendingTypes, rows, sub
  <2>3. OnlyAt(r) /\ Pointed(r)'
    BY <1>0, <1>2 DEF FlushList, OnlyAt, Pointed, PendingTypes, sub
  <2> QED
    BY <1>1, <2>2, <2>3, OthersPointed
<1>3. ASSUME FlushPublish(r) PROVE Shape'
  <2>1. First(r) \in 1..Len(outbox) /\ batch[r] # {}
    BY <1>0, <1>3, FirstInBatch DEF FlushPublish, Pointed
  <2>2. RowTypes'
    BY <1>0, <1>3, <2>1, StreamTypes DEF FlushPublish, RowTypes
  <2>3. PendingTypes'
    BY <1>0, <1>3 DEF FlushPublish, PendingTypes, sub
  <2>4. OnlyAt(r) /\ Pointed(r)'
    BY <1>0, <1>3, <2>1 DEF FlushPublish, OnlyAt, Pointed, PendingTypes, sub
  <2> QED
    BY <1>1, <2>2, <2>3, <2>4, OthersPointed
<1>4. ASSUME FlushMark(r) PROVE Shape'
  <2>1. First(r) \in 1..Len(outbox) /\ First(r) \in batch[r]
    BY <1>0, <1>4, FirstInBatch DEF FlushMark, Pointed
  <2>2. RowTypes' /\ Len(outbox') = Len(outbox)
    BY <1>0, <1>4, <2>1, MarkTypes DEF FlushMark, RowTypes
  <2>3. PendingTypes'
    BY <1>0, <1>4, <2>2 DEF FlushMark, PendingTypes, sub
  <2>4. OnlyAt(r) /\ Pointed(r)'
    BY <1>0, <1>4, <2>1 DEF FlushMark, OnlyAt, Pointed, PendingTypes, sub
  <2> QED
    BY <1>1, <2>2, <2>3, <2>4, OthersPointed
<1> QED
  BY <1>2, <1>3, <1>4 DEF Flush

\* What ends a task, with what is dropped with it.
LEMMA DropShape ==
  ASSUME Shape, NEW r \in Replicas,
         UNCHANGED <<now, sends, table, rows, lease>>,
         \/ Forget(r) /\ (inbox' = inbox \/ inbox' = [inbox EXCEPT ![r] = <<>>])
         \/ UNCHANGED <<inbox, pc, event, toPublish>>,
         DropMaintenance(r) \/ UNCHANGED flusher
  PROVE  Shape'
<1>0. /\ PubTypes /\ TableTypes /\ RowTypes /\ SubTypes /\ PendingTypes
      /\ Pointed(r)
  BY DEF Shape
<1>1. TableTypes' /\ RowTypes' /\ Len(outbox') = Len(outbox)
  BY <1>0 DEF TableTypes, RowTypes, table, rows
<1>2. PubTypes'
  <2>1. <<>> \in Seq(Events)
    BY EmptySeq
  <2> QED
    BY <1>0, <2>1 DEF PubTypes
<1>3. SubTypes' /\ toPublish' \in [Replicas -> Seq(0..Len(outbox))]
  BY <1>0, ForgetTypes DEF SubTypes, PendingTypes
<1>4. PendingTypes'
  BY <1>0, <1>1, <1>3 DEF PendingTypes, DropMaintenance, flusher
<1>5. OnlyAt(r) /\ Pointed(r)'
  BY <1>0 DEF OnlyAt, Pointed, Forget, DropMaintenance, SubTypes, PendingTypes, flusher
<1> QED
  BY <1>1, <1>2, <1>3, <1>4, <1>5, OthersPointed

-----------------------------------------------------------------------------
(* What a handler may rely on at the await it is in, and what a claim and  *)
(* the counters say of the handlers.                                       *)

\* The replicas that were granted the event and have not acted on it yet.
Acting(e) == {r \in Replicas : pc[r] = "act" /\ event[r] = e}

\* The n-th grant is n leases old when it ends.
ClaimInOrder(e) ==
  /\ applied[e] + Cardinality(Acting(e)) =< granted[e]
  /\ claim[e].status = "none" => granted[e] = 0
  /\ claim[e].status = "processing" =>
       granted[e] * Lease =< claim[e].until /\ claim[e].until =< now + Lease
  /\ claim[e].status = "completed" =>
       applied[e] > 0 /\ granted[e] * Lease =< now + Lease

HandlerInOrder(r) ==
  /\ event[r] # NoEvent /\ pc[r] # "insert" =>
       /\ claim[event[r]].status # "none"
       /\ claim[event[r]].status = "processing" =>
            lease[r] =< claim[event[r]].until
  /\ event[r] # NoEvent /\ pc[r] \in {"publish", "mark"} =>
       applied[event[r]] > 0

\* A row that is about to be marked as sent is on the stream.
PublisherInOrder(r) ==
  /\ pc[r] = "mark" => copies[Head(toPublish[r])] > 0
  /\ flush[r] = "mark" => copies[First(r)] > 0

ControlInv ==
  /\ \A e \in Events : ClaimInOrder(e)
  /\ \A r \in Replicas : HandlerInOrder(r)
  /\ LeaseIsExclusive

StreamInv ==
  /\ \A r \in Replicas : PublisherInOrder(r)
  /\ SentIsOnStream

DeliveryInv == LifecycleInv /\ Shape /\ ControlInv /\ StreamInv

-----------------------------------------------------------------------------
(* Claims.                                                                 *)

LEMMA ActingFinite ==
  ASSUME NEW e PROVE IsFiniteSet(Acting(e)) /\ Cardinality(Acting(e)) \in Nat
<1>1. Acting(e) \subseteq Replicas /\ IsFiniteSet(Replicas)
  BY DeliveryAssumption DEF Acting
<1> QED
  BY <1>1, FS_Subset, FS_CardinalityType

LEMMA LeaseProduct == ASSUME NEW g \in Nat PROVE g * Lease \in Nat
  BY DeliveryAssumption

LEMMA LaterBound ==
  ASSUME NEW a \in Nat, NEW b \in Nat, a =< b, NEW d \in Nat, NEW u \in Nat
  PROVE  u =< a + d => u =< b + d
  OBVIOUS

LEMMA AtMost ==
  ASSUME NEW p \in Nat, NEW u \in Nat, NEW x \in Nat, p =< u, u =< x
  PROVE  p =< x
  OBVIOUS

\* The last grant of an event is still within its lease.
LEMMA GrantsBounded ==
  ASSUME Shape, ControlInv, NEW e \in Events, claim[e].status # "none"
  PROVE  granted[e] * Lease =< now + Lease
<1>1. granted[e] \in Nat /\ now \in Nat /\ Lease \in Nat
  BY DeliveryAssumption DEF Shape, TableTypes, PubTypes
<1>2. granted[e] * Lease \in Nat /\ now + Lease \in Nat
  BY <1>1
<1>3. ClaimInOrder(e)
  BY DEF ControlInv
<1>4. /\ claim[e].status \in {"none", "processing", "completed"}
      /\ claim[e].until \in 0..(MaxTime + Lease)
  BY DEF Shape, TableTypes
<1>5. claim[e].until \in Nat
  BY <1>4, DeliveryAssumption
<1>6. CASE claim[e].status = "processing"
  <2>1. granted[e] * Lease =< claim[e].until /\ claim[e].until =< now + Lease
    BY <1>3, <1>6 DEF ClaimInOrder
  <2> QED
    BY <1>2, <1>5, <2>1, AtMost
<1>7. CASE claim[e].status = "completed"
  BY <1>3, <1>7 DEF ClaimInOrder
<1> QED
  BY <1>4, <1>6, <1>7

\* Steps that grant nothing, have no effect and complete nothing.
LEMMA QuietControl ==
  ASSUME Shape, ControlInv, Shape', UNCHANGED <<table, lease>>, now =< now',
         \A q \in Replicas :
           \/ event'[q] = NoEvent
           \/ pc'[q] = "insert"
           \/ /\ event'[q] = event[q] /\ pc[q] # "insert"
              /\ \/ pc'[q] = pc[q]
                 \/ {pc[q], pc'[q]} \subseteq {"publish", "mark"}
  PROVE  ControlInv'
<1>0. now \in Nat /\ now' \in Nat /\ Lease \in Nat
  BY DeliveryAssumption DEF Shape, PubTypes
<1>1. ASSUME NEW e \in Events PROVE ClaimInOrder(e)'
  <2>1. Acting(e)' \subseteq Acting(e)
    BY <1>1, DeliveryAssumption DEF Acting
  <2>2. Cardinality(Acting(e)') =< Cardinality(Acting(e))
    BY <2>1, ActingFinite, FS_Subset
  <2>3. Cardinality(Acting(e)') \in Nat /\ Cardinality(Acting(e)) \in Nat
    BY <2>1, ActingFinite, FS_Subset, FS_CardinalityType
  <2>4. applied[e] + Cardinality(Acting(e)') =< granted[e]
    BY <1>1, <2>2, <2>3 DEF ControlInv, ClaimInOrder, Shape, TableTypes
  <2>5. granted[e] * Lease \in Nat /\ claim[e].until \in Nat
    BY <1>1, LeaseProduct, DeliveryAssumption DEF Shape, TableTypes
  <2>6. /\ claim[e].status = "processing" => claim[e].until =< now' + Lease
        /\ claim[e].status = "completed" => granted[e] * Lease =< now' + Lease
    <3>1. ClaimInOrder(e)
      BY DEF ControlInv
    <3>2. /\ claim[e].status = "processing" => claim[e].until =< now + Lease
          /\ claim[e].status = "completed" => granted[e] * Lease =< now + Lease
      BY <3>1 DEF ClaimInOrder
    <3>3. /\ claim[e].until =< now + Lease => claim[e].until =< now' + Lease
          /\ granted[e] * Lease =< now + Lease => granted[e] * Lease =< now' + Lease
      BY <1>0, <2>5, LaterBound
    <3> QED
      BY <3>2, <3>3
  <2>7. ClaimInOrder(e)
    BY DEF ControlInv
  <2> QED
    BY <2>4, <2>6, <2>7 DEF ClaimInOrder, table
<1>2. ASSUME NEW q \in Replicas PROVE HandlerInOrder(q)'
  BY <1>2 DEF ControlInv, HandlerInOrder, table
<1>3. \A q \in Replicas : Owns(q)' => Owns(q) /\ event'[q] = event[q]
  BY <1>0 DEF Owns, Shape, SubTypes
<1>4. LeaseIsExclusive'
  BY <1>3 DEF ControlInv, LeaseIsExclusive
<1> QED
  BY <1>1, <1>2, <1>4 DEF ControlInv

LEMMA GrantControl ==
  ASSUME Shape, ControlInv, Shape', UNCHANGED <<now, applied>>,
         NEW r \in Replicas, NEW e \in Events, Grant(r, e),
         Reclaimable(e) \/ claim[e].status = "none",
         pc[r] \in {"listen", "insert"}, pc'[r] = "act", event'[r] = e,
         \A q \in Replicas \ {r} : pc'[q] = pc[q] /\ event'[q] = event[q]
  PROVE  ControlInv'
<1>0. now \in Nat /\ Lease \in Nat /\ granted[e] \in Nat /\ applied[e] \in Nat
      /\ granted[e] * Lease \in Nat
  <2>1. now \in Nat /\ Lease \in Nat
    BY DeliveryAssumption DEF Shape, PubTypes
  <2>2. granted[e] \in Nat /\ applied[e] \in Nat
    BY DEF Shape, TableTypes
  <2> QED
    BY <2>1, <2>2, LeaseProduct
<1>1. /\ granted'[e] = granted[e] + 1
      /\ claim'[e] = [status |-> "processing", until |-> now + Lease]
      /\ lease'[r] = now + Lease
      /\ \A d \in Events \ {e} : claim'[d] = claim[d] /\ granted'[d] = granted[d]
      /\ \A q \in Replicas \ {r} : lease'[q] = lease[q]
  <2>1. claim' = [claim EXCEPT ![e] = [status |-> "processing", until |-> now + Lease]]
        /\ granted' = [granted EXCEPT ![e] = @ + 1]
        /\ lease' = [lease EXCEPT ![r] = now + Lease]
    BY DEF Grant
  <2>2. DOMAIN claim = Events /\ DOMAIN granted = Events /\ DOMAIN lease = Replicas
    BY DEF Shape, TableTypes, SubTypes
  <2> QED
    BY <2>1, <2>2
<1>2. ClaimInOrder(e)'
  <2>1. Acting(e)' = Acting(e) \cup {r} /\ r \notin Acting(e)
    BY DEF Acting
  <2>2. Cardinality(Acting(e)') = Cardinality(Acting(e)) + 1
    <3>1. IsFiniteSet(Acting(e))
      BY ActingFinite
    <3>2. Cardinality(Acting(e) \cup {r}) = Cardinality(Acting(e)) + 1
      BY <2>1, <3>1, FS_AddElement
    <3> QED
      BY <2>1, <3>2
  <2>3. applied[e] + Cardinality(Acting(e)') =< granted[e] + 1
    BY <1>0, <2>2, ActingFinite DEF ControlInv, ClaimInOrder
  <2>4. granted[e] * Lease =< now
    <3>1. CASE claim[e].status = "none"
      BY <1>0, <3>1 DEF ControlInv, ClaimInOrder
    <3>2. CASE Reclaimable(e)
      BY <1>0, <3>2 DEF ControlInv, ClaimInOrder, Reclaimable, Shape, TableTypes
    <3> QED
      BY <3>1, <3>2
  <2>5. (granted[e] + 1) * Lease = granted[e] * Lease + Lease
    BY <1>0
  <2>6. (granted[e] + 1) * Lease =< now + Lease
    BY <1>0, <2>4, <2>5
  <2> QED
    BY <1>0, <1>1, <2>3, <2>6 DEF ClaimInOrder
<1>3. ASSUME NEW d \in Events \ {e} PROVE ClaimInOrder(d)'
  <2>1. Acting(d)' = Acting(d)
    BY <1>3 DEF Acting
  <2> QED
    BY <1>1, <1>3, <2>1 DEF ControlInv, ClaimInOrder
<1>4. HandlerInOrder(r)'
  BY <1>0, <1>1 DEF HandlerInOrder
<1>5. ASSUME NEW q \in Replicas \ {r} PROVE HandlerInOrder(q)'
  <2>1. HandlerInOrder(q)
    BY <1>5 DEF ControlInv
  <2>2. CASE event[q] = NoEvent \/ pc[q] = "insert"
    BY <1>5, <2>2 DEF HandlerInOrder
  <2>3. CASE event[q] # NoEvent /\ event[q] # e
    <3>1. event[q] \in Events \ {e}
      BY <1>5, <2>3 DEF Shape, SubTypes
    <3> QED
      BY <1>1, <1>5, <2>1, <3>1 DEF HandlerInOrder
  <2>4. CASE event[q] = e /\ pc[q] # "insert"
    <3>1. claim[e].status # "none"
      BY <2>1, <2>4, DeliveryAssumption DEF HandlerInOrder
    <3>2. lease[q] =< now
      <4>1. lease[q] =< claim[e].until /\ claim[e].until =< now
        BY <2>1, <2>4, <3>1, DeliveryAssumption DEF HandlerInOrder, Reclaimable
      <4>2. lease[q] \in Nat /\ claim[e].until \in Nat
        BY DeliveryAssumption DEF Shape, SubTypes, TableTypes
      <4> QED
        BY <1>0, <4>1, <4>2
    <3>3. lease'[q] =< now + Lease
      <4>1. lease[q] \in Nat
        BY DeliveryAssumption DEF Shape, SubTypes
      <4> QED
        BY <1>0, <1>1, <3>2, <4>1
    <3> QED
      BY <1>1, <1>5, <2>1, <2>4, <3>3 DEF HandlerInOrder
  <2> QED
    BY <2>2, <2>3, <2>4
<1>6. ASSUME NEW q \in Replicas \ {r}, Owns(q)' PROVE Owns(q) /\ event[q] # e
  <2>1. Owns(q)
    BY <1>1, <1>6 DEF Owns
  <2>2. event[q] = e => lease[q] =< now
    <3>1. HandlerInOrder(q) /\ pc[q] # "insert" /\ event[q] # NoEvent
      BY <1>6, <2>1 DEF ControlInv, Owns
    <3>2. event[q] = e => lease[q] =< claim[e].until /\ claim[e].until =< now
      BY <3>1 DEF HandlerInOrder, Reclaimable
    <3>3. lease[q] \in Nat /\ claim[e].until \in Nat
      BY DeliveryAssumption DEF Shape, SubTypes, TableTypes
    <3> QED
      BY <1>0, <3>2, <3>3
  <2>3. lease[q] \in Nat
    BY DeliveryAssumption DEF Shape, SubTypes
  <2> QED
    BY <1>0, <2>1, <2>2, <2>3 DEF Owns
<1>7. LeaseIsExclusive'
  BY <1>6 DEF ControlInv, LeaseIsExclusive
<1> QED
  BY <1>2, <1>3, <1>4, <1>5, <1>7 DEF ControlInv

LEMMA ActControl ==
  ASSUME Shape, ControlInv, Shape', NEW r \in Replicas, Act(r)
  PROVE  ControlInv'
<1> DEFINE e == event[r]
<1>0. e \in Events /\ pc[r] = "act"
  BY DEF Act, Goto, Shape, SubTypes, Pointed
<1>1. /\ UNCHANGED <<now, claim, granted, event, lease>>
      /\ applied'[e] = applied[e] + 1
      /\ \A d \in Events \ {e} : applied'[d] = applied[d]
      /\ pc'[r] = "publish" /\ \A q \in Replicas \ {r} : pc'[q] = pc[q]
  BY <1>0 DEF Act, Goto, Shape, SubTypes, TableTypes
<1>2. ClaimInOrder(e)'
  <2>1. Acting(e)' = Acting(e) \ {r} /\ r \in Acting(e)
    BY <1>0, <1>1 DEF Acting
  <2>2. Cardinality(Acting(e)') = Cardinality(Acting(e)) - 1
    BY <2>1, ActingFinite, FS_RemoveElement
  <2>3. applied[e] \in Nat /\ granted[e] \in Nat
    BY <1>0 DEF Shape, TableTypes
  <2> QED
    BY <1>0, <1>1, <2>2, <2>3, ActingFinite DEF ControlInv, ClaimInOrder
<1>3. ASSUME NEW d \in Events \ {e} PROVE ClaimInOrder(d)'
  <2>1. Acting(d)' = Acting(d)
    BY <1>1, <1>3 DEF Acting
  <2> QED
    BY <1>1, <1>3, <2>1 DEF ControlInv, ClaimInOrder
<1>4. ASSUME NEW q \in Replicas PROVE HandlerInOrder(q)'
  <2>1. HandlerInOrder(q) /\ event[q] \in Events \cup {NoEvent}
    BY <1>4 DEF ControlInv, Shape, SubTypes
  <2>2. \A d \in Events : applied[d] \in Nat
    BY DEF Shape, TableTypes
  <2> QED
    BY <1>0, <1>1, <2>1, <2>2 DEF HandlerInOrder
<1>5. \A q \in Replicas : Owns(q)' => Owns(q)
  BY <1>0, <1>1 DEF Owns
<1>6. LeaseIsExclusive'
  BY <1>1, <1>5 DEF ControlInv, LeaseIsExclusive
<1>7. ASSUME NEW d \in Events PROVE ClaimInOrder(d)'
  <2>1. CASE d = event[r]
    BY <1>1, <1>2, <2>1 DEF ClaimInOrder, Acting
  <2> QED
    BY <1>3, <2>1
<1> QED
  BY <1>4, <1>6, <1>7 DEF ControlInv

LEMMA CompleteControl ==
  ASSUME Shape, ControlInv, Shape', NEW r \in Replicas, Complete(r)
  PROVE  ControlInv'
<1> DEFINE e == event[r]
<1>1. /\ UNCHANGED <<now, applied, granted, lease>> /\ pc[r] = "publish"
      /\ pc'[r] = "listen" /\ event'[r] = NoEvent
      /\ \A q \in Replicas \ {r} : pc'[q] = pc[q] /\ event'[q] = event[q]
  BY DEF Complete, Forget, Shape, SubTypes
<1>2. CASE e = NoEvent
  <2>1. UNCHANGED <<table, lease>>
    BY <1>1, <1>2 DEF Complete, table
  <2>2. \A q \in Replicas \ {r} : pc[q] = "insert" \/ pc[q] # "insert"
    OBVIOUS
  <2> QED
    BY <1>1, <2>1, QuietControl DEF Shape, PubTypes
<1>3. CASE e # NoEvent
  <2>0. /\ e \in Events
        /\ claim'[e] = [status |-> "completed", until |-> 0]
        /\ \A d \in Events \ {e} : claim'[d] = claim[d]
    BY <1>3 DEF Complete, Shape, SubTypes, TableTypes
  <2>1. applied[e] > 0 /\ claim[e].status # "none"
    BY <1>1, <1>3 DEF ControlInv, HandlerInOrder
  <2>2. granted[e] * Lease =< now + Lease
    BY <2>0, <2>1, GrantsBounded
  <2>3. \A d \in Events : Acting(d)' = Acting(d)
    BY <1>1 DEF Acting
  <2>4. ASSUME NEW d \in Events PROVE ClaimInOrder(d)'
    BY <1>1, <2>0, <2>1, <2>2, <2>3, <2>4 DEF ControlInv, ClaimInOrder
  <2>5. ASSUME NEW q \in Replicas PROVE HandlerInOrder(q)'
    <3>1. HandlerInOrder(q) /\ event[q] \in Events \cup {NoEvent}
      BY <2>5 DEF ControlInv, Shape, SubTypes
    <3> QED
      BY <1>1, <2>0, <3>1 DEF HandlerInOrder
  <2>6. \A q \in Replicas : Owns(q)' => Owns(q) /\ event'[q] = event[q]
    BY <1>1 DEF Owns
  <2>7. LeaseIsExclusive'
    BY <2>6 DEF ControlInv, LeaseIsExclusive
  <2> QED
    BY <2>4, <2>5, <2>7 DEF ControlInv
<1> QED
  BY <1>2, <1>3

-----------------------------------------------------------------------------
(* The steps that only end or interrupt something.                         *)

\* Whatever ends, r drops what it was about to do, or does not notice.
Drops(r) ==
  /\ UNCHANGED <<now, sends, table, rows, lease>>
  /\ \/ Forget(r) /\ (inbox' = inbox \/ inbox' = [inbox EXCEPT ![r] = <<>>])
     \/ UNCHANGED <<inbox, pc, event, toPublish>>
  /\ DropMaintenance(r) \/ UNCHANGED flusher

Ends(r) ==
  \/ Fails(r) /\ ~ PublishFails(r)
  \/ Advances(r) \/ Disturbed(r) \/ Killed(r)
  \/ SubscriberEnds(r) \/ MaintenanceEnds(r)

LEMMA EndsDrops == ASSUME NEW r \in Replicas, Ends(r) PROVE Drops(r)
<1> USE DEF Drops
<1>1. CASE Fails(r) /\ ~ PublishFails(r)
  BY <1>1 DEF Fails, HandlerFails, FlushFails, DropMaintenance, sub
<1>2. CASE Advances(r) \/ Disturbed(r)
  BY <1>2 DEF Advances, Disturbed, sub
<1>3. CASE Killed(r)
  BY <1>3 DEF Killed, DropSubscriber
<1>4. CASE SubscriberEnds(r)
  BY <1>4 DEF SubscriberEnds, DropSubscriber
<1>5. CASE MaintenanceEnds(r)
  BY <1>5 DEF MaintenanceEnds, sub
<1> QED
  BY <1>1, <1>2, <1>3, <1>4, <1>5 DEF Ends

LEMMA SameLifecycle ==
  ASSUME LifecycleInv,
         UNCHANGED lifecycle
           \/ (Fault /\ UNCHANGED <<phase, open, task, cancelled, boots>>)
  PROVE  LifecycleInv'
<1>1. faults' \in 0..MaxFaults
  BY FaultCounts DEF LifecycleInv, LifecycleTypeOK, lifecycle
<1> QED
  BY <1>1 DEF LifecycleInv, LifecycleTypeOK, lifecycle, InOrder, Quiet

LEMMA EndsLifecycle ==
  ASSUME LifecycleInv, NEW r \in Replicas, Ends(r) PROVE LifecycleInv'
<1> USE DEF LifecycleStep
<1>1. CASE Fails(r) /\ ~ PublishFails(r)
  BY <1>1, SameLifecycle DEF Fails, HandlerFails, FlushFails
<1>2. CASE Advances(r) \/ Disturbed(r) \/ Killed(r)
  BY <1>2, LifecycleSteps DEF Advances, Disturbed, Killed
<1>3. CASE SubscriberEnds(r) \/ MaintenanceEnds(r)
  <2>1. LifecycleStep(r)
    BY <1>3 DEF SubscriberEnds, MaintenanceEnds, Tasks
  <2> QED
    BY <2>1, LifecycleSteps
<1> QED
  BY <1>1, <1>2, <1>3 DEF Ends

-----------------------------------------------------------------------------
(* The stream.                                                             *)

LEMMA StreamKept ==
  ASSUME Shape, StreamInv, Shape', SentIsOnStream',
         \A i \in 1..Len(outbox) :
           copies[i] \in Nat /\ copies'[i] \in Nat /\ copies[i] =< copies'[i],
         \A q \in Replicas :
           /\ pc'[q] = "mark" =>
                \/ pc[q] = "mark" /\ toPublish'[q] = toPublish[q]
                \/ copies'[Head(toPublish'[q])] > 0
           /\ flush'[q] = "mark" =>
                \/ flush[q] = "mark" /\ batch'[q] = batch[q]
                \/ copies'[First(q)'] > 0
  PROVE  StreamInv'
<1>1. ASSUME NEW q \in Replicas PROVE PublisherInOrder(q)'
  <2>1. Pointed(q) /\ RowTypes /\ PendingTypes /\ PublisherInOrder(q)
    BY <1>1 DEF Shape, StreamInv
  <2>2. pc'[q] = "mark" => copies'[Head(toPublish'[q])] > 0
    <3>1. CASE pc[q] = "mark" /\ toPublish'[q] = toPublish[q]
      <4>1. Head(toPublish[q]) \in 1..Len(outbox)
        BY <2>1, <3>1, PublishedRow DEF Pointed
      <4> QED
        BY <2>1, <3>1, <4>1 DEF PublisherInOrder
    <3> QED
      BY <3>1
  <2>3. flush'[q] = "mark" => copies'[First(q)'] > 0
    <3>1. CASE flush[q] = "mark" /\ batch'[q] = batch[q]
      <4>1. First(q) \in 1..Len(outbox) /\ First(q)' = First(q)
        BY <2>1, <3>1, FirstInBatch DEF Pointed, First
      <4> QED
        BY <2>1, <3>1, <4>1 DEF PublisherInOrder
    <3> QED
      BY <3>1
  <2> QED
    BY <2>2, <2>3 DEF PublisherInOrder
<1> QED
  BY <1>1 DEF StreamInv

\* The rows are what they were.
LEMMA SameRows ==
  ASSUME Shape, StreamInv, Shape', UNCHANGED rows,
         \A q \in Replicas :
           /\ pc'[q] = "mark" => pc[q] = "mark" /\ toPublish'[q] = toPublish[q]
           /\ flush'[q] = "mark" => flush[q] = "mark" /\ batch'[q] = batch[q]
  PROVE  StreamInv'
<1>1. copies \in Seq(Nat) /\ Len(copies) = Len(outbox)
  BY DEF Shape, RowTypes
<1>2. \A i \in 1..Len(outbox) :
        copies[i] \in Nat /\ copies'[i] \in Nat /\ copies[i] =< copies'[i]
  BY <1>1, ElementOfSeq DEF rows
<1>3. SentIsOnStream'
  BY DEF StreamInv, SentIsOnStream, rows
<1> QED
  BY <1>2, <1>3, StreamKept

LEMMA CopyCounts ==
  ASSUME RowTypes PROVE \A i \in 1..Len(outbox) : copies[i] \in Nat
<1>1. copies \in Seq(Nat) /\ Len(copies) = Len(outbox)
  BY DEF RowTypes
<1> QED
  BY <1>1, ElementOfSeq

\* A row was added.
LEMMA RowAdded ==
  ASSUME Shape, StreamInv, Shape', StoreRow, UNCHANGED flusher,
         \A q \in Replicas :
           pc'[q] = "mark" => pc[q] = "mark" /\ toPublish'[q] = toPublish[q]
  PROVE  StreamInv'
<1>0. RowTypes /\ PendingTypes /\ copies \in Seq(Nat) /\ outbox \in Seq({"pending", "sent"})
      /\ Len(copies) = Len(outbox) /\ Len(outbox) \in Nat /\ DOMAIN outbox = 1..Len(outbox)
  BY LenProperties DEF Shape, RowTypes
<1>1. \A i \in 1..Len(outbox) : outbox'[i] = outbox[i] /\ copies'[i] = copies[i]
  BY <1>0, StoreRowTypes
<1>2. outbox'[Len(outbox) + 1] = "pending" /\ DOMAIN outbox' = 1..(Len(outbox) + 1)
  <2>1. /\ outbox' \in Seq({"pending", "sent"}) /\ Len(outbox') = Len(outbox) + 1
        /\ outbox'[Len(outbox) + 1] = "pending"
    BY <1>0, StoreRowTypes DEF RowTypes
  <2> QED
    BY <2>1, LenProperties
<1>3. \A i \in 1..Len(outbox) :
        copies[i] \in Nat /\ copies'[i] \in Nat /\ copies[i] =< copies'[i]
  <2>1. \A i \in 1..Len(outbox) : copies[i] \in Nat
    BY <1>0, CopyCounts
  <2> QED
    BY <1>1, <2>1
<1>4. SentIsOnStream'
  BY <1>0, <1>1, <1>2 DEF StreamInv, SentIsOnStream
<1> QED
  BY <1>3, <1>4, StreamKept DEF flusher

\* A row was published.
LEMMA RowStreamed ==
  ASSUME Shape, StreamInv, Shape', NEW i \in 1..Len(outbox), AddToStream(i),
         UNCHANGED <<outbox, toPublish, batch>>,
         \A q \in Replicas :
           /\ pc'[q] = "mark" => pc[q] = "mark" \/ Head(toPublish[q]) = i
           /\ flush'[q] = "mark" => flush[q] = "mark" \/ First(q) = i
  PROVE  StreamInv'
<1>0. RowTypes /\ copies \in Seq(Nat) /\ Len(copies) = Len(outbox) /\ Len(outbox) \in Nat
      /\ DOMAIN outbox = 1..Len(outbox)
  BY LenProperties DEF Shape, RowTypes
<1>1. \A k \in 1..Len(outbox) :
        copies[k] \in Nat /\ copies'[k] = IF k = i THEN copies[k] + 1 ELSE copies[k]
  <2>1. \A k \in 1..Len(outbox) : copies[k] \in Nat
    BY <1>0, CopyCounts
  <2>2. /\ Len(copies) = Len(outbox)
        /\ \A k \in 1..Len(copies) :
             copies'[k] = IF k = i THEN copies[k] + 1 ELSE copies[k]
    BY <1>0, StreamTypes DEF RowTypes
  <2> QED
    BY <2>1, <2>2
<1>2. /\ copies'[i] > 0
      /\ \A k \in 1..Len(outbox) :
           copies[k] \in Nat /\ copies'[k] \in Nat /\ copies[k] =< copies'[k]
  BY <1>1
<1>3. SentIsOnStream'
  BY <1>0, <1>1 DEF StreamInv, SentIsOnStream
<1>4. \A q \in Replicas : First(q)' = First(q)
  BY DEF First
<1> QED
  BY <1>2, <1>3, <1>4, StreamKept

\* A row that is on the stream was marked.
LEMMA RowMarked ==
  ASSUME Shape, StreamInv, Shape', NEW i \in 1..Len(outbox), MarkSent(i),
         copies[i] > 0, UNCHANGED copies,
         \A q \in Replicas :
           /\ pc'[q] = "mark" => pc[q] = "mark" /\ toPublish'[q] = toPublish[q]
           /\ flush'[q] = "mark" => flush[q] = "mark" /\ batch'[q] = batch[q]
  PROVE  StreamInv'
<1>0. RowTypes /\ copies \in Seq(Nat) /\ Len(copies) = Len(outbox) /\ Len(outbox) \in Nat
      /\ DOMAIN outbox = 1..Len(outbox)
  BY LenProperties DEF Shape, RowTypes
<1>1. /\ DOMAIN outbox' = 1..Len(outbox)
      /\ \A k \in 1..Len(outbox) : outbox'[k] = IF k = i THEN "sent" ELSE outbox[k]
  BY <1>0, MarkTypes, LenProperties
<1>2. SentIsOnStream'
  BY <1>0, <1>1 DEF StreamInv, SentIsOnStream
<1>3. \A k \in 1..Len(outbox) :
        copies[k] \in Nat /\ copies'[k] \in Nat /\ copies[k] =< copies'[k]
  BY <1>0, ElementOfSeq
<1> QED
  BY <1>2, <1>3, StreamKept

-----------------------------------------------------------------------------
(* Every step keeps the invariant.                                         *)

LEMMA HandleControl ==
  ASSUME DeliveryInv, Shape', NEW r \in Replicas, Handle(r)
  PROVE  ControlInv'
<1>0. Shape /\ ControlInv /\ Pointed(r) /\ now =< now
  BY DEF DeliveryInv, Shape, PubTypes
<1>1. ASSUME Receive(r) PROVE ControlInv'
  <2> DEFINE e == Head(inbox[r])
  <2>0. e \in Events /\ pc[r] = "listen" /\ UNCHANGED <<now, applied>>
    BY <1>0, <1>1, HeadTailProperties DEF Receive, Shape, PubTypes, table
  <2>1. CASE Reject(r) /\ UNCHANGED <<table, lease>>
    BY <1>0, <2>0, <2>1, QuietControl DEF Reject, Shape, SubTypes
  <2>2. CASE ~ (Reject(r) /\ UNCHANGED <<table, lease>>)
    <3>1. /\ event' = [event EXCEPT ![r] = e]
          /\ UNCHANGED applied
          /\ IF Reclaimable(e)
             THEN Grant(r, e) /\ pc' = [pc EXCEPT ![r] = "act"]
             ELSE pc' = [pc EXCEPT ![r] = "insert"] /\ UNCHANGED <<claim, granted, lease>>
      BY <1>1, <2>2 DEF Receive
    <3>2. CASE Reclaimable(e)
      BY <1>0, <2>0, <3>1, <3>2, GrantControl DEF Shape, SubTypes
    <3>3. CASE ~ Reclaimable(e)
      BY <1>0, <2>0, <3>1, <3>3, QuietControl DEF table, Shape, SubTypes
    <3> QED
      BY <3>2, <3>3
  <2> QED
    BY <2>1, <2>2
<1>2. ASSUME ClaimRow(r) PROVE ControlInv'
  <2>1. event[r] \in Events /\ UNCHANGED <<now, applied, event>>
        /\ Grant(r, event[r]) /\ claim[event[r]].status = "none" /\ pc[r] = "insert"
    BY <1>0, <1>2 DEF ClaimRow, Goto, Shape, SubTypes, Pointed
  <2>2. pc'[r] = "act" /\ \A q \in Replicas \ {r} : pc'[q] = pc[q]
    BY <1>0, <1>2 DEF ClaimRow, Goto, Shape, SubTypes
  <2> QED
    BY <1>0, <2>1, <2>2, GrantControl
<1>3. ASSUME Duplicate(r) \/ Refuse(r) PROVE ControlInv'
  <2>1. Reject(r) /\ UNCHANGED <<now, table, lease>>
    BY <1>3 DEF Duplicate, Refuse
  <2> QED
    BY <1>0, <2>1, QuietControl DEF Reject, Shape, SubTypes
<1>4. ASSUME Enqueue(r) \/ Publish(r) \/ Published(r) PROVE ControlInv'
  <2>1. UNCHANGED <<now, table, lease, event>>
    BY <1>4 DEF Enqueue, Publish, Published
  <2>2. /\ pc[r] \in {"publish", "mark"} /\ pc'[r] \in {"publish", "mark"}
        /\ \A q \in Replicas \ {r} : pc'[q] = pc[q]
    BY <1>0, <1>4 DEF Enqueue, Publish, Published, Goto, Shape, SubTypes
  <2>3. \A q \in Replicas :
          \/ pc'[q] = "insert"
          \/ pc[q] # "insert" /\ (pc'[q] = pc[q] \/ {pc[q], pc'[q]} \subseteq {"publish", "mark"})
    BY <2>2
  <2> QED
    BY <1>0, <2>1, <2>3, QuietControl
<1> QED
  BY <1>0, <1>1, <1>2, <1>3, <1>4, ActControl, CompleteControl DEF Handle

LEMMA HandleStream ==
  ASSUME DeliveryInv, Shape', NEW r \in Replicas, Handle(r)
  PROVE  StreamInv'
<1>0. Shape /\ StreamInv /\ Pointed(r) /\ PublisherInOrder(r)
      /\ pc \in [Replicas -> {"listen", "insert", "act", "publish", "mark"}]
      /\ toPublish \in [Replicas -> Seq(0..Len(outbox))]
  BY DEF DeliveryInv, StreamInv, Shape, SubTypes, PendingTypes
<1>1. CASE Receive(r) \/ ClaimRow(r) \/ Duplicate(r) \/ Refuse(r) \/ Complete(r)
  <2>1. UNCHANGED <<rows, flusher>>
    BY <1>1 DEF Receive, ClaimRow, Duplicate, Refuse, Complete
  <2>2. \A q \in Replicas : pc'[q] = "mark" => pc[q] = "mark" /\ toPublish'[q] = toPublish[q]
    BY <1>0, <1>1
       DEF Receive, ClaimRow, Goto, Duplicate, Refuse, Reject, Complete, Forget
  <2> QED
    BY <1>0, <2>1, <2>2, SameRows DEF flusher
<1>2. CASE Act(r)
  <2>1. StoreRow /\ UNCHANGED flusher
        /\ \A q \in Replicas : pc'[q] = "mark" => pc[q] = "mark" /\ toPublish'[q] = toPublish[q]
    BY <1>0, <1>2 DEF Act, Goto
  <2> QED
    BY <1>0, <2>1, RowAdded
<1>3. CASE Enqueue(r)
  <2>1. StoreRow /\ UNCHANGED flusher
        /\ \A q \in Replicas : pc'[q] = "mark" => pc[q] = "mark" /\ toPublish'[q] = toPublish[q]
    BY <1>0, <1>3 DEF Enqueue
  <2> QED
    BY <1>0, <2>1, RowAdded
<1>4. CASE Publish(r)
  <2>1. /\ Head(toPublish[r]) \in 1..Len(outbox) /\ AddToStream(Head(toPublish[r]))
        /\ UNCHANGED <<outbox, toPublish, flush, batch>>
    BY <1>0, <1>4, PublishedRow DEF Publish, flusher
  <2>2. \A q \in Replicas : pc'[q] = "mark" => pc[q] = "mark" \/ q = r
    BY <1>0, <1>4 DEF Publish, Goto
  <2>3. \A q \in Replicas :
          /\ pc'[q] = "mark" => pc[q] = "mark" \/ Head(toPublish[q]) = Head(toPublish[r])
          /\ flush'[q] = "mark" => flush[q] = "mark" \/ First(q) = Head(toPublish[r])
    BY <2>1, <2>2
  <2> QED
    BY <1>0, <2>1, <2>3, RowStreamed
<1>5. CASE Published(r)
  <2>1. /\ pc[r] = "mark" /\ Head(toPublish[r]) \in 1..Len(outbox)
        /\ MarkSent(Head(toPublish[r])) /\ UNCHANGED <<copies, flush, batch>>
    BY <1>0, <1>5, PublishedRow DEF Published, Goto, Pointed, flusher
  <2>2. copies[Head(toPublish[r])] > 0
    BY <1>0, <2>1 DEF PublisherInOrder
  <2>3. \A q \in Replicas :
          /\ pc'[q] = "mark" => pc[q] = "mark" /\ toPublish'[q] = toPublish[q]
          /\ flush'[q] = "mark" => flush[q] = "mark" /\ batch'[q] = batch[q]
    BY <1>0, <1>5, <2>1 DEF Published, Goto
  <2> QED
    BY <1>0, <2>1, <2>2, <2>3, RowMarked
<1> QED
  BY <1>1, <1>2, <1>3, <1>4, <1>5 DEF Handle

LEMMA FlushStream ==
  ASSUME DeliveryInv, Shape', NEW r \in Replicas, Flush(r)
  PROVE  StreamInv'
<1>0. Shape /\ StreamInv /\ Pointed(r) /\ PublisherInOrder(r) /\ RowTypes /\ PendingTypes
      /\ flush \in [Replicas -> {"idle", "publish", "mark"}]
  BY DEF DeliveryInv, StreamInv, Shape, PendingTypes
<1>1. UNCHANGED <<pc, toPublish>>
  BY DEF Flush, FlushList, FlushPublish, FlushMark, sub
<1>2. CASE FlushList(r)
  <2>1. UNCHANGED rows
        /\ \A q \in Replicas : flush'[q] = "mark" => flush[q] = "mark" /\ batch'[q] = batch[q]
    BY <1>0, <1>2 DEF FlushList, PendingTypes
  <2> QED
    BY <1>0, <1>1, <2>1, SameRows
<1>3. CASE FlushPublish(r)
  <2>1. First(r) \in 1..Len(outbox) /\ AddToStream(First(r)) /\ UNCHANGED <<outbox, batch>>
    BY <1>0, <1>3, FirstInBatch DEF FlushPublish, Pointed
  <2>2. \A q \in Replicas : flush'[q] = "mark" => flush[q] = "mark" \/ First(q) = First(r)
    BY <1>0, <1>3 DEF FlushPublish
  <2> QED
    BY <1>0, <1>1, <2>1, <2>2, RowStreamed
<1>4. CASE FlushMark(r)
  <2>1. First(r) \in 1..Len(outbox) /\ MarkSent(First(r)) /\ UNCHANGED copies
        /\ copies[First(r)] > 0
    BY <1>0, <1>4, FirstInBatch DEF FlushMark, Pointed, PublisherInOrder
  <2>2. \A q \in Replicas : flush'[q] = "mark" => flush[q] = "mark" /\ batch'[q] = batch[q]
    BY <1>0, <1>4 DEF FlushMark, PendingTypes
  <2> QED
    BY <1>0, <1>1, <2>1, <2>2, RowMarked
<1> QED
  BY <1>2, <1>3, <1>4 DEF Flush

LEMMA EndsInv ==
  ASSUME DeliveryInv, NEW r \in Replicas, Ends(r) PROVE DeliveryInv'
<1>0. Drops(r) /\ Shape /\ ControlInv /\ StreamInv
      /\ SubTypes /\ PendingTypes /\ Pointed(r)
  BY EndsDrops DEF DeliveryInv, Shape
<1>1. LifecycleInv'
  BY EndsLifecycle DEF DeliveryInv
<1>2. Shape'
  BY <1>0, DropShape DEF Drops
<1>3. ControlInv'
  <2>1. now =< now' /\ UNCHANGED <<table, lease>>
    BY <1>0 DEF Drops, Shape, PubTypes
  <2>2. \A q \in Replicas :
          \/ event'[q] = NoEvent
          \/ event'[q] = event[q] /\ pc'[q] = pc[q]
    BY <1>0 DEF Drops, Forget, SubTypes
  <2>3. \A q \in Replicas :
          \/ event'[q] = NoEvent \/ pc'[q] = "insert"
          \/ event'[q] = event[q] /\ pc[q] # "insert" /\ pc'[q] = pc[q]
    BY <2>2
  <2> QED
    BY <1>0, <1>2, <2>1, <2>3, QuietControl
<1>4. StreamInv'
  <2>1. UNCHANGED rows
    BY <1>0 DEF Drops
  <2>2. \A q \in Replicas : pc'[q] = "mark" => pc[q] = "mark" /\ toPublish'[q] = toPublish[q]
    BY <1>0 DEF Drops, Forget, SubTypes, PendingTypes
  <2>3. \A q \in Replicas : flush'[q] = "mark" => flush[q] = "mark" /\ batch'[q] = batch[q]
    BY <1>0 DEF Drops, DropMaintenance, PendingTypes, flusher
  <2> QED
    BY <1>0, <1>2, <2>1, <2>2, <2>3, SameRows
<1> QED
  BY <1>1, <1>2, <1>3, <1>4 DEF DeliveryInv

LEMMA PublishFailsInv ==
  ASSUME DeliveryInv, NEW r \in Replicas, PublishFails(r) PROVE DeliveryInv'
<1>0. /\ Shape /\ ControlInv /\ StreamInv /\ Pointed(r)
      /\ PubTypes /\ TableTypes /\ RowTypes /\ SubTypes /\ PendingTypes
  BY DEF DeliveryInv, Shape
<1>1. LifecycleInv'
  BY SameLifecycle DEF DeliveryInv, PublishFails
<1>2. Shape'
  <2>1. Tail(toPublish[r]) \in Seq(0..Len(outbox))
    BY <1>0, PublishedRow DEF PublishFails
  <2>2. PubTypes' /\ TableTypes' /\ RowTypes' /\ SubTypes' /\ PendingTypes'
    BY <1>0, <2>1 DEF PublishFails, PubTypes, TableTypes, RowTypes, SubTypes,
                      PendingTypes, table, rows, flusher
  <2>3. OnlyAt(r) /\ Pointed(r)'
    BY <1>0 DEF PublishFails, OnlyAt, Pointed, SubTypes, PendingTypes, flusher
  <2> QED
    BY <1>0, <2>2, <2>3, OthersPointed
<1>3. ControlInv'
  <2>1. \A q \in Replicas :
          \/ pc'[q] = "insert"
          \/ pc[q] # "insert" /\ (pc'[q] = pc[q] \/ {pc[q], pc'[q]} \subseteq {"publish", "mark"})
    BY <1>0 DEF PublishFails, SubTypes
  <2>2. UNCHANGED <<table, lease, event>> /\ now =< now'
    BY <1>0 DEF PublishFails, PubTypes
  <2> QED
    BY <1>0, <1>2, <2>1, <2>2, QuietControl
<1>4. StreamInv'
  <2>1. \A q \in Replicas : pc'[q] = "mark" => pc[q] = "mark" /\ toPublish'[q] = toPublish[q]
    BY <1>0 DEF PublishFails, SubTypes, PendingTypes
  <2>2. UNCHANGED <<rows, flush, batch>>
    BY DEF PublishFails, flusher
  <2> QED
    BY <1>0, <1>2, <2>1, <2>2, SameRows
<1> QED
  BY <1>1, <1>2, <1>3, <1>4 DEF DeliveryInv

\* The steps of the other agents and of the clock, and a step of nobody.
LEMMA OutsideInv ==
  ASSUME DeliveryInv, (\E e \in Events : Send(e)) \/ Tick \/ UNCHANGED vars
  PROVE  DeliveryInv'
<1>0. /\ Shape /\ ControlInv /\ StreamInv
      /\ PubTypes /\ TableTypes /\ RowTypes /\ SubTypes /\ PendingTypes
      /\ \A q \in Replicas : Pointed(q)
  BY DEF DeliveryInv, Shape
<1>1. UNCHANGED <<lifecycle, table, rows, sub, flusher>>
  BY DEF Send, Tick, vars
<1>2. PubTypes' /\ now =< now'
  <2>1. CASE \E e \in Events : Send(e)
    <3>1. PICK e \in Events : Send(e)
      BY <2>1
    <3>2. sends[e] + 1 \in 0..MaxSends
      BY <1>0, <3>1, DeliveryAssumption DEF Send, PubTypes
    <3>3. \A q \in Replicas : Append(inbox[q], e) \in Seq(Events)
      BY <1>0, AppendProperties DEF PubTypes
    <3> QED
      BY <1>0, <3>1, <3>2, <3>3 DEF Send, PubTypes
  <2>2. CASE Tick
    BY <1>0, <2>2, DeliveryAssumption DEF Tick, PubTypes
  <2>3. CASE UNCHANGED vars
    BY <1>0, <2>3 DEF vars, PubTypes
  <2> QED
    BY <2>1, <2>2, <2>3
<1>3. Shape'
  <2>1. TableTypes' /\ RowTypes' /\ SubTypes' /\ PendingTypes'
    BY <1>0, <1>1 DEF TableTypes, RowTypes, SubTypes, PendingTypes, table, rows, sub, flusher
  <2>2. \A q \in Replicas : Pointed(q)'
    BY <1>0, <1>1 DEF Pointed, sub, flusher
  <2> QED
    BY <1>2, <2>1, <2>2 DEF Shape
<1>4. ControlInv'
  <2>1. \A q \in Replicas : event'[q] = event[q] /\ pc'[q] = pc[q]
    BY <1>1 DEF sub
  <2>2. UNCHANGED <<table, lease>>
    BY <1>1 DEF sub
  <2> QED
    BY <1>0, <1>2, <1>3, <2>1, <2>2, QuietControl
<1>5. StreamInv'
  BY <1>0, <1>1, <1>3, SameRows DEF sub, flusher
<1>6. LifecycleInv'
  BY <1>1, SameLifecycle DEF DeliveryInv
<1> QED
  BY <1>3, <1>4, <1>5, <1>6 DEF DeliveryInv

LEMMA NextInv == ASSUME DeliveryInv, [Next]_vars PROVE DeliveryInv'
<1>1. ASSUME NEW r \in Replicas, Handle(r) PROVE DeliveryInv'
  <2>1. UNCHANGED lifecycle
    BY <1>1 DEF Handle, Receive, ClaimRow, Duplicate, Act, Refuse, Enqueue,
                Publish, Published, Complete
  <2>2. Shape'
    BY <1>1, HandleShape DEF DeliveryInv
  <2> QED
    BY <1>1, <2>1, <2>2, SameLifecycle, HandleControl, HandleStream DEF DeliveryInv
<1>2. ASSUME NEW r \in Replicas, Flush(r) PROVE DeliveryInv'
  <2>1. UNCHANGED <<lifecycle, now, table, sub>>
    BY <1>2 DEF Flush, FlushList, FlushPublish, FlushMark
  <2>2. Shape'
    BY <1>2, FlushShape DEF DeliveryInv
  <2>3. ControlInv'
    <3>1. now =< now' /\ UNCHANGED <<table, lease, pc, event>>
      BY <2>1 DEF DeliveryInv, Shape, PubTypes, sub
    <3> QED
      BY <2>2, <3>1, QuietControl DEF DeliveryInv
  <2> QED
    BY <1>2, <2>1, <2>2, <2>3, SameLifecycle, FlushStream DEF DeliveryInv
<1>3. ASSUME NEW r \in Replicas, Fails(r) PROVE DeliveryInv'
  BY <1>3, EndsInv, PublishFailsInv DEF Ends
<1>4. ASSUME NEW r \in Replicas,
             Advances(r) \/ Disturbed(r) \/ Killed(r) \/ SubscriberEnds(r) \/ MaintenanceEnds(r)
      PROVE  DeliveryInv'
  BY <1>4, EndsInv DEF Ends
<1> QED
  BY <1>1, <1>2, <1>3, <1>4, OutsideInv DEF Next

LEMMA InitInv == Init => DeliveryInv
<1> SUFFICES ASSUME Init PROVE DeliveryInv
  OBVIOUS
<1> USE DEF Init
<1>1. LifecycleInv
  <2>1. LifecycleTypeOK
    BY LifecycleAssumption DEF InitLifecycle, LifecycleTypeOK, TaskStates, Resources
  <2>2. \A r \in Replicas : InOrder(r)
    BY DEF InitLifecycle, InOrder, Quiet, Starting, Waiting, Closing, Alive, Tasks
  <2> QED
    BY <2>1, <2>2 DEF LifecycleInv
<1>2. Shape
  <2>1. <<>> \in Seq(Events) /\ outbox \in Seq({"pending", "sent"}) /\ copies \in Seq(Nat)
        /\ <<>> \in Seq(0..Len(outbox)) /\ Len(copies) = Len(outbox)
    BY EmptySeq
  <2>2. PubTypes /\ TableTypes
    BY <2>1, DeliveryAssumption DEF PubTypes, TableTypes
  <2>3. RowTypes /\ SubTypes /\ PendingTypes
    BY <2>1, DeliveryAssumption DEF RowTypes, SubTypes, PendingTypes
  <2>4. \A r \in Replicas : Pointed(r)
    BY DEF Pointed
  <2> QED
    BY <2>2, <2>3, <2>4 DEF Shape
<1>3. ControlInv
  <2>1. \A e \in Events : ClaimInOrder(e)
    <3>1. \A e \in Events : Cardinality(Acting(e)) = 0
      BY FS_EmptySet DEF Acting
    <3>2. \A e \in Events :
            applied[e] = 0 /\ granted[e] = 0 /\ claim[e].status = "none"
      OBVIOUS
    <3> QED
      BY <3>1, <3>2 DEF ClaimInOrder
  <2> QED
    BY <2>1 DEF ControlInv, HandlerInOrder, LeaseIsExclusive, Owns
<1>4. StreamInv
  BY DEF StreamInv, PublisherInOrder, SentIsOnStream
<1> QED
  BY <1>1, <1>2, <1>3, <1>4 DEF DeliveryInv

LEMMA Invariance == Spec => []DeliveryInv
<1>1. DeliveryInv /\ [Next]_vars => DeliveryInv'
  BY NextInv
<1> QED
  BY InitInv, <1>1, PTL DEF Spec

-----------------------------------------------------------------------------
(* Copies.  Each copy of a row on the stream is paid for by its publisher, *)
(* by a life of a maintenance loop, or by a failure; Budget is what there  *)
(* is to spend, and Ready(i) are the loops that may still publish row i.   *)

\* The maintenance loops that make a step, or will.
Lively(r) == phase[r] \in Starting \/ task[r]["maintenance"] \in Alive
Lives == {r \in Replicas : Lively(r)}

Ready(i) ==
  {r \in Lives : /\ outbox[i] = "pending" \/ i \in batch[r]
                 /\ ~ (flush[r] = "mark" /\ First(r) = i)}

Owed(i) ==
  IF \E r \in Replicas : pc[r] = "publish" /\ toPublish[r] = <<i>> THEN 1 ELSE 0

Budget == 1 + Cardinality(Lasting) + boots + faults

Covered(i) == copies[i] + Owed(i) + Cardinality(Ready(i)) =< Budget

\* A handler has one row to publish at most, which nobody else has.
OneRow(r) == toPublish[r] = <<>> \/ \E i \in Nat : toPublish[r] = <<i>>

OneRows ==
  /\ \A r \in Replicas : OneRow(r)
  /\ \A r, q \in Replicas :
       toPublish[r] = toPublish[q] /\ toPublish[r] \notin {<<>>, <<Unstored>>} => r = q

CopiesInv ==
  /\ Cardinality(Lives) =< Cardinality(Lasting) + boots
  /\ OneRows
  /\ \A i \in DOMAIN outbox : Covered(i)


LEMMA Fewer ==
  ASSUME NEW T, IsFiniteSet(T), NEW S, S \subseteq T
  PROVE  /\ IsFiniteSet(S) /\ Cardinality(S) \in Nat /\ Cardinality(T) \in Nat
         /\ Cardinality(S) =< Cardinality(T)
BY FS_Subset, FS_CardinalityType

LEMMA OneMore ==
  ASSUME NEW T, IsFiniteSet(T), NEW S, NEW x, S \subseteq T \cup {x}
  PROVE  /\ Cardinality(S) \in Nat /\ Cardinality(T) \in Nat
         /\ Cardinality(S) =< Cardinality(T) + 1
<1>1. /\ IsFiniteSet(T \cup {x})
      /\ Cardinality(T \cup {x}) = IF x \in T THEN Cardinality(T) ELSE Cardinality(T) + 1
  BY FS_AddElement
<1>2. Cardinality(T) \in Nat
  BY FS_CardinalityType
<1>3. /\ Cardinality(S) \in Nat /\ Cardinality(T \cup {x}) \in Nat
      /\ Cardinality(S) =< Cardinality(T \cup {x})
  BY <1>1, Fewer
<1> QED
  BY <1>1, <1>2, <1>3

LEMMA OneLess ==
  ASSUME NEW T, IsFiniteSet(T), NEW S, NEW x \in T, S \subseteq T \ {x}
  PROVE  /\ Cardinality(S) \in Nat /\ Cardinality(T) \in Nat
         /\ Cardinality(S) + 1 =< Cardinality(T)
<1>1. /\ IsFiniteSet(T \ {x}) /\ Cardinality(T \ {x}) = Cardinality(T) - 1
  BY FS_RemoveElement
<1>2. Cardinality(T) \in Nat
  BY FS_CardinalityType
<1>3. /\ Cardinality(S) \in Nat /\ Cardinality(T \ {x}) \in Nat
      /\ Cardinality(S) =< Cardinality(T \ {x})
  BY <1>1, Fewer
<1> QED
  BY <1>1, <1>2, <1>3

LEMMA LivesFinite ==
  /\ IsFiniteSet(Lives) /\ IsFiniteSet(Lasting) /\ Cardinality(Lasting) \in Nat
  /\ \A i : IsFiniteSet(Ready(i))
<1>1. IsFiniteSet(Replicas) /\ Lives \subseteq Replicas /\ Lasting \subseteq Replicas
  BY DeliveryAssumption, LifecycleAssumption DEF Lives
<1>2. \A i : Ready(i) \subseteq Replicas
  BY <1>1 DEF Ready
<1> QED
  BY <1>1, <1>2, Fewer

\* What a step that adds no copy may cost.
Paid(i) ==
  \/ Ready(i)' \subseteq Ready(i)
  \/ /\ \E r : Ready(i)' \subseteq Ready(i) \cup {r}
     /\ boots' + faults' >= boots + faults + 1

LEMMA Adds ==
  ASSUME NEW c \in Int, NEW o \in Int, NEW k \in Int, NEW b \in Int,
         NEW d \in Int, NEW p \in Int, NEW q \in Int, NEW u \in Int, NEW e \in Int,
         c + o + k =< b, d + p =< c + o + e, q + b + e =< k + u
  PROVE  d + p + q =< u
OBVIOUS

LEMMA OneMoreToSpend ==
  ASSUME NEW l \in Nat, NEW b \in Nat, NEW f \in Nat, NEW c \in Nat, NEW g \in Nat,
         c + g >= b + f + 1
  PROVE  1 + l + c + g >= 1 + l + b + f + 1
OBVIOUS

NumbersOf(i) ==
  /\ copies[i] \in Int /\ Owed(i) \in Int /\ Cardinality(Ready(i)) \in Int
  /\ Budget \in Int

LEMMA Afforded ==
  ASSUME NEW i, Covered(i), NEW e \in Int,
         NumbersOf(i), NumbersOf(i)',
         copies'[i] + Owed(i)' =< copies[i] + Owed(i) + e,
         Cardinality(Ready(i)') + Budget + e =< Cardinality(Ready(i)) + Budget'
  PROVE  Covered(i)'
<1>1. copies[i] + Owed(i) + Cardinality(Ready(i)) =< Budget
  BY DEF Covered
<1>2. copies'[i] + Owed(i)' + Cardinality(Ready(i)') =< Budget'
  BY <1>1, Adds DEF NumbersOf
<1> QED
  BY <1>2 DEF Covered

LEMMA StaysCovered ==
  ASSUME LifecycleTypeOK, LifecycleTypeOK', NEW i, Covered(i), copies[i] \in Nat,
         copies'[i] = copies[i], Owed(i)' =< Owed(i), Paid(i),
         boots' >= boots, faults' >= faults
  PROVE  Covered(i)'
<1>1. /\ boots \in Nat /\ faults \in Nat /\ boots' \in Nat /\ faults' \in Nat
      /\ Cardinality(Lasting) \in Nat
  BY LivesFinite DEF LifecycleTypeOK
<1>2. /\ IsFiniteSet(Ready(i)) /\ Owed(i) \in Int /\ Owed(i)' \in Int
      /\ copies[i] \in Int /\ copies'[i] \in Int
  BY LivesFinite DEF Owed
<1>3. Budget \in Int /\ Budget' \in Int /\ Budget' >= Budget
  BY <1>1 DEF Budget
<1>4. CASE Ready(i)' \subseteq Ready(i)
  <2>1. /\ Cardinality(Ready(i)') \in Int /\ Cardinality(Ready(i)) \in Int
        /\ Cardinality(Ready(i)') =< Cardinality(Ready(i))
    BY <1>2, <1>4, Fewer
  <2>2. /\ copies'[i] + Owed(i)' =< copies[i] + Owed(i) + 0
        /\ Cardinality(Ready(i)') + Budget + 0 =< Cardinality(Ready(i)) + Budget'
    <3>1. copies'[i] + Owed(i)' =< copies[i] + Owed(i) + 0
      BY <1>2
    <3> QED
      BY <1>3, <2>1, <3>1
  <2>3. NumbersOf(i) /\ NumbersOf(i)'
    BY <1>2, <1>3, <2>1 DEF NumbersOf
  <2> QED
    BY <2>2, <2>3, Afforded
<1>5. ASSUME NEW r, Ready(i)' \subseteq Ready(i) \cup {r},
             boots' + faults' >= boots + faults + 1
      PROVE  Covered(i)'
  <2>1. /\ Cardinality(Ready(i)') \in Int /\ Cardinality(Ready(i)) \in Int
        /\ Cardinality(Ready(i)') =< Cardinality(Ready(i)) + 1
    BY <1>2, <1>5, OneMore
  <2>2. Budget' >= Budget + 1
    <3>1. boots' + faults' >= boots + faults + 1
      BY <1>5
    <3>2. /\ Budget = 1 + Cardinality(Lasting) + boots + faults
          /\ Budget' = 1 + Cardinality(Lasting) + boots' + faults'
      BY DEF Budget
    <3>3. 1 + Cardinality(Lasting) + boots' + faults'
            >= 1 + Cardinality(Lasting) + boots + faults + 1
      BY <1>1, <3>1, OneMoreToSpend
    <3> QED
      BY <3>2, <3>3
  <2>3. /\ copies'[i] + Owed(i)' =< copies[i] + Owed(i) + 0
        /\ Cardinality(Ready(i)') + Budget + 0 =< Cardinality(Ready(i)) + Budget'
    <3>1. copies'[i] + Owed(i)' =< copies[i] + Owed(i) + 0
      BY <1>2
    <3> QED
      BY <1>3, <2>1, <2>2, <3>1
  <2>4. NumbersOf(i) /\ NumbersOf(i)'
    BY <1>2, <1>3, <2>1 DEF NumbersOf
  <2> QED
    BY <2>3, <2>4, Afforded
<1> QED
  BY <1>4, <1>5 DEF Paid

\* No loop comes to life except in a start.
LEMMA LivesStep ==
  ASSUME LifecycleTypeOK, NEW r \in Replicas, LifecycleStep(r)
  PROVE  /\ boots' >= boots /\ faults' >= faults
         /\ \/ Lives' \subseteq Lives
            \/ boots' = boots + 1 /\ Lives' \subseteq Lives \cup {r}
<1>0. boots \in Nat /\ faults \in Nat
  BY DEF LifecycleTypeOK
<1>1. ASSUME Boot(r) PROVE boots' = boots + 1 /\ faults' = faults
                           /\ Lives' \subseteq Lives \cup {r}
  BY <1>1 DEF Boot, Move, Lives, Lively, LifecycleTypeOK
<1>2. ASSUME LifecycleStep(r), ~ Boot(r)
      PROVE  boots' = boots /\ (faults' = faults \/ faults' = faults + 1)
  BY <1>2 DEF LifecycleStep, Progress, TunnelStarted, TablesCreated, Pinged,
     CloseRedis, CloseEngine, Close, CloseTunnel, SubscriberFinished,
     MaintenanceFinished, Stop, Cancel, TunnelRefused, StartFails,
     SubscriberBreaks, Kill, TaskTimesOut, TaskEnds, TaskHangs, Fault
<1>3. ASSUME LifecycleStep(r), ~ Boot(r) PROVE Lives' \subseteq Lives
  <2>0. phase \in [Replicas ->
          {"off", "serving"} \cup Starting \cup Waiting \cup Closing]
        /\ task \in [Replicas -> [Tasks -> TaskStates]] /\ "maintenance" \in Tasks
    BY DEF LifecycleTypeOK, Tasks
  <2> SUFFICES Lively(r)' => Lively(r)
    <3> DEFINE Others ==
          \A q \in Replicas \ {r} : phase'[q] = phase[q] /\ task'[q] = task[q]
    <3>1. ASSUME TunnelStarted(r) \/ TablesCreated(r) \/ Pinged(r)
                 \/ TunnelRefused(r) \/ StartFails(r)
          PROVE  Others
      BY <2>0, <3>1 DEF TunnelStarted, TablesCreated, Pinged, TunnelRefused,
         StartFails, Move
    <3>2. ASSUME CloseRedis(r) \/ CloseEngine(r) \/ CloseTunnel(r) \/ Cancel(r)
                 \/ Kill(r)
          PROVE  Others
      BY <2>0, <3>2 DEF CloseRedis, CloseEngine, CloseTunnel, Close, Cancel, Kill, Move
    <3>3. ASSUME SubscriberFinished(r) \/ MaintenanceFinished(r) \/ Stop(r)
                 \/ SubscriberBreaks(r)
          PROVE  Others
      BY <2>0, <3>3 DEF SubscriberFinished, MaintenanceFinished, Stop,
         SubscriberBreaks, Move, Set
    <3>4. ASSUME NEW t \in Tasks,
                 TaskTimesOut(r, t) \/ TaskEnds(r, t) \/ TaskHangs(r, t)
          PROVE  Others
      BY <2>0, <3>4 DEF TaskTimesOut, TaskEnds, TaskHangs, Set
    <3>5. Others
      <4> HIDE DEF Others
      <4> QED
        BY <1>3, <3>1, <3>2, <3>3, <3>4 DEF LifecycleStep, Progress
    <3> QED
      BY <3>5 DEF Lives, Lively
  <2>1. CASE TunnelStarted(r) \/ TablesCreated(r) \/ Pinged(r) \/ TunnelRefused(r)
             \/ StartFails(r)
    BY <2>0, <2>1 DEF TunnelStarted, TablesCreated, Pinged, TunnelRefused, StartFails,
       Move, Lively, Starting
  <2>2. CASE \/ CloseRedis(r) \/ CloseEngine(r) \/ MaintenanceFinished(r)
             \/ Cancel(r)
    BY <2>0, <2>2 DEF CloseRedis, CloseEngine, Close, MaintenanceFinished, Cancel,
       Move, Lively, Starting, Shielded
  <2>3. CASE CloseTunnel(r) \/ Kill(r)
    <3>1. phase'[r] = "off" /\ task'[r]["maintenance"] = "none"
      BY <2>0, <2>3 DEF CloseTunnel, Kill, Move
    <3> QED
      BY <3>1 DEF Lively, Starting, Alive
  <2>4. CASE Stop(r) \/ SubscriberFinished(r) \/ SubscriberBreaks(r)
    BY <2>0, <2>4 DEF Stop, SubscriberFinished, SubscriberBreaks, Move, Set, Told,
       Lively, Starting, Alive
  <2>5. ASSUME NEW t \in Tasks, TaskTimesOut(r, t) \/ TaskEnds(r, t) \/ TaskHangs(r, t)
        PROVE  Lively(r)' => Lively(r)
    BY <2>0, <2>5 DEF TaskTimesOut, TaskEnds, TaskHangs, Set, Lively, Alive
  <2> QED
    BY <1>3, <2>1, <2>2, <2>3, <2>4, <2>5 DEF LifecycleStep, Progress
<1> QED
  BY <1>0, <1>1, <1>2, <1>3

\* A step that leaves the rows and the other loops alone.
LEMMA ReadyAmong ==
  ASSUME NEW r, NEW i, outbox' = outbox, Lives' \subseteq Lives \cup {r},
         \A q \in Replicas \ {r} : flush'[q] = flush[q] /\ batch'[q] = batch[q]
  PROVE  Ready(i)' \subseteq Ready(i) \cup {r}
<1> SUFFICES ASSUME NEW q \in Ready(i)', q # r PROVE q \in Ready(i)
  OBVIOUS
<1>1. q \in Replicas /\ q \in Lives
  BY DEF Ready, Lives
<1>2. First(q)' = First(q)
  BY <1>1 DEF First
<1> QED
  BY <1>1, <1>2 DEF Ready

LEMMA ReadyStays ==
  ASSUME NEW i, outbox'[i] = "pending" => outbox[i] = "pending",
         Lives' \subseteq Lives, UNCHANGED flusher
  PROVE  Ready(i)' \subseteq Ready(i)
<1>1. \A q : First(q)' = First(q)
  BY DEF First, flusher
<1> QED
  BY <1>1 DEF Ready, flusher

LEMMA EndsPaid ==
  ASSUME DeliveryInv, NEW r \in Replicas, Ends(r)
  PROVE  /\ boots' >= boots /\ faults' >= faults
         /\ Lives' \subseteq Lives
              \/ (boots' = boots + 1 /\ Lives' \subseteq Lives \cup {r})
         /\ \A i : Paid(i)
<1>0. /\ LifecycleTypeOK /\ boots \in Nat /\ faults \in Nat /\ InOrder(r)
      /\ flush \in [Replicas -> {"idle", "publish", "mark"}]
      /\ DOMAIN batch = Replicas
  BY DEF DeliveryInv, LifecycleInv, LifecycleTypeOK, Shape, PendingTypes
<1>1. outbox' = outbox /\ (UNCHANGED flusher \/ DropMaintenance(r))
  BY EndsDrops DEF Drops, rows
<1>2. \A q \in Replicas \ {r} : flush'[q] = flush[q] /\ batch'[q] = batch[q]
  BY <1>0, <1>1 DEF DropMaintenance, flusher
<1>3. ASSUME LifecycleStep(r), UNCHANGED flusher \/ r \notin Lives'
      PROVE  /\ boots' >= boots /\ faults' >= faults
             /\ Lives' \subseteq Lives
                  \/ (boots' = boots + 1 /\ Lives' \subseteq Lives \cup {r})
             /\ \A i : Paid(i)
  <2>1. /\ boots' >= boots /\ faults' >= faults
        /\ \/ Lives' \subseteq Lives
           \/ boots' = boots + 1 /\ Lives' \subseteq Lives \cup {r}
    BY <1>0, <1>3, LivesStep
  <2>2. ASSUME NEW i, Lives' \subseteq Lives PROVE Paid(i)
    <3>1. CASE UNCHANGED flusher
      BY <1>1, <2>2, <3>1, ReadyStays DEF Paid
    <3>2. CASE r \notin Lives'
      <4>1. Ready(i)' \subseteq Ready(i) \cup {r}
        BY <1>1, <1>2, <2>2, ReadyAmong
      <4>2. r \notin Ready(i)'
        BY <3>2 DEF Ready
      <4> QED
        BY <4>1, <4>2 DEF Paid
    <3> QED
      BY <1>3, <3>1, <3>2
  <2>3. ASSUME NEW i, boots' = boots + 1, Lives' \subseteq Lives \cup {r}
        PROVE  Paid(i)
    <3>1. Ready(i)' \subseteq Ready(i) \cup {r}
      BY <1>1, <1>2, <2>3, ReadyAmong
    <3>2. faults' \in Int /\ boots' + faults' >= boots + faults + 1
      <4>1. faults' = faults \/ faults' = faults + 1
        BY <1>3 DEF LifecycleStep, Progress, TunnelStarted, TablesCreated, Pinged,
           CloseRedis, CloseEngine, Close, CloseTunnel, SubscriberFinished, Boot,
           MaintenanceFinished, Stop, Cancel, TunnelRefused, StartFails,
           SubscriberBreaks, Kill, TaskTimesOut, TaskEnds, TaskHangs, Fault
      <4> QED
        BY <1>0, <2>3, <4>1
    <3> QED
      BY <3>1, <3>2 DEF Paid
  <2> QED
    BY <2>1, <2>2, <2>3
<1>4. CASE Fails(r) /\ ~ PublishFails(r)
  <2>1. Fault /\ UNCHANGED <<phase, open, task, cancelled, boots>>
    BY <1>4 DEF Fails, HandlerFails, FlushFails
  <2>2. Lives' = Lives /\ faults' = faults + 1
    BY <2>1 DEF Lives, Lively, Fault
  <2>3. ASSUME NEW i PROVE Paid(i)
    <3>1. Ready(i)' \subseteq Ready(i) \cup {r}
      BY <1>1, <1>2, <2>2, ReadyAmong
    <3> QED
      BY <1>0, <2>1, <2>2, <3>1 DEF Paid
  <2> QED
    BY <1>0, <2>1, <2>2, <2>3
<1>5. CASE Advances(r) \/ Disturbed(r) \/ SubscriberEnds(r)
  <2>1. LifecycleStep(r) /\ UNCHANGED flusher
    BY <1>5 DEF Advances, Disturbed, SubscriberEnds, LifecycleStep, Tasks
  <2> QED
    BY <1>3, <2>1
<1>6. CASE Killed(r)
  <2>1. LifecycleStep(r) /\ phase'[r] = "off" /\ task'[r]["maintenance"] = "none"
    BY <1>0, <1>6 DEF Killed, Kill, LifecycleStep, LifecycleTypeOK, Tasks
  <2>2. r \notin Lives'
    BY <2>1 DEF Lives, Lively, Starting, Alive
  <2> QED
    BY <1>3, <2>1, <2>2
<1>7. CASE MaintenanceEnds(r)
  <2>1. /\ LifecycleStep(r) /\ task[r]["maintenance"] \in Alive /\ phase' = phase
        /\ task'[r]["maintenance"] \in {"none", "hung"}
    BY <1>0, <1>7 DEF MaintenanceEnds, TaskEnds, TaskHangs, Set, LifecycleStep,
       LifecycleTypeOK, Tasks, Alive
  <2>2. phase[r] \notin Starting
    BY <1>0, <2>1 DEF InOrder, Quiet, Tasks
  <2>3. r \notin Lives'
    BY <2>1, <2>2 DEF Lives, Lively, Alive
  <2> QED
    BY <1>3, <2>1, <2>3
<1> QED
  BY <1>4, <1>5, <1>6, <1>7 DEF Ends

-----------------------------------------------------------------------------
(* Publishers.                                                             *)

LEMMA HeadOfOne ==
  ASSUME NEW s, s = <<>> \/ \E i \in Nat : s = <<i>>, s # <<>>
  PROVE  Head(s) \in Nat /\ s = <<Head(s)>> /\ Tail(s) = <<>>
<1>1. PICK i \in Nat : s = <<i>>
  OBVIOUS
<1>2. Head(s) = i
  BY <1>1
<1>3. Tail(s) = <<>>
  BY <1>1
<1> QED
  BY <1>1, <1>2, <1>3

\* A handler goes on with its row, or has none any more that is stored.
LEMMA SameOrDropped ==
  ASSUME OneRows, Shape, NEW r \in Replicas,
         \A q \in Replicas \ {r} : pc'[q] = pc[q] /\ toPublish'[q] = toPublish[q],
         \/ /\ toPublish'[r] = toPublish[r]
            /\ pc'[r] = "publish" => pc[r] = "publish"
         \/ toPublish'[r] \in {<<>>, <<Unstored>>}
  PROVE  OneRows' /\ \A i \in Nat \ {Unstored} : Owed(i)' =< Owed(i)
<1>1. \A q \in Replicas :
        toPublish'[q] = toPublish[q] \/ toPublish'[q] \in {<<>>, <<Unstored>>}
  OBVIOUS
<1>2. OneRows'
  <2>1. ASSUME NEW q \in Replicas PROVE OneRow(q)'
    <3>1. CASE toPublish'[q] = toPublish[q]
      BY <3>1 DEF OneRows, OneRow
    <3>2. CASE toPublish'[q] \in {<<>>, <<Unstored>>}
      BY <3>2 DEF OneRow, Unstored
    <3> QED
      BY <1>1, <3>1, <3>2
  <2>2. ASSUME NEW p \in Replicas, NEW q \in Replicas,
               toPublish'[p] = toPublish'[q], toPublish'[p] \notin {<<>>, <<Unstored>>}
        PROVE  p = q
    BY <1>1, <2>2 DEF OneRows
  <2> QED
    BY <2>1, <2>2 DEF OneRows
<1>3. ASSUME NEW i \in Nat \ {Unstored} PROVE Owed(i)' =< Owed(i)
  <2>1. ASSUME NEW q \in Replicas, pc'[q] = "publish", toPublish'[q] = <<i>>
        PROVE  pc[q] = "publish" /\ toPublish[q] = <<i>>
    <3>1. <<i>> \notin {<<>>, <<Unstored>>}
      <4>1. <<i>>[1] = i /\ <<Unstored>>[1] = Unstored
        OBVIOUS
      <4>2. <<i>> # <<Unstored>>
        BY <4>1
      <4> QED
        BY <4>2
    <3> QED
      BY <2>1, <3>1
  <2> QED
    BY <2>1 DEF Owed
<1> QED
  BY <1>2, <1>3

\* A row that was just stored is nobody else's.
LEMMA NewRow ==
  ASSUME OneRows, Shape, NEW r \in Replicas, NEW n, n = Len(outbox) + 1,
         \A q \in Replicas \ {r} : pc'[q] = pc[q] /\ toPublish'[q] = toPublish[q],
         toPublish'[r] = <<n>>
  PROVE  OneRows' /\ \A i \in 1..Len(outbox) : Owed(i)' =< Owed(i)
<1>0. Len(outbox) \in Nat /\ n \in Nat /\ n > Len(outbox)
  BY LenProperties DEF Shape, RowTypes
<1>1. ASSUME NEW q \in Replicas PROVE toPublish[q] # <<n>>
  <2>1. toPublish[q] \in Seq(0..Len(outbox))
    BY DEF Shape, PendingTypes
  <2>2. toPublish[q] # <<>> => Head(toPublish[q]) \in 0..Len(outbox)
    BY <2>1, HeadTailProperties
  <2>3. Head(<<n>>) = n /\ <<n>> # <<>>
    OBVIOUS
  <2>4. n \notin 0..Len(outbox)
    BY <1>0
  <2> QED
    BY <2>2, <2>3, <2>4
<1>2. \A q \in Replicas : OneRow(q)'
  BY <1>0 DEF OneRows, OneRow
<1>3. ASSUME NEW p \in Replicas, NEW q \in Replicas,
             toPublish'[p] = toPublish'[q], toPublish'[p] \notin {<<>>, <<Unstored>>}
      PROVE  p = q
  BY <1>1, <1>3 DEF OneRows
<1>4. ASSUME NEW i \in 1..Len(outbox) PROVE Owed(i)' =< Owed(i)
  <2>1. <<i>> # <<n>>
    <3>1. <<i>>[1] = i /\ <<n>>[1] = n
      OBVIOUS
    <3>2. i # n
      BY <1>0
    <3> QED
      BY <3>1, <3>2
  <2> QED
    BY <2>1 DEF Owed
<1> QED
  BY <1>2, <1>3, <1>4 DEF OneRows

LEMMA EndsOneRow ==
  ASSUME DeliveryInv, OneRows, NEW r \in Replicas, Ends(r)
  PROVE  OneRows' /\ \A i \in Nat \ {Unstored} : Owed(i)' =< Owed(i)
<1>1. /\ Forget(r) \/ UNCHANGED <<pc, toPublish>>
      /\ DOMAIN pc = Replicas /\ DOMAIN toPublish = Replicas /\ Shape
  BY EndsDrops DEF Drops, DeliveryInv, Shape, SubTypes, PendingTypes
<1>2. /\ \A q \in Replicas \ {r} : pc'[q] = pc[q] /\ toPublish'[q] = toPublish[q]
      /\ \/ toPublish'[r] = toPublish[r] /\ pc'[r] = pc[r]
         \/ toPublish'[r] = <<>>
  BY <1>1 DEF Forget
<1> QED
  BY <1>1, <1>2, SameOrDropped

-----------------------------------------------------------------------------
(* Every step keeps the rows covered.                                      *)

LEMMA LivesBounded ==
  ASSUME DeliveryInv, LifecycleTypeOK', CopiesInv, NEW r, boots' >= boots,
         \/ Lives' \subseteq Lives
         \/ boots' = boots + 1 /\ Lives' \subseteq Lives \cup {r}
  PROVE  Cardinality(Lives') =< Cardinality(Lasting) + boots'
<1>1. /\ IsFiniteSet(Lives) /\ Cardinality(Lasting) \in Nat /\ boots \in Nat
      /\ Cardinality(Lives) =< Cardinality(Lasting) + boots
  BY LivesFinite DEF DeliveryInv, LifecycleInv, LifecycleTypeOK, CopiesInv
<1>2. CASE Lives' \subseteq Lives
  <2>1. /\ Cardinality(Lives') \in Nat /\ Cardinality(Lives) \in Nat
        /\ Cardinality(Lives') =< Cardinality(Lives)
    BY <1>1, <1>2, Fewer
  <2>2. boots' >= boots /\ boots' \in Int
    BY DEF LifecycleTypeOK
  <2> QED
    BY <1>1, <2>1, <2>2
<1>3. CASE boots' = boots + 1 /\ Lives' \subseteq Lives \cup {r}
  <2>1. /\ Cardinality(Lives') \in Nat /\ Cardinality(Lives) \in Nat
        /\ Cardinality(Lives') =< Cardinality(Lives) + 1
    BY <1>1, <1>3, OneMore
  <2> QED
    BY <1>1, <1>3, <2>1
<1> QED
  BY <1>2, <1>3

\* A step that adds neither a row nor a copy.
LEMMA NothingAdded ==
  ASSUME DeliveryInv, DeliveryInv', CopiesInv, NEW r,
         DOMAIN outbox' = DOMAIN outbox, copies' = copies, OneRows',
         \A i \in Nat \ {Unstored} : Owed(i)' =< Owed(i),
         \A i \in DOMAIN outbox : Paid(i),
         boots' >= boots, faults' >= faults,
         \/ Lives' \subseteq Lives
         \/ boots' = boots + 1 /\ Lives' \subseteq Lives \cup {r}
  PROVE  CopiesInv'
<1>1. LifecycleTypeOK /\ LifecycleTypeOK' /\ RowTypes
  BY DEF DeliveryInv, LifecycleInv, Shape
<1>2. Cardinality(Lives') =< Cardinality(Lasting) + boots'
  BY <1>1, LivesBounded
<1>3. ASSUME NEW i \in DOMAIN outbox PROVE Covered(i)'
  <2>1. i \in Nat \ {Unstored} /\ copies[i] \in Nat
    BY <1>1, <1>3, LenProperties, ElementOfSeq DEF RowTypes, Unstored
  <2>2. Covered(i) /\ Paid(i) /\ Owed(i)' =< Owed(i) /\ copies'[i] = copies[i]
    BY <2>1 DEF CopiesInv
  <2> QED
    BY <1>1, <2>1, <2>2, StaysCovered
<1> QED
  BY <1>2, <1>3 DEF CopiesInv

LEMMA EndsCopies ==
  ASSUME DeliveryInv, CopiesInv, NEW r \in Replicas, Ends(r)
  PROVE  CopiesInv'
<1>1. DeliveryInv' /\ rows' = rows
  BY EndsInv, EndsDrops DEF Drops
<1>2. outbox' = outbox /\ copies' = copies
  BY <1>1 DEF rows
<1>3. /\ boots' >= boots /\ faults' >= faults
      /\ Lives' \subseteq Lives
           \/ (boots' = boots + 1 /\ Lives' \subseteq Lives \cup {r})
      /\ \A i : Paid(i)
  BY EndsPaid
<1>4. OneRows' /\ \A i \in Nat \ {Unstored} : Owed(i)' =< Owed(i)
  BY EndsOneRow DEF CopiesInv
<1> QED
  BY <1>1, <1>2, <1>3, <1>4, NothingAdded

\* A step in which nothing starts, ends or fails.
LEMMA SameLives ==
  ASSUME LifecycleTypeOK, UNCHANGED lifecycle
  PROVE  Lives' = Lives /\ boots' = boots /\ faults' = faults
         /\ boots' >= boots /\ faults' >= faults /\ boots \in Nat /\ faults \in Nat
<1>1. phase' = phase /\ task' = task /\ boots' = boots /\ faults' = faults
  BY DEF lifecycle
<1>2. Lives' = Lives
  BY <1>1 DEF Lives, Lively
<1> QED
  BY <1>1, <1>2 DEF LifecycleTypeOK

LEMMA PublishFailsCopies ==
  ASSUME DeliveryInv, CopiesInv, NEW r \in Replicas, PublishFails(r)
  PROVE  CopiesInv'
<1>1. DeliveryInv' /\ Shape /\ OneRows /\ OneRow(r) /\ LifecycleTypeOK
  BY PublishFailsInv DEF CopiesInv, OneRows, DeliveryInv, LifecycleInv
<1>2. /\ outbox' = outbox /\ copies' = copies /\ UNCHANGED flusher
      /\ boots' = boots /\ faults' = faults + 1 /\ phase' = phase /\ task' = task
  BY DEF PublishFails, rows, Fault
<1>3. Lives' = Lives /\ boots' >= boots /\ faults' >= faults
  BY <1>1, <1>2 DEF Lives, Lively, LifecycleTypeOK
<1>4. toPublish'[r] = <<>>
  <2>1. toPublish'[r] = Tail(toPublish[r]) /\ toPublish[r] # <<>>
    BY <1>1 DEF PublishFails, Shape, PendingTypes
  <2> QED
    BY <1>1, <2>1, HeadOfOne DEF OneRow
<1>5. \A q \in Replicas \ {r} : pc'[q] = pc[q] /\ toPublish'[q] = toPublish[q]
  BY <1>1 DEF PublishFails, Shape, PendingTypes, SubTypes
<1>6. OneRows' /\ \A i \in Nat \ {Unstored} : Owed(i)' =< Owed(i)
  BY <1>1, <1>4, <1>5, SameOrDropped
<1>7. \A i : Paid(i)
  BY <1>2, <1>3, ReadyStays DEF Paid
<1> QED
  BY <1>1, <1>2, <1>3, <1>6, <1>7, NothingAdded

LEMMA NewRowCovered ==
  ASSUME DeliveryInv, DeliveryInv', CopiesInv, NEW r \in Replicas, StoreRow,
         UNCHANGED <<lifecycle, flusher>>, toPublish'[r] = <<Len(outbox) + 1>>,
         \A q \in Replicas \ {r} : pc'[q] = pc[q] /\ toPublish'[q] = toPublish[q]
  PROVE  CopiesInv'
<1>0. /\ Shape /\ RowTypes /\ PendingTypes /\ OneRows
      /\ LifecycleTypeOK /\ LifecycleTypeOK' /\ Len(outbox) \in Nat
  BY LenProperties DEF DeliveryInv, Shape, RowTypes, LifecycleInv, CopiesInv
<1>1. /\ RowTypes' /\ Len(outbox') = Len(outbox) + 1
      /\ \A i \in DOMAIN outbox : outbox'[i] = outbox[i] /\ copies'[i] = copies[i]
  BY <1>0, StoreRowTypes
<1>2. /\ Lives' = Lives /\ boots' = boots /\ faults' = faults
      /\ boots' >= boots /\ faults' >= faults /\ boots \in Nat /\ faults \in Nat
  BY <1>0, SameLives
<1>3. OneRows' /\ \A i \in 1..Len(outbox) : Owed(i)' =< Owed(i)
  BY <1>0, NewRow
<1>4. Cardinality(Lives') =< Cardinality(Lasting) + boots'
  BY <1>0, <1>2, LivesBounded
<1>5. ASSUME NEW i \in 1..Len(outbox) PROVE Covered(i)'
  <2>1. /\ i \in DOMAIN outbox /\ copies[i] \in Nat
    BY <1>0, LenProperties, ElementOfSeq DEF RowTypes
  <2>2. Covered(i) /\ Owed(i)' =< Owed(i)
        /\ copies'[i] = copies[i] /\ outbox'[i] = outbox[i]
    BY <1>1, <1>3, <2>1 DEF CopiesInv
  <2>3. Paid(i)
    BY <1>2, <2>2, ReadyStays DEF Paid
  <2> QED
    BY <1>0, <1>2, <2>1, <2>2, <2>3, StaysCovered
<1>6. PICK n : n = Len(outbox) + 1
  OBVIOUS
<1>7. Covered(n)'
  <2>1. copies'[n] = 0
    BY <1>0, <1>6, AppendProperties DEF StoreRow, RowTypes
  <2>2. Ready(n)' \subseteq Lives /\ IsFiniteSet(Lives)
    BY <1>2, LivesFinite DEF Ready
  <2>3. /\ Cardinality(Ready(n)') \in Nat /\ Cardinality(Lives) \in Nat
        /\ Cardinality(Ready(n)') =< Cardinality(Lives)
    BY <2>2, Fewer
  <2>4. Owed(n)' \in {0, 1}
    BY DEF Owed
  <2>5. Cardinality(Lives) =< Cardinality(Lasting) + boots /\ Cardinality(Lasting) \in Nat
    BY LivesFinite DEF CopiesInv
  <2> QED
    BY <1>2, <2>1, <2>3, <2>4, <2>5 DEF Covered, Budget
<1>8. DOMAIN outbox' = 1..Len(outbox) \cup {n}
  <2>1. DOMAIN outbox' = 1..Len(outbox')
    BY <1>1, LenProperties DEF RowTypes
  <2> QED
    BY <1>0, <1>1, <1>6, <2>1
<1> QED
  BY <1>3, <1>4, <1>5, <1>7, <1>8 DEF CopiesInv

\* The copy a publisher adds was owed, or is the one of a loop that was ready.
LEMMA CopyAdded ==
  ASSUME DeliveryInv, DeliveryInv', CopiesInv, NEW n \in 1..Len(outbox),
         AddToStream(n), UNCHANGED <<lifecycle, outbox>>, OneRows',
         \A i \in Nat \ {Unstored} : Owed(i)' =< Owed(i) /\ Ready(i)' \subseteq Ready(i),
         \/ Owed(n)' = 0 /\ Owed(n) = 1
         \/ \E r \in Ready(n) : r \notin Ready(n)'
  PROVE  CopiesInv'
<1>0. /\ Shape /\ RowTypes /\ LifecycleTypeOK /\ LifecycleTypeOK'
      /\ DOMAIN outbox = 1..Len(outbox) /\ DOMAIN copies = 1..Len(outbox)
  BY LenProperties DEF DeliveryInv, Shape, RowTypes, LifecycleInv
<1>1. /\ Lives' = Lives /\ boots' = boots /\ faults' = faults
      /\ boots' >= boots /\ faults' >= faults /\ boots \in Nat /\ faults \in Nat
  BY <1>0, SameLives
<1>2. Cardinality(Lives') =< Cardinality(Lasting) + boots'
  BY <1>0, <1>1, LivesBounded
<1>3. \A i \in 1..Len(outbox) : copies'[i] = IF i = n THEN copies[i] + 1 ELSE copies[i]
  <2>1. \A i \in 1..Len(copies) : copies'[i] = IF i = n THEN copies[i] + 1 ELSE copies[i]
    BY <1>0, StreamTypes
  <2>2. Len(copies) = Len(outbox)
    BY <1>0 DEF RowTypes
  <2> QED
    BY <2>1, <2>2
<1>4. ASSUME NEW i \in 1..Len(outbox) PROVE Covered(i)'
  <2>1. /\ copies[i] \in Nat /\ Covered(i) /\ Owed(i)' =< Owed(i)
        /\ Ready(i)' \subseteq Ready(i)
    <3>1. copies[i] \in Nat
      BY <1>0, CopyCounts
    <3>2. Covered(i)
      BY DEF CopiesInv
    <3>3. i \in Nat \ {Unstored}
      BY DEF Unstored
    <3> QED
      BY <3>1, <3>2, <3>3
  <2>2. CASE i # n
    <3>1. copies'[i] = copies[i] /\ Paid(i)
      BY <1>3, <2>1, <2>2 DEF Paid
    <3> QED
      BY <1>0, <1>1, <2>1, <3>1, StaysCovered
  <2>3. CASE i = n
    <3>0. /\ copies'[i] = copies[i] + 1 /\ Budget' = Budget /\ Budget \in Int
          /\ IsFiniteSet(Ready(i)) /\ Owed(i) \in Int /\ Owed(i)' \in Int
          /\ copies[i] \in Int /\ copies'[i] \in Int
      <4>1. Cardinality(Lasting) \in Nat /\ IsFiniteSet(Ready(i))
        BY LivesFinite
      <4> QED
        BY <1>1, <1>3, <2>1, <2>3, <4>1 DEF Budget, Owed
    <3>1. CASE Owed(i)' = 0 /\ Owed(i) = 1
      <4>1. /\ Cardinality(Ready(i)') \in Int /\ Cardinality(Ready(i)) \in Int
            /\ Cardinality(Ready(i)') =< Cardinality(Ready(i))
        BY <2>1, <3>0, Fewer
      <4>2. copies'[i] + Owed(i)' =< copies[i] + Owed(i) + 0
        BY <3>0, <3>1
      <4>3. Cardinality(Ready(i)') + Budget + 0 =< Cardinality(Ready(i)) + Budget'
        BY <3>0, <4>1
      <4>4. NumbersOf(i) /\ NumbersOf(i)'
        BY <3>0, <4>1 DEF NumbersOf
      <4> QED
        BY <2>1, <4>2, <4>3, <4>4, Afforded
    <3>2. ASSUME NEW r \in Ready(i), r \notin Ready(i)' PROVE Covered(i)'
      <4>1. /\ Cardinality(Ready(i)') \in Int /\ Cardinality(Ready(i)) \in Int
            /\ Cardinality(Ready(i)') + 1 =< Cardinality(Ready(i))
        <5>1. Ready(i)' \subseteq Ready(i) \ {r}
          BY <2>1, <3>2
        <5> QED
          BY <3>0, <5>1, OneLess
      <4>2. copies'[i] + Owed(i)' =< copies[i] + Owed(i) + 1
        BY <2>1, <3>0
      <4>3. Cardinality(Ready(i)') + Budget + 1 =< Cardinality(Ready(i)) + Budget'
        BY <3>0, <4>1
      <4>4. NumbersOf(i) /\ NumbersOf(i)'
        BY <3>0, <4>1 DEF NumbersOf
      <4> QED
        BY <2>1, <4>2, <4>3, <4>4, Afforded
    <3> QED
      BY <2>3, <3>1, <3>2
  <2> QED
    BY <2>2, <2>3
<1> QED
  BY <1>0, <1>2, <1>4 DEF CopiesInv

LEMMA PublishCopies ==
  ASSUME DeliveryInv, DeliveryInv', CopiesInv, NEW r \in Replicas, Publish(r)
  PROVE  CopiesInv'
<1>0. /\ Shape /\ RowTypes /\ OneRows /\ OneRow(r) /\ LifecycleTypeOK
      /\ DOMAIN pc = Replicas
  BY DEF DeliveryInv, Shape, SubTypes, LifecycleInv, CopiesInv, OneRows
<1>1. PICK n : n = Head(toPublish[r])
  OBVIOUS
<1>2. /\ toPublish[r] = <<n>> /\ n \in 1..Len(outbox) /\ n \in Nat \ {Unstored}
  BY <1>0, <1>1, HeadOfOne, PublishedRow DEF Publish, OneRow, Unstored
<1>3. /\ AddToStream(n) /\ UNCHANGED <<lifecycle, outbox, toPublish, flusher>>
      /\ pc[r] = "publish" /\ pc'[r] = "mark"
      /\ \A q \in Replicas \ {r} : pc'[q] = pc[q]
  BY <1>0, <1>1 DEF Publish, Goto
<1>4. OneRows' /\ \A i \in Nat \ {Unstored} : Owed(i)' =< Owed(i)
  BY <1>0, <1>3, SameOrDropped
<1>5. Lives' = Lives
  BY <1>0, <1>3, SameLives
<1>6. \A i : Ready(i)' \subseteq Ready(i)
  BY <1>3, <1>5, ReadyStays
<1>7. Owed(n)' = 0 /\ Owed(n) = 1
  <2>1. <<n>> \notin {<<>>, <<Unstored>>}
    <3>1. <<n>>[1] = n /\ <<Unstored>>[1] = Unstored
      OBVIOUS
    <3>2. <<n>> # <<Unstored>>
      BY <1>2, <3>1
    <3> QED
      BY <3>2
  <2>2. \A q \in Replicas : toPublish[q] = <<n>> => q = r
    BY <1>0, <1>2, <2>1 DEF OneRows
  <2>3. \A q \in Replicas : ~ (pc'[q] = "publish" /\ toPublish'[q] = <<n>>)
    BY <1>3, <2>2
  <2> QED
    BY <1>2, <1>3, <2>3 DEF Owed
<1> QED
  BY <1>2, <1>3, <1>4, <1>6, <1>7, CopyAdded

LEMMA HandleCopies ==
  ASSUME DeliveryInv, DeliveryInv', CopiesInv, NEW r \in Replicas, Handle(r)
  PROVE  CopiesInv'
<1>0. /\ Shape /\ RowTypes /\ OneRows /\ OneRow(r) /\ LifecycleTypeOK /\ Pointed(r)
      /\ DOMAIN pc = Replicas /\ DOMAIN toPublish = Replicas
  BY DEF DeliveryInv, Shape, SubTypes, PendingTypes, LifecycleInv, CopiesInv, OneRows
<1>1. UNCHANGED lifecycle /\ UNCHANGED flusher
  BY DEF Handle, Receive, ClaimRow, Duplicate, Act, Refuse, Enqueue, Publish,
     Published, Complete
<1>2. /\ Lives' = Lives /\ boots' >= boots /\ faults' >= faults
  BY <1>0, <1>1, SameLives
<1>3. \A q \in Replicas \ {r} : pc'[q] = pc[q] /\ toPublish'[q] = toPublish[q]
  BY <1>0 DEF Handle, Receive, ClaimRow, Duplicate, Act, Refuse, Enqueue, Publish,
     Published, Complete, Goto, Reject, Forget
<1>4. CASE Receive(r) \/ ClaimRow(r) \/ Duplicate(r) \/ Refuse(r) \/ Complete(r)
  <2>1. outbox' = outbox /\ copies' = copies
    BY <1>4 DEF Receive, ClaimRow, Duplicate, Refuse, Complete, rows
  <2>2. \/ /\ toPublish'[r] = toPublish[r]
           /\ pc'[r] = "publish" => pc[r] = "publish"
        \/ toPublish'[r] \in {<<>>, <<Unstored>>}
    BY <1>0, <1>4 DEF Receive, ClaimRow, Duplicate, Refuse, Complete, Goto, Reject, Forget
  <2>3. OneRows' /\ \A i \in Nat \ {Unstored} : Owed(i)' =< Owed(i)
    BY <1>0, <1>3, <2>2, SameOrDropped
  <2>4. \A i : Paid(i)
    BY <1>1, <1>2, <2>1, ReadyStays DEF Paid
  <2> QED
    BY <1>2, <2>1, <2>3, <2>4, NothingAdded
<1>5. CASE Act(r)
  <2>1. StoreRow /\ toPublish'[r] = <<Len(outbox) + 1>>
    BY <1>0, <1>5 DEF Act
  <2> QED
    BY <1>1, <1>3, <2>1, NewRowCovered
<1>6. CASE Enqueue(r)
  <2>1. toPublish[r] = <<Unstored>>
    BY <1>0, <1>6, HeadOfOne DEF Enqueue, OneRow
  <2>2. StoreRow /\ toPublish'[r] = [toPublish[r] EXCEPT ![1] = Len(outbox) + 1]
    BY <1>0, <1>6 DEF Enqueue
  <2>3. toPublish'[r] = <<Len(outbox) + 1>>
    BY <2>1, <2>2
  <2> QED
    BY <1>1, <1>3, <2>2, <2>3, NewRowCovered
<1>7. CASE Publish(r)
  BY <1>7, PublishCopies
<1>8. CASE Published(r)
  <2>1. toPublish[r] # <<>> /\ Head(toPublish[r]) \in 1..Len(outbox)
    BY <1>0, <1>8, PublishedRow DEF Published, Goto, Pointed
  <2>2. MarkSent(Head(toPublish[r])) /\ copies' = copies
        /\ toPublish'[r] = Tail(toPublish[r])
    BY <1>0, <1>8 DEF Published
  <2>3. toPublish'[r] = <<>>
    BY <1>0, <2>1, <2>2, HeadOfOne DEF OneRow
  <2>4. /\ DOMAIN outbox' = DOMAIN outbox
        /\ \A i \in DOMAIN outbox : outbox'[i] = "pending" => outbox[i] = "pending"
    BY <1>0, <2>2 DEF MarkSent
  <2>5. OneRows' /\ \A i \in Nat \ {Unstored} : Owed(i)' =< Owed(i)
    BY <1>0, <1>3, <2>3, SameOrDropped
  <2>6. \A i \in DOMAIN outbox : Paid(i)
    BY <1>1, <1>2, <2>4, ReadyStays DEF Paid
  <2> QED
    BY <1>2, <2>2, <2>4, <2>5, <2>6, NothingAdded
<1> QED
  BY <1>4, <1>5, <1>6, <1>7, <1>8 DEF Handle

LEMMA FlushCopies ==
  ASSUME DeliveryInv, DeliveryInv', CopiesInv, NEW r \in Replicas, Flush(r)
  PROVE  CopiesInv'
<1>0. /\ Shape /\ RowTypes /\ PendingTypes /\ OneRows /\ LifecycleTypeOK /\ Pointed(r)
      /\ DOMAIN flush = Replicas /\ DOMAIN batch = Replicas
  BY DEF DeliveryInv, Shape, PendingTypes, LifecycleInv, CopiesInv
<1>1. UNCHANGED lifecycle /\ UNCHANGED <<pc, toPublish>>
  BY DEF Flush, FlushList, FlushPublish, FlushMark, sub
<1>2. /\ Lives' = Lives /\ boots' >= boots /\ faults' >= faults /\ r \in Lives
  BY <1>0, <1>1, SameLives DEF Flush, Works, Lives, Lively, Alive
<1>3. OneRows' /\ \A i : Owed(i)' = Owed(i) /\ Owed(i) \in {0, 1}
  BY <1>0, <1>1 DEF OneRows, OneRow, Owed
<1>4. \A q \in Replicas \ {r} : flush'[q] = flush[q] /\ batch'[q] = batch[q]
  BY <1>0 DEF Flush, FlushList, FlushPublish, FlushMark
<1>5. \A q \in Replicas \ {r} : First(q)' = First(q)
  BY <1>4 DEF First
<1>6. ASSUME NEW i, outbox'[i] = "pending" => outbox[i] = "pending",
             r \in Ready(i)' => r \in Ready(i)
      PROVE  Ready(i)' \subseteq Ready(i)
  <2> SUFFICES ASSUME NEW q \in Ready(i)', q # r PROVE q \in Ready(i)
    BY <1>6
  <2>1. q \in Lives /\ q \in Replicas
    BY <1>2 DEF Ready, Lives
  <2> QED
    BY <1>4, <1>5, <1>6, <2>1 DEF Ready
<1>7. CASE FlushList(r)
  <2>1. /\ outbox' = outbox /\ copies' = copies /\ flush[r] = "idle"
        /\ batch'[r] = Pending
    BY <1>0, <1>7 DEF FlushList, rows
  <2>2. ASSUME NEW i \in DOMAIN outbox PROVE Paid(i)
    <3>1. r \in Ready(i)' => r \in Ready(i)
      BY <1>2, <2>1 DEF Ready, Pending
    <3> QED
      BY <1>6, <2>1, <3>1 DEF Paid
  <2> QED
    BY <1>2, <1>3, <2>1, <2>2, NothingAdded
<1>8. CASE FlushPublish(r)
  <2>1. PICK n : n = First(r)
    OBVIOUS
  <2>2. /\ n \in 1..Len(outbox) /\ n \in batch[r] /\ AddToStream(n)
        /\ outbox' = outbox /\ batch' = batch
        /\ flush[r] = "publish" /\ flush'[r] = "mark"
    BY <1>0, <1>8, <2>1, FirstInBatch DEF FlushPublish, Pointed
  <2>3. First(r)' = n
    BY <2>1, <2>2 DEF First
  <2>4. r \in Ready(n) /\ r \notin Ready(n)'
    BY <1>2, <2>2, <2>3 DEF Ready
  <2>5. ASSUME NEW i PROVE Ready(i)' \subseteq Ready(i)
    <3>1. r \in Ready(i)' => r \in Ready(i)
      BY <1>2, <2>2 DEF Ready
    <3> QED
      BY <1>6, <2>2, <3>1
  <2>6. \A i \in Nat \ {Unstored} : Owed(i)' =< Owed(i) /\ Ready(i)' \subseteq Ready(i)
    BY <1>3, <2>5
  <2> QED
    BY <1>1, <1>3, <2>2, <2>4, <2>6, CopyAdded
<1>9. CASE FlushMark(r)
  <2>1. PICK n : n = First(r)
    OBVIOUS
  <2>2. /\ n \in 1..Len(outbox) /\ MarkSent(n) /\ copies' = copies
        /\ batch'[r] = batch[r] \ {n} /\ flush[r] = "mark" /\ flush'[r] # "mark"
    BY <1>0, <1>9, <2>1, FirstInBatch DEF FlushMark, Pointed
  <2>3. /\ DOMAIN outbox' = DOMAIN outbox /\ outbox'[n] = "sent"
        /\ \A i \in DOMAIN outbox : outbox'[i] = "pending" => outbox[i] = "pending"
    BY <1>0, <2>2, LenProperties DEF MarkSent, RowTypes
  <2>4. ASSUME NEW i \in DOMAIN outbox PROVE Paid(i)
    <3>1. r \in Ready(i)' => r \in Ready(i)
      BY <1>2, <2>1, <2>2, <2>3 DEF Ready
    <3> QED
      BY <1>6, <2>3, <3>1 DEF Paid
  <2>5. \A i \in Nat \ {Unstored} : Owed(i)' =< Owed(i)
    BY <1>3
  <2> QED
    BY <1>2, <1>3, <2>2, <2>3, <2>4, <2>5, NothingAdded
<1> QED
  BY <1>7, <1>8, <1>9 DEF Flush

LEMMA OutsideCopies ==
  ASSUME DeliveryInv, DeliveryInv', CopiesInv,
         (\E e \in Events : Send(e)) \/ Tick \/ UNCHANGED vars
  PROVE  CopiesInv'
<1>0. LifecycleTypeOK
  BY DEF DeliveryInv, LifecycleInv
<1>1. UNCHANGED <<lifecycle, rows, sub, flusher>>
  BY DEF Send, Tick, vars
<1>2. /\ Lives' = Lives /\ boots' >= boots /\ faults' >= faults
  BY <1>0, <1>1, SameLives
<1>3. OneRows' /\ \A i : Owed(i)' = Owed(i) /\ Owed(i) \in {0, 1}
  BY <1>1 DEF CopiesInv, OneRows, OneRow, Owed, sub
<1>4. \A i \in Nat \ {Unstored} : Owed(i)' =< Owed(i)
  BY <1>3
<1>5. outbox' = outbox /\ copies' = copies
  BY <1>1 DEF rows
<1>6. \A i \in DOMAIN outbox : Paid(i)
  BY <1>1, <1>2, <1>5, ReadyStays DEF Paid
<1> QED
  BY <1>2, <1>3, <1>4, <1>5, <1>6, NothingAdded

LEMMA CopiesInit == Init => CopiesInv
<1> SUFFICES ASSUME Init PROVE CopiesInv
  OBVIOUS
<1>1. Lives \subseteq Lasting /\ boots = 0 /\ Cardinality(Lasting) \in Nat
      /\ IsFiniteSet(Lasting)
  BY LivesFinite DEF Init, InitLifecycle, Lives, Lively, Starting, Alive, Tasks
<1>2. Cardinality(Lives) =< Cardinality(Lasting) + boots
  <2>1. Cardinality(Lives) \in Nat /\ Cardinality(Lives) =< Cardinality(Lasting)
    BY <1>1, Fewer
  <2> QED
    BY <1>1, <2>1
<1>3. OneRows /\ DOMAIN outbox = {}
  BY DEF Init, OneRows, OneRow
<1> QED
  BY <1>2, <1>3 DEF CopiesInv

LEMMA CopiesNext ==
  ASSUME DeliveryInv, DeliveryInv', CopiesInv, [Next]_vars PROVE CopiesInv'
<1>1. ASSUME NEW r \in Replicas, Fails(r) PROVE CopiesInv'
  BY <1>1, EndsCopies, PublishFailsCopies DEF Ends
<1>2. ASSUME NEW r \in Replicas,
             Advances(r) \/ Disturbed(r) \/ Killed(r) \/ SubscriberEnds(r) \/ MaintenanceEnds(r)
      PROVE  CopiesInv'
  BY <1>2, EndsCopies DEF Ends
<1> QED
  BY <1>1, <1>2, HandleCopies, FlushCopies, OutsideCopies DEF Next

-----------------------------------------------------------------------------
(* The theorems.                                                           *)

\* The variables of a delivery and of the lifecycle keep their types.
THEOREM TypeCorrect == Spec => []TypeOK
<1>1. DeliveryInv => TypeOK
  BY ShapeTypes DEF DeliveryInv, LifecycleInv
<1> QED
  BY Invariance, <1>1, PTL

\* Whatever fails or is cancelled while a replica starts or shuts down, it has
\* closed its tunnel, engine and client when it is off.
THEOREM ReplicasCloseAll == Spec => []NothingLeaks
<1>1. DeliveryInv => NothingLeaks
  BY DEF DeliveryInv, LifecycleInv, InOrder, NothingLeaks
<1> QED
  BY Invariance, <1>1, PTL

\* A background task that can still make a step has its connections.
THEOREM TasksAreConnected == Spec => []TasksHaveConnections
<1>1. DeliveryInv => TasksHaveConnections
  <2> SUFFICES ASSUME DeliveryInv, NEW r \in Replicas, NEW t \in Tasks,
                      task[r][t] \in Alive
               PROVE  open[r] = Resources
    BY DEF TasksHaveConnections
  <2>1. ~ Quiet(r) /\ InOrder(r) /\ LifecycleTypeOK
    BY DEF DeliveryInv, LifecycleInv, Quiet
  <2> QED
    BY <2>1 DEF InOrder, LifecycleTypeOK, Starting, Waiting, Closing
<1> QED
  BY Invariance, <1>1, PTL

\* While the lease of a claim lasts no other replica handles the event.
THEOREM LeasesExclude == Spec => []LeaseIsExclusive
<1>1. DeliveryInv => LeaseIsExclusive
  BY DEF DeliveryInv, ControlInv
<1> QED
  BY Invariance, <1>1, PTL

\* The handler of an event has its effect at most once per lease that has
\* passed since the event was first claimed.
THEOREM EffectsAreLeasesApart == Spec => []EffectsAreSpaced
<1>1. DeliveryInv => EffectsAreSpaced
  <2> SUFFICES ASSUME DeliveryInv, NEW e \in Events
               PROVE  /\ applied[e] =< granted[e]
                      /\ granted[e] > 0 => (granted[e] - 1) * Lease =< now
    BY DEF EffectsAreSpaced
  <2>1. Shape /\ ControlInv /\ ClaimInOrder(e) /\ Cardinality(Acting(e)) \in Nat
    BY ActingFinite DEF DeliveryInv, ControlInv
  <2>2. applied[e] \in Nat /\ granted[e] \in Nat /\ now \in Nat /\ Lease \in Nat
    BY <2>1, DeliveryAssumption DEF Shape, TableTypes, PubTypes
  <2>3. applied[e] =< granted[e]
    BY <2>1, <2>2 DEF ClaimInOrder
  <2>4. granted[e] > 0 => granted[e] * Lease =< now + Lease
    BY <2>1, <2>2, GrantsBounded DEF ClaimInOrder
  <2>5. (granted[e] - 1) * Lease = granted[e] * Lease - Lease
    BY <2>2
  <2>6. granted[e] * Lease \in Nat
    BY <2>2
  <2>7. granted[e] > 0 => granted[e] * Lease - Lease =< now
    BY <2>2, <2>4, <2>6
  <2> QED
    BY <2>3, <2>5, <2>7
<1> QED
  BY Invariance, <1>1, PTL

\* An event is completed only after its handler had its effect.
THEOREM CompletedHadEffect == Spec => []CompletedWasApplied
<1>1. DeliveryInv => CompletedWasApplied
  BY DEF DeliveryInv, ControlInv, ClaimInOrder, CompletedWasApplied
<1> QED
  BY Invariance, <1>1, PTL

\* A row of the outbox that is marked as sent is on the stream.
THEOREM SentWasStreamed == Spec => []SentIsOnStream
<1>1. DeliveryInv => SentIsOnStream
  BY DEF DeliveryInv, StreamInv
<1> QED
  BY Invariance, <1>1, PTL

\* An event is on the stream once, and once more at most for each life of a
\* maintenance loop and for each failure: flush_pending and the publisher of
\* the event add no copy that one of these has not paid for.
THEOREM CopiesBounded == Spec => []CopiesAreBounded
<1>1. CopiesInv /\ DeliveryInv => CopiesAreBounded
  <2> SUFFICES ASSUME CopiesInv, DeliveryInv, NEW i \in DOMAIN outbox
               PROVE  copies[i] =< Budget
    BY DEF CopiesAreBounded, Budget
  <2>1. RowTypes /\ boots \in Nat /\ faults \in Nat
    BY DEF DeliveryInv, Shape, LifecycleInv, LifecycleTypeOK
  <2>2. copies[i] \in Nat
    BY <2>1, LenProperties, ElementOfSeq DEF RowTypes
  <2>3. Owed(i) \in Nat
    BY DEF Owed
  <2>4. Cardinality(Ready(i)) \in Nat /\ Cardinality(Lasting) \in Nat
    BY LivesFinite, FS_CardinalityType
  <2>5. Covered(i)
    BY DEF CopiesInv
  <2> QED
    BY <2>1, <2>2, <2>3, <2>4, <2>5 DEF Covered, Budget
<1>2. DeliveryInv /\ DeliveryInv' /\ CopiesInv /\ [Next]_vars => CopiesInv'
  BY CopiesNext
<1> QED
  BY Invariance, CopiesInit, <1>1, <1>2, PTL DEF Spec
=============================================================================
