---------------------------- MODULE EventDelivery ----------------------------
(***************************************************************************)
(* Events between the operator agent and the others: the outbox in MySQL,  *)
(* its publication to the stream in Redis (dao/redis/event_publisher.py),  *)
(* and the control events that reach the agent over pub/sub and are        *)
(* claimed before they are handled (event/event_router.py).  Replicas of   *)
(* the application start, stop and fail as in AppLifecycle while they do.  *)
(*                                                                         *)
(* Every replica is subscribed, so that each gets a copy of every control  *)
(* event and a claim in MySQL decides which of them handles it.            *)
(***************************************************************************)
EXTENDS AppLifecycle

CONSTANTS
  Events,      \* control events of other agents
  Repeatable,  \* those whose handler has its effect again when run again
  Lease,       \* how long a claim lasts
  MaxTime,     \* bounds the clock
  MaxSends     \* bounds how often the same event is published

NoEvent == "no event"

ASSUME DeliveryAssumption ==
  /\ NoEvent \notin Events
  /\ Repeatable \subseteq Events
  /\ {Lease, MaxTime, MaxSends} \subseteq Nat \ {0}
  /\ IsFiniteSet(Replicas)

VARIABLES
  now,
  sends,      \* how often each control event was published
  inbox,      \* the copies waiting in each replica's subscription
  claim,      \* processed_events, by event
  applied,    \* how often the event's handler had its effect
  granted,    \* how often a claim of the event was granted
  outbox,     \* the status of each outbound event, in the order of their rows
  copies,     \* how often each of them was added to the stream
  pc,         \* where the subscriber of each replica is
  event,      \* the control event it handles
  lease,      \* until when its claim lasts
  toPublish,  \* outbound events it has yet to publish
  flush,      \* where the maintenance loop of each replica is
  batch       \* the pending rows it has read and not yet dealt with

table == <<claim, applied, granted>>
rows == <<outbox, copies>>
sub == <<pc, event, lease, toPublish>>
flusher == <<flush, batch>>
vars == <<lifecycle, now, sends, inbox, table, rows, sub, flusher>>

\* A cancelled task is interrupted at the await it is in.
Works(r, t) == task[r][t] \in {"running", "told"}
Goto(r, from, to) == pc[r] = from /\ pc' = [pc EXCEPT ![r] = to]

-----------------------------------------------------------------------------
(* The other agents and the clock.                                         *)

\* Redis hands a published message to who is subscribed at that moment.
Subscribed == {r \in Replicas : Works(r, "subscriber")}

Send(e) ==
  /\ sends[e] < MaxSends
  /\ sends' = [sends EXCEPT ![e] = @ + 1]
  /\ inbox' = [r \in Replicas |->
                 IF r \in Subscribed THEN Append(inbox[r], e) ELSE inbox[r]]
  /\ UNCHANGED <<lifecycle, now, table, rows, sub, flusher>>

Tick ==
  /\ now < MaxTime
  /\ now' = now + 1
  /\ UNCHANGED <<lifecycle, sends, inbox, table, rows, sub, flusher>>

-----------------------------------------------------------------------------
(* Publication.  An event is the number of its row; Unstored is one that   *)
(* has none yet, since the code publishes some events that no transition   *)
(* of an operation has stored.                                             *)

Unstored == 0

StoreRow ==
  /\ outbox' = Append(outbox, "pending")
  /\ copies' = Append(copies, 0)

AddToStream(i) == copies' = [copies EXCEPT ![i] = @ + 1]
MarkSent(i) == outbox' = [outbox EXCEPT ![i] = "sent"]

\* DurableEventPublisher.publish, in a subscriber.
Enqueue(r) ==
  /\ pc[r] = "publish" /\ toPublish[r] # <<>>
  /\ Head(toPublish[r]) = Unstored
  /\ StoreRow
  /\ toPublish' = [toPublish EXCEPT ![r][1] = Len(outbox) + 1]
  /\ UNCHANGED <<lifecycle, now, sends, inbox, table, pc, event, lease, flusher>>

Publish(r) ==
  /\ toPublish[r] # <<>> /\ Head(toPublish[r]) # Unstored
  /\ Goto(r, "publish", "mark")
  /\ AddToStream(Head(toPublish[r]))
  /\ UNCHANGED <<lifecycle, now, sends, inbox, table, outbox, event, lease,
                 toPublish, flusher>>

Published(r) ==
  /\ Goto(r, "mark", "publish")
  /\ MarkSent(Head(toPublish[r]))
  /\ toPublish' = [toPublish EXCEPT ![r] = Tail(@)]
  /\ UNCHANGED <<lifecycle, now, sends, inbox, table, copies, event, lease,
                 flusher>>

\* Faulty variant: no return after the error is logged.
FailsButMarked(r) ==
  /\ Fault
  /\ pc[r] \in {"publish", "mark"} /\ toPublish[r] # <<>>
  /\ Head(toPublish[r]) # Unstored
  /\ pc' = [pc EXCEPT ![r] = "publish"]
  /\ MarkSent(Head(toPublish[r]))
  /\ toPublish' = [toPublish EXCEPT ![r] = Tail(@)]
  /\ UNCHANGED <<phase, open, task, cancelled, boots, now, sends, inbox, table,
                 copies, event, lease, flusher>>

\* The transport fails, before or after the event is on the stream: the row
\* stays pending and the handler goes on.
PublishFails(r) ==
  /\ Fault
  /\ pc[r] \in {"publish", "mark"} /\ toPublish[r] # <<>>
  /\ Head(toPublish[r]) # Unstored
  /\ pc' = [pc EXCEPT ![r] = "publish"]
  /\ toPublish' = [toPublish EXCEPT ![r] = Tail(@)]
  /\ UNCHANGED <<phase, open, task, cancelled, boots, now, sends, inbox, table,
                 rows, event, lease, flusher>>

-----------------------------------------------------------------------------
(* The maintenance loop: flush_pending.                                    *)

\* Faulty variant: no condition on the status.
EveryRow == DOMAIN outbox

Pending == {i \in DOMAIN outbox : outbox[i] = "pending"}

\* The rows are dealt with in their order.
First(r) == CHOOSE i \in batch[r] : \A k \in batch[r] : i =< k

FlushList(r) ==
  /\ flush[r] = "idle"
  /\ Pending # {}
  /\ flush' = [flush EXCEPT ![r] = "publish"]
  /\ batch' = [batch EXCEPT ![r] = Pending]
  /\ UNCHANGED <<lifecycle, now, sends, inbox, table, rows, sub>>

FlushPublish(r) ==
  /\ flush[r] = "publish"
  /\ flush' = [flush EXCEPT ![r] = "mark"]
  /\ AddToStream(First(r))
  /\ UNCHANGED <<lifecycle, now, sends, inbox, table, outbox, sub, batch>>

FlushMark(r) ==
  /\ flush[r] = "mark"
  /\ flush' = [flush EXCEPT ![r] =
                 IF batch[r] = {First(r)} THEN "idle" ELSE "publish"]
  /\ batch' = [batch EXCEPT ![r] = @ \ {First(r)}]
  /\ MarkSent(First(r))
  /\ UNCHANGED <<lifecycle, now, sends, inbox, table, copies, sub>>

\* Faulty variant: the error ends the loop.
FlushFailsForGood(r) ==
  /\ Fault
  /\ flush[r] # "idle"
  /\ flush' = [flush EXCEPT ![r] = "idle"]
  /\ batch' = [batch EXCEPT ![r] = {}]
  /\ Set(r, "maintenance", "none")
  /\ UNCHANGED <<phase, open, cancelled, boots, now, sends, inbox, table, rows,
                 sub>>

\* The first row that cannot be published ends the pass.
FlushFails(r) ==
  /\ Fault
  /\ flush[r] # "idle"
  /\ flush' = [flush EXCEPT ![r] = "idle"]
  /\ batch' = [batch EXCEPT ![r] = {}]
  /\ UNCHANGED <<phase, open, task, cancelled, boots, now, sends, inbox, table,
                 rows, sub>>

-----------------------------------------------------------------------------
(* A control event: claim, act, publish, complete.                         *)

\* Faulty variant: a rejected event is completed like any other.
RejectCompletes(r) ==
  /\ pc' = [pc EXCEPT ![r] = "publish"]
  /\ toPublish' = [toPublish EXCEPT ![r] = <<Unstored>>]
  /\ UNCHANGED event

Reject(r) ==
  /\ pc' = [pc EXCEPT ![r] = "publish"]
  /\ toPublish' = [toPublish EXCEPT ![r] = <<Unstored>>]
  /\ event' = [event EXCEPT ![r] = NoEvent]

Grant(r, e) ==
  /\ claim' = [claim EXCEPT ![e] =
                 [status |-> "processing", until |-> now + Lease]]
  /\ granted' = [granted EXCEPT ![e] = @ + 1]
  /\ lease' = [lease EXCEPT ![r] = now + Lease]

\* Faulty variants: the lease, or the status, is not looked at.
AnyProcessing(e) == claim[e].status = "processing"
AnyLapsed(e) == claim[e].status # "none" /\ claim[e].until =< now

\* claim_event looks for a lapsed claim of the same event first.
Reclaimable(e) == claim[e].status = "processing" /\ claim[e].until =< now

\* An event of an unknown version, on a wrong channel, or past the time it is
\* valid is rejected before it is claimed.
Receive(r) ==
  /\ pc[r] = "listen" /\ inbox[r] # <<>>
  /\ inbox' = [inbox EXCEPT ![r] = Tail(@)]
  /\ LET e == Head(inbox[r]) IN
       \/ Reject(r) /\ UNCHANGED <<table, lease>>
       \/ /\ event' = [event EXCEPT ![r] = e]
          /\ IF Reclaimable(e)
             THEN Grant(r, e) /\ pc' = [pc EXCEPT ![r] = "act"]
             ELSE pc' = [pc EXCEPT ![r] = "insert"]
                  /\ UNCHANGED <<claim, granted, lease>>
          /\ UNCHANGED <<applied, toPublish>>
  /\ UNCHANGED <<lifecycle, now, sends, rows, flusher>>

\* The row of an event is unique: of two claims that both found no lapsed one
\* the second fails, and its event is rejected as a duplicate.
ClaimRow(r) ==
  /\ Goto(r, "insert", "act")
  /\ claim[event[r]].status = "none"
  /\ Grant(r, event[r])
  /\ UNCHANGED <<lifecycle, now, sends, inbox, applied, rows, event, toPublish,
                 flusher>>

Duplicate(r) ==
  /\ pc[r] = "insert"
  /\ claim[event[r]].status # "none"
  /\ Reject(r)
  /\ UNCHANGED <<lifecycle, now, sends, inbox, table, rows, lease, flusher>>

\* The operation is changed and the event of its new status stored in one
\* transaction.  The event of the result that follows is published the way a
\* rejection is, and left out.
Act(r) ==
  /\ Goto(r, "act", "publish")
  /\ event[r] \in Repeatable \/ applied[event[r]] = 0
  /\ applied' = [applied EXCEPT ![event[r]] = @ + 1]
  /\ StoreRow
  /\ toPublish' = [toPublish EXCEPT ![r] = <<Len(outbox) + 1>>]
  /\ UNCHANGED <<lifecycle, now, sends, inbox, claim, granted, event, lease,
                 flusher>>

\* The requester may not do this, or the state of the operation forbids it.
Refuse(r) ==
  /\ pc[r] = "act"
  /\ Reject(r)
  /\ UNCHANGED <<lifecycle, now, sends, inbox, table, rows, lease, flusher>>

\* Any other exception is logged by the subscriber, and the event forgotten.
Forget(r) ==
  /\ pc' = [pc EXCEPT ![r] = "listen"]
  /\ event' = [event EXCEPT ![r] = NoEvent]
  /\ toPublish' = [toPublish EXCEPT ![r] = <<>>]

HandlerFails(r) ==
  /\ Fault
  /\ pc[r] # "listen"
  /\ Forget(r)
  /\ UNCHANGED <<phase, open, task, cancelled, boots, now, sends, inbox, table,
                 rows, lease, flusher>>

\* A rejected event stays claimed.
Complete(r) ==
  /\ pc[r] = "publish" /\ toPublish[r] = <<>>
  /\ claim' = IF event[r] = NoEvent THEN claim
              ELSE [claim EXCEPT ![event[r]] =
                      [status |-> "completed", until |-> 0]]
  /\ Forget(r)
  /\ UNCHANGED <<lifecycle, now, sends, inbox, applied, granted, rows, lease,
                 flusher>>

-----------------------------------------------------------------------------
(* The lifecycle, and what its steps do to the tasks.                      *)

Advances(r) ==
  /\ Progress(r) \/ \E t \in Tasks : TaskTimesOut(r, t)
  /\ UNCHANGED <<now, sends, inbox, table, rows, sub, flusher>>

Disturbed(r) ==
  /\ Boot(r) \/ Stop(r) \/ Cancel(r) \/ TunnelRefused(r) \/ StartFails(r)
  /\ UNCHANGED <<now, sends, inbox, table, rows, sub, flusher>>

\* A task that ends loses what it was about to do, and the subscription with
\* it the messages not yet received.
DropSubscriber(r) ==
  /\ Forget(r)
  /\ inbox' = [inbox EXCEPT ![r] = <<>>]

DropMaintenance(r) ==
  /\ flush' = [flush EXCEPT ![r] = "idle"]
  /\ batch' = [batch EXCEPT ![r] = {}]

\* A task that was only told to stop does so at the head of its loop.
SubscriberEnds(r) ==
  /\ \/ TaskHangs(r, "subscriber")
     \/ /\ pc[r] = "listen" \/ task[r]["subscriber"] = "cancelled"
        /\ TaskEnds(r, "subscriber")
     \/ pc[r] = "listen" /\ SubscriberBreaks(r)
  /\ DropSubscriber(r)
  /\ UNCHANGED <<now, sends, table, rows, lease, flusher>>

MaintenanceEnds(r) ==
  /\ \/ TaskHangs(r, "maintenance")
     \/ /\ flush[r] = "idle" \/ task[r]["maintenance"] = "cancelled"
        /\ TaskEnds(r, "maintenance")
  /\ DropMaintenance(r)
  /\ UNCHANGED <<now, sends, inbox, table, rows, sub>>

Killed(r) ==
  /\ Kill(r)
  /\ DropSubscriber(r)
  /\ DropMaintenance(r)
  /\ UNCHANGED <<now, sends, table, rows, lease>>

-----------------------------------------------------------------------------
Init ==
  /\ InitLifecycle
  /\ now = 0
  /\ sends = [e \in Events |-> 0]
  /\ inbox = [r \in Replicas |-> <<>>]
  /\ claim = [e \in Events |-> [status |-> "none", until |-> 0]]
  /\ applied = [e \in Events |-> 0]
  /\ granted = [e \in Events |-> 0]
  /\ outbox = <<>>
  /\ copies = <<>>
  /\ pc = [r \in Replicas |-> "listen"]
  /\ event = [r \in Replicas |-> NoEvent]
  /\ lease = [r \in Replicas |-> 0]
  /\ toPublish = [r \in Replicas |-> <<>>]
  /\ flush = [r \in Replicas |-> "idle"]
  /\ batch = [r \in Replicas |-> {}]

\* Tasks that hang make no step of these.
Handle(r) ==
  /\ Works(r, "subscriber")
  /\ \/ Receive(r) \/ ClaimRow(r) \/ Duplicate(r) \/ Act(r) \/ Refuse(r)
     \/ Enqueue(r) \/ Publish(r) \/ Published(r) \/ Complete(r)

Flush(r) ==
  /\ Works(r, "maintenance")
  /\ FlushList(r) \/ FlushPublish(r) \/ FlushMark(r)

Fails(r) ==
  \/ Works(r, "subscriber") /\ (PublishFails(r) \/ HandlerFails(r))
  \/ Works(r, "maintenance") /\ FlushFails(r)

Next ==
  \/ \E e \in Events : Send(e)
  \/ Tick
  \/ \E r \in Replicas :
       \/ Handle(r) \/ Flush(r) \/ Fails(r)
       \/ Advances(r) \/ Disturbed(r) \/ Killed(r)
       \/ SubscriberEnds(r) \/ MaintenanceEnds(r)

\* The coroutines that start and stop a process, with the tasks they have
\* cancelled, and its maintenance loop are run by its event loop again and
\* again.  Nothing makes an agent send, a server stop, a process that is off
\* start, or a handler go on.
Winds(r) ==
  \/ Advances(r)
  \/ task[r]["subscriber"] = "cancelled" /\ SubscriberEnds(r)
  \/ task[r]["maintenance"] = "cancelled" /\ MaintenanceEnds(r)

Fairness ==
  /\ \A r \in Replicas \ Lasting : WF_vars(Winds(r))
  /\ \A r \in Replicas : WF_vars(Flush(r))

Spec == Init /\ [][Next]_vars /\ Fairness

-----------------------------------------------------------------------------
(* Properties.                                                             *)

TypeOK ==
  /\ LifecycleTypeOK
  /\ now \in 0..MaxTime
  /\ sends \in [Events -> 0..MaxSends]
  /\ inbox \in [Replicas -> Seq(Events)]
  /\ claim \in [Events -> [status : {"none", "processing", "completed"},
                           until : 0..(MaxTime + Lease)]]
  /\ applied \in [Events -> Nat]
  /\ granted \in [Events -> Nat]
  /\ outbox \in Seq({"pending", "sent"})
  /\ copies \in Seq(Nat) /\ Len(copies) = Len(outbox)
  /\ pc \in [Replicas -> {"listen", "insert", "act", "publish", "mark"}]
  /\ event \in [Replicas -> Events \cup {NoEvent}]
  /\ lease \in [Replicas -> 0..(MaxTime + Lease)]
  /\ toPublish \in [Replicas -> Seq(0..Len(outbox))]
  /\ flush \in [Replicas -> {"idle", "publish", "mark"}]
  /\ batch \in [Replicas -> SUBSET (1..Len(outbox))]

\* Until when its claim lasts, a replica handles its event alone.
Owns(r) == event[r] # NoEvent /\ pc[r] # "insert" /\ now < lease[r]

LeaseIsExclusive ==
  \A r, q \in Replicas :
    Owns(r) /\ Owns(q) /\ event[r] = event[q] => r = q

\* However often an event is delivered, and to however many replicas, its
\* handler has its effect no more often than a lease has passed since the
\* first time: only a handler slower than its lease, or one that failed after
\* its effect, is repeated.
EffectsAreSpaced ==
  \A e \in Events :
    /\ applied[e] =< granted[e]
    /\ granted[e] > 0 => (granted[e] - 1) * Lease =< now

\* An event that is marked completed, and so will never be handled again, had
\* its effect.
CompletedWasApplied ==
  \A e \in Events : claim[e].status = "completed" => applied[e] > 0

\* At least once: a row that no flush will look at again is on the stream.
SentIsOnStream ==
  \A i \in DOMAIN outbox : outbox[i] = "sent" => copies[i] > 0

\* Duplicates are what an interruption between the stream and the row leaves
\* behind, and the overlap of the publisher with a flush of each process that ran.
CopiesAreBounded ==
  \A i \in DOMAIN outbox :
    copies[i] =< 1 + Cardinality(Lasting) + boots + faults

\* An event that was stored is published in the end, if some replica stays up,
\* whatever became of the one that stored it.
MaxRows == MaxSends * Cardinality(Events) * Cardinality(Replicas)
OutboxDrains ==
  (\E r \in Replicas : <>[](phase[r] = "serving")) =>
    \A i \in 1..MaxRows :
      Len(outbox) >= i ~> Len(outbox) >= i /\ outbox[i] = "sent"
=============================================================================
