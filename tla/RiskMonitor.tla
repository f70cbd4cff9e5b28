----------------------------- MODULE RiskMonitor -----------------------------
(***************************************************************************)
(* Monitoring of transactions: an alert is saved, announced on the bus in  *)
(* memory and in Redis, and marked as broadcast, while officers handle it  *)
(* (service/risk/monitor_service.py, event/risk_alert_publisher.py,        *)
(* dao/mysql/risk_alert_dao.py).                                           *)
(*                                                                         *)
(* Calls are coroutines of one process that interleave at their awaits.    *)
(* The store is the one in MySQL; the store in memory does in one step     *)
(* what that one does in a session.                                        *)
(***************************************************************************)
EXTENDS RiskRules, Sequences, SequencesExt

CONSTANTS
  Calls,         \* of monitor and handle; each is made once
  Transactions,  \* that monitor is called for
  Modes,         \* of the language model that are configured
  RecentMax,     \* RISK_ALERT_RECENT_MAX
  MaxFaults,     \* calls of Redis that fail
  MaxStops       \* calls that are cancelled, and crashes

NoCall == "no call"

ASSUME MonitorAssumption ==
  /\ NoCall \notin Calls
  /\ Modes \subseteq {"mock", "http", "off"}
  /\ RecentMax \in Nat \ {0}
  /\ MaxFaults \in Nat /\ MaxStops \in Nat

VARIABLES
  mode,       \* of the language model
  alerts,     \* fin_risk_alert
  memory,     \* published: the alerts announced on the bus in memory
  channel,    \* the alerts that were published on event:risk_alert
  recent,     \* risk:alert:recent, the newest first
  connected,  \* the publisher has a client
  connecting, \* the call that holds _connect_lock
  clients,    \* clients of Redis that are open
  last,       \* the result the publisher remembers of its last call
  pc, task,   \* of each call: its step and its local state
  report,     \* what a call of monitor says of the publication
  faults, stops,
  announced   \* history: the alerts that ever were on the bus in memory

redis == <<channel, recent>>
client == <<connected, connecting, clients>>
bus == <<memory, announced>>
vars == <<mode, alerts, bus, redis, client, last, pc, task, report, faults,
          stops>>

-----------------------------------------------------------------------------
BROADCAST_LEVELS == {"medium", "high"}
Statuses == {"unhandled", "confirmed", "excluded"}   \* ALLOWED_HANDLE_STATUSES

NoTask == [alert |-> 0]
NoReport == [published |-> FALSE, error |-> FALSE]

NoLevel == "none"
Record(type, level, hits, e, status) ==
  [record_type |-> type, alert_level |-> level, hit_rules |-> hits,
   confidence |-> e.confidence, llm_review |-> e.review,
   llm_conflict |-> e.conflict, status |-> status, work_order |-> FALSE,
   broadcasted |-> FALSE]

Goto(c, from, to) == pc[c] = from /\ pc' = [pc EXCEPT ![c] = to]
Set(c, value) == task' = [task EXCEPT ![c] = value]

-----------------------------------------------------------------------------
(* monitor.                                                                *)

\* The rules and the model's opinion of a transaction: nothing of it is kept
\* outside the call.
Monitor(c, t, force_audit) ==
  LET result == evaluate_with_gate(t)
      base == compute_confidence(result.hits, result.skip_full)
      level == grade_alert_level(result.hits)
  IN /\ Goto(c, "idle", IF result.hits # {} THEN "save"
                        ELSE IF force_audit THEN "audit" ELSE "end")
     /\ IF result.hits # {}
        THEN \E e \in enrich(mode, result.hits, level, base) :
               Set(c, [alert |-> 0, record |->
                         Record("alert", level, result.hits, e, "unhandled")])
        ELSE Set(c, [alert |-> 0, confidence |-> base])
     /\ UNCHANGED <<mode, alerts, bus, redis, client, last, report, faults,
                    stops>>

\* create: an alert of some weight gets a work order with its id.
Created(record) ==
  [record EXCEPT !.work_order =
     record.alert_level \in BROADCAST_LEVELS /\ record.record_type = "alert"]

Save(c) ==
  /\ Goto(c, "save",
       IF task[c].record.alert_level \in BROADCAST_LEVELS THEN "announce"
       ELSE "end")
  /\ alerts' = Append(alerts, Created(task[c].record))
  /\ Set(c, [alert |-> Len(alerts')])
  /\ UNCHANGED <<mode, bus, redis, client, last, report, faults, stops>>

SaveAudit(c) ==
  /\ Goto(c, "audit", "end")
  /\ alerts' = Append(alerts,
       Created(Record("audit_clean", NoLevel, {}, Template(task[c].confidence),
                      "confirmed")))
  /\ Set(c, [alert |-> Len(alerts')])
  /\ UNCHANGED <<mode, bus, redis, client, last, report, faults, stops>>

-----------------------------------------------------------------------------
(* The publication: in memory, then in Redis by a client that the first    *)
(* call opens under a lock.                                                *)

\* Faulty variant: a call that waited for the lock does not look again.
ConnectAnyway(c, from) ==
  /\ pc[c] = from
  /\ \/ /\ connected /\ pc[c] = "announce"
        /\ pc' = [pc EXCEPT ![c] = "publish"]
        /\ UNCHANGED client
     \/ /\ ~ connected \/ pc[c] = "locked"
        /\ connecting = NoCall
        /\ pc' = [pc EXCEPT ![c] = "ping"]
        /\ connecting' = c /\ clients' = clients + 1
        /\ UNCHANGED connected
     \/ /\ pc[c] = "announce" /\ ~ connected /\ connecting # NoCall
        /\ pc' = [pc EXCEPT ![c] = "locked"]
        /\ UNCHANGED client

\* connect: a free lock is taken at once, a held one waited for.
Connect(c, from) ==
  /\ pc[c] = from
  /\ \/ /\ connected
        /\ pc' = [pc EXCEPT ![c] = "publish"]
        /\ UNCHANGED client
     \/ /\ ~ connected /\ connecting = NoCall
        /\ pc' = [pc EXCEPT ![c] = "ping"]
        /\ connecting' = c /\ clients' = clients + 1
        /\ UNCHANGED connected
     \/ /\ pc[c] = "announce" /\ ~ connected /\ connecting # NoCall
        /\ pc' = [pc EXCEPT ![c] = "locked"]
        /\ UNCHANGED client

Announce(c) ==
  /\ Connect(c, "announce")
  /\ memory' = Append(memory, task[c].alert)
  /\ announced' = announced \cup {task[c].alert}
  /\ UNCHANGED <<mode, alerts, redis, last, task, report, faults, stops>>

GetLock(c) ==
  /\ connecting = NoCall
  /\ Connect(c, "locked")
  /\ UNCHANGED <<mode, alerts, bus, redis, last, task, report, faults, stops>>

Ping(c) ==
  /\ Goto(c, "ping", "publish")
  /\ connected' = TRUE /\ connecting' = NoCall
  /\ UNCHANGED <<mode, alerts, bus, redis, clients, last, task, report, faults,
                 stops>>

\* PUBLISH, and the SET of risk:alert:<id>, which nothing reads.
Publish(c) ==
  /\ Goto(c, "publish", "push")
  /\ channel' = channel \cup {task[c].alert}
  /\ UNCHANGED <<mode, alerts, bus, recent, client, last, task, report,
                 faults, stops>>

Push(c) ==
  /\ Goto(c, "push", "trim")
  /\ recent' = <<task[c].alert>> \o recent
  /\ UNCHANGED <<mode, alerts, bus, channel, client, last, task, report,
                 faults, stops>>

Trim(c) ==
  /\ Goto(c, "trim", "touch")
  /\ recent' = IF Len(recent) > RecentMax THEN SubSeq(recent, 1, RecentMax)
               ELSE recent
  /\ UNCHANGED <<mode, alerts, bus, channel, client, last, task,
                 report, faults, stops>>

\* The publisher notes the result, and monitor reads that note with no await
\* in between.
Note(c, ok) ==
  /\ last' = IF ok THEN "ok" ELSE "failed"
  /\ report' = [report EXCEPT
       ![c] = [published |-> ok, error |-> last' = "failed"]]

Touch(c) ==
  /\ Goto(c, "touch", "mark")
  /\ Note(c, TRUE)
  /\ UNCHANGED <<mode, alerts, bus, redis, client, task, faults, stops>>

\* Faulty variant: the error leaves the call.
AfterError == "end"

\* The step after a publication that failed.
PublishFailed == "mark"

\* An error of Redis ends the publication, not the call.
PublishFails(c) ==
  /\ pc[c] \in {"ping", "publish", "push", "trim", "touch"}
  /\ pc' = [pc EXCEPT ![c] = PublishFailed]
  /\ faults < MaxFaults /\ faults' = faults + 1
  /\ IF pc[c] = "ping"
     THEN connecting' = NoCall /\ clients' = clients - 1 /\ UNCHANGED connected
     ELSE UNCHANGED client
  /\ Note(c, FALSE)
  /\ UNCHANGED <<mode, alerts, bus, redis, task, stops>>

-----------------------------------------------------------------------------
(* Changes of an alert: a session reads its row, sets a column, and writes *)
(* what differs from what it read.                                         *)

Mark(c) ==
  /\ Goto(c, "mark", "marked")
  /\ Set(c, [alert |-> task[c].alert,
             row |-> [alerts[task[c].alert] EXCEPT !.broadcasted = TRUE],
             columns |-> {"broadcasted"}])
  /\ UNCHANGED <<mode, alerts, bus, redis, client, last, report, faults, stops>>

Handle(c, i, status) ==
  /\ Goto(c, "idle", "handled")
  /\ Set(c, [alert |-> i, row |-> [alerts[i] EXCEPT !.status = status],
             columns |-> IF alerts[i].status = status THEN {} ELSE {"status"}])
  /\ UNCHANGED <<mode, alerts, bus, redis, client, last, report, faults, stops>>

\* Faulty variant: the whole row that was read is written.
WholeRow(c) == DOMAIN task[c].row

Changed(c) == task[c].columns

Write(c) ==
  /\ pc[c] \in {"marked", "handled"}
  /\ pc' = [pc EXCEPT ![c] = "end"]
  /\ alerts' = [alerts EXCEPT ![task[c].alert] =
       [f \in DOMAIN @ |-> IF f \in Changed(c) THEN task[c].row[f] ELSE @[f]]]
  /\ Set(c, [alert |-> task[c].alert])
  /\ UNCHANGED <<mode, bus, redis, client, last, report, faults, stops>>

-----------------------------------------------------------------------------
\* The lock after the call is cancelled.
Unlock(c) == IF connecting = c THEN NoCall ELSE connecting

\* A cancelled call lets go of the lock; the client it was opening stays open.
Stop(c) ==
  /\ pc[c] \notin {"idle", "end"}
  /\ stops < MaxStops /\ stops' = stops + 1
  /\ pc' = [pc EXCEPT ![c] = "end"]
  /\ connecting' = Unlock(c)
  /\ UNCHANGED <<mode, alerts, bus, redis, connected, clients, last, task,
                 report, faults>>

Crash ==
  /\ stops < MaxStops /\ stops' = stops + 1
  /\ pc' = [c \in Calls |-> IF pc[c] = "idle" THEN "idle" ELSE "end"]
  /\ memory' = <<>>
  /\ connected' = FALSE /\ connecting' = NoCall /\ clients' = 0
  /\ last' = "never"
  /\ UNCHANGED <<mode, alerts, announced, redis, task, report, faults>>

\* A day after it was touched.
RecentExpires ==
  /\ recent # <<>>
  /\ recent' = <<>>
  /\ UNCHANGED <<mode, alerts, bus, channel, client, last, pc, task, report,
                 faults, stops>>

Next ==
  \/ \E c \in Calls :
       \/ \E t \in Transactions, audit \in BOOLEAN : Monitor(c, t, audit)
       \/ Save(c) \/ SaveAudit(c)
       \/ Announce(c) \/ GetLock(c) \/ Ping(c)
       \/ Publish(c) \/ Push(c) \/ Trim(c) \/ Touch(c)
       \/ PublishFails(c)
       \/ Mark(c)
       \/ \E i \in DOMAIN alerts, status \in Statuses : Handle(c, i, status)
       \/ Write(c)
       \/ Stop(c)
  \/ Crash \/ RecentExpires

Init ==
  /\ mode \in Modes
  /\ alerts = <<>> /\ memory = <<>> /\ announced = {}
  /\ channel = {} /\ recent = <<>>
  /\ connected = FALSE /\ connecting = NoCall /\ clients = 0 /\ last = "never"
  /\ pc = [c \in Calls |-> "idle"]
  /\ task = [c \in Calls |-> NoTask]
  /\ report = [c \in Calls |-> NoReport]
  /\ faults = 0 /\ stops = 0

Spec == Init /\ [][Next]_vars

-----------------------------------------------------------------------------
(* Properties.                                                             *)

\* The mark of a broadcast and the word of an officer never undo each other,
\* though each session writes a row that it read before an await
\* (risk_alert_dao.py:112-130).
ColumnsKept ==
  [][\A i \in DOMAIN alerts :
       /\ alerts[i].broadcasted => alerts'[i].broadcasted
       /\ alerts'[i].status # alerts[i].status =>
            \E c \in Calls :
              /\ pc[c] = "handled" /\ pc'[c] = "end"
              /\ task[c].alert = i
              /\ task[c].row.status = alerts'[i].status]_vars

\* An alert is marked as broadcast after it was announced and never before,
\* and a serious one does not stay unmarked unless its call was stopped;
\* trouble with Redis does not keep it from the mark
\* (monitor_service.py:147-164).
MarkedWhenAnnounced ==
  \A i \in DOMAIN alerts :
    /\ alerts[i].broadcasted => i \in announced
    /\ alerts[i].alert_level \in BROADCAST_LEVELS /\ ~ alerts[i].broadcasted =>
         \/ stops > 0
         \/ \E c \in Calls : task[c].alert = i /\ pc[c] \notin {"idle", "end"}

\* The answer of one call is not that of another, though both share the
\* publisher's note: it reports success or an error, and success only of an
\* alert that did reach the channel (monitor_service.py:159-161).
AnswerIsItsOwn ==
  \A c \in Calls : report[c].published =>
    ~ report[c].error /\ task[c].alert \in channel

\* Calls that find no client at once open one between them, and the lock is
\* held by a call that does, never by one that is over; only a call that was
\* cancelled in between leaves another client (dao/redis/connection.py:33-59).
OneClient ==
  /\ clients =< 1 + stops /\ (connected => clients > 0)
  /\ connecting # NoCall => pc[connecting] = "ping"
=============================================================================
