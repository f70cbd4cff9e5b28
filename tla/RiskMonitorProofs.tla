-------------------------- MODULE RiskMonitorProofs --------------------------
(***************************************************************************)
(* Proofs about RiskMonitor for any number of calls, transactions,         *)
(* failures of Redis, cancellations and crashes.                           *)
(***************************************************************************)
EXTENDS RiskMonitor, SequenceTheorems, TLAPS

-----------------------------------------------------------------------------
(* What a call may rely on at each of its steps.                           *)

Steps == {"idle", "save", "audit", "announce", "locked", "ping", "publish",
          "push", "trim", "touch", "mark", "marked", "handled", "end"}

\* From the save of a serious alert to its mark.
Underway == {"announce", "locked", "ping", "publish", "push", "trim", "touch",
             "mark", "marked"}
Announced == Underway \ {"announce"}

Columns == {"record_type", "alert_level", "hit_rules", "confidence",
            "llm_review", "llm_conflict", "status", "work_order",
            "broadcasted"}

TaskOK(c) ==
  /\ pc[c] = "save" =>
       /\ DOMAIN task[c].record = Columns
       /\ task[c].record.broadcasted = FALSE
  /\ pc[c] \in Underway \cup {"handled"} => task[c].alert \in DOMAIN alerts
  /\ pc[c] \in Announced => task[c].alert \in announced
  /\ pc[c] = "marked" =>
       task[c].columns = {"broadcasted"} /\ task[c].row.broadcasted = TRUE
  /\ pc[c] = "handled" => task[c].columns \subseteq {"status"}

AlertOK(i) ==
  /\ DOMAIN alerts[i] = Columns
  /\ alerts[i].broadcasted => i \in announced
  /\ alerts[i].alert_level \in BROADCAST_LEVELS /\ ~ alerts[i].broadcasted =>
       \/ stops > 0
       \/ \E c \in Calls : task[c].alert = i /\ pc[c] \in Underway

Shape ==
  /\ pc \in [Calls -> Steps] /\ DOMAIN task = Calls /\ DOMAIN report = Calls
  /\ stops \in Nat /\ clients \in Nat /\ connected \in BOOLEAN
  /\ Len(alerts) \in Nat /\ DOMAIN alerts = 1..Len(alerts)
  /\ \E S : alerts \in Seq(S)

AlertInv ==
  /\ \A c \in Calls : TaskOK(c)
  /\ \A i \in DOMAIN alerts : AlertOK(i)

\* A call that pings holds the lock, and no other does.  Every client but one
\* was left by a call that was stopped.
ClientInv ==
  /\ \A c \in Calls : pc[c] = "ping" <=> connecting = c
  /\ connecting \in Calls \cup {NoCall}
  /\ connecting # NoCall => ~ connected
  /\ connected \/ connecting # NoCall => 1 =< clients /\ clients =< 1 + stops
  /\ ~ connected /\ connecting = NoCall => clients =< stops

\* The alert of a call that has published it is on the channel.
ReportOK(c) ==
  /\ pc[c] \in {"push", "trim", "touch"} => task[c].alert \in channel
  /\ report[c].published =>
       /\ ~ report[c].error /\ task[c].alert \in channel
       /\ pc[c] \in {"mark", "marked", "end"}

MonitorInv ==
  Shape /\ AlertInv /\ ClientInv /\ \A c \in Calls : ReportOK(c)

-----------------------------------------------------------------------------
(* Shape.                                                                  *)

LEMMA Appended ==
  ASSUME NEW s, NEW x, \E S : s \in Seq(S)
  PROVE  /\ Len(s) \in Nat /\ Len(Append(s, x)) = Len(s) + 1
         /\ DOMAIN Append(s, x) = 1..(Len(s) + 1)
         /\ \A i \in 1..Len(s) : Append(s, x)[i] = s[i]
         /\ Append(s, x)[Len(s) + 1] = x
         /\ \E S : Append(s, x) \in Seq(S)
<1>1. PICK S : s \in Seq(S)
  OBVIOUS
<1> DEFINE T == S \cup {x}
<1>2. s \in [1..Len(s) -> T] /\ Len(s) \in Nat
  <2>1. s \in [1..Len(s) -> S] /\ Len(s) \in Nat
    BY <1>1, LenProperties
  <2> QED
    BY <2>1
<1>3. s \in Seq(T) /\ x \in T
  BY <1>2, SeqDef
<1>4. Append(s, x) \in Seq(T) /\ Len(Append(s, x)) = Len(s) + 1
  BY <1>3, AppendProperties
<1>5. DOMAIN Append(s, x) = 1..(Len(s) + 1)
  BY <1>4, LenProperties
<1> QED
  BY <1>2, <1>3, <1>4, <1>5, AppendProperties

LEMMA Replaced ==
  ASSUME NEW s, NEW i \in DOMAIN s, NEW x, \E S : s \in Seq(S)
  PROVE  \E S : [s EXCEPT ![i] = x] \in Seq(S)
<1>1. PICK S : s \in Seq(S)
  OBVIOUS
<1> DEFINE T == S \cup {x}
<1>2. s \in [1..Len(s) -> S] /\ Len(s) \in Nat /\ DOMAIN s = 1..Len(s)
  BY <1>1, LenProperties
<1>3. s \in [1..Len(s) -> T] /\ x \in T
  BY <1>2
<1> HIDE DEF T
<1>4. s \in Seq(T)
  BY <1>2, <1>3, SeqDef
<1>5. [s EXCEPT ![i] = x] \in Seq(T)
  BY <1>2, <1>3, <1>4, ExceptSeq
<1> QED
  BY <1>5

\* A step of one call that leaves the alerts as they are.
LEMMA CallShape ==
  ASSUME Shape, NEW c \in Calls, NEW to \in Steps,
         pc' = [pc EXCEPT ![c] = to], UNCHANGED alerts,
         task' = task \/ \E value : Set(c, value),
         report' = report \/ \E v : report' = [report EXCEPT ![c] = v],
         stops' \in Nat, clients' \in Nat, connected' \in BOOLEAN
  PROVE  Shape'
  BY DEF Shape, Set

LEMMA MonitorShape ==
  ASSUME Shape, ClientInv, AlertInv, [Next]_vars PROVE Shape'
<1> USE DEF Goto
<1>0. stops \in Nat /\ clients \in Nat /\ connected \in BOOLEAN
  BY DEF Shape
<1>1. ASSUME NEW c \in Calls, NEW t, NEW audit \in BOOLEAN, Monitor(c, t, audit)
      PROVE  Shape'
  <2>1. \E to \in Steps : pc' = [pc EXCEPT ![c] = to]
    BY <1>1 DEF Monitor, Steps
  <2>2. \E value : Set(c, value)
    BY <1>1 DEF Monitor
  <2> QED
    BY <1>0, <1>1, <2>1, <2>2, CallShape DEF Monitor, client
<1>2. ASSUME NEW c \in Calls, Save(c) \/ SaveAudit(c) PROVE Shape'
  <2>1. \E to \in Steps : pc' = [pc EXCEPT ![c] = to]
    BY <1>2 DEF Save, SaveAudit, Steps
  <2>2. PICK x : alerts' = Append(alerts, x)
    BY <1>2 DEF Save, SaveAudit
  <2>3. \E value : Set(c, value)
    BY <1>2 DEF Save, SaveAudit
  <2>4. UNCHANGED <<stops, clients, connected, report>>
    BY <1>2 DEF Save, SaveAudit, client
  <2>5. /\ Len(alerts') \in Nat /\ DOMAIN alerts' = 1..Len(alerts')
        /\ \E S : alerts' \in Seq(S)
    <3>1. \E S : alerts \in Seq(S)
      BY DEF Shape
    <3> QED
      BY <2>2, <3>1, Appended
  <2> QED
    BY <2>1, <2>3, <2>4, <2>5 DEF Shape, Set
<1>3. ASSUME NEW c \in Calls, Announce(c) \/ GetLock(c) PROVE Shape'
  <2>1. PICK from : Connect(c, from)
    BY <1>3 DEF Announce, GetLock
  <2>2. \E to \in Steps : pc' = [pc EXCEPT ![c] = to]
    BY <2>1 DEF Connect, Steps
  <2>3. clients' \in Nat /\ connected' \in BOOLEAN
    BY <1>0, <2>1 DEF Connect, client
  <2>4. UNCHANGED <<alerts, task, report, stops>>
    BY <1>3 DEF Announce, GetLock
  <2> QED
    BY <1>0, <2>2, <2>3, <2>4, CallShape
<1>4. ASSUME NEW c \in Calls, Ping(c) PROVE Shape'
  BY <1>0, <1>4, CallShape DEF Ping, Steps
<1>5. ASSUME NEW c \in Calls, Publish(c) \/ Push(c) \/ Trim(c) \/ Touch(c)
      PROVE  Shape'
  <2>1. \E to \in Steps : pc' = [pc EXCEPT ![c] = to]
    BY <1>5 DEF Publish, Push, Trim, Touch, Steps
  <2>2. UNCHANGED <<alerts, task, stops, clients, connected>>
    BY <1>5 DEF Publish, Push, Trim, Touch, client
  <2>3. report' = report \/ \E v : report' = [report EXCEPT ![c] = v]
    BY <1>5 DEF Publish, Push, Trim, Touch, Note
  <2> QED
    BY <1>0, <2>1, <2>2, <2>3, CallShape
<1>6. ASSUME NEW c \in Calls, PublishFails(c) PROVE Shape'
  <2>1. clients' \in Nat /\ UNCHANGED connected
    <3>1. CASE pc[c] = "ping"
      <4>1. connecting = c /\ connecting # NoCall
        BY <3>1, MonitorAssumption DEF ClientInv
      <4>2. 1 =< clients
        BY <4>1 DEF ClientInv
      <4> QED
        BY <1>0, <1>6, <3>1, <4>2 DEF PublishFails
    <3>2. CASE pc[c] # "ping"
      BY <1>0, <1>6, <3>2 DEF PublishFails, client
    <3> QED
      BY <3>1, <3>2
  <2>2. \E v : report' = [report EXCEPT ![c] = v]
    BY <1>6 DEF PublishFails, Note
  <2> QED
    BY <1>0, <1>6, <2>1, <2>2, CallShape DEF PublishFails, PublishFailed, Steps
<1>7. ASSUME NEW c \in Calls, Mark(c) \/ \E i \in DOMAIN alerts, st \in Statuses : Handle(c, i, st)
      PROVE  Shape'
  <2>1. \E to \in Steps : pc' = [pc EXCEPT ![c] = to]
    BY <1>7 DEF Mark, Handle, Steps
  <2>2. \E value : Set(c, value)
    BY <1>7 DEF Mark, Handle
  <2>3. UNCHANGED <<alerts, report, stops, clients, connected>>
    BY <1>7 DEF Mark, Handle, client
  <2> QED
    BY <1>0, <2>1, <2>2, <2>3, CallShape
<1>8. ASSUME NEW c \in Calls, Write(c) PROVE Shape'
  <2>1. task[c].alert \in DOMAIN alerts
    BY <1>8 DEF Write, AlertInv, TaskOK, Underway
  <2>2. PICK x : alerts' = [alerts EXCEPT ![task[c].alert] = x]
    BY <1>8 DEF Write
  <2>3. \E S : alerts' \in Seq(S)
    <3>1. \E S : alerts \in Seq(S)
      BY DEF Shape
    <3> QED
      BY <2>1, <2>2, <3>1, Replaced
  <2>4. Len(alerts') \in Nat /\ DOMAIN alerts' = 1..Len(alerts')
    BY <2>3, LenProperties
  <2>5. UNCHANGED <<report, stops, clients, connected>>
    BY <1>8 DEF Write, client
  <2> QED
    BY <1>8, <2>3, <2>4, <2>5 DEF Write, Shape, Set, Steps
<1>9. ASSUME NEW c \in Calls, Stop(c) PROVE Shape'
  <2>1. pc' = [pc EXCEPT ![c] = "end"] /\ "end" \in Steps
        /\ UNCHANGED <<alerts, task, report, clients, connected>>
        /\ stops' = stops + 1
    BY <1>9 DEF Stop, Steps
  <2>2. stops' \in Nat /\ clients' \in Nat /\ connected' \in BOOLEAN
    BY <1>0, <2>1
  <2>3. task' = task /\ report' = report /\ alerts' = alerts
    BY <2>1
  <2> QED
    BY <2>1, <2>2, <2>3, CallShape
<1>10. CASE Crash
  <2>1. /\ pc' = [c \in Calls |-> IF pc[c] = "idle" THEN "idle" ELSE "end"]
        /\ UNCHANGED <<alerts, task, report>>
        /\ stops' = stops + 1 /\ clients' = 0 /\ connected' = FALSE
    BY <1>10 DEF Crash
  <2>2. pc' \in [Calls -> Steps]
    BY <2>1 DEF Steps
  <2>3. stops' \in Nat /\ clients' \in Nat /\ connected' \in BOOLEAN
    <3>1. stops' \in Nat /\ clients' \in Nat
      BY <1>0, <2>1
    <3>2. connected' \in BOOLEAN
      BY <2>1
    <3> QED
      BY <3>1, <3>2
  <2>4. /\ task' = task /\ report' = report
        /\ DOMAIN task' = Calls /\ DOMAIN report' = Calls
    BY <2>1 DEF Shape
  <2>5. /\ Len(alerts') \in Nat /\ DOMAIN alerts' = 1..Len(alerts')
        /\ \E S : alerts' \in Seq(S)
    <3>1. alerts' = alerts
      BY <2>1
    <3> QED
      BY <3>1 DEF Shape
  <2> QED
    BY <2>2, <2>3, <2>4, <2>5 DEF Shape
<1>11. CASE RecentExpires \/ UNCHANGED vars
  BY <1>11 DEF RecentExpires, vars, Shape, client
<1> QED
  BY <1>1, <1>2, <1>3, <1>4, <1>5, <1>6, <1>7, <1>8, <1>9, <1>10, <1>11 DEF Next

-----------------------------------------------------------------------------
(* The client.                                                             *)

LEMMA ClientKept ==
  ASSUME ClientInv, UNCHANGED client, stops' = stops,
         \A d \in Calls : pc'[d] = "ping" <=> pc[d] = "ping"
  PROVE  ClientInv'
  BY DEF ClientInv, client

LEMMA ClientNext == ASSUME Shape, ClientInv, [Next]_vars PROVE ClientInv'
<1> USE DEF Goto
<1>0. /\ stops \in Nat /\ clients \in Nat /\ connected \in BOOLEAN
      /\ pc \in [Calls -> Steps]
  BY DEF Shape
<1>1. ASSUME NEW c \in Calls, NEW t, NEW audit \in BOOLEAN, Monitor(c, t, audit)
      PROVE  ClientInv'
  BY <1>0, <1>1, ClientKept DEF Monitor
<1>2. ASSUME NEW c \in Calls, Save(c) \/ SaveAudit(c) PROVE ClientInv'
  BY <1>0, <1>2, ClientKept DEF Save, SaveAudit
<1>3. ASSUME NEW c \in Calls, Announce(c) \/ GetLock(c) PROVE ClientInv'
  <2>1. PICK from \in {"announce", "locked"} : Connect(c, from) /\ UNCHANGED stops
    BY <1>3 DEF Announce, GetLock
  <2>2. CASE UNCHANGED client
    BY <1>0, <2>1, <2>2, ClientKept DEF Connect, client
  <2>3. CASE ~ connected /\ connecting = NoCall /\ connecting' = c
             /\ clients' = clients + 1 /\ UNCHANGED connected
             /\ pc' = [pc EXCEPT ![c] = "ping"]
    BY <1>0, <2>1, <2>3, MonitorAssumption DEF ClientInv
  <2> QED
    BY <2>1, <2>2, <2>3 DEF Connect
<1>4. ASSUME NEW c \in Calls, Ping(c) PROVE ClientInv'
  <2>1. connecting = c /\ connecting # NoCall
    BY <1>4, MonitorAssumption DEF Ping, ClientInv
  <2>2. UNCHANGED <<clients, stops>> /\ connected' = TRUE /\ connecting' = NoCall
        /\ pc' = [pc EXCEPT ![c] = "publish"]
    BY <1>4 DEF Ping
  <2> QED
    BY <1>0, <2>1, <2>2, MonitorAssumption DEF ClientInv
<1>5. ASSUME NEW c \in Calls, Publish(c) \/ Push(c) \/ Trim(c) \/ Touch(c)
      PROVE  ClientInv'
  BY <1>0, <1>5, ClientKept DEF Publish, Push, Trim, Touch
<1>6. ASSUME NEW c \in Calls, PublishFails(c) PROVE ClientInv'
  <2>1. CASE pc[c] = "ping"
    <3>1. connecting = c /\ connecting # NoCall
      BY <2>1, MonitorAssumption DEF ClientInv
    <3>2. connecting' = NoCall /\ clients' = clients - 1 /\ UNCHANGED <<connected, stops>>
          /\ pc' = [pc EXCEPT ![c] = "mark"]
      BY <1>6, <2>1 DEF PublishFails, PublishFailed
    <3> QED
      BY <1>0, <3>1, <3>2, MonitorAssumption DEF ClientInv
  <2>2. CASE pc[c] # "ping"
    BY <1>0, <1>6, <2>2, ClientKept DEF PublishFails, PublishFailed
  <2> QED
    BY <2>1, <2>2
<1>7. ASSUME NEW c \in Calls, Mark(c) \/ \E i \in DOMAIN alerts, st \in Statuses : Handle(c, i, st)
      PROVE  ClientInv'
  BY <1>0, <1>7, ClientKept DEF Mark, Handle
<1>8. ASSUME NEW c \in Calls, Write(c) PROVE ClientInv'
  BY <1>0, <1>8, ClientKept DEF Write
<1>9. ASSUME NEW c \in Calls, Stop(c) PROVE ClientInv'
  <2>1. /\ stops' = stops + 1 /\ UNCHANGED <<connected, clients>>
        /\ pc' = [pc EXCEPT ![c] = "end"]
        /\ connecting' = IF connecting = c THEN NoCall ELSE connecting
    BY <1>9 DEF Stop, Unlock
  <2> QED
    BY <1>0, <2>1, MonitorAssumption DEF ClientInv
<1>10. CASE Crash
  <2>1. \A c \in Calls : pc'[c] # "ping"
    BY <1>0, <1>10 DEF Crash
  <2> QED
    BY <1>0, <1>10, <2>1, MonitorAssumption DEF Crash, ClientInv
<1>11. CASE RecentExpires \/ UNCHANGED vars
  BY <1>11, ClientKept DEF RecentExpires, vars
<1> QED
  BY <1>1, <1>2, <1>3, <1>4, <1>5, <1>6, <1>7, <1>8, <1>9, <1>10, <1>11 DEF Next

-----------------------------------------------------------------------------
(* Alerts.                                                                 *)

\* A step of one call that changes no alert, and keeps the alert it is
\* underway with.
LEMMA AlertKept ==
  ASSUME Shape, AlertInv, NEW c \in Calls, UNCHANGED alerts,
         \A d \in Calls \ {c} : pc'[d] = pc[d] /\ task'[d] = task[d],
         announced \subseteq announced', stops > 0 => stops' > 0,
         TaskOK(c)',
         pc[c] \in Underway =>
           \/ stops' > 0
           \/ pc'[c] \in Underway /\ task'[c].alert = task[c].alert
  PROVE  AlertInv'
<1>1. ASSUME NEW d \in Calls PROVE TaskOK(d)'
  <2>1. CASE d = c
    BY <2>1
  <2>2. CASE d # c
    <3>1. TaskOK(d) /\ pc'[d] = pc[d] /\ task'[d] = task[d]
      BY <2>2 DEF AlertInv
    <3> QED
      BY <3>1 DEF TaskOK
  <2> QED
    BY <2>1, <2>2
<1>2. ASSUME NEW i \in DOMAIN alerts PROVE AlertOK(i)'
  <2>1. AlertOK(i)
    BY DEF AlertInv
  <2>2. ASSUME NEW d \in Calls, task[d].alert = i, pc[d] \in Underway
        PROVE  stops' > 0 \/ (task'[d].alert = i /\ pc'[d] \in Underway)
    <3>1. CASE d = c
      <4>1. task[c].alert = i /\ pc[c] \in Underway
        BY <2>2, <3>1
      <4>2. stops' > 0 \/ (pc'[c] \in Underway /\ task'[c].alert = i)
        BY <4>1
      <4> QED
        BY <3>1, <4>2
    <3>2. CASE d # c
      <4>1. pc'[d] = pc[d] /\ task'[d] = task[d]
        BY <3>2
      <4> QED
        BY <2>2, <4>1
    <3> QED
      BY <3>1, <3>2
  <2> QED
    BY <2>1, <2>2 DEF AlertOK
<1> QED
  BY <1>1, <1>2 DEF AlertInv

\* The row that a save appends.
LEMMA AlertSaved ==
  ASSUME Shape, AlertInv, NEW c \in Calls, NEW row, NEW to \in {"announce", "end"},
         pc[c] \in {"save", "audit"}, pc' = [pc EXCEPT ![c] = to],
         alerts' = Append(alerts, row), Set(c, [alert |-> Len(alerts')]),
         UNCHANGED <<announced, stops>>,
         DOMAIN row = Columns, row.broadcasted = FALSE,
         row.alert_level \in BROADCAST_LEVELS => to = "announce"
  PROVE  AlertInv'
<1>1. /\ Len(alerts) \in Nat /\ Len(alerts') = Len(alerts) + 1
      /\ DOMAIN alerts = 1..Len(alerts) /\ DOMAIN alerts' = 1..(Len(alerts) + 1)
      /\ \A i \in 1..Len(alerts) : alerts'[i] = alerts[i]
      /\ alerts'[Len(alerts) + 1] = row
  BY Appended DEF Shape
<1>2. /\ pc'[c] = to /\ task'[c].alert = Len(alerts) + 1
      /\ \A d \in Calls \ {c} : pc'[d] = pc[d] /\ task'[d] = task[d]
      /\ pc[c] \notin Underway
  BY <1>1 DEF Set, Shape, Underway
<1>3. ASSUME NEW d \in Calls PROVE TaskOK(d)'
  <2>1. CASE d = c
    <3>1. Len(alerts) + 1 \in DOMAIN alerts'
      BY <1>1
    <3> QED
      BY <1>2, <2>1, <3>1 DEF TaskOK, Underway, Announced
  <2>2. CASE d # c
    <3>1. TaskOK(d) /\ pc'[d] = pc[d] /\ task'[d] = task[d]
      BY <1>2, <2>2 DEF AlertInv
    <3>2. \A i \in DOMAIN alerts : i \in DOMAIN alerts'
      BY <1>1
    <3> QED
      BY <3>1, <3>2 DEF TaskOK
  <2> QED
    BY <2>1, <2>2
<1>4. ASSUME NEW i \in DOMAIN alerts' PROVE AlertOK(i)'
  <2>1. CASE i = Len(alerts) + 1
    BY <1>1, <1>2, <2>1 DEF AlertOK, Underway
  <2>2. CASE i # Len(alerts) + 1
    <3>1. i \in DOMAIN alerts /\ alerts'[i] = alerts[i]
      BY <1>1, <2>2
    <3>2. AlertOK(i)
      BY <3>1 DEF AlertInv
    <3> QED
      BY <1>2, <3>1, <3>2 DEF AlertOK
  <2> QED
    BY <2>1, <2>2
<1> QED
  BY <1>3, <1>4 DEF AlertInv

LEMMA AlertNext == ASSUME Shape, AlertInv, [Next]_vars PROVE AlertInv'
<1> USE DEF Goto
<1>0. /\ stops \in Nat /\ pc \in [Calls -> Steps] /\ DOMAIN task = Calls
  BY DEF Shape
<1>1. ASSUME NEW c \in Calls, NEW t, NEW audit \in BOOLEAN, Monitor(c, t, audit)
      PROVE  AlertInv'
  <2>1. /\ UNCHANGED <<alerts, announced, stops>>
        /\ \A d \in Calls \ {c} : pc'[d] = pc[d] /\ task'[d] = task[d]
        /\ pc[c] = "idle" /\ pc'[c] \in {"save", "audit", "end"}
    BY <1>0, <1>1 DEF Monitor, Set, bus
  <2>2. ASSUME pc'[c] = "save"
        PROVE  DOMAIN task'[c].record = Columns /\ task'[c].record.broadcasted = FALSE
    <3>1. PICK level, hits, e :
            Set(c, [alert |-> 0, record |-> Record("alert", level, hits, e, "unhandled")])
      BY <1>0, <1>1, <2>2 DEF Monitor
    <3> QED
      BY <1>0, <3>1 DEF Set, Record, Columns
  <2>3. TaskOK(c)'
    BY <2>1, <2>2 DEF TaskOK, Underway, Announced
  <2> QED
    BY <2>1, <2>3, AlertKept DEF Underway
<1>2. ASSUME NEW c \in Calls, Save(c) PROVE AlertInv'
  <2> DEFINE row == Created(task[c].record)
  <2>1. DOMAIN task[c].record = Columns /\ task[c].record.broadcasted = FALSE
    BY <1>2 DEF Save, AlertInv, TaskOK
  <2>2. /\ DOMAIN row = Columns /\ row.broadcasted = FALSE
        /\ row.alert_level = task[c].record.alert_level
    BY <2>1 DEF Created, Columns
  <2>3. PICK to \in {"announce", "end"} :
          /\ pc' = [pc EXCEPT ![c] = to]
          /\ task[c].record.alert_level \in BROADCAST_LEVELS => to = "announce"
    BY <1>2 DEF Save
  <2>4. /\ pc[c] = "save" /\ alerts' = Append(alerts, row)
        /\ Set(c, [alert |-> Len(alerts')]) /\ UNCHANGED <<announced, stops>>
    BY <1>2 DEF Save, bus
  <2> HIDE DEF row
  <2> QED
    BY <2>2, <2>3, <2>4, AlertSaved
<1>3. ASSUME NEW c \in Calls, SaveAudit(c) PROVE AlertInv'
  <2> DEFINE base == Record("audit_clean", NoLevel, {}, Template(task[c].confidence),
                            "confirmed")
             row == Created(base)
  <2>1. /\ DOMAIN base = Columns /\ base.broadcasted = FALSE
        /\ base.alert_level = NoLevel
    BY DEF Record, Columns
  <2>2. DOMAIN row = Columns /\ row.broadcasted = FALSE /\ row.alert_level = NoLevel
    <3> HIDE DEF base
    <3> QED
      BY <2>1 DEF Created, Columns
  <2>3. row.alert_level \notin BROADCAST_LEVELS
    BY <2>2 DEF NoLevel, BROADCAST_LEVELS
  <2>4. /\ pc[c] = "audit" /\ alerts' = Append(alerts, row)
        /\ pc' = [pc EXCEPT ![c] = "end"]
        /\ Set(c, [alert |-> Len(alerts')]) /\ UNCHANGED <<announced, stops>>
    BY <1>3 DEF SaveAudit, bus
  <2> HIDE DEF row
  <2> QED
    BY <2>2, <2>3, <2>4, AlertSaved
<1>4. ASSUME NEW c \in Calls, Announce(c) \/ GetLock(c) PROVE AlertInv'
  <2>1. PICK from \in {"announce", "locked"} : Connect(c, from)
    BY <1>4 DEF Announce, GetLock
  <2>2. /\ pc[c] \in {"announce", "locked"} /\ pc'[c] \in {"publish", "ping", "locked"}
        /\ \A d \in Calls \ {c} : pc'[d] = pc[d]
    BY <1>0, <2>1 DEF Connect
  <2>3. /\ UNCHANGED <<alerts, task, stops>> /\ announced \subseteq announced'
        /\ pc[c] = "announce" => task[c].alert \in announced'
    BY <1>4, <2>2 DEF Announce, GetLock, Connect, bus
  <2>4. TaskOK(c)
    BY DEF AlertInv
  <2>5. TaskOK(c)'
    BY <2>2, <2>3, <2>4 DEF TaskOK, Underway, Announced
  <2> QED
    BY <2>2, <2>3, <2>5, AlertKept DEF Underway
<1>5. ASSUME NEW c \in Calls,
             \/ Ping(c) \/ Publish(c) \/ Push(c) \/ Trim(c) \/ Touch(c)
             \/ PublishFails(c)
      PROVE  AlertInv'
  <2>1. /\ pc[c] \in {"ping", "publish", "push", "trim", "touch"}
        /\ pc'[c] \in {"publish", "push", "trim", "touch", "mark"}
        /\ \A d \in Calls \ {c} : pc'[d] = pc[d]
        /\ UNCHANGED <<alerts, task, stops, announced>>
    BY <1>0, <1>5 DEF Ping, Publish, Push, Trim, Touch, PublishFails,
                      PublishFailed, bus
  <2>2. TaskOK(c)
    BY DEF AlertInv
  <2>3. TaskOK(c)'
    BY <2>1, <2>2 DEF TaskOK, Underway, Announced
  <2> QED
    BY <2>1, <2>3, AlertKept DEF Underway
<1>6. ASSUME NEW c \in Calls, Mark(c) PROVE AlertInv'
  <2>1. /\ pc[c] = "mark" /\ pc'[c] = "marked"
        /\ \A d \in Calls \ {c} : pc'[d] = pc[d] /\ task'[d] = task[d]
        /\ UNCHANGED <<alerts, stops, announced>>
        /\ task'[c] = [alert |-> task[c].alert,
                       row |-> [alerts[task[c].alert] EXCEPT !.broadcasted = TRUE],
                       columns |-> {"broadcasted"}]
    BY <1>0, <1>6 DEF Mark, Set, bus
  <2>2. task[c].alert \in DOMAIN alerts /\ task[c].alert \in announced
    BY <2>1 DEF AlertInv, TaskOK, Underway, Announced
  <2>3. DOMAIN alerts[task[c].alert] = Columns
    BY <2>2 DEF AlertInv, AlertOK
  <2>4. task'[c].row.broadcasted = TRUE
    BY <2>1, <2>3 DEF Columns
  <2>5. TaskOK(c)'
    BY <2>1, <2>2, <2>4 DEF TaskOK
  <2> QED
    BY <2>1, <2>5, AlertKept DEF Underway
<1>7. ASSUME NEW c \in Calls, NEW i \in DOMAIN alerts, NEW st \in Statuses,
             Handle(c, i, st)
      PROVE  AlertInv'
  <2>1. /\ pc[c] = "idle" /\ pc'[c] = "handled"
        /\ \A d \in Calls \ {c} : pc'[d] = pc[d] /\ task'[d] = task[d]
        /\ UNCHANGED <<alerts, stops, announced>>
        /\ task'[c].alert = i /\ task'[c].columns \subseteq {"status"}
    BY <1>0, <1>7 DEF Handle, Set, bus
  <2>2. TaskOK(c)'
    BY <2>1 DEF TaskOK, Underway, Announced
  <2> QED
    BY <2>1, <2>2, AlertKept DEF Underway
<1>8. ASSUME NEW c \in Calls, Write(c) PROVE AlertInv'
  <2> DEFINE a == task[c].alert
  <2>1. /\ pc[c] \in {"marked", "handled"} /\ pc'[c] = "end"
        /\ \A d \in Calls \ {c} : pc'[d] = pc[d] /\ task'[d] = task[d]
        /\ UNCHANGED <<stops, announced>> /\ TaskOK(c)
    BY <1>0, <1>8 DEF Write, Set, bus, AlertInv
  <2>2. a \in DOMAIN alerts /\ (pc[c] = "marked" => a \in announced)
    BY <2>1 DEF TaskOK, Underway, Announced
  <2>3. DOMAIN alerts[a] = Columns
    BY <2>2 DEF AlertInv, AlertOK
  <2>4. /\ DOMAIN alerts' = DOMAIN alerts
        /\ \A i \in DOMAIN alerts \ {a} : alerts'[i] = alerts[i]
        /\ alerts'[a] = [f \in Columns |->
              IF f \in task[c].columns THEN task[c].row[f] ELSE alerts[a][f]]
    BY <1>8, <2>2, <2>3 DEF Write, Changed
  <2>5. /\ DOMAIN alerts'[a] = Columns
        /\ alerts'[a].alert_level = alerts[a].alert_level
        /\ pc[c] = "marked" => alerts'[a].broadcasted = TRUE
        /\ pc[c] = "handled" => alerts'[a].broadcasted = alerts[a].broadcasted
    <3>1. /\ pc[c] = "marked" =>
               task[c].columns = {"broadcasted"} /\ task[c].row.broadcasted = TRUE
          /\ pc[c] = "handled" => task[c].columns \subseteq {"status"}
      BY <2>1 DEF TaskOK
    <3>2. /\ "alert_level" \in Columns /\ "alert_level" \notin task[c].columns
          /\ "broadcasted" \in Columns
      BY <2>1, <3>1 DEF Columns
    <3> HIDE DEF a
    <3>3. DOMAIN alerts'[a] = Columns
      BY <2>4
    <3>4. alerts'[a].alert_level = alerts[a].alert_level
      BY <2>4, <3>2
    <3>5. ASSUME pc[c] = "marked" PROVE alerts'[a].broadcasted = TRUE
      <4>1. "broadcasted" \in task[c].columns /\ task[c].row.broadcasted = TRUE
        BY <3>1, <3>5
      <4> QED
        BY <2>4, <3>2, <4>1
    <3>6. ASSUME pc[c] = "handled"
          PROVE  alerts'[a].broadcasted = alerts[a].broadcasted
      <4>1. "broadcasted" \notin task[c].columns
        BY <3>1, <3>6
      <4> QED
        BY <2>4, <3>2, <4>1
    <3> QED
      BY <3>3, <3>4, <3>5, <3>6
  <2> HIDE DEF a
  <2>6. ASSUME NEW d \in Calls PROVE TaskOK(d)'
    <3>1. CASE d = c
      BY <2>1, <3>1 DEF TaskOK, Underway, Announced
    <3>2. CASE d # c
      <4>1. TaskOK(d) /\ pc'[d] = pc[d] /\ task'[d] = task[d]
        BY <2>1, <3>2 DEF AlertInv
      <4> QED
        BY <2>1, <2>4, <4>1 DEF TaskOK
    <3> QED
      BY <3>1, <3>2
  <2>7. ASSUME NEW i \in DOMAIN alerts PROVE AlertOK(i)'
    <3>1. AlertOK(i)
      BY DEF AlertInv
    <3>2. CASE i = a /\ pc[c] = "marked"
      BY <2>1, <2>2, <2>5, <3>2 DEF AlertOK
    <3>3. CASE i = a /\ pc[c] = "handled"
      <4>1. \A d \in Calls : pc[d] \in Underway =>
              pc'[d] \in Underway /\ task'[d] = task[d]
        BY <2>1, <3>3 DEF Underway
      <4> QED
        BY <2>1, <2>5, <3>1, <3>3, <4>1 DEF AlertOK
    <3>4. CASE i # a
      <4>1. \A d \in Calls : task[d].alert = i =>
              pc'[d] = pc[d] /\ task'[d] = task[d]
        BY <2>1, <3>4 DEF a
      <4> QED
        BY <2>1, <2>4, <3>1, <3>4, <4>1 DEF AlertOK
    <3> QED
      BY <2>1, <3>2, <3>3, <3>4
  <2> QED
    BY <2>4, <2>6, <2>7 DEF AlertInv
<1>9. ASSUME NEW c \in Calls, Stop(c) PROVE AlertInv'
  <2>1. /\ UNCHANGED <<alerts, task, announced>> /\ stops' = stops + 1
        /\ pc'[c] = "end" /\ \A d \in Calls \ {c} : pc'[d] = pc[d]
    BY <1>0, <1>9 DEF Stop, bus
  <2>2. stops' > 0
    BY <1>0, <2>1
  <2>3. TaskOK(c)'
    BY <2>1 DEF TaskOK, Underway, Announced
  <2> QED
    BY <2>1, <2>2, <2>3, AlertKept
<1>10. CASE Crash
  <2>1. /\ UNCHANGED <<alerts, task, announced>> /\ stops' = stops + 1
        /\ \A d \in Calls : pc'[d] \in {"idle", "end"}
    BY <1>0, <1>10 DEF Crash
  <2>2. stops' > 0
    BY <1>0, <2>1
  <2>3. \A d \in Calls : TaskOK(d)'
    BY <2>1 DEF TaskOK, Underway, Announced
  <2>4. ASSUME NEW i \in DOMAIN alerts PROVE AlertOK(i)'
    BY <2>1, <2>2 DEF AlertOK, AlertInv
  <2> QED
    BY <2>1, <2>3, <2>4 DEF AlertInv
<1>11. CASE RecentExpires \/ UNCHANGED vars
  <2>1. UNCHANGED <<alerts, task, announced, stops, pc>>
    BY <1>11 DEF RecentExpires, vars, bus
  <2> QED
    BY <2>1 DEF AlertInv, AlertOK, TaskOK
<1> QED
  BY <1>1, <1>2, <1>3, <1>4, <1>5, <1>6, <1>7, <1>8, <1>9, <1>10, <1>11 DEF Next

-----------------------------------------------------------------------------
(* Answers.                                                                *)

LEMMA ReportKept ==
  ASSUME NEW c \in Calls, \A d \in Calls : ReportOK(d),
         channel \subseteq channel',
         \A d \in Calls \ {c} : /\ pc'[d] = pc[d] /\ task'[d] = task[d]
                                /\ report'[d] = report[d],
         ReportOK(c)'
  PROVE  \A d \in Calls : ReportOK(d)'
<1> SUFFICES ASSUME NEW d \in Calls PROVE ReportOK(d)'
  OBVIOUS
<1>1. CASE d = c
  BY <1>1
<1>2. CASE d # c
  <2>1. ReportOK(d) /\ pc'[d] = pc[d] /\ task'[d] = task[d] /\ report'[d] = report[d]
    BY <1>2
  <2> QED
    BY <2>1 DEF ReportOK
<1> QED
  BY <1>1, <1>2

LEMMA ReportNext ==
  ASSUME Shape, \A c \in Calls : ReportOK(c), [Next]_vars
  PROVE  \A c \in Calls : ReportOK(c)'
<1> USE DEF Goto
<1>0. pc \in [Calls -> Steps] /\ DOMAIN task = Calls /\ DOMAIN report = Calls
  BY DEF Shape
<1>1. ASSUME NEW c \in Calls,
             \/ \E t, audit : Monitor(c, t, audit)
             \/ Save(c) \/ SaveAudit(c) \/ Announce(c) \/ GetLock(c) \/ Ping(c)
             \/ \E i, st : Handle(c, i, st)
      PROVE  \A d \in Calls : ReportOK(d)'
  <2>1. /\ pc[c] \notin {"mark", "marked", "end"}
        /\ pc'[c] \notin {"push", "trim", "touch"}
        /\ UNCHANGED <<report, channel>>
        /\ \A d \in Calls \ {c} : pc'[d] = pc[d] /\ task'[d] = task[d]
    BY <1>0, <1>1 DEF Monitor, Save, SaveAudit, Announce, GetLock, Connect, Ping,
                      Handle, Set, redis
  <2>2. ReportOK(c)'
    BY <2>1 DEF ReportOK
  <2> QED
    BY <2>1, <2>2, ReportKept
<1>2. ASSUME NEW c \in Calls, Publish(c) \/ Push(c) \/ Trim(c)
      PROVE  \A d \in Calls : ReportOK(d)'
  <2>1. /\ pc[c] \in {"publish", "push", "trim"}
        /\ UNCHANGED <<report, task>> /\ channel \subseteq channel'
        /\ \A d \in Calls \ {c} : pc'[d] = pc[d]
        /\ pc[c] = "publish" => task[c].alert \in channel'
    BY <1>0, <1>2 DEF Publish, Push, Trim
  <2>2. ReportOK(c)'
    BY <2>1 DEF ReportOK
  <2> QED
    BY <2>1, <2>2, ReportKept
<1>3. ASSUME NEW c \in Calls, Touch(c) PROVE \A d \in Calls : ReportOK(d)'
  <2>1. /\ pc[c] = "touch" /\ pc'[c] = "mark" /\ UNCHANGED <<task, channel>>
        /\ \A d \in Calls \ {c} : pc'[d] = pc[d] /\ report'[d] = report[d]
        /\ ~ report'[c].error
    BY <1>0, <1>3 DEF Touch, Note, redis
  <2>2. ReportOK(c)'
    BY <2>1 DEF ReportOK
  <2> QED
    BY <2>1, <2>2, ReportKept
<1>4. ASSUME NEW c \in Calls, PublishFails(c) PROVE \A d \in Calls : ReportOK(d)'
  <2>1. /\ pc'[c] = "mark" /\ UNCHANGED <<task, channel>>
        /\ \A d \in Calls \ {c} : pc'[d] = pc[d] /\ report'[d] = report[d]
        /\ report'[c].published = FALSE
    BY <1>0, <1>4 DEF PublishFails, PublishFailed, Note, redis
  <2>2. ReportOK(c)'
    BY <2>1 DEF ReportOK
  <2> QED
    BY <2>1, <2>2, ReportKept
<1>5. ASSUME NEW c \in Calls, Mark(c) \/ Write(c) \/ Stop(c)
      PROVE  \A d \in Calls : ReportOK(d)'
  <2>1. /\ pc[c] # "mark" => pc'[c] = "end"
        /\ pc[c] = "mark" => pc'[c] \in {"marked", "end"}
        /\ UNCHANGED <<report, channel>> /\ task'[c].alert = task[c].alert
        /\ \A d \in Calls \ {c} : pc'[d] = pc[d] /\ task'[d] = task[d]
    BY <1>0, <1>5 DEF Mark, Write, Stop, Set, redis
  <2>2. ReportOK(c)'
    BY <2>1 DEF ReportOK
  <2> QED
    BY <2>1, <2>2, ReportKept
<1>6. CASE Crash \/ RecentExpires \/ UNCHANGED vars
  <2>1. /\ UNCHANGED <<report, channel, task>>
        /\ \A d \in Calls : pc'[d] = pc[d] \/ pc'[d] = "end"
    BY <1>0, <1>6 DEF Crash, RecentExpires, vars, redis
  <2> SUFFICES ASSUME NEW d \in Calls PROVE ReportOK(d)'
    OBVIOUS
  <2>2. ReportOK(d)
    OBVIOUS
  <2> QED
    BY <2>1, <2>2 DEF ReportOK
<1> QED
  BY <1>1, <1>2, <1>3, <1>4, <1>5, <1>6 DEF Next

-----------------------------------------------------------------------------
(* The invariant, and what follows from it.                                *)

LEMMA Invariance == Spec => []MonitorInv
<1>1. ASSUME Init PROVE MonitorInv
  <2>1. /\ alerts = <<>> /\ pc = [c \in Calls |-> "idle"]
        /\ task = [c \in Calls |-> NoTask] /\ report = [c \in Calls |-> NoReport]
        /\ connected = FALSE /\ connecting = NoCall /\ clients = 0 /\ stops = 0
    BY <1>1 DEF Init
  <2>2. alerts \in Seq({}) /\ Len(alerts) = 0 /\ DOMAIN alerts = 1..Len(alerts)
    BY <2>1, EmptySeq, LenProperties
  <2>3. Shape
    <3>1. /\ pc \in [Calls -> Steps] /\ DOMAIN task = Calls /\ DOMAIN report = Calls
          /\ stops \in Nat /\ clients \in Nat
      BY <2>1 DEF Steps
    <3>2. connected \in BOOLEAN
      BY <2>1
    <3>3. Len(alerts) \in Nat
      BY <2>2
    <3>4. \E S : alerts \in Seq(S)
      BY <2>2
    <3> QED
      BY <2>2, <3>1, <3>2, <3>3, <3>4 DEF Shape
  <2>4. AlertInv
    <3>1. DOMAIN alerts = {}
      BY <2>2
    <3> QED
      BY <2>1, <3>1 DEF AlertInv, TaskOK, Underway, Announced
  <2>5. ClientInv
    BY <2>1, MonitorAssumption DEF ClientInv
  <2>6. \A c \in Calls : ReportOK(c)
    BY <2>1 DEF ReportOK, NoReport
  <2> QED
    BY <2>3, <2>4, <2>5, <2>6 DEF MonitorInv
<1>2. ASSUME MonitorInv, [Next]_vars PROVE MonitorInv'
  BY <1>2, MonitorShape, AlertNext, ClientNext, ReportNext DEF MonitorInv
<1> QED
  BY <1>1, <1>2, PTL DEF Spec

\* However many calls announce, are cancelled or lost in a crash: an alert is
\* marked only once it was announced, and a serious one stays unmarked only
\* if a call was stopped (monitor_service.py:147-164).
THEOREM SeriousAlertsAreMarked == Spec => []MarkedWhenAnnounced
<1>1. ASSUME MonitorInv PROVE MarkedWhenAnnounced
  <2>1. \A c \in Calls : pc[c] \in Underway => pc[c] \notin {"idle", "end"}
    BY DEF Underway
  <2> QED
    BY <1>1, <2>1 DEF MonitorInv, AlertInv, AlertOK, MarkedWhenAnnounced
<1> QED
  BY <1>1, Invariance, PTL

\* No call reports the publication of another, whatever happens between its
\* own publication and its answer (monitor_service.py:159-161).
THEOREM AnswersAreOwn == Spec => []AnswerIsItsOwn
<1>1. ASSUME MonitorInv PROVE AnswerIsItsOwn
  BY <1>1 DEF MonitorInv, ReportOK, AnswerIsItsOwn
<1> QED
  BY <1>1, Invariance, PTL

\* The lock of connect keeps it to one client for any number of calls; only
\* a call stopped while it pings leaves one more (connection.py:33-59).
THEOREM OneClientIsOpened == Spec => []OneClient
<1>1. ASSUME MonitorInv PROVE OneClient
  <2>1. clients \in Nat /\ stops \in Nat
    BY <1>1 DEF MonitorInv, Shape
  <2>2. ClientInv
    BY <1>1 DEF MonitorInv
  <2>3. clients =< 1 + stops /\ (connected => clients > 0)
    BY <2>1, <2>2 DEF ClientInv
  <2>4. connecting # NoCall => pc[connecting] = "ping"
    BY <2>2 DEF ClientInv
  <2> QED
    BY <2>3, <2>4 DEF OneClient
<1> QED
  BY <1>1, Invariance, PTL

\* No step takes a mark away, and only an officer's own session changes a
\* status, however the sessions overlap (risk_alert_dao.py:112-130).
THEOREM SessionsKeepColumns == Spec => ColumnsKept
<1> DEFINE Kept == \A i \in DOMAIN alerts :
       /\ alerts[i].broadcasted => alerts'[i].broadcasted
       /\ alerts'[i].status # alerts[i].status =>
            \E c \in Calls :
              /\ pc[c] = "handled" /\ pc'[c] = "end"
              /\ task[c].alert = i
              /\ task[c].row.status = alerts'[i].status
<1>1. ASSUME MonitorInv, [Next]_vars PROVE [Kept]_vars
  <2>1. CASE \A i \in DOMAIN alerts : alerts'[i] = alerts[i]
    BY <2>1
  <2>2. ASSUME NEW c \in Calls, Save(c) \/ SaveAudit(c) PROVE Kept
    <3>1. PICK x : alerts' = Append(alerts, x)
      BY <2>2 DEF Save, SaveAudit
    <3>2. Shape
      BY <1>1 DEF MonitorInv
    <3>3. \A i \in DOMAIN alerts : alerts'[i] = alerts[i]
      BY <3>1, <3>2, Appended DEF Shape
    <3> QED
      BY <3>3
  <2>3. ASSUME NEW c \in Calls, Write(c) PROVE Kept
    <3>1. /\ pc[c] \in {"marked", "handled"} /\ pc'[c] = "end" /\ TaskOK(c)
      BY <1>1, <2>3 DEF Write, MonitorInv, AlertInv, Shape
    <3>2. task[c].alert \in DOMAIN alerts
      BY <3>1 DEF TaskOK, Underway
    <3>3. DOMAIN alerts[task[c].alert] = Columns
      BY <1>1, <3>2 DEF MonitorInv, AlertInv, AlertOK
    <3>4. /\ \A i \in DOMAIN alerts \ {task[c].alert} : alerts'[i] = alerts[i]
          /\ alerts'[task[c].alert] = [f \in Columns |->
               IF f \in task[c].columns THEN task[c].row[f]
               ELSE alerts[task[c].alert][f]]
      BY <2>3, <3>2, <3>3 DEF Write, Changed
    <3>5. CASE pc[c] = "marked"
      <4>1. /\ alerts'[task[c].alert].broadcasted = TRUE
            /\ alerts'[task[c].alert].status = alerts[task[c].alert].status
        BY <3>1, <3>4, <3>5 DEF TaskOK, Columns
      <4> QED
        BY <3>4, <4>1
    <3>6. CASE pc[c] = "handled"
      <4>1. /\ alerts'[task[c].alert].broadcasted = alerts[task[c].alert].broadcasted
            /\ \/ alerts'[task[c].alert].status = task[c].row.status
               \/ alerts'[task[c].alert].status = alerts[task[c].alert].status
        BY <3>1, <3>4, <3>6 DEF TaskOK, Columns
      <4> QED
        BY <3>1, <3>4, <3>6, <4>1
    <3> QED
      BY <3>1, <3>5, <3>6
  <2>4. CASE UNCHANGED alerts
    BY <2>1, <2>4
  <2> HIDE DEF Kept
  <2> QED
    BY <1>1, <2>2, <2>3, <2>4 DEF Next, Monitor, Announce, GetLock, Ping, Publish,
       Push, Trim, Touch, PublishFails, Mark, Handle, Stop, Crash, RecentExpires, vars
<1>2. Spec => [][Kept]_vars
  <2> HIDE DEF Kept
  <2> QED
    BY <1>1, Invariance, PTL DEF Spec
<1> QED
  BY <1>2 DEF ColumnsKept
=============================================================================
