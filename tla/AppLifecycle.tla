---------------------------- MODULE AppLifecycle ----------------------------
(***************************************************************************)
(* Starting and stopping one process of the application (container.py and  *)
(* the lifespan of main.py), with the SSH tunnel, the MySQL engine and the *)
(* Redis client it opens and the two background tasks that use them.       *)
(*                                                                         *)
(* A replica may be cancelled at any await.  The code shields the start of *)
(* the tunnel, the clean-up and the shutdown from that: the cancellation   *)
(* is remembered and raised when they are over.                            *)
(***************************************************************************)
EXTENDS Naturals, Sequences, FiniteSets

CONSTANTS
  Replicas,
  Lasting,    \* replicas that are up all the time
  MaxBoots,   \* bounds how often the others are started
  MaxFaults   \* bounds everything that goes wrong

ASSUME LifecycleAssumption ==
  Lasting \subseteq Replicas /\ MaxBoots \in Nat /\ MaxFaults \in Nat

VARIABLES
  phase,      \* what each replica's start or shutdown is waiting for
  open,       \* the resources it holds
  task,       \* its background tasks
  cancelled,  \* a cancellation is remembered
  boots,
  faults

lifecycle == <<phase, open, task, cancelled, boots, faults>>

Tasks == {"subscriber", "maintenance"}
Resources == {"redis", "engine", "tunnel"}

Starting == {"tunnel", "tables", "ping"}
Waiting == {"subscriber", "maintenance"}
Closing == {"close redis", "close engine", "close tunnel"}

(***************************************************************************)
(* The states of a background task.  A task told to stop ends when it      *)
(* comes to the head of its loop; one that does not come there in time is  *)
(* cancelled; one that ignores the cancellation hangs and is left alone.   *)
(***************************************************************************)
TaskStates == {"none", "running", "told", "cancelled", "hung"}
Alive == {"running", "told", "cancelled"}

Move(r, from, to) == phase[r] = from /\ phase' = [phase EXCEPT ![r] = to]
Fault == faults < MaxFaults /\ faults' = faults + 1
Set(r, t, state) == task' = [task EXCEPT ![r][t] = state]

-----------------------------------------------------------------------------
(* build_container.                                                        *)

Boot(r) ==
  /\ boots < MaxBoots
  /\ Move(r, "off", "tunnel")
  /\ open' = [open EXCEPT ![r] = {"tunnel"}]
  /\ boots' = boots + 1
  /\ UNCHANGED <<task, cancelled, faults>>

\* The thread that opens the tunnel is waited for even when the start was
\* cancelled meanwhile.
TunnelStarted(r) ==
  /\ phase[r] = "tunnel"
  /\ IF cancelled[r]
     THEN Move(r, "tunnel", "close redis") /\ UNCHANGED open
     ELSE /\ Move(r, "tunnel", "tables")
          /\ open' = [open EXCEPT ![r] = @ \cup {"engine"}]
  /\ UNCHANGED <<task, cancelled, boots, faults>>

\* SshTunnelManager.start undoes what it did before it raises.
TunnelRefused(r) ==
  /\ Fault
  /\ Move(r, "tunnel", "close redis")
  /\ open' = [open EXCEPT ![r] = {}]
  /\ UNCHANGED <<task, cancelled, boots>>

TablesCreated(r) ==
  /\ Move(r, "tables", "ping")
  /\ open' = [open EXCEPT ![r] = @ \cup {"redis"}]
  /\ UNCHANGED <<task, cancelled, boots, faults>>

\* The first use of a new connection fails.
StartFails(r) ==
  /\ Fault
  /\ phase[r] \in {"tables", "ping"}
  /\ phase' = [phase EXCEPT ![r] = "close redis"]
  /\ UNCHANGED <<open, task, cancelled, boots>>

\* The container is built and the lifespan starts the two tasks.
Pinged(r) ==
  /\ Move(r, "ping", "serving")
  /\ task' = [task EXCEPT ![r] = [t \in Tasks |-> "running"]]
  /\ UNCHANGED <<open, cancelled, boots, faults>>

\* Faulty variant: the clean-up is not shielded.
CancelAbandons(r) ==
  /\ Fault
  /\ \/ /\ phase[r] \in {"tunnel"} \cup Waiting
        /\ cancelled' = [cancelled EXCEPT ![r] = TRUE]
        /\ UNCHANGED phase
     \/ /\ phase[r] \in Closing
        /\ phase' = [phase EXCEPT ![r] = "off"]
        /\ UNCHANGED cancelled
  /\ UNCHANGED <<open, task, boots>>

\* Whatever waits unshielded ends; a shielded wait remembers it.  A server
\* that is cancelled while it serves leaves the lifespan, as in Stop.
Shielded == {"tunnel"} \cup Waiting \cup Closing

Cancel(r) ==
  /\ Fault
  /\ \/ /\ phase[r] \in Shielded
        /\ cancelled' = [cancelled EXCEPT ![r] = TRUE]
        /\ UNCHANGED phase
     \/ /\ phase[r] \in Starting \ Shielded
        /\ phase' = [phase EXCEPT ![r] = "close redis"]
        /\ UNCHANGED cancelled
  /\ UNCHANGED <<open, task, boots>>

-----------------------------------------------------------------------------
(* _close_external_resources.  An exception while one resource is closed   *)
(* does not keep the next from being closed, so that an attempt is a step  *)
(* whatever its outcome.                                                   *)

Close(r, resource, from, to) ==
  /\ Move(r, from, to)
  /\ open' = [open EXCEPT ![r] = @ \ {resource}]
  /\ UNCHANGED <<task, cancelled, boots, faults>>

CloseRedis(r) == Close(r, "redis", "close redis", "close engine")
CloseEngine(r) == Close(r, "engine", "close engine", "close tunnel")

\* What was remembered is raised now, and the process is over.
CloseTunnel(r) ==
  /\ Move(r, "close tunnel", "off")
  /\ open' = [open EXCEPT ![r] = @ \ {"tunnel"}]
  /\ task' = [task EXCEPT ![r] = [t \in Tasks |-> "none"]]
  /\ cancelled' = [cancelled EXCEPT ![r] = FALSE]
  /\ UNCHANGED <<boots, faults>>

-----------------------------------------------------------------------------
(* _shutdown_application: first the subscriber, then the maintenance loop, *)
(* then the container.                                                     *)

Told(r, t) == IF task[r][t] = "running" THEN "told" ELSE task[r][t]

Stop(r) ==
  /\ r \notin Lasting
  /\ Move(r, "serving", "subscriber")
  /\ Set(r, "subscriber", Told(r, "subscriber"))
  /\ UNCHANGED <<open, cancelled, boots, faults>>

\* Faulty variants: the cancelled task is not waited for, or waited for without limit.
CancelledIsFinished(r, t) == task[r][t] \notin {"running", "told"}
GoneIsFinished(r, t) == task[r][t] = "none"

\* The two waits of finish_background_task come first, so that the phase
\* changes only when the task is over or has been given up.
Finished(r, t) == task[r][t] \notin Alive

SubscriberFinished(r) ==
  /\ Finished(r, "subscriber")
  /\ Move(r, "subscriber", "maintenance")
  /\ Set(r, "maintenance", Told(r, "maintenance"))
  /\ UNCHANGED <<open, cancelled, boots, faults>>

MaintenanceFinished(r) ==
  /\ Finished(r, "maintenance")
  /\ Move(r, "maintenance", "close redis")
  /\ UNCHANGED <<open, task, cancelled, boots, faults>>

TaskTimesOut(r, t) ==
  /\ phase[r] = t
  /\ task[r][t] = "told"
  /\ Set(r, t, "cancelled")
  /\ UNCHANGED <<phase, open, cancelled, boots, faults>>

\* A task ends by itself, or because of its cancellation.
TaskEnds(r, t) ==
  /\ task[r][t] \in {"told", "cancelled"}
  /\ Set(r, t, "none")
  /\ UNCHANGED <<phase, open, cancelled, boots, faults>>

TaskHangs(r, t) ==
  /\ Fault
  /\ task[r][t] = "cancelled"
  /\ Set(r, t, "hung")
  /\ UNCHANGED <<phase, open, cancelled, boots>>

\* An error of the connection ends the subscriber's loop; nothing starts it
\* again before the replica is.
SubscriberBreaks(r) ==
  /\ Fault
  /\ task[r]["subscriber"] = "running"
  /\ Set(r, "subscriber", "none")
  /\ UNCHANGED <<phase, open, cancelled, boots>>

\* The process is killed: the operating system closes what it had open.
Kill(r) ==
  /\ Fault
  /\ r \notin Lasting
  /\ phase[r] # "off"
  /\ phase' = [phase EXCEPT ![r] = "off"]
  /\ open' = [open EXCEPT ![r] = {}]
  /\ task' = [task EXCEPT ![r] = [t \in Tasks |-> "none"]]
  /\ cancelled' = [cancelled EXCEPT ![r] = FALSE]
  /\ UNCHANGED boots

-----------------------------------------------------------------------------
InitLifecycle ==
  /\ phase = [r \in Replicas |-> IF r \in Lasting THEN "serving" ELSE "off"]
  /\ open = [r \in Replicas |-> IF r \in Lasting THEN Resources ELSE {}]
  /\ task = [r \in Replicas |->
               [t \in Tasks |-> IF r \in Lasting THEN "running" ELSE "none"]]
  /\ cancelled = [r \in Replicas |-> FALSE]
  /\ boots = 0
  /\ faults = 0

\* What a replica does on the way up and down without anything going wrong.
Progress(r) ==
  \/ TunnelStarted(r) \/ TablesCreated(r) \/ Pinged(r)
  \/ CloseRedis(r) \/ CloseEngine(r) \/ CloseTunnel(r)
  \/ SubscriberFinished(r) \/ MaintenanceFinished(r)

-----------------------------------------------------------------------------
(* Properties.                                                             *)

LifecycleTypeOK ==
  /\ phase \in [Replicas ->
       {"off", "serving"} \cup Starting \cup Waiting \cup Closing]
  /\ open \in [Replicas -> SUBSET Resources]
  /\ task \in [Replicas -> [Tasks -> TaskStates]]
  /\ cancelled \in [Replicas -> BOOLEAN]
  /\ boots \in 0..MaxBoots
  /\ faults \in 0..MaxFaults

\* Whatever fails or is cancelled during the start or the shutdown, a replica
\* that is off has closed all it opened.
NothingLeaks ==
  \A r \in Replicas : phase[r] = "off" => open[r] = {}

\* A task that may still make a step finds the connections it uses open: the
\* tunnel is the last to go, and nothing goes before the tasks are over.
TasksHaveConnections ==
  \A r \in Replicas :
    (\E t \in Tasks : task[r][t] \in Alive) => open[r] = Resources

\* A shutdown comes to an end, even if a task hangs, its time being limited.
ShutdownEnds == \A r \in Replicas : phase[r] \in Waiting ~> phase[r] = "off"
=============================================================================
