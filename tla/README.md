# WealthSense in TLA+

WealthSense is a wealth-management backend (Python, FastAPI) over MySQL, Redis,
Milvus and Neo4j. This directory holds TLA+ modules translated from its source,
TLC configurations that model-check them, and proofs checked by TLAPS. Paths
below are relative to `src/app/` unless they start with `src/`.

Several replicas of one asyncio process run the code. Inside a process the
actors are coroutines, which may be suspended, cancelled or lost with the
process at every `await`; between processes they are transactions of MySQL and
commands of Redis and Milvus. What the modules are about is what these
interleavings and failures can do to state that two actors share.

## 1. Inventory

| Component | State | Operations | What makes it correct |
|---|---|---|---|
| **Operation service** `service/nl2api/operation_service.py` | none of its own; each coroutine holds a copy of the row in a local variable | create, update, handle risk / manual result, confirm, cancel, reconcile; five maintenance methods | nothing runs unapproved or unconfirmed; the effect is had once; no operation is stuck |
| **State machine** `service/nl2api/state_machine.py` | constant table | `assert_transition` | terminal statuses are final |
| **Operation repository** `dao/mysql/operation_repository.py` | tables operations, operation_versions, risk_reviews, operation_confirmations, execution_attempts, processed_events, outbox | compare-and-set `transition`, `prepare_risk_review`, scans, claims, outbox | a stale copy never undoes what another coroutine did |
| **Redis state store** `dao/redis/state_store.py` | confirmation keys with a time to live, execution locks | put, get, delete, `SET NX` | an open offer has its key until its last two seconds |
| **Business repository** `dao/mysql/mock_business_repository.py` with the tool `tool/operation/database_registry.py` | accounts, holdings, one execution row per idempotency key | execute, query | effect and execution row commit together; balances never negative; no update lost; rows are locked in one order |
| **Event router** `event/event_router.py` | claims with a lease (in MySQL) | claim, handle, complete | an event is handled by one replica at a time; completed means applied |
| **Outbox, publishers, subscriber** `dao/redis/event_publisher.py`, `event_subscriber.py` | outbox rows, Redis stream and channels | publish, flush, mark sent, listen | every stored event reaches the stream |
| **Maintenance loop** `main.py:37-66` | position in the pass | five steps and a flush, once a second | one failing step does not stop the others |
| **Container and lifespan** `container.py`, `main.py:69-129` | tunnel, engine, client, two tasks | start, roll back, stop | what was opened is closed, after the tasks that use it |
| **Profile service** `service/profile/`, `service/risk/risk_assessment_service.py` | profile row, evaluations, audits, assessments, copy in Redis | create, update, assess, read (cache-aside), check suitability | the copy, the audit and the restrictions agree with the row |
| **Questionnaire and profile scoring** `service/risk/scoring.py`, `service/profile/score_engine.py` | none | score, level, restrictions | the more cautious level wins |
| **Risk monitor** `service/risk/`, `event/risk_alert_publisher.py` | alerts, broadcast mark, list of recent alerts, a shared client and note of the last error | evaluate, save, announce, mark, handle | an alert is marked when and only when it was announced; one client is shared |
| **Risk rules** `tool/risk/` | none | six rules, gate, confidence, level | |
| **Knowledge service** `service/knowledge.py` | documents in MySQL, vectors in Milvus | ingest, re-ingest, update, delete, search | vectors exist exactly for active documents |
| **Session memory** `service/memory.py` | Redis list per session, archive in MySQL | append exchange, trim to budget | the newest messages survive |
| **API and views** `api/` | none | one service call per route | |
| **Schema, settings** `dao/mysql/schema.py`, `config/` | none | create tables | the unique keys the code relies on |
| **Agents** `agent/`, **advisor** `service/advisor/`, **LLM client** `service/llm.py`, **tools** `tool/{document,embedding,sql,...}`, **authentication** `utils/` | none, or read-only, or a cache with a time to live | | |

**How they interact.** An HTTP route or the operator agent calls the operation
service. It writes MySQL through the repository, asks the risk agent through the
publisher (outbox row, Redis stream), and gets the answer through the subscriber
and the event router, which claims it in MySQL; it keeps the customer's
confirmation window in Redis, and calls the tool, which runs one MySQL
transaction over accounts and holdings. The maintenance loop calls the service's
five maintenance methods and flushes the outbox. The lifespan of `main.py`
starts subscriber and loop after the connections and ends them before. Profile
service, risk monitor and knowledge service are called by their routes only and
share the connections.

**What is hard.** A coroutine's copy of the row is stale at every await, and
`transition` writes *all* fields of that copy. Results arrive twice, late or
after a timeout. A coroutine may stop between any two awaits. The tool may fail
before or after its effect is committed. MySQL, Redis and Milvus are written by
separate calls. Transactions run at REPEATABLE READ, so that a plain read after
a lock shows an older state than the lock protects. A process may be cancelled
while it starts, and while it cleans up after a cancelled start. `PROJECT.json`
lists the hazards, each at its line, with the properties that watch it.

## 2. Modules

| Module | Models | Extends or instantiates |
|---|---|---|
| `OperationStatus` | the statuses and the table of allowed transitions | |
| `OperationService` | every operation of the service on one business operation, interleaved | `OperationStatus`, `OperationLifecycle` |
| `OperationLifecycle` | the abstract promise the service implements | |
| `BusinessRepository` | accounts, holdings and executions: transactions of concurrent sessions | `Ledger` |
| `Ledger` | the abstract promise of the tool about money | |
| `AppLifecycle` | start and shutdown of one process with its connections and tasks | |
| `EventDelivery` | outbox, stream, subscription and claims, in replicas that come and go | `AppLifecycle` |
| `ScoreEngine` | the scores of questionnaire and profile, as operators | |
| `ProfileService` | one customer's profile: transactions and the copy in Redis | `ScoreEngine` |
| `RiskRules` | the rules, the gate and the level of an alert, as operators | |
| `RiskMonitor` | alerts from evaluation to an officer's decision | `RiskRules` |
| `KnowledgeService` | documents against vectors | |
| `...Proofs` | theorems and proofs, one module beside each of `OperationService`, `OperationLifecycle`, `BusinessRepository`, `EventDelivery`, `RiskMonitor`, `ProfileService`, `KnowledgeService`, with `OperationRaceProofs` as a second one of the first | the module and `TLAPS` |
| `MC...` | constants for TLC | |

The modules do not share variables with each other, except along the last
column, because the components share none: the operation service and
`EventDelivery` meet at the effect of a handled event (`Arrival` there,
`applied` here) and at the event a transition stores (`Transition` there,
`outbox` here), the operation service and `BusinessRepository` at the execution
row.

### OperationService

*Tables.* `op` is the row of `operations`; `versionRows`, `reviews`,
`confirmations`, `attempts`, `processed` are the other tables; `execution` is
the tool's row for the operation's idempotency key, which stands for the
business effect because both commit together. `confKey` and `locks` are the keys
in Redis. `reviewsLapsed`, `deadlines`, `deadlinesNear` and `deadlinesLapsed`
are the clock: how many review windows are over, how many confirmation deadlines
were computed, are less than two seconds ahead or past, and are past.

*The key's time to live.* The code gives Redis the seconds left until the
deadline, truncated to whole ones and at least one (`operation_service.py:838`,
`state_store.py:66`), so the key does not end with the deadline: `KeyFor` keeps
the deadline it was computed from, and `KeyExpires` may drop the key at any time
from `DeadlineNears` on. One second of the two is the truncation, the other is
for the way to Redis, the rounding of the stored deadline and clocks that do not
agree. The key may also outlive the deadline, since nothing forces `KeyExpires`
before `DeadlineLapses`, and since the minimum of one second gives a late offer
a key at all.

*Coroutines.* A task is a request handler or the maintenance loop. `job[t]` is
the method it runs, `pc[t]` the call it makes next, `rec[t]` its copy of the
row, `ev[t]` the event it handles, `goal[t]` the outcome it is about to write.
Each action of a task is the code between two suspension points: one database
or Redis access with the local work that follows. `Arrival` starts a handler;
`Traffic` names the requests a run lets arrive, and any of them may arrive any
number of times and in any order, so repeated and late events need no
machinery of their own. A request to confirm names any version and hash.

*Compare-and-set.* `CasHolds` and `Transition` are
`operation_repository.py:506-571`: status and expected version are compared,
the request id only when the record carries one and the transition says so,
and the whole record is written. Each handler that fails it raises.

*Maintenance loop.* An idle monitor keeps its place in the pass in `job`; the
pass is expireRisk, expireConf, resumeApproved, resumeConfirmed, reconcileAll.
The two `resume` steps are one method, so an exception in the first skips the
second (`StepAfterError`).

*Faults.* `Abort(t)` stops a task before any of its calls: a crash, a
cancellation, an exception of a publisher. `ToolRefuses`, `RecordFailure` and
`ToolBreaks` are the tool's failures, a rejected request, a database error
before the commit, a lost answer after it. `MaxFaults` bounds them in a run.

*History variables.* `approvals` and `consents` record the versions and
parameters the risk agent approved and the customer consented to. No guard of a
task reads them.

*Abstractions.*
- Parameters are members of `Params`; those in `LargeParams` are the ones whose
  rule requires a second confirmation. A hash is the parameters it was taken of.
- `approved` and `approved_with_warning` have the same effect and are one
  decision.
- The risk agent is external. A result of any decision may come for any review
  that was requested (`Results`).
- Reads with no await between them that can change the answer are one:
  `is_event_processed` with the read of the row, `get_by_request` with the
  insertion it guards, the two queries of `find_executing` and
  `find_pending_verification`.
- Unique constraints (version row, attempt, processed event) are guards; in
  no reachable state of the runs do they block a task for good, since deadlock
  is checked in each.
- The time to live of the execution lock (an hour) is not modelled. Its loss
  would matter to nobody: one task at most comes to the lock, by the transition
  before it, and `reconcile_pending_operations` does not look at it.
- The 5 s minimum age of the rows `resume_ready_operations` picks up is not
  modelled: the loop may come at once, which only adds interleavings.
- A Redis key disappears only by its time to live or a delete. The in-memory
  adapters, audit rows, publications and the outbox are not part of this module;
  the last two are `EventDelivery`'s.
- Of the comparisons of version and of request id in `handle_risk_result`
  either would do, because an update resets the request id of the row.

### OperationLifecycle

What a client may rely on: phases, the subject (version and parameters), and the
effect. Parameters change in drafts only; nothing runs unless its own subject
was approved and, when large, consented to; the effect is had once, with that
subject; success follows the effect; what is over stays over. It allows what the
code really does and a reader may not expect: of two concurrent revisions of a
draft one may be lost (the compare-and-set of `NEED_MORE_INFORMATION` compares
the version, which a failed revision does not raise), and an effect may come
after a failure was reported (see findings). `OperationService` implements it
with `phase <- PhaseOf(op.status)`, `approved <- approvals`,
`consented <- consents`, `effect <- EffectOf(execution)`.

### BusinessRepository

The tool's side of an execution, in more detail than the one row `execution` of
`OperationService`: what many operations do to shared accounts and holdings.

*Tables.* `balance` is `operator_mock_accounts`; `entries` is
`operator_mock_transactions`, each row together with the holding change of the
same operation; `execution` is `operator_mock_api_executions`, whose row is
visible when its transaction commits. `fin_holdings` is only read (`BaseShares`).
The execution row's two unique keys, the idempotency key and the operation, name
the same operation, because `OperationService` derives the one from the other.

*Sessions.* `Execute` is `execute()` with its look at the execution row;
`Insert` flushes the new row and, if another transaction has it, waits for that
one's end; `Read` is `_resolve_customer`, the first plain read; `Lock` one
`FOR UPDATE`, `Commit` the rest of the handler and the commit. `seen` is the
account entity in the session: the new balance is computed from it and written
back as a value. `Insufficient` and `Invalid` are the refusals with money or
shares and without, `RecordFailure` the transaction that stores a failure,
`Break` the rollback after a database error.

*MySQL* is external and modelled as its default isolation, REPEATABLE READ,
which nothing in the repository changes: a plain read shows the snapshot of the
first one (`snapshot`), a `FOR UPDATE` waits for the row's lock and shows what
is committed, an insertion waits for an uncommitted row with the same unique
key. `LockPlan` says which rows an execution locks in which order; `held` how
many of them it holds.

*Abstractions.* One account per customer, which is what `seed_defaults` opens;
net value 1 and whole amounts, so shares are money and rounding does not show;
one product. Statuses, currencies and minimum amounts are `Invalid`. A
redemption names a holding of its customer. The four intents that insert one row
of their own are `Records`; the product query, which only reads, is left out.

*Gap locks.* The search for the first change of a holding (`:994`) locks the
gap before that change, or where it would be; searches share a gap, an insertion
into it waits (`WaitsForGap`). So two redemptions of base holdings without
changes may each wait for the gap of the other, and InnoDB fails one of the two
(`Deadlock`), which rolls everything back. Whether a change belongs into a gap
depends on the order of the holdings' numbers, which are random for holdings
opened by purchases: `InGap` leaves open what these leave open. For the same
reason `Commit` is not made to wait for a gap, which lets sessions commit where
the database might hold them up, and takes no commit away.

### Ledger

What a caller of the tool may rely on, whichever executions overlap: an
operation is carried out in one step, as it was asked for and from balances that
suffice at that moment, or is refused, which moves nothing; what has come out of
it stays so, a failure too. It knows no sessions, locks, snapshots or retries,
and promises nothing about shares, since two redemptions may both get the same
ones (see findings): the amount of a redemption of all shares is whatever is
paid for it. `BusinessRepository` implements it with `outcome <- execution`; a
commit is `CarryOut`, the record of a failure `Refuse`, and all other steps of a
session are invisible.

### AppLifecycle

One process, from `build_container` to the end of its lifespan.

*State.* `phase[r]` is the await at which the start or the shutdown of replica
`r` stands, `open[r]` the tunnel, engine and client it holds, `task[r]` its
subscriber and its maintenance loop, `cancelled[r]` a cancellation that a
shielded wait remembers.

*Start.* `Boot` (tunnel thread), `TunnelStarted`, `TablesCreated`, `Pinged` follow
`container.py`; `TunnelRefused` and `StartFails` are their failures, after which
`_close_external_resources` closes client, engine and tunnel in that order.
A wait for the tunnel, for the clean-up or for the tasks is shielded: `Cancel`
there only sets `cancelled`, anywhere else it goes to the clean-up.

*Shutdown.* `Stop` tells the subscriber; `finish_background_task` waits, cancels
(`TaskTimesOut`), waits again, and gives up a task that ignores the cancellation
(`TaskHangs`); then the loop likewise, then the resources. `SubscriberBreaks` is
an error of the connection outside the `try` of the handler, which ends the
subscriber for good. `Kill` is the end of the process without any of this.

*Abstractions.* Times are left out but for their order. An attempt to close
succeeds or is logged, and goes on alike. A replica in `Lasting` stands for one
that is up throughout a run. Settings, the in-memory variant, and Milvus and
Neo4j, which are opened lazily elsewhere, are left out.

### EventDelivery

*Outbox.* `outbox[i]` is the status of the i-th stored event, `copies[i]` how
often it was added to the stream. A handler stores a row with its transition and
publishes it after (`Publish`, `Published`); the flush reads all pending rows
and deals with them in order (`FlushList`, `FlushPublish`, `FlushMark`), and ends
at the first that fails. Between stream and mark either may be interrupted.

*Subscription and claims.* `Send` puts a copy into the inbox of every subscribed
replica. `Receive` rejects an event, or looks for a claim whose lease has lapsed
(`Reclaimable`), or goes on to insert one; `ClaimRow` and `Duplicate` are the two
ends of that insertion. `Act` is the operation service's transaction,
`Refuse` an exception that is answered, `HandlerFails` one that is only logged,
`Complete` the mark. `pc`, `event`, `lease`, `toPublish` are the locals of the
subscriber's coroutine.

*Composition.* The steps of `AppLifecycle` are conjoined with what they do to
the two tasks: one that ends, hangs or is killed loses its locals, the
subscription its copies. A hung task makes no further step: nothing waits for it
and its connections are closed.

*Abstractions.* `Repeatable` are the events whose handler would act again (an
update), the others those that the service's own guards make idempotent.
Signatures fail like any exception. `now` counts units of the lease. The event
of the result that follows a handled one is published like a rejection.

### ScoreEngine and ProfileService

`ScoreEngine` translates the scoring as integer operators: bands of the
questionnaire, four dimensions, restrictions for low capacity. It works in
hundredths because the code rounds to them.

`ProfileService` is one customer. `assessments`, `evaluations` and `audits` are
insert-only tables whose rows carry `committed`; `row` is the committed profile,
`lock` who holds its row lock, `cache` the copy in Redis. `seen[t]` is the
snapshot a transaction opened with its first SELECT, `work[t]` the row it will
commit or the copy it has loaded. Creation (`BeginCreate`, `Upsert`,
`InsertEvaluation`, `RefuseEvaluation`), assessment (`BeginSubmit`,
`InsertAssessment`, `Rebuild`, `SetLevel`), update (`BeginUpdate`,
`UpdateFields`, `RefuseFields`), read (`BeginGet`, `GetCopy`, `SelectRow`,
`FillCache`) and `suitability_check` follow the methods, each step being one
statement; `Commit` is followed by `DeleteCopy`, as the routes do it. A cache
call may fail and is swallowed; a statement may fail and rolls back.

*Abstractions.* A field's value is the request that wrote it; three fields stand
for the three kinds of authorities. An evaluation inserted and rolled back keeps
its place, as an auto-increment does, and is never seen. The lists of past
evaluations only read. Profile events are only recorded in memory, because the
publisher is built without a client, and no service receives them.

### RiskRules and RiskMonitor

`RiskRules` has each rule as a predicate over a transaction's facts, the gate
that decides whether the rules beyond the core run, confidence and level of an
alert, and what the model's opinion may change of it.

`RiskMonitor` is `monitor` and `handle`. `Monitor` evaluates, `Save` inserts the
alert, `Announce` appends to the bus in memory and goes to Redis, where
`GetLock` and `Ping` are the double-checked opening of the one client,
`Publish`, `Push`, `Trim`, `Touch` its commands; `PublishFails` is caught and
noted, and the call goes on to `Mark`. `last` is the publisher's note of its
last call, which all calls share; `Note` writes and reads it with no await in
between. `Mark` and `Handle` read an alert in a session, `Write` is that
session's flush, of the columns that differ. `Stop` cancels a call, `Crash` ends
the process.

*Abstractions.* One process, whose commands interleave; the store in memory is a
case of the one in MySQL. The key `risk:alert:<id>` is never read. Roles are
checked before and are left out.

### KnowledgeService

`rows` are the documents, `vectors` what Milvus holds, one vector per upload.
`Ingest` looks for an active document of the file; `Create` or `DeleteVectors`
with the draft follow, then `InsertVectors`, then the status. Each change of a
row is a `Merge` in which the repository reads the row again, compares every
column of the item it was given, and a `Write` of those that differ: that item
was read in an earlier session, which is what makes it stale. `Search` reads the
collections one by one and the rows after. `Fault` and `Stop` break a call off
at any await, and what the call had given to a thread still happens
(`LeftBehind`).

`excused` is history: documents for which the code promises nothing, because two
calls wrote them at once, their status was set by hand, or a call broke off
between the two stores. Everything else must agree (`StoresAgree`). The section
on observations says what happens to the excused ones.

*Abstractions.* All documents come from one file, since documents of different
files share nothing. Parsing and embedding are steps that succeed or fail.

## 3. Runs

| Run | Instance | States | Asks |
|---|---|---|---|
| `review` | 2 handlers, monitor, 2 versions, no faults; create, update, risk and manual results | 2.3 M | is only what was approved executed, in one version, one result per review? |
| `confirm` | 2 handlers, monitor, 2 versions; create, risk results, update, confirm | 2.0 M | does an update ever slip past a confirmation or an execution; does an open offer have its key? |
| `execute` | 2 handlers, monitor, 1 version, 1 fault; create, result, confirm, cancel, reconcile | 0.4 M | is the effect had once and reported truly, whoever executes or reconciles? |
| `live` | 1 handler, monitor, 3 deadlines, 1 fault, fairness | 151 k | does the operation leave every status the loop looks after? |
| `business` | 2 sessions, 3 operations, 2 accounts, amounts 1 and 2, 1 fault | 1.2 M | is money neither created, lost nor overdrawn, is an operation executed once, do rows alone never make a circle of waits, does all this look like one operation after another? |
| `delivery` | 2 replicas, one of them up throughout; 1 event sent once, lease 1, clock to 1, 1 boot, 1 fault | 2.2 M | does one replica at a time handle an event, is completed applied, is sent on the stream, how many duplicates? |
| `restart` | 1 replica, 2 boots, 2 faults, 1 event sent twice, fairness | 0.3 M | is everything closed, does a shutdown end, is the outbox published after a restart? |
| `profile` | 3 requests of 7 kinds, 1 fault, 1 expiry | 0.9 M | do copy, audit, evaluations and restrictions agree with the row? |
| `monitor` | 3 calls, 2 transactions, language model mocked or off, list of 1, 1 fault, 1 cancellation or crash | 0.7 M | is an alert marked just when announced, one client opened, no column lost? |
| `knowledge` | 3 calls, 2 types, 1 hit, 1 fault, 1 cancellation | 0.6 M | do rows and vectors agree, is nothing unpublished shown? |
| `failed_effect` | 2 handlers, monitor, 1 version | | is a failed operation without effect? (it is not) |
| `over_redemption` | 2 sessions, 2 operations, no faults | | are never more shares redeemed than there are? (they are) |

**Why the bounds are enough to be interesting.** A stale copy needs two tasks
that read before either writes, and a third that intervenes: two handlers and
the monitor. A result for an old version needs two versions (`MaxVersion`). Both
kinds of parameters exist, so a version may require a confirmation its
predecessor did not. The confirm run has one deadline per operation
(`MaxDeadlines`), as the code has: it is set once. Live has three reviews' and
deadlines' worth of time. One fault already meets every call of every task. The
handlers are interchangeable, so they are a symmetry set in the safety runs; the
liveness runs have none. In `business`, two sessions are what a wait in a circle
and a stale read need; three operations let a purchase open a holding that two
sessions then redeem, and a transfer meet both; the first account has a base
holding and the second none, and a balance of 1 or 2 can be overdrawn by two
amounts. `PutKeyFails` is what an offer does when the bound on
deadlines is used up: the coroutine stops, as after an exception.

In `delivery` the copies of one event reach both replicas, so that two claims,
a lapsed lease and its former owner meet, and the flush of the replica that
lasts meets rows the other left behind; one fault is any failure, cancellation
or kill at any await. `restart` lets a fault hit the start and another the
clean-up of that very start, and a second boot find the outbox of the first.
In `profile`, three requests are two writers and a reader, or two repetitions
and a third that intervenes; the facts of the creation are of low capacity, so
that a restriction differs from the level, and the three sources of changes
differ in confidence and authority. Three calls in `monitor` are two that open
the client at once and one that fails or handles; in `knowledge`, one that
uploads anew, one that deletes or updates, and a search between them, with types
in different collections.

`CHECK_DEADLOCK FALSE` stands in `Delivery`, `Restart`, `Profile`, `Monitor` and
`Knowledge`, where each request, call or boot is made a bounded number of times
and the system rightly stops after the last. In the runs of `OperationService`
and in `business` deadlock is checked.

**What the instances leave out.** `EffectMatchesOperation` is checked twice: in
`execute` with cancellations, reconciliations and a fault but in one version, in
`confirm` with updates over two. `live` has no updates, so the deadline an offer
inherits after one does not occur in it. In `delivery` and `restart` the failures
are bounded, so a row of the outbox that can never be sent, behind which
`flush_pending` would stop for ever, does not occur: `OutboxDrains` is about rows
that Redis takes in the end. `NeverUnsuitable` and `StoresAgree` excuse what two
overlapping writers leave behind: an older level that wins, a deletion during an
ingestion. The observations in section 4 describe these.

**Fairness.** In `OperationService`: weak fairness of each task's `Step` (the
event loop schedules a coroutine whose await is over; every external call has a
timeout), of `MonitorStep` (the loop of `main.py` goes round every second and
survives exceptions) and of the clock. Arrivals and faults have none: every
liveness property must hold though no further request arrives. In
`EventDelivery`: weak fairness of `Winds(r)`, the steps of start, shutdown and
cancelled tasks, because the event loop runs them and each wait is limited in
time, and of `Flush(r)`, because the loop comes round. `Send`, `Boot`, `Stop`,
faults and handlers have none. `OutboxDrains` assumes that some replica stays up
from some time on; which one does not matter. The safety modules
`ProfileService`, `RiskMonitor`, `KnowledgeService` and `BusinessRepository`
state none.

**Mutants.** Every property of a passing run has a mutant that breaks it: a
dropped comparison in the compare-and-set, a confirmation matched by version
only, a skipped maintenance pass, a lease that is not looked at, an unshielded
clean-up, a row put back from the snapshot, a client opened without the lock,
vectors deleted from the wrong collection, and so on. They are definitions of
the module itself next to the ones they vary, marked "Faulty variant".

## 4. Findings

1. `failed_effect`: the loop executes an operation whose handler is still at it,
   without the lock; if one of the two fails the operation is reported FAILED
   although its effect is had.
2. `over_redemption`: two redemptions of one holding both pass the check of the
   redeemable shares, because the sum is a plain read of a snapshot older than
   the lock.

**Observations.** Behaviour that the models allow because the code does; no run
is spent on it.

*Operations.*
- An update that read the row before the review's id was stored leaves that
  review waiting (`operation_service.py:496`). A coroutine that stops between
  `WAITING_RISK_REVIEW` and `prepare_risk_review` leaves an operation no scan
  finds (`:177`). Manual reconciliation never settles the execution attempt
  (`:805`).
- The key of the confirmation window lives the whole seconds left until the
  deadline the customer was given (`:840`), so it goes up to a second before it; a
  confirmation in between is told that the request has expired (`:457`), and ends
  the operation.
- An offer made again after an update inherits the first offer's deadline
  (`:835` sets it only when it is `None`, and `update_parameters` does not
  reset it), which may be near or over: the offer then ends at once.
- A crash in `DRAFT`, `RESOLVING_ENTITIES` or `VALIDATING` leaves a row no scan
  selects, and a retry with the same request id returns it as it is (`:97-110`).
- Two redemptions of base holdings without changes may wait for each other's
  gaps; InnoDB fails one of them, and the tool reports that as a failure, though
  a second attempt would succeed.
- Two first purchases of one product by one customer may each open a holding
  (`_purchase_holding_no` looks in the snapshot, too). Shares are rounded down
  and money half up, so many small redemptions can pay more than one.

*Events.*
- An error of the Redis connection outside the handler's `try` ends the
  subscriber, and nothing starts it again while the process lives
  (`event_subscriber.py:34`).
- An event rejected as a duplicate may never have been applied: the first
  handler may have failed, and within its lease the copy is answered with a
  rejection (`operation_service.py:690`).
- Profile events go to a publisher built without a client and never reach Redis.
- The risk router opens a Redis connection manager of its own, which no shutdown
  closes (`api/risk/monitor_router.py:69`).
- `redis_published` may be false although the `PUBLISH` reached the channel,
  when a later command of the same call failed.

- `flush_pending` ends at the first row it cannot send (`:126`): a row that can
  never be sent would keep all later ones from the stream.

*Profiles.*
- A reader that loaded the row before a commit and stores its copy after the
  deletion leaves a stale copy for up to seven days, each read extending it:
  `StaleCopyIsExplained` says when, `CacheWasCommitted` how wrong it can be.
- Where writing transactions overlap, a level computed from an older assessment
  can be the one that stays, and an update of lower confidence can win, since each
  decides by its own snapshot.

*Knowledge.*
- Two uploads of a new file at once make two active documents.
- An update merges an item read in another session (`dao/mysql/knowledge.py:82`)
  and puts back every column that changed meanwhile: a title edited during a
  deletion makes the document active again, without vectors.
- Setting the status to expired by hand and deleting afterwards leaves the
  vectors, since a deletion of an expired document returns at once
  (`service/knowledge.py:177`).
- A search takes its best hits before it drops those of inactive documents
  (`:217`), so that it may show fewer than there are.

## 5. Proofs

For every number of handlers, monitors, versions, deadlines and faults and every
set of parameters (`ConstantsAssumption`); of sessions, operations, customers
and amounts (`RepositoryAssumption`); of replicas, boots, events, leases and
failures (`LifecycleAssumption`, `DeliveryAssumption`); of calls, transactions,
errors and cancellations (`MonitorAssumption`); of requests, kinds of requests
and failures (`ProfileAssumption`); of calls, documents, hits, failures and
cancellations (`KnowledgeAssumption`); with no fairness. Every invariant and
action property that a passing run checks is a theorem; `RowMovesForward`,
`FalseFailureHasCause`, `AnswersAreOwn`, `RowLevelIsCautious` and the two about
scores say more than any run asks:

| Module | Theorem | States |
|---|---|---|
| `OperationServiceProofs` | `Invariance` | `Spec => []IInv` |
| | `TypeCorrect` | `[]TypeOK` |
| | `Approval` | `[]ExecutedIsApproved` |
| | `Confirmation` | `[]ExecutedIsConfirmed` |
| | `Effect` | `[]EffectMatchesOperation` |
| | `ReportedEffect` | `[]SucceededHasEffect` |
| | `SingleAttempt` | `[]OneVersionExecutes` |
| | `ReviewIsCurrent` | `[]CurrentReviewIsCurrent` |
| | `Implementation` | `ImplementsLifecycle`, the refinement |
| | `RowMovesForward` | `[][RowMoves]_vars`: what a single step may do to the row |
| `OperationRaceProofs` | `OneResult` | `[]OneResultPerReview` |
| | `OfferHasKey` | `[]OpenOfferHasKey`: until the last two seconds before the deadline |
| | `FalseFailureHasCause` | failed with an effect only after a fault or with the loop |
| `OperationLifecycleProofs` | `LifecycleAuthorised` | the abstract life cycle authorises what runs |
| `BusinessRepositoryProofs` | `Once` | `[]EffectOnce` |
| | `NoCircleOfRows` | `[]CircleHasInsertion`: rows alone make no circle of waits |
| | `NeverOverdrawn` | `[]NoOverdraft` |
| | `BalancesAreSums` | `[]BooksBalance` |
| | `LedgerImplemented` | `ImplementsLedger`, the refinement |
| `EventDeliveryProofs` | `TypeCorrect` | `[]TypeOK` |
| | `ReplicasCloseAll` | `[]NothingLeaks` |
| | `TasksAreConnected` | `[]TasksHaveConnections` |
| | `LeasesExclude` | `[]LeaseIsExclusive` |
| | `EffectsAreLeasesApart` | `[]EffectsAreSpaced` |
| | `CompletedHadEffect` | `[]CompletedWasApplied` |
| | `SentWasStreamed` | `[]SentIsOnStream` |
| | `CopiesBounded` | `[]CopiesAreBounded` |
| `RiskMonitorProofs` | `SeriousAlertsAreMarked` | `[]MarkedWhenAnnounced` |
| | `AnswersAreOwn` | `[]AnswerIsItsOwn`: a reported publication is the call's own |
| | `OneClientIsOpened` | `[]OneClient` |
| | `SessionsKeepColumns` | `ColumnsKept`, an action property |
| `ProfileServiceProofs` | `CopiesWereCommitted` | `[]CacheWasCommitted` |
| | `StaleCopiesExplained` | `[]StaleCopyIsExplained` |
| | `CreationsAreOnce` | `[]CreatedOnce` |
| | `AuditsMatchTheRow` | `[]AuditMatchesRow` |
| | `ChecksAreSuitable` | `[]NeverUnsuitable` |
| | `RowLevelIsCautious` | `[]RowIsCautious`: no stored level above the last assessment's |
| | `MoreCautiousLevelWins` | range of scores and levels, for all facts and answers |
| | `LowerScoreIsNoHigherLevel` | levels and restrictions are monotone in the answers |
| `KnowledgeServiceProofs` | `KnowledgeInvariant` | `[]KnowledgeInv` |
| | `StoresDoAgree` | `[]StoresAgree` |
| | `AnswersWerePublished` | `[]ShownWasPublished` |

TLC checked each inductive invariant on an instance, the instance of a run
(`AloneInv` on that of `execute` without the loop), with unbounded quantifiers
left out.

*Of `OperationService`.* Since the compare-and-set writes a whole, possibly stale,
record, an invariant of the row alone is not inductive. `IInv` therefore speaks
of every record, the row's and each task's:

- `RecordsBacked`: what a record claims by its status is backed by tables that
  only grow. "approved" is backed by `approvals`, "confirmed" by `consents` and
  `confirmations`, a version by its row, a request id by its review. A write of
  such a record is harmless however stale it is.
- `ReviewsBacked`: a review shows the parameters of the version it names.
- `ControlOK`: what a task knows at the call it makes next (for instance, at
  `commitConfirm` the row of the confirmation was written).
- `Agreement`: once the operation is dispatched, all records of that stage carry
  the row's version and parameters. This is where the comparison of the status
  is needed: a record from before the dispatch can no longer be written.
- `OneVersionExecutes`, `SucceededHasEffect`, `TypeOK`.

Lemma `Frame` says what a step of one task leaves to the others (`OthersKept`,
`Grows`); each action then has a lemma of its own.

*Of the races.* Two more inductive invariants stand on `IInv`. `ResultInv`: a
result that took effect is spent, that is, the row does not await it and never
will, because it comes to a review with no request id (`Permit`) and gets one no
result has named (`RequestReview`). So a copy that passed the look at
`processed_events` in time fails at the compare-and-set, and the unique event id
is never violated. `OfferInv`: one task at most works on a draft, and the row
waits for it (`DraftHeld`); other records are not ahead of the row in the order
of statuses of their version (`Behind`, `Stage`), and a record the row would
take has the row's deadline (`SameDeadline`), except in a task about to offer.
So a key is only ever replaced by one computed from the same deadline, and
deletions happen in a draft or when no offer can follow (`Past`). What remains is
the time to live, which ends after `DeadlineNears` only; hence the condition on
`deadlinesNear`: with `deadlinesLapsed` TLC finds an open offer without its key.

`AloneInv` explains finding 1. While there is no fault and no loop, one task at
most has taken the operation over (`Executing`), since the row must be approved
or confirmed for the transition to EXECUTING and `Agreement` leaves no
dispatched record beside such a row; a failure it is about to report is not
overtaken by anyone's success. So an operation reported as failed whose effect
was had has met a fault or the loop, which executes what a handler has taken
over. The proof does not use the lock: that it outlives its hour of life or not
makes no difference to handlers.

*Of single steps.* `RowMoves` says of each step of each task that the row moves
along the table of allowed transitions, that a terminal row is not written
again, that versions do not go back, that parameters change in drafts only and
that a recorded execution is never recorded differently. It needs `IInv`, for
what is written is a record read long before: `WrittenMoves` gets its version
from the comparison and its parameters from `RecordsBacked`.

*Of the refinement.* A step is to be one of the life cycle's or to leave it
alone. The compare-and-set compares status and version, and the life cycle also
speaks of parameters: lemma `Written` gets them from `RecordsBacked`, since a
record with the row's status and version has the row's parameters once these
are stored as a version. That is why drafts promise nothing about parameters
(`Revise`) and everything after them does. A success needs `ControlOK` and
`Agreement`: the effect a task saw has the subject of the row.

*Of `BusinessRepository`.* `EffectOnce` needs `KeyHeld`: a session that has
inserted its execution row works on an operation without an outcome, and no
other session works on it, because the insertion waits for the unique key. It
says nothing of the look at the row before, which a stale answer could pass.
`CircleHasInsertion` needs a ranking of all rows: the first changes of purchased
holdings, then accounts by number, then base holdings. Every plan rises in it
(`PlanRises`), so among sessions that wait for rows only, the one that waits for
the row of the highest rank would wait for a session that waits for a higher
one. A circle therefore has an insertion in it. Insertions into gaps do make
circles, of two redemptions whose searches share a gap; these are no violation
of the lock order, and the theorem does not exclude them. The assumption that
numbers have the same length makes their order as strings that of numbers.

`NoOverdraft` and `BooksBalance` are proved together (`MoneyInv`). Reads at
REPEATABLE READ are the danger: a session computes the new balance from the
account it has read and writes it back as a value. `ReadsHold` says why this
loses nothing: no two sessions hold the same row, and what a session has seen of
an account whose lock it holds is what is committed, because one `FOR UPDATE`
locks it and fills `seen`. A commit moves the balances of accounts its
session holds by what its one entry moves (`BalanceStep`). The sum over the
entries is a recursive function (`Total`); that it exists, is a number and
grows by the last entry (`TotalExists`, `TotalType`, `TotalStep`) is proved by
induction, as minimality in the well-founded order of the naturals
(`Induction`), since the library's rule of induction is out of the provers'
reach. No such argument bounds the shares of a holding: they are read from the
snapshot, and `over_redemption` shows what happens.

The refinement of `Ledger` puts the two arguments together: `KeyHeld` says that
a session that commits works on an operation without an outcome, `ReadsHold`
that what it has compared is the balance of that moment (`CommitCarriesOut`). A
failure may be recorded long after it happened, when another session has
executed the operation; then the row is left alone and the step is invisible
(`FailureRefuses`).

*Of `EventDelivery`.* `DeliveryInv` has four parts. `LifecycleInv` says for each
phase what is open and that no task is alive outside of `serving` and the waits
for it, so `NothingLeaks` and `TasksHaveConnections` can be read off. `Shape`
are types, with what the locals of a coroutine point to. `ControlInv` counts:
grants of an event times the lease never exceed the end of its last claim, and
that is at most `now + Lease`; effects and handlers about to have one are at
most the grants. An owner's lease ends with the claim's or before, so two owners
would be the same grant. `StreamInv` says that whoever is about to mark a row
has added it to the stream; rows only grow, so a stale batch does no harm.

`CopiesAreBounded` says what is the price of at-least-once. Its invariant
`CopiesInv` is a budget: `Covered(i)` says that the copies of row i, the one its
publisher still owes (`Owed`), and one for each loop that may yet publish it
(`Ready`) are within one, plus the loops that were up at first, plus boots, plus
failures. A row is stored with its publisher's copy owed and at most all living
loops ready (`NewRowCovered`); publishing turns what was owed or ready into a
copy (`CopyAdded`); a loop comes to life by a boot only, and is ready for a row
again only after a failure, and both raise the budget (`EndsPaid`). That a
stored row is one publisher's alone (`OneRows`) makes the owed copy one.

*Of `RiskMonitor`.* `AlertInv` must know the columns a session is about to write
(`TaskOK`): that a mark writes `broadcasted` alone and an officer's session at
most `status` is why neither undoes the other. Announcement is history
(`announced`), since the bus in memory does not outlive a crash. `ClientInv`
says that the call that pings holds the lock and no other does; every client
beyond the first belongs to a call that was stopped. `ReportOK` ties a report to
the call's own step, with which the shared note was written and read in one
step.

*Of `ProfileService`.* `CopyInv`: snapshots, loaded copies and the cache are all
among the committed rows. `EvaluationInv`: what a request inserted is
uncommitted until its commit, and at `commit` no committed evaluation has its
trigger (the unique key makes insertions wait for the row lock's holder, who is
alone there). `AuditInv`: who holds the row lock inserted the last audit, so that
commits of audits happen in the order of the table, and the row it will commit
differs from the committed one in that audit's fields only (`HolderOK`,
`FieldOK`). `StaleCopyIsExplained` is inductive together with these.

`NeverUnsuitable` compares a check's answer with scores computed anew, so its
invariant `SuitabilityInv` says what the tables would be if scored now
(`Apart`, while no two writing transactions were open at once): the last
evaluation is the result for the facts stated last and the last assessment, the
row has its effective level, and without an evaluation the level of the last
assessment (`StoredOK`); and the one transaction that is open will leave it so
(`WriterOK`, by kind of request: `CreateOK`, `SubmitOK`, `UpdateOK`). That proof
uses nothing of the score functions but that they are functions of what they
are given.

The scores have theorems of their own, about `ScoreEngine` and for all facts
and answers, of which TLC tries a few. `MoreCautiousLevelWins`: the bands cover
every value, each dimension stays within its quarter, the total within 0 and 100
points; the effective level is never above the recorded one nor the model's, and
low capacity caps the class of products. `LowerScoreIsNoHigherLevel`: a lower
score of the questionnaire never raises the level or that class, though it
enters twice, by the recorded level and by the dimension of tolerance, which is
rounded and capped. With `SuitabilityInv` the first gives `RowLevelIsCautious`:
the level in the row is not above the last committed assessment's, while no two
writing transactions were open at once. That condition is needed: a creation that
scored an older assessment may commit after a newer one, and TLC shows the row
above the assessment then.

*Of `KnowledgeService`.* `KnowledgeInv` speaks of the documents that are not
`excused` (`Documented`). One call at most is at work on such a document
(`Agrees`), so the row it has read is the row, and `WorkOK` says for each step
what is in Milvus: nothing from the deletion of the old vectors to the
insertion, then the call's own, in the collection the row names; the row is a
draft all the while, and a call that fails in between takes back what it
inserted, or the document is excused. `FoundOK` is what makes a search safe that
reads vectors first and rows later: a vector in a collection or already among
the hits of some search is of an upload that was once active, or its document
is not active and only the call that inserted it can make it so.

**Assumptions worth naming.** Numbers of accounts have the same length, so that
their order as strings is that of numbers (`LastNumber`). No creation names the
number of a later assessment as its trigger (`ProfileAssumption`), since the
server draws these at random. Replicas are finitely many
(`DeliveryAssumption`). Everything else is typing of constants.

**Only model-checked.** The liveness properties: `ApprovedGoesOn`,
`ConfirmedGoesOn`, `OfferEnds`, `ExecutionSettles`, `RequestedReviewEnds`,
`ShutdownEnds`, `OutboxDrains`. The prover has no rules for fairness and ENABLED
here. The two violations are TLC's as well.

## 6. Plan

Done, in the order of what decides about money first: operation service and its
abstract life cycle; business repository and its ledger; events with the
processes that carry them; profiles; monitoring; knowledge. What is left, in
this order:

1. `BusinessRepository`: rounding of shares and money as operators.
2. The crash between a transition and its follow-up as an action of its own in
   `OperationService` with two replicas, to state which operations an operator
   of the system must look for by hand.
3. Proofs: action properties of `EventDelivery` and `ProfileService` (what a step
   may do to a sent row, to a committed audit). The score of a sheet of answers
   and the confidences of `RiskRules` are sums over data; what they are for all
   inputs needs an induction the provers do not have.

## 7. Not modelled

- **Session memory.** Two exchanges appended at once may trim the list twice and
  drop an exchange more than necessary; the code promises no minimum, so there
  is no property to state, and the archive in MySQL keeps both.
- **Agents** are sequential pipelines around calls of a language model and
  change state only through the services above; the analyst's cache of answers
  has a time to live and no invalidation to get wrong. **LLM client**: a remote
  call with retries, without state.
- **Advisor**: reads tables and ranks products; it writes nothing.
- **Tools** (parsing, embedding, SQL generation, graph queries): text in, text
  out.
- **Authentication, permissions, views**: pure functions; their refusals appear
  as failed requests.
- **Repositories in memory**, which the tests use, the product query, and
  rounding of shares and money. **Locks of InnoDB** other than those of rows,
  gaps of the changes' index and unique keys: the shared lock that a failed
  insertion leaves on a duplicate key matters to three sessions on one operation
  only, and its outcome, one of them fails, is that of `Break`. Texts, hashes,
  amounts and times are abstracted as said in section 2.
- **Subscribers lost for good**: `SubscriberBreaks` is modelled, but no property
  says that control events arrive, since pub/sub does not promise it; the
  maintenance loop's deadlines are what an operation relies on
  (`RequestedReviewEnds`).
