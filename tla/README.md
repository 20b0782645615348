# TLA+ verification of the continual research bot

The bot keeps research topics in a SQLite ledger, queues research runs about
them, executes each run through an external Codex runtime, and writes what a
run found to a canonical graph. Several processes work on the same ledger at the
same time: queue workers, worker loops, scheduled and interactive runs, and the
operator's commands. Nothing but the ledger synchronises them, so most of what
can go wrong is an order of database statements that no test runs. That is what
the modules here are about.

All paths below are relative to `src/codex_continual_research_bot/` unless they
name a document.

## 1. Inventory

| Part | Code | State | Operations | What is hard |
|---|---|---|---|---|
| Run ledger | `persistence/ledger.py` | `queue_items`, `idempotency_keys`, `runs`, `interactive_run_reports`, `canonical_graph_writes` | reserve, enqueue, claim, retry, complete, dead-letter, recover, transition, record report and graph | a claim spans three tables; some operations check an owner and some do not; `connect()` is in autocommit mode, so only the operations that say `BEGIN IMMEDIATE` are transactions |
| Orchestrator | `orchestrator.py` | none (`runs.status`) | `start_queued_run`, `resume_run`, `RunStateMachine.transition`, the competition gate | read-then-compare-and-set transitions, run status after a failure |
| Queue worker | `queue_worker.py` | none | `execute_next`, `execute_item`, `_nack`, `_dead_letter` | duplicate deliveries, decisions on rows read before the write, exceptions that escape |
| Run executors | `worker_loop.py` | none | the fixture and the Codex `execute_item` | idempotency by report, artifacts in two statements, five kinds of error exits |
| Worker loop | `worker_loop.py`, `persistence/ledger.py` | `worker_loops`, `worker_loop_iterations` | `run`, `stop`, `status`; acquire, heartbeat, append, stop | a lease with a time to live, takeover, operator stop from another process |
| Operator controls | `operational.py` | `operation_audit_events`, `operator_alerts` | stale-claim recovery, dead-letter recovery, repair job, alerts, replay, dashboards | a claim is stale by age, its worker may only be slow; repairs and alerts are audited in a transaction of their own |
| Command line | `cli_backend.py`, `cli.py`, `cli_contracts.py` | topics, snapshots | run requests, queue and worker commands | reserve and enqueue are two transactions; `run resume` shares a run id |
| Interactive runs | `interactive.py` | none | `trigger_run` | the same two transactions, duplicate requests that resume a run, an item in the common queue before its request claims it, exceptions that escape |
| Scheduled runs | `scheduled.py` | `scheduler_policies` | enqueue a batch of refreshes; preflight, run, retry, dead-letter | a batch is given up at the first topic another service reserved; health check, lease, run and settlement in sequence |
| Scheduler policy | `scheduler.py` | none | score, eligibility, order, limit | weights, caps and a threshold decide which topic waits |
| Sessions | `session_manager.py`, `session_lease_store.py`, `session_healthcheck_job.py` | `session_ledger`, `session_leases` | bootstrap, inspection, lease, release | validate-then-acquire, leases outlived by their holder, the lease counter |
| Codex runtime | `runtime.py` | `run_events`, artifact files, a child process | `execute`, the launcher's loop, the line handler, repair attempts | two executions of one run on one log, a pipe read through a buffer, a deadline beside a blocking read, budgets across attempts, exceptions while the child runs |
| Proposal screening | `output_validation.py`, `orchestrator.py` | none | the validator with its repairable violations, the competition gate | two screens that know different sets of hypotheses, for proposals that pass one or both |
| Graph canonicalization | `graph_canonicalization.py` | none (aliases and the graph while it runs) | `canonicalize` | five loops over lists whose ids may repeat or be missing; nodes replaced under edges; versions numbered after another hypothesis |
| Tool policy | `tools.py` | none | predicates | pure functions |
| Views | `web.py`, `web_graph_explorer.py`, `graph_visualization.py`, `ux_contracts.py`, `failure_analysis.py` | none | read models | nothing concurrent |

How the parts meet: producers (command line, interactive and scheduled runs)
reserve an idempotency key and enqueue an item under it. A worker takes a queued
item, and the orchestrator claims it and creates its run in one transaction,
then moves the run through its life cycle to `codex_executing`. The runtime
produces a proposal, the competition gate and the canonicalizer accept or refuse
it, the graph write and the report are stored, and the item is completed,
requeued or dead-lettered. The operator takes items out of `dead_letter` or out
of claims that look stale. A worker loop wraps this in a lease per topic and a
stop policy.

What makes each part correct: a run and a key belong to one item and stay with
it; a claim is somebody's; a settled item stays settled; an item that is
`completed` was stored; every item is settled sometime; a loop is alone on its
topic and within its policy; a reserved key has its job; what was done is
audited; no topic waits for one that is better off; an event log is one
execution's at a time; a graph is whole and contests what it claims to contest.
The hazards that could break these are listed with their lines in `PROJECT.json`.

## 2. Modules

| Module | Models | Extends |
|---|---|---|
| `RunLedger` | the five tables and every operation on them; `LedgerSpec` lets anyone call anything | |
| `Orchestrator` | `start_queued_run`, `resume_run`, `RunStateMachine.transition` as steps of processes | `RunLedger` |
| `Environment` | producers, passing time, the operator's recoveries, crashes | `Orchestrator` |
| `QueueWorker` | `queue_worker.py` | `Environment` |
| `LoopExecutor` | the executors of `worker_loop.py` and the loop's handling of their exceptions | `Environment` |
| `SessionLease` | the session record and its lease: inspections, revocation, acquire, release, expiry | |
| `ScheduledRun` | `execute_next` and `execute_item` of `scheduled.py` | `Environment`, `SessionLease` |
| `InteractiveTrigger` | `trigger_run` of `interactive.py` | `Environment` |
| `Drivers` | queue workers, worker loops, interactive requests and the operator's recoveries on one ledger | `Environment`; instances of `QueueWorker`, `LoopExecutor`, `InteractiveTrigger`, `JobLifecycle` |
| `JobLifecycle` | abstract: what the queue promises about a job | |
| `SchedulerPolicy` | `scheduler.py` as operators on candidates | |
| `Producers` | run requests, repair jobs, alerts and scheduled batches: reserve, enqueue, audit | `SchedulerPolicy` |
| `WorkerLoop` | `WorkerLoopService` and the worker-loop operations of the ledger | |
| `ExecLauncher` | the Codex child, its pipe, the launcher's buffered reader and deadline | |
| `RuntimeEvents` | `CodexRuntimeCoordinator.execute`: several executions on the event log of one run | `ExecLauncher` |
| `Proposal` | bundles, the validator's and the gate's predicates, the bundle that the loop's own executor writes | |
| `Canonicalizer` | validator, gate and `CanonicalGraphService.canonicalize`, one element of a list per step | `Proposal` |
| `RunLedgerProofs` | theorems about the ledger, lemmas about the steps of the orchestrator | `Orchestrator` |
| `QueueWorkerProofs`, `ScheduledRunProofs`, `DriversProofs` | theorems about the ledger's clients | the module they are about, `RunLedgerProofs` |
| `WorkerLoopProofs`, `RuntimeEventsProofs`, `CanonicalizerProofs`, `ProducersProofs` | theorems | the module they are about |
| `MC*` | instances for TLC | the module they instantiate |

`RunLedger` is the abstract specification of its clients: `LedgerSpec` is a
property, and a theorem, of `ScheduledRun` and of `Drivers` with its queue
workers, loops and interactive requests (they share its variables, so the
refinement mapping is the identity), and a theorem about `QueueWorker`. What is proved of `LedgerSpec`,
`ArtifactInv` and `RecordsStay` among it, holds of them.

`JobLifecycle` is the abstract specification one level up: what someone who
submitted a job may rely on. A job is accepted, done or failed; its result is
stored at most once and announced at most once, success only after it is stored;
no job is done without an announcement; and a job that is over stays over but
for the operator. `Drivers!Job` maps `phase` to the item's state (`queued` and
`claimed` are both `accepted`), `stored` to the graph writes and `announced` to
the reports of the item's run, `interventions` to the recoveries, and `silent` to
the presence of a queue worker, whose handler need not report. `JobSpec`, checked
with crashes and the operator and proved for any fleet, says that the drivers
implement it.

### State and code

`item[q]` is a row of `queue_items`: `state`, `claimed_by` (`by`), `attempts`,
`available_at <= now` (`available`), and whether `claimed_at` is past the stale
threshold (`age`). `run[r]` is a row of `runs` (`item = None` means no row),
`link[q]` the `run_id` of the item's idempotency key, `report[r]` the status of
its report, and `graph` the runs with a graph write. `queue_items.idempotency_key`
is UNIQUE, so the key needs no name of its own.

One action is one database transaction. Where the code runs several statements
on an autocommit connection (`record_interactive_run_success`), each statement is
an action. A read that a later write depends on is a step of its own: `NackRead`
and `Requeue`, `DeadLetterRead` and `DeadLetterClaimed`/`DeadLetterUnclaimed`,
`ReadRunState` and `SetRunState`. `claim_queue_item_for_run` is five operators for
its five results: a new run, an existing run, a claim returned without taking
one (`ClaimPasses`), `None`, and the two exceptions.

A process has a program counter `pc[p]` and locals `loc[p]`. `Orchestrator` gives
the labels between `claim` and `started` or `raised`; a client adds its own.
Exceptions are values of `loc[p].exc` and are told apart exactly as the `except`
clauses do.

In `WorkerLoop`, `loops[l]` is a row of `worker_loops`, `iterations[l]` the
iteration numbers of its rows in `worker_loop_iterations`, and `now` a clock that
may advance between any two steps. An execution of an item is one step with the
outcomes that the stop policy distinguishes; `LoopExecutor` opens that step up.

`SessionLease` keeps one session: `session` is its row in `session_ledger`
(`inactive` is any state but `active`), `lease` its row in `session_leases`.
`ScheduledRun` takes the two apart where the code does: the record is
validated (`Validate`) and the lease taken (`Lease`) in two steps, and the
`finally` clause of `execute_item` (`Release`) ends every path under the lease.
A process is the holder of its lease even when services share a worker id,
because a lease id also holds the second it was taken in.

`RuntimeEvents` is a level below: what the executors see as one step with an
outcome is here an execution `e` with a label `pc[e]`, its counters `loc[e]`, its
child `child[e]`, and the rows of `run_events` of one run, `log`, by `seq`. Each
append is an action that fails if the number is taken (the table's primary key),
and the exception leaves `execute` through the launcher, whose `except` clause
kills the child (`Raise`). `ExecLauncher` counts lines where they are: in the pipe, which
the selector sees, or in the reader's buffer, which it does not; `partial` says
that the last line is unfinished and where its first part is. `message[k]` is who
last wrote the final message file of repair attempt `k`: the file is named by run
and attempt, and nothing removes it before another execution of the run.

`Producers` names a job by its idempotency key, which is UNIQUE in
`queue_items`: `job[k]` is its row, reduced to absent, queued, completed or dead,
with the failure code and the objective that repairs and deferrals look at.
`keys`, `alerts` and `audits` are `idempotency_keys`, `operator_alerts` and
`operation_audit_events`. Each producer is a process with one step per
transaction (`LookUp`, `Reserve`, `Enqueue`, `RecordAlert`, `Audit`); a scheduled
service takes the topics of its batch one by one, in order. The executions of
jobs are one step here (`Execute`): `Drivers` and `ScheduledRun` open them up.
`cut` records where crashes cut a producer short, and `deployed` is the fleet with
the candidates that each service is called with; neither is state of the code.

`Canonicalizer` follows one proposal: `stage` is the screen or the loop it is in,
`at` the index of that loop, and `evidenceOf`, `claimOf` and `versionOf` are
`evidence_aliases`, `claim_aliases` and `hypothesis_nodes`. A node is what its
canonical id is made of, so that replacing a node by one of the same id changes
`marked` (the nodes with `is_current_best`) only. It starts at `validate` or, as
for the fixture's proposals, at `gate`. Proposals are sequences, since order and
repetition matter: the gate reads the last claim of an id, the canonicalizer
takes each in turn.

### What is abstracted

Outside `Proposal` and `Canonicalizer`: snapshots, proposals, and whether they are
acceptable. Everywhere: payloads, prompts, priorities, failure texts, audit and
session events, and `lease_count`, which nothing reads. Whether a snapshot, an input, a proposal or a graph is acceptable is a
nondeterministic choice at the place where the code decides it. The order in
which items are fetched (`priority`, `available_at`) is a choice too.
In `SchedulerPolicy`, `next_run_after <= now` is a flag of the candidate and the
imbalance is counted in twentieths, the unit of its weight; topic ids are numbers,
for their order. In `Producers`, candidates, and that an alert's threshold is
reached, are given by the caller, as in the code. Repair jobs are not
executed there (a queue worker would, with the handler it is given, as any job),
and nobody repairs a repair.
In `Proposal`, texts are reduced to two facts: whether a temporal scope matches the
pattern that validator and canonicalizer share, and whether a citation placeholder
occurs. The Codex runtime, the session inspector and the canonicalizer are external to
`LoopExecutor`, `InteractiveTrigger` and `ScheduledRun`: each ends with any outcome the code
distinguishes (`RuntimeEvents` says which, but is not composed with them). A handler given to `QueueWorker`
returns, or raises a retryable or a terminal error; no handler of the repository
raises `QueueMutationMismatchError`, which would escape.

## 3. Runs

| Run | Result | Shows |
|---|---|---|
| `MCQueueWorker` | pass | a polling worker and duplicate deliveries of its item under any run id, a crash, a recovery: runs and keys point at each other, a claim has a claimant and a run, no stranded claim, the retry budget, no handler under a second run id, runs follow the table |
| `MCDrivers` | pass | every pair of a queue worker, a worker loop and an interactive request on one item, one worker on two items, loops with a crash and the operator: workers and loops strand no claim, a completed run is stored in full, the ledger specification and the abstract life of a job are implemented, every queued item is settled |
| `MCScheduledRun` | pass | two services, one session: the lease is given back on every path, a service executes as its holder and loses it only after it expired, a completed run is stored in full, the ledger specification implemented |
| `MCWorkerLoop` | pass | takeovers, items that outlast the lease, a crash, the operator's stop: of two loops that execute together one was stopped by the operator or taken over a full lease after its last heartbeat; iterations are counted, the policy is kept, every `run()` ends |
| `MCRuntime` | pass | two executions of one run, children that write, hang, fail or succeed as they like, a repair attempt, a crash: an event log without gaps or interleaving, budgets over all attempts, no line lost when an output is accepted, no child left running, every failure recorded, every execution ended |
| `MCCanonicalizer` | pass | 41,000 proposals, screened and unscreened: no edge dangles, a written graph contests every current best with evidence, a screened proposal is refused for one reason only, the mark of the current best moves to its own versions only |
| `MCProducers` | pass | two producers of each kind, the execution of their jobs, a crash, passing seconds: no key without its job, nothing done without its audit; two services make up one batch; every two of nine sorts of candidates: no topic is passed over for a better-off one |
| `MCQueueWorkerSameRun` | violation | two workers handle one item when both use its requested run id |
| `MCLoopExecutorRetry` | violation | an item requeued after a transient error cannot start again |
| `MCLoopExecutorAtomicity` | violation | a crash leaves a graph write without its report |
| `MCScheduledRunLateReject` | violation | a service without a lease requeues an item that another one has settled |
| `MCRuntimeStaleMessage` | violation | an execution accepts the final message of an earlier execution of the run |

The violations are disagreements between the code and its documents or tests;
`PROJECT.json` quotes the line each one contradicts. Where possible a passing run
says under which condition the promise does hold: `OneRunHandled` (two handlers
at an item share its run id) beside `SingleHandler`, and `JobSpec` and the
theorem `WorkerSettlesForGood` of the other drivers, whose requeues name their
owner, beside `SettledStays` of the scheduled service, whose deferral does not.

`EveryItemSettles` has three ways out besides a settled item. `ARunIsTaken`: two
items can ask for one run id (`run resume` enqueues under the run's id), and then
the one that comes second is requeued, or polled, for ever and can starve the
others. `LeftByTrigger`: `trigger_run` catches runtime errors and refused
transitions only, so a bad snapshot found after the claim, a conflict of
artifacts or a lost claim leaves the item claimed until the operator comes. The
third is a crash. What the property says is that the drivers' different ways to
handle a failed attempt (a back-off, a requeue at once, one attempt only) never
pass an item around for ever.

Not excluded either: a caller that repeats a request while the first one executes
resumes the same run. The slower execution finds a transition refused, fails the
run and may be the first to write its report, as quarantined, although the faster
one has stored its graph. `CompletedRunIsPersisted` holds in the other direction.

`JobSpec` asks for a report of any status before an item is done: an item that
the operator recovers after a quarantine is completed on the strength of the
quarantine report. Beside a queue worker it asks for none.

`ExecutesUnderLease` is about the lease of the session, also after one has expired: a
service that runs longer than its lease (900 s by default) shares the session
with the next holder, whose lease its own late release leaves alone. It does not say
that the session is still active: nothing re-reads the record once the lease is
taken.

`LeaseExcludes` is not the mutual exclusion of loops, which the code does not
provide. The lease lasts 120 s (`worker_loop.py:106`), an item may take 1800 s
(`orchestrator.py:169`), and only a heartbeat between two items renews the lease:
the next `worker run` takes the loop over and executes beside the service that
is still at its item, although `ARCH.md:1046` wants no two loops of a topic
to run at the same time. With the exception for `Deprived` left out
and no operator (`MaxStops = 0`), TLC refutes the formula in nine steps. What the lease does provide is that nobody
loses a loop that beat less than a lease ago, however late a competitor comes to
compare the lease with the start it read before; and what the takeover leaves
behind is kept in order by `IterationsAreCounted` (the late service appends to a
row of its own) and ended by `EveryLoopEnds` (its next heartbeat raises).
The operator's stop likewise ends the row at once and the service after its item.

Of the runtime, `LogIsFenced` excepts one event: the failure for a missing final
message, whose number is read anew (`runtime.py:1038`). It may follow the events of another
execution, and that execution's next append is then refused. `FailureIsRecorded`
excepts such a refusal, and system errors (`Popen`, a line that is no text), which
leave `execute` without an event. `EveryExecutionEnds` excepts an execution that
stays in `readline`: a child that writes the first part of a line and hangs keeps
it there past the deadline. `OutputIsOwn` is violated: an execution whose
child writes no final message accepts the file an earlier execution of the run
left (the attempt in the directory's name is never set by a caller).

Of the canonicalizer, `ScreenedIsCanonical` leaves one reason: the validator knows the
hypotheses of the snapshot's current bests and of the proposal's challengers, the
canonicalizer looks predecessors up among current bests and challenger targets.
A revision that supersedes a challenger of the same proposal passes both screens
and is quarantined without a retry. The other way round, the validator refuses for
good a revision that supersedes a challenger target, which the canonicalizer
would take and which the prompt recommends ("the current best or challenger target
under attack", `output_validation.py:84`). `AcceptedIsContested` holds because the
gate refuses: the executor that writes its own proposal argues about the first
current best only (`worker_loop.py:310`), and with two of them none of its
proposals is accepted. `NothingIsPromoted` excepts a challenger that takes the
current best's id: it replaces the node, and no node is marked any more.

Of the producers, `ReservedIsQueued` and `ActedIsAudited` except what a crash cut
off, and nothing in the code makes it good: a key without its job answers every
later request as a duplicate of a job that does not exist (`run start` then shows
no queue item, `trigger_run` raises KeyError), and a repair or an alert that was
not audited is not audited later. `audits` is a set, so `ActedIsAudited` says that
an act has its audit event, not that it has one only. `BatchIsQueued` is about services that are
called with one list. With two lists, each service gives up its own rest at the
topic they share, and those topics wait for the next call; so they do when the
operator takes back, in between, the dead letter that deferred a topic.
`SelectionFollowsPressure` compares topics one of which is worse off in every
respect; for others the weights decide. Not promised at all: that a call enqueues
something. The limit is applied before stagnant topics and repeated failures are
deferred, and stagnation raises the score, so that as many deferred topics as the
limit keep all others out.

Weaker than one might expect, because the code allows it: `JobLifecycle` lets
a job that is done be given up. Both `_dead_letter` in the queue worker, which
decides on a row read before its write, and the loop's last resort, which writes
without an owner, can do that to an item another process completed.
`RunsFollowTable` excepts the step that dead-letters the item, which sets the
run's status from any state.

### Bounds

- `MCQueueWorker` has one item, two runs and two processes: a poller, and a
  caller that delivers the item again under any run id. Its conflicts are between
  two deliveries of an item. Items meet only in a shared run id and in a
  worker's choice of what to poll, which `MCDrivers` checks with two items.
- `MCDrivers` chooses one of eight deployments (`Fleets`) in its initial state. Six
  are unattended: each pair of drivers on an item, two loops and two requests among
  them, and one worker with two items. The trigger beside a loop may crash, so
  that a reserved key, a queued item or a claim of a dead request meets a poller. In
  the other two the operator acts: every recovery beside one loop that may
  crash, so that each life of it runs on what the other left, and the requeue of a
  claim that only looks stale beside two loops. Three drivers at once are not checked.
- `MCProducers` chooses one of ninety deployments: two requesters, a requester and
  an operator, two monitors, two services with equal or different lists of three
  topics, one or two seconds with executions and repairs in between, and one
  service with every two of nine sorts of candidates. The sorts reach every cap, the
  threshold from both sides, a stagnant topic and one without a current best; two
  services suffice, since each topic's key has one winner.
- `MCScheduledRun` has one item, one run and two services with one worker id
  (the default), both on the host `h1`; the session may be bound to `h2`. The
  services are alike, so the run is symmetric in them. A crash and an expiry
  (`MaxExpiries`) let each service meet what the other left behind.
- `AttemptCap` bounds `attempts` in `RunLedger`, whose retries are free. In the
  runs it is 100, which is never reached: the clients stop by themselves.
- `MCCanonicalizer` takes every bundle made of 5 lists of evidence, 4 of claims, 6 of
  arguments, 6 of challengers and 57 of revisions. Between them they repeat ids, leave out
  evidence, claims and hypotheses, put one source under two ids, reuse the ids of
  the current best and of a target, and revise twice in either order. All versions are 1,
  as in every caller; the proofs are for any.
- `MaxAttempts` is the items' `max_attempts`; `MaxRecoveries` and `MaxCrashes`
  bound the operator and the crashes. A recovery or a crash that is not counted
  would only repeat.
- `MaxTime` (2), `MaxStops` and `MaxLoopCrashes` (1 each) bound `WorkerLoop`. A lease
  of one unit, a runtime of two, two iterations and streaks of one are small enough
  that each limit is reached: a loop that has renewed its lease at time 1 blocks a
  competitor that starts then, a loop that has not, or whose item goes on until
  time 2, is taken over while it executes. That the invariants of this run hold
  beyond these bounds, and for longer streaks, is proved.
- `MCRuntime` has two executions whose children write two lines and one: the
  first has enough for two attempts, for two lines taken by one read, or for one
  line and a part. One turn is within the budget and two are beyond it; no tool call
  is. One repair attempt; one crash.
- `CHECK_DEADLOCK FALSE` is said where the system may stop: all items settled,
  all loops ended and the clock at its bound, or a proposal with its verdict.

### Fairness

- A process that is not crashed takes its next step
  (`WF` of `DriverStep` in `Drivers` and of `ServiceStep` in `WorkerLoop`): the
  code never waits for another process, it returns or raises. Executing an item is
  a step, or a few, so this includes that the runtime comes back: a launcher
  blocked in `readline` (see `EveryExecutionEnds`) would hold up `EveryItemSettles` and
  `EveryLoopEnds` as well.
- Pollers poll again (the same `WF`: `execute_next` in its caller's loop, the
  worker loop started again): without it a queued item need not be looked at.
- In `Drivers` this is said of the unattended deployments only (`Unattended`), and
  `EveryItemSettles` is about them: an operator's recovery is one more beginning.
- An execution takes its next step (`WF` of `ExecutionStep` in `RuntimeEvents`),
  which includes that its deadline elapses: `select` waits at most 0.1 s. Nothing is
  assumed of a child, which may hang, in the middle of a line or between lines.
- Back-offs elapse, being dates in the future.
- Nothing is assumed of the operator, of producers, of those who make requests or
  of crashes, and nothing of the outcomes of handlers and runtimes.

## 4. Proofs

All are for any sets of items, runs, workers, processes, services and loops, and
from the constants' assumptions only (`NoneIsNoId`, `AttemptCapIsNat`,
`WorkerOfIsWorker`, `EnvironmentAssumption`, `QueueWorkerAssumption`,
`ScheduledAssumption`, `SessionAssumption`, `DriversAssumption`, `WorkerLoopAssumption`,
`PolicyAssumption`, `ProducersAssumption`, `RuntimeAssumption`, `SnapshotAssumption`,
`CanonicalizerAssumption`; TLC evaluates each in the runs of its module).
Every safety property of a passing run, invariant or step property, has its theorem.

- **`RunLedgerProofs`.** `LedgerInv` (types, links, claims, artifacts) is
  inductive as it stands: the claim invariant needs the links (a new claim's run
  is its item's) and the artifacts need the claims' transactions.
  One lemma per group of operations; `LedgerIsConsistent`, `LedgerLinks`,
  `LedgerClaims`. `LedgerKeepsRecords` is an action property of any step from a
  state with `LedgerInv`.
  The second part is what the clients have in common, processes of the
  orchestrator: `Call` lists the operations a step may make on its own item and
  run, and `CallIsLedgerStep` that each of them is a step of `LedgerSpec`, provided
  that a compare-and-set goes along `STATE_TRANSITIONS`. `TransitionFits` says so
  of the status that a process has read and its goal, and that a process about to
  summarise has stored the result; it survives the steps of others because
  graph writes and reports stay (`OthersKeepTransitionFits`). With it,
  `FinalRunsPersisted` (a run that is `summarizing` or `completed` has its graph
  write and its completed report) is kept by every call (`CallKeepsFinal`) and by
  the operator, who reopens runs as `queued` or `dead_letter` only.
- **`QueueWorkerProofs`.** `WorkerImplementsLedger`: each worker or environment
  step is a ledger step or leaves the ledger alone, so `LedgerInv` holds. The
  types of program counters and locals, and what a process at each label knows
  about its run (`WorkerInv`), are inductive relative to it. `WorkerStrandsNoClaim` adds
  `ClaimsHeld`: every claim has a process of the claimant's id between `status`
  and its settlement; each step that leaves that stretch settles the item or was
  refused because the claim is not its own. `WorkerSettlesForGood` and
  `WorkerFollowsTable` are action properties from the same invariant.
  `WorkerHandlesOneRun` follows from `WorkerInv`: a process that handles an item is
  at the run the item's key is linked to. `WorkerKeepsBudget` assumes that processes
  have ids of their own (`OwnWorkerIds`) and adds `BudgetInv`: a process that is about
  to requeue the claim it holds has read the attempts as they still are. The
  assumption is needed, and nothing in `QueueWorker` enforces it: two workers with
  one id can settle each other's claims, one requeues on attempts it read before the
  other's requeue, and an item with all its attempts used is queued.
- **`ScheduledRunProofs`.** `ServiceInv` adds to the ledger's invariants the types
  of places, locals, session and lease, and `TransitionFits` of each service; from it
  follow `ScheduledImplementsLedger`, `ScheduledTypes` and `ScheduledRunIsPersisted`.
  `LeaseInv` is about the session: the lease is a service's or nobody's; until a
  service crashes its holder is under it, and until it expires whoever is under it
  is its holder (`HoldersAreAlone`). The proof is one question for every step: does
  it take the service under the lease or out of it? Only `Lease` and `Release` do,
  whatever is raised in between. `LeaseCoversExecution` is the step property
  `ExecutesUnderLease`, which holds after an expiry too: a lease is taken only where
  none is in force, and a release names the lease its process took (`StepKeepsLease`).
- **`DriversProofs`.** For any fleet: any number of processes of each kind, items, runs
  and crashes, and any operator. The programs are instances with a copy each of the
  ledger's operations, so that the first lemmas say that the copies are the same
  operations. `DriverCall` refines `Call` by what `JobLifecycle` wants to know: success is
  reported of a run with a graph write, an item is completed when its run has a
  report unless a queue worker does it, and only a claim is requeued.
  `DriversInv` is what a process knows at its place (`Fit`): whose run it has, that
  the report it is about to act on exists (`reclaim`, `settle`), that the result
  is stored (`complete`). One lemma per program shows that its step is a
  `DriverCall` (`WorkerCalls`, `LoopCalls`, `TriggerCalls`), one that it leaves
  itself fit (`*StepFits`), and `OthersStayFit` that nobody else's step spoils
  it, which rests on `RecordsKept` and the links. `DriversImplementLedger` and `DriversPersistRuns`
  follow.
  `DriversHoldClaims` strengthens `PollersStrandNoClaim` to `ClaimsHeld`: the poller that is
  still on a claim also has the item's run, without which it could not settle the claim. A
  step of a poller goes on with its item and run, takes the run from the item's
  key, settles the item, or leaves a claim that is not its own (`Progress`).
  `DriversKeepPromises` is the refinement of `JobLifecycle`. Its mapping looks at
  the run that owns the item; `Linked` replaces that by the item's key, whose row
  is never relinked, and so a call changes what one requester sees at most. The calls
  map to `Accept`, `Store`, `Announce`, `Finish`, `GiveUp` or a stutter, the
  recoveries to `Intervene`: a second graph write or report of a job would need a
  second run, which `LinkInv` excludes.
- **`WorkerLoopProofs`.** `OnlyExpiredLoopsAreTakenOver` proves `LeaseExcludes` for
  any lease and however long items take. The inductive invariant `LeaseInv` says that
  a topic has one running row, that each service between heartbeat and stop works on
  a loop of its own, and that a service in `poll` or `execute` is covered: its row is
  running under the lease of its last heartbeat, or it has been deprived of it.
  The takeover is the step that matters (`AcquireKeepsInv`): a running row that does
  not block has a lease that ended at the competitor's start at the latest, which is
  not later than now, so that its service is deprived at once; time does not
  undo that (`TickKeepsInv`).
  For `IterationsAreCounted` and `LoopBudget`, `CountInv` adds to the types and `OwnLoops` what a place in
  `run()` says of the counters: before the heartbeat they are fresh; in the loop they
  are those of the service's row and below the limits; before the append they are one
  iteration ahead of it, and at a limit only with a reason to stop. A service whose
  loop was stopped or taken over still appends, but to a row that no other service
  writes to.
- **`RuntimeEventsProofs`.** `LogIsContiguous` and `LogIsFenced` are not inductive:
  an append needs to know what is in front of it. `FenceInv` adds that the numbers of
  the log are `0 .. n-1` (`LogIsPrefix`), and for each execution
  `Known`: no number below its own is free and, before the launch and in the loop,
  the event at its number minus one is its own, a line once it has heard its child,
  the validated output before the completion. An append succeeds only if the number
  is free, hence only at the end of the log, behind the execution's own event
  (`AppendExtends`, `AppendKeepsFence`); the appends of others leave `Known` alone
  because events stay (`OthersKeepKnowing`). `RuntimeLeavesNoOrphan`
  needs the types only.
  `BudgetsHold` and `FailureIsRecorded` need `ReportInv`: the lines of an execution in
  the log are as many as it has counted, it is over budget only once it has been found
  out, and what it has written is below its number, so that a number that is taken is
  another's. Every step of an execution is quiet or writes one event (`Quiet`,
  `Writes`). `EveryLineIsRecorded` needs `BalanceInv`: while an execution reads, its
  lines in the log, in hand, in the reader's buffer, in the pipe and unfinished add up
  to those its children wrote, and outside the launcher none is left unread. A
  running child could break that; `NoOrphan` says that there is none.

- **`CanonicalizerProofs`.** For any snapshot, any versions and any set of bundles, with
  lists of any length. `GraphIsAnchored` needs `Links`: every alias and every
  hypothesis with a version has its node, and the snapshot's nodes are never taken
  away. `NoPromotion` extends the mark to the latest node of the first best, which is
  what its next version copies. `AcceptedContests` goes through the loops with
  `Progress` (what has been decided at each stage), `Unrevised` (before the revisions
  a hypothesis of the snapshot has its snapshot version) and `ArgumentsHeld` (an
  argument that has had its turn left its edges). `ScreeningSuffices` adds
  `Screened`: while a valid proposal is worked on, every element that has had its
  turn is resolved, so that of the refusals only the predecessor's can happen.

- **`ProducersProofs`.** `ReservedIsQueued` speaks of keys, and whether `Enqueue`
  may insert depends on who holds one. `KeysInv` adds what a label says of the
  subject in hand, that no two producers are about to insert under one key, and that
  a row has its key. `WorkGoesOn` sums a step up in what it does to keys, rows,
  alerts, audits and to whoever is at `enqueue` or `audit`; `NoKeyWithoutJob`
  and `NoActWithoutAudit` follow from it by one case split each.
  `Outranks` is a strict total order on scores that are sums
  of eight monotone terms, so a topic that is worse off outranks, and what is selected is
  closed upwards. `SelectionFavoursTheWorseOff` adds `TurnInv`: topics of a batch
  have their turn in that order. `OneBatchBetweenServices` needs `BatchInv`: of
  services with one list, once a topic is reserved, every topic before it is
  handled (reserved or deferred), and every topic after it is handled or still ahead of
  a service that is past the reserved one. A service that gives up does so
  at a reserved topic, which it is not past, so that it was nobody's last carrier.

Model-checked only: liveness (`EveryItemSettles`, `EveryLoopEnds`,
`EveryExecutionEnds`), since the prover has no rule for fairness and ENABLED. The
executors of `LoopExecutor` are proved about as part of `Drivers`; the module's own
runs are the two violations. That `Job!Spec` holds of `QueueWorker` alone, and that
`ScheduledRun` keeps it, is not stated: a scheduled service's deferral takes up items
that are settled (the finding of `MCScheduledRunLateReject`), so the latter is false.

## 5. Plan

Done: the ledger, the orchestrator, the queue worker, the executors, the worker
loop, session leases and scheduled execution, interactive requests, the drivers
with the operator, the abstract life of a job, the runtime and its launcher,
proposal screening and the canonical graph, the producers of jobs and the
scheduler's policy, and the proofs above. Next, in this order:

1. A run for the late quarantine report of a repeated request.
2. `JobLifecycle` weakened by a late deferral, as what `ScheduledRun` does keep, and
   the proof that it does.

Left out because nothing in the package calls it: `create_session_record`,
`release_stale_session_leases`, and a release without a lease id. (Bootstrap and
continuity fallback have no caller either, but they are the user's way to a
session, so they are part of the environment.)

Not modelled, and not planned: rendering and read models (`web.py`,
`graph_visualization.py`, `ux_contracts.py`, `cli.py`, dashboards, replay), which
change no state; schema migrations, which run once; path and output parsing
(`credential_locator.py`, `codex_app_server_inspector.py`), pure functions over
text. The executors' modules keep the canonicalizer's verdict a free choice: composing
them with `Canonicalizer` would multiply their states and add no behaviour.
