# Formal model of the Migration Orchestrator

The Migration Orchestrator moves servers to AWS with AWS MGN. A server walks
through 29 states; seven of them are gates at which an engineer approves or
rejects the next stage. An API takes the requests of engineers, workers run
jobs taken from RabbitMQ, a poller waits for AWS, a rollback worker handles
what failed, and a PostgreSQL table holds the state of every server, with a
history of its transitions. The TLA+ modules of this directory model the state
machine, the transactions that guard it, every job handler, the polls, the
rollback, the endpoints of a single server, of a batch of servers and of bulk
requests, and their interleavings, with crashes, lost connections, redelivered
messages, statements that raise and failing AWS calls; and the lifecycle that
all this promises to an engineer.

## Inventory of the system

| Component | State it keeps | Operations | What makes it correct |
|---|---|---|---|
| State machine (`state_manager/states.py`, `transitions.py`) | none | `validate` | only the transitions of the table |
| State Manager (`state_manager/state_manager.py`, PostgreSQL) | `servers`, `state_transition_history`, `batches` | `register_server`, `advance_state`, `reset_server`, `set_aws_source_server_id`, batch operations, reads | a row moves atomically with its audit record; the trail has no gap; final states are final |
| Dispatcher and job types (`dispatcher/`) | none | `dispatch` | each job on the queue of the worker that handles it |
| RabbitMQ (external) | `mgn_jobs`, `poll_jobs`, `rollback_jobs` and a `.failed` queue each | publish, deliver, ack, nack, redeliver | at least once |
| MGN worker (`workers/mgn_worker.py`), 2 replicas | the message it holds | 13 handlers | a job acts only on a server in the state it is for; a failure leaves a dead letter |
| Poller worker (`workers/poller_worker.py`), 2 replicas | the message it holds; `attempt` in the message | 5 polls, two of them in two phases | an operation is polled by one chain of messages, which ends |
| Rollback worker (`workers/rollback_worker.py`), 1 replica, 2 consumers | the two messages it holds | plan, undo, finalise | FAILED means clean; failures after the cutover began end in FROZEN |
| API, one server (`api/routes/servers.py`), 1 replica | requests in flight | 25 endpoints, three of them reads | a gate is passed once, by an engineer |
| API, many servers (`api/routes/batches.py`, the bulk endpoints) | requests in flight, each a loop over rows read before it | batches, 3 configure waves, 7 approval and 7 rejection waves, bulk register and start | each server is answered for, and its job dispatched once |
| API, history and listings (`api/routes/history.py`) | none | reads | - |
| AWS MGN (external) | replication, test and cutover instances | the boto3 calls | - |

They interact through three shared things: the rows of the State Manager (read
without a lock by every stale check and every `_require_state`, locked only
inside one transaction), the queues, and the AWS account. No component calls
another one directly.

What is hard: a request or a handler is a series of awaits, and the row it
read may change at each; an advance and the publish that follows it are not
atomic; a message is redelivered after a crash although its effects are done;
a failed message reaches the rollback worker when the server has moved on; a
poll has a limit of attempts that races with the end of the operation; an await
on the database or the broker may raise anywhere, and what an exception does
differs between the workers, the rollback worker and the API; a loop over a
batch works on rows read before it began. The list, line by line, is under
`hazards` in `PROJECT.json`.

## Modules

| Module | Models |
|---|---|
| `ServerStates` | `ServerState`, the sets of states, `VALID_TRANSITIONS`, `validate` |
| `StateManager` | sessions running `advance_state` and `reset_server` statement by statement, with row locks and aborts |
| `StateLedger` | what those transactions promise: each operation one atomic step |
| `JobTypes` | the jobs, their queues and the states they are for, the gates |
| `Broker` | the queues (external) |
| `AwsMgn` | what runs in AWS for each source server, calls that raise (external) |
| `Tasks` | the coroutine of one message or request, as the awaits it has left |
| `MgnWorker`, `PollerWorker`, `RollbackWorker` | the three workers |
| `OrchestratorApi` | the endpoints of one server, and the engineers |
| `Orchestrator` | all of them together, with crashes, lost connections and statements that raise |
| `MigrationLifecycle` | what an engineer is promised: gates passed in order, what runs in AWS at each, what a failure leaves |
| `Waves` | the batch endpoints and the bulk endpoints, with the batch rows |
| `MCStateManager`, `MCOrchestrator`, `MCWaves` | instances for TLC |
| `StateManagerProofs`, `WavesProofs` | the theorems about `StateManager` and about `Waves` |
| `LifecycleFacts` | lemmas about the transition table, the gates and the operations of the ledger |
| `OrchestratorProofs` | the types of `Orchestrator`, and the shape of every program of a coroutine; the next three extend it |
| `StrandingProofs`, `PollingProofs`, `PatienceProofs` | the theorems about what fails, about the polls, and about patient engineers |
| `LifecycleProofs` | that `Orchestrator` implements `MigrationLifecycle`, and what follows for a first migration; it extends `PatienceProofs` |

`Orchestrator` is built on `StateLedger` and not on `StateManager`: that the
one may stand for the other is what `ImplementsLedger` checks and the theorem
`Refinement` proves. `Waves` is built on `StateLedger` and `JobTypes` as well,
beside `Orchestrator` and not on top of it: what a wave races with are the rows.
Single requests at the gates are requests of `Waves` too; `Reset` starts a server
over, and `Elsewhere` moves it as any worker, rollback or script may.

### How state and actions correspond to the code

*State Manager.* `current_state`, `previous_state` and `aws_source_server_id`
are the columns; `history` is the table of transitions in commit order;
`row_lock` is the lock of `SELECT .. FOR UPDATE`; `tx[c]` is the transaction of
a connection of the pool. `Begin` fixes the timestamp, because `now()` is the
time at which the transaction began, which is what the column defaults to.
`LockRow`, `Permitted`/`Refuse`, `Update` and `Commit` are the four numbered
steps of `advance_state`; `reset_server` has the same shape and another check.
Under READ COMMITTED the locking SELECT returns the row as the last holder
committed it, so it reads after it waits. `Abort` stands for an exception or a
lost connection at any statement.

*Workers and API.* `task[p]` is what process `p` holds: a message or a request,
and the awaits it has still to perform, in the order of the code. An await is
one action. What the code does between two awaits cannot be interleaved (one
event loop per process), and belongs to the action before it. A handler is
thus a sequence in `Handler` (`MgnWorker`, by stage of the migration), for instance

    CONFIGURE_REPLICATION_SETTINGS:
      call update_replication_configuration, advance to REPLICATION_CONFIGURED,
      advance to AWAITING_REPLICATION_APPROVAL

whose last advance is the one the loop makes with the `next_state` of the
result. `CheckState` is the stale message check, and leaves nothing to do but
the acknowledgement when it fails. An exception in a handler or in the loop,
and `MgnResult.failed`, both end in `nack(requeue=False)` (`Nack`); the
rollback worker acknowledges in every case.

*Queues.* A queue is a sequence; a consumer takes its head and holds it until
it acknowledges it. `Crash` puts it back at the head. The consumers of the
rollback worker are named by their queues.

*AWS.* For every source server id the set of what runs: the replication, a test
instance, a cutover instance. `LifeCycle` is the field `lifeCycle.state` that
`describe_source_servers` reports of it: one field, which the pre-flight checks
and the polls read, so that a replication is not ready for a test while an
instance of the server runs. Nothing in the code sets it. Its value after a test
is MGN's business: the model takes READY_FOR_CUTOVER once the test instance is
gone, as the way from FINALIZE_TEST to START_CUTOVER does, and lets
START_REPLICATION begin a new cycle. `CallRaises` covers a call refused because
of that state (`Preflight`) and, at most `MaxAwsErrors` times, for any other
reason. `MayBeOver` lets a poll report the end of an operation only if AWS has
what the handler compares, and never forces it to.

*Failures.* `Fault(p)` is an await on the database or the broker that raises: a
worker dead-letters its message, the rollback worker acknowledges it, a request
ends. The statement that raises has no effect. `LoseConnection` moves the
handler of a consumer to an orphan, a coroutine whose message the broker has put
back and which goes on all the same; neither its ack nor its nack reaches the
broker. The two consumers of the rollback worker share one event loop, and
between the plan and the undo steps there is no await: `LoopIsFree`.

*Waves.* `request[r]` is a loop of the code: the servers it has still to deal
with (`left`), the one between its two awaits (`current`), the AWS ids as they
were read, and the lists of the answer so far. `ReadBatch` takes the snapshot
and fills `skipped`; `MoveServer` and `Dispatch` are the two awaits for one
server, `ItemRaises` and `DispatchRaises` the exceptions the loop catches,
`RequestRaises` the ones it does not. An operation is a record (the gate, the
state after it, the job, the column for the body), one for each endpoint. A
single request (`BeginSingle`) reads one row, and has left to do what a wave does
for one server. `recorded` is a history: every value that a column of a batch row
has held, as `StoreConfig` wrote it. `resets` counts the migrations that are over.
A publish that raises may have reached the broker. The order in which the rows of a batch come
is left open. In the membership requests `succeeded`, `skipped` and `failed`
stand for `assigned`, `already_assigned` and `not_found`.

*The lifecycle.* `Orchestrator` maps to `MigrationLifecycle` by three functions
of its state: the gates passed (those at or before the state of the server in
the transition table, or the state in which it failed), the status (`active`,
`held` at a gate, `failed`, `frozen`), and what runs in AWS for the id of the
row. The detail of 29 states, queues, polls and handlers disappears.

*Engineers.* A request that arrives while something is under way for its server
(`Quiet` is false) is hasty; `MaxHasty` bounds how many there are. With 0,
every engineer waits for the system to be done.

*By hand.* The pipeline stops by itself at two places (see the findings and
hazards): in the two INSTANCE_RUNNING states, because the poll of phase two is
always skipped, and in READY_FOR_CUTOVER_LAUNCH, because nothing dispatches
LAUNCH_CUTOVER_INSTANCE. `ManualAdvance` and `ManualDispatch` stand for an
operator with a script over `StateManager` or `JobDispatcher`, as the two test
scripts of the repository do it, for a server for which nothing is under way.
They are enabled only in the runs that have to reach what comes after; a cfg
with `ManualStates = {}` does without them.

## What the runs check

Bounds: one server, one AWS id, one engineer, two attempts of a poll unless a
line says otherwise. One server is where all the races of the code are: no
handler reads the row of another server. Two attempts separate the first, the
last, and a put-back one. Two sessions, two workers or two requests are
enough for one to overtake another; a third adds no pair of awaits that two do
not have. `Waves` has two servers, because what one server of a loop does to the
next is what it is about; `WaveStages` has one, every state from which an endpoint
acts, and two moves from elsewhere, so that a server may fail and be reset while a
request is under way. A wave of three servers adds a third pass of a loop that
carries nothing from one pass to the next but the lists.

Passing:

- `StateManager`: two sessions, four transactions, every interleaving and abort.
  The row read is the row written (`LockDiscipline`), the trail is complete
  (`AuditTrailIsChain`), no final state is left (`FinalStatesAreFinal`), the
  ledger is implemented (`ImplementsLedger`), and every transaction ends
  (`EveryTransactionEnds`).
- `Races`: two MGN workers, two pollers, two requests, one of them hasty, two AWS
  errors, which may hit a job and its undo. A server in a state that only the
  system leaves always has a valid message, a dead letter or a process that will
  act on it (`NoServerStranded`); its operation is polled by one chain of messages
  (`OnePollPerOperation`); a server that the rollback marks FAILED runs nothing of
  what the rollback was to stop (`FailedIsClean`). The first two also hold with
  two hasty requests and one AWS error.
- `Pipeline`: all states up to CLEANUP_COMPLETE, with one hasty request, one reset
  and one AWS error. Adds: a failure after the cutover began never ends in FAILED
  (`CutoverFailureIsFrozen`); every dead letter leads to a terminal state
  (`DeadLettersAreResolved`); no server stays in a state that the system must
  leave (`ServedStatesAreLeft`); unless AWS raises, a complete migration leaves no
  source server in MGN (`CompleteIsCleanedUp`); the instance in production is not
  terminated, not even by the rollback of a second migration, whose replication
  never becomes ready for a test beside it (`ProductionIsNotTerminated`).
- `Crashes`: the same pipeline with two processes killed anywhere, one AWS error,
  one reset; engineers wait. No redelivered message moves a server out of the
  gate that a configure job led to (`ConfiguredGateIsHeld`), and
  `DeadLettersAreResolved` still holds.
- `LostConnections`: one crash or lost connection, one statement that raises, one
  AWS error: `CutoverFailureIsFrozen` still holds, and an engineer who waits
  rejects a server at the gate (`RejectionIsAtGate`).
- `Lifecycle`: all states, two MGN workers, two AWS errors and two resets; every
  step is one of the lifecycle (`ImplementsLifecycle`). No gate is skipped, a
  stage starts only what an engineer approved, a gate is reached only when what
  is to be judged is there, and a failure leaves nothing that its stage started.
- `Waves`: two servers, new, with an agent, or at the first gate; the configure,
  approval and rejection requests of the first stage, for a wave or one server, and
  the bulk requests, two at a time, one exception. A job of a gate is dispatched at
  most once in each migration, never for a server still at the gate
  (`OneJobPerGate`), what the answer calls succeeded is
  dispatched (`SucceededIsDispatched`), and each server is answered for whatever
  happens to the others (`NobodyIsForgotten`).
- `WaveStages`: all endpoints of `Waves` on one server, from every state at which
  one acts, two at a time, with an exception, two moves or resets by something else
  and the death of the API; the configuration that a job carries for a wave was stored in
  the batch, in the column of that job (`ConfigIsOnRecord`; two configurations, so
  that a second wave has another to store). `Symmetry` takes requests and
  configurations for interchangeable: nothing in `Waves` tells them apart, and this
  run checks no liveness. A server is reset, but does not come back to its gate
  within these bounds. That `OneJobPerGate` then counts by migrations TLC has checked
  with the endpoints of the first gate alone, `MaxRequests = 3` and
  `MaxElsewhere = 5`, where an approval of the first migration may dispatch in the
  second; the theorem has no such bounds.

Violated, each by what the code does against what it says (`findings`):

- `PhaseTwo`: nothing fails, and no server ever gets from TEST_INSTANCE_RUNNING
  to its gate: the phase 2 poll is stale by construction.
- `StartedOver`: nothing raises; a server rejected after its cutover is FAILED, not
  FROZEN, and is reset with its instance in production.
- `LateRejection`: a rejection overtaken by an approval rejects another state.
- `HistoryOrder`: the history by timestamp is not the history.

### Where the properties stop holding

What the passing runs show holds within their bounds, and the bounds on hasty
requests, crashes, faults and resets are not there for size only: beyond them
the code does not keep these promises. Each line names constants that differ
from those of `PhaseTwo.cfg` (*bridged* is `ManualStates` and `ManualJobs` as in
`Pipeline.cfg`) or of `Waves.cfg`, and what TLC finds with them.

| Property | Constants | What happens |
|---|---|---|
| `NoServerStranded` | `MaxFaults = 1` | the publish of an approval raises when the server has left the gate |
| `NoServerStranded` | `MaxCrashes = 1` | a worker dies between the two advances of a configure job, which the code says are set "atomically" (`mgn_worker.py:278`), and the redelivered job is stale; likewise between the advance and the publish of a launch job |
| `OnePollPerOperation` | `MaxCrashes = 1` | a redelivered job publishes a second chain of polls; no worker compares the `job_id` (`dispatcher.py:48`) |
| `ProductionIsNotTerminated` | `MaxCrashes = 1`, bridged | of two chains, one gives up; its rollback is planned in CUTOVER_INSTANCE_LAUNCHING and carried out in CUTOVER_INSTANCE_RUNNING |
| `RollbackIsSerialised` | `MaxCrashes = 1`, `MaxAwsErrors = 2` | dead letters of a job and of a poll, one in each consumer of the rollback worker |
| `CutoverFailureIsFrozen` | `MaxHasty = 2`, two MGN workers, bridged | a configure job sent twice; the rollback of the second is planned at the gate of the cutover, and an approval overtakes it |
| `CutoverFailureIsFrozen` | `MaxHasty = 1`, `MaxCrashes = 1`, `MaxFaults = 1`, bridged | the same, with a redelivered job whose stale check raises |
| `ConfiguredGateIsHeld` | `MaxCrashes = 1`, `MaxFaults = 1` | the stale check of a redelivered job raises; the rollback fails a healthy server |
| `ConfiguredGateIsHeld` | `MaxCrashes = 1`, `Orphans = {o1}`, two MGN workers | a handler that outlived its connection moves the server to the gate while another worker runs its redelivered message, which fails |
| `DeadLettersAreResolved` | `MaxAwsErrors = 1`, `MaxFaults = 1` | the rollback raises, and its dead letter is acknowledged |
| `FailedIsClean` | `MaxAwsErrors = 1`, bridged | the call of FINALIZE_TEST raises after the server has moved to TEST_FINALIZED, and the rollback takes the test instance for gone (`rollback_worker.py:230`) |
| `FailedIsClean` | `MaxAwsErrors = 1`, `MaxCrashes = 1`, `Orphans = {o1}` | a handler that outlived its connection starts the replication after the rollback of its redelivered message |
| `FailedIsClean` | `MaxAwsErrors = 1`, `MaxResets = 1` | a server rejected at the gate of the test launch is reset with its replication running; ADD_SERVER fails, and nothing is undone |
| `FailedIsClean` | `MaxHasty = 2`, two MGN workers | an approval between the plan of a rollback and its last advance |
| `GateIsHeld`, `ConfiguredGateIsHeld` | `MaxHasty = 1`, two MGN workers | a job sent twice passes the stale check in two workers; the second fails, and its rollback takes a healthy server out of its gate |
| `ResetIsClean` | `MaxResets = 1` | a rejection undoes nothing, and ends in the state that may be reset |
| `PipelineGoesOn` | `ManualStates = {"TEST_INSTANCE_RUNNING"}` | nothing dispatches LAUNCH_CUTOVER_INSTANCE |
| `OutOfStateIsSkipped` | none | a server leaves its gate after a rejection read its row, and is rejected all the same |
| `SnapshotIsWhatWasUsed` | two `Configs` | a second configure wave of the batch replaces the column, although servers were configured with what it held |
| `WaveIsNotSplit` | two `Batches`, `Operations` of `AssignServers` alone | a server read as already in the batch has been moved when the others are updated |

`ImplementsLifecycle` needs all three bounds at zero: with a hasty request a
configure job can be sent while a rollback is under way; with a crash
START_REPLICATION can run again after the rollback has stopped the replication;
and when the last advance of a rollback raises, the replication is stopped and
the server goes on to the gate of the test without it. With a crash, a
redelivered DISCONNECT_SOURCE_SERVER whose disconnection is already complete
takes a server out of AWAITING_ARCHIVE_APPROVAL, which is why
`ConfiguredGateIsHeld` names three gates. `Races` does without the bridge because
of FINALIZE_TEST. The stale check protects from messages in the queue,
not from handlers under way: this is what most of them have in common.

### Fairness

`FairSpec` asks only that processes keep running: weak fairness of each
consumer and of each request, which is a running coroutine of an event loop.
Nothing is asked of engineers, of AWS (which may report IN_PROGRESS until the
attempts run out) or of crashes. In `StateManager`, statements are weakly fair
and the grant of a row lock strongly fair, because PostgreSQL queues the
waiters of a row lock; commits and aborts of the holder free it. In `Waves` each
request that has begun goes on; nobody has to begin one, and nothing is asked of
`Elsewhere`. An orphan is a running coroutine like any other.

## What is proved

TLC shows a property on one small instance. The theorems say it for any sets of
servers, AWS ids, engineers, workers and requests, for any number of attempts,
and for any value of a bound that no hypothesis names. The only other
assumptions are the named `ASSUME`s of the modules (names are distinct, bounds
are numbers), which TLC evaluates in every run.

### State Manager

`StateManagerProofs` proves `TypeOK`, `LockDiscipline` and `AuditTrailIsChain`
(`TypeCorrect`, `LockDisciplineHolds`, `AuditTrailHolds`), `FinalStatesAreFinal`
(`FinalStates`), and that every behaviour of `Spec` is one of `StateLedger`
(`Refinement`).

The argument: `TypeOK` alone is not inductive, because a
commit writes the `from` and `to` of its transaction; `PendingWrites` says that
a transaction past its check carries a legal move (`Permitted`). The audit
trail is a chain only because the state that was read is still the row's state
at the commit, which is `LockDiscipline`, which in turn needs both directions:
a transaction that reads holds its lock, and a lock is held by a transaction
that reads. `IInv` is the conjunction of the four; each has a lemma that gives
its preservation by every action. Refinement then follows from `IInv`: each
action but `Commit`, `RegisterServer` and `SetAwsSourceServerId` leaves the
mapped variables alone, and `Commit` maps to `AdvanceState` or `ResetServer`.

### Waves

`WavesProofs` proves `TypeOK`, `OneJobPerGate`, `SucceededIsDispatched` and
`ConfigIsOnRecord` for any endpoints, any starting states and any bounds, and
that a wave touches the rows only as the ledger allows.

`OneJobPerGate` is not inductive: nothing in it says that a second request will
not dispatch tomorrow. `Passes` says how often a server can have left the gate:
once in each migration that a reset ended, and once more when it is past the gate
now. `SentOnce` counts the jobs of the gate and the requests that have opened it and
not dispatched yet, and says that they are at most as many. An approval that opens
the gate adds one to both counts; a dispatch makes a job of a request; nothing
takes a pass back (`PassesGrow`), because a server comes back to a gate by a reset
only: `LifecycleFacts` gives every state a `Place`, and every other transition climbs
(`TransitionClimbs`). The two sets are finite, so what the library says of
cardinalities applies. `ConfigIsOnRecord` needs `StoredFirst`: a wave whose loop has
begun has stored its configuration, in the column that belongs to its job
(`OperationFacts`), and nothing is taken off the record (`BatchSteps`).

### The composed system

`OrchestratorTypeCorrect` proves `TypeOK` of `Orchestrator`. What
a coroutine has still to do is data of the model, and the type of it says too
little: `Core` adds that messages lie in the queue of their job, and that
every list of awaits is a rest of some handler (`TasksShape`). That one lemma about
each handler is what the other proofs stand on: for instance that an advance into a
state that only the system leaves is followed by another one or by the publish
of the job for that state, and that a worker moves no server past a gate.

| Theorem | States | Under |
|---|---|---|
| `NoServerIsStranded` | `NoServerStranded` | `NothingBreaks`: no crash, no statement that raises; no script into a state that only the system leaves |
| `OnePollHolds` | `OnePollPerOperation` | `ResetsAreCalm`: no crash; no reset, or engineers who wait |
| `CutoverFailureHolds` | `CutoverFailureIsFrozen` | `Patience`: engineers wait, and none is called `system` |
| `RejectionHolds` | `RejectionIsAtGate` | `Patience` |
| `ConfiguredGateHolds` | `ConfiguredGateIsHeld` | `OnlyCrashes`: engineers wait, no statement raises, no handler outlives its connection |
| `ImplementsTheLifecycle` | `ImplementsLifecycle` | `Calm`: no crash, no statement that raises, engineers wait, scripts move a server only out of the two states that the code leaves it in; each server has an AWS id of its own (`Ownership`, `OwnIds`) |
| `FailedIsCleanHolds` | `FailedIsClean` | `Untouched`: `Calm`, no reset, no script, no engineer called `system`; `Ownership`, `OwnIds` |
| `NoTestIsValidated` | no server comes to AWAITING_TEST_VALIDATION | the same |

What is not excluded may happen any number of times: in the first two any hasty
requests and failing AWS calls, under `Patience` any crashes,
lost connections, statements that raise, resets and AWS errors, under
`OnlyCrashes` any crashes, resets and AWS errors, and under `Calm` any resets and
AWS errors; under `Untouched` any AWS errors. The hypotheses are
not conveniences of the proofs. Without them the code does not keep the promise:
the table above has a counterexample for a crash, for a statement that raises, for
a lost connection and for impatience, and `LateRejection` is the one for
`RejectionIsAtGate`. Each is met by some run with all of its interesting steps:
`Races` satisfies the first two, `Crashes`, `LostConnections` and `Lifecycle`
`Patience`, `Crashes` `OnlyCrashes`, and `Lifecycle` `Calm`; `Untouched` is `Races`
without its hasty request. That no two servers
share an AWS id is asked of every state, because nothing in the code sees to it:
the column is not unique, and a rollback undoes what it finds under the id.

- *No server is stranded.* `HasCarrier` is content with a process that has
  something left to do for the server. That is not inductive: its last await
  may do nothing for the server. `ServedAreCarried` asks for a program that ends
  in a move, in a message valid in the state, or in a dead letter,
  whichever of its awaits raises; and of a request that it has already moved the
  server.
- *One poll.* A token of a server is a job of a polled stage, in whatever
  place it is: in a queue, in a handler, or about to be dispatched by an approval.
  `Tokens` says that there is one at most, and that its server is in the stage of
  the token or has failed. Approvals make the only new ones, and they find
  the server at a gate, which is in no stage. A failed server is why resets
  must be calm: a reset and a new approval, all of them hasty, would add a second
  token beside one that is still in a queue.
- *Patience.* `RequestsAreAlone`: while a request has something left to do for a
  server, no queue and no other process holds anything for it. This holds when
  the request begins (`Quiet`), and `Contained` says that no other process can
  spoil it, because whatever a process sends is about its own server. So a row
  read by a request is the row it moves (`RejectionsAreAtGates`), and no
  approval overtakes a rollback: a rollback that is to end in FAILED was planned
  before the cutover, and a worker that may run beside it, left over from a lost
  connection, never moves a server past a gate (`FailuresAreEarly`).
- *Only crashes.* A crash puts a message back, and so never makes two of one:
  `ConfiguresAreSingle` says that a configure job is the only message about its
  server, in whatever queue or hands it is (`Spots`). So when a handler comes to
  the gate with its last await, nothing else is left for the server, and what comes
  later is stale: `GatesAreQuiet` says that no dead letter is about a server at
  such a gate, and that no worker is past its check.

- *The lifecycle.* A step of one server is one of its lifecycle only if what is
  under way for it was begun in the state in which it is, and if what AWS runs for
  it is what that state says. `LifecycleInv` has a part for each. `Places` are all
  the messages in queues and the coroutines with something left to do, and
  `OneAtATime` says that no two are about one server. `AllFit` says that each fits
  the row of its server: its next await is possible in the state, carries the
  id of the row, and each later one follows from the one before (`WorkerLink`,
  `RequestLink`); a rollback that is to end in FAILED has nothing of its stage left
  to stop, or has its undo before it. `NeedsAreMet` says what must run in
  each state, so that no gate is reached before its instance is there, and
  `UnknownIsClean` that nothing runs under an id that is not in the row yet. Every
  action but the calls and the advances leaves the mapped variables alone; that it
  keeps the invariant is in one lemma for what appears in a queue
  (`MessageArrives`), one for what a coroutine does (`OtherPlaces`), and one for what
  happens to a row (`RowActs`).
- *A clean failure.* `FailedIsClean` follows from the lifecycle, seen from one
  server (`EachServerIsObserved`): a failure leaves nothing of its own stage, and
  `Confined` says that nothing runs that an earlier stage did not start. For the
  third stage that is not enough, since a test instance that FINALIZE_TEST failed to
  terminate belongs to the stage before. No server gets that far: `AllFit` has
  a poll past its check in the first phase, so no poller ever holds the move to
  the validation of the test (`NoPollValidates`), and nobody else makes it. This is
  the finding of `PhaseTwo`, here a theorem (`NoTestIsValidated`).

### Only model-checked

Liveness under fairness (`EveryTransactionEnds`, `DeadLettersAreResolved`,
`ServedStatesAreLeft`, `CompleteIsCleanedUp`, `NobodyIsForgotten`) needs
ENABLED, which the proof system does not reach. `ProductionIsNotTerminated` is
only checked, in `Pipeline`; it also holds there with two resets and two AWS
errors, with a statement that raises, and with two MGN workers. Every other
safety property and both refinements that a passing run checks are proved, under
the conditions above.

## Not modelled

Reads and listings, the history endpoints, the validation of request bodies and
the start-up of the processes: they change no state. The contents of launch
templates and of configurations, names, descriptions and metadata. Timestamps,
but for the order of the history; how long anything takes (the code does not
wait between two polls, so neither does the model). An agent that is installed
again, after which MGN would know a disconnected server anew. A restart of RabbitMQ and
its disk. A statement that has its effect and raises all the same, except the
publish of a wave. Two servers with one AWS id. A bulk request that names one
server twice. Alembic, the container images and the cluster. `PROJECT.json` gives
the reason for each component.

## Plan

1. Done: state machine, State Manager with its proofs, broker, AWS, the three
   workers, the API for single servers, the composition.
2. Done: batches and bulk requests (`Waves`), statements that raise, handlers that
   outlive their connection, the abstract `MigrationLifecycle` and its refinement.
3. Done: the proofs about `Waves`, and about `Orchestrator` its types, every
   safety property that a passing run checks but `ProductionIsNotTerminated`, and its
   refinement of `MigrationLifecycle`, under the conditions above.
4. Left: a proof of `ProductionIsNotTerminated`, which has to say what a second
   migration can reach while the instance of the first runs; and weaker conditions
   where the code allows them. `FailedIsClean` holds in `Races` with one hasty
   request, which `Untouched` excludes; and `Calm` excludes every script but the two
   moves that complete the pipeline.
