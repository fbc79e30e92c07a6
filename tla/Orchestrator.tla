---------------------------- MODULE Orchestrator ----------------------------
(***************************************************************************)
(* The system: the API, the replicas of the MGN worker and of the poller,  *)
(* and the rollback worker, running over the State Manager's ledger, the   *)
(* broker and AWS.                                                         *)
(***************************************************************************)
EXTENDS OrchestratorApi, MgnWorker, PollerWorker, RollbackWorker, FiniteSets

CONSTANTS MaxCrashes,    \* bound: processes killed and connections lost
          MaxFaults,     \* bound: statements and publishes that raise
          ManualStates,  \* states an operator moves a server out of by hand
          ManualJobs     \* jobs an operator publishes by hand

ASSUME OrchestratorAssumption ==
  /\ {MaxCrashes, MaxFaults} \subseteq Nat
  /\ ManualStates \subseteq ServerState
  /\ ManualJobs \subseteq MgnJobs

VARIABLES crashes,  \* processes killed and connections lost so far
          faults    \* the statements and publishes that have raised

failures == <<crashes, faults>>

vars == <<ledgerVars, queue, awsVars, task, apiBounds, failures>>

TypeOK ==
  /\ LedgerTypeOK
  /\ BrokerTypeOK
  /\ AwsTypeOK
  /\ TasksTypeOK
  /\ hasty \in 0..MaxHasty
  /\ resets \in 0..MaxResets
  /\ crashes \in 0..MaxCrashes
  /\ faults \in 0..MaxFaults

Init ==
  /\ LedgerInit
  /\ BrokerInit
  /\ AwsInit
  /\ TasksInit
  /\ hasty = 0
  /\ resets = 0
  /\ crashes = 0
  /\ faults = 0

-----------------------------------------------------------------------------
(* What dies together: a worker is a process, the two consumers of the     *)
(* rollback worker share one, and so do all requests of the API.           *)
ProcessGroups == {{w} : w \in MgnWorkers \cup PollerWorkers} \cup {FailedQueues, Requests}

(* Mutant: messages are acknowledged when they are delivered.              *)
CrashLosingMessages(group) ==
  /\ crashes < MaxCrashes
  /\ \E p \in group : Busy(p)
  /\ crashes' = crashes + 1
  /\ task' = [p \in Processes |-> IF p \in group THEN NoTask ELSE task[p]]
  /\ UNCHANGED <<ledgerVars, queue, awsVars, apiBounds, faults>>

(* A process is killed between two awaits: its coroutines are lost, and    *)
(* the broker puts the messages they had not acknowledged back at the head *)
(* of their queues.                                                        *)
Crash(group) ==
  /\ crashes < MaxCrashes
  /\ \E p \in group : Busy(p)
  /\ crashes' = crashes + 1
  /\ task' = [p \in Processes |-> IF p \in group THEN NoTask ELSE task[p]]
  /\ queue' = [q \in DOMAIN queue |->
       IF \E w \in group \cap Consumers : Busy(w) /\ SourceQueue(w) = q
       THEN <<task[CHOOSE w \in group \cap Consumers : SourceQueue(w) = q].msg>> \o queue[q]
       ELSE queue[q]]
  /\ UNCHANGED <<ledgerVars, awsVars, apiBounds, faults>>

(* The connection of a consumer to the broker is lost while a handler is   *)
(* in the middle of its work, which it goes on with; the consumer gets a   *)
(* new connection and its message is put back at the head of its queue.    *)
(* With several replicas the message may go to another one; with one, as   *)
(* in the runs, the only consumer stands for whichever gets it.  (The      *)
(* consumers of the rollback worker share a connection: here one at a time *)
(* is at work when it is lost.)                                            *)
LoseConnection(w, orphan) ==
  /\ crashes < MaxCrashes
  /\ Busy(w) /\ ~Busy(orphan)
  /\ w \in FailedQueues => \A v \in FailedQueues \ {w} : ~Busy(v)
  /\ crashes' = crashes + 1
  /\ task' = [task EXCEPT ![orphan] = task[w], ![w] = NoTask]
  /\ queue' = [queue EXCEPT ![SourceQueue(w)] = <<task[w].msg>> \o @]
  /\ UNCHANGED <<ledgerVars, awsVars, apiBounds, faults>>

(* An await on the database or on the broker raises: a worker dead-letters *)
(* its message, the rollback worker acknowledges it, a request ends.       *)
Fault(p) ==
  /\ faults < MaxFaults
  /\ faults' = faults + 1
  /\ \E kind \in {"require", "advance", "publish", "store_aws_id", "reenqueue", "plan"} :
       Doing(p, kind)
  /\ IF p \in MgnWorkers \cup PollerWorkers THEN Nack(p)
     ELSE Leave(p) /\ UNCHANGED <<ledgerVars, queue>>
  /\ UNCHANGED <<awsVars, apiBounds, crashes>>

(* An operator moves a server on with a script over the State Manager, as  *)
(* test_state_manager.py does, from a state in which nothing serves it.    *)
ManualAdvance(s) ==
  /\ Quiet(s)
  /\ current_state[s] \in ManualStates
  /\ \E to \in ValidTransitions(current_state[s]) \ ErrorStates, by \in Engineers :
       AdvanceState(s, to, by)
  /\ UNCHANGED <<queue, awsVars, task, apiBounds, failures>>

(* An operator publishes a job by hand, as test_dispatch.py does.          *)
ManualDispatch(s) ==
  /\ Quiet(s)
  /\ \E job \in ManualJobs :
       /\ VALID_STATES_FOR_JOB[job] = current_state[s]
       /\ PublishMessage(NewMessage(job, s, aws_source_server_id[s]))
  /\ UNCHANGED <<ledgerVars, awsVars, task, apiBounds, failures>>

ConsumerStep(w) ==
  /\ \/ w \in MgnWorkers /\ MgnWorkerStep(w)
     \/ w \in PollerWorkers /\ PollerStep(w)
     \/ w \in FailedQueues /\ RollbackStep(w)
     \/ w \in Orphans /\ (MgnWorkerStep(w) \/ PollerStep(w) \/ RollbackStep(w))
  /\ UNCHANGED <<apiBounds, failures>>

Next ==
  \/ \E w \in Consumers \cup Orphans : ConsumerStep(w)
  \/ \E r \in Requests : RequestStep(r) /\ UNCHANGED failures
  \/ NewRequest /\ UNCHANGED failures
  \/ \E s \in Servers : (Register(s) \/ Reset(s)) /\ UNCHANGED failures
  \/ \E s \in Servers : ManualAdvance(s) \/ ManualDispatch(s)
  \/ \E group \in ProcessGroups : Crash(group)
  \/ \E w \in Consumers, orphan \in Orphans : LoseConnection(w, orphan)
  \/ \E p \in Processes : Fault(p)

Spec == Init /\ [][Next]_vars

(* Every process keeps running: a consumer takes the messages of its queue *)
(* and finishes them, a request ends.  Engineers may never act, AWS need   *)
(* not raise, and no operation is ever reported over.                      *)
Fairness ==
  /\ \A w \in Consumers \cup Orphans : WF_vars(ConsumerStep(w))
  /\ \A r \in Requests : WF_vars(RequestStep(r) /\ UNCHANGED failures)

FairSpec == Spec /\ Fairness

-----------------------------------------------------------------------------
(* The states that only a process of the system can take a server out of.  *)
(* Three that the code means to leave as well are not among them: see      *)
(* PipelineGoesOn.                                                         *)
ServedStates ==
  { "REPLICATION_CONFIGURED", "REPLICATION_STARTED",
    "TEST_LAUNCH_TEMPLATE_CONFIGURED", "TEST_INSTANCE_LAUNCHING",
    "TEST_FINALIZED", "CUTOVER_STARTED", "CUTOVER_SYNC_IN_PROGRESS",
    "CUTOVER_INSTANCE_LAUNCHING", "CUTOVER_FINALIZED", "DISCONNECTING",
    "DISCONNECTED", "ARCHIVED" }

(* Something in the system will still act on the server: a message valid   *)
(* in its state, a dead letter, or a process in the middle of its work.    *)
HasCarrier(s) ==
  \/ \E q \in WorkQueues : \E m \in Queued(q) :
       m.server = s /\ ExpectedState(m.job) = current_state[s]
  \/ \E q \in FailedQueues : \E m \in Queued(q) : m.server = s
  \/ \E p \in Processes :
       /\ Busy(p) /\ Subject(p) = s /\ task[p].todo # <<>>
       /\ Doing(p, "require") => Operand(p) = current_state[s] /\ p \notin Requests

(* No server is stranded in a state that only the system leaves: whatever  *)
(* fails in a handler, the poll, the dead letter or the rollback follows.  *)
NoServerStranded ==
  \A s \in Servers : current_state[s] \in ServedStates => HasCarrier(s)

(* The states before the gate of the replication, of the test launch and   *)
(* of the cutover.                                                         *)
BeforeReplication ==
  { "PENDING", "AGENT_INSTALLED", "REPLICATION_CONFIGURED",
    "AWAITING_REPLICATION_APPROVAL" }
BeforeTest ==
  BeforeReplication \cup
  { "REPLICATION_STARTED", "READY_FOR_TESTING",
    "TEST_LAUNCH_TEMPLATE_CONFIGURED", "AWAITING_TEST_LAUNCH_APPROVAL" }
BeforeCutover ==
  BeforeTest \cup
  { "TEST_INSTANCE_LAUNCHING", "TEST_INSTANCE_RUNNING",
    "AWAITING_TEST_VALIDATION", "TEST_FINALIZED",
    "CUTOVER_LAUNCH_TEMPLATE_CONFIGURED", "AWAITING_CUTOVER_LAUNCH_APPROVAL" }

(* One operation is polled by one chain of messages: the polls of a server *)
(* that wait in the queue, and the ones a poller has not decided yet.      *)
OnePollPerOperation ==
  \A s \in Servers :
    LET waiting == {i \in DOMAIN queue["poll_jobs"] : queue["poll_jobs"][i].server = s}
        decided(p) == task[p].todo = <<>>
        held == {p \in PollerWorkers : Busy(p) /\ Subject(p) = s /\ ~decided(p)}
    IN Cardinality(waiting) + Cardinality(held) <= 1

(* What the orchestrator has started in AWS for the server of a row.       *)
InAws(s) ==
  IF aws_source_server_id[s] = Null THEN {}
  ELSE aws[aws_source_server_id[s]] \cap Started

(* A server marked FAILED by the rollback worker is clean: no instance is  *)
(* left, nor the replication if the failure came before the test launch.   *)
FailedByRollback(s) ==
  newest[s].to = "FAILED" /\ newest[s].by = "system" /\ current_state[s] = "FAILED"

IsClean(s) ==
  /\ InAws(s) \cap {"test", "cutover"} = {}
  /\ newest[s].from \in BeforeTest => "replication" \notin InAws(s)

FailedIsClean == \A s \in Servers : FailedByRollback(s) => IsClean(s)

(* A failure after the cutover has begun is never reported as FAILED, the  *)
(* state an engineer may reset: only as FROZEN.                            *)
CutoverFailureIsFrozen ==
  \A s \in Servers : FailedByRollback(s) => newest[s].from \in BeforeCutover

(* Only an engineer moves a server out of a gate.                          *)
GateIsHeld ==
  [][\A s \in Servers :
       /\ current_state[s] \in InProgressStates
       /\ current_state'[s] # current_state[s]
       => newest'[s].by \in Engineers]_vars

(* The gates that a configure job leads to hold even when the job, or any  *)
(* other message, is delivered again after a crash: only an engineer moves *)
(* the server on.  (A redelivered DISCONNECT_SOURCE_SERVER can move one    *)
(* out of AWAITING_ARCHIVE_APPROVAL.)                                      *)
ConfiguredGates ==
  { "AWAITING_REPLICATION_APPROVAL", "AWAITING_TEST_LAUNCH_APPROVAL",
    "AWAITING_CUTOVER_LAUNCH_APPROVAL" }

ConfiguredGateIsHeld ==
  [][\A s \in Servers :
       /\ current_state[s] \in ConfiguredGates
       /\ current_state'[s] # current_state[s]
       => newest'[s].by \in Engineers]_vars

(* A rejection moves a server from the gate at which it was rejected.      *)
RejectionIsAtGate ==
  [][\A s \in Servers :
       newest'[s] # newest[s] /\ newest'[s].to = "FAILED" /\ newest'[s].by \in Engineers
         => newest'[s].from \in InProgressStates]_vars

(* Every dead letter ends in a terminal state of its server.               *)
DeadLetterFor(s) == \E q \in FailedQueues : \E m \in Queued(q) : m.server = s
DeadLettersAreResolved ==
  \A s \in Servers : DeadLetterFor(s) ~> current_state[s] \in TerminalStates

(* A server does not stay in a state that only the system leaves.          *)
ServedStatesAreLeft ==
  \A s \in Servers : \A st \in ServedStates :
    current_state[s] = st ~> current_state[s] # st

(* The pipeline goes on by itself from the states in which the code waits  *)
(* for a running instance, or has the final sync of a cutover behind it.   *)
PipelineGoesOn ==
  \A s \in Servers :
    \A st \in {"TEST_INSTANCE_RUNNING", "READY_FOR_CUTOVER_LAUNCH", "CUTOVER_INSTANCE_RUNNING"} :
      current_state[s] = st ~> current_state[s] # st

(* A server that is reset is clean, whoever made it FAILED.                *)
ResetIsClean ==
  [][\A s \in Servers :
       current_state[s] = "FAILED" /\ current_state'[s] = "PENDING" => IsClean(s)]_vars

(* Two rollbacks of one server never run at the same time.                 *)
RollbackIsSerialised ==
  \A s \in Servers :
    Cardinality({w \in FailedQueues : Busy(w) /\ Subject(w) = s}) <= 1

(* A server that has a production instance is not started over.            *)
ProductionIsNotStartedOver ==
  [][\A s \in Servers :
       current_state[s] = "FAILED" /\ current_state'[s] = "PENDING"
         => "cutover" \notin InAws(s)]_vars

(* The production instance is terminated only by the rollback of a cutover *)
(* that has not brought it up: not by that of a second migration, which    *)
(* stops before it has anything else to terminate.                         *)
ProductionIsNotTerminated ==
  [][\A s \in Servers :
       "cutover" \in InAws(s) \ InAws(s)'
         => current_state[s] \in TerminateCutoverStates]_vars

(* When a migration is complete, MGN forgets the source server, unless AWS *)
(* has raised: a dead letter of a terminal state is skipped.               *)
CompleteIsCleanedUp ==
  \A s \in Servers :
    current_state[s] = "CLEANUP_COMPLETE"
      ~> \/ aws_errors > 0
         \/ aws_source_server_id[s] \in AwsIds /\ "source" \notin aws[aws_source_server_id[s]]

-----------------------------------------------------------------------------
(* The lifecycle that an engineer sees: the gates passed are those before  *)
(* the state of the server, or before the state in which it failed.        *)
GatesBefore(st) ==
  CASE st \in BeforeReplication -> 0
    [] st \in BeforeTest \ BeforeReplication -> 1
    [] st \in { "TEST_INSTANCE_LAUNCHING", "TEST_INSTANCE_RUNNING",
               "AWAITING_TEST_VALIDATION" } -> 2
    [] st \in { "TEST_FINALIZED", "CUTOVER_LAUNCH_TEMPLATE_CONFIGURED",
               "AWAITING_CUTOVER_LAUNCH_APPROVAL" } -> 3
    [] st \in { "CUTOVER_STARTED", "CUTOVER_SYNC_IN_PROGRESS",
               "READY_FOR_CUTOVER_LAUNCH", "CUTOVER_INSTANCE_LAUNCHING",
               "CUTOVER_INSTANCE_RUNNING", "AWAITING_CUTOVER_VALIDATION" } -> 4
    [] st \in { "CUTOVER_FINALIZED", "DISCONNECTING", "DISCONNECTED",
               "AWAITING_ARCHIVE_APPROVAL" } -> 5
    [] st \in {"ARCHIVED", "AWAITING_CLEANUP_APPROVAL"} -> 6
    [] OTHER -> 7

LifecycleStatus(st) ==
  CASE st = NotRegistered        -> "absent"
    [] st = "FAILED"             -> "failed"
    [] st = "FROZEN"             -> "frozen"
    [] st \in InProgressStates   -> "held"
    [] OTHER                     -> "active"

Lifecycle == INSTANCE MigrationLifecycle WITH
  passed  <- [s \in Servers |->
                IF ~IsRegistered(s) THEN 0
                ELSE IF current_state[s] \in ErrorStates THEN GatesBefore(newest[s].from)
                ELSE GatesBefore(current_state[s])],
  status  <- [s \in Servers |-> LifecycleStatus(current_state[s])],
  running <- [s \in Servers |-> InAws(s)]

(* Whatever happens to a server is a step of its lifecycle: no gate is     *)
(* skipped, nothing runs before it was approved, no gate is reached before *)
(* its instance is there, and a failure leaves nothing of its stage.       *)
ImplementsLifecycle == Lifecycle!LifecycleSpec
=============================================================================
