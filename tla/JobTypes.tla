------------------------------ MODULE JobTypes ------------------------------
(***************************************************************************)
(* The jobs that travel over RabbitMQ: the queue of each (dispatcher/      *)
(* job_types.py), the state in which each may run (VALID_STATES_FOR_JOB of *)
(* mgn_worker.py, VALID_STATES_FOR_POLL of state_manager_client.py) and    *)
(* the gates whose approval dispatches one (api/routes/servers.py).        *)
(***************************************************************************)
EXTENDS ServerStates

VALID_STATES_FOR_JOB ==
  [ ADD_SERVER                        |-> "PENDING",
    CONFIGURE_REPLICATION_SETTINGS    |-> "AGENT_INSTALLED",
    START_REPLICATION                 |-> "REPLICATION_STARTED",
    CONFIGURE_TEST_LAUNCH_TEMPLATE    |-> "READY_FOR_TESTING",
    LAUNCH_TEST_INSTANCE              |-> "TEST_INSTANCE_LAUNCHING",
    FINALIZE_TEST                     |-> "TEST_FINALIZED",
    CONFIGURE_CUTOVER_LAUNCH_TEMPLATE |-> "CUTOVER_LAUNCH_TEMPLATE_CONFIGURED",
    START_CUTOVER                     |-> "CUTOVER_STARTED",
    LAUNCH_CUTOVER_INSTANCE           |-> "READY_FOR_CUTOVER_LAUNCH",
    FINALIZE_CUTOVER                  |-> "CUTOVER_FINALIZED",
    DISCONNECT_SOURCE_SERVER          |-> "DISCONNECTING",
    ARCHIVE_SOURCE_SERVER             |-> "ARCHIVED",
    DELETE_REPLICATION_COMPONENTS     |-> "CLEANUP_COMPLETE" ]

VALID_STATES_FOR_POLL ==
  [ POLL_REPLICATION_STATUS      |-> "REPLICATION_STARTED",
    POLL_TEST_INSTANCE_STATUS    |-> "TEST_INSTANCE_LAUNCHING",
    POLL_CUTOVER_SYNC_STATUS     |-> "CUTOVER_SYNC_IN_PROGRESS",
    POLL_CUTOVER_INSTANCE_STATUS |-> "CUTOVER_INSTANCE_LAUNCHING",
    POLL_DISCONNECT_STATUS       |-> "DISCONNECTING" ]

MgnJobs  == DOMAIN VALID_STATES_FOR_JOB
PollJobs == DOMAIN VALID_STATES_FOR_POLL
JobType  == MgnJobs \cup PollJobs

(* The state a server must be in when a job is taken from its queue.       *)
ExpectedState(job) ==
  IF job \in MgnJobs THEN VALID_STATES_FOR_JOB[job] ELSE VALID_STATES_FOR_POLL[job]

(* QUEUE_ROUTING.  No job is ever routed to rollback_jobs.                 *)
QUEUE_ROUTING == [job \in JobType |-> IF job \in MgnJobs THEN "mgn_jobs" ELSE "poll_jobs"]

(* The approve endpoints, by stage of the migration: the gate, the state   *)
(* that an approval moves the server to, and the job that it dispatches.   *)
ReplicationGates ==
  { [at |-> "AWAITING_REPLICATION_APPROVAL",
     next |-> "REPLICATION_STARTED",     job |-> "START_REPLICATION"] }

TestGates ==
  { [at |-> "AWAITING_TEST_LAUNCH_APPROVAL",
     next |-> "TEST_INSTANCE_LAUNCHING", job |-> "LAUNCH_TEST_INSTANCE"],
    [at |-> "AWAITING_TEST_VALIDATION",
     next |-> "TEST_FINALIZED",          job |-> "FINALIZE_TEST"] }

CutoverGates ==
  { [at |-> "AWAITING_CUTOVER_LAUNCH_APPROVAL",
     next |-> "CUTOVER_STARTED",         job |-> "START_CUTOVER"],
    [at |-> "AWAITING_CUTOVER_VALIDATION",
     next |-> "CUTOVER_FINALIZED",       job |-> "FINALIZE_CUTOVER"] }

CleanupGates ==
  { [at |-> "AWAITING_ARCHIVE_APPROVAL",
     next |-> "ARCHIVED",                job |-> "ARCHIVE_SOURCE_SERVER"],
    [at |-> "AWAITING_CLEANUP_APPROVAL",
     next |-> "CLEANUP_COMPLETE",        job |-> "DELETE_REPLICATION_COMPONENTS"] }

Gates == ReplicationGates \cup TestGates \cup CutoverGates \cup CleanupGates

(* The jobs that an engineer submits without passing a gate: start and the *)
(* three configure endpoints.                                              *)
SubmittedJobs ==
  { "ADD_SERVER", "CONFIGURE_REPLICATION_SETTINGS",
    "CONFIGURE_TEST_LAUNCH_TEMPLATE", "CONFIGURE_CUTOVER_LAUNCH_TEMPLATE" }
=============================================================================
