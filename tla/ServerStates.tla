---------------------------- MODULE ServerStates ----------------------------
(***************************************************************************)
(* The lifecycle of a source server: its states, the named sets of states  *)
(* and the table of legal transitions (state_manager/states.py and         *)
(* state_manager/transitions.py).                                          *)
(***************************************************************************)

(* The enum ServerState, in pipeline order.                                *)
ServerState ==
  { "PENDING", "AGENT_INSTALLED", "REPLICATION_CONFIGURED",
    "AWAITING_REPLICATION_APPROVAL", "REPLICATION_STARTED",
    "READY_FOR_TESTING", "TEST_LAUNCH_TEMPLATE_CONFIGURED",
    "AWAITING_TEST_LAUNCH_APPROVAL", "TEST_INSTANCE_LAUNCHING",
    "TEST_INSTANCE_RUNNING", "AWAITING_TEST_VALIDATION", "TEST_FINALIZED",
    "CUTOVER_LAUNCH_TEMPLATE_CONFIGURED",
    "AWAITING_CUTOVER_LAUNCH_APPROVAL", "CUTOVER_STARTED",
    "CUTOVER_SYNC_IN_PROGRESS", "READY_FOR_CUTOVER_LAUNCH",
    "CUTOVER_INSTANCE_LAUNCHING", "CUTOVER_INSTANCE_RUNNING",
    "AWAITING_CUTOVER_VALIDATION", "CUTOVER_FINALIZED", "DISCONNECTING",
    "DISCONNECTED", "AWAITING_ARCHIVE_APPROVAL", "ARCHIVED",
    "AWAITING_CLEANUP_APPROVAL", "CLEANUP_COMPLETE", "FAILED", "FROZEN" }

(* The automated path, in order: every state has one successor.            *)
Forward ==
  { <<"PENDING", "AGENT_INSTALLED">>,
    <<"AGENT_INSTALLED", "REPLICATION_CONFIGURED">>,
    <<"REPLICATION_CONFIGURED", "AWAITING_REPLICATION_APPROVAL">>,
    <<"AWAITING_REPLICATION_APPROVAL", "REPLICATION_STARTED">>,
    <<"REPLICATION_STARTED", "READY_FOR_TESTING">>,
    <<"READY_FOR_TESTING", "TEST_LAUNCH_TEMPLATE_CONFIGURED">>,
    <<"TEST_LAUNCH_TEMPLATE_CONFIGURED", "AWAITING_TEST_LAUNCH_APPROVAL">>,
    <<"AWAITING_TEST_LAUNCH_APPROVAL", "TEST_INSTANCE_LAUNCHING">>,
    <<"TEST_INSTANCE_LAUNCHING", "TEST_INSTANCE_RUNNING">>,
    <<"TEST_INSTANCE_RUNNING", "AWAITING_TEST_VALIDATION">>,
    <<"AWAITING_TEST_VALIDATION", "TEST_FINALIZED">>,
    <<"TEST_FINALIZED", "CUTOVER_LAUNCH_TEMPLATE_CONFIGURED">>,
    <<"CUTOVER_LAUNCH_TEMPLATE_CONFIGURED", "AWAITING_CUTOVER_LAUNCH_APPROVAL">>,
    <<"AWAITING_CUTOVER_LAUNCH_APPROVAL", "CUTOVER_STARTED">>,
    <<"CUTOVER_STARTED", "CUTOVER_SYNC_IN_PROGRESS">>,
    <<"CUTOVER_SYNC_IN_PROGRESS", "READY_FOR_CUTOVER_LAUNCH">>,
    <<"READY_FOR_CUTOVER_LAUNCH", "CUTOVER_INSTANCE_LAUNCHING">>,
    <<"CUTOVER_INSTANCE_LAUNCHING", "CUTOVER_INSTANCE_RUNNING">>,
    <<"CUTOVER_INSTANCE_RUNNING", "AWAITING_CUTOVER_VALIDATION">>,
    <<"AWAITING_CUTOVER_VALIDATION", "CUTOVER_FINALIZED">>,
    <<"CUTOVER_FINALIZED", "DISCONNECTING">>,
    <<"DISCONNECTING", "DISCONNECTED">>,
    <<"DISCONNECTED", "AWAITING_ARCHIVE_APPROVAL">>,
    <<"AWAITING_ARCHIVE_APPROVAL", "ARCHIVED">>,
    <<"ARCHIVED", "AWAITING_CLEANUP_APPROVAL">>,
    <<"AWAITING_CLEANUP_APPROVAL", "CLEANUP_COMPLETE">> }

(* IN_PROGRESS_STATES: paused at a human approval gate.                    *)
InProgressStates ==
  { "AWAITING_REPLICATION_APPROVAL", "AWAITING_TEST_LAUNCH_APPROVAL",
    "AWAITING_TEST_VALIDATION", "AWAITING_CUTOVER_LAUNCH_APPROVAL",
    "AWAITING_CUTOVER_VALIDATION", "AWAITING_ARCHIVE_APPROVAL",
    "AWAITING_CLEANUP_APPROVAL" }

CompletedStates == {"CLEANUP_COMPLETE"}
ErrorStates     == {"FAILED", "FROZEN"}

(* VALID_TRANSITIONS: a state that is not final goes forward, to FAILED or *)
(* to FROZEN; a final state goes nowhere.                                  *)
ValidTransitions(from) ==
  IF from \in CompletedStates \cup ErrorStates
  THEN {}
  ELSE {to \in ServerState : <<from, to>> \in Forward} \cup ErrorStates

(* TransitionValidator.validate, which raises when this is FALSE; a string *)
(* that is no state (NotRegistered below) is refused too.                  *)
IsValidTransition(from, to) ==
  /\ from \in ServerState
  /\ to \in ValidTransitions(from)

(* The column value of a server that has no row yet, and of a NULL column. *)
NotRegistered == "NOT_REGISTERED"
Null          == "NULL"
=============================================================================
