----------------------------- MODULE MgnWorker ------------------------------
(***************************************************************************)
(* workers/mgn_worker.py: one handler per MGN job, given as the awaits it  *)
(* performs, and the message loop around it.                               *)
(***************************************************************************)
EXTENDS Tasks

(* The handlers by stage of the migration, each with the advance that the  *)
(* loop makes when it succeeds.                                            *)
OnboardingHandler ==
  [ ADD_SERVER |->
      << call("confirm_agent"), <<"store_aws_id">>,
         advance("AGENT_INSTALLED") >> ]

ReplicationHandler ==
  [ CONFIGURE_REPLICATION_SETTINGS |->
      << call("update_replication_configuration"),
         advance("REPLICATION_CONFIGURED"),
         advance("AWAITING_REPLICATION_APPROVAL") >>,
    START_REPLICATION |->
      << call("start_replication"), publish("POLL_REPLICATION_STATUS") >> ]

(* Mutant: FINALIZE_TEST forgets the test instance.                        *)
TestHandlerKeepingInstance ==
  [ CONFIGURE_TEST_LAUNCH_TEMPLATE |->
      << call("update_launch_configuration"),
         advance("TEST_LAUNCH_TEMPLATE_CONFIGURED"),
         advance("AWAITING_TEST_LAUNCH_APPROVAL") >>,
    LAUNCH_TEST_INSTANCE |->
      << call("start_test"), publish("POLL_TEST_INSTANCE_STATUS") >>,
    FINALIZE_TEST |-> << advance("CUTOVER_LAUNCH_TEMPLATE_CONFIGURED") >> ]

TestHandler ==
  [ CONFIGURE_TEST_LAUNCH_TEMPLATE |->
      << call("update_launch_configuration"),
         advance("TEST_LAUNCH_TEMPLATE_CONFIGURED"),
         advance("AWAITING_TEST_LAUNCH_APPROVAL") >>,
    LAUNCH_TEST_INSTANCE |->
      << call("start_test"), publish("POLL_TEST_INSTANCE_STATUS") >>,
    FINALIZE_TEST |->
      << call("terminate_target_instances"),
         advance("CUTOVER_LAUNCH_TEMPLATE_CONFIGURED") >> ]

CutoverHandler ==
  [ CONFIGURE_CUTOVER_LAUNCH_TEMPLATE |->
      << call("update_launch_configuration"),
         advance("AWAITING_CUTOVER_LAUNCH_APPROVAL") >>,
    START_CUTOVER |->
      << call("start_cutover"), advance("CUTOVER_SYNC_IN_PROGRESS"),
         publish("POLL_CUTOVER_SYNC_STATUS") >>,
    LAUNCH_CUTOVER_INSTANCE |->
      << call("describe_source_servers"), advance("CUTOVER_INSTANCE_LAUNCHING"),
         publish("POLL_CUTOVER_INSTANCE_STATUS") >>,
    FINALIZE_CUTOVER |->
      << call("finalize_cutover"), advance("DISCONNECTING"),
         publish("DISCONNECT_SOURCE_SERVER") >> ]

CleanupHandler ==
  [ DISCONNECT_SOURCE_SERVER |->
      << call("disconnect_from_service"), publish("POLL_DISCONNECT_STATUS") >>,
    ARCHIVE_SOURCE_SERVER |->
      << call("mark_as_archived"), advance("AWAITING_CLEANUP_APPROVAL") >>,
    DELETE_REPLICATION_COMPONENTS |-> << call("delete_source_server") >> ]

Handler ==
  [job \in MgnJobs |->
     CASE job \in DOMAIN OnboardingHandler  -> OnboardingHandler[job]
       [] job \in DOMAIN ReplicationHandler -> ReplicationHandler[job]
       [] job \in DOMAIN TestHandler        -> TestHandler[job]
       [] job \in DOMAIN CutoverHandler     -> CutoverHandler[job]
       [] job \in DOMAIN CleanupHandler     -> CleanupHandler[job]]

-----------------------------------------------------------------------------
(* _on_message, up to the stale message check.                             *)
MgnProgram(m) == << <<"require", VALID_STATES_FOR_JOB[m.job]>> >> \o Handler[m.job]

ReceiveJob(w) == Deliver(w, MgnProgram(NextMessage(w)))

(* A boto3 call of a handler that returns.                                 *)
Call(w) ==
  /\ Doing(w, "call")
  /\ CallAws(Operand(w), task[w].msg.aws)
  /\ Proceed(w)
  /\ UNCHANGED <<ledgerVars, queue>>

StoreAwsId(w) ==
  /\ Doing(w, "store_aws_id")
  /\ SetAwsSourceServerId(Subject(w), task[w].msg.aws)
  /\ Proceed(w)
  /\ UNCHANGED <<queue, awsVars>>

(* MgnResult.failed, or an exception in the loop: dead-lettered either way.*)
JobFails(w) ==
  /\ \/ Doing(w, "call") /\ CallRaises(Operand(w), task[w].msg.aws)
     \/ AdvanceRaises(w) /\ UNCHANGED awsVars
  /\ Nack(w)

MgnWorkerStep(w) ==
  \/ ReceiveJob(w) \/ CheckState(w) \/ Call(w) \/ StoreAwsId(w)
  \/ Advance(w, "system") \/ Publish(w) \/ JobFails(w) \/ Finish(w)
=============================================================================
