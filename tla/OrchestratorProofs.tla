------------------------- MODULE OrchestratorProofs -------------------------
(***************************************************************************)
(* Theorems about Orchestrator for every number of servers, workers,       *)
(* requests and engineers, and for all bounds: what a coroutine still has  *)
(* to do is always the rest of a handler, and every value keeps its type.  *)
(***************************************************************************)
EXTENDS Orchestrator, LifecycleFacts

(* The states that a server passes through while one operation of AWS is   *)
(* polled for it, by the jobs of which one leads to the next.              *)
Stage(job) ==
  CASE job \in {"START_REPLICATION", "POLL_REPLICATION_STATUS"} ->
         {"REPLICATION_STARTED"}
    [] job \in {"LAUNCH_TEST_INSTANCE", "POLL_TEST_INSTANCE_STATUS"} ->
         {"TEST_INSTANCE_LAUNCHING", "TEST_INSTANCE_RUNNING"}
    [] job \in {"START_CUTOVER", "POLL_CUTOVER_SYNC_STATUS"} ->
         {"CUTOVER_STARTED", "CUTOVER_SYNC_IN_PROGRESS"}
    [] job \in {"LAUNCH_CUTOVER_INSTANCE", "POLL_CUTOVER_INSTANCE_STATUS"} ->
         { "READY_FOR_CUTOVER_LAUNCH", "CUTOVER_INSTANCE_LAUNCHING",
           "CUTOVER_INSTANCE_RUNNING" }
    [] job \in {"FINALIZE_CUTOVER", "DISCONNECT_SOURCE_SERVER", "POLL_DISCONNECT_STATUS"} ->
         {"CUTOVER_FINALIZED", "DISCONNECTING", "DISCONNECTED"}
    [] OTHER -> {}

(* The states behind the stages: only the last step of a poll leads there. *)
StageExits ==
  { "READY_FOR_TESTING", "AWAITING_TEST_VALIDATION", "READY_FOR_CUTOVER_LAUNCH",
    "AWAITING_CUTOVER_VALIDATION", "AWAITING_ARCHIVE_APPROVAL" }

(* The i-th of the awaits that a coroutine still has to perform.           *)
StepShape(msg, todo, i) ==
  LET kind    == todo[i][1]
      operand == todo[i][2]
  IN /\ kind \in {"poll", "reenqueue"} => msg.job \in PollJobs
     /\ kind = "reenqueue" => msg.attempt < MaxPollAttempts
     /\ kind = "require" => i = 1
     /\ kind \in {"publish", "reenqueue", "poll", "plan"} => i = Len(todo)
     /\ kind = "advance" /\ operand \in ServedStates =>
          /\ i + 1 \in DOMAIN todo
          /\ \/ todo[i+1][1] = "advance"
             \/ todo[i+1][1] = "publish" /\ ExpectedState(todo[i+1][2]) = operand
     /\ kind = "advance" /\ operand \in StageExits =>
          i = Len(todo) /\ msg.job \in PollJobs

(* The states behind the gates: no worker moves a server there.            *)
Approved ==
  { "REPLICATION_STARTED", "TEST_INSTANCE_LAUNCHING", "TEST_FINALIZED",
    "CUTOVER_STARTED", "CUTOVER_FINALIZED", "ARCHIVED", "CLEANUP_COMPLETE" }

(* The jobs that lead to the gates named by ConfiguredGates.               *)
ConfigureJobs == SubmittedJobs \ {"ADD_SERVER"}

(* A worker has nothing to do for a server at a gate, publishes the next   *)
(* job of the stage it is in, and is done when it has moved a server to a  *)
(* gate.                                                                   *)
WorkerShape(msg, todo, i) ==
  /\ todo[i][1] = "require" => todo[i][2] \notin InProgressStates
  /\ todo[i][1] = "publish" =>
       Stage(todo[i][2]) # {} /\ Stage(todo[i][2]) = Stage(msg.job)
  /\ todo[i][1] = "advance" =>
       /\ todo[i][2] \notin Approved
       /\ todo[i][2] \in InProgressStates => i = Len(todo)
       /\ todo[i][2] \in ConfiguredGates => msg.job \in ConfigureJobs

RollbackShape(todo, i) ==
  \/ todo[i][1] \in {"plan", "undo"}
  \/ todo[i][1] = "advance" /\ todo[i][2] \in ErrorStates

RequestShape(msg, todo, i) ==
  \/ /\ todo[i][1] = "require"
     /\ i + 1 = Len(todo) => todo[i+1][1] = "advance" \/ msg.job \in SubmittedJobs
     /\ i + 1 = Len(todo) /\ todo[i+1] = advance("FAILED") => todo[i][2] \in InProgressStates
  \/ todo[i] = advance("FAILED") /\ i = Len(todo)
  \/ /\ i + 1 = Len(todo)
     /\ \E g \in Gates : /\ msg.job = g.job
                         /\ todo[i] = advance(g.next) /\ todo[i+1] = publish(g.job)
  \/ todo[i] = publish(msg.job)

Shape(p, msg, todo) ==
  /\ p \in MgnWorkers \cup Requests => msg.job \in MgnJobs
  /\ p \in PollerWorkers => msg.job \in PollJobs
  /\ \A i \in DOMAIN todo :
       /\ StepShape(msg, todo, i)
       /\ p \in Requests => RequestShape(msg, todo, i)
       /\ p \notin Requests => WorkerShape(msg, todo, i)
       /\ p \in FailedQueues => RollbackShape(todo, i)

TasksShape == \A p \in Processes : Busy(p) => Shape(p, task[p].msg, task[p].todo)

-----------------------------------------------------------------------------
(* The handlers of the MGN worker.                                         *)
LEMMA Handlers ==
  /\ Handler["ADD_SERVER"] =
       << call("confirm_agent"), <<"store_aws_id">>, advance("AGENT_INSTALLED") >>
  /\ Handler["CONFIGURE_REPLICATION_SETTINGS"] =
       << call("update_replication_configuration"), advance("REPLICATION_CONFIGURED"),
          advance("AWAITING_REPLICATION_APPROVAL") >>
  /\ Handler["START_REPLICATION"] =
       << call("start_replication"), publish("POLL_REPLICATION_STATUS") >>
  /\ Handler["CONFIGURE_TEST_LAUNCH_TEMPLATE"] =
       << call("update_launch_configuration"), advance("TEST_LAUNCH_TEMPLATE_CONFIGURED"),
          advance("AWAITING_TEST_LAUNCH_APPROVAL") >>
  /\ Handler["LAUNCH_TEST_INSTANCE"] =
       << call("start_test"), publish("POLL_TEST_INSTANCE_STATUS") >>
  /\ Handler["FINALIZE_TEST"] =
       << call("terminate_target_instances"), advance("CUTOVER_LAUNCH_TEMPLATE_CONFIGURED") >>
  /\ Handler["CONFIGURE_CUTOVER_LAUNCH_TEMPLATE"] =
       << call("update_launch_configuration"), advance("AWAITING_CUTOVER_LAUNCH_APPROVAL") >>
  /\ Handler["START_CUTOVER"] =
       << call("start_cutover"), advance("CUTOVER_SYNC_IN_PROGRESS"),
          publish("POLL_CUTOVER_SYNC_STATUS") >>
  /\ Handler["LAUNCH_CUTOVER_INSTANCE"] =
       << call("describe_source_servers"), advance("CUTOVER_INSTANCE_LAUNCHING"),
          publish("POLL_CUTOVER_INSTANCE_STATUS") >>
  /\ Handler["FINALIZE_CUTOVER"] =
       << call("finalize_cutover"), advance("DISCONNECTING"),
          publish("DISCONNECT_SOURCE_SERVER") >>
  /\ Handler["DISCONNECT_SOURCE_SERVER"] =
       << call("disconnect_from_service"), publish("POLL_DISCONNECT_STATUS") >>
  /\ Handler["ARCHIVE_SOURCE_SERVER"] =
       << call("mark_as_archived"), advance("AWAITING_CLEANUP_APPROVAL") >>
  /\ Handler["DELETE_REPLICATION_COMPONENTS"] = << call("delete_source_server") >>
  BY DEF Handler, OnboardingHandler, ReplicationHandler, TestHandler, CutoverHandler,
         CleanupHandler, MgnJobs, VALID_STATES_FOR_JOB

Shaped(msg, todo) ==
  /\ todo \in Seq(AwaitStep)
  /\ \A i \in DOMAIN todo : StepShape(msg, todo, i) /\ WorkerShape(msg, todo, i)

(* Each job has its handler with one stage of the migration.               *)
LEMMA HandlerOfStage ==
  ASSUME NEW job \in MgnJobs
  PROVE  \/ job \in DOMAIN OnboardingHandler \cup DOMAIN ReplicationHandler
         \/ job \in DOMAIN TestHandler
         \/ job \in DOMAIN CutoverHandler
         \/ job \in DOMAIN CleanupHandler
  BY DEF MgnJobs, VALID_STATES_FOR_JOB, OnboardingHandler, ReplicationHandler, TestHandler,
         CutoverHandler, CleanupHandler

LEMMA HandlerShapes ==
  ASSUME NEW msg, msg.job \in MgnJobs
  PROVE  Shaped(msg, Handler[msg.job])
  <1> USE DEF call, advance, publish, Shaped, StepShape, WorkerShape, Stage, StageExits,
          Approved, InProgressStates, ConfiguredGates, ConfigureJobs, SubmittedJobs,
          ServedStates, ExpectedState, MgnJobs, PollJobs, JobType, VALID_STATES_FOR_JOB,
          VALID_STATES_FOR_POLL, AwaitStep, Calls, ServerState
  <1>1. msg.job = "ADD_SERVER" =>
          Shaped(msg, << call("confirm_agent"),
            <<"store_aws_id">>, advance("AGENT_INSTALLED") >>)
    OBVIOUS
  <1>2. msg.job = "CONFIGURE_REPLICATION_SETTINGS" =>
          Shaped(msg, << call("update_replication_configuration"),
            advance("REPLICATION_CONFIGURED"), advance("AWAITING_REPLICATION_APPROVAL") >>)
    OBVIOUS
  <1>3. msg.job = "START_REPLICATION" =>
          Shaped(msg, << call("start_replication"), publish("POLL_REPLICATION_STATUS") >>)
    OBVIOUS
  <1>4. msg.job = "CONFIGURE_TEST_LAUNCH_TEMPLATE" =>
          Shaped(msg, << call("update_launch_configuration"), advance("TEST_LAUNCH_TEMPLATE_CONFIGURED"),
            advance("AWAITING_TEST_LAUNCH_APPROVAL") >>)
    OBVIOUS
  <1>5. msg.job = "LAUNCH_TEST_INSTANCE" =>
          Shaped(msg, << call("start_test"), publish("POLL_TEST_INSTANCE_STATUS") >>)
    OBVIOUS
  <1>6. msg.job = "FINALIZE_TEST" =>
          Shaped(msg, << call("terminate_target_instances"),
            advance("CUTOVER_LAUNCH_TEMPLATE_CONFIGURED") >>)
    OBVIOUS
  <1>7. msg.job = "CONFIGURE_CUTOVER_LAUNCH_TEMPLATE" =>
          Shaped(msg, << call("update_launch_configuration"),
            advance("AWAITING_CUTOVER_LAUNCH_APPROVAL") >>)
    OBVIOUS
  <1>8. msg.job = "START_CUTOVER" =>
          Shaped(msg, << call("start_cutover"), advance("CUTOVER_SYNC_IN_PROGRESS"),
            publish("POLL_CUTOVER_SYNC_STATUS") >>)
    OBVIOUS
  <1>9. msg.job = "LAUNCH_CUTOVER_INSTANCE" =>
          Shaped(msg, << call("describe_source_servers"), advance("CUTOVER_INSTANCE_LAUNCHING"),
            publish("POLL_CUTOVER_INSTANCE_STATUS") >>)
    OBVIOUS
  <1>10. msg.job = "FINALIZE_CUTOVER" =>
          Shaped(msg, << call("finalize_cutover"), advance("DISCONNECTING"),
            publish("DISCONNECT_SOURCE_SERVER") >>)
    OBVIOUS
  <1>11. msg.job = "DISCONNECT_SOURCE_SERVER" =>
          Shaped(msg, << call("disconnect_from_service"),
            publish("POLL_DISCONNECT_STATUS") >>)
    OBVIOUS
  <1>12. msg.job = "ARCHIVE_SOURCE_SERVER" =>
          Shaped(msg, << call("mark_as_archived"), advance("AWAITING_CLEANUP_APPROVAL") >>)
    OBVIOUS
  <1>13. msg.job = "DELETE_REPLICATION_COMPONENTS" =>
          Shaped(msg, << call("delete_source_server") >>)
    OBVIOUS
  <1> HIDE DEF call, advance, publish, Shaped, StepShape, WorkerShape, Stage, StageExits,
          Approved, InProgressStates, ConfiguredGates, ConfigureJobs, SubmittedJobs,
          ServedStates, ExpectedState, MgnJobs, PollJobs, JobType, VALID_STATES_FOR_JOB,
          VALID_STATES_FOR_POLL, AwaitStep, Calls, ServerState
  <1>15. CASE msg.job \in DOMAIN OnboardingHandler \cup DOMAIN ReplicationHandler
    BY <1>15, <1>1, <1>2, <1>3, Handlers DEF OnboardingHandler, ReplicationHandler
  <1>16. CASE msg.job \in DOMAIN TestHandler
    BY <1>16, <1>4, <1>5, <1>6, Handlers DEF TestHandler
  <1>17. CASE msg.job \in DOMAIN CutoverHandler
    BY <1>17, <1>7, <1>8, <1>9, <1>10, Handlers DEF CutoverHandler
  <1>18. CASE msg.job \in DOMAIN CleanupHandler
    BY <1>18, <1>11, <1>12, <1>13, Handlers DEF CleanupHandler
  <1>19. QED
    BY <1>15, <1>16, <1>17, <1>18, HandlerOfStage

(* No handler checks the state itself, and none gives a server up.         *)
LEMMA HandlerSteps ==
  ASSUME NEW job \in MgnJobs, NEW i \in DOMAIN Handler[job]
  PROVE  Handler[job][i][1] # "require" /\ Handler[job][i] # advance("FAILED")
  <1> DEFINE Plain(todo) ==
               \A k \in DOMAIN todo : todo[k][1] # "require" /\ todo[k] # advance("FAILED")
  <1>1. /\ Plain(Handler["ADD_SERVER"])
        /\ Plain(Handler["CONFIGURE_REPLICATION_SETTINGS"])
        /\ Plain(Handler["START_REPLICATION"])
    BY Handlers DEF call, advance, publish
  <1>2. /\ Plain(Handler["CONFIGURE_TEST_LAUNCH_TEMPLATE"])
        /\ Plain(Handler["LAUNCH_TEST_INSTANCE"])
        /\ Plain(Handler["FINALIZE_TEST"])
    BY Handlers DEF call, advance, publish
  <1>3. /\ Plain(Handler["CONFIGURE_CUTOVER_LAUNCH_TEMPLATE"])
        /\ Plain(Handler["START_CUTOVER"])
        /\ Plain(Handler["LAUNCH_CUTOVER_INSTANCE"])
        /\ Plain(Handler["FINALIZE_CUTOVER"])
    BY Handlers DEF call, advance, publish
  <1>4. /\ Plain(Handler["DISCONNECT_SOURCE_SERVER"])
        /\ Plain(Handler["ARCHIVE_SOURCE_SERVER"])
        /\ Plain(Handler["DELETE_REPLICATION_COMPONENTS"])
    BY Handlers DEF call, advance, publish
  <1> HIDE DEF Plain
  <1>5. Plain(Handler[job])
    BY <1>1, <1>2, <1>3, <1>4, HandlerOfStage
       DEF OnboardingHandler, ReplicationHandler, TestHandler, CutoverHandler, CleanupHandler
  <1>6. QED
    BY <1>5 DEF Plain

(* The programs of the consumers and of the requests.                      *)
LEMMA Prefixed ==
  ASSUME NEW S, NEW first \in S, NEW rest \in Seq(S)
  PROVE  LET all == <<first>> \o rest
         IN /\ all \in Seq(S) /\ all # <<>> /\ Len(all) = Len(rest) + 1
            /\ all[1] = first
            /\ \A i \in DOMAIN rest : i + 1 \in DOMAIN all /\ all[i+1] = rest[i]
            /\ \A i \in DOMAIN all : i = 1 \/ i - 1 \in DOMAIN rest
  OBVIOUS

LEMMA MgnProgramShape ==
  ASSUME NEW m \in Message, m.job \in MgnJobs
  PROVE  Shaped(m, MgnProgram(m))
  <1> DEFINE first == <<"require", VALID_STATES_FOR_JOB[m.job]>>
             rest  == Handler[m.job]
             all   == <<first>> \o rest
  <1>1. Shaped(m, rest)
    BY HandlerShapes
  <1>2. first \in AwaitStep
    BY DEF AwaitStep, MgnJobs, VALID_STATES_FOR_JOB, ServerState
  <1>3. rest \in Seq(AwaitStep)
    BY <1>1 DEF Shaped
  <1> HIDE DEF rest
  <1>4. /\ all \in Seq(AwaitStep) /\ Len(all) = Len(rest) + 1 /\ Len(rest) \in Nat
        /\ all[1] = first
        /\ \A i \in DOMAIN rest : i + 1 \in DOMAIN all /\ all[i+1] = rest[i]
        /\ \A i \in DOMAIN all : i = 1 \/ i - 1 \in DOMAIN rest
        /\ DOMAIN rest \subseteq Nat /\ DOMAIN all \subseteq Nat
    BY <1>2, <1>3, Prefixed
  <1>5. first[1] = "require" /\ first[2] \notin InProgressStates
    BY DEF MgnJobs, VALID_STATES_FOR_JOB, InProgressStates
  <1> HIDE DEF all, first
  <1>6. StepShape(m, all, 1) /\ WorkerShape(m, all, 1)
    BY <1>4, <1>5 DEF StepShape, WorkerShape
  <1>7. ASSUME NEW i \in DOMAIN rest
        PROVE  StepShape(m, all, i + 1) /\ WorkerShape(m, all, i + 1)
    <2>1. /\ StepShape(m, rest, i) /\ WorkerShape(m, rest, i)
      BY <1>1 DEF Shaped
    <2>2. all[i+1] = rest[i] /\ i \in Nat
      BY <1>4
    <2>3. i + 1 \in DOMAIN rest => all[i+1+1] = rest[i+1] /\ i + 1 + 1 \in DOMAIN all
      BY <1>4
    <2>4. rest[i][1] # "require"
      BY HandlerSteps DEF rest
    <2>5. QED
      BY <1>4, <2>1, <2>2, <2>3, <2>4 DEF StepShape, WorkerShape
  <1>8. \A i \in DOMAIN all : StepShape(m, all, i) /\ WorkerShape(m, all, i)
    <2>1. ASSUME NEW i \in DOMAIN all, i # 1
          PROVE  StepShape(m, all, i) /\ WorkerShape(m, all, i)
      <3>1. i - 1 \in DOMAIN rest /\ (i - 1) + 1 = i
        BY <1>4, <2>1
      <3>2. QED
        BY <1>7, <3>1
    <2>2. QED
      BY <1>6, <2>1
  <1>9. QED
    BY <1>4, <1>8 DEF Shaped, MgnProgram, all, first, rest

LEMMA PollerShapes ==
  ASSUME NEW m \in Message, m.job \in PollJobs
  PROVE  /\ Shaped(m, PollProgram(m))
         /\ Shaped(m, OnComplete(m))
         /\ m.attempt < MaxPollAttempts => Shaped(m, << <<"reenqueue">> >>)
  <1> USE DEF advance, Shaped, StepShape, WorkerShape, Stage, StageExits, ServedStates,
          Approved, InProgressStates, ConfiguredGates, ConfigureJobs, SubmittedJobs,
          ExpectedState, MgnJobs, PollJobs, JobType, VALID_STATES_FOR_JOB,
          VALID_STATES_FOR_POLL, AwaitStep, ServerState
  <1>1. ASSUME NEW state \in ServerState \ InProgressStates
        PROVE  Shaped(m, << <<"require", state>>, <<"poll">> >>)
    OBVIOUS
  <1>2. m.attempt < MaxPollAttempts => Shaped(m, << <<"reenqueue">> >>)
    OBVIOUS
  <1>3. m.job = "POLL_REPLICATION_STATUS" => Shaped(m, << advance("READY_FOR_TESTING") >>)
    OBVIOUS
  <1>4. m.job = "POLL_TEST_INSTANCE_STATUS" =>
          /\ Shaped(m, << advance("TEST_INSTANCE_RUNNING"), <<"publish", m.job, 2>> >>)
          /\ Shaped(m, << advance("AWAITING_TEST_VALIDATION") >>)
    OBVIOUS
  <1>5. m.job = "POLL_CUTOVER_SYNC_STATUS" =>
          Shaped(m, << advance("READY_FOR_CUTOVER_LAUNCH") >>)
    OBVIOUS
  <1>6. m.job = "POLL_CUTOVER_INSTANCE_STATUS" =>
          /\ Shaped(m, << advance("CUTOVER_INSTANCE_RUNNING"), <<"publish", m.job, 2>> >>)
          /\ Shaped(m, << advance("AWAITING_CUTOVER_VALIDATION") >>)
    OBVIOUS
  <1>7. m.job = "POLL_DISCONNECT_STATUS" =>
          Shaped(m, << advance("DISCONNECTED"), advance("AWAITING_ARCHIVE_APPROVAL") >>)
    OBVIOUS
  <1> HIDE DEF advance, Shaped, StepShape, WorkerShape, Stage, StageExits, ServedStates,
          Approved, InProgressStates, ConfiguredGates, ConfigureJobs, SubmittedJobs,
          ExpectedState, MgnJobs, PollJobs, JobType, VALID_STATES_FOR_JOB,
          VALID_STATES_FOR_POLL, AwaitStep, ServerState
  <1>8. Shaped(m, OnComplete(m))
    BY <1>3, <1>4, <1>5, <1>6, <1>7
       DEF OnComplete, InstanceHandler, PollJobs, VALID_STATES_FOR_POLL
  <1>9. Shaped(m, PollProgram(m))
    <2>1. VALID_STATES_FOR_POLL[m.job] \in ServerState \ InProgressStates
      BY DEF PollJobs, VALID_STATES_FOR_POLL, ServerState, InProgressStates
    <2>2. QED
      BY <1>1, <2>1 DEF PollProgram
  <1>10. QED
    BY <1>2, <1>8, <1>9

LEMMA RequestShapes ==
  ASSUME NEW r \in Requests, NEW msg, NEW todo,
         \/ /\ msg.job \in SubmittedJobs
            /\ todo = << <<"require", VALID_STATES_FOR_JOB[msg.job]>>, publish(msg.job) >>
         \/ \E g \in Gates :
              /\ msg.job = g.job
              /\ \/ todo = << <<"require", g.at>>, advance(g.next), publish(g.job) >>
                 \/ todo = << <<"require", g.at>>, advance("FAILED") >>
  PROVE  todo \in Seq(AwaitStep) /\ Shape(r, msg, todo)
  <1> USE ProcessesAssumption
  <1>1. CASE /\ msg.job \in SubmittedJobs
             /\ todo = << <<"require", VALID_STATES_FOR_JOB[msg.job]>>, publish(msg.job) >>
    <2>1. msg.job \in MgnJobs /\ VALID_STATES_FOR_JOB[msg.job] \in ServerState
      BY <1>1 DEF SubmittedJobs, MgnJobs, VALID_STATES_FOR_JOB, ServerState
    <2>2. todo \in Seq(AwaitStep)
      BY <1>1, <2>1 DEF AwaitStep, publish, JobType
    <2>3. QED
      <3>1. todo[2] # advance("FAILED")
        BY <1>1 DEF publish, advance
      <3>2. QED
        BY <1>1, <2>1, <2>2, <3>1 DEF Shape, StepShape, RequestShape, publish
  <1>2. ASSUME NEW g \in Gates, msg.job = g.job,
               todo = << <<"require", g.at>>, advance(g.next), publish(g.job) >>
        PROVE  todo \in Seq(AwaitStep) /\ Shape(r, msg, todo)
    <2>1. /\ g.job \in MgnJobs /\ g.at \in ServerState /\ g.next \in ServerState
          /\ VALID_STATES_FOR_JOB[g.job] = g.next /\ g.next \notin StageExits
      <3>1. StageExits \subseteq InProgressStates \cup {"READY_FOR_TESTING", "READY_FOR_CUTOVER_LAUNCH"}
        BY DEF StageExits, InProgressStates
      <3>2. g.next \notin {"READY_FOR_TESTING", "READY_FOR_CUTOVER_LAUNCH"}
        BY DEF Gates, ReplicationGates, TestGates, CutoverGates, CleanupGates
      <3>3. QED
        BY <3>1, <3>2, GateFacts DEF InProgressStates, ServerState
    <2>2. todo \in Seq(AwaitStep)
      BY <1>2, <2>1 DEF AwaitStep, publish, advance, JobType
    <2>3. ExpectedState(g.job) = g.next
      BY <2>1 DEF ExpectedState
    <2>4. \A i \in DOMAIN todo : StepShape(msg, todo, i)
      BY <1>2, <2>1, <2>3 DEF StepShape, publish, advance
    <2>5. \A i \in DOMAIN todo : RequestShape(msg, todo, i)
      <3>1. RequestShape(msg, todo, 1)
        BY <1>2, GateFacts DEF RequestShape
      <3>2. RequestShape(msg, todo, 2)
        BY <1>2 DEF RequestShape
      <3>3. RequestShape(msg, todo, 3)
        BY <1>2 DEF RequestShape
      <3>4. DOMAIN todo = {1, 2, 3}
        BY <1>2
      <3>5. QED
        BY <3>1, <3>2, <3>3, <3>4
    <2>6. QED
      BY <1>2, <2>1, <2>2, <2>4, <2>5 DEF Shape
  <1>3. ASSUME NEW g \in Gates, msg.job = g.job,
               todo = << <<"require", g.at>>, advance("FAILED") >>
        PROVE  todo \in Seq(AwaitStep) /\ Shape(r, msg, todo)
    <2>1. g.job \in MgnJobs /\ g.at \in ServerState /\ "FAILED" \in ServerState
      BY GateFacts DEF InProgressStates, ServerState
    <2>2. todo \in Seq(AwaitStep)
      BY <1>3, <2>1 DEF AwaitStep, advance
    <2>3. \A i \in DOMAIN todo : StepShape(msg, todo, i)
      BY <1>3 DEF StepShape, advance, ServedStates, StageExits
    <2>4. \A i \in DOMAIN todo : RequestShape(msg, todo, i)
      <3>1. RequestShape(msg, todo, 1)
        BY <1>3, GateFacts DEF RequestShape, advance
      <3>2. RequestShape(msg, todo, 2)
        BY <1>3 DEF RequestShape
      <3>3. DOMAIN todo = {1, 2}
        BY <1>3
      <3>4. QED
        BY <3>1, <3>2, <3>3
    <2>5. QED
      BY <1>3, <2>1, <2>2, <2>3, <2>4 DEF Shape
  <1>4. QED
    BY <1>1, <1>2, <1>3

(* What Plan leaves to do.                                                 *)
LEMMA PlanShape ==
  ASSUME NEW st, NEW id, NEW todo, todo = PlanProgram(st, id)
  PROVE  /\ todo \in Seq(AwaitStep)
         /\ todo = <<>> <=> st \in TerminalStates
         /\ \A i \in DOMAIN todo :
              \/ todo[i][1] = "undo" /\ i < Len(todo)
              \/ todo[i] = advance(IntendedFinalState(st)) /\ i = Len(todo)
  <1> DEFINE final == advance(IntendedFinalState(st))
  <1>1. final \in AwaitStep
    BY DEF advance, AwaitStep, IntendedFinalState, ServerState
  <1>2. ASSUME NEW op \in Calls
        PROVE  <<"undo", op>> \in AwaitStep
    BY DEF AwaitStep
  <1>3. \/ UndoSteps(st, id) = <<>>
        \/ \E op \in Calls : UndoSteps(st, id) = << <<"undo", op>> >>
    BY DEF UndoSteps, Calls
  <1>4. CASE st \in TerminalStates
    BY <1>4 DEF PlanProgram
  <1>5. CASE st \notin TerminalStates /\ UndoSteps(st, id) = <<>>
    <2>1. todo = <<>> \o <<final>>
      BY <1>5 DEF PlanProgram
    <2> HIDE DEF final
    <2>2. todo \in Seq(AwaitStep) /\ Len(todo) = 1 /\ todo[1] = final
      BY <2>1, <1>1
    <2>3. QED
      BY <1>5, <2>2 DEF final
  <1>6. ASSUME st \notin TerminalStates, NEW op \in Calls,
               UndoSteps(st, id) = << <<"undo", op>> >>
        PROVE  /\ todo \in Seq(AwaitStep) /\ Len(todo) = 2
               /\ todo[1] = <<"undo", op>> /\ todo[2] = final
    <2> DEFINE first == <<"undo", op>>
    <2>1. todo = << first >> \o <<final>> /\ first \in AwaitStep
      BY <1>2, <1>6 DEF PlanProgram
    <2> HIDE DEF final, first
    <2>2. todo \in Seq(AwaitStep) /\ Len(todo) = 2 /\ todo[1] = first /\ todo[2] = final
      BY <2>1, <1>1
    <2>3. QED
      BY <2>2 DEF first
  <1>7. CASE st \notin TerminalStates /\ \E op \in Calls : UndoSteps(st, id) = << <<"undo", op>> >>
    <2>1. PICK op \in Calls : UndoSteps(st, id) = << <<"undo", op>> >>
      BY <1>7
    <2>2. /\ todo \in Seq(AwaitStep) /\ Len(todo) = 2
          /\ todo[1] = <<"undo", op>> /\ todo[2] = final
      BY <1>6, <1>7, <2>1
    <2>3. \A i \in DOMAIN todo : i = 1 \/ i = 2
      BY <2>2
    <2>4. QED
      BY <1>7, <2>2, <2>3
  <1>8. QED
    BY <1>3, <1>4, <1>5, <1>7

-----------------------------------------------------------------------------
(* What is left of a program is a program of the same shape.               *)
LEMMA ShapeOfTail ==
  ASSUME NEW p, NEW msg, NEW todo \in Seq(AwaitStep), todo # <<>>, Shape(p, msg, todo)
  PROVE  Tail(todo) \in Seq(AwaitStep) /\ Shape(p, msg, Tail(todo))
  <1> DEFINE rest == Tail(todo)
  <1>1. /\ rest \in Seq(AwaitStep) /\ Len(todo) = Len(rest) + 1 /\ Len(rest) \in Nat
        /\ DOMAIN rest = 1..Len(rest) /\ DOMAIN todo = 1..Len(todo)
        /\ \A i \in DOMAIN rest : rest[i] = todo[i+1]
    OBVIOUS
  <1> HIDE DEF rest
  <1>2. SUFFICES ASSUME NEW i \in DOMAIN rest
                 PROVE  /\ StepShape(msg, rest, i)
                        /\ p \in Requests => RequestShape(msg, rest, i)
                        /\ p \notin Requests => WorkerShape(msg, rest, i)
                        /\ p \in FailedQueues => RollbackShape(rest, i)
    BY <1>1 DEF Shape, rest
  <1>3. /\ i \in Nat /\ i + 1 \in DOMAIN todo /\ rest[i] = todo[i+1] /\ i + 1 # 1
        /\ i = Len(rest) <=> i + 1 = Len(todo)
        /\ i + 1 = Len(rest) <=> i + 1 + 1 = Len(todo)
        /\ i + 1 + 1 \in DOMAIN todo <=> i + 1 \in DOMAIN rest
        /\ i + 1 \in DOMAIN rest => rest[i+1] = todo[i+1+1]
        /\ i + 1 = Len(rest) => i + 1 \in DOMAIN rest
    BY <1>1
  <1>4. /\ StepShape(msg, todo, i + 1)
        /\ p \in Requests => RequestShape(msg, todo, i + 1)
        /\ p \notin Requests => WorkerShape(msg, todo, i + 1)
        /\ p \in FailedQueues => RollbackShape(todo, i + 1)
    BY <1>3 DEF Shape
  <1>5. StepShape(msg, rest, i)
    BY <1>3, <1>4 DEF StepShape
  <1>6. p \in Requests => RequestShape(msg, rest, i)
    BY <1>3, <1>4 DEF RequestShape
  <1>7. QED
    BY <1>3, <1>4, <1>5, <1>6 DEF WorkerShape, RollbackShape

-----------------------------------------------------------------------------
(* The inductive invariant.  The handler of a message is looked up by its  *)
(* job, so each work queue must hold none but its own jobs.                *)
JobsRouted ==
  /\ \A i \in DOMAIN queue["mgn_jobs"] : queue["mgn_jobs"][i].job \in MgnJobs
  /\ \A i \in DOMAIN queue["poll_jobs"] : queue["poll_jobs"][i].job \in PollJobs

Core ==
  /\ LedgerTypeOK /\ BrokerTypeOK /\ AwsTypeOK /\ TasksTypeOK
  /\ JobsRouted /\ TasksShape

LEMMA Names ==
  /\ WorkQueues \cap FailedQueues = {}
  /\ {"mgn_jobs", "poll_jobs"} = WorkQueues
  /\ {"mgn_jobs.failed", "poll_jobs.failed"} = FailedQueues
  /\ MgnJobs \cap PollJobs = {}
  /\ \A job \in MgnJobs : QUEUE_ROUTING[job] = "mgn_jobs"
  /\ \A job \in PollJobs : QUEUE_ROUTING[job] = "poll_jobs"
  BY DEF WorkQueues, FailedQueues, MgnJobs, PollJobs, VALID_STATES_FOR_JOB,
         VALID_STATES_FOR_POLL, QUEUE_ROUTING, JobType

(* What is sent arrives in the queue of its job, or in a failed queue.     *)
LEMMA QueueSteps ==
  ASSUME Core, NEW m \in Message
  PROVE  /\ PublishMessage(m) => BrokerTypeOK' /\ JobsRouted'
         /\ DeadLetter(m) => BrokerTypeOK' /\ JobsRouted'
         /\ \A q : Take(q) => BrokerTypeOK' /\ JobsRouted'
         /\ UNCHANGED queue => BrokerTypeOK' /\ JobsRouted'
  <1> USE Names DEF Core, BrokerTypeOK
  <1>1. m.job \in MgnJobs \/ m.job \in PollJobs
    BY DEF Message, JobType
  <1>2. ASSUME NEW q \in WorkQueues \cup FailedQueues,
               queue' = [queue EXCEPT ![q] = Append(@, m)],
               q = "mgn_jobs" => m.job \in MgnJobs, q = "poll_jobs" => m.job \in PollJobs
        PROVE  BrokerTypeOK' /\ JobsRouted'
    <2>1. BrokerTypeOK'
      BY <1>2
    <2>2. \A k \in WorkQueues : \A i \in DOMAIN queue'[k] :
            \/ i \in DOMAIN queue[k] /\ queue'[k][i] = queue[k][i]
            \/ k = q /\ queue'[k][i] = m
      BY <1>2
    <2>3. QED
      BY <1>2, <2>1, <2>2 DEF JobsRouted
  <1>3. PublishMessage(m) => BrokerTypeOK' /\ JobsRouted'
    BY <1>1, <1>2 DEF PublishMessage
  <1>4. DeadLetter(m) => BrokerTypeOK' /\ JobsRouted'
    BY <1>2 DEF DeadLetter
  <1>5. ASSUME NEW q, Take(q)
        PROVE  BrokerTypeOK' /\ JobsRouted'
    <2>1. queue' = [queue EXCEPT ![q] = Tail(queue[q])] /\ queue[q] # <<>>
      BY <1>5 DEF Take
    <2>2. BrokerTypeOK'
      <3>1. q \in WorkQueues \cup FailedQueues => Tail(queue[q]) \in Seq(Message)
        BY <2>1
      <3>2. QED
        BY <2>1, <3>1
    <2>3. \A k \in WorkQueues : \A i \in DOMAIN queue'[k] :
            \E j \in DOMAIN queue[k] : queue'[k][i] = queue[k][j]
      <3>1. ASSUME NEW k \in WorkQueues, NEW i \in DOMAIN queue'[k]
            PROVE  \E j \in DOMAIN queue[k] : queue'[k][i] = queue[k][j]
        <4>1. CASE k = q
          <5>1. i + 1 \in DOMAIN queue[k] /\ queue'[k][i] = queue[k][i+1]
            BY <2>1, <4>1
          <5>2. QED
            BY <5>1
        <4>2. CASE k # q
          BY <2>1, <4>2
        <4>3. QED
          BY <4>1, <4>2
      <3>2. QED
        BY <3>1
    <2>4. QED
      BY <2>2, <2>3 DEF JobsRouted
  <1>6. UNCHANGED queue => BrokerTypeOK' /\ JobsRouted'
    BY DEF JobsRouted
  <1>7. QED
    BY <1>3, <1>4, <1>5, <1>6

LEMMA TaskSteps ==
  ASSUME Core, NEW p \in Processes
  PROVE  /\ \A t \in Task :
              Shape(p, t.msg, t.todo) /\ task' = [task EXCEPT ![p] = t]
                => TasksTypeOK' /\ TasksShape'
         /\ Leave(p) => TasksTypeOK' /\ TasksShape'
         /\ UNCHANGED task => TasksTypeOK' /\ TasksShape'
  BY DEF Core, TasksTypeOK, TasksShape, Leave, Busy

(* The next await of a process that is busy.                               *)
LEMMA Awaiting ==
  ASSUME Core, NEW p \in Processes, NEW kind, Doing(p, kind)
  PROVE  /\ task[p] \in Task /\ task[p].msg \in Message /\ Subject(p) \in Servers
         /\ task[p].todo \in Seq(AwaitStep) /\ task[p].todo # <<>>
         /\ Head(task[p].todo) = task[p].todo[1] /\ 1 \in DOMAIN task[p].todo
         /\ task[p].todo[1][1] = kind /\ Operand(p) = task[p].todo[1][2]
         /\ Shape(p, task[p].msg, task[p].todo)
         /\ kind \in {"require", "advance"} => Operand(p) \in ServerState
         /\ kind = "publish" => Operand(p) \in JobType /\ Head(task[p].todo)[3] \in {1, 2}
  <1>1. task[p] \in Task /\ task[p].todo # <<>> /\ Head(task[p].todo)[1] = kind
    BY DEF Core, TasksTypeOK, Doing, Busy
  <1>2. task[p].msg \in Message /\ task[p].todo \in Seq(AwaitStep)
    BY <1>1 DEF Task
  <1>3. Subject(p) \in Servers
    BY <1>2 DEF Subject, Message
  <1>4. /\ Head(task[p].todo) = task[p].todo[1] /\ 1 \in DOMAIN task[p].todo
        /\ task[p].todo[1] \in AwaitStep
    BY <1>1, <1>2
  <1>5. Shape(p, task[p].msg, task[p].todo)
    BY DEF Core, TasksShape, Doing
  <1>6. ASSUME NEW e \in AwaitStep
        PROVE  /\ e[1] \in {"require", "advance"} => e[2] \in ServerState
               /\ e[1] = "publish" => e[2] \in JobType /\ e[3] \in {1, 2}
    BY DEF AwaitStep
  <1>7. QED
    BY <1>1, <1>2, <1>3, <1>4, <1>5, <1>6 DEF Operand

(* It goes on: with the rest of its program, with another, or not at all.  *)
LEMMA GoingOn ==
  ASSUME Core, NEW p \in Processes, NEW kind, Doing(p, kind)
  PROVE  /\ Proceed(p) => TasksTypeOK' /\ TasksShape'
         /\ \A steps \in Seq(AwaitStep) :
              ContinueWith(p, steps) /\ Shape(p, task[p].msg, steps)
                => TasksTypeOK' /\ TasksShape'
         /\ ContinueWith(p, <<>>) => TasksTypeOK' /\ TasksShape'
  <1>1. ASSUME NEW steps \in Seq(AwaitStep), ContinueWith(p, steps),
               Shape(p, task[p].msg, steps)
        PROVE  TasksTypeOK' /\ TasksShape'
    <2> DEFINE t == [task[p] EXCEPT !.todo = steps]
    <2>1. task' = [task EXCEPT ![p] = t]
      BY <1>1 DEF ContinueWith
    <2>2. t \in Task /\ t.msg = task[p].msg /\ t.todo = steps
      BY Awaiting DEF Task
    <2> HIDE DEF t
    <2>3. QED
      BY <1>1, <2>1, <2>2, TaskSteps
  <1>2. Tail(task[p].todo) \in Seq(AwaitStep) /\ Shape(p, task[p].msg, Tail(task[p].todo))
    BY Awaiting, ShapeOfTail
  <1>3. Shape(p, task[p].msg, <<>>) /\ <<>> \in Seq(AwaitStep)
    BY Awaiting DEF Shape
  <1>4. QED
    BY <1>1, <1>2, <1>3 DEF Proceed

LEMMA InitCore == Init => Core
  <1> SUFFICES ASSUME Init PROVE Core
    OBVIOUS
  <1>1. LedgerTypeOK
    BY DEF Init, LedgerInit, LedgerTypeOK
  <1>2. BrokerTypeOK /\ JobsRouted
    BY Names DEF Init, BrokerInit, BrokerTypeOK, JobsRouted
  <1>3. AwsTypeOK
    BY ErrorsAssumption DEF Init, AwsInit, AwsTypeOK, Resources
  <1>4. TasksTypeOK /\ TasksShape
    BY DEF Init, TasksInit, TasksTypeOK, TasksShape, Busy
  <1>5. QED
    BY <1>1, <1>2, <1>3, <1>4 DEF Core

LEMMA AwsSteps ==
  ASSUME AwsTypeOK, NEW name, NEW id
  PROVE  (CallAws(name, id) \/ CallRaises(name, id) \/ UNCHANGED awsVars) => AwsTypeOK'
  <1>1. ASSUME CallAws(name, id)
        PROVE  AwsTypeOK'
    <2>1. Effect(name, aws[id]) \in SUBSET Resources
      BY <1>1 DEF CallAws, Effect, AwsTypeOK, Resources, Started
    <2>2. QED
      BY <1>1, <2>1 DEF CallAws, AwsTypeOK
  <1>2. ASSUME CallRaises(name, id) \/ UNCHANGED awsVars
        PROVE  AwsTypeOK'
    BY <1>2, ErrorsAssumption DEF CallRaises, AwsTypeOK, awsVars
  <1>3. QED
    BY <1>1, <1>2

(* What a worker or a request does to the ledger, the queues and AWS.      *)
LEMMA SharedSteps ==
  ASSUME Core, NEW p \in Processes
  PROVE  /\ \A by \in Actors : Advance(p, by) => Core'
         /\ Publish(p) => Core'
         /\ Finish(p) \/ CheckState(p) => Core'
         /\ Busy(p) /\ Nack(p) /\ AwsTypeOK' => Core'
  <1>1. /\ UNCHANGED ledgerVars => LedgerTypeOK'
        /\ UNCHANGED awsVars => AwsTypeOK'
        /\ UNCHANGED queue => BrokerTypeOK' /\ JobsRouted'
    BY DEF Core, LedgerTypeOK, ledgerVars, AwsTypeOK, awsVars, BrokerTypeOK, JobsRouted
  <1>2. ASSUME NEW by \in Actors, Advance(p, by)
        PROVE  Core'
    <2>1. Subject(p) \in Servers
      BY <1>2, Awaiting DEF Advance
    <2>2. QED
      BY <1>1, <1>2, <2>1, LedgerType, GoingOn DEF Advance, Core
  <1>3. ASSUME Publish(p)
        PROVE  Core'
    <2> DEFINE m == [NewMessage(Operand(p), task[p].msg.server, task[p].msg.aws)
                       EXCEPT !.phase = Head(task[p].todo)[3]]
    <2>1. m \in Message
      BY <1>3, Awaiting, AttemptsAssumption DEF Publish, NewMessage, Message
    <2>2. PublishMessage(m)
      BY <1>3 DEF Publish
    <2>3. QED
      BY <1>1, <1>3, <2>1, <2>2, QueueSteps, GoingOn DEF Publish, Core
  <1>4. ASSUME Finish(p) \/ CheckState(p)
        PROVE  Core'
    BY <1>1, <1>4, GoingOn, TaskSteps DEF Finish, CheckState, Core
  <1>5. ASSUME Busy(p), Nack(p), AwsTypeOK'
        PROVE  Core'
    <2>1. task[p].msg \in Message
      BY <1>5 DEF Busy, Core, TasksTypeOK, Task
    <2>2. QED
      BY <1>1, <1>5, <2>1, QueueSteps, TaskSteps DEF Nack, Core
  <1>6. QED
    BY <1>2, <1>3, <1>4, <1>5

LEMMA DeliverSteps ==
  ASSUME Core, NEW w, NEW steps \in Seq(AwaitStep), Deliver(w, steps),
         Shape(w, NextMessage(w), steps)
  PROVE  Core'
  <1>1. w \in Processes /\ SourceQueue(w) \in WorkQueues \cup FailedQueues
    BY Names DEF Deliver, Processes, Consumers, SourceQueue
  <1>2. queue[SourceQueue(w)] \in Seq(Message) /\ queue[SourceQueue(w)] # <<>>
    BY <1>1 DEF Deliver, Take, Core, BrokerTypeOK
  <1>3. NextMessage(w) \in Message
    BY <1>2 DEF NextMessage
  <1>4. BrokerTypeOK' /\ JobsRouted'
    BY <1>3, QueueSteps DEF Deliver
  <1>5. TasksTypeOK' /\ TasksShape'
    <2> DEFINE t == [msg |-> NextMessage(w), todo |-> steps]
    <2>1. t \in Task /\ t.msg = NextMessage(w) /\ t.todo = steps
      BY <1>3 DEF Task
    <2>2. task' = [task EXCEPT ![w] = t]
      BY DEF Deliver, Start
    <2> HIDE DEF t
    <2>3. QED
      BY <1>1, <2>1, <2>2, TaskSteps
  <1>6. QED
    BY <1>4, <1>5 DEF Deliver, Core, LedgerTypeOK, ledgerVars, AwsTypeOK, awsVars

(* The first message of a work queue has a job of that queue.              *)
LEMMA NextIsRouted ==
  ASSUME Core, NEW w, NEW steps, Deliver(w, steps)
  PROVE  /\ NextMessage(w) \in Message
         /\ w \in MgnWorkers => NextMessage(w).job \in MgnJobs
         /\ w \in PollerWorkers => NextMessage(w).job \in PollJobs
         /\ w \in Consumers /\ w \notin Requests \cup Orphans
  <1>1. /\ queue[SourceQueue(w)] \in Seq(Message) /\ queue[SourceQueue(w)] # <<>>
        /\ w \in Consumers
    BY Names DEF Deliver, Take, Core, BrokerTypeOK, SourceQueue, Consumers
  <1>2. NextMessage(w) = queue[SourceQueue(w)][1] /\ 1 \in DOMAIN queue[SourceQueue(w)]
    BY <1>1 DEF NextMessage
  <1>3. QED
    BY <1>1, <1>2, ProcessesAssumption DEF Core, JobsRouted, SourceQueue, Consumers

LEMMA MgnSteps ==
  ASSUME Core, NEW w \in MgnWorkers \cup Orphans, MgnWorkerStep(w)
  PROVE  Core'
  <1>1. w \in Processes /\ "system" \in Actors
    BY DEF Processes, Consumers, Actors
  <1>2. CASE ReceiveJob(w)
    <2> DEFINE m == NextMessage(w)
    <2>1. Deliver(w, MgnProgram(m))
      BY <1>2 DEF ReceiveJob
    <2>2. /\ m \in Message /\ m.job \in MgnJobs
          /\ w \notin Requests \cup PollerWorkers \cup FailedQueues
      BY <2>1, NextIsRouted, ProcessesAssumption
    <2>3. MgnProgram(m) \in Seq(AwaitStep) /\ Shape(w, m, MgnProgram(m))
      BY <2>2, MgnProgramShape DEF Shaped, Shape
    <2>4. QED
      BY <2>1, <2>3, DeliverSteps
  <1>3. CASE Call(w)
    BY <1>1, <1>3, AwsSteps, GoingOn
       DEF Call, Core, LedgerTypeOK, ledgerVars, BrokerTypeOK, JobsRouted
  <1>4. CASE StoreAwsId(w)
    <2>1. task[w].msg.aws \in AwsIds \cup {Null} /\ Subject(w) \in Servers
      BY <1>1, <1>4, Awaiting DEF StoreAwsId, Message
    <2>2. LedgerTypeOK'
      BY <1>4, <2>1, LedgerType DEF StoreAwsId, Core
    <2>3. QED
      BY <1>1, <1>4, <2>2, GoingOn
         DEF StoreAwsId, Core, AwsTypeOK, awsVars, BrokerTypeOK, JobsRouted
  <1>5. CASE JobFails(w)
    <2>1. Busy(w) /\ Nack(w)
      BY <1>5 DEF JobFails, AdvanceRaises, Doing
    <2>2. AwsTypeOK'
      BY <1>5, AwsSteps DEF JobFails, Core
    <2>3. QED
      BY <1>1, <2>1, <2>2, SharedSteps
  <1>6. QED
    BY <1>1, <1>2, <1>3, <1>4, <1>5, SharedSteps DEF MgnWorkerStep

LEMMA PollerSteps ==
  ASSUME Core, NEW w \in PollerWorkers \cup Orphans, PollerStep(w)
  PROVE  Core'
  <1>1. w \in Processes /\ "system" \in Actors /\ w \notin Requests \cup MgnWorkers \cup FailedQueues
    BY ProcessesAssumption DEF Processes, Consumers, Actors
  <1>2. ASSUME NEW m \in Message, m.job \in PollJobs, NEW steps, Shaped(m, steps)
        PROVE  steps \in Seq(AwaitStep) /\ Shape(w, m, steps)
    BY <1>1, <1>2 DEF Shaped, Shape
  <1>3. CASE ReceivePoll(w)
    <2> DEFINE m == NextMessage(w)
    <2>1. Deliver(w, PollProgram(m))
      BY <1>3 DEF ReceivePoll
    <2>2. m \in Message /\ m.job \in PollJobs
      BY <2>1, NextIsRouted
    <2>3. PollProgram(m) \in Seq(AwaitStep) /\ Shape(w, m, PollProgram(m))
      BY <1>2, <2>2, PollerShapes
    <2>4. QED
      BY <2>1, <2>3, DeliverSteps
  <1>4. ASSUME Doing(w, "poll") \/ Doing(w, "reenqueue")
        PROVE  /\ task[w].msg \in Message /\ task[w].msg.job \in PollJobs
               /\ Doing(w, "reenqueue") => task[w].msg.attempt < MaxPollAttempts
    <2>1. /\ 1 \in DOMAIN task[w].todo /\ Shape(w, task[w].msg, task[w].todo)
          /\ task[w].msg \in Message
          /\ \/ task[w].todo[1][1] = "poll" /\ ~Doing(w, "reenqueue")
             \/ task[w].todo[1][1] = "reenqueue"
      BY <1>1, <1>4, Awaiting
    <2>2. QED
      BY <2>1 DEF Shape, StepShape
  <1>5. CASE PollCompletes(w) \/ PollAgain(w)
    <2>1. \E steps : /\ ContinueWith(w, steps) /\ Doing(w, "poll")
                     /\ steps \in Seq(AwaitStep) /\ Shape(w, task[w].msg, steps)
      BY <1>2, <1>4, <1>5, PollerShapes DEF PollCompletes, PollAgain
    <2>2. QED
      BY <1>1, <1>5, <2>1, GoingOn
         DEF PollCompletes, PollAgain, Core, LedgerTypeOK, ledgerVars, AwsTypeOK, awsVars,
             BrokerTypeOK, JobsRouted
  <1>6. CASE Reenqueue(w)
    <2> DEFINE m == [task[w].msg EXCEPT !.attempt = @ + 1]
    <2>1. m \in Message
      BY <1>4, <1>6, AttemptsAssumption DEF Reenqueue, Message
    <2>2. PublishMessage(m)
      BY <1>6 DEF Reenqueue
    <2>3. QED
      BY <1>1, <1>6, <2>1, <2>2, QueueSteps, GoingOn
         DEF Reenqueue, Core, LedgerTypeOK, ledgerVars, AwsTypeOK, awsVars
  <1>7. CASE PollFails(w)
    <2>1. Busy(w) /\ Nack(w)
      BY <1>7 DEF PollFails, AdvanceRaises, Doing
    <2>2. AwsTypeOK'
      BY <1>7, AwsSteps DEF PollFails, Core
    <2>3. QED
      BY <1>1, <2>1, <2>2, SharedSteps
  <1>8. QED
    BY <1>1, <1>3, <1>5, <1>6, <1>7, SharedSteps DEF PollerStep

LEMMA RollbackSteps ==
  ASSUME Core, NEW w \in FailedQueues \cup Orphans, RollbackStep(w)
  PROVE  Core'
  <1>1. /\ w \in Processes /\ "system" \in Actors
        /\ w \notin Requests \cup MgnWorkers \cup PollerWorkers
    BY ProcessesAssumption DEF Processes, Consumers, Actors
  <1>2. CASE ReceiveFailure(w)
    <2> DEFINE m == NextMessage(w)
    <2>1. Deliver(w, RollbackProgram)
      BY <1>2 DEF ReceiveFailure
    <2>2. RollbackProgram \in Seq(AwaitStep) /\ Shape(w, m, RollbackProgram)
      BY <1>1 DEF RollbackProgram, AwaitStep, Shape, StepShape, WorkerShape, RollbackShape
    <2>3. QED
      BY <2>1, <2>2, DeliverSteps
  <1>3. CASE Plan(w)
    <2> DEFINE s == Subject(w)
               todo == PlanProgram(current_state[s], aws_source_server_id[s])
               t == [task[w] EXCEPT !.msg.aws = aws_source_server_id[s], !.todo = todo]
    <2>1. task[w] \in Task /\ s \in Servers
      BY <1>1, <1>3, Awaiting DEF Plan
    <2>2. todo \in Seq(AwaitStep)
      BY PlanShape
    <2>3. t \in Task /\ t.todo = todo
      BY <2>1, <2>2 DEF Task, Message, Core, LedgerTypeOK
    <2>4. task' = [task EXCEPT ![w] = t]
      BY <1>3 DEF Plan
    <2>5. Shape(w, t.msg, todo)
      <3>1. IntendedFinalState(current_state[s]) \in ErrorStates
        BY DEF IntendedFinalState, ErrorStates
      <3> HIDE DEF s, todo, t
      <3>2. ASSUME NEW i \in DOMAIN todo
            PROVE  \/ todo[i][1] = "undo"
                   \/ todo[i][1] = "advance" /\ todo[i][2] \in ErrorStates
        BY <3>1, <3>2, PlanShape DEF todo, advance
      <3>3. ErrorStates \cap (ServedStates \cup StageExits \cup Approved \cup InProgressStates) = {}
        BY DEF ErrorStates, ServedStates, StageExits, Approved, InProgressStates
      <3>4. ConfiguredGates \subseteq InProgressStates
        BY DEF ConfiguredGates, InProgressStates
      <3>5. QED
        BY <1>1, <3>2, <3>3, <3>4 DEF Shape, StepShape, WorkerShape, RollbackShape
    <2> HIDE DEF t, todo
    <2>6. TasksTypeOK' /\ TasksShape'
      BY <1>1, <2>3, <2>4, <2>5, TaskSteps
    <2>7. QED
      BY <1>3, <2>6 DEF Plan, Core, LedgerTypeOK, ledgerVars, AwsTypeOK, awsVars,
                       BrokerTypeOK, JobsRouted
  <1>4. CASE Undo(w)
    <2> DEFINE last == << advance("FROZEN") >>
    <2>1. last \in Seq(AwaitStep) /\ Shape(w, task[w].msg, last)
      BY <1>1 DEF advance, AwaitStep, ServerState, Shape, StepShape, WorkerShape,
                  RollbackShape, ErrorStates, ServedStates, StageExits, Approved,
                  InProgressStates, ConfiguredGates
    <2>2. AwsTypeOK'
      BY <1>4, AwsSteps DEF Undo, Core
    <2> HIDE DEF last
    <2>3. TasksTypeOK' /\ TasksShape'
      BY <1>1, <1>4, <2>1, GoingOn DEF Undo, last
    <2>4. QED
      BY <1>4, <2>2, <2>3 DEF Undo, Core, LedgerTypeOK, ledgerVars, BrokerTypeOK, JobsRouted
  <1>5. CASE RollbackFails(w)
    BY <1>1, <1>5, TaskSteps DEF RollbackFails, Core, LedgerTypeOK, ledgerVars, AwsTypeOK,
                                 awsVars, BrokerTypeOK, JobsRouted
  <1>6. QED
    BY <1>1, <1>2, <1>3, <1>4, <1>5, SharedSteps DEF RollbackStep

LEMMA RequestSteps ==
  ASSUME Core, NEW r \in Requests, RequestStep(r)
  PROVE  Core'
  <1>1. r \in Processes /\ Engineers \subseteq Actors
    BY DEF Processes, Actors
  <1>2. CASE RequireState(r)
    <2> DEFINE id == IF task[r].msg.aws = Null THEN aws_source_server_id[Subject(r)]
                                               ELSE task[r].msg.aws
               steps == IF current_state[Subject(r)] = Operand(r) THEN Tail(task[r].todo)
                                                                  ELSE <<>>
               t == [task[r] EXCEPT !.msg.aws = id, !.todo = steps]
    <2>1. /\ task[r] \in Task /\ Subject(r) \in Servers
          /\ task[r].todo \in Seq(AwaitStep) /\ task[r].todo # <<>>
          /\ Shape(r, task[r].msg, task[r].todo)
      BY <1>1, <1>2, Awaiting DEF RequireState
    <2>2. steps \in Seq(AwaitStep) /\ Shape(r, task[r].msg, steps)
      <3>1. Tail(task[r].todo) \in Seq(AwaitStep) /\ Shape(r, task[r].msg, Tail(task[r].todo))
        BY <2>1, ShapeOfTail
      <3>2. <<>> \in Seq(AwaitStep) /\ Shape(r, task[r].msg, <<>>)
        BY <2>1 DEF Shape
      <3>3. QED
        BY <3>1, <3>2
    <2>3. id \in AwsIds \cup {Null}
      BY <2>1 DEF Task, Message, Core, LedgerTypeOK
    <2>4. task' = [task EXCEPT ![r] = t]
      BY <1>2 DEF RequireState
    <2> HIDE DEF id, steps
    <2>5. /\ t \in Task /\ t.todo = steps
          /\ t.msg.job = task[r].msg.job /\ t.msg.attempt = task[r].msg.attempt
      BY <2>1, <2>2, <2>3 DEF Task, Message
    <2> HIDE DEF t
    <2>6. Shape(r, t.msg, t.todo)
      BY <2>2, <2>5 DEF Shape, StepShape, RequestShape, WorkerShape
    <2>7. QED
      BY <1>1, <1>2, <2>4, <2>5, <2>6, TaskSteps
         DEF RequireState, Core, LedgerTypeOK, ledgerVars, AwsTypeOK, awsVars,
             BrokerTypeOK, JobsRouted
  <1>3. CASE RequestFails(r)
    BY <1>1, <1>3, TaskSteps DEF RequestFails, Core, LedgerTypeOK, ledgerVars, AwsTypeOK,
                                 awsVars, BrokerTypeOK, JobsRouted
  <1>4. QED
    BY <1>1, <1>2, <1>3, SharedSteps DEF RequestStep

LEMMA NewRequestSteps == Core /\ NewRequest => Core'
  <1> SUFFICES ASSUME Core, NewRequest PROVE Core'
    OBVIOUS
  <1>1. PICK r \in Requests, s \in Servers :
          \/ \E id \in AwsIds : StartServer(r, s, id)
          \/ \E job \in SubmittedJobs \ {"ADD_SERVER"} : Configure(r, s, job)
          \/ \E g \in Gates : Approve(r, s, g) \/ Reject(r, s, g)
    BY DEF NewRequest
  <1>2. PICK id \in AwsIds \cup {Null}, job \in MgnJobs, steps \in Seq(AwaitStep) :
          Request(r, s, id, job, steps) /\ \A msg : msg.job = job => Shape(r, msg, steps)
    <2>1. ASSUME NEW id \in AwsIds, StartServer(r, s, id)
          PROVE  \E steps \in Seq(AwaitStep) : /\ Request(r, s, id, "ADD_SERVER", steps)
                                               /\ \A msg : msg.job = "ADD_SERVER" => Shape(r, msg, steps)
      <3> DEFINE steps == << <<"require", "PENDING">>, publish("ADD_SERVER") >>
      <3>1. "ADD_SERVER" \in SubmittedJobs /\ VALID_STATES_FOR_JOB["ADD_SERVER"] = "PENDING"
        BY DEF SubmittedJobs, VALID_STATES_FOR_JOB
      <3>2. \A msg : msg.job = "ADD_SERVER" => steps \in Seq(AwaitStep) /\ Shape(r, msg, steps)
        BY <3>1, RequestShapes
      <3>3. steps \in Seq(AwaitStep)
        BY <3>1 DEF AwaitStep, publish, JobType, MgnJobs, VALID_STATES_FOR_JOB, ServerState
      <3>4. QED
        BY <2>1, <3>2, <3>3 DEF StartServer
    <2>2. ASSUME NEW job \in SubmittedJobs, Configure(r, s, job)
          PROVE  \E steps \in Seq(AwaitStep) : /\ Request(r, s, Null, job, steps)
                                               /\ \A msg : msg.job = job => Shape(r, msg, steps)
      <3> DEFINE steps == << <<"require", VALID_STATES_FOR_JOB[job]>>, publish(job) >>
      <3>1. \A msg : msg.job = job => steps \in Seq(AwaitStep) /\ Shape(r, msg, steps)
        BY RequestShapes
      <3>2. [job |-> job].job = job
        OBVIOUS
      <3>3. steps \in Seq(AwaitStep)
        BY <3>1, <3>2
      <3>4. QED
        BY <2>2, <3>1, <3>3 DEF Configure
    <2>3. ASSUME NEW g \in Gates, Approve(r, s, g) \/ Reject(r, s, g)
          PROVE  \E steps \in Seq(AwaitStep) : /\ Request(r, s, Null, g.job, steps)
                                               /\ \A msg : msg.job = g.job => Shape(r, msg, steps)
      <3>1. PICK steps : /\ Request(r, s, Null, g.job, steps)
                         /\ \/ steps = << <<"require", g.at>>, advance(g.next), publish(g.job) >>
                            \/ steps = << <<"require", g.at>>, advance("FAILED") >>
        BY <2>3 DEF Approve, Reject
      <3>2. \A msg : msg.job = g.job => steps \in Seq(AwaitStep) /\ Shape(r, msg, steps)
        BY <3>1, RequestShapes
      <3>3. [job |-> g.job].job = g.job
        OBVIOUS
      <3>4. QED
        BY <3>1, <3>2, <3>3
    <2>4. SubmittedJobs \subseteq MgnJobs /\ "ADD_SERVER" \in MgnJobs /\ \A g \in Gates : g.job \in MgnJobs
      BY GateFacts DEF SubmittedJobs, MgnJobs, VALID_STATES_FOR_JOB
    <2>5. QED
      BY <1>1, <2>1, <2>2, <2>3, <2>4
  <1>3. Core'
    <2> DEFINE m == NewMessage(job, s, id)
               t == [msg |-> m, todo |-> steps]
    <2>1. m \in Message /\ m.job = job
      BY AttemptsAssumption DEF NewMessage, Message, JobType
    <2>2. t \in Task /\ t.msg = m /\ t.todo = steps
      BY <2>1 DEF Task
    <2>3. task' = [task EXCEPT ![r] = t]
      BY <1>2 DEF Request, Start
    <2>4. Shape(r, m, steps)
      BY <1>2, <2>1
    <2> HIDE DEF m, t
    <2>5. TasksTypeOK' /\ TasksShape'
      BY <2>2, <2>3, <2>4, TaskSteps DEF Processes
    <2>6. QED
      BY <1>2, <2>5 DEF Request, Core, LedgerTypeOK, ledgerVars, AwsTypeOK, awsVars,
                       BrokerTypeOK, JobsRouted
  <1>4. QED
    BY <1>3

(* A message that was not acknowledged goes back to the head of its queue. *)
LEMMA RedeliverySteps ==
  ASSUME Core, NEW w \in Consumers, Busy(w),
         NEW new \in Seq(Message), new = <<task[w].msg>> \o queue[SourceQueue(w)]
  PROVE  /\ SourceQueue(w) = "mgn_jobs" => \A i \in DOMAIN new : new[i].job \in MgnJobs
         /\ SourceQueue(w) = "poll_jobs" => \A i \in DOMAIN new : new[i].job \in PollJobs
  <1> DEFINE q == SourceQueue(w)
  <1>1. /\ q \in WorkQueues \cup FailedQueues
        /\ q = "mgn_jobs" => w \in MgnWorkers /\ queue[q] \in Seq(Message)
        /\ q = "poll_jobs" => w \in PollerWorkers /\ queue[q] \in Seq(Message)
    BY Names DEF SourceQueue, Consumers, Core, BrokerTypeOK
  <1>2. /\ w \in MgnWorkers => task[w].msg.job \in MgnJobs
        /\ w \in PollerWorkers => task[w].msg.job \in PollJobs
    BY DEF Core, TasksShape, Shape, Processes
  <1>3. queue[q] \in Seq(Message) =>
          \A i \in DOMAIN new : new[i] = task[w].msg \/ \E j \in DOMAIN queue[q] : new[i] = queue[q][j]
    <2> SUFFICES ASSUME queue[q] \in Seq(Message), NEW i \in DOMAIN new
                 PROVE  new[i] = task[w].msg \/ \E j \in DOMAIN queue[q] : new[i] = queue[q][j]
      OBVIOUS
    <2>1. task[w].msg \in Message
      BY DEF Busy, Core, TasksTypeOK, Task, Processes
    <2>2. i = 1 \/ i - 1 \in DOMAIN queue[q]
      BY <2>1, Prefixed
    <2>3. \A k \in DOMAIN queue[q] : new[k+1] = queue[q][k]
      BY <2>1, Prefixed
    <2>4. new[1] = task[w].msg
      BY <2>1, Prefixed
    <2>5. i \in Nat
      OBVIOUS
    <2>6. CASE i - 1 \in DOMAIN queue[q]
      BY <2>3, <2>5, <2>6
    <2>7. QED
      BY <2>2, <2>4, <2>6
  <1>4. QED
    BY <1>1, <1>2, <1>3 DEF Core, JobsRouted

(* A message that was in its queue, or that goes back to it.               *)
LEMMA QueueOfRedelivery ==
  ASSUME Core, NEW w \in Consumers, Busy(w)
  PROVE  /\ <<task[w].msg>> \o queue[SourceQueue(w)] \in Seq(Message)
         /\ SourceQueue(w) \in WorkQueues \cup FailedQueues
  <1>1. task[w].msg \in Message
    BY DEF Busy, Core, TasksTypeOK, Task, Processes
  <1>2. /\ SourceQueue(w) \in WorkQueues \cup FailedQueues
        /\ queue[SourceQueue(w)] \in Seq(Message)
    BY Names DEF SourceQueue, Consumers, Core, BrokerTypeOK
  <1>3. QED
    BY <1>1, <1>2, Prefixed

(* The queues that different consumers of one group read are different.    *)
LEMMA OneConsumerPerQueue ==
  ASSUME NEW group \in ProcessGroups,
         NEW v \in group \cap Consumers, NEW w \in group \cap Consumers,
         SourceQueue(v) = SourceQueue(w)
  PROVE  v = w
  BY ProcessesAssumption DEF ProcessGroups, Consumers, SourceQueue

LEMMA CrashSteps ==
  ASSUME Core, NEW group \in ProcessGroups, Crash(group)
  PROVE  Core'
  <1> DEFINE Killed(q) == \E w \in group \cap Consumers : Busy(w) /\ SourceQueue(w) = q
  <1>1. TasksTypeOK' /\ TasksShape'
    BY DEF Crash, Core, TasksTypeOK, TasksShape, Busy
  <1>2. ASSUME NEW q \in WorkQueues \cup FailedQueues
        PROVE  /\ queue'[q] \in Seq(Message)
               /\ q = "mgn_jobs" => \A i \in DOMAIN queue'[q] : queue'[q][i].job \in MgnJobs
               /\ q = "poll_jobs" => \A i \in DOMAIN queue'[q] : queue'[q][i].job \in PollJobs
    <2>1. CASE ~Killed(q)
      <3>1. queue'[q] = queue[q]
        BY <2>1 DEF Crash, Core, BrokerTypeOK
      <3>2. QED
        BY <3>1 DEF Core, BrokerTypeOK, JobsRouted
    <2>2. CASE Killed(q)
      <3>1. PICK w \in group \cap Consumers : Busy(w) /\ SourceQueue(w) = q
        BY <2>2
      <3> DEFINE c == CHOOSE v \in group \cap Consumers : SourceQueue(v) = q
      <3>2. c = w
        <4>1. c \in group \cap Consumers /\ SourceQueue(c) = q
          BY <3>1
        <4> HIDE DEF c
        <4>2. QED
          BY <3>1, <4>1, OneConsumerPerQueue
      <3>3. queue'[q] = <<task[c].msg>> \o queue[q]
        BY <2>2 DEF Crash, Core, BrokerTypeOK
      <3> HIDE DEF c
      <3>4. QED
        BY <3>1, <3>2, <3>3, RedeliverySteps, QueueOfRedelivery
    <2>3. QED
      BY <2>1, <2>2
  <1>3. BrokerTypeOK' /\ JobsRouted'
    BY <1>2, Names DEF BrokerTypeOK, JobsRouted, Crash, Core
  <1>4. QED
    BY <1>1, <1>3 DEF Crash, Core, LedgerTypeOK, ledgerVars, AwsTypeOK, awsVars

LEMMA LoseConnectionSteps ==
  ASSUME Core, NEW w \in Consumers, NEW orphan \in Orphans, LoseConnection(w, orphan)
  PROVE  Core'
  <1> DEFINE q == SourceQueue(w)
             new == <<task[w].msg>> \o queue[q]
  <1>1. Busy(w) /\ w # orphan /\ w \in Processes /\ orphan \in Processes
    BY ProcessesAssumption DEF LoseConnection, Consumers, Processes
  <1>2. task[w] \in Task /\ Shape(w, task[w].msg, task[w].todo)
    BY <1>1 DEF Core, TasksTypeOK, TasksShape, Busy
  <1>3. Shape(orphan, task[w].msg, task[w].todo)
    BY <1>2, ProcessesAssumption DEF Shape, Consumers
  <1>4. TasksTypeOK' /\ TasksShape'
    BY <1>1, <1>2, <1>3 DEF LoseConnection, Core, TasksTypeOK, TasksShape, Busy
  <1>5. /\ new \in Seq(Message) /\ q \in WorkQueues \cup FailedQueues
        /\ q = "mgn_jobs" => \A i \in DOMAIN new : new[i].job \in MgnJobs
        /\ q = "poll_jobs" => \A i \in DOMAIN new : new[i].job \in PollJobs
    BY <1>1, RedeliverySteps, QueueOfRedelivery
  <1>6. queue' = [queue EXCEPT ![q] = new]
    BY DEF LoseConnection
  <1> HIDE DEF q, new
  <1>7. BrokerTypeOK' /\ JobsRouted'
    BY <1>5, <1>6, Names DEF BrokerTypeOK, JobsRouted, Core
  <1>8. QED
    BY <1>4, <1>7 DEF LoseConnection, Core, LedgerTypeOK, ledgerVars, AwsTypeOK, awsVars

LEMMA FaultSteps ==
  ASSUME Core, NEW p \in Processes, Fault(p)
  PROVE  Core'
  <1>1. Busy(p) /\ (Nack(p) \/ (Leave(p) /\ UNCHANGED <<ledgerVars, queue>>))
    BY DEF Fault, Doing
  <1>2. AwsTypeOK'
    BY DEF Fault, Core, AwsTypeOK, awsVars
  <1>3. CASE Nack(p)
    BY <1>1, <1>2, <1>3, SharedSteps
  <1>4. CASE Leave(p) /\ UNCHANGED <<ledgerVars, queue>>
    BY <1>2, <1>4, TaskSteps DEF Core, LedgerTypeOK, ledgerVars, BrokerTypeOK, JobsRouted
  <1>5. QED
    BY <1>1, <1>3, <1>4

(* What engineers and operators do to a row without a process.             *)
LEMMA OperatorSteps ==
  ASSUME Core, NEW s \in Servers
  PROVE  Register(s) \/ Reset(s) \/ ManualAdvance(s) \/ ManualDispatch(s) => Core'
  <1>1. Engineers \subseteq Actors
    BY DEF Actors
  <1>2. /\ UNCHANGED task => TasksTypeOK' /\ TasksShape'
        /\ UNCHANGED awsVars => AwsTypeOK'
        /\ UNCHANGED ledgerVars => LedgerTypeOK'
        /\ UNCHANGED queue => BrokerTypeOK' /\ JobsRouted'
    BY DEF Core, TasksTypeOK, TasksShape, Busy, AwsTypeOK, awsVars, LedgerTypeOK,
           ledgerVars, BrokerTypeOK, JobsRouted
  <1>3. Register(s) => Core'
    BY <1>2, LedgerType DEF Register, Core
  <1>4. Reset(s) => Core'
    BY <1>1, <1>2, LedgerType DEF Reset, Core
  <1>5. ManualAdvance(s) => Core'
    BY <1>1, <1>2, LedgerType DEF ManualAdvance, Core
  <1>6. ASSUME ManualDispatch(s)
        PROVE  Core'
    <2>1. PICK job \in ManualJobs : PublishMessage(NewMessage(job, s, aws_source_server_id[s]))
      BY <1>6 DEF ManualDispatch
    <2>2. NewMessage(job, s, aws_source_server_id[s]) \in Message
      BY OrchestratorAssumption, AttemptsAssumption
         DEF NewMessage, Message, JobType, Core, LedgerTypeOK
    <2>3. QED
      BY <1>2, <1>6, <2>1, <2>2, QueueSteps DEF ManualDispatch, Core
  <1>7. QED
    BY <1>3, <1>4, <1>5, <1>6

LEMMA CoreStep == Core /\ [Next]_vars => Core'
  <1> SUFFICES ASSUME Core, [Next]_vars PROVE Core'
    OBVIOUS
  <1>1. ASSUME NEW w \in Consumers \cup Orphans, ConsumerStep(w)
        PROVE  Core'
    BY <1>1, MgnSteps, PollerSteps, RollbackSteps DEF ConsumerStep
  <1>2. ASSUME NEW w \in Consumers, NEW orphan \in Orphans, LoseConnection(w, orphan)
        PROVE  Core'
    BY <1>2, LoseConnectionSteps
  <1>3. CASE UNCHANGED vars
    BY <1>3 DEF vars, Core, LedgerTypeOK, ledgerVars, AwsTypeOK, awsVars, BrokerTypeOK,
                JobsRouted, TasksTypeOK, TasksShape, Busy
  <1>4. QED
    BY <1>1, <1>2, <1>3, RequestSteps, NewRequestSteps, OperatorSteps, CrashSteps, FaultSteps
       DEF Next

(* The bounds of what is counted hold by their guards.                     *)
Counters ==
  /\ hasty \in 0..MaxHasty /\ resets \in 0..MaxResets
  /\ crashes \in 0..MaxCrashes /\ faults \in 0..MaxFaults

LEMMA CountersStep == Counters /\ [Next]_vars => Counters'
  <1> SUFFICES ASSUME Counters, [Next]_vars PROVE Counters'
    OBVIOUS
  <1> USE ApiAssumption, OrchestratorAssumption DEF Counters
  <1>1. ASSUME NEW s, CountHasty(s)
        PROVE  hasty' \in 0..MaxHasty
    BY <1>1 DEF CountHasty
  <1>2. UNCHANGED apiBounds /\ UNCHANGED failures => Counters'
    BY DEF apiBounds, failures
  <1>3. ASSUME NewRequest, UNCHANGED failures
        PROVE  Counters'
    BY <1>1, <1>3 DEF NewRequest, StartServer, Configure, Approve, Reject, Request, failures
  <1>4. ASSUME NEW s \in Servers, Reset(s), UNCHANGED failures
        PROVE  Counters'
    BY <1>1, <1>4 DEF Reset, failures
  <1>5. ASSUME \/ \E group \in ProcessGroups : Crash(group)
               \/ \E w \in Consumers, orphan \in Orphans : LoseConnection(w, orphan)
        PROVE  Counters'
    <2>1. /\ crashes < MaxCrashes /\ crashes' = crashes + 1
          /\ UNCHANGED <<apiBounds, faults>>
      BY <1>5, Zenon DEF Crash, LoseConnection
    <2>2. QED
      BY <2>1 DEF apiBounds
  <1>6. ASSUME NEW p \in Processes, Fault(p)
        PROVE  Counters'
    BY <1>6 DEF Fault, apiBounds
  <1>7. QED
    BY <1>2, <1>3, <1>4, <1>5, <1>6
       DEF Next, ConsumerStep, RequestStep, Register, ManualAdvance, ManualDispatch, vars

LEMMA CoreHolds == Spec => []Core
  <1>1. Init => Core
    BY InitCore
  <1>2. Core /\ [Next]_vars => Core'
    BY CoreStep
  <1>3. QED
    BY <1>1, <1>2, PTL DEF Spec

(* Every value keeps its type, whatever crashes, faults and repeated calls *)
(* come: the queues hold none but well formed messages, each handler has a *)
(* legal rest to do, and no counter leaves its bound.                      *)
THEOREM OrchestratorTypeCorrect == Spec => []TypeOK
  <1>1. Init => Counters
    BY ApiAssumption, OrchestratorAssumption DEF Init, Counters
  <1>2. Counters /\ [Next]_vars => Counters'
    BY CountersStep
  <1>3. Core /\ Counters => TypeOK
    BY DEF Core, Counters, TypeOK
  <1>4. QED
    BY <1>1, <1>2, <1>3, CoreHolds, PTL DEF Spec

-----------------------------------------------------------------------------
(* Every step of a process concerns no other process, and only an advance  *)
(* moves a server.                                                         *)
OthersStay(w) == \A p \in Processes \ {w} : task'[p] = task[p]

LEMMA StepsAreLocal ==
  ASSUME Core, NEW p \in Processes
  PROVE  /\ ConsumerStep(p) => OthersStay(p)
         /\ RequestStep(p) => OthersStay(p)
  <1> USE DEF OthersStay, Core, TasksTypeOK
  <1>1. /\ \A steps : ContinueWith(p, steps) => OthersStay(p)
        /\ Proceed(p) => OthersStay(p)
        /\ Leave(p) => OthersStay(p)
    BY DEF ContinueWith, Proceed, Leave
  <1>2. /\ \A by : Advance(p, by) => OthersStay(p)
        /\ CheckState(p) \/ Publish(p) \/ Finish(p) \/ Nack(p) => OthersStay(p)
    BY DEF Advance, CheckState, Publish, Finish, Nack, Leave, Proceed, ContinueWith
  <1>3. ASSUME NEW steps, Deliver(p, steps)
        PROVE  OthersStay(p)
    BY <1>3 DEF Deliver, Start
  <1> HIDE DEF OthersStay, Core, TasksTypeOK
  <1>4. MgnWorkerStep(p) => OthersStay(p)
    BY <1>1, <1>2, <1>3 DEF MgnWorkerStep, ReceiveJob, Call, StoreAwsId, JobFails
  <1>5. PollerStep(p) => OthersStay(p)
    BY <1>1, <1>2, <1>3 DEF PollerStep, ReceivePoll, PollCompletes, PollAgain, Reenqueue, PollFails
  <1>6. Plan(p) \/ RequireState(p) => OthersStay(p)
    BY DEF Plan, RequireState, OthersStay, Core, TasksTypeOK
  <1>7. RollbackStep(p) => OthersStay(p)
    BY <1>1, <1>2, <1>3, <1>6 DEF RollbackStep, ReceiveFailure, Undo, RollbackFails
  <1>8. RequestStep(p) => OthersStay(p)
    BY <1>1, <1>2, <1>6 DEF RequestStep, RequestFails
  <1>9. QED
    BY <1>4, <1>5, <1>7, <1>8 DEF ConsumerStep

LEMMA NewRequestsAreLocal ==
  ASSUME Core, NewRequest
  PROVE  \E r \in Requests : OthersStay(r) /\ ~Busy(r) /\ UNCHANGED <<ledgerVars, queue>>
  <1>1. PICK r \in Requests : \E s, id, job, steps : Request(r, s, id, job, steps)
    BY Zenon DEF NewRequest, StartServer, Configure, Approve, Reject
  <1>2. QED
    BY <1>1 DEF Request, Start, OthersStay, Core, TasksTypeOK

LEMMA FaultsAreLocal ==
  ASSUME Core, NEW p \in Processes, Fault(p)
  PROVE  OthersStay(p) /\ Busy(p)
  BY DEF Fault, Doing, Nack, Leave, OthersStay, Core, TasksTypeOK

LEMMA OnlyAdvancesMove ==
  ASSUME NEW w, ConsumerStep(w), ~Advance(w, "system")
  PROVE  UNCHANGED <<current_state, newest>>
  <1>1. Nack(w) => UNCHANGED <<current_state, newest>>
    BY DEF Nack, ledgerVars
  <1>2. ASSUME NEW steps, Deliver(w, steps)
        PROVE  UNCHANGED <<current_state, newest>>
    BY <1>2 DEF Deliver, ledgerVars
  <1>3. CheckState(w) \/ Publish(w) \/ Finish(w) => UNCHANGED <<current_state, newest>>
    BY DEF CheckState, Publish, Finish, ledgerVars
  <1>4. MgnWorkerStep(w) => UNCHANGED <<current_state, newest>>
    BY <1>1, <1>2, <1>3 DEF MgnWorkerStep, ReceiveJob, Call, StoreAwsId, JobFails, ledgerVars,
                            SetAwsSourceServerId
  <1>5. PollerStep(w) => UNCHANGED <<current_state, newest>>
    BY <1>1, <1>2, <1>3 DEF PollerStep, ReceivePoll, PollCompletes, PollAgain, Reenqueue,
                            PollFails, ledgerVars
  <1>6. RollbackStep(w) => UNCHANGED <<current_state, newest>>
    BY <1>2, <1>3 DEF RollbackStep, ReceiveFailure, Plan, Undo, RollbackFails, ledgerVars
  <1>7. QED
    BY <1>4, <1>5, <1>6 DEF ConsumerStep

(* Without a lost connection there is no orphan.                           *)
NoOrphans == \A o \in Orphans : ~Busy(o)

LEMMA NoOrphanStep ==
  ASSUME Core, NoOrphans, MaxCrashes = 0, Counters, [Next]_vars
  PROVE  /\ NoOrphans'
         /\ \A group \in ProcessGroups : ~Crash(group)
         /\ \A w \in Consumers, o \in Orphans : ~LoseConnection(w, o)
         /\ \A o \in Orphans : ~ConsumerStep(o)
         /\ \A o \in Orphans : ~Fault(o)
  <1>1. ~(crashes < MaxCrashes)
    BY DEF Counters
  <1>2. /\ \A group \in ProcessGroups : ~Crash(group)
        /\ \A w \in Consumers, o \in Orphans : ~LoseConnection(w, o)
    BY <1>1, Zenon DEF Crash, LoseConnection
  <1>3. ASSUME NEW o \in Orphans
        PROVE  ~ConsumerStep(o)
    <2>1. ~Busy(o) /\ o \notin Consumers
      BY <1>3, ProcessesAssumption DEF NoOrphans, Consumers
    <2>2. ~MgnWorkerStep(o)
      BY <2>1 DEF MgnWorkerStep, ReceiveJob, Deliver, CheckState, Call, StoreAwsId, Advance,
                  Publish, JobFails, AdvanceRaises, Finish, Doing
    <2>3. ~PollerStep(o)
      BY <2>1 DEF PollerStep, ReceivePoll, Deliver, CheckState, PollCompletes, PollAgain,
                  Reenqueue, Advance, Publish, PollFails, AdvanceRaises, Finish, Doing
    <2>4. ~RollbackStep(o)
      BY <2>1 DEF RollbackStep, ReceiveFailure, Deliver, Plan, Undo, Advance, RollbackFails,
                  AdvanceRaises, Finish, Doing
    <2>5. QED
      BY <2>1, <2>2, <2>3, <2>4 DEF ConsumerStep, Consumers
  <1>4. ASSUME NEW o \in Orphans
        PROVE  ~Fault(o)
    BY <1>4 DEF NoOrphans, Fault, Doing
  <1>5. NoOrphans'
    <2>1. ASSUME NEW o \in Orphans
          PROVE  ~Busy(o)'
      <3>1. task[o] = NoTask /\ o \in Processes
        BY DEF NoOrphans, Busy, Processes
      <3>2. ASSUME NEW w \in Processes \ Orphans, OthersStay(w)
            PROVE  ~Busy(o)'
        BY <3>1, <3>2 DEF OthersStay, Busy
      <3>3. ASSUME NEW w \in Consumers, ConsumerStep(w)
            PROVE  ~Busy(o)'
        <4>1. w \in Processes \ Orphans
          BY ProcessesAssumption DEF Processes, Consumers
        <4>2. QED
          BY <3>2, <3>3, <4>1, StepsAreLocal
      <3>4. ASSUME NEW r \in Requests, RequestStep(r) \/ (OthersStay(r) /\ NewRequest)
            PROVE  ~Busy(o)'
        <4>1. r \in Processes \ Orphans
          BY ProcessesAssumption DEF Processes
        <4>2. QED
          BY <3>2, <3>4, <4>1, StepsAreLocal
      <3>5. CASE NewRequest
        BY <3>4, <3>5, NewRequestsAreLocal
      <3>6. UNCHANGED task => ~Busy(o)'
        BY <3>1 DEF Busy
      <3>7. ASSUME NEW t \in Servers,
                   Register(t) \/ Reset(t) \/ ManualAdvance(t) \/ ManualDispatch(t)
            PROVE  UNCHANGED task
        BY <3>7 DEF Register, Reset, ManualAdvance, ManualDispatch
      <3>8. ASSUME NEW p \in Processes, Fault(p)
            PROVE  ~Busy(o)'
        BY <1>4, <3>2, <3>8, FaultsAreLocal
      <3>9. QED
        BY <1>2, <1>3, <3>3, <3>4, <3>5, <3>6, <3>7, <3>8 DEF Next, vars
    <2>2. QED
      BY <2>1 DEF NoOrphans
  <1>6. QED
    BY <1>2, <1>3, <1>4, <1>5
=============================================================================
