-------------------------- MODULE LifecycleProofs --------------------------
(***************************************************************************)
(* The system implements MigrationLifecycle as long as nothing dies, no    *)
(* statement raises, engineers wait for the system, and each server has an *)
(* AWS id of its own: whatever AWS refuses, no gate is skipped, and at a   *)
(* gate, or after a failure, AWS has what the engineer is to find there.   *)
(* If no failed server is started again, a failure leaves nothing behind.  *)
(***************************************************************************)
EXTENDS PatienceProofs, SequenceTheorems

(* Nothing dies or raises, engineers wait, and scripts move a server only  *)
(* out of the states in which it waits for an instance that runs.          *)
Calm ==
  /\ MaxHasty = 0 /\ MaxCrashes = 0 /\ MaxFaults = 0
  /\ ManualStates \subseteq {"TEST_INSTANCE_RUNNING", "CUTOVER_INSTANCE_RUNNING"}

(* Each server has an AWS id of its own, from the store of it on.          *)
Ownership(own) ==
  /\ own \in [Servers -> AwsIds] /\ Null \notin AwsIds
  /\ \A s, t \in Servers : own[s] = own[t] => s = t

OwnIds(own) == \A s \in Servers : aws_source_server_id[s] \in {Null, own[s]}

-----------------------------------------------------------------------------
(* What runs in AWS for a server that is in state st.                      *)
Needs(st, run) ==
  /\ st \in { "READY_FOR_TESTING", "TEST_LAUNCH_TEMPLATE_CONFIGURED",
              "AWAITING_TEST_LAUNCH_APPROVAL", "TEST_INSTANCE_LAUNCHING",
              "TEST_INSTANCE_RUNNING", "AWAITING_TEST_VALIDATION", "TEST_FINALIZED",
              "CUTOVER_LAUNCH_TEMPLATE_CONFIGURED", "AWAITING_CUTOVER_LAUNCH_APPROVAL" }
       => "replication" \in run
  /\ st \in {"TEST_INSTANCE_RUNNING", "AWAITING_TEST_VALIDATION"} => "test" \in run
  /\ st \in {"CUTOVER_LAUNCH_TEMPLATE_CONFIGURED", "AWAITING_CUTOVER_LAUNCH_APPROVAL"}
       => "test" \notin run
  /\ st \in {"CUTOVER_INSTANCE_RUNNING", "AWAITING_CUTOVER_VALIDATION"} => "cutover" \in run
  /\ st \in { "DISCONNECTED", "AWAITING_ARCHIVE_APPROVAL", "ARCHIVED",
              "AWAITING_CLEANUP_APPROVAL" } => "replication" \notin run

(* The states from which more is needed than before.                       *)
Entries ==
  { "READY_FOR_TESTING", "TEST_INSTANCE_RUNNING", "CUTOVER_LAUNCH_TEMPLATE_CONFIGURED",
    "CUTOVER_INSTANCE_RUNNING", "DISCONNECTED" }

Ongoing == ServerState \ (InProgressStates \cup ErrorStates)

(* The states in which a message may be under way.  A poll of the second   *)
(* phase is stale when it arrives.                                         *)
JobFits(job, phase, st) ==
  \/ phase = 1 /\ st = ExpectedState(job)
  \/ phase = 2 /\ job = "POLL_TEST_INSTANCE_STATUS" /\ st = "TEST_INSTANCE_RUNNING"
  \/ phase = 2 /\ job = "POLL_CUTOVER_INSTANCE_STATUS" /\ st = "CUTOVER_INSTANCE_RUNNING"

(* The job whose handler makes a call that starts or stops something.      *)
CallFits(job, op) ==
  /\ op = "start_replication" => job = "START_REPLICATION"
  /\ op = "start_test" => job = "LAUNCH_TEST_INSTANCE"
  /\ op = "terminate_target_instances" => job = "FINALIZE_TEST"
  /\ op = "start_cutover" => job = "START_CUTOVER"
  /\ op = "disconnect_from_service" => job = "DISCONNECT_SOURCE_SERVER"
  /\ op = "delete_source_server" => job = "DELETE_REPLICATION_COMPONENTS"
  /\ op # "stop_replication"

(* How one await of a worker follows another.                              *)
WorkerLink(m, todo, i) ==
  LET e == todo[i]
      n == todo[i+1]
      more == i + 1 \in DOMAIN todo
      from == ExpectedState(m.job)
  IN /\ e[1] \notin {"plan", "undo"}
     /\ e[1] = "require" => e[2] = from /\ (more => n[1] \in {"call", "poll"})
     /\ e[1] = "call" =>
          /\ CallFits(m.job, e[2])
          /\ more => \/ /\ n[1] = "advance" /\ <<from, n[2]>> \in Forward
                        /\ n[2] \in Entries => e[2] = "terminate_target_instances"
                     \/ n[1] = "publish" /\ JobFits(n[2], n[3], from)
                     \/ n[1] = "store_aws_id"
     /\ e[1] = "store_aws_id" =>
          m.job = "ADD_SERVER" /\ (more => n = advance("AGENT_INSTALLED"))
     /\ e[1] = "advance" /\ more =>
          \/ n[1] = "advance" /\ <<e[2], n[2]>> \in Forward /\ n[2] \notin Entries
          \/ n[1] = "publish" /\ JobFits(n[2], n[3], e[2])
     /\ e[1] = "publish" => m.job # "ADD_SERVER"

(* How one await of a request follows another.                             *)
RequestLink(m, todo, i) ==
  LET e == todo[i]
      n == todo[i+1]
      more == i + 1 \in DOMAIN todo
  IN /\ e[1] \in {"require", "advance", "publish"}
     /\ e[1] = "publish" => e = publish(m.job)
     /\ e[1] = "advance" /\ more => n = publish(m.job) /\ e[2] = ExpectedState(m.job)
     /\ e[1] = "require" /\ more =>
          \/ n = publish(m.job) /\ e[2] = ExpectedState(m.job)
          \/ /\ n[1] = "advance" /\ e[2] \in InProgressStates
             /\ n[2] = "FAILED" \/ <<e[2], n[2]>> \in Forward

(* What a rollback ends in, without anything left of the stage if it is    *)
(* FAILED.                                                                 *)
MayEnd(st, to, run) ==
  /\ st \in Ongoing \ CompletedStates
  /\ \/ to = "FAILED" /\ GatesBefore(st) <= 3 /\ run \cap Lifecycle!StartedIn(GatesBefore(st)) = {}
     \/ to = "FROZEN" /\ GatesBefore(st) \in 1..6

-----------------------------------------------------------------------------
(* All that is under way: the messages in the queues, each with the        *)
(* program it will be handled by, and what the processes have left to do.  *)
Places ==
  {x \in AllQueues \X (Nat \ {0}) : x[2] \in DOMAIN queue[x[1]]}
    \cup {x \in Processes \X {0} : Busy(x[1]) /\ task[x[1]].todo # <<>>}

Program(q, m) ==
  IF q = "mgn_jobs" THEN MgnProgram(m) ELSE IF q = "poll_jobs" THEN PollProgram(m)
  ELSE RollbackProgram

Role(x) ==
  IF x[2] = 0 /\ x[1] \in Requests THEN "request"
  ELSE IF x[1] \in FailedQueues THEN "rollback" ELSE "worker"

MessageIn(x) == IF x[2] = 0 THEN task[x[1]].msg ELSE queue[x[1]][x[2]]
ToDo(x)      == IF x[2] = 0 THEN task[x[1]].todo ELSE Program(x[1], queue[x[1]][x[2]])

(* One at a time for each server.                                          *)
OneAtATime ==
  \A x, y \in Places : MessageIn(x).server = MessageIn(y).server => x = y

(* What is under way fits the row of the server: its state, its AWS id and *)
(* what runs for it.                                                       *)
WorkerFits(m, todo, st, id, run) ==
  LET e == todo[1]
  IN /\ \A i \in DOMAIN todo : WorkerLink(m, todo, i)
     /\ m.job = "ADD_SERVER" \/ m.aws = id
     /\ e[1] = "require" => JobFits(m.job, m.phase, st)
     /\ e[1] \in {"call", "store_aws_id", "poll", "reenqueue"} =>
          m.phase = 1 /\ st = ExpectedState(m.job)
     /\ e[1] = "store_aws_id" => m.aws \in AwsIds
     /\ e[1] = "publish" => JobFits(e[2], e[3], st)
     /\ e[1] = "advance" => <<st, e[2]>> \in Forward /\ Needs(e[2], run)

RequestFits(m, todo, st, id, run) ==
  LET e == todo[1]
  IN /\ \A i \in DOMAIN todo : RequestLink(m, todo, i)
     /\ e[1] = "require" => m.job = "ADD_SERVER" \/ m.aws = Null
     /\ e[1] # "require" => m.job = "ADD_SERVER" \/ m.aws = id
     /\ e[1] = "publish" => st = ExpectedState(m.job)
     /\ e[1] = "advance" =>
          st \in InProgressStates /\ (e[2] = "FAILED" \/ <<st, e[2]>> \in Forward)

RollbackFits(m, todo, st, id, run) ==
  LET e == todo[1]
  IN /\ e[1] \in {"plan", "undo", "advance"}
     /\ e[1] = "plan" => st \in Ongoing
     /\ e[1] = "undo" => /\ st \in Ongoing \ CompletedStates
                         /\ m.aws # Null /\ m.aws = id /\ todo = PlanProgram(st, id)
     /\ e[1] = "advance" => MayEnd(st, e[2], run) /\ Len(todo) = 1

Fits(role, m, todo, st, id, run) ==
  /\ st \in ServerState
  /\ role = "worker" => WorkerFits(m, todo, st, id, run)
  /\ role = "request" => RequestFits(m, todo, st, id, run)
  /\ role = "rollback" => RollbackFits(m, todo, st, id, run)

FitsAt(x) ==
  LET s == MessageIn(x).server
  IN Fits(Role(x), MessageIn(x), ToDo(x), current_state[s], aws_source_server_id[s], InAws(s))

AllFit == \A x \in Places : FitsAt(x)

(* AWS has what the state of a server needs, but while its rollback is at  *)
(* its last await.                                                         *)
Ends(w, s) == Doing(w, "advance") /\ Subject(w) = s

NeedsAreMet ==
  \A s \in Servers :
    Needs(current_state[s], InAws(s)) \/ \E w \in FailedQueues : Ends(w, s)

(* Nothing is started for a server that has no AWS id yet.                 *)
UnknownIsClean(own) ==
  \A s \in Servers : aws_source_server_id[s] = Null => aws[own[s]] \cap Started = {}

LifecycleInv(own) ==
  /\ Core /\ Counters /\ NoOrphans
  /\ OneAtATime /\ AllFit /\ NeedsAreMet /\ UnknownIsClean(own)

-----------------------------------------------------------------------------
(* What an engineer sees of a server.                                      *)
Passed(s) ==
  IF ~IsRegistered(s) THEN 0
  ELSE IF current_state[s] \in ErrorStates THEN GatesBefore(newest[s].from)
  ELSE GatesBefore(current_state[s])

Status(s) == LifecycleStatus(current_state[s])

(* One step of the lifecycle of a server.                                  *)
LifecycleStep(s) ==
  \/ Passed(s)' = Passed(s) /\ Status(s)' = Status(s) /\ InAws(s)' = InAws(s)
  \/ /\ InAws(s)' = InAws(s) /\ Passed(s)' = Passed(s)
     /\ \/ Status(s) = "absent" /\ Status(s)' = "active"
        \/ /\ Status(s) = "active" /\ Status(s)' = "held"
           /\ Passed(s) <= 6 /\ Lifecycle!Ready(Passed(s), InAws(s))
        \/ Status(s) = "held" /\ Status(s)' = "failed"
        \/ /\ Status(s) = "active" /\ Status(s)' = "failed"
           /\ Passed(s) <= 3 /\ InAws(s) \cap Lifecycle!StartedIn(Passed(s)) = {}
        \/ /\ Status(s) = "active" /\ Status(s)' = "frozen" /\ Passed(s) \in 1..6
  \/ /\ InAws(s)' = InAws(s) /\ Status(s)' = "active"
     /\ \/ Status(s) = "held" /\ Passed(s)' = Passed(s) + 1
        \/ Status(s) = "failed" /\ Passed(s)' = 0
  \/ /\ Passed(s)' = Passed(s) /\ Status(s) = "active" /\ Status(s)' = "active"
     /\ \/ \E what \in SUBSET Lifecycle!StartedIn(Passed(s)) : InAws(s)' = InAws(s) \cup what
        \/ \E what \in SUBSET Lifecycle!StoppedIn(Passed(s)) : InAws(s)' = InAws(s) \ what

Unseen(s) == Passed(s)' = Passed(s) /\ Status(s)' = Status(s) /\ InAws(s)' = InAws(s)

LEMMA OneServerSteps ==
  ASSUME NEW s \in Servers, LifecycleStep(s), \A t \in Servers \ {s} : Unseen(t)
  PROVE  [Lifecycle!LifecycleNext]_(Lifecycle!lifecycleVars)
  <1> DEFINE passed  == [t \in Servers |-> IF ~IsRegistered(t) THEN 0
                ELSE IF current_state[t] \in ErrorStates THEN GatesBefore(newest[t].from)
                ELSE GatesBefore(current_state[t])]
             status  == [t \in Servers |-> LifecycleStatus(current_state[t])]
             running == [t \in Servers |-> InAws(t)]
  <1>1. /\ passed[s] = Passed(s) /\ status[s] = Status(s) /\ running[s] = InAws(s)
        /\ passed' = [passed EXCEPT ![s] = Passed(s)']
        /\ status' = [status EXCEPT ![s] = Status(s)']
        /\ running' = [running EXCEPT ![s] = InAws(s)']
    <2>1. /\ \A t \in Servers : passed[t] = Passed(t) /\ passed'[t] = Passed(t)'
          /\ passed = [t \in Servers |-> passed[t]] /\ passed' = [t \in Servers |-> passed'[t]]
      BY DEF Passed
    <2>2. /\ \A t \in Servers : status[t] = Status(t) /\ status'[t] = Status(t)'
          /\ status = [t \in Servers |-> status[t]] /\ status' = [t \in Servers |-> status'[t]]
      BY DEF Status
    <2>3. /\ \A t \in Servers : running[t] = InAws(t) /\ running'[t] = InAws(t)'
          /\ running = [t \in Servers |-> running[t]] /\ running' = [t \in Servers |-> running'[t]]
      OBVIOUS
    <2> HIDE DEF passed, status, running
    <2>4. \A t \in Servers \ {s} : /\ passed'[t] = passed[t] /\ status'[t] = status[t]
                                   /\ running'[t] = running[t]
      BY <2>1, <2>2, <2>3 DEF Unseen
    <2>5. passed' = [passed EXCEPT ![s] = Passed(s)']
      BY <2>1, <2>4
    <2>6. status' = [status EXCEPT ![s] = Status(s)']
      BY <2>2, <2>4
    <2>7. running' = [running EXCEPT ![s] = InAws(s)']
      BY <2>3, <2>4
    <2>8. QED
      BY <2>1, <2>2, <2>3, <2>5, <2>6, <2>7
  <1>2. /\ passed = [passed EXCEPT ![s] = passed[s]]
        /\ status = [status EXCEPT ![s] = status[s]]
        /\ running = [running EXCEPT ![s] = running[s]]
    OBVIOUS
  <1>3. /\ Lifecycle!Register(s) <=>
             status[s] = "absent" /\ status' = [status EXCEPT ![s] = "active"]
             /\ passed' = passed /\ running' = running
        /\ Lifecycle!ReachGate(s) <=>
             status[s] = "active" /\ passed[s] <= 6 /\ Lifecycle!Ready(passed[s], running[s])
             /\ status' = [status EXCEPT ![s] = "held"] /\ passed' = passed /\ running' = running
        /\ Lifecycle!Approve(s) <=>
             status[s] = "held" /\ passed' = [passed EXCEPT ![s] = passed[s] + 1]
             /\ status' = [status EXCEPT ![s] = "active"] /\ running' = running
        /\ Lifecycle!Reject(s) <=>
             status[s] = "held" /\ status' = [status EXCEPT ![s] = "failed"]
             /\ passed' = passed /\ running' = running
    BY DEF Lifecycle!Register, Lifecycle!ReachGate, Lifecycle!Approve, Lifecycle!Reject,
           Lifecycle!Become, Lifecycle!LastGate, passed, status, running
  <1>4. /\ Lifecycle!Fail(s) <=>
             status[s] = "active" /\ passed[s] <= 3
             /\ running[s] \cap Lifecycle!StartedIn(passed[s]) = {}
             /\ status' = [status EXCEPT ![s] = "failed"] /\ passed' = passed /\ running' = running
        /\ Lifecycle!Freeze(s) <=>
             status[s] = "active" /\ passed[s] \in 1..6
             /\ status' = [status EXCEPT ![s] = "frozen"] /\ passed' = passed /\ running' = running
        /\ Lifecycle!Reset(s) <=>
             status[s] = "failed" /\ passed' = [passed EXCEPT ![s] = 0]
             /\ status' = [status EXCEPT ![s] = "active"] /\ running' = running
    BY DEF Lifecycle!Fail, Lifecycle!Freeze, Lifecycle!Reset,
           Lifecycle!Become, Lifecycle!LastGate, passed, status, running
  <1>5. Lifecycle!Operate(s) <=>
          /\ status[s] = "active"
          /\ \E what \in SUBSET (Lifecycle!StartedIn(passed[s]) \cup Lifecycle!StoppedIn(passed[s])) :
               \/ /\ what \subseteq Lifecycle!StartedIn(passed[s])
                  /\ running' = [running EXCEPT ![s] = running[s] \cup what]
               \/ /\ what \subseteq Lifecycle!StoppedIn(passed[s])
                  /\ running' = [running EXCEPT ![s] = running[s] \ what]
          /\ passed' = passed /\ status' = status
    BY DEF Lifecycle!Operate, passed, status, running
  <1>6. /\ UNCHANGED Lifecycle!lifecycleVars <=> passed' = passed /\ status' = status /\ running' = running
    BY DEF Lifecycle!lifecycleVars, passed, status, running
  <1> HIDE DEF passed, status, running
  <1>7. /\ Passed(s)' = Passed(s) => passed' = passed
        /\ Status(s)' = Status(s) => status' = status
        /\ InAws(s)' = InAws(s) => running' = running
    BY <1>1, <1>2
  <1>8. \/ UNCHANGED Lifecycle!lifecycleVars
        \/ Lifecycle!Register(s) \/ Lifecycle!ReachGate(s) \/ Lifecycle!Approve(s)
        \/ Lifecycle!Reject(s) \/ Lifecycle!Operate(s) \/ Lifecycle!Fail(s)
        \/ Lifecycle!Freeze(s) \/ Lifecycle!Reset(s)
    <2>1. CASE Unseen(s)
      BY <1>6, <1>7, <2>1 DEF Unseen
    <2>2. CASE /\ InAws(s)' = InAws(s) /\ Passed(s)' = Passed(s)
               /\ \/ Status(s) = "absent" /\ Status(s)' = "active"
                  \/ /\ Status(s) = "active" /\ Status(s)' = "held"
                     /\ Passed(s) <= 6 /\ Lifecycle!Ready(Passed(s), InAws(s))
                  \/ Status(s) = "held" /\ Status(s)' = "failed"
      BY <1>1, <1>3, <1>7, <2>2
    <2>3. CASE /\ InAws(s)' = InAws(s) /\ Passed(s)' = Passed(s)
               /\ \/ /\ Status(s) = "active" /\ Status(s)' = "failed"
                     /\ Passed(s) <= 3 /\ InAws(s) \cap Lifecycle!StartedIn(Passed(s)) = {}
                  \/ /\ Status(s) = "active" /\ Status(s)' = "frozen" /\ Passed(s) \in 1..6
      BY <1>1, <1>4, <1>7, <2>3
    <2>4. CASE /\ InAws(s)' = InAws(s) /\ Status(s)' = "active"
               /\ \/ Status(s) = "held" /\ Passed(s)' = Passed(s) + 1
                  \/ Status(s) = "failed" /\ Passed(s)' = 0
      BY <1>1, <1>3, <1>4, <1>7, <2>4
    <2>5. CASE /\ Passed(s)' = Passed(s) /\ Status(s) = "active" /\ Status(s)' = "active"
               /\ \/ \E what \in SUBSET Lifecycle!StartedIn(Passed(s)) : InAws(s)' = InAws(s) \cup what
                  \/ \E what \in SUBSET Lifecycle!StoppedIn(Passed(s)) : InAws(s)' = InAws(s) \ what
      <3>1. passed' = passed /\ status' = status /\ status[s] = "active"
        BY <1>1, <1>7, <2>5
      <3>2. ASSUME NEW what \in SUBSET Lifecycle!StartedIn(Passed(s)), InAws(s)' = InAws(s) \cup what
            PROVE  Lifecycle!Operate(s)
        <4>1. /\ running' = [running EXCEPT ![s] = running[s] \cup what]
              /\ what \subseteq Lifecycle!StartedIn(passed[s])
              /\ what \in SUBSET (Lifecycle!StartedIn(passed[s]) \cup Lifecycle!StoppedIn(passed[s]))
          BY <1>1, <3>2
        <4>2. QED
          BY <1>5, <3>1, <4>1
      <3>3. ASSUME NEW what \in SUBSET Lifecycle!StoppedIn(Passed(s)), InAws(s)' = InAws(s) \ what
            PROVE  Lifecycle!Operate(s)
        <4>1. /\ running' = [running EXCEPT ![s] = running[s] \ what]
              /\ what \subseteq Lifecycle!StoppedIn(passed[s])
              /\ what \in SUBSET (Lifecycle!StartedIn(passed[s]) \cup Lifecycle!StoppedIn(passed[s]))
          BY <1>1, <3>3
        <4>2. QED
          BY <1>5, <3>1, <4>1
      <3>4. QED
        BY <2>5, <3>2, <3>3
    <2>6. QED
      BY <2>1, <2>2, <2>3, <2>4, <2>5 DEF LifecycleStep, Unseen
  <1>9. QED
    BY <1>8 DEF Lifecycle!LifecycleNext

-----------------------------------------------------------------------------
(* A step for one server: the processes of P work for it, if for any, and  *)
(* y is the one place at which it may be found afterwards.                 *)
RowStays(own, t) ==
  /\ current_state'[t] = current_state[t] /\ newest'[t] = newest[t]
  /\ aws_source_server_id'[t] = aws_source_server_id[t]
  /\ aws'[own[t]] = aws[own[t]]

OthersRowsStay(own, s) == \A t \in Servers \ {s} : RowStays(own, t)

Settled(own) ==
  /\ OneAtATime' /\ AllFit' /\ NeedsAreMet' /\ UnknownIsClean(own)'
  /\ [Lifecycle!LifecycleNext]_(Lifecycle!lifecycleVars)

LEMMA PlaceTypes ==
  ASSUME Core, NEW x \in Places
  PROVE  /\ x = <<x[1], x[2]>> /\ x[2] \in Nat
         /\ MessageIn(x) \in Message /\ MessageIn(x).server \in Servers
         /\ x[2] = 0 => /\ x[1] \in Processes /\ Busy(x[1]) /\ task[x[1]] \in Task
                        /\ task[x[1]].todo # <<>>
         /\ x[2] # 0 => x[1] \in AllQueues /\ x[2] \in DOMAIN queue[x[1]]
  <1>1. /\ x = <<x[1], x[2]>> /\ x[2] \in Nat
        /\ x[2] = 0 => x[1] \in Processes /\ Busy(x[1]) /\ task[x[1]].todo # <<>>
        /\ x[2] # 0 => x[1] \in AllQueues /\ x[2] \in DOMAIN queue[x[1]]
    BY DEF Places
  <1>2. x[2] = 0 => task[x[1]] \in Task
    BY <1>1 DEF Core, TasksTypeOK, Busy
  <1>3. MessageIn(x) \in Message
    <2>1. CASE x[2] = 0
      BY <1>2, <2>1 DEF Task, MessageIn
    <2>2. CASE x[2] # 0
      BY <1>1, <2>2, QueuesAreSequences DEF MessageIn
    <2>3. QED
      BY <2>1, <2>2
  <1>4. QED
    BY <1>1, <1>2, <1>3 DEF Message

LEMMA AtProcess ==
  ASSUME NEW p \in Processes
  PROVE  /\ << p, 0 >> \in Places <=> Busy(p) /\ task[p].todo # <<>>
         /\ MessageIn(<< p, 0 >>) = task[p].msg /\ ToDo(<< p, 0 >>) = task[p].todo
         /\ Role(<< p, 0 >>) = IF p \in Requests THEN "request"
                               ELSE IF p \in FailedQueues THEN "rollback" ELSE "worker"
  BY DEF Places, MessageIn, ToDo, Role

LEMMA RowsAreUnseen ==
  ASSUME NEW own, OwnIds(own), NEW t \in Servers, RowStays(own, t)
  PROVE  Unseen(t)
  <1>1. InAws(t)' = InAws(t)
    BY DEF OwnIds, RowStays, InAws
  <1>2. Passed(t)' = Passed(t) /\ Status(t)' = Status(t)
    BY DEF RowStays, Passed, Status, IsRegistered
  <1>3. QED
    BY <1>1, <1>2 DEF Unseen

(* What fitting in the next state is.                                      *)
LEMMA FitsNext ==
  ASSUME NEW y, NEW s, MessageIn(y)'.server = s
  PROVE  FitsAt(y)' <=> Fits(Role(y), MessageIn(y)', ToDo(y)', current_state'[s],
                             aws_source_server_id'[s], InAws(s)')
  BY DEF FitsAt, InAws, Role, Fits, WorkerFits, RequestFits, RollbackFits

LEMMA OneServerActs ==
  ASSUME NEW own, OwnIds(own), LifecycleInv(own), NEW s \in Servers, NEW y,
         \A x \in Places' \ {y} : /\ x \in Places
                                  /\ MessageIn(x)' = MessageIn(x) /\ ToDo(x)' = ToDo(x)
                                  /\ MessageIn(x).server # s,
         \A t \in Servers \ {s} : \A w \in FailedQueues : Ends(w, t) => Ends(w, t)',
         OthersRowsStay(own, s),
         y \in Places' => MessageIn(y)'.server = s /\ FitsAt(y)',
         LifecycleStep(s),
         Needs(current_state'[s], InAws(s)') \/ \E w \in FailedQueues : Ends(w, s)',
         aws_source_server_id'[s] = Null => aws'[own[s]] \cap Started = {}
  PROVE  Settled(own)
  <1> USE DEF LifecycleInv
  <1>1. \A t \in Servers \ {s} : Unseen(t) /\ InAws(t)' = InAws(t)
    BY RowsAreUnseen DEF OthersRowsStay, Unseen
  <1>2. OneAtATime'
    <2> SUFFICES ASSUME NEW x \in Places', NEW z \in Places',
                        MessageIn(x)'.server = MessageIn(z)'.server
                 PROVE  x = z
      BY DEF OneAtATime
    <2>1. CASE x # y /\ z # y
      BY <2>1 DEF OneAtATime
    <2>2. CASE x = y \/ z = y
      BY <2>2
    <2>3. QED
      BY <2>1, <2>2
  <1>3. AllFit'
    <2>1. ASSUME NEW x \in Places', x # y
          PROVE  FitsAt(x)'
      <3>1. x \in Places /\ MessageIn(x)' = MessageIn(x) /\ ToDo(x)' = ToDo(x)
        BY <2>1
      <3>2. FitsAt(x) /\ MessageIn(x).server \in Servers \ {s}
        BY <2>1, <3>1, PlaceTypes DEF AllFit
      <3>0. PICK t : t = MessageIn(x).server
        OBVIOUS
      <3>3. /\ current_state'[t] = current_state[t] /\ InAws(t)' = InAws(t)
            /\ aws_source_server_id'[t] = aws_source_server_id[t]
        BY <1>1, <3>0, <3>2 DEF OthersRowsStay, RowStays
      <3>4. /\ Fits(Role(x), MessageIn(x), ToDo(x), current_state[t], aws_source_server_id[t], InAws(t))
            /\ MessageIn(x)'.server = t
        BY <3>0, <3>1, <3>2 DEF FitsAt
      <3>5. FitsAt(x)' <=> Fits(Role(x), MessageIn(x)', ToDo(x)', current_state'[t],
                                aws_source_server_id'[t], InAws(t)')
        BY <3>4, FitsNext
      <3>6. QED
        BY <3>1, <3>3, <3>4, <3>5
    <2>2. QED
      BY <2>1 DEF AllFit
  <1>4. NeedsAreMet'
    <2>1. ASSUME NEW t \in Servers \ {s}
          PROVE  (Needs(current_state[t], InAws(t)) \/ \E w \in FailedQueues : Ends(w, t))'
      <3>1. current_state'[t] = current_state[t] /\ InAws(t)' = InAws(t)
        BY <1>1 DEF OthersRowsStay, RowStays
      <3>2. CASE Needs(current_state[t], InAws(t))
        BY <3>1, <3>2 DEF Needs
      <3>3. CASE \E w \in FailedQueues : Ends(w, t)
        BY <3>3
      <3>4. QED
        BY <3>2, <3>3 DEF NeedsAreMet
    <2>2. (Needs(current_state[s], InAws(s)) \/ \E w \in FailedQueues : Ends(w, s))'
      BY DEF Needs
    <2>3. QED
      BY <2>1, <2>2 DEF NeedsAreMet
  <1>5. UnknownIsClean(own)'
    <2>1. ASSUME NEW t \in Servers, aws_source_server_id'[t] = Null
          PROVE  aws'[own[t]] \cap Started = {}
      <3>1. CASE t = s
        BY <2>1, <3>1
      <3>2. CASE t # s
        BY <2>1, <3>2 DEF OthersRowsStay, RowStays, UnknownIsClean
      <3>3. QED
        BY <3>1, <3>2
    <2>2. QED
      BY <2>1 DEF UnknownIsClean
  <1>6. QED
    BY <1>1, <1>2, <1>3, <1>4, <1>5, OneServerSteps DEF Settled

(* What it does to the places: a process goes on with its own server,      *)
(* sends its message on, or something comes up for a server that nothing   *)
(* was done for.                                                           *)
LEMMA SamePlaces ==
  ASSUME Core, NEW P, \A v \in Processes \ P : task'[v] = task[v],
         NEW x \in Places', ~(x[2] = 0 /\ x[1] \in P),
         x[2] # 0 => x \in Places /\ queue'[x[1]][x[2]] = queue[x[1]][x[2]]
  PROVE  x \in Places /\ MessageIn(x)' = MessageIn(x) /\ ToDo(x)' = ToDo(x)
  <1>1. CASE x[2] = 0
    BY <1>1 DEF Places, MessageIn, ToDo, Busy
  <1>2. CASE x[2] # 0
    BY <1>2 DEF MessageIn, ToDo
  <1>3. QED
    BY <1>1, <1>2

LEMMA Appended ==
  ASSUME Core, NEW k \in AllQueues, NEW m \in Message,
         queue' = [queue EXCEPT ![k] = Append(queue[k], m)],
         NEW new, new = << k, Len(queue[k]) + 1 >>
  PROVE  /\ \A x \in Places' \ {new} : x[2] # 0 =>
              x \in Places /\ queue'[x[1]][x[2]] = queue[x[1]][x[2]]
         /\ new[2] # 0 /\ MessageIn(new)' = m /\ ToDo(new)' = Program(k, m)
         /\ Role(new) = IF k \in FailedQueues THEN "rollback" ELSE "worker"
  <1>1. queue[k] \in Seq(Message) /\ Len(queue[k]) \in Nat
    BY QueuesAreSequences
  <1>2. queue'[k] = Append(queue[k], m) /\ \A q \in AllQueues \ {k} : queue'[q] = queue[q]
    BY QueuesAreSequences
  <1>3. /\ Append(queue[k], m)[Len(queue[k]) + 1] = m
        /\ \A i \in DOMAIN Append(queue[k], m) :
             i = Len(queue[k]) + 1 \/ (i \in DOMAIN queue[k] /\ Append(queue[k], m)[i] = queue[k][i])
    BY <1>1
  <1>4. ASSUME NEW x \in Places', x # new, x[2] # 0
        PROVE  x \in Places /\ queue'[x[1]][x[2]] = queue[x[1]][x[2]]
    <2>1. /\ x = <<x[1], x[2]>> /\ x[1] \in AllQueues /\ x[2] \in Nat \ {0}
          /\ x[2] \in DOMAIN queue'[x[1]]
      BY <1>4 DEF Places
    <2>2. x[2] \in DOMAIN queue[x[1]] /\ queue'[x[1]][x[2]] = queue[x[1]][x[2]]
      BY <1>2, <1>3, <1>4, <2>1
    <2>3. QED
      BY <2>1, <2>2 DEF Places
  <1>5. new[1] = k /\ new[2] # 0 /\ queue'[new[1]][new[2]] = m
    BY <1>1, <1>2, <1>3
  <1>6. MessageIn(new)' = m /\ ToDo(new)' = Program(k, m)
    <2>1. ToDo(new)' = Program(new[1], queue'[new[1]][new[2]])
      BY <1>5 DEF ToDo, Program, MgnProgram, PollProgram, RollbackProgram
    <2>2. QED
      BY <1>5, <2>1 DEF MessageIn
  <1>7. QED
    BY <1>4, <1>5, <1>6 DEF Role

LEMMA ProcessActs ==
  ASSUME NEW own, OwnIds(own), LifecycleInv(own), NEW s \in Servers,
         NEW p \in Processes, Pending(s, p), OthersStay(p), UNCHANGED queue,
         OthersRowsStay(own, s), LifecycleStep(s),
         Busy(p)' /\ task'[p].todo # <<>> =>
           /\ task'[p].msg.server = s
           /\ Fits(Role(<< p, 0 >>), task'[p].msg, task'[p].todo, current_state'[s],
                   aws_source_server_id'[s], InAws(s)'),
         Needs(current_state'[s], InAws(s)') \/ (p \in FailedQueues /\ Ends(p, s)'),
         aws_source_server_id'[s] = Null => aws'[own[s]] \cap Started = {}
  PROVE  Settled(own)
  <1> DEFINE y == << p, 0 >>
  <1>1. Core /\ y \in Places /\ MessageIn(y).server = s
    BY AtProcess DEF LifecycleInv, Pending, Subject
  <1>2. ASSUME NEW x \in Places' \ {y}
        PROVE  /\ x \in Places /\ MessageIn(x)' = MessageIn(x) /\ ToDo(x)' = ToDo(x)
               /\ MessageIn(x).server # s
    <2>1. ~(x[2] = 0 /\ x[1] \in {p})
      BY DEF Places
    <2>2. x[2] # 0 => x \in Places /\ queue'[x[1]][x[2]] = queue[x[1]][x[2]]
      BY DEF Places
    <2>3. x \in Places /\ MessageIn(x)' = MessageIn(x) /\ ToDo(x)' = ToDo(x)
      BY <1>1, <2>1, <2>2, SamePlaces DEF OthersStay
    <2>4. QED
      BY <1>1, <2>3 DEF LifecycleInv, OneAtATime
  <1>3. ASSUME NEW t \in Servers \ {s}, NEW w \in FailedQueues, Ends(w, t)
        PROVE  Ends(w, t)'
    <2>1. w # p /\ w \in Processes
      BY <1>3 DEF Ends, Pending, Processes, Consumers
    <2>2. QED
      BY <1>3, <2>1 DEF Ends, Doing, Busy, Subject, OthersStay
  <1>4. y \in Places' => MessageIn(y)'.server = s /\ FitsAt(y)'
    <2> SUFFICES ASSUME y \in Places' PROVE MessageIn(y)'.server = s /\ FitsAt(y)'
      OBVIOUS
    <2>1. /\ MessageIn(y)' = task'[p].msg /\ ToDo(y)' = task'[p].todo
          /\ Busy(p)' /\ task'[p].todo # <<>>
      BY DEF Places, MessageIn, ToDo, Busy
    <2>2. FitsAt(y)' <=> Fits(Role(y), MessageIn(y)', ToDo(y)', current_state'[s],
                              aws_source_server_id'[s], InAws(s)')
      <3>1. MessageIn(y)'.server = s
        BY <2>1
      <3>2. QED
        BY <3>1, FitsNext
    <2>3. QED
      BY <2>1, <2>2
  <1>5. Needs(current_state'[s], InAws(s)') \/ \E w \in FailedQueues : Ends(w, s)'
    OBVIOUS
  <1> HIDE DEF y
  <1>6. QED
    BY <1>2, <1>3, <1>4, <1>5, OneServerActs

(* Unless its rollback is at its end, AWS has what the server needs.       *)
LEMMA OwnNeeds ==
  ASSUME NEW own, LifecycleInv(own), NEW s \in Servers, NEW p \in Processes, Pending(s, p),
         ~(p \in FailedQueues /\ Doing(p, "advance"))
  PROVE  Needs(current_state[s], InAws(s))
  <1>1. ASSUME NEW w \in FailedQueues, Ends(w, s)
        PROVE  FALSE
    <2>1. w \in Processes /\ << w, 0 >> \in Places /\ MessageIn(<< w, 0 >>).server = s
      BY <1>1, AtProcess DEF Ends, Doing, Processes, Consumers, Subject
    <2>2. << p, 0 >> \in Places /\ MessageIn(<< p, 0 >>).server = s
      BY AtProcess DEF Pending, Subject
    <2>3. << w, 0 >> = << p, 0 >>
      BY <2>1, <2>2 DEF LifecycleInv, OneAtATime
    <2>4. QED
      BY <1>1, <2>3 DEF Ends
  <1>2. QED
    BY <1>1 DEF LifecycleInv, NeedsAreMet

LEMMA SameRow ==
  ASSUME UNCHANGED <<current_state, newest, aws_source_server_id, aws>>, NEW s
  PROVE  Unseen(s) /\ LifecycleStep(s)
  BY DEF Unseen, LifecycleStep, Passed, Status, IsRegistered, InAws

LEMMA ProcessSends ==
  ASSUME NEW own, OwnIds(own), LifecycleInv(own), NEW s \in Servers,
         NEW p \in Processes \ FailedQueues, Pending(s, p), OthersStay(p),
         UNCHANGED <<current_state, newest, aws_source_server_id, aws>>,
         ~(Busy(p)' /\ task'[p].todo # <<>>),
         NEW k \in AllQueues, NEW m \in Message, m.server = s,
         queue' = [queue EXCEPT ![k] = Append(queue[k], m)],
         Fits(IF k \in FailedQueues THEN "rollback" ELSE "worker", m, Program(k, m),
              current_state[s], aws_source_server_id[s], InAws(s))
  PROVE  Settled(own)
  <1> DEFINE new == << k, Len(queue[k]) + 1 >>
  <1>1. Core /\ << p, 0 >> \in Places /\ MessageIn(<< p, 0 >>).server = s
    BY AtProcess DEF LifecycleInv, Pending, Subject
  <1>2. /\ \A x \in Places' \ {new} : x[2] # 0 =>
              x \in Places /\ queue'[x[1]][x[2]] = queue[x[1]][x[2]]
        /\ new[2] # 0 /\ new = new
    BY <1>1, Appended
  <1>3. PICK y : y = new
    OBVIOUS
  <1> HIDE DEF new
  <1>4. /\ MessageIn(y)' = m /\ ToDo(y)' = Program(k, m)
        /\ Role(y) = IF k \in FailedQueues THEN "rollback" ELSE "worker"
    BY <1>1, <1>3, Appended DEF new
  <1>5. << p, 0 >> \notin Places'
    BY DEF Places, Busy
  <1>6. ASSUME NEW x \in Places' \ {y}
        PROVE  /\ x \in Places /\ MessageIn(x)' = MessageIn(x) /\ ToDo(x)' = ToDo(x)
               /\ MessageIn(x).server # s
    <2>1. ~(x[2] = 0 /\ x[1] \in {p})
      BY <1>5 DEF Places
    <2>2. x \in Places /\ MessageIn(x)' = MessageIn(x) /\ ToDo(x)' = ToDo(x)
      BY <1>1, <1>2, <1>3, <2>1, SamePlaces DEF OthersStay
    <2>3. x # << p, 0 >>
      BY <1>5
    <2>4. QED
      BY <1>1, <2>2, <2>3 DEF LifecycleInv, OneAtATime
  <1>7. ASSUME NEW t \in Servers \ {s}, NEW w \in FailedQueues, Ends(w, t)
        PROVE  Ends(w, t)'
    <2>1. w # p /\ w \in Processes
      BY <1>7 DEF Ends, Pending, Processes, Consumers
    <2>2. QED
      BY <1>7, <2>1 DEF Ends, Doing, Busy, Subject, OthersStay
  <1>8. MessageIn(y)'.server = s /\ FitsAt(y)'
    <2>1. MessageIn(y)'.server = s
      BY <1>4
    <2>2. FitsAt(y)' <=> Fits(Role(y), MessageIn(y)', ToDo(y)', current_state'[s],
                              aws_source_server_id'[s], InAws(s)')
      BY <2>1 DEF FitsAt, InAws, Role, Fits, WorkerFits, RequestFits, RollbackFits
    <2>3. InAws(s)' = InAws(s)
      BY SameRow DEF Unseen
    <2>4. QED
      BY <1>4, <2>1, <2>2, <2>3
  <1>9. Needs(current_state'[s], InAws(s)')
    BY OwnNeeds, SameRow DEF Unseen
  <1>10. /\ OthersRowsStay(own, s) /\ LifecycleStep(s)
         /\ aws_source_server_id'[s] = Null => aws'[own[s]] \cap Started = {}
    BY SameRow DEF OthersRowsStay, RowStays, LifecycleInv, UnknownIsClean
  <1>11. QED
    BY <1>6, <1>7, <1>8, <1>9, <1>10, OneServerActs

LEMMA QuietPlaces ==
  ASSUME NEW own, LifecycleInv(own), NEW s \in Servers, Quiet(s)
  PROVE  /\ \A x \in Places : MessageIn(x).server # s
         /\ Needs(current_state[s], InAws(s))
         /\ \A w \in FailedQueues : ~Ends(w, s)
  <1>1. /\ \A q \in AllQueues : \A i \in DOMAIN queue[q] : queue[q][i].server # s
        /\ \A p \in Processes : Busy(p) => Subject(p) # s
    BY QuietMeans DEF LifecycleInv
  <1>2. \A x \in Places : MessageIn(x).server # s
    BY <1>1 DEF Places, MessageIn, Subject
  <1>3. \A w \in FailedQueues : ~Ends(w, s)
    BY <1>1 DEF Ends, Doing, Processes, Consumers
  <1>4. QED
    BY <1>2, <1>3 DEF LifecycleInv, NeedsAreMet

(* Nothing is under way for a server whose row moves without a process.    *)
LEMMA RowActs ==
  ASSUME NEW own, OwnIds(own), LifecycleInv(own), NEW s \in Servers,
         \A x \in Places : MessageIn(x).server # s,
         UNCHANGED <<task, queue>>, OthersRowsStay(own, s), LifecycleStep(s),
         Needs(current_state'[s], InAws(s)'),
         aws_source_server_id'[s] = Null => aws'[own[s]] \cap Started = {}
  PROVE  Settled(own)
  <1>1. << s >> \notin Places'
    BY DEF Places
  <1>2. ASSUME NEW x \in Places'
        PROVE  x \in Places /\ MessageIn(x)' = MessageIn(x) /\ ToDo(x)' = ToDo(x)
    BY DEF Places, Busy, MessageIn, ToDo
  <1>3. \A t \in Servers : \A w \in FailedQueues : Ends(w, t) => Ends(w, t)'
    BY DEF Ends, Doing, Busy, Subject
  <1>4. PICK y : y = << s >>
    OBVIOUS
  <1>5. y \notin Places'
    BY <1>1, <1>4
  <1>6. QED
    BY <1>2, <1>3, <1>5, OneServerActs

LEMMA RequestArrives ==
  ASSUME NEW own, OwnIds(own), LifecycleInv(own), NEW s \in Servers, Quiet(s),
         NEW r \in Requests, ~Busy(r), NEW t \in Task, t.msg.server = s,
         task' = [task EXCEPT ![r] = t],
         UNCHANGED <<current_state, newest, aws_source_server_id, aws, queue>>,
         RequestFits(t.msg, t.todo, current_state[s], aws_source_server_id[s], InAws(s)),
         current_state[s] \in ServerState
  PROVE  Settled(own)
  <1> DEFINE y == << r, 0 >>
  <1>1. Core /\ r \in Processes /\ r \notin FailedQueues
    BY ProcessesAssumption DEF LifecycleInv, Processes
  <1>2. task'[r] = t /\ \A v \in Processes \ {r} : task'[v] = task[v]
    BY <1>1 DEF Core, TasksTypeOK
  <1>3. ASSUME NEW x \in Places' \ {y}
        PROVE  /\ x \in Places /\ MessageIn(x)' = MessageIn(x) /\ ToDo(x)' = ToDo(x)
               /\ MessageIn(x).server # s
    <2>1. ~(x[2] = 0 /\ x[1] \in {r})
      BY DEF Places
    <2>2. x[2] # 0 => x \in Places /\ queue'[x[1]][x[2]] = queue[x[1]][x[2]]
      BY DEF Places
    <2>3. x \in Places /\ MessageIn(x)' = MessageIn(x) /\ ToDo(x)' = ToDo(x)
      BY <1>1, <1>2, <2>1, <2>2, SamePlaces
    <2>4. QED
      BY <2>3, QuietPlaces
  <1>4. ASSUME NEW u \in Servers \ {s}, NEW w \in FailedQueues, Ends(w, u)
        PROVE  Ends(w, u)'
    <2>1. w # r /\ w \in Processes
      BY <1>1 DEF Processes, Consumers
    <2>2. QED
      BY <1>2, <1>4, <2>1 DEF Ends, Doing, Busy, Subject
  <1>5. MessageIn(y)'.server = s /\ FitsAt(y)'
    <2>1. MessageIn(y)' = t.msg /\ ToDo(y)' = t.todo /\ Role(y) = "request"
      BY <1>2 DEF MessageIn, ToDo, Role
    <2>2. FitsAt(y)' <=> Fits(Role(y), MessageIn(y)', ToDo(y)', current_state'[s],
                              aws_source_server_id'[s], InAws(s)')
      <3>1. MessageIn(y)'.server = s
        BY <2>1
      <3>2. QED
        BY <3>1, FitsNext
    <2>3. InAws(s)' = InAws(s)
      BY SameRow DEF Unseen
    <2>4. QED
      BY <2>1, <2>2, <2>3 DEF Fits
  <1>6. /\ OthersRowsStay(own, s) /\ LifecycleStep(s) /\ Needs(current_state'[s], InAws(s)')
        /\ aws_source_server_id'[s] = Null => aws'[own[s]] \cap Started = {}
    BY SameRow, QuietPlaces DEF Unseen, OthersRowsStay, RowStays, LifecycleInv, UnknownIsClean
  <1> HIDE DEF y
  <1>7. QED
    BY <1>3, <1>4, <1>5, <1>6, OneServerActs

(* An operator publishes a message.                                        *)
LEMMA MessageArrives ==
  ASSUME NEW own, OwnIds(own), LifecycleInv(own), NEW s \in Servers, Quiet(s),
         UNCHANGED <<current_state, newest, aws_source_server_id, aws, task>>,
         NEW k \in WorkQueues, NEW m \in Message, m.server = s,
         queue' = [queue EXCEPT ![k] = Append(queue[k], m)],
         Fits("worker", m, Program(k, m), current_state[s], aws_source_server_id[s], InAws(s))
  PROVE  Settled(own)
  <1> DEFINE new == << k, Len(queue[k]) + 1 >>
  <1>1. Core /\ k \in AllQueues /\ k \notin FailedQueues
    BY Names DEF LifecycleInv, AllQueues
  <1>2. PICK y : y = new
    OBVIOUS
  <1>3. /\ \A x \in Places' \ {y} : x[2] # 0 =>
              x \in Places /\ queue'[x[1]][x[2]] = queue[x[1]][x[2]]
        /\ MessageIn(y)' = m /\ ToDo(y)' = Program(k, m) /\ Role(y) = "worker"
    BY <1>1, <1>2, Appended
  <1> HIDE DEF new
  <1>4. ASSUME NEW x \in Places' \ {y}
        PROVE  /\ x \in Places /\ MessageIn(x)' = MessageIn(x) /\ ToDo(x)' = ToDo(x)
               /\ MessageIn(x).server # s
    <2>1. x \in Places /\ MessageIn(x)' = MessageIn(x) /\ ToDo(x)' = ToDo(x)
      <3>1. ~(x[2] = 0 /\ x[1] \in {}) /\ \A v \in Processes \ {} : task'[v] = task[v]
        OBVIOUS
      <3>2. QED
        BY <1>1, <1>3, <3>1, SamePlaces
    <2>2. QED
      BY <2>1, QuietPlaces
  <1>5. \A t \in Servers : \A w \in FailedQueues : Ends(w, t) => Ends(w, t)'
    BY DEF Ends, Doing, Busy, Subject
  <1>6. MessageIn(y)'.server = s /\ FitsAt(y)'
    <2>1. MessageIn(y)'.server = s
      BY <1>3
    <2>2. FitsAt(y)' <=> Fits(Role(y), MessageIn(y)', ToDo(y)', current_state'[s],
                              aws_source_server_id'[s], InAws(s)')
      BY <2>1 DEF FitsAt, InAws, Role, Fits, WorkerFits, RequestFits, RollbackFits
    <2>3. InAws(s)' = InAws(s)
      BY SameRow DEF Unseen
    <2>4. QED
      BY <1>3, <2>1, <2>2, <2>3
  <1>7. /\ OthersRowsStay(own, s) /\ LifecycleStep(s) /\ Needs(current_state'[s], InAws(s)')
        /\ aws_source_server_id'[s] = Null => aws'[own[s]] \cap Started = {}
    BY SameRow, QuietPlaces DEF Unseen, OthersRowsStay, RowStays, LifecycleInv, UnknownIsClean
  <1>8. QED
    BY <1>4, <1>5, <1>6, <1>7, OneServerActs

(* What is under way stays what it is and finds itself elsewhere, as when  *)
(* a message is delivered, or is over, as when a message is acknowledged.  *)
LEMMA OtherPlaces ==
  ASSUME NEW own, LifecycleInv(own),
         UNCHANGED <<current_state, newest, aws_source_server_id, aws>>, NEW f,
         \A y \in Places' : /\ f[y] \in Places /\ Role(y) = Role(f[y])
                            /\ MessageIn(y)' = MessageIn(f[y]) /\ ToDo(y)' = ToDo(f[y]),
         \A y, z \in Places' : f[y] = f[z] => y = z,
         \A t \in Servers : \A w \in FailedQueues : Ends(w, t) => Ends(w, t)'
  PROVE  Settled(own)
  <1> USE DEF LifecycleInv
  <1>1. OneAtATime'
    BY DEF OneAtATime
  <1>2. AllFit'
    <2>1. ASSUME NEW y \in Places'
          PROVE  FitsAt(y)'
      <3>1. FitsAt(f[y]) /\ f[y] \in Places
        BY DEF AllFit
      <3>2. PICK t : t = MessageIn(f[y]).server
        OBVIOUS
      <3>3. /\ Fits(Role(y), MessageIn(y)', ToDo(y)', current_state[t],
                    aws_source_server_id[t], InAws(t))
            /\ MessageIn(y)'.server = t
        BY <3>1, <3>2 DEF FitsAt
      <3>4. ASSUME NEW u, u = MessageIn(y)'.server
            PROVE  FitsAt(y)' <=> Fits(Role(y), MessageIn(y)', ToDo(y)', current_state'[u],
                                       aws_source_server_id'[u],
                                       IF aws_source_server_id'[u] = Null THEN {}
                                       ELSE aws'[aws_source_server_id'[u]] \cap Started)
        BY <3>4 DEF FitsAt, InAws, Role, Fits, WorkerFits, RequestFits, RollbackFits
      <3>5. QED
        BY <3>3, <3>4 DEF InAws
    <2>2. QED
      BY <2>1 DEF AllFit
  <1>3. NeedsAreMet'
    BY DEF NeedsAreMet, InAws, Needs
  <1>4. UnknownIsClean(own)'
    BY DEF UnknownIsClean
  <1>5. UNCHANGED Lifecycle!lifecycleVars
    BY DEF Lifecycle!lifecycleVars, IsRegistered, InAws
  <1>6. QED
    BY <1>1, <1>2, <1>3, <1>4, <1>5 DEF Settled

LEMMA Delivered ==
  ASSUME NEW own, LifecycleInv(own), NEW w, NEW steps, Deliver(w, steps),
         steps = Program(SourceQueue(w), NextMessage(w))
  PROVE  Settled(own)
  <1> DEFINE k == SourceQueue(w)
             f == [y \in Places' |-> IF y[2] = 0 /\ y[1] = w THEN <<k, 1>>
                                     ELSE IF y[2] # 0 /\ y[1] = k THEN <<k, y[2] + 1>> ELSE y]
  <1> USE DEF LifecycleInv
  <1>1. /\ w \in Consumers /\ k \in AllQueues /\ queue[k] \in Seq(Message) /\ queue[k] # <<>>
        /\ queue' = [queue EXCEPT ![k] = Tail(queue[k])] /\ ~Busy(w)
        /\ task' = [task EXCEPT ![w] = [msg |-> Head(queue[k]), todo |-> steps]]
    BY Names, QueuesAreSequences
       DEF Deliver, Take, Start, NextMessage, SourceQueue, Consumers, AllQueues
  <1>2. /\ Head(queue[k]) = queue[k][1] /\ 1 \in DOMAIN queue[k]
        /\ \A i \in DOMAIN Tail(queue[k]) :
             /\ i \in Nat \ {0} /\ i + 1 \in DOMAIN queue[k]
             /\ Tail(queue[k])[i] = queue[k][i+1]
    BY <1>1
  <1>3. /\ queue'[k] = Tail(queue[k]) /\ \A q \in AllQueues \ {k} : queue'[q] = queue[q]
        /\ task'[w].msg = queue[k][1] /\ task'[w].todo = Program(k, queue[k][1])
        /\ \A v \in Processes \ {w} : task'[v] = task[v]
    BY <1>1, <1>2, QueuesAreSequences DEF Core, TasksTypeOK, Processes, NextMessage
  <1>4. w \notin Requests /\ (w \in FailedQueues <=> k \in FailedQueues)
    BY <1>1, ProcessesAssumption, Names DEF SourceQueue, Consumers
  <1> HIDE DEF k
  <1>5. ASSUME NEW y \in Places'
        PROVE  /\ y = << y[1], y[2] >> /\ y[2] \in Nat
               /\ y[2] = 0 => y[1] \in Processes /\ Busy(y[1])' /\ task'[y[1]].todo # <<>>
               /\ y[2] # 0 => y[1] \in AllQueues /\ y[2] \in DOMAIN queue'[y[1]]
               /\ MessageIn(y)' = IF y[2] = 0 THEN task'[y[1]].msg ELSE queue'[y[1]][y[2]]
               /\ ToDo(y)' = IF y[2] = 0 THEN task'[y[1]].todo
                             ELSE Program(y[1], queue'[y[1]][y[2]])
    BY DEF Places, MessageIn, Busy, ToDo, Program, MgnProgram, PollProgram, RollbackProgram
  <1>6. ASSUME NEW y \in Places'
        PROVE  /\ f[y] \in Places /\ Role(y) = Role(f[y])
               /\ MessageIn(y)' = MessageIn(f[y]) /\ ToDo(y)' = ToDo(f[y])
    <2>1. CASE y[2] = 0 /\ y[1] = w
      <3>1. f[y] = <<k, 1>>
        BY <2>1
      <3>2. /\ <<k, 1>> \in Places /\ MessageIn(<<k, 1>>) = queue[k][1]
            /\ ToDo(<<k, 1>>) = Program(k, queue[k][1])
        BY <1>1, <1>2 DEF Places, MessageIn, ToDo
      <3>3. Role(y) = Role(<<k, 1>>)
        BY <1>4, <2>1 DEF Role
      <3>4. QED
        BY <1>3, <1>5, <2>1, <3>1, <3>2, <3>3
    <2>2. CASE y[2] = 0 /\ y[1] # w
      <3>1. f[y] = y
        BY <2>2
      <3>2. task'[y[1]] = task[y[1]]
        BY <1>3, <1>5, <2>2
      <3>3. y \in Places /\ MessageIn(y) = task[y[1]].msg /\ ToDo(y) = task[y[1]].todo
        BY <1>5, <2>2, <3>2 DEF Places, MessageIn, ToDo, Busy
      <3>4. QED
        BY <1>5, <2>2, <3>1, <3>2, <3>3
    <2>3. CASE y[2] # 0 /\ y[1] = k
      <3>1. f[y] = <<k, y[2] + 1>>
        BY <2>3
      <3>2. y[2] + 1 \in DOMAIN queue[k] /\ queue'[k][y[2]] = queue[k][y[2]+1] /\ y[2] + 1 # 0
        <4>1. queue'[k] = Tail(queue[k]) /\ y[2] \in DOMAIN queue'[k]
          BY <1>3, <1>5, <2>3
        <4>2. y[2] \in DOMAIN Tail(queue[k])
          BY <4>1
        <4>3. QED
          BY <1>2, <4>1, <4>2
      <3>3. /\ <<k, y[2] + 1>> \in Places /\ MessageIn(<<k, y[2] + 1>>) = queue[k][y[2]+1]
            /\ ToDo(<<k, y[2] + 1>>) = Program(k, queue[k][y[2]+1])
        BY <1>1, <1>5, <3>2 DEF Places, MessageIn, ToDo
      <3>4. Role(y) = Role(<<k, y[2] + 1>>)
        BY <2>3, <3>2 DEF Role
      <3>5. QED
        BY <1>5, <2>3, <3>1, <3>2, <3>3, <3>4
    <2>4. CASE y[2] # 0 /\ y[1] # k
      <3>1. f[y] = y
        BY <2>4
      <3>2. queue'[y[1]] = queue[y[1]]
        BY <1>3, <1>5, <2>4
      <3>3. /\ y \in Places /\ MessageIn(y) = queue[y[1]][y[2]]
            /\ ToDo(y) = Program(y[1], queue[y[1]][y[2]])
        BY <1>5, <2>4, <3>2 DEF Places, MessageIn, ToDo
      <3>4. QED
        BY <1>5, <2>4, <3>1, <3>2, <3>3
    <2>5. QED
      BY <2>1, <2>2, <2>3, <2>4
  <1>7. ASSUME NEW y \in Places', NEW z \in Places', f[y] = f[z]
        PROVE  y = z
    <2> DEFINE g(x) == IF x[2] = 0 /\ x[1] = w THEN <<k, 1>>
                       ELSE IF x[2] # 0 /\ x[1] = k THEN <<k, x[2] + 1>> ELSE x
    <2>1. g(y) = g(z)
      BY <1>7
    <2>2. y = << y[1], y[2] >> /\ z = << z[1], z[2] >> /\ y[2] \in Nat /\ z[2] \in Nat
      BY <1>5
    <2>3. QED
      BY <2>1, <2>2
  <1>8. ASSUME NEW t \in Servers, NEW v \in FailedQueues, Ends(v, t)
        PROVE  Ends(v, t)'
    <2>1. v # w /\ v \in Processes
      BY <1>1, <1>8 DEF Ends, Doing, Processes, Consumers
    <2>2. QED
      BY <1>3, <1>8, <2>1 DEF Ends, Doing, Busy, Subject
  <1>9. UNCHANGED <<current_state, newest, aws_source_server_id, aws>>
    BY DEF Deliver, ledgerVars, awsVars
  <1> HIDE DEF f
  <1>10. QED
    BY <1>6, <1>7, <1>8, <1>9, OtherPlaces

(* A message is acknowledged, or a request answered.                       *)
LEMMA Finished ==
  ASSUME NEW own, LifecycleInv(own), NEW p \in Processes, OthersStay(p), UNCHANGED queue,
         UNCHANGED <<current_state, newest, aws_source_server_id, aws>>,
         ~(Busy(p)' /\ task'[p].todo # <<>>),
         ~(p \in FailedQueues /\ Doing(p, "advance"))
  PROVE  Settled(own)
  <1> USE DEF LifecycleInv
  <1>1. PICK f : f = [y \in Places' |-> y]
    OBVIOUS
  <1>2. ASSUME NEW y \in Places'
        PROVE  y \in Places /\ MessageIn(y)' = MessageIn(y) /\ ToDo(y)' = ToDo(y)
    <2>1. ~(y[2] = 0 /\ y[1] \in {p})
      BY DEF Places, Busy
    <2>2. y[2] # 0 => y \in Places /\ queue'[y[1]][y[2]] = queue[y[1]][y[2]]
      BY DEF Places
    <2>3. QED
      BY <2>1, <2>2, SamePlaces DEF OthersStay
  <1>3. ASSUME NEW t \in Servers, NEW w \in FailedQueues, Ends(w, t)
        PROVE  Ends(w, t)'
    <2>1. w # p /\ w \in Processes
      BY <1>3 DEF Ends, Processes, Consumers
    <2>2. QED
      BY <1>3, <2>1 DEF Ends, Doing, Busy, Subject, OthersStay
  <1>4. /\ \A y \in Places' : /\ f[y] \in Places /\ Role(y) = Role(f[y])
                              /\ MessageIn(y)' = MessageIn(f[y]) /\ ToDo(y)' = ToDo(f[y])
        /\ \A y, z \in Places' : f[y] = f[z] => y = z
    <2>1. \A y \in Places' : f[y] = y
      BY <1>1
    <2>2. QED
      BY <1>2, <2>1
  <1>5. QED
    BY <1>3, <1>4, OtherPlaces

-----------------------------------------------------------------------------
(* What the tables of states, gates and resources have to do with another. *)
LEMMA StagesAlongThePath ==
  ASSUME NEW st, NEW to, <<st, to>> \in Forward
  PROVE  /\ GatesBefore(st) \in 0..6
         /\ st \notin InProgressStates => GatesBefore(to) = GatesBefore(st)
         /\ st \in InProgressStates => /\ GatesBefore(to) = GatesBefore(st) + 1
                                       /\ to \notin InProgressStates \cup Entries
                                       /\ to \in Approved
         /\ st # NotRegistered /\ st \notin ErrorStates \cup CompletedStates
         /\ to # NotRegistered /\ to \notin ErrorStates
         /\ IsValidTransition(st, to)
  <1>1. GatesBefore(st) \in 0..6
    BY DEF Forward, GatesBefore, BeforeReplication, BeforeTest
  <1>2. st \notin InProgressStates => GatesBefore(to) = GatesBefore(st)
    BY DEF Forward, GatesBefore, BeforeReplication, BeforeTest, InProgressStates
  <1>3. st \in InProgressStates => GatesBefore(to) = GatesBefore(st) + 1
    BY DEF Forward, GatesBefore, BeforeReplication, BeforeTest, InProgressStates
  <1>4. st \in InProgressStates => to \notin InProgressStates \cup Entries /\ to \in Approved
    BY DEF Forward, InProgressStates, Entries, Approved
  <1>5. /\ st \in ServerState /\ to \in ServerState
        /\ st \notin ErrorStates \cup CompletedStates /\ to \notin ErrorStates
    BY ForwardClimbs
  <1>6. QED
    BY <1>1, <1>2, <1>3, <1>4, <1>5, StateNames DEF IsValidTransition, ValidTransitions

LEMMA NeedsGoOn ==
  ASSUME NEW st, NEW to, <<st, to>> \in Forward, to \notin Entries, NEW run, Needs(st, run)
  PROVE  Needs(to, run)
  BY DEF Forward, Entries, Needs

LEMMA GatesAreReady ==
  ASSUME NEW st \in InProgressStates, NEW run, Needs(st, run)
  PROVE  Lifecycle!Ready(GatesBefore(st), run)
  BY DEF InProgressStates, Needs, GatesBefore, BeforeReplication, BeforeTest, Lifecycle!Ready

LEMMA StatusOf ==
  ASSUME NEW st \in ServerState
  PROVE  /\ st \in Ongoing <=> LifecycleStatus(st) = "active"
         /\ st \in InProgressStates <=> LifecycleStatus(st) = "held"
         /\ st = "FAILED" <=> LifecycleStatus(st) = "failed"
         /\ st = "FROZEN" <=> LifecycleStatus(st) = "frozen"
         /\ LifecycleStatus(st) # "absent"
  BY StateNames DEF LifecycleStatus, Ongoing, InProgressStates, ErrorStates, ServerState, NotRegistered

(* A job is never expected at a gate, nor is the state in which a message  *)
(* may be under way one.                                                   *)
LEMMA ExpectedIsOngoing ==
  ASSUME NEW job \in JobType
  PROVE  ExpectedState(job) \in Ongoing
  BY DEF JobType, MgnJobs, PollJobs, VALID_STATES_FOR_JOB, VALID_STATES_FOR_POLL, ExpectedState,
         Ongoing, ServerState, InProgressStates, ErrorStates

LEMMA Joined ==
  /\ \A a : <<>> \o <<a>> = <<a>>
  /\ \A a, b : <<a>> \o <<b>> = <<a, b>>
  <1>1. ASSUME NEW a, NEW b
        PROVE  <<a>> \o <<b>> = <<a, b>>
    <2> DEFINE left  == <<a>> \o <<b>>
               right == <<a, b>>
    <2>1. /\ left \in Seq({a, b}) /\ Len(left) = 2 /\ left[1] = a /\ left[2] = b
          /\ right \in Seq({a, b}) /\ Len(right) = 2 /\ right[1] = a /\ right[2] = b
      OBVIOUS
    <2> HIDE DEF left, right
    <2>2. \A i \in 1..2 : left[i] = right[i]
      BY <2>1
    <2>3. left = right
      BY <2>1, <2>2, SeqEqual
    <2>4. QED
      BY <2>3 DEF left, right
  <1>2. \A a : <<>> \o <<a>> = <<a>>
    OBVIOUS
  <1>3. QED
    BY <1>1, <1>2

LEMMA PlansFit ==
  ASSUME NEW st \in Ongoing \ CompletedStates, NEW id, NEW run, id = Null => run = {}
  PROVE  /\ st \notin TerminalStates
         /\ \/ /\ PlanProgram(st, id) = << advance(IntendedFinalState(st)) >>
               /\ MayEnd(st, IntendedFinalState(st), run)
            \/ /\ id # Null /\ GatesBefore(st) = 1 /\ IntendedFinalState(st) = "FAILED"
               /\ PlanProgram(st, id) = << <<"undo", "stop_replication">>, advance("FAILED") >>
            \/ /\ id # Null
               /\ \/ GatesBefore(st) = 2 /\ IntendedFinalState(st) = "FAILED"
                  \/ GatesBefore(st) = 4 /\ IntendedFinalState(st) = "FROZEN"
               /\ PlanProgram(st, id) = << <<"undo", "terminate_target_instances">>,
                                           advance(IntendedFinalState(st)) >>
  <1>1. st \notin TerminalStates
    BY DEF Ongoing, TerminalStates, ErrorStates, CompletedStates
  <1>2. PlanProgram(st, id) = UndoSteps(st, id) \o << advance(IntendedFinalState(st)) >>
    BY <1>1 DEF PlanProgram
  <1>3. /\ <<>> \o << advance(IntendedFinalState(st)) >> = << advance(IntendedFinalState(st)) >>
        /\ \A e : <<e>> \o << advance(IntendedFinalState(st)) >>
                    = << e, advance(IntendedFinalState(st)) >>
    BY Joined
  <1>4. CASE id # Null /\ st \in StopReplicationStates
    <2>1. GatesBefore(st) = 1 /\ IntendedFinalState(st) = "FAILED"
      BY <1>4 DEF StopReplicationStates, GatesBefore, BeforeTest, BeforeReplication,
                  IntendedFinalState, TerminateCutoverStates, AlwaysFrozenStates
    <2>2. st \notin TerminateTestStates \cup TerminateCutoverStates
      BY <1>4 DEF TerminateTestStates, TerminateCutoverStates, StopReplicationStates
    <2>3. QED
      BY <1>1, <1>2, <1>3, <1>4, <2>1, <2>2 DEF UndoSteps
  <1>5. CASE id # Null /\ st \in TerminateTestStates \cup TerminateCutoverStates
    <2>1. \/ GatesBefore(st) = 2 /\ IntendedFinalState(st) = "FAILED"
          \/ GatesBefore(st) = 4 /\ IntendedFinalState(st) = "FROZEN"
      BY <1>5 DEF TerminateTestStates, GatesBefore, BeforeTest, BeforeReplication,
                  IntendedFinalState, TerminateCutoverStates, AlwaysFrozenStates
    <2>2. st \notin StopReplicationStates
      BY <1>5 DEF TerminateTestStates, TerminateCutoverStates, StopReplicationStates
    <2>3. QED
      BY <1>1, <1>2, <1>3, <1>5, <2>1, <2>2 DEF UndoSteps
  <1>6. CASE \/ id = Null
             \/ st \notin StopReplicationStates \cup TerminateTestStates \cup TerminateCutoverStates
    <2>1. PlanProgram(st, id) = << advance(IntendedFinalState(st)) >>
      BY <1>2, <1>3, <1>6 DEF UndoSteps
    <2>2. CASE st \in TerminateCutoverStates \cup AlwaysFrozenStates
      <3>1. GatesBefore(st) \in 1..6
        BY <2>2 DEF TerminateCutoverStates, AlwaysFrozenStates, GatesBefore, BeforeTest,
                    BeforeReplication
      <3>2. QED
        BY <1>1, <2>1, <2>2, <3>1 DEF IntendedFinalState, MayEnd
    <2>3. CASE st \notin TerminateCutoverStates \cup AlwaysFrozenStates
      <3>1. GatesBefore(st) \in 0..3
        BY <2>3 DEF TerminateCutoverStates, AlwaysFrozenStates, GatesBefore, BeforeTest,
                    BeforeReplication, Ongoing, ServerState, ErrorStates, InProgressStates,
                    CompletedStates
      <3>2. id # Null => GatesBefore(st) \in {0, 3}
        BY <1>6, <2>3 DEF TerminateCutoverStates, AlwaysFrozenStates, GatesBefore, BeforeTest,
                    BeforeReplication, Ongoing, ServerState, ErrorStates, InProgressStates,
                    CompletedStates, StopReplicationStates, TerminateTestStates
      <3>3. run \cap Lifecycle!StartedIn(GatesBefore(st)) = {}
        BY <3>1, <3>2 DEF Lifecycle!StartedIn
      <3>4. QED
        BY <1>1, <2>1, <2>3, <3>1, <3>3 DEF IntendedFinalState, MayEnd
    <2>4. QED
      BY <2>2, <2>3
  <1>7. QED
    BY <1>4, <1>5, <1>6

-----------------------------------------------------------------------------
(* The programs of the workers and of the requests are made of such links, *)
(* and so is what is left of a program.                                    *)
WorkerLinked(m, todo)  == \A i \in DOMAIN todo : WorkerLink(m, todo, i)
RequestLinked(m, todo) == \A i \in DOMAIN todo : RequestLink(m, todo, i)

CallsFirst(m, todo) == WorkerLinked(m, todo) /\ todo[1][1] = "call"

LEMMA HandlersAreLinked ==
  ASSUME NEW m, m.job \in MgnJobs
  PROVE  CallsFirst(m, Handler[m.job])
  <1> USE DEF call, advance, publish, CallsFirst, WorkerLinked, WorkerLink, CallFits, JobFits,
          Forward, Entries, ExpectedState, MgnJobs, PollJobs, VALID_STATES_FOR_JOB,
          VALID_STATES_FOR_POLL
  <1>1. m.job = "ADD_SERVER" =>
          CallsFirst(m, << call("confirm_agent"),
            <<"store_aws_id">>, advance("AGENT_INSTALLED") >>)
    OBVIOUS
  <1>2. m.job = "CONFIGURE_REPLICATION_SETTINGS" =>
          CallsFirst(m, << call("update_replication_configuration"),
            advance("REPLICATION_CONFIGURED"), advance("AWAITING_REPLICATION_APPROVAL") >>)
    OBVIOUS
  <1>3. m.job = "START_REPLICATION" =>
          CallsFirst(m, << call("start_replication"), publish("POLL_REPLICATION_STATUS") >>)
    OBVIOUS
  <1>4. m.job = "CONFIGURE_TEST_LAUNCH_TEMPLATE" =>
          CallsFirst(m, << call("update_launch_configuration"), advance("TEST_LAUNCH_TEMPLATE_CONFIGURED"),
            advance("AWAITING_TEST_LAUNCH_APPROVAL") >>)
    OBVIOUS
  <1>5. m.job = "LAUNCH_TEST_INSTANCE" =>
          CallsFirst(m, << call("start_test"), publish("POLL_TEST_INSTANCE_STATUS") >>)
    OBVIOUS
  <1>6. m.job = "FINALIZE_TEST" =>
          CallsFirst(m, << call("terminate_target_instances"),
            advance("CUTOVER_LAUNCH_TEMPLATE_CONFIGURED") >>)
    OBVIOUS
  <1>7. m.job = "CONFIGURE_CUTOVER_LAUNCH_TEMPLATE" =>
          CallsFirst(m, << call("update_launch_configuration"),
            advance("AWAITING_CUTOVER_LAUNCH_APPROVAL") >>)
    OBVIOUS
  <1>8. m.job = "START_CUTOVER" =>
          CallsFirst(m, << call("start_cutover"), advance("CUTOVER_SYNC_IN_PROGRESS"),
            publish("POLL_CUTOVER_SYNC_STATUS") >>)
    OBVIOUS
  <1>9. m.job = "LAUNCH_CUTOVER_INSTANCE" =>
          CallsFirst(m, << call("describe_source_servers"), advance("CUTOVER_INSTANCE_LAUNCHING"),
            publish("POLL_CUTOVER_INSTANCE_STATUS") >>)
    OBVIOUS
  <1>10. m.job = "FINALIZE_CUTOVER" =>
          CallsFirst(m, << call("finalize_cutover"), advance("DISCONNECTING"),
            publish("DISCONNECT_SOURCE_SERVER") >>)
    OBVIOUS
  <1>11. m.job = "DISCONNECT_SOURCE_SERVER" =>
          CallsFirst(m, << call("disconnect_from_service"),
            publish("POLL_DISCONNECT_STATUS") >>)
    OBVIOUS
  <1>12. m.job = "ARCHIVE_SOURCE_SERVER" =>
          CallsFirst(m, << call("mark_as_archived"), advance("AWAITING_CLEANUP_APPROVAL") >>)
    OBVIOUS
  <1>13. m.job = "DELETE_REPLICATION_COMPONENTS" =>
          CallsFirst(m, << call("delete_source_server") >>)
    OBVIOUS
  <1> HIDE DEF call, advance, publish, CallsFirst, WorkerLinked, WorkerLink, CallFits, JobFits,
          Forward, Entries, ExpectedState, MgnJobs, PollJobs, VALID_STATES_FOR_JOB,
          VALID_STATES_FOR_POLL
  <1>15. CASE m.job \in DOMAIN OnboardingHandler \cup DOMAIN ReplicationHandler
    BY <1>15, <1>1, <1>2, <1>3, Handlers DEF OnboardingHandler, ReplicationHandler
  <1>16. CASE m.job \in DOMAIN TestHandler
    BY <1>16, <1>4, <1>5, <1>6, Handlers DEF TestHandler
  <1>17. CASE m.job \in DOMAIN CutoverHandler
    BY <1>17, <1>7, <1>8, <1>9, <1>10, Handlers DEF CutoverHandler
  <1>18. CASE m.job \in DOMAIN CleanupHandler
    BY <1>18, <1>11, <1>12, <1>13, Handlers DEF CleanupHandler
  <1>19. QED
    BY <1>15, <1>16, <1>17, <1>18, HandlerOfStage

LEMMA MgnProgramsAreLinked ==
  ASSUME NEW m \in Message, m.job \in MgnJobs
  PROVE  /\ WorkerLinked(m, MgnProgram(m))
         /\ MgnProgram(m)[1] = <<"require", ExpectedState(m.job)>>
         /\ MgnProgram(m) # <<>>
  <1> DEFINE first == <<"require", VALID_STATES_FOR_JOB[m.job]>>
             rest  == Handler[m.job]
             all   == <<first>> \o rest
  <1>1. first \in AwaitStep /\ rest \in Seq(AwaitStep)
    BY HandlerShapes DEF AwaitStep, MgnJobs, VALID_STATES_FOR_JOB, ServerState, Shaped
  <1>2. WorkerLinked(m, rest) /\ rest[1][1] = "call" /\ first = <<"require", ExpectedState(m.job)>>
    BY HandlersAreLinked DEF CallsFirst, ExpectedState
  <1> HIDE DEF rest, first
  <1>3. /\ all[1] = first /\ all # <<>>
        /\ \A i \in DOMAIN rest : i + 1 \in DOMAIN all /\ all[i+1] = rest[i]
        /\ \A i \in DOMAIN all : i = 1 \/ i - 1 \in DOMAIN rest
        /\ DOMAIN rest \subseteq Nat /\ DOMAIN all \subseteq Nat
    BY <1>1, Prefixed
  <1> HIDE DEF all
  <1>4. WorkerLink(m, all, 1)
    <2>1. 1 + 1 \in DOMAIN all => all[1+1] = rest[1]
      BY <1>3
    <2>2. QED
      BY <1>2, <1>3, <2>1 DEF WorkerLink
  <1>5. ASSUME NEW i \in DOMAIN rest
        PROVE  WorkerLink(m, all, i + 1)
    <2>1. WorkerLink(m, rest, i) /\ i \in Nat
      BY <1>2, <1>3 DEF WorkerLinked
    <2>2. /\ all[i+1] = rest[i]
          /\ i + 1 \in DOMAIN rest => all[i+1+1] = rest[i+1]
          /\ i + 1 + 1 \in DOMAIN all => i + 1 \in DOMAIN rest
      BY <1>3, <2>1
    <2>3. i + 1 \in Nat /\ (i + 1 + 1 \in DOMAIN all <=> i + 1 \in DOMAIN rest)
      BY <1>3, <2>1, <2>2
    <2>4. PICK j : j = i + 1
      OBVIOUS
    <2>5. /\ all[j] = rest[i] /\ (j + 1 \in DOMAIN all <=> i + 1 \in DOMAIN rest)
          /\ i + 1 \in DOMAIN rest => all[j+1] = rest[i+1]
      BY <2>2, <2>3, <2>4
    <2>6. WorkerLink(m, all, j)
      BY <2>1, <2>5 DEF WorkerLink
    <2>7. QED
      BY <2>4, <2>6
  <1>6. WorkerLinked(m, all)
    <2>1. ASSUME NEW i \in DOMAIN all, i # 1
          PROVE  WorkerLink(m, all, i)
      <3>1. i - 1 \in DOMAIN rest /\ (i - 1) + 1 = i
        BY <1>3, <2>1
      <3>2. QED
        BY <1>5, <3>1
    <2>2. QED
      BY <1>4, <2>1 DEF WorkerLinked
  <1>7. QED
    BY <1>2, <1>3, <1>6 DEF MgnProgram, all, first, rest

LEMMA PollProgramsAreLinked ==
  ASSUME NEW m \in Message, m.job \in PollJobs
  PROVE  /\ WorkerLinked(m, PollProgram(m))
         /\ PollProgram(m)[1] = <<"require", ExpectedState(m.job)>> /\ PollProgram(m) # <<>>
         /\ WorkerLinked(m, OnComplete(m)) /\ WorkerLinked(m, << <<"reenqueue">> >>)
  <1>1. /\ m.job # "ADD_SERVER" /\ VALID_STATES_FOR_POLL[m.job] = ExpectedState(m.job)
    BY DEF ExpectedState, MgnJobs, PollJobs, VALID_STATES_FOR_JOB, VALID_STATES_FOR_POLL
  <1>2. /\ WorkerLinked(m, << <<"require", ExpectedState(m.job)>>, <<"poll">> >>)
        /\ WorkerLinked(m, << <<"reenqueue">> >>)
    BY DEF WorkerLinked, WorkerLink
  <1>3. ASSUME NEW to
        PROVE  WorkerLinked(m, << advance(to) >>)
    BY DEF WorkerLinked, WorkerLink, advance
  <1>4. ASSUME NEW to, JobFits(m.job, 2, to)
        PROVE  WorkerLinked(m, << advance(to), <<"publish", m.job, 2>> >>)
    BY <1>1, <1>4 DEF WorkerLinked, WorkerLink, advance
  <1>5. ASSUME NEW to, NEW next, <<to, next>> \in Forward, next \notin Entries
        PROVE  WorkerLinked(m, << advance(to), advance(next) >>)
    BY <1>5 DEF WorkerLinked, WorkerLink, advance
  <1>6. WorkerLinked(m, OnComplete(m))
    <2>1. /\ m.job = "POLL_TEST_INSTANCE_STATUS" => JobFits(m.job, 2, "TEST_INSTANCE_RUNNING")
          /\ m.job = "POLL_CUTOVER_INSTANCE_STATUS" => JobFits(m.job, 2, "CUTOVER_INSTANCE_RUNNING")
      BY DEF JobFits
    <2>2. /\ <<"DISCONNECTED", "AWAITING_ARCHIVE_APPROVAL">> \in Forward
          /\ "AWAITING_ARCHIVE_APPROVAL" \notin Entries
      BY DEF Forward, Entries
    <2>3. CASE m.job = "POLL_TEST_INSTANCE_STATUS"
      BY <1>3, <1>4, <2>1, <2>3 DEF OnComplete, InstanceHandler
    <2>4. CASE m.job = "POLL_CUTOVER_INSTANCE_STATUS"
      BY <1>3, <1>4, <2>1, <2>4 DEF OnComplete, InstanceHandler
    <2>5. CASE m.job = "POLL_DISCONNECT_STATUS"
      BY <1>5, <2>2, <2>5 DEF OnComplete
    <2>6. CASE m.job \in {"POLL_REPLICATION_STATUS", "POLL_CUTOVER_SYNC_STATUS"}
      BY <1>3, <2>6 DEF OnComplete
    <2>7. QED
      BY <2>3, <2>4, <2>5, <2>6 DEF PollJobs, VALID_STATES_FOR_POLL
  <1>7. QED
    BY <1>1, <1>2, <1>6 DEF PollProgram

(* The message of a job that fits arrives in the queue of a worker.        *)
LEMMA MessageFits ==
  ASSUME NEW m \in Message, NEW st \in ServerState, NEW id, NEW run,
         JobFits(m.job, m.phase, st), m.job = "ADD_SERVER" \/ m.aws = id,
         NEW k, k = QUEUE_ROUTING[m.job]
  PROVE  k \in WorkQueues /\ Fits("worker", m, Program(k, m), st, id, run)
  <1>1. m.job \in MgnJobs \/ m.job \in PollJobs
    BY DEF Message, JobType
  <1>2. /\ k \in WorkQueues /\ WorkerLinked(m, Program(k, m))
        /\ Program(k, m)[1] = <<"require", ExpectedState(m.job)>>
    BY <1>1, Names, MgnProgramsAreLinked, PollProgramsAreLinked DEF Program
  <1>3. WorkerFits(m, Program(k, m), st, id, run)
    BY <1>2 DEF WorkerFits, WorkerLinked
  <1>4. QED
    BY <1>2, <1>3 DEF Fits

(* The dead letter of a job that fits.                                     *)
LEMMA DeadLetterFits ==
  ASSUME NEW m, NEW st \in Ongoing, NEW id, NEW run, NEW k \in FailedQueues
  PROVE  Fits("rollback", m, Program(k, m), st, id, run)
  <1>1. Program(k, m) = << <<"plan">> >>
    BY Names DEF Program, RollbackProgram
  <1>2. RollbackFits(m, << <<"plan">> >>, st, id, run)
    BY DEF RollbackFits
  <1>3. QED
    BY <1>1, <1>2 DEF Fits, Ongoing

LEMMA RequestsAreLinked ==
  ASSUME NEW m, NEW todo,
         \/ /\ m.job \in SubmittedJobs
            /\ todo = << <<"require", VALID_STATES_FOR_JOB[m.job]>>, publish(m.job) >>
         \/ \E g \in Gates :
              /\ m.job = g.job
              /\ \/ todo = << <<"require", g.at>>, advance(g.next), publish(g.job) >>
                 \/ todo = << <<"require", g.at>>, advance("FAILED") >>
  PROVE  RequestLinked(m, todo) /\ todo[1][1] = "require"
  <1> USE DEF RequestLinked, RequestLink, publish, advance
  <1>1. CASE /\ m.job \in SubmittedJobs
             /\ todo = << <<"require", VALID_STATES_FOR_JOB[m.job]>>, publish(m.job) >>
    <2>1. VALID_STATES_FOR_JOB[m.job] = ExpectedState(m.job)
      BY <1>1 DEF SubmittedJobs, ExpectedState, MgnJobs, VALID_STATES_FOR_JOB
    <2>2. QED
      BY <1>1, <2>1
  <1>2. ASSUME NEW g \in Gates, m.job = g.job,
               \/ todo = << <<"require", g.at>>, advance(g.next), publish(g.job) >>
               \/ todo = << <<"require", g.at>>, advance("FAILED") >>
        PROVE  RequestLinked(m, todo) /\ todo[1][1] = "require"
    <2>1. g.at \in InProgressStates /\ <<g.at, g.next>> \in Forward /\ g.next = ExpectedState(g.job)
      BY GateFacts DEF Gates, ReplicationGates, TestGates, CutoverGates, CleanupGates, Forward,
                       ExpectedState
    <2>2. QED
      BY <1>2, <2>1
  <1>3. QED
    BY <1>1, <1>2

LEMMA TailsAreLinked ==
  ASSUME NEW todo \in Seq(AwaitStep), todo # <<>>
  PROVE  /\ \A m, n : m.job = n.job /\ WorkerLinked(m, todo) => WorkerLinked(n, Tail(todo))
         /\ \A m, n : m.job = n.job /\ RequestLinked(m, todo) => RequestLinked(n, Tail(todo))
         /\ Tail(todo) # <<>> => 1 + 1 \in DOMAIN todo /\ Tail(todo)[1] = todo[1+1]
         /\ Len(todo) = 1 => Tail(todo) = <<>>
         /\ 1 \in DOMAIN todo
  <1> DEFINE rest == Tail(todo)
  <1>1. /\ 1 \in DOMAIN todo /\ DOMAIN rest \subseteq Nat
        /\ \A i \in DOMAIN rest : i + 1 \in DOMAIN todo /\ rest[i] = todo[i+1]
        /\ \A i \in Nat : i + 1 + 1 \in DOMAIN todo <=> i + 1 \in DOMAIN rest
    OBVIOUS
  <1>2. rest # <<>> => 1 \in DOMAIN rest
    OBVIOUS
  <1>3. Len(todo) = 1 => rest = <<>>
    <2>1. ASSUME NEW empty \in Seq(AwaitStep), Len(empty) = 0
          PROVE  empty = <<>>
      BY <2>1
    <2>2. rest \in Seq(AwaitStep) /\ (Len(todo) = 1 => Len(rest) = 0)
      OBVIOUS
    <2>3. QED
      BY <2>1, <2>2
  <1> HIDE DEF rest
  <1>4. ASSUME NEW m, NEW n, m.job = n.job, NEW i \in DOMAIN rest
        PROVE  /\ WorkerLink(m, todo, i + 1) => WorkerLink(n, rest, i)
               /\ RequestLink(m, todo, i + 1) => RequestLink(n, rest, i)
    <2>1. /\ i \in Nat /\ rest[i] = todo[i+1]
          /\ i + 1 + 1 \in DOMAIN todo <=> i + 1 \in DOMAIN rest
          /\ i + 1 \in DOMAIN rest => rest[i+1] = todo[i+1+1]
      BY <1>1
    <2>2. PICK j : j = i + 1
      OBVIOUS
    <2>3. /\ rest[i] = todo[j] /\ (j + 1 \in DOMAIN todo <=> i + 1 \in DOMAIN rest)
          /\ i + 1 \in DOMAIN rest => rest[i+1] = todo[j+1]
      BY <2>1, <2>2
    <2>4. WorkerLink(m, todo, j) => WorkerLink(n, rest, i)
      BY <1>4, <2>3 DEF WorkerLink
    <2>5. RequestLink(m, todo, j) => RequestLink(n, rest, i)
      BY <1>4, <2>3 DEF RequestLink
    <2>6. QED
      BY <2>2, <2>4, <2>5
  <1>5. QED
    BY <1>1, <1>2, <1>3, <1>4 DEF WorkerLinked, RequestLinked, rest

-----------------------------------------------------------------------------
(* What a process that is at one of its awaits finds, and how it goes on.  *)
LEMMA AtWork ==
  ASSUME NEW own, LifecycleInv(own), NEW p \in Processes, NEW kind, Doing(p, kind),
         NEW s, s = Subject(p)
  PROVE  /\ s \in Servers /\ current_state[s] \in ServerState /\ Pending(s, p)
         /\ p \in MgnWorkers \cup PollerWorkers =>
              WorkerFits(task[p].msg, task[p].todo, current_state[s], aws_source_server_id[s], InAws(s))
         /\ p \in Requests =>
              RequestFits(task[p].msg, task[p].todo, current_state[s], aws_source_server_id[s], InAws(s))
         /\ p \in FailedQueues =>
              RollbackFits(task[p].msg, task[p].todo, current_state[s], aws_source_server_id[s], InAws(s))
  <1>1. s \in Servers /\ Pending(s, p) /\ task[p].todo # <<>>
    BY Awaiting DEF LifecycleInv, Pending, Doing
  <1>2. << p, 0 >> \in Places /\ FitsAt(<< p, 0 >>)
    BY <1>1, AtProcess DEF LifecycleInv, AllFit, Pending
  <1>3. Fits(Role(<< p, 0 >>), task[p].msg, task[p].todo, current_state[s],
             aws_source_server_id[s], InAws(s))
    BY <1>2, AtProcess DEF FitsAt, Subject
  <1>4. /\ p \in Requests => Role(<< p, 0 >>) = "request"
        /\ p \in FailedQueues => Role(<< p, 0 >>) = "rollback"
        /\ p \in MgnWorkers \cup PollerWorkers => Role(<< p, 0 >>) = "worker"
    BY AtProcess, ProcessesAssumption
  <1>5. QED
    BY <1>1, <1>3, <1>4 DEF Fits

LEMMA GoesOn ==
  ASSUME Core, NEW p \in Processes, NEW kind, Doing(p, kind)
  PROVE  /\ \A steps : ContinueWith(p, steps) =>
              task'[p].msg = task[p].msg /\ task'[p].todo = steps /\ OthersStay(p)
         /\ Proceed(p) =>
              /\ task'[p].msg = task[p].msg /\ task'[p].todo = Tail(task[p].todo)
              /\ OthersStay(p)
         /\ Leave(p) => OthersStay(p) /\ ~Busy(p)'
  BY Awaiting DEF ContinueWith, Proceed, Leave, OthersStay, Core, TasksTypeOK, Task, Busy

LEMMA Roles ==
  ASSUME NEW p
  PROVE  /\ p \in MgnWorkers \cup PollerWorkers =>
              p \in Processes /\ p \notin FailedQueues \cup Orphans /\ Role(<< p, 0 >>) = "worker"
         /\ p \in Requests => p \in Processes /\ p \notin FailedQueues /\ Role(<< p, 0 >>) = "request"
         /\ p \in FailedQueues => p \in Processes /\ p \notin Orphans /\ Role(<< p, 0 >>) = "rollback"
  BY ProcessesAssumption DEF Processes, Consumers, Role

(* The row of a server does not change while a process works for it.       *)
LEMMA OnlyWork ==
  ASSUME NEW own, OwnIds(own), LifecycleInv(own), NEW p \in Processes, NEW kind, Doing(p, kind),
         NEW s, s = Subject(p), ~(p \in FailedQueues /\ kind = "advance"),
         OthersStay(p), UNCHANGED <<queue, current_state, newest, aws_source_server_id, aws>>,
         task'[p].todo # <<>> =>
           /\ task'[p].msg.server = s
           /\ Fits(Role(<< p, 0 >>), task'[p].msg, task'[p].todo, current_state[s],
                   aws_source_server_id[s], InAws(s))
  PROVE  Settled(own)
  <1>1. s \in Servers /\ Pending(s, p)
    BY AtWork
  <1>2. /\ OthersRowsStay(own, s) /\ LifecycleStep(s) /\ InAws(s)' = InAws(s)
        /\ aws_source_server_id'[s] = Null => aws'[own[s]] \cap Started = {}
    BY <1>1, SameRow DEF Unseen, OthersRowsStay, RowStays, LifecycleInv, UnknownIsClean
  <1>3. Needs(current_state'[s], InAws(s)')
    <2>1. ~(p \in FailedQueues /\ Doing(p, "advance"))
      BY DEF Doing
    <2>2. QED
      BY <1>1, <1>2, <2>1, OwnNeeds
  <1>4. QED
    BY <1>1, <1>2, <1>3, ProcessActs

-----------------------------------------------------------------------------
(* The awaits of the workers.                                              *)
LEMMA WorkerChecks ==
  ASSUME NEW own, OwnIds(own), LifecycleInv(own), NEW p \in MgnWorkers \cup PollerWorkers,
         CheckState(p)
  PROVE  Settled(own)
  <1> DEFINE s == Subject(p)
             m == task[p].msg
             st == current_state[s]
  <1>1. /\ Doing(p, "require") /\ p \in Processes /\ p \notin FailedQueues
        /\ Role(<< p, 0 >>) = "worker"
    BY Roles DEF CheckState
  <1>2. /\ WorkerFits(m, task[p].todo, st, aws_source_server_id[s], InAws(s))
        /\ st \in ServerState
    BY <1>1, AtWork
  <1>3. /\ task[p].todo \in Seq(AwaitStep) /\ task[p].todo # <<>>
        /\ task[p].todo[1][1] = "require" /\ Operand(p) = task[p].todo[1][2]
    BY <1>1, Awaiting DEF LifecycleInv
  <1>4. /\ OthersStay(p) /\ task'[p].msg = m
        /\ task'[p].todo = IF st = Operand(p) THEN Tail(task[p].todo) ELSE <<>>
        /\ UNCHANGED <<queue, current_state, newest, aws_source_server_id, aws>>
    BY <1>1, GoesOn DEF CheckState, LifecycleInv, ledgerVars, awsVars
  <1>5. ASSUME st = Operand(p), Tail(task[p].todo) # <<>>
        PROVE  WorkerFits(m, Tail(task[p].todo), st, aws_source_server_id[s], InAws(s))
    <2> DEFINE todo == task[p].todo
               n    == Tail(todo)[1]
    <2>1. /\ WorkerLinked(m, Tail(todo)) /\ n = todo[1+1] /\ 1 + 1 \in DOMAIN todo
          /\ 1 \in DOMAIN todo
      BY <1>2, <1>3, <1>5, TailsAreLinked DEF WorkerFits, WorkerLinked
    <2>2. WorkerLink(m, todo, 1)
      BY <1>2, <2>1 DEF WorkerFits
    <2>3. st = ExpectedState(m.job) /\ n[1] \in {"call", "poll"}
      BY <1>3, <1>5, <2>1, <2>2 DEF WorkerLink
    <2>4. JobFits(m.job, m.phase, st) /\ (m.job = "ADD_SERVER" \/ m.aws = aws_source_server_id[s])
      BY <1>2, <1>3 DEF WorkerFits
    <2>5. m.phase = 1
      BY <2>3, <2>4 DEF JobFits, ExpectedState, MgnJobs, VALID_STATES_FOR_JOB, VALID_STATES_FOR_POLL
    <2>6. QED
      BY <2>1, <2>3, <2>4, <2>5 DEF WorkerFits, WorkerLinked
  <1>6. QED
    BY <1>1, <1>2, <1>4, <1>5, OnlyWork DEF Fits, Subject

(* A call starts or stops what belongs to the stage of the server.         *)
Belongs(op, st, run, new) ==
  /\ \/ new = run
     \/ /\ st \in Ongoing
        /\ \/ \E what \in SUBSET Lifecycle!StartedIn(GatesBefore(st)) : new = run \cup what
           \/ \E what \in SUBSET Lifecycle!StoppedIn(GatesBefore(st)) : new = run \ what
  /\ Needs(st, run) => Needs(st, new)
  /\ op = "terminate_target_instances" => st = "TEST_FINALIZED" /\ "test" \notin new

LEMMA CallsBelong ==
  ASSUME NEW job, NEW op, CallFits(job, op), NEW all, NEW st, st = ExpectedState(job),
         NEW run, run = all \cap Started, NEW new, new = Effect(op, all) \cap Started
  PROVE  Belongs(op, st, run, new) /\ (job = "ADD_SERVER" => Effect(op, all) = all)
  <1> USE DEF Belongs
  <1>1. CASE op = "start_replication"
    <2>1. st = "REPLICATION_STARTED" /\ job = "START_REPLICATION"
      BY <1>1 DEF CallFits, ExpectedState, MgnJobs, VALID_STATES_FOR_JOB
    <2>2. st \in Ongoing /\ GatesBefore(st) = 1 /\ Lifecycle!StartedIn(1) = {"replication"}
      BY <2>1 DEF Ongoing, ServerState, InProgressStates, ErrorStates, GatesBefore,
                  BeforeReplication, BeforeTest, Lifecycle!StartedIn
    <2>3. new = run \cup {"replication"}
      BY <1>1 DEF Effect, Started
    <2>4. Needs(st, new)
      BY <2>1 DEF Needs
    <2>5. QED
      BY <1>1, <2>1, <2>2, <2>3, <2>4
  <1>2. CASE op = "start_test"
    <2>1. st = "TEST_INSTANCE_LAUNCHING" /\ job = "LAUNCH_TEST_INSTANCE"
      BY <1>2 DEF CallFits, ExpectedState, MgnJobs, VALID_STATES_FOR_JOB
    <2>2. st \in Ongoing /\ GatesBefore(st) = 2 /\ Lifecycle!StartedIn(2) = {"test"}
      BY <2>1 DEF Ongoing, ServerState, InProgressStates, ErrorStates, GatesBefore,
                  BeforeReplication, BeforeTest, Lifecycle!StartedIn
    <2>3. new = run \cup {"test"}
      BY <1>2 DEF Effect, Started
    <2>4. Needs(st, run) => Needs(st, new)
      BY <2>1, <2>3 DEF Needs
    <2>5. QED
      BY <1>2, <2>1, <2>2, <2>3, <2>4
  <1>3. CASE op = "terminate_target_instances"
    <2>1. st = "TEST_FINALIZED" /\ job = "FINALIZE_TEST"
      BY <1>3 DEF CallFits, ExpectedState, MgnJobs, VALID_STATES_FOR_JOB
    <2>2. st \in Ongoing /\ GatesBefore(st) = 3 /\ Lifecycle!StoppedIn(3) = {"test", "cutover"}
      BY <2>1 DEF Ongoing, ServerState, InProgressStates, ErrorStates, GatesBefore,
                  BeforeReplication, BeforeTest, Lifecycle!StoppedIn
    <2>3. new = run \ {"test", "cutover"}
      BY <1>3 DEF Effect, Started
    <2>4. Needs(st, run) => Needs(st, new)
      BY <2>1, <2>3 DEF Needs
    <2>5. QED
      BY <1>3, <2>1, <2>2, <2>3, <2>4
  <1>4. CASE op = "start_cutover"
    <2>1. st = "CUTOVER_STARTED" /\ job = "START_CUTOVER"
      BY <1>4 DEF CallFits, ExpectedState, MgnJobs, VALID_STATES_FOR_JOB
    <2>2. st \in Ongoing /\ GatesBefore(st) = 4 /\ Lifecycle!StartedIn(4) = {"cutover"}
      BY <2>1 DEF Ongoing, ServerState, InProgressStates, ErrorStates, GatesBefore,
                  BeforeReplication, BeforeTest, Lifecycle!StartedIn
    <2>3. new = run \cup {"cutover"}
      BY <1>4 DEF Effect, Started
    <2>4. Needs(st, new)
      BY <2>1 DEF Needs
    <2>5. QED
      BY <1>4, <2>1, <2>2, <2>3, <2>4
  <1>5. CASE op = "disconnect_from_service"
    <2>1. st = "DISCONNECTING" /\ job = "DISCONNECT_SOURCE_SERVER"
      BY <1>5 DEF CallFits, ExpectedState, MgnJobs, VALID_STATES_FOR_JOB
    <2>2. st \in Ongoing /\ GatesBefore(st) = 5 /\ Lifecycle!StoppedIn(5) = {"replication"}
      BY <2>1 DEF Ongoing, ServerState, InProgressStates, ErrorStates, GatesBefore,
                  BeforeReplication, BeforeTest, Lifecycle!StoppedIn
    <2>3. new = run \ {"replication"}
      BY <1>5 DEF Effect, Started
    <2>4. Needs(st, new)
      BY <2>1 DEF Needs
    <2>5. QED
      BY <1>5, <2>1, <2>2, <2>3, <2>4
  <1>6. CASE op \notin { "start_replication", "start_test", "terminate_target_instances",
                         "start_cutover", "disconnect_from_service" }
    <2>1. op # "stop_replication" /\ (op = "delete_source_server" => job # "ADD_SERVER")
      BY DEF CallFits
    <2>2. /\ op # "delete_source_server" => Effect(op, all) = all
          /\ op = "delete_source_server" => Effect(op, all) = all \ {"source"}
      BY <1>6, <2>1 DEF Effect
    <2>3. new = run
      BY <2>2 DEF Started
    <2>4. QED
      BY <1>6, <2>1, <2>2, <2>3
  <1>7. QED
    BY <1>1, <1>2, <1>3, <1>4, <1>5, <1>6

LEMMA WorkerCalls ==
  ASSUME NEW own, Ownership(own), OwnIds(own), LifecycleInv(own),
         NEW p \in MgnWorkers \cup PollerWorkers, Call(p)
  PROVE  Settled(own)
  <1>1. /\ Doing(p, "call") /\ p \in Processes /\ p \notin FailedQueues
        /\ Role(<< p, 0 >>) = "worker"
    BY Roles DEF Call
  <1>a. PICK s, m, todo, op : /\ s = Subject(p) /\ m = task[p].msg /\ todo = task[p].todo
                             /\ op = Operand(p)
    OBVIOUS
  <1>b. PICK st, id, run, new :
          /\ st = current_state[s] /\ id = aws_source_server_id[s] /\ run = InAws(s)
          /\ new = InAws(s)'
    OBVIOUS
  <1>2. /\ WorkerFits(m, todo, st, id, run)
        /\ st \in ServerState /\ s \in Servers /\ Pending(s, p)
    BY <1>1, <1>a, <1>b, AtWork
  <1>3. /\ todo \in Seq(AwaitStep) /\ todo # <<>> /\ todo[1][1] = "call" /\ op = todo[1][2]
        /\ m.server = s
    BY <1>1, <1>a, Awaiting DEF LifecycleInv, Subject
  <1>4. /\ OthersStay(p) /\ task'[p].msg = m /\ task'[p].todo = Tail(todo)
        /\ UNCHANGED <<queue, current_state, newest, aws_source_server_id>>
        /\ m.aws \in AwsIds /\ aws' = [aws EXCEPT ![m.aws] = Effect(op, aws[m.aws])]
    BY <1>1, <1>a, GoesOn DEF Call, CallAws, LifecycleInv, ledgerVars
  <1>5. aws'[m.aws] = Effect(op, aws[m.aws]) /\ \A o \in AwsIds \ {m.aws} : aws'[o] = aws[o]
    BY <1>4 DEF LifecycleInv, Core, AwsTypeOK
  <1>6. /\ m.phase = 1 /\ st = ExpectedState(m.job) /\ CallFits(m.job, op)
        /\ m.job = "ADD_SERVER" \/ m.aws = id
        /\ WorkerLink(m, todo, 1)
    <2>1. 1 \in DOMAIN todo
      BY <1>3
    <2>2. WorkerLink(m, todo, 1)
      BY <1>2, <2>1 DEF WorkerFits
    <2>3. QED
      BY <1>2, <1>3, <2>2 DEF WorkerFits, WorkerLink
  <1>7. /\ own \in [Servers -> AwsIds] /\ Null \notin AwsIds
        /\ \A t \in Servers : own[t] = own[s] => t = s
        /\ id \in {Null, own[s]}
    BY <1>2, <1>b DEF Ownership, OwnIds
  <1>8. Needs(st, run)
    BY <1>1, <1>2, <1>b, OwnNeeds
  <1>9. CASE Effect(op, aws[m.aws]) = aws[m.aws] /\ op # "terminate_target_instances"
    <2>1. UNCHANGED aws
      BY <1>4, <1>9 DEF LifecycleInv, Core, AwsTypeOK
    <2>2. ASSUME Tail(todo) # <<>>
          PROVE  WorkerFits(m, Tail(todo), st, id, run)
      <3>0. PICK n : n = Tail(todo)[1]
        OBVIOUS
      <3>1. /\ WorkerLinked(m, Tail(todo)) /\ n = todo[1+1] /\ 1 + 1 \in DOMAIN todo
        BY <1>2, <1>3, <2>2, <3>0, TailsAreLinked DEF WorkerFits, WorkerLinked
      <3>2. \/ n[1] = "advance" /\ <<st, n[2]>> \in Forward /\ n[2] \notin Entries
            \/ n[1] = "publish" /\ JobFits(n[2], n[3], st)
            \/ n[1] = "store_aws_id"
        BY <1>3, <1>6, <1>9, <3>1 DEF WorkerLink
      <3>3. n[1] = "advance" => Needs(n[2], run)
        BY <1>8, <3>2, NeedsGoOn
      <3>4. QED
        BY <1>4, <1>6, <3>0, <3>1, <3>2, <3>3 DEF WorkerFits, WorkerLinked
    <2>3. QED
      BY <1>1, <1>2, <1>3, <1>4, <1>a, <1>b, <2>1, <2>2, OnlyWork DEF Fits
  <1>10. CASE m.job # "ADD_SERVER"
    <2>1. m.aws = id /\ id = own[s] /\ id # Null
      BY <1>4, <1>6, <1>7, <1>10
    <2>0. PICK all : all = aws[id]
      OBVIOUS
    <2>a. run = all \cap Started /\ new = Effect(op, all) \cap Started
      BY <1>4, <1>5, <1>b, <2>0, <2>1 DEF InAws
    <2>2. OthersRowsStay(own, s)
      BY <1>4, <1>5, <1>7, <2>1 DEF OthersRowsStay, RowStays
    <2>3. Belongs(op, st, run, new)
      BY <1>6, <2>a, CallsBelong
    <2>4. /\ Passed(s)' = Passed(s) /\ Status(s)' = Status(s)
          /\ st \in Ongoing => Passed(s) = GatesBefore(st) /\ Status(s) = "active"
      <3>1. Passed(s)' = Passed(s) /\ Status(s)' = Status(s)
        BY <1>4 DEF Passed, Status, IsRegistered
      <3>2. st \in Ongoing => Status(s) = "active"
        BY <1>2, <1>b, StatusOf DEF Status
      <3>3. st \in Ongoing => Passed(s) = GatesBefore(st)
        BY <1>2, <1>b, StateNames DEF Passed, IsRegistered, Ongoing
      <3>4. QED
        BY <3>1, <3>2, <3>3
    <2>5. LifecycleStep(s)
      BY <1>b, <2>3, <2>4 DEF LifecycleStep, Belongs
    <2>6. ASSUME Tail(todo) # <<>>
          PROVE  WorkerFits(m, Tail(todo), st, id, new)
      <3>0. PICK n : n = Tail(todo)[1]
        OBVIOUS
      <3>1. /\ WorkerLinked(m, Tail(todo)) /\ n = todo[1+1] /\ 1 + 1 \in DOMAIN todo
        BY <1>2, <1>3, <2>6, <3>0, TailsAreLinked DEF WorkerFits, WorkerLinked
      <3>2. \/ n[1] = "advance" /\ <<st, n[2]>> \in Forward
               /\ (n[2] \in Entries => op = "terminate_target_instances")
            \/ n[1] = "publish" /\ JobFits(n[2], n[3], st)
            \/ n[1] = "store_aws_id"
        BY <1>3, <1>6, <3>1 DEF WorkerLink
      <3>3. ASSUME n[1] = "advance"
            PROVE  <<st, n[2]>> \in Forward /\ Needs(n[2], new)
        <4>1. CASE n[2] \notin Entries
          BY <1>8, <2>3, <3>2, <3>3, <4>1, NeedsGoOn DEF Belongs
        <4>2. CASE n[2] \in Entries
          <5>1. st = "TEST_FINALIZED" /\ "test" \notin new /\ <<st, n[2]>> \in Forward
            BY <2>3, <3>2, <3>3, <4>2 DEF Belongs
          <5>2. n[2] = "CUTOVER_LAUNCH_TEMPLATE_CONFIGURED"
            BY <5>1 DEF Forward
          <5>3. "replication" \in new
            BY <1>8, <2>3, <5>1 DEF Needs, Belongs
          <5>4. QED
            BY <5>1, <5>2, <5>3 DEF Needs
        <4>3. QED
          BY <4>1, <4>2
      <3>4. QED
        BY <1>4, <1>6, <2>1, <3>0, <3>1, <3>2, <3>3 DEF WorkerFits, WorkerLinked
    <2>7. Needs(current_state'[s], InAws(s)')
      BY <1>4, <1>8, <1>b, <2>3 DEF Belongs
    <2>8. Busy(p)' /\ task'[p].todo # <<>> =>
            /\ task'[p].msg.server = s
            /\ Fits(Role(<< p, 0 >>), task'[p].msg, task'[p].todo, current_state'[s],
                    aws_source_server_id'[s], InAws(s)')
      BY <1>1, <1>2, <1>3, <1>4, <1>b, <2>6 DEF Fits
    <2>9. aws_source_server_id'[s] # Null /\ UNCHANGED queue
      BY <1>4, <1>b, <2>1
    <2>10. QED
      BY <1>1, <1>2, <1>4, <2>2, <2>5, <2>7, <2>8, <2>9, ProcessActs
  <1>11. m.job = "ADD_SERVER" => Effect(op, aws[m.aws]) = aws[m.aws] /\ op # "terminate_target_instances"
    <2>1. m.job = "ADD_SERVER" => Effect(op, aws[m.aws]) = aws[m.aws]
      <3>1. PICK all, before, after : /\ all = aws[m.aws] /\ before = all \cap Started
                                 /\ after = Effect(op, all) \cap Started
        OBVIOUS
      <3>2. Belongs(op, st, before, after) /\ (m.job = "ADD_SERVER" => Effect(op, all) = all)
        BY <1>6, <3>1, CallsBelong
      <3>3. QED
        BY <3>1, <3>2
    <2>2. QED
      BY <1>6, <2>1 DEF CallFits
  <1>12. QED
    BY <1>9, <1>10, <1>11

(* A move along the path, to or from a gate, is a step of the lifecycle,   *)
(* and so are a rejection and the end of a rollback.                       *)
IsStep(st, to, run) ==
  \/ /\ <<st, to>> \in Forward /\ st \notin InProgressStates
     /\ to \in InProgressStates => Lifecycle!Ready(GatesBefore(to), run)
  \/ st \in InProgressStates /\ <<st, to>> \in Forward
  \/ st \in InProgressStates /\ to = "FAILED"
  \/ MayEnd(st, to, run)

LEMMA MovesAreSteps ==
  ASSUME NEW s \in Servers, NEW st, NEW to, NEW run, IsStep(st, to, run),
         st = current_state[s], to = current_state'[s], newest'[s].from = st,
         run = InAws(s), InAws(s)' = run
  PROVE  LifecycleStep(s)
  <1>1. st \in ServerState /\ to \in ServerState /\ st \notin ErrorStates \cup CompletedStates
    BY ForwardClimbs, StateNames
       DEF IsStep, MayEnd, Ongoing, InProgressStates, ErrorStates, CompletedStates, ServerState
  <1>2. /\ Passed(s) = GatesBefore(st) /\ Status(s) = LifecycleStatus(st)
        /\ Status(s)' = LifecycleStatus(to)
    BY <1>1, StateNames DEF Passed, Status, IsRegistered
  <1>3. /\ to \in ErrorStates => Passed(s)' = GatesBefore(st)
        /\ to \notin ErrorStates => Passed(s)' = GatesBefore(to)
    BY <1>1, StateNames DEF Passed, IsRegistered
  <1>4. CASE /\ <<st, to>> \in Forward /\ st \notin InProgressStates
             /\ to \in InProgressStates => Lifecycle!Ready(GatesBefore(to), run)
    <2>1. /\ Passed(s)' = Passed(s) /\ Passed(s) \in 0..6 /\ GatesBefore(to) = Passed(s)
          /\ to \notin ErrorStates
      BY <1>2, <1>3, <1>4, StagesAlongThePath
    <2>2. Status(s) = "active"
      BY <1>1, <1>2, <1>4, StatusOf DEF Ongoing
    <2>3. CASE to \in InProgressStates
      <3>1. Status(s)' = "held" /\ Lifecycle!Ready(Passed(s), run) /\ Passed(s) <= 6
        BY <1>1, <1>2, <1>4, <2>1, <2>3, StatusOf
      <3>2. QED
        BY <2>1, <2>2, <3>1 DEF LifecycleStep
    <2>4. CASE to \notin InProgressStates
      <3>1. Status(s)' = "active"
        BY <1>1, <1>2, <2>1, <2>4, StatusOf DEF Ongoing
      <3>2. QED
        BY <2>1, <2>2, <3>1 DEF LifecycleStep
    <2>5. QED
      BY <2>3, <2>4
  <1>5. CASE st \in InProgressStates /\ <<st, to>> \in Forward
    <2>1. /\ Passed(s)' = Passed(s) + 1 /\ to \notin InProgressStates \cup ErrorStates
      BY <1>2, <1>3, <1>5, StagesAlongThePath
    <2>2. Status(s) = "held" /\ Status(s)' = "active"
      BY <1>1, <1>2, <1>5, <2>1, StatusOf DEF Ongoing
    <2>3. QED
      BY <2>1, <2>2 DEF LifecycleStep
  <1>6. CASE st \in InProgressStates /\ to = "FAILED"
    <2>1. Passed(s)' = Passed(s)
      BY <1>2, <1>3, <1>6 DEF ErrorStates
    <2>2. Status(s) = "held" /\ Status(s)' = "failed"
      BY <1>1, <1>2, <1>6, StatusOf
    <2>3. QED
      BY <2>1, <2>2 DEF LifecycleStep
  <1>7. CASE MayEnd(st, to, run)
    <2>1. Passed(s)' = Passed(s) /\ Status(s) = "active"
      BY <1>1, <1>2, <1>3, <1>7, StatusOf DEF MayEnd, ErrorStates
    <2>2. \/ /\ Status(s)' = "failed" /\ Passed(s) <= 3
             /\ run \cap Lifecycle!StartedIn(Passed(s)) = {}
          \/ Status(s)' = "frozen" /\ Passed(s) \in 1..6
      BY <1>1, <1>2, <1>7, StatusOf DEF MayEnd
    <2>3. QED
      BY <2>1, <2>2 DEF LifecycleStep
  <1>8. QED
    BY <1>4, <1>5, <1>6, <1>7 DEF IsStep

LEMMA Advanced ==
  ASSUME NEW own, OwnIds(own), LifecycleInv(own), NEW p \in Processes, NEW by, Advance(p, by),
         NEW s, s = Subject(p), NEW st, st = current_state[s], NEW to, to = Operand(p),
         NEW run, run = InAws(s), NEW todo, todo = task[p].todo,
         IsStep(st, to, run), Needs(to, run),
         Tail(todo) # <<>> =>
           Fits(Role(<< p, 0 >>), task[p].msg, Tail(todo), to, aws_source_server_id[s], run)
  PROVE  Settled(own)
  <1>1. Doing(p, "advance") /\ s \in Servers /\ Pending(s, p)
    BY AtWork DEF Advance
  <1>2. /\ OthersStay(p) /\ task'[p].msg = task[p].msg /\ task'[p].todo = Tail(todo)
        /\ UNCHANGED <<queue, aws, aws_source_server_id>>
        /\ current_state' = [current_state EXCEPT ![s] = to]
        /\ newest' = [newest EXCEPT ![s] = [from |-> st, to |-> to, by |-> by]]
    BY <1>1, GoesOn DEF Advance, AdvanceState, MoveTo, LifecycleInv, awsVars
  <1>3. /\ current_state'[s] = to /\ newest'[s].from = st
        /\ \A t \in Servers \ {s} : current_state'[t] = current_state[t] /\ newest'[t] = newest[t]
    BY <1>1, <1>2 DEF LifecycleInv, Core, LedgerTypeOK
  <1>4. InAws(s)' = run
    BY <1>2 DEF InAws
  <1>5. LifecycleStep(s)
    BY <1>1, <1>3, <1>4, MovesAreSteps
  <1>6. OthersRowsStay(own, s)
    BY <1>2, <1>3 DEF OthersRowsStay, RowStays
  <1>7. Busy(p)' /\ task'[p].todo # <<>> =>
           /\ task'[p].msg.server = s
           /\ Fits(Role(<< p, 0 >>), task'[p].msg, task'[p].todo, current_state'[s],
                   aws_source_server_id'[s], InAws(s)')
    BY <1>2, <1>3, <1>4 DEF Subject
  <1>8. Needs(current_state'[s], InAws(s)')
    BY <1>3, <1>4
  <1>9. aws_source_server_id'[s] = Null => aws'[own[s]] \cap Started = {}
    BY <1>1, <1>2 DEF LifecycleInv, UnknownIsClean
  <1>10. QED
    BY <1>1, <1>2, <1>5, <1>6, <1>7, <1>8, <1>9, ProcessActs

LEMMA WorkerAdvances ==
  ASSUME NEW own, OwnIds(own), LifecycleInv(own), NEW p \in MgnWorkers \cup PollerWorkers,
         NEW by, Advance(p, by)
  PROVE  Settled(own)
  <1>1. /\ Doing(p, "advance") /\ p \in Processes /\ Role(<< p, 0 >>) = "worker"
        /\ p \notin Requests
    BY Roles, ProcessesAssumption DEF Advance
  <1>2. PICK s, m, todo, to : /\ s = Subject(p) /\ m = task[p].msg /\ todo = task[p].todo
                              /\ to = Operand(p)
    OBVIOUS
  <1>3. PICK st, id, run : st = current_state[s] /\ id = aws_source_server_id[s] /\ run = InAws(s)
    OBVIOUS
  <1>4. WorkerFits(m, todo, st, id, run)
    BY <1>1, <1>2, <1>3, AtWork
  <1>5. /\ todo \in Seq(AwaitStep) /\ todo # <<>> /\ todo[1][1] = "advance" /\ to = todo[1][2]
        /\ 1 \in DOMAIN todo /\ to \notin Approved /\ to \in ServerState
    BY <1>1, <1>2, Awaiting DEF LifecycleInv, Shape, WorkerShape
  <1>6. <<st, to>> \in Forward /\ Needs(to, run) /\ WorkerLink(m, todo, 1)
    BY <1>4, <1>5 DEF WorkerFits
  <1>7. st \notin InProgressStates
    BY <1>5, <1>6, StagesAlongThePath
  <1>8. IsStep(st, to, run)
    BY <1>6, <1>7, GatesAreReady DEF IsStep
  <1>9. ASSUME Tail(todo) # <<>>
        PROVE  WorkerFits(m, Tail(todo), to, id, run)
    <2>0. PICK n : n = Tail(todo)[1]
      OBVIOUS
    <2>1. /\ WorkerLinked(m, Tail(todo)) /\ n = todo[1+1] /\ 1 + 1 \in DOMAIN todo
      BY <1>4, <1>5, <1>9, <2>0, TailsAreLinked DEF WorkerFits, WorkerLinked
    <2>2. \/ n[1] = "advance" /\ <<to, n[2]>> \in Forward /\ n[2] \notin Entries
          \/ n[1] = "publish" /\ JobFits(n[2], n[3], to)
      BY <1>5, <1>6, <2>1 DEF WorkerLink
    <2>3. n[1] = "advance" => Needs(n[2], run)
      BY <1>6, <2>2, NeedsGoOn
    <2>4. QED
      BY <1>4, <2>0, <2>1, <2>2, <2>3 DEF WorkerFits, WorkerLinked
  <1>10. Tail(todo) # <<>> => Fits(Role(<< p, 0 >>), m, Tail(todo), to, id, run)
    BY <1>1, <1>5, <1>9 DEF Fits
  <1>11. QED
    BY <1>1, <1>2, <1>3, <1>6, <1>8, <1>10, Advanced

LEMMA Publishes ==
  ASSUME NEW own, OwnIds(own), LifecycleInv(own), NEW p \in Processes \ FailedQueues, Publish(p),
         NEW s, s = Subject(p), NEW job, job = Operand(p), NEW phase, phase = Head(task[p].todo)[3],
         JobFits(job, phase, current_state[s]),
         job = "ADD_SERVER" \/ task[p].msg.aws = aws_source_server_id[s]
  PROVE  Settled(own)
  <1>1. /\ Doing(p, "publish") /\ s \in Servers /\ current_state[s] \in ServerState
        /\ Pending(s, p)
    BY AtWork DEF Publish
  <1>2. /\ task[p].msg \in Message /\ task[p].msg.server = s
        /\ job \in JobType /\ phase \in {1, 2} /\ 1 \in DOMAIN task[p].todo
        /\ task[p].todo \in Seq(AwaitStep)
        /\ StepShape(task[p].msg, task[p].todo, 1) /\ task[p].todo[1][1] = "publish"
    BY <1>1, Awaiting DEF LifecycleInv, Subject, Shape
  <1>3. PICK m : m = [NewMessage(job, s, task[p].msg.aws) EXCEPT !.phase = phase]
    OBVIOUS
  <1>4. /\ m \in Message /\ m.job = job /\ m.server = s /\ m.phase = phase
        /\ m.aws = task[p].msg.aws
    BY <1>2, <1>3, AttemptsAssumption DEF Message, NewMessage
  <1>5. PICK k : k = QUEUE_ROUTING[job]
    OBVIOUS
  <1>6. k \in WorkQueues /\ Fits("worker", m, Program(k, m), current_state[s],
                                 aws_source_server_id[s], InAws(s))
    <2>1. PICK st, id, run : st = current_state[s] /\ id = aws_source_server_id[s] /\ run = InAws(s)
      OBVIOUS
    <2>2. k \in WorkQueues /\ Fits("worker", m, Program(k, m), st, id, run)
      BY <1>1, <1>4, <1>5, <2>1, MessageFits
    <2>3. QED
      BY <2>1, <2>2
  <1>7. k \in AllQueues /\ k \notin FailedQueues
    BY <1>6, Names DEF AllQueues
  <1>8. Tail(task[p].todo) = <<>>
    BY <1>2, TailsAreLinked DEF StepShape
  <1>9. /\ OthersStay(p) /\ task'[p].todo = <<>>
        /\ UNCHANGED <<current_state, newest, aws_source_server_id, aws>>
        /\ queue' = [queue EXCEPT ![k] = Append(queue[k], m)]
    BY <1>1, <1>2, <1>3, <1>4, <1>5, <1>8, GoesOn
       DEF Publish, PublishMessage, LifecycleInv, ledgerVars, awsVars
  <1>10. QED
    BY <1>1, <1>4, <1>6, <1>7, <1>9, ProcessSends

LEMMA WorkerPublishes ==
  ASSUME NEW own, OwnIds(own), LifecycleInv(own), NEW p \in MgnWorkers \cup PollerWorkers,
         Publish(p)
  PROVE  Settled(own)
  <1>1. Doing(p, "publish") /\ p \in Processes \ FailedQueues
    BY Roles DEF Publish
  <1>2. PICK s, m, todo : s = Subject(p) /\ m = task[p].msg /\ todo = task[p].todo
    OBVIOUS
  <1>3. PICK st, id, run : st = current_state[s] /\ id = aws_source_server_id[s] /\ run = InAws(s)
    OBVIOUS
  <1>4. WorkerFits(m, todo, st, id, run)
    BY <1>1, <1>2, <1>3, AtWork
  <1>5. /\ todo[1][1] = "publish" /\ Operand(p) = todo[1][2] /\ 1 \in DOMAIN todo
        /\ Head(todo)[3] = todo[1][3]
    BY <1>1, <1>2, Awaiting DEF LifecycleInv
  <1>6. JobFits(todo[1][2], todo[1][3], st) /\ m.aws = id
    BY <1>4, <1>5 DEF WorkerFits, WorkerLink
  <1>7. PICK job, phase : job = Operand(p) /\ phase = Head(task[p].todo)[3]
    OBVIOUS
  <1>8. QED
    BY <1>1, <1>2, <1>3, <1>5, <1>6, <1>7, Publishes

LEMMA PollReenqueues ==
  ASSUME NEW own, OwnIds(own), LifecycleInv(own), NEW p \in MgnWorkers \cup PollerWorkers,
         Reenqueue(p)
  PROVE  Settled(own)
  <1>1. Doing(p, "reenqueue") /\ p \in Processes \ FailedQueues
    BY Roles DEF Reenqueue
  <1>2. PICK s, m, todo : s = Subject(p) /\ m = task[p].msg /\ todo = task[p].todo
    OBVIOUS
  <1>3. PICK st, id, run : st = current_state[s] /\ id = aws_source_server_id[s] /\ run = InAws(s)
    OBVIOUS
  <1>4. /\ WorkerFits(m, todo, st, id, run) /\ st \in ServerState /\ s \in Servers
        /\ Pending(s, p)
    BY <1>1, <1>2, <1>3, AtWork
  <1>5. /\ todo[1][1] = "reenqueue" /\ 1 \in DOMAIN todo /\ StepShape(m, todo, 1)
        /\ m \in Message /\ m.server = s /\ todo \in Seq(AwaitStep)
    BY <1>1, <1>2, Awaiting DEF LifecycleInv, Subject, Shape
  <1>6. m.phase = 1 /\ st = ExpectedState(m.job) /\ (m.job = "ADD_SERVER" \/ m.aws = id)
    BY <1>4, <1>5 DEF WorkerFits
  <1>7. m.attempt < MaxPollAttempts /\ Tail(todo) = <<>>
    BY <1>5, TailsAreLinked DEF StepShape
  <1>8. PICK n, k : n = [m EXCEPT !.attempt = m.attempt + 1] /\ k = QUEUE_ROUTING[m.job]
    OBVIOUS
  <1>9. /\ n \in Message /\ n.job = m.job /\ n.server = s /\ n.phase = 1 /\ n.aws = m.aws
    <2>1. m.attempt + 1 \in 1..MaxPollAttempts
      BY <1>5, <1>7, AttemptsAssumption DEF Message
    <2>2. QED
      BY <1>5, <1>6, <1>8, <2>1 DEF Message
  <1>10. k \in WorkQueues /\ Fits("worker", n, Program(k, n), st, id, run)
    <2>1. JobFits(n.job, n.phase, st) /\ (n.job = "ADD_SERVER" \/ n.aws = id)
      BY <1>6, <1>9 DEF JobFits
    <2>2. QED
      BY <1>4, <1>8, <1>9, <2>1, MessageFits
  <1>11. k \in AllQueues /\ k \notin FailedQueues
    BY <1>10, Names DEF AllQueues
  <1>12. /\ OthersStay(p) /\ task'[p].todo = <<>>
         /\ UNCHANGED <<current_state, newest, aws_source_server_id, aws>>
         /\ queue' = [queue EXCEPT ![k] = Append(queue[k], n)]
    BY <1>1, <1>2, <1>7, <1>8, <1>9, GoesOn
       DEF Reenqueue, PublishMessage, LifecycleInv, ledgerVars, awsVars
  <1>13. QED
    BY <1>1, <1>3, <1>4, <1>9, <1>10, <1>11, <1>12, ProcessSends

(* A job or a poll that fails is dead-lettered.                            *)
LEMMA WorkerFails ==
  ASSUME NEW own, OwnIds(own), LifecycleInv(own), NEW p \in MgnWorkers \cup PollerWorkers,
         JobFails(p) \/ PollFails(p)
  PROVE  Settled(own)
  <1>1. /\ Nack(p) /\ UNCHANGED aws
        /\ Doing(p, "call") \/ Doing(p, "poll") \/ AdvanceRaises(p)
    BY DEF JobFails, PollFails, CallRaises, awsVars
  <1>2. p \in Processes \ FailedQueues /\ p \notin Orphans
    BY Roles
  <1>3. PICK s, m, todo : s = Subject(p) /\ m = task[p].msg /\ todo = task[p].todo
    OBVIOUS
  <1>4. PICK st, id, run : st = current_state[s] /\ id = aws_source_server_id[s] /\ run = InAws(s)
    OBVIOUS
  <1>5. ASSUME NEW kind \in {"call", "poll"}, Doing(p, kind)
        PROVE  st \in Ongoing
    <2>1. /\ WorkerFits(m, todo, st, id, run) /\ todo[1][1] = kind /\ m \in Message
      BY <1>2, <1>3, <1>4, <1>5, AtWork, Awaiting DEF LifecycleInv
    <2>2. st = ExpectedState(m.job) /\ m.job \in JobType
      BY <2>1 DEF WorkerFits, Message
    <2>3. QED
      BY <2>2, ExpectedIsOngoing
  <1>6. ~AdvanceRaises(p)
    <2> SUFFICES ASSUME AdvanceRaises(p) PROVE FALSE
      OBVIOUS
    <2>1. Doing(p, "advance") /\ ~IsValidTransition(st, Operand(p))
      BY <1>3, <1>4 DEF AdvanceRaises
    <2>2. /\ WorkerFits(m, todo, st, id, run) /\ todo[1][1] = "advance" /\ Operand(p) = todo[1][2]
      BY <1>2, <1>3, <1>4, <2>1, AtWork, Awaiting DEF LifecycleInv
    <2>3. QED
      BY <2>1, <2>2, StagesAlongThePath DEF WorkerFits
  <1>7. st \in Ongoing /\ \E kind : Doing(p, kind)
    BY <1>1, <1>5, <1>6
  <1>8. m \in Message /\ m.server = s /\ s \in Servers /\ Pending(s, p) /\ OthersStay(p) /\ ~Busy(p)'
    BY <1>1, <1>2, <1>3, <1>7, Awaiting, AtWork, GoesOn DEF LifecycleInv, Subject, Nack
  <1>9. PICK k : k = IF m.job \in MgnJobs THEN "mgn_jobs.failed" ELSE "poll_jobs.failed"
    OBVIOUS
  <1>10. k \in FailedQueues /\ k \in AllQueues
    BY <1>9, Names DEF AllQueues
  <1>11. /\ UNCHANGED <<current_state, newest, aws_source_server_id, aws>>
         /\ queue' = [queue EXCEPT ![k] = Append(queue[k], m)]
    BY <1>1, <1>2, <1>3, <1>9 DEF Nack, DeadLetter, ledgerVars
  <1>12. Fits("rollback", m, Program(k, m), st, id, run)
    BY <1>7, <1>10, DeadLetterFits
  <1>13. QED
    BY <1>2, <1>4, <1>8, <1>10, <1>11, <1>12, ProcessSends

LEMMA WorkerStoresId ==
  ASSUME NEW own, Ownership(own), OwnIds(own), OwnIds(own)', LifecycleInv(own),
         NEW p \in MgnWorkers \cup PollerWorkers, StoreAwsId(p)
  PROVE  Settled(own)
  <1>1. /\ Doing(p, "store_aws_id") /\ p \in Processes /\ p \notin FailedQueues
        /\ Role(<< p, 0 >>) = "worker"
    BY Roles DEF StoreAwsId
  <1>2. PICK s, m, todo : s = Subject(p) /\ m = task[p].msg /\ todo = task[p].todo
    OBVIOUS
  <1>3. PICK st, id, run : st = current_state[s] /\ id = aws_source_server_id[s] /\ run = InAws(s)
    OBVIOUS
  <1>4. /\ WorkerFits(m, todo, st, id, run) /\ s \in Servers /\ Pending(s, p)
        /\ st \in ServerState
    BY <1>1, <1>2, <1>3, AtWork
  <1>5. /\ todo \in Seq(AwaitStep) /\ todo # <<>> /\ todo[1][1] = "store_aws_id"
        /\ 1 \in DOMAIN todo /\ m.server = s
    BY <1>1, <1>2, Awaiting DEF LifecycleInv, Subject
  <1>6. /\ m.aws \in AwsIds /\ st = "PENDING" /\ WorkerLink(m, todo, 1) /\ m.job = "ADD_SERVER"
    <2>1. WorkerLink(m, todo, 1) /\ m.aws \in AwsIds /\ st = ExpectedState(m.job)
      BY <1>4, <1>5 DEF WorkerFits
    <2>2. m.job = "ADD_SERVER"
      BY <1>5, <2>1 DEF WorkerLink
    <2>3. QED
      BY <2>1, <2>2 DEF ExpectedState, MgnJobs, VALID_STATES_FOR_JOB
  <1>7. /\ OthersStay(p) /\ task'[p].msg = m /\ task'[p].todo = Tail(todo)
        /\ UNCHANGED <<queue, current_state, newest, aws>>
        /\ aws_source_server_id' = [aws_source_server_id EXCEPT ![s] = m.aws]
    BY <1>1, <1>2, GoesOn DEF StoreAwsId, SetAwsSourceServerId, LifecycleInv, awsVars
  <1>8. /\ aws_source_server_id'[s] = m.aws
        /\ \A t \in Servers \ {s} : aws_source_server_id'[t] = aws_source_server_id[t]
    BY <1>4, <1>7 DEF LifecycleInv, Core, LedgerTypeOK
  <1>9. m.aws = own[s] /\ own[s] # Null /\ id \in {Null, own[s]}
    <2>1. m.aws # Null /\ aws_source_server_id'[s] \in {Null, own[s]}
      BY <1>4, <1>6 DEF Ownership, OwnIds
    <2>2. QED
      BY <1>3, <1>4, <1>6, <1>8, <2>1 DEF OwnIds
  <1>10. InAws(s)' = run
    <2>1. InAws(s)' = aws[own[s]] \cap Started
      BY <1>7, <1>8, <1>9 DEF InAws
    <2>2. CASE id = Null
      BY <1>3, <1>4, <2>1, <2>2 DEF InAws, LifecycleInv, UnknownIsClean
    <2>3. CASE id = own[s]
      BY <1>3, <1>9, <2>1, <2>3 DEF InAws
    <2>4. QED
      BY <1>9, <2>2, <2>3
  <1>11. LifecycleStep(s)
    BY <1>3, <1>7, <1>10 DEF LifecycleStep, Passed, Status, IsRegistered
  <1>12. OthersRowsStay(own, s)
    BY <1>7, <1>8 DEF OthersRowsStay, RowStays
  <1>13. ASSUME Tail(todo) # <<>>
         PROVE  WorkerFits(m, Tail(todo), st, m.aws, run)
    <2>0. PICK n : n = Tail(todo)[1]
      OBVIOUS
    <2>1. /\ WorkerLinked(m, Tail(todo)) /\ n = todo[1+1] /\ 1 + 1 \in DOMAIN todo
      BY <1>4, <1>5, <1>13, <2>0, TailsAreLinked DEF WorkerFits, WorkerLinked
    <2>2. n[1] = "advance" /\ n[2] = "AGENT_INSTALLED"
      BY <1>5, <1>6, <2>1 DEF WorkerLink, advance
    <2>3. <<st, n[2]>> \in Forward /\ Needs(n[2], run)
      BY <1>6, <2>2 DEF Forward, Needs
    <2>4. QED
      BY <1>6, <2>0, <2>1, <2>2, <2>3 DEF WorkerFits, WorkerLinked
  <1>14. Needs(current_state'[s], InAws(s)')
    BY <1>1, <1>3, <1>4, <1>7, <1>10, OwnNeeds
  <1>15. Busy(p)' /\ task'[p].todo # <<>> =>
           /\ task'[p].msg.server = s
           /\ Fits(Role(<< p, 0 >>), task'[p].msg, task'[p].todo, current_state'[s],
                   aws_source_server_id'[s], InAws(s)')
    BY <1>1, <1>3, <1>4, <1>5, <1>7, <1>8, <1>10, <1>13 DEF Fits
  <1>16. aws_source_server_id'[s] # Null /\ UNCHANGED queue
    BY <1>7, <1>8, <1>9
  <1>17. QED
    BY <1>1, <1>4, <1>7, <1>11, <1>12, <1>14, <1>15, <1>16, ProcessActs

(* What the two lifecycles that open a gate say of the replication.        *)
LEMMA ReportsTell ==
  ASSUME NEW m, MayBeOver(m)
  PROVE  /\ m.job = "POLL_REPLICATION_STATUS" => "replication" \in aws[m.aws]
         /\ m.job = "POLL_DISCONNECT_STATUS" => "replication" \notin aws[m.aws]
  <1> DEFINE state == LifeCycle(aws[m.aws])
  <1>1. state = "READY_FOR_TEST" => "replication" \in aws[m.aws]
    BY DEF LifeCycle
  <1>2. state \in {"DISCONNECTED", "ABSENT"} => "replication" \notin aws[m.aws]
    BY DEF LifeCycle
  <1>3. ASSUME m.job = "POLL_REPLICATION_STATUS"
        PROVE  state = "READY_FOR_TEST"
    <2>1. AwaitedLifeCycles(m) = {"READY_FOR_TEST"}
      BY <1>3 DEF AwaitedLifeCycles
    <2>2. QED
      BY <2>1 DEF MayBeOver
  <1>4. ASSUME m.job = "POLL_DISCONNECT_STATUS"
        PROVE  state \in {"DISCONNECTED", "ABSENT"}
    <2>1. AwaitedLifeCycles(m) = {"DISCONNECTED", "ABSENT"}
      BY <1>4 DEF AwaitedLifeCycles
    <2>2. QED
      BY <2>1 DEF MayBeOver
  <1>5. QED
    BY <1>1, <1>2, <1>3, <1>4

LEMMA PollsGoOn ==
  ASSUME NEW own, Ownership(own), OwnIds(own), LifecycleInv(own),
         NEW p \in MgnWorkers \cup PollerWorkers, PollCompletes(p) \/ PollAgain(p)
  PROVE  Settled(own)
  <1>1. /\ Doing(p, "poll") /\ p \in Processes /\ p \notin FailedQueues
        /\ Role(<< p, 0 >>) = "worker"
    BY Roles DEF PollCompletes, PollAgain
  <1>2. PICK s, m, todo : s = Subject(p) /\ m = task[p].msg /\ todo = task[p].todo
    OBVIOUS
  <1>3. PICK st, id, run : st = current_state[s] /\ id = aws_source_server_id[s] /\ run = InAws(s)
    OBVIOUS
  <1>4. /\ WorkerFits(m, todo, st, id, run) /\ s \in Servers /\ Pending(s, p)
        /\ st \in ServerState
    BY <1>1, <1>2, <1>3, AtWork
  <1>5. /\ todo[1][1] = "poll" /\ 1 \in DOMAIN todo /\ m.server = s /\ m \in Message
        /\ m.job \in PollJobs
    BY <1>1, <1>2, Awaiting DEF LifecycleInv, Subject, Shape, StepShape
  <1>6. /\ m.phase = 1 /\ st = ExpectedState(m.job) /\ m.aws = id
    <2>1. m.job # "ADD_SERVER"
      BY <1>5 DEF PollJobs, VALID_STATES_FOR_POLL
    <2>2. QED
      BY <1>4, <1>5, <2>1 DEF WorkerFits
  <1>7. Needs(st, run)
    BY <1>1, <1>3, <1>4, OwnNeeds
  <1>8. ASSUME NEW steps, ContinueWith(p, steps), WorkerFits(m, steps, st, id, run),
               UNCHANGED <<ledgerVars, queue, awsVars>>
        PROVE  Settled(own)
    <2>1. OthersStay(p) /\ task'[p].msg = m /\ task'[p].todo = steps
      BY <1>1, <1>2, <1>8, GoesOn DEF LifecycleInv
    <2>2. UNCHANGED <<queue, current_state, newest, aws_source_server_id, aws>>
      BY <1>8 DEF ledgerVars, awsVars
    <2>3. Fits(Role(<< p, 0 >>), m, steps, st, id, run)
      BY <1>1, <1>4, <1>8 DEF Fits
    <2>4. QED
      BY <1>1, <1>2, <1>3, <1>5, <2>1, <2>2, <2>3, OnlyWork
  <1>9. WorkerFits(m, << <<"reenqueue">> >>, st, id, run)
    BY <1>5, <1>6, PollProgramsAreLinked DEF WorkerFits, WorkerLinked
  <1>10. ASSUME MayBeOver(m)
         PROVE  WorkerFits(m, OnComplete(m), st, id, run)
    <2>1. WorkerLinked(m, OnComplete(m))
      BY <1>5, PollProgramsAreLinked
    <2>2. m.aws \in AwsIds
      BY <1>10 DEF MayBeOver
    <2>3. /\ OnComplete(m)[1][1] = "advance"
          /\ <<st, OnComplete(m)[1][2]>> \in Forward /\ Needs(OnComplete(m)[1][2], run)
      <3>0. run = aws[m.aws] \cap Started
        BY <1>3, <1>6, <2>2 DEF InAws, Ownership
      <3>1. CASE m.job = "POLL_REPLICATION_STATUS"
        <4>1. OnComplete(m)[1] = <<"advance", "READY_FOR_TESTING">> /\ st = "REPLICATION_STARTED"
          BY <1>6, <3>1 DEF OnComplete, InstanceHandler, advance, ExpectedState, MgnJobs,
                            VALID_STATES_FOR_JOB, VALID_STATES_FOR_POLL
        <4>2. "replication" \in aws[m.aws]
          BY <1>10, <3>1, ReportsTell
        <4>3. QED
          BY <1>7, <3>0, <4>1, <4>2 DEF Forward, Needs, Started
      <3>2. CASE m.job = "POLL_TEST_INSTANCE_STATUS"
        <4>1. OnComplete(m)[1] = <<"advance", "TEST_INSTANCE_RUNNING">> /\ st = "TEST_INSTANCE_LAUNCHING"
          BY <1>6, <3>2 DEF OnComplete, InstanceHandler, advance, ExpectedState, MgnJobs,
                            VALID_STATES_FOR_JOB, VALID_STATES_FOR_POLL
        <4>2. "test" \in aws[m.aws]
          BY <1>10, <3>2 DEF MayBeOver
        <4>3. QED
          BY <1>7, <3>0, <4>1, <4>2 DEF Forward, Needs, Started
      <3>3. CASE m.job = "POLL_CUTOVER_SYNC_STATUS"
        <4>1. OnComplete(m)[1] = <<"advance", "READY_FOR_CUTOVER_LAUNCH">> /\ st = "CUTOVER_SYNC_IN_PROGRESS"
          BY <1>6, <3>3 DEF OnComplete, InstanceHandler, advance, ExpectedState, MgnJobs,
                            VALID_STATES_FOR_JOB, VALID_STATES_FOR_POLL
        <4>2. QED
          BY <4>1 DEF Forward, Needs
      <3>4. CASE m.job = "POLL_CUTOVER_INSTANCE_STATUS"
        <4>1. OnComplete(m)[1] = <<"advance", "CUTOVER_INSTANCE_RUNNING">> /\ st = "CUTOVER_INSTANCE_LAUNCHING"
          BY <1>6, <3>4 DEF OnComplete, InstanceHandler, advance, ExpectedState, MgnJobs,
                            VALID_STATES_FOR_JOB, VALID_STATES_FOR_POLL
        <4>2. "cutover" \in aws[m.aws]
          BY <1>10, <3>4 DEF MayBeOver
        <4>3. QED
          BY <1>7, <3>0, <4>1, <4>2 DEF Forward, Needs, Started
      <3>5. CASE m.job = "POLL_DISCONNECT_STATUS"
        <4>1. OnComplete(m)[1] = <<"advance", "DISCONNECTED">> /\ st = "DISCONNECTING"
          BY <1>6, <3>5 DEF OnComplete, InstanceHandler, advance, ExpectedState, MgnJobs,
                            VALID_STATES_FOR_JOB, VALID_STATES_FOR_POLL
        <4>2. "replication" \notin aws[m.aws]
          BY <1>10, <3>5, ReportsTell
        <4>3. QED
          BY <1>7, <3>0, <4>1, <4>2 DEF Forward, Needs, Started
      <3>6. QED
        BY <1>5, <3>1, <3>2, <3>3, <3>4, <3>5 DEF PollJobs, VALID_STATES_FOR_POLL
    <2>4. QED
      BY <1>6, <2>1, <2>3 DEF WorkerFits, WorkerLinked
  <1>11. QED
    BY <1>2, <1>8, <1>9, <1>10 DEF PollCompletes, PollAgain

LEMMA Finishes ==
  ASSUME NEW own, LifecycleInv(own), NEW p \in Processes, Finish(p)
  PROVE  Settled(own)
  <1>1. OthersStay(p) /\ ~Busy(p)' /\ UNCHANGED queue /\ ~Doing(p, "advance")
    BY DEF Finish, Leave, OthersStay, Busy, Doing, LifecycleInv, Core, TasksTypeOK
  <1>2. UNCHANGED <<current_state, newest, aws_source_server_id, aws>>
    BY DEF Finish, ledgerVars, awsVars
  <1>3. QED
    BY <1>1, <1>2, Finished

(* Whatever a worker does is a step of the lifecycle.                      *)
LEMMA WorkersSettle ==
  ASSUME NEW own, Ownership(own), OwnIds(own), OwnIds(own)', LifecycleInv(own),
         NEW p \in MgnWorkers \cup PollerWorkers,
         \/ p \in MgnWorkers /\ MgnWorkerStep(p)
         \/ p \in PollerWorkers /\ PollerStep(p)
  PROVE  Settled(own)
  <1>1. p \in Processes
    BY Roles
  <1>2. CASE CheckState(p) \/ Advance(p, "system") \/ Publish(p) \/ Finish(p)
    BY <1>1, <1>2, WorkerChecks, WorkerAdvances, WorkerPublishes, Finishes
  <1>3. CASE p \in MgnWorkers /\ ReceiveJob(p)
    <2>1. SourceQueue(p) = "mgn_jobs"
      BY <1>3 DEF SourceQueue
    <2>2. MgnProgram(NextMessage(p)) = Program(SourceQueue(p), NextMessage(p))
      BY <2>1 DEF Program
    <2>3. QED
      BY <1>3, <2>2, Delivered DEF ReceiveJob
  <1>4. CASE p \in PollerWorkers /\ ReceivePoll(p)
    <2>1. SourceQueue(p) = "poll_jobs"
      BY <1>4, ProcessesAssumption DEF SourceQueue
    <2>2. PollProgram(NextMessage(p)) = Program(SourceQueue(p), NextMessage(p))
      BY <2>1 DEF Program
    <2>3. QED
      BY <1>4, <2>2, Delivered DEF ReceivePoll
  <1>5. CASE Call(p) \/ StoreAwsId(p) \/ JobFails(p) \/ PollFails(p)
    BY <1>5, WorkerCalls, WorkerStoresId, WorkerFails
  <1>6. CASE PollCompletes(p) \/ PollAgain(p) \/ Reenqueue(p)
    BY <1>6, PollsGoOn, PollReenqueues
  <1>7. QED
    BY <1>2, <1>3, <1>4, <1>5, <1>6 DEF MgnWorkerStep, PollerStep

-----------------------------------------------------------------------------
(* The awaits of the rollback worker.                                      *)
LEMMA RollbackPlans ==
  ASSUME NEW own, OwnIds(own), LifecycleInv(own), NEW p \in FailedQueues, Plan(p)
  PROVE  Settled(own)
  <1>1. Doing(p, "plan") /\ p \in Processes /\ Role(<< p, 0 >>) = "rollback"
    BY Roles DEF Plan
  <1>2. PICK s, m, todo : s = Subject(p) /\ m = task[p].msg /\ todo = task[p].todo
    OBVIOUS
  <1>3. PICK st, id, run : st = current_state[s] /\ id = aws_source_server_id[s] /\ run = InAws(s)
    OBVIOUS
  <1>4. RollbackFits(m, todo, st, id, run) /\ st \in ServerState
    BY <1>1, <1>2, <1>3, AtWork
  <1>5. todo[1][1] = "plan" /\ m.server = s /\ m \in Message /\ task[p] \in Task
    BY <1>1, <1>2, Awaiting DEF LifecycleInv, Subject
  <1>6. st \in Ongoing
    BY <1>4, <1>5 DEF RollbackFits
  <1>7. task' = [task EXCEPT ![p] = [task[p] EXCEPT !.msg.aws = id, !.todo = PlanProgram(st, id)]]
    BY <1>2, <1>3 DEF Plan
  <1>8. PICK n : n = [m EXCEPT !.aws = id]
    OBVIOUS
  <1>9. /\ OthersStay(p) /\ task'[p].msg = n /\ task'[p].todo = PlanProgram(st, id)
        /\ n.server = s /\ n.aws = id
        /\ UNCHANGED <<queue, current_state, newest, aws_source_server_id, aws>>
    <2>1. OthersStay(p) /\ task'[p] = [task[p] EXCEPT !.msg.aws = id, !.todo = PlanProgram(st, id)]
      BY <1>1, <1>7 DEF OthersStay, LifecycleInv, Core, TasksTypeOK
    <2>2. task'[p].msg = n /\ task'[p].todo = PlanProgram(st, id)
      BY <1>2, <1>5, <1>8, <2>1 DEF Task
    <2>3. n.server = s /\ n.aws = id
      BY <1>5, <1>8 DEF Message
    <2>4. QED
      BY <2>1, <2>2, <2>3 DEF Plan, ledgerVars, awsVars
  <1>10. ASSUME PlanProgram(st, id) # <<>>
         PROVE  RollbackFits(n, PlanProgram(st, id), st, id, run)
    <2>1. st \notin CompletedStates
      BY <1>10 DEF PlanProgram, TerminalStates, CompletedStates
    <2>2. id = Null => run = {}
      BY <1>3 DEF InAws
    <2>3. \/ /\ PlanProgram(st, id) = << advance(IntendedFinalState(st)) >>
             /\ MayEnd(st, IntendedFinalState(st), run)
          \/ /\ id # Null
             /\ \E op, to : PlanProgram(st, id) = << <<"undo", op>>, advance(to) >>
      BY <1>6, <2>1, <2>2, PlansFit
    <2>4. CASE /\ PlanProgram(st, id) = << advance(IntendedFinalState(st)) >>
               /\ MayEnd(st, IntendedFinalState(st), run)
      <3>1. PICK to : to = IntendedFinalState(st)
        OBVIOUS
      <3>2. RollbackFits(n, << <<"advance", to>> >>, st, id, run)
        BY <2>4, <3>1 DEF RollbackFits
      <3>3. QED
        BY <2>4, <3>1, <3>2 DEF advance
    <2>5. ASSUME id # Null, NEW op, NEW to, PlanProgram(st, id) = << <<"undo", op>>, advance(to) >>
          PROVE  RollbackFits(n, PlanProgram(st, id), st, id, run)
      <3>1. PlanProgram(st, id)[1][1] = "undo"
        BY <2>5
      <3>2. QED
        BY <1>6, <1>9, <2>1, <2>5, <3>1 DEF RollbackFits
    <2>6. QED
      BY <2>3, <2>4, <2>5
  <1>11. QED
    BY <1>1, <1>2, <1>3, <1>4, <1>9, <1>10, OnlyWork DEF Fits

LEMMA RollbackUndoes ==
  ASSUME NEW own, Ownership(own), OwnIds(own), LifecycleInv(own), NEW p \in FailedQueues, Undo(p)
  PROVE  Settled(own)
  <1>1. Doing(p, "undo") /\ p \in Processes /\ Role(<< p, 0 >>) = "rollback"
    BY Roles DEF Undo
  <1>2. PICK s, m, todo, op : s = Subject(p) /\ m = task[p].msg /\ todo = task[p].todo /\ op = Operand(p)
    OBVIOUS
  <1>3. PICK st, id, run : st = current_state[s] /\ id = aws_source_server_id[s] /\ run = InAws(s)
    OBVIOUS
  <1>4. /\ RollbackFits(m, todo, st, id, run) /\ st \in ServerState /\ s \in Servers
        /\ Pending(s, p)
    BY <1>1, <1>2, <1>3, AtWork
  <1>5. todo[1][1] = "undo" /\ m.server = s /\ op = todo[1][2]
    BY <1>1, <1>2, Awaiting DEF LifecycleInv, Subject
  <1>6. /\ st \in Ongoing \ CompletedStates /\ m.aws = id /\ id # Null /\ todo = PlanProgram(st, id)
    BY <1>4, <1>5 DEF RollbackFits
  <1>7. /\ GatesBefore(st) \in {1, 2, 4}
        /\ \E to : /\ todo = << <<"undo", op>>, advance(to) >>
                   /\ \/ GatesBefore(st) = 1 /\ to = "FAILED" /\ op = "stop_replication"
                      \/ GatesBefore(st) = 2 /\ to = "FAILED" /\ op = "terminate_target_instances"
                      \/ GatesBefore(st) = 4 /\ to = "FROZEN" /\ op = "terminate_target_instances"
    <2>1. todo # << advance(IntendedFinalState(st)) >>
      BY <1>5 DEF advance
    <2>2. \/ /\ GatesBefore(st) = 1
             /\ todo = << <<"undo", "stop_replication">>, advance("FAILED") >>
          \/ /\ \/ GatesBefore(st) = 2 /\ IntendedFinalState(st) = "FAILED"
                \/ GatesBefore(st) = 4 /\ IntendedFinalState(st) = "FROZEN"
             /\ todo = << <<"undo", "terminate_target_instances">>,
                          advance(IntendedFinalState(st)) >>
      BY <1>6, <2>1, PlansFit
    <2>3. \A o, x : todo = << <<"undo", o>>, x >> => op = o
      BY <1>5
    <2>4. QED
      BY <2>2, <2>3
  <1>8. UNCHANGED <<queue, current_state, newest, aws_source_server_id>>
    BY DEF Undo, ledgerVars
  <1>9. PICK to :
          /\ todo = << <<"undo", op>>, advance(to) >>
          /\ \/ GatesBefore(st) = 1 /\ to = "FAILED" /\ op = "stop_replication"
             \/ GatesBefore(st) = 2 /\ to = "FAILED" /\ op = "terminate_target_instances"
             \/ GatesBefore(st) = 4 /\ to = "FROZEN" /\ op = "terminate_target_instances"
    BY <1>7
  <1>10. CASE CallRaises(op, m.aws) /\ ContinueWith(p, << advance("FROZEN") >>)
    <2>1. /\ OthersStay(p) /\ task'[p].msg = m /\ task'[p].todo = << advance("FROZEN") >>
          /\ UNCHANGED aws
      BY <1>1, <1>2, <1>10, GoesOn DEF LifecycleInv, CallRaises, awsVars
    <2>2. MayEnd(st, "FROZEN", run)
      BY <1>6, <1>7 DEF MayEnd
    <2>3. RollbackFits(m, << <<"advance", "FROZEN">> >>, st, id, run)
      BY <2>2 DEF RollbackFits
    <2>4. Fits(Role(<< p, 0 >>), m, << advance("FROZEN") >>, st, id, run)
      BY <1>1, <1>4, <2>3 DEF Fits, advance
    <2>5. QED
      BY <1>1, <1>2, <1>3, <1>5, <1>8, <2>1, <2>4, OnlyWork
  <1>11. CASE CallAws(op, m.aws) /\ Proceed(p)
    <2>1. /\ OthersStay(p) /\ task'[p].msg = m /\ task'[p].todo = << <<"advance", to>> >>
          /\ id \in AwsIds /\ aws' = [aws EXCEPT ![id] = Effect(op, aws[id])]
      <3>1. Tail(todo) = << <<"advance", to>> >>
        BY <1>9 DEF advance
      <3>2. /\ OthersStay(p) /\ task'[p].msg = m /\ task'[p].todo = Tail(todo)
        BY <1>1, <1>2, <1>11, GoesOn DEF LifecycleInv
      <3>3. id \in AwsIds /\ aws' = [aws EXCEPT ![id] = Effect(op, aws[id])]
        BY <1>6, <1>11 DEF CallAws
      <3>4. QED
        BY <3>1, <3>2, <3>3
    <2>2. /\ aws'[id] = Effect(op, aws[id]) /\ \A o \in AwsIds \ {id} : aws'[o] = aws[o]
          /\ own \in [Servers -> AwsIds] /\ \A t \in Servers : own[t] = own[s] => t = s
          /\ id = own[s]
      BY <1>3, <1>4, <1>6, <2>1 DEF LifecycleInv, Core, AwsTypeOK, Ownership, OwnIds
    <2>3. PICK new : new = InAws(s)'
      OBVIOUS
    <2>4. run = aws[id] \cap Started /\ new = Effect(op, aws[id]) \cap Started
      BY <1>3, <1>6, <1>8, <2>2, <2>3 DEF InAws
    <2>5. MayEnd(st, to, new)
      <3>1. CASE GatesBefore(st) = 1 /\ to = "FAILED" /\ op = "stop_replication"
        <4>1. "replication" \notin new
          BY <2>4, <3>1 DEF Effect
        <4>2. QED
          BY <1>6, <3>1, <4>1 DEF MayEnd, Lifecycle!StartedIn
      <3>2. CASE GatesBefore(st) = 2 /\ to = "FAILED" /\ op = "terminate_target_instances"
        <4>1. "test" \notin new
          BY <2>4, <3>2 DEF Effect
        <4>2. QED
          BY <1>6, <3>2, <4>1 DEF MayEnd, Lifecycle!StartedIn
      <3>3. CASE GatesBefore(st) = 4 /\ to = "FROZEN"
        BY <1>6, <3>3 DEF MayEnd
      <3>4. QED
        BY <1>9, <3>1, <3>2, <3>3
    <2>6. \E what \in SUBSET Lifecycle!StoppedIn(GatesBefore(st)) : new = run \ what
      <3>1. CASE GatesBefore(st) = 1 /\ op = "stop_replication"
        <4>1. new = run \ {"replication"}
          BY <2>4, <3>1 DEF Effect, Started
        <4>2. QED
          <5>1. {"replication"} \in SUBSET Lifecycle!StoppedIn(GatesBefore(st))
            BY <3>1 DEF Lifecycle!StoppedIn
          <5>2. QED
            BY <4>1, <5>1
      <3>2. CASE GatesBefore(st) \in {2, 4} /\ op = "terminate_target_instances"
        <4>1. new = run \ {"test", "cutover"}
          BY <2>4, <3>2 DEF Effect, Started
        <4>2. QED
          <5>1. {"test", "cutover"} \in SUBSET Lifecycle!StoppedIn(GatesBefore(st))
            BY <3>2 DEF Lifecycle!StoppedIn
          <5>2. QED
            BY <4>1, <5>1
      <3>3. QED
        BY <1>9, <3>1, <3>2
    <2>7. /\ Passed(s)' = Passed(s) /\ Status(s)' = Status(s)
          /\ Passed(s) = GatesBefore(st) /\ Status(s) = "active"
      <3>1. Passed(s)' = Passed(s) /\ Status(s)' = Status(s)
        BY <1>8 DEF Passed, Status, IsRegistered
      <3>2. Status(s) = "active"
        BY <1>3, <1>4, <1>6, StatusOf DEF Status
      <3>3. Passed(s) = GatesBefore(st)
        BY <1>3, <1>4, <1>6, StateNames DEF Passed, IsRegistered, Ongoing
      <3>4. QED
        BY <3>1, <3>2, <3>3
    <2>8. LifecycleStep(s)
      BY <1>3, <2>3, <2>6, <2>7 DEF LifecycleStep
    <2>9. OthersRowsStay(own, s)
      BY <1>4, <1>8, <2>2 DEF OthersRowsStay, RowStays
    <2>10. RollbackFits(m, << <<"advance", to>> >>, st, id, new)
      BY <2>5 DEF RollbackFits
    <2>11. Busy(p)' /\ task'[p].todo # <<>> =>
            /\ task'[p].msg.server = s
            /\ Fits(Role(<< p, 0 >>), task'[p].msg, task'[p].todo, current_state'[s],
                    aws_source_server_id'[s], InAws(s)')
      BY <1>1, <1>3, <1>4, <1>5, <1>8, <2>1, <2>3, <2>10 DEF Fits
    <2>12. Ends(p, s)'
      <3>1. Busy(p)'
        <4>1. task[p] \in Task /\ Tail(task[p].todo) \in Seq(AwaitStep)
          BY <1>1, Awaiting DEF LifecycleInv
        <4>2. task'[p] = [task[p] EXCEPT !.todo = Tail(task[p].todo)]
          BY <1>1, <1>11 DEF Proceed, ContinueWith, LifecycleInv, Core, TasksTypeOK
        <4>3. task'[p] \in Task
          BY <4>1, <4>2 DEF Task
        <4>4. QED
          BY <4>3, ProcessesAssumption DEF Busy
      <3>2. QED
        BY <1>5, <2>1, <3>1 DEF Ends, Doing, Busy, Subject
    <2>13. aws_source_server_id'[s] # Null
      BY <1>3, <1>6, <1>8
    <2>14. QED
      BY <1>1, <1>4, <1>8, <2>1, <2>8, <2>9, <2>11, <2>12, <2>13, ProcessActs
  <1>12. QED
    BY <1>2, <1>10, <1>11 DEF Undo

LEMMA RollbackEnds ==
  ASSUME NEW own, OwnIds(own), LifecycleInv(own), NEW p \in FailedQueues, NEW by,
         Advance(p, by) \/ AdvanceRaises(p)
  PROVE  Advance(p, by) /\ Settled(own)
  <1>1. Doing(p, "advance") /\ p \in Processes /\ Role(<< p, 0 >>) = "rollback"
    BY Roles DEF Advance, AdvanceRaises
  <1>2. PICK s, m, todo, to : s = Subject(p) /\ m = task[p].msg /\ todo = task[p].todo /\ to = Operand(p)
    OBVIOUS
  <1>3. PICK st, id, run : st = current_state[s] /\ id = aws_source_server_id[s] /\ run = InAws(s)
    OBVIOUS
  <1>4. RollbackFits(m, todo, st, id, run)
    BY <1>1, <1>2, <1>3, AtWork
  <1>5. todo[1][1] = "advance" /\ to = todo[1][2] /\ todo \in Seq(AwaitStep) /\ todo # <<>>
    BY <1>1, <1>2, Awaiting DEF LifecycleInv
  <1>6. MayEnd(st, to, run) /\ Len(todo) = 1
    BY <1>4, <1>5 DEF RollbackFits
  <1>7. st \in ServerState /\ st \notin CompletedStates \cup ErrorStates /\ to \in ErrorStates
    BY <1>6 DEF MayEnd, Ongoing, ErrorStates
  <1>8. Advance(p, by)
    BY <1>2, <1>3, <1>7, FailureIsValid DEF AdvanceRaises
  <1>9. IsStep(st, to, run) /\ Needs(to, run)
    BY <1>6, <1>7 DEF IsStep, Needs, ErrorStates
  <1>10. Tail(todo) = <<>>
    BY <1>5, <1>6, TailsAreLinked
  <1>11. QED
    BY <1>1, <1>2, <1>3, <1>8, <1>9, <1>10, Advanced

(* Whatever the rollback worker does is a step of the lifecycle.           *)
LEMMA RollbacksSettle ==
  ASSUME NEW own, Ownership(own), OwnIds(own), LifecycleInv(own), NEW p \in FailedQueues,
         RollbackStep(p)
  PROVE  Settled(own)
  <1>1. p \in Processes
    BY Roles
  <1>2. CASE ReceiveFailure(p)
    <2>1. SourceQueue(p) = p /\ p \notin WorkQueues
      BY ProcessesAssumption, Names DEF SourceQueue
    <2>2. RollbackProgram = Program(SourceQueue(p), NextMessage(p))
      BY <2>1, Names DEF Program
    <2>3. QED
      BY <1>2, <2>2, Delivered DEF ReceiveFailure
  <1>3. CASE Advance(p, "system") \/ RollbackFails(p)
    BY <1>3, RollbackEnds DEF RollbackFails
  <1>4. CASE Plan(p) \/ Undo(p) \/ Finish(p)
    BY <1>1, <1>4, RollbackPlans, RollbackUndoes, Finishes
  <1>5. QED
    BY <1>2, <1>3, <1>4 DEF RollbackStep

-----------------------------------------------------------------------------
(* The awaits of a request.                                                *)
LEMMA RequestChecks ==
  ASSUME NEW own, OwnIds(own), LifecycleInv(own), NEW p \in Requests, RequireState(p)
  PROVE  Settled(own)
  <1>1. Doing(p, "require") /\ p \in Processes /\ Role(<< p, 0 >>) = "request" /\ p \notin FailedQueues
    BY Roles DEF RequireState
  <1>2. PICK s, m, todo : s = Subject(p) /\ m = task[p].msg /\ todo = task[p].todo
    OBVIOUS
  <1>3. PICK st, id, run : st = current_state[s] /\ id = aws_source_server_id[s] /\ run = InAws(s)
    OBVIOUS
  <1>4. RequestFits(m, todo, st, id, run) /\ st \in ServerState
    BY <1>1, <1>2, <1>3, AtWork
  <1>5. /\ todo[1][1] = "require" /\ m.server = s /\ m \in Message /\ task[p] \in Task
        /\ todo \in Seq(AwaitStep) /\ todo # <<>> /\ 1 \in DOMAIN todo /\ Operand(p) = todo[1][2]
    BY <1>1, <1>2, Awaiting DEF LifecycleInv, Subject
  <1>6. PICK n, steps : /\ n = [m EXCEPT !.aws = IF m.aws = Null THEN id ELSE m.aws]
                        /\ steps = IF st = Operand(p) THEN Tail(todo) ELSE <<>>
    OBVIOUS
  <1>7. /\ OthersStay(p) /\ task'[p].msg = n /\ task'[p].todo = steps
        /\ n.server = s /\ n.job = m.job /\ (m.aws = Null => n.aws = id)
        /\ UNCHANGED <<queue, current_state, newest, aws_source_server_id, aws>>
    <2>1. task' = [task EXCEPT ![p] =
                     [task[p] EXCEPT !.msg.aws = IF m.aws = Null THEN id ELSE m.aws, !.todo = steps]]
      BY <1>2, <1>3, <1>6 DEF RequireState
    <2>2. /\ OthersStay(p)
          /\ task'[p] = [task[p] EXCEPT !.msg.aws = IF m.aws = Null THEN id ELSE m.aws,
                                        !.todo = steps]
      BY <1>1, <2>1 DEF OthersStay, LifecycleInv, Core, TasksTypeOK
    <2>3. task'[p].msg = n /\ task'[p].todo = steps
      BY <1>2, <1>5, <1>6, <2>2 DEF Task
    <2>4. n.server = s /\ n.job = m.job /\ (m.aws = Null => n.aws = id)
      BY <1>5, <1>6 DEF Message
    <2>5. QED
      BY <2>2, <2>3, <2>4 DEF RequireState, ledgerVars, awsVars
  <1>8. ASSUME steps # <<>>
        PROVE  RequestFits(n, steps, st, id, run)
    <2>1. st = todo[1][2] /\ steps = Tail(todo) /\ Tail(todo) # <<>>
      BY <1>5, <1>6, <1>8
    <2>2. PICK next : next = steps[1]
      OBVIOUS
    <2>3. /\ RequestLinked(n, steps) /\ next = todo[1+1] /\ 1 + 1 \in DOMAIN todo
      BY <1>4, <1>5, <1>7, <2>1, <2>2, TailsAreLinked DEF RequestFits, RequestLinked
    <2>4. RequestLink(m, todo, 1) /\ (m.job = "ADD_SERVER" \/ m.aws = Null)
      BY <1>4, <1>5 DEF RequestFits
    <2>5. \/ next = publish(m.job) /\ st = ExpectedState(m.job)
          \/ /\ next[1] = "advance" /\ st \in InProgressStates
             /\ next[2] = "FAILED" \/ <<st, next[2]>> \in Forward
      BY <1>5, <2>1, <2>3, <2>4 DEF RequestLink
    <2>6. n.job = "ADD_SERVER" \/ n.aws = id
      BY <1>7, <2>4
    <2>7. QED
      BY <1>7, <2>2, <2>3, <2>5, <2>6 DEF RequestFits, RequestLinked, publish
  <1>9. QED
    BY <1>1, <1>2, <1>3, <1>4, <1>7, <1>8, OnlyWork DEF Fits

LEMMA RequestPublishes ==
  ASSUME NEW own, OwnIds(own), LifecycleInv(own), NEW p \in Requests, Publish(p)
  PROVE  Settled(own)
  <1>1. Doing(p, "publish") /\ p \in Processes \ FailedQueues
    BY Roles DEF Publish
  <1>2. PICK s, m, todo : s = Subject(p) /\ m = task[p].msg /\ todo = task[p].todo
    OBVIOUS
  <1>3. PICK st, id, run : st = current_state[s] /\ id = aws_source_server_id[s] /\ run = InAws(s)
    OBVIOUS
  <1>4. RequestFits(m, todo, st, id, run)
    BY <1>1, <1>2, <1>3, AtWork
  <1>5. /\ todo[1][1] = "publish" /\ Operand(p) = todo[1][2] /\ 1 \in DOMAIN todo
        /\ Head(todo)[3] = todo[1][3]
    BY <1>1, <1>2, Awaiting DEF LifecycleInv
  <1>6. /\ todo[1] = publish(m.job) /\ st = ExpectedState(m.job)
        /\ m.job = "ADD_SERVER" \/ m.aws = id
    BY <1>4, <1>5 DEF RequestFits, RequestLink
  <1>7. PICK job, phase : job = Operand(p) /\ phase = Head(task[p].todo)[3]
    OBVIOUS
  <1>8. job = m.job /\ phase = 1
    BY <1>2, <1>5, <1>6, <1>7 DEF publish
  <1>9. JobFits(job, phase, st)
    BY <1>6, <1>8 DEF JobFits
  <1>10. QED
    BY <1>1, <1>2, <1>3, <1>6, <1>7, <1>8, <1>9, Publishes

LEMMA RequestAdvances ==
  ASSUME NEW own, OwnIds(own), LifecycleInv(own), NEW p \in Requests, NEW by,
         Advance(p, by) \/ AdvanceRaises(p)
  PROVE  Advance(p, by) /\ Settled(own)
  <1>1. Doing(p, "advance") /\ p \in Processes /\ p \notin FailedQueues /\ Role(<< p, 0 >>) = "request"
    BY Roles DEF Advance, AdvanceRaises
  <1>2. PICK s, m, todo, to : s = Subject(p) /\ m = task[p].msg /\ todo = task[p].todo /\ to = Operand(p)
    OBVIOUS
  <1>3. PICK st, id, run : st = current_state[s] /\ id = aws_source_server_id[s] /\ run = InAws(s)
    OBVIOUS
  <1>4. RequestFits(m, todo, st, id, run) /\ s \in Servers /\ Pending(s, p) /\ st \in ServerState
    BY <1>1, <1>2, <1>3, AtWork
  <1>5. /\ todo[1][1] = "advance" /\ to = todo[1][2] /\ todo \in Seq(AwaitStep) /\ todo # <<>>
        /\ 1 \in DOMAIN todo /\ to \in ServerState
    BY <1>1, <1>2, Awaiting DEF LifecycleInv
  <1>6. /\ st \in InProgressStates /\ (to = "FAILED" \/ <<st, to>> \in Forward)
        /\ m.job = "ADD_SERVER" \/ m.aws = id
        /\ RequestLink(m, todo, 1)
    BY <1>4, <1>5 DEF RequestFits
  <1>7. IsValidTransition(st, to)
    <2>1. st \notin CompletedStates \cup ErrorStates /\ "FAILED" \in ErrorStates
      BY <1>6 DEF InProgressStates, CompletedStates, ErrorStates
    <2>2. QED
      BY <1>4, <1>6, <2>1, FailureIsValid, StagesAlongThePath
  <1>8. Advance(p, by)
    BY <1>2, <1>3, <1>7 DEF AdvanceRaises
  <1>9. Needs(to, run)
    <2>1. Needs(st, run)
      BY <1>1, <1>3, <1>4, OwnNeeds
    <2>2. CASE to = "FAILED"
      BY <2>2 DEF Needs
    <2>3. CASE <<st, to>> \in Forward
      BY <1>6, <2>1, <2>3, StagesAlongThePath, NeedsGoOn
    <2>4. QED
      BY <1>6, <2>2, <2>3
  <1>10. ASSUME Tail(todo) # <<>>
         PROVE  RequestFits(m, Tail(todo), to, id, run)
    <2>1. PICK next : next = Tail(todo)[1]
      OBVIOUS
    <2>2. /\ RequestLinked(m, Tail(todo)) /\ next = todo[1+1] /\ 1 + 1 \in DOMAIN todo
      BY <1>4, <1>5, <1>10, <2>1, TailsAreLinked DEF RequestFits, RequestLinked
    <2>3. next = publish(m.job) /\ to = ExpectedState(m.job)
      BY <1>5, <1>6, <2>2 DEF RequestLink
    <2>4. QED
      BY <1>6, <2>1, <2>2, <2>3 DEF RequestFits, RequestLinked, publish
  <1>11. Tail(todo) # <<>> => Fits(Role(<< p, 0 >>), m, Tail(todo), to, id, run)
    BY <1>1, <1>5, <1>10 DEF Fits
  <1>12. IsStep(st, to, run)
    BY <1>6 DEF IsStep
  <1>13. QED
    BY <1>1, <1>2, <1>3, <1>8, <1>9, <1>11, <1>12, Advanced

(* Whatever a request does is a step of the lifecycle.                     *)
LEMMA RequestsSettle ==
  ASSUME NEW own, OwnIds(own), LifecycleInv(own), NEW p \in Requests, RequestStep(p)
  PROVE  Settled(own)
  <1>1. p \in Processes
    BY Roles
  <1>2. CASE RequireState(p) \/ Publish(p) \/ Finish(p)
    BY <1>1, <1>2, RequestChecks, RequestPublishes, Finishes
  <1>3. ASSUME NEW by, Advance(p, by) \/ RequestFails(p)
        PROVE  Settled(own)
    BY <1>3, RequestAdvances DEF RequestFails
  <1>4. QED
    BY <1>2, <1>3 DEF RequestStep

-----------------------------------------------------------------------------
(* What engineers and operators ask for when nothing is under way.         *)
LEMMA NewRequestsSettle ==
  ASSUME NEW own, OwnIds(own), LifecycleInv(own), Calm, NewRequest
  PROVE  Settled(own)
  <1>1. PICK r \in Requests, s \in Servers :
          \/ \E id \in AwsIds : StartServer(r, s, id)
          \/ \E job \in SubmittedJobs \ {"ADD_SERVER"} : Configure(r, s, job)
          \/ \E g \in Gates : Approve(r, s, g) \/ Reject(r, s, g)
    BY DEF NewRequest
  <1>2. PICK id, job, steps :
          /\ Request(r, s, id, job, steps)
          /\ (id \in AwsIds /\ job = "ADD_SERVER") \/ id = Null
          /\ job \in MgnJobs
          /\ \/ /\ job \in SubmittedJobs
                /\ steps = << <<"require", VALID_STATES_FOR_JOB[job]>>, publish(job) >>
             \/ \E g \in Gates :
                  /\ job = g.job
                  /\ \/ steps = << <<"require", g.at>>, advance(g.next), publish(g.job) >>
                     \/ steps = << <<"require", g.at>>, advance("FAILED") >>
    <2>1. ASSUME NEW id \in AwsIds, StartServer(r, s, id)
          PROVE  /\ Request(r, s, id, "ADD_SERVER", << <<"require", VALID_STATES_FOR_JOB["ADD_SERVER"]>>,
                                                       publish("ADD_SERVER") >>)
                 /\ "ADD_SERVER" \in SubmittedJobs
      BY <2>1 DEF StartServer, SubmittedJobs, VALID_STATES_FOR_JOB
    <2>2. SubmittedJobs \subseteq MgnJobs /\ \A g \in Gates : g.job \in MgnJobs
      BY GateFacts DEF SubmittedJobs, MgnJobs, VALID_STATES_FOR_JOB
    <2>3. CASE \E id \in AwsIds : StartServer(r, s, id)
      BY <2>1, <2>2, <2>3
    <2>4. CASE \E job \in SubmittedJobs \ {"ADD_SERVER"} : Configure(r, s, job)
      BY <2>2, <2>4 DEF Configure
    <2>5. CASE \E g \in Gates : Approve(r, s, g) \/ Reject(r, s, g)
      BY <2>2, <2>5 DEF Approve, Reject
    <2>6. QED
      BY <1>1, <2>3, <2>4, <2>5
  <1>3. /\ Quiet(s) /\ IsRegistered(s) /\ ~Busy(r)
        /\ task' = [task EXCEPT ![r] = [msg |-> NewMessage(job, s, id), todo |-> steps]]
        /\ UNCHANGED <<current_state, newest, aws_source_server_id, aws, queue>>
    BY <1>2, NothingIsHasty DEF Request, Start, Calm, LifecycleInv, ledgerVars, awsVars
  <1>4. PICK m, t : m = NewMessage(job, s, id) /\ t = [msg |-> m, todo |-> steps]
    OBVIOUS
  <1>5. /\ m \in Message /\ m.job = job /\ m.server = s /\ m.aws = id
    BY <1>2, <1>4, AttemptsAssumption DEF NewMessage, Message, JobType
  <1>6. /\ RequestLinked(m, steps) /\ steps[1][1] = "require"
        /\ steps \in Seq(AwaitStep)
    BY <1>2, <1>5, RequestsAreLinked, RequestShapes
  <1>7. t \in Task /\ t.msg = m /\ t.todo = steps
    BY <1>4, <1>5, <1>6 DEF Task
  <1>8. m.job = "ADD_SERVER" \/ m.aws = Null
    BY <1>2, <1>5
  <1>9. \A st, own_id, run : RequestFits(m, steps, st, own_id, run)
    BY <1>6, <1>8 DEF RequestFits, RequestLinked
  <1>10. current_state[s] \in ServerState
    BY <1>3 DEF IsRegistered, LifecycleInv, Core, LedgerTypeOK
  <1>11. QED
    BY <1>3, <1>4, <1>5, <1>7, <1>9, <1>10, RequestArrives

LEMMA RegistrationSettles ==
  ASSUME NEW own, OwnIds(own), LifecycleInv(own), NEW s \in Servers, Register(s)
  PROVE  Settled(own)
  <1>1. /\ UNCHANGED <<task, queue, newest, aws_source_server_id, aws>>
        /\ current_state' = [current_state EXCEPT ![s] = "PENDING"]
        /\ current_state[s] = NotRegistered
    BY DEF Register, RegisterServer, IsRegistered, awsVars
  <1>2. /\ current_state'[s] = "PENDING"
        /\ \A t \in Servers \ {s} : current_state'[t] = current_state[t]
    BY <1>1 DEF LifecycleInv, Core, LedgerTypeOK
  <1>3. \A x \in Places : MessageIn(x).server # s
    BY <1>1, StateNames DEF LifecycleInv, AllFit, FitsAt, Fits
  <1>4. InAws(s)' = InAws(s)
    BY <1>1 DEF InAws
  <1>5. LifecycleStep(s)
    <2>1. Passed(s) = 0 /\ Status(s) = "absent"
      BY <1>1 DEF Passed, Status, IsRegistered, LifecycleStatus, NotRegistered, InProgressStates
    <2>2. Status(s)' = "active"
      BY <1>2 DEF Status, LifecycleStatus, NotRegistered, InProgressStates
    <2>3. Passed(s)' = 0
      BY <1>2 DEF Passed, IsRegistered, NotRegistered, ErrorStates, GatesBefore, BeforeReplication,
                  BeforeTest
    <2>4. QED
      BY <1>4, <2>1, <2>2, <2>3 DEF LifecycleStep
  <1>6. OthersRowsStay(own, s)
    BY <1>1, <1>2 DEF OthersRowsStay, RowStays
  <1>7. /\ Needs(current_state'[s], InAws(s)')
        /\ aws_source_server_id'[s] = Null => aws'[own[s]] \cap Started = {}
    BY <1>1, <1>2 DEF Needs, LifecycleInv, UnknownIsClean
  <1>8. QED
    BY <1>1, <1>3, <1>5, <1>6, <1>7, RowActs

LEMMA ResetSettles ==
  ASSUME NEW own, OwnIds(own), LifecycleInv(own), Calm, NEW s \in Servers, Reset(s)
  PROVE  Settled(own)
  <1>1. PICK by : ResetServer(s, by)
    BY DEF Reset
  <1>2. /\ UNCHANGED <<task, queue, aws_source_server_id, aws>> /\ Quiet(s)
        /\ current_state' = [current_state EXCEPT ![s] = "PENDING"]
        /\ newest' = [newest EXCEPT ![s] = [from |-> current_state[s], to |-> "PENDING", by |-> by]]
        /\ current_state[s] = "FAILED"
    BY <1>1, NothingIsHasty DEF Reset, ResetServer, MoveTo, Calm, LifecycleInv, awsVars
  <1>3. /\ current_state'[s] = "PENDING"
        /\ \A t \in Servers \ {s} : current_state'[t] = current_state[t] /\ newest'[t] = newest[t]
    BY <1>2 DEF LifecycleInv, Core, LedgerTypeOK
  <1>4. \A x \in Places : MessageIn(x).server # s
    BY <1>2, QuietPlaces
  <1>5. InAws(s)' = InAws(s)
    BY <1>2 DEF InAws
  <1>6. LifecycleStep(s)
    <2>1. Status(s) = "failed"
      BY <1>2, StateNames, StatusOf DEF Status
    <2>2. Status(s)' = "active"
      BY <1>3 DEF Status, LifecycleStatus, NotRegistered, InProgressStates
    <2>3. Passed(s)' = 0
      BY <1>3 DEF Passed, IsRegistered, NotRegistered, ErrorStates, GatesBefore, BeforeReplication,
                  BeforeTest
    <2>4. QED
      BY <1>5, <2>1, <2>2, <2>3 DEF LifecycleStep
  <1>7. OthersRowsStay(own, s)
    BY <1>2, <1>3 DEF OthersRowsStay, RowStays
  <1>8. /\ Needs(current_state'[s], InAws(s)')
        /\ aws_source_server_id'[s] = Null => aws'[own[s]] \cap Started = {}
    BY <1>2, <1>3 DEF Needs, LifecycleInv, UnknownIsClean
  <1>9. QED
    BY <1>2, <1>4, <1>6, <1>7, <1>8, RowActs

LEMMA ManualMovesSettle ==
  ASSUME NEW own, OwnIds(own), LifecycleInv(own), Calm, NEW s \in Servers, ManualAdvance(s)
  PROVE  Settled(own)
  <1>1. PICK to \in ValidTransitions(current_state[s]) \ ErrorStates, by \in Engineers : AdvanceState(s, to, by)
    BY DEF ManualAdvance
  <1>2. PICK st, run : st = current_state[s] /\ run = InAws(s)
    OBVIOUS
  <1>3. /\ UNCHANGED <<task, queue, aws_source_server_id, aws>> /\ Quiet(s)
        /\ current_state' = [current_state EXCEPT ![s] = to]
        /\ newest' = [newest EXCEPT ![s] = [from |-> st, to |-> to, by |-> by]]
        /\ st \in {"TEST_INSTANCE_RUNNING", "CUTOVER_INSTANCE_RUNNING"}
    BY <1>1, <1>2 DEF ManualAdvance, AdvanceState, MoveTo, Calm, awsVars
  <1>4. /\ current_state'[s] = to /\ newest'[s].from = st
        /\ \A t \in Servers \ {s} : current_state'[t] = current_state[t] /\ newest'[t] = newest[t]
    BY <1>3 DEF LifecycleInv, Core, LedgerTypeOK
  <1>5. /\ \A x \in Places : MessageIn(x).server # s
        /\ Needs(st, run)
    BY <1>2, <1>3, QuietPlaces
  <1>6. InAws(s)' = run
    BY <1>2, <1>3 DEF InAws
  <1>7. <<st, to>> \in Forward
    BY <1>1, <1>2 DEF ValidTransitions
  <1>8. to \notin Entries /\ st \notin InProgressStates
    BY <1>3, <1>7 DEF Forward, Entries, InProgressStates
  <1>9. Needs(to, run)
    BY <1>5, <1>7, <1>8, NeedsGoOn
  <1>10. IsStep(st, to, run)
    BY <1>7, <1>8, <1>9, GatesAreReady DEF IsStep
  <1>11. LifecycleStep(s)
    BY <1>2, <1>4, <1>6, <1>10, MovesAreSteps
  <1>12. OthersRowsStay(own, s)
    BY <1>3, <1>4 DEF OthersRowsStay, RowStays
  <1>13. /\ Needs(current_state'[s], InAws(s)')
         /\ aws_source_server_id'[s] = Null => aws'[own[s]] \cap Started = {}
    BY <1>3, <1>4, <1>6, <1>9 DEF LifecycleInv, UnknownIsClean
  <1>14. QED
    BY <1>3, <1>5, <1>11, <1>12, <1>13, RowActs

LEMMA ManualJobsSettle ==
  ASSUME NEW own, OwnIds(own), LifecycleInv(own), NEW s \in Servers, ManualDispatch(s)
  PROVE  Settled(own)
  <1>1. PICK job \in ManualJobs :
          /\ VALID_STATES_FOR_JOB[job] = current_state[s]
          /\ PublishMessage(NewMessage(job, s, aws_source_server_id[s]))
    BY DEF ManualDispatch
  <1>2. PICK st, id, run : st = current_state[s] /\ id = aws_source_server_id[s] /\ run = InAws(s)
    OBVIOUS
  <1>3. PICK m, k : m = NewMessage(job, s, id) /\ k = QUEUE_ROUTING[job]
    OBVIOUS
  <1>4. job \in MgnJobs /\ st = ExpectedState(job) /\ st \in ServerState
    <2>1. job \in MgnJobs
      BY OrchestratorAssumption
    <2>2. VALID_STATES_FOR_JOB[job] \in ServerState
      BY <2>1 DEF MgnJobs, VALID_STATES_FOR_JOB, ServerState
    <2>3. QED
      BY <1>1, <1>2, <2>1, <2>2 DEF ExpectedState
  <1>5. /\ m \in Message /\ m.job = job /\ m.server = s /\ m.aws = id /\ m.phase = 1
    BY <1>2, <1>3, <1>4, AttemptsAssumption
       DEF NewMessage, Message, JobType, LifecycleInv, Core, LedgerTypeOK
  <1>6. k \in WorkQueues /\ Fits("worker", m, Program(k, m), st, id, run)
    <2>1. JobFits(m.job, m.phase, st)
      BY <1>4, <1>5 DEF JobFits
    <2>2. QED
      BY <1>3, <1>4, <1>5, <2>1, MessageFits
  <1>7. /\ Quiet(s) /\ UNCHANGED <<current_state, newest, aws_source_server_id, aws, task>>
        /\ queue' = [queue EXCEPT ![k] = Append(queue[k], m)]
    BY <1>1, <1>2, <1>3, <1>5 DEF ManualDispatch, PublishMessage, ledgerVars, awsVars
  <1>8. QED
    BY <1>2, <1>5, <1>6, <1>7, MessageArrives

LEMMA NothingSettles ==
  ASSUME NEW own, LifecycleInv(own), UNCHANGED vars
  PROVE  Settled(own)
  <1>1. PICK f : f = [y \in Places' |-> y]
    OBVIOUS
  <1>2. UNCHANGED <<current_state, newest, aws_source_server_id, aws, task, queue>>
    BY DEF vars, ledgerVars, awsVars
  <1>3. ASSUME NEW y \in Places'
        PROVE  y \in Places /\ MessageIn(y)' = MessageIn(y) /\ ToDo(y)' = ToDo(y)
    BY <1>2 DEF Places, Busy, MessageIn, ToDo
  <1>4. /\ \A y \in Places' : /\ f[y] \in Places /\ Role(y) = Role(f[y])
                              /\ MessageIn(y)' = MessageIn(f[y]) /\ ToDo(y)' = ToDo(f[y])
        /\ \A y, z \in Places' : f[y] = f[z] => y = z
    <2>1. \A y \in Places' : f[y] = y
      BY <1>1
    <2>2. QED
      BY <1>3, <2>1
  <1>5. \A t \in Servers : \A w \in FailedQueues : Ends(w, t) => Ends(w, t)'
    BY <1>2 DEF Ends, Doing, Busy, Subject
  <1>6. QED
    BY <1>2, <1>4, <1>5, OtherPlaces

-----------------------------------------------------------------------------
LEMMA StepsSettle ==
  ASSUME NEW own, Ownership(own), OwnIds(own), OwnIds(own)', LifecycleInv(own), Calm, [Next]_vars
  PROVE  Settled(own)
  <1>1. /\ \A group \in ProcessGroups : ~Crash(group)
        /\ \A w \in Consumers, o \in Orphans : ~LoseConnection(w, o)
        /\ \A o \in Orphans : ~ConsumerStep(o)
    BY NoOrphanStep DEF LifecycleInv, Calm
  <1>2. ASSUME NEW w \in Consumers, ConsumerStep(w)
        PROVE  Settled(own)
    <2>1. \/ w \in MgnWorkers /\ MgnWorkerStep(w)
          \/ w \in PollerWorkers /\ PollerStep(w)
          \/ w \in FailedQueues /\ RollbackStep(w)
      BY <1>2, ProcessesAssumption DEF ConsumerStep, Consumers
    <2>2. QED
      BY <2>1, WorkersSettle, RollbacksSettle
  <1>3. ASSUME NEW p \in Processes, Fault(p)
        PROVE  FALSE
    BY <1>3 DEF Fault, Calm, LifecycleInv, Counters
  <1>4. CASE UNCHANGED vars
    BY <1>4, NothingSettles
  <1>5. QED
    BY <1>1, <1>2, <1>3, <1>4, RequestsSettle, NewRequestsSettle, RegistrationSettles, ResetSettles,
       ManualMovesSettle, ManualJobsSettle DEF Next

LEMMA LifecycleInit ==
  ASSUME NEW own, Ownership(own), Init
  PROVE  LifecycleInv(own) /\ Lifecycle!LifecycleInit
  <1>1. Core /\ Counters
    BY InitCore, ApiAssumption, OrchestratorAssumption DEF Init, Counters
  <1>2. /\ \A p \in Processes : ~Busy(p)
        /\ \A q \in AllQueues : DOMAIN queue[q] = {}
    BY DEF Init, TasksInit, Busy, BrokerInit, AllQueues
  <1>3. NoOrphans /\ OneAtATime /\ AllFit
    <2>1. Places = {}
      BY <1>2 DEF Places
    <2>2. QED
      BY <1>2, <2>1 DEF NoOrphans, OneAtATime, AllFit, Processes
  <1>4. \A s \in Servers : current_state[s] = NotRegistered /\ InAws(s) = {}
    BY DEF Init, LedgerInit, InAws
  <1>5. NeedsAreMet
    BY <1>4 DEF NeedsAreMet, Needs, NotRegistered
  <1>6. UnknownIsClean(own)
    BY DEF UnknownIsClean, Ownership, Init, AwsInit, Started
  <1>7. Lifecycle!LifecycleInit
    <2>1. \A s \in Servers : ~IsRegistered(s) /\ LifecycleStatus(current_state[s]) = "absent"
      BY <1>4 DEF IsRegistered, LifecycleStatus, NotRegistered, InProgressStates
    <2>2. QED
      BY <1>4, <2>1 DEF Lifecycle!LifecycleInit
  <1>8. QED
    BY <1>1, <1>3, <1>5, <1>6, <1>7 DEF LifecycleInv

(* The refinement: as long as nothing dies or raises, engineers wait for   *)
(* the system and every server has an AWS id of its own, whatever AWS      *)
(* refuses, every step of the system is a step of the lifecycle of one     *)
(* server, or none.                                                        *)
THEOREM ImplementsTheLifecycle ==
  ASSUME NEW CONSTANT own, Ownership(own), Calm
  PROVE  Spec /\ []OwnIds(own) => ImplementsLifecycle
  <1>1. Init => LifecycleInv(own) /\ Lifecycle!LifecycleInit
    BY LifecycleInit
  <1>2. LifecycleInv(own) /\ OwnIds(own) /\ OwnIds(own)' /\ [Next]_vars
          => LifecycleInv(own)' /\ [Lifecycle!LifecycleNext]_(Lifecycle!lifecycleVars)
    BY StepsSettle, CoreStep, CountersStep, NoOrphanStep DEF LifecycleInv, Settled, Calm
  <1>3. QED
    BY <1>1, <1>2, PTL DEF Spec, ImplementsLifecycle, Lifecycle!LifecycleSpec

-----------------------------------------------------------------------------
(* Calm, and nobody but the system and the endpoints moves a server: it is *)
(* not reset, and no script takes it out of the state in which the poll of *)
(* the second phase leaves it.                                             *)
Untouched ==
  Calm /\ ManualStates = {} /\ MaxResets = 0 /\ "system" \notin Engineers

(* The program of no poller takes a server to the validation of its test   *)
(* instance, the third gate.                                               *)
Validates(todo) == \E i \in DOMAIN todo : todo[i] = advance("AWAITING_TEST_VALIDATION")

NoPollValidates == \A w \in PollerWorkers : Busy(w) => ~Validates(task[w].todo)

(* A server has not come to that gate, nothing runs for it that an earlier *)
(* stage did not start, and if the rollback has failed it, nothing of the  *)
(* stage it was in.                                                        *)
Confined(s) ==
  /\ current_state[s] # "AWAITING_TEST_VALIDATION"
  /\ Passed(s) \in 0..2
  /\ \A what \in InAws(s) :
       (what = "replication" /\ Passed(s) >= 1) \/ (what = "test" /\ Passed(s) = 2)
  /\ FailedByRollback(s) => InAws(s) \cap Lifecycle!StartedIn(Passed(s)) = {}

UntouchedInv(own) ==
  LifecycleInv(own) /\ NoPollValidates /\ \A s \in Servers : Confined(s)

-----------------------------------------------------------------------------
(* What a step of the lifecycle means for each server.                     *)
Observed(s) ==
  \/ Unseen(s)
  \/ /\ Passed(s)' = Passed(s) /\ Status(s)' = "active"
     /\ InAws(s)' \subseteq InAws(s) \cup Lifecycle!StartedIn(Passed(s))
  \/ /\ Passed(s)' = Passed(s) /\ InAws(s)' = InAws(s)
     /\ \/ Status(s)' # "failed"
        \/ Status(s) = "held"
        \/ InAws(s) \cap Lifecycle!StartedIn(Passed(s)) = {}
  \/ /\ Passed(s)' = Passed(s) + 1 /\ InAws(s)' = InAws(s)
     /\ Status(s) = "held" /\ Status(s)' = "active"
  \/ Status(s) = "failed" /\ Status(s)' = "active"

LEMMA EachServerIsObserved ==
  ASSUME [Lifecycle!LifecycleNext]_(Lifecycle!lifecycleVars), NEW s \in Servers
  PROVE  Observed(s)
  <1> DEFINE passed  == [t \in Servers |-> IF ~IsRegistered(t) THEN 0
                           ELSE IF current_state[t] \in ErrorStates THEN GatesBefore(newest[t].from)
                           ELSE GatesBefore(current_state[t])]
             status  == [t \in Servers |-> LifecycleStatus(current_state[t])]
             running == [t \in Servers |-> InAws(t)]
  <1>1. /\ passed = [t \in Servers |-> Passed(t)] /\ passed' = [t \in Servers |-> Passed(t)']
        /\ status = [t \in Servers |-> Status(t)] /\ status' = [t \in Servers |-> Status(t)']
        /\ running = [t \in Servers |-> InAws(t)] /\ running' = [t \in Servers |-> InAws(t)']
    BY DEF Passed, Status
  <1>2. UNCHANGED Lifecycle!lifecycleVars => passed' = passed /\ status' = status /\ running' = running
    BY DEF Lifecycle!lifecycleVars
  <1>3. ASSUME NEW t \in Servers
        PROVE  /\ Lifecycle!Register(t) \/ Lifecycle!ReachGate(t) \/ Lifecycle!Freeze(t) =>
                    /\ passed' = passed /\ running' = running
                    /\ \E st \in {"active", "held", "frozen"} : status' = [status EXCEPT ![t] = st]
               /\ Lifecycle!Reject(t) =>
                    /\ passed' = passed /\ running' = running /\ status[t] = "held"
                    /\ status' = [status EXCEPT ![t] = "failed"]
               /\ Lifecycle!Fail(t) =>
                    /\ passed' = passed /\ running' = running
                    /\ running[t] \cap Lifecycle!StartedIn(passed[t]) = {}
                    /\ status' = [status EXCEPT ![t] = "failed"]
    BY DEF Lifecycle!Register, Lifecycle!ReachGate, Lifecycle!Freeze, Lifecycle!Reject,
           Lifecycle!Fail, Lifecycle!Become
  <1>4. ASSUME NEW t \in Servers
        PROVE  /\ Lifecycle!Approve(t) =>
                    /\ passed' = [passed EXCEPT ![t] = passed[t] + 1] /\ running' = running
                    /\ status[t] = "held" /\ status' = [status EXCEPT ![t] = "active"]
               /\ Lifecycle!Reset(t) =>
                    /\ passed' = [passed EXCEPT ![t] = 0] /\ running' = running
                    /\ status[t] = "failed" /\ status' = [status EXCEPT ![t] = "active"]
               /\ Lifecycle!Operate(t) =>
                    /\ passed' = passed /\ status' = status /\ status[t] = "active"
                    /\ \/ \E what \in SUBSET Lifecycle!StartedIn(passed[t]) :
                            running' = [running EXCEPT ![t] = running[t] \cup what]
                       \/ \E what : running' = [running EXCEPT ![t] = running[t] \ what]
    BY DEF Lifecycle!Approve, Lifecycle!Reset, Lifecycle!Operate, Lifecycle!Become
  <1> HIDE DEF passed, status, running
  <1>5. CASE UNCHANGED Lifecycle!lifecycleVars
    BY <1>1, <1>2, <1>5 DEF Observed, Unseen
  <1>6. ASSUME NEW t \in Servers,
               \/ Lifecycle!Register(t) \/ Lifecycle!ReachGate(t) \/ Lifecycle!Freeze(t)
               \/ Lifecycle!Reject(t) \/ Lifecycle!Fail(t)
        PROVE  Observed(s)
    <2>1. Passed(s)' = Passed(s) /\ InAws(s)' = InAws(s)
      BY <1>1, <1>3, <1>6
    <2>2. CASE s # t
      <3>1. Status(s)' = Status(s)
        BY <1>1, <1>3, <1>6, <2>2
      <3>2. QED
        BY <2>1, <3>1 DEF Observed, Unseen
    <2>3. CASE s = t
      <3>1. \/ Status(s)' # "failed"
            \/ Status(s) = "held"
            \/ InAws(s) \cap Lifecycle!StartedIn(Passed(s)) = {}
        BY <1>1, <1>3, <1>6, <2>3
      <3>2. QED
        BY <2>1, <3>1 DEF Observed
    <2>4. QED
      BY <2>2, <2>3
  <1>7. ASSUME NEW t \in Servers,
               Lifecycle!Approve(t) \/ Lifecycle!Reset(t) \/ Lifecycle!Operate(t)
        PROVE  Observed(s)
    <2>1. CASE s # t
      <3>1. passed'[s] = passed[s] /\ status'[s] = status[s] /\ running'[s] = running[s]
        <4>1. CASE Lifecycle!Approve(t)
          BY <1>1, <1>4, <2>1, <4>1
        <4>2. CASE Lifecycle!Reset(t)
          BY <1>1, <1>4, <2>1, <4>2
        <4>3. CASE Lifecycle!Operate(t)
          BY <1>1, <1>4, <2>1, <4>3
        <4>4. QED
          BY <1>7, <4>1, <4>2, <4>3
      <3>2. Passed(s)' = Passed(s) /\ Status(s)' = Status(s) /\ InAws(s)' = InAws(s)
        BY <1>1, <3>1
      <3>3. QED
        BY <3>2 DEF Observed, Unseen
    <2>2. CASE s = t /\ Lifecycle!Operate(t)
      <3>1. /\ Passed(s)' = Passed(s) /\ Status(s)' = "active"
        BY <1>1, <1>4, <2>2
      <3>2. ASSUME NEW what \in SUBSET Lifecycle!StartedIn(Passed(s)),
                   running' = [running EXCEPT ![s] = running[s] \cup what]
            PROVE  InAws(s)' \subseteq InAws(s) \cup Lifecycle!StartedIn(Passed(s))
        <4>1. InAws(s)' = InAws(s) \cup what
          BY <1>1, <3>2
        <4>2. QED
          BY <3>2, <4>1
      <3>3. ASSUME NEW what, running' = [running EXCEPT ![s] = running[s] \ what]
            PROVE  InAws(s)' \subseteq InAws(s)
        <4>1. InAws(s)' = InAws(s) \ what
          BY <1>1, <3>3
        <4>2. QED
          BY <4>1
      <3>4. passed[s] = Passed(s)
        BY <1>1
      <3>5. InAws(s)' \subseteq InAws(s) \cup Lifecycle!StartedIn(Passed(s))
        BY <1>4, <2>2, <3>2, <3>3, <3>4
      <3>6. QED
        BY <3>1, <3>5 DEF Observed
    <2>3. CASE s = t /\ Lifecycle!Approve(t)
      <3>1. /\ Passed(s)' = Passed(s) + 1 /\ InAws(s)' = InAws(s)
            /\ Status(s) = "held" /\ Status(s)' = "active"
        BY <1>1, <1>4, <2>3
      <3>2. QED
        BY <3>1 DEF Observed
    <2>4. CASE s = t /\ Lifecycle!Reset(t)
      <3>1. Status(s) = "failed" /\ Status(s)' = "active"
        BY <1>1, <1>4, <2>4
      <3>2. QED
        BY <3>1 DEF Observed
    <2>5. QED
      BY <1>7, <2>1, <2>2, <2>3, <2>4
  <1>8. QED
    BY <1>5, <1>6, <1>7 DEF Lifecycle!LifecycleNext

-----------------------------------------------------------------------------
(* The polls: one of the second phase is never past its check.             *)
LEMMA ProgramsDoNotValidate ==
  ASSUME NEW m \in Message, m.job \in PollJobs
  PROVE  /\ ~Validates(PollProgram(m)) /\ ~Validates(<< <<"reenqueue">> >>) /\ ~Validates(<<>>)
         /\ m.phase = 1 => ~Validates(OnComplete(m))
  <1>1. /\ ~Validates(PollProgram(m)) /\ ~Validates(<< <<"reenqueue">> >>) /\ ~Validates(<<>>)
    BY DEF Validates, PollProgram, advance
  <1>2. ASSUME NEW to, to # "AWAITING_TEST_VALIDATION", NEW next, next # "AWAITING_TEST_VALIDATION",
               NEW job
        PROVE  /\ ~Validates(<< advance(to) >>) /\ ~Validates(<< advance(to), advance(next) >>)
               /\ ~Validates(<< advance(to), <<"publish", job, 2>> >>)
    BY <1>2 DEF Validates, advance
  <1>3. m.phase = 1 => ~Validates(OnComplete(m))
    BY <1>2 DEF OnComplete, InstanceHandler, PollJobs, VALID_STATES_FOR_POLL
  <1>4. QED
    BY <1>1, <1>3

LEMMA TailsDoNotValidate ==
  ASSUME NEW todo \in Seq(AwaitStep), todo # <<>>, Validates(Tail(todo))
  PROVE  Validates(todo)
  <1>1. PICK i \in DOMAIN Tail(todo) : Tail(todo)[i] = advance("AWAITING_TEST_VALIDATION")
    BY DEF Validates
  <1>2. i + 1 \in DOMAIN todo /\ todo[i+1] = Tail(todo)[i]
    OBVIOUS
  <1>3. QED
    BY <1>1, <1>2 DEF Validates

LEMMA OwnPrograms ==
  ASSUME NEW own, LifecycleInv(own), Calm, [Next]_vars, NEW w \in PollerWorkers
  PROVE  PollerStep(w) \/ task'[w] = task[w]
  <1>1. w \in Consumers /\ w \in Processes /\ w \notin MgnWorkers \cup FailedQueues \cup Requests
    BY ProcessesAssumption DEF Consumers, Processes
  <1>2. /\ \A group \in ProcessGroups : ~Crash(group)
        /\ \A v \in Consumers, o \in Orphans : ~LoseConnection(v, o)
        /\ \A o \in Orphans : ~ConsumerStep(o)
    BY NoOrphanStep DEF LifecycleInv, Calm
  <1>3. ASSUME NEW v \in Consumers, ConsumerStep(v)
        PROVE  PollerStep(w) \/ task'[w] = task[w]
    <2>1. CASE v = w
      BY <1>1, <1>3, <2>1, ProcessesAssumption DEF ConsumerStep
    <2>2. CASE v # w
      BY <1>1, <1>3, <2>2, StepsAreLocal DEF OthersStay, Processes, LifecycleInv
    <2>3. QED
      BY <2>1, <2>2
  <1>4. ASSUME NEW r \in Requests, RequestStep(r) \/ (NewRequest /\ OthersStay(r))
        PROVE  task'[w] = task[w]
    BY <1>1, <1>4, StepsAreLocal DEF OthersStay, Processes, LifecycleInv
  <1>5. NewRequest => task'[w] = task[w]
    BY <1>4, NewRequestsAreLocal DEF LifecycleInv
  <1>6. ASSUME NEW s \in Servers, Register(s) \/ Reset(s) \/ ManualAdvance(s) \/ ManualDispatch(s)
        PROVE  UNCHANGED task
    BY <1>6 DEF Register, Reset, ManualAdvance, ManualDispatch
  <1>7. \A p \in Processes : ~Fault(p)
    BY DEF Fault, Calm, LifecycleInv, Counters
  <1>8. UNCHANGED vars => UNCHANGED task
    BY DEF vars
  <1>9. QED
    BY <1>2, <1>3, <1>4, <1>5, <1>6, <1>7, <1>8 DEF Next

LEMMA NoPollValidatesStep ==
  ASSUME NEW own, LifecycleInv(own), Calm, NoPollValidates, [Next]_vars
  PROVE  NoPollValidates'
  <1> SUFFICES ASSUME NEW w \in PollerWorkers, Busy(w)'
               PROVE  ~Validates(task'[w].todo)
    BY DEF NoPollValidates
  <1>1. w \in Consumers /\ w \in Processes /\ Core
    BY DEF Consumers, Processes, LifecycleInv
  <1>2. ASSUME NEW steps, Deliver(w, steps), ~Validates(steps)
        PROVE  ~Validates(task'[w].todo)
    <2>1. task'[w].todo = steps
      BY <1>1, <1>2 DEF Deliver, Start, Core, TasksTypeOK
    <2>2. QED
      BY <1>2, <2>1
  <1>3. ASSUME NEW kind, Doing(w, kind), NEW steps, ContinueWith(w, steps), ~Validates(steps)
        PROVE  ~Validates(task'[w].todo)
    <2>1. task'[w].todo = steps
      BY <1>1, <1>3 DEF Doing, Busy, ContinueWith, Core, TasksTypeOK, Task
    <2>2. QED
      BY <1>3, <2>1
  <1>4. ASSUME NEW kind, Doing(w, kind), Proceed(w)
        PROVE  ~Validates(task'[w].todo)
    <2>1. /\ task[w].todo \in Seq(AwaitStep) /\ task[w].todo # <<>> /\ Busy(w)
      BY <1>1, <1>4, Awaiting DEF Doing
    <2>2. ~Validates(Tail(task[w].todo))
      BY <2>1, TailsDoNotValidate DEF NoPollValidates
    <2>3. QED
      BY <1>3, <1>4, <2>2 DEF Proceed
  <1>5. ~Leave(w)
    BY <1>1 DEF Leave, Core, TasksTypeOK, Busy
  <1>6. ASSUME NEW kind, Doing(w, kind)
        PROVE  task[w].msg \in Message /\ task[w].msg.job \in PollJobs
    BY <1>1, <1>6, Awaiting DEF Shape
  <1>7. CASE ReceivePoll(w)
    <2>1. NextMessage(w) \in Message /\ NextMessage(w).job \in PollJobs
      BY <1>1, <1>7, NextIsRouted DEF ReceivePoll
    <2>2. QED
      BY <1>2, <1>7, <2>1, ProgramsDoNotValidate DEF ReceivePoll
  <1>8. CASE CheckState(w)
    <2>1. Doing(w, "require") /\ ~Validates(<<>>)
      BY <1>6, <1>8, ProgramsDoNotValidate DEF CheckState
    <2>2. QED
      BY <1>3, <1>4, <1>8, <2>1 DEF CheckState
  <1>9. CASE PollCompletes(w)
    <2>1. Doing(w, "poll") /\ task[w].todo[1][1] = "poll"
      BY <1>1, <1>9, Awaiting DEF PollCompletes
    <2>2. task[w].msg.phase = 1
      BY <1>1, <2>1, AtWork DEF WorkerFits
    <2>3. ~Validates(OnComplete(task[w].msg))
      BY <1>6, <2>1, <2>2, ProgramsDoNotValidate
    <2>4. QED
      BY <1>3, <1>9, <2>1, <2>3 DEF PollCompletes
  <1>10. CASE PollAgain(w)
    <2>1. Doing(w, "poll") /\ ~Validates(<< <<"reenqueue">> >>)
      BY <1>6, <1>10, ProgramsDoNotValidate DEF PollAgain
    <2>2. QED
      BY <1>3, <1>10, <2>1 DEF PollAgain
  <1>11. CASE Reenqueue(w) \/ Advance(w, "system") \/ Publish(w)
    BY <1>4, <1>11 DEF Reenqueue, Advance, Publish
  <1>12. ~PollFails(w) /\ ~Finish(w)
    BY <1>5 DEF PollFails, Nack, Finish
  <1>13. CASE task'[w] = task[w]
    BY <1>13 DEF NoPollValidates, Busy
  <1>14. QED
    BY <1>7, <1>8, <1>9, <1>10, <1>11, <1>12, <1>13, OwnPrograms DEF PollerStep

-----------------------------------------------------------------------------
(* Who advances a server, and from where.                                  *)
LEMMA AdvancesFrom ==
  ASSUME NEW own, LifecycleInv(own), NEW p \in Processes, NEW by, Advance(p, by),
         NEW s, s = Subject(p)
  PROVE  /\ s \in Servers /\ current_state[s] \in ServerState \ ErrorStates
         /\ p \notin Requests /\ Operand(p) = "FAILED" => current_state[s] \in Ongoing
         /\ newest'[s].to = Operand(p) /\ newest'[s].by = by /\ current_state'[s] = Operand(p)
  <1>1. Doing(p, "advance") /\ Core /\ NoOrphans
    BY DEF Advance, LifecycleInv
  <1>2. /\ s \in Servers /\ current_state[s] \in ServerState
        /\ task[p].todo[1] = <<"advance", Operand(p)>>
        /\ newest'[s].to = Operand(p) /\ newest'[s].by = by
    BY <1>1, AtWork, AdvanceWrites DEF advance
  <1>3. current_state'[s] = Operand(p)
    BY <1>1, <1>2 DEF Advance, AdvanceState, MoveTo, Core, LedgerTypeOK
  <1>4. CASE p \in MgnWorkers \cup PollerWorkers
    <2>1. << current_state[s], Operand(p) >> \in Forward
      BY <1>1, <1>2, <1>4, AtWork DEF WorkerFits
    <2>2. current_state[s] \notin ErrorStates /\ Operand(p) # "FAILED"
      BY <2>1, StagesAlongThePath DEF ErrorStates
    <2>3. QED
      BY <1>2, <1>3, <2>2
  <1>5. CASE p \in Requests
    <2>1. RequestFits(task[p].msg, task[p].todo, current_state[s], aws_source_server_id[s], InAws(s))
      BY <1>1, <1>5, AtWork
    <2>2. task[p].todo[1][1] = "advance"
      BY <1>2
    <2>3. current_state[s] \in InProgressStates
      BY <2>1, <2>2 DEF RequestFits
    <2>4. QED
      BY <1>2, <1>3, <1>5, <2>3 DEF InProgressStates, ErrorStates
  <1>6. CASE p \in FailedQueues
    <2>1. current_state[s] \in Ongoing
      BY <1>1, <1>2, <1>6, AtWork DEF RollbackFits, MayEnd
    <2>2. QED
      BY <1>2, <1>3, <2>1 DEF Ongoing
  <1>7. p \notin Orphans
    BY <1>1 DEF NoOrphans, Doing
  <1>8. QED
    BY <1>4, <1>5, <1>6, <1>7 DEF Processes, Consumers

LEMMA OnlyWorkFails ==
  ASSUME NEW own, LifecycleInv(own), Untouched, [Next]_vars, NEW s \in Servers, FailedByRollback(s)'
  PROVE  FailedByRollback(s) \/ current_state[s] \in Ongoing
  <1>1. newest'[s].to = "FAILED" /\ newest'[s].by = "system" /\ current_state'[s] = "FAILED"
    BY DEF FailedByRollback
  <1>2. ASSUME NEW w \in Processes \ Requests, Advance(w, "system"), Subject(w) = s
        PROVE  current_state[s] \in Ongoing
    BY <1>1, <1>2, AdvancesFrom
  <1>3. ASSUME NEW r \in Requests, NEW by \in Engineers, Advance(r, by), Subject(r) = s
        PROVE  FALSE
    <2>1. r \in Processes
      BY DEF Processes
    <2>2. newest'[s].by = by
      BY <1>3, <2>1, AdvancesFrom
    <2>3. QED
      BY <1>1, <2>2 DEF Untouched
  <1>4. CASE /\ newest'[s] = newest[s]
             /\ current_state'[s] = "FAILED" => current_state[s] = "FAILED"
    BY <1>1, <1>4 DEF FailedByRollback
  <1>5. QED
    BY <1>1, <1>2, <1>3, <1>4, FailuresAreAdvances DEF LifecycleInv

LEMMA OnlyProcessesMove ==
  ASSUME NEW own, LifecycleInv(own), Untouched, [Next]_vars, NEW s \in Servers,
         current_state'[s] # current_state[s]
  PROVE  \/ \E w \in Consumers : Advance(w, "system") /\ Subject(w) = s
         \/ \E r \in Requests, by \in Engineers : Advance(r, by) /\ Subject(r) = s
         \/ current_state[s] = NotRegistered /\ current_state'[s] = "PENDING"
  <1>1. ~Reset(s) /\ ~ManualAdvance(s)
    BY DEF Reset, ManualAdvance, Untouched, LifecycleInv, Counters
  <1>2. Register(s) => current_state[s] = NotRegistered /\ current_state'[s] = "PENDING"
    BY DEF Register, RegisterServer, IsRegistered, LifecycleInv, Core, LedgerTypeOK
  <1>3. \A o \in Orphans : ~Advance(o, "system")
    BY DEF LifecycleInv, NoOrphans, Advance, Doing
  <1>4. QED
    BY <1>1, <1>2, <1>3, Movers DEF Engaged, LifecycleInv

LEMMA FailedStays ==
  ASSUME NEW own, LifecycleInv(own), Untouched, [Next]_vars, NEW s \in Servers,
         current_state[s] = "FAILED"
  PROVE  current_state'[s] = "FAILED"
  <1>1. ASSUME NEW p \in Processes, NEW by, Advance(p, by), Subject(p) = s
        PROVE  FALSE
    <2>1. current_state[s] \notin ErrorStates
      BY <1>1, AdvancesFrom
    <2>2. QED
      BY <2>1 DEF ErrorStates
  <1>2. current_state[s] # NotRegistered
    BY StateNames
  <1>3. QED
    BY <1>1, <1>2, OnlyProcessesMove DEF Processes

LEMMA ValidationIsNotReached ==
  ASSUME NEW own, LifecycleInv(own), Untouched, NoPollValidates, [Next]_vars, NEW s \in Servers,
         current_state[s] # "AWAITING_TEST_VALIDATION"
  PROVE  current_state'[s] # "AWAITING_TEST_VALIDATION"
  <1> SUFFICES ASSUME current_state'[s] = "AWAITING_TEST_VALIDATION"
               PROVE  FALSE
    OBVIOUS
  <1>1. Core
    BY DEF LifecycleInv
  <1>2. ASSUME NEW w \in Consumers, Advance(w, "system"), Subject(w) = s
        PROVE  FALSE
    <2>1. w \in Processes /\ w \notin Requests
      BY ProcessesAssumption DEF Processes, Consumers
    <2>2. Operand(w) = "AWAITING_TEST_VALIDATION"
      BY <1>2, <2>1, AdvancesFrom
    <2>3. /\ task[w].todo[1] = advance("AWAITING_TEST_VALIDATION") /\ 1 \in DOMAIN task[w].todo
          /\ Busy(w) /\ Shape(w, task[w].msg, task[w].todo)
      BY <1>1, <1>2, <2>1, <2>2, AdvanceWrites
    <2>4. w \notin PollerWorkers
      BY <2>3 DEF NoPollValidates, Validates
    <2>5. w \notin FailedQueues
      BY <2>3 DEF Shape, RollbackShape, advance, ErrorStates
    <2>6. StepShape(task[w].msg, task[w].todo, 1)
      BY <2>3 DEF Shape
    <2>7. task[w].msg.job \in PollJobs
      BY <2>3, <2>6 DEF StepShape, advance, StageExits
    <2>8. w \notin MgnWorkers
      BY <2>3, <2>7, Names DEF Shape
    <2>9. QED
      BY <2>4, <2>5, <2>8 DEF Consumers
  <1>3. ASSUME NEW r \in Requests, NEW by, Advance(r, by), Subject(r) = s
        PROVE  FALSE
    <2>1. current_state'[s] \notin InProgressStates
      BY <1>1, <1>3, RequestsLeaveGates
    <2>2. QED
      BY <2>1 DEF InProgressStates
  <1>4. QED
    BY <1>2, <1>3, OnlyProcessesMove

-----------------------------------------------------------------------------
LEMMA ConfinedStep ==
  ASSUME NEW own, LifecycleInv(own), Untouched, [Next]_vars, NEW s \in Servers, Confined(s),
         Observed(s), current_state'[s] # "AWAITING_TEST_VALIDATION"
  PROVE  Confined(s)'
  <1>1. PICK p, run, st : p = Passed(s) /\ run = InAws(s) /\ st = current_state[s]
    OBVIOUS
  <1>2. /\ st \in ServerState \cup {NotRegistered}
        /\ p \in 0..2
        /\ \A what \in run : (what = "replication" /\ p >= 1) \/ (what = "test" /\ p = 2)
        /\ FailedByRollback(s) => run \cap Lifecycle!StartedIn(p) = {}
    BY <1>1 DEF LifecycleInv, Core, LedgerTypeOK, Confined
  <1>3. /\ p = 0 => Lifecycle!StartedIn(p) = {}
        /\ p = 1 => Lifecycle!StartedIn(p) = {"replication"}
        /\ p = 2 => Lifecycle!StartedIn(p) = {"test"}
    BY DEF Lifecycle!StartedIn
  <1>4. /\ Status(s) = "failed" <=> st = "FAILED"
        /\ Status(s) = "held" => st \in InProgressStates
        /\ Status(s)' = "failed" <=> current_state'[s] = "FAILED"
    <2>1. LifecycleStatus(NotRegistered) = "absent"
      BY DEF LifecycleStatus, NotRegistered, InProgressStates
    <2>2. Core'
      BY CoreStep DEF LifecycleInv
    <2>3. current_state'[s] \in ServerState \cup {NotRegistered}
      BY <2>2 DEF Core, LedgerTypeOK
    <2>4. QED
      BY <1>1, <1>2, <2>1, <2>3, StatusOf, StateNames DEF Status
  <1>5. FailedByRollback(s)' => FailedByRollback(s) \/ st \in Ongoing
    BY <1>1, OnlyWorkFails
  <1>6. st = "FAILED" => current_state'[s] = "FAILED"
    BY <1>1, FailedStays
  <1>7. FailedByRollback(s)' => Status(s)' = "failed"
    BY <1>4 DEF FailedByRollback
  <1>8. Passed(s)' \in 0..2
    <2>1. CASE Passed(s)' = p
      BY <1>2, <2>1
    <2>2. CASE Status(s) = "held" /\ Passed(s)' = p + 1
      <3>1. st \in InProgressStates /\ st # "AWAITING_TEST_VALIDATION"
        BY <1>1, <1>4, <2>2 DEF Confined
      <3>2. p = GatesBefore(st)
        BY <1>1, <3>1, StateNames
           DEF Passed, IsRegistered, InProgressStates, ErrorStates, NotRegistered
      <3>3. p # 2
        BY <3>1, <3>2 DEF GatesBefore, InProgressStates, BeforeReplication, BeforeTest
      <3>4. QED
        BY <1>2, <2>2, <3>3
    <2>3. QED
      BY <1>1, <1>4, <1>6, <2>1, <2>2 DEF Observed, Unseen
  <1>9. \A what \in InAws(s)' :
          (what = "replication" /\ Passed(s)' >= 1) \/ (what = "test" /\ Passed(s)' = 2)
    <2>1. CASE Passed(s)' = p /\ InAws(s)' \subseteq run \cup Lifecycle!StartedIn(p)
      BY <1>2, <1>3, <2>1
    <2>2. CASE Passed(s)' = p + 1 /\ InAws(s)' = run
      BY <1>2, <1>8, <2>2
    <2>3. QED
      BY <1>1, <1>4, <1>6, <2>1, <2>2 DEF Observed, Unseen
  <1>10. ASSUME FailedByRollback(s)'
         PROVE  InAws(s)' \cap Lifecycle!StartedIn(Passed(s)') = {}
    <2>1. Status(s)' = "failed" /\ Status(s) # "held"
      BY <1>1, <1>4, <1>5, <1>7, <1>10 DEF FailedByRollback, Ongoing
    <2>2. Passed(s)' = p /\ InAws(s)' = run
      BY <1>1, <2>1 DEF Observed, Unseen
    <2>3. CASE FailedByRollback(s)
      BY <1>2, <2>2, <2>3
    <2>4. CASE st \in Ongoing
      <3>1. Status(s) # "failed"
        BY <1>4, <2>4 DEF Ongoing, ErrorStates
      <3>2. run \cap Lifecycle!StartedIn(p) = {}
        BY <1>1, <2>1, <3>1 DEF Observed, Unseen
      <3>3. QED
        BY <2>2, <3>2
    <2>5. QED
      BY <1>5, <1>10, <2>3, <2>4
  <1>11. QED
    BY <1>8, <1>9, <1>10 DEF Confined

LEMMA ConfinedIsClean ==
  ASSUME \A s \in Servers : Confined(s)
  PROVE  FailedIsClean
  <1> SUFFICES ASSUME NEW s \in Servers, FailedByRollback(s)
               PROVE  IsClean(s)
    BY DEF FailedIsClean
  <1>1. Passed(s) = GatesBefore(newest[s].from)
    BY StateNames DEF FailedByRollback, Passed, IsRegistered, ErrorStates
  <1>2. newest[s].from \in BeforeTest => Passed(s) <= 1
    BY <1>1 DEF GatesBefore, BeforeTest, BeforeReplication
  <1>3. PICK p, run : p = Passed(s) /\ run = InAws(s)
    OBVIOUS
  <1>4. /\ p \in 0..2 /\ run \cap Lifecycle!StartedIn(p) = {}
        /\ \A what \in run : (what = "replication" /\ p >= 1) \/ (what = "test" /\ p = 2)
    BY <1>3 DEF Confined
  <1>5. /\ p = 1 => "replication" \notin run
        /\ p = 2 => "test" \notin run
    BY <1>4 DEF Lifecycle!StartedIn
  <1>6. run \cap {"test", "cutover"} = {}
    BY <1>4, <1>5
  <1>7. p <= 1 => "replication" \notin run
    BY <1>4, <1>5
  <1>8. QED
    BY <1>2, <1>3, <1>6, <1>7 DEF IsClean

LEMMA UntouchedStep ==
  ASSUME NEW own, Ownership(own), OwnIds(own), OwnIds(own)', UntouchedInv(own), Untouched, [Next]_vars
  PROVE  UntouchedInv(own)'
  <1>1. LifecycleInv(own) /\ Calm
    BY DEF UntouchedInv, Untouched
  <1>2. LifecycleInv(own)' /\ [Lifecycle!LifecycleNext]_(Lifecycle!lifecycleVars)
    BY <1>1, StepsSettle, CoreStep, CountersStep, NoOrphanStep DEF LifecycleInv, Settled, Calm
  <1>3. NoPollValidates'
    BY <1>1, NoPollValidatesStep DEF UntouchedInv
  <1>4. ASSUME NEW s \in Servers
        PROVE  Confined(s)'
    <2>1. Confined(s) /\ current_state[s] # "AWAITING_TEST_VALIDATION"
      BY DEF UntouchedInv, Confined
    <2>2. current_state'[s] # "AWAITING_TEST_VALIDATION"
      BY <1>1, <2>1, ValidationIsNotReached DEF UntouchedInv
    <2>3. QED
      BY <1>1, <1>2, <2>1, <2>2, EachServerIsObserved, ConfinedStep
  <1>5. QED
    BY <1>2, <1>3, <1>4 DEF UntouchedInv

LEMMA UntouchedInit ==
  ASSUME NEW own, Ownership(own), Init
  PROVE  UntouchedInv(own)
  <1>1. NoPollValidates
    BY DEF NoPollValidates, Init, TasksInit, Busy, Processes, Consumers
  <1>2. ASSUME NEW s \in Servers
        PROVE  Confined(s)
    <2>1. current_state[s] = NotRegistered /\ InAws(s) = {}
      BY DEF Init, LedgerInit, InAws
    <2>2. QED
      BY <2>1 DEF Confined, Passed, IsRegistered, FailedByRollback, NotRegistered
  <1>3. QED
    BY <1>1, <1>2, LifecycleInit DEF UntouchedInv

LEMMA UntouchedHolds ==
  ASSUME NEW CONSTANT own, Ownership(own), Untouched
  PROVE  Spec /\ []OwnIds(own) => []UntouchedInv(own)
  <1>1. Init => UntouchedInv(own)
    BY UntouchedInit
  <1>2. UntouchedInv(own) /\ OwnIds(own) /\ OwnIds(own)' /\ [Next]_vars => UntouchedInv(own)'
    BY UntouchedStep
  <1>3. QED
    BY <1>1, <1>2, PTL DEF Spec

(* A server that the rollback worker has marked FAILED runs no instance,   *)
(* nor the replication if no test was launched, whichever of the calls of  *)
(* its handlers and of its rollback AWS refuses, as long as nothing dies   *)
(* or raises, engineers wait, and no failed server is started again.       *)
THEOREM FailedIsCleanHolds ==
  ASSUME NEW CONSTANT own, Ownership(own), Untouched
  PROVE  Spec /\ []OwnIds(own) => []FailedIsClean
  <1>1. UntouchedInv(own) => FailedIsClean
    BY ConfinedIsClean DEF UntouchedInv
  <1>2. QED
    BY <1>1, UntouchedHolds, PTL

(* What PhaseTwo shows on one server: nothing that the system does by      *)
(* itself takes a server to the validation of its test instance, since the *)
(* poll of the second phase is valid only in a state it has left.          *)
THEOREM NoTestIsValidated ==
  ASSUME NEW CONSTANT own, Ownership(own), Untouched
  PROVE  Spec /\ []OwnIds(own)
           => [](\A s \in Servers : current_state[s] # "AWAITING_TEST_VALIDATION")
  <1>1. UntouchedInv(own) => \A s \in Servers : current_state[s] # "AWAITING_TEST_VALIDATION"
    BY DEF UntouchedInv, Confined
  <1>2. QED
    BY <1>1, UntouchedHolds, PTL
=============================================================================
