------------------------------- MODULE Tasks --------------------------------
(***************************************************************************)
(* What is common to everything that handles a message or a request: the   *)
(* coroutine of one message in a worker, or of one HTTP request in the     *)
(* API, as the list of awaits it still has to perform.  Between two of     *)
(* them any other process may run.                                         *)
(***************************************************************************)
EXTENDS Broker, AwsMgn

CONSTANTS MgnWorkers, PollerWorkers,  \* replicas of the two deployments
          Requests,                   \* HTTP requests in flight at once
          Orphans,                    \* handlers that lost their message
          NoTask                      \* a process that waits for work

VARIABLE task  \* what each process is doing

(* The rollback worker consumes both failed queues, one message of each at *)
(* a time: a consumer is named by its queue.                               *)
Consumers == MgnWorkers \cup PollerWorkers \cup FailedQueues

(* A handler whose connection to the broker was lost goes on as an orphan, *)
(* while its message is delivered again.                                   *)
Processes == Consumers \cup Requests \cup Orphans

SourceQueue(w) ==
  IF w \in MgnWorkers THEN "mgn_jobs"
  ELSE IF w \in PollerWorkers THEN "poll_jobs" ELSE w

Calls ==
  { "confirm_agent", "update_replication_configuration",
    "start_replication", "stop_replication", "update_launch_configuration",
    "start_test", "terminate_target_instances", "start_cutover",
    "describe_source_servers", "finalize_cutover", "disconnect_from_service",
    "mark_as_archived", "delete_source_server" }

(* One await of a coroutine.                                               *)
AwaitStep ==
  ({"require", "advance"} \X ServerState) \cup ({"call", "undo"} \X Calls)
    \cup ({"publish"} \X JobType \X {1, 2})
    \cup {<<"store_aws_id">>, <<"poll">>, <<"reenqueue">>, <<"plan">>}

call(name)     == <<"call", name>>
advance(state) == <<"advance", state>>
publish(job)   == <<"publish", job, 1>>

Task == [msg : Message, todo : Seq(AwaitStep)]

ASSUME ProcessesAssumption ==
  /\ MgnWorkers \cap (PollerWorkers \cup FailedQueues \cup Requests \cup Orphans) = {}
  /\ PollerWorkers \cap (FailedQueues \cup Requests \cup Orphans) = {}
  /\ FailedQueues \cap (Requests \cup Orphans) = {}
  /\ Requests \cap Orphans = {}
  /\ NoTask \notin Task

TasksTypeOK == task \in [Processes -> Task \cup {NoTask}]
TasksInit   == task = [p \in Processes |-> NoTask]

-----------------------------------------------------------------------------
Busy(p)        == task[p] # NoTask
Doing(p, kind) == Busy(p) /\ task[p].todo # <<>> /\ Head(task[p].todo)[1] = kind
Operand(p)     == Head(task[p].todo)[2]
Subject(p)     == task[p].msg.server

Start(p, m, steps) ==
  /\ ~Busy(p)
  /\ task' = [task EXCEPT ![p] = [msg |-> m, todo |-> steps]]
ContinueWith(p, steps) == task' = [task EXCEPT ![p].todo = steps]
Proceed(p)             == ContinueWith(p, Tail(task[p].todo))
Leave(p)               == task' = [task EXCEPT ![p] = NoTask]

(* A message is delivered to a free consumer.                              *)
NextMessage(w) == Head(queue[SourceQueue(w)])

Deliver(w, steps) ==
  /\ w \in Consumers
  /\ Take(SourceQueue(w))
  /\ Start(w, NextMessage(w), steps)
  /\ UNCHANGED <<ledgerVars, awsVars>>

(* Mutant: the stale message check is gone.                                *)
CheckNothing(w) ==
  /\ Doing(w, "require")
  /\ Proceed(w)
  /\ UNCHANGED <<ledgerVars, queue, awsVars>>

(* The stale message check: a message whose server is in another state is  *)
(* acknowledged and skipped.                                               *)
CheckState(w) ==
  /\ Doing(w, "require")
  /\ IF current_state[Subject(w)] = Operand(w) THEN Proceed(w)
                                               ELSE ContinueWith(w, <<>>)
  /\ UNCHANGED <<ledgerVars, queue, awsVars>>

(* state_manager.advance_state, and the InvalidTransitionError it raises.  *)
Advance(p, by) ==
  /\ Doing(p, "advance")
  /\ AdvanceState(Subject(p), Operand(p), by)
  /\ Proceed(p)
  /\ UNCHANGED <<queue, awsVars>>

AdvanceRaises(p) ==
  /\ Doing(p, "advance")
  /\ ~IsValidTransition(current_state[Subject(p)], Operand(p))

(* JobDispatcher.dispatch and the _dispatch of the workers.                *)
Publish(p) ==
  /\ Doing(p, "publish")
  /\ LET m == task[p].msg
         phase == Head(task[p].todo)[3]
     IN PublishMessage([NewMessage(Operand(p), m.server, m.aws) EXCEPT !.phase = phase])
  /\ Proceed(p)
  /\ UNCHANGED <<ledgerVars, awsVars>>

(* message.ack(), or the response of the API.                              *)
Finish(p) ==
  /\ Busy(p)
  /\ task[p].todo = <<>>
  /\ Leave(p)
  /\ UNCHANGED <<ledgerVars, queue, awsVars>>

(* Mutant: a failed job is acknowledged.                                   *)
AckFailure(w) ==
  /\ Leave(w)
  /\ UNCHANGED <<ledgerVars, queue>>

(* message.nack(requeue=False): the broker dead-letters the message; from  *)
(* an orphan it does not accept one.                                       *)
Nack(w) ==
  /\ IF w \in Orphans THEN UNCHANGED queue ELSE DeadLetter(task[w].msg)
  /\ Leave(w)
  /\ UNCHANGED ledgerVars
=============================================================================
