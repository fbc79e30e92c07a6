--------------------------- MODULE RollbackWorker ---------------------------
(***************************************************************************)
(* workers/rollback_worker.py: for every dead letter, read the row, undo   *)
(* what the state of the row says was started, and mark the server FAILED  *)
(* or FROZEN.                                                              *)
(***************************************************************************)
EXTENDS Tasks

TerminalStates == {"FAILED", "FROZEN", "CLEANUP_COMPLETE"}

(* The groups of _get_rollback_plan.                                       *)
StopReplicationStates ==
  { "REPLICATION_STARTED", "READY_FOR_TESTING",
    "TEST_LAUNCH_TEMPLATE_CONFIGURED", "AWAITING_TEST_LAUNCH_APPROVAL" }
TerminateTestStates ==
  {"TEST_INSTANCE_LAUNCHING", "TEST_INSTANCE_RUNNING", "AWAITING_TEST_VALIDATION"}
TerminateCutoverStates ==
  { "CUTOVER_STARTED", "CUTOVER_SYNC_IN_PROGRESS", "READY_FOR_CUTOVER_LAUNCH",
    "CUTOVER_INSTANCE_LAUNCHING" }
AlwaysFrozenStates ==
  { "CUTOVER_INSTANCE_RUNNING", "AWAITING_CUTOVER_VALIDATION",
    "CUTOVER_FINALIZED", "DISCONNECTING", "DISCONNECTED",
    "AWAITING_ARCHIVE_APPROVAL", "ARCHIVED", "AWAITING_CLEANUP_APPROVAL" }

UndoSteps(state, id) ==
  IF id = Null THEN <<>>
  ELSE CASE state \in StopReplicationStates -> << <<"undo", "stop_replication">> >>
         [] state \in TerminateTestStates \cup TerminateCutoverStates ->
              << <<"undo", "terminate_target_instances">> >>
         [] OTHER -> <<>>

(* Mutant: a failure before the cutover instance runs is FAILED.           *)
FrozenOnlyOnceCutOver(state) ==
  IF state \in AlwaysFrozenStates THEN "FROZEN" ELSE "FAILED"

IntendedFinalState(state) ==
  IF state \in TerminateCutoverStates \cup AlwaysFrozenStates THEN "FROZEN" ELSE "FAILED"

-----------------------------------------------------------------------------
RollbackProgram == << <<"plan">> >>

ReceiveFailure(w) == Deliver(w, RollbackProgram)

(* _get_rollback_plan, for a server that is not in a terminal state.       *)
PlanProgram(st, id) ==
  IF st \in TerminalStates THEN <<>>
  ELSE UndoSteps(st, id) \o << advance(IntendedFinalState(st)) >>

(* get_server, the terminal state check, and the plan for that state: the  *)
(* row is not read again.                                                  *)
Plan(w) ==
  /\ Doing(w, "plan")
  /\ LET s  == Subject(w)
         id == aws_source_server_id[s]
     IN task' = [task EXCEPT ![w] =
          [@ EXCEPT !.msg.aws = id, !.todo = PlanProgram(current_state[s], id)]]
  /\ UNCHANGED <<ledgerVars, queue, awsVars>>

(* Mutants: an undo step that raises ends the rollback, or is ignored.     *)
UndoGivesUp(w) ==
  /\ Doing(w, "undo")
  /\ \/ CallAws(Operand(w), task[w].msg.aws) /\ Proceed(w)
     \/ CallRaises(Operand(w), task[w].msg.aws) /\ ContinueWith(w, <<>>)
  /\ UNCHANGED <<ledgerVars, queue>>

UndoIgnoresFailure(w) ==
  /\ Doing(w, "undo")
  /\ CallAws(Operand(w), task[w].msg.aws) \/ CallRaises(Operand(w), task[w].msg.aws)
  /\ Proceed(w)
  /\ UNCHANGED <<ledgerVars, queue>>

(* _execute_plan: an undo step that raises overrides the final state.      *)
Undo(w) ==
  /\ Doing(w, "undo")
  /\ \/ CallAws(Operand(w), task[w].msg.aws) /\ Proceed(w)
     \/ /\ CallRaises(Operand(w), task[w].msg.aws)
        /\ ContinueWith(w, << advance("FROZEN") >>)
  /\ UNCHANGED <<ledgerVars, queue>>

(* _finalise raises: the message is acknowledged all the same.             *)
RollbackFails(w) ==
  /\ AdvanceRaises(w)
  /\ Leave(w)
  /\ UNCHANGED <<ledgerVars, queue, awsVars>>

(* Both consumers run in one event loop, and there is no await between the *)
(* plan and the calls of boto3, which block the loop.                      *)
LoopIsFree(w) == \A v \in (FailedQueues \cup Orphans) \ {w} : ~Doing(v, "undo")

RollbackStep(w) ==
  /\ LoopIsFree(w)
  /\ \/ ReceiveFailure(w) \/ Plan(w) \/ Undo(w) \/ Advance(w, "system")
     \/ RollbackFails(w) \/ Finish(w)
=============================================================================
