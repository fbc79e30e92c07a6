------------------------------- MODULE AwsMgn -------------------------------
(***************************************************************************)
(* AWS MGN as the code uses it: what runs in the account for each source   *)
(* server.  A call may raise, at most MaxAwsErrors times in a behaviour.   *)
(* AWS itself is outside the repository.                                   *)
(***************************************************************************)
EXTENDS StateLedger, Naturals

CONSTANTS MaxAwsErrors  \* bound: calls that raise

ASSUME ErrorsAssumption == MaxAwsErrors \in Nat

VARIABLES aws,         \* what runs for each source server id
          aws_errors   \* the calls that have raised

awsVars == <<aws, aws_errors>>

(* "source" is the record of the source server in MGN, there since its     *)
(* agent was installed; "tested" and "disconnected" are what MGN remembers *)
(* of a test and of a disconnection; the rest is what the orchestrator     *)
(* starts.                                                                 *)
Started   == {"replication", "test", "cutover"}
Resources == {"source", "tested", "disconnected"} \cup Started

AwsTypeOK ==
  /\ aws \in [AwsIds -> SUBSET Resources]
  /\ aws_errors \in 0..MaxAwsErrors

AwsInit ==
  /\ aws = [id \in AwsIds |-> {"source"}]
  /\ aws_errors = 0

-----------------------------------------------------------------------------
(* What a call that succeeds changes.                                      *)
Effect(call, running) ==
  CASE call = "start_replication"          -> (running \ {"tested"}) \cup {"replication"}
    [] call = "stop_replication"           -> running \ {"replication"}
    [] call = "disconnect_from_service"    -> (running \ {"replication"}) \cup {"disconnected"}
    [] call = "start_test"                 -> running \cup {"test", "tested"}
    [] call = "start_cutover"              -> running \cup {"cutover"}
    [] call = "terminate_target_instances" -> running \ {"test", "cutover"}
    [] call = "delete_source_server"       -> running \ {"source"}
    [] OTHER                               -> running

(* lifeCycle.state, as describe_source_servers reports it: the one field   *)
(* that the pre-flight checks and the polls read.  Nothing in the code     *)
(* sets it; it becomes READY_FOR_CUTOVER once the test instance is gone,   *)
(* as the way from FINALIZE_TEST to START_CUTOVER takes for granted.       *)
LifeCycle(running) ==
  IF {"replication", "source"} \cap running = {} THEN "ABSENT"
  ELSE IF {"replication", "disconnected"} \cap running = {"disconnected"} THEN "DISCONNECTED"
  ELSE IF "cutover" \in running THEN "CUTOVER"
  ELSE IF "replication" \notin running THEN "STOPPED"
  ELSE IF "test" \in running THEN "TESTING"
  ELSE IF "tested" \in running THEN "READY_FOR_CUTOVER"
  ELSE "READY_FOR_TEST"

(* The pre-flight checks: a source server that MGN knows (a poll of a job  *)
(* or of an instance asks for none), and the lifecycle that a call is for. *)
Preflight(call, running) ==
  /\ call # "poll" => "source" \in running
  /\ call = "confirm_agent" => LifeCycle(running) # "DISCONNECTED"
  /\ call = "start_test"    => LifeCycle(running) = "READY_FOR_TEST"
  /\ call = "start_cutover" => LifeCycle(running) = "READY_FOR_CUTOVER"

CallAws(call, id) ==
  /\ id \in AwsIds
  /\ Preflight(call, aws[id])
  /\ aws' = [aws EXCEPT ![id] = Effect(call, @)]
  /\ UNCHANGED aws_errors

(* The call raises: without effect, because its argument or the pre-flight *)
(* check is wrong, or because AWS refuses it.                              *)
CallRaises(call, id) ==
  \/ /\ id \in AwsIds => ~Preflight(call, aws[id])
     /\ UNCHANGED awsVars
  \/ /\ aws_errors < MaxAwsErrors
     /\ aws_errors' = aws_errors + 1
     /\ UNCHANGED aws
=============================================================================
