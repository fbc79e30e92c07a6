------------------------- MODULE MigrationLifecycle -------------------------
(***************************************************************************)
(* What the orchestrator promises an engineer: a server passes seven gates *)
(* in order, each opened or refused by an engineer; what runs in AWS is    *)
(* started and stopped only in the stage that it belongs to; a gate is     *)
(* reached only when what is to be judged there is in place; and a failure *)
(* undoes what its stage had started, or freezes the server.               *)
(* Orchestrator implements this module as long as no process dies and      *)
(* engineers do not race with the system.                                  *)
(***************************************************************************)
EXTENDS Naturals

CONSTANT Servers

VARIABLES passed,  \* the gates that each server has passed
          status,  \* "absent", "active", "held" at a gate, "failed", "frozen"
          running  \* which of replication, test and cutover instance runs

lifecycleVars == <<passed, status, running>>

LastGate == 6  \* after it, nothing is left to approve

LifecycleInit ==
  /\ passed = [s \in Servers |-> 0]
  /\ status = [s \in Servers |-> "absent"]
  /\ running = [s \in Servers |-> {}]

-----------------------------------------------------------------------------
Become(s, new) == status' = [status EXCEPT ![s] = new]

Register(s) ==
  /\ status[s] = "absent"
  /\ Become(s, "active")
  /\ UNCHANGED <<passed, running>>

(* What an engineer finds at a gate, by the number of gates passed before  *)
(* it: replication in sync before a test is launched, the test instance to *)
(* validate, none of it left before the cutover, the production instance   *)
(* to validate, and a source server that is no longer replicated.          *)
Ready(gate, resources) ==
  /\ gate \in {1, 3} => "replication" \in resources
  /\ gate = 2 => "test" \in resources
  /\ gate = 3 => "test" \notin resources
  /\ gate = 4 => "cutover" \in resources
  /\ gate \in {5, 6} => "replication" \notin resources

ReachGate(s) ==
  /\ status[s] = "active"
  /\ passed[s] <= LastGate
  /\ Ready(passed[s], running[s])
  /\ Become(s, "held")
  /\ UNCHANGED <<passed, running>>

Approve(s) ==
  /\ status[s] = "held"
  /\ passed' = [passed EXCEPT ![s] = @ + 1]
  /\ Become(s, "active")
  /\ UNCHANGED running

(* A rejection leaves AWS to the engineer.                                 *)
Reject(s) ==
  /\ status[s] = "held"
  /\ Become(s, "failed")
  /\ UNCHANGED <<passed, running>>

(* What a stage, named by the gates passed before it, may start and stop.  *)
StartedIn(stage) ==
  CASE stage = 1 -> {"replication"}
    [] stage = 2 -> {"test"}
    [] stage = 4 -> {"cutover"}
    [] OTHER     -> {}

StoppedIn(stage) ==
  CASE stage \in {1, 5}    -> {"replication"}
    [] stage \in {2, 3, 4} -> {"test", "cutover"}
    [] OTHER               -> {}

Operate(s) ==
  /\ status[s] = "active"
  /\ \E what \in SUBSET (StartedIn(passed[s]) \cup StoppedIn(passed[s])) :
       \/ /\ what \subseteq StartedIn(passed[s])
          /\ running' = [running EXCEPT ![s] = @ \cup what]
       \/ /\ what \subseteq StoppedIn(passed[s])
          /\ running' = [running EXCEPT ![s] = @ \ what]
  /\ UNCHANGED <<passed, status>>

(* A failure before the cutover: what its stage had started is gone.       *)
Fail(s) ==
  /\ status[s] = "active"
  /\ passed[s] <= 3
  /\ running[s] \cap StartedIn(passed[s]) = {}
  /\ Become(s, "failed")
  /\ UNCHANGED <<passed, running>>

(* A failure that could not be undone, or came after the cutover began.    *)
Freeze(s) ==
  /\ status[s] = "active"
  /\ passed[s] \in 1..LastGate
  /\ Become(s, "frozen")
  /\ UNCHANGED <<passed, running>>

(* The migration of a failed server starts over.                           *)
Reset(s) ==
  /\ status[s] = "failed"
  /\ passed' = [passed EXCEPT ![s] = 0]
  /\ Become(s, "active")
  /\ UNCHANGED running

LifecycleNext ==
  \E s \in Servers :
    \/ Register(s) \/ ReachGate(s) \/ Approve(s) \/ Reject(s)
    \/ Operate(s) \/ Fail(s) \/ Freeze(s) \/ Reset(s)

LifecycleSpec == LifecycleInit /\ [][LifecycleNext]_lifecycleVars
=============================================================================
