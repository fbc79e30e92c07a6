-------------------------- MODULE OrchestratorApi ---------------------------
(***************************************************************************)
(* The endpoints of api/routes/servers.py that change state, with the      *)
(* engineers who call them.  A request that reads the row first (every one *)
(* but register and reset) may act on a row that has changed since.        *)
(***************************************************************************)
EXTENDS Tasks

CONSTANTS MaxHasty,  \* bound: requests about a server with work in progress
          MaxResets  \* bound: calls of reset that succeed

ASSUME ApiAssumption == MaxHasty \in Nat /\ MaxResets \in Nat

VARIABLES hasty,  \* requests sent before the earlier ones had their effect
          resets  \* calls of reset that have succeeded

apiBounds == <<hasty, resets>>

(* Nothing about a server is queued, delivered or requested.               *)
Quiet(s) ==
  /\ \A q \in WorkQueues \cup FailedQueues : \A m \in Queued(q) : m.server # s
  /\ \A p \in Processes : Busy(p) => Subject(p) # s

(* Nothing keeps engineers from asking again, or for something else, while *)
(* the system still works on the server.                                   *)
CountHasty(s) ==
  \/ Quiet(s) /\ UNCHANGED hasty
  \/ ~Quiet(s) /\ hasty < MaxHasty /\ hasty' = hasty + 1

(* A request about server s arrives; its job is the one it dispatches.     *)
Request(r, s, id, job, steps) ==
  /\ IsRegistered(s)
  /\ CountHasty(s)
  /\ Start(r, NewMessage(job, s, id), steps)
  /\ UNCHANGED <<ledgerVars, queue, awsVars, resets>>

-----------------------------------------------------------------------------
(* POST /servers/{id}/start.                                               *)
StartServer(r, s, id) ==
  Request(r, s, id, "ADD_SERVER",
          << <<"require", "PENDING">>, publish("ADD_SERVER") >>)

(* POST /servers/{id}/configure-replication, configure-test and            *)
(* configure-cutover.                                                      *)
Configure(r, s, job) ==
  Request(r, s, Null, job,
          << <<"require", VALID_STATES_FOR_JOB[job]>>, publish(job) >>)

(* Mutant: the job is dispatched before the server moves.                  *)
ApproveDispatchingFirst(r, s, g) ==
  Request(r, s, Null, g.job,
          << <<"require", g.at>>, publish(g.job), advance(g.next) >>)

(* _approve_gate, for each of the seven gates.                             *)
Approve(r, s, g) ==
  Request(r, s, Null, g.job,
          << <<"require", g.at>>, advance(g.next), publish(g.job) >>)

(* Mutant: a rejection does not ask for the state.                         *)
RejectUnchecked(r, s, g) ==
  Request(r, s, Null, g.job, << advance("FAILED") >>)

(* _reject_gate: no job is dispatched.                                     *)
Reject(r, s, g) ==
  Request(r, s, Null, g.job, << <<"require", g.at>>, advance("FAILED") >>)

(* _require_state: 409 unless the row is in the expected state; the AWS id *)
(* of the job comes from the same read.                                    *)
RequireState(r) ==
  /\ Doing(r, "require")
  /\ LET t  == task[r]
         id == IF t.msg.aws = Null THEN aws_source_server_id[Subject(r)] ELSE t.msg.aws
         steps == IF current_state[Subject(r)] = Operand(r) THEN Tail(t.todo) ELSE <<>>
     IN task' = [task EXCEPT ![r] = [@ EXCEPT !.msg.aws = id, !.todo = steps]]
  /\ UNCHANGED <<ledgerVars, queue, awsVars>>

(* 500: advance_state raised, nothing is dispatched.                       *)
RequestFails(r) ==
  /\ AdvanceRaises(r)
  /\ Leave(r)
  /\ UNCHANGED <<ledgerVars, queue, awsVars>>

RequestStep(r) ==
  /\ \/ RequireState(r) \/ Publish(r) \/ RequestFails(r) \/ Finish(r)
     \/ \E engineer \in Engineers : Advance(r, engineer)
  /\ UNCHANGED apiBounds

(* POST /servers, and POST /servers/{id}/reset: one transaction each.      *)
Register(s) ==
  /\ RegisterServer(s)
  /\ UNCHANGED <<queue, awsVars, task, apiBounds>>

Reset(s) ==
  /\ resets < MaxResets
  /\ CountHasty(s)
  /\ \E engineer \in Engineers : ResetServer(s, engineer)
  /\ resets' = resets + 1
  /\ UNCHANGED <<queue, awsVars, task>>

NewRequest ==
  \E r \in Requests, s \in Servers :
    \/ \E id \in AwsIds : StartServer(r, s, id)
    \/ \E job \in SubmittedJobs \ {"ADD_SERVER"} : Configure(r, s, job)
    \/ \E g \in Gates : Approve(r, s, g) \/ Reject(r, s, g)
=============================================================================
