------------------------------- MODULE Waves --------------------------------
(***************************************************************************)
(* Requests about many servers at once: the batches (waves) of             *)
(* api/routes/batches.py with the batch rows of the State Manager, and the *)
(* bulk endpoints of api/routes/servers.py.  Each is a loop with awaits in *)
(* it, run while other requests, about many servers or one, and the        *)
(* workers move the same servers; of the workers, only what they do to the *)
(* rows is here.                                                           *)
(***************************************************************************)
EXTENDS JobTypes, StateLedger, Naturals, FiniteSets, Sequences

CONSTANTS Batches,       \* batch_id values
          Configs,       \* bodies of the configure endpoints
          Requests,      \* HTTP requests in flight at once
          NoBatch,       \* a row of batches that does not exist
          NoRequest,     \* a free slot; also: not answered yet
          Operations,    \* the endpoints that are called, of AllOperations
          StartStates,   \* the states from which the servers start
          MaxRequests,   \* bound: requests
          MaxElsewhere,  \* bound: moves of a server by anything else
          MaxFaults,     \* bound: statements and publishes that raise
          MaxCrashes     \* bound: deaths of the API process

ASSUME WavesAssumption ==
  /\ StartStates \subseteq ServerState \cup {NotRegistered}
  /\ Engineers # {}
  /\ Null \notin Servers \cup Batches \cup Configs \cup AwsIds
  /\ IsFiniteSet(Requests)
  /\ {MaxRequests, MaxElsewhere, MaxFaults, MaxCrashes} \subseteq Nat

VARIABLES batch_id,  \* servers.batch_id
          batches,   \* the rows of the table batches
          recorded,  \* what the rows have held, ever: <<batch, column, body>>
          request,   \* the coroutine of each request
          answer,    \* the last response of each request slot
          jobs,      \* the jobs dispatched, in order
          resets,    \* how often each server was reset
          begun, elsewhere, faults, crashes  \* what the bounds count

bounds   == <<begun, elsewhere, faults, crashes>>
waveVars == <<batch_id, batches, recorded, request, answer, jobs, resets, bounds>>
vars     == <<ledgerVars, waveVars>>

-----------------------------------------------------------------------------
(* The endpoints.  "at" is the state that a server must be in, "next" the  *)
(* one it is moved to, "job" what is dispatched for it, and "config" the   *)
(* column of the batch row in which the body is kept.                      *)
Operation(kind, at, next, job, config) ==
  [kind |-> kind, at |-> at, next |-> next, job |-> job, config |-> config]

ConfigureWave(job, config) ==
  Operation("configure", VALID_STATES_FOR_JOB[job], Null, job, config)

(* _batch_approve_gate and _batch_reject_gate.                             *)
ApproveWave(g) == Operation("approve", g.at, g.next, g.job, Null)
RejectWave(g)  == Operation("reject", g.at, "FAILED", Null, Null)

GateWaves(gates) == {ApproveWave(g) : g \in gates} \cup {RejectWave(g) : g \in gates}

ReplicationWaves ==
  {ConfigureWave("CONFIGURE_REPLICATION_SETTINGS", "replication_config")}
    \cup GateWaves(ReplicationGates)
TestWaves ==
  {ConfigureWave("CONFIGURE_TEST_LAUNCH_TEMPLATE", "test_launch_config")}
    \cup GateWaves(TestGates)
CutoverWaves ==
  {ConfigureWave("CONFIGURE_CUTOVER_LAUNCH_TEMPLATE", "cutover_launch_config")}
    \cup GateWaves(CutoverGates)
CleanupWaves == GateWaves(CleanupGates)

AllWaves == ReplicationWaves \cup TestWaves \cup CutoverWaves \cup CleanupWaves

(* POST /batches/{id}/servers, /servers/bulk and /servers/bulk-start.      *)
AssignServers == Operation("assign", Null, Null, Null, Null)
BulkRegister  == Operation("register", Null, Null, Null, Null)
BulkStart     == Operation("start", "PENDING", Null, "ADD_SERVER", Null)

AllOperations == AllWaves \cup {AssignServers, BulkRegister, BulkStart}

ConfigTypes == {"replication_config", "test_launch_config", "cutover_launch_config"}
BatchRow    == [ConfigTypes -> Configs \cup {Null}]
NewBatch    == [type \in ConfigTypes |-> Null]

(* A request: the servers still to be dealt with, the one in the middle of *)
(* its two awaits, the AWS ids as they were read, and the three lists of   *)
(* the answer.                                                             *)
Lists == [succeeded : SUBSET Servers, skipped : SUBSET Servers, failed : SUBSET Servers]
Request ==
  [op : AllOperations, batch : Batches \cup {Null}, config : Configs \cup {Null},
   step : {"store", "read", "loop"}, ids : [Servers -> AwsIds \cup {Null}],
   left : SUBSET Servers, current : Servers \cup {Null}, result : Lists]

NothingYet == [succeeded |-> {}, skipped |-> {}, failed |-> {}]

Job == [job : JobType, server : Servers, aws : AwsIds \cup {Null},
        batch : Batches \cup {Null}, config : Configs \cup {Null}]

ASSUME SlotsAssumption ==
  /\ NoBatch \notin BatchRow
  /\ NoRequest \notin Request
  /\ NoRequest \notin Lists

TypeOK ==
  /\ LedgerTypeOK
  /\ batch_id \in [Servers -> Batches \cup {Null}]
  /\ batches \in [Batches -> BatchRow \cup {NoBatch}]
  /\ recorded \subseteq Batches \X ConfigTypes \X (Configs \cup {Null})
  /\ request \in [Requests -> Request \cup {NoRequest}]
  /\ answer \in [Requests -> Lists \cup {NoRequest}]
  /\ jobs \in Seq(Job)
  /\ resets \in [Servers -> Nat]
  /\ begun \in 0..MaxRequests /\ elsewhere \in 0..MaxElsewhere
  /\ faults \in 0..MaxFaults /\ crashes \in 0..MaxCrashes

(* A server that the pipeline has brought to a state without a failure.    *)
Before(st) ==
  IF \E from \in ServerState : <<from, st>> \in Forward
  THEN CHOOSE from \in ServerState : <<from, st>> \in Forward ELSE Null

ArrivedBy(st) == IF Before(st) \in InProgressStates THEN Engineers ELSE {"system"}

Init ==
  /\ current_state \in [Servers -> StartStates]
  /\ previous_state = [s \in Servers |-> Before(current_state[s])]
  /\ newest = [s \in Servers |->
       IF previous_state[s] = Null THEN NoRow
       ELSE [from |-> previous_state[s], to |-> current_state[s],
             by |-> CHOOSE by \in ArrivedBy(current_state[s]) : TRUE]]
  /\ aws_source_server_id \in [Servers -> AwsIds \cup {Null}]
  /\ \A s \in Servers :
       aws_source_server_id[s] = Null <=> current_state[s] \in {"PENDING", NotRegistered}
  /\ batches \in [Batches -> {NoBatch, NewBatch}]
  /\ batch_id \in [Servers -> {b \in Batches : batches[b] # NoBatch} \cup {Null}]
  /\ \A s \in Servers : IsRegistered(s) \/ batch_id[s] = Null
  /\ request = [r \in Requests |-> NoRequest]
  /\ answer = [r \in Requests |-> NoRequest]
  /\ jobs = <<>>
  /\ recorded = {}
  /\ resets = [s \in Servers |-> 0]
  /\ begun = 0 /\ elsewhere = 0 /\ faults = 0 /\ crashes = 0

-----------------------------------------------------------------------------
Busy(r)     == request[r] # NoRequest
Kind(r)     == request[r].op.kind
AtStep(r, step, kinds) == Busy(r) /\ request[r].step = step /\ Kind(r) \in kinds
InLoop(r, kinds) == AtStep(r, "loop", kinds) /\ request[r].current = Null

Fault == faults < MaxFaults /\ faults' = faults + 1

(* What a step of r leaves alone when it writes neither a row nor a job.   *)
LocalStep == UNCHANGED <<ledgerVars, batch_id, batches, recorded, answer, jobs,
                         resets, begun, elsewhere, crashes>>

(* The request r goes on with server s under one of the lists.             *)
Report(r, list, s) ==
  LET q == request[r]
  IN request' = [request EXCEPT ![r] =
       [q EXCEPT !.left = q.left \ {s}, !.current = Null,
                 !.result[list] = q.result[list] \cup {s}]]

Begin(r, op, b, c, step, servers, ids) ==
  /\ ~Busy(r)
  /\ op \in Operations
  /\ begun < MaxRequests
  /\ begun' = begun + 1
  /\ request' = [request EXCEPT ![r] =
       [op |-> op, batch |-> b, config |-> c, step |-> step, ids |-> ids,
        left |-> servers, current |-> Null, result |-> NothingYet]]
  /\ UNCHANGED <<ledgerVars, batch_id, batches, recorded, answer, jobs, resets,
                 elsewhere, faults, crashes>>

NoIds == [s \in Servers |-> Null]

-----------------------------------------------------------------------------
(* POST /batches: 409 if there is one already.                             *)
CreateBatch(b) ==
  /\ batches[b] = NoBatch
  /\ batches' = [batches EXCEPT ![b] = NewBatch]
  /\ UNCHANGED <<ledgerVars, batch_id, recorded, request, answer, jobs, resets, bounds>>

(* A pipeline action on a batch: 404 if there is none.                     *)
BeginWave(r, b, op, c) ==
  /\ batches[b] # NoBatch
  /\ c = Null <=> op.config = Null
  /\ Begin(r, op, b, c, IF op.config = Null THEN "read" ELSE "store", {}, NoIds)

(* Every value that a column has held stays on record.                     *)
Record(b, type) == recorded' = recorded \cup {<<b, type, batches'[b][type]>>}

(* Mutant: the row keeps nothing but the new configuration.                *)
StoreConfigOverRow(r) ==
  /\ AtStep(r, "store", {"configure"})
  /\ LET q == request[r] IN
       /\ batches' = [batches EXCEPT ![q.batch] = [type \in {q.op.config} |-> q.config]]
       /\ Record(q.batch, q.op.config)
  /\ request' = [request EXCEPT ![r].step = "read"]
  /\ UNCHANGED <<ledgerVars, batch_id, answer, jobs, resets, bounds>>

(* Mutant: a row that has a configuration keeps it.                        *)
StoreConfigOnce(r) ==
  /\ AtStep(r, "store", {"configure"})
  /\ LET q == request[r] IN
       /\ batches' = IF batches[q.batch][q.op.config] # Null THEN batches
                     ELSE [batches EXCEPT ![q.batch][q.op.config] = q.config]
       /\ Record(q.batch, q.op.config)
  /\ request' = [request EXCEPT ![r].step = "read"]
  /\ UNCHANGED <<ledgerVars, batch_id, answer, jobs, resets, bounds>>

(* update_batch_config, before anything is dispatched.                     *)
StoreConfig(r) ==
  /\ AtStep(r, "store", {"configure"})
  /\ LET q == request[r] IN
       /\ batches' = [batches EXCEPT ![q.batch][q.op.config] = q.config]
       /\ Record(q.batch, q.op.config)
  /\ request' = [request EXCEPT ![r].step = "read"]
  /\ UNCHANGED <<ledgerVars, batch_id, answer, jobs, resets, bounds>>

(* get_batch_servers: the loop works on these rows, and a server that is   *)
(* not in the expected state is skipped for good.                          *)
ReadBatch(r) ==
  /\ AtStep(r, "read", {"configure", "approve", "reject"})
  /\ LET members  == {s \in Servers : batch_id[s] = request[r].batch}
         eligible == {s \in members : current_state[s] = request[r].op.at}
     IN request' = [request EXCEPT ![r] =
          [@ EXCEPT !.step = "loop", !.left = eligible,
             !.ids = [s \in Servers |-> IF s \in eligible THEN aws_source_server_id[s] ELSE Null],
             !.result.skipped = members \ eligible]]
  /\ LocalStep /\ UNCHANGED faults

(* Mutant: the gate is opened without looking at the row.                  *)
MoveServerUnchecked(r) ==
  /\ InLoop(r, {"approve", "reject"})
  /\ \E s \in request[r].left, engineer \in Engineers :
       /\ MoveTo(s, request[r].op.next, engineer)
       /\ IF Kind(r) = "approve" THEN request' = [request EXCEPT ![r].current = s]
                                 ELSE Report(r, "succeeded", s)
  /\ UNCHANGED <<batch_id, batches, recorded, answer, jobs, resets, bounds>>

(* advance_state: a rejection ends with it, an approval dispatches next.   *)
MoveServer(r) ==
  /\ InLoop(r, {"approve", "reject"})
  /\ \E s \in request[r].left, engineer \in Engineers :
       /\ AdvanceState(s, request[r].op.next, engineer)
       /\ IF Kind(r) = "approve" THEN request' = [request EXCEPT ![r].current = s]
                                 ELSE Report(r, "succeeded", s)
  /\ UNCHANGED <<batch_id, batches, recorded, answer, jobs, resets, bounds>>

(* Mutant: an exception ends the loop.                                     *)
ItemRaisesOut(r) ==
  /\ InLoop(r, {"approve", "reject", "register", "start"})
  /\ \E s \in request[r].left :
       /\ \/ /\ Kind(r) \in {"approve", "reject"}
             /\ ~IsValidTransition(current_state[s], request[r].op.next)
             /\ UNCHANGED faults
          \/ Fault
       /\ request' = [request EXCEPT ![r] = [@ EXCEPT !.left = {}, !.result.failed = {s}]]
  /\ LocalStep

(* The first await for a server raises, because its state has changed or   *)
(* the database fails: the next server is still tried.                     *)
ItemRaises(r) ==
  /\ InLoop(r, {"approve", "reject", "register", "start"})
  /\ \E s \in request[r].left :
       /\ \/ /\ Kind(r) \in {"approve", "reject"}
             /\ ~IsValidTransition(current_state[s], request[r].op.next)
             /\ UNCHANGED faults
          \/ Fault
       /\ Report(r, "failed", s)
  /\ LocalStep

(* bulk_start reads the state of each server when its turn comes.          *)
CheckPending(r) ==
  /\ InLoop(r, {"start"})
  /\ \E s \in request[r].left :
       IF current_state[s] = request[r].op.at
       THEN request' = [request EXCEPT ![r].current = s]
       ELSE Report(r, "failed", s)
  /\ LocalStep /\ UNCHANGED faults

(* The server whose job comes next: a configure wave has nothing to wait   *)
(* for before it dispatches.                                               *)
InHand(r) ==
  IF Kind(r) = "configure" THEN request[r].left ELSE {request[r].current} \ {Null}

JobFor(r, s) ==
  [job |-> request[r].op.job, server |-> s, aws |-> request[r].ids[s],
   batch |-> request[r].batch, config |-> request[r].config]

Dispatch(r) ==
  /\ AtStep(r, "loop", {"configure", "approve", "start"})
  /\ \E s \in InHand(r) :
       /\ jobs' = Append(jobs, JobFor(r, s))
       /\ Report(r, "succeeded", s)
  /\ UNCHANGED <<ledgerVars, batch_id, batches, recorded, answer, resets, bounds>>

(* Mutant: an exception of the dispatcher is swallowed.                    *)
DispatchRaisesUnseen(r) ==
  /\ AtStep(r, "loop", {"configure", "approve", "start"})
  /\ Fault
  /\ \E s \in InHand(r) :
       /\ Report(r, "succeeded", s)
       /\ jobs' \in {jobs, Append(jobs, JobFor(r, s))}
  /\ UNCHANGED <<ledgerVars, batch_id, batches, recorded, answer, resets, begun,
                 elsewhere,
                 crashes>>

(* The publish raises; the broker may have the message all the same.       *)
DispatchRaises(r) ==
  /\ AtStep(r, "loop", {"configure", "approve", "start"})
  /\ Fault
  /\ \E s \in InHand(r) :
       /\ Report(r, "failed", s)
       /\ jobs' \in {jobs, Append(jobs, JobFor(r, s))}
  /\ UNCHANGED <<ledgerVars, batch_id, batches, recorded, answer, resets, begun,
                 elsewhere,
                 crashes>>

(* bulk_register: one INSERT after the other, which the primary key or the *)
(* foreign key of the batch refuses for one server and not for the others. *)
RegisterNext(r) ==
  /\ InLoop(r, {"register"})
  /\ \E s \in request[r].left :
       IF ~IsRegistered(s) /\ (request[r].batch # Null => batches[request[r].batch] # NoBatch)
       THEN /\ RegisterServer(s)
            /\ batch_id' = [batch_id EXCEPT ![s] = request[r].batch]
            /\ Report(r, "succeeded", s)
       ELSE Report(r, "failed", s) /\ UNCHANGED <<ledgerVars, batch_id>>
  /\ UNCHANGED <<batches, recorded, answer, jobs, resets, bounds>>

(* add_servers_to_batch: the rows are read, then updated, in statements of *)
(* their own.  Here "skipped" is already_assigned, "failed" is not_found.  *)
ReadMembership(r) ==
  /\ AtStep(r, "read", {"assign"})
  /\ LET asked == request[r].left
         found == {s \in asked : IsRegistered(s)}
         here  == {s \in found : batch_id[s] = request[r].batch}
     IN request' = [request EXCEPT ![r] =
          [@ EXCEPT !.step = "loop", !.left = found \ here,
             !.result.skipped = here, !.result.failed = asked \ found]]
  /\ LocalStep /\ UNCHANGED faults

UpdateMembership(r) ==
  /\ InLoop(r, {"assign"})
  /\ request[r].left # {}
  /\ batch_id' = [s \in Servers |->
       IF s \in request[r].left THEN request[r].batch ELSE batch_id[s]]
  /\ request' = [request EXCEPT ![r] =
       [@ EXCEPT !.left = {}, !.result.succeeded = request[r].left]]
  /\ UNCHANGED <<ledgerVars, batches, recorded, answer, jobs, resets, bounds>>

(* A statement outside the loop raises: 500, and no lists.                 *)
RequestRaises(r) ==
  /\ Busy(r)
  /\ request[r].step = "loop" => Kind(r) = "assign" /\ request[r].left # {}
  /\ Fault
  /\ request' = [request EXCEPT ![r] = NoRequest]
  /\ LocalStep

Answer(r) ==
  /\ Busy(r) /\ request[r].step = "loop"
  /\ request[r].left = {} /\ request[r].current = Null
  /\ answer' = [answer EXCEPT ![r] = request[r].result]
  /\ request' = [request EXCEPT ![r] = NoRequest]
  /\ UNCHANGED <<ledgerVars, batch_id, batches, recorded, jobs, resets, bounds>>

RequestStep(r) ==
  \/ StoreConfig(r) \/ ReadBatch(r) \/ MoveServer(r) \/ ItemRaises(r)
  \/ CheckPending(r) \/ Dispatch(r) \/ DispatchRaises(r) \/ RegisterNext(r)
  \/ ReadMembership(r) \/ UpdateMembership(r) \/ RequestRaises(r) \/ Answer(r)

(* A request of servers.py about one server: _require_state reads its row, *)
(* and what is left to do is what a wave does for each server.             *)
BeginSingle(r, s, op, c) ==
  /\ current_state[s] = op.at
  /\ c = Null <=> op.config = Null
  /\ Begin(r, op, Null, c, "loop", {s}, [NoIds EXCEPT ![s] = aws_source_server_id[s]])

NewRequest(r) ==
  \/ \E op \in AllWaves, c \in Configs \cup {Null} :
       \/ \E b \in Batches : BeginWave(r, b, op, c)
       \/ \E s \in Servers : BeginSingle(r, s, op, c)
  \/ \E b \in Batches, servers \in SUBSET Servers :
       /\ batches[b] # NoBatch
       /\ Begin(r, AssignServers, b, Null, "read", servers, NoIds)
  \/ \E b \in Batches \cup {Null}, servers \in SUBSET Servers :
       Begin(r, BulkRegister, b, Null, "loop", servers, NoIds)
  \/ \E ids \in [Servers -> AwsIds \cup {Null}] :
       Begin(r, BulkStart, Null, Null, "loop", {s \in Servers : ids[s] # Null}, ids)

(* A worker or a rollback moves the server, or an operator with a script:  *)
(* only an engineer opens a gate.                                          *)
Elsewhere(s) ==
  /\ elsewhere < MaxElsewhere
  /\ elsewhere' = elsewhere + 1
  /\ \E to \in ValidTransitions(current_state[s]), by \in Actors :
       /\ current_state[s] \in InProgressStates /\ to \notin ErrorStates => by \in Engineers
       /\ AdvanceState(s, to, by)
  /\ UNCHANGED <<batch_id, batches, recorded, request, answer, jobs, resets, begun,
                 faults, crashes>>

(* POST /servers/{id}/reset: the server is to be migrated again.           *)
Reset(s) ==
  /\ elsewhere < MaxElsewhere
  /\ elsewhere' = elsewhere + 1
  /\ \E engineer \in Engineers : ResetServer(s, engineer)
  /\ resets' = [resets EXCEPT ![s] = @ + 1]
  /\ UNCHANGED <<batch_id, batches, recorded, request, answer, jobs, begun, faults,
                 crashes>>

(* The API dies between two awaits, with every request in it.              *)
Crash ==
  /\ crashes < MaxCrashes
  /\ \E r \in Requests : Busy(r)
  /\ crashes' = crashes + 1
  /\ request' = [r \in Requests |-> NoRequest]
  /\ UNCHANGED <<ledgerVars, batch_id, batches, recorded, answer, jobs, resets,
                 begun, elsewhere, faults>>

Next ==
  \/ \E b \in Batches : CreateBatch(b)
  \/ \E r \in Requests : NewRequest(r) \/ RequestStep(r)
  \/ \E s \in Servers : Elsewhere(s) \/ Reset(s)
  \/ Crash

Spec == Init /\ [][Next]_vars

(* A request that has begun goes on; nobody has to begin one.              *)
FairSpec == Spec /\ \A r \in Requests : WF_vars(RequestStep(r))

-----------------------------------------------------------------------------
JobsOf(s, job) == {i \in DOMAIN jobs : jobs[i].server = s /\ jobs[i].job = job}

(* However many approvals of a gate run at once, each server's job is      *)
(* dispatched once at most in each of its migrations, and not while the    *)
(* server waits at the gate: an approval that raises, or whose answer is   *)
(* lost, may be repeated.                                                  *)
OneJobPerGate ==
  \A s \in Servers, g \in Gates :
    /\ Cardinality(JobsOf(s, g.job)) <= resets[s] + 1
    /\ current_state[s] = g.at => Cardinality(JobsOf(s, g.job)) <= resets[s]

(* A server that the answer calls succeeded has its job in the queue.      *)
SucceededIsDispatched ==
  \A r \in Requests : Busy(r) /\ request[r].op.job # Null =>
    \A s \in request[r].result.succeeded : JobsOf(s, request[r].op.job) # {}

(* The column that tells with what a batch was configured by each job.     *)
ConfigColumn ==
  [ CONFIGURE_REPLICATION_SETTINGS    |-> "replication_config",
    CONFIGURE_TEST_LAUNCH_TEMPLATE    |-> "test_launch_config",
    CONFIGURE_CUTOVER_LAUNCH_TEMPLATE |-> "cutover_launch_config" ]

(* What a wave configures a server with has been on record in its batch,   *)
(* in the column of that job, wherever the wave stops and whatever other   *)
(* waves store.                                                            *)
ByWave(i) == jobs[i].batch # Null /\ jobs[i].config # Null

ConfigIsOnRecord ==
  \A i \in DOMAIN jobs : ByWave(i) =>
    <<jobs[i].batch, ConfigColumn[jobs[i].job], jobs[i].config>> \in recorded

(* One server does not hold back the rest: whatever happens to the others, *)
(* each server that a request set out to deal with is answered for.        *)
Listed(r) == UNION {answer[r].succeeded, answer[r].skipped, answer[r].failed}

NobodyIsForgotten ==
  \A r \in Requests, s \in Servers :
    Busy(r) /\ s \in request[r].left ~> answer[r] # NoRequest /\ s \in Listed(r)

(* A rejection moves only servers that are at the gate: the others are     *)
(* skipped.                                                                *)
OutOfStateIsSkipped ==
  [][\A r \in Requests, s \in Servers :
       /\ Busy(r) /\ Kind(r) = "reject" /\ s \in request[r].left
       /\ Busy(r)' /\ s \in request'[r].result.succeeded
       => newest'[s].from = request[r].op.at]_vars

(* The batch row tells with what configuration its servers were configured.*)
SnapshotIsWhatWasUsed ==
  \A i \in DOMAIN jobs : ByWave(i) =>
    batches[jobs[i].batch][ConfigColumn[jobs[i].job]] = jobs[i].config

(* Requests that each put all servers into one batch leave them in one.    *)
WaveIsNotSplit ==
  /\ \A r \in Requests : ~Busy(r) /\ (answer[r] # NoRequest => Listed(r) = Servers)
  /\ \E r \in Requests : answer[r] # NoRequest
  => \E b \in Batches : \A s \in Servers : batch_id[s] = b
=============================================================================
