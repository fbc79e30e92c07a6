---------------------------- MODULE WavesProofs ----------------------------
(***************************************************************************)
(* Theorems about Waves for every set of servers, batches, configurations  *)
(* and requests, for every choice of endpoints and of starting states, and *)
(* for all bounds.                                                         *)
(***************************************************************************)
EXTENDS Waves, LifecycleFacts, FiniteSetTheorems

LEMMA OperationFacts ==
  ASSUME NEW op \in AllOperations
  PROVE  /\ op.kind \in {"configure", "approve", "reject", "assign", "register", "start"}
         /\ op.kind \in {"configure", "approve", "start"} => op.job \in JobType
         /\ op.kind \in {"reject", "assign", "register"} => op.job = Null
         /\ op.kind = "approve" => \E g \in Gates : op.job = g.job /\ op.next = g.next
         /\ op.kind \in {"configure", "start"} => op.job \in SubmittedJobs
         /\ op.config # Null => /\ op.kind = "configure" /\ op.config \in ConfigTypes
                                /\ op.config = ConfigColumn[op.job]
  <1> USE DEF Operation, ConfigTypes, SubmittedJobs, JobType, MgnJobs, VALID_STATES_FOR_JOB
  <1>1. CASE op \in {AssignServers, BulkRegister, BulkStart}
    BY <1>1 DEF AssignServers, BulkRegister, BulkStart
  <1>2. ASSUME NEW g \in Gates, op = ApproveWave(g)
        PROVE  /\ op.kind = "approve" /\ op.job = g.job /\ op.next = g.next
               /\ op.config = Null /\ op.job \in MgnJobs
    BY <1>2, GateFacts DEF ApproveWave
  <1>3. ASSUME NEW g \in Gates, op = RejectWave(g)
        PROVE  op.kind = "reject" /\ op.job = Null /\ op.config = Null
    BY <1>3 DEF RejectWave
  <1>4. ASSUME NEW job \in DOMAIN ConfigColumn, op = ConfigureWave(job, ConfigColumn[job])
        PROVE  /\ op.kind = "configure" /\ op.job = job /\ job \in SubmittedJobs
               /\ op.config = ConfigColumn[job] /\ op.config \in ConfigTypes
    BY <1>4 DEF ConfigureWave, ConfigColumn
  <1>5. \/ op \in {AssignServers, BulkRegister, BulkStart}
        \/ \E g \in Gates : op = ApproveWave(g) \/ op = RejectWave(g)
        \/ \E job \in DOMAIN ConfigColumn : op = ConfigureWave(job, ConfigColumn[job])
    BY DEF ConfigColumn, AllOperations, AllWaves, ReplicationWaves, TestWaves, CutoverWaves,
           CleanupWaves, GateWaves, Gates
  <1>6. QED
    BY <1>1, <1>2, <1>3, <1>4, <1>5

-----------------------------------------------------------------------------
(* The inductive invariant.                                                *)

(* A wave stores its configuration in the row of an existing batch before  *)
(* its loop begins.                                                        *)
StoredFirst ==
  \A r \in Requests : Busy(r) =>
    /\ request[r].config # Null => request[r].op.config # Null
    /\ request[r].step = "store" =>
         /\ request[r].config # Null /\ request[r].batch # Null
         /\ batches[request[r].batch] # NoBatch
    /\ request[r].config # Null /\ request[r].batch # Null /\ request[r].step # "store" =>
         <<request[r].batch, request[r].op.config, request[r].config>> \in recorded

(* The requests that have opened the gate of this job for s and have not   *)
(* dispatched yet.                                                         *)
Sending(s, job) ==
  {r \in Requests : /\ Busy(r) /\ request[r].current = s
                    /\ Kind(r) = "approve" /\ request[r].op.job = job}

(* How often s can have left the gate: once in each migration that a reset *)
(* ended, and once more when it is past the gate now.                      *)
Passes(s, g) == resets[s] + (IF Place(current_state[s]) > Place(g.at) THEN 1 ELSE 0)

(* A job that is dispatched, or is going to be, has a pass of its own.     *)
SentOnce ==
  \A s \in Servers, g \in Gates :
    Cardinality(JobsOf(s, g.job)) + Cardinality(Sending(s, g.job)) <= Passes(s, g)

Inv == TypeOK /\ StoredFirst /\ ConfigIsOnRecord /\ SentOnce /\ SucceededIsDispatched

(* No sentinel is a value.                                                 *)
LEMMA Sentinels ==
  /\ NoRequest \notin Request /\ NoRequest \notin Lists /\ NoBatch \notin BatchRow
  /\ Null \notin Servers \cup Batches \cup Configs \cup AwsIds
  BY WavesAssumption, SlotsAssumption

LEMMA InitType == Init => TypeOK
  <1> SUFFICES ASSUME Init PROVE TypeOK
    OBVIOUS
  <1>1. \A st : Before(st) \in ServerState \cup {Null}
    BY DEF Before
  <1>2. \A st : Before(st) # Null => <<Before(st), st>> \in Forward
    BY StateNames DEF Before
  <1>3. \A st : (CHOOSE by \in ArrivedBy(st) : TRUE) \in Actors
    BY WavesAssumption DEF ArrivedBy, Actors
  <1>4. current_state \in [Servers -> ServerState \cup {NotRegistered}]
    BY WavesAssumption DEF Init
  <1>5. previous_state \in [Servers -> ServerState \cup {Null}]
    BY <1>1 DEF Init
  <1>6. newest \in [Servers -> AuditRow \cup {NoRow}]
    <2> SUFFICES ASSUME NEW s \in Servers, previous_state[s] # Null
                 PROVE  newest[s] \in AuditRow
      BY DEF Init
    <2>1. previous_state[s] = Before(current_state[s])
      BY DEF Init
    <2>2. previous_state[s] \in ServerState /\ current_state[s] \in ServerState
      BY <2>1, <1>2, ForwardClimbs
    <2>3. newest[s] = [from |-> previous_state[s], to |-> current_state[s],
                       by |-> CHOOSE by \in ArrivedBy(current_state[s]) : TRUE]
      BY DEF Init
    <2>4. QED
      BY <2>2, <2>3, <1>3 DEF AuditRow
  <1>7. QED
    BY <1>4, <1>5, <1>6, WavesAssumption
       DEF Init, TypeOK, LedgerTypeOK, BatchRow, NewBatch

(* The new row of a request that goes on with server s.                    *)
LEMMA ReportType ==
  ASSUME TypeOK, NEW r \in Requests, NEW s \in Servers, Busy(r),
         NEW list \in {"succeeded", "skipped", "failed"}, Report(r, list, s)
  PROVE  request' \in [Requests -> Request \cup {NoRequest}]
  <1> DEFINE q   == request[r]
             new == [q EXCEPT !.left = q.left \ {s}, !.current = Null,
                              !.result[list] = q.result[list] \cup {s}]
  <1>1. request[r] \in Request
    BY DEF TypeOK, Busy
  <1>2. new \in Request
    BY <1>1 DEF Request, Lists
  <1>3. request' = [request EXCEPT ![r] = new]
    BY DEF Report
  <1> HIDE DEF new
  <1>4. QED
    BY <1>2, <1>3 DEF TypeOK

(* What a wave stores is on record from then on.                           *)
LEMMA StoreRecords ==
  ASSUME TypeOK, StoredFirst, NEW r \in Requests, StoreConfig(r)
  PROVE  /\ request[r] \in Request /\ request[r].batch \in Batches
         /\ request[r].op.config \in ConfigTypes
         /\ batches' \in [Batches -> BatchRow \cup {NoBatch}]
         /\ batches'[request[r].batch] \in BatchRow
         /\ \A b \in Batches : b # request[r].batch => batches'[b] = batches[b]
         /\ recorded' = recorded \cup
              {<<request[r].batch, request[r].op.config, request[r].config>>}
  <1> DEFINE q == request[r]
  <1>1. /\ q \in Request /\ q.batch \in Batches /\ q.op.config \in ConfigTypes
        /\ q.config \in Configs /\ batches[q.batch] \in BatchRow
    BY OperationFacts DEF StoreConfig, AtStep, Busy, StoredFirst, TypeOK, Request
  <1>2. batches' = [batches EXCEPT ![q.batch] =
                      [batches[q.batch] EXCEPT ![q.op.config] = q.config]]
    BY DEF StoreConfig
  <1>3. recorded' = recorded \cup {<<q.batch, q.op.config, batches'[q.batch][q.op.config]>>}
    BY DEF StoreConfig, Record
  <1> HIDE DEF q
  <1>4. [batches[q.batch] EXCEPT ![q.op.config] = q.config] \in BatchRow
    BY <1>1 DEF BatchRow
  <1>5. /\ batches' \in [Batches -> BatchRow \cup {NoBatch}]
        /\ batches'[q.batch] \in BatchRow
        /\ \A b \in Batches : b # q.batch => batches'[b] = batches[b]
    BY <1>1, <1>2, <1>4 DEF TypeOK
  <1>6. batches'[q.batch][q.op.config] = q.config
    BY <1>1, <1>2 DEF TypeOK, BatchRow
  <1>7. QED
    BY <1>1, <1>3, <1>5, <1>6 DEF q

LEMMA TypeInductive == TypeOK /\ StoredFirst /\ [Next]_vars => TypeOK'
  <1> SUFFICES ASSUME TypeOK, StoredFirst, [Next]_vars
               PROVE  TypeOK'
    OBVIOUS
  <1> USE WavesAssumption DEF TypeOK
  <1>1. ASSUME NEW b \in Batches, CreateBatch(b)
        PROVE  TypeOK'
    BY <1>1 DEF CreateBatch, LedgerTypeOK, bounds, BatchRow, NewBatch, ledgerVars
  <1>2. ASSUME NEW r \in Requests, NEW op \in AllOperations, NEW b \in Batches \cup {Null},
               NEW c \in Configs \cup {Null}, NEW step \in {"store", "read", "loop"},
               NEW servers \in SUBSET Servers, NEW ids \in [Servers -> AwsIds \cup {Null}],
               Begin(r, op, b, c, step, servers, ids)
        PROVE  TypeOK'
    BY <1>2 DEF Begin, LedgerTypeOK, ledgerVars, Request, Lists, NothingYet
  <1>3. ASSUME NEW r \in Requests, StoreConfig(r)
        PROVE  TypeOK'
    <2>1. recorded' \subseteq Batches \X ConfigTypes \X (Configs \cup {Null})
      BY <1>3, StoreRecords DEF Request
    <2>2. request' \in [Requests -> Request \cup {NoRequest}]
      <3>1. request[r] \in Request
        BY <1>3, StoreRecords
      <3>2. [request[r] EXCEPT !.step = "read"] \in Request
        BY <3>1 DEF Request
      <3>3. request' = [request EXCEPT ![r] = [request[r] EXCEPT !.step = "read"]]
        BY <1>3 DEF StoreConfig
      <3>4. QED
        BY <3>2, <3>3
    <2>3. QED
      BY <1>3, <2>1, <2>2, StoreRecords DEF StoreConfig, LedgerTypeOK, ledgerVars, bounds
  <1>4. ASSUME NEW r \in Requests, ReadBatch(r) \/ ReadMembership(r)
        PROVE  TypeOK'
    <2>1. request[r] \in Request
      BY <1>4 DEF ReadBatch, ReadMembership, AtStep, Busy
    <2>2. PICK new \in Request : request' = [request EXCEPT ![r] = new]
      <3>1. \A left, skipped, failed \in SUBSET Servers :
              [request[r] EXCEPT !.step = "loop", !.left = left, !.result.skipped = skipped,
                 !.result.failed = failed] \in Request
        BY <2>1 DEF Request, Lists
      <3>2. \A left, skipped \in SUBSET Servers : \A ids \in [Servers -> AwsIds \cup {Null}] :
              [request[r] EXCEPT !.step = "loop", !.left = left, !.ids = ids,
                 !.result.skipped = skipped] \in Request
        BY <2>1 DEF Request, Lists
      <3>3. CASE ReadBatch(r)
        BY <3>2, <3>3 DEF ReadBatch, LedgerTypeOK
      <3>4. CASE ReadMembership(r)
        <4> DEFINE found == {s \in request[r].left : IsRegistered(s)}
                   here  == {s \in found : batch_id[s] = request[r].batch}
                   new   == [request[r] EXCEPT !.step = "loop", !.left = found \ here,
                               !.result.skipped = here,
                               !.result.failed = request[r].left \ found]
        <4>1. /\ found \ here \in SUBSET Servers /\ here \in SUBSET Servers
              /\ request[r].left \ found \in SUBSET Servers
          BY <2>1 DEF Request
        <4>2. request' = [request EXCEPT ![r] = new]
          BY <3>4 DEF ReadMembership
        <4> HIDE DEF found, here
        <4>3. new \in Request
          BY <3>1, <4>1
        <4>4. QED
          BY <4>2, <4>3
      <3>5. QED
        BY <1>4, <3>3, <3>4
    <2>3. request' \in [Requests -> Request \cup {NoRequest}]
      BY <2>2
    <2>4. QED
      BY <1>4, <2>3 DEF ReadBatch, ReadMembership, LocalStep, LedgerTypeOK, ledgerVars
  <1>5. ASSUME NEW r \in Requests, MoveServer(r)
        PROVE  TypeOK'
    <2>1. PICK s \in request[r].left, engineer \in Engineers :
            /\ AdvanceState(s, request[r].op.next, engineer)
            /\ IF Kind(r) = "approve" THEN request' = [request EXCEPT ![r].current = s]
                                      ELSE Report(r, "succeeded", s)
      BY <1>5 DEF MoveServer
    <2>2. Busy(r) /\ request[r] \in Request /\ s \in Servers /\ engineer \in Actors
      BY <1>5 DEF MoveServer, InLoop, AtStep, Busy, Request, Actors
    <2>3. [request[r] EXCEPT !.current = s] \in Request
      BY <2>2 DEF Request
    <2>4. request' \in [Requests -> Request \cup {NoRequest}]
      BY <2>1, <2>2, <2>3, ReportType
    <2>5. LedgerTypeOK'
      BY <2>1, <2>2, LedgerType
    <2>6. QED
      BY <1>5, <2>4, <2>5 DEF MoveServer, bounds
  <1>6. ASSUME NEW r \in Requests, ItemRaises(r) \/ CheckPending(r)
        PROVE  TypeOK'
    <2>1. Busy(r) /\ request[r] \in Request
      BY <1>6 DEF ItemRaises, CheckPending, InLoop, AtStep, Busy
    <2>2. \A s \in request[r].left : [request[r] EXCEPT !.current = s] \in Request
      BY <2>1 DEF Request
    <2>3. request' \in [Requests -> Request \cup {NoRequest}]
      <3>1. PICK s \in request[r].left :
              \/ Report(r, "failed", s)
              \/ request' = [request EXCEPT ![r].current = s]
        BY <1>6 DEF ItemRaises, CheckPending
      <3>2. s \in Servers
        BY <2>1 DEF Request
      <3>3. QED
        BY <2>1, <2>2, <3>1, <3>2, ReportType
    <2>4. faults' \in 0..MaxFaults
      BY <1>6 DEF ItemRaises, CheckPending, Fault
    <2>5. QED
      BY <1>6, <2>3, <2>4 DEF ItemRaises, CheckPending, LocalStep, LedgerTypeOK, ledgerVars
  <1>7. ASSUME NEW r \in Requests, Dispatch(r) \/ DispatchRaises(r)
        PROVE  TypeOK'
    <2>1. /\ Busy(r) /\ request[r] \in Request
          /\ Kind(r) \in {"configure", "approve", "start"}
      BY <1>7 DEF Dispatch, DispatchRaises, AtStep, Busy
    <2>2. PICK s \in InHand(r) :
            /\ Report(r, "succeeded", s) \/ Report(r, "failed", s)
            /\ jobs' \in {jobs, Append(jobs, JobFor(r, s))}
      BY <1>7 DEF Dispatch, DispatchRaises
    <2>3. s \in Servers
      BY <2>1, <2>2 DEF InHand, Request
    <2>4. request' \in [Requests -> Request \cup {NoRequest}]
      BY <2>1, <2>2, <2>3, ReportType
    <2>5. JobFor(r, s) \in Job
      BY <2>1, <2>3, OperationFacts DEF JobFor, Job, Request, Kind
    <2>6. jobs' \in Seq(Job)
      <3>1. jobs \in Seq(Job)
        OBVIOUS
      <3>2. Append(jobs, JobFor(r, s)) \in Seq(Job)
        BY <2>5, <3>1
      <3>3. QED
        BY <2>2, <3>1, <3>2
    <2>7. faults' \in 0..MaxFaults
      BY <1>7 DEF Dispatch, DispatchRaises, Fault, bounds
    <2>8. QED
      BY <1>7, <2>4, <2>6, <2>7 DEF Dispatch, DispatchRaises, LedgerTypeOK, ledgerVars, bounds
  <1>8. ASSUME NEW r \in Requests, RegisterNext(r)
        PROVE  TypeOK'
    <2>1. Busy(r) /\ request[r] \in Request
      BY <1>8 DEF RegisterNext, InLoop, AtStep, Busy
    <2>2. PICK s \in request[r].left :
            \/ /\ RegisterServer(s)
               /\ batch_id' = [batch_id EXCEPT ![s] = request[r].batch]
               /\ Report(r, "succeeded", s)
            \/ Report(r, "failed", s) /\ UNCHANGED <<ledgerVars, batch_id>>
      BY <1>8 DEF RegisterNext
    <2>3. s \in Servers /\ request[r].batch \in Batches \cup {Null}
      BY <2>1, <2>2 DEF Request
    <2>4. request' \in [Requests -> Request \cup {NoRequest}]
      BY <2>1, <2>2, <2>3, ReportType
    <2>5. LedgerTypeOK'
      BY <2>2, <2>3, LedgerType DEF LedgerTypeOK, ledgerVars
    <2>6. QED
      BY <1>8, <2>2, <2>3, <2>4, <2>5 DEF RegisterNext, bounds
  <1>9. ASSUME NEW r \in Requests, UpdateMembership(r)
        PROVE  TypeOK'
    <2>1. request[r] \in Request
      BY <1>9 DEF UpdateMembership, InLoop, AtStep, Busy
    <2>2. [request[r] EXCEPT !.left = {}, !.result.succeeded = request[r].left] \in Request
      BY <2>1 DEF Request, Lists
    <2>3. request' = [request EXCEPT ![r] =
            [@ EXCEPT !.left = {}, !.result.succeeded = request[r].left]]
      BY <1>9 DEF UpdateMembership
    <2>4. request' \in [Requests -> Request \cup {NoRequest}]
      BY <2>2, <2>3
    <2>5. batch_id' \in [Servers -> Batches \cup {Null}]
      BY <1>9, <2>1 DEF UpdateMembership, Request
    <2>6. QED
      BY <1>9, <2>4, <2>5 DEF UpdateMembership, LedgerTypeOK, ledgerVars, bounds
  <1>10. ASSUME NEW r \in Requests, RequestRaises(r) \/ Answer(r)
         PROVE  TypeOK'
    <2>1. request[r] \in Request /\ request[r].result \in Lists
      BY <1>10 DEF RequestRaises, Answer, Busy, Request
    <2>2. /\ request' \in [Requests -> Request \cup {NoRequest}]
          /\ answer' \in [Requests -> Lists \cup {NoRequest}]
          /\ faults' \in 0..MaxFaults
      <3>1. CASE RequestRaises(r)
        BY <3>1 DEF RequestRaises, LocalStep, Fault
      <3>2. CASE Answer(r)
        BY <2>1, <3>2 DEF Answer, bounds
      <3>3. QED
        BY <1>10, <3>1, <3>2
    <2>3. QED
      BY <1>10, <2>2 DEF RequestRaises, Answer, LocalStep, LedgerTypeOK, ledgerVars, bounds
  <1>11. ASSUME NEW s \in Servers, Elsewhere(s)
         PROVE  TypeOK'
    <2>1. LedgerTypeOK'
      BY <1>11, LedgerType DEF Elsewhere
    <2>2. QED
      BY <1>11, <2>1 DEF Elsewhere
  <1>12. CASE Crash
    BY <1>12 DEF Crash, LedgerTypeOK, ledgerVars
  <1>13. CASE UNCHANGED vars
    BY <1>13 DEF vars, waveVars, bounds, LedgerTypeOK, ledgerVars
  <1>14. ASSUME NEW r \in Requests, NewRequest(r)
         PROVE  TypeOK'
    <2>1. {AssignServers, BulkRegister, BulkStart} \cup AllWaves \subseteq AllOperations
      BY DEF AllOperations
    <2>2. NoIds \in [Servers -> AwsIds \cup {Null}]
      BY DEF NoIds
    <2>3. \A ids \in [Servers -> AwsIds \cup {Null}] :
            {s \in Servers : ids[s] # Null} \in SUBSET Servers
      OBVIOUS
    <2>4. \A s \in Servers :
            [NoIds EXCEPT ![s] = aws_source_server_id[s]] \in [Servers -> AwsIds \cup {Null}]
      BY <2>2 DEF LedgerTypeOK
    <2>5. ASSUME NEW b \in Batches, NEW op \in AllWaves, NEW c \in Configs \cup {Null},
                 BeginWave(r, b, op, c)
          PROVE  TypeOK'
      BY <1>2, <2>1, <2>2, <2>5 DEF BeginWave
    <2>6. ASSUME NEW s \in Servers, NEW op \in AllWaves, NEW c \in Configs \cup {Null},
                 BeginSingle(r, s, op, c)
          PROVE  TypeOK'
      <3>1. Begin(r, op, Null, c, "loop", {s}, [NoIds EXCEPT ![s] = aws_source_server_id[s]])
        BY <2>6 DEF BeginSingle
      <3>2. op \in AllOperations /\ Null \in Batches \cup {Null} /\ {s} \in SUBSET Servers
        BY <2>1
      <3> HIDE DEF TypeOK
      <3>3. QED
        BY <1>2, <2>4, <3>1, <3>2
    <2>7. QED
      BY <1>14, <1>2, <2>1, <2>2, <2>3, <2>5, <2>6 DEF NewRequest
  <1>15. ASSUME NEW s \in Servers, Reset(s)
         PROVE  TypeOK'
    <2>1. Engineers \subseteq Actors
      BY DEF Actors
    <2>2. LedgerTypeOK'
      BY <1>15, <2>1, LedgerType DEF Reset
    <2>3. resets' \in [Servers -> Nat] /\ elsewhere' \in 0..MaxElsewhere
      BY <1>15 DEF Reset
    <2>4. QED
      BY <1>15, <2>2, <2>3 DEF Reset
  <1>16. QED
    BY <1>1, <1>3, <1>4, <1>5, <1>6, <1>7, <1>8, <1>9, <1>10, <1>11, <1>12, <1>13, <1>14,
       <1>15
       DEF Next, RequestStep

-----------------------------------------------------------------------------
(* What a step may do to a request: begin it, or carry it on with the same *)
(* endpoint, batch and configuration.                                      *)
Fresh(q) ==
  /\ request'[q].current = Null
  /\ request'[q].result = NothingYet
  /\ request'[q].config # Null => request'[q].op.config # Null
  /\ request'[q].step = "store" =>
       /\ request'[q].config # Null /\ request'[q].batch # Null
       /\ batches[request'[q].batch] # NoBatch
  /\ request'[q].config # Null /\ request'[q].batch # Null => request'[q].step = "store"
  /\ UNCHANGED <<ledgerVars, batches, jobs>>

CarriedOn(q) ==
  /\ Busy(q)
  /\ request'[q].op = request[q].op
  /\ request'[q].batch = request[q].batch
  /\ request'[q].config = request[q].config
  /\ request'[q].step = request[q].step \/ request[q].step = "read" \/ StoreConfig(q)
  /\ request'[q].step = "store" => request[q].step = "store"
  /\ request'[q].current \in {Null, request[q].current} \/ MoveServer(q) \/ CheckPending(q)
  /\ \A s \in request'[q].result.succeeded :
       \/ s \in request[q].result.succeeded
       \/ request[q].op.job = Null
       \/ s \in Servers /\ jobs' = Append(jobs, JobFor(q, s))

LEMMA BeginIsFresh ==
  ASSUME TypeOK, NEW r \in Requests, NewRequest(r)
  PROVE  Fresh(r) /\ \A q \in Requests : q # r => request'[q] = request[q]
  <1>1. ASSUME NEW op, NEW b, NEW c, NEW step, NEW servers, NEW ids,
               Begin(r, op, b, c, step, servers, ids),
               c # Null => op.config # Null,
               step = "store" => c # Null /\ b # Null /\ batches[b] # NoBatch,
               c # Null /\ b # Null => step = "store"
        PROVE  Fresh(r) /\ \A q \in Requests : q # r => request'[q] = request[q]
    BY <1>1 DEF Begin, Fresh, TypeOK
  <1>2. ASSUME NEW b \in Batches, NEW op, NEW c, BeginWave(r, b, op, c)
        PROVE  Fresh(r) /\ \A q \in Requests : q # r => request'[q] = request[q]
    BY <1>1, <1>2, Sentinels DEF BeginWave
  <1>3. ASSUME NEW s \in Servers, NEW op, NEW c, BeginSingle(r, s, op, c)
        PROVE  Fresh(r) /\ \A q \in Requests : q # r => request'[q] = request[q]
    BY <1>1, <1>3 DEF BeginSingle
  <1>4. QED
    BY <1>1, <1>2, <1>3 DEF NewRequest

LEMMA RequestSteps ==
  ASSUME TypeOK, [Next]_vars, NEW q \in Requests, request'[q] # NoRequest
  PROVE  Fresh(q) \/ CarriedOn(q)
  <1>1. CASE UNCHANGED request
    BY <1>1 DEF CarriedOn, Busy
  <1>2. ASSUME NEW r \in Requests, NewRequest(r)
        PROVE  Fresh(q) \/ CarriedOn(q)
    BY <1>2, BeginIsFresh DEF CarriedOn, Busy
  <1>3. ASSUME NEW r \in Requests, RequestStep(r), r # q
        PROVE  request'[q] = request[q]
    BY <1>3 DEF TypeOK, RequestStep, StoreConfig, ReadBatch, MoveServer, ItemRaises, CheckPending,
                Dispatch, DispatchRaises, RegisterNext, ReadMembership, UpdateMembership,
                RequestRaises, Answer, Report
  <1>4. ASSUME RequestStep(q)
        PROVE  CarriedOn(q)
    <2>1. Busy(q) /\ request[q] \in Request
      BY <1>4 DEF TypeOK, RequestStep, StoreConfig, ReadBatch, MoveServer, ItemRaises, CheckPending,
                Dispatch, DispatchRaises, RegisterNext, ReadMembership, UpdateMembership,
                RequestRaises, Answer, InLoop, AtStep, Busy
    <2>2. ASSUME NEW s, NEW list \in {"succeeded", "failed"}, Report(q, list, s),
                 list = "succeeded" => \/ request[q].op.job = Null
                                       \/ s \in Servers /\ jobs' = Append(jobs, JobFor(q, s))
          PROVE  CarriedOn(q)
      <3> DEFINE succeeded == request[q].result.succeeded \cup {s}
      <3>1. /\ request'[q].op = request[q].op /\ request'[q].batch = request[q].batch
            /\ request'[q].config = request[q].config /\ request'[q].step = request[q].step
            /\ request'[q].current = Null
        BY <2>1, <2>2 DEF Report, TypeOK, Request
      <3>2. CASE list = "failed"
        <4>1. request'[q].result.succeeded = request[q].result.succeeded
          BY <2>1, <2>2, <3>2 DEF Report, TypeOK, Request, Lists
        <4>2. QED
          BY <2>1, <3>1, <4>1 DEF CarriedOn
      <3>3. CASE list = "succeeded"
        <4>1. request'[q].result.succeeded = succeeded
          BY <2>1, <2>2, <3>3 DEF Report, TypeOK, Request, Lists
        <4>2. QED
          BY <2>1, <2>2, <3>1, <3>3, <4>1 DEF CarriedOn
      <3>4. QED
        BY <2>2, <3>2, <3>3
    <2>3. ASSUME NEW s, request' = [request EXCEPT ![q].current = s],
                 MoveServer(q) \/ CheckPending(q)
          PROVE  CarriedOn(q)
      BY <2>1, <2>3 DEF CarriedOn, TypeOK, Request
    <2>4. Kind(q) \in {"reject", "register", "assign"} => request[q].op.job = Null
      BY <2>1, OperationFacts DEF Request, Kind
    <2>5. CASE MoveServer(q)
      BY <2>2, <2>3, <2>4, <2>5 DEF MoveServer, InLoop, AtStep
    <2>6. CASE ItemRaises(q) \/ CheckPending(q)
      BY <2>2, <2>3, <2>6 DEF ItemRaises, CheckPending
    <2>7. CASE Dispatch(q) \/ DispatchRaises(q)
      <3>1. \A s \in InHand(q) : s \in Servers
        BY <2>1 DEF InHand, Request
      <3>2. QED
        BY <2>2, <2>7, <3>1 DEF Dispatch, DispatchRaises
    <2>8. CASE RegisterNext(q)
      BY <2>2, <2>4, <2>8 DEF RegisterNext, InLoop, AtStep
    <2>9. CASE StoreConfig(q)
      BY <2>1, <2>9 DEF StoreConfig, CarriedOn, TypeOK, Request
    <2>10. CASE ReadBatch(q) \/ ReadMembership(q)
      <3>1. request[q].step = "read"
        BY <2>10 DEF ReadBatch, ReadMembership, AtStep
      <3>2. /\ request'[q].op = request[q].op /\ request'[q].batch = request[q].batch
            /\ request'[q].config = request[q].config /\ request'[q].step = "loop"
            /\ request'[q].current = request[q].current
            /\ request'[q].result.succeeded = request[q].result.succeeded
        <4>1. CASE ReadBatch(q)
          <5>1. PICK left, skipped, ids : request' = [request EXCEPT ![q] =
                  [@ EXCEPT !.step = "loop", !.left = left, !.ids = ids,
                            !.result.skipped = skipped]]
            BY <4>1, Zenon DEF ReadBatch
          <5>2. QED
            BY <2>1, <5>1 DEF TypeOK, Request, Lists
        <4>2. CASE ReadMembership(q)
          <5>1. PICK left, skipped, failed : request' = [request EXCEPT ![q] =
                  [@ EXCEPT !.step = "loop", !.left = left, !.result.skipped = skipped,
                            !.result.failed = failed]]
            BY <4>2, Zenon DEF ReadMembership
          <5>2. QED
            BY <2>1, <5>1 DEF TypeOK, Request, Lists
        <4>3. QED
          BY <2>10, <4>1, <4>2
      <3>3. QED
        BY <2>1, <3>1, <3>2 DEF CarriedOn
    <2>11. CASE UpdateMembership(q)
      <3>1. request'[q] = [request[q] EXCEPT !.left = {}, !.result.succeeded = request[q].left]
        BY <2>11 DEF UpdateMembership, TypeOK
      <3>2. request[q].op.job = Null
        BY <2>11, <2>4 DEF UpdateMembership, InLoop, AtStep
      <3>3. QED
        BY <2>1, <3>1, <3>2 DEF CarriedOn, Request
    <2>12. ~RequestRaises(q) /\ ~Answer(q)
      BY DEF RequestRaises, Answer, TypeOK
    <2>13. QED
      BY <1>4, <2>9, <2>10, <2>11, <2>12, <2>5, <2>6, <2>7, <2>8 DEF RequestStep
  <1>5. ~Crash
    BY DEF Crash
  <1>6. ASSUME \/ \E b \in Batches : CreateBatch(b)
               \/ \E s \in Servers : Elsewhere(s) \/ Reset(s)
        PROVE  UNCHANGED request
    BY <1>6 DEF CreateBatch, Elsewhere, Reset
  <1>7. QED
    BY <1>1, <1>2, <1>3, <1>4, <1>5, <1>6 DEF Next, vars, waveVars, CarriedOn, Busy

-----------------------------------------------------------------------------
(* Which actions write the ledger, the rows of batches, what is on record, *)
(* the jobs and the count of resets.                                       *)
LEMMA Writers ==
  ASSUME [Next]_vars
  PROVE  /\ \/ UNCHANGED <<ledgerVars, resets>>
            \/ UNCHANGED resets /\ \E r \in Requests : MoveServer(r) \/ RegisterNext(r)
            \/ UNCHANGED resets /\ \E s \in Servers : Elsewhere(s)
            \/ \E s \in Servers : Reset(s)
         /\ \/ UNCHANGED <<batches, recorded>>
            \/ \E r \in Requests : StoreConfig(r)
            \/ UNCHANGED recorded /\ \E b \in Batches : CreateBatch(b)
         /\ \/ UNCHANGED jobs
            \/ \E r \in Requests : Dispatch(r) \/ DispatchRaises(r)
  <1> DEFINE Quiet == UNCHANGED <<ledgerVars, batches, recorded, jobs, resets>>
  <1>1. ASSUME NEW r \in Requests, NewRequest(r)
        PROVE  Quiet
    BY <1>1 DEF NewRequest, BeginWave, BeginSingle, Begin
  <1>2. ASSUME NEW r \in Requests, MoveServer(r) \/ RegisterNext(r)
        PROVE  UNCHANGED <<batches, recorded, jobs, resets>>
    BY <1>2 DEF MoveServer, RegisterNext
  <1>3. ASSUME NEW r \in Requests, StoreConfig(r)
        PROVE  UNCHANGED <<ledgerVars, jobs, resets>>
    BY <1>3 DEF StoreConfig
  <1>4. ASSUME NEW r \in Requests, Dispatch(r) \/ DispatchRaises(r)
        PROVE  UNCHANGED <<ledgerVars, batches, recorded, resets>>
    BY <1>4 DEF Dispatch, DispatchRaises
  <1>5. ASSUME NEW r \in Requests,
               \/ ReadBatch(r) \/ ItemRaises(r) \/ CheckPending(r) \/ ReadMembership(r)
               \/ UpdateMembership(r) \/ RequestRaises(r) \/ Answer(r)
        PROVE  Quiet
    BY <1>5 DEF ReadBatch, ItemRaises, CheckPending, ReadMembership, UpdateMembership,
                RequestRaises, Answer, LocalStep
  <1>6. ASSUME NEW b \in Batches, CreateBatch(b)
        PROVE  UNCHANGED <<ledgerVars, recorded, jobs, resets>>
    BY <1>6 DEF CreateBatch
  <1>7. ASSUME NEW s \in Servers, Elsewhere(s)
        PROVE  UNCHANGED <<batches, recorded, jobs, resets>>
    BY <1>7 DEF Elsewhere
  <1>8. ASSUME NEW s \in Servers, Reset(s)
        PROVE  UNCHANGED <<batches, recorded, jobs>>
    BY <1>8 DEF Reset
  <1>9. Crash \/ UNCHANGED vars => Quiet
    BY DEF Crash, vars, waveVars
  <1> HIDE DEF Quiet
  <1>10. \/ Quiet
         \/ \E r \in Requests : \/ MoveServer(r) \/ RegisterNext(r) \/ StoreConfig(r)
                                \/ Dispatch(r) \/ DispatchRaises(r)
         \/ \E b \in Batches : CreateBatch(b)
         \/ \E s \in Servers : Elsewhere(s) \/ Reset(s)
    BY <1>1, <1>5, <1>9 DEF Next, RequestStep
  <1>11. QED
    BY <1>2, <1>3, <1>4, <1>6, <1>7, <1>8, <1>10 DEF Quiet

-----------------------------------------------------------------------------
(* No batch is deleted, and nothing is taken off the record.               *)
LEMMA BatchSteps ==
  ASSUME TypeOK, StoredFirst, [Next]_vars
  PROVE  /\ recorded \subseteq recorded'
         /\ \A b \in Batches : batches[b] # NoBatch => batches'[b] # NoBatch
  <1>1. ASSUME NEW r \in Requests, StoreConfig(r)
        PROVE  /\ recorded \subseteq recorded'
               /\ \A b \in Batches : batches[b] # NoBatch => batches'[b] # NoBatch
    BY <1>1, StoreRecords, Sentinels
  <1>2. ASSUME NEW c \in Batches, CreateBatch(c)
        PROVE  \A b \in Batches : batches[b] # NoBatch => batches'[b] = batches[b]
    BY <1>2 DEF CreateBatch, TypeOK
  <1>3. QED
    BY <1>1, <1>2, Writers

LEMMA JobSteps ==
  ASSUME TypeOK, [Next]_vars
  PROVE  \/ UNCHANGED jobs
         \/ \E r \in Requests, s \in Servers :
              /\ Dispatch(r) \/ DispatchRaises(r)
              /\ s \in InHand(r)
              /\ jobs' = Append(jobs, JobFor(r, s))
              /\ Report(r, "succeeded", s) \/ Report(r, "failed", s)
  <1>1. ASSUME NEW r \in Requests, Dispatch(r) \/ DispatchRaises(r)
        PROVE  InHand(r) \subseteq Servers
    <2>1. request[r] \in Request
      BY <1>1 DEF Dispatch, DispatchRaises, AtStep, Busy, TypeOK
    <2>2. QED
      BY <2>1 DEF InHand, Request
  <1>2. ASSUME NEW r \in Requests, Dispatch(r) \/ DispatchRaises(r)
        PROVE  \/ UNCHANGED jobs
               \/ \E s \in Servers : /\ s \in InHand(r)
                                     /\ jobs' = Append(jobs, JobFor(r, s))
                                     /\ Report(r, "succeeded", s) \/ Report(r, "failed", s)
    BY <1>1, <1>2 DEF Dispatch, DispatchRaises
  <1>3. QED
    BY <1>2, Writers

(* No step but a reset takes a server back in the pipeline.                *)
LEMMA NoStepBack ==
  ASSUME TypeOK, [Next]_vars, NEW s \in Servers
  PROVE  /\ Place(current_state[s]) \in 0..28 /\ Place(current_state'[s]) \in 0..28
         /\ \/ /\ Place(current_state[s]) <= Place(current_state'[s])
               /\ resets'[s] = resets[s]
            \/ Place(current_state[s]) = 28 /\ resets'[s] = resets[s] + 1
  <1> DEFINE Climbs == /\ Place(current_state[s]) <= Place(current_state'[s])
                       /\ Place(current_state'[s]) \in 0..28
  <1>1. current_state[s] \in ServerState \cup {NotRegistered}
    BY DEF TypeOK, LedgerTypeOK
  <1>2. Place(NotRegistered) = 0 /\ Place("PENDING") = 1
    BY DEF Place, NotRegistered
  <1>3. Place(current_state[s]) \in 0..28
    BY <1>1, <1>2, PlaceType
  <1>4. ASSUME current_state'[s] = current_state[s]
        PROVE  Climbs
    BY <1>3, <1>4
  <1>5. ASSUME NEW t \in Servers, RegisterServer(t)
        PROVE  Climbs
    <2>1. s = t => current_state[s] = NotRegistered /\ current_state'[s] = "PENDING"
      BY <1>5 DEF RegisterServer, IsRegistered, TypeOK, LedgerTypeOK
    <2>2. s # t => current_state'[s] = current_state[s]
      BY <1>5 DEF RegisterServer, TypeOK, LedgerTypeOK
    <2>3. CASE s = t
      BY <1>2, <2>1, <2>3
    <2>4. QED
      BY <1>4, <2>2, <2>3
  <1>6. ASSUME NEW t, NEW to, NEW by, AdvanceState(t, to, by)
        PROVE  Climbs
    <2>1. s = t => current_state'[s] = to /\ IsValidTransition(current_state[s], to)
      BY <1>6 DEF AdvanceState, MoveTo, TypeOK, LedgerTypeOK
    <2>2. s # t => current_state'[s] = current_state[s]
      BY <1>6 DEF AdvanceState, MoveTo, TypeOK, LedgerTypeOK
    <2>3. CASE s = t
      <3>1. Place(current_state[s]) < Place(to) /\ Place(to) \in 1..28
        BY <2>1, <2>3, TransitionClimbs
      <3>2. QED
        BY <1>3, <2>1, <2>3, <3>1
    <2>4. QED
      BY <1>4, <2>2, <2>3
  <1>7. ASSUME NEW t \in Servers, Reset(t)
        PROVE  \/ Climbs /\ resets'[s] = resets[s]
               \/ /\ Place(current_state[s]) = 28 /\ Place(current_state'[s]) \in 0..28
                  /\ resets'[s] = resets[s] + 1
    <2>1. s = t => /\ current_state[s] = "FAILED" /\ current_state'[s] = "PENDING"
                   /\ resets'[s] = resets[s] + 1
      BY <1>7 DEF Reset, ResetServer, MoveTo, TypeOK, LedgerTypeOK
    <2>2. s # t => current_state'[s] = current_state[s] /\ resets'[s] = resets[s]
      BY <1>7 DEF Reset, ResetServer, MoveTo, TypeOK, LedgerTypeOK
    <2>3. Place("FAILED") = 28
      BY DEF Place, NotRegistered
    <2>4. QED
      BY <1>2, <1>4, <2>1, <2>2, <2>3
  <1>8. \/ UNCHANGED <<ledgerVars, resets>>
        \/ UNCHANGED resets /\ \E t \in Servers : RegisterServer(t)
        \/ UNCHANGED resets /\ \E t, to, by : AdvanceState(t, to, by)
        \/ \E t \in Servers : Reset(t)
    <2>1. ASSUME NEW r \in Requests, RegisterNext(r)
          PROVE  UNCHANGED ledgerVars \/ \E t \in Servers : RegisterServer(t)
      <3>1. request[r] \in Request
        BY <2>1 DEF RegisterNext, InLoop, AtStep, Busy, TypeOK
      <3>2. QED
        BY <2>1, <3>1 DEF RegisterNext, Request
    <2>2. ASSUME NEW r \in Requests, MoveServer(r)
          PROVE  \E t, to, by : AdvanceState(t, to, by)
      BY <2>2 DEF MoveServer
    <2>3. ASSUME NEW t \in Servers, Elsewhere(t)
          PROVE  \E to, by : AdvanceState(t, to, by)
      BY <2>3 DEF Elsewhere
    <2>4. QED
      BY <2>1, <2>2, <2>3, Writers
  <1> HIDE DEF Climbs
  <1>9. \/ Climbs /\ resets'[s] = resets[s]
        \/ /\ Place(current_state[s]) = 28 /\ Place(current_state'[s]) \in 0..28
           /\ resets'[s] = resets[s] + 1
    BY <1>4, <1>5, <1>6, <1>7, <1>8 DEF ledgerVars
  <1>10. QED
    BY <1>3, <1>9 DEF Climbs

LEMMA GatePlaces == \A g \in Gates : Place(g.at) \in 1..26
  <1>1. \A g \in Gates : g.at \in ServerState \ (CompletedStates \cup ErrorStates)
    BY GateFacts DEF InProgressStates, ServerState, CompletedStates, ErrorStates
  <1>2. QED
    BY <1>1, PlaceType

(* A pass is never taken back: a reset ends the migration that used it.    *)
LEMMA PassesGrow ==
  ASSUME TypeOK, [Next]_vars, NEW s \in Servers, NEW g \in Gates
  PROVE  /\ Passes(s, g) \in Nat /\ Passes(s, g)' \in Nat
         /\ Passes(s, g) <= Passes(s, g)'
  <1>1. /\ resets[s] \in Nat
        /\ \/ Place(current_state[s]) <= Place(current_state'[s]) /\ resets'[s] = resets[s]
           \/ Place(current_state[s]) = 28 /\ resets'[s] = resets[s] + 1
        /\ Place(current_state[s]) \in 0..28 /\ Place(current_state'[s]) \in 0..28
    BY NoStepBack DEF TypeOK
  <1>2. Place(g.at) \in 1..26
    BY GatePlaces
  <1>3. QED
    BY <1>1, <1>2 DEF Passes

-----------------------------------------------------------------------------
LEMMA StoredFirstKept ==
  TypeOK /\ StoredFirst /\ [Next]_vars => StoredFirst'
  <1> SUFFICES ASSUME TypeOK, StoredFirst, [Next]_vars,
                      NEW q \in Requests, request'[q] # NoRequest
               PROVE  /\ request'[q].config # Null => request'[q].op.config # Null
                      /\ request'[q].step = "store" =>
                           /\ request'[q].config # Null /\ request'[q].batch # Null
                           /\ batches'[request'[q].batch] # NoBatch
                      /\ /\ request'[q].config # Null /\ request'[q].batch # Null
                         /\ request'[q].step # "store"
                         => <<request'[q].batch, request'[q].op.config, request'[q].config>>
                              \in recorded'
    BY DEF StoredFirst, Busy
  <1>1. CASE Fresh(q)
    BY <1>1 DEF Fresh
  <1>2. CASE CarriedOn(q)
    <2>1. request[q] \in Request
      BY <1>2 DEF CarriedOn, Busy, TypeOK
    <2>2. request'[q].config # Null => request'[q].op.config # Null
      BY <1>2 DEF CarriedOn, StoredFirst
    <2>3. ASSUME request'[q].step = "store"
          PROVE  /\ request'[q].config # Null /\ request'[q].batch # Null
                 /\ batches'[request'[q].batch] # NoBatch
      <3>1. /\ request[q].config # Null /\ request[q].batch # Null
            /\ batches[request[q].batch] # NoBatch
        BY <1>2, <2>3 DEF CarriedOn, StoredFirst
      <3>2. request[q].batch \in Batches
        BY <2>1, <3>1 DEF Request
      <3>3. QED
        BY <1>2, <3>1, <3>2, BatchSteps DEF CarriedOn
    <2>4. ASSUME request'[q].config # Null, request'[q].batch # Null, request'[q].step # "store"
          PROVE  <<request[q].batch, request[q].op.config, request[q].config>> \in recorded'
      <3>1. CASE request[q].step # "store"
        BY <1>2, <2>4, <3>1, BatchSteps DEF CarriedOn, StoredFirst
      <3>2. CASE StoreConfig(q)
        BY <3>2, StoreRecords
      <3>3. QED
        BY <1>2, <2>4, <3>1, <3>2 DEF CarriedOn
    <2>5. QED
      BY <1>2, <2>2, <2>3, <2>4 DEF CarriedOn
  <1>3. QED
    BY <1>1, <1>2, RequestSteps

LEMMA RecordInductive ==
  TypeOK /\ StoredFirst /\ ConfigIsOnRecord /\ [Next]_vars => ConfigIsOnRecord'
  <1> SUFFICES ASSUME TypeOK, StoredFirst, ConfigIsOnRecord, [Next]_vars,
                      NEW i \in DOMAIN jobs', ByWave(i)'
               PROVE  <<jobs'[i].batch, ConfigColumn[jobs'[i].job], jobs'[i].config>> \in recorded'
    BY DEF ConfigIsOnRecord
  <1>1. ASSUME i \in DOMAIN jobs, jobs'[i] = jobs[i]
        PROVE  <<jobs'[i].batch, ConfigColumn[jobs'[i].job], jobs'[i].config>> \in recorded'
    BY <1>1, BatchSteps DEF ConfigIsOnRecord, ByWave
  <1>2. ASSUME NEW r \in Requests, NEW s \in Servers, Dispatch(r) \/ DispatchRaises(r),
               jobs'[i] = JobFor(r, s)
        PROVE  <<jobs'[i].batch, ConfigColumn[jobs'[i].job], jobs'[i].config>> \in recorded'
    <2>1. Busy(r) /\ request[r] \in Request /\ request[r].step = "loop"
      BY <1>2 DEF Dispatch, DispatchRaises, AtStep, Busy, TypeOK
    <2>2. /\ jobs'[i].batch = request[r].batch /\ jobs'[i].config = request[r].config
          /\ jobs'[i].job = request[r].op.job
          /\ request[r].batch # Null /\ request[r].config # Null
      BY <1>2 DEF JobFor, ByWave
    <2>3. /\ request[r].op.config # Null
          /\ <<request[r].batch, request[r].op.config, request[r].config>> \in recorded
      BY <2>1, <2>2 DEF StoredFirst
    <2>4. request[r].op.config = ConfigColumn[request[r].op.job]
      BY <2>1, <2>3, OperationFacts DEF Request
    <2>5. QED
      BY <2>2, <2>3, <2>4, BatchSteps
  <1>3. CASE UNCHANGED jobs
    BY <1>1, <1>3
  <1>4. ASSUME NEW r \in Requests, NEW s \in Servers, Dispatch(r) \/ DispatchRaises(r),
               jobs' = Append(jobs, JobFor(r, s))
        PROVE  <<jobs'[i].batch, ConfigColumn[jobs'[i].job], jobs'[i].config>> \in recorded'
    <2>1. (i \in DOMAIN jobs /\ jobs'[i] = jobs[i]) \/ jobs'[i] = JobFor(r, s)
      BY <1>4 DEF TypeOK
    <2>2. QED
      BY <1>1, <1>2, <1>4, <2>1
  <1>5. QED
    BY <1>3, <1>4, JobSteps

LEMMA SucceededInductive ==
  TypeOK /\ SucceededIsDispatched /\ [Next]_vars => SucceededIsDispatched'
  <1> SUFFICES ASSUME TypeOK, SucceededIsDispatched, [Next]_vars,
                      NEW q \in Requests, request'[q] # NoRequest, request'[q].op.job # Null,
                      NEW s \in request'[q].result.succeeded
               PROVE  \E i \in DOMAIN jobs' :
                        jobs'[i].server = s /\ jobs'[i].job = request'[q].op.job
    BY DEF SucceededIsDispatched, Busy, JobsOf
  <1>1. ASSUME NEW i \in DOMAIN jobs
        PROVE  i \in DOMAIN jobs' /\ jobs'[i] = jobs[i]
    <2>1. UNCHANGED jobs \/ \E job : jobs' = Append(jobs, job)
      BY JobSteps
    <2>2. jobs \in Seq(Job)
      BY DEF TypeOK
    <2>3. QED
      BY <2>1, <2>2
  <1>2. CarriedOn(q)
    BY RequestSteps DEF Fresh, NothingYet
  <1>3. CASE s \in request[q].result.succeeded
    <2>1. \E i \in DOMAIN jobs : jobs[i].server = s /\ jobs[i].job = request[q].op.job
      BY <1>2, <1>3 DEF CarriedOn, SucceededIsDispatched, JobsOf
    <2>2. QED
      BY <1>1, <1>2, <2>1 DEF CarriedOn
  <1>4. CASE jobs' = Append(jobs, JobFor(q, s))
    <2>1. Len(jobs) + 1 \in DOMAIN jobs' /\ jobs'[Len(jobs) + 1] = JobFor(q, s)
      BY <1>4 DEF TypeOK
    <2>2. QED
      BY <1>2, <2>1 DEF JobFor, CarriedOn
  <1>5. QED
    BY <1>2, <1>3, <1>4 DEF CarriedOn

(* The jobs and the requests that SentOnce counts are finite sets.         *)
LEMMA CountedAreFinite ==
  ASSUME TypeOK, NEW s \in Servers, NEW job
  PROVE  /\ IsFiniteSet(JobsOf(s, job)) /\ Cardinality(JobsOf(s, job)) \in Nat
         /\ IsFiniteSet(Sending(s, job)) /\ Cardinality(Sending(s, job)) \in Nat
  <1>1. DOMAIN jobs = 1..Len(jobs) /\ Len(jobs) \in Nat
    BY DEF TypeOK
  <1>2. IsFiniteSet(DOMAIN jobs) /\ JobsOf(s, job) \subseteq DOMAIN jobs
    BY <1>1, FS_Interval DEF JobsOf
  <1>3. IsFiniteSet(Requests) /\ Sending(s, job) \subseteq Requests
    BY WavesAssumption DEF Sending
  <1>4. QED
    BY <1>2, <1>3, FS_Subset, FS_CardinalityType

LEMMA SentOnceInductive ==
  TypeOK /\ SentOnce /\ [Next]_vars => SentOnce'
  <1> SUFFICES ASSUME TypeOK, SentOnce, [Next]_vars, NEW s \in Servers, NEW g \in Gates
               PROVE  Cardinality(JobsOf(s, g.job)') + Cardinality(Sending(s, g.job)')
                        <= Passes(s, g)'
    BY DEF SentOnce
  <1> DEFINE J == JobsOf(s, g.job)
             S == Sending(s, g.job)
  <1>1. /\ IsFiniteSet(J) /\ Cardinality(J) \in Nat
        /\ IsFiniteSet(S) /\ Cardinality(S) \in Nat
        /\ Cardinality(J) + Cardinality(S) <= Passes(s, g)
    BY CountedAreFinite DEF SentOnce
  <1>2. /\ Passes(s, g) \in Nat /\ Passes(s, g)' \in Nat
        /\ Passes(s, g) <= Passes(s, g)'
    BY PassesGrow
  (* A step that opens no gate and dispatches nothing for s. *)
  <1>3. ASSUME S' \subseteq S, J' = J
        PROVE  Cardinality(J') + Cardinality(S') <= Passes(s, g)'
    <2>1. Cardinality(S') <= Cardinality(S) /\ Cardinality(S') \in Nat
      BY <1>1, <1>3, FS_Subset, FS_CardinalityType
    <2>2. QED
      BY <1>1, <1>2, <1>3, <2>1
  <1>4. ASSUME NEW q \in S', q \notin S
        PROVE  MoveServer(q) /\ Kind(q) = "approve" /\ request[q].op.job = g.job
               /\ request'[q].current = s
    <2>1. q \in Requests /\ request'[q] # NoRequest /\ request'[q].current = s
      BY <1>4 DEF Sending, Busy
    <2>2. s # Null
      BY Sentinels
    <2>3. CarriedOn(q)
      BY <2>1, <2>2, RequestSteps DEF Fresh
    <2>4. request[q].current # s /\ Kind(q) = "approve" /\ request[q].op.job = g.job
      BY <1>4, <2>3 DEF Sending, CarriedOn, Kind, Busy
    <2>5. QED
      BY <2>1, <2>2, <2>3, <2>4 DEF CarriedOn, CheckPending, InLoop, AtStep
  <1>5. CASE \E r \in Requests : MoveServer(r)
    <2>1. PICK r \in Requests : MoveServer(r)
      BY <1>5
    <2>2. J' = J
      BY <2>1 DEF MoveServer, JobsOf
    <2>3. CASE S' \subseteq S
      BY <1>3, <2>2, <2>3
    <2>4. CASE ~(S' \subseteq S)
      <3>1. PICK q \in S' : q \notin S
        BY <2>4
      <3>2. /\ MoveServer(q) /\ Kind(q) = "approve" /\ request[q].op.job = g.job
            /\ request'[q].current = s /\ q \in Requests
        BY <1>4, <3>1 DEF Sending
      <3>3. request[q].current = Null /\ request[q] \in Request
        BY <3>2 DEF MoveServer, InLoop, AtStep, Busy, TypeOK
      <3>4. PICK t \in request[q].left, engineer \in Engineers :
              /\ AdvanceState(t, request[q].op.next, engineer)
              /\ request' = [request EXCEPT ![q].current = t]
        BY <3>2 DEF MoveServer
      <3>5. t = s
        BY <3>2, <3>3, <3>4 DEF TypeOK, Request
      <3>6. \A p \in Requests : p # q => request'[p] = request[p]
        BY <3>4 DEF TypeOK
      <3>7. request[q].op.next = g.next
        <4>1. \E h \in Gates : request[q].op.job = h.job /\ request[q].op.next = h.next
          BY <3>2, <3>3, OperationFacts DEF Request, Kind
        <4>2. QED
          BY <3>2, <4>1, GateFacts
      <3>8. current_state[s] = g.at
        BY <3>4, <3>5, <3>7, GateFacts DEF AdvanceState
      <3>9. current_state'[s] = g.next /\ resets' = resets
        BY <2>1, <3>4, <3>5, <3>7 DEF AdvanceState, MoveTo, MoveServer, TypeOK, LedgerTypeOK
      <3>10. Passes(s, g)' = Passes(s, g) + 1
        <4>1. Place(g.at) \in Nat /\ Place(g.next) = Place(g.at) + 1
          BY GateFacts, GatePlaces
        <4>2. resets[s] \in Nat
          BY DEF TypeOK
        <4>3. QED
          BY <3>8, <3>9, <4>1, <4>2 DEF Passes
      <3>11. S' \subseteq S \cup {q}
        BY <3>6 DEF Sending, Kind, Busy
      <3>12. IsFiniteSet(S \cup {q}) /\ Cardinality(S \cup {q}) = Cardinality(S) + 1
        BY <1>1, <3>1, FS_AddElement
      <3>13. Cardinality(S') <= Cardinality(S) + 1 /\ Cardinality(S') \in Nat
        BY <3>11, <3>12, FS_Subset, FS_CardinalityType
      <3>14. QED
        BY <1>1, <1>2, <2>2, <3>10, <3>13
    <2>5. QED
      BY <2>3, <2>4
  <1>6. ASSUME NEW r \in Requests, NEW t \in Servers,
               Dispatch(r) \/ DispatchRaises(r), t \in InHand(r),
               jobs' = Append(jobs, JobFor(r, t)),
               Report(r, "succeeded", t) \/ Report(r, "failed", t)
        PROVE  Cardinality(J') + Cardinality(S') <= Passes(s, g)'
    <2>1. request[r] \in Request /\ Kind(r) \in {"configure", "approve", "start"}
      BY <1>6 DEF Dispatch, DispatchRaises, AtStep, Busy, TypeOK
    <2>2. ~\E q \in Requests : MoveServer(q)
      BY <1>6 DEF MoveServer, Dispatch, DispatchRaises, TypeOK
    <2>3. S' \subseteq S
      BY <1>4, <2>2 DEF Sending
    <2>4. /\ DOMAIN jobs' = DOMAIN jobs \cup {Len(jobs) + 1}
          /\ \A i \in DOMAIN jobs : jobs'[i] = jobs[i]
          /\ jobs'[Len(jobs) + 1] = JobFor(r, t)
          /\ Len(jobs) + 1 \notin DOMAIN jobs
      BY <1>6 DEF TypeOK
    <2>5. CASE t = s /\ request[r].op.job = g.job
      <3>1. Kind(r) = "approve"
        BY <2>1, <2>5, OperationFacts, GateFacts DEF Request, Kind
      <3>2. r \in S
        BY <1>6, <2>1, <2>5, <3>1 DEF Sending, InHand, Dispatch, DispatchRaises, AtStep
      <3>3. r \notin S'
        <4>1. PICK to : request' = [request EXCEPT ![r] = to] /\ to.current = Null
          BY <1>6, <2>1 DEF Report, Request
        <4>2. request'[r].current = Null
          BY <4>1 DEF TypeOK
        <4>3. QED
          BY <4>2, Sentinels DEF Sending
      <3>4. S' \subseteq S \ {r}
        BY <2>3, <3>3
      <3>5. /\ IsFiniteSet(S \ {r}) /\ Cardinality(S \ {r}) = Cardinality(S) - 1
        BY <1>1, <3>2, FS_RemoveElement
      <3>6. Cardinality(S') <= Cardinality(S) - 1 /\ Cardinality(S') \in Nat
        BY <3>4, <3>5, FS_Subset, FS_CardinalityType
      <3>7. J' = J \cup {Len(jobs) + 1} /\ Len(jobs) + 1 \notin J
        BY <2>4, <2>5 DEF JobsOf, JobFor
      <3>8. Cardinality(J') = Cardinality(J) + 1
        BY <1>1, <3>7, FS_AddElement
      <3>9. QED
        BY <1>1, <1>2, <3>6, <3>8
    <2>6. CASE ~(t = s /\ request[r].op.job = g.job)
      <3>1. J' = J
        BY <2>4, <2>6 DEF JobsOf, JobFor
      <3>2. QED
        BY <1>3, <2>3, <3>1
    <2>7. QED
      BY <2>5, <2>6
  <1>7. CASE UNCHANGED jobs /\ ~\E r \in Requests : MoveServer(r)
    <2>1. J' = J
      BY <1>7 DEF JobsOf
    <2>2. S' \subseteq S
      BY <1>4, <1>7 DEF Sending
    <2>3. QED
      BY <1>3, <2>1, <2>2
  <1> HIDE DEF J, S
  <1>8. QED
    BY <1>5, <1>6, <1>7, JobSteps DEF J, S

-----------------------------------------------------------------------------
LEMMA Invariance == Spec => []Inv
  <1>1. Init => Inv
    <2> SUFFICES ASSUME Init PROVE Inv
      OBVIOUS
    <2>1. request = [r \in Requests |-> NoRequest] /\ jobs = <<>>
      BY DEF Init
    <2>2. \A s, job : JobsOf(s, job) = {} /\ Sending(s, job) = {}
      BY <2>1 DEF JobsOf, Sending, Busy
    <2>3. StoredFirst /\ ConfigIsOnRecord /\ SucceededIsDispatched
      BY <2>1 DEF StoredFirst, ConfigIsOnRecord, SucceededIsDispatched, Busy
    <2>4. SentOnce
      <3>1. \A t \in Servers, g \in Gates : Passes(t, g) \in {0, 1}
        BY DEF Init, Passes
      <3>2. QED
        BY <2>2, <3>1, FS_EmptySet DEF SentOnce
    <2>5. QED
      BY <2>3, <2>4, InitType DEF Inv
  <1>2. Inv /\ [Next]_vars => Inv'
    BY TypeInductive, StoredFirstKept, RecordInductive, SentOnceInductive, SucceededInductive
       DEF Inv
  <1>3. QED
    BY <1>1, <1>2, PTL DEF Spec

(* Every value stays what the tables, the messages and the answers of the  *)
(* API can hold.                                                           *)
THEOREM WavesTypeCorrect == Spec => []TypeOK
  BY Invariance, PTL DEF Inv

(* Whatever approvals of one gate run at once, of batches and of single    *)
(* servers, and whichever of them is repeated after an error or a crash of *)
(* the API: a server's job is dispatched once at most in each of its       *)
(* migrations, and only when the server has left the gate.                 *)
THEOREM OneJobPerGateHolds == Spec => []OneJobPerGate
  <1>1. Inv => OneJobPerGate
    <2> SUFFICES ASSUME Inv, NEW s \in Servers, NEW g \in Gates
                 PROVE  /\ Cardinality(JobsOf(s, g.job)) <= resets[s] + 1
                        /\ current_state[s] = g.at => Cardinality(JobsOf(s, g.job)) <= resets[s]
      BY DEF OneJobPerGate
    <2>1. /\ Cardinality(JobsOf(s, g.job)) \in Nat /\ Cardinality(Sending(s, g.job)) \in Nat
          /\ Cardinality(JobsOf(s, g.job)) + Cardinality(Sending(s, g.job)) <= Passes(s, g)
      BY CountedAreFinite DEF Inv, SentOnce
    <2>2. /\ resets[s] \in Nat /\ Place(g.at) \in Nat
          /\ Place(current_state[s]) \in Nat
      <3>1. current_state[s] \in ServerState \cup {NotRegistered} /\ resets[s] \in Nat
        BY DEF Inv, TypeOK, LedgerTypeOK
      <3>2. Place(NotRegistered) = 0
        BY DEF Place, NotRegistered
      <3>3. QED
        BY <3>1, <3>2, GatePlaces, PlaceType
    <2>3. /\ Passes(s, g) <= resets[s] + 1
          /\ current_state[s] = g.at => Passes(s, g) = resets[s]
      BY <2>2 DEF Passes
    <2>4. Passes(s, g) \in Nat
      BY <2>2 DEF Passes
    <2>5. QED
      BY <2>1, <2>2, <2>3, <2>4
  <1>2. QED
    BY <1>1, Invariance, PTL

(* A server that an answer calls succeeded has its job in the queue.       *)
THEOREM SucceededIsDispatchedHolds == Spec => []SucceededIsDispatched
  BY Invariance, PTL DEF Inv

(* The configuration with which a wave has a server configured was put on  *)
(* record in its batch, in the column of that job.                         *)
THEOREM ConfigIsOnRecordHolds == Spec => []ConfigIsOnRecord
  BY Invariance, PTL DEF Inv

(* All that the waves and the bulk endpoints do to the rows of servers is  *)
(* done by the operations of the State Manager.                            *)
THEOREM WavesRespectTheLedger == Spec => [][LedgerNext]_ledgerVars
  <1>1. TypeOK /\ [Next]_vars => [LedgerNext]_ledgerVars
    <2> SUFFICES ASSUME TypeOK, [Next]_vars
                 PROVE  LedgerNext \/ UNCHANGED ledgerVars
      OBVIOUS
    <2>1. ASSUME NEW t \in Servers, NEW to, NEW by \in Actors, AdvanceState(t, to, by)
          PROVE  LedgerNext
      BY <2>1, TransitionClimbs DEF LedgerNext, AdvanceState
    <2>2. ASSUME NEW r \in Requests, MoveServer(r) \/ RegisterNext(r)
          PROVE  LedgerNext \/ UNCHANGED ledgerVars
      <3>1. request[r].left \subseteq Servers /\ Engineers \subseteq Actors
        BY <2>2 DEF MoveServer, RegisterNext, InLoop, AtStep, Busy, TypeOK, Request, Actors
      <3>2. QED
        BY <2>1, <2>2, <3>1 DEF MoveServer, RegisterNext, LedgerNext
    <2>3. ASSUME NEW t \in Servers, Elsewhere(t)
          PROVE  LedgerNext
      BY <2>1, <2>3 DEF Elsewhere
    <2>4. ASSUME NEW t \in Servers, Reset(t)
          PROVE  LedgerNext
      BY <2>4 DEF Reset, LedgerNext
    <2>5. QED
      BY <2>2, <2>3, <2>4, Writers
  <1>2. QED
    BY <1>1, WavesTypeCorrect, PTL DEF Spec
=============================================================================
