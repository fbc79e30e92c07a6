--------------------------- MODULE StrandingProofs ---------------------------
(***************************************************************************)
(* No server is stranded: while no process is killed, no statement raises  *)
(* and no operator moves a server by hand into a state that only the       *)
(* system leaves, something in the system will still act on every server   *)
(* in such a state, however many requests are made and AWS calls raise.    *)
(***************************************************************************)
EXTENDS OrchestratorProofs

(* What remains to be done for a server in state st ends by moving it, by  *)
(* sending a message that is valid in st, or in a dead letter.             *)
Decisive(msg, await, st) ==
  \/ await[1] \in {"advance", "plan"}
  \/ await[1] \in {"poll", "reenqueue"} /\ ExpectedState(msg.job) = st
  \/ await[1] = "publish" /\ ExpectedState(await[2]) = st

Leads(msg, todo, st) ==
  /\ \A i \in DOMAIN todo : todo[i][1] = "require" => todo[i][2] = st
  /\ \E i \in DOMAIN todo : Decisive(msg, todo[i], st)

(* A request that has moved the server and has not dispatched its job.     *)
Dispatches(todo, st) ==
  /\ todo # <<>>
  /\ todo[1][1] = "publish" /\ ExpectedState(todo[1][2]) = st

MessageFor(s, st) ==
  \E q \in WorkQueues : \E i \in DOMAIN queue[q] :
    queue[q][i].server = s /\ ExpectedState(queue[q][i].job) = st

Failed(s) ==
  \E q \in FailedQueues : \E i \in DOMAIN queue[q] : queue[q][i].server = s

CarriedBy(p, s, st) ==
  /\ Busy(p) /\ Subject(p) = s
  /\ IF p \in Requests THEN Dispatches(task[p].todo, st)
                       ELSE Leads(task[p].msg, task[p].todo, st)

Carried(s, st) ==
  MessageFor(s, st) \/ Failed(s) \/ \E p \in Processes : CarriedBy(p, s, st)

(* The inductive invariant.  HasCarrier does not ask what a process is     *)
(* about to do; here its program must end in something that counts.        *)
ServedAreCarried ==
  \A s \in Servers :
    current_state[s] \in ServedStates => Carried(s, current_state[s])

(* No process is killed, no statement raises, and scripts leave the states *)
(* that only the system leaves alone.                                      *)
NothingBreaks ==
  /\ MaxCrashes = 0 /\ MaxFaults = 0
  /\ \A st \in ManualStates : ValidTransitions(st) \cap ServedStates = {}

-----------------------------------------------------------------------------
(* The programs lead somewhere from the state they are meant for.          *)
LEMMA OneStepLeads ==
  ASSUME NEW msg, NEW await, NEW st, await[1] # "require", Decisive(msg, await, st)
  PROVE  Leads(msg, <<await>>, st)
  BY DEF Leads

LEMMA TwoStepsLead ==
  ASSUME NEW msg, NEW first, NEW second, NEW st,
         first[1] = "require" => first[2] = st, second[1] # "require",
         Decisive(msg, first, st) \/ Decisive(msg, second, st)
  PROVE  Leads(msg, <<first, second>>, st)
  <1> DEFINE both == <<first, second>>
  <1>1. DOMAIN both = {1, 2} /\ both[1] = first /\ both[2] = second
    OBVIOUS
  <1> HIDE DEF both
  <1>2. Leads(msg, both, st)
    BY <1>1 DEF Leads
  <1>3. QED
    BY <1>2 DEF both

LEMMA ThreeStepsLead ==
  ASSUME NEW msg, NEW first, NEW second, NEW third, NEW st,
         "require" \notin {first[1], second[1], third[1]}, Decisive(msg, second, st)
  PROVE  Leads(msg, <<first, second, third>>, st)
  <1> DEFINE all == <<first, second, third>>
  <1>1. DOMAIN all = {1, 2, 3} /\ all[1] = first /\ all[2] = second /\ all[3] = third
    OBVIOUS
  <1> HIDE DEF all
  <1>2. Leads(msg, all, st)
    BY <1>1 DEF Leads
  <1>3. QED
    BY <1>2 DEF all

LEMMA HandlersLead ==
  ASSUME NEW msg, msg.job \in MgnJobs, VALID_STATES_FOR_JOB[msg.job] \in ServedStates
  PROVE  Leads(msg, Handler[msg.job], VALID_STATES_FOR_JOB[msg.job])
  <1> DEFINE st == VALID_STATES_FOR_JOB[msg.job]
  <1>1. /\ ExpectedState("POLL_REPLICATION_STATUS") = "REPLICATION_STARTED"
        /\ ExpectedState("POLL_TEST_INSTANCE_STATUS") = "TEST_INSTANCE_LAUNCHING"
        /\ ExpectedState("POLL_DISCONNECT_STATUS") = "DISCONNECTING"
    BY DEF ExpectedState, MgnJobs, VALID_STATES_FOR_JOB, VALID_STATES_FOR_POLL
  <1>2. /\ msg.job = "START_REPLICATION" => st = "REPLICATION_STARTED"
        /\ msg.job = "LAUNCH_TEST_INSTANCE" => st = "TEST_INSTANCE_LAUNCHING"
        /\ msg.job = "DISCONNECT_SOURCE_SERVER" => st = "DISCONNECTING"
        /\ msg.job \in { "START_REPLICATION", "LAUNCH_TEST_INSTANCE", "FINALIZE_TEST",
                         "START_CUTOVER", "FINALIZE_CUTOVER", "DISCONNECT_SOURCE_SERVER",
                         "ARCHIVE_SOURCE_SERVER" }
    BY DEF VALID_STATES_FOR_JOB, MgnJobs, ServedStates
  <1> HIDE DEF st
  <1>3. ASSUME NEW name, NEW job, ExpectedState(job) = st
        PROVE  Leads(msg, << call(name), publish(job) >>, st)
    BY <1>3, TwoStepsLead DEF call, publish, Decisive
  <1>4. ASSUME NEW name, NEW to
        PROVE  Leads(msg, << call(name), advance(to) >>, st)
    BY TwoStepsLead DEF call, advance, Decisive
  <1>5. ASSUME NEW name, NEW to, NEW job
        PROVE  Leads(msg, << call(name), advance(to), publish(job) >>, st)
    BY ThreeStepsLead DEF call, advance, publish, Decisive
  <1>6. QED
    BY <1>1, <1>2, <1>3, <1>4, <1>5, Handlers DEF st

LEMMA ProgramsLead ==
  ASSUME NEW m \in Message, NEW st
  PROVE  /\ m.job \in MgnJobs /\ st \in ServedStates /\ ExpectedState(m.job) = st =>
              Leads(m, MgnProgram(m), st)
         /\ m.job \in PollJobs /\ ExpectedState(m.job) = st => Leads(m, PollProgram(m), st)
         /\ m.job \in PollJobs => Leads(m, OnComplete(m), st)
         /\ ExpectedState(m.job) = st => Leads(m, << <<"reenqueue">> >>, st)
         /\ Leads(m, RollbackProgram, st)
         /\ \A to : Leads(m, << advance(to) >>, st)
  <1>1. ASSUME m.job \in MgnJobs, st \in ServedStates, ExpectedState(m.job) = st
        PROVE  Leads(m, MgnProgram(m), st)
    <2> DEFINE first == <<"require", st>>
               rest  == Handler[m.job]
               all   == <<first>> \o rest
    <2>1. VALID_STATES_FOR_JOB[m.job] = st /\ MgnProgram(m) = all
      BY <1>1 DEF ExpectedState, MgnProgram
    <2>2. Leads(m, rest, st)
      BY <1>1, <2>1, HandlersLead
    <2>3. rest \in Seq(AwaitStep)
      BY <1>1, HandlerShapes DEF Shaped
    <2>4. first \in AwaitStep /\ first[1] = "require" /\ first[2] = st
      BY <1>1 DEF AwaitStep, ServedStates, ServerState
    <2> HIDE DEF first, rest
    <2>5. /\ all[1] = first
          /\ \A i \in DOMAIN rest : i + 1 \in DOMAIN all /\ all[i+1] = rest[i]
          /\ \A i \in DOMAIN all : i = 1 \/ i - 1 \in DOMAIN rest
          /\ DOMAIN all \subseteq Nat
      BY <2>3, <2>4, Prefixed
    <2>6. ASSUME NEW i \in DOMAIN all, all[i][1] = "require"
          PROVE  all[i][2] = st
      <3>1. CASE i = 1
        BY <2>4, <2>5, <3>1
      <3>2. CASE i - 1 \in DOMAIN rest
        <4>1. (i - 1) + 1 = i
          BY <2>5
        <4>2. all[i] = rest[i-1]
          BY <2>5, <3>2, <4>1
        <4>3. QED
          BY <2>2, <2>6, <3>2, <4>2 DEF Leads
      <3>3. QED
        BY <2>5, <3>1, <3>2
    <2>7. \E i \in DOMAIN all : Decisive(m, all[i], st)
      BY <2>2, <2>5 DEF Leads
    <2>8. QED
      BY <2>1, <2>6, <2>7 DEF Leads
  <1>2. ASSUME m.job \in PollJobs, ExpectedState(m.job) = st
        PROVE  Leads(m, PollProgram(m), st)
    <2>1. VALID_STATES_FOR_POLL[m.job] = st
      BY <1>2, Names DEF ExpectedState
    <2>2. QED
      BY <1>2, <2>1, TwoStepsLead DEF PollProgram, Decisive
  <1>3. ASSUME NEW to
        PROVE  Leads(m, << advance(to) >>, st)
    BY OneStepLeads DEF advance, Decisive
  <1>4. ASSUME NEW to
        PROVE  Leads(m, << advance(to), <<"publish", m.job, 2>> >>, st)
    BY TwoStepsLead DEF advance, Decisive
  <1>5. Leads(m, << advance("DISCONNECTED"), advance("AWAITING_ARCHIVE_APPROVAL") >>, st)
    BY TwoStepsLead DEF advance, Decisive
  <1>6. m.job \in PollJobs => Leads(m, OnComplete(m), st)
    BY <1>3, <1>4, <1>5 DEF OnComplete, InstanceHandler, PollJobs, VALID_STATES_FOR_POLL
  <1>7. ExpectedState(m.job) = st => Leads(m, << <<"reenqueue">> >>, st)
    BY OneStepLeads DEF Decisive
  <1>8. Leads(m, RollbackProgram, st)
    BY OneStepLeads DEF Decisive, RollbackProgram
  <1>9. QED
    BY <1>1, <1>2, <1>3, <1>6, <1>7, <1>8

LEMMA PlanLeads ==
  ASSUME NEW msg, NEW st \in ServedStates, NEW id
  PROVE  Leads(msg, PlanProgram(st, id), st)
  <1> DEFINE todo == PlanProgram(st, id)
  <1>1. st \notin TerminalStates
    BY DEF ServedStates, TerminalStates
  <1>2. /\ todo \in Seq(AwaitStep) /\ todo # <<>>
        /\ \A i \in DOMAIN todo :
             \/ todo[i][1] = "undo" /\ i < Len(todo)
             \/ todo[i] = advance(IntendedFinalState(st)) /\ i = Len(todo)
    BY <1>1, PlanShape
  <1> HIDE DEF todo
  <1>3. Len(todo) \in DOMAIN todo /\ Len(todo) \in Nat
    BY <1>2
  <1>4. todo[Len(todo)] = advance(IntendedFinalState(st))
    BY <1>2, <1>3
  <1>5. Decisive(msg, todo[Len(todo)], st)
    BY <1>4 DEF Decisive, advance
  <1>6. \A i \in DOMAIN todo : todo[i][1] # "require"
    BY <1>2 DEF advance
  <1>7. QED
    BY <1>3, <1>5, <1>6 DEF Leads, todo

(* A step that is not decisive leaves the decisive one to come.            *)
LEMMA LeadsOn ==
  ASSUME NEW msg, NEW todo \in Seq(AwaitStep), NEW st, Leads(msg, todo, st),
         ~Decisive(msg, todo[1], st)
  PROVE  Leads(msg, Tail(todo), st)
  <1> DEFINE rest == Tail(todo)
  <1>1. PICK i \in DOMAIN todo : Decisive(msg, todo[i], st)
    BY DEF Leads
  <1>2. i # 1
    BY <1>1
  <1>3. i - 1 \in DOMAIN rest /\ rest[i-1] = todo[i]
    BY <1>2
  <1>4. \A j \in DOMAIN rest : j + 1 \in DOMAIN todo /\ rest[j] = todo[j+1]
    BY <1>2
  <1> HIDE DEF rest
  <1>5. QED
    BY <1>1, <1>3, <1>4 DEF Leads, rest

(* A last step is the decisive one.                                        *)
LEMMA LeadsAtLast ==
  ASSUME NEW p, NEW msg, NEW todo \in Seq(AwaitStep), NEW st, Leads(msg, todo, st),
         Shape(p, msg, todo), todo[1][1] \in {"publish", "reenqueue", "poll", "plan"}
  PROVE  Decisive(msg, todo[1], st)
  <1>1. PICK i \in DOMAIN todo : Decisive(msg, todo[i], st)
    BY DEF Leads
  <1>2. 1 \in DOMAIN todo /\ i \in 1..Len(todo)
    BY <1>1
  <1>3. 1 = Len(todo)
    BY <1>2 DEF Shape, StepShape
  <1>4. i = 1
    BY <1>2, <1>3
  <1>5. QED
    BY <1>1, <1>4

-----------------------------------------------------------------------------
(* What one step does to the carriers of a server.                         *)
QueuesGrow ==
  \A q \in WorkQueues \cup FailedQueues : \A i \in DOMAIN queue[q] :
    i \in DOMAIN queue'[q] /\ queue'[q][i] = queue[q][i]

LEMMA Sending ==
  ASSUME Core, NEW m \in Message, NEW s, NEW st, m.server = s, ExpectedState(m.job) = st
  PROVE  /\ PublishMessage(m) => QueuesGrow /\ MessageFor(s, st)'
         /\ DeadLetter(m) => QueuesGrow /\ Failed(s)'
         /\ UNCHANGED queue => QueuesGrow
  <1> USE Names
  <1>1. ASSUME NEW q \in WorkQueues \cup FailedQueues, queue' = [queue EXCEPT ![q] = Append(@, m)]
        PROVE  QueuesGrow /\ \E i \in DOMAIN queue'[q] : queue'[q][i] = m
    <2>1. queue[q] \in Seq(Message) /\ queue'[q] = Append(queue[q], m)
      BY <1>1 DEF Core, BrokerTypeOK
    <2>2. Len(queue[q]) + 1 \in DOMAIN queue'[q] /\ queue'[q][Len(queue[q]) + 1] = m
      BY <2>1
    <2>3. \A i \in DOMAIN queue[q] : i \in DOMAIN queue'[q] /\ queue'[q][i] = queue[q][i]
      BY <2>1
    <2>4. \A k \in (WorkQueues \cup FailedQueues) \ {q} : queue'[k] = queue[k]
      BY <1>1 DEF Core, BrokerTypeOK
    <2>5. QED
      BY <2>2, <2>3, <2>4 DEF QueuesGrow
  <1>2. ASSUME PublishMessage(m)
        PROVE  QueuesGrow /\ MessageFor(s, st)'
    <2> DEFINE q == QUEUE_ROUTING[m.job]
    <2>1. q \in WorkQueues /\ queue' = [queue EXCEPT ![q] = Append(@, m)]
      BY <1>2 DEF PublishMessage, Message, JobType
    <2> HIDE DEF q
    <2>2. QueuesGrow /\ \E i \in DOMAIN queue'[q] : queue'[q][i] = m
      BY <1>1, <2>1
    <2>3. QED
      BY <2>1, <2>2 DEF MessageFor, ExpectedState
  <1>3. ASSUME DeadLetter(m)
        PROVE  QueuesGrow /\ Failed(s)'
    <2> DEFINE q == IF m.job \in MgnJobs THEN "mgn_jobs.failed" ELSE "poll_jobs.failed"
    <2>1. q \in FailedQueues /\ queue' = [queue EXCEPT ![q] = Append(@, m)]
      BY <1>3 DEF DeadLetter
    <2> HIDE DEF q
    <2>2. QED
      BY <1>1, <2>1 DEF Failed
  <1>4. UNCHANGED queue => QueuesGrow
    BY DEF QueuesGrow
  <1>5. QED
    BY <1>2, <1>3, <1>4

(* A carrier other than the process that acts goes on to be one.           *)
LEMMA OtherCarriers ==
  ASSUME Core, NEW w \in Processes, NEW s, NEW st, QueuesGrow, OthersStay(w), Carried(s, st),
         CarriedBy(w, s, st) => Carried(s, st)'
  PROVE  Carried(s, st)'
  <1>1. MessageFor(s, st) => MessageFor(s, st)'
    BY DEF MessageFor, QueuesGrow
  <1>2. Failed(s) => Failed(s)'
    BY DEF Failed, QueuesGrow
  <1>3. ASSUME NEW p \in Processes \ {w}, CarriedBy(p, s, st)
        PROVE  CarriedBy(p, s, st)'
    BY <1>3 DEF OthersStay, CarriedBy, Busy, Subject
  <1>4. QED
    BY <1>1, <1>2, <1>3 DEF Carried

LEMMA CarryingOn ==
  ASSUME Core, NEW w \in Processes \ Requests, NEW s, NEW st, NEW t \in Task,
         task' = [task EXCEPT ![w] = t], t.msg.server = s, Leads(t.msg, t.todo, st)
  PROVE  OthersStay(w) /\ Carried(s, st)'
  <1>1. task'[w] = t /\ t # NoTask
    BY ProcessesAssumption DEF Core, TasksTypeOK
  <1>2. CarriedBy(w, s, st)'
    BY <1>1 DEF CarriedBy, Busy, Subject
  <1>3. QED
    BY <1>2 DEF OthersStay, Carried, Core, TasksTypeOK

(* A program replaced by one that leads as well.                           *)
LEMMA ContinuingTo ==
  ASSUME Core, NEW w \in Processes \ Requests, Busy(w), NEW s, NEW st,
         NEW steps \in Seq(AwaitStep), ContinueWith(w, steps), Subject(w) = s,
         Leads(task[w].msg, steps, st)
  PROVE  OthersStay(w) /\ Carried(s, st)'
  <1> DEFINE t == [task[w] EXCEPT !.todo = steps]
  <1>1. task' = [task EXCEPT ![w] = t]
    BY DEF ContinueWith
  <1>2. task[w] \in Task
    BY DEF Busy, Core, TasksTypeOK
  <1>3. t \in Task /\ t.msg = task[w].msg /\ t.todo = steps
    BY <1>2 DEF Task
  <1> HIDE DEF t
  <1>4. QED
    BY <1>1, <1>3, CarryingOn DEF Subject

(* A program of which one step that is not decisive was performed.         *)
LEMMA Proceeding ==
  ASSUME Core, NEW w \in Processes \ Requests, NEW kind, Doing(w, kind), NEW s, NEW st,
         kind \in {"require", "call", "undo", "store_aws_id"}, Proceed(w), CarriedBy(w, s, st)
  PROVE  Carried(s, st)'
  <1>1. /\ task[w].todo \in Seq(AwaitStep) /\ Leads(task[w].msg, task[w].todo, st)
        /\ task[w].todo[1][1] = kind /\ Subject(w) = s /\ Busy(w) /\ task[w].todo # <<>>
    BY Awaiting DEF CarriedBy
  <1>2. Leads(task[w].msg, Tail(task[w].todo), st)
    BY <1>1, LeadsOn DEF Decisive
  <1>3. Tail(task[w].todo) \in Seq(AwaitStep)
    BY <1>1
  <1>4. QED
    BY <1>1, <1>2, <1>3, ContinuingTo DEF Proceed

(* A message that is delivered makes its consumer the carrier.             *)
LEMMA DeliveryCarries ==
  ASSUME Core, NEW w, NEW steps \in Seq(AwaitStep), Deliver(w, steps),
         NEW s, NEW st, Carried(s, st),
         \/ SourceQueue(w) \in WorkQueues /\ ExpectedState(NextMessage(w).job) # st
         \/ Leads(NextMessage(w), steps, st)
  PROVE  Carried(s, st)'
  <1> DEFINE t == [msg |-> NextMessage(w), todo |-> steps]
             k == SourceQueue(w)
  <1>1. /\ w \in Processes \ Requests /\ ~Busy(w) /\ k \in WorkQueues \cup FailedQueues
        /\ task' = [task EXCEPT ![w] = t]
    BY Names, ProcessesAssumption DEF Deliver, Start, Processes, Consumers, SourceQueue
  <1>2. /\ queue[k] \in Seq(Message) /\ queue[k] # <<>> /\ queue'[k] = Tail(queue[k])
        /\ \A q \in (WorkQueues \cup FailedQueues) \ {k} : queue'[q] = queue[q]
    BY <1>1 DEF Deliver, Take, Core, BrokerTypeOK
  <1>3. NextMessage(w) = queue[k][1] /\ queue[k][1] \in Message
    BY <1>2 DEF NextMessage
  <1>4. t \in Task /\ t.msg = queue[k][1] /\ t.todo = steps
    BY <1>3 DEF Task
  <1> HIDE DEF t, k
  <1>5. ASSUME queue[k][1].server = s, Leads(NextMessage(w), steps, st)
        PROVE  Carried(s, st)'
    BY <1>1, <1>3, <1>4, <1>5, CarryingOn
  <1>6. ASSUME NEW q \in WorkQueues \cup FailedQueues, NEW i \in DOMAIN queue[q], q # k \/ i # 1
        PROVE  \E j \in DOMAIN queue'[q] : queue'[q][j] = queue[q][i]
    <2>1. CASE q # k
      BY <1>2, <2>1
    <2>2. CASE q = k
      <3>1. ASSUME NEW all \in Seq(Message), NEW j \in DOMAIN all, j # 1
            PROVE  j - 1 \in DOMAIN Tail(all) /\ Tail(all)[j-1] = all[j]
        BY <3>1
      <3>2. i - 1 \in DOMAIN queue'[q] /\ queue'[q][i-1] = queue[q][i]
        BY <1>2, <1>6, <2>2, <3>1
      <3>3. QED
        BY <3>2
    <2>3. QED
      BY <2>1, <2>2
  <1>7. CASE MessageFor(s, st)
    <2>1. PICK q \in WorkQueues : \E i \in DOMAIN queue[q] :
            queue[q][i].server = s /\ ExpectedState(queue[q][i].job) = st
      BY <1>7 DEF MessageFor
    <2> PICK i \in DOMAIN queue[q] :
          queue[q][i].server = s /\ ExpectedState(queue[q][i].job) = st
      BY <2>1
    <2>2. CASE q # k \/ i # 1
      <3>1. PICK j \in DOMAIN queue'[q] : queue'[q][j] = queue[q][i]
        BY <1>6, <2>2
      <3>2. MessageFor(s, st)'
        BY <2>1, <3>1 DEF MessageFor, ExpectedState
      <3>3. QED
        BY <3>2 DEF Carried
    <2>3. CASE q = k /\ i = 1
      BY <1>3, <1>5, <2>1, <2>3, Names DEF k
    <2>4. QED
      BY <2>2, <2>3
  <1>8. CASE Failed(s)
    <2>1. PICK q \in FailedQueues : \E i \in DOMAIN queue[q] : queue[q][i].server = s
      BY <1>8 DEF Failed
    <2> PICK i \in DOMAIN queue[q] : queue[q][i].server = s
      BY <2>1
    <2>2. CASE q # k \/ i # 1
      <3>1. PICK j \in DOMAIN queue'[q] : queue'[q][j] = queue[q][i]
        BY <1>6, <2>2
      <3>2. Failed(s)'
        BY <2>1, <3>1 DEF Failed
      <3>3. QED
        BY <3>2 DEF Carried
    <2>3. CASE q = k /\ i = 1
      BY <1>3, <1>5, <2>1, <2>3, Names DEF k
    <2>4. QED
      BY <2>2, <2>3
  <1>9. ASSUME NEW p \in Processes, CarriedBy(p, s, st)
        PROVE  Carried(s, st)'
    <2>1. p # w /\ task'[p] = task[p]
      BY <1>1, <1>9 DEF CarriedBy, Core, TasksTypeOK
    <2>2. CarriedBy(p, s, st)'
      BY <1>9, <2>1 DEF CarriedBy, Busy, Subject
    <2>3. QED
      BY <2>2 DEF Carried
  <1>10. QED
    BY <1>7, <1>8, <1>9 DEF Carried

(* What workers have in common.                                            *)
LEMMA SharedCarry ==
  ASSUME Core, NEW w \in Processes \ (Requests \cup Orphans), NEW s, NEW st,
         Carried(s, st), current_state[s] = st
  PROVE  /\ CheckState(w) \/ Publish(w) \/ Finish(w) => Carried(s, st)'
         /\ Busy(w) /\ Nack(w) => Carried(s, st)'
  <1>1. ASSUME CheckState(w)
        PROVE  Carried(s, st)'
    <2>1. Doing(w, "require") /\ QueuesGrow /\ OthersStay(w)
      BY <1>1 DEF CheckState, QueuesGrow, OthersStay, Proceed, ContinueWith, Core, TasksTypeOK
    <2>2. ASSUME CarriedBy(w, s, st)
          PROVE  Carried(s, st)'
      <3>1. Operand(w) = st /\ Subject(w) = s
        <4>1. task[w].todo[1][1] = "require" /\ Operand(w) = task[w].todo[1][2] /\ 1 \in DOMAIN task[w].todo
          BY <2>1, Awaiting
        <4>2. QED
          BY <2>2, <4>1 DEF CarriedBy, Leads
      <3>2. Proceed(w)
        BY <1>1, <3>1 DEF CheckState
      <3>3. QED
        BY <2>1, <2>2, <3>2, Proceeding
    <2>3. QED
      BY <2>1, <2>2, OtherCarriers
  <1>2. ASSUME Publish(w)
        PROVE  Carried(s, st)'
    <2> DEFINE m == [NewMessage(Operand(w), task[w].msg.server, task[w].msg.aws)
                       EXCEPT !.phase = Head(task[w].todo)[3]]
    <2>1. m \in Message /\ m.server = Subject(w) /\ m.job = Operand(w)
      BY <1>2, Awaiting, AttemptsAssumption DEF Publish, NewMessage, Message, Subject
    <2>2. PublishMessage(m)
      BY <1>2 DEF Publish
    <2> HIDE DEF m
    <2>3. OthersStay(w) /\ Doing(w, "publish")
      BY <1>2 DEF Publish, OthersStay, Proceed, ContinueWith, Core, TasksTypeOK
    <2>4. QueuesGrow
      BY <2>1, <2>2, Sending
    <2>5. ASSUME CarriedBy(w, s, st)
          PROVE  Carried(s, st)'
      <3>1. /\ task[w].todo[1][1] = "publish" /\ Operand(w) = task[w].todo[1][2]
            /\ task[w].todo \in Seq(AwaitStep) /\ Shape(w, task[w].msg, task[w].todo)
        BY <2>3, Awaiting
      <3>2. ExpectedState(Operand(w)) = st /\ Subject(w) = s
        BY <2>5, <3>1, LeadsAtLast DEF CarriedBy, Decisive
      <3>3. QED
        BY <2>1, <2>2, <3>2, Sending DEF Carried
    <2>6. QED
      BY <2>3, <2>4, <2>5, OtherCarriers
  <1>3. ASSUME Finish(w)
        PROVE  Carried(s, st)'
    <2>1. QueuesGrow /\ OthersStay(w)
      BY <1>3 DEF Finish, Leave, QueuesGrow, OthersStay, Core, TasksTypeOK
    <2>2. ~CarriedBy(w, s, st)
      BY <1>3 DEF Finish, CarriedBy, Leads
    <2>3. QED
      BY <2>1, <2>2, OtherCarriers
  <1>4. ASSUME Busy(w), Nack(w)
        PROVE  Carried(s, st)'
    <2>1. task[w].msg \in Message /\ DeadLetter(task[w].msg) /\ OthersStay(w)
      BY <1>4 DEF Nack, Leave, OthersStay, Busy, Core, TasksTypeOK, Task
    <2>2. QueuesGrow
      BY <2>1, Sending
    <2>3. CarriedBy(w, s, st) => Carried(s, st)'
      BY <2>1, Sending DEF CarriedBy, Subject, Carried
    <2>4. QED
      BY <2>1, <2>2, <2>3, OtherCarriers
  <1>5. QED
    BY <1>1, <1>2, <1>3, <1>4

LEMMA MgnCarry ==
  ASSUME Core, NEW w \in MgnWorkers, MgnWorkerStep(w), ~Advance(w, "system"),
         NEW s, NEW st \in ServedStates, Carried(s, st), current_state[s] = st
  PROVE  Carried(s, st)'
  <1>1. w \in Processes \ (Requests \cup Orphans) /\ SourceQueue(w) \in WorkQueues
    BY ProcessesAssumption, Names DEF Processes, Consumers, SourceQueue
  <1>2. CASE ReceiveJob(w)
    <2>1. Deliver(w, MgnProgram(NextMessage(w)))
      BY <1>2 DEF ReceiveJob
    <2>2. NextMessage(w) \in Message /\ NextMessage(w).job \in MgnJobs
      BY <2>1, NextIsRouted
    <2>3. /\ MgnProgram(NextMessage(w)) \in Seq(AwaitStep)
          /\ \/ ExpectedState(NextMessage(w).job) # st
             \/ Leads(NextMessage(w), MgnProgram(NextMessage(w)), st)
      BY <2>2, MgnProgramShape, ProgramsLead DEF Shaped
    <2>4. QED
      BY <1>1, <2>1, <2>3, DeliveryCarries
  <1>3. ASSUME Call(w) \/ StoreAwsId(w)
        PROVE  Carried(s, st)'
    <2>1. QueuesGrow /\ OthersStay(w)
      BY <1>3 DEF Call, StoreAwsId, QueuesGrow, OthersStay, Proceed, ContinueWith, Core, TasksTypeOK
    <2>2. CarriedBy(w, s, st) => Carried(s, st)'
      BY <1>1, <1>3, Proceeding DEF Call, StoreAwsId
    <2>3. QED
      BY <1>1, <2>1, <2>2, OtherCarriers
  <1>4. CASE JobFails(w)
    <2>1. Busy(w) /\ Nack(w)
      BY <1>4 DEF JobFails, AdvanceRaises, Doing
    <2>2. QED
      BY <1>1, <2>1, SharedCarry
  <1>5. QED
    BY <1>1, <1>2, <1>3, <1>4, SharedCarry DEF MgnWorkerStep

LEMMA PollerCarry ==
  ASSUME Core, NEW w \in PollerWorkers, PollerStep(w), ~Advance(w, "system"),
         NEW s, NEW st \in ServedStates, Carried(s, st), current_state[s] = st
  PROVE  Carried(s, st)'
  <1>1. w \in Processes \ (Requests \cup Orphans) /\ SourceQueue(w) \in WorkQueues
    BY ProcessesAssumption, Names DEF Processes, Consumers, SourceQueue
  <1>2. CASE ReceivePoll(w)
    <2>1. Deliver(w, PollProgram(NextMessage(w)))
      BY <1>2 DEF ReceivePoll
    <2>2. NextMessage(w) \in Message /\ NextMessage(w).job \in PollJobs
      BY <2>1, NextIsRouted
    <2>3. /\ PollProgram(NextMessage(w)) \in Seq(AwaitStep)
          /\ \/ ExpectedState(NextMessage(w).job) # st
             \/ Leads(NextMessage(w), PollProgram(NextMessage(w)), st)
      BY <2>2, PollerShapes, ProgramsLead DEF Shaped
    <2>4. QED
      BY <1>1, <2>1, <2>3, DeliveryCarries
  <1>3. ASSUME Doing(w, "poll") \/ Doing(w, "reenqueue"), CarriedBy(w, s, st)
        PROVE  /\ Busy(w) /\ Subject(w) = s /\ task[w].msg \in Message
               /\ task[w].msg.job \in PollJobs /\ ExpectedState(task[w].msg.job) = st
               /\ Doing(w, "reenqueue") => task[w].msg.attempt < MaxPollAttempts
    <2>1. /\ task[w].todo[1][1] \in {"poll", "reenqueue"} /\ task[w].todo \in Seq(AwaitStep)
          /\ 1 \in DOMAIN task[w].todo
          /\ Shape(w, task[w].msg, task[w].todo) /\ task[w].msg \in Message
          /\ Doing(w, "reenqueue") => task[w].todo[1][1] = "reenqueue"
      BY <1>1, <1>3, Awaiting
    <2>2. Decisive(task[w].msg, task[w].todo[1], st)
      BY <1>1, <1>3, <2>1, LeadsAtLast DEF CarriedBy
    <2>3. QED
      BY <1>3, <2>1, <2>2 DEF CarriedBy, Decisive, Shape, StepShape
  <1>4. CASE PollCompletes(w) \/ PollAgain(w)
    <2>1. QueuesGrow /\ OthersStay(w)
      BY <1>4 DEF PollCompletes, PollAgain, QueuesGrow, OthersStay, ContinueWith, Core, TasksTypeOK
    <2>2. ASSUME CarriedBy(w, s, st)
          PROVE  Carried(s, st)'
      <3> DEFINE m == task[w].msg
      <3>1. /\ Busy(w) /\ Subject(w) = s /\ m \in Message /\ m.job \in PollJobs
            /\ ExpectedState(m.job) = st
        BY <1>3, <1>4, <2>2 DEF PollCompletes, PollAgain
      <3>2. PICK steps : /\ ContinueWith(w, steps)
                         /\ \/ steps = OnComplete(m)
                            \/ steps = << <<"reenqueue">> >> /\ m.attempt < MaxPollAttempts
        BY <1>4 DEF PollCompletes, PollAgain
      <3>3. steps \in Seq(AwaitStep) /\ Leads(m, steps, st)
        BY <3>1, <3>2, PollerShapes, ProgramsLead DEF Shaped
      <3>4. QED
        BY <1>1, <3>1, <3>2, <3>3, ContinuingTo
    <2>3. QED
      BY <1>1, <2>1, <2>2, OtherCarriers
  <1>5. CASE Reenqueue(w)
    <2> DEFINE m == [task[w].msg EXCEPT !.attempt = @ + 1]
    <2>1. OthersStay(w) /\ Doing(w, "reenqueue") /\ PublishMessage(m)
      BY <1>5 DEF Reenqueue, OthersStay, Proceed, ContinueWith, Core, TasksTypeOK
    <2>2. task[w].msg \in Message /\ task[w].msg.attempt < MaxPollAttempts
      <3>1. /\ task[w].todo[1][1] = "reenqueue" /\ 1 \in DOMAIN task[w].todo
            /\ Shape(w, task[w].msg, task[w].todo) /\ task[w].msg \in Message
        BY <1>1, <2>1, Awaiting
      <3>2. QED
        BY <3>1 DEF Shape, StepShape
    <2>3. m \in Message /\ m.server = task[w].msg.server /\ m.job = task[w].msg.job
      BY <2>2, AttemptsAssumption DEF Message
    <2> HIDE DEF m
    <2>4. QueuesGrow
      BY <2>1, <2>3, Sending
    <2>5. CarriedBy(w, s, st) => Carried(s, st)'
      BY <1>3, <2>1, <2>3, Sending DEF Subject, Carried
    <2>6. QED
      BY <1>1, <2>1, <2>4, <2>5, OtherCarriers
  <1>6. CASE PollFails(w)
    <2>1. Busy(w) /\ Nack(w)
      BY <1>6 DEF PollFails, AdvanceRaises, Doing
    <2>2. QED
      BY <1>1, <2>1, SharedCarry
  <1>7. QED
    BY <1>1, <1>2, <1>4, <1>5, <1>6, SharedCarry DEF PollerStep

LEMMA RollbackCarry ==
  ASSUME Core, NEW w \in FailedQueues, RollbackStep(w), ~Advance(w, "system"),
         NEW s, NEW st \in ServedStates, Carried(s, st), current_state[s] = st
  PROVE  Carried(s, st)'
  <1>1. w \in Processes \ (Requests \cup Orphans)
    BY ProcessesAssumption DEF Processes, Consumers
  <1>2. CASE ReceiveFailure(w)
    <2>1. Deliver(w, RollbackProgram)
      BY <1>2 DEF ReceiveFailure
    <2>2. RollbackProgram \in Seq(AwaitStep) /\ Leads(NextMessage(w), RollbackProgram, st)
      BY <2>1, NextIsRouted, ProgramsLead DEF RollbackProgram, AwaitStep
    <2>3. QED
      BY <2>1, <2>2, DeliveryCarries
  <1>3. CASE Plan(w)
    <2> DEFINE todo == PlanProgram(current_state[Subject(w)], aws_source_server_id[Subject(w)])
               t == [task[w] EXCEPT !.msg.aws = aws_source_server_id[Subject(w)], !.todo = todo]
    <2>1. QueuesGrow /\ OthersStay(w) /\ task' = [task EXCEPT ![w] = t]
      BY <1>3 DEF Plan, QueuesGrow, OthersStay, Core, TasksTypeOK
    <2>2. ASSUME CarriedBy(w, s, st)
          PROVE  Carried(s, st)'
      <3>1. task[w] \in Task /\ Subject(w) = s /\ s \in Servers
        BY <1>1, <1>3, <2>2, Awaiting DEF Plan, CarriedBy
      <3>2. todo \in Seq(AwaitStep)
        BY PlanShape
      <3>3. t \in Task /\ t.todo = todo /\ t.msg.server = s
        BY <3>1, <3>2 DEF Task, Message, Core, LedgerTypeOK, Subject
      <3>4. todo = PlanProgram(st, aws_source_server_id[s])
        BY <3>1
      <3> HIDE DEF t, todo
      <3>5. Leads(t.msg, t.todo, st)
        BY <3>3, <3>4, PlanLeads
      <3>6. QED
        BY <1>1, <2>1, <3>3, <3>5, CarryingOn
    <2> HIDE DEF t, todo
    <2>3. QED
      BY <1>1, <2>1, <2>2, OtherCarriers
  <1>4. CASE Undo(w)
    <2> DEFINE last == << advance("FROZEN") >>
    <2>1. QueuesGrow /\ OthersStay(w) /\ Doing(w, "undo")
      BY <1>4 DEF Undo, QueuesGrow, OthersStay, Proceed, ContinueWith, Core, TasksTypeOK
    <2>2. ASSUME CarriedBy(w, s, st)
          PROVE  Carried(s, st)'
      <3>1. last \in Seq(AwaitStep) /\ Leads(task[w].msg, last, st) /\ Busy(w) /\ Subject(w) = s
        <4>1. task[w].msg \in Message
          BY <1>1, <2>1, Awaiting
        <4>2. QED
          BY <2>2, <4>1, ProgramsLead DEF advance, AwaitStep, ServerState, CarriedBy
      <3>2. Proceed(w) \/ ContinueWith(w, last)
        BY <1>4 DEF Undo
      <3> HIDE DEF last
      <3>3. Proceed(w) => Carried(s, st)'
        BY <1>1, <2>1, <2>2, Proceeding
      <3>4. ContinueWith(w, last) => Carried(s, st)'
        BY <1>1, <3>1, ContinuingTo
      <3>5. QED
        BY <3>2, <3>3, <3>4
    <2>3. QED
      BY <1>1, <2>1, <2>2, OtherCarriers
  <1>5. CASE RollbackFails(w)
    <2>1. QueuesGrow /\ OthersStay(w)
      BY <1>5 DEF RollbackFails, QueuesGrow, OthersStay, Leave, Core, TasksTypeOK
    <2>2. ~CarriedBy(w, s, st)
      <3>1. SUFFICES ASSUME CarriedBy(w, s, st)
                     PROVE  FALSE
        OBVIOUS
      <3>2. /\ task[w].todo[1][1] = "advance" /\ 1 \in DOMAIN task[w].todo
            /\ Operand(w) = task[w].todo[1][2] /\ Shape(w, task[w].msg, task[w].todo)
        BY <1>1, <1>5, Awaiting DEF RollbackFails, AdvanceRaises
      <3>3. Operand(w) \in ErrorStates
        BY <3>2 DEF Shape, RollbackShape
      <3>4. st \in ServerState /\ st \notin CompletedStates \cup ErrorStates
        BY DEF ServedStates, ServerState, CompletedStates, ErrorStates
      <3>5. QED
        BY <1>5, <3>1, <3>3, <3>4, FailureIsValid DEF RollbackFails, AdvanceRaises, CarriedBy
    <2>3. QED
      BY <1>1, <2>1, <2>2, OtherCarriers
  <1>6. QED
    BY <1>1, <1>2, <1>3, <1>4, <1>5, SharedCarry DEF RollbackStep

(* Requests carry a server only between their two writes.                  *)
LEMMA RequestCarry ==
  ASSUME Core, NEW r \in Requests, RequestStep(r), \A by \in Engineers : ~Advance(r, by),
         NEW s, NEW st \in ServedStates, Carried(s, st), current_state[s] = st
  PROVE  Carried(s, st)'
  <1>1. r \in Processes
    BY DEF Processes
  <1>2. CarriedBy(r, s, st) => task[r].todo # <<>> /\ Doing(r, "publish")
    <2>1. SUFFICES ASSUME CarriedBy(r, s, st)
                   PROVE  task[r].todo # <<>> /\ Doing(r, "publish")
      OBVIOUS
    <2>2. task[r] \in Task /\ task[r].todo # <<>> /\ task[r].todo[1][1] = "publish"
      BY <1>1, <2>1 DEF CarriedBy, Dispatches, Busy, Core, TasksTypeOK
    <2>3. Head(task[r].todo) = task[r].todo[1]
      BY <2>2 DEF Task
    <2>4. QED
      BY <2>1, <2>2, <2>3 DEF CarriedBy, Doing
  <1>3. CASE RequireState(r) \/ RequestFails(r) \/ Finish(r)
    <2>1. QueuesGrow /\ OthersStay(r)
      BY <1>3 DEF RequireState, RequestFails, Finish, Leave, QueuesGrow, OthersStay, Core,
                  TasksTypeOK
    <2>2. ~CarriedBy(r, s, st)
      BY <1>2, <1>3 DEF RequireState, RequestFails, Finish, AdvanceRaises, Doing
    <2>3. QED
      BY <1>1, <2>1, <2>2, OtherCarriers
  <1>4. CASE Publish(r)
    <2> DEFINE m == [NewMessage(Operand(r), task[r].msg.server, task[r].msg.aws)
                       EXCEPT !.phase = Head(task[r].todo)[3]]
    <2>1. m \in Message /\ m.server = Subject(r) /\ m.job = Operand(r)
      BY <1>1, <1>4, Awaiting, AttemptsAssumption DEF Publish, NewMessage, Message, Subject
    <2>2. PublishMessage(m)
      BY <1>4 DEF Publish
    <2> HIDE DEF m
    <2>3. OthersStay(r) /\ Doing(r, "publish")
      BY <1>4 DEF Publish, OthersStay, Proceed, ContinueWith, Core, TasksTypeOK
    <2>4. QueuesGrow
      BY <2>1, <2>2, Sending
    <2>5. ASSUME CarriedBy(r, s, st)
          PROVE  Carried(s, st)'
      <3>1. Operand(r) = task[r].todo[1][2]
        BY <1>1, <2>3, Awaiting
      <3>2. ExpectedState(Operand(r)) = st /\ Subject(r) = s
        BY <2>5, <3>1 DEF CarriedBy, Dispatches
      <3>3. QED
        BY <2>1, <2>2, <3>2, Sending DEF Carried
    <2>6. QED
      BY <1>1, <2>3, <2>4, <2>5, OtherCarriers
  <1>5. QED
    BY <1>3, <1>4 DEF RequestStep

(* Whoever moves a server into a served state carries it from there.       *)
LEMMA AdvanceCarries ==
  ASSUME Core, NEW p \in Processes, NEW by, Advance(p, by),
         NEW s \in Servers, current_state'[s] \in ServedStates,
         current_state[s] \in ServedStates => Carried(s, current_state[s])
  PROVE  Carried(s, current_state[s])'
  <1> DEFINE msg == task[p].msg
             todo == task[p].todo
             to == Operand(p)
  <1>1. /\ todo \in Seq(AwaitStep) /\ todo # <<>> /\ task[p] \in Task /\ Busy(p)
        /\ todo[1][1] = "advance" /\ todo[1][2] = to /\ 1 \in DOMAIN todo
        /\ Shape(p, msg, todo) /\ Subject(p) \in Servers
    BY Awaiting DEF Advance, Doing
  <1>2. /\ current_state' = [current_state EXCEPT ![Subject(p)] = to]
        /\ QueuesGrow /\ OthersStay(p)
        /\ task'[p] = [task[p] EXCEPT !.todo = Tail(todo)]
    BY DEF Advance, AdvanceState, MoveTo, QueuesGrow, OthersStay, Proceed, ContinueWith,
           Core, TasksTypeOK
  <1>3. CASE s # Subject(p)
    <2>1. current_state'[s] = current_state[s] /\ ~CarriedBy(p, s, current_state[s])
      BY <1>2, <1>3 DEF CarriedBy, Core, LedgerTypeOK
    <2>2. ASSUME NEW st, st = current_state[s]
          PROVE  Carried(s, st)'
      BY <1>2, <2>1, <2>2, OtherCarriers
    <2>3. QED
      BY <2>1, <2>2 DEF Carried, MessageFor, CarriedBy
  <1>4. CASE s = Subject(p)
    <2>1. current_state'[s] = to /\ to \in ServedStates
      BY <1>1, <1>2, <1>4 DEF Core, LedgerTypeOK
    <2>2. /\ 2 \in DOMAIN todo
          /\ \/ todo[2][1] = "advance" /\ p \notin Requests
             \/ todo[2][1] = "publish" /\ ExpectedState(todo[2][2]) = to
      <3>1. /\ 2 \in DOMAIN todo
            /\ \/ todo[2][1] = "advance"
               \/ todo[2][1] = "publish" /\ ExpectedState(todo[2][2]) = to
        BY <1>1, <2>1 DEF Shape, StepShape
      <3>2. p \in Requests => todo[2][1] # "advance"
        BY <1>1, <2>1 DEF Shape, RequestShape, advance, publish, ServedStates
      <3>3. QED
        BY <3>1, <3>2
    <2> DEFINE rest == Tail(todo)
    <2>3. /\ rest # <<>> /\ rest[1] = todo[2] /\ 1 \in DOMAIN rest
          /\ \A i \in DOMAIN rest : i + 1 \in DOMAIN todo /\ rest[i] = todo[i+1] /\ i + 1 # 1
      <3>1. ASSUME NEW all \in Seq(AwaitStep), 2 \in DOMAIN all
            PROVE  /\ Tail(all) # <<>> /\ Tail(all)[1] = all[2] /\ 1 \in DOMAIN Tail(all)
                   /\ \A i \in DOMAIN Tail(all) :
                        i + 1 \in DOMAIN all /\ Tail(all)[i] = all[i+1] /\ i + 1 # 1
        <4>1. Len(all) \in Nat /\ DOMAIN all = 1..Len(all) /\ Len(all) >= 2
          BY <3>1
        <4>2. Tail(all) \in Seq(AwaitStep) /\ Len(Tail(all)) = Len(all) - 1
          BY <4>1
        <4>3. DOMAIN Tail(all) = 1..(Len(all) - 1) /\ \A i \in DOMAIN Tail(all) : Tail(all)[i] = all[i+1]
          BY <4>1, <4>2
        <4>4. 1 \in DOMAIN Tail(all) /\ Tail(all)[1] = all[2] /\ 1 + 1 = 2
          BY <4>1, <4>3
        <4>5. Tail(all) # <<>>
          BY <4>1, <4>2
        <4>6. \A i \in DOMAIN Tail(all) : i + 1 \in DOMAIN all /\ i + 1 # 1
          BY <4>1, <4>3
        <4>7. QED
          BY <4>3, <4>4, <4>5, <4>6
      <3>2. QED
        BY <1>1, <2>2, <3>1
    <2>4. /\ task'[p].todo = rest /\ task'[p].msg = msg /\ task'[p] # NoTask
      <3>1. [task[p] EXCEPT !.todo = rest] \in Task
        BY <1>1 DEF Task
      <3>2. QED
        BY <1>1, <1>2, <3>1, ProcessesAssumption DEF Task
    <2> HIDE DEF rest
    <2>5. p \notin Requests => Leads(msg, rest, to)
      <3>1. \A i \in DOMAIN rest : rest[i][1] # "require"
        BY <1>1, <2>3 DEF Shape, StepShape
      <3>2. Decisive(msg, rest[1], to)
        BY <2>2, <2>3 DEF Decisive
      <3>3. QED
        BY <2>3, <3>1, <3>2 DEF Leads
    <2>6. p \in Requests => Dispatches(rest, to)
      BY <2>2, <2>3 DEF Dispatches
    <2>7. QED
      BY <1>4, <2>1, <2>4, <2>5, <2>6 DEF Carried, CarriedBy, Busy, Subject
  <1>5. QED
    BY <1>3, <1>4

-----------------------------------------------------------------------------
Inv == Core /\ Counters /\ NoOrphans /\ ServedAreCarried

LEMMA CarriedStep ==
  ASSUME Inv, NothingBreaks, [Next]_vars
  PROVE  ServedAreCarried'
  <1> SUFFICES ASSUME NEW s \in Servers, current_state'[s] \in ServedStates
               PROVE  Carried(s, current_state[s])'
    BY DEF ServedAreCarried
  <1>1. /\ current_state[s] \in ServedStates => Carried(s, current_state[s])
        /\ \A p \in Processes : ~Fault(p)
    BY DEF Inv, ServedAreCarried, NothingBreaks, Counters, Fault
  <1>2. ASSUME UNCHANGED current_state,
               \A st \in ServedStates : Carried(s, st) /\ current_state[s] = st => Carried(s, st)'
        PROVE  Carried(s, current_state[s])'
    <2>1. PICK st : st = current_state[s]
      OBVIOUS
    <2>2. Carried(s, st)' /\ current_state'[s] = st
      BY <1>1, <1>2, <2>1
    <2>3. QED
      BY <2>2 DEF Carried, MessageFor, CarriedBy
  <1>3. ASSUME NEW w \in Consumers, ConsumerStep(w)
        PROVE  Carried(s, current_state[s])'
    <2>1. w \in Processes
      BY DEF Processes
    <2>2. CASE Advance(w, "system")
      BY <1>1, <2>1, <2>2, AdvanceCarries DEF Inv
    <2>3. CASE ~Advance(w, "system")
      <3>1. UNCHANGED current_state
        BY <1>3, <2>3, OnlyAdvancesMove
      <3>2. \/ w \in MgnWorkers /\ MgnWorkerStep(w)
            \/ w \in PollerWorkers /\ PollerStep(w)
            \/ w \in FailedQueues /\ RollbackStep(w)
        BY <1>3, ProcessesAssumption DEF ConsumerStep, Consumers
      <3>3. QED
        BY <1>2, <2>3, <3>1, <3>2, MgnCarry, PollerCarry, RollbackCarry DEF Inv
    <2>4. QED
      BY <2>2, <2>3
  <1>4. ASSUME NEW r \in Requests, RequestStep(r)
        PROVE  Carried(s, current_state[s])'
    <2>1. r \in Processes
      BY DEF Processes
    <2>2. CASE \E by \in Engineers : Advance(r, by)
      BY <1>1, <2>1, <2>2, AdvanceCarries DEF Inv
    <2>3. CASE \A by \in Engineers : ~Advance(r, by)
      <3>1. UNCHANGED current_state
        BY <1>4, <2>3 DEF RequestStep, RequireState, RequestFails, Publish, Finish, ledgerVars
      <3>2. QED
        BY <1>2, <1>4, <2>3, <3>1, RequestCarry DEF Inv
    <2>4. QED
      BY <2>2, <2>3
  <1>5. CASE NewRequest
    <2>1. PICK r \in Requests : OthersStay(r) /\ ~Busy(r) /\ UNCHANGED <<ledgerVars, queue>>
      BY <1>5, NewRequestsAreLocal DEF Inv
    <2>2. UNCHANGED current_state /\ QueuesGrow /\ r \in Processes
      BY <2>1 DEF ledgerVars, QueuesGrow, Processes
    <2>3. \A st : ~CarriedBy(r, s, st)
      BY <2>1 DEF CarriedBy
    <2>4. QED
      BY <1>2, <2>1, <2>2, <2>3, OtherCarriers DEF Inv
  <1>6. ASSUME NEW t \in Servers, Register(t) \/ Reset(t) \/ ManualAdvance(t)
        PROVE  Carried(s, current_state[s])'
    <2>1. UNCHANGED <<queue, task>>
      BY <1>6 DEF Register, Reset, ManualAdvance
    <2>2. PICK to : current_state' = [current_state EXCEPT ![t] = to] /\ to \notin ServedStates
      <3>1. CASE Register(t) \/ Reset(t)
        <4>1. current_state' = [current_state EXCEPT ![t] = "PENDING"]
          BY <3>1 DEF Register, RegisterServer, Reset, ResetServer, MoveTo
        <4>2. "PENDING" \notin ServedStates
          BY DEF ServedStates
        <4>3. QED
          BY <4>1, <4>2
      <3>2. CASE ManualAdvance(t)
        <4>1. PICK to \in ValidTransitions(current_state[t]) :
                current_state' = [current_state EXCEPT ![t] = to]
          BY <3>2 DEF ManualAdvance, AdvanceState, MoveTo
        <4>2. to \notin ServedStates
          BY <3>2, <4>1 DEF ManualAdvance, NothingBreaks
        <4>3. QED
          BY <4>1, <4>2
      <3>3. QED
        BY <1>6, <3>1, <3>2
    <2>3. s # t /\ current_state'[s] = current_state[s]
      BY <2>2 DEF Inv, Core, LedgerTypeOK
    <2>4. QED
      BY <1>1, <2>1, <2>3 DEF Carried, MessageFor, Failed, CarriedBy, Busy, Subject
  <1>7. ASSUME NEW t \in Servers, ManualDispatch(t)
        PROVE  Carried(s, current_state[s])'
    <2>1. PICK job \in ManualJobs : PublishMessage(NewMessage(job, t, aws_source_server_id[t]))
      BY <1>7 DEF ManualDispatch
    <2>2. NewMessage(job, t, aws_source_server_id[t]) \in Message
      BY OrchestratorAssumption, AttemptsAssumption
         DEF NewMessage, Message, JobType, Inv, Core, LedgerTypeOK
    <2>3. QueuesGrow /\ UNCHANGED <<current_state, task>>
      BY <1>7, <2>1, <2>2, Sending DEF ManualDispatch, ledgerVars, Inv
    <2>4. ASSUME NEW st, Carried(s, st)
          PROVE  Carried(s, st)'
      BY <2>3, <2>4 DEF Carried, MessageFor, Failed, CarriedBy, Busy, Subject, QueuesGrow
    <2>5. QED
      BY <1>2, <2>3, <2>4
  <1>8. CASE UNCHANGED vars
    BY <1>1, <1>8 DEF vars, ledgerVars, Carried, MessageFor, Failed, CarriedBy, Busy, Subject
  <1>9. QED
    BY <1>1, <1>3, <1>4, <1>5, <1>6, <1>7, <1>8, NoOrphanStep DEF Next, Inv, NothingBreaks

(* As long as no process is killed and no statement raises, no server is   *)
(* left in a state that only the system takes it out of with nothing in    *)
(* the system to do so, whatever engineers ask for and whenever AWS raises.*)
THEOREM NoServerIsStranded ==
  ASSUME NothingBreaks
  PROVE  Spec => []NoServerStranded
  <1>1. Init => Inv
    <2>1. Init => Counters
      BY ApiAssumption, OrchestratorAssumption DEF Init, Counters
    <2>2. Init => NoOrphans
      BY DEF Init, TasksInit, NoOrphans, Busy, Processes
    <2>3. Init => ServedAreCarried
      BY DEF Init, LedgerInit, ServedAreCarried, ServedStates, NotRegistered
    <2>4. QED
      BY <2>1, <2>2, <2>3, InitCore DEF Inv
  <1>2. Inv /\ [Next]_vars => Inv'
    BY CoreStep, CountersStep, NoOrphanStep, CarriedStep DEF Inv, NothingBreaks
  <1>3. Inv => NoServerStranded
    <2>1. ASSUME Inv, NEW s \in Servers, current_state[s] \in ServedStates
          PROVE  HasCarrier(s)
      <3> DEFINE st == current_state[s]
      <3>1. Carried(s, st)
        BY <2>1 DEF Inv, ServedAreCarried
      <3>2. CASE MessageFor(s, st)
        BY <3>2 DEF MessageFor, HasCarrier, Queued, Range
      <3>3. CASE Failed(s)
        BY <3>3 DEF Failed, HasCarrier, Queued, Range
      <3>4. ASSUME NEW p \in Processes, CarriedBy(p, s, st)
            PROVE  HasCarrier(s)
        <4>1. task[p] \in Task /\ Busy(p) /\ Subject(p) = s
          BY <2>1, <3>4 DEF CarriedBy, Busy, Inv, Core, TasksTypeOK
        <4>2. task[p].todo \in Seq(AwaitStep) /\ task[p].todo # <<>>
          BY <3>4, <4>1 DEF Task, CarriedBy, Dispatches, Leads
        <4>3. Head(task[p].todo) = task[p].todo[1] /\ 1 \in DOMAIN task[p].todo
          BY <4>2
        <4>4. Doing(p, "require") => Operand(p) = st /\ p \notin Requests
          BY <3>4, <4>3 DEF Doing, Operand, CarriedBy, Dispatches, Leads
        <4>5. QED
          BY <4>1, <4>2, <4>4 DEF HasCarrier
      <3>5. QED
        BY <3>1, <3>2, <3>3, <3>4 DEF Carried
    <2>2. QED
      BY <2>1 DEF NoServerStranded
  <1>4. QED
    BY <1>1, <1>2, <1>3, PTL DEF Spec
=============================================================================
