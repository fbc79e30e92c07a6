---------------------------- MODULE PollingProofs ----------------------------
(***************************************************************************)
(* One operation of AWS is polled by one chain of messages: while no       *)
(* process is killed, and a server is either never reset or only once the  *)
(* system is done with it, at most one message, handler or approval is at  *)
(* work on the stage a server is in, whatever else is asked or raises.     *)
(***************************************************************************)
EXTENDS OrchestratorProofs, FiniteSetTheorems

(* A token of a server: a job of a stage that waits in a work queue, is    *)
(* handled by a worker, or is about to be dispatched by an approval.       *)
Waits(s, q, i) ==
  /\ q \in WorkQueues /\ i \in DOMAIN queue[q]
  /\ queue[q][i].server = s /\ Stage(queue[q][i].job) # {}

(* The stage at which a process is at work.                                *)
AtStage(p) ==
  LET todo == task[p].todo
  IN IF todo = <<>> \/ p \in FailedQueues THEN {}
     ELSE IF p \in Requests
     THEN IF todo[1][1] = "publish" THEN Stage(todo[1][2]) ELSE {}
     ELSE Stage(task[p].msg.job)

Works(s, p) ==
  /\ p \in Processes /\ Busy(p) /\ Subject(p) = s
  /\ AtStage(p) # {}

(* The inductive invariant: a server has one token, and is in its stage    *)
(* unless it has failed.                                                   *)
OneToken(s) ==
  /\ \A q, k \in WorkQueues : \A i \in DOMAIN queue[q], j \in DOMAIN queue[k] :
       Waits(s, q, i) /\ Waits(s, k, j) => q = k /\ i = j
  /\ \A p, r \in Processes : Works(s, p) /\ Works(s, r) => p = r
  /\ \A q \in WorkQueues : \A i \in DOMAIN queue[q] : \A p \in Processes :
       ~(Waits(s, q, i) /\ Works(s, p))

InItsStage(s) ==
  /\ \A q \in WorkQueues : \A i \in DOMAIN queue[q] :
       Waits(s, q, i) => current_state[s] \in Stage(queue[q][i].job) \cup ErrorStates
  /\ \A p \in Processes :
       Works(s, p) => current_state[s] \in AtStage(p) \cup ErrorStates

Tokens == \A s \in Servers : OneToken(s) /\ InItsStage(s)

(* Nothing is killed, and what is reset has nothing at work on it.         *)
ResetsAreCalm ==
  /\ MaxCrashes = 0
  /\ MaxResets = 0 \/ MaxHasty = 0

-----------------------------------------------------------------------------
(* Only a failure or the last step of a poll leads out of a stage, and     *)
(* only an approval leads into the one of its job.                         *)
LEMMA StageFacts ==
  /\ \A job \in PollJobs : Stage(job) # {}
  /\ \A job \in SubmittedJobs : Stage(job) = {}
  /\ \A job \in MgnJobs : Stage(job) # {} => VALID_STATES_FOR_JOB[job] \in Stage(job)
  /\ \A job : NotRegistered \notin Stage(job) \cup ErrorStates
  <1>1. \A job \in PollJobs : Stage(job) # {}
    BY DEF Stage, PollJobs, VALID_STATES_FOR_POLL
  <1>2. \A job \in SubmittedJobs : Stage(job) = {}
    BY DEF Stage, SubmittedJobs
  <1>3. \A job \in MgnJobs : Stage(job) # {} => VALID_STATES_FOR_JOB[job] \in Stage(job)
    BY DEF Stage, MgnJobs, VALID_STATES_FOR_JOB
  <1>4. \A job : NotRegistered \notin Stage(job) \cup ErrorStates
    BY DEF Stage, NotRegistered, ErrorStates
  <1>5. QED
    BY <1>1, <1>2, <1>3, <1>4

LEMMA StageExit ==
  ASSUME NEW job, NEW from \in Stage(job), NEW to, IsValidTransition(from, to)
  PROVE  to \in Stage(job) \cup StageExits \cup ErrorStates
  <1>1. to \in ErrorStates \/ <<from, to>> \in Forward
    BY TransitionClimbs
  <1>2. <<from, to>> \in Forward => to \in Stage(job) \cup StageExits
    BY DEF Stage, StageExits, Forward
  <1>3. QED
    BY <1>1, <1>2

LEMMA StageEntry ==
  ASSUME NEW g \in Gates
  PROVE  /\ \A job : g.at \notin Stage(job) \cup ErrorStates
         /\ Stage(g.job) # {} => g.next \in Stage(g.job)
  <1>1. /\ g.at \in InProgressStates /\ g.job \in MgnJobs
        /\ VALID_STATES_FOR_JOB[g.job] = g.next
    BY GateFacts
  <1>2. \A job : InProgressStates \cap (Stage(job) \cup ErrorStates) = {}
    BY DEF Stage, InProgressStates, ErrorStates
  <1>3. QED
    BY <1>1, <1>2, StageFacts

-----------------------------------------------------------------------------
(* What a step does to the tokens of a server.                             *)
WorksLess(s) ==
  \A p \in Processes : Works(s, p)' => Works(s, p) /\ AtStage(p)' = AtStage(p)

QueuesWait == \A q \in WorkQueues : queue'[q] = queue[q]

NoToken(s) ==
  /\ \A q \in WorkQueues : \A i \in DOMAIN queue[q] : ~Waits(s, q, i)
  /\ \A p \in Processes : ~Works(s, p)

LEMMA FewerTokens ==
  ASSUME NEW s, OneToken(s), QueuesWait, WorksLess(s)
  PROVE  /\ OneToken(s)'
         /\ NoToken(s) => NoToken(s)'
         /\ InItsStage(s) /\ (current_state'[s] = current_state[s] \/ current_state'[s] \in ErrorStates)
              => InItsStage(s)'
  <1>1. ASSUME NEW q \in WorkQueues, NEW i \in DOMAIN queue'[q]
        PROVE  /\ i \in DOMAIN queue[q] /\ queue'[q][i] = queue[q][i]
               /\ Waits(s, q, i)' <=> Waits(s, q, i)
               /\ Stage(queue[q][i].job)' = Stage(queue[q][i].job)
    BY DEF QueuesWait, Waits, Stage
  <1>2. OneToken(s)'
    BY <1>1 DEF OneToken, WorksLess
  <1>3. NoToken(s) => NoToken(s)'
    BY <1>1 DEF NoToken, WorksLess
  <1>4. ASSUME InItsStage(s),
               current_state'[s] = current_state[s] \/ current_state'[s] \in ErrorStates
        PROVE  InItsStage(s)'
    BY <1>1, <1>4 DEF InItsStage, WorksLess, ErrorStates
  <1>5. QED
    BY <1>2, <1>3, <1>4

(* A server without a token is in any stage.                               *)
LEMMA NoTokenIsFine ==
  ASSUME NEW s, NoToken(s)
  PROVE  OneToken(s) /\ InItsStage(s)
  BY DEF NoToken, OneToken, InItsStage, Waits

(* What a process publishes for the stage at which it works.               *)
LEMMA TokenIsSent ==
  ASSUME Core, NEW s \in Servers, OneToken(s), InItsStage(s), NEW m \in Message,
         PublishMessage(m), WorksLess(s), UNCHANGED current_state,
         m.server = s /\ Stage(m.job) # {} =>
           /\ \A q \in WorkQueues : \A i \in DOMAIN queue[q] : ~Waits(s, q, i)
           /\ \A p \in Processes : ~Works(s, p)'
           /\ current_state[s] \in Stage(m.job) \cup ErrorStates
  PROVE  OneToken(s)' /\ InItsStage(s)'
  <1> DEFINE k == QUEUE_ROUTING[m.job]
             n == Len(queue[k]) + 1
             new == m.server = s /\ Stage(m.job) # {}
  <1>1. k \in WorkQueues /\ queue' = [queue EXCEPT ![k] = Append(@, m)]
    BY Names DEF PublishMessage, Message, JobType
  <1> HIDE DEF k
  <1>2. queue[k] \in Seq(Message) /\ queue'[k] = Append(queue[k], m)
        /\ \A q \in WorkQueues \ {k} : queue'[q] = queue[q]
    BY <1>1 DEF Core, BrokerTypeOK
  <1>3. ASSUME NEW q \in WorkQueues, NEW i \in DOMAIN queue'[q]
        PROVE  \/ i \in DOMAIN queue[q] /\ queue'[q][i] = queue[q][i]
               \/ q = k /\ i = n /\ queue'[q][i] = m
    BY <1>2
  <1>4. ASSUME NEW q \in WorkQueues, NEW i \in DOMAIN queue'[q], Waits(s, q, i)'
        PROVE  \/ /\ i \in DOMAIN queue[q] /\ queue'[q][i] = queue[q][i] /\ Waits(s, q, i)
               \/ q = k /\ i = n /\ queue'[q][i] = m /\ new
    BY <1>3, <1>4 DEF Waits, Stage
  <1> HIDE DEF n
  <1>5. OneToken(s)'
    <2>1. ASSUME NEW q \in WorkQueues, NEW l \in WorkQueues, NEW i \in DOMAIN queue'[q],
                 NEW j \in DOMAIN queue'[l], Waits(s, q, i)', Waits(s, l, j)'
          PROVE  q = l /\ i = j
      BY <1>4, <2>1 DEF OneToken
    <2>2. ASSUME NEW p \in Processes, NEW r \in Processes, Works(s, p)', Works(s, r)'
          PROVE  p = r
      BY <2>2 DEF OneToken, WorksLess
    <2>3. ASSUME NEW q \in WorkQueues, NEW i \in DOMAIN queue'[q], NEW p \in Processes,
                 Waits(s, q, i)', Works(s, p)'
          PROVE  FALSE
      BY <1>4, <2>3 DEF OneToken, WorksLess
    <2>4. QED
      BY <2>1, <2>2, <2>3 DEF OneToken
  <1>6. InItsStage(s)'
    <2>1. ASSUME NEW q \in WorkQueues, NEW i \in DOMAIN queue'[q], Waits(s, q, i)'
          PROVE  current_state'[s] \in Stage(queue'[q][i].job) \cup ErrorStates
      <3>1. CASE i \in DOMAIN queue[q] /\ queue'[q][i] = queue[q][i] /\ Waits(s, q, i)
        BY <3>1 DEF InItsStage
      <3>2. CASE queue'[q][i] = m /\ new
        BY <3>2
      <3>3. QED
        BY <1>4, <2>1, <3>1, <3>2
    <2>2. ASSUME NEW p \in Processes, Works(s, p)'
          PROVE  current_state'[s] \in AtStage(p)' \cup ErrorStates
      BY <2>2 DEF InItsStage, WorksLess
    <2>3. QED
      BY <2>1, <2>2 DEF InItsStage, ErrorStates, Stage
  <1>7. QED
    BY <1>5, <1>6

(* Another process is at the stage at which it was.                        *)
LEMMA OthersWorkOn ==
  ASSUME NEW w, OthersStay(w), NEW p \in Processes \ {w}, NEW s
  PROVE  /\ Works(s, p)' => Works(s, p)
         /\ AtStage(p)' = AtStage(p)
  <1>1. task'[p] = task[p]
    BY DEF OthersStay
  <1>2. AtStage(p)' = AtStage(p)
    BY <1>1 DEF AtStage, Stage
  <1>3. QED
    BY <1>1, <1>2 DEF Works, Busy, Subject

LEMMA TokenIsDelivered ==
  ASSUME Core, NEW w, NEW steps \in Seq(AwaitStep), steps # <<>>, Deliver(w, steps),
         NEW s \in Servers, OneToken(s), InItsStage(s)
  PROVE  OneToken(s)' /\ InItsStage(s)'
  <1> DEFINE k == SourceQueue(w)
             m == queue[k][1]
  <1>1. /\ w \in Processes /\ w \notin Requests /\ ~Busy(w) /\ w \in Consumers
        /\ k \in WorkQueues \cup FailedQueues
        /\ w \in FailedQueues <=> k \in FailedQueues
        /\ task' = [task EXCEPT ![w] = [msg |-> NextMessage(w), todo |-> steps]]
        /\ UNCHANGED current_state
    BY Names, ProcessesAssumption
       DEF Deliver, Start, Processes, Consumers, SourceQueue, ledgerVars
  <1> HIDE DEF k
  <1>2. /\ queue[k] \in Seq(Message) /\ queue[k] # <<>> /\ queue'[k] = Tail(queue[k])
        /\ \A q \in (WorkQueues \cup FailedQueues) \ {k} : queue'[q] = queue[q]
    BY <1>1 DEF Deliver, Take, Core, BrokerTypeOK, k
  <1>3. NextMessage(w) = m /\ 1 \in DOMAIN queue[k]
    BY <1>2 DEF NextMessage, k
  <1>4. /\ task'[w].msg = m /\ task'[w].todo = steps /\ OthersStay(w)
    BY <1>1, <1>3 DEF OthersStay, Core, TasksTypeOK
  <1> HIDE DEF m
  <1>5. AtStage(w)' = IF w \in FailedQueues THEN {} ELSE Stage(m.job)
    BY <1>1, <1>4 DEF AtStage, Stage
  <1>6. CASE w \in FailedQueues
    <2>1. QueuesWait
      BY <1>1, <1>2, <1>6, Names DEF QueuesWait
    <2>2. WorksLess(s)
      BY <1>4, <1>5, <1>6, OthersWorkOn DEF WorksLess, Works
    <2>3. QED
      BY <1>1, <2>1, <2>2, FewerTokens
  <1>7. CASE w \notin FailedQueues
    <2>1. k \in WorkQueues
      BY <1>1, <1>7
    <2>2. Works(s, w)' => Waits(s, k, 1)
      BY <1>3, <1>4, <1>5, <1>7, <2>1 DEF Works, Waits, Subject, m
    <2>3. ASSUME NEW q \in WorkQueues, NEW i \in DOMAIN queue'[q], Waits(s, q, i)'
          PROVE  \E j \in DOMAIN queue[q] : /\ Waits(s, q, j) /\ queue'[q][i] = queue[q][j]
                                            /\ j = (IF q = k THEN i + 1 ELSE i) /\ i \in Nat
      <3>1. ASSUME NEW all \in Seq(Message), all # <<>>, NEW n \in DOMAIN Tail(all)
            PROVE  n \in Nat /\ n + 1 \in DOMAIN all /\ Tail(all)[n] = all[n+1]
        BY <3>1
      <3>2. CASE q = k
        <4>1. i \in Nat /\ i + 1 \in DOMAIN queue[q] /\ queue'[q][i] = queue[q][i+1]
          BY <1>2, <3>1, <3>2
        <4>2. Waits(s, q, i + 1)
          BY <2>3, <4>1 DEF Waits, Stage
        <4>3. QED
          BY <3>2, <4>1, <4>2
      <3>3. CASE q # k
        <4>1. i \in DOMAIN queue[q] /\ queue'[q][i] = queue[q][i]
          BY <1>2, <3>3
        <4>2. queue[q] \in Seq(Message)
          BY DEF Core, BrokerTypeOK
        <4>3. Waits(s, q, i)
          BY <2>3, <4>1 DEF Waits, Stage
        <4>4. i \in Nat
          BY <4>1, <4>2
        <4>5. QED
          BY <3>3, <4>1, <4>3, <4>4
      <3>4. QED
        BY <3>2, <3>3
    <2>4. ASSUME NEW p \in Processes, Works(s, p)', p # w
          PROVE  Works(s, p) /\ AtStage(p)' = AtStage(p)
      BY <1>4, <2>4, OthersWorkOn
    <2>5. OneToken(s)'
      <3>1. ASSUME NEW q \in WorkQueues, NEW l \in WorkQueues, NEW i \in DOMAIN queue'[q],
                   NEW j \in DOMAIN queue'[l], Waits(s, q, i)', Waits(s, l, j)'
            PROVE  q = l /\ i = j
        <4>1. PICK a \in DOMAIN queue[q] : Waits(s, q, a) /\ a = (IF q = k THEN i + 1 ELSE i) /\ i \in Nat
          BY <2>3, <3>1
        <4>2. PICK b \in DOMAIN queue[l] : Waits(s, l, b) /\ b = (IF l = k THEN j + 1 ELSE j) /\ j \in Nat
          BY <2>3, <3>1
        <4>3. q = l /\ a = b
          BY <4>1, <4>2 DEF OneToken
        <4>4. QED
          BY <4>1, <4>2, <4>3
      <3>2. ASSUME NEW p \in Processes, NEW r \in Processes, Works(s, p)', Works(s, r)', p # r
            PROVE  FALSE
        BY <1>3, <2>1, <2>2, <2>4, <3>2 DEF OneToken
      <3>3. ASSUME NEW q \in WorkQueues, NEW i \in DOMAIN queue'[q], NEW p \in Processes,
                   Waits(s, q, i)', Works(s, p)'
            PROVE  FALSE
        <4>1. PICK a \in DOMAIN queue[q] : Waits(s, q, a) /\ a = (IF q = k THEN i + 1 ELSE i) /\ i \in Nat
          BY <2>3, <3>3
        <4>2. CASE p = w
          <5>1. q = k /\ a = 1
            BY <1>3, <2>1, <2>2, <3>3, <4>1, <4>2 DEF OneToken
          <5>2. i \in DOMAIN Tail(queue[k]) /\ i = 0
            BY <1>2, <4>1, <5>1
          <5>3. QED
            BY <1>2, <5>2
        <4>3. CASE p # w
          BY <2>4, <3>3, <4>1, <4>3 DEF OneToken
        <4>4. QED
          BY <4>2, <4>3
      <3>4. QED
        BY <3>1, <3>2, <3>3 DEF OneToken
    <2>6. InItsStage(s)'
      <3>1. ASSUME NEW q \in WorkQueues, NEW i \in DOMAIN queue'[q], Waits(s, q, i)'
            PROVE  current_state'[s] \in Stage(queue'[q][i].job) \cup ErrorStates
        BY <1>1, <2>3, <3>1 DEF InItsStage
      <3>2. ASSUME NEW p \in Processes, Works(s, p)'
            PROVE  current_state'[s] \in AtStage(p)' \cup ErrorStates
        <4>1. CASE p = w
          BY <1>1, <1>3, <1>5, <1>7, <2>1, <2>2, <3>2, <4>1 DEF InItsStage, m
        <4>2. CASE p # w
          BY <1>1, <2>4, <3>2, <4>2 DEF InItsStage
        <4>3. QED
          BY <4>1, <4>2
      <3>3. QED
        BY <3>1, <3>2 DEF InItsStage, ErrorStates, Stage
    <2>7. QED
      BY <2>5, <2>6
  <1>8. QED
    BY <1>6, <1>7

-----------------------------------------------------------------------------
(* A process that is awaiting, by what it works on.                        *)
LEMMA StageOfStep ==
  ASSUME Core, NEW p \in Processes, NEW kind, Doing(p, kind), NEW s \in Servers, s = Subject(p)
  PROVE  /\ p \in MgnWorkers \cup PollerWorkers =>
              /\ AtStage(p) = Stage(task[p].msg.job)
              /\ AtStage(p) # {} => Works(s, p)
         /\ p \in Requests /\ kind = "publish" =>
              /\ AtStage(p) = Stage(Operand(p))
              /\ AtStage(p) # {} => Works(s, p)
         /\ p \in Requests /\ kind # "publish" => AtStage(p) = {}
         /\ p \in FailedQueues => AtStage(p) = {} /\ kind # "publish"
  <1>1. /\ task[p].todo # <<>> /\ task[p].todo[1][1] = kind /\ Operand(p) = task[p].todo[1][2]
        /\ Busy(p) /\ 1 \in DOMAIN task[p].todo /\ Shape(p, task[p].msg, task[p].todo)
    BY Awaiting DEF Doing
  <1>2. p \in FailedQueues => kind # "publish"
    BY <1>1 DEF Shape, RollbackShape
  <1>3. p \in MgnWorkers \cup PollerWorkers => AtStage(p) = Stage(task[p].msg.job)
    BY <1>1, ProcessesAssumption DEF AtStage
  <1>4. p \in Requests => AtStage(p) = IF kind = "publish" THEN Stage(Operand(p)) ELSE {}
    BY <1>1, ProcessesAssumption DEF AtStage
  <1>5. p \in FailedQueues => AtStage(p) = {}
    BY DEF AtStage
  <1>6. QED
    BY <1>1, <1>2, <1>3, <1>4, <1>5 DEF Works

(* A process that changes nothing but its program, or ends.                *)
LEMMA WorkerGoesOn ==
  ASSUME Core, NEW p \in MgnWorkers \cup PollerWorkers \cup FailedQueues, NEW kind,
         Doing(p, kind), NEW s \in Servers, NEW steps,
         ContinueWith(p, steps) \/ Leave(p)
  PROVE  WorksLess(s)
  <1>1. p \in Processes /\ p \notin Requests
    BY ProcessesAssumption DEF Processes, Consumers
  <1>2. OthersStay(p)
    BY DEF ContinueWith, Leave, OthersStay, Core, TasksTypeOK
  <1>3. task[p] \in Task /\ task[p].todo # <<>>
    BY <1>1, Awaiting
  <1>4. CASE Leave(p)
    <2>1. ~Works(s, p)'
      BY <1>1, <1>4 DEF Leave, Works, Busy, Core, TasksTypeOK
    <2>2. QED
      BY <1>2, <2>1, OthersWorkOn DEF WorksLess
  <1>5. CASE ContinueWith(p, steps)
    <2>1. task'[p].msg = task[p].msg /\ task'[p].todo = steps
      BY <1>1, <1>3, <1>5 DEF ContinueWith, Task, Core, TasksTypeOK
    <2>2. Works(s, p)' => Works(s, p) /\ AtStage(p)' = AtStage(p)
      BY <1>1, <1>3, <2>1 DEF Works, AtStage, Stage, Subject, Busy, Doing
    <2>3. QED
      BY <1>2, <2>2, OthersWorkOn DEF WorksLess
  <1>6. QED
    BY <1>4, <1>5

LEMMA RequestGoesOn ==
  ASSUME Core, NEW r \in Requests, RequireState(r) \/ RequestFails(r) \/ Finish(r),
         NEW s \in Servers
  PROVE  WorksLess(s)
  <1>1. r \in Processes /\ OthersStay(r)
    BY StepsAreLocal DEF Processes, RequireState, RequestFails, Finish, Leave, OthersStay,
                         Core, TasksTypeOK
  <1>2. ~Works(s, r)'
    <2>1. CASE RequestFails(r) \/ Finish(r)
      BY <1>1, <2>1 DEF RequestFails, Finish, Leave, Works, Busy, Core, TasksTypeOK
    <2>2. CASE RequireState(r)
      <3> DEFINE todo == task[r].todo
                 msg == task[r].msg
      <3>1. /\ todo \in Seq(AwaitStep) /\ todo # <<>> /\ task[r] \in Task
            /\ todo[1][1] = "require" /\ 1 \in DOMAIN todo /\ Shape(r, msg, todo)
        BY <1>1, <2>2, Awaiting DEF RequireState
      <3>2. task'[r].todo = Tail(todo) \/ task'[r].todo = <<>>
        BY <1>1, <2>2, <3>1 DEF RequireState, Task, Core, TasksTypeOK
      <3>3. ASSUME task'[r].todo = Tail(todo), Tail(todo) # <<>>, Tail(todo)[1][1] = "publish"
            PROVE  Stage(Tail(todo)[1][2]) = {}
        <4>1. 2 \in DOMAIN todo /\ Tail(todo)[1] = todo[2]
          BY <3>1, <3>3
        <4>2. 2 = Len(todo)
          BY <3>1, <3>3, <4>1 DEF Shape, StepShape
        <4>3. msg.job \in SubmittedJobs
          BY <3>1, <3>3, <4>1, <4>2 DEF Shape, RequestShape, advance, publish
        <4>4. todo[2][2] = msg.job
          BY <3>1, <3>3, <4>1 DEF Shape, RequestShape, advance, publish
        <4>5. QED
          BY <4>1, <4>3, <4>4, StageFacts
      <3>4. AtStage(r)' = {}
        BY <3>2, <3>3, ProcessesAssumption DEF AtStage, Stage
      <3>5. QED
        BY <3>4 DEF Works
    <2>3. QED
      BY <2>1, <2>2
  <1>3. QED
    BY <1>1, <1>2, OthersWorkOn DEF WorksLess

(* The token of a process goes to the queue when it publishes.             *)
LEMMA ProcessSends ==
  ASSUME Core, NEW p \in Processes \ Orphans, NEW kind \in {"publish", "reenqueue"},
         Doing(p, kind), Proceed(p), NEW m \in Message, PublishMessage(m),
         m.server = Subject(p), Stage(m.job) = AtStage(p), UNCHANGED current_state,
         NEW s \in Servers, OneToken(s), InItsStage(s)
  PROVE  OneToken(s)' /\ InItsStage(s)'
  <1>1. /\ task[p] \in Task /\ task[p].todo \in Seq(AwaitStep) /\ task[p].todo # <<>>
        /\ task[p].todo[1][1] = kind /\ 1 \in DOMAIN task[p].todo
        /\ Shape(p, task[p].msg, task[p].todo) /\ Busy(p)
    BY Awaiting DEF Doing
  <1>2. Len(task[p].todo) = 1
    BY <1>1 DEF Shape, StepShape
  <1>3. Tail(task[p].todo) = <<>>
    <2>1. Tail(task[p].todo) \in Seq(AwaitStep) /\ Len(Tail(task[p].todo)) = 0
      BY <1>1, <1>2
    <2>2. ASSUME NEW rest \in Seq(AwaitStep), Len(rest) = 0
          PROVE  rest = <<>>
      BY <2>2
    <2>3. QED
      BY <2>1, <2>2
  <1>4. task'[p].todo = <<>> /\ OthersStay(p)
    BY <1>1, <1>3 DEF Proceed, ContinueWith, OthersStay, Task, Core, TasksTypeOK
  <1>5. AtStage(p)' = {}
    BY <1>4 DEF AtStage
  <1>6. WorksLess(s)
    BY <1>4, <1>5, OthersWorkOn DEF WorksLess, Works
  <1>7. ASSUME m.server = s, Stage(m.job) # {}
        PROVE  /\ \A q \in WorkQueues : \A i \in DOMAIN queue[q] : ~Waits(s, q, i)
               /\ \A r \in Processes : ~Works(s, r)'
               /\ current_state[s] \in Stage(m.job) \cup ErrorStates
    <2>1. Works(s, p)
      BY <1>1, <1>7 DEF Works
    <2>2. ASSUME NEW r \in Processes
          PROVE  ~Works(s, r)'
      <3>1. ~Works(s, p)'
        BY <1>5 DEF Works
      <3>2. QED
        BY <1>6, <2>1, <3>1 DEF WorksLess, OneToken
    <2>3. QED
      BY <2>1, <2>2 DEF OneToken, InItsStage
  <1>8. QED
    BY <1>6, <1>7, TokenIsSent

-----------------------------------------------------------------------------
(* What is left of two awaits, and the stage of a request that still has   *)
(* to publish its job.                                                     *)
LEMMA SecondIsLeft ==
  ASSUME NEW S, NEW todo \in Seq(S), Len(todo) = 2
  PROVE  Tail(todo) # <<>> /\ Tail(todo)[1] = todo[2]
  <1>1. Tail(todo)[1] = todo[2] /\ Len(Tail(todo)) = 1
    OBVIOUS
  <1>2. Len(<<>>) # 1
    OBVIOUS
  <1>3. Tail(todo) # <<>>
    BY <1>1, <1>2, Zenon
  <1>4. QED
    BY <1>1, <1>3, Zenon

LEMMA AboutToPublish ==
  ASSUME NEW p \in Requests, NEW job,
         task'[p].todo # <<>>, task'[p].todo[1] = publish(job)
  PROVE  AtStage(p)' = Stage(job)
  <1>1. p \notin FailedQueues
    BY ProcessesAssumption
  <1>2. task'[p].todo[1][1] = "publish" /\ task'[p].todo[1][2] = job
    BY DEF publish
  <1>3. QED
    BY <1>1, <1>2 DEF AtStage, Stage

(* A move keeps a server in the stage of its token, or the token has gone. *)
LEMMA TokenMoves ==
  ASSUME Core, NEW p \in Processes \ Orphans, NEW by, Advance(p, by),
         NEW s \in Servers, OneToken(s), InItsStage(s)
  PROVE  OneToken(s)' /\ InItsStage(s)'
  <1> DEFINE todo == task[p].todo
             from == current_state[s]
             to == Operand(p)
  <1>1. /\ todo \in Seq(AwaitStep) /\ todo # <<>> /\ task[p] \in Task /\ Busy(p)
        /\ todo[1][1] = "advance" /\ todo[1][2] = to /\ 1 \in DOMAIN todo
        /\ Shape(p, task[p].msg, todo) /\ Subject(p) \in Servers /\ Doing(p, "advance")
    BY Awaiting DEF Advance, Doing
  <1>2. /\ current_state' = [current_state EXCEPT ![Subject(p)] = to]
        /\ QueuesWait /\ OthersStay(p) /\ IsValidTransition(current_state[Subject(p)], to)
        /\ task'[p] = [task[p] EXCEPT !.todo = Tail(todo)]
    BY DEF Advance, AdvanceState, MoveTo, QueuesWait, OthersStay, Proceed, ContinueWith,
           Core, TasksTypeOK
  <1>3. /\ task'[p].todo = Tail(todo) /\ task'[p].msg = task[p].msg
        /\ Subject(p)' = Subject(p)
    BY <1>1, <1>2 DEF Task, Subject
  <1>4. CASE s # Subject(p)
    <2>1. current_state'[s] = current_state[s] /\ ~Works(s, p)'
      BY <1>2, <1>3, <1>4 DEF Works, Core, LedgerTypeOK
    <2>2. WorksLess(s)
      BY <1>2, <2>1, OthersWorkOn DEF WorksLess
    <2>3. QED
      BY <1>2, <2>1, <2>2, FewerTokens
  <1>5. CASE s = Subject(p) /\ p \in FailedQueues
    <2>1. current_state'[s] \in ErrorStates
      BY <1>1, <1>2, <1>5 DEF Shape, RollbackShape, Core, LedgerTypeOK
    <2>2. ~Works(s, p)'
      BY <1>5 DEF Works, AtStage
    <2>3. WorksLess(s)
      BY <1>2, <2>2, OthersWorkOn DEF WorksLess
    <2>4. QED
      BY <1>2, <2>1, <2>3, FewerTokens
  <1>6. CASE s = Subject(p) /\ p \in MgnWorkers \cup PollerWorkers
    <2>1. WorksLess(s)
      BY <1>1, <1>6, WorkerGoesOn DEF Advance, Proceed
    <2>2. OneToken(s)'
      BY <1>2, <2>1, FewerTokens
    <2>3. current_state'[s] = to /\ IsValidTransition(from, to) /\ from \notin ErrorStates
      BY <1>2, <1>6, TransitionClimbs DEF Core, LedgerTypeOK
    <2>4. CASE to \notin StageExits
      <3>1. ASSUME NEW job, from \in Stage(job) \cup ErrorStates
            PROVE  to \in Stage(job) \cup ErrorStates
        BY <2>3, <2>4, <3>1, StageExit
      <3>2. ASSUME NEW q \in WorkQueues, NEW i \in DOMAIN queue'[q], Waits(s, q, i)'
            PROVE  current_state'[s] \in Stage(queue'[q][i].job) \cup ErrorStates
        <4>1. Waits(s, q, i) /\ queue'[q][i] = queue[q][i] /\ i \in DOMAIN queue[q]
          BY <1>2, <3>2 DEF QueuesWait, Waits, Stage
        <4>2. QED
          BY <2>3, <3>1, <4>1 DEF InItsStage
      <3>3. ASSUME NEW r \in Processes, Works(s, r)'
            PROVE  current_state'[s] \in AtStage(r)' \cup ErrorStates
        <4>1. Works(s, r) /\ AtStage(r)' = AtStage(r)
          BY <2>1, <3>3 DEF WorksLess
        <4>2. PICK job : AtStage(r) = Stage(job)
          BY <4>1 DEF Works, AtStage
        <4>3. QED
          BY <2>3, <3>1, <4>1, <4>2 DEF InItsStage
      <3>4. QED
        BY <2>2, <3>2, <3>3 DEF InItsStage, ErrorStates, Stage
    <2>5. CASE to \in StageExits
      <3>1. Len(todo) = 1 /\ task[p].msg.job \in PollJobs
        BY <1>1, <2>5 DEF Shape, StepShape
      <3>2. Works(s, p)
        BY <1>1, <1>6, <3>1, StageFacts, StageOfStep
      <3>3. Tail(todo) \in Seq(AwaitStep) /\ Len(Tail(todo)) = 0
        BY <1>1, <3>1
      <3>4. ASSUME NEW rest \in Seq(AwaitStep), Len(rest) = 0
            PROVE  rest = <<>>
        BY <3>4
      <3>5. ~Works(s, p)'
        BY <1>3, <3>3, <3>4 DEF Works, AtStage
      <3>6. ASSUME NEW r \in Processes
            PROVE  ~Works(s, r)'
        BY <2>1, <3>2, <3>5 DEF WorksLess, OneToken
      <3>7. ASSUME NEW q \in WorkQueues, NEW i \in DOMAIN queue'[q]
            PROVE  ~Waits(s, q, i)'
        <4>1. Waits(s, q, i)' => Waits(s, q, i) /\ i \in DOMAIN queue[q]
          BY <1>2, <3>7 DEF QueuesWait, Waits, Stage
        <4>2. QED
          BY <3>2, <4>1 DEF OneToken
      <3>8. QED
        BY <2>2, <3>6, <3>7 DEF InItsStage
    <2>6. QED
      BY <2>4, <2>5
  <1>7. CASE s = Subject(p) /\ p \in Requests
    <2>1. current_state'[s] = to /\ IsValidTransition(from, to)
      BY <1>2, <1>7 DEF Core, LedgerTypeOK
    <2>2. \/ to = "FAILED" /\ Len(todo) = 1
          \/ \E g \in Gates : /\ to = g.next /\ todo[2] = publish(g.job) /\ 2 = Len(todo)
      <3>1. RequestShape(task[p].msg, todo, 1)
        BY <1>1, <1>7 DEF Shape
      <3>2. CASE todo[1] = advance("FAILED") /\ 1 = Len(todo)
        BY <1>1, <3>2 DEF advance
      <3>3. ASSUME NEW g \in Gates, 1 + 1 = Len(todo),
                   todo[1] = advance(g.next), todo[1+1] = publish(g.job)
            PROVE  to = g.next /\ todo[2] = publish(g.job) /\ 2 = Len(todo)
        BY <1>1, <3>3 DEF advance
      <3>4. todo[1][1] # "require" /\ todo[1] # publish(task[p].msg.job)
        BY <1>1 DEF publish
      <3>5. QED
        BY <3>1, <3>2, <3>3, <3>4 DEF RequestShape, advance
    <2>3. CASE to = "FAILED" /\ Len(todo) = 1
      <3>1. Tail(todo) \in Seq(AwaitStep) /\ Len(Tail(todo)) = 0
        BY <1>1, <2>3
      <3>2. ASSUME NEW rest \in Seq(AwaitStep), Len(rest) = 0
            PROVE  rest = <<>>
        BY <3>2
      <3>3. ~Works(s, p)'
        BY <1>3, <3>1, <3>2 DEF Works, AtStage
      <3>4. WorksLess(s)
        BY <1>2, <3>3, OthersWorkOn DEF WorksLess
      <3>5. QED
        BY <1>2, <2>1, <2>3, <3>4, FewerTokens DEF ErrorStates
    <2>4. ASSUME NEW g \in Gates, to = g.next, todo[2] = publish(g.job), 2 = Len(todo)
          PROVE  OneToken(s)' /\ InItsStage(s)'
      <3>1. from = g.at
        BY <2>1, <2>4, GateFacts
      <3>2. ASSUME NEW job
            PROVE  from \notin Stage(job) \cup ErrorStates
        BY <3>1, StageEntry
      <3>3. ASSUME NEW q \in WorkQueues, NEW i \in DOMAIN queue[q]
            PROVE  ~Waits(s, q, i)
        BY <3>2 DEF InItsStage
      <3>4. ASSUME NEW r \in Processes
            PROVE  ~Works(s, r)
        <4>1. SUFFICES ASSUME Works(s, r) PROVE FALSE
          OBVIOUS
        <4>2. PICK job : AtStage(r) = Stage(job)
          BY <4>1 DEF Works, AtStage
        <4>3. QED
          BY <3>2, <4>1, <4>2 DEF InItsStage
      <3>5. ASSUME NEW q \in WorkQueues, NEW i \in DOMAIN queue'[q]
            PROVE  ~Waits(s, q, i)'
        <4>1. Waits(s, q, i)' => Waits(s, q, i) /\ i \in DOMAIN queue[q]
          BY <1>2, <3>5 DEF QueuesWait, Waits, Stage
        <4>2. QED
          BY <3>3, <4>1
      <3>6. ASSUME NEW r \in Processes, Works(s, r)'
            PROVE  r = p
        BY <1>2, <3>4, <3>6, OthersWorkOn
      <3>7. Tail(todo)[1] = todo[2] /\ Tail(todo) # <<>>
        BY <1>1, <2>4, SecondIsLeft
      <3>8. AtStage(p)' = Stage(g.job)
        <4>1. task'[p].todo # <<>> /\ task'[p].todo[1] = publish(g.job)
          BY <1>3, <2>4, <3>7
        <4>2. QED
          BY <1>7, <4>1, AboutToPublish
      <3>9. Works(s, p)' => current_state'[s] \in AtStage(p)'
        BY <2>1, <2>4, <3>8, StageEntry DEF Works
      <3>10. QED
        BY <3>5, <3>6, <3>9 DEF OneToken, InItsStage
    <2>5. QED
      BY <2>2, <2>3, <2>4
  <1>8. p \in MgnWorkers \cup PollerWorkers \cup FailedQueues \cup Requests
    BY DEF Processes, Consumers
  <1>9. QED
    BY <1>4, <1>5, <1>6, <1>7, <1>8

(* A step that sends nothing and moves nobody.                             *)
LEMMA TokensStay ==
  ASSUME NEW s, OneToken(s), InItsStage(s), QueuesWait, WorksLess(s),
         UNCHANGED current_state
  PROVE  OneToken(s)' /\ InItsStage(s)'
  BY FewerTokens

LEMMA LeavingEndsWork ==
  ASSUME Core, NEW p \in Processes, Leave(p), NEW s
  PROVE  WorksLess(s)
  <1>1. OthersStay(p) /\ ~Works(s, p)'
    BY DEF Leave, OthersStay, Works, Busy, Core, TasksTypeOK
  <1>2. QED
    BY <1>1, OthersWorkOn DEF WorksLess

(* What the workers have in common.                                        *)
LEMMA SharedTokens ==
  ASSUME Core, NEW w \in Processes \ (Requests \cup Orphans),
         NEW s \in Servers, OneToken(s), InItsStage(s)
  PROVE  /\ CheckState(w) \/ Publish(w) \/ Finish(w) \/ Advance(w, "system")
              => OneToken(s)' /\ InItsStage(s)'
         /\ Busy(w) /\ Nack(w) => OneToken(s)' /\ InItsStage(s)'
  <1>1. w \in MgnWorkers \cup PollerWorkers \cup FailedQueues
    BY DEF Processes, Consumers
  <1>2. ASSUME CheckState(w)
        PROVE  OneToken(s)' /\ InItsStage(s)'
    <2>1. Doing(w, "require") /\ QueuesWait /\ UNCHANGED current_state
      BY <1>2 DEF CheckState, QueuesWait, ledgerVars
    <2>2. \E steps : ContinueWith(w, steps)
      BY <1>2 DEF CheckState, Proceed
    <2>3. WorksLess(s)
      BY <1>1, <2>1, <2>2, WorkerGoesOn
    <2>4. QED
      BY <2>1, <2>3, TokensStay
  <1>3. ASSUME Publish(w)
        PROVE  OneToken(s)' /\ InItsStage(s)'
    <2> DEFINE m == [NewMessage(Operand(w), task[w].msg.server, task[w].msg.aws)
                       EXCEPT !.phase = Head(task[w].todo)[3]]
    <2>1. m \in Message /\ m.server = Subject(w) /\ m.job = Operand(w)
      BY <1>3, Awaiting, AttemptsAssumption DEF Publish, NewMessage, Message, Subject
    <2>2. PublishMessage(m) /\ Doing(w, "publish") /\ Proceed(w) /\ UNCHANGED current_state
      BY <1>3 DEF Publish, ledgerVars
    <2> HIDE DEF m
    <2>3. w \notin FailedQueues
      BY <2>2, Awaiting, StageOfStep
    <2>4. Stage(m.job) = Stage(task[w].msg.job)
      <3>1. /\ task[w].todo[1][1] = "publish" /\ 1 \in DOMAIN task[w].todo
            /\ Operand(w) = task[w].todo[1][2] /\ Shape(w, task[w].msg, task[w].todo)
        BY <2>2, Awaiting
      <3>2. WorkerShape(task[w].msg, task[w].todo, 1)
        BY <3>1 DEF Shape
      <3>3. QED
        BY <2>1, <3>1, <3>2 DEF WorkerShape
    <2>5. Stage(m.job) = AtStage(w)
      BY <1>1, <2>2, <2>3, <2>4, Awaiting, StageOfStep
    <2>6. QED
      BY <2>1, <2>2, <2>5, ProcessSends
  <1>4. ASSUME Finish(w)
        PROVE  OneToken(s)' /\ InItsStage(s)'
    BY <1>4, LeavingEndsWork, TokensStay DEF Finish, QueuesWait, ledgerVars
  <1>5. ASSUME Busy(w), Nack(w)
        PROVE  OneToken(s)' /\ InItsStage(s)'
    <2>1. QueuesWait
      <3>1. DeadLetter(task[w].msg)
        BY <1>5 DEF Nack
      <3>2. QED
        BY <3>1, Names DEF DeadLetter, QueuesWait, Core, BrokerTypeOK
    <2>2. QED
      BY <1>5, <2>1, LeavingEndsWork, TokensStay DEF Nack, ledgerVars
  <1>6. Advance(w, "system") => OneToken(s)' /\ InItsStage(s)'
    BY TokenMoves
  <1>7. QED
    BY <1>2, <1>3, <1>4, <1>5, <1>6

LEMMA MgnTokens ==
  ASSUME Core, NEW w \in MgnWorkers, MgnWorkerStep(w),
         NEW s \in Servers, OneToken(s), InItsStage(s)
  PROVE  OneToken(s)' /\ InItsStage(s)'
  <1>1. w \in Processes \ (Requests \cup Orphans)
    BY ProcessesAssumption DEF Processes, Consumers
  <1>2. CASE ReceiveJob(w)
    <2>1. Deliver(w, MgnProgram(NextMessage(w)))
      BY <1>2 DEF ReceiveJob
    <2>2. NextMessage(w) \in Message /\ NextMessage(w).job \in MgnJobs
      BY <2>1, NextIsRouted
    <2>3. MgnProgram(NextMessage(w)) \in Seq(AwaitStep)
      BY <2>2, MgnProgramShape DEF Shaped
    <2>4. MgnProgram(NextMessage(w)) # <<>>
      <3> DEFINE first == <<"require", VALID_STATES_FOR_JOB[NextMessage(w).job]>>
                 rest == Handler[NextMessage(w).job]
      <3>1. first \in AwaitStep
        BY <2>2 DEF AwaitStep, MgnJobs, VALID_STATES_FOR_JOB, ServerState
      <3>2. rest \in Seq(AwaitStep)
        BY <2>2, HandlerShapes DEF Shaped
      <3> HIDE DEF first, rest
      <3>3. <<first>> \o rest # <<>>
        BY <3>1, <3>2, Prefixed
      <3>4. QED
        BY <3>3 DEF MgnProgram, first, rest
    <2>5. QED
      BY <2>1, <2>3, <2>4, TokenIsDelivered
  <1>3. ASSUME Call(w) \/ StoreAwsId(w)
        PROVE  OneToken(s)' /\ InItsStage(s)'
    <2>1. QueuesWait /\ UNCHANGED current_state /\ Proceed(w)
      BY <1>3 DEF Call, StoreAwsId, QueuesWait, ledgerVars, SetAwsSourceServerId
    <2>2. WorksLess(s)
      BY <1>3, <2>1, WorkerGoesOn DEF Call, StoreAwsId, Proceed
    <2>3. QED
      BY <2>1, <2>2, TokensStay
  <1>4. CASE JobFails(w)
    <2>1. Busy(w) /\ Nack(w)
      BY <1>4 DEF JobFails, AdvanceRaises, Doing
    <2>2. QED
      BY <1>1, <2>1, SharedTokens
  <1>5. QED
    BY <1>1, <1>2, <1>3, <1>4, SharedTokens DEF MgnWorkerStep

LEMMA PollerTokens ==
  ASSUME Core, NEW w \in PollerWorkers, PollerStep(w),
         NEW s \in Servers, OneToken(s), InItsStage(s)
  PROVE  OneToken(s)' /\ InItsStage(s)'
  <1>1. w \in Processes \ (Requests \cup Orphans)
    BY ProcessesAssumption DEF Processes, Consumers
  <1>2. CASE ReceivePoll(w)
    <2>1. Deliver(w, PollProgram(NextMessage(w)))
      BY <1>2 DEF ReceivePoll
    <2>2. PollProgram(NextMessage(w)) \in Seq(AwaitStep) /\ PollProgram(NextMessage(w)) # <<>>
      BY <2>1, NextIsRouted, PollerShapes DEF Shaped, PollProgram
    <2>3. QED
      BY <2>1, <2>2, TokenIsDelivered
  <1>3. CASE PollCompletes(w) \/ PollAgain(w)
    <2>1. /\ QueuesWait /\ UNCHANGED current_state /\ Doing(w, "poll")
          /\ \E steps : ContinueWith(w, steps)
      BY <1>3 DEF PollCompletes, PollAgain, QueuesWait, ledgerVars
    <2>2. WorksLess(s)
      BY <2>1, WorkerGoesOn
    <2>3. QED
      BY <2>1, <2>2, TokensStay
  <1>4. CASE Reenqueue(w)
    <2> DEFINE m == [task[w].msg EXCEPT !.attempt = @ + 1]
    <2>1. /\ Doing(w, "reenqueue") /\ PublishMessage(m) /\ Proceed(w)
          /\ UNCHANGED current_state
      BY <1>4 DEF Reenqueue, ledgerVars
    <2>2. task[w].msg \in Message /\ task[w].msg.attempt < MaxPollAttempts
      <3>1. /\ task[w].todo[1][1] = "reenqueue" /\ 1 \in DOMAIN task[w].todo
            /\ Shape(w, task[w].msg, task[w].todo) /\ task[w].msg \in Message
        BY <1>1, <2>1, Awaiting
      <3>2. QED
        BY <3>1 DEF Shape, StepShape
    <2>3. m \in Message /\ m.server = Subject(w) /\ m.job = task[w].msg.job
      BY <2>2, AttemptsAssumption DEF Message, Subject
    <2> HIDE DEF m
    <2>4. Stage(m.job) = AtStage(w)
      BY <1>1, <2>1, <2>3, Awaiting, StageOfStep
    <2>5. QED
      BY <1>1, <2>1, <2>3, <2>4, ProcessSends
  <1>5. CASE PollFails(w)
    <2>1. Busy(w) /\ Nack(w)
      BY <1>5 DEF PollFails, AdvanceRaises, Doing
    <2>2. QED
      BY <1>1, <2>1, SharedTokens
  <1>6. QED
    BY <1>1, <1>2, <1>3, <1>4, <1>5, SharedTokens DEF PollerStep

LEMMA RollbackTokens ==
  ASSUME Core, NEW w \in FailedQueues, RollbackStep(w),
         NEW s \in Servers, OneToken(s), InItsStage(s)
  PROVE  OneToken(s)' /\ InItsStage(s)'
  <1>1. w \in Processes \ (Requests \cup Orphans)
    BY ProcessesAssumption DEF Processes, Consumers
  <1>2. CASE ReceiveFailure(w)
    <2>1. Deliver(w, RollbackProgram)
      BY <1>2 DEF ReceiveFailure
    <2>2. RollbackProgram \in Seq(AwaitStep) /\ RollbackProgram # <<>>
      BY DEF RollbackProgram, AwaitStep
    <2>3. QED
      BY <2>1, <2>2, TokenIsDelivered
  <1>3. CASE Plan(w) \/ Undo(w)
    <2>1. QueuesWait /\ UNCHANGED current_state /\ OthersStay(w)
      BY <1>3 DEF Plan, Undo, Proceed, ContinueWith, QueuesWait, ledgerVars, OthersStay, Core,
                  TasksTypeOK
    <2>2. ~Works(s, w)'
      BY DEF Works, AtStage
    <2>3. WorksLess(s)
      BY <2>1, <2>2, OthersWorkOn DEF WorksLess
    <2>4. QED
      BY <2>1, <2>3, TokensStay
  <1>4. CASE RollbackFails(w)
    BY <1>1, <1>4, LeavingEndsWork, TokensStay DEF RollbackFails, QueuesWait, ledgerVars
  <1>5. QED
    BY <1>1, <1>2, <1>3, <1>4, SharedTokens DEF RollbackStep

LEMMA RequestTokens ==
  ASSUME Core, NEW r \in Requests, RequestStep(r),
         NEW s \in Servers, OneToken(s), InItsStage(s)
  PROVE  OneToken(s)' /\ InItsStage(s)'
  <1>1. r \in Processes \ Orphans
    BY ProcessesAssumption DEF Processes
  <1>2. CASE RequireState(r) \/ RequestFails(r) \/ Finish(r)
    <2>1. QueuesWait /\ UNCHANGED current_state
      BY <1>2 DEF RequireState, RequestFails, Finish, QueuesWait, ledgerVars
    <2>2. QED
      BY <1>2, <2>1, RequestGoesOn, TokensStay
  <1>3. CASE Publish(r)
    <2> DEFINE m == [NewMessage(Operand(r), task[r].msg.server, task[r].msg.aws)
                       EXCEPT !.phase = Head(task[r].todo)[3]]
    <2>1. m \in Message /\ m.server = Subject(r) /\ m.job = Operand(r)
      BY <1>1, <1>3, Awaiting, AttemptsAssumption DEF Publish, NewMessage, Message, Subject
    <2>2. PublishMessage(m) /\ Doing(r, "publish") /\ Proceed(r) /\ UNCHANGED current_state
      BY <1>3 DEF Publish, ledgerVars
    <2> HIDE DEF m
    <2>3. Stage(m.job) = AtStage(r)
      BY <1>1, <2>1, <2>2, Awaiting, StageOfStep
    <2>4. QED
      BY <1>1, <2>1, <2>2, <2>3, ProcessSends
  <1>4. QED
    BY <1>1, <1>2, <1>3, TokenMoves DEF RequestStep

-----------------------------------------------------------------------------
(* What engineers and operators ask for.                                   *)
LEMMA QuietHasNoToken ==
  ASSUME NEW s, Quiet(s)
  PROVE  NoToken(s)
  BY Names DEF Quiet, NoToken, Waits, Works, Queued, Range

(* A step without a process ends no work and begins none.                  *)
LEMMA WorkGoesOn ==
  ASSUME UNCHANGED task, NEW s
  PROVE  WorksLess(s)
  <1>1. \A p : AtStage(p)' = AtStage(p)
    BY DEF AtStage, Stage
  <1>2. QED
    BY <1>1 DEF WorksLess, Works, Busy, Subject

LEMMA NewRequestTokens ==
  ASSUME Core, NewRequest, NEW s \in Servers, OneToken(s), InItsStage(s)
  PROVE  OneToken(s)' /\ InItsStage(s)'
  <1> DEFINE Checks(steps) == steps # <<>> /\ steps[1][1] = "require"
  <1>1. PICK r \in Requests : \E t, id, job, steps : Request(r, t, id, job, steps) /\ Checks(steps)
    <2>1. \A job, to : Checks(<< <<"require", to>>, publish(job) >>)
      OBVIOUS
    <2>2. \A g : Checks(<< <<"require", g.at>>, advance(g.next), publish(g.job) >>)
      OBVIOUS
    <2>3. \A g : Checks(<< <<"require", g.at>>, advance("FAILED") >>)
      OBVIOUS
    <2> HIDE DEF Checks
    <2>4. QED
      BY <2>1, <2>2, <2>3, Zenon DEF NewRequest, StartServer, Configure, Approve, Reject
  <1>2. PICK t, id, job, steps : Request(r, t, id, job, steps) /\ Checks(steps)
    BY <1>1
  <1>3. /\ r \in Processes /\ OthersStay(r) /\ QueuesWait /\ UNCHANGED current_state
        /\ task'[r].todo = steps
    BY <1>2 DEF Request, Start, Processes, OthersStay, QueuesWait, ledgerVars, Core, TasksTypeOK
  <1>4. ~Works(s, r)'
    BY <1>2, <1>3, ProcessesAssumption DEF Works, AtStage
  <1>5. WorksLess(s)
    BY <1>3, <1>4, OthersWorkOn DEF WorksLess
  <1>6. QED
    BY <1>3, <1>5, TokensStay

LEMMA OperatorTokens ==
  ASSUME Core, Counters, ResetsAreCalm, NEW t \in Servers,
         Register(t) \/ Reset(t) \/ ManualAdvance(t),
         NEW s \in Servers, OneToken(s), InItsStage(s)
  PROVE  OneToken(s)' /\ InItsStage(s)'
  <1>1. UNCHANGED <<queue, task>>
    BY DEF Register, Reset, ManualAdvance
  <1>2. QueuesWait /\ WorksLess(s)
    BY <1>1, WorkGoesOn DEF QueuesWait
  <1>3. CASE s = t
    <2>1. NoToken(s)
      <3>1. CASE Register(t)
        <4>1. current_state[s] = NotRegistered
          BY <1>3, <3>1 DEF Register, RegisterServer, IsRegistered
        <4>2. ASSUME NEW p \in Processes, Works(s, p)
              PROVE  FALSE
          <5>1. PICK job : AtStage(p) = Stage(job)
            BY <4>2 DEF Works, AtStage
          <5>2. QED
            BY <4>1, <4>2, <5>1, StageFacts DEF InItsStage
        <4>3. QED
          BY <4>1, <4>2, StageFacts DEF InItsStage, NoToken
      <3>2. CASE Reset(t)
        BY <1>3, <3>2, ApiAssumption, QuietHasNoToken
           DEF Reset, CountHasty, Counters, ResetsAreCalm
      <3>3. CASE ManualAdvance(t)
        BY <1>3, <3>3, QuietHasNoToken DEF ManualAdvance
      <3>4. QED
        BY <3>1, <3>2, <3>3
    <2>2. NoToken(s)'
      BY <1>2, <2>1, FewerTokens
    <2>3. QED
      BY <2>2 DEF NoToken, OneToken, InItsStage
  <1>4. CASE s # t
    <2>1. current_state'[s] = current_state[s]
      BY <1>4 DEF Register, RegisterServer, Reset, ResetServer, ManualAdvance, AdvanceState,
                  MoveTo, Core, LedgerTypeOK
    <2>2. QED
      BY <1>2, <2>1, FewerTokens
  <1>5. QED
    BY <1>3, <1>4

LEMMA DispatchTokens ==
  ASSUME Core, NEW t \in Servers, ManualDispatch(t),
         NEW s \in Servers, OneToken(s), InItsStage(s)
  PROVE  OneToken(s)' /\ InItsStage(s)'
  <1>1. PICK job \in ManualJobs :
          /\ VALID_STATES_FOR_JOB[job] = current_state[t]
          /\ PublishMessage(NewMessage(job, t, aws_source_server_id[t]))
    BY DEF ManualDispatch
  <1> DEFINE m == NewMessage(job, t, aws_source_server_id[t])
  <1>2. m \in Message /\ m.server = t /\ m.job = job /\ job \in MgnJobs
    BY OrchestratorAssumption, AttemptsAssumption
       DEF NewMessage, Message, JobType, Core, LedgerTypeOK
  <1> HIDE DEF m
  <1>3. UNCHANGED <<current_state, task>>
    BY DEF ManualDispatch, ledgerVars
  <1>4. WorksLess(s)
    BY <1>3, WorkGoesOn
  <1>5. s = t => NoToken(s)
    BY QuietHasNoToken DEF ManualDispatch
  <1>6. ASSUME m.server = s, Stage(m.job) # {}
        PROVE  /\ \A q \in WorkQueues : \A i \in DOMAIN queue[q] : ~Waits(s, q, i)
               /\ \A p \in Processes : ~Works(s, p)'
               /\ current_state[s] \in Stage(m.job) \cup ErrorStates
    BY <1>1, <1>2, <1>4, <1>5, <1>6, StageFacts DEF NoToken, WorksLess
  <1>7. QED
    BY <1>1, <1>2, <1>3, <1>4, <1>6, TokenIsSent DEF m

LEMMA FaultTokens ==
  ASSUME Core, NEW p \in Processes \ Orphans, Fault(p),
         NEW s \in Servers, OneToken(s), InItsStage(s)
  PROVE  OneToken(s)' /\ InItsStage(s)'
  <1>1. Busy(p)
    BY FaultsAreLocal
  <1>2. CASE p \in MgnWorkers \cup PollerWorkers
    BY <1>1, <1>2, ProcessesAssumption, SharedTokens DEF Fault
  <1>3. CASE p \notin MgnWorkers \cup PollerWorkers
    BY <1>3, LeavingEndsWork, TokensStay DEF Fault, QueuesWait, ledgerVars
  <1>4. QED
    BY <1>2, <1>3

-----------------------------------------------------------------------------
Inv == Core /\ Counters /\ NoOrphans /\ Tokens

LEMMA TokensStep ==
  ASSUME Inv, ResetsAreCalm, [Next]_vars
  PROVE  Tokens'
  <1> SUFFICES ASSUME NEW s \in Servers
               PROVE  OneToken(s)' /\ InItsStage(s)'
    BY DEF Tokens
  <1>1. Core /\ Counters /\ OneToken(s) /\ InItsStage(s)
    BY DEF Inv, Tokens
  <1>2. ASSUME NEW w \in Consumers, ConsumerStep(w)
        PROVE  OneToken(s)' /\ InItsStage(s)'
    <2>1. \/ w \in MgnWorkers /\ MgnWorkerStep(w)
          \/ w \in PollerWorkers /\ PollerStep(w)
          \/ w \in FailedQueues /\ RollbackStep(w)
      BY <1>2, ProcessesAssumption DEF ConsumerStep, Consumers
    <2>2. QED
      BY <1>1, <2>1, MgnTokens, PollerTokens, RollbackTokens
  <1>3. CASE UNCHANGED vars
    <2>1. QueuesWait /\ WorksLess(s) /\ UNCHANGED current_state
      BY <1>3, WorkGoesOn DEF vars, ledgerVars, QueuesWait
    <2>2. QED
      BY <1>1, <2>1, TokensStay
  <1>4. /\ \A group \in ProcessGroups : ~Crash(group)
        /\ \A w \in Consumers, o \in Orphans : ~LoseConnection(w, o)
        /\ \A o \in Orphans : ~ConsumerStep(o) /\ ~Fault(o)
    BY NoOrphanStep DEF Inv, ResetsAreCalm
  <1>5. QED
    BY <1>1, <1>2, <1>3, <1>4, RequestTokens, NewRequestTokens, OperatorTokens, DispatchTokens,
       FaultTokens DEF Next

(* What is counted are tokens, because the jobs of poll_jobs and of the    *)
(* pollers are polls.                                                      *)
LEMMA OneTokenPolls ==
  ASSUME Core, Tokens
  PROVE  OnePollPerOperation
  <1> SUFFICES ASSUME NEW s \in Servers
               PROVE  LET waiting == {i \in DOMAIN queue["poll_jobs"] : queue["poll_jobs"][i].server = s}
                          decided(p) == task[p].todo = <<>>
                          held == {p \in PollerWorkers : Busy(p) /\ Subject(p) = s /\ ~decided(p)}
                      IN Cardinality(waiting) + Cardinality(held) <= 1
    BY DEF OnePollPerOperation
  <1> DEFINE waiting == {i \in DOMAIN queue["poll_jobs"] : queue["poll_jobs"][i].server = s}
             held == {p \in PollerWorkers : Busy(p) /\ Subject(p) = s /\ task[p].todo # <<>>}
  <1>1. \A i \in waiting : Waits(s, "poll_jobs", i)
    BY StageFacts, Names DEF Waits, Core, JobsRouted
  <1>2. \A p \in held : Works(s, p) /\ p \in Processes
    <2> SUFFICES ASSUME NEW p \in held PROVE Works(s, p) /\ p \in Processes
      OBVIOUS
    <2>1. p \in Processes /\ p \in PollerWorkers /\ p \notin Requests \cup FailedQueues
      BY ProcessesAssumption DEF Processes, Consumers
    <2>2. task[p].msg.job \in PollJobs
      BY <2>1 DEF Core, TasksShape, Shape
    <2>3. QED
      BY <2>1, <2>2, StageFacts DEF Works, AtStage
  <1>3. "poll_jobs" \in WorkQueues /\ OneToken(s)
    BY Names DEF Tokens
  <1>4. \A i, j \in waiting : i = j
    BY <1>1, <1>3 DEF OneToken
  <1>5. \A p, r \in held : p = r
    BY <1>2, <1>3 DEF OneToken
  <1>6. waiting = {} \/ held = {}
    BY <1>1, <1>2, <1>3 DEF OneToken
  <1> HIDE DEF waiting, held
  <1>7. ASSUME NEW S, \A x, y \in S : x = y
        PROVE  (S = {} /\ Cardinality(S) = 0) \/ Cardinality(S) = 1
    <2>1. CASE S = {}
      BY <2>1, FS_EmptySet
    <2>2. ASSUME NEW x \in S
          PROVE  Cardinality(S) = 1
      <3>1. S = {x}
        BY <1>7
      <3>2. QED
        BY <3>1, FS_Singleton
    <2>3. QED
      BY <2>1, <2>2
  <1>8. Cardinality(waiting) \in {0, 1} /\ Cardinality(held) \in {0, 1}
    BY <1>4, <1>5, <1>7
  <1>9. Cardinality(waiting) = 0 \/ Cardinality(held) = 0
    BY <1>6, FS_EmptySet
  <1>10. Cardinality(waiting) + Cardinality(held) <= 1
    BY <1>8, <1>9
  <1>11. QED
    BY <1>10 DEF waiting, held

(* One chain of messages polls an operation, whatever else engineers ask   *)
(* for, whatever raises, and however many replicas there are, as long as   *)
(* nothing is killed and a server is reset when the system is done with it.*)
THEOREM OnePollHolds ==
  ASSUME ResetsAreCalm
  PROVE  Spec => []OnePollPerOperation
  <1>1. Init => Inv
    <2>1. Init => Counters
      BY ApiAssumption, OrchestratorAssumption DEF Init, Counters
    <2>2. Init => NoOrphans /\ Tokens
      <3> SUFFICES ASSUME Init PROVE NoOrphans /\ Tokens
        OBVIOUS
      <3>1. /\ \A p \in Processes : ~Busy(p)
            /\ \A q \in WorkQueues : DOMAIN queue[q] = {}
        BY DEF Init, TasksInit, Busy, BrokerInit
      <3>2. \A s : NoToken(s)
        BY <3>1 DEF NoToken, Works
      <3>3. QED
        BY <3>1, <3>2, NoTokenIsFine DEF NoOrphans, Processes, Tokens
    <2>3. QED
      BY <2>1, <2>2, InitCore DEF Inv
  <1>2. Inv /\ [Next]_vars => Inv'
    BY CoreStep, CountersStep, NoOrphanStep, TokensStep DEF Inv, ResetsAreCalm
  <1>3. Inv => OnePollPerOperation
    BY OneTokenPolls DEF Inv
  <1>4. QED
    BY <1>1, <1>2, <1>3, PTL DEF Spec
=============================================================================
