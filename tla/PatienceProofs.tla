--------------------------- MODULE PatienceProofs ---------------------------
(***************************************************************************)
(* What holds when engineers wait for the system to be done with a server  *)
(* before they ask for anything about it, whatever crashes, loses its      *)
(* connection or raises: a request has its server to itself, so that it is *)
(* still where the request found it when it moves it, and no rollback that *)
(* was planned before the cutover can be overtaken by it.  If processes    *)
(* are killed and nothing else goes wrong, the configure job of a server   *)
(* is its only message as well, and its gate holds.                        *)
(***************************************************************************)
EXTENDS OrchestratorProofs

AllQueues == WorkQueues \cup FailedQueues

(* A process that has still something to do for a server.                  *)
Pending(s, p) == Busy(p) /\ Subject(p) = s /\ task[p].todo # <<>>

(* Nothing but one process has to do with a server.                        *)
Alone(s, r) ==
  /\ \A q \in AllQueues : \A i \in DOMAIN queue[q] : queue[q][i].server # s
  /\ \A p \in Processes \ {r} : Busy(p) => Subject(p) # s

RequestsAreAlone == \A s \in Servers : \A r \in Requests : Pending(s, r) => Alone(s, r)

(* A rollback that is to end in FAILED, and the states it may end.         *)
Fails(todo) == \E i \in DOMAIN todo : todo[i] = advance("FAILED")

WillFail(p) == Busy(p) /\ Fails(task[p].todo)

MayFail == BeforeCutover \cup ErrorStates \cup {NotRegistered}

FailuresAreEarly ==
  \A p \in Processes \ Requests : WillFail(p) => current_state[Subject(p)] \in MayFail

(* A request that is about to reject has found its server at a gate.       *)
Rejects(r) == Busy(r) /\ task[r].todo = << advance("FAILED") >>

RejectionsAreAtGates ==
  \A r \in Requests : Rejects(r) => current_state[Subject(r)] \in InProgressStates

Patience == MaxHasty = 0 /\ "system" \notin Engineers

Inv ==
  /\ Core /\ Counters
  /\ RequestsAreAlone /\ FailuresAreEarly /\ RejectionsAreAtGates
  /\ CutoverFailureIsFrozen

-----------------------------------------------------------------------------
(* What a process can do to the others: it sends messages about no other   *)
(* server than its own, and gets a new one from a queue.                   *)
Contained(p) ==
  /\ OthersStay(p)
  /\ \A q \in AllQueues : \A i \in DOMAIN queue'[q] :
       \/ \E j \in DOMAIN queue[q] : queue'[q][i].server = queue[q][j].server
       \/ Busy(p) /\ queue'[q][i].server = Subject(p)
  /\ Busy(p)' =>
       \/ Busy(p) /\ Subject(p)' = Subject(p)
       \/ /\ ~Busy(p)
          /\ \E q \in AllQueues : \E j \in DOMAIN queue[q] :
               q = SourceQueue(p) /\ Subject(p)' = queue[q][j].server

LEMMA QueuesAreSequences ==
  ASSUME Core, NEW q \in AllQueues
  PROVE  queue[q] \in Seq(Message) /\ DOMAIN queue = AllQueues
  BY DEF Core, BrokerTypeOK, AllQueues

LEMMA Sending ==
  ASSUME Core, NEW s, NEW m
  PROVE  LET Same(q, i) == \E j \in DOMAIN queue[q] : queue'[q][i].server = queue[q][j].server
         IN /\ (PublishMessage(m) \/ DeadLetter(m)) /\ m.server = s =>
                 \A q \in AllQueues : \A i \in DOMAIN queue'[q] :
                   Same(q, i) \/ queue'[q][i].server = s
            /\ (\E k : Take(k)) \/ UNCHANGED queue =>
                 \A q \in AllQueues : \A i \in DOMAIN queue'[q] : Same(q, i)
  <1> DEFINE Same(q, i) == \E j \in DOMAIN queue[q] : queue'[q][i].server = queue[q][j].server
  <1>1. ASSUME NEW k, queue' = [queue EXCEPT ![k] = Append(queue[k], m)], m.server = s,
               NEW q \in AllQueues, NEW i \in DOMAIN queue'[q]
        PROVE  Same(q, i) \/ queue'[q][i].server = s
    <2>1. CASE q = k
      <3>1. queue[q] \in Seq(Message) /\ queue'[q] = Append(queue[q], m)
        BY <1>1, <2>1, QueuesAreSequences
      <3>2. (i \in DOMAIN queue[q] /\ queue'[q][i] = queue[q][i]) \/ queue'[q][i] = m
        BY <3>1
      <3>3. QED
        BY <1>1, <3>2
    <2>2. CASE q # k
      BY <1>1, <2>2, QueuesAreSequences
    <2>3. QED
      BY <2>1, <2>2
  <1>2. ASSUME NEW k, Take(k), NEW q \in AllQueues, NEW i \in DOMAIN queue'[q]
        PROVE  Same(q, i)
    <2>1. CASE q = k
      <3>1. queue[q] \in Seq(Message) /\ queue'[q] = Tail(queue[q]) /\ queue[q] # <<>>
        BY <1>2, <2>1, QueuesAreSequences DEF Take
      <3>2. i + 1 \in DOMAIN queue[q] /\ queue'[q][i] = queue[q][i+1]
        BY <1>2, <3>1
      <3>3. QED
        BY <3>2
    <2>2. CASE q # k
      BY <1>2, <2>2, QueuesAreSequences DEF Take
    <2>3. QED
      BY <2>1, <2>2
  <1>3. PublishMessage(m) \/ DeadLetter(m) =>
          \E k : queue' = [queue EXCEPT ![k] = Append(queue[k], m)]
    BY DEF PublishMessage, DeadLetter
  <1>4. QED
    BY <1>1, <1>2, <1>3

LEMMA ContainedSteps ==
  ASSUME Core, NEW p \in Processes
  PROVE  ConsumerStep(p) \/ RequestStep(p) \/ Fault(p) => Contained(p)
  <1> DEFINE Inbox == \A q \in AllQueues : \A i \in DOMAIN queue'[q] :
                        \/ \E j \in DOMAIN queue[q] : queue'[q][i].server = queue[q][j].server
                        \/ Busy(p) /\ queue'[q][i].server = Subject(p)
             Same == Busy(p) /\ (Busy(p)' => Subject(p)' = Subject(p))
             Got  == \E q \in AllQueues : \E j \in DOMAIN queue[q] :
                       q = SourceQueue(p) /\ Subject(p)' = queue[q][j].server
             Good == Inbox /\ (Same \/ (~Busy(p) /\ Got))
  <1>1. UNCHANGED queue => Inbox
    BY Sending
  <1>2. ASSUME NEW m, PublishMessage(m) \/ DeadLetter(m), Busy(p), m.server = Subject(p)
        PROVE  Inbox
    BY <1>2, Sending
  <1>3. /\ \A steps : Busy(p) /\ ContinueWith(p, steps) => Same
        /\ Busy(p) /\ Proceed(p) => Same
        /\ Busy(p) /\ Leave(p) => Same
    BY DEF Core, TasksTypeOK, Task, Busy, Subject, ContinueWith, Proceed, Leave
  <1>4. ASSUME NEW steps, Deliver(p, steps)
        PROVE  Good
    <2>1. Inbox
      BY <1>4, Sending DEF Deliver
    <2>2. /\ SourceQueue(p) \in AllQueues
          /\ queue[SourceQueue(p)] \in Seq(Message) /\ queue[SourceQueue(p)] # <<>>
      BY <1>4, Names DEF Deliver, Take, SourceQueue, Consumers, AllQueues, Core, BrokerTypeOK
    <2>3. NextMessage(p) = queue[SourceQueue(p)][1] /\ 1 \in DOMAIN queue[SourceQueue(p)]
      BY <2>2 DEF NextMessage
    <2>4. Subject(p)' = NextMessage(p).server
      BY <1>4 DEF Deliver, Start, Core, TasksTypeOK, Subject
    <2>5. ~Busy(p)
      BY <1>4 DEF Deliver, Start
    <2>6. QED
      BY <2>1, <2>2, <2>3, <2>4, <2>5
  <1>5. ASSUME Nack(p), Busy(p)
        PROVE  Good
    BY <1>1, <1>2, <1>3, <1>5 DEF Nack, Subject
  <1>6. ASSUME Publish(p)
        PROVE  Good
    <2> DEFINE m == [NewMessage(Operand(p), task[p].msg.server, task[p].msg.aws)
                       EXCEPT !.phase = Head(task[p].todo)[3]]
    <2>1. PublishMessage(m) /\ Busy(p) /\ Proceed(p)
      BY <1>6 DEF Publish, Doing
    <2>2. m.server = Subject(p)
      BY DEF NewMessage, Subject
    <2> HIDE DEF m
    <2>3. QED
      BY <1>2, <1>3, <2>1, <2>2
  <1>7. ASSUME Reenqueue(p)
        PROVE  Good
    <2> DEFINE m == [task[p].msg EXCEPT !.attempt = @ + 1]
    <2>1. PublishMessage(m) /\ Busy(p) /\ Proceed(p) /\ task[p].msg \in Message
      BY <1>7, Awaiting DEF Reenqueue, Doing
    <2>2. m.server = Subject(p)
      BY <2>1 DEF Message, Subject
    <2> HIDE DEF m
    <2>3. QED
      BY <1>2, <1>3, <2>1, <2>2
  <1>8. ASSUME Plan(p) \/ RequireState(p)
        PROVE  Good
    <2>1. Busy(p) /\ task[p].msg \in Message
      BY <1>8, Awaiting DEF Plan, RequireState, Doing
    <2>2. Same
      <3>1. ASSUME NEW id, NEW steps,
                   task' = [task EXCEPT ![p] = [task[p] EXCEPT !.msg.aws = id, !.todo = steps]]
            PROVE  Same
        <4> DEFINE t == [task[p] EXCEPT !.msg.aws = id, !.todo = steps]
        <4>1. t.msg.server = task[p].msg.server
          BY <2>1, Awaiting DEF Core, TasksTypeOK, Busy, Task, Message
        <4>2. task' = [task EXCEPT ![p] = t]
          BY <3>1
        <4> HIDE DEF t
        <4>3. QED
          BY <2>1, <4>1, <4>2 DEF Core, TasksTypeOK, Subject
      <3>2. QED
        BY <1>8, <3>1 DEF Plan, RequireState
    <2>3. QED
      BY <1>1, <1>8, <2>2 DEF Plan, RequireState
  <1>9. /\ \A by : Advance(p, by) => Good
        /\ CheckState(p) \/ Finish(p) => Good
    BY <1>1, <1>3 DEF Advance, CheckState, Finish, Doing
  <1> HIDE DEF Good
  <1>10. MgnWorkerStep(p) => Good
    <2>1. Call(p) \/ StoreAwsId(p) => Good
      BY <1>1, <1>3 DEF Call, StoreAwsId, Doing, Good
    <2>2. JobFails(p) => Good
      BY <1>5 DEF JobFails, AdvanceRaises, Doing
    <2>3. QED
      BY <1>4, <1>6, <1>9, <2>1, <2>2 DEF MgnWorkerStep, ReceiveJob
  <1>11. PollerStep(p) => Good
    <2>1. PollCompletes(p) \/ PollAgain(p) => Good
      BY <1>1, <1>3 DEF PollCompletes, PollAgain, Doing, Good
    <2>2. PollFails(p) => Good
      BY <1>5 DEF PollFails, AdvanceRaises, Doing
    <2>3. QED
      BY <1>4, <1>6, <1>7, <1>9, <2>1, <2>2 DEF PollerStep, ReceivePoll
  <1>12. RollbackStep(p) => Good
    <2>1. Undo(p) \/ RollbackFails(p) => Good
      BY <1>1, <1>3 DEF Undo, RollbackFails, AdvanceRaises, Doing, Good
    <2>2. QED
      BY <1>4, <1>8, <1>9, <2>1 DEF RollbackStep, ReceiveFailure
  <1>13. RequestStep(p) => Good
    <2>1. RequestFails(p) => Good
      BY <1>1, <1>3 DEF RequestFails, AdvanceRaises, Doing, Good
    <2>2. QED
      BY <1>6, <1>8, <1>9, <2>1 DEF RequestStep
  <1>14. Fault(p) => Good
    <2>1. Leave(p) /\ UNCHANGED queue /\ Busy(p) => Good
      BY <1>1, <1>3 DEF Good
    <2>2. QED
      BY <1>5, <2>1 DEF Fault, Doing
  <1>15. ConsumerStep(p) \/ RequestStep(p) \/ Fault(p) => Good /\ OthersStay(p)
    BY <1>10, <1>11, <1>12, <1>13, <1>14, StepsAreLocal, FaultsAreLocal DEF ConsumerStep
  <1>16. QED
    BY <1>15 DEF Contained, Good

-----------------------------------------------------------------------------
(* A request keeps its server to itself: it publishes with its last await. *)
LEMMA AloneIsKept ==
  ASSUME Core, NEW p \in Processes, Contained(p),
         NEW s, NEW r \in Requests, r # p, Alone(s, r)
  PROVE  Alone(s, r)'
  <1>1. Busy(p) => Subject(p) # s
    BY DEF Alone
  <1>2. \A q \in AllQueues : \A i \in DOMAIN queue'[q] : queue'[q][i].server # s
    BY <1>1 DEF Contained, Alone
  <1>3. Busy(p)' => Subject(p)' # s
    BY <1>1 DEF Contained, Alone
  <1>4. ASSUME NEW v \in Processes \ {r}
        PROVE  Busy(v)' => Subject(v)' # s
    <2>1. v # p => Busy(v)' = Busy(v) /\ Subject(v)' = Subject(v)
      BY DEF Contained, OthersStay, Busy, Subject
    <2>2. QED
      BY <1>3, <1>4, <2>1 DEF Alone
  <1>5. QED
    BY <1>2, <1>4 DEF Alone

LEMMA OwnSteps ==
  ASSUME Core, NEW r \in Requests, RequestStep(r) \/ Fault(r), NEW s, Pending(s, r)'
  PROVE  Pending(s, r) /\ UNCHANGED queue
  <1>1. r \in Processes /\ r \notin MgnWorkers \cup PollerWorkers
    BY ProcessesAssumption DEF Processes
  <1>2. Contained(r)
    BY <1>1, ContainedSteps
  <1>3. ~Leave(r)
    BY <1>1 DEF Leave, Core, TasksTypeOK, Pending, Busy
  <1>4. ~Fault(r)
    BY <1>1, <1>3 DEF Fault
  <1>5. ~RequestFails(r) /\ ~Finish(r)
    BY <1>3 DEF RequestFails, Finish
  <1>6. ~Publish(r)
    <2> SUFFICES ASSUME Publish(r) PROVE FALSE
      OBVIOUS
    <2>1. Doing(r, "publish") /\ Proceed(r)
      BY DEF Publish
    <2>2. /\ task[r].todo \in Seq(AwaitStep) /\ task[r].todo # <<>>
          /\ StepShape(task[r].msg, task[r].todo, 1) /\ task[r].todo[1][1] = "publish"
      BY <1>1, <2>1, Awaiting DEF Shape
    <2>3. Len(task[r].todo) = 1
      BY <2>2 DEF StepShape
    <2>4. Tail(task[r].todo) = <<>>
      <3>1. ASSUME NEW rest \in Seq(AwaitStep), Len(rest) = 0
            PROVE  rest = <<>>
        BY <3>1
      <3>2. Tail(task[r].todo) \in Seq(AwaitStep) /\ Len(Tail(task[r].todo)) = 0
        BY <2>2, <2>3
      <3>3. QED
        BY <3>1, <3>2
    <2>5. task'[r].todo = <<>>
      BY <1>1, <2>1, <2>4 DEF Proceed, ContinueWith, Core, TasksTypeOK, Task, Doing, Busy
    <2>6. QED
      BY <2>5 DEF Pending
  <1>7. RequireState(r) \/ \E by \in Engineers : Advance(r, by)
    BY <1>4, <1>5, <1>6 DEF RequestStep
  <1>8. UNCHANGED queue /\ Busy(r) /\ task[r].todo # <<>>
    BY <1>7 DEF RequireState, Advance, Doing
  <1>9. Subject(r)' = Subject(r)
    <2>1. ~ \E steps : Deliver(r, steps)
      BY ProcessesAssumption DEF Deliver, Consumers
    <2>2. CASE RequireState(r)
      <3> DEFINE id == IF task[r].msg.aws = Null THEN aws_source_server_id[Subject(r)]
                                                 ELSE task[r].msg.aws
                 steps == IF current_state[Subject(r)] = Operand(r) THEN Tail(task[r].todo)
                                                                    ELSE <<>>
                 t == [task[r] EXCEPT !.msg.aws = id, !.todo = steps]
      <3>1. task' = [task EXCEPT ![r] = t]
        BY <2>2 DEF RequireState
      <3>2. t.msg.server = task[r].msg.server
        BY <1>1, <1>8 DEF Core, TasksTypeOK, Busy, Task, Message
      <3> HIDE DEF t
      <3>3. QED
        BY <1>1, <3>1, <3>2 DEF Core, TasksTypeOK, Subject
    <2>3. ASSUME NEW by, Advance(r, by)
          PROVE  Subject(r)' = Subject(r)
      BY <1>1, <1>8, <2>3 DEF Advance, Proceed, ContinueWith, Core, TasksTypeOK, Task, Busy, Subject
    <2>4. QED
      BY <1>7, <2>2, <2>3
  <1>10. QED
    BY <1>8, <1>9 DEF Pending

(* When engineers wait, they ask only about servers that are quiet.        *)
LEMMA NothingIsHasty ==
  ASSUME Counters, MaxHasty = 0, NEW s, CountHasty(s)
  PROVE  Quiet(s)
  BY DEF CountHasty, Counters

LEMMA QuietMeans ==
  ASSUME Core, NEW s, Quiet(s)
  PROVE  /\ \A q \in AllQueues : \A i \in DOMAIN queue[q] : queue[q][i].server # s
         /\ \A p \in Processes : Busy(p) => Subject(p) # s
  <1>1. ASSUME NEW q \in AllQueues, NEW i \in DOMAIN queue[q]
        PROVE  queue[q][i].server # s
    <2>1. queue[q][i] \in Queued(q)
      BY <1>1 DEF Queued, Range
    <2>2. QED
      BY <1>1, <2>1 DEF Quiet, AllQueues
  <1>2. QED
    BY <1>1 DEF Quiet

LEMMA RequestsAreAloneStep ==
  ASSUME Core, Counters, RequestsAreAlone, MaxHasty = 0, [Next]_vars
  PROVE  RequestsAreAlone'
  <1> SUFFICES ASSUME NEW s \in Servers, NEW r \in Requests, Pending(s, r)'
               PROVE  Alone(s, r)'
    BY DEF RequestsAreAlone
  <1>1. r \in Processes
    BY DEF Processes
  <1>2. task'[r] = task[r] => Pending(s, r) /\ Alone(s, r)
    BY DEF RequestsAreAlone, Pending, Busy, Subject
  <1>3. ASSUME NEW p \in Processes, ConsumerStep(p) \/ RequestStep(p) \/ Fault(p),
               p = r => RequestStep(p) \/ Fault(p)
        PROVE  Alone(s, r)'
    <2>1. Contained(p)
      BY <1>3, ContainedSteps
    <2>2. CASE p # r
      BY <1>1, <1>2, <2>1, <2>2, AloneIsKept DEF Contained, OthersStay
    <2>3. CASE p = r
      <3>1. Pending(s, r) /\ UNCHANGED queue
        BY <1>3, <2>3, OwnSteps
      <3>2. Alone(s, r)
        BY <3>1 DEF RequestsAreAlone
      <3>3. QED
        BY <2>1, <2>3, <3>1, <3>2 DEF Alone, Contained, OthersStay, Busy, Subject
    <2>4. QED
      BY <2>2, <2>3
  <1>4. ASSUME NewRequest
        PROVE  Alone(s, r)'
    <2>1. PICK r0 \in Requests, s0 \in Servers :
            \E id, job, steps : Request(r0, s0, id, job, steps)
      BY <1>4, Zenon DEF NewRequest, StartServer, Configure, Approve, Reject
    <2>2. PICK id, job, steps : Request(r0, s0, id, job, steps)
      BY <2>1
    <2>3. /\ Quiet(s0) /\ UNCHANGED queue /\ ~Busy(r0)
          /\ task' = [task EXCEPT ![r0] = [msg |-> NewMessage(job, s0, id), todo |-> steps]]
      BY <2>2, NothingIsHasty DEF Request, Start
    <2>4. Subject(r0)' = s0 /\ OthersStay(r0)
      BY <2>3 DEF Processes, Subject, NewMessage, OthersStay, Core, TasksTypeOK
    <2>5. CASE r = r0
      <3>1. s = s0
        BY <2>4, <2>5 DEF Pending
      <3>2. QED
        BY <2>3, <2>4, <2>5, <3>1, QuietMeans DEF Alone, OthersStay, Busy, Subject
    <2>6. CASE r # r0
      <3>1. Pending(s, r) /\ Alone(s, r)
        BY <1>1, <1>2, <2>4, <2>6 DEF OthersStay
      <3>2. s0 # s
        BY <1>1, <2>3, <3>1, QuietMeans DEF Pending
      <3>3. ASSUME NEW v \in Processes \ {r}
            PROVE  Busy(v)' => Subject(v)' # s
        BY <2>4, <3>1, <3>2, <3>3 DEF Alone, OthersStay, Busy, Subject
      <3>4. QED
        BY <2>3, <3>1, <3>3 DEF Alone
    <2>7. QED
      BY <2>5, <2>6
  <1>5. ASSUME UNCHANGED <<task, queue>>
        PROVE  Alone(s, r)'
    BY <1>2, <1>5 DEF Alone, Busy, Subject
  <1>6. ASSUME NEW t \in Servers, ManualDispatch(t)
        PROVE  Alone(s, r)'
    <2>1. Quiet(t) /\ UNCHANGED task /\ Pending(s, r) /\ Alone(s, r)
      BY <1>2, <1>6 DEF ManualDispatch
    <2>2. s # t
      BY <1>1, <2>1, QuietMeans DEF Pending
    <2>3. PICK job \in ManualJobs : PublishMessage(NewMessage(job, t, aws_source_server_id[t]))
      BY <1>6 DEF ManualDispatch
    <2>4. NewMessage(job, t, aws_source_server_id[t]).server = t
      BY DEF NewMessage
    <2>5. \A q \in AllQueues : \A i \in DOMAIN queue'[q] : queue'[q][i].server # s
      BY <2>1, <2>2, <2>3, <2>4, Sending DEF Alone
    <2>6. QED
      BY <2>1, <2>5 DEF Alone, Busy, Subject
  <1>7. ASSUME NEW group \in ProcessGroups, Crash(group)
        PROVE  Alone(s, r)'
    <2>1. task' = [p \in Processes |-> IF p \in group THEN NoTask ELSE task[p]]
      BY <1>7 DEF Crash
    <2>2. \A p \in Processes : Busy(p)' => p \notin group /\ task'[p] = task[p] /\ Busy(p)
      BY <2>1 DEF Busy
    <2>3. Pending(s, r) /\ Alone(s, r)
      BY <1>1, <1>2, <2>2 DEF Pending
    <2>4. ASSUME NEW q \in AllQueues, NEW i \in DOMAIN queue'[q]
          PROVE  queue'[q][i].server # s
      <3>1. CASE \E w \in group \cap Consumers : Busy(w) /\ SourceQueue(w) = q
        <4>1. PICK w \in group \cap Consumers : Busy(w) /\ SourceQueue(w) = q
          BY <3>1
        <4> DEFINE c == CHOOSE v \in group \cap Consumers : SourceQueue(v) = q
        <4>2. c \in group \cap Consumers /\ SourceQueue(c) = q
          BY <4>1
        <4>3. queue'[q] = <<task[c].msg>> \o queue[q]
          BY <1>7, <3>1, QueuesAreSequences DEF Crash
        <4> HIDE DEF c
        <4>4. c = w
          BY <4>1, <4>2, OneConsumerPerQueue
        <4>5. /\ w \in Processes \ {r} /\ task[w].msg \in Message
              /\ queue[q] \in Seq(Message)
          BY <4>1, ProcessesAssumption, QueuesAreSequences
             DEF Processes, Consumers, Busy, Core, TasksTypeOK, Task
        <4>6. Subject(w) # s
          BY <2>3, <4>1, <4>5 DEF Alone
        <4> DEFINE new == <<task[w].msg>> \o queue[q]
        <4>7. /\ new[1] = task[w].msg
              /\ \A k \in DOMAIN queue[q] : new[k+1] = queue[q][k]
              /\ \A k \in DOMAIN new : k = 1 \/ k - 1 \in DOMAIN queue[q]
              /\ DOMAIN new \subseteq Int
          BY <4>5, Prefixed
        <4>8. i \in DOMAIN new /\ queue'[q][i] = new[i]
          BY <2>4, <4>3, <4>4
        <4> HIDE DEF new
        <4>9. i = 1 \/ (i - 1 \in DOMAIN queue[q] /\ new[i] = queue[q][i-1])
          BY <4>7, <4>8
        <4>10. QED
          BY <2>3, <2>4, <4>6, <4>7, <4>8, <4>9 DEF Alone, Subject
      <3>2. CASE ~ \E w \in group \cap Consumers : Busy(w) /\ SourceQueue(w) = q
        BY <1>7, <2>3, <2>4, <3>2, QueuesAreSequences DEF Crash, Alone
      <3>3. QED
        BY <3>1, <3>2
    <2>5. ASSUME NEW v \in Processes \ {r}
          PROVE  Busy(v)' => Subject(v)' # s
      BY <2>2, <2>3 DEF Alone, Subject
    <2>6. QED
      BY <2>4, <2>5 DEF Alone
  <1>8. ASSUME NEW w \in Consumers, NEW orphan \in Orphans, LoseConnection(w, orphan)
        PROVE  Alone(s, r)'
    <2>1. /\ w \in Processes \ {r} /\ orphan \in Processes \ {r} /\ Busy(w) /\ w # orphan
          /\ task' = [task EXCEPT ![orphan] = task[w], ![w] = NoTask]
      BY <1>8, ProcessesAssumption DEF Processes, Consumers, LoseConnection
    <2>2. task'[r] = task[r] /\ Pending(s, r) /\ Alone(s, r)
      BY <1>1, <1>2, <2>1 DEF Core, TasksTypeOK
    <2>3. Subject(w) # s
      BY <2>1, <2>2 DEF Alone
    <2>4. ASSUME NEW v \in Processes \ {r}
          PROVE  Busy(v)' => Subject(v)' # s
      <3>1. CASE v = orphan
        BY <2>1, <2>3, <3>1 DEF Core, TasksTypeOK, Subject
      <3>2. CASE v = w
        BY <2>1, <3>2 DEF Core, TasksTypeOK, Busy
      <3>3. CASE v # w /\ v # orphan
        BY <2>1, <2>2, <3>3 DEF Core, TasksTypeOK, Alone, Busy, Subject
      <3>4. QED
        BY <3>1, <3>2, <3>3
    <2>5. ASSUME NEW q \in AllQueues, NEW i \in DOMAIN queue'[q]
          PROVE  queue'[q][i].server # s
      <3>1. CASE q = SourceQueue(w)
        <4> DEFINE new == <<task[w].msg>> \o queue[q]
        <4>1. task[w].msg \in Message /\ queue[q] \in Seq(Message)
          BY <2>1, QueuesAreSequences DEF Busy, Core, TasksTypeOK, Task
        <4>2. /\ new[1] = task[w].msg
              /\ \A k \in DOMAIN queue[q] : new[k+1] = queue[q][k]
              /\ \A k \in DOMAIN new : k = 1 \/ k - 1 \in DOMAIN queue[q]
              /\ DOMAIN new \subseteq Int
          BY <4>1, Prefixed
        <4>3. queue'[q] = new
          BY <1>8, <3>1, QueuesAreSequences DEF LoseConnection
        <4> HIDE DEF new
        <4>4. i = 1 \/ (i - 1 \in DOMAIN queue[q] /\ new[i] = queue[q][i-1])
          BY <2>5, <4>2, <4>3
        <4>5. QED
          BY <2>2, <2>3, <2>5, <4>2, <4>3, <4>4 DEF Alone, Subject
      <3>2. CASE q # SourceQueue(w)
        BY <1>8, <2>2, <2>5, <3>2, QueuesAreSequences DEF LoseConnection, Alone
      <3>3. QED
        BY <3>1, <3>2
    <2>6. QED
      BY <2>4, <2>5 DEF Alone
  <1>9. ASSUME NEW w \in Consumers \cup Orphans, ConsumerStep(w)
        PROVE  Alone(s, r)'
    BY <1>3, <1>9, ProcessesAssumption DEF Processes, Consumers
  <1>10. ASSUME NEW p \in Requests, RequestStep(p)
         PROVE  Alone(s, r)'
    BY <1>3, <1>10 DEF Processes
  <1>11. QED
    BY <1>3, <1>4, <1>5, <1>6, <1>7, <1>8, <1>9, <1>10
       DEF Next, Register, Reset, ManualAdvance, vars

-----------------------------------------------------------------------------
(* Where a rollback to FAILED comes from: only from the plan.              *)
LEMMA ProgramsDoNotFail ==
  /\ \A m \in Message : m.job \in MgnJobs => ~Fails(MgnProgram(m))
  /\ \A m \in Message : m.job \in PollJobs => ~Fails(PollProgram(m)) /\ ~Fails(OnComplete(m))
  /\ ~Fails(RollbackProgram) /\ ~Fails(<< advance("FROZEN") >>)
  /\ ~Fails(<< <<"reenqueue">> >>) /\ ~Fails(<<>>)
  <1>1. ASSUME NEW to, to # "FAILED", NEW to2, to2 # "FAILED", NEW job
        PROVE  /\ ~Fails(<< advance(to) >>) /\ ~Fails(<< advance(to), advance(to2) >>)
               /\ ~Fails(<< advance(to), <<"publish", job, 2>> >>)
    BY <1>1 DEF Fails, advance
  <1>2. /\ ~Fails(RollbackProgram) /\ ~Fails(<< <<"reenqueue">> >>) /\ ~Fails(<<>>)
        /\ \A state : ~Fails(<< <<"require", state>>, <<"poll">> >>)
    BY DEF Fails, RollbackProgram, advance
  <1>3. ASSUME NEW m \in Message, m.job \in MgnJobs
        PROVE  ~Fails(MgnProgram(m))
    <2> DEFINE first == <<"require", VALID_STATES_FOR_JOB[m.job]>>
               rest  == Handler[m.job]
               all   == <<first>> \o rest
    <2>1. first \in AwaitStep
      BY <1>3 DEF AwaitStep, MgnJobs, VALID_STATES_FOR_JOB, ServerState
    <2>2. rest \in Seq(AwaitStep)
      BY <1>3, HandlerShapes DEF Shaped
    <2>3. first # advance("FAILED")
      BY DEF advance
    <2> HIDE DEF first, rest
    <2>4. /\ all[1] = first
          /\ \A i \in DOMAIN rest : all[i+1] = rest[i]
          /\ \A i \in DOMAIN all : i = 1 \/ i - 1 \in DOMAIN rest
          /\ DOMAIN all \subseteq Nat
      BY <2>1, <2>2, Prefixed
    <2>5. \A i \in DOMAIN rest : rest[i] # advance("FAILED")
      BY <1>3, HandlerSteps DEF rest
    <2> HIDE DEF all
    <2>6. ASSUME NEW i \in DOMAIN all, i # 1
          PROVE  all[i] # advance("FAILED")
      <3>1. i - 1 \in DOMAIN rest /\ (i - 1) + 1 = i
        BY <2>4, <2>6
      <3>2. all[i] = rest[i-1]
        BY <2>4, <3>1
      <3>3. QED
        BY <2>5, <3>1, <3>2
    <2>7. ~Fails(all)
      BY <2>3, <2>4, <2>6 DEF Fails
    <2>8. QED
      BY <2>7 DEF MgnProgram, all, first, rest
  <1>4. ASSUME NEW m \in Message, m.job \in PollJobs
        PROVE  ~Fails(PollProgram(m)) /\ ~Fails(OnComplete(m))
    BY <1>1, <1>2, <1>4 DEF PollProgram, OnComplete, InstanceHandler, PollJobs, VALID_STATES_FOR_POLL
  <1>5. ~Fails(<< advance("FROZEN") >>)
    BY DEF Fails, advance
  <1>6. QED
    BY <1>2, <1>3, <1>4, <1>5

LEMMA TailsDoNotFail ==
  ASSUME NEW todo \in Seq(AwaitStep), todo # <<>>, Fails(Tail(todo))
  PROVE  Fails(todo)
  <1>1. PICK i \in DOMAIN Tail(todo) : Tail(todo)[i] = advance("FAILED")
    BY DEF Fails
  <1>2. i + 1 \in DOMAIN todo /\ todo[i+1] = Tail(todo)[i]
    OBVIOUS
  <1>3. QED
    BY <1>1, <1>2 DEF Fails

LEMMA NewFailures ==
  ASSUME Core, NEW p \in Consumers \cup Orphans, ConsumerStep(p), WillFail(p)'
  PROVE  \/ WillFail(p) /\ Subject(p)' = Subject(p)
         \/ UNCHANGED current_state /\ current_state[Subject(p)'] \in MayFail
  <1>1. p \in Processes /\ p \notin Requests
    BY ProcessesAssumption DEF Processes, Consumers
  <1> DEFINE Goal == \/ WillFail(p) /\ Subject(p)' = Subject(p)
                     \/ UNCHANGED current_state /\ current_state[Subject(p)'] \in MayFail
  <1>2. ASSUME NEW steps, Deliver(p, steps), ~Fails(steps)
        PROVE  FALSE
    <2>1. task'[p].todo = steps
      BY <1>1, <1>2 DEF Deliver, Start, Core, TasksTypeOK
    <2>2. QED
      BY <1>2, <2>1 DEF WillFail
  <1>3. ASSUME NEW kind, Doing(p, kind), NEW steps, ContinueWith(p, steps), ~Fails(steps)
        PROVE  FALSE
    <2>1. task'[p].todo = steps
      BY <1>1, <1>3 DEF Doing, Busy, ContinueWith, Core, TasksTypeOK, Task
    <2>2. QED
      BY <1>3, <2>1 DEF WillFail
  <1>4. ASSUME NEW kind, Doing(p, kind), Proceed(p)
        PROVE  WillFail(p) /\ Subject(p)' = Subject(p)
    <2>1. /\ task'[p].todo = Tail(task[p].todo) /\ Subject(p)' = Subject(p) /\ Busy(p)
          /\ task[p].todo \in Seq(AwaitStep) /\ task[p].todo # <<>>
      BY <1>1, <1>4, Awaiting
         DEF Doing, Busy, Proceed, ContinueWith, Core, TasksTypeOK, Task, Subject
    <2>2. QED
      BY <2>1, TailsDoNotFail DEF WillFail
  <1>5. ~Leave(p)
    BY <1>1 DEF Leave, Core, TasksTypeOK, WillFail, Busy
  <1>6. CheckState(p) => Goal
    BY <1>3, <1>4, ProgramsDoNotFail DEF CheckState
  <1>7. /\ \A by : Advance(p, by) => Goal
        /\ Publish(p) => Goal
        /\ ~Finish(p) /\ ~Nack(p)
    BY <1>4, <1>5 DEF Advance, Publish, Finish, Nack
  <1>8. MgnWorkerStep(p) /\ p \in MgnWorkers \cup Orphans => Goal
    <2>1. p \in MgnWorkers \cup Orphans => ~ReceiveJob(p)
      BY <1>2, NextIsRouted, ProgramsDoNotFail DEF ReceiveJob
    <2>2. Call(p) \/ StoreAwsId(p) => Goal
      BY <1>4 DEF Call, StoreAwsId
    <2>3. QED
      BY <1>6, <1>7, <2>1, <2>2 DEF MgnWorkerStep, JobFails
  <1>9. PollerStep(p) /\ p \in PollerWorkers \cup Orphans => Goal
    <2>1. Doing(p, "poll") => task[p].msg \in Message /\ task[p].msg.job \in PollJobs
      BY <1>1, Awaiting DEF Shape, StepShape
    <2>2. ~PollCompletes(p) /\ ~PollAgain(p)
      BY <1>3, <2>1, ProgramsDoNotFail DEF PollCompletes, PollAgain
    <2>3. p \in PollerWorkers \cup Orphans => ~ReceivePoll(p)
      BY <1>2, NextIsRouted, ProgramsDoNotFail DEF ReceivePoll
    <2>4. Reenqueue(p) => Goal
      BY <1>4 DEF Reenqueue
    <2>5. QED
      BY <1>6, <1>7, <2>2, <2>3, <2>4 DEF PollerStep, PollFails
  <1>10. CASE Plan(p)
    <2> DEFINE s == Subject(p)
               todo == PlanProgram(current_state[s], aws_source_server_id[s])
               t == [task[p] EXCEPT !.msg.aws = aws_source_server_id[s], !.todo = todo]
    <2>1. task' = [task EXCEPT ![p] = t] /\ UNCHANGED current_state
      BY <1>10 DEF Plan, ledgerVars
    <2>2. task[p] \in Task /\ task[p].msg \in Message /\ s \in Servers
      BY <1>1, <1>10, Awaiting DEF Plan
    <2>3. t.todo = todo /\ t.msg.server = s
      BY <2>2 DEF Task, Message, Subject
    <2> HIDE DEF t, todo
    <2>4. Subject(p)' = s /\ Fails(todo)
      BY <1>1, <2>1, <2>3 DEF Core, TasksTypeOK, Subject, WillFail
    <2>5. PICK i \in DOMAIN todo : todo[i] = advance("FAILED")
      BY <2>4 DEF Fails
    <2>6. IntendedFinalState(current_state[s]) = "FAILED"
      BY <2>5, PlanShape DEF advance, todo
    <2>7. current_state[s] \in ServerState \cup {NotRegistered}
      BY <2>2 DEF Core, LedgerTypeOK
    <2>8. current_state[s] # "CLEANUP_COMPLETE"
      BY <2>5, PlanShape DEF todo, TerminalStates
    <2>9. current_state[s] \in MayFail
      BY <2>6, <2>7, <2>8
         DEF IntendedFinalState, MayFail, BeforeCutover, BeforeTest, BeforeReplication, ErrorStates,
             ServerState, TerminateCutoverStates, AlwaysFrozenStates
    <2>10. QED
      BY <2>1, <2>4, <2>9
  <1>11. RollbackStep(p) => Goal
    <2>1. ~ReceiveFailure(p)
      BY <1>2, ProgramsDoNotFail DEF ReceiveFailure
    <2>2. Undo(p) => Goal
      BY <1>3, <1>4, ProgramsDoNotFail DEF Undo
    <2>3. ~RollbackFails(p)
      BY <1>5 DEF RollbackFails
    <2>4. QED
      BY <1>7, <1>10, <2>1, <2>2, <2>3 DEF RollbackStep
  <1>12. QED
    BY <1>8, <1>9, <1>11 DEF ConsumerStep

-----------------------------------------------------------------------------
(* Until the launch of the cutover is approved, a server stays where it    *)
(* may fail.                                                               *)
LEMMA EarlyMoves ==
  ASSUME NEW from \in MayFail, NEW to, IsValidTransition(from, to), to # "CUTOVER_STARTED"
  PROVE  to \in MayFail /\ from \in BeforeCutover
  <1>1. from \notin ErrorStates \cup {NotRegistered}
    BY TransitionClimbs, StateNames
  <1>2. CASE to \in ErrorStates
    BY <1>1, <1>2 DEF MayFail
  <1>3. CASE <<from, to>> \in Forward
    BY <1>1, <1>3 DEF MayFail, BeforeCutover, BeforeTest, BeforeReplication, Forward, ErrorStates
  <1>4. QED
    BY <1>2, <1>3, TransitionClimbs

LEMMA SubjectsAreServers ==
  ASSUME Core, NEW p \in Processes, Busy(p)
  PROVE  Subject(p) \in Servers /\ task[p] \in Task
  BY DEF Core, TasksTypeOK, Busy, Task, Message, Subject

LEMMA AdvancesStayEarly ==
  ASSUME Core, NEW p \in Processes, NEW by, Advance(p, by),
         NEW s \in Servers, current_state[s] \in MayFail,
         p \in Requests => Subject(p) # s
  PROVE  current_state'[s] \in MayFail
  <1>1. /\ Doing(p, "advance") /\ AdvanceState(Subject(p), Operand(p), by)
        /\ current_state \in [Servers -> ServerState \cup {NotRegistered}]
    BY DEF Advance, Core, LedgerTypeOK
  <1>2. CASE Subject(p) # s
    BY <1>1, <1>2 DEF AdvanceState, MoveTo
  <1>3. CASE Subject(p) = s
    <2>1. Operand(p) \notin Approved
      BY <1>1, <1>3, Awaiting DEF Shape, WorkerShape
    <2>2. current_state'[s] = Operand(p) /\ IsValidTransition(current_state[s], Operand(p))
      BY <1>1, <1>3 DEF AdvanceState, MoveTo
    <2>3. QED
      BY <2>1, <2>2, EarlyMoves DEF Approved
  <1>4. QED
    BY <1>2, <1>3

(* A rollback to FAILED finds its server before the cutover, since nothing *)
(* but an approval brings a server there and that waits for the rollback.  *)
LEMMA FailuresAreEarlyStep ==
  ASSUME Core, Counters, RequestsAreAlone, FailuresAreEarly, MaxHasty = 0, [Next]_vars
  PROVE  FailuresAreEarly'
  <1> SUFFICES ASSUME NEW p \in Processes \ Requests, WillFail(p)'
               PROVE  current_state'[Subject(p)'] \in MayFail
    BY DEF FailuresAreEarly
  <1> DEFINE Goal == current_state'[Subject(p)'] \in MayFail
  <1>1. ASSUME task'[p] = task[p]
        PROVE  /\ WillFail(p) /\ Busy(p) /\ Subject(p)' = Subject(p) /\ Subject(p) \in Servers
               /\ current_state[Subject(p)] \in MayFail
    <2>1. WillFail(p) /\ Busy(p) /\ Subject(p)' = Subject(p)
      BY <1>1 DEF WillFail, Busy, Subject
    <2>2. QED
      BY <2>1, SubjectsAreServers DEF FailuresAreEarly
  <1>2. UNCHANGED <<task, current_state>> => Goal
    BY <1>1
  <1>3. ASSUME NEW w \in Consumers \cup Orphans, ConsumerStep(w)
        PROVE  Goal
    <2>1. w \in Processes \ Requests /\ OthersStay(w)
      BY <1>3, StepsAreLocal, ProcessesAssumption DEF Processes, Consumers
    <2>2. ASSUME WillFail(p), Subject(p)' = Subject(p)
          PROVE  Goal
      <3>1. Subject(p) \in Servers /\ current_state[Subject(p)] \in MayFail
        BY <2>2, SubjectsAreServers DEF FailuresAreEarly, WillFail
      <3>2. CASE Advance(w, "system")
        BY <2>1, <2>2, <3>1, <3>2, AdvancesStayEarly
      <3>3. CASE ~Advance(w, "system")
        BY <1>3, <2>2, <3>1, <3>3, OnlyAdvancesMove
      <3>4. QED
        BY <3>2, <3>3
    <2>3. CASE w = p
      BY <1>3, <2>2, <2>3, NewFailures
    <2>4. CASE w # p
      BY <1>1, <2>1, <2>2, <2>4 DEF OthersStay
    <2>5. QED
      BY <2>3, <2>4
  <1>4. ASSUME NEW r \in Requests, RequestStep(r)
        PROVE  Goal
    <2>1. r \in Processes /\ OthersStay(r)
      BY <1>4, StepsAreLocal DEF Processes
    <2>2. /\ Busy(p) /\ Subject(p)' = Subject(p) /\ Subject(p) \in Servers
          /\ current_state[Subject(p)] \in MayFail
      BY <1>1, <2>1 DEF OthersStay
    <2>3. ASSUME NEW by, Advance(r, by)
          PROVE  Goal
      <3>1. Busy(r) /\ task[r].todo # <<>>
        BY <2>3 DEF Advance, Doing
      <3>2. Subject(r) \in Servers /\ Pending(Subject(r), r)
        BY <2>1, <3>1, SubjectsAreServers DEF Pending
      <3>3. Subject(p) # Subject(r)
        BY <2>2, <3>2 DEF RequestsAreAlone, Alone
      <3>4. QED
        BY <2>1, <2>2, <2>3, <3>3, AdvancesStayEarly
    <2>4. UNCHANGED current_state => Goal
      BY <2>2
    <2>5. QED
      BY <1>4, <2>3, <2>4
         DEF RequestStep, RequireState, Publish, RequestFails, Finish, ledgerVars
  <1>5. ASSUME NewRequest
        PROVE  Goal
    BY <1>1, <1>5, NewRequestsAreLocal DEF OthersStay, ledgerVars
  <1>6. ASSUME NEW t \in Servers, Register(t) \/ Reset(t) \/ ManualAdvance(t) \/ ManualDispatch(t)
        PROVE  Goal
    <2>1. task'[p] = task[p]
      BY <1>6 DEF Register, Reset, ManualAdvance, ManualDispatch
    <2>2. /\ Busy(p) /\ Subject(p)' = Subject(p) /\ Subject(p) \in Servers
          /\ current_state[Subject(p)] \in MayFail
      BY <1>1, <2>1
    <2>3. current_state \in [Servers -> ServerState \cup {NotRegistered}]
      BY DEF Core, LedgerTypeOK
    <2>4. "PENDING" \in MayFail
      BY DEF MayFail, BeforeCutover, BeforeTest, BeforeReplication
    <2>5. Register(t) => Goal
      BY <2>2, <2>3, <2>4 DEF Register, RegisterServer
    <2>6. Reset(t) => Goal
      BY <2>2, <2>3, <2>4 DEF Reset, ResetServer, MoveTo
    <2>7. ManualAdvance(t) => Goal
      <3>1. ManualAdvance(t) => Subject(p) # t
        BY <2>2, QuietMeans DEF ManualAdvance
      <3>2. QED
        BY <2>2, <2>3, <3>1 DEF ManualAdvance, AdvanceState, MoveTo
    <2>8. ManualDispatch(t) => Goal
      BY <2>2 DEF ManualDispatch, ledgerVars
    <2>9. QED
      BY <1>6, <2>5, <2>6, <2>7, <2>8
  <1>7. ASSUME NEW group \in ProcessGroups, Crash(group)
        PROVE  Goal
    <2>1. task'[p] = task[p] \/ task'[p] = NoTask
      BY <1>7 DEF Crash
    <2>2. task'[p] # NoTask
      BY DEF WillFail, Busy
    <2>3. QED
      BY <1>1, <1>7, <2>1, <2>2 DEF Crash, ledgerVars
  <1>8. ASSUME NEW w \in Consumers, NEW orphan \in Orphans, LoseConnection(w, orphan)
        PROVE  Goal
    <2>1. /\ w \in Processes \ Requests /\ orphan \in Processes \ Requests /\ w # orphan
          /\ task' = [task EXCEPT ![orphan] = task[w], ![w] = NoTask]
          /\ UNCHANGED current_state
      BY <1>8, ProcessesAssumption DEF Processes, Consumers, LoseConnection, ledgerVars
    <2>2. CASE p = orphan
      <3>1. task'[p] = task[w]
        BY <2>1, <2>2 DEF Core, TasksTypeOK
      <3>2. WillFail(w) /\ Subject(p)' = Subject(w)
        BY <3>1 DEF WillFail, Busy, Subject
      <3>3. QED
        BY <2>1, <3>2 DEF FailuresAreEarly
    <2>3. CASE p = w
      BY <2>1, <2>3 DEF Core, TasksTypeOK, WillFail, Busy
    <2>4. CASE p # w /\ p # orphan
      BY <1>1, <2>1, <2>4 DEF Core, TasksTypeOK
    <2>5. QED
      BY <2>2, <2>3, <2>4
  <1>9. ASSUME NEW v \in Processes, Fault(v)
        PROVE  Goal
    <2>1. Leave(v) /\ UNCHANGED current_state /\ OthersStay(v)
      BY <1>9, FaultsAreLocal DEF Fault, Nack, ledgerVars
    <2>2. p # v
      BY <2>1 DEF Leave, WillFail, Busy, Core, TasksTypeOK
    <2>3. QED
      BY <1>1, <2>1, <2>2 DEF OthersStay
  <1>10. QED
    BY <1>2, <1>3, <1>4, <1>5, <1>6, <1>7, <1>8, <1>9 DEF Next, vars, ledgerVars

-----------------------------------------------------------------------------
(* A request that has found its server at a gate finds it there when it    *)
(* moves it.                                                               *)
LEMMA OthersKeepState ==
  ASSUME Core, NEW p \in Processes, NEW s \in Servers, Busy(p) => Subject(p) # s,
         ConsumerStep(p) \/ RequestStep(p) \/ Fault(p)
  PROVE  current_state'[s] = current_state[s]
  <1>1. ASSUME NEW by, Advance(p, by)
        PROVE  current_state'[s] = current_state[s]
    BY <1>1 DEF Advance, Doing, AdvanceState, MoveTo, Core, LedgerTypeOK
  <1>2. ConsumerStep(p) => current_state'[s] = current_state[s]
    BY <1>1, OnlyAdvancesMove
  <1>3. RequestStep(p) => current_state'[s] = current_state[s]
    BY <1>1 DEF RequestStep, RequireState, Publish, RequestFails, Finish, ledgerVars
  <1>4. Fault(p) => current_state'[s] = current_state[s]
    BY DEF Fault, Nack, ledgerVars
  <1>5. QED
    BY <1>2, <1>3, <1>4

LEMMA OwnRejection ==
  ASSUME Core, NEW r \in Requests, RequestStep(r), Rejects(r)'
  PROVE  /\ UNCHANGED current_state /\ Subject(r)' = Subject(r)
         /\ current_state[Subject(r)] \in InProgressStates
  <1>1. r \in Processes /\ OthersStay(r)
    BY StepsAreLocal DEF Processes
  <1>2. PICK s : Pending(s, r)' /\ s = Subject(r)'
    BY DEF Rejects, Pending
  <1>3. Pending(s, r)
    BY <1>2, OwnSteps
  <1>4. /\ task[r] \in Task /\ Subject(r)' = Subject(r)
        /\ task[r].todo \in Seq(AwaitStep) /\ task[r].todo # <<>>
        /\ Shape(r, task[r].msg, task[r].todo)
    BY <1>1, <1>2, <1>3 DEF Pending, Core, TasksTypeOK, TasksShape, Busy, Task
  <1>5. RequestShape(task[r].msg, task[r].todo, 1) /\ 1 \in DOMAIN task[r].todo
    BY <1>4 DEF Shape
  <1>6. ASSUME task'[r].todo = Tail(task[r].todo)
        PROVE  /\ Len(task[r].todo) = 2 /\ task[r].todo[2] = advance("FAILED")
               /\ task[r].todo[1][1] = "require" /\ task[r].todo[1][2] \in InProgressStates
    <2>1. Tail(task[r].todo) = << advance("FAILED") >>
      BY <1>6 DEF Rejects
    <2>2. ASSUME NEW todo \in Seq(AwaitStep), todo # <<>>, NEW last, Tail(todo) = << last >>
          PROVE  Len(todo) = 2 /\ todo[2] = last
      <3>1. ASSUME NEW rest, rest = << last >>
            PROVE  Len(rest) = 1 /\ rest[1] = last
        BY <3>1
      <3>2. Len(Tail(todo)) = 1 /\ Tail(todo)[1] = last
        BY <2>2, <3>1
      <3>3. Len(todo) = 2 /\ Tail(todo)[1] = todo[2]
        BY <2>2, <3>2
      <3>4. QED
        BY <3>2, <3>3
    <2>3. Len(task[r].todo) = 2 /\ task[r].todo[2] = advance("FAILED")
      BY <1>4, <2>1, <2>2
    <2>4. advance("FAILED")[1] # "publish"
      BY DEF advance
    <2>5. \A job : publish(job)[1] = "publish"
      BY DEF publish
    <2>6. task[r].todo[1][1] # "publish"
      BY <1>4, <1>5, <2>3 DEF Shape, StepShape
    <2>7. /\ \A job : task[r].todo[1] # publish(job)
          /\ \A job : task[r].todo[2] # publish(job)
      BY <2>3, <2>4, <2>5, <2>6, Zenon
    <2>8. /\ task[r].todo[1][1] = "require"
          /\ 1 + 1 = Len(task[r].todo) /\ task[r].todo[1+1] = advance("FAILED")
               => task[r].todo[1][2] \in InProgressStates
      BY <1>5, <2>3, <2>7 DEF RequestShape
    <2>9. QED
      BY <2>3, <2>8
  <1>7. ASSUME NEW by, Advance(r, by)
        PROVE  FALSE
    <2>1. task'[r].todo = Tail(task[r].todo)
      BY <1>1, <1>4, <1>7 DEF Advance, Proceed, ContinueWith, Core, TasksTypeOK, Task
    <2>2. task[r].todo[1][1] = "advance"
      BY <1>1, <1>7, Awaiting DEF Advance
    <2>3. QED
      BY <1>6, <2>1, <2>2
  <1>8. ~Publish(r)
    <2>1. Publish(r) => task'[r].todo = Tail(task[r].todo)
      BY <1>1, <1>4 DEF Publish, Proceed, ContinueWith, Core, TasksTypeOK, Task
    <2>2. Publish(r) => task[r].todo[1][1] = "publish"
      BY <1>1, Awaiting DEF Publish
    <2>3. QED
      BY <1>6, <2>1, <2>2
  <1>9. ~Leave(r)
    BY <1>1 DEF Leave, Core, TasksTypeOK, Rejects, Busy
  <1>10. RequireState(r)
    BY <1>7, <1>8, <1>9 DEF RequestStep, RequestFails, Finish
  <1> DEFINE id == IF task[r].msg.aws = Null THEN aws_source_server_id[Subject(r)]
                                             ELSE task[r].msg.aws
             steps == IF current_state[Subject(r)] = Operand(r) THEN Tail(task[r].todo)
                                                                ELSE <<>>
             t == [task[r] EXCEPT !.msg.aws = id, !.todo = steps]
  <1>11. task' = [task EXCEPT ![r] = t]
    BY <1>10 DEF RequireState
  <1>12. t.todo = steps
    BY <1>4 DEF Task
  <1> HIDE DEF t
  <1>13. task'[r].todo = steps
    BY <1>1, <1>11, <1>12 DEF Core, TasksTypeOK
  <1>14. task'[r].todo # <<>>
    BY DEF Rejects
  <1>15. current_state[Subject(r)] = Operand(r) /\ task'[r].todo = Tail(task[r].todo)
    BY <1>13, <1>14
  <1>16. Operand(r) = task[r].todo[1][2]
    BY <1>1, <1>10, Awaiting DEF RequireState
  <1>17. QED
    BY <1>4, <1>6, <1>10, <1>15, <1>16 DEF RequireState, ledgerVars

LEMMA RejectionsAreAtGatesStep ==
  ASSUME Core, Counters, RequestsAreAlone, RejectionsAreAtGates, MaxHasty = 0, [Next]_vars
  PROVE  RejectionsAreAtGates'
  <1> SUFFICES ASSUME NEW r \in Requests, Rejects(r)'
               PROVE  current_state'[Subject(r)'] \in InProgressStates
    BY DEF RejectionsAreAtGates
  <1> DEFINE Goal == current_state'[Subject(r)'] \in InProgressStates
             s == Subject(r)
  <1>1. r \in Processes
    BY DEF Processes
  <1>2. ASSUME task'[r] = task[r]
        PROVE  /\ Busy(r) /\ Subject(r)' = s /\ s \in Servers /\ Alone(s, r)
               /\ current_state[s] \in InProgressStates
    <2>1. Rejects(r) /\ Busy(r) /\ Subject(r)' = s
      BY <1>2 DEF Rejects, Busy, Subject
    <2>2. s \in Servers /\ Pending(s, r)
      BY <1>1, <2>1, SubjectsAreServers DEF Pending, Rejects
    <2>3. QED
      BY <2>1, <2>2 DEF RejectionsAreAtGates, RequestsAreAlone
  <1>3. ASSUME task'[r] = task[r], UNCHANGED current_state
        PROVE  Goal
    BY <1>2, <1>3
  <1>4. ASSUME NEW p \in Processes, ConsumerStep(p) \/ RequestStep(p) \/ Fault(p),
               p = r => RequestStep(p) \/ Fault(p)
        PROVE  Goal
    <2>1. CASE p # r
      <3>1. task'[r] = task[r]
        BY <1>1, <1>4, <2>1, ContainedSteps DEF Contained, OthersStay
      <3>2. Busy(p) => Subject(p) # s
        BY <1>2, <1>4, <2>1, <3>1 DEF Alone
      <3>3. QED
        BY <1>2, <1>4, <3>1, <3>2, OthersKeepState
    <2>2. CASE p = r
      <3>1. ~Fault(r)
        <4>1. ~Leave(r)
          BY <1>1 DEF Leave, Core, TasksTypeOK, Rejects, Busy
        <4>2. QED
          BY <4>1 DEF Fault, Nack
      <3>2. QED
        BY <1>4, <2>2, <3>1, OwnRejection
    <2>3. QED
      BY <2>1, <2>2
  <1>5. ASSUME NewRequest
        PROVE  Goal
    <2>1. PICK r0 \in Requests, s0 \in Servers :
            \/ \E id \in AwsIds : StartServer(r0, s0, id)
            \/ \E job \in SubmittedJobs \ {"ADD_SERVER"} : Configure(r0, s0, job)
            \/ \E g \in Gates : Approve(r0, s0, g) \/ Reject(r0, s0, g)
      BY <1>5 DEF NewRequest
    <2> DEFINE Checked(steps) == steps[1][1] = "require"
    <2>2. PICK id, job, steps : Request(r0, s0, id, job, steps) /\ Checked(steps)
      <3>1. \A state, a, b : /\ Checked(<< <<"require", state>>, a >>)
                            /\ Checked(<< <<"require", state>>, a, b >>)
        OBVIOUS
      <3> HIDE DEF Checked
      <3>2. QED
        BY <2>1, <3>1, Zenon DEF StartServer, Configure, Approve, Reject
    <2>3. /\ task' = [task EXCEPT ![r0] = [msg |-> NewMessage(job, s0, id), todo |-> steps]]
          /\ UNCHANGED current_state
      BY <2>2 DEF Request, Start, ledgerVars
    <2>4. r # r0
      <3>1. task'[r0].todo[1][1] = "require"
        BY <2>2, <2>3 DEF Core, TasksTypeOK, Processes
      <3>2. task'[r].todo[1][1] = "advance"
        BY DEF Rejects, advance
      <3>3. QED
        BY <3>1, <3>2
    <2>5. QED
      BY <1>1, <1>3, <2>3, <2>4 DEF Core, TasksTypeOK
  <1>6. ASSUME NEW t \in Servers, Register(t) \/ Reset(t) \/ ManualAdvance(t) \/ ManualDispatch(t)
        PROVE  Goal
    <2>1. task'[r] = task[r]
      BY <1>6 DEF Register, Reset, ManualAdvance, ManualDispatch
    <2>2. current_state \in [Servers -> ServerState \cup {NotRegistered}]
      BY DEF Core, LedgerTypeOK
    <2>3. ManualDispatch(t) => Goal
      BY <1>3, <2>1 DEF ManualDispatch, ledgerVars
    <2>4. t = s => ~Register(t) /\ ~Reset(t) /\ ~ManualAdvance(t)
      <3>1. Register(t) => current_state[t] \notin InProgressStates
        BY DEF Register, RegisterServer, IsRegistered, InProgressStates, NotRegistered
      <3>2. Reset(t) => current_state[t] \notin InProgressStates
        BY DEF Reset, ResetServer, InProgressStates
      <3>3. ManualAdvance(t) => t # s
        BY <1>1, <1>2, <2>1, QuietMeans DEF ManualAdvance
      <3>4. QED
        BY <1>2, <2>1, <3>1, <3>2, <3>3
    <2>5. t # s => current_state'[s] = current_state[s]
      BY <1>2, <1>6, <2>1, <2>2
         DEF Register, RegisterServer, Reset, ResetServer, ManualAdvance, AdvanceState, MoveTo,
             ManualDispatch, ledgerVars
    <2>6. QED
      BY <1>2, <1>6, <2>1, <2>3, <2>4, <2>5
  <1>7. ASSUME NEW group \in ProcessGroups, Crash(group)
        PROVE  Goal
    <2>1. task'[r] = task[r] \/ task'[r] = NoTask
      BY <1>1, <1>7 DEF Crash
    <2>2. task'[r] # NoTask
      BY DEF Rejects, Busy
    <2>3. QED
      BY <1>3, <1>7, <2>1, <2>2 DEF Crash, ledgerVars
  <1>8. ASSUME NEW w \in Consumers, NEW orphan \in Orphans, LoseConnection(w, orphan)
        PROVE  Goal
    <2>1. r # w /\ r # orphan
      BY ProcessesAssumption DEF Consumers
    <2>2. task'[r] = task[r] /\ UNCHANGED current_state
      BY <1>1, <1>8, <2>1 DEF LoseConnection, Core, TasksTypeOK, ledgerVars
    <2>3. QED
      BY <1>3, <2>2
  <1>9. ASSUME NEW w \in Consumers \cup Orphans, ConsumerStep(w)
        PROVE  Goal
    BY <1>4, <1>9, ProcessesAssumption DEF Processes, Consumers
  <1>10. ASSUME NEW p \in Requests, RequestStep(p)
         PROVE  Goal
    BY <1>4, <1>10 DEF Processes
  <1>11. QED
    BY <1>3, <1>4, <1>5, <1>6, <1>7, <1>8, <1>9, <1>10 DEF Next, vars, ledgerVars

-----------------------------------------------------------------------------
(* Who marks a server FAILED.                                              *)
LEMMA FailuresAreAdvances ==
  ASSUME Core, NEW s \in Servers, [Next]_vars, newest'[s].to = "FAILED"
  PROVE  \/ \E w \in Processes \ Requests : Advance(w, "system") /\ Subject(w) = s
         \/ \E r \in Requests, by \in Engineers : Advance(r, by) /\ Subject(r) = s
         \/ /\ newest'[s] = newest[s]
            /\ current_state'[s] = "FAILED" => current_state[s] = "FAILED"
  <1> DEFINE Same == /\ newest'[s] = newest[s]
                     /\ current_state'[s] = "FAILED" => current_state[s] = "FAILED"
             Goal == \/ \E w \in Processes \ Requests : Advance(w, "system") /\ Subject(w) = s
                     \/ \E r \in Requests, by \in Engineers : Advance(r, by) /\ Subject(r) = s
                     \/ Same
  <1>1. ASSUME NEW p \in Processes, NEW by, Advance(p, by)
        PROVE  Subject(p) = s \/ Same
    BY <1>1 DEF Advance, AdvanceState, MoveTo, Core, LedgerTypeOK
  <1>2. ASSUME NEW w \in Consumers \cup Orphans, ConsumerStep(w)
        PROVE  Goal
    <2>1. w \in Processes \ Requests
      BY ProcessesAssumption DEF Processes, Consumers
    <2>2. Advance(w, "system") \/ Same
      BY <1>2, OnlyAdvancesMove
    <2>3. QED
      BY <1>1, <2>1, <2>2
  <1>3. ASSUME NEW r \in Requests, RequestStep(r)
        PROVE  Goal
    <2>1. Same \/ \E by \in Engineers : Advance(r, by)
      BY <1>3 DEF RequestStep, RequireState, Publish, RequestFails, Finish, ledgerVars
    <2>2. QED
      BY <1>1, <2>1 DEF Processes
  <1>4. ASSUME NEW t \in Servers, Register(t) \/ Reset(t) \/ ManualAdvance(t) \/ ManualDispatch(t)
        PROVE  Goal
    <2>1. /\ newest \in [Servers -> AuditRow \cup {NoRow}]
          /\ current_state \in [Servers -> ServerState \cup {NotRegistered}]
      BY DEF Core, LedgerTypeOK
    <2>2. Reset(t) => Same
      BY <2>1 DEF Reset, ResetServer, MoveTo
    <2>3. ManualAdvance(t) => Same
      <3>1. ASSUME NEW to, NEW by, to \notin ErrorStates, AdvanceState(t, to, by)
            PROVE  Same
        BY <2>1, <3>1 DEF AdvanceState, MoveTo, ErrorStates
      <3>2. QED
        BY <3>1 DEF ManualAdvance
    <2>4. Register(t) \/ ManualDispatch(t) => Same
      BY <2>1 DEF Register, RegisterServer, ManualDispatch, ledgerVars
    <2>5. QED
      BY <1>4, <2>2, <2>3, <2>4
  <1>5. NewRequest => Goal
    BY NewRequestsAreLocal DEF ledgerVars
  <1>6. ASSUME NEW group \in ProcessGroups, Crash(group)
        PROVE  Goal
    BY <1>6 DEF Crash, ledgerVars
  <1>7. ASSUME NEW w, NEW orphan, LoseConnection(w, orphan)
        PROVE  Goal
    BY <1>7 DEF LoseConnection, ledgerVars
  <1>8. ASSUME NEW p, Fault(p)
        PROVE  Goal
    BY <1>8 DEF Fault, Nack, ledgerVars
  <1>9. UNCHANGED vars => Goal
    BY DEF vars, ledgerVars
  <1>10. QED
    BY <1>2, <1>3, <1>4, <1>5, <1>6, <1>7, <1>8, <1>9 DEF Next

(* What an advance writes into the audit trail.                            *)
LEMMA AdvanceWrites ==
  ASSUME Core, NEW p \in Processes, NEW by, Advance(p, by), NEW s, Subject(p) = s
  PROVE  /\ s \in Servers /\ Busy(p) /\ IsValidTransition(current_state[s], Operand(p))
         /\ newest'[s].from = current_state[s]
         /\ newest'[s].to = Operand(p) /\ newest'[s].by = by
         /\ task[p].todo \in Seq(AwaitStep) /\ 1 \in DOMAIN task[p].todo
         /\ task[p].todo[1] = advance(Operand(p))
         /\ Shape(p, task[p].msg, task[p].todo)
  <1>1. Doing(p, "advance") /\ AdvanceState(s, Operand(p), by)
    BY DEF Advance
  <1>2. /\ s \in Servers /\ task[p].todo \in Seq(AwaitStep) /\ 1 \in DOMAIN task[p].todo
        /\ task[p].todo[1][1] = "advance" /\ Operand(p) = task[p].todo[1][2]
        /\ Shape(p, task[p].msg, task[p].todo)
    BY <1>1, Awaiting
  <1>3. \A e \in AwaitStep : e[1] = "advance" => e = advance(e[2])
    BY DEF AwaitStep, advance
  <1>4. task[p].todo[1] = advance(Operand(p))
    BY <1>2, <1>3
  <1>5. QED
    BY <1>1, <1>2, <1>4 DEF Doing, AdvanceState, MoveTo, Core, LedgerTypeOK

LEMMA CutoverFailureStep ==
  ASSUME Core, Patience, FailuresAreEarly, CutoverFailureIsFrozen, [Next]_vars
  PROVE  CutoverFailureIsFrozen'
  <1> SUFFICES ASSUME NEW s \in Servers, FailedByRollback(s)'
               PROVE  newest'[s].from \in BeforeCutover
    BY DEF CutoverFailureIsFrozen
  <1>1. newest'[s].to = "FAILED" /\ newest'[s].by = "system" /\ current_state'[s] = "FAILED"
    BY DEF FailedByRollback
  <1>2. ASSUME NEW r \in Requests, NEW by \in Engineers, Advance(r, by), Subject(r) = s
        PROVE  FALSE
    <2>1. newest'[s].by = by
      BY <1>2, AdvanceWrites DEF Processes
    <2>2. QED
      BY <1>1, <2>1 DEF Patience
  <1>3. ASSUME NEW w \in Processes \ Requests, Advance(w, "system"), Subject(w) = s
        PROVE  newest'[s].from \in BeforeCutover
    <2>1. /\ newest'[s].from = current_state[s] /\ newest'[s].to = Operand(w)
          /\ IsValidTransition(current_state[s], Operand(w))
          /\ task[w].todo[1] = advance(Operand(w)) /\ 1 \in DOMAIN task[w].todo /\ Busy(w)
      BY <1>3, AdvanceWrites
    <2>2. WillFail(w)
      BY <1>1, <2>1 DEF WillFail, Fails
    <2>3. current_state[s] \in MayFail
      BY <1>3, <2>2 DEF FailuresAreEarly
    <2>4. QED
      BY <1>1, <2>1, <2>3, EarlyMoves
  <1>4. CASE newest'[s] = newest[s] /\ current_state[s] = "FAILED"
    BY <1>1, <1>4 DEF CutoverFailureIsFrozen, FailedByRollback
  <1>5. QED
    BY <1>1, <1>2, <1>3, <1>4, FailuresAreAdvances

LEMMA PatienceStep ==
  ASSUME Patience
  PROVE  Inv /\ [Next]_vars => Inv'
  BY CoreStep, CountersStep, RequestsAreAloneStep, FailuresAreEarlyStep,
     RejectionsAreAtGatesStep, CutoverFailureStep DEF Inv, Patience

LEMMA PatienceInit == Init => Inv
  <1> SUFFICES ASSUME Init PROVE Inv
    OBVIOUS
  <1>1. Core
    BY InitCore
  <1>2. Counters
    BY ApiAssumption, OrchestratorAssumption DEF Init, Counters
  <1>3. \A p \in Processes : ~Busy(p)
    BY DEF Init, TasksInit, Busy
  <1>4. RequestsAreAlone /\ FailuresAreEarly /\ RejectionsAreAtGates
    BY <1>3 DEF RequestsAreAlone, Pending, FailuresAreEarly, WillFail, RejectionsAreAtGates,
                Rejects, Processes
  <1>5. CutoverFailureIsFrozen
    BY DEF Init, LedgerInit, NoRow, Null, CutoverFailureIsFrozen, FailedByRollback
  <1>6. QED
    BY <1>1, <1>2, <1>4, <1>5 DEF Inv

LEMMA PatienceHolds ==
  ASSUME Patience
  PROVE  Spec => []Inv
  <1>1. Init => Inv
    BY PatienceInit
  <1>2. Inv /\ [Next]_vars => Inv'
    BY PatienceStep
  <1>3. QED
    BY <1>1, <1>2, PTL DEF Spec

(* Whatever crashes, loses its connection or raises, a rollback reports    *)
(* FAILED only for a server that had not begun its cutover: the plan of    *)
(* the rollback is made from a state that no approval can overtake, as     *)
(* long as engineers approve nothing that is still being worked on.        *)
THEOREM CutoverFailureHolds ==
  ASSUME Patience
  PROVE  Spec => []CutoverFailureIsFrozen
  <1>1. Inv => CutoverFailureIsFrozen
    BY DEF Inv
  <1>2. QED
    BY <1>1, PatienceHolds, PTL

LEMMA RejectionStep ==
  ASSUME Core, Patience, RejectionsAreAtGates, [Next]_vars, NEW s \in Servers,
         newest'[s] # newest[s], newest'[s].to = "FAILED", newest'[s].by \in Engineers
  PROVE  newest'[s].from \in InProgressStates
  <1>1. ASSUME NEW r \in Requests, NEW by \in Engineers, Advance(r, by), Subject(r) = s
        PROVE  newest'[s].from \in InProgressStates
    <2>1. /\ newest'[s].from = current_state[s] /\ newest'[s].to = Operand(r) /\ Busy(r)
          /\ task[r].todo[1] = advance(Operand(r)) /\ 1 \in DOMAIN task[r].todo
          /\ task[r].todo \in Seq(AwaitStep) /\ Shape(r, task[r].msg, task[r].todo)
      BY <1>1, AdvanceWrites DEF Processes
    <2>2. RequestShape(task[r].msg, task[r].todo, 1) /\ task[r].todo[1] = advance("FAILED")
      BY <2>1 DEF Shape
    <2>3. \A g \in Gates : g.next # "FAILED"
      BY GateFacts DEF ErrorStates
    <2>4. Len(task[r].todo) = 1
      BY <2>2, <2>3 DEF RequestShape, advance, publish
    <2>5. task[r].todo = << advance("FAILED") >>
      BY <2>1, <2>2, <2>4
    <2>6. QED
      BY <1>1, <2>1, <2>5 DEF RejectionsAreAtGates, Rejects
  <1>2. ASSUME NEW w \in Processes \ Requests, Advance(w, "system"), Subject(w) = s
        PROVE  FALSE
    BY <1>2, AdvanceWrites DEF Patience
  <1>3. QED
    BY <1>1, <1>2, FailuresAreAdvances

(* An engineer who rejects a server, and waited for the system before,     *)
(* rejects it at the gate that the endpoint checked.                       *)
THEOREM RejectionHolds ==
  ASSUME Patience
  PROVE  Spec => RejectionIsAtGate
  <1> DEFINE Rejection ==
        \A s \in Servers :
          newest'[s] # newest[s] /\ newest'[s].to = "FAILED" /\ newest'[s].by \in Engineers
            => newest'[s].from \in InProgressStates
  <1>1. Inv /\ [Next]_vars => Rejection
    BY RejectionStep DEF Inv
  <1>2. QED
    BY <1>1, PatienceHolds, PTL DEF Spec, RejectionIsAtGate

-----------------------------------------------------------------------------
(* The gates that a configure job leads to, whatever is killed.            *)

(* Where a message is: at an index of a queue, or, with index 0, in the    *)
(* hands of a consumer.                                                    *)
Spots ==
  {x \in AllQueues \X (Nat \ {0}) : x[2] \in DOMAIN queue[x[1]]}
    \cup {x \in Consumers \X {0} : Busy(x[1])}

MessageAt(x) == IF x[2] = 0 THEN task[x[1]].msg ELSE queue[x[1]][x[2]]

(* While a configure job is anywhere, there is no other message about its  *)
(* server, nor another copy of it.                                         *)
ConfiguresAreSingle ==
  \A x, y \in Spots :
    MessageAt(x).job \in ConfigureJobs /\ MessageAt(x).server = MessageAt(y).server => x = y

(* No worker is past its stale check, and no rollback is to come.          *)
GateIsQuiet(s) ==
  /\ \A q \in FailedQueues : \A i \in DOMAIN queue[q] : queue[q][i].server # s
  /\ \A w \in Consumers : Busy(w) /\ Subject(w) = s =>
       w \notin FailedQueues /\ (task[w].todo = <<>> \/ Doing(w, "require"))

GatesAreQuiet ==
  \A s \in Servers : current_state[s] \in ConfiguredGates => GateIsQuiet(s)

(* Engineers wait, no statement raises, and no handler outlives its        *)
(* connection; processes may be killed.                                    *)
OnlyCrashes == MaxHasty = 0 /\ MaxFaults = 0 /\ Orphans = {}

-----------------------------------------------------------------------------
(* A step that leaves every message about a server one message, in         *)
(* whatever place.                                                         *)
LEMMA Rearranged ==
  ASSUME ConfiguresAreSingle, NEW f,
         \A y \in Spots' : /\ f[y] \in Spots
                           /\ MessageAt(y)'.job = MessageAt(f[y]).job
                           /\ MessageAt(y)'.server = MessageAt(f[y]).server,
         \A y, z \in Spots' : f[y] = f[z] => y = z
  PROVE  ConfiguresAreSingle'
  <1> SUFFICES ASSUME NEW y \in Spots', NEW z \in Spots',
                      MessageAt(y)'.job \in ConfigureJobs,
                      MessageAt(y)'.server = MessageAt(z)'.server
               PROVE  y = z
    BY DEF ConfiguresAreSingle
  <1>1. f[y] = f[z]
    BY DEF ConfiguresAreSingle
  <1>2. QED
    BY <1>1

(* Consumers keep the messages they hold, or let them go.                  *)
HoldersKeep ==
  \A w \in Consumers : Busy(w)' =>
    /\ Busy(w) /\ task'[w].msg.job = task[w].msg.job
    /\ task'[w].msg.server = task[w].msg.server

LEMMA NothingSent ==
  ASSUME ConfiguresAreSingle, HoldersKeep, UNCHANGED queue
  PROVE  ConfiguresAreSingle'
  <1> DEFINE f == [y \in Spots' |-> y]
  <1>1. ASSUME NEW y \in Spots'
        PROVE  /\ f[y] = y /\ y \in Spots
               /\ MessageAt(y)'.job = MessageAt(y).job
               /\ MessageAt(y)'.server = MessageAt(y).server
    BY DEF Spots, MessageAt, HoldersKeep
  <1> HIDE DEF f
  <1>2. QED
    BY <1>1, Rearranged

LEMMA OneSent ==
  ASSUME Core, ConfiguresAreSingle, HoldersKeep, NEW m, NEW k \in AllQueues,
         queue' = [queue EXCEPT ![k] = Append(queue[k], m)],
         \/ \A x \in Spots : MessageAt(x).server # m.server
         \/ /\ m.job \notin ConfigureJobs
            /\ \E x \in Spots : /\ MessageAt(x).server = m.server
                                /\ MessageAt(x).job \notin ConfigureJobs
  PROVE  ConfiguresAreSingle'
  <1> DEFINE new == <<k, Len(queue[k]) + 1>>
  <1>1. queue[k] \in Seq(Message)
    BY QueuesAreSequences
  <1>2. ASSUME NEW y \in Spots', y # new
        PROVE  /\ y \in Spots
               /\ MessageAt(y)'.job = MessageAt(y).job
               /\ MessageAt(y)'.server = MessageAt(y).server
    <2>1. CASE y[2] = 0
      BY <2>1, <1>2 DEF Spots, MessageAt, HoldersKeep
    <2>2. CASE y[2] # 0 /\ y[1] = k
      <3>1. /\ y = <<k, y[2]>> /\ y[2] \in DOMAIN Append(queue[k], m) /\ y[2] # Len(queue[k]) + 1
            /\ queue'[k] = Append(queue[k], m)
        BY <1>2, <2>2, QueuesAreSequences DEF Spots
      <3>2. y[2] \in DOMAIN queue[k] /\ Append(queue[k], m)[y[2]] = queue[k][y[2]]
        BY <1>1, <3>1
      <3>3. QED
        BY <1>2, <2>2, <3>1, <3>2 DEF Spots, MessageAt
    <2>3. CASE y[2] # 0 /\ y[1] # k
      BY <1>2, <2>3, QueuesAreSequences DEF Spots, MessageAt
    <2>4. QED
      BY <2>1, <2>2, <2>3
  <1>3. ASSUME NEW y, y = new
        PROVE  MessageAt(y)' = m
    <2>1. queue'[k] = Append(queue[k], m) /\ Len(queue[k]) \in Nat
      BY <1>1, QueuesAreSequences
    <2>2. Append(queue[k], m)[Len(queue[k]) + 1] = m /\ Len(queue[k]) + 1 # 0
      BY <1>1
    <2>3. y[1] = k /\ y[2] = Len(queue[k]) + 1
      BY <1>3
    <2>4. QED
      BY <2>1, <2>2, <2>3 DEF MessageAt
  <1> HIDE DEF new
  <1> SUFFICES ASSUME NEW y \in Spots', NEW z \in Spots',
                      MessageAt(y)'.job \in ConfigureJobs,
                      MessageAt(y)'.server = MessageAt(z)'.server
               PROVE  y = z
    BY DEF ConfiguresAreSingle
  <1>4. CASE y # new /\ z # new
    BY <1>2, <1>4 DEF ConfiguresAreSingle
  <1>5. CASE \A x \in Spots : MessageAt(x).server # m.server
    BY <1>2, <1>3, <1>4, <1>5
  <1>6. ASSUME m.job \notin ConfigureJobs, NEW x \in Spots, MessageAt(x).server = m.server,
               MessageAt(x).job \notin ConfigureJobs
        PROVE  y = z
    <2>1. y # new /\ y \in Spots /\ MessageAt(y).job \in ConfigureJobs
      BY <1>2, <1>3, <1>6
    <2>2. z = new => x = y
      BY <1>2, <1>3, <1>6, <2>1 DEF ConfiguresAreSingle
    <2>3. QED
      BY <1>4, <1>6, <2>1, <2>2
  <1>7. QED
    BY <1>4, <1>5, <1>6

LEMMA Delivering ==
  ASSUME Core, ConfiguresAreSingle, NEW w, NEW steps, Deliver(w, steps)
  PROVE  ConfiguresAreSingle'
  <1> DEFINE k == SourceQueue(w)
             f == [y \in Spots' |-> IF y[2] = 0 /\ y[1] = w THEN <<k, 1>>
                                    ELSE IF y[2] # 0 /\ y[1] = k THEN <<k, y[2] + 1>> ELSE y]
  <1>1. /\ w \in Consumers /\ k \in AllQueues /\ queue[k] \in Seq(Message) /\ queue[k] # <<>>
        /\ queue' = [queue EXCEPT ![k] = Tail(queue[k])] /\ ~Busy(w)
        /\ task' = [task EXCEPT ![w] = [msg |-> Head(queue[k]), todo |-> steps]]
    BY Names, QueuesAreSequences
       DEF Deliver, Take, Start, NextMessage, SourceQueue, Consumers, AllQueues
  <1>2. /\ Head(queue[k]) = queue[k][1] /\ 1 \in DOMAIN queue[k]
        /\ \A i \in DOMAIN Tail(queue[k]) :
             /\ i \in Nat \ {0} /\ i + 1 \in DOMAIN queue[k]
             /\ Tail(queue[k])[i] = queue[k][i+1]
    BY <1>1
  <1>3. /\ queue'[k] = Tail(queue[k]) /\ \A q \in AllQueues \ {k} : queue'[q] = queue[q]
        /\ task'[w].msg = queue[k][1] /\ \A v \in Consumers \ {w} : task'[v] = task[v]
    BY <1>1, <1>2, QueuesAreSequences DEF Core, TasksTypeOK, Processes
  <1> HIDE DEF k
  <1>4. ASSUME NEW y \in Spots'
        PROVE  /\ y = << y[1], y[2] >> /\ y[2] \in Nat
               /\ y[2] = 0 => y[1] \in Consumers /\ (y[1] # w => Busy(y[1]))
               /\ y[2] # 0 => y[1] \in AllQueues /\ y[2] \in DOMAIN queue'[y[1]]
               /\ MessageAt(y)' = IF y[2] = 0 THEN task'[y[1]].msg ELSE queue'[y[1]][y[2]]
    BY <1>3 DEF Spots, MessageAt, Busy
  <1>5. ASSUME NEW y \in Spots'
        PROVE  f[y] \in Spots /\ MessageAt(y)' = MessageAt(f[y])
    <2>1. CASE y[2] = 0 /\ y[1] = w
      <3>1. f[y] = <<k, 1>>
        BY <2>1
      <3>2. <<k, 1>> \in Spots /\ MessageAt(<<k, 1>>) = queue[k][1]
        BY <1>1, <1>2 DEF Spots, MessageAt
      <3>3. QED
        BY <1>3, <1>4, <2>1, <3>1, <3>2
    <2>2. CASE y[2] = 0 /\ y[1] # w
      <3>1. f[y] = y
        BY <2>2
      <3>2. y \in Spots /\ MessageAt(y) = task[y[1]].msg
        BY <1>4, <2>2 DEF Spots, MessageAt
      <3>3. QED
        BY <1>3, <1>4, <2>2, <3>1, <3>2
    <2>3. CASE y[2] # 0 /\ y[1] = k
      <3>1. f[y] = <<k, y[2] + 1>>
        BY <2>3
      <3>2. y[2] + 1 \in DOMAIN queue[k] /\ queue'[k][y[2]] = queue[k][y[2]+1] /\ y[2] + 1 # 0
        <4>1. queue'[k] = Tail(queue[k]) /\ y[2] \in DOMAIN queue'[k]
          BY <1>3, <1>4, <2>3
        <4>2. y[2] \in DOMAIN Tail(queue[k])
          BY <4>1
        <4>3. QED
          BY <1>2, <4>1, <4>2
      <3>3. <<k, y[2] + 1>> \in Spots /\ MessageAt(<<k, y[2] + 1>>) = queue[k][y[2]+1]
        BY <1>1, <1>4, <3>2 DEF Spots, MessageAt
      <3>4. QED
        BY <1>4, <2>3, <3>1, <3>2, <3>3
    <2>4. CASE y[2] # 0 /\ y[1] # k
      <3>1. f[y] = y
        BY <2>4
      <3>2. y \in Spots /\ MessageAt(y) = queue[y[1]][y[2]]
        BY <1>3, <1>4, <2>4 DEF Spots, MessageAt
      <3>3. QED
        BY <1>3, <1>4, <2>4, <3>1, <3>2
    <2>5. QED
      BY <2>1, <2>2, <2>3, <2>4
  <1>6. ASSUME NEW y \in Spots', NEW z \in Spots', f[y] = f[z]
        PROVE  y = z
    <2> DEFINE g(x) == IF x[2] = 0 /\ x[1] = w THEN <<k, 1>>
                       ELSE IF x[2] # 0 /\ x[1] = k THEN <<k, x[2] + 1>> ELSE x
    <2>1. g(y) = g(z)
      BY <1>6
    <2>2. y = << y[1], y[2] >> /\ z = << z[1], z[2] >> /\ y[2] \in Nat /\ z[2] \in Nat
      BY <1>4
    <2>3. QED
      BY <2>1, <2>2
  <1> HIDE DEF f
  <1>7. QED
    BY <1>5, <1>6, Rearranged

LEMMA DeadLettering ==
  ASSUME Core, ConfiguresAreSingle, NEW w \in Consumers, Busy(w), Nack(w)
  PROVE  ConfiguresAreSingle'
  <1> DEFINE m == task[w].msg
             k == IF m.job \in MgnJobs THEN "mgn_jobs.failed" ELSE "poll_jobs.failed"
             f == [y \in Spots' |-> IF y[2] = Len(queue[k]) + 1 /\ y[1] = k THEN <<w, 0>> ELSE y]
  <1>1. /\ k \in AllQueues /\ queue[k] \in Seq(Message) /\ w \notin Orphans
        /\ queue' = [queue EXCEPT ![k] = Append(queue[k], m)]
        /\ task' = [task EXCEPT ![w] = NoTask]
    BY Names, QueuesAreSequences, ProcessesAssumption
       DEF Nack, DeadLetter, Leave, AllQueues, Consumers
  <1> HIDE DEF k
  <1>2. /\ Len(queue[k]) \in Nat /\ Append(queue[k], m)[Len(queue[k]) + 1] = m
        /\ \A i \in DOMAIN Append(queue[k], m) :
             i = Len(queue[k]) + 1 \/ (i \in DOMAIN queue[k] /\ Append(queue[k], m)[i] = queue[k][i])
    BY <1>1
  <1>3. /\ queue'[k] = Append(queue[k], m) /\ \A q \in AllQueues \ {k} : queue'[q] = queue[q]
        /\ ~Busy(w)' /\ \A v \in Consumers \ {w} : task'[v] = task[v]
    BY <1>1, QueuesAreSequences DEF Core, TasksTypeOK, Processes, Busy
  <1> HIDE DEF m
  <1>4. ASSUME NEW y \in Spots'
        PROVE  /\ y = << y[1], y[2] >> /\ y[2] \in Nat
               /\ y[2] = 0 => y[1] \in Consumers /\ y[1] # w /\ Busy(y[1])
               /\ y[2] # 0 => y[1] \in AllQueues /\ y[2] \in DOMAIN queue'[y[1]]
               /\ MessageAt(y)' = IF y[2] = 0 THEN task'[y[1]].msg ELSE queue'[y[1]][y[2]]
    BY <1>3 DEF Spots, MessageAt, Busy
  <1>5. ASSUME NEW y \in Spots'
        PROVE  f[y] \in Spots /\ MessageAt(y)' = MessageAt(f[y])
    <2>1. CASE y[2] = Len(queue[k]) + 1 /\ y[1] = k
      <3>1. f[y] = <<w, 0>>
        BY <2>1
      <3>2. <<w, 0>> \in Spots /\ MessageAt(<<w, 0>>) = m
        BY DEF Spots, MessageAt, m
      <3>3. QED
        BY <1>2, <1>3, <1>4, <2>1, <3>1, <3>2
    <2>2. CASE ~(y[2] = Len(queue[k]) + 1 /\ y[1] = k)
      <3>1. f[y] = y
        BY <2>2
      <3>2. CASE y[2] = 0
        BY <1>3, <1>4, <3>1, <3>2 DEF Spots, MessageAt
      <3>3. CASE y[2] # 0
        <4>1. y[2] \in DOMAIN queue[y[1]] /\ queue'[y[1]][y[2]] = queue[y[1]][y[2]]
          BY <1>2, <1>3, <1>4, <2>2, <3>3
        <4>2. QED
          BY <1>4, <3>1, <3>3, <4>1 DEF Spots, MessageAt
      <3>4. QED
        BY <3>2, <3>3
    <2>3. QED
      BY <2>1, <2>2
  <1>6. ASSUME NEW y \in Spots', NEW z \in Spots', f[y] = f[z]
        PROVE  y = z
    <2> DEFINE g(x) == IF x[2] = Len(queue[k]) + 1 /\ x[1] = k THEN <<w, 0>> ELSE x
    <2>1. g(y) = g(z)
      BY <1>6
    <2>2. /\ y = << y[1], y[2] >> /\ z = << z[1], z[2] >>
          /\ ~(y[2] = 0 /\ y[1] = w) /\ ~(z[2] = 0 /\ z[1] = w)
      BY <1>4
    <2>3. y # <<w, 0>> /\ z # <<w, 0>>
      BY <2>2
    <2>4. QED
      BY <2>1, <2>2, <2>3
  <1> HIDE DEF f
  <1>7. QED
    BY <1>5, <1>6, Rearranged

LEMMA Killing ==
  ASSUME Core, ConfiguresAreSingle, NEW group \in ProcessGroups, Crash(group)
  PROVE  ConfiguresAreSingle'
  <1> DEFINE Back(q) == \E w \in group \cap Consumers : Busy(w) /\ SourceQueue(w) = q
             holder(q) == CHOOSE w \in group \cap Consumers : SourceQueue(w) = q
             g(x) == IF x[2] = 0 \/ ~Back(x[1]) THEN x
                     ELSE IF x[2] = 1 THEN << holder(x[1]), 0 >> ELSE << x[1], x[2] - 1 >>
             f == [y \in Spots' |-> g(y)]
  <1>1. ASSUME NEW q \in AllQueues, Back(q)
        PROVE  /\ holder(q) \in group \cap Consumers /\ SourceQueue(holder(q)) = q
               /\ Busy(holder(q)) /\ task[holder(q)].msg \in Message
               /\ queue'[q] = << task[holder(q)].msg >> \o queue[q]
    <2>1. PICK w \in group \cap Consumers : Busy(w) /\ SourceQueue(w) = q
      BY <1>1
    <2>2. holder(q) \in group \cap Consumers /\ SourceQueue(holder(q)) = q
      BY <2>1
    <2>3. queue'[q] = << task[holder(q)].msg >> \o queue[q]
      BY <1>1, QueuesAreSequences DEF Crash
    <2> HIDE DEF holder
    <2>4. holder(q) = w
      BY <2>1, <2>2, OneConsumerPerQueue
    <2>5. task[w].msg \in Message
      BY <2>1 DEF Consumers, Processes, Busy, Core, TasksTypeOK, Task
    <2>6. QED
      BY <2>1, <2>2, <2>3, <2>4, <2>5
  <1>2. ASSUME NEW q \in AllQueues, ~Back(q)
        PROVE  queue'[q] = queue[q]
    BY <1>2, QueuesAreSequences DEF Crash
  <1>3. ASSUME NEW w \in Consumers, Busy(w)'
        PROVE  Busy(w) /\ w \notin group /\ task'[w] = task[w]
    BY <1>3 DEF Crash, Consumers, Processes, Busy
  <1> HIDE DEF Back, holder
  <1>4. ASSUME NEW y \in Spots'
        PROVE  /\ y = << y[1], y[2] >> /\ y[2] \in Nat
               /\ y[2] = 0 => y[1] \in Consumers /\ Busy(y[1])'
               /\ y[2] # 0 => y[1] \in AllQueues /\ y[2] \in DOMAIN queue'[y[1]]
               /\ MessageAt(y)' = IF y[2] = 0 THEN task'[y[1]].msg ELSE queue'[y[1]][y[2]]
    BY DEF Spots, MessageAt, Busy
  <1>5. ASSUME NEW y \in Spots'
        PROVE  g(y) \in Spots /\ MessageAt(y)' = MessageAt(g(y))
    <2>1. CASE y[2] = 0
      <3>1. g(y) = y
        BY <2>1
      <3>2. QED
        BY <1>3, <1>4, <2>1, <3>1 DEF Spots, MessageAt
    <2>2. CASE y[2] # 0 /\ ~Back(y[1])
      <3>1. g(y) = y
        BY <2>2
      <3>2. QED
        BY <1>2, <1>4, <2>2, <3>1 DEF Spots, MessageAt
    <2>3. CASE y[2] # 0 /\ Back(y[1])
      <3> DEFINE new == << task[holder(y[1])].msg >> \o queue[y[1]]
      <3>1. queue[y[1]] \in Seq(Message) /\ task[holder(y[1])].msg \in Message /\ y[1] \in AllQueues
        BY <1>1, <1>4, <2>3, QueuesAreSequences
      <3>2. /\ new[1] = task[holder(y[1])].msg
            /\ \A i \in DOMAIN queue[y[1]] : new[i+1] = queue[y[1]][i]
            /\ \A i \in DOMAIN new : i = 1 \/ i - 1 \in DOMAIN queue[y[1]]
        BY <3>1, Prefixed
      <3>3. DOMAIN queue[y[1]] \subseteq Nat \ {0}
        BY <3>1
      <3>4. y[2] \in DOMAIN new /\ MessageAt(y)' = new[y[2]]
        BY <1>1, <1>4, <2>3, <3>1
      <3> HIDE DEF new
      <3>5. CASE y[2] = 1
        <4>1. g(y) = << holder(y[1]), 0 >>
          BY <2>3, <3>5
        <4>2. << holder(y[1]), 0 >> \in Spots
          BY <1>1, <2>3, <3>1 DEF Spots
        <4>3. MessageAt(<< holder(y[1]), 0 >>) = task[holder(y[1])].msg
          BY DEF MessageAt
        <4>4. QED
          BY <3>2, <3>4, <3>5, <4>1, <4>2, <4>3
      <3>6. CASE y[2] # 1
        <4>1. g(y) = << y[1], y[2] - 1 >>
          BY <2>3, <3>6
        <4>2. y[2] - 1 \in DOMAIN queue[y[1]] /\ y[2] - 1 # 0 /\ y[2] - 1 \in Nat
          BY <3>2, <3>3, <3>4, <3>6
        <4>3. new[y[2]] = queue[y[1]][y[2] - 1]
          BY <1>4, <3>2, <4>2
        <4>4. << y[1], y[2] - 1 >> \in Spots
          BY <3>1, <4>2 DEF Spots
        <4>5. MessageAt(<< y[1], y[2] - 1 >>) = queue[y[1]][y[2] - 1]
          BY <4>2 DEF MessageAt
        <4>6. QED
          BY <3>4, <4>1, <4>3, <4>4, <4>5
      <3>7. QED
        BY <3>5, <3>6
    <2>4. QED
      BY <2>1, <2>2, <2>3
  <1>6. ASSUME NEW y \in Spots', NEW z \in Spots', g(y) = g(z)
        PROVE  y = z
    <2> DEFINE Old(x) == x[2] = 0 \/ ~Back(x[1])
    <2>1. ASSUME NEW x \in Spots', ~Old(x)
          PROVE  /\ x = << x[1], x[2] >> /\ x[2] \in Nat \ {0}
                 /\ holder(x[1]) \in group /\ SourceQueue(holder(x[1])) = x[1]
                 /\ x[2] = 1 => g(x) = << holder(x[1]), 0 >>
                 /\ x[2] # 1 => g(x) = << x[1], x[2] - 1 >>
      BY <1>1, <1>4, <2>1
    <2>2. ASSUME NEW x \in Spots', Old(x)
          PROVE  /\ x = << x[1], x[2] >> /\ g(x) = x
                 /\ x[2] = 0 => x[1] \notin group
                 /\ x[2] # 0 => ~Back(x[1])
      BY <1>3, <1>4, <2>2
    <2>3. ASSUME NEW x \in Spots', ~Old(x), NEW v \in Spots', Old(v), g(x) = g(v)
          PROVE  FALSE
      <3>1. Back(x[1]) /\ v = g(x)
        BY <2>2, <2>3
      <3>2. CASE x[2] = 1
        BY <2>1, <2>2, <2>3, <3>1, <3>2
      <3>3. CASE x[2] # 1
        BY <2>1, <2>2, <2>3, <3>1, <3>3
      <3>4. QED
        BY <3>2, <3>3
    <2>4. CASE ~Old(y) /\ ~Old(z)
      <3>1. CASE y[2] = 1 /\ z[2] = 1
        <4>1. << holder(y[1]), 0 >> = << holder(z[1]), 0 >>
          BY <1>6, <2>1, <2>4, <3>1
        <4>2. y[1] = z[1]
          BY <2>1, <2>4, <4>1
        <4>3. QED
          BY <2>1, <2>4, <3>1, <4>2
      <3>2. CASE y[2] # 1 /\ z[2] # 1
        <4>1. << y[1], y[2] - 1 >> = << z[1], z[2] - 1 >>
          BY <1>6, <2>1, <2>4, <3>2
        <4>2. y[1] = z[1] /\ y[2] - 1 = z[2] - 1
          BY <4>1
        <4>3. y = << y[1], y[2] >> /\ z = << z[1], z[2] >> /\ y[2] \in Nat /\ z[2] \in Nat
          BY <2>1, <2>4
        <4>4. y[2] = z[2]
          BY <4>2, <4>3
        <4>5. QED
          BY <4>2, <4>3, <4>4
      <3>3. ASSUME NEW x \in Spots', ~Old(x), x[2] = 1, NEW v \in Spots', ~Old(v), v[2] # 1,
                   g(x) = g(v)
            PROVE  FALSE
        <4>1. << holder(x[1]), 0 >> = << v[1], v[2] - 1 >>
          BY <2>1, <3>3
        <4>2. v[2] - 1 = 0 /\ v[2] \in Nat
          BY <2>1, <3>3, <4>1
        <4>3. QED
          BY <3>3, <4>2
      <3>4. QED
        BY <1>6, <2>4, <3>1, <3>2, <3>3
    <2>5. QED
      BY <1>6, <2>2, <2>3, <2>4
  <1> HIDE DEF g
  <1>7. \A y \in Spots' : f[y] = g(y)
    OBVIOUS
  <1> HIDE DEF f
  <1>8. QED
    BY <1>5, <1>6, <1>7, Rearranged

LEMMA NothingAbout ==
  ASSUME NEW s, \A q \in AllQueues : \A i \in DOMAIN queue[q] : queue[q][i].server # s,
         \A w \in Consumers : Busy(w) => Subject(w) # s
  PROVE  \A x \in Spots : MessageAt(x).server # s
  BY DEF Spots, MessageAt, Subject

(* A worker that sends a message has none of a configure job, and sends    *)
(* none.                                                                   *)
LEMMA WorkersDoNotConfigure ==
  ASSUME Core, ConfiguresAreSingle, NEW w \in Consumers, Publish(w) \/ Reenqueue(w)
  PROVE  ConfiguresAreSingle'
  <1>1. w \in Processes /\ w \notin Requests
    BY ProcessesAssumption DEF Consumers, Processes
  <1>2. \A job \in ConfigureJobs : Stage(job) = {} /\ job \notin PollJobs
    BY DEF Stage, ConfigureJobs, SubmittedJobs, PollJobs, VALID_STATES_FOR_POLL
  <1>3. /\ Busy(w) /\ task[w].msg \in Message /\ HoldersKeep
    <2>1. Proceed(w) /\ Busy(w) /\ task[w].msg \in Message
      BY <1>1, Awaiting DEF Publish, Reenqueue, Doing
    <2>2. QED
      BY <1>1, <2>1 DEF Proceed, ContinueWith, HoldersKeep, Consumers, Processes, Core, TasksTypeOK,
                        Task, Busy
  <1>4. << w, 0 >> \in Spots /\ MessageAt(<< w, 0 >>) = task[w].msg
    BY <1>3 DEF Spots, MessageAt
  <1>5. ASSUME NEW m, PublishMessage(m), m.job \in JobType \ ConfigureJobs,
               m.server = task[w].msg.server, task[w].msg.job \notin ConfigureJobs
        PROVE  ConfiguresAreSingle'
    <2> DEFINE k == QUEUE_ROUTING[m.job]
    <2>1. k \in AllQueues
      BY <1>5, Names DEF JobType, AllQueues
    <2>2. queue' = [queue EXCEPT ![k] = Append(queue[k], m)]
      BY <1>5 DEF PublishMessage
    <2> HIDE DEF k
    <2>3. QED
      BY <1>3, <1>4, <1>5, <2>1, <2>2, OneSent
  <1>6. CASE Publish(w)
    <2> DEFINE m == [NewMessage(Operand(w), task[w].msg.server, task[w].msg.aws)
                       EXCEPT !.phase = Head(task[w].todo)[3]]
    <2>1. PublishMessage(m) /\ m.job = Operand(w) /\ m.server = task[w].msg.server
      BY <1>6 DEF Publish, NewMessage
    <2>2. /\ task[w].todo[1][1] = "publish" /\ Operand(w) = task[w].todo[1][2]
          /\ 1 \in DOMAIN task[w].todo /\ Operand(w) \in JobType
          /\ Shape(w, task[w].msg, task[w].todo)
      BY <1>1, <1>6, Awaiting DEF Publish
    <2>3. Operand(w) \notin ConfigureJobs /\ task[w].msg.job \notin ConfigureJobs
      BY <1>1, <1>2, <2>2 DEF Shape, WorkerShape
    <2> HIDE DEF m
    <2>4. QED
      BY <1>5, <2>1, <2>2, <2>3
  <1>7. CASE Reenqueue(w)
    <2> DEFINE m == [task[w].msg EXCEPT !.attempt = @ + 1]
    <2>1. PublishMessage(m) /\ m.job = task[w].msg.job /\ m.server = task[w].msg.server
      BY <1>3, <1>7 DEF Reenqueue, Message
    <2>2. /\ task[w].todo[1][1] = "reenqueue" /\ 1 \in DOMAIN task[w].todo
          /\ Shape(w, task[w].msg, task[w].todo)
      BY <1>1, <1>7, Awaiting DEF Reenqueue
    <2>3. task[w].msg.job \in PollJobs
      BY <2>2 DEF Shape, StepShape
    <2> HIDE DEF m
    <2>4. QED
      BY <1>2, <1>5, <2>1, <2>3 DEF JobType
  <1>8. QED
    BY <1>6, <1>7

LEMMA ConsumerSpots ==
  ASSUME Core, ConfiguresAreSingle, NEW w \in Consumers, ConsumerStep(w)
  PROVE  ConfiguresAreSingle'
  <1>1. w \in Processes /\ w \notin Orphans
    BY ProcessesAssumption DEF Consumers, Processes
  <1> DEFINE Keeps == UNCHANGED queue /\ HoldersKeep
  <1>2. /\ \A steps : Busy(w) /\ ContinueWith(w, steps) => HoldersKeep
        /\ Busy(w) /\ Proceed(w) => HoldersKeep
        /\ Leave(w) => HoldersKeep
    BY <1>1 DEF Proceed, ContinueWith, Leave, HoldersKeep, Consumers, Processes, Core,
                TasksTypeOK, Task, Busy
  <1>3. /\ \A by : Advance(w, by) => Keeps
        /\ CheckState(w) \/ Finish(w) => Keeps
    BY <1>2 DEF Advance, CheckState, Finish, Doing
  <1>4. Keeps => ConfiguresAreSingle'
    BY NothingSent
  <1> HIDE DEF Keeps
  <1>5. MgnWorkerStep(w) => ConfiguresAreSingle'
    <2>1. Call(w) \/ StoreAwsId(w) => Keeps
      BY <1>2 DEF Call, StoreAwsId, Doing, Keeps
    <2>2. JobFails(w) => ConfiguresAreSingle'
      BY DeadLettering DEF JobFails, AdvanceRaises, Doing
    <2>3. QED
      BY <1>3, <1>4, <2>1, <2>2, Delivering, WorkersDoNotConfigure DEF MgnWorkerStep, ReceiveJob
  <1>6. PollerStep(w) => ConfiguresAreSingle'
    <2>1. PollCompletes(w) \/ PollAgain(w) => Keeps
      BY <1>2 DEF PollCompletes, PollAgain, Doing, Keeps
    <2>2. PollFails(w) => ConfiguresAreSingle'
      BY DeadLettering DEF PollFails, AdvanceRaises, Doing
    <2>3. QED
      BY <1>3, <1>4, <2>1, <2>2, Delivering, WorkersDoNotConfigure DEF PollerStep, ReceivePoll
  <1>7. RollbackStep(w) => ConfiguresAreSingle'
    <2>1. Plan(w) => Keeps
      <3> SUFFICES ASSUME Plan(w) PROVE HoldersKeep
        BY DEF Plan, Keeps
      <3>1. Busy(w) /\ task[w].msg \in Message /\ task[w] \in Task
        BY <1>1, Awaiting DEF Plan, Doing
      <3>2. PICK id, steps : task' = [task EXCEPT ![w] =
                                       [task[w] EXCEPT !.msg.aws = id, !.todo = steps]]
        BY DEF Plan
      <3> DEFINE t == [task[w] EXCEPT !.msg.aws = id, !.todo = steps]
      <3>3. t.msg.job = task[w].msg.job /\ t.msg.server = task[w].msg.server
        BY <3>1 DEF Task, Message
      <3>4. task' = [task EXCEPT ![w] = t]
        BY <3>2
      <3> HIDE DEF t
      <3>5. QED
        BY <1>1, <3>1, <3>3, <3>4 DEF HoldersKeep, Consumers, Processes, Core, TasksTypeOK, Busy
    <2>2. Undo(w) \/ RollbackFails(w) => Keeps
      BY <1>2 DEF Undo, RollbackFails, Doing, Keeps
    <2>3. QED
      BY <1>3, <1>4, <2>1, <2>2, Delivering DEF RollbackStep, ReceiveFailure
  <1>8. QED
    BY <1>1, <1>5, <1>6, <1>7 DEF ConsumerStep

LEMMA ConfiguresAreSingleStep ==
  ASSUME Core, Counters, RequestsAreAlone, ConfiguresAreSingle, OnlyCrashes, [Next]_vars
  PROVE  ConfiguresAreSingle'
  <1>1. \A r \in Requests : r \in Processes /\ r \notin Consumers
    BY ProcessesAssumption DEF Processes, Consumers
  <1>2. UNCHANGED <<task, queue>> => ConfiguresAreSingle'
    BY NothingSent DEF HoldersKeep, Busy
  <1>3. ASSUME NEW r \in Requests, OthersStay(r)
        PROVE  HoldersKeep
    BY <1>1, <1>3 DEF OthersStay, HoldersKeep, Consumers, Processes, Busy
  <1>4. ASSUME NEW m, PublishMessage(m), m.job \in JobType, HoldersKeep,
               \A x \in Spots : MessageAt(x).server # m.server
        PROVE  ConfiguresAreSingle'
    <2> DEFINE k == QUEUE_ROUTING[m.job]
    <2>1. k \in AllQueues
      BY <1>4, Names DEF JobType, AllQueues
    <2>2. queue' = [queue EXCEPT ![k] = Append(queue[k], m)]
      BY <1>4 DEF PublishMessage
    <2> HIDE DEF k
    <2>3. QED
      BY <1>4, <2>1, <2>2, OneSent
  <1>5. ASSUME NEW r \in Requests, RequestStep(r)
        PROVE  ConfiguresAreSingle'
    <2>1. HoldersKeep
      BY <1>1, <1>3, <1>5, StepsAreLocal
    <2>2. CASE Publish(r)
      <3> DEFINE m == [NewMessage(Operand(r), task[r].msg.server, task[r].msg.aws)
                         EXCEPT !.phase = Head(task[r].todo)[3]]
      <3>1. PublishMessage(m) /\ m.job = Operand(r) /\ m.server = Subject(r)
        BY <2>2 DEF Publish, NewMessage, Subject
      <3>2. Operand(r) \in JobType /\ Subject(r) \in Servers
        BY <1>1, <2>2, Awaiting DEF Publish
      <3>3. Pending(Subject(r), r)
        BY <2>2 DEF Publish, Doing, Pending
      <3>4. \A x \in Spots : MessageAt(x).server # Subject(r)
        <4>1. Alone(Subject(r), r)
          BY <3>2, <3>3 DEF RequestsAreAlone
        <4>2. QED
          BY <1>1, <4>1, NothingAbout DEF Alone, Processes
      <3> HIDE DEF m
      <3>5. QED
        BY <1>4, <2>1, <3>1, <3>2, <3>4
    <2>3. CASE ~Publish(r)
      BY <1>5, <2>1, <2>3, NothingSent DEF RequestStep, RequireState, RequestFails, Finish, Advance
    <2>4. QED
      BY <2>2, <2>3
  <1>6. CASE NewRequest
    BY <1>3, <1>6, NewRequestsAreLocal, NothingSent
  <1>7. ASSUME NEW s \in Servers, ManualDispatch(s)
        PROVE  ConfiguresAreSingle'
    <2>1. PICK job \in ManualJobs : PublishMessage(NewMessage(job, s, aws_source_server_id[s]))
      BY <1>7 DEF ManualDispatch
    <2> DEFINE m == NewMessage(job, s, aws_source_server_id[s])
    <2>2. m.job \in JobType /\ m.server = s
      BY OrchestratorAssumption DEF JobType, NewMessage
    <2>3. HoldersKeep
      BY <1>7 DEF ManualDispatch, HoldersKeep, Busy
    <2>4. \A x \in Spots : MessageAt(x).server # s
      BY <1>7, QuietMeans, NothingAbout DEF ManualDispatch, Processes
    <2> HIDE DEF m
    <2>5. PublishMessage(m)
      BY <2>1 DEF m
    <2>6. QED
      BY <1>4, <2>2, <2>3, <2>4, <2>5
  <1>8. \A w \in Consumers, orphan \in Orphans : ~LoseConnection(w, orphan)
    BY DEF OnlyCrashes
  <1>9. \A p \in Processes : ~Fault(p)
    BY DEF OnlyCrashes, Counters, Fault
  <1>10. \A w \in Consumers \cup Orphans : ConsumerStep(w) => ConfiguresAreSingle'
    BY ConsumerSpots DEF OnlyCrashes
  <1>11. QED
    BY <1>2, <1>5, <1>6, <1>7, <1>8, <1>9, <1>10, Killing
       DEF Next, Register, Reset, ManualAdvance, vars

-----------------------------------------------------------------------------
(* A worker that has a message about a server at such a gate is done with  *)
(* it, or is about to find it stale.                                       *)
LEMMA GateIsPassedOver ==
  ASSUME Core, NEW w \in Consumers, ConsumerStep(w), Busy(w), NEW s, Subject(w) = s,
         current_state[s] \in ConfiguredGates, GateIsQuiet(s)
  PROVE  /\ UNCHANGED <<queue, current_state, newest>>
         /\ Busy(w)' => Subject(w)' = s /\ task'[w].todo = <<>>
  <1>1. /\ w \in Processes /\ w \notin Requests \cup Orphans /\ w \notin FailedQueues
        /\ task[w].todo = <<>> \/ Doing(w, "require")
    BY ProcessesAssumption DEF GateIsQuiet, Consumers, Processes
  <1>2. \A kind : Doing(w, kind) => kind = "require"
    BY <1>1 DEF Doing
  <1>3. CheckState(w) \/ Finish(w)
    <2>1. \A steps : ~Deliver(w, steps)
      BY DEF Deliver, Start
    <2>2. MgnWorkerStep(w) => CheckState(w) \/ Finish(w)
      BY <1>2, <2>1 DEF MgnWorkerStep, ReceiveJob, Call, StoreAwsId, Advance, Publish, JobFails,
                        AdvanceRaises
    <2>3. PollerStep(w) => CheckState(w) \/ Finish(w)
      BY <1>2, <2>1 DEF PollerStep, ReceivePoll, PollCompletes, PollAgain, Reenqueue, Advance,
                        Publish, PollFails, AdvanceRaises
    <2>4. QED
      BY <1>1, <2>2, <2>3 DEF ConsumerStep
  <1>4. CASE Finish(w)
    BY <1>1, <1>4 DEF Finish, Leave, ledgerVars, Core, TasksTypeOK, Busy
  <1>5. CASE CheckState(w)
    <2>1. /\ Operand(w) = task[w].todo[1][2] /\ task[w].todo[1][1] = "require"
          /\ 1 \in DOMAIN task[w].todo /\ Shape(w, task[w].msg, task[w].todo)
      BY <1>1, <1>5, Awaiting DEF CheckState
    <2>2. Operand(w) \notin InProgressStates
      BY <1>1, <2>1 DEF Shape, WorkerShape
    <2>3. ConfiguredGates \subseteq InProgressStates
      BY DEF ConfiguredGates, InProgressStates
    <2>4. ContinueWith(w, <<>>)
      BY <1>5, <2>2, <2>3 DEF CheckState
    <2>5. QED
      BY <1>1, <1>5, <2>4 DEF CheckState, ContinueWith, ledgerVars, Core, TasksTypeOK, Task, Busy,
                              Subject
  <1>6. QED
    BY <1>3, <1>4, <1>5

(* What a worker begins with is a check.                                   *)
LEMMA WorkersCheckFirst ==
  ASSUME Core, NEW w \in Consumers \ FailedQueues, ConsumerStep(w), ~Busy(w), Busy(w)'
  PROVE  Doing(w, "require")'
  <1>1. w \in Processes /\ w \notin Requests \cup Orphans
    BY ProcessesAssumption DEF Consumers, Processes
  <1>2. (w \in MgnWorkers /\ ReceiveJob(w)) \/ ReceivePoll(w)
    <2>1. MgnWorkerStep(w) => ReceiveJob(w)
      BY DEF MgnWorkerStep, CheckState, Call, StoreAwsId, Advance, Publish, JobFails,
             AdvanceRaises, Finish, Doing
    <2>2. PollerStep(w) => ReceivePoll(w)
      BY DEF PollerStep, CheckState, PollCompletes, PollAgain, Reenqueue, Advance,
             Publish, PollFails, AdvanceRaises, Finish, Doing
    <2>3. QED
      BY <1>1, <2>1, <2>2 DEF ConsumerStep
  <1>3. ASSUME NEW steps, Deliver(w, steps), steps # <<>>, Head(steps)[1] = "require"
        PROVE  Doing(w, "require")'
    <2>1. task'[w].todo = steps
      BY <1>1, <1>3 DEF Deliver, Start, Core, TasksTypeOK
    <2>2. QED
      BY <1>3, <2>1 DEF Doing
  <1>4. CASE w \in MgnWorkers /\ ReceiveJob(w)
    <2> DEFINE m == NextMessage(w)
               first == <<"require", VALID_STATES_FOR_JOB[m.job]>>
               rest == Handler[m.job]
               steps == <<first>> \o rest
    <2>1. Deliver(w, steps)
      BY <1>4 DEF ReceiveJob, MgnProgram
    <2>2. m \in Message /\ m.job \in MgnJobs
      BY <1>4, <2>1, NextIsRouted
    <2>3. rest \in Seq(AwaitStep)
      BY <2>2, HandlerShapes DEF Shaped
    <2>4. first \in AwaitStep
      BY <2>2 DEF AwaitStep, MgnJobs, VALID_STATES_FOR_JOB, ServerState
    <2>5. first[1] = "require"
      OBVIOUS
    <2> HIDE DEF first, rest
    <2>6. steps \in Seq(AwaitStep) /\ steps # <<>> /\ steps[1] = first
      BY <2>3, <2>4, Prefixed
    <2> HIDE DEF steps
    <2>7. Head(steps) = first
      BY <2>6
    <2>8. QED
      BY <1>3, <2>1, <2>5, <2>6, <2>7
  <1>5. CASE ReceivePoll(w)
    <2> DEFINE steps == PollProgram(NextMessage(w))
    <2>1. Deliver(w, steps)
      BY <1>5 DEF ReceivePoll
    <2>2. steps # <<>> /\ Head(steps)[1] = "require"
      BY DEF PollProgram
    <2> HIDE DEF steps
    <2>3. QED
      BY <1>3, <2>1, <2>2
  <1>6. QED
    BY <1>2, <1>4, <1>5

(* What leaves a server at its gate in peace.                              *)
LEMMA GateStaysQuiet ==
  ASSUME NEW s, GateIsQuiet(s),
         \A q \in FailedQueues : \A i \in DOMAIN queue'[q] : queue'[q][i].server # s,
         \A w \in Consumers : Busy(w)' /\ Subject(w)' = s =>
           \/ task'[w] = task[w]
           \/ w \notin FailedQueues /\ (task'[w].todo = <<>> \/ Doing(w, "require")')
  PROVE  GateIsQuiet(s)'
  BY DEF GateIsQuiet, Busy, Subject, Doing

(* A step of a consumer while a server is at such a gate.                  *)
LEMMA ConsumersPassOver ==
  ASSUME Core, NEW w \in Consumers, ConsumerStep(w), NEW s \in Servers,
         current_state[s] \in ConfiguredGates, GateIsQuiet(s)
  PROVE  GateIsQuiet(s)'
  <1>1. Contained(w)
    BY ContainedSteps DEF Processes
  <1>2. \A v \in Consumers \ {w} : task'[v] = task[v]
    BY <1>1 DEF Contained, OthersStay, Processes
  <1>3. CASE Busy(w) /\ Subject(w) = s
    <2>1. UNCHANGED queue /\ (Busy(w)' => task'[w].todo = <<>>) /\ w \notin FailedQueues
      BY <1>3, GateIsPassedOver DEF GateIsQuiet
    <2>2. QED
      BY <1>2, <2>1, GateStaysQuiet DEF GateIsQuiet
  <1>4. CASE ~(Busy(w) /\ Subject(w) = s)
    <2>1. \A q \in FailedQueues : \A i \in DOMAIN queue'[q] : queue'[q][i].server # s
      BY <1>1, <1>4 DEF Contained, GateIsQuiet, AllQueues
    <2>2. ASSUME Busy(w)', Subject(w)' = s
          PROVE  w \notin FailedQueues /\ Doing(w, "require")'
      <3>1. PICK q \in AllQueues :
              \E j \in DOMAIN queue[q] :
                q = SourceQueue(w) /\ Subject(w)' = queue[q][j].server
        BY <1>1, <1>4, <2>2 DEF Contained
      <3>2. ~Busy(w)
        BY <1>1, <1>4, <2>2 DEF Contained
      <3>3. w \notin FailedQueues
        BY <2>2, <3>1, ProcessesAssumption DEF GateIsQuiet, SourceQueue
      <3>4. QED
        BY <2>2, <3>2, <3>3, WorkersCheckFirst
    <2>3. QED
      BY <1>2, <2>1, <2>2, GateStaysQuiet
  <1>5. QED
    BY <1>3, <1>4

(* What goes back to a failed queue when the rollback worker is killed.    *)
LEMMA KillingPassesOver ==
  ASSUME Core, NEW group \in ProcessGroups, Crash(group), NEW s, GateIsQuiet(s)
  PROVE  GateIsQuiet(s)'
  <1>1. \A w \in Consumers : Busy(w)' => task'[w] = task[w]
    BY DEF Crash, Consumers, Processes, Busy
  <1>2. ASSUME NEW q \in FailedQueues, NEW i \in DOMAIN queue'[q]
        PROVE  queue'[q][i].server # s
    <2>1. q \in AllQueues
      BY DEF AllQueues
    <2>2. CASE \E w \in group \cap Consumers : Busy(w) /\ SourceQueue(w) = q
      <3>1. PICK w \in group \cap Consumers : Busy(w) /\ SourceQueue(w) = q
        BY <2>2
      <3> DEFINE c == CHOOSE v \in group \cap Consumers : SourceQueue(v) = q
      <3>2. c \in group \cap Consumers /\ SourceQueue(c) = q
        BY <3>1
      <3>3. queue'[q] = <<task[c].msg>> \o queue[q]
        BY <2>1, <2>2, QueuesAreSequences DEF Crash
      <3> HIDE DEF c
      <3>4. c = w
        BY <3>1, <3>2, OneConsumerPerQueue
      <3>5. task[w].msg \in Message /\ queue[q] \in Seq(Message)
        BY <2>1, <3>1, QueuesAreSequences DEF Processes, Consumers, Busy, Core, TasksTypeOK, Task
      <3>6. w = q
        BY <3>1, Names DEF SourceQueue
      <3>7. Subject(w) # s
        BY <3>1, <3>6 DEF GateIsQuiet
      <3> DEFINE new == <<task[w].msg>> \o queue[q]
      <3>8. /\ new[1] = task[w].msg
            /\ \A k \in DOMAIN queue[q] : new[k+1] = queue[q][k]
            /\ \A k \in DOMAIN new : k = 1 \/ k - 1 \in DOMAIN queue[q]
            /\ DOMAIN new \subseteq Int
        BY <3>5, Prefixed
      <3>9. queue'[q] = new
        BY <3>3, <3>4
      <3> HIDE DEF new
      <3>10. i = 1 \/ (i - 1 \in DOMAIN queue[q] /\ new[i] = queue[q][i-1])
        BY <1>2, <3>8, <3>9
      <3>11. QED
        BY <3>7, <3>8, <3>9, <3>10 DEF GateIsQuiet, Subject
    <2>3. CASE ~ \E w \in group \cap Consumers : Busy(w) /\ SourceQueue(w) = q
      BY <1>2, <2>1, <2>3, QueuesAreSequences DEF Crash, GateIsQuiet
    <2>4. QED
      BY <2>2, <2>3
  <1>3. QED
    BY <1>1, <1>2, GateStaysQuiet

-----------------------------------------------------------------------------
(* Who moves a server.                                                     *)
Engaged(s) == Register(s) \/ Reset(s) \/ ManualAdvance(s)

LEMMA Movers ==
  ASSUME Core, NEW s \in Servers, [Next]_vars, current_state'[s] # current_state[s]
  PROVE  \/ \E w \in Consumers \cup Orphans : Advance(w, "system") /\ Subject(w) = s
         \/ \E r \in Requests, by \in Engineers : Advance(r, by) /\ Subject(r) = s
         \/ Engaged(s)
  <1> DEFINE Goal == \/ \E w \in Consumers \cup Orphans : Advance(w, "system") /\ Subject(w) = s
                     \/ \E r \in Requests, by \in Engineers : Advance(r, by) /\ Subject(r) = s
                     \/ Engaged(s)
  <1>1. ASSUME NEW p, NEW by, Advance(p, by)
        PROVE  Subject(p) = s
    BY <1>1 DEF Advance, AdvanceState, MoveTo, Core, LedgerTypeOK
  <1>2. ASSUME NEW w \in Consumers \cup Orphans, ConsumerStep(w)
        PROVE  Goal
    BY <1>1, <1>2, OnlyAdvancesMove
  <1>3. ASSUME NEW r \in Requests, RequestStep(r)
        PROVE  Goal
    BY <1>1, <1>3 DEF RequestStep, RequireState, Publish, RequestFails, Finish, ledgerVars
  <1>4. ASSUME NEW t \in Servers, Register(t) \/ Reset(t) \/ ManualAdvance(t)
        PROVE  t = s
    BY <1>4 DEF Register, RegisterServer, Reset, ResetServer, ManualAdvance, AdvanceState, MoveTo,
                Core, LedgerTypeOK
  <1>5. ASSUME NEW t \in Servers, ManualDispatch(t)
        PROVE  FALSE
    BY <1>5 DEF ManualDispatch, ledgerVars
  <1>6. ~NewRequest
    BY NewRequestsAreLocal DEF ledgerVars
  <1>7. \A group : ~Crash(group)
    BY DEF Crash, ledgerVars
  <1>8. \A w, orphan : ~LoseConnection(w, orphan)
    BY DEF LoseConnection, ledgerVars
  <1>9. \A p : ~Fault(p)
    BY DEF Fault, Nack, ledgerVars
  <1>10. ~UNCHANGED vars
    BY DEF vars, ledgerVars
  <1>11. QED
    BY <1>2, <1>3, <1>4, <1>5, <1>6, <1>7, <1>8, <1>9, <1>10 DEF Next, Engaged

(* No request moves a server to a gate.                                    *)
LEMMA RequestsLeaveGates ==
  ASSUME Core, NEW r \in Requests, NEW by, Advance(r, by), NEW s, Subject(r) = s
  PROVE  current_state'[s] \notin InProgressStates
  <1>1. /\ s \in Servers /\ task[r].todo[1] = advance(Operand(r)) /\ 1 \in DOMAIN task[r].todo
        /\ Shape(r, task[r].msg, task[r].todo)
    BY AdvanceWrites DEF Processes
  <1>2. current_state'[s] = Operand(r)
    BY <1>1 DEF Advance, AdvanceState, MoveTo, Core, LedgerTypeOK
  <1>3. RequestShape(task[r].msg, task[r].todo, 1)
    BY <1>1 DEF Shape
  <1>4. Operand(r) = "FAILED" \/ \E g \in Gates : Operand(r) = g.next
    BY <1>1, <1>3 DEF RequestShape, advance, publish
  <1>5. QED
    BY <1>2, <1>4, GateFacts DEF InProgressStates

(* When a server comes to such a gate, there is nothing else about it.     *)
LEMMA GateIsReached ==
  ASSUME Core, ConfiguresAreSingle, OnlyCrashes, [Next]_vars,
         NEW s \in Servers, current_state[s] \notin ConfiguredGates,
         current_state'[s] \in ConfiguredGates
  PROVE  GateIsQuiet(s)'
  <1>1. ConfiguredGates \subseteq InProgressStates
    BY DEF ConfiguredGates, InProgressStates
  <1>2. ASSUME NEW w \in Consumers, Advance(w, "system"), Subject(w) = s
        PROVE  GateIsQuiet(s)'
    <2>1. w \in Processes /\ w \notin Requests
      BY ProcessesAssumption DEF Consumers, Processes
    <2>2. /\ task[w].todo[1] = advance(Operand(w)) /\ 1 \in DOMAIN task[w].todo /\ Busy(w)
          /\ task[w].todo \in Seq(AwaitStep) /\ Shape(w, task[w].msg, task[w].todo)
          /\ current_state'[s] = Operand(w)
      BY <1>2, <2>1, AdvanceWrites DEF Advance, AdvanceState, MoveTo, Core, LedgerTypeOK
    <2>3. /\ task[w].todo[1][1] = "advance" /\ task[w].todo[1][2] = Operand(w)
          /\ Operand(w) \in ConfiguredGates /\ Operand(w) \notin ErrorStates
      BY <2>2 DEF advance, ConfiguredGates, ErrorStates
    <2>4. Len(task[w].todo) = 1 /\ task[w].msg.job \in ConfigureJobs /\ w \notin FailedQueues
      BY <1>1, <2>1, <2>2, <2>3 DEF Shape, WorkerShape, RollbackShape
    <2>5. Tail(task[w].todo) = <<>>
      <3>1. ASSUME NEW rest \in Seq(AwaitStep), Len(rest) = 0
            PROVE  rest = <<>>
        BY <3>1
      <3>2. Tail(task[w].todo) \in Seq(AwaitStep) /\ Len(Tail(task[w].todo)) = 0
        BY <2>2, <2>4
      <3>3. QED
        BY <3>1, <3>2
    <2>6. /\ UNCHANGED queue /\ task'[w].todo = <<>> /\ Subject(w)' = s
          /\ \A v \in Consumers \ {w} : task'[v] = task[v]
      BY <1>2, <2>1, <2>2, <2>5
         DEF Advance, Proceed, ContinueWith, Core, TasksTypeOK, Task, Busy, Subject, Consumers,
             Processes
    <2>7. <<w, 0>> \in Spots /\ MessageAt(<<w, 0>>) = task[w].msg
      BY <2>2 DEF Spots, MessageAt
    <2>8. ASSUME NEW x \in Spots, x # <<w, 0>>
          PROVE  MessageAt(x).server # s
      BY <1>2, <2>4, <2>7, <2>8 DEF ConfiguresAreSingle, Subject
    <2>9. ASSUME NEW q \in FailedQueues, NEW i \in DOMAIN queue[q]
          PROVE  queue[q][i].server # s
      <3>1. queue[q] \in Seq(Message) /\ q \in AllQueues
        BY QueuesAreSequences DEF AllQueues
      <3>2. i \in Nat \ {0}
        BY <3>1
      <3>3. <<q, i>> \in Spots /\ MessageAt(<<q, i>>) = queue[q][i] /\ <<q, i>> # <<w, 0>>
        BY <3>1, <3>2 DEF Spots, MessageAt
      <3>4. QED
        BY <2>8, <3>3
    <2>10. ASSUME NEW v \in Consumers, v # w, Busy(v)
           PROVE  Subject(v) # s
      <3>1. <<v, 0>> \in Spots /\ MessageAt(<<v, 0>>) = task[v].msg /\ <<v, 0>> # <<w, 0>>
        BY <2>10 DEF Spots, MessageAt
      <3>2. QED
        BY <2>8, <3>1 DEF Subject
    <2>11. QED
      BY <2>4, <2>6, <2>9, <2>10 DEF GateIsQuiet, Busy, Subject
  <1>3. CASE ManualAdvance(s)
    <2>1. Quiet(s) /\ UNCHANGED <<task, queue>>
      BY <1>3 DEF ManualAdvance
    <2>2. QED
      BY <2>1, QuietMeans DEF GateIsQuiet, AllQueues, Processes, Busy, Subject
  <1>4. ~Register(s) /\ ~Reset(s)
    BY DEF Register, RegisterServer, Reset, ResetServer, MoveTo, Core, LedgerTypeOK, ConfiguredGates
  <1>5. QED
    BY <1>1, <1>2, <1>3, <1>4, Movers, RequestsLeaveGates DEF Engaged, OnlyCrashes

LEMMA GatesAreQuietStep ==
  ASSUME Core, Counters, ConfiguresAreSingle, GatesAreQuiet, OnlyCrashes, [Next]_vars
  PROVE  GatesAreQuiet'
  <1> SUFFICES ASSUME NEW s \in Servers, current_state'[s] \in ConfiguredGates
               PROVE  GateIsQuiet(s)'
    BY DEF GatesAreQuiet
  <1>1. CASE current_state[s] \notin ConfiguredGates
    BY <1>1, GateIsReached
  <1>2. CASE current_state[s] \in ConfiguredGates
    <2>1. GateIsQuiet(s)
      BY <1>2 DEF GatesAreQuiet
    <2>2. ASSUME \A q \in FailedQueues : queue'[q] = queue[q],
                 \A w \in Consumers : task'[w] = task[w]
          PROVE  GateIsQuiet(s)'
      BY <2>1, <2>2, GateStaysQuiet DEF GateIsQuiet
    <2>3. ASSUME NEW m, m.job \in JobType, PublishMessage(m)
          PROVE  \A q \in FailedQueues : queue'[q] = queue[q]
      BY <2>3, Names, QueuesAreSequences DEF PublishMessage, JobType, AllQueues
    <2>4. ASSUME NEW r \in Requests, OthersStay(r)
          PROVE  \A w \in Consumers : task'[w] = task[w]
      BY <2>4, ProcessesAssumption DEF OthersStay, Processes, Consumers
    <2>5. ASSUME NEW r \in Requests, RequestStep(r)
          PROVE  GateIsQuiet(s)'
      <3>1. r \in Processes
        BY DEF Processes
      <3>2. \A w \in Consumers : task'[w] = task[w]
        BY <2>4, <2>5, <3>1, StepsAreLocal
      <3>3. CASE Publish(r)
        <4> DEFINE m == [NewMessage(Operand(r), task[r].msg.server, task[r].msg.aws)
                           EXCEPT !.phase = Head(task[r].todo)[3]]
        <4>1. PublishMessage(m) /\ m.job = Operand(r)
          BY <3>3 DEF Publish, NewMessage
        <4>2. Operand(r) \in JobType
          BY <3>1, <3>3, Awaiting DEF Publish
        <4> HIDE DEF m
        <4>3. QED
          BY <2>2, <2>3, <3>2, <4>1, <4>2
      <3>4. CASE ~Publish(r)
        BY <2>2, <2>5, <3>2, <3>4 DEF RequestStep, RequireState, RequestFails, Finish, Advance
      <3>5. QED
        BY <3>3, <3>4
    <2>6. NewRequest => GateIsQuiet(s)'
      BY <2>2, <2>4, NewRequestsAreLocal
    <2>7. ASSUME NEW t \in Servers, ManualDispatch(t)
          PROVE  GateIsQuiet(s)'
      <3>1. PICK job \in ManualJobs : PublishMessage(NewMessage(job, t, aws_source_server_id[t]))
        BY <2>7 DEF ManualDispatch
      <3> DEFINE m == NewMessage(job, t, aws_source_server_id[t])
      <3>2. m.job \in JobType
        BY OrchestratorAssumption DEF JobType, NewMessage
      <3> HIDE DEF m
      <3>3. PublishMessage(m)
        BY <3>1 DEF m
      <3>4. QED
        BY <2>2, <2>3, <2>7, <3>2, <3>3 DEF ManualDispatch
    <2>8. /\ \A w \in Consumers, orphan \in Orphans : ~LoseConnection(w, orphan)
          /\ \A p \in Processes : ~Fault(p)
          /\ Consumers \cup Orphans = Consumers
      BY DEF OnlyCrashes, Counters, Fault
    <2>9. \A w \in Consumers : ConsumerStep(w) => GateIsQuiet(s)'
      BY <1>2, <2>1, ConsumersPassOver
    <2>10. \A group \in ProcessGroups : Crash(group) => GateIsQuiet(s)'
      BY <2>1, KillingPassesOver
    <2>11. UNCHANGED <<task, queue>> => GateIsQuiet(s)'
      BY <2>2
    <2>12. QED
      BY <2>5, <2>6, <2>7, <2>8, <2>9, <2>10, <2>11
         DEF Next, Register, Reset, ManualAdvance, vars
  <1>3. QED
    BY <1>1, <1>2

-----------------------------------------------------------------------------
CrashInv ==
  Core /\ Counters /\ RequestsAreAlone /\ ConfiguresAreSingle /\ GatesAreQuiet

LEMMA CrashInvInit == Init => CrashInv
  <1> SUFFICES ASSUME Init PROVE CrashInv
    OBVIOUS
  <1>1. Core
    BY InitCore
  <1>2. Counters
    BY ApiAssumption, OrchestratorAssumption DEF Init, Counters
  <1>3. (\A p \in Processes : ~Busy(p)) /\ (\A q \in AllQueues : queue[q] = <<>>)
    BY DEF Init, TasksInit, Busy, BrokerInit, AllQueues
  <1>4. RequestsAreAlone
    BY <1>3 DEF RequestsAreAlone, Pending, Processes
  <1>5. ConfiguresAreSingle
    BY <1>3 DEF ConfiguresAreSingle, Spots, Processes
  <1>6. GatesAreQuiet
    BY DEF Init, LedgerInit, NotRegistered, GatesAreQuiet, ConfiguredGates
  <1>7. QED
    BY <1>1, <1>2, <1>4, <1>5, <1>6 DEF CrashInv

LEMMA CrashInvHolds ==
  ASSUME OnlyCrashes
  PROVE  Spec => []CrashInv
  <1>1. CrashInv /\ [Next]_vars => CrashInv'
    BY CoreStep, CountersStep, RequestsAreAloneStep, ConfiguresAreSingleStep, GatesAreQuietStep
       DEF CrashInv, OnlyCrashes
  <1>2. QED
    BY <1>1, CrashInvInit, PTL DEF Spec

(* Nobody but an engineer moves a server out of such a gate.               *)
LEMMA GateIsLeft ==
  ASSUME Core, GatesAreQuiet, OnlyCrashes, [Next]_vars, NEW s \in Servers,
         current_state[s] \in ConfiguredGates, current_state'[s] # current_state[s]
  PROVE  newest'[s].by \in Engineers
  <1>1. ASSUME NEW w \in Consumers, Advance(w, "system"), Subject(w) = s
        PROVE  FALSE
    BY <1>1 DEF Advance, Doing, GatesAreQuiet, GateIsQuiet
  <1>2. ASSUME NEW r \in Requests, NEW by \in Engineers, Advance(r, by), Subject(r) = s
        PROVE  newest'[s].by = by
    BY <1>2, AdvanceWrites DEF Processes
  <1>3. CASE ManualAdvance(s)
    BY <1>3 DEF ManualAdvance, AdvanceState, MoveTo, Core, LedgerTypeOK
  <1>4. ~Register(s) /\ ~Reset(s)
    BY DEF Register, RegisterServer, IsRegistered, NotRegistered, Reset, ResetServer,
           ConfiguredGates
  <1>5. QED
    BY <1>1, <1>2, <1>3, <1>4, Movers DEF Engaged, OnlyCrashes

(* Workers may be killed between any two awaits, and their messages be     *)
(* delivered once more: no server leaves the gate to which its configure   *)
(* job has moved it, unless an engineer moves it on.                       *)
THEOREM ConfiguredGateHolds ==
  ASSUME OnlyCrashes
  PROVE  Spec => ConfiguredGateIsHeld
  <1> DEFINE Held ==
        \A s \in Servers :
          /\ current_state[s] \in ConfiguredGates
          /\ current_state'[s] # current_state[s]
          => newest'[s].by \in Engineers
  <1>1. CrashInv /\ [Next]_vars => Held
    BY GateIsLeft DEF CrashInv
  <1>2. QED
    BY <1>1, CrashInvHolds, PTL DEF Spec, ConfiguredGateIsHeld
=============================================================================
