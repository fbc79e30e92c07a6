---------------------------- MODULE PollerWorker ----------------------------
(***************************************************************************)
(* workers/poller_worker.py: the loop that asks AWS whether a long running *)
(* operation is over, puts the message back at the tail of poll_jobs while *)
(* it is not, and gives up after MaxPollAttempts (MAX_POLL_ATTEMPTS).      *)
(***************************************************************************)
EXTENDS Tasks

(* A launched instance is polled in two phases: the first moves the server *)
(* to running and sends the poll of the second, which moves it to done.    *)
InstanceHandler(m, running, done) ==
  IF m.phase = 1 THEN << advance(running), <<"publish", m.job, 2>> >>
                 ELSE << advance(done) >>

(* What a handler does when AWS reports that the operation is over.        *)
OnComplete(m) ==
  CASE m.job = "POLL_REPLICATION_STATUS" ->
         << advance("READY_FOR_TESTING") >>
    [] m.job = "POLL_TEST_INSTANCE_STATUS" ->
         InstanceHandler(m, "TEST_INSTANCE_RUNNING", "AWAITING_TEST_VALIDATION")
    [] m.job = "POLL_CUTOVER_SYNC_STATUS" ->
         << advance("READY_FOR_CUTOVER_LAUNCH") >>
    [] m.job = "POLL_CUTOVER_INSTANCE_STATUS" ->
         InstanceHandler(m, "CUTOVER_INSTANCE_RUNNING", "AWAITING_CUTOVER_VALIDATION")
    [] m.job = "POLL_DISCONNECT_STATUS" ->
         << advance("DISCONNECTED"), advance("AWAITING_ARCHIVE_APPROVAL") >>

(* The polls that read the lifecycle of the source server, and what they   *)
(* wait for; the others ask for a launch job or for an instance.           *)
AwaitedLifeCycles(m) ==
  CASE m.job = "POLL_REPLICATION_STATUS" -> {"READY_FOR_TEST"}
    [] m.job = "POLL_DISCONNECT_STATUS"  -> {"DISCONNECTED", "ABSENT"}
    [] m.job = "POLL_CUTOVER_INSTANCE_STATUS" /\ m.phase = 1 -> {"CUTOVER"}
    [] OTHER -> {}

(* Mutant: a replication that runs is taken for one that is ready.         *)
MayBeOverOnceStarted(m) ==
  /\ m.aws \in AwsIds
  /\ CASE m.job = "POLL_REPLICATION_STATUS"   -> "replication" \in aws[m.aws]
       [] m.job = "POLL_TEST_INSTANCE_STATUS" -> "test" \in aws[m.aws]
       [] m.job = "POLL_DISCONNECT_STATUS"    -> "replication" \notin aws[m.aws]
       [] OTHER                               -> "cutover" \in aws[m.aws]

(* AWS can report the end of an operation only if it has what was asked.   *)
MayBeOver(m) ==
  /\ m.aws \in AwsIds
  /\ AwaitedLifeCycles(m) # {} => LifeCycle(aws[m.aws]) \in AwaitedLifeCycles(m)
  /\ m.job = "POLL_TEST_INSTANCE_STATUS" => "test" \in aws[m.aws]
  /\ m.job \in {"POLL_CUTOVER_SYNC_STATUS", "POLL_CUTOVER_INSTANCE_STATUS"}
       => "cutover" \in aws[m.aws]

(* PollStatus.FAILED: two of the polls give up on a source server that is  *)
(* disconnected, or that MGN does not know.                                *)
PollCall(m) ==
  IF AwaitedLifeCycles(m) \cap {"READY_FOR_TEST", "CUTOVER"} # {}
  THEN "confirm_agent" ELSE "poll"

-----------------------------------------------------------------------------
PollProgram(m) == << <<"require", VALID_STATES_FOR_POLL[m.job]>>, <<"poll">> >>

ReceivePoll(w) == Deliver(w, PollProgram(NextMessage(w)))

(* PollStatus.COMPLETE and DISPATCHED.                                     *)
PollCompletes(w) ==
  /\ Doing(w, "poll")
  /\ MayBeOver(task[w].msg)
  /\ ContinueWith(w, OnComplete(task[w].msg))
  /\ UNCHANGED <<ledgerVars, queue, awsVars>>

(* Mutant: one attempt too many.                                           *)
PollOnceTooOften(w) ==
  /\ Doing(w, "poll")
  /\ task[w].msg.attempt <= MaxPollAttempts
  /\ ContinueWith(w, << <<"reenqueue">> >>)
  /\ UNCHANGED <<ledgerVars, queue, awsVars>>

(* PollStatus.IN_PROGRESS with attempts left.                              *)
PollAgain(w) ==
  /\ Doing(w, "poll")
  /\ task[w].msg.attempt < MaxPollAttempts
  /\ ContinueWith(w, << <<"reenqueue">> >>)
  /\ UNCHANGED <<ledgerVars, queue, awsVars>>

(* Mutant: the attempt is not counted.                                     *)
ReenqueueUncounted(w) ==
  /\ Doing(w, "reenqueue")
  /\ PublishMessage(task[w].msg)
  /\ Proceed(w)
  /\ UNCHANGED <<ledgerVars, awsVars>>

(* _reenqueue, which the ack of the old message follows.                   *)
Reenqueue(w) ==
  /\ Doing(w, "reenqueue")
  /\ PublishMessage([task[w].msg EXCEPT !.attempt = @ + 1])
  /\ Proceed(w)
  /\ UNCHANGED <<ledgerVars, awsVars>>

(* PollStatus.IN_PROGRESS for the last time, PollStatus.FAILED, or an      *)
(* exception: the message is dead-lettered.                                *)
PollFails(w) ==
  /\ \/ /\ Doing(w, "poll")
        /\ task[w].msg.attempt >= MaxPollAttempts
        /\ UNCHANGED awsVars
     \/ Doing(w, "poll") /\ CallRaises(PollCall(task[w].msg), task[w].msg.aws)
     \/ AdvanceRaises(w) /\ UNCHANGED awsVars
  /\ Nack(w)

PollerStep(w) ==
  \/ ReceivePoll(w) \/ CheckState(w) \/ PollCompletes(w) \/ PollAgain(w)
  \/ Reenqueue(w) \/ Advance(w, "system") \/ Publish(w) \/ PollFails(w)
  \/ Finish(w)
=============================================================================
