------------------------------- MODULE Broker -------------------------------
(***************************************************************************)
(* RabbitMQ as the code uses it: durable FIFO queues with one dead-letter  *)
(* queue each, a consumer holding one unacknowledged message (prefetch 1), *)
(* and redelivery to the head of the queue when a consumer's channel dies. *)
(* The broker itself is outside the repository.                            *)
(***************************************************************************)
EXTENDS JobTypes, StateLedger, Naturals, Sequences, Functions

CONSTANTS MaxPollAttempts  \* 30 in the code

ASSUME AttemptsAssumption == MaxPollAttempts \in Nat \ {0}

VARIABLE queue  \* the ready messages of each queue

WorkQueues   == {"mgn_jobs", "poll_jobs"}
FailedQueues == {"mgn_jobs.failed", "poll_jobs.failed"}

(* A poll of a launched instance carries its EC2 id (phase 2), before that *)
(* the MGN job that launches it (phase 1).                                 *)
Message ==
  [job : JobType, server : Servers, aws : AwsIds \cup {Null},
   attempt : 1..MaxPollAttempts, phase : {1, 2}]

NewMessage(job, s, id) ==
  [job |-> job, server |-> s, aws |-> id, attempt |-> 1, phase |-> 1]

BrokerTypeOK == queue \in [WorkQueues \cup FailedQueues -> Seq(Message)]
BrokerInit   == queue = [q \in WorkQueues \cup FailedQueues |-> <<>>]

-----------------------------------------------------------------------------
(* default_exchange.publish: to the tail of the queue named by the job.    *)
PublishMessage(m) == queue' = [queue EXCEPT ![QUEUE_ROUTING[m.job]] = Append(@, m)]

(* The next message of a queue is handed to a consumer.                    *)
Take(q) ==
  /\ queue[q] # <<>>
  /\ queue' = [queue EXCEPT ![q] = Tail(@)]

(* nack(requeue=False): the dead-letter exchange routes the message to the *)
(* failed queue of the queue it came from.                                 *)
DeadLetter(m) ==
  queue' = [queue EXCEPT
              ![IF m.job \in MgnJobs THEN "mgn_jobs.failed" ELSE "poll_jobs.failed"]
                 = Append(@, m)]

Queued(q) == Range(queue[q])
=============================================================================
