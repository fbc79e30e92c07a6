--------------------------- MODULE LifecycleFacts ---------------------------
(***************************************************************************)
(* Facts about the transition table, the gates and the operations of the   *)
(* ledger that the proofs about the waves and about the whole system rest  *)
(* on.                                                                     *)
(***************************************************************************)
EXTENDS JobTypes, StateLedger, Naturals, TLAPS

(* The place of a state in the pipeline: a server never comes back to a    *)
(* lower one but by a reset, and one that failed is past all of them.      *)
Place(st) ==
  CASE st = NotRegistered                        -> 0
    [] st = "PENDING"                            -> 1
    [] st = "AGENT_INSTALLED"                    -> 2
    [] st = "REPLICATION_CONFIGURED"             -> 3
    [] st = "AWAITING_REPLICATION_APPROVAL"      -> 4
    [] st = "REPLICATION_STARTED"                -> 5
    [] st = "READY_FOR_TESTING"                  -> 6
    [] st = "TEST_LAUNCH_TEMPLATE_CONFIGURED"    -> 7
    [] st = "AWAITING_TEST_LAUNCH_APPROVAL"      -> 8
    [] st = "TEST_INSTANCE_LAUNCHING"            -> 9
    [] st = "TEST_INSTANCE_RUNNING"              -> 10
    [] st = "AWAITING_TEST_VALIDATION"           -> 11
    [] st = "TEST_FINALIZED"                     -> 12
    [] st = "CUTOVER_LAUNCH_TEMPLATE_CONFIGURED" -> 13
    [] st = "AWAITING_CUTOVER_LAUNCH_APPROVAL"   -> 14
    [] st = "CUTOVER_STARTED"                    -> 15
    [] st = "CUTOVER_SYNC_IN_PROGRESS"           -> 16
    [] st = "READY_FOR_CUTOVER_LAUNCH"           -> 17
    [] st = "CUTOVER_INSTANCE_LAUNCHING"         -> 18
    [] st = "CUTOVER_INSTANCE_RUNNING"           -> 19
    [] st = "AWAITING_CUTOVER_VALIDATION"        -> 20
    [] st = "CUTOVER_FINALIZED"                  -> 21
    [] st = "DISCONNECTING"                      -> 22
    [] st = "DISCONNECTED"                       -> 23
    [] st = "AWAITING_ARCHIVE_APPROVAL"          -> 24
    [] st = "ARCHIVED"                           -> 25
    [] st = "AWAITING_CLEANUP_APPROVAL"          -> 26
    [] st = "CLEANUP_COMPLETE"                   -> 27
    [] OTHER                                     -> 28

-----------------------------------------------------------------------------
LEMMA StateNames ==
  /\ {"PENDING", "FAILED", "FROZEN"} \subseteq ServerState
  /\ NotRegistered \notin ServerState
  /\ Null \notin ServerState
  /\ NotRegistered # Null
  /\ ErrorStates \subseteq ServerState
  BY DEF ServerState, ErrorStates, NotRegistered, Null

LEMMA ForwardClimbs ==
  ASSUME NEW from, NEW to, <<from, to>> \in Forward
  PROVE  /\ from \in ServerState /\ to \in ServerState
         /\ from \notin CompletedStates \cup ErrorStates
         /\ to \notin ErrorStates \cup {NotRegistered}
         /\ Place(from) \in 1..26
         /\ Place(to) = Place(from) + 1
  BY DEF Forward, ServerState, Place, NotRegistered, ErrorStates, CompletedStates

LEMMA PlaceType ==
  ASSUME NEW st \in ServerState
  PROVE  /\ Place(st) \in 1..28
         /\ st \notin CompletedStates \cup ErrorStates => Place(st) <= 26
  <1>1. Place(st) \in 1..28
    BY DEF ServerState, Place, NotRegistered
  <1>2. st \notin CompletedStates \cup ErrorStates => Place(st) <= 26
    BY DEF ServerState, Place, NotRegistered, ErrorStates, CompletedStates
  <1>3. QED
    BY <1>1, <1>2

(* Every legal transition climbs, and the states after which there is none *)
(* are the final ones.                                                     *)
LEMMA TransitionClimbs ==
  ASSUME NEW from, NEW to, IsValidTransition(from, to)
  PROVE  /\ from \in ServerState /\ to \in ServerState
         /\ from \notin CompletedStates \cup ErrorStates
         /\ Place(from) \in 1..26 /\ Place(to) \in 1..28
         /\ Place(from) < Place(to)
         /\ to \in ErrorStates \/ <<from, to>> \in Forward
  <1>1. /\ from \in ServerState /\ from \notin CompletedStates \cup ErrorStates
        /\ to \in ErrorStates \/ (to \in ServerState /\ <<from, to>> \in Forward)
    BY DEF IsValidTransition, ValidTransitions
  <1>2. CASE to \in ErrorStates
    <2>1. to \in ServerState /\ Place(to) = 28
      BY <1>2, StateNames DEF ErrorStates, Place, NotRegistered
    <2>2. QED
      BY <1>1, <1>2, <2>1, PlaceType
  <1>3. CASE to \notin ErrorStates
    BY <1>1, <1>3, ForwardClimbs, PlaceType
  <1>4. QED
    BY <1>2, <1>3

(* A failure is a legal transition from every state that is not final.     *)
LEMMA FailureIsValid ==
  ASSUME NEW from \in ServerState, from \notin CompletedStates \cup ErrorStates,
         NEW to \in ErrorStates
  PROVE  IsValidTransition(from, to)
  BY DEF IsValidTransition, ValidTransitions

(* A gate is the only way to the state after it, and its job is for that   *)
(* state and no other gate's.                                              *)
LEMMA GateFacts ==
  ASSUME NEW g \in Gates
  PROVE  /\ g.at \in InProgressStates /\ g.next \in ServerState
         /\ g.job \in MgnJobs /\ g.job \notin SubmittedJobs
         /\ VALID_STATES_FOR_JOB[g.job] = g.next
         /\ g.next \notin ErrorStates \cup InProgressStates
         /\ Place(g.next) = Place(g.at) + 1
         /\ \A from : IsValidTransition(from, g.next) => from = g.at
         /\ \A h \in Gates : h.job = g.job => h = g
  <1> USE DEF Gates, ReplicationGates, TestGates, CutoverGates, CleanupGates
  <1>1. /\ g.at \in InProgressStates /\ g.next \in ServerState
        /\ g.next \notin ErrorStates \cup InProgressStates
    BY DEF InProgressStates, ServerState, ErrorStates
  <1>2. /\ g.job \in MgnJobs /\ g.job \notin SubmittedJobs
        /\ VALID_STATES_FOR_JOB[g.job] = g.next
    BY DEF MgnJobs, SubmittedJobs, VALID_STATES_FOR_JOB
  <1>3. \A from : <<from, g.next>> \in Forward => from = g.at
    BY DEF Forward
  <1>4. <<g.at, g.next>> \in Forward
    BY DEF Forward
  <1>5. Place(g.next) = Place(g.at) + 1
    BY <1>4, ForwardClimbs
  <1>6. \A from : IsValidTransition(from, g.next) => from = g.at
    BY <1>1, <1>3, TransitionClimbs
  <1>7. \A h \in Gates : h.job = g.job => h = g
    OBVIOUS
  <1>8. QED
    BY <1>1, <1>2, <1>5, <1>6, <1>7

(* The operations of the State Manager keep the types of its tables.       *)
LEMMA LedgerType ==
  ASSUME LedgerTypeOK, NEW s \in Servers
  PROVE  /\ RegisterServer(s) => LedgerTypeOK'
         /\ \A to : \A by \in Actors : AdvanceState(s, to, by) => LedgerTypeOK'
         /\ \A by \in Actors : ResetServer(s, by) => LedgerTypeOK'
         /\ \A id \in AwsIds \cup {Null} : SetAwsSourceServerId(s, id) => LedgerTypeOK'
  <1>1. ASSUME NEW to \in ServerState, NEW by \in Actors, MoveTo(s, to, by),
               current_state[s] \in ServerState
        PROVE  LedgerTypeOK'
    BY <1>1 DEF MoveTo, LedgerTypeOK, AuditRow
  <1>2. ASSUME RegisterServer(s)
        PROVE  LedgerTypeOK'
    BY <1>2, StateNames DEF RegisterServer, LedgerTypeOK
  <1>3. ASSUME NEW to, NEW by \in Actors, AdvanceState(s, to, by)
        PROVE  LedgerTypeOK'
    BY <1>1, <1>3, TransitionClimbs DEF AdvanceState
  <1>4. ASSUME NEW by \in Actors, ResetServer(s, by)
        PROVE  LedgerTypeOK'
    BY <1>1, <1>4, StateNames DEF ResetServer
  <1>5. ASSUME NEW id \in AwsIds \cup {Null}, SetAwsSourceServerId(s, id)
        PROVE  LedgerTypeOK'
    BY <1>5 DEF SetAwsSourceServerId, LedgerTypeOK
  <1>6. QED
    BY <1>2, <1>3, <1>4, <1>5
=============================================================================
