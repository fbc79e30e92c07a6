---------------------------- MODULE StateManager ----------------------------
(***************************************************************************)
(* The State Manager as it is written (state_manager/state_manager.py): a  *)
(* pool of PostgreSQL sessions, each running advance_state or reset_server *)
(* as a transaction  BEGIN; SELECT .. FOR UPDATE; UPDATE servers;          *)
(* INSERT state_transition_history; COMMIT.  The sessions interleave       *)
(* between these statements, wait for row locks, and may be aborted at any *)
(* of them (an exception, a lost connection, a killed process).            *)
(***************************************************************************)
EXTENDS ServerStates, Naturals, Sequences

CONSTANTS Servers, AwsIds, Engineers,
          Sessions,    \* connections of the pool
          Targets,     \* to_state values that callers ask for
          NoSession,   \* a row that nobody has locked
          MaxClock     \* bound: transactions begun in a behaviour

ASSUME TargetsAssumption  == Targets \subseteq ServerState
ASSUME SessionsAssumption == NoSession \notin Sessions
ASSUME BoundAssumption    == MaxClock \in Nat

VARIABLES current_state, previous_state, aws_source_server_id,
          history,    \* rows of state_transition_history, in commit order
          row_lock,   \* the session that holds each server row FOR UPDATE
          tx,         \* the transaction of each session
          clock       \* the database clock: now() is the time of BEGIN

columns == <<current_state, previous_state>>
vars == <<current_state, previous_state, aws_source_server_id, history,
          row_lock, tx, clock>>

Actors == Engineers \cup {"system"}

HistoryRow == [from : ServerState, to : ServerState, by : Actors,
               timestamp : Nat]

Transaction ==
  [pc : {"begun", "locked", "updated"}, op : {"advance", "reset"},
   server : Servers, to : ServerState, by : Actors, timestamp : Nat,
   from : ServerState \cup {Null}]

NoTransaction == [pc |-> "idle"]

TypeOK ==
  /\ current_state \in [Servers -> ServerState \cup {NotRegistered}]
  /\ previous_state \in [Servers -> ServerState \cup {Null}]
  /\ aws_source_server_id \in [Servers -> AwsIds \cup {Null}]
  /\ history \in [Servers -> Seq(HistoryRow)]
  /\ row_lock \in [Servers -> Sessions \cup {NoSession}]
  /\ tx \in [Sessions -> Transaction \cup {NoTransaction}]
  /\ clock \in Nat

Init ==
  /\ current_state = [s \in Servers |-> NotRegistered]
  /\ previous_state = [s \in Servers |-> Null]
  /\ aws_source_server_id = [s \in Servers |-> Null]
  /\ history = [s \in Servers |-> <<>>]
  /\ row_lock = [s \in Servers |-> NoSession]
  /\ tx = [c \in Sessions |-> NoTransaction]
  /\ clock = 0

IsRegistered(s) == current_state[s] # NotRegistered
HoldsLock(c)    == tx[c].pc \in {"locked", "updated"}

-----------------------------------------------------------------------------
(* register_server: one INSERT, committed at once.                         *)
RegisterServer(s) ==
  /\ ~IsRegistered(s)
  /\ current_state' = [current_state EXCEPT ![s] = "PENDING"]
  /\ UNCHANGED <<previous_state, aws_source_server_id, history, row_lock,
                 tx, clock>>

(* set_aws_source_server_id: one UPDATE, which waits for the row lock.     *)
SetAwsSourceServerId(s, id) ==
  /\ IsRegistered(s)
  /\ row_lock[s] = NoSession
  /\ aws_source_server_id' = [aws_source_server_id EXCEPT ![s] = id]
  /\ UNCHANGED <<columns, history, row_lock, tx, clock>>

(* BEGIN, sent by conn.transaction(): now() of every statement of the      *)
(* transaction is fixed here, before the row lock is asked for.            *)
Begin(c, op, s, to, by) ==
  /\ tx[c] = NoTransaction
  /\ clock < MaxClock
  /\ clock' = clock + 1
  /\ tx' = [tx EXCEPT ![c] =
              [pc |-> "begun", op |-> op, server |-> s, to |-> to, by |-> by,
               timestamp |-> clock, from |-> Null]]
  /\ UNCHANGED <<columns, aws_source_server_id, history, row_lock>>

AdvanceState(c, s, to, by) == Begin(c, "advance", s, to, by)
ResetServer(c, s, by)      == Begin(c, "reset", s, "PENDING", by)

(* Mutant: the connection goes back to the pool with its transaction open. *)
EndTransactionKeepingLock(c) ==
  /\ tx' = [tx EXCEPT ![c] = NoTransaction]
  /\ UNCHANGED row_lock

(* The end of a transaction: its session is free, and so is its row.       *)
EndTransaction(c) ==
  /\ tx' = [tx EXCEPT ![c] = NoTransaction]
  /\ row_lock' = [s \in Servers |->
                    IF row_lock[s] = c THEN NoSession ELSE row_lock[s]]

(* Mutants: a missing row is not noticed; the SELECT has no FOR UPDATE.    *)
LockRowOfAnyServer(c) ==
  /\ tx[c].pc = "begun"
  /\ LET s == tx[c].server IN
       /\ row_lock[s] = NoSession
       /\ row_lock' = [row_lock EXCEPT ![s] = c]
       /\ tx' = [tx EXCEPT ![c].pc = "locked", ![c].from = current_state[s]]
  /\ UNCHANGED <<columns, aws_source_server_id, history, clock>>

LockRowWithoutWaiting(c) ==
  /\ tx[c].pc = "begun"
  /\ LET s == tx[c].server IN
       /\ IsRegistered(s)
       /\ row_lock' = [row_lock EXCEPT ![s] = c]
       /\ tx' = [tx EXCEPT ![c].pc = "locked", ![c].from = current_state[s]]
  /\ UNCHANGED <<columns, aws_source_server_id, history, clock>>

(* SELECT current_state .. FOR UPDATE: waits while another session holds   *)
(* the row, then reads what that session committed.                        *)
LockRow(c) ==
  /\ tx[c].pc = "begun"
  /\ LET s == tx[c].server IN
       /\ IsRegistered(s)
       /\ row_lock[s] = NoSession
       /\ row_lock' = [row_lock EXCEPT ![s] = c]
       /\ tx' = [tx EXCEPT ![c].pc = "locked", ![c].from = current_state[s]]
  /\ UNCHANGED <<columns, aws_source_server_id, history, clock>>

(* The SELECT returns no row: ValueError.                                  *)
RowMissing(c) ==
  /\ tx[c].pc = "begun"
  /\ ~IsRegistered(tx[c].server)
  /\ EndTransaction(c)
  /\ UNCHANGED <<columns, aws_source_server_id, history, clock>>

(* Mutant: reset_server accepts FROZEN as well.                            *)
PermittedFromBothErrors(t) ==
  \/ t.op = "advance" /\ IsValidTransition(t.from, t.to)
  \/ t.op = "reset" /\ t.from \in ErrorStates

(* The check between the SELECT and the UPDATE: the validator for          *)
(* advance_state, the literal FAILED for reset_server.                     *)
Permitted(t) ==
  \/ t.op = "advance" /\ IsValidTransition(t.from, t.to)
  \/ t.op = "reset" /\ t.from = "FAILED"

(* InvalidTransitionError, or the ValueError of reset_server.              *)
Refuse(c) ==
  /\ tx[c].pc = "locked"
  /\ ~Permitted(tx[c])
  /\ EndTransaction(c)
  /\ UNCHANGED <<columns, aws_source_server_id, history, clock>>

(* Mutant: the statements are not in one transaction.                      *)
UpdateAutocommitted(c) ==
  /\ tx[c].pc = "locked"
  /\ Permitted(tx[c])
  /\ tx' = [tx EXCEPT ![c].pc = "updated"]
  /\ current_state' = [current_state EXCEPT ![tx[c].server] = tx[c].to]
  /\ UNCHANGED <<previous_state, aws_source_server_id, history, row_lock, clock>>

(* UPDATE servers: no other session sees it before the COMMIT.             *)
Update(c) ==
  /\ tx[c].pc = "locked"
  /\ Permitted(tx[c])
  /\ tx' = [tx EXCEPT ![c].pc = "updated"]
  /\ UNCHANGED <<columns, aws_source_server_id, history, row_lock, clock>>

(* Mutant: previous_state is set to the new state.                         *)
CommitNewStateAsPrevious(c) ==
  /\ tx[c].pc = "updated"
  /\ LET t == tx[c] IN
       /\ current_state' = [current_state EXCEPT ![t.server] = t.to]
       /\ previous_state' = [previous_state EXCEPT ![t.server] = t.to]
       /\ history' = [history EXCEPT ![t.server] =
                        Append(@, [from |-> t.from, to |-> t.to, by |-> t.by,
                                   timestamp |-> t.timestamp])]
  /\ EndTransaction(c)
  /\ UNCHANGED <<aws_source_server_id, clock>>

(* INSERT INTO state_transition_history, and the COMMIT that publishes     *)
(* both writes.                                                            *)
Commit(c) ==
  /\ tx[c].pc = "updated"
  /\ LET t == tx[c] IN
       /\ current_state' = [current_state EXCEPT ![t.server] = t.to]
       /\ previous_state' = [previous_state EXCEPT ![t.server] = t.from]
       /\ history' = [history EXCEPT ![t.server] =
                        Append(@, [from |-> t.from, to |-> t.to, by |-> t.by,
                                   timestamp |-> t.timestamp])]
  /\ EndTransaction(c)
  /\ UNCHANGED <<aws_source_server_id, clock>>

(* ROLLBACK: an exception or a lost connection at any statement.           *)
Abort(c) ==
  /\ tx[c].pc # "idle"
  /\ EndTransaction(c)
  /\ UNCHANGED <<columns, aws_source_server_id, history, clock>>

-----------------------------------------------------------------------------
Step(c) == LockRow(c) \/ RowMissing(c) \/ Refuse(c) \/ Update(c) \/ Commit(c)

Next ==
  \/ \E s \in Servers : RegisterServer(s)
  \/ \E s \in Servers, id \in AwsIds : SetAwsSourceServerId(s, id)
  \/ \E c \in Sessions, s \in Servers :
       \/ \E to \in Targets, by \in Actors : AdvanceState(c, s, to, by)
       \/ \E by \in Engineers : ResetServer(c, s, by)
  \/ \E c \in Sessions : Step(c) \/ Abort(c)

Spec == Init /\ [][Next]_vars

(* A statement that can run eventually runs; PostgreSQL grants a row lock  *)
(* in the order of its waiters, so a lock that is free again and again is  *)
(* eventually granted (strong fairness of LockRow).                        *)
Fairness ==
  \A c \in Sessions :
    /\ SF_vars(LockRow(c))
    /\ WF_vars(RowMissing(c) \/ Refuse(c) \/ Update(c) \/ Commit(c))

FairSpec == Spec /\ Fairness

-----------------------------------------------------------------------------
LastRow(s) == history[s][Len(history[s])]

(* A row is held by one transaction at most, and the state that the        *)
(* transaction read is still the row's state when it writes: what the      *)
(* comment of advance_state on its second step relies on.                  *)
LockDiscipline ==
  /\ \A c \in Sessions :
       HoldsLock(c) => /\ row_lock[tx[c].server] = c
                       /\ tx[c].from = current_state[tx[c].server]
  /\ \A s \in Servers :
       row_lock[s] # NoSession => /\ HoldsLock(row_lock[s])
                                  /\ tx[row_lock[s]].server = s

(* A trail that starts at PENDING, without a gap, and ends at the row.     *)
IsChain(h, current, previous) ==
  /\ h = <<>> => current \in {NotRegistered, "PENDING"} /\ previous = Null
  /\ h # <<>> => /\ h[1].from = "PENDING"
                 /\ current = h[Len(h)].to
                 /\ previous = h[Len(h)].from
  /\ \A i \in 1..(Len(h) - 1) : h[i + 1].from = h[i].to

(* The audit trail is complete: it starts at PENDING, each record starts   *)
(* where the one before it ended, and the last one is the row itself, with *)
(* transactions aborted at any statement.                                  *)
AuditTrailIsChain ==
  \A s \in Servers :
    IsChain(history[s], current_state[s], previous_state[s])

(* A server never leaves FROZEN or CLEANUP_COMPLETE, and leaves FAILED     *)
(* only for PENDING, whatever the interleaving of advances and resets.     *)
FinalStatesAreFinal ==
  [][\A s \in Servers :
       /\ current_state[s] \in {"FROZEN", "CLEANUP_COMPLETE"}
            => current_state'[s] = current_state[s]
       /\ current_state[s] = "FAILED"
            => current_state'[s] \in {"FAILED", "PENDING"}]_vars

(* Transactions on rows that others keep locking still end.                *)
EveryTransactionEnds ==
  \A c \in Sessions : tx[c].pc # "idle" ~> tx[c].pc = "idle"

(* Reading the trail by timestamp, as get_server_history does, gives the   *)
(* order in which the transitions happened.                                *)
HistoryIsChronological ==
  \A s \in Servers : \A i \in 1..(Len(history[s]) - 1) :
    history[s][i].timestamp <= history[s][i + 1].timestamp

-----------------------------------------------------------------------------
(* The refinement: the last committed audit record is the abstract one.    *)
Newest ==
  [s \in Servers |->
     IF history[s] = <<>>
     THEN [from |-> Null, to |-> Null, by |-> Null]
     ELSE [from |-> LastRow(s).from, to |-> LastRow(s).to, by |-> LastRow(s).by]]

Ledger == INSTANCE StateLedger WITH newest <- Newest

(* Every behaviour of the transactions is one of the atomic ledger.        *)
ImplementsLedger == Ledger!LedgerSpec
=============================================================================
