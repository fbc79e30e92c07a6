---------------------------- MODULE StateLedger -----------------------------
(***************************************************************************)
(* What the State Manager promises its callers: one row per server, moved  *)
(* by atomic operations, each of which leaves exactly one audit record.    *)
(* StateManager.tla, with its transactions and row locks, implements this  *)
(* module; the modules of the workers and of the API are built on it.      *)
(***************************************************************************)
EXTENDS ServerStates

CONSTANTS Servers,     \* server_id values
          AwsIds,      \* AWS MGN source server ids
          Engineers    \* engineer ids recorded in triggered_by

VARIABLES current_state,         \* servers.current_state
          previous_state,        \* servers.previous_state
          aws_source_server_id,  \* servers.aws_source_server_id
          newest                 \* the last audit record of each server

ledgerVars == <<current_state, previous_state, aws_source_server_id, newest>>

Actors == Engineers \cup {"system"}

AuditRow == [from : ServerState, to : ServerState, by : Actors]
NoRow    == [from |-> Null, to |-> Null, by |-> Null]

LedgerTypeOK ==
  /\ current_state \in [Servers -> ServerState \cup {NotRegistered}]
  /\ previous_state \in [Servers -> ServerState \cup {Null}]
  /\ aws_source_server_id \in [Servers -> AwsIds \cup {Null}]
  /\ newest \in [Servers -> AuditRow \cup {NoRow}]

LedgerInit ==
  /\ current_state = [s \in Servers |-> NotRegistered]
  /\ previous_state = [s \in Servers |-> Null]
  /\ aws_source_server_id = [s \in Servers |-> Null]
  /\ newest = [s \in Servers |-> NoRow]

IsRegistered(s) == current_state[s] # NotRegistered

-----------------------------------------------------------------------------
(* register_server: INSERT with the state PENDING; the primary key refuses *)
(* a second row.                                                           *)
RegisterServer(s) ==
  /\ ~IsRegistered(s)
  /\ current_state' = [current_state EXCEPT ![s] = "PENDING"]
  /\ UNCHANGED <<previous_state, aws_source_server_id, newest>>

(* The two writes every state change makes together.                       *)
MoveTo(s, to, by) ==
  /\ current_state' = [current_state EXCEPT ![s] = to]
  /\ previous_state' = [previous_state EXCEPT ![s] = current_state[s]]
  /\ newest' = [newest EXCEPT ![s] =
                  [from |-> current_state[s], to |-> to, by |-> by]]
  /\ UNCHANGED aws_source_server_id

(* advance_state: enabled when it does not raise.                          *)
AdvanceState(s, to, by) ==
  /\ IsValidTransition(current_state[s], to)
  /\ MoveTo(s, to, by)

(* reset_server: the one way out of FAILED.                                *)
ResetServer(s, by) ==
  /\ current_state[s] = "FAILED"
  /\ MoveTo(s, "PENDING", by)

(* set_aws_source_server_id: no state is required of the row.              *)
SetAwsSourceServerId(s, id) ==
  /\ IsRegistered(s)
  /\ aws_source_server_id' = [aws_source_server_id EXCEPT ![s] = id]
  /\ UNCHANGED <<current_state, previous_state, newest>>

LedgerNext ==
  \E s \in Servers :
    \/ RegisterServer(s)
    \/ \E to \in ServerState, by \in Actors : AdvanceState(s, to, by)
    \/ \E by \in Engineers : ResetServer(s, by)
    \/ \E id \in AwsIds : SetAwsSourceServerId(s, id)

LedgerSpec == LedgerInit /\ [][LedgerNext]_ledgerVars
=============================================================================
