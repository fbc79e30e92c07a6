------------------------- MODULE StateManagerProofs -------------------------
(***************************************************************************)
(* Theorems about StateManager for every set of servers, sessions,         *)
(* engineers and requested states, and for every bound on the clock.       *)
(***************************************************************************)
EXTENDS StateManager, TLAPS

(* What the INSERT and the COMMIT rely on: a transaction that has issued   *)
(* its UPDATE passed the check, and a reset asks for PENDING on behalf of  *)
(* an engineer.                                                            *)
PendingWrites ==
  \A c \in Sessions :
    /\ tx[c].pc = "updated" => Permitted(tx[c])
    /\ tx[c].pc # "idle" /\ tx[c].op = "reset"
         => tx[c].to = "PENDING" /\ tx[c].by \in Engineers

IInv == TypeOK /\ LockDiscipline /\ PendingWrites /\ AuditTrailIsChain

-----------------------------------------------------------------------------
(* Facts about the lifecycle table that the proofs below use.              *)
LEMMA StateFacts ==
  /\ "PENDING" \in ServerState
  /\ "FAILED" \in ServerState
  /\ NotRegistered \notin ServerState
  /\ Null \notin ServerState
  /\ NotRegistered # Null
  BY DEF ServerState, NotRegistered, Null

LEMMA ValidTransitionFacts ==
  ASSUME NEW from, NEW to, IsValidTransition(from, to)
  PROVE  /\ from \in ServerState
         /\ to \in ServerState
         /\ from \notin {"CLEANUP_COMPLETE", "FAILED", "FROZEN"}
  <1>1. ErrorStates \subseteq ServerState
    BY DEF ErrorStates, ServerState
  <1>2. QED
    BY <1>1 DEF IsValidTransition, ValidTransitions, CompletedStates, ErrorStates

LEMMA PermittedFacts ==
  ASSUME NEW t, Permitted(t)
  PROVE  /\ t.from \in ServerState
         /\ t.from \notin {"CLEANUP_COMPLETE", "FROZEN"}
         /\ t.from = "FAILED" => t.op = "reset"
  BY StateFacts, ValidTransitionFacts DEF Permitted

-----------------------------------------------------------------------------
LEMMA TypeInductive == TypeOK /\ PendingWrites /\ [Next]_vars => TypeOK'
  <1> SUFFICES ASSUME TypeOK, PendingWrites, [Next]_vars
               PROVE  TypeOK'
    OBVIOUS
  <1> USE DEF TypeOK
  <1>1. ASSUME NEW s \in Servers, RegisterServer(s)
        PROVE  TypeOK'
    BY <1>1, StateFacts DEF RegisterServer
  <1>2. ASSUME NEW s \in Servers, NEW id \in AwsIds, SetAwsSourceServerId(s, id)
        PROVE  TypeOK'
    BY <1>2 DEF SetAwsSourceServerId, columns
  <1>3. ASSUME NEW c \in Sessions, NEW op \in {"advance", "reset"},
               NEW s \in Servers, NEW to \in ServerState, NEW by \in Actors,
               Begin(c, op, s, to, by)
        PROVE  TypeOK'
    BY <1>3 DEF Begin, columns, Transaction
  <1>4. ASSUME NEW c \in Sessions, EndTransaction(c)
        PROVE  /\ row_lock' \in [Servers -> Sessions \cup {NoSession}]
               /\ tx' \in [Sessions -> Transaction \cup {NoTransaction}]
    BY <1>4 DEF EndTransaction
  <1>5. ASSUME NEW c \in Sessions, Step(c) \/ Abort(c)
        PROVE  TypeOK'
    <2>1. CASE LockRow(c)
      <3>1. tx[c] \in Transaction
        BY <2>1 DEF LockRow, NoTransaction
      <3>2. current_state[tx[c].server] \in ServerState
        BY <2>1, <3>1 DEF LockRow, IsRegistered, Transaction
      <3>3. tx' \in [Sessions -> Transaction \cup {NoTransaction}]
        BY <2>1, <3>1, <3>2 DEF LockRow, Transaction
      <3>4. QED
        BY <2>1, <3>3 DEF LockRow, columns
    <2>2. CASE RowMissing(c) \/ Refuse(c) \/ Abort(c)
      BY <2>2, <1>4 DEF RowMissing, Refuse, Abort, columns
    <2>3. CASE Update(c)
      <3>1. tx[c] \in Transaction
        BY <2>3 DEF Update, NoTransaction
      <3>2. tx' \in [Sessions -> Transaction \cup {NoTransaction}]
        BY <2>3, <3>1 DEF Update, Transaction
      <3>3. QED
        BY <2>3, <3>2 DEF Update, columns
    <2>4. CASE Commit(c)
      <3> DEFINE t == tx[c]
                 row == [from |-> t.from, to |-> t.to, by |-> t.by,
                         timestamp |-> t.timestamp]
      <3>1. t \in Transaction
        BY <2>4 DEF Commit, NoTransaction
      <3>2. t.from \in ServerState
        BY <2>4, PermittedFacts DEF Commit, PendingWrites
      <3>3. row \in HistoryRow /\ t.server \in Servers /\ t.to \in ServerState
        BY <3>1, <3>2 DEF HistoryRow, Transaction
      <3>4. history' = [history EXCEPT ![t.server] = Append(@, row)]
        BY <2>4 DEF Commit
      <3>5. Append(history[t.server], row) \in Seq(HistoryRow)
        BY <3>3
      <3>6. history' \in [Servers -> Seq(HistoryRow)]
        BY <3>4, <3>5
      <3>7. /\ current_state' \in [Servers -> ServerState \cup {NotRegistered}]
            /\ previous_state' \in [Servers -> ServerState \cup {Null}]
        BY <2>4, <3>2, <3>3 DEF Commit
      <3>8. QED
        BY <2>4, <3>6, <3>7, <1>4 DEF Commit
    <2>5. QED
      BY <1>5, <2>1, <2>2, <2>3, <2>4 DEF Step
  <1>6. CASE UNCHANGED vars
    BY <1>6 DEF vars
  <1>7. QED
    BY <1>1, <1>2, <1>3, <1>5, <1>6, StateFacts, TargetsAssumption
       DEF Next, AdvanceState, ResetServer, Actors

LEMMA PendingInductive == TypeOK /\ PendingWrites /\ [Next]_vars => PendingWrites'
  <1> SUFFICES ASSUME TypeOK, PendingWrites, [Next]_vars, NEW d \in Sessions
               PROVE  /\ tx'[d].pc = "updated" => Permitted(tx'[d])
                      /\ tx'[d].pc # "idle" /\ tx'[d].op = "reset"
                           => tx'[d].to = "PENDING" /\ tx'[d].by \in Engineers
    BY DEF PendingWrites
  <1> DEFINE Good(t) == /\ t.pc = "updated" => Permitted(t)
                        /\ t.pc # "idle" /\ t.op = "reset"
                             => t.to = "PENDING" /\ t.by \in Engineers
  <1>0. Good(tx[d]) /\ Good(NoTransaction)
    BY DEF PendingWrites, NoTransaction
  <1>1. CASE tx' = tx
    BY <1>0, <1>1
  <1>2. ASSUME NEW c \in Sessions, EndTransaction(c)
        PROVE  Good(tx'[d])
    BY <1>2, <1>0 DEF EndTransaction, TypeOK
  <1>3. ASSUME NEW c \in Sessions, LockRow(c)
        PROVE  Good(tx'[d])
    <2>1. CASE d = c
      <3>1. tx[c] \in Transaction
        BY <1>3 DEF LockRow, TypeOK, NoTransaction
      <3>2. tx'[c] = [tx[c] EXCEPT !.pc = "locked",
                                   !.from = current_state[tx[c].server]]
        BY <1>3 DEF LockRow, TypeOK
      <3>3. /\ tx'[c].pc = "locked" /\ tx'[c].op = tx[c].op
            /\ tx'[c].to = tx[c].to /\ tx'[c].by = tx[c].by
        BY <3>1, <3>2 DEF Transaction
      <3>4. QED
        BY <1>0, <1>3, <2>1, <3>3 DEF LockRow
    <2>2. CASE d # c
      BY <1>0, <1>3, <2>2 DEF LockRow, TypeOK
    <2>3. QED
      BY <2>1, <2>2
  <1>4. ASSUME NEW c \in Sessions, Update(c)
        PROVE  Good(tx'[d])
    <2>1. CASE d = c
      <3>1. tx[c] \in Transaction
        BY <1>4 DEF Update, TypeOK, NoTransaction
      <3>2. tx'[c] = [tx[c] EXCEPT !.pc = "updated"]
        BY <1>4 DEF Update, TypeOK
      <3>3. /\ tx'[c].op = tx[c].op /\ tx'[c].to = tx[c].to
            /\ tx'[c].by = tx[c].by /\ tx'[c].from = tx[c].from
        BY <3>1, <3>2 DEF Transaction
      <3>4. Permitted(tx'[c])
        BY <1>4, <3>3 DEF Update, Permitted
      <3>5. QED
        BY <1>0, <1>4, <2>1, <3>3, <3>4 DEF Update
    <2>2. CASE d # c
      BY <1>0, <1>4, <2>2 DEF Update, TypeOK
    <2>3. QED
      BY <2>1, <2>2
  <1>5. ASSUME NEW c \in Sessions, NEW s \in Servers, NEW op, NEW to, NEW by,
               Begin(c, op, s, to, by),
               op = "reset" => to = "PENDING" /\ by \in Engineers
        PROVE  Good(tx'[d])
    BY <1>0, <1>5 DEF Begin, TypeOK
  <1>6. QED
    <2>1. CASE UNCHANGED vars
      BY <2>1, <1>1 DEF vars
    <2>2. ASSUME NEW s \in Servers,
                 \/ RegisterServer(s)
                 \/ \E id \in AwsIds : SetAwsSourceServerId(s, id)
          PROVE  tx' = tx
      BY <2>2 DEF RegisterServer, SetAwsSourceServerId
    <2>3. ASSUME NEW c \in Sessions, NEW s \in Servers,
                 \/ \E to \in Targets, by \in Actors : AdvanceState(c, s, to, by)
                 \/ \E by \in Engineers : ResetServer(c, s, by)
          PROVE  Good(tx'[d])
      BY <2>3, <1>5 DEF AdvanceState, ResetServer
    <2>4. ASSUME NEW c \in Sessions, Step(c) \/ Abort(c)
          PROVE  Good(tx'[d])
      BY <2>4, <1>2, <1>3, <1>4 DEF Step, RowMissing, Refuse, Commit, Abort
    <2>5. QED
      BY <1>0, <1>1, <2>1, <2>2, <2>3, <2>4 DEF Next

-----------------------------------------------------------------------------
LEMMA LockInductive ==
  TypeOK /\ PendingWrites /\ LockDiscipline /\ [Next]_vars => LockDiscipline'
  <1> SUFFICES ASSUME TypeOK, PendingWrites, LockDiscipline, [Next]_vars
               PROVE  LockDiscipline'
    OBVIOUS
  <1> USE DEF LockDiscipline, HoldsLock
  <1>1. CASE UNCHANGED <<current_state, row_lock, tx>>
    BY <1>1
  <1>2. ASSUME NEW s \in Servers, RegisterServer(s)
        PROVE  LockDiscipline'
    <2>1. ASSUME NEW c \in Sessions, HoldsLock(c)
          PROVE  tx[c].server # s
      <3>1. tx[c] \in Transaction
        BY <2>1 DEF TypeOK, NoTransaction
      <3>2. tx[c].from \in ServerState \cup {Null} /\ tx[c].from = current_state[tx[c].server]
        BY <2>1, <3>1 DEF Transaction
      <3>3. QED
        BY <1>2, <3>2, StateFacts DEF RegisterServer, IsRegistered
    <2>2. QED
      BY <1>2, <2>1 DEF RegisterServer, TypeOK
  <1>3. ASSUME NEW c \in Sessions, NEW op, NEW s \in Servers, NEW to, NEW by,
               Begin(c, op, s, to, by)
        PROVE  LockDiscipline'
    BY <1>3, SessionsAssumption DEF Begin, TypeOK, NoTransaction, columns
  <1>4. ASSUME NEW c \in Sessions, EndTransaction(c), UNCHANGED current_state
        PROVE  LockDiscipline'
    <2>1. ASSUME NEW d \in Sessions, HoldsLock(d)'
          PROVE  d # c /\ tx'[d] = tx[d] /\ HoldsLock(d)
      BY <1>4, <2>1 DEF EndTransaction, TypeOK, NoTransaction
    <2>2. ASSUME NEW s \in Servers, row_lock'[s] # NoSession
          PROVE  row_lock'[s] = row_lock[s] /\ row_lock[s] # c
      BY <1>4, <2>2 DEF EndTransaction
    <2>3. ASSUME NEW d \in Sessions, HoldsLock(d)'
          PROVE  row_lock'[tx'[d].server] = d
      <3>1. row_lock[tx[d].server] = d /\ tx[d].server \in Servers
        BY <2>1, <2>3 DEF TypeOK, Transaction, NoTransaction
      <3>2. QED
        BY <1>4, <2>1, <2>3, <3>1 DEF EndTransaction
    <2>4. ASSUME NEW s \in Servers, row_lock'[s] # NoSession
          PROVE  /\ HoldsLock(row_lock[s])'
                 /\ tx'[row_lock[s]].server = s
      <3>1. row_lock[s] \in Sessions
        BY <2>2, <2>4 DEF TypeOK
      <3>2. QED
        BY <1>4, <2>2, <2>4, <3>1 DEF EndTransaction, TypeOK
    <2>5. QED
      BY <1>4, <2>1, <2>2, <2>3, <2>4
  <1>5. ASSUME NEW c \in Sessions, LockRow(c)
        PROVE  LockDiscipline'
    <2> DEFINE s == tx[c].server
    <2>1. tx[c] \in Transaction /\ s \in Servers
      BY <1>5 DEF LockRow, TypeOK, NoTransaction, Transaction
    <2>2. tx'[c] = [tx[c] EXCEPT !.pc = "locked", !.from = current_state[s]]
      BY <1>5 DEF LockRow, TypeOK
    <2>3. tx'[c].pc = "locked" /\ tx'[c].server = s /\ tx'[c].from = current_state[s]
      BY <2>1, <2>2 DEF Transaction
    <2>4. /\ row_lock'[s] = c /\ row_lock[s] = NoSession
          /\ \A r \in Servers : r # s => row_lock'[r] = row_lock[r]
          /\ \A d \in Sessions : d # c => tx'[d] = tx[d]
          /\ current_state' = current_state
      BY <1>5, <2>1 DEF LockRow, TypeOK, columns
    <2>5. ~HoldsLock(c) /\ \A r \in Servers : row_lock[r] # c
      BY <1>5, SessionsAssumption DEF LockRow
    <2>6. ASSUME NEW d \in Sessions, HoldsLock(d)'
          PROVE  /\ row_lock'[tx'[d].server] = d
                 /\ tx'[d].from = current_state'[tx'[d].server]
      <3>1. CASE d = c
        BY <3>1, <2>3, <2>4
      <3>2. CASE d # c
        <4>1. HoldsLock(d) /\ row_lock[tx[d].server] = d /\ tx'[d] = tx[d]
          BY <2>4, <2>6, <3>2
        <4>2. tx[d].server \in Servers
          BY <4>1 DEF TypeOK, Transaction, NoTransaction
        <4>3. tx[d].server # s
          BY <4>1, <2>4, SessionsAssumption
        <4>4. QED
          BY <4>1, <4>2, <4>3, <2>4
      <3>3. QED
        BY <3>1, <3>2
    <2>7. ASSUME NEW r \in Servers, row_lock'[r] # NoSession
          PROVE  /\ tx'[row_lock'[r]].pc \in {"locked", "updated"}
                 /\ tx'[row_lock'[r]].server = r
      <3>1. CASE r = s
        BY <3>1, <2>3, <2>4
      <3>2. CASE r # s
        <4>1. row_lock'[r] = row_lock[r] /\ row_lock[r] # c /\ row_lock[r] \in Sessions
          BY <2>4, <2>5, <2>7, <3>2 DEF TypeOK
        <4>2. tx'[row_lock[r]] = tx[row_lock[r]]
          BY <2>4, <4>1
        <4>3. QED
          BY <2>7, <4>1, <4>2
      <3>3. QED
        BY <3>1, <3>2
    <2>8. QED
      BY <2>6, <2>7
  <1>6. ASSUME NEW c \in Sessions, Update(c)
        PROVE  LockDiscipline'
    <2>1. tx[c] \in Transaction
      BY <1>6 DEF Update, TypeOK, NoTransaction
    <2>2. tx'[c] = [tx[c] EXCEPT !.pc = "updated"]
      BY <1>6 DEF Update, TypeOK
    <2>3. /\ tx'[c].pc = "updated" /\ tx'[c].server = tx[c].server
          /\ tx'[c].from = tx[c].from
      BY <2>1, <2>2 DEF Transaction
    <2>4. /\ UNCHANGED <<current_state, row_lock>>
          /\ \A d \in Sessions : d # c => tx'[d] = tx[d]
      BY <1>6 DEF Update, TypeOK, columns
    <2>5. HoldsLock(c)
      BY <1>6 DEF Update
    <2>6. ASSUME NEW d \in Sessions, HoldsLock(d)'
          PROVE  /\ HoldsLock(d) /\ tx'[d].server = tx[d].server
                 /\ tx'[d].from = tx[d].from
      BY <2>3, <2>4, <2>5, <2>6
    <2>7. ASSUME NEW r \in Servers, row_lock'[r] # NoSession
          PROVE  /\ tx'[row_lock'[r]].pc \in {"locked", "updated"}
                 /\ tx'[row_lock'[r]].server = r
      <3>1. row_lock'[r] = row_lock[r] /\ row_lock[r] \in Sessions
        BY <2>4, <2>7 DEF TypeOK
      <3>2. /\ tx[row_lock[r]].pc \in {"locked", "updated"}
            /\ tx[row_lock[r]].server = r
        BY <2>7, <3>1
      <3>3. CASE row_lock[r] = c
        BY <3>1, <3>2, <3>3, <2>3
      <3>4. CASE row_lock[r] # c
        BY <3>1, <3>2, <3>4, <2>4
      <3>5. QED
        BY <3>3, <3>4
    <2>8. QED
      BY <2>4, <2>6, <2>7
  <1>7. ASSUME NEW c \in Sessions, Commit(c)
        PROVE  LockDiscipline'
    <2> DEFINE s == tx[c].server
    <2>1. s \in Servers /\ row_lock[s] = c
      BY <1>7 DEF Commit, TypeOK, Transaction, NoTransaction
    <2>2. ASSUME NEW d \in Sessions, HoldsLock(d)'
          PROVE  /\ d # c /\ tx'[d] = tx[d] /\ HoldsLock(d)
                 /\ tx[d].server # s /\ tx[d].server \in Servers
      <3>1. d # c /\ tx'[d] = tx[d] /\ HoldsLock(d)
        BY <1>7, <2>2 DEF Commit, EndTransaction, TypeOK, NoTransaction
      <3>2. QED
        BY <3>1, <2>1 DEF TypeOK, Transaction, NoTransaction
    <2>3. \A r \in Servers : r # s => current_state'[r] = current_state[r]
      BY <1>7 DEF Commit, TypeOK
    <2>4. \A r \in Servers : row_lock'[r] = IF row_lock[r] = c THEN NoSession
                                                               ELSE row_lock[r]
      BY <1>7 DEF Commit, EndTransaction
    <2>5. ASSUME NEW d \in Sessions, HoldsLock(d)'
          PROVE  /\ row_lock'[tx'[d].server] = d
                 /\ tx'[d].from = current_state'[tx'[d].server]
      BY <2>2, <2>3, <2>4, <2>5
    <2>6. ASSUME NEW r \in Servers, row_lock'[r] # NoSession
          PROVE  /\ tx'[row_lock'[r]].pc \in {"locked", "updated"}
                 /\ tx'[row_lock'[r]].server = r
      <3>1. row_lock'[r] = row_lock[r] /\ row_lock[r] # c /\ row_lock[r] \in Sessions
        BY <2>4, <2>6 DEF TypeOK
      <3>2. tx'[row_lock[r]] = tx[row_lock[r]]
        BY <1>7, <3>1 DEF Commit, EndTransaction, TypeOK
      <3>3. QED
        BY <2>6, <3>1, <3>2
    <2>7. QED
      BY <2>5, <2>6
  <1>8. QED
    <2>1. ASSUME NEW s \in Servers, NEW id \in AwsIds, SetAwsSourceServerId(s, id)
          PROVE  UNCHANGED <<current_state, row_lock, tx>>
      BY <2>1 DEF SetAwsSourceServerId, columns
    <2>2. CASE UNCHANGED vars
      BY <2>2, <1>1 DEF vars
    <2>3. ASSUME NEW c \in Sessions, Step(c) \/ Abort(c)
          PROVE  LockDiscipline'
      BY <2>3, <1>4, <1>5, <1>6, <1>7
         DEF Step, RowMissing, Refuse, Abort, columns
    <2>4. QED
      BY <1>1, <1>2, <1>3, <2>1, <2>2, <2>3 DEF Next, AdvanceState, ResetServer

-----------------------------------------------------------------------------
LEMMA ChainInductive == IInv /\ [Next]_vars => AuditTrailIsChain'
  <1> SUFFICES ASSUME IInv, [Next]_vars
               PROVE  AuditTrailIsChain'
    OBVIOUS
  <1> USE DEF IInv, AuditTrailIsChain
  <1>1. CASE UNCHANGED <<current_state, previous_state, history>>
    BY <1>1
  <1>2. ASSUME NEW s \in Servers, RegisterServer(s)
        PROVE  AuditTrailIsChain'
    <2>1. history[s] = <<>>
      <3>1. SUFFICES ASSUME history[s] # <<>> PROVE FALSE
        OBVIOUS
      <3>2. history[s] \in Seq(HistoryRow) /\ Len(history[s]) \in 1..Len(history[s])
        BY <3>1 DEF TypeOK
      <3>3. history[s][Len(history[s])] \in HistoryRow
        BY <3>2
      <3>4. current_state[s] \in ServerState
        BY <3>1, <3>3 DEF IsChain, HistoryRow
      <3>5. QED
        BY <1>2, <3>4, StateFacts DEF RegisterServer, IsRegistered
    <2>2. previous_state[s] = Null
      BY <2>1 DEF IsChain
    <2>3. IsChain(history[s], "PENDING", Null)
      BY <2>1, <2>2 DEF IsChain
    <2>4. QED
      BY <1>2, <2>2, <2>3 DEF RegisterServer, TypeOK
  <1>3. ASSUME NEW c \in Sessions, Commit(c)
        PROVE  AuditTrailIsChain'
    <2> DEFINE t == tx[c]
               s == t.server
               row == [from |-> t.from, to |-> t.to, by |-> t.by,
                       timestamp |-> t.timestamp]
               h == history[s]
    <2>1. s \in Servers /\ t \in Transaction
      BY <1>3 DEF Commit, TypeOK, Transaction, NoTransaction
    <2>2. t.from = current_state[s]
      BY <1>3 DEF Commit, LockDiscipline, HoldsLock
    <2>3. t.from \in ServerState
      BY <1>3, PermittedFacts DEF Commit, PendingWrites
    <2>4. h \in Seq(HistoryRow) /\ row \in HistoryRow
      BY <2>1, <2>3 DEF TypeOK, HistoryRow, Transaction
    <2>5. /\ history' = [history EXCEPT ![s] = Append(h, row)]
          /\ current_state'[s] = t.to /\ previous_state'[s] = t.from
          /\ \A r \in Servers : r # s =>
               /\ current_state'[r] = current_state[r]
               /\ previous_state'[r] = previous_state[r]
      BY <1>3, <2>1 DEF Commit, TypeOK
    <2>6. ASSUME NEW r \in Servers, r # s
          PROVE  history'[r] = history[r]
      BY <2>5, <2>6 DEF TypeOK
    <2>7. history'[s] = Append(h, row)
      BY <2>1, <2>5 DEF TypeOK
    <2>8. /\ Len(history'[s]) = Len(h) + 1
          /\ history'[s][Len(h) + 1] = row
          /\ \A i \in 1..Len(h) : history'[s][i] = h[i]
          /\ history'[s] # <<>>
          /\ Len(h) \in Nat
      BY <2>4, <2>7
    <2>9. /\ current_state'[s] = history'[s][Len(history'[s])].to
          /\ previous_state'[s] = history'[s][Len(history'[s])].from
      BY <2>5, <2>8
    <2>10. history'[s][1].from = "PENDING"
      <3>1. CASE h = <<>>
        BY <2>1, <2>2, <2>3, <2>8, <3>1, StateFacts DEF IsChain
      <3>2. CASE h # <<>>
        BY <2>1, <2>4, <2>8, <3>2 DEF IsChain
      <3>3. QED
        BY <3>1, <3>2
    <2>11. ASSUME NEW i \in 1..(Len(history'[s]) - 1)
           PROVE  history'[s][i + 1].from = history'[s][i].to
      <3>1. CASE i = Len(h)
        <4>1. h # <<>> /\ Len(h) \in 1..Len(h)
          BY <2>4, <2>8, <3>1
        <4>2. row.from = h[Len(h)].to
          BY <2>1, <2>2, <4>1 DEF IsChain
        <4>3. QED
          BY <2>8, <3>1, <4>1, <4>2
      <3>2. CASE i # Len(h)
        <4>1. i \in 1..(Len(h) - 1) /\ i + 1 \in 1..Len(h) /\ i \in 1..Len(h)
          BY <2>8, <3>2
        <4>2. QED
          BY <2>1, <2>8, <4>1 DEF IsChain
      <3>3. QED
        BY <3>1, <3>2
    <2>12. IsChain(history'[s], current_state'[s], previous_state'[s])
      BY <2>8, <2>9, <2>10, <2>11 DEF IsChain
    <2>13. QED
      BY <2>5, <2>6, <2>12
  <1>4. QED
    <2>1. ASSUME NEW s \in Servers, NEW id \in AwsIds, SetAwsSourceServerId(s, id)
          PROVE  UNCHANGED <<current_state, previous_state, history>>
      BY <2>1 DEF SetAwsSourceServerId, columns
    <2>2. CASE UNCHANGED vars
      BY <2>2, <1>1 DEF vars
    <2>3. ASSUME NEW c \in Sessions, NEW op, NEW s, NEW to, NEW by,
                 Begin(c, op, s, to, by)
          PROVE  UNCHANGED <<current_state, previous_state, history>>
      BY <2>3 DEF Begin, columns
    <2>4. ASSUME NEW c \in Sessions, Step(c) \/ Abort(c)
          PROVE  AuditTrailIsChain'
      BY <2>4, <1>1, <1>3
         DEF Step, LockRow, RowMissing, Refuse, Update, Abort, columns
    <2>5. QED
      BY <1>1, <1>2, <2>1, <2>2, <2>3, <2>4 DEF Next, AdvanceState, ResetServer

-----------------------------------------------------------------------------
(* IInv is an inductive invariant of the transactions.                     *)
LEMMA InductiveInvariant == Spec => []IInv
  <1>1. Init => IInv
    BY SessionsAssumption
       DEF Init, IInv, TypeOK, LockDiscipline, HoldsLock, PendingWrites,
           AuditTrailIsChain, IsChain, NoTransaction
  <1>2. IInv /\ [Next]_vars => IInv'
    BY TypeInductive, PendingInductive, LockInductive, ChainInductive DEF IInv
  <1>3. QED
    BY <1>1, <1>2, PTL DEF Spec

(* Every variable of the State Manager keeps its type: in particular a     *)
(* committed current_state is always a member of the enum.                 *)
THEOREM TypeCorrect == Spec => []TypeOK
  BY InductiveInvariant, PTL DEF IInv

(* SELECT FOR UPDATE works as the comments of advance_state say: between   *)
(* the read of from_state and the commit no other session changes the row. *)
THEOREM LockDisciplineHolds == Spec => []LockDiscipline
  BY InductiveInvariant, PTL DEF IInv

(* The audit trail of every server is a gapless chain from PENDING to the  *)
(* state of its row, over any number of aborted transactions and resets.   *)
THEOREM AuditTrailHolds == Spec => []AuditTrailIsChain
  BY InductiveInvariant, PTL DEF IInv

-----------------------------------------------------------------------------
(* What a step does to the row and to the audit trail of a server: nothing,*)
(* an INSERT, or the commit of a change that the check of advance_state or *)
(* of reset_server allows for the state the row still has.                 *)
LEMMA RowSteps ==
  ASSUME IInv, [Next]_vars
  PROVE  \/ UNCHANGED <<columns, aws_source_server_id, history>>
         \/ \E s \in Servers : RegisterServer(s)
         \/ \E s \in Servers, id \in AwsIds : SetAwsSourceServerId(s, id)
         \/ \E c \in Sessions :
              /\ Commit(c)
              /\ tx[c] \in Transaction
              /\ tx[c].from = current_state[tx[c].server]
              /\ Permitted(tx[c])
              /\ tx[c].op = "reset" => tx[c].to = "PENDING" /\ tx[c].by \in Engineers
  <1>1. ASSUME NEW c \in Sessions, Commit(c)
        PROVE  /\ tx[c] \in Transaction
               /\ tx[c].from = current_state[tx[c].server]
               /\ Permitted(tx[c])
               /\ tx[c].op = "reset" =>
                    tx[c].to = "PENDING" /\ tx[c].by \in Engineers
    BY <1>1 DEF IInv, TypeOK, LockDiscipline, HoldsLock, PendingWrites, Commit,
                NoTransaction
  <1>2. ASSUME NEW c \in Sessions, NEW op, NEW s, NEW to, NEW by,
               Begin(c, op, s, to, by)
        PROVE  UNCHANGED <<columns, aws_source_server_id, history>>
    BY <1>2 DEF Begin
  <1>3. ASSUME NEW c \in Sessions, Step(c) \/ Abort(c), ~Commit(c)
        PROVE  UNCHANGED <<columns, aws_source_server_id, history>>
    BY <1>3 DEF Step, LockRow, RowMissing, Refuse, Update, Abort
  <1>4. CASE UNCHANGED vars
    BY <1>4 DEF vars, columns
  <1>5. CASE Next
    BY <1>1, <1>2, <1>3, <1>5 DEF Next, AdvanceState, ResetServer
  <1>6. QED
    BY <1>4, <1>5

(* FROZEN and CLEANUP_COMPLETE are never left, and FAILED only by a reset. *)
THEOREM FinalStates == Spec => FinalStatesAreFinal
  <1> DEFINE Kept == \A s \in Servers :
               /\ current_state[s] \in {"FROZEN", "CLEANUP_COMPLETE"}
                    => current_state'[s] = current_state[s]
               /\ current_state[s] = "FAILED"
                    => current_state'[s] \in {"FAILED", "PENDING"}
  <1>1. ASSUME IInv, [Next]_vars
        PROVE  Kept
    <2>1. ASSUME current_state' = current_state
          PROVE  Kept
      BY <2>1
    <2>2. ASSUME NEW s \in Servers, RegisterServer(s)
          PROVE  Kept
      BY <1>1, <2>2 DEF RegisterServer, IsRegistered, NotRegistered, IInv, TypeOK
    <2>3. ASSUME NEW c \in Sessions, Commit(c), tx[c] \in Transaction,
                 tx[c].from = current_state[tx[c].server], Permitted(tx[c]),
                 tx[c].op = "reset" => tx[c].to = "PENDING" /\ tx[c].by \in Engineers
          PROVE  Kept
      <3>1. /\ tx[c].from \notin {"CLEANUP_COMPLETE", "FROZEN"}
            /\ tx[c].from = "FAILED" => tx[c].to = "PENDING"
        BY <2>3, PermittedFacts
      <3>2. current_state' = [current_state EXCEPT ![tx[c].server] = tx[c].to]
        BY <2>3 DEF Commit
      <3>3. QED
        BY <1>1, <2>3, <3>1, <3>2 DEF IInv, TypeOK
    <2>4. ASSUME \/ UNCHANGED <<columns, aws_source_server_id, history>>
                 \/ \E s \in Servers, id \in AwsIds : SetAwsSourceServerId(s, id)
          PROVE  current_state' = current_state
      BY <2>4 DEF columns, SetAwsSourceServerId
    <2> HIDE DEF Kept
    <2>5. QED
      BY <1>1, <2>1, <2>2, <2>3, <2>4, RowSteps
  <1>2. QED
    BY <1>1, InductiveInvariant, PTL DEF Spec, FinalStatesAreFinal

(* The transactions implement the atomic ledger that the other components  *)
(* are specified over: every commit is one AdvanceState or ResetServer of  *)
(* StateLedger, every other statement changes nothing a caller can see.    *)
THEOREM Refinement == Spec => ImplementsLedger
  <1>1. Init => Ledger!LedgerInit
    BY DEF Init, Ledger!LedgerInit, Newest, Ledger!NoRow, Ledger!Null,
           Ledger!NotRegistered, Null, NotRegistered
  <1>2. ASSUME IInv, [Next]_vars
        PROVE  [Ledger!LedgerNext]_(Ledger!ledgerVars)
    <2>1. CASE UNCHANGED <<columns, aws_source_server_id, history>>
      BY <2>1 DEF Ledger!ledgerVars, Newest, LastRow, columns
    <2>2. ASSUME NEW s \in Servers, RegisterServer(s)
          PROVE  Ledger!LedgerNext
      <3>1. Ledger!RegisterServer(s)
        BY <2>2 DEF RegisterServer, Ledger!RegisterServer, IsRegistered,
                    Ledger!IsRegistered, NotRegistered,
                    Ledger!NotRegistered, Newest, LastRow
      <3>2. QED
        BY <3>1 DEF Ledger!LedgerNext
    <2>3. ASSUME NEW s \in Servers, NEW id \in AwsIds, SetAwsSourceServerId(s, id)
          PROVE  Ledger!LedgerNext
      <3>1. Ledger!SetAwsSourceServerId(s, id)
        BY <2>3 DEF SetAwsSourceServerId, Ledger!SetAwsSourceServerId,
                    IsRegistered, Ledger!IsRegistered, NotRegistered,
                    Ledger!NotRegistered, Newest, LastRow, columns
      <3>2. QED
        BY <3>1 DEF Ledger!LedgerNext
    <2>4. ASSUME NEW c \in Sessions, Commit(c), tx[c] \in Transaction,
                 tx[c].from = current_state[tx[c].server], Permitted(tx[c]),
                 tx[c].op = "reset" => tx[c].to = "PENDING" /\ tx[c].by \in Engineers
          PROVE  Ledger!LedgerNext
      <3> DEFINE t == tx[c]
                 s == t.server
                 row == [from |-> t.from, to |-> t.to, by |-> t.by,
                         timestamp |-> t.timestamp]
      <3>1. /\ s \in Servers /\ t.from \in ServerState
            /\ t.to \in ServerState /\ t.by \in Actors
        BY <2>4, PermittedFacts DEF Transaction
      <3>2. history[s] \in Seq(HistoryRow) /\ row \in HistoryRow
        BY <1>2, <2>4, <3>1 DEF IInv, TypeOK, HistoryRow, Transaction
      <3>3. /\ history'[s] = Append(history[s], row)
            /\ \A r \in Servers : r # s => history'[r] = history[r]
        BY <1>2, <2>4, <3>1 DEF Commit, IInv, TypeOK
      <3>4. /\ history'[s] # <<>>
            /\ history'[s][Len(history'[s])] = row
        BY <3>2, <3>3
      <3>5. Newest'[s] = [from |-> current_state[s], to |-> t.to, by |-> t.by]
        BY <2>4, <3>1, <3>4 DEF Newest, LastRow
      <3>6. \A r \in Servers : r # s => Newest'[r] = Newest[r]
        BY <3>3 DEF Newest, LastRow
      <3>7. Newest' = [Newest EXCEPT ![s] =
                         [from |-> current_state[s], to |-> t.to, by |-> t.by]]
        BY <3>5, <3>6 DEF Newest
      <3>8. Ledger!MoveTo(s, t.to, t.by)
        BY <2>4, <3>7 DEF Commit, Ledger!MoveTo
      <3>9. CASE t.op = "advance"
        <4>1. IsValidTransition(current_state[s], t.to)
          BY <2>4, <3>9 DEF Permitted
        <4>2. Ledger!AdvanceState(s, t.to, t.by)
          BY <4>1, <3>8 DEF Ledger!AdvanceState, Ledger!IsValidTransition, Ledger!ValidTransitions,
                       Ledger!ServerState, Ledger!Forward, Ledger!CompletedStates, Ledger!ErrorStates,
                       IsValidTransition, ValidTransitions, ServerState, Forward, CompletedStates, ErrorStates
        <4>3. QED
          BY <3>1, <4>2 DEF Ledger!LedgerNext, Ledger!Actors, Actors, Ledger!ServerState, ServerState
      <3>10. CASE t.op = "reset"
        <4>1. Ledger!ResetServer(s, t.by)
          BY <2>4, <3>8, <3>10 DEF Permitted, Ledger!ResetServer
        <4>2. QED
          BY <2>4, <3>1, <3>10, <4>1 DEF Ledger!LedgerNext
      <3>11. QED
        BY <2>4, <3>9, <3>10 DEF Permitted
    <2>5. QED
      BY <1>2, <2>1, <2>2, <2>3, <2>4, RowSteps
  <1>3. QED
    BY <1>1, <1>2, InductiveInvariant, PTL DEF Spec, ImplementsLedger, Ledger!LedgerSpec
=============================================================================
