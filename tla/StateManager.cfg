\* Two sessions of the pool compete for the row of one server: every
\* interleaving of up to four transactions, aborted at any statement.
SPECIFICATION FairSpec
CONSTANTS
  c1 = c1
  c2 = c2
  Servers = {"srv1"}
  AwsIds = {"aws1"}
  Engineers = {"alice"}
  Sessions = {c1, c2}
  Targets <- MCTargets
  NoSession = NoSession
  MaxClock = 4
INVARIANTS
  TypeOK
  LockDiscipline
  AuditTrailIsChain
PROPERTIES
  FinalStatesAreFinal
  ImplementsLedger
  EveryTransactionEnds
\* All sessions are idle and the bound on transactions is reached.
CHECK_DEADLOCK FALSE
