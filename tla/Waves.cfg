\* Two requests at a time about two servers that are new, have an agent or are
\* at the first gate: the waves of the replication stage and the bulk endpoints,
\* with one statement or publish that raises.
SPECIFICATION FairSpec
CONSTANTS
  r1 = r1
  r2 = r2
  c1 = c1
  c2 = c2
  Servers = {"srv1", "srv2"}
  AwsIds = {"mgn1"}
  Engineers = {"alice"}
  Batches = {"b1"}
  Configs = {c1}
  Requests = {r1, r2}
  NoBatch = NoBatch
  NoRequest = NoRequest
  Operations <- StageOneOperations
  StartStates <- StageOneStates
  MaxRequests = 2
  MaxElsewhere = 0
  MaxFaults = 1
  MaxCrashes = 0
INVARIANTS
  TypeOK
  OneJobPerGate
  SucceededIsDispatched
PROPERTIES
  NobodyIsForgotten
\* Engineers may stop asking.
CHECK_DEADLOCK FALSE
