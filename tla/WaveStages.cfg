\* Every endpoint, two requests at a time about one server, from every state at
\* which one of them acts; one statement or publish raises, or the API dies.  The two
\* moves from elsewhere may be a failure and a reset.
SPECIFICATION Spec
CONSTANTS
  r1 = r1
  r2 = r2
  c1 = c1
  c2 = c2
  Servers = {"srv1"}
  AwsIds = {"mgn1"}
  Engineers = {"alice"}
  Batches = {"b1"}
  Configs = {c1, c2}
  Requests = {r1, r2}
  NoBatch = NoBatch
  NoRequest = NoRequest
  Operations <- EveryOperation
  StartStates <- EveryStart
  MaxRequests = 2
  MaxElsewhere = 2
  MaxFaults = 1
  MaxCrashes = 1
SYMMETRY Symmetry
INVARIANTS
  OneJobPerGate
  SucceededIsDispatched
  ConfigIsOnRecord
\* Engineers may stop asking.
CHECK_DEADLOCK FALSE
