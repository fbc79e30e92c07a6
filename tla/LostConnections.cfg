\* The whole pipeline; one process is killed, or one handler survives its
\* connection, and one statement or publish and one AWS call raise.
SPECIFICATION Spec
CONSTANTS
  w1 = w1
  w2 = w2
  p1 = p1
  p2 = p2
  r1 = r1
  r2 = r2
  o1 = o1
  NoTask = NoTask
  Servers = {"srv1"}
  AwsIds = {"mgn1"}
  Engineers = {"alice"}
  MgnWorkers = {w1}
  PollerWorkers = {p1}
  Requests = {r1}
  Orphans = {o1}
  MaxPollAttempts = 2
  MaxAwsErrors = 1
  MaxHasty = 0
  MaxResets = 0
  MaxCrashes = 1
  MaxFaults = 1
  ManualStates = {"TEST_INSTANCE_RUNNING", "CUTOVER_INSTANCE_RUNNING"}
  ManualJobs = {"LAUNCH_CUTOVER_INSTANCE"}
INVARIANTS
  CutoverFailureIsFrozen
PROPERTIES
  RejectionIsAtGate
\* Engineers may stop asking.
CHECK_DEADLOCK FALSE
