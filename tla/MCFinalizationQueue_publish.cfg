SPECIFICATION Spec
CONSTANTS
  w1 = w1  w2 = w2  c1 = c1  j1 = j1  j2 = j2  force1 = force1
  None = None
  Workers <- TwoWorkers
  Clients <- OneClient
  Jobs <- TwoJobs
  Forced <- OneForce
  MaxAttempts = 2
  Heartbeats = FALSE
  Crashes = FALSE
  LockTimeouts <- OfRuns
SYMMETRY Symmetry
CHECK_DEADLOCK FALSE
INVARIANTS
  TypeOK
  OneActiveJob
  PublishedOnce
PROPERTIES
  NoWriteAfterDelete
