SPECIFICATION FairSpec
CONSTANTS
  w1 = w1  w2 = w2  c1 = c1  j1 = j1  j2 = j2  force1 = force1
  None = None
  Workers <- OneWorker
  Clients <- OneClient
  Jobs <- TwoJobs
  Forced <- NoForce
  MaxAttempts = 2
  Heartbeats = TRUE
  Crashes = TRUE
  LockTimeouts <- OfBeats
CHECK_DEADLOCK FALSE
INVARIANTS
  CompletedIsBilled
PROPERTIES
  ImplementsLifecycle
