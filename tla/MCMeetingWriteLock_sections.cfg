SPECIFICATION FairSpec
CONSTANTS
  app = app  worker = worker  u1 = u1  u2 = u2  m1 = m1  up1 = up1
  chunk1 = chunk1  chunk2 = chunk2  chunk3 = chunk3  job = job
  None = None
  Procs <- TwoProcs
  Calls <- FourCalls
  ProcOf <- ProcOfFour
  KindOf <- KindOfFour
  UserOf <- UserOfFour
  MeetingOf <- MeetingOfFour
  UploadOf <- UploadOfFour
  PoolMax = 3
  MaxBackups = 1
CHECK_DEADLOCK FALSE
INVARIANTS
  TypeOK
  SectionsExclude
  BackupIsAlone
  NothingLeftBehind
  OrderIsSafe
PROPERTIES
  EveryCallEnds
