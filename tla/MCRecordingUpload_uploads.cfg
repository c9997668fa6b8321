SPECIFICATION FairSpec
CONSTANTS
  m1 = m1  m2 = m2  u1 = u1  u2 = u2  a1 = a1  a2 = a2  h1 = h1  h2 = h2
  None = None
  Meetings <- TwoMeetings
  Uploads <- TwoUploads
  MeetingOf <- MeetingOfEach
  Content <- ContentOfEach
  Size <- SizeOfEach
  PartsOf <- TwoPartsAndOne
  Handlers <- TwoHandlers
  MaxActive = 1
  MaxBytes = 2
  MaxFaults = 2
CHECK_DEADLOCK FALSE
INVARIANTS
  TypeOK
  AckedIsDurable
PROPERTIES
  AdmissionsFit
  EventuallySynced
