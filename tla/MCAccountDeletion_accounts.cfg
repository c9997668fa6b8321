SPECIFICATION FairSpec
CONSTANTS
  r1 = r1  w1 = w1  m1 = m1  p1 = p1  e1 = e1
  None = None
  Requests <- OneRequest
  Workers <- OneWorker
  Meetings <- OneMeeting
  Parts <- OnePart
  Edits <- OneEdit
  MeetingOf <- AllToOne
  MaxAttempts = 2
  MaxFaults = 2
CHECK_DEADLOCK FALSE
INVARIANTS
  TypeOK
  ReceiptIsTrue
  NothingForgotten
  EvidenceKept
PROPERTIES
  EventuallySettled
