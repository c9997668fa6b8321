SPECIFICATION Spec
CONSTANTS
  m1 = m1  op1 = op1  op2 = op2  c1 = c1  c2 = c2
  NoCaller = NoCaller
  Meetings <- OneMeeting
  Ops <- TwoOps
  MeetingOf <- MeetingOfBoth
  Cost <- CostOfEach
  Stages <- AsrOnly
  Callers <- OneCaller
  FreeTotal = 1
  PaidTotal = 2
  MaxOrders = 1
  PlanChanges <- Both
  ManualReadsAhead = FALSE
SYMMETRY OpSymmetry
CHECK_DEADLOCK FALSE
INVARIANTS
  NoOverspend
