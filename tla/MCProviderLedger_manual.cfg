SPECIFICATION Spec
CONSTANTS
  m1 = m1  op1 = op1  op2 = op2  c1 = c1  c2 = c2
  NoCaller = NoCaller
  Meetings <- OneMeeting
  Ops <- OneOp
  MeetingOf <- MeetingOfOne
  Cost <- CostOfOne
  Stages <- AsrOnly
  Callers <- OneCaller
  FreeTotal = 2
  PaidTotal = 2
  MaxOrders = 1
  PlanChanges <- Manual
  ManualReadsAhead = TRUE
CHECK_DEADLOCK FALSE
INVARIANTS
  FreeTrialCovered
