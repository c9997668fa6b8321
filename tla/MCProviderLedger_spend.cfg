SPECIFICATION Spec
CONSTANTS
  m1 = m1  op1 = op1  op2 = op2  c1 = c1  c2 = c2
  NoCaller = NoCaller
  Meetings <- OneMeeting
  Ops <- OneOp
  MeetingOf <- MeetingOfOne
  Cost <- CostOfOne
  Stages <- ChunkAndAsr
  Callers <- TwoCallers
  FreeTotal = 2
  PaidTotal = 2
  MaxOrders = 2
  PlanChanges <- Apple
  ManualReadsAhead = FALSE
SYMMETRY CallerSymmetry
CHECK_DEADLOCK FALSE
INVARIANTS
  TypeOK
  SettlementMatchesSteps
  PaidAtMostOnce
  CostCountedOnce
  FinalizedIsFrozen
  RefundsFit
  FreeTrialCovered
