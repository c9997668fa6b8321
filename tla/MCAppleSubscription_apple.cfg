SPECIFICATION Spec
CONSTANTS
  MaxPeriods = 3
  MaxInputs = 4
  MaxClock = 2
  MaxOpen = 1
CHECK_DEADLOCK FALSE
INVARIANTS
  TypeOK
  PlanFollowsGrants
  OneActivePeriod
  EntitledAsCovered
PROPERTIES
  NoGrantAfterDeletion
  NewerPeriodWins
