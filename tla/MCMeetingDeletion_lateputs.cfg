SPECIFICATION Spec
CONSTANTS
  h1 = h1  w1 = w1  part1 = part1  commit1 = commit1  input1 = input1
  None = None
  Handlers <- OneHandler
  Workers <- OneWorker
  Parts <- OnePart
  Commits <- NoTransfer
  Inputs <- NoTransfer
  FailAfterPut <- OnePart
  MaxCrashes = 1
CHECK_DEADLOCK FALSE
INVARIANTS
  ErasedUnlessOwed
