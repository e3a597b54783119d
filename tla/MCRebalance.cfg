SPECIFICATION Spec
CONSTANTS
  Symbols <- Three
  Start <- Held
  Target <- Aimed
  Cash = 3
  Floor = 1
  MaxOrders = 4
  MaxRuns = 2
INVARIANTS OneOrderAtATime OutOfPlanOnlyTorn FloorKept
CHECK_DEADLOCK FALSE
