CONSTANTS
  Steps = {Plan}
  Plan = Plan
  Git = TRUE
  MaxRuns = 2
  MaxAttempts = 2
  MaxParks = 0
  MaxRemediations = 0
  Types = {"task"}
  Asking = {TRUE}
  Quiet = {FALSE}
  ListFails = FALSE
  MayCrash = TRUE
SPECIFICATION Spec
INVARIANTS KeyOnce ClosedAfterResult
CHECK_DEADLOCK FALSE
