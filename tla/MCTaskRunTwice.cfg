CONSTANTS
  Steps = {Plan, s1}
  Plan = Plan
  Git = FALSE
  MaxRuns = 2
  MaxAttempts = 3
  MaxParks = 1
  MaxRemediations = 0
  Types = {"task"}
  Asking = {FALSE}
  Quiet = {FALSE}
  ListFails = FALSE
  MayCrash = TRUE
SPECIFICATION Spec
INVARIANT ResultOnce
CHECK_DEADLOCK FALSE
