CONSTANTS
  Steps = {Plan, s1}
  Plan = Plan
  Git = FALSE
  MaxRuns = 2
  MaxAttempts = 2
  MaxParks = 1
  MaxRemediations = 1
  Types = {"task", "self-improve"}
  Asking = {FALSE, TRUE}
  Quiet = {FALSE, TRUE}
  ListFails = FALSE
  MayCrash = TRUE
SPECIFICATION FairSpec
INVARIANTS GateOnce ApprovedFirst CheckpointMatchesTask
PROPERTY NeverStuckRunning
CHECK_DEADLOCK FALSE
