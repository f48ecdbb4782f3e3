SPECIFICATION WSpec
CONSTANTS
  Tasks = {"i", "t"}  Issues = {"i"}  Ticks = {"k1"}  Batch = 2  Owners = {"o1"}  MaxLives = 3  MaxSent = 2
  Vms = {"v1", "v2"}  VmTicks = {"k1", "k2"}  VmBatch = 1  MaxRuns = 2  MaxReports = 2
  Tokens = {t1, t2, t3, t4}  MaxFaults = 1  MaxForced = 1
  Keepers = {"k1", "k2"}  MaxPulses = 2  MaxMisses = 3
  Schedules = {"brief", "s1"}  DailyBrief = "brief"  Clocks = {k1, k2}  DueLimit = 1  MaxStops = 2
PROPERTIES WorkSettles WorkerHeals
CHECK_DEADLOCK FALSE
