SPECIFICATION PartsSpec
CONSTANTS
  Approvals = {"a1"}  Requests = {q1, q2}  MaxPending = 1  MaxAsked = 1
  Events = {"e1", "e2"}  Twin <- TwinsByTitle  Channels = {"c1", "c2"}  Routers = {k1, k2}  RouteBatch = 1
  MaxBreaks = 1  MaxEdits = 1
  Posts = {"p1", "p2"}  SignedAt <- Signed  Posting = {q1, q2}  HookWindow = 2  HookEnd = 11
  Values = {"x", "y"}  Desk = {q1, q2}  MaxDesk = 4
  Providers = {"g", "t"}  Steps = {q1, q2}  PerProvider = 1  MaxProviders = 2  PerWindow = 2  Reserve = 1
  MaxRecords = 4  MonthOf <- Months  KeepNewest = 1  MaxFiles = 2
  PlanSteps = {s1, s2, s3}  Sizes = {2, 3}  MaxLength = 3  MaxReplans = 1
  Reporters = {"r1"}  Kinds = {"k1", "k2", "k3"}  Limited = {"k1"}  MaxBatch = 2  NoReport = NoReport
  MaxSeconds = 3  MaxComments = 3  MaxDirect = 1
  Files = {f1, f2}  Tries = 2  MaxChanges = 3  MaxJobs = 2
  Loggers = {"l1", "l2", "l3"}  RetainDays = 1  LookBack = 3  Overlapping = FALSE  MaxEvents = 5  MaxTorn = 2  MaxDay = 3
  Procs = {u1, u2, u3}  Ghost = Ghost  MayCrash = {u1, u2, u3}  Slow = {u1, u2, u3}  Leftovers = {"nothing", "expired lease"}
INVARIANTS ApprovedTakenOnce RoutedWasTold PostedOnce KeptKeysWereWritten QuotaNearlyKept RunNeverLost PlanCanRun
  CountedOnce RunsAskedFor EventsKeptInOrder NoGhostLease SomebodyWins
PROPERTIES RejectedKeyStaysOut PushKeepsBoth
CHECK_DEADLOCK FALSE
