CONSTANTS
  Tasks = {t1, t2}
  Pulses = {p1, p2, p3}
  None = None
  TTL = 3
  RenewGap = 2
SPECIFICATION FairSpec
INVARIANTS MutualExclusion WorkerHoldsLease OwnsOnlyItsWork
PROPERTIES LiveLeaseKept LeftLeaseRunsOut ImplementsExclusiveRun
