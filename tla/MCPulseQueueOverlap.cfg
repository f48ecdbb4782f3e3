CONSTANTS
  t1 = t1
  t2 = t2
  Tasks = {t1, t2}
  Pulses = {p1, p2}
  None = None
  Deps <- Chain
  MaxAttempts = 2
  MaxClaims = 2
  Outcomes = {"complete", "failed"}
  Waits = {}
  Verbs = {"retry"}
  Expirable = {}
  Closable = {}
  Archivable = {t1}
  Controls = {"go"}
  Serialized = FALSE
  MayCrash = {}
  SlowRuns = FALSE
SYMMETRY Perms
SPECIFICATION Spec
INVARIANTS OneRunner DependenciesFirst
  
CHECK_DEADLOCK FALSE
