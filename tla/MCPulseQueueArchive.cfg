CONSTANTS
  t1 = t1
  t2 = t2
  Tasks = {t1}
  Pulses = {p1, p2, p3}
  None = None
  Deps <- NoDeps
  MaxAttempts = 2
  MaxClaims = 2
  Outcomes = {"complete", "failed"}
  Waits = {}
  Verbs = {"retry"}
  Expirable = {}
  Closable = {}
  Archivable = {t1}
  Controls = {"go", "drain", "kill"}
  Serialized = TRUE
  MayCrash = {}
  SlowRuns = FALSE
SYMMETRY Perms
SPECIFICATION Spec
INVARIANTS ArchivedStaysDone
CHECK_DEADLOCK FALSE
