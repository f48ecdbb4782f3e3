CONSTANTS
  t1 = t1
  t2 = t2
  Tasks = {t1}
  Pulses = {p1, p2}
  None = None
  Deps <- NoDeps
  MaxAttempts = 2
  MaxClaims = 2
  Outcomes = {"complete", "failed"}
  Waits = {}
  Verbs = {"cancel"}
  Expirable = {}
  Closable = {t1}
  Archivable = {}
  Controls = {"go", "drain", "kill"}
  Serialized = TRUE
  MayCrash = {}
  SlowRuns = FALSE
SYMMETRY Perms
SPECIFICATION Spec
PROPERTIES CancelledByAPerson
CHECK_DEADLOCK FALSE
