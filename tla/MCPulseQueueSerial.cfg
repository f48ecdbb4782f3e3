CONSTANTS
  t1 = t1
  t2 = t2
  Tasks = {t1}
  Pulses = {p1, p2, p3}
  None = None
  Deps <- NoDeps
  MaxAttempts = 2
  MaxClaims = 2
  Outcomes = {"complete", "failed", "blocked", "waiting", "pr-open"}
  Waits = {"approval", "provider"}
  Verbs = {"retry", "cancel", "pause", "approve"}
  Expirable = {t1}
  Closable = {t1}
  Archivable = {t1}
  Controls = {"go", "drain", "kill"}
  Serialized = TRUE
  MayCrash = {p1, p2, p3}
  SlowRuns = FALSE
SYMMETRY Perms
SPECIFICATION Spec
INVARIANTS AttemptCeiling 
PROPERTIES RevivedOnlyByRetry
CHECK_DEADLOCK FALSE
