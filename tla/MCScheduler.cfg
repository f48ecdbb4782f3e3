SPECIFICATION Spec
CONSTANTS
  s1 = s1  s2 = s2  s3 = s3  s4 = s4  m1 = m1  m2 = m2  phase2 = phase2  freebuff = freebuff
  Steps = {s1, s2, s3, s4}
  Deps <- Graph
  Complexity <- Ranks
  Models = {m1, m2}
  PoolOf <- Pool
  Listings <- Lists
  Freebuff = freebuff
  Ghost = ghost
  Cap <- Caps
  Classes = {"provider_down", "transient"}
  Calls = {"write"}
  MaxAttempts = 3
  MaxToolCalls = 1
  ToolLoopRepeats = 2
  MaxRemediations = 1
INVARIANTS FreshInputs NotCalledAgain NothingLeftBehind
PROPERTIES InOrder RunEnds
