SPECIFICATION RetrySpec
CONSTANTS
  N = 2
  v1 = v1
  v2 = v2
  r1 = r1
  r2 = r2
  None = None
  Versions = {v1, v2}
  Runners = {r1, r2}
  Handles = {r1, r2}
  Scenarios <- Replicas
  CommitFaults = {"undone", "unknown"}
  MaxFaults = 3
INVARIANTS FailureRollsBack
PROPERTIES RetriesConverge
