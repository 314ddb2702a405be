SPECIFICATION Spec
CONSTANTS
  N = 2
  v1 = v1
  v2 = v2
  r1 = r1
  r2 = r2
  None = None
  Versions = {v1, v2}
  Runners = {r1, r2}
  Handles = {r1, r2}
  Scenarios <- OneReplica
  CommitFaults = {"undone", "open", "unknown"}
  MaxFaults = 1
INVARIANTS UpToDateMeansDurable
