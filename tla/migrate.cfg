SPECIFICATION Spec
CONSTANTS
  N = 3
  v1 = v1
  v2 = v2
  r1 = r1
  r2 = r2
  None = None
  Versions = {v1, v2}
  Runners = {r1, r2}
  Handles = {r1}
  Scenarios <- Deployments
  CommitFaults = {"undone", "open", "unknown"}
  MaxFaults = 3
INVARIANTS TypeOK TransactionDiscipline RecordedExactlyWhatRan OkMeansDurable
  OkReportsOutOfOrder
PROPERTIES EachMigrationAtomic EarlierFilesFirst
