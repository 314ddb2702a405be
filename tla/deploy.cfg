SPECIFICATION Spec
CONSTANTS
  Filenames = {1, 2, 3, 4}
  KindOf <- MCKindOf
  NoFile = NoFile
  Broken = Broken
  Missing = Missing
  None = None
  Urls = {"sqlite:app.db", "postgres://", None}
  Invocations <- MCInvocations
  Tolerant = {3}
  MaxFaults = 2
INVARIANTS TypeOK RecordedIsPresent ListingOrderIsIrrelevant
PROPERTIES ZeroMeansDone DriftIsRealChange WipesOnlyWithConsent SeedsOnlyWhenCurrent
