SPECIFICATION Spec
CONSTANTS
  IntBits = 6
  ColBits = 4
  Mantissa = 4
  Calls <- MCCalls
INVARIANTS OnlyLosslessRecoveries
CHECK_DEADLOCK FALSE
