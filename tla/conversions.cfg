SPECIFICATION Spec
CONSTANTS
  IntBits = 6
  ColBits = 4
  Mantissa = 4
  Calls <- MCCalls
INVARIANTS PortableRoundTrip DatabasesAgree ParametersMeetTheirPlaces
  LosslessBelowTheEdge
CHECK_DEADLOCK FALSE
