SPECIFICATION LiveSpec
CONSTANTS
  c1 = c1
  c2 = c2
  c3 = c3
  Cases <- MCCases
  Selection <- MCShortSelection
  Planned <- MCPlanned
  MaxAttempts = 2
  Requests = {r1}
  HostSleeps = TRUE
INVARIANTS
  TypeOK
  PassVerdictSound
  CountersBacked
  FailureHasEvidence
  PassedRunPassesCases
PROPERTIES
  CancelUndoneOnlyByStaleWriter
  RunSettles
CHECK_DEADLOCK FALSE
