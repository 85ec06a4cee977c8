SPECIFICATION HealthySpec
CONSTANTS
  c1 = c1
  c2 = c2
  c3 = c3
  Cases <- MCCases
  Selection <- MCShortSelection
  Planned <- MCPlanned
  MaxAttempts = 1
  Requests = {r1}
  HostSleeps = FALSE
PROPERTY
  NeverRegressCancelled
CHECK_DEADLOCK FALSE
