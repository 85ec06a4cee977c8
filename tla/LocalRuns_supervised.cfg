SPECIFICATION LocalLiveSpec
CONSTANTS
  c1 = c1
  c2 = c2
  Cases <- MCCases
  Selection <- MCShortSelection
  Planned <- MCCases
  MaxAttempts = 3
  Requests = {r1}
  HostSleeps = TRUE
  Supervisors = {s1, s2}
  MaxFaults = 2
INVARIANTS
  StepsOfOneAttempt
PROPERTIES
  ZombiesAreDead
  QueuedRunEnds
CHECK_DEADLOCK FALSE
