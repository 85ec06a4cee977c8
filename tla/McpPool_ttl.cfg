SPECIFICATION PoolBusySpec
CONSTANTS
  Tasks = {t1, t2}
  Providers = {p1, p2}
  Sessions = {s1, s2}
  MaxSessions = 2
  PoolCap = 1
  MaxRecycles = 0
PROPERTY
  IdleTtlFreesCap
