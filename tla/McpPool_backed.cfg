SPECIFICATION PoolLiveSpec
CONSTANTS
  Tasks = {t1, t2}
  Providers = {p1}
  Sessions = {s1, s2, s3}
  MaxSessions = 1
  PoolCap = 2
  MaxRecycles = 0
INVARIANT
  LiveIsBacked
