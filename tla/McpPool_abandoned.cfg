SPECIFICATION PoolLiveSpec
CONSTANTS
  Tasks = {t1, t2}
  Providers = {p1}
  Sessions = {s1, s2}
  MaxSessions = 1
  PoolCap = 2
  MaxRecycles = 0
PROPERTY
  AbandonedCallNotReused
