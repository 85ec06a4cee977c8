SPECIFICATION InvokerSpec
CONSTANTS
  Tasks = {t1, t2}
  Providers = {p1, p2}
  Sessions = {s1, s2}
  MaxSessions = 2
  PoolCap = 2
  MaxRecycles = 1
INVARIANT
  EveryCallAudited
