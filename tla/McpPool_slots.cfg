SPECIFICATION PoolSpec
CONSTANTS
  Tasks = {t1, t2, t3}
  Providers = {p1}
  Sessions = {s1, s2, s3}
  MaxSessions = 2
  PoolCap = 2
  MaxRecycles = 1
SYMMETRY Symmetry
INVARIANTS
  PoolTypeOK
  SessionsExclusive
  LiveCovers
