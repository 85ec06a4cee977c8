SPECIFICATION CapSpec
CONSTANTS
  Tasks = {t1, t2, t3, t4, t5}
  MaxPerWorkspace = 2
INVARIANTS
  CapTypeOK
  CapRespected
  NoLostWakeup
