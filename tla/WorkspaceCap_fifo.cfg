SPECIFICATION CapLiveSpec
CONSTANTS
  Tasks = {t1, t2, t3}
  MaxPerWorkspace = 1
PROPERTY
  FirstInFirstOut
