SPECIFICATION Spec
CONSTANTS
  Editors = {}
  Runs = {r1}
  InitSteps = 3
  MaxPayload = 3
  MaxHeals = 1
  NoOne = NoOne
INVARIANT
  InjectionReindexes
