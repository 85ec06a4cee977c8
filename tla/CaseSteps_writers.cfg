\* Two editor requests and a run healing steps of the same case.
SPECIFICATION LiveSpec
CONSTANTS
  Editors = {e1, e2}
  Runs = {r1}
  InitSteps = 2
  MaxPayload = 3
  MaxHeals = 1
  NoOne = NoOne
INVARIANTS
  CaseTypeOK
  AppendsSucceed
PROPERTIES
  RepairKeepsEdits
  InjectionKeepsOrder
  WritersEnd
