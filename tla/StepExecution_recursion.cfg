SPECIFICATION Spec
CONSTANTS
  Ops <- AllOps
  MaxRetries = 2
  Polls = 2
  Asserts = {0, 2}
  MaxDepth = 4
INVARIANT
  FlatSolverBudget
