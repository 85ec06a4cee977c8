\* Every kind of step through every way its calls can end: passes are earned,
\* operations are not repeated, every captcha stays in its budget, the test
\* case keeps only code that earned a pass, and the execution ends.
SPECIFICATION LiveSpec
CONSTANTS
  Ops <- AllOps
  MaxRetries = 2
  Polls = 2
  Asserts = {0, 2}
  MaxDepth = 4
INVARIANTS
  PassIsEarned
  ActsOnce
  SolverBudget
  HealingIsProved
PROPERTY
  StepEnds
