SPECIFICATION Spec
CONSTANTS
  Titles = {"a", "b"}
  Plans <- TwoPlans
  Variants = {1, 2}
  Engines = {"repo", "blackbox"}
  MaxChanges = 2
  MaxEdits = 1
  MaxRuns = 3
CHECK_DEADLOCK FALSE
INVARIANT
  EditsSurvive
