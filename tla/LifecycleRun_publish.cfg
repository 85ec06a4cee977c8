SPECIFICATION LiveSpec
CONSTANTS
  Cases = {1, 2, 3}
  Plan = {1, 2}
  Sessions = {1, 2}
  Outcomes = {"PASSED", "SKIPPED"}
  ServerProjects <- SomeProjects
  MaxDeletes = 1
  Dependencies = {"backend", "cache"}
CHECK_DEADLOCK FALSE
INVARIANTS
  PublishedIsRecorded
  VerdictMatchesResults
  VideoKeptUntilStored
  StartedServicesStopped
PROPERTY RunsOfLifecycleSettle
