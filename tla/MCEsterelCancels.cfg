SPECIFICATION Spec
CONSTANTS
  ActionIds <- MCActionIds
  Plans <- MCPlans
  MaxRuns = 2
  NoJob = NoJob
PROPERTY CancelsOnlyExecuting
CHECK_DEADLOCK FALSE
