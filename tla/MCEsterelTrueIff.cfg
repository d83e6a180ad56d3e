SPECIFICATION Spec
CONSTANTS
  ActionIds <- MCActionIds
  Plans <- MCPlans
  MaxRuns = 2
  NoJob = NoJob
INVARIANT TrueIffAllSucceeded
CHECK_DEADLOCK FALSE
