SPECIFICATION FairSpec
CONSTANTS
  ActionIds <- MCActionIds
  Plans <- MCPlans
  MaxRuns = 2
  NoJob = NoJob
INVARIANTS
  TypeOK
  PrecedenceRespected
  SuccessIsComplete
  PlanStableInLoop
PROPERTIES
  NoDispatchAfterStop
  CancelHonoured
  ImplementsContract
CHECK_DEADLOCK FALSE
