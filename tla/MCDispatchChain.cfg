SPECIFICATION ChainSpec
CONSTANTS
  goto = goto
  image = image
  t1 = t1
  t2 = t2
  ActionIds <- MCActionIds
  Plans <- ChainPlan
  MaxRuns = 1
  NoJob = NoJob
  Interfaces <- TwoNodes
  Threads <- OneThread
  CancelAction = CancelAction
  MaxQueue = 2
  Names <- ChainNames
INVARIANTS
  PerformedInOrder
CHECK_DEADLOCK FALSE
