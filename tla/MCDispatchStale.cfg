SPECIFICATION TwiceSpec
CONSTANTS
  goto = goto
  image = image
  t1 = t1
  t2 = t2
  ActionIds <- MCActionIds
  Plans <- SinglePlan
  MaxRuns = 2
  NoJob = NoJob
  Interfaces <- OneNode
  Threads <- TwoThreads
  CancelAction = CancelAction
  MaxQueue = 2
  Names <- SingleNames
INVARIANT CompletedInThisDispatch
CHECK_DEADLOCK FALSE
