SPECIFICATION ReplanSpec
CONSTANTS
  r1 = r1
  r2 = r2
  Regions <- MCRegions
  Base = Base
  Scripts <- MCScripts
  Faults = 1
  None = None
  CancelAction = CancelAction
INVARIANTS
  ReplanTypeOK
  Located
  CountsOpenGoals
  Replannable
  FreshPlan
  SprayedOnce
CHECK_DEADLOCK FALSE
