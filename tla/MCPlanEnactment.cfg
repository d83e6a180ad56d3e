SPECIFICATION Spec
CONSTANTS
  ActionIds = {0, 1, 2}
  Atoms <- MCAtoms
  Operators <- MCOperators
  Schema <- MCSchema
  Outputs <- MCOutputs
  Tils <- MCTils
  Worlds <- MCWorlds
  MaxPlans = 2
CHECK_DEADLOCK FALSE
INVARIANTS
  EnactmentTypeOK
  ConditionsHold
  SameOutcome
PROPERTIES
  PublishedWellFormed
