SPECIFICATION FlightSpec
CONSTANTS
  goto = goto
  region = region
  base = base
  c1 = c1
  c2 = c2
  c3 = c3
  c4 = c4
  Nodes <- MCNodes
  Calls <- MCCalls
  NodeOf <- MCNodeOf
  KindOf <- MCKindOf
  SizeOf <- MCSizeOf
  Plans <- MCPlans
  NoCall = NoCall
INVARIANTS
  FlightTypeOK
  FlownToTheEnd
  GroundedWork
  MissionAttended
PROPERTIES
  CallsReturn
CHECK_DEADLOCK FALSE
