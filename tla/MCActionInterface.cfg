SPECIFICATION HistorySpec
CONSTANTS
  goto = goto
  image = image
  c1 = c1
  c2 = c2
  c3 = c3
  t1 = t1
  t2 = t2
  t3 = t3
  Interfaces <- MCInterfaces
  Calls <- MCCalls
  NameOf <- MCNameOf
  Threads <- MCThreads
  CancelAction = CancelAction
  MaxQueue = 3
INVARIANTS
  InterfaceTypeOK
  TruthfulAlone
  QuietWhenCut
CHECK_DEADLOCK FALSE
SYMMETRY Alike
