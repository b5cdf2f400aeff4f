CONSTANTS
  Writers = {w1}
  Readers = {r1}
  Drivers = {"interrupt"}
  MaxCalls = 1
  MaxLists = 2
  MaxForeign = 0
  MaxSignals = 0
  MaxFailures = 0
SPECIFICATION Spec
PROPERTY ClosedOpensAgain
CHECK_DEADLOCK FALSE
