CONSTANTS
  Writers = {w1}
  Readers = {r1}
  Drivers = {"interrupt"}
  MaxCalls = 1
  MaxLists = 1
  MaxForeign = 0
  MaxSignals = 0
  MaxFailures = 0
SPECIFICATION FairSpec
PROPERTY ByteWakesReader
CHECK_DEADLOCK FALSE
