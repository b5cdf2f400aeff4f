CONSTANTS
  Writers = {w1, w2}
  Readers = {r1, r2}
  Drivers = {"null", "handshake", "interrupt"}
  MaxCalls = 2
  MaxLists = 2
  MaxForeign = 1
  MaxSignals = 1
  MaxFailures = 1
SPECIFICATION Spec
SYMMETRY Interchangeable
INVARIANTS
  WritesWaitForTheWire
  TaskletFindsStorage
\* A writer waits for a reader that never comes, a reader for a byte.
CHECK_DEADLOCK FALSE
