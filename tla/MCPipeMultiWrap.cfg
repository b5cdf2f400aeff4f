CONSTANTS
  Writers = {w1}
  Readers = {r1}
  max_pipe_size = 3
  Counts = {2, 3}
  MaxWritten = 6
  MaxSignals = 0
  MaxFaults = 0
SPECIFICATION Spec
INVARIANT WritePointerInRing
CHECK_DEADLOCK FALSE
