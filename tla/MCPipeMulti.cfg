CONSTANTS
  Writers = {w1, w2}
  Readers = {r1}
  max_pipe_size = 3
  Counts = {2, 3}
  MaxWritten = 6
  MaxSignals = 1
  MaxFaults = 1
SPECIFICATION Spec
SYMMETRY Interchangeable
INVARIANTS
  CountInBounds
  ReadsStayInRing
  RingIsQueue
  SleepingReaderWillBeWoken
CHECK_DEADLOCK FALSE
