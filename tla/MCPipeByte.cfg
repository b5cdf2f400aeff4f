CONSTANTS
  Writers = {w1, w2}
  Readers = {r1, r2}
  max_pipe_size = 3
  MaxWritten = 4
  MaxSignals = 1
SPECIFICATION Spec
SYMMETRY Interchangeable
PROPERTIES
  ImplementsPipe
INVARIANTS
  TypeOK
  SemExclusive
  PointersInRing
  RingHoldsUnread
  OverrunBound
  UnderrunBound
  NoLostWakeup
\* Every process may be blocked: readers on an empty pipe, writers on a full
\* sample, and the bounds stop new calls.
CHECK_DEADLOCK FALSE
