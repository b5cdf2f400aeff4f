CONSTANTS
  Writers = {w1}
  Readers = {r1, r2}
  MaxSignals = 1
  Drivers = {"scull", "blocking"}
  quantum_size = 2
  qset_size = 2
  device_size = 6
  Counts = {0, 3, 5, 7}
  Offsets = {4}
  MaxLists = 2
SPECIFICATION Spec
SYMMETRY Interchangeable
INVARIANTS
  TypeOK
  SemExclusive
  CopiesLiveList
  CopiesAllocated
  ReadsOwnPosition
  MovesWhatWasAsked
  LeaksOnlyReplaced
  SleepingReaderWillBeWoken
\* A process may die inside the lock.
CHECK_DEADLOCK FALSE
