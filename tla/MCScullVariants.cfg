CONSTANTS
  Procs = {p1, p2}
  Drivers = {"completion", "ioctl", "ioctl-capability", "proc", "scratch_to_driver"}
  Devices = {1, 2}
  Admins = {}
  Sizes = {0, 2}
  device_size = 9
  Counts = {0, 3, 8, 9, 10}
  Offsets = {8}
  MaxLists = 2
  MaxDone = 1
  MaxEnd = 12
SPECIFICATION Spec
SYMMETRY Interchangeable
PROPERTIES
  SteadyCallsHold
  LoneCallsHold
INVARIANTS
  LocksReturned
  EndWithinList
CHECK_DEADLOCK FALSE
