CONSTANTS
  Readers = {r1, r2}
  Drivers = {"compatibility", "nibble"}
  MaxWrites = 2
SPECIFICATION FairSpec
PROPERTIES
  ReadsRegular
  WriteReturns
\* A reader may wait for a strobe that never comes.
CHECK_DEADLOCK FALSE
