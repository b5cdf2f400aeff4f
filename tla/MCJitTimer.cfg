CONSTANTS
  Programs = {p1, p2}
  Rooms = {1, 2, 3}
  MaxShows = 2
  MaxSignals = 1
SPECIFICATION FairSpec
INVARIANTS
  CommitsWhole
  HandlerFindsStruct
PROPERTY WaitEnds
\* A program without room for the handler's lines sleeps until a signal.
CHECK_DEADLOCK FALSE
