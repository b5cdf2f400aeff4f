CONSTANTS
  Programs = {p1, p2, p3}
  NoProgram = NoProgram
  Sectors = {s1}
  Contents = {blank, text}
  Zero = blank
SPECIFICATION FairSpec
INVARIANTS
  SanityCheckHolds
  HandlerNeverSpins
  TimerOnlyWhenClosed
  NoHandlerWithoutModule
PROPERTIES
  BlankIffLapsed
  OpenReturns
  IdleDiskForgets
