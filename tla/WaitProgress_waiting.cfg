SPECIFICATION FairSpec
CONSTANTS
  None = None
  Totals <- Periods
  Clocks <- Times
  Timeouts <- Deadlines
  Refreshes = {0, 2}
  MaxWaits = 2
INVARIANTS
  TypeOK
  EndToldOnce
  AnswersTruly
PROPERTIES
  BarMovesForward
  WaitEnds
CHECK_DEADLOCK FALSE
