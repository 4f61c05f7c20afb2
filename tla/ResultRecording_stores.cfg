SPECIFICATION Spec
CONSTANTS
  t1 = t1  a = a  b = b  k1 = k1
  x1 = x1  o2 = o2
  None = None
  Task = {t1}
  Trade = {a, b}
  Cycle = {k1}
  Event = {x1, o2}
  TaskOf <- OneTask
  CycleOf <- OneCycle
  TradeOf <- Of
  Action <- Does
  Stores <- CsvSql
  FlushEvery = 2
  Interval = 2
  Cleanup = TRUE
  Rewinds = {t1}
  MaxRuns = 2
  MaxTime = 2
INVARIANTS
  TypeOK
  StoresFollow
  BacklogCounted
  MetricsSpaced
  FinishedStored
  FillsCounted
CHECK_DEADLOCK FALSE
