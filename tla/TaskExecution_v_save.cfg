SPECIFICATION Spec
CONSTANTS
  t1 = t1  t2 = t2  r1 = r1  r2 = r2  r3 = r3  c1 = c1  c2 = c2
  s1 = s1  s2 = s2
  NoRun = NoRun
  Task = {t1}
  Run = {r1, r2}
  Client = {c1, c2}
  Strategy = {s1}
  Kind <- Backtest
  StrategyOf <- OneStrategy
  Ops <- LaunchAndStop
  Faults = {}
  MaxWorkers = 1
  MaxTicks = 1
  MaxState = 2
  MaxStarts = 2
PROPERTIES
  SavesOnlyState
CHECK_DEADLOCK FALSE
