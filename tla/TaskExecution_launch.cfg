SPECIFICATION Spec
CONSTANTS
  t1 = t1  t2 = t2  r1 = r1  r2 = r2  r3 = r3  c1 = c1  c2 = c2
  s1 = s1  s2 = s2
  NoRun = NoRun
  Task = {t1, t2}
  Run = {r1, r2, r3}
  Client = {c1}
  Strategy = {s1}
  Kind <- Mixed
  StrategyOf <- OneStrategy
  Ops <- Relauncher
  Faults = {"handler","observer"}
  MaxWorkers = 2
  MaxTicks = 0
  MaxState = 1
  MaxStarts = 2
INVARIANTS
  SoloStrategy
  FinishObserved
PROPERTIES
  LifecycleRefined
SYMMETRY Symmetry
CHECK_DEADLOCK FALSE
