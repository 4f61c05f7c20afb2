SPECIFICATION Spec
CONSTANTS
  t1 = t1  t2 = t2  q1 = q1  q2 = q2  q3 = q3  a1 = a1
  Task = {t1}
  Kind <- Trading
  Request = {q1, q2, a1}
  TaskOf <- First
  Broker = {q1, a1}
  AppRequest = {a1}
  MaxBatch = 2
  Faults = {"handler", "callback", "observer"}
INVARIANTS
  TypeOK
PROPERTIES
  Expires
  OutcomeRefined
CHECK_DEADLOCK FALSE
