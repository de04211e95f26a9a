\* A handler asks the registry for a queue while its own queue is being destroyed.
CONSTANTS
  Users = {u1, u2}
  Queues = {q1, q2}
  Names = {n1}
  Tasks = {t1, t2}
  Nil = Nil
  Faults = {}
  HandlerCalls = {"registry"}
SPECIFICATION LiveSpec
PROPERTY DestroyReturns
CHECK_DEADLOCK FALSE
