\* Liveness: no failure and handlers that push but leave the registry alone.
CONSTANTS
  Users = {u1, u2}
  Queues = {q1, q2}
  Names = {n1}
  Tasks = {t1, t2}
  Nil = Nil
  Faults = {}
  HandlerCalls = {"push"}
SPECIFICATION LiveSpec
INVARIANT
  SingletonPerName
PROPERTIES
  EveryTaskSettles
  DestroyReturns
CHECK_DEADLOCK FALSE
