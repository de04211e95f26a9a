\* A worker that has passed the test of poll_thread_run pops and executes one more task.
CONSTANTS
  Users = {u1, u2}
  Queues = {q1, q2}
  Names = {n1}
  Tasks = {t1, t2}
  Nil = Nil
  Faults = {}
  HandlerCalls = {}
SPECIFICATION Spec
PROPERTY NeverProcessedUnreferenced
CHECK_DEADLOCK FALSE
