\* Three users, one name that is created twice, two tasks, handlers that push and
\* that use the registry, and every failure.
CONSTANTS
  Users = {u1, u2, u3}
  Queues = {q1, q2}
  Names = {n1}
  Tasks = {t1, t2}
  Nil = Nil
  Faults = {"stats", "thread", "link", "relink"}
  HandlerCalls = {"push", "registry"}
SPECIFICATION Spec
SYMMETRY Symmetry
INVARIANTS
  TypeOK
  ReferencesCounted
  FreedIsUnreachable
  NoLostWakeup
  DepthStillHolds
  TasksInOrder
PROPERTIES
  KeepsPromise
  PurgedOnlyUnreferenced
CHECK_DEADLOCK FALSE
