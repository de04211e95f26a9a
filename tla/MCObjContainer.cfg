\* Two threads and two objects in two buckets, each linked any number of
\* times; callers lock the container around obj_link, as taskqueue.c does.
CONSTANTS
  o1 = o1
  o2 = o2
  Threads = {a, b}
  Walkers = {a}
  Objects = {o1, o2}
  N = 2
  Hash <- HashApart
  CallerLocks = TRUE
  Nil = Nil
  Matches = {{o1, o2}, {o1}}
  MaxVersion = 6
SPECIFICATION Spec
SYMMETRY Symmetry
INVARIANTS
  ReferencesExact
  NothingFreedReachable
  EachOnce
CHECK_DEADLOCK FALSE
