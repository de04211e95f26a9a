\* obj_link as its comment describes it, without a lock of its caller's.
CONSTANTS
  o1 = o1
  o2 = o2
  Threads = {a, b}
  Walkers = {a}
  Objects = {o1, o2}
  N = 1
  Hash <- HashSame
  CallerLocks = FALSE
  Nil = Nil
  Matches = {}
  MaxVersion = 6
SPECIFICATION Spec
SYMMETRY Symmetry
INVARIANT NoneMissed
CHECK_DEADLOCK FALSE
