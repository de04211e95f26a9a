\* spd_db_gettree of a family without a key.
CONSTANTS
  Families = {f1, f2}
  Keys = {k1}
  Values = {v1}
  Nil = Nil
  Faults = {}
  MaxWrites = 2
  MaxStarts = 1
SPECIFICATION Spec
INVARIANT TreeIsFamily
CHECK_DEADLOCK FALSE
