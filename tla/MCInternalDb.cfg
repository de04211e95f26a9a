\* Two families of one key, two runs of the program, every failure.
CONSTANTS
  Families = {f1, f2}
  Keys = {k1}
  Values = {v1}
  Nil = Nil
  Faults = {"open", "thread", "statement", "commit", "crash"}
  MaxWrites = 3
  MaxStarts = 2
SPECIFICATION LiveSpec
INVARIANTS
  FileIsPrefix
  InStep
PROPERTIES
  CommittedStays
  NothingForgotten
CHECK_DEADLOCK FALSE
