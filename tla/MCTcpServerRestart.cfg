\* A server is stopped and started again with the same address.
CONSTANTS
  Addrs = {a1}
  Null = Null
  Clients = {c1}
  NumFds = 2
  Faults = {}
  MaxCalls = 3
SPECIFICATION Spec
INVARIANT StartedServes
CHECK_DEADLOCK FALSE
