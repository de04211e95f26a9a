\* Two addresses, two connections, three numbers, every failure.
CONSTANTS
  Addrs = {a1, a2}
  Null = Null
  Clients = {c1, c2}
  NumFds = 3
  Faults = {"socket", "listen", "session", "stream"}
  MaxCalls = 3
SPECIFICATION LiveSpec
INVARIANTS
  OwnFilesOnly
  ConnectionsHeld
PROPERTIES
  CallsReturn
  QueueServed
CHECK_DEADLOCK FALSE
