SPECIFICATION Spec
CONSTANTS
  a = a
  b = b
  c = c
  Users = {a, b}
  None = None
  MaxPlayers = 3
  Requests = {r1}
  Disconnected = 2
  Removable = 2
  CloseAfter = 3
  Cadence = 1
  Latency = 1
  Scenarios <- Refusals
CHECK_DEADLOCK FALSE
PROPERTIES
  ClosesAfterFullGrace
