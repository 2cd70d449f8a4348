SPECIFICATION Spec
CONSTANTS
  a = a
  b = b
  Users = {a, b}
  Readers = {a}
  Requests = {r1, r2}
  Retention = 3
  Cooldown = 1
  Window = 1
  Scenarios <- Talks
  Latency = 1
CHECK_DEADLOCK FALSE
PROPERTIES
  PagesAreShown
