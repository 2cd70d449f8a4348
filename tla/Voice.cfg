SPECIFICATION Spec
CONSTANTS
  a = a
  b = b
  s1 = s1
  s2 = s2
  Users = {a, b}
  Sweepers = {s1, s2}
  Speakers = {a}
  MaxTries = 1
  Buffer = 2
  Barrier = 3
  Retention = 4
  Latency = 1
  Evenings <- Week
SYMMETRY Sweeping
CHECK_DEADLOCK FALSE
INVARIANTS
  RevocationIsOwed
  BarrierCoversCutoff
PROPERTIES
  JobsStandTheirTime
