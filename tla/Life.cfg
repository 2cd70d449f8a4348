SPECIFICATION Spec
CONSTANTS
  a = a
  b = b
  c = c
  Users = {a, b, c}
  None = None
  MaxPlayers = 3
  Requests = {r1, r2}
  Disconnected = 2
  Removable = 2
  CloseAfter = 1
  Cadence = 1
  Latency = 1
  Scenarios <- Rooms
CHECK_DEADLOCK FALSE
SYMMETRY Symmetry
INVARIANTS
  TypeOK
  RecoveryIsOfferedToOne
PROPERTIES
  NobodyIsLockedOut
  HostIsClaimedInTurn
  NobodyIsRemovedInTouch
