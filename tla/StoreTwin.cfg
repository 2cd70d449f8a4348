SPECIFICATION Spec
CONSTANTS
  a = a
  b = b
  c = c
  Users = {a, b, c}
  None = None
  MaxPlayers = 3
  Requests = {r1, r2}
  MaxCommands = 4
  Remembered = 64
  JoinAttempts = 2
  Scenarios <- Twins
SYMMETRY Symmetry
CHECK_DEADLOCK FALSE
INVARIANTS
  MembersMatchSnapshot
