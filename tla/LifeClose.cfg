SPECIFICATION FairSpec
CONSTANTS
  a = a
  b = b
  c = c
  Users = {a}
  None = None
  MaxPlayers = 3
  Requests = {r1, r2}
  Disconnected = 2
  Removable = 2
  CloseAfter = 2
  Cadence = 1
  Latency = 1
  Scenarios <- Lone
CHECK_DEADLOCK FALSE
PROPERTIES
  UnattendedLobbyCloses
