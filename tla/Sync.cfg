SPECIFICATION FairSpec
CONSTANTS
  Scenarios <- Connections
  MaxRate = 1
  MaxSockets = 1
  Page = 1
CHECK_DEADLOCK FALSE
INVARIANTS
  TypeOK
  ActivityIsComplete
  LiveMeansInformed
PROPERTIES
  NothingIsTakenBack
  TheTableIsShown
