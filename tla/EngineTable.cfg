SPECIFICATION Spec
CONSTANTS
  Users = {a, b, c}
  Cards <- TableCards
  Face <- TableDeck
  Colors <- MCColors
  MaxPlayers = 3
  HandSize = 2
  MercyLimit = 4
  Hands <- TableHands
  FlippedCards <- TableFlipped
  MaxTurns = 4
  None = None
SYMMETRY Symmetry
CHECK_DEADLOCK FALSE
INVARIANTS
  TypeOK
  GameInvariants
  TurnStateConsistent
  InductiveInvariant
  NobodyPlaysEmptyHanded
  UnoLiabilityIsOneCard
  TurnHolderCanMove
  WinnerJustified
PROPERTIES
  PenaltyOnlyGrows
  ImplementsRoster
