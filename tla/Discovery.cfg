CONSTANTS
  Users = {u1, u2, u3}
  Tables = {t1, t2}
  Requests = {r1, r2}
  Capacity = 2
  Attempts = 2
  Selections = 2
  MaxVersion = 4
  Scenarios <- Mixtures
SPECIFICATION Spec
SYMMETRY Alike
CHECK_DEADLOCK FALSE
INVARIANTS TypeOK ListingIsHonest OneEffectPerCommand PendingInvitationsAreCurrent
PROPERTIES NoBlockedPairMeets AcceptedAlone
