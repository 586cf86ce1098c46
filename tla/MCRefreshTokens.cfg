SPECIFICATION Spec
CONSTANTS
  Browsers = {phone, laptop}
  NoBrowser = NoBrowser
  Requests = {r1, r2}
  MaxTokens = 3
SYMMETRY MCSymmetry
INVARIANTS
  TypeOK
  RevokedStaysRevoked
  ParentRetired
  BurnNeedsReplay
CHECK_DEADLOCK FALSE
