SPECIFICATION ReviewSpec
CONSTANTS
  Posts = {p1, p2}
  Admins = {ann, bob, cyd}
  Nobody = Nobody
  Limit = 1
INVARIANTS
  PromotedOnce
  ReviewerIsDecider
PROPERTIES
  EveryReviewEnds
CHECK_DEADLOCK FALSE
