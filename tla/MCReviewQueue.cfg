SPECIFICATION Spec
CONSTANTS
  Items = {i1, i2}
  Admins = {ann, bob}
  Nobody = Nobody
  PatchStatuses = {"archived"}
INVARIANTS
  QueuedIsPending
  DecidedIsComplete
PROPERTIES
  EveryDecisionEnds
CHECK_DEADLOCK FALSE
