SPECIFICATION Spec
CONSTANTS
  j1 = j1
  Jobs = {j1}
  Resends = {}
  ResendOf <- MCResendOf
  Ids = {e1, e2}
  Versions = {v1, v2}
  NoItem = NoItem
  BatchSize = 1
  MaxFaults = 1
PROPERTIES
  QueuedJobSettles
CHECK_DEADLOCK FALSE
