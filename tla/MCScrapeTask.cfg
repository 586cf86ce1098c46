SPECIFICATION Spec
CONSTANTS
  j1 = j1
  Jobs = {j1}
  Resends = {r1}
  ResendOf <- MCResendOf
  Ids = {e1, e2, e3}
  Versions = {v1}
  NoItem = NoItem
  BatchSize = 2
  MaxFaults = 1
INVARIANTS
  CompletedMeansStored
  
PROPERTIES
  EveryTaskEnds
CHECK_DEADLOCK FALSE
