SPECIFICATION Spec
CONSTANTS
  j1 = j1
  j2 = j2
  s1 = s1
  s2 = s2
  Jobs = {j1, j2}
  Pollers = {p1, p2}
  NoJob = NoJob
  Nobody = Nobody
  Sites <- MCSites
  SiteOf <- MCSiteOf
  Priorities <- MCPriorities
  MaxRetries = 2
  MaxCrashes = 1
  MaxReports = 2
INVARIANTS
  OneWorkerPerJob
  AttemptsBounded
PROPERTIES
  ClaimIsAtomic
CHECK_DEADLOCK FALSE
