SPECIFICATION FairSpec
CONSTANTS
  c1 = c1
  c2 = c2
  v1 = v1
  v2 = v2
  u1 = u1
  Callers = {c1, c2}
  Supervisors = {s1, s2, s3}
  NumFiles = 1
  Executable <- Two
  MaxFaults = 1
  None = None
INVARIANTS RunsComplete OneDaemon LeavesNothing NewestRuns
PROPERTIES CallsEnd StopEnds Recovers
CHECK_DEADLOCK FALSE
