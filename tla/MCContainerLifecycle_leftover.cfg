SPECIFICATION Spec
CONSTANTS
  p1 = p1
  p2 = p2
  p3 = p3
  n1 = n1
  n2 = n2
  x1 = x1
  x2 = x2
  Actors = {p1, p2, p3}
  Names = {n1, n2}
  Addrs = {x1, x2}
  Bridged = {n1}
  Regimes <- HardBoot
  MaxCalls = 2
  NoAddr = NoAddr
  NoName = NoName
  Absent = Absent
INVARIANT FailedRunLeavesNothing
CHECK_DEADLOCK FALSE
