SPECIFICATION BridgeSpec
CONSTANTS
  Procs = {p1, p2}
  Containers = {c1, c2}
  Six = {c1}
  Wired = {e1, e2}
  Wireless = {w1}
  LastHost = 5
  HostAddr = 1
  Gateway = 5
  Leases = {3, 4}
  Overrides = {None, 3}
  MaxFaults = 1
  MaxMoves = 1
  None = None
  Managed = Managed
INVARIANTS Reachable NoFlux
PROPERTIES RollbackRestores
SYMMETRY WiredSymmetry
CHECK_DEADLOCK FALSE
