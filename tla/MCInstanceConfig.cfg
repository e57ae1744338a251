SPECIFICATION Spec
CONSTANTS
  Actors = {p1, p2}
  Names = {c1, c2}
  HostPorts = {h1, h2}
  ContainerPorts = {x1, x2}
  MountKeys <- MCMountKeys
  Taken <- MCTaken
  Inherited <- MCInherited
  Addrs = {a1, a2}
  MACs = {m1, m2, m3}
  Regimes <- MCRegimes
  MaxCalls = 4
  MaxFaults = 1
  None = None
  c1 = c1
  c2 = c2
  h1 = h1
  h2 = h2
  x1 = x1
  x2 = x2
  a1 = a1
  a2 = a2
  m1 = m1
  m2 = m2
  m3 = m3
  src1 = src1
  src2 = src2
  dst1 = dst1
  dst2 = dst2
  dst3 = dst3
SYMMETRY Alike
CHECK_DEADLOCK FALSE
INVARIANTS
  PortsCurrent
  OneMountPerTarget
  UniqueMAC
  RunsPrepared
  ImportOwn
PROPERTIES
  ImplementsInstanceMap
  OperatorSubnetKept
