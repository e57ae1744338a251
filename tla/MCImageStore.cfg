SPECIFICATION Spec
CONSTANTS
  p1 = p1
  p2 = p2
  p3 = p3
  r1 = r1
  i1 = i1
  i2 = i2
  i3 = i3
  i4 = i4
  a1 = a1
  a2 = a2
  Aliases = {a1, a2}
  Images = {i1, i2, i3, i4}
  Publishers = {p1, p2, p3}
  Removers = {r1}
  Runners = {r1}
  Unreliable = {p3, r1}
  NoImage = NoImage
INVARIANTS NoOrphans
PROPERTY AliasSurvives
SYMMETRY StoreSymmetry
CHECK_DEADLOCK FALSE
