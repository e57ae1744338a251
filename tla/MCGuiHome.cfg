SPECIFICATION Spec
CONSTANTS
  Slots = {c1, c2, c3}
  MaxActions = 4
  MaxSteps = 2
SYMMETRY Symmetry
INVARIANTS ShownIsCurrent IdleWindow
CHECK_DEADLOCK FALSE
