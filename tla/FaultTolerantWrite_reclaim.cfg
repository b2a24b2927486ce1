CONSTANTS
  a = a
  b = b
  Targets = {"nv"}
  Values = {a, b}
  Platforms <- FullQueue
SPECIFICATION Spec
SYMMETRY Symmetry
CHECK_DEADLOCK FALSE
INVARIANTS SettledWhenIdle
