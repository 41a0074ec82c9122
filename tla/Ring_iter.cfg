CONSTANTS
  u = u
  w = w
  Value <- TwoValues
  None = None
  MIN_NON_ZERO_CAP = 1
  MaxCap = 3
SYMMETRY AnyValue
SPECIFICATION Spec
INVARIANTS
  IterComplete
