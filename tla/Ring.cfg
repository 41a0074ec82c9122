CONSTANTS
  u = u
  w = w
  Value <- TwoValues
  None = None
  MIN_NON_ZERO_CAP = 1
  MaxCap = 6
SYMMETRY AnyValue
SPECIFICATION Spec
INVARIANTS
  TypeOK
  WindowLive
  IterUnwrapped
PROPERTIES
  ImplementsFifo
  IterDisjoint
