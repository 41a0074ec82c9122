CONSTANTS
  u = u
  w = w
  t1 = t1
  t2 = t2
  t3 = t3
  Value <- TwoValues
  None = None
  Thread <- Three
  MIN_NON_ZERO_CAP = 1
  MaxCap = 3
SYMMETRY AnyOf
SPECIFICATION Spec
INVARIANTS
  SlotsExclusive
  NothingLost
PROPERTIES
  ImplementsFifo
