CONSTANTS
  a = a
  b = b
  c = c
  d = d
  Value <- FourValues
  Nothing = Nothing
SYMMETRY AnyValue
SPECIFICATION RecvSpec
INVARIANTS
  RecvGetsValue
