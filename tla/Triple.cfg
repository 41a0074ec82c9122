CONSTANTS
  a = a
  b = b
  c = c
  d = d
  Value <- FourValues
  Nothing = Nothing
SYMMETRY AnyValue
SPECIFICATION Spec
INVARIANTS
  IndicesDistinct
  NoRace
  LastConsumedTrue
PROPERTIES
  PendingUntilConsumed
  ImplementsMailbox
