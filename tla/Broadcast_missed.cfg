CONSTANTS
  r1 = r1
  r2 = r2
  Receiver <- One
  MaxSends = 3
SPECIFICATION Spec
PROPERTIES
  NothingMissed
