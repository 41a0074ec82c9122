CONSTANTS
  r1 = r1
  r2 = r2
  Receiver <- Two
  MaxSends = 4
SYMMETRY AnyReceiver
SPECIFICATION Spec
INVARIANTS
  AssertHolds
  LastReachable
PROPERTIES
  IndexStable
