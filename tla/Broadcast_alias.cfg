CONSTANTS
  r1 = r1
  r2 = r2
  Receiver <- Two
  MaxSends = 3
SPECIFICATION Spec
INVARIANTS
  SenderAlone
