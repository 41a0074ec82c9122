CONSTANTS
  r1 = r1
  r2 = r2
  r3 = r3
  r4 = r4
  r5 = r5
  w1 = w1
  w2 = w2
  Thread <- ThreeAndTwo
  UsizeMax = 127
  DebugAssertions = TRUE
  Patient <- Steadfast
  Calls <- OneSide
SPECIFICATION FairSpec
PROPERTIES
  ReservedAcquires
  QueuedAcquires
  SomeoneAcquires
