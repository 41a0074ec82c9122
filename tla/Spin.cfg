CONSTANTS
  t1 = t1
  t2 = t2
  t3 = t3
  t4 = t4
  Thread <- Four
SPECIFICATION FairSpec
INVARIANTS
  FlagIsHolder
PROPERTIES
  ImplementsLock
  SomeoneAcquires
