CONSTANTS
  r1 = r1
  r2 = r2
  r3 = r3
  r4 = r4
  r5 = r5
  w1 = w1
  w2 = w2
  Thread <- Five
  UsizeMax = 95
  DebugAssertions = TRUE
  Patient = {}
  Calls <- AnyCall
SYMMETRY AnyOrder
SPECIFICATION Spec
INVARIANTS
  MutualExclusion
  LockWord
  OneWriterInQueue
  HintsSound
  SharedBound
  NoOvertaking
PROPERTIES
  ReservedGoFirst
  ImplementsRwLock
CHECK_DEADLOCK FALSE
