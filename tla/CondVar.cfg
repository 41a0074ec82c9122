CONSTANTS
  Align = 4
  Thread <- Nodes
SPECIFICATION FairSpec
INVARIANTS
  NodesAlive
  WaitersInOneList
  ReadyIsUnparked
  StateIsHolders
  NobodySleepsInVain
PROPERTIES
  ImplementsRwLock
  StrandedByReaders
  MutexProgress
  WokenByUnlock
  TurnsGoRound
