SPECIFICATION FairSpec
CONSTANTS
  Producers = {p1, p2}
  Main = main
  NoThread = NoThread
  NoMessage = NoMessage
  MaxSent = 3
INVARIANTS
  TypeOK
  DequeRaceFree
  NeverPopsEmpty
PROPERTIES
  Implements
  LaterPushFlushes
