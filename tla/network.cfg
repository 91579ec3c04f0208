SPECIFICATION FairSpec
CONSTANTS
  Clients = {c1, c2}
  NoConnection = NoConnection
  MaxBroadcasts = 1
INVARIANTS
  TypeOK
  Registered
  NoHandlerAfterExit
  TerminatesWithServerOnly
PROPERTIES
  ExitCompletes
  ServerNotices
  ClientNotices
  BroadcastTidies
\* The programs may end.
CHECK_DEADLOCK FALSE
