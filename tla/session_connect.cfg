SPECIFICATION FairSpec
CONSTANTS
  Byte = 2
  Seeds <- FewSeeds
  Sizes = {0, 1, 2}
  MaxPayload = 4
  MaxSends = 1
  EarlySend = TRUE
PROPERTIES
  FailedConnectNoticed
\* The connection may end, or nobody may use it.
CHECK_DEADLOCK FALSE
