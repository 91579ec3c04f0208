SPECIFICATION FairSpec
CONSTANTS
  Byte = 2
  Seeds <- FewSeeds
  Sizes = {0, 3}
  MaxPayload = 4
  MaxSends = 2
  EarlySend = FALSE
INVARIANTS
  TypeOK
  Deciphered
  CountersInStep
  OneWriter
  Framed
PROPERTIES
  Implements
  Delivered
\* The connection may end, or nobody may use it.
CHECK_DEADLOCK FALSE
