SPECIFICATION FairSpec
CONSTANTS
  Clients = {c1, c2}
  NoClient = NoClient
  GameIDs = {1, 2}
  NoGame = NoGame
  MaxKeys = 3
  RandMayCollide = FALSE
INVARIANTS
  HasItsGame
  ClientKnowsItself
  FirstMoveAgreed
PROPERTIES
  StatusNeverFallsBack
  PlayersLearn
\* The clients may stop pressing keys for ever.
CHECK_DEADLOCK FALSE
