SPECIFICATION Spec
CONSTANTS
  Clients = {c1, c2, c3}
  NoClient = NoClient
  GameIDs = {1, 2}
  NoGame = NoGame
  MaxKeys = 3
  RandMayCollide = TRUE
SYMMETRY ClientSymmetry
PROPERTIES
  ActiveGameKept
\* The clients may stop pressing keys for ever.
CHECK_DEADLOCK FALSE
