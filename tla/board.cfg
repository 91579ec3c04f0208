SPECIFICATION Spec
CONSTANTS
  N = 7
  val_arr_size = 1
  Clicks <- TwoRows
  Autos = {TRUE, FALSE}
  MaxTaken = 9
INVARIANTS
  TypeOK
  FourFresh
  WinDetected
PROPERTIES
  PlaysFour
  FirstFiveFound
\* The program ends when an assertion fails.
CHECK_DEADLOCK FALSE
