SPECIFICATION Spec
CONSTANTS
  N = 6
  val_arr_size = 1
  Clicks <- FirstFour
  Autos = {FALSE}
  MaxTaken = 9
INVARIANT
  FoundFive
CHECK_DEADLOCK FALSE
