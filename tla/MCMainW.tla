------------------------------ MODULE MCMainW -------------------------------
(* Cells to click for the model checker. *)
EXTENDS MainW

\* On a board of 7: X clicks a row that ends next to two edges and a cell apart
\* from it; O clicks two cells of another row, so that its third mark at the
\* latest is the computer's, and the strip below the board.
TwoRows ==
  [who \in Players |-> IF who = "X" THEN {<<3, y>> : y \in 1 .. 5} \cup {<<1, 2>>}
                                    ELSE {<<5, 2>>, <<5, 3>>, <<7, 3>>}]

\* On a board of 6: X clicks the first four cells of a row and the last cell of
\* the row before it.
FirstFour ==
  [who \in Players |-> IF who = "X" THEN {<<3, y>> : y \in 0 .. 3} \cup {<<2, 5>>}
                                    ELSE {<<4, 2>>, <<4, 4>>, <<1, 2>>, <<1, 4>>}]

=============================================================================
