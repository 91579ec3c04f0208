------------------------------- MODULE MainW --------------------------------
(***************************************************************************)
(* Qt1/mainw.cpp: the window on the board.  Qt runs one handler at a time, *)
(* so a handler is a step: a left click with the computer's answer when    *)
(* the "auto" box is checked, the start button, the "computer" button and  *)
(* the "calculate" button.                                                 *)
(*                                                                         *)
(* An assertion that fails ends the program, and so does the model after   *)
(* an access outside the array, whose outcome is undefined.                *)
(***************************************************************************)
EXTENDS Gboard

CONSTANTS
  Clicks,   \* bound: the cells the user clicks for each player
  Autos,    \* bound: what the "auto" box may say at a click
  MaxTaken  \* bound: marks on the board

\* A coordinate of a click: calc_cell lets the strip beyond the last cell
\* through, as cell N (xoscene.cpp:54).
calc_cell == 0 .. N

ASSUME ClicksAssumption == Clicks \in [Players -> SUBSET (calc_cell \X calc_cell)]
ASSUME BoundsAssumption == Autos \subseteq BOOLEAN /\ MaxTaken \in Nat

VARIABLES
  gboard,   \* the board
  pl_move,  \* who should move now
  failed,   \* the assertion that has failed, or "no"
  astray    \* history: how moves of this game left the board (Strays)

vars == <<gboard, pl_move, failed, astray>>

Init ==
  /\ gboard = init
  /\ pl_move = "X"
  /\ failed = "no"
  /\ astray = {}

Running == failed = "no" /\ "outside" \notin astray

RoomLeft == Cardinality({a \in Addresses : gboard.pl[a] # None}) < MaxTaken

-----------------------------------------------------------------------------

Other(who) == IF who = "X" THEN "O" ELSE "X"

\* What a call of set_move leads to.
Played(b, who, c) ==
  [board  |-> set_move(b, who, c),
   won    |-> SaysFour(b, who, c),
   failed |-> IF WinNotFound(b, who, c) /\ "outside" \notin Strays(b, who, c)
              THEN "fFound" ELSE "no",
   astray |-> Strays(b, who, c)]

\* The handler ends after this call, with this player to move.
Finish(r, who) ==
  /\ gboard' = r.board
  /\ failed' = r.failed
  /\ astray' = astray \cup r.astray
  /\ pl_move' = who

\* The handler ends after two calls, r and then q.
FinishBoth(r, q, turn) == Finish([q EXCEPT !.astray = @ \cup r.astray], turn[q.won])

\* The computer chooses a cell of board r.board and moves there.  turn[won] is
\* who moves next.
Computer(r, turn) ==
  LET cells == find_max_weights(r.board)
  IN  \/ cells = {} /\ Finish([r EXCEPT !.failed = "arr_length"], "O")
      \/ \E a \in cells : FinishBoth(r, Played(r.board, "O", CellOf(a)), turn)

\* After the user's move.  The winner stays the player to move (lines 58-62 and
\* 81-85).
Answer(r, auto) ==
  IF r.won \/ "outside" \in r.astray THEN Finish(r, pl_move)
  ELSE IF auto /\ pl_move = "X" THEN Computer(r, [won \in BOOLEAN |-> IF won THEN "O" ELSE "X"])
  ELSE Finish(r, Other(pl_move))

mouse_pressed(c, auto) ==
  /\ Running /\ RoomLeft
  /\ InArray(c) /\ gboard.pl[At(c)] = None
  /\ Answer(Played(gboard, pl_move, c), auto)

\* A click whose cell is not even in the array.
ClickOutside(c) ==
  /\ Running /\ ~InArray(c)
  /\ astray' = astray \cup {"outside"}
  /\ UNCHANGED <<gboard, pl_move, failed>>

on_startButton_pressed ==
  /\ Running
  /\ gboard' = init
  /\ pl_move' = "X"
  /\ astray' = {}
  /\ UNCHANGED failed

\* wite_move enables the button when O is to move.  What set_move returns is
\* ignored.
on_but_comp_pressed ==
  LET turn == [won \in BOOLEAN |-> "X"]
      r == [board |-> gboard, won |-> FALSE, failed |-> "no", astray |-> {}]
  IN  Running /\ RoomLeft /\ pl_move = "O" /\ Computer(r, turn)

on_but_calculate_pressed ==
  /\ Running
  /\ find_max_weights(gboard) = {}
  /\ failed' = "arr_length"
  /\ UNCHANGED <<gboard, pl_move, astray>>

Next ==
  \/ \E c \in Clicks[pl_move], auto \in Autos : mouse_pressed(c, auto)
  \/ \E c \in Clicks[pl_move] : ClickOutside(c)
  \/ on_startButton_pressed
  \/ on_but_comp_pressed
  \/ on_but_calculate_pressed

Spec == Init /\ [][Next]_vars

-----------------------------------------------------------------------------
\* Properties

Statuses4 == [1 .. 4 -> StatusCell]

\* The type invariant.  A cached weight is either reset or the weight of the
\* statuses cached with it, for the same player and cell (calc_one_cell_weight
\* fills both, lines 186 and 206).
TypeOK ==
  /\ gboard.pl \in [Addresses -> Players \cup {None}]
  /\ \A who \in Players, a \in Addresses :
       /\ gboard.stat[who][a] \in Statuses4
       /\ gboard.weight[who][a] \in {0, SumWeight(gboard.stat[who][a])}
  /\ {gboard.minPosX, gboard.minPosY} \subseteq 0 .. N - 1
  /\ {gboard.maxPosX, gboard.maxPosY} \subseteq 0 .. N
  /\ gboard.fgame_on \in BOOLEAN
  /\ pl_move \in Players
  /\ failed \in {"no", "fFound", "arr_length"}
  /\ astray \subseteq {"outside", "weight", "cell"}

\* What the rules say, without the weights: the lines of five cells.
Line(c, i) == {At(Step(c, dir_arr[i], k)) : k \in 0 .. 4}

Lines ==
  UNION {{Line(c, i) : c \in {e \in Board : Inside(Step(e, dir_arr[i], 4))}} : i \in 1 .. 4}

LinesAt == [a \in Addresses |-> {L \in Lines : a \in L}]

Five(pl, who) == \E L \in Lines : \A a \in L : pl[a] = who

\* The free cells where who would make five.
Fours(pl, who) ==
  {a \in Addresses : /\ pl[a] = None
                     /\ \E L \in LinesAt[a] : \A e \in L \ {a} : pl[e] = who}

\* How moves of the game may have left the board, so that the weights of who are
\* still right: the weights that stray are the opponent's.
Harmless(who) == IF who = the_player THEN {"weight"} ELSE {}

\* A cached weight reaches that of "4 in line. next will be winning move"
\* (calc_dir_weight, line 115) on exactly the cells where the next move wins,
\* although a move recalculates at most eight cells for each player.  For X this
\* needs that no weight was written across an edge.
FourFresh ==
  \A who \in Players :
    (gboard.fgame_on /\ astray \subseteq Harmless(who)) =>
      Fours(gboard.pl, who)
        = {a \in Addresses : gboard.pl[a] = None /\ gboard.weight[who][a] >= Weight.s4}

\* The game goes on until someone has five in a line, and ends with the move
\* that makes it (chek_win_situation reads only the cache): it does not go on
\* after a five of a player whose weights are right.
WinDetected ==
  /\ \A who \in Players :
       (gboard.fgame_on /\ astray \subseteq Harmless(who)) => ~Five(gboard.pl, who)
  /\ (~gboard.fgame_on /\ astray = {}) => \E who \in Players : Five(gboard.pl, who)

Added(who) == {a \in Addresses : gboard.pl[a] = None /\ gboard'.pl[a] = who}

\* When the computer moves, at once after X's click or by its button, it takes
\* a winning cell if it has one, and else a cell where X would win, if X has
\* one: find_max_weights ranks the two in this order and looks far enough.
PlaysFour ==
  [][(gboard.fgame_on /\ astray' \subseteq Harmless("O") /\ (pl_move = "X" \/ on_but_comp_pressed)) =>
       LET seen == [a \in Addresses |-> IF a \in Added("X") THEN "X" ELSE gboard.pl[a]]
       IN  \A a \in Added("O") :
             IF Fours(seen, "O") # {} THEN a \in Fours(seen, "O")
             ELSE astray' = {} /\ Fours(seen, "X") # {} => a \in Fours(seen, "X")]_vars

\* "assert(fFound)" (gboard.cpp:854): a cell cached as winning is found to be so.
FoundFive == failed # "fFound"

\* The same of the move that ends the game, if no move of the game strayed: then
\* no mark but this one is at the border, and chek_win_line's step across the
\* edge counts none.
FirstFiveFound ==
  [][gboard.fgame_on /\ astray' = {} => failed' # "fFound"]_vars

=============================================================================
