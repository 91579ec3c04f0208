------------------------------- MODULE Gboard -------------------------------
(***************************************************************************)
(* Qt1/gboard.cpp: the board of five-in-a-row, the weights it caches for   *)
(* the empty cells, the test for a win that reads that cache, and the      *)
(* computer's choice of a cell.  Operators only: module MainW has the      *)
(* state and the steps.                                                    *)
(*                                                                         *)
(* A board is a record: pl, what each cell holds; weight and stat, the     *)
(* cached weight and the four cached statuses of a cell for each player;   *)
(* the corners of the area that has been played in; fgame_on.  win_info is *)
(* left out: it only places the line that is drawn.                        *)
(*                                                                         *)
(* The C++ array board.cell[x][y] is indexed by its ADDRESS x * N + y, and *)
(* the code does step over the edge of a row (lines 202 and 453): [x][-1]  *)
(* is then the last cell of row x - 1.                                     *)
(***************************************************************************)
EXTENDS Integers, Sequences, FiniteSets

CONSTANTS N,            \* board_size, 21 in the program
          val_arr_size  \* size of the MaxValue arrays, 16 in the program

ASSUME SizesAssumption == N \in Nat /\ N > 5 /\ val_arr_size \in Nat \ {0}

Players == {"O", "X"}
None == "None"

the_player   == "O"   \* set_player(Player::O) is the only call
the_opponent == "X"

Addresses == 0 .. N * N - 1

At(c) == c[1] * N + c[2]

\* The cell of an address.
CellOf(a) == <<a \div N, a % N>>

chk_boundaries(pos) == pos \in 0 .. N - 1

Inside(c) == chk_boundaries(c[1]) /\ chk_boundaries(c[2])

InArray(c) == At(c) \in Addresses

\* The cells of the board, and the pairs of indices up to 5 off it that are in
\* the array.
Board  == (0 .. N - 1) \X (0 .. N - 1)
Memory == {c \in (-5 .. N + 4) \X (-5 .. N + 4) : InArray(c)}

Step(c, d, k) == <<c[1] + k * d[1], c[2] + k * d[2]>>

Back(d) == <<-d[1], -d[2]>>

dir_arr == << <<0, 1>>, <<1, 1>>, <<1, 0>>, <<1, -1>> >>

dir_arround == [i \in 1 .. 8 |-> IF i <= 4 THEN dir_arr[i] ELSE Back(dir_arr[i - 4])]

Weight == [none |-> 0, s1c |-> 1, s1o |-> 6, s2c |-> 4, s2o |-> 16,
           s3c |-> 12, s3o |-> 80, s4 |-> 400]

StatusCell == DOMAIN Weight

clos_stat == <<"s1c", "s2c", "s3c">>
open_stat == <<"s1o", "s2o", "s3o">>

Max2(i, j) == IF i > j THEN i ELSE j
Min2(i, j) == IF i < j THEN i ELSE j

\* How far one can go from c in direction d over cells that are all Ok.
Reach(c, d, Ok(_)) ==
  CHOOSE n \in 0 .. N * N : /\ ~Ok(Step(c, d, n + 1))
                            /\ \A k \in 1 .. n : Ok(Step(c, d, k))

-----------------------------------------------------------------------------
\* Weights

Owns(pl, who, c) == Inside(c) /\ pl[At(c)] = who

Run(pl, who, c, d) == LET Own(e) == Owns(pl, who, e) IN Reach(c, d, Own)

\* The cells beyond c that who has or may still take.
Room(pl, who, c, d) ==
  LET Usable(e) == Inside(e) /\ pl[At(e)] \in {None, who} IN Reach(c, d, Usable)

\* The number of cells a line of who through c can grow to.  An end that the
\* code does not call closed counts as one cell even when it is off the board
\* (lines 118 and 119).  What is read past the edge (lines 132 and 145) is not used.
Size(pl, who, end, end2, d, fclose, fclose2, sum) ==
  sum + (IF fclose THEN 0 ELSE 1 + Room(pl, who, end, d))
      + (IF fclose2 THEN 0 ELSE 1 + Room(pl, who, end2, Back(d)))

\* The status of a line of sum cells next to a cell, from its closed ends.
LineStatus(sum, fclose, fclose2, size) ==
  IF sum >= 4 THEN "s4"
  ELSE IF sum = 0 \/ (fclose /\ fclose2) \/ size < 4 THEN "none"
  ELSE IF fclose \/ fclose2 THEN clos_stat[sum]
  ELSE open_stat[sum]

\* The edge at the second end closes the FIRST end (line 98).
EndsStatus(pl, who, d, sum, end, end2) ==
  LET Taken(e) == Inside(e) /\ pl[At(e)] # None
      fclose   == ~Inside(end) \/ Taken(end) \/ ~Inside(end2)
      fclose2  == Taken(end2)
  IN  LineStatus(sum, fclose, fclose2,
                 Size(pl, who, end, end2, d, fclose, fclose2, sum))

calc_dir_weight(pl, who, c, d) ==
  LET cou  == Run(pl, who, c, d)
      cou2 == Run(pl, who, c, Back(d))
  IN  EndsStatus(pl, who, d, cou + cou2, Step(c, d, cou + 1), Step(c, Back(d), cou2 + 1))

Statuses(pl, who, c) ==
  <<calc_dir_weight(pl, who, c, dir_arr[1]), calc_dir_weight(pl, who, c, dir_arr[2]),
    calc_dir_weight(pl, who, c, dir_arr[3]), calc_dir_weight(pl, who, c, dir_arr[4])>>

\* calc_one_cell_weight, from the four statuses.
SumWeight(s) == Weight[s[1]] + Weight[s[2]] + Weight[s[3]] + Weight[s[4]]

Mut_Visited(pl, who, c, d, area) ==
  {k \in 1 .. 3 : \A j \in 1 .. k - 1 : LET e == Step(c, d, j)
                                        IN  e \in area /\ pl[At(e)] = who}

\* The steps from c in direction d that the walk of a pass looks at: it goes on
\* over who's cells of the area for at most 5 steps.
Visited(pl, who, c, d, area) ==
  {k \in 1 .. 5 : \A j \in 1 .. k - 1 : LET e == Step(c, d, j)
                                        IN  e \in area /\ pl[At(e)] = who}

\* The free cell where that walk ends, if it does: a set of at most one cell.
FreeEnd(pl, who, c, d, area) ==
  {e \in {Step(c, d, k) : k \in Visited(pl, who, c, d, area)} \cap area :
     pl[At(e)] = None}

\* The cells whose weight for who a move at c recalculates, with the index of
\* the direction they lie in.
Ends(pl, who, c, area) ==
  UNION {{<<i, e>> : e \in FreeEnd(pl, who, c, dir_arround[i], area)} : i \in 1 .. 8}

\* The cells of old, those of new overwritten.
Over(new, old) == [a \in DOMAIN old |-> IF a \in DOMAIN new THEN new[a] ELSE old[a]]

Mut_Recalculated(b, who, ends) ==
  LET cells == {At(p[2]) : p \in ends}
      new   == [a \in cells |-> Statuses(b.pl, who, CellOf(a))]
  IN  [b EXCEPT !.stat[who]            = Over(new, @),
                !.weight[the_opponent] = Over([a \in cells |-> SumWeight(new[a])], @)]

Cached(b, who, new) ==
  [b EXCEPT !.stat[who]   = Over(new, @),
            !.weight[who] = Over([a \in DOMAIN new |-> SumWeight(new[a])], @)]

\* Writes the weights of those cells; a later direction overwrites an earlier.
Recalculated(b, who, ends) ==
  LET at(a)   == {p \in ends : At(p[2]) = a}
      last(a) == CHOOSE p \in at(a) : \A q \in at(a) : q[1] <= p[1]
  IN  Cached(b, who, [a \in {At(p[2]) : p \in ends} |-> Statuses(b.pl, who, last(a)[2])])

\* The pass for the player tests each cell against the boundaries, the pass for
\* the opponent only c (line 202): it stops at cells that are no cells of the
\* board but, when the array has the address, uses them as such.
OpponentEnds(pl, c) ==
  IF Inside(c) THEN Ends(pl, the_opponent, c, Memory) ELSE {}

\* The area and the cell itself, before the two passes.
Reset(b, c) ==
  [b EXCEPT !.minPosX = Min2(c[1], @), !.minPosY = Min2(c[2], @),
            !.maxPosX = Max2(c[1], @), !.maxPosY = Max2(c[2], @),
            !.weight["O"][At(c)] = 0, !.weight["X"][At(c)] = 0]

calc_weight_arround(b, c) ==
  Recalculated(Recalculated(Reset(b, c), the_player, Ends(b.pl, the_player, c, Board)),
               the_opponent, OpponentEnds(b.pl, c))

\* The cells the opponent's pass looks at that are off the board.
OffBoard(pl, c) ==
  IF Inside(c)
  THEN {e \in UNION {{Step(c, d, k) : k \in Visited(pl, the_opponent, c, d, Memory)} :
                       d \in {dir_arround[i] : i \in 1 .. 8}} : ~Inside(e)}
  ELSE {}

-----------------------------------------------------------------------------
\* The end of the game

\* The cells of who that chek_win_line counts ahead of c: it tests the cell it
\* stands on, not the one it reads next (line 453), and so looks one cell past
\* the edge.
Ahead(pl, who, c, d) ==
  LET n == Run(pl, who, c, d)
      e == Step(c, d, n + 1)
  IN  IF ~Inside(c) THEN 0
      ELSE IF ~Inside(e) /\ InArray(e) /\ pl[At(e)] = who THEN n + 1
      ELSE n

\* Behind c it tests the cell the first loop ended on (line 473): it counts
\* nothing when that one is off the board, and knows no edge otherwise.
Behind(pl, who, c, d) ==
  LET Mine(e) == InArray(e) /\ pl[At(e)] = who
  IN  IF Inside(Step(c, d, Ahead(pl, who, c, d)))
      THEN Reach(c, Back(d), Mine)
      ELSE 0

Mut_chek_win_line(pl, who, c, d) == Ahead(pl, who, c, d) + Behind(pl, who, c, d) > 4

chek_win_line(pl, who, c, d) == Ahead(pl, who, c, d) + Behind(pl, who, c, d) >= 4

\* The cells it reads, on the board or not.
LineRead(pl, who, c, d) ==
  IF Inside(Step(c, d, Ahead(pl, who, c, d)))
  THEN {Step(c, d, Ahead(pl, who, c, d) + 1),
        Step(c, Back(d), Behind(pl, who, c, d) + 1)}
  ELSE {}

Mut_SaysFour(b, who, c) == b.weight[who][At(c)] > Weight.s4

\* The first test of chek_win_situation, on the weight cached before the move.
SaysFour(b, who, c) == b.weight[who][At(c)] >= Weight.s4

\* fFound: one of the lines the cache calls four is one.
Found(b, who, c) ==
  \E i \in 1 .. 4 : /\ b.stat[who][At(c)][i] = "s4"
                    /\ chek_win_line(b.pl, who, c, dir_arr[i])

Placed(b, who, c) == [b EXCEPT !.pl[At(c)] = who]

\* The board after set_move, and whether it returned true.
set_move(b, who, c) ==
  IF SaysFour(b, who, c) THEN [Placed(b, who, c) EXCEPT !.fgame_on = FALSE]
                         ELSE calc_weight_arround(Placed(b, who, c), c)

\* The assertion at line 854 fails.
WinNotFound(b, who, c) == SaysFour(b, who, c) /\ ~Found(Placed(b, who, c), who, c)

\* How a move at c leaves the board: it reads or writes "outside" the array, it
\* caches a "weight" for a cell that is not the one it is about, or it is itself
\* made at a "cell" that is none.
Strays(b, who, c) ==
  LET pl     == [b.pl EXCEPT ![At(c)] = who]
      fours  == {i \in 1 .. 4 : b.stat[who][At(c)][i] = "s4"}
      \* The loop breaks at the first line it finds.
      tried  == {i \in fours :
                   \A j \in fours : j < i => ~chek_win_line(pl, who, c, dir_arr[j])}
      looked == IF SaysFour(b, who, c)
                THEN UNION {LineRead(pl, who, c, dir_arr[i]) : i \in tried}
                ELSE OffBoard(pl, c)
  IN  {s \in {"outside", "weight", "cell"} :
         \/ s = "outside" /\ \E e \in looked : ~InArray(e)
         \/ s = "weight" /\ ~SaysFour(b, who, c)
                         /\ \E p \in OpponentEnds(pl, c) : ~Inside(p[2])
         \/ s = "cell" /\ ~Inside(c)}

\* The board the program starts with, and every restart.
init ==
  [pl       |-> [a \in Addresses |-> None],
   weight   |-> [who \in Players |-> [a \in Addresses |-> 0]],
   stat     |-> [who \in Players |-> [a \in Addresses |-> [i \in 1 .. 4 |-> "none"]]],
   minPosX  |-> N - 1, minPosY |-> N - 1, maxPosX |-> 0, maxPosY |-> 0,
   fgame_on |-> TRUE]

-----------------------------------------------------------------------------
\* The computer's choice

Mut_find_start_coorinates(min) == Max2(min, 0)

find_start_coorinates(min) == Max2(min - 1, 0)

find_end_coordinates(max)  == Min2(max + 1, N - 1)

\* The free cells find_max_weights looks at, in the order of their addresses.
Candidates(b) ==
  LET xs == find_start_coorinates(b.minPosX) .. find_end_coordinates(b.maxPosX)
      ys == find_start_coorinates(b.minPosY) .. find_end_coordinates(b.maxPosY)
  IN  {a \in {At(c) : c \in xs \X ys} : b.pl[a] = None}

FirstOf(S, n) == {a \in S : Cardinality({e \in S : e < a}) < n}

MaxOver(S, F(_)) ==
  LET V == {0} \cup {F(a) : a \in S} IN CHOOSE v \in V : \A w \in V : w <= v

\* max_Vpl, max_Vop
MaxWeight(b, who) == LET W(a) == b.weight[who][a] IN MaxOver(Candidates(b), W)

\* maxV_player and maxV_opponent.  The opponent's array also fills with cells of
\* weight zero when there is nothing else (line 276).
MaxV(b, who) ==
  LET max == MaxWeight(b, who)
  IN  IF who = the_player /\ max = 0
      THEN {}
      ELSE FirstOf({a \in Candidates(b) : b.weight[who][a] = max}, val_arr_size)

recalc_pl_weight(w) == (3 * w) \div 2

\* maxV_summ: the best sums over the player's cells and then the opponent's.
MaxSumm(b) ==
  LET V      == MaxV(b, the_player)
      W      == MaxV(b, the_opponent)
      Sum(a) == recalc_pl_weight(b.weight[the_player][a]) + b.weight[the_opponent][a]
      best   == MaxOver(V \cup W, Sum)
      Best(S) == {a \in S : Sum(a) = best /\ best > 0}
  IN  Best(V) \cup FirstOf(Best(W), val_arr_size - Cardinality(Best(V)))

\* The cells find_both_3c prefers, the player's before the opponent's.
Forks(b, who) ==
  {a \in Candidates(b) : /\ b.weight[who][a] >= 2 * Weight.s3c
                         /\ \E i \in 1 .. 4 : b.stat[who][a][i] = "s3c"}

Least(S)    == CHOOSE a \in S : \A e \in S : a <= e
Greatest(S) == CHOOSE a \in S : \A e \in S : e <= a

find_both_3c(b) ==
  IF Forks(b, the_player) # {} THEN {Least(Forks(b, the_player))}
  ELSE IF Forks(b, the_opponent) # {} THEN {Greatest(Forks(b, the_opponent))}
  ELSE MaxV(b, the_player)

\* The addresses find_max_weights may return: where gen_rnd_rez chooses, any of
\* them.  With none to choose from its assertion (line 428) fails.
find_max_weights(b) ==
  LET pl == MaxWeight(b, the_player)
      op == MaxWeight(b, the_opponent)
      V  == MaxV(b, the_player)
      W  == MaxV(b, the_opponent)
      fork == 2 * Weight.s3c
  IN  IF pl >= Weight.s4 THEN {Least(V)}
      ELSE IF op >= Weight.s4 THEN {Least(W)}
      ELSE IF pl >= Weight.s3o THEN V
      ELSE IF op >= Weight.s3o THEN W
      ELSE IF pl >= fork /\ op >= fork THEN find_both_3c(b)
      ELSE IF pl >= fork THEN V
      ELSE IF op >= fork THEN W
      ELSE MaxSumm(b)

=============================================================================
