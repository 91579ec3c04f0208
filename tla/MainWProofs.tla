----------------------------- MODULE MainWProofs -----------------------------
(***************************************************************************)
(* Proofs about MainW, for boards of every size: the weights that moves     *)
(* cache say exactly which cells win, so a win is seen when it is made and  *)
(* the computer takes or stops one.                                         *)
(***************************************************************************)
EXTENDS MainW, FiniteSetTheorems, WellFoundedInduction, TLAPS

-----------------------------------------------------------------------------
\* Numbers.

Below == {p \in Nat \X Nat : p[1] < p[2]}

\* Every set of natural numbers that is not empty has a least element.
LEMMA LeastNumber ==
  ASSUME NEW T, T \subseteq Nat, T # {}
  PROVE  \E m \in T : \A k \in T : m <= k
<1>1. IsWellFoundedOn(Below, Nat)
  BY NatLessThanWellFounded, Zenon DEF OpToRel, Below
<1>2. PICK x \in T : \A y \in T : ~(<<y, x>> \in Below)
  BY <1>1, WFMin
<1>3. ASSUME NEW y \in T PROVE x <= y
  <2>1. x \in Nat /\ y \in Nat /\ ~(<<y, x>> \in Below)
    BY <1>2
  <2> QED
    BY <2>1 DEF Below
<1> QED
  BY <1>3

\* A set of natural numbers with a bound that is not empty has a greatest.
LEMMA GreatestNumber ==
  ASSUME NEW T, NEW n \in Nat, T \subseteq 0 .. n, T # {}
  PROVE  \E m \in T : \A k \in T : k <= m
<1> DEFINE U == {n - k : k \in T}
<1>1. U \subseteq Nat /\ U # {}
  OBVIOUS
<1>2. PICK u \in U : \A v \in U : u <= v
  BY <1>1, LeastNumber
<1>3. PICK m \in T : u = n - m
  BY <1>2
<1>4. ASSUME NEW k \in T PROVE k <= m
  <2>1. u <= n - k
    BY <1>2
  <2>2. k \in 0 .. n /\ m \in 0 .. n
    OBVIOUS
  <2> QED
    BY <1>3, <2>1, <2>2
<1> QED
  BY <1>4

-----------------------------------------------------------------------------
\* Cells and directions.

Pairs == Int \X Int

Directions ==
  {<<0, 1>>, <<1, 1>>, <<1, 0>>, <<1, -1>>, <<0, -1>>, <<-1, -1>>, <<-1, 0>>, <<-1, 1>>}

\* Properties of a size.
LEMMA SizeType == N \in Nat /\ N > 5
  BY SizesAssumption

\* The four directions of the lines, and the four ways back.
LEMMA DirArr ==
  /\ \A i \in 1 .. 4 : dir_arr[i] \in Directions /\ Back(dir_arr[i]) \in Directions
  /\ \A d \in Directions : \E i \in 1 .. 4 : d = dir_arr[i] \/ d = Back(dir_arr[i])
<1>1. /\ dir_arr[1] = <<0, 1>> /\ Back(dir_arr[1]) = <<0, -1>>
      /\ dir_arr[2] = <<1, 1>> /\ Back(dir_arr[2]) = <<-1, -1>>
      /\ dir_arr[3] = <<1, 0>> /\ Back(dir_arr[3]) = <<-1, 0>>
      /\ dir_arr[4] = <<1, -1>> /\ Back(dir_arr[4]) = <<-1, 1>>
  <2>1. /\ dir_arr[1] = <<0, 1>> /\ dir_arr[2] = <<1, 1>>
        /\ dir_arr[3] = <<1, 0>> /\ dir_arr[4] = <<1, -1>>
    BY DEF dir_arr
  <2>2. /\ Back(<<0, 1>>) = <<0, -1>> /\ Back(<<1, 1>>) = <<-1, -1>>
        /\ Back(<<1, 0>>) = <<-1, 0>> /\ Back(<<1, -1>>) = <<-1, 1>>
    <3>1. \A d \in Int \X Int : Back(d)[1] = 0 - d[1] /\ Back(d)[2] = 0 - d[2]
                               /\ Back(d) = <<Back(d)[1], Back(d)[2]>>
      BY DEF Back
    <3> QED
      BY <3>1
  <2> QED
    BY <2>1, <2>2
<1>2. \A i \in 1 .. 4 : i = 1 \/ i = 2 \/ i = 3 \/ i = 4
  OBVIOUS
<1>3. 1 \in 1 .. 4 /\ 2 \in 1 .. 4 /\ 3 \in 1 .. 4 /\ 4 \in 1 .. 4
  OBVIOUS
<1>4. ASSUME NEW i \in 1 .. 4 PROVE dir_arr[i] \in Directions /\ Back(dir_arr[i]) \in Directions
  BY <1>1, <1>2 DEF Directions
<1>5. ASSUME NEW d \in Directions
      PROVE  \E i \in 1 .. 4 : d = dir_arr[i] \/ d = Back(dir_arr[i])
  <2>1. \/ d = dir_arr[1] \/ d = Back(dir_arr[1]) \/ d = dir_arr[2] \/ d = Back(dir_arr[2])
        \/ d = dir_arr[3] \/ d = Back(dir_arr[3]) \/ d = dir_arr[4] \/ d = Back(dir_arr[4])
    BY <1>1 DEF Directions
  <2> QED
    BY <1>3, <2>1, Zenon
<1> QED
  BY <1>4, <1>5

\* The eight directions around a cell.
LEMMA DirArround ==
  /\ \A i \in 1 .. 8 : dir_arround[i] \in Directions
  /\ \A d \in Directions : \E i \in 1 .. 8 : d = dir_arround[i]
<1>6. \A i \in 1 .. 4 : dir_arround[i] = dir_arr[i] /\ dir_arround[i + 4] = Back(dir_arr[i])
  BY DEF dir_arround
<1>7. ASSUME NEW i \in 1 .. 8 PROVE dir_arround[i] \in Directions
  <2>1. CASE i <= 4
    BY <1>6, <2>1, DirArr
  <2>2. CASE i > 4
    <3>1. i - 4 \in 1 .. 4 /\ (i - 4) + 4 = i
      BY <2>2
    <3> QED
      BY <1>6, <3>1, DirArr
  <2> QED
    BY <2>1, <2>2
<1>8. ASSUME NEW d \in Directions PROVE \E i \in 1 .. 8 : d = dir_arround[i]
  <2>1. PICK i \in 1 .. 4 : d = dir_arr[i] \/ d = Back(dir_arr[i])
    BY DirArr
  <2>2. i \in 1 .. 8 /\ i + 4 \in 1 .. 8
    OBVIOUS
  <2> QED
    BY <1>6, <2>1, <2>2
<1> QED
  BY <1>7, <1>8

\* Steps along a direction add up, are undone by the way back, and lead to
\* different cells.
LEMMA Steps ==
  ASSUME NEW c \in Pairs, NEW d \in Directions
  PROVE  /\ \A k \in Int : Step(c, d, k) \in Pairs
         /\ Step(c, d, 0) = c
         /\ Back(d) \in Directions /\ Back(Back(d)) = d
         /\ \A j, k \in Int : Step(Step(c, d, j), d, k) = Step(c, d, j + k)
         /\ \A k \in Int : Step(c, Back(d), k) = Step(c, d, -k)
         /\ \A j, k \in Int : Step(c, d, j) = Step(c, d, k) => j = k
  BY DEF Step, Directions, Back, Pairs

\* The board is convex, and a line leaves it in less than N steps.
LEMMA Convex ==
  ASSUME NEW c \in Pairs, NEW d \in Directions
  PROVE  /\ \A i, j, k \in Int :
              Inside(Step(c, d, i)) /\ Inside(Step(c, d, k)) /\ i <= j /\ j <= k
              => Inside(Step(c, d, j))
         /\ Inside(c) => ~Inside(Step(c, d, N))
  BY SizeType DEF Step, Directions, Pairs, Inside, chk_boundaries

\* A cell of the board has an address, and no other cell has it.
LEMMA Address ==
  /\ \A c \in Pairs : At(c) \in Int
  /\ \A c \in Pairs : Inside(c) => At(c) \in Addresses
  /\ \A c, e \in Pairs : Inside(c) /\ Inside(e) /\ At(c) = At(e) => c = e
<1>1. ASSUME NEW c \in Pairs PROVE At(c) \in Int
  BY SizeType, SMT DEF At, Pairs
<1>2. ASSUME NEW x \in 0 .. N - 1, NEW y \in 0 .. N - 1
      PROVE  x * N + y \in 0 .. N * N - 1
  <2>1. x * N <= (N - 1) * N /\ x * N >= 0
    BY SizeType, SMT
  <2>2. (N - 1) * N = N * N - N /\ x * N \in Int /\ N * N \in Int
    BY SizeType, SMT
  <2> QED
    BY SizeType, <2>1, <2>2, SMT
<1>3. ASSUME NEW c \in Pairs, Inside(c) PROVE At(c) \in Addresses
  BY <1>2, <1>3 DEF At, Addresses, Inside, chk_boundaries
<1>4. ASSUME NEW x \in 0 .. N - 1, NEW y \in 0 .. N - 1,
             NEW v \in 0 .. N - 1, NEW w \in 0 .. N - 1, x * N + y = v * N + w
      PROVE  x = v /\ y = w
  <2>1. (x - v) * N = x * N - v * N /\ x * N \in Int /\ v * N \in Int
    BY SizeType, SMT
  <2>2. PICK k \in Int : k = x - v /\ k * N = w - y
    BY SizeType, <1>4, <2>1, SMT
  <2>3. k >= 1 => k * N >= N
    BY SizeType, SMT
  <2>4. k <= -1 => k * N <= -N
    BY SizeType, SMT
  <2>5. k = 0
    BY SizeType, <2>2, <2>3, <2>4, SMT
  <2> QED
    BY SizeType, <2>2, <2>5, SMT
<1>5. ASSUME NEW c \in Pairs, NEW e \in Pairs, Inside(c), Inside(e), At(c) = At(e)
      PROVE  c = e
  <2>1. c[1] = e[1] /\ c[2] = e[2]
    BY <1>4, <1>5 DEF At, Inside, chk_boundaries
  <2> QED
    BY <2>1 DEF Pairs
<1> QED
  BY <1>1, <1>3, <1>5

\* Every address is that of a cell of the board.
LEMMA CellOfAddress ==
  ASSUME NEW a \in Addresses
  PROVE  CellOf(a) \in Pairs /\ Inside(CellOf(a)) /\ At(CellOf(a)) = a
<1>1. PICK q \in Int : q = a \div N
  BY SizeType, SMT DEF Addresses
<1>2. PICK r \in Int : r = a % N
  BY SizeType, SMT DEF Addresses
<1>3. a = q * N + r /\ r \in 0 .. N - 1
  BY SizeType, <1>1, <1>2, SMT DEF Addresses
<1>4. a \in Int /\ 0 <= a /\ a <= N * N - 1 /\ N * N \in Int /\ q * N \in Int
  BY SizeType, SMT DEF Addresses
<1>5. q >= N => q * N >= N * N
  BY SizeType, SMT
<1>6. q <= -1 => q * N <= -N
  BY SizeType, SMT
<1>7. q \in 0 .. N - 1
  BY SizeType, <1>3, <1>4, <1>5, <1>6, SMT
<1> QED
  BY <1>1, <1>2, <1>3, <1>7 DEF CellOf, Pairs, Inside, chk_boundaries, At

-----------------------------------------------------------------------------
\* Rows.

\* How long a row of who runs from a cell: up to the first cell that is not who's.
LEMMA RunIs ==
  ASSUME NEW pl, NEW who, NEW c \in Pairs, NEW d \in Directions
  PROVE  /\ Run(pl, who, c, d) \in Nat
         /\ ~Owns(pl, who, Step(c, d, Run(pl, who, c, d) + 1))
         /\ \A k \in 1 .. Run(pl, who, c, d) : Owns(pl, who, Step(c, d, k))
<1> DEFINE T == {n \in Nat : ~Owns(pl, who, Step(c, d, n + 1))}
<1>1. \E n \in 0 .. N : n \in T
  <2>1. CASE ~Inside(Step(c, d, 1))
    <3>1. 0 \in 0 .. N /\ 0 \in Nat /\ 0 + 1 = 1
      BY SizeType
    <3> QED
      BY <2>1, <3>1 DEF Owns
  <2>2. CASE Inside(Step(c, d, 1))
    <3>1. Step(c, d, 1) \in Pairs /\ Step(Step(c, d, 1), d, N) = Step(c, d, 1 + N)
      <4>1. /\ \A k \in Int : Step(c, d, k) \in Pairs
            /\ \A j, k \in Int : Step(Step(c, d, j), d, k) = Step(c, d, j + k)
        BY Steps
      <4>2. 1 \in Int /\ N \in Int
        BY SizeType
      <4> QED
        BY <4>1, <4>2
    <3>2. ~Inside(Step(c, d, N + 1))
      BY <2>2, <3>1, Convex, SizeType
    <3>3. N \in 0 .. N /\ N \in Nat
      BY SizeType
    <3> QED
      BY <3>2, <3>3 DEF Owns
  <2> QED
    BY <2>1, <2>2
<1>2. PICK m \in T : \A n \in T : m <= n
  BY <1>1, LeastNumber
<1>3. ASSUME NEW k \in 1 .. m PROVE Owns(pl, who, Step(c, d, k))
  <2>1. k - 1 \in Nat /\ ~(m <= k - 1) /\ (k - 1) + 1 = k
    OBVIOUS
  <2> QED
    BY <1>2, <2>1
<1>4. m \in 0 .. N * N
  <2>1. m \in Nat /\ m <= N
    BY <1>1, <1>2, SizeType
  <2>2. N <= N * N /\ N * N \in Int
    BY SizeType, SMT
  <2> QED
    BY SizeType, <2>1, <2>2
<1>5. ~Owns(pl, who, Step(c, d, m + 1))
  OBVIOUS
<1> HIDE DEF T
<1>6. /\ Run(pl, who, c, d) \in 0 .. N * N
      /\ ~Owns(pl, who, Step(c, d, Run(pl, who, c, d) + 1))
      /\ \A k \in 1 .. Run(pl, who, c, d) : Owns(pl, who, Step(c, d, k))
  BY <1>3, <1>4, <1>5 DEF Run, Reach
<1> QED
  BY <1>6

\* With c, the five cells from j before it to 4 - j after it are who's.
Window(pl, who, c, d, j) ==
  \A k \in (-j) .. (4 - j) : k # 0 => Owns(pl, who, Step(c, d, k))

\* The two runs at a cell make four exactly if it completes a window.
LEMMA RunsOfFour ==
  ASSUME NEW pl, NEW who, NEW c \in Pairs, NEW d \in Directions
  PROVE  Run(pl, who, c, d) + Run(pl, who, c, Back(d)) >= 4
           <=> \E j \in 0 .. 4 : Window(pl, who, c, d, j)
<1>1. PICK n \in Nat : n = Run(pl, who, c, d)
  BY RunIs
<1>2. PICK m \in Nat : m = Run(pl, who, c, Back(d))
  BY RunIs, Steps
<1>3. ~Owns(pl, who, Step(c, d, n + 1)) /\ \A k \in 1 .. n : Owns(pl, who, Step(c, d, k))
  BY <1>1, RunIs
<1>4. /\ ~Owns(pl, who, Step(c, d, -(m + 1)))
      /\ \A k \in 1 .. m : Owns(pl, who, Step(c, d, -k))
  <2>1. /\ ~Owns(pl, who, Step(c, Back(d), m + 1))
        /\ \A k \in 1 .. m : Owns(pl, who, Step(c, Back(d), k))
    BY <1>2, RunIs, Steps
  <2>2. \A k \in Int : Step(c, Back(d), k) = Step(c, d, -k)
    BY Steps
  <2>3. m + 1 \in Int /\ \A k \in 1 .. m : k \in Int
    OBVIOUS
  <2> QED
    BY <2>1, <2>2, <2>3
<1>5. ASSUME n + m >= 4
      PROVE  \E j \in 0 .. 4 : Window(pl, who, c, d, j)
  <2>1. PICK j \in 0 .. 4 : j <= m /\ 4 - j <= n
    <3>1. CASE m <= 4
      BY <1>5, <3>1
    <3>2. CASE m > 4
      BY <1>5, <3>2
    <3> QED
      BY <3>1, <3>2
  <2>2. ASSUME NEW k \in (-j) .. (4 - j), k # 0
        PROVE  Owns(pl, who, Step(c, d, k))
    <3>1. CASE k > 0
      BY <1>3, <2>1, <3>1
    <3>2. CASE k < 0
      <4>1. -k \in 1 .. m /\ -(-k) = k
        BY <2>1, <3>2
      <4> QED
        BY <1>4, <4>1
    <3> QED
      BY <2>2, <3>1, <3>2
  <2> QED
    BY <2>2 DEF Window
<1>6. ASSUME NEW j \in 0 .. 4, Window(pl, who, c, d, j)
      PROVE  n + m >= 4
  <2>1. n >= 4 - j
    <3> SUFFICES ASSUME n + 1 <= 4 - j PROVE FALSE
      OBVIOUS
    <3>1. n + 1 \in (-j) .. (4 - j) /\ n + 1 # 0
      OBVIOUS
    <3> QED
      BY <1>3, <1>6, <3>1 DEF Window
  <2>2. m >= j
    <3> SUFFICES ASSUME m + 1 <= j PROVE FALSE
      OBVIOUS
    <3>1. -(m + 1) \in (-j) .. (4 - j) /\ -(m + 1) # 0
      OBVIOUS
    <3> QED
      BY <1>4, <1>6, <3>1 DEF Window
  <2> QED
    BY <2>1, <2>2
<1> QED
  BY <1>1, <1>2, <1>5, <1>6

\* A line of five that lacks only the cell c is a window at c.
LEMMA WindowOfLine ==
  ASSUME NEW pl, NEW who, NEW c \in Pairs, Inside(c),
         NEW L \in LinesAt[At(c)], \A e \in L \ {At(c)} : pl[e] = who
  PROVE  \E i \in 1 .. 4 : \E j \in 0 .. 4 :
           /\ Window(pl, who, c, dir_arr[i], j)
           /\ \A e \in L : \E k \in (-j) .. (4 - j) : e = At(Step(c, dir_arr[i], k))
<1>1. L \in Lines /\ At(c) \in L
  BY Address DEF LinesAt
<1>2. PICK i \in 1 .. 4, s \in Board :
        Inside(Step(s, dir_arr[i], 4)) /\ L = Line(s, i)
  BY <1>1 DEF Lines
<1>3. PICK d \in Directions : d = dir_arr[i]
  BY DirArr
<1>4. s \in Pairs /\ Inside(s)
  BY SizeType DEF Board, Pairs, Inside, chk_boundaries
<1>5. \A k \in 0 .. 4 : Inside(Step(s, d, k)) /\ Step(s, d, k) \in Pairs
  <2>1. Inside(Step(s, d, 0)) /\ Inside(Step(s, d, 4))
    BY <1>2, <1>3, <1>4, Steps
  <2>2. \A k \in Int : 0 <= k /\ k <= 4 => Inside(Step(s, d, k))
    BY <1>4, <2>1, Convex
  <2>3. \A k \in Int : Step(s, d, k) \in Pairs
    BY <1>4, Steps
  <2> QED
    BY <2>2, <2>3
<1>6. PICK j \in 0 .. 4 : At(c) = At(Step(s, d, j))
  BY <1>1, <1>2, <1>3 DEF Line
<1>7. c = Step(s, d, j)
  BY <1>5, <1>6, Address
<1>8. ASSUME NEW k \in (-j) .. (4 - j), k # 0
      PROVE  Owns(pl, who, Step(c, d, k))
  <2>1. Step(c, d, k) = Step(s, d, j + k) /\ j + k \in 0 .. 4
    BY <1>4, <1>7, Steps
  <2>2. At(Step(c, d, k)) \in L
    BY <1>2, <1>3, <2>1 DEF Line
  <2>3. At(Step(c, d, k)) # At(c)
    <3>1. Step(c, d, k) # Step(s, d, j)
      <4>1. j \in Int /\ j + k \in Int /\ j + k # j
        BY <1>8
      <4>2. Step(s, d, j + k) # Step(s, d, j)
        BY <1>4, <4>1, Steps
      <4> QED
        BY <2>1, <4>2
    <3> QED
      BY <1>5, <1>7, <2>1, <3>1, Address
  <2> QED
    BY <1>5, <2>1, <2>2, <2>3 DEF Owns
<1>9. ASSUME NEW e \in L PROVE \E k \in (-j) .. (4 - j) : e = At(Step(c, d, k))
  <2>1. PICK m \in 0 .. 4 : e = At(Step(s, d, m))
    BY <1>2, <1>3 DEF Line
  <2>2. PICK k \in (-j) .. (4 - j) : k = m - j
    OBVIOUS
  <2>3. j + k = m /\ j \in Int /\ k \in Int
    BY <2>2
  <2>4. Step(c, d, k) = Step(s, d, m)
    <3>1. \A x, y \in Int : Step(Step(s, d, x), d, y) = Step(s, d, x + y)
      BY <1>4, Steps
    <3>2. Step(Step(s, d, j), d, k) = Step(s, d, j + k)
      BY <2>3, <3>1
    <3> QED
      BY <1>7, <2>3, <3>2
  <2> QED
    BY <2>1, <2>4
<1> QED
  BY <1>3, <1>8, <1>9 DEF Window

\* And a window at c is such a line.
LEMMA LineOfWindow ==
  ASSUME NEW pl, NEW who, NEW c \in Pairs, Inside(c),
         NEW i \in 1 .. 4, NEW j \in 0 .. 4, Window(pl, who, c, dir_arr[i], j)
  PROVE  \E L \in LinesAt[At(c)] : \A e \in L \ {At(c)} : pl[e] = who
<1>1. PICK d \in Directions : d = dir_arr[i]
  BY DirArr
<1>2. ASSUME NEW k \in (-j) .. (4 - j)
      PROVE  Inside(Step(c, d, k)) /\ Step(c, d, k) \in Pairs
  <2>1. CASE k = 0
    BY <2>1, Steps
  <2>2. CASE k # 0
    <3>1. Inside(Step(c, d, k))
      BY <1>1, <2>2 DEF Window, Owns
    <3>2. k \in Int
      OBVIOUS
    <3> QED
      BY <3>1, <3>2, Steps
  <2> QED
    BY <2>1, <2>2
<1>3. PICK s \in Pairs : s = Step(c, d, -j)
  BY Steps
<1>4. Inside(s) /\ s \in Board
  <2>1. Inside(s)
    BY <1>2, <1>3
  <2> QED
    BY <2>1 DEF Board, Pairs, Inside, chk_boundaries
<1>5. \A k \in 0 .. 4 : Step(s, d, k) = Step(c, d, k - j) /\ k - j \in (-j) .. (4 - j)
  <2> SUFFICES ASSUME NEW k \in 0 .. 4
               PROVE  Step(s, d, k) = Step(c, d, k - j) /\ k - j \in (-j) .. (4 - j)
    OBVIOUS
  <2>1. PICK m \in Int : m = -j
    OBVIOUS
  <2>2. k \in Int /\ m + k = k - j /\ k - j \in (-j) .. (4 - j)
    BY <2>1
  <2>3. \A x, y \in Int : Step(Step(c, d, x), d, y) = Step(c, d, x + y)
    BY Steps
  <2>4. Step(Step(c, d, m), d, k) = Step(c, d, m + k)
    BY <2>2, <2>3
  <2> QED
    BY <1>3, <2>1, <2>2, <2>4
<1>6. Line(s, i) \in Lines
  <2>1. Inside(Step(s, dir_arr[i], 4))
    BY <1>1, <1>2, <1>5
  <2> QED
    BY <1>4, <2>1 DEF Lines
<1>7. At(c) \in Line(s, i)
  <2>1. Step(s, d, j) = c
    <3>1. j - j = 0
      OBVIOUS
    <3> QED
      BY <1>5, <3>1, Steps
  <2> QED
    BY <1>1, <2>1 DEF Line
<1>8. Line(s, i) \in LinesAt[At(c)]
  BY <1>6, <1>7, Address DEF LinesAt
<1>9. ASSUME NEW e \in Line(s, i) \ {At(c)} PROVE pl[e] = who
  <2>1. PICK k \in 0 .. 4 : e = At(Step(s, d, k))
    BY <1>1 DEF Line
  <2>2. e = At(Step(c, d, k - j)) /\ k - j \in (-j) .. (4 - j)
    BY <1>5, <2>1
  <2>3. k - j # 0
    BY <2>2, Steps
  <2> QED
    BY <1>1, <2>2, <2>3 DEF Window, Owns
<1> QED
  BY <1>8, <1>9

-----------------------------------------------------------------------------
\* Weights.

\* The weight of a status is 400 for four in a line and 80 at most for less.
LEMMA WeightIs ==
  /\ StatusCell = {"none", "s1c", "s1o", "s2c", "s2o", "s3c", "s3o", "s4"}
  /\ Weight.s4 = 400 /\ Weight["s4"] = 400
  /\ \A x \in StatusCell \ {"s4"} : Weight[x] \in 0 .. 80
  BY DEF Weight, StatusCell

\* The status of a line of four or more is s4, and of no other.
LEMMA LineStatusIs ==
  ASSUME NEW sum \in Nat, NEW f, NEW g, NEW size
  PROVE  /\ LineStatus(sum, f, g, size) \in StatusCell
         /\ LineStatus(sum, f, g, size) = "s4" <=> sum >= 4
<1>1. \A i \in 1 .. 3 : /\ clos_stat[i] \in {"s1c", "s2c", "s3c"}
                        /\ open_stat[i] \in {"s1o", "s2o", "s3o"}
  BY DEF clos_stat, open_stat
<1>2. CASE sum >= 4
  BY <1>2, WeightIs DEF LineStatus
<1>3. CASE ~(sum >= 4)
  <2>1. \/ LineStatus(sum, f, g, size) = "none"
        \/ sum # 0 /\ LineStatus(sum, f, g, size) = clos_stat[sum]
        \/ sum # 0 /\ LineStatus(sum, f, g, size) = open_stat[sum]
    BY <1>3 DEF LineStatus
  <2>2. sum # 0 => sum \in 1 .. 3
    BY <1>3
  <2> QED
    BY <1>1, <1>3, <2>1, <2>2, WeightIs
<1> QED
  BY <1>2, <1>3

\* calc_dir_weight says s4 exactly of the direction of a window at c.
LEMMA StatusIs ==
  ASSUME NEW pl, NEW who, NEW c \in Pairs, NEW d \in Directions
  PROVE  /\ calc_dir_weight(pl, who, c, d) \in StatusCell
         /\ calc_dir_weight(pl, who, c, d) = "s4" <=> \E j \in 0 .. 4 : Window(pl, who, c, d, j)
<1>1. PICK n \in Nat : n = Run(pl, who, c, d)
  BY RunIs
<1>2. PICK m \in Nat : m = Run(pl, who, c, Back(d))
  BY RunIs, Steps
<1>3. \E f, g, size : calc_dir_weight(pl, who, c, d) = LineStatus(n + m, f, g, size)
  BY <1>1, <1>2 DEF calc_dir_weight, EndsStatus
<1>4. n + m \in Nat
  OBVIOUS
<1>5. /\ calc_dir_weight(pl, who, c, d) \in StatusCell
      /\ calc_dir_weight(pl, who, c, d) = "s4" <=> n + m >= 4
  BY <1>3, <1>4, LineStatusIs
<1> QED
  BY <1>1, <1>2, <1>5, RunsOfFour

\* The four statuses of a cell.
LEMMA StatusesAre ==
  ASSUME NEW pl, NEW who, NEW c \in Pairs
  PROVE  /\ Statuses(pl, who, c) \in Statuses4
         /\ \A i \in 1 .. 4 :
              Statuses(pl, who, c)[i] = "s4"
                <=> \E j \in 0 .. 4 : Window(pl, who, c, dir_arr[i], j)
<1> DEFINE w(i) == calc_dir_weight(pl, who, c, dir_arr[i])
<1>1. ASSUME NEW i \in 1 .. 4
      PROVE  w(i) \in StatusCell
             /\ (w(i) = "s4" <=> \E j \in 0 .. 4 : Window(pl, who, c, dir_arr[i], j))
  BY DirArr, StatusIs
<1>2. Statuses(pl, who, c) = <<w(1), w(2), w(3), w(4)>>
  BY DEF Statuses
<1> HIDE DEF w
<1>3. w(1) \in StatusCell /\ w(2) \in StatusCell /\ w(3) \in StatusCell /\ w(4) \in StatusCell
  BY <1>1
<1>4. Statuses(pl, who, c) \in Statuses4
  BY <1>2, <1>3 DEF Statuses4
<1>5. \A i \in 1 .. 4 : Statuses(pl, who, c)[i] = w(i)
  BY <1>2
<1> QED
  BY <1>1, <1>4, <1>5

\* A sum of four weights reaches 400 exactly with a four: four weights of less
\* are 320 at most.
LEMMA SumWeightIs ==
  ASSUME NEW s \in Statuses4
  PROVE  /\ SumWeight(s) \in 0 .. 1600
         /\ SumWeight(s) >= 400 <=> \E i \in 1 .. 4 : s[i] = "s4"
<1>1. \A i \in 1 .. 4 : s[i] \in StatusCell
  BY DEF Statuses4
<1>2. \A i \in 1 .. 4 : /\ s[i] = "s4" => Weight[s[i]] = 400
                        /\ s[i] # "s4" => Weight[s[i]] \in 0 .. 80
  BY <1>1, WeightIs
<1>3. /\ s[1] = "s4" \/ Weight[s[1]] \in 0 .. 80
      /\ s[2] = "s4" \/ Weight[s[2]] \in 0 .. 80
      /\ s[3] = "s4" \/ Weight[s[3]] \in 0 .. 80
      /\ s[4] = "s4" \/ Weight[s[4]] \in 0 .. 80
  BY <1>2
<1>4. \A i \in 1 .. 4 : Weight[s[i]] \in 0 .. 400 /\ (s[i] = "s4" => Weight[s[i]] = 400)
  BY <1>2
<1>5. PICK a \in 0 .. 400 : a = Weight[s[1]] /\ (s[1] = "s4" => a = 400)
  BY <1>4
<1>6. PICK b \in 0 .. 400 : b = Weight[s[2]] /\ (s[2] = "s4" => b = 400)
  BY <1>4
<1>7. PICK c \in 0 .. 400 : c = Weight[s[3]] /\ (s[3] = "s4" => c = 400)
  BY <1>4
<1>8. PICK d \in 0 .. 400 : d = Weight[s[4]] /\ (s[4] = "s4" => d = 400)
  BY <1>4
<1>9. SumWeight(s) = a + b + c + d
  BY <1>5, <1>6, <1>7, <1>8 DEF SumWeight
<1>10. (\E i \in 1 .. 4 : s[i] = "s4") <=> s[1] = "s4" \/ s[2] = "s4" \/ s[3] = "s4" \/ s[4] = "s4"
  OBVIOUS
<1>11. a + b + c + d >= 400 <=> s[1] = "s4" \/ s[2] = "s4" \/ s[3] = "s4" \/ s[4] = "s4"
  BY <1>3, <1>5, <1>6, <1>7, <1>8
<1> QED
  BY <1>9, <1>10, <1>11

\* What calc_one_cell_weight computes for a free cell reaches 400 exactly if the
\* cell makes five.
LEMMA WeightOfFour ==
  ASSUME NEW pl, NEW who, NEW c \in Pairs, Inside(c), pl[At(c)] = None
  PROVE  SumWeight(Statuses(pl, who, c)) >= 400 <=> At(c) \in Fours(pl, who)
<1>1. PICK s \in Statuses4 :
        /\ s = Statuses(pl, who, c)
        /\ \A i \in 1 .. 4 : s[i] = "s4" <=> \E j \in 0 .. 4 : Window(pl, who, c, dir_arr[i], j)
  BY StatusesAre
<1>2. SumWeight(s) >= 400 <=> \E i \in 1 .. 4 : \E j \in 0 .. 4 : Window(pl, who, c, dir_arr[i], j)
  BY <1>1, SumWeightIs
<1>3. (\E i \in 1 .. 4 : \E j \in 0 .. 4 : Window(pl, who, c, dir_arr[i], j))
        <=> \E L \in LinesAt[At(c)] : \A e \in L \ {At(c)} : pl[e] = who
  BY WindowOfLine, LineOfWindow
<1>4. At(c) \in Addresses
  BY Address
<1> QED
  BY <1>1, <1>2, <1>3, <1>4 DEF Fours

-----------------------------------------------------------------------------
\* Boards.

Marks == [Addresses -> Players \cup {None}]

Boards ==
  [pl       : Marks,
   weight   : [Players -> [Addresses -> Int]],
   stat     : [Players -> [Addresses -> Statuses4]],
   minPosX  : 0 .. N - 1,
   minPosY  : 0 .. N - 1,
   maxPosX  : 0 .. N,
   maxPosY  : 0 .. N,
   fgame_on : BOOLEAN]

\* What two boards have in common when only the weights of some players differ.
Alike(b, r, players) ==
  /\ r.pl = b.pl /\ r.fgame_on = b.fgame_on
  /\ r.minPosX = b.minPosX /\ r.minPosY = b.minPosY
  /\ r.maxPosX = b.maxPosX /\ r.maxPosY = b.maxPosY
  /\ \A p \in Players \ players : r.stat[p] = b.stat[p] /\ r.weight[p] = b.weight[p]

\* Overwriting some cells.
LEMMA OverIs ==
  ASSUME NEW S, NEW D, D \subseteq Addresses, NEW new \in [D -> S], NEW old \in [Addresses -> S]
  PROVE  /\ Over(new, old) \in [Addresses -> S]
         /\ \A a \in Addresses : Over(new, old)[a] = IF a \in D THEN new[a] ELSE old[a]
  BY DEF Over

\* In r the cells D of who have the statuses new and their weight.
Renewed(b, r, who, D, new) ==
  \A a \in Addresses :
    /\ r.stat[who][a] = IF a \in D THEN new[a] ELSE b.stat[who][a]
    /\ r.weight[who][a] = IF a \in D THEN SumWeight(new[a]) ELSE b.weight[who][a]

\* What Cached does to the weights of one player, and that it does nothing else.
LEMMA CachedIs ==
  ASSUME NEW b \in Boards, NEW who \in Players, NEW D, D \subseteq Addresses,
         NEW new \in [D -> Statuses4]
  PROVE  /\ Cached(b, who, new) \in Boards
         /\ Alike(b, Cached(b, who, new), {who})
         /\ Renewed(b, Cached(b, who, new), who, D, new)
<1> DEFINE sums == [a \in D |-> SumWeight(new[a])]
           S == Over(new, b.stat[who])
           W == Over(sums, b.weight[who])
<1>1. b.stat \in [Players -> [Addresses -> Statuses4]] /\ b.weight \in [Players -> [Addresses -> Int]]
  BY DEF Boards
<1>2. S \in [Addresses -> Statuses4]
      /\ \A a \in Addresses : S[a] = IF a \in D THEN new[a] ELSE b.stat[who][a]
  <2>1. PICK old \in [Addresses -> Statuses4] : old = b.stat[who]
    BY <1>1
  <2>2. S = Over(new, old)
    BY <2>1
  <2> QED
    BY <2>1, <2>2, OverIs
<1>3. sums \in [D -> Int] /\ \A a \in D : sums[a] = SumWeight(new[a])
  BY SumWeightIs
<1>4. W \in [Addresses -> Int]
      /\ \A a \in Addresses : W[a] = IF a \in D THEN SumWeight(new[a]) ELSE b.weight[who][a]
  <2>1. W \in [Addresses -> Int]
        /\ \A a \in Addresses : W[a] = IF a \in D THEN sums[a] ELSE b.weight[who][a]
    <3>1. PICK old \in [Addresses -> Int] : old = b.weight[who]
      BY <1>1
    <3>2. W = Over(sums, old)
      BY <3>1
    <3> HIDE DEF sums, W
    <3> QED
      BY <1>3, <3>1, <3>2, OverIs
  <2> QED
    BY <1>3, <2>1
<1>5. DOMAIN new = D
  OBVIOUS
<1>6. Cached(b, who, new) = [b EXCEPT !.stat[who] = S, !.weight[who] = W]
  BY <1>5 DEF Cached
<1> HIDE DEF S, W, sums
<1>7. PICK r : r = [b EXCEPT !.stat[who] = S, !.weight[who] = W]
  OBVIOUS
<1>8. /\ r.stat = [b.stat EXCEPT ![who] = S] /\ r.weight = [b.weight EXCEPT ![who] = W]
      /\ r.pl = b.pl /\ r.fgame_on = b.fgame_on
      /\ r.minPosX = b.minPosX /\ r.minPosY = b.minPosY
      /\ r.maxPosX = b.maxPosX /\ r.maxPosY = b.maxPosY
  BY <1>7 DEF Boards
<1>9. r \in Boards
  BY <1>1, <1>2, <1>4, <1>7 DEF Boards
<1> QED
  BY <1>1, <1>2, <1>4, <1>6, <1>7, <1>8, <1>9 DEF Alike, Renewed

\* In r each cell that one of the ends stands for has the statuses of one of them,
\* and its weight.
Refreshed(b, r, who, ends) ==
  \A a \in Addresses :
    \/ /\ \A p \in ends : At(p[2]) # a
       /\ r.stat[who][a] = b.stat[who][a] /\ r.weight[who][a] = b.weight[who][a]
    \/ \E p \in ends :
         /\ At(p[2]) = a
         /\ r.stat[who][a] = Statuses(b.pl, who, p[2])
         /\ r.weight[who][a] = SumWeight(Statuses(b.pl, who, p[2]))

\* What Recalculated does.
LEMMA RecalculatedIs ==
  ASSUME NEW b \in Boards, NEW who \in Players, NEW ends,
         \A p \in ends : p[1] \in 1 .. 8 /\ p[2] \in Pairs /\ At(p[2]) \in Addresses,
         NEW r, r = Recalculated(b, who, ends)
  PROVE  /\ r \in Boards
         /\ Alike(b, r, {who})
         /\ Refreshed(b, r, who, ends)
<1> DEFINE at(a) == {p \in ends : At(p[2]) = a}
           last(a) == CHOOSE p \in at(a) : \A q \in at(a) : q[1] <= p[1]
           D == {At(p[2]) : p \in ends}
           new == [a \in D |-> Statuses(b.pl, who, last(a)[2])]
<1>1. ASSUME NEW a \in D PROVE last(a) \in at(a)
  <2> DEFINE T == {p[1] : p \in at(a)}
  <2>1. T \subseteq 0 .. 8 /\ T # {}
    OBVIOUS
  <2>2. PICK m \in T : \A k \in T : k <= m
    BY <2>1, GreatestNumber
  <2>3. \E p \in at(a) : \A q \in at(a) : q[1] <= p[1]
    BY <2>2
  <2> HIDE DEF at, T
  <2> QED
    BY <2>3
<1> HIDE DEF last
<1>2. \A a \in D : last(a) \in ends /\ At(last(a)[2]) = a
  BY <1>1
<1>3. \A a \in D : Statuses(b.pl, who, last(a)[2]) \in Statuses4
  BY <1>2, StatusesAre
<1>4. new \in [D -> Statuses4] /\ \A a \in D : new[a] = Statuses(b.pl, who, last(a)[2])
  BY <1>3
<1>5. D \subseteq Addresses
  OBVIOUS
<1>6. r = Cached(b, who, new)
  BY DEF Recalculated, last
<1> HIDE DEF new
<1>7. /\ r \in Boards
      /\ Alike(b, r, {who})
      /\ Renewed(b, r, who, D, new)
  <2> HIDE DEF D
  <2>1. PICK E : E = D /\ E \subseteq Addresses
    BY <1>5
  <2>2. PICK f \in [E -> Statuses4] : f = new
    BY <1>4, <2>1
  <2>3. Cached(b, who, f) \in Boards /\ Alike(b, Cached(b, who, f), {who})
    BY <2>1, CachedIs, Zenon
  <2>4. Renewed(b, Cached(b, who, f), who, E, f)
    BY <2>1, CachedIs, Zenon
  <2>5. r = Cached(b, who, f)
    BY <1>6, <2>2
  <2> QED
    BY <2>1, <2>2, <2>3, <2>4, <2>5
<1>8. ASSUME NEW a \in Addresses
      PROVE  \/ /\ \A p \in ends : At(p[2]) # a
                /\ r.stat[who][a] = b.stat[who][a] /\ r.weight[who][a] = b.weight[who][a]
             \/ \E p \in ends :
                  /\ At(p[2]) = a
                  /\ r.stat[who][a] = Statuses(b.pl, who, p[2])
                  /\ r.weight[who][a] = SumWeight(Statuses(b.pl, who, p[2]))
  <2>1. CASE a \in D
    BY <1>2, <1>4, <1>7, <2>1 DEF Renewed
  <2>2. CASE a \notin D
    BY <1>7, <2>2 DEF Renewed
  <2> QED
    BY <2>1, <2>2
<1> QED
  BY <1>7, <1>8 DEF Refreshed

-----------------------------------------------------------------------------
\* The cells a move recalculates.

\* The areas the two passes walk in.
LEMMA Areas ==
  /\ Board \subseteq Pairs /\ Memory \subseteq Pairs
  /\ \A c \in Board : Inside(c)
  /\ \A c \in Board : At(c) \in Addresses
  /\ \A c \in Memory : At(c) \in Addresses
  /\ \A c \in Pairs : Inside(c) => c \in Board /\ c \in Memory
<1>1. Board \subseteq Pairs /\ Memory \subseteq Pairs /\ \A c \in Board : Inside(c)
  BY SizeType DEF Board, Memory, Pairs, Inside, chk_boundaries
<1>2. \A c \in Board : At(c) \in Addresses
  BY <1>1, Address
<1>3. \A c \in Memory : At(c) \in Addresses
  BY DEF Memory, InArray
<1>4. ASSUME NEW c \in Pairs, Inside(c) PROVE c \in Board /\ c \in Memory
  <2>1. c \in Board /\ c \in (-5 .. N + 4) \X (-5 .. N + 4)
    BY <1>4, SizeType DEF Board, Pairs, Inside, chk_boundaries
  <2>2. InArray(c)
    BY <1>4, Address DEF InArray
  <2> QED
    BY <2>1, <2>2 DEF Memory
<1> QED
  BY <1>1, <1>2, <1>3, <1>4

\* What the ends of a pass are.
LEMMA EndsAre ==
  ASSUME NEW pl, NEW who, NEW c, NEW area, NEW p \in Ends(pl, who, c, area)
  PROVE  p[1] \in 1 .. 8 /\ p[2] \in area /\ pl[At(p[2])] = None
  BY DEF Ends, FreeEnd

\* A free cell that a row of at most four cells of who separates from c is one.
LEMMA EndReached ==
  ASSUME NEW pl, NEW who, NEW c, NEW area, NEW d \in Directions, NEW k \in 1 .. 5,
         \A j \in 1 .. k - 1 : Step(c, d, j) \in area /\ pl[At(Step(c, d, j))] = who,
         Step(c, d, k) \in area, pl[At(Step(c, d, k))] = None
  PROVE  \E p \in Ends(pl, who, c, area) : p[2] = Step(c, d, k)
<1>1. PICK i \in 1 .. 8 : d = dir_arround[i]
  BY DirArround
<1>2. k \in Visited(pl, who, c, d, area)
  BY DEF Visited
<1>3. Step(c, d, k) \in FreeEnd(pl, who, c, d, area)
  BY <1>2 DEF FreeEnd
<1>4. <<i, Step(c, d, k)>> \in Ends(pl, who, c, area)
  BY <1>1, <1>3 DEF Ends
<1> QED
  BY <1>4

-----------------------------------------------------------------------------
\* A move.

\* The area after a move at c.
Stretched(b, r, c) ==
  /\ r.minPosX = Min2(c[1], b.minPosX) /\ r.minPosY = Min2(c[2], b.minPosY)
  /\ r.maxPosX = Max2(c[1], b.maxPosX) /\ r.maxPosY = Max2(c[2], b.maxPosY)

Moves == {c \in calc_cell \X calc_cell : At(c) \in Addresses}

\* What happens before the two passes.
LEMMA ResetIs ==
  ASSUME NEW b \in Boards, NEW c \in Moves, NEW r, r = Reset(b, c)
  PROVE  /\ r \in Boards
         /\ r.pl = b.pl /\ r.stat = b.stat /\ r.fgame_on = b.fgame_on
         /\ Stretched(b, r, c)
         /\ \A p \in Players, a \in Addresses :
              r.weight[p][a] = IF a = At(c) THEN 0 ELSE b.weight[p][a]
<1>1. /\ Min2(c[1], b.minPosX) \in 0 .. N - 1 /\ Min2(c[2], b.minPosY) \in 0 .. N - 1
      /\ Max2(c[1], b.maxPosX) \in 0 .. N /\ Max2(c[2], b.maxPosY) \in 0 .. N
  <2>1. c[1] \in 0 .. N /\ c[2] \in 0 .. N
    BY DEF Moves, calc_cell
  <2>2. /\ b.minPosX \in 0 .. N - 1 /\ b.minPosY \in 0 .. N - 1
        /\ b.maxPosX \in 0 .. N /\ b.maxPosY \in 0 .. N
    BY DEF Boards
  <2> QED
    BY <2>1, <2>2, SizeType DEF Min2, Max2
<1>2. PICK a \in Addresses : a = At(c)
  BY DEF Moves
<1>3. PICK V \in [Players -> [Addresses -> Int]] :
        /\ V = [b.weight EXCEPT !["O"][a] = 0, !["X"][a] = 0]
        /\ \A p \in Players, e \in Addresses : V[p][e] = IF e = a THEN 0 ELSE b.weight[p][e]
  <2>1. PICK w \in [Players -> [Addresses -> Int]] : w = b.weight
    BY DEF Boards
  <2>2. PICK V : V = [w EXCEPT !["O"][a] = 0, !["X"][a] = 0]
    OBVIOUS
  <2>3. V = [p \in Players |-> [w[p] EXCEPT ![a] = 0]]
    BY <2>2 DEF Players
  <2>4. V \in [Players -> [Addresses -> Int]]
    BY <2>3
  <2>5. \A p \in Players, e \in Addresses : V[p][e] = IF e = a THEN 0 ELSE b.weight[p][e]
    BY <2>1, <2>3
  <2>6. V = [b.weight EXCEPT !["O"][a] = 0, !["X"][a] = 0]
    BY <2>1, <2>2, Zenon
  <2> QED
    BY <2>4, <2>5, <2>6, Zenon
<1>4. /\ r.pl = b.pl /\ r.stat = b.stat /\ r.fgame_on = b.fgame_on
      /\ r.weight = V
      /\ Stretched(b, r, c)
  BY <1>2, <1>3 DEF Reset, Boards, Stretched
<1>5. r \in Boards
  BY <1>1, <1>2, <1>3 DEF Reset, Boards
<1>6. ASSUME NEW p \in Players, NEW e \in Addresses
      PROVE  r.weight[p][e] = IF e = At(c) THEN 0 ELSE b.weight[p][e]
  <2>1. V[p][e] = IF e = a THEN 0 ELSE b.weight[p][e]
    BY <1>3
  <2> QED
    BY <1>2, <1>4, <2>1
<1> QED
  BY <1>4, <1>5, <1>6

\* Placing a mark.
LEMMA PlacedIs ==
  ASSUME NEW b \in Boards, NEW who \in Players, NEW c \in Moves, NEW r, r = Placed(b, who, c)
  PROVE  /\ r \in Boards
         /\ r.pl = [b.pl EXCEPT ![At(c)] = who]
         /\ r.weight = b.weight /\ r.stat = b.stat /\ r.fgame_on = b.fgame_on
         /\ r.minPosX = b.minPosX /\ r.minPosY = b.minPosY
         /\ r.maxPosX = b.maxPosX /\ r.maxPosY = b.maxPosY
<1>1. PICK a \in Addresses : a = At(c)
  BY DEF Moves
<1>2. b.pl \in Marks /\ [b.pl EXCEPT ![a] = who] \in Marks
  BY DEF Boards, Marks
<1>3. r = [b EXCEPT !.pl = [b.pl EXCEPT ![a] = who]]
  BY <1>1 DEF Placed, Boards
<1> QED
  BY <1>1, <1>2, <1>3 DEF Boards

\* The cells whose weight for who is recalculated after a move at c.
Touched(pl, who, c) ==
  {p[2] : p \in IF who = the_player THEN Ends(pl, who, c, Board) ELSE OpponentEnds(pl, c)}

\* They are free.
LEMMA TouchedAre ==
  ASSUME NEW pl, NEW who \in Players, NEW c, NEW e \in Touched(pl, who, c)
  PROVE  e \in Pairs /\ At(e) \in Addresses /\ pl[At(e)] = None
  BY EndsAre, Areas DEF Touched, OpponentEnds

\* A cached weight for who after a move at c is the one before or is calculated.
Fresh(b, r, who, c) ==
  \A a \in Addresses :
    \/ /\ \A e \in Touched(r.pl, who, c) : At(e) # a
       /\ r.stat[who][a] = b.stat[who][a]
       /\ r.weight[who][a] = IF a = At(c) THEN 0 ELSE b.weight[who][a]
    \/ \E e \in Touched(r.pl, who, c) :
         /\ At(e) = a
         /\ r.stat[who][a] = Statuses(r.pl, who, e)
         /\ r.weight[who][a] = SumWeight(Statuses(r.pl, who, e))

\* The two passes.
LEMMA PassesAre ==
  ASSUME NEW b \in Boards, NEW c \in Moves, NEW r, r = calc_weight_arround(b, c)
  PROVE  /\ r \in Boards
         /\ r.pl = b.pl /\ r.fgame_on = b.fgame_on
         /\ Stretched(b, r, c)
         /\ \A p \in Players : Fresh(b, r, p, c)
<1>1. PICK b0 : b0 = Reset(b, c)
  OBVIOUS
<1>2. PICK E1 : E1 = Ends(b.pl, the_player, c, Board)
  OBVIOUS
<1>3. PICK b1 : b1 = Recalculated(b0, the_player, E1)
  OBVIOUS
<1>4. PICK E2 : E2 = OpponentEnds(b.pl, c)
  OBVIOUS
<1>5. r = Recalculated(b1, the_opponent, E2)
  BY <1>1, <1>2, <1>3, <1>4 DEF calc_weight_arround
<1>6. \A p \in E1 : p[1] \in 1 .. 8 /\ p[2] \in Pairs /\ At(p[2]) \in Addresses
  BY <1>2, EndsAre, Areas
<1>7. \A p \in E2 : p[1] \in 1 .. 8 /\ p[2] \in Pairs /\ At(p[2]) \in Addresses
  BY <1>4, EndsAre, Areas DEF OpponentEnds
<1>8. /\ b0 \in Boards /\ b0.pl = b.pl /\ b0.stat = b.stat /\ b0.fgame_on = b.fgame_on
      /\ Stretched(b, b0, c)
      /\ \A p \in Players, a \in Addresses :
           b0.weight[p][a] = IF a = At(c) THEN 0 ELSE b.weight[p][a]
  BY <1>1, ResetIs
<1>9. the_player \in Players /\ the_opponent \in Players /\ the_player # the_opponent
      /\ Players = {the_player, the_opponent}
  BY DEF Players, the_player, the_opponent
<1>10. /\ b1 \in Boards /\ Alike(b0, b1, {the_player})
       /\ Refreshed(b0, b1, the_player, E1)
  BY <1>3, <1>6, <1>8, <1>9, RecalculatedIs
<1>11. /\ r \in Boards /\ Alike(b1, r, {the_opponent})
       /\ Refreshed(b1, r, the_opponent, E2)
  BY <1>5, <1>7, <1>9, <1>10, RecalculatedIs
<1>12. /\ r.pl = b.pl /\ r.fgame_on = b.fgame_on /\ Stretched(b, r, c) /\ b1.pl = b.pl
       /\ r.stat[the_player] = b1.stat[the_player] /\ r.weight[the_player] = b1.weight[the_player]
       /\ b1.stat[the_opponent] = b0.stat[the_opponent]
       /\ b1.weight[the_opponent] = b0.weight[the_opponent]
  BY <1>8, <1>9, <1>10, <1>11 DEF Alike, Stretched
<1>13. Touched(r.pl, the_player, c) = {p[2] : p \in E1}
  BY <1>2, <1>12 DEF Touched
<1>14. Touched(r.pl, the_opponent, c) = {p[2] : p \in E2}
  BY <1>4, <1>9, <1>12 DEF Touched
<1>15. Fresh(b, r, the_player, c)
  BY <1>8, <1>9, <1>10, <1>12, <1>13 DEF Fresh, Refreshed
<1>16. Fresh(b, r, the_opponent, c)
  BY <1>8, <1>9, <1>11, <1>12, <1>14 DEF Fresh, Refreshed
<1> QED
  BY <1>9, <1>11, <1>12, <1>15, <1>16

-----------------------------------------------------------------------------
\* The cells that win.

\* The cache knows for who the cells that win, and no others.
Knows(b, who) ==
  Fours(b.pl, who) = {a \in Addresses : b.pl[a] = None /\ b.weight[who][a] >= 400}

\* The lines are on the board.
LEMMA LinesInside ==
  ASSUME NEW L \in Lines
  PROVE  L \subseteq Addresses
<1>1. PICK i \in 1 .. 4, s \in Board :
        Inside(Step(s, dir_arr[i], 4)) /\ L = Line(s, i)
  BY DEF Lines
<1>2. PICK d \in Directions : d = dir_arr[i]
  BY DirArr
<1>3. s \in Pairs /\ Inside(s)
  BY Areas
<1>4. Inside(Step(s, d, 0)) /\ Inside(Step(s, d, 4))
  BY <1>1, <1>2, <1>3, Steps
<1>5. \A k \in Int : 0 <= k /\ k <= 4 => Inside(Step(s, d, k))
  BY <1>3, <1>4, Convex
<1>6. \A k \in Int : Step(s, d, k) \in Pairs
  BY <1>3, Steps
<1>7. \A k \in 0 .. 4 : At(Step(s, d, k)) \in Addresses
  BY <1>5, <1>6, Address
<1> QED
  BY <1>1, <1>2, <1>7 DEF Line

\* A free cell that who's row of at most four separates from c is recalculated.
LEMMA TouchedReached ==
  ASSUME NEW pl, NEW who \in Players, NEW c \in Pairs, Inside(c), NEW d \in Directions,
         NEW k \in 1 .. 5, \A j \in 1 .. k - 1 : Owns(pl, who, Step(c, d, j)),
         Inside(Step(c, d, k)), pl[At(Step(c, d, k))] = None
  PROVE  Step(c, d, k) \in Touched(pl, who, c)
<1>1. ASSUME NEW j \in 1 .. k - 1
      PROVE  /\ Step(c, d, j) \in Board /\ Step(c, d, j) \in Memory
             /\ pl[At(Step(c, d, j))] = who
  <2>1. Step(c, d, j) \in Pairs
    BY Steps
  <2> QED
    BY <2>1, Areas DEF Owns
<1>2. Step(c, d, k) \in Board /\ Step(c, d, k) \in Memory
  <2>1. Step(c, d, k) \in Pairs
    BY Steps
  <2> QED
    BY <2>1, Areas
<1>3. \E p \in Ends(pl, who, c, Board) : p[2] = Step(c, d, k)
  BY <1>1, <1>2, EndReached
<1>4. \E p \in Ends(pl, who, c, Memory) : p[2] = Step(c, d, k)
  BY <1>1, <1>2, EndReached
<1>5. CASE who = the_player
  BY <1>3, <1>5 DEF Touched
<1>6. CASE who # the_player
  <2>1. who = the_opponent
    BY <1>6 DEF Players, the_player, the_opponent
  <2> QED
    BY <1>4, <1>6, <2>1 DEF Touched, OpponentEnds
<1> QED
  BY <1>5, <1>6

\* A cell that wins with c is reached from c over who's cells in between.
LEMMA WinnerReached ==
  ASSUME NEW pl, NEW who \in Players, NEW c \in Pairs, Inside(c), pl[At(c)] = who,
         NEW f \in Pairs, Inside(f), pl[At(f)] = None,
         NEW L \in LinesAt[At(f)], At(c) \in L, \A e \in L \ {At(f)} : pl[e] = who
  PROVE  f \in Touched(pl, who, c)
<1>1. PICK i \in 1 .. 4, j \in 0 .. 4 :
        /\ Window(pl, who, f, dir_arr[i], j)
        /\ \A e \in L : \E k \in (-j) .. (4 - j) : e = At(Step(f, dir_arr[i], k))
  BY WindowOfLine
<1>2. PICK d \in Directions : d = dir_arr[i]
  BY DirArr
<1>3. PICK k \in (-j) .. (4 - j) : At(c) = At(Step(f, d, k))
  BY <1>1, <1>2
<1>4. k # 0
  <2>1. who # None
    BY DEF Players, None
  <2> QED
    BY <1>3, <2>1, Steps
<1>5. Owns(pl, who, Step(f, d, k)) /\ Step(f, d, k) \in Pairs
  <2>1. Owns(pl, who, Step(f, d, k))
    BY <1>1, <1>2, <1>4 DEF Window
  <2>2. \A x \in Int : Step(f, d, x) \in Pairs
    BY Steps
  <2>3. k \in Int
    OBVIOUS
  <2> QED
    BY <2>1, <2>2, <2>3
<1>6. c = Step(f, d, k)
  BY <1>3, <1>5, Address DEF Owns
<1>7. /\ \A x, y \in Int : Step(Step(f, d, x), d, y) = Step(f, d, x + y)
      /\ \A x \in Int : Step(c, Back(d), x) = Step(c, d, -x)
      /\ Back(d) \in Directions /\ Step(f, d, 0) = f
  BY Steps
<1>8. CASE k > 0
  <2>1. \A x \in Int : Step(c, Back(d), x) = Step(f, d, k - x)
    <3> SUFFICES ASSUME NEW x \in Int PROVE Step(c, Back(d), x) = Step(f, d, k - x)
      OBVIOUS
    <3>1. PICK y \in Int : y = -x /\ k + y = k - x
      OBVIOUS
    <3>2. Step(c, Back(d), x) = Step(c, d, y)
      BY <1>7, <3>1
    <3> QED
      BY <1>6, <1>7, <3>1, <3>2
  <2>2. k \in 1 .. 5 /\ k - k = 0
    BY <1>8
  <2>3. ASSUME NEW x \in 1 .. k - 1 PROVE Owns(pl, who, Step(c, Back(d), x))
    <3>1. k - x \in (-j) .. (4 - j) /\ k - x # 0
      BY <1>8
    <3> QED
      BY <1>1, <1>2, <2>1, <3>1 DEF Window
  <2>4. Step(c, Back(d), k) = f
    BY <1>7, <2>1, <2>2
  <2> QED
    BY <1>7, <2>2, <2>3, <2>4, TouchedReached
<1>9. CASE k < 0
  <2>1. \A x \in Int : Step(c, d, x) = Step(f, d, k + x)
    <3> SUFFICES ASSUME NEW x \in Int PROVE Step(c, d, x) = Step(f, d, k + x)
      OBVIOUS
    <3>1. k \in Int
      OBVIOUS
    <3> QED
      BY <1>6, <1>7, <3>1
  <2>2. PICK m \in 1 .. 5 : m = -k /\ k + m = 0
    BY <1>9
  <2>3. ASSUME NEW x \in 1 .. m - 1 PROVE Owns(pl, who, Step(c, d, x))
    <3>1. k + x \in (-j) .. (4 - j) /\ k + x # 0
      BY <1>9, <2>2
    <3> QED
      BY <1>1, <1>2, <2>1, <3>1 DEF Window
  <2>4. Step(c, d, m) = f
    BY <1>7, <2>1, <2>2
  <2> QED
    BY <2>2, <2>3, <2>4, TouchedReached
<1> QED
  BY <1>4, <1>8, <1>9

\* A move keeps the cache right: what it does not recalculate it need not.
LEMMA KnowsStep ==
  ASSUME NEW b \in Boards, NEW who \in Players, NEW p \in Players, NEW c \in Moves,
         Inside(c), b.pl[At(c)] = None, Knows(b, p),
         NEW r \in Boards, r.pl = [b.pl EXCEPT ![At(c)] = who], Fresh(b, r, p, c),
         \A e \in Touched(r.pl, p, c) : Inside(e)
  PROVE  Knows(r, p)
<1>1. PICK m \in Addresses : m = At(c)
  BY DEF Moves
<1>2. c \in Pairs
  BY SizeType DEF Moves, calc_cell, Pairs
<1>3. who # None /\ p # None
  BY DEF Players, None
<1>4. r.pl[m] = who /\ \A a \in Addresses \ {m} : r.pl[a] = b.pl[a]
  BY <1>1 DEF Boards, Marks
<1>5. ASSUME NEW a \in Addresses, r.pl[a] = None
      PROVE  a \in Fours(r.pl, p) <=> r.weight[p][a] >= 400
  <2>1. a # m /\ b.pl[a] = None
    BY <1>3, <1>4, <1>5
  <2>2. CASE \E e \in Touched(r.pl, p, c) :
               At(e) = a /\ r.weight[p][a] = SumWeight(Statuses(r.pl, p, e))
    BY <1>5, <2>2, TouchedAre, WeightOfFour
  <2>3. CASE /\ \A e \in Touched(r.pl, p, c) : At(e) # a
             /\ r.weight[p][a] = b.weight[p][a]
    <3>1. r.weight[p][a] >= 400 <=> a \in Fours(b.pl, p)
      BY <2>1, <2>3 DEF Knows
    <3>2. ASSUME NEW L \in LinesAt[a], \A e \in L \ {a} : b.pl[e] = p
          PROVE  \A e \in L \ {a} : r.pl[e] = p
      <4>1. L \subseteq Addresses
        BY LinesInside DEF LinesAt
      <4> QED
        BY <1>1, <1>3, <1>4, <3>2, <4>1
    <3>3. ASSUME NEW L \in LinesAt[a], \A e \in L \ {a} : r.pl[e] = p
          PROVE  \A e \in L \ {a} : b.pl[e] = p
      <4>1. L \subseteq Addresses
        BY LinesInside DEF LinesAt
      <4>2. CASE m \notin L
        BY <1>4, <3>3, <4>1, <4>2
      <4>3. CASE m \in L
        <5>1. r.pl[m] = p
          BY <2>1, <3>3, <4>3
        <5>2. PICK f \in Pairs : Inside(f) /\ At(f) = a
          BY CellOfAddress
        <5>3. f \in Touched(r.pl, p, c)
          BY <1>1, <1>2, <1>5, <3>3, <4>3, <5>1, <5>2, WinnerReached
        <5> QED
          BY <2>3, <5>2, <5>3
      <4> QED
        BY <4>2, <4>3
    <3>4. a \in Fours(r.pl, p) <=> a \in Fours(b.pl, p)
      BY <1>5, <2>1, <3>2, <3>3 DEF Fours
    <3> QED
      BY <3>1, <3>4
  <2> QED
    BY <1>1, <2>1, <2>2, <2>3 DEF Fresh
<1>6. Fours(r.pl, p) \subseteq {a \in Addresses : r.pl[a] = None}
  BY DEF Fours
<1> QED
  BY <1>5, <1>6 DEF Knows

\* The touched cells of the player are on the board, and those of the opponent
\* unless a weight strays.
LEMMA TouchedInside ==
  ASSUME NEW b, NEW who \in Players, NEW p \in Players, NEW c,
         ~SaysFour(b, who, c), p = the_opponent => "weight" \notin Strays(b, who, c),
         NEW pl, pl = [b.pl EXCEPT ![At(c)] = who]
  PROVE  \A e \in Touched(pl, p, c) : Inside(e)
<1>1. CASE p = the_player
  <2>1. \A q \in Ends(pl, p, c, Board) : Inside(q[2])
    BY EndsAre, Areas
  <2> QED
    BY <1>1, <2>1 DEF Touched
<1>2. CASE p # the_player
  <2>1. p = the_opponent
    BY <1>2 DEF Players, the_player, the_opponent
  <2>2. \A q \in OpponentEnds(pl, c) : Inside(q[2])
    BY <2>1 DEF Strays
  <2> QED
    BY <1>2, <2>2 DEF Touched
<1> QED
  BY <1>1, <1>2

-----------------------------------------------------------------------------
\* Across the edge.

\* An address is written in one way only.
LEMMA Divided ==
  ASSUME NEW a \in Addresses, NEW u \in Int, NEW v \in 0 .. N - 1, a = u * N + v
  PROVE  CellOf(a) = <<u, v>>
<1>1. a \in Int /\ 0 <= a /\ a <= N * N - 1 /\ N * N \in Int /\ u * N \in Int
  BY SizeType, SMT DEF Addresses
<1>2. u >= N => u * N >= N * N
  BY SizeType, SMT
<1>3. u <= -1 => u * N <= -N
  BY SizeType, SMT
<1>4. u \in 0 .. N - 1
  BY SizeType, <1>1, <1>2, <1>3, SMT
<1>5. PICK c \in Pairs : c = <<u, v>>
  <2>1. v \in Int
    BY SizeType
  <2> QED
    BY <2>1 DEF Pairs
<1>6. Inside(c) /\ At(c) = a
  BY <1>4, <1>5 DEF Inside, chk_boundaries, At
<1> QED
  BY <1>5, <1>6, Address, CellOfAddress

\* The address of a cell one step off the board, if it has one, is that of a cell
\* at the beginning or the end of a row.
LEMMA OffEdge ==
  ASSUME NEW f \in Pairs, Inside(f), NEW d \in Directions,
         NEW e, e = Step(f, d, 1), ~Inside(e), At(e) \in Addresses
  PROVE  CellOf(At(e))[2] \in {0, N - 1}
<1>1. /\ f[1] \in 0 .. N - 1 /\ f[2] \in 0 .. N - 1
      /\ e = <<f[1] + d[1], f[2] + d[2]>> /\ d[1] \in -1 .. 1 /\ d[2] \in -1 .. 1
  BY DEF Inside, chk_boundaries, Step, Directions
<1>2. PICK x \in -1 .. N : x = e[1]
  BY <1>1, SizeType
<1>3. PICK y \in -1 .. N : y = e[2]
  BY <1>1, SizeType
<1>4. At(e) = x * N + y /\ x * N \in Int /\ (x - 1) * N = x * N - N /\ (x + 1) * N = x * N + N
  BY <1>2, <1>3, SizeType, SMT DEF At
<1>5. At(e) \in Int /\ 0 <= At(e) /\ At(e) <= N * N - 1 /\ N * N \in Int
  BY SizeType, SMT DEF Addresses
<1>6. CASE y = -1
  <2>1. At(e) = (x - 1) * N + (N - 1) /\ x - 1 \in Int /\ N - 1 \in 0 .. N - 1
    BY <1>4, <1>6, SizeType
  <2>2. CellOf(At(e)) = <<x - 1, N - 1>>
    BY <2>1, Divided
  <2> QED
    BY <2>2
<1>7. CASE y = N
  <2>1. At(e) = (x + 1) * N + 0 /\ x + 1 \in Int /\ 0 \in 0 .. N - 1
    BY <1>4, <1>7, SizeType
  <2>2. CellOf(At(e)) = <<x + 1, 0>>
    BY <2>1, Divided
  <2> QED
    BY <2>2
<1>8. CASE y \in 0 .. N - 1
  <2>1. x = -1 \/ x = N
    <3>1. ~Inside(e)
      OBVIOUS
    <3>2. ~(x \in 0 .. N - 1)
      BY <1>2, <1>3, <1>8, <3>1 DEF Inside, chk_boundaries
    <3> QED
      BY <3>2, SizeType
  <2>2. CASE x = -1
    <3>1. x * N = -N
      BY <2>2, SizeType, SMT
    <3> QED
      BY <1>4, <1>5, <1>8, <3>1, SizeType
  <2>3. CASE x = N
    <3>1. x * N = N * N
      BY <2>3
    <3> QED
      BY <1>4, <1>5, <1>8, <3>1, SizeType
  <2> QED
    BY <2>1, <2>2, <2>3
<1> QED
  BY <1>6, <1>7, <1>8, SizeType

\* A step changes the address, and as many steps as there are cells lead out of
\* the array.
LEMMA AddressSteps ==
  ASSUME NEW c \in Pairs, Inside(c), NEW d \in Directions
  PROVE  /\ \A k \in Nat : k > 0 => At(Step(c, d, k)) # At(c)
         /\ At(Step(c, d, N * N)) \notin Addresses
<1>1. ASSUME NEW k \in Nat, k > 0
      PROVE  /\ At(Step(c, d, k)) \in Int /\ At(c) \in Int
             /\ At(Step(c, d, k)) >= At(c) + k \/ At(Step(c, d, k)) <= At(c) - k
  <2>1. PICK x \in Int, y \in Int : c = <<x, y>>
    BY DEF Pairs
  <2>2. PICK q \in Int : q = k * N
    BY SizeType, SMT
  <2>3. q >= k + k
    BY <2>2, SizeType, SMT
  <2>4. PICK p \in Int : p = x * N
    BY SizeType, SMT
  <2>5. (x + k) * N = p + q /\ (x - k) * N = p - q
    BY <2>2, <2>4, SizeType, SMT
  <2>6. At(c) = p + y
    BY <2>1, <2>4 DEF At
  <2>7. \/ At(Step(c, d, k)) = p + (y + k) \/ At(Step(c, d, k)) = p + (y - k)
        \/ At(Step(c, d, k)) = p + q + (y + k) \/ At(Step(c, d, k)) = p - q + (y - k)
        \/ At(Step(c, d, k)) = p + q + y \/ At(Step(c, d, k)) = p - q + y
        \/ At(Step(c, d, k)) = p + q + (y - k) \/ At(Step(c, d, k)) = p - q + (y + k)
    <3>1. At(Step(c, d, k)) = (x + k * d[1]) * N + (y + k * d[2])
      BY <2>1 DEF At, Step
    <3>2. /\ d[1] \in {-1, 0, 1} /\ d[2] \in {-1, 0, 1} /\ (d[1] # 0 \/ d[2] # 0)
      BY DEF Directions
    <3>3. \A s \in {-1, 0, 1} : k * s = (IF s = 1 THEN k ELSE IF s = 0 THEN 0 ELSE -k)
      OBVIOUS
    <3>4. /\ x + k * d[1] = (IF d[1] = 1 THEN x + k ELSE IF d[1] = 0 THEN x ELSE x - k)
          /\ y + k * d[2] = (IF d[2] = 1 THEN y + k ELSE IF d[2] = 0 THEN y ELSE y - k)
      BY <3>2, <3>3
    <3>5. (x + k * d[1]) * N = (IF d[1] = 1 THEN p + q ELSE IF d[1] = 0 THEN p ELSE p - q)
      BY <2>4, <2>5, <3>2, <3>4
    <3> QED
      BY <3>1, <3>2, <3>4, <3>5
  <2> QED
    BY <2>3, <2>6, <2>7
<1>2. At(c) \in Addresses
  BY Address
<1>3. PICK m \in Nat : m = N * N /\ m > 0
  BY SizeType, SMT
<1>4. At(Step(c, d, m)) >= At(c) + m \/ At(Step(c, d, m)) <= At(c) - m
  BY <1>1, <1>3
<1>5. Addresses = 0 .. m - 1
  BY <1>3 DEF Addresses
<1>6. At(Step(c, d, m)) \notin Addresses
  <2>1. At(Step(c, d, m)) \in Int /\ At(c) \in 0 .. m - 1
    BY <1>1, <1>2, <1>3, <1>5
  <2> QED
    BY <1>4, <1>5, <2>1
<1> QED
  BY <1>1, <1>3, <1>6

\* Is the cell with this address off the border?
Inner(a) == CellOf(a)[1] \in 1 .. N - 2 /\ CellOf(a)[2] \in 1 .. N - 2

\* With no mark at the border but perhaps c, chek_win_line does not count across
\* the edge.
LEMMA AheadIs ==
  ASSUME NEW pl, NEW who, NEW c \in Pairs, Inside(c), NEW d \in Directions,
         \A a \in Addresses : pl[a] = who /\ a # At(c) => Inner(a)
  PROVE  Ahead(pl, who, c, d) = Run(pl, who, c, d)
<1>1. PICK n \in Nat : n = Run(pl, who, c, d)
  BY RunIs
<1>2. PICK e : e = Step(c, d, n + 1)
  OBVIOUS
<1>3. ASSUME ~Inside(e), InArray(e), pl[At(e)] = who PROVE FALSE
  <2>1. PICK f \in Pairs : f = Step(c, d, n)
    <3>1. \A k \in Int : Step(c, d, k) \in Pairs
      BY Steps
    <3> QED
      BY <3>1
  <2>2. Inside(f)
    <3>1. CASE n = 0
      BY <2>1, <3>1, Steps
    <3>2. CASE n # 0
      <4>1. n \in 1 .. Run(pl, who, c, d)
        BY <1>1, <3>2
      <4> QED
        BY <2>1, <4>1, RunIs DEF Owns
    <3> QED
      BY <3>1, <3>2
  <2>3. e = Step(f, d, 1)
    <3>1. \A j, k \in Int : Step(Step(c, d, j), d, k) = Step(c, d, j + k)
      BY Steps
    <3> QED
      BY <1>2, <2>1, <3>1
  <2>4. At(e) \in Addresses
    BY <1>3 DEF InArray
  <2>5. CellOf(At(e))[2] \in {0, N - 1}
    BY <1>3, <2>2, <2>3, <2>4, OffEdge
  <2>6. At(e) # At(c)
    <3>1. n + 1 \in Nat /\ n + 1 > 0
      OBVIOUS
    <3> QED
      BY <1>2, <3>1, AddressSteps
  <2> QED
    BY <1>3, <2>4, <2>5, <2>6, SizeType DEF Inner
<1> QED
  BY <1>1, <1>2, <1>3 DEF Ahead

\* And behind c it counts the run there at least.
LEMMA BehindIs ==
  ASSUME NEW pl, NEW who, NEW c \in Pairs, Inside(c), NEW d \in Directions,
         Inside(Step(c, d, Ahead(pl, who, c, d)))
  PROVE  Behind(pl, who, c, d) \in Nat /\ Behind(pl, who, c, d) >= Run(pl, who, c, Back(d))
<1> DEFINE Mine(e) == InArray(e) /\ pl[At(e)] = who
           T == {n \in Nat : ~Mine(Step(c, Back(d), n + 1))}
<1>1. Back(d) \in Directions
  BY Steps
<1>2. PICK m \in Nat : m + 1 = N * N
  BY SizeType, SMT
<1>3. m \in T
  BY <1>1, <1>2, AddressSteps DEF InArray
<1>4. PICK n \in T : \A k \in T : n <= k
  BY <1>3, LeastNumber
<1>5. n \in 0 .. N * N
  BY <1>2, <1>3, <1>4
<1>6. ASSUME NEW k \in 1 .. n PROVE Mine(Step(c, Back(d), k))
  <2>1. k - 1 \in Nat /\ ~(n <= k - 1) /\ (k - 1) + 1 = k
    OBVIOUS
  <2> QED
    BY <1>4, <2>1
<1>7. ~Mine(Step(c, Back(d), n + 1))
  OBVIOUS
<1>8. PICK r : r = Behind(pl, who, c, d)
  OBVIOUS
<1>9. r = CHOOSE j \in 0 .. N * N : /\ ~Mine(Step(c, Back(d), j + 1))
                                    /\ \A k \in 1 .. j : Mine(Step(c, Back(d), k))
  BY <1>8 DEF Behind, Reach
<1> HIDE DEF T, Mine
<1>10. r \in 0 .. N * N /\ ~Mine(Step(c, Back(d), r + 1))
  BY <1>5, <1>6, <1>7, <1>9
<1>11. PICK g \in Nat : g = Run(pl, who, c, Back(d))
  BY <1>1, RunIs
<1>12. r >= g
  <2> SUFFICES ASSUME r < g PROVE FALSE
    BY <1>2, <1>10, <1>11
  <2>1. r + 1 \in 1 .. g
    BY <1>2, <1>10
  <2>2. Owns(pl, who, Step(c, Back(d), r + 1))
    BY <1>1, <1>11, <2>1, RunIs
  <2>3. Step(c, Back(d), r + 1) \in Pairs
    <3>1. \A k \in Int : Step(c, Back(d), k) \in Pairs
      BY <1>1, Steps
    <3> QED
      BY <1>2, <1>10, <3>1
  <2>4. Mine(Step(c, Back(d), r + 1))
    BY <2>2, <2>3, Address DEF Mine, Owns, InArray
  <2> QED
    BY <1>10, <2>4
<1>13. r \in Nat
  BY <1>2, <1>10
<1> QED
  BY <1>8, <1>11, <1>12, <1>13

\* A window at c is found.
LEMMA LineFound ==
  ASSUME NEW pl, NEW who, NEW c \in Pairs, Inside(c), NEW d \in Directions,
         \A a \in Addresses : pl[a] = who /\ a # At(c) => Inner(a),
         NEW j \in 0 .. 4, Window(pl, who, c, d, j)
  PROVE  chek_win_line(pl, who, c, d)
<1>1. PICK n \in Nat : n = Run(pl, who, c, d) /\ n = Ahead(pl, who, c, d)
  BY RunIs, AheadIs
<1>2. PICK m \in Nat : m = Run(pl, who, c, Back(d))
  BY RunIs, Steps
<1>3. n + m >= 4
  BY <1>1, <1>2, RunsOfFour
<1>4. Inside(Step(c, d, n))
  <2>1. CASE n = 0
    BY <2>1, Steps
  <2>2. CASE n # 0
    <3>1. n \in 1 .. Run(pl, who, c, d)
      BY <1>1, <2>2
    <3> QED
      BY <3>1, RunIs DEF Owns
  <2> QED
    BY <2>1, <2>2
<1>5. PICK r \in Nat : r = Behind(pl, who, c, d) /\ r >= m
  BY <1>1, <1>2, <1>4, BehindIs
<1> QED
  BY <1>1, <1>3, <1>5 DEF chek_win_line

-----------------------------------------------------------------------------
\* What every move keeps of the board.

\* A cached weight is reset or that of the cached statuses.
Weighed(b) ==
  \A p \in Players, a \in Addresses : b.weight[p][a] \in {0, SumWeight(b.stat[p][a])}

\* All marks are in the area.
InArea(b) ==
  \A a \in Addresses :
    b.pl[a] # None => /\ CellOf(a)[1] \in b.minPosX .. b.maxPosX
                      /\ CellOf(a)[2] \in b.minPosY .. b.maxPosY

\* No mark is at the border.
Interior(b) == \A a \in Addresses : b.pl[a] # None => Inner(a)

\* The directions in which a free cell is cached as winning for p are right.
Honest(b, p) ==
  \A a \in Addresses, i \in 1 .. 4 :
    b.pl[a] = None /\ b.stat[p][a][i] = "s4" =>
      \E j \in 0 .. 4 : Window(b.pl, p, CellOf(a), dir_arr[i], j)

\* The board is right, if the moves of the game left it in these ways.
Right(b, ways) ==
  /\ b \in Boards
  /\ Weighed(b)
  /\ \A p \in Players : b.fgame_on /\ ways \subseteq Harmless(p) => Knows(b, p)
  /\ b.fgame_on /\ "cell" \notin ways => InArea(b)
  /\ b.fgame_on /\ ways = {} => Interior(b)
  /\ ways = {} => \A p \in Players : Honest(b, p)
  /\ \A p \in Players : b.fgame_on /\ ways \subseteq Harmless(p) => ~Five(b.pl, p)
  /\ ~b.fgame_on /\ ways = {} => \E p \in Players : Five(b.pl, p)

\* A move that does not win keeps every weight that of its statuses.
LEMMA WeighedStep ==
  ASSUME NEW b \in Boards, Weighed(b), NEW c \in Moves, NEW r \in Boards,
         \A p \in Players : Fresh(b, r, p, c)
  PROVE  Weighed(r)
<1>1. ASSUME NEW p \in Players, NEW a \in Addresses
      PROVE  r.weight[p][a] \in {0, SumWeight(r.stat[p][a])}
  <2>1. \/ r.stat[p][a] = b.stat[p][a] /\ r.weight[p][a] \in {0, b.weight[p][a]}
        \/ \E e \in Touched(r.pl, p, c) :
             /\ r.stat[p][a] = Statuses(r.pl, p, e)
             /\ r.weight[p][a] = SumWeight(Statuses(r.pl, p, e))
    BY <1>1 DEF Fresh
  <2>2. b.weight[p][a] \in {0, SumWeight(b.stat[p][a])}
    BY DEF Weighed
  <2> QED
    BY <2>1, <2>2
<1> QED
  BY <1>1 DEF Weighed

\* A move inside the board stretches the area around it.
LEMMA AreaStep ==
  ASSUME NEW b \in Boards, InArea(b), NEW who \in Players, NEW c \in Moves, Inside(c),
         NEW r \in Boards, r.pl = [b.pl EXCEPT ![At(c)] = who], Stretched(b, r, c)
  PROVE  InArea(r)
<1>1. c \in Pairs
  BY SizeType DEF Moves, calc_cell, Pairs
<1>2. PICK m \in Addresses : m = At(c)
  BY DEF Moves
<1>3. CellOf(m) = c
  BY <1>1, <1>2, CellOfAddress, Address
<1>4. /\ b.minPosX \in Int /\ b.minPosY \in Int /\ b.maxPosX \in Int /\ b.maxPosY \in Int
      /\ c[1] \in Int /\ c[2] \in Int
  BY <1>1, SizeType DEF Boards, Pairs
<1>5. /\ r.minPosX <= c[1] /\ r.minPosX <= b.minPosX /\ r.minPosX \in Int
      /\ r.minPosY <= c[2] /\ r.minPosY <= b.minPosY /\ r.minPosY \in Int
      /\ c[1] <= r.maxPosX /\ b.maxPosX <= r.maxPosX /\ r.maxPosX \in Int
      /\ c[2] <= r.maxPosY /\ b.maxPosY <= r.maxPosY /\ r.maxPosY \in Int
  BY <1>4 DEF Stretched, Min2, Max2
<1>6. ASSUME NEW a \in Addresses, r.pl[a] # None
      PROVE  /\ CellOf(a)[1] \in r.minPosX .. r.maxPosX
             /\ CellOf(a)[2] \in r.minPosY .. r.maxPosY
  <2>1. CASE a = m
    BY <1>3, <1>4, <1>5, <2>1
  <2>2. CASE a # m
    <3>1. b.pl[a] # None
      BY <1>2, <1>6, <2>2 DEF Boards, Marks
    <3>2. /\ CellOf(a)[1] \in b.minPosX .. b.maxPosX
          /\ CellOf(a)[2] \in b.minPosY .. b.maxPosY
      BY <3>1 DEF InArea
    <3> QED
      BY <1>4, <1>5, <3>2
  <2> QED
    BY <2>1, <2>2
<1> QED
  BY <1>6 DEF InArea

\* Where a move makes five it took a cell that wins, and the other way round.
LEMMA FiveStep ==
  ASSUME NEW pl \in Marks, NEW who \in Players, NEW m \in Addresses, pl[m] = None,
         NEW pm, pm = [pl EXCEPT ![m] = who]
  PROVE  /\ \A p \in Players : Five(pl, p) => Five(pm, p)
         /\ m \in Fours(pl, who) => Five(pm, who)
         /\ \A p \in Players : Five(pm, p) => Five(pl, p) \/ (p = who /\ m \in Fours(pl, who))
<1>1. pm[m] = who /\ \A a \in Addresses \ {m} : pm[a] = pl[a]
  BY DEF Marks
<1>2. None \notin Players
  BY DEF Players, None
<1>3. \A L \in Lines : L \subseteq Addresses
  BY LinesInside
<1>4. ASSUME NEW p \in Players, Five(pl, p) PROVE Five(pm, p)
  <2>1. PICK L \in Lines : \A a \in L : pl[a] = p
    BY <1>4 DEF Five
  <2>2. \A a \in L : a \in Addresses /\ a # m
    BY <1>2, <1>3, <2>1
  <2>3. \A a \in L : pm[a] = p
    BY <1>1, <2>1, <2>2
  <2> QED
    BY <2>3 DEF Five
<1>5. ASSUME m \in Fours(pl, who) PROVE Five(pm, who)
  <2>1. PICK L \in LinesAt[m] : \A e \in L \ {m} : pl[e] = who
    BY <1>5 DEF Fours
  <2>2. L \in Lines /\ L \subseteq Addresses
    BY <1>3 DEF LinesAt
  <2>3. \A a \in L : pm[a] = who
    BY <1>1, <2>1, <2>2
  <2> QED
    BY <2>2, <2>3 DEF Five
<1>6. ASSUME NEW p \in Players, Five(pm, p)
      PROVE  Five(pl, p) \/ (p = who /\ m \in Fours(pl, who))
  <2>1. PICK L \in Lines : \A a \in L : pm[a] = p
    BY <1>6 DEF Five
  <2>2. L \subseteq Addresses
    BY <1>3
  <2>3. CASE m \in L
    <3>1. p = who
      BY <1>1, <2>1, <2>3
    <3>2. L \in LinesAt[m]
      BY <2>3 DEF LinesAt
    <3>3. \A e \in L \ {m} : pl[e] = who
      BY <1>1, <2>1, <2>2, <3>1
    <3> QED
      BY <3>1, <3>2, <3>3 DEF Fours
  <2>4. CASE m \notin L
    <3>1. \A a \in L : pl[a] = p
      BY <1>1, <2>1, <2>2, <2>4
    <3>2. Five(pl, p)
      BY <3>1, Zenon DEF Five
    <3> QED
      BY <3>2
  <2> QED
    BY <2>3, <2>4
<1> QED
  BY <1>4, <1>5, <1>6

\* A move keeps the cached directions right: rows only grow.
LEMMA HonestStep ==
  ASSUME NEW b \in Boards, NEW who \in Players, NEW p \in Players, NEW c \in Moves,
         b.pl[At(c)] = None, Honest(b, p),
         NEW r \in Boards, r.pl = [b.pl EXCEPT ![At(c)] = who],
         \/ r.stat = b.stat
         \/ Fresh(b, r, p, c) /\ \A e \in Touched(r.pl, p, c) : Inside(e)
  PROVE  Honest(r, p)
<1>1. PICK m \in Addresses : m = At(c)
  BY DEF Moves
<1>2. who # None /\ p # None
  BY DEF Players, None
<1>3. r.pl[m] = who /\ \A a \in Addresses \ {m} : r.pl[a] = b.pl[a]
  BY <1>1 DEF Boards, Marks
<1>4. ASSUME NEW a \in Addresses, NEW i \in 1 .. 4, r.pl[a] = None, r.stat[p][a][i] = "s4"
      PROVE  \E j \in 0 .. 4 : Window(r.pl, p, CellOf(a), dir_arr[i], j)
  <2>1. b.pl[a] = None
    BY <1>2, <1>3, <1>4
  <2>2. CASE r.stat[p][a] = b.stat[p][a]
    <3>1. PICK j \in 0 .. 4 : Window(b.pl, p, CellOf(a), dir_arr[i], j)
      BY <1>4, <2>1, <2>2 DEF Honest
    <3>2. PICK d \in Directions : d = dir_arr[i]
      BY DirArr
    <3>3. ASSUME NEW k \in (-j) .. (4 - j), k # 0
          PROVE  Owns(r.pl, p, Step(CellOf(a), d, k))
      <4>1. PICK e : e = Step(CellOf(a), d, k)
        OBVIOUS
      <4>2. Owns(b.pl, p, e)
        BY <3>1, <3>2, <3>3, <4>1 DEF Window
      <4>3. e \in Pairs
        <5>1. \A x \in Int : Step(CellOf(a), d, x) \in Pairs
          BY CellOfAddress, Steps
        <5>2. k \in Int
          OBVIOUS
        <5> QED
          BY <4>1, <5>1, <5>2
      <4>4. At(e) \in Addresses /\ b.pl[At(e)] = p /\ Inside(e)
        BY <4>2, <4>3, Address DEF Owns
      <4>5. At(e) # m
        BY <1>1, <1>2, <4>4
      <4> QED
        BY <1>3, <4>1, <4>4, <4>5 DEF Owns
    <3> QED
      BY <3>2, <3>3 DEF Window
  <2>3. ASSUME NEW e \in Touched(r.pl, p, c), At(e) = a, Inside(e),
               r.stat[p][a] = Statuses(r.pl, p, e)
        PROVE  \E j \in 0 .. 4 : Window(r.pl, p, CellOf(a), dir_arr[i], j)
    <3>1. e \in Pairs
      BY TouchedAre
    <3>2. CellOf(a) = e
      BY <2>3, <3>1, CellOfAddress, Address
    <3> QED
      BY <1>4, <2>3, <3>1, <3>2, StatusesAre
  <2> QED
    BY <2>2, <2>3 DEF Fresh
<1> QED
  BY <1>4 DEF Honest

\* A move at the border strays, as long as no mark is there: above and below it
\* reads outside the array, and at the ends of a row it finds the free cell of
\* another row.
LEMMA InteriorStep ==
  ASSUME NEW b \in Boards, Interior(b), NEW who \in Players, NEW c \in Moves,
         ~SaysFour(b, who, c), Strays(b, who, c) = {},
         NEW pl, pl = [b.pl EXCEPT ![At(c)] = who]
  PROVE  Inner(At(c))
<1>1. c \in Pairs /\ At(c) \in Addresses
  BY SizeType DEF Moves, calc_cell, Pairs
<1>2. /\ Inside(c)
      /\ \A e \in OffBoard(pl, c) : InArray(e)
      /\ \A p \in OpponentEnds(pl, c) : Inside(p[2])
  BY DEF Strays
<1>3. PICK x \in 0 .. N - 1, y \in 0 .. N - 1 : c = <<x, y>>
  BY <1>1, <1>2 DEF Pairs, Inside, chk_boundaries
<1>4. CellOf(At(c)) = c
  BY <1>1, <1>2, CellOfAddress, Address
<1>5. ASSUME NEW d \in Directions, ~Inside(Step(c, d, 1))
      PROVE  /\ At(Step(c, d, 1)) \in Addresses
             /\ pl[At(Step(c, d, 1))] # None
  <2>1. PICK i \in 1 .. 8 : d = dir_arround[i]
    BY DirArround
  <2>2. PICK e \in Pairs : e = Step(c, d, 1)
    <3>1. \A k \in Int : Step(c, d, k) \in Pairs
      BY <1>1, Steps
    <3> QED
      BY <3>1
  <2>3. 1 \in Visited(pl, the_opponent, c, d, Memory)
    BY DEF Visited
  <2>4. e \in OffBoard(pl, c)
    BY <1>2, <1>5, <2>1, <2>2, <2>3 DEF OffBoard
  <2>5. At(e) \in Addresses /\ InArray(e)
    BY <1>2, <2>4 DEF InArray
  <2>6. e \in Memory
    BY <1>3, <2>2, <2>5, SizeType DEF Memory, Step, Directions
  <2>7. ASSUME pl[At(e)] = None PROVE FALSE
    <3>1. e \in FreeEnd(pl, the_opponent, c, d, Memory)
      BY <2>2, <2>3, <2>6, <2>7 DEF FreeEnd
    <3>2. <<i, e>> \in OpponentEnds(pl, c)
      BY <1>2, <2>1, <3>1 DEF OpponentEnds, Ends
    <3> QED
      BY <1>2, <1>5, <2>2, <3>2
  <2> QED
    BY <2>2, <2>5, <2>7
<1>6. ASSUME NEW d \in Directions, ~Inside(Step(c, d, 1)),
             At(Step(c, d, 1)) \in Addresses, At(Step(c, d, 1)) # At(c)
      PROVE  FALSE
  <2>1. PICK a \in Addresses : a = At(Step(c, d, 1))
    BY <1>6
  <2>2. b.pl[a] # None
    BY <1>1, <1>5, <1>6, <2>1 DEF Boards, Marks
  <2>3. Inner(a)
    BY <2>2 DEF Interior
  <2>4. CellOf(a)[2] \in {0, N - 1}
    BY <1>1, <1>2, <1>6, <2>1, OffEdge
  <2> QED
    BY <2>3, <2>4, SizeType DEF Inner
<1>7. \A d \in Directions : Inside(Step(c, d, 1))
  <2>1. \A d \in Directions : At(Step(c, d, 1)) # At(c)
    BY <1>1, <1>2, AddressSteps
  <2> QED
    BY <1>5, <1>6, <2>1
<1>8. /\ <<1, 0>> \in Directions /\ <<-1, 0>> \in Directions
      /\ <<0, 1>> \in Directions /\ <<0, -1>> \in Directions
  BY DEF Directions
<1>9. x + 1 \in 0 .. N - 1 /\ x - 1 \in 0 .. N - 1 /\ y + 1 \in 0 .. N - 1 /\ y - 1 \in 0 .. N - 1
  <2>1. Inside(Step(c, <<1, 0>>, 1)) /\ Inside(Step(c, <<-1, 0>>, 1))
        /\ Inside(Step(c, <<0, 1>>, 1)) /\ Inside(Step(c, <<0, -1>>, 1))
    BY <1>7, <1>8
  <2> QED
    BY <1>3, <2>1, SizeType DEF Inside, chk_boundaries, Step
<1>10. x \in 1 .. N - 2 /\ y \in 1 .. N - 2
  BY <1>9, SizeType
<1> QED
  BY <1>3, <1>4, <1>10 DEF Inner

\* On a board without marks at the border a cell that is cached as winning is
\* found to be so.
LEMMA MoveFound ==
  ASSUME NEW b, Right(b, {}), b.fgame_on, NEW who \in Players, NEW c \in Moves,
         Inside(c), b.pl[At(c)] = None
  PROVE  ~WinNotFound(b, who, c)
<1>1. /\ b \in Boards /\ Weighed(b) /\ Interior(b) /\ Honest(b, who)
  BY DEF Right
<1>2. c \in Pairs
  BY SizeType DEF Moves, calc_cell, Pairs
<1>3. PICK m \in Addresses : m = At(c) /\ CellOf(m) = c
  BY <1>2, CellOfAddress, Address
<1>4. SUFFICES ASSUME SaysFour(b, who, c) PROVE Found(Placed(b, who, c), who, c)
  BY DEF WinNotFound
<1>5. PICK q : q = Placed(b, who, c)
  OBVIOUS
<1>6. q.pl = [b.pl EXCEPT ![m] = who] /\ q.stat = b.stat
  BY <1>1, <1>3, <1>5, PlacedIs
<1>7. q.pl[m] = who /\ \A a \in Addresses \ {m} : q.pl[a] = b.pl[a]
  BY <1>1, <1>6 DEF Boards, Marks
<1>8. PICK s \in Statuses4 : s = b.stat[who][m]
  BY <1>1 DEF Boards
<1>9. b.weight[who][m] >= 400
  BY <1>3, <1>4, WeightIs DEF SaysFour
<1>10. SumWeight(s) >= 400
  BY <1>1, <1>8, <1>9 DEF Weighed
<1>11. PICK i \in 1 .. 4 : s[i] = "s4"
  BY <1>10, SumWeightIs
<1>12. PICK d \in Directions : d = dir_arr[i]
  BY DirArr
<1>13. PICK j \in 0 .. 4 : Window(b.pl, who, c, d, j)
  BY <1>1, <1>3, <1>8, <1>11, <1>12 DEF Honest
<1>14. ASSUME NEW k \in (-j) .. (4 - j), k # 0
       PROVE  Owns(q.pl, who, Step(c, d, k))
  <2>1. PICK e : e = Step(c, d, k)
    OBVIOUS
  <2>2. Owns(b.pl, who, e)
    BY <1>13, <1>14, <2>1 DEF Window
  <2>3. e \in Pairs
    <3>1. \A x \in Int : Step(c, d, x) \in Pairs
      BY <1>2, Steps
    <3>2. k \in Int
      OBVIOUS
    <3> QED
      BY <2>1, <3>1, <3>2
  <2>4. At(e) \in Addresses
    BY <2>2, <2>3, Address DEF Owns
  <2> QED
    BY <1>7, <2>1, <2>2, <2>4 DEF Owns
<1>15. Window(q.pl, who, c, d, j)
  BY <1>14 DEF Window
<1>16. \A a \in Addresses : q.pl[a] = who /\ a # At(c) => Inner(a)
  <2>1. who # None
    BY DEF Players, None
  <2> QED
    BY <1>1, <1>3, <1>7, <2>1 DEF Interior
<1>17. chek_win_line(q.pl, who, c, d)
  BY <1>2, <1>15, <1>16, LineFound
<1>18. q.stat[who][At(c)][i] = "s4"
  BY <1>3, <1>6, <1>8, <1>11
<1> QED
  BY <1>5, <1>12, <1>17, <1>18 DEF Found

\* A move keeps the board right.
LEMMA MoveRight ==
  ASSUME NEW b, NEW ways, Right(b, ways), NEW who \in Players, NEW c \in Moves,
         b.pl[At(c)] = None
  PROVE  /\ Right(set_move(b, who, c), ways \cup Strays(b, who, c))
         /\ set_move(b, who, c).pl = [b.pl EXCEPT ![At(c)] = who]
         /\ ~SaysFour(b, who, c) => set_move(b, who, c).fgame_on = b.fgame_on
<1>1. PICK m \in Addresses : m = At(c)
  BY DEF Moves
<1>2. b \in Boards /\ Weighed(b)
  BY DEF Right
<1>3. PICK q : q = Placed(b, who, c)
  OBVIOUS
<1>4. /\ q \in Boards
      /\ q.pl = [b.pl EXCEPT ![At(c)] = who]
      /\ q.weight = b.weight /\ q.stat = b.stat /\ q.fgame_on = b.fgame_on
      /\ q.minPosX = b.minPosX /\ q.minPosY = b.minPosY
      /\ q.maxPosX = b.maxPosX /\ q.maxPosY = b.maxPosY
  BY <1>2, <1>3, PlacedIs
<1>5. PICK s : s = ways \cup Strays(b, who, c)
  OBVIOUS
<1>6. c \in Pairs
  BY SizeType DEF Moves, calc_cell, Pairs
<1>7. s = {} => ways = {} /\ Inside(c)
  BY <1>5 DEF Strays
<1>8. b.pl \in Marks /\ b.fgame_on \in BOOLEAN
  BY <1>2 DEF Boards
<1>9. /\ \A p \in Players : Five(b.pl, p) => Five(q.pl, p)
      /\ m \in Fours(b.pl, who) => Five(q.pl, who)
      /\ \A p \in Players : Five(q.pl, p) => Five(b.pl, p) \/ (p = who /\ m \in Fours(b.pl, who))
  BY <1>1, <1>4, <1>8, FiveStep
<1>10. /\ ~b.fgame_on /\ ways = {} => \E p \in Players : Five(b.pl, p)
       /\ b.fgame_on /\ ways \subseteq Harmless(who) => Knows(b, who)
       /\ {} \subseteq Harmless(who)
  BY DEF Right
<1>11. b.fgame_on /\ ways \subseteq Harmless(who) =>
         (SaysFour(b, who, c) <=> m \in Fours(b.pl, who))
  BY <1>1, <1>10, WeightIs DEF Knows, SaysFour
<1>12. CASE SaysFour(b, who, c)
  <2>1. PICK r : r = set_move(b, who, c) /\ r = [q EXCEPT !.fgame_on = FALSE]
    BY <1>3, <1>12 DEF set_move
  <2>2. /\ r \in Boards /\ r.fgame_on = FALSE
        /\ r.pl = q.pl /\ r.weight = q.weight /\ r.stat = q.stat
    BY <1>4, <2>1 DEF Boards
  <2>3. Weighed(r)
    BY <1>2, <1>4, <2>2 DEF Weighed
  <2>4. s = {} => \E p \in Players : Five(r.pl, p)
    BY <1>7, <1>9, <1>10, <1>11, <1>12, <2>2
  <2>5. ASSUME s = {}, NEW p \in Players PROVE Honest(r, p)
    <3>1. Honest(b, p)
      BY <1>7, <2>5 DEF Right
    <3>2. r.pl = [b.pl EXCEPT ![At(c)] = who] /\ r.stat = b.stat
      BY <1>4, <2>2
    <3> QED
      BY <1>2, <2>2, <3>1, <3>2, HonestStep
  <2>6. Right(r, s)
    BY <2>2, <2>3, <2>4, <2>5 DEF Right
  <2> QED
    BY <1>4, <1>5, <1>12, <2>1, <2>2, <2>6
<1>13. CASE ~SaysFour(b, who, c)
  <2>1. PICK r : r = set_move(b, who, c) /\ r = calc_weight_arround(q, c)
    BY <1>3, <1>13 DEF set_move
  <2>2. /\ r \in Boards
        /\ r.pl = q.pl /\ r.fgame_on = q.fgame_on
        /\ Stretched(q, r, c)
        /\ \A p \in Players : Fresh(q, r, p, c)
    BY <1>4, <2>1, PassesAre
  <2>3. /\ Stretched(b, r, c)
        /\ \A p \in Players : Fresh(b, r, p, c)
    BY <1>4, <2>2 DEF Stretched, Fresh
  <2>4. Weighed(r)
    BY <1>2, <2>2, <2>3, WeighedStep
  <2>5. ASSUME NEW p \in Players, r.fgame_on, s \subseteq Harmless(p) PROVE Knows(r, p)
    <3>1. Knows(b, p)
      BY <1>4, <1>5, <2>2, <2>5 DEF Right
    <3>2. Inside(c)
      BY <1>5, <2>5 DEF Harmless, Strays
    <3>3. p = the_opponent => "weight" \notin Strays(b, who, c)
      BY <1>5, <2>5 DEF Harmless, the_player, the_opponent
    <3>4. \A e \in Touched(r.pl, p, c) : Inside(e)
      BY <1>4, <1>13, <2>2, <3>3, TouchedInside
    <3> QED
      BY <1>2, <1>4, <2>2, <2>3, <3>1, <3>2, <3>4, KnowsStep
  <2>6. ASSUME r.fgame_on, "cell" \notin s PROVE InArea(r)
    <3>1. InArea(b)
      BY <1>4, <1>5, <2>2, <2>6 DEF Right
    <3>2. Inside(c)
      BY <1>5, <2>6 DEF Strays
    <3> QED
      BY <1>2, <1>4, <2>2, <2>3, <3>1, <3>2, AreaStep
  <2>7. ASSUME r.fgame_on, s = {} PROVE Interior(r)
    <3>1. Interior(b)
      BY <1>4, <1>7, <2>2, <2>7 DEF Right
    <3>3. Strays(b, who, c) = {}
      BY <1>5, <2>7
    <3>4. Inner(m)
      BY <1>1, <1>2, <1>13, <3>1, <3>3, InteriorStep
    <3>5. \A a \in Addresses \ {m} : r.pl[a] = b.pl[a]
      BY <1>1, <1>4, <1>8, <2>2 DEF Marks
    <3> QED
      BY <3>1, <3>4, <3>5 DEF Interior
  <2>8. ASSUME s = {}, NEW p \in Players PROVE Honest(r, p)
    <3>1. Honest(b, p)
      BY <1>7, <2>8 DEF Right
    <3>2. \A e \in Touched(r.pl, p, c) : Inside(e)
      BY <1>4, <1>5, <1>13, <2>2, <2>8, TouchedInside
    <3>3. r.pl = [b.pl EXCEPT ![At(c)] = who]
      BY <1>4, <2>2
    <3> QED
      BY <1>2, <2>2, <2>3, <3>1, <3>2, <3>3, HonestStep
  <2>9. ASSUME NEW p \in Players, r.fgame_on, s \subseteq Harmless(p), Five(r.pl, p) PROVE FALSE
    <3>1. b.fgame_on /\ ways \subseteq Harmless(p)
      BY <1>4, <1>5, <2>2, <2>9
    <3>2. ~Five(b.pl, p)
      BY <3>1 DEF Right
    <3>3. p = who /\ m \in Fours(b.pl, who)
      BY <1>9, <2>2, <2>9, <3>2
    <3> QED
      BY <1>11, <1>13, <3>1, <3>3
  <2>10. ASSUME ~r.fgame_on, s = {} PROVE \E p \in Players : Five(r.pl, p)
    BY <1>4, <1>7, <1>9, <1>10, <2>2, <2>10
  <2>11. Right(r, s)
    BY <2>2, <2>4, <2>5, <2>6, <2>7, <2>8, <2>9, <2>10 DEF Right
  <2> QED
    BY <1>4, <1>5, <2>1, <2>2, <2>11
<1> QED
  BY <1>12, <1>13

-----------------------------------------------------------------------------
\* The computer's choice.

\* The least and the greatest of some addresses.
LEMMA LeastIs ==
  ASSUME NEW S, S \subseteq Addresses, S # {}
  PROVE  /\ Least(S) \in S /\ \A a \in S : Least(S) <= a
         /\ Greatest(S) \in S
<1>1. S \subseteq Nat
  BY DEF Addresses
<1>2. \E m \in S : \A k \in S : m <= k
  BY <1>1, LeastNumber
<1>3. PICK n \in Nat : Addresses = 0 .. n
  BY SizeType, SMT DEF Addresses
<1>4. \E m \in S : \A k \in S : k <= m
  BY <1>3, GreatestNumber
<1> QED
  BY <1>2, <1>4 DEF Least, Greatest

\* The first addresses of a set.
LEMMA FirstOfIs ==
  ASSUME NEW S, NEW n
  PROVE  /\ FirstOf(S, n) \subseteq S
         /\ n \in Nat \ {0} /\ S \subseteq Addresses /\ S # {} => FirstOf(S, n) # {}
<1>1. FirstOf(S, n) \subseteq S
  BY DEF FirstOf
<1>2. ASSUME n \in Nat \ {0}, S \subseteq Addresses, S # {} PROVE FirstOf(S, n) # {}
  <2>1. PICK m \in S : \A k \in S : m <= k
    BY <1>2, LeastIs
  <2>2. {e \in S : e < m} = {}
    <3>1. \A e \in S : e \in Int /\ m <= e /\ m \in Int
      BY <1>2, <2>1 DEF Addresses
    <3> QED
      BY <3>1
  <2>3. Cardinality({e \in S : e < m}) = 0
    BY <2>2, FS_EmptySet
  <2>4. m \in FirstOf(S, n)
    BY <1>2, <2>3 DEF FirstOf
  <2> QED
    BY <2>4
<1> QED
  BY <1>1, <1>2

\* find_max_weights looks only at free cells of the board.
LEMMA CandidatesAre ==
  ASSUME NEW b \in Boards
  PROVE  Candidates(b) \subseteq {a \in Addresses : b.pl[a] = None}
<1>1. /\ find_start_coorinates(b.minPosX) \in Nat /\ find_start_coorinates(b.minPosY) \in Nat
      /\ find_end_coordinates(b.maxPosX) \in Int /\ find_end_coordinates(b.maxPosX) <= N - 1
      /\ find_end_coordinates(b.maxPosY) \in Int /\ find_end_coordinates(b.maxPosY) <= N - 1
  BY SizeType DEF Boards, find_start_coorinates, find_end_coordinates, Max2, Min2
<1>2. /\ find_start_coorinates(b.minPosX) .. find_end_coordinates(b.maxPosX) \subseteq 0 .. N - 1
      /\ find_start_coorinates(b.minPosY) .. find_end_coordinates(b.maxPosY) \subseteq 0 .. N - 1
  BY <1>1, SizeType
<1>3. \A c \in (find_start_coorinates(b.minPosX) .. find_end_coordinates(b.maxPosX))
               \X (find_start_coorinates(b.minPosY) .. find_end_coordinates(b.maxPosY)) : c \in Board
  BY <1>2 DEF Board
<1> QED
  BY <1>3, Areas DEF Candidates

\* And at every free cell next to a mark.
LEMMA CandidateNear ==
  ASSUME NEW b \in Boards, InArea(b), NEW f \in Pairs, Inside(f), b.pl[At(f)] = None,
         NEW e \in Pairs, Inside(e), b.pl[At(e)] # None,
         e[1] - f[1] \in -1 .. 1, e[2] - f[2] \in -1 .. 1
  PROVE  At(f) \in Candidates(b)
<1>1. CellOf(At(e)) = e /\ At(e) \in Addresses
  BY Address, CellOfAddress
<1>2. /\ e[1] \in b.minPosX .. b.maxPosX
      /\ e[2] \in b.minPosY .. b.maxPosY
  BY <1>1 DEF InArea
<1>3. /\ b.minPosX \in Int /\ b.minPosY \in Int /\ b.maxPosX \in Int /\ b.maxPosY \in Int
      /\ e[1] \in Int /\ e[2] \in Int /\ f[1] \in 0 .. N - 1 /\ f[2] \in 0 .. N - 1
  BY SizeType DEF Boards, Pairs, Inside, chk_boundaries
<1>4. /\ f[1] \in find_start_coorinates(b.minPosX) .. find_end_coordinates(b.maxPosX)
      /\ f[2] \in find_start_coorinates(b.minPosY) .. find_end_coordinates(b.maxPosY)
  BY <1>2, <1>3, SizeType DEF find_start_coorinates, find_end_coordinates, Max2, Min2
<1>5. f = <<f[1], f[2]>>
  BY DEF Pairs
<1>6. f \in (find_start_coorinates(b.minPosX) .. find_end_coordinates(b.maxPosX))
            \X (find_start_coorinates(b.minPosY) .. find_end_coordinates(b.maxPosY))
  BY <1>4, <1>5
<1>7. At(f) \in Addresses
  BY Address
<1> QED
  BY <1>6, <1>7 DEF Candidates

\* The greatest weight of a candidate.
LEMMA MaxWeightIs ==
  ASSUME NEW b \in Boards, Weighed(b), NEW p \in Players
  PROVE  /\ MaxWeight(b, p) \in Nat
         /\ \A a \in Candidates(b) : b.weight[p][a] <= MaxWeight(b, p)
         /\ MaxWeight(b, p) = 0 \/ \E a \in Candidates(b) : b.weight[p][a] = MaxWeight(b, p)
<1> DEFINE V == {0} \cup {b.weight[p][a] : a \in Candidates(b)}
<1>1. \A a \in Addresses : b.weight[p][a] \in 0 .. 1600
  <2>1. \A a \in Addresses : b.stat[p][a] \in Statuses4
    BY DEF Boards
  <2>2. \A a \in Addresses : SumWeight(b.stat[p][a]) \in 0 .. 1600
    BY <2>1, SumWeightIs
  <2> QED
    BY <2>2 DEF Weighed
<1>2. V \subseteq 0 .. 1600 /\ V # {}
  BY <1>1, CandidatesAre
<1>3. \E v \in V : \A w \in V : w <= v
  <2>1. PICK n \in Nat : n = 1600
    OBVIOUS
  <2>2. PICK T : T = V
    OBVIOUS
  <2> HIDE DEF V
  <2>3. T \subseteq 0 .. n /\ T # {}
    BY <1>2, <2>1, <2>2
  <2>4. \E v \in T : \A w \in T : w <= v
    BY <2>3, GreatestNumber, Zenon
  <2> QED
    BY <2>2, <2>4
<1>4. MaxWeight(b, p) = CHOOSE v \in V : \A w \in V : w <= v
  BY DEF MaxWeight, MaxOver
<1>5. MaxWeight(b, p) \in V /\ \A w \in V : w <= MaxWeight(b, p)
  BY <1>3, <1>4
<1>6. PICK n \in V : n = MaxWeight(b, p)
  BY <1>5
<1>7. n \in Nat /\ \A w \in V : w <= n
  BY <1>2, <1>5, <1>6
<1>8. n = 0 \/ \E a \in Candidates(b) : b.weight[p][a] = n
  OBVIOUS
<1> QED
  BY <1>6, <1>7, <1>8

\* The cells of that weight.
LEMMA MaxVIs ==
  ASSUME NEW b \in Boards, Weighed(b), NEW p \in Players
  PROVE  /\ MaxV(b, p) \subseteq {a \in Candidates(b) : b.weight[p][a] = MaxWeight(b, p)}
         /\ MaxWeight(b, p) > 0 => MaxV(b, p) # {}
<1> DEFINE S == {a \in Candidates(b) : b.weight[p][a] = MaxWeight(b, p)}
<1>1. MaxV(b, p) = {} \/ MaxV(b, p) = FirstOf(S, val_arr_size)
  BY DEF MaxV
<1>2. MaxV(b, p) \subseteq S
  BY <1>1, FirstOfIs
<1>3. ASSUME MaxWeight(b, p) > 0 PROVE MaxV(b, p) # {}
  <2>1. MaxV(b, p) = FirstOf(S, val_arr_size)
    BY <1>3, MaxWeightIs DEF MaxV
  <2>2. S # {} /\ S \subseteq Addresses
    BY <1>3, MaxWeightIs, CandidatesAre
  <2>3. val_arr_size \in Nat \ {0}
    BY SizesAssumption
  <2> HIDE DEF S
  <2> QED
    BY <2>1, <2>2, <2>3, FirstOfIs
<1> QED
  BY <1>2, <1>3

\* The computer moves only to free cells.
LEMMA ChoiceFree ==
  ASSUME NEW b \in Boards, Weighed(b)
  PROVE  find_max_weights(b) \subseteq {a \in Addresses : b.pl[a] = None}
<1>1. the_player \in Players /\ the_opponent \in Players
  BY DEF Players, the_player, the_opponent
<1>2. \A p \in Players : MaxV(b, p) \subseteq Candidates(b)
  BY MaxVIs
<1>3. \A p \in Players : MaxWeight(b, p) >= Weight.s4 => Least(MaxV(b, p)) \in Candidates(b)
  <2> SUFFICES ASSUME NEW p \in Players, MaxWeight(b, p) >= Weight.s4
               PROVE  Least(MaxV(b, p)) \in Candidates(b)
    OBVIOUS
  <2>1. MaxWeight(b, p) > 0
    BY MaxWeightIs, WeightIs
  <2>2. MaxV(b, p) # {} /\ MaxV(b, p) \subseteq Addresses
    BY <1>2, <2>1, MaxVIs, CandidatesAre
  <2> QED
    BY <1>2, <2>2, LeastIs
<1>4. MaxSumm(b) \subseteq Candidates(b)
  <2>1. MaxSumm(b) \subseteq MaxV(b, the_player) \cup MaxV(b, the_opponent)
    BY FirstOfIs DEF MaxSumm
  <2> QED
    BY <1>1, <1>2, <2>1
<1>5. find_both_3c(b) \subseteq Candidates(b)
  <2>1. \A p \in Players : Forks(b, p) \subseteq Candidates(b) /\ Forks(b, p) \subseteq Addresses
    BY CandidatesAre DEF Forks
  <2>2. \A p \in Players : Forks(b, p) # {} =>
          Least(Forks(b, p)) \in Candidates(b) /\ Greatest(Forks(b, p)) \in Candidates(b)
    BY <2>1, LeastIs
  <2> QED
    BY <1>1, <1>2, <2>2 DEF find_both_3c
<1>6. find_max_weights(b) \subseteq Candidates(b)
  BY <1>1, <1>2, <1>3, <1>4, <1>5 DEF find_max_weights
<1> QED
  BY <1>6, CandidatesAre

-----------------------------------------------------------------------------
\* The invariant.

Failures == {"no", "fFound", "arr_length"}
Ways     == {"outside", "weight", "cell"}

IInv ==
  /\ Right(gboard, astray)
  /\ pl_move \in Players
  /\ failed \in Failures
  /\ astray \subseteq Ways

\* A board that is right stays so when more moves strayed.
LEMMA RightMore ==
  ASSUME NEW b, NEW ways, Right(b, ways), NEW more, ways \subseteq more
  PROVE  Right(b, more)
<1>1. more = {} => ways = {}
  OBVIOUS
<1>2. \A S : more \subseteq S => ways \subseteq S
  OBVIOUS
<1> QED
  BY <1>1, <1>2 DEF Right

\* A line has a cell besides any of its cells.
LEMMA LinesLong ==
  ASSUME NEW L \in Lines, NEW a
  PROVE  L \ {a} # {}
<1>1. PICK i \in 1 .. 4, s \in Board :
        Inside(Step(s, dir_arr[i], 4)) /\ L = Line(s, i)
  BY DEF Lines
<1>2. PICK d \in Directions : d = dir_arr[i]
  BY DirArr
<1>3. s \in Pairs /\ Inside(s)
  BY Areas
<1>4. Step(s, d, 4) \in Pairs /\ Step(s, d, 0) = s /\ Step(s, d, 4) # Step(s, d, 0)
  <2>1. /\ \A k \in Int : Step(s, d, k) \in Pairs
        /\ \A j, k \in Int : Step(s, d, j) = Step(s, d, k) => j = k
        /\ Step(s, d, 0) = s
    BY <1>3, Steps
  <2> QED
    BY <2>1
<1>5. At(Step(s, d, 4)) # At(s)
  BY <1>1, <1>2, <1>3, <1>4, Address
<1>6. At(Step(s, d, 0)) \in L /\ At(Step(s, d, 4)) \in L
  BY <1>1, <1>2 DEF Line
<1> QED
  BY <1>4, <1>5, <1>6

\* The board of a new game is right.
LEMMA InitRight == Right(init, {})
<1>1. PICK b : b = init
  OBVIOUS
<1>2. /\ b.pl = [a \in Addresses |-> None]
      /\ b.weight = [p \in Players |-> [a \in Addresses |-> 0]]
      /\ b.stat = [p \in Players |-> [a \in Addresses |-> [i \in 1 .. 4 |-> "none"]]]
      /\ b.fgame_on = TRUE
  BY <1>1 DEF init
<1>3. b \in Boards
  <2>1. b.pl \in Marks
    BY <1>2 DEF Marks
  <2>2. b.weight \in [Players -> [Addresses -> Int]]
    BY <1>2
  <2>3. b.stat \in [Players -> [Addresses -> Statuses4]]
    BY <1>2, WeightIs DEF Statuses4
  <2>4. b = [pl |-> b.pl, weight |-> b.weight, stat |-> b.stat,
             minPosX |-> N - 1, minPosY |-> N - 1, maxPosX |-> 0, maxPosY |-> 0,
             fgame_on |-> TRUE]
    BY <1>1 DEF init
  <2>5. N - 1 \in 0 .. N - 1 /\ 0 \in 0 .. N
    BY SizeType
  <2>6. PICK P \in Marks : P = b.pl
    BY <2>1
  <2>7. PICK V \in [Players -> [Addresses -> Int]] : V = b.weight
    BY <2>2
  <2>8. PICK S \in [Players -> [Addresses -> Statuses4]] : S = b.stat
    BY <2>3
  <2>9. PICK m \in 0 .. N - 1 : m = N - 1
    BY <2>5
  <2>10. PICK z \in 0 .. N : z = 0
    BY <2>5
  <2>11. b = [pl |-> P, weight |-> V, stat |-> S, minPosX |-> m, minPosY |-> m,
              maxPosX |-> z, maxPosY |-> z, fgame_on |-> TRUE]
    BY <2>4, <2>6, <2>7, <2>8, <2>9, <2>10
  <2> QED
    BY <2>11 DEF Boards
<1>4. \A p \in Players, a \in Addresses : b.weight[p][a] = 0 /\ b.pl[a] = None
  BY <1>2
<1>5. Weighed(b)
  BY <1>4 DEF Weighed
<1>6. None \notin Players
  BY DEF Players, None
<1>7. ASSUME NEW p \in Players, NEW L \in Lines, NEW a
      PROVE  \E e \in L \ {a} : b.pl[e] # p
  <2>1. PICK e \in L \ {a} : e \in Addresses
    BY LinesLong, LinesInside
  <2> QED
    BY <1>4, <1>6, <2>1
<1>8. \A p \in Players : Knows(b, p)
  <2> SUFFICES ASSUME NEW p \in Players PROVE Knows(b, p)
    OBVIOUS
  <2>1. Fours(b.pl, p) = {}
    BY <1>7 DEF Fours, LinesAt
  <2> QED
    BY <1>4, <2>1 DEF Knows
<1>9. \A p \in Players : ~Five(b.pl, p)
  BY <1>7 DEF Five
<1>10. InArea(b) /\ Interior(b)
  BY <1>2 DEF InArea, Interior
<1>11. \A p \in Players : Honest(b, p)
  BY <1>2 DEF Honest
<1> QED
  BY <1>1, <1>2, <1>3, <1>5, <1>8, <1>9, <1>10, <1>11 DEF Right

\* What a call of set_move, or none, has led to since the handler began.
Outcomes == [board : Boards, won : BOOLEAN, failed : Failures, astray : SUBSET Ways]

\* The outcome r of a move on board b.
Moved(b, who, c, r) ==
  /\ r.board.pl = [b.pl EXCEPT ![At(c)] = who]
  /\ ~r.won => r.board.fgame_on = b.fgame_on

\* A move at a free cell.
LEMMA PlayedIs ==
  ASSUME NEW b, NEW ways, Right(b, ways), NEW who \in Players, NEW c \in Moves,
         b.pl[At(c)] = None, NEW r, r = Played(b, who, c)
  PROVE  /\ r \in Outcomes
         /\ Right(r.board, ways \cup r.astray)
         /\ Moved(b, who, c, r)
<1>1. /\ r.board = set_move(b, who, c) /\ r.won = SaysFour(b, who, c)
      /\ r.failed \in Failures /\ r.astray = Strays(b, who, c)
      /\ r = [board |-> r.board, won |-> r.won, failed |-> r.failed, astray |-> r.astray]
  BY DEF Played, Failures
<1>2. r.astray \subseteq Ways
  BY <1>1 DEF Strays, Ways
<1>3. r.won \in BOOLEAN
  BY <1>1 DEF SaysFour
<1>4. /\ Right(r.board, ways \cup r.astray)
      /\ r.board.pl = [b.pl EXCEPT ![At(c)] = who]
      /\ ~r.won => r.board.fgame_on = b.fgame_on
  BY <1>1, MoveRight
<1>5. r.board \in Boards
  BY <1>4 DEF Right
<1> QED
  BY <1>1, <1>2, <1>3, <1>4, <1>5 DEF Outcomes, Moved

\* The end of a handler.
LEMMA FinishStep ==
  ASSUME IInv, NEW r \in Outcomes, Right(r.board, astray \cup r.astray),
         NEW who \in Players, Finish(r, who)
  PROVE  IInv'
  BY DEF Finish, Outcomes, IInv

\* The cell of a free address is a move.
LEMMA ChoiceMoves ==
  ASSUME NEW b \in Boards, Weighed(b), NEW a \in find_max_weights(b)
  PROVE  /\ CellOf(a) \in Moves /\ Inside(CellOf(a)) /\ At(CellOf(a)) = a
         /\ a \in Addresses /\ b.pl[a] = None
<1>1. a \in Addresses /\ b.pl[a] = None
  BY ChoiceFree
<1>2. CellOf(a) \in Pairs /\ Inside(CellOf(a)) /\ At(CellOf(a)) = a
  BY <1>1, CellOfAddress
<1>3. CellOf(a) \in calc_cell \X calc_cell
  BY <1>2, SizeType DEF Pairs, Inside, chk_boundaries, calc_cell
<1> QED
  BY <1>1, <1>2, <1>3 DEF Moves

\* The computer's answer.
LEMMA ComputerStep ==
  ASSUME IInv, NEW r \in Outcomes, Right(r.board, astray \cup r.astray),
         NEW turn \in [BOOLEAN -> Players], Computer(r, turn)
  PROVE  IInv'
<1>1. r.board \in Boards /\ Weighed(r.board)
  BY DEF Right
<1>2. CASE Finish([r EXCEPT !.failed = "arr_length"], "O")
  <2>1. PICK q : q = [r EXCEPT !.failed = "arr_length"]
    OBVIOUS
  <2>2. q \in Outcomes /\ q.board = r.board /\ q.astray = r.astray
    BY <2>1 DEF Outcomes, Failures
  <2>3. "O" \in Players
    BY DEF Players
  <2> QED
    BY <1>2, <2>1, <2>2, <2>3, FinishStep
<1>3. ASSUME NEW a \in find_max_weights(r.board),
             FinishBoth(r, Played(r.board, "O", CellOf(a)), turn)
      PROVE  IInv'
  <2>1. PICK c : c = CellOf(a)
    OBVIOUS
  <2>2. c \in Moves /\ r.board.pl[At(c)] = None
    BY <1>1, <2>1, ChoiceMoves
  <2>3. PICK q : q = Played(r.board, "O", c)
    OBVIOUS
  <2>4. PICK ways : ways = astray \cup r.astray
    OBVIOUS
  <2>5. q \in Outcomes /\ Right(q.board, ways \cup q.astray)
    <3>1. "O" \in Players /\ Right(r.board, ways)
      BY <2>4 DEF Players
    <3> QED
      BY <2>2, <2>3, <3>1, PlayedIs
  <2>6. PICK s : s = [q EXCEPT !.astray = @ \cup r.astray]
    OBVIOUS
  <2>7. s \in Outcomes /\ s.board = q.board /\ s.astray = q.astray \cup r.astray
    BY <2>5, <2>6 DEF Outcomes
  <2>8. astray \cup s.astray = ways \cup q.astray
    BY <2>4, <2>7
  <2>9. turn[q.won] \in Players
    BY <2>5 DEF Outcomes
  <2>10. Finish(s, turn[q.won])
    BY <1>3, <2>1, <2>3, <2>6 DEF FinishBoth
  <2> QED
    BY <2>5, <2>7, <2>8, <2>9, <2>10, FinishStep
<1> QED
  BY <1>2, <1>3 DEF Computer

\* The user's move and the answer.
LEMMA AnswerStep ==
  ASSUME IInv, NEW r \in Outcomes, Right(r.board, astray \cup r.astray),
         NEW auto, Answer(r, auto)
  PROVE  IInv'
<1>1. pl_move \in Players /\ Other(pl_move) \in Players
  BY DEF IInv, Other, Players
<1>2. PICK turn : turn = [won \in BOOLEAN |-> IF won THEN "O" ELSE "X"]
  OBVIOUS
<1>3. turn \in [BOOLEAN -> Players]
  BY <1>2 DEF Players
<1>4. CASE Finish(r, pl_move)
  BY <1>1, <1>4, FinishStep
<1>5. CASE Computer(r, turn)
  BY <1>3, <1>5, ComputerStep
<1>6. CASE Finish(r, Other(pl_move))
  BY <1>1, <1>6, FinishStep
<1> QED
  BY <1>2, <1>4, <1>5, <1>6 DEF Answer

\* The program starts in the invariant.
LEMMA InitIInv == Init => IInv
  BY InitRight DEF Init, IInv, Players, Failures

\* And every handler keeps it.
LEMMA NextIInv == IInv /\ [Next]_vars => IInv'
<1> SUFFICES ASSUME IInv, [Next]_vars PROVE IInv'
  OBVIOUS
<1>1. Right(gboard, astray) /\ gboard \in Boards /\ pl_move \in Players
  BY DEF IInv, Right
<1>2. \A c \in Clicks[pl_move] : c \in calc_cell \X calc_cell
  BY <1>1, ClicksAssumption
<1>3. ASSUME NEW c \in Clicks[pl_move], NEW auto, mouse_pressed(c, auto) PROVE IInv'
  <2>1. c \in Moves /\ gboard.pl[At(c)] = None
    BY <1>2, <1>3 DEF mouse_pressed, InArray, Moves
  <2>2. PICK r : r = Played(gboard, pl_move, c)
    OBVIOUS
  <2>3. r \in Outcomes /\ Right(r.board, astray \cup r.astray)
    BY <1>1, <2>1, <2>2, PlayedIs
  <2>4. Answer(r, auto)
    BY <1>3, <2>2 DEF mouse_pressed
  <2> QED
    BY <2>3, <2>4, AnswerStep
<1>4. ASSUME NEW c \in Clicks[pl_move], ClickOutside(c) PROVE IInv'
  <2>1. astray' = astray \cup {"outside"} /\ gboard' = gboard /\ pl_move' = pl_move
        /\ failed' = failed
    BY <1>4 DEF ClickOutside
  <2>2. Right(gboard, astray \cup {"outside"})
    BY <1>1, RightMore
  <2> QED
    BY <2>1, <2>2 DEF IInv, Ways
<1>5. CASE on_startButton_pressed
  BY <1>5, InitRight DEF on_startButton_pressed, IInv, Players
<1>6. CASE on_but_comp_pressed
  <2>1. PICK turn : turn = [won \in BOOLEAN |-> "X"]
    OBVIOUS
  <2>2. turn \in [BOOLEAN -> Players]
    BY <2>1 DEF Players
  <2>3. PICK r : r = [board |-> gboard, won |-> FALSE, failed |-> "no", astray |-> {}]
    OBVIOUS
  <2>4. r \in Outcomes /\ r.board = gboard /\ astray \cup r.astray = astray
    BY <1>1, <2>3 DEF Outcomes, Failures
  <2>5. Computer(r, turn)
    BY <1>6, <2>1, <2>3 DEF on_but_comp_pressed
  <2> QED
    BY <1>1, <2>2, <2>4, <2>5, ComputerStep
<1>7. CASE on_but_calculate_pressed
  BY <1>7 DEF on_but_calculate_pressed, IInv, Failures
<1>8. CASE UNCHANGED vars
  BY <1>8 DEF vars, IInv
<1> QED
  BY <1>3, <1>4, <1>5, <1>6, <1>7, <1>8 DEF Next

-----------------------------------------------------------------------------
\* The computer's move where a cell wins.

\* A winning cell is next to a mark, so the computer looks at it.
LEMMA FourNear ==
  ASSUME NEW b \in Boards, InArea(b), NEW p \in Players, NEW f \in Fours(b.pl, p)
  PROVE  f \in Candidates(b)
<1>1. f \in Addresses /\ b.pl[f] = None
      /\ \E L \in LinesAt[f] : \A e \in L \ {f} : b.pl[e] = p
  BY DEF Fours
<1>2. PICK c \in Pairs : Inside(c) /\ At(c) = f
  BY <1>1, CellOfAddress
<1>3. PICK i \in 1 .. 4, j \in 0 .. 4 : Window(b.pl, p, c, dir_arr[i], j)
  BY <1>1, <1>2, WindowOfLine
<1>4. PICK d \in Directions : d = dir_arr[i]
  BY DirArr
<1>5. PICK k \in {-1, 1} : k \in (-j) .. (4 - j)
  <2>1. CASE j <= 3
    BY <2>1
  <2>2. CASE j = 4
    BY <2>2
  <2> QED
    BY <2>1, <2>2
<1>6. k \in Int /\ k # 0
  OBVIOUS
<1>7. Owns(b.pl, p, Step(c, d, k))
  BY <1>3, <1>4, <1>5, <1>6 DEF Window
<1>8. PICK e \in Pairs : e = Step(c, d, k)
  <2>1. \A x \in Int : Step(c, d, x) \in Pairs
    BY Steps
  <2> QED
    BY <1>6, <2>1
<1>9. e[1] - c[1] \in -1 .. 1 /\ e[2] - c[2] \in -1 .. 1
  BY <1>8 DEF Step, Directions, Pairs
<1>10. Inside(e) /\ b.pl[At(e)] # None
  BY <1>7, <1>8 DEF Owns, Players, None
<1> QED
  BY <1>1, <1>2, <1>9, <1>10, CandidateNear

\* The greatest weight tells whether a cell wins, and the first cell of that
\* weight is then one.
LEMMA MaxFour ==
  ASSUME NEW b \in Boards, Weighed(b), InArea(b), NEW p \in Players, Knows(b, p)
  PROVE  /\ MaxWeight(b, p) >= 400 <=> Fours(b.pl, p) # {}
         /\ MaxWeight(b, p) >= 400 => Least(MaxV(b, p)) \in Fours(b.pl, p)
<1>1. PICK n \in Nat : n = MaxWeight(b, p)
  BY MaxWeightIs
<1>2. /\ \A a \in Candidates(b) : b.weight[p][a] <= n
      /\ n = 0 \/ \E a \in Candidates(b) : b.weight[p][a] = n
  BY <1>1, MaxWeightIs
<1>3. \A a \in Addresses : b.pl[a] = None => (a \in Fours(b.pl, p) <=> b.weight[p][a] >= 400)
  BY DEF Knows
<1>4. Candidates(b) \subseteq {a \in Addresses : b.pl[a] = None}
  BY CandidatesAre
<1>5. \A a \in Addresses : b.weight[p][a] \in Int
  BY DEF Boards
<1>6. ASSUME n >= 400 PROVE Fours(b.pl, p) # {}
  <2>1. PICK a \in Candidates(b) : b.weight[p][a] = n
    BY <1>2, <1>6
  <2> QED
    BY <1>3, <1>4, <1>6, <2>1
<1>7. ASSUME NEW f \in Fours(b.pl, p) PROVE n >= 400
  <2>1. f \in Candidates(b)
    BY FourNear
  <2>2. b.weight[p][f] >= 400 /\ b.weight[p][f] <= n /\ b.weight[p][f] \in Int
    BY <1>2, <1>3, <1>4, <1>5, <2>1
  <2> QED
    BY <2>2
<1>8. ASSUME n >= 400 PROVE Least(MaxV(b, p)) \in Fours(b.pl, p)
  <2>1. MaxV(b, p) \subseteq {a \in Candidates(b) : b.weight[p][a] = n}
    BY <1>1, MaxVIs
  <2>2. MaxV(b, p) # {}
    BY <1>1, <1>8, MaxVIs
  <2>3. MaxV(b, p) \subseteq Addresses
    BY <1>4, <2>1
  <2>4. Least(MaxV(b, p)) \in MaxV(b, p)
    BY <2>2, <2>3, LeastIs
  <2> QED
    BY <1>3, <1>4, <1>8, <2>1, <2>4
<1> QED
  BY <1>1, <1>6, <1>7, <1>8

\* What PlaysFour asks of the computer's choice a on a board with the marks pl,
\* straight if no move of the game strayed.
Wise(pl, a, straight) ==
  IF Fours(pl, "O") # {} THEN a \in Fours(pl, "O")
  ELSE straight /\ Fours(pl, "X") # {} => a \in Fours(pl, "X")

\* On a board that is right find_max_weights chooses wisely.
LEMMA ChoiceWise ==
  ASSUME NEW b, NEW ways, ways \subseteq Harmless("O"), Right(b, ways), b.fgame_on,
         NEW a \in find_max_weights(b)
  PROVE  Wise(b.pl, a, ways = {})
<1>1. the_player = "O" /\ the_opponent = "X" /\ "O" \in Players /\ "X" \in Players
  BY DEF the_player, the_opponent, Players
<1>2. /\ b \in Boards /\ Weighed(b) /\ InArea(b) /\ Knows(b, "O")
      /\ ways = {} => Knows(b, "X")
  BY <1>1 DEF Right, Harmless
<1>3. /\ MaxWeight(b, "O") >= 400 <=> Fours(b.pl, "O") # {}
      /\ MaxWeight(b, "O") >= 400 => Least(MaxV(b, "O")) \in Fours(b.pl, "O")
  BY <1>1, <1>2, MaxFour
<1>4. ASSUME ways = {}
      PROVE  /\ MaxWeight(b, "X") >= 400 <=> Fours(b.pl, "X") # {}
             /\ MaxWeight(b, "X") >= 400 => Least(MaxV(b, "X")) \in Fours(b.pl, "X")
  BY <1>1, <1>2, <1>4, MaxFour
<1>5. /\ MaxWeight(b, "O") >= 400 => find_max_weights(b) = {Least(MaxV(b, "O"))}
      /\ ~(MaxWeight(b, "O") >= 400) /\ MaxWeight(b, "X") >= 400 =>
           find_max_weights(b) = {Least(MaxV(b, "X"))}
  BY <1>1, WeightIs DEF find_max_weights
<1> QED
  BY <1>3, <1>4, <1>5 DEF Wise

\* A move of the computer on board r.board, by its marks.
LEMMA ComputerPlays ==
  ASSUME NEW r \in Outcomes, Right(r.board, astray \cup r.astray), r.board.fgame_on,
         NEW turn, Computer(r, turn), astray' \subseteq Harmless("O")
  PROVE  \/ gboard' = r.board
         \/ \E a \in Addresses : /\ r.board.pl[a] = None /\ Wise(r.board.pl, a, astray' = {})
                                 /\ gboard'.pl = [r.board.pl EXCEPT ![a] = "O"]
<1>1. r.board \in Boards /\ Weighed(r.board)
  BY DEF Right
<1>2. CASE Finish([r EXCEPT !.failed = "arr_length"], "O")
  BY <1>2 DEF Finish, Outcomes
<1>3. ASSUME NEW a \in find_max_weights(r.board),
             FinishBoth(r, Played(r.board, "O", CellOf(a)), turn)
      PROVE  \E e \in Addresses : /\ r.board.pl[e] = None /\ Wise(r.board.pl, e, astray' = {})
                                  /\ gboard'.pl = [r.board.pl EXCEPT ![e] = "O"]
  <2>1. PICK c : c = CellOf(a)
    OBVIOUS
  <2>2. c \in Moves /\ At(c) = a /\ a \in Addresses /\ r.board.pl[a] = None
    BY <1>1, <2>1, ChoiceMoves
  <2>3. PICK q : q = Played(r.board, "O", c)
    OBVIOUS
  <2>4. PICK ways : ways = astray \cup r.astray
    OBVIOUS
  <2>5. q \in Outcomes /\ q.board.pl = [r.board.pl EXCEPT ![a] = "O"]
    <3>1. "O" \in Players /\ Right(r.board, ways)
      BY <2>4 DEF Players
    <3>2. r.board.pl[At(c)] = None
      BY <2>2
    <3>3. q \in Outcomes /\ Moved(r.board, "O", c, q)
      BY <2>2, <2>3, <3>1, <3>2, PlayedIs
    <3> QED
      BY <2>2, <3>3 DEF Moved
  <2>6. PICK s : s = [q EXCEPT !.astray = @ \cup r.astray]
    OBVIOUS
  <2>7. s.board = q.board /\ s.astray = q.astray \cup r.astray
    BY <2>5, <2>6 DEF Outcomes
  <2>8. Finish(s, turn[q.won])
    BY <1>3, <2>1, <2>3, <2>6 DEF FinishBoth
  <2>9. gboard'.pl = [r.board.pl EXCEPT ![a] = "O"] /\ astray' = astray \cup s.astray
    BY <2>5, <2>7, <2>8 DEF Finish
  <2>10. ways \subseteq Harmless("O") /\ (astray' = {} => ways = {})
    BY <2>4, <2>7, <2>9
  <2>11. Wise(r.board.pl, a, ways = {})
    BY <2>4, <2>10, ChoiceWise
  <2>12. Wise(r.board.pl, a, astray' = {})
    BY <2>10, <2>11 DEF Wise
  <2> QED
    BY <2>2, <2>9, <2>12
<1> QED
  BY <1>2, <1>3 DEF Computer

\* The marks the computer sees when it moves.
Seen == [a \in Addresses |-> IF a \in Added("X") THEN "X" ELSE gboard.pl[a]]

\* A step of X alone adds no mark of O.
LEMMA NoAnswer ==
  ASSUME gboard.pl \in Marks, NEW m \in Addresses,
         gboard'.pl = [gboard.pl EXCEPT ![m] = "X"]
  PROVE  Added("O") = {}
  BY DEF Added, Marks, None

\* After X's move at m, if it made one, the computer's move at a is the only
\* mark of O that the step adds, and it saw X's.
LEMMA AnswerSeen ==
  ASSUME gboard.pl \in Marks, NEW pl \in Marks,
         pl = gboard.pl \/ \E m \in Addresses : gboard.pl[m] = None /\ pl = [gboard.pl EXCEPT ![m] = "X"],
         NEW a \in Addresses, pl[a] = None, gboard'.pl = [pl EXCEPT ![a] = "O"]
  PROVE  Added("O") = {a} /\ Seen = pl
<1>1. PICK g \in Marks : g = gboard.pl
  OBVIOUS
<1>2. PICK h \in Marks : h = gboard'.pl /\ h = [pl EXCEPT ![a] = "O"]
  BY DEF Marks, Players
<1>3. Added("O") = {e \in Addresses : g[e] = None /\ h[e] = "O"}
      /\ Added("X") = {e \in Addresses : g[e] = None /\ h[e] = "X"}
      /\ Seen = [e \in Addresses |-> IF e \in Added("X") THEN "X" ELSE g[e]]
  BY <1>1, <1>2 DEF Added, Seen
<1>4. "O" # None /\ "X" # None
  BY DEF None
<1>5. h[a] = "O" /\ \A e \in Addresses \ {a} : h[e] = pl[e]
  BY <1>2 DEF Marks
<1>6. CASE pl = g
  <2>1. Added("O") = {a} /\ Added("X") = {}
    BY <1>3, <1>4, <1>5, <1>6
  <2>2. Seen = [e \in Addresses |-> g[e]]
    BY <1>3, <2>1
  <2> QED
    BY <1>6, <2>1, <2>2 DEF Marks
<1>7. ASSUME NEW m \in Addresses, g[m] = None, pl = [g EXCEPT ![m] = "X"]
      PROVE  Added("O") = {a} /\ Seen = pl
  <2>1. pl[m] = "X" /\ \A e \in Addresses \ {m} : pl[e] = g[e]
    BY <1>7 DEF Marks
  <2>2. a # m
    BY <1>4, <2>1
  <2>3. Added("O") = {a} /\ Added("X") = {m}
    BY <1>3, <1>4, <1>5, <1>7, <2>1, <2>2
  <2>4. \A e \in Addresses : Seen[e] = pl[e]
    BY <1>3, <2>1, <2>3
  <2>5. Seen = [e \in Addresses |-> pl[e]]
    BY <1>3, <2>4
  <2> QED
    BY <2>3, <2>5 DEF Marks
<1> QED
  BY <1>1, <1>6, <1>7

\* When the computer moves it moves wisely.
LEMMA WiseStep ==
  ASSUME IInv, [Next]_vars, gboard.fgame_on, astray' \subseteq Harmless("O"),
         pl_move = "X" \/ on_but_comp_pressed
  PROVE  \A a \in Added("O") : Wise(Seen, a, astray' = {})
<1>1. Right(gboard, astray) /\ gboard.pl \in Marks
  BY DEF IInv, Right, Boards
<1>2. "X" \in Players /\ "X" # "O" /\ None # "O"
  BY DEF Players, None
<1>3. ASSUME NEW r \in Outcomes, Right(r.board, astray \cup r.astray), r.board.fgame_on,
             \/ r.board.pl = gboard.pl
             \/ \E m \in Addresses : gboard.pl[m] = None /\ r.board.pl = [gboard.pl EXCEPT ![m] = "X"],
             NEW turn, Computer(r, turn)
      PROVE  \A a \in Added("O") : Wise(Seen, a, astray' = {})
  <2>1. PICK pl \in Marks : pl = r.board.pl
    BY DEF Outcomes, Boards
  <2>2. CASE gboard' = r.board
    <3>1. gboard'.pl = gboard.pl
          \/ \E m \in Addresses : gboard'.pl = [gboard.pl EXCEPT ![m] = "X"]
      BY <1>3, <2>2
    <3>2. Added("O") = {}
      BY <1>1, <1>2, <3>1, NoAnswer DEF Added
    <3> QED
      BY <3>2
  <2>3. ASSUME NEW a \in Addresses, pl[a] = None, Wise(pl, a, astray' = {}),
               gboard'.pl = [pl EXCEPT ![a] = "O"]
        PROVE  \A e \in Added("O") : Wise(Seen, e, astray' = {})
    <3>1. pl = gboard.pl
          \/ \E m \in Addresses : gboard.pl[m] = None /\ pl = [gboard.pl EXCEPT ![m] = "X"]
      BY <1>3, <2>1
    <3>2. Added("O") = {a} /\ Seen = pl
      BY <1>1, <2>3, <3>1, AnswerSeen
    <3> QED
      BY <2>3, <3>2
  <2>4. \/ gboard' = r.board
        \/ \E a \in Addresses : /\ r.board.pl[a] = None /\ Wise(r.board.pl, a, astray' = {})
                                /\ gboard'.pl = [r.board.pl EXCEPT ![a] = "O"]
    BY <1>3, ComputerPlays
  <2> QED
    BY <2>1, <2>2, <2>3, <2>4
<1>4. ASSUME gboard'.pl = gboard.pl PROVE Added("O") = {}
  BY <1>2, <1>4 DEF Added
<1>5. CASE on_but_comp_pressed
  <2>1. PICK turn : turn = [won \in BOOLEAN |-> "X"]
    OBVIOUS
  <2>2. PICK r : r = [board |-> gboard, won |-> FALSE, failed |-> "no", astray |-> {}]
    OBVIOUS
  <2>3. r \in Outcomes /\ r.board = gboard /\ astray \cup r.astray = astray
    BY <1>1, <2>2 DEF Outcomes, Failures, Right
  <2>4. Computer(r, turn)
    BY <1>5, <2>1, <2>2 DEF on_but_comp_pressed
  <2> QED
    BY <1>1, <1>3, <2>3, <2>4
<1>6. ASSUME NEW c \in Clicks[pl_move], NEW auto, pl_move = "X", mouse_pressed(c, auto)
      PROVE  \A a \in Added("O") : Wise(Seen, a, astray' = {})
  <2>1. c \in Moves /\ gboard.pl[At(c)] = None /\ At(c) \in Addresses
    BY <1>2, <1>6, ClicksAssumption DEF mouse_pressed, InArray, Moves
  <2>2. PICK r : r = Played(gboard, pl_move, c)
    OBVIOUS
  <2>3. /\ r \in Outcomes /\ Right(r.board, astray \cup r.astray)
        /\ r.board.pl = [gboard.pl EXCEPT ![At(c)] = "X"]
        /\ ~r.won => r.board.fgame_on = gboard.fgame_on
    <3>1. pl_move \in Players
      BY <1>2, <1>6
    <3>2. /\ r \in Outcomes /\ Right(r.board, astray \cup r.astray)
          /\ Moved(gboard, pl_move, c, r)
      BY <1>1, <2>1, <2>2, <3>1, PlayedIs
    <3> QED
      BY <1>6, <3>2 DEF Moved
  <2>4. Answer(r, auto)
    BY <1>6, <2>2 DEF mouse_pressed
  <2>5. CASE \E who : Finish(r, who)
    <3>1. gboard'.pl = [gboard.pl EXCEPT ![At(c)] = "X"]
      BY <2>3, <2>5 DEF Finish
    <3> QED
      BY <1>1, <2>1, <3>1, NoAnswer
  <2>6. CASE ~r.won /\ \E turn : Computer(r, turn)
    BY <1>3, <2>1, <2>3, <2>6
  <2> QED
    BY <2>4, <2>5, <2>6 DEF Answer
<1>7. ASSUME NEW c \in Clicks[pl_move], ClickOutside(c)
      PROVE  \A a \in Added("O") : Wise(Seen, a, astray' = {})
  BY <1>4, <1>7 DEF ClickOutside
<1>8. CASE on_startButton_pressed
  <2>1. gboard'.pl = [a \in Addresses |-> None]
    BY <1>8 DEF on_startButton_pressed, init
  <2> QED
    BY <1>2, <2>1 DEF Added
<1>9. CASE on_but_calculate_pressed
  BY <1>4, <1>9 DEF on_but_calculate_pressed
<1>10. CASE UNCHANGED vars
  BY <1>4, <1>10 DEF vars
<1> QED
  BY <1>5, <1>6, <1>7, <1>8, <1>9, <1>10 DEF Next

-----------------------------------------------------------------------------
\* The five that ends the game.

\* A move on a board that is right, where none strays, fails no assertion.
LEMMA PlayedFound ==
  ASSUME NEW b, NEW ways, Right(b, ways), b.fgame_on, NEW who \in Players, NEW c \in Moves,
         b.pl[At(c)] = None, NEW r, r = Played(b, who, c), ways \cup r.astray = {}
  PROVE  r.failed = "no"
<1>1. /\ r.astray = Strays(b, who, c)
      /\ r.failed = IF WinNotFound(b, who, c) /\ "outside" \notin Strays(b, who, c)
                    THEN "fFound" ELSE "no"
  BY DEF Played
<1>2. Inside(c) /\ ways = {}
  BY <1>1 DEF Strays
<1>3. ~WinNotFound(b, who, c)
  BY <1>2, MoveFound
<1> QED
  BY <1>1, <1>3

\* Nor does the computer's.
LEMMA ComputerFound ==
  ASSUME NEW r \in Outcomes, Right(r.board, astray \cup r.astray), r.board.fgame_on,
         NEW turn, Computer(r, turn), astray' = {}
  PROVE  failed' # "fFound"
<1>1. r.board \in Boards /\ Weighed(r.board)
  BY DEF Right
<1>2. CASE Finish([r EXCEPT !.failed = "arr_length"], "O")
  BY <1>2 DEF Finish, Outcomes
<1>3. ASSUME NEW a \in find_max_weights(r.board),
             FinishBoth(r, Played(r.board, "O", CellOf(a)), turn)
      PROVE  failed' = "no"
  <2>1. PICK c : c = CellOf(a)
    OBVIOUS
  <2>2. c \in Moves /\ r.board.pl[At(c)] = None
    BY <1>1, <2>1, ChoiceMoves
  <2>3. PICK q : q = Played(r.board, "O", c)
    OBVIOUS
  <2>4. PICK ways : ways = astray \cup r.astray
    OBVIOUS
  <2>5. "O" \in Players /\ Right(r.board, ways)
    BY <2>4 DEF Players
  <2>6. q \in Outcomes
    BY <2>2, <2>3, <2>5, PlayedIs
  <2>7. PICK s : s = [q EXCEPT !.astray = @ \cup r.astray]
    OBVIOUS
  <2>8. s.failed = q.failed /\ s.astray = q.astray \cup r.astray
    BY <2>6, <2>7 DEF Outcomes
  <2>9. Finish(s, turn[q.won])
    BY <1>3, <2>1, <2>3, <2>7 DEF FinishBoth
  <2>10. failed' = q.failed /\ astray' = astray \cup s.astray
    BY <2>8, <2>9 DEF Finish
  <2>11. ways \cup q.astray = {}
    BY <2>4, <2>8, <2>10
  <2> QED
    BY <2>2, <2>3, <2>5, <2>10, <2>11, PlayedFound
<1> QED
  BY <1>2, <1>3 DEF Computer

\* While the game is on and no move strays no handler finds its assertion wrong.
LEMMA FoundStep ==
  ASSUME IInv, Next, gboard.fgame_on, astray' = {}
  PROVE  failed' # "fFound"
<1>1. Right(gboard, astray) /\ pl_move \in Players /\ gboard \in Boards
  BY DEF IInv, Right
<1>2. ASSUME NEW c \in Clicks[pl_move], NEW auto, mouse_pressed(c, auto)
      PROVE  failed' # "fFound"
  <2>1. c \in Moves /\ gboard.pl[At(c)] = None
    BY <1>1, <1>2, ClicksAssumption DEF mouse_pressed, InArray, Moves
  <2>2. PICK r : r = Played(gboard, pl_move, c)
    OBVIOUS
  <2>3. /\ r \in Outcomes /\ Right(r.board, astray \cup r.astray)
        /\ ~r.won => r.board.fgame_on
    <3>1. /\ r \in Outcomes /\ Right(r.board, astray \cup r.astray)
          /\ Moved(gboard, pl_move, c, r)
      BY <1>1, <2>1, <2>2, PlayedIs
    <3> QED
      BY <3>1 DEF Moved
  <2>4. Answer(r, auto)
    BY <1>2, <2>2 DEF mouse_pressed
  <2>5. CASE \E who : Finish(r, who)
    <3>1. failed' = r.failed /\ astray \cup r.astray = {}
      BY <2>5 DEF Finish
    <3>2. r.failed = "no"
      BY <1>1, <2>1, <2>2, <3>1, PlayedFound
    <3> QED
      BY <3>1, <3>2
  <2>6. CASE ~r.won /\ \E turn : Computer(r, turn)
    BY <2>3, <2>6, ComputerFound
  <2> QED
    BY <2>4, <2>5, <2>6 DEF Answer
<1>3. ASSUME NEW c \in Clicks[pl_move], ClickOutside(c) PROVE FALSE
  BY <1>3 DEF ClickOutside
<1>4. CASE on_startButton_pressed
  BY <1>4 DEF on_startButton_pressed, Running
<1>5. CASE on_but_comp_pressed
  <2>1. PICK turn : turn = [won \in BOOLEAN |-> "X"]
    OBVIOUS
  <2>2. PICK r : r = [board |-> gboard, won |-> FALSE, failed |-> "no", astray |-> {}]
    OBVIOUS
  <2>3. r \in Outcomes /\ r.board = gboard /\ astray \cup r.astray = astray
    BY <1>1, <2>2 DEF Outcomes, Failures
  <2>4. Computer(r, turn)
    BY <1>5, <2>1, <2>2 DEF on_but_comp_pressed
  <2> QED
    BY <1>1, <2>3, <2>4, ComputerFound
<1>6. CASE on_but_calculate_pressed
  BY <1>6 DEF on_but_calculate_pressed
<1> QED
  BY <1>2, <1>3, <1>4, <1>5, <1>6 DEF Next

-----------------------------------------------------------------------------
\* The theorems.

\* What the invariant says of each property.
LEMMA Consequences ==
  ASSUME IInv
  PROVE  TypeOK /\ FourFresh /\ WinDetected
<1>1. /\ gboard \in Boards /\ Weighed(gboard)
      /\ \A p \in Players : gboard.fgame_on /\ astray \subseteq Harmless(p) => Knows(gboard, p)
      /\ \A p \in Players : gboard.fgame_on /\ astray \subseteq Harmless(p) => ~Five(gboard.pl, p)
      /\ ~gboard.fgame_on /\ astray = {} => \E p \in Players : Five(gboard.pl, p)
      /\ pl_move \in Players /\ failed \in Failures /\ astray \subseteq Ways
  BY DEF IInv, Right
<1>2. TypeOK
  <2>1. /\ gboard.pl \in [Addresses -> Players \cup {None}]
        /\ {gboard.minPosX, gboard.minPosY} \subseteq 0 .. N - 1
        /\ {gboard.maxPosX, gboard.maxPosY} \subseteq 0 .. N
        /\ gboard.fgame_on \in BOOLEAN
        /\ \A who \in Players, a \in Addresses : gboard.stat[who][a] \in Statuses4
    BY <1>1 DEF Boards, Marks
  <2> QED
    BY <1>1, <2>1 DEF TypeOK, Weighed, Failures, Ways
<1>3. FourFresh
  BY <1>1, WeightIs DEF FourFresh, Knows, Harmless
<1>4. WinDetected
  BY <1>1 DEF WinDetected
<1> QED
  BY <1>2, <1>3, <1>4

\* The state is of its type, and each cached weight is reset or that of the
\* statuses cached with it (Gboard::calc_weight_arround).
THEOREM TypeCorrect == Spec => []TypeOK
<1>1. IInv => TypeOK
  BY Consequences
<1> QED
  BY <1>1, InitIInv, NextIInv, PTL DEF Spec

\* While the game is on the cached weights of a player reach four on exactly the
\* cells where the next move wins (Gboard::calc_weight_arround recalculates at
\* most eight cells).
THEOREM FreshFours == Spec => []FourFresh
<1>1. IInv => FourFresh
  BY Consequences
<1> QED
  BY <1>1, InitIInv, NextIInv, PTL DEF Spec

\* The game does not go on after a five of a player whose weights are right, and
\* ends only with one (Gboard::chek_win_situation reads the cache only).
THEOREM WinSeen == Spec => []WinDetected
<1>1. IInv => WinDetected
  BY Consequences
<1> QED
  BY <1>1, InitIInv, NextIInv, PTL DEF Spec

\* The computer takes a winning cell, or else one where X would win
\* (Gboard::find_max_weights).
THEOREM FourTaken == Spec => PlaysFour
<1>1. IInv /\ [Next]_vars =>
        [(gboard.fgame_on /\ astray' \subseteq Harmless("O") /\ (pl_move = "X" \/ on_but_comp_pressed)) =>
           LET seen == [a \in Addresses |-> IF a \in Added("X") THEN "X" ELSE gboard.pl[a]]
           IN  \A a \in Added("O") :
                 IF Fours(seen, "O") # {} THEN a \in Fours(seen, "O")
                 ELSE astray' = {} /\ Fours(seen, "X") # {} => a \in Fours(seen, "X")]_vars
  BY WiseStep DEF Wise, Seen
<1> QED
  BY <1>1, InitIInv, NextIInv, PTL DEF Spec, PlaysFour

\* The move that ends a game in which none strayed is found to make five
\* (Gboard::chek_win_situation, the assertion at line 854).
THEOREM FiveFound == Spec => FirstFiveFound
<1>1. IInv /\ [Next]_vars =>
        [gboard.fgame_on /\ astray' = {} => failed' # "fFound"]_vars
  BY FoundStep
<1> QED
  BY <1>1, InitIInv, NextIInv, PTL DEF Spec, FirstFiveFound

=============================================================================
