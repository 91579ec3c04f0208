---------------------------- MODULE SharedLemmas ----------------------------
(***************************************************************************)
(* What the other proof modules share: induction over the natural numbers  *)
(* for sets, and what it gives (the recursive functions of Queues exist    *)
(* and satisfy their equations); remainders; and the counters of Counter.  *)
(*                                                                         *)
(* The library's induction theorems take an operator as a parameter.  Here *)
(* everything starts from NatLessThanWellFounded and WFMin, which take     *)
(* none: a set of natural numbers that is not empty has a least element.   *)
(***************************************************************************)
EXTENDS Queues, Counter, SequenceTheorems, WellFoundedInduction, TLAPS

Below == {p \in Nat \X Nat : p[1] < p[2]}

\* The order of the natural numbers, as a relation, is well-founded.
LEMMA BelowIsWellFounded == IsWellFoundedOn(Below, Nat)
  BY NatLessThanWellFounded, Zenon DEF OpToRel, Below

\* Every set of natural numbers that is not empty has a least element.
LEMMA LeastNumber ==
  ASSUME NEW T, T \subseteq Nat, T # {}
  PROVE  \E m \in T : \A k \in T : m <= k
<1>1. PICK x \in T : \A y \in T : ~(<<y, x>> \in Below)
  BY BelowIsWellFounded, WFMin
<1>2. ASSUME NEW y \in T PROVE x <= y
  <2>1. x \in Nat /\ y \in Nat /\ ~(<<y, x>> \in Below)
    BY <1>1
  <2> QED
    BY <2>1 DEF Below
<1> QED
  BY <1>2

\* Induction from 0 to n, with a set for the induction hypothesis.
LEMMA Induction ==
  ASSUME NEW n \in Nat, NEW T, 0 \in T,
         \A i \in 1 .. n : i - 1 \in T => i \in T
  PROVE  \A i \in 0 .. n : i \in T
<1> DEFINE Missing == (0 .. n) \ T
<1>1. Missing \subseteq Nat
  OBVIOUS
<1>2. ASSUME Missing # {} PROVE FALSE
  <2> HIDE DEF Missing
  <2>1. PICK m \in Missing : \A k \in Missing : m <= k
    BY <1>1, <1>2, LeastNumber
  <2>2. m \in 0 .. n /\ m \notin T
    BY DEF Missing
  <2>3. m \in 1 .. n
    BY <2>2
  <2>4. m - 1 \in 0 .. n /\ ~(m <= m - 1)
    BY <2>3
  <2>5. m - 1 \in T
    BY <2>1, <2>4 DEF Missing
  <2> QED
    BY <2>2, <2>3, <2>5
<1> QED
  BY <1>2

\* The function f is defined on 0..n by its value at 0 and by a step from each
\* value to the next.
Recursion(f, n, A, a, step) ==
  /\ f \in [0 .. n -> A]
  /\ f[0] = a
  /\ \A i \in 1 .. n : f[i] = step[i][f[i - 1]]

\* Such a function exists.
LEMMA RecursionExists ==
  ASSUME NEW n \in Nat, NEW A, NEW a \in A, NEW step \in [1 .. n -> [A -> A]]
  PROVE  \E f : Recursion(f, n, A, a, step)
<1> DEFINE Solves(f, k) ==
             \A i \in 0 .. k : f[i] = IF i = 0 THEN a ELSE step[i][f[i - 1]]
           T == {k \in 0 .. n : \E f \in [0 .. k -> A] : Solves(f, k)}
<1>1. 0 \in T
  <2> DEFINE f == [i \in 0 .. 0 |-> a]
  <2>1. f \in [0 .. 0 -> A] /\ Solves(f, 0)
    OBVIOUS
  <2> HIDE DEF f, Solves
  <2>2. 0 \in 0 .. n
    OBVIOUS
  <2> QED
    BY <2>1, <2>2
<1>2. ASSUME NEW k \in 1 .. n, k - 1 \in T
      PROVE  k \in T
  <2>1. PICK g \in [0 .. k - 1 -> A] : Solves(g, k - 1)
    BY <1>2
  <2> DEFINE f == [i \in 0 .. k |-> IF i = k THEN step[k][g[k - 1]] ELSE g[i]]
  <2>2. g[k - 1] \in A
    OBVIOUS
  <2>3. step[k][g[k - 1]] \in A
    BY <2>2
  <2>4. f \in [0 .. k -> A]
    BY <2>3
  <2>5. ASSUME NEW i \in 0 .. k
        PROVE  f[i] = IF i = 0 THEN a ELSE step[i][f[i - 1]]
    <3>1. CASE i = k
      <4>1. f[i - 1] = g[k - 1] /\ f[i] = step[i][g[k - 1]]
        BY <3>1
      <4>2. i # 0
        BY <3>1
      <4> QED
        BY <4>1, <4>2
    <3>2. CASE i # k
      <4>1. i \in 0 .. k - 1
        BY <3>2
      <4>2. g[i] = IF i = 0 THEN a ELSE step[i][g[i - 1]]
        BY <2>1, <4>1
      <4>3. f[i] = g[i]
        BY <4>1
      <4>4. i # 0 => f[i - 1] = g[i - 1]
        BY <4>1
      <4> QED
        BY <4>2, <4>3, <4>4
    <3> QED
      BY <3>1, <3>2
  <2>6. Solves(f, k)
    BY <2>5
  <2>7. k \in 0 .. n
    OBVIOUS
  <2> HIDE DEF f, Solves
  <2> QED
    BY <2>4, <2>6, <2>7
<1>3. n \in T
  <2> HIDE DEF T
  <2>1. \A i \in 1 .. n : i - 1 \in T => i \in T
    BY <1>2
  <2>2. \A i \in 0 .. n : i \in T
    BY <1>1, <2>1, Induction
  <2> QED
    BY <2>2
<1>4. PICK f \in [0 .. n -> A] : Solves(f, n)
  BY <1>3
<1>5. f[0] = a /\ \A i \in 1 .. n : f[i] = step[i][f[i - 1]]
  <2>1. 0 \in 0 .. n /\ \A i \in 1 .. n : i \in 0 .. n /\ i # 0
    OBVIOUS
  <2> QED
    BY <1>4, <2>1
<1> QED
  BY <1>4, <1>5, Zenon DEF Recursion

-----------------------------------------------------------------------------
\* Remainders.

\* The remainder is the only number below w that differs by a multiple of w.
LEMMA OneRemainder ==
  ASSUME NEW w \in Nat \ {0}, NEW r \in 0 .. w - 1, NEW s \in 0 .. w - 1, NEW k \in Int,
         r = s + w * k
  PROVE  r = s
<1>1. CASE k >= 1
  <2>1. w * k >= w
    BY <1>1, SMT
  <2> QED
    BY <2>1, SMT
<1>2. CASE k <= -1
  <2>1. w * k <= -w
    BY <1>2, SMT
  <2> QED
    BY <2>1, SMT
<1>3. CASE k = 0
  BY <1>3, SMT
<1> QED
  BY <1>1, <1>2, <1>3, SMT

\* Every integer is a multiple of w and a remainder.
LEMMA Division ==
  ASSUME NEW w \in Nat \ {0}, NEW x \in Int
  PROVE  \E q \in Int : x = w * q + (x % w) /\ x % w \in 0 .. w - 1
<1>1. x \div w \in Int
  BY SMT
<1>2. x % w \in 0 .. w - 1
  BY SMT
<1>3. x = w * (x \div w) + (x % w)
  BY SMT
<1> QED
  BY <1>1, <1>2, <1>3

\* Counting on is counting once.
LEMMA RemainderOfSum ==
  ASSUME NEW w \in Nat \ {0}, NEW x \in Int, NEW y \in Int
  PROVE  ((x % w) + y) % w = (x + y) % w
<1>1. PICK a \in Int : x = w * a + (x % w) /\ x % w \in 0 .. w - 1
  BY Division
<1>2. PICK z \in Int : z = (x % w) + y
  <2>1. (x % w) + y \in Int
    BY <1>1
  <2> QED
    BY <2>1
<1>3. PICK b \in Int : z = w * b + (z % w) /\ z % w \in 0 .. w - 1
  BY <1>2, Division
<1>4. PICK v \in Int : v = x + y
  OBVIOUS
<1>5. PICK d \in Int : v = w * d + (v % w) /\ v % w \in 0 .. w - 1
  BY <1>4, Division
<1>6. v = z + w * a
  BY <1>1, <1>2, <1>4
<1>7. z % w = (v % w) + w * (d - a - b)
  <2>1. w * (d - a - b) = w * d - w * a - w * b
    BY SMT
  <2>2. w * a \in Int /\ w * b \in Int /\ w * d \in Int
    BY SMT
  <2> QED
    BY <1>3, <1>5, <1>6, <2>1, <2>2
<1>8. z % w = v % w
  <2>1. PICK k \in Int : k = d - a - b
    OBVIOUS
  <2>2. PICK m \in 0 .. w - 1 : m = z % w
    BY <1>3
  <2>3. PICK n \in 0 .. w - 1 : n = v % w
    BY <1>5
  <2>4. m = n
    BY <1>7, <2>1, <2>2, <2>3, OneRemainder
  <2> QED
    BY <2>2, <2>3, <2>4
<1> QED
  BY <1>2, <1>4, <1>8

-----------------------------------------------------------------------------
\* Totals.

\* Totals(w) satisfies the equation it is defined by, and its values are natural
\* numbers.
LEMMA TotalsEquation ==
  ASSUME NEW w \in Seq(Nat)
  PROVE  /\ Totals(w) \in [0 .. Len(w) -> Nat]
         /\ Totals(w)[0] = 0
         /\ \A i \in 1 .. Len(w) : Totals(w)[i] = Totals(w)[i - 1] + w[i]
<1>1. PICK n \in Nat : n = Len(w)
  OBVIOUS
<1>2. \A i \in 1 .. n : w[i] \in Nat
  BY <1>1
<1> DEFINE Solves(f) == f = [i \in 0 .. n |-> IF i = 0 THEN 0 ELSE f[i - 1] + w[i]]
           step == [i \in 1 .. n |-> [x \in Nat |-> x + w[i]]]
<1>3. PICK f \in [0 .. n -> Nat] :
        f[0] = 0 /\ \A i \in 1 .. n : f[i] = step[i][f[i - 1]]
  <2>1. step \in [1 .. n -> [Nat -> Nat]]
    BY <1>2
  <2>2. 0 \in Nat
    OBVIOUS
  <2> HIDE DEF step
  <2>3. PICK f : Recursion(f, n, Nat, 0, step)
    BY <2>1, <2>2, RecursionExists, Zenon
  <2> QED
    BY <2>3, Zenon DEF Recursion
<1>4. Solves(f)
  <2>1. ASSUME NEW i \in 0 .. n
        PROVE  f[i] = IF i = 0 THEN 0 ELSE f[i - 1] + w[i]
    <3>1. CASE i = 0
      BY <1>3, <3>1
    <3>2. CASE i # 0
      <4>1. i \in 1 .. n /\ i - 1 \in 0 .. n
        BY <3>2
      <4>2. f[i - 1] \in Nat
        BY <4>1
      <4>3. f[i] = step[i][f[i - 1]]
        BY <1>3, <4>1
      <4> QED
        BY <3>2, <4>1, <4>2, <4>3
    <3> QED
      BY <3>1, <3>2
  <2> QED
    BY <2>1
<1>5. Totals(w) = CHOOSE g : Solves(g)
  BY <1>1, Zenon DEF Totals
<1>6. Solves(Totals(w))
  <2> HIDE DEF Solves
  <2> QED
    BY <1>4, <1>5
<1>7. PICK t : t = Totals(w)
  OBVIOUS
<1>8. /\ t = [i \in 0 .. n |-> t[i]]
      /\ t[0] = 0
      /\ \A i \in 1 .. n : t[i] = t[i - 1] + w[i]
  <2>1. t = [i \in 0 .. n |-> IF i = 0 THEN 0 ELSE t[i - 1] + w[i]]
    BY <1>6, <1>7
  <2>2. \A i \in 0 .. n : t[i] = IF i = 0 THEN 0 ELSE t[i - 1] + w[i]
    BY <2>1
  <2>3. t = [i \in 0 .. n |-> t[i]]
    BY <2>1
  <2>4. 0 \in 0 .. n /\ \A i \in 1 .. n : i \in 0 .. n /\ i # 0
    OBVIOUS
  <2> QED
    BY <2>2, <2>3, <2>4
<1>9. \A i \in 0 .. n : t[i] \in Nat
  <2> DEFINE T == {i \in 0 .. n : t[i] \in Nat}
  <2>1. 0 \in T
    BY <1>8
  <2>2. ASSUME NEW i \in 1 .. n, i - 1 \in T
        PROVE  i \in T
    <3>1. t[i - 1] \in Nat /\ w[i] \in Nat /\ t[i] = t[i - 1] + w[i]
      BY <1>2, <1>8, <2>2
    <3> QED
      BY <3>1
  <2>3. \A i \in 0 .. n : i \in T
    <3> HIDE DEF T
    <3>1. \A i \in 1 .. n : i - 1 \in T => i \in T
      BY <2>2
    <3> QED
      BY <2>1, <3>1, Induction
  <2> QED
    BY <2>3
<1> QED
  BY <1>1, <1>7, <1>8, <1>9

\* The totals of a sequence depend on no more of it than they count.
LEMMA TotalsOfPrefix ==
  ASSUME NEW v \in Seq(Nat), NEW w \in Seq(Nat), Len(v) <= Len(w),
         \A i \in 1 .. Len(v) : v[i] = w[i]
  PROVE  \A i \in 0 .. Len(v) : Totals(w)[i] = Totals(v)[i]
<1>1. PICK n \in Nat : n = Len(v)
  OBVIOUS
<1>2. Totals(w)[0] = 0 /\ \A i \in 1 .. n : Totals(w)[i] = Totals(w)[i - 1] + w[i]
  BY <1>1, TotalsEquation
<1>3. Totals(v)[0] = 0 /\ \A i \in 1 .. n : Totals(v)[i] = Totals(v)[i - 1] + w[i]
  BY <1>1, TotalsEquation
<1> DEFINE T == {i \in 0 .. n : Totals(w)[i] = Totals(v)[i]}
<1>4. 0 \in T
  BY <1>2, <1>3
<1>5. \A i \in 1 .. n : i - 1 \in T => i \in T
  BY <1>2, <1>3
<1>6. \A i \in 0 .. n : i \in T
  <2> HIDE DEF T
  <2> QED
    BY <1>4, <1>5, Induction
<1> QED
  BY <1>1, <1>6

\* One number more.
LEMMA TotalOfAppend ==
  ASSUME NEW w \in Seq(Nat), NEW x \in Nat
  PROVE  /\ \A i \in 0 .. Len(w) : Totals(Append(w, x))[i] = Totals(w)[i]
         /\ Total(Append(w, x)) = Total(w) + x
<1>1. PICK v \in Seq(Nat) : v = Append(w, x)
  <2>1. Append(w, x) \in Seq(Nat)
    OBVIOUS
  <2> QED
    BY <2>1
<1>2. /\ Len(v) = Len(w) + 1 /\ v[Len(w) + 1] = x /\ Len(w) \in Nat
      /\ \A i \in 1 .. Len(w) : w[i] = v[i]
  BY <1>1
<1>3. \A i \in 0 .. Len(w) : Totals(v)[i] = Totals(w)[i]
  <2>1. Len(w) <= Len(v)
    BY <1>2
  <2> QED
    BY <1>2, <2>1, TotalsOfPrefix
<1>4. Totals(v)[Len(w) + 1] = Totals(v)[Len(w)] + x
  <2>1. \A i \in 1 .. Len(v) : Totals(v)[i] = Totals(v)[i - 1] + v[i]
    BY TotalsEquation
  <2> QED
    BY <1>2, <2>1
<1> QED
  BY <1>1, <1>2, <1>3, <1>4 DEF Total

\* One number less, at the front.
LEMMA TotalOfTail ==
  ASSUME NEW w \in Seq(Nat), w # <<>>
  PROVE  /\ \A i \in 0 .. Len(w) - 1 : Totals(w)[i + 1] = w[1] + Totals(Tail(w))[i]
         /\ Total(w) = w[1] + Total(Tail(w))
<1>1. PICK v \in Seq(Nat) : v = Tail(w)
  <2>1. Tail(w) \in Seq(Nat)
    OBVIOUS
  <2> QED
    BY <2>1
<1>2. PICK n \in Nat : n = Len(v)
  OBVIOUS
<1>3. /\ Len(w) = n + 1 /\ w[1] \in Nat
      /\ \A i \in 1 .. n : v[i] = w[i + 1] /\ w[i + 1] \in Nat
  BY <1>1, <1>2
<1>4. /\ Totals(w)[0] = 0
      /\ \A i \in 1 .. n + 1 : Totals(w)[i] = Totals(w)[i - 1] + w[i]
  BY <1>3, TotalsEquation
<1>5. /\ Totals(v)[0] = 0 /\ \A i \in 0 .. n : Totals(v)[i] \in Nat
      /\ \A i \in 1 .. n : Totals(v)[i] = Totals(v)[i - 1] + w[i + 1]
  BY <1>2, <1>3, TotalsEquation
<1> DEFINE T == {i \in 0 .. n : Totals(w)[i + 1] = w[1] + Totals(v)[i]}
<1>6. 0 \in T
  BY <1>3, <1>4, <1>5
<1>7. ASSUME NEW i \in 1 .. n, i - 1 \in T
      PROVE  i \in T
  <2>1. Totals(w)[i + 1] = Totals(w)[i] + w[i + 1]
    BY <1>4
  <2>2. Totals(v)[i] = Totals(v)[i - 1] + w[i + 1] /\ Totals(v)[i - 1] \in Nat
    BY <1>5
  <2>3. Totals(w)[i] = w[1] + Totals(v)[i - 1]
    BY <1>7
  <2> QED
    BY <1>3, <2>1, <2>2, <2>3
<1>8. \A i \in 0 .. n : i \in T
  <2> HIDE DEF T
  <2>1. \A i \in 1 .. n : i - 1 \in T => i \in T
    BY <1>7
  <2> QED
    BY <1>6, <2>1, Induction
<1> QED
  BY <1>1, <1>2, <1>3, <1>8 DEF Total

-----------------------------------------------------------------------------
\* Selections.

\* Selections(s, places) satisfies the equation it is defined by.
LEMMA SelectionsEquation ==
  ASSUME NEW S, NEW s \in Seq(S), NEW places
  PROVE  /\ Selections(s, places)[0] = <<>>
         /\ \A i \in 0 .. Len(s) : Selections(s, places)[i] \in Seq(S)
         /\ \A i \in 1 .. Len(s) :
              Selections(s, places)[i] =
                IF i \in places THEN Append(Selections(s, places)[i - 1], s[i])
                ELSE Selections(s, places)[i - 1]
<1>1. PICK n \in Nat : n = Len(s)
  OBVIOUS
<1>2. \A i \in 1 .. n : s[i] \in S
  BY <1>1
<1> DEFINE Solves(f) ==
             f = [i \in 0 .. n |->
                    IF i = 0 THEN <<>>
                    ELSE IF i \in places THEN Append(f[i - 1], s[i]) ELSE f[i - 1]]
           step == [i \in 1 .. n |-> [t \in Seq(S) |->
                      IF i \in places THEN Append(t, s[i]) ELSE t]]
<1>3. PICK f \in [0 .. n -> Seq(S)] :
        f[0] = <<>> /\ \A i \in 1 .. n : f[i] = step[i][f[i - 1]]
  <2>1. \A i \in 1 .. n : \A t \in Seq(S) :
          (IF i \in places THEN Append(t, s[i]) ELSE t) \in Seq(S)
    BY <1>2
  <2>2. step \in [1 .. n -> [Seq(S) -> Seq(S)]]
    BY <2>1
  <2>3. <<>> \in Seq(S)
    OBVIOUS
  <2> HIDE DEF step
  <2>4. PICK f : Recursion(f, n, Seq(S), <<>>, step)
    BY <2>2, <2>3, RecursionExists, Zenon
  <2> QED
    BY <2>4, Zenon DEF Recursion
<1>4. Solves(f)
  <2>1. ASSUME NEW i \in 0 .. n
        PROVE  f[i] = IF i = 0 THEN <<>>
                      ELSE IF i \in places THEN Append(f[i - 1], s[i]) ELSE f[i - 1]
    <3>1. CASE i = 0
      BY <1>3, <3>1
    <3>2. CASE i # 0
      <4>1. i \in 1 .. n /\ i - 1 \in 0 .. n
        BY <3>2
      <4>2. f[i - 1] \in Seq(S)
        BY <4>1
      <4>3. f[i] = step[i][f[i - 1]]
        BY <1>3, <4>1
      <4> QED
        BY <3>2, <4>1, <4>2, <4>3
    <3> QED
      BY <3>1, <3>2
  <2> QED
    BY <2>1
<1>5. Selections(s, places) = CHOOSE g : Solves(g)
  BY <1>1, Zenon DEF Selections
<1>6. Solves(Selections(s, places))
  <2> HIDE DEF Solves
  <2> QED
    BY <1>4, <1>5
<1>7. PICK k : k = Selections(s, places)
  OBVIOUS
<1>8. /\ k[0] = <<>>
      /\ \A i \in 1 .. n :
           k[i] = IF i \in places THEN Append(k[i - 1], s[i]) ELSE k[i - 1]
  <2>1. k = [i \in 0 .. n |->
               IF i = 0 THEN <<>>
               ELSE IF i \in places THEN Append(k[i - 1], s[i]) ELSE k[i - 1]]
    BY <1>6, <1>7
  <2>2. \A i \in 0 .. n :
          k[i] = IF i = 0 THEN <<>>
                 ELSE IF i \in places THEN Append(k[i - 1], s[i]) ELSE k[i - 1]
    BY <2>1
  <2>3. 0 \in 0 .. n /\ \A i \in 1 .. n : i \in 0 .. n /\ i # 0
    OBVIOUS
  <2> QED
    BY <2>2, <2>3
<1>9. \A i \in 0 .. n : k[i] \in Seq(S)
  <2> DEFINE T == {i \in 0 .. n : k[i] \in Seq(S)}
  <2>1. 0 \in T
    <3>1. <<>> \in Seq(S) /\ 0 \in 0 .. n
      OBVIOUS
    <3> QED
      BY <1>8, <3>1
  <2>2. ASSUME NEW i \in 1 .. n, i - 1 \in T
        PROVE  i \in T
    <3>1. k[i - 1] \in Seq(S) /\ s[i] \in S
      BY <1>2, <2>2
    <3>2. k[i] = IF i \in places THEN Append(k[i - 1], s[i]) ELSE k[i - 1]
      BY <1>8
    <3>3. k[i] \in Seq(S)
      BY <3>1, <3>2
    <3> QED
      BY <3>3
  <2>3. \A i \in 0 .. n : i \in T
    <3> HIDE DEF T
    <3>1. \A i \in 1 .. n : i - 1 \in T => i \in T
      BY <2>2
    <3> QED
      BY <2>1, <3>1, Induction
  <2> QED
    BY <2>3
<1> QED
  BY <1>1, <1>7, <1>8, <1>9

\* The elements of t stand at increasing indices of the first n elements of s:
\* at those in places, and at all of these.
Embeds(at, t, s, n, places) ==
  /\ at \in [1 .. Len(t) -> 1 .. n]
  /\ \A i, j \in 1 .. Len(t) : i < j => at[i] < at[j]
  /\ \A i \in 1 .. Len(t) : at[i] \in places /\ t[i] = s[at[i]]
  /\ \A k \in 1 .. n : k \in places => \E i \in 1 .. Len(t) : at[i] = k

\* One element more in s, which is selected.
LEMMA EmbedsAppend ==
  ASSUME NEW S, NEW s \in Seq(S), NEW places, NEW n \in 1 .. Len(s), n \in places,
         NEW t \in Seq(S), NEW at, Embeds(at, t, s, n - 1, places)
  PROVE  \E bt : Embeds(bt, Append(t, s[n]), s, n, places)
<1>1. PICK m \in Nat : m = Len(t)
  OBVIOUS
<1>2. PICK r : r = Append(t, s[n])
  OBVIOUS
<1>3. Len(r) = m + 1 /\ r[m + 1] = s[n] /\ \A i \in 1 .. m : r[i] = t[i]
  BY <1>1, <1>2
<1> DEFINE bt == [i \in 1 .. m + 1 |-> IF i = m + 1 THEN n ELSE at[i]]
<1>4. /\ \A i \in 1 .. m : at[i] \in 1 .. n - 1 /\ at[i] \in places /\ t[i] = s[at[i]]
      /\ \A i, j \in 1 .. m : i < j => at[i] < at[j]
      /\ \A k \in 1 .. n - 1 : k \in places => \E i \in 1 .. m : at[i] = k
  BY <1>1 DEF Embeds
<1>5. /\ \A i \in 1 .. m : i \in 1 .. m + 1 /\ i # m + 1 /\ bt[i] = at[i]
      /\ m + 1 \in 1 .. m + 1 /\ bt[m + 1] = n
      /\ \A i \in 1 .. m + 1 : i # m + 1 => i \in 1 .. m
  OBVIOUS
<1> HIDE DEF bt
<1>6. \A i \in 1 .. m + 1 : bt[i] \in 1 .. n /\ bt[i] \in places /\ r[i] = s[bt[i]]
  BY <1>3, <1>4, <1>5
<1>7. \A i, j \in 1 .. m + 1 : i < j => bt[i] < bt[j]
  <2>1. ASSUME NEW i \in 1 .. m + 1, NEW j \in 1 .. m + 1, i < j PROVE bt[i] < bt[j]
    <3>1. i \in 1 .. m
      BY <2>1
    <3>2. bt[i] = at[i] /\ at[i] \in 1 .. n - 1
      BY <1>4, <1>5, <3>1
    <3>3. CASE j = m + 1
      BY <1>5, <3>2, <3>3
    <3>4. CASE j # m + 1
      BY <1>4, <1>5, <2>1, <3>1, <3>4
    <3> QED
      BY <3>3, <3>4
  <2> QED
    BY <2>1
<1>8. \A k \in 1 .. n : k \in places => \E i \in 1 .. m + 1 : bt[i] = k
  <2>1. ASSUME NEW k \in 1 .. n, k \in places PROVE \E i \in 1 .. m + 1 : bt[i] = k
    <3>1. CASE k = n
      BY <1>5, <3>1
    <3>2. CASE k # n
      <4>1. k \in 1 .. n - 1
        BY <3>2
      <4>2. PICK i \in 1 .. m : at[i] = k
        BY <1>4, <2>1, <4>1
      <4> QED
        BY <1>5, <4>2
    <3> QED
      BY <3>1, <3>2
  <2> QED
    BY <2>1
<1>9. bt \in [1 .. m + 1 -> 1 .. n]
  BY <1>6 DEF bt
<1>10. Embeds(bt, r, s, n, places)
  BY <1>3, <1>6, <1>7, <1>8, <1>9 DEF Embeds
<1> QED
  BY <1>2, <1>10

\* What ElementsAt selects is all of what it is to select, in its order.
LEMMA ElementsAtEmbeds ==
  ASSUME NEW S, NEW s \in Seq(S), NEW places
  PROVE  /\ ElementsAt(s, places) \in Seq(S)
         /\ \E at : Embeds(at, ElementsAt(s, places), s, Len(s), places)
<1>1. PICK n \in Nat : n = Len(s)
  OBVIOUS
<1>2. PICK k : k = Selections(s, places)
  OBVIOUS
<1>3. /\ k[0] = <<>>
      /\ \A i \in 0 .. n : k[i] \in Seq(S)
      /\ \A i \in 1 .. n :
           k[i] = IF i \in places THEN Append(k[i - 1], s[i]) ELSE k[i - 1]
  BY <1>1, <1>2, SelectionsEquation
<1> DEFINE T == {i \in 0 .. n : \E at : Embeds(at, k[i], s, i, places)}
<1>4. 0 \in T
  <2>1. Embeds(<<>>, <<>>, s, 0, places)
    BY DEF Embeds
  <2> QED
    BY <1>3, <2>1
<1>5. ASSUME NEW i \in 1 .. n, i - 1 \in T
      PROVE  i \in T
  <2>1. PICK at : Embeds(at, k[i - 1], s, i - 1, places)
    BY <1>5
  <2>2. i \in 1 .. Len(s) /\ i - 1 \in 0 .. n /\ i \in 0 .. n
    BY <1>1
  <2>3. k[i - 1] \in Seq(S)
    BY <1>3, <2>2
  <2>4. CASE i \in places
    <3>1. \E bt : Embeds(bt, Append(k[i - 1], s[i]), s, i, places)
      BY <2>1, <2>2, <2>3, <2>4, EmbedsAppend
    <3> QED
      BY <1>3, <2>2, <2>4, <3>1
  <2>5. CASE i \notin places
    <3>1. Embeds(at, k[i - 1], s, i, places)
      <4>1. PICK m \in Nat : m = Len(k[i - 1])
        BY <2>3
      <4>2. /\ at \in [1 .. m -> 1 .. i - 1]
            /\ \A j \in 1 .. m : at[j] \in 1 .. i
            /\ \A j \in 1 .. i : j \in places => j \in 1 .. i - 1
        BY <2>1, <2>5, <4>1, SMTT(30) DEF Embeds
      <4>3. at \in [1 .. m -> 1 .. i]
        BY <4>2
      <4> QED
        BY <2>1, <4>1, <4>2, <4>3 DEF Embeds
    <3> QED
      BY <1>3, <2>2, <2>5, <3>1
  <2> QED
    BY <2>4, <2>5
<1>6. n \in T
  <2> HIDE DEF T
  <2>1. \A i \in 1 .. n : i - 1 \in T => i \in T
    BY <1>5
  <2>2. \A i \in 0 .. n : i \in T
    BY <1>4, <2>1, Induction
  <2> QED
    BY <2>2
<1>7. k[n] \in Seq(S) /\ \E at : Embeds(at, k[n], s, n, places)
  BY <1>3, <1>6
<1> QED
  BY <1>1, <1>2, <1>7 DEF ElementsAt

\* When every element is selected none is lost.
LEMMA ElementsAtAll ==
  ASSUME NEW S, NEW s \in Seq(S), NEW places, 1 .. Len(s) \subseteq places
  PROVE  Len(ElementsAt(s, places)) = Len(s)
<1>1. PICK n \in Nat : n = Len(s)
  OBVIOUS
<1>2. PICK k : k = Selections(s, places)
  OBVIOUS
<1>3. /\ k[0] = <<>>
      /\ \A i \in 0 .. n : k[i] \in Seq(S)
      /\ \A i \in 1 .. n :
           k[i] = IF i \in places THEN Append(k[i - 1], s[i]) ELSE k[i - 1]
  BY <1>1, <1>2, SelectionsEquation
<1> DEFINE T == {i \in 0 .. n : Len(k[i]) = i}
<1>4. 0 \in T
  BY <1>3
<1>5. ASSUME NEW i \in 1 .. n, i - 1 \in T
      PROVE  i \in T
  <2>1. i \in places /\ i - 1 \in 0 .. n /\ i \in 0 .. n
    BY <1>1
  <2>2. k[i - 1] \in Seq(S) /\ Len(k[i - 1]) = i - 1 /\ k[i] = Append(k[i - 1], s[i])
    BY <1>3, <1>5, <2>1
  <2>3. Len(k[i]) = i
    BY <2>2
  <2> QED
    BY <2>1, <2>3
<1>6. n \in T
  <2> HIDE DEF T
  <2>1. \A i \in 1 .. n : i - 1 \in T => i \in T
    BY <1>5
  <2>2. \A i \in 0 .. n : i \in T
    BY <1>4, <2>1, Induction
  <2> QED
    BY <2>2
<1> QED
  BY <1>1, <1>2, <1>6 DEF ElementsAt

-----------------------------------------------------------------------------
\* Counters.

\* Counters stay counters.
LEMMA WidthType == Width \in Nat \ {0}
<1>1. \A a, b \in Nat \ {0} : a * b \in Nat \ {0}
  BY SMT
<1>2. Byte \in Nat \ {0}
  BY ByteAssumption
<1>3. Byte * Byte \in Nat \ {0}
  BY <1>1, <1>2
<1>4. Byte * Byte * Byte \in Nat \ {0}
  BY <1>1, <1>2, <1>3
<1> QED
  BY <1>1, <1>2, <1>4 DEF Width

\* Plus counts modulo the width of a counter.
LEMMA PlusType ==
  ASSUME NEW x \in Int, NEW n \in Int
  PROVE  Plus(x, n) \in Counters
<1>1. \A w \in Nat \ {0} : \A y \in Int : y % w \in 0 .. w - 1
  BY SMT
<1>2. x + n \in Int
  BY SMT
<1> QED
  BY <1>1, <1>2, WidthType DEF Plus, Counters

\* The lowest byte of a counter is a byte.
LEMMA LowType ==
  ASSUME NEW x \in Counters
  PROVE  x % Byte \in 0 .. Byte - 1
<1>1. \A w \in Nat \ {0} : \A y \in Int : y % w \in 0 .. w - 1
  BY SMT
<1>2. x \in Int
  BY WidthType, SMT DEF Counters
<1> QED
  BY <1>1, <1>2, ByteAssumption

\* Replacing the lowest byte of a counter gives a counter.
LEMMA LowReplaced ==
  ASSUME NEW x \in Counters, NEW low \in 0 .. Byte - 1
  PROVE  x - (x % Byte) + low \in Counters
<1> DEFINE q == x \div Byte
           K == Byte * Byte * Byte
<1>1. Byte \in Nat \ {0} /\ K \in Nat \ {0} /\ Width = Byte * K
  BY ByteAssumption, SMT DEF Width
<1>2. x \in Nat /\ x < Width
  BY WidthType, SMT DEF Counters
<1>3. x = Byte * q + (x % Byte) /\ q \in Nat /\ x % Byte \in 0 .. Byte - 1
  BY <1>1, <1>2, SMT
<1> HIDE DEF q, K
<1>4. q < K
  <2> SUFFICES ASSUME q >= K PROVE FALSE
    BY <1>1, <1>3, SMT
  <2>1. Byte * q >= Byte * K
    BY <1>1, <1>3, SMT
  <2> QED
    BY <1>1, <1>2, <1>3, <2>1, SMT
<1>5. Byte * q + Byte <= Byte * K
  BY <1>1, <1>3, <1>4, SMT
<1>6. Byte * q \in Nat
  BY <1>1, <1>3, SMT
<1> QED
  BY <1>1, <1>2, <1>3, <1>5, <1>6, SMT DEF Counters

\* Resynchronisation gives a counter.
LEMMA ResyncType ==
  ASSUME NEW x \in Counters, NEW low \in 0 .. Byte - 1
  PROVE  Resync(x, low) \in Counters
<1>1. x \in Int /\ x % (Byte * Byte) \in Int /\ low + Byte \in Int
  BY WidthType, ByteAssumption, SMT DEF Counters
<1>2. Plus(x - (x % (Byte * Byte)), low + Byte) \in Counters
  BY <1>1, PlusType, SMT
<1> QED
  BY <1>2, LowReplaced DEF Resync

\* Counting on is counting once.
LEMMA PlusPlus ==
  ASSUME NEW x \in Counters, NEW a \in Nat, NEW b \in Nat
  PROVE  /\ Plus(Plus(x, a), b) = Plus(x, a + b)
         /\ Plus(x, 0) = x
<1>1. x \in Nat /\ x < Width /\ Width \in Nat \ {0}
  BY WidthType DEF Counters
<1>2. PICK y \in Int : y = x + a
  BY <1>1
<1>3. ((y % Width) + b) % Width = (y + b) % Width
  <2>1. PICK w \in Nat \ {0} : w = Width
    BY <1>1
  <2>2. y \in Int /\ b \in Int
    OBVIOUS
  <2>3. ((y % w) + b) % w = (y + b) % w
    BY <2>2, RemainderOfSum, Zenon
  <2> QED
    BY <2>1, <2>3
<1>4. y + b = x + (a + b)
  BY <1>1, <1>2
<1>5. (x + 0) % Width = x
  <2>1. x + 0 = x
    BY <1>1
  <2>2. \A w \in Nat \ {0} : \A v \in 0 .. w - 1 : v % w = v
    BY SMT
  <2>3. x \in 0 .. Width - 1
    BY <1>1
  <2> QED
    BY <1>1, <2>1, <2>2, <2>3
<1> QED
  BY <1>2, <1>3, <1>4, <1>5 DEF Plus

\* The counter at the i-th of the numbers of blocks in w, counted from c on ...
At(c, w, i) == Plus(c, Totals(w)[i - 1])

\* ... and past all of them.
Past(c, w) == Plus(c, Total(w))

\* v is w and one number more at the end.
Longer(v, w) ==
  /\ v \in Seq(Nat) /\ w \in Seq(Nat)
  /\ Len(v) = Len(w) + 1 /\ \A i \in 1 .. Len(w) : v[i] = w[i]

\* What is enciphered next starts where everything before it ends.
LEMMA LongerAt ==
  ASSUME NEW c \in Counters, NEW v, NEW w, Longer(v, w)
  PROVE  /\ \A i \in 1 .. Len(w) : At(c, v, i) = At(c, w, i)
         /\ At(c, v, Len(w) + 1) = Past(c, w)
         /\ Past(c, v) = Plus(Past(c, w), v[Len(w) + 1])
<1>1. PICK n \in Nat : n = Len(w) /\ v \in Seq(Nat) /\ w \in Seq(Nat) /\ Len(v) = n + 1
  BY DEF Longer
<1>2. PICK x \in Nat : x = v[n + 1]
  BY <1>1
<1>3. \A i \in 0 .. n : Totals(v)[i] = Totals(w)[i] /\ Totals(w)[i] \in Nat
  <2>1. Len(w) <= Len(v) /\ \A i \in 1 .. Len(w) : w[i] = v[i]
    BY <1>1 DEF Longer
  <2>2. \A i \in 0 .. n : Totals(v)[i] = Totals(w)[i]
    BY <1>1, <2>1, TotalsOfPrefix
  <2>3. Totals(w) \in [0 .. n -> Nat]
    BY <1>1, TotalsEquation
  <2> QED
    BY <2>2, <2>3
<1>4. Totals(v)[n + 1] = Totals(v)[n] + x
  BY <1>1, <1>2, TotalsEquation
<1>5. PICK t \in Nat : t = Total(w)
  BY <1>1, <1>3 DEF Total
<1>6. Total(v) = t + x /\ Totals(v)[n] = t
  BY <1>1, <1>3, <1>4, <1>5 DEF Total
<1>7. \A i \in 1 .. n : At(c, v, i) = At(c, w, i)
  <2>1. \A i \in 1 .. n : i - 1 \in 0 .. n
    OBVIOUS
  <2> QED
    BY <1>3, <2>1 DEF At
<1>8. At(c, v, n + 1) = Past(c, w)
  <2>1. (n + 1) - 1 = n
    OBVIOUS
  <2> QED
    BY <1>5, <1>6, <2>1 DEF At, Past
<1>9. Past(c, v) = Plus(Past(c, w), x)
  BY <1>5, <1>6, PlusPlus DEF Past
<1> QED
  BY <1>1, <1>2, <1>7, <1>8, <1>9

\* v is w without its first number.
Shorter(v, w) ==
  /\ v \in Seq(Nat) /\ w \in Seq(Nat)
  /\ Len(w) = Len(v) + 1 /\ \A i \in 1 .. Len(v) : v[i] = w[i + 1]

\* When the first is deciphered, the others start from where it ended.
LEMMA ShorterAt ==
  ASSUME NEW c \in Counters, NEW v, NEW w, Shorter(v, w)
  PROVE  /\ At(c, w, 1) = c
         /\ \A i \in 1 .. Len(v) : At(Plus(c, w[1]), v, i) = At(c, w, i + 1)
         /\ Past(Plus(c, w[1]), v) = Past(c, w)
<1>1. PICK n \in Nat : n = Len(v) /\ v \in Seq(Nat) /\ w \in Seq(Nat) /\ Len(w) = n + 1
  BY DEF Shorter
<1>2. PICK x \in Nat : x = w[1]
  BY <1>1
<1>3. v = Tail(w)
  <2>0. w # <<>>
    BY <1>1
  <2>1. PICK u \in Seq(Nat) : u = Tail(w)
    BY <1>1, <2>0, HeadTailProperties
  <2>2. Len(u) = n /\ \A i \in 1 .. n : u[i] = w[i + 1]
    BY <1>1, <2>1
  <2>3. \A i \in 1 .. n : v[i] = u[i]
    BY <1>1, <2>2 DEF Shorter
  <2>4. v = u
    BY <1>1, <2>2, <2>3, SeqEqual
  <2> QED
    BY <2>1, <2>4
<1>4. w # <<>> /\ Totals(w)[0] = 0 /\ \A i \in 0 .. n : Totals(v)[i] \in Nat
  <2>1. Totals(v) \in [0 .. n -> Nat]
    BY <1>1, TotalsEquation
  <2>2. Totals(w)[0] = 0
    BY <1>1, TotalsEquation
  <2> QED
    BY <1>1, <2>1, <2>2
<1>5. /\ \A i \in 0 .. n : Totals(w)[i + 1] = x + Totals(v)[i]
      /\ Total(w) = x + Total(v)
  BY <1>1, <1>2, <1>3, <1>4, TotalOfTail
<1>6. At(c, w, 1) = c
  <2>1. 1 - 1 = 0
    OBVIOUS
  <2> QED
    BY <1>4, <2>1, PlusPlus DEF At
<1>7. ASSUME NEW i \in 1 .. n
      PROVE  At(Plus(c, x), v, i) = At(c, w, i + 1)
  <2>1. i - 1 \in 0 .. n /\ (i - 1) + 1 = i /\ (i + 1) - 1 = i
    OBVIOUS
  <2>2. PICK t \in Nat : t = Totals(v)[i - 1]
    BY <1>4, <2>1
  <2>3. Totals(w)[i] = x + t
    BY <1>5, <2>1, <2>2
  <2>4. Plus(Plus(c, x), t) = Plus(c, x + t)
    BY PlusPlus
  <2> QED
    BY <2>1, <2>2, <2>3, <2>4 DEF At
<1>8. Past(Plus(c, x), v) = Past(c, w)
  <2>1. PICK t \in Nat : t = Total(v)
    BY <1>1, <1>4 DEF Total
  <2>2. Plus(Plus(c, x), t) = Plus(c, x + t)
    BY PlusPlus
  <2> QED
    BY <1>5, <2>1, <2>2 DEF Past
<1> QED
  BY <1>1, <1>2, <1>6, <1>7, <1>8

\* Past is a counter.
LEMMA PastType ==
  ASSUME NEW c \in Counters, NEW w \in Seq(Nat)
  PROVE  Past(c, w) \in Counters
<1>1. c \in Int
  BY WidthType DEF Counters
<1>2. Total(w) \in Int
  BY TotalsEquation DEF Total
<1> QED
  BY <1>1, <1>2, PlusType DEF Past

\* Where there is nothing to encipher, the counter stays where it is.
LEMMA NothingPast ==
  ASSUME NEW c \in Counters, NEW w \in Seq(Nat), \A i \in 1 .. Len(w) : w[i] = 0
  PROVE  /\ Past(c, w) = c
         /\ \A i \in 1 .. Len(w) : At(c, w, i) = c
<1>1. PICK n \in Nat : n = Len(w)
  OBVIOUS
<1>2. Totals(w)[0] = 0 /\ \A i \in 1 .. n : Totals(w)[i] = Totals(w)[i - 1] + w[i]
  BY <1>1, TotalsEquation
<1> DEFINE T == {i \in 0 .. n : Totals(w)[i] = 0}
<1>3. 0 \in T
  BY <1>2
<1>4. \A i \in 1 .. n : i - 1 \in T => i \in T
  BY <1>1, <1>2
<1>5. \A i \in 0 .. n : i \in T
  <2> HIDE DEF T
  <2> QED
    BY <1>3, <1>4, Induction
<1>6. Total(w) = 0 /\ \A i \in 1 .. n : Totals(w)[i - 1] = 0
  <2>1. \A i \in 1 .. n : i - 1 \in 0 .. n
    OBVIOUS
  <2> QED
    BY <1>1, <1>5, <2>1 DEF Total
<1> QED
  BY <1>1, <1>6, PlusPlus DEF Past, At

-----------------------------------------------------------------------------
\* Queues.

\* Two sequences glued together.
LEMMA Glued ==
  ASSUME NEW S, NEW a \in Seq(S), NEW b \in Seq(S)
  PROVE  /\ a \o b \in Seq(S) /\ <<>> \o b = b
         /\ a # <<>> => /\ a \o b # <<>> /\ (a \o b)[1] = Head(a) /\ Head(a) = a[1]
                        /\ Tail(a) \o b = Tail(a \o b)
         /\ b # <<>> => Append(a, Head(b)) \o Tail(b) = a \o b
         /\ \A x \in S : a \o Append(b, x) = Append(a \o b, x)
<1>1. a \o b \in Seq(S) /\ <<>> \o b = b
  BY ConcatProperties, ConcatEmptySeq
<1>2. ASSUME a # <<>>
      PROVE  /\ a \o b # <<>> /\ (a \o b)[1] = Head(a) /\ Head(a) = a[1]
             /\ Tail(a) \o b = Tail(a \o b)
  <2>1. PICK c \in Seq(S) : c = a \o b
    BY <1>1
  <2>2. Len(c) = Len(a) + Len(b) /\ Len(a) >= 1
        /\ \A i \in 1 .. Len(a) + Len(b) : c[i] = IF i <= Len(a) THEN a[i] ELSE b[i - Len(a)]
    BY <1>2, <2>1, ConcatProperties, EmptySeq
  <2>3. c # <<>> /\ c[1] = a[1] /\ Head(a) = a[1]
    BY <2>2, EmptySeq
  <2>4. PICK d \in Seq(S) : d = Tail(a)
    BY <1>2, HeadTailProperties
  <2>5. Len(d) = Len(a) - 1 /\ \A i \in 1 .. Len(d) : d[i] = a[i + 1]
    BY <1>2, <2>4, HeadTailProperties
  <2>6. PICK f \in Seq(S) : f = d \o b
    BY ConcatProperties
  <2>7. Len(f) = Len(d) + Len(b)
        /\ \A i \in 1 .. Len(d) + Len(b) : f[i] = IF i <= Len(d) THEN d[i] ELSE b[i - Len(d)]
    BY <2>6, ConcatProperties
  <2>8. PICK g \in Seq(S) : g = Tail(c)
    BY <2>3, HeadTailProperties
  <2>9. Len(g) = Len(c) - 1 /\ \A i \in 1 .. Len(g) : g[i] = c[i + 1]
    BY <2>3, <2>8, HeadTailProperties
  <2>10. f = g
    <3>1. Len(f) = Len(g)
      BY <2>2, <2>5, <2>7, <2>9
    <3>2. ASSUME NEW i \in 1 .. Len(f) PROVE f[i] = g[i]
      <4>1. i + 1 \in 1 .. Len(a) + Len(b) /\ i \in 1 .. Len(g)
        BY <2>2, <2>5, <2>7, <2>9
      <4>2. g[i] = c[i + 1]
        BY <2>9, <4>1
      <4>3. CASE i <= Len(d)
        BY <2>2, <2>5, <2>7, <4>1, <4>2, <4>3
      <4>4. CASE ~(i <= Len(d))
        <5>1. ~(i + 1 <= Len(a)) /\ (i + 1) - Len(a) = i - Len(d)
          BY <2>5, <4>4
        <5> QED
          BY <2>2, <2>7, <4>1, <4>2, <4>4, <5>1
      <4> QED
        BY <4>3, <4>4
    <3> QED
      BY <3>1, <3>2, SeqEqual
  <2> QED
    BY <2>1, <2>3, <2>4, <2>6, <2>8, <2>10
<1>3. ASSUME b # <<>> PROVE Append(a, Head(b)) \o Tail(b) = a \o b
  <2>1. Head(b) \in S /\ Tail(b) \in Seq(S) /\ <<Head(b)>> \in Seq(S)
    BY <1>3, HeadTailProperties
  <2>2. Append(a, Head(b)) = a \o <<Head(b)>>
    BY <2>1, AppendIsConcat
  <2>3. (a \o <<Head(b)>>) \o Tail(b) = a \o (<<Head(b)>> \o Tail(b))
    BY <2>1, ConcatAssociative
  <2>4. <<Head(b)>> \o Tail(b) = b
    BY <1>3
  <2> QED
    BY <2>2, <2>3, <2>4
<1>4. ASSUME NEW x \in S PROVE a \o Append(b, x) = Append(a \o b, x)
  <2>1. Append(b, x) = b \o <<x>> /\ Append(a \o b, x) = (a \o b) \o <<x>>
    BY <1>1, AppendIsConcat
  <2>2. <<x>> \in Seq(S)
    OBVIOUS
  <2>3. (a \o b) \o <<x>> = a \o (b \o <<x>>)
    BY <2>2, ConcatAssociative
  <2> QED
    BY <2>1, <2>3
<1> QED
  BY <1>1, <1>2, <1>3, <1>4
=============================================================================
