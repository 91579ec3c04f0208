---------------------------- MODULE Matchmaking ----------------------------
(***************************************************************************)
(* What the XO server promises about pairing, without connections, game    *)
(* numbers, queues or messages: a player who asks for a game either waits  *)
(* alone or is paired with the one player who waits; nobody is ever paired *)
(* with two players, nor with itself.  A pair is dissolved only where       *)
(* MayForget says so, and then only because somebody else starts to wait.  *)
(* XOServer implements this specification (XOServer!Implements).           *)
(***************************************************************************)

CONSTANTS Players,   \* those who may ask for a game
          Nobody,    \* not a player
          MayForget  \* may a pair make room for a player who waits?

VARIABLES waiting,  \* the player who waits for an opponent, or Nobody
          pairs     \* the set of pairs {p, q} that play together

vars == <<waiting, pairs>>

Init == waiting = Nobody /\ pairs = {}

Busy(p) == waiting = p \/ p \in UNION pairs

\* p asks first and waits for an opponent.
Wait(p) ==
  /\ ~Busy(p)
  /\ waiting = Nobody
  /\ waiting' = p
  /\ UNCHANGED pairs

\* p asks while somebody else waits: the two are paired.
Pair(p) ==
  /\ ~Busy(p)
  /\ waiting # Nobody
  /\ pairs' = pairs \cup {{waiting, p}}
  /\ waiting' = Nobody

\* p asks first, and one pair that plays is forgotten.
WaitInstead(p) ==
  /\ MayForget
  /\ ~Busy(p)
  /\ waiting = Nobody
  /\ waiting' = p
  /\ \E pair \in pairs : pairs' = pairs \ {pair}

Next == \E p \in Players : Wait(p) \/ Pair(p) \/ WaitInstead(p)

Spec == Init /\ [][Next]_vars
=============================================================================
