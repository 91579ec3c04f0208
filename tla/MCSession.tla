----------------------------- MODULE MCSession -----------------------------
(***************************************************************************)
(* Small instances of Session for TLC.                                     *)
(***************************************************************************)
EXTENDS Session

\* A byte of two values: counters have 16, and every carry happens.
FewSeeds == {5, 15}

=============================================================================
