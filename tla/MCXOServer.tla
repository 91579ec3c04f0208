----------------------------- MODULE MCXOServer -----------------------------
(***************************************************************************)
(* Small instances of XOServer for TLC.                                    *)
(***************************************************************************)
EXTENDS XOServer, TLC

\* Clients are interchangeable; the runs with temporal formulas that need
\* fairness do not use it.
ClientSymmetry == Permutations(Clients)

=============================================================================
