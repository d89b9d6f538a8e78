----------------------------- MODULE MCProjection -----------------------------
(***************************************************************************)
(* Instances of the read side for TLC.                                     *)
(***************************************************************************)
EXTENDS Projection, TLC

\* Accounts and workers are interchangeable (safety runs only).
Symmetry == Permutations(Account) \cup Permutations(Worker)
===============================================================================
