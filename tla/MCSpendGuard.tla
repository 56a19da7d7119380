----------------------------- MODULE MCSpendGuard -----------------------------
(* Instances of SpendGuard for TLC. *)
EXTENDS SpendGuard, TLC

Symmetry == Permutations(Threads)
=============================================================================
