---------------------------- MODULE MCTrackerFlush ----------------------------
(* Instances of TrackerFlush for TLC. *)
EXTENDS TrackerFlush, TLC

Symmetry == Permutations(Threads)
=============================================================================
