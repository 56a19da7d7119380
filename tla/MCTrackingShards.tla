--------------------------- MODULE MCTrackingShards ---------------------------
(* Instances of TrackingShards for TLC. *)
EXTENDS TrackingShards
=============================================================================
