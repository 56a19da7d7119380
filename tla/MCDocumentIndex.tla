--------------------------- MODULE MCDocumentIndex ---------------------------
(* Instances of DocumentIndex for TLC. *)
EXTENDS DocumentIndex
=============================================================================
