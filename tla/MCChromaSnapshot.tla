--------------------------- MODULE MCChromaSnapshot ---------------------------
(* Instances of ChromaSnapshot for TLC. *)
EXTENDS ChromaSnapshot, TLC

CONSTANTS i1, i2, w1, w2, c1, c2, c3

Symmetry == Permutations(Chunks)

\* Two instances that serve one ingest each: Cloud Run's max-instances is 2.
TwoInstances == {i1, i2}
OneEach == (w1 :> i1) @@ (w2 :> i2)

\* One instance that serves two ingests on two threads.
OneInstance == {i1}
TwoThreads == (w1 :> i1) @@ (w2 :> i1)

SingleWorker == {w1}
Alone == (w1 :> i1)

TwoWorkers == {w1, w2}
SingleChunks == {{c} : c \in Chunks}
=============================================================================
