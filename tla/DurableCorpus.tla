----------------------------- MODULE DurableCorpus -----------------------------
(***************************************************************************)
(* What persistence promises of the documents, with no object, generation, *)
(* archive or retry: a corpus that survives the instances, and what each   *)
(* running instance can answer from.  The corpus only grows, with what an  *)
(* instance holds, and an instance that starts sees the whole of it.       *)
(***************************************************************************)
CONSTANTS
    Instances,
    Chunks

VARIABLES
    corpus,   \* the chunks that survive a scale to zero
    running,  \* which instances run
    view      \* the chunks an instance retrieves from

vars == <<corpus, running, view>>

Init ==
    /\ corpus = {}
    /\ running = [i \in Instances |-> FALSE]
    /\ view = [i \in Instances |-> {}]

\* An instance starts on the whole corpus.
Start(i) ==
    /\ ~running[i]
    /\ running' = [running EXCEPT ![i] = TRUE]
    /\ view' = [view EXCEPT ![i] = corpus]
    /\ UNCHANGED corpus

\* An instance stops, and takes what was not persisted with it.
Stop(i) ==
    /\ running[i]
    /\ running' = [running EXCEPT ![i] = FALSE]
    /\ view' = [view EXCEPT ![i] = {}]
    /\ UNCHANGED corpus

\* A document becomes retrievable where it was ingested ...
Ingest(i, batch) ==
    /\ running[i]
    /\ view' = [view EXCEPT ![i] = @ \cup batch]
    /\ UNCHANGED <<corpus, running>>

\* ... and, with whatever else the instance holds, becomes durable.
Persist(i, chunks) ==
    /\ running[i]
    /\ chunks \subseteq view[i]
    /\ corpus' = corpus \cup chunks
    /\ UNCHANGED <<running, view>>

Next ==
    \E i \in Instances :
        \/ Start(i)
        \/ Stop(i)
        \/ \E batch \in SUBSET Chunks : Ingest(i, batch) \/ Persist(i, batch)

Spec == Init /\ [][Next]_vars

=============================================================================
