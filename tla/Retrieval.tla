------------------------------ MODULE Retrieval ------------------------------
(***************************************************************************)
(* What a question gets from the index: ChromaVectorStore.search           *)
(* (app/rag/vectorstore.py), RAGPipeline.retrieve and the record that      *)
(* RAGPipeline.query (app/rag/pipeline.py) leaves of it.                   *)
(*                                                                         *)
(* Similarities and ratios are whole hundredths.  Ranked is what Chroma    *)
(* holds for a question under a chunk size, nearest first; it is external, *)
(* as is what the model says to the context it is given.                   *)
(***************************************************************************)
EXTENDS Integers, SequencesExt

CONSTANTS
    Ranked,   \* chunk size -> question -> sequence of [doc, sim, fact]
    RATIO     \* min_similarity_ratio

ASSUME RetrievalAssumption == RATIO \in 0..100

\* "Chroma returns nearest-first" (vectorstore.py:121).
ASSUME RankedAssumption ==
    \A size \in DOMAIN Ranked : \A question \in DOMAIN Ranked[size] :
        LET ranked == Ranked[size][question]
        IN  /\ ranked \in Seq(Range(ranked))
            /\ \A i, j \in DOMAIN ranked :
                  /\ ranked[i].sim \in Int
                  /\ i <= j => ranked[i].sim >= ranked[j].sim

\* A configuration: a point of the sweep's grid, or the settings of a service.
ConfigOf(sizes, overlaps, top_ks, floors) ==
    [size : sizes, overlap : overlaps, top_k : top_ks, floor : floors]

\* Mutant: the relative bar is applied instead of the floor.
ThresholdRelative(nearest, floor) ==
    IF RATIO > 0 /\ nearest # <<>> THEN RATIO * nearest[1].sim ELSE floor * 100

\* The bar, in ten-thousandths: the floor, or the ratio of the best hit if that
\* is higher.
Threshold(nearest, floor) ==
    IF RATIO > 0 /\ nearest # <<>> /\ RATIO * nearest[1].sim > floor * 100
      THEN RATIO * nearest[1].sim
      ELSE floor * 100

\* search: the top_k nearest, and of those the ones over the bar, which are
\* the first ones.
Search(ranked, config) ==
    LET nearest == SubSeq(ranked, 1, IF config.top_k < Len(ranked)
                                       THEN config.top_k ELSE Len(ranked))
        kept == {i \in DOMAIN nearest :
                    100 * nearest[i].sim >= Threshold(nearest, config.floor)}
    IN  SubSeq(nearest, 1, Cardinality(kept))

\* retrieve: the question is embedded and searched for.
Retrieve(question, config) == Search(Ranked[config.size][question], config)

Facts(hits) == \E c \in Range(hits) : c.fact

\* The answers a question may get.  Without a hit the canned text is returned,
\* which no process loads without the refusal sentence in it, and the model is
\* not called; the model is right only if a fact it needs is in its context.
Answers(hits) ==
    IF hits = <<>>
      THEN {"refusal"}
      ELSE {"wrong", "refusal"} \cup (IF Facts(hits) THEN {"right"} ELSE {})

\* What _log_query_run records of it, as far as the monitor reads it back.
QueryRecord(hits, answer) ==
    [refused          |-> answer = "refusal",
     retrieved_chunks |-> Len(hits),
     top_similarity   |-> IF hits = <<>> THEN 0 ELSE hits[1].sim]

=============================================================================
