---------------------------- MODULE MCQualityLoop ----------------------------
(* Instances of QualityLoop for TLC. *)
EXTENDS QualityLoop, TLC

CONSTANTS A, B, C, D, q1, q2, q3, q4, near, off

Chunk(doc, sim, fact) == [doc |-> doc, sim |-> sim, fact |-> fact]

\* Large chunks hold the facts but one lies in a document that was not
\* expected; small ones rank that document first, its fact below the bar.
MCRanked ==
    LET Large(q) == CASE q = q1   -> <<Chunk(A, 70, TRUE), Chunk(B, 60, FALSE)>>
                      [] q = q2   -> <<Chunk(B, 70, TRUE), Chunk(A, 30, FALSE)>>
                      [] q = q3   -> <<Chunk(C, 70, TRUE), Chunk(A, 50, FALSE)>>
                      [] q = q4   -> <<Chunk(A, 70, TRUE), Chunk(C, 50, FALSE)>>
                      [] q = near -> <<Chunk(A, 40, FALSE), Chunk(B, 30, FALSE)>>
                      [] q = off  -> <<Chunk(C, 15, FALSE)>>
        Small(q) == CASE q = q4   -> <<Chunk(D, 80, FALSE), Chunk(D, 30, TRUE)>>
                      [] q = off  -> <<Chunk(C, 15, FALSE)>>
                      [] OTHER    -> Large(q)
    IN  (8 :> [q \in {q1, q2, q3, q4, near, off} |-> Large(q)])
          @@ (4 :> [q \in {q1, q2, q3, q4, near, off} |-> Small(q)])

Case(id, question, doc, grounded) ==
    [id |-> id, question |-> question, expected |-> doc,
     keywords |-> grounded, grounded |-> grounded]

\* The second file cannot pass the gate, the third is refused by load_cases.
MCGolden ==
    {<<Case(1, q1, A, TRUE), Case(2, q2, B, TRUE), Case(3, q3, C, TRUE),
       Case(4, near, None, FALSE)>>,
     <<Case(1, q1, A, TRUE), Case(2, q2, B, TRUE), Case(3, q4, D, TRUE)>>,
     <<Case(1, q1, A, TRUE), Case(1, near, None, FALSE)>>}

MCDefaults == [size |-> 8, overlap |-> 0, top_k |-> 2, floor |-> 20]
MCSymmetry == Permutations(PromptVersions)
MCGrid == ConfigOf({4, 8}, {0, 4}, {1, 2}, {20})
=============================================================================
