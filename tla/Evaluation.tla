----------------------------- MODULE Evaluation -----------------------------
(***************************************************************************)
(* The golden set and what is decided with it (app/evaluation): loading    *)
(* (dataset.py), scoring and summing up (metrics.py), the gate and the     *)
(* baseline (runner.py), and the sweep over retrieval configurations       *)
(* (sweep.py).                                                             *)
(*                                                                         *)
(* A case is a record: id, question, expected (a document or None),        *)
(* keywords (whether it lists any) and grounded.  Rates are whole          *)
(* ten-thousandths, rounded as the code rounds them.                       *)
(***************************************************************************)
EXTENDS Retrieval, FiniteSetsExt

CONSTANT None

\* Mutant: a second case under an id is kept.
LoadableTwice(file) ==
    /\ file # <<>>
    /\ \A i \in DOMAIN file : file[i].question # None

\* load_cases raises for an empty file, a case without a question and an id
\* that was seen before.
Loadable(file) ==
    /\ file # <<>>
    /\ \A i \in DOMAIN file : file[i].question # None
    /\ \A i, j \in DOMAIN file : file[i].id = file[j].id => i = j

Grounded(cases) == {c \in cases : c.grounded}

-----------------------------------------------------------------------------
ExpectedRetrieved(case, hits) == \E h \in Range(hits) : h.doc = case.expected

\* Mutant: what the answer says is not looked at.
ScoreCaseByRetrieval(case, hits, answer) ==
    [case_id       |-> case.id,
     retrieval_hit |-> ExpectedRetrieved(case, hits),
     refused       |-> answer = "refusal",
     correct       |-> ExpectedRetrieved(case, hits) \/ ~case.grounded,
     record        |-> QueryRecord(hits, answer)]

\* score_case.  A refusal case is correct when it is refused, any other when
\* the expected document came back and the answer holds one of the keywords.
ScoreCase(case, hits, answer) ==
    [case_id       |-> case.id,
     retrieval_hit |-> ExpectedRetrieved(case, hits),
     refused       |-> answer = "refusal",
     correct       |-> IF case.grounded
                         THEN /\ ExpectedRetrieved(case, hits)
                              /\ answer = "right" \/ (answer = "wrong" /\ ~case.keywords)
                         ELSE answer = "refusal",
     record        |-> QueryRecord(hits, answer)]

\* _rate: to four digits, and one when there is nothing to count.
Rate(count, total) ==
    IF total = 0 THEN 10000 ELSE (20000 * count + total) \div (2 * total)

\* The scores of the cases of a kind, which summarise finds by their ids.
ScoredAs(kind, scores) ==
    {c \in DOMAIN scores : scores[c].case_id \in {k.id : k \in kind}}

\* summarise: the three rates the gate looks at.
EvalSummary(scores) ==
    LET all      == DOMAIN scores
        grounded == ScoredAs(Grounded(all), scores)
        refusals == ScoredAs(all \ Grounded(all), scores)
        RateOf(of, Test(_)) == Rate(Cardinality({c \in of : Test(scores[c])}), Cardinality(of))
    IN  [accuracy           |-> RateOf(all, LAMBDA s : s.correct),
         retrieval_hit_rate |-> RateOf(grounded, LAMBDA s : s.retrieval_hit),
         refusal_accuracy   |-> RateOf(refusals, LAMBDA s : s.refused)]

\* Thresholds.  The floor of citation_rate is zero and cannot be breached.
Floors == [accuracy |-> 8000, retrieval_hit_rate |-> 8500, refusal_accuracy |-> 9800]

\* Thresholds.check: the rates below their floor.
Breaches(summary) == {name \in DOMAIN Floors : summary[name] < Floors[name]}

\* Mutant: the reference is taken from the whole golden set.
AnswerableOfAll(scores) == DOMAIN scores

\* write_baseline: the scores the reference is made of, and from_eval's bag.
Answerable(scores) == ScoredAs(Grounded(DOMAIN scores), scores)

RecordsOf(scored, scores) ==
    [r \in {scores[c].record : c \in scored} |->
        Cardinality({c \in scored : scores[c].record = r})]

-----------------------------------------------------------------------------
\* Mutant: such an overlap is cut down instead.
BuildGridClamped(points) ==
    {[p EXCEPT !.overlap = IF @ < p.size THEN @ ELSE p.size - 1] : p \in points}

\* build_grid: an overlap that repeats a whole chunk is dropped.
BuildGrid(points) == {p \in points : p.overlap < p.size}

\* evaluate_point: retrieval of every case under the point, no generation.
\* Every point of a sweep has the same cases, so counts stand for the rates.
EvaluatePoint(point, cases) ==
    LET found == [c \in cases |-> Retrieve(c.question, point)]
        grounded == Grounded(cases)
    IN  <<Cardinality({c \in grounded : Facts(found[c]) \/ ~c.keywords}),
          Cardinality({c \in grounded : ExpectedRetrieved(c, found[c])}),
          Cardinality({c \in cases \ grounded : found[c] = <<>>}),
          -MapThenSumSet(LAMBDA c : Len(found[c]), grounded)>>

\* Mutant: the hit rate leads, as it once did.
BetterByHits(a, b) ==
    LET i == <<2, 1, 3, 4>>
    IN  \E k \in 1..4 : a[i[k]] > b[i[k]] /\ \A j \in 1..(k - 1) : a[i[j]] = b[i[j]]

\* SweepResult.score: answerable, then hits, then refusals, then fewer chunks.
Better(a, b) == \E k \in 1..4 : a[k] > b[k] /\ \A j \in 1..(k - 1) : a[j] = b[j]

\* run_sweep, best first: the points that may be at the top.
Best(points, cases) ==
    {p \in points : \A q \in points :
        ~Better(EvaluatePoint(q, cases), EvaluatePoint(p, cases))}

=============================================================================
