-------------------------------- MODULE Drift --------------------------------
(***************************************************************************)
(* The drift monitor (app/monitoring/drift.py): how a window of queries is *)
(* summarised, compared with the baseline of an evaluation, and explained. *)
(*                                                                         *)
(* Window and baseline are bags of query records.  Rates and means are     *)
(* compared as fractions and roots as squares, so that nothing is rounded: *)
(* a record of a summary holds counts and sums where the code holds their  *)
(* quotients.                                                              *)
(***************************************************************************)
EXTENDS Integers, FiniteSetsExt, Bags

CONSTANT MIN_WINDOW  \* 30 in the code

ASSUME DriftAssumption == MIN_WINDOW \in Nat \ {0}

\* z and KS coefficients, squared: 1.960, 2.576, 1.358, 1.628.
Z_WARN   == [num |-> 2401, den |-> 625]
Z_ALERT  == [num |-> 103684, den |-> 15625]
KS_WARN  == [num |-> 461041, den |-> 250000]
KS_ALERT == [num |-> 165649, den |-> 62500]

\* The queries of a bag that left one of these records, those with equal
\* records told apart by a number, and how many they are; or of a sample, the
\* values among these.
Queries(bag, records) == UNION {{r} \X (1..bag[r]) : r \in records}
Tally(bag, records) == Cardinality(Queries(bag, records))
Total(bag) == Tally(bag, DOMAIN bag)

\* The chunks the queries retrieved.
Retrieved(bag) == UNION {{q} \X (1..q[1].retrieved_chunks) : q \in Queries(bag, DOMAIN bag)}

\* summarise, and Baseline.from_eval: grounded is a query that retrieved.
Summarise(bag) ==
    [n            |-> Total(bag),
     refused      |-> Tally(bag, {r \in DOMAIN bag : r.refused}),
     ungrounded   |-> Tally(bag, {r \in DOMAIN bag : r.retrieved_chunks = 0}),
     similarity   |-> MapThenSumSet(LAMBDA r : r.top_similarity * bag[r], DOMAIN bag),
     chunks       |-> Cardinality(Retrieved(bag)),
     similarities |-> [v \in {r.top_similarity : r \in DOMAIN bag} |->
                          Tally(bag, {r \in DOMAIN bag : r.top_similarity = v})]]

-----------------------------------------------------------------------------
\* Mutant: the rates differ, in either direction or without any variance.
ProportionDiffers(a, n, b, m, bar) ==
    LET gap == a * m - b * n
        pooled == a + b
    IN  /\ n > 0 /\ m > 0
        /\ gap * gap * (n + m) * bar.den >= bar.num * n * m * pooled * (n + m - pooled)

\* two_proportion_z of a out of n against b out of m is at least the bar; it is
\* zero when neither sample has any variance, and then there is no gap either.
ProportionAtLeast(a, n, b, m, bar) ==
    LET gap == a * m - b * n
        pooled == a + b
    IN  /\ n > 0 /\ m > 0
        /\ gap > 0
        /\ gap * gap * (n + m) * bar.den >= bar.num * n * m * pooled * (n + m - pooled)

\* How many of the values are at most v.
AtMost(values, v) == Tally(values, {u \in DOMAIN values : u <= v})

\* The value at position i of the sorted list.
Sorted(values, i) == Min({v \in DOMAIN values : AtMost(values, v) >= i})

Gap(a, b, i, j) ==
    LET d == i * Total(b) - j * Total(a) IN IF d < 0 THEN -d ELSE d

\* Mutant: one step at a time, so equal values count as a gap.
KsStepwise(a, b) ==
    LET n == Total(a)
        m == Total(b)
        walk[p \in (0..n) \X (0..m)] ==
            IF p[1] = n \/ p[2] = m
              THEN 0
              ELSE LET i == IF Sorted(a, p[1] + 1) <= Sorted(b, p[2] + 1) THEN p[1] + 1 ELSE p[1]
                       j == IF i = p[1] THEN p[2] + 1 ELSE p[2]
                   IN  Max({Gap(a, b, i, j), walk[<<i, j>>]})
    IN  IF n = 0 \/ m = 0 THEN 0 ELSE walk[<<0, 0>>]

\* ks_statistic, times the sizes of both samples: both lists are walked from
\* value to value until one is exhausted.
KsStatistic(a, b) ==
    LET n == Total(a)
        m == Total(b)
        walk[p \in (0..n) \X (0..m)] ==
            IF p[1] = n \/ p[2] = m
              THEN 0
              ELSE LET value == Min({Sorted(a, p[1] + 1), Sorted(b, p[2] + 1)})
                       i == AtMost(a, value)
                       j == AtMost(b, value)
                   IN  Max({Gap(a, b, i, j), walk[<<i, j>>]})
    IN  IF n = 0 \/ m = 0 THEN 0 ELSE walk[<<0, 0>>]

\* A statistic of d reaches ks_threshold, which is infinite for an empty sample.
KsAtLeast(d, n, m, coefficient) ==
    /\ n > 0 /\ m > 0
    /\ d * d * coefficient.den >= coefficient.num * (n + m) * n * m

-----------------------------------------------------------------------------
\* A finding is made at the warning bar, and is an alert at the higher one.
Finding(signal, warned, alert) ==
    IF warned THEN {[signal |-> signal, severity |-> IF alert THEN "alert" ELSE "warn"]} ELSE {}

\* compare, for summaries w of the window and b of the baseline.
Compare(b, w, baselineVersion, windowVersions) ==
    LET d == KsStatistic(w.similarities, b.similarities)
        n == Total(w.similarities)
        m == Total(b.similarities)
    IN  IF w.n < MIN_WINDOW
          THEN Finding("window", TRUE, FALSE)
          ELSE    Finding("refusal_rate",
                          ProportionAtLeast(w.refused, w.n, b.refused, b.n, Z_WARN),
                          ProportionAtLeast(w.refused, w.n, b.refused, b.n, Z_ALERT))
             \cup Finding("ungrounded_rate",
                          ProportionAtLeast(w.ungrounded, w.n, b.ungrounded, b.n, Z_WARN),
                          ProportionAtLeast(w.ungrounded, w.n, b.ungrounded, b.n, Z_ALERT))
             \cup Finding("top_similarity", KsAtLeast(d, n, m, KS_WARN), KsAtLeast(d, n, m, KS_ALERT))
             \cup Finding("retrieved_chunks",
                          b.chunks > 0 /\ 4 * w.chunks * b.n <= 3 * b.chunks * w.n,
                          5 * w.chunks * b.n <= 3 * b.chunks * w.n)
             \cup Finding("prompt_version", windowVersions \ {baselineVersion} # {}, FALSE)

Signals(findings) == {f.signal : f \in findings}

\* Mutant: what the floor rejected is not told apart.
DiagnoseWithoutGrounding(b, w, findings) ==
    LET signals == Signals(findings)
        refusing == "refusal_rate" \in signals
        moved == "top_similarity" \in signals
        fell == w.similarity * b.n < b.similarity * w.n
    IN  IF signals = {}                                       THEN "no drift"
        ELSE IF "window" \in signals                          THEN "not enough traffic"
        ELSE IF refusing /\ "retrieved_chunks" \in signals    THEN "retrieval regression"
        ELSE IF refusing /\ moved /\ fell                     THEN "off-topic"
        ELSE IF refusing /\ ~moved                            THEN "content gap"
        ELSE IF moved /\ ~refusing                            THEN "corpus or model changed"
        ELSE                                                       "see findings"

\* diagnose: the first of its rules that applies.
Diagnose(b, w, findings) ==
    LET signals == Signals(findings)
        refusing == "refusal_rate" \in signals
        ungrounded == "ungrounded_rate" \in signals
        moved == "top_similarity" \in signals
        fewer == "retrieved_chunks" \in signals
        fell == w.similarity * b.n < b.similarity * w.n
    IN  IF signals = {}                             THEN "no drift"
        ELSE IF "window" \in signals                THEN "not enough traffic"
        ELSE IF refusing /\ fewer /\ ~ungrounded    THEN "retrieval regression"
        ELSE IF refusing /\ ungrounded              THEN "off-topic"
        ELSE IF refusing /\ moved /\ fell           THEN "off-topic"
        ELSE IF refusing /\ ~moved                  THEN "content gap"
        ELSE IF moved /\ ~refusing                  THEN "corpus or model changed"
        ELSE                                             "see findings"

=============================================================================
