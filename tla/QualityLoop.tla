----------------------------- MODULE QualityLoop -----------------------------
(***************************************************************************)
(* The loop that keeps answers good: the sweep picks a retrieval           *)
(* configuration, the evaluation measures it and leaves the baseline, the  *)
(* service answers live questions under what was deployed, and the drift   *)
(* check compares a window of them with that baseline.                     *)
(*                                                                         *)
(* Composed of Retrieval, Evaluation and Drift.  The parts run on          *)
(* different machines at different times, and nothing ties the settings    *)
(* and prompts that were measured to the ones that are served.             *)
(***************************************************************************)
EXTENDS Evaluation, Drift

CONSTANTS
    GoldenFiles,   \* the sequences of cases golden.jsonl may hold
    DEFAULTS,      \* the configuration of config.py
    GridPoints,    \* what the options of run_sweep.py span
    FloorsInEnv,   \* min_similarity a deployment may set over the settings
    PromptVersions,
    Questions,     \* of live traffic
    RequestTopKs,  \* top_k a request may ask for
    MaxWindow,     \* bound on the queries of a window
    MaxChanges     \* bound on the operator's steps

VARIABLES
    golden,    \* the golden file
    settings,  \* the configuration of the checkout
    version,   \* the prompt version of the checkout
    served,    \* configuration and prompt version deployed
    baseline,  \* baseline.json: statistics and prompt version
    evaluated, \* history: the run the baseline is from
    window,    \* bag of the queries the next drift check will read
    versions,  \* the prompt versions they were answered with
    changes    \* history: number of the operator's steps

loopVars == <<golden, settings, version, served, baseline, evaluated, window,
              versions, changes>>

Cases == Range(golden)
Configs == {DEFAULTS} \cup GridPoints

ASSUME ConfigAssumption ==
    /\ Configs \subseteq ConfigOf(DOMAIN Ranked, Nat, Nat \ {0}, Nat)
    /\ FloorsInEnv \subseteq Nat

ASSUME GoldenAssumption ==
    \A file \in GoldenFiles : file \in Seq(Range(file))

\* Every question can be asked of every index.
ASSUME QuestionAssumption ==
    \A size \in DOMAIN Ranked :
        /\ Questions \subseteq DOMAIN Ranked[size]
        /\ \A file \in GoldenFiles : \A c \in Range(file) :
              c.question \in DOMAIN Ranked[size] \cup {None}

\* QueryRequest admits no top_k below one.
ASSUME RequestAssumption == RequestTopKs \subseteq Nat \ {0}

ASSUME LoopBoundAssumption == MaxWindow \in Nat /\ MaxChanges \in Nat

Served == {[c EXCEPT !.floor = f] : c \in Configs, f \in FloorsInEnv} \cup Configs

LoopTypeOK ==
    /\ golden \in GoldenFiles
    /\ settings \in Configs
    /\ version \in PromptVersions
    /\ served = None \/ (served.config \in Served /\ served.version \in PromptVersions)
    /\ baseline # None => baseline.version \in PromptVersions /\ baseline.stats.n > 0
    /\ evaluated # None => evaluated.passed \in BOOLEAN
    /\ IsABag(window) /\ Total(window) <= MaxWindow
    /\ versions \subseteq PromptVersions
    /\ changes \in 0..MaxChanges

LoopInit ==
    /\ golden \in GoldenFiles
    /\ settings = DEFAULTS
    /\ version \in PromptVersions
    /\ served = None
    /\ baseline = None
    /\ evaluated = None
    /\ window = EmptyBag
    /\ versions = {}
    /\ changes = 0

-----------------------------------------------------------------------------
Change == changes < MaxChanges /\ changes' = changes + 1

\* run_sweep.py, and its best point copied into the settings.
Tune ==
    /\ Change
    /\ Loadable(golden)
    /\ \E p \in Best(BuildGrid(GridPoints), Cases) : settings' = p
    /\ UNCHANGED <<golden, version, served, baseline, evaluated, window, versions>>

\* Prompts are edited and locked under another version.
Reprompt(v) ==
    /\ Change
    /\ v # version
    /\ version' = v
    /\ UNCHANGED <<golden, settings, served, baseline, evaluated, window, versions>>

\* Every query of the evaluation answers as it may; the gate only decides the
\* exit status.
Evaluate ==
    /\ Change
    /\ Loadable(golden)
    /\ \E answers \in [Cases -> {"right", "wrong", "refusal"}] :
          LET hits   == [c \in Cases |-> Retrieve(c.question, settings)]
              scores == [c \in Cases |-> ScoreCase(c, hits[c], answers[c])]
              scored == Answerable(scores)
          IN  /\ \A c \in Cases : answers[c] \in Answers(hits[c])
              /\ scored # {}   \* from_eval raises for zero answerable cases
              /\ baseline' = [stats   |-> Summarise(RecordsOf(scored, scores)),
                              version |-> version]
              /\ evaluated' = [records |-> RecordsOf(scored, scores),
                               passed  |-> Breaches(EvalSummary(scores)) = {}]
    /\ UNCHANGED <<golden, settings, version, served, window, versions>>

\* A deployment of the checkout, its floor possibly set by the environment.
Deploy(floor) ==
    /\ Change
    /\ served' = [config |-> [settings EXCEPT !.floor = floor], version |-> version]
    /\ UNCHANGED <<golden, settings, version, baseline, evaluated, window, versions>>

\* query and _log_query_run, for a request with or without a top_k.
Query(question, k) ==
    /\ served # None
    /\ Total(window) < MaxWindow
    /\ LET hits == Retrieve(question, [served.config EXCEPT !.top_k = k])
       IN  \E answer \in Answers(hits) :
              window' = window (+) SetToBag({QueryRecord(hits, answer)})
    /\ versions' = versions \cup {served.version}
    /\ UNCHANGED <<golden, settings, version, served, baseline, evaluated, changes>>

\* The limit of check_drift.py has moved past every query of this window.
NextWindow ==
    /\ Total(window) >= MIN_WINDOW
    /\ window' = EmptyBag
    /\ versions' = {}
    /\ UNCHANGED <<golden, settings, version, served, baseline, evaluated, changes>>

Operate ==
    \/ Tune
    \/ \E v \in PromptVersions : Reprompt(v)
    \/ Evaluate
    \/ \E floor \in FloorsInEnv \cup {settings.floor} : Deploy(floor)

Traffic ==
    \/ \E q \in Questions : \E k \in RequestTopKs \cup
              {IF served = None THEN DEFAULTS.top_k ELSE served.config.top_k} : Query(q, k)
    \/ NextWindow

LoopNext == Operate \/ Traffic

LoopSpec == LoopInit /\ [][LoopNext]_loopVars

-----------------------------------------------------------------------------
(* What check_drift.py says of a window.                                   *)

FindingsOf(bag) ==
    Compare(baseline.stats, Summarise(bag), baseline.version, versions)

Scored == baseline # None /\ Total(window) >= MIN_WINDOW

-----------------------------------------------------------------------------
(* Properties.                                                             *)

\* "Only the answerable cases go in" (runner.py:182, drift.py:119): the
\* baseline counts every grounded case of the golden set once and no other,
\* though load_cases, summarise and write_baseline each sort cases anew.
OnlyAnswerableInBaseline ==
    baseline # None => baseline.stats.n = Cardinality(Grounded(Cases))

\* "The floor rejects topically unrelated questions outright" (drift.py:241)
\* and the relative bar never does: a live query is ungrounded just when all
\* that is stored for its question lies under the floor.
GroundedByFloorAlone ==
    served # None => \A q \in Questions :
        (Retrieve(q, served.config) = <<>>)
            = (\A c \in Range(Ranked[served.config.size][q]) : c.sim < served.config.floor)

\* "the largest gap between two ECDFs" (drift.py:192): walking both samples
\* at once, past ties and until one is exhausted, misses no larger gap.
KsIsLargestGap ==
    Scored =>
        LET a == Summarise(window).similarities
            b == baseline.stats.similarities
        IN  KsStatistic(a, b) = Max({Gap(a, b, AtMost(a, v), AtMost(b, v)) :
                                        v \in DOMAIN a \cup DOMAIN b})

\* "Traffic resembles the conditions quality was measured under" (drift.py:314):
\* a window that repeats the measured cases, under the measured prompts, is
\* reported as no drift, whatever the evaluation had measured.
SteadyTrafficQuiet ==
    (Scored /\ versions = {baseline.version} /\ window = evaluated.records)
        => Diagnose(baseline.stats, Summarise(window), FindingsOf(window)) = "no drift"

\* A service that refuses everything is noticed, if the run its baseline is
\* from had passed the gate: floors of the gate, choice of the answerable cases
\* and test statistic leave no room between them.
BlackoutNoticed ==
    (Scored /\ evaluated.passed /\ \A r \in DOMAIN window : r.refused)
        => "refusal_rate" \in Signals(FindingsOf(window))

\* "what separates 'users left the subject' from 'the corpus has a hole'"
\* (drift.py:243): neither the retriever nor the corpus is blamed for a window
\* whose refusals all come from retrieving nothing.
BlamedOnlyWithContext ==
    (Scored /\ \A r \in DOMAIN window : r.refused => r.retrieved_chunks = 0)
        => Diagnose(baseline.stats, Summarise(window), FindingsOf(window))
               \notin {"content gap", "retrieval regression"}

\* Refusal is one-sided (drift.py:228): refusing one more of the same queries
\* never silences the refusal signal nor lowers its severity.
SeveritiesOf(signal, bag) ==
    {f.severity : f \in {g \in FindingsOf(bag) : g.signal = signal}}
MoreRefusalsNeverQuieter ==
    Scored =>
        LET now == SeveritiesOf("refusal_rate", window)
        IN  now # {} => \A r \in DOMAIN window : ~r.refused =>
              LET worse == (window (-) SetToBag({r}))
                              (+) SetToBag({[r EXCEPT !.refused = TRUE]})
                  then == SeveritiesOf("refusal_rate", worse)
              IN  then # {} /\ ("alert" \in now => "alert" \in then)

\* "Hit rate could not see that; this ordering can" (sweep.py:93): tuning from
\* a point of the grid never leaves fewer golden questions answerable, of those
\* that say what an answer must hold.
CanAnswer(config) ==
    {c \in Grounded(Cases) :
        c.keywords /\ "right" \in Answers(Retrieve(c.question, config))}
TuneKeepsAnswers ==
    [][(settings' # settings /\ settings \in BuildGrid(GridPoints))
          => Cardinality(CanAnswer(settings')) >= Cardinality(CanAnswer(settings))]_loopVars

=============================================================================
