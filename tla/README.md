# TLA+ verification of the LLMOps RAG API

The service ingests documents, embeds them through OpenAI, stores them in an embedded Chroma
collection and answers questions about them. It runs on Cloud Run, where an instance's disk is a
tmpfs: everything that must survive is an object in a GCS bucket. The program is small, but several
of its parts run concurrently (request threads, at most two instances, OpenAI and GCS calls that
fail), and those parts are what this project models, checks with TLC and proves about with TLAPS.

Paths below are relative to the repository (`app/` is `src/app/`).

## 1. The system

### How it runs

One uvicorn process per instance, Python 3.12. Handlers declared `def` (`/ingest`, `/query`,
`/ready`, `/health`) run on the server's thread pool, so requests of one instance interleave at every
call; `/ingest/file` is `async def` and calls the blocking `ingest` on the event loop. The middlewares
run on the event loop only. Instances share nothing but the bucket. An instance may be stopped
(scale to zero, SIGTERM, ten seconds) or die at any point.

### Components, their state and operations

| component | state | operations | what makes it correct |
|---|---|---|---|
| Vector store durability (`app/persistence.py`, `RAGPipeline._save_snapshot`, `build_pipeline`) | one GCS object with a generation; per instance the Chroma directory and `_snapshot_generation` | restore, conditional save, merge loop | a saved document is never lost; every ingest ends; a give-up is deserved |
| Spend guard (`app/tracking/spend_guard.py`) | `_spent`, `_window_started`, behind a lock | `check`, `record`, `snapshot`, lazy roll of the window | the daily spend is bounded; a refusal says when it ends |
| Rate limiter (`app/rate_limit.py`, middleware in `app/main.py`) | token bucket per client, behind a lock | `allow`, eviction | admissions bounded by burst and refill; `Retry-After` honest; memory bounded |
| MLflow tracker (`app/tracking/mlflow_tracker.py`) | SQLite file on tmpfs, counter of unsaved runs (not behind the lock) | `log_run`, `flush` | unsaved runs are accounted for; what a process may lose is bounded |
| Tracking shards and monitor source (`shard_id`, `list_snapshot_objects`, `app/monitoring/source.py`) | one object per process under a prefix | save, expiry, list, read, merge | no writer touches another's runs; the monitor sees the newest |
| Chunking (`app/rag/chunking.py`) | none | `normalize`, `split_text` | no fact is lost at a boundary; chunks are bounded |
| Vector store (`app/rag/vectorstore.py`) | a Chroma collection | `add` (upsert by id), `search`, `reset` | a re-ingested document replaces its old version; filters keep the best hits |
| Pipeline (`app/rag/pipeline.py`) | the parts above | `ingest`, `query`, `retrieve` | order of check, calls, record, save, log |
| HTTP service (`app/main.py`, `app/dependencies.py`, `app/schemas.py`) | `app.state.pipeline` | middlewares, handlers, lifespan | a failed start answers 503, never a crash loop |
| Prompts (`app/rag/prompts.py`, lock file, `scripts/lock_prompts.py`) | templates and a lock | load, verify, lock | no run claims a version whose texts it did not use |
| Drift (`app/monitoring/drift.py`, `scripts/check_drift.py`) | none | statistics, comparison, diagnosis | silent on steady traffic, loud on a blackout, blames the right part |
| Evaluation (`app/evaluation/`, `scripts/run_eval.py`, `run_sweep.py`) | golden file, `baseline.json`, settings | load, score, gate, baseline, sweep | the baseline is made of the answerable cases; tuning costs no answers |
| OpenAI clients, cost, configuration, logging, Terraform, scripts | none of their own | | |

### How they interact

`ingest`: spend check, chunk, embed (billed), upsert, spend record, save the directory, log a run.
`query`: spend check, embed (billed), search, chat (billed) unless nothing matched, spend record, log
a run; the tracker may then upload its database in the same request thread. A cold start restores the
snapshot before Chroma opens the directory. The lifespan's end flushes the tracker. The monitor is a
separate process that reads the tracking shards.

Offline, the sweep picks retrieval settings, the evaluation measures them and writes the baseline, a
deployment serves them, and the drift check compares the window the monitor reads with the baseline.
The parts run at different times on different machines; nothing ties what was measured to what is
served.

### What is hard

1. Two instances, or two threads of one, save the same object, each under a generation it read
   earlier. A save may be refused, fail, or land with its response lost; merging has its own
   restores and saves; the adopted generation outlives all of it (`pipeline.py:278`).
2. The restore of a cold start may fail and the service serves anyway (`dependencies.py:83`).
3. Check and record of the spend guard are far apart, and a request may fail between them.
4. The tracker counts, compares, resets and uploads in four steps, of which only the last is locked.
5. Shards are listed by name, cut, sorted by age, cut, read, merged and cut again.
6. Off-by-one sizes in chunking and in every truncated `Retry-After`.
7. A document is ingested again while an older version of it still waits for its embeddings.
8. An upload holds the event loop for the whole of its ingest; every other request waits behind it,
   and so does a stop.
9. Templates and lock are edited, locked again and lost independently of each other.
10. Baseline, settings, prompts and traffic each change without the others.

`PROJECT.json` lists each hazard at its line, with the properties that cover it.

## 2. The modules

`ChromaSnapshot` refines `DurableCorpus`. Three modules are compositions: `Service` runs on the
prompts of `PromptLock`, `DocumentIndex` stores what `Chunking` cuts, `QualityLoop` joins `Retrieval`,
`Evaluation` and `Drift`. The rest stand alone, because the parts they model share no state: what an
ingest does in one of them is invisible in the others. `MC<Module>` gives a module its constants for
TLC. `<Module>Proofs` holds its theorems.

### ChromaSnapshot

State: `blob` is the GCS object (generation 0: absent), `store[i]` and `snapshot_generation[i]` an
instance's collection and `_snapshot_generation`, `job[w]` the ingest a request thread runs. Two
history variables: `origin` says which call an adopted generation came from, `acknowledged` collects
the chunks of uploads that were reported successful.

| action | code |
|---|---|
| `ColdStart`, `ColdStartEmpty` | `build_pipeline`: restore, open Chroma, adopt the generation; or nothing to restore, or a failed restore |
| `Crash` | the instance and its tmpfs go |
| `AddChunks` | `ingest` up to the upsert |
| `ReadGeneration` | `_save_snapshot` evaluates its `expected_generation` argument |
| `BuildArchive` | `save` tars the directory |
| `UploadLands`, `UploadConflicts`, `UploadFails`, `UploadResponseLost` | the upload and its four outcomes |
| `Merge`, `MergeRestoreFails`, `GiveUp` | one turn of the `while`, its `break`, its bound |
| `AdoptGeneration` | `self._snapshot_generation = outcome.generation` |

Reading the generation and building the archive are separate steps on purpose: other threads upsert,
save and adopt between them. A chunk is its id, because the store upserts by id. The archive itself
is one step: an upsert that runs while tar reads the directory is not interleaved with it.

`DurableCorpus` is what persistence promises: a corpus that only grows, instances that start on the
whole of it, ingest what they like and persist parts of what they hold. `ImplementsDurableCorpus` is
its specification under `corpus <- blob.chunks, running <- up, view <- store`.

### SpendGuard

`Check`/`Refuse`, `Record` and `Ready` are `check`, `record` and `snapshot`, each with the roll of
the window in the same critical section; `Embed`, `Chat`, `FailUnbilled`, `FailBilled` are what a
request does between check and record. Time is in half seconds, because the 429 truncates to seconds.
`billed`, `lost` and `refusal` are history. Billing starts anew when the guard rolls its window, so
that it compares with `spent`.

### RateLimiter

`ReadClock` is the part of `allow` before the lock, `AllowNew` (with eviction), `Admit` and `Refuse`
its critical section. Tokens are counted in fractions of 1/`Minute`, so that all arithmetic is exact.
`Observe` is not code: at any moment an observer may start to count a client's admissions anew, which
turns a statement about every interval into an invariant. The service calls `allow` from its event
loop alone, so no two of its calls overlap there; the module is for any number of callers, as the class is
locked, and holds of the one caller a fortiori.
A rate of 0 disables the limiter and is left out.

### TrackerFlush

`WriteRun` is the locked part of `log_run`; `Count`, `Reset` and
`Upload`/`UploadFails` the three steps that follow; `Stop`/`StopUnsaved` the lifespan's flush, `Kill`
an end without it. `Count` increments and compares in one step: CPython 3.12 switches threads at
calls and backward jumps only, and there is none between the load of the counter and the comparison.

### TrackingShards

`ColdStart` draws a fresh shard id (eight random hex digits: a collision is left out), `LogRun`,
`Save`, `Stop` and `Expire` write and expire shards. The reader is a function of the objects:
`Fetched` and `Listed` are `list_snapshot_objects`, `Records` and `Window` are
`load_snapshot_queries`. Names are numbers, since GCS lists in name order. A process logs at most one
run per tick, so runs of different processes may be equally old, those of one may not.

### Chunking

One action, the loop body of `split_text`, on a document abstracted to paragraph lengths. A piece is
an interval of a paragraph and the place `at` which it takes in its chunk, a chunk a sequence of
pieces; so the length of a chunk is the `End` of its last piece, and `Carried`, the stripped tail of
the buffer, is what `CutAt` leaves of the pieces that end behind the cut. The model's chunk boundaries
were compared with those of the real function on 200,000 random documents and agreed on all.

### DocumentIndex

Composes `Chunking` with the collection of one instance. `Chunked` ends a document: its chunks get
ids by position and its request waits for embeddings in `embedding`; `Add` upserts all of them at
once, `EmbedFails` drops the request. Requests overlap, so `Add` may come in any order of the
versions. `index[d]` is the version stored at every position of `d`, `upserts` is history. A merge of
`ChromaSnapshot` replays `Add` on a restored collection; here the collection is one instance's.

### PromptLock and Service

`PromptLock` is the repository's side: `Edit`, `LockPrompts` (of any version, an old one too),
`LoseLock`, and `LoadPromptSet`, which a process does once, at import. A hash stands for its text.
`released` is history: every version and set of texts that was ever locked together. A blank version is
written as it is and read as "unversioned" (`Declared`).

`Service` is one instance and its requests.

| action | code |
|---|---|
| `Repository`, `Import` | between two processes: edits and locks; then the import, which an invalid template ends |
| `Startup` | `lifespan` up to its `yield`: `build_pipeline` succeeds, or fails and is logged |
| `Receive`, `Middleware` | tracing, then the limiter, which only the metered paths meet |
| `Decode` | FastAPI reads and decodes the body: 422 for what is not JSON, 400 for bytes that are no text or a malformed form |
| `Depends` | `require_api_key` (401), `get_pipeline` (503), then the validation of the decoded body (422) |
| `StartThread` | the plain endpoints: a thread of the pool each |
| `StartUpload` | `ingest_file`: 400, 413, 415, or `pipeline.ingest` on the event loop |
| `Finish`, `Respond` | return or exception, through the exception handlers; the response leaves from the loop |
| `Terminate`, `Shutdown`, `Kill` | SIGTERM, the end of the lifespan once nothing is in flight, SIGKILL |

The order is that of the pinned FastAPI (0.115.6), which solves the dependencies of an endpoint only
after it has decoded the body (a GET has none): a garbled body is answered without the key and
without a pipeline, a decoded one that does not fit its schema only after both. `keyed` and
`garbled` are what a request brings with it. While a coroutine computes, `loop` names it and no
middleware, dependency or response can run. What an ingest or a query does is in the other modules;
here it ends in one of the statuses it can end in. `recorded` collects the prompt sets that
successful queries were logged under.

### Retrieval, Evaluation, Drift and QualityLoop

`Retrieval` is `search` with its two filters, `retrieve`, the short cut of `query` without context
and what a run records of a query. `Ranked` is external: what Chroma would return for a question
under a chunk size, nearest first (`RankedAssumption`, after `vectorstore.py:121`), so that what passes
the bar is a prefix of it. So is the model: it may refuse or be wrong in any context, and be
right only if a fact it needs is there.

`Evaluation` is the offline code: `load_cases`, `score_case`, `summarise`, `Thresholds.check`,
`write_baseline` with `Baseline.from_eval`, `build_grid`, `evaluate_point`, the order of
`SweepResult.score` and the top of `run_sweep`. Rates are rounded to four digits as in the code.

`Drift` is `summarise`, both tests, `compare` and `diagnose`. All comparisons are made exactly, on
counts instead of quotients and squares instead of roots; the code compares floats. Windows and
samples are bags. `KsStatistic` is the code's walk over both sorted lists, not its definition.

`QualityLoop` lets an operator tune, change prompts, evaluate and deploy in any order (`Tune`,
`Reprompt`, `Evaluate`, `Deploy`, the last with a floor the environment may override), and clients
ask (`Query`, with a `top_k` of their own if they like) until the check has read the window
(`NextWindow`). It assumes that the window the check reads is the window that was served, which is
the subject of `TrackingShards`.

## 3. What is checked

A *violation* run checks one statement that a comment, a doc or a test makes and that the code does
not keep. The largest runs take two to three minutes, the others seconds.

| run | instance | shows |
|---|---|---|
| `snapshot_two_instances` | two instances, one thread each, two chunks, three merge attempts, all faults | `SavedIsStored`, `RefusedOnlyWhenContended`, `LossOnlyAfterMerge` |
| `snapshot_one_instance` | one instance, two threads, no failed restore, fairness | `AcknowledgedKept`, `ImplementsDurableCorpus`, `EveryIngestEnds` |
| `snapshot_lost_write` (violation) | two instances, no fault at all | an acknowledged document is lost |
| `spend_ceiling` | two threads, one and a half windows of time | `RecordedBounded`, `BilledBounded`, `RefusalEndsWithItsWindow` |
| `spend_hard_ceiling` (violation) | one thread whose requests fail | unbounded bill |
| `limiter_rate` | one client, two callers, rate 2, minute of 5 ticks | `AdmissionBounded`, `RetryAfterHonoured` |
| `tracker_flush` | three threads, threshold 2, eight runs | `RunsAtRisk`, `LossBounded` |
| `shards_window` | three processes, one legacy, two listed | `WindowIsNewest`, `ShardsOnlyGrow` |
| `shards_listing` (violation) | five processes, one listed | the newest shard is not listed |
| `document_index` | three versions of a document of up to four paragraphs of up to 8, size 7, overlap 4 | `FactsRetrievable`, `ChunksBounded`, `NeverDuplicated`, `StaleOnlyBehindTheLast` |
| `service_requests` | an upload, a query and a health check, a pool of one thread, one template with three texts, fairness | `DegradedIsDiagnosable`, `OnlyAuthorisedSpend`, `RunsCleanlyAttributed`, `EveryRequestAnswered`, `StopEnds` |
| `quality_loop` | three golden files, grid of eight points, three live questions, windows of three to five, three operator's steps | `OnlyAnswerableInBaseline`, `GroundedByFloorAlone`, `KsIsLargestGap`, `SteadyTrafficQuiet`, `BlackoutNoticed`, `BlamedOnlyWithContext`, `MoreRefusalsNeverQuieter`, `TuneKeepsAnswers` |

Why the bounds are enough. A lost write needs two saves and an adoption in between: three generations
contain it, with room for a restart, and the violation run uses five. Contention needs as many
foreign writes as merge attempts: new requests stop at generation three, but the merges and lost
responses of those that run write on, and exhaust three attempts. The spend
guard's interesting states have every thread past the check and a window that ends meanwhile: two
threads, one and a half windows, costs 0 and 1 at each call. A bucket's interesting history is burst,
refill, two callers in the wrong order: eight ticks at two tokens per five ticks give refills that
are no whole token. With three threads one counts while another resets and a third uploads. The
shard window needs more shards than are listed and more runs than the limit; the chunk loop needs
paragraphs below, at and above the size, and tails that are cut in a piece, at a blank line and in the
piece before it. Documents share nothing, so one is enough, and three versions leave tails behind a
tail. With one thread in the pool and three requests, one runs, one holds the loop and one waits for
either; a second text lets the lock be of another text than the file, or locked again under its
version. A blank version is left to the proof, which treats it like the others. The golden files are one that can pass the gate, one whose small chunks lure the sweep away
from a fact, and one that `load_cases` must refuse. The real `MIN_WINDOW` is 30; with windows
of three to five and baselines of three cases every diagnosis is reached and every finding as an
alert, but for the similarity test, which samples so small only bring to a warning.

Deadlock is checked wherever the model cannot stop. It is off where the bound itself stops it (spent
clock, written runs, expired shards, the last version of the document, the operator's steps), where a
process has stopped for good, and in `snapshot_lost_write`, which has no crash to leave the last
generation by.

Liveness. `EveryIngestEnds` assumes weak fairness of each request thread's `Save` steps: the thread
pool runs a request until it returns, every GCS call has a client timeout, and nothing in the loop
waits for another request. Starting, crashing and ingesting carry no fairness.
`EveryRequestAnswered` and `StopEnds` assume weak fairness of each request's steps and of `Shutdown`:
calls to OpenAI and to Cloud Storage have client timeouts, the event loop and the pool take what waits
in order, and uvicorn leaves the lifespan once no request is in flight. Requests, SIGTERM and the
next start carry none. Weak fairness is enough for a pool that is contended because the requests of
an instance are finitely many in the model; in the code the queue of the pool is what bars overtaking.

### Findings

1. **A merge makes the next save lose documents** (`pipeline.py:278`, `snapshot_lost_write`). Instances
   A and B start; A saves x; B's save of y conflicts, is merged to {x, y} and B adopts its generation.
   B's store still lacks x. B's next save passes the precondition and uploads {y, z}: x, which was
   acknowledged, is gone and nothing is logged. `persistence.py:18` says "Concurrent writes are
   detected, not silently lost". The docstring at `pipeline.py:253` names the stale store, not this.
   A failed restore (`dependencies.py:83`) leads to the same adoption with one instance: its first
   ingest merges, its second overwrites. `LossOnlyAfterMerge` shows that there is no third way.
2. **A request that fails after its embedding is never recorded** (`pipeline.py:182`), so the ceiling
   bounds the bill only if no request fails.
3. **`list_snapshot_objects` cuts by name before it sorts by age** (`persistence.py:242`). Shard names
   begin with the revision, whose numbers grow, so what is cut is the newest.

Smaller disagreements, without a run of their own:

- `spend_guard.py:11` and README l. 790 allow an overshoot of one request; it is one request per
  thread (`RecordedBounded`), since each checks before any records.
- `config.py:125` states that a process that dies loses up to one threshold of runs. So it does while
  its threads are idle and its last upload succeeded; a process that dies in the middle of `log_run`,
  or after failed uploads, whose result `flush` ignores (`mlflow_tracker.py:170`), may lose more.
  `LossBounded` is the bound that holds.
- With no pipeline "`/ingest` and `/query` return a clear 503" (`main.py:71`). What is refused for
  another reason before `get_pipeline` is not: the limiter's 429, a garbled body, a missing key.
  `DegradedIsDiagnosable` says which comes when.
- `log_run` returns an id for a run that failed half way (`mlflow_tracker.py:140`), although its
  docstring says `None` on any failure.
- A chunk may exceed `chunk_size` by a blank line and the overlap (`chunking.py:76`).
- `main.py:209` calls `/health` "free and instant". It waits for the loop behind an upload and for a
  thread behind everything else; `EveryRequestAnswered` says that it is answered, not when.
- "Re-ingesting the same document updates it in place" (`vectorstore.py:79`): a shorter version leaves
  the tail of the longer one, which search keeps citing. `StaleOnlyBehindTheLast` bounds it.
- The version of a lock may be used again for other texts (`lock_prompts.py:63`), and `compare`
  looks at versions only (`drift.py:289`), though the baseline holds the fingerprint.
- A floor raised after the baseline refuses known questions and is diagnosed as traffic off-topic
  (`drift.py:333`), where the table at `drift.py:21-24` has retrieval or its configuration; `compare`
  never looks at the baseline's `min_similarity`. A client's `top_k` lowers chunks per query too.
- `run_eval.py:86` refreshes the baseline even if the gate fails. `BlackoutNoticed` is about
  baselines from runs that passed; with one from a run that refused every case, a blackout goes
  unnoticed. So it would with a golden file of refusal cases and few others (`BlackoutIsNoticed`).
- The evaluation asks its questions through `query`, so they are logged with `stage` "query" into the
  experiment that a local drift check reads.

## 4. What is proved

All theorems hold for every value of the constants that satisfies the modules' ASSUMEs.

| module | theorem | by |
|---|---|---|
| `ChromaSnapshotProofs` | `TypeCorrect`, `SavesStore`, `RefusalsAreContended`, `LossNeedsMerge` | `IInv` |
| | `SoleInstanceKeeps`, `SoleInstanceImplements` | `SoleInv` on top of `IInv`, under `SoleInstance` |
| `SpendGuardProofs` | `TypeCorrect`, `CeilingOvershoot`, `RefusalsAreHonest` | `CeilingInv`, `RefusalInv` |
| | `BillingOvershoot` | `BilledInv`, which holds `CeilingInv` |
| `RateLimiterProofs` | `TypeCorrect`, `AdmissionBound`, `RetryAfterIsHonoured`, `MemoryIsBounded` | `CountInv`, `PromiseInv`, `MemoryInv` |
| `TrackerFlushProofs` | `TypeCorrect`, `NoRunForgotten`, `LossIsBounded` | `CounterBounded` with `RunsAtRisk` |
| `TrackingShardsProofs` | `TypeCorrect`, `ShardsAreNeverOverwritten`, `WindowHoldsTheNewest` | `OneWriter`, `WindowInv` |
| `DocumentIndexProofs` | `IndexTyped`, `NoFactLost`, `BudgetKept`, `IngestConverges`, `StaleTailOnly` | `IndexInv`, with `ChunkInv` for the chunker |
| `ServiceProofs` | `TypeCorrect`, `AttributionHolds`, `AuthorisedSpendOnly`, `DegradedDiagnosable` | `Attributed`, `Guarded`, `Quiet` |
| `QualityLoopProofs` | `LoopTyped`, `BaselineAnswerable`, `FloorDecides`, `BlameNeedsContext`, `RefusalsMonotone`, `TuneKeeps` | `LoopInv` |
| | `KsGapLargest`, `SteadyIsQuiet` | `ComparedInv` on top of `LoopInv` |
| | `BlackoutIsNoticed` | `PassedInv` on top of `LoopInv`, under `BalancedGolden` and `MIN_WINDOW >= 8` |

The arguments:

- *ChromaSnapshot.* None of the safety properties is inductive: whether an upload loses something
  depends on what was true when its generation was read. `IInv` carries a voucher along: a current
  generation that was not adopted from a merge means that the store holds all the object holds
  (`GenerationVouches`); so does the same generation inside a request, first of the store, then of the
  archive (`RequestVouches`). A request's chunks travel from store to archive to object
  (`RequestCarriesChunks`); each retry's precondition is newer than the write that refused the last
  one (`RetriesFollowWrites`).
- *One instance.* `SoleInstance` (one instance, no failed restore; any number of threads, crashes,
  failed uploads, lost responses) makes the voucher unconditional: the running instance always holds
  the whole object, merges included, since what it merges onto came from its own store. Hence nothing
  acknowledged is lost, and every step is a step of `DurableCorpus` or a stutter.
- *SpendGuard.* `SetAside`: what is recorded plus one maximal cost per request in flight stays below
  the budget plus one per thread; an admission takes a share, a record or a failure returns it. For the
  money itself, what was billed is covered by what is recorded, lost, and still owed by requests
  (`BilledCovered`); what is owed is summed over the threads as the number of pairs of a thread and a
  unit it owes, so that set cardinalities do for a sum.
- *RateLimiter.* `Conserved`: what a client has left plus what it was admitted is at most its burst
  plus the refill up to the bucket's own time, which may be behind the clock; out-of-order callers
  move tokens and time back together. `PromiseKept`: at the announced time the bucket holds a token.
- *TrackerFlush.* The counter exceeds the threshold by less than the number of threads about to reset
  it, which bounds what a reset forgets until its upload. The same two facts bound what the process may
  lose: counted runs are fewer than the threshold and the threads about to reset, and the rest is of
  rounds not uploaded. A final flush that fails adds one round to the bound and no run to the loss.
- *TrackingShards.* A shard has one writer whose database holds all the shard holds. The monitor's two
  cuts, of the listing and of the merged records, are each the first k of a finite set in a strict
  total order: `NotFirst` says that whatever is not among them comes after k others (`RankGrows`:
  ranks grow along the order, so k elements are a full window). `WindowHoldsTheNewest` chains it
  through listing, read and merge, and needs of the processes that a shard holds no run newer than
  itself.
- *Chunking.* `ChunkInv` says that the pieces of a buffer follow each other with a blank line between
  (`Ordered`), that no text exceeds the bound, and that everything due is in some text (`Covered`).
  What is due of a paragraph longer than a chunk is in one of its slices, since steps and slices
  overlap (`HardSplit`); carrying a tail keeps order and bound, because `CutAt` shortens the first
  piece by what is before the cut and moves the others.
- *DocumentIndex.* `LongestInv`: the stored length is that of some upsert and no upsert is longer.
  `LastInv`: of a document's positions, those the last upsert reaches hold its version and no others
  do. The second half needs that the version of a request that still waits is nowhere stored
  (`VersionsInv`), since versions are given out once.
- *QualityLoop.* `LoopInv` adds to the types that a record says whether its query was refused, that
  the window is a finite bag, and `BaselineInv`: the baseline counts the grounded cases, and has no
  more ungrounded than refused ones. The latter needs `SearchFacts`: a list is empty only if the best
  hit is under the floor, and an empty list is always answered by the refusal. Finding the scores by
  their ids is choosing the grounded cases because ids are distinct in a file that loads. The bag of
  their records counts every case once (`RecordsCounted`, by a bijection of cases and queries).

  The two findings about rates rest on `RateGrows`: with everything else fixed, the test that fires
  for a refusals fires for a + d. Squared, its statistic is gap² over p(N - p), for p refused of N in
  both samples. N - p falls; and gap²/p grows, since every refusal adds one to p and the size of the
  baseline to the gap (`GapOutgrows`). `Complement` mirrors the samples, which turns it into a
  statement about the reference rate (`RateAgainstLess`). One more refusal is then d = 1; and where
  every refusal retrieved nothing, ungrounded is at least refused in the window and at most refused in
  the baseline, so the one signal never comes without the other. `TuneKeeps`: the first component of
  the score is the answerable count plus a number that is the same for every point.

  `KsGapLargest` is about a recursive function, the walk of `ks_statistic`, and needs no induction over
  its definition. `Closed` says outright what the walk returns from a position: the largest gap at the
  values still to come. It solves the walk's equation (`ClosedIsAWalk`), since the position behind a
  value v has as its value the next one of both samples (`NextFacts`). The equation has no other
  solution (`OneWalk`): of the positions at which two would differ, take the one with the greatest
  value; the solutions agree at its successor, and so at it. What is left is that the walk may stop
  when one sample is exhausted: behind the last value of a sample the gap only closes (`GapCloses`).
  `SteadyIsQuiet` needs of this that the gap of a sample to itself is zero, and `ComparedInv`: the
  baseline is the summary of the evaluated records, whose similarities are a finite, non-empty sample
  like those of the window.

  `BlackoutIsNoticed` is about the numbers of the gate, and has two hypotheses that the code meets:
  `MIN_WINDOW` is at least eight (it is 30), and of every golden file the refusal cases do not
  outnumber the grounded ones by more than a quarter (`BalancedGolden`; `evals/golden.jsonl` has 67 and
  61). Without them it is false: where few cases are grounded, all of them may be refused and the
  accuracy still be 0.8. With them, a run that passed refused at most half of the grounded cases
  (`PassedInv`, by `PassedAnswers`; the rounding of the rate is counted in), and against that rate
  eight refusals out of eight are significant for a baseline of any size (`BlackoutSignificant`). The
  run checks the property with smaller windows, where it holds of its three golden files.
- *Service.* `Guarded` says where a request can be, by its body, its key and the pipeline: a garbled
  one never got past `Decode`, and what lacks key or pipeline never past `Depends`, and has one of the
  answers that stand before them (`Refusals`); so the stages behind need no look at either again. It
  is inductive because none of the three can change meanwhile: body and key are of the request, and the
  pipeline changes only in `Startup` and when the process goes, at which times there is no request
  (`Quiet`). `Attributed` carries the claim of the running process: the set it loaded is clean only if
  the lock it read, which was released when it was written, holds its very texts. Later locks release
  more and take nothing back.

Assumed of the constants, besides their types: search results come nearest first, as Chroma returns
them (`vectorstore.py:121`); `top_k` is at least one, as the schema of a request demands; every
question can be asked of every index; golden files are finite sequences. Floors are not negative, as in
every configuration of the repository: under a negative floor the relative bar lies above a best hit
that is itself negative, and `FloorDecides` would not hold.

Only model-checked: `EveryIngestEnds`, `EveryRequestAnswered` and `StopEnds` (liveness, ENABLED).
Only proved: `MemoryBounded`. The limiter's run has one client, whose clocks and tokens are what TLC
can exhaust, and so a table that never reaches its limit.

## 5. What is not modelled

Not modelled, with reasons: price tables and the values of the configuration (data), logging and
response formats (no state), Terraform apart from the lifecycle rule, shell scripts, the prompt
comparison and the drift validation scripts (I/O, or a simulation of what is modelled), the content of
MLflow runs beyond what the monitor reads back, rendering of prompts and the assembly of contexts.

Abstracted:

- An archive is taken in one step, although tar reads the live directory while other threads upsert
  (`persistence.py:120`). What a torn SQLite file restores to is decided inside Chroma, of which the
  source says nothing; any model would be a guess.
- A chunk is its id in `ChromaSnapshot`, and a version in `DocumentIndex`; a merge that replays an
  older version over a newer one is the composition of both and is not checked.
- The time a GCS or OpenAI call takes is any number of steps of others. HTTP retries of the client
  libraries appear as lost responses. One process per instance.
- `Service` receives each request at most once per process; the `await` of `file.read`, during which
  the loop is free, is part of `StartUpload`.
- `Best` leaves open which of several equally good points a stable sort puts first. In the golden
  files of `quality_loop` every answerable case lists keywords; one that lists none counts as answered
  by any context (`sweep.py:161`), and `TuneKeepsAnswers` is not about those.
- `Drift` computes exactly what the code computes in floats, so verdicts on the very bar may differ.
