---------------------------- MODULE ChromaSnapshot ----------------------------
(***************************************************************************)
(* The durability protocol of the vector store: every instance keeps its   *)
(* own Chroma directory on a tmpfs, uploads it to ONE shared GCS object    *)
(* after an ingest, under a generation precondition, and restores it on a  *)
(* cold start (app/persistence.py, RAGPipeline._save_snapshot and          *)
(* build_pipeline).                                                        *)
(*                                                                         *)
(* A worker is a thread of the server's pool that runs one ingest request  *)
(* at a time; Host says which instance it belongs to.  The workers of one  *)
(* instance share its store and its generation, without a lock.            *)
(*                                                                         *)
(* Data is abstracted to sets of chunk ids: the store upserts by id, so a  *)
(* snapshot is the set of ids it holds.  MaxGeneration bounds the number   *)
(* of generations after which no new request begins.                       *)
(***************************************************************************)
EXTENDS Integers

CONSTANTS
    Instances,      \* Cloud Run instances
    Workers,        \* request threads, of all the instances
    Host,           \* the instance of each worker
    Chunks,         \* chunk ids
    Batches,        \* the chunk sets an ingest request may carry
    MergeAttempts,  \* SNAPSHOT_MERGE_ATTEMPTS
    MaxGeneration,  \* bound: no ingest begins once the blob is this old
    Faults          \* which failures happen, see FaultKinds

\* restore: a download fails; upload: an upload fails before it lands;
\* response: an upload lands and its answer is lost; crash: an instance dies.
FaultKinds == {"restore", "upload", "response", "crash"}

ASSUME HostAssumption == Host \in [Workers -> Instances]
ASSUME BatchAssumption == Batches \subseteq (SUBSET Chunks) \ {{}}
ASSUME BoundAssumption == MergeAttempts \in Nat /\ MaxGeneration \in Nat
ASSUME FaultAssumption == Faults \subseteq FaultKinds

VARIABLES
    blob,                 \* the GCS object: its generation and its chunks
    up,                   \* which instances run
    store,                \* the local Chroma collection of each instance
    snapshot_generation,  \* RAGPipeline._snapshot_generation
    job,                  \* the ingest each worker runs
    origin,               \* history: where snapshot_generation comes from
    acknowledged          \* history: chunks of uploads reported successful

vars == <<blob, up, store, snapshot_generation, job, origin, acknowledged>>

\* "none": the generation is 0, no snapshot was ever seen; otherwise the call
\* that returned it: a restore, a save of the local store, a merged save.
Origins == {"none", "restored", "saved", "merged"}

\* One ingest request.  expected and origin: the generation argument of save;
\* archive: the tar it built; written: SnapshotResult.generation.
\* began is a history field: the blob's generation when the request began.
Job == [pc       : {"idle", "added", "saving", "upload", "conflict", "saved"},
        chunks   : SUBSET Chunks,
        expected : Nat,
        origin   : Origins,
        archive  : SUBSET Chunks,
        attempts : Nat,
        written  : Nat,
        began    : Nat]

IdleJob == [pc |-> "idle", chunks |-> {}, expected |-> 0, origin |-> "none",
            archive |-> {}, attempts |-> 0, written |-> 0, began |-> 0]

TypeOK ==
    /\ blob \in [generation : Nat, chunks : SUBSET Chunks]
    /\ up \in [Instances -> BOOLEAN]
    /\ store \in [Instances -> SUBSET Chunks]
    /\ snapshot_generation \in [Instances -> Nat]
    /\ job \in [Workers -> Job]
    /\ origin \in [Instances -> Origins]
    /\ acknowledged \in SUBSET Chunks

\* Generation 0 is "the object does not exist", for GCS preconditions too.
Init ==
    /\ blob = [generation |-> 0, chunks |-> {}]
    /\ up = [i \in Instances |-> FALSE]
    /\ store = [i \in Instances |-> {}]
    /\ snapshot_generation = [i \in Instances |-> 0]
    /\ job = [w \in Workers |-> IdleJob]
    /\ origin = [i \in Instances |-> "none"]
    /\ acknowledged = {}

-----------------------------------------------------------------------------
(* Cold start and death of an instance.                                    *)

\* Mutant: Chroma opens its directory before the restore fills it.
ColdStartOpensFirst(i) ==
    /\ ~up[i]
    /\ blob.generation > 0
    /\ up' = [up EXCEPT ![i] = TRUE]
    /\ snapshot_generation' = [snapshot_generation EXCEPT ![i] = blob.generation]
    /\ origin' = [origin EXCEPT ![i] = "restored"]
    /\ UNCHANGED <<blob, store, job, acknowledged>>

\* build_pipeline: restore into the Chroma directory before Chroma opens it,
\* then adopt the generation that was read.  The download is the one access
\* to shared state, and no request runs yet, so start-up is one step.
ColdStart(i) ==
    /\ ~up[i]
    /\ blob.generation > 0
    /\ up' = [up EXCEPT ![i] = TRUE]
    /\ store' = [store EXCEPT ![i] = blob.chunks]
    /\ snapshot_generation' = [snapshot_generation EXCEPT ![i] = blob.generation]
    /\ origin' = [origin EXCEPT ![i] = "restored"]
    /\ UNCHANGED <<blob, job, acknowledged>>

\* Mutant: -1 stands for no snapshot.
ColdStartMinusOne(i) ==
    /\ ~up[i]
    /\ blob.generation = 0 \/ "restore" \in Faults
    /\ up' = [up EXCEPT ![i] = TRUE]
    /\ store' = [store EXCEPT ![i] = {}]
    /\ snapshot_generation' = [snapshot_generation EXCEPT ![i] = -1]
    /\ origin' = [origin EXCEPT ![i] = "none"]
    /\ UNCHANGED <<blob, job, acknowledged>>

\* No object yet, or a restore that failed: the service starts with an empty
\* store and leaves the generation at 0.
ColdStartEmpty(i) ==
    /\ ~up[i]
    /\ blob.generation = 0 \/ "restore" \in Faults
    /\ up' = [up EXCEPT ![i] = TRUE]
    /\ store' = [store EXCEPT ![i] = {}]
    /\ snapshot_generation' = [snapshot_generation EXCEPT ![i] = 0]
    /\ origin' = [origin EXCEPT ![i] = "none"]
    /\ UNCHANGED <<blob, job, acknowledged>>

\* Scale to zero or a crash: the tmpfs and every running request are gone.
Crash(i) ==
    /\ "crash" \in Faults
    /\ up[i]
    /\ up' = [up EXCEPT ![i] = FALSE]
    /\ store' = [store EXCEPT ![i] = {}]
    /\ snapshot_generation' = [snapshot_generation EXCEPT ![i] = 0]
    /\ origin' = [origin EXCEPT ![i] = "none"]
    /\ job' = [w \in Workers |-> IF Host[w] = i THEN IdleJob ELSE job[w]]
    /\ UNCHANGED <<blob, acknowledged>>

-----------------------------------------------------------------------------
(* One ingest request.                                                     *)

\* RAGPipeline.ingest up to the upsert.  Requests that fail before it, or that
\* carry no chunk, touch none of this state.
AddChunks(w, batch) ==
    /\ up[Host[w]]
    /\ job[w].pc = "idle"
    /\ blob.generation < MaxGeneration
    /\ store' = [store EXCEPT ![Host[w]] = @ \cup batch]
    /\ job' = [job EXCEPT ![w] = [IdleJob EXCEPT !.pc = "added",
                                                 !.chunks = batch,
                                                 !.began = blob.generation]]
    /\ UNCHANGED <<blob, up, snapshot_generation, origin, acknowledged>>

\* _save_snapshot evaluates expected_generation=self._snapshot_generation ...
ReadGeneration(w) ==
    /\ job[w].pc = "added"
    /\ job' = [job EXCEPT ![w].pc = "saving",
                          ![w].expected = snapshot_generation[Host[w]],
                          ![w].origin = origin[Host[w]]]
    /\ UNCHANGED <<blob, up, store, snapshot_generation, origin, acknowledged>>

\* ... and only then does save read the directory into the archive, which is
\* taken whole here: an upsert that runs while tar reads it is left out.
BuildArchive(w) ==
    /\ job[w].pc = "saving"
    /\ job' = [job EXCEPT ![w].pc = "upload", ![w].archive = store[Host[w]]]
    /\ UNCHANGED <<blob, up, store, snapshot_generation, origin, acknowledged>>

\* Mutant: the upload carries no if_generation_match.
Unconditional(w) == job[w].expected \in Nat

\* GCS stores the archive if the object still has the expected generation.
Precondition(w) == job[w].expected = blob.generation

StoreArchive(w) ==
    blob' = [generation |-> blob.generation + 1, chunks |-> job[w].archive]

\* upload_from_string returns; blob.generation is the generation written.
UploadLands(w) ==
    /\ job[w].pc = "upload"
    /\ Precondition(w)
    /\ StoreArchive(w)
    /\ job' = [job EXCEPT ![w].pc = "saved", ![w].written = blob.generation + 1]
    /\ acknowledged' = acknowledged \cup job[w].archive
    /\ UNCHANGED <<up, store, snapshot_generation, origin>>

\* The write lands but its response is lost.  The client library retries a
\* conditional upload and is told 412 (conflict), or gives up with another
\* error, which ends the save without durability.
UploadResponseLost(w) ==
    /\ "response" \in Faults
    /\ job[w].pc = "upload"
    /\ Precondition(w)
    /\ StoreArchive(w)
    /\ \/ job' = [job EXCEPT ![w].pc = "conflict"]
       \/ job' = [job EXCEPT ![w] = IdleJob]
    /\ UNCHANGED <<up, store, snapshot_generation, origin, acknowledged>>

\* 412: the object moved.  save reports conflict, nothing is written.
UploadConflicts(w) ==
    /\ job[w].pc = "upload"
    /\ ~Precondition(w)
    /\ job' = [job EXCEPT ![w].pc = "conflict"]
    /\ UNCHANGED <<blob, up, store, snapshot_generation, origin, acknowledged>>

\* Any other error: ok=False without conflict, so neither branch that follows
\* the loop applies and the request ends.
UploadFails(w) ==
    /\ "upload" \in Faults
    /\ job[w].pc = "upload"
    /\ job' = [job EXCEPT ![w] = IdleJob]
    /\ UNCHANGED <<blob, up, store, snapshot_generation, origin, acknowledged>>

\* Mutant: the retry resends this instance's store under the new generation.
MergeOverwrites(w) ==
    /\ job[w].pc = "conflict"
    /\ job[w].attempts < MergeAttempts
    /\ blob.generation > 0
    /\ job' = [job EXCEPT ![w].pc = "upload",
                          ![w].attempts = @ + 1,
                          ![w].expected = blob.generation,
                          ![w].origin = "restored",
                          ![w].archive = store[Host[w]]]
    /\ UNCHANGED <<blob, up, store, snapshot_generation, origin, acknowledged>>

\* Mutant: the retry keeps self._snapshot_generation as its precondition.
MergeKeepsGeneration(w) ==
    /\ job[w].pc = "conflict"
    /\ job[w].attempts < MergeAttempts
    /\ blob.generation > 0
    /\ job' = [job EXCEPT ![w].pc = "upload",
                          ![w].attempts = @ + 1,
                          ![w].archive = blob.chunks \cup job[w].chunks]
    /\ UNCHANGED <<blob, up, store, snapshot_generation, origin, acknowledged>>

\* Mutant: merged.add is left out.
MergeForgetsChunks(w) ==
    /\ job[w].pc = "conflict"
    /\ job[w].attempts < MergeAttempts
    /\ blob.generation > 0
    /\ job' = [job EXCEPT ![w].pc = "upload",
                          ![w].attempts = @ + 1,
                          ![w].expected = blob.generation,
                          ![w].origin = "restored",
                          ![w].archive = blob.chunks]
    /\ UNCHANGED <<blob, up, store, snapshot_generation, origin, acknowledged>>

\* Mutant: a refused upload is sent again as it is until it is accepted.
MergeResends(w) ==
    /\ job[w].pc = "conflict"
    /\ job' = [job EXCEPT ![w].pc = "upload"]
    /\ UNCHANGED <<blob, up, store, snapshot_generation, origin, acknowledged>>

\* One turn of the while loop: restore the winner's snapshot into a workspace
\* and replay this request's chunks on it.
Merge(w) ==
    /\ job[w].pc = "conflict"
    /\ job[w].attempts < MergeAttempts
    /\ blob.generation > 0
    /\ job' = [job EXCEPT ![w].pc = "upload",
                          ![w].attempts = @ + 1,
                          ![w].expected = blob.generation,
                          ![w].origin = "restored",
                          ![w].archive = blob.chunks \cup job[w].chunks]
    /\ UNCHANGED <<blob, up, store, snapshot_generation, origin, acknowledged>>

\* The workspace restore fails: break, and the conflict is logged.  (An error
\* of the workspace's own Chroma store fails the request instead, with the
\* same effect on this state.)
MergeRestoreFails(w) ==
    /\ "restore" \in Faults
    /\ job[w].pc = "conflict"
    /\ job[w].attempts < MergeAttempts
    /\ job' = [job EXCEPT ![w] = IdleJob]
    /\ UNCHANGED <<blob, up, store, snapshot_generation, origin, acknowledged>>

\* The loop's bound: "this ingest is not durable" is logged, the request ends.
GiveUp(w) ==
    /\ job[w].pc = "conflict"
    /\ job[w].attempts >= MergeAttempts
    /\ job' = [job EXCEPT ![w] = IdleJob]
    /\ UNCHANGED <<blob, up, store, snapshot_generation, origin, acknowledged>>

\* if outcome.ok: self._snapshot_generation = outcome.generation.  The same
\* assignment ends a plain save and a merged one; the local store is not
\* touched by either.
AdoptGeneration(w) ==
    /\ job[w].pc = "saved"
    /\ snapshot_generation' =
           [snapshot_generation EXCEPT ![Host[w]] = job[w].written]
    /\ origin' = [origin EXCEPT
                    ![Host[w]] = IF job[w].attempts = 0 THEN "saved" ELSE "merged"]
    /\ job' = [job EXCEPT ![w] = IdleJob]
    /\ UNCHANGED <<blob, up, store, acknowledged>>

-----------------------------------------------------------------------------
Save(w) ==
    \/ ReadGeneration(w)
    \/ BuildArchive(w)
    \/ UploadLands(w)
    \/ UploadResponseLost(w)
    \/ UploadConflicts(w)
    \/ UploadFails(w)
    \/ Merge(w)
    \/ MergeRestoreFails(w)
    \/ GiveUp(w)
    \/ AdoptGeneration(w)

Next ==
    \/ \E i \in Instances : ColdStart(i) \/ ColdStartEmpty(i) \/ Crash(i)
    \/ \E w \in Workers : Save(w) \/ \E batch \in Batches : AddChunks(w, batch)

Spec == Init /\ [][Next]_vars

\* A request thread is never starved: the server runs it until it returns.
FairSpec == Spec /\ \A w \in Workers : WF_vars(Save(w))

-----------------------------------------------------------------------------
(* Properties.                                                             *)

\* "Concurrent writes are detected, not silently lost" (persistence.py:18):
\* what a successful save uploaded stays in the shared object.  This holds of
\* one instance whose restores succeed; it fails with two instances, and with
\* one whose restore failed.
AcknowledgedKept == acknowledged \subseteq blob.chunks

\* The one way the object ever loses a chunk: a plain upload of a store under
\* a generation that was adopted from a merge, which the store never loaded.
\* Every other interleaving of saves, merges, restarts, failures and lost
\* responses keeps every chunk.
SavesOverUnseenMerge(w) ==
    /\ job[w].pc = "upload"
    /\ job[w].attempts = 0
    /\ job[w].origin = "merged"
    /\ job'[w].pc # "upload"

LossOnlyAfterMerge ==
    [][blob.chunks \subseteq blob'.chunks
         \/ \E w \in Workers : SavesOverUnseenMerge(w)]_vars

\* "A give-up is loud" (pipeline.py:285) and deserved: the n-th retry is only
\* refused when n writes landed since the request began, so no request gives
\* up before MergeAttempts of them, however stale its first precondition was.
RefusedOnlyWhenContended ==
    \A w \in Workers :
        job[w].pc = "conflict" => blob.generation >= job[w].began + job[w].attempts

\* While the generation a save wrote is the current one, the object holds all
\* the chunks of that request, whether it was saved plainly or merged, and
\* whatever the other workers of the instance did to the store meanwhile.
SavedIsStored ==
    \A w \in Workers :
        (job[w].pc = "saved" /\ job[w].written = blob.generation)
            => job[w].chunks \subseteq blob.chunks

\* One instance implements the durable corpus: the object is the corpus, and
\* the store of an instance is what it answers from.
Durable == INSTANCE DurableCorpus WITH
    corpus <- blob.chunks, running <- up, view <- store

ImplementsDurableCorpus == Durable!Spec

\* The retry loop ends: under contention, restore and upload failures, lost
\* responses and crashes, every ingest request is answered.
EveryIngestEnds ==
    \A w \in Workers : job[w].pc # "idle" ~> job[w].pc = "idle"

=============================================================================
