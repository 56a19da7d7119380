----------------------------- MODULE TrackerFlush -----------------------------
(***************************************************************************)
(* One process's MLflow runs (app/tracking/mlflow_tracker.py): a run is    *)
(* logged to a SQLite file on the instance's tmpfs, and the file is        *)
(* uploaded to the process's own GCS object after every so many runs and   *)
(* at shutdown.                                                            *)
(*                                                                         *)
(* The lock covers the writing of a run and the upload, but neither the    *)
(* counter of runs nor the decision to flush, which the request threads    *)
(* take one by one.  A run is counted by its number only.  MaxRuns bounds  *)
(* the runs of a process.                                                  *)
(***************************************************************************)
EXTENDS Integers, FiniteSets

CONSTANTS
    Threads,   \* request threads
    Every,     \* mlflow_snapshot_every; 0 disables the threshold
    MaxRuns    \* bound: no run starts once this many are written

ASSUME ThreadAssumption == IsFiniteSet(Threads)
ASSUME BoundAssumption == Every \in Nat /\ MaxRuns \in Nat

VARIABLES
    phase,                \* of the process
    written,              \* how many runs the tracking database holds
    saved,                \* how many of them the process's shard holds
    runs_since_snapshot,  \* MLflowTracker._runs_since_snapshot
    pc,                   \* where each thread is in log_run
    failed_uploads        \* history: uploads that failed since one succeeded

vars == <<phase, written, saved, runs_since_snapshot, pc, failed_uploads>>

\* logged: a run id is at hand; flushing: the threshold was met; saving: the
\* counter was reset, the upload is to come.
Steps == {"idle", "logged", "flushing", "saving"}

TypeOK ==
    /\ phase \in {"serving", "stopped", "killed"}
    /\ written \in Nat
    /\ saved \in 0..written
    /\ runs_since_snapshot \in Nat
    /\ pc \in [Threads -> Steps]
    /\ failed_uploads \in Nat

\* A process starts empty: it never restores a shard.
Init ==
    /\ phase = "serving"
    /\ written = 0
    /\ saved = 0
    /\ runs_since_snapshot = 0
    /\ pc = [t \in Threads |-> "idle"]
    /\ failed_uploads = 0

-----------------------------------------------------------------------------
(* log_run.                                                                *)

\* The run is written, all of it under the lock.  If start_run raises there is
\* no run and nothing changes; if a later call does (a metric or an artifact
\* that cannot be stored) the run exists without it, and has its id already.
WriteRun(t) ==
    /\ phase = "serving"
    /\ pc[t] = "idle"
    /\ written < MaxRuns
    /\ written' = written + 1
    /\ pc' = [pc EXCEPT ![t] = "logged"]
    /\ UNCHANGED <<phase, saved, runs_since_snapshot, failed_uploads>>

\* Mutant: the threshold must be exceeded.
CountBeyond(t) ==
    /\ phase = "serving"
    /\ pc[t] = "logged"
    /\ runs_since_snapshot' = runs_since_snapshot + 1
    /\ pc' = [pc EXCEPT ![t] = IF Every > 0 /\ runs_since_snapshot' > Every
                                 THEN "flushing"
                                 ELSE "idle"]
    /\ UNCHANGED <<phase, written, saved, failed_uploads>>

\* The run is counted, outside the lock, and the threshold is compared.
Count(t) ==
    /\ phase = "serving"
    /\ pc[t] = "logged"
    /\ runs_since_snapshot' = runs_since_snapshot + 1
    /\ pc' = [pc EXCEPT ![t] = IF Every > 0 /\ runs_since_snapshot' >= Every
                                 THEN "flushing"
                                 ELSE "idle"]
    /\ UNCHANGED <<phase, written, saved, failed_uploads>>

-----------------------------------------------------------------------------
(* flush.                                                                  *)

\* Mutant: a thread that finds another one saving leaves the upload to it.
ResetUnlessSaving(t) ==
    /\ phase = "serving"
    /\ pc[t] = "flushing"
    /\ runs_since_snapshot' = 0
    /\ pc' = [pc EXCEPT ![t] = IF \E s \in Threads : pc[s] = "saving"
                                 THEN "idle"
                                 ELSE "saving"]
    /\ UNCHANGED <<phase, written, saved, failed_uploads>>

\* Mutant: the counter is lowered by the round instead of reset.
ResetSubtracts(t) ==
    /\ phase = "serving"
    /\ pc[t] = "flushing"
    /\ runs_since_snapshot' = runs_since_snapshot - Every
    /\ pc' = [pc EXCEPT ![t] = "saving"]
    /\ UNCHANGED <<phase, written, saved, failed_uploads>>

\* The counter is reset first, without the lock.
Reset(t) ==
    /\ phase = "serving"
    /\ pc[t] = "flushing"
    /\ runs_since_snapshot' = 0
    /\ pc' = [pc EXCEPT ![t] = "saving"]
    /\ UNCHANGED <<phase, written, saved, failed_uploads>>

\* The database directory is archived and uploaded under the lock, so that no
\* run is written meanwhile.  The write is unconditional.
Upload(t) ==
    /\ phase = "serving"
    /\ pc[t] = "saving"
    /\ saved' = written
    /\ pc' = [pc EXCEPT ![t] = "idle"]
    /\ failed_uploads' = 0
    /\ UNCHANGED <<phase, written, runs_since_snapshot>>

\* save never raises and its result is not looked at.
UploadFails(t) ==
    /\ phase = "serving"
    /\ pc[t] = "saving"
    /\ pc' = [pc EXCEPT ![t] = "idle"]
    /\ failed_uploads' = failed_uploads + 1
    /\ UNCHANGED <<phase, written, saved, runs_since_snapshot>>

-----------------------------------------------------------------------------
(* The end of the process.                                                 *)

\* The server ends the lifespan once its last request has been answered.
Drained == phase = "serving" /\ \A t \in Threads : pc[t] = "idle"

\* SIGTERM, and time enough: the lifespan flushes once more.
Stop ==
    /\ Drained
    /\ phase' = "stopped"
    /\ runs_since_snapshot' = 0
    /\ saved' = written
    /\ failed_uploads' = 0
    /\ UNCHANGED <<written, pc>>

StopUnsaved ==
    /\ Drained
    /\ phase' = "stopped"
    /\ runs_since_snapshot' = 0
    /\ failed_uploads' = failed_uploads + 1
    /\ UNCHANGED <<written, saved, pc>>

\* SIGKILL, out of memory, or the end of the grace period.
Kill ==
    /\ phase = "serving"
    /\ phase' = "killed"
    /\ UNCHANGED <<written, saved, runs_since_snapshot, pc, failed_uploads>>

Next ==
    \/ Stop
    \/ StopUnsaved
    \/ Kill
    \/ \E t \in Threads :
          \/ WriteRun(t)
          \/ Count(t)
          \/ Reset(t)
          \/ Upload(t)
          \/ UploadFails(t)

Spec == Init /\ [][Next]_vars

-----------------------------------------------------------------------------
(* Properties.                                                             *)

At(step) == {t \in Threads : pc[t] = step}

\* What one reset of the counter may account for: several threads may count
\* past the threshold before the first of them resets.
PerReset == Every + Cardinality(Threads)

\* Until it stops, no unsaved run of a process is forgotten, whatever the order
\* in which the threads write, count, reset and upload outside the lock: it is
\* counted, or about to be counted, or of a round whose upload is to come or
\* has failed.
RunsAtRisk ==
    phase # "stopped" =>
        written - saved <= runs_since_snapshot
                             + Cardinality(At("logged"))
                             + PerReset * (Cardinality(At("saving")) + failed_uploads)

\* "up to this many runs are lost if an instance dies between snapshots"
\* (config.py:125): the statement made precise for a process that dies at any
\* moment.  Fewer than one threshold are lost while no thread is in log_run and
\* the last upload succeeded; every thread between a run and its flush adds
\* one, every upload to come or that failed adds what one reset accounts for.
\* No more than this hangs on the flush of the lifespan.
LossBounded ==
    Every > 0 =>
        written - saved < Every
                            + Cardinality(At("logged") \cup At("flushing"))
                            + PerReset * (Cardinality(At("saving")) + failed_uploads)

=============================================================================
