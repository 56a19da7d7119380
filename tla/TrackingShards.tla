---------------------------- MODULE TrackingShards ----------------------------
(***************************************************************************)
(* The runs of all the processes: each writes its tracking database to an  *)
(* object of its own, a lifecycle rule expires the objects, and the drift  *)
(* monitor lists and merges them (shard_id in app/dependencies.py,         *)
(* list_snapshot_objects in app/persistence.py, app/monitoring/source.py). *)
(*                                                                         *)
(* When a process saves is left open here; TrackerFlush models it.  Names  *)
(* are numbers because GCS lists objects in the order of their names.  A   *)
(* process logs at most one run per tick of the clock, which bounds runs.  *)
(***************************************************************************)
EXTENDS Integers, FiniteSets

CONSTANTS
    Names,      \* shard ids; one is drawn at random by each process
    Legacy,     \* those of processes that recorded no refused metric
    MaxShards,  \* mlflow_snapshot_max_shards
    Limit,      \* the monitor's limit of runs
    Retention,  \* mlflow_artifact_retention_days
    MaxClock    \* bound on time

ASSUME NamesAssumption == Names \subseteq Nat /\ Legacy \subseteq Names
ASSUME LimitsAssumption ==
    MaxShards \in Nat /\ Limit \in Nat /\ Retention \in Nat /\ MaxClock \in Nat

VARIABLES
    clock,
    process,  \* the process each shard id belongs to
    runs,     \* the start times of the runs in its tracking database
    shards    \* the objects under the prefix: when each was written, its runs

vars == <<clock, process, runs, shards>>

TypeOK ==
    /\ clock \in Nat
    /\ process \in [Names -> {"unborn", "running", "gone"}]
    /\ runs \in [Names -> SUBSET (0..clock)]
    /\ DOMAIN shards \subseteq Names
    /\ \A n \in DOMAIN shards :
          shards[n] \in [updated : 0..clock, runs : SUBSET (0..clock)]

Init ==
    /\ clock = 0
    /\ process = [n \in Names |-> "unborn"]
    /\ runs = [n \in Names |-> {}]
    /\ shards = [n \in {} |-> [updated |-> 0, runs |-> {}]]

-----------------------------------------------------------------------------
(* The writers.                                                            *)

\* Mutant: the id is derived from the revision, which a later process shares.
ColdStartReusesId(n) ==
    /\ process[n] # "running"
    /\ process' = [process EXCEPT ![n] = "running"]
    /\ runs' = [runs EXCEPT ![n] = {}]
    /\ UNCHANGED <<clock, shards>>

\* A process draws an id that no other has, and starts with an empty database:
\* it restores nobody's shard.
ColdStart(n) ==
    /\ process[n] = "unborn"
    /\ process' = [process EXCEPT ![n] = "running"]
    /\ runs' = [runs EXCEPT ![n] = {}]
    /\ UNCHANGED <<clock, shards>>

\* Mutant: a run is stamped with the time at which it will have ended.
LogRunEnd(n) ==
    /\ process[n] = "running"
    /\ clock \notin runs[n]
    /\ runs' = [runs EXCEPT ![n] = @ \cup {clock + 1}]
    /\ UNCHANGED <<clock, process, shards>>

\* A query is logged.
LogRun(n) ==
    /\ process[n] = "running"
    /\ clock \notin runs[n]
    /\ runs' = [runs EXCEPT ![n] = @ \cup {clock}]
    /\ UNCHANGED <<clock, process, shards>>

\* flush: the database replaces the shard, unconditionally.
Save(n) ==
    /\ process[n] = "running"
    /\ shards' = [m \in DOMAIN shards \cup {n} |->
                     IF m = n
                       THEN [updated |-> clock, runs |-> runs[n]]
                       ELSE shards[m]]
    /\ UNCHANGED <<clock, process, runs>>

\* The process ends, cleanly (after a Save) or not, and its tmpfs with it.
Stop(n) ==
    /\ process[n] = "running"
    /\ process' = [process EXCEPT ![n] = "gone"]
    /\ runs' = [runs EXCEPT ![n] = {}]
    /\ UNCHANGED <<clock, shards>>

\* The bucket's lifecycle rule: the age of an object is that of its last write.
Expire(n) ==
    /\ n \in DOMAIN shards
    /\ clock - shards[n].updated >= Retention
    /\ shards' = [m \in (DOMAIN shards) \ {n} |-> shards[m]]
    /\ UNCHANGED <<clock, process, runs>>

Tick ==
    /\ clock < MaxClock
    /\ clock' = clock + 1
    /\ UNCHANGED <<process, runs, shards>>

Next ==
    \/ Tick
    \/ \E n \in Names :
          \/ ColdStart(n)
          \/ LogRun(n)
          \/ Save(n)
          \/ Stop(n)
          \/ Expire(n)

Spec == Init /\ [][Next]_vars

-----------------------------------------------------------------------------
(* The reader, a function of the objects: list_snapshot_objects, then      *)
(* load_snapshot_queries.                                                  *)

\* The first of S when it is ordered by Earlier.
Top(S, k, Earlier(_, _)) == {s \in S : Cardinality({r \in S : Earlier(r, s)}) < k}

\* list_blobs with max_results = limit * 4: in the order of the names.
Fetched == Top(DOMAIN shards, 4 * MaxShards, <)

\* Sorted by the time of the last write, newest first, names breaking ties.
ListedBefore(m, n) ==
    \/ shards[m].updated > shards[n].updated
    \/ shards[m].updated = shards[n].updated /\ m < n

\* Mutant: the objects are not sorted by time.
ListedByName == Top(Fetched, MaxShards, <)

Listed == Top(Fetched, MaxShards, ListedBefore)

\* _read_tracking_db: the newest runs of one database, those without a refused
\* metric being skipped.
Records(n) ==
    IF n \in Legacy
      THEN {}
      ELSE {[shard |-> n, at |-> t] : t \in Top(shards[n].runs, Limit, >)}

MergedBefore(q, r) ==
    \/ q.at > r.at
    \/ q.at = r.at /\ q.shard # r.shard /\ ListedBefore(q.shard, r.shard)

\* What the monitor scores when it can restore the readable shards.
Window(readable) ==
    Top(UNION {Records(n) : n \in Listed \cap readable}, Limit, MergedBefore)

-----------------------------------------------------------------------------
(* Properties.                                                             *)

\* "nobody writes anyone else's object" (config.py:118): no run is ever taken
\* out of a shard, and a shard is removed by its age only.
ShardsOnlyGrow ==
    [][\A n \in DOMAIN shards :
          IF n \in DOMAIN shards'
            THEN shards[n].runs \subseteq shards'[n].runs
            ELSE clock - shards[n].updated >= Retention]_vars

\* "Newest first across all shards, so limit means the same thing it does for
\* a single store" (source.py:61), whichever shards cannot be read.  A run is
\* left out only if the window is full of runs as new, or if every shard the
\* monitor listed was written since.
WindowIsNewest ==
    Cardinality(DOMAIN shards) <= 4 * MaxShards =>
        \A readable \in SUBSET DOMAIN shards :
            \A n \in readable \ Legacy, t \in 0..clock :
                (t \in shards[n].runs /\ [shard |-> n, at |-> t] \notin Window(readable))
                  => IF n \in Listed
                       THEN /\ Cardinality(Window(readable)) = Limit
                            /\ \A r \in Window(readable) : r.at >= t
                       ELSE \A m \in Listed : shards[m].updated >= t

\* "Object names under prefix, most recently written first"
\* (persistence.py:231).
ListsNewest ==
    \A n \in Listed, m \in (DOMAIN shards) \ Listed :
        shards[n].updated >= shards[m].updated

=============================================================================
