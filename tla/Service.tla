-------------------------------- MODULE Service --------------------------------
(***************************************************************************)
(* One instance of the service (app/main.py, app/dependencies.py) from the *)
(* import of its modules to its exit: the event loop that runs middleware  *)
(* and coroutines, the pool of threads that runs plain endpoints and       *)
(* dependencies, and the requests between them.                            *)
(*                                                                         *)
(* FastAPI, Starlette and uvicorn are external, as the code relies on      *)
(* them: a coroutine keeps the loop until it awaits, a plain function runs *)
(* on a thread of the pool, a body is read and decoded before any          *)
(* dependency is called and validated after all of them, the dependency of *)
(* the decorator is called before those of the parameters, and a stop      *)
(* waits for the requests in flight before it leaves the lifespan.         *)
(*                                                                         *)
(* Images are immutable: files and lock change only while no process of    *)
(* the image runs, which is when they are edited, locked and built.        *)
(***************************************************************************)
EXTENDS PromptLock, Naturals, FiniteSets

CONSTANTS
    Requests,
    Endpoint,   \* the endpoint of every request
    Workers,    \* threads of the pool
    Free        \* no coroutine keeps the loop

Endpoints == {"/health", "/ready", "/ingest", "/ingest/file", "/query"}

ASSUME ServiceAssumption ==
    /\ Endpoint \in [Requests -> Endpoints]
    /\ Workers \in Nat \ {0}
    /\ Free \notin Requests

VARIABLES
    app,       \* where the process is
    pipeline,  \* app.state.pipeline was built
    loop,      \* the request whose coroutine keeps the event loop, or Free
    stage,     \* where every request is
    keyed,     \* the requests with the right X-API-Key, all of them if none is set
    garbled,   \* the requests whose body is not JSON, or not a form
    answer,    \* the status every request was, or will be, answered with
    recorded   \* the prompt sets that successful queries were logged under

serviceVars == <<app, pipeline, loop, stage, keyed, garbled, answer, recorded>>
vars == <<promptVars, serviceVars>>

Stages == {"new", "received", "routed", "decoded", "admitted", "running", "finished", "answered"}
Codes == {200, 201, 400, 401, 413, 415, 422, 429, 500, 502, 503}
NoAnswer == 0

\* The endpoints under METERED_PATHS.
METERED_PATHS == {"/ingest", "/ingest/file", "/query"}

TypeOK ==
    /\ PromptTypeOK
    /\ app \in {"down", "starting", "serving", "stopping"}
    /\ pipeline \in BOOLEAN
    /\ loop \in Requests \cup {Free}
    /\ stage \in [Requests -> Stages]
    /\ keyed \subseteq Requests
    /\ garbled \subseteq {r \in Requests : Endpoint[r] \in METERED_PATHS}
    /\ answer \in [Requests -> Codes \cup {NoAnswer}]
    /\ \A r \in Requests : (stage[r] \in {"finished", "answered"}) = (answer[r] # NoAnswer)
    /\ recorded \subseteq PromptSet

Init ==
    /\ PromptInit
    /\ app = "down"
    /\ pipeline = FALSE
    /\ loop = Free
    /\ stage = [r \in Requests |-> "new"]
    /\ keyed = {}
    /\ garbled = {}
    /\ answer = [r \in Requests |-> NoAnswer]
    /\ recorded = {}

-----------------------------------------------------------------------------
(* The process.                                                            *)

Repository ==
    /\ app = "down"
    /\ Author
    /\ UNCHANGED serviceVars

\* app.rag.prompts is imported with the module; a PromptError ends the process.
Import ==
    /\ app = "down"
    /\ LoadPromptSet
    /\ app' = "starting"
    /\ UNCHANGED <<pipeline, loop, stage, keyed, garbled, answer, recorded>>

\* lifespan, before the yield: a failure of build_pipeline is logged.
Startup ==
    /\ app = "starting"
    /\ app' = "serving"
    /\ pipeline' \in BOOLEAN
    /\ UNCHANGED <<promptVars, loop, stage, keyed, garbled, answer, recorded>>

Terminate ==
    /\ app = "serving"
    /\ app' = "stopping"
    /\ UNCHANGED <<promptVars, pipeline, loop, stage, keyed, garbled, answer, recorded>>

\* What is left of a process when it is gone.
Gone ==
    /\ app' = "down"
    /\ prompts' = None
    /\ pipeline' = FALSE
    /\ loop' = Free
    /\ stage' = [r \in Requests |-> "new"]
    /\ keyed' = {}
    /\ garbled' = {}
    /\ answer' = [r \in Requests |-> NoAnswer]
    /\ recorded' = {}
    /\ UNCHANGED <<files, lock, released>>

\* lifespan, after the yield (the flush is in TrackerFlush).
Shutdown ==
    /\ app = "stopping"
    /\ \A r \in Requests : stage[r] \in {"new", "answered"}
    /\ Gone

Kill ==
    /\ app # "down"
    /\ Gone

-----------------------------------------------------------------------------
(* A request.                                                              *)

Up == app \in {"serving", "stopping"}

Busy == Cardinality({r \in Requests : stage[r] = "running" /\ r # loop})

Advance(r, from, to) ==
    /\ stage[r] = from
    /\ stage' = [stage EXCEPT ![r] = to]
    /\ UNCHANGED <<promptVars, app, pipeline, answer, recorded>>

Answer(r, from, code) ==
    /\ stage[r] = from
    /\ stage' = [stage EXCEPT ![r] = "answered"]
    /\ answer' = [answer EXCEPT ![r] = code]
    /\ UNCHANGED <<promptVars, app, pipeline, recorded>>

Receive(r) ==
    /\ app = "serving"
    /\ Advance(r, "new", "received")
    /\ \/ UNCHANGED <<keyed, garbled>>
       \/ /\ Endpoint[r] \in METERED_PATHS
          /\ keyed' \in {keyed, keyed \cup {r}}
          /\ garbled' \in {garbled, garbled \cup {r}}
    /\ UNCHANGED loop

\* Mutant: every path is metered.
MeteredEverywhere(r) ==
    /\ Up /\ loop = Free
    /\ \/ Endpoint[r] \in METERED_PATHS /\ Advance(r, "received", "routed")
       \/ Endpoint[r] \notin METERED_PATHS /\ Advance(r, "received", "decoded")
       \/ Answer(r, "received", 429)
    /\ UNCHANGED <<loop, keyed, garbled>>

\* trace_middleware, then rate_limit_middleware; whether the limiter has a
\* token left is in RateLimiter.  Only the metered paths have a body to decode.
Middleware(r) ==
    /\ Up /\ loop = Free
    /\ \/ /\ Endpoint[r] \in METERED_PATHS
          /\ Advance(r, "received", "routed") \/ Answer(r, "received", 429)
       \/ /\ Endpoint[r] \notin METERED_PATHS
          /\ Advance(r, "received", "decoded")
    /\ UNCHANGED <<loop, keyed, garbled>>

\* What a body that cannot be decoded is answered with: 422 if it is not JSON,
\* 400 if its bytes are no text or its form is malformed.
BodyErrors(endpoint) == IF endpoint = "/ingest/file" THEN {400} ELSE {400, 422}

\* The body is read and decoded on the loop, before anybody asks for the key or
\* the pipeline.
Decode(r) ==
    /\ Up /\ loop = Free
    /\ \/ /\ r \in garbled
          /\ \E code \in BodyErrors(Endpoint[r]) : Answer(r, "routed", code)
       \/ /\ r \notin garbled
          /\ Advance(r, "routed", "decoded")
    /\ UNCHANGED <<loop, keyed, garbled>>

\* Mutant: the endpoint that takes files has no require_api_key.
DependsButForFiles(r) ==
    LET admitted == Endpoint[r] \in METERED_PATHS \ {"/ingest/file"} => r \in keyed
    IN  /\ Up /\ loop = Free /\ Busy < Workers
        /\ \/ /\ ~admitted
              /\ Answer(r, "decoded", 401)
           \/ /\ admitted /\ ~pipeline /\ Endpoint[r] # "/health"
              /\ Answer(r, "decoded", 503)
           \/ /\ admitted /\ (pipeline \/ Endpoint[r] = "/health")
              /\ \/ Advance(r, "decoded", "admitted")
                 \/ /\ Endpoint[r] \in METERED_PATHS
                    /\ Answer(r, "decoded", 422)
        /\ UNCHANGED <<loop, keyed, garbled>>

\* The dependencies, each on a thread of the pool: require_api_key of the
\* endpoints that spend, then get_pipeline; a decoded body that does not fit
\* its schema is answered after them.
Depends(r) ==
    LET admitted == Endpoint[r] \in METERED_PATHS => r \in keyed
    IN  /\ Up /\ loop = Free /\ Busy < Workers
        /\ \/ /\ ~admitted
              /\ Answer(r, "decoded", 401)
           \/ /\ admitted /\ ~pipeline /\ Endpoint[r] # "/health"
              /\ Answer(r, "decoded", 503)
           \/ /\ admitted /\ (pipeline \/ Endpoint[r] = "/health")
              /\ \/ Advance(r, "decoded", "admitted")
                 \/ /\ Endpoint[r] \in METERED_PATHS
                    /\ Answer(r, "decoded", 422)
        /\ UNCHANGED <<loop, keyed, garbled>>

\* health, ready, ingest and query are plain functions: one thread each.
StartThread(r) ==
    /\ Up /\ loop = Free /\ Busy < Workers
    /\ Endpoint[r] # "/ingest/file"
    /\ Advance(r, "admitted", "running")
    /\ UNCHANGED <<loop, keyed, garbled>>

\* ingest_file is a coroutine: it refuses the file, or calls pipeline.ingest
\* on the loop.
StartUpload(r) ==
    /\ Up /\ loop = Free
    /\ Endpoint[r] = "/ingest/file"
    /\ \/ /\ \E code \in {400, 413, 415} : Answer(r, "admitted", code)
          /\ UNCHANGED loop
       \/ /\ Advance(r, "admitted", "running")
          /\ loop' = r
    /\ UNCHANGED <<keyed, garbled>>

\* What an endpoint returns or raises, through the exception handlers: the
\* budget, a ValueError, the provider, anything else.
Outcomes(endpoint) ==
    CASE endpoint = "/health" -> {200}
      [] endpoint = "/ready"  -> {200, 500}
      [] endpoint = "/query"  -> {200, 400, 429, 500, 502}
      [] OTHER                -> {201, 400, 429, 500, 502}

\* An endpoint ends with a status.  A query that succeeds is logged under the
\* prompts it was answered with.
Ends(r, code) ==
    /\ Up
    /\ stage[r] = "running"
    /\ stage' = [stage EXCEPT ![r] = "finished"]
    /\ answer' = [answer EXCEPT ![r] = code]
    /\ recorded' = IF Endpoint[r] = "/query" /\ code = 200
                     THEN recorded \cup {prompts}
                     ELSE recorded
    /\ UNCHANGED <<promptVars, app, pipeline, keyed, garbled>>

\* Mutant: the handler of a ValueError logs it and returns no response.
FinishUnanswered(r) ==
    /\ \E code \in Outcomes(Endpoint[r]) : Ends(r, IF code = 400 THEN NoAnswer ELSE code)
    /\ loop' = IF loop = r THEN Free ELSE loop

\* Mutant: ingest_file hands its ingest to the pool and waits for the result
\* without await; threads are given back to the pool from the loop.
FinishOnPool(r) ==
    /\ \E code \in Outcomes(Endpoint[r]) : Ends(r, code)
    /\ loop = r =>
          Cardinality({s \in Requests : /\ stage[s] \in {"running", "finished"}
                                       /\ Endpoint[s] # "/ingest/file"}) < Workers
    /\ loop' = IF loop = r THEN Free ELSE loop

\* The endpoint returns or raises; only ingest_file gives the loop back here.
Finish(r) ==
    /\ \E code \in Outcomes(Endpoint[r]) : Ends(r, code)
    /\ loop' = IF loop = r THEN Free ELSE loop

\* The response is sent from the loop.
Respond(r) ==
    /\ Up /\ loop = Free
    /\ Advance(r, "finished", "answered")
    /\ UNCHANGED <<loop, keyed, garbled>>

Serve(r) ==
    \/ Middleware(r) \/ Decode(r) \/ Depends(r)
    \/ StartThread(r) \/ StartUpload(r) \/ Finish(r) \/ Respond(r)

Next ==
    \/ Repository \/ Import \/ Startup \/ Terminate \/ Shutdown \/ Kill
    \/ \E r \in Requests : Receive(r) \/ Serve(r)

Spec == Init /\ [][Next]_vars

\* Calls to OpenAI and to Cloud Storage time out, the loop and the pool take
\* what waits for them in order, and uvicorn leaves the lifespan once nothing
\* is in flight.
FairSpec == Spec /\ WF_vars(Shutdown) /\ \A r \in Requests : WF_vars(Serve(r))

-----------------------------------------------------------------------------
(* Properties.                                                             *)

\* "/health stays up so the failure is diagnosable, while /ingest and /query
\* return a clear 503" (main.py:71-73), with what may come before the 503: with
\* no pipeline a request is limited, held to its garbled body, lacks its key,
\* or is answered 503, and none of them runs into the missing pipeline.
\* /health, which no limiter, key, body or pipeline may refuse, is answered 200
\* in every mode.
DegradedIsDiagnosable ==
    \A r \in Requests : answer[r] # NoAnswer =>
        IF Endpoint[r] = "/health"
          THEN answer[r] = 200
          ELSE ~pipeline =>
                 \/ answer[r] = 429
                 \/ r \in garbled /\ answer[r] \in BodyErrors(Endpoint[r])
                 \/ r \notin garbled /\ answer[r] = (IF r \in keyed \/ Endpoint[r] = "/ready"
                                                       THEN 503 ELSE 401)

\* require_api_key guards every endpoint that spends money
\* (dependencies.py:108), whatever kind of function it is: no request without
\* the key ever runs on a thread or on the loop.
OnlyAuthorisedSpend ==
    \A r \in Requests \ keyed :
        Endpoint[r] \in METERED_PATHS => stage[r] # "running" /\ answer[r] \notin {200, 201}

\* Every query that was logged as clean was answered with the texts some lock
\* pinned to the version it names, whatever was edited, locked again or lost
\* before the process started.
RunsCleanlyAttributed == \A set \in recorded : CleanlyAttributed(set)

\* A request is answered, the ones that wait behind an upload on the loop or
\* for a thread of the pool included, unless the process goes first.
EveryRequestAnswered ==
    \A r \in Requests : stage[r] = "received" ~> stage[r] \in {"answered", "new"}

\* A stop waits for the requests in flight, and ends.
StopEnds == app = "stopping" ~> app = "down"

=============================================================================
