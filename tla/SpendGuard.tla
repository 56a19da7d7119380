------------------------------ MODULE SpendGuard ------------------------------
(***************************************************************************)
(* The daily spend ceiling (app/tracking/spend_guard.py) and the requests  *)
(* that run under it (RAGPipeline.ingest and query).                       *)
(*                                                                         *)
(* A request checks the ceiling once, before it spends, and records what   *)
(* it cost once, after its last OpenAI call.  Between the two it holds no  *)
(* lock, so the requests of the other threads check and record meanwhile.  *)
(* Money is counted in whole units of the smallest cost, time in half      *)
(* seconds: the 429 truncates the remaining time to whole seconds.         *)
(***************************************************************************)
EXTENDS Integers, FiniteSets

CONSTANTS
    Threads,      \* threads of the server's pool: the requests in flight
    Budget,       \* DAILY_BUDGET_USD; 0 disables the guard
    Window,       \* window_seconds, in half seconds
    MaxEmbedCost, \* what one embeddings call may cost
    MaxChatCost,  \* what one chat call may cost
    MaxLost,      \* bound: no further request fails once this much is lost
    MaxClock      \* bound on time

ASSUME ThreadAssumption == IsFiniteSet(Threads)
ASSUME MoneyAssumption ==
    Budget \in Nat /\ MaxEmbedCost \in Nat /\ MaxChatCost \in Nat /\ MaxLost \in Nat
ASSUME TimeAssumption == Window \in Nat \ {0} /\ MaxClock \in Nat

VARIABLES
    clock,           \* time.monotonic()
    window_started,  \* SpendGuard._window_started
    spent,           \* SpendGuard._spent
    request,         \* the request each thread serves
    billed,          \* history: what OpenAI billed since the window started
    lost,            \* history: the part of it that no record will count
    refusal          \* history: the last 429 of each thread

vars == <<clock, window_started, spent, request, billed, lost, refusal>>

MaxCost == MaxEmbedCost + MaxChatCost

\* owed: the cost of the calls made so far, recorded by nobody yet.
Request == [pc   : {"idle", "admitted", "embedded", "answered"},
            kind : {"ingest", "query"},
            owed : Nat]

NoRequest == [pc |-> "idle", kind |-> "query", owed |-> 0]

\* at: when it was sent; told: resets_in_seconds; window: the window it is of.
Refusal == [at : Nat, told : Nat, window : Nat]
\* Until a thread sees its first 429.
NoRefusal == [at |-> 0, told |-> Window, window |-> 0]

TypeOK ==
    /\ clock \in Nat
    /\ window_started \in 0..clock
    /\ spent \in Nat
    /\ request \in [Threads -> Request]
    /\ billed \in Nat
    /\ lost \in Nat
    /\ refusal \in [Threads -> Refusal]

Init ==
    /\ clock = 0
    /\ window_started = 0
    /\ spent = 0
    /\ request = [t \in Threads |-> NoRequest]
    /\ billed = 0
    /\ lost = 0
    /\ refusal = [t \in Threads |-> NoRefusal]

-----------------------------------------------------------------------------
(* The guard.  Each of its three methods first rolls the window, in the    *)
(* same critical section.                                                  *)

enabled == Budget > 0

WindowOver == clock - window_started >= Window

\* What _spent is once _roll_window_locked has run.
SpentNow == IF WindowOver THEN 0 ELSE spent

\* Mutant: the end of the new window is kept instead of its start.
RollToEnd ==
    /\ window_started' = IF WindowOver THEN clock + Window ELSE window_started
    /\ billed' = IF WindowOver THEN 0 ELSE billed
    /\ lost' = IF WindowOver THEN 0 ELSE lost

Roll ==
    /\ window_started' = IF WindowOver THEN clock ELSE window_started
    /\ billed' = IF WindowOver THEN 0 ELSE billed
    /\ lost' = IF WindowOver THEN 0 ELSE lost

\* Mutant: the ceiling is compared with > instead of >=.
CheckAboveCeiling(t, kind) ==
    /\ request[t].pc = "idle"
    /\ request' = [request EXCEPT ![t] = [pc |-> "admitted", kind |-> kind, owed |-> 0]]
    /\ IF enabled
         THEN SpentNow <= Budget /\ Roll /\ spent' = SpentNow
         ELSE UNCHANGED <<window_started, spent, billed, lost>>
    /\ UNCHANGED <<clock, refusal>>

\* check passes: the request may spend.
Check(t, kind) ==
    /\ request[t].pc = "idle"
    /\ request' = [request EXCEPT ![t] = [pc |-> "admitted", kind |-> kind, owed |-> 0]]
    /\ IF enabled
         THEN SpentNow < Budget /\ Roll /\ spent' = SpentNow
         ELSE UNCHANGED <<window_started, spent, billed, lost>>
    /\ UNCHANGED <<clock, refusal>>

\* Mutant: the time since the window began is told, not the time left of it.
SecondsSince(started) == (clock - started) \div 2

\* self._window - (monotonic() - self._window_started), truncated to seconds.
SecondsLeft(started) == (Window - (clock - started)) \div 2

\* check raises BudgetExceededError: a 429 that says when to come back.
Refuse(t) ==
    /\ enabled
    /\ request[t].pc = "idle"
    /\ SpentNow >= Budget
    /\ Roll
    /\ spent' = SpentNow
    /\ refusal' = [refusal EXCEPT ![t] = [at |-> clock,
                                          told |-> SecondsLeft(window_started'),
                                          window |-> window_started']]
    /\ UNCHANGED <<clock, request>>

\* Mutant: only a query that was answered is recorded.
RecordAnswers(t) ==
    /\ request[t].pc \in {"embedded", "answered"}
    /\ IF enabled /\ request[t].owed > 0 /\ request[t].pc = "answered"
         THEN Roll /\ spent' = SpentNow + request[t].owed
         ELSE UNCHANGED <<window_started, spent, billed, lost>>
    /\ request' = [request EXCEPT ![t] = NoRequest]
    /\ UNCHANGED <<clock, refusal>>

\* record, when the last call of the request has returned: a query's after the
\* embedding if nothing matched, after the answer otherwise.  A cost of 0, or
\* a disabled guard, leaves the window alone.
Record(t) ==
    /\ request[t].pc \in {"embedded", "answered"}
    /\ IF enabled /\ request[t].owed > 0
         THEN Roll /\ spent' = SpentNow + request[t].owed
         ELSE UNCHANGED <<window_started, spent, billed, lost>>
    /\ request' = [request EXCEPT ![t] = NoRequest]
    /\ UNCHANGED <<clock, refusal>>

\* snapshot, for GET /ready.
Ready ==
    /\ WindowOver
    /\ Roll
    /\ spent' = SpentNow
    /\ UNCHANGED <<clock, request, refusal>>

-----------------------------------------------------------------------------
(* What a request does between the two.                                    *)

\* The embeddings call, of the chunks or of the question.
Embed(t, cost) ==
    /\ request[t].pc = "admitted"
    /\ request' = [request EXCEPT ![t].pc = "embedded", ![t].owed = cost]
    /\ billed' = billed + cost
    /\ UNCHANGED <<clock, window_started, spent, lost, refusal>>

\* An oversized document or a failed call ends the request before it spends.
FailUnbilled(t) ==
    /\ request[t].pc = "admitted"
    /\ request' = [request EXCEPT ![t] = NoRequest]
    /\ UNCHANGED <<clock, window_started, spent, billed, lost, refusal>>

\* Something matched: the chat call.
Chat(t, cost) ==
    /\ request[t].pc = "embedded"
    /\ request[t].kind = "query"
    /\ request' = [request EXCEPT ![t].pc = "answered", ![t].owed = @ + cost]
    /\ billed' = billed + cost
    /\ UNCHANGED <<clock, window_started, spent, lost, refusal>>

\* The step after the embedding raises: the upsert of an ingest (a duplicate
\* id in the batch, say), the search or the chat call of a query.  record is
\* never reached, and what the embedding cost is never counted.
FailBilled(t) ==
    /\ request[t].pc = "embedded"
    /\ lost < MaxLost
    /\ lost' = lost + request[t].owed
    /\ request' = [request EXCEPT ![t] = NoRequest]
    /\ UNCHANGED <<clock, window_started, spent, billed, refusal>>

Tick ==
    /\ clock < MaxClock
    /\ clock' = clock + 1
    /\ UNCHANGED <<window_started, spent, request, billed, lost, refusal>>

Next ==
    \/ Tick
    \/ Ready
    \/ \E t \in Threads :
          \/ \E kind \in {"ingest", "query"} : Check(t, kind)
          \/ Refuse(t)
          \/ \E cost \in 0..MaxEmbedCost : Embed(t, cost)
          \/ \E cost \in 0..MaxChatCost : Chat(t, cost)
          \/ FailUnbilled(t)
          \/ FailBilled(t)
          \/ Record(t)

Spec == Init /\ [][Next]_vars

-----------------------------------------------------------------------------
(* Properties.                                                             *)

InFlight == {t \in Threads : request[t].pc # "idle"}

\* How far the ceiling is really overshot: a window never records more than
\* one unit short of the budget plus the cost of every request that was in
\* flight when the ceiling was reached, those admitted in an older window
\* included.
RecordedBounded == enabled => spent <= Budget - 1 + Cardinality(Threads) * MaxCost

\* The same bound on the money itself: OpenAI bills no more than that in a
\* window, apart from what requests that failed had already spent.
BilledBounded ==
    enabled => billed <= Budget - 1 + Cardinality(Threads) * MaxCost + lost

\* A refused client that waits the seconds it was told, and one more for their
\* truncation, is never held to the window it was refused in.
RefusalEndsWithItsWindow ==
    \A t \in Threads :
        clock >= refusal[t].at + 2 * (refusal[t].told + 1)
            => window_started > refusal[t].window \/ WindowOver

\* "A hard ceiling on what this service can spend at OpenAI in a day"
\* (spend_guard.py:1), give or take the request in flight.
HardCeiling == billed < Budget + MaxCost

=============================================================================
