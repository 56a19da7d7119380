------------------------------ MODULE RateLimiter ------------------------------
(***************************************************************************)
(* The per-client token bucket (app/rate_limit.py) and the Retry-After     *)
(* header its middleware computes (app/main.py).                           *)
(*                                                                         *)
(* allow reads the clock before it takes the lock, so two callers may      *)
(* enter in the opposite order of their clocks and one finds a bucket that *)
(* was updated after its own now.  The service calls allow from its event  *)
(* loop only, which is the instance with one caller.                       *)
(*                                                                         *)
(* Time is counted in ticks, Minute of them to the minute; tokens in       *)
(* fractions of 1/Minute, so that a tick refills exactly Rate of them.     *)
(***************************************************************************)
EXTENDS Integers, FiniteSets

CONSTANTS
    Keys,      \* client keys
    Callers,   \* threads that may call allow
    Rate,      \* requests_per_minute, and so the burst (0, which disables
               \* the limiter and keeps no state, is left out)
    Minute,    \* ticks in a minute
    MaxKeys,   \* max_keys
    MaxClock   \* bound on time

ASSUME RateAssumption == Rate \in Nat \ {0} /\ Minute \in Nat \ {0} /\ MaxClock \in Nat
ASSUME KeysAssumption == MaxKeys \in Nat \ {0}

VARIABLES
    clock,    \* time.monotonic()
    buckets,  \* RateLimiter._buckets
    call,     \* the call of allow each caller is in
    since,    \* history: when we began to count each client's requests
    counted,  \* history: requests admitted of those made since then
    promise   \* history: when the last 429 told each client to come back

vars == <<clock, buckets, call, since, counted, promise>>

Burst == Rate * Minute

Bucket == [tokens : Int, updated : Nat]
NoPromise == -1

\* A call of allow, from its reading of the clock to its critical section.
NoCall == [pc |-> "idle", now |-> 0]
Call == {NoCall} \cup [pc : {"called"}, key : Keys, now : 0..clock]

TypeOK ==
    /\ clock \in Nat
    /\ DOMAIN buckets \subseteq Keys
    /\ \A k \in DOMAIN buckets : /\ buckets[k] \in Bucket
                                 /\ buckets[k].updated <= clock
    /\ call \in [Callers -> Call]
    /\ since \in [Keys -> 0..clock]
    /\ counted \in [Keys -> Nat]
    /\ promise \in [Keys -> Nat \cup {NoPromise}]

Init ==
    /\ clock = 0
    /\ buckets = [k \in {} |-> [tokens |-> 0, updated |-> 0]]
    /\ call = [c \in Callers |-> NoCall]
    /\ since = [k \in Keys |-> 0]
    /\ counted = [k \in Keys |-> 0]
    /\ promise = [k \in Keys |-> NoPromise]

-----------------------------------------------------------------------------
\* now = time.monotonic(), outside the lock.
ReadClock(c, k) ==
    /\ call[c].pc = "idle"
    /\ call' = [call EXCEPT ![c] = [pc |-> "called", key |-> k, now |-> clock]]
    /\ UNCHANGED <<clock, buckets, since, counted, promise>>

\* Which sets of keys _evict_locked may drop: the half that was updated least
\* recently, ties being broken by the order of insertion.
Oldest(dropped) ==
    /\ Cardinality(dropped) = Cardinality(DOMAIN buckets) \div 2
    /\ \A old \in dropped, k \in (DOMAIN buckets) \ dropped :
          buckets[old].updated <= buckets[k].updated

MayEvict(dropped) ==
    IF Cardinality(DOMAIN buckets) <= MaxKeys
      THEN dropped = {}
      ELSE Oldest(dropped)

\* The first request of a client, or the first since it was evicted.
AllowNew(c) ==
    LET key == call[c].key
        now == call[c].now
    IN  /\ call[c].pc = "called"
        /\ key \notin DOMAIN buckets
        /\ \E dropped \in SUBSET DOMAIN buckets :
              /\ MayEvict(dropped)
              /\ buckets' = [k \in ((DOMAIN buckets) \ dropped) \cup {key} |->
                                IF k = key
                                  THEN [tokens |-> Burst - Minute, updated |-> now]
                                  ELSE buckets[k]]
        /\ since' = [since EXCEPT ![key] = now]
        /\ counted' = [counted EXCEPT ![key] = 1]
        /\ promise' = [promise EXCEPT ![key] = NoPromise]
        /\ call' = [call EXCEPT ![c] = NoCall]
        /\ UNCHANGED clock

\* Mutant: a long idle client is not held to its burst.
RefilledUncapped(k, now) ==
    buckets[k].tokens + Rate * (now - buckets[k].updated)

\* The tokens of a known client at its now, which may be before the bucket's.
Refilled(k, now) ==
    LET tokens == buckets[k].tokens + Rate * (now - buckets[k].updated)
    IN  IF tokens > Burst THEN Burst ELSE tokens

\* A whole token is there: it is consumed.
Admit(c) ==
    LET key == call[c].key
        now == call[c].now
    IN  /\ call[c].pc = "called"
        /\ key \in DOMAIN buckets
        /\ Refilled(key, now) >= Minute
        /\ buckets' = [buckets EXCEPT ![key] = [tokens |-> Refilled(key, now) - Minute,
                                                updated |-> now]]
        /\ counted' = [counted EXCEPT ![key] = IF now >= since[key] THEN @ + 1 ELSE @]
        /\ promise' = [promise EXCEPT ![key] = NoPromise]
        /\ call' = [call EXCEPT ![c] = NoCall]
        /\ UNCHANGED <<clock, since>>

\* Mutant: the wait is truncated to whole ticks and nothing is added.
RetryAfterTruncated(tokens) == (Minute - tokens) \div Rate

\* Retry-After: int(retry_after) + 1, where retry_after is the time until one
\* whole token is there.
RetryAfter(tokens) == (Minute - tokens) \div Rate + 1

\* The refill is kept, and the client is told when to come back.
Refuse(c) ==
    LET key == call[c].key
        now == call[c].now
    IN  /\ call[c].pc = "called"
        /\ key \in DOMAIN buckets
        /\ Refilled(key, now) < Minute
        /\ buckets' = [buckets EXCEPT ![key] = [tokens |-> Refilled(key, now),
                                                updated |-> now]]
        /\ promise' = [promise EXCEPT ![key] =
                          clock + RetryAfter(Refilled(key, now))]
        /\ call' = [call EXCEPT ![c] = NoCall]
        /\ UNCHANGED <<clock, since, counted>>

\* Mutant: the wall clock, which may be set back, instead of the monotonic one.
TickWallClock ==
    /\ clock' \in 0..MaxClock
    /\ UNCHANGED <<buckets, call, since, counted, promise>>

Tick ==
    /\ clock < MaxClock
    /\ clock' = clock + 1
    /\ UNCHANGED <<buckets, call, since, counted, promise>>

\* Not of the code: an observer starts to count a client's requests anew.
Observe(k) ==
    /\ since' = [since EXCEPT ![k] = clock]
    /\ counted' = [counted EXCEPT ![k] = 0]
    /\ UNCHANGED <<clock, buckets, call, promise>>

Next ==
    \/ Tick
    \/ \E k \in Keys : Observe(k)
    \/ \E c \in Callers :
          \/ \E k \in Keys : ReadClock(c, k)
          \/ AllowNew(c)
          \/ Admit(c)
          \/ Refuse(c)

Spec == Init /\ [][Next]_vars

-----------------------------------------------------------------------------
(* Properties.                                                             *)

\* "Burst equals the per-minute rate, so a client may spend its whole minute's
\* allowance at once and then refill steadily" (rate_limit.py:30): of the
\* requests a client makes from any moment on, while it is not evicted, at
\* most the burst and what the elapsed time refills are admitted, in whatever
\* order the calls enter the lock.
AdmissionBounded ==
    \A k \in DOMAIN buckets :
        counted[k] * Minute <= Burst + Rate * (clock - since[k])

\* The clients the limiter remembers are bounded, as test_spend_guard.py:88
\* counts them: the table is halved before it is added to, not after.
MemoryBounded == Cardinality(DOMAIN buckets) <= MaxKeys + 1

\* "Clients need this header to back off correctly" (test_limits.py:39): a
\* client that waits for Retry-After is not refused again, unless one of its
\* other requests took the token meanwhile.
NotRefusedAfterWaiting ==
    \A c \in Callers :
        Refuse(c) => \/ promise[call[c].key] = NoPromise
                     \/ call[c].now < promise[call[c].key]

RetryAfterHonoured == [][NotRefusedAfterWaiting]_vars

=============================================================================
