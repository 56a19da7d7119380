--------------------------- MODULE RateLimiterProofs ---------------------------
(***************************************************************************)
(* Proofs about RateLimiter, for any clients, callers and rate.            *)
(***************************************************************************)
EXTENDS RateLimiter, FiniteSetTheorems, TLAPS

LEMMA RefilledType ==
    ASSUME TypeOK, NEW k \in DOMAIN buckets, NEW now \in Nat
    PROVE  Refilled(k, now) \in Int
  BY RateAssumption DEF Refilled, TypeOK, Bucket, Burst

LEMMA CallType ==
    ASSUME TypeOK, NEW c \in Callers, call[c].pc = "called"
    PROVE  call[c].key \in Keys /\ call[c].now \in 0..clock
  BY DEF TypeOK, Call, NoCall

\* Types: in particular no bucket, call or measurement is ahead of the clock.
THEOREM TypeCorrect == Spec => []TypeOK
<1> USE RateAssumption, KeysAssumption
<1>1. Init => TypeOK
  BY DEF Init, TypeOK, NoCall, Call
<1>2. TypeOK /\ [Next]_vars => TypeOK'
  <2> SUFFICES ASSUME TypeOK, [Next]_vars PROVE TypeOK'
    OBVIOUS
  <2>1. CASE UNCHANGED vars
    BY <2>1 DEF vars, TypeOK, Call
  <2>2. CASE Tick
    <3>1. Call \subseteq Call'
      BY <2>2 DEF Tick, TypeOK, Call
    <3> QED
      BY <2>2, <3>1 DEF Tick, TypeOK, Bucket
  <2>3. ASSUME NEW k \in Keys, Observe(k) PROVE TypeOK'
    BY <2>3 DEF Observe, TypeOK, Call
  <2>4. ASSUME NEW c \in Callers, NEW k \in Keys, ReadClock(c, k) PROVE TypeOK'
    <3>1. [pc |-> "called", key |-> k, now |-> clock] \in Call
      BY DEF TypeOK, Call
    <3>2. call' \in [Callers -> Call']
      BY <2>4, <3>1 DEF ReadClock, TypeOK, Call
    <3> QED
      BY <2>4, <3>2 DEF ReadClock, TypeOK
  <2>5. ASSUME NEW c \in Callers, AllowNew(c) PROVE TypeOK'
    <3>1. call[c].key \in Keys /\ call[c].now \in 0..clock
      BY <2>5, CallType DEF AllowNew
    <3>2. /\ DOMAIN buckets' \subseteq Keys
          /\ \A k \in DOMAIN buckets' : /\ buckets'[k] \in Bucket
                                        /\ buckets'[k].updated <= clock
      <4>1. [tokens |-> Burst - Minute, updated |-> call[c].now] \in Bucket
        BY <3>1 DEF Bucket, Burst, TypeOK
      <4> QED
        BY <2>5, <3>1, <4>1 DEF AllowNew, TypeOK
    <3>3. call' \in [Callers -> Call']
      BY <2>5 DEF AllowNew, TypeOK, Call
    <3>4. /\ since' \in [Keys -> 0..clock]
          /\ counted' \in [Keys -> Nat]
          /\ promise' \in [Keys -> Nat \cup {NoPromise}]
      BY <2>5, <3>1 DEF AllowNew, TypeOK
    <3>5. clock' = clock
      BY <2>5 DEF AllowNew
    <3> QED
      BY <3>2, <3>3, <3>4, <3>5 DEF TypeOK
  <2>6. ASSUME NEW c \in Callers, Admit(c) \/ Refuse(c) PROVE TypeOK'
    <3>1. call[c].key \in DOMAIN buckets /\ call[c].now \in 0..clock
      BY <2>6, CallType DEF Admit, Refuse
    <3>2. Refilled(call[c].key, call[c].now) \in Int
      BY <3>1, RefilledType
    <3>3. /\ DOMAIN buckets' \subseteq Keys
          /\ \A k \in DOMAIN buckets' : /\ buckets'[k] \in Bucket
                                        /\ buckets'[k].updated <= clock
      BY <2>6, <3>1, <3>2 DEF Admit, Refuse, TypeOK, Bucket
    <3>4. counted' \in [Keys -> Nat]
      BY <2>6 DEF Admit, Refuse, TypeOK
    <3>5. promise' \in [Keys -> Nat \cup {NoPromise}]
      <4>1. CASE Admit(c)
        BY <4>1 DEF Admit, TypeOK
      <4>2. CASE Refuse(c)
        <5>0. /\ Minute - Refilled(call[c].key, call[c].now) \in Nat
              /\ \A n \in Nat : n \div Rate \in Nat
          BY <4>2, <3>2 DEF Refuse
        <5>1. RetryAfter(Refilled(call[c].key, call[c].now)) \in Nat
          BY <5>0 DEF RetryAfter
        <5>2. clock + RetryAfter(Refilled(call[c].key, call[c].now)) \in Nat
          BY <5>1 DEF TypeOK
        <5> QED
          BY <4>2, <5>2 DEF Refuse, TypeOK
      <4> QED
        BY <2>6, <4>1, <4>2
    <3>6. call' \in [Callers -> Call']
      BY <2>6 DEF Admit, Refuse, TypeOK, Call
    <3>7. clock' = clock /\ since' = since
      BY <2>6 DEF Admit, Refuse
    <3> QED
      BY <3>3, <3>4, <3>5, <3>6, <3>7 DEF TypeOK
  <2> QED
    BY <2>1, <2>2, <2>3, <2>4, <2>5, <2>6 DEF Next
<1> QED
  BY <1>1, <1>2, PTL DEF Spec

-----------------------------------------------------------------------------
(* The token bucket bounds what it admits.                                 *)

\* What a client was given since we count it, and what it still has, come from
\* its burst and from what was refilled since.
Conserved(k) ==
    /\ buckets[k].tokens <= Burst
    /\ \/ counted[k] = 0
       \/ buckets[k].tokens + counted[k] * Minute
            <= Burst + Rate * (buckets[k].updated - since[k])
    /\ counted[k] * Minute <= Burst + Rate * (clock - since[k])

CountInv == \A k \in DOMAIN buckets : Conserved(k)

\* Time only refills.
LEMMA RateMonotone == \A m, n \in Int : m <= n => Rate * m <= Rate * n
<1> SUFFICES ASSUME NEW m \in Int, NEW n \in Int, m <= n PROVE Rate * m <= Rate * n
  OBVIOUS
<1>1. PICK d \in Nat : n = m + d
  <2>1. n - m \in Nat /\ n = m + (n - m)
    OBVIOUS
  <2> QED
    BY <2>1
<1>2. Rate * n = Rate * m + Rate * d /\ Rate * d >= 0 /\ Rate * m \in Int
  BY <1>1, RateAssumption
<1> QED
  BY <1>2, <1>1, RateAssumption

LEMMA RateType == ASSUME NEW m \in Int, NEW n \in Int PROVE Rate * (n - m) \in Int
  BY RateAssumption

\* Refills add up, forwards and backwards in time.
LEMMA RateAdds ==
    ASSUME NEW l \in Int, NEW m \in Int, NEW n \in Int
    PROVE  Rate * (n - l) = Rate * (n - m) + Rate * (m - l)
  BY RateAssumption

LEMMA BurstFacts == Burst \in Nat /\ Minute <= Burst /\ Rate * 0 = 0
<1>1. \A r \in Nat \ {0}, m \in Nat \ {0} : r * m \in Nat /\ m <= r * m
  <2> SUFFICES ASSUME NEW r \in Nat \ {0}, NEW m \in Nat \ {0}
               PROVE r * m \in Nat /\ m <= r * m
    OBVIOUS
  <2>1. PICK s \in Nat : r = s + 1
    <3>1. r - 1 \in Nat /\ r = (r - 1) + 1
      OBVIOUS
    <3> QED
      BY <3>1
  <2>2. r * m = s * m + m /\ s * m \in Nat
    BY <2>1
  <2> QED
    BY <2>2
<1> QED
  BY <1>1, RateAssumption DEF Burst

\* What a refill leaves: no more than the burst, no more than was there and
\* what the time between added.
LEMMA RefilledBound ==
    ASSUME TypeOK, NEW k \in DOMAIN buckets, NEW now \in Nat
    PROVE  /\ Refilled(k, now) <= Burst
           /\ Refilled(k, now)
                <= buckets[k].tokens + Rate * (now - buckets[k].updated)
<1>1. /\ buckets[k].tokens \in Int
      /\ Rate * (now - buckets[k].updated) \in Int
      /\ Burst \in Nat
  BY RateAssumption, BurstFacts DEF TypeOK, Bucket
<1> QED
  BY <1>1 DEF Refilled

LEMMA CountStep == TypeOK /\ TypeOK' /\ CountInv /\ [Next]_vars => CountInv'
<1> SUFFICES ASSUME TypeOK, TypeOK', CountInv, [Next]_vars,
                    NEW k \in DOMAIN buckets'
             PROVE  Conserved(k)'
  BY DEF CountInv
<1>a. k \in Keys /\ since[k] \in 0..clock /\ counted[k] \in Nat /\ clock \in Nat
  BY DEF TypeOK
<1>b. k \in DOMAIN buckets =>
        /\ buckets[k].tokens \in Int
        /\ buckets[k].updated \in 0..clock
        /\ Conserved(k)
  BY DEF TypeOK, Bucket, CountInv
<1>c. Minute \in Nat \ {0} /\ counted[k] * Minute \in Nat
  <2>1. \A m, n \in Nat : m * n \in Nat
    OBVIOUS
  <2> QED
    BY <1>a, <2>1, RateAssumption
<1>1. CASE UNCHANGED vars
  BY <1>1, <1>b DEF vars, Conserved
<1>2. CASE Tick
  <2>1. Rate * (clock - since[k]) <= Rate * (clock' - since[k])
    BY <1>2, <1>a, RateMonotone DEF Tick
  <2>2. Rate * (clock - since[k]) \in Int /\ Rate * (clock' - since[k]) \in Int
    <3>1. since[k] \in Int /\ clock \in Int /\ clock' \in Int
      BY <1>2, <1>a DEF Tick
    <3> QED
      BY <3>1, RateType
  <2> QED
    BY <1>2, <1>a, <1>b, <1>c, <2>1, <2>2, BurstFacts DEF Tick, Conserved
<1>3. ASSUME NEW l \in Keys, Observe(l) PROVE Conserved(k)'
  <2>1. CASE k = l
    <3>1. counted'[k] = 0 /\ since'[k] = clock /\ clock' = clock /\ buckets' = buckets
      BY <1>3, <2>1 DEF Observe, TypeOK
    <3>2. 0 * Minute = 0 /\ clock - clock = 0
      BY <1>a, <1>c
    <3> QED
      BY <3>1, <3>2, <1>b, <1>a, BurstFacts DEF Conserved
  <2>2. CASE k # l
    BY <1>3, <2>2, <1>b DEF Observe, TypeOK, Conserved
  <2> QED
    BY <2>1, <2>2
<1>4. ASSUME NEW c \in Callers, NEW l \in Keys, ReadClock(c, l) PROVE Conserved(k)'
  BY <1>4, <1>b DEF ReadClock, Conserved
<1>5. ASSUME NEW c \in Callers, AllowNew(c) PROVE Conserved(k)'
  <2>1. CASE k = call[c].key
    <3>1. /\ buckets'[k] = [tokens |-> Burst - Minute, updated |-> call[c].now]
          /\ since'[k] = call[c].now
          /\ counted'[k] = 1
          /\ clock' = clock
      BY <1>5, <2>1, <1>a DEF AllowNew, TypeOK
    <3>2. call[c].now \in 0..clock
      BY <1>5, CallType DEF AllowNew
    <3>3. Rate * (call[c].now - call[c].now) = 0 /\ Rate * (clock - call[c].now) >= 0
      <4>1. Rate * 0 <= Rate * (clock - call[c].now)
        BY <1>a, <3>2, RateMonotone
      <4> QED
        BY <4>1, <3>2, BurstFacts
    <3>4. Rate * (clock - call[c].now) \in Int /\ 1 * Minute = Minute
      <4>1. clock \in Int /\ call[c].now \in Int
        BY <1>a, <3>2
      <4> QED
        BY <4>1, <1>c, RateType
    <3> QED
      BY <3>1, <3>2, <3>3, <3>4, <1>c, BurstFacts DEF Conserved
  <2>2. CASE k # call[c].key
    BY <1>5, <2>2, <1>b DEF AllowNew, TypeOK, Conserved
  <2> QED
    BY <2>1, <2>2
<1>6. ASSUME NEW c \in Callers, Admit(c) \/ Refuse(c) PROVE Conserved(k)'
  <2>1. CASE k # call[c].key
    BY <1>6, <2>1, <1>b DEF Admit, Refuse, TypeOK, Conserved
  <2>2. CASE k = call[c].key
    <3> DEFINE now == call[c].now
               left == Refilled(k, now)
               updated == buckets[k].updated
    <3>1. k \in DOMAIN buckets /\ now \in 0..clock /\ clock' = clock /\ since' = since
      BY <1>6, <2>2, CallType DEF Admit, Refuse
    <3>2. /\ left \in Int
          /\ left <= Burst
          /\ left <= buckets[k].tokens + Rate * (now - updated)
      BY <3>1, RefilledType, RefilledBound
    <3>3. /\ Rate * (now - since[k])
               = Rate * (now - updated) + Rate * (updated - since[k])
          /\ Rate * (now - since[k]) \in Int
          /\ Rate * (now - updated) \in Int
          /\ Rate * (updated - since[k]) \in Int
          /\ Rate * (clock - since[k]) \in Int
      <4>1. /\ now \in Int /\ updated \in Int /\ since[k] \in Int /\ clock \in Int
        BY <1>a, <1>b, <3>1
      <4> HIDE DEF now, updated
      <4> QED
        BY <4>1, RateType, RateAdds
    <3>4. Rate * (now - since[k]) <= Rate * (clock - since[k])
      BY <1>a, <3>1, RateMonotone
    <3>5. counted[k] # 0 => left + counted[k] * Minute
                              <= Burst + Rate * (now - since[k])
      BY <3>1, <3>2, <3>3, <1>b, <1>c, BurstFacts DEF Conserved
    <3>6. CASE Refuse(c)
      <4>1. /\ buckets'[k] = [tokens |-> left, updated |-> now]
            /\ counted'[k] = counted[k]
        BY <3>6, <2>2, <3>1 DEF Refuse
      <4> HIDE DEF left, now, updated
      <4> QED
        BY <4>1, <3>1, <3>2, <3>5, <1>b DEF Conserved
    <3>7. CASE Admit(c) /\ now < since[k]
      <4>1. /\ buckets'[k] = [tokens |-> left - Minute, updated |-> now]
            /\ counted'[k] = counted[k]
        BY <3>7, <2>2, <3>1, <1>a DEF Admit, TypeOK
      <4> HIDE DEF left, now, updated
      <4> QED
        BY <4>1, <3>1, <3>2, <3>3, <3>5, <1>a, <1>b, <1>c, BurstFacts DEF Conserved
    <3>8. CASE Admit(c) /\ now >= since[k]
      <4>1. /\ buckets'[k] = [tokens |-> left - Minute, updated |-> now]
            /\ counted'[k] = counted[k] + 1
            /\ left >= Minute
        BY <3>8, <2>2, <3>1, <1>a DEF Admit, TypeOK
      <4>2. (counted[k] + 1) * Minute = counted[k] * Minute + Minute
        BY <1>a, <1>c
      <4>3. Rate * (now - since[k]) >= 0
        <5>1. Rate * 0 <= Rate * (now - since[k])
          BY <3>8, <3>1, <1>a, RateMonotone
        <5> QED
          BY <5>1, BurstFacts
      <4> HIDE DEF left, now, updated
      <4>4. left + counted[k] * Minute <= Burst + Rate * (now - since[k])
        <5>1. CASE counted[k] = 0
          <6>1. counted[k] * Minute = 0
            BY <5>1, <1>c
          <6> QED
            BY <6>1, <4>3, <3>2, <3>3, BurstFacts
        <5> QED
          BY <5>1, <3>5
      <4> QED
        BY <4>1, <4>2, <4>4, <3>1, <3>2, <3>3, <3>4, <1>a, <1>c, BurstFacts
           DEF Conserved
    <3> QED
      BY <1>6, <3>1, <3>6, <3>7, <3>8, <1>a
  <2> QED
    BY <2>1, <2>2
<1> QED
  BY <1>1, <1>2, <1>3, <1>4, <1>5, <1>6 DEF Next

\* From any moment on, a client is admitted its burst and the refill of the
\* elapsed time, and no more, in whatever order its calls take the lock.
THEOREM AdmissionBound == Spec => []AdmissionBounded
<1>1. Init => CountInv
  BY DEF Init, CountInv
<1>2. CountInv => AdmissionBounded
  BY DEF CountInv, Conserved, AdmissionBounded
<1> QED
  BY <1>1, <1>2, CountStep, TypeCorrect, PTL DEF Spec

-----------------------------------------------------------------------------
(* Retry-After is honoured.                                                *)

\* At the time a client was told, its bucket will have been refilled.
PromiseKept(k) ==
    promise[k] # NoPromise =>
        buckets[k].tokens + Rate * (promise[k] - buckets[k].updated) >= Minute

PromiseInv == \A k \in DOMAIN buckets : PromiseKept(k)

\* The announced wait covers what is missing of a token.
LEMMA RetryAfterCovers ==
    ASSUME NEW tokens \in Int, tokens < Minute
    PROVE  /\ RetryAfter(tokens) \in Nat
           /\ tokens + Rate * RetryAfter(tokens) >= Minute
<1> DEFINE deficit == Minute - tokens
           whole == deficit \div Rate
<1>1. deficit \in Nat
  BY RateAssumption
<1>2. \A n \in Nat, r \in Nat \ {0} : n \div r \in Nat /\ n < r * ((n \div r) + 1)
  OBVIOUS
<1>3. whole \in Nat /\ deficit < Rate * (whole + 1)
  BY <1>1, <1>2, RateAssumption
<1>4. Rate * (whole + 1) \in Int
  <2> HIDE DEF whole
  <2> QED
    BY <1>3, RateAssumption
<1>5. RetryAfter(tokens) = whole + 1
  BY DEF RetryAfter
<1> HIDE DEF whole
<1> QED
  BY <1>3, <1>4, <1>5, RateAssumption

\* A bucket that is short of a token was not cut down to the burst.
LEMMA ShortRefill ==
    ASSUME TypeOK, NEW k \in DOMAIN buckets, NEW now \in Nat,
           Refilled(k, now) < Minute
    PROVE  Refilled(k, now) = buckets[k].tokens + Rate * (now - buckets[k].updated)
<1>1. /\ buckets[k].tokens \in Int
      /\ Rate * (now - buckets[k].updated) \in Int
      /\ Burst \in Nat /\ Minute \in Nat /\ Minute <= Burst
  BY RateType, BurstFacts, RateAssumption DEF TypeOK, Bucket
<1> QED
  BY <1>1 DEF Refilled

LEMMA PromiseStep == TypeOK /\ TypeOK' /\ PromiseInv /\ [Next]_vars => PromiseInv'
<1> SUFFICES ASSUME TypeOK, TypeOK', PromiseInv, [Next]_vars,
                    NEW k \in DOMAIN buckets'
             PROVE  PromiseKept(k)'
  BY DEF PromiseInv
<1>a. k \in Keys
  BY DEF TypeOK
<1>1. CASE UNCHANGED <<buckets, promise>>
  BY <1>1 DEF PromiseInv, PromiseKept
<1>2. ASSUME NEW c \in Callers, AllowNew(c) PROVE PromiseKept(k)'
  <2>1. CASE k = call[c].key
    BY <1>2, <2>1, <1>a DEF AllowNew, TypeOK, PromiseKept
  <2>2. CASE k # call[c].key
    BY <1>2, <2>2 DEF AllowNew, TypeOK, PromiseInv, PromiseKept
  <2> QED
    BY <2>1, <2>2
<1>3. ASSUME NEW c \in Callers, Admit(c) PROVE PromiseKept(k)'
  <2>1. CASE k = call[c].key
    BY <1>3, <2>1, <1>a DEF Admit, TypeOK, PromiseKept
  <2>2. CASE k # call[c].key
    BY <1>3, <2>2 DEF Admit, TypeOK, PromiseInv, PromiseKept
  <2> QED
    BY <2>1, <2>2
<1>4. ASSUME NEW c \in Callers, Refuse(c) PROVE PromiseKept(k)'
  <2>1. CASE k # call[c].key
    BY <1>4, <2>1 DEF Refuse, TypeOK, PromiseInv, PromiseKept
  <2>2. CASE k = call[c].key
    <3> DEFINE now == call[c].now
               left == Refilled(k, now)
               wait == RetryAfter(left)
    <3>1. /\ buckets'[k] = [tokens |-> left, updated |-> now]
          /\ promise'[k] = clock + wait
          /\ left < Minute
      BY <1>4, <2>2, <1>a DEF Refuse, TypeOK
    <3>2. k \in DOMAIN buckets /\ now \in 0..clock /\ clock \in Nat
      BY <1>4, <2>2, CallType DEF Refuse, TypeOK
    <3>3. left \in Int
      BY <3>2, RefilledType
    <3>4. wait \in Nat /\ left + Rate * wait >= Minute
      BY <3>1, <3>3, RetryAfterCovers
    <3> HIDE DEF now, left, wait
    <3>5. /\ buckets'[k].tokens = left
          /\ buckets'[k].updated = now
          /\ promise'[k] = clock + wait
      BY <3>1
    <3>6. /\ promise'[k] - buckets'[k].updated \in Int
          /\ wait <= promise'[k] - buckets'[k].updated
      BY <3>2, <3>4, <3>5
    <3>7. Rate * wait <= Rate * (promise'[k] - buckets'[k].updated)
      BY <3>4, <3>6, RateMonotone
    <3>8. Rate * wait \in Int /\ Rate * (promise'[k] - buckets'[k].updated) \in Int
      BY <3>4, <3>6, RateAssumption
    <3>9. buckets'[k].tokens + Rate * (promise'[k] - buckets'[k].updated) >= Minute
      BY <3>3, <3>4, <3>5, <3>7, <3>8, RateAssumption
    <3> QED
      BY <3>9 DEF PromiseKept
  <2> QED
    BY <2>1, <2>2
<1> QED
  BY <1>1, <1>2, <1>3, <1>4 DEF Next, vars, Tick, Observe, ReadClock

\* A call made when the client was told to come back finds a whole token.
LEMMA HonouredStep ==
    ASSUME TypeOK, PromiseInv, NEW c \in Callers, Refuse(c)
    PROVE  \/ promise[call[c].key] = NoPromise
           \/ call[c].now < promise[call[c].key]
<1> DEFINE key == call[c].key
           now == call[c].now
<1>1. /\ key \in DOMAIN buckets
      /\ key \in Keys
      /\ now \in Nat
      /\ Refilled(key, now) < Minute
  BY CallType DEF Refuse, TypeOK
<1> HIDE DEF key, now
<1> SUFFICES ASSUME promise[key] # NoPromise, now >= promise[key] PROVE FALSE
  BY <1>1 DEF TypeOK, NoPromise, key, now
<1>2. /\ promise[key] \in Nat
      /\ buckets[key].tokens \in Int
      /\ buckets[key].updated \in Nat
  BY <1>1 DEF TypeOK, Bucket
<1>3. buckets[key].tokens + Rate * (promise[key] - buckets[key].updated) >= Minute
  BY <1>1 DEF PromiseInv, PromiseKept
<1>4. Rate * (promise[key] - buckets[key].updated)
        <= Rate * (now - buckets[key].updated)
  BY <1>1, <1>2, RateMonotone
<1>5. Refilled(key, now) = buckets[key].tokens + Rate * (now - buckets[key].updated)
  BY <1>1, ShortRefill
<1>6. /\ Rate * (promise[key] - buckets[key].updated) \in Int
      /\ Rate * (now - buckets[key].updated) \in Int
  BY <1>1, <1>2, RateType
<1> QED
  BY <1>1, <1>2, <1>3, <1>4, <1>5, <1>6, RateAssumption

\* A client that waits for its Retry-After is not refused, unless another of
\* its requests was admitted meanwhile.
THEOREM RetryAfterIsHonoured == Spec => RetryAfterHonoured
<1>1. Init => PromiseInv
  BY DEF Init, PromiseInv
<1>2. TypeOK /\ PromiseInv => NotRefusedAfterWaiting
  BY HonouredStep DEF NotRefusedAfterWaiting
<1> QED
  BY <1>1, <1>2, PromiseStep, TypeCorrect, PTL DEF Spec, RetryAfterHonoured

-----------------------------------------------------------------------------
(* The table of clients stays small.                                       *)

MemoryInv == IsFiniteSet(DOMAIN buckets) /\ MemoryBounded

LEMMA MemoryStep ==
    ASSUME TypeOK, MemoryInv, NEW c \in Callers, AllowNew(c)
    PROVE  MemoryInv'
<1> DEFINE size == Cardinality(DOMAIN buckets)
<1>1. PICK dropped \in SUBSET DOMAIN buckets :
         /\ MayEvict(dropped)
         /\ DOMAIN buckets' = ((DOMAIN buckets) \ dropped) \cup {call[c].key}
  BY DEF AllowNew
<1>2. /\ IsFiniteSet(DOMAIN buckets) /\ size \in Nat /\ size <= MaxKeys + 1
      /\ IsFiniteSet(dropped) /\ Cardinality(dropped) \in Nat
  BY <1>1, FS_CardinalityType, FS_Subset DEF MemoryInv, MemoryBounded
<1>3. /\ IsFiniteSet((DOMAIN buckets) \ dropped)
      /\ Cardinality((DOMAIN buckets) \ dropped) = size - Cardinality(dropped)
  <2>1. (DOMAIN buckets) \cap dropped = dropped
    OBVIOUS
  <2> QED
    BY <1>2, <2>1, FS_Difference
<1>4. size - Cardinality(dropped) <= MaxKeys
  <2>1. CASE size <= MaxKeys
    BY <2>1, <1>2, KeysAssumption
  <2>2. CASE size = MaxKeys + 1
    <3>1. Cardinality(dropped) = size \div 2
      BY <1>1, <2>2, KeysAssumption DEF MayEvict, Oldest
    <3> HIDE DEF size
    <3>2. size \div 2 >= 1
      BY <2>2, KeysAssumption
    <3> QED
      BY <3>1, <3>2, <2>2, <1>2, KeysAssumption
  <2> QED
    BY <2>1, <2>2, <1>2, KeysAssumption
<1>5. call[c].key \notin (DOMAIN buckets) \ dropped
  BY DEF AllowNew
<1>6. /\ IsFiniteSet(DOMAIN buckets')
      /\ Cardinality(DOMAIN buckets') = Cardinality((DOMAIN buckets) \ dropped) + 1
  BY <1>1, <1>3, <1>5, FS_AddElement
<1> QED
  BY <1>2, <1>3, <1>4, <1>6, KeysAssumption DEF MemoryInv, MemoryBounded

\* However many clients come, the limiter remembers at most MaxKeys + 1.
THEOREM MemoryIsBounded == Spec => []MemoryBounded
<1>1. Init => MemoryInv
  BY FS_EmptySet, KeysAssumption DEF Init, MemoryInv, MemoryBounded
<1>2. TypeOK /\ MemoryInv /\ [Next]_vars => MemoryInv'
  <2>1. CASE DOMAIN buckets' = DOMAIN buckets
    BY <2>1 DEF MemoryInv, MemoryBounded
  <2> QED
    BY <2>1, MemoryStep DEF Next, vars, Tick, Observe, ReadClock, Admit, Refuse
<1>3. MemoryInv => MemoryBounded
  BY DEF MemoryInv
<1> QED
  BY <1>1, <1>2, <1>3, TypeCorrect, PTL DEF Spec

=============================================================================
