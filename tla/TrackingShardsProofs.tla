------------------------- MODULE TrackingShardsProofs -------------------------
(***************************************************************************)
(* What sharding guarantees for any number of processes and any retention: *)
(* no process ever takes a run out of a shard, and the monitor's window    *)
(* holds the newest runs of what it listed.                                *)
(***************************************************************************)
EXTENDS TrackingShards, FiniteSetTheorems, FunctionTheorems, TLAPS

LEMMA TypeStep == TypeOK /\ [Next]_vars => TypeOK'
<1> SUFFICES ASSUME TypeOK, [Next]_vars PROVE TypeOK'
  OBVIOUS
<1> USE LimitsAssumption DEF TypeOK
<1>1. CASE Tick
  BY <1>1 DEF Tick
<1>2. ASSUME NEW n \in Names, ColdStart(n) PROVE TypeOK'
  BY <1>2 DEF ColdStart
<1>3. ASSUME NEW n \in Names, LogRun(n) PROVE TypeOK'
  BY <1>3 DEF LogRun
<1>4. ASSUME NEW n \in Names, Save(n) PROVE TypeOK'
  <2>1. runs[n] \in SUBSET (0..clock) /\ clock \in 0..clock
    OBVIOUS
  <2>2. ASSUME NEW m \in DOMAIN shards'
        PROVE  shards'[m] \in [updated : 0..clock, runs : SUBSET (0..clock)]
    <3>1. CASE m = n
      BY <1>4, <2>1, <2>2, <3>1 DEF Save
    <3>2. CASE m # n
      BY <1>4, <2>2, <3>2 DEF Save
    <3> QED
      BY <3>1, <3>2
  <2>3. DOMAIN shards' \subseteq Names /\ UNCHANGED <<clock, process, runs>>
    BY <1>4 DEF Save
  <2> QED
    BY <2>2, <2>3
<1>5. ASSUME NEW n \in Names, Stop(n) PROVE TypeOK'
  BY <1>5 DEF Stop
<1>6. ASSUME NEW n \in Names, Expire(n) PROVE TypeOK'
  BY <1>6 DEF Expire
<1>7. CASE UNCHANGED vars
  BY <1>7 DEF vars
<1> QED
  BY <1>1, <1>2, <1>3, <1>4, <1>5, <1>6, <1>7 DEF Next

\* The state of the processes and of the bucket keeps its types.
THEOREM TypeCorrect == Spec => []TypeOK
<1>1. Init => TypeOK
  BY DEF Init, TypeOK
<1> QED
  BY <1>1, TypeStep, PTL DEF Spec

(***************************************************************************)
(* A shard has one writer, and what it holds is part of what that writer   *)
(* has logged.                                                             *)
(***************************************************************************)
OneWriter ==
    \A n \in DOMAIN shards :
        /\ process[n] # "unborn"
        /\ process[n] = "running" => shards[n].runs \subseteq runs[n]

IInv == TypeOK /\ OneWriter

LEMMA OneWriterStep == IInv /\ [Next]_vars => OneWriter'
<1> SUFFICES ASSUME IInv, [Next]_vars, NEW m \in DOMAIN shards'
             PROVE  /\ process'[m] # "unborn"
                    /\ process'[m] = "running" => shards'[m].runs \subseteq runs'[m]
  BY DEF OneWriter
<1> USE DEF IInv, TypeOK, OneWriter
<1>1. CASE Tick
  BY <1>1 DEF Tick
<1>2. ASSUME NEW n \in Names, ColdStart(n)
      PROVE  /\ process'[m] # "unborn"
             /\ process'[m] = "running" => shards'[m].runs \subseteq runs'[m]
  <2>1. m \in DOMAIN shards /\ m # n
    BY <1>2 DEF ColdStart
  <2> QED
    BY <1>2, <2>1 DEF ColdStart
<1>3. ASSUME NEW n \in Names, LogRun(n)
      PROVE  /\ process'[m] # "unborn"
             /\ process'[m] = "running" => shards'[m].runs \subseteq runs'[m]
  BY <1>3 DEF LogRun
<1>4. ASSUME NEW n \in Names, Save(n)
      PROVE  /\ process'[m] # "unborn"
             /\ process'[m] = "running" => shards'[m].runs \subseteq runs'[m]
  <2>1. CASE m = n
    BY <1>4, <2>1 DEF Save
  <2>2. CASE m # n
    BY <1>4, <2>2 DEF Save
  <2> QED
    BY <2>1, <2>2
<1>5. ASSUME NEW n \in Names, Stop(n)
      PROVE  /\ process'[m] # "unborn"
             /\ process'[m] = "running" => shards'[m].runs \subseteq runs'[m]
  BY <1>5 DEF Stop
<1>6. ASSUME NEW n \in Names, Expire(n)
      PROVE  /\ process'[m] # "unborn"
             /\ process'[m] = "running" => shards'[m].runs \subseteq runs'[m]
  BY <1>6 DEF Expire
<1>7. CASE UNCHANGED vars
  BY <1>7 DEF vars
<1> QED
  BY <1>1, <1>2, <1>3, <1>4, <1>5, <1>6, <1>7 DEF Next

\* What a step may do to the objects, as an action.
Grow ==
    \A n \in DOMAIN shards :
        IF n \in DOMAIN shards'
          THEN shards[n].runs \subseteq shards'[n].runs
          ELSE clock - shards[n].updated >= Retention

LEMMA GrowStep == IInv /\ [Next]_vars => Grow
<1> SUFFICES ASSUME IInv, [Next]_vars PROVE Grow
  OBVIOUS
<1> USE DEF IInv, TypeOK, OneWriter, Grow
<1>1. ASSUME UNCHANGED shards PROVE Grow
  BY <1>1
<1>2. ASSUME NEW n \in Names, Save(n) PROVE Grow
  BY <1>2 DEF Save
<1>3. ASSUME NEW n \in Names, Expire(n) PROVE Grow
  BY <1>3 DEF Expire
<1> QED
  BY <1>1, <1>2, <1>3 DEF Next, vars, Tick, ColdStart, LogRun, Stop

\* No run is ever taken out of a shard, and a shard is removed by its age only.
THEOREM ShardsAreNeverOverwritten == Spec => ShardsOnlyGrow
<1>1. Init => IInv
  BY DEF Init, IInv, TypeOK, OneWriter
<1>2. IInv /\ [Next]_vars => IInv'
  BY TypeStep, OneWriterStep DEF IInv
<1>3. IInv /\ [Next]_vars => [Grow]_vars
  BY GrowStep
<1> QED
  BY <1>1, <1>2, <1>3, PTL DEF Spec, ShardsOnlyGrow, Grow

-----------------------------------------------------------------------------
(* The first k of a finite set in a strict total order, which the listing, *)
(* the reading of a database and the merging all take.  The order is a set *)
(* of pairs here.                                                          *)

StrictTotalOrder(S, R) ==
    /\ \A x \in S : <<x, x>> \notin R
    /\ \A x, y, z \in S : <<x, y>> \in R /\ <<y, z>> \in R => <<x, z>> \in R
    /\ \A x, y \in S : x = y \/ <<x, y>> \in R \/ <<y, x>> \in R

Before(S, R, s) == {r \in S : <<r, s>> \in R}

First(S, R, k) == {s \in S : Cardinality(Before(S, R, s)) < k}

LEMMA BeforeFinite ==
    ASSUME NEW S, IsFiniteSet(S), NEW R, StrictTotalOrder(S, R), NEW s \in S
    PROVE  /\ IsFiniteSet(Before(S, R, s))
           /\ Cardinality(Before(S, R, s)) \in Nat
           /\ Cardinality(S) \in Nat
           /\ Cardinality(Before(S, R, s)) < Cardinality(S)
<1>1. Before(S, R, s) \in SUBSET S /\ s \notin Before(S, R, s)
  BY DEF Before, StrictTotalOrder
<1>2. Before(S, R, s) # S
  BY <1>1
<1>3. /\ IsFiniteSet(Before(S, R, s))
      /\ Cardinality(Before(S, R, s)) <= Cardinality(S)
      /\ Cardinality(Before(S, R, s)) # Cardinality(S)
  BY <1>1, <1>2, FS_Subset
<1>4. Cardinality(Before(S, R, s)) \in Nat /\ Cardinality(S) \in Nat
  BY <1>3, FS_CardinalityType
<1> QED
  BY <1>3, <1>4

\* Who comes before another has fewer before him.
LEMMA RankGrows ==
    ASSUME NEW S, IsFiniteSet(S), NEW R, StrictTotalOrder(S, R),
           NEW r \in S, NEW s \in S, <<r, s>> \in R
    PROVE  Cardinality(Before(S, R, r)) < Cardinality(Before(S, R, s))
<1>1. Before(S, R, r) \in SUBSET Before(S, R, s)
  BY DEF Before, StrictTotalOrder
<1>2. r \in Before(S, R, s) /\ r \notin Before(S, R, r)
  BY DEF Before, StrictTotalOrder
<1>3. /\ IsFiniteSet(Before(S, R, s))
      /\ Cardinality(Before(S, R, r)) \in Nat
      /\ Cardinality(Before(S, R, s)) \in Nat
  BY BeforeFinite
<1>4. /\ Cardinality(Before(S, R, r)) <= Cardinality(Before(S, R, s))
      /\ Cardinality(Before(S, R, r)) # Cardinality(Before(S, R, s))
  BY <1>1, <1>2, <1>3, FS_Subset
<1> QED
  BY <1>3, <1>4

\* A set of at least k elements has exactly k first ones.
LEMMA FirstFull ==
    ASSUME NEW S, IsFiniteSet(S), NEW R, StrictTotalOrder(S, R), NEW k \in Nat,
           k <= Cardinality(S)
    PROVE  IsFiniteSet(First(S, R, k)) /\ Cardinality(First(S, R, k)) = k
<1> DEFINE n == Cardinality(S)
           rank == [s \in S |-> Cardinality(Before(S, R, s))]
           top == [s \in First(S, R, k) |-> Cardinality(Before(S, R, s))]
<1>1. n \in Nat
  BY FS_CardinalityType
<1>2. rank \in [S -> 0..(n - 1)]
  <2> SUFFICES ASSUME NEW s \in S PROVE Cardinality(Before(S, R, s)) \in 0..(n - 1)
    OBVIOUS
  <2> QED
    BY <1>1, BeforeFinite
<1>3. ASSUME NEW x \in S, NEW y \in S, rank[x] = rank[y] PROVE x = y
  <2>1. /\ Cardinality(Before(S, R, x)) = Cardinality(Before(S, R, y))
        /\ Cardinality(Before(S, R, x)) \in Nat
    BY <1>3, BeforeFinite
  <2>2. ASSUME <<x, y>> \in R PROVE FALSE
    BY <2>1, <2>2, RankGrows
  <2>3. ASSUME <<y, x>> \in R PROVE FALSE
    BY <2>1, <2>3, RankGrows
  <2> QED
    BY <2>2, <2>3 DEF StrictTotalOrder
<1>4. rank \in Injection(S, 0..(n - 1))
  BY <1>2, <1>3, Fun_IsInj
<1>5. IsFiniteSet(0..(n - 1)) /\ Cardinality(0..(n - 1)) = n
  <2> HIDE DEF n
  <2>1. 0 \in Int /\ n - 1 \in Int /\ (n - 1) - 0 + 1 = n /\ (0 > n - 1 => n = 0)
    BY <1>1
  <2> QED
    BY <2>1, FS_Interval
<1>6. rank \in Surjection(S, 0..(n - 1))
  BY <1>4, <1>5, FS_Injection
<1>7. \A i \in 0..(n - 1) : \E s \in S : rank[s] = i
  <2> HIDE DEF rank, n
  <2> QED
    BY <1>6, Fun_SurjectionProperties
<1>8. top \in [First(S, R, k) -> 0..(k - 1)]
  <2> SUFFICES ASSUME NEW s \in First(S, R, k)
               PROVE  Cardinality(Before(S, R, s)) \in 0..(k - 1)
    OBVIOUS
  <2>1. s \in S /\ Cardinality(Before(S, R, s)) < k
    BY DEF First
  <2> QED
    BY <2>1, BeforeFinite
<1>9. \A x, y \in First(S, R, k) : top[x] = top[y] => x = y
  BY <1>3 DEF First
<1>10. \A i \in 0..(k - 1) : \E s \in First(S, R, k) : top[s] = i
  BY <1>1, <1>7 DEF First
<1>11. top \in Injection(First(S, R, k), 0..(k - 1))
  BY <1>8, <1>9, Fun_IsInj
<1>12. top \in Surjection(First(S, R, k), 0..(k - 1))
  BY <1>8, <1>10, Fun_IsSurj
<1>13. IsFiniteSet(0..(k - 1)) /\ Cardinality(0..(k - 1)) = k
  BY FS_Interval
<1> QED
  BY <1>11, <1>12, <1>13, FS_Injection

\* What is not among the first k comes after all of them, and there are k.
LEMMA NotFirst ==
    ASSUME NEW S, IsFiniteSet(S), NEW R, StrictTotalOrder(S, R), NEW k \in Nat,
           NEW s \in S, s \notin First(S, R, k)
    PROVE  /\ k <= Cardinality(S)
           /\ Cardinality(First(S, R, k)) = k
           /\ \A r \in First(S, R, k) : <<r, s>> \in R
<1>1. /\ Cardinality(Before(S, R, s)) \in Nat
      /\ Cardinality(S) \in Nat
      /\ Cardinality(Before(S, R, s)) < Cardinality(S)
      /\ k <= Cardinality(Before(S, R, s))
  BY BeforeFinite DEF First
<1>2. k <= Cardinality(S)
  BY <1>1
<1>3. Cardinality(First(S, R, k)) = k
  BY <1>2, FirstFull
<1>4. ASSUME NEW r \in First(S, R, k) PROVE <<r, s>> \in R
  <2>1. r \in S /\ Cardinality(Before(S, R, r)) < k
    BY DEF First
  <2>2. Cardinality(Before(S, R, r)) \in Nat
    BY <2>1, BeforeFinite
  <2>3. ASSUME <<s, r>> \in R PROVE FALSE
    <3>1. Cardinality(Before(S, R, s)) < Cardinality(Before(S, R, r))
      BY <2>1, <2>3, RankGrows
    <3> QED
      BY <3>1, <2>1, <2>2, <1>1
  <2>4. r # s
    BY <2>1, <1>1
  <2> QED
    BY <2>1, <2>3, <2>4 DEF StrictTotalOrder
<1> QED
  BY <1>2, <1>3, <1>4

-----------------------------------------------------------------------------
(* The window of the monitor.                                              *)

\* There are finitely many objects, and none holds a run newer than itself.
WindowInv ==
    /\ IInv
    /\ IsFiniteSet(DOMAIN shards)
    /\ \A n \in DOMAIN shards : \A t \in shards[n].runs : t <= shards[n].updated

LEMMA WindowInvInit == Init => WindowInv
  BY FS_EmptySet DEF Init, WindowInv, IInv, TypeOK, OneWriter

LEMMA WindowInvStep == WindowInv /\ IInv' /\ [Next]_vars => WindowInv'
<1> SUFFICES ASSUME WindowInv, IInv', [Next]_vars
             PROVE  /\ IsFiniteSet(DOMAIN shards')
                    /\ \A n \in DOMAIN shards' :
                          \A t \in shards'[n].runs : t <= shards'[n].updated
  BY DEF WindowInv
<1> USE DEF WindowInv, IInv, TypeOK
<1>1. CASE UNCHANGED shards
  BY <1>1
<1>2. ASSUME NEW n \in Names, Save(n)
      PROVE  /\ IsFiniteSet(DOMAIN shards')
             /\ \A m \in DOMAIN shards' :
                   \A t \in shards'[m].runs : t <= shards'[m].updated
  <2>1. DOMAIN shards' = DOMAIN shards \cup {n}
    BY <1>2 DEF Save
  <2>2. IsFiniteSet(DOMAIN shards')
    BY <2>1, FS_AddElement
  <2>3. ASSUME NEW m \in DOMAIN shards', NEW t \in shards'[m].runs
        PROVE  t <= shards'[m].updated
    <3>1. CASE m = n
      BY <1>2, <2>1, <2>3, <3>1 DEF Save
    <3>2. CASE m # n
      BY <1>2, <2>1, <2>3, <3>2 DEF Save
    <3> QED
      BY <3>1, <3>2
  <2> QED
    BY <2>2, <2>3
<1>3. ASSUME NEW n \in Names, Expire(n)
      PROVE  /\ IsFiniteSet(DOMAIN shards')
             /\ \A m \in DOMAIN shards' :
                   \A t \in shards'[m].runs : t <= shards'[m].updated
  <2>1. DOMAIN shards' = DOMAIN shards \ {n}
    BY <1>3 DEF Expire
  <2>2. IsFiniteSet(DOMAIN shards')
    BY <2>1, FS_RemoveElement
  <2>3. \A m \in DOMAIN shards' : shards'[m] = shards[m]
    BY <1>3 DEF Expire
  <2> QED
    BY <2>1, <2>2, <2>3
<1> QED
  BY <1>1, <1>2, <1>3 DEF Next, vars, Tick, ColdStart, LogRun, Stop

\* The relations by which the runs of a database, the objects and the merged
\* records are ordered.
Newest(S) == {p \in S \X S : p[1] > p[2]}
ByAge == {p \in (DOMAIN shards) \X (DOMAIN shards) : ListedBefore(p[1], p[2])}
Readable(readable) == UNION {Records(n) : n \in Listed \cap readable}
ByTime(S) == {p \in S \X S : MergedBefore(p[1], p[2])}

\* A listing of no more objects than are fetched starts from all of them.
LEMMA AllFetched ==
    ASSUME WindowInv, Cardinality(DOMAIN shards) <= 4 * MaxShards
    PROVE  Fetched = DOMAIN shards
<1> SUFFICES ASSUME NEW n \in DOMAIN shards
             PROVE  Cardinality({m \in DOMAIN shards : m < n}) < 4 * MaxShards
  BY DEF Fetched, Top
<1>1. IsFiniteSet(DOMAIN shards) /\ DOMAIN shards \subseteq Nat
  <2>1. IsFiniteSet(DOMAIN shards) /\ DOMAIN shards \subseteq Names
    BY DEF WindowInv, IInv, TypeOK
  <2> QED
    BY <2>1, NamesAssumption
<1>2. {m \in DOMAIN shards : m < n} \in SUBSET ((DOMAIN shards) \ {n})
  BY <1>1
<1>3. /\ IsFiniteSet((DOMAIN shards) \ {n})
      /\ Cardinality((DOMAIN shards) \ {n}) = Cardinality(DOMAIN shards) - 1
  BY <1>1, FS_RemoveElement
<1>4. /\ IsFiniteSet({m \in DOMAIN shards : m < n})
      /\ Cardinality({m \in DOMAIN shards : m < n})
           <= Cardinality((DOMAIN shards) \ {n})
  BY <1>2, <1>3, FS_Subset
<1>5. Cardinality(DOMAIN shards) \in Nat
      /\ Cardinality({m \in DOMAIN shards : m < n}) \in Nat
  BY <1>1, <1>4, FS_CardinalityType
<1> QED
  BY <1>3, <1>4, <1>5, LimitsAssumption

\* Then what is left out of the listing was written no later than what is not.
LEMMA ListedNewest ==
    ASSUME WindowInv, Cardinality(DOMAIN shards) <= 4 * MaxShards,
           NEW n \in DOMAIN shards, n \notin Listed, NEW m \in Listed
    PROVE  shards[m].updated >= shards[n].updated
<1>1. IsFiniteSet(DOMAIN shards) /\ DOMAIN shards \subseteq Nat
      /\ \A k \in DOMAIN shards : shards[k].updated \in Nat
  <2>1. IsFiniteSet(DOMAIN shards) /\ DOMAIN shards \subseteq Names
    BY DEF WindowInv, IInv, TypeOK
  <2>2. DOMAIN shards \subseteq Nat
    BY <2>1, NamesAssumption
  <2>3. \A k \in DOMAIN shards : shards[k].updated \in Nat
    BY DEF WindowInv, IInv, TypeOK
  <2> QED
    BY <2>1, <2>2, <2>3
<1>2. StrictTotalOrder(DOMAIN shards, ByAge)
  BY <1>1 DEF StrictTotalOrder, ByAge, ListedBefore
<1>3. Listed = First(DOMAIN shards, ByAge, MaxShards)
  <2>1. Fetched = DOMAIN shards
    BY AllFetched
  <2>2. ASSUME NEW s \in DOMAIN shards
        PROVE  {r \in DOMAIN shards : ListedBefore(r, s)} = Before(DOMAIN shards, ByAge, s)
    BY DEF Before, ByAge
  <2> QED
    BY <2>1, <2>2 DEF Listed, Top, First
<1>4. <<m, n>> \in ByAge
  BY <1>1, <1>2, <1>3, NotFirst, LimitsAssumption
<1> QED
  BY <1>1, <1>4 DEF ByAge, ListedBefore

\* A run that a database gives up has as many newer ones as there is room for.
LEMMA RecordsNewest ==
    ASSUME WindowInv, NEW n \in DOMAIN shards, n \notin Legacy,
           NEW t \in shards[n].runs, [shard |-> n, at |-> t] \notin Records(n)
    PROVE  /\ IsFiniteSet(Records(n)) /\ Cardinality(Records(n)) = Limit
           /\ \A r \in Records(n) : r.at > t
<1> DEFINE S == shards[n].runs
           kept == Top(S, Limit, >)
           R == Newest(S)
<1>1. IsFiniteSet(S) /\ S \subseteq Nat
  <2>1. S \in SUBSET (0..clock) /\ clock \in Nat
    BY DEF WindowInv, IInv, TypeOK
  <2>2. IsFiniteSet(0..clock)
    BY <2>1, FS_Interval
  <2> QED
    BY <2>1, <2>2, FS_Subset
<1>2. StrictTotalOrder(S, R)
  BY <1>1 DEF StrictTotalOrder, Newest
<1>3. kept = First(S, R, Limit)
  <2>1. ASSUME NEW s \in S PROVE {r \in S : r > s} = Before(S, R, s)
    BY DEF Before, Newest
  <2> QED
    BY <2>1 DEF Top, First
<1>4. Records(n) = {[shard |-> n, at |-> u] : u \in kept}
  BY DEF Records
<1>5. t \notin First(S, R, Limit)
  BY <1>3, <1>4
<1>6. /\ Cardinality(kept) = Limit
      /\ \A u \in kept : <<u, t>> \in R
      /\ IsFiniteSet(kept)
  <2> HIDE DEF S, R, kept
  <2>1. t \in S
    BY DEF S
  <2>2. /\ Limit <= Cardinality(S)
        /\ Cardinality(First(S, R, Limit)) = Limit
        /\ \A u \in First(S, R, Limit) : <<u, t>> \in R
    BY <1>1, <1>2, <1>5, <2>1, NotFirst, LimitsAssumption
  <2>3. IsFiniteSet(First(S, R, Limit))
    BY <1>1, <1>2, <2>2, FirstFull, LimitsAssumption
  <2> QED
    BY <1>3, <2>2, <2>3
<1>7. IsFiniteSet(Records(n)) /\ Cardinality(Records(n)) = Limit
  <2> DEFINE f == [u \in kept |-> [shard |-> n, at |-> u]]
  <2> HIDE DEF kept
  <2>1. f \in [kept -> Records(n)]
    BY <1>4
  <2>2. \A a, b \in kept : f[a] = f[b] => a = b
    <3> SUFFICES ASSUME NEW a \in kept, NEW b \in kept, f[a] = f[b] PROVE a = b
      OBVIOUS
    <3>1. f[a].at = a /\ f[b].at = b
      OBVIOUS
    <3> QED
      BY <3>1
  <2>3. \A r \in Records(n) : \E a \in kept : f[a] = r
    BY <1>4
  <2> HIDE DEF f
  <2>4. f \in Surjection(kept, Records(n)) /\ f \in Injection(kept, Records(n))
    BY <2>1, <2>2, <2>3, Fun_IsSurj, Fun_IsInj
  <2> QED
    BY <2>4, <1>6, FS_Surjection
<1>8. ASSUME NEW r \in Records(n) PROVE r.at > t
  <2>1. PICK u \in kept : r = [shard |-> n, at |-> u]
    BY <1>4, <1>8, Zenon
  <2>2. <<u, t>> \in R
    BY <1>6, <2>1
  <2>3. u > t
    BY <2>2 DEF Newest
  <2> QED
    BY <2>1, <2>3
<1> QED
  BY <1>7, <1>8

\* The merged records are finitely many and in a strict total order.
LEMMA MergedOrder ==
    ASSUME WindowInv, NEW readable \in SUBSET DOMAIN shards
    PROVE  /\ IsFiniteSet(Readable(readable))
           /\ StrictTotalOrder(Readable(readable), ByTime(Readable(readable)))
           /\ \A q \in Readable(readable) : q.at \in 0..clock /\ q.shard \in DOMAIN shards
           /\ Window(readable)
                = First(Readable(readable), ByTime(Readable(readable)), Limit)
<1> DEFINE U == Readable(readable)
<1>1. ASSUME NEW q \in U
      PROVE  /\ q.at \in 0..clock /\ q.shard \in DOMAIN shards
             /\ q = [shard |-> q.shard, at |-> q.at]
  <2>1. PICK n \in Listed \cap readable : q \in Records(n)
    BY DEF Readable
  <2>2. n \in DOMAIN shards
    BY <2>1
  <2>3. shards[n].runs \in SUBSET (0..clock)
    BY <2>2 DEF WindowInv, IInv, TypeOK
  <2>4. PICK t \in Top(shards[n].runs, Limit, >) : q = [shard |-> n, at |-> t]
    BY <2>1 DEF Records
  <2>5. t \in 0..clock
    BY <2>3, <2>4 DEF Top
  <2> QED
    BY <2>2, <2>4, <2>5
<1>2. IsFiniteSet(U)
  <2> DEFINE f == [q \in U |-> <<q.shard, q.at>>]
             T == (DOMAIN shards) \X (0..clock)
  <2>1. IsFiniteSet(T)
    <3>1. IsFiniteSet(DOMAIN shards) /\ clock \in Nat
      BY DEF WindowInv, IInv, TypeOK
    <3>2. IsFiniteSet(0..clock)
      BY <3>1, FS_Interval
    <3> QED
      BY <3>1, <3>2, FS_Product
  <2>2. f \in [U -> T]
    BY <1>1
  <2>3. ASSUME NEW a \in U, NEW b \in U, f[a] = f[b] PROVE a = b
    <3>1. <<a.shard, a.at>> = <<b.shard, b.at>>
      BY <2>3
    <3>2. a.shard = b.shard /\ a.at = b.at
      BY <3>1
    <3> QED
      BY <3>2, <1>1
  <2> HIDE DEF f, U, T
  <2>4. f \in Injection(U, T)
    BY <2>2, <2>3, Fun_IsInj
  <2> QED
    BY <2>1, <2>4, FS_Injection
<1>3. StrictTotalOrder(U, ByTime(U))
  <2>1. /\ DOMAIN shards \subseteq Nat
        /\ \A k \in DOMAIN shards : shards[k].updated \in Nat
        /\ clock \in Nat
    <3>1. DOMAIN shards \subseteq Names /\ clock \in Nat
      BY DEF WindowInv, IInv, TypeOK
    <3>2. \A k \in DOMAIN shards : shards[k].updated \in Nat
      BY DEF WindowInv, IInv, TypeOK
    <3> QED
      BY <3>1, <3>2, NamesAssumption
  <2>2. \A q \in U : q.at \in Nat /\ q.shard \in DOMAIN shards /\ q.shard \in Nat
    BY <1>1, <2>1
  <2>3. \A x \in U : <<x, x>> \notin ByTime(U)
    BY <2>2 DEF ByTime, MergedBefore
  <2>4. ASSUME NEW x \in U, NEW y \in U, NEW z \in U,
               MergedBefore(x, y), MergedBefore(y, z)
        PROVE  MergedBefore(x, z)
    BY <2>1, <2>2, <2>4 DEF MergedBefore, ListedBefore
  <2>5. ASSUME NEW x \in U, NEW y \in U
        PROVE  x = y \/ MergedBefore(x, y) \/ MergedBefore(y, x)
    <3>1. x.shard = y.shard /\ x.at = y.at => x = y
      BY <1>1
    <3> QED
      BY <2>1, <2>2, <3>1 DEF MergedBefore, ListedBefore
  <2> HIDE DEF U
  <2>6. \A x, y \in U : <<x, y>> \in ByTime(U) <=> MergedBefore(x, y)
    BY DEF ByTime
  <2> QED
    BY <2>3, <2>4, <2>5, <2>6 DEF StrictTotalOrder
<1>4. Window(readable) = First(U, ByTime(U), Limit)
  <2>1. Window(readable) = {s \in U : Cardinality({r \in U : MergedBefore(r, s)}) < Limit}
    BY DEF Window, Top, Readable
  <2> HIDE DEF U
  <2>2. ASSUME NEW s \in U PROVE {r \in U : MergedBefore(r, s)} = Before(U, ByTime(U), s)
    BY DEF Before, ByTime
  <2> QED
    BY <2>1, <2>2 DEF First
<1> QED
  BY <1>1, <1>2, <1>3, <1>4

\* A run of a listed database is left out only for a window of runs as new.
LEMMA WindowFull ==
    ASSUME WindowInv, NEW readable \in SUBSET DOMAIN shards,
           NEW n \in readable, n \in Listed, n \notin Legacy,
           NEW t \in shards[n].runs,
           [shard |-> n, at |-> t] \notin Window(readable)
    PROVE  /\ Cardinality(Window(readable)) = Limit
           /\ \A r \in Window(readable) : r.at >= t
<1> DEFINE U == Readable(readable)
           q == [shard |-> n, at |-> t]
<1>1. /\ IsFiniteSet(U) /\ StrictTotalOrder(U, ByTime(U))
      /\ Window(readable) = First(U, ByTime(U), Limit)
      /\ \A r \in U : r.at \in Nat
  BY MergedOrder DEF WindowInv, IInv, TypeOK
<1>2. Records(n) \subseteq U
  BY DEF Readable
<1>3. t \in Nat /\ Limit \in Nat
  BY LimitsAssumption DEF WindowInv, IInv, TypeOK
<1>4. CASE q \in U
  <2>1. /\ Cardinality(First(U, ByTime(U), Limit)) = Limit
        /\ \A r \in First(U, ByTime(U), Limit) : <<r, q>> \in ByTime(U)
    <3> HIDE DEF U, q
    <3>1. q \notin First(U, ByTime(U), Limit)
      BY <1>1 DEF q
    <3> QED
      BY <1>1, <1>3, <1>4, <3>1, NotFirst
  <2>2. ASSUME NEW r \in Window(readable) PROVE r.at >= t
    <3>1. <<r, q>> \in ByTime(U) /\ r \in U
      BY <1>1, <2>1 DEF First
    <3>2. r.at > q.at \/ r.at = q.at
      BY <3>1 DEF ByTime, MergedBefore
    <3> QED
      BY <1>1, <1>3, <3>1, <3>2
  <2> QED
    BY <1>1, <2>1, <2>2
<1>5. CASE q \notin U
  <2>1. q \notin Records(n)
    BY <1>2, <1>5
  <2>2. /\ IsFiniteSet(Records(n)) /\ Cardinality(Records(n)) = Limit
        /\ \A r \in Records(n) : r.at > t
    BY <2>1, RecordsNewest
  <2>3. Cardinality(Records(n)) <= Cardinality(U)
    BY <1>1, <1>2, FS_Subset
  <2>4. Cardinality(First(U, ByTime(U), Limit)) = Limit
    <3> HIDE DEF U
    <3>1. Limit <= Cardinality(U)
      BY <2>2, <2>3
    <3> QED
      BY <1>1, <1>3, <3>1, FirstFull
  <2>5. ASSUME NEW r \in Window(readable) PROVE r.at >= t
    <3>1. r \in U /\ Cardinality(Before(U, ByTime(U), r)) < Limit
      BY <1>1 DEF First
    <3>2. ASSUME r.at < t PROVE FALSE
      <4>1. ASSUME NEW p \in Records(n) PROVE p \in Before(U, ByTime(U), r)
        <5>1. p \in U /\ p.at > r.at
          BY <1>1, <1>2, <1>3, <2>2, <3>1, <3>2
        <5> HIDE DEF U
        <5> QED
          BY <3>1, <5>1 DEF Before, ByTime, MergedBefore
      <4>2. /\ IsFiniteSet(Before(U, ByTime(U), r))
            /\ Cardinality(Before(U, ByTime(U), r)) \in Nat
        <5> HIDE DEF U
        <5> QED
          BY <1>1, <3>1, BeforeFinite
      <4>3. Cardinality(Records(n)) <= Cardinality(Before(U, ByTime(U), r))
        BY <4>1, <4>2, FS_Subset
      <4> QED
        BY <4>2, <4>3, <2>2, <3>1, <1>3
    <3> QED
      BY <1>1, <1>3, <3>1, <3>2
  <2> QED
    BY <1>1, <2>4, <2>5
<1> QED
  BY <1>4, <1>5

\* Whichever shards the monitor can read, what it scores are the newest runs of
\* what it listed, and what it did not list was written before.
THEOREM WindowHoldsTheNewest == Spec => []WindowIsNewest
<1>1. WindowInv => WindowIsNewest
  <2> SUFFICES ASSUME WindowInv, Cardinality(DOMAIN shards) <= 4 * MaxShards,
                      NEW readable \in SUBSET DOMAIN shards,
                      NEW n \in readable \ Legacy, NEW t \in 0..clock,
                      t \in shards[n].runs,
                      [shard |-> n, at |-> t] \notin Window(readable)
               PROVE  IF n \in Listed
                        THEN /\ Cardinality(Window(readable)) = Limit
                             /\ \A r \in Window(readable) : r.at >= t
                        ELSE \A m \in Listed : shards[m].updated >= t
    BY DEF WindowIsNewest
  <2>1. CASE n \in Listed
    BY <2>1, WindowFull
  <2>2. CASE n \notin Listed
    <3> SUFFICES ASSUME NEW m \in Listed PROVE shards[m].updated >= t
      BY <2>2
    <3>1. shards[m].updated >= shards[n].updated
      BY <2>2, ListedNewest
    <3>2. t <= shards[n].updated
      BY DEF WindowInv
    <3>3. m \in DOMAIN shards
      BY DEF Listed, Fetched, Top
    <3>4. shards[m].updated \in Nat /\ shards[n].updated \in Nat /\ t \in Nat
      BY <3>3 DEF WindowInv, IInv, TypeOK
    <3> QED
      BY <3>1, <3>2, <3>4
  <2> QED
    BY <2>1, <2>2
<1>2. IInv /\ [Next]_vars => IInv'
  BY TypeStep, OneWriterStep DEF IInv
<1>3. WindowInv => IInv
  BY DEF WindowInv
<1> QED
  BY <1>1, <1>2, <1>3, WindowInvInit, WindowInvStep, PTL DEF Spec
=============================================================================
