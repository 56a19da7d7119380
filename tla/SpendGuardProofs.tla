--------------------------- MODULE SpendGuardProofs ---------------------------
(***************************************************************************)
(* Proofs about SpendGuard, for any number of threads, budget and costs.   *)
(***************************************************************************)
EXTENDS SpendGuard, FiniteSetTheorems, TLAPS

\* The counters stay naturals, the window never starts in the future, and a
\* 429 never announces a negative wait.
THEOREM TypeCorrect == Spec => []TypeOK
<1> USE MoneyAssumption, TimeAssumption
<1>1. Init => TypeOK
  BY DEF Init, TypeOK, NoRequest, Request, NoRefusal, Refusal
<1>2. TypeOK /\ [Next]_vars => TypeOK'
  <2> SUFFICES ASSUME TypeOK, [Next]_vars PROVE TypeOK'
    OBVIOUS
  <2>a. NoRequest \in Request
    BY DEF NoRequest, Request
  <2>b. Roll => /\ window_started' \in 0..clock
                /\ billed' \in Nat
                /\ lost' \in Nat
                /\ clock - window_started' < Window
    BY DEF Roll, WindowOver, TypeOK
  <2>c. SpentNow \in Nat
    BY DEF SpentNow, TypeOK
  <2>1. CASE UNCHANGED vars
    BY <2>1 DEF vars, TypeOK
  <2>2. CASE Tick
    BY <2>2 DEF Tick, TypeOK
  <2>3. CASE Ready
    BY <2>3, <2>b, <2>c DEF Ready, TypeOK
  <2>4. ASSUME NEW t \in Threads, NEW kind \in {"ingest", "query"}, Check(t, kind)
        PROVE TypeOK'
    <3>1. [pc |-> "admitted", kind |-> kind, owed |-> 0] \in Request
      BY DEF Request
    <3> QED
      BY <2>4, <3>1, <2>b, <2>c DEF Check, TypeOK
  <2>5. ASSUME NEW t \in Threads, Refuse(t) PROVE TypeOK'
    <3>1. SecondsLeft(window_started') \in Nat
      BY <2>5, <2>b DEF Refuse, SecondsLeft, TypeOK
    <3>2. [at |-> clock, told |-> SecondsLeft(window_started'),
           window |-> window_started'] \in Refusal
      BY <2>5, <3>1, <2>b DEF Refuse, Refusal, TypeOK
    <3>3. refusal' \in [Threads -> Refusal]
      BY <2>5, <3>2 DEF Refuse, TypeOK
    <3> QED
      BY <2>5, <3>3, <2>b, <2>c DEF Refuse, TypeOK
  <2>6. ASSUME NEW t \in Threads, NEW cost \in 0..MaxEmbedCost, Embed(t, cost)
        PROVE TypeOK'
    <3>1. request' \in [Threads -> Request]
      <4>1. request[t] \in Request /\ cost \in Nat
        BY DEF TypeOK
      <4>2. [request[t] EXCEPT !.pc = "embedded", !.owed = cost] \in Request
        BY <4>1 DEF Request
      <4> QED
        BY <2>6, <4>2 DEF Embed, TypeOK
    <3>2. billed' \in Nat
      BY <2>6 DEF Embed, TypeOK
    <3> QED
      BY <2>6, <3>1, <3>2 DEF Embed, TypeOK
  <2>7. ASSUME NEW t \in Threads, NEW cost \in 0..MaxChatCost, Chat(t, cost)
        PROVE TypeOK'
    <3>1. request' \in [Threads -> Request]
      <4>1. request[t] \in Request /\ cost \in Nat
        BY DEF TypeOK
      <4>2. request[t].owed + cost \in Nat
        BY <4>1 DEF Request
      <4>3. [request[t] EXCEPT !.pc = "answered", !.owed = @ + cost] \in Request
        BY <4>1, <4>2 DEF Request
      <4> QED
        BY <2>7, <4>3 DEF Chat, TypeOK
    <3>2. billed' \in Nat
      BY <2>7 DEF Chat, TypeOK
    <3> QED
      BY <2>7, <3>1, <3>2 DEF Chat, TypeOK
  <2>8. ASSUME NEW t \in Threads, FailUnbilled(t) PROVE TypeOK'
    BY <2>8, <2>a DEF FailUnbilled, TypeOK
  <2>9. ASSUME NEW t \in Threads, FailBilled(t) PROVE TypeOK'
    BY <2>9, <2>a DEF FailBilled, TypeOK, Request
  <2>10. ASSUME NEW t \in Threads, Record(t) PROVE TypeOK'
    <3>1. request[t].owed \in Nat
      BY DEF TypeOK, Request
    <3> QED
      BY <2>10, <3>1, <2>a, <2>b, <2>c DEF Record, TypeOK
  <2> QED
    BY <2>1, <2>2, <2>3, <2>4, <2>5, <2>6, <2>7, <2>8, <2>9, <2>10 DEF Next
<1> QED
  BY <1>1, <1>2, PTL DEF Spec

-----------------------------------------------------------------------------
(* How far the ceiling can be overshot.                                    *)

\* What a request may still record: its cost so far is bounded by its phase.
OwedBounded ==
    \A t \in Threads :
        /\ request[t].pc = "embedded" => request[t].owed <= MaxEmbedCost
        /\ request[t].pc = "answered" => request[t].owed <= MaxCost

\* Every request in flight has a MaxCost set aside for it: an admission takes
\* one when the budget still has a unit left, a record spends one.
SetAside ==
    enabled => spent + Cardinality(InFlight) * MaxCost
                 <= Budget - 1 + Cardinality(Threads) * MaxCost

CeilingInv == TypeOK /\ OwedBounded /\ SetAside

LEMMA InFlightFinite ==
    /\ IsFiniteSet(InFlight)
    /\ Cardinality(InFlight) \in Nat
    /\ Cardinality(Threads) \in Nat
    /\ Cardinality(InFlight) <= Cardinality(Threads)
  BY ThreadAssumption, FS_Subset, FS_CardinalityType DEF InFlight

\* n requests fewer than m cost at most as much as m.
LEMMA CostMonotone ==
    ASSUME NEW m \in Nat, NEW n \in Nat, n <= m, NEW c \in Nat
    PROVE  n * c <= m * c
<1>1. PICK d \in Nat : m = n + d
  <2>1. m - n \in Nat /\ m = n + (m - n)
    OBVIOUS
  <2> QED
    BY <2>1
<1>2. m * c = n * c + d * c /\ d * c >= 0 /\ n * c \in Nat /\ d * c \in Nat
  BY <1>1
<1> QED
  BY <1>2

\* Below the ceiling there is something to set aside for every thread.
LEMMA BelowCeiling ==
    ASSUME NEW total \in Nat, total < Budget, NEW S \in SUBSET Threads
    PROVE  total + Cardinality(S) * MaxCost
             <= Budget - 1 + Cardinality(Threads) * MaxCost
<1>1. MaxCost \in Nat
  BY MoneyAssumption DEF MaxCost
<1>2. /\ Cardinality(S) \in Nat
      /\ Cardinality(Threads) \in Nat
      /\ Cardinality(S) <= Cardinality(Threads)
  BY ThreadAssumption, FS_Subset, FS_CardinalityType
<1>3. Cardinality(S) * MaxCost <= Cardinality(Threads) * MaxCost
  BY <1>1, <1>2, CostMonotone
<1>4. /\ Cardinality(S) * MaxCost \in Int
      /\ Cardinality(Threads) * MaxCost \in Int
  BY <1>1, <1>2
<1> QED
  BY <1>3, <1>4, MoneyAssumption

\* A request that ends frees what was set aside for it.
LEMMA EndFrees ==
    ASSUME TypeOK, NEW t \in Threads, request[t].pc # "idle",
           request' = [request EXCEPT ![t] = NoRequest]
    PROVE  /\ Cardinality(InFlight') = Cardinality(InFlight) - 1
           /\ Cardinality(InFlight') * MaxCost
                = Cardinality(InFlight) * MaxCost - MaxCost
           /\ Cardinality(InFlight) * MaxCost \in Int
           /\ Cardinality(Threads) * MaxCost \in Int
<1>1. InFlight' = InFlight \ {t}
  BY DEF InFlight, TypeOK, NoRequest
<1>2. t \in InFlight
  BY DEF InFlight
<1>3. Cardinality(InFlight') = Cardinality(InFlight) - 1
  BY <1>1, <1>2, InFlightFinite, FS_RemoveElement
<1>4. MaxCost \in Nat
  BY MoneyAssumption DEF MaxCost
<1>5. \A n, c \in Int : (n - 1) * c = n * c - c /\ n * c \in Int
  OBVIOUS
<1> QED
  BY <1>3, <1>4, <1>5, InFlightFinite

LEMMA CeilingStep == CeilingInv /\ TypeOK' /\ [Next]_vars => CeilingInv'
<1> SUFFICES ASSUME CeilingInv, TypeOK', [Next]_vars PROVE OwedBounded' /\ SetAside'
  BY DEF CeilingInv
<1> USE MoneyAssumption, TimeAssumption
<1>a. TypeOK /\ OwedBounded /\ SetAside
  BY DEF CeilingInv
<1>b. MaxCost \in Nat /\ MaxEmbedCost <= MaxCost
  BY DEF MaxCost
<1>c. spent' \in Nat /\ InFlight' \in SUBSET Threads
  BY DEF TypeOK, InFlight
<1>1. CASE UNCHANGED vars \/ Tick
  BY <1>1, <1>a DEF vars, Tick, OwedBounded, SetAside, InFlight
<1>2. CASE Ready
  <2>1. OwedBounded'
    BY <1>2, <1>a DEF Ready, OwedBounded
  <2>2. CASE enabled
    <3>1. spent' < Budget
      BY <1>2, <2>2 DEF Ready, SpentNow, enabled
    <3> QED
      BY <2>1, <3>1, <1>c, BelowCeiling DEF SetAside
  <2>3. CASE ~enabled
    BY <2>1, <2>3 DEF SetAside, enabled
  <2> QED
    BY <2>2, <2>3
<1>3. ASSUME NEW t \in Threads, NEW kind \in {"ingest", "query"}, Check(t, kind)
      PROVE OwedBounded' /\ SetAside'
  <2>1. OwedBounded'
    BY <1>3, <1>a DEF Check, OwedBounded, TypeOK
  <2>2. CASE enabled
    <3>1. spent' < Budget
      BY <1>3, <2>2 DEF Check
    <3> QED
      BY <2>1, <3>1, <1>c, BelowCeiling DEF SetAside
  <2>3. CASE ~enabled
    BY <2>1, <2>3 DEF SetAside, enabled
  <2> QED
    BY <2>2, <2>3
<1>4. ASSUME NEW t \in Threads, Refuse(t) PROVE OwedBounded' /\ SetAside'
  \* A window that is over has nothing left to refuse for.
  <2>1. spent' = spent /\ request' = request
    BY <1>4, <1>a DEF Refuse, SpentNow, enabled
  <2> QED
    BY <2>1, <1>a DEF OwedBounded, SetAside, InFlight
<1>5. ASSUME NEW t \in Threads, NEW cost \in 0..MaxEmbedCost, Embed(t, cost)
      PROVE OwedBounded' /\ SetAside'
  <2>1. OwedBounded'
    BY <1>5, <1>a DEF Embed, OwedBounded, TypeOK, Request
  <2>2. InFlight' = InFlight /\ spent' = spent
    BY <1>5, <1>a DEF Embed, InFlight, TypeOK, Request
  <2> QED
    BY <2>1, <2>2, <1>a DEF SetAside
<1>6. ASSUME NEW t \in Threads, NEW cost \in 0..MaxChatCost, Chat(t, cost)
      PROVE OwedBounded' /\ SetAside'
  <2>1. OwedBounded'
    BY <1>6, <1>a DEF Chat, OwedBounded, TypeOK, Request, MaxCost
  <2>2. InFlight' = InFlight /\ spent' = spent
    BY <1>6, <1>a DEF Chat, InFlight, TypeOK, Request
  <2> QED
    BY <2>1, <2>2, <1>a DEF SetAside
<1>7. ASSUME NEW t \in Threads, FailUnbilled(t) \/ FailBilled(t)
      PROVE OwedBounded' /\ SetAside'
  <2>1. /\ request' = [request EXCEPT ![t] = NoRequest]
        /\ request[t].pc # "idle"
        /\ spent' = spent
    BY <1>7 DEF FailUnbilled, FailBilled
  <2>2. OwedBounded'
    BY <2>1, <1>a DEF OwedBounded, NoRequest, TypeOK
  <2>3. SetAside'
    <3>1. /\ Cardinality(InFlight') * MaxCost
               = Cardinality(InFlight) * MaxCost - MaxCost
          /\ Cardinality(InFlight) * MaxCost \in Int
          /\ Cardinality(Threads) * MaxCost \in Int
      BY <2>1, <1>a, EndFrees
    <3> QED
      BY <2>1, <3>1, <1>a, <1>b DEF SetAside, TypeOK
  <2> QED
    BY <2>2, <2>3
<1>8. ASSUME NEW t \in Threads, Record(t) PROVE OwedBounded' /\ SetAside'
  <2>1. /\ request' = [request EXCEPT ![t] = NoRequest]
        /\ request[t].pc \in {"embedded", "answered"}
        /\ enabled => spent' <= spent + request[t].owed
    BY <1>8, <1>a DEF Record, SpentNow, TypeOK, Request
  <2>2. OwedBounded'
    BY <2>1, <1>a DEF OwedBounded, NoRequest, TypeOK
  <2>3. request[t].owed \in 0..MaxCost
    BY <2>1, <1>a, <1>b DEF OwedBounded, TypeOK, Request
  <2>4. SetAside'
    <3>1. /\ Cardinality(InFlight') * MaxCost
               = Cardinality(InFlight) * MaxCost - MaxCost
          /\ Cardinality(InFlight) * MaxCost \in Int
          /\ Cardinality(Threads) * MaxCost \in Int
      BY <2>1, <1>a, EndFrees
    <3> QED
      BY <2>1, <2>3, <3>1, <1>a, <1>b, <1>c DEF SetAside, TypeOK
  <2> QED
    BY <2>2, <2>4
<1> QED
  BY <1>1, <1>2, <1>3, <1>4, <1>5, <1>6, <1>7, <1>8 DEF Next

LEMMA CeilingInit == Init => CeilingInv
<1>1. Init => TypeOK /\ OwedBounded
  BY MoneyAssumption, TimeAssumption DEF Init, TypeOK, NoRequest, Request, NoRefusal,
     Refusal, OwedBounded
<1>2. Init => SetAside
  <2>1. InFlight \in SUBSET Threads
    BY DEF InFlight
  <2> QED
    BY <2>1, BelowCeiling, MoneyAssumption DEF Init, SetAside, enabled
<1> QED
  BY <1>1, <1>2 DEF CeilingInv

\* What a window records never exceeds the budget by more than the cost of one
\* request per thread, whatever the threads interleave and wherever the window
\* rolls.
THEOREM CeilingOvershoot == Spec => []RecordedBounded
<1>1. CeilingInv => RecordedBounded
  <2> SUFFICES ASSUME CeilingInv PROVE RecordedBounded
    OBVIOUS
  <2>1. \A n, c \in Nat : n * c \in Nat
    OBVIOUS
  <2>2. /\ Cardinality(InFlight) * MaxCost \in Nat
        /\ Cardinality(Threads) * MaxCost \in Nat
    BY <2>1, InFlightFinite, MoneyAssumption DEF MaxCost
  <2> QED
    BY <2>2, MoneyAssumption DEF CeilingInv, SetAside, RecordedBounded, TypeOK
<1> QED
  BY <1>1, CeilingInit, CeilingStep, TypeCorrect, PTL DEF Spec

-----------------------------------------------------------------------------
(* The same bound on what is billed.  The costs that no record counts yet  *)
(* are summed over the threads by counting their units.                    *)

\* The units of the sum of a function of the threads.
Units(f) == {u \in Threads \X (1..MaxCost) : u[2] <= f[u[1]]}

Owed == [t \in Threads |-> request[t].owed]

\* What was billed in this window is recorded, owed or lost; some of what is
\* owed or recorded may have been billed in the window before.
BilledCovered == enabled => billed <= spent + lost + Cardinality(Units(Owed))

OwedOnceCalled ==
    \A t \in Threads : request[t].pc \in {"idle", "admitted"} => request[t].owed = 0

BilledInv == CeilingInv /\ OwedOnceCalled /\ BilledCovered

LEMMA UnitsFinite ==
    ASSUME NEW f
    PROVE  IsFiniteSet(Units(f)) /\ Cardinality(Units(f)) \in Nat
<1>1. IsFiniteSet(1..MaxCost)
  BY MoneyAssumption, FS_Interval DEF MaxCost
<1>2. IsFiniteSet(Threads \X (1..MaxCost))
  BY <1>1, ThreadAssumption, FS_Product
<1>3. Units(f) \in SUBSET (Threads \X (1..MaxCost))
  BY DEF Units
<1> QED
  BY <1>2, <1>3, FS_Subset, FS_CardinalityType

\* The units of one thread count its value.
LEMMA UnitsOfOne ==
    ASSUME NEW t \in Threads, NEW n \in Nat
    PROVE  IsFiniteSet({t} \X (1..n)) /\ Cardinality({t} \X (1..n)) = n
<1>1. IsFiniteSet({t}) /\ Cardinality({t}) = 1
  BY FS_Singleton
<1>2. IsFiniteSet(1..n) /\ Cardinality(1..n) = n
  BY FS_Interval
<1>3. Cardinality({t} \X (1..n)) = 1 * n
  BY <1>1, <1>2, FS_Product
<1> QED
  BY <1>1, <1>2, <1>3, FS_Product

\* A change of one summand changes the sum by as much.
LEMMA UnitsChange ==
    ASSUME NEW f \in [Threads -> 0..MaxCost], NEW g \in [Threads -> 0..MaxCost],
           NEW t \in Threads, \A u \in Threads \ {t} : g[u] = f[u]
    PROVE  Cardinality(Units(g)) = Cardinality(Units(f)) + g[t] - f[t]
<1> DEFINE Rest == {u \in Units(f) : u[1] # t}
<1>1. MaxCost \in Nat /\ f[t] \in 0..MaxCost /\ g[t] \in 0..MaxCost
  BY MoneyAssumption DEF MaxCost
<1>2. IsFiniteSet(Rest) /\ Cardinality(Rest) \in Nat
  <2>1. Rest \in SUBSET Units(f)
    OBVIOUS
  <2> QED
    BY <2>1, UnitsFinite, FS_Subset, FS_CardinalityType
<1>3. ASSUME NEW h \in [Threads -> 0..MaxCost], \A u \in Threads \ {t} : h[u] = f[u]
      PROVE  Cardinality(Units(h)) = Cardinality(Rest) + h[t]
  <2>1. h[t] \in Nat /\ h[t] <= MaxCost
    BY <1>1, <1>3
  <2>2. Units(h) = Rest \cup ({t} \X (1..h[t]))
    BY <1>1, <1>3, <2>1 DEF Units
  <2>3. Rest \cap ({t} \X (1..h[t])) = {}
    OBVIOUS
  <2>4. /\ IsFiniteSet({t} \X (1..h[t]))
        /\ Cardinality({t} \X (1..h[t])) = h[t]
    BY <2>1, UnitsOfOne
  <2>5. Cardinality(Rest \cup ({t} \X (1..h[t])))
          = Cardinality(Rest) + h[t] - Cardinality(Rest \cap ({t} \X (1..h[t])))
    BY <1>2, <2>4, FS_Union
  <2>6. Cardinality({}) = 0
    BY FS_EmptySet
  <2>7. Cardinality(Units(h)) = Cardinality(Rest) + h[t] - 0
    BY <2>2, <2>3, <2>5, <2>6, Zenon
  <2> HIDE DEF Rest
  <2> QED
    BY <1>2, <2>1, <2>7
<1>4. /\ Cardinality(Units(f)) = Cardinality(Rest) + f[t]
      /\ Cardinality(Units(g)) = Cardinality(Rest) + g[t]
  BY <1>3
<1> QED
  BY <1>1, <1>2, <1>4

\* What is owed is part of what is set aside.
LEMMA OwedIsSetAside ==
    ASSUME CeilingInv, OwedOnceCalled
    PROVE  /\ Owed \in [Threads -> 0..MaxCost]
           /\ Cardinality(Units(Owed)) <= Cardinality(InFlight) * MaxCost
<1>1. MaxCost \in Nat /\ MaxEmbedCost <= MaxCost /\ MaxEmbedCost \in Nat
  BY MoneyAssumption DEF MaxCost
<1>2. Owed \in [Threads -> 0..MaxCost]
  <2> SUFFICES ASSUME NEW t \in Threads PROVE request[t].owed \in 0..MaxCost
    BY DEF Owed
  <2>1. request[t] \in Request
    BY DEF CeilingInv, TypeOK
  <2> QED
    BY <1>1, <2>1 DEF CeilingInv, OwedBounded, OwedOnceCalled, Request
<1>3. Units(Owed) \in SUBSET (InFlight \X (1..MaxCost))
  BY <1>1 DEF Units, Owed, InFlight, OwedOnceCalled
<1>4. IsFiniteSet(1..MaxCost) /\ Cardinality(1..MaxCost) = MaxCost
  BY <1>1, FS_Interval
<1>5. /\ IsFiniteSet(InFlight \X (1..MaxCost))
      /\ Cardinality(InFlight \X (1..MaxCost)) = Cardinality(InFlight) * MaxCost
  BY <1>4, InFlightFinite, FS_Product
<1> QED
  BY <1>2, <1>3, <1>5, FS_Subset

\* One thread's request changes, and what it owes with it.
LEMMA OwedChange ==
    ASSUME CeilingInv, OwedOnceCalled, CeilingInv', OwedOnceCalled', NEW t \in Threads,
           \A u \in Threads \ {t} : request'[u] = request[u]
    PROVE  /\ Cardinality(Units(Owed)) \in Nat
           /\ Cardinality(Units(Owed)') \in Nat
           /\ Cardinality(Units(Owed)')
                = Cardinality(Units(Owed)) + request'[t].owed - request[t].owed
<1>1. Owed \in [Threads -> 0..MaxCost]
  BY OwedIsSetAside
<1>2. MaxCost \in Nat /\ MaxEmbedCost <= MaxCost /\ MaxEmbedCost \in Nat
  BY MoneyAssumption DEF MaxCost
<1>3. Owed' \in [Threads -> 0..MaxCost]
  <2> SUFFICES ASSUME NEW u \in Threads PROVE request'[u].owed \in 0..MaxCost
    BY DEF Owed
  <2>1. request'[u] \in Request
    BY DEF CeilingInv, TypeOK
  <2> QED
    BY <1>2, <2>1 DEF CeilingInv, OwedBounded, OwedOnceCalled, Request
<1>4. \A u \in Threads \ {t} : Owed'[u] = Owed[u]
  BY DEF Owed
<1>5. Cardinality(Units(Owed')) = Cardinality(Units(Owed)) + Owed'[t] - Owed[t]
  BY <1>1, <1>3, <1>4, UnitsChange
<1>6. Units(Owed)' = Units(Owed')
  BY DEF Units, MaxCost
<1>7. Cardinality(Units(Owed)) \in Nat /\ Cardinality(Units(Owed')) \in Nat
  BY UnitsFinite
<1>8. Owed'[t] = request'[t].owed /\ Owed[t] = request[t].owed
  BY DEF Owed
<1> QED
  BY <1>5, <1>6, <1>7, <1>8

LEMMA BilledStep == BilledInv /\ CeilingInv' /\ [Next]_vars => BilledInv'
<1> SUFFICES ASSUME BilledInv, CeilingInv', [Next]_vars
             PROVE  OwedOnceCalled' /\ BilledCovered'
  BY DEF BilledInv
<1>a. CeilingInv /\ OwedOnceCalled /\ BilledCovered /\ TypeOK /\ TypeOK'
  BY DEF BilledInv, CeilingInv
<1>b. /\ Cardinality(Units(Owed)) \in Nat
      /\ Cardinality(Units(Owed)') \in Nat
  BY UnitsFinite DEF Units
<1>c. Roll /\ spent' = SpentNow =>
        \/ billed' = 0
        \/ billed' = billed /\ lost' = lost /\ spent' = spent
  BY DEF Roll, SpentNow
<1>d. spent \in Nat /\ lost \in Nat /\ billed \in Nat
      /\ spent' \in Nat /\ lost' \in Nat /\ billed' \in Nat
  BY <1>a DEF TypeOK
<1>1. CASE UNCHANGED vars \/ Tick
  BY <1>1, <1>a DEF vars, Tick, OwedOnceCalled, BilledCovered, Units, Owed
<1>2. CASE Ready \/ \E t \in Threads : Refuse(t)
  <2>1. Roll /\ spent' = SpentNow /\ request' = request
    BY <1>2 DEF Ready, Refuse
  <2>2. Units(Owed)' = Units(Owed)
    BY <2>1 DEF Units, Owed
  <2> QED
    BY <2>1, <2>2, <1>a, <1>b, <1>c, <1>d DEF OwedOnceCalled, BilledCovered
<1>3. ASSUME NEW t \in Threads, NEW kind \in {"ingest", "query"}, Check(t, kind)
      PROVE  OwedOnceCalled' /\ BilledCovered'
  <2>1. /\ request[t].owed = 0 /\ request'[t].owed = 0
        /\ \A u \in Threads \ {t} : request'[u] = request[u]
    BY <1>3, <1>a DEF Check, OwedOnceCalled, TypeOK
  <2>2. OwedOnceCalled'
    BY <1>3, <2>1, <1>a DEF OwedOnceCalled
  <2>3. Cardinality(Units(Owed)') = Cardinality(Units(Owed)) + 0 - 0
    BY <2>1, <2>2, <1>a, OwedChange
  <2>4. enabled => Roll /\ spent' = SpentNow
    BY <1>3 DEF Check
  <2> QED
    BY <2>2, <2>3, <2>4, <1>a, <1>b, <1>c, <1>d DEF BilledCovered, enabled
<1>4. ASSUME NEW t \in Threads, NEW cost \in 0..MaxEmbedCost, Embed(t, cost)
      PROVE  OwedOnceCalled' /\ BilledCovered'
  <2>1. /\ request[t].owed = 0 /\ request'[t].owed = cost
        /\ \A u \in Threads \ {t} : request'[u] = request[u]
    BY <1>4, <1>a DEF Embed, OwedOnceCalled, TypeOK, Request
  <2>2. request'[t].pc = "embedded"
    BY <1>4, <1>a DEF Embed, TypeOK, Request
  <2>3. OwedOnceCalled'
    BY <2>1, <2>2, <1>a DEF OwedOnceCalled
  <2>4. Cardinality(Units(Owed)') = Cardinality(Units(Owed)) + cost - 0
    BY <2>1, <2>3, <1>a, OwedChange
  <2>5. cost \in Nat
    BY MoneyAssumption
  <2> QED
    BY <1>4, <2>3, <2>4, <2>5, <1>a, <1>b, <1>d DEF Embed, BilledCovered, enabled
<1>5. ASSUME NEW t \in Threads, NEW cost \in 0..MaxChatCost, Chat(t, cost)
      PROVE  OwedOnceCalled' /\ BilledCovered'
  <2>1. /\ request[t].owed \in Nat /\ request'[t].owed = request[t].owed + cost
        /\ \A u \in Threads \ {t} : request'[u] = request[u]
    BY <1>5, <1>a DEF Chat, TypeOK, Request
  <2>2. request'[t].pc = "answered"
    BY <1>5, <1>a DEF Chat, TypeOK, Request
  <2>3. OwedOnceCalled'
    BY <2>1, <2>2, <1>a DEF OwedOnceCalled
  <2>4. Cardinality(Units(Owed)')
          = Cardinality(Units(Owed)) + (request[t].owed + cost) - request[t].owed
    BY <2>1, <2>3, <1>a, OwedChange
  <2>5. cost \in Nat
    BY MoneyAssumption
  <2> QED
    BY <1>5, <2>1, <2>3, <2>4, <2>5, <1>a, <1>b, <1>d DEF Chat, BilledCovered, enabled
<1>6. ASSUME NEW t \in Threads, FailUnbilled(t) \/ FailBilled(t) \/ Record(t)
      PROVE  OwedOnceCalled' /\ BilledCovered'
  <2>1. /\ request[t].owed \in Nat /\ request'[t] = NoRequest
        /\ \A u \in Threads \ {t} : request'[u] = request[u]
    BY <1>6, <1>a DEF FailUnbilled, FailBilled, Record, TypeOK, Request
  <2>2. OwedOnceCalled'
    BY <2>1, <1>a DEF OwedOnceCalled, NoRequest
  <2>3. Cardinality(Units(Owed)') = Cardinality(Units(Owed)) + 0 - request[t].owed
    BY <2>1, <2>2, <1>a, OwedChange DEF NoRequest
  <2>4. CASE FailUnbilled(t)
    <3>1. request[t].owed = 0
      BY <2>4, <1>a DEF FailUnbilled, OwedOnceCalled
    <3> QED
      BY <2>4, <3>1, <2>2, <2>3, <1>a, <1>b, <1>d
         DEF FailUnbilled, BilledCovered, enabled
  <2>5. CASE FailBilled(t)
    BY <2>5, <2>1, <2>2, <2>3, <1>a, <1>b, <1>d DEF FailBilled, BilledCovered, enabled
  <2>6. CASE Record(t)
    <3>1. CASE enabled /\ request[t].owed > 0
      <4>1. Roll /\ spent' = SpentNow + request[t].owed
        BY <2>6, <3>1 DEF Record
      <4>2. \/ billed' = 0
            \/ billed' = billed /\ lost' = lost /\ spent' = spent + request[t].owed
        BY <4>1 DEF Roll, SpentNow
      <4> QED
        BY <4>2, <2>1, <2>2, <2>3, <1>a, <1>b, <1>d DEF BilledCovered, enabled
    <3>2. CASE ~(enabled /\ request[t].owed > 0)
      <4>1. UNCHANGED <<spent, billed, lost>> /\ (enabled => request[t].owed = 0)
        BY <2>6, <3>2, <2>1 DEF Record
      <4> QED
        BY <4>1, <2>2, <2>3, <1>a, <1>b, <1>d DEF BilledCovered, enabled
    <3> QED
      BY <3>1, <3>2
  <2> QED
    BY <1>6, <2>4, <2>5, <2>6
<1> QED
  BY <1>1, <1>2, <1>3, <1>4, <1>5, <1>6 DEF Next

\* OpenAI never bills more in a window than the budget, one request per thread
\* and what failed requests had spent: no money slips between the window that
\* admitted a request and the one that records it.
THEOREM BillingOvershoot == Spec => []BilledBounded
<1>1. Init => OwedOnceCalled /\ BilledCovered
  <2> SUFFICES ASSUME Init PROVE OwedOnceCalled /\ BilledCovered
    OBVIOUS
  <2>1. Cardinality(Units(Owed)) \in Nat
    BY UnitsFinite
  <2> QED
    BY <2>1 DEF Init, OwedOnceCalled, BilledCovered, NoRequest
<1>2. BilledInv => BilledBounded
  <2> SUFFICES ASSUME BilledInv PROVE BilledBounded
    OBVIOUS
  <2>1. Cardinality(Units(Owed)) <= Cardinality(InFlight) * MaxCost
    BY OwedIsSetAside DEF BilledInv
  <2>2. \A n, c \in Nat : n * c \in Nat
    OBVIOUS
  <2>3. /\ Cardinality(InFlight) * MaxCost \in Nat
        /\ Cardinality(Threads) * MaxCost \in Nat
    BY <2>2, InFlightFinite, MoneyAssumption DEF MaxCost
  <2>4. Cardinality(Units(Owed)) \in Nat
    BY UnitsFinite
  <2>5. /\ enabled => billed <= spent + lost + Cardinality(Units(Owed))
        /\ enabled => spent + Cardinality(InFlight) * MaxCost
                        <= Budget - 1 + Cardinality(Threads) * MaxCost
        /\ spent \in Nat /\ lost \in Nat /\ billed \in Nat
    BY DEF BilledInv, BilledCovered, CeilingInv, SetAside, TypeOK
  <2> QED
    BY <2>1, <2>3, <2>4, <2>5, MoneyAssumption DEF BilledBounded
<1> QED
  BY <1>1, <1>2, CeilingInit, CeilingStep, BilledStep, TypeCorrect, PTL DEF Spec, BilledInv

-----------------------------------------------------------------------------
(* What a 429 promises.                                                    *)

\* A refusal never announces the end of its window more than a second early,
\* and the guard never goes back to an older window.
RefusalInv ==
    \A t \in Threads :
        /\ window_started >= refusal[t].window
        /\ refusal[t].at + 2 * (refusal[t].told + 1) >= refusal[t].window + Window

\* A client that waits what the 429 told it, and one second more, is not held
\* to the window that refused it.
THEOREM RefusalsAreHonest == Spec => []RefusalEndsWithItsWindow
<1> USE TimeAssumption
<1>1. Init => RefusalInv
  BY DEF Init, RefusalInv, NoRefusal
<1>2. TypeOK /\ TypeOK' /\ RefusalInv /\ [Next]_vars => RefusalInv'
  <2> SUFFICES ASSUME TypeOK, TypeOK', RefusalInv, [Next]_vars PROVE RefusalInv'
    OBVIOUS
  <2>a. \A t \in Threads : /\ refusal[t].at \in Nat
                           /\ refusal[t].told \in Nat
                           /\ refusal[t].window \in Nat
    BY DEF TypeOK, Refusal
  <2>1. ASSUME NEW t \in Threads, Refuse(t) PROVE RefusalInv'
    <3>1. window_started' >= window_started /\ window_started' \in Nat
      BY <2>1 DEF Refuse, Roll, TypeOK
    <3>2. clock + 2 * (SecondsLeft(window_started') + 1) >= window_started' + Window
      BY <3>1 DEF SecondsLeft, TypeOK
    <3>3. ASSUME NEW u \in Threads
          PROVE  /\ window_started' >= refusal'[u].window
                 /\ refusal'[u].at + 2 * (refusal'[u].told + 1)
                      >= refusal'[u].window + Window
      <4>1. CASE u = t
        <5>1. refusal'[t] = [at |-> clock, told |-> SecondsLeft(window_started'),
                             window |-> window_started']
          BY <2>1 DEF Refuse, TypeOK
        <5> QED
          BY <5>1, <3>1, <3>2, <4>1
      <4>2. CASE u # t
        BY <2>1, <3>1, <4>2, <2>a DEF Refuse, RefusalInv, TypeOK
      <4> QED
        BY <4>1, <4>2
    <3> QED
      BY <3>3 DEF RefusalInv
  <2>2. CASE ~ \E t \in Threads : Refuse(t)
    <3>1. refusal' = refusal
      BY <2>2 DEF Next, vars, Tick, Ready, Check, Embed, Chat, FailUnbilled,
         FailBilled, Record
    <3>2. window_started' >= window_started
      <4>1. Roll => window_started' >= window_started
        BY DEF Roll, TypeOK
      <4>2. window_started' = window_started \/ Roll
        BY <2>2 DEF Next, vars, Tick, Ready, Check, Embed, Chat, FailUnbilled,
           FailBilled, Record
      <4> QED
        BY <4>1, <4>2 DEF TypeOK
    <3> QED
      BY <3>1, <3>2, <2>a DEF RefusalInv, TypeOK
  <2> QED
    BY <2>1, <2>2
<1>3. TypeOK /\ RefusalInv => RefusalEndsWithItsWindow
  BY DEF TypeOK, Refusal, RefusalInv, RefusalEndsWithItsWindow, WindowOver
<1> QED
  BY <1>1, <1>2, <1>3, TypeCorrect, PTL DEF Spec

=============================================================================
