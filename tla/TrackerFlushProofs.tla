-------------------------- MODULE TrackerFlushProofs --------------------------
(***************************************************************************)
(* What TrackerFlush guarantees for any number of threads and any          *)
(* threshold: the state keeps its types, no unsaved run is forgotten, and  *)
(* what a process may lose is bounded.                                     *)
(***************************************************************************)
EXTENDS TrackerFlush, FiniteSetTheorems, TLAPS

(***************************************************************************)
(* Sets of threads and their sizes.                                        *)
(***************************************************************************)

\* The threads at a step are finitely many, and no more than there are.
LEMMA AtFinite ==
    ASSUME NEW s
    PROVE  /\ IsFiniteSet(At(s))
           /\ Cardinality(At(s)) \in Nat
           /\ Cardinality(At(s)) <= Cardinality(Threads)
           /\ Cardinality(Threads) \in Nat
<1>1. At(s) \subseteq Threads
  BY DEF At
<1> QED
  BY <1>1, ThreadAssumption, FS_Subset, FS_CardinalityType

\* A thread that goes from one step to another leaves the first set, joins the
\* second, and no other set changes.
LEMMA MoveSets ==
    ASSUME TypeOK, NEW t \in Threads, NEW from \in Steps, NEW to \in Steps,
           from # to, pc[t] = from, pc' = [pc EXCEPT ![t] = to]
    PROVE  /\ At(from)' = At(from) \ {t}
           /\ At(to)' = At(to) \cup {t}
           /\ \A s \in Steps \ {from, to} : At(s)' = At(s)
BY DEF At, TypeOK

LEMMA MoveCounts ==
    ASSUME TypeOK, NEW t \in Threads, NEW from \in Steps, NEW to \in Steps,
           from # to, pc[t] = from, pc' = [pc EXCEPT ![t] = to]
    PROVE  /\ Cardinality(At(from)') = Cardinality(At(from)) - 1
           /\ Cardinality(At(to)') = Cardinality(At(to)) + 1
           /\ \A s \in Steps \ {from, to} : Cardinality(At(s)') = Cardinality(At(s))
<1>1. t \in At(from) /\ t \notin At(to)
  BY DEF At
<1>2. Cardinality(At(from) \ {t}) = Cardinality(At(from)) - 1
  BY <1>1, AtFinite, FS_RemoveElement
<1>3. Cardinality(At(to) \cup {t}) = Cardinality(At(to)) + 1
  BY <1>1, AtFinite, FS_AddElement
<1> QED
  BY <1>2, <1>3, MoveSets

LEMMA PerResetType == PerReset \in Nat
BY AtFinite, BoundAssumption DEF PerReset

\* A round more or less.
LEMMA RoundsAdd == \A n \in Nat : /\ PerReset * n \in Nat
                                  /\ PerReset * (n + 1) = PerReset * n + PerReset
<1> DEFINE r == PerReset
<1>1. r \in Nat
  BY PerResetType
<1> HIDE DEF r
<1>2. \A n \in Nat : r * n \in Nat /\ r * (n + 1) = r * n + r
  BY <1>1
<1> QED
  BY <1>2 DEF r

(***************************************************************************)
(* Types.                                                                  *)
(***************************************************************************)

LEMMA TypeStep == TypeOK /\ [Next]_vars => TypeOK'
<1> SUFFICES ASSUME TypeOK, [Next]_vars PROVE TypeOK'
  OBVIOUS
<1> USE BoundAssumption DEF TypeOK, Steps
<1>1. CASE Stop
  BY <1>1 DEF Stop, Drained
<1>2. CASE StopUnsaved
  BY <1>2 DEF StopUnsaved, Drained
<1>3. CASE Kill
  BY <1>3 DEF Kill
<1>4. ASSUME NEW t \in Threads, WriteRun(t) PROVE TypeOK'
  BY <1>4 DEF WriteRun
<1>5. ASSUME NEW t \in Threads, Count(t) PROVE TypeOK'
  BY <1>5 DEF Count
<1>6. ASSUME NEW t \in Threads, Reset(t) PROVE TypeOK'
  BY <1>6 DEF Reset
<1>7. ASSUME NEW t \in Threads, Upload(t) PROVE TypeOK'
  BY <1>7 DEF Upload
<1>8. ASSUME NEW t \in Threads, UploadFails(t) PROVE TypeOK'
  BY <1>8 DEF UploadFails
<1>9. CASE UNCHANGED vars
  BY <1>9 DEF vars
<1> QED
  BY <1>1, <1>2, <1>3, <1>4, <1>5, <1>6, <1>7, <1>8, <1>9 DEF Next

\* The state of the tracker keeps its types.
THEOREM TypeCorrect == Spec => []TypeOK
<1>1. Init => TypeOK
  BY DEF Init, TypeOK, Steps
<1> QED
  BY <1>1, TypeStep, PTL DEF Spec

(***************************************************************************)
(* The inductive invariant.  RunsAtRisk alone is not inductive: a reset    *)
(* must be known to drop no more than one round.                           *)
(***************************************************************************)

\* The counter exceeds the threshold by the threads that are about to reset it
\* at most; with the threshold disabled no thread ever is.
CounterBounded ==
    IF Every > 0
      THEN runs_since_snapshot < Every + Cardinality(At("flushing"))
      ELSE At("flushing") = {}

IInv == TypeOK /\ CounterBounded /\ RunsAtRisk

\* What one reset drops.
LEMMA ResetDropsARound ==
    ASSUME TypeOK, CounterBounded, NEW t \in Threads, pc[t] = "flushing"
    PROVE  runs_since_snapshot <= PerReset
<1>1. At("flushing") # {}
  BY DEF At
<1>2. Every > 0 /\ runs_since_snapshot < Every + Cardinality(At("flushing"))
  BY <1>1, BoundAssumption DEF CounterBounded
<1> QED
  BY <1>2, AtFinite, BoundAssumption DEF PerReset, TypeOK

\* The weight of the rounds whose upload is to come or has failed.
Rounds == Cardinality(At("saving")) + failed_uploads

LEMMA InvariantStep == IInv /\ [Next]_vars => (CounterBounded /\ RunsAtRisk)'
<1> SUFFICES ASSUME IInv, [Next]_vars PROVE (CounterBounded /\ RunsAtRisk)'
  OBVIOUS
<1> DEFINE logged == Cardinality(At("logged"))
           flushing == Cardinality(At("flushing"))
           Risk == phase # "stopped" =>
                     written - saved <= runs_since_snapshot + logged + PerReset * Rounds
<1>a. TypeOK /\ TypeOK' /\ CounterBounded
  BY TypeStep DEF IInv
<1>b. Risk
  BY DEF IInv, RunsAtRisk, Rounds
<1>c. /\ logged \in Nat /\ flushing \in Nat /\ Rounds \in Nat
      /\ PerReset \in Nat /\ PerReset * Rounds \in Nat
  BY AtFinite, PerResetType, RoundsAdd, <1>a DEF Rounds, TypeOK
<1>d. Risk' => RunsAtRisk'
  BY DEF RunsAtRisk, Rounds, PerReset
<1>e. ASSUME At("flushing")' = At("flushing"), runs_since_snapshot' <= runs_since_snapshot
      PROVE  CounterBounded'
  BY <1>a, <1>c, <1>e, BoundAssumption DEF CounterBounded, TypeOK
<1>f. {"idle", "logged", "flushing", "saving"} = Steps
  BY DEF Steps
<1>1. CASE Stop \/ StopUnsaved
  <2>1. At("flushing")' = At("flushing")
    BY <1>1 DEF Stop, StopUnsaved, At
  <2>2. runs_since_snapshot' <= runs_since_snapshot /\ phase' = "stopped"
    BY <1>1, <1>a DEF Stop, StopUnsaved, TypeOK
  <2> QED
    BY <1>d, <1>e, <2>1, <2>2
<1>2. ASSUME /\ UNCHANGED <<written, saved, runs_since_snapshot, pc, failed_uploads>>
             /\ phase # "stopped" \/ phase' = phase
      PROVE  (CounterBounded /\ RunsAtRisk)'
  BY <1>2, <1>a, <1>b, <1>d DEF CounterBounded, At, Rounds
<1>3. ASSUME NEW t \in Threads, WriteRun(t)
      PROVE  (CounterBounded /\ RunsAtRisk)'
  <2>1. /\ pc[t] = "idle" /\ pc' = [pc EXCEPT ![t] = "logged"]
        /\ written' = written + 1 /\ phase' = phase
        /\ UNCHANGED <<saved, runs_since_snapshot, failed_uploads>>
    BY <1>3 DEF WriteRun
  <2>2. /\ logged' = logged + 1 /\ Rounds' = Rounds
        /\ At("flushing")' = At("flushing")
    <3>1. logged' = logged + 1 /\ Cardinality(At("saving"))' = Cardinality(At("saving"))
      BY <2>1, <1>a, <1>f, MoveCounts
    <3>2. At("flushing")' = At("flushing")
      BY <2>1 DEF At
    <3> QED
      BY <3>1, <3>2, <2>1 DEF Rounds
  <2>3. CounterBounded'
    BY <1>a, <1>e, <2>1, <2>2 DEF TypeOK
  <2>4. Risk'
    <3>1. PerReset * Rounds' = PerReset * Rounds
      BY <2>2
    <3> QED
      BY <3>1, <2>1, <2>2, <1>a, <1>b, <1>c DEF TypeOK
  <2> QED
    BY <1>d, <2>3, <2>4
<1>4. ASSUME NEW t \in Threads, Count(t)
      PROVE  (CounterBounded /\ RunsAtRisk)'
  <2>1. CASE Every > 0 /\ runs_since_snapshot' >= Every
    <3>1. /\ pc[t] = "logged" /\ pc' = [pc EXCEPT ![t] = "flushing"]
          /\ runs_since_snapshot' = runs_since_snapshot + 1 /\ phase' = phase
          /\ UNCHANGED <<written, saved, failed_uploads>>
      BY <1>4, <2>1 DEF Count
    <3>2. logged' = logged - 1 /\ flushing' = flushing + 1 /\ Rounds' = Rounds
      BY <3>1, <1>a, <1>f, MoveCounts DEF Rounds
    <3>3. CounterBounded'
      BY <2>1, <3>1, <3>2, <1>a, <1>c, BoundAssumption DEF CounterBounded, TypeOK
    <3>4. Risk'
      BY <3>1, <3>2, <1>a, <1>b, <1>c DEF TypeOK
    <3> QED
      BY <1>d, <3>3, <3>4
  <2>2. CASE ~(Every > 0 /\ runs_since_snapshot' >= Every)
    <3>1. /\ pc[t] = "logged" /\ pc' = [pc EXCEPT ![t] = "idle"]
          /\ runs_since_snapshot' = runs_since_snapshot + 1 /\ phase' = phase
          /\ UNCHANGED <<written, saved, failed_uploads>>
      BY <1>4, <2>2 DEF Count
    <3>2. logged' = logged - 1 /\ Rounds' = Rounds
      BY <3>1, <1>a, <1>f, MoveCounts DEF Rounds
    <3>3. At("flushing")' = At("flushing")
      BY <3>1, <1>a DEF At, TypeOK
    <3>4. CounterBounded'
      BY <2>2, <3>1, <3>3, <1>a, <1>c, BoundAssumption DEF CounterBounded, TypeOK
    <3>5. Risk'
      BY <3>1, <3>2, <1>a, <1>b, <1>c DEF TypeOK
    <3> QED
      BY <1>d, <3>4, <3>5
  <2> QED
    BY <2>1, <2>2
<1>5. ASSUME NEW t \in Threads, Reset(t)
      PROVE  (CounterBounded /\ RunsAtRisk)'
  <2>1. /\ pc[t] = "flushing" /\ pc' = [pc EXCEPT ![t] = "saving"]
        /\ runs_since_snapshot' = 0 /\ phase' = phase
        /\ UNCHANGED <<written, saved, failed_uploads>>
    BY <1>5 DEF Reset
  <2>2. /\ logged' = logged /\ Rounds' = Rounds + 1
        /\ t \in At("flushing") /\ flushing' \in Nat
    <3>1. logged' = logged /\ Cardinality(At("saving"))' = Cardinality(At("saving")) + 1
      BY <2>1, <1>a, <1>f, MoveCounts
    <3>2. t \in At("flushing")
      BY <2>1 DEF At
    <3>3. At("flushing")' = At("flushing") \ {t}
      BY <2>1, <1>a DEF At, TypeOK
    <3>4. flushing' \in Nat
      BY <3>3, AtFinite, FS_RemoveElement, FS_CardinalityType
    <3>5. Cardinality(At("saving")) \in Nat
      BY AtFinite
    <3> QED
      BY <3>1, <3>2, <3>4, <3>5, <2>1, <1>a DEF Rounds, TypeOK
  <2>3. CounterBounded'
    BY <2>1, <2>2, <1>a, BoundAssumption DEF CounterBounded
  <2>4. Risk'
    <3>1. runs_since_snapshot <= PerReset
      BY <2>1, <1>a, ResetDropsARound
    <3>2. PerReset * Rounds' = PerReset * Rounds + PerReset
      BY <2>2, <1>c, RoundsAdd
    <3> QED
      BY <3>1, <3>2, <2>1, <2>2, <1>a, <1>b, <1>c DEF TypeOK
  <2> QED
    BY <1>d, <2>3, <2>4
<1>6. ASSUME NEW t \in Threads, Upload(t)
      PROVE  (CounterBounded /\ RunsAtRisk)'
  <2>1. /\ pc[t] = "saving" /\ pc' = [pc EXCEPT ![t] = "idle"]
        /\ saved' = written /\ written' = written
        /\ runs_since_snapshot' = runs_since_snapshot
    BY <1>6 DEF Upload
  <2>2. logged' = logged /\ At("flushing")' = At("flushing")
    <3>1. At("logged")' = At("logged")
      BY <2>1, <1>a DEF At, TypeOK
    <3>2. At("flushing")' = At("flushing")
      BY <2>1, <1>a DEF At, TypeOK
    <3> QED
      BY <3>1, <3>2
  <2>3. Rounds' \in Nat
    <3>1. At("saving")' = At("saving") \ {t}
      BY <2>1, <1>a DEF At, TypeOK
    <3>2. Cardinality(At("saving")') \in Nat
      BY <3>1, AtFinite, FS_RemoveElement, FS_CardinalityType
    <3> QED
      BY <3>2, <1>a DEF Rounds, TypeOK
  <2>4. PerReset * Rounds' \in Nat
    BY <2>3, RoundsAdd
  <2>5. Risk'
    BY <2>1, <2>2, <2>4, <1>a, <1>c DEF TypeOK
  <2> QED
    BY <1>a, <1>d, <1>e, <2>1, <2>2, <2>5 DEF TypeOK
<1>7. ASSUME NEW t \in Threads, UploadFails(t)
      PROVE  (CounterBounded /\ RunsAtRisk)'
  <2>1. /\ pc[t] = "saving" /\ pc' = [pc EXCEPT ![t] = "idle"] /\ phase' = phase
        /\ failed_uploads' = failed_uploads + 1
        /\ UNCHANGED <<written, saved, runs_since_snapshot>>
    BY <1>7 DEF UploadFails
  <2>2. /\ logged' = logged /\ At("flushing")' = At("flushing")
        /\ Rounds' = Rounds
    <3>1. Cardinality(At("saving"))' = Cardinality(At("saving")) - 1
      BY <2>1, <1>a, <1>f, MoveCounts
    <3>2. Cardinality(At("saving")) \in Nat
      BY AtFinite
    <3>3. Rounds' = Rounds
      BY <3>1, <3>2, <2>1, <1>a DEF Rounds, TypeOK
    <3>4. At("logged")' = At("logged")
      BY <2>1, <1>a DEF At, TypeOK
    <3>5. At("flushing")' = At("flushing")
      BY <2>1, <1>a DEF At, TypeOK
    <3> QED
      BY <3>3, <3>4, <3>5
  <2>3. Risk'
    <3>1. PerReset * Rounds' = PerReset * Rounds
      BY <2>2
    <3> QED
      BY <3>1, <2>1, <2>2, <1>a, <1>b, <1>c DEF TypeOK
  <2> QED
    BY <1>a, <1>d, <1>e, <2>1, <2>2, <2>3 DEF TypeOK
<1>8. CASE Kill
  BY <1>2, <1>8 DEF Kill
<1>9. CASE UNCHANGED vars
  BY <1>2, <1>9 DEF vars
<1> QED
  BY <1>1, <1>3, <1>4, <1>5, <1>6, <1>7, <1>8, <1>9 DEF Next

LEMMA InvariantInit == Init => IInv
<1> SUFFICES ASSUME Init PROVE IInv
  OBVIOUS
<1>1. TypeOK
  BY DEF Init, TypeOK, Steps
<1>2. At("logged") = {} /\ At("flushing") = {} /\ At("saving") = {}
  BY DEF Init, At
<1>3. CounterBounded
  <2>1. Cardinality(At("flushing")) = 0
    BY <1>2, FS_EmptySet
  <2> QED
    BY <1>2, <2>1, BoundAssumption DEF Init, CounterBounded
<1>4. RunsAtRisk
  <2>1. Cardinality(At("logged")) \in Nat /\ Rounds \in Nat
    BY <1>1, AtFinite DEF Rounds, TypeOK
  <2>2. PerReset * Rounds \in Nat
    BY <2>1, RoundsAdd
  <2> QED
    BY <2>1, <2>2 DEF Init, RunsAtRisk, Rounds
<1> QED
  BY <1>1, <1>3, <1>4 DEF IInv

\* Until a process stops, every unsaved run is counted, about to be counted, or
\* of a round whose upload is to come or has failed.
THEOREM NoRunForgotten == Spec => []RunsAtRisk
<1>1. IInv /\ [Next]_vars => IInv'
  BY TypeStep, InvariantStep DEF IInv
<1>2. IInv => RunsAtRisk
  BY DEF IInv
<1> QED
  BY <1>1, <1>2, InvariantInit, PTL DEF Spec

-----------------------------------------------------------------------------
(* What a process may lose.                                                *)

\* Threads between a run and its flush are counted by their step.
LEMMA BetweenCounts ==
  Cardinality(At("logged") \cup At("flushing"))
    = Cardinality(At("logged")) + Cardinality(At("flushing"))
<1>1. At("logged") \cap At("flushing") = {}
  BY DEF At
<1>2. IsFiniteSet(At("logged")) /\ IsFiniteSet(At("flushing"))
  BY AtFinite
<1>3. Cardinality(At("logged")) \in Nat /\ Cardinality(At("flushing")) \in Nat
  BY AtFinite
<1>4. Cardinality(At("logged") \cap At("flushing")) = 0
  BY <1>1, FS_EmptySet
<1>5. Cardinality(At("logged") \cup At("flushing"))
        = Cardinality(At("logged")) + Cardinality(At("flushing"))
            - Cardinality(At("logged") \cap At("flushing"))
  BY <1>2, FS_Union
<1> QED
  BY <1>3, <1>4, <1>5

\* Until a process stops, what is counted or about to be is less than the
\* threshold and one run per thread.
LEMMA LossBeforeStop ==
  ASSUME IInv, phase # "stopped"
  PROVE  LossBounded
<1> DEFINE logged == Cardinality(At("logged"))
           flushing == Cardinality(At("flushing"))
           lost == written - saved
           waiting == PerReset * Rounds
<1> SUFFICES ASSUME Every > 0 PROVE lost < Every + (logged + flushing) + waiting
  BY BetweenCounts DEF LossBounded, Rounds
<1>1. /\ logged \in Nat /\ flushing \in Nat /\ Every \in Nat
      /\ runs_since_snapshot \in Nat /\ lost \in Int
  BY AtFinite, BoundAssumption DEF IInv, TypeOK
<1>2. waiting \in Nat
  BY AtFinite, RoundsAdd DEF IInv, TypeOK, Rounds
<1>3. lost <= runs_since_snapshot + logged + waiting
  BY DEF IInv, RunsAtRisk, Rounds
<1>4. runs_since_snapshot < Every + flushing
  BY DEF IInv, CounterBounded
<1> HIDE DEF logged, flushing, lost, waiting
<1> QED
  BY <1>1, <1>2, <1>3, <1>4

\* The bound survives the end of the process, with or without its flush.
LossWhenStopped == phase = "stopped" => LossBounded

LEMMA LossStep == IInv /\ LossWhenStopped /\ [Next]_vars => LossWhenStopped'
<1> SUFFICES ASSUME IInv, LossWhenStopped, [Next]_vars, phase' = "stopped" PROVE LossBounded'
  BY DEF LossWhenStopped
<1>1. LossBounded
  BY LossBeforeStop DEF LossWhenStopped
<1>2. CASE phase = "stopped"
  <2>1. UNCHANGED vars
    BY <1>2 DEF Next, Stop, StopUnsaved, Drained, Kill,
                WriteRun, Count, Reset, Upload, UploadFails
  <2> QED
    BY <1>1, <2>1 DEF vars, LossBounded, At, PerReset
<1>3. CASE phase # "stopped"
  <2>1. Stop \/ StopUnsaved
    BY <1>3 DEF Next, vars, Kill, WriteRun, Count, Reset, Upload, UploadFails
  <2>2. At("logged") = {} /\ At("flushing") = {} /\ At("saving") = {} /\ pc' = pc
    BY <2>1 DEF Stop, StopUnsaved, Drained, At
  <2>3. Cardinality(At("logged") \cup At("flushing")) = 0 /\ Cardinality(At("saving")) = 0
    BY <2>2, FS_EmptySet
  <2>4. /\ Cardinality(At("logged") \cup At("flushing"))' = 0
        /\ Cardinality(At("saving"))' = 0
    BY <2>2, <2>3 DEF At
  <2>a. failed_uploads' \in Nat
    BY <2>1 DEF Stop, StopUnsaved, IInv, TypeOK
  <2>b. 0 + failed_uploads' = failed_uploads'
    <3>1. \A n \in Nat : 0 + n = n
      OBVIOUS
    <3> QED
      BY <2>a, <3>1
  <2>c. Every + 0 = Every
    BY BoundAssumption
  <2> SUFFICES ASSUME Every > 0
               PROVE  written' - saved' < Every + PerReset * failed_uploads'
    BY <2>4, <2>b, <2>c DEF LossBounded, PerReset
  <2>5. CASE Stop
    BY <2>5, PerResetType, BoundAssumption DEF Stop, IInv, TypeOK
  <2>6. CASE StopUnsaved
    <3>1. written - saved < Every + PerReset * failed_uploads
      <4>1. /\ written - saved < Every + 0 + PerReset * (0 + failed_uploads)
            /\ Every \in Nat /\ failed_uploads \in Nat
        BY <1>1, <2>3, BoundAssumption DEF LossBounded, IInv, TypeOK
      <4>2. 0 + failed_uploads = failed_uploads /\ Every + 0 = Every
        BY <4>1
      <4> QED
        BY <4>1, <4>2
    <3>2. /\ PerReset * (failed_uploads + 1) = PerReset * failed_uploads + PerReset
          /\ PerReset * failed_uploads \in Nat
      BY RoundsAdd DEF IInv, TypeOK
    <3>3. written' = written /\ saved' = saved /\ failed_uploads' = failed_uploads + 1
      BY <2>6 DEF StopUnsaved
    <3> QED
      BY <3>1, <3>2, <3>3, PerResetType, BoundAssumption DEF IInv, TypeOK
  <2> QED
    BY <2>1, <2>5, <2>6
<1> QED
  BY <1>2, <1>3

\* However it ends, a process loses fewer runs than one threshold, one per
\* thread between a run and its flush, and one reset's per upload that was to
\* come or had failed (config.py:125).
THEOREM LossIsBounded == Spec => []LossBounded
<1>1. Init => LossWhenStopped
  BY DEF Init, LossWhenStopped
<1>2. IInv /\ [Next]_vars => IInv'
  BY TypeStep, InvariantStep DEF IInv
<1>3. IInv /\ LossWhenStopped => LossBounded
  BY LossBeforeStop DEF LossWhenStopped
<1> QED
  BY <1>1, <1>2, <1>3, LossStep, InvariantInit, PTL DEF Spec
=============================================================================
