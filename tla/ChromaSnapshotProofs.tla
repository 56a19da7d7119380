------------------------- MODULE ChromaSnapshotProofs -------------------------
(***************************************************************************)
(* Proofs about ChromaSnapshot, for any instances, threads and faults.     *)
(***************************************************************************)
EXTENDS ChromaSnapshot, TLAPS

LEMMA IdleJobType == IdleJob \in Job
  BY DEF IdleJob, Job, Origins

-----------------------------------------------------------------------------
\* Every variable keeps its type: in particular a generation is a number that
\* may always be sent as a precondition, and an archive holds known chunks.
THEOREM TypeCorrect == Spec => []TypeOK
<1>1. Init => TypeOK
  BY IdleJobType DEF Init, TypeOK, Origins
<1>2. TypeOK /\ [Next]_vars => TypeOK'
  <2> SUFFICES ASSUME TypeOK, [Next]_vars PROVE TypeOK'
    OBVIOUS
  <2> USE DEF TypeOK
  <2>1. CASE UNCHANGED vars
    BY <2>1 DEF vars
  <2>2. ASSUME NEW i \in Instances, ColdStart(i) PROVE TypeOK'
    BY <2>2 DEF ColdStart, Origins
  <2>3. ASSUME NEW i \in Instances, ColdStartEmpty(i) PROVE TypeOK'
    BY <2>3 DEF ColdStartEmpty, Origins
  <2>4. ASSUME NEW i \in Instances, Crash(i) PROVE TypeOK'
    BY <2>4, IdleJobType DEF Crash, Origins
  <2>5. ASSUME NEW w \in Workers, NEW batch \in Batches, AddChunks(w, batch)
        PROVE TypeOK'
    <3>1. [IdleJob EXCEPT !.pc = "added", !.chunks = batch,
                          !.began = blob.generation] \in Job
      BY BatchAssumption DEF IdleJob, Job, Origins
    <3> QED
      BY <2>5, <3>1, BatchAssumption, HostAssumption DEF AddChunks
  <2>6. ASSUME NEW w \in Workers, Save(w) PROVE TypeOK'
    <3> job[w] \in Job /\ Host[w] \in Instances
      BY HostAssumption
    <3>1. CASE ReadGeneration(w)
      BY <3>1 DEF ReadGeneration, Job
    <3>2. CASE BuildArchive(w)
      BY <3>2 DEF BuildArchive, Job
    <3>3. CASE UploadLands(w)
      <4>1. blob' \in [generation : Nat, chunks : SUBSET Chunks]
        BY <3>3 DEF UploadLands, StoreArchive, Job
      <4>2. job' \in [Workers -> Job]
        <5>0. blob.generation + 1 \in Nat
          OBVIOUS
        <5>1. [job[w] EXCEPT !.pc = "saved", !.written = blob.generation + 1] \in Job
          <6> HIDE DEF TypeOK
          <6> QED
            BY <5>0 DEF Job
        <5>2. job' = [job EXCEPT ![w] = [job[w] EXCEPT !.pc = "saved",
                                               !.written = blob.generation + 1]]
          BY <3>3 DEF UploadLands
        <5> QED
          BY <5>1, <5>2
      <4>3. acknowledged' \in SUBSET Chunks
        BY <3>3 DEF UploadLands, Job
      <4> QED
        BY <3>3, <4>1, <4>2, <4>3 DEF UploadLands
    <3>4. CASE UploadResponseLost(w)
      <4>1. blob' \in [generation : Nat, chunks : SUBSET Chunks]
        BY <3>4 DEF UploadResponseLost, StoreArchive, Job
      <4>2. job' \in [Workers -> Job]
        BY <3>4, IdleJobType DEF UploadResponseLost, Job
      <4> QED
        BY <3>4, <4>1, <4>2 DEF UploadResponseLost
    <3>5. CASE UploadConflicts(w)
      BY <3>5 DEF UploadConflicts, Job
    <3>6. CASE UploadFails(w)
      BY <3>6, IdleJobType DEF UploadFails
    <3>7. CASE Merge(w)
      BY <3>7 DEF Merge, Job, Origins
    <3>8. CASE MergeRestoreFails(w)
      BY <3>8, IdleJobType DEF MergeRestoreFails
    <3>9. CASE GiveUp(w)
      BY <3>9, IdleJobType DEF GiveUp
    <3>10. CASE AdoptGeneration(w)
      BY <3>10, IdleJobType DEF AdoptGeneration, Job, Origins
    <3> QED
      BY <2>6, <3>1, <3>2, <3>3, <3>4, <3>5, <3>6, <3>7, <3>8, <3>9, <3>10
         DEF Save
  <2> QED
    BY <2>1, <2>2, <2>3, <2>4, <2>5, <2>6 DEF Next
<1> QED
  BY <1>1, <1>2, PTL DEF Spec

-----------------------------------------------------------------------------
(* The inductive invariant behind the safety of the shared object.         *)

\* Nobody holds a generation the object has not reached; generation 0 is the
\* absent object.
GenerationsSeen ==
    /\ \A i \in Instances : snapshot_generation[i] <= blob.generation
    /\ \A w \in Workers :
          /\ job[w].expected <= blob.generation
          /\ job[w].written <= blob.generation
          /\ job[w].began <= blob.generation
    /\ blob.generation = 0 => blob.chunks = {}

\* A current generation that was not adopted from a merge vouches for the
\* store: the store holds all the object holds.
GenerationVouches ==
    \A i \in Instances :
        (snapshot_generation[i] = blob.generation /\ origin[i] # "merged")
            => blob.chunks \subseteq store[i]

\* A request runs on a running instance, and its chunks travel with it.
RequestCarriesChunks(w) ==
    /\ job[w].pc # "idle" => up[Host[w]]
    /\ job[w].pc # "idle" => job[w].chunks \subseteq store[Host[w]]
    /\ job[w].pc \in {"added", "saving"} => job[w].attempts = 0
    /\ job[w].pc = "upload" => job[w].chunks \subseteq job[w].archive

\* The same voucher, on its way through one request.
RequestVouches(w) ==
    /\ (/\ job[w].pc = "saving"
        /\ job[w].origin # "merged"
        /\ job[w].expected = blob.generation)
          => blob.chunks \subseteq store[Host[w]]
    /\ (/\ job[w].pc = "upload"
        /\ job[w].origin # "merged"
        /\ job[w].expected = blob.generation)
          => blob.chunks \subseteq job[w].archive
    /\ (job[w].pc = "upload" /\ job[w].attempts = 0)
          => job[w].archive \subseteq store[Host[w]]
    /\ (job[w].pc = "upload" /\ job[w].attempts > 0) => job[w].origin = "restored"
    /\ (/\ job[w].pc = "saved"
        /\ job[w].attempts = 0
        /\ job[w].written = blob.generation)
          => blob.chunks \subseteq store[Host[w]]
    /\ (job[w].pc = "saved" /\ job[w].written = blob.generation)
          => job[w].chunks \subseteq blob.chunks

\* Each retry read a generation past the one that refused the last attempt.
RetriesFollowWrites(w) ==
    /\ (job[w].pc = "upload" /\ job[w].attempts > 0)
          => job[w].expected + 1 >= job[w].began + job[w].attempts
    /\ job[w].pc = "conflict"
          => blob.generation >= job[w].began + job[w].attempts

IInv ==
    /\ TypeOK
    /\ GenerationsSeen
    /\ GenerationVouches
    /\ \A w \in Workers :
          RequestCarriesChunks(w) /\ RequestVouches(w) /\ RetriesFollowWrites(w)

LEMMA InvInit == Init => IInv
  BY IdleJobType, HostAssumption
     DEF Init, IInv, TypeOK, Origins, IdleJob, GenerationsSeen,
         GenerationVouches, RequestCarriesChunks, RequestVouches,
         RetriesFollowWrites

\* Every action keeps each part of the invariant.
LEMMA InvStep == TypeOK' /\ IInv /\ [Next]_vars => IInv'
<1> SUFFICES ASSUME TypeOK', IInv, [Next]_vars PROVE IInv'
  OBVIOUS
<1> DEFINE Parts(v) ==
      RequestCarriesChunks(v) /\ RequestVouches(v) /\ RetriesFollowWrites(v)
<1> USE HostAssumption
<1>a. /\ blob.generation \in Nat
      /\ \A i \in Instances : snapshot_generation[i] \in Nat /\ up[i] \in BOOLEAN
      /\ \A v \in Workers : /\ Host[v] \in Instances
                           /\ job[v].expected \in Nat
                           /\ job[v].written \in Nat
                           /\ job[v].attempts \in Nat
                           /\ job[v].began \in Nat
  BY DEF IInv, TypeOK, Job
<1>b. /\ job \in [Workers -> Job]
      /\ store \in [Instances -> SUBSET Chunks]
      /\ snapshot_generation \in [Instances -> Nat]
      /\ origin \in [Instances -> Origins]
      /\ up \in [Instances -> BOOLEAN]
  BY DEF IInv, TypeOK
<1>0. CASE UNCHANGED vars
  BY <1>0 DEF vars, IInv, TypeOK, GenerationsSeen, GenerationVouches,
     RequestCarriesChunks, RequestVouches, RetriesFollowWrites
<1>1. ASSUME NEW i \in Instances, ColdStart(i) PROVE IInv'
  <2>1. GenerationsSeen'
    BY <1>1, <1>a, <1>b DEF ColdStart, IInv, GenerationsSeen
  <2>2. GenerationVouches'
    BY <1>1, <1>a, <1>b
       DEF ColdStart, IInv, GenerationsSeen, GenerationVouches, RequestVouches
  <2>3. ASSUME NEW v \in Workers PROVE Parts(v)'
    <3>1. RequestCarriesChunks(v)'
      BY <1>1, <1>a, <1>b DEF ColdStart, IInv, RequestCarriesChunks
    <3>2. RequestVouches(v)'
      BY <1>1, <1>a, <1>b
         DEF ColdStart, IInv, GenerationsSeen, GenerationVouches,
             RequestCarriesChunks, RequestVouches
    <3>3. RetriesFollowWrites(v)'
      BY <1>1, <1>a, <1>b
         DEF ColdStart, IInv, GenerationsSeen, RequestCarriesChunks, RetriesFollowWrites
    <3> QED
      BY <3>1, <3>2, <3>3
  <2> QED
    BY <2>1, <2>2, <2>3 DEF IInv
<1>2. ASSUME NEW i \in Instances, ColdStartEmpty(i) PROVE IInv'
  <2>1. GenerationsSeen'
    BY <1>2, <1>a, <1>b DEF ColdStartEmpty, IInv, GenerationsSeen
  <2>2. GenerationVouches'
    BY <1>2, <1>a, <1>b
       DEF ColdStartEmpty, IInv, GenerationsSeen, GenerationVouches, RequestVouches
  <2>3. ASSUME NEW v \in Workers PROVE Parts(v)'
    <3>1. RequestCarriesChunks(v)'
      BY <1>2, <1>a, <1>b DEF ColdStartEmpty, IInv, RequestCarriesChunks
    <3>2. RequestVouches(v)'
      BY <1>2, <1>a, <1>b
         DEF ColdStartEmpty, IInv, GenerationsSeen, GenerationVouches,
             RequestCarriesChunks, RequestVouches
    <3>3. RetriesFollowWrites(v)'
      BY <1>2, <1>a, <1>b
         DEF ColdStartEmpty, IInv, GenerationsSeen, RequestCarriesChunks, RetriesFollowWrites
    <3> QED
      BY <3>1, <3>2, <3>3
  <2> QED
    BY <2>1, <2>2, <2>3 DEF IInv
<1>3. ASSUME NEW i \in Instances, Crash(i) PROVE IInv'
  <2>1. GenerationsSeen'
    BY <1>3, <1>a, <1>b DEF Crash, IdleJob, IInv, GenerationsSeen
  <2>2. GenerationVouches'
    BY <1>3, <1>a, <1>b
       DEF Crash, IdleJob, IInv, GenerationsSeen, GenerationVouches, RequestVouches
  <2>3. ASSUME NEW v \in Workers PROVE Parts(v)'
    <3>1. RequestCarriesChunks(v)'
      BY <1>3, <1>a, <1>b DEF Crash, IdleJob, IInv, RequestCarriesChunks
    <3>2. RequestVouches(v)'
      BY <1>3, <1>a, <1>b
         DEF Crash, IdleJob, IInv, GenerationsSeen, GenerationVouches,
             RequestCarriesChunks, RequestVouches
    <3>3. RetriesFollowWrites(v)'
      BY <1>3, <1>a, <1>b
         DEF Crash, IdleJob, IInv, GenerationsSeen, RequestCarriesChunks, RetriesFollowWrites
    <3> QED
      BY <3>1, <3>2, <3>3
  <2> QED
    BY <2>1, <2>2, <2>3 DEF IInv
<1>4. ASSUME NEW w \in Workers, NEW batch \in Batches, AddChunks(w, batch) PROVE IInv'
  <2>1. GenerationsSeen'
    BY <1>4, <1>a, <1>b DEF AddChunks, IdleJob, IInv, GenerationsSeen
  <2>2. GenerationVouches'
    BY <1>4, <1>a, <1>b
       DEF AddChunks, IdleJob, IInv, GenerationsSeen, GenerationVouches, RequestVouches
  <2>3. ASSUME NEW v \in Workers PROVE Parts(v)'
    <3>1. RequestCarriesChunks(v)'
      BY <1>4, <1>a, <1>b DEF AddChunks, IdleJob, IInv, RequestCarriesChunks
    <3>2. RequestVouches(v)'
      BY <1>4, <1>a, <1>b
         DEF AddChunks, IdleJob, IInv, GenerationsSeen, GenerationVouches,
             RequestCarriesChunks, RequestVouches
    <3>3. RetriesFollowWrites(v)'
      BY <1>4, <1>a, <1>b
         DEF AddChunks, IdleJob, IInv, GenerationsSeen, RequestCarriesChunks, RetriesFollowWrites
    <3> QED
      BY <3>1, <3>2, <3>3
  <2> QED
    BY <2>1, <2>2, <2>3 DEF IInv
<1>5. ASSUME NEW w \in Workers, ReadGeneration(w) PROVE IInv'
  <2>1. GenerationsSeen'
    BY <1>5, <1>a, <1>b DEF ReadGeneration, IInv, GenerationsSeen
  <2>2. GenerationVouches'
    BY <1>5, <1>a, <1>b
       DEF ReadGeneration, IInv, GenerationsSeen, GenerationVouches, RequestVouches
  <2>3. ASSUME NEW v \in Workers PROVE Parts(v)'
    <3>1. RequestCarriesChunks(v)'
      BY <1>5, <1>a, <1>b DEF ReadGeneration, IInv, RequestCarriesChunks
    <3>2. RequestVouches(v)'
      BY <1>5, <1>a, <1>b
         DEF ReadGeneration, IInv, GenerationsSeen, GenerationVouches,
             RequestCarriesChunks, RequestVouches
    <3>3. RetriesFollowWrites(v)'
      BY <1>5, <1>a, <1>b
         DEF ReadGeneration, IInv, GenerationsSeen, RequestCarriesChunks, RetriesFollowWrites
    <3> QED
      BY <3>1, <3>2, <3>3
  <2> QED
    BY <2>1, <2>2, <2>3 DEF IInv
<1>6. ASSUME NEW w \in Workers, BuildArchive(w) PROVE IInv'
  <2>1. GenerationsSeen'
    BY <1>6, <1>a, <1>b DEF BuildArchive, IInv, GenerationsSeen
  <2>2. GenerationVouches'
    BY <1>6, <1>a, <1>b
       DEF BuildArchive, IInv, GenerationsSeen, GenerationVouches, RequestVouches
  <2>3. ASSUME NEW v \in Workers PROVE Parts(v)'
    <3>1. RequestCarriesChunks(v)'
      BY <1>6, <1>a, <1>b DEF BuildArchive, IInv, RequestCarriesChunks
    <3>2. RequestVouches(v)'
      BY <1>6, <1>a, <1>b
         DEF BuildArchive, IInv, GenerationsSeen, GenerationVouches,
             RequestCarriesChunks, RequestVouches
    <3>3. RetriesFollowWrites(v)'
      BY <1>6, <1>a, <1>b
         DEF BuildArchive, IInv, GenerationsSeen, RequestCarriesChunks, RetriesFollowWrites
    <3> QED
      BY <3>1, <3>2, <3>3
  <2> QED
    BY <2>1, <2>2, <2>3 DEF IInv
<1>7. ASSUME NEW w \in Workers, UploadLands(w) PROVE IInv'
  <2>1. GenerationsSeen'
    BY <1>7, <1>a, <1>b DEF UploadLands, Precondition, StoreArchive, IInv, GenerationsSeen
  <2>2. GenerationVouches'
    BY <1>7, <1>a, <1>b
       DEF UploadLands, Precondition, StoreArchive, IInv, GenerationsSeen, GenerationVouches, RequestVouches
  <2>3. ASSUME NEW v \in Workers PROVE Parts(v)'
    <3>1. RequestCarriesChunks(v)'
      BY <1>7, <1>a, <1>b DEF UploadLands, Precondition, StoreArchive, IInv, RequestCarriesChunks
    <3>2. RequestVouches(v)'
      BY <1>7, <1>a, <1>b
         DEF UploadLands, Precondition, StoreArchive, IInv, GenerationsSeen, GenerationVouches,
             RequestCarriesChunks, RequestVouches
    <3>3. RetriesFollowWrites(v)'
      BY <1>7, <1>a, <1>b
         DEF UploadLands, Precondition, StoreArchive, IInv, GenerationsSeen, RequestCarriesChunks, RetriesFollowWrites
    <3> QED
      BY <3>1, <3>2, <3>3
  <2> QED
    BY <2>1, <2>2, <2>3 DEF IInv
<1>8. ASSUME NEW w \in Workers, UploadResponseLost(w) PROVE IInv'
  <2>1. /\ blob'.generation = blob.generation + 1
        /\ blob'.chunks = job[w].archive
        /\ store' = store
        /\ snapshot_generation' = snapshot_generation
        /\ origin' = origin
        /\ up' = up
    BY <1>8 DEF UploadResponseLost, StoreArchive
  <2>2. \/ job' = [job EXCEPT ![w].pc = "conflict"]
        \/ job' = [job EXCEPT ![w] = IdleJob]
    BY <1>8 DEF UploadResponseLost
  <2>3. /\ job[w].pc = "upload"
        /\ job[w].expected = blob.generation
    BY <1>8 DEF UploadResponseLost, Precondition
  <2>4. GenerationsSeen'
    <3>1. ASSUME NEW v \in Workers
          PROVE /\ job'[v].expected \in {0, job[v].expected}
                /\ job'[v].written \in {0, job[v].written}
                /\ job'[v].began \in {0, job[v].began}
      <4>1. CASE job' = [job EXCEPT ![w].pc = "conflict"]
        BY <4>1, <1>b DEF Job
      <4>2. CASE job' = [job EXCEPT ![w] = IdleJob]
        BY <4>2, <1>b DEF IdleJob
      <4> QED
        BY <2>2, <4>1, <4>2
    <3> QED
      BY <2>1, <3>1, <1>a DEF IInv, GenerationsSeen
  <2>5. GenerationVouches'
    BY <2>1, <1>a, <1>b DEF IInv, GenerationsSeen, GenerationVouches
  <2>6. ASSUME NEW v \in Workers PROVE Parts(v)'
    <3>1. CASE v # w
      <4>1. job'[v] = job[v]
        BY <2>2, <3>1, <1>b
      <4> QED
        BY <2>1, <4>1, <1>a, <1>b
           DEF IInv, GenerationsSeen, RequestCarriesChunks, RequestVouches,
               RetriesFollowWrites
    <3>2. CASE v = w /\ job' = [job EXCEPT ![w].pc = "conflict"]
      <4>1. job'[w] = [job[w] EXCEPT !.pc = "conflict"]
        BY <3>2, <1>b
      <4> QED
        BY <2>1, <2>3, <3>2, <4>1, <1>a, <1>b
           DEF IInv, GenerationsSeen, RequestCarriesChunks, RequestVouches,
               RetriesFollowWrites, Job
    <3>3. CASE v = w /\ job' = [job EXCEPT ![w] = IdleJob]
      <4>1. job'[w] = IdleJob
        BY <3>3, <1>b
      <4> QED
        BY <2>1, <3>3, <4>1
           DEF RequestCarriesChunks, RequestVouches, RetriesFollowWrites, IdleJob
    <3> QED
      BY <2>2, <3>1, <3>2, <3>3
  <2> QED
    BY <2>4, <2>5, <2>6 DEF IInv
<1>9. ASSUME NEW w \in Workers, UploadConflicts(w) PROVE IInv'
  <2>1. GenerationsSeen'
    BY <1>9, <1>a, <1>b DEF UploadConflicts, Precondition, IInv, GenerationsSeen
  <2>2. GenerationVouches'
    BY <1>9, <1>a, <1>b
       DEF UploadConflicts, Precondition, IInv, GenerationsSeen, GenerationVouches, RequestVouches
  <2>3. ASSUME NEW v \in Workers PROVE Parts(v)'
    <3>1. RequestCarriesChunks(v)'
      BY <1>9, <1>a, <1>b DEF UploadConflicts, Precondition, IInv, RequestCarriesChunks
    <3>2. RequestVouches(v)'
      BY <1>9, <1>a, <1>b
         DEF UploadConflicts, Precondition, IInv, GenerationsSeen, GenerationVouches,
             RequestCarriesChunks, RequestVouches
    <3>3. RetriesFollowWrites(v)'
      BY <1>9, <1>a, <1>b
         DEF UploadConflicts, Precondition, IInv, GenerationsSeen, RequestCarriesChunks, RetriesFollowWrites
    <3> QED
      BY <3>1, <3>2, <3>3
  <2> QED
    BY <2>1, <2>2, <2>3 DEF IInv
<1>10. ASSUME NEW w \in Workers, UploadFails(w) PROVE IInv'
  <2>1. GenerationsSeen'
    BY <1>10, <1>a, <1>b DEF UploadFails, IdleJob, IInv, GenerationsSeen
  <2>2. GenerationVouches'
    BY <1>10, <1>a, <1>b
       DEF UploadFails, IdleJob, IInv, GenerationsSeen, GenerationVouches, RequestVouches
  <2>3. ASSUME NEW v \in Workers PROVE Parts(v)'
    <3>1. RequestCarriesChunks(v)'
      BY <1>10, <1>a, <1>b DEF UploadFails, IdleJob, IInv, RequestCarriesChunks
    <3>2. RequestVouches(v)'
      BY <1>10, <1>a, <1>b
         DEF UploadFails, IdleJob, IInv, GenerationsSeen, GenerationVouches,
             RequestCarriesChunks, RequestVouches
    <3>3. RetriesFollowWrites(v)'
      BY <1>10, <1>a, <1>b
         DEF UploadFails, IdleJob, IInv, GenerationsSeen, RequestCarriesChunks, RetriesFollowWrites
    <3> QED
      BY <3>1, <3>2, <3>3
  <2> QED
    BY <2>1, <2>2, <2>3 DEF IInv
<1>11. ASSUME NEW w \in Workers, Merge(w) PROVE IInv'
  <2>1. GenerationsSeen'
    BY <1>11, <1>a, <1>b DEF Merge, IInv, GenerationsSeen
  <2>2. GenerationVouches'
    BY <1>11, <1>a, <1>b
       DEF Merge, IInv, GenerationsSeen, GenerationVouches, RequestVouches
  <2>3. ASSUME NEW v \in Workers PROVE Parts(v)'
    <3>1. RequestCarriesChunks(v)'
      BY <1>11, <1>a, <1>b DEF Merge, IInv, RequestCarriesChunks
    <3>2. RequestVouches(v)'
      BY <1>11, <1>a, <1>b
         DEF Merge, IInv, GenerationsSeen, GenerationVouches,
             RequestCarriesChunks, RequestVouches
    <3>3. RetriesFollowWrites(v)'
      BY <1>11, <1>a, <1>b
         DEF Merge, IInv, GenerationsSeen, RequestCarriesChunks, RetriesFollowWrites
    <3> QED
      BY <3>1, <3>2, <3>3
  <2> QED
    BY <2>1, <2>2, <2>3 DEF IInv
<1>12. ASSUME NEW w \in Workers, MergeRestoreFails(w) PROVE IInv'
  <2>1. GenerationsSeen'
    BY <1>12, <1>a, <1>b DEF MergeRestoreFails, IdleJob, IInv, GenerationsSeen
  <2>2. GenerationVouches'
    BY <1>12, <1>a, <1>b
       DEF MergeRestoreFails, IdleJob, IInv, GenerationsSeen, GenerationVouches, RequestVouches
  <2>3. ASSUME NEW v \in Workers PROVE Parts(v)'
    <3>1. RequestCarriesChunks(v)'
      BY <1>12, <1>a, <1>b DEF MergeRestoreFails, IdleJob, IInv, RequestCarriesChunks
    <3>2. RequestVouches(v)'
      BY <1>12, <1>a, <1>b
         DEF MergeRestoreFails, IdleJob, IInv, GenerationsSeen, GenerationVouches,
             RequestCarriesChunks, RequestVouches
    <3>3. RetriesFollowWrites(v)'
      BY <1>12, <1>a, <1>b
         DEF MergeRestoreFails, IdleJob, IInv, GenerationsSeen, RequestCarriesChunks, RetriesFollowWrites
    <3> QED
      BY <3>1, <3>2, <3>3
  <2> QED
    BY <2>1, <2>2, <2>3 DEF IInv
<1>13. ASSUME NEW w \in Workers, GiveUp(w) PROVE IInv'
  <2>1. GenerationsSeen'
    BY <1>13, <1>a, <1>b DEF GiveUp, IdleJob, IInv, GenerationsSeen
  <2>2. GenerationVouches'
    BY <1>13, <1>a, <1>b
       DEF GiveUp, IdleJob, IInv, GenerationsSeen, GenerationVouches, RequestVouches
  <2>3. ASSUME NEW v \in Workers PROVE Parts(v)'
    <3>1. RequestCarriesChunks(v)'
      BY <1>13, <1>a, <1>b DEF GiveUp, IdleJob, IInv, RequestCarriesChunks
    <3>2. RequestVouches(v)'
      BY <1>13, <1>a, <1>b
         DEF GiveUp, IdleJob, IInv, GenerationsSeen, GenerationVouches,
             RequestCarriesChunks, RequestVouches
    <3>3. RetriesFollowWrites(v)'
      BY <1>13, <1>a, <1>b
         DEF GiveUp, IdleJob, IInv, GenerationsSeen, RequestCarriesChunks, RetriesFollowWrites
    <3> QED
      BY <3>1, <3>2, <3>3
  <2> QED
    BY <2>1, <2>2, <2>3 DEF IInv
<1>14. ASSUME NEW w \in Workers, AdoptGeneration(w) PROVE IInv'
  <2>1. GenerationsSeen'
    BY <1>14, <1>a, <1>b DEF AdoptGeneration, IdleJob, IInv, GenerationsSeen
  <2>2. GenerationVouches'
    BY <1>14, <1>a, <1>b
       DEF AdoptGeneration, IdleJob, IInv, GenerationsSeen, GenerationVouches, RequestVouches
  <2>3. ASSUME NEW v \in Workers PROVE Parts(v)'
    <3>1. RequestCarriesChunks(v)'
      BY <1>14, <1>a, <1>b DEF AdoptGeneration, IdleJob, IInv, RequestCarriesChunks
    <3>2. RequestVouches(v)'
      BY <1>14, <1>a, <1>b
         DEF AdoptGeneration, IdleJob, IInv, GenerationsSeen, GenerationVouches,
             RequestCarriesChunks, RequestVouches
    <3>3. RetriesFollowWrites(v)'
      BY <1>14, <1>a, <1>b
         DEF AdoptGeneration, IdleJob, IInv, GenerationsSeen, RequestCarriesChunks, RetriesFollowWrites
    <3> QED
      BY <3>1, <3>2, <3>3
  <2> QED
    BY <2>1, <2>2, <2>3 DEF IInv
<1> QED
  BY <1>0, <1>1, <1>2, <1>3, <1>4, <1>5, <1>6, <1>7, <1>8, <1>9, <1>10, <1>11, <1>12, <1>13, <1>14
     DEF Next, Save

\* The invariant holds throughout: whoever may overwrite the object either
\* holds all of it or took its generation from a merge.
THEOREM Inductive == Spec => []IInv
<1>1. TypeOK /\ IInv /\ [Next]_vars /\ TypeOK' => IInv'
  BY InvStep
<1> QED
  BY InvInit, <1>1, TypeCorrect, PTL DEF Spec

\* A save whose generation is current stored the chunks of its request.
THEOREM SavesStore == Spec => []SavedIsStored
<1>1. IInv => SavedIsStored
  BY DEF IInv, RequestVouches, SavedIsStored
<1> QED
  BY Inductive, <1>1, PTL

\* A retry is refused only by a write newer than all it has seen, so giving up
\* takes MergeAttempts writes within the request.
THEOREM RefusalsAreContended == Spec => []RefusedOnlyWhenContended
<1>1. IInv => RefusedOnlyWhenContended
  BY DEF IInv, RetriesFollowWrites, RefusedOnlyWhenContended
<1> QED
  BY Inductive, <1>1, PTL

-----------------------------------------------------------------------------
(* How the object can lose a chunk, and where it cannot.                   *)

\* Only an upload that lands changes the object.
LEMMA OnlyUploadsWrite ==
    ASSUME [Next]_vars, blob' # blob
    PROVE  \E w \in Workers : UploadLands(w) \/ UploadResponseLost(w)
  BY DEF Next, Save, vars, ColdStart, ColdStartEmpty, Crash, AddChunks,
     ReadGeneration, BuildArchive, UploadConflicts, UploadFails, Merge,
     MergeRestoreFails, GiveUp, AdoptGeneration

\* An upload either carries all the object holds or is the plain save of a
\* store that never loaded the merge its generation came from.
LEMMA LossStep ==
    IInv /\ [Next]_vars =>
        \/ blob.chunks \subseteq blob'.chunks
        \/ \E w \in Workers : SavesOverUnseenMerge(w)
<1> SUFFICES ASSUME IInv, [Next]_vars, blob' # blob
             PROVE  \/ blob.chunks \subseteq blob'.chunks
                    \/ \E w \in Workers : SavesOverUnseenMerge(w)
  OBVIOUS
<1>1. PICK w \in Workers : UploadLands(w) \/ UploadResponseLost(w)
  BY OnlyUploadsWrite
<1>2. /\ job[w].pc = "upload"
      /\ job[w].expected = blob.generation
      /\ blob'.chunks = job[w].archive
  BY <1>1 DEF UploadLands, UploadResponseLost, Precondition, StoreArchive
<1>3. CASE job[w].origin # "merged"
  BY <1>2, <1>3 DEF IInv, RequestVouches
<1>4. CASE job[w].origin = "merged"
  <2>1. job'[w].pc # "upload"
    BY <1>1 DEF UploadLands, UploadResponseLost, IInv, TypeOK, Job, IdleJob
  <2>2. job[w].attempts = 0
    BY <1>2, <1>4 DEF IInv, TypeOK, Job, RequestVouches
  <2> QED
    BY <1>2, <1>4, <2>1, <2>2 DEF SavesOverUnseenMerge
<1> QED
  BY <1>3, <1>4

\* Every write keeps every chunk of the object, except the plain upload that
\* follows an adopted merge.
THEOREM LossNeedsMerge == Spec => LossOnlyAfterMerge
  BY Inductive, LossStep, PTL DEF Spec, LossOnlyAfterMerge

-----------------------------------------------------------------------------
(* What the protocol guarantees when one instance writes the object and    *)
(* its restores succeed, with any number of request threads, crashes,      *)
(* failed uploads and lost responses: nothing acknowledged is ever lost,   *)
(* and the protocol implements DurableCorpus.                              *)

SoleInstance ==
    /\ \A i, j \in Instances : i = j
    /\ "restore" \notin Faults

\* The running instance holds all the object holds, and so does every archive
\* that GCS would still accept.
StoreHoldsObject == \A i \in Instances : up[i] => blob.chunks \subseteq store[i]

ArchiveHoldsObject(w) ==
    job[w].pc = "upload" =>
        /\ job[w].archive \subseteq store[Host[w]]
        /\ job[w].expected = blob.generation => blob.chunks \subseteq job[w].archive

SoleInv ==
    /\ StoreHoldsObject
    /\ \A w \in Workers : ArchiveHoldsObject(w)
    /\ AcknowledgedKept

LEMMA SoleInit == Init => SoleInv
  BY DEF Init, SoleInv, StoreHoldsObject, ArchiveHoldsObject, IdleJob,
         AcknowledgedKept

LEMMA SoleStep ==
    ASSUME SoleInstance, IInv, SoleInv, [Next]_vars
    PROVE  SoleInv'
<1> USE HostAssumption
<1>a. /\ blob.generation \in Nat
      /\ job \in [Workers -> Job]
      /\ store \in [Instances -> SUBSET Chunks]
      /\ up \in [Instances -> BOOLEAN]
  BY DEF IInv, TypeOK
<1>b. \A v \in Workers :
        /\ Host[v] \in Instances
        /\ job[v].expected \in Nat
        /\ job[v].expected <= blob.generation
        /\ job[v].pc # "idle" => up[Host[v]] /\ job[v].chunks \subseteq store[Host[v]]
  BY DEF IInv, TypeOK, Job, GenerationsSeen, RequestCarriesChunks
<1>c. blob.generation = 0 => blob.chunks = {}
  BY DEF IInv, GenerationsSeen
<1>0. CASE UNCHANGED vars
  BY <1>0 DEF vars, SoleInv, StoreHoldsObject, ArchiveHoldsObject, AcknowledgedKept
<1>1. ASSUME NEW i \in Instances, ColdStart(i) \/ ColdStartEmpty(i) PROVE SoleInv'
  <2>1. StoreHoldsObject'
    BY <1>1, <1>a, <1>c
       DEF ColdStart, ColdStartEmpty, SoleInstance, SoleInv, StoreHoldsObject
  <2>2. ASSUME NEW v \in Workers PROVE ArchiveHoldsObject(v)'
    \* No request runs on an instance that is down.
    BY <1>1, <1>a, <1>b DEF ColdStart, ColdStartEmpty, SoleInv, ArchiveHoldsObject
  <2> QED
    BY <1>1, <2>1, <2>2
       DEF ColdStart, ColdStartEmpty, SoleInv, AcknowledgedKept
<1>2. ASSUME NEW i \in Instances, Crash(i) PROVE SoleInv'
  BY <1>2, <1>a, <1>b
     DEF Crash, IdleJob, SoleInv, StoreHoldsObject, ArchiveHoldsObject,
         AcknowledgedKept
<1>3. ASSUME NEW w \in Workers, NEW batch \in Batches, AddChunks(w, batch)
      PROVE SoleInv'
  BY <1>3, <1>a, <1>b
     DEF AddChunks, IdleJob, SoleInv, StoreHoldsObject, ArchiveHoldsObject,
         AcknowledgedKept
<1>4. ASSUME NEW w \in Workers, UploadLands(w) \/ UploadResponseLost(w)
      PROVE SoleInv'
  \* The archive becomes the object; every other archive is now out of date.
  <2>1. /\ job[w].pc = "upload"
        /\ job[w].expected = blob.generation
        /\ blob'.chunks = job[w].archive
        /\ blob'.generation = blob.generation + 1
        /\ acknowledged' \subseteq acknowledged \cup job[w].archive
        /\ store' = store /\ up' = up
    BY <1>4 DEF UploadLands, UploadResponseLost, Precondition, StoreArchive
  <2>2. blob.chunks \subseteq job[w].archive /\ job[w].archive \subseteq store[Host[w]]
    BY <2>1 DEF SoleInv, ArchiveHoldsObject
  <2>3. StoreHoldsObject'
    BY <2>1, <2>2, <1>b DEF SoleInstance, StoreHoldsObject
  <2>4. job'[w].pc # "upload"
    BY <1>4, <1>a DEF UploadLands, UploadResponseLost, IdleJob, Job
  <2>5. ASSUME NEW v \in Workers PROVE ArchiveHoldsObject(v)'
    <3>1. v # w => job'[v] = job[v]
      BY <1>4, <1>a DEF UploadLands, UploadResponseLost
    <3> QED
      BY <2>1, <2>4, <3>1, <1>a, <1>b DEF SoleInv, ArchiveHoldsObject
  <2>6. AcknowledgedKept'
    BY <2>1, <2>2 DEF SoleInv, AcknowledgedKept
  <2> QED
    BY <2>3, <2>5, <2>6 DEF SoleInv
<1>5. ASSUME NEW w \in Workers, Merge(w) PROVE SoleInv'
  <2>1. blob.chunks \cup job[w].chunks \subseteq store[Host[w]]
    BY <1>5, <1>b DEF Merge, SoleInv, StoreHoldsObject
  <2> QED
    BY <1>5, <2>1, <1>a
       DEF Merge, SoleInv, StoreHoldsObject, ArchiveHoldsObject, AcknowledgedKept
<1>6. ASSUME NEW w \in Workers, BuildArchive(w) PROVE SoleInv'
  BY <1>6, <1>a, <1>b
     DEF BuildArchive, SoleInv, StoreHoldsObject, ArchiveHoldsObject,
         AcknowledgedKept
<1>7. ASSUME NEW w \in Workers,
             \/ ReadGeneration(w) \/ UploadConflicts(w) \/ UploadFails(w)
             \/ MergeRestoreFails(w) \/ GiveUp(w) \/ AdoptGeneration(w)
      PROVE SoleInv'
  <2>1. UNCHANGED <<blob, up, store, acknowledged>>
    BY <1>7 DEF ReadGeneration, UploadConflicts, UploadFails,
       MergeRestoreFails, GiveUp, AdoptGeneration
  <2>2. /\ job'[w].pc # "upload"
        /\ \A v \in Workers : v # w => job'[v] = job[v]
    BY <1>7, <1>a DEF ReadGeneration, UploadConflicts, UploadFails,
       MergeRestoreFails, GiveUp, AdoptGeneration, IdleJob, Job
  <2> QED
    BY <2>1, <2>2
       DEF SoleInv, StoreHoldsObject, ArchiveHoldsObject, AcknowledgedKept
<1> QED
  BY <1>0, <1>1, <1>2, <1>3, <1>4, <1>5, <1>6, <1>7 DEF Next, Save

THEOREM SoleInductive == ASSUME SoleInstance PROVE Spec => []SoleInv
<1>1. IInv /\ SoleInv /\ [Next]_vars => SoleInv'
  BY SoleStep
<1> QED
  BY SoleInit, <1>1, Inductive, PTL DEF Spec

\* With one instance whose restores succeed, what a successful save uploaded
\* is never lost from the shared object.
THEOREM SoleInstanceKeeps == ASSUME SoleInstance PROVE Spec => []AcknowledgedKept
<1>1. SoleInv => AcknowledgedKept
  BY DEF SoleInv
<1> QED
  BY <1>1, SoleInductive, PTL

-----------------------------------------------------------------------------
(* The refinement.                                                         *)

LEMMA RefinementInit == Init => Durable!Init
  BY DEF Init, Durable!Init

LEMMA RefinementStep ==
    ASSUME SoleInstance, IInv, SoleInv, [Next]_vars
    PROVE  [Durable!Next]_Durable!vars
<1> USE HostAssumption DEF Durable!vars
<1>0. CASE UNCHANGED vars
  BY <1>0 DEF vars
<1>1. ASSUME NEW i \in Instances, ColdStart(i) \/ ColdStartEmpty(i)
      PROVE Durable!Next
  <2>1. Durable!Start(i)
    BY <1>1 DEF ColdStart, ColdStartEmpty, Durable!Start, SoleInstance, IInv,
       GenerationsSeen
  <2> QED
    BY <2>1 DEF Durable!Next
<1>2. ASSUME NEW i \in Instances, Crash(i) PROVE Durable!Next
  BY <1>2 DEF Crash, Durable!Stop, Durable!Next
<1>3. ASSUME NEW w \in Workers, NEW batch \in Batches, AddChunks(w, batch)
      PROVE Durable!Next
  <2>1. Durable!Ingest(Host[w], batch)
    BY <1>3 DEF AddChunks, Durable!Ingest
  <2> QED
    BY <2>1, BatchAssumption DEF Durable!Next
<1>4. ASSUME NEW w \in Workers, UploadLands(w) \/ UploadResponseLost(w)
      PROVE Durable!Next
  <2>1. /\ blob.chunks \subseteq job[w].archive
        /\ job[w].archive \subseteq store[Host[w]]
        /\ up[Host[w]]
    BY <1>4 DEF UploadLands, UploadResponseLost, Precondition, SoleInv,
       ArchiveHoldsObject, IInv, RequestCarriesChunks
  <2>2. blob'.chunks = blob.chunks \cup job[w].archive
    BY <1>4, <2>1 DEF UploadLands, UploadResponseLost, StoreArchive
  <2>3. Durable!Persist(Host[w], job[w].archive)
    BY <1>4, <2>1, <2>2 DEF UploadLands, UploadResponseLost, Durable!Persist
  <2>4. job[w].archive \in SUBSET Chunks
    BY DEF IInv, TypeOK, Job
  <2> QED
    BY <2>3, <2>4 DEF Durable!Next
<1>5. ASSUME NEW w \in Workers,
             \/ ReadGeneration(w) \/ BuildArchive(w) \/ UploadConflicts(w)
             \/ UploadFails(w) \/ Merge(w) \/ MergeRestoreFails(w)
             \/ GiveUp(w) \/ AdoptGeneration(w)
      PROVE UNCHANGED Durable!vars
  BY <1>5 DEF ReadGeneration, BuildArchive, UploadConflicts, UploadFails,
     Merge, MergeRestoreFails, GiveUp, AdoptGeneration
<1> QED
  BY <1>0, <1>1, <1>2, <1>3, <1>4, <1>5 DEF Next, Save

\* With one instance whose restores succeed, every behaviour of the protocol
\* is one of the durable corpus: the object only grows, and every cold start
\* serves all of it.
THEOREM SoleInstanceImplements ==
    ASSUME SoleInstance PROVE Spec => ImplementsDurableCorpus
<1>1. IInv /\ SoleInv /\ [Next]_vars => [Durable!Next]_Durable!vars
  BY RefinementStep
<1> QED
  BY RefinementInit, <1>1, SoleInductive, Inductive, PTL
     DEF Spec, ImplementsDurableCorpus, Durable!Spec

=============================================================================
