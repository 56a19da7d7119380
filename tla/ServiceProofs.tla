---------------------------- MODULE ServiceProofs ----------------------------
(***************************************************************************)
(* Proofs about Service, for any requests, endpoints, texts, versions and  *)
(* size of the pool: what an unauthorised request, a garbled body, a       *)
(* degraded instance and an edited prompt can never lead to.               *)
(***************************************************************************)
EXTENDS Service, TLAPS

Inside == {"admitted", "running", "finished"}
Decoded == {"decoded"} \cup Inside

\* A request that may go through the dependencies.
Admitted(r) ==
    /\ Endpoint[r] \in METERED_PATHS => r \in keyed
    /\ Endpoint[r] # "/health" => pipeline

\* What a request is answered that does not get past the dependencies.
Refusals(r) ==
    {429} \cup IF r \in garbled
                THEN BodyErrors(Endpoint[r])
                ELSE IF Endpoint[r] \in METERED_PATHS /\ r \notin keyed THEN {401} ELSE {503}

\* Where a request may be, by its body, its key and the pipeline.
GuardedAt(r) ==
    /\ Endpoint[r] = "/health" => answer[r] \in {NoAnswer, 200}
    /\ r \in garbled => stage[r] \notin Decoded
    /\ ~Admitted(r) => stage[r] \notin Inside /\ answer[r] \in {NoAnswer} \cup Refusals(r)

Guarded == \A r \in Requests : GuardedAt(r)

\* No request is there before the process serves.
Quiet ==
    app \in {"down", "starting"} =>
        \A r \in Requests : stage[r] = "new" /\ answer[r] = NoAnswer

\* A process runs under the prompts it loaded, and the lock was once written.
Attributed ==
    /\ lock \in released \cup {None}
    /\ app # "down" => prompts \in PromptSet /\ CleanlyAttributed(prompts)
    /\ RunsCleanlyAttributed

-----------------------------------------------------------------------------
(* Types.                                                                  *)

\* The attributes of the requests and who holds the loop.
AttributesOK ==
    /\ keyed \subseteq Requests
    /\ garbled \subseteq {r \in Requests : Endpoint[r] \in METERED_PATHS}
    /\ loop \in Requests \cup {Free}

LEMMA InitTypes == Init => TypeOK
<1> SUFFICES ASSUME Init PROVE TypeOK
  OBVIOUS
<1>1. PromptTypeOK
  <2>1. files \in [Templates -> Texts]
    BY PromptAssumption DEF Init, PromptInit
  <2> QED
    BY <2>1 DEF Init, PromptInit, PromptTypeOK
<1>2. stage \in [Requests -> Stages] /\ answer \in [Requests -> Codes \cup {NoAnswer}]
  BY DEF Init, Stages
<1>3. \A r \in Requests : stage[r] = "new" /\ answer[r] = NoAnswer
  BY DEF Init
<1>4. \A r \in Requests : (stage[r] \in {"finished", "answered"}) = (answer[r] # NoAnswer)
  BY <1>3
<1>5. /\ app \in {"down", "starting", "serving", "stopping"}
      /\ pipeline \in BOOLEAN
      /\ loop \in Requests \cup {Free}
      /\ keyed \subseteq Requests
      /\ garbled \subseteq {r \in Requests : Endpoint[r] \in METERED_PATHS}
      /\ recorded \subseteq PromptSet
  BY DEF Init
<1> QED
  BY <1>1, <1>2, <1>4, <1>5 DEF TypeOK

LEMMA CodesAreAnswers == NoAnswer \notin Codes
  BY DEF NoAnswer, Codes

\* ReadLock makes a prompt set of any loadable files.
LEMMA ReadLockTypes ==
  ASSUME PromptTypeOK, Loadable
  PROVE  ReadLock \in PromptSet
<1>1. files \in [Templates -> Valid]
  BY DEF PromptTypeOK, Loadable
<1>2. CASE lock = None
  BY <1>1, <1>2 DEF ReadLock, PromptSet
<1>3. CASE lock # None
  <2>1. Declared(lock.version) \in Versions \cup {UNVERSIONED}
    BY <1>3 DEF PromptTypeOK, Lock, Declared
  <2> QED
    BY <1>1, <1>3, <2>1 DEF ReadLock, PromptSet
<1> QED
  BY <1>2, <1>3

LEMMA AuthorTypes ==
  ASSUME PromptTypeOK, Author
  PROVE  PromptTypeOK'
<1>1. CASE \E t \in Templates, text \in Texts : Edit(t, text)
  BY <1>1 DEF Edit, PromptTypeOK
<1>2. CASE \E version \in Versions : LockPrompts(version)
  <2>1. PICK version \in Versions : LockPrompts(version)
    BY <1>2
  <2>2. files \in [Templates -> Valid]
    BY <2>1 DEF LockPrompts, Loadable, PromptTypeOK
  <2>3. lock' \in Lock
    BY <2>1, <2>2 DEF LockPrompts, Lock
  <2> QED
    BY <2>1, <2>3 DEF LockPrompts, PromptTypeOK
<1>3. CASE LoseLock
  BY <1>3 DEF LoseLock, PromptTypeOK
<1> QED
  BY <1>1, <1>2, <1>3 DEF Author

\* The two ways a request goes on keep the types.
LEMMA AdvanceTypes ==
  ASSUME TypeOK, NEW r \in Requests, NEW from \in Stages, NEW to \in Stages,
         Advance(r, from, to), (from \in {"finished", "answered"}) = (to \in {"finished", "answered"}),
         AttributesOK'
  PROVE  TypeOK'
  BY DEF AttributesOK, TypeOK, PromptTypeOK, Advance, promptVars

LEMMA AnswerTypes ==
  ASSUME TypeOK, NEW r \in Requests, NEW from, NEW code \in Codes, Answer(r, from, code),
         AttributesOK'
  PROVE  TypeOK'
<1>1. answer' \in [Requests -> Codes \cup {NoAnswer}] /\ stage' \in [Requests -> Stages]
  BY DEF TypeOK, Answer, Stages
<1>2. \A q \in Requests : (stage'[q] \in {"finished", "answered"}) = (answer'[q] # NoAnswer)
  BY CodesAreAnswers DEF TypeOK, Answer
<1> QED
  BY <1>1, <1>2 DEF AttributesOK, TypeOK, PromptTypeOK, Answer, promptVars

LEMMA FinishTypes ==
  ASSUME TypeOK, Attributed, NEW r \in Requests, Finish(r)
  PROVE  TypeOK'
<1>1. PICK code \in Outcomes(Endpoint[r]) : Ends(r, code)
  BY DEF Finish
<1>2. code \in Codes
  BY DEF Outcomes, Codes
<1>3. answer' \in [Requests -> Codes \cup {NoAnswer}] /\ stage' \in [Requests -> Stages]
  BY <1>1, <1>2 DEF TypeOK, Ends, Stages
<1>4. \A q \in Requests : (stage'[q] \in {"finished", "answered"}) = (answer'[q] # NoAnswer)
  BY <1>1, <1>2, CodesAreAnswers DEF TypeOK, Ends
<1>5. recorded' \subseteq PromptSet
  BY <1>1 DEF TypeOK, Attributed, Ends, Up
<1>6. AttributesOK'
  BY <1>1 DEF AttributesOK, TypeOK, Finish, Ends
<1>7. PromptTypeOK'
  BY <1>1 DEF TypeOK, PromptTypeOK, Ends, promptVars
<1>8. app' \in {"down", "starting", "serving", "stopping"} /\ pipeline' \in BOOLEAN
  BY <1>1 DEF TypeOK, Ends
<1> QED
  BY <1>3, <1>4, <1>5, <1>6, <1>7, <1>8 DEF TypeOK, AttributesOK

LEMMA GoneTypes ==
  ASSUME TypeOK, Gone
  PROVE  TypeOK'
<1>1. PromptTypeOK'
  BY DEF TypeOK, PromptTypeOK, Gone
<1>2. stage' \in [Requests -> Stages] /\ answer' \in [Requests -> Codes \cup {NoAnswer}]
  BY DEF Gone, Stages
<1>3. \A q \in Requests : (stage'[q] \in {"finished", "answered"}) = (answer'[q] # NoAnswer)
  BY DEF Gone
<1>4. /\ app' \in {"down", "starting", "serving", "stopping"}
      /\ pipeline' \in BOOLEAN
      /\ loop' \in Requests \cup {Free}
      /\ keyed' \subseteq Requests
      /\ garbled' \subseteq {r \in Requests : Endpoint[r] \in METERED_PATHS}
      /\ recorded' \subseteq PromptSet
  BY DEF Gone
<1> QED
  BY <1>1, <1>2, <1>3, <1>4 DEF TypeOK

\* Every step of a request is one of these.
LEMMA ServeTypes ==
  ASSUME TypeOK, Attributed, NEW r \in Requests, Receive(r) \/ Serve(r)
  PROVE  TypeOK'
<1>1. CASE Receive(r)
  <2>1. AttributesOK'
    BY <1>1 DEF AttributesOK, TypeOK, Receive
  <2> QED
    BY <1>1, <2>1, AdvanceTypes DEF Receive, Stages
<1>2. CASE Serve(r) /\ ~Finish(r) /\ ~StartUpload(r)
  <2>1. AttributesOK'
    BY <1>2 DEF AttributesOK, TypeOK, Serve, Middleware, Decode, Depends, StartThread, Respond
  <2>2. CASE Middleware(r)
    BY <2>1, <2>2, AdvanceTypes, AnswerTypes DEF Middleware, Stages, Codes
  <2>2a. CASE Decode(r)
    <3>1. BodyErrors(Endpoint[r]) \subseteq Codes
      BY DEF BodyErrors, Codes
    <3> QED
      BY <2>1, <2>2a, <3>1, AdvanceTypes, AnswerTypes DEF Decode, Stages
  <2>3. CASE Depends(r)
    BY <2>1, <2>3, AdvanceTypes, AnswerTypes DEF Depends, Stages, Codes
  <2>4. CASE StartThread(r)
    BY <2>1, <2>4, AdvanceTypes DEF StartThread, Stages
  <2>5. CASE Respond(r)
    BY <2>1, <2>5, AdvanceTypes DEF Respond, Stages
  <2> QED
    BY <1>2, <2>2, <2>2a, <2>3, <2>4, <2>5 DEF Serve
<1>3. CASE StartUpload(r)
  <2>1. AttributesOK'
    BY <1>3 DEF AttributesOK, TypeOK, StartUpload
  <2>2. CASE \E code \in {400, 413, 415} : Answer(r, "admitted", code)
    BY <2>1, <2>2, AnswerTypes DEF Codes
  <2>3. CASE Advance(r, "admitted", "running")
    BY <2>1, <2>3, AdvanceTypes DEF Stages
  <2> QED
    BY <1>3, <2>2, <2>3 DEF StartUpload
<1>4. CASE Finish(r)
  BY <1>4, FinishTypes
<1> QED
  BY <1>1, <1>2, <1>3, <1>4 DEF Serve

LEMMA StepTypes ==
  ASSUME TypeOK, Attributed, [Next]_vars
  PROVE  TypeOK'
<1>1. CASE Repository
  BY <1>1, AuthorTypes DEF Repository, TypeOK, serviceVars
<1>2. CASE Import
  <2>1. PromptTypeOK'
    BY <1>2, ReadLockTypes DEF Import, LoadPromptSet, TypeOK, PromptTypeOK
  <2> QED
    BY <1>2, <2>1 DEF Import, TypeOK
<1>3. CASE Startup \/ Terminate
  BY <1>3 DEF Startup, Terminate, TypeOK, PromptTypeOK, promptVars
<1>4. CASE Shutdown \/ Kill
  BY <1>4, GoneTypes DEF Shutdown, Kill
<1>5. CASE \E r \in Requests : Receive(r) \/ Serve(r)
  BY <1>5, ServeTypes
<1>6. CASE UNCHANGED vars
  BY <1>6 DEF vars, promptVars, serviceVars, TypeOK, PromptTypeOK
<1> QED
  BY <1>1, <1>2, <1>3, <1>4, <1>5, <1>6 DEF Next

-----------------------------------------------------------------------------
(* Prompts.                                                                *)

LEMMA StepAttributes ==
  ASSUME TypeOK, Attributed, [Next]_vars
  PROVE  Attributed'
<1>1. CASE Repository
  <2>1. released \subseteq released' /\ prompts' = prompts
    BY <1>1 DEF Repository, Author, Edit, LockPrompts, LoseLock
  <2>2. lock' \in released' \cup {None}
    BY <1>1 DEF Repository, Author, Edit, LockPrompts, LoseLock, Attributed
  <2>3. app' = "down" /\ recorded' = recorded
    BY <1>1 DEF Repository, serviceVars
  <2>4. RunsCleanlyAttributed'
    BY <2>1, <2>3 DEF Attributed, RunsCleanlyAttributed, CleanlyAttributed
  <2> QED
    BY <2>2, <2>3, <2>4 DEF Attributed
<1>2. CASE Import
  <2>1. /\ prompts' = ReadLock
        /\ UNCHANGED <<files, lock, released, recorded>>
        /\ Loadable
    BY <1>2 DEF Import, LoadPromptSet
  <2>2. ReadLock \in PromptSet
    BY <2>1, ReadLockTypes DEF TypeOK
  <2>3. CleanlyAttributed(ReadLock)
    <3>1. CASE lock = None
      BY <3>1 DEF ReadLock, CleanlyAttributed
    <3>2. CASE lock # None /\ \A t \in Templates : lock.templates[t] = files[t]
      <4>1. lock \in Lock /\ lock \in released
        BY <3>2 DEF TypeOK, PromptTypeOK, Attributed
      <4>2. lock.templates = files
        <5>1. lock.templates \in [Templates -> Valid] /\ files \in [Templates -> Texts]
          BY <4>1 DEF Lock, TypeOK, PromptTypeOK
        <5> QED
          BY <3>2, <5>1
      <4>3. ReadLock.version = Declared(lock.version) /\ ReadLock.text = files
        BY <3>2 DEF ReadLock
      <4> QED
        BY <4>1, <4>2, <4>3 DEF CleanlyAttributed
    <3>3. CASE lock # None /\ ~(\A t \in Templates : lock.templates[t] = files[t])
      BY <3>3 DEF ReadLock, CleanlyAttributed
    <3> QED
      BY <3>1, <3>2, <3>3
  <2> QED
    BY <2>1, <2>2, <2>3 DEF Attributed, RunsCleanlyAttributed, CleanlyAttributed
<1>3. CASE Startup \/ Terminate
  BY <1>3 DEF Startup, Terminate, Attributed, RunsCleanlyAttributed, CleanlyAttributed, promptVars
<1>4. CASE Shutdown \/ Kill
  BY <1>4 DEF Shutdown, Kill, Gone, Attributed, RunsCleanlyAttributed, CleanlyAttributed
<1>5. ASSUME NEW r \in Requests, Receive(r) \/ Serve(r)
      PROVE  Attributed'
  <2>1. UNCHANGED <<promptVars, app>> /\ app # "down"
    BY <1>5 DEF Receive, Serve, Middleware, Decode, Depends, StartThread, StartUpload, Finish,
                Respond, Advance, Answer, Ends, Up
  <2>2. recorded' \subseteq recorded \cup {prompts}
    BY <1>5 DEF Receive, Serve, Middleware, Decode, Depends, StartThread, StartUpload, Finish,
                Respond, Advance, Answer, Ends
  <2> QED
    BY <2>1, <2>2 DEF Attributed, RunsCleanlyAttributed, CleanlyAttributed, promptVars
<1>6. CASE UNCHANGED vars
  BY <1>6 DEF vars, promptVars, serviceVars, Attributed, RunsCleanlyAttributed, CleanlyAttributed
<1> QED
  BY <1>1, <1>2, <1>3, <1>4, <1>5, <1>6 DEF Next

-----------------------------------------------------------------------------
(* Keys and the pipeline.                                                  *)

\* Neither the key, nor the body, nor the pipeline of a request changes while it
\* is served.
Settled == UNCHANGED <<keyed, garbled, pipeline>>

LEMMA SettledKeeps ==
  ASSUME Settled, NEW r \in Requests
  PROVE  Admitted(r)' = Admitted(r) /\ Refusals(r)' = Refusals(r)
  BY DEF Settled, Admitted, Refusals

LEMMA AdvanceGuards ==
  ASSUME TypeOK, Guarded, Settled, NEW r \in Requests, NEW from, NEW to, Advance(r, from, to),
         to \in Decoded => from \in Decoded \/ r \notin garbled,
         to \in Inside => from \in Inside \/ Admitted(r)
  PROVE  Guarded'
<1> SUFFICES ASSUME NEW q \in Requests PROVE GuardedAt(q)'
  BY DEF Guarded
<1>1. answer'[q] = answer[q] /\ stage'[q] = IF q = r THEN to ELSE stage[q]
  BY DEF Advance, TypeOK
<1>2. q = r => stage[q] = from
  BY DEF Advance
<1>3. garbled' = garbled /\ Admitted(q)' = Admitted(q) /\ Refusals(q)' = Refusals(q)
  BY SettledKeeps DEF Settled
<1> QED
  BY <1>1, <1>2, <1>3 DEF Guarded, GuardedAt

LEMMA AnswerGuards ==
  ASSUME TypeOK, Guarded, Settled, NEW r \in Requests, NEW to, NEW code,
         stage' = [stage EXCEPT ![r] = to], answer' = [answer EXCEPT ![r] = code],
         Endpoint[r] = "/health" => code = 200,
         to \in Decoded => stage[r] \in Decoded,
         to \in Inside \/ code \notin Refusals(r) => Admitted(r)
  PROVE  Guarded'
<1> SUFFICES ASSUME NEW q \in Requests PROVE GuardedAt(q)'
  BY DEF Guarded
<1>1. /\ answer'[q] = IF q = r THEN code ELSE answer[q]
      /\ stage'[q] = IF q = r THEN to ELSE stage[q]
  BY DEF TypeOK
<1>2. garbled' = garbled /\ Admitted(q)' = Admitted(q) /\ Refusals(q)' = Refusals(q)
  BY SettledKeeps DEF Settled
<1> QED
  BY <1>1, <1>2 DEF Guarded, GuardedAt

LEMMA RefuseGuards ==
  ASSUME TypeOK, Guarded, Settled, NEW r \in Requests, NEW from, NEW code, Answer(r, from, code),
         Endpoint[r] # "/health", code \in Refusals(r) \/ Admitted(r)
  PROVE  Guarded'
<1>1. stage' = [stage EXCEPT ![r] = "answered"] /\ answer' = [answer EXCEPT ![r] = code]
  BY DEF Answer
<1>2. "answered" \notin Inside /\ "answered" \notin Decoded
  BY DEF Inside, Decoded
<1>3. "answered" \in Decoded => stage[r] \in Decoded
  BY <1>2
<1>4. "answered" \in Inside \/ code \notin Refusals(r) => Admitted(r)
  BY <1>2
<1> QED
  BY <1>1, <1>3, <1>4, AnswerGuards, Zenon

\* A request inside went through the dependencies.
LEMMA InsideIsAdmitted ==
  ASSUME Guarded, NEW r \in Requests, stage[r] \in Inside
  PROVE  Admitted(r)
  BY DEF Guarded, GuardedAt

\* A request is new to the process: nothing was answered.
LEMMA ReceiveGuards ==
  ASSUME TypeOK, Guarded, NEW r \in Requests, Receive(r)
  PROVE  Guarded'
<1> SUFFICES ASSUME NEW q \in Requests PROVE GuardedAt(q)'
  BY DEF Guarded
<1>1. CASE q = r
  <2>1. stage'[q] = "received" /\ answer'[q] = NoAnswer
    BY <1>1 DEF Receive, Advance, TypeOK
  <2>2. "received" \notin Inside /\ "received" \notin Decoded
    BY DEF Inside, Decoded
  <2> QED
    BY <2>1, <2>2 DEF GuardedAt
<1>2. CASE q # r
  <2>1. stage'[q] = stage[q] /\ answer'[q] = answer[q] /\ pipeline' = pipeline
    BY <1>2 DEF Receive, Advance, TypeOK
  <2>2. (q \in keyed') = (q \in keyed) /\ (q \in garbled') = (q \in garbled)
    BY <1>2 DEF Receive
  <2>3. Admitted(q)' = Admitted(q) /\ Refusals(q)' = Refusals(q)
    BY <2>1, <2>2 DEF Admitted, Refusals
  <2> QED
    BY <2>1, <2>2, <2>3 DEF Guarded, GuardedAt
<1> QED
  BY <1>1, <1>2

LEMMA ServeGuards ==
  ASSUME TypeOK, Guarded, NEW r \in Requests, Serve(r)
  PROVE  Guarded'
<1>a. Settled
  BY DEF Serve, Middleware, Decode, Depends, StartThread, StartUpload, Finish, Respond,
         Advance, Answer, Ends, Settled
<1>b. "/health" \notin METERED_PATHS
  BY DEF METERED_PATHS
<1>c. /\ "routed" \notin Decoded /\ "answered" \notin Decoded
      /\ "decoded" \in Decoded /\ "decoded" \notin Inside
      /\ Inside \subseteq Decoded /\ Inside = {"admitted", "running", "finished"}
  BY DEF Inside, Decoded
<1>2. CASE Middleware(r)
  <2>1. CASE Advance(r, "received", "routed")
    BY <1>a, <1>c, <2>1, AdvanceGuards
  <2>3. CASE Endpoint[r] \notin METERED_PATHS /\ Advance(r, "received", "decoded")
    <3>1. r \notin garbled
      BY <2>3 DEF TypeOK
    <3> QED
      BY <1>a, <1>c, <2>3, <3>1, AdvanceGuards
  <2>2. CASE Endpoint[r] \in METERED_PATHS /\ Answer(r, "received", 429)
    BY <1>a, <1>b, <2>2, RefuseGuards DEF Refusals
  <2> QED
    BY <1>2, <2>1, <2>2, <2>3 DEF Middleware
<1>3. CASE Decode(r)
  <2>1. ASSUME r \in garbled, NEW code \in BodyErrors(Endpoint[r]), Answer(r, "routed", code)
        PROVE  Guarded'
    <3>1. Endpoint[r] # "/health"
      BY <1>b, <2>1 DEF TypeOK
    <3>2. code \in Refusals(r)
      BY <2>1 DEF Refusals
    <3> QED
      BY <1>a, <2>1, <3>1, <3>2, RefuseGuards
  <2>2. CASE r \notin garbled /\ Advance(r, "routed", "decoded")
    BY <1>a, <1>c, <2>2, AdvanceGuards
  <2> QED
    BY <1>3, <2>1, <2>2 DEF Decode
<1>4. CASE Depends(r)
  <2>1. stage[r] = "decoded" /\ r \notin garbled
    <3>1. stage[r] = "decoded"
      BY <1>4 DEF Depends, Advance, Answer
    <3> QED
      BY <1>c, <3>1 DEF Guarded, GuardedAt
  <2>2. CASE /\ Endpoint[r] \in METERED_PATHS /\ r \notin keyed
             /\ Answer(r, "decoded", 401)
    <3>1. 401 \in Refusals(r)
      BY <2>1, <2>2 DEF Refusals
    <3> QED
      BY <1>a, <1>b, <2>2, <3>1, RefuseGuards
  <2>3. CASE /\ Endpoint[r] \in METERED_PATHS => r \in keyed
             /\ Endpoint[r] # "/health" /\ Answer(r, "decoded", 503)
    <3>1. 503 \in Refusals(r)
      BY <2>1, <2>3 DEF Refusals
    <3> QED
      BY <1>a, <2>3, <3>1, RefuseGuards
  <2>4. CASE Admitted(r) /\ Advance(r, "decoded", "admitted")
    BY <1>a, <2>1, <2>4, AdvanceGuards
  <2>5. CASE Admitted(r) /\ Endpoint[r] \in METERED_PATHS /\ Answer(r, "decoded", 422)
    BY <1>a, <1>b, <2>5, RefuseGuards
  <2> QED
    BY <1>4, <2>2, <2>3, <2>4, <2>5 DEF Depends, Admitted
<1>5. CASE StartThread(r)
  <2>1. Advance(r, "admitted", "running")
    BY <1>5 DEF StartThread
  <2> QED
    BY <1>a, <1>c, <2>1, AdvanceGuards
<1>6. CASE StartUpload(r)
  <2>1. ASSUME NEW code \in {400, 413, 415}, Answer(r, "admitted", code)
        PROVE  Guarded'
    <3>1. Admitted(r)
      BY <1>c, <2>1, InsideIsAdmitted DEF Answer
    <3>2. Endpoint[r] # "/health"
      BY <1>6 DEF StartUpload
    <3> QED
      BY <1>a, <2>1, <3>1, <3>2, RefuseGuards
  <2>2. CASE Advance(r, "admitted", "running")
    BY <1>a, <1>c, <2>2, AdvanceGuards
  <2> QED
    BY <1>6, <2>1, <2>2 DEF StartUpload
<1>7. CASE Finish(r)
  <2>1. PICK code \in Outcomes(Endpoint[r]) : Ends(r, code)
    BY <1>7 DEF Finish
  <2>2. Endpoint[r] = "/health" => code = 200
    BY <2>1 DEF Outcomes
  <2>3. stage[r] \in Inside
    BY <1>c, <2>1 DEF Ends
  <2>4. stage' = [stage EXCEPT ![r] = "finished"] /\ answer' = [answer EXCEPT ![r] = code]
    BY <2>1 DEF Ends
  <2>5. Admitted(r) /\ stage[r] \in Decoded
    BY <1>c, <2>3, InsideIsAdmitted
  <2> QED
    BY <1>a, <2>2, <2>4, <2>5, AnswerGuards, Zenon
<1>8. CASE Respond(r)
  <2>1. Advance(r, "finished", "answered")
    BY <1>8 DEF Respond
  <2> QED
    BY <1>a, <1>c, <2>1, AdvanceGuards
<1> QED
  BY <1>2, <1>3, <1>4, <1>5, <1>6, <1>7, <1>8 DEF Serve

LEMMA StepGuards ==
  ASSUME TypeOK, Guarded, Quiet, [Next]_vars
  PROVE  Guarded' /\ Quiet'
<1>a. (\A r \in Requests : stage'[r] = "new" /\ answer'[r] = NoAnswer) => Guarded'
  <2>1. "new" \notin Decoded /\ "new" \notin Inside
    BY DEF Decoded, Inside
  <2> QED
    BY <2>1 DEF Guarded, GuardedAt
<1>1. CASE Repository \/ UNCHANGED vars
  BY <1>1 DEF Repository, vars, serviceVars, Guarded, GuardedAt, Admitted, Refusals, Quiet
<1>2. CASE Import \/ Terminate
  BY <1>2 DEF Import, Terminate, Guarded, GuardedAt, Admitted, Refusals, Quiet
<1>3. CASE Startup
  <2>1. \A r \in Requests : stage'[r] = "new" /\ answer'[r] = NoAnswer
    BY <1>3 DEF Startup, Quiet
  <2> QED
    BY <1>a, <1>3, <2>1 DEF Startup, Quiet
<1>4. CASE Shutdown \/ Kill
  <2>1. \A r \in Requests : stage'[r] = "new" /\ answer'[r] = NoAnswer
    BY <1>4 DEF Shutdown, Kill, Gone
  <2> QED
    BY <1>a, <2>1 DEF Quiet
<1>5. ASSUME NEW r \in Requests, Receive(r) \/ Serve(r)
      PROVE  Guarded' /\ Quiet'
  <2>1. Guarded'
    BY <1>5, ServeGuards, ReceiveGuards
  <2>2. app' = app /\ app \in {"serving", "stopping"}
    BY <1>5 DEF Receive, Serve, Middleware, Decode, Depends, StartThread, StartUpload, Finish,
                Respond, Advance, Answer, Ends, Up
  <2> QED
    BY <2>1, <2>2 DEF Quiet
<1> QED
  BY <1>1, <1>2, <1>3, <1>4, <1>5 DEF Next

-----------------------------------------------------------------------------
(* Theorems.                                                               *)

IInv == TypeOK /\ Attributed /\ Guarded /\ Quiet

LEMMA InitIInv == Init => IInv
<1> SUFFICES ASSUME Init PROVE IInv
  OBVIOUS
<1>1. TypeOK
  BY InitTypes
<1>2. Attributed
  BY DEF Init, PromptInit, Attributed, RunsCleanlyAttributed
<1>3. \A r \in Requests : stage[r] = "new" /\ answer[r] = NoAnswer
  BY DEF Init
<1>4. Guarded
  <2>1. "new" \notin Decoded /\ "new" \notin Inside
    BY DEF Decoded, Inside
  <2> QED
    BY <1>3, <2>1 DEF Guarded, GuardedAt
<1> QED
  BY <1>1, <1>2, <1>3, <1>4 DEF IInv, Quiet

LEMMA IInvHolds == Spec => []IInv
<1>1. IInv /\ [Next]_vars => IInv'
  BY StepTypes, StepAttributes, StepGuards DEF IInv
<1> QED
  BY <1>1, InitIInv, PTL DEF Spec

\* The type invariant: a request has an answer exactly when it is finished or
\* answered, whatever the endpoints and whenever the process goes.
THEOREM TypeCorrect == Spec => []TypeOK
<1>1. IInv => TypeOK
  BY DEF IInv
<1> QED
  BY <1>1, IInvHolds, PTL

\* No query is logged as clean under a version that was never locked to the
\* texts it was answered with, whatever is edited, locked again or lost
\* between two processes (prompts.py:22).
THEOREM AttributionHolds == Spec => []RunsCleanlyAttributed
<1>1. IInv => RunsCleanlyAttributed
  BY DEF IInv, Attributed
<1> QED
  BY <1>1, IInvHolds, PTL

\* A request without the key never runs an endpoint that spends, nor is it
\* answered with a success, for any number of requests and threads
\* (require_api_key, dependencies.py:101-117).
THEOREM AuthorisedSpendOnly == Spec => []OnlyAuthorisedSpend
<1>1. IInv => OnlyAuthorisedSpend
  BY DEF IInv, Guarded, GuardedAt, Admitted, Refusals, BodyErrors, Inside,
         OnlyAuthorisedSpend, NoAnswer
<1> QED
  BY <1>1, IInvHolds, PTL

\* Of an instance that could not build its pipeline every request but /health
\* learns either what was wrong with itself (too many, a garbled body, no key)
\* or, by a 503, what is wrong with the instance; and /health is answered 200 in
\* every mode (main.py:71-73).
THEOREM DegradedDiagnosable == Spec => []DegradedIsDiagnosable
<1>1. IInv => DegradedIsDiagnosable
  <2> SUFFICES ASSUME IInv, NEW r \in Requests, answer[r] # NoAnswer
               PROVE  IF Endpoint[r] = "/health"
                        THEN answer[r] = 200
                        ELSE ~pipeline =>
                               \/ answer[r] = 429
                               \/ r \in garbled /\ answer[r] \in BodyErrors(Endpoint[r])
                               \/ /\ r \notin garbled
                                  /\ answer[r] = (IF r \in keyed \/ Endpoint[r] = "/ready"
                                                  THEN 503 ELSE 401)
    BY DEF DegradedIsDiagnosable
  <2>1. CASE Endpoint[r] = "/health"
    BY <2>1 DEF IInv, Guarded, GuardedAt
  <2>2. CASE Endpoint[r] # "/health" /\ ~pipeline
    <3>1. answer[r] \in Refusals(r)
      BY <2>2 DEF IInv, Guarded, GuardedAt, Admitted
    <3>2. Endpoint[r] \in METERED_PATHS \/ Endpoint[r] = "/ready"
      BY <2>2, ServiceAssumption DEF Endpoints, METERED_PATHS
    <3>3. Endpoint[r] = "/ready" => Endpoint[r] \notin METERED_PATHS
      BY DEF METERED_PATHS
    <3> QED
      BY <2>2, <3>1, <3>2, <3>3 DEF Refusals
  <2> QED
    BY <2>1, <2>2
<1> QED
  BY <1>1, IInvHolds, PTL

=============================================================================
