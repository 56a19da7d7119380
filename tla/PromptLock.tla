------------------------------ MODULE PromptLock ------------------------------
(***************************************************************************)
(* The prompts of the service (app/rag/prompts.py) and the script that     *)
(* pins them (scripts/lock_prompts.py).  A developer edits the template    *)
(* files and locks a version to them; a process reads files and lock once, *)
(* when app.rag.prompts is imported.                                       *)
(*                                                                         *)
(* A text is its content: the code compares SHA-256 hashes of texts, which *)
(* are taken to be injective.  Valid are the texts _validate accepts: not  *)
(* empty, promising the refusal sentence, with the placeholders declared.  *)
(***************************************************************************)
CONSTANTS
    Templates,  \* names of the template files
    Texts,
    Valid,      \* the texts that pass _validate
    Versions,   \* what --version may be given, a blank one too
    Blank,      \* a version of white space only
    UNVERSIONED,
    None        \* no lock that parses as JSON, or no process

ASSUME PromptAssumption ==
    /\ Valid \subseteq Texts
    /\ UNVERSIONED \notin Versions

VARIABLES
    files,    \* the text of every template file
    lock,     \* prompts.lock.json
    released, \* history: every version and set of texts that was locked
    prompts   \* PROMPTS of the running process

promptVars == <<files, lock, released, prompts>>

Lock == [version : Versions, templates : [Templates -> Valid]]

PromptSet == [version : Versions \cup {UNVERSIONED},
              text    : [Templates -> Valid],
              locked  : BOOLEAN]

PromptTypeOK ==
    /\ files \in [Templates -> Texts]
    /\ lock \in Lock \cup {None}
    /\ released \subseteq Lock
    /\ prompts \in PromptSet \cup {None}

PromptInit ==
    /\ files \in [Templates -> Valid]
    /\ lock = None
    /\ released = {}
    /\ prompts = None

-----------------------------------------------------------------------------
Edit(t, text) ==
    /\ files' = [files EXCEPT ![t] = text]
    /\ UNCHANGED <<lock, released, prompts>>

\* load_templates raises a PromptError for the first text that is not valid.
Loadable == \A t \in Templates : files[t] \in Valid

\* lock_prompts.py without --check: any version may be given, an old one too.
LockPrompts(version) ==
    /\ Loadable
    /\ lock' = [version |-> version, templates |-> files]
    /\ released' = released \cup {lock'}
    /\ UNCHANGED <<files, prompts>>

\* The lock is deleted, or left with a merge conflict in it.
LoseLock ==
    /\ lock' = None
    /\ UNCHANGED <<files, released, prompts>>

\* The version a lock declares to its reader: a blank one is none.
Declared(version) == IF version = Blank THEN UNVERSIONED ELSE version

\* Mutant: any lock that parses is believed.
ReadLockTrusting ==
    IF lock = None
      THEN [version |-> UNVERSIONED, text |-> files, locked |-> FALSE]
      ELSE [version |-> Declared(lock.version), text |-> files, locked |-> TRUE]

\* _read_lock: a lock that cannot be read tags the process unversioned; one
\* that can is compared with the text of every template.
ReadLock ==
    IF lock = None
      THEN [version |-> UNVERSIONED, text |-> files, locked |-> FALSE]
      ELSE [version |-> Declared(lock.version),
            text    |-> files,
            locked  |-> \A t \in Templates : lock.templates[t] = files[t]]

\* load_prompt_set at import: templates first, then the lock.
LoadPromptSet ==
    /\ Loadable
    /\ prompts' = ReadLock
    /\ UNCHANGED <<files, lock, released>>

Author ==
    \/ \E t \in Templates, text \in Texts : Edit(t, text)
    \/ \E version \in Versions : LockPrompts(version)
    \/ LoseLock

PromptNext == Author \/ LoadPromptSet

PromptSpec == PromptInit /\ [][PromptNext]_promptVars

-----------------------------------------------------------------------------
\* "no run is ever attributed to a clean version it did not actually use"
\* (prompts.py:22): a set tracked under a version without "-dirty" is made of
\* the very texts that some lock declared to be that version.
CleanlyAttributed(set) ==
    set.locked => \E l \in released : Declared(l.version) = set.version /\ l.templates = set.text

=============================================================================
