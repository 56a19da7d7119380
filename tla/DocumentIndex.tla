---------------------------- MODULE DocumentIndex ----------------------------
(***************************************************************************)
(* The collection of one instance as a set of documents: what ingest       *)
(* (app/rag/pipeline.py), chunk_document (app/rag/chunking.py) and the     *)
(* upsert of the store (app/rag/vectorstore.py) make of documents that are *)
(* ingested again under their id, by requests that overlap.                *)
(*                                                                         *)
(* Composed with Chunking, which reads a version of a document paragraph   *)
(* by paragraph; a chunk keeps its document, its position and the version  *)
(* of the text it was cut from.  Versions are numbered in the order their  *)
(* requests were chunked.  A request waits for its embeddings between      *)
(* chunking and upsert, and may be overtaken or fail there.                *)
(***************************************************************************)
EXTENDS Chunking

CONSTANTS
    Docs,
    MaxVersions  \* bound on the requests

ASSUME VersionsAssumption == MaxVersions \in Nat

VARIABLES
    index,     \* the version stored at every position of a document
    embedding, \* the requests between chunking and upsert
    upserts,   \* history: the upserts, in their order
    requests   \* history: how many requests were chunked

indexVars == <<index, embedding, upserts, requests>>
allVars == <<vars, indexVars>>

\* A version of a document and the number of its chunks, whose ids are
\* doc::0 to doc::(chunks - 1).
Entry == [doc : Docs, version : 1..MaxVersions, chunks : Nat \ {0}]

IndexTypeOK ==
    /\ TypeOK
    /\ index \in [Docs -> Seq(1..MaxVersions)]
    /\ embedding \subseteq Entry
    /\ upserts \in Seq(Entry)
    /\ requests \in 0..MaxVersions

IndexInit ==
    /\ Init
    /\ index = [d \in Docs |-> <<>>]
    /\ embedding = {}
    /\ upserts = <<>>
    /\ requests = 0

-----------------------------------------------------------------------------
\* Mutant: ids that exist are left alone, as collection.add does.
StoredAdding(stored, e) ==
    [k \in 1..(IF e.chunks > Len(stored) THEN e.chunks ELSE Len(stored)) |->
        IF k <= Len(stored) THEN stored[k] ELSE e.version]

\* Mutant: ids that exist are not recognised, as with a hash of the chunk.
StoredAppending(stored, e) ==
    stored \o [k \in 1..e.chunks |-> e.version]

\* What upsert leaves at every position of the document.
Stored(stored, e) ==
    [k \in 1..(IF e.chunks > Len(stored) THEN e.chunks ELSE Len(stored)) |->
        IF k <= e.chunks THEN e.version ELSE stored[k]]

\* split_text goes on with the next paragraph of the request's text.
ReadParagraph ==
    /\ requests < MaxVersions
    /\ Next
    /\ UNCHANGED indexVars

\* ingest: the text is chunked, its chunks get their ids and wait for their
\* vectors.
Chunked(d) ==
    /\ Flushed # <<>>
    /\ requests' = requests + 1
    /\ embedding' = embedding \cup
          {[doc |-> d, version |-> requests', chunks |-> Len(Flushed)]}
    /\ document' = <<>>
    /\ buffer' = <<>>
    /\ chunks' = <<>>
    /\ UNCHANGED <<index, upserts>>

\* embed returned: add upserts all chunks of the request in one call.
Add(e) ==
    /\ embedding' = embedding \ {e}
    /\ index' = [index EXCEPT ![e.doc] = Stored(@, e)]
    /\ upserts' = Append(upserts, e)
    /\ UNCHANGED <<vars, requests>>

\* embed raised: nothing of the request is stored.
EmbedFails(e) ==
    /\ embedding' = embedding \ {e}
    /\ UNCHANGED <<vars, index, upserts, requests>>

IndexNext ==
    \/ ReadParagraph
    \/ \E d \in Docs : Chunked(d)
    \/ \E e \in embedding : Add(e) \/ EmbedFails(e)

IndexSpec == IndexInit /\ [][IndexNext]_allVars

-----------------------------------------------------------------------------
(* Properties.                                                             *)

UpsertsOf(d) == {i \in DOMAIN upserts : upserts[i].doc = d}

\* "a document ingested by both instances converges instead of duplicating"
\* (pipeline.py:251): a document has as many chunks as the longest of its
\* versions, however often and in whatever order it was ingested.
NeverDuplicated ==
    \A d \in Docs :
        Len(index[d]) = Max({0} \cup {upserts[i].chunks : i \in UpsertsOf(d)})

\* "re-ingesting the same document updates it in place" (vectorstore.py:79):
\* only as far as it reaches.  What the version stored last covers is all of
\* that version; a version can be stale only in the tail behind it.
StaleOnlyBehindTheLast ==
    \A d \in Docs : UpsertsOf(d) # {} =>
        LET last == upserts[Max(UpsertsOf(d))]
        IN  \A k \in 1..Len(index[d]) : (index[d][k] = last.version) = (k <= last.chunks)

=============================================================================
