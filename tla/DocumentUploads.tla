------------------------------ MODULE DocumentUploads ------------------------------
(***************************************************************************)
(* POST /api/documents (create_document_record, document_service.py): the  *)
(* object goes into the store first, then the row into a transaction that  *)
(* either commits with an outbox event or, inline, parses and embeds the   *)
(* document before it commits.  The insert of the row shares the lock of   *)
(* the learner's row (the foreign key); the inline processing asks for the *)
(* same lock exclusively before it activates the index.                    *)
(***************************************************************************)
EXTENDS Integers, FiniteSets

CONSTANTS
    Uploads,          \* uploads of one learner, each with an object key of its own
    MaxUploadFaults   \* bound on crashes, failed deletions and lost commit answers

ASSUME UploadAssumption == MaxUploadFaults \in Nat

VARIABLES
    objects,      \* keys in the object storage
    rows,         \* committed documents
    upload,       \* where each upload is, and its mode
    waiting,      \* uploads that wait for the learner's row
    marred,       \* per upload: what kept the two stores apart (for the property)
    uploadFaults

uploadVars == <<objects, rows, upload, waiting, marred, uploadFaults>>

Modes == {"queued", "inline"}
Over  == {"done", "failed"}

UploadInit ==
    /\ objects = {} /\ rows = {} /\ waiting = {}
    /\ upload \in [Uploads -> {[pc |-> "put", mode |-> m] : m \in Modes}]
    /\ marred = [u \in Uploads |-> "no"]
    /\ uploadFaults = 0

Is(u, pc)    == upload[u].pc = pc
Moves(u, pc) == upload' = [upload EXCEPT ![u].pc = pc]

UploadFault(u, what) ==
    /\ uploadFaults < MaxUploadFaults /\ uploadFaults' = uploadFaults + 1
    /\ marred' = [marred EXCEPT ![u] = what]

\* FOR KEY SHARE on the learner's row, from the insert of the document to the end.
Sharing  == {u \in Uploads : upload[u].pc \in {"processing", "commit"}}
\* FOR UPDATE of it, from the activation to the end.
Updating == {u \in Uploads : upload[u] = [pc |-> "commit", mode |-> "inline"]}

-----------------------------------------------------------------------------------

PutObject(u) ==
    /\ Is(u, "put") /\ objects' = objects \cup {u} /\ Moves(u, "insert")
    /\ UNCHANGED <<rows, waiting, marred, uploadFaults>>

\* Only ObjectStorageUnavailable leads to the removal of the object.  The local store raises
\* it for a key it refuses, before it writes.
PutUnavailable(u) ==
    /\ Is(u, "put") /\ Moves(u, "drop")
    /\ UNCHANGED <<objects, rows, waiting, marred, uploadFaults>>

\* Any other error, with the object written or not, ends the request: a full disk, an
\* answer of the store that is an error or is lost.
PutBreaks(u) ==
    /\ Is(u, "put") /\ objects' \in {objects, objects \cup {u}} /\ Moves(u, "failed")
    /\ marred' = [marred EXCEPT ![u] = "broken"]
    /\ UNCHANGED <<rows, waiting, uploadFaults>>

\* The foreign key waits for an exclusive holder; then a queued upload adds its event.
InsertRow(u) ==
    /\ Is(u, "insert") /\ Updating \subseteq {u}
    /\ Moves(u, IF upload[u].mode = "inline" THEN "processing" ELSE "commit")
    /\ UNCHANGED <<objects, rows, waiting, marred, uploadFaults>>

\* The document is parsed and embedded; its activation asks for the learner's row.
AskLearnerRow(u) ==
    /\ Is(u, "processing") /\ u \notin waiting
    /\ waiting' = waiting \cup {u}
    /\ UNCHANGED <<objects, rows, upload, marred, uploadFaults>>

\* A document that cannot be parsed is committed as failed, and needs no lock.
ParseFails(u) ==
    /\ Is(u, "processing") /\ u \notin waiting
    /\ upload' = [upload EXCEPT ![u] = [pc |-> "commit", mode |-> "queued"]]
    /\ UNCHANGED <<objects, rows, waiting, marred, uploadFaults>>

GetLearnerRow(u) ==
    /\ u \in waiting /\ Sharing \subseteq {u}
    /\ waiting' = waiting \ {u} /\ Moves(u, "commit")
    /\ UNCHANGED <<objects, rows, marred, uploadFaults>>

\* Nothing the request did is undone but the transaction.
KeepsObject(u) == Moves(u, "failed")

\* The exception handler rolls back and goes on to delete the object.
Compensates(u) == Moves(u, "drop")

\* Two uploads that share the row and both wait for it exclusively: one of them is aborted.
DeadlockAborts(u) ==
    /\ u \in waiting /\ Cardinality(waiting) > 1
    /\ waiting' = waiting \ {u} /\ Compensates(u)
    /\ UNCHANGED <<objects, rows, marred, uploadFaults>>

\* The embedding is unavailable or its configuration changed, or the database fails.
UploadFails(u) ==
    /\ upload[u].pc \in {"insert", "processing", "commit"}
    /\ waiting' = waiting \ {u} /\ Compensates(u)
    /\ UNCHANGED <<objects, rows, marred, uploadFaults>>

UploadCommits(u) ==
    /\ Is(u, "commit") /\ rows' = rows \cup {u} /\ Moves(u, "done")
    /\ UNCHANGED <<objects, waiting, marred, uploadFaults>>

\* The commit happened and its answer is lost: the handler takes it for a failure.
UploadUnsure(u) ==
    /\ Is(u, "commit") /\ rows' = rows \cup {u} /\ Compensates(u) /\ UploadFault(u, "unsure")
    /\ UNCHANGED <<objects, waiting>>

DropObject(u) ==
    /\ Is(u, "drop") /\ objects' = objects \ {u} /\ Moves(u, "failed")
    /\ UNCHANGED <<rows, waiting, marred, uploadFaults>>

DropFails(u) ==
    /\ Is(u, "drop") /\ Moves(u, "failed") /\ UploadFault(u, "leak")
    /\ UNCHANGED <<objects, rows, waiting>>

\* The process dies; the database rolls back what was not committed.
UploadDies(u) ==
    /\ upload[u].pc \notin Over /\ Moves(u, "failed") /\ UploadFault(u, "leak")
    /\ waiting' = waiting \ {u}
    /\ UNCHANGED <<objects, rows>>

UploadStep(u) ==
    \/ PutObject(u) \/ PutUnavailable(u) \/ PutBreaks(u) \/ InsertRow(u)
    \/ AskLearnerRow(u) \/ ParseFails(u) \/ GetLearnerRow(u)
    \/ DeadlockAborts(u) \/ UploadFails(u)
    \/ UploadCommits(u) \/ UploadUnsure(u) \/ DropObject(u) \/ DropFails(u) \/ UploadDies(u)

UploadNext == \E u \in Uploads : UploadStep(u)

-----------------------------------------------------------------------------------
(* Properties. *)

\* A document that is committed has its object, at every moment, so a worker can read what
\* it was told to process; and an upload that is over without its row has left no object.
\* Only a commit whose answer was lost breaks the first.  The second is broken by a crash,
\* by a refused deletion, and by a put that failed having written, which the code does not
\* clean up after unless the store says ObjectStorageUnavailable
\* (document_service.py:206-286, object_storage.py:30-33,86-94).
ObjectMatchesRow ==
    \A u \in Uploads :
        /\ (u \in rows /\ marred[u] # "unsure") => u \in objects
        /\ (upload[u].pc \in Over /\ marred[u] = "no") => (u \in objects <=> u \in rows)

=============================================================================
