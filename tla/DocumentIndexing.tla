-------------------------- MODULE DocumentIndexing --------------------------
(***************************************************************************)
(* One uploaded document of one user: the outbox event that ingests it,    *)
(* the outbox events that re-embed it when the user's embedding binding    *)
(* changes, and the index versions they build and activate.                *)
(*                                                                         *)
(* A dispatcher leases a due event and publishes its id to the broker; a   *)
(* worker receives the id and does everything in one database transaction  *)
(* that holds the row lock of the event, so what a worker has not          *)
(* committed nobody sees.  Binding changes and activations of one user     *)
(* exclude each other by the lock on the user row.  Index versions are     *)
(* named by the embedding identity they are built for: for one document    *)
(* and chunker the build key is a function of it.                          *)
(***************************************************************************)
EXTENDS Naturals, FiniteSets

CONSTANTS
  Identities,   \* embedding configurations (profile fingerprints)
  Off,          \* the bound profile is disabled: no identity
  Upload,       \* the document.process_upload event
  Reindexes,    \* document.reindex_embedding events the document may get
  NoEvent,      \* a worker that works on nothing
  Workers,      \* worker processes
  Tokens,       \* dispatch tokens (UUIDs in the code): at most so many leases
                \* of one event wait to be published
  NoToken,
  MaxAttempts,  \* DOCUMENT_PROCESSING_MAX_ATTEMPTS
  MaxMessages,  \* bound on the copies of one event id in the broker
  MaxFaults     \* bound on broker errors, lost messages and killed processes

Events == {Upload} \cup Reindexes

ASSUME OffAssumption == Off \notin Identities
ASSUME EventAssumption == Upload \notin Reindexes /\ NoEvent \notin Events
ASSUME TokenAssumption == NoToken \notin Tokens
ASSUME LimitAssumption ==
  MaxAttempts \in Nat \ {0} /\ MaxMessages \in Nat \ {0} /\ MaxFaults \in Nat

VARIABLES
  doc,         \* documents.parse_status, as committed
  bound,       \* the user's current embedding identity
  index,       \* document_index_versions.status of each identity's version
  estatus,     \* outbox_events.status, as committed
  target,      \* the identity a reindex event was queued for
  attempts,    \* outbox_events.attempts
  due,         \* events whose available_at has passed
  token,       \* outbox_events.dispatch_token
  claims,      \* leases committed by a dispatcher and not yet published
  queue,       \* messages in the broker, per event
  job,         \* what each worker is at
  wevent,      \* the event each worker works on
  seen,        \* the embedding identity the worker read when it started
  client,      \* the identity its embedding client was resolved for
  servedFor,   \* the identity the last activation had checked (auxiliary)
  executions,  \* how often processing of the upload was started (auxiliary)
  faults       \* how many faults there were

outbox == <<estatus, target, attempts, due, token>>
broker == <<claims, queue>>
worker == <<job, wevent, seen, client>>
vars   == <<doc, bound, index, outbox, broker, worker, servedFor, executions, faults>>

EventStatus == {"none", "pending", "queued", "succeeded", "failed"}
Settled     == {"succeeded", "failed"}

TypeOK ==
  /\ doc \in {"none", "pending", "success", "failed"}
  /\ bound \in Identities \cup {Off}
  /\ index \in [Identities -> {"absent", "ready", "active", "retired", "failed"}]
  /\ estatus \in [Events -> EventStatus]
  /\ target \in [Reindexes -> Identities \cup {Off}]
  /\ attempts \in [Events -> Nat]
  /\ due \in SUBSET Events
  /\ token \in [Events -> Tokens \cup {NoToken}]
  /\ claims \in SUBSET (Events \X Tokens)
  /\ queue \in [Events -> 0 .. MaxMessages]
  /\ job \in [Workers -> {"idle", "started", "resolved", "working", "raised"}]
  /\ wevent \in [Workers -> Events \cup {NoEvent}]
  /\ seen \in [Workers -> Identities \cup {Off}]
  /\ client \in [Workers -> Identities \cup {Off}]
  /\ servedFor \in Identities \cup {Off}
  /\ executions \in Nat
  /\ faults \in 0 .. MaxFaults

Init ==
  /\ doc = "none"
  /\ bound \in Identities
  /\ index = [i \in Identities |-> "absent"]
  /\ estatus = [e \in Events |-> "none"]
  /\ target = [n \in Reindexes |-> Off]
  /\ attempts = [e \in Events |-> 0]
  /\ due = {}
  /\ token = [e \in Events |-> NoToken]
  /\ claims = {}
  /\ queue = [e \in Events |-> 0]
  /\ job = [w \in Workers |-> "idle"]
  /\ wevent = [w \in Workers |-> NoEvent]
  /\ seen = [w \in Workers |-> Off]
  /\ client = [w \in Workers |-> Off]
  /\ servedFor = Off
  /\ executions = 0
  /\ faults = 0

Fault == faults < MaxFaults /\ faults' = faults + 1

-----------------------------------------------------------------------------
\* The API: uploads and changes of the embedding binding.

\* create_document_record in celery mode: document and event, one commit.
CreateDocument ==
  /\ doc = "none"
  /\ doc' = "pending"
  /\ estatus' = [estatus EXCEPT ![Upload] = "pending"]
  /\ due' = due \cup {Upload}
  /\ UNCHANGED <<bound, index, target, attempts, token, broker, worker,
                 servedFor, executions, faults>>

Serving == {i \in Identities : index[i] = "active"}

\* Deviation: a binding change re-embeds a document without an index.
NeedsFirstIndex == doc = "success" /\ Serving = {}

\* A binding change re-embeds a document that is searchable.
NeedsReindex == doc = "success" /\ Serving # {}

\* enqueue_embedding_reindex_events: an event for this identity.
Queue(i) ==
  \E n \in Reindexes :
    /\ estatus[n] = "none"
    /\ estatus' = [estatus EXCEPT ![n] = "pending"]
    /\ target' = [target EXCEPT ![n] = i]
    /\ due' = due \cup {n}

\* put_binding, delete_binding (to the environment's identity), and update of
\* the bound profile: identity, enable, disable.  Disabling queues nothing.
ChangeBinding(i) ==
  /\ i # bound
  /\ bound' = i
  /\ IF i # Off /\ NeedsReindex THEN Queue(i) ELSE UNCHANGED <<estatus, target, due>>
  /\ UNCHANGED <<doc, index, attempts, token, broker, worker, servedFor, executions,
                 faults>>

\* An update of a profile that is or becomes disabled queues its new identity.
EditDisabled(i) ==
  /\ NeedsReindex
  /\ bound' = Off
  /\ Queue(i)
  /\ UNCHANGED <<doc, index, attempts, token, broker, worker, servedFor, executions,
                 faults>>

-----------------------------------------------------------------------------
\* The dispatcher: the API after an upload, and Celery beat.

\* The worker's transaction is open.
Active(w) == job[w] \in {"started", "resolved", "working"}

\* The open transaction of a worker holds the row lock of its event.
Locked(e) == \E w \in Workers : Active(w) /\ wevent[w] = e

\* Time passes: a backoff or a dispatch lease runs out.
BecomeDue(e) ==
  /\ e \notin due
  /\ estatus[e] \in {"pending", "queued"}
  /\ due' = due \cup {e}
  /\ UNCHANGED <<doc, bound, index, estatus, target, attempts, token, broker,
                 worker, servedFor, executions, faults>>

\* claim_dispatchable_..._events: a fresh lease, FOR UPDATE SKIP LOCKED.
Dispatch(e, t) ==
  /\ estatus[e] \in {"pending", "queued"}
  /\ e \in due
  /\ ~ Locked(e)
  /\ <<e, t>> \notin claims
  /\ estatus' = [estatus EXCEPT ![e] = "queued"]
  /\ due' = due \ {e}
  /\ token' = [token EXCEPT ![e] = t]
  /\ claims' = claims \cup {<<e, t>>}
  /\ UNCHANGED <<doc, bound, index, target, attempts, queue, worker, servedFor, executions,
                 faults>>

Publish(e, t) ==
  /\ <<e, t>> \in claims
  /\ queue[e] < MaxMessages
  /\ claims' = claims \ {<<e, t>>}
  /\ queue' = [queue EXCEPT ![e] = @ + 1]
  /\ UNCHANGED <<doc, bound, index, outbox, worker, servedFor, executions, faults>>

OwnsLease(e, t) == estatus[e] = "queued" /\ token[e] = t

\* delay() raises: release_..._event gives back the dispatcher's own lease.  An
\* upload waits for its backoff, a reindex is due at once.
PublishFails(e, t) ==
  /\ <<e, t>> \in claims
  /\ ~ Locked(e)
  /\ Fault
  /\ claims' = claims \ {<<e, t>>}
  /\ IF OwnsLease(e, t)
       THEN /\ estatus' = [estatus EXCEPT ![e] = "pending"]
            /\ token' = [token EXCEPT ![e] = NoToken]
            /\ due' = IF e = Upload THEN due \ {e} ELSE due \cup {e}
       ELSE UNCHANGED <<estatus, token, due>>
  /\ UNCHANGED <<doc, bound, index, target, attempts, queue, worker, servedFor, executions>>

\* The dispatcher dies between its commit and the publish.
DispatcherDies(e, t) ==
  /\ <<e, t>> \in claims
  /\ Fault
  /\ claims' = claims \ {<<e, t>>}
  /\ UNCHANGED <<doc, bound, index, outbox, queue, worker, servedFor, executions>>

\* Redis loses a message, or a worker dies after the early acknowledgement.
LoseMessage(e) ==
  /\ queue[e] > 0
  /\ Fault
  /\ queue' = [queue EXCEPT ![e] = @ - 1]
  /\ UNCHANGED <<doc, bound, index, outbox, claims, worker, servedFor, executions>>

-----------------------------------------------------------------------------
\* The workers.

\* Deviation: a worker claims only what no dispatcher has leased.
ClaimablePending(e) == estatus[e] = "pending" /\ e \in due

\* The conditional update that claims an event for processing.
Claimable(e) == estatus[e] = "queued" \/ (estatus[e] = "pending" /\ e \in due)

\* A message reaches a worker; the claim waits for the row lock.
Receive(w, e) ==
  /\ job[w] = "idle"
  /\ queue[e] > 0
  /\ ~ Locked(e)
  /\ queue' = [queue EXCEPT ![e] = @ - 1]

\* Settled, or rescheduled and not due: the message is dropped.
DropMessage(w, e) ==
  /\ Receive(w, e)
  /\ ~ Claimable(e)
  /\ UNCHANGED <<doc, bound, index, outbox, claims, worker, servedFor, executions, faults>>

Begin(w, e, i) ==
  /\ job' = [job EXCEPT ![w] = "started"]
  /\ wevent' = [wevent EXCEPT ![w] = e]
  /\ seen' = [seen EXCEPT ![w] = i]
  /\ UNCHANGED client

StartUpload(w) ==
  /\ Receive(w, Upload)
  /\ Claimable(Upload)
  /\ Begin(w, Upload, bound)
  /\ executions' = executions + 1
  /\ UNCHANGED <<doc, bound, index, outbox, claims, servedFor, faults>>

StartReindex(w, n) ==
  /\ Receive(w, n)
  /\ Claimable(n)
  /\ bound = target[n]
  /\ Begin(w, n, bound)
  /\ UNCHANGED <<doc, bound, index, outbox, claims, servedFor, executions, faults>>

\* The worker's transaction ends: what it leaves of the event and of itself.
Settle(e, result) ==
  /\ estatus' = [estatus EXCEPT ![e] = result]
  /\ attempts' = [attempts EXCEPT ![e] = @ + 1]
  /\ token' = [token EXCEPT ![e] = NoToken]
  /\ due' = due \ {e}
  /\ UNCHANGED target

Release(w) ==
  /\ job' = [job EXCEPT ![w] = "idle"]
  /\ wevent' = [wevent EXCEPT ![w] = NoEvent]
  /\ seen' = [seen EXCEPT ![w] = Off]
  /\ client' = [client EXCEPT ![w] = Off]

\* The first look at the binding finds it changed since the event was queued.
SkipStaleReindex(w, n) ==
  /\ Receive(w, n)
  /\ Claimable(n)
  /\ bound # target[n]
  /\ Settle(n, "succeeded")
  /\ UNCHANGED <<doc, bound, index, claims, worker, servedFor, executions, faults>>

\* The embedding client is resolved for what is bound by now, in a statement of
\* its own (the database runs READ COMMITTED); a disabled profile raises.
Resolve(w) ==
  /\ job[w] = "started"
  /\ bound # Off
  /\ client' = [client EXCEPT ![w] = bound]
  /\ job' = [job EXCEPT ![w] = IF wevent[w] = Upload THEN "resolved" ELSE "working"]
  /\ UNCHANGED <<doc, bound, index, outbox, broker, wevent, seen, servedFor, executions,
                 faults>>

\* Ingestion looks at the binding again before it parses the file.
Recheck(w) ==
  /\ job[w] = "resolved"
  /\ bound = seen[w]
  /\ job' = [job EXCEPT ![w] = "working"]
  /\ UNCHANGED <<doc, bound, index, outbox, broker, wevent, seen, client, servedFor,
                 executions, faults>>

Working(w, e) == job[w] = "working" /\ wevent[w] = e

\* Deviation: no last look at the binding under the user lock.
BindingUnchecked(w) == w \in Workers

BindingUnchanged(w) == bound = seen[w]

\* Deviation: the previous index is not retired.
ActivatedToo(i) == [index EXCEPT ![i] = "active"]

\* activate: retire the active version, then activate this one.
Activated(i) ==
  [x \in Identities |-> CASE x = i -> "active"
                          [] x # i /\ index[x] = "active" -> "retired"
                          [] OTHER -> index[x]]

\* Built or reused, activated, and recorded in one commit.
UploadSucceeds(w) ==
  /\ Working(w, Upload)
  /\ BindingUnchanged(w)
  /\ index' = Activated(client[w])
  /\ servedFor' = seen[w]
  /\ doc' = "success"
  /\ Settle(Upload, "succeeded")
  /\ Release(w)
  /\ UNCHANGED <<bound, broker, executions, faults>>

\* Deviation: one attempt more than configured.
SpentAfter == attempts[Upload] + 1 > MaxAttempts

Spent == attempts[Upload] + 1 >= MaxAttempts

RetriedDocument == IF Spent THEN "failed" ELSE "pending"

\* A retryable error (storage, embedding, configuration changed): the
\* savepoint with the index is rolled back, the event waits or is given up.
UploadRetries(w) ==
  /\ Active(w) /\ wevent[w] = Upload
  /\ doc' = RetriedDocument
  /\ Settle(Upload, IF Spent THEN "failed" ELSE "pending")
  /\ Release(w)
  /\ UNCHANGED <<bound, index, broker, servedFor, executions, faults>>

\* A file that cannot be parsed, or a chunking error that is not retryable.
UploadRejected(w) ==
  /\ Working(w, Upload)
  /\ doc' = "failed"
  /\ Settle(Upload, "failed")
  /\ Release(w)
  /\ UNCHANGED <<bound, index, broker, servedFor, executions, faults>>

WorksOnReindex(w) == job[w] = "working" /\ wevent[w] \in Reindexes

\* The candidate is built (or found) and serves from now on.
ReindexActivates(w) ==
  /\ WorksOnReindex(w)
  /\ BindingUnchanged(w)
  /\ index' = Activated(client[w])
  /\ servedFor' = seen[w]
  /\ Settle(wevent[w], "succeeded")
  /\ Release(w)
  /\ UNCHANGED <<doc, bound, broker, executions, faults>>

\* The binding changed while it was built: the candidate is kept, not used.
ReindexStale(w) ==
  /\ WorksOnReindex(w)
  /\ bound # seen[w]
  /\ index' = [index EXCEPT ![client[w]] = IF @ \in {"absent", "failed"} THEN "ready" ELSE @]
  /\ Settle(wevent[w], "succeeded")
  /\ Release(w)
  /\ UNCHANGED <<doc, bound, broker, servedFor, executions, faults>>

\* The provider fails the build of a version that did not exist or had failed.
ReindexBuildFails(w) ==
  /\ WorksOnReindex(w)
  /\ index[client[w]] \in {"absent", "failed"}
  /\ index' = [index EXCEPT ![client[w]] = "failed"]
  /\ Settle(wevent[w], "failed")
  /\ Release(w)
  /\ UNCHANGED <<doc, bound, broker, servedFor, executions, faults>>

\* Any other exception: the rollback gives up the row lock ...
ReindexRaises(w) ==
  /\ Active(w) /\ wevent[w] \in Reindexes
  /\ job' = [job EXCEPT ![w] = "raised"]
  /\ seen' = [seen EXCEPT ![w] = Off]
  /\ client' = [client EXCEPT ![w] = Off]
  /\ UNCHANGED <<doc, bound, index, outbox, broker, wevent, servedFor, executions, faults>>

\* ... and a second transaction writes the failure, whatever the event is now.
RecordFailure(w) ==
  /\ job[w] = "raised"
  /\ ~ Locked(wevent[w])
  /\ estatus' = [estatus EXCEPT ![wevent[w]] = "failed"]
  /\ due' = due \ {wevent[w]}
  /\ Release(w)
  /\ UNCHANGED <<doc, bound, index, target, attempts, token, broker, servedFor,
                 executions, faults>>

\* A killed worker's transaction is rolled back, the attempt with it.
WorkerDies(w) ==
  /\ job[w] # "idle"
  /\ Fault
  /\ Release(w)
  /\ UNCHANGED <<doc, bound, index, outbox, broker, servedFor, executions>>

-----------------------------------------------------------------------------
Work(w) ==
  \/ Resolve(w)
  \/ Recheck(w)
  \/ UploadSucceeds(w)
  \/ UploadRetries(w)
  \/ UploadRejected(w)
  \/ ReindexActivates(w)
  \/ ReindexStale(w)
  \/ ReindexBuildFails(w)
  \/ ReindexRaises(w)
  \/ RecordFailure(w)

Accept(w, e) ==
  \/ DropMessage(w, e)
  \/ e = Upload /\ StartUpload(w)
  \/ e \in Reindexes /\ (StartReindex(w, e) \/ SkipStaleReindex(w, e))

Deliver(e) == \E w \in Workers : Accept(w, e)

Send(e) == \E t \in Tokens : Publish(e, t) \/ PublishFails(e, t)

Lease(e) == \E t \in Tokens : Dispatch(e, t)

Next ==
  \/ CreateDocument
  \/ \E i \in Identities \cup {Off} : ChangeBinding(i)
  \/ \E i \in Identities : EditDisabled(i)
  \/ \E e \in Events :
       \/ BecomeDue(e) \/ Lease(e) \/ Send(e) \/ Deliver(e) \/ LoseMessage(e)
       \/ \E t \in Tokens : DispatcherDies(e, t)
  \/ \E w \in Workers : Work(w) \/ WorkerDies(w)

Spec == Init /\ [][Next]_vars

\* Beat runs every few seconds and leases run out; Celery keeps its workers
\* alive and every external call of a job has a timeout.
Fairness ==
  /\ \A e \in Events : /\ WF_vars(BecomeDue(e))
                       /\ WF_vars(Lease(e))
                       /\ WF_vars(Send(e))
                       /\ SF_vars(Deliver(e))
  /\ \A w \in Workers : WF_vars(Work(w))

FairSpec == Spec /\ Fairness
-----------------------------------------------------------------------------
\* Safety.

\* activate() under the document lock: one index serves the document, a
\* searchable document has one, and no other document does.
OneServingIndex ==
  /\ \A i, j \in Serving : i = j
  /\ doc = "success" <=> Serving # {}

RequestStatus(s) ==
  CASE s = "none" -> "none"
    [] s \in {"pending", "queued"} -> "open"
    [] s = "succeeded" -> "done"
    [] s = "failed" -> "failed"

\* The rows implement what is promised about a document: through expired leases, late
\* messages, retries and killed workers, its index moves in one step, to an embedding that
\* is asked for, and no request is lost.
Document == INSTANCE SearchableDocument WITH
  Requests <- Reindexes,
  status   <- doc,
  binding  <- bound,
  serving  <- Serving,
  checked  <- servedFor,
  request  <- [n \in Reindexes |-> RequestStatus(estatus[n])],
  wanted   <- target

DocumentSpec == Document!Spec

\* Ingestion, reindexing and binding changes together: the serving index was
\* activated for the user's binding, or an event that will see to it is open, or
\* one that should have failed.
IndexFollowsBinding ==
  doc = "success" /\ bound # Off =>
    \/ servedFor = bound
    \/ \E n \in Reindexes : target[n] = bound /\ estatus[n] \in {"pending", "queued", "failed"}

\* The document the user sees and the event the workers see agree.
DocumentMatchesEvent ==
  /\ doc = "none" <=> estatus[Upload] = "none"
  /\ doc = "pending" <=> estatus[Upload] \in {"pending", "queued"}
  /\ doc = "success" <=> estatus[Upload] = "succeeded"

\* The same event reaches two workers (an expired lease, a late message): the
\* conditional claim and its row lock let one of them work.
OneWorkerPerEvent ==
  \A w, v \in Workers : Active(w) /\ Active(v) /\ wevent[v] = wevent[w] => w = v

\* The upload is given up at the configured number of recorded attempts.
AttemptsWithinBudget ==
  /\ attempts[Upload] <= MaxAttempts
  /\ estatus[Upload] \notin Settled => attempts[Upload] < MaxAttempts

\* A worker that is killed loses the attempt it counted, and nothing else does: the upload
\* is processed at most as often as configured and once more for each fault.
ExecutionsWithinBudget == executions <= MaxAttempts + faults

\* A settled upload is never processed again and a searchable document stays
\* searchable, through every reindex that fails, is stale or is killed.
SettledUploadFinal ==
  [][doc' # doc => doc \in {"none", "pending"}]_vars

-----------------------------------------------------------------------------
\* The inductive invariant: what the safety properties rest on.

Open(e) == estatus[e] \in {"pending", "queued"}

\* Reindex events belong to searchable documents and name an identity.
ReindexOfSearchable ==
  \A n \in Reindexes : estatus[n] # "none" => doc = "success" /\ target[n] \in Identities

\* The row lock keeps a worker's event open, and its job to that event.
JobMatchesEvent ==
  \A w \in Workers :
    /\ Active(w) => wevent[w] \in Events /\ Open(wevent[w])
    /\ job[w] = "raised" => wevent[w] \in Reindexes /\ estatus[wevent[w]] # "none"
    /\ Active(w) /\ wevent[w] \in Reindexes => seen[w] = target[wevent[w]]
    /\ job[w] \in {"resolved", "working"} => client[w] \in Identities

IInv == /\ TypeOK /\ OneServingIndex /\ IndexFollowsBinding /\ DocumentMatchesEvent
        /\ OneWorkerPerEvent /\ AttemptsWithinBudget
        /\ ReindexOfSearchable /\ JobMatchesEvent

-----------------------------------------------------------------------------
\* Liveness.

\* Every upload is ingested or given up, through lost messages, broker errors
\* and killed workers.
UploadSettles == doc = "pending" ~> doc \in {"success", "failed"}

\* If the user leaves the binding alone, the document ends up served by an index
\* that was activated for it, or a reindex event records the failure.
IndexConverges ==
  \A i \in Identities :
    doc = "success" /\ bound = i ~>
      \/ bound # i
      \/ servedFor = i
      \/ \E n \in Reindexes : target[n] = i /\ estatus[n] = "failed"

-----------------------------------------------------------------------------
\* What the repository's documents claim and the code does not do.

\* "Final activation locks a stable user configuration row, rechecks binding plus
\* fingerprint": the index that starts to serve is that of the bound identity.
ActivatesBoundIdentity ==
  [][\A i \in Identities : index'[i] = "active" /\ index[i] # "active" => i = bound]_vars
=============================================================================
