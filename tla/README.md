# A TLA+ development of the adaptive tutor

This directory specifies the parts of the learning system whose correctness
depends on interleavings, failures, restarts and late answers. The
specifications are translated from the source, not from the design documents.
TLC checks them on small instances; TLAPS proves nearly every safety property for
every value of the constants. `PROJECT.json` maps each definition to
the lines it models and lists the runs, the mutants, the findings, the hazards
and the theorems.

## 1. The system

A FastAPI process serves learners. It keeps rows in PostgreSQL (READ COMMITTED;
no isolation level is set in `db.py`), the state of the LangGraph tutor graph in
a checkpoint store, files in an object store and secrets in a credential store,
and talks to model providers and to users' MCP tool servers. Celery workers and
a beat scheduler, connected by Redis, ingest documents. A Next.js client keeps
pages whose requests are answered in any order.

| component | state it keeps | operations | meets | what makes it correct | module |
| --- | --- | --- | --- | --- | --- |
| **Tutor runs, approvals, threads** (`tutor_stream_service.py`, `tool_approval_service.py`, `conversation_service.py`, `conversation_repository.py`) | threads, runs, approvals | start, park at a tool, decide, replay, execute, complete, cancel, fail, archive, recover | checkpoints, MCP, the client's connection | one active run per thread; a tool runs at most once and only if approved; a cancelled run never succeeds; every run settles | `TutorRuns`, `ThreadLease` |
| **Tutor graph** (`phase2/engine.py`, `tutor/*.py`, `application/engine.py`) | channels, agent state, router cache | triggers, decisions, tool calls, grounding, repair, persistence | runs, retrieval, memory | a turn writes only its own results; it ends within the recursion limit; answers cite what was retrieved | `TutorGraph` |
| **Checkpoints** (`checkpoints.py`, `tutor/history.py`) | one checkpoint per thread, pending deletions | save, finalize, delete | runs, archive, startup | the conversation has the answers that succeeded; archived threads have none | `TutorRuns` |
| **Retrieval** (`domain/rag/retrieval`, `rag_retrievers.py`, `retrieval_service.py`) | one retrieval | vector and keyword statements, fusion, selection | document indexes | nobody else's text, no text twice, the status says what happened | `Retrieval` |
| **Chunking** (`domain/rag/chunking/v3`, `document_chunking_service.py`) | the regions, candidates and chunks of one document | gather regions, divide, split, join, refuse | parsers, embedding provider | every word in one chunk, in order; no chunk too long; none short that could be joined | `Chunking` |
| **Documents** (`document_service.py`, `embedding_reindex_service.py`, `worker.py`, `document_index_repository.py`) | documents, outbox, index versions, chunks, objects | upload, lease, publish, claim, build, activate, retry, give up | broker, embedding provider, configuration | object and row agree; one serving index, of the bound embedding; every upload settles | `DocumentUploads`, `DocumentIndexing`, `SearchableDocument` |
| **AI configuration** (`routers/config.py`, `config_service.py`) | models, bindings, secrets | create, replace, delete; a binding change queues reindexing | credential store | a named secret is stored, an unnamed one is not | `SecretReferences`, `DocumentIndexing` |
| **MCP** (`mcp_service.py`) | servers, tool catalog, trust fingerprint | update, trust, test, discover, invoke | approvals | only a confirmed command is started | `McpServers`, `TutorRuns` |
| **Authentication** (`auth_service.py`, `auth_repository.py`) | sessions, token hashes, `token_version` | login, rotation, reuse detection, logout, logout of all | the refresh coordinator of the tabs | one live token per session; logout of all ends every session | `AuthSessions` |
| **Assessments** (`assessment_service.py`, `assessment_workflow_service.py`) | assessments, attempts with a lease, outcomes | create, claim, grade, finalize, take over | provider, mastery | a submission is graded once; answers belong to their request | `AssessmentGrading` |
| **Plans and tasks** (`planning_service.py`, `learning_service.py`, `onboarding_service.py`) | plans, tasks, sessions, proposals | propose, accept, reject, start, complete, reassess | snapshot | a proposal applies only to the plan it was made for | `LearningPlan` |
| **Onboarding** (`onboarding_service.py`) | drafts, diagnostics, workspaces | draft, apply, replay, expire | provider | a draft becomes one workspace; replays tell the truth | `Onboarding` |
| **Memory** (`memory_write_service.py`, `memory_repository.py`, `gate.py`) | memories, privacy settings | gate, write, replace, revoke, expire | runs | consent at the write, one memory per slot | `MemoryStore` |
| **Web client** (`learning-provider.tsx`, `tutor-stream.mjs`, `auth-refresh-coordinator.ts`) | the open conversation, lists, streams | open, ask, decide, cancel, create, delete | the API | what is shown is of the open conversation and stays | `TutorView`, `AuthSessions` |
| **Others** | learning state, feedback, saved nodes, parsing, provider gateways, migrations | reads, single-row writes, I/O, pure transformations | | | none |

The hard behaviours: request handlers that hold an ORM session across several
commits; two stores that cannot be committed together; model calls of up to a
minute between a read and the write that relies on it; locks taken in different
orders; an interrupted graph node that is replayed from its start; clients that
leave, repeat, or have two tabs; cancellation at any moment; processes that die;
events delivered twice or never; a configuration that changes while work is done
for the old one; answers that arrive in a page that shows something else by now.
`PROJECT.json` has each of them, at its line, under "hazards".

## 2. The modules

| module | content |
| --- | --- |
| `TutorRuns`, `ThreadLease` | the runs of one thread, and the lease they implement |
| `DocumentIndexing`, `SearchableDocument` | one document: upload and reindex events, dispatchers, broker, workers, versions, binding; and what the learner is promised of it, which they implement |
| `TutorGraph` | the invocations of one thread's graph |
| `Retrieval` | one retrieval while indexes change |
| `DocumentUploads` | upload requests of one learner |
| `Chunking` | one document, cut into chunks |
| `AuthSessions` | the sessions of one user and the tabs of a browser |
| `AssessmentGrading` | one assessment, in either of its two services |
| `LearningPlan` | the plan, tasks and proposals of one goal |
| `Onboarding` | diagnostic drafts and workspaces of one learner |
| `MemoryStore` | the memory of one learner |
| `SecretReferences` | rows and the secrets they name |
| `McpServers` | one MCP server: configuration, trust, catalog, use |
| `TutorView` | the tutor page of the web client |
| `MCTutorRuns`, `MCDocumentIndexing`, `MCLearning`, `MCServices` | TLC instances |
| `TutorRunsProofs`, `DocumentIndexingProofs`, `TutorGraphProofs` | theorems about the module of that name |
| `WorkspaceProofs` | theorems about `Onboarding`, `DocumentUploads` and `McpServers` |
| `ChunkingLemmas`, `ChunkingProofs` | what the operators of `Chunking` return for any input, and the theorems about it |
| `LearningProofs` | theorems about `AssessmentGrading`, `LearningPlan` and `Retrieval` |
| `ServicesProofs` | theorems about `AuthSessions`, `MemoryStore`, `SecretReferences` and `TutorView` |

Assumptions on constants are named, no module uses a recursive operator, and the
definitions called *Deviation* or *Mutant* are the bugs against which the
properties are tried (section 5); no action refers to them.

A common pattern: an action is what a request does between two moments at which
another request can see or disturb it. That is a commit, a lock that has to be
waited for, a call to a model or a store, or, under READ COMMITTED, a statement
whose result is used by a later one. Writes appear at the commit.

### 2.1 TutorRuns

One thread is enough: every query of the code filters on `thread_id`. The state
falls into what survives a crash and what does not.

| variable | in the code |
| --- | --- |
| `thread`, `status`, `cancelReq`, `approval` | `conversation_threads.status`, `agent_runs.status` and `cancel_requested_at`, `user_tool_approvals.status` per request hash |
| `turns`, `checkpointed` | the completed turns in the thread's checkpoint, and whether it has one |
| `executed` | how often the MCP tool really ran |
| `pc`, `kind`, `call`, `base` | where each request handler is, which endpoint it serves (chat stream, synchronous chat, decision), its tool call, the conversation its graph restored |
| `view` | the status in the `AgentRun` object the handler's session holds |
| `gone` | the `disconnected` event of a streaming endpoint |
| `deletion`, `inflight` | `_pending_deletions`, and the non-chat workflows under way, each by the conversation it restored |
| `up`, `recovered` | the process serves; its last startup ran the recovery |
| `lost` | auxiliary: runs whose handler ended without settling them |

A handler goes `preparing -> working -> committed -> finalized -> idle`, one
action per commit or store it touches: `InvokeGraph` (restore and invoke; the
graph checkpoints at once), `GraphStep` (any superstep), `BeforeCommit`
(`cancel_before_commit` and the commit of the workflow's writes),
`FinalizeHistory` (the checkpoint), `CompleteRun` (`_finish` and its commit).
`GraphFails` may happen anywhere and leads to `FinishFailure` or, where the code
can fail to write it, to `LeaveUnsettled`. At an effectful tool the handler goes
through `ReachToolCall` (the reads of `require_approval`) and `CommitApproval`
(its writes and commit): two steps, because `run.status` is written from the
value read. `BeginDecision` is the decision endpoint up to the commit of
`begin_decision`; the resumed node then replays `require_approval`
(`ReplayToolCall`, `RecommitApproval`), resolves the decision and perhaps runs
the tool (`InvokeTool`, then `ToolReturns` or `ToolErrors`; a crash may come in
between). `ReplayDiverges` is the replay that does not meet the interrupt again.

`ExpireOnCommit` says whether a session's objects are expired by its commits.
The code sets `expire_on_commit=False` (`db.py:47`). `TRUE` is a variant: the
tests of the approval workflow get its effect with `expire_all()`. The two
differ in one definition, `ReadStatus`.

`RequestRestored` says whether a resumed node finds the request of its turn. The
code gives it none: `request` is an untracked channel (`schemas.py:124`), and the
first line of the resumed `_tool_router` raises (`phase2/engine.py:625`). With
`FALSE` a decision therefore leads to `GraphFails`, unless a workflow's checkpoint
has replaced the suspended one. `TRUE` is the variant in which `ReplayToolCall`
and all that follows it happens; it adds behaviours and takes none away, since
`GraphFails` may happen in either. The safety runs use `TRUE`, which covers the
code as it is and as it would be with the request restored; the liveness runs and
the counterexamples use `FALSE`. A tool runs only with both constants `TRUE`. The
theorems hold for all four settings.

Abstracted: messages, snapshots and answers (a turn is the run that made it; the
limit of 12 turns and compaction are not there); preview and `begin_decision`
are one step; the branch that answers a replay from the cached result of a
completed call, which no request of the application reaches; a decision comes
only when no handler of the run is left; a streaming response that is created
and never iterated, which leaves what a crash would leave. One API process is
assumed, as in the compose file. The checkpoint store is the durable PostgreSQL
one; the model uses only that a superstep saves the state of its `thread_id` and
that the last save wins. `ThreadLease` is the abstract specification: a thread
is acquired by one run, which may be withdrawn, is answered or given up, and is
closed while nobody holds it. `LeaseSpec == Lease!Spec` under

    open <- thread = "active",  holder <- the runs in an active status,
    withdrawn <- cancelReq,  answered <- the successful runs,
    givenUp <- the failed and cancelled runs

### 2.2 DocumentIndexing and DocumentUploads

`DocumentIndexing` is one document of one user in celery mode. A worker does
everything in one database transaction, from the conditional update that claims
the event to the commit in `worker.py`; until then nobody sees any of it, so a
worker is a job with private state that takes effect at its last action.

| variable | in the code |
| --- | --- |
| `doc` | `documents.parse_status` as committed |
| `bound` | the identity (profile and fingerprint, or the environment's) that embeddings should have; `Off` when the bound profile is disabled |
| `index` | `document_index_versions.status` per embedding identity |
| `servedFor` | auxiliary: the identity the last activation had checked |
| `estatus`, `target`, `attempts`, `due`, `token` | the outbox rows: `status`, payload, `attempts`, `available_at <= now`, `dispatch_token` |
| `claims`, `queue` | leases committed and not yet published; copies of the event's id in Redis |
| `job`, `wevent`, `seen`, `client` | a worker's phase, its event, the identity it read first, the identity its client was resolved for |
| `executions` | auxiliary: how often processing of the upload began |

`Dispatch` / `Publish` / `PublishFails` / `DispatcherDies` are the two halves of
a dispatcher; `Receive` with `StartUpload`, `StartReindex`, `SkipStaleReindex`
or `DropMessage` is a delivery. `Resolve` and `Recheck` are separate steps: each
look at the binding is a statement of its own; the last look, `BindingUnchanged`,
is one step with the commit, since the user row stays locked in between.
`ReindexRaises` and `RecordFailure` are the two transactions of a failing
reindex. Abstracted: the parse and embedding work (success, retryable or final
failure), failures that leave nothing, other documents of the user. Tokens are
distinct only among the leases of one event that are still to be published.
`SearchableDocument` is the abstract specification: a document is ingested or
given up for good; one index answers its queries, and the next takes over in one
step, while what it was asked for is bound; a request is made with the change of
the binding, and dropped only when the binding has moved on. `DocumentSpec ==
Document!Spec` under

    status <- doc,  binding <- bound,  checked <- servedFor,  wanted <- target,
    serving <- the identities whose version is active,
    request <- open, done or failed by the status of the reindex event

Two of its actions are weaker than one would like, because the code is: the index
that takes over need not be of the binding it was checked against
(`DocumentIndexingRebound`, section 6), and a request that was carried out may
still be recorded as failed.

`DocumentUploads` is `create_document_record` in the three modes: `objects` and
`rows` are the two stores, `upload` where each request is, `waiting` the
requests queued for the learner's row. The object is put first; the insert of
the row shares the lock of the user row, and inline activation asks for it
exclusively in the same transaction, so two inline uploads deadlock and one is
aborted. A put that fails is one of two things: `ObjectStorageUnavailable`, for
which the code removes the object (`PutUnavailable`), or any other error, which ends
the request with whatever was written (`PutBreaks`): neither adapter raises the
former for a write that failed (`object_storage.py:30-33, 86-94`), and the `try`
of the general handler begins after the put. Such puts, commits whose answer is
lost, refused deletions and crashes are counted faults.

### 2.3 TutorGraph

One thread's graph: `turn` is the invocation (trigger, node, steps, limit of
decisions), `channel` the untracked channels, each output tagged with the turn
that made it, `loop` the checkpointed agent state, `router` the calls and cached
results of this invocation, `reply` the grounding evaluation that became the
answer, `written` what was persisted. The actions are the nodes of
`phase2/engine.py` for the seven triggers, the decision loop of the agent
(`Decide`, tool calls under the router's budget and cache, the interrupt of an
effectful call and its resumption), validation of an answer with one repair, and
the writes of `application/engine.py` per trigger. Left out: the older grounding
pipeline and unstructured answers, the locale repair, streamed deltas, and what
graders, observers and planners compute.

### 2.4 Retrieval

`serving` is the active index version of each document, `retrieval` the
retrieval under way. The vector search and the four keyword strategies are
statements of their own, in savepoints, and see what is committed when they
start, while `ActivateIndex` moves documents on. `Fuse`, `SelectNext` and
`AnswerTutor` are reciprocal rank fusion (any ranking is allowed), the
selection's duplicate, neighbour and budget tests, and the status. The refusal of
a text that overlaps one selected before by more than a ratio is a choice
(`Overlaps`): any candidate may be refused, but for the first. A passage can
be shared between documents, long or short, and belong to curated, own or
foreign documents. One chunk always fits the budget: chunks have at most 512
tokens or 700 characters, the budget is 6000 characters. Left out: scores,
filters and query rewriting, which no caller uses, the SQLite path.

### 2.5 Chunking

The default pipeline (v3). A text is a sequence of tokens `<<block, position>>`
between those of its layout: empty lines, fences, borders, headings. So a
property can ask where each word went, and the tokenizer is `Len`. `chunking` is
the document, the region that is being cut, its candidates (`entries`), the
place of the size guard's loop and the chunks made so far. `Regions` is
`StructureAwareChunker`; `CutText`, `CutCode` and `CutTable` are what becomes of
one region before the joins; `JoinLeft`, `JoinRight` and `Keep` are the passes
of the loop, which edits the list it walks. Where meaning shifts is the
encoder's word: `CutText` takes any boundaries in any order of strength.
`RefuseTable` is the invariant violation that gives a document up,
`EncoderUnavailable` the provider's failure that has it retried. Left out:
scores and thresholds, metadata, the caps on units, the older chunkers with
their overlap, and the parsers: their blocks are the inputs (outlines, decks,
single listings and tables; one without blocks is given up before). The code looks for the longest prefix of a line or
cell that fits, by characters; here a token is cut nowhere.

### 2.6 AuthSessions

The rows `version`, `session`, `token`; the requests `req` with the row locks
they have taken (`held`), one after the other in the order of the statements, so
that requests wait, and of a cycle one is aborted; the browser's `cookie` and,
per tab, `view`, `flight`, `answer` and `peerDone`. `webLocks` is
`navigator.locks`; without it a tab waits four seconds for the refresh of
another (`WaitOver`), more than the three seconds of grace the server gives a
rotated token (`GraceEnds`). Left out: passwords and registration, locale.

### 2.7 AssessmentGrading

`api` chooses between `assessment_service.py`, which the routers call and which
claims, grades and commits in one transaction, and
`assessment_workflow_service.py`, which has the lease and take-over and no
caller. `attempt` is the row per request id, `handler` a request being served,
`applied` the gradings added to mastery. A payload is a hash. Left out: how
questions are made and answers graded, review dates.

### 2.8 LearningPlan

`plans` in the order of their versions, `activePlan` of the snapshot, `tasks`
with their sessions, `adjustments`, and `caller`, the requests. The goal's row
keeps requests apart: replacing a plan and starting a task lock it FOR UPDATE,
a completion refers to it by a foreign key (FOR KEY SHARE), a reassessment holds
it during its model call. Left out: what a proposal contains, proposals that
keep the plan, other fields of the snapshot, streaks.

### 2.9 Onboarding

`drafts`, `diags` (each made a workspace or a new baseline) and `call`, the
request of each caller with what it read before the model call. Unique indexes
and one conditional UPDATE decide between overlapping requests. Left out: what
is generated, the static diagnosis, validation of goals.

### 2.10 MemoryStore

`memories` in creation order, `allowed` the origins of the privacy settings,
`saving` the memory each run is about, `crowded` a flag for more active memories
of one type than a page. The gate runs before the model call, the recheck and
the write after it under the profile lock. A slot is a preference or a derived
result; a request id is the client's, a result's key is fresh. Left out:
milestones, explicit goals, low confidence, ranking for the prompt.

### 2.11 SecretReferences and McpServers

`SecretReferences`: `reference` is the row, `stored` the credential store,
`request` where each admin's request is, `trouble` which of overlaps, faults and
unsure commits an owner has seen. A write puts, commits and deletes the old
value; a deletion commits first.

`McpServers`: `server` is the row (a fingerprint is the command it hashes),
`catalog` the tool rows, `mcp` the requests, `confirmed` the commands the
learner asked to trust. Every request reads, talks to the server and writes,
with no lock; an UPDATE names the columns the request changed. Left out:
transports, result limits, URL checks, and two discoveries that overlap inside
one flush.

### 2.12 TutorView

`page` is the provider's state: the conversation that is `open` and those
`listed`, the `request` whose stream counts (`tutorRequestRef`), `busy`,
`activeRun`, the `transcript` (a message is its run and role), the `answer` (the
run whose text is shown) and the `approvals`. `loads` are the lists asked for by
the effects of the open conversation, `calls` other requests with what their
handlers have captured, `stream` the event streams in order, with the events on
the wire. `backend` is what the API's answers tell: runs of threads, one active
run a thread, an approval a run may wait for; it is a coarse view of
`TutorRuns`. Runs and threads that the server makes are taken from those not made
yet (`NextRun`, `Makes`), so an id names one of them for good. Two fields of
`page` are auxiliary: `elsewhere`, the runs that were decided in a conversation
they are not of, and `leftover`, the answer that stayed when another conversation
was opened without a reset. What is rendered of the transcript is `Shown`: beside
a question the messages of the current run are left out. The three effects of the
provider depend on the translation too, which every change of the language makes
anew: `ChangeLanguage` aborts the stream, clears the transcript and asks for all
lists again, and `ConversationsArrive` opens the first conversation listed. A
handler of the page runs to its next `await`; every answer may come late, in any
order, or never. Because the page passes events over unless
their request and conversation are current, its guards are what the properties
try. Left out: phases and texts, older pages of a transcript, tool events inside
a decision's stream, a change of goal or learner, and the assessment, plan and
document parts of the provider. A bound: the run of a stream goes on when its
last event has been received.

## 3. Properties

Only what several steps, often of several actors, can break is checked by a run.
Invariants that serve a proof (types, `LiveHandlerOwnsThread`,
`RunningHasHandler`, `OneServingIndex`, `DocumentMatchesEvent`,
`OneWorkerPerEvent`, `AttemptsWithinBudget`, the finality of settled rows) are
theorems instead.

| module | property | says |
| --- | --- | --- |
| `TutorRuns` | `OneActiveRun` | never two active runs, although only `start()` looks |
| | `ApprovalRunCoherence` | the rows of a run and its approval change together |
| | `NoSuccessAfterCancel` | not even where the unconditional write of `require_approval` overwrites the status |
| | `SuccessRecorded` | the next run restores every answer that succeeded, as long as no non-chat workflow has saved over them |
| | `AtMostOnceExecution`, `ExecutedOnlyIfApproved` | replays, repeated decisions, errors and restarts do not run a tool again, or unasked |
| | `LeaseSpec` | the rows implement the lease of a thread |
| | `RunSettles`, `ArchivedForgotten` (liveness) | a running run is settled, parked or cancelled; an archived thread loses its checkpoint |
| `DocumentIndexing` | `DocumentSpec` | the rows implement the abstract document: outcomes are final, exactly one index serves what is searchable and moves in one step, no request is lost |
| | `IndexFollowsBinding` | the active version was activated for the current binding, or an event for it is open or failed |
| | `ExecutionsWithinBudget` | processing begins no more often than attempts and faults explain |
| | `UploadSettles`, `IndexConverges` (liveness) | an upload is ingested or given up; the index reaches a binding that stays |
| `DocumentUploads` | `ObjectMatchesRow` | a committed document has its object, an upload that is over without its row left none, but for a broken put, an unsure commit, a refused deletion or a crash |
| `TutorGraph` | `EffectsOfThisTurn` | nothing an earlier turn left in the thread is written again |
| | `StepsWithinLimit` | no turn comes near the recursion limit of 25, which the code never sets |
| | `GroundedAnswer` | an answer cites evidence of its own turn, or says it has none |
| `Retrieval` | `ContextFaithful` | nobody else's text, served while the retrieval ran, no text twice, within the budget |
| | `StatusTruthful` | what "no_context" and "failed" claim is so, and the transaction stays usable |
| `Chunking` | `ChunksFaithful` | through splits and joins, every word of a document is in one chunk, in order; each fits the model and names all its sources |
| | `NoTinyLeft` | the joins leave no short chunk that could still be joined |
| `AuthSessions` | `SingleLiveToken` | rotation never forks |
| | `LogoutAllEndsSessions` | no session survives it, not even one being created |
| | `ReuseMeansLostAnswer` | with `navigator.locks` the tabs of a browser do not trip reuse detection against each other |
| `AssessmentGrading` | `GradedOnce` | what is sent under a request id counts once while no lease has run out |
| | `ClaimKeptUnderLease` | nobody takes over, fails or ends an attempt whose lease lasts |
| | `AnswersMatchPayload` | whoever is answered under a request id asked for that payload |
| `LearningPlan` | `PlanBasis` | an accepted proposal replaced the very plan it was computed for, a reassessment one without an open session |
| | `WorkNotRepeated` | no accepted proposal copies a task that is or gets completed |
| `Onboarding` | `DraftMakesOneWorkspace` | under any request ids and overlaps |
| | `ReplayTruthful` | a replay names what the request's own payload made |
| `MemoryStore` | `ConsentAtWrite` | nothing of a kind switched off is stored, although the gate ran before the model |
| | `OneActivePerSlot` | runs that save at once leave one memory per slot |
| | `ForgottenOnlyOnPurpose` | a late retry does not take a newer declaration away |
| `SecretReferences` | `NamedSecretStored` | a row's secret is in the store |
| | `NothingLeftBehind` | and nothing else, when nothing overlapped or failed |
| `McpServers` | `StartedIsConfirmed` | a command that runs is one the learner confirmed |
| `TutorView` | `ShownIsOfThread` | what is shown belongs to the open conversation, but for a run decided in another one and the answer left by a conversation that was replaced, or changed with the language |
| | `ShownStays` | a message shown stays, as a message or in the current turn, while its conversation is open; only a deletion and a change of the language clear it |

Where the code has a hole that cannot be closed without another design, the
property names the exception (a lost answer to a commit, a crash between two
stores, a put that breaks, a page of memories that overflowed, an approval
restored into another conversation, a change of the language) and nothing more; section 6 says
what happens there.

## 4. Runs

| run | instance | distinct states | shows |
| --- | --- | --- | --- |
| `TutorRuns` | 2 runs, 2 calls, 1 crash, 1 workflow, `RequestRestored`, symmetric | 612 000 | the safety properties and the refinement. Two runs meet in every way (a third meets only one active run, by `OneActiveRun`); two calls give a second approval in one run and a second call after a rejection |
| `TutorRunsRefreshed` | 1 run, 2 calls, 1 crash, `ExpireOnCommit` and `RequestRestored` | 9 200 | the tool properties where tools can run at all |
| `TutorRunsLive` | 2 runs, 1 call, 1 crash, no workflow, fair, as deployed | 53 000 | `RunSettles`, `ArchivedForgotten` |
| `DocumentIndexing` | 2 identities, 2 reindexes, 2 workers, 2 attempts, 1 fault, 1 message and 1 waiting lease per event, symmetric | 1 126 000 | its safety properties and the refinement. A duplicate delivery needs an expired lease and a second message after the first was received, which one message per event at a time allows |
| `DocumentIndexingLive` | 2 identities, 1 reindex, 1 worker, 2 tokens, 1 fault, fair | 161 000 | `UploadSettles`, `IndexConverges` |
| `Learning` | `AssessmentGrading`, `LearningPlan`, `McpServers`, `Retrieval`, `Chunking` (below), symmetric in the plan's callers | 3 335 000 | their properties |
| `Services` | `AuthSessions`, `MemoryStore`, `SecretReferences`, `Onboarding`, `DocumentUploads`, `TutorGraph`, `TutorView` (below) | 2 062 000 | their properties |

The last two take about two minutes each with two workers.

**`focus`.** `MCLearning` and `MCServices` hold several modules that share no
state. The first state chooses one (`focus`), and only its actions are taken;
the others keep their initial state, and a view leaves them out of the
fingerprint. That is the union of the state spaces of the modules, not their
product, and it checks exactly what separate runs would. It is not a
composition. Where components do interact, they are in one module together:
runs, approvals and checkpoints; outbox, broker, workers and binding; server and
tabs; plan, tasks and reassessment; configuration, trust and use of a server.

**Bounds.** Of everything that can interfere there are two, since the code
excludes interference pairwise (a lock, a unique index, a conditional update):
two handlers and two request ids on an assessment, two callers on a plan, two
requests on a server or a secret, two runs that save memory. Where a third can
matter there are three: three clients of which two are tabs of one browser,
three uploads (two that deadlock and one that gets the row), three plans (the
basis of a proposal, the one accepted before it, its own), three memories (two
of one slot and the next), three documents (curated, own, foreign). Counters
stop where the actions that count do no more than repeat: two attempts and one
expiry of a lease (two claims of an assessment: taken over once, and perhaps
finished by the late one), `MaxCalls = 5` as in the code with limits of 2 and 8
decisions (below and above it), two turns of a thread (what one leaves and the
other finds). A page has one run and three streams (a question, the decision of
its approval, and a question of the conversation opened meanwhile), one change of
the language, one conversation to create and one other request under way;
`PageBound` leaves one stream to a page whose language is changed, and one less
while a request is under way that is neither a stream nor the approvals after a
decision. Two streams beside a change, or one beside a change and a request (2.4
million states of the page instead of 1.0), were checked once. Before the language
was modelled, instances with a second run, request or conversation, each up to 16
million states, were checked once in the same way, and the theorems hold for any.
Faults are one or two per
behaviour. One preference slot does not fill a page of two, so the exception
`crowded` is never needed there, and one answer sheet leaves the comparison of
sheets in `ReplayTruthful` to the theorem; two of either were checked once, in
the same way. Documents have three blocks, or one listing of three lines, and
chunks four to eight tokens: a chunk to join between two others, sentences of
one token, of less than a chunk and of more, groups of lines that fit together,
alone or not at all. Four blocks were checked once (823 000 states of `Chunking`
instead of 35 000), and the theorems hold for documents of any. Each property is broken by its mutant inside these bounds
(section 5), and every action of every module happens.

**Deadlock.** The tutor's runs never stop: an archived thread can be archived
again. The other runs say `CHECK_DEADLOCK FALSE`, because they may really stop:
everything is settled and the events, requests, documents, plans or turns
allowed by the bounds are used up. That database deadlocks are resolved is
modelled, not assumed: PostgreSQL aborts one of the waiting transactions, an
action of `AuthSessions`, `AssessmentGrading` and `DocumentUploads`.

**Fairness.** Handlers (`WF HandlerStep`): a handler runs in a thread of the
server and every provider and tool call has a timeout. Restart (`WF Startup`):
the container is restarted. Deletion (`WF DeleteCheckpoint`): the archiving
request tries it, every later engine run and shutdown retries it. `WF
WorkflowEnds`, as handlers. Documents: `WF BecomeDue, Lease, Send` are the
clock, beat and the dispatcher; `WF Work` the timeouts of a job; `SF Deliver`
the broker: a list served in order, so a message that is there again and again
while workers come free is taken. Nothing is assumed of clients, users, crashes
or faults, except that the latter two are finite. The modules of `Learning` and
`Services` state no fairness and no liveness: their requests end by returning,
and nothing retries them but a person.

Five more runs are counterexamples, each to a sentence of the repository
(section 6).

## 5. Mutants

Each property of a passing run is tried against a deviation of one definition:
completion that ignores the status, recovery that forgets or reoffers an
approval, a binding that is not rechecked, an attempt more than the budget, a
refresh that accepts a rotated token, a claim taken over under its lease, a
proposal accepted whatever its basis, a replay by request id alone, a
fingerprint that need not be the current command's, channels that are not reset
between turns, a repair that is not validated, a joined chunk that names only
half its sources, an event that is let through
because its request is current although its conversation is not. `PROJECT.json`
names each one, and TLC finds every one of them.

## 6. What the runs refute

1. **An approved tool does not run** (`TutorRunsApproved`). The graph that is
   resumed by the decision has lost the untracked request of its turn, and the
   first line of the resumed node raises (`phase2/engine.py:625`). The endpoint
   reports `run.failed`, but no row that is not `running` is settled by a failure:
   run and approval stay executing, and the thread blocked, until the next
   restart. The trace is start, tool call, approval, decision, failure. The test
   of the streaming API that expects the tool to complete
   (`tests/tutor/test_tutor_streaming_api.py:705`) replaces the graph.
2. **A cancelled run that waits for an approval is never settled**
   (`TutorRunsCancelled`), and blocks its thread.
3. **The index of another identity is activated** (`DocumentIndexingRebound`):
   the binding changes there and back around the resolution of the client.
4. **A learning session is stranded** (`PlanSessionStranded`): accepting a
   proposal replaces the plan of an open session, whose task can then be neither
   finished nor stopped; every later reassessment asks for just that. A new
   diagnosis of the goal strands it in the same way; the property is about the
   acceptance alone, and so is the trace.
5. **A decision is overwritten** (`PlanDecisionOverwritten`): a rejection that
   read the proposal before its acceptance writes "rejected" over it.

The quoted sentences and lines are in `PROJECT.json` under "findings".

### Other divergences

They follow from the models, whose actions have them, or were met on the way. No
run is kept for them; most are short traces.

*Runs.* The turn is written into the checkpoint before the terminal commit,
which may turn into a cancellation or fail: an answer nobody was given is
remembered. A non-chat workflow under way when its thread is archived saves its
checkpoint after the deletion. With its request restored, an approved call would
be refused all the same: the decision endpoint keeps the `AgentRun` object it
loaded (`StreamingTutorRun.run`), the bulk update of `begin_decision` and a commit
that expires nothing leave it at `awaiting_approval`, and
`resolve_after_interrupt` (`tool_approval_service.py:221`), in the same session,
raises. The test of the workflow passes because it calls `expire_all()`
(`tests/test_tool_approval_workflow.py:210`).

*Documents.* The attempt of a worker that is killed is rolled back with its
transaction, so it is not counted. A failing reindex records its failure after
the rollback gave up the row lock: worker A fails and rolls back, the lease runs
out, B claims the event, activates the index and commits `succeeded`, and A
then writes `failed` over it. After an unsure commit the compensation deletes
the object of a committed row; a crash between put and commit leaks one. So does a
put that fails after it has written, as MinIO's may whose answer is lost: only
`ObjectStorageUnavailable` is compensated (`document_service.py:208`), which
neither adapter raises there, although `README.md:109` says
"对象存储或数据库失败会回滚文档并补偿清理对象" (a failure of the object store or the
database rolls the document back and cleans the object up).

*Tutor graph.* With `max_calls` 5 an agent makes at most six decisions, whatever
its limit says. A handler that timed out keeps running in its worker thread, and
an MCP handler there uses the session of the main thread. The completion handler
records "success" before the size check raises. A conflict of evidence hashes
fails the whole run.

*Chunking.* The parser takes a table without a row, or whose header has no
outer pipes (`text_parser.py:86`), the size guard refuses both
(`size_guard.py:199-203`), and the document is given up for good. A fragment of
the last resort that is short is joined again, with an empty line inside the
sentence, and its split reason is overwritten; the later fragments lack the
headings their metadata claims. The stack of headings is cut by level, not by
depth: in a document that starts below level one, "## B" after "## A" is put under
it. A heading without text below it is in no chunk, so a document of headings
becomes searchable with none. Code that begins with a blank line, or has two of
them, before a group that is too long gives a chunk without code. Moving the
index back after a join to the left changes nothing.

*Retrieval.* No statement compares the identity of a vector with that of the
query. Between the change of a binding and the activation of the new index,
queries embedded by the new model are compared with vectors of the old one; for
learners with an embedding of their own this is always so for curated documents.
A failing vector search discards the keyword results. The assessment context
uses the environment's client whatever the learner has bound.

*Sign-in.* The client's logout sends no `Authorization` header (`lib/api.ts:19`)
and is answered 401, so session and cookie survive. Logout and refresh take
their row locks in opposite orders, as do two overlapping logouts of all
sessions. A tab waits four seconds for another tab, the server's grace is three.

*Assessments.* The creation of the live phase ignores the request id that
`README.md:180` calls idempotent, and answers a lost race with 500. The workflow
service has no caller. There, an assessment whose lease ran out may be graded by
both graders, a late one with a stale token passes the check after a take-over,
and a failed submission that is repeated after another one claimed the
assessment is graded too (`assessment_workflow_service.py:183`). Deterministic
grading folds case, the validation of a bundle does not. Hybrid generation
raises where it should fall back. `calculate_mastery_updates` always asks for
manual review, so the observer's "advance" is unreachable.

*Plans.* The branch "superseded" is unreachable when the plan's id matches.
Exceptions outside the `try` of a completion leave its session "completing".
`snapshot.current_state` is read and written without a lock, so updates are
lost. Completions and replacements are kept apart only by the KEY SHARE lock of
a foreign key on the goal.

*Onboarding.* Expiry is checked before the model call only. A retry that races
the commit of the first attempt may be told `draft_consumed`. The reassessment
form never resets its draft's request id (`diagnosis-form.tsx:345-400`); the
diagnosis form takes new ids after a 410 while the first request may still
commit. `create_dynamic_draft` replays without comparing the goal; the versioned
form replays by request id alone.

*Memory.* The savepoint for a unique violation cannot be reached under the
profile lock, nor can a "conflict" for a result, whose key is fresh. With more
active preferences than a page, the old row of a slot is missed. The recheck
reads fresh settings only because no live reference keeps the profile in the
identity map.

*Secrets.* Of two overlapping writes one value is orphaned. A write that
overlaps `delete_model` leaves the row and the value of a deleted model. A
reader between the row and the store is told `credential_missing`. The undo of
an unsure commit deletes the named value. The capabilities of a model may change
between a binding's check and its commit; deleting a model that is being bound
is answered 500.

*MCP.* The trust request names no command: it trusts what is current. One whose
fingerprint equals what it read writes nothing, so its answer "trusted" may be
void. Overlapping discoveries mix their catalogs or fail with an error nobody
catches; one that began before a change of configuration stores the old server's
tools; a disabled tool that vanishes for one discovery comes back enabled. A
transaction stays open for the forty seconds of a call.

*Web client.* A late list of approvals overwrites newer ones
(`learning-provider.tsx:405-421`): a pending approval vanishes while its run
keeps the page from asking. A decision whose stream ends restores the approvals
of the conversation it was made in, whatever is open now (944-946); decided
there, they bring messages and answers of another conversation onto the page,
against `tutor-stream.test.mjs:157`. `ShownIsOfThread` once denied this: an
instance with three streams, made when its proof did not go through, has the
trace. An ask that fails late clears the run of another conversation
(task-4-report.md:67 says otherwise). A second approval in the stream of a
decision is reported as `run.failed`. Deleting one conversation and opening
another before the answer comes resets the one that is open (537-541), which is
not loaded again. A late event of a deleted conversation leaves its answer in
the replacement (544-551), the second way `ShownIsOfThread` names. The third is a
change of the language, which makes the translation, and with it the effects that
depend on it, anew (371-461): the stream under way is aborted, the messages of the
open conversation are cleared and asked for again, and the conversations are
listed again, of which the first is opened, whatever was open, under the answer
of the one before (391-393). The toggle is in the shell of every page. A new
question hides the messages of the previous turn until its run has started, and
for good if it never does: what is rendered leaves out the messages of the run in
the view as soon as there is a question (1460-1462). A late answer
to a cancellation clears a newer run. The answer to the creation of a
conversation takes the page away from a question asked meanwhile. A question
asked while a tutor action is busy clears the answer and leaves the page
"preparing" (567-581, 692-695).

## 7. What is proved

For all values of the constants, under the named assumptions. These say that the
"no such thing" values are not members of their sets, that bounds are numbers,
that there is at least one attempt, message, request id, tab and conversation,
that foreign documents are not the learner's, that a single chunk fits the
budget of a prompt (section 2.4), and that the fence of a code block leaves room
in one and the characters of the last cut are more than an empty line
(`SizePolicy`). None fixes the size of a set or a bound. Every
safety property of section 3 is proved. Hardly one is inductive alone; what it
needs beside it is the content of each proof.

**`TutorRunsProofs`**: `Spec => []IInv`, from it every safety invariant of
section 3, and `Refinement`, `Spec => LeaseSpec`. The
properties are not inductive alone. `LiveHandlerOwnsThread` needs
`ArchivedQuiescent` and `OneActiveRun`, since `StartRun` and `Archive` look only
at statuses. `AtMostOnceExecution` needs `NotYetExecuted` (a resumed handler
finds its call never executed: it was pending when decided, and
`ExecutedOnlyIfApproved` says a pending call was not). `ApprovalRunCoherence`
needs `OneExecutingCall` and `InvokingApproved`, so that settling a call leaves
no other executing. The unconditional write of `require_approval` is handled by
`ViewOfStatus`: the value a handler read goes stale only by a cancellation, and
in a resumed session it is never `running`; and by `CancelledStatus`, the
statuses a cancelled run can show. The proof groups the invariant per run
(`EveryRun`, `PerRun`), shows that a step of one run frames the others
(`FrameInv`, `FrameRow`), and takes handlers, clients and the system in turn.
Steps that touch one run's row make the refinement: `HandlerMove`, `ClientMove`
and `StartupMove` say how a row may move, `MoveLeases` maps each move to a step
of the lease or a stutter. `SuccessRecorded` has an invariant of its own,
`HistoryInv`, on top of `IInv`: while the thread is active and no workflow has
saved over it, the answers that succeeded are in the checkpoint and in `base`,
what every handler with an invoked graph saves at its next step, and a finalized
run's turn is in the checkpoint. `Invoked` has to count a parked run, whose
approval row says that its graph was once invoked. That no run succeeds between a
handler's restore and its save is `OneActiveRun`.

**`DocumentIndexingProofs`**: `Spec => []IInv`, `OneServingIndex`,
`IndexFollowsBinding`, and the finality of an upload's outcome.
`IndexFollowsBinding` needs `JobMatchesEvent` (an open transaction keeps its
event open, by the row lock, and a reindex worker has read its target) and
`ReindexOfSearchable`. A step that changes neither the document nor the binding
nor closes an event is shown harmless once (`StillSteps`, `StillInv`).
`ExecutionsWithinBudget` follows from `ExecutionsCounted`: there was one start of
processing for each recorded attempt and each fault, and one for the worker that
holds the upload now. `OneWorkerPerEvent` makes that one; a worker lets go only
with an attempt or a fault. `DocumentPromise` is the refinement, `Spec =>
DocumentSpec`: leases, messages and what workers do before they commit map to
stutters (`UnseenSteps`); the ends of a worker's transaction map to `Ingest`,
`GiveUp`, `CarryOut`, `Drop` and `Fail` (`UploadPromise`, `ReindexPromise`,
`SkipPromise`), where `JobMatchesEvent` says that the worker's event is an open
request for the identity it read, and `OneTakesOver` that an activation leaves
one index.

**`WorkspaceProofs`**, onboarding: `DraftMakesOneWorkspace` and `ReplayTruthful`
from `DiagsOK` (a baseline's draft exists, is used, and has no other) and
`CallOK` (what a request keeps across the model call).
Uploads: `ObjectMatchesRow` from `Left(u)`, which says for each stage of a
request what it has put into the two stores, and in which stages a fault may
have disturbed that; a request whose put broke is over, with its object or
without; only the stages that wait for the learner's row can be in
`waiting`.
MCP servers: `StartedIsConfirmed` from `ConfirmedOnly`: the fingerprint in the
row, and the one a request is about to write, is one the learner asked for or
none. What a request read stays consistent in itself, because command and
fingerprint come from one row.

**`TutorGraphProofs`**: `EffectsOfThisTurn` from `OutputsFit` (each output in
the channels is of this turn, and of a trigger that makes it) and `NodeFits`;
`StepsWithinLimit` from `StepsFit`, a rank: how many nodes a turn has visited at
most when it comes to each, two more per decision; `GroundedAnswer` from
`EvidenceFits` (evidence is the retrieved chunk or a cached result of this turn,
and before the teacher there is no answer). The invariant is preserved node by
node.

**`LearningProofs`**, grading: `GradingInv`. In the live service `LiveOnce` says
that the row lock lets one handler run, and only before anything was graded. In
the workflow service `TokensApart` (a claim token names one claim) and, while no
lease has run out, `LeasesKept`: who is in a phase of a claim owns the attempt,
and what was applied belongs to an attempt that is done. `AnswerOK` ties what a
handler answers to the payload in the row, through every take-over.
Plans: `PlanInv`. The plan in force is the last one; a plan made from a proposal
is one higher than the proposal's base (`MadeFor`); a copied task's original is
open and of an earlier plan (`CopyLater`), hence never completed, since only
tasks of the plan in force are. `TaskPlanned` keeps reassessments away from open
sessions.
Retrieval: `RetrievalInv`. Whatever was found is of a version between the one
that served when the retrieval began and the one that serves now (`RowsServed`);
`VectorsTell` carries "something was indexed" from the first statement to the
status; `SelectionOK` bounds every first part of the selection, because cutting
to the size a caller asks for leaves one.

**`ServicesProofs`**, sessions: `AuthInv`. The row locks are in the invariant: a
request that rotates holds the row of a live token of a live session, and one
that logs all sessions out holds the user's row from the read of the sessions
on, so that every session it has not read is revoked already (`AuthRequestOK`);
no row has two holders. `ReuseMeansLostAnswer` needs `TabOK` and `TabsApart`,
which hold in a browser with `navigator.locks` as long as no answer was lost: one
tab is in the lock, a token reaches one tab, and a used cookie is about to be
replaced by the answer of the tab in the lock.
Memory: `MemInv`. A run that has read its page under the profile lock supersedes
all active rows of its slot and none of another, as long as a page holds them
(`SavingOK`); its lock lasts to the commit, so the settings it rechecked are those
of the write. The two action properties are shown with the invariant
(`Consented`, `Purposeful`).
Secrets: `SecretInv`. `Secret` says that a value put and not yet committed is
known to no other request, `RequestOK` and `Progress` what each stage of a
request has put and read; an owner is `Calm` while nothing overlapped or failed,
and then the store holds exactly what the one request's progress says.
The page: `ViewInv`. `KnownMade` (the page lists conversations that were made,
so a new one is none of them), `LoadsOfThread` (messages awaited are of the open
conversation) and `StreamsOfThread` (a stream tells of a run of its conversation,
or of one that was decided elsewhere). A change of the language asks for the lists
of the open conversation alone, and what it opens afterwards takes its answer into
`leftover`. `StreamsOfThread` is where the first attempt failed, for a good reason (section 6, *Web client*).

**`ChunkingLemmas`, `ChunkingProofs`**: `ChunksFaithful` and `NoTinyLeft`, for
any size policy, any boundaries and any document at all: `AnyDocumentSpec` starts
from a document of any blocks, any number of them and any lengths (`File`);
`ChunkingSpec`, whose documents are within the bounds of the run, is a case of it
(`BoundedDocuments`). Two arguments are needed.

What the operators return. Text is cut and gathered by folds, and what a fold
returns for every input is an induction over data, whose theorem in the library
takes a predicate. `Induction` states it for a set instead: a set with 0 that
holds the successor of each of its numbers below n holds n (from the least
element of a set, `Least`, by the well-foundedness of `<`). With it `StepsExist`
and `FoldSteps` give every fold the trace of its values, `FlattenSteps` that of a
concatenation, and the rest is about traces. `Pack`, which takes together what
fits and cuts finer what does not, keeps the words of its items if its chunks
do (`PackItems`, `PackGroups`); code (`CodeCandidatesSound`) nests it three
times, tables and text once (`TableCandidatesSound`, `TextEntriesSound`). Each
candidate fits the model, names the blocks its words come from, and outside code
and tables is `Clean`: of its first two tokens one is no empty line, although
the cuts of the last resort fall anywhere. `RegionsIs` says that the regions of a document have its words in
their order.

The loop. `ChunkingIInv`: the chunks so far have the words of the regions behind
(`Cutting`); in the loop the entries have those of its region, and are settled up
to the index (`Merging`): no pair before it can be joined for the sake of either
part, and none that ends at it for the sake of its left part (`Settled`). A join
keeps the words, because `Strip` takes none (`JoinedSound`). It may change the
right part of a pair that is settled, and what makes that harmless is
`JoinableLost`: a text that could not take m cannot take m joined with r, since
that is no shorter. Here `Clean` is needed: a join strips the empty lines at its
ends, and a text of empty lines would vanish in it.
`LoopEnds` is an action property with the same invariant: each step of the loop
lowers `2 * Len(entries) + 1 - index`, which is never below zero, the joins that
move it back included. So far as the loop is scheduled, it ends.

Model-checked only:

* the liveness properties and everything under fairness, which are out of the
  prover's reach; `TutorRunsApproved` and `TutorRunsCancelled` refute two of them.

## 8. Not modelled, and the plan

* **Learning state, feedback and saved nodes**: reads and single-row writes on
  behalf of a request; what could go wrong with the snapshot is in
  `LearningPlan`.
* **Parsing, and the older chunkers (v2)**: functions of a file. A failure of
  parsing is an outcome in `DocumentIndexing`, the bound on a chunk's size is
  used in `Retrieval`.
* **Provider gateways, learning sources**: network I/O. A failure, a delay or a
  malformed answer is an outcome of the step that calls.
* **Database schema, migrations**: the constraints the models rely on are stated
  in the actions that meet them; migrations run offline.
* What is left out of each component that is partly modelled is said in section 2
  and in `PROJECT.json`. The application has many endpoints that format, list
  and validate; they hold most of its lines and none of its interleavings.

What would come next, in this order:

1. the older chunkers with their overlap (a word in two chunks is intended
   there, which `ChunksFaithful` excludes for v3);
2. the fallbacks and time budgets of `llm_gateway.py`;
3. composing `TutorRuns` with `TutorView`, whose `backend` is a coarse view of
   it: a refinement of the latter's backend by the former's rows;
4. abstract specifications of more components, as `SearchableDocument` is of the
   outbox: the index that `Retrieval` reads is `serving` of several of those.
