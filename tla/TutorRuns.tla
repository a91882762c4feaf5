----------------------------- MODULE TutorRuns -----------------------------
(***************************************************************************)
(* Managed tutor runs of ONE conversation thread.                          *)
(*                                                                         *)
(* A chat request inserts an AgentRun row, runs the LangGraph tutor graph  *)
(* in a worker thread, may stop at a tool that needs the user's approval,  *)
(* may be resumed by a second request that carries the decision, and       *)
(* ends by writing the completed turn to the checkpoint and the terminal   *)
(* status to the row.  Cancellation, archiving, disconnects, non-chat      *)
(* workflows on the same thread, crashes and restarts interleave with it.  *)
(* Every query of the code filters on thread_id, so threads do not meet.   *)
(*                                                                         *)
(* Three stores: the database (status, cancelReq, approval, thread), the   *)
(* checkpoint store (checkpointed, turns) and the memory of the one API    *)
(* process (everything else), which a crash erases.                        *)
(***************************************************************************)
EXTENDS Naturals, FiniteSets

CONSTANTS
  Runs,            \* agent_runs rows the thread may ever get
  Calls,           \* distinct effectful tool calls (request hashes) of a run
  NoCall,          \* the handler is at no tool call
  ExpireOnCommit,  \* does a commit expire the session's ORM objects?
                   \* FALSE in this code base: sessionmaker(expire_on_commit=False)
  RequestRestored, \* does a resumed node of the graph find the request of its turn?
                   \* FALSE in this code base: the channel "request" is untracked
  MaxCrashes,      \* bound on process crashes
  MaxWorkflows     \* bound on non-chat workflows started on the thread

ASSUME NoCallAssumption == NoCall \notin Calls
ASSUME ExpireOnCommitAssumption == ExpireOnCommit \in BOOLEAN
ASSUME RequestRestoredAssumption == RequestRestored \in BOOLEAN
ASSUME BoundsAssumption == MaxCrashes \in Nat /\ MaxWorkflows \in Nat

VARIABLES
  thread,        \* conversation_threads.status
  status,        \* agent_runs.status of each run
  cancelReq,     \* runs with cancel_requested_at set
  approval,      \* user_tool_approvals.status of each call of each run
  executed,      \* how often the MCP tool really ran (the outside world)
  turns,         \* completed turns in the thread's checkpoint
  checkpointed,  \* the thread has a checkpoint
  pc,            \* where the request handler of each run is
  kind,          \* which endpoint the handler belongs to
  call,          \* the tool call the handler is at
  view,          \* the status held by the handler's ORM AgentRun object
  gone,          \* runs whose client has disconnected (the Event is set)
  base,          \* the turns restored when the run's graph was invoked
  deletion,      \* the thread is in _pending_deletions
  inflight,      \* the turns restored by each non-chat workflow in flight
  workflows,     \* how many non-chat workflows were started
  up,            \* the API process is serving
  recovered,     \* the last startup ran its recovery
  crashes,       \* how many crashes there were
  lost           \* runs whose handler ended without settling them (auxiliary)

rows    == <<thread, status, cancelReq, approval>>
saved   == <<turns, checkpointed>>
handler == <<pc, kind, call, view, gone, base>>
process == <<deletion, inflight, workflows, up, recovered, crashes>>
vars    == <<rows, executed, saved, handler, process, lost>>

ActiveStatus   == {"running", "awaiting_approval", "executing_approval",
                   "cancellation_requested"}
TerminalStatus == {"success", "failed", "cancelled"}
RunStatus      == {"absent"} \cup ActiveStatus \cup TerminalStatus
ApprovalStatus == {"none", "pending", "executing", "rejected", "completed",
                   "failed", "unknown"}
LiveStep       == {"preparing", "working", "approving", "replaying",
                   "reapproving", "resolving", "invoking", "committed",
                   "finalized", "failing"}

Active(r) == status[r] \in ActiveStatus
Live(r)   == pc[r] # "idle"

TypeOK ==
  /\ thread \in {"active", "archived"}
  /\ status \in [Runs -> RunStatus]
  /\ cancelReq \in SUBSET Runs
  /\ approval \in [Runs -> [Calls -> ApprovalStatus]]
  /\ executed \in [Runs -> [Calls -> Nat]]
  /\ turns \in SUBSET Runs
  /\ checkpointed \in BOOLEAN
  /\ pc \in [Runs -> LiveStep \cup {"idle"}]
  /\ kind \in [Runs -> {"stream", "sync", "resume"}]
  /\ call \in [Runs -> Calls \cup {NoCall}]
  /\ view \in [Runs -> RunStatus]
  /\ gone \in SUBSET Runs
  /\ base \in [Runs -> SUBSET Runs]
  /\ deletion \in BOOLEAN
  /\ inflight \in SUBSET SUBSET Runs
  /\ workflows \in Nat
  /\ up \in BOOLEAN
  /\ recovered \in BOOLEAN
  /\ crashes \in Nat
  /\ lost \in SUBSET Runs

Init ==
  /\ thread = "active"
  /\ status = [r \in Runs |-> "absent"]
  /\ cancelReq = {}
  /\ approval = [r \in Runs |-> [c \in Calls |-> "none"]]
  /\ executed = [r \in Runs |-> [c \in Calls |-> 0]]
  /\ turns = {}
  /\ checkpointed = FALSE
  /\ pc = [r \in Runs |-> "idle"]
  /\ kind = [r \in Runs |-> "stream"]
  /\ call = [r \in Runs |-> NoCall]
  /\ view = [r \in Runs |-> "absent"]
  /\ gone = {}
  /\ base = [r \in Runs |-> {}]
  /\ deletion = FALSE
  /\ inflight = {}
  /\ workflows = 0
  /\ up = TRUE
  /\ recovered = TRUE
  /\ crashes = 0
  /\ lost = {}

-----------------------------------------------------------------------------
\* The requests that open and close a thread to runs.

\* Deviation: only a run in the middle of its graph blocks the thread.
ThreadFreeOfRunning == \A r \in Runs : status[r] # "running"

\* The query of start() and archive() for an active run of the thread.
ThreadFree == \A r \in Runs : ~ Active(r)

\* start(): the thread row is locked, must be active and have no active run.
StartRun(r, k) ==
  /\ up
  /\ thread = "active"
  /\ ThreadFree
  /\ status[r] = "absent"
  /\ status' = [status EXCEPT ![r] = "running"]
  /\ pc' = [pc EXCEPT ![r] = "preparing"]
  /\ kind' = [kind EXCEPT ![r] = k]
  /\ UNCHANGED <<thread, cancelReq, approval, executed, saved, call, view,
                 gone, base, process, lost>>

\* DELETE /conversations: archiving an archived thread only schedules again.
ArchiveAllowed == thread = "archived" \/ ThreadFree

Archive ==
  /\ up
  /\ ArchiveAllowed
  /\ thread' = "archived"
  /\ deletion' = TRUE
  /\ UNCHANGED <<status, cancelReq, approval, executed, saved, handler,
                 inflight, workflows, up, recovered, crashes, lost>>

\* POST /runs/{run_id}/cancel, only from running and awaiting_approval.
RequestCancel(r) ==
  /\ up
  /\ status[r] \in {"running", "awaiting_approval"}
  /\ status' = [status EXCEPT ![r] = "cancellation_requested"]
  /\ cancelReq' = cancelReq \cup {r}
  /\ UNCHANGED <<thread, approval, executed, saved, handler, process, lost>>

\* The client of a streaming endpoint goes away; the monitor sets the Event.
Disconnect(r) ==
  /\ Live(r)
  /\ kind[r] # "sync"
  /\ gone' = gone \cup {r}
  /\ UNCHANGED <<rows, executed, saved, pc, kind, call, view, base, process, lost>>

-----------------------------------------------------------------------------
\* The chat handler: prepare, run the graph, commit, finalize, complete.

Goto(r, step) == pc' = [pc EXCEPT ![r] = step]

\* Restore the saved turns and invoke the graph, which checkpoints at once.
InvokeGraph(r) ==
  /\ pc[r] = "preparing"
  /\ base' = [base EXCEPT ![r] = turns]
  /\ checkpointed' = TRUE
  /\ Goto(r, "working")
  /\ UNCHANGED <<rows, executed, turns, kind, call, view, gone, process, lost>>

\* Every superstep of the graph saves the workflow state it carries.
GraphStep(r) ==
  /\ pc[r] = "working"
  /\ turns' = base[r]
  /\ checkpointed' = TRUE
  /\ UNCHANGED <<rows, executed, handler, process, lost>>

\* A provider, database or checkpoint error: rollback, then the except block.
\* So ends every resumed node that has no request: its first line reads it.
GraphFails(r) ==
  /\ Live(r)
  /\ pc[r] # "failing"
  /\ Goto(r, "failing")
  /\ UNCHANGED <<rows, executed, saved, kind, call, view, gone, base, process, lost>>

\* cancel_before_commit, then the commit of the workflow's own writes.
BeforeCommit(r) ==
  /\ pc[r] = "working"
  /\ Goto(r, IF r \in gone \cup cancelReq THEN "failing" ELSE "committed")
  /\ UNCHANGED <<rows, executed, saved, kind, call, view, gone, base, process, lost>>

\* Deviation: the turn replaces the restored conversation.
LatestTurnOnly(r) == {r} \cap Runs

\* record_completed_turn: the restored conversation and this turn.
CompletedTurns(r) == base[r] \cup {r}

FinalizeHistory(r) ==
  /\ pc[r] = "committed"
  /\ turns' = CompletedTurns(r)
  /\ checkpointed' = TRUE
  /\ Goto(r, "finalized")
  /\ UNCHANGED <<rows, executed, kind, call, view, gone, base, process, lost>>

\* Deviation: the completion does not look at the status under the row lock.
CompletedAnyway(r) == IF Active(r) THEN "success" ELSE status[r]

\* complete_run: success from running.  From cancellation_requested the row
\* would become cancelled, but TutorRunCancelled rolls that back and the
\* except block writes it.  From any other status the row is left alone.
CompletedStatus(r) == IF status[r] = "running" THEN "success" ELSE status[r]

CompleteRun(r) ==
  /\ pc[r] = "finalized"
  /\ status' = [status EXCEPT ![r] = CompletedStatus(r)]
  /\ Goto(r, IF status[r] = "cancellation_requested" THEN "failing" ELSE "idle")
  /\ UNCHANGED <<thread, cancelReq, approval, executed, saved, kind, call,
                 view, gone, base, process, lost>>

Cancellable == {"running", "awaiting_approval", "cancellation_requested"}

\* Deviation: a failure is not recorded unless the user had cancelled.
FinalStatusOfCancelled(r) ==
  IF r \in gone \cup cancelReq /\ status[r] \in Cancellable
    THEN "cancelled" ELSE status[r]

\* The row finish_streaming_failure leaves: cancelled if the client left or
\* asked for it, failed if still running, otherwise as it was.
FinalStatus(r) ==
  CASE r \in gone \cup cancelReq /\ status[r] \in Cancellable -> "cancelled"
    [] r \notin gone \cup cancelReq /\ status[r] = "running"   -> "failed"
    [] OTHER                                                   -> status[r]

FinishFailure(r) ==
  /\ pc[r] = "failing"
  /\ status' = [status EXCEPT ![r] = FinalStatus(r)]
  /\ cancelReq' = IF FinalStatus(r) = "cancelled" THEN cancelReq \cup {r} ELSE cancelReq
  /\ Goto(r, "idle")
  /\ UNCHANGED <<thread, approval, executed, saved, kind, call, view, gone,
                 base, process, lost>>

\* The terminal write never happens: the decision endpoint has no shielded
\* finish when its client leaves, and every endpoint gives up if the write
\* itself fails.
LeaveUnsettled(r) ==
  /\ pc[r] = "failing"
  /\ Goto(r, "idle")
  /\ lost' = lost \cup {r}
  /\ UNCHANGED <<rows, executed, saved, kind, call, view, gone, base, process>>

-----------------------------------------------------------------------------
\* Tool approvals.

\* The status the session of a handler reads.  The decision endpoint holds
\* its AgentRun object from before the decision; unless a commit expires it,
\* the session keeps answering with the loaded value.
ReadStatus(r) ==
  IF kind[r] = "resume" /\ ~ ExpireOnCommit THEN view[r] ELSE status[r]

\* require_approval up to its commit: the graph reached call c ...
ReachToolCall(r, c) ==
  /\ pc[r] = "working"
  /\ call' = [call EXCEPT ![r] = c]
  /\ view' = [view EXCEPT ![r] = ReadStatus(r)]
  /\ Goto(r, "approving")
  /\ UNCHANGED <<rows, executed, saved, kind, gone, base, process, lost>>

\* ... or the resumed node, if it has its request, reaches the call again.
ReplayToolCall(r) ==
  /\ pc[r] = "replaying"
  /\ RequestRestored
  /\ view' = [view EXCEPT ![r] = ReadStatus(r)]
  /\ Goto(r, "reapproving")
  /\ UNCHANGED <<rows, executed, saved, kind, call, gone, base, process, lost>>

\* The commit of require_approval.  run.status is an ORM write decided on the
\* value read before, with no condition in the UPDATE.
ParkedStatus(r) ==
  IF view[r] = "running" THEN [status EXCEPT ![r] = "awaiting_approval"] ELSE status

ParkedApproval(r) ==
  IF approval[r][call[r]] = "none" THEN "pending" ELSE approval[r][call[r]]

Park(r) ==
  /\ approval' = [approval EXCEPT ![r][call[r]] = ParkedApproval(r)]
  /\ status' = ParkedStatus(r)
  /\ UNCHANGED <<thread, cancelReq, executed, saved, kind, call, view, gone,
                 base, process, lost>>

\* The interrupt ends the handler.  Only the chat stream knows how to leave a
\* run waiting; the other endpoints take the interrupt for an error, and so
\* does the shielded finish of a chat stream whose client has left.
CommitApproval(r) ==
  /\ pc[r] = "approving"
  /\ Park(r)
  /\ \/ kind[r] = "stream" /\ Goto(r, "idle")
     \/ (kind[r] # "stream" \/ r \in gone) /\ Goto(r, "failing")

RecommitApproval(r) ==
  /\ pc[r] = "reapproving"
  /\ Park(r)
  /\ Goto(r, "resolving")

\* Deviation: a call is decided again.
MayDecideAgain(r, c) ==
  /\ thread = "active" /\ r \notin cancelReq
  /\ approval[r][c] # "none" /\ status[r] = "awaiting_approval"

\* POST .../decision: preview, then begin_decision's two conditional updates.
\* A sync run's input snapshot has no request to resume from.
MayDecide(r, c) ==
  /\ thread = "active"
  /\ r \notin cancelReq
  /\ approval[r][c] = "pending"
  /\ status[r] = "awaiting_approval"

BeginDecision(r, c, approve) ==
  /\ up
  /\ pc[r] = "idle"
  /\ kind[r] # "sync"
  /\ MayDecide(r, c)
  /\ approval' = [approval EXCEPT ![r][c] = IF approve THEN "executing" ELSE "rejected"]
  /\ status' = [status EXCEPT ![r] = IF approve THEN "executing_approval" ELSE "running"]
  /\ kind' = [kind EXCEPT ![r] = "resume"]
  /\ call' = [call EXCEPT ![r] = c]
  /\ view' = [view EXCEPT ![r] = "awaiting_approval"]
  /\ gone' = gone \ {r}
  /\ Goto(r, "replaying")
  /\ UNCHANGED <<thread, cancelReq, executed, saved, base, process, lost>>

\* The replay does not meet the interrupt: the server or tool was disabled, or
\* a workflow's checkpoint, which asks for no request, replaced the suspended
\* one.  The graph carries on.
ReplayDiverges(r) ==
  /\ pc[r] = "replaying"
  /\ RequestRestored \/ workflows > 0
  /\ Goto(r, "working")
  /\ UNCHANGED <<rows, executed, saved, kind, call, view, gone, base, process, lost>>

\* resolve_after_interrupt of a rejected call: an observation for the agent.
ResolveRejected(r) ==
  /\ pc[r] = "resolving"
  /\ approval[r][call[r]] = "rejected"
  /\ Goto(r, "working")
  /\ UNCHANGED <<rows, executed, saved, kind, call, view, gone, base, process, lost>>

MayExecute(r) ==
  /\ pc[r] = "resolving"
  /\ approval[r][call[r]] = "executing"
  /\ ReadStatus(r) = "executing_approval"

\* An approved call whose run is not seen as executing_approval: a
\* ToolApprovalConflict, after which the endpoint writes nothing.
ResolveConflict(r) ==
  /\ pc[r] = "resolving"
  /\ approval[r][call[r]] = "executing"
  /\ ReadStatus(r) # "executing_approval"
  /\ Goto(r, "idle")
  /\ lost' = lost \cup {r}
  /\ UNCHANGED <<rows, executed, saved, kind, call, view, gone, base, process>>

InvokeTool(r) ==
  /\ MayExecute(r)
  /\ executed' = [executed EXCEPT ![r][call[r]] = @ + 1]
  /\ Goto(r, "invoking")
  /\ UNCHANGED <<rows, saved, kind, call, view, gone, base, process, lost>>

\* Record the outcome of the call and release the run, in one commit.
Settle(r, outcome) ==
  /\ approval' = [approval EXCEPT ![r][call[r]] = outcome]
  /\ status' = [status EXCEPT ![r] = IF @ = "executing_approval" THEN "running" ELSE @]
  /\ UNCHANGED <<thread, cancelReq, saved, kind, call, view, gone, base, process, lost>>

ToolReturns(r) ==
  /\ pc[r] = "invoking"
  /\ Settle(r, "completed")
  /\ Goto(r, "working")
  /\ UNCHANGED executed

\* McpServiceError, from the call itself or before it is sent.
ToolErrors(r) ==
  /\ pc[r] = "invoking" \/ MayExecute(r)
  /\ Settle(r, "failed")
  /\ Goto(r, "failing")
  /\ UNCHANGED executed

-----------------------------------------------------------------------------
\* Checkpoints, non-chat workflows, crashes and restarts.

\* delete_thread of the checkpoint store, by the archiving request or a retry.
DeleteCheckpoint ==
  /\ up
  /\ deletion
  /\ deletion' = FALSE
  /\ checkpointed' = FALSE
  /\ turns' = {}
  /\ UNCHANGED <<rows, executed, handler, inflight, workflows, up, recovered,
                 crashes, lost>>

\* An assessment, replan or task workflow: require_thread without a lock,
\* no AgentRun row, the same thread_id in the checkpoint store.
StartWorkflow ==
  /\ up
  /\ thread = "active"
  /\ workflows < MaxWorkflows
  /\ inflight' = inflight \cup {turns}
  /\ workflows' = workflows + 1
  /\ UNCHANGED <<rows, executed, saved, handler, deletion, up, recovered,
                 crashes, lost>>

WorkflowStep ==
  /\ turns' \in inflight
  /\ checkpointed' = TRUE
  /\ UNCHANGED <<rows, executed, handler, process, lost>>

WorkflowEnds ==
  /\ \E restored \in inflight : inflight' = inflight \ {restored}
  /\ UNCHANGED <<rows, executed, saved, handler, deletion, workflows, up,
                 recovered, crashes, lost>>

Crash ==
  /\ up
  /\ crashes < MaxCrashes
  /\ crashes' = crashes + 1
  /\ up' = FALSE
  /\ pc' = [r \in Runs |-> "idle"]
  /\ lost' = lost \cup {r \in Runs : Live(r)}
  /\ deletion' = FALSE
  /\ inflight' = {}
  /\ UNCHANGED <<rows, executed, saved, kind, call, view, gone, base,
                 workflows, recovered>>

\* recover_stranded_tool_approvals and reconcile_archived_checkpoint_threads.
Stranded(r) == \E c \in Calls : approval[r][c] = "executing"

\* Deviations: recovery forgets the approval, or offers it for decision again.
ApprovalNotRecovered(r, c) == approval[r][c]

ApprovalReoffered(r, c) ==
  IF approval[r][c] = "executing" THEN "pending" ELSE approval[r][c]

RecoveredApproval(r, c) ==
  IF approval[r][c] = "executing" THEN "unknown" ELSE approval[r][c]

\* Deviation: the pending deletions of the process that crashed.
PendingDeletion == deletion

ReconciledDeletion == thread = "archived"

Startup ==
  /\ ~ up
  /\ up' = TRUE
  /\ recovered' = TRUE
  /\ approval' = [r \in Runs |-> [c \in Calls |-> RecoveredApproval(r, c)]]
  /\ status' = [r \in Runs |->
                  IF Stranded(r) /\ status[r] \in ActiveStatus \ {"cancellation_requested"}
                    THEN "failed" ELSE status[r]]
  /\ deletion' = ReconciledDeletion
  /\ UNCHANGED <<thread, cancelReq, executed, saved, handler, inflight,
                 workflows, crashes, lost>>

\* The lifespan swallows an OperationalError and serves without recovery.
StartupWithoutRecovery ==
  /\ ~ up
  /\ up' = TRUE
  /\ recovered' = FALSE
  /\ UNCHANGED <<rows, executed, saved, handler, deletion, inflight,
                 workflows, crashes, lost>>

-----------------------------------------------------------------------------
ApprovalStep(r) ==
  \/ \E c \in Calls : ReachToolCall(r, c)
  \/ ReplayToolCall(r)
  \/ CommitApproval(r)
  \/ RecommitApproval(r)
  \/ ReplayDiverges(r)
  \/ ResolveRejected(r)
  \/ ResolveConflict(r)
  \/ InvokeTool(r)
  \/ ToolReturns(r)
  \/ ToolErrors(r)

\* What the handler of r does by itself until it ends.
HandlerStep(r) ==
  \/ InvokeGraph(r)
  \/ GraphFails(r)
  \/ BeforeCommit(r)
  \/ FinalizeHistory(r)
  \/ CompleteRun(r)
  \/ FinishFailure(r)
  \/ LeaveUnsettled(r)
  \/ ApprovalStep(r)

\* What users and clients do to run r.
ClientStep(r) ==
  \/ \E k \in {"stream", "sync"} : StartRun(r, k)
  \/ RequestCancel(r)
  \/ Disconnect(r)
  \/ \E c \in Calls, approve \in BOOLEAN : BeginDecision(r, c, approve)

SystemStep ==
  \/ Archive
  \/ DeleteCheckpoint
  \/ StartWorkflow
  \/ WorkflowStep
  \/ WorkflowEnds
  \/ Crash
  \/ Startup
  \/ StartupWithoutRecovery

Next ==
  \/ \E r \in Runs : HandlerStep(r) \/ GraphStep(r) \/ ClientStep(r)
  \/ SystemStep

Spec == Init /\ [][Next]_vars

\* A handler thread is never starved and every provider call has a timeout;
\* a stopped container is restarted; a pending deletion is tried by the
\* archiving request itself and again by every later engine run.  Clients,
\* crashes and workflows owe nothing.
Fairness ==
  /\ \A r \in Runs : WF_vars(HandlerStep(r))
  /\ WF_vars(DeleteCheckpoint)
  /\ WF_vars(WorkflowEnds)
  /\ WF_vars(Startup \/ StartupWithoutRecovery)

FairSpec == Spec /\ Fairness
-----------------------------------------------------------------------------
\* Safety.

\* start() and archive() together with every transition of a run: a thread
\* never has two active runs, whatever cancels, decisions and crashes do.
OneActiveRun ==
  \A r, s \in Runs : Active(r) /\ Active(s) => r = s

\* A handler that is still going belongs to the thread's active run, and the
\* thread is open: nobody can start a second run or archive under its feet.
LiveHandlerOwnsThread ==
  \A r \in Runs : Live(r) => Active(r) /\ thread = "active" /\ up

\* archive() refuses an active run and start() an archived thread, so an
\* archived thread stays without active runs.
ArchivedQuiescent ==
  thread = "archived" => \A r \in Runs : ~ Active(r)

\* An effectful tool runs at most once per approved call, through replays of
\* the interrupted node, repeated decisions, errors, crashes and restarts.
AtMostOnceExecution ==
  \A r \in Runs, c \in Calls : executed[r][c] <= 1

\* No tool runs for a call that was not approved: whatever ran is executing,
\* completed, failed or unknown, never pending or rejected.
ExecutedOnlyIfApproved ==
  \A r \in Runs, c \in Calls :
    executed[r][c] > 0 =>
      approval[r][c] \in {"executing", "completed", "failed", "unknown"}

\* The run row and the approval row change together: a run is executing an
\* approval exactly while one of its approvals is executing.
ApprovalRunCoherence ==
  \A r \in Runs : status[r] = "executing_approval" <=> Stranded(r)

\* cancel_requested_at is never lost, even where the unconditional write of
\* require_approval overwrites the status: a cancelled run never succeeds.
NoSuccessAfterCancel ==
  \A r \in cancelReq : status[r] # "success"

\* A run shows as running only while its handler works on it, unless the
\* handler was lost to a crash or left without its terminal write.
RunningHasHandler ==
  \A r \in Runs : status[r] = "running" => Live(r) \/ r \in lost

\* The answer of every successful run is in the conversation the next run
\* restores, unless a non-chat workflow of the same thread (which saves the
\* conversation it restored when it started) has ever written over it.
SuccessRecorded ==
  thread = "active" /\ workflows = 0 =>
    \A r \in Runs : status[r] = "success" => r \in turns

\* A settled run never changes its status again.
TerminalFinal ==
  [][\A r \in Runs : status[r] \in TerminalStatus => status'[r] = status[r]]_vars

-----------------------------------------------------------------------------
\* Liveness.

\* Every running run leaves that status: it settles, waits for a decision or
\* is cancelled, unless its handler was lost.
RunSettles ==
  \A r \in Runs : status[r] = "running" ~> status[r] # "running" \/ r \in lost

\* An archived conversation gives up its checkpoint, through crashes between
\* the commit and the deletion, unless a startup skipped its reconciliation.
ArchivedForgotten ==
  thread = "archived" ~> ~ checkpointed \/ ~ recovered

-----------------------------------------------------------------------------
\* What the tests and reports of the repository claim and the code does not do.

\* "remains single active cancellable run": a cancellation is carried out.
CancellationSettles ==
  \A r \in Runs :
    status[r] = "cancellation_requested" ~> status[r] \in TerminalStatus \/ r \in lost

\* "Execute an already-durable, explicitly approved write operation": a run
\* whose call was approved gets past the execution, well or badly, if its
\* client stays.
ApprovedCallSettles ==
  \A r \in Runs :
    status[r] = "executing_approval" ~>
      status[r] # "executing_approval" \/ r \in lost \cup gone

-----------------------------------------------------------------------------
\* The inductive invariant: what the safety properties rest on.

\* Steps at which the handler is at a tool call.
AtToolCall == {"approving", "replaying", "reapproving", "resolving", "invoking"}

CallKnown ==
  \A r \in Runs : pc[r] \in AtToolCall => call[r] \in Calls

\* Only the states a cancellation can leave a run in.
CancelledStatus ==
  \A r \in cancelReq :
    status[r] \in {"awaiting_approval", "cancellation_requested", "cancelled"}

\* The status a handler read goes stale only by a cancellation, except in a
\* resumed session, which never sees the run as running.
ViewOfStatus ==
  \A r \in Runs :
    /\ pc[r] \in {"approving", "reapproving"} /\ view[r] = "running" =>
         status[r] \in {"running", "cancellation_requested"}
    /\ pc[r] = "approving" /\ kind[r] # "resume" /\ status[r] = "running" =>
         view[r] = "running"
    /\ kind[r] = "resume" /\ ~ ExpireOnCommit => view[r] = "awaiting_approval"

OneExecutingCall ==
  \A r \in Runs, c, d \in Calls :
    approval[r][c] = "executing" /\ approval[r][d] = "executing" => c = d

InvokingApproved ==
  \A r \in Runs : pc[r] = "invoking" => approval[r][call[r]] = "executing"

\* A resumed handler that has not invoked its call finds it never executed.
NotYetExecuted ==
  \A r \in Runs :
    pc[r] \in {"replaying", "reapproving", "resolving"} => executed[r][call[r]] = 0

RowInv      == OneActiveRun /\ LiveHandlerOwnsThread /\ ArchivedQuiescent
ApprovalInv == /\ CallKnown /\ ViewOfStatus /\ OneExecutingCall
               /\ InvokingApproved /\ ApprovalRunCoherence
ToolInv     == AtMostOnceExecution /\ ExecutedOnlyIfApproved /\ NotYetExecuted
IInv        == /\ TypeOK /\ RowInv /\ ApprovalInv /\ CancelledStatus /\ ToolInv
               /\ RunningHasHandler

-----------------------------------------------------------------------------
\* Refinement: the rows of the thread implement the lease of the thread.

InStatus(S) == {r \in Runs : status[r] \in S}

Lease == INSTANCE ThreadLease WITH
  open      <- thread = "active",
  holder    <- InStatus(ActiveStatus),
  withdrawn <- cancelReq,
  answered  <- InStatus({"success"}),
  givenUp   <- InStatus({"failed", "cancelled"})

\* Every interleaving of handlers, clients, crashes and restarts looks, from
\* the database rows, like one run at a time leasing the thread.
LeaseSpec == Lease!Spec
=============================================================================
