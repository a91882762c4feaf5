-------------------------- MODULE TutorRunsProofs --------------------------
(***************************************************************************)
(* Proofs about TutorRuns, for any sets of runs and calls, any bounds and  *)
(* either setting of ExpireOnCommit.                                       *)
(***************************************************************************)
EXTENDS TutorRuns, TLAPS

USE DEF ActiveStatus, TerminalStatus, Active, Live, rows, saved, handler, process

-----------------------------------------------------------------------------
\* Type correctness.

\* A row's status is always one of the values of the schema after a step of
\* the code that decides it.
LEMMA FinalStatusType ==
  ASSUME TypeOK, NEW r \in Runs
  PROVE  FinalStatus(r) \in RunStatus
BY DEF TypeOK, FinalStatus, RunStatus

\* The session of a handler reads a status, fresh or held.
LEMMA ReadStatusType ==
  ASSUME TypeOK, NEW r \in Runs
  PROVE  ReadStatus(r) \in RunStatus
BY DEF TypeOK, ReadStatus

\* The commit of require_approval keeps both tables well typed.
LEMMA ParkType ==
  ASSUME TypeOK, NEW r \in Runs, Park(r), pc[r] \in AtToolCall, CallKnown,
         pc' \in [Runs -> LiveStep \cup {"idle"}]
  PROVE  TypeOK'
<1>1. call[r] \in Calls
  BY DEF CallKnown
<1>2. approval' \in [Runs -> [Calls -> ApprovalStatus]]
  <2>1. ParkedApproval(r) \in ApprovalStatus
    BY <1>1 DEF TypeOK, ApprovalStatus, ParkedApproval
  <2> QED BY <2>1, <1>1 DEF TypeOK, Park
<1>3. status' \in [Runs -> RunStatus]
  BY DEF TypeOK, Park, ParkedStatus, RunStatus
<1> QED BY <1>2, <1>3 DEF TypeOK, Park

\* Init is well typed.
LEMMA TypeInit == Init => TypeOK
<1> SUFFICES ASSUME Init PROVE TypeOK OBVIOUS
<1>1. approval \in [Runs -> [Calls -> ApprovalStatus]]
  BY DEF Init, ApprovalStatus
<1>2. executed \in [Runs -> [Calls -> Nat]]
  BY DEF Init
<1>3. /\ status \in [Runs -> RunStatus]
      /\ view \in [Runs -> RunStatus]
      /\ pc \in [Runs -> LiveStep \cup {"idle"}]
      /\ kind \in [Runs -> {"stream", "sync", "resume"}]
      /\ call \in [Runs -> Calls \cup {NoCall}]
      /\ base \in [Runs -> SUBSET Runs]
  BY DEF Init, RunStatus
<1>4. /\ checkpointed \in BOOLEAN /\ deletion \in BOOLEAN
      /\ up \in BOOLEAN /\ recovered \in BOOLEAN
  BY DEF Init
<1>5. /\ cancelReq \in SUBSET Runs /\ turns \in SUBSET Runs
      /\ gone \in SUBSET Runs /\ lost \in SUBSET Runs
      /\ inflight \in SUBSET SUBSET Runs
      /\ thread \in {"active", "archived"}
      /\ workflows \in Nat /\ crashes \in Nat
  BY DEF Init
<1> QED BY <1>1, <1>2, <1>3, <1>4, <1>5 DEF TypeOK

\* Every step of a handler preserves the types.
LEMMA TypeHandler ==
  ASSUME TypeOK, NEW r \in Runs, CallKnown, HandlerStep(r) \/ GraphStep(r)
  PROVE  TypeOK'
<1> USE DEF TypeOK, LiveStep, RunStatus, ApprovalStatus, Goto
<1>1. CASE InvokeGraph(r) BY <1>1 DEF InvokeGraph
<1>2. CASE GraphFails(r) BY <1>2 DEF GraphFails
<1>3. CASE BeforeCommit(r) BY <1>3 DEF BeforeCommit
<1>4. CASE FinalizeHistory(r) BY <1>4 DEF FinalizeHistory, CompletedTurns
<1>5. CASE CompleteRun(r) BY <1>5 DEF CompleteRun, CompletedStatus
<1>6. CASE FinishFailure(r) BY <1>6, FinalStatusType DEF FinishFailure
<1>7. CASE LeaveUnsettled(r) BY <1>7 DEF LeaveUnsettled
<1>8. ASSUME NEW c \in Calls, ReachToolCall(r, c) PROVE TypeOK'
  BY <1>8, ReadStatusType DEF ReachToolCall
<1>9. CASE ReplayToolCall(r) BY <1>9, ReadStatusType DEF ReplayToolCall
<1>10. CASE CommitApproval(r)
  <2>1. Park(r) /\ pc[r] \in AtToolCall
    BY <1>10 DEF CommitApproval, AtToolCall
  <2>2. pc' = [pc EXCEPT ![r] = "idle"] \/ pc' = [pc EXCEPT ![r] = "failing"]
    BY <1>10 DEF CommitApproval
  <2>3. pc' \in [Runs -> LiveStep \cup {"idle"}]
    BY <2>2
  <2> HIDE DEF TypeOK, LiveStep
  <2> QED BY <2>1, <2>3, ParkType
<1>11. CASE RecommitApproval(r)
  <2>1. Park(r) /\ pc[r] \in AtToolCall /\ pc' \in [Runs -> LiveStep \cup {"idle"}]
    BY <1>11 DEF RecommitApproval, AtToolCall
  <2> HIDE DEF TypeOK, LiveStep
  <2> QED BY <2>1, ParkType
<1>12. CASE ReplayDiverges(r) BY <1>12 DEF ReplayDiverges
<1>13. CASE ResolveRejected(r) BY <1>13 DEF ResolveRejected
<1>14. CASE ResolveConflict(r) BY <1>14 DEF ResolveConflict
<1>15. CASE InvokeTool(r)
  <2>1. call[r] \in Calls
    BY <1>15 DEF InvokeTool, MayExecute, CallKnown, AtToolCall
  <2>2. executed' \in [Runs -> [Calls -> Nat]]
    BY <1>15, <2>1 DEF InvokeTool
  <2> QED BY <1>15, <2>2 DEF InvokeTool
<1>16. CASE ToolReturns(r) BY <1>16 DEF ToolReturns, Settle
<1>17. CASE ToolErrors(r) BY <1>17 DEF ToolErrors, Settle
<1>18. CASE GraphStep(r) BY <1>18 DEF GraphStep
<1> QED
  BY <1>1, <1>2, <1>3, <1>4, <1>5, <1>6, <1>7, <1>8, <1>9, <1>10, <1>11, <1>12,
     <1>13, <1>14, <1>15, <1>16, <1>17, <1>18 DEF HandlerStep, ApprovalStep

\* Every step of a client or of the system preserves the types.
LEMMA TypeOthers ==
  ASSUME TypeOK, (\E r \in Runs : ClientStep(r)) \/ SystemStep
  PROVE  TypeOK'
<1> USE DEF TypeOK, LiveStep, RunStatus, ApprovalStatus, Goto
<1>1. ASSUME NEW r \in Runs, NEW k \in {"stream", "sync"}, StartRun(r, k) PROVE TypeOK'
  BY <1>1 DEF StartRun
<1>2. ASSUME NEW r \in Runs, RequestCancel(r) PROVE TypeOK'
  BY <1>2 DEF RequestCancel
<1>3. ASSUME NEW r \in Runs, Disconnect(r) PROVE TypeOK'
  BY <1>3 DEF Disconnect
<1>4. ASSUME NEW r \in Runs, NEW c \in Calls, NEW approve \in BOOLEAN,
             BeginDecision(r, c, approve)
      PROVE  TypeOK'
  BY <1>4 DEF BeginDecision, MayDecide
<1>5. CASE Archive BY <1>5 DEF Archive
<1>6. CASE DeleteCheckpoint BY <1>6 DEF DeleteCheckpoint
<1>7. CASE StartWorkflow BY <1>7 DEF StartWorkflow
<1>8. CASE WorkflowStep BY <1>8 DEF WorkflowStep
<1>9. CASE WorkflowEnds BY <1>9 DEF WorkflowEnds
<1>10. CASE Crash
  <2>1. pc' \in [Runs -> LiveStep \cup {"idle"}] /\ lost' \in SUBSET Runs
    BY <1>10 DEF Crash
  <2>2. up' \in BOOLEAN /\ deletion' \in BOOLEAN
    BY <1>10 DEF Crash
  <2>3. crashes' \in Nat /\ inflight' \in SUBSET SUBSET Runs
    BY <1>10 DEF Crash
  <2> QED BY <1>10, <2>1, <2>2, <2>3 DEF Crash
<1>11. CASE Startup BY <1>11 DEF Startup, RecoveredApproval, ReconciledDeletion
<1>12. CASE StartupWithoutRecovery BY <1>12 DEF StartupWithoutRecovery
<1> QED
  BY <1>1, <1>2, <1>3, <1>4, <1>5, <1>6, <1>7, <1>8, <1>9, <1>10, <1>11, <1>12
     DEF ClientStep, SystemStep

-----------------------------------------------------------------------------
\* The inductive invariant, read one run at a time.

RunInv(r) ==
  /\ pc[r] \in AtToolCall => call[r] \in Calls
  /\ r \in cancelReq =>
       status[r] \in {"awaiting_approval", "cancellation_requested", "cancelled"}
  /\ pc[r] \in {"approving", "reapproving"} /\ view[r] = "running" =>
       status[r] \in {"running", "cancellation_requested"}
  /\ pc[r] = "approving" /\ kind[r] # "resume" /\ status[r] = "running" =>
       view[r] = "running"
  /\ kind[r] = "resume" /\ ~ ExpireOnCommit => view[r] = "awaiting_approval"
  /\ \A c, d \in Calls :
       approval[r][c] = "executing" /\ approval[r][d] = "executing" => c = d
  /\ pc[r] = "invoking" => approval[r][call[r]] = "executing"
  /\ status[r] = "executing_approval" <=> \E c \in Calls : approval[r][c] = "executing"
  /\ status[r] = "running" => Live(r) \/ r \in lost

ToolRunInv(r) ==
  /\ \A c \in Calls : executed[r][c] <= 1
  /\ \A c \in Calls :
       executed[r][c] > 0 =>
         approval[r][c] \in {"executing", "completed", "failed", "unknown"}
  /\ pc[r] \in {"replaying", "reapproving", "resolving"} => executed[r][call[r]] = 0

EveryRun == \A r \in Runs : RunInv(r) /\ ToolRunInv(r)

\* The invariant is a conjunction over the runs, plus what relates two runs.
LEMMA PerRun == IInv <=> TypeOK /\ RowInv /\ EveryRun
<1>1. ASSUME IInv, NEW r \in Runs PROVE RunInv(r)
  BY <1>1 DEF IInv, RunInv, ApprovalInv, CancelledStatus, CallKnown, ViewOfStatus,
     OneExecutingCall, InvokingApproved, ApprovalRunCoherence, Stranded, RunningHasHandler
<1>2. ASSUME IInv, NEW r \in Runs PROVE ToolRunInv(r)
  BY <1>2 DEF IInv, ToolRunInv, ToolInv, AtMostOnceExecution, ExecutedOnlyIfApproved,
     NotYetExecuted
<1>3. ASSUME TypeOK, \A r \in Runs : RunInv(r)
      PROVE  ApprovalInv /\ CancelledStatus /\ RunningHasHandler
  <2>1. CallKnown BY <1>3 DEF RunInv, CallKnown
  <2>2. ViewOfStatus BY <1>3 DEF RunInv, ViewOfStatus
  <2>3. OneExecutingCall BY <1>3 DEF RunInv, OneExecutingCall
  <2>4. InvokingApproved BY <1>3 DEF RunInv, InvokingApproved
  <2>5. ApprovalRunCoherence BY <1>3 DEF RunInv, ApprovalRunCoherence, Stranded
  <2>6. RunningHasHandler BY <1>3 DEF RunInv, RunningHasHandler
  <2>7. CancelledStatus BY <1>3 DEF TypeOK, RunInv, CancelledStatus
  <2> QED BY <2>1, <2>2, <2>3, <2>4, <2>5, <2>6, <2>7 DEF ApprovalInv
<1>4. ASSUME \A r \in Runs : ToolRunInv(r) PROVE ToolInv
  BY <1>4 DEF ToolRunInv, ToolInv, AtMostOnceExecution, ExecutedOnlyIfApproved,
     NotYetExecuted
<1> QED BY <1>1, <1>2, <1>3, <1>4 DEF IInv, EveryRun

\* The same, of the state after a step.
LEMMA PerRunNext ==
  ASSUME TypeOK', RowInv', \A r \in Runs : RunInv(r)' /\ ToolRunInv(r)'
  PROVE  IInv'
<1>1. EveryRun'
  BY DEF EveryRun
<1> QED BY <1>1, PerRun, PTL

\* What a step of run r leaves alone: everything of the other runs.
Frame(r) ==
  \A s \in Runs \ {r} :
    /\ status'[s] = status[s] /\ approval'[s] = approval[s]
    /\ executed'[s] = executed[s] /\ pc'[s] = pc[s] /\ kind'[s] = kind[s]
    /\ call'[s] = call[s] /\ view'[s] = view[s]
    /\ s \in cancelReq' <=> s \in cancelReq
    /\ s \in lost => s \in lost'

\* A framed step preserves the invariant of the other runs.
LEMMA FrameInv ==
  ASSUME NEW r \in Runs, Frame(r), NEW s \in Runs, s # r, RunInv(s), ToolRunInv(s)
  PROVE  RunInv(s)' /\ ToolRunInv(s)'
<1>1. /\ status'[s] = status[s] /\ approval'[s] = approval[s]
      /\ executed'[s] = executed[s] /\ pc'[s] = pc[s] /\ kind'[s] = kind[s]
      /\ call'[s] = call[s] /\ view'[s] = view[s]
      /\ s \in cancelReq' <=> s \in cancelReq
      /\ s \in lost => s \in lost'
  BY DEF Frame
<1>2. RunInv(s)' BY <1>1 DEF RunInv
<1>3. ToolRunInv(s)' BY <1>1 DEF ToolRunInv
<1> QED BY <1>2, <1>3

\* The rows of two runs and of the thread after a step of r that keeps the
\* thread open: nothing to check but r itself.
LEMMA FrameRow ==
  ASSUME RowInv, NEW r \in Runs, Frame(r), thread' = thread, up' = up,
         Active(r), thread = "active", up, Live(r)' => Active(r)'
  PROVE  RowInv'
BY DEF RowInv, OneActiveRun, LiveHandlerOwnsThread, ArchivedQuiescent, Frame

-----------------------------------------------------------------------------
\* The steps of the handler of r.

StepOf(r) ==
  /\ Frame(r)
  /\ thread' = thread /\ up' = up
  /\ Live(r)' => Active(r)'
  /\ RunInv(r)' /\ ToolRunInv(r)'

\* Every step of a handler touches its own run only, keeps its invariant, and
\* lets go of the run's active status only by ending.
LEMMA HandlerInv ==
  ASSUME TypeOK, NEW r \in Runs, RunInv(r), ToolRunInv(r), Live(r) => Active(r),
         HandlerStep(r) \/ GraphStep(r)
  PROVE  StepOf(r)
<1> USE DEF TypeOK, LiveStep, RunStatus, ApprovalStatus, Goto, StepOf, Frame, RunInv,
            ToolRunInv, AtToolCall
<1>1. CASE InvokeGraph(r)
  BY <1>1 DEF InvokeGraph
<1>2. CASE GraphStep(r)
  BY <1>2 DEF GraphStep
<1>3. CASE GraphFails(r)
  BY <1>3 DEF GraphFails
<1>4. CASE BeforeCommit(r)
  BY <1>4 DEF BeforeCommit
<1>5. CASE FinalizeHistory(r)
  BY <1>5 DEF FinalizeHistory
<1>6. CASE CompleteRun(r)
  BY <1>6 DEF CompleteRun, CompletedStatus
<1>7. CASE FinishFailure(r)
  BY <1>7 DEF FinishFailure, FinalStatus, Cancellable
<1>8. CASE LeaveUnsettled(r)
  BY <1>8 DEF LeaveUnsettled
<1>9. CASE ReplayToolCall(r)
  BY <1>9 DEF ReplayToolCall, ReadStatus
<1>10. CASE CommitApproval(r)
  BY <1>10 DEF CommitApproval, Park, ParkedStatus, ParkedApproval
<1>11. CASE RecommitApproval(r)
  BY <1>11 DEF RecommitApproval, Park, ParkedStatus, ParkedApproval
<1>12. CASE ReplayDiverges(r)
  BY <1>12 DEF ReplayDiverges
<1>13. CASE ResolveRejected(r)
  BY <1>13 DEF ResolveRejected
<1>14. CASE ResolveConflict(r)
  BY <1>14 DEF ResolveConflict
<1>15. CASE InvokeTool(r)
  BY <1>15 DEF InvokeTool, MayExecute
<1>16. CASE ToolReturns(r)
  BY <1>16 DEF ToolReturns, Settle
<1>17. CASE ToolErrors(r)
  BY <1>17 DEF ToolErrors, Settle, MayExecute
<1>18. ASSUME NEW c \in Calls, ReachToolCall(r, c) PROVE StepOf(r)
  BY <1>18 DEF ReachToolCall, ReadStatus
<1> QED
  BY <1>1, <1>2, <1>3, <1>4, <1>5, <1>6, <1>7, <1>8, <1>9, <1>10, <1>11,
     <1>12, <1>13, <1>14, <1>15, <1>16, <1>17, <1>18
     DEF HandlerStep, ApprovalStep

\* The whole invariant, after a step of the handler of r.
LEMMA HandlerIInv ==
  ASSUME IInv, NEW r \in Runs, HandlerStep(r) \/ GraphStep(r)
  PROVE  IInv'
<1>1. /\ TypeOK /\ RowInv /\ CallKnown
      /\ \A s \in Runs : RunInv(s) /\ ToolRunInv(s)
  BY PerRun DEF IInv, ApprovalInv, EveryRun
<1>2. Live(r) => Active(r) /\ thread = "active" /\ up
  BY <1>1 DEF RowInv, LiveHandlerOwnsThread
<1>3. Live(r)
  BY DEF HandlerStep, ApprovalStep, InvokeGraph, GraphStep, GraphFails, BeforeCommit,
     FinalizeHistory, CompleteRun, FinishFailure, LeaveUnsettled, ReachToolCall,
     ReplayToolCall, CommitApproval, RecommitApproval, ReplayDiverges, ResolveRejected,
     ResolveConflict, InvokeTool, MayExecute, ToolReturns, ToolErrors
<1>4. StepOf(r)
  BY <1>1, <1>2, HandlerInv
<1>5. TypeOK'
  BY <1>1, TypeHandler
<1>6. RowInv'
  BY <1>1, <1>2, <1>3, <1>4, FrameRow DEF StepOf
<1>7. \A s \in Runs : RunInv(s)' /\ ToolRunInv(s)'
  BY <1>1, <1>4, FrameInv DEF StepOf
<1> QED BY <1>5, <1>6, <1>7, PerRunNext

\* What a client does to run r touches run r only and keeps its invariant.
LEMMA ClientInv ==
  ASSUME TypeOK, NEW r \in Runs, RunInv(r), ToolRunInv(r), Live(r) => Active(r),
         ClientStep(r)
  PROVE  StepOf(r)
<1> USE DEF TypeOK, LiveStep, RunStatus, ApprovalStatus, Goto, StepOf, Frame, RunInv,
            ToolRunInv, AtToolCall
<1>1. ASSUME NEW k \in {"stream", "sync"}, StartRun(r, k) PROVE StepOf(r)
  BY <1>1 DEF StartRun
<1>2. CASE RequestCancel(r)
  BY <1>2 DEF RequestCancel
<1>3. CASE Disconnect(r)
  BY <1>3 DEF Disconnect
<1>4. ASSUME NEW c \in Calls, NEW approve \in BOOLEAN, BeginDecision(r, c, approve)
      PROVE  StepOf(r)
  <2>1. /\ status[r] = "awaiting_approval" /\ approval[r][c] = "pending"
        /\ r \notin cancelReq
    BY <1>4 DEF BeginDecision, MayDecide
  <2>2. \A d \in Calls : approval[r][d] # "executing"
    BY <2>1
  <2>3. Frame(r) /\ thread' = thread /\ up' = up /\ (Live(r)' => Active(r)')
    BY <1>4 DEF BeginDecision
  <2>4. /\ \A d \in Calls : approval'[r][d] =
             IF d = c THEN IF approve THEN "executing" ELSE "rejected"
                      ELSE approval[r][d]
        /\ status'[r] = IF approve THEN "executing_approval" ELSE "running"
        /\ pc'[r] = "replaying" /\ call'[r] = c /\ kind'[r] = "resume"
        /\ view'[r] = "awaiting_approval" /\ cancelReq' = cancelReq
        /\ executed'[r] = executed[r]
    BY <1>4 DEF BeginDecision
  <2> HIDE DEF TypeOK, StepOf, Frame
  <2>5. RunInv(r)'
    BY <2>1, <2>2, <2>4
  <2>6. ToolRunInv(r)'
    <3>1. executed[r][c] = 0
      BY <2>1 DEF TypeOK
    <3> QED BY <2>1, <2>4, <3>1
  <2> QED BY <2>3, <2>5, <2>6 DEF StepOf
<1> QED BY <1>1, <1>2, <1>3, <1>4 DEF ClientStep

\* A client's step acts on the active run or finds the thread free.
LEMMA ClientIInv ==
  ASSUME IInv, NEW r \in Runs, ClientStep(r)
  PROVE  IInv'
<1>1. /\ TypeOK /\ RowInv
      /\ \A s \in Runs : RunInv(s) /\ ToolRunInv(s)
  BY PerRun DEF IInv, EveryRun
<1>2. Live(r) => Active(r) /\ thread = "active" /\ up
  BY <1>1 DEF RowInv, LiveHandlerOwnsThread
<1>3. StepOf(r)
  BY <1>1, <1>2, ClientInv
<1>4. TypeOK'
  BY <1>1, TypeOthers
<1>5. RowInv'
  <2>1. ASSUME NEW k \in {"stream", "sync"}, StartRun(r, k) PROVE RowInv'
    BY <1>1, <1>3, <2>1 DEF StartRun, ThreadFree, StepOf, Frame, RowInv, OneActiveRun,
       LiveHandlerOwnsThread, ArchivedQuiescent
  <2>2. CASE RequestCancel(r)
    BY <1>1, <1>3, <2>2 DEF RequestCancel, StepOf, Frame, RowInv, OneActiveRun,
       LiveHandlerOwnsThread, ArchivedQuiescent
  <2>3. CASE Disconnect(r)
    BY <1>1, <1>2, <1>3, <2>3, FrameRow DEF Disconnect, StepOf
  <2>4. ASSUME NEW c \in Calls, NEW approve \in BOOLEAN, BeginDecision(r, c, approve)
        PROVE  RowInv'
    BY <1>1, <1>3, <2>4, FrameRow DEF BeginDecision, MayDecide, StepOf
  <2> QED BY <2>1, <2>2, <2>3, <2>4 DEF ClientStep
<1>6. \A s \in Runs : RunInv(s)' /\ ToolRunInv(s)'
  BY <1>1, <1>3, FrameInv DEF StepOf
<1> QED BY <1>4, <1>5, <1>6, PerRunNext

-----------------------------------------------------------------------------
\* The steps of the system.

\* Archiving, checkpoints and workflows do not touch the runs; a crash ends
\* every handler, and the recovery of a startup settles the stranded run.
LEMMA SystemIInv ==
  ASSUME IInv, SystemStep
  PROVE  IInv'
<1>1. /\ TypeOK /\ RowInv
      /\ \A s \in Runs : RunInv(s) /\ ToolRunInv(s)
  BY PerRun DEF IInv, EveryRun
<1>2. TypeOK'
  BY <1>1, TypeOthers
<1>3. ASSUME UNCHANGED <<status, cancelReq, approval, executed, handler, lost>>
      PROVE  \A s \in Runs : RunInv(s)' /\ ToolRunInv(s)'
  BY <1>1, <1>3 DEF RunInv, ToolRunInv
<1>4. CASE Archive
  <2>1. RowInv'
    BY <1>1, <1>4 DEF Archive, ArchiveAllowed, ThreadFree, RowInv, OneActiveRun,
       LiveHandlerOwnsThread, ArchivedQuiescent
  <2> QED BY <1>2, <1>3, <1>4, <2>1, PerRunNext DEF Archive
<1>5. CASE DeleteCheckpoint \/ StartWorkflow \/ WorkflowStep \/ WorkflowEnds
  <2>1. UNCHANGED <<rows, executed, handler, lost, up>>
    BY <1>5 DEF DeleteCheckpoint, StartWorkflow, WorkflowStep, WorkflowEnds
  <2>2. RowInv'
    BY <1>1, <2>1 DEF RowInv, OneActiveRun, LiveHandlerOwnsThread, ArchivedQuiescent
  <2> QED BY <1>2, <1>3, <2>1, <2>2, PerRunNext
<1>6. CASE Crash
  <2>1. RowInv'
    BY <1>1, <1>6 DEF Crash, RowInv, OneActiveRun, LiveHandlerOwnsThread,
       ArchivedQuiescent
  <2>2. ASSUME NEW s \in Runs PROVE RunInv(s)' /\ ToolRunInv(s)'
    BY <1>1, <1>6 DEF Crash, RunInv, ToolRunInv, AtToolCall
  <2> QED BY <1>2, <2>1, <2>2, PerRunNext
<1>7. ~ up => \A s \in Runs : ~ Live(s)
  BY <1>1 DEF RowInv, LiveHandlerOwnsThread
<1>8. CASE Startup
  <2>1. \A s \in Runs : /\ Active(s)' => Active(s)
                        /\ ~ Live(s)'
    BY <1>1, <1>7, <1>8 DEF Startup, TypeOK
  <2>2. RowInv'
    BY <1>1, <1>8, <2>1 DEF Startup, RowInv, OneActiveRun, LiveHandlerOwnsThread,
       ArchivedQuiescent
  <2>3. ASSUME NEW s \in Runs PROVE RunInv(s)' /\ ToolRunInv(s)'
    <3>1. \A c \in Calls : approval'[s][c] = RecoveredApproval(s, c)
      BY <1>8 DEF Startup
    <3>2. status'[s] = IF status[s] = "executing_approval" THEN "failed" ELSE status[s]
      BY <1>1, <1>8 DEF Startup, Stranded, RunInv
    <3>3. pc'[s] = "idle" /\ executed'[s] = executed[s] /\ view'[s] = view[s]
          /\ kind'[s] = kind[s] /\ cancelReq' = cancelReq /\ lost' = lost
      BY <1>7, <1>8 DEF Startup
    <3>4. RunInv(s)'
      BY <1>1, <3>1, <3>2, <3>3, <1>7, <1>8 DEF RunInv, RecoveredApproval, AtToolCall, Startup
    <3>5. ToolRunInv(s)'
      BY <1>1, <3>1, <3>3 DEF ToolRunInv, RecoveredApproval
    <3> QED BY <3>4, <3>5
  <2> QED BY <1>2, <2>2, <2>3, PerRunNext
<1>9. CASE StartupWithoutRecovery
  <2>1. RowInv'
    BY <1>1, <1>7, <1>9 DEF StartupWithoutRecovery, RowInv, OneActiveRun,
       LiveHandlerOwnsThread, ArchivedQuiescent
  <2> QED BY <1>2, <1>3, <1>9, <2>1, PerRunNext DEF StartupWithoutRecovery
<1> QED BY <1>4, <1>5, <1>6, <1>8, <1>9 DEF SystemStep

-----------------------------------------------------------------------------
\* Invariance.

LEMMA InvInit == Init => IInv
<1> SUFFICES ASSUME Init PROVE IInv OBVIOUS
<1>1. TypeOK BY TypeInit
<1>2. RowInv
  BY DEF Init, RowInv, OneActiveRun, LiveHandlerOwnsThread, ArchivedQuiescent
<1>3. ASSUME NEW r \in Runs PROVE RunInv(r) /\ ToolRunInv(r)
  BY DEF Init, RunInv, ToolRunInv, AtToolCall
<1> QED BY <1>1, <1>2, <1>3, PerRun DEF EveryRun

LEMMA InvStep == IInv /\ [Next]_vars => IInv'
<1> SUFFICES ASSUME IInv, [Next]_vars PROVE IInv' OBVIOUS
<1>1. CASE UNCHANGED vars
  BY <1>1 DEF vars, IInv, TypeOK, RowInv, OneActiveRun, LiveHandlerOwnsThread,
     ArchivedQuiescent, ApprovalInv, CallKnown, ViewOfStatus, OneExecutingCall,
     InvokingApproved, ApprovalRunCoherence, Stranded, CancelledStatus, ToolInv,
     AtMostOnceExecution, ExecutedOnlyIfApproved, NotYetExecuted, RunningHasHandler
<1>2. CASE Next
  BY <1>2, HandlerIInv, ClientIInv, SystemIInv DEF Next
<1> QED BY <1>1, <1>2

\* The inductive invariant holds in every reachable state of every instance:
\* rows, handlers, approvals and executions of the code stay consistent.
THEOREM Invariance == Spec => []IInv
<1>1. Init => IInv BY InvInit
<1>2. IInv /\ [Next]_vars => IInv' BY InvStep
<1> QED BY <1>1, <1>2, PTL DEF Spec

\* Every row, checkpoint and handler variable keeps its type.
THEOREM TypeCorrectness == Spec => []TypeOK
<1>1. IInv => TypeOK BY DEF IInv
<1> QED BY <1>1, Invariance, PTL

\* start(), archive() and every transition keep at most one active run.
THEOREM SingleRun == Spec => []OneActiveRun
<1>1. IInv => OneActiveRun BY DEF IInv, RowInv
<1> QED BY <1>1, Invariance, PTL

\* No handler works on a run that another run or an archive has displaced.
THEOREM HandlerOwnership == Spec => []LiveHandlerOwnsThread
<1>1. IInv => LiveHandlerOwnsThread BY DEF IInv, RowInv
<1> QED BY <1>1, Invariance, PTL

\* resolve_after_interrupt never runs an effectful tool a second time.
THEOREM ToolOnce == Spec => []AtMostOnceExecution
<1>1. IInv => AtMostOnceExecution BY DEF IInv, ToolInv
<1> QED BY <1>1, Invariance, PTL

\* No effectful tool runs without the user's approval.
THEOREM ToolApproved == Spec => []ExecutedOnlyIfApproved
<1>1. IInv => ExecutedOnlyIfApproved BY DEF IInv, ToolInv
<1> QED BY <1>1, Invariance, PTL

\* The run row and the approval rows tell the same story.
THEOREM Coherence == Spec => []ApprovalRunCoherence
<1>1. IInv => ApprovalRunCoherence BY DEF IInv, ApprovalInv
<1> QED BY <1>1, Invariance, PTL

\* A run with cancel_requested_at set is never completed as a success.
THEOREM CancelWins == Spec => []NoSuccessAfterCancel
<1>1. IInv => NoSuccessAfterCancel
  BY DEF IInv, CancelledStatus, NoSuccessAfterCancel
<1> QED BY <1>1, Invariance, PTL

\* Only a lost handler leaves a run showing as running.
THEOREM NoOrphan == Spec => []RunningHasHandler
<1>1. IInv => RunningHasHandler BY DEF IInv
<1> QED BY <1>1, Invariance, PTL

-----------------------------------------------------------------------------
\* How a step moves the status of the run it acts on.

Move(r) ==
  /\ Active(r) /\ thread' = thread
  /\ \A s \in Runs \ {r} : status'[s] = status[s]
  /\ \/ status'[r] \in ActiveStatus /\ cancelReq' \in {cancelReq, cancelReq \cup {r}}
     \/ status'[r] = "success" /\ r \notin cancelReq /\ cancelReq' = cancelReq
     \/ status'[r] \in {"failed", "cancelled"}
        /\ cancelReq' \in {cancelReq, cancelReq \cup {r}}

\* A handler moves the status of its own, active run.
LEMMA HandlerMove ==
  ASSUME IInv, NEW r \in Runs, HandlerStep(r) \/ GraphStep(r)
  PROVE  Move(r)
<1>1. /\ TypeOK
      /\ Live(r) => Active(r)
      /\ r \in cancelReq => status[r] # "running"
  BY DEF IInv, RowInv, LiveHandlerOwnsThread, CancelledStatus
<1> USE <1>1 DEF TypeOK, RunStatus, Move
<1>2. CASE InvokeGraph(r)
  BY <1>2 DEF InvokeGraph
<1>3. CASE GraphStep(r)
  BY <1>3 DEF GraphStep
<1>4. CASE GraphFails(r)
  BY <1>4 DEF GraphFails
<1>5. CASE BeforeCommit(r)
  BY <1>5 DEF BeforeCommit
<1>6. CASE FinalizeHistory(r)
  BY <1>6 DEF FinalizeHistory
<1>7. CASE CompleteRun(r)
  BY <1>7 DEF CompleteRun, CompletedStatus
<1>8. CASE FinishFailure(r)
  BY <1>8 DEF FinishFailure, FinalStatus, Cancellable
<1>9. CASE LeaveUnsettled(r)
  BY <1>9 DEF LeaveUnsettled
<1>10. CASE ReplayToolCall(r)
  BY <1>10 DEF ReplayToolCall
<1>11. CASE CommitApproval(r)
  BY <1>11 DEF CommitApproval, Park, ParkedStatus
<1>12. CASE RecommitApproval(r)
  BY <1>12 DEF RecommitApproval, Park, ParkedStatus
<1>13. CASE ReplayDiverges(r)
  BY <1>13 DEF ReplayDiverges
<1>14. CASE ResolveRejected(r)
  BY <1>14 DEF ResolveRejected
<1>15. CASE ResolveConflict(r)
  BY <1>15 DEF ResolveConflict
<1>16. CASE InvokeTool(r)
  BY <1>16 DEF InvokeTool, MayExecute
<1>17. CASE ToolReturns(r)
  BY <1>17 DEF ToolReturns, Settle
<1>18. CASE ToolErrors(r)
  BY <1>18 DEF ToolErrors, Settle, MayExecute
<1>19. ASSUME NEW c \in Calls, ReachToolCall(r, c) PROVE Move(r)
  BY <1>19 DEF ReachToolCall
<1> QED
  BY <1>2, <1>3, <1>4, <1>5, <1>6, <1>7, <1>8, <1>9, <1>10,
     <1>11, <1>12, <1>13, <1>14, <1>15, <1>16, <1>17, <1>18, <1>19
     DEF HandlerStep, ApprovalStep

\* A client moves an active run, or starts one on the free thread.
LEMMA ClientMove ==
  ASSUME IInv, NEW r \in Runs, ClientStep(r)
  PROVE  Move(r) \/ \E k \in {"stream", "sync"} : StartRun(r, k)
<1>1. TypeOK /\ (Live(r) => Active(r))
  BY DEF IInv, RowInv, LiveHandlerOwnsThread
<1>2. CASE RequestCancel(r)
  BY <1>1, <1>2 DEF RequestCancel, TypeOK, Move
<1>3. CASE Disconnect(r)
  BY <1>1, <1>3 DEF Disconnect, TypeOK, Move
<1>4. ASSUME NEW c \in Calls, NEW approve \in BOOLEAN, BeginDecision(r, c, approve)
      PROVE  Move(r)
  BY <1>1, <1>4 DEF BeginDecision, MayDecide, TypeOK, Move
<1> QED BY <1>2, <1>3, <1>4 DEF ClientStep

\* The recovery of a startup fails the stranded run, and only that run.
LEMMA StartupMove ==
  ASSUME IInv, Startup
  PROVE  /\ thread' = thread /\ cancelReq' = cancelReq
         /\ \A r \in Runs :
              status'[r] = IF status[r] = "executing_approval" THEN "failed" ELSE status[r]
BY DEF IInv, ApprovalInv, ApprovalRunCoherence, TypeOK, Startup

\* A settled run never changes its status again.
THEOREM SettledForGood == Spec => TerminalFinal
<1>1. IInv /\ [Next]_vars =>
        [\A r \in Runs : status[r] \in TerminalStatus => status'[r] = status[r]]_vars
  <2> SUFFICES ASSUME IInv, Next, NEW r \in Runs, status[r] \in TerminalStatus
               PROVE  status'[r] = status[r]
    OBVIOUS
  <2>1. ASSUME NEW s \in Runs, Move(s) PROVE status'[r] = status[r]
    BY <2>1 DEF Move
  <2>2. ASSUME NEW s \in Runs, NEW k \in {"stream", "sync"}, StartRun(s, k)
        PROVE  status'[r] = status[r]
    BY <2>2 DEF StartRun, IInv, TypeOK
  <2>3. CASE SystemStep
    BY <2>3, StartupMove DEF SystemStep, Archive, DeleteCheckpoint, StartWorkflow,
       WorkflowStep, WorkflowEnds, Crash, StartupWithoutRecovery
  <2> QED BY <2>1, <2>2, <2>3, HandlerMove, ClientMove DEF Next
<1> QED BY <1>1, Invariance, PTL DEF Spec, TerminalFinal

-----------------------------------------------------------------------------
\* The lease.

\* While r is active it is the holder, and nothing else is.
LEMMA HolderIs ==
  ASSUME IInv, NEW r \in Runs, Active(r)
  PROVE  InStatus(ActiveStatus) = {r}
BY DEF IInv, RowInv, OneActiveRun, InStatus

\* Every move of the active run is a step of the lease, or none.
LEMMA MoveLeases ==
  ASSUME IInv, NEW r \in Runs, Move(r)
  PROVE  [Lease!Next]_(Lease!vars)
<1>1. InStatus(ActiveStatus) = {r} /\ thread' = thread
  BY HolderIs DEF Move
<1>2. CASE /\ status'[r] \in ActiveStatus
           /\ cancelReq' \in {cancelReq, cancelReq \cup {r}}
  <2>1. \A s \in Runs : /\ status'[s] \in ActiveStatus <=> status[s] \in ActiveStatus
                        /\ status'[s] = "success" <=> status[s] = "success"
                        /\ status'[s] \in {"failed", "cancelled"}
                             <=> status[s] \in {"failed", "cancelled"}
    BY <1>2 DEF Move
  <2>2. /\ InStatus(ActiveStatus)' = InStatus(ActiveStatus)
        /\ InStatus({"success"})' = InStatus({"success"})
        /\ InStatus({"failed", "cancelled"})' = InStatus({"failed", "cancelled"})
    BY <2>1 DEF InStatus
  <2>3. cancelReq' = cancelReq => UNCHANGED Lease!vars
    BY <1>1, <2>2 DEF Lease!vars
  <2>4. cancelReq' = cancelReq \cup {r} => Lease!Withdraw(r)
    BY <1>1, <2>2 DEF Lease!Withdraw
  <2> QED BY <1>2, <2>3, <2>4 DEF Lease!Next
<1>3. CASE status'[r] = "success" /\ r \notin cancelReq /\ cancelReq' = cancelReq
  <2>1. \A s \in Runs : /\ status'[s] \notin ActiveStatus
                        /\ status'[s] = "success" <=> status[s] = "success" \/ s = r
                        /\ status'[s] \in {"failed", "cancelled"}
                             <=> status[s] \in {"failed", "cancelled"}
    BY <1>1, <1>3 DEF Move, InStatus
  <2>2. /\ InStatus(ActiveStatus)' = {}
        /\ InStatus({"success"})' = InStatus({"success"}) \cup {r}
        /\ InStatus({"failed", "cancelled"})' = InStatus({"failed", "cancelled"})
    BY <2>1 DEF InStatus
  <2>3. Lease!Answer(r)
    BY <1>1, <1>3, <2>2 DEF Lease!Answer
  <2> QED BY <2>3 DEF Lease!Next
<1>4. CASE /\ status'[r] \in {"failed", "cancelled"}
           /\ cancelReq' \in {cancelReq, cancelReq \cup {r}}
  <2>1. \A s \in Runs : /\ status'[s] \notin ActiveStatus
                        /\ status'[s] = "success" <=> status[s] = "success"
                        /\ status'[s] \in {"failed", "cancelled"}
                             <=> status[s] \in {"failed", "cancelled"} \/ s = r
    BY <1>1, <1>4 DEF Move, InStatus
  <2>2. /\ InStatus(ActiveStatus)' = {}
        /\ InStatus({"success"})' = InStatus({"success"})
        /\ InStatus({"failed", "cancelled"})' = InStatus({"failed", "cancelled"}) \cup {r}
    BY <2>1 DEF InStatus
  <2>3. Lease!GiveUp(r)
    BY <1>1, <1>4, <2>2 DEF Lease!GiveUp
  <2> QED BY <2>3 DEF Lease!Next
<1> QED BY <1>2, <1>3, <1>4 DEF Move

\* start() acquires the lease.
LEMMA StartLeases ==
  ASSUME IInv, NEW r \in Runs, NEW k \in {"stream", "sync"}, StartRun(r, k)
  PROVE  Lease!Next
<1>1. /\ thread = "active" /\ thread' = thread /\ cancelReq' = cancelReq
      /\ \A s \in Runs : status[s] \notin ActiveStatus
      /\ status[r] = "absent"
      /\ \A s \in Runs : status'[s] = IF s = r THEN "running" ELSE status[s]
  BY DEF StartRun, ThreadFree, IInv, TypeOK
<1>2. /\ InStatus(ActiveStatus) = {} /\ InStatus(ActiveStatus)' = {r}
      /\ InStatus({"success"})' = InStatus({"success"})
      /\ InStatus({"failed", "cancelled"})' = InStatus({"failed", "cancelled"})
      /\ r \notin InStatus({"success"}) \cup InStatus({"failed", "cancelled"})
  BY <1>1 DEF InStatus
<1>3. Lease!Acquire(r)
  BY <1>1, <1>2 DEF Lease!Acquire
<1> QED BY <1>3 DEF Lease!Next

\* The first archiving closes the lease; nothing else of the system moves it
\* but the recovery of a startup, which gives up the stranded run.
LEMMA SystemLeases ==
  ASSUME IInv, SystemStep
  PROVE  [Lease!Next]_(Lease!vars)
<1>1. CASE Archive
  <2>1. /\ InStatus(ActiveStatus)' = InStatus(ActiveStatus)
        /\ InStatus({"success"})' = InStatus({"success"})
        /\ InStatus({"failed", "cancelled"})' = InStatus({"failed", "cancelled"})
        /\ cancelReq' = cancelReq /\ thread' = "archived"
    BY <1>1 DEF Archive, InStatus
  <2>2. CASE thread = "archived"
    BY <2>1, <2>2 DEF Lease!vars
  <2>3. CASE thread = "active"
    <3>1. InStatus(ActiveStatus) = {}
      BY <1>1, <2>3 DEF Archive, ArchiveAllowed, ThreadFree, InStatus
    <3>2. Lease!Close
      BY <2>1, <2>3, <3>1 DEF Lease!Close
    <3> QED BY <3>2 DEF Lease!Next
  <2> QED BY <2>2, <2>3 DEF IInv, TypeOK
<1>2. CASE UNCHANGED rows
  BY <1>2 DEF InStatus, Lease!vars
<1>3. CASE Startup
  <2>1. /\ thread' = thread /\ cancelReq' = cancelReq
        /\ \A s \in Runs :
             status'[s] = IF status[s] = "executing_approval" THEN "failed" ELSE status[s]
    BY <1>3, StartupMove
  <2>2. CASE \A s \in Runs : status[s] # "executing_approval"
    <3>1. \A s \in Runs : status'[s] = status[s]
      BY <2>1, <2>2
    <3> QED BY <2>1, <3>1 DEF InStatus, Lease!vars
  <2>3. ASSUME NEW r \in Runs, status[r] = "executing_approval"
        PROVE  [Lease!Next]_(Lease!vars)
    <3>1. \A s \in Runs \ {r} : ~ Active(s)
      BY <2>3 DEF IInv, RowInv, OneActiveRun
    <3>2. Move(r)
      BY <2>1, <2>3, <3>1 DEF Move
    <3> QED BY <3>2, MoveLeases
  <2> QED BY <2>2, <2>3
<1> QED
  BY <1>1, <1>2, <1>3 DEF SystemStep, DeleteCheckpoint, StartWorkflow, WorkflowStep,
     WorkflowEnds, Crash, StartupWithoutRecovery

\* The rows of the thread implement the lease: one run at a time holds the
\* thread, ends for good, and is never answered once withdrawn.
THEOREM Refinement == Spec => LeaseSpec
<1>1. Init => Lease!Init
  BY DEF Init, Lease!Init, InStatus
<1>2. IInv /\ [Next]_vars => [Lease!Next]_(Lease!vars)
  <2> SUFFICES ASSUME IInv, [Next]_vars PROVE [Lease!Next]_(Lease!vars) OBVIOUS
  <2>1. CASE UNCHANGED vars
    BY <2>1 DEF vars, InStatus, Lease!vars
  <2>2. CASE Next
    BY <2>2, HandlerMove, ClientMove, MoveLeases, StartLeases, SystemLeases DEF Next
  <2> QED BY <2>1, <2>2
<1> QED BY <1>1, <1>2, Invariance, PTL DEF Spec, LeaseSpec, Lease!Spec

-----------------------------------------------------------------------------
\* The conversation in the checkpoint.

\* The graph of the run was invoked, so its handler remembers what was restored.
Invoked(r) ==
  /\ Active(r)
  /\ \/ pc[r] \in AtToolCall \cup {"working", "committed", "finalized"}
     \/ \E c \in Calls : approval[r][c] # "none"

\* Nobody else has written to the checkpoint, or will.
Undisturbed == thread = "active" /\ workflows = 0

\* Every answer is in the checkpoint, and in what a graph that was invoked saves at its next
\* step; a run whose turn was written will not lose it before it is completed.
HistoryKept ==
  /\ \A r \in Runs : status[r] = "success" => r \in turns
  /\ \A r, s \in Runs : Invoked(r) /\ status[s] = "success" => s \in base[r]
  /\ \A r \in Runs : pc[r] = "finalized" => r \in turns

HistoryInv ==
  /\ workflows = 0 => inflight = {}
  /\ thread = "active" => ~deletion
  /\ \A r \in Runs, c \in Calls : status[r] = "absent" => approval[r][c] = "none"
  /\ Undisturbed => HistoryKept

\* What a step of run r does to the conversation when it saves nothing: it is completed only
\* from "finalized", and invoked only by what is treated apart.
Quietly(r) ==
  /\ UNCHANGED <<turns, process>>
  /\ \A s \in Runs \ {r} : base'[s] = base[s]
  /\ status'[r] = "success" => status[r] = "success" \/ pc[r] = "finalized"
  /\ status'[r] = "absent" => status[r] = "absent" /\ approval'[r] = approval[r]
  /\ Invoked(r)' => Invoked(r) /\ base'[r] = base[r]
  /\ pc'[r] = "finalized" => pc[r] = "finalized"

\* Such a step keeps the history.
LEMMA QuietHistory ==
  ASSUME IInv, IInv', HistoryInv, NEW r \in Runs, Frame(r), thread' = thread, Quietly(r)
  PROVE  HistoryInv'
<1>1. /\ UNCHANGED <<thread, workflows, inflight, deletion, turns>>
      /\ \A s \in Runs \ {r} : /\ status'[s] = status[s] /\ approval'[s] = approval[s]
                               /\ pc'[s] = pc[s] /\ base'[s] = base[s]
  BY DEF Quietly, Frame
<1>2. \A s \in Runs : Live(s) => Active(s)
  BY DEF IInv, RowInv, LiveHandlerOwnsThread
<1>3. \A s, x \in Runs : Active(s) /\ Active(x) => s = x
  BY DEF IInv, RowInv, OneActiveRun
<1>4. ASSUME NEW s \in Runs, NEW c \in Calls, status'[s] = "absent"
      PROVE  approval'[s][c] = "none"
  BY <1>1, <1>4 DEF Quietly, HistoryInv
<1>5. ASSUME Undisturbed PROVE HistoryKept'
  <2>1. HistoryKept
    BY <1>5 DEF HistoryInv
  <2>2. ASSUME NEW s \in Runs, status'[s] = "success"
        PROVE  s \in turns /\ (status[s] = "success" \/ (s = r /\ Active(r)))
    BY <1>1, <1>2, <2>1, <2>2 DEF Quietly, HistoryKept
  <2>3. ASSUME NEW s \in Runs, Invoked(s)' PROVE Invoked(s) /\ base'[s] = base[s]
    BY <1>1, <2>3 DEF Quietly, Invoked
  <2>4. ASSUME NEW s \in Runs, NEW x \in Runs, Invoked(s)', status'[x] = "success"
        PROVE  x \in base'[s]
    <3>1. Invoked(s) /\ Active(s) /\ Active(s)' /\ base'[s] = base[s]
      BY <2>3, <2>4 DEF Invoked
    <3>2. CASE status[x] = "success"
      BY <2>1, <3>1, <3>2 DEF HistoryKept
    <3>3. CASE x = r /\ Active(r)
      BY <1>3, <2>4, <3>1, <3>3
    <3> QED
      BY <2>2, <2>4, <3>2, <3>3
  <2>5. ASSUME NEW s \in Runs, pc'[s] = "finalized" PROVE s \in turns
    BY <1>1, <2>1, <2>5 DEF Quietly, HistoryKept
  <2> QED
    BY <1>1, <2>2, <2>4, <2>5 DEF HistoryKept
<1> QED
  BY <1>1, <1>4, <1>5 DEF HistoryInv, Undisturbed

\* The steps of a handler that leave the checkpoint alone.
LEMMA HandlerQuiet ==
  ASSUME IInv, NEW r \in Runs, HandlerStep(r), ~InvokeGraph(r), ~FinalizeHistory(r)
  PROVE  Quietly(r)
<1>1. TypeOK /\ CallKnown /\ (Live(r) => Active(r))
  BY DEF IInv, RowInv, LiveHandlerOwnsThread, ApprovalInv
<1> USE <1>1 DEF TypeOK, LiveStep, RunStatus, ApprovalStatus, Goto, Quietly, Invoked, AtToolCall
<1>2. CASE GraphFails(r)
  BY <1>2 DEF GraphFails
<1>3. CASE BeforeCommit(r)
  BY <1>3 DEF BeforeCommit
<1>4. CASE CompleteRun(r)
  BY <1>4 DEF CompleteRun, CompletedStatus
<1>5. CASE FinishFailure(r)
  BY <1>5 DEF FinishFailure, FinalStatus, Cancellable
<1>6. CASE LeaveUnsettled(r)
  BY <1>6 DEF LeaveUnsettled
<1>7. ASSUME NEW c \in Calls, ReachToolCall(r, c) PROVE Quietly(r)
  BY <1>7 DEF ReachToolCall
<1>8. CASE ReplayToolCall(r)
  BY <1>8 DEF ReplayToolCall
<1>9. CASE CommitApproval(r)
  BY <1>9 DEF CommitApproval, Park, ParkedStatus
<1>10. CASE RecommitApproval(r)
  BY <1>10 DEF RecommitApproval, Park, ParkedStatus
<1>11. CASE ReplayDiverges(r)
  BY <1>11 DEF ReplayDiverges
<1>12. CASE ResolveRejected(r)
  BY <1>12 DEF ResolveRejected
<1>13. CASE ResolveConflict(r)
  BY <1>13 DEF ResolveConflict
<1>14. CASE InvokeTool(r)
  BY <1>14 DEF InvokeTool, MayExecute
<1>15. CASE ToolReturns(r)
  BY <1>15 DEF ToolReturns, Settle
<1>16. CASE ToolErrors(r)
  BY <1>16 DEF ToolErrors, Settle, MayExecute
<1> QED
  BY <1>2, <1>3, <1>4, <1>5, <1>6, <1>7, <1>8, <1>9, <1>10, <1>11, <1>12, <1>13, <1>14, <1>15, <1>16
     DEF HandlerStep, ApprovalStep

\* What a client does to a run leaves the checkpoint alone; a new run has no approval.
LEMMA ClientQuiet ==
  ASSUME IInv, HistoryInv, NEW r \in Runs, ClientStep(r)
  PROVE  Quietly(r)
<1>1. TypeOK /\ (Live(r) => Active(r))
  BY DEF IInv, RowInv, LiveHandlerOwnsThread
<1> USE <1>1 DEF TypeOK, Goto, Quietly, Invoked, AtToolCall
<1>2. ASSUME NEW k \in {"stream", "sync"}, StartRun(r, k) PROVE Quietly(r)
  <2>1. \A c \in Calls : approval[r][c] = "none"
    BY <1>2 DEF StartRun, HistoryInv
  <2> QED
    BY <1>2, <2>1 DEF StartRun
<1>3. CASE RequestCancel(r)
  BY <1>3 DEF RequestCancel
<1>4. CASE Disconnect(r)
  BY <1>4 DEF Disconnect
<1>5. ASSUME NEW c \in Calls, NEW approve \in BOOLEAN, BeginDecision(r, c, approve) PROVE Quietly(r)
  <2>1. Invoked(r)
    BY <1>5 DEF BeginDecision, MayDecide
  <2> QED
    BY <1>5, <2>1 DEF BeginDecision, MayDecide
<1> QED
  BY <1>2, <1>3, <1>4, <1>5 DEF ClientStep

\* The frame of a step of r, as the invariant needs it.
LEMMA StepFrames ==
  ASSUME IInv, NEW r \in Runs, HandlerStep(r) \/ GraphStep(r) \/ ClientStep(r)
  PROVE  Frame(r) /\ thread' = thread
<1>1. /\ TypeOK /\ RowInv
      /\ \A s \in Runs : RunInv(s) /\ ToolRunInv(s)
  BY PerRun DEF IInv, EveryRun
<1>2. Live(r) => Active(r)
  BY <1>1 DEF RowInv, LiveHandlerOwnsThread
<1> QED
  BY <1>1, <1>2, HandlerInv, ClientInv DEF StepOf

\* The handler restores the conversation, saves it with every step of the graph, and adds
\* its own turn at the end: it is the only one who writes.
LEMMA SavingHistory ==
  ASSUME IInv, IInv', HistoryInv, NEW r \in Runs, InvokeGraph(r) \/ GraphStep(r) \/ FinalizeHistory(r)
  PROVE  HistoryInv'
<1>1. /\ TypeOK /\ Live(r) /\ Active(r)
      /\ \A s \in Runs : Live(s) => s = r
      /\ \A s \in Runs : Active(s) => s = r
  BY DEF IInv, RowInv, LiveHandlerOwnsThread, OneActiveRun, InvokeGraph, GraphStep, FinalizeHistory
<1>2. UNCHANGED <<rows, process>>
  BY DEF InvokeGraph, GraphStep, FinalizeHistory
<1>3. ASSUME Undisturbed PROVE HistoryKept'
  <2>1. HistoryKept
    BY <1>3 DEF HistoryInv
  <2>2. CASE InvokeGraph(r)
    <3>1. /\ turns' = turns /\ base'[r] = turns /\ pc'[r] = "working"
          /\ \A s \in Runs \ {r} : pc'[s] = pc[s]
      BY <1>1, <2>2 DEF TypeOK, InvokeGraph, Goto
    <3>2. ASSUME NEW s \in Runs, Invoked(s)' PROVE s = r
      BY <1>1, <1>2, <3>2 DEF Invoked
    <3> QED
      BY <1>1, <1>2, <2>1, <3>1, <3>2 DEF HistoryKept
  <2>3. CASE GraphStep(r)
    <3>1. turns' = base[r] /\ UNCHANGED <<pc, base>> /\ pc[r] = "working"
      BY <2>3 DEF GraphStep
    <3>2. Invoked(r)
      BY <1>1, <3>1 DEF Invoked
    <3>3. ASSUME NEW s \in Runs, Invoked(s)' PROVE s = r
      BY <1>1, <1>2, <3>3 DEF Invoked
    <3> QED
      BY <1>1, <1>2, <2>1, <3>1, <3>2, <3>3 DEF HistoryKept
  <2>4. CASE FinalizeHistory(r)
    <3>1. turns' = base[r] \cup {r} /\ UNCHANGED base /\ pc[r] = "committed"
      BY <2>4 DEF FinalizeHistory, CompletedTurns
    <3>2. \A s \in Runs \ {r} : pc'[s] = pc[s]
      BY <1>1, <2>4 DEF TypeOK, FinalizeHistory, Goto
    <3>3. Invoked(r)
      BY <1>1, <3>1 DEF Invoked
    <3>4. ASSUME NEW s \in Runs, Invoked(s)' PROVE s = r
      BY <1>1, <1>2, <3>4 DEF Invoked
    <3> QED
      BY <1>1, <1>2, <2>1, <3>1, <3>2, <3>3, <3>4 DEF HistoryKept
  <2> QED
    BY <2>2, <2>3, <2>4
<1> QED
  BY <1>2, <1>3 DEF HistoryInv, Undisturbed

\* Archiving, workflows, crashes and restarts: while the conversation is open and no workflow
\* was started they neither write nor delete it.
LEMMA SystemHistory ==
  ASSUME IInv, IInv', HistoryInv, SystemStep
  PROVE  HistoryInv'
<1>1. TypeOK
  BY DEF IInv
<1>2. CASE Archive \/ DeleteCheckpoint
  <2>1. ~Undisturbed' /\ UNCHANGED <<workflows, inflight, status, approval>> /\ (thread' = "active" => ~deletion')
    BY <1>2 DEF Archive, DeleteCheckpoint, HistoryInv, Undisturbed
  <2> QED
    BY <2>1 DEF HistoryInv
<1>3. CASE StartWorkflow
  <2>1. workflows' # 0 /\ UNCHANGED <<thread, deletion, status, approval>>
    BY <1>1, <1>3 DEF StartWorkflow, TypeOK
  <2> QED
    BY <2>1 DEF HistoryInv, Undisturbed
<1>4. CASE WorkflowStep \/ WorkflowEnds
  <2>1. workflows # 0 /\ UNCHANGED <<workflows, thread, deletion, status, approval>>
    BY <1>4 DEF WorkflowStep, WorkflowEnds, HistoryInv
  <2> QED
    BY <2>1 DEF HistoryInv, Undisturbed
<1>5. ASSUME Crash \/ Startup \/ StartupWithoutRecovery PROVE HistoryInv'
  <2>0. UNCHANGED <<thread, workflows, turns, base>> /\ (inflight = {} => inflight' = {})
    BY <1>5 DEF Crash, Startup, StartupWithoutRecovery
  <2>1. thread' = "active" => ~deletion'
    <3>1. CASE Crash
      BY <3>1 DEF Crash
    <3>2. CASE Startup
      BY <3>2 DEF Startup, ReconciledDeletion
    <3>3. CASE StartupWithoutRecovery
      BY <3>3 DEF StartupWithoutRecovery, HistoryInv
    <3> QED
      BY <1>5, <3>1, <3>2, <3>3
  <2>2. ASSUME NEW s \in Runs
        PROVE  /\ status'[s] = "success" => status[s] = "success"
               /\ status'[s] = "absent" => status[s] = "absent"
               /\ status'[s] \in ActiveStatus => status[s] \in ActiveStatus
               /\ \A c \in Calls : approval'[s][c] = "none" <=> approval[s][c] = "none"
               /\ pc'[s] \in {pc[s], "idle"}
    BY <1>1, <1>5 DEF TypeOK, Crash, Startup, StartupWithoutRecovery, RecoveredApproval
  <2>3. ASSUME NEW s \in Runs, Invoked(s)' PROVE Invoked(s)
    BY <2>2, <2>3 DEF Invoked, AtToolCall
  <2>4. HistoryKept => HistoryKept'
    BY <2>0, <2>2, <2>3 DEF HistoryKept
  <2> QED
    BY <2>0, <2>1, <2>2, <2>4 DEF HistoryInv, Undisturbed
<1> QED
  BY <1>2, <1>3, <1>4, <1>5 DEF SystemStep

\* Whatever is cancelled, decided, replayed, lost or restarted, the answer of every successful
\* run is in the conversation the next run restores, for any number of runs and crashes.
THEOREM AnswersRemembered == Spec => []SuccessRecorded
<1>1. Init => HistoryInv
  BY DEF Init, HistoryInv, HistoryKept, Invoked, Undisturbed
<1>2. IInv /\ IInv' /\ HistoryInv /\ [Next]_vars => HistoryInv'
  <2> SUFFICES ASSUME IInv, IInv', HistoryInv, [Next]_vars PROVE HistoryInv'
    OBVIOUS
  <2>1. ASSUME NEW r \in Runs, HandlerStep(r) \/ GraphStep(r) PROVE HistoryInv'
    BY <2>1, StepFrames, HandlerQuiet, QuietHistory, SavingHistory
  <2>2. ASSUME NEW r \in Runs, ClientStep(r) PROVE HistoryInv'
    BY <2>2, StepFrames, ClientQuiet, QuietHistory
  <2>3. CASE UNCHANGED vars
    BY <2>3 DEF vars, HistoryInv, HistoryKept, Invoked, Undisturbed
  <2> QED
    BY <2>1, <2>2, <2>3, SystemHistory DEF Next
<1>3. HistoryInv => SuccessRecorded
  BY DEF HistoryInv, HistoryKept, Undisturbed, SuccessRecorded
<1> QED
  BY <1>1, <1>2, <1>3, Invariance, PTL DEF Spec
=============================================================================
