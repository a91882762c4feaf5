----------------------- MODULE DocumentIndexingProofs -----------------------
(***************************************************************************)
(* Proofs about DocumentIndexing, for any sets of identities, reindex      *)
(* events, workers and tokens, and any bounds.                             *)
(***************************************************************************)
EXTENDS DocumentIndexing, TLAPS

USE EventAssumption, OffAssumption, LimitAssumption DEF Events, outbox, broker, worker

-----------------------------------------------------------------------------
\* Every step preserves the types.
LEMMA TypeStep ==
  ASSUME IInv, Next
  PROVE  TypeOK'
<1> USE DEF IInv, TypeOK, EventStatus
<1>1. CASE CreateDocument
  BY <1>1 DEF CreateDocument
<1>2. ASSUME NEW i \in Identities \cup {Off}, ChangeBinding(i) PROVE TypeOK'
  BY <1>2 DEF ChangeBinding, Queue, NeedsReindex, Serving
<1>3. ASSUME NEW e \in Events, BecomeDue(e) PROVE TypeOK'
  BY <1>3 DEF BecomeDue
<1>4. ASSUME NEW e \in Events, NEW t \in Tokens, Dispatch(e, t) PROVE TypeOK'
  BY <1>4 DEF Dispatch, Locked
<1>5. ASSUME NEW e \in Events, NEW t \in Tokens, Publish(e, t) PROVE TypeOK'
  BY <1>5 DEF Publish
<1>6. ASSUME NEW e \in Events, NEW t \in Tokens, PublishFails(e, t) PROVE TypeOK'
  BY <1>6 DEF PublishFails, Fault, OwnsLease, Locked
<1>7. ASSUME NEW e \in Events, NEW t \in Tokens, DispatcherDies(e, t) PROVE TypeOK'
  BY <1>7 DEF DispatcherDies, Fault
<1>8. ASSUME NEW e \in Events, LoseMessage(e) PROVE TypeOK'
  BY <1>8 DEF LoseMessage, Fault
<1>9. ASSUME NEW w \in Workers, NEW e \in Events, DropMessage(w, e) PROVE TypeOK'
  BY <1>9 DEF DropMessage, Receive
<1>10. ASSUME NEW w \in Workers, StartUpload(w) PROVE TypeOK'
  BY <1>10 DEF StartUpload, Receive, Claimable, Begin, Locked
<1>11. ASSUME NEW w \in Workers, NEW n \in Reindexes, StartReindex(w, n) PROVE TypeOK'
  BY <1>11 DEF StartReindex, Receive, Claimable, Begin, Locked
<1>12. ASSUME NEW w \in Workers, NEW n \in Reindexes, SkipStaleReindex(w, n) PROVE TypeOK'
  BY <1>12 DEF SkipStaleReindex, Receive, Claimable, Settle, Locked
<1>13. ASSUME NEW w \in Workers, UploadSucceeds(w) PROVE TypeOK'
  BY <1>13 DEF UploadSucceeds, Working, BindingUnchanged, Activated, Settle, Release,
               JobMatchesEvent
<1>14. ASSUME NEW w \in Workers, UploadRetries(w) PROVE TypeOK'
  BY <1>14 DEF UploadRetries, Working, Settle, Release, RetriedDocument, Spent
<1>15. ASSUME NEW w \in Workers, UploadRejected(w) PROVE TypeOK'
  BY <1>15 DEF UploadRejected, Working, Settle, Release
<1>16. ASSUME NEW w \in Workers, ReindexActivates(w) PROVE TypeOK'
  BY <1>16 DEF ReindexActivates, WorksOnReindex, BindingUnchanged, Activated, Settle,
               Release, JobMatchesEvent
<1>17. ASSUME NEW w \in Workers, ReindexStale(w) PROVE TypeOK'
  <2>1. client[w] \in Identities
    BY <1>17 DEF ReindexStale, WorksOnReindex, JobMatchesEvent
  <2>2. index' \in [Identities -> {"absent", "ready", "active", "retired", "failed"}]
    BY <1>17, <2>1 DEF ReindexStale
  <2> QED
    BY <1>17, <2>2 DEF ReindexStale, WorksOnReindex, Settle, Release
<1>18. ASSUME NEW w \in Workers, ReindexBuildFails(w) PROVE TypeOK'
  <2>1. index' \in [Identities -> {"absent", "ready", "active", "retired", "failed"}]
    BY <1>18 DEF ReindexBuildFails
  <2> QED
    BY <1>18, <2>1 DEF ReindexBuildFails, WorksOnReindex, Settle, Release
<1>19. ASSUME NEW w \in Workers, ReindexRaises(w) PROVE TypeOK'
  BY <1>19 DEF ReindexRaises, Active
<1>20. ASSUME NEW w \in Workers, RecordFailure(w) PROVE TypeOK'
  BY <1>20 DEF RecordFailure, Release, Locked
<1>21. ASSUME NEW w \in Workers, WorkerDies(w) PROVE TypeOK'
  BY <1>21 DEF WorkerDies, Fault, Release
<1>22. ASSUME NEW i \in Identities, EditDisabled(i) PROVE TypeOK'
  BY <1>22 DEF EditDisabled, Queue
<1>23. ASSUME NEW w \in Workers, Resolve(w) PROVE TypeOK'
  BY <1>23 DEF Resolve
<1>24. ASSUME NEW w \in Workers, Recheck(w) PROVE TypeOK'
  BY <1>24 DEF Recheck
<1> QED
  BY <1>1, <1>2, <1>3, <1>4, <1>5, <1>6, <1>7, <1>8, <1>9, <1>10, <1>11, <1>12,
      <1>13, <1>14, <1>15, <1>16, <1>17, <1>18, <1>19, <1>20, <1>21, <1>22, <1>23, <1>24
     DEF Next, Lease, Send, Deliver, Accept, Work

-----------------------------------------------------------------------------
\* Steps that change no row but an open event's lease.

Still ==
  /\ UNCHANGED <<doc, bound, index, target, attempts, worker, servedFor>>
  /\ \A e \in Events : estatus'[e] = estatus[e] \/ (Open(e) /\ Open(e)')

\* The invariant but for the types.
Facts ==
  /\ OneServingIndex /\ IndexFollowsBinding /\ DocumentMatchesEvent
  /\ OneWorkerPerEvent /\ AttemptsWithinBudget
  /\ ReindexOfSearchable /\ JobMatchesEvent

\* Time, dispatchers and the broker only move leases.
LEMMA StillSteps ==
  ASSUME TypeOK, NEW e \in Events,
         \/ BecomeDue(e) \/ Lease(e) \/ Send(e) \/ LoseMessage(e)
         \/ \E t \in Tokens : DispatcherDies(e, t)
         \/ \E w \in Workers : DropMessage(w, e)
  PROVE  Still
<1> USE DEF TypeOK, Still, Open
<1>1. CASE BecomeDue(e) BY <1>1 DEF BecomeDue
<1>2. ASSUME NEW t \in Tokens, Dispatch(e, t) PROVE Still BY <1>2 DEF Dispatch
<1>3. ASSUME NEW t \in Tokens, Publish(e, t) PROVE Still BY <1>3 DEF Publish
<1>4. ASSUME NEW t \in Tokens, PublishFails(e, t) PROVE Still
  BY <1>4 DEF PublishFails, OwnsLease
<1>5. CASE LoseMessage(e) BY <1>5 DEF LoseMessage
<1>6. ASSUME NEW t \in Tokens, DispatcherDies(e, t) PROVE Still BY <1>6 DEF DispatcherDies
<1>7. ASSUME NEW w \in Workers, DropMessage(w, e) PROVE Still BY <1>7 DEF DropMessage
<1> QED BY <1>1, <1>2, <1>3, <1>4, <1>5, <1>6, <1>7 DEF Lease, Send

\* No fact of the invariant looks at which lease an open event has.
LEMMA StillInv ==
  ASSUME TypeOK, Facts, Still
  PROVE  Facts'
<1> USE DEF Facts, Still, Open, TypeOK
<1>1. OneServingIndex' BY DEF OneServingIndex, Serving
<1>2. IndexFollowsBinding' BY DEF IndexFollowsBinding, Serving
<1>3. DocumentMatchesEvent' BY DEF DocumentMatchesEvent
<1>4. OneWorkerPerEvent' BY DEF OneWorkerPerEvent, Active
<1>5. AttemptsWithinBudget' BY DEF AttemptsWithinBudget, Settled
<1>6. ReindexOfSearchable' BY DEF ReindexOfSearchable
<1>7. JobMatchesEvent' BY DEF JobMatchesEvent, Active
<1> QED BY <1>1, <1>2, <1>3, <1>4, <1>5, <1>6, <1>7

-----------------------------------------------------------------------------
\* The steps of users and workers keep every fact; the others are Still.
LEMMA FactsStep ==
  ASSUME TypeOK, Facts, Next
  PROVE  Facts'
<1> USE DEF Facts, TypeOK, OneServingIndex, Serving, IndexFollowsBinding, DocumentMatchesEvent,
            OneWorkerPerEvent, Working, AttemptsWithinBudget, Settled, ReindexOfSearchable,
            JobMatchesEvent, WorksOnReindex, Active, Open
<1>1. CASE CreateDocument
  <2> USE <1>1 DEF CreateDocument
  <2>1. /\ doc = "none" /\ doc' = "pending"
        /\ \A i \in Identities : index[i] # "active"
        /\ \A n \in Reindexes : estatus[n] = "none" /\ estatus'[n] = "none"
        /\ estatus'[Upload] = "pending"
    OBVIOUS
  <2>2. \A w \in Workers : job[w] = "idle"
    OBVIOUS
  <2>3. OneServingIndex' /\ IndexFollowsBinding' /\ DocumentMatchesEvent'
    BY <2>1
  <2>4. OneWorkerPerEvent' /\ JobMatchesEvent'
    BY <2>2
  <2>5. AttemptsWithinBudget'
    BY <2>1
  <2>6. ReindexOfSearchable'
    BY <2>1
  <2> QED
    BY <2>3, <2>4, <2>5, <2>6
<1>2. ASSUME NEW i \in Identities \cup {Off}, ChangeBinding(i) PROVE Facts'
  BY <1>2 DEF ChangeBinding, Queue, NeedsReindex
<1>3. ASSUME NEW w \in Workers, StartUpload(w) PROVE Facts'
  BY <1>3 DEF StartUpload, Receive, Claimable, Begin, Locked
<1>4. ASSUME NEW w \in Workers, NEW n \in Reindexes, StartReindex(w, n) PROVE Facts'
  BY <1>4 DEF StartReindex, Receive, Claimable, Begin, Locked
<1>5. ASSUME NEW w \in Workers, NEW n \in Reindexes, SkipStaleReindex(w, n) PROVE Facts'
  BY <1>5 DEF SkipStaleReindex, Receive, Claimable, Settle, Locked
<1>6. ASSUME NEW w \in Workers, UploadSucceeds(w) PROVE Facts'
  BY <1>6 DEF UploadSucceeds, BindingUnchanged, Activated, Settle, Release, JobMatchesEvent
<1>7. ASSUME NEW w \in Workers, UploadRetries(w) PROVE Facts'
  BY <1>7 DEF UploadRetries, Settle, Release, RetriedDocument, Spent
<1>8. ASSUME NEW w \in Workers, UploadRejected(w) PROVE Facts'
  BY <1>8 DEF UploadRejected, Settle, Release
<1>9. ASSUME NEW w \in Workers, ReindexActivates(w) PROVE Facts'
  BY <1>9 DEF ReindexActivates, BindingUnchanged, Activated, Settle, Release, JobMatchesEvent
<1>10. ASSUME NEW w \in Workers, ReindexStale(w) PROVE Facts'
  BY <1>10 DEF ReindexStale, Settle, Release
<1>11. ASSUME NEW w \in Workers, ReindexBuildFails(w) PROVE Facts'
  BY <1>11 DEF ReindexBuildFails, Settle, Release
<1>12. ASSUME NEW w \in Workers, ReindexRaises(w) PROVE Facts'
  BY <1>12 DEF ReindexRaises
<1>13. ASSUME NEW w \in Workers, RecordFailure(w) PROVE Facts'
  BY <1>13 DEF RecordFailure, Release, Locked
<1>14. ASSUME NEW w \in Workers, WorkerDies(w) PROVE Facts'
  BY <1>14 DEF WorkerDies, Fault, Release
<1>15. ASSUME NEW i \in Identities, EditDisabled(i) PROVE Facts'
  BY <1>15 DEF EditDisabled, Queue, NeedsReindex
<1>16. ASSUME NEW w \in Workers, Resolve(w) PROVE Facts'
  BY <1>16 DEF Resolve
<1>17. ASSUME NEW w \in Workers, Recheck(w) PROVE Facts'
  BY <1>17 DEF Recheck
<1> QED
  BY <1>1, <1>2, <1>3, <1>4, <1>5, <1>6, <1>7, <1>8, <1>9, <1>10, <1>11, <1>12, <1>13, <1>14,
     <1>15, <1>16, <1>17, StillSteps, StillInv
     DEF Next, Deliver, Accept, Work

-----------------------------------------------------------------------------
\* The invariant.

LEMMA InitFacts == Init => IInv
BY DEF Init, IInv, TypeOK, EventStatus, OneServingIndex, Serving, IndexFollowsBinding,
       DocumentMatchesEvent, OneWorkerPerEvent, Working, AttemptsWithinBudget, Settled,
       ReindexOfSearchable, JobMatchesEvent, Active, Open

\* Every step preserves the invariant.
LEMMA NextIInv == IInv /\ [Next]_vars => IInv'
<1> SUFFICES ASSUME IInv, [Next]_vars PROVE IInv'
  OBVIOUS
<1>1. TypeOK /\ Facts
  BY DEF IInv, Facts
<1>2. CASE Next
  BY <1>1, <1>2, TypeStep, FactsStep DEF IInv, Facts
<1>3. CASE UNCHANGED vars
  <2>1. Still /\ TypeOK'
    BY <1>1, <1>3 DEF vars, Still, TypeOK
  <2> QED
    BY <1>1, <2>1, StillInv DEF IInv, Facts
<1> QED
  BY <1>2, <1>3

\* In every reachable state the whole inductive invariant holds, for any number
\* of identities, reindex events, workers and leases and any bounds.
THEOREM IndexInvariance == Spec => []IInv
<1>1. Init => IInv
  BY InitFacts
<1>2. IInv /\ [Next]_vars => IInv'
  BY NextIInv
<1> QED
  BY <1>1, <1>2, PTL DEF Spec

\* At most one index version serves a document, and one does exactly when the
\* document is searchable: activate() retires the old version with the new one.
THEOREM ServingIndex == Spec => []OneServingIndex
<1>1. IInv => OneServingIndex
  BY DEF IInv
<1> QED
  BY <1>1, IndexInvariance, PTL

\* The serving index was activated for the bound identity, or an event for that
\* identity is open or failed: the last look at the binding under the user lock
\* loses no change of it.
THEOREM BindingFollowed == Spec => []IndexFollowsBinding
<1>1. IInv => IndexFollowsBinding
  BY DEF IInv
<1> QED
  BY <1>1, IndexInvariance, PTL

\* The parse status of the document and the status of its upload event agree.
THEOREM EventMatched == Spec => []DocumentMatchesEvent
<1>1. IInv => DocumentMatchesEvent
  BY DEF IInv
<1> QED
  BY <1>1, IndexInvariance, PTL

\* However often an event is delivered, one worker at a time processes it.
THEOREM WorkerExclusion == Spec => []OneWorkerPerEvent
<1>1. IInv => OneWorkerPerEvent
  BY DEF IInv
<1> QED
  BY <1>1, IndexInvariance, PTL

\* The attempts recorded for an upload never exceed the configured number, and
\* an upload that is still open has one left.
THEOREM AttemptBudget == Spec => []AttemptsWithinBudget
<1>1. IInv => AttemptsWithinBudget
  BY DEF IInv
<1> QED
  BY <1>1, IndexInvariance, PTL

\* A document that was ingested or given up keeps that status: no late message,
\* lease, reindex or crash takes it back.
THEOREM UploadOutcomeFinal == Spec => SettledUploadFinal
<1>1. IInv /\ [Next]_vars => [doc' # doc => doc \in {"none", "pending"}]_vars
  <2> SUFFICES ASSUME IInv, Next, doc' # doc PROVE doc \in {"none", "pending"}
    BY DEF vars
  <2>1. CASE CreateDocument
    BY <2>1 DEF CreateDocument
  <2>2. ASSUME NEW w \in Workers, Active(w), wevent[w] = Upload PROVE doc = "pending"
    <3>1. Open(Upload)
      BY <2>2 DEF IInv, JobMatchesEvent
    <3> QED
      BY <3>1 DEF IInv, DocumentMatchesEvent, Open
  <2>3. ASSUME NEW e \in Events,
               \/ BecomeDue(e) \/ Lease(e) \/ Send(e) \/ LoseMessage(e)
               \/ \E t \in Tokens : DispatcherDies(e, t)
        PROVE  FALSE
    BY <2>3, StillSteps DEF IInv, Still
  <2>4. ASSUME NEW e \in Events, NEW w \in Workers, Accept(w, e) PROVE FALSE
    BY <2>4 DEF Accept, DropMessage, StartUpload, StartReindex, SkipStaleReindex
  <2>5. ASSUME NEW i \in Identities \cup {Off}, ChangeBinding(i) \/ EditDisabled(i) PROVE FALSE
    BY <2>5 DEF ChangeBinding, EditDisabled
  <2>6. ASSUME NEW w \in Workers, Work(w) PROVE Active(w) /\ wevent[w] = Upload
    BY <2>6 DEF Work, Working, Active, Resolve, Recheck, UploadSucceeds, UploadRetries,
                UploadRejected, ReindexActivates, ReindexStale, ReindexBuildFails,
                ReindexRaises, RecordFailure
  <2>7. ASSUME NEW w \in Workers, WorkerDies(w) PROVE FALSE
    BY <2>7 DEF WorkerDies
  <2> QED
    BY <2>1, <2>2, <2>3, <2>4, <2>5, <2>6, <2>7 DEF Next, Deliver
<1> QED
  BY <1>1, IndexInvariance, PTL DEF Spec, SettledUploadFinal

-----------------------------------------------------------------------------
\* Every start of processing is accounted for by an attempt that was recorded, by a fault, or
\* by the worker that is at it.
ExecutionsCounted ==
  /\ executions <= attempts[Upload] + faults + 1
  /\ ~Locked(Upload) => executions <= attempts[Upload] + faults

\* A step that starts nothing keeps the count if attempts and faults only grow, and grow when
\* a worker lets the upload go.
LEMMA CountKept ==
  ASSUME IInv, TypeOK', ExecutionsCounted, executions' = executions,
         attempts[Upload] <= attempts'[Upload], faults <= faults',
         Locked(Upload) /\ ~Locked(Upload)' =>
            attempts'[Upload] > attempts[Upload] \/ faults' > faults
  PROVE  ExecutionsCounted'
<1>1. /\ executions \in Nat /\ attempts[Upload] \in Nat /\ faults \in Nat
      /\ attempts'[Upload] \in Nat /\ faults' \in Nat
  BY DEF IInv, TypeOK
<1> QED
  BY <1>1 DEF ExecutionsCounted

\* A step that keeps what the workers are at keeps who holds the upload.
LEMMA SameLock ==
  ASSUME job' = job, wevent' = wevent
  PROVE  Locked(Upload)' = Locked(Upload)
  BY DEF Locked, Active

\* Every step keeps the count: only StartUpload starts processing, of an upload nobody holds.
LEMMA CountStep ==
  ASSUME IInv, TypeOK', ExecutionsCounted, Next
  PROVE  ExecutionsCounted'
<1>1. /\ executions \in Nat /\ attempts \in [Events -> Nat] /\ faults \in Nat /\ Upload \in Events
      /\ job \in [Workers -> {"idle", "started", "resolved", "working", "raised"}]
      /\ wevent \in [Workers -> Events \cup {NoEvent}]
  BY DEF IInv, TypeOK
<1>2. CASE CreateDocument \/ (\E i \in Identities \cup {Off} : ChangeBinding(i)) \/ (\E i \in Identities : EditDisabled(i))
  <2>1. UNCHANGED <<executions, attempts, faults, job, wevent>>
    BY <1>2 DEF CreateDocument, ChangeBinding, EditDisabled
  <2> QED
    BY <1>1, <2>1, SameLock, CountKept
<1>3. ASSUME NEW e \in Events,
             \/ BecomeDue(e) \/ Lease(e) \/ Send(e) \/ LoseMessage(e)
             \/ \E t \in Tokens : DispatcherDies(e, t)
             \/ \E w \in Workers : DropMessage(w, e)
      PROVE  ExecutionsCounted'
  <2>1. UNCHANGED <<executions, attempts, job, wevent>>
    BY <1>3 DEF BecomeDue, Lease, Dispatch, Send, Publish, PublishFails, LoseMessage, DispatcherDies, DropMessage
  <2>2. faults' = faults \/ faults' = faults + 1
    BY <1>3 DEF BecomeDue, Lease, Dispatch, Send, Publish, PublishFails, LoseMessage, DispatcherDies, DropMessage, Fault
  <2> QED
    BY <1>1, <2>1, <2>2, SameLock, CountKept
<1>4. ASSUME NEW w \in Workers, StartUpload(w) PROVE ExecutionsCounted'
  <2>1. ~Locked(Upload) /\ executions' = executions + 1 /\ UNCHANGED <<attempts, faults>>
    BY <1>4 DEF StartUpload, Receive
  <2>2. job'[w] = "started" /\ wevent'[w] = Upload
    BY <1>1, <1>4 DEF StartUpload, Begin
  <2>3. Locked(Upload)'
    BY <2>2 DEF Locked, Active
  <2> QED
    BY <1>1, <2>1, <2>3 DEF ExecutionsCounted
<1>5. ASSUME NEW w \in Workers, NEW n \in Reindexes, StartReindex(w, n) PROVE ExecutionsCounted'
  <2>1. UNCHANGED <<executions, attempts, faults>> /\ job[w] = "idle"
    BY <1>5 DEF StartReindex, Receive
  <2>2. \A v \in Workers \ {w} : job'[v] = job[v] /\ wevent'[v] = wevent[v]
    BY <1>1, <1>5 DEF StartReindex, Begin
  <2>3. Locked(Upload) => Locked(Upload)'
    BY <2>1, <2>2 DEF Locked, Active
  <2> QED
    BY <1>1, <2>1, <2>3, CountKept
<1>6. ASSUME NEW w \in Workers, NEW n \in Reindexes, SkipStaleReindex(w, n) PROVE ExecutionsCounted'
  <2>1. UNCHANGED <<executions, faults, job, wevent>> /\ attempts'[Upload] = attempts[Upload]
    BY <1>1, <1>6 DEF SkipStaleReindex, Settle
  <2> QED
    BY <1>1, <2>1, SameLock, CountKept
<1>7. ASSUME NEW w \in Workers, UploadSucceeds(w) \/ UploadRetries(w) \/ UploadRejected(w)
      PROVE  ExecutionsCounted'
  <2>1. UNCHANGED <<executions, faults>> /\ attempts'[Upload] = attempts[Upload] + 1
    BY <1>1, <1>7 DEF UploadSucceeds, UploadRetries, UploadRejected, Settle
  <2> QED
    BY <1>1, <2>1, CountKept
<1>8. ASSUME NEW w \in Workers, Resolve(w) \/ Recheck(w) PROVE ExecutionsCounted'
  <2>1. UNCHANGED <<executions, attempts, faults, wevent>> /\ Active(w)
    BY <1>8 DEF Resolve, Recheck, Active
  <2>2. /\ job'[w] \in {"resolved", "working"} /\ \A v \in Workers \ {w} : job'[v] = job[v]
    BY <1>1, <1>8 DEF Resolve, Recheck
  <2>3. Locked(Upload) => Locked(Upload)'
    BY <2>1, <2>2 DEF Locked, Active
  <2> QED
    BY <1>1, <2>1, <2>3, CountKept
<1>9. ASSUME NEW w \in Workers,
             ReindexActivates(w) \/ ReindexStale(w) \/ ReindexBuildFails(w) \/ ReindexRaises(w) \/ RecordFailure(w)
      PROVE  ExecutionsCounted'
  <2>1. wevent[w] \in Reindexes
    BY <1>9 DEF IInv, JobMatchesEvent, ReindexActivates, ReindexStale, ReindexBuildFails, WorksOnReindex,
                ReindexRaises, RecordFailure
  <2>2. UNCHANGED <<executions, faults>> /\ attempts'[Upload] = attempts[Upload]
    BY <1>1, <1>9, <2>1 DEF ReindexActivates, ReindexStale, ReindexBuildFails, ReindexRaises, RecordFailure, Settle
  <2>3. \A v \in Workers \ {w} : job'[v] = job[v] /\ wevent'[v] = wevent[v]
    BY <1>1, <1>9 DEF ReindexActivates, ReindexStale, ReindexBuildFails, ReindexRaises, RecordFailure, Release
  <2>4. Locked(Upload) => Locked(Upload)'
    BY <2>1, <2>3 DEF Locked, Active
  <2> QED
    BY <1>1, <2>2, <2>4, CountKept
<1>10. ASSUME NEW w \in Workers, WorkerDies(w) PROVE ExecutionsCounted'
  <2>1. UNCHANGED <<executions, attempts>> /\ faults' = faults + 1
    BY <1>10 DEF WorkerDies, Fault
  <2> QED
    BY <1>1, <2>1, CountKept
<1> QED
  BY <1>2, <1>3, <1>4, <1>5, <1>6, <1>7, <1>8, <1>9, <1>10 DEF Next, Deliver, Accept, Work

\* However leases run out and messages are lost or repeated, and whichever workers are
\* killed, the upload is processed at most as often as configured and once more a fault.
THEOREM ExecutionBudget == Spec => []ExecutionsWithinBudget
<1>1. Init => ExecutionsCounted
  BY DEF Init, ExecutionsCounted
<1>2. IInv /\ IInv' /\ ExecutionsCounted /\ [Next]_vars => ExecutionsCounted'
  <2> SUFFICES ASSUME IInv, IInv', ExecutionsCounted, [Next]_vars PROVE ExecutionsCounted'
    OBVIOUS
  <2>1. CASE Next
    BY <2>1, CountStep DEF IInv
  <2>2. CASE UNCHANGED vars
    BY <2>2 DEF vars, ExecutionsCounted, Locked, Active
  <2> QED
    BY <2>1, <2>2
<1>3. IInv /\ ExecutionsCounted => ExecutionsWithinBudget
  <2> SUFFICES ASSUME IInv, ExecutionsCounted PROVE ExecutionsWithinBudget
    OBVIOUS
  <2>1. /\ executions \in Nat /\ attempts[Upload] \in Nat /\ faults \in Nat
        /\ MaxAttempts \in Nat
    BY DEF IInv, TypeOK
  <2>2. attempts[Upload] <= MaxAttempts
    BY DEF IInv, AttemptsWithinBudget
  <2>3. Locked(Upload) => attempts[Upload] < MaxAttempts
    BY DEF IInv, JobMatchesEvent, AttemptsWithinBudget, Locked, Open, Settled
  <2> QED
    BY <2>1, <2>2, <2>3 DEF ExecutionsCounted, ExecutionsWithinBudget
<1> QED
  BY <1>1, <1>2, <1>3, IndexInvariance, PTL DEF Spec

-----------------------------------------------------------------------------
\* What is promised about a document.

\* What an event's status says of its request.
LEMMA RequestValues ==
  /\ RequestStatus("none") = "none"
  /\ RequestStatus("pending") = "open" /\ RequestStatus("queued") = "open"
  /\ RequestStatus("succeeded") = "done" /\ RequestStatus("failed") = "failed"
BY DEF RequestStatus

\* A step that changes none of the rows the promise is about.
LEMMA Unseen ==
  ASSUME UNCHANGED <<doc, bound, index, target, servedFor>>,
         \A n \in Reindexes : RequestStatus(estatus'[n]) = RequestStatus(estatus[n])
  PROVE  UNCHANGED Document!vars
<1>1. [n \in Reindexes |-> RequestStatus(estatus[n])]' = [n \in Reindexes |-> RequestStatus(estatus[n])]
  OBVIOUS
<1> QED
  BY <1>1 DEF Serving, Document!vars

\* Leases, messages and what workers do before they commit are not seen.
LEMMA UnseenSteps ==
  ASSUME TypeOK,
         \/ Still
         \/ UNCHANGED <<doc, bound, index, target, servedFor, estatus>>
  PROVE  UNCHANGED Document!vars
<1>1. UNCHANGED <<doc, bound, index, target, servedFor>>
  BY DEF Still
<1>2. \A n \in Reindexes : RequestStatus(estatus'[n]) = RequestStatus(estatus[n])
  BY RequestValues DEF Still, Open, TypeOK
<1> QED
  BY <1>1, <1>2, Unseen

\* A settled event is a request that is closed, and the others stay as they are.
LEMMA RequestClosed ==
  ASSUME TypeOK, NEW n \in Reindexes, NEW result \in Settled,
         estatus' = [estatus EXCEPT ![n] = result]
  PROVE  [x \in Reindexes |-> RequestStatus(estatus[x])]' =
           [[x \in Reindexes |-> RequestStatus(estatus[x])] EXCEPT ![n] =
              IF result = "failed" THEN "failed" ELSE "done"]
<1>1. \A x \in Reindexes : RequestStatus(estatus'[x]) =
        IF x = n THEN IF result = "failed" THEN "failed" ELSE "done" ELSE RequestStatus(estatus[x])
  BY RequestValues DEF TypeOK, Settled
<1> QED
  BY <1>1

\* The events of reindexes do not change with the upload's.
LEMMA UploadOnly ==
  ASSUME TypeOK, NEW s, estatus' = [estatus EXCEPT ![Upload] = s]
  PROVE  [n \in Reindexes |-> RequestStatus(estatus[n])]' = [n \in Reindexes |-> RequestStatus(estatus[n])]
<1>1. \A n \in Reindexes : estatus'[n] = estatus[n]
  BY DEF TypeOK
<1> QED
  BY <1>1

\* An activation leaves one index that serves.
LEMMA OneTakesOver ==
  ASSUME TypeOK, NEW i \in Identities, index' = Activated(i)
  PROVE  Serving' = {i}
BY DEF Serving, Activated, TypeOK

\* An event for an identity is a request that is opened.
LEMMA RequestAsked ==
  ASSUME TypeOK, NEW i, Queue(i)
  PROVE  Document!Ask(i)
<1>1. PICK n \in Reindexes :
        /\ estatus[n] = "none"
        /\ estatus' = [estatus EXCEPT ![n] = "pending"]
        /\ target' = [target EXCEPT ![n] = i]
  BY DEF Queue
<1>2. \A x \in Reindexes : RequestStatus(estatus'[x]) = IF x = n THEN "open" ELSE RequestStatus(estatus[x])
  BY <1>1, RequestValues DEF TypeOK
<1>3. [x \in Reindexes |-> RequestStatus(estatus[x])]' =
        [[x \in Reindexes |-> RequestStatus(estatus[x])] EXCEPT ![n] = "open"]
  BY <1>2
<1> QED
  BY <1>1, <1>3, RequestValues DEF Document!Ask

\* The API: an upload, and the changes of the binding.
LEMMA ClientPromise ==
  ASSUME IInv,
         \/ CreateDocument
         \/ \E i \in Identities \cup {Off} : ChangeBinding(i)
         \/ \E i \in Identities : EditDisabled(i)
  PROVE  Document!Next
<1> USE DEF IInv
<1>1. CASE CreateDocument
  <2>1. Document!Submit
    BY <1>1, UploadOnly DEF CreateDocument, Document!Submit, Serving
  <2> QED
    BY <2>1 DEF Document!Next
<1>2. ASSUME NEW i \in Identities \cup {Off}, ChangeBinding(i) PROVE Document!Next
  <2>1. NeedsReindex <=> doc = "success"
    BY DEF NeedsReindex, OneServingIndex
  <2>2. CASE i # Off /\ NeedsReindex
    <3>1. Document!Ask(i)
      BY <1>2, <2>2, RequestAsked DEF ChangeBinding
    <3>2. Document!Rebind(i)
      BY <1>2, <2>1, <2>2, <3>1 DEF ChangeBinding, Serving, Document!Rebind
    <3> QED
      BY <3>2 DEF Document!Next
  <2>3. CASE ~(i # Off /\ NeedsReindex)
    <3>1. [n \in Reindexes |-> RequestStatus(estatus[n])]' = [n \in Reindexes |-> RequestStatus(estatus[n])]
      BY <1>2, <2>3 DEF ChangeBinding
    <3>2. Document!Rebind(i)
      BY <1>2, <2>1, <2>3, <3>1 DEF ChangeBinding, Serving, Document!Rebind
    <3> QED
      BY <3>2 DEF Document!Next
  <2> QED
    BY <2>2, <2>3
<1>3. ASSUME NEW i \in Identities, EditDisabled(i) PROVE Document!Next
  <2>1. Document!Prepare(i)
    BY <1>3, RequestAsked DEF EditDisabled, NeedsReindex, Serving, Document!Prepare
  <2> QED
    BY <2>1 DEF Document!Next
<1> QED
  BY <1>1, <1>2, <1>3

\* A worker's upload ends: ingested, given up, or to be tried again.
LEMMA UploadPromise ==
  ASSUME IInv, NEW w \in Workers, UploadSucceeds(w) \/ UploadRetries(w) \/ UploadRejected(w)
  PROVE  [Document!Next]_(Document!vars)
<1> USE DEF IInv
<1>1. doc = "pending"
  BY DEF UploadSucceeds, UploadRetries, UploadRejected, Working, Active, JobMatchesEvent, Open,
         DocumentMatchesEvent
<1>2. CASE UploadSucceeds(w)
  <2>1. client[w] \in Identities
    BY <1>2 DEF UploadSucceeds, Working, JobMatchesEvent
  <2>2. Serving' = {client[w]} /\ servedFor' = bound
    BY <1>2, <2>1, OneTakesOver DEF UploadSucceeds, BindingUnchanged
  <2>3. Document!Ingest
    BY <1>1, <1>2, <2>1, <2>2, UploadOnly DEF UploadSucceeds, Settle, Document!Ingest, Document!TakeOver
  <2> QED
    BY <2>3 DEF Document!Next
<1>3. ASSUME UploadRetries(w) \/ UploadRejected(w) PROVE [Document!Next]_(Document!vars)
  <2>1. /\ doc' \in {"pending", "failed"}
        /\ UNCHANGED <<bound, index, servedFor, target>>
        /\ [n \in Reindexes |-> RequestStatus(estatus[n])]' = [n \in Reindexes |-> RequestStatus(estatus[n])]
    BY <1>3, UploadOnly DEF UploadRetries, UploadRejected, Settle, RetriedDocument
  <2>2. CASE doc' = "pending"
    BY <1>1, <2>1, <2>2 DEF Serving, Document!vars
  <2>3. CASE doc' = "failed"
    <3>1. Document!GiveUp
      BY <1>1, <2>1, <2>3 DEF Serving, Document!GiveUp
    <3> QED
      BY <3>1 DEF Document!Next
  <2> QED
    BY <2>1, <2>2, <2>3
<1> QED
  BY <1>2, <1>3

\* An event for an identity that is not bound any more is dropped.
LEMMA SkipPromise ==
  ASSUME IInv, NEW w \in Workers, NEW n \in Reindexes, SkipStaleReindex(w, n)
  PROVE  Document!Next
<1>1. /\ [x \in Reindexes |-> RequestStatus(estatus[x])]' =
           [[x \in Reindexes |-> RequestStatus(estatus[x])] EXCEPT ![n] = "done"]
      /\ RequestStatus(estatus[n]) = "open"
  BY RequestClosed, RequestValues DEF SkipStaleReindex, Settle, Settled, Claimable, IInv
<1>2. Document!Drop(n)
  BY <1>1 DEF SkipStaleReindex, Settle, Serving, Document!Drop, Document!Closes
<1> QED
  BY <1>2 DEF Document!Next

\* A worker's reindex ends: carried out, dropped or failed.
LEMMA ReindexPromise ==
  ASSUME IInv, NEW w \in Workers,
         ReindexActivates(w) \/ ReindexStale(w) \/ ReindexBuildFails(w) \/ RecordFailure(w)
  PROVE  Document!Next
<1> DEFINE n == wevent[w]
<1> USE DEF IInv
<1>1. ASSUME WorksOnReindex(w)
      PROVE  /\ n \in Reindexes /\ RequestStatus(estatus[n]) = "open" /\ client[w] \in Identities
             /\ seen[w] = target[n]
  BY <1>1, RequestValues DEF WorksOnReindex, JobMatchesEvent, Open, Active
<1>2. CASE ReindexActivates(w)
  <2>1. /\ n \in Reindexes /\ RequestStatus(estatus[n]) = "open" /\ client[w] \in Identities
        /\ target[n] = bound
    BY <1>1, <1>2 DEF ReindexActivates, BindingUnchanged
  <2>2. Serving' = {client[w]} /\ servedFor' = bound
    BY <1>2, <2>1, OneTakesOver DEF ReindexActivates, BindingUnchanged
  <2>3. [x \in Reindexes |-> RequestStatus(estatus[x])]' =
          [[x \in Reindexes |-> RequestStatus(estatus[x])] EXCEPT ![n] = "done"]
    BY <1>2, <2>1, RequestClosed DEF ReindexActivates, Settle, Settled
  <2>4. UNCHANGED <<doc, bound, target>>
    BY <1>2 DEF ReindexActivates, Settle
  <2>5. Document!CarryOut(n)
    BY <2>1, <2>2, <2>3, <2>4 DEF Document!CarryOut, Document!TakeOver, Document!Closes
  <2> QED
    BY <2>1, <2>5 DEF Document!Next
<1>3. CASE ReindexStale(w)
  <2>1. n \in Reindexes /\ RequestStatus(estatus[n]) = "open" /\ target[n] # bound
    BY <1>1, <1>3 DEF ReindexStale
  <2>2. [x \in Reindexes |-> RequestStatus(estatus[x])]' =
          [[x \in Reindexes |-> RequestStatus(estatus[x])] EXCEPT ![n] = "done"]
    BY <1>3, <2>1, RequestClosed DEF ReindexStale, Settle, Settled
  <2>3. Serving' = Serving /\ UNCHANGED <<doc, bound, servedFor, target>>
    BY <1>3 DEF ReindexStale, Settle, Serving, TypeOK
  <2>4. Document!Drop(n)
    BY <2>1, <2>2, <2>3 DEF Document!Drop, Document!Closes
  <2> QED
    BY <2>1, <2>4 DEF Document!Next
<1>4. CASE ReindexBuildFails(w)
  <2>1. n \in Reindexes /\ RequestStatus(estatus[n]) = "open"
    BY <1>1, <1>4 DEF ReindexBuildFails
  <2>2. [x \in Reindexes |-> RequestStatus(estatus[x])]' =
          [[x \in Reindexes |-> RequestStatus(estatus[x])] EXCEPT ![n] = "failed"]
    BY <1>4, <2>1, RequestClosed DEF ReindexBuildFails, Settle, Settled
  <2>3. Serving' = Serving /\ UNCHANGED <<doc, bound, servedFor, target>>
    BY <1>4 DEF ReindexBuildFails, Settle, Serving, TypeOK
  <2>4. Document!Fail(n)
    BY <2>1, <2>2, <2>3 DEF Document!Fail, Document!Closes
  <2> QED
    BY <2>1, <2>4 DEF Document!Next
<1>5. CASE RecordFailure(w)
  <2>1. n \in Reindexes /\ estatus[n] \in EventStatus \ {"none"}
    BY <1>5 DEF RecordFailure, JobMatchesEvent, TypeOK
  <2>2. [x \in Reindexes |-> RequestStatus(estatus[x])]' =
          [[x \in Reindexes |-> RequestStatus(estatus[x])] EXCEPT ![n] = "failed"]
    BY <1>5, <2>1, RequestClosed DEF RecordFailure, Settled
  <2>3. Serving' = Serving /\ UNCHANGED <<doc, bound, servedFor, target>>
    BY <1>5 DEF RecordFailure, Serving
  <2>4. RequestStatus(estatus[n]) # "none"
    BY <2>1, RequestValues DEF EventStatus
  <2>5. Document!Fail(n)
    BY <2>1, <2>2, <2>3, <2>4 DEF Document!Fail, Document!Closes
  <2> QED
    BY <2>1, <2>5 DEF Document!Next
<1> QED
  BY <1>2, <1>3, <1>4, <1>5

\* What is promised about a document is kept: it is ingested or given up for good, one index
\* answers its queries and the next takes over in one step, for an embedding that was asked
\* for and is bound, and a request is dropped only when the binding has moved on.
THEOREM DocumentPromise == Spec => DocumentSpec
<1>1. Init => Document!Init
  BY RequestValues DEF Init, Document!Init, Serving
<1>2. IInv /\ [Next]_vars => [Document!Next]_(Document!vars)
  <2> SUFFICES ASSUME IInv, [Next]_vars PROVE [Document!Next]_(Document!vars)
    OBVIOUS
  <2>1. TypeOK
    BY DEF IInv
  <2>2. CASE UNCHANGED vars
    BY <2>1, <2>2, UnseenSteps DEF vars
  <2>3. ASSUME NEW e \in Events,
               \/ BecomeDue(e) \/ Lease(e) \/ Send(e) \/ LoseMessage(e)
               \/ \E t \in Tokens : DispatcherDies(e, t)
        PROVE  [Document!Next]_(Document!vars)
    BY <2>1, <2>3, StillSteps, UnseenSteps
  <2>4. ASSUME NEW e \in Events, NEW w \in Workers, Accept(w, e)
        PROVE  [Document!Next]_(Document!vars)
    <3>1. CASE DropMessage(w, e)
      BY <2>1, <3>1, StillSteps, UnseenSteps
    <3>2. CASE StartUpload(w)
      BY <2>1, <3>2, UnseenSteps DEF StartUpload
    <3>3. CASE e \in Reindexes /\ StartReindex(w, e)
      BY <2>1, <3>3, UnseenSteps DEF StartReindex
    <3>4. CASE e \in Reindexes /\ SkipStaleReindex(w, e)
      BY <3>4, SkipPromise
    <3> QED
      BY <2>4, <3>1, <3>2, <3>3, <3>4 DEF Accept
  <2>5. ASSUME NEW w \in Workers, Work(w) \/ WorkerDies(w)
        PROVE  [Document!Next]_(Document!vars)
    <3>1. CASE Resolve(w) \/ Recheck(w) \/ ReindexRaises(w) \/ WorkerDies(w)
      BY <2>1, <3>1, UnseenSteps DEF Resolve, Recheck, ReindexRaises, WorkerDies
    <3> QED
      BY <2>5, <3>1, UploadPromise, ReindexPromise DEF Work
  <2> QED
    BY <2>2, <2>3, <2>4, <2>5, ClientPromise DEF Next, Deliver
<1> QED
  BY <1>1, <1>2, IndexInvariance, PTL DEF Spec, DocumentSpec, Document!Spec
=============================================================================
