--------------------------- MODULE LearningProofs ---------------------------
(***************************************************************************)
(* Proofs about AssessmentGrading, LearningPlan and Retrieval, for any     *)
(* handlers, requests, callers, documents and bounds.  Grading: nothing is *)
(* graded twice, a claim is kept as long as its lease lasts, and an answer is *)
(* about the payload that was sent.  Plans: a plan replaces the one it was *)
(* made for, and no plan asks again for work that is done.  Retrieval: what *)
(* is cited was served to this learner, and the status says how it went.   *)
(***************************************************************************)
EXTENDS AssessmentGrading, LearningPlan, Retrieval, FiniteSetTheorems, TLAPS

-----------------------------------------------------------------------------
(* Grading an assessment. *)

\* The handlers that work under a claim of the workflow service.
ClaimPhases == {"claimed", "grading", "finalizing", "failing", "failing fresh", "releasing"}
Holding(h) == handler[h].pc \in ClaimPhases

AssessmentRow == [status : {"none", "active", "grading"} \cup Done, hash : Payloads]
AttemptRow == [status : {"none", "grading", "failed"} \cup Done, hash : Payloads, token : Nat,
               leased : BOOLEAN, count : Nat, reply : Nat]
HandlerRecord ==
  [pc : {"idle", "generating", "waiting", "running", "claiming", "claimed", "grading",
         "finalizing", "failing", "failing fresh", "releasing"},
   req : Requests, hash : Payloads, token : Nat, seen : BOOLEAN,
   outcome : {"none", "created", "conflict", "error", "graded", "in_progress", "exhausted",
              "crashed"}]

GradingTypeOK ==
  /\ api \in {"live", "workflow"} /\ assessment \in AssessmentRow
  /\ attempt \in [Requests -> AttemptRow] /\ handler \in [Handlers -> HandlerRecord]
  /\ applied \subseteq Requests \X Nat /\ tokens \in Nat /\ expiries \in Nat

\* What was answered is the payload of a row that is there, and so is what is being graded.
AnswerOK(h) ==
  LET r == handler[h] IN
  /\ r.pc # "idle" => r.outcome = "none"
  /\ r.outcome = "created" => Exists /\ assessment.hash = r.hash
  /\ r.outcome = "graded" \/ Holding(h) =>
       attempt[r.req].status # "none" /\ attempt[r.req].hash = r.hash
  /\ Holding(h) => r.token \in 1..tokens

\* The live service holds the row of the assessment while it grades, once.
LiveOnce ==
  api = "live" =>
    /\ \A h \in Handlers : handler[h].pc \in {"idle", "generating", "waiting", "running"}
    /\ \A h \in Handlers : At(h, "running") => assessment.status = "active"
    /\ \A h, k \in Handlers : At(h, "running") /\ At(k, "running") => h = k
    /\ applied # {} => assessment.status = "graded"
    /\ \A r \in Requests : attempt[r].status # "none" => assessment.status = "graded"
    /\ \A f, g \in applied : f = g

\* A token names one claim.
TokensApart ==
  \A h, k \in Handlers : Holding(h) /\ Holding(k) /\ handler[h].token = handler[k].token => h = k

\* While no lease has run out, a claim is its grader's, and what was applied is done.
LeasesKept ==
  expiries = 0 =>
    /\ \A r \in Requests : attempt[r].status = "grading" => attempt[r].leased
    /\ \A h \in Handlers : Holding(h) => Owns(h)
    /\ \A g \in applied : attempt[g[1]].status \in Done
    /\ \A f, g \in applied : f[1] = g[1] => f = g

GradingInv ==
  /\ GradingTypeOK /\ LiveOnce /\ TokensApart /\ LeasesKept
  /\ \A h \in Handlers : AnswerOK(h) /\ (api = "workflow" => ~At(h, "running"))

\* A handler starts with a record of its kind.
LEMMA IdleHandler == Idle \in HandlerRecord
BY AssessmentConstants DEF Idle, HandlerRecord, Payloads, NoToken

\* Before the first request nothing is graded and every handler is idle.
LEMMA GradingInitially == AssessmentInit => GradingInv
<1> SUFFICES ASSUME AssessmentInit PROVE GradingInv
  OBVIOUS
<1>1. GradingTypeOK
  BY IdleHandler DEF AssessmentInit, GradingTypeOK, AssessmentRow, AttemptRow, NoAttempt, NoToken,
    Payloads, Done
<1>2. \A h \in Handlers : handler[h].pc = "idle" /\ handler[h].outcome = "none"
  BY DEF AssessmentInit, Idle
<1>3. applied = {} /\ \A r \in Requests : attempt[r].status = "none"
  BY DEF AssessmentInit, NoAttempt
<1> QED
  BY <1>1, <1>2, <1>3 DEF GradingInv, LiveOnce, TokensApart, LeasesKept, AnswerOK, Holding,
    ClaimPhases, At

\* What the ways a handler goes on do to its record.
LEMMA Answered ==
  ASSUME GradingTypeOK, NEW h \in Handlers,
         NEW outcome \in {"created", "conflict", "error", "graded", "in_progress", "exhausted",
                          "crashed"},
         Answer(h, outcome)
  PROVE  \E r \in HandlerRecord :
           /\ handler' = [handler EXCEPT ![h] = r] /\ r.pc = "idle" /\ r.outcome = outcome
           /\ r.req = handler[h].req /\ r.hash = handler[h].hash
<1> DEFINE r == [Idle EXCEPT !.req = handler[h].req, !.hash = handler[h].hash, !.outcome = outcome]
<1>1. handler[h] \in HandlerRecord
  BY DEF GradingTypeOK
<1>2. /\ r \in HandlerRecord /\ r.pc = "idle" /\ r.outcome = outcome
      /\ r.req = handler[h].req /\ r.hash = handler[h].hash
  <2>1. Idle \in HandlerRecord /\ Idle.pc = "idle"
    BY IdleHandler DEF Idle
  <2> QED
    BY <1>1, <2>1 DEF HandlerRecord
<1> QED
  BY <1>2 DEF Answer

\* A request that begins gives its handler a record with the phase it waits in.
LEMMA Called ==
  ASSUME GradingTypeOK, NEW h \in Handlers, NEW q \in Requests, NEW hash \in Payloads,
         NEW pc \in {"generating", "waiting"}, Call(h, pc, q, hash)
  PROVE  \E r \in HandlerRecord :
           /\ handler' = [handler EXCEPT ![h] = r] /\ r.pc = pc /\ r.outcome = "none"
<1> DEFINE r == [Idle EXCEPT !.pc = pc, !.req = q, !.hash = hash]
<1>1. r \in HandlerRecord /\ r.pc = pc /\ r.outcome = "none"
  <2>1. Idle \in HandlerRecord /\ Idle.outcome = "none"
    BY IdleHandler DEF Idle
  <2> QED
    BY <2>1 DEF HandlerRecord
<1> QED
  BY <1>1 DEF Call

\* A handler that holds a claim holds it with the same token while it goes on.
LEMMA Went ==
  ASSUME GradingTypeOK, NEW h \in Handlers, NEW seen \in BOOLEAN,
         NEW pc \in {"claiming"} \cup ClaimPhases,
         handler' = [handler EXCEPT ![h] = [@ EXCEPT !.pc = pc, !.seen = seen]]
  PROVE  \E r \in HandlerRecord :
           /\ handler' = [handler EXCEPT ![h] = r] /\ r.pc = pc /\ r.outcome = handler[h].outcome
           /\ r.req = handler[h].req /\ r.hash = handler[h].hash /\ r.token = handler[h].token
<1> DEFINE r == [handler[h] EXCEPT !.pc = pc, !.seen = seen]
<1>1. handler[h] \in HandlerRecord
  BY DEF GradingTypeOK
<1>2. /\ r \in HandlerRecord /\ r.pc = pc /\ r.outcome = handler[h].outcome
      /\ r.req = handler[h].req /\ r.hash = handler[h].hash /\ r.token = handler[h].token
  BY <1>1 DEF HandlerRecord, ClaimPhases
<1> QED
  BY <1>2

\* A step that writes no row.
LEMMA HandlerOnly ==
  ASSUME GradingInv, NEW h \in Handlers, NEW r \in HandlerRecord,
         handler' = [handler EXCEPT ![h] = r],
         UNCHANGED <<api, assessment, attempt, applied, tokens, expiries>>,
         r.pc # "idle" => r.outcome = "none", r.outcome = "created" => Exists /\ assessment.hash = r.hash,
         r.outcome = "graded" => attempt[r.req].status # "none" /\ attempt[r.req].hash = r.hash,
         r.pc # "running", api = "live" => r.pc \in {"idle", "generating", "waiting"},
         r.pc \in ClaimPhases =>
           /\ Holding(h) /\ r.token = handler[h].token
           /\ r.req = handler[h].req /\ r.hash = handler[h].hash
  PROVE  GradingInv'
<1>1. /\ handler' \in [Handlers -> HandlerRecord] /\ handler'[h] = r
      /\ \A k \in Handlers \ {h} : handler'[k] = handler[k]
  BY DEF GradingInv, GradingTypeOK
<1>2. GradingTypeOK'
  BY <1>1 DEF GradingInv, GradingTypeOK
<1>3. LiveOnce'
  BY <1>1 DEF GradingInv, LiveOnce, At
<1>4. TokensApart'
  BY <1>1 DEF GradingInv, TokensApart, Holding
<1>5. LeasesKept'
  BY <1>1 DEF GradingInv, LeasesKept, Holding, Owns
<1>6. ASSUME NEW k \in Handlers PROVE AnswerOK(k)' /\ (api' = "workflow" => ~At(k, "running")')
  BY <1>1 DEF GradingInv, AnswerOK, Holding, Exists, At
<1> QED
  BY <1>2, <1>3, <1>4, <1>5, <1>6 DEF GradingInv

\* A request that goes on changes the phase of its handler and nothing else of it.
LEMMA WentOn ==
  ASSUME GradingTypeOK, NEW h \in Handlers, NEW pc \in {"claiming"} \cup ClaimPhases, Goto(h, pc)
  PROVE  \E r \in HandlerRecord :
           /\ handler' = [handler EXCEPT ![h] = r] /\ r.pc = pc /\ r.outcome = handler[h].outcome
           /\ r.req = handler[h].req /\ r.hash = handler[h].hash /\ r.token = handler[h].token
<1> DEFINE r == [handler[h] EXCEPT !.pc = pc]
<1>1. handler[h] \in HandlerRecord
  BY DEF GradingTypeOK
<1>2. /\ r \in HandlerRecord /\ r.pc = pc /\ r.outcome = handler[h].outcome
      /\ r.req = handler[h].req /\ r.hash = handler[h].hash /\ r.token = handler[h].token
  BY <1>1 DEF HandlerRecord, ClaimPhases
<1> QED
  BY <1>2 DEF Goto

\* Answers, calls and steps between two phases, which write no row.
LEMMA AnswersOnly ==
  ASSUME GradingInv, NEW h \in Handlers,
         NEW outcome \in {"created", "conflict", "error", "graded", "in_progress", "exhausted",
                          "crashed"},
         Answer(h, outcome), UNCHANGED <<api, assessment, attempt, applied, tokens, expiries>>,
         outcome = "created" => Exists /\ assessment.hash = handler[h].hash,
         outcome = "graded" => /\ attempt[handler[h].req].status # "none"
                               /\ attempt[handler[h].req].hash = handler[h].hash
  PROVE  GradingInv'
<1>1. PICK r \in HandlerRecord :
        /\ handler' = [handler EXCEPT ![h] = r] /\ r.pc = "idle" /\ r.outcome = outcome
        /\ r.req = handler[h].req /\ r.hash = handler[h].hash
  BY Answered DEF GradingInv
<1> QED
  BY <1>1, HandlerOnly DEF ClaimPhases

\* A step that only moves a handler of the workflow service on leaves every claim and every
\* row as it is.
LEMMA GoesOnly ==
  ASSUME GradingInv, NEW h \in Handlers, NEW pc \in {"claiming"} \cup ClaimPhases,
         pc = "claiming" => handler[h].pc = "waiting", pc # "claiming" => Holding(h),
         api = "workflow", NEW seen \in BOOLEAN,
         Goto(h, pc) \/ handler' = [handler EXCEPT ![h] = [@ EXCEPT !.pc = pc, !.seen = seen]],
         UNCHANGED <<api, assessment, attempt, applied, tokens, expiries>>
  PROVE  GradingInv'
<1>1. PICK r \in HandlerRecord :
        /\ handler' = [handler EXCEPT ![h] = r] /\ r.pc = pc /\ r.outcome = handler[h].outcome
        /\ r.req = handler[h].req /\ r.hash = handler[h].hash /\ r.token = handler[h].token
  <2>1. GradingTypeOK
    BY DEF GradingInv
  <2>2. CASE Goto(h, pc)
    BY <2>1, <2>2, WentOn
  <2>3. CASE handler' = [handler EXCEPT ![h] = [@ EXCEPT !.pc = pc, !.seen = seen]]
    BY <2>1, <2>3, Went
  <2> QED
    BY <2>2, <2>3
<1>2. handler[h].outcome = "none"
  BY DEF GradingInv, AnswerOK, Holding, ClaimPhases
<1> QED
  BY <1>1, <1>2, HandlerOnly DEF ClaimPhases

\* In the live service nobody is in a phase of the workflow service.
LEMMA HoldingWorkflow ==
  ASSUME GradingInv, NEW h \in Handlers, handler[h].pc \in {"claiming"} \cup ClaimPhases
  PROVE  api = "workflow"
BY DEF GradingInv, GradingTypeOK, LiveOnce, ClaimPhases

\* Creating an assessment: the content is written once, and a repeated request is answered
\* from the row that is there.
LEMMA CreationSteps ==
  ASSUME GradingInv, NEW h \in Handlers,
         CreateFinds(h) \/ CreateGenerates(h) \/ CreateSaves(h) \/ CreateFails(h)
  PROVE  GradingInv'
<1>1. CASE CreateFinds(h)
  <2>1. PICK hash \in Payloads :
          /\ Exists /\ handler' = [handler EXCEPT ![h] =
                         [Idle EXCEPT !.hash = hash, !.outcome = FoundOutcome(hash)]]
          /\ UNCHANGED <<api, assessment, attempt, applied, tokens, expiries>>
    BY <1>1 DEF CreateFinds, bounds
  <2> DEFINE r == [Idle EXCEPT !.hash = hash, !.outcome = FoundOutcome(hash)]
  <2>2. /\ r \in HandlerRecord /\ r.pc = "idle" /\ r.outcome # "graded"
        /\ r.outcome = "created" => assessment.hash = r.hash
    <3>1. Idle \in HandlerRecord /\ Idle.pc = "idle"
      BY IdleHandler DEF Idle
    <3> QED
      BY <3>1 DEF HandlerRecord, FoundOutcome
  <2> HIDE DEF r
  <2> QED
    BY <2>1, <2>2, HandlerOnly DEF ClaimPhases, r
<1>2. CASE CreateGenerates(h)
  <2>1. PICK hash \in Payloads :
          /\ Call(h, "generating", Idle.req, hash)
          /\ UNCHANGED <<api, assessment, attempt, applied, tokens, expiries>>
    BY <1>2 DEF CreateGenerates, bounds
  <2>2. Idle.req \in Requests /\ GradingTypeOK
    BY IdleHandler DEF HandlerRecord, GradingInv
  <2>3. PICK r \in HandlerRecord :
          handler' = [handler EXCEPT ![h] = r] /\ r.pc = "generating" /\ r.outcome = "none"
    BY <2>1, <2>2, Called
  <2> QED
    BY <2>1, <2>3, HandlerOnly DEF ClaimPhases
<1>3. CASE CreateFails(h)
  BY <1>3, AnswersOnly DEF CreateFails, bounds
<1>4. CASE CreateSaves(h) /\ Exists
  <2>1. CollisionOutcome(handler[h].hash) \in {"created", "conflict", "error"}
        /\ (CollisionOutcome(handler[h].hash) = "created" => assessment.hash = handler[h].hash)
    BY DEF CollisionOutcome, FoundOutcome
  <2> QED
    BY <1>4, <2>1, AnswersOnly DEF CreateSaves, bounds
<1>5. CASE CreateSaves(h) /\ ~Exists
  <2>1. /\ assessment' = [status |-> "active", hash |-> handler[h].hash] /\ Answer(h, "created")
        /\ UNCHANGED <<api, attempt, applied, tokens, expiries>> /\ assessment.status = "none"
    BY <1>5 DEF CreateSaves, bounds, Exists
  <2>2. PICK r \in HandlerRecord :
          /\ handler' = [handler EXCEPT ![h] = r] /\ r.pc = "idle" /\ r.outcome = "created"
          /\ r.req = handler[h].req /\ r.hash = handler[h].hash
    BY <2>1, Answered DEF GradingInv
  <2>3. /\ handler' \in [Handlers -> HandlerRecord] /\ handler'[h] = r
        /\ \A k \in Handlers \ {h} : handler'[k] = handler[k]
        /\ handler[h] \in HandlerRecord
    BY <2>2 DEF GradingInv, GradingTypeOK
  <2>4. GradingTypeOK'
    BY <2>1, <2>3 DEF GradingInv, GradingTypeOK, AssessmentRow, HandlerRecord
  <2>5. LiveOnce'
    BY <2>1, <2>2, <2>3 DEF GradingInv, LiveOnce, At
  <2>6. TokensApart' /\ LeasesKept'
    BY <2>1, <2>2, <2>3 DEF GradingInv, TokensApart, LeasesKept, Holding, Owns, ClaimPhases
  <2>7. ASSUME NEW k \in Handlers PROVE AnswerOK(k)' /\ (api' = "workflow" => ~At(k, "running")')
    BY <2>1, <2>2, <2>3 DEF GradingInv, AnswerOK, Holding, Exists, At, ClaimPhases
  <2> QED
    BY <2>4, <2>5, <2>6, <2>7 DEF GradingInv
<1> QED
  BY <1>1, <1>2, <1>3, <1>4, <1>5

\* Grading in the live service: the row of the assessment is locked from the check of its
\* status to the commit.
LEMMA LiveSteps ==
  ASSUME GradingInv, NEW h \in Handlers,
         (\E r \in Requests : LiveSubmit(h, r)) \/ LiveClaims(h) \/ LiveCommits(h) \/ LiveFails(h)
  PROVE  GradingInv'
<1>1. ASSUME NEW q \in Requests, LiveSubmit(h, q) PROVE GradingInv'
  <2>1. PICK hash \in Payloads :
          /\ IF attempt[q].status = "none"
             THEN Call(h, "waiting", q, hash)
             ELSE handler' = [handler EXCEPT ![h] =
                    [Idle EXCEPT !.req = q, !.hash = hash,
                       !.outcome = IF attempt[q].hash = hash THEN "graded" ELSE "conflict"]]
          /\ UNCHANGED <<api, assessment, attempt, applied, tokens, expiries>>
    BY <1>1 DEF LiveSubmit, bounds
  <2>2. CASE attempt[q].status = "none"
    <3>1. PICK r \in HandlerRecord :
            handler' = [handler EXCEPT ![h] = r] /\ r.pc = "waiting" /\ r.outcome = "none"
      BY <2>1, <2>2, Called DEF GradingInv
    <3> QED
      BY <2>1, <3>1, HandlerOnly DEF ClaimPhases
  <2>3. CASE attempt[q].status # "none"
    <3> DEFINE r == [Idle EXCEPT !.req = q, !.hash = hash,
                       !.outcome = IF attempt[q].hash = hash THEN "graded" ELSE "conflict"]
    <3>1. /\ r \in HandlerRecord /\ r.pc = "idle" /\ r.outcome # "created" /\ r.req = q
          /\ r.outcome = "graded" => attempt[q].hash = r.hash
      <4>1. Idle \in HandlerRecord /\ Idle.pc = "idle"
        BY IdleHandler DEF Idle
      <4> QED
        BY <4>1 DEF HandlerRecord
    <3>2. handler' = [handler EXCEPT ![h] = r]
      BY <2>1, <2>3
    <3> HIDE DEF r
    <3> QED
      BY <2>1, <2>3, <3>1, <3>2, HandlerOnly DEF ClaimPhases
  <2> QED
    BY <2>2, <2>3
<1>2. CASE LiveFails(h)
  BY <1>2, AnswersOnly DEF LiveFails, bounds
<1>3. CASE LiveClaims(h) /\ ~MayClaim
  BY <1>3, AnswersOnly DEF LiveClaims
<1>4. CASE LiveClaims(h) /\ MayClaim
  <2> DEFINE r == [handler[h] EXCEPT !.pc = "running", !.token = tokens']
  <2>1. /\ api = "live" /\ AssessmentFree /\ assessment.status = "active" /\ tokens' = tokens + 1
        /\ handler[h].pc = "waiting" /\ handler' = [handler EXCEPT ![h] = r]
        /\ UNCHANGED <<api, assessment, attempt, applied, expiries>>
    BY <1>4 DEF LiveClaims, MayClaim, At
  <2>2. handler[h] \in HandlerRecord /\ tokens' \in Nat
    BY <2>1 DEF GradingInv, GradingTypeOK
  <2>3. /\ r \in HandlerRecord /\ r.pc = "running" /\ r.outcome = handler[h].outcome
        /\ r.req = handler[h].req /\ r.hash = handler[h].hash
    BY <2>2 DEF HandlerRecord
  <2> HIDE DEF r
  <2>4. /\ handler' \in [Handlers -> HandlerRecord] /\ handler'[h] = r
        /\ \A k \in Handlers \ {h} : handler'[k] = handler[k]
    BY <2>1, <2>3 DEF GradingInv, GradingTypeOK
  <2>5. GradingTypeOK'
    BY <2>1, <2>2, <2>4 DEF GradingInv, GradingTypeOK
  <2>6. LiveOnce'
    BY <2>1, <2>3, <2>4 DEF GradingInv, LiveOnce, At, AssessmentFree, HoldsAssessment
  <2>7. TokensApart' /\ LeasesKept'
    BY <2>1, <2>3, <2>4 DEF GradingInv, TokensApart, LeasesKept, Holding, Owns, ClaimPhases
  <2>8. ASSUME NEW k \in Handlers PROVE AnswerOK(k)' /\ (api' = "workflow" => ~At(k, "running")')
    <3>1. tokens \in Nat
      BY DEF GradingInv, GradingTypeOK
    <3> QED
      <4>1. AnswerOK(k) /\ api = "live"
        BY <2>1 DEF GradingInv
      <4>2. CASE k = h
        BY <2>1, <2>3, <2>4, <4>1, <4>2 DEF AnswerOK, Holding, Exists, ClaimPhases
      <4>3. CASE k # h
        BY <2>1, <2>4, <3>1, <4>1, <4>3 DEF AnswerOK, Holding, Exists
      <4> QED
        BY <4>1, <4>2, <4>3, <2>1
  <2> QED
    BY <2>5, <2>6, <2>7, <2>8 DEF GradingInv
<1>5. CASE LiveCommits(h)
  <2>1. PICK q \in Requests : q = handler[h].req
    BY DEF GradingInv, GradingTypeOK, HandlerRecord
  <2> DEFINE done == [NoAttempt EXCEPT !.status = "graded", !.hash = handler[h].hash,
                                       !.reply = handler[h].token]
  <2>2. /\ handler[h].pc = "running" /\ Answer(h, "graded")
        /\ assessment' = [assessment EXCEPT !.status = "graded"]
        /\ attempt' = [attempt EXCEPT ![q] = done]
        /\ applied' = applied \cup {<<q, handler[h].token>>}
        /\ UNCHANGED <<api, tokens, expiries>>
    BY <1>5, <2>1 DEF LiveCommits, bounds, At
  <2>3. /\ api = "live" /\ assessment.status = "active" /\ applied = {}
        /\ \A r \in Requests : attempt[r].status = "none"
        /\ handler[h] \in HandlerRecord
    BY <2>2 DEF GradingInv, GradingTypeOK, LiveOnce, At
  <2>4. done \in AttemptRow /\ done.status = "graded" /\ done.hash = handler[h].hash
    BY <2>3 DEF AttemptRow, HandlerRecord, NoAttempt, NoToken, Payloads, Done
  <2> HIDE DEF done
  <2>5. PICK r \in HandlerRecord :
          /\ handler' = [handler EXCEPT ![h] = r] /\ r.pc = "idle" /\ r.outcome = "graded"
          /\ r.req = q /\ r.hash = handler[h].hash
    BY <2>1, <2>2, Answered DEF GradingInv
  <2>6. /\ handler' \in [Handlers -> HandlerRecord] /\ handler'[h] = r
        /\ \A k \in Handlers \ {h} : handler'[k] = handler[k]
    BY <2>5 DEF GradingInv, GradingTypeOK
  <2>7. /\ attempt' \in [Requests -> AttemptRow] /\ attempt'[q] = done
        /\ \A r2 \in Requests \ {q} : attempt'[r2] = attempt[r2]
        /\ assessment' \in AssessmentRow /\ assessment'.status = "graded"
        /\ assessment'.hash = assessment.hash /\ handler[h].token \in Nat
    BY <2>2, <2>3, <2>4 DEF GradingInv, GradingTypeOK, AssessmentRow, HandlerRecord, Done
  <2>8. GradingTypeOK'
    BY <2>2, <2>6, <2>7 DEF GradingInv, GradingTypeOK
  <2>9. LiveOnce'
    BY <2>2, <2>3, <2>5, <2>6, <2>7 DEF GradingInv, LiveOnce, At
  <2>10. TokensApart' /\ LeasesKept'
    <3>1. \A k \in Handlers : ~Holding(k)'
      BY <2>3, <2>5, <2>6 DEF GradingInv, LiveOnce, Holding, ClaimPhases
    <3>2. \A r2 \in Requests : attempt'[r2].status # "grading"
      BY <2>3, <2>4, <2>7
    <3>3. applied' = {<<q, handler[h].token>>}
      BY <2>2, <2>3
    <3> QED
      BY <2>4, <2>7, <3>1, <3>2, <3>3 DEF TokensApart, LeasesKept, Done
  <2>11. ASSUME NEW k \in Handlers PROVE AnswerOK(k)' /\ (api' = "workflow" => ~At(k, "running")')
    <3>1. AnswerOK(k) /\ handler[k].req \in Requests /\ ~Holding(k)
      BY <2>3 DEF GradingInv, GradingTypeOK, HandlerRecord, LiveOnce, Holding, ClaimPhases
    <3>2. CASE k = h
      BY <2>2, <2>3, <2>4, <2>5, <2>6, <2>7, <3>2 DEF AnswerOK, Holding, Exists, At, ClaimPhases
    <3>3. CASE k # h
      BY <2>2, <2>3, <2>6, <2>7, <3>1, <3>3 DEF AnswerOK, Holding, Exists, At
    <3> QED
      BY <3>2, <3>3
  <2> QED
    BY <2>8, <2>9, <2>10, <2>11 DEF GradingInv
<1> QED
  BY <1>1, <1>2, <1>3, <1>4, <1>5

\* A claim of the workflow service is granted only when the request's attempt is not there
\* yet or failed, while leases last.
LEMMA ClaimNone ==
  ASSUME GradingInv, NEW r \in Requests, NEW hash, NEW active,
         ClaimVerdict(r, hash, active) = "none"
  PROVE  /\ attempt[r].status # "none" => attempt[r].hash = hash
         /\ attempt[r].status \notin Done
         /\ expiries = 0 => attempt[r].status # "grading"
BY DEF GradingInv, LeasesKept, ClaimVerdict, InProgress

\* What the verdict on a claim says of the rows it was made from.
LEMMA ClaimOther ==
  ASSUME GradingInv, NEW r \in Requests, NEW hash, NEW active
  PROVE  /\ ClaimVerdict(r, hash, active)
              \in {"none", "conflict", "graded", "in_progress", "exhausted"}
         /\ ClaimVerdict(r, hash, active) = "graded" =>
              attempt[r].status # "none" /\ attempt[r].hash = hash
         /\ ClaimVerdict(r, hash, active) = "exhausted" =>
              /\ attempt[r].status # "none" /\ attempt[r].status \notin Done
              /\ expiries = 0 => attempt[r].status # "grading"
BY DEF GradingInv, LeasesKept, ClaimVerdict, InProgress, Done

\* A step that writes the rows of an attempt and of the assessment: it keeps the payloads,
\* and while leases last it leaves the claims of others alone.
Writes(h, q, r, a, s) ==
  /\ handler' = [handler EXCEPT ![h] = r] /\ r \in HandlerRecord
  /\ attempt' = [attempt EXCEPT ![q] = a] /\ a \in AttemptRow
  /\ assessment' = s /\ s \in AssessmentRow /\ UNCHANGED <<api, expiries>>
  /\ tokens' \in Nat /\ tokens <= tokens' /\ applied' \subseteq Requests \X Nat
  /\ r.pc \in {"idle"} \cup ClaimPhases /\ r.outcome # "created"
  /\ r.pc # "idle" => r.outcome = "none"
  /\ s.status # "none" /\ (Exists => s.hash = assessment.hash)
  /\ a.status # "none" /\ (attempt[q].status # "none" => a.hash = attempt[q].hash)
  /\ r.outcome = "graded" => r.req = q /\ r.hash = a.hash
  /\ r.pc \in ClaimPhases =>
       /\ r.req = q /\ r.hash = a.hash /\ r.token \in (tokens + 1)..tokens'
       /\ a.status = "grading" /\ a.token = r.token
  /\ expiries = 0 =>
       /\ \A k \in Handlers \ {h} : Holding(k) => handler[k].req # q
       /\ attempt[q].status \in Done => a.status \in Done
       /\ a.status = "grading" => a.leased
       /\ \A f, g \in applied' : f[1] = g[1] => f = g
       /\ \A g \in applied' \ applied : g[1] = q /\ a.status \in Done

\* A step that writes rows the way Writes says keeps the whole invariant.
LEMMA RowsWritten ==
  ASSUME GradingInv, api = "workflow", NEW h \in Handlers, NEW q \in Requests,
         NEW r, NEW a, NEW s, Writes(h, q, r, a, s)
  PROVE  GradingInv'
<1> USE DEF Writes
<1>1. /\ handler' \in [Handlers -> HandlerRecord] /\ handler'[h] = r
      /\ \A k \in Handlers \ {h} : handler'[k] = handler[k]
      /\ attempt' \in [Requests -> AttemptRow] /\ attempt'[q] = a
      /\ \A p \in Requests \ {q} : attempt'[p] = attempt[p]
      /\ \A k \in Handlers : handler[k].req \in Requests
      /\ applied \subseteq Requests \X Nat /\ tokens \in Nat
  BY DEF GradingInv, GradingTypeOK, HandlerRecord
<1>2. GradingTypeOK'
  BY <1>1 DEF GradingInv, GradingTypeOK
<1>3. LiveOnce'
  BY DEF LiveOnce
<1>4. ASSUME NEW k \in Handlers, NEW l \in Handlers, Holding(k)', Holding(l)',
             handler'[k].token = handler'[l].token
      PROVE  k = l
  <2>1. \A m \in Handlers : Holding(m) => handler[m].token \in 1..tokens
    BY DEF GradingInv, AnswerOK
  <2>2. CASE k # h /\ l # h
    BY <1>1, <1>4, <2>2 DEF GradingInv, TokensApart, Holding
  <2>3. CASE k = h /\ l # h
    <3>1. Holding(l) /\ handler[l].token = r.token
      BY <1>1, <1>4, <2>3 DEF Holding
    <3> QED
      BY <1>1, <1>4, <2>1, <2>3, <3>1 DEF Holding
  <2>4. CASE k # h /\ l = h
    <3>1. Holding(k) /\ handler[k].token = r.token
      BY <1>1, <1>4, <2>4 DEF Holding
    <3> QED
      BY <1>1, <1>4, <2>1, <2>4, <3>1 DEF Holding
  <2> QED
    BY <2>2, <2>3, <2>4
<1>5. ASSUME expiries = 0 PROVE LeasesKept'
  <2>1. \A p \in Requests : attempt'[p].status = "grading" => attempt'[p].leased
    BY <1>1, <1>5 DEF GradingInv, LeasesKept
  <2>2. ASSUME NEW k \in Handlers, Holding(k)' PROVE Owns(k)'
    <3>1. CASE k = h
      BY <1>1, <2>2, <3>1 DEF Holding, Owns
    <3>2. CASE k # h
      BY <1>1, <1>5, <2>2, <3>2 DEF GradingInv, LeasesKept, Holding, Owns
    <3> QED
      BY <3>1, <3>2
  <2>3. ASSUME NEW g \in applied' PROVE attempt'[g[1]].status \in Done
    <3>1. CASE g \notin applied
      BY <1>1, <1>5, <2>3, <3>1
    <3>2. CASE g \in applied
      <4>1. attempt[g[1]].status \in Done /\ g[1] \in Requests
        BY <1>1, <1>5, <3>2 DEF GradingInv, LeasesKept
      <4> QED
        BY <1>1, <1>5, <4>1
    <3> QED
      BY <3>1, <3>2
  <2> QED
    BY <1>5, <2>1, <2>2, <2>3 DEF LeasesKept
<1>6. ASSUME NEW k \in Handlers PROVE AnswerOK(k)' /\ (api' = "workflow" => ~At(k, "running")')
  <2>1. AnswerOK(k) /\ ~At(k, "running")
    BY DEF GradingInv
  <2>2. CASE k = h
    <3>1. r.token \in (tokens + 1)..tokens' => r.token \in 1..tokens'
      BY <1>1
    <3>2. r.outcome = "graded" \/ r.pc \in ClaimPhases =>
             attempt'[r.req].status # "none" /\ attempt'[r.req].hash = r.hash
      BY <1>1
    <3>3. r.pc # "running" /\ r.outcome # "created" /\ (r.pc # "idle" => r.outcome = "none")
      BY DEF ClaimPhases
    <3>4. r.pc \in ClaimPhases => r.token \in 1..tokens'
      BY <3>1
    <3> QED
      BY <1>1, <2>2, <3>2, <3>3, <3>4 DEF AnswerOK, Holding, At
  <2>3. CASE k # h
    BY <1>1, <2>1, <2>3 DEF AnswerOK, Holding, Exists, At
  <2> QED
    BY <2>2, <2>3
<1> QED
  BY <1>2, <1>3, <1>4, <1>5, <1>6 DEF GradingInv, TokensApart, LeasesKept

\* While leases last, the handler that holds a claim is alone with its attempt.
LEMMA OthersElsewhere ==
  ASSUME GradingInv, NEW h \in Handlers, Holding(h), expiries = 0
  PROVE  /\ attempt[handler[h].req].status = "grading"
         /\ \A k \in Handlers \ {h} : Holding(k) => handler[k].req # handler[h].req
BY DEF GradingInv, TokensApart, LeasesKept, Owns

\* Claiming an attempt: the request id first, then the assessment, then the row of the claim.
LEMMA ClaimSteps ==
  ASSUME GradingInv, NEW h \in Handlers,
         \/ \E r \in Requests : ClaimBegins(h, r)
         \/ ClaimLocksAssessment(h) \/ ClaimRefused(h) \/ ClaimGranted(h)
  PROVE  GradingInv'
<1>0. GradingTypeOK /\ handler[h] \in HandlerRecord /\ handler[h].req \in Requests /\ tokens \in Nat
      /\ attempt[handler[h].req] \in AttemptRow /\ assessment \in AssessmentRow
  BY DEF GradingInv, GradingTypeOK, HandlerRecord
<1>1. ASSUME NEW q \in Requests, ClaimBegins(h, q) PROVE GradingInv'
  <2>1. PICK hash \in Payloads : /\ Call(h, "waiting", q, hash)
                                 /\ UNCHANGED <<api, assessment, attempt, applied, tokens, expiries>>
    BY <1>1 DEF ClaimBegins, bounds
  <2>2. PICK r \in HandlerRecord :
          handler' = [handler EXCEPT ![h] = r] /\ r.pc = "waiting" /\ r.outcome = "none"
    BY <1>0, <2>1, Called
  <2> QED
    BY <2>1, <2>2, HandlerOnly DEF ClaimPhases
<1>2. CASE ClaimLocksAssessment(h)
  BY <1>2, GoesOnly DEF ClaimLocksAssessment, At, bounds
<1>3. CASE ClaimRefused(h)
  <2>1. PICK q \in Requests : q = handler[h].req
    BY <1>0
  <2>2. PICK active : LET verdict == ClaimVerdict(q, handler[h].hash, active) IN
          /\ verdict # "none" /\ Answer(h, verdict)
          /\ IF verdict = "exhausted"
             THEN /\ attempt' = [attempt EXCEPT ![q].status = "failed"]
                  /\ assessment' = [assessment EXCEPT !.status = "active"]
             ELSE UNCHANGED <<attempt, assessment>>
    BY <1>3, <2>1 DEF ClaimRefused
  <2>3. PICK verdict \in {"conflict", "graded", "in_progress", "exhausted"} :
          verdict = ClaimVerdict(q, handler[h].hash, active)
    BY <2>2, ClaimOther
  <2>4. UNCHANGED <<api, applied, tokens, expiries>> /\ api = "workflow"
    BY <1>3 DEF ClaimRefused, bounds
  <2>5. CASE verdict # "exhausted"
    BY <2>1, <2>2, <2>3, <2>4, <2>5, ClaimOther, AnswersOnly
  <2>6. CASE verdict = "exhausted"
    <3> DEFINE a == [attempt[q] EXCEPT !.status = "failed"]
               s == [assessment EXCEPT !.status = "active"]
    <3>1. PICK r \in HandlerRecord : /\ handler' = [handler EXCEPT ![h] = r] /\ r.pc = "idle"
                                     /\ r.outcome = "exhausted"
      BY <1>0, <2>2, <2>3, <2>6, Answered
    <3>2. a \in AttemptRow /\ a.status = "failed" /\ a.hash = attempt[q].hash
      BY <1>0, <2>1 DEF AttemptRow
    <3>3. s \in AssessmentRow /\ s.status = "active" /\ s.hash = assessment.hash
      BY <1>0 DEF AssessmentRow
    <3>4. attempt' = [attempt EXCEPT ![q] = a] /\ assessment' = s
      BY <2>2, <2>3, <2>6
    <3>5. /\ attempt[q].status \notin Done
          /\ expiries = 0 => attempt[q].status # "grading"
      <4>1. ClaimVerdict(q, handler[h].hash, active) = "exhausted"
        BY <2>3, <2>6
      <4> QED
        BY <4>1, ClaimOther
    <3>6. expiries = 0 => \A k \in Handlers : Holding(k) => handler[k].req # q
      BY <3>5 DEF GradingInv, LeasesKept, Owns
    <3>7. applied \subseteq Requests \X Nat
          /\ (expiries = 0 => \A f, g \in applied : f[1] = g[1] => f = g)
      BY DEF GradingInv, GradingTypeOK, LeasesKept
    <3> HIDE DEF a, s
    <3>8. Writes(h, q, r, a, s)
      BY <1>0, <2>4, <3>1, <3>2, <3>3, <3>4, <3>5, <3>6, <3>7 DEF Writes, ClaimPhases, Done
    <3> QED
      BY <2>4, <3>8, RowsWritten
  <2> QED
    BY <2>5, <2>6
<1>4. CASE ClaimGranted(h)
  <2>1. PICK q \in Requests : q = handler[h].req
    BY <1>0
  <2>2. PICK active : ClaimVerdict(q, handler[h].hash, active) = "none"
    BY <1>4, <2>1 DEF ClaimGranted
  <2> DEFINE a == Claimed(q, handler[h].hash, tokens + 1)
             s == ClaimedAssessment(q)
             r == [handler[h] EXCEPT !.pc = "claimed", !.token = tokens + 1]
  <2>3. /\ api = "workflow" /\ tokens' = tokens + 1 /\ attempt' = [attempt EXCEPT ![q] = a]
        /\ assessment' = s /\ handler' = [handler EXCEPT ![h] = r]
        /\ UNCHANGED <<api, applied, expiries>> /\ handler[h].pc = "claiming"
    BY <1>4, <2>1 DEF ClaimGranted, At
  <2>4. /\ a \in AttemptRow /\ a.status = "grading" /\ a.hash = handler[h].hash
        /\ a.token = tokens + 1 /\ a.leased
    <3>1. attempt[q] \in AttemptRow /\ handler[h].hash \in Payloads /\ tokens + 1 \in Nat
      <4>1. attempt[q] \in AttemptRow
        BY DEF GradingInv, GradingTypeOK
      <4>2. handler[h].hash \in Payloads
        BY <1>0 DEF HandlerRecord
      <4> QED
        BY <1>0, <4>1, <4>2
    <3>2. attempt[q].count + 1 \in Nat
      BY <3>1 DEF AttemptRow
    <3> QED
      BY <3>1, <3>2 DEF Claimed, AttemptRow
  <2>5. s \in AssessmentRow /\ s.status = "grading" /\ s.hash = assessment.hash
    BY <1>0 DEF ClaimedAssessment, AssessmentRow
  <2>6. /\ r \in HandlerRecord /\ r.pc = "claimed" /\ r.token = tokens + 1 /\ r.req = q
        /\ r.hash = handler[h].hash /\ r.outcome = handler[h].outcome
    <3>1. handler[h] \in HandlerRecord /\ tokens + 1 \in Nat /\ handler[h].req = q
      BY <1>0, <2>1
    <3> HIDE DEF a, s
    <3> QED
      BY <3>1 DEF HandlerRecord
  <2>7. /\ attempt[q].status \notin Done /\ (attempt[q].status # "none" => attempt[q].hash = a.hash)
        /\ expiries = 0 => attempt[q].status # "grading"
    BY <2>2, <2>4, ClaimNone
  <2>8. expiries = 0 => \A k \in Handlers : Holding(k) => handler[k].req # q
    BY <2>7 DEF GradingInv, LeasesKept, Owns
  <2>9. applied \subseteq Requests \X Nat
        /\ (expiries = 0 => \A f, g \in applied : f[1] = g[1] => f = g)
    BY DEF GradingInv, GradingTypeOK, LeasesKept
  <2>10. handler[h].outcome = "none"
    BY <2>3 DEF GradingInv, AnswerOK
  <2> HIDE DEF a, s, r
  <2>11. Writes(h, q, r, a, s)
    BY <1>0, <2>3, <2>4, <2>5, <2>6, <2>7, <2>8, <2>9, <2>10 DEF Writes, ClaimPhases
  <2> QED
    BY <2>3, <2>11, RowsWritten
<1> QED
  BY <1>1, <1>2, <1>3, <1>4

\* What a grading writes: its own attempt, which it holds while its lease lasts.
LEMMA EndSteps ==
  ASSUME GradingInv, NEW h \in Handlers, Finalize(h) \/ FailClaim(h)
  PROVE  GradingInv'
<1>0. /\ GradingTypeOK /\ handler[h] \in HandlerRecord /\ handler[h].req \in Requests
      /\ tokens \in Nat /\ attempt[handler[h].req] \in AttemptRow /\ assessment \in AssessmentRow
      /\ handler[h].token \in Nat
  BY DEF GradingInv, GradingTypeOK, HandlerRecord
<1>1. handler[h].pc \in {"finalizing", "releasing"} /\ Holding(h)
  BY DEF Finalize, FailClaim, At, Holding, ClaimPhases
<1>2. api = "workflow"
  BY <1>1, HoldingWorkflow DEF Holding
<1>3. PICK q \in Requests : q = handler[h].req
  BY <1>0
<1>4. attempt[q].status # "none" /\ attempt[q].hash = handler[h].hash /\ attempt[q] \in AttemptRow
  BY <1>0, <1>1, <1>3 DEF GradingInv, AnswerOK
<1>5. applied \subseteq Requests \X Nat
      /\ (expiries = 0 => /\ \A f, g \in applied : f[1] = g[1] => f = g
                          /\ attempt[q].status = "grading"
                          /\ \A g \in applied : g[1] # q
                          /\ \A k \in Handlers \ {h} : Holding(k) => handler[k].req # q)
  <2>1. applied \subseteq Requests \X Nat
        /\ (expiries = 0 => \A f, g \in applied : f[1] = g[1] => f = g)
        /\ (expiries = 0 => \A g \in applied : attempt[g[1]].status \in Done)
    BY DEF GradingInv, GradingTypeOK, LeasesKept
  <2> QED
    BY <1>1, <1>3, <2>1, OthersElsewhere DEF Done
<1>6. CASE Finalize(h)
  <2>1. PICK status \in Done :
          /\ assessment' = [assessment EXCEPT !.status = status]
          /\ attempt' = [attempt EXCEPT ![q] =
               [@ EXCEPT !.status = status, !.token = NoToken, !.leased = FALSE,
                         !.reply = handler[h].token]]
    BY <1>3, <1>6 DEF Finalize
  <2> DEFINE a == [attempt[q] EXCEPT !.status = status, !.token = NoToken, !.leased = FALSE,
                                     !.reply = handler[h].token]
             s == [assessment EXCEPT !.status = status]
  <2>2. /\ applied' = applied \cup {<<q, handler[h].token>>} /\ Answer(h, "graded")
        /\ UNCHANGED <<api, tokens, expiries>>
    BY <1>3, <1>6 DEF Finalize, bounds
  <2>3. PICK r \in HandlerRecord :
          /\ handler' = [handler EXCEPT ![h] = r] /\ r.pc = "idle" /\ r.outcome = "graded"
          /\ r.req = q /\ r.hash = handler[h].hash
    BY <1>0, <1>3, <2>2, Answered
  <2>4. a \in AttemptRow /\ a.status = status /\ a.hash = attempt[q].hash
    BY <1>0, <1>4 DEF AttemptRow, NoToken
  <2>5. s \in AssessmentRow /\ s.status = status /\ s.hash = assessment.hash
    BY <1>0 DEF AssessmentRow
  <2>6. attempt' = [attempt EXCEPT ![q] = a] /\ assessment' = s
    BY <2>1
  <2> HIDE DEF a, s
  <2>7. expiries = 0 => \A f, g \in applied' : f[1] = g[1] => f = g
    BY <1>5, <2>2
  <2>8. applied' \subseteq Requests \X Nat /\ \A g \in applied' \ applied : g[1] = q
    BY <1>0, <1>5, <2>2
  <2>9. Writes(h, q, r, a, s)
    BY <1>0, <1>4, <1>5, <2>2, <2>3, <2>4, <2>5, <2>6, <2>7, <2>8
       DEF Writes, ClaimPhases, Done
  <2> QED
    BY <1>2, <2>9, RowsWritten
<1>7. CASE FailClaim(h) /\ handler[h].seen
  <2> DEFINE a == [attempt[q] EXCEPT !.status = "failed", !.token = NoToken, !.leased = FALSE]
             s == [assessment EXCEPT !.status = "active"]
  <2>1. /\ attempt' = [attempt EXCEPT ![q] = a] /\ assessment' = s /\ Answer(h, "error")
        /\ UNCHANGED <<api, applied, tokens, expiries>>
    BY <1>3, <1>7 DEF FailClaim, bounds
  <2>2. PICK r \in HandlerRecord :
          handler' = [handler EXCEPT ![h] = r] /\ r.pc = "idle" /\ r.outcome = "error"
    BY <1>0, <2>1, Answered
  <2>3. a \in AttemptRow /\ a.status = "failed" /\ a.hash = attempt[q].hash
    BY <1>4 DEF AttemptRow, NoToken
  <2>4. s \in AssessmentRow /\ s.status = "active" /\ s.hash = assessment.hash
    BY <1>0 DEF AssessmentRow
  <2> HIDE DEF a, s
  <2>5. Writes(h, q, r, a, s)
    BY <1>0, <1>4, <1>5, <2>1, <2>2, <2>3, <2>4 DEF Writes, ClaimPhases, Done
  <2> QED
    BY <1>2, <2>5, RowsWritten
<1>8. CASE FailClaim(h) /\ ~handler[h].seen
  BY <1>8, AnswersOnly DEF FailClaim, bounds
<1> QED
  BY <1>6, <1>7, <1>8

\* A lease that runs out is only marked so; nothing else changes.
LEMMA LeaseStep ==
  ASSUME GradingInv, NEW q \in Requests, LeaseExpires(q)
  PROVE  GradingInv'
<1> DEFINE a == [attempt[q] EXCEPT !.leased = FALSE]
<1>1. attempt[q] \in AttemptRow /\ expiries \in Nat
  BY DEF GradingInv, GradingTypeOK
<1>2. a \in AttemptRow /\ a.status = attempt[q].status /\ a.hash = attempt[q].hash
  BY <1>1 DEF AttemptRow
<1>3. /\ attempt' = [attempt EXCEPT ![q] = a] /\ expiries' = expiries + 1
      /\ UNCHANGED <<api, assessment, handler, applied, tokens>>
      /\ attempt[q].status = "grading"
  BY DEF LeaseExpires, InProgress
<1> HIDE DEF a
<1>4. /\ attempt' \in [Requests -> AttemptRow]
      /\ \A p \in Requests : /\ attempt'[p].status = attempt[p].status
                             /\ attempt'[p].hash = attempt[p].hash
  BY <1>2, <1>3 DEF GradingInv, GradingTypeOK
<1>5. GradingTypeOK'
  BY <1>1, <1>3, <1>4 DEF GradingInv, GradingTypeOK
<1>6. LiveOnce' /\ TokensApart'
  BY <1>3, <1>4 DEF GradingInv, LiveOnce, TokensApart, Holding, At
<1>7. LeasesKept'
  BY <1>1, <1>3 DEF LeasesKept
<1>8. ASSUME NEW k \in Handlers PROVE AnswerOK(k)' /\ (api' = "workflow" => ~At(k, "running")')
  <2>1. handler[k].req \in Requests
    BY DEF GradingInv, GradingTypeOK, HandlerRecord
  <2> QED
    BY <1>3, <1>4, <2>1 DEF GradingInv, AnswerOK, Holding, Exists, At
<1> QED
  BY <1>5, <1>6, <1>7, <1>8 DEF GradingInv

\* Phases of a grading that write no row, and the ways a handler is cut off.
LEMMA PhaseSteps ==
  ASSUME GradingInv, NEW h \in Handlers,
         \/ LoadClaim(h) \/ GradeReturns(h) \/ GradeRaises(h) \/ FinalizeRaises(h)
         \/ FailLocksAttempt(h) \/ Crash(h) \/ ClaimAborted(h) \/ EndAborted(h)
  PROVE  GradingInv'
<1>1. UNCHANGED <<api, assessment, attempt, applied, tokens, expiries>>
  BY DEF LoadClaim, GradeReturns, GradeRaises, FinalizeRaises, FailLocksAttempt, Crash,
    ClaimAborted, EndAborted, bounds
<1>2. Owns(h) \in BOOLEAN /\ handler[h].seen \in BOOLEAN
  BY DEF Owns, GradingInv, GradingTypeOK, HandlerRecord
<1>3. CASE Crash(h) \/ ClaimAborted(h)
  BY <1>1, <1>3, AnswersOnly DEF Crash, ClaimAborted
<1>4. CASE EndAborted(h)
  <2>1. handler[h].pc \in {"finalizing", "releasing"}
    BY <1>4 DEF EndAborted, Deadlock
  <2>2. CASE Answer(h, "error")
    BY <1>1, <2>2, AnswersOnly
  <2>3. CASE Goto(h, "failing fresh")
    <3>1. Holding(h) /\ api = "workflow"
      BY <2>1, HoldingWorkflow DEF Holding, ClaimPhases
    <3> QED
      BY <1>1, <2>3, <3>1, GoesOnly DEF ClaimPhases
  <2> QED
    BY <1>4, <2>2, <2>3 DEF EndAborted
<1>5. CASE LoadClaim(h) \/ GradeReturns(h) \/ GradeRaises(h) \/ FinalizeRaises(h)
           \/ FailLocksAttempt(h)
  <2>1. Holding(h) /\ api = "workflow"
    <3>1. Holding(h)
      BY <1>5 DEF LoadClaim, GradeReturns, GradeRaises, FinalizeRaises, FailLocksAttempt, At,
        Holding, ClaimPhases
    <3> QED
      BY <3>1, HoldingWorkflow DEF Holding
  <2>2. CASE LoadClaim(h)
    <3>1. handler' = [handler EXCEPT ![h] = [@ EXCEPT !.pc = "grading", !.seen = Owns(h)]]
      BY <2>2 DEF LoadClaim
    <3> QED
      BY <1>1, <1>2, <2>1, <3>1, GoesOnly DEF ClaimPhases
  <2>3. CASE FailLocksAttempt(h)
    <3>1. PICK seen \in BOOLEAN : seen = IF At(h, "failing") THEN handler[h].seen ELSE Owns(h)
      BY <1>2
    <3>2. handler' = [handler EXCEPT ![h] = [@ EXCEPT !.pc = "releasing", !.seen = seen]]
      <4>1. CASE At(h, "failing")
        BY <2>3, <3>1, <4>1 DEF FailLocksAttempt
      <4>2. CASE ~At(h, "failing")
        BY <2>3, <3>1, <4>2 DEF FailLocksAttempt
      <4> QED
        BY <4>1, <4>2
    <3> QED
      BY <1>1, <2>1, <3>2, GoesOnly DEF ClaimPhases
  <2>4. ASSUME NEW pc \in ClaimPhases, Goto(h, pc) PROVE GradingInv'
    BY <1>1, <2>1, <2>4, GoesOnly DEF ClaimPhases
  <2> QED
    BY <1>5, <2>2, <2>3, <2>4 DEF GradeReturns, GradeRaises, FinalizeRaises, ClaimPhases
<1> QED
  BY <1>3, <1>4, <1>5

\* Every step of the grading, in either service, keeps the invariant.
LEMMA GradingInductive == GradingInv /\ [AssessmentNext]_gradingVars => GradingInv'
<1> SUFFICES ASSUME GradingInv, [AssessmentNext]_gradingVars PROVE GradingInv'
  OBVIOUS
<1>1. CASE UNCHANGED gradingVars
  BY <1>1 DEF gradingVars, GradingInv, GradingTypeOK, LiveOnce, TokensApart, LeasesKept, AnswerOK,
    Holding, Owns, Exists, At
<1>2. CASE AssessmentNext
  BY <1>2, CreationSteps, LiveSteps, ClaimSteps, EndSteps, LeaseStep, PhaseSteps
     DEF AssessmentNext
<1> QED
  BY <1>1, <1>2

\* The invariant of the grading holds in every reachable state, for any handlers, requests
\* and bounds.
THEOREM GradingAlways == AssessmentSpec => []GradingInv
BY GradingInitially, GradingInductive, PTL DEF AssessmentSpec

\* A set whose members are all equal has at most one.
LEMMA AtMostOne ==
  ASSUME NEW S, \A x, y \in S : x = y
  PROVE  IsFiniteSet(S) /\ Cardinality(S) <= 1
<1>1. CASE S = {}
  BY <1>1, FS_EmptySet
<1>2. CASE S # {}
  <2>1. PICK x \in S : S = {x}
    BY <1>2
  <2>2. IsFiniteSet({x}) /\ Cardinality({x}) = 1
    BY FS_Singleton
  <2> QED
    BY <2>1, <2>2
<1> QED
  BY <1>1, <1>2

\* However the submissions are repeated, interleaved, refused or interrupted, the answers of a
\* request id are graded at most once while no lease has run out, and the assessment itself at
\* most once in the live service.
THEOREM GradedOnceAlways == AssessmentSpec => []GradedOnce
<1>1. GradingInv => GradedOnce
  <2> SUFFICES ASSUME GradingInv PROVE GradedOnce
    OBVIOUS
  <2>1. ASSUME expiries = 0, NEW r \in Requests
        PROVE  Cardinality({g \in applied : g[1] = r}) <= 1
    <3>1. \A f, g \in {g \in applied : g[1] = r} : f = g
      BY <2>1 DEF GradingInv, LeasesKept
    <3> QED
      BY <3>1, AtMostOne
  <2>2. ASSUME api = "live" PROVE Cardinality(applied) <= 1
    <3>1. \A f, g \in applied : f = g
      BY <2>2 DEF GradingInv, LiveOnce
    <3> QED
      BY <3>1, AtMostOne
  <2> QED
    BY <2>1, <2>2 DEF GradedOnce
<1> QED
  BY <1>1, GradingAlways, PTL

\* As long as no lease has run out, the handler that took a claim still has it when its
\* grader answers.
THEOREM ClaimAlwaysKept == AssessmentSpec => []ClaimKeptUnderLease
<1>1. GradingInv => ClaimKeptUnderLease
  BY DEF GradingInv, LeasesKept, ClaimKeptUnderLease, Holding, ClaimPhases
<1> QED
  BY <1>1, GradingAlways, PTL

\* A handler answers with an assessment or a result only for the payload that was sent to it.
THEOREM AnswersAlwaysMatch == AssessmentSpec => []AnswersMatchPayload
<1>1. GradingInv => AnswersMatchPayload
  BY DEF GradingInv, AnswerOK, AnswersMatchPayload
<1> QED
  BY <1>1, GradingAlways, PTL

-----------------------------------------------------------------------------
(* Plans and the tasks copied from one to the next. *)

PlanRow == [status : {"active", "replaced"}, by : {"diagnosis", "adjustment", "reassess"},
            from : Nat]
TaskRows == [plan : Nat, status : {"pending", "active", "completing", "completed"},
             session : {"none", "active", "completed"}, of : Nat]
AdjustmentRow == [base : Nat, status : {"proposed", "applied", "rejected", "expired"},
                  late : BOOLEAN]
CallerRecord == [pc : {"idle", "proposing", "accepting", "expiring", "rejecting", "claimed",
                       "recording", "restoring", "generating"}, at : Nat]

PlanTypeOK ==
  /\ plans \in Seq(PlanRow) /\ activePlan \in Nat /\ tasks \in Seq(TaskRows)
  /\ adjustments \in Seq(AdjustmentRow) /\ caller \in [Callers -> CallerRecord]

\* The plan in force is the last one.
LastPlanActive ==
  /\ activePlan = Len(plans) /\ activePlan # 0
  /\ \A v \in DOMAIN plans : plans[v].status = "active" <=> v = activePlan

\* A request goes on with a row that is there.
CallerOK(c) ==
  /\ caller[c].pc \in {"accepting", "expiring", "rejecting"} => caller[c].at \in DOMAIN adjustments
  /\ caller[c].pc \in {"claimed", "recording", "restoring"} => caller[c].at \in DOMAIN tasks

MadeFor(v) ==
  plans[v].by = "adjustment" =>
    plans[v].from \in DOMAIN adjustments /\ adjustments[plans[v].from].base = v - 1

\* A task belongs to a plan; while its session is open, no reassessment came after that plan.
TaskPlanned(t) ==
  /\ tasks[t].plan \in 1..activePlan
  /\ tasks[t].session = "active" =>
       \A v \in DOMAIN plans : v > tasks[t].plan => plans[v].by # "reassess"

\* A copy belongs to a later plan than its open original.
CopyLater(u) ==
  tasks[u].of # None =>
    /\ tasks[u].of \in DOMAIN tasks /\ Open(tasks[u].of)
    /\ tasks[tasks[u].of].plan < tasks[u].plan

PlanInv ==
  /\ PlanTypeOK /\ LastPlanActive
  /\ \A c \in Callers : CallerOK(c)
  /\ \A v \in DOMAIN plans : MadeFor(v)
  /\ \A t \in DOMAIN tasks : TaskPlanned(t) /\ CopyLater(t)

\* The learner begins with a plan of the diagnosis in force.
LEMMA PlanInitially == PlanInit => PlanInv
<1> SUFFICES ASSUME PlanInit PROVE PlanInv
  OBVIOUS
<1>1. PlanTypeOK
  <2>1. plans \in Seq(PlanRow) /\ activePlan \in Nat
    BY DEF PlanInit, PlanRow, None
  <2>2. tasks \in Seq(TaskRows)
    BY DEF PlanInit, TaskRows, None
  <2>3. Proposal \in AdjustmentRow
    BY <2>1 DEF Proposal, AdjustmentRow
  <2>4. adjustments \in Seq(AdjustmentRow)
    <3>1. <<Proposal>> \in Seq(AdjustmentRow) /\ <<>> \in Seq(AdjustmentRow)
      BY <2>3
    <3> QED
      BY <3>1 DEF PlanInit
  <2>5. Ready \in CallerRecord
    BY DEF Ready, CallerRecord, None
  <2> QED
    BY <2>1, <2>2, <2>4, <2>5 DEF PlanInit, PlanTypeOK
<1>2. LastPlanActive
  BY DEF PlanInit, LastPlanActive
<1>3. \A c \in Callers : CallerOK(c)
  BY DEF PlanInit, CallerOK, Ready
<1>4. \A v \in DOMAIN plans : MadeFor(v)
  BY DEF PlanInit, MadeFor
<1>5. \A t \in DOMAIN tasks : TaskPlanned(t) /\ CopyLater(t)
  BY DEF PlanInit, TaskPlanned, CopyLater
<1> QED
  BY <1>1, <1>2, <1>3, <1>4, <1>5 DEF PlanInv

\* The proposals that were made stay, each for the plan it was made for.
BasesKept ==
  /\ adjustments' \in Seq(AdjustmentRow)
  /\ \A a \in DOMAIN adjustments :
       a \in DOMAIN adjustments' /\ adjustments'[a].base = adjustments[a].base

\* A step that leaves the proposals alone keeps their bases.
LEMMA BasesUnchanged == PlanTypeOK /\ UNCHANGED adjustments => BasesKept
BY DEF PlanTypeOK, BasesKept

\* A decision changes the status of a proposal and leaves its base.
LEMMA Decided ==
  ASSUME PlanTypeOK, NEW a \in DOMAIN adjustments,
         NEW status \in {"applied", "rejected", "expired"},
         adjustments' = [adjustments EXCEPT ![a].status = status]
  PROVE  BasesKept
<1> DEFINE r == [adjustments[a] EXCEPT !.status = status]
<1>1. adjustments[a] \in AdjustmentRow
  BY DEF PlanTypeOK
<1>2. r \in AdjustmentRow /\ r.base = adjustments[a].base
  BY <1>1 DEF AdjustmentRow
<1>3. adjustments' = [adjustments EXCEPT ![a] = r]
  OBVIOUS
<1> QED
  BY <1>2, <1>3 DEF PlanTypeOK, BasesKept

\* A new proposal leaves those before it as they are.
LEMMA Proposed ==
  ASSUME PlanTypeOK, NEW row \in AdjustmentRow, adjustments' = Append(adjustments, row)
  PROVE  BasesKept
BY DEF PlanTypeOK, BasesKept

\* A request that ends, or goes on with another row, leaves the others where they are.
LEMMA Returned ==
  ASSUME PlanInv, NEW c \in Callers, Return(c), BasesKept,
         DOMAIN tasks \subseteq DOMAIN tasks'
  PROVE  caller' \in [Callers -> CallerRecord] /\ \A d \in Callers : CallerOK(d)'
<1>1. Ready \in CallerRecord
  BY DEF Ready, CallerRecord, None
<1> QED
  BY <1>1 DEF PlanInv, PlanTypeOK, Return, CallerOK, Ready, BasesKept

\* A request goes on with rows that are there.
LEMMA Entered ==
  ASSUME PlanInv, NEW c \in Callers, NEW r \in CallerRecord,
         caller' = [caller EXCEPT ![c] = r], BasesKept,
         r.pc \in {"accepting", "expiring", "rejecting"} => r.at \in DOMAIN adjustments,
         r.pc \in {"claimed", "recording", "restoring"} => r.at \in DOMAIN tasks,
         DOMAIN tasks \subseteq DOMAIN tasks'
  PROVE  caller' \in [Callers -> CallerRecord] /\ \A d \in Callers : CallerOK(d)'
BY DEF PlanInv, PlanTypeOK, CallerOK, BasesKept

\* A step that keeps the plans: a session opens, and a task is completed, in the plan in
\* force only.
LEMMA PlansKept ==
  ASSUME PlanInv, UNCHANGED <<plans, activePlan>>, BasesKept,
         caller' \in [Callers -> CallerRecord] /\ \A d \in Callers : CallerOK(d)',
         tasks' \in Seq(TaskRows), DOMAIN tasks' = DOMAIN tasks,
         \A t \in DOMAIN tasks :
           /\ tasks'[t].plan = tasks[t].plan /\ tasks'[t].of = tasks[t].of
           /\ tasks'[t].session = "active" =>
                tasks[t].session = "active" \/ tasks[t].plan = activePlan
           /\ tasks'[t].status = "completed" =>
                tasks[t].status = "completed" \/ tasks[t].plan = activePlan
  PROVE  PlanInv'
<1>1. PlanTypeOK' /\ LastPlanActive'
  BY DEF PlanInv, PlanTypeOK, LastPlanActive, BasesKept
<1>2. \A v \in DOMAIN plans' : MadeFor(v)'
  BY DEF PlanInv, MadeFor, BasesKept
<1>3. ASSUME NEW t \in DOMAIN tasks' PROVE TaskPlanned(t)'
  BY <1>3 DEF PlanInv, PlanTypeOK, LastPlanActive, TaskPlanned
<1>4. ASSUME NEW t \in DOMAIN tasks' PROVE CopyLater(t)'
  <2>1. CopyLater(t) /\ TaskPlanned(t)
    BY <1>4 DEF PlanInv
  <2> QED
    BY <1>4, <2>1 DEF CopyLater, TaskPlanned, Open, PlanInv, PlanTypeOK
<1> QED
  BY <1>1, <1>2, <1>3, <1>4 DEF PlanInv

\* The tasks of a new plan: new ones, or copies of open tasks of the plan it replaces.
NewTasks(rows) ==
  /\ rows \in Seq(TaskRows)
  /\ \A i \in DOMAIN rows :
       /\ rows[i].plan = activePlan + 1 /\ rows[i].session = "none"
       /\ rows[i].of # None => rows[i].of \in OpenTasks

\* The tasks made for a new plan belong to it, and each copy is of an open task.
LEMMA TasksCopied ==
  ASSUME PlanInv, NEW order, NEW extra \in BOOLEAN, order = <<>> \/ order \in InOrder(OpenTasks)
  PROVE  NewTasks(CopiedTasks(order, extra))
<1>1. /\ Len(plans) = activePlan /\ activePlan \in Nat /\ OpenTasks \subseteq 1..Len(tasks)
      /\ Len(tasks) \in Nat
  BY DEF PlanInv, PlanTypeOK, LastPlanActive, OpenTasks
<1>2. \E n \in Nat : DOMAIN order = 1..n /\ \A i \in 1..n : order[i] \in OpenTasks
  <2>1. CASE order = <<>>
    BY <2>1
  <2>2. CASE order \in InOrder(OpenTasks)
    <3>1. IsFiniteSet(OpenTasks)
      <4>1. IsFiniteSet(1..Len(tasks)) /\ OpenTasks \in SUBSET (1..Len(tasks))
        BY <1>1, FS_Interval
      <4> QED
        BY <4>1, FS_Subset
    <3>2. Cardinality(OpenTasks) \in Nat
      BY <3>1, FS_CardinalityType
    <3> QED
      BY <2>2, <3>2 DEF InOrder
  <2> QED
    BY <2>1, <2>2
<1>3. ASSUME NEW t \in Nat
      PROVE  /\ TaskRow(t) \in TaskRows /\ TaskRow(t).plan = activePlan + 1
             /\ TaskRow(t).session = "none" /\ TaskRow(t).of = t
  BY <1>1 DEF TaskRow, TaskRows
<1> DEFINE copies == [i \in DOMAIN order |-> TaskRow(order[i])]
           more == IF extra THEN <<TaskRow(None)>> ELSE <<>>
<1>4. NewTasks(copies)
  <2>1. PICK n \in Nat : DOMAIN order = 1..n /\ \A i \in 1..n : order[i] \in OpenTasks
    BY <1>2
  <2>2. OpenTasks \subseteq Nat
    BY <1>1
  <2>3. copies \in [1..n -> TaskRows]
    BY <1>3, <2>1, <2>2
  <2>4. copies \in Seq(TaskRows) /\ DOMAIN copies = 1..n
    BY <2>3
  <2> QED
    BY <1>3, <2>1, <2>2, <2>4 DEF NewTasks
<1>5. NewTasks(more)
  <2>1. None \in Nat /\ TaskRow(None) \in TaskRows
    BY <1>3 DEF None
  <2> QED
    BY <1>3, <2>1 DEF NewTasks
<1>6. CopiedTasks(order, extra) = copies \o more
  BY DEF CopiedTasks
<1> HIDE DEF copies, more
<1>7. ASSUME NEW r, NEW s, NewTasks(r), NewTasks(s)
      PROVE  NewTasks(r \o s)
  BY <1>7 DEF NewTasks
<1> QED
  BY <1>4, <1>5, <1>6, <1>7

\* A new plan, for the one in force and, by a reassessment, only when no session is open.
LEMMA Replaced ==
  ASSUME PlanInv, NEW by \in {"diagnosis", "adjustment", "reassess"}, NEW from \in Nat,
         NEW rows, NewTasks(rows), ReplacePlan(by, from, rows), BasesKept,
         caller' \in [Callers -> CallerRecord] /\ \A d \in Callers : CallerOK(d)',
         by = "adjustment" => from \in DOMAIN adjustments /\ adjustments[from].base = activePlan,
         by = "reassess" => NoOpenSession
  PROVE  PlanInv'
<1> DEFINE n == activePlan
           row == [status |-> "active", by |-> by, from |-> from]
           old == [plans[n] EXCEPT !.status = "replaced"]
           kept == [plans EXCEPT ![n] = old]
<1>1. /\ plans \in Seq(PlanRow) /\ tasks \in Seq(TaskRows) /\ rows \in Seq(TaskRows)
      /\ n \in Nat /\ Len(plans) = n /\ n # 0
      /\ \A v \in DOMAIN plans : plans[v].status = "active" <=> v = n
  BY DEF PlanInv, PlanTypeOK, LastPlanActive, NewTasks
<1>2. row \in PlanRow /\ old \in PlanRow /\ old.by = plans[n].by /\ old.from = plans[n].from
      /\ old.status = "replaced"
  <2>1. plans[n] \in PlanRow
    BY <1>1
  <2> QED
    BY <2>1 DEF PlanRow
<1>3. plans' = Append(kept, row) /\ activePlan' = n + 1 /\ tasks' = tasks \o rows
  BY <1>1 DEF ReplacePlan
<1> HIDE DEF old
<1>4. /\ plans' \in Seq(PlanRow) /\ Len(plans') = n + 1 /\ plans'[n + 1] = row
      /\ \A v \in 1..n : /\ plans'[v].by = plans[v].by /\ plans'[v].from = plans[v].from
                         /\ plans'[v].status = "replaced"
  <2>1. kept \in Seq(PlanRow) /\ Len(kept) = n
    BY <1>1, <1>2
  <2>2. \A v \in 1..n : /\ kept[v].by = plans[v].by /\ kept[v].from = plans[v].from
                        /\ kept[v].status = "replaced"
    <3>1. ASSUME NEW v \in 1..n, v # n PROVE kept[v] = plans[v] /\ plans[v].status = "replaced"
      <4>1. plans[v] \in PlanRow /\ plans[v].status # "active"
        BY <1>1, <3>1
      <4> QED
        BY <1>1, <3>1, <4>1 DEF PlanRow
    <3>2. kept[n] = old
      BY <1>1
    <3> HIDE DEF kept
    <3> QED
      BY <1>2, <3>1, <3>2
  <2> HIDE DEF kept
  <2> QED
    BY <1>2, <1>3, <2>1, <2>2
<1>5. /\ tasks' \in Seq(TaskRows) /\ DOMAIN tasks' = 1..(Len(tasks) + Len(rows))
      /\ DOMAIN tasks \subseteq DOMAIN tasks'
      /\ \A t \in DOMAIN tasks : tasks'[t] = tasks[t]
      /\ \A t \in DOMAIN tasks' \ DOMAIN tasks :
           t - Len(tasks) \in DOMAIN rows /\ tasks'[t] = rows[t - Len(tasks)]
  BY <1>1, <1>3
<1> HIDE DEF kept, row
<1>a. PlanTypeOK'
  BY <1>1, <1>3, <1>4, <1>5 DEF PlanTypeOK, BasesKept
<1>b. LastPlanActive'
  BY <1>1, <1>3, <1>4 DEF LastPlanActive, row
<1>c. ASSUME NEW v \in DOMAIN plans' PROVE MadeFor(v)'
  <2>1. CASE v = n + 1
    BY <1>1, <1>4, <2>1 DEF MadeFor, BasesKept, row
  <2>2. CASE v \in DOMAIN plans
    BY <1>1, <1>4, <2>2 DEF PlanInv, MadeFor, BasesKept
  <2> QED
    BY <1>1, <1>4, <2>1, <2>2
<1>d. ASSUME NEW t \in DOMAIN tasks PROVE TaskPlanned(t)' /\ CopyLater(t)'
  <2>1. TaskPlanned(t) /\ CopyLater(t) /\ tasks'[t] = tasks[t]
    BY <1>5, <1>d DEF PlanInv
  <2>2. TaskPlanned(t)'
    <3>1. ASSUME NEW v \in DOMAIN plans', tasks[t].session = "active", v > tasks[t].plan
          PROVE  plans'[v].by # "reassess"
      <4>1. CASE v = n + 1
        BY <1>4, <1>d, <3>1, <4>1 DEF NoOpenSession, row
      <4>2. CASE v \in DOMAIN plans
        BY <1>1, <1>4, <2>1, <3>1, <4>2 DEF TaskPlanned
      <4> QED
        BY <1>1, <1>4, <4>1, <4>2
    <3> QED
      BY <1>1, <1>3, <2>1, <3>1 DEF TaskPlanned
  <2>3. CopyLater(t)'
    BY <1>5, <2>1 DEF CopyLater, Open
  <2> QED
    BY <2>2, <2>3
<1>e. ASSUME NEW t \in DOMAIN tasks' \ DOMAIN tasks PROVE TaskPlanned(t)' /\ CopyLater(t)'
  <2>1. /\ tasks'[t].plan = n + 1 /\ tasks'[t].session = "none"
        /\ tasks'[t].of # None => tasks'[t].of \in OpenTasks
    BY <1>5, <1>e DEF NewTasks
  <2>2. \A u \in OpenTasks : u \in DOMAIN tasks' /\ tasks'[u].plan = n /\ Open(u)'
    BY <1>5 DEF OpenTasks, Open
  <2> QED
    BY <1>1, <1>3, <2>1, <2>2 DEF TaskPlanned, CopyLater
<1> QED
  BY <1>a, <1>b, <1>c, <1>d, <1>e DEF PlanInv

\* What a request does that changes neither plans nor proposals nor tasks.
LEMMA OnlyCaller ==
  ASSUME PlanInv, UNCHANGED <<plans, activePlan, tasks, adjustments>>,
         caller' \in [Callers -> CallerRecord] /\ \A d \in Callers : CallerOK(d)'
  PROVE  PlanInv'
<1>1. tasks \in Seq(TaskRows) /\ BasesKept
  BY BasesUnchanged DEF PlanInv, PlanTypeOK
<1> QED
  BY <1>1, PlansKept

\* Steps that only read, or that let a request go, write no row.
LEMMA CallerSteps ==
  ASSUME PlanInv, NEW c \in Callers,
         \/ ProposeReads(c) \/ \E a \in DOMAIN adjustments : AcceptReads(c, a) \/ RejectReads(c, a)
         \/ AcceptRefused(c) \/ CompleteRecords(c) \/ CompleteFails(c) \/ ReassessLocks(c)
         \/ ReassessFails(c) \/ CallerDies(c)
  PROVE  PlanInv'
<1>1. BasesKept /\ UNCHANGED <<plans, activePlan, tasks, adjustments>>
  BY BasesUnchanged DEF PlanInv, ProposeReads, AcceptReads, RejectReads, AcceptRefused,
    CompleteRecords, CompleteFails, ReassessLocks, ReassessFails, CallerDies
<1>2. caller[c] \in CallerRecord /\ CallerOK(c) /\ tasks \in Seq(TaskRows) /\ activePlan \in Nat
      /\ DOMAIN adjustments \subseteq Nat
  BY DEF PlanInv, PlanTypeOK
<1>3. CASE Return(c)
  BY <1>1, <1>3, Returned, OnlyCaller
<1>4. ASSUME NEW pc \in {"proposing", "accepting", "expiring", "rejecting", "generating"},
             NEW at \in Nat, Enter(c, pc, at),
             pc \in {"accepting", "expiring", "rejecting"} => at \in DOMAIN adjustments
      PROVE  PlanInv'
  <2> DEFINE r == [pc |-> pc, at |-> at]
  <2>1. /\ r \in CallerRecord /\ r.pc = pc /\ r.at = at
        /\ caller' = [caller EXCEPT ![c] = r]
    BY <1>4 DEF Enter, CallerRecord
  <2> HIDE DEF r
  <2> QED
    BY <1>1, <1>4, <2>1, Entered, OnlyCaller
<1>5. ASSUME NEW pc \in {"recording", "restoring"}, caller' = [caller EXCEPT ![c].pc = pc],
             caller[c].pc \in {"claimed", "recording"}
      PROVE  PlanInv'
  <2> DEFINE r == [caller[c] EXCEPT !.pc = pc]
  <2>1. r \in CallerRecord /\ r.pc = pc /\ r.at = caller[c].at
    BY <1>2 DEF CallerRecord
  <2>2. caller' = [caller EXCEPT ![c] = r] /\ r.at \in DOMAIN tasks
    BY <1>2, <1>5, <2>1 DEF CallerOK
  <2> HIDE DEF r
  <2> QED
    BY <1>1, <1>5, <2>1, <2>2, Entered, OnlyCaller
<1>6. CASE \/ ProposeReads(c) \/ ReassessLocks(c)
           \/ \E a \in DOMAIN adjustments : AcceptReads(c, a) \/ RejectReads(c, a)
  BY <1>2, <1>4, <1>6 DEF ProposeReads, ReassessLocks, AcceptReads, RejectReads
<1>7. CASE CompleteRecords(c) \/ CompleteFails(c)
  BY <1>5, <1>7 DEF CompleteRecords, CompleteFails, In
<1>8. CASE AcceptRefused(c) \/ ReassessFails(c) \/ CallerDies(c)
  BY <1>3, <1>8 DEF AcceptRefused, ReassessFails, CallerDies
<1> QED
  BY <1>6, <1>7, <1>8

\* A proposal that is made, rejected or expired changes no plan and no task.
LEMMA DecisionSteps ==
  ASSUME PlanInv,
         \/ \E a \in DOMAIN adjustments : DayPasses(a)
         \/ \E c \in Callers : ProposeSaves(c) \/ AcceptExpires(c) \/ RejectWrites(c)
  PROVE  PlanInv'
<1>1. PlanTypeOK /\ tasks \in Seq(TaskRows) /\ caller \in [Callers -> CallerRecord]
  BY DEF PlanInv, PlanTypeOK
<1>2. ASSUME NEW a \in DOMAIN adjustments, DayPasses(a) PROVE PlanInv'
  <2> DEFINE r == [adjustments[a] EXCEPT !.late = TRUE]
  <2>1. adjustments[a] \in AdjustmentRow
    BY <1>1 DEF PlanTypeOK
  <2>2. r \in AdjustmentRow /\ r.base = adjustments[a].base
    BY <2>1 DEF AdjustmentRow
  <2>3. adjustments' = [adjustments EXCEPT ![a] = r] /\ UNCHANGED <<plans, activePlan, tasks, caller>>
    BY <1>2 DEF DayPasses
  <2>4. BasesKept
    BY <1>1, <2>2, <2>3 DEF PlanTypeOK, BasesKept
  <2>5. \A d \in Callers : CallerOK(d)'
    BY <2>3, <2>4 DEF PlanInv, CallerOK, BasesKept
  <2> QED
    BY <1>1, <2>3, <2>4, <2>5, PlansKept
<1>3. ASSUME NEW c \in Callers, ProposeSaves(c) PROVE PlanInv'
  <2>1. [Proposal EXCEPT !.base = caller[c].at] \in AdjustmentRow
    BY <1>1 DEF Proposal, AdjustmentRow, CallerRecord
  <2>2. BasesKept /\ Return(c) /\ UNCHANGED <<plans, activePlan, tasks>>
    BY <1>1, <1>3, <2>1, Proposed DEF ProposeSaves
  <2> QED
    BY <1>1, <2>2, Returned, PlansKept
<1>4. ASSUME NEW c \in Callers, AcceptExpires(c) \/ RejectWrites(c) PROVE PlanInv'
  <2>1. caller[c].at \in DOMAIN adjustments
    BY <1>4 DEF AcceptExpires, RejectWrites, In, PlanInv, CallerOK
  <2>2. BasesKept /\ Return(c) /\ UNCHANGED <<plans, activePlan, tasks>>
    BY <1>1, <1>4, <2>1, Decided DEF AcceptExpires, RejectWrites
  <2> QED
    BY <1>1, <2>2, Returned, PlansKept
<1> QED
  BY <1>2, <1>3, <1>4

\* The tasks: started, and completed, in the plan in force.
LEMMA TaskSteps ==
  ASSUME PlanInv,
         \/ \E t \in DOMAIN tasks : Start(t)
         \/ \E c \in Callers : \/ \E t \in DOMAIN tasks : CompleteClaims(c, t)
                               \/ CompleteFinishes(c) \/ CompleteRestores(c)
  PROVE  PlanInv'
<1>1. PlanTypeOK /\ tasks \in Seq(TaskRows) /\ caller \in [Callers -> CallerRecord]
      /\ UNCHANGED <<plans, activePlan>>
  BY DEF PlanInv, PlanTypeOK, Start, CompleteClaims, CompleteFinishes, CompleteRestores
<1>2. ASSUME NEW t \in DOMAIN tasks, NEW status \in {"active", "completing", "completed"},
             NEW session \in {"none", "active", "completed"},
             tasks' = [tasks EXCEPT ![t] = [@ EXCEPT !.status = status, !.session = session]],
             session = "active" => tasks[t].session = "active" \/ tasks[t].plan = activePlan,
             status = "completed" => tasks[t].status = "completed" \/ tasks[t].plan = activePlan,
             BasesKept, caller' \in [Callers -> CallerRecord] /\ \A d \in Callers : CallerOK(d)'
      PROVE  PlanInv'
  <2> DEFINE r == [tasks[t] EXCEPT !.status = status, !.session = session]
  <2>1. tasks[t] \in TaskRows
    BY <1>1
  <2>2. /\ r \in TaskRows /\ r.plan = tasks[t].plan /\ r.of = tasks[t].of
        /\ r.status = status /\ r.session = session
    BY <2>1 DEF TaskRows
  <2>3. tasks' = [tasks EXCEPT ![t] = r]
    BY <1>2
  <2> HIDE DEF r
  <2>4. tasks' \in Seq(TaskRows) /\ DOMAIN tasks' = DOMAIN tasks
    BY <1>1, <2>2, <2>3
  <2> QED
    BY <1>1, <1>2, <2>2, <2>3, <2>4, PlansKept
<1>3. ASSUME NEW t \in DOMAIN tasks, Start(t) PROVE PlanInv'
  <2>1. /\ tasks' = [tasks EXCEPT ![t] = [@ EXCEPT !.status = "active", !.session = "active"]]
        /\ tasks[t].plan = activePlan /\ UNCHANGED <<adjustments, caller>>
    BY <1>3 DEF Start
  <2>2. BasesKept /\ DOMAIN tasks' = DOMAIN tasks
    BY <1>1, <2>1, BasesUnchanged
  <2>3. \A d \in Callers : CallerOK(d)'
    BY <2>1, <2>2 DEF PlanInv, CallerOK, BasesKept
  <2> QED
    BY <1>1, <1>2, <2>1, <2>2, <2>3
<1>4. ASSUME NEW c \in Callers, NEW t \in DOMAIN tasks, CompleteClaims(c, t) PROVE PlanInv'
  <2> DEFINE r == [pc |-> "claimed", at |-> t]
  <2>1. r \in CallerRecord /\ r.pc = "claimed" /\ r.at = t /\ caller' = [caller EXCEPT ![c] = r]
    BY <1>1, <1>4 DEF CompleteClaims, Enter, CallerRecord
  <2>2. /\ tasks' = [tasks EXCEPT ![t] = [@ EXCEPT !.status = "completing", !.session = "active"]]
        /\ UNCHANGED adjustments /\ tasks[t].session = "active"
    <3>1. tasks[t] \in TaskRows
      BY <1>1
    <3>2. [tasks[t] EXCEPT !.status = "completing"]
            = [tasks[t] EXCEPT !.status = "completing", !.session = "active"]
      BY <1>4, <3>1 DEF CompleteClaims, TaskRows
    <3> QED
      BY <1>4, <3>2 DEF CompleteClaims
  <2>3. BasesKept /\ DOMAIN tasks \subseteq DOMAIN tasks'
    BY <1>1, <2>2, BasesUnchanged
  <2> HIDE DEF r
  <2>4. caller' \in [Callers -> CallerRecord] /\ \A d \in Callers : CallerOK(d)'
    BY <2>1, <2>3, Entered
  <2> QED
    BY <1>2, <2>2, <2>3, <2>4
<1>5. ASSUME NEW c \in Callers, CompleteFinishes(c) PROVE PlanInv'
  <2>1. PICK t \in DOMAIN tasks : t = caller[c].at
    BY <1>5 DEF CompleteFinishes, In, PlanInv, CallerOK
  <2>2. /\ tasks' = [tasks EXCEPT ![t] = [@ EXCEPT !.status = "completed", !.session = "completed"]]
        /\ tasks[t].plan = activePlan /\ Return(c)
    BY <1>5, <2>1 DEF CompleteFinishes, InActivePlan
  <2>3. BasesKept
    <3>1. Proposal \in AdjustmentRow
      BY <1>1 DEF PlanTypeOK, Proposal, AdjustmentRow
    <3> QED
      BY <1>1, <1>5, <3>1, BasesUnchanged, Proposed DEF CompleteFinishes
  <2>4. caller' \in [Callers -> CallerRecord] /\ \A d \in Callers : CallerOK(d)'
    BY <2>2, <2>3, Returned
  <2> QED
    BY <1>2, <2>2, <2>3, <2>4
<1>6. ASSUME NEW c \in Callers, CompleteRestores(c) PROVE PlanInv'
  <2>1. PICK t \in DOMAIN tasks : t = caller[c].at
    BY <1>6 DEF CompleteRestores, In, PlanInv, CallerOK
  <2> DEFINE r == [tasks[t] EXCEPT !.status = IF @ = "completing" THEN "active" ELSE @]
  <2>2. tasks[t] \in TaskRows
    BY <1>1
  <2>3. /\ r \in TaskRows /\ r.plan = tasks[t].plan /\ r.of = tasks[t].of
        /\ r.session = tasks[t].session /\ (r.status = "completed" => tasks[t].status = "completed")
    BY <2>2 DEF TaskRows
  <2>4. tasks' = [tasks EXCEPT ![t] = r] /\ Return(c) /\ UNCHANGED adjustments
    BY <1>6, <2>1 DEF CompleteRestores
  <2> HIDE DEF r
  <2>5. tasks' \in Seq(TaskRows) /\ DOMAIN tasks' = DOMAIN tasks /\ BasesKept
    BY <1>1, <2>3, <2>4, BasesUnchanged
  <2>6. caller' \in [Callers -> CallerRecord] /\ \A d \in Callers : CallerOK(d)'
    BY <2>4, <2>5, Returned
  <2> QED
    BY <1>1, <2>3, <2>4, <2>5, <2>6, PlansKept
<1> QED
  BY <1>3, <1>4, <1>5, <1>6

\* The three that replace the plan.
LEMMA PlanSteps ==
  ASSUME PlanInv, Rediagnose \/ \E c \in Callers : AcceptApplies(c) \/ ReassessCommits(c)
  PROVE  PlanInv'
<1>1. PlanTypeOK /\ NewTasks(CopiedTasks(<<>>, TRUE)) /\ None \in Nat
      /\ caller \in [Callers -> CallerRecord]
  BY TasksCopied DEF PlanInv, PlanTypeOK, None
<1>0. ASSUME NEW by, NEW from, NEW rows, NewTasks(rows), ReplacePlan(by, from, rows)
      PROVE  DOMAIN tasks \subseteq DOMAIN tasks'
  BY <1>1, <1>0 DEF ReplacePlan, NewTasks, PlanTypeOK
<1>2. CASE Rediagnose
  <2>1. /\ ReplacePlan("diagnosis", None, CopiedTasks(<<>>, TRUE))
        /\ UNCHANGED <<adjustments, caller>>
    BY <1>2 DEF Rediagnose
  <2>2. BasesKept /\ DOMAIN tasks \subseteq DOMAIN tasks'
    BY <1>0, <1>1, <2>1, BasesUnchanged
  <2>3. \A d \in Callers : CallerOK(d)'
    BY <2>1, <2>2 DEF PlanInv, CallerOK, BasesKept
  <2> QED
    BY <1>1, <2>1, <2>2, <2>3, Replaced
<1>3. ASSUME NEW c \in Callers, ReassessCommits(c) PROVE PlanInv'
  <2>1. /\ ReplacePlan("reassess", None, CopiedTasks(<<>>, TRUE)) /\ NoOpenSession
        /\ Return(c) /\ UNCHANGED adjustments
    BY <1>3 DEF ReassessCommits
  <2>2. BasesKept /\ DOMAIN tasks \subseteq DOMAIN tasks'
    BY <1>0, <1>1, <2>1, BasesUnchanged
  <2>3. caller' \in [Callers -> CallerRecord] /\ \A d \in Callers : CallerOK(d)'
    BY <2>1, <2>2, Returned
  <2> QED
    BY <1>1, <2>1, <2>2, <2>3, Replaced
<1>4. ASSUME NEW c \in Callers, AcceptApplies(c) PROVE PlanInv'
  <2>1. PICK a \in DOMAIN adjustments : a = caller[c].at
    BY <1>4 DEF AcceptApplies, In, PlanInv, CallerOK
  <2>2. PICK order \in InOrder(OpenTasks), extra \in BOOLEAN :
          ReplacePlan("adjustment", a, CopiedTasks(order, extra))
    BY <1>4, <2>1 DEF AcceptApplies
  <2>3. /\ adjustments[a].base = activePlan /\ Return(c)
        /\ adjustments' = [adjustments EXCEPT ![a].status = "applied"]
    BY <1>4, <2>1 DEF AcceptApplies, Current
  <2>4. NewTasks(CopiedTasks(order, extra))
    BY TasksCopied
  <2>5. BasesKept
    BY <1>1, <2>3, Decided
  <2>6. a \in Nat /\ adjustments[a].base = activePlan
    BY <1>1, <2>3 DEF PlanTypeOK
  <2>7. DOMAIN tasks \subseteq DOMAIN tasks'
    BY <1>0, <2>2, <2>4
  <2>8. caller' \in [Callers -> CallerRecord] /\ \A d \in Callers : CallerOK(d)'
    BY <2>3, <2>5, <2>7, Returned
  <2> QED
    BY <2>2, <2>4, <2>5, <2>6, <2>8, Replaced
<1> QED
  BY <1>2, <1>3, <1>4

\* Every step of planning and of the learner's work keeps the invariant.
LEMMA PlanInductive == PlanInv /\ [PlanNext]_planVars => PlanInv'
<1> SUFFICES ASSUME PlanInv, [PlanNext]_planVars PROVE PlanInv'
  OBVIOUS
<1>1. CASE UNCHANGED planVars
  BY <1>1 DEF planVars, PlanInv, PlanTypeOK, LastPlanActive, CallerOK, MadeFor, TaskPlanned,
    CopyLater, Open
<1>2. CASE PlanNext
  BY <1>2, CallerSteps, DecisionSteps, TaskSteps, PlanSteps DEF PlanNext
<1> QED
  BY <1>1, <1>2

\* The invariant of the plans holds in every reachable state, for any callers and bounds.
THEOREM PlanAlways == PlanSpec => []PlanInv
BY PlanInitially, PlanInductive, PTL DEF PlanSpec

\* A plan made by accepting a proposal replaced the very plan the proposal was made for.
THEOREM PlanBasisAlways == PlanSpec => []PlanBasis
<1>1. PlanInv => PlanBasis
  BY DEF PlanInv, PlanTypeOK, LastPlanActive, MadeFor, TaskPlanned, PlanBasis
<1> QED
  BY <1>1, PlanAlways, PTL

\* A task a plan copied from an earlier one was not finished when it was copied, and the
\* original is never finished after it.
THEOREM WorkNeverRepeated == PlanSpec => []WorkNotRepeated
<1>1. PlanInv => WorkNotRepeated
  BY DEF PlanInv, PlanTypeOK, CopyLater, WorkNotRepeated, None
<1> QED
  BY <1>1, PlanAlways, PTL

-----------------------------------------------------------------------------
(* Retrieving the context of an answer. *)

RetrievalRecord ==
  [at : {"idle", "exists", "embed", "nearest", "fts", "exact", "trigram", "ilike", "keywordDone",
         "select", "answered"},
   since : [Documents -> 0..MaxIndexVersions], topK : Nat \ {0}, exactTerms : BOOLEAN,
   transaction : {"usable", "aborted"}, vectorFailed : BOOLEAN, rows : SUBSET Chunks,
   strategyRows : SUBSET Chunks, seen : SUBSET Documents, selected : Seq(Chunks),
   status : {"none", "failed", "no_context", "grounded"}]

RetrievalTypeOK ==
  serving \in [Documents -> 0..MaxIndexVersions] /\ retrieval \in RetrievalRecord

\* Every row that was found served while the retrieval ran.
RowsServed ==
  /\ \A d \in Documents : retrieval.since[d] <= serving[d]
  /\ \A c \in retrieval.rows \cup retrieval.strategyRows \cup Chosen :
        c.document \notin Foreign /\ c.version \in retrieval.since[c.document]..serving[c.document]

\* Something the learner may see was indexed when the retrieval began.
Indexed == \E d \in Curated \cup Own : retrieval.since[d] # 0

\* Then the vector source finds something or has failed, and the selection keeps some of it.
VectorsTell ==
  /\ retrieval.at \in {"fts", "exact", "trigram", "ilike", "keywordDone"} /\ Indexed =>
        retrieval.vectorFailed \/ retrieval.rows # {}
  /\ retrieval.at = "select" /\ Indexed =>
        retrieval.vectorFailed \/ retrieval.rows # {} \/ retrieval.selected # <<>>

\* Any first part of the selection is a context of its own.
SelectionOK ==
  /\ retrieval.at \notin {"select", "answered"} => retrieval.selected = <<>>
  /\ \A i, j \in DOMAIN retrieval.selected : i # j =>
        /\ Text(retrieval.selected[i]) # Text(retrieval.selected[j])
        /\ ~Neighbours(retrieval.selected[i], retrieval.selected[j])
  /\ Len(retrieval.selected) <= MaxChunks
  /\ \A n \in DOMAIN retrieval.selected :
        ContextSize({retrieval.selected[i] : i \in 1..n}) <= CharBudget

AnsweredOK ==
  /\ retrieval.transaction = "aborted" =>
        retrieval.at \in {"exists", "nearest", "fts", "exact", "trigram", "ilike"}
  /\ retrieval.at = "answered" =>
        /\ retrieval.status = "failed" <=> retrieval.vectorFailed
        /\ retrieval.status = "no_context" => ~Indexed
        /\ Len(retrieval.selected) <= retrieval.topK

RetrievalInv ==
  RetrievalTypeOK /\ RowsServed /\ VectorsTell /\ SelectionOK /\ AnsweredOK

\* A retrieval begins with nothing found or selected.
LEMMA NothingYet ==
  ASSUME NEW r \in RetrievalRecord, r.selected = <<>>
  PROVE  /\ DOMAIN r.selected = {} /\ Len(r.selected) = 0
         /\ {r.selected[i] : i \in DOMAIN r.selected} = {}
  OBVIOUS

\* Before the first question nothing is searched and nothing is selected.
LEMMA RetrievalInitially == RetrievalInit => RetrievalInv
<1> SUFFICES ASSUME RetrievalInit PROVE RetrievalInv
  OBVIOUS
<1>1. RetrievalTypeOK
  <2>1. serving \in [Documents -> 0..MaxIndexVersions]
    BY RetrievalAssumption DEF RetrievalInit
  <2> QED
    BY <2>1 DEF RetrievalInit, RetrievalTypeOK, RetrievalRecord, NoRetrieval
<1>2. /\ DOMAIN retrieval.selected = {} /\ Len(retrieval.selected) = 0 /\ Chosen = {}
      /\ retrieval.selected = <<>> /\ retrieval.rows = {} /\ retrieval.strategyRows = {}
  BY DEF RetrievalInit, NoRetrieval, Chosen
<1>3. RowsServed
  <2>1. retrieval.since = serving
    BY DEF RetrievalInit, NoRetrieval
  <2> QED
    BY <1>1, <1>2, <2>1 DEF RowsServed, RetrievalTypeOK
<1>4. VectorsTell /\ SelectionOK /\ AnsweredOK
  BY <1>1, <1>2, RetrievalAssumption
  DEF VectorsTell, SelectionOK, AnsweredOK, RetrievalInit, NoRetrieval
<1> QED
  BY <1>1, <1>3, <1>4 DEF RetrievalInv

\* There are finitely many chunks, so a statement returns finitely many.
LEMMA VisibleFinite == IsFiniteSet(Visible) /\ Visible \subseteq Chunks
<1> DEFINE D == (Documents \X (1..MaxIndexVersions)) \X Passages
           f == [x \in D |-> [document |-> x[1][1], version |-> x[1][2], passage |-> x[2]]]
<1>1. IsFiniteSet(1..MaxIndexVersions)
  BY FS_Interval, RetrievalAssumption
<1>2. IsFiniteSet(Documents \X (1..MaxIndexVersions))
  BY <1>1, FS_Product, RetrievalAssumption
<1>3. IsFiniteSet(D)
  BY <1>2, FS_Product, RetrievalAssumption
<1>4. f \in Surjection(D, Chunks)
  <2>1. f \in [D -> Chunks]
    BY DEF Chunks
  <2>2. ASSUME NEW c \in Chunks PROVE \E x \in D : f[x] = c
    <3>1. <<<<c.document, c.version>>, c.passage>> \in D
      BY <2>2 DEF Chunks
    <3>2. f[<<<<c.document, c.version>>, c.passage>>] = c
      BY <2>2, <3>1 DEF Chunks
    <3> QED
      BY <3>1, <3>2
  <2> QED
    BY <2>1, <2>2 DEF Surjection
<1>5. IsFiniteSet(Chunks)
  BY <1>3, <1>4, FS_Surjection
<1> QED
  BY <1>5, FS_Subset DEF Visible

\* The nearest of some chunks are some of them.
LEMMA NearestFound ==
  ASSUME NEW k \in Nat \ {0}, NEW S, IsFiniteSet(S), NEW R \in Nearest(k, S)
  PROVE  R \subseteq S /\ (S # {} => R # {})
<1>1. R \subseteq S /\ Cardinality(R) = Smaller(k, Cardinality(S))
  BY DEF Nearest
<1>2. Cardinality(S) \in Nat /\ (Cardinality(S) = 0 <=> S = {})
  BY FS_CardinalityType, FS_EmptySet
<1> QED
  BY <1>1, <1>2, FS_EmptySet DEF Smaller

\* What a statement sees serves now, and there is something when there was at the start.
LEMMA VisibleServes ==
  ASSUME RetrievalInv
  PROVE  /\ \A c \in Visible : c.document \notin Foreign
                               /\ c.version \in retrieval.since[c.document]..serving[c.document]
         /\ Indexed => Visible # {}
<1>1. ASSUME NEW c \in Visible
      PROVE  c.document \notin Foreign /\ c.version \in retrieval.since[c.document]..serving[c.document]
  BY RetrievalAssumption DEF Visible, Chunks, RetrievalInv, RetrievalTypeOK, RetrievalRecord, RowsServed
<1>2. ASSUME Indexed PROVE Visible # {}
  <2>1. PICK d \in Curated \cup Own : retrieval.since[d] # 0
    BY <1>2 DEF Indexed
  <2>2. d \in Documents /\ d \notin Foreign
    BY RetrievalAssumption DEF Documents
  <2>3. serving[d] \in 1..MaxIndexVersions
    BY <2>1, <2>2, RetrievalAssumption DEF RetrievalInv, RetrievalTypeOK, RetrievalRecord, RowsServed
  <2>4. PICK p \in Passages : TRUE
    BY RetrievalAssumption
  <2>5. [document |-> d, version |-> serving[d], passage |-> p] \in Visible
    BY <2>2, <2>3, <2>4 DEF Visible, Chunks
  <2> QED
    BY <2>5
<1> QED
  BY <1>1, <1>2

\* A step of the search selects nothing and finds only what is visible.
LEMMA SearchMoves ==
  ASSUME RetrievalInv, NEW r \in RetrievalRecord, retrieval' = r, UNCHANGED serving,
         r.since = retrieval.since, r.selected = retrieval.selected, r.selected = <<>>,
         r.rows \cup r.strategyRows \subseteq retrieval.rows \cup retrieval.strategyRows \cup Visible,
         r.at # "answered", VectorsTell',
         r.transaction = "aborted" => r.at \in {"exists", "nearest", "fts", "exact", "trigram", "ilike"}
  PROVE  RetrievalInv'
<1>1. RetrievalTypeOK'
  BY DEF RetrievalTypeOK, RetrievalInv
<1>2. RowsServed'
  <2>1. Chosen' = Chosen
    BY DEF Chosen
  <2> QED
    BY <2>1, VisibleServes DEF RowsServed, RetrievalInv
<1>3. SelectionOK'
  <2>1. DOMAIN r.selected = {} /\ Len(r.selected) = 0
    BY NothingYet, RetrievalAssumption
  <2> QED
    BY <2>1, RetrievalAssumption DEF SelectionOK
<1>4. AnsweredOK'
  BY DEF AnsweredOK
<1> QED
  BY <1>1, <1>2, <1>3, <1>4 DEF RetrievalInv

\* A search adds rows that are served while it runs, and says when it failed.
LEMMA SearchSteps ==
  ASSUME RetrievalInv,
         \/ FindVisibleRows \/ EmbedQuery \/ EmbeddingUnavailable \/ RankVectors
         \/ \E strategy \in {"fts", "exact", "trigram", "ilike"} : CollectRows(strategy)
         \/ StatementFails \/ UnwindVector \/ UnwindTrigram \/ UnwindKeyword \/ Fuse
  PROVE  RetrievalInv'
<1>1. /\ retrieval \in RetrievalRecord /\ VectorsTell /\ IsFiniteSet(Visible) /\ Visible \subseteq Chunks
      /\ Indexed => Visible # {}
      /\ retrieval.transaction = "aborted" =>
           retrieval.at \in {"exists", "nearest", "fts", "exact", "trigram", "ilike"}
      /\ retrieval.at \notin {"select", "answered"} => retrieval.selected = <<>>
  BY VisibleFinite, VisibleServes DEF RetrievalInv, RetrievalTypeOK, AnsweredOK, SelectionOK
<1>2. CASE FindVisibleRows
  <2> DEFINE r == [retrieval EXCEPT !.at = IF Visible = {} THEN "fts" ELSE "embed"]
  <2>1. r \in RetrievalRecord
    BY <1>1 DEF RetrievalRecord
  <2>2. VectorsTell'
    BY <1>1, <1>2 DEF FindVisibleRows, VectorsTell, Indexed, RetrievalRecord
  <2> QED
    BY <1>1, <1>2, <2>1, <2>2, SearchMoves DEF FindVisibleRows, Asks, RetrievalRecord
<1>3. CASE EmbedQuery
  <2> DEFINE r == [retrieval EXCEPT !.at = "nearest"]
  <2>1. r \in RetrievalRecord
    BY <1>1 DEF RetrievalRecord
  <2>2. VectorsTell'
    BY <1>1, <1>3 DEF EmbedQuery, VectorsTell, Indexed, RetrievalRecord
  <2> QED
    BY <1>1, <1>3, <2>1, <2>2, SearchMoves DEF EmbedQuery, Asks, RetrievalRecord
<1>4. CASE EmbeddingUnavailable
  <2> DEFINE r == [retrieval EXCEPT !.at = "fts", !.vectorFailed = TRUE]
  <2>1. r \in RetrievalRecord
    BY <1>1 DEF RetrievalRecord
  <2>2. VectorsTell'
    BY <1>1, <1>4 DEF EmbeddingUnavailable, VectorsTell, Indexed, RetrievalRecord
  <2> QED
    BY <1>1, <1>4, <2>1, <2>2, SearchMoves DEF EmbeddingUnavailable, Asks, RetrievalRecord
<1>5. CASE RankVectors
  <2>1. PICK R \in Nearest(retrieval.topK, Visible) :
          retrieval' = [retrieval EXCEPT !.at = "fts", !.rows = R]
    BY <1>5 DEF RankVectors
  <2>2. R \subseteq Visible /\ (Visible # {} => R # {})
    BY <1>1, NearestFound DEF RetrievalRecord
  <2> DEFINE r == [retrieval EXCEPT !.at = "fts", !.rows = R]
  <2>3. r \in RetrievalRecord
    BY <1>1, <2>2 DEF RetrievalRecord
  <2>4. VectorsTell'
    BY <1>1, <2>1, <2>2 DEF VectorsTell, Indexed, RetrievalRecord
  <2> QED
    BY <1>1, <1>5, <2>1, <2>2, <2>3, <2>4, SearchMoves DEF RankVectors, Asks, RetrievalRecord
<1>6. ASSUME NEW strategy \in {"fts", "exact", "trigram", "ilike"}, CollectRows(strategy)
      PROVE  RetrievalInv'
  <2>1. PICK R \in AtMost(retrieval.topK, Visible), at \in {"exact", "trigram", "ilike", "keywordDone"} :
          retrieval' = [retrieval EXCEPT !.at = at, !.strategyRows = @ \cup R]
    BY <1>1, <1>6 DEF CollectRows, After, RetrievalRecord
  <2>2. R \subseteq Visible
    BY DEF AtMost
  <2> DEFINE r == [retrieval EXCEPT !.at = at, !.strategyRows = @ \cup R]
  <2>3. r \in RetrievalRecord
    BY <1>1, <2>2 DEF RetrievalRecord
  <2>4. VectorsTell'
    BY <1>1, <1>6, <2>1 DEF CollectRows, Asks, VectorsTell, Indexed, RetrievalRecord
  <2> QED
    BY <1>1, <1>6, <2>1, <2>2, <2>3, <2>4, SearchMoves DEF CollectRows, Asks, RetrievalRecord
<1>7. CASE StatementFails
  <2> DEFINE r == [retrieval EXCEPT !.transaction = "aborted"]
  <2>1. r \in RetrievalRecord
    BY <1>1 DEF RetrievalRecord
  <2>2. VectorsTell'
    BY <1>1, <1>7 DEF StatementFails, VectorsTell, Indexed, RetrievalRecord
  <2> QED
    BY <1>1, <1>7, <2>1, <2>2, SearchMoves DEF StatementFails, RetrievalRecord
<1>8. CASE UnwindVector
  <2> DEFINE r == [retrieval EXCEPT !.transaction = "usable", !.at = "fts", !.vectorFailed = TRUE]
  <2>1. r \in RetrievalRecord
    BY <1>1 DEF RetrievalRecord
  <2>2. VectorsTell'
    BY <1>1, <1>8 DEF UnwindVector, VectorsTell, Indexed, RetrievalRecord
  <2> QED
    BY <1>1, <1>8, <2>1, <2>2, SearchMoves DEF UnwindVector, RetrievalRecord
<1>9. CASE UnwindTrigram
  <2> DEFINE r == [retrieval EXCEPT !.transaction = "usable", !.at = "ilike"]
  <2>1. r \in RetrievalRecord
    BY <1>1 DEF RetrievalRecord
  <2>2. VectorsTell'
    BY <1>1, <1>9 DEF UnwindTrigram, VectorsTell, Indexed, RetrievalRecord
  <2> QED
    BY <1>1, <1>9, <2>1, <2>2, SearchMoves DEF UnwindTrigram, RetrievalRecord
<1>10. CASE UnwindKeyword
  <2> DEFINE r == [retrieval EXCEPT !.transaction = "usable", !.at = "keywordDone", !.strategyRows = {}]
  <2>1. r \in RetrievalRecord
    BY <1>1 DEF RetrievalRecord
  <2>2. VectorsTell'
    BY <1>1, <1>10 DEF UnwindKeyword, VectorsTell, Indexed, RetrievalRecord
  <2> QED
    BY <1>1, <1>10, <2>1, <2>2, SearchMoves DEF UnwindKeyword, RetrievalRecord
<1>11. CASE Fuse
  <2>1. PICK R \in Nearest(retrieval.topK, retrieval.strategyRows) :
          retrieval' = [retrieval EXCEPT !.at = "select", !.rows = @ \cup R, !.strategyRows = {}]
    BY <1>11 DEF Fuse
  <2>2. R \subseteq retrieval.strategyRows
    BY DEF Nearest
  <2> DEFINE r == [retrieval EXCEPT !.at = "select", !.rows = @ \cup R, !.strategyRows = {}]
  <2>3. r \in RetrievalRecord
    BY <1>1, <2>2 DEF RetrievalRecord
  <2>4. VectorsTell'
    BY <1>1, <1>11, <2>1 DEF Fuse, Asks, VectorsTell, Indexed, RetrievalRecord
  <2> QED
    BY <1>1, <1>11, <2>1, <2>2, <2>3, <2>4, SearchMoves DEF Fuse, Asks, RetrievalRecord
<1> QED
  BY <1>2, <1>3, <1>4, <1>5, <1>6, <1>7, <1>8, <1>9, <1>10, <1>11

\* Another index version of a document serves from now on; the retrieval is as it was.
LEMMA ActivateStep ==
  ASSUME RetrievalInv, NEW d \in Documents, ActivateIndex(d)
  PROVE  RetrievalInv'
<1>1. /\ serving' \in [Documents -> 0..MaxIndexVersions] /\ UNCHANGED retrieval
      /\ \A e \in Documents : serving[e] <= serving'[e]
  BY RetrievalAssumption DEF ActivateIndex, RetrievalInv, RetrievalTypeOK
<1>2. RetrievalTypeOK'
  BY <1>1 DEF RetrievalInv, RetrievalTypeOK
<1>3. RowsServed'
  <2>1. Chosen' = Chosen /\ Chosen \subseteq Chunks
    BY <1>1 DEF Chosen, RetrievalInv, RetrievalTypeOK, RetrievalRecord
  <2> QED
    BY <1>1, <2>1, RetrievalAssumption
    DEF RowsServed, RetrievalInv, RetrievalTypeOK, RetrievalRecord, Chunks
<1>4. VectorsTell'
  BY <1>1 DEF RetrievalInv, VectorsTell, Indexed
<1>5. SelectionOK'
  BY <1>1 DEF RetrievalInv, SelectionOK, Chosen
<1>6. AnsweredOK'
  BY <1>1 DEF RetrievalInv, AnsweredOK, Indexed
<1> QED
  BY <1>2, <1>3, <1>4, <1>5, <1>6 DEF RetrievalInv

\* A question starts from nothing, with the versions that are served by then.
LEMMA StartStep ==
  ASSUME RetrievalInv, NEW k \in TopKs, NEW exact \in BOOLEAN, StartRetrieval(k, exact)
  PROVE  RetrievalInv'
<1>1. serving \in [Documents -> 0..MaxIndexVersions] /\ serving' = serving
  BY DEF StartRetrieval, RetrievalInv, RetrievalTypeOK
<1>a. k \in Nat \ {0} /\ retrieval' = [NoRetrieval EXCEPT !.at = "exists", !.topK = k, !.exactTerms = exact]
  BY RetrievalAssumption DEF StartRetrieval
<1>2. retrieval' \in RetrievalRecord /\ retrieval'.since = serving /\ retrieval'.rows = {}
      /\ retrieval'.strategyRows = {} /\ retrieval'.selected = <<>> /\ retrieval'.at = "exists"
      /\ retrieval'.transaction = "usable"
  <2>1. NoRetrieval \in RetrievalRecord /\ NoRetrieval.since = serving /\ NoRetrieval.rows = {}
        /\ NoRetrieval.strategyRows = {} /\ NoRetrieval.selected = <<>> /\ NoRetrieval.transaction = "usable"
    BY <1>1 DEF NoRetrieval, RetrievalRecord
  <2> QED
    BY <1>a, <2>1 DEF RetrievalRecord
<1>3. DOMAIN retrieval'.selected = {} /\ Len(retrieval'.selected) = 0 /\ Chosen' = {}
  BY <1>2 DEF Chosen
<1>4. RetrievalTypeOK' /\ RowsServed'
  BY <1>1, <1>2, <1>3 DEF RetrievalTypeOK, RowsServed
<1>5. VectorsTell' /\ SelectionOK' /\ AnsweredOK'
  BY <1>2, <1>3, RetrievalAssumption DEF VectorsTell, SelectionOK, AnsweredOK
<1> QED
  BY <1>4, <1>5 DEF RetrievalInv

\* Any chunk alone is a context: the budget holds a long one.
LEMMA FirstFits ==
  ASSUME NEW c
  PROVE  ContextSize({c}) <= CharBudget
<1>1. Cardinality({c}) = 1 /\ Cardinality({}) = 0
  BY FS_Singleton, FS_EmptySet
<1>2. {x \in {c} : x.passage \in LongPassages} \in {{c}, {}}
  OBVIOUS
<1> QED
  BY <1>1, <1>2, RetrievalAssumption DEF ContextSize

\* Selecting the context: the number of chunks, the order and the budget of characters.
LEMMA SelectStep ==
  ASSUME RetrievalInv, SelectNext
  PROVE  RetrievalInv'
<1>1. PICK c \in retrieval.rows, overlaps \in Overlaps :
        retrieval' = [retrieval EXCEPT !.rows = @ \ {c}, !.seen = @ \cup {c.document},
                                       !.selected = IF Fits(c) /\ ~overlaps THEN Append(@, c) ELSE @]
  BY DEF SelectNext, Considered
<1>2. /\ retrieval \in RetrievalRecord /\ c \in Chunks /\ serving' = serving
      /\ retrieval.at = "select" /\ retrieval.transaction = "usable"
      /\ Len(retrieval.selected) < MaxChunks
  BY DEF SelectNext, Asks, RetrievalInv, RetrievalTypeOK, RetrievalRecord
<1> DEFINE q == retrieval.selected
           n == Len(q)
<1>3. q \in Seq(Chunks) /\ n \in Nat /\ DOMAIN q = 1..n /\ Chosen = {q[i] : i \in 1..n}
  BY <1>2 DEF RetrievalRecord, Chosen
<1>4. /\ retrieval'.rows = retrieval.rows \ {c} /\ retrieval'.strategyRows = retrieval.strategyRows
      /\ retrieval'.since = retrieval.since /\ retrieval'.at = "select"
      /\ retrieval'.transaction = "usable" /\ retrieval'.vectorFailed = retrieval.vectorFailed
      /\ retrieval'.topK = retrieval.topK
  BY <1>1, <1>2 DEF RetrievalRecord
<1>5. CASE ~(Fits(c) /\ ~overlaps)
  <2>1. retrieval'.selected = q
    BY <1>1, <1>2, <1>5 DEF RetrievalRecord
  <2>2. RetrievalTypeOK'
    BY <1>1, <1>2, <1>5 DEF RetrievalInv, RetrievalTypeOK, RetrievalRecord, Chunks
  <2>3. RowsServed'
    <3>1. Chosen' = Chosen
      BY <2>1 DEF Chosen
    <3> QED
      BY <1>2, <1>4, <3>1 DEF RowsServed, RetrievalInv
  <2>4. q # <<>>
    <3> SUFFICES ASSUME q = <<>> PROVE FALSE
      OBVIOUS
    <3>1. Chosen = {} /\ Chosen \cup {c} = {c}
      BY <1>3
    <3> QED
      BY <1>5, <3>1, FirstFits DEF Fits, Overlaps
  <2>5. VectorsTell' /\ AnsweredOK'
    BY <1>4, <2>1, <2>4 DEF VectorsTell, AnsweredOK
  <2>6. SelectionOK'
    BY <1>2, <1>4, <2>1 DEF SelectionOK, RetrievalInv
  <2> QED
    BY <2>2, <2>3, <2>5, <2>6 DEF RetrievalInv
<1>6. CASE Fits(c) /\ ~overlaps
  <2> DEFINE q1 == Append(q, c)
  <2>1. retrieval'.selected = q1
    BY <1>1, <1>2, <1>6 DEF RetrievalRecord
  <2>2. /\ q1 \in Seq(Chunks) /\ Len(q1) = n + 1 /\ DOMAIN q1 = 1..(n + 1)
        /\ \A i \in 1..n : q1[i] = q[i]
        /\ q1[n + 1] = c
    BY <1>2, <1>3
  <2>3. RetrievalTypeOK'
    BY <1>1, <1>2, <1>6, <2>2 DEF RetrievalInv, RetrievalTypeOK, RetrievalRecord, Chunks
  <2> HIDE DEF q1
  <2>4. \A m \in 1..n : {q1[i] : i \in 1..m} = {q[i] : i \in 1..m}
    BY <1>3, <2>2
  <2>5. {q1[i] : i \in 1..(n + 1)} = Chosen \cup {c}
    <3>1. 1..(n + 1) = (1..n) \cup {n + 1}
      BY <1>3
    <3> QED
      BY <1>3, <2>2, <3>1
  <2>6. RowsServed'
    <3>1. Chosen' = Chosen \cup {c}
      BY <2>1, <2>2, <2>5 DEF Chosen
    <3> QED
      BY <1>2, <1>4, <3>1 DEF RowsServed, RetrievalInv
  <2>7. q1 # <<>>
    BY <1>3, <2>2
  <2>8. VectorsTell' /\ AnsweredOK'
    BY <1>4, <2>1, <2>7 DEF VectorsTell, AnsweredOK
  <2>9. SelectionOK'
    <3>1. \A i \in 1..n : Text(c) # Text(q[i]) /\ ~Neighbours(c, q[i]) /\ ~Neighbours(q[i], c)
      BY <1>3, <1>6 DEF Fits, Neighbours
    <3>2. \A i, j \in 1..n : i # j => Text(q[i]) # Text(q[j]) /\ ~Neighbours(q[i], q[j])
      BY <1>3 DEF RetrievalInv, SelectionOK
    <3>3. \A i, j \in 1..(n + 1) : i # j => Text(q1[i]) # Text(q1[j]) /\ ~Neighbours(q1[i], q1[j])
      BY <1>3, <2>2, <3>1, <3>2
    <3>4. \A m \in 1..n : ContextSize({q[i] : i \in 1..m}) <= CharBudget
      BY <1>3 DEF RetrievalInv, SelectionOK
    <3>5. \A m \in 1..(n + 1) : ContextSize({q1[i] : i \in 1..m}) <= CharBudget
      <4> SUFFICES ASSUME NEW m \in 1..(n + 1)
                   PROVE  ContextSize({q1[i] : i \in 1..m}) <= CharBudget
        OBVIOUS
      <4>1. CASE m \in 1..n
        <5>1. {q1[i] : i \in 1..m} = {q[i] : i \in 1..m}
          BY <2>4, <4>1
        <5> QED
          BY <3>4, <4>1, <5>1
      <4>2. CASE m = n + 1
        <5>1. {q1[i] : i \in 1..m} = Chosen \cup {c}
          BY <2>5, <4>2
        <5> QED
          BY <1>6, <5>1 DEF Fits
      <4> QED
        BY <1>3, <4>1, <4>2
    <3>6. Len(q1) <= MaxChunks
      BY <1>2, <1>3, <2>2, RetrievalAssumption
    <3> QED
      BY <1>4, <2>1, <2>2, <3>3, <3>5, <3>6 DEF SelectionOK
  <2> QED
    BY <2>3, <2>6, <2>8, <2>9 DEF RetrievalInv
<1> QED
  BY <1>5, <1>6


\* The answer looks once more at what is selected, and gives its status.
LEMMA AnswerStep ==
  ASSUME RetrievalInv, AnswerTutor
  PROVE  RetrievalInv'
<1>1. /\ retrieval \in RetrievalRecord /\ serving' = serving /\ retrieval.at = "select"
      /\ retrieval.transaction = "usable"
      /\ retrieval.rows = {} \/ Len(retrieval.selected) = MaxChunks
  BY DEF AnswerTutor, Asks, RetrievalInv, RetrievalTypeOK
<1> DEFINE q == retrieval.selected
           k == Smaller(retrieval.topK, Len(q))
           chunks == SubSeq(q, 1, k)
<1>2. q \in Seq(Chunks) /\ Len(q) \in Nat /\ DOMAIN q = 1..Len(q) /\ Chosen = {q[i] : i \in 1..Len(q)}
  BY <1>1 DEF RetrievalRecord, Chosen
<1>3. k \in 0..Len(q) /\ k <= retrieval.topK /\ (k = 0 => Len(q) = 0)
  BY <1>1, <1>2 DEF RetrievalRecord, Smaller
<1>4. /\ chunks \in Seq(Chunks) /\ Len(chunks) = k /\ DOMAIN chunks = 1..k
      /\ \A i \in 1..k : chunks[i] = q[i]
  BY <1>2, <1>3
<1>5. PICK answer \in {<<>>, chunks} :
        /\ retrieval'.selected = answer
        /\ retrieval'.status = (IF retrieval.vectorFailed THEN "failed"
                                ELSE IF chunks = <<>> THEN "no_context" ELSE "grounded")
        /\ retrieval' = [retrieval EXCEPT !.at = "answered", !.rows = {}, !.seen = {},
                                          !.selected = answer, !.status = retrieval'.status]
  BY <1>1 DEF AnswerTutor, RetrievalRecord
<1> HIDE DEF chunks
<1>6. /\ answer \in Seq(Chunks) /\ Len(answer) \in 0..k /\ DOMAIN answer = 1..Len(answer)
      /\ \A i \in 1..Len(answer) : answer[i] = q[i]
  <2>1. CASE answer = chunks
    BY <1>3, <1>4, <2>1
  <2>2. CASE answer = <<>>
    <3>1. Len(answer) = 0 /\ DOMAIN answer = {} /\ answer \in Seq(Chunks) /\ 1..0 = {}
      BY <2>2
    <3> QED
      BY <1>3, <3>1
  <2> QED
    BY <1>5, <2>1, <2>2
<1>7. RetrievalTypeOK'
  BY <1>1, <1>5, <1>6 DEF RetrievalInv, RetrievalTypeOK, RetrievalRecord
<1>8. /\ retrieval'.rows = {} /\ retrieval'.strategyRows = retrieval.strategyRows
      /\ retrieval'.since = retrieval.since /\ retrieval'.at = "answered"
      /\ retrieval'.transaction = "usable" /\ retrieval'.vectorFailed = retrieval.vectorFailed
      /\ retrieval'.topK = retrieval.topK
  BY <1>1, <1>5 DEF RetrievalRecord
<1>9. RowsServed'
  <2>1. Chosen' \subseteq Chosen
    BY <1>2, <1>3, <1>5, <1>6 DEF Chosen
  <2> QED
    BY <1>1, <1>8, <2>1 DEF RowsServed, RetrievalInv
<1>10. VectorsTell'
  BY <1>8 DEF VectorsTell
<1>11. SelectionOK'
  <2>1. \A n \in 1..Len(answer) : {answer[i] : i \in 1..n} = {q[i] : i \in 1..n}
    BY <1>2, <1>3, <1>6
  <2>2. ASSUME NEW n \in 1..Len(answer) PROVE ContextSize({answer[i] : i \in 1..n}) <= CharBudget
    <3>1. {answer[i] : i \in 1..n} = {q[i] : i \in 1..n} /\ n \in DOMAIN q
      BY <1>2, <1>3, <1>6, <2>1
    <3> QED
      BY <3>1 DEF RetrievalInv, SelectionOK
  <2>3. \A i, j \in 1..Len(answer) : i # j =>
          Text(answer[i]) # Text(answer[j]) /\ ~Neighbours(answer[i], answer[j])
    BY <1>2, <1>3, <1>6 DEF RetrievalInv, SelectionOK
  <2>4. Len(answer) <= MaxChunks
    BY <1>2, <1>3, <1>6, RetrievalAssumption DEF RetrievalInv, SelectionOK
  <2> QED
    BY <1>5, <1>6, <1>8, <2>2, <2>3, <2>4 DEF SelectionOK
<1>12. AnsweredOK'
  <2>1. Len(answer) <= retrieval.topK
    BY <1>1, <1>2, <1>3, <1>6 DEF RetrievalRecord
  <2>2. retrieval.vectorFailed \in BOOLEAN
    BY <1>1 DEF RetrievalRecord
  <2>3. retrieval'.status = "failed" <=> retrieval.vectorFailed
    BY <1>5, <2>2
  <2>4. ASSUME retrieval'.status = "no_context" PROVE ~Indexed
    <3>1. chunks = <<>> /\ ~retrieval.vectorFailed
      BY <1>5, <2>2, <2>4
    <3>2. q = <<>>
      BY <1>2, <1>3, <1>4, <3>1
    <3>3. retrieval.rows = {}
      BY <1>1, <3>2, RetrievalAssumption
    <3> QED
      BY <1>1, <3>1, <3>2, <3>3 DEF RetrievalInv, VectorsTell
  <2>5. Indexed' <=> Indexed
    BY <1>8 DEF Indexed
  <2> QED
    BY <1>5, <1>8, <2>1, <2>3, <2>4, <2>5 DEF AnsweredOK
<1> QED
  BY <1>7, <1>9, <1>10, <1>11, <1>12 DEF RetrievalInv

\* Every step of a retrieval, and of the indexing beside it, keeps the invariant.
LEMMA RetrievalInductive == RetrievalInv /\ [RetrievalNext]_retrievalVars => RetrievalInv'
<1> SUFFICES ASSUME RetrievalInv, [RetrievalNext]_retrievalVars PROVE RetrievalInv'
  OBVIOUS
<1>1. CASE RetrievalNext
  BY <1>1, SearchSteps, ActivateStep, StartStep, SelectStep, AnswerStep DEF RetrievalNext
<1>2. CASE UNCHANGED retrievalVars
  BY <1>2 DEF retrievalVars, RetrievalInv, RetrievalTypeOK, RowsServed, VectorsTell, SelectionOK,
              AnsweredOK, Indexed, Chosen
<1> QED
  BY <1>1, <1>2

\* The invariant of the retrieval holds in every reachable state, for any documents, passages
\* and budgets.
THEOREM RetrievalAlways == RetrievalSpec => []RetrievalInv
<1>1. RetrievalInv /\ [RetrievalNext]_retrievalVars => RetrievalInv'
  BY RetrievalInductive
<1> QED
  BY <1>1, RetrievalInitially, PTL DEF RetrievalSpec

\* The context of an answer is of indexes that served this learner at some time since the
\* question, holds no text twice and no two neighbours, and fits into the budgets.
THEOREM ContextAlwaysFaithful == RetrievalSpec => []ContextFaithful
<1>1. RetrievalInv => ContextFaithful
  <2> SUFFICES ASSUME RetrievalInv, retrieval.at = "answered" PROVE
        /\ \A c \in Chosen : /\ c.document \notin Foreign
                             /\ c.version \in retrieval.since[c.document]..serving[c.document]
        /\ \A i, j \in DOMAIN retrieval.selected : i # j =>
              LET a == retrieval.selected[i]
                  b == retrieval.selected[j]
              IN Text(a) # Text(b) /\ <<a.document, a.passage>> # <<b.document, b.passage>> /\ ~Neighbours(a, b)
        /\ Len(retrieval.selected) <= Smaller(MaxChunks, retrieval.topK)
        /\ Chosen # {} => ContextSize(Chosen) <= CharBudget
    BY DEF ContextFaithful
  <2>1. retrieval \in RetrievalRecord /\ RowsServed /\ SelectionOK /\ AnsweredOK
    BY DEF RetrievalInv, RetrievalTypeOK
  <2> DEFINE q == retrieval.selected
  <2>2. q \in Seq(Chunks) /\ Len(q) \in Nat /\ DOMAIN q = 1..Len(q) /\ Chosen = {q[i] : i \in 1..Len(q)}
    BY <2>1 DEF RetrievalRecord, Chosen
  <2>3. ASSUME NEW i \in DOMAIN q, NEW j \in DOMAIN q, i # j
        PROVE  /\ Text(q[i]) # Text(q[j]) /\ ~Neighbours(q[i], q[j])
               /\ <<q[i].document, q[i].passage>> # <<q[j].document, q[j].passage>>
    <3>1. Text(q[i]) # Text(q[j]) /\ ~Neighbours(q[i], q[j])
      BY <2>1, <2>3 DEF SelectionOK
    <3> QED
      BY <3>1 DEF Text
  <2>4. Len(q) <= Smaller(MaxChunks, retrieval.topK)
    BY <2>1 DEF SelectionOK, AnsweredOK, Smaller
  <2>5. Chosen # {} => ContextSize(Chosen) <= CharBudget
    <3>1. ASSUME Chosen # {} PROVE Len(q) \in DOMAIN q
      BY <2>2, <3>1
    <3> QED
      BY <2>1, <2>2, <3>1 DEF SelectionOK
  <2> QED
    BY <2>1, <2>3, <2>4, <2>5 DEF RowsServed
<1> QED
  BY <1>1, RetrievalAlways, PTL

\* A retrieval says that it failed just when the vector source did, says that there is nothing
\* only when nothing was indexed as it began, and leaves its caller a usable transaction.
THEOREM StatusAlwaysTruthful == RetrievalSpec => []StatusTruthful
<1>1. RetrievalInv => StatusTruthful
  BY RetrievalAssumption
  DEF RetrievalInv, RetrievalTypeOK, RetrievalRecord, AnsweredOK, Indexed, StatusTruthful
<1> QED
  BY <1>1, RetrievalAlways, PTL

=============================================================================
