------------------------- MODULE AssessmentGrading -------------------------
(***************************************************************************)
(* One assessment: its creation under a request id and the submissions of  *)
(* answers to it.  Two services of the backend do this.                    *)
(*                                                                         *)
(*   "live"      assessment_service.py, the one the routers call: the      *)
(*               claim of the assessment, the graph and the results are    *)
(*               one transaction, so the row lock of the claim is held     *)
(*               until the results are committed.                          *)
(*   "workflow"  assessment_workflow_service.py: the claim is committed    *)
(*               with a lease, the grading runs outside any transaction    *)
(*               and its result is written by a second transaction that    *)
(*               checks the claim's token.                                 *)
(*                                                                         *)
(* An action is what a request does between two moments at which another   *)
(* request can run: a commit, a wait for a row lock, a call of a provider. *)
(* The session is made with expire_on_commit=False and a SELECT ... FOR    *)
(* UPDATE does not refresh an object the session already holds, so what a  *)
(* request compares after its second lock is what it loaded before: the    *)
(* field seen.  A rollback inside a transaction does expire the objects.   *)
(***************************************************************************)
EXTENDS Naturals, FiniteSets

CONSTANTS
  Handlers,     \* requests the server works on at one time
  Requests,     \* request ids of submissions
  MaxAttempts,  \* ASSESSMENT_GRADING_MAX_ATTEMPTS
  MaxTokens,    \* bound: claims of a behaviour
  MaxExpiries   \* bound: leases that run out

ASSUME AssessmentConstants ==
  /\ Requests # {} /\ MaxAttempts \in Nat \ {0}
  /\ {MaxTokens, MaxExpiries} \subseteq Nat

VARIABLES
  api,         \* which of the two services is deployed
  assessment,  \* the row: its status and the hash of the request that made it
  attempt,     \* per request id: the row of assessment_attempts
  handler,     \* per request being served: where it is and what it holds
  applied,     \* gradings written to answers and mastery: request id and claim token
  tokens, expiries

gradingVars == <<api, assessment, attempt, handler, applied, tokens, expiries>>
bounds == <<tokens, expiries>>

Payloads == {0, 1}
NoToken == 0
NoAttempt == [status |-> "none", hash |-> 0, token |-> NoToken, leased |-> FALSE,
              count |-> 0, reply |-> NoToken]
Idle == [pc |-> "idle", req |-> CHOOSE r \in Requests : TRUE, hash |-> 0,
         token |-> NoToken, seen |-> FALSE, outcome |-> "none"]

AssessmentInit ==
  /\ api \in {"live", "workflow"}
  /\ assessment = [status |-> "none", hash |-> 0]
  /\ attempt = [r \in Requests |-> NoAttempt]
  /\ handler = [h \in Handlers |-> Idle]
  /\ applied = {} /\ tokens = 0 /\ expiries = 0

(***************************************************************************)
(* Row locks.  A claim takes the assessment first and the attempt second;  *)
(* the end of a grading takes the attempt first.                           *)
(***************************************************************************)
HoldsAssessment(h) == handler[h].pc \in {"claiming", "running"}
HoldsAttempt(h, r) == handler[h].pc \in {"finalizing", "releasing"} /\ handler[h].req = r
AssessmentFree == \A h \in Handlers : ~HoldsAssessment(h)
AttemptFree(r) == \A h \in Handlers : ~HoldsAttempt(h, r)

\* The attempts a claim locks: the one of its request id, or else the one being graded.
ClaimLocks(r) == IF attempt[r].status # "none" THEN {r}
                 ELSE {q \in Requests : attempt[q].status = "grading"}

At(h, pc) == handler[h].pc = pc
Goto(h, pc) == handler' = [handler EXCEPT ![h].pc = pc]
Answer(h, outcome) ==
  handler' = [handler EXCEPT ![h] =
    [Idle EXCEPT !.req = handler[h].req, !.hash = handler[h].hash, !.outcome = outcome]]
Call(h, pc, r, hash) ==
  /\ At(h, "idle")
  /\ handler' = [handler EXCEPT ![h] = [Idle EXCEPT !.pc = pc, !.req = r, !.hash = hash]]

(***************************************************************************)
(* Creation                                                                *)
(***************************************************************************)

Exists == assessment.status # "none"

\* A request id that is known is answered from the row, or refused when its
\* payload differs.
FoundOutcome(hash) == IF assessment.hash = hash THEN "created" ELSE "conflict"

CreateFinds(h) ==
  \E hash \in Payloads :
    /\ At(h, "idle") /\ Exists
    /\ handler' = [handler EXCEPT ![h] =
         [Idle EXCEPT !.hash = hash, !.outcome = FoundOutcome(hash)]]
    /\ UNCHANGED <<api, assessment, attempt, applied, bounds>>

CreateGenerates(h) ==
  \E hash \in Payloads :
    /\ ~Exists
    /\ Call(h, "generating", Idle.req, hash)
    /\ UNCHANGED <<api, assessment, attempt, applied, bounds>>

\* Mutant: the row that is found after the collision is returned unseen.
CollisionAnswered(hash) == "created"

\* The other request's insert hits the unique index on the request id: the workflow
\* service reads the row again, the live one gives up.
CollisionOutcome(hash) == IF api = "live" THEN "error" ELSE FoundOutcome(hash)

CreateSaves(h) ==
  /\ At(h, "generating")
  /\ IF Exists
     THEN Answer(h, CollisionOutcome(handler[h].hash)) /\ UNCHANGED assessment
     ELSE /\ assessment' = [status |-> "active", hash |-> handler[h].hash]
          /\ Answer(h, "created")
  /\ UNCHANGED <<api, attempt, applied, bounds>>

CreateFails(h) ==
  /\ At(h, "generating")
  /\ Answer(h, "error")
  /\ UNCHANGED <<api, assessment, attempt, applied, bounds>>

(***************************************************************************)
(* Submission, live service                                                *)
(***************************************************************************)

LiveSubmit(h, r) ==
  \E hash \in Payloads :
    /\ api = "live" /\ Exists
    /\ IF attempt[r].status = "none"
       THEN Call(h, "waiting", r, hash)
       ELSE /\ At(h, "idle")
            /\ handler' = [handler EXCEPT ![h] =
                 [Idle EXCEPT !.req = r, !.hash = hash,
                    !.outcome = IF attempt[r].hash = hash THEN "graded" ELSE "conflict"]]
    /\ UNCHANGED <<api, assessment, attempt, applied, bounds>>

\* Mutant: the UPDATE is not conditional on the assessment being active.
MayAlwaysClaim == TRUE

\* The conditional UPDATE is the claim.  The row's lock, and with it the uncommitted
\* "submitted", is held by pc "running".
MayClaim == assessment.status = "active"

LiveClaims(h) ==
  /\ api = "live" /\ At(h, "waiting") /\ AssessmentFree
  /\ tokens < MaxTokens
  /\ IF MayClaim
     THEN /\ tokens' = tokens + 1
          /\ handler' = [handler EXCEPT ![h] = [@ EXCEPT !.pc = "running", !.token = tokens']]
     ELSE Answer(h, "conflict") /\ UNCHANGED tokens
  /\ UNCHANGED <<api, assessment, attempt, applied, expiries>>

LiveCommits(h) ==
  /\ At(h, "running")
  /\ assessment' = [assessment EXCEPT !.status = "graded"]
  /\ attempt' = [attempt EXCEPT ![handler[h].req] =
       [NoAttempt EXCEPT !.status = "graded", !.hash = handler[h].hash, !.reply = handler[h].token]]
  /\ applied' = applied \cup {<<handler[h].req, handler[h].token>>}
  /\ Answer(h, "graded")
  /\ UNCHANGED <<api, bounds>>

LiveFails(h) ==
  /\ At(h, "running")
  /\ Answer(h, "error")
  /\ UNCHANGED <<api, assessment, attempt, applied, bounds>>

(***************************************************************************)
(* Submission, workflow service: the claim                                 *)
(***************************************************************************)

ClaimBegins(h, r) ==
  \E hash \in Payloads :
    /\ api = "workflow" /\ Exists
    /\ Call(h, "waiting", r, hash)
    /\ UNCHANGED <<api, assessment, attempt, applied, bounds>>

ClaimLocksAssessment(h) ==
  /\ api = "workflow" /\ At(h, "waiting") /\ AssessmentFree
  /\ Goto(h, "claiming")
  /\ UNCHANGED <<api, assessment, attempt, applied, bounds>>

Done == {"graded", "review_required"}
\* Mutant: a request's own attempt may be claimed again at once.
NeverInProgress(r) == FALSE

InProgress(r) == attempt[r].status = "grading" /\ attempt[r].leased

\* active_attempt returns one of the attempts that are being graded, if there are any.
ActiveAttempts(r) ==
  LET grading == {q \in Requests : attempt[q].status = "grading"}
  IN IF grading = {} THEN {r} ELSE grading

\* What the claim answers at once, without a claim; "none" when it may claim.
ClaimVerdict(r, hash, active) ==
  LET mine == attempt[r] IN
  IF mine.status # "none" /\ mine.hash # hash          THEN "conflict"
  ELSE IF mine.status \in Done                         THEN "graded"
  ELSE IF InProgress(r)                                THEN "in_progress"
  ELSE IF mine.status # "none" /\ mine.count >= MaxAttempts THEN "exhausted"
  ELSE IF mine.status # "none"                         THEN "none"
  ELSE IF assessment.status \in Done \cup {"submitted"} THEN "conflict"
  ELSE IF InProgress(active)                           THEN "in_progress"
  ELSE IF MayClaim                                     THEN "none"
  ELSE "conflict"

ClaimRefused(h) ==
  LET r == handler[h].req IN
  /\ api = "workflow" /\ At(h, "claiming") /\ \A q \in ClaimLocks(r) : AttemptFree(q)
  /\ \E active \in ActiveAttempts(r) :
       LET verdict == ClaimVerdict(r, handler[h].hash, active) IN
       /\ verdict # "none"
       /\ Answer(h, verdict)
       /\ IF verdict = "exhausted"
          THEN /\ attempt' = [attempt EXCEPT ![r].status = "failed"]
               /\ assessment' = [assessment EXCEPT !.status = "active"]
          ELSE UNCHANGED <<attempt, assessment>>
  /\ UNCHANGED <<api, applied, bounds>>

\* create_claim writes a new attempt; reclaim_claim gives the request's own attempt a
\* new token and a new lease.
Claimed(r, hash, token) ==
  [attempt[r] EXCEPT !.status = "grading", !.hash = hash, !.token = token,
                     !.leased = TRUE, !.count = @ + 1]

\* Either way the assessment's row is set to "grading" in the same transaction.
ClaimedAssessment(r) == [assessment EXCEPT !.status = "grading"]

ClaimGranted(h) ==
  LET r == handler[h].req IN
  /\ api = "workflow" /\ At(h, "claiming") /\ \A q \in ClaimLocks(r) : AttemptFree(q)
  /\ \E active \in ActiveAttempts(r) : ClaimVerdict(r, handler[h].hash, active) = "none"
  /\ tokens < MaxTokens
  /\ tokens' = tokens + 1
  /\ attempt' = [attempt EXCEPT ![r] = Claimed(r, handler[h].hash, tokens')]
  /\ assessment' = ClaimedAssessment(r)
  /\ handler' = [handler EXCEPT ![h] = [@ EXCEPT !.pc = "claimed", !.token = tokens']]
  /\ UNCHANGED <<api, applied, expiries>>

(***************************************************************************)
(* Submission, workflow service: the grading and its end                   *)
(***************************************************************************)

\* Whether the attempt's row is still under the claim of this request.
Owns(h) == LET a == attempt[handler[h].req]
           IN a.status = "grading" /\ a.token = handler[h].token

LoadClaim(h) ==
  /\ At(h, "claimed")
  /\ handler' = [handler EXCEPT ![h] = [@ EXCEPT !.pc = "grading", !.seen = Owns(h)]]
  /\ UNCHANGED <<api, assessment, attempt, applied, bounds>>

GradeReturns(h) ==
  /\ At(h, "grading") /\ AttemptFree(handler[h].req)
  /\ Goto(h, "finalizing")
  /\ UNCHANGED <<api, assessment, attempt, applied, bounds>>

\* The provider's error leaves no transaction to roll back: seen stays what it was.
GradeRaises(h) ==
  /\ At(h, "grading")
  /\ Goto(h, "failing")
  /\ UNCHANGED <<api, assessment, attempt, applied, bounds>>

Finalize(h) ==
  /\ At(h, "finalizing") /\ AssessmentFree
  /\ handler[h].seen
  /\ \E status \in Done :
       /\ assessment' = [assessment EXCEPT !.status = status]
       /\ attempt' = [attempt EXCEPT ![handler[h].req] =
            [@ EXCEPT !.status = status, !.token = NoToken, !.leased = FALSE,
                      !.reply = handler[h].token]]
  /\ applied' = applied \cup {<<handler[h].req, handler[h].token>>}
  /\ Answer(h, "graded")
  /\ UNCHANGED <<api, bounds>>

\* The claim is lost, or the writing fails: the rollback expires what was loaded, so
\* that the comparison of the clean-up is made with the row.
FinalizeRaises(h) ==
  /\ At(h, "finalizing") /\ AssessmentFree
  /\ Goto(h, "failing fresh")
  /\ UNCHANGED <<api, assessment, attempt, applied, bounds>>

FailLocksAttempt(h) ==
  /\ handler[h].pc \in {"failing", "failing fresh"} /\ AttemptFree(handler[h].req)
  /\ handler' = [handler EXCEPT ![h] =
       [@ EXCEPT !.pc = "releasing",
                 !.seen = IF At(h, "failing") THEN handler[h].seen ELSE Owns(h)]]
  /\ UNCHANGED <<api, assessment, attempt, applied, bounds>>

FailClaim(h) ==
  /\ At(h, "releasing") /\ AssessmentFree
  /\ IF handler[h].seen
     THEN /\ attempt' = [attempt EXCEPT ![handler[h].req] =
               [@ EXCEPT !.status = "failed", !.token = NoToken, !.leased = FALSE]]
          /\ assessment' = [assessment EXCEPT !.status = "active"]
     ELSE UNCHANGED <<attempt, assessment>>
  /\ Answer(h, "error")
  /\ UNCHANGED <<api, applied, bounds>>

(***************************************************************************)
(* Faults                                                                  *)
(***************************************************************************)

LeaseExpires(r) ==
  /\ expiries < MaxExpiries /\ InProgress(r)
  /\ attempt' = [attempt EXCEPT ![r].leased = FALSE]
  /\ expiries' = expiries + 1
  /\ UNCHANGED <<api, assessment, handler, applied, tokens>>

Crash(h) ==
  /\ ~At(h, "idle")
  /\ Answer(h, "crashed")
  /\ UNCHANGED <<api, assessment, attempt, applied, tokens, expiries>>

\* A claim that waits for an attempt whose holder waits for the assessment: PostgreSQL
\* aborts one of the two.
Deadlock(h, k) ==
  /\ At(h, "claiming") /\ handler[k].pc \in {"finalizing", "releasing"}
  /\ handler[k].req \in ClaimLocks(handler[h].req)

ClaimAborted(h) ==
  /\ \E k \in Handlers : Deadlock(h, k)
  /\ Answer(h, "error")
  /\ UNCHANGED <<api, assessment, attempt, applied, bounds>>

\* The aborted finalization goes on to give its claim up; an aborted clean-up swallows
\* the error and leaves the attempt to its lease.
EndAborted(k) ==
  /\ \E h \in Handlers : Deadlock(h, k)
  /\ IF At(k, "finalizing") THEN Goto(k, "failing fresh") ELSE Answer(k, "error")
  /\ UNCHANGED <<api, assessment, attempt, applied, bounds>>

AssessmentNext ==
  \/ \E h \in Handlers :
       \/ CreateFinds(h) \/ CreateGenerates(h) \/ CreateSaves(h) \/ CreateFails(h)
       \/ \E r \in Requests : LiveSubmit(h, r) \/ ClaimBegins(h, r)
       \/ LiveClaims(h) \/ LiveCommits(h) \/ LiveFails(h)
       \/ ClaimLocksAssessment(h) \/ ClaimRefused(h) \/ ClaimGranted(h)
       \/ LoadClaim(h) \/ GradeReturns(h) \/ GradeRaises(h)
       \/ Finalize(h) \/ FinalizeRaises(h) \/ FailLocksAttempt(h) \/ FailClaim(h)
       \/ Crash(h) \/ ClaimAborted(h) \/ EndAborted(h)
  \/ \E r \in Requests : LeaseExpires(r)

AssessmentSpec == AssessmentInit /\ [][AssessmentNext]_gradingVars

-----------------------------------------------------------------------------
(***************************************************************************)
(* Properties                                                              *)
(***************************************************************************)

\* However the submissions are repeated, interleaved, refused, or interrupted by
\* deadlocks and crashes, the answers sent under a request id are graded, and their
\* evidence added to the learner's mastery, at most once while no lease has run out;
\* in the live service that holds for the assessment.
GradedOnce ==
  /\ expiries = 0 => \A r \in Requests : Cardinality({g \in applied : g[1] = r}) <= 1
  /\ api = "live" => Cardinality(applied) <= 1

\* A grader keeps its claim for as long as its lease lasts: no other request takes it
\* over, fails its attempt or ends it, whatever happens to either of them.
ClaimKeptUnderLease ==
  expiries = 0 => \A h \in Handlers :
    handler[h].pc \in {"claimed", "grading", "finalizing", "failing", "failing fresh", "releasing"}
      => Owns(h)

\* Whoever is given an assessment or a result under a request id asked for the payload
\* that made it, also when two requests race for the same id.
AnswersMatchPayload ==
  \A h \in Handlers :
    /\ handler[h].outcome = "created" => assessment.hash = handler[h].hash
    /\ handler[h].outcome = "graded" => attempt[handler[h].req].hash = handler[h].hash
=============================================================================
