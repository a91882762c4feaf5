-------------------------------- MODULE Onboarding --------------------------------
(***************************************************************************)
(* Diagnostic drafts and the workspaces they become                        *)
(* (application/onboarding_service.py): a model writes a draft, the        *)
(* learner's answers turn it into a goal with its plan, or into a new      *)
(* baseline of a goal there is.  Clients repeat a request under its        *)
(* request id when no answer came.  A transaction reads before the model   *)
(* is called and writes after it; unique indexes and one conditional       *)
(* UPDATE decide which of two overlapping requests wins.                   *)
(***************************************************************************)
EXTENDS Integers, Sequences

CONSTANTS
    Callers,        \* requests the server works on at the same time
    DraftIds,       \* request ids of drafts
    ApplyIds,       \* request ids of submissions
    Answers,        \* answer sheets
    MaxDrafts,      \* bound on the drafts
    MaxWorkspaces   \* bound on the baselines

ASSUME OnboardingAssumption == MaxDrafts \in Nat /\ MaxWorkspaces \in Nat

VARIABLES
    drafts,   \* user_diagnostic_drafts, in creation order
    diags,    \* baseline_diagnostics; each made a workspace, or rebased one
    call      \* the request each caller is in, with the baseline it was answered

onboardingVars == <<drafts, diags, call>>

\* Goal 0 asks for a new workspace; a workspace is named by its first baseline.
Goals  == {i \in DOMAIN diags : diags[i].goal = i}
NoCall == [pc |-> "idle", rid |-> "none", draft |-> 0, goal |-> 0, answers |-> "none", diag |-> 0]

OnboardingInit ==
    /\ drafts = <<>> /\ diags = <<>>
    /\ call = [p \in Callers |-> NoCall]

In(p, pc)         == call[p].pc = pc
Refused(p)        == call' = [call EXCEPT ![p] = NoCall]
Answered(p, c, i) == call' = [call EXCEPT ![p] = [c EXCEPT !.pc = "answered", !.diag = i]]
Free(p)           == In(p, "idle") \/ In(p, "answered")

DraftsOf(rid) == {d \in DOMAIN drafts : drafts[d].rid = rid}
DiagsOf(rid)  == {i \in DOMAIN diags : diags[i].rid = rid}

-----------------------------------------------------------------------------------
(* Drafts. *)

\* A draft request that finds its row is answered with it, and changes nothing; a new one
\* calls the model.
AskDraft(p, rid, goal) ==
    /\ Free(p) /\ DraftsOf(rid) = {} /\ goal \in Goals \cup {0}
    /\ call' = [call EXCEPT ![p] = [NoCall EXCEPT !.pc = "drafting", !.rid = rid, !.goal = goal]]
    /\ UNCHANGED <<drafts, diags>>

SaveDraft(p) ==
    /\ In(p, "drafting") /\ DraftsOf(call[p].rid) = {} /\ Len(drafts) < MaxDrafts
    /\ drafts' = Append(drafts, [rid |-> call[p].rid, goal |-> call[p].goal,
                                 used |-> FALSE, expired |-> FALSE])
    /\ Refused(p) /\ UNCHANGED diags

\* The unique index refuses the row: the other request's draft is the answer.
SaveDraftCollides(p) ==
    /\ In(p, "drafting") /\ DraftsOf(call[p].rid) # {}
    /\ Refused(p) /\ UNCHANGED <<drafts, diags>>

ExpireDraft(d) ==
    /\ d \in DOMAIN drafts /\ ~drafts[d].expired
    /\ drafts' = [drafts EXCEPT ![d].expired = TRUE]
    /\ UNCHANGED <<diags, call>>

-----------------------------------------------------------------------------------
(* A submission: initialize_from_draft, and reassess_from_draft of a goal. *)

SameGoal(c, i) == c.goal = 0 \/ diags[i].goal = c.goal

\* The request id alone decides, as it does for the versioned questionnaire.
ReplaysById(c, i) == TRUE

\* The baseline under the request id is the one the request c describes.
Replays(c, i) == diags[i].draft = c.draft /\ diags[i].answers = c.answers /\ SameGoal(c, i)

Replay(p, c) ==
    \E i \in DiagsOf(c.rid) : IF Replays(c, i) THEN Answered(p, c, i) ELSE Refused(p)

Submit(p, rid, d, goal, answers) ==
    /\ Free(p)
    /\ LET c == [pc |-> "checking", rid |-> rid, draft |-> d, goal |-> goal,
                 answers |-> answers, diag |-> 0]
       IN \/ Replay(p, c)
          \/ DiagsOf(rid) = {} /\ call' = [call EXCEPT ![p] = c]
    /\ UNCHANGED <<drafts, diags>>

\* A reassessment holds its goal FOR UPDATE until it ends, and looks again under the lock.
GoalHeldBy(p) == {q \in Callers \ {p} : In(q, "planning") /\ call[q].goal = call[p].goal}
GoalLocked(p) == call[p].goal # 0 /\ GoalHeldBy(p) # {}

CheckReplays(p) ==
    /\ In(p, "checking") /\ call[p].goal # 0 /\ ~GoalLocked(p) /\ Replay(p, call[p])
    /\ UNCHANGED <<drafts, diags>>

\* The claim looks at nothing: whoever read the draft unused may use it.
ClaimAny(p) == TRUE

Unused(p) == ~drafts[call[p].draft].used

Usable(p) ==
    LET draft == drafts[call[p].draft] IN
    ~draft.used /\ ~draft.expired /\ draft.goal = call[p].goal

CheckDraft(p) ==
    /\ In(p, "checking") /\ ~GoalLocked(p)
    /\ call[p].goal # 0 => DiagsOf(call[p].rid) = {}
    /\ IF Usable(p) THEN call' = [call EXCEPT ![p].pc = "planning"] ELSE Refused(p)
    /\ UNCHANGED <<drafts, diags>>

\* The baseline remembers the draft and the answers it was made from.
NewBaseline(c) ==
    [rid |-> c.rid, draft |-> c.draft, answers |-> c.answers,
     goal |-> IF c.goal = 0 THEN Len(diags) + 1 ELSE c.goal]

\* The rows of the workspace, then UPDATE ... WHERE consumed_at IS NULL, then the commit.
SaveWorkspace(p) ==
    /\ In(p, "planning") /\ DiagsOf(call[p].rid) = {} /\ Unused(p)
    /\ Len(diags) < MaxWorkspaces
    /\ diags' = Append(diags, NewBaseline(call[p]))
    /\ drafts' = [drafts EXCEPT ![call[p].draft].used = TRUE]
    /\ Answered(p, call[p], Len(diags) + 1)

\* Another request under the same id has committed meanwhile.
SaveCollides(p) ==
    /\ In(p, "planning") /\ Replay(p, call[p])
    /\ UNCHANGED <<drafts, diags>>

\* The claim finds the draft consumed: everything is rolled back.
SaveRefused(p) ==
    /\ In(p, "planning") /\ DiagsOf(call[p].rid) = {} /\ ~Unused(p)
    /\ Refused(p) /\ UNCHANGED <<drafts, diags>>

-----------------------------------------------------------------------------------
(* The versioned questionnaire, without a draft; its request id alone decides. *)

SubmitVersioned(p, rid) ==
    /\ Free(p)
    /\ call' = [call EXCEPT ![p] = [NoCall EXCEPT !.pc = "versioned", !.rid = rid]]
    /\ UNCHANGED <<drafts, diags>>

SaveVersioned(p) ==
    /\ In(p, "versioned") /\ DiagsOf(call[p].rid) = {} /\ Len(diags) < MaxWorkspaces
    /\ diags' = Append(diags, NewBaseline(call[p]))
    /\ Answered(p, call[p], Len(diags) + 1) /\ UNCHANGED drafts

\* Found before or after the collision, the row is the answer, whoever wrote it.
VersionedReplays(p) ==
    /\ In(p, "versioned") /\ \E i \in DiagsOf(call[p].rid) : Answered(p, call[p], i)
    /\ UNCHANGED <<drafts, diags>>

-----------------------------------------------------------------------------------

\* The model call fails, an answer sheet is refused, or the server dies: a rollback.
CallFails(p) ==
    /\ ~Free(p) /\ Refused(p)
    /\ UNCHANGED <<drafts, diags>>

CallStep(p) ==
    \/ \E rid \in DraftIds, goal \in Goals \cup {0} : AskDraft(p, rid, goal)
    \/ SaveDraft(p) \/ SaveDraftCollides(p)
    \/ \E rid \in ApplyIds, d \in DOMAIN drafts, goal \in Goals \cup {0}, answers \in Answers :
         Submit(p, rid, d, goal, answers)
    \/ CheckReplays(p) \/ CheckDraft(p)
    \/ SaveWorkspace(p) \/ SaveCollides(p) \/ SaveRefused(p)
    \/ \E rid \in ApplyIds : SubmitVersioned(p, rid)
    \/ SaveVersioned(p) \/ VersionedReplays(p) \/ CallFails(p)

OnboardingNext ==
    \/ \E p \in Callers : CallStep(p)
    \/ \E d \in DOMAIN drafts : ExpireDraft(d)

-----------------------------------------------------------------------------------
(* Properties. *)

\* A draft becomes one baseline at most, and is marked used exactly when it did, whatever
\* requests under other ids submit it at once (onboarding_service.py:392-408).
DraftMakesOneWorkspace ==
    \A d \in DOMAIN drafts : \A i, j \in DOMAIN diags :
        /\ diags[i].draft = d => drafts[d].used
        /\ (diags[i].draft = d /\ diags[j].draft = d) => i = j

\* Who submitted a draft is answered with the baseline of that draft, those answers and that
\* goal, or with none: an answer never belongs to another request that met its request id
\* (onboarding_service.py:347-354, 411-424).
ReplayTruthful ==
    \A p \in Callers : (In(p, "answered") /\ call[p].draft # 0) =>
        LET diag == diags[call[p].diag] IN
        /\ diag.draft = call[p].draft /\ diag.answers = call[p].answers
        /\ call[p].goal # 0 => diag.goal = call[p].goal

=============================================================================
