--------------------------- MODULE WorkspaceProofs ---------------------------
(***************************************************************************)
(* Proofs about Onboarding, DocumentUploads and McpServers, for any        *)
(* callers, request ids, uploads, commands, tools and bounds.  Onboarding: *)
(* a draft becomes one baseline, and nobody is answered with the baseline  *)
(* of another request.  Uploads: what a request leaves in the two stores,  *)
(* inline or queued, whatever the number of faults.  MCP servers: no       *)
(* overlap of updates, confirmations and connections starts a command the  *)
(* learner has not asked to trust.                                         *)
(***************************************************************************)
EXTENDS Onboarding, DocumentUploads, McpServers, TLAPS

-----------------------------------------------------------------------------
(* Onboarding. *)

OnboardingSpec == OnboardingInit /\ [][OnboardingNext]_onboardingVars

RequestIds == DraftIds \cup ApplyIds \cup {"none"}
Sheets     == Answers \cup {"none"}
DraftRow   == [rid : RequestIds, goal : Nat, used : BOOLEAN, expired : BOOLEAN]
DiagRow    == [rid : RequestIds, draft : Nat, answers : Sheets, goal : Nat]
CallRow    == [pc : {"idle", "drafting", "checking", "planning", "versioned", "answered"},
               rid : RequestIds, draft : Nat, goal : Nat, answers : Sheets, diag : Nat]

OnboardingTypeOK ==
  /\ drafts \in Seq(DraftRow) /\ diags \in Seq(DiagRow)
  /\ call \in [Callers -> CallRow]

\* A submission keeps to its draft, and is answered with the baseline it describes.
CallOK(c) ==
  /\ c.pc \in {"checking", "planning"} => c.draft \in DOMAIN drafts
  /\ c.pc = "versioned" => c.draft = 0
  /\ (c.pc = "answered" /\ c.draft # 0) => (c.diag \in DOMAIN diags /\ Replays(c, c.diag))

\* A baseline was made from no draft or from one there is, which is used and made no other.
DiagsOK ==
  \A i \in DOMAIN diags :
    /\ diags[i].draft # 0 => (diags[i].draft \in DOMAIN drafts /\ drafts[diags[i].draft].used)
    /\ \A j \in DOMAIN diags :
         (diags[i].draft = diags[j].draft /\ diags[i].draft # 0) => i = j

OnboardingInv == OnboardingTypeOK /\ DiagsOK /\ \A p \in Callers : CallOK(call[p])

-----------------------------------------------------------------------------
\* At the start there are no drafts, no baselines and no requests.
LEMMA OnboardingInitially == OnboardingInit => OnboardingInv
BY DEF OnboardingInit, OnboardingInv, OnboardingTypeOK, DiagsOK, CallOK, NoCall, CallRow,
       RequestIds, Sheets

\* No request at all is a request.
LEMMA NoCallOK == NoCall \in CallRow /\ CallOK(NoCall)
BY DEF NoCall, CallRow, CallOK, RequestIds, Sheets

\* A step that only puts a request into a caller's slot needs to look at that request alone.
LEMMA CallChanges ==
  ASSUME OnboardingInv, NEW p \in Callers, NEW c \in CallRow, CallOK(c),
         call' = [call EXCEPT ![p] = c], UNCHANGED <<drafts, diags>>
  PROVE  OnboardingInv'
<1>1. call' \in [Callers -> CallRow]
  BY DEF OnboardingInv, OnboardingTypeOK
<1>2. \A q \in Callers : call'[q] = IF q = p THEN c ELSE call[q]
  BY DEF OnboardingInv, OnboardingTypeOK
<1>3. ASSUME NEW q \in Callers PROVE CallOK(call[q])'
  <2>1. CallOK(call'[q])
    BY <1>2 DEF OnboardingInv
  <2> QED
    BY <2>1 DEF CallOK, Replays, SameGoal
<1>4. OnboardingTypeOK' /\ DiagsOK'
  BY <1>1 DEF OnboardingInv, OnboardingTypeOK, DiagsOK
<1> QED
  BY <1>3, <1>4 DEF OnboardingInv

\* A refusal leaves no request.
LEMMA RefusalKeeps ==
  ASSUME OnboardingInv, NEW p \in Callers, Refused(p), UNCHANGED <<drafts, diags>>
  PROVE  OnboardingInv'
BY NoCallOK, CallChanges DEF Refused

\* A replay answers with the baseline the request describes, or refuses.
LEMMA ReplayKeeps ==
  ASSUME OnboardingInv, NEW p \in Callers, NEW c \in CallRow,
         Replay(p, c), UNCHANGED <<drafts, diags>>
  PROVE  OnboardingInv'
<1>1. PICK i \in DiagsOf(c.rid) : IF Replays(c, i) THEN Answered(p, c, i) ELSE Refused(p)
  BY DEF Replay
<1>2. CASE Replays(c, i) /\ Answered(p, c, i)
  <2> DEFINE a == [c EXCEPT !.pc = "answered", !.diag = i]
  <2>1. i \in DOMAIN diags /\ i \in Nat
    BY DEF DiagsOf, OnboardingInv, OnboardingTypeOK
  <2>2. a \in CallRow
    BY <2>1 DEF CallRow
  <2>3. a.pc = "answered" /\ a.diag = i /\ Replays(a, i)
    BY <1>2 DEF CallRow, Replays, SameGoal
  <2>4. CallOK(a)
    BY <2>1, <2>3 DEF CallOK
  <2> HIDE DEF a
  <2>5. call' = [call EXCEPT ![p] = a]
    BY <1>2 DEF Answered, a
  <2> QED
    BY <2>2, <2>4, <2>5, CallChanges
<1>3. CASE Refused(p)
  BY <1>3, RefusalKeeps
<1> QED
  BY <1>1, <1>2, <1>3

\* What a request stays when it moves on within its draft.
LEMMA CallTyped ==
  ASSUME OnboardingInv, NEW p \in Callers
  PROVE  call[p] \in CallRow /\ CallOK(call[p])
BY DEF OnboardingInv, OnboardingTypeOK

-----------------------------------------------------------------------------
\* A goal is named by a position among the baselines.
LEMMA GoalsAreNat == ASSUME OnboardingInv PROVE Goals \cup {0} \subseteq Nat
BY DEF Goals, OnboardingInv, OnboardingTypeOK

\* Requests that only look at the rows, or are refused, keep everything.
LEMMA LooksKeep ==
  ASSUME OnboardingInv, NEW p \in Callers,
         \/ \E rid \in DraftIds, goal \in Goals \cup {0} : AskDraft(p, rid, goal)
         \/ SaveDraftCollides(p) \/ CheckReplays(p) \/ CheckDraft(p) \/ SaveCollides(p)
         \/ SaveRefused(p) \/ \E rid \in ApplyIds : SubmitVersioned(p, rid)
         \/ VersionedReplays(p) \/ CallFails(p)
  PROVE  OnboardingInv'
<1>1. ASSUME NEW rid \in DraftIds, NEW goal \in Goals \cup {0}, AskDraft(p, rid, goal)
      PROVE  OnboardingInv'
  <2> DEFINE c == [NoCall EXCEPT !.pc = "drafting", !.rid = rid, !.goal = goal]
  <2>1. c \in CallRow /\ CallOK(c)
    BY GoalsAreNat DEF NoCall, CallRow, CallOK, RequestIds, Sheets
  <2>2. call' = [call EXCEPT ![p] = c] /\ UNCHANGED <<drafts, diags>>
    BY <1>1 DEF AskDraft
  <2> HIDE DEF c
  <2> QED
    BY <2>1, <2>2, CallChanges
<1>2. CASE SaveDraftCollides(p) \/ SaveRefused(p) \/ CallFails(p)
  BY <1>2, RefusalKeeps DEF SaveDraftCollides, SaveRefused, CallFails
<1>3. CASE CheckReplays(p) \/ SaveCollides(p)
  BY <1>3, ReplayKeeps, CallTyped DEF CheckReplays, SaveCollides
<1>4. CASE CheckDraft(p)
  <2>1. CASE Usable(p)
    <3> DEFINE c == [call[p] EXCEPT !.pc = "planning"]
    <3>1. call' = [call EXCEPT ![p] = c] /\ UNCHANGED <<drafts, diags>>
      BY <1>4, <2>1 DEF CheckDraft, OnboardingInv, OnboardingTypeOK
    <3>2. call[p].draft \in DOMAIN drafts
      BY <1>4, CallTyped DEF CheckDraft, In, CallOK
    <3>3. c \in CallRow /\ CallOK(c)
      BY <3>2, CallTyped DEF CallRow, CallOK
    <3> HIDE DEF c
    <3> QED
      BY <3>1, <3>3, CallChanges
  <2>2. CASE ~Usable(p)
    BY <1>4, <2>2, RefusalKeeps DEF CheckDraft
  <2> QED
    BY <2>1, <2>2
<1>5. ASSUME NEW rid \in ApplyIds, SubmitVersioned(p, rid) PROVE OnboardingInv'
  <2> DEFINE c == [NoCall EXCEPT !.pc = "versioned", !.rid = rid]
  <2>1. c \in CallRow /\ CallOK(c)
    BY DEF NoCall, CallRow, CallOK, RequestIds, Sheets
  <2>2. call' = [call EXCEPT ![p] = c] /\ UNCHANGED <<drafts, diags>>
    BY <1>5 DEF SubmitVersioned
  <2> HIDE DEF c
  <2> QED
    BY <2>1, <2>2, CallChanges
<1>6. CASE VersionedReplays(p)
  <2>1. PICK i \in DiagsOf(call[p].rid) : Answered(p, call[p], i)
    BY <1>6 DEF VersionedReplays
  <2> DEFINE c == [call[p] EXCEPT !.pc = "answered", !.diag = i]
  <2>2. i \in Nat
    BY DEF DiagsOf, OnboardingInv, OnboardingTypeOK
  <2>3. call[p].draft = 0
    BY <1>6, CallTyped DEF VersionedReplays, In, CallOK
  <2>4. c \in CallRow /\ CallOK(c)
    BY <2>2, <2>3, CallTyped DEF CallRow, CallOK
  <2>5. call' = [call EXCEPT ![p] = c] /\ UNCHANGED <<drafts, diags>>
    BY <1>6, <2>1 DEF VersionedReplays, Answered
  <2> HIDE DEF c
  <2> QED
    BY <2>4, <2>5, CallChanges
<1> QED
  BY <1>1, <1>2, <1>3, <1>4, <1>5, <1>6

\* A submission is answered with a baseline it describes, or begins with a draft there is.
LEMMA SubmitKeeps ==
  ASSUME OnboardingInv, NEW p \in Callers, NEW rid \in ApplyIds, NEW d \in DOMAIN drafts,
         NEW goal \in Goals \cup {0}, NEW answers \in Answers,
         Submit(p, rid, d, goal, answers)
  PROVE  OnboardingInv'
<1> DEFINE c == [pc |-> "checking", rid |-> rid, draft |-> d, goal |-> goal,
                 answers |-> answers, diag |-> 0]
<1>1. d \in Nat
  BY DEF OnboardingInv, OnboardingTypeOK
<1>2. c \in CallRow /\ CallOK(c)
  BY <1>1, GoalsAreNat DEF CallRow, CallOK, RequestIds, Sheets
<1>3. /\ Replay(p, c) \/ call' = [call EXCEPT ![p] = c]
      /\ UNCHANGED <<drafts, diags>>
  BY DEF Submit
<1> HIDE DEF c
<1> QED
  BY <1>2, <1>3, ReplayKeeps, CallChanges

\* A new draft, or one that expires, changes no baseline and no draft's use.
LEMMA DraftsKeep ==
  ASSUME OnboardingInv,
         \/ \E p \in Callers : SaveDraft(p)
         \/ \E d \in DOMAIN drafts : ExpireDraft(d)
  PROVE  OnboardingInv'
<1>1. ASSUME NEW p \in Callers, SaveDraft(p) PROVE OnboardingInv'
  <2> DEFINE row == [rid |-> call[p].rid, goal |-> call[p].goal, used |-> FALSE,
                     expired |-> FALSE]
  <2>1. row \in DraftRow
    BY CallTyped DEF CallRow, DraftRow
  <2>2. drafts' = Append(drafts, row) /\ UNCHANGED diags /\ Refused(p)
    BY <1>1 DEF SaveDraft
  <2> HIDE DEF row
  <2>3. /\ drafts' \in Seq(DraftRow) /\ DOMAIN drafts \subseteq DOMAIN drafts'
        /\ \A d \in DOMAIN drafts : drafts'[d] = drafts[d]
    BY <2>1, <2>2 DEF OnboardingInv, OnboardingTypeOK
  <2>4. /\ call' \in [Callers -> CallRow] /\ call'[p] = NoCall
        /\ \A q \in Callers \ {p} : call'[q] = call[q]
    BY <2>2, NoCallOK DEF Refused, OnboardingInv, OnboardingTypeOK
  <2>5. ASSUME NEW q \in Callers PROVE CallOK(call[q])'
    BY <2>2, <2>3, <2>4, CallTyped DEF CallOK, Replays, SameGoal, NoCall
  <2>6. DiagsOK'
    BY <2>2, <2>3 DEF DiagsOK, OnboardingInv
  <2> QED
    BY <2>2, <2>3, <2>4, <2>5, <2>6 DEF OnboardingInv, OnboardingTypeOK
<1>2. ASSUME NEW d \in DOMAIN drafts, ExpireDraft(d) PROVE OnboardingInv'
  <2>1. drafts' = [drafts EXCEPT ![d] = [@ EXCEPT !.expired = TRUE]] /\ UNCHANGED <<diags, call>>
    BY <1>2 DEF ExpireDraft, OnboardingInv, OnboardingTypeOK
  <2>2. drafts[d] \in DraftRow
    BY DEF OnboardingInv, OnboardingTypeOK
  <2>3. /\ [drafts[d] EXCEPT !.expired = TRUE] \in DraftRow
        /\ [drafts[d] EXCEPT !.expired = TRUE].used = drafts[d].used
    BY <2>2 DEF DraftRow
  <2>4. /\ drafts' \in Seq(DraftRow) /\ DOMAIN drafts' = DOMAIN drafts
        /\ \A e \in DOMAIN drafts : drafts'[e].used = drafts[e].used
    BY <2>1, <2>3 DEF OnboardingInv, OnboardingTypeOK
  <2>5. ASSUME NEW q \in Callers PROVE CallOK(call[q])'
    BY <2>1, <2>4, CallTyped DEF CallOK, Replays, SameGoal
  <2>6. DiagsOK'
    BY <2>1, <2>4 DEF DiagsOK, OnboardingInv
  <2> QED
    BY <2>1, <2>4, <2>5, <2>6 DEF OnboardingInv, OnboardingTypeOK
<1> QED
  BY <1>1, <1>2

\* A baseline appended for a request answers that request and leaves the older ones alone.
LEMMA BaselineAppended ==
  ASSUME OnboardingInv, NEW p \in Callers,
         diags' = Append(diags, NewBaseline(call[p])),
         Answered(p, call[p], Len(diags) + 1),
         DOMAIN drafts' = DOMAIN drafts
  PROVE  /\ diags' \in Seq(DiagRow) /\ call' \in [Callers -> CallRow]
         /\ DOMAIN diags' = DOMAIN diags \cup {Len(diags) + 1}
         /\ Len(diags) + 1 \notin DOMAIN diags
         /\ diags'[Len(diags) + 1].draft = call[p].draft
         /\ \A i \in DOMAIN diags : diags'[i] = diags[i]
         /\ \A q \in Callers : CallOK(call[q])'
<1> DEFINE n == Len(diags) + 1
           b == NewBaseline(call[p])
           a == [call[p] EXCEPT !.pc = "answered", !.diag = n]
<1>0. call[p] \in CallRow /\ CallOK(call[p]) /\ n \in Nat
  BY CallTyped DEF OnboardingInv, OnboardingTypeOK
<1>1. /\ b \in DiagRow /\ b.draft = call[p].draft /\ b.answers = call[p].answers
      /\ call[p].goal # 0 => b.goal = call[p].goal
  BY <1>0 DEF NewBaseline, CallRow, DiagRow
<1>2. /\ a \in CallRow /\ a.pc = "answered" /\ a.diag = n /\ a.draft = call[p].draft
      /\ a.answers = call[p].answers /\ a.goal = call[p].goal
  BY <1>0 DEF CallRow
<1>3. call' = [call EXCEPT ![p] = a] /\ diags' = Append(diags, b)
  BY DEF Answered
<1> HIDE DEF a, b
<1>4. /\ diags' \in Seq(DiagRow) /\ DOMAIN diags' = DOMAIN diags \cup {n}
      /\ n \notin DOMAIN diags /\ diags'[n] = b
      /\ \A i \in DOMAIN diags : diags'[i] = diags[i]
  BY <1>1, <1>3 DEF OnboardingInv, OnboardingTypeOK
<1>5. /\ call' \in [Callers -> CallRow] /\ call'[p] = a
      /\ \A q \in Callers \ {p} : call'[q] = call[q]
  BY <1>2, <1>3 DEF OnboardingInv, OnboardingTypeOK
<1> HIDE DEF n
<1>6. CallOK(call[p])'
  BY <1>1, <1>2, <1>4, <1>5 DEF CallOK, Replays, SameGoal
<1>7. ASSUME NEW q \in Callers \ {p} PROVE CallOK(call[q])'
  BY <1>4, <1>5, CallTyped DEF CallOK, Replays, SameGoal
<1> QED
  BY <1>1, <1>4, <1>5, <1>6, <1>7 DEF n

\* A workspace takes a draft that made none, and a versioned one takes none.
LEMMA SavesKeep ==
  ASSUME OnboardingInv, NEW p \in Callers, SaveWorkspace(p) \/ SaveVersioned(p)
  PROVE  OnboardingInv'
<1>1. CASE SaveWorkspace(p)
  <2> DEFINE d == call[p].draft
  <2>1. d \in DOMAIN drafts /\ ~drafts[d].used /\ d \in Nat \ {0}
    BY <1>1, CallTyped DEF SaveWorkspace, In, Unused, CallOK, OnboardingInv, OnboardingTypeOK
  <2> DEFINE row == [drafts[d] EXCEPT !.used = TRUE]
  <2>2. drafts' = [drafts EXCEPT ![d] = row]
    BY <1>1, <2>1 DEF SaveWorkspace, OnboardingInv, OnboardingTypeOK
  <2>3. drafts[d] \in DraftRow
    BY <2>1 DEF OnboardingInv, OnboardingTypeOK
  <2>4. row \in DraftRow /\ row.used
    BY <2>3 DEF DraftRow
  <2> HIDE DEF row
  <2>5. /\ drafts' \in Seq(DraftRow) /\ DOMAIN drafts' = DOMAIN drafts /\ drafts'[d].used
        /\ \A e \in DOMAIN drafts \ {d} : drafts'[e] = drafts[e]
    BY <2>1, <2>2, <2>4 DEF OnboardingInv, OnboardingTypeOK
  <2>6. diags' = Append(diags, NewBaseline(call[p])) /\ Answered(p, call[p], Len(diags) + 1)
    BY <1>1 DEF SaveWorkspace
  <2>7. /\ diags' \in Seq(DiagRow) /\ call' \in [Callers -> CallRow]
        /\ DOMAIN diags' = DOMAIN diags \cup {Len(diags) + 1}
        /\ Len(diags) + 1 \notin DOMAIN diags /\ diags'[Len(diags) + 1].draft = d
        /\ \A i \in DOMAIN diags : diags'[i] = diags[i]
        /\ \A q \in Callers : CallOK(call[q])'
    BY <2>5, <2>6, BaselineAppended
  <2>8. \A i \in DOMAIN diags : diags[i].draft # d
    BY <2>1 DEF OnboardingInv, DiagsOK
  <2> HIDE DEF d
  <2>9. DiagsOK'
    BY <2>1, <2>5, <2>7, <2>8 DEF OnboardingInv, DiagsOK
  <2> QED
    BY <2>5, <2>7, <2>9 DEF OnboardingInv, OnboardingTypeOK
<1>2. CASE SaveVersioned(p)
  <2>1. call[p].draft = 0 /\ drafts' = drafts
    BY <1>2, CallTyped DEF SaveVersioned, In, CallOK
  <2>2. diags' = Append(diags, NewBaseline(call[p])) /\ Answered(p, call[p], Len(diags) + 1)
    BY <1>2 DEF SaveVersioned
  <2>3. /\ diags' \in Seq(DiagRow) /\ call' \in [Callers -> CallRow]
        /\ DOMAIN diags' = DOMAIN diags \cup {Len(diags) + 1}
        /\ Len(diags) + 1 \notin DOMAIN diags /\ diags'[Len(diags) + 1].draft = 0
        /\ \A i \in DOMAIN diags : diags'[i] = diags[i]
        /\ \A q \in Callers : CallOK(call[q])'
    BY <2>1, <2>2, BaselineAppended
  <2>4. DiagsOK'
    BY <2>1, <2>3 DEF OnboardingInv, DiagsOK
  <2> QED
    BY <2>1, <2>3, <2>4 DEF OnboardingInv, OnboardingTypeOK
<1> QED
  BY <1>1, <1>2

\* Every step keeps drafts, baselines and answers together.
LEMMA OnboardingInductive == OnboardingInv /\ [OnboardingNext]_onboardingVars => OnboardingInv'
<1> SUFFICES ASSUME OnboardingInv, [OnboardingNext]_onboardingVars PROVE OnboardingInv'
  OBVIOUS
<1>1. CASE UNCHANGED onboardingVars
  BY <1>1 DEF onboardingVars, OnboardingInv, OnboardingTypeOK, DiagsOK, CallOK, Replays, SameGoal
<1>2. ASSUME NEW p \in Callers, CallStep(p) PROVE OnboardingInv'
  BY <1>2, LooksKeep, SubmitKeeps, DraftsKeep, SavesKeep DEF CallStep
<1>3. CASE \E d \in DOMAIN drafts : ExpireDraft(d)
  BY <1>3, DraftsKeep
<1> QED
  BY <1>1, <1>2, <1>3 DEF OnboardingNext

\* However submissions under different request ids overlap, a draft becomes one baseline at
\* most and is marked used exactly then (onboarding_service.py:392-408).
THEOREM DraftsMakeOneWorkspace == OnboardingSpec => []DraftMakesOneWorkspace
<1>1. OnboardingInv => DraftMakesOneWorkspace
  BY DEF OnboardingInv, OnboardingTypeOK, DiagsOK, DraftMakesOneWorkspace
<1> QED
  BY <1>1, OnboardingInitially, OnboardingInductive, PTL DEF OnboardingSpec

\* A submission of a draft is never answered with the baseline of another one that met its
\* request id (onboarding_service.py:347-354, 411-424).
THEOREM ReplaysAreTruthful == OnboardingSpec => []ReplayTruthful
<1>1. OnboardingInv => ReplayTruthful
  BY DEF OnboardingInv, CallOK, Replays, SameGoal, ReplayTruthful, In
<1> QED
  BY <1>1, OnboardingInitially, OnboardingInductive, PTL DEF OnboardingSpec

-----------------------------------------------------------------------------
(* Uploads. *)

UploadSpec == UploadInit /\ [][UploadNext]_uploadVars

UploadTypeOK ==
  /\ objects \subseteq Uploads /\ rows \subseteq Uploads /\ waiting \subseteq Uploads
  /\ upload \in [Uploads -> [pc : {"put", "insert", "processing", "commit", "drop"} \cup Over,
                             mode : Modes]]
  /\ marred \in [Uploads -> {"no", "unsure", "leak", "broken"}]

\* What a request has left in the two stores, by the step it is at.
Left(u) ==
  /\ upload[u].pc = "put" => u \notin objects /\ u \notin rows
  /\ upload[u].pc \in {"insert", "processing", "commit"} => u \in objects /\ u \notin rows
  /\ upload[u].pc = "done" => u \in objects /\ u \in rows
  /\ (upload[u].pc = "drop" /\ u \in rows) => (marred[u] = "unsure" /\ u \in objects)
  /\ upload[u].pc = "failed" =>
       /\ (u \in rows /\ marred[u] # "unsure") => u \in objects
       /\ marred[u] = "no" => u \notin objects /\ u \notin rows

UploadInv ==
  /\ UploadTypeOK
  /\ \A u \in Uploads : Left(u) /\ (u \in waiting => upload[u].pc = "processing")

-----------------------------------------------------------------------------
\* At the start no request has done anything.
LEMMA UploadInitially == UploadInit => UploadInv
BY DEF UploadInit, UploadInv, UploadTypeOK, Left, Modes, Over

\* Every step keeps the types.
LEMMA UploadTypes ==
  ASSUME UploadInv, NEW u \in Uploads, UploadStep(u)
  PROVE  UploadTypeOK'
<1> USE DEF UploadInv, UploadTypeOK, Moves, Is, Over, Modes
<1>1. CASE PutObject(u) \/ PutUnavailable(u) \/ PutBreaks(u) \/ InsertRow(u)
  BY <1>1 DEF PutObject, PutUnavailable, PutBreaks, InsertRow
<1>2. CASE AskLearnerRow(u) \/ ParseFails(u) \/ GetLearnerRow(u)
  BY <1>2 DEF AskLearnerRow, ParseFails, GetLearnerRow
<1>3. CASE DeadlockAborts(u) \/ UploadFails(u)
  BY <1>3 DEF DeadlockAborts, UploadFails, Compensates
<1>4. CASE UploadCommits(u) \/ UploadUnsure(u)
  BY <1>4 DEF UploadCommits, UploadUnsure, Compensates, UploadFault
<1>5. CASE DropObject(u) \/ DropFails(u) \/ UploadDies(u)
  BY <1>5 DEF DropObject, DropFails, UploadDies, UploadFault
<1> QED
  BY <1>1, <1>2, <1>3, <1>4, <1>5 DEF UploadStep

\* A step of one upload leaves what the others have in the stores alone.
LEMMA UploadFrame ==
  ASSUME UploadInv, NEW u \in Uploads, UploadStep(u), NEW v \in Uploads \ {u}
  PROVE  /\ upload[v]' = upload[v] /\ marred[v]' = marred[v]
         /\ (v \in objects)' <=> v \in objects
         /\ (v \in rows)' <=> v \in rows
         /\ (v \in waiting)' => v \in waiting
<1> USE DEF UploadInv, UploadTypeOK, Moves, Is
<1>1. CASE PutObject(u) \/ PutUnavailable(u) \/ PutBreaks(u) \/ InsertRow(u)
  BY <1>1 DEF PutObject, PutUnavailable, PutBreaks, InsertRow
<1>2. CASE AskLearnerRow(u) \/ ParseFails(u) \/ GetLearnerRow(u)
  BY <1>2 DEF AskLearnerRow, ParseFails, GetLearnerRow
<1>3. CASE DeadlockAborts(u) \/ UploadFails(u)
  BY <1>3 DEF DeadlockAborts, UploadFails, Compensates
<1>4. CASE UploadCommits(u) \/ UploadUnsure(u)
  BY <1>4 DEF UploadCommits, UploadUnsure, Compensates, UploadFault
<1>5. CASE DropObject(u) \/ DropFails(u) \/ UploadDies(u)
  BY <1>5 DEF DropObject, DropFails, UploadDies, UploadFault
<1> QED
  BY <1>1, <1>2, <1>3, <1>4, <1>5 DEF UploadStep

\* A step of an upload leaves its own objects and row as its next step needs them.
LEMMA UploadOwn ==
  ASSUME UploadInv, NEW u \in Uploads, UploadStep(u)
  PROVE  Left(u)' /\ ((u \in waiting)' => upload[u].pc' = "processing")
<1>0. /\ Left(u) /\ (u \in waiting => upload[u].pc = "processing") /\ UploadTypeOK
  BY DEF UploadInv
<1> USE <1>0 DEF UploadTypeOK, Left, Moves, Is, Over, Modes
<1>1. CASE PutObject(u) \/ PutUnavailable(u) \/ PutBreaks(u) \/ InsertRow(u)
  BY <1>1 DEF PutObject, PutUnavailable, PutBreaks, InsertRow
<1>2. CASE AskLearnerRow(u) \/ ParseFails(u) \/ GetLearnerRow(u)
  BY <1>2 DEF AskLearnerRow, ParseFails, GetLearnerRow
<1>3. CASE DeadlockAborts(u) \/ UploadFails(u)
  BY <1>3 DEF DeadlockAborts, UploadFails, Compensates
<1>4. CASE UploadCommits(u) \/ UploadUnsure(u)
  BY <1>4 DEF UploadCommits, UploadUnsure, Compensates, UploadFault
<1>5. CASE DropObject(u) \/ DropFails(u) \/ UploadDies(u)
  BY <1>5 DEF DropObject, DropFails, UploadDies, UploadFault
<1> QED
  BY <1>1, <1>2, <1>3, <1>4, <1>5 DEF UploadStep

\* What a request has left, at each of its steps, is kept by every step.
LEMMA UploadInductive == UploadInv /\ [UploadNext]_uploadVars => UploadInv'
<1> SUFFICES ASSUME UploadInv, [UploadNext]_uploadVars PROVE UploadInv'
  OBVIOUS
<1>1. CASE UNCHANGED uploadVars
  BY <1>1 DEF uploadVars, UploadInv, UploadTypeOK, Left
<1>2. ASSUME NEW u \in Uploads, UploadStep(u) PROVE UploadInv'
  <2>1. UploadTypeOK'
    BY <1>2, UploadTypes
  <2>2. ASSUME NEW v \in Uploads
        PROVE Left(v)' /\ ((v \in waiting)' => upload[v].pc' = "processing")
    <3>1. CASE v = u
      BY <1>2, <3>1, UploadOwn
    <3>2. CASE v # u
      BY <1>2, <3>2, UploadFrame DEF Left, UploadInv
    <3> QED
      BY <3>1, <3>2
  <2> QED
    BY <2>1, <2>2 DEF UploadInv
<1> QED
  BY <1>1, <1>2 DEF UploadNext

\* What each request has left in the stores fits the step it is at, for every interleaving
\* of uploads, deadlocks and faults (create_document_record).
THEOREM UploadInvariance == UploadSpec => []UploadInv
BY UploadInitially, UploadInductive, PTL DEF UploadSpec

\* A committed document has its object, and an upload that is over without a row has left
\* none, apart from the faults the property names (document_service.py:206-286).
THEOREM ObjectsMatchRows == UploadSpec => []ObjectMatchesRow
<1>1. UploadInv => ObjectMatchesRow
  BY DEF UploadInv, UploadTypeOK, Left, ObjectMatchesRow, Over
<1> QED
  BY <1>1, UploadInvariance, PTL

-----------------------------------------------------------------------------
(* MCP servers. *)

McpSpec == McpInit /\ [][McpNext]_mcpVars

ToolRow == [row : Nat, on : BOOLEAN]
Task ==
  [pc : {"idle", "write", "running", "failing", "replacing"},
   kind : {"none", "update", "trust", "test", "discover", "call"},
   command : Endpoints \cup {"none"}, fingerprint : Commands \cup {"none"},
   new : Endpoints \cup {"none"}, seen : [Tools -> ToolRow], answer : SUBSET Tools]

McpTypeOK ==
  /\ server \in [exists : BOOLEAN, command : Endpoints, fingerprint : Commands \cup {"none"},
                 enabled : BOOLEAN, tested : {"none", "success", "failed"}]
  /\ catalog \in [Tools -> ToolRow] /\ made \in Nat
  /\ mcp \in [McpRequests -> Task]
  /\ confirmed \subseteq Commands

\* The row never holds a fingerprint the learner did not ask for, nor does a request that is
\* about to write one.
ConfirmedOnly ==
  /\ server.fingerprint \in confirmed \cup {"none"}
  /\ \A p \in McpRequests : mcp[p].pc = "write" =>
       /\ mcp[p].kind = "trust" => mcp[p].new \in confirmed
       /\ mcp[p].kind = "update" => mcp[p].new \in Endpoints

McpInv == McpTypeOK /\ ConfirmedOnly /\ StartedIsConfirmed

-----------------------------------------------------------------------------
\* At the start nothing is trusted and no request is under way.
LEMMA McpInitially == McpInit => McpInv
<1> SUFFICES ASSUME McpInit PROVE McpInv
  OBVIOUS
<1>1. \A t \in Tools : NoTool \in ToolRow
  BY DEF NoTool, ToolRow
<1>2. NoTask \in Task
  BY <1>1 DEF NoTask, Task
<1>3. McpTypeOK
  BY <1>1, <1>2 DEF McpInit, McpTypeOK
<1> QED
  BY <1>3 DEF McpInit, McpInv, ConfirmedOnly, StartedIsConfirmed, NoTask

\* What a request starts with is what it reads of the row.
LEMMA Begins ==
  ASSUME McpInv, NEW p \in McpRequests, NEW kind, NEW pc, NEW new, Begin(p, kind, pc, new)
  PROVE  /\ mcp'[p].pc = pc /\ mcp'[p].kind = kind /\ mcp'[p].new = new
         /\ mcp'[p].command = server.command
         /\ \A q \in McpRequests \ {p} : mcp'[q] = mcp[q]
BY DEF McpInv, McpTypeOK, Begin, NoTask

\* A request that begins has the type of a request.
LEMMA BeginTypes ==
  ASSUME McpInv, NEW p \in McpRequests,
         NEW kind \in {"update", "trust", "test", "discover", "call"},
         NEW pc \in {"write", "running", "failing"},
         NEW new \in Endpoints \cup {"none"}, Begin(p, kind, pc, new)
  PROVE  mcp' \in [McpRequests -> Task]
<1>1. \A t \in Tools : NoTool \in ToolRow
  BY DEF NoTool, ToolRow
<1>2. NoTask \in Task
  BY <1>1 DEF NoTask, Task
<1>3. [NoTask EXCEPT !.pc = pc, !.kind = kind, !.command = server.command,
                     !.fingerprint = server.fingerprint, !.new = new] \in Task
  BY <1>2 DEF McpInv, McpTypeOK, Task
<1> QED
  BY <1>3 DEF McpInv, McpTypeOK, Begin

\* The commands that run, and those about to be trusted, stay confirmed when a request only
\* ends or stays as it is, and no confirmation is taken back.
LEMMA TaskOver ==
  ASSUME McpInv, NEW p \in McpRequests, TaskEnds(p)
  PROVE  /\ mcp' \in [McpRequests -> Task]
         /\ mcp'[p].pc = "idle"
         /\ \A q \in McpRequests \ {p} : mcp'[q] = mcp[q]
<1>1. \A t \in Tools : NoTool \in ToolRow
  BY DEF NoTool, ToolRow
<1>2. NoTask \in Task
  BY <1>1 DEF NoTask, Task
<1>3. NoTask.pc = "idle"
  BY DEF NoTask
<1> QED
  BY <1>2, <1>3 DEF McpInv, McpTypeOK, TaskEnds

\* Trust comes only from the learner: updates take it away, confirmations write what the
\* learner asked for.
LEMMA ConfigurationKeeps ==
  ASSUME McpInv, NEW p \in McpRequests,
         \/ \E new \in Endpoints : UpdateReads(p, new)
         \/ \E enabled \in BOOLEAN : UpdateWrites(p, enabled)
         \/ TrustReads(p) \/ TrustWrites(p)
  PROVE  McpInv'
<1>1. ASSUME NEW new \in Endpoints, UpdateReads(p, new) PROVE McpInv'
  <2>1. mcp' \in [McpRequests -> Task]
    BY <1>1, BeginTypes DEF UpdateReads
  <2>2. /\ mcp'[p].pc = "write" /\ mcp'[p].kind = "update" /\ mcp'[p].new = new
        /\ \A q \in McpRequests \ {p} : mcp'[q] = mcp[q]
    BY <1>1, Begins DEF UpdateReads
  <2> QED
    BY <1>1, <2>1, <2>2
    DEF UpdateReads, McpInv, McpTypeOK, ConfirmedOnly, StartedIsConfirmed
<1>2. ASSUME NEW enabled \in BOOLEAN, UpdateWrites(p, enabled) PROVE McpInv'
  <2>1. /\ mcp' \in [McpRequests -> Task] /\ mcp'[p].pc = "idle"
        /\ \A q \in McpRequests \ {p} : mcp'[q] = mcp[q]
    BY <1>2, TaskOver DEF UpdateWrites
  <2>2. mcp[p].new \in Endpoints
    BY <1>2 DEF UpdateWrites, IsAt, McpInv, ConfirmedOnly
  <2>3. /\ server'.fingerprint \in confirmed \cup {"none"} /\ confirmed' = confirmed
        /\ server' \in [exists : BOOLEAN, command : Endpoints,
                        fingerprint : Commands \cup {"none"},
                        enabled : BOOLEAN, tested : {"none", "success", "failed"}]
    BY <1>2, <2>2 DEF UpdateWrites, McpInv, McpTypeOK, ConfirmedOnly
  <2>4. UNCHANGED <<catalog, made>>
    BY <1>2 DEF UpdateWrites
  <2> QED
    BY <2>1, <2>3, <2>4 DEF McpInv, McpTypeOK, ConfirmedOnly, StartedIsConfirmed
<1>3. CASE TrustReads(p)
  <2>1. mcp' \in [McpRequests -> Task]
    BY <1>3, BeginTypes DEF TrustReads, Endpoints
  <2>2. /\ mcp'[p].pc = "write" /\ mcp'[p].kind = "trust" /\ mcp'[p].new = server.command
        /\ \A q \in McpRequests \ {p} : mcp'[q] = mcp[q]
    BY <1>3, Begins DEF TrustReads
  <2> QED
    BY <1>3, <2>1, <2>2
    DEF TrustReads, McpInv, McpTypeOK, ConfirmedOnly, StartedIsConfirmed
<1>4. CASE TrustWrites(p)
  <2>1. /\ mcp' \in [McpRequests -> Task] /\ mcp'[p].pc = "idle"
        /\ \A q \in McpRequests \ {p} : mcp'[q] = mcp[q]
    BY <1>4, TaskOver DEF TrustWrites
  <2>2. mcp[p].new \in confirmed
    BY <1>4 DEF TrustWrites, IsAt, McpInv, ConfirmedOnly
  <2> QED
    BY <1>4, <2>1, <2>2
    DEF TrustWrites, McpInv, McpTypeOK, ConfirmedOnly, StartedIsConfirmed
<1> QED
  BY <1>1, <1>2, <1>3, <1>4

\* A connection starts the command the row has, if it is the trusted one.
LEMMA ConnectKeeps ==
  ASSUME McpInv, NEW p \in McpRequests, NEW kind \in {"test", "discover", "call"},
         Connect(p, kind), UNCHANGED <<server, catalog, made, confirmed>>
  PROVE  McpInv'
<1> DEFINE pc == IF Trusted THEN "running" ELSE "failing"
<1>1. Begin(p, kind, pc, "none")
  BY DEF Connect
<1>2. mcp' \in [McpRequests -> Task]
  BY <1>1, BeginTypes
<1>3. /\ mcp'[p].pc = pc /\ mcp'[p].kind = kind /\ mcp'[p].command = server.command
      /\ \A q \in McpRequests \ {p} : mcp'[q] = mcp[q]
  BY <1>1, Begins
<1>4. (pc = "running" /\ server.command \in Commands) => server.command \in confirmed
  BY McpAssumption DEF Trusted, McpInv, ConfirmedOnly, McpTypeOK
<1>5. pc \in {"running", "failing"}
  OBVIOUS
<1> HIDE DEF pc
<1> QED
  BY <1>2, <1>3, <1>4, <1>5 DEF McpInv, McpTypeOK, ConfirmedOnly, StartedIsConfirmed

\* A connection that goes on or ends keeps its command, or lets go of it.
LEMMA ConnectionKeeps ==
  ASSUME McpInv, NEW p \in McpRequests,
         \/ CallEnds(p) \/ ConnectionFails(p) \/ FailureRecorded(p) \/ TestSucceeds(p)
         \/ \E answer \in SUBSET Tools : Discovered(p, answer)
         \/ TaskFails(p)
  PROVE  McpInv'
<1>1. CASE CallEnds(p) \/ TaskFails(p)
  <2>1. TaskEnds(p) /\ UNCHANGED <<server, catalog, made, confirmed>>
    BY <1>1 DEF CallEnds, TaskFails
  <2> QED
    BY <2>1, TaskOver DEF McpInv, McpTypeOK, ConfirmedOnly, StartedIsConfirmed
<1>2. CASE ConnectionFails(p)
  <2>1. mcp' = [mcp EXCEPT ![p] = [@ EXCEPT !.pc = "failing"]]
    BY <1>2 DEF ConnectionFails, McpInv, McpTypeOK
  <2>2. [mcp[p] EXCEPT !.pc = "failing"] \in Task
    BY DEF McpInv, McpTypeOK, Task
  <2>3. /\ mcp' \in [McpRequests -> Task] /\ mcp'[p].pc = "failing"
        /\ \A q \in McpRequests \ {p} : mcp'[q] = mcp[q]
    BY <2>1, <2>2 DEF McpInv, McpTypeOK, Task
  <2> QED
    BY <1>2, <2>3
    DEF ConnectionFails, McpInv, McpTypeOK, ConfirmedOnly, StartedIsConfirmed
<1>3. CASE FailureRecorded(p) \/ TestSucceeds(p)
  <2>1. PICK outcome \in {"success", "failed"} : RecordTest(p, outcome)
    BY <1>3 DEF FailureRecorded, TestSucceeds
  <2>2. TaskEnds(p)
    BY <2>1 DEF RecordTest
  <2> QED
    BY <2>1, <2>2, TaskOver
    DEF RecordTest, McpInv, McpTypeOK, ConfirmedOnly, StartedIsConfirmed
<1>4. ASSUME NEW answer \in SUBSET Tools, Discovered(p, answer) PROVE McpInv'
  <2>1. mcp' = [mcp EXCEPT ![p] = [@ EXCEPT !.pc = "replacing", !.seen = catalog,
                                            !.answer = answer]]
    BY <1>4 DEF Discovered, McpInv, McpTypeOK
  <2>2. [mcp[p] EXCEPT !.pc = "replacing", !.seen = catalog, !.answer = answer] \in Task
    BY DEF McpInv, McpTypeOK, Task
  <2>3. /\ mcp' \in [McpRequests -> Task]
        /\ mcp'[p].pc = "replacing" /\ mcp'[p].command = mcp[p].command
        /\ \A q \in McpRequests \ {p} : mcp'[q] = mcp[q]
    BY <2>1, <2>2 DEF McpInv, McpTypeOK, Task
  <2>4. mcp[p].pc = "running" /\ UNCHANGED <<server, catalog, made, confirmed>>
    BY <1>4 DEF Discovered, IsAt
  <2> QED
    BY <2>3, <2>4
    DEF McpInv, McpTypeOK, ConfirmedOnly, StartedIsConfirmed
<1> QED
  BY <1>1, <1>2, <1>3, <1>4

\* The catalog and the switches of its tools decide nothing about trust.
LEMMA CatalogKeeps ==
  ASSUME McpInv,
         \/ \E p \in McpRequests : CatalogReplaced(p)
         \/ DeleteServer
         \/ \E t \in Tools, on \in BOOLEAN : SetToolEnabled(t, on)
  PROVE  McpInv'
<1>1. ASSUME NEW p \in McpRequests, CatalogReplaced(p) PROVE McpInv'
  <2>1. /\ mcp' \in [McpRequests -> Task] /\ mcp'[p].pc = "idle"
        /\ \A q \in McpRequests \ {p} : mcp'[q] = mcp[q]
    BY <1>1, TaskOver DEF CatalogReplaced
  <2>2. made' \in Nat
    BY <1>1 DEF CatalogReplaced, McpInv, McpTypeOK
  <2>3. \A t \in Tools : ReplacedTool(p, t) \in ToolRow
    BY DEF ReplacedTool, McpInv, McpTypeOK, NoTool, ToolRow
  <2>4. catalog' \in [Tools -> ToolRow]
    BY <1>1, <2>3 DEF CatalogReplaced
  <2>5. /\ server'.fingerprint = server.fingerprint /\ confirmed' = confirmed
        /\ server' \in [exists : BOOLEAN, command : Endpoints,
                        fingerprint : Commands \cup {"none"},
                        enabled : BOOLEAN, tested : {"none", "success", "failed"}]
    BY <1>1 DEF CatalogReplaced, McpInv, McpTypeOK
  <2> QED
    BY <2>1, <2>2, <2>4, <2>5 DEF McpInv, McpTypeOK, ConfirmedOnly, StartedIsConfirmed
<1>2. CASE DeleteServer
  BY <1>2 DEF DeleteServer, NoTool, ToolRow, McpInv, McpTypeOK, ConfirmedOnly,
              StartedIsConfirmed
<1>3. ASSUME NEW t \in Tools, NEW on \in BOOLEAN, SetToolEnabled(t, on) PROVE McpInv'
  BY <1>3 DEF SetToolEnabled, ToolRow, McpInv, McpTypeOK, ConfirmedOnly, StartedIsConfirmed
<1> QED
  BY <1>1, <1>2, <1>3

\* Every step keeps trust with the learner.
LEMMA McpInductive == McpInv /\ [McpNext]_mcpVars => McpInv'
<1> SUFFICES ASSUME McpInv, [McpNext]_mcpVars PROVE McpInv'
  OBVIOUS
<1>1. CASE UNCHANGED mcpVars
  BY <1>1 DEF mcpVars, McpInv, McpTypeOK, ConfirmedOnly, StartedIsConfirmed
<1>2. ASSUME NEW p \in McpRequests, TaskStep(p) PROVE McpInv'
  <2>1. CASE TestConnects(p) \/ DiscoverConnects(p) \/ \E t \in Tools : CallConnects(p, t)
    BY <2>1, ConnectKeeps DEF TestConnects, DiscoverConnects, CallConnects
  <2> QED
    BY <1>2, <2>1, ConfigurationKeeps, ConnectionKeeps, CatalogKeeps DEF TaskStep
<1> QED
  BY <1>1, <1>2, CatalogKeeps DEF McpNext

\* However updates, confirmations, connections and discoveries overlap, a local command runs
\* only if the learner has asked to trust it (mcp_service.py:690-696, config.py:709-726).
THEOREM TrustIsTheLearners == McpSpec => []StartedIsConfirmed
<1>1. McpInv => StartedIsConfirmed
  BY DEF McpInv
<1> QED
  BY <1>1, McpInitially, McpInductive, PTL DEF McpSpec
==============================================================================
