------------------------------- MODULE MemoryStore -------------------------------
(***************************************************************************)
(* The long-term memory of one learner and goal: the gate in front of the  *)
(* model call (application/engine.py, domain/memory/gate.py), the write of *)
(* its decisions after the call (application/memory_write_service.py over  *)
(* memory_repository.py), the privacy switches (memory_privacy_service.py) *)
(* and the learner's revocations (memory_management_service.py).           *)
(*                                                                         *)
(* A preference is declared by the learner under a request id the client   *)
(* chose; a mastery summary comes from an assessment attempt, whose id is  *)
(* fresh, and expires.  The writes of a run become visible at its commit.  *)
(***************************************************************************)
EXTENDS Integers, Sequences, FiniteSets

CONSTANTS
    MemoryRuns,   \* tutor runs that save a memory
    RequestIds,   \* request ids of declarations
    Preferences,  \* preference keys: the semantic slots of learning_preference
    Nodes,        \* knowledge nodes: the semantic slots of mastery_summary
    Contents,     \* what a memory says
    PageSize,     \* rows list_active returns at most (100 in the code)
    MaxMemories   \* bound on the memories that are created

ASSUME MemoryAssumption ==
    /\ Preferences \cap Nodes = {} /\ 0 \notin RequestIds
    /\ PageSize \in Nat \ {0} /\ MaxMemories \in Nat

VARIABLES
    memories,   \* the rows of the memories table, in creation order
    allowed,    \* origins the privacy settings allow; {} when memory is off
    saving,     \* the memory each run is about
    crowded     \* the active memories of one type have exceeded a page

memVars == <<memories, allowed, saving, crowded>>

Slots     == Preferences \cup Nodes
Origins   == {"explicit_user_statement", "learning_result"}
Origin(s) == IF s \in Preferences THEN "explicit_user_statement" ELSE "learning_result"
NotSaving == [pc |-> "idle", key |-> 0, slot |-> "none", content |-> "none",
              approved |-> FALSE, found |-> 0, drops |-> {}]

MemInit ==
    /\ memories = <<>>
    /\ allowed \in SUBSET Origins
    /\ saving = [r \in MemoryRuns |-> NotSaving]
    /\ crowded = FALSE

-----------------------------------------------------------------------------------
(* Rows. *)

Active(rows)   == {i \in DOMAIN rows : rows[i].state = "active"}
InSlot(rows, s) == {i \in Active(rows) : rows[i].slot = s}
OfType(rows, s) == {i \in Active(rows) : Origin(rows[i].slot) = Origin(s)}

\* Rows under the idempotency key of a run; a fresh attempt's key has none.
Existing(r) == {i \in DOMAIN memories : saving[r].key # 0 /\ memories[i].key = saving[r].key}

SameFields(row, key, slot, content) ==
    row.key = key /\ row.slot = slot /\ row.content = content

Matching(r) ==
    {i \in Existing(r) :
        SameFields(memories[i], saving[r].key, saving[r].slot, saving[r].content)}

\* The lock is not taken: what for_update is there to prevent.
ProfileUnlocked == TRUE

\* FOR UPDATE on the learner profile is held from the recheck to the commit.
ProfileFree == \A r \in MemoryRuns : saving[r].pc \in {"idle", "thinking"}

-----------------------------------------------------------------------------------
(* One run. *)

\* The gate reads the settings before the model is called; an approved declaration that
\* contradicts the row of its key is refused there.
Declare(r, key, slot, content) ==
    /\ saving[r].pc = "idle"
    /\ LET approved == Origin(slot) \in allowed IN
       /\ approved =>
            \A i \in DOMAIN memories :
                memories[i].key = key => SameFields(memories[i], key, slot, content)
       /\ saving' = [saving EXCEPT ![r] =
            [NotSaving EXCEPT !.pc = "thinking", !.key = key, !.slot = slot,
                              !.content = content, !.approved = approved]]
    /\ UNCHANGED <<memories, allowed, crowded>>

\* The candidate of an assessment is built and decided after grading.
Derive(r, slot, content) ==
    /\ saving[r].pc = "idle"
    /\ saving' = [saving EXCEPT ![r] =
         [NotSaving EXCEPT !.pc = "thinking", !.slot = slot, !.content = content,
                           !.approved = Origin(slot) \in allowed]]
    /\ UNCHANGED <<memories, allowed, crowded>>

GateDecision(r) == saving[r].approved

\* An approved decision is taken again under the settings that are read with the lock.
Recheck(r) == saving[r].approved /\ Origin(saving[r].slot) \in allowed

SaveLocks(r) ==
    /\ saving[r].pc = "thinking" /\ ProfileFree
    /\ saving' = [saving EXCEPT ![r] = [@ EXCEPT !.pc = "deciding", !.approved = Recheck(r)]]
    /\ UNCHANGED <<memories, allowed, crowded>>

\* What list_active may return: the clocks and the importance decide which rows.
Pages(rows, s) ==
    LET typed == OfType(rows, s) IN
    {page \in SUBSET typed :
        Cardinality(page) = IF Cardinality(typed) < PageSize THEN Cardinality(typed) ELSE PageSize}

\* The rows of the slot on the page, without the current one.
Superseded(rows, page, current) == {i \in page \ {current} : rows[i].slot = rows[current].slot}

\* A page is read after the row was found or inserted, and before the run commits.
Writes(r, rows, current) ==
    /\ \E page \in Pages(rows, saving[r].slot) :
         saving' = [saving EXCEPT ![r] =
           [@ EXCEPT !.pc = "writing",
                     !.found = IF current \in DOMAIN memories THEN current ELSE 0,
                     !.drops = Superseded(rows, page, current)]]
    /\ crowded' = (crowded \/ Cardinality(OfType(rows, saving[r].slot)) > PageSize)

AnyRow(i) == i \in DOMAIN memories

\* A row that was disabled or has expired supersedes nothing when it is found again.
StillActive(i) == i \in Active(memories)

SaveFinds(r) ==
    /\ saving[r].pc = "deciding" /\ saving[r].approved
    /\ \E i \in Matching(r) :
         IF StillActive(i) THEN Writes(r, memories, i)
         ELSE /\ saving' = [saving EXCEPT ![r] = [@ EXCEPT !.pc = "writing", !.found = i]]
              /\ UNCHANGED crowded
    /\ UNCHANGED <<memories, allowed>>

NewMemory(r) == [key |-> saving[r].key, slot |-> saving[r].slot,
                 content |-> saving[r].content, state |-> "active"]

SaveInserts(r) ==
    /\ saving[r].pc = "deciding" /\ saving[r].approved /\ Existing(r) = {}
    /\ Len(memories) < MaxMemories
    /\ Writes(r, Append(memories, NewMemory(r)), Len(memories) + 1)
    /\ UNCHANGED <<memories, allowed>>

\* A declaration that contradicts the row of its key fails the whole run.
SaveClashes(r) ==
    /\ saving[r].pc = "deciding" /\ saving[r].approved
    /\ Existing(r) # {} /\ Matching(r) = {}
    /\ saving' = [saving EXCEPT ![r] = NotSaving]
    /\ UNCHANGED <<memories, allowed, crowded>>

SaveRejects(r) ==
    /\ saving[r].pc = "deciding" /\ ~saving[r].approved
    /\ saving' = [saving EXCEPT ![r] = NotSaving]
    /\ UNCHANGED <<memories, allowed, crowded>>

\* The run commits its row and what it superseded; a row disabled meanwhile stays as it is.
SaveCommits(r) ==
    LET rows == IF saving[r].found = 0 THEN Append(memories, NewMemory(r)) ELSE memories IN
    /\ saving[r].pc = "writing"
    /\ memories' = [i \in DOMAIN rows |->
                      IF i \in saving[r].drops /\ rows[i].state = "active"
                      THEN [rows[i] EXCEPT !.state = "superseded"] ELSE rows[i]]
    /\ saving' = [saving EXCEPT ![r] = NotSaving]
    /\ UNCHANGED <<allowed, crowded>>

\* The model call, the rest of the run or its process fails; nothing was committed.
RunAborts(r) ==
    /\ saving[r].pc # "idle"
    /\ saving' = [saving EXCEPT ![r] = NotSaving]
    /\ UNCHANGED <<memories, allowed, crowded>>

-----------------------------------------------------------------------------------
(* The learner and the clock. *)

\* PUT /api/memories/privacy waits for the profile row.
SetPrivacy ==
    /\ ProfileFree
    /\ allowed' \in SUBSET Origins \ {allowed}
    /\ UNCHANGED <<memories, saving, crowded>>

\* POST /api/memories/{id}/disable takes no profile lock.
Revoke(i) ==
    /\ i \in Active(memories)
    /\ memories' = [memories EXCEPT ![i].state = "user_revoked"]
    /\ UNCHANGED <<allowed, saving, crowded>>

\* Thirty days pass; preferences have no expiry.
SummaryExpires(i) ==
    /\ i \in Active(memories) /\ memories[i].slot \in Nodes
    /\ memories' = [memories EXCEPT ![i].state = "expired"]
    /\ UNCHANGED <<allowed, saving, crowded>>

RunStep(r) ==
    \/ \E key \in RequestIds, slot \in Preferences, content \in Contents :
         Declare(r, key, slot, content)
    \/ \E slot \in Nodes, content \in Contents : Derive(r, slot, content)
    \/ SaveLocks(r) \/ SaveFinds(r) \/ SaveInserts(r) \/ SaveClashes(r) \/ SaveRejects(r)
    \/ SaveCommits(r) \/ RunAborts(r)

MemNext ==
    \/ \E r \in MemoryRuns : RunStep(r)
    \/ SetPrivacy
    \/ \E i \in DOMAIN memories : Revoke(i) \/ SummaryExpires(i)

MemSpec == MemInit /\ [][MemNext]_memVars

-----------------------------------------------------------------------------------
(* Properties. *)

\* No memory is created of an origin the learner has switched off by then, although the
\* gate approved it before the model was called (memory_write_service.py:32-42).
ConsentAtWrite ==
    [][\A i \in DOMAIN memories' \ DOMAIN memories :
          Origin(memories'[i].slot) \in allowed]_memVars

\* Two runs that save at once never leave two active memories of one slot, unless the
\* learner has had more of them than the page _disable_superseded reads
\* (memory_write_service.py:163-179).
OneActivePerSlot == crowded \/ \A s \in Slots : Cardinality(InSlot(memories, s)) <= 1

\* What the learner has told the tutor is forgotten only when the learner revokes it or it
\* expires: a late retry of an older declaration does not take the newer one away
\* (memory_write_service.py:88-89).
ForgottenOnlyOnPurpose ==
    [][\A s \in Slots :
          (InSlot(memories, s) # {} /\ InSlot(memories, s)' = {}) =>
             crowded \/ \E i \in InSlot(memories, s) :
                            memories'[i].state \in {"user_revoked", "expired"}]_memVars

=============================================================================
