----------------------------- MODULE SecretReferences -----------------------------
(***************************************************************************)
(* The secrets of models and MCP servers (routers/config.py): the value    *)
(* lives in the operating system's credential store under a reference that *)
(* is new for every write, the reference in a row of the database.  A      *)
(* write puts the value, commits the row and then deletes the value it     *)
(* replaced; an erasure or the deletion of the owner commits first.  No    *)
(* row is locked between what a request read and what it commits.          *)
(***************************************************************************)
EXTENDS Integers, FiniteSets

CONSTANTS
    Admins,          \* requests of the configuration page
    Owners,          \* models and MCP servers, each with one secret slot
    MaxSecrets,      \* bound on the values that are put into the store
    MaxSecretFaults  \* bound on crashes, store failures and lost commit answers

ASSUME SecretAssumption ==
    MaxSecrets \in Nat /\ MaxSecretFaults \in Nat /\ "none" \notin Owners

VARIABLES
    live,         \* owners that have not been deleted
    reference,    \* the row of each owner: its id and the value it names
    stored,       \* values in the credential store, each with its owner
    issued,       \* number of references that were made
    request,      \* the request each admin has at the server
    trouble,      \* per owner: overlapping requests, faults, unsure commits
    secretFaults

secretVars == <<live, reference, stored, issued, request, trouble, secretFaults>>

NoReference == [row |-> 0, ref |-> 0]
NoRequest   == [kind |-> "none", pc |-> "idle", owner |-> "none", row |-> 0, old |-> 0, new |-> 0]

SecretInit ==
    /\ live = Owners
    /\ reference = [o \in Owners |-> NoReference]
    /\ stored = {}
    /\ issued = 0
    /\ request = [p \in Admins |-> NoRequest]
    /\ trouble = [o \in Owners |-> {}]
    /\ secretFaults = 0

At(p, pc)      == request[p].pc = pc
Answer(p)      == request' = [request EXCEPT ![p] = NoRequest]
GoesTo(p, pc)  == request' = [request EXCEPT ![p].pc = pc]
BusyWith(o)    == {p \in Admins : request[p].owner = o}
Value(p, ref)  == <<request[p].owner, ref>>

Troubled(o, what) == trouble' = [trouble EXCEPT ![o] = @ \cup {what}]
SecretFault(p, what) ==
    /\ secretFaults < MaxSecretFaults /\ secretFaults' = secretFaults + 1
    /\ Troubled(request[p].owner, what)

-----------------------------------------------------------------------------------
(* A request reads the owner and its row, without a lock. *)

Reads(p, o, kind, pc) ==
    /\ At(p, "idle") /\ o \in live
    /\ request' = [request EXCEPT ![p] =
         [kind |-> kind, pc |-> pc, owner |-> o, row |-> reference[o].row,
          old |-> reference[o].ref, new |-> 0]]
    /\ IF BusyWith(o) = {} THEN UNCHANGED trouble ELSE Troubled(o, "overlap")
    /\ UNCHANGED <<live, reference, stored, issued, secretFaults>>

WriteReads(p, o)  == Reads(p, o, "write", "put")
EraseReads(p, o)  == reference[o] # NoReference /\ Reads(p, o, "erase", "commit")
DeleteReads(p, o) == Reads(p, o, "delete", "commit")

\* The replaced value is deleted together with the put.
PutDropsOld(p) ==
    /\ At(p, "put") /\ issued < MaxSecrets
    /\ issued' = issued + 1
    /\ stored' = (stored \cup {Value(p, issued + 1)}) \ {Value(p, request[p].old)}
    /\ request' = [request EXCEPT ![p] = [@ EXCEPT !.pc = "commit", !.new = issued + 1]]
    /\ UNCHANGED <<live, reference, trouble, secretFaults>>

\* The value goes into the store first.
PutSecret(p) ==
    /\ At(p, "put") /\ issued < MaxSecrets
    /\ issued' = issued + 1
    /\ stored' = stored \cup {Value(p, issued + 1)}
    /\ request' = [request EXCEPT ![p] = [@ EXCEPT !.pc = "commit", !.new = issued + 1]]
    /\ UNCHANGED <<live, reference, trouble, secretFaults>>

\* The store is unavailable: 503, nothing was written.
PutRefused(p) ==
    /\ At(p, "put") /\ Answer(p)
    /\ UNCHANGED <<live, reference, stored, issued, trouble, secretFaults>>

-----------------------------------------------------------------------------------
(* The commit. *)

\* The row the request read is still there, or there is none as it read; otherwise the
\* unique index or the row count of the UPDATE fails the commit.
RowAsRead(p) == reference[request[p].owner].row = request[p].row

WrittenRow(p) ==
    [row |-> IF request[p].row = 0 THEN request[p].new ELSE request[p].row,
     ref |-> request[p].new]

AfterCommit(p) == IF request[p].old = 0 THEN Answer(p) ELSE GoesTo(p, "clean")

\* An UPDATE or INSERT of the row.
RowWritten(p) ==
    /\ request[p].kind = "write" /\ RowAsRead(p)
    /\ reference' = [reference EXCEPT ![request[p].owner] = WrittenRow(p)]
    /\ UNCHANGED live

\* A DELETE by primary key that matches no row only warns.
RowDeleted(p) ==
    /\ request[p].kind \in {"erase", "delete"}
    /\ reference' = IF request[p].row # 0 /\ RowAsRead(p)
                    THEN [reference EXCEPT ![request[p].owner] = NoReference] ELSE reference
    /\ live' = IF request[p].kind = "delete" THEN live \ {request[p].owner} ELSE live

SecretCommits(p) ==
    /\ At(p, "commit") /\ (RowWritten(p) \/ RowDeleted(p))
    /\ AfterCommit(p)
    /\ UNCHANGED <<stored, issued, trouble, secretFaults>>

\* After an exception a write takes its value back; the others just end.
AfterFailure(p) == IF request[p].kind = "write" THEN GoesTo(p, "undo") ELSE Answer(p)

CommitConflicts(p) ==
    /\ At(p, "commit") /\ request[p].kind = "write" /\ ~RowAsRead(p)
    /\ AfterFailure(p)
    /\ UNCHANGED <<live, reference, stored, issued, trouble, secretFaults>>

\* The database is unavailable: nothing was committed.
CommitFails(p) ==
    /\ At(p, "commit") /\ AfterFailure(p)
    /\ UNCHANGED <<live, reference, stored, issued, trouble, secretFaults>>

\* The database commits and its answer is lost: the request sees an exception.
CommitUnsure(p) ==
    /\ At(p, "commit") /\ (RowWritten(p) \/ RowDeleted(p))
    /\ AfterFailure(p) /\ SecretFault(p, "unsure")
    /\ UNCHANGED <<stored, issued>>

-----------------------------------------------------------------------------------
(* The deletions from the store, best effort. *)

NothingRemoved(p) ==
    /\ (At(p, "undo") \/ At(p, "clean")) /\ Answer(p)
    /\ UNCHANGED <<live, reference, stored, issued, trouble, secretFaults>>

RemoveSecret(p) ==
    /\ (At(p, "undo") \/ At(p, "clean")) /\ Answer(p)
    /\ stored' = stored \ {Value(p, IF At(p, "undo") THEN request[p].new ELSE request[p].old)}
    /\ UNCHANGED <<live, reference, issued, trouble, secretFaults>>

RemoveFails(p) ==
    /\ (At(p, "undo") \/ At(p, "clean")) /\ Answer(p) /\ SecretFault(p, "fault")
    /\ UNCHANGED <<live, reference, stored, issued>>

ServerDies(p) ==
    /\ ~At(p, "idle") /\ Answer(p) /\ SecretFault(p, "fault")
    /\ UNCHANGED <<live, reference, stored, issued>>

AdminStep(p) ==
    \/ \E o \in Owners : WriteReads(p, o) \/ EraseReads(p, o) \/ DeleteReads(p, o)
    \/ PutSecret(p) \/ PutRefused(p)
    \/ SecretCommits(p) \/ CommitConflicts(p) \/ CommitFails(p) \/ CommitUnsure(p)
    \/ RemoveSecret(p) \/ RemoveFails(p) \/ ServerDies(p)

SecretNext == \E p \in Admins : AdminStep(p)

SecretSpec == SecretInit /\ [][SecretNext]_secretVars

-----------------------------------------------------------------------------------
(* Properties. *)

\* The value a row names is in the store, whatever requests overlap, fail or die, so a
\* configured model can be used (config_service.py:195-210).  The one exception is a
\* commit whose answer was lost: its undo deletes the value the row now names
\* (routers/config.py:548-553).
NamedSecretStored ==
    \A o \in Owners :
        (reference[o] # NoReference /\ "unsure" \notin trouble[o]) =>
            <<o, reference[o].ref>> \in stored

\* When no request of an owner is under way, and none overlapped another or met a fault,
\* the store holds exactly the value its row names, and a deleted owner has neither
\* (routers/config.py:491-500, 548-564).
NothingLeftBehind ==
    \A o \in Owners : (trouble[o] = {} /\ BusyWith(o) = {}) =>
        /\ {v \in stored : v[1] = o} =
              IF reference[o] = NoReference THEN {} ELSE {<<o, reference[o].ref>>}
        /\ o \notin live => reference[o] = NoReference

=============================================================================
