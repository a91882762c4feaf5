-------------------------------- MODULE McpServers --------------------------------
(***************************************************************************)
(* One MCP server of a learner: its configuration (routers/config.py), the *)
(* trust the learner puts into the command of a local server, its tests,   *)
(* discoveries and tool calls, and the catalog of its tools                *)
(* (application/mcp_service.py).  A request reads the rows, talks to the   *)
(* server for up to forty seconds, and then writes; nothing is locked, an  *)
(* UPDATE names the columns the request changed, and a row that is gone    *)
(* fails the commit.                                                       *)
(***************************************************************************)
EXTENDS Integers, FiniteSets

CONSTANTS
    McpRequests,   \* requests of the learner and calls of runs
    Commands,      \* commands a local server can be started with
    Tools,         \* names of tools
    MaxToolRows    \* bound on the catalog rows that are made

ASSUME McpAssumption == "remote" \notin Commands /\ "none" \notin Commands /\ MaxToolRows \in Nat

VARIABLES
    server,      \* the user_mcp_servers row; a fingerprint is the command it hashes
    catalog,     \* the user_mcp_tools row of each name; row 0 is none
    made,        \* catalog rows made so far
    mcp,         \* the request in each slot
    confirmed    \* commands the learner has asked to trust

mcpVars == <<server, catalog, made, mcp, confirmed>>

\* A remote server has no command and needs no trust.
Endpoints == Commands \cup {"remote"}
NoTool    == [row |-> 0, on |-> FALSE]
NoTask    == [pc |-> "idle", kind |-> "none", command |-> "none", fingerprint |-> "none",
              new |-> "none", seen |-> [t \in Tools |-> NoTool], answer |-> {}]

McpInit ==
    /\ server \in [exists : {TRUE}, command : Endpoints, fingerprint : {"none"},
                   enabled : BOOLEAN, tested : {"none"}]
    /\ catalog = [t \in Tools |-> NoTool] /\ made = 0
    /\ mcp = [p \in McpRequests |-> NoTask]
    /\ confirmed = {}

TaskEnds(p) == mcp' = [mcp EXCEPT ![p] = NoTask]
IsAt(p, pc) == mcp[p].pc = pc

Begin(p, kind, pc, new) ==
    /\ IsAt(p, "idle") /\ server.exists
    /\ mcp' = [mcp EXCEPT ![p] =
         [NoTask EXCEPT !.pc = pc, !.kind = kind, !.command = server.command,
                        !.fingerprint = server.fingerprint, !.new = new]]

-----------------------------------------------------------------------------------
(* Configuration and trust. *)

UpdateReads(p, new) ==
    /\ Begin(p, "update", "write", new)
    /\ UNCHANGED <<server, catalog, made, confirmed>>

\* A changed command takes the trust away, if the request saw any.
UpdateWrites(p, enabled) ==
    /\ IsAt(p, "write") /\ mcp[p].kind = "update" /\ server.exists
    /\ LET changed == mcp[p].new # mcp[p].command IN
       server' = [server EXCEPT
          !.command     = IF changed THEN mcp[p].new ELSE @,
          !.fingerprint = IF changed /\ mcp[p].fingerprint # "none" THEN "none" ELSE @,
          !.enabled     = enabled]
    /\ TaskEnds(p) /\ UNCHANGED <<catalog, made, confirmed>>

\* The request names no command: it trusts the one it reads.
TrustReads(p) ==
    /\ server.command \in Commands
    /\ Begin(p, "trust", "write", server.command)
    /\ confirmed' = confirmed \cup {server.command}
    /\ UNCHANGED <<server, catalog, made>>

TrustWrites(p) ==
    /\ IsAt(p, "write") /\ mcp[p].kind = "trust" /\ server.exists
    /\ server' = [server EXCEPT
          !.fingerprint = IF mcp[p].new # mcp[p].fingerprint THEN mcp[p].new ELSE @]
    /\ TaskEnds(p) /\ UNCHANGED <<catalog, made, confirmed>>

\* The foreign key takes the catalog with it.
DeleteServer ==
    /\ server.exists
    /\ server' = [server EXCEPT !.exists = FALSE]
    /\ catalog' = [t \in Tools |-> NoTool]
    /\ UNCHANGED <<made, mcp, confirmed>>

SetToolEnabled(t, on) ==
    /\ catalog[t].row # 0 /\ catalog' = [catalog EXCEPT ![t].on = on]
    /\ UNCHANGED <<server, made, mcp, confirmed>>

-----------------------------------------------------------------------------------
(* Connections. *)

\* Some command was trusted once.
EverTrusted == server.command = "remote" \/ server.fingerprint # "none"

\* The fingerprint is that of the command the row has now.
Trusted == server.command = "remote" \/ server.fingerprint = server.command

Connect(p, kind) == Begin(p, kind, IF Trusted THEN "running" ELSE "failing", "none")

TestConnects(p) ==
    /\ Connect(p, "test") /\ UNCHANGED <<server, catalog, made, confirmed>>

DiscoverConnects(p) ==
    /\ Connect(p, "discover") /\ UNCHANGED <<server, catalog, made, confirmed>>

\* A run calls a tool; without trust the call fails and nothing is recorded.
CallConnects(p, t) ==
    /\ server.enabled /\ catalog[t].row # 0 /\ catalog[t].on /\ Trusted
    /\ Connect(p, "call") /\ UNCHANGED <<server, catalog, made, confirmed>>

\* The tool answers or fails; the process ends with the connection.
CallEnds(p) ==
    /\ IsAt(p, "running") /\ mcp[p].kind = "call" /\ TaskEnds(p)
    /\ UNCHANGED <<server, catalog, made, confirmed>>

\* A timeout, an oversized or malformed answer.
ConnectionFails(p) ==
    /\ IsAt(p, "running") /\ mcp[p].kind # "call"
    /\ mcp' = [mcp EXCEPT ![p].pc = "failing"]
    /\ UNCHANGED <<server, catalog, made, confirmed>>

RecordTest(p, outcome) ==
    /\ server.exists /\ server' = [server EXCEPT !.tested = outcome] /\ TaskEnds(p)
    /\ UNCHANGED <<catalog, made, confirmed>>

FailureRecorded(p) == IsAt(p, "failing") /\ RecordTest(p, "failed")
TestSucceeds(p)    == IsAt(p, "running") /\ mcp[p].kind = "test" /\ RecordTest(p, "success")

-----------------------------------------------------------------------------------
(* The catalog. *)

\* All pages have arrived; the rows of the catalog are read.
Discovered(p, answer) ==
    /\ IsAt(p, "running") /\ mcp[p].kind = "discover"
    /\ mcp' = [mcp EXCEPT ![p].pc = "replacing", ![p].seen = catalog, ![p].answer = answer]
    /\ UNCHANGED <<server, catalog, made, confirmed>>

Inserted(p) == {t \in mcp[p].answer : mcp[p].seen[t].row = 0}
Updated(p)  == {t \in mcp[p].answer : mcp[p].seen[t].row # 0}

\* No other request inserted a name first, or deleted a row that is updated.
CatalogAsSeen(p) ==
    /\ \A t \in Inserted(p) : catalog[t].row = 0
    /\ \A t \in Updated(p)  : catalog[t].row = mcp[p].seen[t].row

\* New names are on, known ones keep the learner's switch, the others lose their row.
ReplacedTool(p, t) ==
    IF t \in Inserted(p) THEN [row |-> made + 1, on |-> TRUE]
    ELSE IF t \notin mcp[p].answer /\ catalog[t].row = mcp[p].seen[t].row THEN NoTool
    ELSE catalog[t]

CatalogReplaced(p) ==
    /\ IsAt(p, "replacing") /\ server.exists /\ CatalogAsSeen(p)
    /\ Inserted(p) # {} => made < MaxToolRows
    /\ catalog' = [t \in Tools |-> ReplacedTool(p, t)]
    /\ made' = IF Inserted(p) = {} THEN made ELSE made + 1
    /\ server' = [server EXCEPT !.tested = "success"]
    /\ TaskEnds(p) /\ UNCHANGED confirmed

\* The commit fails, or the process dies: a rollback.
TaskFails(p) ==
    /\ mcp[p].pc \in {"write", "running", "failing", "replacing"} /\ TaskEnds(p)
    /\ UNCHANGED <<server, catalog, made, confirmed>>

TaskStep(p) ==
    \/ \E new \in Endpoints : UpdateReads(p, new)
    \/ \E enabled \in BOOLEAN : UpdateWrites(p, enabled)
    \/ TrustReads(p) \/ TrustWrites(p)
    \/ TestConnects(p) \/ DiscoverConnects(p) \/ \E t \in Tools : CallConnects(p, t)
    \/ CallEnds(p) \/ ConnectionFails(p) \/ FailureRecorded(p) \/ TestSucceeds(p)
    \/ \E answer \in SUBSET Tools : Discovered(p, answer)
    \/ CatalogReplaced(p) \/ TaskFails(p)

McpNext ==
    \/ \E p \in McpRequests : TaskStep(p)
    \/ DeleteServer
    \/ \E t \in Tools, on \in BOOLEAN : SetToolEnabled(t, on)

-----------------------------------------------------------------------------------
(* Properties. *)

\* A local command that runs for a test, a discovery or a tool call is one the learner has
\* asked to trust, although updates and confirmations overlap and neither locks the row
\* (mcp_service.py:690-696, routers/config.py:709-726).
StartedIsConfirmed ==
    \A p \in McpRequests :
        (mcp[p].pc \in {"running", "replacing"} /\ mcp[p].command \in Commands)
            => mcp[p].command \in confirmed

=============================================================================
