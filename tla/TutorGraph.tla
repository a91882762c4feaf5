-------------------------------- MODULE TutorGraph --------------------------------
(***************************************************************************)
(* One thread's invocations of the tutor graph (phase2/engine.py): the     *)
(* nodes a trigger visits, the bounded loop of agent decisions and tool    *)
(* calls (tutor/agent_controller.py, tutor/tool_router.py), the answer and *)
(* its grounding (tutor/grounding.py), and what the application writes     *)
(* when the graph has ended (application/engine.py).  Channels marked      *)
(* UntrackedValue live for one invocation; workflow_state is checkpointed. *)
(***************************************************************************)
EXTENDS Integers, Sequences, FiniteSets

CONSTANTS
    ReadCalls,      \* tool calls of read-only tools: a name with its arguments
    WriteCalls,     \* tool calls that need an approval
    DecisionLimits, \* values of AGENT_MAX_DECISIONS
    MaxCalls,       \* ToolPolicy.max_calls_per_run
    MaxTurns        \* bound on the invocations

ToolCalls == ReadCalls \cup WriteCalls

ASSUME TutorGraphAssumption ==
    /\ DecisionLimits \subseteq 1 .. 8 /\ MaxCalls \in Nat
    /\ ReadCalls \cap WriteCalls = {} /\ "chunk" \notin ToolCalls /\ "none" \notin ToolCalls

VARIABLES
    turn,     \* the invocation: its number, trigger, node, nodes so far, limit of decisions
    channel,  \* the untracked channels; an output is the turn it was made in, or 0
    loop,     \* agent_state in workflow_state, checkpointed
    router,   \* the ToolRouter of this invocation: calls made, results cached
    reply,    \* the grounding evaluation that became the answer
    written   \* what the turns have written to the database

graphVars == <<turn, channel, loop, router, reply, written>>

Triggers == {"onboarding", "chat", "task_completed", "assessment_due",
             "assessment_submitted", "manual_replan"}
Outputs  == {"draft", "attempt", "adjustment", "memory"}

NoChannels == [request |-> FALSE, evidence |-> {}, out |-> [o \in Outputs |-> 0]]
NoLoop     == [decisions |-> 0, pending |-> "none", stop |-> "none"]
NoRouter   == [calls |-> 0, cache |-> {}]
NoReply    == [status |-> "none", cites |-> {}, loose |-> FALSE, bare |-> FALSE]

GraphInit ==
    /\ \E limit \in DecisionLimits :
          turn = [n |-> 0, trigger |-> "chat", node |-> "idle", steps |-> 0, limit |-> limit]
    /\ channel = NoChannels /\ loop = NoLoop /\ router = NoRouter /\ reply = NoReply
    /\ written = {}

Visiting(node) == turn.node = node
\* A node works on the request in its channel.
Running(node)  == Visiting(node) /\ channel.request
Visits(node)   == turn' = [turn EXCEPT !.node = node, !.steps = @ + 1]
Yields(o)      == channel' = [channel EXCEPT !.out[o] = turn.n]

-----------------------------------------------------------------------------------
(* The start. *)

\* Deviation: channels that are checkpointed keep what the last invocation left.
KeptChannels(old) == [old EXCEPT !.request = TRUE, !.evidence = {}]

\* The initial state names the request; the untracked channels start empty.
ChannelsAtStart(old) == [NoChannels EXCEPT !.request = TRUE]

StartTurn(trigger) ==
    /\ turn.node \in {"idle", "done", "failed"} /\ turn.n < MaxTurns
    /\ turn' = [turn EXCEPT !.n = @ + 1, !.trigger = trigger, !.node = "load_context",
                            !.steps = 0]
    /\ channel' = ChannelsAtStart(channel)
    /\ loop' = NoLoop /\ router' = NoRouter /\ reply' = NoReply
    /\ UNCHANGED written

RouteAfterLoad(trigger) ==
    CASE trigger = "onboarding"           -> "diagnosis"
      [] trigger = "chat"                 -> "retrieve_context"
      [] trigger = "assessment_due"       -> "build_assessment"
      [] trigger = "assessment_submitted" -> "grade_assessment"
      [] trigger \in {"task_completed", "manual_replan"} -> "observer"

LoadContext ==
    /\ Running("load_context") /\ Visits(RouteAfterLoad(turn.trigger))
    /\ UNCHANGED <<channel, loop, router, reply, written>>

Diagnose ==
    /\ Running("diagnosis") /\ Visits("planner")
    /\ UNCHANGED <<channel, loop, router, reply, written>>

\* A request may name a tool; else the agent decides, if its flag is on and there are tools.
RetrieveContext(found, next) ==
    /\ Running("retrieve_context")
    /\ channel' = [channel EXCEPT !.evidence = found]
    /\ Visits(next)
    /\ UNCHANGED <<loop, router, reply, written>>

-----------------------------------------------------------------------------------
(* The agent loop. *)

\* Deviation: the decision that reaches the limit is still allowed.
SpentAfterLimit == loop.decisions > turn.limit

DecisionsSpent == loop.decisions >= turn.limit

StopDeciding ==
    /\ Running("agent_decide") /\ DecisionsSpent
    /\ loop' = [loop EXCEPT !.pending = "none", !.stop = "budget_exhausted"]
    /\ Visits("teacher")
    /\ UNCHANGED <<channel, router, reply, written>>

\* Output that does not parse, or names an unknown tool, counts as an answer.
DecideToAnswer ==
    /\ Running("agent_decide") /\ ~DecisionsSpent
    /\ loop' = [loop EXCEPT !.decisions = @ + 1, !.pending = "none", !.stop = "answer"]
    /\ Visits("teacher")
    /\ UNCHANGED <<channel, router, reply, written>>

DecideToCall(c) ==
    /\ Running("agent_decide") /\ ~DecisionsSpent
    /\ loop' = [loop EXCEPT !.decisions = @ + 1, !.pending = c, !.stop = "none"]
    /\ Visits("tool_router")
    /\ UNCHANGED <<channel, router, reply, written>>

\* _route_after_tool: the loop goes on unless the observation stopped it.
Observed(stop) ==
    /\ loop' = [loop EXCEPT !.pending = "none", !.stop = stop]
    /\ Visits(IF stop = "none" THEN "agent_decide" ELSE "teacher")
    /\ UNCHANGED <<channel, router, reply, written>>

Calling(c)  == Running("tool_router") /\ loop.pending = c
\* The call reaches its handler: no cached result, and calls are left.
Handled(c)  == Calling(c) /\ c \notin router.cache /\ router.calls < MaxCalls
OneMoreCall == [router EXCEPT !.calls = @ + 1]

\* A result in the cache was observed when it came: the agent asks for the same again.
CallIsDuplicate(c) == Calling(c) /\ c \in router.cache /\ Observed("duplicate_tool_call")
CallsSpent(c) ==
    /\ Calling(c) /\ c \notin router.cache /\ router.calls >= MaxCalls
    /\ Observed("T3_TOOL_BUDGET_EXCEEDED")
CallRefused(c) == Calling(c) /\ Observed("T3_TOOL_ARGUMENT_INVALID")

ReadSucceeds(c) ==
    /\ Handled(c) /\ c \in ReadCalls
    /\ router' = [OneMoreCall EXCEPT !.cache = @ \cup {c}]
    /\ channel' = [channel EXCEPT !.evidence = @ \cup {c}]
    /\ loop' = [loop EXCEPT !.pending = "none"]
    /\ Visits("agent_decide")
    /\ UNCHANGED <<reply, written>>

\* A timeout, an error or evidence that cannot be mapped lets the agent try again; a result
\* that is too large ends the loop.
HandlerFails(c, retry) ==
    /\ Handled(c)
    /\ router' = OneMoreCall
    /\ loop' = [loop EXCEPT !.pending = "none",
                            !.stop = IF retry THEN "none" ELSE "T3_TOOL_RESULT_TOO_LARGE"]
    /\ Visits(IF retry THEN "agent_decide" ELSE "teacher")
    /\ UNCHANGED <<channel, reply, written>>

\* The handler of an effectful tool interrupts the graph; the checkpoint keeps the loop.
CallInterrupts(c) ==
    /\ Handled(c) /\ c \in WriteCalls
    /\ router' = OneMoreCall
    /\ turn' = [turn EXCEPT !.node = "waiting"]
    /\ UNCHANGED <<channel, loop, reply, written>>

\* A tool named by the request itself runs without the loop, and once.
RequestedCall(c, ok) ==
    /\ Running("tool_router") /\ loop.pending = "none" /\ c \in ReadCalls
    /\ router' = [OneMoreCall EXCEPT !.cache = IF ok THEN {c} ELSE {}]
    /\ channel' = [channel EXCEPT !.evidence = @ \cup (IF ok THEN {c} ELSE {})]
    /\ Visits("teacher")
    /\ UNCHANGED <<loop, reply, written>>

\* A decision resumes the graph in a new invocation: the tool node starts over, with a new
\* router and the channels of the checkpoint.  The untracked request is not among them, so
\* the node's first line fails.
ResumeTurn ==
    /\ Visiting("waiting")
    /\ turn' = [turn EXCEPT !.node = "tool_router", !.steps = 0]
    /\ channel' = NoChannels /\ router' = NoRouter
    /\ UNCHANGED <<loop, reply, written>>

-----------------------------------------------------------------------------------
(* The answer. *)

\* What a model writes: loose, if a claim refers to something the draft does not cite.
Ids    == {"chunk", "invented"} \cup ReadCalls
Drafts == [cites : SUBSET Ids, loose : BOOLEAN, insufficient : BOOLEAN]

\* A draft may cite what was selected for it, and a claim what its draft cites.
InvalidCitations(d, given) == (d.cites \ given) \cup (IF d.loose THEN {"claim"} ELSE {})

\* Deviation: the repaired draft is not looked at again.
TrustsRepair(d, given) == {}

InvalidAfterRepair(d, given) == InvalidCitations(d, given)

\* Nobody judges claims in production: an answer is unverified or admits a lack of evidence.
GroundingOf(d, given) ==
    IF d.insufficient \/ given = {} THEN "insufficient_evidence" ELSE "semantic_unverified"

\* A refusal has no citations; another answer shows the draft with its citations.
ReplyOf(status, d, given) ==
    [status |-> status, cites |-> d.cites \cap given, loose |-> d.loose, bare |-> given = {}]

Refusal(status, given) == [NoReply EXCEPT !.status = status, !.bare = given = {}]

\* One repair at most: of a draft that does not parse, or else of one with citations that
\* are not valid.
Evaluations(given) ==
    LET Answer(d, invalid) == IF invalid = {} THEN ReplyOf(GroundingOf(d, given), d, given)
                                              ELSE Refusal("safe_refusal", given)
        kept     == {Answer(d, {}) : d \in {x \in Drafts : InvalidCitations(x, given) = {}}}
        repaired == {Answer(d, InvalidAfterRepair(d, given)) : d \in Drafts}
        failed   == {Refusal(s, given) : s \in {"safe_refusal", "validation_error"}}
    IN  kept \cup repaired \cup failed

\* Selection skips what exceeds its budgets.
Teach ==
    /\ Running("teacher")
    /\ \E given \in SUBSET channel.evidence : reply' \in Evaluations(given)
    /\ Visits("observer")
    /\ UNCHANGED <<channel, loop, router, written>>

-----------------------------------------------------------------------------------
(* The other nodes, and the end. *)

BuildAssessment ==
    /\ Running("build_assessment") /\ Yields("draft") /\ Visits("persist")
    /\ UNCHANGED <<loop, router, reply, written>>

GradeAssessment ==
    /\ Running("grade_assessment")
    /\ channel' = [channel EXCEPT !.out["draft"] = turn.n, !.out["attempt"] = turn.n]
    /\ Visits("observer")
    /\ UNCHANGED <<loop, router, reply, written>>

RouteAfterObserver(trigger, keep) ==
    IF trigger = "manual_replan" \/ (trigger # "chat" /\ ~keep) THEN "planner" ELSE "memory_gate"

Observe(keep) ==
    /\ Running("observer") /\ Visits(RouteAfterObserver(turn.trigger, keep))
    /\ UNCHANGED <<channel, loop, router, reply, written>>

Replan ==
    /\ Running("planner") /\ Yields("adjustment") /\ Visits("memory_gate")
    /\ UNCHANGED <<loop, router, reply, written>>

DecideMemories(some) ==
    /\ Running("memory_gate")
    /\ channel' = [channel EXCEPT !.out["memory"] = IF some THEN turn.n ELSE 0]
    /\ Visits("persist")
    /\ UNCHANGED <<loop, router, reply, written>>

PersistNode ==
    /\ Running("persist") /\ Visits("commit")
    /\ UNCHANGED <<channel, loop, router, reply, written>>

\* build_actions: a draft is saved unless it was graded in the same run.
Actions ==
    {o \in Outputs : /\ channel.out[o] # 0
                     /\ o = "draft" => channel.out["attempt"] = 0}

\* _execute_workflow_actions and the commit.
CommitTurn ==
    /\ Running("commit")
    /\ written' = written \cup
           {[what |-> o, of |-> channel.out[o], by |-> turn.n, trigger |-> turn.trigger] :
               o \in Actions}
    /\ turn' = [turn EXCEPT !.node = "done"]
    /\ UNCHANGED <<channel, loop, router, reply>>

\* Any node may fail; one whose request is gone does.  Nothing is written then.
TurnFails ==
    /\ turn.node \notin {"idle", "waiting", "done", "failed"}
    /\ turn' = [turn EXCEPT !.node = "failed"]
    /\ UNCHANGED <<channel, loop, router, reply, written>>

-----------------------------------------------------------------------------------
AgentStep ==
    \/ StopDeciding
    \/ DecideToAnswer
    \/ \E c \in ToolCalls :
          \/ DecideToCall(c) \/ CallIsDuplicate(c) \/ CallsSpent(c) \/ CallRefused(c)
          \/ ReadSucceeds(c) \/ CallInterrupts(c)
          \/ \E b \in BOOLEAN : HandlerFails(c, b) \/ RequestedCall(c, b)
    \/ ResumeTurn

NodeStep ==
    \/ LoadContext \/ Diagnose \/ Teach \/ BuildAssessment \/ GradeAssessment \/ Replan
    \/ PersistNode \/ CommitTurn \/ TurnFails
    \/ \E found \in {{}, {"chunk"}}, next \in {"teacher", "agent_decide", "tool_router"} :
          RetrieveContext(found, next)
    \/ \E b \in BOOLEAN : Observe(b) \/ DecideMemories(b)

GraphNext == AgentStep \/ NodeStep \/ \E t \in Triggers : StartTurn(t)

GraphSpec == GraphInit /\ [][GraphNext]_graphVars

-----------------------------------------------------------------------------------
MayWrite(trigger) ==
    CASE trigger = "chat"                 -> {"memory"}
      [] trigger = "assessment_due"       -> {"draft"}
      [] trigger = "assessment_submitted" -> {"attempt", "adjustment", "memory"}
      [] trigger \in {"onboarding", "task_completed", "manual_replan"} ->
            {"adjustment", "memory"}

\* A turn writes what it made itself, and only what its trigger stands for: no draft, attempt
\* or adjustment that an earlier turn left in the thread's graph is written again.
EffectsOfThisTurn == \A w \in written : w.of = w.by /\ w.what \in MayWrite(w.trigger)

\* An invocation visits at most seven nodes besides a decision and a tool call per decision
\* allowed: with the largest AGENT_MAX_DECISIONS, 8, that is 23, and the graph library, whose
\* limit the code leaves at 25, does not break off a turn that spends every decision.
StepsWithinLimit == turn.steps <= 2 * turn.limit + 7

\* An answer that is not a refusal cites only evidence that was retrieved or that a call of
\* this turn returned, every claim cites what its answer cites, and an answer given without
\* evidence says so.
GroundedAnswer ==
    reply.status \in {"semantic_unverified", "insufficient_evidence"} =>
        /\ ~reply.loose
        /\ reply.cites \subseteq channel.evidence
        /\ channel.evidence \subseteq {"chunk"} \cup router.cache
        /\ reply.bare => reply.status = "insufficient_evidence"
===================================================================================
