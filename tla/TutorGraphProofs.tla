-------------------------- MODULE TutorGraphProofs --------------------------
(***************************************************************************)
(* Proofs about TutorGraph, for any tool calls, limits and turns: what a   *)
(* turn writes, how many nodes it visits, and what its answer rests on.    *)
(***************************************************************************)
EXTENDS TutorGraph, TLAPS

Nodes == {"idle", "load_context", "diagnosis", "retrieve_context", "agent_decide",
          "tool_router", "waiting", "teacher", "build_assessment", "grade_assessment",
          "observer", "planner", "memory_gate", "persist", "commit", "done", "failed"}

Evidence == {"chunk"} \cup ToolCalls

GraphTypeOK ==
  /\ turn \in [n : Nat, trigger : Triggers, node : Nodes, steps : Nat, limit : DecisionLimits]
  /\ channel \in [request : BOOLEAN, evidence : SUBSET Evidence, out : [Outputs -> Nat]]
  /\ loop \in [decisions : Nat, pending : ToolCalls \cup {"none"},
               stop : {"none", "answer", "budget_exhausted", "duplicate_tool_call",
                       "T3_TOOL_BUDGET_EXCEEDED", "T3_TOOL_ARGUMENT_INVALID",
                       "T3_TOOL_RESULT_TOO_LARGE"}]
  /\ router \in [calls : Nat, cache : SUBSET ToolCalls]

\* The nodes of the answer and its agent, which only a chat visits.
ChatNodes == {"retrieve_context", "agent_decide", "tool_router", "waiting", "teacher"}

\* Each trigger keeps to its part of the graph.
NodeFits ==
  /\ turn.node \in ChatNodes          => turn.trigger = "chat"
  /\ turn.node = "diagnosis"          => turn.trigger = "onboarding"
  /\ turn.node = "build_assessment"   => turn.trigger = "assessment_due"
  /\ turn.node = "grade_assessment"   => turn.trigger = "assessment_submitted"
  /\ turn.node = "planner"            => turn.trigger \notin {"chat", "assessment_due"}
  /\ turn.node \in {"observer", "memory_gate"} => turn.trigger # "assessment_due"

\* An output is of this turn, and of a trigger that makes it.
OutputsFit ==
  /\ \A o \in Outputs : channel.out[o] \in {0, turn.n}
  /\ channel.out["draft"] # 0 => turn.trigger = "assessment_due" \/ channel.out["attempt"] # 0
  /\ channel.out["attempt"] # 0    => turn.trigger = "assessment_submitted"
  /\ channel.out["adjustment"] # 0 => turn.trigger \notin {"chat", "assessment_due"}
  /\ channel.out["memory"] # 0     => turn.trigger # "assessment_due"

\* How many nodes a turn has visited at most when it comes to each: two more for every
\* decision, and the path around them.
StepsFit ==
  LET d == 2 * loop.decisions IN
  /\ loop.decisions <= turn.limit
  /\ turn.node \in {"idle", "load_context"} => turn.steps = 0
  /\ turn.node \in {"diagnosis", "retrieve_context", "build_assessment", "grade_assessment"}
        => turn.steps <= 1
  /\ turn.node \in {"tool_router", "waiting"}
        => turn.steps <= (IF loop.pending = "none" THEN 2 ELSE 1 + d)
  /\ turn.node = "agent_decide" => turn.steps <= 2 + d
  /\ turn.node = "teacher"      => turn.steps <= 3 + d
  /\ turn.node = "observer"     => turn.steps <= (IF turn.trigger = "chat" THEN 4 + d ELSE 2)
  /\ turn.node = "planner"      => turn.steps <= 3
  /\ turn.node = "memory_gate"  => turn.steps <= (IF turn.trigger = "chat" THEN 5 + d ELSE 4)
  /\ turn.node = "persist"      => turn.steps <= 6 + d
  /\ turn.steps <= 7 + d

\* Evidence is a retrieved chunk or the result of a call of this turn; before the teacher
\* there is no answer, and before the first call no result.
EvidenceFits ==
  /\ channel.evidence \subseteq {"chunk"} \cup router.cache
  /\ turn.node \in {"load_context"} \cup ChatNodes => reply = NoReply
  /\ turn.node \in {"load_context", "retrieve_context"} =>
        router.cache = {} /\ loop.pending = "none"
  /\ (turn.node = "tool_router" /\ loop.pending = "none") => router.cache = {}

GraphInv ==
  GraphTypeOK /\ NodeFits /\ OutputsFit /\ StepsFit /\ EvidenceFits
  /\ EffectsOfThisTurn /\ GroundedAnswer

-----------------------------------------------------------------------------
\* Before the first turn there is nothing.
LEMMA GraphInitially == GraphInit => GraphInv
BY TutorGraphAssumption
DEF GraphInit, GraphInv, GraphTypeOK, NodeFits, OutputsFit, StepsFit, EvidenceFits,
    EffectsOfThisTurn, GroundedAnswer, NoChannels, NoLoop, NoRouter, NoReply, Triggers,
    Nodes, ChatNodes, Outputs, Evidence

\* Limits are numbers, and no call is called "none".
LEMMA Limits ==
  /\ \A limit \in DecisionLimits : limit \in Nat
  /\ "none" \notin ToolCalls /\ ReadCalls \subseteq ToolCalls /\ WriteCalls \subseteq ToolCalls
BY TutorGraphAssumption DEF ToolCalls

\* The next node is the only thing about the turn that a visit changes.
LEMMA Visited ==
  ASSUME GraphInv, NEW node \in Nodes, Visits(node)
  PROVE  /\ turn' \in [n : Nat, trigger : Triggers, node : Nodes, steps : Nat,
                       limit : DecisionLimits]
         /\ turn'.node = node /\ turn'.steps = turn.steps + 1
         /\ turn'.n = turn.n /\ turn'.trigger = turn.trigger /\ turn'.limit = turn.limit
<1>1. turn \in [n : Nat, trigger : Triggers, node : Nodes, steps : Nat, limit : DecisionLimits]
  BY DEF GraphInv, GraphTypeOK
<1>2. turn' = [turn EXCEPT !.node = node, !.steps = turn.steps + 1]
  BY DEF Visits
<1>3. turn.steps + 1 \in Nat
  BY <1>1
<1> QED
  BY <1>1, <1>2, <1>3

\* A turn and a resumption start with nothing of what the thread's graph held.
LEMMA StartsKeep ==
  ASSUME GraphInv, ResumeTurn \/ \E t \in Triggers : StartTurn(t)
  PROVE  GraphInv'
<1> USE Limits DEF GraphInv, GraphTypeOK
<1>1. CASE ResumeTurn
  <2>1. /\ turn' = [turn EXCEPT !.node = "tool_router", !.steps = 0]
        /\ turn.node = "waiting" /\ UNCHANGED <<loop, reply, written>>
    BY <1>1 DEF ResumeTurn, Visiting
  <2>2. /\ turn' \in [n : Nat, trigger : Triggers, node : Nodes, steps : Nat,
                      limit : DecisionLimits]
        /\ turn'.node = "tool_router" /\ turn'.steps = 0 /\ turn'.limit = turn.limit
        /\ turn'.trigger = turn.trigger
    BY <2>1 DEF Nodes
  <2>3. /\ channel' \in [request : BOOLEAN, evidence : SUBSET Evidence, out : [Outputs -> Nat]]
        /\ channel'.evidence = {} /\ \A o \in Outputs : channel'.out[o] = 0
    BY <1>1 DEF ResumeTurn, NoChannels
  <2>4. router' = NoRouter
    BY <1>1 DEF ResumeTurn
  <2>5. GraphTypeOK'
    BY <2>1, <2>2, <2>3, <2>4 DEF NoRouter
  <2>6. NodeFits' /\ OutputsFit'
    BY <2>1, <2>2, <2>3 DEF NodeFits, OutputsFit, ChatNodes, Outputs
  <2>7. StepsFit'
    BY <2>1, <2>2 DEF StepsFit
  <2>8. EvidenceFits' /\ GroundedAnswer'
    BY <2>1, <2>2, <2>3, <2>4
    DEF EvidenceFits, GroundedAnswer, ChatNodes, NoRouter, NoReply
  <2> QED
    BY <2>1, <2>5, <2>6, <2>7, <2>8 DEF EffectsOfThisTurn
<1>2. ASSUME NEW t \in Triggers, StartTurn(t) PROVE GraphInv'
  <2>1. /\ turn' \in [n : Nat, trigger : Triggers, node : Nodes, steps : Nat,
                      limit : DecisionLimits]
        /\ turn'.node = "load_context" /\ turn'.steps = 0
    <3>1. turn' = [turn EXCEPT !.n = turn.n + 1, !.trigger = t, !.node = "load_context",
                               !.steps = 0]
      BY <1>2 DEF StartTurn
    <3>2. turn.n + 1 \in Nat /\ "load_context" \in Nodes
      BY DEF Nodes
    <3> QED
      BY <3>1, <3>2
  <2>2. /\ channel' \in [request : BOOLEAN, evidence : SUBSET Evidence, out : [Outputs -> Nat]]
        /\ channel'.evidence = {} /\ \A o \in Outputs : channel'.out[o] = 0
    BY <1>2 DEF StartTurn, ChannelsAtStart, NoChannels
  <2>3. loop' = NoLoop /\ router' = NoRouter /\ reply' = NoReply /\ written' = written
    BY <1>2 DEF StartTurn
  <2>4. GraphTypeOK'
    BY <2>1, <2>2, <2>3 DEF NoLoop, NoRouter
  <2>5. NodeFits' /\ OutputsFit'
    BY <2>1, <2>2 DEF NodeFits, OutputsFit, ChatNodes, Outputs
  <2>6. StepsFit'
    BY <2>1, <2>3 DEF StepsFit, NoLoop
  <2>7. EvidenceFits' /\ GroundedAnswer'
    BY <2>1, <2>2, <2>3 DEF EvidenceFits, GroundedAnswer, ChatNodes, NoLoop, NoRouter, NoReply
  <2> QED
    BY <2>3, <2>4, <2>5, <2>6, <2>7 DEF EffectsOfThisTurn
<1> QED
  BY <1>1, <1>2

\* Nodes that only lead to the next.
LEMMA PassingKeeps ==
  ASSUME GraphInv, LoadContext \/ Diagnose \/ PersistNode \/ TurnFails
                   \/ \E b \in BOOLEAN : Observe(b)
  PROVE  GraphInv'
<1> USE Limits DEF GraphInv, GraphTypeOK
<1>0. UNCHANGED <<channel, loop, router, reply, written>>
  BY DEF LoadContext, Diagnose, PersistNode, TurnFails, Observe
<1>1. CASE LoadContext
  <2> DEFINE node == RouteAfterLoad(turn.trigger)
  <2>1. /\ node \in Nodes
        /\ turn.trigger = "onboarding"           => node = "diagnosis"
        /\ turn.trigger = "chat"                 => node = "retrieve_context"
        /\ turn.trigger = "assessment_due"       => node = "build_assessment"
        /\ turn.trigger = "assessment_submitted" => node = "grade_assessment"
        /\ turn.trigger \in {"task_completed", "manual_replan"} => node = "observer"
    BY DEF RouteAfterLoad, Triggers, Nodes
  <2>2. Visits(node) /\ turn.node = "load_context"
    BY <1>1 DEF LoadContext, Running, Visiting
  <2> HIDE DEF node
  <2>3. NodeFits' /\ OutputsFit'
    BY <1>0, <2>1, <2>2, Visited DEF NodeFits, OutputsFit, ChatNodes, Triggers
  <2>4. StepsFit'
    BY <1>0, <2>1, <2>2, Visited DEF StepsFit, Triggers
  <2>5. EvidenceFits' /\ GroundedAnswer'
    BY <1>0, <2>1, <2>2, Visited DEF EvidenceFits, GroundedAnswer, ChatNodes, Triggers
  <2> QED
    BY <1>0, <2>1, <2>2, <2>3, <2>4, <2>5, Visited DEF EffectsOfThisTurn
<1>2. CASE Diagnose
  <2>1. Visits("planner") /\ turn.node = "diagnosis"
    BY <1>2 DEF Diagnose, Running, Visiting
  <2>2. "planner" \in Nodes
    BY DEF Nodes
  <2>3. NodeFits' /\ OutputsFit'
    BY <1>0, <2>1, <2>2, Visited DEF NodeFits, OutputsFit, ChatNodes
  <2>4. StepsFit'
    BY <1>0, <2>1, <2>2, Visited DEF StepsFit
  <2>5. EvidenceFits' /\ GroundedAnswer'
    BY <1>0, <2>1, <2>2, Visited DEF EvidenceFits, GroundedAnswer, ChatNodes
  <2> QED
    BY <1>0, <2>1, <2>2, <2>3, <2>4, <2>5, Visited DEF EffectsOfThisTurn
<1>3. CASE PersistNode
  <2>1. Visits("commit") /\ turn.node = "persist"
    BY <1>3 DEF PersistNode, Running, Visiting
  <2>2. "commit" \in Nodes
    BY DEF Nodes
  <2>3. NodeFits' /\ OutputsFit'
    BY <1>0, <2>1, <2>2, Visited DEF NodeFits, OutputsFit, ChatNodes
  <2>4. StepsFit'
    BY <1>0, <2>1, <2>2, Visited DEF StepsFit
  <2>5. EvidenceFits' /\ GroundedAnswer'
    BY <1>0, <2>1, <2>2, Visited DEF EvidenceFits, GroundedAnswer, ChatNodes
  <2> QED
    BY <1>0, <2>1, <2>2, <2>3, <2>4, <2>5, Visited DEF EffectsOfThisTurn
<1>4. CASE TurnFails
  <2>1. turn' = [turn EXCEPT !.node = "failed"]
    BY <1>4 DEF TurnFails
  <2>2. GraphTypeOK' /\ NodeFits' /\ OutputsFit'
    BY <1>0, <2>1 DEF NodeFits, OutputsFit, ChatNodes, Nodes
  <2>3. StepsFit'
    BY <1>0, <2>1 DEF StepsFit
  <2>4. EvidenceFits' /\ GroundedAnswer'
    BY <1>0, <2>1 DEF EvidenceFits, GroundedAnswer, ChatNodes
  <2> QED
    BY <1>0, <2>2, <2>3, <2>4 DEF EffectsOfThisTurn
<1>5. ASSUME NEW b \in BOOLEAN, Observe(b) PROVE GraphInv'
  <2> DEFINE node == RouteAfterObserver(turn.trigger, b)
  <2>1. /\ node \in {"planner", "memory_gate"}
        /\ node = "planner" => turn.trigger # "chat"
    BY DEF RouteAfterObserver
  <2>2. Visits(node) /\ turn.node = "observer"
    BY <1>5 DEF Observe, Running, Visiting
  <2> HIDE DEF node
  <2>3. node \in Nodes
    BY <2>1 DEF Nodes
  <2>4. NodeFits' /\ OutputsFit'
    BY <1>0, <2>1, <2>2, <2>3, Visited DEF NodeFits, OutputsFit, ChatNodes
  <2>5. StepsFit'
    BY <1>0, <2>1, <2>2, <2>3, Visited DEF StepsFit
  <2>6. EvidenceFits' /\ GroundedAnswer'
    BY <1>0, <2>1, <2>2, <2>3, Visited DEF EvidenceFits, GroundedAnswer, ChatNodes
  <2> QED
    BY <1>0, <2>2, <2>3, <2>4, <2>5, <2>6, Visited DEF EffectsOfThisTurn
<1> QED
  BY <1>1, <1>2, <1>3, <1>4, <1>5

-----------------------------------------------------------------------------
\* Retrieval finds chunks, before any call.
LEMMA RetrievalKeeps ==
  ASSUME GraphInv, NEW found \in {{}, {"chunk"}},
         NEW next \in {"teacher", "agent_decide", "tool_router"}, RetrieveContext(found, next)
  PROVE  GraphInv'
<1> USE Limits DEF GraphInv, GraphTypeOK
<1>1. /\ turn.node = "retrieve_context" /\ Visits(next) /\ next \in Nodes
      /\ UNCHANGED <<loop, router, reply, written>>
  BY DEF RetrieveContext, Running, Visiting, Nodes
<1>2. /\ channel' \in [request : BOOLEAN, evidence : SUBSET Evidence, out : [Outputs -> Nat]]
      /\ channel'.evidence \subseteq {"chunk"} /\ channel'.out = channel.out
  BY DEF RetrieveContext, Evidence
<1>3. NodeFits' /\ OutputsFit'
  BY <1>1, <1>2, Visited DEF NodeFits, OutputsFit, ChatNodes
<1>4. StepsFit'
  BY <1>1, Visited DEF StepsFit, EvidenceFits
<1>5. EvidenceFits' /\ GroundedAnswer'
  BY <1>1, <1>2, Visited DEF EvidenceFits, GroundedAnswer, ChatNodes, NoReply
<1> QED
  BY <1>1, <1>2, <1>3, <1>4, <1>5, Visited DEF EffectsOfThisTurn

\* A decision costs one of the budget, and leads to a call or to the answer.
LEMMA DecisionsKeep ==
  ASSUME GraphInv, StopDeciding \/ DecideToAnswer \/ \E c \in ToolCalls : DecideToCall(c)
  PROVE  GraphInv'
<1> USE Limits DEF GraphInv, GraphTypeOK
<1> DEFINE Stops == {"none", "answer", "budget_exhausted", "duplicate_tool_call",
                     "T3_TOOL_BUDGET_EXCEEDED", "T3_TOOL_ARGUMENT_INVALID",
                     "T3_TOOL_RESULT_TOO_LARGE"}
<1>0. turn.node = "agent_decide" /\ UNCHANGED <<channel, router, reply, written>>
  BY DEF StopDeciding, DecideToAnswer, DecideToCall, Running, Visiting
<1>1. ASSUME NEW node \in {"teacher", "tool_router"}, Visits(node),
             NEW k \in {0, 1}, loop'.decisions = loop.decisions + k,
             k = 1 => loop.decisions < turn.limit,
             node = "tool_router" => (k = 1 /\ loop'.pending # "none"),
             loop' \in [decisions : Nat, pending : ToolCalls \cup {"none"}, stop : Stops]
      PROVE GraphInv'
  <2>1. node \in Nodes
    BY DEF Nodes
  <2>2. NodeFits' /\ OutputsFit'
    BY <1>0, <1>1, <2>1, Visited DEF NodeFits, OutputsFit, ChatNodes
  <2>3. StepsFit'
    BY <1>0, <1>1, <2>1, Visited DEF StepsFit
  <2>4. EvidenceFits' /\ GroundedAnswer'
    BY <1>0, <1>1, <2>1, Visited DEF EvidenceFits, GroundedAnswer, ChatNodes
  <2> QED
    BY <1>0, <1>1, <2>1, <2>2, <2>3, <2>4, Visited DEF EffectsOfThisTurn
<1>2. CASE StopDeciding
  <2>1. loop' = [loop EXCEPT !.pending = "none", !.stop = "budget_exhausted"]
    BY <1>2 DEF StopDeciding
  <2>2. Visits("teacher")
    BY <1>2 DEF StopDeciding
  <2>3. /\ loop' \in [decisions : Nat, pending : ToolCalls \cup {"none"}, stop : Stops]
        /\ loop'.decisions = loop.decisions
    BY <2>1
  <2>4. loop'.decisions = loop.decisions + 0
    BY <2>3
  <2> QED
    BY <2>2, <2>3, <2>4, <1>1
<1>3. CASE DecideToAnswer
  <2>1. /\ loop' = [loop EXCEPT !.decisions = loop.decisions + 1, !.pending = "none",
                                !.stop = "answer"]
        /\ loop.decisions < turn.limit /\ loop.decisions + 1 \in Nat
    BY <1>3 DEF DecideToAnswer, DecisionsSpent
  <2>2. Visits("teacher")
    BY <1>3 DEF DecideToAnswer
  <2> QED
    BY <2>1, <2>2, <1>1
<1>4. ASSUME NEW c \in ToolCalls, DecideToCall(c) PROVE GraphInv'
  <2>1. loop' = [loop EXCEPT !.decisions = loop.decisions + 1, !.pending = c, !.stop = "none"]
    BY <1>4 DEF DecideToCall
  <2>2. Visits("tool_router") /\ ~DecisionsSpent
    BY <1>4 DEF DecideToCall
  <2>3. loop.decisions + 1 \in Nat /\ c # "none" /\ loop.decisions < turn.limit
    BY <2>2 DEF DecisionsSpent
  <2>4. /\ loop' \in [decisions : Nat, pending : ToolCalls \cup {"none"}, stop : Stops]
        /\ loop'.decisions = loop.decisions + 1 /\ loop'.pending # "none"
    BY <2>1, <2>3
  <2> QED
    BY <2>2, <2>3, <2>4, <1>1
<1> QED
  BY <1>2, <1>3, <1>4

\* What a call may do to the turn: its results are evidence only if they are cached.
LEMMA CallEffect ==
  ASSUME GraphInv, turn.node = "tool_router",
         NEW node \in {"agent_decide", "teacher"}, Visits(node),
         UNCHANGED <<reply, written>>, loop'.decisions = loop.decisions,
         loop' \in [decisions : Nat, pending : ToolCalls \cup {"none"},
               stop : {"none", "answer", "budget_exhausted", "duplicate_tool_call",
                       "T3_TOOL_BUDGET_EXCEEDED", "T3_TOOL_ARGUMENT_INVALID",
                       "T3_TOOL_RESULT_TOO_LARGE"}],
         loop.pending = "none" => node = "teacher",
         router' \in [calls : Nat, cache : SUBSET ToolCalls],
         channel' \in [request : BOOLEAN, evidence : SUBSET Evidence, out : [Outputs -> Nat]],
         channel'.out = channel.out,
         channel'.evidence \subseteq {"chunk"} \cup router'.cache
  PROVE  GraphInv'
<1> USE Limits DEF GraphInv, GraphTypeOK
<1>1. node \in Nodes
  BY DEF Nodes
<1>2. NodeFits' /\ OutputsFit'
  BY <1>1, Visited DEF NodeFits, OutputsFit, ChatNodes
<1>3. StepsFit'
  BY <1>1, Visited DEF StepsFit
<1>4. EvidenceFits' /\ GroundedAnswer'
  BY <1>1, Visited DEF EvidenceFits, GroundedAnswer, ChatNodes, NoReply
<1> QED
  BY <1>1, <1>2, <1>3, <1>4, Visited DEF EffectsOfThisTurn

\* Calls that are refused, fail or succeed.
LEMMA CallsKeep ==
  ASSUME GraphInv, NEW c \in ToolCalls,
         \/ CallIsDuplicate(c) \/ CallsSpent(c) \/ CallRefused(c) \/ ReadSucceeds(c)
         \/ CallInterrupts(c)
         \/ \E b \in BOOLEAN : HandlerFails(c, b) \/ RequestedCall(c, b)
  PROVE  GraphInv'
<1> USE Limits DEF GraphInv, GraphTypeOK
<1> DEFINE Stops == {"none", "answer", "budget_exhausted", "duplicate_tool_call",
                     "T3_TOOL_BUDGET_EXCEEDED", "T3_TOOL_ARGUMENT_INVALID",
                     "T3_TOOL_RESULT_TOO_LARGE"}
<1>0. turn.node = "tool_router"
  BY DEF CallIsDuplicate, CallsSpent, CallRefused, ReadSucceeds, CallInterrupts, HandlerFails,
         RequestedCall, Handled, Calling, Running, Visiting
<1>1. ASSUME NEW stop \in Stops \ {"none"}, Observed(stop) PROVE GraphInv'
  <2>1. loop' = [loop EXCEPT !.pending = "none", !.stop = stop] /\ Visits("teacher")
    BY <1>1 DEF Observed
  <2>2. UNCHANGED <<channel, router, reply, written>>
    BY <1>1 DEF Observed
  <2>3. channel'.evidence \subseteq {"chunk"} \cup router'.cache
    BY <2>2 DEF EvidenceFits
  <2> QED
    BY <1>0, <2>1, <2>2, <2>3, CallEffect
<1>2. CASE CallIsDuplicate(c) \/ CallsSpent(c) \/ CallRefused(c)
  BY <1>1, <1>2 DEF CallIsDuplicate, CallsSpent, CallRefused
<1>3. CASE ReadSucceeds(c)
  <2>1. /\ router' = [router EXCEPT !.calls = router.calls + 1, !.cache = router.cache \cup {c}]
        /\ router.calls + 1 \in Nat
    BY <1>3 DEF ReadSucceeds, OneMoreCall
  <2>2. channel' = [channel EXCEPT !.evidence = channel.evidence \cup {c}]
    BY <1>3 DEF ReadSucceeds
  <2>3. loop' = [loop EXCEPT !.pending = "none"] /\ Visits("agent_decide") /\ loop.pending # "none"
    BY <1>3 DEF ReadSucceeds, Handled, Calling
  <2>4. UNCHANGED <<reply, written>>
    BY <1>3 DEF ReadSucceeds
  <2>5. router' \in [calls : Nat, cache : SUBSET ToolCalls] /\ router'.cache = router.cache \cup {c}
    BY <2>1
  <2>6. /\ channel' \in [request : BOOLEAN, evidence : SUBSET Evidence, out : [Outputs -> Nat]]
        /\ channel'.out = channel.out /\ channel'.evidence = channel.evidence \cup {c}
    BY <2>2 DEF Evidence
  <2>7. channel'.evidence \subseteq {"chunk"} \cup router'.cache
    BY <2>5, <2>6 DEF EvidenceFits
  <2>8. loop' \in [decisions : Nat, pending : ToolCalls \cup {"none"}, stop : Stops]
        /\ loop'.decisions = loop.decisions
    BY <2>3
  <2> QED
    BY <1>0, <2>3, <2>4, <2>5, <2>6, <2>7, <2>8, CallEffect
<1>4. CASE CallInterrupts(c)
  <2>1. /\ router' = [router EXCEPT !.calls = router.calls + 1] /\ router.calls + 1 \in Nat
        /\ turn' = [turn EXCEPT !.node = "waiting"] /\ "waiting" \in Nodes
        /\ UNCHANGED <<channel, loop, reply, written>>
    BY <1>4 DEF CallInterrupts, OneMoreCall, Nodes
  <2>2. /\ router' \in [calls : Nat, cache : SUBSET ToolCalls] /\ router'.cache = router.cache
        /\ turn' \in [n : Nat, trigger : Triggers, node : Nodes, steps : Nat,
                      limit : DecisionLimits]
        /\ turn'.node = "waiting" /\ turn'.n = turn.n /\ turn'.trigger = turn.trigger
        /\ turn'.steps = turn.steps /\ turn'.limit = turn.limit
    BY <2>1
  <2>3. NodeFits' /\ OutputsFit'
    BY <1>0, <2>1, <2>2 DEF NodeFits, OutputsFit, ChatNodes
  <2>4. StepsFit'
    BY <1>0, <2>1, <2>2 DEF StepsFit
  <2>5. EvidenceFits' /\ GroundedAnswer'
    BY <1>0, <2>1, <2>2 DEF EvidenceFits, GroundedAnswer, ChatNodes, NoReply
  <2> QED
    BY <2>1, <2>2, <2>3, <2>4, <2>5 DEF EffectsOfThisTurn
<1>5. ASSUME NEW b \in BOOLEAN, HandlerFails(c, b) PROVE GraphInv'
  <2> DEFINE stop == IF b THEN "none" ELSE "T3_TOOL_RESULT_TOO_LARGE"
             node == IF b THEN "agent_decide" ELSE "teacher"
  <2>0. router.calls + 1 \in Nat
    OBVIOUS
  <2>1. /\ router' = [router EXCEPT !.calls = router.calls + 1]
        /\ loop' = [loop EXCEPT !.pending = "none", !.stop = stop]
        /\ UNCHANGED <<channel, reply, written>>
    BY <1>5 DEF HandlerFails, OneMoreCall
  <2>2. Visits(node) /\ loop.pending # "none"
    BY <1>5 DEF HandlerFails, Handled, Calling
  <2>3. node \in {"agent_decide", "teacher"} /\ stop \in Stops
    OBVIOUS
  <2> HIDE DEF stop, node
  <2>4. router' \in [calls : Nat, cache : SUBSET ToolCalls] /\ router'.cache = router.cache
    BY <2>0, <2>1
  <2>5. channel'.evidence \subseteq {"chunk"} \cup router'.cache
    BY <2>1, <2>4 DEF EvidenceFits
  <2>6. loop' \in [decisions : Nat, pending : ToolCalls \cup {"none"}, stop : Stops]
        /\ loop'.decisions = loop.decisions
    BY <2>1, <2>3
  <2> QED
    BY <1>0, <2>1, <2>2, <2>3, <2>4, <2>5, <2>6, CallEffect
<1>6. ASSUME NEW b \in BOOLEAN, RequestedCall(c, b) PROVE GraphInv'
  <2> DEFINE got == IF b THEN {c} ELSE {}
  <2>0. router.calls + 1 \in Nat
    OBVIOUS
  <2>1. /\ router' = [router EXCEPT !.calls = router.calls + 1, !.cache = got]
        /\ channel' = [channel EXCEPT !.evidence = channel.evidence \cup got]
        /\ UNCHANGED <<loop, reply, written>>
    BY <1>6 DEF RequestedCall, OneMoreCall
  <2>2. Visits("teacher") /\ loop.pending = "none"
    BY <1>6 DEF RequestedCall
  <2>3. got \subseteq ToolCalls
    OBVIOUS
  <2> HIDE DEF got
  <2>4. router' \in [calls : Nat, cache : SUBSET ToolCalls] /\ router'.cache = got
    BY <2>0, <2>1, <2>3
  <2>5. /\ channel' \in [request : BOOLEAN, evidence : SUBSET Evidence, out : [Outputs -> Nat]]
        /\ channel'.out = channel.out /\ channel'.evidence = channel.evidence \cup got
    BY <2>1, <2>3 DEF Evidence
  <2>6. channel'.evidence \subseteq {"chunk"} \cup router'.cache
    BY <1>0, <2>2, <2>4, <2>5 DEF EvidenceFits
  <2> QED
    BY <1>0, <2>1, <2>2, <2>4, <2>5, <2>6, CallEffect
<1> QED
  BY <1>2, <1>3, <1>4, <1>5, <1>6

-----------------------------------------------------------------------------
\* The answer: a draft that is shown, kept or repaired, rests on what was selected.
LEMMA AnswersGrounded ==
  ASSUME NEW given, NEW r \in Evaluations(given),
         r.status \in {"semantic_unverified", "insufficient_evidence"}
  PROVE  /\ ~r.loose /\ r.cites \subseteq given
         /\ r.bare => r.status = "insufficient_evidence"
<1>1. \A s, g : Refusal(s, g).status = s
  BY DEF Refusal, NoReply
<1>2. ASSUME NEW d \in Drafts, InvalidCitations(d, given) = {},
             r = ReplyOf(GroundingOf(d, given), d, given)
      PROVE  /\ ~r.loose /\ r.cites \subseteq given
             /\ r.bare => r.status = "insufficient_evidence"
  <2>1. ~d.loose /\ d.cites \subseteq given
    BY <1>2 DEF InvalidCitations
  <2>2. /\ r.loose = d.loose /\ r.cites = d.cites \cap given
        /\ r.bare = (given = {}) /\ r.status = GroundingOf(d, given)
    BY <1>2 DEF ReplyOf
  <2> QED
    BY <2>1, <2>2 DEF GroundingOf
<1>3. CASE \E d \in Drafts : /\ InvalidCitations(d, given) = {}
                             /\ r = ReplyOf(GroundingOf(d, given), d, given)
  BY <1>2, <1>3
<1>4. CASE \E s \in {"safe_refusal", "validation_error"} : r = Refusal(s, given)
  BY <1>1, <1>4
<1> QED
  BY <1>3, <1>4 DEF Evaluations, InvalidAfterRepair

\* The teacher answers from evidence of this turn.
LEMMA TeachingKeeps ==
  ASSUME GraphInv, Teach
  PROVE  GraphInv'
<1> USE Limits DEF GraphInv, GraphTypeOK
<1>1. /\ turn.node = "teacher" /\ Visits("observer") /\ "observer" \in Nodes
      /\ UNCHANGED <<channel, loop, router, written>>
  BY DEF Teach, Running, Visiting, Nodes
<1>2. PICK given \in SUBSET channel.evidence : reply' \in Evaluations(given)
  BY DEF Teach
<1>3. reply'.status \in {"semantic_unverified", "insufficient_evidence"} =>
        /\ ~reply'.loose /\ reply'.cites \subseteq given
        /\ reply'.bare => reply'.status = "insufficient_evidence"
  BY <1>2, AnswersGrounded
<1>4. GroundedAnswer'
  BY <1>1, <1>2, <1>3 DEF GroundedAnswer, EvidenceFits
<1>5. NodeFits' /\ OutputsFit'
  BY <1>1, Visited DEF NodeFits, OutputsFit, ChatNodes
<1>6. StepsFit'
  BY <1>1, Visited DEF StepsFit, NodeFits, ChatNodes
<1>7. EvidenceFits'
  BY <1>1, Visited DEF EvidenceFits, ChatNodes
<1> QED
  BY <1>1, <1>4, <1>5, <1>6, <1>7, Visited DEF EffectsOfThisTurn

\* A node that makes outputs marks them with this turn, as its trigger allows.
LEMMA OutputsKeep ==
  ASSUME GraphInv, BuildAssessment \/ GradeAssessment \/ Replan
                   \/ \E b \in BOOLEAN : DecideMemories(b)
  PROVE  GraphInv'
<1> USE Limits DEF GraphInv, GraphTypeOK
<1>0. UNCHANGED <<loop, router, reply, written>>
  BY DEF BuildAssessment, GradeAssessment, Replan, DecideMemories
<1>1. ASSUME NEW node \in Nodes, Visits(node), OutputsFit',
             channel' \in [request : BOOLEAN, evidence : SUBSET Evidence,
                           out : [Outputs -> Nat]],
             channel'.evidence = channel.evidence,
             \/ turn.node = "build_assessment" /\ node = "persist"
             \/ turn.node = "grade_assessment" /\ node = "observer"
             \/ turn.node = "planner" /\ node = "memory_gate"
             \/ turn.node = "memory_gate" /\ node = "persist"
      PROVE  GraphInv'
  <2>1. NodeFits'
    BY <1>0, <1>1, Visited DEF NodeFits, ChatNodes
  <2>2. StepsFit'
    BY <1>0, <1>1, Visited DEF StepsFit, NodeFits
  <2>3. EvidenceFits' /\ GroundedAnswer'
    BY <1>0, <1>1, Visited DEF EvidenceFits, GroundedAnswer, ChatNodes
  <2> QED
    BY <1>0, <1>1, <2>1, <2>2, <2>3, Visited DEF EffectsOfThisTurn
<1>2. ASSUME NEW o \in Outputs, NEW m \in {0, turn.n},
             channel' = [channel EXCEPT !.out[o] = m]
      PROVE  /\ channel' \in [request : BOOLEAN, evidence : SUBSET Evidence,
                              out : [Outputs -> Nat]]
             /\ channel'.evidence = channel.evidence
             /\ channel'.out[o] = m
             /\ \A q \in Outputs \ {o} : channel'.out[q] = channel.out[q]
  <2>1. channel' = [channel EXCEPT !.out = [channel.out EXCEPT ![o] = m]]
    BY <1>2
  <2>2. [channel.out EXCEPT ![o] = m] \in [Outputs -> Nat]
    OBVIOUS
  <2> QED
    BY <2>1, <2>2
<1>3. "persist" \in Nodes /\ "observer" \in Nodes /\ "memory_gate" \in Nodes
  BY DEF Nodes
<1>4. CASE BuildAssessment
  <2>1. /\ turn.node = "build_assessment" /\ Visits("persist")
        /\ channel' = [channel EXCEPT !.out["draft"] = turn.n]
    BY <1>4 DEF BuildAssessment, Running, Visiting, Yields
  <2>2. OutputsFit'
    BY <1>2, <1>3, <2>1, Visited DEF OutputsFit, NodeFits, Outputs
  <2>3. "draft" \in Outputs
    BY DEF Outputs
  <2> QED
    BY <1>1, <1>2, <1>3, <2>1, <2>2, <2>3
<1>5. CASE Replan
  <2>1. /\ turn.node = "planner" /\ Visits("memory_gate")
        /\ channel' = [channel EXCEPT !.out["adjustment"] = turn.n]
    BY <1>5 DEF Replan, Running, Visiting, Yields
  <2>2. OutputsFit'
    BY <1>2, <1>3, <2>1, Visited DEF OutputsFit, NodeFits, Outputs
  <2>3. "adjustment" \in Outputs
    BY DEF Outputs
  <2> QED
    BY <1>1, <1>2, <1>3, <2>1, <2>2, <2>3
<1>6. ASSUME NEW b \in BOOLEAN, DecideMemories(b) PROVE GraphInv'
  <2> DEFINE m == IF b THEN turn.n ELSE 0
  <2>1. /\ turn.node = "memory_gate" /\ Visits("persist")
        /\ channel' = [channel EXCEPT !.out["memory"] = m]
    BY <1>6 DEF DecideMemories, Running, Visiting
  <2>2. m \in {0, turn.n} /\ "memory" \in Outputs
    BY DEF Outputs
  <2> HIDE DEF m
  <2>3. OutputsFit'
    BY <1>2, <1>3, <2>1, <2>2, Visited DEF OutputsFit, NodeFits, Outputs
  <2> QED
    BY <1>1, <1>2, <1>3, <2>1, <2>2, <2>3
<1>7. CASE GradeAssessment
  <2>1. /\ turn.node = "grade_assessment" /\ Visits("observer")
        /\ channel' = [channel EXCEPT !.out["draft"] = turn.n, !.out["attempt"] = turn.n]
    BY <1>7 DEF GradeAssessment, Running, Visiting
  <2> DEFINE out == [[channel.out EXCEPT !["draft"] = turn.n] EXCEPT !["attempt"] = turn.n]
  <2>2. channel' = [channel EXCEPT !.out = out]
    BY <2>1
  <2>3. /\ out \in [Outputs -> Nat] /\ out["draft"] = turn.n /\ out["attempt"] = turn.n
        /\ \A q \in Outputs \ {"draft", "attempt"} : out[q] = channel.out[q]
    BY DEF Outputs
  <2> HIDE DEF out
  <2>4. /\ channel' \in [request : BOOLEAN, evidence : SUBSET Evidence, out : [Outputs -> Nat]]
        /\ channel'.evidence = channel.evidence /\ channel'.out = out
    BY <2>2, <2>3
  <2>5. OutputsFit'
    BY <1>3, <2>1, <2>3, <2>4, Visited DEF OutputsFit, NodeFits, Outputs
  <2> QED
    BY <1>1, <1>3, <2>1, <2>4, <2>5
<1> QED
  BY <1>4, <1>5, <1>6, <1>7

\* The commit writes the outputs of this turn.
LEMMA CommitKeeps ==
  ASSUME GraphInv, CommitTurn
  PROVE  GraphInv'
<1> USE Limits DEF GraphInv, GraphTypeOK
<1>1. /\ turn' = [turn EXCEPT !.node = "done"] /\ "done" \in Nodes /\ turn.node = "commit"
      /\ UNCHANGED <<channel, loop, router, reply>>
  BY DEF CommitTurn, Running, Visiting, Nodes
<1>2. /\ turn' \in [n : Nat, trigger : Triggers, node : Nodes, steps : Nat,
                    limit : DecisionLimits]
      /\ turn'.node = "done" /\ turn'.n = turn.n /\ turn'.trigger = turn.trigger
      /\ turn'.steps = turn.steps /\ turn'.limit = turn.limit
  BY <1>1
<1>3. ASSUME NEW o \in Actions
      PROVE  channel.out[o] = turn.n /\ o \in MayWrite(turn.trigger)
  <2>1. o \in Outputs /\ channel.out[o] # 0 /\ (o = "draft" => channel.out["attempt"] = 0)
    BY DEF Actions
  <2>2. channel.out[o] = turn.n
    BY <2>1 DEF OutputsFit
  <2>3. o \in MayWrite(turn.trigger)
    BY <2>1 DEF OutputsFit, Outputs, MayWrite, Triggers
  <2> QED
    BY <2>2, <2>3
<1>4. \A w \in written' : \/ w \in written
                          \/ \E o \in Actions : w = [what |-> o, of |-> channel.out[o],
                                                     by |-> turn.n, trigger |-> turn.trigger]
  BY DEF CommitTurn
<1>5. EffectsOfThisTurn'
  BY <1>3, <1>4 DEF EffectsOfThisTurn
<1>6. NodeFits' /\ OutputsFit'
  BY <1>1, <1>2 DEF NodeFits, OutputsFit, ChatNodes
<1>7. StepsFit'
  BY <1>1, <1>2 DEF StepsFit
<1>8. EvidenceFits' /\ GroundedAnswer'
  BY <1>1, <1>2 DEF EvidenceFits, GroundedAnswer, ChatNodes
<1> QED
  BY <1>1, <1>2, <1>5, <1>6, <1>7, <1>8

\* Every step of the graph keeps the invariant.
LEMMA GraphInductive == GraphInv /\ [GraphNext]_graphVars => GraphInv'
<1> SUFFICES ASSUME GraphInv, [GraphNext]_graphVars PROVE GraphInv'
  OBVIOUS
<1>1. CASE UNCHANGED graphVars
  BY <1>1
  DEF graphVars, GraphInv, GraphTypeOK, NodeFits, OutputsFit, StepsFit, EvidenceFits,
      EffectsOfThisTurn, GroundedAnswer
<1>2. CASE AgentStep
  BY <1>2, DecisionsKeep, CallsKeep, StartsKeep DEF AgentStep
<1>3. CASE NodeStep
  BY <1>3, PassingKeeps, TeachingKeeps, OutputsKeep, CommitKeeps, RetrievalKeeps DEF NodeStep
<1>4. CASE \E t \in Triggers : StartTurn(t)
  BY <1>4, StartsKeep
<1> QED
  BY <1>1, <1>2, <1>3, <1>4 DEF GraphNext

\* The parts of the invariant hold of every turn of a thread.
THEOREM GraphInvariance == GraphSpec => []GraphInv
BY GraphInitially, GraphInductive, PTL DEF GraphSpec

\* Nothing that an earlier turn left in the thread's graph is written again, and a trigger
\* writes only what it stands for (engine.py, build_actions).
THEOREM TurnsWriteTheirOwn == GraphSpec => []EffectsOfThisTurn
<1>1. GraphInv => EffectsOfThisTurn
  BY DEF GraphInv
<1> QED
  BY <1>1, GraphInvariance, PTL

\* A turn visits seven nodes at most and two more for every decision allowed, however
\* many calls, refusals and failures there are (agent_controller.py, phase2/engine.py).
THEOREM TurnsAreShort == GraphSpec => []StepsWithinLimit
<1>1. GraphInv => StepsWithinLimit
  BY Limits DEF GraphInv, GraphTypeOK, StepsFit, StepsWithinLimit
<1> QED
  BY <1>1, GraphInvariance, PTL

\* An answer that is not a refusal rests on evidence of its own turn, whatever the model
\* writes and however often its draft is repaired (tutor/grounding.py).
THEOREM AnswersAreGrounded == GraphSpec => []GroundedAnswer
<1>1. GraphInv => GroundedAnswer
  BY DEF GraphInv
<1> QED
  BY <1>1, GraphInvariance, PTL
=============================================================================
