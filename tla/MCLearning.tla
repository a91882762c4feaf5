------------------------------ MODULE MCLearning ------------------------------
(* An assessment, a learning plan, an MCP server, the retrievals of one learner and  *)
(* the chunking of a document, which share no state, one at a time: the first state  *)
(* chooses it.                                                                       *)
EXTENDS AssessmentGrading, LearningPlan, McpServers, Retrieval, Chunking, TLC

VARIABLE focus

vars == <<focus, gradingVars, planVars, mcpVars, retrievalVars, chunkingVars>>

Init == /\ AssessmentInit /\ PlanInit /\ McpInit /\ RetrievalInit
        /\ focus \in {"assessment", "plan", "mcp", "retrieval", "chunking"}
        /\ focus # "assessment" => api = "live"
        /\ focus # "plan" => adjustments = <<>>
        /\ focus # "mcp" => server.command = "remote" /\ server.enabled
        /\ focus # "retrieval" => \A d \in Documents : serving[d] = 1
        /\ ChunkingInit
        /\ focus # "chunking" => chunking = NotCut([deck |-> FALSE, blocks |-> <<Heading(1)>>])

AssessmentStep == focus = "assessment" /\ AssessmentNext /\ UNCHANGED <<focus, planVars, mcpVars, retrievalVars, chunkingVars>>
PlanStep       == focus = "plan" /\ PlanNext /\ UNCHANGED <<focus, gradingVars, mcpVars, retrievalVars, chunkingVars>>
McpStep        == focus = "mcp" /\ McpNext /\ UNCHANGED <<focus, gradingVars, planVars, retrievalVars, chunkingVars>>
RetrievalStep  == focus = "retrieval" /\ RetrievalNext /\ UNCHANGED <<focus, gradingVars, planVars, mcpVars, chunkingVars>>
ChunkingStep   == focus = "chunking" /\ ChunkingNext /\ UNCHANGED <<focus, gradingVars, planVars, mcpVars, retrievalVars>>

Next == AssessmentStep \/ PlanStep \/ McpStep \/ RetrievalStep \/ ChunkingStep

LearningSpec == Init /\ [][Next]_vars

\* States are told apart by the part in focus: the others stay as they are.
InFocus == CASE focus = "assessment" -> gradingVars
             [] focus = "plan"       -> planVars
             [] focus = "mcp"        -> mcpVars
             [] focus = "retrieval"  -> retrievalVars
             [] focus = "chunking"   -> chunkingVars
FocusView == <<focus, InFocus>>

\* The requests about the plan are interchangeable.
Symmetry == Permutations(Callers)
===============================================================================
