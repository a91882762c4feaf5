---------------------------- MODULE LearningPlan ----------------------------
(***************************************************************************)
(* The learning plan of one goal: proposals to change it and what the      *)
(* learner decides about them (planning_service.py), the tasks and their   *)
(* learning sessions (learning_service.py), a new diagnosis                *)
(* (services/learning.py) and a reassessment (onboarding_service.py).      *)
(*                                                                         *)
(* Plans are replaced, never changed: plan v + 1 follows plan v, and the   *)
(* learning-state snapshot names the one in force.  What keeps the         *)
(* requests apart is the row of the goal.  It is locked FOR UPDATE by      *)
(* whoever replaces the plan or starts a task; a completion only inserts   *)
(* rows that refer to it, which locks it FOR KEY SHARE.  A transaction     *)
(* that takes the lock and commits without calling a model is one action   *)
(* that needs the lock to be free.                                         *)
(*                                                                         *)
(* A proposal that changes nothing ("keep") is refused at once and is left *)
(* out.                                                                    *)
(***************************************************************************)
EXTENDS Naturals, Sequences, FiniteSets

CONSTANTS
  Callers,         \* requests being served at one time
  MaxPlans,        \* bound: plans of the goal
  MaxTasks,        \* bound: tasks of all its plans
  MaxAdjustments   \* bound: proposals

ASSUME PlanConstants ==
  /\ {MaxPlans, MaxTasks} \subseteq Nat \ {0}
  /\ MaxAdjustments \in Nat

VARIABLES
  plans,        \* rows of learning_plans in the order of their versions
  activePlan,   \* learning_state_snapshots.active_plan_id
  tasks,        \* rows of plan_tasks, each with its learning session
  adjustments,  \* rows of plan_adjustments
  caller        \* per request being served: where it is and what it has read

planVars == <<plans, activePlan, tasks, adjustments, caller>>

None == 0
Ready == [pc |-> "idle", at |-> None]

\* A proposal made for the plan in force.
Proposal == [base |-> activePlan, status |-> "proposed", late |-> FALSE]

\* The plan and a task that the first diagnosis makes, with a proposal when it shows
\* low skills.
PlanInit ==
  /\ plans = <<[status |-> "active", by |-> "diagnosis", from |-> None]>>
  /\ activePlan = 1
  /\ tasks = <<[plan |-> 1, status |-> "pending", session |-> "none", of |-> None]>>
  /\ adjustments \in {<<>>, <<Proposal>>}
  /\ caller = [c \in Callers |-> Ready]

In(c, pc) == caller[c].pc = pc
Return(c) == caller' = [caller EXCEPT ![c] = Ready]
Enter(c, pc, at) ==
  /\ In(c, "idle")
  /\ caller' = [caller EXCEPT ![c] = [pc |-> pc, at |-> at]]

\* A reassessment keeps the goal locked while the model writes the roadmap; a
\* completion holds its key-share lock while the graph runs.
ExclusiveFree == \A c \in Callers : ~In(c, "generating")
GoalFree == ExclusiveFree /\ \A c \in Callers : ~In(c, "recording")

(***************************************************************************)
(* A new plan                                                              *)
(***************************************************************************)

Open(t) == tasks[t].status # "completed"
OpenTasks == {t \in DOMAIN tasks : tasks[t].plan = activePlan /\ Open(t)}
TaskRow(t) == [plan |-> Len(plans) + 1, status |-> "pending", session |-> "none", of |-> t]

\* Every open task of the old plan is copied; they are numbered as the originals are, since
\* their order (by day, priority and id) matters to nothing here. The new plan may
\* have a task of its own.
InOrder(sources) ==
  {s \in [1..Cardinality(sources) -> sources] : \A i, j \in DOMAIN s : i < j => s[i] < s[j]}
CopiedTasks(order, extra) ==
  [i \in DOMAIN order |-> TaskRow(order[i])] \o IF extra THEN <<TaskRow(None)>> ELSE <<>>

ReplacePlan(by, from, newTasks) ==
  /\ Len(plans) < MaxPlans /\ Len(tasks) + Len(newTasks) <= MaxTasks
  /\ plans' = Append([plans EXCEPT ![activePlan].status = "replaced"],
                     [status |-> "active", by |-> by, from |-> from])
  /\ activePlan' = Len(plans) + 1
  /\ tasks' = tasks \o newTasks

Rediagnose ==
  /\ GoalFree
  /\ ReplacePlan("diagnosis", None, CopiedTasks(<<>>, TRUE))
  /\ UNCHANGED <<adjustments, caller>>

(***************************************************************************)
(* Proposals and what is decided about them                                *)
(***************************************************************************)

\* The graph reads the plan, and saves its proposal when it ends.
ProposeReads(c) ==
  /\ Len(adjustments) < MaxAdjustments
  /\ Enter(c, "proposing", activePlan)
  /\ UNCHANGED <<plans, activePlan, tasks, adjustments>>

ProposeSaves(c) ==
  /\ In(c, "proposing") /\ ExclusiveFree
  /\ Len(adjustments) < MaxAdjustments
  /\ adjustments' = Append(adjustments, [Proposal EXCEPT !.base = caller[c].at])
  /\ Return(c)
  /\ UNCHANGED <<plans, activePlan, tasks>>

DayPasses(a) ==
  /\ adjustments[a].status = "proposed" /\ ~adjustments[a].late
  /\ adjustments' = [adjustments EXCEPT ![a].late = TRUE]
  /\ UNCHANGED <<plans, activePlan, tasks, caller>>

\* A row that is decided answers the request at once: with its content when the decision
\* was made under the same request id, or else with a conflict.  Otherwise the request
\* goes on with the row as it was read.
Undecided(a) == adjustments[a].status = "proposed"

AcceptReads(c, a) ==
  /\ Undecided(a)
  /\ Enter(c, IF adjustments[a].late THEN "expiring" ELSE "accepting", a)
  /\ UNCHANGED <<plans, activePlan, tasks, adjustments>>

RejectReads(c, a) ==
  /\ Undecided(a)
  /\ Enter(c, "rejecting", a)
  /\ UNCHANGED <<plans, activePlan, tasks, adjustments>>

\* Both write the row by its key, whatever its status has become.
AcceptExpires(c) ==
  /\ In(c, "expiring")
  /\ adjustments' = [adjustments EXCEPT ![caller[c].at].status = "expired"]
  /\ Return(c)
  /\ UNCHANGED <<plans, activePlan, tasks>>

RejectWrites(c) ==
  /\ In(c, "rejecting")
  /\ adjustments' = [adjustments EXCEPT ![caller[c].at].status = "rejected"]
  /\ Return(c)
  /\ UNCHANGED <<plans, activePlan, tasks>>

\* The conditional UPDATE to "applying", under the goal's lock.
Claimable(a) == adjustments[a].status = "proposed"

\* Mutant: the active plan is replaced whichever it is.
AnyBasis(a) == TRUE

\* The plan the proposal was made for is the one in force.
Current(a) == adjustments[a].base = activePlan /\ plans[activePlan].status = "active"

\* Nothing is written when the claim or the plan is gone: the claim is rolled back.
AcceptRefused(c) ==
  /\ In(c, "accepting") /\ GoalFree
  /\ ~(Claimable(caller[c].at) /\ Current(caller[c].at))
  /\ Return(c)
  /\ UNCHANGED <<plans, activePlan, tasks, adjustments>>

AcceptApplies(c) ==
  LET a == caller[c].at IN
  /\ In(c, "accepting") /\ GoalFree
  /\ Claimable(a) /\ Current(a)
  /\ \E order \in InOrder(OpenTasks), extra \in BOOLEAN :
       ReplacePlan("adjustment", a, CopiedTasks(order, extra))
  /\ adjustments' = [adjustments EXCEPT ![a].status = "applied"]
  /\ Return(c)

(***************************************************************************)
(* Tasks and sessions                                                      *)
(***************************************************************************)

Start(t) ==
  /\ GoalFree
  /\ tasks[t].plan = activePlan /\ tasks[t].status = "pending"
  /\ tasks' = [tasks EXCEPT ![t].status = "active", ![t].session = "active"]
  /\ UNCHANGED <<plans, activePlan, adjustments, caller>>

\* The conditional UPDATE to "completing" is committed when the conversation thread of
\* the run is found or made.
CompleteClaims(c, t) ==
  /\ tasks[t].status = "active" /\ tasks[t].session = "active"
  /\ Enter(c, "claimed", t)
  /\ tasks' = [tasks EXCEPT ![t].status = "completing"]
  /\ UNCHANGED <<plans, activePlan, adjustments>>

CompleteRecords(c) ==
  /\ In(c, "claimed") /\ ExclusiveFree
  /\ caller' = [caller EXCEPT ![c].pc = "recording"]
  /\ UNCHANGED <<plans, activePlan, tasks, adjustments>>

\* Mutant: the graph takes a task of any plan.
InSomePlan(t) == TRUE

\* load_context: "task ... is not part of the active learning plan".
InActivePlan(t) == tasks[t].plan = activePlan

CompleteFinishes(c) ==
  LET t == caller[c].at IN
  /\ In(c, "recording") /\ InActivePlan(t)
  /\ tasks' = [tasks EXCEPT ![t].status = "completed", ![t].session = "completed"]
  /\ \/ UNCHANGED adjustments
     \/ /\ Len(adjustments) < MaxAdjustments
        /\ adjustments' = Append(adjustments, Proposal)
  /\ Return(c)
  /\ UNCHANGED <<plans, activePlan>>

\* The graph fails, always so for a task of another plan.  The rollback gives the goal
\* free; then the claim is given back.
CompleteFails(c) ==
  /\ In(c, "recording")
  /\ caller' = [caller EXCEPT ![c].pc = "restoring"]
  /\ UNCHANGED <<plans, activePlan, tasks, adjustments>>

CompleteRestores(c) ==
  /\ In(c, "restoring")
  /\ tasks' = [tasks EXCEPT ![caller[c].at].status = IF @ = "completing" THEN "active" ELSE @]
  /\ Return(c)
  /\ UNCHANGED <<plans, activePlan, adjustments>>

(***************************************************************************)
(* Reassessment                                                            *)
(***************************************************************************)

NoOpenSession == \A t \in DOMAIN tasks : tasks[t].session # "active"

ReassessLocks(c) ==
  /\ GoalFree
  /\ plans[activePlan].status = "active" /\ NoOpenSession
  /\ Enter(c, "generating", activePlan)
  /\ UNCHANGED <<plans, activePlan, tasks, adjustments>>

ReassessCommits(c) ==
  /\ In(c, "generating") /\ NoOpenSession
  /\ ReplacePlan("reassess", None, CopiedTasks(<<>>, TRUE))
  /\ Return(c)
  /\ UNCHANGED <<adjustments>>

ReassessFails(c) ==
  /\ In(c, "generating")
  /\ Return(c)
  /\ UNCHANGED <<plans, activePlan, tasks, adjustments>>

\* The process dies: open transactions are rolled back, committed claims remain.
CallerDies(c) ==
  /\ ~In(c, "idle")
  /\ Return(c)
  /\ UNCHANGED <<plans, activePlan, tasks, adjustments>>

PlanNext ==
  \/ Rediagnose
  \/ \E a \in DOMAIN adjustments : DayPasses(a)
  \/ \E t \in DOMAIN tasks : Start(t)
  \/ \E c \in Callers :
       \/ ProposeReads(c) \/ ProposeSaves(c)
       \/ \E a \in DOMAIN adjustments : AcceptReads(c, a) \/ RejectReads(c, a)
       \/ AcceptExpires(c) \/ RejectWrites(c) \/ AcceptRefused(c) \/ AcceptApplies(c)
       \/ \E t \in DOMAIN tasks : CompleteClaims(c, t)
       \/ CompleteRecords(c) \/ CompleteFinishes(c) \/ CompleteFails(c) \/ CompleteRestores(c)
       \/ ReassessLocks(c) \/ ReassessCommits(c) \/ ReassessFails(c)
       \/ CallerDies(c)

PlanSpec == PlanInit /\ [][PlanNext]_planVars

-----------------------------------------------------------------------------
(***************************************************************************)
(* Properties                                                              *)
(***************************************************************************)

\* The snapshot names the only active plan, and what replaced a plan was made for it,
\* however many requests proposed, decided, diagnosed and reassessed in between: an
\* accepted proposal replaced the very plan it was computed for, a reassessment one
\* without an open learning session.
PlanBasis ==
  /\ {v \in DOMAIN plans : plans[v].status = "active"} = {activePlan}
  /\ \A v \in DOMAIN plans :
       plans[v].by = "adjustment" => adjustments[plans[v].from].base = v - 1
  /\ \A t \in DOMAIN tasks, v \in DOMAIN plans :
       tasks[t].session = "active" /\ v > tasks[t].plan => plans[v].by # "reassess"

\* Work that is done is not asked for again: no plan made by accepting a proposal copies
\* a task that is, or later becomes, completed, although a completion runs for as long
\* as a model call and a plan may be replaced at any time before it is recorded.
WorkNotRepeated ==
  \A t, u \in DOMAIN tasks : tasks[u].of = t => Open(t)

\* "Finish or stop the active learning task before reassessing.": a task in session can be
\* finished, which the graph allows in the active plan only, whatever proposal is accepted.
OpenSessionFinishable ==
  \A t \in DOMAIN tasks :
    tasks[t].session = "active" /\ ~InActivePlan(t) => plans[tasks[t].plan + 1].by # "adjustment"

\* "terminal proposal cannot transition".
DecisionFinal ==
  [][\A a \in DOMAIN adjustments :
       adjustments[a].status \in {"applied", "rejected", "expired"}
         => adjustments'[a].status = adjustments[a].status]_planVars
=============================================================================
