------------------------------- MODULE Plans -------------------------------
(***************************************************************************)
(* The plan of a run: what a model proposed, whether it is one that the    *)
(* scheduler can run, and what takes its place when it is not.             *)
(*   src/src/orchestrator/decomposer.js                                    *)
(*   src/src/engine/orchestrate.js 104-134                                 *)
(*                                                                         *)
(* A plan is a sequence of steps; of a step only its name and the names it *)
(* depends on are kept.  A reply that is not JSON, or that lacks a field,  *)
(* is refused the same way as one with an unknown name: Unfit stands for   *)
(* all of them.                                                            *)
(***************************************************************************)
EXTENDS FiniteSetsExt, Integers, Sequences

CONSTANTS
  PlanSteps,          \* the names a model may give to steps
  Sizes,              \* the largest plans that runs allow (maxSubtasksPerRun, 8)
  MaxLength,          \* bound: the longest reply
  MaxReplans          \* bound: how often a run's planning may begin again

ASSUME PlansAssumption ==
  /\ IsFiniteSet(PlanSteps) /\ PlanSteps # {} /\ Sizes \subseteq Nat \ {0}
  /\ MaxLength \in Nat /\ MaxReplans \in Nat

VARIABLES
  pMost,      \* the largest plan that this run allows
  pAsked,     \* "first", "again", or how the planning ended: "planned", "parked"
  pGraph,     \* the plan in the checkpoint, <<>> while there is none
  pBegun      \* how often the planning began again

planVars == <<pMost, pAsked, pGraph, pBegun>>

StepRecord == [id : PlanSteps, dependsOn : SUBSET PlanSteps]
Replies == UNION {[1..n -> StepRecord] : n \in 1..MaxLength}
\* findCycle() is asked about plans with different names only, so there is one step of a name.
IdsOf(tasks) == {tasks[i].id : i \in DOMAIN tasks}
DependsOn(tasks, id) == UNION {tasks[i].dependsOn : i \in {j \in DOMAIN tasks : tasks[j].id = id}}

PlansTypeOK ==
  /\ pMost \in Sizes /\ pAsked \in {"first", "again", "planned", "parked"}
  /\ pGraph \in Replies \cup {<<>>} /\ pBegun \in 0..MaxReplans
  /\ pAsked = "planned" <=> pGraph # <<>>

PlansInit == pMost \in Sizes /\ pAsked = "first" /\ pGraph = <<>> /\ pBegun = 0
----------------------------------------------------------------------------
\* The walk of findCycle.  A mark says which steps are under way (on its stack), which are done, and
\* whether a step under way was met again: then the walk is over.
Marks == [under : SUBSET PlanSteps, done : SUBSET PlanSteps, found : BOOLEAN]
Unmarked == [under |-> {}, done |-> {}, found |-> FALSE]

\* (slip) A step counts as done as soon as it is begun.
DoneAtOnce(m, id) == [m EXCEPT !.done = @ \cup {id}]
Begun(m, id) == [m EXCEPT !.under = @ \cup {id}]

\* A step is looked at: it has been left, it is under way, or it is visited now.
LookAt(visit, dep, m) ==
  IF m.found \/ dep \in m.done THEN m
  ELSE IF dep \in m.under THEN [m EXCEPT !.found = TRUE]
  ELSE visit[dep][m]

LookAtAll(visit, m, deps) == FoldSet(LAMBDA dep, n : LookAt(visit, dep, n), m, deps)

Left(m, id) == IF m.found THEN m ELSE [m EXCEPT !.under = @ \ {id}, !.done = @ \cup {id}]

FindCycle(tasks) ==
  LET Visit[id \in PlanSteps] ==
        [m \in Marks |-> Left(LookAtAll(Visit, Begun(m, id), DependsOn(tasks, id)), id)]
  IN LookAtAll(Visit, Unmarked, IdsOf(tasks)).found

ValidGraph(tasks) ==
  /\ Len(tasks) <= pMost
  /\ Cardinality(IdsOf(tasks)) = Len(tasks)
  /\ \A i \in DOMAIN tasks : tasks[i].dependsOn \subseteq IdsOf(tasks)
  /\ ~FindCycle(tasks)

\* The master prompt as the one step of a plan.
SingleTask == {<<[id |-> id, dependsOn |-> {}]>> : id \in PlanSteps}

Planned(tasks) == pAsked' = "planned" /\ pGraph' = tasks /\ UNCHANGED <<pMost, pBegun>>

\* A reply that does not do: the model is asked once more, with the errors; then the plan is one step.
Unfit ==
  \/ pAsked = "first" /\ pAsked' = "again" /\ UNCHANGED <<pMost, pGraph, pBegun>>
  \/ pAsked = "again" /\ \E tasks \in SingleTask : Planned(tasks)

\* A model answers.
Propose ==
  /\ pAsked \in {"first", "again"}
  /\ \E reply \in Replies : IF ValidGraph(reply) THEN Planned(reply) ELSE Unfit

\* The providers are down, limited or out of quota: the plan does not get worse, the run waits.
PlanParked == pAsked \in {"first", "again"} /\ pAsked' = "parked" /\ UNCHANGED <<pMost, pGraph, pBegun>>

\* There is no pool to ask.
NoPlanner == pAsked = "first" /\ \E tasks \in SingleTask : Planned(tasks)

\* A run that was parked is claimed again, or one that died before its plan was in the checkpoint.
PlanAgain ==
  /\ pAsked \in {"first", "again", "parked"} /\ pBegun < MaxReplans
  /\ pAsked' = "first" /\ pBegun' = pBegun + 1 /\ UNCHANGED <<pMost, pGraph>>

\* A run that is claimed again with a plan keeps it; a run is over, and the next one begins.
NextRun ==
  /\ pAsked = "planned" /\ pBegun < MaxReplans
  /\ pMost' \in Sizes /\ pAsked' = "first" /\ pGraph' = <<>> /\ pBegun' = pBegun + 1

PlansNext == Propose \/ Unfit \/ PlanParked \/ NoPlanner \/ PlanAgain \/ NextRun

PlansSpec == PlansInit /\ [][PlansNext]_planVars
----------------------------------------------------------------------------
\* Every plan that is taken can be run to its end: its names are different and are not too many, and
\* in any set of its steps there is one that waits for no other of them (decomposer.js:75, "The
\* dependency graph must have no cycles, and every id in dependsOn must exist in tasks").
PlanCanRun ==
  /\ Cardinality(IdsOf(pGraph)) = Len(pGraph) /\ Len(pGraph) <= pMost
  /\ \A i \in DOMAIN pGraph : pGraph[i].dependsOn \subseteq IdsOf(pGraph)
  /\ \A some \in (SUBSET IdsOf(pGraph)) \ {{}} :
       \E id \in some : DependsOn(pGraph, id) \cap some = {}
============================================================================
