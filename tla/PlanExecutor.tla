---- MODULE PlanExecutor ----
(***************************************************************************)
(* agent_node: the orchestrator's rounds of planning, executing and        *)
(* checking (orchestrator.go) and the executor that runs a plan's nodes as *)
(* their dependencies finish (executor.go, graph.go).                      *)
(*                                                                         *)
(* The planner, the nodes' models and the checker are external: a plan, a  *)
(* node's outcome and a verdict are chosen freely.  The main goroutine     *)
(* receives a result, stores it and releases or skips the dependents; a    *)
(* dispatcher takes ready nodes and waits for a slot; every node runs on a *)
(* goroutine of its own.  One SharedState lives through all the rounds.    *)
(***************************************************************************)
EXTENDS Integers, FiniteSets

CONSTANTS
    Node,           \* node ids a planner may use
    MaxRounds,      \* OrchestratorConfig.MaxRounds
    MaxConcurrency, \* ExecutorConfig.MaxConcurrency
    ReuseIDs        \* may a later plan use an id that already has a result?

ASSUME PlanAssumption ==
    /\ IsFiniteSet(Node)
    /\ MaxRounds \in Nat \ {0}
    /\ MaxConcurrency \in Nat \ {0}
    /\ ReuseIDs \in BOOLEAN

VARIABLES
    phase,      \* where Run stands
    round,      \* Run's round counter
    plan,       \* the graph of this round: node -> its DependsOn
    inDegree,   \* dependencies not yet done
    ready,      \* the ready channel
    taken,      \* the node the dispatcher holds while it waits for sem, or none
    running,    \* nodes on a goroutine
    done,       \* the done channel: results not yet received
    remaining,  \* Execute's counter of unresolved nodes
    results,    \* SharedState: node -> status and the round it was stored in
    cancelled   \* ctx.Done()

vars == <<phase, round, plan, inDegree, ready, taken, running, done,
          remaining, results, cancelled>>
execVars == <<inDegree, ready, taken, running, done, remaining>>

Statuses == {"done", "failed", "skipped"}
Results == [status : Statuses, at : 0..MaxRounds - 1]
NoResult == [status |-> "none", at |-> -1]
Plans == UNION {[S -> SUBSET Node] : S \in SUBSET Node}
EmptyPlan == [n \in {} |-> {}]

\* NodeGraph.Validate: known dependencies and no cycle.
Acyclic(g) ==
    \A C \in (SUBSET DOMAIN g) \ {{}} : \E n \in C : g[n] \cap C = {}
Validate(g) ==
    /\ \A n \in DOMAIN g : g[n] \subseteq DOMAIN g
    /\ Acyclic(g)

Dependents(n) == {m \in DOMAIN plan : n \in plan[m]}

\* The nodes a walk along the dependents reaches without passing one that
\* already has a result: cascadeSkip's queue.
SkipFrom(n, res) ==
    LET open == {m \in DOMAIN plan : res[m] = NoResult}
        Closed(S) == /\ Dependents(n) \cap open \subseteq S
                     /\ \A m \in S : Dependents(m) \cap open \subseteq S
    IN CHOOSE S \in SUBSET open :
         Closed(S) /\ \A R \in SUBSET S : Closed(R) => R = S

Init ==
    /\ phase = "planning"
    /\ round = 0
    /\ plan = EmptyPlan
    /\ inDegree = [n \in {} |-> 0]
    /\ ready = {} /\ taken = {} /\ running = {} /\ done = {}
    /\ remaining = 0
    /\ results = [n \in Node |-> NoResult]
    /\ cancelled = FALSE

(***************************************************************************)
(* The orchestrator.                                                       *)
(***************************************************************************)

CancelContext ==
    /\ ~cancelled /\ phase # "ended"
    /\ cancelled' = TRUE
    /\ UNCHANGED <<phase, round, plan, execVars, results>>

End ==
    /\ phase' = "ended"
    /\ UNCHANGED <<round, execVars, results, cancelled>>

\* The context is over, the planner fails, or its plan has no node.
StopPlanning ==
    /\ phase = "planning" /\ round < MaxRounds
    /\ plan' = EmptyPlan
    /\ End

\* The plan is not a valid graph: Execute returns its error.
RefusePlan ==
    /\ phase = "planning" /\ round < MaxRounds /\ ~cancelled
    /\ \E g \in Plans : ~Validate(g) /\ plan' = EmptyPlan
    /\ End

\* Execute's set-up: count, seed the roots, start the dispatcher.
Execute(g) ==
    /\ plan' = g
    /\ inDegree' = [n \in DOMAIN g |-> Cardinality(g[n])]
    /\ ready' = {n \in DOMAIN g : g[n] = {}}
    /\ remaining' = Cardinality(DOMAIN g)
    /\ phase' = "executing"
    /\ UNCHANGED <<taken, running, done>>

BeginRound ==
    /\ phase = "planning" /\ round < MaxRounds /\ ~cancelled
    /\ \E g \in Plans :
         /\ DOMAIN g # {} /\ Validate(g)
         /\ ReuseIDs \/ \A n \in DOMAIN g : results[n] = NoResult
         /\ Execute(g)
    /\ UNCHANGED <<round, results, cancelled>>

\* The checker says enough (Run returns), or not, or fails: the next round.
CheckResult ==
    /\ phase = "checking"
    /\ \/ phase' = "ended" /\ round' = round
       \/ phase' = "planning" /\ round' = round + 1
    /\ UNCHANGED <<plan, execVars, results, cancelled>>

\* MaxRounds rounds are over: the answer is made from what there is.
RoundsOver ==
    /\ phase = "planning" /\ round = MaxRounds
    /\ plan' = plan
    /\ End

(***************************************************************************)
(* The executor.                                                           *)
(***************************************************************************)

\* The dispatcher receives a ready node ...
Dispatch ==
    /\ taken = {}
    /\ \E n \in ready : taken' = {n} /\ ready' = ready \ {n}
    /\ UNCHANGED <<phase, round, plan, inDegree, running, done, remaining,
                   results, cancelled>>

\* ... and starts it when a slot of sem is free.
StartNode ==
    /\ taken # {}
    /\ Cardinality(running) < MaxConcurrency
    /\ running' = running \cup taken
    /\ taken' = {}
    /\ UNCHANGED <<phase, round, plan, inDegree, ready, done, remaining,
                   results, cancelled>>

\* executeNode returns and its result is sent.
NodeEnds(n) ==
    /\ n \in running
    /\ running' = running \ {n}
    /\ \E s \in {"done", "failed"} : done' = done \cup {[node |-> n, status |-> s]}
    /\ UNCHANGED <<phase, round, plan, inDegree, ready, taken, remaining,
                   results, cancelled>>

Store(res, S, s) ==
    [m \in Node |-> IF m \in S THEN [status |-> s, at |-> round] ELSE res[m]]

\* Fault: only the direct dependents are skipped.
CascadeDirect(n, stored) ==
    LET skipped == {m \in Dependents(n) : stored[m] = NoResult}
    IN /\ results' = Store(stored, skipped, "skipped")
       /\ remaining' = remaining - 1 - Cardinality(skipped)
       /\ UNCHANGED <<inDegree, ready>>

\* A result that failed: every dependent it can reach is skipped.
CascadeSkip(n, stored) ==
    LET skipped == SkipFrom(n, stored)
    IN /\ results' = Store(stored, skipped, "skipped")
       /\ remaining' = remaining - 1 - Cardinality(skipped)
       /\ UNCHANGED <<inDegree, ready>>

\* A result that is done: the dependents whose last dependency it was.
Release(n, stored) ==
    LET left == [m \in DOMAIN plan |->
                   inDegree[m] - (IF m \in Dependents(n) THEN 1 ELSE 0)]
    IN /\ inDegree' = left
       /\ ready' = ready \cup {m \in Dependents(n) : left[m] = 0}
       /\ results' = stored
       /\ remaining' = remaining - 1

\* Execute receives a result and stores it.
Receive ==
    /\ phase = "executing" /\ remaining > 0
    /\ \E r \in done :
         /\ done' = done \ {r}
         /\ LET stored == Store(results, {r.node}, r.status)
            IN IF r.status = "failed" THEN CascadeSkip(r.node, stored)
                                      ELSE Release(r.node, stored)
    /\ UNCHANGED <<phase, round, plan, taken, running, cancelled>>

\* close(ready), wg.Wait() and Execute's return.
ExecuteReturns ==
    /\ phase = "executing" /\ remaining = 0
    /\ running = {}
    /\ phase' = "checking"
    /\ UNCHANGED <<round, plan, execVars, results, cancelled>>

Done == phase = "ended" /\ UNCHANGED vars

Next ==
    \/ CancelContext \/ StopPlanning \/ RefusePlan \/ BeginRound
    \/ CheckResult \/ RoundsOver
    \/ Dispatch \/ StartNode \/ Receive \/ ExecuteReturns
    \/ \E n \in Node : NodeEnds(n)
    \/ Done

Spec == Init /\ [][Next]_vars

\* Goroutines run and every external call (planner, model, checker) returns.
FairSpec ==
    /\ Spec
    /\ WF_vars(StopPlanning \/ RefusePlan \/ BeginRound \/ CheckResult \/ RoundsOver)
    /\ WF_vars(Dispatch) /\ WF_vars(StartNode)
    /\ WF_vars(Receive) /\ WF_vars(ExecuteReturns)
    /\ \A n \in Node : WF_vars(NodeEnds(n))

----
(***************************************************************************)
(* Properties.                                                             *)
(***************************************************************************)

ThisRound(n, s) == results[n] = [status |-> s, at |-> round]

\* The transitive dependencies of a node: what is in every set that has its
\* dependencies and theirs.
Closed(S) == \A m \in S : plan[m] \subseteq S
Above(n) ==
    {m \in DOMAIN plan : \A S \in SUBSET DOMAIN plan : plan[n] \subseteq S /\ Closed(S) => m \in S}

\* Every variable has its type.
PlanTypeOK ==
    /\ phase \in {"planning", "executing", "checking", "ended"}
    /\ round \in 0..MaxRounds
    /\ plan \in Plans /\ Validate(plan)
    /\ DOMAIN inDegree \subseteq Node
    /\ \A n \in DOMAIN inDegree : inDegree[n] \in 0..Cardinality(Node)
    /\ ready \subseteq Node /\ running \subseteq Node
    /\ taken \subseteq Node /\ Cardinality(taken) <= 1
    /\ done \subseteq [node : Node, status : {"done", "failed"}]
    /\ remaining \in 0..Cardinality(Node)
    /\ results \in [Node -> Results \cup {NoResult}]
    /\ cancelled \in BOOLEAN

\* A node that is released reads, for its prompt, results of this round of
\* all its dependencies: none is missing, failed or left from a former round.
DependenciesFirst ==
    phase = "executing" =>
      \A n \in ready \cup taken \cup running : \A d \in plan[n] : ThisRound(d, "done")

\* Execute's counter is exact: it is the number of the plan's nodes without a
\* result of this round, so the loop ends with the last of them.
RemainingIsOpen ==
    phase = "executing" =>
      remaining = Cardinality({n \in DOMAIN plan : results[n].at # round})

\* cascadeSkip: once a failure is stored, all transitive dependents of the
\* failed node are skipped.
FailureSkipsAll ==
    phase \in {"executing", "checking"} =>
      \A n \in DOMAIN plan :
        (\E d \in Above(n) : ThisRound(d, "failed")) => ThisRound(n, "skipped")

\* When Execute returns every node has one verdict of this round, and a node
\* was skipped only because a node it rests on failed.
ReturnsResolved ==
    phase = "checking" =>
      /\ ready \cup taken \cup running = {} /\ done = {}
      /\ \A n \in DOMAIN plan :
           /\ results[n].at = round
           /\ ThisRound(n, "skipped") => \E d \in Above(n) : ThisRound(d, "failed")

\* The executor's invariant.
PlanInv ==
    /\ PlanTypeOK /\ DependenciesFirst /\ RemainingIsOpen
    /\ FailureSkipsAll /\ ReturnsResolved

\* Run comes to an end, whatever fails in whatever order.
RunEnds == <>(phase = "ended")

====
