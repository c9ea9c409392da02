------------------------------ MODULE AgentGraph ------------------------------
(***************************************************************************)
(* The agent loop of one run: the state graph of orchestrator/graph.py     *)
(* with the nodes and routes of orchestrator/nodes.py.  What the language  *)
(* model and the tools answer is a free choice; what is kept is the        *)
(* control: the iteration and failure counters, the routes that read them, *)
(* and LangGraph's limit on the number of node executions, which the       *)
(* runner derives from max_iterations.                                     *)
(***************************************************************************)
EXTENDS Integers

CONSTANTS
  Requested,          \* the max_iterations a client may send, 0 when it sends none
  DefaultIterations,  \* settings.default_max_iterations
  IterationsCap,      \* settings.max_iterations_cap
  MaxTotalFailures,   \* settings.max_total_failures
  MaxCalls            \* bound: the tool calls the model asks for in one answer

ASSUME GraphAssumption ==
  /\ Requested \subseteq Int
  /\ DefaultIterations \in Nat \ {0} /\ IterationsCap \in Nat \ {0}
  /\ MaxTotalFailures \in Nat \ {0} /\ MaxCalls \in Nat

VARIABLES
  maxIter,            \* state["max_iterations"], fixed for the run
  node,               \* the node to run next, or how the run ended
  iteration,          \* state["iteration"]
  failures,           \* state["failures"]
  calls,              \* the number of tool calls in the last model answer
  steps               \* the nodes run so far, counted by LangGraph

graphVars == <<maxIter, node, iteration, failures, calls, steps>>

Nodes == {"plan", "think", "act", "observe", "reflect", "report"}
Outcomes == {"end", "limit", "raised"}

(* Mutant: the cap is not applied. *)
Effective_Unclamped(requested) ==
  IF requested = 0 THEN DefaultIterations ELSE requested

(* The clamping of create_task, repeated by run_task: zero and a missing    *)
(* value mean the default, and nothing bounds the value from below.         *)
Effective(requested) ==
  LET wanted == IF requested = 0 THEN DefaultIterations ELSE requested
  IN  IF wanted > IterationsCap THEN IterationsCap ELSE wanted

(* Mutant: one node execution per iteration. *)
RecursionLimit_PerThink == maxIter + 10

(* Mutant: no room is left for the nodes outside the loop. *)
RecursionLimit_NoMargin == maxIter * 4

(* config["recursion_limit"] *)
RecursionLimit == maxIter * 4 + 10

GraphInit ==
  /\ \E requested \in Requested : maxIter = Effective(requested)
  /\ node = "plan"
  /\ iteration = 0
  /\ failures = 0
  /\ calls = 0
  /\ steps = 0

-----------------------------------------------------------------------------
(* Mutant: the last iteration is taken too. *)
RouteAfterThink_OffByOne(i, f, k) ==
  IF i > maxIter \/ f >= MaxTotalFailures \/ k = 0 THEN "report" ELSE "act"

(* Mutant: failures are not counted against the run. *)
RouteAfterThink_NoFailures(i, f, k) ==
  IF i >= maxIter \/ k = 0 THEN "report" ELSE "act"

(* route_after_think: out of iterations, too many failures, or no tool call. *)
RouteAfterThink(i, f, k) ==
  IF i >= maxIter \/ f >= MaxTotalFailures \/ k = 0 THEN "report" ELSE "act"

(* route_after_reflect *)
RouteAfterReflect(decision, i) ==
  IF decision = "report" \/ i >= maxIter THEN "report" ELSE "think"

(* LangGraph runs node n if the limit leaves room for one more execution. *)
Execute(n) ==
  /\ node = n
  /\ steps < RecursionLimit
  /\ steps' = steps + 1
  /\ UNCHANGED maxIter

PlanNode ==
  /\ Execute("plan")
  /\ node' = "think"
  /\ iteration' = 0
  /\ UNCHANGED <<failures, calls>>

(* The model answers with some number of tool calls. *)
ThinkNode ==
  /\ Execute("think")
  /\ iteration' = iteration + 1
  /\ \E k \in 0..MaxCalls :
       /\ calls' = k
       /\ node' = RouteAfterThink(iteration + 1, failures, k)
  /\ UNCHANGED failures

(* Mutant: each failure is counted when reported and again when returned. *)
ActNode_CountsTwice ==
  /\ Execute("act")
  /\ node' = "observe"
  /\ \E failed \in 0..calls : failures' = failures + 2 * failed
  /\ UNCHANGED <<iteration, calls>>

(* Every call is tried; a tool that is missing or answers an error counts. *)
ActNode ==
  /\ Execute("act")
  /\ node' = "observe"
  /\ \E failed \in 0..calls : failures' = failures + failed
  /\ UNCHANGED <<iteration, calls>>

ObserveNode ==
  /\ Execute("observe")
  /\ node' = "reflect"
  /\ UNCHANGED <<iteration, failures, calls>>

ReflectNode ==
  /\ Execute("reflect")
  /\ \E decision \in {"continue", "report"} :
       node' = RouteAfterReflect(decision, iteration)
  /\ UNCHANGED <<iteration, failures, calls>>

ReportNode ==
  /\ Execute("report")
  /\ node' = "end"
  /\ UNCHANGED <<iteration, failures, calls>>

(* A model call, a tool, the emitter or the parsing of an answer raises out *)
(* of the node and of the graph.                                            *)
NodeRaises ==
  /\ node \in Nodes
  /\ steps < RecursionLimit
  /\ node' = "raised"
  /\ UNCHANGED <<maxIter, iteration, failures, calls, steps>>

(* GraphRecursionError, or ValueError when the limit is below one. *)
LimitReached ==
  /\ node \in Nodes
  /\ steps >= RecursionLimit
  /\ node' = "limit"
  /\ UNCHANGED <<maxIter, iteration, failures, calls, steps>>

GraphNext ==
  \/ PlanNode
  \/ ThinkNode
  \/ ActNode
  \/ ObserveNode
  \/ ReflectNode
  \/ ReportNode
  \/ NodeRaises
  \/ LimitReached

GraphSpec == GraphInit /\ [][GraphNext]_graphVars

(* The worker runs the graph to its end; a raising node is not needed. *)
FairGraphSpec == GraphSpec /\ WF_graphVars(GraphNext)

-----------------------------------------------------------------------------
(* Properties *)

GraphTypeOK ==
  /\ maxIter \in Int /\ maxIter <= IterationsCap
  /\ node \in Nodes \cup Outcomes
  /\ iteration \in Nat /\ failures \in Nat /\ steps \in Nat
  /\ calls \in 0..MaxCalls

(* LangGraph's limit is never what ends a run with a sensible number of     *)
(* iterations: 4 * max_iterations + 10 leaves room for every path to the    *)
(* report.  Only a client that asks for -2 or less runs into it.            *)
LimitNeverReached == maxIter >= -1 => node # "limit"

(* A tool runs only below the iteration and failure limits, and a run that  *)
(* reflects has an iteration left: the limit in route_after_reflect is      *)
(* never what stops it.                                                     *)
WorkBelowLimits ==
  /\ node \in {"act", "observe", "reflect"} => iteration < maxIter
  /\ node = "act" => failures < MaxTotalFailures

(* The failure count overshoots its limit by at most the calls of one       *)
(* answer, which are all tried before the limit is looked at again.         *)
FailuresBounded == failures < MaxTotalFailures + MaxCalls

(* The model thinks at most max_iterations times, but once even when the    *)
(* client asked for none, and the run takes four nodes per iteration less   *)
(* the ones the last iteration skips.                                       *)
LoopBounded ==
  /\ iteration <= 1 \/ iteration <= maxIter
  /\ steps <= 3 \/ steps <= 4 * maxIter - 1

(* Whatever the model and the tools answer, the counters bring the graph to *)
(* its report, unless a node raises; LangGraph's limit is not needed.       *)
GraphEnds == maxIter >= -1 => <>(node \in {"end", "raised"})
=============================================================================
