--------------------------- MODULE WorkflowGraph ---------------------------
(***************************************************************************)
(* The graph of a workflow, as the two parts of the orchestrator see it    *)
(* that walk it.  The workflow is any directed graph, with self-loops: the *)
(* field validator that should refuse those runs before the target is      *)
(* known.  Parallel edges count alike on both sides of the loop and are    *)
(* left out.                                                               *)
(*                                                                         *)
(* WorkflowExecutor._topological_sort (services/ai/orchestrator/           *)
(* executor.py) is Kahn's algorithm, one step per iteration of its while   *)
(* loop.                                                                   *)
(***************************************************************************)
EXTENDS Integers, Sequences, FiniteSets

CONSTANTS
  Nodes,
  MaxEdges      \* bound: edges of a workflow

ASSUME GraphAssumption == IsFiniteSet(Nodes) /\ MaxEdges \in Nat

VARIABLES edges, inDegree, queue, result

sortVars == <<edges, inDegree, queue, result>>

SortTypeOK ==
  /\ edges \subseteq Nodes \X Nodes
  /\ inDegree \in [Nodes -> Nat]
  /\ queue \in Seq(Nodes)
  /\ result \in Seq(Nodes)

(* The orders a list of the elements of S may come in. *)
Listings(S) ==
  {s \in [1..Cardinality(S) -> S] : \A i, j \in 1..Cardinality(S) : s[i] = s[j] => i = j}

Elements(s) == {s[i] : i \in 1..Len(s)}

Predecessors(n) == {m \in Nodes : <<m, n>> \in edges}

SortInit ==
  /\ edges \in SUBSET (Nodes \X Nodes) /\ Cardinality(edges) <= MaxEdges
  /\ inDegree = [n \in Nodes |-> Cardinality(Predecessors(n))]
  /\ queue \in Listings({n \in Nodes : Predecessors(n) = {}})
  /\ result = <<>>

(* Mutant: an edge is taken off twice. *)
LowerTwice(n) == [m \in Nodes |-> IF <<n, m>> \in edges THEN inDegree[m] - 2 ELSE inDegree[m]]

(* One edge less into every neighbour of n. *)
Lower(n) == [m \in Nodes |-> IF <<n, m>> \in edges THEN inDegree[m] - 1 ELSE inDegree[m]]

(* Mutant: a neighbour is queued when its degree drops, not when it is zero. *)
ReadyAtOnce(n) == {m \in Nodes : <<n, m>> \in edges}

(* The neighbours that wait for nothing more once n is taken. *)
Ready(n) == {m \in Nodes : <<n, m>> \in edges /\ Lower(n)[m] = 0}

Visit ==
  /\ queue # <<>>
  /\ result' = Append(result, Head(queue))
  /\ inDegree' = Lower(Head(queue))
  /\ \E ready \in Listings(Ready(Head(queue))) : queue' = Tail(queue) \o ready
  /\ UNCHANGED edges

(* The returned list: empty when some node was never reached. *)
ExecutionOrder == IF Len(result) = Cardinality(Nodes) THEN result ELSE <<>>

-----------------------------------------------------------------------------
(* Every dependency comes earlier in the order. *)
OrderRespectsEdges ==
  \A i \in 1..Len(result) : \A p \in Predecessors(result[i]) :
    \E j \in 1..(i - 1) : result[j] = p

(* No node is executed twice. *)
NoNodeTwice == \A i, j \in 1..Len(result) : result[i] = result[j] => i = j

(* The order is topological at every moment of the loop: dependencies      *)
(* first, and no node twice, in whatever order unrelated nodes are listed. *)
OrderIsTopological == OrderRespectsEdges /\ NoNodeTwice

(* Reference definition: no non-empty set of nodes feeds itself. *)
Acyclic ==
  \A S \in SUBSET Nodes : S # {} => \E n \in S : Predecessors(n) \cap S = {}
-----------------------------------------------------------------------------
(***************************************************************************)
(* DSLValidator (services/ai/orchestrator/validator.py): the static checks *)
(* execute() and _continue_execution() run before they sort the workflow.  *)
(* The depth-first search for cycles goes one neighbour at a time, like    *)
(* the loop in dfs(); the other searches are what they compute.  Checked   *)
(* against the order the sort gives for the same graph, which is sorted    *)
(* here even when validation found an error.  Node and edge limits and     *)
(* per-type field checks see only one node at a time and are folded into   *)
(* the constants.                                                          *)
(***************************************************************************)
CONSTANTS
  StartNodes, EndNodes,   \* nodes of type START and END
  Approvals,              \* nodes of type HUMAN_APPROVAL
  Destructive,            \* nodes of type TOOL or HTTP
  MaxNodes                \* MAX_NODE_COUNT

\* A node has one type.
ASSUME NodeTypeAssumption ==
  /\ StartNodes \subseteq Nodes /\ EndNodes \subseteq Nodes
  /\ Approvals \subseteq Nodes /\ Destructive \subseteq Nodes \ Approvals

VARIABLES
  color,        \* color: WHITE, GRAY, BLACK
  path,         \* the calls of dfs() under way: path[i + 1] was called by path[i]
  left,         \* the neighbours the loop of a gray node has still to look at
  cycleSeen     \* cycle_edges is not empty

searchVars == <<color, path, left, cycleSeen>>
validatorVars == <<sortVars, searchVars>>

ValidatorTypeOK ==
  /\ SortTypeOK
  /\ color \in [Nodes -> {"white", "gray", "black"}]
  /\ path \in Seq(Nodes)
  /\ left \in [Nodes -> SUBSET Nodes]
  /\ cycleSeen \in BOOLEAN

Neighbours(n) == {m \in Nodes : <<n, m>> \in edges}

ValidatorInit ==
  /\ SortInit
  /\ color = [n \in Nodes |-> "white"] /\ path = <<>>
  /\ left = [n \in Nodes |-> {}] /\ cycleSeen = FALSE

(* dfs(n) is called with n WHITE. *)
Enter(n) ==
  /\ color' = [color EXCEPT ![n] = "gray"]
  /\ path' = Append(path, n)

(* for node_id in graph: a white one starts a search. *)
SearchFrom(n) ==
  /\ path = <<>> /\ color[n] = "white"
  /\ Enter(n)
  /\ left' = [left EXCEPT ![n] = Neighbours(n)]
  /\ UNCHANGED <<cycleSeen, sortVars>>

Current == path[Len(path)]

(* Mutant: a node that was visited before closes a cycle. *)
ClosesCycleIfVisited(m) == color[m] # "white"

ClosesCycle(m) == color[m] = "gray"

(* The loop of dfs() looks at the edge from the current node to m. *)
LookAt(m) ==
  /\ path # <<>> /\ m \in left[Current]
  /\ cycleSeen' = (cycleSeen \/ ClosesCycle(m))
  /\ IF color[m] = "white"
     THEN /\ Enter(m)
          /\ left' = [left EXCEPT ![Current] = @ \ {m}, ![m] = Neighbours(m)]
     ELSE /\ left' = [left EXCEPT ![Current] = @ \ {m}]
          /\ UNCHANGED <<color, path>>
  /\ UNCHANGED sortVars

(* The loop is through: the node is BLACK and its caller goes on. *)
Return ==
  /\ path # <<>> /\ left[Current] = {}
  /\ color' = [color EXCEPT ![Current] = "black"]
  /\ path' = SubSeq(path, 1, Len(path) - 1)
  /\ UNCHANGED <<left, cycleSeen, sortVars>>

Searched == \A n \in Nodes : color[n] = "black"

Sort == Searched /\ Visit /\ UNCHANGED searchVars

ValidatorNext ==
  \/ \E n \in Nodes : SearchFrom(n) \/ LookAt(n)
  \/ Return
  \/ Sort

ValidatorSpec == ValidatorInit /\ [][ValidatorNext]_validatorVars

(* The breadth-first searches: what a set of nodes reaches, itself included, *)
(* the least set that holds it and every neighbour of its members.           *)
Closed(T) == \A n \in T : Neighbours(n) \subseteq T

ReachFrom(S) == {n \in Nodes : \A T \in SUBSET Nodes : S \subseteq T /\ Closed(T) => n \in T}

(* _validate_approval_requirements: a warning for a destructive node no    *)
(* approval node reaches, an error only when there is no approval at all.  *)
(* Mutant: the search runs from the destructive node to the approval.      *)
UnprotectedBackwards == {d \in Destructive : ReachFrom({d}) \cap Approvals = {}}

Unprotected == {d \in Destructive : d \notin ReachFrom(Approvals)}

ApprovalErrors == IF Approvals = {} THEN Destructive ELSE {}

ApprovalWarnings == IF Approvals = {} THEN {} ELSE Unprotected

(* _validate_graph_structure: warnings only. *)
UnreachableNodes == Nodes \ ReachFrom(StartNodes)

HasErrors ==
  \/ cycleSeen
  \/ StartNodes = {} \/ EndNodes = {}
  \/ Cardinality(Nodes) > MaxNodes
  \/ ApprovalErrors # {}

-----------------------------------------------------------------------------
Sorted == Searched /\ queue = <<>>

(* The validator's depth-first search sees a cycle exactly when there is   *)
(* one, and the sort returns an order exactly when there is none: the two  *)
(* always agree, so execute() never creates a checkpoint and then finds    *)
(* the order empty (it would stay RUNNING for ever).                       *)
CyclesAreFound ==
  /\ Searched => (cycleSeen <=> ~Acyclic)
  /\ Sorted => (ExecutionOrder # <<>> <=> Acyclic /\ Nodes # {})

Guarded(d) == \E i, j \in 1..Len(result) : i < j /\ result[j] = d /\ result[i] \in Approvals

(* A workflow without errors and without approval warnings runs an         *)
(* approval node before every destructive one, in any order the sort gives.*)
UnwarnedIsGuarded ==
  Sorted /\ ~HasErrors /\ ApprovalWarnings = {} => \A d \in Destructive : Guarded(d)

(* Docstring of _validate_approval_requirements: "Validate R7: destructive *)
(* operations require approval gates."  What passes validation is guarded. *)
ValidIsGuarded ==
  Sorted /\ ~HasErrors => \A d \in Destructive : Guarded(d)
=============================================================================
