-------------------------- MODULE DepthFirstSearch --------------------------
(***************************************************************************)
(* The search for a cycle as the assembly engine and the composite asset   *)
(* engine both write it: dfs(node) calls itself for every neighbour no     *)
(* call has been made for, and returns True at the first edge back to a    *)
(* call that is still under way, which ends all calls above it.  visited   *)
(* is shared by all calls.  The search is a record that goes one turn of   *)
(* one call's loop at a time; a graph maps each node to its neighbours,    *)
(* and the order of a list of neighbours is a choice.                      *)
(***************************************************************************)
EXTENDS Integers, SequencesExt

\* path: rec_stack, in the order of the calls; left: what the loop of each of
\* them has still to look at; cycle: a call has returned True.
NewSearch(nodes) ==
    [visited |-> {}, path |-> <<>>, left |-> [n \in nodes |-> {}], cycle |-> FALSE]

Innermost(s) == s.path[Len(s.path)]

\* dfs(n)
Enter(s, n, graph) ==
    [visited |-> s.visited \cup {n}, path |-> Append(s.path, n),
     left |-> [s.left EXCEPT ![n] = graph[n]], cycle |-> FALSE]

\* Mutant: a node that was visited before closes a cycle.
OnPathSloppy(s, n) == n \in s.visited

OnPath(s, n) == n \in Range(s.path)

\* The innermost call looks at n: a new node is called, and an edge back to a
\* call under way is a cycle.
LookAt(s, n, graph) ==
    LET left == [s.left EXCEPT ![Innermost(s)] = @ \ {n}]
    IN  IF n \notin s.visited THEN Enter([s EXCEPT !.left = left], n, graph)
        ELSE [s EXCEPT !.left = left, !.cycle = OnPath(s, n)]

Leave(s) == [s EXCEPT !.path = SubSeq(s.path, 1, Len(s.path) - 1)]

\* One turn of a search from every start that is not visited yet.
SearchSteps(s, starts, graph) ==
    IF s.cycle THEN {}
    ELSE IF s.path = <<>> THEN {Enter(s, n, graph) : n \in starts \ s.visited}
    ELSE IF s.left[Innermost(s)] = {} THEN {Leave(s)}
    ELSE {LookAt(s, n, graph) : n \in s.left[Innermost(s)]}

\* The search has returned its answer, s.cycle.
SearchOver(s, starts) == s.cycle \/ (s.path = <<>> /\ starts \subseteq s.visited)
=============================================================================
