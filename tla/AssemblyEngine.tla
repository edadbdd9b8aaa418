--------------------------- MODULE AssemblyEngine ---------------------------
(***************************************************************************)
(* The assembly engine (services/application/src/assembly/service.py):     *)
(* a recipe of dependent steps is validated, compiled into groups of steps *)
(* that may run in parallel, and executed under a nine-state machine whose *)
(* steps are idempotent.  The engine validates no recipe on its own: the   *)
(* caller may compile whatever it likes.                                   *)
(***************************************************************************)
EXTENDS FiniteSets, DepthFirstSearch

CONSTANTS
    StepIds,            \* ids of the steps of a recipe
    UnknownStep,        \* an id in depends_on that is no step of the recipe
    Recipes,            \* depends_on of every step, for the recipes of the run
    IdemKeys,           \* idempotency keys: a step id, its input and the context, hashed
    MaxMoves            \* bound: transitions of the assembly

ASSUME AssemblyConstants ==
    /\ UnknownStep \notin StepIds /\ MaxMoves \in Nat
    /\ Recipes \subseteq [StepIds -> SUBSET (StepIds \cup {UnknownStep})]

VARIABLES
    recipe,         \* the recipe being validated and compiled
    search,         \* the search of _detect_cycle, as far as it has come
    groups,         \* parallel_groups, as far as the loop has come
    remaining,      \* the steps no group has taken yet
    assembly,       \* state, state_history and the keys of step_results of the assembly
    runs            \* how often a step was really executed, by key

assemblyVars == <<recipe, search, groups, remaining, assembly, runs>>

VALID_TRANSITIONS ==
    [pending |-> {"validating", "cancelled"}, validating |-> {"planning", "failed"},
     planning |-> {"executing", "failed"}, executing |-> {"paused", "completed", "rolling_back", "failed"},
     paused |-> {"executing", "cancelled"}, rolling_back |-> {"failed", "executing"},
     completed |-> {}, failed |-> {"pending"}, cancelled |-> {"pending"}]

\* create_assembly
NewAssembly == [state |-> "pending", state_history |-> <<"pending">>, step_results |-> {}]

Named == StepIds \cup {UnknownStep}

AssemblyInit ==
    /\ recipe \in Recipes
    /\ search = NewSearch(Named)
    /\ groups = <<>> /\ remaining = StepIds
    /\ assembly = NewAssembly /\ runs = [k \in IdemKeys |-> 0]
-----------------------------------------------------------------------------
\* An id that is no step has no dependencies (step_map.get(sid, {})).
DependsOn(r) == [s \in Named |-> IF s \in StepIds THEN r[s] ELSE {}]

\* validate_recipe.  The checks of each step's fields are left out: the recipes
\* are well formed, and depends_on is only looked at by the cycle check.
DetectCycle ==
    /\ groups = <<>>
    /\ search' \in SearchSteps(search, StepIds, DependsOn(recipe))
    /\ UNCHANGED <<recipe, groups, remaining, assembly, runs>>

Validated == SearchOver(search, StepIds)

Grouped == UNION Range(groups)

Ready == {s \in remaining : recipe[s] \subseteq Grouped}

\* One turn of the loop of _compute_parallel_groups; next(iter(remaining)) may
\* be any element of the set.  Neither loop awaits, so the two do not interleave;
\* a recipe may be compiled without having been validated.
NextGroup ==
    /\ remaining # {}
    /\ search = NewSearch(Named) \/ Validated
    /\ \E group \in IF Ready # {} THEN {Ready} ELSE {{s} : s \in remaining} :
          groups' = Append(groups, group) /\ remaining' = remaining \ group
    /\ UNCHANGED <<recipe, search, assembly, runs>>
-----------------------------------------------------------------------------
Targets(state) == VALID_TRANSITIONS[state]

TransitionAssembly(state) ==
    /\ Len(assembly.state_history) <= MaxMoves
    /\ state \in Targets(assembly.state)
    /\ assembly' = [assembly EXCEPT !.state = state, !.state_history = Append(@, state)]
    /\ UNCHANGED <<recipe, search, groups, remaining, runs>>

RunsSteps == {"executing", "rolling_back"}

\* A key that has a result is answered from step_results, and changes nothing.
ExecuteStep(k) ==
    /\ assembly.state \in RunsSteps
    /\ k \notin assembly.step_results
    /\ runs' = [runs EXCEPT ![k] = @ + 1]
    /\ assembly' = [assembly EXCEPT !.step_results = @ \cup {k}]
    /\ UNCHANGED <<recipe, search, groups, remaining>>

PlanNext == DetectCycle \/ NextGroup

AssemblyNext ==
    \/ \E s \in DOMAIN VALID_TRANSITIONS : TransitionAssembly(s)
    \/ \E k \in IdemKeys : ExecuteStep(k)
-----------------------------------------------------------------------------
AssemblyTypeOK ==
    /\ search.visited \subseteq Named /\ search.path \in Seq(Named)
    /\ remaining \in SUBSET StepIds /\ groups \in Seq(SUBSET StepIds)
    /\ assembly.state \in DOMAIN VALID_TRANSITIONS
    /\ runs \in [IdemKeys -> Nat]

\* Some steps depend on each other in a circle: a set of steps each of which
\* needs another one of the set.
Circular(r) == \E S \in (SUBSET StepIds) \ {{}} : \A s \in S : r[s] \cap S # {}

\* validate_recipe refuses exactly the recipes that cannot be ordered, whatever
\* unknown steps they mention and in whatever order the search meets the steps.
CycleCheckExact == Validated => search.cycle = Circular(recipe)

\* The groups partition the steps and, for a recipe that validates and mentions
\* known steps only, a step is in the first group after all it depends on: the
\* plan breaks no dependency and delays nothing that could have run earlier.
GroupsRespectDependencies ==
    /\ Grouped \cup remaining = StepIds /\ Grouped \cap remaining = {}
    /\ \A i, j \in DOMAIN groups : i # j => groups[i] \cap groups[j] = {}
    /\ ~Circular(recipe) /\ (\A s \in StepIds : UnknownStep \notin recipe[s]) =>
          \A i \in DOMAIN groups : \A s \in groups[i] :
             LET before == UNION {groups[j] : j \in 1..(i - 1)}
                 earlier == UNION {groups[j] : j \in 1..(i - 2)}
             IN  recipe[s] \subseteq before /\ (i > 1 => ~(recipe[s] \subseteq earlier))

\* No step runs twice for one idempotency key, although the assembly can fail,
\* be reset to pending and execute again, and a result is kept for every run.
StepsRunOnce ==
    \A k \in IdemKeys : runs[k] <= 1 /\ (k \in assembly.step_results) = (runs[k] = 1)

\* Read backwards from an assembly that executes, rolls back or has completed,
\* its history goes through planning and validating before it reaches pending.
ExecutionIsPlanned ==
    LET h == assembly.state_history
        LastPending == CHOOSE i \in DOMAIN h : h[i] = "pending" /\ \A j \in i + 1..Len(h) : h[j] # "pending"
    IN  /\ h[Len(h)] = assembly.state
        /\ assembly.state \in {"executing", "rolling_back", "paused", "completed"} =>
              \E i, j \in LastPending..Len(h) : i < j /\ h[i] = "validating" /\ h[j] = "planning"
=============================================================================
