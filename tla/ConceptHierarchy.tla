-------------------------- MODULE ConceptHierarchy --------------------------
(***************************************************************************)
(* The concept tree of one tenant (services/ontology/services.py).         *)
(* Moving a concept under a new parent reads the parent's ancestors, one   *)
(* awaited query each, and then writes the link.  Every edit has a         *)
(* session of its own, which keeps a row as it first read it; edits        *)
(* overlap, and no constraint of the database speaks of cycles.  The       *)
(* commit is the caller's: the tree changes through an outside caller that *)
(* commits its session, since the routes make none and are rolled back.    *)
(***************************************************************************)
EXTENDS Naturals, FiniteSets

CONSTANTS
    Concepts,           \* bound: the ids concepts can have
    Edits,              \* bound: the update_concept calls
    MAX_WALK            \* ancestors read before the walk gives up (100)

\* None is no id.
ASSUME ConceptConstants == "none" \notin Concepts

VARIABLES
    parent,             \* existing concept -> parent or NoParent, as committed
    edit,               \* edit -> what it moves, what its session holds, how far it is
    blind               \* concept -> concepts moved while its own link was being checked

conceptVars == <<parent, edit, blind>>

NoParent == "none"
Known == DOMAIN parent
Idle == [pc |-> "idle"]
Done == [pc |-> "done"]
Open(e) == edit[e].pc \in {"looking", "walking", "writing"}

ConceptInit ==
    /\ parent = [c \in {} |-> NoParent]
    /\ edit = [e \in Edits |-> Idle]
    /\ blind = [c \in Concepts |-> {}]

\* A session's row is what its first query of it found.
Load(cache, c) ==
    IF c \in DOMAIN cache THEN cache
    ELSE [k \in DOMAIN cache \cup {c} |-> IF k = c THEN parent[c] ELSE cache[k]]
-----------------------------------------------------------------------------
\* create_concept: with a parent it passes the parent as the concept itself to
\* the cycle check, which then always finds a cycle; so concepts start as roots.
CreateConcept(c, p) ==
    /\ c \notin Known /\ p = NoParent
    /\ parent' = [k \in Known \cup {c} |-> IF k = c THEN NoParent ELSE parent[k]]
    /\ UNCHANGED <<edit, blind>>

\* update_concept reads the concept.
UpdateConcept(e, c, p) ==
    /\ edit[e] = Idle /\ c \in Known
    /\ edit' = [edit EXCEPT ![e] = [pc |-> "looking", self |-> c, target |-> p, at |-> p,
                                    depth |-> 0, cache |-> [k \in {c} |-> parent[c]],
                                    moved |-> {}]]
    /\ UNCHANGED <<parent, blind>>

\* The new parent is read; an unknown one ends the edit.
ReadParent(e) ==
    /\ edit[e].pc = "looking"
    /\ LET d == edit[e]
       IN edit' = [edit EXCEPT ![e] =
            IF d.target \notin Known THEN Done
            ELSE [d EXCEPT !.pc = "walking", !.cache = Load(d.cache, d.target)]]
    /\ UNCHANGED <<parent, blind>>

WalkForEver(e) ==
    /\ edit[e].pc = "walking"
    /\ LET d == edit[e]
           cache == Load(d.cache, d.at)
       IN edit' = [edit EXCEPT ![e] =
            IF d.at = d.self THEN Done
            ELSE IF cache[d.at] = NoParent THEN [d EXCEPT !.pc = "writing", !.cache = cache]
            ELSE [d EXCEPT !.at = cache[d.at], !.cache = cache]]
    /\ UNCHANGED <<parent, blind>>
AskParentOnly(e) ==
    /\ edit[e].pc = "walking"
    /\ edit' = [edit EXCEPT ![e] = IF @.at = @.self THEN Done ELSE [@ EXCEPT !.pc = "writing"]]
    /\ UNCHANGED <<parent, blind>>

\* One turn of _would_create_cycle.
WouldCreateCycle(e) ==
    /\ edit[e].pc = "walking"
    /\ LET d == edit[e]
           cache == Load(d.cache, d.at)
       IN edit' = [edit EXCEPT ![e] =
            IF d.depth > MAX_WALK \/ d.at = d.self THEN Done
            ELSE IF cache[d.at] = NoParent THEN [d EXCEPT !.pc = "writing", !.cache = cache]
            ELSE [d EXCEPT !.at = cache[d.at], !.depth = d.depth + 1, !.cache = cache]]
    /\ UNCHANGED <<parent, blind>>

\* The flush writes the link unless it is the one the session loaded, and the
\* caller commits.
FlushEdit(e) ==
    /\ edit[e].pc = "writing"
    /\ LET c == edit[e].self IN
       IF edit[e].cache[c] = edit[e].target
       THEN UNCHANGED <<parent, blind>> /\ edit' = [edit EXCEPT ![e] = Done]
       ELSE /\ parent' = [parent EXCEPT ![c] = edit[e].target]
            /\ blind' = [blind EXCEPT ![c] = edit[e].moved]
            /\ edit' = [f \in Edits |-> IF f = e THEN Done
                                        ELSE IF Open(f) THEN [edit[f] EXCEPT !.moved = @ \cup {c}]
                                        ELSE edit[f]]

ConceptStep(e) == ReadParent(e) \/ WouldCreateCycle(e) \/ FlushEdit(e)

ConceptNext ==
    \/ \E c \in Concepts : CreateConcept(c, NoParent)
    \/ \E e \in Edits, c \in Concepts, p \in Concepts : UpdateConcept(e, c, p)
    \/ \E e \in Edits : ConceptStep(e)
-----------------------------------------------------------------------------
ConceptTypeOK ==
    /\ parent \in [Known -> Known \cup {NoParent}] /\ Known \subseteq Concepts
    /\ \A e \in Edits : edit[e].pc \in {"idle", "looking", "walking", "writing", "done"}
    /\ blind \in [Concepts -> SUBSET Concepts]

\* A cycle: a set of concepts each of which has its parent in the set, none
\* of them superfluous.
Closed(S) == S # {} /\ \A c \in S : parent[c] \in S
Cycles == {S \in SUBSET Known : Closed(S) /\ \A T \in SUBSET S : Closed(T) => T = S}

\* Edits made one after the other keep the hierarchy a forest: a cycle exists
\* only if one of its links was written by an edit during which another of
\* its links was written (the check and the write are separate steps).
CyclesNeedOverlap ==
    /\ ConceptTypeOK
    /\ \A S \in Cycles : \E c \in S : blind[c] \cap S # {}

\* Every edit ends, even on a hierarchy that has become cyclic: the walk gives
\* up after its depth limit.
EditsEnd == \A e \in Edits : Open(e) ~> ~Open(e)
=============================================================================
