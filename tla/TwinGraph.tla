----------------------------- MODULE TwinGraph -----------------------------
(***************************************************************************)
(* The twin relationships of one tenant and the path search over them      *)
(* (services/twin_graph).  find_path reads the relationships of one twin   *)
(* at a time, outgoing and then incoming, in no particular order and at    *)
(* most LIMIT of them, while other calls add and remove relationships.     *)
(* The repository leaves the commit to the caller of the service.  The     *)
(* routes are a caller that makes none: what they add or remove is rolled  *)
(* back when their session closes, whatever they answer.  Links that come  *)
(* and go are those of an outside caller, one that commits its session.    *)
(***************************************************************************)
EXTENDS Naturals, Sequences, FiniteSets, SequencesExt

CONSTANTS
    Twins, Source, Target,
    MaxDepth,           \* find_path's max_depth
    LIMIT,              \* rows a relationship query answers at most (100)
    Relators,           \* bound: the create_relation calls
    MaxLinks,           \* bound: relationships that exist at first
    MaxRemovals         \* bound: the remove_relation calls

ASSUME GraphAssumption ==
    /\ IsFiniteSet(Twins) /\ Source \in Twins /\ Target \in Twins
    /\ MaxDepth \in Nat /\ LIMIT \in Nat

VARIABLES
    links,              \* the live relationships, as <<source, target>>
    relate,             \* create call -> the pair it checked, or its phase
    removals,
    search              \* the search: its queue, visited twins, position and answer

graphVars == <<links, relate, removals, search>>

Pairs == {p \in Twins \X Twins : p[1] # p[2]}
NoPath == <<>>

GraphInit ==
    /\ links \in {S \in SUBSET Pairs : Cardinality(S) <= MaxLinks}
    /\ relate = [r \in Relators |-> [pc |-> "ready"]] /\ removals = 0
    /\ search = [pc |-> "ready"]

\* What the search has to do with a relationship that comes or goes.
Disturb(s, p) ==
    IF s.pc \in {"out", "in"} THEN [s EXCEPT !.steady = FALSE, !.during = @ \cup {p}] ELSE s
-----------------------------------------------------------------------------
\* create_relation: the twins exist; a pair that has a relationship is refused.
\* Nothing holds the pair until the insert.
CheckRelation(r, p) ==
    /\ relate[r].pc = "ready"
    /\ relate' = [relate EXCEPT ![r] = IF p \in links THEN [pc |-> "done"] ELSE [pc |-> "checked", pair |-> p]]
    /\ UNCHANGED <<links, removals, search>>

\* repository.create flushes; the row is seen by nobody but its own session.
InsertRelation(r) ==
    /\ relate[r].pc = "checked"
    /\ relate' = [relate EXCEPT ![r].pc = "flushed"]
    /\ UNCHANGED <<links, removals, search>>

\* The commit of an outside caller.
CommitRelation(r) ==
    /\ relate[r].pc = "flushed"
    /\ links' = links \cup {relate[r].pair} /\ search' = Disturb(search, relate[r].pair)
    /\ relate' = [relate EXCEPT ![r] = [pc |-> "done"]]
    /\ UNCHANGED removals

\* A route makes none: it answers 201 and its session is closed.
CloseSession(r) ==
    /\ relate[r].pc = "flushed"
    /\ relate' = [relate EXCEPT ![r] = [pc |-> "done"]]
    /\ UNCHANGED <<links, removals, search>>

\* remove_relation, and the commit of a caller that makes one.
RemoveRelation(p) ==
    /\ removals < MaxRemovals /\ p \in links
    /\ links' = links \ {p} /\ removals' = removals + 1
    /\ search' = Disturb(search, p)
    /\ UNCHANGED relate

FindPath ==
    /\ search.pc = "ready"
    /\ search' = IF Source = Target THEN [pc |-> "done", path |-> <<Source>>, steady |-> TRUE, during |-> links]
                 ELSE [pc |-> "out", queue |-> << <<Source>> >>, visited |-> {Source},
                       steady |-> TRUE, during |-> links]
    /\ UNCHANGED <<links, relate, removals>>

\* The answers a relationship query can give: at most LIMIT of the rows.
Answers(S) ==
    LET n == IF Cardinality(S) <= LIMIT THEN Cardinality(S) ELSE LIMIT
    IN {T \in SUBSET S : Cardinality(T) = n}

\* The unvisited twins of an answer, in the order of its rows, which is any.
Fresh(S) == UNION {SetToSeqs(T \ search.visited) : T \in Answers(S)}

Answered(path) == [pc |-> "done", path |-> path, steady |-> search.steady, during |-> search.during]

\* The loop over one answer: the target ends the search, an unvisited twin is
\* queued behind the path that leads to it.
Expand(fresh, path, next) ==
    IF Target \in ToSet(fresh) THEN Answered(Append(path, Target))
    ELSE [search EXCEPT !.queue = @ \o [i \in DOMAIN fresh |-> Append(path, fresh[i])],
                        !.visited = @ \cup ToSet(fresh), !.pc = next]

\* A path that may not grow is skipped; otherwise its last twin's outgoing
\* relationships are read.
ReadOutgoing ==
    /\ search.pc = "out"
    /\ IF search.queue = <<>> THEN search' = Answered(NoPath)
       ELSE LET path == Head(search.queue) IN
            IF Len(path) - 1 >= MaxDepth THEN search' = [search EXCEPT !.queue = Tail(@)]
            ELSE \E fresh \in Fresh({n \in Twins : <<Last(path), n>> \in links}) :
                     search' = Expand(fresh, path, "in")
    /\ UNCHANGED <<links, relate, removals>>

\* The incoming relationships of the same twin are read in a query of their own.
DropHead(s) == IF s.pc = "done" THEN s ELSE [s EXCEPT !.queue = Tail(@)]

\* Mutant of ReadIncoming: it asks for the outgoing relationships once more.
ReadOutgoingAgain ==
    /\ search.pc = "in"
    /\ LET path == Head(search.queue) IN
       \E fresh \in Fresh({n \in Twins : <<Last(path), n>> \in links}) :
           search' = DropHead(Expand(fresh, path, "out"))
    /\ UNCHANGED <<links, relate, removals>>

ReadIncoming ==
    /\ search.pc = "in"
    /\ LET path == Head(search.queue) IN
       \E fresh \in Fresh({n \in Twins : <<n, Last(path)>> \in links}) :
           search' = DropHead(Expand(fresh, path, "out"))
    /\ UNCHANGED <<links, relate, removals>>

GraphNext ==
    \/ \E r \in Relators, p \in Pairs : CheckRelation(r, p)
    \/ \E r \in Relators : InsertRelation(r) \/ CommitRelation(r) \/ CloseSession(r)
    \/ \E p \in Pairs : RemoveRelation(p)
    \/ FindPath \/ ReadOutgoing \/ ReadIncoming
-----------------------------------------------------------------------------
GraphTypeOK ==
    /\ links \subseteq Pairs
    /\ search.pc \in {"ready", "out", "in", "done"}
    /\ search.pc \in {"out", "in"} => \A i \in DOMAIN search.queue : search.queue[i] \in Seq(Twins)

\* The twins within n of the relationships L of the source, in any direction.
Nearby(S, L) == S \cup {t \in Twins : \E u \in S : <<u, t>> \in L \/ <<t, u>> \in L}
Ball(L) == LET ball[n \in 0..MaxDepth] == IF n = 0 THEN {Source} ELSE Nearby(ball[n - 1], L) IN ball

Crowded(L) == \E t \in Twins : \/ Cardinality({n \in Twins : <<t, n>> \in L}) > LIMIT
                               \/ Cardinality({n \in Twins : <<n, t>> \in L}) > LIMIT

\* On a graph that does not change under the search, and where no query is cut
\* short, the search answers a path exactly when one of at most MaxDepth
\* relationships exists, and then a shortest one.
PathIsShortest ==
    search.pc = "done" /\ search.steady /\ ~Crowded(links) /\ search.during = links =>
        IF search.path = NoPath THEN Target \notin Ball(links)[MaxDepth]
        ELSE /\ Len(search.path) - 1 \in 0..MaxDepth
             /\ Target \in Ball(links)[Len(search.path) - 1]
             /\ Len(search.path) > 1 => Target \notin Ball(links)[Len(search.path) - 2]

\* Whatever changes meanwhile, an answered path leads from the source to the
\* target without meeting a twin twice, over relationships that existed at
\* some time during the search.
PathWasReal ==
    search.pc = "done" /\ search.path # NoPath =>
        /\ Head(search.path) = Source /\ Last(search.path) = Target
        /\ \A i, j \in DOMAIN search.path : search.path[i] = search.path[j] => i = j
        /\ \A i \in 1..(Len(search.path) - 1) :
               \/ <<search.path[i], search.path[i + 1]>> \in search.during
               \/ <<search.path[i + 1], search.path[i]>> \in search.during
=============================================================================
