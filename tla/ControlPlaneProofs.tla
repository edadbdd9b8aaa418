------------------------- MODULE ControlPlaneProofs -------------------------
(***************************************************************************)
(* Proofs about the parts of MCControlPlane, for any set of concepts,      *)
(* edits, tenants, users, calls and schemas and any limits.  Each part has *)
(* an inductive invariant of its own; a step of the composition is a step  *)
(* of one part and leaves the variables of the others alone.  (The         *)
(* migrations have no constants: TLC's run goes through all of them.)      *)
(***************************************************************************)
EXTENDS MCControlPlane, DataInduction, SequenceTheorems, TLAPS

(* What a step of the composition is for each part. *)
LEMMA PartSteps ==
  ASSUME [Next]_vars
  PROVE  /\ CatalogueNext \/ UNCHANGED catalogueVars
         /\ SchemaNext \/ UNCHANGED schemaVars
         /\ AccountNext \/ UNCHANGED accountVars
         /\ RegistryNext \/ UNCHANGED registryVars
         /\ ConceptNext \/ UNCHANGED conceptVars
BY DEF Next, vars, Serving, Migrations, Catalogue, SemanticTypes, AccountService, Contracts, Hierarchy

-----------------------------------------------------------------------------
(* The concept hierarchy.  An open edit's session holds rows as they are   *)
(* unless they were moved since; while it walks, every row it holds leads  *)
(* to another it holds or to the one it reads next; when it may write, the *)
(* rows from the new parent upwards lead to a root without the concept.    *)

EditFields == {"pc", "self", "target", "at", "depth", "cache", "moved"}

Above(d) == DOMAIN d.cache \ {d.self}

SessionTyped(d, links) ==
  /\ DOMAIN d = EditFields
  /\ d.self \in DOMAIN links /\ d.target \in Concepts /\ d.moved \subseteq Concepts
  /\ d.cache \in [DOMAIN d.cache -> DOMAIN links \cup {NoParent}] /\ DOMAIN d.cache \subseteq DOMAIN links

Session(d, links) ==
  /\ SessionTyped(d, links)
  /\ \A k \in DOMAIN d.cache : k \in d.moved \/ d.cache[k] = links[k]
  /\ d.pc = "looking" => d.at = d.target /\ d.cache = [k \in {d.self} |-> d.cache[d.self]]
  /\ d.pc = "walking" =>
        /\ d.at \in DOMAIN links
        /\ d.target = d.at \/ d.target \in Above(d)
        /\ \A k \in Above(d) : k = d.at \/ d.cache[k] = d.at \/ d.cache[k] \in Above(d)
  /\ d.pc = "writing" =>
        /\ d.target \in Above(d)
        /\ \A k \in Above(d) : d.cache[k] = NoParent \/ d.cache[k] \in Above(d)

OpenPcs == {"looking", "walking", "writing"}

SessionsKept == \A e \in Edits :
  /\ edit[e].pc \in {"idle", "done"} \cup OpenPcs
  /\ edit[e].pc \in OpenPcs => Session(edit[e], parent)

OverlapNeeded == \A S \in Cycles : \E c \in S : blind[c] \cap S # {}

LinksTyped ==
  /\ parent \in [Known -> Known \cup {NoParent}] /\ Known \subseteq Concepts
  /\ blind \in [Concepts -> SUBSET Concepts] /\ edit = [e \in Edits |-> edit[e]]

ConceptInv == LinksTyped /\ SessionsKept /\ OverlapNeeded

LEMMA ConceptStart == ConceptInit => ConceptInv
<1> SUFFICES ASSUME ConceptInit PROVE ConceptInv
  OBVIOUS
<1> USE DEF ConceptInit
<1>1. Known = {}
  BY DEF Known
<1>2. LinksTyped
  BY <1>1 DEF LinksTyped
<1>3. SessionsKept
  BY DEF SessionsKept, Idle, OpenPcs
<1>4. OverlapNeeded
  BY <1>1 DEF OverlapNeeded, Cycles, Closed
<1> QED BY <1>2, <1>3, <1>4 DEF ConceptInv

(* Loading a row keeps a session. *)
LEMMA LoadHolds ==
  ASSUME NEW d, SessionTyped(d, parent), NEW c \in Known, LinksTyped
  PROVE  /\ Load(d.cache, c) \in [DOMAIN d.cache \cup {c} -> Known \cup {NoParent}]
         /\ \A k \in DOMAIN d.cache : Load(d.cache, c)[k] = d.cache[k]
         /\ c \notin DOMAIN d.cache => Load(d.cache, c)[c] = parent[c]
<1> DEFINE cache == d.cache
<1>1. cache \in [DOMAIN cache -> Known \cup {NoParent}] /\ parent[c] \in Known \cup {NoParent}
  BY DEF SessionTyped, LinksTyped, Known
<1> HIDE DEF cache
<1>2. CASE c \in DOMAIN cache
  <2>1. Load(cache, c) = cache /\ DOMAIN cache \cup {c} = DOMAIN cache
    BY <1>2 DEF Load
  <2> QED BY <1>1, <1>2, <2>1 DEF cache
<1>3. CASE c \notin DOMAIN cache
  <2>1. Load(cache, c) = [k \in DOMAIN cache \cup {c} |-> IF k = c THEN parent[c] ELSE cache[k]]
    BY <1>3 DEF Load
  <2> QED BY <1>1, <1>3, <2>1 DEF cache
<1> QED BY <1>2, <1>3

(* A step that changes one edit only. *)
LEMMA EditChange ==
  ASSUME ConceptInv, NEW e \in Edits, NEW d, UNCHANGED <<parent, blind>>,
         edit' = [edit EXCEPT ![e] = d],
         d.pc \in {"idle", "done"} \cup OpenPcs, d.pc \in OpenPcs => Session(d, parent)
  PROVE  ConceptInv'
<1>1. LinksTyped'
  BY DEF ConceptInv, LinksTyped, Known
<1>2. SessionsKept'
  <2> SUFFICES ASSUME NEW f \in Edits
               PROVE  /\ edit'[f].pc \in {"idle", "done"} \cup OpenPcs
                      /\ edit'[f].pc \in OpenPcs => Session(edit'[f], parent)
    BY DEF SessionsKept, Session, SessionTyped
  <2>1. edit'[f] = IF f = e THEN d ELSE edit[f]
    BY DEF ConceptInv, LinksTyped
  <2> QED BY <2>1 DEF ConceptInv, SessionsKept
<1>3. OverlapNeeded'
  BY DEF ConceptInv, OverlapNeeded, Cycles, Closed, Known
<1> QED BY <1>1, <1>2, <1>3 DEF ConceptInv

LEMMA UpdateKeeps ==
  ASSUME ConceptInv, NEW e \in Edits, NEW c \in Concepts, NEW p \in Concepts, UpdateConcept(e, c, p)
  PROVE  ConceptInv'
<1> DEFINE d == [pc |-> "looking", self |-> c, target |-> p, at |-> p,
                 depth |-> 0, cache |-> [k \in {c} |-> parent[c]], moved |-> {}]
<1>1. edit' = [edit EXCEPT ![e] = d] /\ UNCHANGED <<parent, blind>> /\ c \in Known
  BY DEF UpdateConcept
<1>2. parent[c] \in Known \cup {NoParent}
  BY <1>1 DEF ConceptInv, LinksTyped
<1>3. SessionTyped(d, parent)
  BY <1>1, <1>2 DEF SessionTyped, EditFields, Known
<1>4. Session(d, parent)
  BY <1>3 DEF Session
<1>5. d.pc \in {"idle", "done"} \cup OpenPcs
  BY DEF OpenPcs
<1> HIDE DEF d
<1> QED BY <1>1, <1>4, <1>5, EditChange

LEMMA ReadParentKeeps ==
  ASSUME ConceptInv, NEW e \in Edits, ReadParent(e)
  PROVE  ConceptInv'
<1> DEFINE d == edit[e]
           n == [d EXCEPT !.pc = "walking", !.cache = Load(d.cache, d.target)]
<1>1. UNCHANGED <<parent, blind>> /\ d.pc = "looking" /\ Session(d, parent)
  BY DEF ReadParent, ConceptInv, SessionsKept, OpenPcs
<1>2. CASE d.target \notin Known
  <2>1. edit' = [edit EXCEPT ![e] = Done] /\ Done.pc = "done"
    BY <1>2 DEF ReadParent, Done
  <2> QED BY <1>1, <2>1, EditChange DEF OpenPcs
<1>3. CASE d.target \in Known
  <2>1. edit' = [edit EXCEPT ![e] = n]
    BY <1>3 DEF ReadParent
  <2> DEFINE cache == Load(d.cache, d.target)
  <2>2. /\ cache \in [DOMAIN d.cache \cup {d.target} -> Known \cup {NoParent}]
        /\ \A k \in DOMAIN d.cache : cache[k] = d.cache[k]
        /\ d.target \notin DOMAIN d.cache => cache[d.target] = parent[d.target]
    <3>1. SessionTyped(d, parent) /\ LinksTyped /\ d.target \in Known
      BY <1>1, <1>3 DEF Session, ConceptInv
    <3> DEFINE c == d.target
    <3>2. c \in Known
      BY <3>1
    <3> HIDE DEF c
    <3>3. /\ Load(d.cache, c) \in [DOMAIN d.cache \cup {c} -> Known \cup {NoParent}]
          /\ \A k \in DOMAIN d.cache : Load(d.cache, c)[k] = d.cache[k]
          /\ c \notin DOMAIN d.cache => Load(d.cache, c)[c] = parent[c]
      BY <3>1, <3>2, LoadHolds
    <3> QED BY <3>3 DEF c
  <2>3. /\ DOMAIN n = EditFields /\ n.pc = "walking" /\ n.cache = cache /\ n.self = d.self
        /\ n.target = d.target /\ n.at = d.at /\ n.moved = d.moved
    BY <1>1 DEF Session, SessionTyped, EditFields
  <2> HIDE DEF n, cache
  <2>4. SessionTyped(n, parent)
    BY <1>1, <1>3, <2>2, <2>3 DEF Session, SessionTyped, Known
  <2>5. Session(n, parent)
    <3>1. DOMAIN d.cache = {d.self} /\ d.at = d.target
      BY <1>1 DEF Session
    <3>2. \A k \in DOMAIN n.cache : k \in n.moved \/ n.cache[k] = parent[k]
      BY <1>1, <2>2, <2>3 DEF Session
    <3>3. \A k \in Above(n) : k = n.at
      BY <2>2, <2>3, <3>1 DEF Above
    <3> QED BY <1>3, <2>3, <2>4, <3>1, <3>2, <3>3 DEF Session, Known
  <2> QED BY <1>1, <2>1, <2>3, <2>5, EditChange DEF OpenPcs
<1> QED BY <1>2, <1>3

LEMMA WalkKeeps ==
  ASSUME ConceptInv, NEW e \in Edits, WouldCreateCycle(e)
  PROVE  ConceptInv'
<1> DEFINE d == edit[e]
           cache == Load(d.cache, d.at)
           root == [d EXCEPT !.pc = "writing", !.cache = cache]
           next == [d EXCEPT !.at = cache[d.at], !.depth = d.depth + 1, !.cache = cache]
<1>1. UNCHANGED <<parent, blind>> /\ d.pc = "walking" /\ Session(d, parent)
  BY DEF WouldCreateCycle, ConceptInv, SessionsKept, OpenPcs
<1>2. d.at \in Known /\ DOMAIN d = EditFields
  BY <1>1 DEF Session, SessionTyped, Known
<1>3. /\ cache \in [DOMAIN d.cache \cup {d.at} -> Known \cup {NoParent}]
      /\ \A k \in DOMAIN d.cache : cache[k] = d.cache[k]
      /\ d.at \notin DOMAIN d.cache => cache[d.at] = parent[d.at]
  BY <1>1, <1>2, LoadHolds DEF Session, ConceptInv
<1>4. \/ edit' = [edit EXCEPT ![e] = Done]
      \/ d.at # d.self /\ cache[d.at] = NoParent /\ edit' = [edit EXCEPT ![e] = root]
      \/ d.at # d.self /\ cache[d.at] # NoParent /\ edit' = [edit EXCEPT ![e] = next]
  BY DEF WouldCreateCycle
<1>5. /\ DOMAIN root = EditFields /\ root.pc = "writing" /\ root.cache = cache /\ root.self = d.self
      /\ root.target = d.target /\ root.at = d.at /\ root.moved = d.moved
  BY <1>2 DEF EditFields
<1>6. /\ DOMAIN next = EditFields /\ next.pc = "walking" /\ next.cache = cache /\ next.self = d.self
      /\ next.target = d.target /\ next.at = cache[d.at] /\ next.moved = d.moved
  BY <1>1, <1>2 DEF EditFields
<1> HIDE DEF cache, root, next
<1>7. \A k \in DOMAIN cache : k \in d.moved \/ cache[k] = parent[k]
  BY <1>1, <1>3 DEF Session
<1>8. ASSUME d.at # d.self, NEW n, n.cache = cache, n.self = d.self, n.target = d.target
      PROVE  /\ n.target \in Above(n) /\ d.at \in Above(n)
             /\ \A k \in Above(n) : k = d.at \/ n.cache[k] \in Above(n)
  <2>1. Above(n) = Above(d) \cup {d.at}
    BY <1>3, <1>8 DEF Above
  <2>2. \A k \in Above(d) : n.cache[k] = d.cache[k]
    BY <1>3, <1>8 DEF Above
  <2> QED BY <1>1, <1>8, <2>1, <2>2 DEF Session
<1>9. SessionTyped(root, parent) /\ SessionTyped(next, parent)
  BY <1>1, <1>2, <1>3, <1>5, <1>6 DEF Session, SessionTyped, Known
<1>10. CASE edit' = [edit EXCEPT ![e] = Done]
  <2>1. Done.pc = "done"
    BY DEF Done
  <2> QED BY <1>1, <1>10, <2>1, EditChange DEF OpenPcs
<1>11. CASE d.at # d.self /\ cache[d.at] = NoParent /\ edit' = [edit EXCEPT ![e] = root]
  <2>1. Session(root, parent)
    BY <1>5, <1>7, <1>8, <1>9, <1>11 DEF Session
  <2> QED BY <1>1, <1>5, <1>11, <2>1, EditChange DEF OpenPcs
<1>12. CASE d.at # d.self /\ cache[d.at] # NoParent /\ edit' = [edit EXCEPT ![e] = next]
  <2>1. next.at \in DOMAIN parent
    BY <1>3, <1>6, <1>12 DEF Known
  <2>2. \A k \in Above(next) : k = next.at \/ next.cache[k] = next.at \/ next.cache[k] \in Above(next)
    BY <1>6, <1>8, <1>12
  <2>3. Session(next, parent)
    BY <1>6, <1>7, <1>8, <1>9, <1>12, <2>1, <2>2 DEF Session
  <2> QED BY <1>1, <1>6, <1>12, <2>3, EditChange DEF OpenPcs
<1> QED BY <1>4, <1>10, <1>11, <1>12

(* Concepts are added as roots, which no cycle contains. *)
LEMMA CreateKeeps ==
  ASSUME ConceptInv, NEW c \in Concepts, CreateConcept(c, NoParent)
  PROVE  ConceptInv'
<1> DEFINE links == [k \in Known \cup {c} |-> IF k = c THEN NoParent ELSE parent[k]]
<1>1. parent' = links /\ c \notin Known /\ UNCHANGED <<edit, blind>>
  BY DEF CreateConcept
<1>2. /\ DOMAIN links = DOMAIN parent \cup {c} /\ links[c] = NoParent
      /\ \A k \in DOMAIN parent : links[k] = parent[k]
  BY <1>1 DEF Known
<1>3. parent \in [Known -> Known \cup {NoParent}] /\ Known \subseteq Concepts /\ Known = DOMAIN parent
  BY DEF ConceptInv, LinksTyped, Known
<1>4. links \in [Known \cup {c} -> Known \cup {c} \cup {NoParent}]
  BY <1>3
<1> HIDE DEF links
<1>5. LinksTyped'
  BY <1>1, <1>2, <1>3, <1>4 DEF ConceptInv, LinksTyped, Known
<1>6. SessionsKept'
  <2> SUFFICES ASSUME NEW e \in Edits
               PROVE  /\ edit[e].pc \in {"idle", "done"} \cup OpenPcs
                      /\ edit[e].pc \in OpenPcs => Session(edit[e], links)
    BY <1>1 DEF SessionsKept
  <2> DEFINE d == edit[e]
  <2>1. d.pc \in {"idle", "done"} \cup OpenPcs /\ (d.pc \in OpenPcs => Session(d, parent))
    BY DEF ConceptInv, SessionsKept
  <2> HIDE DEF d
  <2>2. ASSUME Session(d, parent) PROVE Session(d, links)
    <3>1. SessionTyped(d, links)
      BY <1>2, <2>2 DEF Session, SessionTyped
    <3>2. \A k \in DOMAIN d.cache : links[k] = parent[k]
      BY <1>2, <2>2 DEF Session, SessionTyped
    <3>3. d.at \in DOMAIN parent => d.at \in DOMAIN links
      BY <1>2
    <3> QED BY <2>2, <3>1, <3>2, <3>3 DEF Session
  <2> QED BY <2>1, <2>2 DEF d
<1>7. OverlapNeeded'
  <2> SUFFICES ASSUME NEW S \in Cycles' PROVE S \in Cycles
    BY <1>1 DEF ConceptInv, OverlapNeeded
  <2>1. /\ S \subseteq Known \cup {c} /\ S # {} /\ \A k \in S : links[k] \in S
        /\ \A T \in SUBSET S : (T # {} /\ \A k \in T : links[k] \in T) => T = S
    BY <1>1, <1>2, <1>3 DEF Cycles, Closed, Known
  <2>2. c \notin S
    BY <1>2, <1>3, <2>1, ConceptConstants DEF NoParent
  <2>3. S \subseteq Known /\ \A k \in S : links[k] = parent[k]
    BY <1>2, <1>3, <2>1, <2>2
  <2> QED BY <2>1, <2>3 DEF Cycles, Closed
<1> QED BY <1>5, <1>6, <1>7 DEF ConceptInv

(* The write.  Were none of a new cycle's concepts moved during the edit,  *)
(* the rows the walk went through would still be as it read them: those of *)
(* them in the cycle would be closed under parents without the concept     *)
(* itself, and the cycle would not be the smallest such set.               *)
LEMMA FlushKeeps ==
  ASSUME ConceptInv, NEW e \in Edits, FlushEdit(e)
  PROVE  ConceptInv'
<1> DEFINE d == edit[e]
           c == d.self
           links == [parent EXCEPT ![c] = d.target]
<1>1. d.pc = "writing" /\ Session(d, parent)
  BY DEF FlushEdit, ConceptInv, SessionsKept, OpenPcs
<1>2. CASE d.cache[c] = d.target
  <2>1. UNCHANGED <<parent, blind>> /\ edit' = [edit EXCEPT ![e] = Done] /\ Done.pc = "done"
    BY <1>2 DEF FlushEdit, Done
  <2> QED BY <2>1, EditChange DEF OpenPcs
<1>3. CASE d.cache[c] # d.target
  <2>1. /\ parent' = links /\ blind' = [blind EXCEPT ![c] = d.moved]
        /\ edit' = [f \in Edits |-> IF f = e THEN Done
                                    ELSE IF Open(f) THEN [edit[f] EXCEPT !.moved = @ \cup {c}]
                                    ELSE edit[f]]
    BY <1>3 DEF FlushEdit
  <2>2. /\ parent \in [Known -> Known \cup {NoParent}] /\ Known \subseteq Concepts /\ Known = DOMAIN parent
        /\ blind \in [Concepts -> SUBSET Concepts]
    BY DEF ConceptInv, LinksTyped, Known
  <2>3. /\ c \in Known /\ d.target \in Known /\ d.moved \subseteq Concepts /\ d.target \in Above(d)
        /\ \A k \in Above(d) : d.cache[k] = NoParent \/ d.cache[k] \in Above(d)
        /\ \A k \in Above(d) : k # c /\ (k \in d.moved \/ d.cache[k] = parent[k])
    BY <1>1 DEF Session, SessionTyped, Above, Known
  <2>4. /\ DOMAIN links = DOMAIN parent /\ links[c] = d.target
        /\ \A k \in DOMAIN parent : k # c => links[k] = parent[k]
        /\ links \in [Known -> Known \cup {NoParent}]
    BY <2>2, <2>3
  <2>5. /\ blind' \in [Concepts -> SUBSET Concepts] /\ blind'[c] = d.moved
        /\ \A k \in Concepts : k # c => blind'[k] = blind[k]
    BY <2>1, <2>2, <2>3
  <2> HIDE DEF links
  <2>6. LinksTyped'
    BY <2>1, <2>2, <2>4, <2>5 DEF LinksTyped, Known
  <2>7. SessionsKept'
    <3> SUFFICES ASSUME NEW f \in Edits
                 PROVE  /\ edit'[f].pc \in {"idle", "done"} \cup OpenPcs
                        /\ edit'[f].pc \in OpenPcs => Session(edit'[f], links)
      BY <2>1 DEF SessionsKept
    <3> DEFINE g == edit[f]
    <3>1. g.pc \in {"idle", "done"} \cup OpenPcs /\ (g.pc \in OpenPcs => Session(g, parent))
      BY DEF ConceptInv, SessionsKept
    <3>2. CASE f = e
      BY <2>1, <3>2 DEF Done, OpenPcs
    <3>3. CASE f # e /\ g.pc \notin OpenPcs
      <4>1. edit'[f] = g
        BY <2>1, <3>3 DEF Open, OpenPcs
      <4> QED BY <3>1, <3>3, <4>1
    <3>4. CASE f # e /\ g.pc \in OpenPcs
      <4> DEFINE h == [g EXCEPT !.moved = @ \cup {c}]
      <4>1. edit'[f] = h
        BY <2>1, <3>4 DEF Open, OpenPcs
      <4>2. Session(g, parent)
        BY <3>1, <3>4
      <4>3. /\ DOMAIN h = EditFields /\ h.pc = g.pc /\ h.self = g.self /\ h.target = g.target
            /\ h.at = g.at /\ h.cache = g.cache /\ h.moved = g.moved \cup {c}
        BY <4>2 DEF Session, SessionTyped, EditFields
      <4> HIDE DEF g, h
      <4>4. SessionTyped(h, links)
        BY <2>2, <2>3, <2>4, <4>2, <4>3 DEF Session, SessionTyped
      <4>5. \A k \in DOMAIN h.cache : k \in h.moved \/ h.cache[k] = links[k]
        BY <2>4, <4>2, <4>3 DEF Session, SessionTyped
      <4>6. Above(h) = Above(g)
        BY <4>3 DEF Above
      <4>7. Session(h, links)
        BY <2>4, <4>2, <4>3, <4>4, <4>5, <4>6 DEF Session
      <4> QED BY <3>1, <4>1, <4>3, <4>7
    <3> QED BY <3>2, <3>3, <3>4
  <2>8. OverlapNeeded'
    <3> SUFFICES ASSUME NEW S \in Cycles' PROVE \E k \in S : blind'[k] \cap S # {}
      BY DEF OverlapNeeded
    <3>1. /\ S \subseteq Known /\ S # {} /\ \A k \in S : links[k] \in S
          /\ \A T \in SUBSET S : (T # {} /\ \A k \in T : links[k] \in T) => T = S
      BY <2>1, <2>4, <2>2 DEF Cycles, Closed, Known
    <3> HIDE DEF d
    <3>2. CASE c \notin S
      <4>1. \A k \in S : links[k] = parent[k]
        BY <2>2, <2>4, <3>1, <3>2
      <4>2. S \in Cycles
        BY <3>1, <4>1 DEF Cycles, Closed
      <4>3. PICK k \in S : blind[k] \cap S # {}
        BY <4>2 DEF ConceptInv, OverlapNeeded
      <4> QED BY <2>2, <2>5, <3>1, <3>2, <4>3
    <3>3. CASE c \in S
      <4> SUFFICES ASSUME d.moved \cap S = {} PROVE FALSE
        BY <2>5, <3>3
      <4> DEFINE T == S \cap Above(d)
      <4>1. d.target \in T
        BY <2>3, <2>4, <3>1, <3>3
      <4>2. ASSUME NEW k \in T PROVE links[k] \in T
        <5>1. k # c /\ links[k] = parent[k] /\ parent[k] = d.cache[k] /\ links[k] \in S
          BY <2>2, <2>3, <2>4, <3>1
        <5>2. NoParent \notin S
          BY <2>2, <3>1, ConceptConstants DEF NoParent
        <5> QED BY <2>3, <5>1, <5>2
      <4>3. T = S
        BY <3>1, <4>1, <4>2
      <4> QED BY <2>3, <3>3, <4>3
    <3> QED BY <3>2, <3>3
  <2> QED BY <2>6, <2>7, <2>8 DEF ConceptInv
<1> QED BY <1>2, <1>3

LEMMA ConceptKeeps == ConceptInv /\ (ConceptNext \/ UNCHANGED conceptVars) => ConceptInv'
<1> SUFFICES ASSUME ConceptInv, ConceptNext \/ UNCHANGED conceptVars PROVE ConceptInv'
  OBVIOUS
<1>1. CASE UNCHANGED conceptVars
  BY <1>1 DEF conceptVars, ConceptInv, LinksTyped, SessionsKept, OverlapNeeded, Known, Cycles, Closed
<1>2. CASE ConceptNext
  BY <1>2, CreateKeeps, UpdateKeeps, ReadParentKeeps, WalkKeeps, FlushKeeps DEF ConceptNext, ConceptStep
<1> QED BY <1>1, <1>2

(* Edits made one after the other keep the hierarchy a forest: a cycle     *)
(* needs an edit during whose check another of its links was written, for  *)
(* any concepts, any number of overlapping edits and any depth limit.      *)
THEOREM OverlapMakesCycles == Spec => []CyclesNeedOverlap
<1>1. Init => ConceptInv
  BY ConceptStart DEF Init
<1>2. ConceptInv /\ [Next]_vars => ConceptInv'
  BY PartSteps, ConceptKeeps
<1>3. ConceptInv => CyclesNeedOverlap
  BY DEF ConceptInv, LinksTyped, SessionsKept, OverlapNeeded, OpenPcs, CyclesNeedOverlap, ConceptTypeOK
<1> QED BY <1>1, <1>2, <1>3, PTL DEF Spec

-----------------------------------------------------------------------------
(* Accounts.  A login on its way has collected every condition that holds  *)
(* now, whatever was changed since it began; a request that began with a   *)
(* disabled user still finds that user disabled.                           *)

UserRow == [name : UserNames, password : Passwords, live : BOOLEAN]
LoginFields == {"pc", "code", "name", "password", "earned"}
Conditions == {"tenant", "user"}

CallKept(a, ten, accounts) ==
  /\ a.pc \in {"unused", "insert", "reset", "tenant", "user", "request", "finished"}
  /\ a.pc = "insert" => a.id \in Users /\ a.name \in UserNames /\ a.password \in Passwords
  /\ a.pc = "reset" => a.id \in DOMAIN accounts /\ a.password \in Passwords
  /\ a.pc \in {"tenant", "user"} =>
        /\ DOMAIN a = LoginFields /\ a.earned \subseteq Conditions
        /\ Grounds(ten, accounts, a.name, a.password) \subseteq a.earned
  /\ a.pc = "user" => "tenant" \in a.earned
  /\ a.pc = "request" =>
        a.id \in DOMAIN accounts /\ a.live \in BOOLEAN /\ (accounts[a.id].live => a.live)

AccountInv ==
  /\ tenant \in {"absent", "active", "disabled"}
  /\ Accounts \subseteq Users /\ user \in [Accounts -> UserRow] /\ clock \in 0..MaxClock
  /\ account = [c \in AccountCalls |-> account[c]]
  /\ \A c \in AccountCalls : CallKept(account[c], tenant, user)
  /\ \A t \in tokens : t.user \in Accounts /\ t.earned = Conditions
  /\ \A r \in served : r.live

LEMMA AccountStart == AccountInit => AccountInv
<1> SUFFICES ASSUME AccountInit PROVE AccountInv
  OBVIOUS
<1>1. user \in [Accounts -> UserRow] /\ Accounts \subseteq Users
  <2>1. CASE user = <<>>
    <3>1. DOMAIN user = {}
      BY <2>1
    <3> QED BY <2>1, <3>1 DEF Accounts
  <2>2. CASE user = [u \in {FirstUser} |-> [name |-> CHOOSE n \in UserNames : TRUE,
                                           password |-> CHOOSE p \in Passwords : TRUE, live |-> TRUE]]
    <3>1. FirstUser \in Users /\ (CHOOSE n \in UserNames : TRUE) \in UserNames
          /\ (CHOOSE p \in Passwords : TRUE) \in Passwords
      BY AccountConstants DEF FirstUser
    <3> QED BY <2>2, <3>1 DEF Accounts, UserRow
  <2> QED BY <2>1, <2>2 DEF AccountInit
<1>2. \A c \in AccountCalls : account[c].pc = "unused"
  BY DEF AccountInit, Unused
<1>3. \A c \in AccountCalls : CallKept(account[c], tenant, user)
  BY <1>2 DEF CallKept
<1>4. clock \in 0..MaxClock
  BY AccountConstants DEF AccountInit
<1> QED BY <1>1, <1>3, <1>4 DEF AccountInit, AccountInv

(* Tables only evolve: no user vanishes, no disabled one comes back. *)
Evolves(old, new) ==
  DOMAIN old \subseteq DOMAIN new /\ \A u \in DOMAIN old : new[u].live => old[u].live

LEMMA WitnessKeeps ==
  ASSUME AccountInv, NEW ten, NEW accounts, Evolves(user, accounts), NEW c \in AccountCalls
  PROVE  CallKept(Witness(c, ten, accounts), ten, accounts)
<1> DEFINE a == account[c]
           G == Grounds(ten, accounts, a.name, a.password)
<1>1. CallKept(a, tenant, user)
  BY DEF AccountInv
<1>2. G \subseteq Conditions
  BY DEF Grounds, Conditions
<1>3. CASE a.pc \notin {"tenant", "user"}
  <2>1. Witness(c, ten, accounts) = a
    BY <1>3 DEF Witness
  <2> HIDE DEF a
  <2>2. a.pc = "request" => (accounts[a.id].live => a.live)
    BY <1>1 DEF CallKept, Evolves
  <2> QED BY <1>1, <1>3, <2>1, <2>2 DEF CallKept, Evolves
<1>4. CASE a.pc \in {"tenant", "user"}
  <2> DEFINE b == [a EXCEPT !.earned = @ \cup G]
  <2>1. Witness(c, ten, accounts) = b
    BY <1>4 DEF Witness
  <2>2. DOMAIN b = LoginFields /\ b.pc = a.pc /\ b.name = a.name /\ b.password = a.password
        /\ b.earned = a.earned \cup G
    BY <1>1, <1>4 DEF CallKept, LoginFields
  <2>3. G = Grounds(ten, accounts, b.name, b.password)
    BY <2>2
  <2> HIDE DEF a, b, G
  <2> QED BY <1>1, <1>2, <1>4, <2>1, <2>2, <2>3 DEF CallKept
<1> QED BY <1>3, <1>4

LEMMA TableChange ==
  ASSUME AccountInv, NEW ten \in {"absent", "active", "disabled"}, NEW accounts,
         DOMAIN accounts \subseteq Users, accounts \in [DOMAIN accounts -> UserRow],
         Evolves(user, accounts), Change(ten, accounts), account' = [c \in AccountCalls |-> account'[c]],
         \A c \in AccountCalls : account'[c] \in {Finished, Witness(c, ten, accounts)}
  PROVE  AccountInv'
<1>1. \A c \in AccountCalls : CallKept(account'[c], ten, accounts)
  <2> SUFFICES ASSUME NEW c \in AccountCalls PROVE CallKept(account'[c], ten, accounts)
    OBVIOUS
  <2>1. CallKept(Witness(c, ten, accounts), ten, accounts)
    BY WitnessKeeps
  <2>2. CallKept(Finished, ten, accounts)
    BY DEF CallKept, Finished
  <2> QED BY <2>1, <2>2
<1>2. \A t \in tokens : t.user \in DOMAIN accounts
  BY DEF AccountInv, Evolves, Accounts
<1> QED BY <1>1, <1>2 DEF AccountInv, Change, Accounts

(* A step that changes one call only. *)
LEMMA CallChange ==
  ASSUME AccountInv, NEW c \in AccountCalls, NEW a, account' = [account EXCEPT ![c] = a],
         CallKept(a, tenant, user), UNCHANGED <<tenant, user, clock>>,
         \A t \in tokens' : t.user \in Accounts /\ t.earned = Conditions, \A r \in served' : r.live
  PROVE  AccountInv'
<1>1. \A d \in AccountCalls : account'[d] = IF d = c THEN a ELSE account[d]
  BY DEF AccountInv
<1>2. \A d \in AccountCalls : CallKept(account'[d], tenant, user)
  BY <1>1 DEF AccountInv
<1>3. account' = [d \in AccountCalls |-> account'[d]]
  BY DEF AccountInv
<1> QED BY <1>2, <1>3 DEF AccountInv, Accounts

LEMMA TablesKeep ==
  ASSUME AccountInv,
         \/ \E code \in Spellings : CreateTenant(code)
         \/ DisableTenant
         \/ \E u \in Users : DisableUser(u)
  PROVE  AccountInv'
<1>0. user \in [Accounts -> UserRow] /\ Accounts = DOMAIN user /\ Accounts \subseteq Users
      /\ tenant \in {"absent", "active", "disabled"} /\ Evolves(user, user)
  BY DEF AccountInv, Accounts, Evolves
<1>1. ASSUME NEW ten \in {"absent", "active", "disabled"}, Change(ten, user), Witnesses(ten, user)
      PROVE  AccountInv'
  BY <1>0, <1>1, TableChange DEF Witnesses
<1>2. ASSUME NEW code, CreateTenant(code) PROVE AccountInv'
  <2> DEFINE ten == IF tenant = "absent" THEN "active" ELSE tenant
  <2>1. ten \in {"absent", "active", "disabled"} /\ Change(ten, user) /\ Witnesses(ten, user)
    BY <1>0, <1>2 DEF CreateTenant
  <2> HIDE DEF ten
  <2> QED BY <1>1, <2>1
<1>3. CASE DisableTenant
  BY <1>1, <1>3 DEF DisableTenant
<1>4. ASSUME NEW u \in Users, DisableUser(u) PROVE AccountInv'
  <2> DEFINE accounts == [user EXCEPT ![u].live = FALSE]
  <2>1. u \in DOMAIN user /\ Change(tenant, accounts) /\ Witnesses(tenant, accounts)
    BY <1>4 DEF DisableUser, Accounts
  <2>2. DOMAIN accounts = DOMAIN user /\ accounts \in [Accounts -> UserRow]
    BY <1>0, <2>1 DEF UserRow
  <2>3. Evolves(user, accounts)
    BY <1>0, <2>1 DEF Evolves, UserRow
  <2> HIDE DEF accounts
  <2> QED BY <1>0, <2>1, <2>2, <2>3, TableChange DEF Witnesses
<1> QED BY <1>2, <1>3, <1>4

LEMMA WritesKeep ==
  ASSUME AccountInv, NEW c \in AccountCalls, InsertUser(c) \/ ResetPassword(c)
  PROVE  AccountInv'
<1> DEFINE a == account[c]
<1>0. /\ user \in [Accounts -> UserRow] /\ Accounts = DOMAIN user /\ Accounts \subseteq Users
      /\ tenant \in {"absent", "active", "disabled"} /\ CallKept(a, tenant, user)
  BY DEF AccountInv, Accounts
<1>1. ASSUME NEW accounts, Change(tenant, accounts), DOMAIN accounts \subseteq Users,
             accounts \in [DOMAIN accounts -> UserRow], Evolves(user, accounts),
             account' = [d \in AccountCalls |-> IF d = c THEN Finished ELSE Witness(d, tenant, accounts)]
      PROVE  AccountInv'
  <2>1. \A d \in AccountCalls : account'[d] \in {Finished, Witness(d, tenant, accounts)}
    BY <1>1
  <2>2. account' = [d \in AccountCalls |-> account'[d]]
    BY <1>1
  <2> QED BY <1>0, <1>1, <2>1, <2>2, TableChange
<1>2. CASE InsertUser(c)
  <2> DEFINE id == a.id
             refused == id \in Accounts \/ \E v \in Accounts : user[v].name = a.name
             row == [name |-> a.name, password |-> a.password, live |-> TRUE]
             accounts == IF refused THEN user
                         ELSE [v \in Accounts \cup {id} |-> IF v = id THEN row ELSE user[v]]
  <2>1. /\ Change(tenant, accounts)
        /\ account' = [d \in AccountCalls |-> IF d = c THEN Finished ELSE Witness(d, tenant, accounts)]
    BY <1>2 DEF InsertUser
  <2>2. id \in Users /\ row \in UserRow
    BY <1>0, <1>2 DEF InsertUser, CallKept, UserRow
  <2> HIDE DEF a, row
  <2>3. DOMAIN accounts \subseteq Users /\ accounts \in [DOMAIN accounts -> UserRow] /\ Evolves(user, accounts)
    <3>1. CASE refused
      BY <1>0, <3>1 DEF Evolves
    <3>2. CASE ~refused
      BY <1>0, <2>2, <3>2 DEF Evolves
    <3> QED BY <3>1, <3>2
  <2> HIDE DEF accounts
  <2> QED BY <1>1, <2>1, <2>3
<1>3. CASE ResetPassword(c)
  <2> DEFINE accounts == [user EXCEPT ![a.id].password = a.password]
  <2>1. /\ Change(tenant, accounts)
        /\ account' = [d \in AccountCalls |-> IF d = c THEN Finished ELSE Witness(d, tenant, accounts)]
    BY <1>3 DEF ResetPassword
  <2>2. a.id \in Accounts /\ a.password \in Passwords
    BY <1>0, <1>3 DEF ResetPassword, CallKept
  <2> HIDE DEF a
  <2>3. DOMAIN accounts = Accounts /\ accounts \in [Accounts -> UserRow]
    BY <1>0, <2>2 DEF UserRow
  <2>4. Evolves(user, accounts)
    BY <1>0, <2>2 DEF Evolves, UserRow
  <2> HIDE DEF accounts
  <2> QED BY <1>0, <1>1, <2>1, <2>3, <2>4
<1> QED BY <1>2, <1>3

LEMMA LoginKeeps ==
  ASSUME AccountInv, NEW c \in AccountCalls,
         \/ \E code \in Spellings, n \in UserNames, p \in Passwords : Login(c, code, n, p)
         \/ FindTenant(c) \/ FindUser(c)
  PROVE  AccountInv'
<1>0. /\ \A t \in tokens : t.user \in Accounts /\ t.earned = Conditions
      /\ \A r \in served : r.live
      /\ CallKept(account[c], tenant, user) /\ CallKept(Finished, tenant, user)
  BY DEF AccountInv, CallKept, Finished
<1>1. ASSUME NEW code, NEW n, NEW p, Login(c, code, n, p) PROVE AccountInv'
  <2> DEFINE a == [pc |-> "tenant", code |-> code, name |-> n, password |-> p,
                   earned |-> Grounds(tenant, user, n, p)]
  <2>1. account' = [account EXCEPT ![c] = a] /\ UNCHANGED <<tenant, user, tokens, served, clock>>
    BY <1>1 DEF Login
  <2>2. a.earned \subseteq Conditions
    BY DEF Grounds, Conditions
  <2>3. CallKept(a, tenant, user)
    BY <2>2 DEF CallKept, LoginFields
  <2> HIDE DEF a
  <2> QED BY <1>0, <2>1, <2>3, CallChange
<1>2. CASE FindTenant(c)
  <2> DEFINE a == account[c]
             b == [a EXCEPT !.pc = "user"]
  <2>1. UNCHANGED <<tenant, user, tokens, served, clock>> /\ a.pc = "tenant"
    BY <1>2 DEF FindTenant
  <2>2. CASE a.code = "acme" /\ tenant = "active"
    <3>1. account' = [account EXCEPT ![c] = b]
      BY <1>2, <2>2 DEF FindTenant
    <3>2. DOMAIN b = LoginFields /\ b.pc = "user" /\ b.name = a.name /\ b.password = a.password
          /\ b.earned = a.earned
      BY <1>0, <2>1 DEF CallKept, LoginFields
    <3>3. "tenant" \in a.earned
      BY <1>0, <2>1, <2>2 DEF CallKept, Grounds
    <3> HIDE DEF a, b
    <3>4. CallKept(b, tenant, user)
      BY <1>0, <2>1, <3>2, <3>3 DEF CallKept, a
    <3> QED BY <1>0, <2>1, <3>1, <3>4, CallChange
  <2>3. CASE ~(a.code = "acme" /\ tenant = "active")
    <3>1. account' = [account EXCEPT ![c] = Finished]
      BY <1>2, <2>3 DEF FindTenant
    <3> QED BY <1>0, <2>1, <3>1, CallChange
  <2> QED BY <2>2, <2>3
<1>3. CASE FindUser(c)
  <2>1. UNCHANGED <<tenant, user, served, clock>> /\ account[c].pc = "user"
        /\ account' = [account EXCEPT ![c] = Finished]
    BY <1>3 DEF FindUser
  <2>2. ASSUME NEW t \in tokens', t \notin tokens PROVE t.user \in Accounts /\ t.earned = Conditions
    <3>1. PICK u \in Accounts : /\ user[u].name = account[c].name /\ user[u].live
                                /\ user[u].password = account[c].password /\ t = CreateAccessToken(c, u)
      BY <1>3, <2>2 DEF FindUser
    <3>2. t.user = u /\ t.earned = account[c].earned
      BY <3>1 DEF CreateAccessToken
    <3>3. "user" \in account[c].earned
      BY <1>0, <2>1, <3>1 DEF CallKept, Grounds, Accounts
    <3>4. account[c].earned = Conditions
      BY <1>0, <2>1, <3>3 DEF CallKept, Conditions
    <3> QED BY <3>2, <3>4
  <2> QED BY <1>0, <2>1, <2>2, CallChange
<1> QED BY <1>1, <1>2, <1>3

LEMMA RequestKeeps ==
  ASSUME AccountInv, NEW c \in AccountCalls,
         \/ \E t \in tokens : ExtractUserId(c, t)
         \/ GetCurrentUser(c)
         \/ \E u \in Users, p \in Passwords :
              ReadUserForReset(c, u, p) \/ \E n \in UserNames : CheckUserName(c, u, n, p)
  PROVE  AccountInv'
<1>0. /\ \A t \in tokens : t.user \in Accounts /\ t.earned = Conditions
      /\ \A r \in served : r.live
      /\ CallKept(account[c], tenant, user) /\ CallKept(Finished, tenant, user)
      /\ user \in [Accounts -> UserRow] /\ Accounts = DOMAIN user
  BY DEF AccountInv, CallKept, Finished, Accounts
<1>1. ASSUME NEW t \in tokens, ExtractUserId(c, t) PROVE AccountInv'
  <2> DEFINE a == [pc |-> "request", id |-> t.user, live |-> user[t.user].live]
  <2>1. account' = [account EXCEPT ![c] = a] /\ UNCHANGED <<tenant, user, tokens, served, clock>>
    BY <1>1 DEF ExtractUserId
  <2>2. t.user \in DOMAIN user /\ user[t.user].live \in BOOLEAN
    BY <1>0 DEF UserRow
  <2>3. CallKept(a, tenant, user)
    BY <2>2, Zenon DEF CallKept
  <2> HIDE DEF a
  <2> QED BY <1>0, <2>1, <2>3, CallChange
<1>2. CASE GetCurrentUser(c)
  <2>1. UNCHANGED <<tenant, user, tokens, clock>> /\ account[c].pc = "request"
        /\ account' = [account EXCEPT ![c] = Finished]
    BY <1>2 DEF GetCurrentUser
  <2>2. ASSUME NEW r \in served' PROVE r.live
    <3>1. user[account[c].id].live => account[c].live
      BY <1>0, <2>1 DEF CallKept
    <3>2. CASE r \notin served
      <4>1. user[account[c].id].live /\ r = [user |-> account[c].id, live |-> account[c].live]
        BY <1>2, <3>2 DEF GetCurrentUser
      <4>2. r.live = account[c].live
        BY <4>1
      <4> QED BY <3>1, <4>1, <4>2, Zenon
    <3> QED BY <1>0, <3>2
  <2> QED BY <1>0, <2>1, <2>2, CallChange
<1>3. ASSUME NEW u \in Users, NEW p \in Passwords, ReadUserForReset(c, u, p) PROVE AccountInv'
  <2> DEFINE a == [pc |-> "reset", id |-> u, password |-> p]
  <2>1. account' = [account EXCEPT ![c] = a] /\ UNCHANGED <<tenant, user, tokens, served, clock>>
        /\ u \in Accounts
    BY <1>3 DEF ReadUserForReset
  <2>2. CallKept(a, tenant, user)
    BY <1>0, <2>1 DEF CallKept
  <2> HIDE DEF a
  <2> QED BY <1>0, <2>1, <2>2, CallChange
<1>4. ASSUME NEW u \in Users, NEW p \in Passwords, NEW n \in UserNames, CheckUserName(c, u, n, p)
      PROVE  AccountInv'
  <2> DEFINE a == [pc |-> "insert", id |-> u, name |-> n, password |-> p]
  <2>1. account' = [account EXCEPT ![c] = a] /\ UNCHANGED <<tenant, user, tokens, served, clock>>
    BY <1>4 DEF CheckUserName
  <2>2. CallKept(a, tenant, user)
    BY DEF CallKept
  <2> HIDE DEF a
  <2> QED BY <1>0, <2>1, <2>2, CallChange
<1> QED BY <1>1, <1>2, <1>3, <1>4

LEMMA AccountKeeps == AccountInv /\ (AccountNext \/ UNCHANGED accountVars) => AccountInv'
<1> SUFFICES ASSUME AccountInv, AccountNext \/ UNCHANGED accountVars PROVE AccountInv'
  OBVIOUS
<1>1. CASE UNCHANGED accountVars
  BY <1>1 DEF accountVars, AccountInv, Accounts
<1>2. CASE ClockAdvances
  BY <1>2, AccountConstants DEF ClockAdvances, AccountInv, Accounts
<1>3. CASE AccountNext /\ ~ClockAdvances
  BY <1>3, TablesKeep, WritesKeep, LoginKeeps, RequestKeeps DEF AccountNext
<1> QED BY <1>1, <1>2, <1>3

LEMMA AccountHolds == AccountInv => AccountTypeOK /\ LoginsAreEarned /\ DisabledStaysOut
BY DEF AccountInv, CallKept, UserRow, Conditions, AccountTypeOK, LoginsAreEarned, DisabledStaysOut

-----------------------------------------------------------------------------
(* The contract registry.  A registry that is not loaded and never stopped *)
(* half-way is empty, so that the load that fills it is of one reading.    *)

RegistryInv ==
  /\ RegistryTypeOK /\ ServesOneReading
  /\ ~loaded /\ ~half_read => DOMAIN loaded_schemas = {}

LEMMA RegistryStart == RegistryInit => RegistryInv
BY DEF RegistryInit, RegistryInv, RegistryTypeOK, ServesOneReading, NoSchemas

LEMMA LoadKeeps ==
  ASSUME RegistryInv, NEW table, DOMAIN table \subseteq known_versions, LoadInto(table),
         half_read' \in BOOLEAN
  PROVE  /\ RegistryTypeOK'
         /\ loaded' = Readable
         /\ DOMAIN table = {} /\ Readable => loaded_schemas' = Contents(disk_read')
<1>1. ReadNames \subseteq SchemaNames
  BY DEF ReadNames
<1>2. loaded' \in BOOLEAN /\ loaded' = Readable
  BY DEF LoadInto, Readable
<1>3. DOMAIN loaded_schemas' = DOMAIN table \cup ReadNames
  BY DEF LoadInto
<1>4. RegistryTypeOK'
  BY <1>1, <1>2, <1>3 DEF LoadInto, RegistryTypeOK, RegistryInv
<1>5. ASSUME DOMAIN table = {}, Readable PROVE loaded_schemas' = Contents(disk_read')
  <2>1. \A n \in SchemaNames : 1..n \subseteq SchemaNames
    BY RegistryConstants DEF SchemaNames
  <2>2. ReadNames = {m \in SchemaNames : disk[m] # NoFile}
    BY <1>5, <2>1 DEF ReadNames, Readable
  <2>3. loaded_schemas' = [n \in ReadNames |-> disk[n]]
    BY <1>5 DEF LoadInto
  <2> QED BY <2>2, <2>3 DEF LoadInto, Contents
<1> QED BY <1>2, <1>4, <1>5

LEMMA RegistryKeeps == RegistryInv /\ (RegistryNext \/ UNCHANGED registryVars) => RegistryInv'
<1> SUFFICES ASSUME RegistryInv, RegistryNext \/ UNCHANGED registryVars PROVE RegistryInv'
  OBVIOUS
<1>1. CASE UNCHANGED registryVars
  BY <1>1 DEF registryVars, RegistryInv, RegistryTypeOK, ServesOneReading
<1>2. ASSUME NEW n \in SchemaNames, NEW s \in FileContents, WriteSchemaFile(n, s) PROVE RegistryInv'
  BY <1>2 DEF WriteSchemaFile, RegistryInv, RegistryTypeOK, ServesOneReading
<1>3. CASE LoadSchemas
  <2>1. LoadInto(loaded_schemas) /\ ~loaded /\ half_read' = (half_read \/ ~Readable)
    BY <1>3 DEF LoadSchemas
  <2>2. half_read' \in BOOLEAN
    BY <2>1
  <2>3. DOMAIN loaded_schemas \subseteq known_versions
    BY DEF RegistryInv, RegistryTypeOK
  <2>4. /\ RegistryTypeOK' /\ loaded' = Readable
        /\ DOMAIN loaded_schemas = {} /\ Readable => loaded_schemas' = Contents(disk_read')
    BY <2>1, <2>2, <2>3, LoadKeeps
  <2>5. ~half_read' => ~half_read /\ Readable
    BY <2>1, Zenon
  <2> QED BY <2>1, <2>4, <2>5, Zenon DEF RegistryInv, ServesOneReading
<1>4. CASE HotReload
  <2>1. LoadInto(NoSchemas) /\ half_read' = ~Readable
    BY <1>4 DEF HotReload
  <2>2. half_read' \in BOOLEAN /\ DOMAIN NoSchemas = {}
    BY <2>1 DEF NoSchemas
  <2>3. /\ RegistryTypeOK' /\ loaded' = Readable
        /\ Readable => loaded_schemas' = Contents(disk_read')
    BY <2>1, <2>2, LoadKeeps
  <2>4. ~half_read' => Readable
    BY <2>1, Zenon
  <2> QED BY <2>3, <2>4, Zenon DEF RegistryInv, ServesOneReading
<1> QED BY <1>1, <1>2, <1>3, <1>4 DEF RegistryNext

(* Schemas between which _semantic_diff reports nothing have the same      *)
(* properties and required names; with the same rule on further names they *)
(* accept the same data.                                                   *)
LEMMA ZeroDiffSame ==
  ASSUME NEW old, NEW new, SemanticDiff(old, new) = ZeroDiff, new.closed = old.closed, NEW data
  PROVE  ValidDocument(old, data) = ValidDocument(new, data)
<1>1. /\ Names(old) \ Names(new) = {} /\ Names(new) \ Names(old) = {} /\ Modified(old, new) = {}
      /\ (old.required \ new.required) \cup (new.required \ old.required) = {}
  <2> DEFINE a == SemanticDiff(old, new)
             b == ZeroDiff
  <2>1. /\ a.removed = Names(old) \ Names(new) /\ a.added = Names(new) \ Names(old)
        /\ a.modified = Modified(old, new)
        /\ a.required = (old.required \ new.required) \cup (new.required \ old.required)
    BY DEF SemanticDiff
  <2>2. b.removed = {} /\ b.added = {} /\ b.modified = {} /\ b.required = {}
    BY DEF ZeroDiff
  <2>3. a = b
    OBVIOUS
  <2> HIDE DEF a, b
  <2> QED BY <2>1, <2>2, <2>3
<1>2. Names(old) = Names(new)
  BY <1>1
<1>3. \A k \in Names(old) : old.properties[k] = new.properties[k]
  BY <1>1, <1>2 DEF Modified
<1>4. \A n : n \in old.required <=> n \in new.required
  BY <1>1
<1>5. old.required \subseteq DOMAIN data <=> new.required \subseteq DOMAIN data
  BY <1>4
<1>6. (\A k \in DOMAIN data \cap Names(old) : ValidValue(old.properties[k], data[k]))
        <=> \A k \in DOMAIN data \cap Names(new) : ValidValue(new.properties[k], data[k])
  BY <1>2, <1>3
<1>7. (old.closed => DOMAIN data \subseteq Names(old) \cup old.required)
        <=> (new.closed => DOMAIN data \subseteq Names(new) \cup new.required)
  <2>1. DOMAIN data \subseteq Names(old) \cup old.required <=> DOMAIN data \subseteq Names(new) \cup new.required
    BY <1>2, <1>4
  <2> QED BY <2>1, Zenon
<1> QED BY <1>5, <1>6, <1>7, Zenon DEF ValidDocument, ValidFields

LEMMA RegistryHolds == RegistryInv => RegistryTypeOK /\ ServesOneReading /\ ZeroDiffKeepsVerdicts
BY ZeroDiffSame, Zenon DEF RegistryInv, ZeroDiffKeepsVerdicts

-----------------------------------------------------------------------------
(* Semantic schemas.  The validator's pass over the list of properties,    *)
(* which keeps the names seen so far, finds an error exactly if the list   *)
(* has a wrong property or two of one name.                                *)

Found == [seen : SUBSET {Canonical[k] : k \in DOMAIN Canonical}, bad : BOOLEAN]

Wrong(p) ==
  ~p.dict \/ Canonical[p.name] = "" \/ Canonical[p.type] \notin VALID_DATA_TYPES \/ ~p.optional

LEMMA ValidateTurn ==
  ASSUME NEW found \in Found, NEW p \in Properties
  PROVE  /\ ValidateProperty(found, p) \in Found
         /\ ValidateProperty(found, p).bad <=> found.bad \/ Wrong(p) \/ Canonical[p.name] \in found.seen
         /\ ~ValidateProperty(found, p).bad =>
               ValidateProperty(found, p).seen = found.seen \cup {Canonical[p.name]}
<1> DEFINE v == ValidateProperty(found, p)
           name == Canonical[p.name]
           names == {Canonical[k] : k \in DOMAIN Canonical}
           badName == name = "" \/ name \in found.seen
           badType == Canonical[p.type] \notin VALID_DATA_TYPES
<1>1. found.seen \in SUBSET names /\ found.bad \in BOOLEAN
  BY DEF Found
<1>2. p.dict \in BOOLEAN /\ p.optional \in BOOLEAN /\ p.name \in DOMAIN Canonical
  BY SchemaConstants
<1>3. name \in names
  BY <1>2
<1>4. Found = [seen : SUBSET names, bad : BOOLEAN]
  BY DEF Found
<1>5. Wrong(p) <=> ~p.dict \/ name = "" \/ badType \/ ~p.optional
  BY Zenon DEF Wrong
<1>6. v = IF ~p.dict THEN [seen |-> found.seen, bad |-> TRUE]
          ELSE [seen |-> IF badName THEN found.seen ELSE found.seen \cup {name},
                bad |-> found.bad \/ badName \/ badType \/ ~p.optional]
  BY DEF ValidateProperty
<1> HIDE DEF v, name, names, badType
<1>7. CASE ~p.dict
  <2>1. v.seen = found.seen /\ v.bad = TRUE /\ v \in [seen : SUBSET names, bad : BOOLEAN]
    BY <1>1, <1>6, <1>7
  <2> QED BY <1>4, <1>5, <1>7, <2>1 DEF v, name
<1>8. CASE p.dict
  <2> DEFINE seen == IF badName THEN found.seen ELSE found.seen \cup {name}
             bad == found.bad \/ badName \/ badType \/ ~p.optional
  <2>1. seen \in SUBSET names
    BY <1>1, <1>3
  <2>2. bad \in BOOLEAN
    BY Zenon
  <2>3. v = [seen |-> seen, bad |-> bad]
    BY <1>6, <1>8
  <2>4. ~bad => seen = found.seen \cup {name}
    OBVIOUS
  <2>5. bad <=> found.bad \/ Wrong(p) \/ name \in found.seen
    BY <1>5, <1>8, Zenon
  <2> HIDE DEF seen, bad
  <2>6. v.seen = seen /\ v.bad = bad /\ v \in [seen : SUBSET names, bad : BOOLEAN]
    BY <2>1, <2>2, <2>3
  <2> QED BY <1>4, <2>4, <2>5, <2>6, Zenon DEF v, name
<1> QED BY <1>7, <1>8

(* What the pass has found after i turns. *)
WrongUpTo(items, i) ==
  \/ \E k \in 1..i : Wrong(items[k])
  \/ \E h, k \in 1..i : h < k /\ Canonical[items[h].name] = Canonical[items[k].name]

NamesUpTo(items, i) == {Canonical[items[k].name] : k \in 1..i}

FoundUpTo(found, items, i) ==
  /\ found \in Found
  /\ found.bad <=> WrongUpTo(items, i)
  /\ ~found.bad => found.seen = NamesUpTo(items, i)

LEMMA FoundNext ==
  ASSUME NEW items \in Seq(Properties), NEW i \in Nat, i + 1 \in 1..Len(items),
         NEW found, FoundUpTo(found, items, i)
  PROVE  FoundUpTo(ValidateProperty(found, items[i + 1]), items, i + 1)
<1> DEFINE p == items[i + 1]
           v == ValidateProperty(found, p)
<1>1. p \in Properties /\ found \in Found
  BY DEF FoundUpTo
<1>2. /\ v \in Found
      /\ v.bad <=> found.bad \/ Wrong(p) \/ Canonical[p.name] \in found.seen
      /\ ~v.bad => v.seen = found.seen \cup {Canonical[p.name]}
  BY <1>1, ValidateTurn
<1>3. 1..(i + 1) = 1..i \cup {i + 1} /\ \A h \in 1..i : h < i + 1
  OBVIOUS
<1>4. WrongUpTo(items, i + 1) <=>
        WrongUpTo(items, i) \/ Wrong(p) \/ Canonical[p.name] \in NamesUpTo(items, i)
  <2>1. (\E k \in 1..(i + 1) : Wrong(items[k])) <=> (\E k \in 1..i : Wrong(items[k])) \/ Wrong(p)
    BY <1>3
  <2>2. (\E h, k \in 1..(i + 1) : h < k /\ Canonical[items[h].name] = Canonical[items[k].name])
        <=> \/ \E h, k \in 1..i : h < k /\ Canonical[items[h].name] = Canonical[items[k].name]
            \/ \E h \in 1..i : Canonical[items[h].name] = Canonical[p.name]
    BY <1>3
  <2>3. Canonical[p.name] \in NamesUpTo(items, i) <=> \E h \in 1..i : Canonical[items[h].name] = Canonical[p.name]
    BY DEF NamesUpTo
  <2> HIDE DEF p
  <2> QED BY <2>1, <2>2, <2>3, Zenon DEF WrongUpTo
<1>5. NamesUpTo(items, i + 1) = NamesUpTo(items, i) \cup {Canonical[p.name]}
  BY <1>3 DEF NamesUpTo
<1> HIDE DEF v, p
<1> QED BY <1>2, <1>4, <1>5, Zenon DEF FoundUpTo, v, p

LEMMA LoopFinds ==
  ASSUME NEW items \in Seq(Properties)
  PROVE  FoundUpTo(ValidateLoop(items)[Len(items)], items, Len(items))
<1> DEFINE n == Len(items)
           start == [seen |-> {}, bad |-> FALSE]
           turn == [q \in Found \X (1..n) |-> ValidateProperty(q[1], items[q[2]])]
           Loops(f) == f = [i \in 0..n |-> IF i = 0 THEN start ELSE ValidateProperty(f[i - 1], items[i])]
<1>1. n \in Nat /\ \A i \in 1..n : items[i] \in Properties
  OBVIOUS
<1>2. start \in Found /\ start.bad = FALSE /\ start.seen = {}
  BY DEF Found
<1>3. turn \in Turns(n, Found)
  BY <1>1, ValidateTurn DEF Turns
<1> HIDE DEF turn, n, start
<1>4. PICK f : LoopRuns(f, n, Found, start, turn)
  BY <1>1, <1>2, <1>3, LoopExists
<1>5. \A i \in 1..n : f[i] = ValidateProperty(f[i - 1], items[i])
  <2> SUFFICES ASSUME NEW i \in 1..n PROVE f[i] = ValidateProperty(f[i - 1], items[i])
    OBVIOUS
  <2>1. f[i - 1] \in Found
    BY <1>1, <1>4 DEF LoopRuns
  <2> QED BY <1>4, <2>1 DEF turn, LoopRuns
<1>6. Loops(f)
  BY <1>1, <1>4, <1>5 DEF LoopRuns
<1> DEFINE g == ValidateLoop(items)
<1>7. g = CHOOSE h : Loops(h)
  BY DEF ValidateLoop, n, start
<1>8. Loops(g)
  BY <1>6, <1>7
<1> HIDE DEF g
<1>9. \A j \in 0..n : g[j] = IF j = 0 THEN start ELSE ValidateProperty(g[j - 1], items[j])
  BY <1>8, Zenon
<1> DEFINE S == {i \in 0..n : FoundUpTo(g[i], items, i)}
<1>10. 0 \in S
  <2>1. 0 \in 0..n /\ 1..0 = {}
    BY <1>1
  <2>2. g[0] = start
    BY <1>9, <2>1
  <2>3. ~WrongUpTo(items, 0) /\ NamesUpTo(items, 0) = {}
    BY <2>1 DEF WrongUpTo, NamesUpTo
  <2> QED BY <1>2, <2>1, <2>2, <2>3 DEF FoundUpTo
<1>11. ASSUME NEW i \in 0..(n - 1), i \in S PROVE i + 1 \in S
  <2>1. i \in Nat /\ i + 1 \in 1..n /\ i + 1 \in 0..n /\ (i + 1) - 1 = i /\ i + 1 # 0 /\ FoundUpTo(g[i], items, i)
    BY <1>1, <1>11
  <2>2. g[i + 1] = ValidateProperty(g[i], items[i + 1])
    BY <1>9, <2>1
  <2>3. FoundUpTo(g[i + 1], items, i + 1)
    BY <2>1, <2>2, FoundNext DEF n
  <2> QED BY <2>1, <2>3
<1> HIDE DEF S
<1>12. n \in S
  <2>1. \A i \in 0..(n - 1) : i \in S => i + 1 \in S
    BY <1>11
  <2>2. 0..n \subseteq S
    BY <1>1, <1>10, <2>1, SetInduction, Zenon
  <2> QED BY <1>1, <2>2
<1> QED BY <1>12 DEF S, g, n

(* The validators accept exactly the sound schemas. *)
LEMMA ValidIsSound ==
  ASSUME NEW kind \in DefinitionKinds, NEW s \in RequestSchemas
  PROVE  SchemaIsValid(kind, s) <=> Sound(kind, s)
<1> DEFINE ps == s.items
<1>1. /\ s.shape \in {"absent", "scalar", "list"} /\ ps \in Seq(Properties)
      /\ s.shape # "list" => ps = <<>>
  <2>1. CASE s \in [version : BOOLEAN, shape : {"absent", "scalar"}, items : {<<>>}]
    <3>1. ps = <<>> /\ s.shape \in {"absent", "scalar"}
      BY <2>1
    <3>2. <<>> \in Seq(Properties)
      OBVIOUS
    <3> HIDE DEF ps
    <3> QED BY <3>1, <3>2
  <2>2. CASE s \in [version : BOOLEAN, shape : {"list"},
                   items : UNION {[1..m -> Properties] : m \in 0..MaxProperties}]
    <3>1. PICK m \in 0..MaxProperties : ps \in [1..m -> Properties]
      BY <2>2
    <3>2. m \in Nat
      BY SchemaConstants
    <3>3. ps \in Seq(Properties)
      BY <3>1, <3>2, SeqDef
    <3> QED BY <2>2, <3>3
  <2> QED BY <2>1, <2>2 DEF RequestSchemas
<1>2. Len(ps) \in Nat /\ DOMAIN ps = 1..Len(ps) /\ (ps = <<>> <=> ~(Len(ps) > 0))
      /\ \A i \in 1..Len(ps) : ps[i] \in Properties
  BY <1>1
<1>3. \A i \in 1..Len(ps) : ps[i].name \in DOMAIN Canonical /\ ps[i].dict \in BOOLEAN /\ ps[i].optional \in BOOLEAN
  BY <1>2, SchemaConstants
<1>4. CASE kind = "entity_type"
  BY <1>1, <1>2, <1>4 DEF SchemaIsValid, EntityTypeIsValid, Sound
<1>5. CASE kind = "capability"
  <2> DEFINE n == Len(ps)
  <2>1. ~ValidateLoop(ps)[n].bad <=> ~WrongUpTo(ps, n)
    BY <1>1, LoopFinds DEF FoundUpTo
  <2>2. \A k \in DOMAIN Canonical : Canonical[k] = "" <=> k \in {"blank", "absent"}
    <3>1. DOMAIN Canonical = {"padded", "load", "temp", "blank", "absent", "float", "FLOAT", "tensor"}
      BY DEF Canonical
    <3>2. /\ Canonical["padded"] = "load" /\ Canonical["load"] = "load" /\ Canonical["temp"] = "temp"
          /\ Canonical["blank"] = "" /\ Canonical["absent"] = "" /\ Canonical["float"] = "float"
          /\ Canonical["FLOAT"] = "float" /\ Canonical["tensor"] = "tensor"
      BY DEF Canonical
    <3> QED BY <3>1, <3>2
  <2>3. ~WrongUpTo(ps, n) <=>
          /\ \A i \in 1..n : ps[i].dict /\ ps[i].name # "absent"
          /\ \A i \in 1..n : /\ Canonical[ps[i].type] \in VALID_DATA_TYPES
                             /\ ps[i].optional /\ ps[i].name # "blank"
          /\ \A i, j \in 1..n : i # j => Canonical[ps[i].name] # Canonical[ps[j].name]
    <3>1. \A i \in 1..n : ~Wrong(ps[i]) <=>
            /\ ps[i].dict /\ ps[i].name # "absent"
            /\ Canonical[ps[i].type] \in VALID_DATA_TYPES /\ ps[i].optional /\ ps[i].name # "blank"
      BY <1>3, <2>2 DEF Wrong
    <3> DEFINE name(i) == Canonical[ps[i].name]
    <3>2. (\E h, k \in 1..n : h < k /\ name(h) = name(k)) <=> \E i, j \in 1..n : i # j /\ name(i) = name(j)
      <4> HIDE DEF name, n
      <4>1. ASSUME NEW h \in 1..n, NEW k \in 1..n, h < k PROVE h # k
        BY <4>1
      <4>2. ASSUME NEW i \in 1..n, NEW j \in 1..n, i # j PROVE i < j \/ j < i
        BY <4>2
      <4> QED BY <4>1, <4>2, Zenon
    <3> HIDE DEF ps, n
    <3> QED BY <3>1, <3>2, Zenon DEF WrongUpTo
  <2>4. SchemaIsValid(kind, s) <=>
          s.version /\ s.shape = "list" /\ ps # <<>> /\ ~ValidateLoop(ps)[n].bad
    BY <1>5 DEF SchemaIsValid, CapabilityIsValid
  <2>5. Sound(kind, s) <=>
          /\ s.shape # "scalar" /\ s.version /\ n > 0
          /\ \A i \in 1..n : ps[i].dict /\ ps[i].name # "absent"
          /\ \A i \in 1..n : /\ Canonical[ps[i].type] \in VALID_DATA_TYPES
                             /\ ps[i].optional /\ ps[i].name # "blank"
          /\ \A i, j \in 1..n : i # j => Canonical[ps[i].name] # Canonical[ps[j].name]
    <3>1. DOMAIN ps = 1..n
      BY <1>2
    <3> QED BY <1>5, <3>1, Zenon DEF Sound
  <2>6. s.shape = "list" /\ ps # <<>> <=> s.shape # "scalar" /\ n > 0
    BY <1>1, <1>2
  <2> QED BY <2>1, <2>3, <2>4, <2>5, <2>6, Zenon
<1> QED BY <1>4, <1>5 DEF DefinitionKinds

SchemaCallKept(a) ==
  /\ a.pc \in {"idle", "flush", "write", "refused", "done"}
  /\ a.pc \in {"flush", "write", "refused"} =>
        /\ a.row \in DefinitionKinds \X Codes /\ a.schema \in RequestSchemas
        /\ a.pc = "refused" <=> ~SchemaIsValid(a.row[1], a.schema)

SchemaInv ==
  /\ Stored \subseteq DefinitionKinds \X Codes
  /\ \A k \in Stored : definition_rows[k] \in RequestSchemas /\ SchemaIsValid(k[1], definition_rows[k])
  /\ schema_call = [c \in SchemaCalls |-> schema_call[c]]
  /\ \A c \in SchemaCalls : SchemaCallKept(schema_call[c])

LEMMA SchemaStart == SchemaInit => SchemaInv
BY DEF SchemaInit, SchemaInv, Stored, SchemaCallKept

(* A call that sets out with a schema, valid or refused. *)
LEMMA AskKeeps ==
  ASSUME SchemaInv, NEW c \in SchemaCalls, NEW row \in DefinitionKinds \X Codes, NEW s \in RequestSchemas,
         NEW go \in {"flush", "write"}, UNCHANGED definition_rows,
         schema_call' = [schema_call EXCEPT ![c] =
            [pc |-> IF SchemaIsValid(row[1], s) THEN go ELSE "refused", row |-> row, schema |-> s]]
  PROVE  SchemaInv'
<1> DEFINE a == [pc |-> IF SchemaIsValid(row[1], s) THEN go ELSE "refused", row |-> row, schema |-> s]
<1>1. SchemaCallKept(a)
  BY DEF SchemaCallKept
<1>2. \A d \in SchemaCalls : schema_call'[d] = IF d = c THEN a ELSE schema_call[d]
  BY DEF SchemaInv
<1>3. schema_call' = [d \in SchemaCalls |-> schema_call'[d]]
  BY DEF SchemaInv
<1> HIDE DEF a
<1>4. \A d \in SchemaCalls : SchemaCallKept(schema_call'[d])
  BY <1>1, <1>2 DEF SchemaInv
<1> QED BY <1>3, <1>4 DEF SchemaInv, Stored

LEMMA StoreKeeps ==
  ASSUME SchemaInv, NEW c \in SchemaCalls, FlushCreate(c) \/ FlushUpdate(c)
  PROVE  SchemaInv'
<1> DEFINE a == schema_call[c]
<1>1. /\ a.row \in DefinitionKinds \X Codes /\ a.schema \in RequestSchemas
      /\ SchemaIsValid(a.row[1], a.schema)
  BY DEF FlushCreate, FlushUpdate, SchemaInv, SchemaCallKept
<1>2. schema_call' = [schema_call EXCEPT ![c] = [pc |-> "done"]]
  BY DEF FlushCreate, FlushUpdate
<1>3. /\ schema_call' = [d \in SchemaCalls |-> schema_call'[d]]
      /\ \A d \in SchemaCalls : SchemaCallKept(schema_call'[d])
  BY <1>2 DEF SchemaInv, SchemaCallKept
<1>4. /\ DOMAIN definition_rows' \subseteq DefinitionKinds \X Codes
      /\ \A k \in DOMAIN definition_rows' :
            \/ definition_rows'[k] = a.schema /\ k = a.row
            \/ k \in Stored /\ definition_rows'[k] = definition_rows[k]
  <2>1. CASE FlushCreate(c)
    BY <1>1, <2>1 DEF FlushCreate, SchemaInv, Stored
  <2>2. CASE FlushUpdate(c)
    BY <1>1, <2>2 DEF FlushUpdate, SchemaInv, Stored
  <2> QED BY <2>1, <2>2
<1> HIDE DEF a
<1>5. \A k \in DOMAIN definition_rows' :
        definition_rows'[k] \in RequestSchemas /\ SchemaIsValid(k[1], definition_rows'[k])
  BY <1>1, <1>4 DEF SchemaInv
<1> QED BY <1>3, <1>4, <1>5 DEF SchemaInv, Stored

LEMMA SchemaKeeps == SchemaInv /\ (SchemaNext \/ UNCHANGED schemaVars) => SchemaInv'
<1> SUFFICES ASSUME SchemaInv, SchemaNext \/ UNCHANGED schemaVars PROVE SchemaInv'
  OBVIOUS
<1>1. CASE UNCHANGED schemaVars
  BY <1>1 DEF schemaVars, SchemaInv, Stored
<1>2. ASSUME NEW c \in SchemaCalls, NEW kind \in DefinitionKinds, NEW code \in Codes,
             NEW s \in RequestSchemas, CreateDefinition(c, kind, code, s)
      PROVE  SchemaInv'
  <2> DEFINE row == <<kind, StoredCode(kind, code)>>
  <2>1. row \in DefinitionKinds \X Codes /\ row[1] = kind
    BY DEF StoredCode, Codes
  <2>2. /\ UNCHANGED definition_rows
        /\ schema_call' = [schema_call EXCEPT ![c] =
              [pc |-> IF SchemaIsValid(kind, s) THEN "flush" ELSE "refused", row |-> row, schema |-> s]]
    BY <1>2 DEF CreateDefinition
  <2> HIDE DEF row
  <2> QED BY <2>1, <2>2, AskKeeps
<1>3. ASSUME NEW c \in SchemaCalls, NEW row \in Stored, NEW s \in RequestSchemas, UpdateDefinition(c, row, s)
      PROVE  SchemaInv'
  <2>1. row \in DefinitionKinds \X Codes
    BY DEF SchemaInv
  <2> QED BY <1>3, <2>1, AskKeeps DEF UpdateDefinition
<1> QED BY <1>1, <1>2, <1>3, StoreKeeps DEF SchemaNext

LEMMA SchemaHolds == SchemaInv => SchemaTypeOK /\ SchemasAreSound
<1> SUFFICES ASSUME SchemaInv PROVE SchemaTypeOK /\ SchemasAreSound
  OBVIOUS
<1>1. \A s \in RequestSchemas : s.shape \in {"absent", "scalar", "list"}
  BY DEF RequestSchemas
<1>2. SchemaTypeOK
  BY <1>1 DEF SchemaInv, SchemaCallKept, SchemaTypeOK
<1>3. \A k \in Stored : Sound(k[1], definition_rows[k])
  <2> SUFFICES ASSUME NEW k \in Stored PROVE Sound(k[1], definition_rows[k])
    OBVIOUS
  <2>1. k[1] \in DefinitionKinds /\ definition_rows[k] \in RequestSchemas
        /\ SchemaIsValid(k[1], definition_rows[k])
    BY DEF SchemaInv
  <2> QED BY <2>1, ValidIsSound
<1>4. ASSUME NEW c \in SchemaCalls, schema_call[c].pc = "refused"
      PROVE  ~Sound(schema_call[c].row[1], schema_call[c].schema)
  <2> DEFINE a == schema_call[c]
  <2>1. a.row[1] \in DefinitionKinds /\ a.schema \in RequestSchemas /\ ~SchemaIsValid(a.row[1], a.schema)
    BY <1>4 DEF SchemaInv, SchemaCallKept
  <2> QED BY <2>1, ValidIsSound
<1> QED BY <1>2, <1>3, <1>4 DEF SchemasAreSound

(* Stored semantic schemas are the sound ones the validators accept; the   *)
(* registry of contracts serves one reading of the disk; and no difference *)
(* means no changed verdict, for any schemas, proposals and documents.     *)
THEOREM SchemasTrusted == Spec => []SchemasAreTrusted
<1>1. Init => SchemaInv /\ RegistryInv
  BY SchemaStart, RegistryStart DEF Init
<1>2. SchemaInv /\ RegistryInv /\ [Next]_vars => (SchemaInv /\ RegistryInv)'
  BY PartSteps, SchemaKeeps, RegistryKeeps
<1>3. SchemaInv /\ RegistryInv => SchemasAreTrusted
  BY SchemaHolds, RegistryHolds DEF SchemasAreTrusted
<1> QED BY <1>1, <1>2, <1>3, PTL DEF Spec

-----------------------------------------------------------------------------
(* The tenants' catalogue.  Rows are only added, and an added row keeps    *)
(* its kind, its tenant and its references; so what a query of a call      *)
(* found about the rows it refers to is still true when the call writes.   *)

Owners == Tenants \cup {System}

(* What a row holds as its value, and what a call passes as one. *)
Raws == RawValues \cup {""}
Spelt == {FreshKey, PaddedKey}
Texts == RawValues \cup {"", "none", "float", "INTEGER", "BOOLEAN", "FLOAT"}

RowSet == [kind : Kinds, tenant : Owners, key : {OldKey, "older", FreshKey}, refs : Seq(Nat),
           value : Texts, live : BOOLEAN, looked : Nat, unasked : BOOLEAN]

(* Would the uniqueness check of a kind find this row? *)
Confuses(row, kind, t, key, refs) ==
  /\ row.kind = kind
  /\ CASE kind = "entity" -> row.key = key /\ row.tenant = t
       [] kind = "data_source" -> row.key = key /\ row.tenant = t
       [] kind = "device" -> row.key = key /\ row.tenant = t
       [] kind = "asset" -> row.key = key
       [] kind = "definition" -> row.key = key /\ (t = System \/ row.tenant \in {t, System})
       [] kind = "binding" -> row.refs = refs /\ row.tenant = t

LEMMA ConfusesIsSameKey ==
  ASSUME NEW kind, NEW t, NEW key, NEW refs, NEW r
  PROVE  SameKey(kind, t, key, refs, r) <=> Confuses(rows[r], kind, t, key, refs)
BY Zenon DEF SameKey, Confuses, FindByName, GetSourceByName, GetByExternalId, GetByCode,
       GetDefinitionByKey, BindingExists

Standing(row) == row.live /\ ~row.unasked

(* The references, the value and the uniqueness check of a stored row. *)
RefsHold(s, r) ==
  \A i \in 1..Len(s[r].refs) :
    s[r].refs[i] \in 1..Len(s) /\ (s[r].kind # "value" => s[s[r].refs[i]].tenant = s[r].tenant)

ValueFits(s, r) ==
  s[r].kind = "value" =>
    /\ Len(s[r].refs) = 2 /\ s[s[r].refs[1]].kind = "definition"
    /\ s[r].value \in Validators[s[s[r].refs[1]].value]

Unconfused(s, r) ==
  \A i \in 1..(r - 1) :
    /\ Standing(s[i]) /\ Standing(s[r]) /\ s[r].kind # "value" /\ s[r].looked # 0
    /\ Confuses(s[i], s[r].kind, s[r].tenant, s[r].key, s[r].refs)
    => i > s[r].looked

RowsKept(s) == s \in Seq(RowSet) /\ \A r \in 1..Len(s) : RefsHold(s, r) /\ ValueFits(s, r) /\ Unconfused(s, r)

(* A call: which rows it refers to, and what its queries have established. *)
CatalogueFields == {"pc", "kind", "tenant", "refs", "raw", "key", "step", "looked", "value"}

Asked(a, what) == \E m \in 1..Len(Queries[a.kind]) : m < a.step /\ Queries[a.kind][m] = what

AskedTyped(a) ==
  /\ DOMAIN a = CatalogueFields /\ a.kind \in Kinds /\ a.tenant \in Owners /\ a.refs \in Seq(Nat)
  /\ a.raw \in Raws /\ a.key \in Spelt /\ a.step \in Nat \ {0} /\ a.looked \in Nat
  /\ a.value \in Texts

RefsFit(a, s) ==
  /\ Len(a.refs) = Len(Refers[a.kind])
  /\ \A i \in 1..Len(a.refs) : a.refs[i] \in 1..Len(s) /\ s[a.refs[i]].kind = Refers[a.kind][i]

TenantsMatch(a, s) ==
  a.kind # "value" =>
    /\ Len(a.refs) >= 1 /\ Asked(a, "first") => s[a.refs[1]].tenant = a.tenant
    /\ Len(a.refs) >= 2 /\ Asked(a, "second") => s[a.refs[2]].tenant = a.tenant

KeyWasFree(a, s) ==
  a.kind # "value" /\ a.looked # 0 =>
    /\ a.looked <= Len(s)
    /\ \A r \in 1..a.looked : Standing(s[r]) => ~Confuses(s[r], a.kind, a.tenant, a.key, a.refs)

ValueWasFit(a, s) ==
  a.kind = "value" =>
    /\ Asked(a, "value") => a.value \in Validators[s[a.refs[1]].value]
    /\ a.looked # 0 => a.looked \in 1..Len(s) /\ s[a.looked].kind = "value" /\ s[a.looked].refs = a.refs

AskedKept(a, s) ==
  AskedTyped(a) /\ RefsFit(a, s) /\ TenantsMatch(a, s) /\ KeyWasFree(a, s) /\ ValueWasFit(a, s)

CatalogueInv ==
  /\ RowsKept(rows) /\ edits \in 0..MaxEdits /\ scope \subseteq Kinds
  /\ call = [c \in CatalogueCalls |-> call[c]]
  /\ \A c \in CatalogueCalls :
       call[c].pc \in {"ready", "looking", "ended"} /\ (call[c].pc = "looking" => AskedKept(call[c], rows))

(* The tables of queries and references, kind by kind. *)
LEMMA QueryFacts ==
  ASSUME NEW k \in Kinds
  PROVE  /\ Len(Queries[k]) \in Nat /\ Len(Refers[k]) \in {0, 1, 2}
         /\ Len(Refers[k]) >= 1 => \E m \in 1..Len(Queries[k]) : Queries[k][m] = "first"
         /\ Len(Refers[k]) >= 2 => \E m \in 1..Len(Queries[k]) : Queries[k][m] = "second"
         /\ k # "value" => \A m \in 1..Len(Queries[k]) : Queries[k][m] # "value"
         /\ k = "value" => /\ Refers[k] = <<"definition", "entity">>
                           /\ \A m \in 1..Len(Queries[k]) : Queries[k][m] # "key"
                           /\ \E m \in 1..Len(Queries[k]) : Queries[k][m] = "value"
<1>1. Kinds = {"entity", "asset", "relationship", "definition", "data_source", "connection",
               "device", "data_point", "binding", "value"}
  BY DEF Kinds, Queries
<1>2. CASE k \in {"entity", "definition", "data_source"}
  <2>1. Queries[k] = <<"key">> /\ Refers[k] = <<>>
    BY <1>2 DEF Queries, Refers, CreateEntity, DefineProperty, CreateDataSource
  <2> QED BY <1>2, <2>1
<1>3. CASE k = "asset"
  <2>1. Queries[k] = <<"first", "key">> /\ Refers[k] = <<"entity">>
    BY <1>3 DEF Queries, Refers, CreateAsset
  <2> QED BY <1>3, <2>1
<1>4. CASE k = "relationship"
  <2>1. Queries[k] = <<"first", "second">> /\ Refers[k] = <<"entity", "entity">>
    BY <1>4 DEF Queries, Refers, CreateRelationship
  <2> QED BY <1>4, <2>1
<1>5. CASE k = "connection"
  <2>1. Queries[k] = <<"first", "raises">> /\ Refers[k] = <<"data_source">>
    BY <1>5 DEF Queries, Refers, CreateConnection
  <2> QED BY <1>5, <2>1
<1>6. CASE k = "device"
  <2>1. Queries[k] = <<"key", "first">> /\ Refers[k] = <<"data_source">>
    BY <1>6 DEF Queries, Refers, CreateDevice
  <2> QED BY <1>6, <2>1
<1>7. CASE k = "data_point"
  <2>1. Queries[k] = <<"first">> /\ Refers[k] = <<"device">>
    BY <1>7 DEF Queries, Refers, CreateDataPoint
  <2> QED BY <1>7, <2>1
<1>8. CASE k = "binding"
  <2>1. Queries[k] = <<"first", "second", "key">> /\ Refers[k] = <<"device", "entity">>
    BY <1>8 DEF Queries, Refers, CreateBinding
  <2> QED BY <1>8, <2>1
<1>9. CASE k = "value"
  <2>1. Queries[k] = <<"first", "second", "value">> /\ Refers[k] = <<"definition", "entity">>
    BY <1>9 DEF Queries, Refers, SetProperty
  <2> QED BY <1>9, <2>1
<1> QED BY <1>1, <1>2, <1>3, <1>4, <1>5, <1>6, <1>7, <1>8, <1>9

LEMMA CatalogueStart == CatalogueInit => CatalogueInv
<1> SUFFICES ASSUME CatalogueInit PROVE CatalogueInv
  OBVIOUS
<1> DEFINE t == CHOOSE v \in Tenants : TRUE
           u == CHOOSE v \in Tenants : v # t
           Firsts == {row \in RowSet : row.refs = <<>> /\ row.looked = 0 /\ row.kind # "value"}
           system == <<First("definition", System, OldKey, "INTEGER"),
                       First("definition", System, "older", "BOOLEAN")>>
<1>1. t \in Tenants /\ u \in Tenants
  BY CatalogueConstants
<1>2. rows = Owned(t) \o Owned(u) \o system /\ edits = 0 /\ scope \in KindScopes
      /\ call = [c \in CatalogueCalls |-> NotMade]
  BY DEF CatalogueInit
<1> HIDE DEF t, u
<1>3. ASSUME NEW kind \in Kinds \ {"value"}, NEW owner \in Owners, NEW key \in {OldKey, "older"},
             NEW value \in Texts
      PROVE  First(kind, owner, key, value) \in Firsts
  <2> DEFINE row == First(kind, owner, key, value)
  <2>1. row = [kind |-> kind, tenant |-> owner, key |-> key, refs |-> <<>>, value |-> value,
               live |-> TRUE, looked |-> 0, unasked |-> FALSE]
    BY DEF First, Row
  <2>2. <<>> \in Seq(Nat)
    OBVIOUS
  <2>3. row \in RowSet
    BY <2>1, <2>2 DEF RowSet
  <2> QED BY <2>1, <2>3
<1> HIDE DEF Firsts
<1>4. {"entity", "data_source", "device", "definition"} \subseteq Kinds \ {"value"}
  BY DEF Kinds, Queries
<1>5. ASSUME NEW v \in Tenants PROVE Owned(v) \in Seq(Firsts)
  <2> DEFINE x == First("entity", v, OldKey, "")
             y == First("data_source", v, OldKey, "")
             z == First("device", v, OldKey, "")
  <2>1. v \in Owners /\ OldKey \in {OldKey, "older"}
    BY DEF Owners
  <2>2. x \in Firsts /\ y \in Firsts /\ z \in Firsts
    BY <1>3, <1>4, <2>1 DEF Texts
  <2>3. Owned(v) = <<x, y, z>>
    BY DEF Owned
  <2> HIDE DEF x, y, z
  <2> QED BY <2>2, <2>3
<1>6. system \in Seq(Firsts)
  <2> DEFINE x == First("definition", System, OldKey, "INTEGER")
             y == First("definition", System, "older", "BOOLEAN")
  <2>1. System \in Owners /\ OldKey \in {OldKey, "older"} /\ "older" \in {OldKey, "older"}
    BY DEF Owners
  <2>2. x \in Firsts /\ y \in Firsts
    BY <1>3, <1>4, <2>1 DEF Texts
  <2>3. system = <<x, y>>
    OBVIOUS
  <2> HIDE DEF x, y, system
  <2> QED BY <2>2, <2>3
<1> HIDE DEF system
<1>7. rows \in Seq(Firsts)
  BY <1>1, <1>2, <1>5, <1>6, ConcatProperties
<1>8. \A r \in 1..Len(rows) : rows[r] \in Firsts
  BY <1>7
<1>9. rows \in Seq(RowSet)
  BY <1>7, <1>8 DEF Firsts
<1>10. \A r \in 1..Len(rows) : rows[r].refs = <<>> /\ rows[r].looked = 0 /\ rows[r].kind # "value"
  BY <1>8 DEF Firsts
<1>11. RowsKept(rows)
  BY <1>9, <1>10 DEF RowsKept, RefsHold, ValueFits, Unconfused
<1> QED BY <1>2, <1>11, CatalogueConstants DEF CatalogueInv, NotMade

(* How the tables may change under a call that is on its way. *)
Later(s, t) ==
  /\ s \in Seq(RowSet) /\ t \in Seq(RowSet) /\ Len(s) <= Len(t)
  /\ \A r \in 1..Len(s) :
       /\ t[r].kind = s[r].kind /\ t[r].tenant = s[r].tenant /\ t[r].refs = s[r].refs
       /\ t[r].looked = s[r].looked /\ (s[r].kind # "value" => t[r].value = s[r].value)
       /\ Standing(t[r]) => Standing(s[r]) /\ t[r].key = s[r].key

LEMMA LaterConfuses ==
  ASSUME NEW s, NEW t, Later(s, t), NEW r \in 1..Len(s), Standing(t[r]),
         NEW kind, NEW owner, NEW key, NEW refs
  PROVE  Confuses(t[r], kind, owner, key, refs) <=> Confuses(s[r], kind, owner, key, refs)
<1>1. t[r].kind = s[r].kind /\ t[r].tenant = s[r].tenant /\ t[r].refs = s[r].refs /\ t[r].key = s[r].key
  BY DEF Later
<1> QED BY <1>1, Zenon DEF Confuses

LEMMA CallStands ==
  ASSUME NEW s, NEW t, Later(s, t), NEW a, AskedKept(a, s)
  PROVE  AskedKept(a, t)
<1>1. Len(s) \in Nat /\ Len(t) \in Nat /\ 1..Len(s) \subseteq 1..Len(t)
  BY DEF Later
<1>2. AskedTyped(a) /\ Len(a.refs) \in Nat /\ a.looked \in Nat
  <2>1. AskedTyped(a)
    BY DEF AskedKept
  <2>2. a.refs \in Seq(Nat) /\ a.looked \in Nat
    BY <2>1 DEF AskedTyped
  <2> QED BY <2>1, <2>2
<1>3. \A i \in 1..Len(a.refs) : a.refs[i] \in 1..Len(s)
  BY DEF AskedKept, RefsFit
<1>4. RefsFit(a, t)
  BY <1>1 DEF AskedKept, RefsFit, Later
<1>5. TenantsMatch(a, t)
  <2>1. ASSUME NEW i \in 1..Len(a.refs) PROVE t[a.refs[i]].tenant = s[a.refs[i]].tenant
    BY <1>3 DEF Later
  <2>2. Len(a.refs) >= 1 => 1 \in 1..Len(a.refs)
    BY <1>2
  <2>3. Len(a.refs) >= 2 => 2 \in 1..Len(a.refs)
    BY <1>2
  <2> QED BY <2>1, <2>2, <2>3 DEF AskedKept, TenantsMatch
<1>6. KeyWasFree(a, t)
  <2> SUFFICES ASSUME a.kind # "value", a.looked # 0
               PROVE  /\ a.looked <= Len(t)
                      /\ \A r \in 1..a.looked : Standing(t[r]) => ~Confuses(t[r], a.kind, a.tenant, a.key, a.refs)
    BY DEF KeyWasFree
  <2>1. /\ a.looked <= Len(s)
        /\ \A r \in 1..a.looked : Standing(s[r]) => ~Confuses(s[r], a.kind, a.tenant, a.key, a.refs)
    BY DEF AskedKept, KeyWasFree
  <2>2. a.looked <= Len(t)
    BY <1>1, <1>2, <2>1 DEF Later
  <2>3. ASSUME NEW r \in 1..a.looked, Standing(t[r])
        PROVE  ~Confuses(t[r], a.kind, a.tenant, a.key, a.refs)
    <3>1. r \in 1..Len(s)
      BY <1>1, <1>2, <2>1
    <3>2. Standing(s[r])
      BY <2>3, <3>1 DEF Later
    <3>3. ~Confuses(s[r], a.kind, a.tenant, a.key, a.refs)
      BY <2>1, <3>2
    <3> QED BY <2>3, <3>1, <3>3, LaterConfuses
  <2> QED BY <2>2, <2>3
<1>7. ValueWasFit(a, t)
  <2> SUFFICES ASSUME a.kind = "value" PROVE ValueWasFit(a, t)
    BY DEF ValueWasFit
  <2>0. Refers["value"] = <<"definition", "entity">>
    BY <1>2, QueryFacts DEF AskedTyped
  <2>1. Len(a.refs) = 2 /\ 1 \in 1..Len(a.refs) /\ Refers[a.kind][1] = "definition"
    BY <2>0 DEF AskedKept, RefsFit
  <2>2. a.refs[1] \in 1..Len(s) /\ s[a.refs[1]].kind = "definition"
    BY <2>1 DEF AskedKept, RefsFit
  <2>3. t[a.refs[1]].value = s[a.refs[1]].value
    BY <2>2 DEF Later
  <2>4. a.looked # 0 => a.looked \in 1..Len(t) /\ t[a.looked].kind = "value" /\ t[a.looked].refs = a.refs
    BY <1>1 DEF AskedKept, ValueWasFit, Later
  <2> QED BY <2>3, <2>4 DEF AskedKept, ValueWasFit
<1> QED BY <1>2, <1>4, <1>5, <1>6, <1>7 DEF AskedKept

(* Old rows stand in the new tables, but for the values written. *)
LEMMA RowStands ==
  ASSUME NEW s, NEW t, RowsKept(s), Later(s, t), NEW r \in 1..Len(s)
  PROVE  RefsHold(t, r) /\ Unconfused(t, r) /\ (t[r].value = s[r].value => ValueFits(t, r))
<1>1. Len(s) \in Nat /\ Len(t) \in Nat /\ 1..Len(s) \subseteq 1..Len(t) /\ s[r] \in RowSet
  BY DEF Later
<1>2. /\ t[r].kind = s[r].kind /\ t[r].tenant = s[r].tenant /\ t[r].refs = s[r].refs
      /\ t[r].looked = s[r].looked /\ (Standing(t[r]) => Standing(s[r]) /\ t[r].key = s[r].key)
  BY DEF Later
<1>3. RefsHold(s, r) /\ ValueFits(s, r) /\ Unconfused(s, r)
  BY DEF RowsKept
<1>4. RefsHold(t, r)
  <2> SUFFICES ASSUME NEW i \in 1..Len(s[r].refs)
               PROVE  /\ s[r].refs[i] \in 1..Len(t)
                      /\ s[r].kind # "value" => t[s[r].refs[i]].tenant = s[r].tenant
    BY <1>2 DEF RefsHold
  <2>1. s[r].refs[i] \in 1..Len(s) /\ (s[r].kind # "value" => s[s[r].refs[i]].tenant = s[r].tenant)
    BY <1>3 DEF RefsHold
  <2> QED BY <1>1, <2>1 DEF Later
<1>5. Unconfused(t, r)
  <2> SUFFICES ASSUME NEW i \in 1..(r - 1), Standing(t[i]), Standing(t[r]), t[r].kind # "value",
                      t[r].looked # 0, Confuses(t[i], t[r].kind, t[r].tenant, t[r].key, t[r].refs)
               PROVE  i > t[r].looked
    BY DEF Unconfused
  <2>1. i \in 1..Len(s)
    BY <1>1
  <2>2. Standing(s[i])
    BY <2>1 DEF Later
  <2>3. Confuses(s[i], s[r].kind, s[r].tenant, s[r].key, s[r].refs)
    BY <1>2, <2>1, LaterConfuses
  <2> QED BY <1>2, <1>3, <2>2, <2>3 DEF Unconfused
<1>6. ASSUME t[r].value = s[r].value PROVE ValueFits(t, r)
  <2> SUFFICES ASSUME s[r].kind = "value" PROVE ValueFits(t, r)
    BY <1>2 DEF ValueFits
  <2>1. /\ Len(s[r].refs) = 2 /\ s[s[r].refs[1]].kind = "definition"
        /\ s[r].value \in Validators[s[s[r].refs[1]].value]
    BY <1>3 DEF ValueFits
  <2>2. s[r].refs[1] \in 1..Len(s)
    BY <1>3, <2>1 DEF RefsHold
  <2>3. t[s[r].refs[1]].kind = "definition" /\ t[s[r].refs[1]].value = s[s[r].refs[1]].value
    BY <2>1, <2>2 DEF Later
  <2> QED BY <1>2, <1>6, <2>1, <2>3 DEF ValueFits
<1> QED BY <1>4, <1>5, <1>6

(* A step that changes one call only. *)
LEMMA AskChange ==
  ASSUME CatalogueInv, NEW c \in CatalogueCalls, NEW a, call' = [call EXCEPT ![c] = a],
         UNCHANGED <<rows, edits, scope>>,
         a.pc \in {"ready", "looking", "ended"}, a.pc = "looking" => AskedKept(a, rows)
  PROVE  CatalogueInv'
<1>1. \A d \in CatalogueCalls : call'[d] = IF d = c THEN a ELSE call[d]
  BY DEF CatalogueInv
<1>2. call' = [d \in CatalogueCalls |-> call'[d]]
  BY DEF CatalogueInv
<1>3. \A d \in CatalogueCalls : call'[d].pc \in {"ready", "looking", "ended"}
                               /\ (call'[d].pc = "looking" => AskedKept(call'[d], rows))
  BY <1>1 DEF CatalogueInv
<1> QED BY <1>2, <1>3 DEF CatalogueInv

(* A step that changes the tables and at most ends calls. *)
LEMMA TablesChange ==
  ASSUME CatalogueInv, Later(rows, rows'), UNCHANGED scope, edits' \in 0..MaxEdits,
         call' = [c \in CatalogueCalls |-> call'[c]],
         \A c \in CatalogueCalls : call'[c] \in {call[c], Ended},
         \A r \in 1..Len(rows) : ValueFits(rows', r),
         \A r \in 1..Len(rows') : r \notin 1..Len(rows) =>
            RefsHold(rows', r) /\ ValueFits(rows', r) /\ Unconfused(rows', r)
  PROVE  CatalogueInv'
<1>1. RowsKept(rows')
  <2>1. rows' \in Seq(RowSet) /\ RowsKept(rows)
    BY DEF Later, CatalogueInv
  <2>2. ASSUME NEW r \in 1..Len(rows) PROVE RefsHold(rows', r) /\ Unconfused(rows', r)
    BY <2>1, RowStands
  <2> QED BY <2>1, <2>2 DEF RowsKept
<1>2. ASSUME NEW c \in CatalogueCalls
      PROVE  /\ call'[c].pc \in {"ready", "looking", "ended"}
             /\ call'[c].pc = "looking" => AskedKept(call'[c], rows')
  <2>1. call[c].pc \in {"ready", "looking", "ended"} /\ (call[c].pc = "looking" => AskedKept(call[c], rows))
    BY DEF CatalogueInv
  <2>2. call[c].pc = "looking" => AskedKept(call[c], rows')
    BY <2>1, CallStands
  <2>3. Ended.pc = "ended"
    BY DEF Ended
  <2>4. call'[c] = call[c] \/ call'[c] = Ended
    OBVIOUS
  <2> QED BY <2>1, <2>2, <2>3, <2>4
<1> QED BY <1>1, <1>2 DEF CatalogueInv

LEMMA BeginKeeps ==
  ASSUME CatalogueInv, NEW c \in CatalogueCalls, NEW kind, NEW t \in Owners, NEW refs \in RefsOf(kind),
         NEW raw \in Raws, NEW key \in Spelt, BeginCall(c, kind, t, refs, raw, key)
  PROVE  CatalogueInv'
<1> DEFINE a == [pc |-> "looking", kind |-> kind, tenant |-> t, refs |-> refs, raw |-> raw, key |-> key,
                 step |-> 1, looked |-> 0, value |-> IF kind = "definition" THEN "FLOAT" ELSE ""]
<1>1. call' = [call EXCEPT ![c] = a] /\ UNCHANGED <<rows, edits, scope>> /\ kind \in Kinds
  BY DEF BeginCall, CatalogueInv
<1>2. rows \in Seq(RowSet) /\ Len(rows) \in Nat /\ Ids = 1..Len(rows)
  BY DEF CatalogueInv, RowsKept, Ids
<1>3. Len(Refers[kind]) \in {0, 1, 2}
  BY <1>1, QueryFacts
<1>4. /\ refs \in Seq(Nat) /\ Len(refs) = Len(Refers[kind])
      /\ \A i \in 1..Len(refs) : refs[i] \in 1..Len(rows) /\ rows[refs[i]].kind = Refers[kind][i]
  <2>1. CASE Len(Refers[kind]) = 0
    <3>1. refs = <<>>
      BY <2>1 DEF RefsOf
    <3> QED BY <2>1, <3>1
  <2>2. CASE Len(Refers[kind]) = 1
    <3>1. PICK r \in Of(Refers[kind][1]) : refs = <<r>>
      BY <2>2 DEF RefsOf
    <3>2. r \in 1..Len(rows) /\ rows[r].kind = Refers[kind][1] /\ r \in Nat
      BY <1>2 DEF Of
    <3> QED BY <2>2, <3>1, <3>2
  <2>3. CASE Len(Refers[kind]) = 2
    <3>1. refs \in Of(Refers[kind][1]) \X Of(Refers[kind][2])
      BY <2>3 DEF RefsOf
    <3>2. PICK r \in Of(Refers[kind][1]), q \in Of(Refers[kind][2]) : refs = <<r, q>>
      BY <3>1
    <3>3. /\ r \in 1..Len(rows) /\ rows[r].kind = Refers[kind][1] /\ r \in Nat
          /\ q \in 1..Len(rows) /\ rows[q].kind = Refers[kind][2] /\ q \in Nat
      BY <1>2 DEF Of
    <3>4. Len(refs) = 2 /\ refs[1] = r /\ refs[2] = q /\ refs \in Seq(Nat)
      BY <3>2, <3>3
    <3>5. \A i \in 1..Len(refs) : i = 1 \/ i = 2
      BY <3>4
    <3> QED BY <2>3, <3>3, <3>4, <3>5
  <2> QED BY <1>3, <2>1, <2>2, <2>3
<1>5. AskedTyped(a)
  <2>1. (IF kind = "definition" THEN "FLOAT" ELSE "") \in Texts
    BY DEF Texts
  <2>2. DOMAIN a = CatalogueFields
    BY DEF CatalogueFields
  <2>3. /\ a.kind = kind /\ a.tenant = t /\ a.refs = refs /\ a.raw = raw /\ a.key = key /\ a.step = 1
        /\ a.looked = 0
    OBVIOUS
  <2>5. a.value \in Texts
    BY <2>1
  <2> HIDE DEF a
  <2>4. a.step \in Nat \ {0} /\ a.looked \in Nat
    BY <2>3
  <2> QED BY <1>1, <1>4, <2>2, <2>3, <2>4, <2>5 DEF AskedTyped
<1>6. RefsFit(a, rows)
  BY <1>4 DEF RefsFit
<1>7. a.looked = 0 /\ a.step = 1 /\ a.pc = "looking"
  OBVIOUS
<1> HIDE DEF a
<1>8. \A what : ~Asked(a, what)
  BY <1>7 DEF Asked
<1>9. AskedKept(a, rows)
  BY <1>5, <1>6, <1>7, <1>8 DEF AskedKept, TenantsMatch, KeyWasFree, ValueWasFit
<1> QED BY <1>1, <1>7, <1>9, AskChange

LEMMA ValidatedText ==
  ASSUME NEW raw \in Raws, NEW type
  PROVE  /\ ValidateType(raw, type) \in Texts
         /\ ValidateType(raw, type) # "none" => ValidateType(raw, type) \in Validators[type]
<1> DEFINE v == Coerced(raw, type)
<1>1. v \in {"int", "float", "bool", "none", raw}
  BY DEF Coerced
<1>2. v \in Texts
  BY <1>1 DEF Raws, Texts, RawValues
<1>3. "none" \in Texts
  BY DEF Texts
<1> HIDE DEF v
<1> QED BY <1>2, <1>3 DEF ValidateType, v

(* One query of a call: what it asked is established. *)
LEMMA QueryKeeps ==
  ASSUME CatalogueInv, NEW c \in CatalogueCalls, Query(c)
  PROVE  CatalogueInv'
<1> DEFINE d == call[c]
           q == Queries[d.kind][d.step]
           Sees(r) == IF d.kind = "value" THEN AnyTenant(r, d.tenant) ELSE Visible(r, d.tenant)
           held == {r \in Ids : rows[r].kind = "value" /\ rows[r].refs = d.refs}
           value == IF q # "value" THEN d.value ELSE ValidateType(d.raw, rows[d.refs[1]].value)
           ok == CASE q = "first" -> Sees(d.refs[1])
                   [] q = "second" -> Sees(d.refs[2])
                   [] q = "key" -> ~KeyTaken(d.kind, d.tenant, d.key, d.refs)
                   [] q = "value" -> value # "none"
                   [] q = "raises" -> FALSE
           looked == CASE q = "key" -> Len(rows)
                       [] q = "value" /\ held # {} -> CHOOSE r \in held : TRUE
                       [] OTHER -> d.looked
           a == [d EXCEPT !.step = d.step + 1, !.value = value, !.looked = looked]
<1>1. /\ UNCHANGED <<rows, edits, scope>> /\ d.pc = "looking" /\ AskedKept(d, rows)
      /\ d.step <= Len(Queries[d.kind])
      /\ call' = [call EXCEPT ![c] = IF ~ok THEN Ended ELSE a]
  BY DEF Query, CatalogueInv
<1>2. AskedTyped(d) /\ Len(rows) \in Nat
  <2>1. rows \in Seq(RowSet)
    BY DEF CatalogueInv, RowsKept
  <2>2. AskedTyped(d)
    BY <1>1, Zenon DEF AskedKept
  <2> QED BY <2>1, <2>2, LenProperties, Zenon
<1>3. CASE ~ok
  <2>1. call' = [call EXCEPT ![c] = Ended] /\ Ended.pc = "ended"
    BY <1>1, <1>3 DEF Ended
  <2> QED BY <1>1, <2>1, AskChange
<1>4. CASE ok
  <2>1. call' = [call EXCEPT ![c] = a]
    BY <1>1, <1>4
  <2>2. /\ DOMAIN a = CatalogueFields /\ a.pc = d.pc /\ a.kind = d.kind /\ a.tenant = d.tenant /\ a.refs = d.refs
        /\ a.raw = d.raw /\ a.key = d.key /\ a.step = d.step + 1 /\ a.value = value /\ a.looked = looked
    BY <1>2 DEF AskedTyped, CatalogueFields
  <2>3. /\ q = "first" => Sees(d.refs[1])
        /\ q = "second" => Sees(d.refs[2])
        /\ q = "key" => ~KeyTaken(d.kind, d.tenant, d.key, d.refs)
        /\ q = "value" => value # "none"
    BY <1>4
  <2>4. /\ q # "value" => value = d.value
        /\ q = "value" => value = ValidateType(d.raw, rows[d.refs[1]].value)
    OBVIOUS
  <2>5. \/ q = "key" /\ looked = Len(rows)
        \/ q # "key" /\ looked = d.looked
        \/ q = "value" /\ looked \in held
    OBVIOUS
  <2> HIDE DEF a, value, looked, ok
  <2>6. d.kind \in Kinds /\ d.step \in Nat \ {0} /\ d.raw \in Raws /\ Len(Queries[d.kind]) \in Nat
        /\ d.looked \in Nat /\ d.value \in Texts
    BY <1>2, QueryFacts DEF AskedTyped
  <2>7. d.step \in 1..Len(Queries[d.kind])
    BY <1>1, <2>6
  <2>8. ASSUME NEW what PROVE Asked(a, what) <=> Asked(d, what) \/ q = what
    BY <2>2, <2>6, <2>7 DEF Asked
  <2>9. held \subseteq 1..Len(rows)
    BY DEF Ids
  <2> HIDE DEF q
  <2>10. AskedTyped(a)
    <3>1. value \in Texts
      BY <2>4, <2>6, ValidatedText
    <3>2. looked \in Nat
      BY <1>2, <2>5, <2>6, <2>9
    <3>3. d.step + 1 \in Nat \ {0}
      BY <2>6
    <3> HIDE DEF d, held
    <3> QED BY <1>2, <2>2, <3>1, <3>2, <3>3 DEF AskedTyped
  <2>11. RefsFit(a, rows)
    BY <1>1, <2>2 DEF AskedKept, RefsFit
  <2>12. TenantsMatch(a, rows)
    <3> SUFFICES ASSUME a.kind # "value" PROVE TenantsMatch(a, rows)
      BY DEF TenantsMatch
    <3>1. /\ q = "first" => rows[d.refs[1]].tenant = d.tenant
          /\ q = "second" => rows[d.refs[2]].tenant = d.tenant
      BY <2>2, <2>3 DEF Visible
    <3>2. /\ Asked(a, "first") <=> Asked(d, "first") \/ q = "first"
          /\ Asked(a, "second") <=> Asked(d, "second") \/ q = "second"
      BY <2>8
    <3>3. TenantsMatch(d, rows) /\ d.kind # "value"
      BY <1>1, <2>2 DEF AskedKept
    <3> HIDE DEF d
    <3> QED BY <2>2, <3>1, <3>2, <3>3 DEF TenantsMatch
  <2>13. KeyWasFree(a, rows)
    <3> SUFFICES ASSUME a.kind # "value", a.looked # 0 PROVE KeyWasFree(a, rows)
      BY DEF KeyWasFree
    <3>1. q # "value"
      BY <2>2, <2>6, <2>7, QueryFacts DEF q
    <3>2. CASE q = "key"
      <4>1. \A r \in 1..Len(rows) : Standing(rows[r]) => ~SameKey(d.kind, d.tenant, d.key, d.refs, r)
        BY <2>3, <3>2 DEF KeyTaken, Standing, Ids
      <4>2. \A r \in 1..Len(rows) : Standing(rows[r]) => ~Confuses(rows[r], d.kind, d.tenant, d.key, d.refs)
        BY <4>1, ConfusesIsSameKey
      <4>3. a.looked = Len(rows)
        BY <2>2, <2>5, <3>1, <3>2
      <4> HIDE DEF d
      <4> QED BY <1>2, <2>2, <4>2, <4>3 DEF KeyWasFree
    <3>3. CASE q # "key"
      <4>1. a.looked = d.looked
        BY <2>2, <2>5, <3>1, <3>3
      <4>2. KeyWasFree(d, rows)
        BY <1>1 DEF AskedKept
      <4> HIDE DEF d
      <4> QED BY <2>2, <4>1, <4>2 DEF KeyWasFree
    <3> QED BY <3>2, <3>3
  <2>14. ValueWasFit(a, rows)
    <3> SUFFICES ASSUME a.kind = "value" PROVE ValueWasFit(a, rows)
      BY DEF ValueWasFit
    <3>1. q # "key"
      BY <2>2, <2>6, <2>7, QueryFacts DEF q
    <3>2. ValueWasFit(d, rows) /\ d.kind = "value"
      BY <1>1, <2>2 DEF AskedKept
    <3>3. Asked(a, "value") => a.value \in Validators[rows[a.refs[1]].value]
      <4>1. CASE q = "value"
        BY <2>2, <2>3, <2>4, <2>6, <4>1, ValidatedText
      <4>2. CASE q # "value"
        <5>1. Asked(a, "value") => Asked(d, "value")
          BY <2>8, <4>2
        <5> HIDE DEF d
        <5> QED BY <2>2, <2>4, <3>2, <4>2, <5>1 DEF ValueWasFit
      <4> QED BY <4>1, <4>2
    <3>4. a.looked # 0 => a.looked \in 1..Len(rows) /\ rows[a.looked].kind = "value" /\ rows[a.looked].refs = a.refs
      <4>1. CASE looked \in held
        BY <2>2, <2>9, <4>1
      <4>2. CASE looked = d.looked
        <5> HIDE DEF d
        <5> QED BY <2>2, <3>2, <4>2 DEF ValueWasFit
      <4> QED BY <2>5, <3>1, <4>1, <4>2
    <3> QED BY <3>3, <3>4 DEF ValueWasFit
  <2>15. AskedKept(a, rows)
    BY <2>10, <2>11, <2>12, <2>13, <2>14 DEF AskedKept
  <2>16. a.pc = "looking"
    BY <1>1, <2>2
  <2> HIDE DEF d, q
  <2> QED BY <1>1, <2>1, <2>15, <2>16, AskChange
<1> QED BY <1>3, <1>4

(* One stored row is written over: a value that fits, a deletion, a rename. *)
LEMMA RowWritten ==
  ASSUME CatalogueInv, NEW r \in 1..Len(rows), NEW row \in RowSet,
         rows' = [rows EXCEPT ![r] = row],
         row.kind = rows[r].kind, row.tenant = rows[r].tenant, row.refs = rows[r].refs,
         row.looked = rows[r].looked, rows[r].kind # "value" => row.value = rows[r].value,
         Standing(row) => Standing(rows[r]) /\ row.key = rows[r].key
  PROVE  /\ Later(rows, rows') /\ Len(rows') = Len(rows)
         /\ \A q \in 1..Len(rows) : rows'[q] = IF q = r THEN row ELSE rows[q]
<1>1. rows \in Seq(RowSet)
  BY DEF CatalogueInv, RowsKept
<1>2. rows' \in Seq(RowSet) /\ Len(rows') = Len(rows)
      /\ \A q \in 1..Len(rows) : rows'[q] = IF q = r THEN row ELSE rows[q]
  BY <1>1
<1>3. ASSUME NEW q \in 1..Len(rows)
      PROVE  /\ rows'[q].kind = rows[q].kind /\ rows'[q].tenant = rows[q].tenant
             /\ rows'[q].refs = rows[q].refs /\ rows'[q].looked = rows[q].looked
             /\ (rows[q].kind # "value" => rows'[q].value = rows[q].value)
             /\ (Standing(rows'[q]) => Standing(rows[q]) /\ rows'[q].key = rows[q].key)
  <2>1. (rows'[q] = row /\ q = r) \/ rows'[q] = rows[q]
    BY <1>2
  <2> QED BY <2>1
<1> QED BY <1>1, <1>2, <1>3 DEF Later

(* The fields of a row. *)
LEMMA RowFields ==
  ASSUME NEW row \in RowSet
  PROVE  /\ row.kind \in Kinds /\ row.tenant \in Owners /\ row.key \in {OldKey, "older", FreshKey}
         /\ row.refs \in Seq(Nat) /\ row.value \in Texts /\ row.live \in BOOLEAN
         /\ row.looked \in Nat /\ row.unasked \in BOOLEAN
BY DEF RowSet

LEMMA DeleteKeeps ==
  ASSUME CatalogueInv, NEW r \in Ids, SoftDelete(r)
  PROVE  CatalogueInv'
<1> DEFINE row == [rows[r] EXCEPT !.live = FALSE]
<1>1. r \in 1..Len(rows) /\ rows[r] \in RowSet /\ Len(rows) \in Nat /\ RowsKept(rows) /\ rows \in Seq(RowSet)
  BY DEF CatalogueInv, RowsKept, Ids
<1>2. row \in RowSet
  BY <1>1 DEF RowSet
<1>3. /\ row.kind = rows[r].kind /\ row.tenant = rows[r].tenant /\ row.refs = rows[r].refs
      /\ row.looked = rows[r].looked /\ row.value = rows[r].value /\ ~row.live
  BY <1>1 DEF RowSet
<1>4. rows' = [rows EXCEPT ![r] = row]
  BY DEF SoftDelete
<1> HIDE DEF row
<1>5. ~Standing(row)
  BY <1>3 DEF Standing
<1>6. /\ Later(rows, rows') /\ Len(rows') = Len(rows)
      /\ \A q \in 1..Len(rows) : rows'[q] = IF q = r THEN row ELSE rows[q]
  BY <1>1, <1>2, <1>3, <1>4, <1>5, RowWritten
<1>7. ASSUME NEW q \in 1..Len(rows) PROVE ValueFits(rows', q)
  <2>1. rows'[q].value = rows[q].value
    BY <1>3, <1>6
  <2> QED BY <1>1, <1>6, <2>1, RowStands
<1>8. edits' \in 0..MaxEdits /\ UNCHANGED <<call, scope>>
  BY CatalogueConstants DEF SoftDelete, CatalogueInv
<1>9. call' = [c \in CatalogueCalls |-> call'[c]] /\ \A c \in CatalogueCalls : call'[c] \in {call[c], Ended}
  BY <1>8 DEF CatalogueInv
<1>10. \A q \in 1..Len(rows') : q \in 1..Len(rows)
  BY <1>6
<1> QED BY <1>6, <1>7, <1>8, <1>9, <1>10, TablesChange

LEMMA RenameKeeps ==
  ASSUME CatalogueInv, NEW r \in Ids, UpdateEntity(r)
  PROVE  CatalogueInv'
<1> DEFINE s == rows[r]
           row == [s EXCEPT !.key = FreshKey, !.unasked = TRUE]
<1>1. r \in 1..Len(rows) /\ s \in RowSet /\ Len(rows) \in Nat /\ RowsKept(rows) /\ rows \in Seq(RowSet)
  BY DEF CatalogueInv, RowsKept, Ids
<1>2. /\ row.kind = s.kind /\ row.tenant = s.tenant /\ row.refs = s.refs
      /\ row.looked = s.looked /\ row.value = s.value /\ row.unasked /\ row.key = FreshKey /\ row.live = s.live
  BY <1>1 DEF RowSet
<1>3. [s EXCEPT !.key = FreshKey] \in RowSet
  BY <1>1 DEF RowSet
<1>4. row \in RowSet
  <2> DEFINE half == [s EXCEPT !.key = FreshKey]
  <2>1. row = [half EXCEPT !.unasked = TRUE]
    OBVIOUS
  <2>2. half \in RowSet
    BY <1>3
  <2> HIDE DEF half, row
  <2> QED BY <2>1, <2>2 DEF RowSet
<1>5. rows' = [rows EXCEPT ![r] = row]
  BY DEF UpdateEntity
<1> HIDE DEF row
<1>6. ~Standing(row)
  BY <1>2 DEF Standing
<1>7. /\ Later(rows, rows') /\ Len(rows') = Len(rows)
      /\ \A q \in 1..Len(rows) : rows'[q] = IF q = r THEN row ELSE rows[q]
  BY <1>1, <1>2, <1>4, <1>5, <1>6, RowWritten
<1>8. ASSUME NEW q \in 1..Len(rows) PROVE ValueFits(rows', q)
  <2>1. rows'[q].value = rows[q].value
    BY <1>2, <1>7
  <2> QED BY <1>1, <1>7, <2>1, RowStands
<1>9. edits' \in 0..MaxEdits /\ UNCHANGED <<call, scope>>
  BY CatalogueConstants DEF UpdateEntity, CatalogueInv
<1>10. call' = [c \in CatalogueCalls |-> call'[c]] /\ \A c \in CatalogueCalls : call'[c] \in {call[c], Ended}
  BY <1>9 DEF CatalogueInv
<1>11. \A q \in 1..Len(rows') : q \in 1..Len(rows)
  BY <1>7
<1> QED BY <1>7, <1>8, <1>9, <1>10, <1>11, TablesChange

(* The write of a call whose queries have all answered. *)
LEMMA WriteKeeps ==
  ASSUME CatalogueInv, NEW c \in CatalogueCalls, Write(c)
  PROVE  CatalogueInv'
<1> DEFINE d == call[c]
           key == Strip(d.key)
           refused == ConstraintRefuses(d.kind, d.tenant, key, d.refs)
           new == Row(d.kind, d.tenant, key, d.refs, d.value, d.looked, key # d.key)
<1>1. /\ d.pc = "looking" /\ d.step > Len(Queries[d.kind]) /\ AskedKept(d, rows)
      /\ UNCHANGED <<edits, scope>> /\ call' = [call EXCEPT ![c] = Ended]
  BY DEF Write, CatalogueInv
<1>2. \/ d.kind = "value" /\ d.looked # 0 /\ rows' = [rows EXCEPT ![d.looked].value = d.value]
      \/ rows' = rows
      \/ (d.kind # "value" \/ d.looked = 0) /\ rows' = Append(rows, new)
  BY DEF Write
<1>3. /\ RowsKept(rows) /\ rows \in Seq(RowSet) /\ Len(rows) \in Nat /\ edits' \in 0..MaxEdits
      /\ call' = [b \in CatalogueCalls |-> call'[b]]
      /\ \A b \in CatalogueCalls : call'[b] \in {call[b], Ended}
  <2>1. \A b \in CatalogueCalls : call'[b] = IF b = c THEN Ended ELSE call[b]
    BY <1>1 DEF CatalogueInv
  <2> QED BY <1>1, <2>1 DEF CatalogueInv, RowsKept
<1> HIDE DEF refused, new, key
<1>4. /\ d.kind \in Kinds /\ d.tenant \in Owners /\ d.refs \in Seq(Nat) /\ d.key \in Spelt
      /\ d.looked \in Nat /\ d.value \in Texts /\ d.step \in Nat
  BY <1>1 DEF AskedKept, AskedTyped
<1>5. RefsFit(d, rows) /\ TenantsMatch(d, rows) /\ KeyWasFree(d, rows) /\ ValueWasFit(d, rows)
  BY <1>1 DEF AskedKept
<1>6. ASSUME NEW what, \E m \in 1..Len(Queries[d.kind]) : Queries[d.kind][m] = what
      PROVE  Asked(d, what)
  <2>1. Len(Queries[d.kind]) \in Nat
    BY <1>4, QueryFacts
  <2> QED BY <1>1, <1>4, <1>6, <2>1 DEF Asked
<1> HIDE DEF d
<1>7. d.kind = "value" => /\ Len(d.refs) = 2 /\ d.refs[1] \in 1..Len(rows)
                          /\ rows[d.refs[1]].kind = "definition"
                          /\ d.value \in Validators[rows[d.refs[1]].value]
  <2> SUFFICES ASSUME d.kind = "value"
               PROVE  /\ Len(d.refs) = 2 /\ d.refs[1] \in 1..Len(rows)
                      /\ rows[d.refs[1]].kind = "definition"
                      /\ d.value \in Validators[rows[d.refs[1]].value]
    OBVIOUS
  <2>1. Refers[d.kind] = <<"definition", "entity">>
        /\ \E m \in 1..Len(Queries[d.kind]) : Queries[d.kind][m] = "value"
    BY <1>4, QueryFacts
  <2>2. Asked(d, "value")
    BY <1>6, <2>1
  <2>3. Len(d.refs) = 2 /\ 1 \in 1..Len(d.refs) /\ Refers[d.kind][1] = "definition"
    BY <1>5, <2>1 DEF RefsFit
  <2>4. d.refs[1] \in 1..Len(rows) /\ rows[d.refs[1]].kind = "definition"
    BY <1>5, <2>3 DEF RefsFit
  <2> QED BY <1>5, <2>2, <2>3, <2>4 DEF ValueWasFit
<1>8. CASE d.kind = "value" /\ d.looked # 0 /\ rows' = [rows EXCEPT ![d.looked].value = d.value]
  <2> DEFINE row == [rows[d.looked] EXCEPT !.value = d.value]
  <2>1. d.looked \in 1..Len(rows) /\ rows[d.looked].kind = "value" /\ rows[d.looked].refs = d.refs
    BY <1>5, <1>8 DEF ValueWasFit
  <2>2. rows[d.looked] \in RowSet
    BY <1>3, <2>1
  <2>3. row \in RowSet
    BY <1>4, <2>2 DEF RowSet
  <2>4. /\ row.kind = rows[d.looked].kind /\ row.tenant = rows[d.looked].tenant
        /\ row.refs = rows[d.looked].refs /\ row.looked = rows[d.looked].looked
        /\ row.live = rows[d.looked].live /\ row.unasked = rows[d.looked].unasked
        /\ row.key = rows[d.looked].key /\ row.value = d.value
    BY <2>2 DEF RowSet
  <2>5. rows' = [rows EXCEPT ![d.looked] = row]
    BY <1>8
  <2> HIDE DEF row
  <2>6. Standing(row) => Standing(rows[d.looked])
    BY <2>4 DEF Standing
  <2>7. /\ Later(rows, rows') /\ Len(rows') = Len(rows)
        /\ \A q \in 1..Len(rows) : rows'[q] = IF q = d.looked THEN row ELSE rows[q]
    BY <2>1, <2>3, <2>4, <2>5, <2>6, RowWritten
  <2>8. ASSUME NEW q \in 1..Len(rows) PROVE ValueFits(rows', q)
    <3>1. CASE q # d.looked
      <4>1. rows'[q].value = rows[q].value
        BY <2>7, <3>1
      <4> QED BY <1>3, <2>7, <4>1, RowStands
    <3>2. CASE q = d.looked
      <4>1. rows'[q] = row /\ row.refs = d.refs /\ row.value = d.value
        BY <2>1, <2>4, <2>7, <3>2
      <4>2. rows'[d.refs[1]].kind = "definition" /\ rows'[d.refs[1]].value = rows[d.refs[1]].value
        BY <1>7, <1>8, <2>7 DEF Later
      <4> QED BY <1>7, <1>8, <4>1, <4>2 DEF ValueFits
    <3> QED BY <3>1, <3>2
  <2>9. \A q \in 1..Len(rows') : q \in 1..Len(rows)
    BY <2>7
  <2> QED BY <1>1, <1>3, <2>7, <2>8, <2>9, TablesChange
<1>9. CASE rows' = rows
  <2>1. Later(rows, rows')
    BY <1>3, <1>9 DEF Later
  <2>2. \A r \in 1..Len(rows) : ValueFits(rows', r)
    BY <1>3, <1>9 DEF RowsKept
  <2>3. \A q \in 1..Len(rows') : q \in 1..Len(rows)
    BY <1>9
  <2> QED BY <1>1, <1>3, <2>1, <2>2, <2>3, TablesChange
<1>10. CASE rows' = Append(rows, new)
  <2>1. /\ new.kind = d.kind /\ new.tenant = d.tenant /\ new.key = key /\ new.refs = d.refs
        /\ new.value = d.value /\ new.looked = d.looked /\ (~new.unasked => key = d.key)
    BY DEF new, Row
  <2>2. new \in RowSet
    <3>1. key \in {OldKey, "older", FreshKey}
      BY <1>4 DEF key, Strip, Spelt
    <3>2. new = [kind |-> d.kind, tenant |-> d.tenant, key |-> key, refs |-> d.refs, value |-> d.value,
                 live |-> TRUE, looked |-> d.looked, unasked |-> (key # d.key)]
      BY DEF new, Row
    <3> QED BY <1>4, <3>1, <3>2 DEF RowSet
  <2>3. /\ rows' \in Seq(RowSet) /\ Len(rows') = Len(rows) + 1 /\ rows'[Len(rows) + 1] = new
        /\ \A r \in 1..Len(rows) : rows'[r] = rows[r]
    BY <1>3, <1>10, <2>2
  <2>4. Later(rows, rows')
    BY <1>3, <2>3 DEF Later
  <2>5. \A r \in 1..Len(rows) : ValueFits(rows', r)
    BY <1>3, <2>3, <2>4, RowStands
  <2> DEFINE last == Len(rows) + 1
  <2>6. RefsHold(rows', last)
    <3>1. last \in Nat /\ Len(d.refs) = Len(Refers[d.kind]) /\ Len(d.refs) \in {0, 1, 2}
      BY <1>3, <1>4, <1>5, QueryFacts DEF RefsFit
    <3>2. ASSUME NEW i \in 1..Len(d.refs)
          PROVE  /\ d.refs[i] \in 1..Len(rows)
                 /\ d.kind # "value" => rows[d.refs[i]].tenant = d.tenant
      <4>1. d.refs[i] \in 1..Len(rows)
        BY <1>5 DEF RefsFit
      <4>2. CASE i = 1
        <5>1. Len(d.refs) >= 1
          BY <3>1, <4>2
        <5>2. Asked(d, "first")
          BY <1>4, <1>6, <3>1, <5>1, QueryFacts
        <5> QED BY <1>5, <4>1, <4>2, <5>1, <5>2 DEF TenantsMatch
      <4>3. CASE i = 2
        <5>1. Len(d.refs) >= 2
          BY <3>1, <4>3
        <5>2. Asked(d, "second")
          BY <1>4, <1>6, <3>1, <5>1, QueryFacts
        <5> QED BY <1>5, <4>1, <4>3, <5>1, <5>2 DEF TenantsMatch
      <4> QED BY <3>1, <4>2, <4>3
    <3>3. rows'[last].refs = d.refs /\ rows'[last].kind = d.kind /\ rows'[last].tenant = d.tenant
      BY <2>1, <2>3
    <3>4. 1..Len(rows) \subseteq 1..Len(rows')
      BY <1>3, <2>3
    <3> HIDE DEF last
    <3> QED BY <2>3, <3>2, <3>3, <3>4 DEF RefsHold
  <2>7. ValueFits(rows', last)
    <3>1. rows'[last].refs = d.refs /\ rows'[last].kind = d.kind /\ rows'[last].value = d.value
      BY <2>1, <2>3
    <3> HIDE DEF last
    <3> QED BY <1>7, <2>3, <3>1 DEF ValueFits
  <2>8. Unconfused(rows', last)
    <3> SUFFICES ASSUME NEW i \in 1..(last - 1), Standing(rows'[i]), Standing(rows'[last]),
                        rows'[last].kind # "value", rows'[last].looked # 0,
                        Confuses(rows'[i], rows'[last].kind, rows'[last].tenant, rows'[last].key, rows'[last].refs)
                 PROVE  i > rows'[last].looked
      BY DEF Unconfused
    <3>1. i \in 1..Len(rows) /\ rows'[i] = rows[i] /\ i \in Nat
      BY <1>3, <2>3
    <3>2. key = d.key
      BY <2>1, <2>3 DEF Standing
    <3>3. /\ d.kind # "value" /\ d.looked # 0
          /\ Confuses(rows[i], d.kind, d.tenant, d.key, d.refs) /\ Standing(rows[i])
      BY <2>1, <2>3, <3>1, <3>2
    <3>4. ~(i \in 1..d.looked)
      BY <1>5, <3>3 DEF KeyWasFree
    <3>5. i > d.looked
      BY <1>4, <3>1, <3>4
    <3> QED BY <2>1, <2>3, <3>5
  <2>9. \A r \in 1..Len(rows') : r \in 1..Len(rows) \/ r = last
    BY <1>3, <2>3
  <2> HIDE DEF last
  <2>10. \A r \in 1..Len(rows') : r \notin 1..Len(rows) =>
             RefsHold(rows', r) /\ ValueFits(rows', r) /\ Unconfused(rows', r)
    BY <2>6, <2>7, <2>8, <2>9
  <2> QED BY <1>1, <1>3, <2>4, <2>5, <2>10, TablesChange
<1> QED BY <1>2, <1>8, <1>9, <1>10

LEMMA CatalogueKeeps == CatalogueInv /\ (CatalogueNext \/ UNCHANGED catalogueVars) => CatalogueInv'
<1> SUFFICES ASSUME CatalogueInv, CatalogueNext \/ UNCHANGED catalogueVars PROVE CatalogueInv'
  OBVIOUS
<1>1. CASE UNCHANGED catalogueVars
  BY <1>1 DEF catalogueVars, CatalogueInv
<1>2. ASSUME NEW c \in CatalogueCalls, NEW kind \in scope \ {"value"}, NEW t \in Owners,
             NEW refs \in RefsOf(kind), NEW key \in Spelt, BeginCall(c, kind, t, refs, "", key)
      PROVE  CatalogueInv'
  <2>1. "" \in Raws
    BY DEF Raws
  <2> QED BY <1>2, <2>1, BeginKeeps
<1>3. ASSUME NEW c \in CatalogueCalls, NEW refs \in RefsOf("value"), NEW raw \in RawValues,
             BeginCall(c, "value", System, refs, raw, FreshKey)
      PROVE  CatalogueInv'
  <2>1. raw \in Raws /\ System \in Owners /\ FreshKey \in Spelt
    BY DEF Raws, Owners, Spelt
  <2> QED BY <1>3, <2>1, BeginKeeps
<1>4. ASSUME NEW c \in CatalogueCalls, Query(c) \/ Write(c) PROVE CatalogueInv'
  BY <1>4, QueryKeeps, WriteKeeps
<1>5. ASSUME NEW r \in Ids, NEW t, \/ DeleteEntity(r, t) \/ DeleteRelationship(r, t)
             \/ DeleteDataSource(r, t) \/ DeleteDevice(r, t) \/ DeleteDataPoint(r, t)
      PROVE  CatalogueInv'
  BY <1>5, DeleteKeeps DEF DeleteEntity, DeleteRelationship, DeleteDataSource, DeleteDevice, DeleteDataPoint
<1>6. ASSUME NEW r \in Ids, DeleteAsset(r) \/ DeleteDefinition(r) \/ DeleteBinding(r) \/ UpdateEntity(r)
      PROVE  CatalogueInv'
  BY <1>6, DeleteKeeps, RenameKeeps DEF DeleteAsset, DeleteDefinition, DeleteBinding
<1> QED BY <1>1, <1>2, <1>3, <1>4, <1>5, <1>6 DEF CatalogueNext, Owners, Spelt

LEMMA CatalogueHolds ==
  CatalogueInv => CatalogueTypeOK /\ RefsStayInTenant /\ NoTwinsInSequence /\ ValuesFitDefinition
<1> SUFFICES ASSUME CatalogueInv
             PROVE  CatalogueTypeOK /\ RefsStayInTenant /\ NoTwinsInSequence /\ ValuesFitDefinition
  OBVIOUS
<1>1. rows \in Seq(RowSet) /\ Len(rows) \in Nat /\ Ids = 1..Len(rows)
  BY DEF CatalogueInv, RowsKept, Ids
<1>2. \A r \in Ids : rows[r] \in RowSet
  BY <1>1
<1>3. \A r \in Ids : RefsHold(rows, r) /\ ValueFits(rows, r) /\ Unconfused(rows, r)
  BY <1>1 DEF CatalogueInv, RowsKept
<1>4. CatalogueTypeOK
  <2>1. \A r \in Ids : rows[r].kind \in Kinds /\ rows[r].tenant \in Tenants \cup {System}
    BY <1>2, RowFields DEF Owners
  <2> QED BY <2>1 DEF CatalogueTypeOK, CatalogueInv
<1>5. RefsStayInTenant
  <2> SUFFICES ASSUME NEW r \in Ids, rows[r].kind # "value", NEW i \in DOMAIN rows[r].refs
               PROVE  rows[rows[r].refs[i]].tenant = rows[r].tenant
    BY DEF RefsStayInTenant
  <2>1. rows[r].refs \in Seq(Nat)
    BY <1>2, RowFields
  <2>2. i \in 1..Len(rows[r].refs)
    BY <2>1
  <2> QED BY <1>3, <2>2 DEF RefsHold
<1>6. NoTwinsInSequence
  <2> SUFFICES ASSUME NEW i \in Ids, NEW j \in Ids, i < j, Standing(rows[i]), Standing(rows[j]),
                      NEW n \in DOMAIN Queries[rows[j].kind], Queries[rows[j].kind][n] = "key",
                      rows[j].looked # 0,
                      SameKey(rows[j].kind, rows[j].tenant, rows[j].key, rows[j].refs, i)
               PROVE  i > rows[j].looked
    BY DEF NoTwinsInSequence, Standing
  <2>1. rows[j].kind \in Kinds
    BY <1>2, RowFields
  <2>2. rows[j].kind # "value"
    <3>1. ASSUME rows[j].kind = "value" PROVE FALSE
      <4>1. Queries["value"] = <<"first", "second", "value">>
        BY DEF Queries, SetProperty
      <4> QED BY <3>1, <4>1
    <3> QED BY <3>1
  <2>3. Confuses(rows[i], rows[j].kind, rows[j].tenant, rows[j].key, rows[j].refs)
    BY ConfusesIsSameKey
  <2>4. i \in 1..(j - 1)
    BY <1>1
  <2>5. Unconfused(rows, j)
    BY <1>3
  <2> QED BY <2>2, <2>3, <2>4, <2>5 DEF Unconfused
<1>7. ValuesFitDefinition
  BY <1>3 DEF ValuesFitDefinition, ValueFits
<1> QED BY <1>4, <1>5, <1>6, <1>7

(* Tenants are kept apart: stored rows refer to rows of their own tenant,  *)
(* keys are doubled only by overlapping calls, values fit their            *)
(* definitions, and sessions and answers are for those who earned them,    *)
(* for any number of tenants, users, calls and edits.                      *)
THEOREM TenantsGuarded == Spec => []TenantsAreGuarded
<1>1. Init => CatalogueInv /\ AccountInv
  BY CatalogueStart, AccountStart DEF Init
<1>2. CatalogueInv /\ AccountInv /\ [Next]_vars => (CatalogueInv /\ AccountInv)'
  BY PartSteps, CatalogueKeeps, AccountKeeps
<1>3. CatalogueInv /\ AccountInv => TenantsAreGuarded
  BY CatalogueHolds, AccountHolds DEF TenantsAreGuarded
<1> QED BY <1>1, <1>2, <1>3, PTL DEF Spec
=============================================================================
