--------------------------- MODULE CompositeAssets ---------------------------
(***************************************************************************)
(* What assets are made of and what shows them.  First composite assets    *)
(* (services/core/src/asset/composite/engine.py): a composite lists child  *)
(* assets with weights; KPIs are aggregated over the children that report  *)
(* a value, capabilities are inherited last child wins, and the hierarchy  *)
(* below the children is checked for cycles.                               *)
(***************************************************************************)
EXTENDS Integers, FiniteSetsExt, DepthFirstSearch

CONSTANTS
    Children,           \* child asset ids
    Trees,              \* composition trees: sequences of [ref, depth, weight]
    MAX_TREE_DEPTH, MAX_GRAPH_EDGES,
    Values,             \* what a child reports for the KPI; NoValue for None
    NoValue,
    Capabilities,
    CapabilityLists,    \* what a child offers: sequences over Capabilities
    Below               \* asset_children: the hierarchies of the run

ASSUME CompositeConstants ==
    /\ Values \subseteq Int /\ NoValue \notin Values
    /\ MAX_TREE_DEPTH \in Nat /\ MAX_GRAPH_EDGES \in Nat
    /\ Trees \subseteq Seq([ref : Children, depth : Nat, weight : Nat])
    /\ CapabilityLists \subseteq Seq(Capabilities)
    /\ Below \subseteq [Children -> SUBSET Children]

VARIABLES
    composite,      \* the stored composite's composition_tree; NoAnswerYet before create
    aggregate,      \* answer of compute_aggregation with the child values it was given
    inheritance,    \* answer of compute_capability_inheritance with the child capabilities
    acyclic         \* the search of validate_tree_acyclic with the hierarchy

compositeVars == <<composite, aggregate, inheritance, acyclic>>

NoAnswerYet == [absent |-> TRUE]

CompositeInit == composite = NoAnswerYet /\ aggregate = NoAnswerYet /\ inheritance = NoAnswerYet /\ acyclic = NoAnswerYet

CreateComposite(tree) ==
    /\ composite = NoAnswerYet
    /\ \A i \in DOMAIN tree : tree[i].depth <= MAX_TREE_DEPTH
    /\ Len(tree) <= MAX_GRAPH_EDGES
    /\ composite' = [absent |-> FALSE, tree |-> tree]
    /\ UNCHANGED <<aggregate, inheritance, acyclic>>

\* What the comprehensions of compute_aggregation have of the children so far.
NothingReported == [values |-> {}, count |-> 0, sum |-> 0, latest |-> 0, weight |-> 0, weighted |-> 0]

\* They skip a child without a value (None).
Report(so_far, node, value) ==
    IF value = NoValue THEN so_far
    ELSE [values |-> so_far.values \cup {value}, count |-> so_far.count + 1, sum |-> so_far.sum + value,
          latest |-> value, weight |-> so_far.weight + node.weight,
          weighted |-> so_far.weighted + value * node.weight]

Reported(tree, value) ==
    LET after[i \in 0..Len(tree)] ==
          IF i = 0 THEN NothingReported ELSE Report(after[i - 1], tree[i], value[tree[i].ref])
    IN  after[Len(tree)]

\* Averages are kept as a numerator and a denominator.
ComputeAggregation(value) ==
    /\ ~composite.absent /\ aggregate = NoAnswerYet
    /\ LET of == Reported(composite.tree, value)
       IN  aggregate' = [absent |-> FALSE, values |-> of.values, count |-> of.count, sum |-> of.sum,
                         avg |-> IF of.count = 0 THEN <<0, 1>> ELSE <<of.sum, of.count>>,
                         min |-> IF of.count = 0 THEN 0 ELSE Min(of.values),
                         max |-> IF of.count = 0 THEN 0 ELSE Max(of.values),
                         latest |-> of.latest,
                         weighted |-> IF of.weight > 0 THEN <<of.weighted, of.weight>> ELSE <<0, 1>>]
    /\ UNCHANGED <<composite, inheritance, acyclic>>

\* inherited and conflicts, once a child (source) has offered a capability.
Inherit(so_far, code, source) ==
    [inherited |-> [c \in DOMAIN so_far.inherited \cup {code} |->
                      IF c = code THEN source ELSE so_far.inherited[c]],
     conflicts |-> IF code \in DOMAIN so_far.inherited
                   THEN Append(so_far.conflicts, <<code, so_far.inherited[code], source>>)
                   ELSE so_far.conflicts]

\* The inner loop, over what one child offers, and the outer one, over the tree.
InheritAll(so_far, offers, source) ==
    LET after[j \in 0..Len(offers)] ==
          IF j = 0 THEN so_far ELSE Inherit(after[j - 1], offers[j], source)
    IN  after[Len(offers)]

NothingInherited == [inherited |-> [c \in {} |-> ""], conflicts |-> <<>>]

Inherited(tree, caps) ==
    LET after[i \in 0..Len(tree)] ==
          IF i = 0 THEN NothingInherited
          ELSE InheritAll(after[i - 1], caps[tree[i].ref], tree[i].ref)
    IN  after[Len(tree)]

ComputeInheritance(caps) ==
    /\ ~composite.absent /\ inheritance = NoAnswerYet
    /\ inheritance' = [absent |-> FALSE, caps |-> caps, answer |-> Inherited(composite.tree, caps)]
    /\ UNCHANGED <<composite, aggregate, acyclic>>

Refs(tree) == {tree[i].ref : i \in DOMAIN tree}

ValidateTreeAcyclic(below) ==
    /\ ~composite.absent /\ acyclic = NoAnswerYet
    /\ acyclic' = [absent |-> FALSE, below |-> below, search |-> NewSearch(Children)]
    /\ UNCHANGED <<composite, aggregate, inheritance>>

\* One turn of the search; the call returns ~search.cycle once it is over.
HasCycle ==
    /\ ~acyclic.absent
    /\ \E next \in SearchSteps(acyclic.search, Refs(composite.tree), acyclic.below) :
          acyclic' = [acyclic EXCEPT !.search = next]
    /\ UNCHANGED <<composite, aggregate, inheritance>>

\* The three questions are asked of a composite one at a time.
Unasked == aggregate = NoAnswerYet /\ inheritance = NoAnswerYet /\ acyclic = NoAnswerYet

CompositeNext ==
    \/ \E tree \in Trees : CreateComposite(tree)
    \/ Unasked /\ \E value \in [Children -> Values \cup {NoValue}] : ComputeAggregation(value)
    \/ Unasked /\ \E caps \in [Children -> CapabilityLists] : ComputeInheritance(caps)
    \/ Unasked /\ \E below \in Below : ValidateTreeAcyclic(below)
    \/ HasCycle
-----------------------------------------------------------------------------
CompositeTypeOK ==
    ~composite.absent => composite.tree \in Seq([ref : Children, depth : Nat, weight : Nat])

\* Over the children that report a value both averages lie between the smallest
\* and the largest of the values, and so does the latest: children that report
\* nothing must not pull an average down.
AveragesLieBetween ==
    ~aggregate.absent /\ aggregate.values # {} =>
        /\ aggregate.min * aggregate.avg[2] <= aggregate.avg[1]
        /\ aggregate.avg[1] <= aggregate.max * aggregate.avg[2]
        /\ aggregate.latest \in aggregate.values
        /\ aggregate.weighted # <<0, 1>> =>
              /\ aggregate.min * aggregate.weighted[2] <= aggregate.weighted[1]
              /\ aggregate.weighted[1] <= aggregate.max * aggregate.weighted[2]

Offers(tree, caps, i, code) == i \in DOMAIN tree /\ code \in Range(caps[tree[i].ref])

\* How many offers the loops meet.
NumberOfOffers(tree, caps) ==
    LET upto[i \in 0..Len(tree)] == IF i = 0 THEN 0 ELSE upto[i - 1] + Len(caps[tree[i].ref])
    IN  upto[Len(tree)]

\* Each inherited capability comes from the last child of the tree that offers
\* it, and every offer is either the first of its code or reported as a conflict.
LastChildWins ==
    ~inheritance.absent =>
        LET tree == composite.tree
            caps == inheritance.caps
            got == inheritance.answer
        IN  /\ \A i \in DOMAIN tree : Range(caps[tree[i].ref]) \subseteq DOMAIN got.inherited
            /\ \A c \in DOMAIN got.inherited :
                  \E i \in DOMAIN tree :
                     /\ Offers(tree, caps, i, c) /\ got.inherited[c] = tree[i].ref
                     /\ \A k \in DOMAIN tree : Offers(tree, caps, k, c) => k <= i
            /\ Len(got.conflicts) + Cardinality(DOMAIN got.inherited) = NumberOfOffers(tree, caps)

\* The least set that holds the composite's children and whatever is below a
\* member.
ReachableBelow(below, tree) ==
    {a \in Children : \A T \in SUBSET Children :
        Refs(tree) \subseteq T /\ (\A b \in T : below[b] \subseteq T) => a \in T}

\* validate_tree_acyclic refuses exactly the hierarchies in which some assets
\* below the composite's children contain each other.
AcyclicCheckExact ==
    ~acyclic.absent /\ SearchOver(acyclic.search, Refs(composite.tree)) =>
        acyclic.search.cycle = \E S \in (SUBSET ReachableBelow(acyclic.below, composite.tree)) \ {{}} :
            \A a \in S : acyclic.below[a] \cap S # {}
-----------------------------------------------------------------------------
(***************************************************************************)
(* Bindings between assets and model objects                               *)
(* (services/twin/src/binding/service.py).  Two dictionaries are kept: the *)
(* bindings by id and, for each asset, the list of its bindings' ids; the  *)
(* deletion of a model object only empties the binding's asset_id.         *)
(***************************************************************************)
CONSTANTS
    BoundAssets,    \* asset ids
    Bindings        \* binding ids, handed out by uuid4 and never reused

VARIABLES
    bindings,       \* _bindings: the asset_id of each stored binding
    by_asset,       \* _by_asset: the ids listed for each asset (an id is listed once)
    issued          \* binding ids handed out so far

bindingVars == <<bindings, by_asset, issued>>

Absent == "absent"
Nullified == ""

BindingInit ==
    /\ bindings = [b \in Bindings |-> Absent]
    /\ by_asset = [a \in BoundAssets |-> {}]
    /\ issued = {}

\* setdefault(asset_id, []).append(binding_id)
Listed(a, b) == [by_asset EXCEPT ![a] = @ \cup {b}]

CreateBinding(a, b) ==
    /\ b \notin issued
    /\ issued' = issued \cup {b}
    /\ bindings' = [bindings EXCEPT ![b] = a]
    /\ by_asset' = Listed(a, b)

Nullify(b) ==
    /\ bindings[b] # Absent
    /\ bindings' = [bindings EXCEPT ![b] = Nullified]
    /\ UNCHANGED <<by_asset, issued>>

\* The list of the empty asset id holds nothing, so a nullified binding's id
\* stays where it is.
DeleteBinding(b) ==
    /\ bindings[b] # Absent
    /\ by_asset' = IF bindings[b] = Nullified THEN by_asset
                   ELSE [by_asset EXCEPT ![bindings[b]] = @ \ {b}]
    /\ bindings' = [bindings EXCEPT ![b] = Absent]
    /\ UNCHANGED issued

DeleteByAsset(a) ==
    /\ bindings' = [b \in Bindings |-> IF b \in by_asset[a] THEN Absent ELSE bindings[b]]
    /\ by_asset' = [by_asset EXCEPT ![a] = {}]
    /\ UNCHANGED issued

ListByAsset(a) == {b \in by_asset[a] : bindings[b] # Absent}

BindingNext ==
    \/ \E a \in BoundAssets : DeleteByAsset(a) \/ \E b \in Bindings : CreateBinding(a, b)
    \/ \E b \in Bindings : Nullify(b) \/ DeleteBinding(b)
-----------------------------------------------------------------------------
BindingTypeOK ==
    /\ bindings \in [Bindings -> BoundAssets \cup {Absent, Nullified}]
    /\ \A a \in BoundAssets : by_asset[a] \subseteq issued

\* The two dictionaries agree: list_by_asset shows every stored binding under
\* exactly one asset, its own unless its model object was deleted, so deleting
\* that asset leaves no binding behind that nobody can find any more.
BindingsAreListedOnce ==
    \A b \in Bindings : bindings[b] # Absent =>
        /\ Cardinality({a \in BoundAssets : b \in ListByAsset(a)}) = 1
        /\ bindings[b] # Nullified => b \in ListByAsset(bindings[b])
=============================================================================
