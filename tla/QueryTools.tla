----------------------------- MODULE QueryTools -----------------------------
(***************************************************************************)
(* The agent's read-only tools: walking the assets, searching the ontology *)
(* and paging through telemetry.  Each talks to another service by HTTP.   *)
(***************************************************************************)
EXTENDS SequencesExt, Integers

-----------------------------------------------------------------------------
(***************************************************************************)
(* AssetLookupTool (services/ai/agent/tools/asset_lookup.py): a lookup by  *)
(* asset id may walk the children of the asset, depth first, with one      *)
(* request per child.  The tool object of a tenant is shared by its        *)
(* agents: the set of visited assets is a field of the tool, every lookup  *)
(* clears it when it starts, and lookups interleave at every request.  The *)
(* asset service is external: it knows the children of every asset, which  *)
(* may form cycles, and any request to it may fail.                        *)
(***************************************************************************)

CONSTANTS
    Lookups,                \* calls of execute with include_children
    Assets,
    Hierarchies,            \* external: the functions asset -> sequence of child ids
    TreeDepths,             \* tree_depth asked for
    MAX_CHILDREN            \* children walked per asset, 10 in the code

ASSUME AssetConstants ==
    Hierarchies \subseteq [Assets -> Seq(Assets)] /\ TreeDepths \subseteq Nat /\ MAX_CHILDREN \in Nat

VARIABLES
    children,               \* external: the hierarchy of this behaviour
    visited,                \* _visited_assets
    lookup                  \* per lookup: its frames and its answer

assetVars == <<children, visited, lookup>>

\* A frame is one activation of _traverse_children: the asset, its children_ids
\* (appended to while walked), the slice that is walked and the next index.
Frame(a, ids) == [asset |-> a, ids |-> ids, slice |-> <<>>, next |-> 0]

IdleLookup == [pc |-> "idle", depth |-> 0, frames |-> <<>>, expanded |-> <<>>, alone |-> TRUE, answer |-> <<>>]

AssetInit ==
    /\ children \in Hierarchies
    /\ visited = {}
    /\ lookup = [l \in Lookups |-> IdleLookup]

Walking(l) == lookup[l].pc = "walk"
Top(l) == Last(lookup[l].frames)

\* execute: the visited set is cleared although another lookup may be walking;
\* then the first request is made, for an asset, an entity or a search.
ExecuteLookup(l, kind, depth) ==
    /\ lookup[l].pc = "idle"
    /\ visited' = {}
    /\ lookup' = [m \in Lookups |->
          IF m = l THEN [IdleLookup EXCEPT !.pc = kind, !.depth = depth,
                            !.alone = \A n \in Lookups : lookup[n].pc \in {"idle", "done"}]
          ELSE IF lookup[m].pc = "idle" THEN lookup[m] ELSE [lookup[m] EXCEPT !.alone = FALSE]]
    /\ UNCHANGED children

\* _lookup_by_asset_id; a failed request is an error answer (here: no children).
LookupByAssetId(l, root) ==
    /\ lookup[l].pc = "asset"
    /\ \/ lookup' = [lookup EXCEPT ![l].pc = "walk", ![l].frames = <<Frame(root, children[root])>>]
       \/ lookup' = [lookup EXCEPT ![l].pc = "done"]
    /\ UNCHANGED <<children, visited>>

\* _lookup_by_entity_id: the entity, then its asset; nothing is walked.
LookupByEntityId(l) ==
    /\ lookup[l].pc \in {"entity", "entity_asset"}
    /\ \/ lookup[l].pc = "entity" /\ lookup' = [lookup EXCEPT ![l].pc = "entity_asset"]
       \/ lookup' = [lookup EXCEPT ![l].pc = "done"]
    /\ UNCHANGED <<children, visited>>

\* _search_assets and get_asset_hierarchy: one request.
SearchAssets(l) ==
    /\ lookup[l].pc = "search"
    /\ lookup' = [lookup EXCEPT ![l].pc = "done"]
    /\ UNCHANGED <<children, visited>>

\* The children walked: a slice, copied before the loop.
ChildIds(l) == SubSeq(Top(l).ids, 1, IF Len(Top(l).ids) > MAX_CHILDREN THEN MAX_CHILDREN ELSE Len(Top(l).ids))

\* A frame returns to its caller; the answer of the root frame is its children_ids.
Return(l) ==
    lookup' = [lookup EXCEPT ![l].frames = Front(@), ![l].pc = IF Len(lookup[l].frames) = 1 THEN "done" ELSE @,
               ![l].answer = IF Len(lookup[l].frames) = 1 THEN Top(l).ids ELSE @]

\* The early returns of _traverse_children.
Enters(l) == Len(lookup[l].frames) <= lookup[l].depth /\ Top(l).asset \notin visited

\* The frame on top starts: it returns at once, or marks its asset as visited.
EnterFrame(l) ==
    /\ Walking(l) /\ Top(l).next = 0
    /\ IF Enters(l)
       THEN /\ visited' = visited \cup {Top(l).asset}
            /\ lookup' = [lookup EXCEPT ![l].frames = Append(Front(@), [Top(l) EXCEPT !.slice = ChildIds(l), !.next = 1]),
                          ![l].expanded = Append(@, Top(l).asset)]
       ELSE Return(l) /\ UNCHANGED visited
    /\ UNCHANGED children

\* The next child: skipped when visited; requested, and then appended to
\* children_ids and entered; answered with an error status, which the loop
\* passes over; or its request fails, which ends the loop.
WalkChild(l) ==
    /\ Walking(l) /\ Top(l).next \in 1..Len(Top(l).slice)
    /\ LET child == Top(l).slice[Top(l).next]
           passed == [Top(l) EXCEPT !.next = @ + 1]
           frames == Front(lookup[l].frames)
       IN  \/ /\ child \notin visited
              /\ lookup' = [lookup EXCEPT ![l].frames =
                   frames \o <<[passed EXCEPT !.ids = Append(@, child)], Frame(child, children[child])>>]
           \/ lookup' = [lookup EXCEPT ![l].frames = Append(frames, passed)]
           \/ /\ child \notin visited
              /\ lookup' = [lookup EXCEPT ![l].frames = Append(frames, [passed EXCEPT !.next = Len(passed.slice) + 1])]
    /\ UNCHANGED <<children, visited>>

FinishFrame(l) ==
    /\ Walking(l) /\ Top(l).next > Len(Top(l).slice)
    /\ Top(l).next > 0
    /\ Return(l)
    /\ UNCHANGED <<children, visited>>

LookupStep(l) ==
    \/ \E root \in Assets : LookupByAssetId(l, root)
    \/ LookupByEntityId(l) \/ SearchAssets(l)
    \/ EnterFrame(l) \/ WalkChild(l) \/ FinishFrame(l)

Kinds == {"asset", "entity", "search"}

AssetNext ==
    \E l \in Lookups :
       \/ \E depth \in TreeDepths, kind \in Kinds : ExecuteLookup(l, kind, depth)
       \/ LookupStep(l)

-----------------------------------------------------------------------------
(* Properties.                                                             *)

AssetTypeOK ==
    /\ visited \subseteq Assets
    /\ \A l \in Lookups :
          /\ lookup[l].pc \in Kinds \cup {"idle", "entity_asset", "walk", "done"}
          /\ Len(lookup[l].frames) <= lookup[l].depth + 1
          /\ Walking(l) => lookup[l].frames # <<>>

\* A lookup that nothing overlaps expands no asset twice, even when the hierarchy
\* has cycles; overlapping lookups clear each other's visited set, so only the
\* depth limit bounds them.
ExpandedOnce ==
    \A l \in Lookups : lookup[l].alone =>
       \A i, j \in 1..Len(lookup[l].expanded) : i # j => lookup[l].expanded[i] # lookup[l].expanded[j]

\* However lookups overlap, the answer lists each child the service named, in its
\* order, followed by at most one repetition of each: nothing is lost or invented.
AnswerKeepsChildren ==
    \A l \in Lookups :
       LET answer == lookup[l].answer
       IN  answer # <<>> =>
              \E a \in Assets : LET n == Len(children[a]) IN
                 /\ Len(answer) >= n /\ SubSeq(answer, 1, n) = children[a]
                 /\ Len(answer) <= n + (IF n > MAX_CHILDREN THEN MAX_CHILDREN ELSE n)
                 /\ \A i \in (n + 1)..Len(answer) : Contains(children[a], answer[i])

\* Every lookup ends, on a cyclic hierarchy and with a visited set that other
\* lookups keep clearing.
LookupReturns == \A l \in Lookups : lookup[l].pc # "idle" ~> lookup[l].pc = "done"

-----------------------------------------------------------------------------
(***************************************************************************)
(* OntologySearchTool (services/ai/agent/tools/ontology_search.py): a      *)
(* search goes through up to five sections of the ontology with one        *)
(* request each, concepts with a semantic fallback of two more.  What a    *)
(* failed request does differs by section: it is swallowed, answered as an *)
(* empty section, or fails the whole search.  The ontology and embedding   *)
(* services are external; a reply is one of Replies.                       *)
(***************************************************************************)

VARIABLE search     \* the search in progress: request, section to do, finds, answer

ontologyVars == <<search>>

SEARCH_TYPES == {"concept", "entity_type", "capability", "property", "relationship", "all"}
AllSections == <<"concept", "entity_type", "capability", "property", "relationship">>

\* What a request can come back as: matches, no match, an HTTP status, no reply,
\* or a reply that does not parse.
Replies == {"matches", "empty", "404", "400", "500", "other_status", "timeout", "connect", "malformed"}

ErrorCode == [r \in Replies \ {"matches", "empty"} |->
    CASE r = "404" -> "NOT_FOUND" [] r = "400" -> "BAD_REQUEST" [] r = "500" -> "INTERNAL_ERROR"
      [] r = "other_status" -> "HTTP_OTHER" [] r = "timeout" -> "TIMEOUT"
      [] r = "connect" -> "CONNECTION_ERROR" [] r = "malformed" -> "UNEXPECTED_ERROR"]

IdleSearch == [pc |-> "idle", todo |-> <<>>, query |-> FALSE, semantic |-> FALSE,
               matched |-> {}, found |-> {}, fallback |-> FALSE, requests |-> 0,
               success |-> FALSE, code |-> "none"]

OntologyInit == search = IdleSearch

Refuse(code) == search' = [IdleSearch EXCEPT !.pc = "done", !.code = code]

\* execute: the checks, then the sections of the search_type in order.
ExecuteSearch(sameTenant, type, knownCategory, limit, query, semantic) ==
    /\ search.pc = "idle"
    /\ IF ~sameTenant THEN Refuse("ACCESS_DENIED")
       ELSE IF type \notin SEARCH_TYPES THEN Refuse("INVALID_SEARCH_TYPE")
       ELSE IF ~knownCategory THEN Refuse("INVALID_CATEGORY")
       ELSE IF limit < 1 \/ limit > 100 THEN Refuse("INVALID_LIMIT")
       ELSE search' = [IdleSearch EXCEPT !.pc = "ask", !.query = query, !.semantic = semantic,
                          !.todo = IF type = "all" THEN AllSections ELSE <<type>>]

FailSearch(reply) == [search EXCEPT !.pc = "done", !.requests = @ + 1, !.code = ErrorCode[reply]]

\* The section in hand is done with matches or without: on to the next one, or
\* the merged answer of _search_all.
Answered(s, matches) ==
    LET section == Head(s.todo)
        told == [s EXCEPT !.found = IF matches THEN @ \cup {section} ELSE @, !.todo = Tail(@), !.pc = "ask"]
    IN  IF told.todo = <<>> THEN [told EXCEPT !.pc = "done", !.success = TRUE] ELSE told

Matched(reply) == IF reply = "matches" THEN {Head(search.todo)} ELSE {}

\* The statuses that the keyword search for concepts does not swallow.
ConceptErrors == {"500", "other_status"}

\* The fallback is used on request, or when the keyword search gave nothing.
FallsBack(reply) == search.semantic \/ reply # "matches"

\* _search_concepts up to the fallback.
SearchConcepts(reply) ==
    /\ search.pc = "ask" /\ Head(search.todo) = "concept"
    /\ search' =
         LET asked == [search EXCEPT !.requests = @ + 1, !.matched = @ \cup Matched(reply)]
         IN  IF reply \in ConceptErrors THEN FailSearch(reply)
             ELSE IF ~FallsBack(reply) THEN Answered(asked, TRUE)
             ELSE IF ~search.query THEN Answered([asked EXCEPT !.fallback = TRUE], FALSE)
             ELSE [asked EXCEPT !.fallback = TRUE, !.pc = "embed"]

\* _semantic_search_concepts: the embedding, then the search with it; whatever
\* fails, there are no concepts.
SemanticSearch(reply) ==
    /\ search.pc \in {"embed", "semantic"}
    /\ search' =
         LET asked == [search EXCEPT !.requests = @ + 1]
         IN  IF search.pc = "embed" /\ reply = "matches" THEN [asked EXCEPT !.pc = "semantic"]
             ELSE Answered(asked, search.pc = "semantic" /\ reply = "matches")

\* _search_entity_types, _search_capabilities, _search_properties and
\* _search_relationships: a 404 is an empty section, any other failure raises.
SearchSection(reply) ==
    /\ search.pc = "ask" /\ Head(search.todo) # "concept"
    /\ search' =
         IF reply \in {"matches", "empty", "404"}
         THEN Answered([search EXCEPT !.requests = @ + 1, !.matched = @ \cup Matched(reply)], reply = "matches")
         ELSE FailSearch(reply)

OntologyNext ==
    \/ \E sameTenant, knownCategory, query, semantic \in BOOLEAN, limit \in {0, 1, 100, 101},
          type \in SEARCH_TYPES \cup {"unknown"} :
          ExecuteSearch(sameTenant, type, knownCategory, limit, query, semantic)
    \/ \E reply \in Replies : SearchConcepts(reply) \/ SemanticSearch(reply) \/ SearchSection(reply)

-----------------------------------------------------------------------------
(* Properties.                                                             *)

OntologyTypeOK ==
    /\ search.pc \in {"idle", "ask", "embed", "semantic", "done"}
    /\ search.found \subseteq ToSet(AllSections) /\ search.matched \subseteq ToSet(AllSections)
    /\ search.requests \in 0..(Len(AllSections) + 2)
    /\ search.pc \in {"ask", "embed", "semantic"} => search.todo # <<>>

\* A successful answer holds every section the service had matches for, whatever
\* became of the other sections; only a semantic search the caller asked for may
\* take the place of the keyword matches, and the answer then says so.
FoundIsReported ==
    search.success =>
       /\ search.matched \ {"concept"} = search.found \ {"concept"}
       /\ "concept" \in search.matched \ search.found => search.semantic /\ search.fallback

\* An ontology without a match is an empty answer: no search ends in NOT_FOUND, and
\* a search for concepts alone fails only on a status other than 404 and 400.
EmptyIsNoFailure ==
    search.pc = "done" /\ ~search.success /\ search.requests > 0 =>
       /\ search.code # "NOT_FOUND"
       /\ search.requests = 1 /\ search.todo = <<"concept">> => search.code \in {"INTERNAL_ERROR", "HTTP_OTHER"}

-----------------------------------------------------------------------------
(***************************************************************************)
(* The agent's telemetry tool (services/ai/agent/tools/telemetry_query.py).*)
(* It checks a query, sends it to the telemetry service through the        *)
(* gateway and turns whatever comes back into an answer; a caller follows  *)
(* has_more from page to page.  The service is known only by the answers   *)
(* the tool expects: a page of points, perhaps with the total, or one of   *)
(* the failures of an HTTP call.                                           *)
(***************************************************************************)

CONSTANTS
    QueryLimits,    \* the page sizes callers ask for
    QueryOffsets,   \* bound: where they start
    RAW_LIMIT,      \* largest page of a raw query (10000)
    MaxStored,      \* bound: points that match the query
    MAX_RANGE,      \* longest time range (365 days)
    MaxTime         \* bound: the times a query names

ASSUME QueryConstants ==
    /\ QueryLimits \subseteq Nat \ {0} /\ QueryOffsets \subseteq Nat
    /\ RAW_LIMIT \in Nat /\ MaxStored \in Nat /\ MAX_RANGE \in Nat /\ MaxTime \in Nat

VARIABLES
    matching,       \* number of points the service has for the query
    tells_total,    \* does the service report how many match?
    query,          \* the arguments of the call under way or answered last
    query_state,    \* "idle", "sent", "answered", "refused", "failed" or "raised"
    first_offset,   \* where the caller started paging
    points,         \* what the caller has collected
    has_more        \* of the last page

queryVars == <<matching, tells_total, query, query_state, first_offset, points, has_more>>

\* A time is absent, unreadable, or read with or without a time zone.
Times == [form : {"absent", "garbled"}, at : {0}] \cup [form : {"naive", "aware"}, at : 0..MaxTime]
Absent == [form |-> "absent", at |-> 0]
Given(t) == t.form # "absent"

QueryArguments ==
    [own : BOOLEAN, aggregate : {"raw", "1h", "1w"}, quality : {"absent", "GOOD", "NICE"},
     limit : QueryLimits, offset : QueryOffsets, start : Times, end : Times]

QueryInit ==
    /\ matching \in 0..MaxStored /\ tells_total \in BOOLEAN
    /\ query = [own |-> TRUE, aggregate |-> "raw", quality |-> "absent", limit |-> 1,
                offset |-> 0, start |-> Absent, end |-> Absent]
    /\ query_state = "idle" /\ first_offset = 0 /\ points = <<>> /\ has_more = FALSE
-----------------------------------------------------------------------------
\* The checks before the time range: the first one that fails answers.
ArgumentsRefused(q) ==
    \/ ~q.own
    \/ q.aggregate \notin {"raw", "1m", "1h", "1d"}
    \/ q.quality \notin {"absent", "GOOD", "UNCERTAIN", "BAD"}
    \/ q.aggregate = "raw" /\ q.limit > RAW_LIMIT
    \/ "garbled" \in {q.start.form, q.end.form}

\* Comparing a time with a zone and one without raises, outside any handler.
ComparisonRaises(q) == Given(q.start) /\ Given(q.end) /\ q.start.form # q.end.form

\* TimeRange.validate
RangeRefused(q) ==
    Given(q.start) /\ Given(q.end) /\ (q.start.at > q.end.at \/ q.end.at - q.start.at > MAX_RANGE)

Checked(q) ==
    IF ArgumentsRefused(q) THEN "refused"
    ELSE IF ComparisonRaises(q) THEN "raised"
    ELSE IF RangeRefused(q) THEN "refused"
    ELSE "sent"

\* execute, up to the request.
ExecuteQuery(q) ==
    /\ query_state = "idle"
    /\ query' = q /\ query_state' = Checked(q) /\ first_offset' = q.offset
    /\ UNCHANGED <<matching, tells_total, points, has_more>>

\* query_latest: the last hour, both ends without a zone.
QueryLatest(limit) ==
    ExecuteQuery([own |-> TRUE, aggregate |-> "raw", quality |-> "absent", limit |-> limit, offset |-> 0,
                  start |-> [form |-> "naive", at |-> 0], end |-> [form |-> "naive", at |-> 0]])

Page(q) == [i \in 1..Max({0, Min({q.limit, matching - q.offset})}) |-> q.offset + i]

HasMore(q, total) == q.offset + q.limit < total

\* The service answers; without a total the page's own length stands in for it.
AnswerQuery ==
    /\ query_state = "sent"
    /\ points' = points \o Page(query)
    /\ has_more' = HasMore(query, IF tells_total THEN matching ELSE Len(Page(query)))
    /\ query_state' = "answered"
    /\ UNCHANGED <<matching, tells_total, query, first_offset>>

\* An error status, a timeout, no connection, or a body the tool cannot read.
QueryFails ==
    /\ query_state = "sent" /\ query_state' = "failed"
    /\ UNCHANGED <<matching, tells_total, query, first_offset, points, has_more>>

\* The caller asks for the next page, or for the failed one again.
NextPage ==
    /\ \/ query_state = "answered" /\ has_more /\ query' = [query EXCEPT !.offset = @ + query.limit]
       \/ query_state = "failed" /\ query' = query
    /\ query_state' = Checked(query')
    /\ UNCHANGED <<matching, tells_total, first_offset, points, has_more>>

QueryNext ==
    \/ \E q \in QueryArguments : ExecuteQuery(q)
    \/ \E l \in QueryLimits : QueryLatest(l)
    \/ AnswerQuery \/ QueryFails \/ NextPage
-----------------------------------------------------------------------------
QueryTypeOK ==
    /\ matching \in 0..MaxStored /\ tells_total \in BOOLEAN /\ has_more \in BOOLEAN
    /\ query_state \in {"idle", "sent", "answered", "refused", "failed", "raised"}
    /\ ToSet(points) \subseteq 1..MaxStored

\* A caller that follows has_more to its end has every matching point from where it
\* started, in order and once, however often a page failed on the way, provided
\* the service reports how many there are.
PagesCoverAll ==
    (tells_total /\ query_state = "answered" /\ ~has_more) =>
        points = [i \in 1..Max({0, matching - first_offset}) |-> first_offset + i]

\* The tool answers every call with a dictionary; the only exception that escapes
\* is the comparison of a time that has a zone with one that has none.
RaisesOnlyForMixedZones ==
    query_state = "raised" => {query.start.form, query.end.form} = {"naive", "aware"}
=============================================================================
