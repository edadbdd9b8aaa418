-------------------------- MODULE TelemetryHistory --------------------------
(***************************************************************************)
(* The stored telemetry (services/telemetry: TelemetryIngestionService,    *)
(* TelemetryRepository, TelemetryQueryService).  Batches are checked,      *)
(* their devices and data points looked up one awaited query at a time,    *)
(* and flushed together in the caller's transaction.  The routes are a     *)
(* caller that never commits: their points are rolled back when the        *)
(* session closes, after the answer 201.  Points that are stored are those *)
(* of an outside caller that commits its session.  A client reads a        *)
(* history page by page, newest first, while such points of any event time *)
(* keep arriving.                                                          *)
(***************************************************************************)
EXTENDS Naturals, Sequences, FiniteSets, SequencesExt

CONSTANTS
    Devices, DataPoints,    \* ids; what exists and whose it is, see Owner
    Owner,                  \* id -> its tenant
    HistoryTenants,
    Samples,                \* bound: the points clients send
    Ingests,                \* bound: the ingest calls
    MaxTime,                \* bound: event times
    PageSize,               \* the limit a client pages with
    MaxBatch                \* bound: points of a batch

VARIABLES
    stored,                 \* the committed points
    ingest,                 \* call -> its batch and how far it is
    gone,                   \* soft-deleted devices and data points
    pager                   \* the reading client: range, offset, what it got

historyVars == <<stored, ingest, gone, pager>>

ASSUME HistoryAssumption ==
    /\ MaxTime \in Nat /\ PageSize \in Nat /\ MaxBatch \in Nat
    /\ Samples \subseteq [device : Devices, datapoint : DataPoints, time : 1..MaxTime, valid : BOOLEAN]

Unsent == [pc |-> "ready"]
Settled == [pc |-> "settled"]
Acknowledged == [pc |-> "answered"]

HistoryInit ==
    /\ stored = <<>> /\ gone = {}
    /\ ingest = [c \in Ingests |-> Unsent]
    /\ pager = [pc |-> "ready"]
-----------------------------------------------------------------------------
\* Validation of every point comes before any query; one bad point refuses all.
IngestBatch(c, tenant, batch) ==
    /\ ingest[c] = Unsent
    /\ ingest' = [ingest EXCEPT ![c] =
            IF \E i \in DOMAIN batch : ~batch[i].valid THEN Settled
            ELSE [pc |-> "checking", tenant |-> tenant, batch |-> batch,
                  todo |-> {batch[i].device : i \in DOMAIN batch} \cup {batch[i].datapoint : i \in DOMAIN batch}]]
    /\ UNCHANGED <<stored, gone, pager>>

\* A single point takes the same way.
IngestPoint(c, tenant, sample) == IngestBatch(c, tenant, <<sample>>)

\* get_by_id_for_tenant of a device or, when the devices are through, of a data point.
VerifyOwner(c, id) ==
    /\ ingest[c].pc = "checking" /\ id \in ingest[c].todo
    /\ id \in DataPoints => ingest[c].todo \cap Devices = {}
    /\ ingest' = [ingest EXCEPT ![c] =
            IF id \in gone \/ Owner[id] # ingest[c].tenant THEN Settled
            ELSE [ingest[c] EXCEPT !.todo = @ \ {id}]]
    /\ UNCHANGED <<stored, gone, pager>>

PointOf(c, i) ==
    [device |-> ingest[c].batch[i].device, datapoint |-> ingest[c].batch[i].datapoint,
     time |-> ingest[c].batch[i].time, tenant |-> ingest[c].tenant, from |-> c]

\* save and save_batch: the rows are flushed, for the eyes of their own session.
SaveBatch(c) ==
    /\ ingest[c].pc = "checking" /\ ingest[c].todo = {}
    /\ ingest' = [ingest EXCEPT ![c].pc = "flushed"]
    /\ UNCHANGED <<stored, gone, pager>>

\* The commit of an outside caller.
CommitBatch(c) ==
    /\ ingest[c].pc = "flushed"
    /\ stored' = stored \o [i \in DOMAIN ingest[c].batch |-> PointOf(c, i)]
    /\ ingest' = [ingest EXCEPT ![c].pc = "committed"]
    /\ UNCHANGED <<gone, pager>>

\* A route makes none: it answers 201, its session is closed, the rows are gone.
CloseRoute(c) ==
    /\ ingest[c].pc = "flushed"
    /\ ingest' = [ingest EXCEPT ![c] = Acknowledged]
    /\ UNCHANGED <<stored, gone, pager>>

\* The flush or the commit raises: everything is rolled back.
SaveFails(c) ==
    /\ ingest[c].pc \in {"checking", "flushed"} /\ ingest[c].todo = {}
    /\ ingest' = [ingest EXCEPT ![c] = Settled]
    /\ UNCHANGED <<stored, gone, pager>>

RemoveDevice(id) ==
    /\ gone = {} /\ gone' = {id}
    /\ UNCHANGED <<stored, ingest, pager>>

InRange(p) == pager.start <= p.time /\ p.time <= pager.end

\* What the three queries select: a device's points, a data point's, or a
\* range of all; both ends of the range belong to it.
QueryByDevice(p) == p.tenant = pager.tenant /\ p.device = pager.id /\ InRange(p)
QueryByDatapoint(p) == p.tenant = pager.tenant /\ p.datapoint = pager.id /\ InRange(p)
QueryRange(p) == p.tenant = pager.tenant /\ InRange(p)

Matches(p) ==
    CASE pager.id \in Devices -> QueryByDevice(p)
      [] pager.id \in DataPoints -> QueryByDatapoint(p)
      [] OTHER -> QueryRange(p)

\* The orders the database may answer in: newest first, ties in any order.
Hits == {i \in DOMAIN stored : Matches(stored[i])}
AnyOrder == SetToSeqs(Hits)

NewestFirst ==
    {s \in SetToSeqs(Hits) : \A i, j \in DOMAIN s : i < j => stored[s[i]].time >= stored[s[j]].time}

OpenHistory(tenant, id, start, end) ==
    /\ pager.pc = "ready"
    /\ pager' = [pc |-> "reading", tenant |-> tenant, id |-> id, start |-> start, end |-> end,
                 offset |-> 0, got |-> {}, before |-> Len(stored)]
    /\ UNCHANGED <<stored, ingest, gone>>

\* One page at the client's offset; a short page is the last one.
ReadPage ==
    /\ pager.pc = "reading"
    /\ \E order \in NewestFirst :
           LET last == IF pager.offset + PageSize <= Len(order) THEN pager.offset + PageSize ELSE Len(order)
               page == SubSeq(order, pager.offset + 1, last)
           IN pager' = [pager EXCEPT !.got = @ \cup ToSet(page), !.offset = @ + PageSize,
                                     !.pc = IF Len(page) < PageSize THEN "ended" ELSE "reading"]
    /\ UNCHANGED <<stored, ingest, gone>>

SampleBatches == UNION {[1..n -> Samples] : n \in 2..MaxBatch}

HistoryNext ==
    \/ \E c \in Ingests, t \in HistoryTenants, b \in SampleBatches : IngestBatch(c, t, b)
    \/ \E c \in Ingests, t \in HistoryTenants, s \in Samples : IngestPoint(c, t, s)
    \/ \E c \in Ingests : SaveBatch(c) \/ CommitBatch(c) \/ CloseRoute(c) \/ SaveFails(c)
    \/ \E c \in Ingests, id \in Devices \cup DataPoints : VerifyOwner(c, id)
    \/ \E id \in Devices \cup DataPoints : RemoveDevice(id)
    \/ \E t \in HistoryTenants, id \in Devices \cup DataPoints \cup {"any"} :
           OpenHistory(t, id, 1, MaxTime) \/ (id = "any" /\ OpenHistory(t, id, 2, MaxTime))
    \/ ReadPage
-----------------------------------------------------------------------------
HistoryTypeOK ==
    /\ \A i \in DOMAIN stored : stored[i].tenant \in HistoryTenants /\ stored[i].time \in 1..MaxTime
    /\ \A c \in Ingests : ingest[c].pc \in {"ready", "checking", "flushed", "committed", "answered", "settled"}
    /\ pager.pc \in {"ready", "reading", "ended"}

\* A stored point's device and data point belong to the tenant it is stored for.
StoredPointsAreOwned ==
    \A i \in DOMAIN stored : Owner[stored[i].device] = stored[i].tenant
                          /\ Owner[stored[i].datapoint] = stored[i].tenant

\* A batch is stored whole or not at all, also when a lookup in its middle
\* fails or a device disappears between the lookups: whole if its caller
\* committed it, and not at all if a route answered it.
BatchIsAtomic ==
    \A c \in Ingests :
        Cardinality({i \in DOMAIN stored : stored[i].from = c})
            = IF ingest[c].pc = "committed" THEN Len(ingest[c].batch) ELSE 0

\* Paging misses nothing that was there: when the last page is read, the
\* client has every matching point stored before it began, however many
\* arrived meanwhile, unless another point shares its event time.
PagesMissNothing ==
    pager.pc = "ended" =>
        \A i \in 1..pager.before :
            Matches(stored[i]) /\ (\A j \in DOMAIN stored \ {i} : stored[j].time # stored[i].time)
                => i \in pager.got
=============================================================================
