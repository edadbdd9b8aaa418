---------------------------- MODULE EdgeAdapters ----------------------------
(***************************************************************************)
(* The edge adapters (services/adapter/edge): a base class with an offline *)
(* buffer, the registry that connects and disconnects all of them, and the *)
(* Modbus, MQTT, BACnet and OPC UA adapters.  Reading while disconnected   *)
(* buffers one BAD point per id instead of answering.                      *)
(*                                                                         *)
(* A point is <<id, n>>, the n-th point made.  Whether an id can be parsed *)
(* and, for OPC UA, its node id ends in a number, is a property of the id. *)
(* The adapters wait for nothing but their own lock, so calls do not       *)
(* interleave.  Subscriptions are recorded and never read; left out.       *)
(***************************************************************************)
EXTENDS Naturals, Sequences, FiniteSets

CONSTANTS
    EdgeIds,            \* adapter ids
    ExternalIds,
    Unparsable,         \* ids a Modbus or OPC UA parse raises on (a part that is no number)
    Unreadable,         \* ids whose OPC UA node does not end in a number
    BUFFER_SIZE,        \* buffer_size
    MaxPoints,          \* bound: points made
    MaxList             \* bound: ids given to one read

ASSUME EdgeConstants == BUFFER_SIZE \in Nat \ {0} /\ MaxPoints \in Nat /\ MaxList \in Nat

VARIABLES
    edge_kind,          \* id -> the adapter's class
    edge_registered,    \* ids in the registry
    edge_status,        \* id -> status ("connected" with _connected)
    buffer,             \* id -> _buffer
    points_made,        \* number of points made so far
    unflushed           \* history: id -> points buffered since the last flush, dropped ones included

edgeVars == <<edge_kind, edge_registered, edge_status, buffer, points_made, unflushed>>

EdgeKinds == {"modbus", "mqtt", "bacnet", "opcua"}

EdgeInit ==
    /\ edge_kind \in [EdgeIds -> EdgeKinds]
    /\ edge_registered = {} /\ points_made = 0
    /\ edge_status = [a \in EdgeIds |-> "disconnected"]
    /\ buffer = [a \in EdgeIds |-> <<>>] /\ unflushed = [a \in EdgeIds |-> <<>>]

\* buffer_point: the oldest point makes room.
Buffered(b, point) == IF Len(b) >= BUFFER_SIZE THEN Append(Tail(b), point) ELSE Append(b, point)

RegisterEdge(a) ==
    /\ edge_registered' = edge_registered \cup {a}
    /\ UNCHANGED <<edge_kind, edge_status, buffer, points_made, unflushed>>

ConnectEdge(S) ==
    /\ edge_status' = [a \in EdgeIds |-> IF a \in S THEN "connected" ELSE edge_status[a]]
    /\ UNCHANGED <<edge_kind, edge_registered, buffer, points_made, unflushed>>

ConnectAll == ConnectEdge(edge_registered)

\* disconnect of a Modbus adapter flushes its buffer and drops what it flushed.
Flushed(f, S) == [a \in EdgeIds |-> IF a \in S /\ edge_kind[a] = "modbus" THEN <<>> ELSE f[a]]

DisconnectEdge(S) ==
    /\ edge_status' = [a \in EdgeIds |-> IF a \in S THEN "disconnected" ELSE edge_status[a]]
    /\ buffer' = Flushed(buffer, S) /\ unflushed' = Flushed(unflushed, S)
    /\ UNCHANGED <<edge_kind, edge_registered, points_made>>

DisconnectAll == DisconnectEdge(edge_registered)

FlushBuffer(a) ==
    /\ buffer' = [buffer EXCEPT ![a] = <<>>] /\ unflushed' = [unflushed EXCEPT ![a] = <<>>]
    /\ UNCHANGED <<edge_kind, edge_registered, edge_status, points_made>>

\* What read does with one id: the reasons why it makes no point are logged.
ParsesModbus(id) == id \notin Unparsable
ParsesMqtt(id) == TRUE
ParsesBacnet(id) == TRUE
ParsesOpcua(id) == id \notin Unparsable

Parses(a, id) ==
    CASE edge_kind[a] = "modbus" -> ParsesModbus(id)
      [] edge_kind[a] = "mqtt" -> ParsesMqtt(id)
      [] edge_kind[a] = "bacnet" -> ParsesBacnet(id)
      [] OTHER -> ParsesOpcua(id)

\* read of one id while disconnected: one BAD point, unless the id does not parse.
OfflinePoint(a, id, now) ==
    LET point == <<id, now.made + 1>> IN
    IF Parses(a, id)
    THEN [kept |-> Buffered(now.kept, point), all |-> Append(now.all, point), made |-> now.made + 1]
    ELSE now

\* The loop of read over a list of ids: what it has done after each of them.
OfflineLoop(a, ids) ==
    LET after[i \in 0..Len(ids)] ==
          IF i = 0 THEN [kept |-> buffer[a], all |-> unflushed[a], made |-> points_made]
          ELSE OfflinePoint(a, ids[i], after[i - 1])
    IN  after

ReadOffline(a, ids) ==
    LET end == OfflineLoop(a, ids)[Len(ids)] IN
    /\ edge_status[a] = "disconnected" /\ end.made <= MaxPoints
    /\ points_made' = end.made
    /\ buffer' = [buffer EXCEPT ![a] = end.kept]
    /\ unflushed' = [unflushed EXCEPT ![a] = end.all]
    /\ UNCHANGED <<edge_kind, edge_registered, edge_status>>

\* read while connected: the points are the answer; an OPC UA node whose name
\* does not end in a number is skipped.
ReadOnline(a, ids) ==
    LET Read(id) == Parses(a, id) /\ (edge_kind[a] = "opcua" => id \notin Unreadable)
        made == Cardinality({i \in DOMAIN ids : Read(ids[i])}) IN
    /\ edge_status[a] = "connected" /\ points_made + made <= MaxPoints
    /\ points_made' = points_made + made
    /\ UNCHANGED <<edge_kind, edge_registered, edge_status, buffer, unflushed>>

Lists == UNION {[1..n -> ExternalIds] : n \in 1..MaxList}

EdgeNext ==
    \/ ConnectAll \/ DisconnectAll
    \/ \E a \in EdgeIds :
        \/ RegisterEdge(a) \/ ConnectEdge({a}) \/ DisconnectEdge({a}) \/ FlushBuffer(a)
        \/ \E ids \in Lists : ReadOffline(a, ids) \/ ReadOnline(a, ids)
-----------------------------------------------------------------------------
EdgeTypeOK ==
    /\ edge_registered \subseteq EdgeIds
    /\ edge_status \in [EdgeIds -> {"connected", "disconnected"}]
    /\ points_made \in 0..MaxPoints
    /\ \A a \in EdgeIds : Len(buffer[a]) <= BUFFER_SIZE

\* The offline buffer holds exactly the newest points, as many as it has room
\* for, since it was last flushed, in the order they were made, through
\* reconnections and whatever is read while connected.
BufferKeepsNewest ==
    \A a \in EdgeIds :
        LET n == Len(unflushed[a]) IN
        buffer[a] = SubSeq(unflushed[a], (IF n > BUFFER_SIZE THEN n - BUFFER_SIZE ELSE 0) + 1, n)
=============================================================================
