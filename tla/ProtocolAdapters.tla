-------------------------- MODULE ProtocolAdapters --------------------------
(***************************************************************************)
(* The protocol adapters and the simulator: services/adapter/bacnet,       *)
(* modbus, mqtt, opcua and simulator.py.  An adapter keeps a _connected    *)
(* flag, a client and its subscriptions (BACnet in a COV manager that      *)
(* lives as long as the connection).  The protocol clients in the          *)
(* repository answer without waiting, so an operation is one step.         *)
(*                                                                         *)
(* One adapter is modelled, of any kind.  A subscription is named by an id *)
(* built from the point (BACnet), from the point and the callback (MQTT    *)
(* and OPC UA) or from the number of subscriptions (simulator); Modbus     *)
(* answers an id and keeps nothing.                                        *)
(***************************************************************************)
EXTENDS Naturals, FiniteSets, Functions

CONSTANTS Points, Callbacks

Kinds == {"bacnet", "modbus", "mqtt", "opcua", "simulator"}

VARIABLES
    kind,           \* the adapter's class
    connected,      \* _connected
    client,         \* whether _client is set (and then connected)
    subs,           \* subscription id -> the point it watches
    handed_out      \* history: <<id, point>> for the ids that callers hold

adapterVars == <<kind, connected, client, subs, handed_out>>

NoSubs == [i \in {} |-> {}]

ProtocolInit ==
    /\ kind \in Kinds /\ connected = FALSE /\ client = FALSE
    /\ subs = NoSubs /\ handed_out = {}

\* connect returns at once on a connected adapter.
Connects(k, has_client) ==
    /\ kind = k /\ ~connected
    /\ connected' = TRUE /\ client' = has_client
    /\ UNCHANGED <<kind, subs, handed_out>>

ConnectBacnet == Connects("bacnet", TRUE)
ConnectModbusTo(port_is_number) == port_is_number /\ Connects("modbus", TRUE)
ConnectMqtt == Connects("mqtt", TRUE)
ConnectOpcua == Connects("opcua", TRUE)
ConnectSimulator == Connects("simulator", FALSE)

\* Every disconnect ends with no client and no subscriptions; the ids handed
\* out so far name nothing any more.
Disconnects(k) ==
    /\ kind = k
    /\ connected' = FALSE /\ client' = FALSE /\ subs' = NoSubs
    /\ handed_out' = {}
    /\ UNCHANGED kind

DisconnectBacnet == connected /\ Disconnects("bacnet")
DisconnectModbus == connected /\ Disconnects("modbus")
DisconnectMqtt == Disconnects("mqtt")
DisconnectOpcua == Disconnects("opcua")
DisconnectSimulator == Disconnects("simulator")

Subscribed(id, p) ==
    /\ subs' = [i \in DOMAIN subs \cup {id} |-> IF i = id THEN p ELSE subs[i]]
    /\ handed_out' = handed_out \cup {<<id, p>>}
    /\ UNCHANGED <<kind, connected, client>>

Numbered == <<Cardinality(DOMAIN subs) + 1>>

\* The COV manager creates the subscription and starts it with the client.
SubscribeBacnet(p) == kind = "bacnet" /\ connected /\ client /\ Subscribed(<<p>>, p)

SubscribeMqtt(p, cb) == kind = "mqtt" /\ connected /\ client /\ Subscribed(<<p, cb>>, p)

SubscribeOpcua(p, cb) == kind = "opcua" /\ connected /\ client /\ Subscribed(<<p, cb>>, p)

\* The simulator does not ask whether it is connected, and numbers its ids by
\* the subscriptions it has.  Bound: three at a time.
SubscribeSimulator(p) ==
    /\ kind = "simulator" /\ Cardinality(DOMAIN subs) < 3
    /\ Subscribed(Numbered, p)

Forgotten(id) ==
    /\ subs' = Restrict(subs, DOMAIN subs \ {id})
    /\ handed_out' = {h \in handed_out : h[1] # id}
    /\ UNCHANGED <<kind, connected, client>>

\* COV delete: stopped without a client, then forgotten; no COV manager, no effect.
UnsubscribeBacnet(id) == kind = "bacnet" /\ client /\ Forgotten(id)

UnsubscribeMqtt(id) == kind = "mqtt" /\ id \in DOMAIN subs /\ Forgotten(id)
UnsubscribeOpcua(id) == kind = "opcua" /\ id \in DOMAIN subs /\ Forgotten(id)
UnsubscribeSimulator(id) == kind = "simulator" /\ id \in DOMAIN subs /\ Forgotten(id)

ProtocolNext ==
    \/ ConnectBacnet \/ ConnectMqtt \/ ConnectOpcua \/ ConnectSimulator
    \/ \E port_is_number \in BOOLEAN : ConnectModbusTo(port_is_number)
    \/ DisconnectBacnet \/ DisconnectModbus \/ DisconnectMqtt \/ DisconnectOpcua \/ DisconnectSimulator
    \/ \E p \in Points : SubscribeBacnet(p) \/ SubscribeSimulator(p)
    \/ \E p \in Points, cb \in Callbacks : SubscribeMqtt(p, cb) \/ SubscribeOpcua(p, cb)
    \/ \E h \in handed_out :
        UnsubscribeBacnet(h[1]) \/ UnsubscribeMqtt(h[1]) \/ UnsubscribeOpcua(h[1]) \/ UnsubscribeSimulator(h[1])
-----------------------------------------------------------------------------
ProtocolTypeOK ==
    /\ kind \in Kinds /\ connected \in BOOLEAN /\ client \in BOOLEAN
    /\ Range(subs) \subseteq Points

\* A protocol adapter watches over a live client exactly what its callers hold
\* ids for: an id names the point it was handed out for until it is
\* unsubscribed or the connection ends, whatever was subscribed in between.
\* (The simulator's numbers come back while they are in use.)
SubscriptionsAreHeld ==
    kind # "simulator" =>
        /\ connected <=> client
        /\ handed_out = {<<id, subs[id]>> : id \in DOMAIN subs}
        /\ handed_out # {} => connected
=============================================================================
