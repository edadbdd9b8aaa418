---------------------------- MODULE SyncReplicas ----------------------------
(***************************************************************************)
(* Cloud and edge nodes with a SyncEngine each (services/sync/engine.py):  *)
(* its hybrid logical clock, its connection and upload queue, and one      *)
(* last-writer-wins register that the nodes replicate.  Snapshots of a     *)
(* register travel with the sender's clock and may be lost, repeated and   *)
(* delivered in any order; the receiver merges clock and register.         *)
(*                                                                         *)
(* The engine reads the wall clock once, when it is created; its hybrid    *)
(* clock moves by increments and merges only.  A register that is created  *)
(* or updated without a timestamp takes the wall clock of that moment,     *)
(* counter 0 and no node name.  Wall clocks are skewed and move forward.   *)
(***************************************************************************)
EXTENDS Integers, FiniteSets

CONSTANTS
  Replica,
  Value,
  NoValue,      \* the register's value before the first write
  Point,        \* telemetry points to upload
  NoNode,       \* node_id "" of a stamp read from the wall clock by default
  StartTimes,   \* what the nodes' wall clocks may say when an engine is created
  MaxWall,      \* bound: no wall clock moves beyond this reading
  MaxLogical,   \* bound: no clock ticks beyond this logical counter
  MaxSent       \* bound: no more than this many different snapshots are sent

ASSUME SyncAssumption ==
  /\ StartTimes \subseteq Nat /\ MaxWall \in Nat /\ MaxLogical \in Nat /\ MaxSent \in Nat
  /\ NoValue \notin Value /\ NoNode \notin Replica

VARIABLES hlc, reg, sent, connected, queued, uploaded, wall

vars == <<hlc, reg, sent, connected, queued, uploaded, wall>>

-----------------------------------------------------------------------------
(* HLCTimestamp. *)

Stamp == [physical : Nat, logical : Nat, node : Replica \cup {NoNode}]

(* HLCTimestamp.now() on node r, with the default node_id. *)
Now(r) == [physical |-> wall[r], logical |-> 0, node |-> NoNode]

IsAfter(a, b) ==
  \/ a.physical > b.physical
  \/ a.physical = b.physical /\ a.logical > b.logical

Larger(m, n) == IF m >= n THEN m ELSE n

(* Mutant: the counter restarts below where it was. *)
IncrementByTime(a) == [a EXCEPT !.logical = @ - 1]

Increment(a) == [a EXCEPT !.logical = @ + 1]

(* Mutant: a merge takes over the time and forgets the counter. *)
MergeClockOwnCounter(a, b) == [a EXCEPT !.physical = Larger(@, b.physical)]

MergeClock(a, b) ==
  [physical |-> Larger(a.physical, b.physical),
   logical  |-> Larger(a.logical, b.logical) + 1,
   node     |-> a.node]

(* LWWRegister: a later timestamp wins, a tie keeps what is there. *)
Register == [value : Value \cup {NoValue}, stamp : Stamp]

Update(g, v, s) == IF IsAfter(s, g.stamp) THEN [value |-> v, stamp |-> s] ELSE g

(* Mutant: the value of the earlier register survives under the later stamp. *)
MergeRegisterStampOnly(g, h) ==
  IF IsAfter(h.stamp, g.stamp) THEN [g EXCEPT !.stamp = h.stamp] ELSE g

(* Mutant: what arrives last wins. *)
MergeRegisterTheirs(g, h) == h

MergeRegister(g, h) == IF IsAfter(h.stamp, g.stamp) THEN h ELSE g

-----------------------------------------------------------------------------
Message == [clock : Stamp, reg : Register]

TypeOK ==
  /\ hlc \in [Replica -> Stamp]
  /\ reg \in [Replica -> Register]
  /\ sent \subseteq Message
  /\ connected \in [Replica -> BOOLEAN]
  /\ queued \in [Replica -> SUBSET Point]
  /\ uploaded \subseteq Point
  /\ wall \in [Replica -> Nat]

(* Each node creates its register with the clock its engine starts with,   *)
(* or without a timestamp.                                                 *)
Init ==
  /\ wall \in [Replica -> StartTimes]
  /\ hlc = [r \in Replica |-> [physical |-> wall[r], logical |-> 0, node |-> r]]
  /\ \E stamps \in [Replica -> BOOLEAN] :
       reg = [r \in Replica |-> [value |-> NoValue, stamp |-> IF stamps[r] THEN hlc[r] ELSE Now(r)]]
  /\ sent = {}
  /\ connected = [r \in Replica |-> FALSE]
  /\ queued = [r \in Replica |-> {}]
  /\ uploaded = {}

CanTick(r) == hlc[r].logical < MaxLogical

Connect(r) ==
  /\ connected' = [connected EXCEPT ![r] = TRUE]
  /\ UNCHANGED <<hlc, reg, sent, queued, uploaded, wall>>

Disconnect(r) ==
  /\ connected' = [connected EXCEPT ![r] = FALSE]
  /\ UNCHANGED <<hlc, reg, sent, queued, uploaded, wall>>

(* upload_telemetry without a connection: the points are queued. *)
QueueUpload(r, p) ==
  /\ ~connected[r] /\ p \notin uploaded /\ \A q \in Replica : p \notin queued[q]
  /\ queued' = [queued EXCEPT ![r] = @ \cup {p}]
  /\ UNCHANGED <<hlc, reg, sent, connected, uploaded, wall>>

(* upload_telemetry with a connection sends its own points only. *)
Upload(r, p) ==
  /\ connected[r] /\ CanTick(r) /\ p \notin uploaded /\ \A q \in Replica : p \notin queued[q]
  /\ uploaded' = uploaded \cup {p}
  /\ hlc' = [hlc EXCEPT ![r] = Increment(@)]
  /\ UNCHANGED <<reg, sent, connected, queued, wall>>

Heartbeat(r) ==
  /\ CanTick(r)
  /\ hlc' = [hlc EXCEPT ![r] = Increment(@)]
  /\ UNCHANGED <<reg, sent, connected, queued, uploaded, wall>>

(* A local write, stamped with the node's own clock. *)
Write(r, v) ==
  /\ CanTick(r)
  /\ hlc' = [hlc EXCEPT ![r] = Increment(@)]
  /\ reg' = [reg EXCEPT ![r] = Update(@, v, Increment(hlc[r]))]
  /\ UNCHANGED <<sent, connected, queued, uploaded, wall>>

(* update() without a timestamp: the wall clock's reading, not the engine's. *)
UpdateUnstamped(r, v) ==
  /\ reg' = [reg EXCEPT ![r] = Update(@, v, Now(r))]
  /\ UNCHANGED <<hlc, sent, connected, queued, uploaded, wall>>

(* Time passes on a node. *)
Tick(r) ==
  /\ wall[r] < MaxWall
  /\ wall' = [wall EXCEPT ![r] = @ + 1]
  /\ UNCHANGED <<hlc, reg, sent, connected, queued, uploaded>>

Send(r) ==
  /\ connected[r] /\ Cardinality(sent) < MaxSent
  /\ sent' = sent \cup {[clock |-> hlc[r], reg |-> reg[r]]}
  /\ UNCHANGED <<hlc, reg, connected, queued, uploaded, wall>>

Receive(r, m) ==
  /\ connected[r] /\ CanTick(r) /\ m.clock.logical < MaxLogical
  /\ hlc' = [hlc EXCEPT ![r] = MergeClock(@, m.clock)]
  /\ reg' = [reg EXCEPT ![r] = MergeRegister(@, m.reg)]
  /\ UNCHANGED <<sent, connected, queued, uploaded, wall>>

Next ==
  \E r \in Replica :
    \/ Connect(r) \/ Disconnect(r) \/ Heartbeat(r) \/ Send(r) \/ Tick(r)
    \/ \E p \in Point : QueueUpload(r, p) \/ Upload(r, p)
    \/ \E v \in Value : Write(r, v) \/ UpdateUnstamped(r, v)
    \/ \E m \in sent : Receive(r, m)

Spec == Init /\ [][Next]_vars

-----------------------------------------------------------------------------
(* The stamps an engine's clock gave, as opposed to those of the wall.     *)
Named(s) == s.node # NoNode

(* A node's clock is never behind the engine's stamp of the value it       *)
(* holds, and a snapshot never carries a value stamped by an engine that   *)
(* its sender's clock had not reached.  (A wall clock's stamp may be ahead *)
(* of every engine's clock.)                                               *)
ClockCovers ==
  /\ \A r \in Replica : Named(reg[r].stamp) => ~IsAfter(reg[r].stamp, hlc[r])
  /\ \A m \in sent : Named(m.reg.stamp) => ~IsAfter(m.reg.stamp, m.clock)

(* An engine's stamp names one write: the same stamp always comes with the *)
(* same value, however snapshots are reordered or repeated.                *)
Held == {reg[r] : r \in Replica} \cup {m.reg : m \in sent}
StampNamesWrite ==
  \A g, h \in Held : g.stamp = h.stamp /\ Named(g.stamp) => g.value = h.value

(* Nothing is stamped with a time that no wall clock has reached: an       *)
(* update() without a timestamp is dropped only when the node's own clock  *)
(* has not moved on since the stamp it holds, or another node's clock is   *)
(* ahead.                                                                  *)
Reached(s) == \E q \in Replica : s.physical <= wall[q]
NothingFromTheFuture ==
  /\ \A r \in Replica : Reached(hlc[r])
  /\ \A g \in Held : Reached(g.stamp)
  /\ \A m \in sent : Reached(m.clock)

(* Stamps order and name the writes of one node and whoever merges them:   *)
(* no clock is behind what it stamped, no engine's stamp has two values,   *)
(* and none comes from the future.                                         *)
StampsAreSound == ClockCovers /\ StampNamesWrite /\ NothingFromTheFuture

(* A local write stamped by the engine is silently dropped by update()     *)
(* only where an update without a timestamp stands: among engines' stamps, *)
(* the clock a node writes with is after everything the node has seen.     *)
WriteTakesEffect ==
  [][\A r \in Replica, v \in Value :
       Write(r, v) => reg'[r].value = v \/ ~Named(reg[r].stamp)]_vars

(* A replica never goes back to an older write. *)
RegisterMonotone ==
  [][\A r \in Replica : reg'[r] = reg[r] \/ IsAfter(reg'[r].stamp, reg[r].stamp)]_vars

(* Class docstrings: HLCTimestamp provides "Total ordering of events" and  *)
(* LWWRegister is a CRDT, so merging two replicas gives the same value on  *)
(* both sides.                                                             *)
MergeCommutes ==
  \A r, s \in Replica :
    MergeRegister(reg[r], reg[s]).value = MergeRegister(reg[s], reg[r]).value
=============================================================================
