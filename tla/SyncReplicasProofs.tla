------------------------- MODULE SyncReplicasProofs -------------------------
(***************************************************************************)
(* Proofs about SyncReplicas, for any number of nodes, any clock skew and  *)
(* any loss, repetition and reordering of snapshots.  The inductive        *)
(* invariant adds that a node signs stamps with its own name and that its  *)
(* clock covers every stamp that carries its name; stamps taken from the   *)
(* wall clock carry no name and are only known to be reached by some wall. *)
(***************************************************************************)
EXTENDS SyncReplicas, TLAPS

SignsOwnName == \A r \in Replica : hlc[r].node = r

OwnerCovers ==
  \A g \in Held : Named(g.stamp) => ~IsAfter(g.stamp, hlc[g.stamp.node])

Inv ==
  /\ TypeOK /\ SignsOwnName /\ OwnerCovers
  /\ ClockCovers /\ StampNamesWrite /\ NothingFromTheFuture

(* The clock operations. *)
LEMMA IncrementIsAfter ==
  ASSUME NEW a \in Stamp
  PROVE  /\ Increment(a) \in Stamp /\ Increment(a).node = a.node
         /\ IsAfter(Increment(a), a)
BY DEF Stamp, Increment, IsAfter

LEMMA MergeIsAfter ==
  ASSUME NEW a \in Stamp, NEW b \in Stamp
  PROVE  /\ MergeClock(a, b) \in Stamp /\ MergeClock(a, b).node = a.node
         /\ IsAfter(MergeClock(a, b), a) /\ IsAfter(MergeClock(a, b), b)
BY DEF Stamp, MergeClock, Larger, IsAfter

(* What a clock covers it still covers after it has moved on, strictly. *)
LEMMA CoverMoves ==
  ASSUME NEW a \in Stamp, NEW b \in Stamp, NEW c \in Stamp, ~IsAfter(a, b), IsAfter(c, b)
  PROVE  ~IsAfter(a, c) /\ IsAfter(c, a) /\ a # c
BY DEF Stamp, IsAfter

LEMMA NotAfterSelf == ASSUME NEW a \in Stamp PROVE ~IsAfter(a, a)
BY DEF Stamp, IsAfter

LEMMA NowTyped ==
  ASSUME TypeOK, NEW r \in Replica
  PROVE  Now(r) \in Stamp /\ ~Named(Now(r)) /\ Reached(Now(r))
BY DEF TypeOK, Now, Stamp, Named, Reached

(* A merged clock reads a time one of the two had reached. *)
LEMMA MergeReached ==
  ASSUME NEW a \in Stamp, NEW b \in Stamp, Reached(a), Reached(b)
  PROVE  Reached(MergeClock(a, b))
BY DEF Stamp, MergeClock, Larger, Reached

LEMMA IncrementReached ==
  ASSUME NEW a \in Stamp, Reached(a) PROVE Reached(Increment(a))
BY DEF Stamp, Increment, Reached

LEMMA InitInv == Init => Inv
<1> SUFFICES ASSUME Init PROVE Inv
  OBVIOUS
<1>1. PICK stamps \in [Replica -> BOOLEAN] :
        reg = [r \in Replica |-> [value |-> NoValue, stamp |-> IF stamps[r] THEN hlc[r] ELSE Now(r)]]
  BY DEF Init
<1>2. /\ sent = {} /\ wall \in [Replica -> StartTimes]
      /\ hlc = [r \in Replica |-> [physical |-> wall[r], logical |-> 0, node |-> r]]
  BY DEF Init
<1>3. \A r \in Replica : wall[r] \in Nat
  BY <1>2, SyncAssumption
<1>4. \A r \in Replica : hlc[r] \in Stamp /\ hlc[r].node = r /\ Reached(hlc[r])
  BY <1>2, <1>3 DEF Stamp, Reached
<1>5. \A r \in Replica : Now(r) \in Stamp /\ ~Named(Now(r)) /\ Reached(Now(r))
  BY <1>3 DEF Now, Stamp, Named, Reached
<1>6. \A r \in Replica : /\ reg[r].value = NoValue /\ reg[r] \in Register
                         /\ reg[r].stamp \in {hlc[r], Now(r)} /\ Reached(reg[r].stamp)
  <2> SUFFICES ASSUME NEW r \in Replica
               PROVE  /\ reg[r].value = NoValue /\ reg[r] \in Register
                      /\ reg[r].stamp \in {hlc[r], Now(r)} /\ Reached(reg[r].stamp)
    OBVIOUS
  <2>1. PICK st \in {hlc[r], Now(r)} : reg[r] = [value |-> NoValue, stamp |-> st]
    BY <1>1
  <2>2. st \in Stamp /\ Reached(st)
    BY <1>4, <1>5
  <2> QED BY <2>1, <2>2 DEF Register
<1>7. TypeOK
  <2>1. reg \in [Replica -> Register]
    BY <1>1, <1>6
  <2>2. hlc \in [Replica -> Stamp] /\ wall \in [Replica -> Nat]
    BY <1>2, <1>3, <1>4
  <2> QED BY <1>2, <2>1, <2>2 DEF Init, TypeOK
<1>8. Held = {reg[r] : r \in Replica}
  BY <1>2 DEF Held
<1>9. SignsOwnName /\ StampNamesWrite /\ NothingFromTheFuture
  BY <1>2, <1>4, <1>6, <1>8 DEF SignsOwnName, StampNamesWrite, NothingFromTheFuture
<1>10. OwnerCovers /\ ClockCovers
  <2>1. ASSUME NEW r \in Replica, Named(reg[r].stamp)
        PROVE  reg[r].stamp.node = r /\ ~IsAfter(reg[r].stamp, hlc[r])
    <3>1. reg[r].stamp = hlc[r]
      BY <1>5, <1>6, <2>1
    <3> QED BY <1>4, <3>1, NotAfterSelf
  <2> QED BY <1>2, <1>8, <2>1 DEF OwnerCovers, ClockCovers
<1> QED BY <1>7, <1>9, <1>10 DEF Inv

(* A step in which r's clock stands still or moves on and r's register is  *)
(* kept, replaced by a received one, by a write stamped with the new       *)
(* clock, or by one stamped with the wall clock.                           *)
LEMMA ClockStep ==
  ASSUME Inv, NEW r \in Replica, NEW c \in Stamp, NEW g \in Register,
         c.node = r, c = hlc[r] \/ IsAfter(c, hlc[r]),
         hlc' = [hlc EXCEPT ![r] = c], reg' = [reg EXCEPT ![r] = g], sent' = sent, wall' = wall,
         connected' \in [Replica -> BOOLEAN], queued' \in [Replica -> SUBSET Point],
         uploaded' \subseteq Point,
         Named(g.stamp) => ~IsAfter(g.stamp, c),
         g \in Held \/ (g.stamp = c /\ IsAfter(c, hlc[r])) \/ ~Named(g.stamp),
         Reached(c), Reached(g.stamp)
  PROVE  Inv'
<1> USE DEF Inv
<1>1. /\ hlc'[r] = c /\ \A q \in Replica : q # r => hlc'[q] = hlc[q]
      /\ reg'[r] = g /\ \A q \in Replica : q # r => reg'[q] = reg[q]
  BY DEF TypeOK
<1>2. Held \subseteq Register
      /\ \A h \in Held : h.stamp \in Stamp /\ (Named(h.stamp) => h.stamp.node \in Replica)
  BY DEF Held, TypeOK, Message, Register, Stamp, Named
<1>3. Held' \subseteq Held \cup {g}
  BY <1>1 DEF Held
<1>4. TypeOK'
  BY DEF TypeOK
<1>5. SignsOwnName'
  BY <1>1 DEF SignsOwnName
<1>6. \A h \in Held : Named(h.stamp) =>
        /\ ~IsAfter(h.stamp, hlc'[h.stamp.node])
        /\ IsAfter(c, hlc[r]) => h.stamp # c
  <2> SUFFICES ASSUME NEW h \in Held, Named(h.stamp)
               PROVE  /\ ~IsAfter(h.stamp, hlc'[h.stamp.node])
                      /\ IsAfter(c, hlc[r]) => h.stamp # c
    OBVIOUS
  <2>1. ~IsAfter(h.stamp, hlc[h.stamp.node])
    BY DEF OwnerCovers
  <2>2. CASE h.stamp.node = r /\ IsAfter(c, hlc[r])
    BY <1>1, <1>2, <2>1, <2>2, CoverMoves DEF TypeOK
  <2>3. CASE h.stamp.node = r /\ ~IsAfter(c, hlc[r])
    BY <1>1, <2>1, <2>3
  <2>4. CASE h.stamp.node # r
    BY <1>1, <1>2, <2>1, <2>4
  <2> QED BY <2>2, <2>3, <2>4
<1>7. OwnerCovers'
  <2> SUFFICES ASSUME NEW h \in Held', Named(h.stamp) PROVE ~IsAfter(h.stamp, hlc'[h.stamp.node])
    BY DEF OwnerCovers
  <2>1. CASE h \in Held
    BY <1>6, <2>1
  <2>2. CASE h = g /\ g.stamp = c
    BY <1>1, <2>2, NotAfterSelf
  <2> QED BY <1>3, <2>1, <2>2
<1>8. StampNamesWrite'
  <2> SUFFICES ASSUME NEW h \in Held', NEW k \in Held', h.stamp = k.stamp, Named(h.stamp)
               PROVE  h.value = k.value
    BY DEF StampNamesWrite
  <2>1. CASE h \in Held /\ k \in Held
    BY <2>1 DEF StampNamesWrite
  <2>2. CASE h \notin Held
    <3>1. h = g /\ g.stamp = c /\ IsAfter(c, hlc[r])
      BY <1>3, <2>2
    <3> QED BY <1>3, <1>6, <3>1
  <2>3. CASE k \notin Held
    <3>1. k = g /\ g.stamp = c /\ IsAfter(c, hlc[r])
      BY <1>3, <2>3
    <3> QED BY <1>3, <1>6, <3>1
  <2> QED BY <2>1, <2>2, <2>3
<1>9. ClockCovers'
  <2>1. \A q \in Replica : Named(reg'[q].stamp) => ~IsAfter(reg'[q].stamp, hlc'[q])
    BY <1>1 DEF ClockCovers
  <2> QED BY <2>1 DEF ClockCovers
<1>10. NothingFromTheFuture'
  <2>1. \A q \in Replica : Reached(hlc'[q])
    BY <1>1 DEF NothingFromTheFuture
  <2>2. \A h \in Held' : Reached(h.stamp)
    BY <1>3 DEF NothingFromTheFuture
  <2>3. \A st : Reached(st)' <=> \E q \in Replica : (st.physical <= wall[q])'
    BY DEF Reached
  <2> QED BY <2>1, <2>2 DEF NothingFromTheFuture, Reached
<1> QED BY <1>4, <1>5, <1>7, <1>8, <1>9, <1>10

(* What r holds, and what update() with the ticked clock makes of it: the  *)
(* write, unless a stamp of the wall clock stands in its way.              *)
LEMMA UpdateApplies ==
  ASSUME Inv, NEW r \in Replica, NEW v \in Value
  PROVE  LET s == Increment(hlc[r])  g == Update(reg[r], v, s) IN
         /\ g \in Register
         /\ \/ g = [value |-> v, stamp |-> s] /\ IsAfter(s, reg[r].stamp)
            \/ g = reg[r] /\ ~Named(reg[r].stamp)
<1> DEFINE s == Increment(hlc[r])
<1>1. hlc[r] \in Stamp /\ reg[r] \in Register /\ reg[r].stamp \in Stamp
  BY DEF Inv, TypeOK, Register
<1>2. s \in Stamp /\ IsAfter(s, hlc[r])
  BY <1>1, IncrementIsAfter
<1>3. Named(reg[r].stamp) => ~IsAfter(reg[r].stamp, hlc[r])
  BY DEF Inv, ClockCovers
<1> HIDE DEF s
<1>4. Named(reg[r].stamp) => IsAfter(s, reg[r].stamp)
  BY <1>1, <1>2, <1>3, CoverMoves
<1>5. [value |-> v, stamp |-> s] \in Register
  BY <1>2 DEF Register
<1> QED BY <1>1, <1>4, <1>5 DEF Update, s

LEMMA TickStep ==
  ASSUME Inv, NEW r \in Replica, hlc' = [hlc EXCEPT ![r] = Increment(@)], reg' = reg, sent' = sent,
         wall' = wall, connected' = connected, queued' = queued, uploaded' \subseteq Point
  PROVE  Inv'
<1>1. hlc[r] \in Stamp /\ reg[r] \in Register /\ reg[r].stamp \in Stamp /\ reg[r] \in Held
  BY DEF Inv, TypeOK, Register, Held
<1>2. /\ Increment(hlc[r]) \in Stamp /\ Increment(hlc[r]).node = r
      /\ IsAfter(Increment(hlc[r]), hlc[r])
  BY <1>1, IncrementIsAfter DEF Inv, SignsOwnName
<1>3. Named(reg[r].stamp) => ~IsAfter(reg[r].stamp, Increment(hlc[r]))
  BY <1>1, <1>2, CoverMoves DEF Inv, ClockCovers
<1>4. hlc' = [hlc EXCEPT ![r] = Increment(hlc[r])] /\ reg' = [reg EXCEPT ![r] = reg[r]]
  BY DEF Inv, TypeOK
<1>5. connected' \in [Replica -> BOOLEAN] /\ queued' \in [Replica -> SUBSET Point]
  BY DEF Inv, TypeOK
<1>6. Reached(Increment(hlc[r])) /\ Reached(reg[r].stamp)
  BY <1>1, IncrementReached DEF Inv, NothingFromTheFuture
<1> QED BY <1>1, <1>2, <1>3, <1>4, <1>5, <1>6, ClockStep

LEMMA WriteStep ==
  ASSUME Inv, NEW r \in Replica, NEW v \in Value, Write(r, v)
  PROVE  Inv'
<1> DEFINE s == Increment(hlc[r])
           g == Update(reg[r], v, s)
<1>1. hlc[r] \in Stamp /\ reg[r] \in Held /\ Reached(hlc[r]) /\ Reached(reg[r].stamp)
  BY DEF Inv, TypeOK, Held, NothingFromTheFuture
<1>2. s \in Stamp /\ s.node = r /\ IsAfter(s, hlc[r]) /\ Reached(s)
  BY <1>1, IncrementIsAfter, IncrementReached DEF Inv, SignsOwnName
<1>3. g \in Register /\ (g.stamp = s \/ (g = reg[r] /\ ~Named(reg[r].stamp)))
  <2>1. g \in Register /\ \/ g = [value |-> v, stamp |-> s]
                          \/ g = reg[r] /\ ~Named(reg[r].stamp)
    BY UpdateApplies
  <2> QED BY <2>1
<1>4. hlc' = [hlc EXCEPT ![r] = s] /\ reg' = [reg EXCEPT ![r] = g] /\ wall' = wall
      /\ sent' = sent /\ connected' = connected /\ queued' = queued /\ uploaded' = uploaded
  BY DEF Write
<1>5. connected' \in [Replica -> BOOLEAN] /\ queued' \in [Replica -> SUBSET Point]
      /\ uploaded' \subseteq Point
  BY <1>4 DEF Inv, TypeOK
<1> HIDE DEF s, g
<1>6. (Named(g.stamp) => ~IsAfter(g.stamp, s)) /\ Reached(g.stamp)
  BY <1>1, <1>2, <1>3, NotAfterSelf
<1>7. g \in Held \/ (g.stamp = s /\ IsAfter(s, hlc[r])) \/ ~Named(g.stamp)
  BY <1>1, <1>2, <1>3
<1> QED BY <1>2, <1>3, <1>4, <1>5, <1>6, <1>7, ClockStep

LEMMA UnstampedStep ==
  ASSUME Inv, NEW r \in Replica, NEW v \in Value, UpdateUnstamped(r, v)
  PROVE  Inv'
<1> DEFINE g == Update(reg[r], v, Now(r))
<1>1. /\ hlc[r] \in Stamp /\ hlc[r].node = r /\ Reached(hlc[r])
      /\ reg[r] \in Register /\ reg[r] \in Held /\ Reached(reg[r].stamp)
      /\ Named(reg[r].stamp) => ~IsAfter(reg[r].stamp, hlc[r])
  BY DEF Inv, TypeOK, Held, SignsOwnName, ClockCovers, NothingFromTheFuture
<1>2. Now(r) \in Stamp /\ ~Named(Now(r)) /\ Reached(Now(r))
  BY NowTyped DEF Inv
<1>3. [value |-> v, stamp |-> Now(r)] \in Register
  BY <1>2 DEF Register
<1>4. g = reg[r] \/ g = [value |-> v, stamp |-> Now(r)]
  BY DEF Update
<1>5. hlc' = [hlc EXCEPT ![r] = hlc[r]] /\ reg' = [reg EXCEPT ![r] = g] /\ wall' = wall
      /\ sent' = sent /\ connected' = connected /\ queued' = queued /\ uploaded' = uploaded
  BY DEF UpdateUnstamped, Inv, TypeOK
<1>6. connected' \in [Replica -> BOOLEAN] /\ queued' \in [Replica -> SUBSET Point]
      /\ uploaded' \subseteq Point
  BY <1>5 DEF Inv, TypeOK
<1> HIDE DEF g
<1>7. /\ g \in Register /\ Reached(g.stamp)
      /\ Named(g.stamp) => ~IsAfter(g.stamp, hlc[r])
      /\ g \in Held \/ ~Named(g.stamp)
  BY <1>1, <1>2, <1>3, <1>4
<1> QED BY <1>1, <1>5, <1>6, <1>7, ClockStep

LEMMA ReceiveStep ==
  ASSUME Inv, NEW r \in Replica, NEW m \in sent, Receive(r, m)
  PROVE  Inv'
<1> DEFINE c == MergeClock(hlc[r], m.clock)
           g == MergeRegister(reg[r], m.reg)
<1>1. /\ hlc[r] \in Stamp /\ m.clock \in Stamp /\ reg[r] \in Register /\ m.reg \in Register
      /\ reg[r].stamp \in Stamp /\ m.reg.stamp \in Stamp
      /\ reg[r] \in Held /\ m.reg \in Held
  BY DEF Inv, TypeOK, Message, Register, Held
<1>2. c \in Stamp /\ c.node = r /\ IsAfter(c, hlc[r]) /\ IsAfter(c, m.clock)
  BY <1>1, MergeIsAfter DEF Inv, SignsOwnName
<1>3. g \in Register /\ g \in Held /\ g \in {reg[r], m.reg}
  BY <1>1 DEF MergeRegister
<1>4. hlc' = [hlc EXCEPT ![r] = c] /\ reg' = [reg EXCEPT ![r] = g] /\ wall' = wall
      /\ sent' = sent /\ connected' = connected /\ queued' = queued /\ uploaded' = uploaded
  BY DEF Receive
<1>5. connected' \in [Replica -> BOOLEAN] /\ queued' \in [Replica -> SUBSET Point]
      /\ uploaded' \subseteq Point
  BY <1>4 DEF Inv, TypeOK
<1>6. /\ Named(reg[r].stamp) => ~IsAfter(reg[r].stamp, hlc[r])
      /\ Named(m.reg.stamp) => ~IsAfter(m.reg.stamp, m.clock)
  BY DEF Inv, ClockCovers
<1>7. Reached(c) /\ Reached(g.stamp)
  <2>1. Reached(hlc[r]) /\ Reached(m.clock) /\ Reached(reg[r].stamp) /\ Reached(m.reg.stamp)
    BY <1>1 DEF Inv, NothingFromTheFuture
  <2> QED BY <1>1, <1>3, <2>1, MergeReached
<1> HIDE DEF c, g
<1>8. /\ Named(reg[r].stamp) => ~IsAfter(reg[r].stamp, c)
      /\ Named(m.reg.stamp) => ~IsAfter(m.reg.stamp, c)
  BY <1>1, <1>2, <1>6, CoverMoves
<1>9. Named(g.stamp) => ~IsAfter(g.stamp, c)
  BY <1>3, <1>8
<1> QED BY <1>2, <1>3, <1>4, <1>5, <1>7, <1>9, ClockStep

LEMMA SendStep ==
  ASSUME Inv, NEW r \in Replica, Send(r)
  PROVE  Inv'
<1>1. Held' = Held
  BY DEF Send, Held
<1>2. [clock |-> hlc[r], reg |-> reg[r]] \in Message
  BY DEF Inv, TypeOK, Message
<1>3. TypeOK'
  BY <1>2 DEF Inv, TypeOK, Send
<1>4. SignsOwnName' /\ OwnerCovers' /\ StampNamesWrite'
  BY <1>1 DEF Inv, SignsOwnName, OwnerCovers, StampNamesWrite, Send
<1>5. ClockCovers'
  BY DEF Inv, ClockCovers, Send
<1>6. NothingFromTheFuture'
  BY <1>1 DEF Inv, NothingFromTheFuture, Reached, Send
<1> QED BY <1>3, <1>4, <1>5, <1>6 DEF Inv

(* Steps that leave clocks and registers alone; time may pass. *)
LEMMA QuietStep ==
  ASSUME Inv, UNCHANGED <<hlc, reg, sent>>, connected' \in [Replica -> BOOLEAN],
         queued' \in [Replica -> SUBSET Point], uploaded' \subseteq Point,
         wall' \in [Replica -> Nat], \A r \in Replica : wall[r] <= wall'[r]
  PROVE  Inv'
<1>1. Held' = Held
  BY DEF Held
<1>2. TypeOK' /\ SignsOwnName' /\ OwnerCovers' /\ ClockCovers' /\ StampNamesWrite'
  BY <1>1 DEF Inv, TypeOK, SignsOwnName, OwnerCovers, ClockCovers, StampNamesWrite
<1>3. ASSUME NEW st \in Stamp, Reached(st) PROVE \E q \in Replica : st.physical <= wall'[q]
  <2>1. PICK q \in Replica : st.physical <= wall[q]
    BY <1>3 DEF Reached
  <2>2. st.physical \in Nat /\ wall[q] \in Nat /\ wall'[q] \in Nat /\ wall[q] <= wall'[q]
    BY DEF Stamp, Inv, TypeOK
  <2> QED BY <2>1, <2>2
<1>4. /\ \A r \in Replica : hlc[r] \in Stamp
      /\ \A g \in Held : g.stamp \in Stamp
      /\ \A m \in sent : m.clock \in Stamp
  BY DEF Inv, TypeOK, Held, Message, Register
<1>5. NothingFromTheFuture'
  BY <1>1, <1>3, <1>4 DEF Inv, NothingFromTheFuture, Reached
<1> QED BY <1>2, <1>5 DEF Inv

LEMMA InvStep == Inv /\ [Next]_vars => Inv'
<1> SUFFICES ASSUME Inv, [Next]_vars PROVE Inv'
  OBVIOUS
<1> USE DEF vars
<1>0. wall \in [Replica -> Nat] /\ \A r \in Replica : wall[r] <= wall[r]
  BY DEF Inv, TypeOK
<1>1. CASE UNCHANGED vars
  BY <1>0, <1>1, QuietStep DEF Inv, TypeOK
<1>2. ASSUME NEW r \in Replica, Connect(r) \/ Disconnect(r) PROVE Inv'
  BY <1>0, <1>2, QuietStep DEF Connect, Disconnect, Inv, TypeOK
<1>3. ASSUME NEW r \in Replica, Heartbeat(r) PROVE Inv'
  BY <1>3, TickStep DEF Heartbeat, Inv, TypeOK
<1>4. ASSUME NEW r \in Replica, Send(r) PROVE Inv'
  BY <1>4, SendStep
<1>5. ASSUME NEW r \in Replica, NEW p \in Point, QueueUpload(r, p) PROVE Inv'
  BY <1>0, <1>5, QuietStep DEF QueueUpload, Inv, TypeOK
<1>6. ASSUME NEW r \in Replica, NEW p \in Point, Upload(r, p) PROVE Inv'
  BY <1>6, TickStep DEF Upload, Inv, TypeOK
<1>7. ASSUME NEW r \in Replica, NEW v \in Value, Write(r, v) PROVE Inv'
  BY <1>7, WriteStep
<1>8. ASSUME NEW r \in Replica, NEW m \in sent, Receive(r, m) PROVE Inv'
  BY <1>8, ReceiveStep
<1>9. ASSUME NEW r \in Replica, NEW v \in Value, UpdateUnstamped(r, v) PROVE Inv'
  BY <1>9, UnstampedStep
<1>10. ASSUME NEW r \in Replica, Tick(r) PROVE Inv'
  <2>1. wall' \in [Replica -> Nat] /\ \A q \in Replica : wall[q] <= wall'[q]
    BY <1>0, <1>10 DEF Tick
  <2> QED BY <1>10, <2>1, QuietStep DEF Tick, Inv, TypeOK
<1> QED BY <1>1, <1>2, <1>3, <1>4, <1>5, <1>6, <1>7, <1>8, <1>9, <1>10 DEF Next

LEMMA InvAlways == Spec => []Inv
BY InitInv, InvStep, PTL DEF Spec

(* Clocks, registers, snapshots and queues keep their types. *)
THEOREM TypesKept == Spec => []TypeOK
BY InvAlways, PTL DEF Inv

(* An engine's clock covers what it stamped wherever that is held, no two  *)
(* writes ever share an engine's stamp, and no stamp, not even one taken   *)
(* from a wall clock, is ahead of every wall clock.                        *)
THEOREM StampsSound == Spec => []StampsAreSound
<1>1. Inv => StampsAreSound
  BY DEF Inv, StampsAreSound
<1> QED BY <1>1, InvAlways, PTL

(* A local write stamped by the engine becomes the value the node holds,   *)
(* unless an update without a timestamp stands there.                      *)
THEOREM WritesLand == Spec => WriteTakesEffect
<1>1. ASSUME Inv, NEW r \in Replica, NEW v \in Value, Write(r, v)
      PROVE  reg'[r].value = v \/ ~Named(reg[r].stamp)
  <2>1. reg'[r] = Update(reg[r], v, Increment(hlc[r]))
    BY <1>1 DEF Write, Inv, TypeOK
  <2> DEFINE g == Update(reg[r], v, Increment(hlc[r]))
  <2>2. g = [value |-> v, stamp |-> Increment(hlc[r])] \/ ~Named(reg[r].stamp)
    BY <1>1, UpdateApplies
  <2>3. reg'[r] = g
    BY <2>1
  <2> HIDE DEF g
  <2> QED BY <2>2, <2>3
<1>2. Inv => [\A r \in Replica, v \in Value :
                Write(r, v) => reg'[r].value = v \/ ~Named(reg[r].stamp)]_vars
  BY <1>1
<1> QED BY <1>2, InvAlways, PTL DEF WriteTakesEffect

(* No replica goes back to an older write. *)
THEOREM NeverOlder == Spec => RegisterMonotone
<1> DEFINE Forward == \A r \in Replica : reg'[r] = reg[r] \/ IsAfter(reg'[r].stamp, reg[r].stamp)
<1>1. ASSUME Inv, Next PROVE Forward
  <2>1. CASE reg' = reg
    BY <2>1
  <2>2. ASSUME NEW r \in Replica, NEW v \in Value, NEW s, reg' = [reg EXCEPT ![r] = Update(@, v, s)]
        PROVE  Forward
    BY <1>1, <2>2 DEF Update, Inv, TypeOK
  <2>3. ASSUME NEW r \in Replica, NEW m \in sent, Receive(r, m) PROVE Forward
    BY <1>1, <2>3 DEF Receive, MergeRegister, Inv, TypeOK
  <2>4. ASSUME NEW r \in Replica, NEW v \in Value, Write(r, v) \/ UpdateUnstamped(r, v)
        PROVE  Forward
    BY <2>2, <2>4 DEF Write, UpdateUnstamped
  <2> QED BY <1>1, <2>1, <2>3, <2>4
          DEF Next, Connect, Disconnect, Heartbeat, Send, Tick, QueueUpload, Upload
<1>2. Inv /\ [Next]_vars => [Forward]_vars
  BY <1>1
<1> QED BY <1>2, InvAlways, PTL DEF Spec, RegisterMonotone
=============================================================================
