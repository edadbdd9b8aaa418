------------------------- MODULE BatchWriterProofs -------------------------
(***************************************************************************)
(* Proofs about BatchWriter, for any points, clients, batch size, capacity *)
(* and call size.  The inductive invariant Inv adds two facts to the       *)
(* safety invariants: a task that is not suspended in _flush carries no    *)
(* batch, and a point that was not submitted yet is nowhere.               *)
(***************************************************************************)
EXTENDS BatchWriter, FiniteSetTheorems, TLAPS

IdleCarriesNothing ==
  /\ \A c \in Clients : call[c] = {} => batch[c] = {}
  /\ loopState # "flushing" => batch[Loop] = {}
  /\ stopState # "flushing" => batch[Stopper] = {}

Known == buffer \cup InFlight \cup rejected \cup stored \cup dropped \cup lost

FreshIsNew == fresh \cap Known = {}

Inv ==
  /\ TypeOK
  /\ IdleCarriesNothing
  /\ FreshIsNew
  /\ NoDoubleFlush
  /\ NoPointForgotten
  /\ RefusedIsFinal

Submit(c, ps) == Reject(c, ps) \/ Enqueue(c, ps) \/ EnqueueAndFlush(c, ps)

(* Every set of points has a natural number of elements. *)
LEMMA PointCount ==
  ASSUME NEW S \in SUBSET Points
  PROVE  Cardinality(S) \in Nat
BY BatchWriterAssumption, FS_Subset, FS_CardinalityType

(* Type correctness is inductive by itself. *)
LEMMA TypeStep == TypeOK /\ [Next]_vars => TypeOK'
<1> SUFFICES ASSUME TypeOK, [Next]_vars PROVE TypeOK'
  OBVIOUS
<1> USE DEF TypeOK, Task
<1>1. ASSUME NEW c \in Clients, NEW ps \in SUBSET fresh, Submit(c, ps)
      PROVE  TypeOK'
  <2>1. ps \in SUBSET Points /\ Valid(ps) \in SUBSET Points
    BY DEF Valid
  <2>2. Cardinality(ps) \in Nat /\ Cardinality(Valid(ps)) \in Nat
    BY <2>1, PointCount
  <2>3. CASE Reject(c, ps)
    BY <2>1, <2>2, <2>3 DEF Reject
  <2>4. CASE Enqueue(c, ps)
    BY <2>1, <2>2, <2>4 DEF Enqueue, sinkVars
  <2>5. CASE EnqueueAndFlush(c, ps)
    BY <2>1, <2>2, <2>5 DEF EnqueueAndFlush, sinkVars, statVars
  <2> QED BY <1>1, <2>3, <2>4, <2>5 DEF Submit
<1>2. CASE Start
  BY <1>2 DEF Start, sinkVars, statVars
<1>3. CASE FlushTick
  BY <1>3 DEF FlushTick, sinkVars, statVars
<1>4. CASE StopCancels
  BY <1>4 DEF StopCancels, sinkVars, statVars
<1>5. CASE CancelLands
  BY <1>5 DEF CancelLands, sinkVars, statVars
<1>6. CASE StopFlushes
  BY <1>6 DEF StopFlushes, sinkVars, statVars
<1>7. ASSUME NEW t \in Task, WriterReturns(t) \/ WriterRaises(t)
      PROVE  TypeOK'
  <2>1. batch[t] \in SUBSET Points
    OBVIOUS
  <2>2. ASSUME t \in Clients PROVE Cardinality(call[t]) \in Nat
    BY <2>2, PointCount
  <2>3. \A ok \in SUBSET batch[t] : Cardinality(ok) \in Nat
    BY <2>1, PointCount
  <2>4. CASE WriterReturns(t)
    BY <2>1, <2>2, <2>3, <2>4 DEF WriterReturns, Resume
  <2>5. CASE WriterRaises(t)
    BY <2>1, <2>2, <2>5 DEF WriterRaises, Resume
  <2> QED BY <1>7, <2>4, <2>5
<1>8. CASE UNCHANGED vars
  BY <1>8 DEF vars, sinkVars, statVars
<1> QED
  BY <1>1, <1>2, <1>3, <1>4, <1>5, <1>6, <1>7, <1>8 DEF Next, Submit

(* The points in flight after a step that changes one task's batch. *)
LEMMA InFlightChange ==
  ASSUME TypeOK, NEW t \in Task, NEW S, batch' = [batch EXCEPT ![t] = S]
  PROVE  /\ batch'[t] = S
         /\ \A u \in Task : u # t => batch'[u] = batch[u]
         /\ InFlight' = S \cup UNION {batch[u] : u \in Task \ {t}}
<1>1. batch'[t] = S /\ \A u \in Task : u # t => batch'[u] = batch[u]
  BY DEF TypeOK
<1>2. ASSUME NEW p PROVE p \in InFlight' <=> p \in S \cup UNION {batch[u] : u \in Task \ {t}}
  BY <1>1 DEF InFlight
<1> QED BY <1>1, <1>2

LEMMA InFlightSplit ==
  ASSUME NEW t \in Task
  PROVE  InFlight = batch[t] \cup UNION {batch[u] : u \in Task \ {t}}
BY DEF InFlight

LEMMA InitInv == Init => Inv
<1> SUFFICES ASSUME Init PROVE Inv
  OBVIOUS
<1>1. TypeOK
  BY DEF Init, TypeOK
<1>2. \A t \in Task : batch[t] = {}
  BY DEF Init
<1>3. InFlight = {}
  BY <1>2 DEF InFlight
<1>4. IdleCarriesNothing
  BY <1>2 DEF IdleCarriesNothing, Task
<1>5. FreshIsNew /\ RefusedIsFinal
  BY <1>3 DEF Init, FreshIsNew, Known, RefusedIsFinal
<1>6. NoDoubleFlush
  BY <1>2 DEF NoDoubleFlush
<1>7. NoPointForgotten
  BY DEF NoPointForgotten, Accepted, Init
<1> QED BY <1>1, <1>4, <1>5, <1>6, <1>7 DEF Inv

(* A step that leaves every batch alone leaves InFlight alone. *)
LEMMA BatchesUntouched == batch' = batch => InFlight' = InFlight
BY DEF InFlight

LEMMA SubmitStep ==
  ASSUME Inv, TypeOK', NEW c \in Clients, NEW ps \in SUBSET fresh, Submit(c, ps)
  PROVE  Inv'
<1> USE DEF Inv
<1>1. Valid(ps) \subseteq ps /\ Valid(ps) \cap Invalid = {} /\ ps \subseteq Valid(ps) \cup Invalid
  BY DEF Valid
<1>2. CASE Reject(c, ps)
  <2>1. InFlight' = InFlight
    BY <1>2, BatchesUntouched DEF Reject
  <2>2. IdleCarriesNothing' /\ NoDoubleFlush'
    BY <1>2 DEF Reject, IdleCarriesNothing, NoDoubleFlush
  <2>3. FreshIsNew' /\ NoPointForgotten' /\ RefusedIsFinal'
    BY <1>1, <1>2, <2>1 DEF Reject, FreshIsNew, Known, NoPointForgotten, Accepted, RefusedIsFinal
  <2> QED BY <2>2, <2>3
<1>3. CASE Enqueue(c, ps)
  <2>1. InFlight' = InFlight
    BY <1>3, BatchesUntouched DEF Enqueue
  <2>2. IdleCarriesNothing'
    BY <1>3 DEF Enqueue, IdleCarriesNothing
  <2>3. NoDoubleFlush'
    BY <1>1, <1>3 DEF Enqueue, NoDoubleFlush, FreshIsNew, Known, InFlight
  <2>4. FreshIsNew' /\ NoPointForgotten' /\ RefusedIsFinal'
    BY <1>1, <1>3, <2>1
       DEF Enqueue, sinkVars, FreshIsNew, Known, NoPointForgotten, Accepted, RefusedIsFinal
  <2> QED BY <2>2, <2>3, <2>4
<1>4. CASE EnqueueAndFlush(c, ps)
  <2>1. c \in Task /\ c # Loop /\ c # Stopper
    BY BatchWriterAssumption DEF Task
  <2>2. batch[c] = {}
    BY <1>4 DEF EnqueueAndFlush, CanCall, IdleCarriesNothing
  <2>3. /\ batch'[c] = buffer \cup Valid(ps)
        /\ \A u \in Task : u # c => batch'[u] = batch[u]
        /\ InFlight' = InFlight \cup buffer \cup Valid(ps)
    <3>1. batch' = [batch EXCEPT ![c] = buffer \cup Valid(ps)]
      BY <1>4 DEF EnqueueAndFlush
    <3> QED BY <3>1, <2>1, <2>2, InFlightChange, InFlightSplit
  <2>4. IdleCarriesNothing'
    <3>1. ps # {} /\ call' = [call EXCEPT ![c] = ps]
      BY <1>4 DEF EnqueueAndFlush, CanCall
    <3>2. \A d \in Clients : call'[d] = {} => d # c /\ call[d] = {}
      BY <3>1 DEF TypeOK
    <3> QED BY <1>4, <2>1, <2>3, <3>2 DEF EnqueueAndFlush, IdleCarriesNothing, Task
  <2>5. NoDoubleFlush'
    BY <1>1, <1>4, <2>1, <2>3 DEF EnqueueAndFlush, NoDoubleFlush, FreshIsNew, Known, InFlight
  <2>6. FreshIsNew' /\ NoPointForgotten' /\ RefusedIsFinal'
    BY <1>1, <1>4, <2>3
       DEF EnqueueAndFlush, sinkVars, FreshIsNew, Known, NoPointForgotten, Accepted, RefusedIsFinal
  <2> QED BY <2>4, <2>5, <2>6
<1> QED BY <1>2, <1>3, <1>4 DEF Submit

(* The loop's tick and the last flush of stop() move the buffer into a     *)
(* batch of a task that carried nothing.                                   *)
LEMMA TakeBuffer ==
  ASSUME Inv, TypeOK', NEW t \in {Loop, Stopper}, batch[t] = {},
         batch' = [batch EXCEPT ![t] = buffer], buffer' = {},
         UNCHANGED <<fresh, rejected, stored, dropped, lost>>
  PROVE  FreshIsNew' /\ NoDoubleFlush' /\ NoPointForgotten' /\ RefusedIsFinal'
<1> USE DEF Inv
<1>1. t \in Task
  BY DEF Task
<1>2. /\ batch'[t] = buffer
      /\ \A u \in Task : u # t => batch'[u] = batch[u]
      /\ InFlight' = InFlight \cup buffer
  BY <1>1, InFlightChange, InFlightSplit
<1>3. NoDoubleFlush'
  BY <1>1, <1>2 DEF NoDoubleFlush
<1> QED BY <1>2, <1>3 DEF FreshIsNew, Known, NoPointForgotten, Accepted, RefusedIsFinal

LEMMA LoopStep ==
  ASSUME Inv, TypeOK', Start \/ FlushTick \/ StopCancels \/ StopFlushes
  PROVE  Inv'
<1> USE DEF Inv, sinkVars
<1>0. Loop \in Task /\ Stopper \in Task /\ Loop # Stopper /\ Clients \subseteq Task
      /\ Loop \notin Clients /\ Stopper \notin Clients
  BY BatchWriterAssumption DEF Task
<1>1. CASE Start
  <2>1. InFlight' = InFlight
    BY <1>1, BatchesUntouched DEF Start
  <2> QED BY <1>1, <2>1 DEF Start, IdleCarriesNothing, FreshIsNew, Known, NoDoubleFlush,
                            NoPointForgotten, Accepted, RefusedIsFinal
<1>2. CASE StopCancels
  <2>1. InFlight' = InFlight
    BY <1>2, BatchesUntouched DEF StopCancels
  <2> QED BY <1>2, <2>1 DEF StopCancels, IdleCarriesNothing, FreshIsNew, Known, NoDoubleFlush,
                            NoPointForgotten, Accepted, RefusedIsFinal
<1>3. CASE FlushTick
  <2>1. IdleCarriesNothing'
    BY <1>0, <1>3 DEF FlushTick, IdleCarriesNothing, TypeOK
  <2>2. batch[Loop] = {}
    BY <1>3 DEF FlushTick, IdleCarriesNothing
  <2>3. FreshIsNew' /\ NoDoubleFlush' /\ NoPointForgotten' /\ RefusedIsFinal'
    BY <1>3, <2>2, TakeBuffer DEF FlushTick
  <2> QED BY <2>1, <2>3
<1>4. CASE StopFlushes
  <2>1. batch[Stopper] = {} /\ batch[Loop] = {}
    BY <1>4 DEF StopFlushes, IdleCarriesNothing
  <2>2. IdleCarriesNothing'
    BY <1>0, <1>4, <2>1 DEF StopFlushes, IdleCarriesNothing, TypeOK
  <2>3. FreshIsNew' /\ NoDoubleFlush' /\ NoPointForgotten' /\ RefusedIsFinal'
    BY <1>4, <2>1, TakeBuffer DEF StopFlushes
  <2> QED BY <2>2, <2>3
<1> QED BY <1>1, <1>2, <1>3, <1>4

(* A flush ends: t carries nothing any more; what it carried is back in    *)
(* the buffer or settled as written, refused or lost.                      *)
LEMMA ReleaseBatch ==
  ASSUME Inv, TypeOK', NEW t \in Task, batch' = [batch EXCEPT ![t] = {}],
         UNCHANGED <<fresh, rejected>>,
         stored \subseteq stored', stored' \subseteq stored \cup batch[t],
         dropped \subseteq dropped', lost \subseteq lost',
         \/ buffer' = buffer \cup batch[t] /\ dropped' = dropped /\ lost' = lost
         \/ /\ buffer' = buffer
            /\ dropped' \cup lost' \subseteq dropped \cup lost \cup batch[t]
            /\ batch[t] \subseteq stored' \cup dropped' \cup lost'
  PROVE  FreshIsNew' /\ NoDoubleFlush' /\ NoPointForgotten' /\ RefusedIsFinal'
<1> USE DEF Inv
<1> DEFINE Others == UNION {batch[u] : u \in Task \ {t}}
<1>1. batch'[t] = {} /\ \A u \in Task : u # t => batch'[u] = batch[u]
  BY InFlightChange
<1>2. InFlight' = Others /\ InFlight = batch[t] \cup Others
  BY InFlightChange, InFlightSplit
<1>3. Others \cap batch[t] = {} /\ buffer \cap InFlight = {}
  BY DEF NoDoubleFlush, InFlight
<1>4. NoDoubleFlush'
  BY <1>1 DEF NoDoubleFlush
<1> HIDE DEF Others
<1>5. FreshIsNew' /\ RefusedIsFinal'
  BY <1>2, <1>3 DEF FreshIsNew, Known, RefusedIsFinal
<1>6. NoPointForgotten'
  BY <1>2 DEF NoPointForgotten, Accepted
<1> QED BY <1>4, <1>5, <1>6

LEMMA WriterStep ==
  ASSUME Inv, TypeOK', NEW t \in Task, WriterReturns(t) \/ WriterRaises(t)
  PROVE  Inv'
<1> USE DEF Inv
<1>1. Resume(t)
  BY DEF WriterReturns, WriterRaises
<1>2. IdleCarriesNothing'
  <2>1. batch'[t] = {} /\ \A u \in Task : u # t => batch'[u] = batch[u]
    BY <1>1, InFlightChange DEF Resume
  <2>2. \A c \in Clients : c # t => call'[c] = call[c]
    BY <1>1 DEF Resume
  <2> QED BY <1>1, <2>1, <2>2 DEF Resume, IdleCarriesNothing, Task
<1>3. FreshIsNew' /\ NoDoubleFlush' /\ NoPointForgotten' /\ RefusedIsFinal'
  <2>1. CASE WriterReturns(t)
    BY <1>1, <2>1, ReleaseBatch DEF WriterReturns, Resume
  <2>2. CASE WriterRaises(t)
    BY <1>1, <2>2, ReleaseBatch DEF WriterRaises, Resume
  <2> QED BY <2>1, <2>2
<1> QED BY <1>2, <1>3

LEMMA CancelStep ==
  ASSUME Inv, TypeOK', CancelLands
  PROVE  Inv'
<1> USE DEF Inv
<1>1. Loop \in Task /\ Stopper \in Task /\ Loop # Stopper /\ Clients \subseteq Task
      /\ Loop \notin Clients
  BY BatchWriterAssumption DEF Task
<1>2. IdleCarriesNothing'
  BY <1>1 DEF CancelLands, IdleCarriesNothing, TypeOK
<1>3. FreshIsNew' /\ NoDoubleFlush' /\ NoPointForgotten' /\ RefusedIsFinal'
  BY <1>1, ReleaseBatch DEF CancelLands
<1> QED BY <1>2, <1>3

LEMMA InvStep == Inv /\ [Next]_vars => Inv'
<1> SUFFICES ASSUME Inv, [Next]_vars PROVE Inv'
  OBVIOUS
<1>0. TypeOK'
  BY TypeStep DEF Inv
<1>1. ASSUME NEW c \in Clients, NEW ps \in SUBSET fresh, Submit(c, ps) PROVE Inv'
  BY <1>0, <1>1, SubmitStep
<1>2. CASE Start \/ FlushTick \/ StopCancels \/ StopFlushes
  BY <1>0, <1>2, LoopStep
<1>3. CASE CancelLands
  BY <1>0, <1>3, CancelStep
<1>4. ASSUME NEW t \in Task, WriterReturns(t) \/ WriterRaises(t) PROVE Inv'
  BY <1>0, <1>4, WriterStep
<1>5. CASE UNCHANGED vars
  BY <1>0, <1>5 DEF vars, sinkVars, statVars, Inv, IdleCarriesNothing, FreshIsNew, Known,
     NoDoubleFlush, NoPointForgotten, Accepted, RefusedIsFinal, InFlight
<1> QED BY <1>1, <1>2, <1>3, <1>4, <1>5 DEF Next, Submit

LEMMA InvAlways == Spec => []Inv
BY InitInv, InvStep, PTL DEF Spec

(* Type correctness: the counters stay natural numbers, the sets sets of   *)
(* points, for every sequence of calls, flushes, failures and stops.       *)
THEOREM TypeCorrect == Spec => []TypeOK
BY InvAlways, PTL DEF Inv

(* Two suspended flushes never carry the same point, and a carried point   *)
(* is not in the buffer.                                                   *)
THEOREM FlushesDisjoint == Spec => []NoDoubleFlush
BY InvAlways, PTL DEF Inv

(* No accepted point disappears from the writer. *)
THEOREM NothingForgotten == Spec => []NoPointForgotten
BY InvAlways, PTL DEF Inv

(* Refused points never come back to the buffer or to a flush. *)
THEOREM RefusalFinal == Spec => []RefusedIsFinal
BY InvAlways, PTL DEF Inv

-----------------------------------------------------------------------------
(* The counters.  total_written is compared with the points that are       *)
(* stored and wait nowhere: a point written by a flush that then failed is *)
(* stored and buffered, and is counted when a later flush returns it.      *)
(* total_received counts the points of the calls that have returned.       *)

Settled == stored \ (buffer \cup InFlight)
Calling == UNION {call[c] : c \in Clients}
Returned == Points \ (fresh \cup Calling)

CallsDisjoint ==
  /\ \A c, d \in Clients : c # d => call[c] \cap call[d] = {}
  /\ Calling \cap fresh = {}

CountInv ==
  /\ CallsDisjoint
  /\ totalWritten <= Cardinality(Settled)
  /\ totalReceived = Cardinality(Returned)
  /\ totalRejected = Cardinality(rejected)

(* Counting points: subsets, and disjoint unions. *)
LEMMA CountSubset ==
  ASSUME NEW S \in SUBSET Points, NEW T \in SUBSET S
  PROVE  Cardinality(T) \in Nat /\ Cardinality(S) \in Nat /\ Cardinality(T) <= Cardinality(S)
BY BatchWriterAssumption, FS_Subset, FS_CardinalityType

LEMMA CountUnion ==
  ASSUME NEW S \in SUBSET Points, NEW T \in SUBSET Points, S \cap T = {}
  PROVE  /\ Cardinality(S \cup T) = Cardinality(S) + Cardinality(T)
         /\ Cardinality(S) \in Nat /\ Cardinality(T) \in Nat
<1>1. IsFiniteSet(S) /\ IsFiniteSet(T)
  BY BatchWriterAssumption, FS_Subset
<1>2. Cardinality(S \cup T) = Cardinality(S) + Cardinality(T) - Cardinality({})
  BY <1>1, FS_Union
<1> QED BY <1>2, FS_EmptySet, PointCount

(* A step that changes one call's argument changes Calling by it. *)
LEMMA CallingSplit ==
  ASSUME NEW c \in Clients
  PROVE  Calling = call[c] \cup UNION {call[d] : d \in Clients \ {c}}
BY DEF Calling

LEMMA CallingChange ==
  ASSUME TypeOK, NEW c \in Clients, NEW S, call' = [d \in Clients |-> IF d = c THEN S ELSE call[d]]
  PROVE  Calling' = S \cup UNION {call[d] : d \in Clients \ {c}}
<1>1. call'[c] = S /\ \A d \in Clients : d # c => call'[d] = call[d]
  OBVIOUS
<1>2. ASSUME NEW p PROVE p \in Calling' <=> p \in S \cup UNION {call[d] : d \in Clients \ {c}}
  BY <1>1 DEF Calling
<1> QED BY <1>2

LEMMA CallingUntouched == call' = call => Calling' = Calling
BY DEF Calling

LEMMA CountInit == Init => CountInv
<1> SUFFICES ASSUME Init PROVE CountInv
  OBVIOUS
<1>1. Calling = {} /\ Settled = {} /\ Returned = {} /\ rejected = {}
  BY DEF Init, Calling, Settled, Returned
<1>2. CallsDisjoint
  BY <1>1 DEF Init, CallsDisjoint
<1> QED BY <1>1, <1>2, FS_EmptySet DEF CountInv, Init

(* Submitting points: what is new was neither stored nor rejected before. *)
LEMMA SubmitCounts ==
  ASSUME Inv, Inv', CountInv, NEW c \in Clients, NEW ps \in SUBSET fresh, Submit(c, ps)
  PROVE  CountInv'
<1> USE DEF Inv, CountInv
<1>1. /\ Valid(ps) \subseteq ps /\ ps \in SUBSET Points /\ Valid(ps) \in SUBSET Points
      /\ ps \cap (stored \cup rejected) = {} /\ ps \cap Calling = {} /\ call[c] = {}
  BY DEF Submit, Reject, Enqueue, EnqueueAndFlush, CanCall, Valid, FreshIsNew, Known, CallsDisjoint, TypeOK
<1>2. CASE Reject(c, ps)
  <2>1. Settled' = Settled
    BY <1>2, BatchesUntouched DEF Reject, Settled
  <2>2. Calling' = Calling /\ CallsDisjoint'
    BY <1>2, CallingUntouched DEF Reject, CallsDisjoint
  <2>3. Returned' = Returned \cup ps /\ Returned \cap ps = {} /\ Returned \in SUBSET Points
    BY <1>1, <1>2, <2>2 DEF Reject, Returned, TypeOK
  <2>4. Cardinality(Returned') = Cardinality(Returned) + Cardinality(ps)
    BY <1>1, <2>3, CountUnion
  <2>5. Cardinality(rejected') = Cardinality(rejected) + Cardinality(Valid(ps))
    <3>1. rejected' = rejected \cup Valid(ps) /\ rejected \cap Valid(ps) = {}
      BY <1>1, <1>2 DEF Reject, TypeOK
    <3> QED BY <1>1, <3>1, CountUnion DEF TypeOK
  <2> QED BY <1>2, <2>1, <2>2, <2>4, <2>5 DEF Reject, TypeOK
<1>3. CASE Enqueue(c, ps)
  <2>1. Settled' = Settled
    BY <1>1, <1>3, BatchesUntouched DEF Enqueue, Settled, sinkVars
  <2>2. Calling' = Calling /\ CallsDisjoint'
    BY <1>3, CallingUntouched DEF Enqueue, CallsDisjoint
  <2>3. Returned' = Returned \cup ps /\ Returned \cap ps = {} /\ Returned \in SUBSET Points
    BY <1>1, <1>3, <2>2 DEF Enqueue, Returned, TypeOK
  <2>4. Cardinality(Returned') = Cardinality(Returned) + Cardinality(ps)
    BY <1>1, <2>3, CountUnion
  <2> QED BY <1>3, <2>1, <2>2, <2>4 DEF Enqueue, sinkVars
<1>4. CASE EnqueueAndFlush(c, ps)
  <2>1. c \in Task /\ batch[c] = {} /\ batch' = [batch EXCEPT ![c] = buffer \cup Valid(ps)]
    BY <1>1, <1>4 DEF EnqueueAndFlush, IdleCarriesNothing, Task, TypeOK
  <2>2. InFlight' = InFlight \cup buffer \cup Valid(ps)
    BY <2>1, InFlightChange, InFlightSplit
  <2>3. Settled' = Settled
    BY <1>1, <1>4, <2>2 DEF EnqueueAndFlush, Settled, sinkVars, TypeOK
  <2>4. call' = [d \in Clients |-> IF d = c THEN ps ELSE call[d]]
    BY <1>4 DEF EnqueueAndFlush, TypeOK
  <2>5. Calling' = Calling \cup ps
    BY <1>1, <2>4, CallingChange, CallingSplit
  <2>6. \A d \in Clients : call[d] \subseteq Calling
    BY DEF Calling
  <2>7. CallsDisjoint'
    BY <1>1, <1>4, <2>4, <2>5, <2>6 DEF EnqueueAndFlush, CallsDisjoint, TypeOK
  <2>8. Returned' = Returned
    BY <1>1, <1>4, <2>5 DEF EnqueueAndFlush, Returned, TypeOK
  <2> QED BY <1>4, <2>3, <2>7, <2>8 DEF EnqueueAndFlush, sinkVars, statVars
<1> QED BY <1>2, <1>3, <1>4 DEF Submit

(* A call that waited for a flush returns: its points count as received. *)
LEMMA ResumeCounts ==
  ASSUME Inv, CountInv, NEW t \in Task, Resume(t)
  PROVE  CallsDisjoint' /\ totalReceived' = Cardinality(Returned')
<1> USE DEF Inv, CountInv
<1>1. CASE t \in Clients
  <2> DEFINE Others == UNION {call[d] : d \in Clients \ {t}}
  <2>1. call' = [c \in Clients |-> IF c = t THEN {} ELSE call[c]]
    BY <1>1 DEF Resume, TypeOK
  <2>2. Calling' = {} \cup Others
    BY <1>1, <2>1, CallingChange
  <2>3. Calling = call[t] \cup Others
    BY <1>1, CallingSplit
  <2>4. call[t] \cap Others = {}
    BY <1>1 DEF CallsDisjoint
  <2> HIDE DEF Others
  <2>5. Returned' = Returned \cup call[t] /\ Returned \cap call[t] = {}
    BY <1>1, <2>2, <2>3, <2>4 DEF Resume, Returned, CallsDisjoint, TypeOK
  <2>6. Cardinality(Returned') = Cardinality(Returned) + Cardinality(call[t])
    <3>1. Returned \in SUBSET Points /\ call[t] \in SUBSET Points
      BY <1>1 DEF Returned, TypeOK
    <3> QED BY <2>5, <3>1, CountUnion
  <2>7. CallsDisjoint'
    <3>1. Calling' \cap fresh' = {}
      BY <2>2, <2>3 DEF Resume, CallsDisjoint
    <3>2. ASSUME NEW c \in Clients, NEW d \in Clients, c # d PROVE call'[c] \cap call'[d] = {}
      BY <2>1, <3>2 DEF CallsDisjoint
    <3> QED BY <3>1, <3>2 DEF CallsDisjoint
  <2> QED BY <1>1, <2>6, <2>7 DEF Resume, TypeOK
<1>2. CASE t \notin Clients
  <2>1. call' = call
    BY <1>2 DEF Resume, TypeOK
  <2>2. totalReceived' = totalReceived /\ fresh' = fresh
    BY <1>2 DEF Resume, TypeOK
  <2>3. Calling' = Calling
    BY <2>1, CallingUntouched
  <2> QED BY <2>1, <2>2, <2>3 DEF Returned, CallsDisjoint
<1> QED BY <1>1, <1>2

(* The end of a flush leaves everything settled as it was, and settles     *)
(* what was written of the batch unless the batch is put back.             *)
LEMMA ReleaseSettles ==
  ASSUME Inv, NEW t \in Task, batch' = [batch EXCEPT ![t] = {}],
         NEW ok \in SUBSET batch[t], stored' = stored \cup ok
  PROVE  /\ buffer' = buffer => Settled \cup ok \subseteq Settled'
         /\ buffer' = buffer \cup batch[t] => Settled' = Settled
         /\ Settled \cap ok = {}
<1> USE DEF Inv
<1> DEFINE Others == UNION {batch[u] : u \in Task \ {t}}
<1>1. InFlight' = {} \cup Others /\ InFlight = batch[t] \cup Others
  BY InFlightChange, InFlightSplit
<1>2. Others \cap batch[t] = {} /\ buffer \cap batch[t] = {}
  BY DEF NoDoubleFlush
<1> HIDE DEF Others
<1> QED BY <1>1, <1>2 DEF Settled

LEMMA CountStep == Inv /\ Inv' /\ CountInv /\ [Next]_vars => CountInv'
<1> SUFFICES ASSUME Inv, Inv', CountInv, [Next]_vars PROVE CountInv'
  OBVIOUS
<1> USE DEF Inv, CountInv
<1>0. Settled \in SUBSET Points /\ Settled' \in SUBSET Points
  BY DEF TypeOK, Settled
<1>1. ASSUME NEW c \in Clients, NEW ps \in SUBSET fresh, Submit(c, ps) PROVE CountInv'
  BY <1>1, SubmitCounts
<1>2. ASSUME UNCHANGED <<fresh, call, stored, rejected, statVars>>, buffer' \cup InFlight' = buffer \cup InFlight
      PROVE  CountInv'
  BY <1>2, CallingUntouched DEF Settled, Returned, CallsDisjoint, statVars
<1>3. CASE Start \/ StopCancels
  BY <1>2, <1>3, BatchesUntouched DEF Start, StopCancels, sinkVars
<1>4. CASE FlushTick \/ StopFlushes
  <2>1. PICK t \in {Loop, Stopper} : batch[t] = {} /\ batch' = [batch EXCEPT ![t] = buffer]
    BY <1>4 DEF FlushTick, StopFlushes, IdleCarriesNothing
  <2>2. InFlight' = InFlight \cup buffer
    BY <2>1, InFlightChange, InFlightSplit DEF Task
  <2> QED BY <1>2, <1>4, <2>2 DEF FlushTick, StopFlushes, sinkVars
<1>5. CASE CancelLands
  <2>1. PICK written \in SUBSET batch[Loop] : stored' = stored \cup written
    BY <1>5 DEF CancelLands
  <2>2. Settled \subseteq Settled'
    BY <1>5, <2>1, ReleaseSettles DEF CancelLands, Task
  <2>3. Cardinality(Settled) <= Cardinality(Settled') /\ Cardinality(Settled) \in Nat /\ Cardinality(Settled') \in Nat
    BY <1>0, <2>2, CountSubset
  <2>4. totalWritten' <= Cardinality(Settled')
    BY <1>5, <2>3 DEF CancelLands, statVars, TypeOK
  <2> QED BY <1>5, <2>4, CallingUntouched DEF CancelLands, statVars, Returned, CallsDisjoint
<1>6. ASSUME NEW t \in Task, WriterReturns(t) PROVE CountInv'
  <2>1. PICK ok \in SUBSET batch[t] : stored' = stored \cup ok /\ totalWritten' = totalWritten + Cardinality(ok)
    BY <1>6 DEF WriterReturns
  <2>2. Settled \cup ok \subseteq Settled' /\ Settled \cap ok = {}
    BY <1>6, <2>1, ReleaseSettles DEF WriterReturns, Resume
  <2>3. ok \in SUBSET Points
    BY DEF TypeOK
  <2>4. Cardinality(Settled \cup ok) = Cardinality(Settled) + Cardinality(ok)
        /\ Cardinality(Settled) \in Nat /\ Cardinality(ok) \in Nat
    BY <1>0, <2>2, <2>3, CountUnion
  <2>5. Cardinality(Settled \cup ok) <= Cardinality(Settled') /\ Cardinality(Settled') \in Nat
    BY <1>0, <2>2, CountSubset
  <2>6. totalWritten' <= Cardinality(Settled')
    BY <2>1, <2>4, <2>5 DEF TypeOK
  <2>7. CallsDisjoint' /\ totalReceived' = Cardinality(Returned')
    BY <1>6, ResumeCounts DEF WriterReturns
  <2> QED BY <1>6, <2>6, <2>7 DEF WriterReturns, Resume
<1>7. ASSUME NEW t \in Task, WriterRaises(t) PROVE CountInv'
  <2>1. PICK written \in SUBSET batch[t] : stored' = stored \cup written
    BY <1>7 DEF WriterRaises
  <2>2. Settled' = Settled
    BY <1>7, <2>1, ReleaseSettles DEF WriterRaises, Resume
  <2>3. CallsDisjoint' /\ totalReceived' = Cardinality(Returned')
    BY <1>7, ResumeCounts DEF WriterRaises
  <2> QED BY <1>7, <2>2, <2>3 DEF WriterRaises, Resume
<1>8. CASE UNCHANGED vars
  BY <1>2, <1>8, BatchesUntouched DEF vars, sinkVars
<1> QED BY <1>1, <1>3, <1>4, <1>5, <1>6, <1>7, <1>8 DEF Next, Submit

(* The statistics the writer and the ingest client report are true, through *)
(* retried flushes, refused calls and calls that are still waiting.         *)
THEOREM CountersTrue == Spec => []CountersAreTrue
<1>1. Inv /\ CountInv => CountersAreTrue
  <2> SUFFICES ASSUME Inv, CountInv PROVE CountersAreTrue
    OBVIOUS
  <2> USE DEF Inv, CountInv, TypeOK
  <2>1. Cardinality(Settled) <= Cardinality(stored) /\ Cardinality(Settled) \in Nat /\ Cardinality(stored) \in Nat
    BY CountSubset DEF Settled
  <2>2. Calling \in SUBSET Points
    BY DEF Calling
  <2>3. Points \ fresh = Returned \cup Calling /\ Returned \cap Calling = {} /\ Returned \in SUBSET Points
    BY <2>2 DEF Returned, CallsDisjoint
  <2>4. Cardinality(Points \ fresh) = totalReceived + Cardinality(Calling)
    BY <2>2, <2>3, CountUnion
  <2>5. totalWritten <= Cardinality(stored)
    BY <2>1
  <2> QED BY <2>4, <2>5 DEF CountersAreTrue, Calling
<1> QED BY <1>1, CountInit, CountStep, InvAlways, PTL DEF Spec

-----------------------------------------------------------------------------
(* Refinement: Pend are the contract's pending points. *)

Pend == buffer \cup InFlight

LEMMA ContractStep == Inv /\ [Next]_vars => [Contract!CNext]_(Contract!cvars)
<1> SUFFICES ASSUME Inv, [Next]_vars PROVE [Contract!CNext]_(Contract!cvars)
  OBVIOUS
<1> USE DEF Contract!cvars, sinkVars
<1>1. ASSUME NEW c \in Clients, NEW ps \in SUBSET fresh, Submit(c, ps)
      PROVE  Contract!Accept(ps) \/ Contract!Refuse(ps)
  <2>1. CASE Reject(c, ps)
    <3>1. Contract!Refuse(ps)
      BY <2>1, BatchesUntouched DEF Reject, Valid, Contract!Refuse
    <3> QED BY <3>1
  <2>2. CASE Enqueue(c, ps)
    <3>1. Contract!Accept(ps)
      BY <2>2, BatchesUntouched DEF Enqueue, Valid, Contract!Accept
    <3> QED BY <3>1
  <2>3. CASE EnqueueAndFlush(c, ps)
    <3>1. c \in Task /\ batch[c] = {}
      BY <2>3 DEF EnqueueAndFlush, CanCall, Inv, IdleCarriesNothing, Task
    <3>2. InFlight' = InFlight \cup buffer \cup Valid(ps)
      <4>1. batch' = [batch EXCEPT ![c] = buffer \cup Valid(ps)]
        BY <2>3 DEF EnqueueAndFlush
      <4> QED BY <3>1, <4>1, InFlightChange, InFlightSplit DEF Inv
    <3>3. Contract!Accept(ps)
      BY <2>3, <3>2 DEF EnqueueAndFlush, Valid, Contract!Accept
    <3> QED BY <3>3
  <2> QED BY <1>1, <2>1, <2>2, <2>3 DEF Submit
<1>2. CASE Start \/ StopCancels
  BY <1>2, BatchesUntouched DEF Start, StopCancels
<1>3. CASE FlushTick \/ StopFlushes
  <2>1. PICK t \in {Loop, Stopper} : batch[t] = {} /\ batch' = [batch EXCEPT ![t] = buffer]
    BY <1>3 DEF FlushTick, StopFlushes, Inv, IdleCarriesNothing
  <2>2. InFlight' = InFlight \cup buffer
    BY <2>1, InFlightChange, InFlightSplit DEF Task, Inv
  <2> QED BY <1>3, <2>2 DEF FlushTick, StopFlushes
<1>4. ASSUME NEW t \in Task, batch' = [batch EXCEPT ![t] = {}]
      PROVE  /\ batch[t] \subseteq Pend
             /\ buffer' = buffer => Pend' = Pend \ batch[t]
             /\ buffer' = buffer \cup batch[t] => Pend' = Pend
  <2> DEFINE Others == UNION {batch[u] : u \in Task \ {t}}
  <2>1. InFlight' = Others /\ InFlight = batch[t] \cup Others
    BY <1>4, InFlightChange, InFlightSplit DEF Inv
  <2>2. Others \cap batch[t] = {} /\ buffer \cap batch[t] = {}
    BY DEF Inv, NoDoubleFlush
  <2> HIDE DEF Others
  <2> QED BY <2>1, <2>2 DEF Pend
<1>5. CASE CancelLands
  <2>1. Loop \in Task
    BY DEF Task
  <2>2. PICK written \in SUBSET batch[Loop] :
             stored' = stored \cup written /\ lost' = lost \cup (batch[Loop] \ written)
    BY <1>5 DEF CancelLands
  <2>3. Contract!Settle(batch[Loop], written)
    BY <1>4, <1>5, <2>1, <2>2 DEF CancelLands, Pend, Contract!Settle
  <2>4. batch[Loop] \in SUBSET (buffer \cup InFlight)
    BY <1>4, <1>5, <2>1 DEF CancelLands, Pend
  <2> QED BY <2>2, <2>3, <2>4 DEF Contract!CNext
<1>6. ASSUME NEW t \in Task, WriterReturns(t) PROVE Contract!CNext
  <2>1. PICK ok \in SUBSET batch[t] :
             stored' = stored \cup ok /\ dropped' = dropped \cup (batch[t] \ ok)
    BY <1>6 DEF WriterReturns
  <2>2. Contract!Settle(batch[t], ok)
    BY <1>4, <1>6, <2>1 DEF WriterReturns, Resume, Pend, Contract!Settle
  <2>3. batch[t] \in SUBSET (buffer \cup InFlight)
    BY <1>4, <1>6 DEF WriterReturns, Resume, Pend
  <2> QED BY <2>1, <2>2, <2>3 DEF Contract!CNext
<1>7. ASSUME NEW t \in Task, WriterRaises(t) PROVE Contract!CNext
  <2>1. PICK written \in SUBSET batch[t] : stored' = stored \cup written
    BY <1>7 DEF WriterRaises
  <2>2. Contract!Attempt(written) /\ written \in SUBSET (buffer \cup InFlight)
    BY <1>4, <1>7, <2>1 DEF WriterRaises, Resume, Pend, Contract!Attempt
  <2> QED BY <2>2 DEF Contract!CNext
<1>8. CASE UNCHANGED vars
  BY <1>8, BatchesUntouched DEF vars
<1>9. ASSUME NEW c \in Clients, NEW ps \in SUBSET fresh, Submit(c, ps)
      PROVE  Contract!CNext
  BY <1>1, <1>9 DEF Contract!CNext
<1> QED
  BY <1>2, <1>3, <1>5, <1>6, <1>7, <1>8, <1>9 DEF Next, Submit

(* The writer, its flush loop and stop() implement at-least-once delivery  *)
(* with reported refusals, as DeliveryContract states it.                  *)
THEOREM DeliversAtLeastOnce == Spec => ImplementsContract
<1>1. Init => Contract!CInit
  <2>1. Init => InFlight = {}
    BY DEF Init, InFlight
  <2> QED BY <2>1 DEF Init, Contract!CInit
<1> QED
  BY <1>1, InvAlways, ContractStep, PTL DEF Spec, ImplementsContract, Contract!CSpec
=============================================================================
