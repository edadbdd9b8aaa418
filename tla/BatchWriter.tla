----------------------------- MODULE BatchWriter -----------------------------
(***************************************************************************)
(* Telemetry ingestion: TelemetryIngestClient in front of BatchWriter      *)
(* (services/telemetry/ingestion).  Adapters call batch_write; points are  *)
(* buffered and handed to writer_fn by whichever call fills the buffer, by *)
(* the periodic flush loop, or by stop().                                  *)
(*                                                                         *)
(* All tasks run on one asyncio loop, so a task is interrupted only at an  *)
(* await that really suspends.  No block under self._lock awaits, so the   *)
(* lock is never contended and every step below is one uninterrupted run   *)
(* from one suspension point to the next.  The only suspension inside      *)
(* _flush is "await self._writer_fn(points)": batch[t] holds the points a  *)
(* task t has taken out of the buffer and is waiting for.                  *)
(***************************************************************************)
EXTENDS Integers, FiniteSets

CONSTANTS
  Points,             \* telemetry points, each submitted at most once
  Invalid,            \* the points TelemetryPoint.validate() reports errors for
  Clients,            \* adapter tasks calling TelemetryIngestClient.batch_write
  Loop, Stopper,      \* the task of _flush_loop and the caller of stop()
  MaxBatchSize,       \* self._max_batch_size
  MaxPendingBatches,  \* self._max_pending_batches
  MaxSubmit           \* bound: most points one call submits

Task == Clients \cup {Loop, Stopper}

ASSUME BatchWriterAssumption ==
  /\ IsFiniteSet(Points) /\ Invalid \subseteq Points
  /\ Loop \notin Clients /\ Stopper \notin Clients /\ Loop # Stopper
  /\ MaxBatchSize \in Nat \ {0}
  /\ MaxPendingBatches \in Nat \ {0}
  /\ MaxSubmit \in Nat \ {0}

VARIABLES
  fresh,      \* points no adapter has submitted yet
  buffer,     \* self._buffer
  batch,      \* batch[t]: points t's _flush has passed to writer_fn, {} if none
  call,       \* call[c]: the argument of c's suspended batch_write, {} if none
  loopState,  \* "none": _flush_task is None; "ended": done but still referenced
  cancelled,  \* _flush_task.cancel() called and not yet delivered
  stopState,  \* where stop() is suspended
  rejected,   \* points returned as rejected by backpressure
  stored,     \* points writer_fn has written to the database (external)
  dropped,    \* points writer_fn reported in result.failed
  lost,       \* points of a flush that was cancelled before they were written
  totalWritten, backpressureEvents,   \* BatchWriter statistics
  totalReceived, totalRejected        \* TelemetryIngestClient statistics

sinkVars == <<rejected, stored, dropped, lost>>
statVars == <<totalWritten, backpressureEvents, totalReceived, totalRejected>>
vars == <<fresh, buffer, batch, call, loopState, cancelled, stopState,
          sinkVars, statVars>>

(* len(self._buffer) may not exceed this when a call adds its points. *)
Capacity == MaxBatchSize * MaxPendingBatches

TypeOK ==
  /\ fresh \subseteq Points
  /\ buffer \subseteq Points
  /\ batch \in [Task -> SUBSET Points]
  /\ call \in [Clients -> SUBSET Points]
  /\ loopState \in {"none", "sleeping", "flushing", "ended"}
  /\ cancelled \in BOOLEAN
  /\ stopState \in {"idle", "joining", "flushing"}
  /\ rejected \subseteq Points /\ stored \subseteq Points
  /\ dropped \subseteq Points /\ lost \subseteq Points
  /\ totalWritten \in Nat /\ backpressureEvents \in Nat
  /\ totalReceived \in Nat /\ totalRejected \in Nat

Init ==
  /\ fresh = Points
  /\ buffer = {}
  /\ batch = [t \in Task |-> {}]
  /\ call = [c \in Clients |-> {}]
  /\ loopState = "none" /\ cancelled = FALSE /\ stopState = "idle"
  /\ rejected = {} /\ stored = {} /\ dropped = {} /\ lost = {}
  /\ totalWritten = 0 /\ backpressureEvents = 0
  /\ totalReceived = 0 /\ totalRejected = 0

-----------------------------------------------------------------------------
(* batch_write.  The ingest client drops invalid points first; its own     *)
(* counters move only when the writer's call has returned.                 *)

CanCall(c, ps) == call[c] = {} /\ ps # {} /\ ps \subseteq fresh /\ Cardinality(ps) <= MaxSubmit

Valid(ps) == ps \ Invalid

OverCapacity(ps) == Cardinality(buffer) + Cardinality(Valid(ps)) > Capacity

(* Mutant: the points are in the buffer before the capacity is checked. *)
RejectAfterExtend(c, ps) ==
  /\ CanCall(c, ps) /\ Valid(ps) # {} /\ OverCapacity(ps)
  /\ fresh' = fresh \ ps
  /\ buffer' = buffer \cup Valid(ps)
  /\ rejected' = rejected \cup Valid(ps)
  /\ backpressureEvents' = backpressureEvents + 1
  /\ totalReceived' = totalReceived + Cardinality(ps)
  /\ totalRejected' = totalRejected + Cardinality(Valid(ps))
  /\ UNCHANGED <<batch, call, loopState, cancelled, stopState,
                 stored, dropped, lost, totalWritten>>

(* Backpressure: the call is refused as a whole and returns at once. *)
Reject(c, ps) ==
  /\ CanCall(c, ps) /\ Valid(ps) # {} /\ OverCapacity(ps)
  /\ fresh' = fresh \ ps
  /\ rejected' = rejected \cup Valid(ps)
  /\ backpressureEvents' = backpressureEvents + 1
  /\ totalReceived' = totalReceived + Cardinality(ps)
  /\ totalRejected' = totalRejected + Cardinality(Valid(ps))
  /\ UNCHANGED <<buffer, batch, call, loopState, cancelled, stopState,
                 stored, dropped, lost, totalWritten>>

(* Buffered without reaching the batch size (or nothing valid): returns at once. *)
Enqueue(c, ps) ==
  /\ CanCall(c, ps)
  /\ Valid(ps) # {} => /\ ~OverCapacity(ps)
                       /\ Cardinality(buffer \cup Valid(ps)) < MaxBatchSize
  /\ fresh' = fresh \ ps
  /\ buffer' = buffer \cup Valid(ps)
  /\ totalReceived' = totalReceived + Cardinality(ps)
  /\ UNCHANGED <<batch, call, loopState, cancelled, stopState, sinkVars,
                 totalWritten, backpressureEvents, totalRejected>>

(* The call that fills a batch flushes the whole buffer and waits for writer_fn. *)
EnqueueAndFlush(c, ps) ==
  /\ CanCall(c, ps) /\ Valid(ps) # {} /\ ~OverCapacity(ps)
  /\ Cardinality(buffer \cup Valid(ps)) >= MaxBatchSize
  /\ fresh' = fresh \ ps
  /\ call' = [call EXCEPT ![c] = ps]
  /\ batch' = [batch EXCEPT ![c] = buffer \cup Valid(ps)]
  /\ buffer' = {}
  /\ UNCHANGED <<loopState, cancelled, stopState, sinkVars, statVars>>

-----------------------------------------------------------------------------
(* Control of the flush loop. *)

Start ==
  /\ loopState = "none"
  /\ loopState' = "sleeping"
  /\ UNCHANGED <<fresh, buffer, batch, call, cancelled, stopState, sinkVars, statVars>>

(* Mutant: the tick copies the buffer and does not clear it. *)
FlushTickKeepsBuffer ==
  /\ loopState = "sleeping" /\ ~cancelled /\ buffer # {}
  /\ loopState' = "flushing"
  /\ batch' = [batch EXCEPT ![Loop] = buffer]
  /\ UNCHANGED <<fresh, buffer, call, cancelled, stopState, sinkVars, statVars>>

(* The flush interval has elapsed; an empty buffer would leave everything as it is. *)
FlushTick ==
  /\ loopState = "sleeping" /\ ~cancelled /\ buffer # {}
  /\ loopState' = "flushing"
  /\ batch' = [batch EXCEPT ![Loop] = buffer]
  /\ buffer' = {}
  /\ UNCHANGED <<fresh, call, cancelled, stopState, sinkVars, statVars>>

(* stop() with a flush task: cancel it and wait for it to end. *)
StopCancels ==
  /\ stopState = "idle" /\ loopState # "none"
  /\ cancelled' = TRUE
  /\ stopState' = "joining"
  /\ UNCHANGED <<fresh, buffer, batch, call, loopState, sinkVars, statVars>>

(* CancelledError is raised in the loop's task, in its sleep or in the     *)
(* middle of writer_fn.  "except Exception" does not catch it, so nothing  *)
(* puts the batch back; what writer_fn had written by then stays written.  *)
CancelLands ==
  /\ cancelled
  /\ cancelled' = FALSE
  /\ loopState' = "ended"
  /\ \E written \in SUBSET batch[Loop] :
       /\ stored' = stored \cup written
       /\ lost' = lost \cup (batch[Loop] \ written)
  /\ batch' = [batch EXCEPT ![Loop] = {}]
  /\ UNCHANGED <<fresh, buffer, call, stopState, rejected, dropped, statVars>>

(* The final self._flush() of stop(), after joining the loop or without one. *)
StopFlushes ==
  /\ \/ stopState = "joining" /\ loopState = "ended"
     \/ stopState = "idle" /\ loopState = "none" /\ buffer # {}
  /\ loopState' = "none"
  /\ stopState' = IF buffer = {} THEN "idle" ELSE "flushing"
  /\ batch' = [batch EXCEPT ![Stopper] = buffer]
  /\ buffer' = {}
  /\ UNCHANGED <<fresh, call, cancelled, sinkVars, statVars>>

-----------------------------------------------------------------------------
(* writer_fn comes back to the task t that waits for it. *)

(* Mutant: the loop ends after its first flush. *)
ResumeEndsLoop(t) ==
  /\ batch' = [batch EXCEPT ![t] = {}]
  /\ loopState' = IF t = Loop THEN "ended" ELSE loopState
  /\ stopState' = IF t = Stopper THEN "idle" ELSE stopState
  /\ call' = [c \in Clients |-> IF c = t THEN {} ELSE call[c]]
  /\ totalReceived' = totalReceived + (IF t \in Clients THEN Cardinality(call[t]) ELSE 0)
  /\ UNCHANGED <<fresh, cancelled, rejected, lost, backpressureEvents, totalRejected>>

(* What the rest of t's own code does once its _flush has returned. *)
Resume(t) ==
  /\ batch' = [batch EXCEPT ![t] = {}]
  /\ loopState' = IF t = Loop THEN "sleeping" ELSE loopState
  /\ stopState' = IF t = Stopper THEN "idle" ELSE stopState
  /\ call' = [c \in Clients |-> IF c = t THEN {} ELSE call[c]]
  /\ totalReceived' = totalReceived + (IF t \in Clients THEN Cardinality(call[t]) ELSE 0)
  /\ UNCHANGED <<fresh, cancelled, rejected, lost, backpressureEvents, totalRejected>>

Awaiting(t) == batch[t] # {} /\ (t = Loop => ~cancelled)

(* Mutants: every point of the batch counts as written; a refused point is retried. *)
WriterReturnsCountsAll(t) ==
  /\ Awaiting(t)
  /\ \E ok \in SUBSET batch[t] :
       /\ stored' = stored \cup ok
       /\ dropped' = dropped \cup (batch[t] \ ok)
       /\ totalWritten' = totalWritten + Cardinality(batch[t])
  /\ Resume(t)
  /\ UNCHANGED buffer

WriterReturnsRequeuesFailed(t) ==
  /\ Awaiting(t)
  /\ \E ok \in SUBSET batch[t] :
       /\ stored' = stored \cup ok
       /\ dropped' = dropped \cup (batch[t] \ ok)
       /\ totalWritten' = totalWritten + Cardinality(ok)
       /\ buffer' = buffer \cup (batch[t] \ ok)
  /\ Resume(t)

(* writer_fn returns a result; points counted in result.failed are not retried. *)
WriterReturns(t) ==
  /\ Awaiting(t)
  /\ \E ok \in SUBSET batch[t] :
       /\ stored' = stored \cup ok
       /\ dropped' = dropped \cup (batch[t] \ ok)
       /\ totalWritten' = totalWritten + Cardinality(ok)
  /\ Resume(t)
  /\ UNCHANGED buffer

(* Mutants: the batch is not put back; a failed flush is taken off the statistics. *)
WriterRaisesForgets(t) ==
  /\ Awaiting(t)
  /\ \E written \in SUBSET batch[t] : stored' = stored \cup written
  /\ Resume(t)
  /\ UNCHANGED <<buffer, dropped, totalWritten>>

WriterRaisesUncounts(t) ==
  /\ Awaiting(t)
  /\ \E written \in SUBSET batch[t] : stored' = stored \cup written
  /\ buffer' = buffer \cup batch[t]
  /\ totalWritten' = totalWritten - Cardinality(batch[t])
  /\ Resume(t)
  /\ UNCHANGED dropped

(* writer_fn raises, perhaps after writing some points: all are put back. *)
WriterRaises(t) ==
  /\ Awaiting(t)
  /\ \E written \in SUBSET batch[t] : stored' = stored \cup written
  /\ buffer' = buffer \cup batch[t]
  /\ Resume(t)
  /\ UNCHANGED <<dropped, totalWritten>>

Next ==
  \/ \E c \in Clients, ps \in SUBSET fresh :
       Reject(c, ps) \/ Enqueue(c, ps) \/ EnqueueAndFlush(c, ps)
  \/ Start \/ FlushTick
  \/ StopCancels \/ CancelLands \/ StopFlushes
  \/ \E t \in Task : WriterReturns(t) \/ WriterRaises(t)

Spec == Init /\ [][Next]_vars
-----------------------------------------------------------------------------
(* Correctness. *)

InFlight == UNION {batch[t] : t \in Task}

Accepted == Points \ (fresh \cup rejected \cup Invalid)

(* A point waits in one place only: two flushes never carry the same point *)
(* and no point sits in the buffer while a flush carries it, although the  *)
(* clients, the loop and stop() all empty and refill the buffer around     *)
(* the await of writer_fn.                                                 *)
NoDoubleFlush ==
  /\ \A t \in Task : batch[t] \cap buffer = {}
  /\ \A t, u \in Task : t # u => batch[t] \cap batch[u] = {}

(* Every point batch_write accepted is still buffered, carried by a flush, *)
(* written, reported failed by writer_fn, or lost with a cancelled flush;  *)
(* an exception of writer_fn makes no point disappear.                     *)
NoPointForgotten ==
  Accepted \subseteq buffer \cup InFlight \cup stored \cup dropped \cup lost

(* A point the database refused (result.failed) or that backpressure       *)
(* refused is never handed to writer_fn afterwards: the adapter that was   *)
(* told so may send it again without racing a hidden retry.                *)
RefusedIsFinal == (rejected \cup dropped \cup lost) \cap (buffer \cup InFlight) = {}

(* The counters the two objects report are true: total_written never       *)
(* claims more points than the database has, even when a flush is retried  *)
(* after writer_fn wrote part of it; total_received and total_rejected     *)
(* count every submitted point once, calls still suspended excepted.       *)
CountersAreTrue ==
  /\ totalWritten <= Cardinality(stored)
  /\ totalReceived + Cardinality(UNION {call[c] : c \in Clients}) = Cardinality(Points \ fresh)
  /\ totalRejected = Cardinality(rejected)

(* Docstring of stop(): "Stop the flush loop and flush remaining points."  *)
StopLosesNothing == lost = {}

(* While the flush loop runs, every buffered point is eventually written   *)
(* or refused by the database, or somebody calls stop(); a failed flush    *)
(* never ends the loop.                                                    *)
Running == loopState # "none" /\ stopState # "joining"
BufferDrains ==
  \A p \in Points :
    (p \in buffer /\ Running) ~> (p \in stored \cup dropped \/ ~Running)

(* The loop's sleep ends, a started writer_fn call comes back, and the     *)
(* database does not fail forever.                                         *)
FairSpec == Spec /\ WF_vars(FlushTick) /\ \A t \in Task : SF_vars(WriterReturns(t))

(* The buffer and the batches under way are, together, the contract's      *)
(* pending points: batching, retries, the flush loop and stop() deliver    *)
(* every accepted point at least once or report it.                        *)
Contract == INSTANCE DeliveryContract WITH pending <- buffer \cup InFlight
ImplementsContract == Contract!CSpec
=============================================================================
