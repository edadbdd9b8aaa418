------------------------------ MODULE EdgeSite ------------------------------
(***************************************************************************)
(* What runs at an edge site beside the adapters: the node with its        *)
(* heartbeat tasks, and the store of its telemetry.                        *)
(***************************************************************************)
EXTENDS Naturals

-----------------------------------------------------------------------------
(***************************************************************************)
(* The edge node's lifecycle and heartbeat (services/edge/core/node.py).   *)
(* start_heartbeat_loop makes a task and remembers only the last one; the  *)
(* loop beats while the node is running and sleeps between beats.  stop    *)
(* cancels the task it remembers, awaits it and then writes STOPPED, so    *)
(* provision and further starts can come in between.                       *)
(***************************************************************************)

CONSTANTS
    Beats,              \* heartbeat tasks that may ever be made
    MaxProvisions       \* bound: how often the node is provisioned

VARIABLES
    node_status,        \* status
    heartbeat_task,     \* _heartbeat_task, or NoTask
    beat,               \* task -> "new", "ready" (to look at the status), "sleeping", "cancelled", "done"
    stopping,           \* the task that stop awaits, or "no"
    provisions          \* how often provision succeeded

nodeVars == <<node_status, heartbeat_task, beat, stopping, provisions>>

NoTask == "none"

NodeInit ==
    /\ node_status = "provisioning" /\ heartbeat_task = NoTask
    /\ beat = [t \in Beats |-> "new"] /\ stopping = "no" /\ provisions = 0

\* A token that is too short raises and changes nothing.
Provision ==
    /\ provisions < MaxProvisions
    /\ node_status' = "running" /\ provisions' = provisions + 1
    /\ UNCHANGED <<heartbeat_task, beat, stopping>>

StartHeartbeatLoop(t) ==
    /\ beat[t] = "new"
    /\ beat' = [beat EXCEPT ![t] = "ready"] /\ heartbeat_task' = t
    /\ UNCHANGED <<node_status, stopping, provisions>>

Up == node_status \in {"running", "degraded"}

\* One turn of the loop: a heartbeat (which waits for nothing) and the sleep,
\* or the end.
LoopTurn(t) ==
    /\ beat[t] = "ready"
    /\ beat' = [beat EXCEPT ![t] = IF Up THEN "sleeping" ELSE "done"]
    /\ UNCHANGED <<node_status, heartbeat_task, stopping, provisions>>

SleepOver(t) ==
    /\ beat[t] = "sleeping"
    /\ beat' = [beat EXCEPT ![t] = "ready"]
    /\ UNCHANGED <<node_status, heartbeat_task, stopping, provisions>>

\* stop cancels the remembered task, wherever it is, and awaits its end; an
\* ended task, or none, it does not wait for.  Bound: one stop at a time.
StopNode ==
    /\ stopping = "no"
    /\ IF heartbeat_task = NoTask \/ heartbeat_task \in {t \in Beats : beat[t] = "done"}
       THEN node_status' = "stopped" /\ UNCHANGED <<beat, stopping>>
       ELSE /\ beat' = [beat EXCEPT ![heartbeat_task] = "cancelled"]
            /\ stopping' = heartbeat_task /\ node_status' = "stopping"
    /\ UNCHANGED <<heartbeat_task, provisions>>

CancelTakesEffect(t) ==
    /\ beat[t] = "cancelled"
    /\ beat' = [beat EXCEPT ![t] = "done"]
    /\ UNCHANGED <<node_status, heartbeat_task, stopping, provisions>>

StopReturns ==
    /\ stopping # "no" /\ beat[stopping] = "done"
    /\ node_status' = "stopped" /\ stopping' = "no"
    /\ UNCHANGED <<heartbeat_task, beat, provisions>>

NodeNext ==
    \/ Provision \/ StopNode \/ StopReturns
    \/ \E t \in Beats : StartHeartbeatLoop(t) \/ LoopTurn(t) \/ SleepOver(t) \/ CancelTakesEffect(t)
-----------------------------------------------------------------------------
NodeTypeOK ==
    /\ node_status \in {"provisioning", "running", "stopping", "stopped"}
    /\ heartbeat_task \in Beats \cup {NoTask} /\ stopping \in Beats \cup {"no"}
    /\ beat \in [Beats -> {"new", "ready", "sleeping", "cancelled", "done"}]

\* A stopped node falls silent: unless it is provisioned or started again,
\* every heartbeat task comes to its end, those that stop does not know of
\* (a second start replaced them) included.
StoppedFallsSilent ==
    (node_status = "stopped")
        ~> (Up \/ \A t \in Beats : beat[t] \in {"new", "done"})

-----------------------------------------------------------------------------
(***************************************************************************)
(* The edge node's telemetry store (services/edge/storage/local_store.py): *)
(* one SQLite connection shared by every call, used from worker threads.   *)
(* write inserts its rows in one thread hop and commits in another; the    *)
(* rows enter the connection's open transaction one by one, whatever call  *)
(* they belong to, and any commit commits all of them.  A row that SQLite  *)
(* refuses (a missing value) raises and leaves the rows before it in the   *)
(* transaction.  Closing the connection rolls it back.                     *)
(*                                                                         *)
(* The store is a file: what is committed outlives the connection.  A row  *)
(* is <<batch, position>>.                                                 *)
(***************************************************************************)

CONSTANTS
    Batches,            \* the write calls, one batch each
    BATCH_SIZE,         \* rows of a batch
    RefusedRows,        \* rows that SQLite refuses
    MaxConnects         \* bound: connections opened

ASSUME StoreConstants == BATCH_SIZE \in Nat \ {0} /\ MaxConnects \in Nat

VARIABLES
    connection,     \* _conn: the number of the connection, 0 for None
    transaction,    \* rows of the connection's open transaction
    committed,      \* rows of the file
    writer,         \* batch -> where its write call stands
    connects        \* number of connections opened

storeVars == <<connection, transaction, committed, writer, connects>>

StoreInit ==
    /\ connection = 0 /\ transaction = {} /\ committed = {} /\ connects = 0
    /\ writer = [b \in Batches |-> [at |-> "idle"]]

OpenStore ==
    /\ connection = 0 /\ connects < MaxConnects
    /\ connects' = connects + 1 /\ connection' = connects + 1
    /\ UNCHANGED <<transaction, committed, writer>>

CloseStore ==
    /\ connection # 0
    /\ connection' = 0 /\ transaction' = {}
    /\ UNCHANGED <<committed, writer, connects>>

Moves(b, step) == writer' = [writer EXCEPT ![b] = step]

\* write binds executemany of the connection it finds and hops to a thread.
WriteBegins(b) ==
    /\ writer[b].at = "idle" /\ connection # 0
    /\ Moves(b, [at |-> "insert", on |-> connection, done |-> 0])
    /\ UNCHANGED <<connection, transaction, committed, connects>>

SkipRefused(b) ==
    LET row == <<b, writer[b].done + 1>> IN
    /\ writer[b].at = "insert"
    /\ transaction' = IF row \in RefusedRows THEN transaction ELSE transaction \cup {row}
    /\ Moves(b, IF writer[b].done + 1 = BATCH_SIZE THEN [at |-> "commit", on |-> connection]
                ELSE [writer[b] EXCEPT !.done = @ + 1])
    /\ UNCHANGED <<connection, committed, connects>>

\* One row of executemany; an error ends the call.
InsertRow(b) ==
    LET row == <<b, writer[b].done + 1>> IN
    /\ writer[b].at = "insert"
    /\ IF writer[b].on # connection \/ row \in RefusedRows
       THEN Moves(b, [at |-> "raised"]) /\ UNCHANGED transaction
       ELSE /\ transaction' = transaction \cup {row}
            /\ Moves(b, IF writer[b].done + 1 = BATCH_SIZE
                        THEN [at |-> "commit", on |-> connection]
                        ELSE [writer[b] EXCEPT !.done = @ + 1])
    /\ UNCHANGED <<connection, committed, connects>>

\* The commit uses the connection that is current by then, if there is one.
Commit(b) ==
    /\ writer[b].at = "commit"
    /\ IF connection = 0
       THEN Moves(b, [at |-> "raised"]) /\ UNCHANGED <<transaction, committed>>
       ELSE /\ committed' = committed \cup transaction /\ transaction' = {}
            /\ Moves(b, [at |-> "accepted", same |-> writer[b].on = connection])
    /\ UNCHANGED <<connection, connects>>

StoreNext ==
    \/ OpenStore \/ CloseStore
    \/ \E b \in Batches : WriteBegins(b) \/ InsertRow(b) \/ Commit(b)
-----------------------------------------------------------------------------
StoreTypeOK ==
    /\ connection \in 0..MaxConnects /\ connects \in 0..MaxConnects
    /\ transaction \cup committed \subseteq Batches \X (1..BATCH_SIZE)
    /\ \A b \in Batches : writer[b].at \in {"idle", "insert", "commit", "accepted", "raised"}

\* Rows that write answers as accepted are committed, even those another call's
\* commit took along, if the store was not closed and opened again between the
\* insert and the commit.
AcceptedIsCommitted ==
    \A b \in Batches :
        writer[b].at = "accepted" /\ writer[b].same => {b} \X (1..BATCH_SIZE) \subseteq committed

\* Whatever calls, failures and commits of others come in between, what the file
\* holds of a batch is a beginning of it, without the refused rows.
StoredIsPrefix ==
    \A row \in committed :
        /\ row \notin RefusedRows
        /\ \A i \in 1..row[2] : <<row[1], i>> \in committed
=============================================================================
