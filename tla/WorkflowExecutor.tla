-------------------------- MODULE WorkflowExecutor --------------------------
(***************************************************************************)
(* One execution of a workflow by WorkflowExecutor (services/ai/           *)
(* orchestrator/executor.py): execute(), resume_from_checkpoint(), the     *)
(* saga rollback of a failed node, rollback_execution(), cancel_execution()*)
(* and approve_node(), all working on one Checkpoint object: the store     *)
(* hands out the object it was given.                                      *)
(*                                                                         *)
(* A node is named by its place 1..N in the order _topological_sort gives. *)
(* asyncio suspends a call only while a node's handler runs (wait_for) or  *)
(* while a compensation function runs; everything between two suspensions  *)
(* is one step.  Nothing keeps calls apart: resume_from_checkpoint() takes *)
(* a RUNNING checkpoint while other calls are under way, each with its own *)
(* idea of what is completed.  An execution id is used for one execute().  *)
(*                                                                         *)
(* execute() builds its answer with r.model_dump() on NodeExecutionResult, *)
(* a dataclass without that method.  Inside the try block the              *)
(* AttributeError lands in "except Exception", which marks the checkpoint  *)
(* FAILED; that is why a pause reached through execute() ends FAILED while *)
(* one reached through a resume ends PAUSED.                               *)
(***************************************************************************)
EXTENDS Integers, Sequences

CONSTANTS
  N,            \* number of nodes in the execution order
  Enabled,      \* nodes with node.enabled
  Gated,        \* HumanApproval nodes whose type has a registered handler
  Compensable,  \* nodes with a function given to register_compensation
  Calls,        \* bound: one for every call that can be under way at a time
  MaxSaga       \* bound: no resume once the saved saga list is this long

ASSUME WorkflowAssumption ==
  /\ N \in Nat \ {0}
  /\ Enabled \subseteq 1..N /\ Gated \subseteq 1..N /\ Compensable \subseteq 1..N
  /\ MaxSaga \in Nat

VARIABLES
  status,           \* checkpoint.status, "none" before execute()
  stepIndex,        \* checkpoint.step_index, counted from 1
  completedNodes,   \* checkpoint.completed_nodes
  inOrder,          \* completed_nodes lists them in execution order
  pausedAt,         \* checkpoint.paused_at_node, 0 for None
  savedSaga,        \* checkpoint.saga_actions
  approvalPending,  \* execution_id \in self._approval_pending
  inMemory,         \* execution_id \in self._checkpoints (else only in the store)
  call,             \* the calls under way
  ran,              \* history: nodes whose handler has completed
  takenBack         \* history: some save took saved progress back

checkpointVars == <<status, stepIndex, completedNodes, inOrder, pausedAt, savedSaga>>
progressVars == <<stepIndex, completedNodes, inOrder, takenBack>>
vars == <<checkpointVars, approvalPending, inMemory, call, ran, takenBack>>

Node == 1..N

(* An execute or resume call is suspended in a node's handler or in a      *)
(* compensation of its saga rollback; a rollback_execution call in one of  *)
(* its compensations.  A call holds a saga list of its own or, "shared",   *)
(* the checkpoint's list.                                                  *)
Idle == [pc |-> "idle"]
Kind == {"execute", "resume"}
InNode == [pc : {"node"}, kind : Kind, at : Node, completed : SUBSET Node,
           saga : Seq(Node), shared : BOOLEAN]
InUndo == [pc : {"undo"}, kind : Kind, saga : Seq(Node), shared : BOOLEAN, undoAt : Nat]
InRollback == [pc : {"rollback"}, left : SUBSET Compensable, ordered : BOOLEAN]

HasSaga(c) == call[c].pc \in {"node", "undo"}
Saga(c) == IF call[c].shared THEN savedSaga ELSE call[c].saga

TypeOK ==
  /\ status \in {"none", "running", "paused", "completed", "failed", "cancelled", "rolled_back"}
  /\ stepIndex \in 0..N /\ (status # "none" => stepIndex > 0)
  /\ completedNodes \subseteq Node /\ inOrder \in BOOLEAN
  /\ pausedAt \in 0..N /\ savedSaga \in Seq(Node)
  /\ approvalPending \in BOOLEAN /\ inMemory \in BOOLEAN
  /\ call \in [Calls -> {Idle} \cup InNode \cup InUndo \cup InRollback]
  /\ \A c \in Calls : call[c].pc = "undo" =>
       call[c].undoAt \in 1..Len(Saga(c)) /\ Saga(c)[call[c].undoAt] \in Compensable
  /\ ran \subseteq Node /\ takenBack \in BOOLEAN

Init ==
  /\ status = "none" /\ stepIndex = 0 /\ completedNodes = {} /\ inOrder = TRUE
  /\ pausedAt = 0 /\ savedSaga = <<>> /\ approvalPending = FALSE /\ inMemory = FALSE
  /\ call = [c \in Calls |-> Idle]
  /\ ran = {} /\ takenBack = FALSE

-----------------------------------------------------------------------------
(* The loop over the execution order, up to its next suspension.           *)
(* ToVisit are the places after i the loop saves a checkpoint for; it      *)
(* stops at the first enabled one.  When there is none the call ends and   *)
(* the checkpoint says COMPLETED, whatever it said before.                 *)
ToVisit(i, known) == {j \in Node : j > i /\ j \notin known}

IsFirst(j, S) == j \in S /\ \A m \in S : j <= m
IsLast(j, S) == j \in S /\ \A m \in S : j >= m

Lowers(j, known) == j < stepIndex \/ ~(completedNodes \subseteq known)

(* Mutant: a node is recorded as completed when it starts. *)
SaveStepEarly(j, known, k) ==
  /\ stepIndex' = j /\ completedNodes' = known \cup {j} /\ inOrder' = (k = "execute")
  /\ takenBack' = (takenBack \/ Lowers(j, known \cup {j}))

(* step_index and completed_nodes as the loop saves them when it visits j. *)
SaveStep(j, known, k) ==
  /\ stepIndex' = j /\ completedNodes' = known /\ inOrder' = (k = "execute")
  /\ takenBack' = (takenBack \/ Lowers(j, known))

(* Call c goes on after place i; "own" is its list unless it is shared. *)
Continue(c, i, known, k, st, own, sh) ==
  LET visit == ToVisit(i, known)  run == visit \cap Enabled IN
  \/ \E j \in Node :
       /\ IsFirst(j, run)
       /\ call' = [call EXCEPT ![c] = [pc |-> "node", kind |-> k, at |-> j,
                                       completed |-> known, saga |-> own, shared |-> sh]]
       /\ status' = st /\ SaveStep(j, known, k)
  \/ /\ run = {}
     /\ call' = [call EXCEPT ![c] = Idle] /\ status' = "completed"
     /\ \/ \E j \in Node : IsLast(j, visit) /\ SaveStep(j, known, k)
        \/ visit = {} /\ UNCHANGED progressVars

(* execute(): a fresh checkpoint, then the loop from the first node. *)
Execute(c) ==
  /\ status = "none" /\ call[c] = Idle
  /\ inMemory' = TRUE
  /\ Continue(c, 0, {}, "execute", "running", <<>>, FALSE)
  /\ UNCHANGED <<pausedAt, savedSaga, approvalPending, ran>>

(* The checkpoint may come from the store, but _continue_execution only    *)
(* looks in self._checkpoints, where a PAUSED one is put on the way.       *)
Paused == status = "paused" /\ pausedAt # 0
CanResume(c) ==
  call[c] = Idle /\ status # "none" /\ (inMemory \/ Paused) /\ Len(savedSaga) < MaxSaga

ResumeAt(c, i, known) ==
  /\ CanResume(c)
  /\ inMemory' = TRUE
  /\ pausedAt' = (IF Paused THEN 0 ELSE pausedAt)
  /\ approvalPending' = (approvalPending /\ ~Paused)
  /\ Continue(c, i, known, "resume", IF Paused THEN "running" ELSE status, <<>>, savedSaga # <<>>)
  /\ UNCHANGED <<savedSaga, ran>>

(* Mutants: the resumed loop starts after the recorded node, or from scratch. *)
ResumeSkipsOne(c) == ResumeAt(c, stepIndex, completedNodes)
ResumeFromScratch(c) == ResumeAt(c, 0, {})

(* resume_from_checkpoint(): any status may be resumed, also one another   *)
(* call is running; only PAUSED is turned back into RUNNING.  The loop     *)
(* goes on at step_index.                                                  *)
Resume(c) == ResumeAt(c, stepIndex - 1, completedNodes)

-----------------------------------------------------------------------------
(* The handler of the node call c is at comes back. *)

NodeCompletes(c) ==
  LET r == call[c]  list == Append(Saga(c), r.at) IN
  /\ r.pc = "node" /\ r.at \notin Gated
  /\ ran' = ran \cup {r.at}
  /\ savedSaga' = (IF r.shared THEN list ELSE savedSaga)
  /\ Continue(c, r.at, r.completed \cup {r.at}, r.kind, status,
              IF r.shared THEN <<>> ELSE list, r.shared)
  /\ inMemory' = TRUE
  /\ UNCHANGED <<pausedAt, approvalPending>>

PausesAt(c, n) ==
  /\ call[c].pc = "node" /\ call[c].at \in Gated
  /\ pausedAt' = n /\ approvalPending' = TRUE
  /\ status' = (IF call[c].kind = "execute" THEN "failed" ELSE "paused")
  /\ call' = [call EXCEPT ![c] = Idle] /\ inMemory' = TRUE
  /\ UNCHANGED <<progressVars, savedSaga, ran>>

(* Mutant: the node after the approval is noted as the paused one. *)
NodePendsAtNext(c) == PausesAt(c, call[c].at + 1)

(* An approval handler returned: PENDING_APPROVAL, the call ends. *)
NodePends(c) == PausesAt(c, call[c].at)

(* Mutant: after a timeout the loop goes on with the next node. *)
NodeTimesOutAndContinues(c) ==
  LET r == call[c] IN
  /\ r.pc = "node"
  /\ Continue(c, r.at, r.completed, r.kind, status, r.saga, r.shared)
  /\ inMemory' = TRUE
  /\ UNCHANGED <<pausedAt, savedSaga, approvalPending, ran>>

(* wait_for raised TimeoutError: FAILED, and no compensation. *)
NodeTimesOut(c) ==
  /\ call[c].pc = "node"
  /\ status' = "failed" /\ call' = [call EXCEPT ![c] = Idle] /\ inMemory' = TRUE
  /\ UNCHANGED <<progressVars, pausedAt, savedSaga, approvalPending, ran>>

(* _saga_rollback goes through saga_actions from the back, down from the   *)
(* place "before": it stops at the next action with a compensation.  When  *)
(* none is left the call's list becomes the checkpoint's and the call      *)
(* ends; execute() then trips over model_dump and marks FAILED, a resumed  *)
(* call leaves the status be.                                              *)
Undoable(c, before) == {i \in 1..Len(Saga(c)) : i < before /\ Saga(c)[i] \in Compensable}

(* The list another call shares stays that call's when the checkpoint gets *)
(* a different one.                                                        *)
KeepsList(d, c) ==
  IF HasSaga(d) /\ call[d].shared /\ ~call[c].shared
  THEN [call[d] EXCEPT !.saga = savedSaga, !.shared = FALSE] ELSE call[d]

SagaRollback(c, before) ==
  /\ \/ /\ \E i \in 1..Len(Saga(c)) :
             /\ IsLast(i, Undoable(c, before))
             /\ call' = [call EXCEPT ![c] = [pc |-> "undo", kind |-> call[c].kind,
                           saga |-> call[c].saga, shared |-> call[c].shared, undoAt |-> i]]
        /\ UNCHANGED <<status, savedSaga, inMemory>>
     \/ /\ Undoable(c, before) = {}
        /\ call' = [d \in Calls |-> IF d = c THEN Idle ELSE KeepsList(d, c)]
        /\ savedSaga' = Saga(c) /\ inMemory' = TRUE
        /\ status' = (IF call[c].kind = "execute" THEN "failed" ELSE status)
  /\ UNCHANGED <<progressVars, pausedAt, approvalPending, ran>>

(* The handler raised: compensate saga_actions in reverse order. *)
NodeFails(c) == call[c].pc = "node" /\ SagaRollback(c, Len(Saga(c)) + 1)

(* Mutant: a compensation that raises starts the rollback over. *)
UndoStepStartsOver(c) ==
  call[c].pc = "undo" /\ \E before \in {call[c].undoAt, Len(Saga(c)) + 1} : SagaRollback(c, before)

(* A compensation function returns, or raises and its error is recorded. *)
UndoStep(c) == call[c].pc = "undo" /\ SagaRollback(c, call[c].undoAt)

-----------------------------------------------------------------------------
(* The other calls on the execution. *)

(* rollback_execution() with "left" still to compensate; completed_nodes   *)
(* is read once, when the call starts.                                     *)
RollbackWith(c, left, ordered) ==
  /\ \/ /\ left # {}
        /\ call' = [call EXCEPT ![c] = [pc |-> "rollback", left |-> left, ordered |-> ordered]]
        /\ UNCHANGED <<status, approvalPending, inMemory>>
     \/ /\ left = {}
        /\ call' = [call EXCEPT ![c] = Idle]
        /\ status' = "rolled_back" /\ approvalPending' = FALSE /\ inMemory' = TRUE
  /\ UNCHANGED <<progressVars, pausedAt, savedSaga, ran>>

RollbackExecution(c) ==
  /\ status # "none" /\ call[c] = Idle
  /\ RollbackWith(c, completedNodes \cap Compensable, inOrder)

(* completed_nodes is compensated back to front; a list made from a set    *)
(* (after a resume) comes in any order.                                    *)
RollbackStep(c) ==
  /\ call[c].pc = "rollback"
  /\ \E n \in call[c].left :
       /\ call[c].ordered => IsLast(n, call[c].left)
       /\ RollbackWith(c, call[c].left \ {n}, call[c].ordered)

CancelExecution ==
  /\ status # "none"
  /\ status' = "cancelled" /\ approvalPending' = FALSE /\ inMemory' = TRUE
  /\ UNCHANGED <<progressVars, pausedAt, savedSaga, call, ran>>

(* approve_node(): _get_workflow_for_execution returns None, so the resume *)
(* it ends with raises in DSLValidator.validate before it starts a node.   *)
ApproveNode ==
  /\ Paused
  /\ status' = "running" /\ pausedAt' = 0 /\ approvalPending' = FALSE /\ inMemory' = TRUE
  /\ UNCHANGED <<progressVars, savedSaga, call, ran>>

(* A new WorkflowExecutor over the same CheckpointStore; the calls of the  *)
(* old one are gone.                                                       *)
Restart ==
  /\ status # "none"
  /\ approvalPending' = FALSE /\ inMemory' = FALSE
  /\ call' = [c \in Calls |-> Idle]
  /\ UNCHANGED <<checkpointVars, ran, takenBack>>

CallStep(c) ==
  \/ NodeCompletes(c) \/ NodePends(c) \/ NodeTimesOut(c) \/ NodeFails(c)
  \/ UndoStep(c) \/ RollbackStep(c)

Next ==
  \/ \E c \in Calls : Execute(c) \/ Resume(c) \/ RollbackExecution(c) \/ CallStep(c)
  \/ CancelExecution \/ ApproveNode \/ Restart

Spec == Init /\ [][Next]_vars

(* Handlers end (wait_for bounds them) and compensation functions return. *)
FairSpec == Spec /\ \A c \in Calls : WF_vars(CallStep(c))

-----------------------------------------------------------------------------
(* Correctness. *)

(* A node runs only after every enabled node before it has completed, also *)
(* after any mix of failures, timeouts, restarts and overlapping resumes.  *)
(* Nothing behind an approval node runs before it.                         *)
DependencyOrder ==
  \A c \in Calls : call[c].pc = "node" =>
    call[c].at \in Enabled /\ \A m \in Enabled : m < call[c].at => m \in ran

(* A checkpoint that says COMPLETED belongs to an execution in which every *)
(* enabled node has completed at some time.                                *)
CompletedMeansAllRan == status = "completed" => Enabled \subseteq ran

(* The saved checkpoint never claims a node that did not complete, and     *)
(* never asks a resume to skip one that did not.  It misses at most one    *)
(* that did, the one at step_index, so a restart repeats at most that      *)
(* node, unless one call has taken back what another had saved.            *)
CheckpointLag ==
  /\ completedNodes \subseteq ran
  /\ \A m \in Enabled : m < stepIndex => m \in completedNodes
  /\ ~takenBack => ran \ completedNodes \subseteq {stepIndex}

(* Another call has saved different progress since call c last did. *)
Overtaken(c) ==
  call[c].pc = "node" /\ <<stepIndex, completedNodes>> # <<call[c].at, call[c].completed>>

(* Progress saved in the checkpoint is taken back only by an overtaken     *)
(* call that goes on to its next node: never by a resume, a failure, a     *)
(* rollback or a restart, and never when one call runs at a time.          *)
CheckpointMonotone ==
  [][Lowers(stepIndex', completedNodes') => \E c \in Calls : Overtaken(c) /\ NodeCompletes(c)]_vars

(* Every execute, resume or rollback call comes to an end. *)
RunEnds == \A c \in Calls : call[c] # Idle ~> call[c] = Idle
=============================================================================
