------------------------- MODULE OrchestratorProofs -------------------------
(***************************************************************************)
(* The workflow orchestrator: the executor's checkpoints, then the         *)
(* validator's search for cycles and the sort, for every finite workflow.  *)
(***************************************************************************)
EXTENDS WorkflowExecutor, WorkflowGraph, DataInduction, FiniteSetTheorems, SequenceTheorems, TLAPS

-----------------------------------------------------------------------------
(* The executor.                                                           *)

(* Before execute() nothing has happened; once there is a checkpoint, a    *)
(* resume will start at a node it does not know as completed.              *)
Shape ==
  /\ status = "none" => /\ stepIndex = 0 /\ ran = {} /\ completedNodes = {}
                        /\ \A c \in Calls : call[c] = Idle
  /\ ran \subseteq Enabled
  /\ stepIndex \notin completedNodes

(* Every call in a node knows as completed only what ran, and everything   *)
(* that had to run before; however old its knowledge is, the checkpoint is *)
(* not behind it, unless progress was taken back.                          *)
CallSound(c) ==
  call[c].pc = "node" =>
    /\ call[c].at \in Enabled /\ call[c].completed \subseteq ran
    /\ \A m \in Enabled : m < call[c].at => m \in call[c].completed
    /\ ~takenBack => call[c].at <= stepIndex

Inv ==
  /\ Shape
  /\ \A c \in Calls : CallSound(c)
  /\ CheckpointLag /\ CompletedMeansAllRan

(* What CheckpointMonotone says of one step. *)
Progress ==
  Lowers(stepIndex', completedNodes') => \E c \in Calls : Overtaken(c) /\ NodeCompletes(c)

(* The loop, entered by call c after place i with a set of nodes known to  *)
(* be completed: it finds the first open enabled node, or none is left.    *)
LEMMA LoopKeepsInv ==
  ASSUME TypeOK, Inv, NEW c \in Calls, NEW i \in 0..N, NEW known \in SUBSET Node,
         NEW k, NEW st, st # "none", NEW own, NEW sh,
         Continue(c, i, known, k, st, own, sh),
         known \subseteq ran', ran \subseteq ran', ran' \subseteq Enabled,
         \A m \in Enabled : m <= i => m \in known,
         ~takenBack /\ completedNodes \subseteq known => ran' \ known \subseteq {stepIndex},
         ToVisit(i, known) = {} => /\ stepIndex > 0
                                   /\ ~takenBack => ran' \ completedNodes \subseteq {stepIndex},
         st = "completed" => Enabled \subseteq ran'
  PROVE  Inv'
<1> DEFINE visit == ToVisit(i, known)
           run == visit \cap Enabled
           r(j) == [pc |-> "node", kind |-> k, at |-> j, completed |-> known,
                    saga |-> own, shared |-> sh]
<1> USE WorkflowAssumption DEF Node
<1>0. stepIndex \in 0..N /\ completedNodes \subseteq Node /\ takenBack \in BOOLEAN
      /\ DOMAIN call = Calls
  BY DEF TypeOK
<1>1. ASSUME NEW j \in Node, IsFirst(j, run), status' = st, SaveStep(j, known, k),
             call' = [call EXCEPT ![c] = r(j)]
      PROVE  Inv'
  <2>1. j > i /\ j \notin known /\ j \in Enabled /\ \A m \in run : j <= m
    BY <1>1 DEF IsFirst, ToVisit
  <2>2. stepIndex' = j /\ completedNodes' = known
    BY <1>1 DEF SaveStep
  <2>3. \A m \in Enabled : m < j => m \in known
    <3> SUFFICES ASSUME NEW m \in Enabled, m < j, m \notin known PROVE FALSE
      OBVIOUS
    <3>1. m \in Node /\ m > i
      OBVIOUS
    <3>2. m \in run
      BY <3>1 DEF ToVisit
    <3> QED BY <2>1, <3>1, <3>2
  <2>4. ~takenBack' => ~takenBack /\ stepIndex <= j /\ completedNodes \subseteq known
    <3>1. ~takenBack' => ~takenBack /\ ~Lowers(j, known)
      BY <1>1, Zenon DEF SaveStep
    <3>2. ~Lowers(j, known) => stepIndex <= j /\ completedNodes \subseteq known
      BY <1>0 DEF Lowers
    <3> QED BY <3>1, <3>2
  <2>5. ~takenBack' => ran' \ known \subseteq {j}
    <3> SUFFICES ASSUME ~takenBack', NEW m \in ran', m \notin known PROVE m = j
      OBVIOUS
    <3>1. m = stepIndex /\ m \in Enabled /\ m <= j
      BY <2>4
    <3>2. m \in 1..N /\ j \in 1..N /\ ~(m < j)
      BY <2>3, <3>1
    <3> QED BY <3>1, <3>2
  <2>6. CheckpointLag'
    BY <2>2, <2>3, <2>5 DEF CheckpointLag
  <2>7. CallSound(c)'
    <3>1. call'[c] = r(j)
      BY <1>0, <1>1
    <3> QED BY <2>1, <2>2, <2>3, <3>1 DEF CallSound
  <2>8. ASSUME NEW d \in Calls, d # c PROVE CallSound(d)'
    <3>1. call'[d] = call[d]
      BY <1>0, <1>1, <2>8
    <3>2. CASE call[d].pc = "node"
      <4>1. CallSound(d) /\ call[d].at \in 1..N
        BY <3>2 DEF Inv, CallSound
      <4>2. call[d].at <= stepIndex /\ stepIndex <= j => call[d].at <= j
        BY <1>0, <4>1
      <4>3. ~takenBack' => call[d].at <= stepIndex'
        BY <2>2, <2>4, <3>2, <4>1, <4>2 DEF CallSound
      <4> QED BY <3>1, <3>2, <4>1, <4>3 DEF CallSound
    <3> QED BY <3>1, <3>2 DEF CallSound
  <2>9. Shape' /\ CompletedMeansAllRan'
    BY <1>1, <2>1, <2>2 DEF Shape, CompletedMeansAllRan
  <2> QED BY <2>6, <2>7, <2>8, <2>9 DEF Inv
<1>2. ASSUME run = {}, status' = "completed", call' = [call EXCEPT ![c] = Idle],
             \/ \E j \in Node : IsLast(j, visit) /\ SaveStep(j, known, k)
             \/ visit = {} /\ UNCHANGED progressVars
      PROVE  Inv'
  <2>1. Enabled \subseteq known
    <3> SUFFICES ASSUME NEW m \in Enabled, m \notin known PROVE FALSE
      OBVIOUS
    <3>1. m \in Node /\ m > i
      OBVIOUS
    <3> QED BY <1>2, <3>1 DEF ToVisit
  <2>2. CompletedMeansAllRan'
    BY <1>2, <2>1 DEF CompletedMeansAllRan
  <2>3. Shape' /\ CheckpointLag' /\ (~takenBack' => ~takenBack /\ stepIndex <= stepIndex')
    <3>1. CASE visit = {}
      <4>1. UNCHANGED progressVars
        BY <1>2, <3>1 DEF IsLast
      <4> QED BY <1>0, <1>2, <2>1, <3>1, <4>1 DEF Inv, Shape, CheckpointLag, progressVars
    <3>2. CASE visit # {}
      <4>1. PICK j \in Node : IsLast(j, visit) /\ SaveStep(j, known, k)
        BY <1>2, <3>2
      <4>2. j \notin known /\ stepIndex' = j /\ completedNodes' = known
        BY <4>1 DEF IsLast, ToVisit, SaveStep
      <4>3. ~takenBack' => ~takenBack /\ stepIndex <= j
        <5>1. ~takenBack' => ~takenBack /\ ~Lowers(j, known)
          BY <4>1, Zenon DEF SaveStep
        <5>2. ~Lowers(j, known) => stepIndex <= j
          BY <1>0 DEF Lowers
        <5> QED BY <5>1, <5>2
      <4> QED BY <1>2, <2>1, <4>2, <4>3 DEF Inv, Shape, CheckpointLag
    <3> QED BY <3>1, <3>2
  <2>4. ASSUME NEW d \in Calls PROVE CallSound(d)'
    <3>1. CASE d = c
      BY <1>0, <1>2, <3>1 DEF CallSound, Idle
    <3>2. CASE d # c
      <4>1. call'[d] = call[d]
        BY <1>0, <1>2, <3>2
      <4>2. CASE call[d].pc = "node"
        <5>1. CallSound(d) /\ call[d].at \in 1..N
          BY <4>2 DEF Inv, CallSound
        <5>2. stepIndex' \in 0..N
          BY <1>0, <1>2 DEF SaveStep, progressVars
        <5>3. call[d].at <= stepIndex /\ stepIndex <= stepIndex' => call[d].at <= stepIndex'
          BY <1>0, <5>1, <5>2
        <5>4. ~takenBack' => call[d].at <= stepIndex'
          BY <2>3, <4>2, <5>1, <5>3 DEF CallSound
        <5> QED BY <4>1, <4>2, <5>1, <5>4 DEF CallSound
      <4> QED BY <4>1, <4>2 DEF CallSound
    <3> QED BY <3>1, <3>2
  <2> QED BY <2>2, <2>3, <2>4 DEF Inv
<1>3. \/ \E j \in Node : /\ IsFirst(j, run) /\ call' = [call EXCEPT ![c] = r(j)]
                         /\ status' = st /\ SaveStep(j, known, k)
      \/ /\ run = {} /\ call' = [call EXCEPT ![c] = Idle] /\ status' = "completed"
         /\ \/ \E j \in Node : IsLast(j, visit) /\ SaveStep(j, known, k)
            \/ visit = {} /\ UNCHANGED progressVars
  BY DEF Continue
<1> QED BY <1>1, <1>2, <1>3

(* A loop entered at the checkpoint's own place with its own list, or      *)
(* further on, does not take anything back.                                *)
LEMMA LoopGoesOn ==
  ASSUME TypeOK, NEW c, NEW i \in 0..N, NEW known, NEW k, NEW st, NEW own, NEW sh,
         Continue(c, i, known, k, st, own, sh),
         stepIndex <= i + 1, completedNodes \subseteq known
  PROVE  ~Lowers(stepIndex', completedNodes')
<1> USE WorkflowAssumption DEF Node
<1>0. stepIndex \in 0..N
  BY DEF TypeOK
<1>1. ASSUME NEW j \in Node, j > i, SaveStep(j, known, k)
      PROVE  ~Lowers(stepIndex', completedNodes')
  BY <1>0, <1>1 DEF SaveStep, Lowers
<1>2. CASE UNCHANGED progressVars
  BY <1>0, <1>2 DEF progressVars, Lowers
<1>3. \/ UNCHANGED progressVars
      \/ \E j \in ToVisit(i, known) : SaveStep(j, known, k)
  BY DEF Continue, IsFirst, IsLast
<1> QED BY <1>1, <1>2, <1>3 DEF ToVisit

LEMMA ExecuteStep == ASSUME TypeOK, Inv, NEW c \in Calls, Execute(c) PROVE Inv' /\ Progress
<1> USE WorkflowAssumption
<1>1. ran = {} /\ completedNodes = {} /\ stepIndex = 0 /\ ran' = {}
  BY DEF Inv, Shape, Execute
<1>2. ToVisit(0, {}) # {}
  <2>1. 1 \in ToVisit(0, {})
    BY DEF ToVisit, Node
  <2> QED BY <2>1
<1>3. Continue(c, 0, {}, "execute", "running", <<>>, FALSE)
  BY DEF Execute
<1>4. \A m \in Enabled : m <= 0 => m \in {}
  OBVIOUS
<1>5. /\ {} \subseteq ran' /\ ran \subseteq ran' /\ ran' \subseteq Enabled
      /\ ~takenBack /\ completedNodes \subseteq {} => ran' \ {} \subseteq {stepIndex}
      /\ 0 \in 0..N /\ {} \in SUBSET Node /\ "running" # "none" /\ "running" # "completed"
      /\ stepIndex <= 0 + 1 /\ completedNodes \subseteq {}
  BY <1>1
<1>6. Inv'
  BY <1>2, <1>3, <1>4, <1>5, LoopKeepsInv
<1>7. ~Lowers(stepIndex', completedNodes')
  BY <1>3, <1>5, LoopGoesOn
<1> QED BY <1>6, <1>7 DEF Progress

LEMMA ResumeStep == ASSUME TypeOK, Inv, NEW c \in Calls, Resume(c) PROVE Inv' /\ Progress
<1> USE WorkflowAssumption DEF Node
<1> DEFINE st == IF Paused THEN "running" ELSE status
           sh == savedSaga # <<>>
<1>1. Continue(c, stepIndex - 1, completedNodes, "resume", st, <<>>, sh)
      /\ status # "none" /\ ran' = ran
  BY DEF Resume, ResumeAt, CanResume
<1>2. stepIndex \in Node /\ stepIndex - 1 \in 0..N /\ stepIndex - 1 + 1 = stepIndex
      /\ completedNodes \in SUBSET Node
  BY <1>1 DEF TypeOK
<1>3. stepIndex \in ToVisit(stepIndex - 1, completedNodes)
  BY <1>2 DEF ToVisit, Inv, Shape
<1>4. st # "none" /\ (st = "completed" => Enabled \subseteq ran')
  BY <1>1 DEF Inv, CompletedMeansAllRan
<1>5. /\ completedNodes \subseteq ran' /\ ran' \subseteq Enabled
      /\ ~takenBack => ran' \ completedNodes \subseteq {stepIndex}
      /\ \A m \in Enabled : m <= stepIndex - 1 => m \in completedNodes
  BY <1>1, <1>2 DEF Inv, Shape, CheckpointLag
<1> HIDE DEF st, sh
<1>6. Inv'
  BY <1>1, <1>2, <1>3, <1>4, <1>5, LoopKeepsInv
<1>7. ~Lowers(stepIndex', completedNodes')
  BY <1>1, <1>2, LoopGoesOn
<1> QED BY <1>6, <1>7 DEF Progress

LEMMA CompletesStep == ASSUME TypeOK, Inv, NEW c \in Calls, NodeCompletes(c) PROVE Inv' /\ Progress
<1> USE WorkflowAssumption DEF Node
<1>1. PICK r \in InNode : call[c] = r
  BY DEF NodeCompletes, TypeOK, InNode, InUndo, InRollback, Idle
<1> DEFINE known == r.completed \cup {r.at}
           own == IF r.shared THEN <<>> ELSE Append(Saga(c), r.at)
<1>2. ran' = ran \cup {r.at} /\ Continue(c, r.at, known, r.kind, status, own, r.shared)
  BY <1>1 DEF NodeCompletes
<1>3. /\ r.at \in Enabled /\ r.completed \subseteq ran
      /\ \A m \in Enabled : m < r.at => m \in r.completed
      /\ ~takenBack => r.at <= stepIndex
  BY <1>1 DEF Inv, CallSound, InNode
<1>4. r.at \in 1..N /\ known \in SUBSET Node /\ stepIndex \in 0..N /\ completedNodes \subseteq Node
  BY <1>1, <1>3 DEF InNode, TypeOK
<1>5. status # "none" /\ stepIndex > 0
  <2>1. status # "none"
    BY <1>1 DEF Inv, Shape, Idle, InNode
  <2> QED BY <2>1 DEF TypeOK
<1>6. /\ known \subseteq ran' /\ ran \subseteq ran' /\ ran' \subseteq Enabled
      /\ status = "completed" => Enabled \subseteq ran'
  BY <1>2, <1>3 DEF Inv, Shape, CompletedMeansAllRan
<1>7. \A m \in Enabled : m <= r.at => m \in known
  <2> SUFFICES ASSUME NEW m \in Enabled, m <= r.at, m # r.at PROVE m \in r.completed
    OBVIOUS
  <2> QED BY <1>3, <1>4
<1>8. ~takenBack => /\ ran' \ completedNodes \subseteq {stepIndex}
                    /\ completedNodes \subseteq known => ran' \ known \subseteq {stepIndex}
  <2> SUFFICES ASSUME ~takenBack PROVE ran' \ completedNodes \subseteq {stepIndex}
    OBVIOUS
  <2>1. r.at \in completedNodes \cup {stepIndex}
    BY <1>3, <1>4 DEF Inv, CheckpointLag
  <2> QED BY <1>2, <2>1 DEF Inv, CheckpointLag
<1> HIDE DEF known, own
<1>9. Inv'
  <2>1. /\ ~takenBack /\ completedNodes \subseteq known => ran' \ known \subseteq {stepIndex}
        /\ ToVisit(r.at, known) = {} =>
              /\ stepIndex > 0
              /\ ~takenBack => ran' \ completedNodes \subseteq {stepIndex}
    BY <1>5, <1>8
  <2>2. r.at \in 0..N
    BY <1>4
  <2>3. Continue(c, r.at, known, r.kind, status, own, r.shared)
    BY <1>2
  <2> HIDE DEF Node
  <2> QED BY <1>4, <1>5, <1>6, <1>7, <2>1, <2>2, <2>3, LoopKeepsInv
<1>10. CASE Overtaken(c)
  BY <1>9, <1>10 DEF Progress
<1>11. CASE ~Overtaken(c)
  <2>1. stepIndex = r.at /\ completedNodes = r.completed
    BY <1>1, <1>11 DEF Overtaken, InNode
  <2>2. completedNodes \subseteq known
    BY <2>1 DEF known
  <2>3. ~Lowers(stepIndex', completedNodes')
    BY <1>2, <1>4, <2>1, <2>2, LoopGoesOn
  <2> QED BY <1>9, <2>3 DEF Progress
<1> QED BY <1>10, <1>11

(* Every other step leaves the checkpoint's progress and the history, and  *)
(* the calls that are in a node afterwards.                                *)
LEMMA QuietStep ==
  ASSUME TypeOK, Inv, UNCHANGED progressVars, UNCHANGED ran,
         status # "none" => status' # "none",
         status = "none" => status' = "none" /\ call' = call,
         status' = "completed" => status = "completed",
         \A d \in Calls : call'[d].pc = "node" =>
           call[d].pc = "node" /\ call'[d].at = call[d].at /\ call'[d].completed = call[d].completed
  PROVE  Inv' /\ Progress
<1>1. Shape' /\ CheckpointLag' /\ CompletedMeansAllRan'
  BY DEF Inv, Shape, CheckpointLag, CompletedMeansAllRan, progressVars
<1>2. \A d \in Calls : CallSound(d)'
  BY DEF Inv, CallSound, progressVars
<1>3. Progress
  <2>1. stepIndex \in 0..N
    BY DEF TypeOK
  <2> QED BY <2>1, WorkflowAssumption DEF Progress, Lowers, progressVars
<1> QED BY <1>1, <1>2, <1>3 DEF Inv

(* A call under way belongs to an execution that was started. *)
LEMMA BusyMeansStarted ==
  ASSUME Inv, NEW c \in Calls, call[c].pc # "idle" PROVE status # "none"
BY DEF Inv, Shape, Idle

LEMMA InvStep == TypeOK /\ Inv /\ [Next]_vars => Inv' /\ Progress
<1> SUFFICES ASSUME TypeOK, Inv, [Next]_vars PROVE Inv' /\ Progress
  OBVIOUS
<1>0. DOMAIN call = Calls
  BY DEF TypeOK
<1>1. ASSUME NEW c \in Calls, Execute(c) PROVE Inv' /\ Progress
  BY <1>1, ExecuteStep
<1>2. ASSUME NEW c \in Calls, Resume(c) PROVE Inv' /\ Progress
  BY <1>2, ResumeStep
<1>3. ASSUME NEW c \in Calls, NodeCompletes(c) PROVE Inv' /\ Progress
  BY <1>3, CompletesStep
<1>4. ASSUME NEW c \in Calls, NodePends(c) PROVE Inv' /\ Progress
  <2>1. status # "none"
    BY <1>4, BusyMeansStarted DEF NodePends, PausesAt
  <2> QED BY <1>0, <1>4, <2>1, QuietStep DEF NodePends, PausesAt, Idle
<1>5. ASSUME NEW c \in Calls, NodeTimesOut(c) PROVE Inv' /\ Progress
  <2>1. status # "none"
    BY <1>5, BusyMeansStarted DEF NodeTimesOut
  <2> QED BY <1>0, <1>5, <2>1, QuietStep DEF NodeTimesOut, Idle
<1>6. ASSUME NEW c \in Calls, NEW before, call[c].pc # "idle", SagaRollback(c, before)
      PROVE  Inv' /\ Progress
  <2>1. status # "none"
    BY <1>6, BusyMeansStarted
  <2>2. UNCHANGED progressVars /\ UNCHANGED ran /\ status' # "none"
        /\ (status' = "completed" => status = "completed")
    BY <1>6, <2>1 DEF SagaRollback
  <2>3. ASSUME NEW d \in Calls, call'[d].pc = "node"
        PROVE  call[d].pc = "node" /\ call'[d].at = call[d].at
               /\ call'[d].completed = call[d].completed
    <3>1. CASE \E i : call' = [call EXCEPT ![c] = [pc |-> "undo", kind |-> call[c].kind,
                      saga |-> call[c].saga, shared |-> call[c].shared, undoAt |-> i]]
      BY <1>0, <2>3, <3>1
    <3>2. CASE call' = [e \in Calls |-> IF e = c THEN Idle ELSE KeepsList(e, c)]
      <4>1. d # c /\ call'[d] = KeepsList(d, c)
        BY <2>3, <3>2 DEF Idle
      <4>2. CASE call'[d] = call[d]
        BY <2>3, <4>2
      <4>3. CASE HasSaga(d) /\ call'[d] = [call[d] EXCEPT !.saga = savedSaga, !.shared = FALSE]
        <5>1. PICK q \in InNode \cup InUndo : call[d] = q
          BY <4>3 DEF HasSaga, TypeOK, InNode, InUndo, InRollback, Idle
        <5>2. call'[d].pc = q.pc
          BY <4>3, <5>1 DEF InNode, InUndo
        <5>3. q \in InNode
          BY <2>3, <5>1, <5>2 DEF InUndo
        <5> QED BY <2>3, <4>3, <5>1, <5>2, <5>3 DEF InNode
      <4> QED BY <4>1, <4>2, <4>3 DEF KeepsList
    <3> QED BY <1>6, <3>1, <3>2 DEF SagaRollback
  <2> QED BY <2>1, <2>2, <2>3, QuietStep
<1>7. ASSUME NEW c \in Calls, NodeFails(c) \/ UndoStep(c) PROVE Inv' /\ Progress
  BY <1>6, <1>7 DEF NodeFails, UndoStep
<1>8. ASSUME NEW c \in Calls, NEW rest, NEW ordered, status # "none",
             RollbackWith(c, rest, ordered)
      PROVE  Inv' /\ Progress
  BY <1>0, <1>8, QuietStep DEF RollbackWith, Idle
<1>9. ASSUME NEW c \in Calls, RollbackExecution(c) PROVE Inv' /\ Progress
  BY <1>8, <1>9 DEF RollbackExecution
<1>10. ASSUME NEW c \in Calls, RollbackStep(c) PROVE Inv' /\ Progress
  BY <1>8, <1>10, BusyMeansStarted DEF RollbackStep
<1>11. CASE CancelExecution
  BY <1>11, QuietStep DEF CancelExecution
<1>12. CASE ApproveNode
  BY <1>12, QuietStep DEF ApproveNode, Paused
<1>13. CASE Restart
  BY <1>13, QuietStep DEF Restart, checkpointVars, progressVars, Idle
<1>14. CASE UNCHANGED vars
  BY <1>14, QuietStep DEF vars, checkpointVars, progressVars
<1> QED
  BY <1>1, <1>2, <1>3, <1>4, <1>5, <1>7, <1>9, <1>10, <1>11, <1>12, <1>13, <1>14
     DEF Next, CallStep

-----------------------------------------------------------------------------
(* Type correctness.  That a call under way belongs to a started execution *)
(* comes from Shape; that a rollback's place stays inside its list needs   *)
(* that a list only grows while someone holds it.                          *)

Busy == {Idle} \cup InNode \cup InUndo \cup InRollback
Status == {"running", "paused", "completed", "failed", "cancelled", "rolled_back"}

Undoing(c) ==
  call[c].pc = "undo" =>
    call[c].undoAt \in 1..Len(Saga(c)) /\ Saga(c)[call[c].undoAt] \in Compensable

(* The undo cursors stay in their lists when the calls that are undoing    *)
(* are untouched and the checkpoint's list at most grows.                  *)
LEMMA UndosKept ==
  ASSUME TypeOK, NEW c \in Calls, call'[c].pc = "undo" => call'[c] = call[c],
         \/ savedSaga' = savedSaga
         \/ \E n \in Node : savedSaga' = Append(savedSaga, n)
  PROVE  Undoing(c)'
<1> SUFFICES ASSUME call'[c].pc = "undo" PROVE Undoing(c)'
  BY DEF Undoing
<1>1. call'[c] = call[c] /\ call[c].pc = "undo"
  OBVIOUS
<1>2. call[c].undoAt \in 1..Len(Saga(c)) /\ Saga(c)[call[c].undoAt] \in Compensable
  BY <1>1 DEF TypeOK
<1>3. savedSaga \in Seq(Node)
  BY DEF TypeOK
<1>4. CASE ~call[c].shared
  BY <1>1, <1>2, <1>4 DEF Undoing, Saga
<1>5. CASE call[c].shared /\ savedSaga' = savedSaga
  BY <1>1, <1>2, <1>5 DEF Undoing, Saga
<1>6. CASE call[c].shared /\ \E n \in Node : savedSaga' = Append(savedSaga, n)
  <2>1. PICK n \in Node : savedSaga' = Append(savedSaga, n)
    BY <1>6
  <2>2. Len(savedSaga') = Len(savedSaga) + 1
        /\ \A m \in 1..Len(savedSaga) : savedSaga'[m] = savedSaga[m]
    BY <1>3, <2>1
  <2>3. call[c].undoAt \in 1..Len(savedSaga) /\ savedSaga[call[c].undoAt] \in Compensable
    BY <1>2, <1>6 DEF Saga
  <2>4. Saga(c)' = savedSaga'
    BY <1>1, <1>6 DEF Saga
  <2>5. Len(savedSaga) \in Nat
    BY <1>3
  <2>6. call[c].undoAt \in 1..Len(savedSaga') /\ savedSaga'[call[c].undoAt] \in Compensable
    BY <2>2, <2>3, <2>5
  <2> QED BY <1>1, <2>4, <2>6 DEF Undoing
<1> QED BY <1>4, <1>5, <1>6

LEMMA LoopTypes ==
  ASSUME TypeOK, NEW c \in Calls, NEW i \in 0..N, NEW known \in SUBSET Node, NEW k \in Kind,
         NEW st \in Status, NEW own \in Seq(Node), NEW sh \in BOOLEAN,
         Continue(c, i, known, k, st, own, sh),
         ToVisit(i, known) = {} => stepIndex > 0
  PROVE  /\ status' \in Status /\ stepIndex' \in 1..N
         /\ completedNodes' \subseteq Node /\ inOrder' \in BOOLEAN /\ takenBack' \in BOOLEAN
         /\ call' \in [Calls -> Busy]
         /\ \A d \in Calls : call'[d].pc = "undo" => call'[d] = call[d]
<1> USE WorkflowAssumption DEF Node
<1>0. call \in [Calls -> Busy]
  BY DEF TypeOK, Busy
<1>1. ASSUME NEW j \in Node, SaveStep(j, known, k)
      PROVE  /\ stepIndex' \in 1..N /\ completedNodes' \subseteq Node
             /\ inOrder' \in BOOLEAN /\ takenBack' \in BOOLEAN
  BY <1>1 DEF SaveStep, TypeOK
<1>2. ASSUME NEW q \in {Idle} \cup InNode, call' = [call EXCEPT ![c] = q]
      PROVE  /\ call' \in [Calls -> Busy]
             /\ \A d \in Calls : call'[d].pc = "undo" => call'[d] = call[d]
  <2>1. q \in Busy /\ q.pc # "undo"
    BY <1>2 DEF Busy, InNode, Idle
  <2> QED BY <1>0, <1>2, <2>1
<1>3. CASE \E j \in Node :
             /\ call' = [call EXCEPT ![c] = [pc |-> "node", kind |-> k, at |-> j,
                                             completed |-> known, saga |-> own, shared |-> sh]]
             /\ status' = st /\ SaveStep(j, known, k)
  <2>1. PICK j \in Node :
             /\ call' = [call EXCEPT ![c] = [pc |-> "node", kind |-> k, at |-> j,
                                             completed |-> known, saga |-> own, shared |-> sh]]
             /\ status' = st /\ SaveStep(j, known, k)
    BY <1>3
  <2>2. [pc |-> "node", kind |-> k, at |-> j, completed |-> known,
         saga |-> own, shared |-> sh] \in InNode
    BY DEF InNode
  <2> QED BY <1>1, <1>2, <2>1, <2>2
<1>4. CASE /\ call' = [call EXCEPT ![c] = Idle] /\ status' = "completed"
           /\ \/ \E j \in Node : SaveStep(j, known, k)
              \/ ToVisit(i, known) = {} /\ UNCHANGED progressVars
  <2>1. CASE \E j \in Node : SaveStep(j, known, k)
    BY <1>1, <1>2, <1>4, <2>1 DEF Status
  <2>2. CASE ToVisit(i, known) = {} /\ UNCHANGED progressVars
    <3>1. stepIndex' \in 1..N
      BY <2>2 DEF TypeOK, progressVars
    <3>2. completedNodes' \subseteq Node /\ inOrder' \in BOOLEAN /\ takenBack' \in BOOLEAN
      BY <2>2, Zenon DEF TypeOK, progressVars
    <3> QED BY <1>2, <1>4, <3>1, <3>2 DEF Status
  <2> QED BY <1>4, <2>1, <2>2
<1> QED BY <1>3, <1>4 DEF Continue

(* The steps that touch only one call, the status and the flags. *)
LEMMA PlainTypes ==
  ASSUME TypeOK, NEW c \in Calls, NEW q \in {Idle} \cup InRollback,
         call' = [call EXCEPT ![c] = q], UNCHANGED <<progressVars, savedSaga, ran>>,
         status # "none", status' \in Status, pausedAt' \in 0..N,
         approvalPending' \in BOOLEAN, inMemory' \in BOOLEAN
  PROVE  TypeOK'
<1>1. q \in Busy /\ q.pc # "undo"
  BY DEF Busy, Idle, InRollback
<1>2. call \in [Calls -> Busy]
  BY DEF TypeOK, Busy
<1>3. call' \in [Calls -> Busy] /\ \A d \in Calls : call'[d].pc = "undo" => call'[d] = call[d]
  BY <1>1, <1>2
<1>4. \A d \in Calls : Undoing(d)'
  BY <1>3, UndosKept
<1>5. /\ stepIndex' \in 0..N /\ stepIndex' > 0
      /\ savedSaga' \in Seq(Node) /\ ran' \subseteq Node
  BY DEF TypeOK, progressVars
<1>6. completedNodes' \subseteq Node /\ inOrder' \in BOOLEAN /\ takenBack' \in BOOLEAN
  BY Zenon DEF TypeOK, progressVars
<1> QED BY <1>3, <1>4, <1>5, <1>6 DEF TypeOK, Status, Busy, Undoing

LEMMA SagaTypes ==
  ASSUME TypeOK, NEW c \in Calls, HasSaga(c), status # "none",
         NEW before, SagaRollback(c, before)
  PROVE  TypeOK'
<1>1. PICK r \in InNode \cup InUndo : call[c] = r
  BY DEF HasSaga, TypeOK, InNode, InUndo, InRollback, Idle
<1>2. r.kind \in Kind /\ r.saga \in Seq(Node) /\ r.shared \in BOOLEAN
  BY DEF InNode, InUndo
<1>3. savedSaga \in Seq(Node) /\ Saga(c) \in Seq(Node)
  BY <1>1, <1>2 DEF Saga, TypeOK
<1>4. call \in [Calls -> Busy]
  BY DEF TypeOK, Busy
<1>5. /\ stepIndex' \in 0..N /\ stepIndex' > 0 /\ pausedAt' \in 0..N
      /\ ran' \subseteq Node
  BY DEF SagaRollback, TypeOK, progressVars
<1>6. /\ completedNodes' \subseteq Node /\ inOrder' \in BOOLEAN /\ takenBack' \in BOOLEAN
      /\ approvalPending' \in BOOLEAN
  BY Zenon DEF SagaRollback, TypeOK, progressVars
<1>7. CASE /\ \E i \in 1..Len(Saga(c)) :
                /\ IsLast(i, Undoable(c, before))
                /\ call' = [call EXCEPT ![c] = [pc |-> "undo", kind |-> call[c].kind,
                             saga |-> call[c].saga, shared |-> call[c].shared, undoAt |-> i]]
           /\ UNCHANGED <<status, savedSaga, inMemory>>
  <2>1. PICK i \in 1..Len(Saga(c)) :
                /\ IsLast(i, Undoable(c, before))
                /\ call' = [call EXCEPT ![c] = [pc |-> "undo", kind |-> r.kind,
                             saga |-> r.saga, shared |-> r.shared, undoAt |-> i]]
    BY <1>1, <1>7
  <2> DEFINE q == [pc |-> "undo", kind |-> r.kind, saga |-> r.saga,
                   shared |-> r.shared, undoAt |-> i]
  <2>2. i \in Nat /\ Saga(c)[i] \in Compensable
    BY <2>1 DEF IsLast, Undoable
  <2>3. q \in InUndo
    BY <1>2, <2>2 DEF InUndo
  <2>4. call' \in [Calls -> Busy] /\ call'[c] = q
        /\ \A d \in Calls : d # c => call'[d] = call[d]
    BY <1>4, <2>1, <2>3 DEF Busy
  <2>5. Saga(c)' = Saga(c)
    BY <1>1, <1>7, <2>4 DEF Saga
  <2>6. Undoing(c)'
    BY <2>1, <2>2, <2>4, <2>5 DEF Undoing
  <2>7. ASSUME NEW d \in Calls, d # c PROVE Undoing(d)'
    BY <1>7, <2>4, <2>7, UndosKept
  <2>8. status' \in Status /\ inMemory' \in BOOLEAN /\ savedSaga' \in Seq(Node)
    BY <1>7 DEF TypeOK, Status
  <2> QED BY <1>5, <1>6, <2>4, <2>6, <2>7, <2>8 DEF TypeOK, Status, Busy, Undoing
<1>8. CASE /\ call' = [d \in Calls |-> IF d = c THEN Idle ELSE KeepsList(d, c)]
           /\ savedSaga' = Saga(c) /\ inMemory' = TRUE
           /\ status' = (IF call[c].kind = "execute" THEN "failed" ELSE status)
  <2>1. status' \in Status /\ inMemory' \in BOOLEAN /\ savedSaga' \in Seq(Node)
    BY <1>3, <1>8 DEF TypeOK, Status
  <2>2. ASSUME NEW d \in Calls PROVE call'[d] \in Busy /\ Undoing(d)'
    <3>1. CASE d = c
      BY <1>8, <3>1 DEF Busy, Undoing, Idle
    <3>2. CASE d # c /\ ~(HasSaga(d) /\ call[d].shared /\ ~call[c].shared)
      <4>1. call'[d] = call[d]
        BY <1>8, <3>2 DEF KeepsList
      <4>2. CASE call[d].pc = "undo" /\ call[d].shared
        <5>1. call[c].shared
          BY <3>2, <4>2 DEF HasSaga
        <5>2. savedSaga' = savedSaga
          BY <1>8, <5>1 DEF Saga
        <5> QED BY <1>4, <4>1, <5>2, UndosKept
      <4>3. CASE call[d].pc = "undo" /\ ~call[d].shared
        <5>1. Undoing(d)
          BY DEF TypeOK, Undoing
        <5>2. Saga(d)' = Saga(d)
          BY <4>1, <4>3 DEF Saga
        <5> QED BY <1>4, <4>1, <5>1, <5>2 DEF Undoing
      <4>4. CASE call[d].pc # "undo"
        BY <1>4, <4>1, <4>4 DEF Undoing
      <4> QED BY <4>2, <4>3, <4>4
    <3>3. CASE d # c /\ HasSaga(d) /\ call[d].shared /\ ~call[c].shared
      <4>1. call'[d] = [call[d] EXCEPT !.saga = savedSaga, !.shared = FALSE]
        BY <1>8, <3>3 DEF KeepsList
      <4>2. PICK q \in InNode \cup InUndo : call[d] = q
        BY <3>3 DEF HasSaga, TypeOK, InNode, InUndo, InRollback, Idle
      <4>3. call'[d] \in InNode \cup InUndo /\ call'[d].pc = q.pc
            /\ call'[d].saga = savedSaga /\ call'[d].shared = FALSE
        <5>1. CASE q \in InNode
          BY <1>3, <4>1, <4>2, <5>1 DEF InNode
        <5>2. CASE q \in InUndo
          BY <1>3, <4>1, <4>2, <5>2 DEF InUndo
        <5> QED BY <5>1, <5>2
      <4>4. Undoing(d)'
        <5> SUFFICES ASSUME call'[d].pc = "undo" PROVE Undoing(d)'
          BY DEF Undoing
        <5>1. q \in InUndo /\ call[d].pc = "undo"
          BY <4>2, <4>3 DEF InNode
        <5>2. call'[d].undoAt = call[d].undoAt
          BY <4>1, <4>2, <5>1 DEF InUndo
        <5>3. Saga(d)' = savedSaga /\ Saga(d) = savedSaga
          BY <3>3, <4>3 DEF Saga
        <5>4. Undoing(d)
          BY DEF TypeOK, Undoing
        <5> QED BY <5>1, <5>2, <5>3, <5>4 DEF Undoing
      <4> QED BY <4>3, <4>4 DEF Busy
    <3> QED BY <3>1, <3>2, <3>3
  <2>3. call' \in [Calls -> Busy]
    BY <1>8, <2>2
  <2> QED BY <1>5, <1>6, <2>1, <2>2, <2>3 DEF TypeOK, Status, Busy, Undoing
<1> QED BY <1>7, <1>8 DEF SagaRollback

LEMMA TypeStep == TypeOK /\ Inv /\ [Next]_vars => TypeOK'
<1> SUFFICES ASSUME TypeOK, Inv, [Next]_vars PROVE TypeOK'
  OBVIOUS
<1> USE WorkflowAssumption DEF Node
<1>1. ASSUME NEW c \in Calls, Execute(c) PROVE TypeOK'
  <2>1. ToVisit(0, {}) # {}
    <3>1. 1 \in ToVisit(0, {})
      BY DEF ToVisit
    <3> QED BY <3>1
  <2>2. Continue(c, 0, {}, "execute", "running", <<>>, FALSE)
    BY <1>1 DEF Execute
  <2>3. {} \in SUBSET Node /\ 0 \in 0..N /\ <<>> \in Seq(Node) /\ "execute" \in Kind
        /\ "running" \in Status /\ FALSE \in BOOLEAN
    BY DEF Kind, Status
  <2>4. /\ status' \in Status /\ stepIndex' \in 1..N
        /\ completedNodes' \subseteq Node /\ inOrder' \in BOOLEAN /\ takenBack' \in BOOLEAN
        /\ call' \in [Calls -> Busy]
        /\ \A d \in Calls : call'[d].pc = "undo" => call'[d] = call[d]
    BY <2>1, <2>2, <2>3, LoopTypes
  <2>5. inMemory' = TRUE /\ UNCHANGED <<pausedAt, savedSaga, approvalPending, ran>>
    BY <1>1 DEF Execute
  <2>6. \A d \in Calls : Undoing(d)'
    BY <2>4, <2>5, UndosKept
  <2> QED BY <2>4, <2>5, <2>6 DEF TypeOK, Status, Busy, Undoing
<1>2. ASSUME NEW c \in Calls, Resume(c) PROVE TypeOK'
  <2> DEFINE st == IF Paused THEN "running" ELSE status
             sh == savedSaga # <<>>
  <2>1. Continue(c, stepIndex - 1, completedNodes, "resume", st, <<>>, sh) /\ status # "none"
    BY <1>2 DEF Resume, ResumeAt, CanResume
  <2>2. stepIndex > 0 /\ stepIndex - 1 \in 0..N /\ completedNodes \in SUBSET Node
    BY <2>1 DEF TypeOK
  <2>3. st \in Status /\ sh \in BOOLEAN /\ <<>> \in Seq(Node) /\ "resume" \in Kind
    BY <2>1 DEF TypeOK, Status, Kind
  <2>4. approvalPending' \in BOOLEAN /\ pausedAt' \in 0..N /\ inMemory' = TRUE
        /\ UNCHANGED <<savedSaga, ran>>
    BY <1>2 DEF Resume, ResumeAt, TypeOK
  <2> HIDE DEF st, sh
  <2>5. /\ status' \in Status /\ stepIndex' \in 1..N
        /\ completedNodes' \subseteq Node /\ inOrder' \in BOOLEAN /\ takenBack' \in BOOLEAN
        /\ call' \in [Calls -> Busy]
        /\ \A d \in Calls : call'[d].pc = "undo" => call'[d] = call[d]
    BY <2>1, <2>2, <2>3, LoopTypes
  <2>6. \A d \in Calls : Undoing(d)'
    BY <2>4, <2>5, UndosKept
  <2> QED BY <2>4, <2>5, <2>6 DEF TypeOK, Status, Busy, Undoing
<1>3. ASSUME NEW c \in Calls, NodeCompletes(c) PROVE TypeOK'
  <2>1. PICK r \in InNode : call[c] = r
    BY <1>3 DEF NodeCompletes, TypeOK, InNode, InUndo, InRollback, Idle
  <2> DEFINE known == r.completed \cup {r.at}
             list == Append(Saga(c), r.at)
             own == IF r.shared THEN <<>> ELSE list
  <2>2. /\ Continue(c, r.at, known, r.kind, status, own, r.shared)
        /\ savedSaga' = (IF r.shared THEN list ELSE savedSaga)
        /\ ran' = ran \cup {r.at} /\ inMemory' = TRUE
        /\ UNCHANGED <<pausedAt, approvalPending>>
    BY <1>3, <2>1 DEF NodeCompletes
  <2>3. r.at \in 0..N /\ r.at \in Node /\ known \in SUBSET Node /\ r.kind \in Kind
        /\ r.shared \in BOOLEAN /\ r.saga \in Seq(Node)
    BY DEF InNode
  <2>4. status # "none"
    BY <2>1, BusyMeansStarted DEF InNode
  <2>5. status \in Status /\ stepIndex > 0
    BY <2>4 DEF TypeOK, Status
  <2>6. savedSaga \in Seq(Node) /\ Saga(c) \in Seq(Node)
    BY <2>1, <2>3 DEF Saga, TypeOK
  <2>7. list \in Seq(Node) /\ own \in Seq(Node)
    <3>1. list \in Seq(Node)
      BY <2>3, <2>6, AppendProperties
    <3>2. <<>> \in Seq(Node)
      OBVIOUS
    <3> QED BY <3>1, <3>2
  <2>8. \/ savedSaga' = savedSaga
        \/ \E n \in Node : savedSaga' = Append(savedSaga, n)
    BY <2>1, <2>2, <2>3 DEF Saga
  <2>9. savedSaga' \in Seq(Node)
    BY <2>2, <2>6, <2>7
  <2>10. ran' \subseteq Node
    BY <2>2, <2>3 DEF TypeOK
  <2> HIDE DEF known, own, list
  <2>11. /\ status' \in Status /\ stepIndex' \in 1..N
         /\ completedNodes' \subseteq Node /\ inOrder' \in BOOLEAN /\ takenBack' \in BOOLEAN
         /\ call' \in [Calls -> Busy]
         /\ \A d \in Calls : call'[d].pc = "undo" => call'[d] = call[d]
    BY <2>2, <2>3, <2>5, <2>7, LoopTypes
  <2>12. \A d \in Calls : Undoing(d)'
    BY <2>8, <2>11, UndosKept
  <2>13. pausedAt' \in 0..N /\ approvalPending' \in BOOLEAN /\ inMemory' \in BOOLEAN
    BY <2>2 DEF TypeOK
  <2> QED BY <2>9, <2>10, <2>11, <2>12, <2>13 DEF TypeOK, Status, Busy, Undoing
<1>4. ASSUME NEW c \in Calls, NodePends(c) PROVE TypeOK'
  <2>1. status # "none" /\ call[c].at \in 0..N
    <3>1. call[c].pc = "node" /\ call[c].at \in Gated
      BY <1>4 DEF NodePends, PausesAt
    <3>2. status # "none"
      BY <3>1, BusyMeansStarted
    <3>3. call[c].at \in 1..N
      BY <3>1
    <3> QED BY <3>2, <3>3
  <2>2. /\ call' = [call EXCEPT ![c] = Idle] /\ UNCHANGED <<progressVars, savedSaga, ran>>
        /\ status' \in Status /\ pausedAt' \in 0..N
        /\ approvalPending' \in BOOLEAN /\ inMemory' \in BOOLEAN
    BY <1>4, <2>1 DEF NodePends, PausesAt, Status
  <2> QED BY <2>1, <2>2, PlainTypes
<1>5. ASSUME NEW c \in Calls, NodeTimesOut(c) PROVE TypeOK'
  <2>1. status # "none"
    BY <1>5, BusyMeansStarted DEF NodeTimesOut
  <2>2. /\ call' = [call EXCEPT ![c] = Idle] /\ UNCHANGED <<progressVars, savedSaga, ran>>
        /\ status' \in Status /\ pausedAt' \in 0..N
        /\ approvalPending' \in BOOLEAN /\ inMemory' \in BOOLEAN
    BY <1>5 DEF NodeTimesOut, Status, TypeOK
  <2> QED BY <2>1, <2>2, PlainTypes
<1>6. ASSUME NEW c \in Calls, NodeFails(c) \/ UndoStep(c) PROVE TypeOK'
  <2>1. HasSaga(c) /\ status # "none"
    BY <1>6, BusyMeansStarted DEF NodeFails, UndoStep, HasSaga
  <2> QED BY <1>6, <2>1, SagaTypes DEF NodeFails, UndoStep
<1>7. ASSUME NEW c \in Calls, NEW rest \in SUBSET Compensable, NEW ordered \in BOOLEAN,
             status # "none", RollbackWith(c, rest, ordered)
      PROVE  TypeOK'
  <2>1. [pc |-> "rollback", left |-> rest, ordered |-> ordered] \in InRollback
    BY DEF InRollback
  <2>2. status \in Status /\ pausedAt' \in 0..N /\ UNCHANGED <<progressVars, savedSaga, ran>>
    BY <1>7 DEF RollbackWith, TypeOK, Status
  <2>3. CASE rest # {}
    <3>1. call' = [call EXCEPT ![c] = [pc |-> "rollback", left |-> rest, ordered |-> ordered]]
          /\ UNCHANGED <<status, approvalPending, inMemory>>
      BY <1>7, <2>3 DEF RollbackWith
    <3>2. approvalPending' \in BOOLEAN /\ inMemory' \in BOOLEAN
      BY <3>1 DEF TypeOK
    <3> QED BY <1>7, <2>1, <2>2, <3>1, <3>2, PlainTypes
  <2>4. CASE rest = {}
    <3>1. call' = [call EXCEPT ![c] = Idle] /\ status' = "rolled_back"
          /\ approvalPending' = FALSE /\ inMemory' = TRUE
      BY <1>7, <2>4 DEF RollbackWith
    <3> QED BY <1>7, <2>2, <3>1, PlainTypes DEF Status
  <2> QED BY <2>3, <2>4
<1>8. ASSUME NEW c \in Calls, RollbackExecution(c) PROVE TypeOK'
  <2>1. completedNodes \cap Compensable \in SUBSET Compensable /\ inOrder \in BOOLEAN
    BY DEF TypeOK
  <2> QED BY <1>7, <1>8, <2>1 DEF RollbackExecution
<1>9. ASSUME NEW c \in Calls, RollbackStep(c) PROVE TypeOK'
  <2>1. PICK r \in InRollback : call[c] = r
    BY <1>9 DEF RollbackStep, TypeOK, InNode, InUndo, InRollback, Idle
  <2>2. PICK n : RollbackWith(c, r.left \ {n}, r.ordered)
    BY <1>9, <2>1 DEF RollbackStep
  <2>3. r.left \ {n} \in SUBSET Compensable /\ r.ordered \in BOOLEAN
    BY DEF InRollback
  <2>4. status # "none"
    BY <1>9, BusyMeansStarted DEF RollbackStep
  <2> QED BY <1>7, <2>2, <2>3, <2>4
<1>10. CASE CancelExecution \/ ApproveNode
  <2>1. /\ status' \in Status /\ status # "none" /\ pausedAt' \in 0..N
        /\ approvalPending' = FALSE /\ inMemory' = TRUE
        /\ UNCHANGED <<progressVars, savedSaga, call, ran>>
    BY <1>10 DEF CancelExecution, ApproveNode, Paused, TypeOK, Status
  <2>2. \A d \in Calls : Undoing(d)'
    BY <2>1, UndosKept
  <2>3. stepIndex' \in 0..N /\ stepIndex' > 0
    BY <2>1 DEF TypeOK, progressVars
  <2>4. completedNodes' \subseteq Node /\ inOrder' \in BOOLEAN /\ takenBack' \in BOOLEAN
    BY <2>1, Zenon DEF TypeOK, progressVars
  <2>5. call' \in [Calls -> Busy] /\ savedSaga' \in Seq(Node) /\ ran' \subseteq Node
    BY <2>1 DEF TypeOK, Busy
  <2> QED BY <2>1, <2>2, <2>3, <2>4, <2>5 DEF TypeOK, Status, Busy, Undoing
<1>11. CASE Restart
  <2>1. call' \in [Calls -> Busy] /\ \A d \in Calls : call'[d].pc # "undo"
    BY <1>11 DEF Restart, Busy, Idle
  <2> QED BY <1>11, <2>1 DEF Restart, TypeOK, checkpointVars, Busy
<1>12. CASE UNCHANGED vars
  BY <1>12 DEF vars, checkpointVars, TypeOK, Saga
<1> QED
  BY <1>1, <1>2, <1>3, <1>4, <1>5, <1>6, <1>8, <1>9, <1>10, <1>11, <1>12 DEF Next, CallStep

LEMMA InvAlways == Spec => [](TypeOK /\ Inv)
<1>1. Init => TypeOK /\ Inv
  <2> SUFFICES ASSUME Init PROVE TypeOK /\ Inv
    OBVIOUS
  <2>1. <<>> \in Seq(Node) /\ \A c \in Calls : call[c] = Idle /\ call[c].pc = "idle"
    BY DEF Init, Idle
  <2>2. call \in [Calls -> {Idle} \cup InNode \cup InUndo \cup InRollback]
    BY DEF Init
  <2>3. /\ status = "none" /\ stepIndex \in 0..N /\ pausedAt \in 0..N
        /\ completedNodes \subseteq Node /\ ran \subseteq Node /\ savedSaga \in Seq(Node)
    BY <2>1, WorkflowAssumption DEF Init
  <2>4. inOrder \in BOOLEAN /\ approvalPending \in BOOLEAN /\ inMemory \in BOOLEAN
        /\ takenBack \in BOOLEAN
    BY DEF Init
  <2>5. TypeOK
    BY <2>1, <2>2, <2>3, <2>4 DEF TypeOK
  <2>6. Inv
    BY <2>1, WorkflowAssumption
       DEF Init, Inv, Shape, CallSound, CheckpointLag, CompletedMeansAllRan, Node
  <2> QED BY <2>5, <2>6
<1> QED BY <1>1, InvStep, TypeStep, PTL DEF Spec

(* No node is run before the enabled nodes it comes after, whatever        *)
(* failures, timeouts, restarts and overlapping resumes happened.          *)
THEOREM RunsInOrder == Spec => []DependencyOrder
<1>1. Inv => DependencyOrder
  BY DEF Inv, CallSound, DependencyOrder
<1> QED BY <1>1, InvAlways, PTL

(* For any number of overlapping calls a saved checkpoint claims only what *)
(* ran and skips nothing that did not; it is at most one node behind what  *)
(* was really done unless a call has taken saved progress back.            *)
THEOREM CheckpointTruthful == Spec => []CheckpointLag
BY InvAlways, PTL DEF Inv

(* COMPLETED is only ever recorded when every enabled node has completed. *)
THEOREM CompletionHonest == Spec => []CompletedMeansAllRan
BY InvAlways, PTL DEF Inv

(* Of any number of calls on one checkpoint, only one that another call    *)
(* overtook takes saved progress back, when its node completes.            *)
THEOREM ProgressKept == Spec => CheckpointMonotone
<1>1. TypeOK /\ Inv /\ [Next]_vars => [Progress]_vars
  BY InvStep
<1> QED BY <1>1, InvAlways, PTL DEF Spec, CheckpointMonotone, Progress

(* Through pauses, failures, restarts and overlapping calls the checkpoint *)
(* and the calls stay well formed: a call under way is at a node of the    *)
(* workflow, a resume never goes behind its last node, and a saga rollback *)
(* only ever compensates an action that is in its list and has a           *)
(* compensation.                                                           *)
THEOREM ExecutorTypes == Spec => []TypeOK
BY InvAlways, PTL

-----------------------------------------------------------------------------
(* The sort.  What a degree counts: the dependencies that are not in the   *)
(* result yet.                                                             *)

Missing(n) == Predecessors(n) \ Elements(result)

DegreeCountsMissing == \A n \in Nodes : inDegree[n] = Cardinality(Missing(n))

(* A queued node has all its dependencies behind it and is queued once. *)
QueueReady == \A q \in Elements(queue) : Missing(q) = {}
QueueOnce == \A i, j \in 1..Len(queue) : queue[i] = queue[j] => i = j
QueueNew == Elements(queue) \cap Elements(result) = {}

(* A node with all its dependencies behind it is queued or in the result. *)
ReadyIsTaken == \A n \in Nodes : Missing(n) = {} => n \in Elements(queue) \cup Elements(result)

SortInv ==
  /\ SortTypeOK /\ DegreeCountsMissing
  /\ QueueReady /\ QueueOnce /\ QueueNew /\ ReadyIsTaken
  /\ OrderRespectsEdges /\ NoNodeTwice

LEMMA FiniteMissing == ASSUME NEW n PROVE IsFiniteSet(Missing(n)) /\ IsFiniteSet(Predecessors(n))
BY GraphAssumption, FS_Subset DEF Missing, Predecessors

LEMMA ListingIsSeq ==
  ASSUME NEW S \in SUBSET Nodes, NEW s \in Listings(S)
  PROVE  /\ s \in Seq(Nodes) /\ Elements(s) = S
         /\ \A i, j \in 1..Len(s) : s[i] = s[j] => i = j
<1>1. Cardinality(S) \in Nat
  BY GraphAssumption, FS_Subset, FS_CardinalityType
<1>2. s \in [1..Cardinality(S) -> S]
  BY DEF Listings
<1>3. s \in Seq(Nodes) /\ Len(s) = Cardinality(S)
  BY <1>1, <1>2
<1>4. Elements(s) = S
  <2> DEFINE places == 1..Cardinality(S)
  <2>1. IsFiniteSet(S) /\ Cardinality(places) = Cardinality(S)
    <3>1. 1 \in Int /\ Cardinality(S) \in Int
      BY <1>1
    <3>2. Cardinality(places) = IF 1 > Cardinality(S) THEN 0 ELSE Cardinality(S) - 1 + 1
      BY <3>1, FS_Interval
    <3>3. Cardinality(places) = Cardinality(S)
      BY <1>1, <3>2
    <3> QED BY <3>3, GraphAssumption, FS_Subset
  <2>2. s \in Injection(places, S)
    BY DEF Listings, Injection, IsInjective
  <2> HIDE DEF places
  <2>3. s \in Surjection(places, S)
    BY <2>1, <2>2, FS_Injection
  <2>4. \A x \in S : \E i \in places : s[i] = x
    BY <2>3 DEF Surjection
  <2> QED BY <1>2, <1>3, <2>4 DEF Elements, places
<1> QED BY <1>2, <1>3, <1>4 DEF Listings

LEMMA SortStarts == SortInit => SortInv
<1> SUFFICES ASSUME SortInit PROVE SortInv
  OBVIOUS
<1> DEFINE S == {n \in Nodes : Predecessors(n) = {}}
<1>1. queue \in Listings(S) /\ S \in SUBSET Nodes /\ result = <<>>
  BY DEF SortInit
<1> HIDE DEF S
<1>2. /\ queue \in Seq(Nodes) /\ Elements(queue) = S
      /\ \A i, j \in 1..Len(queue) : queue[i] = queue[j] => i = j
  BY <1>1, ListingIsSeq
<1>3. Elements(result) = {} /\ Len(result) = 0 /\ result \in Seq(Nodes)
  BY <1>1 DEF Elements
<1>4. \A n \in Nodes : Cardinality(Predecessors(n)) \in Nat
  BY FiniteMissing, FS_CardinalityType
<1>5. SortTypeOK /\ DegreeCountsMissing
  BY <1>2, <1>3, <1>4 DEF SortInit, SortTypeOK, DegreeCountsMissing, Missing
<1>6. QueueReady
  BY <1>2 DEF QueueReady, Missing, Elements, S
<1>7. QueueOnce /\ QueueNew /\ OrderRespectsEdges /\ NoNodeTwice
  BY <1>2, <1>3 DEF QueueOnce, QueueNew, OrderRespectsEdges, NoNodeTwice
<1>8. ReadyIsTaken
  BY <1>2, <1>3 DEF ReadyIsTaken, Missing, S
<1> QED BY <1>5, <1>6, <1>7, <1>8 DEF SortInv

LEMMA VisitStep == ASSUME SortInv, Visit PROVE SortInv'
<1> DEFINE n == Head(queue)
           rest == Tail(queue)
<1> USE DEF SortInv
<1>1. /\ queue \in Seq(Nodes) /\ queue # <<>> /\ n \in Nodes /\ n = queue[1]
      /\ rest \in Seq(Nodes) /\ Len(rest) = Len(queue) - 1 /\ Len(queue) \in Nat \ {0}
      /\ \A i \in 1..Len(rest) : rest[i] = queue[i + 1]
  BY DEF Visit, SortTypeOK
<1>2. PICK ready \in Listings(Ready(n)) : queue' = rest \o ready
  BY DEF Visit
<1>3. result' = Append(result, n) /\ inDegree' = Lower(n) /\ edges' = edges
  BY DEF Visit
<1>4. n \notin Elements(result) /\ Missing(n) = {}
  BY <1>1 DEF QueueNew, Elements, QueueReady
<1> HIDE DEF n, rest
<1>5. /\ result' \in Seq(Nodes) /\ Len(result') = Len(result) + 1
      /\ \A i \in 1..Len(result) : result'[i] = result[i]
      /\ result'[Len(result) + 1] = n
      /\ Elements(result') = Elements(result) \cup {n}
  BY <1>1, <1>3 DEF SortTypeOK, Elements
<1>6. /\ Elements(result)' = Elements(result) \cup {n}
      /\ \A m : Predecessors(m)' = Predecessors(m)
      /\ \A m : Missing(m)' = Missing(m) \ {n}
  BY <1>3, <1>5 DEF Elements, Predecessors, Missing
<1>7. DegreeCountsMissing' /\ inDegree' \in [Nodes -> Nat]
  <2>1. ASSUME NEW m \in Nodes
        PROVE  inDegree'[m] = Cardinality(Missing(m) \ {n}) /\ inDegree'[m] \in Nat
    <3>1. Cardinality(Missing(m)) \in Nat /\ Cardinality(Missing(m) \ {n}) \in Nat
      BY FiniteMissing, FS_RemoveElement, FS_CardinalityType
    <3>2. CASE <<n, m>> \in edges
      <4>1. n \in Missing(m)
        BY <1>1, <1>4, <3>2 DEF Missing, Predecessors
      <4>2. Cardinality(Missing(m) \ {n}) = Cardinality(Missing(m)) - 1
        BY <4>1, FiniteMissing, FS_RemoveElement
      <4> QED BY <1>3, <3>1, <3>2, <4>2 DEF Lower, DegreeCountsMissing
    <3>3. CASE <<n, m>> \notin edges
      <4>1. Missing(m) \ {n} = Missing(m)
        BY <3>3 DEF Missing, Predecessors
      <4> QED BY <1>3, <3>1, <3>3, <4>1 DEF Lower, DegreeCountsMissing
    <3> QED BY <3>2, <3>3
  <2>2. inDegree' = [m \in Nodes |-> inDegree'[m]]
    BY <1>3 DEF Lower
  <2> QED BY <1>6, <2>1, <2>2 DEF DegreeCountsMissing
<1>8. /\ Ready(n) \in SUBSET Nodes
      /\ \A m \in Ready(n) : <<n, m>> \in edges /\ Missing(m)' = {}
  <2>1. ASSUME NEW m \in Ready(n) PROVE <<n, m>> \in edges /\ Missing(m)' = {}
    <3>1. m \in Nodes /\ <<n, m>> \in edges /\ inDegree'[m] = 0
      BY <1>3 DEF Ready
    <3>2. Cardinality(Missing(m) \ {n}) = 0
      BY <1>6, <1>7, <3>1 DEF DegreeCountsMissing
    <3>3. IsFiniteSet(Missing(m) \ {n})
      BY FiniteMissing, FS_RemoveElement
    <3> QED BY <1>6, <3>1, <3>2, <3>3, FS_EmptySet
  <2> QED BY <2>1 DEF Ready
<1>9. /\ ready \in Seq(Nodes) /\ Elements(ready) = Ready(n)
      /\ \A i, j \in 1..Len(ready) : ready[i] = ready[j] => i = j
  BY <1>2, <1>8, ListingIsSeq
<1>10. /\ queue' \in Seq(Nodes) /\ Len(queue') = Len(rest) + Len(ready)
       /\ \A i \in 1..Len(rest) : queue'[i] = rest[i]
       /\ \A i \in Len(rest) + 1 .. Len(queue') : queue'[i] = ready[i - Len(rest)]
  <2>1. /\ rest \o ready \in Seq(Nodes)
        /\ Len(rest \o ready) = Len(rest) + Len(ready)
        /\ \A i \in 1..Len(rest) + Len(ready) :
             (rest \o ready)[i] = IF i <= Len(rest) THEN rest[i] ELSE ready[i - Len(rest)]
    BY <1>1, <1>9, ConcatProperties
  <2>2. Len(rest) \in Nat /\ Len(ready) \in Nat
    BY <1>1, <1>9
  <2> QED BY <1>2, <2>1, <2>2
<1>11. \A i \in 1..Len(ready) : ready[i] \in Ready(n)
  BY <1>9 DEF Elements
<1>12. \* a node that becomes ready was neither queued nor in the result
       \A m \in Ready(n) : m \notin Elements(queue) /\ m \notin Elements(result) /\ m # n
  <2> SUFFICES ASSUME NEW m \in Ready(n) PROVE m \notin Elements(queue) \cup Elements(result)
    BY <1>1 DEF Elements, n
  <2>1. n \in Missing(m)
    BY <1>1, <1>4, <1>8 DEF Missing, Predecessors
  <2>2. m \notin Elements(queue)
    BY <2>1 DEF QueueReady, Elements
  <2>3. m \notin Elements(result)
    <3> SUFFICES ASSUME NEW i \in 1..Len(result), m = result[i] PROVE FALSE
      BY DEF Elements
    <3>1. n \in Predecessors(result[i]) /\ n \notin Elements(result)
      BY <2>1 DEF Missing
    <3>2. PICK j \in 1..(i - 1) : result[j] = n
      BY <3>1 DEF OrderRespectsEdges
    <3>3. j \in 1..Len(result)
      BY DEF SortTypeOK
    <3> QED BY <3>1, <3>2, <3>3 DEF Elements
  <2> QED BY <2>2, <2>3
<1>13. Len(rest) \in Nat /\ Len(ready) \in Nat
  BY <1>1, <1>9
<1>14. \A i \in 1..Len(queue') :
          \/ i \in 1..Len(rest) /\ queue'[i] = queue[i + 1] /\ i + 1 \in 2..Len(queue)
          \/ i - Len(rest) \in 1..Len(ready) /\ queue'[i] = ready[i - Len(rest)]
  <2> SUFFICES ASSUME NEW i \in 1..Len(queue')
               PROVE  \/ i \in 1..Len(rest) /\ queue'[i] = queue[i + 1] /\ i + 1 \in 2..Len(queue)
                      \/ i - Len(rest) \in 1..Len(ready) /\ queue'[i] = ready[i - Len(rest)]
    OBVIOUS
  <2>1. CASE i <= Len(rest)
    <3>1. i \in 1..Len(rest)
      BY <1>10, <1>13, <2>1
    <3> QED BY <1>1, <1>10, <1>13, <3>1
  <2>2. CASE i > Len(rest)
    <3>1. i \in Len(rest) + 1 .. Len(queue') /\ i - Len(rest) \in 1..Len(ready)
      BY <1>10, <1>13, <2>2
    <3> QED BY <1>10, <3>1
  <2>3. i <= Len(rest) \/ i > Len(rest)
    BY <1>10, <1>13
  <2> QED BY <2>1, <2>2, <2>3
<1>15. QueueReady'
  <2> SUFFICES ASSUME NEW i \in 1..Len(queue'), NEW q, q = queue'[i] PROVE Missing(q)' = {}
    BY DEF QueueReady, Elements
  <2>1. CASE q = queue[i + 1] /\ i + 1 \in 2..Len(queue)
    <3>1. q \in Elements(queue)
      BY <1>1, <2>1 DEF Elements
    <3> QED BY <1>6, <3>1 DEF QueueReady
  <2>2. CASE i - Len(rest) \in 1..Len(ready) /\ q = ready[i - Len(rest)]
    BY <1>8, <1>11, <2>2
  <2> QED BY <1>14, <2>1, <2>2
<1>16. QueueOnce'
  <2> SUFFICES ASSUME NEW i \in 1..Len(queue'), NEW j \in 1..Len(queue'), queue'[i] = queue'[j]
               PROVE  i = j
    BY DEF QueueOnce
  <2>1. \A k \in 2..Len(queue) : queue[k] \in Elements(queue)
    BY DEF Elements
  <2>2. CASE /\ queue'[i] = queue[i + 1] /\ i + 1 \in 2..Len(queue)
             /\ queue'[j] = queue[j + 1] /\ j + 1 \in 2..Len(queue)
    <3>1. queue[i + 1] = queue[j + 1]
      BY <2>2, Zenon
    <3>2. i + 1 \in 1..Len(queue) /\ j + 1 \in 1..Len(queue)
      BY <1>1, <2>2, Len(queue) \in Nat
    <3>3. i + 1 = j + 1
      BY <3>1, <3>2 DEF QueueOnce
    <3> QED BY <3>3
  <2>3. CASE /\ i - Len(rest) \in 1..Len(ready) /\ queue'[i] = ready[i - Len(rest)]
             /\ j - Len(rest) \in 1..Len(ready) /\ queue'[j] = ready[j - Len(rest)]
    <3>1. i - Len(rest) = j - Len(rest)
      BY <1>9, <2>3
    <3> QED BY <1>13, <3>1
  <2>4. CASE /\ queue'[i] = queue[i + 1] /\ i + 1 \in 2..Len(queue)
             /\ j - Len(rest) \in 1..Len(ready) /\ queue'[j] = ready[j - Len(rest)]
    BY <1>11, <1>12, <2>1, <2>4
  <2>5. CASE /\ queue'[j] = queue[j + 1] /\ j + 1 \in 2..Len(queue)
             /\ i - Len(rest) \in 1..Len(ready) /\ queue'[i] = ready[i - Len(rest)]
    BY <1>11, <1>12, <2>1, <2>5
  <2> QED BY <1>14, <2>2, <2>3, <2>4, <2>5
<1>17. QueueNew'
  <2> SUFFICES ASSUME NEW i \in 1..Len(queue') PROVE queue'[i] \notin Elements(result) \cup {n}
    BY <1>5 DEF QueueNew, Elements
  <2>1. CASE i \in 1..Len(rest) /\ queue'[i] = queue[i + 1] /\ i + 1 \in 2..Len(queue)
    <3>1. queue[i + 1] # queue[1]
      BY <1>1, <2>1 DEF QueueOnce
    <3>2. queue[i + 1] \notin Elements(result)
      <4>1. i + 1 \in 1..Len(queue)
        BY <2>1
      <4>2. queue[i + 1] \in Elements(queue)
        BY <4>1 DEF Elements
      <4> QED BY <4>2 DEF QueueNew
    <3> QED BY <1>1, <2>1, <3>1, <3>2 DEF n
  <2>2. CASE i - Len(rest) \in 1..Len(ready) /\ queue'[i] = ready[i - Len(rest)]
    BY <1>11, <1>12, <2>2
  <2> QED BY <1>14, <2>1, <2>2
<1>18. NoNodeTwice'
  <2> SUFFICES ASSUME NEW i \in 1..Len(result'), NEW j \in 1..Len(result'), result'[i] = result'[j]
               PROVE  i = j
    BY DEF NoNodeTwice
  <2>1. Len(result) \in Nat
    BY DEF SortTypeOK
  <2>2. \A k \in 1..Len(result) : result[k] # n
    BY <1>4 DEF Elements
  <2>3. CASE i \in 1..Len(result) /\ j \in 1..Len(result)
    BY <1>5, <2>3 DEF NoNodeTwice
  <2> QED BY <1>5, <2>1, <2>2, <2>3
<1>19. OrderRespectsEdges'
  <2> SUFFICES ASSUME NEW i \in 1..Len(result'), NEW p \in Predecessors(result'[i])
               PROVE  \E j \in 1..(i - 1) : result'[j] = p
    BY <1>6 DEF OrderRespectsEdges
  <2>1. Len(result) \in Nat
    BY DEF SortTypeOK
  <2>2. CASE i \in 1..Len(result)
    <3>1. PICK j \in 1..(i - 1) : result[j] = p
      BY <1>5, <2>2 DEF OrderRespectsEdges
    <3> QED BY <1>5, <2>1, <2>2, <3>1
  <2>3. CASE i = Len(result) + 1
    <3>1. p \in Elements(result)
      BY <1>4, <1>5, <2>3 DEF Missing
    <3>2. PICK j \in 1..Len(result) : result[j] = p
      BY <3>1 DEF Elements
    <3> QED BY <1>5, <2>1, <2>3, <3>2
  <2> QED BY <1>5, <2>1, <2>2, <2>3
<1>20. SortTypeOK'
  BY <1>3, <1>5, <1>7, <1>10 DEF SortTypeOK
<1>21. ReadyIsTaken'
  <2> SUFFICES ASSUME NEW m \in Nodes, Missing(m)' = {}
               PROVE  m \in Elements(queue)' \/ m \in Elements(result)'
    BY DEF ReadyIsTaken
  <2>1. CASE Missing(m) = {}
    <3>1. CASE m \in Elements(result) \/ m = n
      BY <1>6, <3>1
    <3>2. CASE m \in Elements(queue) /\ m # n
      <4>1. PICK i \in 1..Len(queue) : queue[i] = m
        BY <3>2 DEF Elements
      <4>2. i - 1 \in 1..Len(rest) /\ rest[i - 1] = m
        BY <1>1, <3>2, <4>1 DEF n
      <4>3. i - 1 \in 1..Len(queue') /\ queue'[i - 1] = m
        BY <1>10, <1>13, <4>2
      <4> QED BY <4>3 DEF Elements
    <3> QED BY <2>1, <3>1, <3>2 DEF ReadyIsTaken
  <2>2. CASE Missing(m) # {}
    <3>1. n \in Missing(m) /\ Cardinality(Missing(m)') = 0
      BY <1>6, <2>2, FS_EmptySet
    <3>2. <<n, m>> \in edges /\ inDegree'[m] = 0
      BY <1>7, <3>1 DEF DegreeCountsMissing, Missing, Predecessors
    <3>3. m \in Elements(ready)
      BY <1>3, <1>9, <3>2 DEF Ready
    <3>4. PICK i \in 1..Len(ready) : ready[i] = m
      BY <3>3 DEF Elements
    <3>5. Len(rest) + i \in Len(rest) + 1 .. Len(queue') /\ Len(rest) + i \in 1..Len(queue') /\ (Len(rest) + i) - Len(rest) = i
      BY <1>10, <1>13
    <3>6. queue'[Len(rest) + i] = m
      BY <1>10, <3>4, <3>5
    <3> QED BY <3>5, <3>6 DEF Elements
  <2> QED BY <2>1, <2>2
<1> QED BY <1>7, <1>15, <1>16, <1>17, <1>18, <1>19, <1>20, <1>21

-----------------------------------------------------------------------------
(* The search.  The gray nodes are the calls of dfs() under way, in the     *)
(* order they were made; each called the next one over an edge.             *)
PathIsGray ==
  /\ \A n \in Nodes : color[n] = "gray" <=> n \in Elements(path)
  /\ \A i, j \in 1..Len(path) : path[i] = path[j] => i = j
  /\ \A i \in 1..(Len(path) - 1) : <<path[i], path[i + 1]>> \in edges

(* While no cycle was seen, the black nodes lead to black ones only, none   *)
(* of them feeds itself, and what the loop of a gray node has looked at is  *)
(* black, but for the node it called.                                       *)
BlackClosed == \A n \in Nodes : color[n] = "black" => \A m \in Neighbours(n) : color[m] = "black"

BlackAcyclic ==
  \A S \in SUBSET Nodes :
    S # {} /\ (\A n \in S : color[n] = "black") => \E n \in S : Predecessors(n) \cap S = {}

LookedAt ==
  \A i \in 1..Len(path) : \A m \in Neighbours(path[i]) \ left[path[i]] :
    color[m] = "black" \/ (i < Len(path) /\ m = path[i + 1])

(* A neighbour is taken off the list once, so only edges are looked at. *)
LeftAreNeighbours == \A i \in 1..Len(path) : left[path[i]] \subseteq Neighbours(path[i])

SearchInv ==
  /\ color \in [Nodes -> {"white", "gray", "black"}]
  /\ path \in Seq(Nodes) /\ left \in [Nodes -> SUBSET Nodes] /\ cycleSeen \in BOOLEAN
  /\ PathIsGray /\ LeftAreNeighbours
  /\ ~cycleSeen => BlackClosed /\ BlackAcyclic /\ LookedAt
  /\ cycleSeen => ~Acyclic

ValidatorInv == SortInv /\ SearchInv

LEMMA SearchStarts == ValidatorInit => SearchInv
<1> SUFFICES ASSUME ValidatorInit PROVE SearchInv
  OBVIOUS
<1>1. /\ \A n \in Nodes : color[n] = "white"
      /\ path = <<>> /\ Len(path) = 0 /\ Elements(path) = {} /\ cycleSeen = FALSE
  BY DEF ValidatorInit, Elements
<1>2. /\ color \in [Nodes -> {"white", "gray", "black"}] /\ path \in Seq(Nodes)
      /\ left \in [Nodes -> SUBSET Nodes] /\ cycleSeen \in BOOLEAN
  <2>1. color = [n \in Nodes |-> "white"] /\ left = [n \in Nodes |-> {}]
    BY DEF ValidatorInit
  <2>2. color \in [Nodes -> {"white", "gray", "black"}]
    BY <2>1
  <2>3. left \in [Nodes -> SUBSET Nodes] /\ path \in Seq(Nodes)
    BY <1>1, <2>1
  <2>4. cycleSeen \in BOOLEAN
    BY <1>1, Zenon
  <2> QED BY <2>2, <2>3, <2>4
<1>3. PathIsGray /\ LeftAreNeighbours /\ LookedAt
  BY <1>1 DEF PathIsGray, LeftAreNeighbours, LookedAt
<1>4. BlackClosed /\ BlackAcyclic
  BY <1>1 DEF BlackClosed, BlackAcyclic
<1> QED BY <1>1, <1>2, <1>3, <1>4 DEF SearchInv

(* A call of dfs(): the path grows by a white node. *)
LEMMA EnterKeeps ==
  ASSUME SearchInv, NEW n \in Nodes, color[n] = "white", Enter(n), UNCHANGED sortVars,
         cycleSeen' = cycleSeen, path # <<>> => <<Current, n>> \in edges,
         left' \in [Nodes -> SUBSET Nodes], left'[n] = Neighbours(n),
         \A i \in 1..Len(path) :
           left'[path[i]] = left[path[i]] \/ (i = Len(path) /\ left'[path[i]] = left[path[i]] \ {n})
  PROVE  SearchInv'
<1>1. PICK L \in Nat : L = Len(path)
  BY DEF SearchInv
<1>2. /\ path \in Seq(Nodes) /\ path' \in Seq(Nodes) /\ Len(path') = L + 1 /\ path'[L + 1] = n
      /\ \A i \in 1..L : path'[i] = path[i] /\ path[i] \in Nodes
  <2>1. path \in Seq(Nodes) /\ path' = Append(path, n)
    BY DEF SearchInv, Enter
  <2>2. /\ Append(path, n) \in Seq(Nodes) /\ Len(Append(path, n)) = L + 1 /\ Append(path, n)[L + 1] = n
        /\ \A i \in 1..L : Append(path, n)[i] = path[i]
    BY <1>1, <2>1, AppendProperties
  <2> QED BY <1>1, <2>1, <2>2
<1>3. \A m \in Nodes : color'[m] = IF m = n THEN "gray" ELSE color[m]
  BY DEF Enter, SearchInv
<1>4. color' \in [Nodes -> {"white", "gray", "black"}]
  BY DEF Enter, SearchInv
<1>5. edges' = edges /\ \A m : Neighbours(m)' = Neighbours(m) /\ Predecessors(m)' = Predecessors(m)
  BY DEF sortVars, Neighbours, Predecessors
<1>13. \A i : Neighbours(path[i])' = Neighbours(path'[i])
  BY <1>5 DEF Neighbours
<1>6. Elements(path) = {path[i] : i \in 1..L} /\ Elements(path)' = {path'[i] : i \in 1..(L + 1)}
  BY <1>1, <1>2 DEF Elements
<1>7. \A i \in 1..L : path[i] # n /\ color[path[i]] = "gray"
  BY <1>2, <1>6 DEF SearchInv, PathIsGray
<1>8. \A m \in Nodes : color'[m] = "black" <=> color[m] = "black"
  BY <1>3
<1>9. PathIsGray'
  <2>1. ASSUME NEW m \in Nodes PROVE color'[m] = "gray" <=> m \in Elements(path)'
    <3>1. m \in Elements(path)' <=> (m \in Elements(path) \/ m = n)
      <4>1. m = n => m \in Elements(path)'
        <5>1. L + 1 \in 1..(L + 1)
          OBVIOUS
        <5> QED BY <1>2, <1>6, <5>1
      <4>2. m \in Elements(path) => m \in Elements(path)'
        <5>1. 1..L \subseteq 1..(L + 1)
          OBVIOUS
        <5> QED BY <1>2, <1>6, <5>1
      <4>3. m \in Elements(path)' /\ m # n => m \in Elements(path)
        <5>1. \A i \in 1..(L + 1) : i \in 1..L \/ i = L + 1
          OBVIOUS
        <5> QED BY <1>2, <1>6, <5>1
      <4> QED BY <4>1, <4>2, <4>3
    <3> QED BY <1>3, <3>1 DEF SearchInv, PathIsGray
  <2>2. ASSUME NEW i \in 1..Len(path'), NEW j \in 1..Len(path'), path'[i] = path'[j] PROVE i = j
    <3>1. (i \in 1..L \/ i = L + 1) /\ (j \in 1..L \/ j = L + 1)
      BY <1>2
    <3>2. CASE i \in 1..L /\ j \in 1..L
      BY <1>1, <1>2, <2>2, <3>2 DEF SearchInv, PathIsGray
    <3> QED BY <1>2, <1>7, <2>2, <3>1, <3>2
  <2>3. ASSUME NEW i \in 1..(Len(path') - 1) PROVE <<path'[i], path'[i + 1]>> \in edges'
    <3>1. CASE i < L
      <4>1. i \in 1..(Len(path) - 1) /\ i \in 1..L /\ i + 1 \in 1..L
        BY <1>1, <1>2, <3>1
      <4> QED BY <1>2, <1>5, <4>1 DEF SearchInv, PathIsGray
    <3>2. CASE i = L
      <4>1. path # <<>> /\ i \in 1..L /\ Current = path[L]
        BY <1>1, <1>2, <3>2 DEF Current
      <4> QED BY <1>2, <1>5, <3>2, <4>1
    <3> QED BY <1>2, <3>1, <3>2
  <2> QED BY <2>1, <2>2, <2>3 DEF PathIsGray
<1>10. LeftAreNeighbours'
  <2> SUFFICES ASSUME NEW i \in 1..Len(path') PROVE left'[path'[i]] \subseteq Neighbours(path'[i])
    BY <1>13 DEF LeftAreNeighbours
  <2>1. i \in 1..L \/ i = L + 1
    BY <1>2
  <2>2. CASE i \in 1..L
    BY <1>1, <1>2, <1>5, <2>2 DEF SearchInv, LeftAreNeighbours
  <2> QED BY <1>2, <1>5, <2>1, <2>2
<1>11. ASSUME ~cycleSeen PROVE BlackClosed' /\ BlackAcyclic' /\ LookedAt'
  <2>0. BlackClosed /\ BlackAcyclic /\ LookedAt
    BY <1>11 DEF SearchInv
  <2>1. BlackClosed'
    BY <1>5, <1>8, <2>0 DEF BlackClosed, Neighbours
  <2>2. BlackAcyclic'
    BY <1>5, <1>8, <2>0 DEF BlackAcyclic
  <2>3. LookedAt'
    <3> SUFFICES ASSUME NEW i \in 1..Len(path'), NEW m \in Neighbours(path'[i]) \ left'[path'[i]]
                 PROVE  color'[m] = "black" \/ (i < Len(path') /\ m = path'[i + 1])
      BY <1>13 DEF LookedAt
    <3>1. m \in Nodes /\ m \in Neighbours(path'[i]) /\ i # L + 1 /\ i \in 1..L
      BY <1>2, <1>5 DEF Neighbours
    <3>2. CASE m \notin left[path[i]]
      <4>1. color[m] = "black" \/ (i < L /\ m = path[i + 1])
        BY <1>1, <1>2, <2>0, <3>1, <3>2 DEF LookedAt
      <4>2. i < L => i + 1 \in 1..L /\ i < Len(path')
        BY <1>2, <3>1
      <4> QED BY <1>2, <1>8, <3>1, <4>1, <4>2
    <3>3. CASE m \in left[path[i]]
      <4>1. i = L /\ m = n
        BY <1>1, <1>2, <3>1, <3>3
      <4> QED BY <1>2, <4>1
    <3> QED BY <3>2, <3>3
  <2> QED BY <2>1, <2>2, <2>3
<1>12. cycleSeen => ~Acyclic'
  BY <1>5 DEF SearchInv, Acyclic
<1> QED BY <1>2, <1>4, <1>9, <1>10, <1>11, <1>12 DEF SearchInv

(* An edge back into the path closes a cycle. *)
LEMMA BackEdgeIsCycle ==
  ASSUME SearchInv, NEW m \in Nodes, color[m] = "gray", path # <<>>, <<Current, m>> \in edges
  PROVE  ~Acyclic
<1>1. PICK L \in Nat : L = Len(path)
  BY DEF SearchInv
<1>2. path \in Seq(Nodes) /\ L >= 1 /\ \A i \in 1..L : path[i] \in Nodes
  BY <1>1 DEF SearchInv
<1>3. PICK j \in 1..L : path[j] = m
  BY <1>1 DEF SearchInv, PathIsGray, Elements
<1> DEFINE S == {path[k] : k \in j..L}
<1>4. S \in SUBSET Nodes /\ path[j] \in S
  <2>1. j..L \subseteq 1..L /\ j \in j..L
    OBVIOUS
  <2> QED BY <1>2, <2>1
<1>5. ASSUME NEW x \in S PROVE Predecessors(x) \cap S # {}
  <2>1. PICK k \in j..L : x = path[k]
    OBVIOUS
  <2>2. CASE k = j
    <3>1. L \in j..L /\ Current = path[L] /\ x = m
      BY <1>1, <1>3, <2>1, <2>2 DEF Current
    <3>2. path[L] \in S /\ path[L] \in Nodes /\ <<path[L], x>> \in edges
      BY <1>2, <3>1
    <3> QED BY <3>2 DEF Predecessors
  <2>3. CASE k # j
    <3>1. k - 1 \in j..L /\ k - 1 \in 1..(Len(path) - 1) /\ (k - 1) + 1 = k /\ k - 1 \in 1..L
      BY <1>1, <2>3
    <3>2. path[k - 1] \in S /\ path[k - 1] \in Nodes
      BY <1>2, <3>1
    <3>3. <<path[k - 1], path[(k - 1) + 1]>> \in edges
      BY <3>1 DEF SearchInv, PathIsGray
    <3> QED BY <2>1, <3>1, <3>2, <3>3 DEF Predecessors
  <2> QED BY <2>2, <2>3
<1> HIDE DEF S
<1> QED BY <1>4, <1>5 DEF Acyclic

(* What every step of a search that stays in its loop keeps: the node that  *)
(* was looked at was gray or black.                                         *)
LEMMA SkipKeeps ==
  ASSUME SearchInv, NEW m \in Nodes, path # <<>>, m \in left[Current], color[m] # "white",
         UNCHANGED sortVars, color' = color, path' = path,
         left' = [left EXCEPT ![Current] = @ \ {m}],
         cycleSeen' = (cycleSeen \/ color[m] = "gray")
  PROVE  SearchInv'
<1>1. PICK L \in Nat : L = Len(path)
  BY DEF SearchInv
<1>2. path \in Seq(Nodes) /\ L >= 1 /\ L \in 1..L /\ Current = path[L] /\ \A i \in 1..L : path[i] \in Nodes
  BY <1>1 DEF SearchInv, Current
<1>3. Current \in Nodes
  BY <1>2
<1>4. left \in [Nodes -> SUBSET Nodes]
  BY DEF SearchInv
<1>5. left' \in [Nodes -> SUBSET Nodes] /\ \A x \in Nodes : left'[x] = IF x = Current THEN left[x] \ {m} ELSE left[x]
  BY <1>3, <1>4
<1>6. edges' = edges /\ \A x : Neighbours(x)' = Neighbours(x) /\ Predecessors(x)' = Predecessors(x)
  BY DEF sortVars, Neighbours, Predecessors
<1>7. Elements(path)' = Elements(path) /\ \A i : Neighbours(path[i])' = Neighbours(path[i])
  BY <1>6 DEF Elements, Neighbours
<1>8. PathIsGray'
  BY <1>6, <1>7 DEF SearchInv, PathIsGray
<1>9. LeftAreNeighbours'
  BY <1>1, <1>2, <1>5, <1>7 DEF SearchInv, LeftAreNeighbours
<1>10. m \in Neighbours(Current)
  BY <1>1, <1>2 DEF SearchInv, LeftAreNeighbours
<1>11. cycleSeen' \in BOOLEAN
  BY Zenon DEF SearchInv
<1>12. ASSUME ~cycleSeen' PROVE BlackClosed' /\ BlackAcyclic' /\ LookedAt'
  <2>1. ~cycleSeen /\ color[m] = "black"
    BY <1>12 DEF SearchInv
  <2>2. BlackClosed /\ BlackAcyclic /\ LookedAt
    BY <2>1 DEF SearchInv
  <2>3. BlackClosed'
    BY <1>6, <2>2 DEF BlackClosed, Neighbours
  <2>4. BlackAcyclic'
    BY <1>6, <2>2 DEF BlackAcyclic
  <2>5. LookedAt'
    <3> SUFFICES ASSUME NEW i \in 1..L, NEW x \in Neighbours(path[i]) \ left'[path[i]]
                 PROVE  color[x] = "black" \/ (i < L /\ x = path[i + 1])
      BY <1>1, <1>7 DEF LookedAt
    <3>1. x \notin left[path[i]] \/ x = m
      BY <1>2, <1>5
    <3>2. CASE x \notin left[path[i]]
      BY <1>1, <2>2, <3>2 DEF LookedAt
    <3> QED BY <2>1, <3>1, <3>2
  <2> QED BY <2>3, <2>4, <2>5
<1>13. cycleSeen' => ~Acyclic'
  <2>1. <<Current, m>> \in edges
    BY <1>10 DEF Neighbours
  <2>2. color[m] = "gray" => ~Acyclic
    BY <2>1, BackEdgeIsCycle
  <2>3. cycleSeen => ~Acyclic
    BY DEF SearchInv
  <2>4. Acyclic' <=> Acyclic
    BY <1>6 DEF Acyclic
  <2> QED BY <2>2, <2>3, <2>4
<1>14. color' \in [Nodes -> {"white", "gray", "black"}] /\ path' \in Seq(Nodes)
  BY DEF SearchInv
<1> QED BY <1>5, <1>8, <1>9, <1>11, <1>12, <1>13, <1>14 DEF SearchInv

LEMMA LookAtKeeps ==
  ASSUME SearchInv, NEW m \in Nodes, LookAt(m)
  PROVE  SearchInv'
<1>1. path # <<>> /\ m \in left[Current] /\ cycleSeen' = (cycleSeen \/ color[m] = "gray") /\ UNCHANGED sortVars
  BY DEF LookAt, ClosesCycle
<1>2. PICK L \in Nat : L = Len(path)
  BY DEF SearchInv
<1>3. path \in Seq(Nodes) /\ L >= 1 /\ L \in 1..L /\ Current = path[L] /\ \A i \in 1..L : path[i] \in Nodes
  BY <1>1, <1>2 DEF SearchInv, Current
<1>4. CASE color[m] # "white"
  BY <1>1, <1>4, SkipKeeps DEF LookAt
<1>5. CASE color[m] = "white"
  <2>1. Enter(m) /\ left' = [left EXCEPT ![Current] = @ \ {m}, ![m] = Neighbours(m)]
    BY <1>5 DEF LookAt
  <2>2. \A i \in 1..L : color[path[i]] = "gray"
    BY <1>2, <1>3 DEF SearchInv, PathIsGray, Elements
  <2>3. \A i \in 1..L : path[i] # m
    BY <1>5, <2>2
  <2>4. left \in [Nodes -> SUBSET Nodes] /\ Neighbours(m) \in SUBSET Nodes /\ Current \in Nodes
    BY <1>3 DEF SearchInv, Neighbours
  <2>5. /\ left' \in [Nodes -> SUBSET Nodes] /\ left'[m] = Neighbours(m)
        /\ \A x \in Nodes : x # m => left'[x] = IF x = Current THEN left[x] \ {m} ELSE left[x]
    BY <2>1, <2>4
  <2>6. ASSUME NEW i \in 1..Len(path)
        PROVE  left'[path[i]] = left[path[i]] \/ (i = Len(path) /\ left'[path[i]] = left[path[i]] \ {m})
    <3>1. i \in 1..L /\ path[i] # m /\ path[i] \in Nodes
      BY <1>2, <1>3, <2>3
    <3>2. path[i] = path[L] => i = L
      BY <1>2, <1>3, <3>1 DEF SearchInv, PathIsGray
    <3> QED BY <1>2, <1>3, <2>5, <3>1, <3>2
  <2>7. <<Current, m>> \in edges
    <3>1. m \in Neighbours(Current)
      BY <1>1, <1>2, <1>3 DEF SearchInv, LeftAreNeighbours
    <3> QED BY <3>1 DEF Neighbours
  <2>8. cycleSeen' = cycleSeen
    <3>1. cycleSeen \in BOOLEAN /\ color[m] # "gray"
      BY <1>5 DEF SearchInv
    <3> QED BY <1>1, <3>1, Zenon
  <2> QED BY <1>1, <1>5, <2>1, <2>5, <2>6, <2>7, <2>8, EnterKeeps
<1> QED BY <1>4, <1>5

LEMMA SearchFromKeeps ==
  ASSUME SearchInv, NEW n \in Nodes, SearchFrom(n)
  PROVE  SearchInv'
<1>1. /\ path = <<>> /\ color[n] = "white" /\ Enter(n) /\ left' = [left EXCEPT ![n] = Neighbours(n)]
      /\ cycleSeen' = cycleSeen /\ UNCHANGED sortVars
  BY DEF SearchFrom
<1>2. left' \in [Nodes -> SUBSET Nodes] /\ left'[n] = Neighbours(n)
  BY <1>1 DEF SearchInv, Neighbours
<1>3. \A i \in 1..Len(path) : FALSE
  BY <1>1
<1> QED BY <1>1, <1>2, <1>3, EnterKeeps

(* A call of dfs() returns: its node is black, and while no cycle was seen *)
(* everything it leads to is black too.                                    *)
LEMMA ReturnKeeps == ASSUME SearchInv, Return PROVE SearchInv'
<1>1. PICK L \in Nat : L = Len(path)
  BY DEF SearchInv
<1>2. PICK c : c = Current
  OBVIOUS
<1>3. /\ path # <<>> /\ left[c] = {} /\ color' = [color EXCEPT ![c] = "black"]
      /\ path' = SubSeq(path, 1, Len(path) - 1) /\ left' = left /\ cycleSeen' = cycleSeen /\ UNCHANGED sortVars
  BY <1>2 DEF Return
<1>4. path \in Seq(Nodes) /\ L >= 1 /\ L \in 1..L /\ c = path[L] /\ c \in Nodes /\ \A i \in 1..L : path[i] \in Nodes
  BY <1>1, <1>2, <1>3 DEF SearchInv, Current
<1>5. path' \in Seq(Nodes) /\ Len(path') = L - 1 /\ \A i \in 1..(L - 1) : path'[i] = path[i] /\ path[i] # c
  <2>1. 1 \in Int /\ L - 1 \in Int /\ \A i \in 1..(L - 1) : path[i] \in Nodes
    BY <1>4
  <2>2. /\ SubSeq(path, 1, L - 1) \in Seq(Nodes)
        /\ Len(SubSeq(path, 1, L - 1)) = IF 1 <= L - 1 THEN (L - 1) - 1 + 1 ELSE 0
        /\ \A i \in 1..((L - 1) - 1 + 1) : SubSeq(path, 1, L - 1)[i] = path[1 + i - 1]
    BY <2>1, SubSeqProperties
  <2>3. ASSUME NEW i \in 1..(L - 1) PROVE path[i] # c
    <3>1. i \in 1..L /\ i # L
      OBVIOUS
    <3> QED BY <1>1, <1>4, <3>1 DEF SearchInv, PathIsGray
  <2> QED BY <1>1, <1>3, <1>4, <2>2, <2>3
<1>6. /\ color' \in [Nodes -> {"white", "gray", "black"}]
      /\ \A m \in Nodes : color'[m] = IF m = c THEN "black" ELSE color[m]
  BY <1>3, <1>4 DEF SearchInv
<1>7. edges' = edges /\ \A x : Neighbours(x)' = Neighbours(x) /\ Predecessors(x)' = Predecessors(x)
  BY <1>3 DEF sortVars, Neighbours, Predecessors
<1>8. \A i : Neighbours(path[i])' = Neighbours(path'[i])
  BY <1>7 DEF Neighbours
<1>9. color[c] = "gray"
  BY <1>1, <1>4 DEF SearchInv, PathIsGray, Elements
<1>10. PathIsGray'
  <2>1. ASSUME NEW m \in Nodes PROVE color'[m] = "gray" <=> m \in Elements(path)'
    <3>1. m \in Elements(path)' <=> \E i \in 1..(L - 1) : path[i] = m
      BY <1>5 DEF Elements
    <3>2. color[m] = "gray" <=> \E i \in 1..L : path[i] = m
      BY <1>1 DEF SearchInv, PathIsGray, Elements
    <3>3. (\E i \in 1..(L - 1) : path[i] = m) <=> (m # c /\ \E i \in 1..L : path[i] = m)
      <4>1. \A i \in 1..L : i \in 1..(L - 1) \/ i = L
        OBVIOUS
      <4>2. \A i \in 1..(L - 1) : i \in 1..L
        OBVIOUS
      <4> QED BY <1>4, <1>5, <4>1, <4>2
    <3> QED BY <1>6, <3>1, <3>2, <3>3
  <2>2. ASSUME NEW i \in 1..Len(path'), NEW j \in 1..Len(path'), path'[i] = path'[j] PROVE i = j
    <3>1. i \in 1..(L - 1) /\ j \in 1..(L - 1) /\ i \in 1..L /\ j \in 1..L
      BY <1>5
    <3> QED BY <1>1, <1>5, <2>2, <3>1 DEF SearchInv, PathIsGray
  <2>3. ASSUME NEW i \in 1..(Len(path') - 1) PROVE <<path'[i], path'[i + 1]>> \in edges'
    <3>1. i \in 1..(L - 1) /\ i + 1 \in 1..(L - 1) /\ i \in 1..(Len(path) - 1)
      BY <1>1, <1>5
    <3> QED BY <1>5, <1>7, <3>1 DEF SearchInv, PathIsGray
  <2> QED BY <2>1, <2>2, <2>3 DEF PathIsGray
<1>11. LeftAreNeighbours'
  <2> SUFFICES ASSUME NEW i \in 1..Len(path') PROVE left[path'[i]] \subseteq Neighbours(path'[i])
    BY <1>3, <1>8 DEF LeftAreNeighbours
  <2>1. i \in 1..(L - 1) /\ i \in 1..L
    BY <1>5
  <2> QED BY <1>1, <1>5, <2>1 DEF SearchInv, LeftAreNeighbours
<1>12. ASSUME ~cycleSeen PROVE BlackClosed' /\ BlackAcyclic' /\ LookedAt'
  <2>1. BlackClosed /\ BlackAcyclic /\ LookedAt
    BY <1>12 DEF SearchInv
  <2>2. \A m \in Neighbours(c) : color[m] = "black"
    <3>1. \A m \in Neighbours(path[L]) \ left[path[L]] : color[m] = "black" \/ L < Len(path)
      BY <1>1, <1>4, <2>1 DEF LookedAt
    <3> QED BY <1>1, <1>3, <1>4, <3>1
  <2>3. \A m \in Nodes : Neighbours(m) \subseteq Nodes
    BY DEF Neighbours
  <2>4. BlackClosed'
    <3> SUFFICES ASSUME NEW n \in Nodes, color'[n] = "black", NEW m \in Neighbours(n) PROVE color'[m] = "black"
      BY <1>7 DEF BlackClosed
    <3>1. color[m] = "black"
      BY <1>6, <2>1, <2>2 DEF BlackClosed
    <3> QED BY <1>6, <2>3, <3>1
  <2>5. BlackAcyclic'
    <3> SUFFICES ASSUME NEW S \in SUBSET Nodes, S # {}, \A n \in S : color'[n] = "black"
                 PROVE  \E n \in S : Predecessors(n) \cap S = {}
      BY <1>7 DEF BlackAcyclic
    <3>1. CASE c \notin S
      <4>1. \A n \in S : color[n] = "black"
        BY <1>6, <3>1
      <4> QED BY <2>1, <4>1 DEF BlackAcyclic
    <3>2. CASE c \in S
      <4>1. ASSUME NEW x \in Predecessors(c) \cap S PROVE FALSE
        <5>1. x \in Nodes /\ c \in Neighbours(x)
          BY <1>4 DEF Predecessors, Neighbours
        <5>2. x = c => color[c] = "black"
          BY <2>2, <5>1
        <5>3. x # c => color[c] = "black"
          BY <1>6, <2>1, <5>1 DEF BlackClosed
        <5> QED BY <1>9, <5>2, <5>3
      <4> QED BY <3>2, <4>1
    <3> QED BY <3>1, <3>2
  <2>6. LookedAt'
    <3> SUFFICES ASSUME NEW i \in 1..Len(path'), NEW m \in Neighbours(path'[i]) \ left[path'[i]]
                 PROVE  color'[m] = "black" \/ (i < Len(path') /\ m = path'[i + 1])
      BY <1>3, <1>8 DEF LookedAt
    <3>1. i \in 1..(L - 1) /\ i \in 1..L /\ m \in Nodes
      BY <1>5 DEF Neighbours
    <3>2. color[m] = "black" \/ m = path[i + 1]
      BY <1>1, <1>5, <2>1, <3>1 DEF LookedAt
    <3>3. CASE color[m] = "black"
      BY <1>6, <3>1, <3>3
    <3>4. CASE m = path[i + 1]
      <4>1. i + 1 \in 1..(L - 1) \/ i + 1 = L
        BY <3>1
      <4>2. CASE i + 1 = L
        BY <1>4, <1>6, <3>1, <3>4, <4>2
      <4>3. CASE i + 1 \in 1..(L - 1)
        BY <1>5, <3>4, <4>3
      <4> QED BY <4>1, <4>2, <4>3
    <3> QED BY <3>2, <3>3, <3>4
  <2> QED BY <2>4, <2>5, <2>6
<1>13. cycleSeen' => ~Acyclic'
  BY <1>3, <1>7 DEF SearchInv, Acyclic
<1>14. left' \in [Nodes -> SUBSET Nodes] /\ cycleSeen' \in BOOLEAN
  BY <1>3, Zenon DEF SearchInv
<1> QED BY <1>3, <1>5, <1>6, <1>10, <1>11, <1>12, <1>13, <1>14 DEF SearchInv

(* The search leaves the sort alone, and the sort the search. *)
LEMMA SortRests == ASSUME SortInv, UNCHANGED sortVars PROVE SortInv'
<1>1. edges' = edges /\ inDegree' = inDegree /\ queue' = queue /\ result' = result
  BY DEF sortVars
<1>2. \A m : Predecessors(m)' = Predecessors(m)
  BY <1>1 DEF Predecessors
<1>3. Elements(result)' = Elements(result) /\ Elements(queue)' = Elements(queue)
  BY <1>1 DEF Elements
<1>4. \A m : Missing(m)' = Missing(m)
  BY <1>2, <1>3 DEF Missing
<1>5. SortTypeOK' /\ DegreeCountsMissing' /\ QueueReady' /\ QueueOnce' /\ QueueNew' /\ NoNodeTwice'
  BY <1>1, <1>3, <1>4
     DEF SortInv, SortTypeOK, DegreeCountsMissing, QueueReady, QueueOnce, QueueNew, NoNodeTwice
<1>6. OrderRespectsEdges' /\ ReadyIsTaken'
  BY <1>1, <1>2, <1>3, <1>4 DEF SortInv, OrderRespectsEdges, ReadyIsTaken
<1> QED BY <1>5, <1>6 DEF SortInv

LEMMA SearchRests == ASSUME SearchInv, UNCHANGED searchVars, edges' = edges PROVE SearchInv'
<1>1. color' = color /\ path' = path /\ left' = left /\ cycleSeen' = cycleSeen
  BY DEF searchVars
<1>2. \A x : Neighbours(x)' = Neighbours(x) /\ Predecessors(x)' = Predecessors(x)
  BY DEF Neighbours, Predecessors
<1>3. Elements(path)' = Elements(path) /\ \A i : Neighbours(path[i])' = Neighbours(path[i])
  BY <1>1 DEF Elements, Neighbours
<1>4. PathIsGray' /\ LeftAreNeighbours'
  BY <1>1, <1>3 DEF SearchInv, PathIsGray, LeftAreNeighbours
<1>5. ~cycleSeen => BlackClosed' /\ BlackAcyclic' /\ LookedAt'
  <2> SUFFICES ASSUME ~cycleSeen PROVE BlackClosed' /\ BlackAcyclic' /\ LookedAt'
    OBVIOUS
  <2>1. BlackClosed /\ BlackAcyclic /\ LookedAt
    BY DEF SearchInv
  <2>2. BlackClosed' /\ BlackAcyclic'
    BY <1>1, <1>2, <2>1 DEF BlackClosed, BlackAcyclic
  <2>3. LookedAt'
    BY <1>1, <1>3, <2>1 DEF LookedAt
  <2> QED BY <2>2, <2>3
<1>6. Acyclic' <=> Acyclic
  BY <1>2 DEF Acyclic
<1>7. /\ color' \in [Nodes -> {"white", "gray", "black"}] /\ path' \in Seq(Nodes)
      /\ left' \in [Nodes -> SUBSET Nodes] /\ cycleSeen' \in BOOLEAN
  BY <1>1, Zenon DEF SearchInv
<1> QED BY <1>1, <1>4, <1>5, <1>6, <1>7 DEF SearchInv

LEMMA ValidatorAlways == ValidatorSpec => []ValidatorInv
<1>1. ValidatorInit => ValidatorInv
  BY SortStarts, SearchStarts DEF ValidatorInit, ValidatorInv
<1>2. ValidatorInv /\ [ValidatorNext]_validatorVars => ValidatorInv'
  <2> SUFFICES ASSUME SortInv, SearchInv, [ValidatorNext]_validatorVars PROVE SortInv' /\ SearchInv'
    BY DEF ValidatorInv
  <2>1. ASSUME NEW n \in Nodes, SearchFrom(n) PROVE SortInv' /\ SearchInv'
    BY <2>1, SearchFromKeeps, SortRests DEF SearchFrom
  <2>2. ASSUME NEW n \in Nodes, LookAt(n) PROVE SortInv' /\ SearchInv'
    BY <2>2, LookAtKeeps, SortRests DEF LookAt
  <2>3. CASE Return
    BY <2>3, ReturnKeeps, SortRests DEF Return
  <2>4. CASE Sort
    BY <2>4, VisitStep, SearchRests DEF Sort, Visit
  <2>5. CASE UNCHANGED validatorVars
    <3>1. UNCHANGED sortVars /\ UNCHANGED searchVars /\ edges' = edges
      BY <2>5 DEF validatorVars, sortVars
    <3> QED BY <3>1, SortRests, SearchRests
  <2> QED BY <2>1, <2>2, <2>3, <2>4, <2>5 DEF ValidatorNext
<1> QED BY <1>1, <1>2, PTL DEF ValidatorSpec

(* For every finite graph: colours, path and the lists of dfs(), and the   *)
(* in-degrees, queue and result of _topological_sort, keep their types; a  *)
(* degree never drops below zero.                                          *)
THEOREM SortTypes == ValidatorSpec => []ValidatorTypeOK
<1>1. ValidatorInv => ValidatorTypeOK
  BY Zenon DEF ValidatorInv, SortInv, SearchInv, ValidatorTypeOK
<1> QED BY <1>1, ValidatorAlways, PTL

(* At every moment of the sort's loop, and in whatever order it lists      *)
(* unrelated nodes, a node stands in the result after all its dependencies *)
(* and only once.                                                          *)
THEOREM SortsTopologically == ValidatorSpec => []OrderIsTopological
<1>1. ValidatorInv => OrderIsTopological
  BY Zenon DEF ValidatorInv, SortInv, OrderIsTopological
<1> QED BY <1>1, ValidatorAlways, PTL

-----------------------------------------------------------------------------
(* Search and sort agree.  The length the code compares says that every    *)
(* node was taken.                                                         *)
LEMMA FullOrder ==
  ASSUME SortInv
  PROVE  Len(result) = Cardinality(Nodes) <=> Elements(result) = Nodes
<1> DEFINE places == 1..Len(result)
<1>1. result \in Seq(Nodes) /\ Len(result) \in Nat
  BY DEF SortInv, SortTypeOK
<1>2. Cardinality(places) = Len(result)
  <2>1. 1 \in Int /\ Len(result) \in Int
    BY <1>1
  <2>2. Cardinality(places) = IF 1 > Len(result) THEN 0 ELSE Len(result) - 1 + 1
    BY <2>1, FS_Interval
  <2> QED BY <1>1, <2>2
<1>3. result \in [places -> Nodes]
  BY <1>1
<1>4. result \in Injection(places, Nodes)
  BY <1>3 DEF SortInv, NoNodeTwice, Injection, IsInjective
<1>5. result \in Surjection(places, Nodes) <=> Elements(result) = Nodes
  BY <1>3 DEF Surjection, Elements
<1> HIDE DEF places
<1>6. Cardinality(places) = Cardinality(Nodes) <=> result \in Surjection(places, Nodes)
  BY <1>4, GraphAssumption, FS_Injection
<1> QED BY <1>2, <1>5, <1>6

(* The node of a cycle that comes first in the order would have a           *)
(* dependency before it.                                                   *)
LEMMA FullIsAcyclic == ASSUME SortInv, Elements(result) = Nodes PROVE Acyclic
<1> SUFFICES ASSUME NEW S \in SUBSET Nodes, S # {} PROVE \E n \in S : Predecessors(n) \cap S = {}
  BY DEF Acyclic
<1>1. result \in Seq(Nodes) /\ Len(result) \in Nat
  BY DEF SortInv, SortTypeOK
<1> DEFINE I == {i \in 1..Len(result) : result[i] \in S}
<1>2. I \in SUBSET Nat /\ I # {}
  BY DEF Elements
<1>3. PICK i \in I : \A k \in I : i <= k
  BY <1>2, SmallestElement
<1>4. Predecessors(result[i]) \cap S = {}
  <2> SUFFICES ASSUME NEW p \in Predecessors(result[i]), p \in S PROVE FALSE
    OBVIOUS
  <2>1. PICK j \in 1..(i - 1) : result[j] = p
    BY DEF SortInv, OrderRespectsEdges
  <2>2. j \in I /\ j < i
    BY <1>1, <2>1
  <2> QED BY <1>3, <2>2
<1> QED BY <1>4

(* Where nothing feeds itself, some node left out would be ready.          *)
LEMMA AcyclicIsFull == ASSUME SortInv, queue = <<>>, Acyclic PROVE Elements(result) = Nodes
<1>1. Elements(result) \subseteq Nodes /\ Elements(queue) = {}
  BY DEF SortInv, SortTypeOK, Elements
<1> DEFINE S == Nodes \ Elements(result)
<1>2. ASSUME S # {} PROVE FALSE
  <2>1. PICK n \in S : Predecessors(n) \cap S = {}
    BY <1>2 DEF Acyclic
  <2>2. Missing(n) = {}
    BY <2>1 DEF Missing, Predecessors
  <2>3. n \in Elements(queue) \cup Elements(result)
    BY <2>2 DEF SortInv, ReadyIsTaken
  <2> QED BY <1>1, <2>3
<1> QED BY <1>1, <1>2

(* For every finite graph, search order and listing order: after dfs() has *)
(* been through, a cycle was reported exactly when there is one, and the   *)
(* sort's order is empty exactly then: execute() never passes validation   *)
(* and is then left with an empty order.                                   *)
THEOREM CyclesFound == ValidatorSpec => []CyclesAreFound
<1>1. ValidatorInv => CyclesAreFound
  <2> SUFFICES ASSUME SortInv, SearchInv PROVE CyclesAreFound
    BY DEF ValidatorInv
  <2>1. ASSUME Searched PROVE cycleSeen <=> ~Acyclic
    <3>1. ASSUME ~cycleSeen PROVE Acyclic
      BY <2>1, <3>1 DEF SearchInv, BlackAcyclic, Searched, Acyclic
    <3>2. cycleSeen => ~Acyclic
      BY DEF SearchInv
    <3>3. cycleSeen \in BOOLEAN
      BY DEF SearchInv
    <3> QED BY <3>1, <3>2, <3>3, Zenon
  <2>2. ASSUME queue = <<>> PROVE ExecutionOrder # <<>> <=> Acyclic /\ Nodes # {}
    <3>1. Acyclic <=> Elements(result) = Nodes
      BY <2>2, FullIsAcyclic, AcyclicIsFull
    <3>2. Acyclic <=> Len(result) = Cardinality(Nodes)
      BY <3>1, FullOrder
    <3>3. result # <<>> <=> Elements(result) # {}
      BY DEF SortInv, SortTypeOK, Elements
    <3>4. CASE Acyclic
      BY <3>1, <3>2, <3>3, <3>4 DEF ExecutionOrder
    <3>5. CASE ~Acyclic
      BY <3>2, <3>5 DEF ExecutionOrder
    <3> QED BY <3>4, <3>5
  <2> QED BY <2>1, <2>2 DEF CyclesAreFound, Sorted
<1> QED BY <1>1, ValidatorAlways, PTL

(* What an approval node reaches is one, or comes after one in the order.  *)
LEMMA ReachedIsGuarded ==
  ASSUME SortInv, Elements(result) = Nodes, NEW d \in ReachFrom(Approvals)
  PROVE  d \in Approvals \/ Guarded(d)
<1> DEFINE T == {n \in Nodes : n \in Approvals \/ Guarded(n)}
<1>1. Approvals \subseteq T
  BY NodeTypeAssumption
<1>2. ASSUME NEW n \in T, NEW m \in Neighbours(n) PROVE m \in T
  <2>1. m \in Nodes /\ n \in Predecessors(m)
    BY DEF Neighbours, Predecessors
  <2>2. PICK j \in 1..Len(result) : result[j] = m
    BY <2>1 DEF Elements
  <2>3. PICK i \in 1..(j - 1) : result[i] = n
    BY <2>1, <2>2 DEF SortInv, OrderRespectsEdges
  <2>4. i \in 1..Len(result) /\ i < j /\ Len(result) \in Nat
    BY <2>2, <2>3 DEF SortInv, SortTypeOK
  <2>5. CASE n \in Approvals
    BY <2>1, <2>2, <2>3, <2>4, <2>5 DEF Guarded
  <2>6. CASE Guarded(n)
    <3>1. PICK a, b \in 1..Len(result) : a < b /\ result[b] = n /\ result[a] \in Approvals
      BY <2>6 DEF Guarded
    <3>2. b = i
      BY <2>3, <2>4, <3>1 DEF SortInv, NoNodeTwice
    <3>3. a < j
      BY <2>4, <3>1, <3>2
    <3> QED BY <2>1, <2>2, <3>1, <3>3 DEF Guarded
  <2> QED BY <2>5, <2>6
<1>3. Closed(T) /\ T \in SUBSET Nodes
  BY <1>2 DEF Closed
<1> HIDE DEF T
<1>4. d \in T
  BY <1>1, <1>3 DEF ReachFrom
<1> QED BY <1>4 DEF T

(* For every graph, node types and listing order: a workflow that passes   *)
(* the validator without an approval warning runs an approval node before  *)
(* every destructive one.                                                  *)
THEOREM UnwarnedGuarded == ValidatorSpec => []UnwarnedIsGuarded
<1>1. ValidatorInv => UnwarnedIsGuarded
  <2> SUFFICES ASSUME SortInv, SearchInv, Sorted, ~HasErrors, ApprovalWarnings = {},
                      NEW d \in Destructive
               PROVE  Guarded(d)
    BY DEF ValidatorInv, UnwarnedIsGuarded
  <2>1. ~cycleSeen
    BY Zenon DEF HasErrors
  <2>2. Acyclic
    BY <2>1 DEF SearchInv, BlackAcyclic, Sorted, Searched, Acyclic
  <2>3. Elements(result) = Nodes
    BY <2>2, AcyclicIsFull DEF Sorted
  <2>4. Approvals # {}
    BY DEF HasErrors, ApprovalErrors
  <2>5. d \in ReachFrom(Approvals)
    BY <2>4 DEF ApprovalWarnings, Unprotected
  <2>6. d \notin Approvals
    BY NodeTypeAssumption
  <2> QED BY <2>3, <2>5, <2>6, ReachedIsGuarded
<1> QED BY <1>1, ValidatorAlways, PTL
=============================================================================
