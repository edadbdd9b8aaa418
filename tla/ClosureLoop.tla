----------------------------- MODULE ClosureLoop ----------------------------
(***************************************************************************)
(* The closure loop of a plant: an alarm is raised, a workflow handles it, *)
(* a work order repairs the cause.  The three services are separate state  *)
(* machines that carry each other's ids and never call each other.         *)
(***************************************************************************)
EXTENDS Naturals, Sequences, FiniteSets

-----------------------------------------------------------------------------
(***************************************************************************)
(* The alarm service (services/telemetry/src/alarm/service.py): an alarm   *)
(* walks eight states without skipping, is stamped on the way, escalated,  *)
(* announced and linked to a workflow and a work order.  Every operation   *)
(* is synchronous, so an action is a whole call; calls that raise or       *)
(* return None change nothing and are left out.                            *)
(***************************************************************************)

CONSTANTS
    Alarms,         \* alarm ids, handed out by uuid4
    WorkflowIds,    \* ids that link_workflow is called with
    MaxInstant,     \* bound: datetime.now() of the run
    MaxMessages     \* bound: escalations and notifications of an alarm

ASSUME AlarmConstants == MaxInstant \in Nat /\ MaxMessages \in Nat

VARIABLES
    alarms,     \* _alarms; an id not in the dictionary is NoAlarm
    instant     \* datetime.now(timezone.utc)

alarmVars == <<alarms, instant>>

NoAlarm == [state |-> "none"]
Unstamped == MaxInstant + 1

TRANSITIONS ==
    [normal |-> {"acknowledged"}, acknowledged |-> {"investigating"},
     investigating |-> {"resolving"}, resolving |-> {"resolved"}, resolved |-> {"closed"},
     closed |-> {"archived"}, archived |-> {"purged"}, purged |-> {}]

\* The field transition() writes; "resolved" writes none.
StampOf ==
    [acknowledged |-> "acknowledged_at", investigating |-> "investigated_at",
     resolving |-> "resolved_at", closed |-> "closed_at", archived |-> "archived_at",
     purged |-> "purged_at"]

-----------------------------------------------------------------------------
AlarmInit == alarms = [a \in Alarms |-> NoAlarm] /\ instant = 0

CreateAlarm(a) ==
    /\ alarms[a] = NoAlarm
    /\ alarms' = [alarms EXCEPT ![a] =
          [state |-> "normal", triggered_at |-> instant, level |-> 0, workflow |-> "none",
           stamps |-> [s \in {StampOf[t] : t \in DOMAIN StampOf} |-> Unstamped],
           notification_history |-> <<>>]]
    /\ UNCHANGED instant

Exists(a) == alarms[a] # NoAlarm

Allowed(state) == TRANSITIONS[state]

Stamped(alarm, state) ==
    IF state \in DOMAIN StampOf THEN [alarm EXCEPT !.stamps[StampOf[state]] = instant] ELSE alarm

TransitionAlarm(a, state) ==
    /\ Exists(a)
    /\ state \in Allowed(alarms[a].state)
    /\ alarms' = [alarms EXCEPT ![a] =
          [Stamped(alarms[a], state) EXCEPT !.state = state,
             !.notification_history = Append(@, [type |-> "transition", from |-> alarms[a].state, to |-> state])]]
    /\ UNCHANGED instant

Messages(a) ==
    LET history == alarms[a].notification_history
    IN  Cardinality({i \in DOMAIN history : history[i].type # "transition"})

Escalate(a) ==
    /\ Exists(a) /\ Messages(a) < MaxMessages
    /\ alarms' = [alarms EXCEPT ![a].level = @ + 1,
                                ![a].notification_history = Append(@, [type |-> "escalation", level |-> alarms[a].level + 1])]
    /\ UNCHANGED instant

Notify(a) ==
    /\ Exists(a) /\ Messages(a) < MaxMessages
    /\ alarms' = [alarms EXCEPT ![a].notification_history = Append(@, [type |-> "notification"])]
    /\ UNCHANGED instant

LinkWorkflow(a, w) ==
    /\ Exists(a)
    /\ alarms' = [alarms EXCEPT ![a].workflow = w]
    /\ UNCHANGED instant

DeleteAlarm(a) ==
    /\ Exists(a) /\ alarms[a].state = "purged"
    /\ alarms' = [alarms EXCEPT ![a] = NoAlarm]
    /\ UNCHANGED instant

InstantPasses == instant < MaxInstant /\ instant' = instant + 1 /\ UNCHANGED alarms

AlarmNext ==
    \/ \E a \in Alarms :
          \/ CreateAlarm(a) \/ Escalate(a) \/ Notify(a) \/ DeleteAlarm(a)
          \/ \E s \in DOMAIN TRANSITIONS : TransitionAlarm(a, s)
          \/ \E w \in WorkflowIds : LinkWorkflow(a, w)
    \/ InstantPasses
-----------------------------------------------------------------------------
AlarmTypeOK ==
    /\ instant \in 0..MaxInstant
    /\ \A a \in Alarms : Exists(a) =>
          /\ alarms[a].state \in DOMAIN TRANSITIONS
          /\ alarms[a].workflow \in WorkflowIds \cup {"none"}
          /\ \A s \in DOMAIN alarms[a].stamps : alarms[a].stamps[s] \in 0..Unstamped

Lifecycle ==
    <<"normal", "acknowledged", "investigating", "resolving", "resolved", "closed", "archived", "purged">>

Stage(state) == CHOOSE i \in DOMAIN Lifecycle : Lifecycle[i] = state

\* How many of the first n entries of a history are of a type.
Count(history, type, n) == Cardinality({i \in 1..n : history[i].type = type})

\* An alarm's notification_history, read back from its creation, gives its state
\* and escalation level: its transitions are the first stages of the lifecycle in
\* order and its escalations are numbered without a gap, however the calls to
\* transition, escalate and notify were mixed.
HistoryReplaysState ==
    \A a \in Alarms : Exists(a) =>
        LET history == alarms[a].notification_history
        IN  /\ Count(history, "transition", Len(history)) = Stage(alarms[a].state) - 1
            /\ Count(history, "escalation", Len(history)) = alarms[a].level
            /\ \A i \in DOMAIN history :
                  /\ history[i].type = "transition" =>
                        /\ history[i].from = Lifecycle[Count(history, "transition", i)]
                        /\ history[i].to = Lifecycle[Count(history, "transition", i) + 1]
                  /\ history[i].type = "escalation" => history[i].level = Count(history, "escalation", i)

\* The stamps tell the same story: the stages the alarm has entered are stamped,
\* the ones ahead are not, and no stage is stamped before an earlier one.
StampsFollowLifecycle ==
    \A a \in Alarms : Exists(a) =>
        \A s, t \in DOMAIN StampOf :
            LET at(state) == alarms[a].stamps[StampOf[state]]
            IN  /\ (at(s) # Unstamped) = (Stage(s) <= Stage(alarms[a].state))
                /\ Stage(s) < Stage(t) => at(s) <= at(t)
                /\ alarms[a].triggered_at <= at(s)

-----------------------------------------------------------------------------
(***************************************************************************)
(* Work orders (services/application/src/workorder/service.py): draft,     *)
(* assigned, in progress, under review, closed, with an audit trail and an *)
(* SLA deadline that is compared with the clock whenever it is asked for.  *)
(* Calls that raise or return None change nothing and are left out.        *)
(***************************************************************************)

CONSTANTS
    Orders,         \* order ids, handed out by uuid4
    Technicians,
    Deadlines,      \* sla_deadline, an instant; NoDeadline stands for None
    NoDeadline,
    MaxDay          \* bound: datetime.now() of the run

ASSUME OrderConstants ==
    /\ MaxDay \in Nat /\ Deadlines \subseteq Nat /\ NoDeadline \notin Deadlines
    /\ "none" \notin Technicians

VARIABLES
    orders,     \* _orders; an id not in the dictionary is NoOrder
    day         \* datetime.now(timezone.utc)

orderVars == <<orders, day>>

NoOrder == [status |-> "none"]

OrderInit == orders = [o \in Orders |-> NoOrder] /\ day = 0

CreateOrder(o, deadline) ==
    /\ orders[o] = NoOrder
    /\ orders' = [orders EXCEPT ![o] =
          [status |-> "draft", assigned_to |-> "none", sla_deadline |-> deadline,
           sla_compliance |-> "unknown", audit_trail |-> <<[action |-> "created", at |-> day]>>]]
    /\ UNCHANGED day

ReviewIsDone(order) ==
    /\ order.sla_deadline # NoDeadline
    /\ order.status \notin {"pending_review", "completed", "closed"}
    /\ day > order.sla_deadline

IsSlaBreached(order) ==
    /\ order.sla_deadline # NoDeadline
    /\ order.status \notin {"completed", "closed"}
    /\ day > order.sla_deadline

\* A step of the order: status, and one audit entry.
Move(o, from, to, action) ==
    /\ orders[o].status = from
    /\ orders' = [orders EXCEPT ![o].status = to,
                                ![o].audit_trail = Append(@, [action |-> action, at |-> day])]
    /\ UNCHANGED day

Assign(o, t) ==
    /\ orders[o].status = "draft"
    /\ orders' = [orders EXCEPT ![o].status = "assigned", ![o].assigned_to = t,
                                ![o].audit_trail = Append(@, [action |-> "assigned", at |-> day])]
    /\ UNCHANGED day

Start(o) == Move(o, "assigned", "in_progress", "started")

Complete(o) == Move(o, "in_progress", "pending_review", "completed")

\* is_sla_breached is asked after the status became closed.
Close(o) ==
    /\ orders[o].status = "pending_review"
    /\ LET closed == [orders[o] EXCEPT !.status = "closed",
                                       !.audit_trail = Append(@, [action |-> "closed", at |-> day])]
       IN  orders' = [orders EXCEPT ![o] = [closed EXCEPT !.sla_compliance =
                         IF IsSlaBreached(closed) THEN "breached" ELSE "compliant"]]
    /\ UNCHANGED day

DeleteOrder(o) ==
    /\ orders[o].status = "draft"
    /\ orders' = [orders EXCEPT ![o] = NoOrder]
    /\ UNCHANGED day

DayPasses == day < MaxDay /\ day' = day + 1 /\ UNCHANGED orders

OrderNext ==
    \/ \E o \in Orders :
          \/ \E d \in Deadlines \cup {NoDeadline} : CreateOrder(o, d)
          \/ \E t \in Technicians : Assign(o, t)
          \/ Start(o) \/ Complete(o) \/ Close(o) \/ DeleteOrder(o)
    \/ DayPasses
-----------------------------------------------------------------------------
OrderTypeOK ==
    /\ day \in 0..MaxDay
    /\ \A o \in Orders :
          /\ orders[o].status \in {"none", "draft", "assigned", "in_progress", "pending_review", "closed"}
          /\ orders[o] # NoOrder =>
                /\ orders[o].assigned_to \in Technicians \cup {"none"}
                /\ orders[o].sla_compliance \in {"unknown", "compliant", "breached"}

Present(o) == orders[o] # NoOrder

Steps == <<"created", "assigned", "started", "completed", "closed">>
Statuses == <<"draft", "assigned", "in_progress", "pending_review", "closed">>

\* The audit trail of an order names every step it took, once, in order and at
\* increasing times, its last entry is the one that gave it its status, and the
\* SLA verdict exists exactly on the orders whose trail ends with the closure.
OrderTrailReplays ==
    \A o \in Orders : Present(o) =>
        LET trail == orders[o].audit_trail
        IN  /\ Len(trail) \in DOMAIN Statuses /\ Statuses[Len(trail)] = orders[o].status
            /\ \A i \in DOMAIN trail : trail[i].action = Steps[i]
            /\ \A i, j \in DOMAIN trail : i < j => trail[i].at <= trail[j].at
            /\ (orders[o].sla_compliance # "unknown") = (Len(trail) = Len(Steps))
            /\ (orders[o].assigned_to # "none") = (Len(trail) > 1)

\* Once an order is late it stays late until it is closed: neither working on it
\* nor sending it to review may hide the breach from is_sla_breached.
BreachStandsUntilClosed ==
    [][\A o \in Orders :
          Present(o) /\ IsSlaBreached(orders[o]) /\ orders[o]' # NoOrder /\ orders[o].status' # "closed"
             => IsSlaBreached(orders[o])']_orderVars

-----------------------------------------------------------------------------
(***************************************************************************)
(* The BPMN-lite workflow service                                          *)
(* (services/application/src/workflow/service.py): templates checked when  *)
(* they are created, instances with one task per user or service node, and *)
(* the status the instance draws from its tasks.  A task is completed or   *)
(* failed by its id, whatever the instance's status; an unknown id changes *)
(* no task and still re-evaluates, or fails, the instance.                 *)
(***************************************************************************)

CONSTANTS
    Templates, Nodes, Runs,     \* template ids, node ids, instance ids
    UnknownNode, UnknownTask,
    MaxMinute                   \* bound: datetime.now() of the run

ASSUME BpmnConstants == MaxMinute \in Nat /\ UnknownNode \notin Nodes /\ UnknownTask \notin Nodes

VARIABLES
    templates,      \* _templates: the nodes of a template, or NoTemplate
    instances,      \* _instances: NoRun for an id not handed out
    minute          \* datetime.now(timezone.utc)

bpmnVars == <<templates, instances, minute>>

NoTemplate == [defined |-> FALSE]
NoRun == [status |-> "none"]
Never == MaxMinute + 1

VALID_NODE_TYPES == {"start", "user_task", "service_task", "gateway", "end", "timer_boundary"}
TaskTypes == {"user_task", "service_task"}

BpmnInit ==
    /\ templates = [t \in Templates |-> NoTemplate]
    /\ instances = [r \in Runs |-> NoRun]
    /\ minute = 0

\* type and next give each node of the template its type and its successors.
TemplateValid(type, next) ==
    \A n \in DOMAIN type : type[n] \in VALID_NODE_TYPES /\ next[n] \subseteq DOMAIN type

CreateTemplate(t, type, next) ==
    /\ TemplateValid(type, next)
    /\ templates' = [templates EXCEPT ![t] = [defined |-> TRUE, type |-> type, next |-> next]]
    /\ UNCHANGED <<instances, minute>>

CreateInstance(r, t) ==
    /\ instances[r] = NoRun /\ templates[t].defined
    /\ LET tasks == {n \in DOMAIN templates[t].type : templates[t].type[n] \in TaskTypes}
       IN  instances' = [instances EXCEPT ![r] =
              [status |-> "running", template |-> t, completed_at |-> Never,
               task |-> [n \in tasks |-> [status |-> "pending", completed_at |-> Never]]]]
    /\ UNCHANGED <<templates, minute>>

AllDone(task) == \A n \in DOMAIN task : task[n].status = "completed"

WithTask(run, n, status) ==
    IF n \in DOMAIN run.task THEN [run EXCEPT !.task[n] = [status |-> status, completed_at |-> minute]]
    ELSE run

CompleteTask(r, n) ==
    /\ instances[r] # NoRun
    /\ LET run == WithTask(instances[r], n, "completed")
       IN  instances' = [instances EXCEPT ![r] =
              IF AllDone(run.task) THEN [run EXCEPT !.status = "completed", !.completed_at = minute] ELSE run]
    /\ UNCHANGED <<templates, minute>>

FailTask(r, n) ==
    /\ instances[r] # NoRun
    /\ instances' = [instances EXCEPT ![r] =
          [WithTask(@, n, "failed") EXCEPT !.status = "failed", !.completed_at = minute]]
    /\ UNCHANGED <<templates, minute>>

CancelRun(r) ==
    /\ instances[r].status \in {"running", "paused"}
    /\ instances' = [instances EXCEPT ![r].status = "cancelled", ![r].completed_at = minute]
    /\ UNCHANGED <<templates, minute>>

MinutePasses == minute < MaxMinute /\ minute' = minute + 1 /\ UNCHANGED <<templates, instances>>

NodeChoices == {"start", "user_task", "service_task", "script_task"}

BpmnNext ==
    \/ \E t \in Templates, ids \in SUBSET Nodes : \E type \in [ids -> NodeChoices] :
          \E target \in Nodes \cup {UnknownNode} :
             CreateTemplate(t, type, [n \in ids |-> IF type[n] = "start" THEN {target} ELSE {}])
    \/ \E r \in Runs :
          \/ \E t \in Templates : CreateInstance(r, t)
          \/ \E n \in Nodes \cup {UnknownTask} : CompleteTask(r, n) \/ FailTask(r, n)
          \/ CancelRun(r)
    \/ MinutePasses
-----------------------------------------------------------------------------
BpmnTypeOK ==
    /\ minute \in 0..MaxMinute
    /\ \A r \in Runs : instances[r].status \in {"none", "running", "completed", "failed", "cancelled"}
    /\ \A t \in Templates : templates[t].defined =>
          \A n \in DOMAIN templates[t].type : templates[t].next[n] \subseteq Nodes

\* A completed instance has done all of its work: each of its tasks is completed,
\* none of them after the instance itself, even though tasks are completed,
\* failed and completed again in any order and after the instance has ended.
CompletedMeansAllTasks ==
    \A r \in Runs : instances[r].status = "completed" =>
        \A n \in DOMAIN instances[r].task :
            /\ instances[r].task[n].status = "completed"
            /\ instances[r].task[n].completed_at <= instances[r].completed_at

\* An instance that ended never runs again: what fail_task, cancel or the last
\* task made of it may be replaced by another ending, never by "running".
EndedStaysEnded ==
    [][\A r \in Runs : instances[r].status \in {"completed", "failed", "cancelled"}
          => instances[r].status' \in {"completed", "failed", "cancelled"}
             /\ instances[r].completed_at' >= instances[r].completed_at]_bpmnVars
=============================================================================
