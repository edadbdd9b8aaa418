-------------------------- MODULE ApprovalService --------------------------
(***************************************************************************)
(* Human approval requests (services/ai/orchestrator/approval.py): a       *)
(* request is created, announced over one channel by a task of its own,    *)
(* decided, cancelled or timed out, and every step leaves an audit entry.  *)
(* The webhook task sleeps between its attempts and the other channels     *)
(* await a service, so decisions and the timeout check run in between.     *)
(* The HTTP client, e-mail and in-app services are external and may fail.  *)
(***************************************************************************)
EXTENDS Naturals, FiniteSets, SequencesExt

CONSTANTS
    Requests,               \* request ids, handed out by uuid4
    Users,
    TimeoutHours,           \* the node's timeout_hours
    MAX_WEBHOOK_RETRIES,
    MaxClock,               \* bound: hours of the run
    MaxReads                \* bound: read receipts of a request

ASSUME ApprovalConstants ==
    /\ MAX_WEBHOOK_RETRIES \in Nat \ {0} /\ MaxClock \in Nat /\ MaxReads \in Nat
    /\ TimeoutHours \subseteq Nat /\ IsFiniteSet(Users)

VARIABLES
    approvals,      \* _approvals; a request not created is NoRequest
    trail,          \* the entries of _audit_trail, by request_id
    task,           \* how far the notification task of a request is
    hour            \* datetime.utcnow(), in hours

approvalVars == <<approvals, trail, task, hour>>

NoRequest == [status |-> "none"]
Channels == {"webhook", "email", "in_app"}
Decisions == {"approved", "rejected"}
Outcomes == Decisions \cup {"cancelled", "timed_out"}
FailedEntry == [webhook |-> "webhook_failed", email |-> "email_failed", in_app |-> "in_app_failed"]
SentEntry == [webhook |-> "webhook_sent", email |-> "email_sent", in_app |-> "in_app_sent"]

NoTask == [on |-> "none", n |-> 0]

ApprovalInit ==
    /\ approvals = [r \in Requests |-> NoRequest]
    /\ trail = [r \in Requests |-> <<>>]
    /\ task = [r \in Requests |-> NoTask]
    /\ hour = 0

LogAudit(r, action, actor) == trail' = [trail EXCEPT ![r] = Append(@, [action |-> action, actor |-> actor])]

\* _send_notifications: a webhook channel without a URL starts no task.
SendNotifications(r, channel, url) ==
    task' = [task EXCEPT ![r] = IF channel = "webhook" /\ ~url THEN NoTask ELSE [on |-> channel, n |-> 0]]

CreateApprovalRequest(r, approvers, channel, url, hours) ==
    /\ approvals[r] = NoRequest
    /\ approvals' = [approvals EXCEPT ![r] =
          [status |-> "pending", approvers |-> approvers, channel |-> channel,
           expires |-> hour + hours, decision_by |-> "none", reads |-> 0, notification_ids |-> {}]]
    /\ LogAudit(r, "approval_created", "system")
    /\ SendNotifications(r, channel, url)
    /\ UNCHANGED hour

IsPending(r) == approvals[r].status = "pending"

\* Mutant: the late decision overwrites the one that was taken.
DecideAgain(r, user, decision) ==
    /\ approvals[r] # NoRequest /\ user \in approvals[r].approvers
    /\ approvals' = [approvals EXCEPT ![r].status = decision, ![r].decision_by = user]
    /\ LogAudit(r, decision, user)
    /\ UNCHANGED <<task, hour>>

\* approve and reject: a pending request and one of its approvers; the expiry
\* is not looked at, so a late decision wins over a timeout check not yet made.
Decide(r, user, decision) ==
    /\ IsPending(r) /\ user \in approvals[r].approvers
    /\ approvals' = [approvals EXCEPT ![r].status = decision, ![r].decision_by = user]
    /\ LogAudit(r, decision, user)
    /\ UNCHANGED <<task, hour>>

CancelRequest(r) ==
    /\ IsPending(r)
    /\ approvals' = [approvals EXCEPT ![r].status = "cancelled"]
    /\ LogAudit(r, "cancelled", "system")
    /\ UNCHANGED <<task, hour>>

MarkRead(r, user) ==
    /\ approvals[r] # NoRequest /\ approvals[r].reads < MaxReads
    /\ approvals' = [approvals EXCEPT ![r].reads = @ + 1]
    /\ LogAudit(r, "read_received", user)
    /\ UNCHANGED <<task, hour>>

ExpiredRequests == {r \in Requests : IsPending(r) /\ hour > approvals[r].expires}

CheckTimeout ==
    /\ ExpiredRequests # {}
    /\ approvals' = [r \in Requests |->
          IF r \in ExpiredRequests THEN [approvals[r] EXCEPT !.status = "timed_out"] ELSE approvals[r]]
    /\ trail' = [r \in Requests |->
          IF r \in ExpiredRequests THEN Append(trail[r], [action |-> "timed_out", actor |-> "system"]) ELSE trail[r]]
    /\ UNCHANGED <<task, hour>>

-----------------------------------------------------------------------------
(* The notification tasks.                                                 *)

Announced(r, ids) ==
    /\ approvals' = [approvals EXCEPT ![r].notification_ids = @ \cup ids]
    /\ LogAudit(r, SentEntry[task[r].on], "system")
    /\ task' = [task EXCEPT ![r] = NoTask]
    /\ UNCHANGED hour

NotAnnounced(r) ==
    /\ LogAudit(r, FailedEntry[task[r].on], "system")
    /\ task' = [task EXCEPT ![r] = NoTask]
    /\ UNCHANGED <<approvals, hour>>

\* An attempt failed: log and sleep, or give up after the last one.
WebhookError(r) ==
    IF task[r].n + 1 < MAX_WEBHOOK_RETRIES
    THEN /\ LogAudit(r, "webhook_retry", "system")
         /\ task' = [task EXCEPT ![r].n = @ + 1]
         /\ UNCHANGED <<approvals, hour>>
    ELSE NotAnnounced(r)

SendWebhookWithRetry(r) ==
    /\ task[r].on = "webhook"
    /\ Announced(r, {"webhook"}) \/ WebhookError(r)

SendEmail(r) ==
    /\ task[r].on = "email"
    /\ Announced(r, {"email"}) \/ NotAnnounced(r)

\* One approver after the other; the ids are stored only after the last one.
SendInApp(r) ==
    /\ task[r].on = "in_app"
    /\ LET approvers == approvals[r].approvers
       IN  \/ /\ task[r].n < Cardinality(approvers)
              /\ task' = [task EXCEPT ![r].n = @ + 1]
              /\ UNCHANGED <<approvals, trail, hour>>
           \/ task[r].n = Cardinality(approvers) /\ Announced(r, approvers)
           \/ task[r].n < Cardinality(approvers) /\ NotAnnounced(r)

NotifyStep(r) == SendWebhookWithRetry(r) \/ SendEmail(r) \/ SendInApp(r)

HourPasses == hour < MaxClock /\ hour' = hour + 1 /\ UNCHANGED <<approvals, trail, task>>

ApprovalNext ==
    \/ \E r \in Requests, approvers \in SUBSET Users, channel \in Channels,
          url \in BOOLEAN, hours \in TimeoutHours :
          CreateApprovalRequest(r, approvers, channel, url, hours)
    \/ \E r \in Requests, user \in Users, decision \in Decisions : Decide(r, user, decision)
    \/ \E r \in Requests : CancelRequest(r)
    \/ \E r \in Requests, user \in Users : MarkRead(r, user)
    \/ CheckTimeout
    \/ \E r \in Requests : NotifyStep(r)
    \/ HourPasses

-----------------------------------------------------------------------------
(* Properties.                                                             *)

TrailEntries(r, actions) == {i \in 1..Len(trail[r]) : trail[r][i].action \in actions}

ApprovalTypeOK ==
    /\ hour \in 0..MaxClock
    /\ \A r \in Requests :
          /\ task[r].on \in Channels \cup {"none"}
          /\ task[r].n \in 0..(IF task[r].on = "webhook" THEN MAX_WEBHOOK_RETRIES - 1 ELSE Cardinality(Users))
          /\ approvals[r] # NoRequest =>
                /\ approvals[r].status \in Outcomes \cup {"pending"}
                /\ approvals[r].expires \in Nat /\ approvals[r].approvers \subseteq Users

\* However approve, reject, cancel and check_timeout race, the trail of a request
\* names one outcome, it is the request's status, and a human outcome was taken by
\* an approver: the same user in the entry and in decision_by.
TrailNamesOneOutcome ==
    \A r \in Requests :
       LET outcomes == TrailEntries(r, Outcomes)
       IN  IF approvals[r].status \in Outcomes
           THEN \E i \in outcomes :
                   /\ outcomes = {i} /\ trail[r][i].action = approvals[r].status
                   /\ approvals[r].status \in Decisions =>
                         /\ trail[r][i].actor = approvals[r].decision_by
                         /\ approvals[r].decision_by \in approvals[r].approvers
           ELSE outcomes = {}

\* check_timeout gives the approvers all their hours.
TimeoutIsLate ==
    \A r \in Requests : approvals[r].status = "timed_out" => hour > approvals[r].expires

\* When the task of a request is over, the trail says how it ended, once; a
\* success and only a success left notification ids; a webhook given up on was
\* tried MAX_WEBHOOK_RETRIES times, each failure but the last one logged.
TrailTellsNotification ==
    \A r \in Requests :
       LET sent == TrailEntries(r, {SentEntry[c] : c \in Channels})
           failed == TrailEntries(r, {FailedEntry[c] : c \in Channels})
           retries == Cardinality(TrailEntries(r, {"webhook_retry"}))
       IN  /\ Cardinality(sent \cup failed) <= 1
           /\ approvals[r] # NoRequest /\ task[r] = NoTask /\ approvals[r].channel # "webhook"
                 => sent \cup failed # {}
           /\ approvals[r] # NoRequest /\ approvals[r].notification_ids # {} => sent # {}
           /\ TrailEntries(r, {"webhook_failed"}) # {} => retries = MAX_WEBHOOK_RETRIES - 1
           /\ task[r].on = "webhook" => retries = task[r].n

\* A notification task that started comes to an end: asyncio runs it to completion
\* and the webhook is tried finitely often.
NotificationSettles == \A r \in Requests : task[r] # NoTask ~> task[r] = NoTask
=============================================================================
