------------------------ MODULE AgentServicesProofs ------------------------
(***************************************************************************)
(* Proofs about the parts of MCAgentServices, for any number of requests,  *)
(* users, calls, lookups, tools and files and any limits.  Each part has   *)
(* an inductive invariant of its own; a step of the composition is a step  *)
(* of one part and leaves the variables of the others alone.               *)
(***************************************************************************)
EXTENDS MCAgentServices, DataInduction, FiniteSetTheorems, SequenceTheorems, TLAPS

(* What a step of the composition is for each part. *)
LEMMA PartSteps ==
  ASSUME [Next]_vars
  PROVE  /\ ApprovalNext \/ UNCHANGED approvalVars
         /\ TriggerNext \/ UNCHANGED triggerVars
         /\ AssetNext \/ UNCHANGED assetVars
         /\ OntologyNext \/ UNCHANGED ontologyVars
         /\ LoaderNext \/ UNCHANGED loaderVars
         /\ ChunkNext \/ UNCHANGED chunkVars
         /\ QueryNext \/ UNCHANGED queryVars
BY DEF Next, vars, Running, Approval, TriggerTool, AssetTool, OntologyTool, Loader, Chunker, Queries

-----------------------------------------------------------------------------
(* Approval requests.  A request, its trail, its notification task and the *)
(* clock, kept together: while the task runs nothing of its end is logged, *)
(* and a status other than pending is logged at exactly one place.         *)

RequestFields == {"status", "approvers", "channel", "expires", "decision_by", "reads", "notification_ids"}
Sent == {"webhook_sent", "email_sent", "in_app_sent"}
Failed == {"webhook_failed", "email_failed", "in_app_failed"}
Retry == {"webhook_retry"}

Listing(s) == s = [i \in 1..Len(s) |-> s[i]] /\ Len(s) \in Nat
Places(s, actions) == {i \in 1..Len(s) : s[i].action \in actions}

TaskTyped(t) == DOMAIN t = {"on", "n"} /\ t.n \in Nat /\ (t.on = "none" => t = NoTask)

RequestTyped(a, t) ==
  /\ DOMAIN a = RequestFields /\ a.status \in Outcomes \cup {"pending"} /\ a.approvers \subseteq Users
  /\ a.channel \in Channels /\ a.expires \in Nat
  /\ t.on \in {"none", a.channel}
  /\ t.on = "webhook" => t.n < MAX_WEBHOOK_RETRIES
  /\ t.on = "in_app" => t.n <= Cardinality(a.approvers)
  /\ t.on = "email" => t.n = 0

OutcomeTold(a, s) ==
  IF a.status \in Outcomes
  THEN \E i \in Places(s, Outcomes) :
         /\ Places(s, Outcomes) = {i} /\ s[i].action = a.status
         /\ a.status \in Decisions => s[i].actor = a.decision_by /\ a.decision_by \in a.approvers
  ELSE Places(s, Outcomes) = {}

LateEnough(a, h) == a.status = "timed_out" => h > a.expires

NoticeTold(a, s, t) ==
  /\ \A i, j \in Places(s, Sent) \cup Places(s, Failed) : i = j
  /\ t.on # "none" => Places(s, Sent) = {} /\ Places(s, Failed) = {} /\ a.notification_ids = {}
  /\ t.on = "none" /\ a.channel # "webhook" => Places(s, Sent) # {} \/ Places(s, Failed) # {}
  /\ a.notification_ids # {} => Places(s, Sent) # {}
  /\ Places(s, {"webhook_failed"}) # {} => Cardinality(Places(s, Retry)) = MAX_WEBHOOK_RETRIES - 1
  /\ t.on = "webhook" => Cardinality(Places(s, Retry)) = t.n

RequestKept(a, s, t, h) ==
  /\ Listing(s) /\ TaskTyped(t)
  /\ a = NoRequest => s = <<>> /\ t = NoTask
  /\ a # NoRequest => RequestTyped(a, t) /\ OutcomeTold(a, s) /\ LateEnough(a, h) /\ NoticeTold(a, s, t)

ApprovalInv ==
  /\ approvals = [r \in Requests |-> approvals[r]] /\ trail = [r \in Requests |-> trail[r]]
  /\ task = [r \in Requests |-> task[r]] /\ hour \in 0..MaxClock
  /\ \A r \in Requests : RequestKept(approvals[r], trail[r], task[r], hour)

LEMMA ApprovalStart == ApprovalInit => ApprovalInv
<1> SUFFICES ASSUME ApprovalInit PROVE ApprovalInv
  OBVIOUS
<1>1. TaskTyped(NoTask) /\ Listing(<<>>)
  BY DEF TaskTyped, NoTask, Listing
<1>2. RequestKept(NoRequest, <<>>, NoTask, 0)
  BY <1>1 DEF RequestKept
<1> QED BY <1>2, ApprovalConstants DEF ApprovalInit, ApprovalInv

(* The trail grows by one entry. *)
Grown(s, u, action, actor) ==
  /\ Listing(u) /\ Len(u) = Len(s) + 1 /\ (\A i \in 1..Len(s) : u[i] = s[i])
  /\ u[Len(u)].action = action /\ u[Len(u)].actor = actor

LEMMA EntryAdded ==
  ASSUME NEW s, Listing(s), NEW action, NEW actor
  PROVE  Grown(s, Append(s, [action |-> action, actor |-> actor]), action, actor)
<1> DEFINE u == Append(s, [action |-> action, actor |-> actor])
<1> DEFINE e == [action |-> action, actor |-> actor]
           T == {s[i] : i \in 1..Len(s)} \cup {e}
<1>1. s \in Seq(T) /\ e \in T
  BY SeqDef DEF Listing
<1>2. e.action = action /\ e.actor = actor
  OBVIOUS
<1> HIDE DEF e
<1>3. Len(u) = Len(s) + 1 /\ u[Len(u)] = e /\ (\A i \in 1..Len(s) : u[i] = s[i]) /\ u \in Seq(T)
  BY <1>1 DEF e
<1>4. u = [i \in 1..Len(u) |-> u[i]]
  BY <1>3
<1>5. Len(u) \in Nat
  BY <1>3 DEF Listing
<1> QED BY <1>2, <1>3, <1>4, <1>5 DEF Grown, Listing

LEMMA NewPlace ==
  ASSUME NEW s, NEW u, Listing(s), NEW action, NEW actor, Grown(s, u, action, actor),
         NEW actions, action \in actions
  PROVE  Places(u, actions) = Places(s, actions) \cup {Len(u)} /\ Len(u) \notin Places(s, actions)
<1>1. 1..Len(u) = 1..Len(s) \cup {Len(u)} /\ Len(u) \notin 1..Len(s)
  BY DEF Grown, Listing
<1> QED BY <1>1 DEF Places, Grown

LEMMA SamePlaces ==
  ASSUME NEW s, NEW u, Listing(s), NEW action, NEW actor, Grown(s, u, action, actor),
         NEW actions, action \notin actions
  PROVE  Places(u, actions) = Places(s, actions)
<1>1. 1..Len(u) = 1..Len(s) \cup {Len(u)} /\ Len(u) \notin 1..Len(s)
  BY DEF Grown, Listing
<1> QED BY <1>1 DEF Places, Grown

LEMMA PlacesFinite ==
  ASSUME NEW s, Listing(s), NEW actions
  PROVE  IsFiniteSet(Places(s, actions))
<1>1. 1 \in Int /\ Len(s) \in Int
  BY DEF Listing
<1>2. IsFiniteSet(1..Len(s))
  BY <1>1, FS_Interval
<1>3. Places(s, actions) \subseteq 1..Len(s)
  BY DEF Places
<1> QED BY <1>2, <1>3, FS_Subset

(* A step that concerns one request. *)
LEMMA OneRequest ==
  ASSUME ApprovalInv, NEW r \in Requests, UNCHANGED hour,
         approvals' = [approvals EXCEPT ![r] = approvals'[r]], trail' = [trail EXCEPT ![r] = trail'[r]],
         task' = [task EXCEPT ![r] = task'[r]],
         RequestKept(approvals'[r], trail'[r], task'[r], hour)
  PROVE  ApprovalInv'
<1>1. \A q \in Requests : q # r => approvals'[q] = approvals[q] /\ trail'[q] = trail[q] /\ task'[q] = task[q]
  BY DEF ApprovalInv
<1>2. /\ approvals' = [q \in Requests |-> approvals'[q]] /\ trail' = [q \in Requests |-> trail'[q]]
      /\ task' = [q \in Requests |-> task'[q]]
  BY DEF ApprovalInv
<1> QED BY <1>1, <1>2 DEF ApprovalInv

(* The sets of actions a trail is searched for. *)
LEMMA ActionSets ==
  /\ Outcomes = {"approved", "rejected", "cancelled", "timed_out"} /\ Decisions = {"approved", "rejected"}
  /\ \A c \in Channels : SentEntry[c] \in Sent /\ FailedEntry[c] \in Failed
  /\ \A c \in Channels : FailedEntry[c] = "webhook_failed" => c = "webhook"
  /\ {SentEntry[c] : c \in Channels} = Sent /\ {FailedEntry[c] : c \in Channels} = Failed
<1>1. Outcomes = {"approved", "rejected", "cancelled", "timed_out"} /\ Decisions = {"approved", "rejected"}
  BY DEF Outcomes, Decisions
<1>2. /\ SentEntry["webhook"] = "webhook_sent" /\ SentEntry["email"] = "email_sent"
      /\ SentEntry["in_app"] = "in_app_sent" /\ FailedEntry["webhook"] = "webhook_failed"
      /\ FailedEntry["email"] = "email_failed" /\ FailedEntry["in_app"] = "in_app_failed"
  BY DEF SentEntry, FailedEntry
<1> QED BY <1>1, <1>2 DEF Sent, Failed, Channels

(* An entry that is neither an outcome nor about the announcement. *)
LEMMA PlainEntry ==
  ASSUME NEW a, NEW s, NEW t, NEW h, RequestKept(a, s, t, h), a # NoRequest, NEW b, NEW u, NEW actor,
         Grown(s, u, "read_received", actor),
         DOMAIN b = DOMAIN a, b.status = a.status, b.approvers = a.approvers, b.channel = a.channel,
         b.expires = a.expires, b.decision_by = a.decision_by, b.notification_ids = a.notification_ids
  PROVE  RequestKept(b, u, t, h)
<1>1. Listing(s)
  BY DEF RequestKept
<1>2. Listing(u)
  BY DEF Grown
<1>3. /\ Places(u, Outcomes) = Places(s, Outcomes) /\ Places(u, Sent) = Places(s, Sent)
      /\ Places(u, Failed) = Places(s, Failed) /\ Places(u, Retry) = Places(s, Retry)
      /\ Places(u, {"webhook_failed"}) = Places(s, {"webhook_failed"})
  <2>1. /\ "read_received" \notin Outcomes /\ "read_received" \notin Sent /\ "read_received" \notin Failed
        /\ "read_received" \notin Retry /\ "read_received" \notin {"webhook_failed"}
    BY ActionSets DEF Sent, Failed, Retry
  <2>2. ASSUME NEW actions, "read_received" \notin actions PROVE Places(u, actions) = Places(s, actions)
    BY <1>1, <1>2, <2>2, SamePlaces, SMT
  <2> QED BY <2>1, <2>2
<1>4. RequestTyped(a, t) /\ OutcomeTold(a, s) /\ LateEnough(a, h) /\ NoticeTold(a, s, t) /\ TaskTyped(t)
  BY DEF RequestKept
<1>5. OutcomeTold(b, u)
  <2>1. \A i \in Places(s, Outcomes) : u[i] = s[i]
    BY <1>2 DEF Places, Grown
  <2> QED BY <1>3, <1>4, <2>1 DEF OutcomeTold
<1>6. RequestTyped(b, t) /\ LateEnough(b, h) /\ NoticeTold(b, u, t)
  BY <1>3, <1>4 DEF RequestTyped, LateEnough, NoticeTold
<1>7. DOMAIN b = RequestFields /\ DOMAIN NoRequest = {"status"}
  BY <1>4 DEF RequestTyped, NoRequest
<1>8. b # NoRequest
  BY <1>7 DEF RequestFields
<1> QED BY <1>2, <1>4, <1>5, <1>6, <1>8 DEF RequestKept, Grown

(* An outcome of a request that was pending. *)
LEMMA OutcomeEntry ==
  ASSUME NEW a, NEW s, NEW t, NEW h, RequestKept(a, s, t, h), a.status = "pending", NEW b, NEW u, NEW actor,
         b.status \in Outcomes, Grown(s, u, b.status, actor),
         DOMAIN b = DOMAIN a, b.approvers = a.approvers, b.channel = a.channel,
         b.expires = a.expires, b.notification_ids = a.notification_ids,
         b.status \in Decisions => b.decision_by = actor /\ actor \in a.approvers,
         LateEnough(b, h)
  PROVE  RequestKept(b, u, t, h)
<1>1. Listing(s) /\ a # NoRequest
  BY DEF RequestKept, NoRequest
<1>2. Listing(u)
  BY DEF Grown
<1>3. /\ Places(u, Sent) = Places(s, Sent)
      /\ Places(u, Failed) = Places(s, Failed) /\ Places(u, Retry) = Places(s, Retry)
      /\ Places(u, {"webhook_failed"}) = Places(s, {"webhook_failed"})
  <2>1. b.status \notin Sent /\ b.status \notin Failed /\ b.status \notin Retry /\ b.status \notin {"webhook_failed"}
    BY ActionSets DEF Sent, Failed, Retry
  <2>2. ASSUME NEW actions, b.status \notin actions PROVE Places(u, actions) = Places(s, actions)
    BY <1>1, <1>2, <2>2, SamePlaces, SMT
  <2> QED BY <2>1, <2>2
<1>4. RequestTyped(a, t) /\ OutcomeTold(a, s) /\ NoticeTold(a, s, t) /\ TaskTyped(t)
  BY <1>1 DEF RequestKept
<1>5. Places(s, Outcomes) = {}
  BY <1>4, ActionSets DEF OutcomeTold
<1>6. OutcomeTold(b, u)
  <2>0. Places(u, Outcomes) = Places(s, Outcomes) \cup {Len(u)}
    BY <1>1, <1>2, NewPlace
  <2>1. Places(u, Outcomes) = {Len(u)}
    BY <1>5, <2>0
  <2> QED BY <1>2, <2>1 DEF OutcomeTold, Grown
<1>7. RequestTyped(b, t) /\ NoticeTold(b, u, t)
  BY <1>3, <1>4 DEF RequestTyped, NoticeTold
<1>8. DOMAIN b = RequestFields /\ DOMAIN NoRequest = {"status"}
  BY <1>4 DEF RequestTyped, NoRequest
<1>9. b # NoRequest
  BY <1>8 DEF RequestFields
<1> QED BY <1>2, <1>4, <1>6, <1>7, <1>9 DEF RequestKept, Grown

(* An entry of the notification task while it runs: it leaves the request's *)
(* outcome alone.                                                          *)
LEMMA TaskEntry ==
  ASSUME NEW a, NEW s, NEW t, NEW h, RequestKept(a, s, t, h), t.on # "none", NEW b, NEW u, NEW action, NEW actor,
         NEW w, TaskTyped(w), RequestTyped(b, w), NoticeTold(b, u, w),
         action \notin Outcomes, Grown(s, u, action, actor),
         b.status = a.status, b.approvers = a.approvers, b.expires = a.expires, b.decision_by = a.decision_by
  PROVE  RequestKept(b, u, w, h)
<1>1. Listing(s) /\ a # NoRequest
  BY DEF RequestKept, NoTask
<1>2. Listing(u)
  BY DEF Grown
<1>3. Places(u, Outcomes) = Places(s, Outcomes)
  BY <1>1, SamePlaces, SMT
<1>4. OutcomeTold(a, s) /\ LateEnough(a, h)
  BY <1>1 DEF RequestKept
<1>5. OutcomeTold(b, u)
  <2>1. \A i \in Places(s, Outcomes) : u[i] = s[i]
    BY <1>2 DEF Places, Grown
  <2> QED BY <1>3, <1>4, <2>1 DEF OutcomeTold
<1>6. DOMAIN b = RequestFields /\ DOMAIN NoRequest = {"status"}
  BY DEF RequestTyped, NoRequest
<1>7. b # NoRequest
  BY <1>6 DEF RequestFields
<1> QED BY <1>2, <1>4, <1>5, <1>7 DEF RequestKept, Grown, LateEnough

(* What holds while a notification task runs. *)
LEMMA TaskRuns ==
  ASSUME NEW a, NEW s, NEW t, NEW h, RequestKept(a, s, t, h), t.on # "none"
  PROVE  /\ Listing(s) /\ a # NoRequest /\ RequestTyped(a, t) /\ TaskTyped(t) /\ NoticeTold(a, s, t)
         /\ t.on = a.channel /\ t.on \in Channels
         /\ Places(s, Sent) = {} /\ Places(s, Failed) = {} /\ Places(s, {"webhook_failed"}) = {}
<1>1. Listing(s) /\ a # NoRequest /\ TaskTyped(t)
  BY DEF RequestKept, NoTask
<1>2. RequestTyped(a, t) /\ NoticeTold(a, s, t)
  BY <1>1 DEF RequestKept
<1>3. Places(s, Sent) = {} /\ Places(s, Failed) = {}
  BY <1>2 DEF NoticeTold
<1>4. Places(s, {"webhook_failed"}) = {}
  BY <1>3 DEF Places, Failed
<1>5. t.on = a.channel /\ t.on \in Channels
  BY <1>2 DEF RequestTyped
<1> QED BY <1>1, <1>2, <1>3, <1>4, <1>5

(* The announcement succeeded. *)
LEMMA SentKeeps ==
  ASSUME NEW a, NEW s, NEW t, NEW h, RequestKept(a, s, t, h), t.on # "none", NEW b, NEW u,
         Grown(s, u, SentEntry[t.on], "system"),
         DOMAIN b = DOMAIN a, b.status = a.status, b.approvers = a.approvers, b.channel = a.channel,
         b.expires = a.expires, b.decision_by = a.decision_by
  PROVE  RequestKept(b, u, NoTask, h)
<1>1. /\ Listing(s) /\ a # NoRequest /\ RequestTyped(a, t) /\ TaskTyped(t) /\ NoticeTold(a, s, t)
      /\ t.on = a.channel /\ t.on \in Channels
      /\ Places(s, Sent) = {} /\ Places(s, Failed) = {} /\ Places(s, {"webhook_failed"}) = {}
  BY TaskRuns
<1> DEFINE action == SentEntry[t.on]
<1>2. action \in Sent
  BY <1>1, ActionSets
<1> HIDE DEF action
<1>3. Grown(s, u, action, "system")
  BY DEF action
<1>4. action \notin Failed /\ action \notin Retry /\ action \notin {"webhook_failed"} /\ action \notin Outcomes
  BY <1>2, ActionSets DEF Sent, Failed, Retry
<1>5. Places(u, Sent) = Places(s, Sent) \cup {Len(u)}
  BY <1>1, <1>2, <1>3, NewPlace
<1>6. ASSUME NEW actions, action \notin actions PROVE Places(u, actions) = Places(s, actions)
  BY <1>1, <1>3, <1>6, SamePlaces, SMT
<1>7. Places(u, Sent) = {Len(u)} /\ Places(u, Failed) = {} /\ Places(u, {"webhook_failed"}) = {}
  BY <1>1, <1>4, <1>5, <1>6
<1>8. NoTask.on = "none" /\ TaskTyped(NoTask)
  BY DEF NoTask, TaskTyped
<1>9. NoticeTold(b, u, NoTask)
  BY <1>7, <1>8 DEF NoticeTold
<1>10. RequestTyped(b, NoTask)
  BY <1>1, <1>8 DEF RequestTyped
<1> QED BY <1>3, <1>4, <1>8, <1>9, <1>10, TaskEntry

(* The announcement failed for good. *)
LEMMA FailedKeeps ==
  ASSUME NEW a, NEW s, NEW t, NEW h, RequestKept(a, s, t, h), t.on # "none", NEW u,
         Grown(s, u, FailedEntry[t.on], "system"),
         t.on = "webhook" => t.n + 1 >= MAX_WEBHOOK_RETRIES
  PROVE  RequestKept(a, u, NoTask, h)
<1>1. /\ Listing(s) /\ a # NoRequest /\ RequestTyped(a, t) /\ TaskTyped(t) /\ NoticeTold(a, s, t)
      /\ t.on = a.channel /\ t.on \in Channels
      /\ Places(s, Sent) = {} /\ Places(s, Failed) = {} /\ Places(s, {"webhook_failed"}) = {}
  BY TaskRuns
<1> DEFINE action == FailedEntry[t.on]
<1>2. action \in Failed /\ (action = "webhook_failed" => t.on = "webhook")
  BY <1>1, ActionSets
<1> HIDE DEF action
<1>3. Grown(s, u, action, "system")
  BY DEF action
<1>4. action \notin Sent /\ action \notin Retry /\ action \notin Outcomes
  BY <1>2, ActionSets DEF Sent, Failed, Retry
<1>5. Places(u, Failed) = Places(s, Failed) \cup {Len(u)}
  BY <1>1, <1>2, <1>3, NewPlace
<1>6. ASSUME NEW actions, action \notin actions PROVE Places(u, actions) = Places(s, actions)
  BY <1>1, <1>3, <1>6, SamePlaces, SMT
<1>7. Places(u, Failed) = {Len(u)} /\ Places(u, Sent) = {} /\ Places(u, Retry) = Places(s, Retry)
  BY <1>1, <1>4, <1>5, <1>6
<1>8. NoTask.on = "none" /\ TaskTyped(NoTask)
  BY DEF NoTask, TaskTyped
<1>9. Places(u, {"webhook_failed"}) # {} => Cardinality(Places(u, Retry)) = MAX_WEBHOOK_RETRIES - 1
  <2>1. CASE action = "webhook_failed"
    <3>1. t.on = "webhook" /\ Cardinality(Places(s, Retry)) = t.n /\ t.n < MAX_WEBHOOK_RETRIES /\ t.n \in Nat
      BY <1>1, <1>2, <2>1 DEF NoticeTold, RequestTyped, TaskTyped
    <3>2. t.n = MAX_WEBHOOK_RETRIES - 1
      BY <3>1, ApprovalConstants
    <3> QED BY <1>7, <3>1, <3>2
  <2>2. CASE action # "webhook_failed"
    <3>1. Places(u, {"webhook_failed"}) = {}
      BY <1>1, <1>6, <2>2
    <3> QED BY <3>1
  <2> QED BY <2>1, <2>2
<1>10. NoticeTold(a, u, NoTask)
  <2>1. a.notification_ids = {}
    BY <1>1 DEF NoticeTold
  <2> QED BY <1>7, <1>8, <1>9, <2>1 DEF NoticeTold
<1>11. RequestTyped(a, NoTask)
  BY <1>1, <1>8 DEF RequestTyped
<1> QED BY <1>3, <1>4, <1>8, <1>10, <1>11, TaskEntry

(* One more attempt of the webhook is due. *)
LEMMA RetryKeeps ==
  ASSUME NEW a, NEW s, NEW t, NEW h, RequestKept(a, s, t, h), t.on = "webhook",
         t.n + 1 < MAX_WEBHOOK_RETRIES, NEW u, Grown(s, u, "webhook_retry", "system"),
         NEW w, w = [t EXCEPT !.n = t.n + 1]
  PROVE  RequestKept(a, u, w, h)
<1>1. /\ Listing(s) /\ a # NoRequest /\ RequestTyped(a, t) /\ TaskTyped(t) /\ NoticeTold(a, s, t)
      /\ t.on = a.channel /\ t.on \in Channels
      /\ Places(s, Sent) = {} /\ Places(s, Failed) = {} /\ Places(s, {"webhook_failed"}) = {}
  BY TaskRuns
<1>2. Listing(u)
  BY DEF Grown
<1>3. ASSUME NEW actions, "webhook_retry" \notin actions PROVE Places(u, actions) = Places(s, actions)
  BY <1>1, <1>2, <1>3, SamePlaces, SMT
<1>4. "webhook_retry" \notin Sent /\ "webhook_retry" \notin Failed /\ "webhook_retry" \notin Outcomes
      /\ "webhook_retry" \notin {"webhook_failed"} /\ "webhook_retry" \in Retry
  BY ActionSets DEF Sent, Failed, Retry
<1>5. Places(u, Sent) = {} /\ Places(u, Failed) = {} /\ Places(u, {"webhook_failed"}) = {}
  BY <1>1, <1>3, <1>4
<1>6. Cardinality(Places(u, Retry)) = t.n + 1
  <2>1. /\ Places(u, Retry) = Places(s, Retry) \cup {Len(u)} /\ Len(u) \notin Places(s, Retry)
        /\ IsFiniteSet(Places(s, Retry))
    BY <1>1, <1>4, NewPlace, PlacesFinite
  <2>2. Cardinality(Places(s, Retry)) = t.n
    BY <1>1 DEF NoticeTold
  <2> QED BY <2>1, <2>2, FS_AddElement
<1>7. w.on = "webhook" /\ w.n = t.n + 1 /\ DOMAIN w = {"on", "n"} /\ w.n \in Nat
  BY <1>1 DEF TaskTyped
<1>8. TaskTyped(w)
  BY <1>7 DEF TaskTyped
<1>9. NoticeTold(a, u, w)
  BY <1>1, <1>5, <1>6, <1>7 DEF NoticeTold
<1>10. RequestTyped(a, w)
  BY <1>1, <1>7 DEF RequestTyped
<1> QED BY <1>4, <1>8, <1>9, <1>10, TaskEntry

(* A new entry of a request's trail. *)
LEMMA Logged ==
  ASSUME ApprovalInv, NEW r \in Requests, NEW action, NEW actor, LogAudit(r, action, actor)
  PROVE  trail' = [trail EXCEPT ![r] = trail'[r]] /\ Grown(trail[r], trail'[r], action, actor)
<1>1. trail'[r] = Append(trail[r], [action |-> action, actor |-> actor])
      /\ trail' = [trail EXCEPT ![r] = trail'[r]]
  BY DEF LogAudit, ApprovalInv
<1>2. Listing(trail[r])
  BY DEF ApprovalInv, RequestKept
<1> QED BY <1>1, <1>2, EntryAdded

LEMMA CreateRequestKeeps ==
  ASSUME ApprovalInv, NEW r \in Requests, NEW approvers \in SUBSET Users, NEW channel \in Channels,
         NEW url \in BOOLEAN, NEW hours \in TimeoutHours,
         CreateApprovalRequest(r, approvers, channel, url, hours)
  PROVE  ApprovalInv'
<1> DEFINE a == [status |-> "pending", approvers |-> approvers, channel |-> channel,
                 expires |-> hour + hours, decision_by |-> "none", reads |-> 0, notification_ids |-> {}]
           s == trail[r]
           u == trail'[r]
           w == task'[r]
<1>1. /\ approvals' = [approvals EXCEPT ![r] = approvals'[r]] /\ approvals'[r] = a
      /\ approvals[r] = NoRequest /\ UNCHANGED hour
  BY DEF CreateApprovalRequest, ApprovalInv
<1>2. trail' = [trail EXCEPT ![r] = u] /\ Grown(s, u, "approval_created", "system")
  BY Logged DEF CreateApprovalRequest
<1>3. /\ task' = [task EXCEPT ![r] = w]
      /\ w = IF channel = "webhook" /\ ~url THEN NoTask ELSE [on |-> channel, n |-> 0]
  BY DEF CreateApprovalRequest, SendNotifications, ApprovalInv
<1>4. s = <<>> /\ Listing(s)
  BY <1>1 DEF ApprovalInv, RequestKept
<1>5. ASSUME NEW actions PROVE Places(s, actions) = {}
  BY <1>4 DEF Places
<1>6. ASSUME NEW actions, "approval_created" \notin actions PROVE Places(u, actions) = {}
  <2>1. Places(u, actions) = Places(s, actions)
    BY <1>2, <1>4, <1>6, SamePlaces, SMT
  <2> QED BY <1>5, <2>1
<1>7. /\ Places(u, Outcomes) = {} /\ Places(u, Sent) = {} /\ Places(u, Failed) = {} /\ Places(u, Retry) = {}
      /\ Places(u, {"webhook_failed"}) = {}
  BY <1>6, ActionSets DEF Sent, Failed, Retry
<1>8. Listing(u)
  BY <1>2 DEF Grown
<1>9. /\ a.status = "pending" /\ a.approvers = approvers /\ a.channel = channel /\ a.notification_ids = {}
      /\ a.expires = hour + hours /\ DOMAIN a = RequestFields
  BY DEF RequestFields
<1>10. hour + hours \in Nat
  BY ApprovalConstants DEF ApprovalInv
<1> HIDE DEF a, s, u, w
<1>11. \/ w = NoTask /\ channel = "webhook"
       \/ w = [on |-> channel, n |-> 0]
  BY <1>3
<1>12. /\ (w.on = "none" /\ channel = "webhook" /\ w = NoTask) \/ w.on = channel
       /\ w.n = 0 /\ DOMAIN w = {"on", "n"}
  BY <1>11 DEF NoTask
<1>13. Cardinality(approvers) \in Nat
  BY ApprovalConstants, FS_Subset, FS_CardinalityType
<1>14. "none" \notin Channels
  BY DEF Channels
<1>15. TaskTyped(w)
  BY <1>12, <1>14 DEF TaskTyped
<1>16. a.status \in Outcomes \cup {"pending"} /\ "pending" \notin Outcomes /\ "timed_out" \in Outcomes
  BY <1>9, ActionSets
<1>17. RequestTyped(a, w)
  BY <1>9, <1>10, <1>12, <1>13, <1>16, ApprovalConstants DEF RequestTyped
<1>18. OutcomeTold(a, u) /\ LateEnough(a, hour)
  BY <1>7, <1>9, <1>16 DEF OutcomeTold, LateEnough
<1>19. Cardinality(Places(u, Retry)) = 0
  BY <1>7, FS_EmptySet
<1>20. NoticeTold(a, u, w)
  BY <1>7, <1>9, <1>12, <1>14, <1>19 DEF NoticeTold
<1>21. a # NoRequest
  <2>1. NoRequest.status = "none"
    BY DEF NoRequest
  <2> QED BY <1>9, <2>1
<1>22. RequestKept(a, u, w, hour)
  BY <1>8, <1>15, <1>17, <1>18, <1>20, <1>21 DEF RequestKept
<1> QED BY <1>1, <1>2, <1>3, <1>22, OneRequest DEF u, w

LEMMA DecideKeeps ==
  ASSUME ApprovalInv, NEW r \in Requests, NEW user \in Users, NEW decision \in Decisions,
         Decide(r, user, decision)
  PROVE  ApprovalInv'
<1> DEFINE a == approvals[r]
           b == approvals'[r]
<1>1. approvals' = [approvals EXCEPT ![r] = b] /\ b = [a EXCEPT !.status = decision, !.decision_by = user]
      /\ UNCHANGED <<task, hour>>
  BY DEF Decide, ApprovalInv
<1>2. RequestKept(a, trail[r], task[r], hour) /\ a.status = "pending" /\ user \in a.approvers
  BY DEF Decide, IsPending, ApprovalInv
<1>3. trail' = [trail EXCEPT ![r] = trail'[r]] /\ Grown(trail[r], trail'[r], decision, user)
  BY Logged DEF Decide
<1>4. DOMAIN a = RequestFields
  BY <1>2 DEF RequestKept, RequestTyped, NoRequest
<1>5. /\ DOMAIN b = DOMAIN a /\ b.status = decision /\ b.decision_by = user /\ b.approvers = a.approvers
      /\ b.channel = a.channel /\ b.expires = a.expires /\ b.notification_ids = a.notification_ids
  BY <1>1, <1>4 DEF RequestFields
<1> HIDE DEF a, b
<1>6. b.status \in Outcomes /\ LateEnough(b, hour)
  BY <1>5, ActionSets DEF LateEnough
<1>7. Grown(trail[r], trail'[r], b.status, user)
  BY <1>3, <1>5
<1>8. RequestKept(b, trail'[r], task[r], hour)
  BY <1>2, <1>5, <1>6, <1>7, OutcomeEntry
<1>9. task' = [task EXCEPT ![r] = task'[r]] /\ task'[r] = task[r]
  BY <1>1 DEF ApprovalInv
<1> QED BY <1>1, <1>3, <1>8, <1>9, OneRequest DEF b

LEMMA CancelKeeps ==
  ASSUME ApprovalInv, NEW r \in Requests, CancelRequest(r)
  PROVE  ApprovalInv'
<1> DEFINE a == approvals[r]
           b == approvals'[r]
<1>1. approvals' = [approvals EXCEPT ![r] = b] /\ b = [a EXCEPT !.status = "cancelled"]
      /\ UNCHANGED <<task, hour>>
  BY DEF CancelRequest, ApprovalInv
<1>2. RequestKept(a, trail[r], task[r], hour) /\ a.status = "pending"
  BY DEF CancelRequest, IsPending, ApprovalInv
<1>3. trail' = [trail EXCEPT ![r] = trail'[r]] /\ Grown(trail[r], trail'[r], "cancelled", "system")
  BY Logged DEF CancelRequest
<1>4. DOMAIN a = RequestFields
  BY <1>2 DEF RequestKept, RequestTyped, NoRequest
<1>5. /\ DOMAIN b = DOMAIN a /\ b.status = "cancelled" /\ b.approvers = a.approvers
      /\ b.channel = a.channel /\ b.expires = a.expires /\ b.notification_ids = a.notification_ids
  BY <1>1, <1>4 DEF RequestFields
<1> HIDE DEF a, b
<1>6. b.status \in Outcomes /\ LateEnough(b, hour) /\ b.status \notin Decisions
  BY <1>5, ActionSets DEF LateEnough
<1>7. Grown(trail[r], trail'[r], b.status, "system")
  BY <1>3, <1>5
<1>8. RequestKept(b, trail'[r], task[r], hour)
  BY <1>2, <1>5, <1>6, <1>7, OutcomeEntry
<1>9. task' = [task EXCEPT ![r] = task'[r]] /\ task'[r] = task[r]
  BY <1>1 DEF ApprovalInv
<1> QED BY <1>1, <1>3, <1>8, <1>9, OneRequest DEF b

LEMMA ReadKeeps ==
  ASSUME ApprovalInv, NEW r \in Requests, NEW user, MarkRead(r, user)
  PROVE  ApprovalInv'
<1> DEFINE a == approvals[r]
           b == approvals'[r]
<1>1. approvals' = [approvals EXCEPT ![r] = b] /\ b = [a EXCEPT !.reads = a.reads + 1]
      /\ UNCHANGED <<task, hour>> /\ a # NoRequest
  BY DEF MarkRead, ApprovalInv
<1>2. RequestKept(a, trail[r], task[r], hour)
  BY DEF ApprovalInv
<1>3. trail' = [trail EXCEPT ![r] = trail'[r]] /\ Grown(trail[r], trail'[r], "read_received", user)
  BY Logged DEF MarkRead
<1>4. DOMAIN a = RequestFields
  BY <1>1, <1>2 DEF RequestKept, RequestTyped
<1>5. /\ DOMAIN b = DOMAIN a /\ b.status = a.status /\ b.approvers = a.approvers
      /\ b.channel = a.channel /\ b.expires = a.expires /\ b.notification_ids = a.notification_ids
      /\ b.decision_by = a.decision_by
  BY <1>1, <1>4 DEF RequestFields
<1> HIDE DEF a, b
<1>8. RequestKept(b, trail'[r], task[r], hour)
  BY <1>1, <1>2, <1>3, <1>5, PlainEntry
<1>9. task' = [task EXCEPT ![r] = task'[r]] /\ task'[r] = task[r]
  BY <1>1 DEF ApprovalInv
<1> QED BY <1>1, <1>3, <1>8, <1>9, OneRequest DEF b

LEMMA TimeoutKeeps == ASSUME ApprovalInv, CheckTimeout PROVE ApprovalInv'
<1> USE DEF CheckTimeout
<1>1. /\ approvals' = [r \in Requests |-> approvals'[r]] /\ trail' = [r \in Requests |-> trail'[r]]
      /\ UNCHANGED <<task, hour>> /\ task = [r \in Requests |-> task[r]] /\ hour \in 0..MaxClock
  BY DEF ApprovalInv
<1>2. ASSUME NEW r \in Requests PROVE RequestKept(approvals'[r], trail'[r], task[r], hour)
  <2> DEFINE a == approvals[r]
             b == approvals'[r]
  <2>1. RequestKept(a, trail[r], task[r], hour)
    BY DEF ApprovalInv
  <2>2. CASE r \notin ExpiredRequests
    BY <2>1, <2>2
  <2>3. CASE r \in ExpiredRequests
    <3>1. a.status = "pending" /\ hour > a.expires
      BY <2>3 DEF ExpiredRequests, IsPending
    <3>2. /\ b = [a EXCEPT !.status = "timed_out"]
          /\ trail'[r] = Append(trail[r], [action |-> "timed_out", actor |-> "system"])
      BY <2>3
    <3>3. DOMAIN a = RequestFields /\ Listing(trail[r])
      BY <2>1, <3>1 DEF RequestKept, RequestTyped, NoRequest
    <3>4. /\ DOMAIN b = DOMAIN a /\ b.status = "timed_out" /\ b.approvers = a.approvers
          /\ b.channel = a.channel /\ b.expires = a.expires /\ b.notification_ids = a.notification_ids
      BY <3>2, <3>3 DEF RequestFields
    <3>5. Grown(trail[r], trail'[r], "timed_out", "system")
      BY <3>2, <3>3, EntryAdded
    <3> HIDE DEF a, b
    <3>6. b.status \in Outcomes /\ LateEnough(b, hour) /\ b.status \notin Decisions
      BY <3>1, <3>4, ActionSets DEF LateEnough
    <3>7. Grown(trail[r], trail'[r], b.status, "system")
      BY <3>4, <3>5
    <3>8. RequestKept(b, trail'[r], task[r], hour)
      BY <2>1, <3>1, <3>4, <3>6, <3>7, OutcomeEntry
    <3> QED BY <3>8 DEF b
  <2> QED BY <2>2, <2>3
<1> QED BY <1>1, <1>2 DEF ApprovalInv

LEMMA AnnouncedKeeps ==
  ASSUME ApprovalInv, NEW r \in Requests, NEW ids, task[r].on # "none", Announced(r, ids)
  PROVE  ApprovalInv'
<1> DEFINE a == approvals[r]
           b == approvals'[r]
<1>1. /\ approvals' = [approvals EXCEPT ![r] = b] /\ b = [a EXCEPT !.notification_ids = a.notification_ids \cup ids]
      /\ task' = [task EXCEPT ![r] = NoTask] /\ task'[r] = NoTask /\ UNCHANGED hour
  BY DEF Announced, ApprovalInv
<1>2. RequestKept(a, trail[r], task[r], hour)
  BY DEF ApprovalInv
<1>3. trail' = [trail EXCEPT ![r] = trail'[r]] /\ Grown(trail[r], trail'[r], SentEntry[task[r].on], "system")
  BY Logged DEF Announced
<1>4. DOMAIN a = RequestFields
  BY <1>2, TaskRuns DEF RequestTyped
<1>5. /\ DOMAIN b = DOMAIN a /\ b.status = a.status /\ b.approvers = a.approvers
      /\ b.channel = a.channel /\ b.expires = a.expires /\ b.decision_by = a.decision_by
  BY <1>1, <1>4 DEF RequestFields
<1> HIDE DEF a, b
<1>6. RequestKept(b, trail'[r], NoTask, hour)
  BY <1>2, <1>3, <1>5, SentKeeps
<1> QED BY <1>1, <1>3, <1>6, OneRequest DEF b

LEMMA NotAnnouncedKeeps ==
  ASSUME ApprovalInv, NEW r \in Requests, task[r].on # "none", NotAnnounced(r),
         task[r].on = "webhook" => task[r].n + 1 >= MAX_WEBHOOK_RETRIES
  PROVE  ApprovalInv'
<1>1. task' = [task EXCEPT ![r] = NoTask] /\ task'[r] = NoTask /\ UNCHANGED <<approvals, hour>>
  BY DEF NotAnnounced, ApprovalInv
<1>2. RequestKept(approvals[r], trail[r], task[r], hour)
  BY DEF ApprovalInv
<1>3. trail' = [trail EXCEPT ![r] = trail'[r]] /\ Grown(trail[r], trail'[r], FailedEntry[task[r].on], "system")
  BY Logged DEF NotAnnounced
<1>4. RequestKept(approvals[r], trail'[r], NoTask, hour)
  BY <1>2, <1>3, FailedKeeps
<1>5. approvals' = [approvals EXCEPT ![r] = approvals'[r]] /\ approvals'[r] = approvals[r]
  BY <1>1 DEF ApprovalInv
<1> QED BY <1>1, <1>3, <1>4, <1>5, OneRequest

LEMMA NotifyKeeps ==
  ASSUME ApprovalInv, NEW r \in Requests, NotifyStep(r)
  PROVE  ApprovalInv'
<1> DEFINE t == task[r]
           w == [t EXCEPT !.n = t.n + 1]
<1>1. RequestKept(approvals[r], trail[r], t, hour)
  BY DEF ApprovalInv
<1>2. approvals = [q \in Requests |-> approvals[q]] /\ trail = [q \in Requests |-> trail[q]]
      /\ task = [q \in Requests |-> task[q]]
  BY DEF ApprovalInv
<1>3. CASE SendWebhookWithRetry(r)
  <2>1. t.on = "webhook" /\ t.n \in Nat
    BY <1>1, <1>3 DEF SendWebhookWithRetry, RequestKept, TaskTyped
  <2>2. CASE Announced(r, {"webhook"})
    BY <2>1, <2>2, AnnouncedKeeps
  <2>3. CASE WebhookError(r) /\ t.n + 1 < MAX_WEBHOOK_RETRIES
    <3>1. LogAudit(r, "webhook_retry", "system") /\ task' = [task EXCEPT ![r] = w] /\ UNCHANGED <<approvals, hour>>
      BY <2>3 DEF WebhookError
    <3>2. trail' = [trail EXCEPT ![r] = trail'[r]] /\ Grown(trail[r], trail'[r], "webhook_retry", "system")
      BY <3>1, Logged
    <3>3. RequestKept(approvals[r], trail'[r], w, hour)
      BY <1>1, <2>1, <2>3, <3>2, RetryKeeps
    <3>4. /\ approvals' = [approvals EXCEPT ![r] = approvals'[r]] /\ approvals'[r] = approvals[r]
          /\ task' = [task EXCEPT ![r] = task'[r]] /\ task'[r] = w
      BY <1>2, <3>1
    <3> QED BY <3>1, <3>2, <3>3, <3>4, OneRequest
  <2>4. CASE WebhookError(r) /\ ~(t.n + 1 < MAX_WEBHOOK_RETRIES)
    <3>1. NotAnnounced(r)
      BY <2>4 DEF WebhookError
    <3>2. t.n + 1 >= MAX_WEBHOOK_RETRIES
      BY <2>1, <2>4, ApprovalConstants
    <3> QED BY <2>1, <3>1, <3>2, NotAnnouncedKeeps
  <2> QED BY <1>3, <2>2, <2>3, <2>4 DEF SendWebhookWithRetry
<1>4. CASE SendEmail(r)
  BY <1>4, AnnouncedKeeps, NotAnnouncedKeeps DEF SendEmail
<1>5. CASE SendInApp(r)
  <2>1. t.on = "in_app"
    BY <1>5 DEF SendInApp
  <2>2. CASE t.n < Cardinality(approvals[r].approvers) /\ task' = [task EXCEPT ![r] = w]
             /\ UNCHANGED <<approvals, trail, hour>>
    <3>1. /\ Listing(trail[r]) /\ approvals[r] # NoRequest /\ RequestTyped(approvals[r], t) /\ TaskTyped(t)
          /\ NoticeTold(approvals[r], trail[r], t)
      BY <1>1, <2>1, TaskRuns
    <3>2. OutcomeTold(approvals[r], trail[r]) /\ LateEnough(approvals[r], hour)
      BY <1>1, <3>1 DEF RequestKept
    <3>3. w.on = "in_app" /\ w.n = t.n + 1 /\ DOMAIN w = {"on", "n"} /\ w.n \in Nat
      BY <2>1, <3>1 DEF TaskTyped
    <3>4. Cardinality(approvals[r].approvers) \in Nat
      BY <3>1, ApprovalConstants, FS_Subset, FS_CardinalityType DEF RequestTyped
    <3> DEFINE a == approvals[r]
    <3> HIDE DEF a
    <3>5. w.n <= Cardinality(a.approvers)
      BY <2>2, <3>3, <3>4, <3>1 DEF TaskTyped, a
    <3> HIDE DEF w
    <3>6. TaskTyped(w)
      BY <3>3 DEF TaskTyped
    <3>7. RequestTyped(a, w)
      BY <2>1, <3>1, <3>3, <3>5 DEF RequestTyped, a
    <3>8. NoticeTold(a, trail[r], w)
      BY <2>1, <3>1, <3>3 DEF NoticeTold, a
    <3>9. RequestKept(a, trail[r], w, hour)
      BY <3>1, <3>2, <3>6, <3>7, <3>8 DEF RequestKept, a
    <3>10. /\ approvals' = [approvals EXCEPT ![r] = approvals'[r]] /\ approvals'[r] = approvals[r]
           /\ trail' = [trail EXCEPT ![r] = trail'[r]] /\ trail'[r] = trail[r]
           /\ task' = [task EXCEPT ![r] = task'[r]] /\ task'[r] = w
      BY <1>2, <2>2
    <3> QED BY <2>2, <3>9, <3>10, OneRequest DEF a
  <2>3. CASE Announced(r, approvals[r].approvers)
    BY <2>1, <2>3, AnnouncedKeeps
  <2>4. CASE NotAnnounced(r)
    BY <2>1, <2>4, NotAnnouncedKeeps
  <2> QED BY <1>5, <2>2, <2>3, <2>4 DEF SendInApp
<1> QED BY <1>3, <1>4, <1>5 DEF NotifyStep

LEMMA ApprovalKeeps == ApprovalInv /\ (ApprovalNext \/ UNCHANGED approvalVars) => ApprovalInv'
<1> SUFFICES ASSUME ApprovalInv, ApprovalNext \/ UNCHANGED approvalVars PROVE ApprovalInv'
  OBVIOUS
<1>1. CASE UNCHANGED approvalVars
  BY <1>1 DEF approvalVars, ApprovalInv
<1>2. CASE HourPasses
  <2>1. hour' \in 0..MaxClock /\ hour' > hour /\ hour \in Nat /\ UNCHANGED <<approvals, trail, task>>
    BY <1>2, ApprovalConstants DEF HourPasses, ApprovalInv
  <2>2. ASSUME NEW r \in Requests PROVE RequestKept(approvals[r], trail[r], task[r], hour')
    <3> DEFINE a == approvals[r]
    <3>1. RequestKept(a, trail[r], task[r], hour)
      BY DEF ApprovalInv
    <3>2. CASE a = NoRequest
      BY <3>1, <3>2 DEF RequestKept
    <3>3. CASE a # NoRequest
      <4>1. /\ RequestTyped(a, task[r]) /\ OutcomeTold(a, trail[r]) /\ LateEnough(a, hour)
            /\ NoticeTold(a, trail[r], task[r]) /\ Listing(trail[r]) /\ TaskTyped(task[r])
        BY <3>1, <3>3 DEF RequestKept
      <4>2. a.expires \in Nat
        BY <4>1 DEF RequestTyped
      <4> HIDE DEF a
      <4>3. LateEnough(a, hour')
        BY <2>1, <4>1, <4>2 DEF LateEnough
      <4> QED BY <3>3, <4>1, <4>3 DEF RequestKept, a
    <3> QED BY <3>2, <3>3
  <2> QED BY <2>1, <2>2 DEF ApprovalInv
<1>3. ASSUME NEW r \in Requests, NEW approvers \in SUBSET Users, NEW channel \in Channels,
             NEW url \in BOOLEAN, NEW hours \in TimeoutHours,
             CreateApprovalRequest(r, approvers, channel, url, hours)
      PROVE  ApprovalInv'
  BY <1>3, CreateRequestKeeps
<1>4. ASSUME NEW r \in Requests, NEW user \in Users, NEW decision \in Decisions, Decide(r, user, decision)
      PROVE  ApprovalInv'
  BY <1>4, DecideKeeps
<1>5. ASSUME NEW r \in Requests, NEW user \in Users, MarkRead(r, user) PROVE ApprovalInv'
  BY <1>5, ReadKeeps
<1>6. ASSUME NEW r \in Requests, CancelRequest(r) \/ NotifyStep(r) PROVE ApprovalInv'
  BY <1>6, CancelKeeps, NotifyKeeps
<1>7. CASE CheckTimeout
  BY <1>7, TimeoutKeeps
<1> QED BY <1>1, <1>2, <1>3, <1>4, <1>5, <1>6, <1>7 DEF ApprovalNext

LEMMA ApprovalHolds == ApprovalInv => ApprovalsAreAccountable
<1> SUFFICES ASSUME ApprovalInv PROVE ApprovalsAreAccountable
  OBVIOUS
<1>1. ASSUME NEW r \in Requests, NEW actions PROVE TrailEntries(r, actions) = Places(trail[r], actions)
  BY DEF TrailEntries, Places
<1>2. \A r \in Requests : RequestKept(approvals[r], trail[r], task[r], hour)
  BY DEF ApprovalInv
<1>3. "none" \notin Channels /\ NoTask.on = "none" /\ NoTask.n = 0 /\ NoRequest.status = "none"
      /\ "none" \notin Outcomes
  BY ActionSets DEF Channels, NoTask, NoRequest
<1>4. ApprovalTypeOK
  <2>1. ASSUME NEW r \in Requests
        PROVE  /\ task[r].on \in Channels \cup {"none"}
               /\ task[r].n \in 0..(IF task[r].on = "webhook" THEN MAX_WEBHOOK_RETRIES - 1 ELSE Cardinality(Users))
               /\ approvals[r] # NoRequest =>
                     /\ approvals[r].status \in Outcomes \cup {"pending"}
                     /\ approvals[r].expires \in Nat /\ approvals[r].approvers \subseteq Users
    <3> DEFINE t == task[r]
               a == approvals[r]
    <3>1. Cardinality(Users) \in Nat
      BY ApprovalConstants, FS_CardinalityType
    <3>2. RequestKept(a, trail[r], t, hour)
      BY <1>2
    <3>3. CASE a = NoRequest
      <4>1. t = NoTask
        BY <3>2, <3>3 DEF RequestKept
      <4> HIDE DEF t, a
      <4>2. t.on = "none" /\ t.n = 0
        BY <1>3, <4>1
      <4> QED BY <3>1, <3>3, <4>2 DEF t, a
    <3>4. CASE a # NoRequest
      <4>1. RequestTyped(a, t) /\ TaskTyped(t)
        BY <3>2, <3>4 DEF RequestKept
      <4>2. Cardinality(a.approvers) <= Cardinality(Users) /\ Cardinality(a.approvers) \in Nat
        BY <4>1, ApprovalConstants, FS_Subset, FS_CardinalityType DEF RequestTyped
      <4> HIDE DEF t, a
      <4>3. t.on \in {"none", "webhook", "email", "in_app"} /\ t.n \in Nat
        BY <4>1 DEF RequestTyped, TaskTyped, Channels
      <4>4. t.on = "none" => t.n = 0
        BY <1>3, <4>1 DEF TaskTyped
      <4>5. /\ t.on = "webhook" => t.n < MAX_WEBHOOK_RETRIES
            /\ t.on = "in_app" => t.n <= Cardinality(a.approvers)
            /\ t.on = "email" => t.n = 0
        BY <4>1 DEF RequestTyped
      <4>6. t.n \in 0..(IF t.on = "webhook" THEN MAX_WEBHOOK_RETRIES - 1 ELSE Cardinality(Users))
        BY <3>1, <4>2, <4>3, <4>4, <4>5, ApprovalConstants
      <4>7. t.on \in Channels \cup {"none"}
        BY <4>3 DEF Channels
      <4> QED BY <4>1, <4>6, <4>7 DEF RequestTyped, t, a
    <3> QED BY <3>3, <3>4
  <2> QED BY <2>1 DEF ApprovalTypeOK, ApprovalInv
<1>5. TrailNamesOneOutcome
  <2> SUFFICES ASSUME NEW r \in Requests
               PROVE  LET outcomes == Places(trail[r], Outcomes)
                      IN  IF approvals[r].status \in Outcomes
                          THEN \E i \in outcomes :
                                 /\ outcomes = {i} /\ trail[r][i].action = approvals[r].status
                                 /\ approvals[r].status \in Decisions =>
                                      /\ trail[r][i].actor = approvals[r].decision_by
                                      /\ approvals[r].decision_by \in approvals[r].approvers
                          ELSE outcomes = {}
    BY <1>1 DEF TrailNamesOneOutcome
  <2>1. CASE approvals[r] = NoRequest
    <3>1. trail[r] = <<>> /\ approvals[r].status \notin Outcomes
      BY <1>2, <1>3, <2>1 DEF RequestKept
    <3>2. Places(<<>>, Outcomes) = {}
      BY DEF Places
    <3> QED BY <3>1, <3>2
  <2>2. CASE approvals[r] # NoRequest
    <3>1. OutcomeTold(approvals[r], trail[r])
      BY <1>2, <2>2 DEF RequestKept
    <3> QED BY <3>1 DEF OutcomeTold
  <2> QED BY <2>1, <2>2
<1>6. TimeoutIsLate
  <2> SUFFICES ASSUME NEW r \in Requests, approvals[r].status = "timed_out" PROVE hour > approvals[r].expires
    BY DEF TimeoutIsLate
  <2>1. approvals[r] # NoRequest
    BY <1>3
  <2>2. LateEnough(approvals[r], hour)
    BY <1>2, <2>1 DEF RequestKept
  <2> QED BY <2>2 DEF LateEnough
<1>7. TrailTellsNotification
  <2> SUFFICES ASSUME NEW r \in Requests
               PROVE  LET sent == Places(trail[r], Sent)
                          failed == Places(trail[r], Failed)
                          retries == Cardinality(Places(trail[r], Retry))
                      IN  /\ Cardinality(sent \cup failed) <= 1
                          /\ approvals[r] # NoRequest /\ task[r] = NoTask /\ approvals[r].channel # "webhook"
                                => sent \cup failed # {}
                          /\ approvals[r] # NoRequest /\ approvals[r].notification_ids # {} => sent # {}
                          /\ Places(trail[r], {"webhook_failed"}) # {} => retries = MAX_WEBHOOK_RETRIES - 1
                          /\ task[r].on = "webhook" => retries = task[r].n
    BY <1>1, ActionSets DEF TrailTellsNotification, Retry
  <2> DEFINE both == Places(trail[r], Sent) \cup Places(trail[r], Failed)
             a == approvals[r]
             s == trail[r]
             t == task[r]
  <2>0. Cardinality({}) = 0 /\ \A x : Cardinality({x}) = 1
    BY FS_EmptySet, FS_Singleton
  <2>1. CASE approvals[r] = NoRequest
    <3>1. trail[r] = <<>> /\ task[r] = NoTask /\ task[r].on = "none"
      BY <1>2, <1>3, <2>1 DEF RequestKept
    <3>2. \A A : Places(<<>>, A) = {}
      BY DEF Places
    <3> QED BY <2>0, <2>1, <3>1, <3>2
  <2>2. CASE approvals[r] # NoRequest
    <3>1. NoticeTold(a, s, t)
      BY <1>2, <2>2 DEF RequestKept
    <3>2. Cardinality(both) <= 1
      <4>1. \A i, j \in both : i = j
        BY <3>1 DEF NoticeTold
      <4>2. CASE both = {}
        BY <2>0, <4>2
      <4>3. CASE both # {}
        <5>1. PICK i : i \in both
          BY <4>3
        <5>2. both = {i}
          BY <4>1, <5>1
        <5> QED BY <2>0, <5>2
      <4> QED BY <4>2, <4>3
    <3> HIDE DEF a, s, t
    <3>3. t = NoTask => t.on = "none"
      BY <1>3
    <3>4. /\ t.on = "none" /\ a.channel # "webhook" => Places(s, Sent) # {} \/ Places(s, Failed) # {}
          /\ a.notification_ids # {} => Places(s, Sent) # {}
          /\ Places(s, {"webhook_failed"}) # {} => Cardinality(Places(s, Retry)) = MAX_WEBHOOK_RETRIES - 1
          /\ t.on = "webhook" => Cardinality(Places(s, Retry)) = t.n
      BY <3>1 DEF NoticeTold
    <3> QED BY <3>2, <3>3, <3>4 DEF a, s, t
  <2> QED BY <2>1, <2>2
<1> QED BY <1>4, <1>5, <1>6, <1>7 DEF ApprovalsAreAccountable

(* The trail of every approval request names one outcome, which is its     *)
(* status and was taken by an approver or came late enough, and tells the  *)
(* truth about the announcement, for any number of requests and users and  *)
(* any number of webhook attempts.                                         *)
THEOREM ApprovalsAccountable == Spec => []ApprovalsAreAccountable
<1>1. Init => ApprovalInv
  BY ApprovalStart DEF Init
<1>2. ApprovalInv /\ [Next]_vars => ApprovalInv'
  BY PartSteps, ApprovalKeeps
<1> QED BY <1>1, <1>2, ApprovalHolds, PTL DEF Spec

-----------------------------------------------------------------------------
(* The loader of custom tools.  What is cached of a module is a tool and   *)
(* is what the interpreter runs; so a scan and an instantiation both see   *)
(* the code that was registered.                                           *)

IsTool(content) == content.kind = "tool"

CachedRight == \A m \in ModuleNames :
  /\ imported[m] = Missing \/ IsTool(imported[m])
  /\ module_cache[m] = Missing \/ (IsTool(module_cache[m]) /\ module_cache[m] = imported[m])

LoadedRight == \A t \in ToolNames : loaded[t] # NotLoaded =>
  /\ loaded[t].module \in ModuleNames
  /\ IsTool(loaded[t].content) /\ loaded[t].content = imported[loaded[t].module]
  /\ loaded[t].content.tool = t /\ loaded[t].content.valid

ServedRight == \A i \in instances :
  /\ i.tool \in ToolNames /\ loaded[i.tool] # NotLoaded
  /\ i.made # Missing => i.made = loaded[i.tool].content

LoaderInv ==
  /\ disk \in [ModuleNames -> Contents] /\ edits \in 0..MaxEdits
  /\ imported = [m \in ModuleNames |-> imported[m]] /\ module_cache = [m \in ModuleNames |-> module_cache[m]]
  /\ loaded = [t \in ToolNames |-> loaded[t]]
  /\ CachedRight /\ LoadedRight /\ ServedRight

LEMMA LoaderStart == LoaderInit => LoaderInv
<1> SUFFICES ASSUME LoaderInit PROVE LoaderInv
  OBVIOUS
<1>1. Missing \in Contents
  BY DEF Contents
<1> QED BY <1>1, LoaderConstants DEF LoaderInit, LoaderInv, CachedRight, LoadedRight, ServedRight

LEMMA EditFileKeeps ==
  ASSUME LoaderInv, NEW m \in ModuleNames, NEW content \in Contents, EditFile(m, content)
  PROVE  LoaderInv'
<1>1. disk' \in [ModuleNames -> Contents]
  BY DEF EditFile, LoaderInv
<1>2. edits' \in 0..MaxEdits
  BY LoaderConstants DEF EditFile, LoaderInv
<1>3. UNCHANGED <<imported, module_cache, loaded, instances>>
  BY DEF EditFile
<1> QED BY <1>1, <1>2, <1>3 DEF LoaderInv, CachedRight, LoadedRight, ServedRight

(* The last of the modules that define a tool. *)
LEMMA LastModule ==
  ASSUME NEW S \in SUBSET ModuleNames, S # {}
  PROVE  \E m \in S : \A n \in S : n <= m
<1> DEFINE N == Cardinality(ModuleNames)
<1>1. 1 \in Int /\ N \in Int /\ S \in SUBSET (1..N)
  BY LoaderConstants, FS_CardinalityType
<1> HIDE DEF N
<1> QED BY <1>1, GreatestElement

LEMMA ScanKeeps ==
  ASSUME LoaderInv, NEW cache, ScanWith(cache),
         cache = module_cache \/ cache = [m \in ModuleNames |-> Missing]
  PROVE  LoaderInv'
<1> DEFINE found == [m \in ModuleNames |-> IF disk[m] = Missing THEN Missing ELSE LoadModule(m, cache)]
           keep(old) == [m \in ModuleNames |-> IF found[m].kind = "tool" THEN found[m] ELSE old[m]]
           definers(t) == {m \in ModuleNames : Registers(found[m], t)}
<1>1. /\ module_cache' = keep(cache) /\ imported' = keep(imported) /\ instances' = {}
      /\ UNCHANGED <<disk, edits>>
      /\ loaded' = [t \in ToolNames |->
            IF definers(t) = {} THEN NotLoaded
            ELSE LET m == CHOOSE m \in definers(t) : \A n \in definers(t) : n <= m
                 IN  [module |-> m, content |-> found[m]]]
  BY DEF ScanWith, ClearedInstances
<1>2. \A m \in ModuleNames : cache[m] = Missing \/ (IsTool(cache[m]) /\ cache[m] = imported[m])
  BY DEF LoaderInv, CachedRight
<1>3. \A m \in ModuleNames : imported[m] = Missing \/ IsTool(imported[m])
  BY DEF LoaderInv, CachedRight
<1>4. Missing.kind = "missing"
  BY DEF Missing
<1> HIDE DEF found
<1>5. ASSUME NEW m \in ModuleNames
      PROVE  /\ imported'[m] = IF IsTool(found[m]) THEN found[m] ELSE imported[m]
             /\ module_cache'[m] = IF IsTool(found[m]) THEN found[m] ELSE cache[m]
  BY <1>1 DEF IsTool
<1>6. CachedRight'
  BY <1>2, <1>3, <1>5 DEF CachedRight
<1>7. ASSUME NEW t \in ToolNames, loaded'[t] # NotLoaded
      PROVE  /\ loaded'[t].module \in ModuleNames
             /\ IsTool(loaded'[t].content) /\ loaded'[t].content = imported'[loaded'[t].module]
             /\ loaded'[t].content.tool = t /\ loaded'[t].content.valid
  <2> DEFINE D == definers(t)
             last == CHOOSE m \in D : \A n \in D : n <= m
  <2>1. D # {} /\ loaded'[t] = [module |-> last, content |-> found[last]]
    BY <1>1, <1>7
  <2>2. D \in SUBSET ModuleNames
    OBVIOUS
  <2>3. \E m \in D : \A n \in D : n <= m
    BY <2>1, <2>2, LastModule
  <2>4. last \in D
    BY <2>3
  <2> HIDE DEF last
  <2>5. last \in ModuleNames /\ Registers(found[last], t)
    BY <2>4
  <2>6. IsTool(found[last]) /\ found[last].tool = t /\ found[last].valid
    BY <2>5 DEF Registers, IsTool
  <2>7. imported'[last] = found[last]
    BY <1>5, <2>5, <2>6
  <2>8. loaded'[t].module = last /\ loaded'[t].content = found[last]
    BY <2>1
  <2> QED BY <2>5, <2>6, <2>7, <2>8
<1>8. LoadedRight'
  BY <1>7 DEF LoadedRight
<1>9. ServedRight'
  BY <1>1 DEF ServedRight
<1>10. /\ imported' = [m \in ModuleNames |-> imported'[m]] /\ module_cache' = [m \in ModuleNames |-> module_cache'[m]]
       /\ loaded' = [t \in ToolNames |-> loaded'[t]]
  <2>1. imported' = [m \in ModuleNames |-> imported'[m]] /\ module_cache' = [m \in ModuleNames |-> module_cache'[m]]
    BY <1>1
  <2>2. loaded' = [t \in ToolNames |-> loaded'[t]]
    BY <1>1
  <2> QED BY <2>1, <2>2
<1> QED BY <1>1, <1>6, <1>8, <1>9, <1>10 DEF LoaderInv

LEMMA InstanceKeeps ==
  ASSUME LoaderInv, NEW t \in ToolNames, NEW tenant, GetToolInstance(t, tenant)
  PROVE  LoaderInv'
<1> DEFINE content == Import(loaded[t].module)
           made == IF content.kind = "tool" /\ content.builds THEN content ELSE Missing
           i == [tool |-> t, tenant |-> tenant, made |-> made]
<1>1. instances' = instances \cup {i} /\ UNCHANGED <<disk, imported, module_cache, loaded, edits>>
      /\ loaded[t] # NotLoaded
  BY DEF GetToolInstance
<1>2. IsTool(loaded[t].content) /\ loaded[t].content = imported[loaded[t].module]
  BY <1>1 DEF LoaderInv, LoadedRight
<1>3. imported[loaded[t].module] # Missing
  BY <1>2 DEF IsTool, Missing
<1>4. content = loaded[t].content
  BY <1>2, <1>3 DEF Import
<1>5. i.tool = t /\ (i.made # Missing => i.made = loaded[t].content)
  BY <1>4
<1> HIDE DEF i
<1>6. ServedRight'
  BY <1>1, <1>5 DEF ServedRight, LoaderInv
<1> QED BY <1>1, <1>6 DEF LoaderInv, CachedRight, LoadedRight

LEMMA ValidateToolKeeps ==
  ASSUME LoaderInv, NEW m \in ModuleNames, ValidateTool(m)
  PROVE  LoaderInv'
<1>1. /\ IsTool(Import(m)) /\ imported[m] # Import(m) /\ imported' = [imported EXCEPT ![m] = Import(m)]
      /\ UNCHANGED <<disk, module_cache, loaded, instances, edits>>
  BY DEF ValidateTool, IsTool
<1>2. imported[m] = Missing
  BY <1>1 DEF Import
<1> DEFINE new == Import(m)
<1> HIDE DEF new
<1>3. imported' = [n \in ModuleNames |-> imported'[n]]
      /\ \A n \in ModuleNames : imported'[n] = IF n = m THEN new ELSE imported[n]
  BY <1>1 DEF LoaderInv, new
<1>4. IsTool(new) /\ ~IsTool(Missing)
  BY <1>1 DEF new, IsTool, Missing
<1>5. CachedRight'
  BY <1>1, <1>2, <1>3, <1>4 DEF CachedRight, LoaderInv
<1>6. LoadedRight'
  <2> SUFFICES ASSUME NEW t \in ToolNames, loaded[t] # NotLoaded
               PROVE  /\ loaded[t].module \in ModuleNames
                      /\ IsTool(loaded[t].content) /\ loaded[t].content = imported'[loaded[t].module]
                      /\ loaded[t].content.tool = t /\ loaded[t].content.valid
    BY <1>1 DEF LoadedRight
  <2>1. /\ loaded[t].module \in ModuleNames
        /\ IsTool(loaded[t].content) /\ loaded[t].content = imported[loaded[t].module]
        /\ loaded[t].content.tool = t /\ loaded[t].content.valid
    BY DEF LoaderInv, LoadedRight
  <2>2. loaded[t].module # m
    BY <1>2, <1>4, <2>1
  <2> QED BY <1>3, <2>1, <2>2
<1> QED BY <1>1, <1>3, <1>5, <1>6 DEF LoaderInv, ServedRight

LEMMA LoaderKeeps == LoaderInv /\ (LoaderNext \/ UNCHANGED loaderVars) => LoaderInv'
<1> SUFFICES ASSUME LoaderInv, LoaderNext \/ UNCHANGED loaderVars PROVE LoaderInv'
  OBVIOUS
<1>1. CASE UNCHANGED loaderVars
  BY <1>1 DEF loaderVars, LoaderInv, CachedRight, LoadedRight, ServedRight
<1>2. CASE Scan \/ Reload
  BY <1>2, ScanKeeps DEF Scan, Reload
<1> QED BY <1>1, <1>2, EditFileKeeps, InstanceKeeps, ValidateToolKeeps DEF LoaderNext

LEMMA LoaderHolds == LoaderInv => LoaderTypeOK /\ CachesAgree /\ InstancesServeLoadedTools
<1> SUFFICES ASSUME LoaderInv PROVE LoaderTypeOK /\ CachesAgree /\ InstancesServeLoadedTools
  OBVIOUS
<1>1. Missing.kind = "missing"
  BY DEF Missing
<1>2. LoaderTypeOK
  BY <1>1 DEF LoaderInv, LoaderTypeOK, CachedRight, LoadedRight, IsTool
<1>3. CachesAgree
  BY DEF LoaderInv, CachesAgree, CachedRight, LoadedRight
<1>4. InstancesServeLoadedTools
  BY DEF LoaderInv, InstancesServeLoadedTools, ServedRight
<1> QED BY <1>2, <1>3, <1>4

-----------------------------------------------------------------------------
(* Triggered workflows.  A call owns nothing before its POST is accepted,  *)
(* holds an execution of its own while it polls, and has no answer before  *)
(* it is done; an owner is never replaced and a final status never left.   *)

CallPlaces == {"idle", "info", "find", "post", "poll", "sleep", "done"}
Refusals == {"ACCESS_DENIED", "MISSING_PARAMS", "INVALID_PARAMS", "NOT_FOUND"}

CallShape(r) ==
  /\ DOMAIN r = {"pc", "sync", "left", "every", "execution", "answer"}
  /\ DOMAIN r.execution = {"id", "status"}
  /\ r.pc \in CallPlaces /\ r.left \in 0..MAX_TIMEOUT /\ r.every \in Nat

OwnsNothing(c) == \A e \in Executions : owner[e] # c

WaitsForOwn(c) ==
  /\ call[c].sync /\ call[c].execution.id \in Executions /\ owner[call[c].execution.id] = c

ToldOfOwn(c, execution) ==
  execution.id # "none" =>
     /\ execution.id \in Executions /\ owner[execution.id] = c
     /\ execution.status \in {"success", "cancelled"} => service[execution.id] = execution.status

AnotherOwns(c) == \E e \in Executions : owner[e] \notin {c, Nobody}

ToldTruly(c, answer) ==
  /\ ToldOfOwn(c, answer.execution)
  /\ answer.code \in Refusals => OwnsNothing(c)
  /\ answer.success /\ answer.execution = NoExecution => AnotherOwns(c)

CallKept(c) ==
  /\ CallShape(call[c])
  /\ call[c].pc \in {"poll", "sleep"} => WaitsForOwn(c)
  /\ call[c].pc \in {"idle", "info", "find", "post"} => OwnsNothing(c)
  /\ call[c].pc # "done" => call[c].answer = NoAnswer
  /\ ToldTruly(c, call[c].answer)

ServiceKept ==
  /\ owner = [e \in Executions |-> owner[e]] /\ service = [e \in Executions |-> service[e]]
  /\ \A e \in Executions : /\ service[e] \in Final \cup {"none", "running"}
                           /\ owner[e] = Nobody <=> service[e] = "none"

TriggerInv ==
  /\ call = [c \in Calls |-> call[c]] /\ ServiceKept
  /\ \A c \in Calls : CallKept(c)

(* What a call was told and what it holds stays true when executions get owners and end. *)
ServiceMoves(c) ==
  \A e \in Executions :
    /\ owner[e] # Nobody => owner'[e] = owner[e]
    /\ owner'[e] \in {owner[e], c}
    /\ service[e] \in Final => service'[e] = service[e]

LEMMA NoAnswerTrue == ASSUME NEW c PROVE ToldTruly(c, NoAnswer)
BY DEF ToldTruly, ToldOfOwn, NoAnswer, NoExecution, Refusals

LEMMA TriggerStart == TriggerInit => TriggerInv
<1> SUFFICES ASSUME TriggerInit PROVE TriggerInv
  OBVIOUS
<1>1. call = [c \in Calls |-> IdleCall] /\ service = [e \in Executions |-> "none"] /\ owner = [e \in Executions |-> Nobody]
  BY DEF TriggerInit
<1>2. ServiceKept
  BY <1>1 DEF ServiceKept
<1>3. CallShape(IdleCall) /\ IdleCall.pc = "idle" /\ IdleCall.answer = NoAnswer
  BY TriggerConstants DEF CallShape, IdleCall, CallPlaces, NoExecution
<1>4. ASSUME NEW c \in Calls PROVE CallKept(c)
  <2>1. call[c] = IdleCall
    BY <1>1
  <2>2. OwnsNothing(c)
    BY <1>1, TriggerConstants DEF OwnsNothing, Nobody
  <2> QED BY <1>3, <2>1, <2>2, NoAnswerTrue DEF CallKept
<1> QED BY <1>1, <1>2, <1>4 DEF TriggerInv

LEMMA OtherCallKept ==
  ASSUME TriggerInv, NEW c, NEW d \in Calls, d # c, call'[d] = call[d], ServiceMoves(c)
  PROVE  CallKept(d)'
<1>1. CallKept(d) /\ d # Nobody
  BY TriggerConstants DEF TriggerInv, Nobody
<1> DEFINE r == call[d]
<1>2. WaitsForOwn(d) => WaitsForOwn(d)'
  BY <1>1 DEF WaitsForOwn, ServiceMoves
<1>3. OwnsNothing(d) => OwnsNothing(d)'
  BY DEF OwnsNothing, ServiceMoves
<1>4. AnotherOwns(d) => AnotherOwns(d)'
  BY DEF AnotherOwns, ServiceMoves
<1>5. ASSUME NEW x, ToldOfOwn(d, x) PROVE ToldOfOwn(d, x)'
  BY <1>1, <1>5 DEF ToldOfOwn, ServiceMoves, Final
<1>6. ToldTruly(d, call[d].answer)'
  <2>1. ToldTruly(d, call[d].answer)
    BY <1>1 DEF CallKept
  <2> QED BY <1>3, <1>4, <1>5, <2>1 DEF ToldTruly
<1> QED BY <1>1, <1>2, <1>3, <1>6 DEF CallKept

(* A step of call c: the others stay as they are, so c itself is left to see to. *)
LEMMA CallMoves ==
  ASSUME TriggerInv, NEW c \in Calls, ServiceMoves(c), ServiceKept', call' = [d \in Calls |-> call'[d]],
         \A d \in Calls : d # c => call'[d] = call[d], CallKept(c)'
  PROVE  TriggerInv'
BY OtherCallKept DEF TriggerInv

LEMMA StillMoves ==
  ASSUME TriggerInv, UNCHANGED <<service, owner>>, NEW c
  PROVE  ServiceMoves(c) /\ ServiceKept'
BY DEF TriggerInv, ServiceKept, ServiceMoves

AnswerOf(success, code, execution) == [success |-> success, code |-> code, execution |-> execution]

LEMMA DoneFields ==
  ASSUME TriggerInv, NEW c \in Calls, NEW a, call' = [call EXCEPT ![c].pc = "done", ![c].answer = a]
  PROVE  /\ call' = [d \in Calls |-> call'[d]] /\ \A d \in Calls : d # c => call'[d] = call[d]
         /\ CallShape(call'[c]) /\ call'[c].pc = "done" /\ call'[c].answer = a
<1>1. CallShape(call[c]) /\ call = [d \in Calls |-> call[d]]
  BY DEF TriggerInv, CallKept
<1>2. call' = [d \in Calls |-> call'[d]] /\ \A d \in Calls : d # c => call'[d] = call[d]
  BY <1>1
<1>3. call'[c] = [call[c] EXCEPT !.pc = "done", !.answer = a]
  BY <1>1
<1> HIDE DEF CallShape
<1> QED BY <1>1, <1>2, <1>3 DEF CallShape, CallPlaces

(* A call ends: its answer has to be true when the step is taken. *)
LEMMA AnswerKeeps ==
  ASSUME TriggerInv, NEW c \in Calls, NEW a, call' = [call EXCEPT ![c].pc = "done", ![c].answer = a],
         ServiceMoves(c), ServiceKept', ToldTruly(c, a)'
  PROVE  TriggerInv'
<1>1. /\ call' = [d \in Calls |-> call'[d]] /\ \A d \in Calls : d # c => call'[d] = call[d]
      /\ CallShape(call'[c]) /\ call'[c].pc = "done" /\ call'[c].answer = a
  BY DoneFields
<1>2. CallKept(c)'
  BY <1>1 DEF CallKept
<1> QED BY <1>1, <1>2, CallMoves

LEMMA FailKeeps ==
  ASSUME TriggerInv, NEW c \in Calls, NEW code, Fail(c, code), ServiceMoves(c), ServiceKept',
         code \in Refusals => OwnsNothing(c)'
  PROVE  TriggerInv'
<1> DEFINE a == AnswerOf(FALSE, code, NoExecution)
<1>1. call' = [call EXCEPT ![c].pc = "done", ![c].answer = a]
  BY DEF Fail, AnswerOf
<1>2. ToldTruly(c, a)'
  BY DEF ToldTruly, ToldOfOwn, NoExecution, AnswerOf
<1> HIDE DEF a
<1> QED BY <1>1, <1>2, AnswerKeeps

LEMMA SucceedKeeps ==
  ASSUME TriggerInv, NEW c \in Calls, NEW x, Succeed(c, x), ServiceMoves(c), ServiceKept',
         ToldOfOwn(c, x)', x = NoExecution => AnotherOwns(c)'
  PROVE  TriggerInv'
<1> DEFINE a == AnswerOf(TRUE, "none", x)
<1>1. call' = [call EXCEPT ![c].pc = "done", ![c].answer = a]
  BY DEF Succeed, AnswerOf
<1>2. ToldTruly(c, a)'
  BY DEF ToldTruly, AnswerOf, Refusals
<1> HIDE DEF a
<1> QED BY <1>1, <1>2, AnswerKeeps

(* A call goes on to another place without an answer. *)
LEMMA GoesOn ==
  ASSUME TriggerInv, NEW c \in Calls, NEW r, call' = [call EXCEPT ![c] = r], ServiceMoves(c), ServiceKept',
         CallShape(r), r.pc # "done", r.answer = NoAnswer,
         r.pc \in {"poll", "sleep"} => r.sync /\ r.execution.id \in Executions /\ owner'[r.execution.id] = c,
         r.pc \in {"idle", "info", "find", "post"} => OwnsNothing(c)'
  PROVE  TriggerInv'
<1>1. call = [d \in Calls |-> call[d]]
  BY DEF TriggerInv
<1>2. /\ call' = [d \in Calls |-> call'[d]] /\ \A d \in Calls : d # c => call'[d] = call[d]
      /\ call'[c] = r
  BY <1>1
<1>3. CallKept(c)'
  <2>1. ToldTruly(c, NoAnswer)'
    BY DEF ToldTruly, ToldOfOwn, NoAnswer, NoExecution, Refusals
  <2>2. call'[c].pc \in {"poll", "sleep"} => WaitsForOwn(c)'
    BY <1>2 DEF WaitsForOwn
  <2> QED BY <1>2, <2>1, <2>2 DEF CallKept
<1> QED BY <1>2, <1>3, CallMoves

LEMMA ExecuteKeeps ==
  ASSUME TriggerInv, NEW c \in Calls, NEW sameTenant \in BOOLEAN, NEW by \in {"nothing", "code", "id"},
         NEW sync \in BOOLEAN, NEW timeout \in Timeouts, NEW every \in PollIntervals,
         Execute(c, sameTenant, by, sync, timeout, every)
  PROVE  TriggerInv'
<1>1. call[c].pc = "idle" /\ UNCHANGED <<service, owner>>
  BY DEF Execute
<1>2. ServiceMoves(c) /\ ServiceKept'
  BY <1>1, StillMoves
<1>3. OwnsNothing(c)'
  BY <1>1 DEF TriggerInv, CallKept, OwnsNothing
<1>4. CASE \E code : Fail(c, code)
  BY <1>2, <1>3, <1>4, FailKeeps
<1>5. CASE ~\E code : Fail(c, code)
  <2> DEFINE r == [IdleCall EXCEPT !.sync = sync, !.left = timeout,
                        !.every = every, !.pc = IF by = "id" THEN "post" ELSE "info"]
  <2>1. timeout >= 1 /\ timeout <= MAX_TIMEOUT /\ call' = [call EXCEPT ![c] = r]
    BY <1>5, TriggerConstants DEF Execute
  <2>2. r.pc \in {"info", "post"} /\ r.answer = NoAnswer
    BY DEF IdleCall
  <2>3. CallShape(r)
    BY <2>1, TriggerConstants DEF IdleCall, CallShape, CallPlaces, NoExecution
  <2> HIDE DEF r
  <2> QED BY <1>2, <1>3, <2>1, <2>2, <2>3, GoesOn
<1> QED BY <1>4, <1>5

LEMMA LookUpKeeps ==
  ASSUME TriggerInv, NEW c \in Calls, LookUp(c)
  PROVE  TriggerInv'
<1>1. call[c].pc \in {"info", "find"} /\ UNCHANGED <<service, owner>>
  BY DEF LookUp
<1>2. ServiceMoves(c) /\ ServiceKept'
  BY <1>1, StillMoves
<1>3. OwnsNothing(c)' /\ CallShape(call[c]) /\ call[c].answer = NoAnswer /\ call = [d \in Calls |-> call[d]]
  BY <1>1 DEF TriggerInv, CallKept, OwnsNothing
<1>4. CASE Fail(c, "NOT_FOUND")
  BY <1>2, <1>3, <1>4, FailKeeps
<1>5. ASSUME NEW place \in {"post", "find"}, call' = [call EXCEPT ![c].pc = place]
      PROVE  TriggerInv'
  <2>1. PICK r : r = [call[c] EXCEPT !.pc = place]
    OBVIOUS
  <2>2. call' = [call EXCEPT ![c] = r]
    BY <1>3, <1>5, <2>1
  <2>3. r.pc = place /\ r.answer = NoAnswer /\ CallShape(r)
    BY <1>3, <2>1 DEF CallShape, CallPlaces
  <2> QED BY <1>2, <1>3, <2>2, <2>3, GoesOn
<1> QED BY <1>4, <1>5 DEF LookUp

LEMMA AcceptMoves ==
  ASSUME TriggerInv, NEW c \in Calls, NEW e \in Executions, Accept(c, e)
  PROVE  ServiceMoves(c) /\ ServiceKept' /\ owner'[e] = c
<1>1. /\ service[e] = "none" /\ service' = [service EXCEPT ![e] = "running"]
      /\ owner' = [owner EXCEPT ![e] = c]
  BY DEF Accept
<1>2. ServiceKept /\ c # Nobody
  BY TriggerConstants DEF TriggerInv, Nobody
<1>3. /\ owner' = [f \in Executions |-> IF f = e THEN c ELSE owner[f]]
      /\ service' = [f \in Executions |-> IF f = e THEN "running" ELSE service[f]]
  BY <1>1, <1>2 DEF ServiceKept
<1>4. ServiceKept' /\ owner'[e] = c
  BY <1>2, <1>3 DEF ServiceKept
<1>5. ServiceMoves(c)
  BY <1>1, <1>2, <1>3 DEF ServiceMoves, ServiceKept, Final
<1> QED BY <1>4, <1>5

LEMMA RefusedKeeps ==
  ASSUME TriggerInv, NEW c \in Calls, call[c].pc = "post", Refused(c), UNCHANGED <<service, owner>>
  PROVE  TriggerInv'
<1>1. ServiceMoves(c) /\ ServiceKept' /\ OwnsNothing(c)'
  BY StillMoves DEF TriggerInv, CallKept, OwnsNothing
<1>2. CASE \E code : Fail(c, code)
  BY <1>1, <1>2, FailKeeps
<1>3. CASE RunningNow # {} /\ Succeed(c, NoExecution)
  <2>1. PICK e \in Executions : service[e] = "running"
    BY <1>3 DEF RunningNow
  <2>2. owner'[e] \notin {c, Nobody}
    BY <1>1, <2>1 DEF TriggerInv, ServiceKept, OwnsNothing
  <2>3. AnotherOwns(c)'
    BY <2>2 DEF AnotherOwns
  <2>4. ToldOfOwn(c, NoExecution)'
    BY DEF ToldOfOwn, NoExecution
  <2> QED BY <1>1, <1>3, <2>3, <2>4, SucceedKeeps
<1> QED BY <1>2, <1>3 DEF Refused

LEMMA TriggerKeeps ==
  ASSUME TriggerInv, NEW c \in Calls, Trigger(c)
  PROVE  TriggerInv'
<1>1. call[c].pc = "post"
  BY DEF Trigger
<1>2. CASE Refused(c) /\ UNCHANGED <<service, owner>>
  BY <1>1, <1>2, RefusedKeeps
<1>3. ASSUME NEW e \in Executions, Accept(c, e), NEW x, x = [id |-> e, status |-> "running"],
             \/ call[c].sync /\ call' = [call EXCEPT ![c].pc = "poll", ![c].execution = x]
             \/ Succeed(c, x)
             \/ Succeed(c, [x EXCEPT !.id = "none"])
             \/ \E code \in {"TIMEOUT", "UNEXPECTED_ERROR"} : Fail(c, code)
      PROVE  TriggerInv'
  <2>1. ServiceMoves(c) /\ ServiceKept' /\ owner'[e] = c
    BY <1>3, AcceptMoves
  <2>2. CASE \E code \in {"TIMEOUT", "UNEXPECTED_ERROR"} : Fail(c, code)
    <3>1. \A code \in {"TIMEOUT", "UNEXPECTED_ERROR"} : code \notin Refusals
      BY DEF Refusals
    <3> QED BY <2>1, <2>2, <3>1, FailKeeps
  <2>3. CASE Succeed(c, x)
    <3>1. ToldOfOwn(c, x)' /\ x # NoExecution
      BY <1>3, <2>1 DEF ToldOfOwn, NoExecution
    <3> QED BY <2>1, <2>3, <3>1, SucceedKeeps
  <2>4. CASE Succeed(c, [x EXCEPT !.id = "none"])
    <3> DEFINE y == [x EXCEPT !.id = "none"]
    <3>1. ToldOfOwn(c, y)' /\ y # NoExecution
      BY <1>3, <2>1 DEF ToldOfOwn, NoExecution
    <3> HIDE DEF y
    <3> QED BY <2>1, <2>4, <3>1, SucceedKeeps DEF y
  <2>5. CASE call[c].sync /\ call' = [call EXCEPT ![c].pc = "poll", ![c].execution = x]
    <3>1. CallShape(call[c]) /\ call[c].answer = NoAnswer /\ call = [d \in Calls |-> call[d]]
      BY <1>1 DEF TriggerInv, CallKept
    <3>2. PICK r : r = [call[c] EXCEPT !.pc = "poll", !.execution = x]
      OBVIOUS
    <3>3. call' = [call EXCEPT ![c] = r]
      BY <3>1, <3>2, <2>5
    <3>4. r.pc = "poll" /\ r.answer = NoAnswer /\ r.sync /\ r.execution = x
      BY <2>5, <3>1, <3>2 DEF CallShape
    <3>5. x.id = e /\ DOMAIN x = {"id", "status"}
      BY <1>3
    <3>6. CallShape(r)
      BY <3>1, <3>2, <3>5 DEF CallShape, CallPlaces
    <3> QED BY <2>1, <3>3, <3>4, <3>5, <3>6, GoesOn
  <2> QED BY <1>3, <2>2, <2>3, <2>4, <2>5
<1> QED BY <1>1, <1>2, <1>3 DEF Trigger

LEMMA PollKeeps ==
  ASSUME TriggerInv, NEW c \in Calls, NEW seconds \in {0, 1}, Poll(c, seconds)
  PROVE  TriggerInv'
<1>1. call[c].pc = "poll" /\ UNCHANGED <<service, owner>>
  BY DEF Poll
<1>2. ServiceMoves(c) /\ ServiceKept'
  BY <1>1, StillMoves
<1>3. CallShape(call[c]) /\ call[c].answer = NoAnswer /\ call = [d \in Calls |-> call[d]] /\ WaitsForOwn(c)
  BY <1>1 DEF TriggerInv, CallKept
<1>4. PICK x : x = call[c].execution
  OBVIOUS
<1>5. x.id \in Executions /\ owner'[x.id] = c /\ DOMAIN x = {"id", "status"} /\ call[c].sync
  BY <1>1, <1>3, <1>4 DEF WaitsForOwn, CallShape
<1>6. CASE PollNotFound(c)
  <2> DEFINE y == [x EXCEPT !.status = "failed"]
  <2>1. ToldOfOwn(c, y)' /\ y # NoExecution
    BY <1>5 DEF ToldOfOwn, NoExecution
  <2>2. Succeed(c, y)
    BY <1>4, <1>6 DEF PollNotFound
  <2> HIDE DEF y
  <2> QED BY <1>2, <2>1, <2>2, SucceedKeeps
<1>7. CASE \E code \in (HttpErrors \ {"NOT_FOUND"}) \cup {"TIMEOUT", "CONNECTION_ERROR", "UNEXPECTED_ERROR"} :
             Fail(c, code)
  <2>1. \A code \in (HttpErrors \ {"NOT_FOUND"}) \cup {"TIMEOUT", "CONNECTION_ERROR", "UNEXPECTED_ERROR"} :
          code \notin Refusals
    BY DEF Refusals, HttpErrors
  <2> QED BY <1>2, <1>7, <2>1, FailKeeps
<1>8. ASSUME NEW seen, seen = [x EXCEPT !.status = service[x.id]], NEW spent, spent \in Nat, spent <= call[c].left,
             IF seen.status \in Final
             THEN Succeed(c, seen)
             ELSE call' = [call EXCEPT ![c].pc = "sleep", ![c].execution = seen, ![c].left = @ - spent]
      PROVE  TriggerInv'
  <2>1. seen.id = x.id /\ seen.status = service[x.id] /\ DOMAIN seen = {"id", "status"}
    BY <1>5, <1>8
  <2>2. CASE seen.status \in Final
    <3>1. ToldOfOwn(c, seen)' /\ seen # NoExecution
      BY <1>1, <1>5, <2>1, <2>2 DEF ToldOfOwn, NoExecution, Final
    <3> QED BY <1>2, <1>8, <2>2, <3>1, SucceedKeeps
  <2>3. CASE seen.status \notin Final
    <3>1. PICK r : r = [call[c] EXCEPT !.pc = "sleep", !.execution = seen, !.left = call[c].left - spent]
      OBVIOUS
    <3>2. call' = [call EXCEPT ![c] = r]
      BY <1>3, <1>8, <2>3, <3>1
    <3>3. r.pc = "sleep" /\ r.answer = NoAnswer /\ r.sync /\ r.execution = seen
      BY <1>3, <1>5, <3>1 DEF CallShape
    <3>4. call[c].left - spent \in 0..MAX_TIMEOUT
      BY <1>3, <1>8, TriggerConstants DEF CallShape
    <3>5. CallShape(r)
      BY <1>3, <2>1, <3>1, <3>4 DEF CallShape, CallPlaces
    <3> QED BY <1>2, <1>5, <2>1, <3>2, <3>3, <3>5, GoesOn
  <2> QED BY <2>2, <2>3
<1>9. ASSUME LET seen == [x EXCEPT !.status = service[x.id]]
                 spent == IF seconds > call[c].left THEN call[c].left ELSE seconds
             IN  IF seen.status \in Final
                 THEN Succeed(c, seen)
                 ELSE call' = [call EXCEPT ![c].pc = "sleep", ![c].execution = seen, ![c].left = @ - spent]
      PROVE  TriggerInv'
  <2>1. PICK seen : seen = [x EXCEPT !.status = service[x.id]]
    OBVIOUS
  <2>2. PICK spent : spent = IF seconds > call[c].left THEN call[c].left ELSE seconds
    OBVIOUS
  <2>3. spent \in Nat /\ spent <= call[c].left
    BY <1>3, <2>2, TriggerConstants DEF CallShape
  <2> QED BY <1>8, <1>9, <2>1, <2>2, <2>3
<1> QED BY <1>4, <1>6, <1>7, <1>9 DEF Poll

LEMMA SleepKeeps ==
  ASSUME TriggerInv, NEW c \in Calls, Sleep(c)
  PROVE  TriggerInv'
<1>1. call[c].pc = "sleep" /\ UNCHANGED <<service, owner>>
  BY DEF Sleep
<1>2. ServiceMoves(c) /\ ServiceKept'
  BY <1>1, StillMoves
<1>3. CallShape(call[c]) /\ call[c].answer = NoAnswer /\ call = [d \in Calls |-> call[d]] /\ WaitsForOwn(c)
  BY <1>1 DEF TriggerInv, CallKept
<1>4. PICK left : left = IF call[c].left > call[c].every THEN call[c].left - call[c].every ELSE 0
  OBVIOUS
<1>5. left \in 0..MAX_TIMEOUT
  BY <1>3, <1>4, TriggerConstants DEF CallShape
<1>6. PICK r : r = [call[c] EXCEPT !.pc = "poll", !.left = left]
  OBVIOUS
<1>7. call' = [call EXCEPT ![c] = r]
  BY <1>3, <1>4, <1>6 DEF Sleep
<1>8. CallShape(r)
  BY <1>3, <1>5, <1>6 DEF CallShape, CallPlaces
<1>9. r.pc = "poll" /\ r.answer = NoAnswer /\ r.sync /\ r.execution = call[c].execution
  BY <1>3, <1>6 DEF CallShape, WaitsForOwn
<1> QED BY <1>1, <1>2, <1>3, <1>7, <1>8, <1>9, GoesOn DEF WaitsForOwn

LEMMA DeadlineKeeps ==
  ASSUME TriggerInv, NEW c \in Calls, Deadline(c)
  PROVE  TriggerInv'
<1>1. call[c].pc = "poll" /\ UNCHANGED <<service, owner>>
  BY DEF Deadline
<1>2. ServiceMoves(c) /\ ServiceKept'
  BY <1>1, StillMoves
<1>3. CallShape(call[c]) /\ WaitsForOwn(c)
  BY <1>1 DEF TriggerInv, CallKept
<1>4. PICK y : y = [call[c].execution EXCEPT !.status = "timeout"]
  OBVIOUS
<1>5. y.id \in Executions /\ owner'[y.id] = c /\ y.status = "timeout"
  BY <1>1, <1>3, <1>4 DEF WaitsForOwn, CallShape
<1>6. ToldOfOwn(c, y)' /\ y # NoExecution
  BY <1>5 DEF ToldOfOwn, NoExecution
<1> QED BY <1>2, <1>4, <1>6, SucceedKeeps DEF Deadline

LEMMA ServiceKeeps ==
  ASSUME TriggerInv, NEW e \in Executions, CancelExecution(e) \/ ServiceFinishes(e)
  PROVE  TriggerInv'
<1>1. PICK s \in Final : /\ service[e] = "running" /\ service' = [service EXCEPT ![e] = s]
                         /\ UNCHANGED <<call, owner>>
  BY DEF CancelExecution, ServiceFinishes, Final
<1>2. ServiceKept
  BY DEF TriggerInv
<1>3. service' = [f \in Executions |-> IF f = e THEN s ELSE service[f]]
  BY <1>1, <1>2 DEF ServiceKept
<1>4. ServiceKept'
  BY <1>1, <1>2, <1>3 DEF ServiceKept, Final
<1>5. ServiceMoves(Nobody)
  BY <1>1, <1>3 DEF ServiceMoves, Final
<1>6. ASSUME NEW d \in Calls PROVE CallKept(d)'
  BY <1>1, <1>5, OtherCallKept, TriggerConstants DEF Nobody
<1> QED BY <1>1, <1>4, <1>6 DEF TriggerInv

LEMMA TriggerInvKeeps == TriggerInv /\ (TriggerNext \/ UNCHANGED triggerVars) => TriggerInv'
<1> SUFFICES ASSUME TriggerInv, TriggerNext \/ UNCHANGED triggerVars PROVE TriggerInv'
  OBVIOUS
<1>1. CASE UNCHANGED triggerVars
  BY <1>1 DEF triggerVars, TriggerInv, ServiceKept, CallKept, WaitsForOwn, OwnsNothing, ToldTruly, ToldOfOwn, AnotherOwns
<1>2. ASSUME NEW c \in Calls, CallStep(c) PROVE TriggerInv'
  BY <1>2, LookUpKeeps, TriggerKeeps, PollKeeps, SleepKeeps, DeadlineKeeps DEF CallStep
<1> QED BY <1>1, <1>2, ExecuteKeeps, ServiceKeeps DEF TriggerNext

LEMMA TriggerHolds ==
  TriggerInv => TriggerTypeOK /\ AnswerAgreesWithService /\ RefusalStartedNothing /\ ConflictNamesAnother
<1> SUFFICES ASSUME TriggerInv
             PROVE  TriggerTypeOK /\ AnswerAgreesWithService /\ RefusalStartedNothing /\ ConflictNamesAnother
  OBVIOUS
<1>1. TriggerTypeOK
  BY DEF TriggerInv, TriggerTypeOK, CallKept, CallShape, CallPlaces, WaitsForOwn, ServiceKept
<1>2. AnswerAgreesWithService
  BY DEF TriggerInv, AnswerAgreesWithService, CallKept, ToldTruly, ToldOfOwn
<1>3. RefusalStartedNothing
  BY DEF TriggerInv, RefusalStartedNothing, CallKept, ToldTruly, OwnsNothing, Refusals
<1>4. ConflictNamesAnother
  BY DEF TriggerInv, ConflictNamesAnother, CallKept, ToldTruly, AnotherOwns
<1> QED BY <1>1, <1>2, <1>3, <1>4

-----------------------------------------------------------------------------
(* Searches of the ontology.  Concepts are searched first or not at all,   *)
(* each section costs one request and the fallback two, and a section is   *)
(* among the finds as soon as it is among the matches, concepts apart.     *)

Sections == {"concept", "entity_type", "capability", "property", "relationship"}
SearchFields == {"pc", "todo", "query", "semantic", "matched", "found", "fallback", "requests", "success", "code"}
SearchPlaces == {"idle", "ask", "embed", "semantic", "done"}

SectionsToDo(todo) == todo \in Seq(Sections) /\ \A i \in 2..Len(todo) : todo[i] # "concept"

MatchesTold(matched, found, told) ==
  /\ matched \subseteq Sections /\ found \subseteq Sections
  /\ matched \ {"concept"} = found \ {"concept"}
  /\ "concept" \in matched \ found => told

FailureTold(s) ==
  s.pc = "done" /\ ~s.success /\ s.requests > 0 =>
     /\ s.code # "NOT_FOUND"
     /\ s.todo = <<"concept">> => s.code \in {"INTERNAL_ERROR", "HTTP_OTHER"}

Counted(s) ==
  /\ s.requests \in Nat
  /\ s.pc = "ask" /\ Head(s.todo) = "concept" => s.requests = 0 /\ Len(s.todo) <= 5
  /\ s.pc = "ask" => s.requests + Len(s.todo) <= 7
  /\ s.pc = "embed" => s.requests + Len(s.todo) <= 6
  /\ s.pc = "semantic" => s.requests + Len(s.todo) <= 7
  /\ s.requests <= 7

SearchKept(s) ==
  /\ DOMAIN s = SearchFields /\ s.pc \in SearchPlaces
  /\ SectionsToDo(s.todo)
  /\ s.pc \in {"ask", "embed", "semantic"} => s.todo # <<>>
  /\ s.pc \in {"embed", "semantic"} => Head(s.todo) = "concept"
  /\ Counted(s) /\ FailureTold(s)
  /\ MatchesTold(s.matched, s.found, s.semantic /\ s.fallback)

LEMMA OneSection ==
  ASSUME NEW type \in Sections
  PROVE  /\ SectionsToDo(<<type>>) /\ <<type>> # <<>> /\ Len(<<type>>) = 1 /\ Head(<<type>>) = type
         /\ <<type>> = <<"concept">> => type = "concept"
BY DEF SectionsToDo

LEMMA EverySection ==
  SectionsToDo(AllSections) /\ AllSections # <<>> /\ Len(AllSections) = 5
<1>1. Len(AllSections) = 5 /\ AllSections # <<>>
  BY DEF AllSections
<1>2. /\ AllSections[1] = "concept" /\ AllSections[2] = "entity_type" /\ AllSections[3] = "capability"
      /\ AllSections[4] = "property" /\ AllSections[5] = "relationship"
  BY DEF AllSections
<1>3. AllSections \in Seq(Sections)
  BY DEF AllSections, Sections
<1> QED BY <1>1, <1>2, <1>3 DEF SectionsToDo

LEMMA SectionNames == ToSet(AllSections) = Sections
<1>1. DOMAIN AllSections = {1, 2, 3, 4, 5}
  BY DEF AllSections
<1>2. /\ AllSections[1] = "concept" /\ AllSections[2] = "entity_type" /\ AllSections[3] = "capability"
      /\ AllSections[4] = "property" /\ AllSections[5] = "relationship"
  BY DEF AllSections
<1> QED BY <1>1, <1>2 DEF ToSet, Sections

LEMMA OntologyStart == OntologyInit => SearchKept(search)
<1> SUFFICES SearchKept(IdleSearch)
  BY DEF OntologyInit
<1>1. DOMAIN IdleSearch = SearchFields /\ IdleSearch.pc = "idle" /\ IdleSearch.todo = <<>>
      /\ IdleSearch.requests = 0 /\ IdleSearch.matched = {} /\ IdleSearch.found = {}
  BY DEF IdleSearch, SearchFields
<1>2. SectionsToDo(<<>>)
  BY DEF SectionsToDo
<1> QED BY <1>1, <1>2 DEF SearchKept, SearchPlaces, Counted, FailureTold, MatchesTold

LEMMA RefuseKept ==
  ASSUME NEW code, Refuse(code) PROVE SearchKept(search')
<1>1. PICK s : s = search'
  OBVIOUS
<1>2. DOMAIN s = SearchFields /\ s.pc = "done" /\ s.todo = <<>> /\ s.requests = 0 /\ s.matched = {} /\ s.found = {}
  BY <1>1 DEF Refuse, IdleSearch, SearchFields
<1>3. SectionsToDo(<<>>)
  BY DEF SectionsToDo
<1>4. SearchKept(s)
  BY <1>2, <1>3 DEF SearchKept, SearchPlaces, Counted, FailureTold, MatchesTold
<1> QED BY <1>1, <1>4

LEMMA StartKept ==
  ASSUME NEW query_ \in BOOLEAN, NEW semantic \in BOOLEAN, NEW todo, SectionsToDo(todo), todo # <<>>, Len(todo) <= 5,
         NEW s, s = [IdleSearch EXCEPT !.pc = "ask", !.query = query_, !.semantic = semantic, !.todo = todo]
  PROVE  SearchKept(s)
<1>1. /\ DOMAIN s = SearchFields /\ s.pc = "ask" /\ s.todo = todo
      /\ s.requests = 0 /\ s.matched = {} /\ s.found = {}
  BY DEF IdleSearch, SearchFields
<1>2. Len(todo) \in Nat
  BY DEF SectionsToDo
<1> QED BY <1>1, <1>2 DEF SearchKept, SearchPlaces, Counted, FailureTold, MatchesTold

LEMMA ExecuteSearchKept ==
  ASSUME NEW sameTenant \in BOOLEAN, NEW type, NEW knownCategory \in BOOLEAN, NEW limit, NEW q \in BOOLEAN,
         NEW semantic \in BOOLEAN, ExecuteSearch(sameTenant, type, knownCategory, limit, q, semantic)
  PROVE  SearchKept(search')
<1>1. CASE \E code : Refuse(code)
  BY <1>1, RefuseKept
<1>2. CASE ~\E code : Refuse(code)
  <2> DEFINE todo == IF type = "all" THEN AllSections ELSE <<type>>
  <2>1. type \in SEARCH_TYPES /\ search' = [IdleSearch EXCEPT !.pc = "ask", !.query = q, !.semantic = semantic, !.todo = todo]
    BY <1>2 DEF ExecuteSearch
  <2>2. type # "all" => type \in Sections
    BY <2>1 DEF SEARCH_TYPES, Sections
  <2>3. SectionsToDo(todo) /\ todo # <<>> /\ Len(todo) <= 5
    <3>1. CASE type = "all"
      <4>1. todo = AllSections
        BY <3>1
      <4>2. Len(AllSections) <= 5
        BY EverySection
      <4> HIDE DEF todo
      <4> QED BY <4>1, <4>2, EverySection
    <3>2. CASE type # "all"
      <4>1. SectionsToDo(<<type>>) /\ <<type>> # <<>> /\ Len(<<type>>) = 1
        BY <2>2, <3>2, OneSection
      <4> QED BY <3>2, <4>1
    <3> QED BY <3>1, <3>2
  <2> HIDE DEF todo
  <2> QED BY <2>1, <2>3, StartKept
<1> QED BY <1>1, <1>2

LEMMA AnsweredKept ==
  ASSUME NEW s, NEW matches \in BOOLEAN, DOMAIN s = SearchFields, SectionsToDo(s.todo), s.todo # <<>>,
         s.requests \in Nat, s.requests + Len(s.todo) <= 8,
         MatchesTold(s.matched, IF matches THEN s.found \cup {Head(s.todo)} ELSE s.found, s.semantic /\ s.fallback)
  PROVE  SearchKept(Answered(s, matches))
<1> DEFINE f == IF matches THEN s.found \cup {Head(s.todo)} ELSE s.found
           rest == Tail(s.todo)
<1>1. PICK t : t = [s EXCEPT !.found = f, !.todo = rest, !.pc = "ask"]
  OBVIOUS
<1>2. /\ DOMAIN t = SearchFields /\ t.pc = "ask" /\ t.todo = rest /\ t.found = f /\ t.matched = s.matched
      /\ t.semantic = s.semantic /\ t.fallback = s.fallback /\ t.requests = s.requests
  BY <1>1 DEF SearchFields
<1>3. Answered(s, matches) = IF t.todo = <<>> THEN [t EXCEPT !.pc = "done", !.success = TRUE] ELSE t
  BY <1>1 DEF Answered
<1>4. /\ SectionsToDo(rest) /\ s.requests + Len(rest) <= 7 /\ Len(rest) \in Nat
      /\ rest # <<>> => Head(rest) # "concept"
  BY DEF SectionsToDo
<1>5. MatchesTold(s.matched, f, s.semantic /\ s.fallback)
  OBVIOUS
<1> HIDE DEF f, rest
<1>6. CASE rest = <<>>
  <2>1. PICK u : u = [t EXCEPT !.pc = "done", !.success = TRUE]
    OBVIOUS
  <2>2. /\ DOMAIN u = SearchFields /\ u.pc = "done" /\ u.todo = rest /\ u.found = f /\ u.matched = s.matched
        /\ u.semantic = s.semantic /\ u.fallback = s.fallback /\ u.requests = s.requests /\ u.success = TRUE
    BY <1>2, <2>1 DEF SearchFields
  <2>3. Counted(u)
    BY <1>4, <2>2 DEF Counted
  <2>4. SearchKept(u)
    BY <1>4, <1>5, <1>6, <2>2, <2>3 DEF SearchKept, SearchPlaces, FailureTold
  <2> QED BY <1>2, <1>3, <1>6, <2>1, <2>4
<1>7. CASE rest # <<>>
  <2>1. Counted(t)
    BY <1>2, <1>4, <1>7 DEF Counted
  <2>2. SearchKept(t)
    BY <1>2, <1>4, <1>5, <1>7, <2>1 DEF SearchKept, SearchPlaces, FailureTold
  <2> QED BY <1>2, <1>3, <1>7, <2>2
<1> QED BY <1>6, <1>7

(* A reply ends the search with the error it stands for. *)
LEMMA FailSearchKept ==
  ASSUME SearchKept(search), search.pc = "ask", NEW reply \in Replies \ {"matches", "empty", "404"},
         Head(search.todo) = "concept" => reply \in ConceptErrors
  PROVE  SearchKept(FailSearch(reply))
<1>1. PICK s : s = search
  OBVIOUS
<1>2. SearchKept(s) /\ s.pc = "ask"
  BY <1>1
<1>3. PICK code : code = ErrorCode[reply]
  OBVIOUS
<1>4. code # "NOT_FOUND" /\ (reply \in ConceptErrors => code \in {"INTERNAL_ERROR", "HTTP_OTHER"})
  BY <1>3 DEF ErrorCode, Replies, ConceptErrors
<1>5. PICK u : u = [s EXCEPT !.pc = "done", !.requests = s.requests + 1, !.code = code]
  OBVIOUS
<1>6. /\ DOMAIN u = SearchFields /\ u.pc = "done" /\ u.todo = s.todo /\ u.found = s.found /\ u.matched = s.matched
      /\ u.semantic = s.semantic /\ u.fallback = s.fallback /\ u.requests = s.requests + 1 /\ u.code = code
  BY <1>2, <1>5 DEF SearchKept, SearchFields
<1>7. SectionsToDo(s.todo) /\ s.todo # <<>>
  BY <1>2 DEF SearchKept
<1>8. Len(s.todo) \in Nat /\ Len(s.todo) >= 1
  BY <1>7 DEF SectionsToDo
<1>9. Counted(u)
  <2>1. s.requests \in Nat /\ s.requests + Len(s.todo) <= 7
    BY <1>2 DEF SearchKept, Counted
  <2> QED BY <1>6, <1>8, <2>1 DEF Counted
<1>10. FailureTold(u)
  <2>1. s.todo = <<"concept">> => Head(s.todo) = "concept"
    OBVIOUS
  <2> QED BY <1>1, <1>4, <1>6, <2>1 DEF FailureTold
<1>11. SearchKept(u)
  <2>1. MatchesTold(s.matched, s.found, s.semantic /\ s.fallback)
    BY <1>2 DEF SearchKept
  <2> QED BY <1>6, <1>7, <1>9, <1>10, <2>1 DEF SearchKept, SearchPlaces
<1>12. FailSearch(reply) = u
  BY <1>1, <1>3, <1>5 DEF FailSearch
<1> QED BY <1>11, <1>12

LEMMA SearchSectionKept ==
  ASSUME SearchKept(search), NEW reply \in Replies, SearchSection(reply)
  PROVE  SearchKept(search')
<1>1. search.pc = "ask" /\ Head(search.todo) # "concept"
  BY DEF SearchSection
<1>2. CASE reply \notin {"matches", "empty", "404"}
  <2>1. search' = FailSearch(reply)
    BY <1>2 DEF SearchSection
  <2> QED BY <1>1, <1>2, <2>1, FailSearchKept
<1>3. CASE reply \in {"matches", "empty", "404"}
  <2>1. PICK s : s = search
    OBVIOUS
  <2>2. SearchKept(s) /\ s.pc = "ask" /\ Head(s.todo) # "concept"
    BY <1>1, <2>1
  <2>3. PICK m : m = IF reply = "matches" THEN {Head(s.todo)} ELSE {}
    OBVIOUS
  <2>4. PICK u : u = [s EXCEPT !.requests = s.requests + 1, !.matched = s.matched \cup m]
    OBVIOUS
  <2>5. PICK matches \in BOOLEAN : matches = (reply = "matches")
    OBVIOUS
  <2>6. search' = Answered(u, matches)
    BY <1>3, <2>1, <2>3, <2>4, <2>5 DEF SearchSection, Matched
  <2>7. /\ DOMAIN u = SearchFields /\ u.todo = s.todo /\ u.found = s.found /\ u.matched = s.matched \cup m
        /\ u.semantic = s.semantic /\ u.fallback = s.fallback /\ u.requests = s.requests + 1
    BY <2>2, <2>4 DEF SearchKept, SearchFields
  <2>8. SectionsToDo(s.todo) /\ s.todo # <<>> /\ s.requests \in Nat /\ s.requests + Len(s.todo) <= 7
    BY <2>2 DEF SearchKept, Counted
  <2>9. Len(s.todo) \in Nat /\ Head(s.todo) \in Sections
    BY <2>8 DEF SectionsToDo
  <2>10. s.requests + 1 \in Nat /\ s.requests + 1 + Len(s.todo) <= 8
    BY <2>8, <2>9
  <2>11. MatchesTold(s.matched, s.found, s.semantic /\ s.fallback)
    BY <2>2 DEF SearchKept
  <2>12. MatchesTold(s.matched \cup m, IF matches THEN s.found \cup {Head(s.todo)} ELSE s.found, s.semantic /\ s.fallback)
    BY <2>2, <2>3, <2>5, <2>9, <2>11 DEF MatchesTold
  <2> QED BY <2>6, <2>7, <2>8, <2>10, <2>12, AnsweredKept
<1> QED BY <1>2, <1>3

LEMMA SearchConceptsKept ==
  ASSUME SearchKept(search), NEW reply \in Replies, SearchConcepts(reply)
  PROVE  SearchKept(search')
<1>1. search.pc = "ask" /\ Head(search.todo) = "concept"
  BY DEF SearchConcepts
<1>2. CASE reply \in ConceptErrors
  <2>1. search' = FailSearch(reply) /\ reply \in Replies \ {"matches", "empty", "404"}
    BY <1>2 DEF SearchConcepts, ConceptErrors
  <2> QED BY <1>1, <1>2, <2>1, FailSearchKept
<1>3. CASE reply \notin ConceptErrors
  <2>1. PICK s : s = search
    OBVIOUS
  <2>2. SearchKept(s) /\ s.pc = "ask" /\ Head(s.todo) = "concept"
    BY <1>1, <2>1
  <2>3. PICK m : m = IF reply = "matches" THEN {"concept"} ELSE {}
    OBVIOUS
  <2>4. PICK u : u = [s EXCEPT !.requests = s.requests + 1, !.matched = s.matched \cup m]
    OBVIOUS
  <2>5. search' = IF ~(s.semantic \/ reply # "matches") THEN Answered(u, TRUE)
                  ELSE IF ~s.query THEN Answered([u EXCEPT !.fallback = TRUE], FALSE)
                  ELSE [u EXCEPT !.fallback = TRUE, !.pc = "embed"]
    BY <1>3, <2>1, <2>2, <2>3, <2>4 DEF SearchConcepts, Matched, FallsBack
  <2>6. /\ DOMAIN u = SearchFields /\ u.todo = s.todo /\ u.found = s.found /\ u.matched = s.matched \cup m
        /\ u.semantic = s.semantic /\ u.fallback = s.fallback /\ u.requests = s.requests + 1 /\ u.pc = "ask"
    BY <2>2, <2>4 DEF SearchKept, SearchFields
  <2>7. SectionsToDo(s.todo) /\ s.todo # <<>> /\ s.requests = 0 /\ Len(s.todo) <= 5
    BY <2>2 DEF SearchKept, Counted
  <2>8. Len(s.todo) \in Nat
    BY <2>7 DEF SectionsToDo
  <2>9. u.requests \in Nat /\ u.requests + Len(u.todo) <= 6
    BY <2>6, <2>7, <2>8
  <2>10. MatchesTold(s.matched, s.found, s.semantic /\ s.fallback)
    BY <2>2 DEF SearchKept
  <2>11. u.requests + Len(u.todo) <= 8
    BY <2>6, <2>8, <2>9
  <2>12. CASE ~(s.semantic \/ reply # "matches")
    <3>1. MatchesTold(u.matched, IF TRUE THEN u.found \cup {Head(u.todo)} ELSE u.found, u.semantic /\ u.fallback)
      BY <2>2, <2>3, <2>6, <2>10 DEF MatchesTold, Sections
    <3>2. TRUE \in BOOLEAN
      OBVIOUS
    <3> QED BY <2>5, <2>6, <2>7, <2>9, <2>11, <2>12, <3>1, <3>2, AnsweredKept
  <2>13. CASE s.semantic \/ reply # "matches"
    <3>1. MatchesTold(u.matched, u.found, s.semantic /\ TRUE)
      BY <2>3, <2>6, <2>10, <2>13 DEF MatchesTold, Sections
    <3>2. CASE ~s.query
      <4>1. PICK v : v = [u EXCEPT !.fallback = TRUE]
        OBVIOUS
      <4>2. /\ DOMAIN v = SearchFields /\ v.todo = s.todo /\ v.found = u.found /\ v.matched = u.matched
            /\ v.semantic = s.semantic /\ v.fallback = TRUE /\ v.requests = u.requests
        BY <2>6, <4>1 DEF SearchFields
      <4>3. MatchesTold(v.matched, IF FALSE THEN v.found \cup {Head(v.todo)} ELSE v.found, v.semantic /\ v.fallback)
        BY <3>1, <4>2
      <4>4. FALSE \in BOOLEAN
        OBVIOUS
      <4>5. SearchKept(Answered(v, FALSE))
        BY <2>6, <2>7, <2>9, <2>11, <4>2, <4>3, <4>4, AnsweredKept
      <4> QED BY <2>5, <2>13, <3>2, <4>1, <4>5
    <3>3. CASE s.query
      <4>1. PICK v : v = [u EXCEPT !.fallback = TRUE, !.pc = "embed"]
        OBVIOUS
      <4>2. /\ DOMAIN v = SearchFields /\ v.todo = s.todo /\ v.found = u.found /\ v.matched = u.matched
            /\ v.semantic = s.semantic /\ v.fallback = TRUE /\ v.requests = u.requests /\ v.pc = "embed"
        BY <2>6, <4>1 DEF SearchFields
      <4>3. MatchesTold(v.matched, v.found, v.semantic /\ v.fallback)
        BY <3>1, <4>2
      <4>4. Counted(v)
        BY <2>6, <2>8, <2>9, <4>2 DEF Counted
      <4>5. SearchKept(v)
        BY <2>2, <2>7, <4>2, <4>3, <4>4 DEF SearchKept, SearchPlaces, FailureTold
      <4> QED BY <2>5, <2>13, <3>3, <4>1, <4>5
    <3> QED BY <3>2, <3>3
  <2> QED BY <2>12, <2>13
<1> QED BY <1>2, <1>3

LEMMA SemanticSearchKept ==
  ASSUME SearchKept(search), NEW reply \in Replies, SemanticSearch(reply)
  PROVE  SearchKept(search')
<1>1. PICK s : s = search
  OBVIOUS
<1>2. SearchKept(s) /\ s.pc \in {"embed", "semantic"}
  BY <1>1 DEF SemanticSearch
<1>3. PICK u : u = [s EXCEPT !.requests = s.requests + 1]
  OBVIOUS
<1>4. PICK matches \in BOOLEAN : matches = (s.pc = "semantic" /\ reply = "matches")
  OBVIOUS
<1>5. search' = IF s.pc = "embed" /\ reply = "matches" THEN [u EXCEPT !.pc = "semantic"] ELSE Answered(u, matches)
  BY <1>1, <1>3, <1>4 DEF SemanticSearch
<1>6. /\ DOMAIN u = SearchFields /\ u.todo = s.todo /\ u.found = s.found /\ u.matched = s.matched
      /\ u.semantic = s.semantic /\ u.fallback = s.fallback /\ u.requests = s.requests + 1 /\ u.pc = s.pc
  BY <1>2, <1>3 DEF SearchKept, SearchFields
<1>7. /\ SectionsToDo(s.todo) /\ s.todo # <<>> /\ Head(s.todo) = "concept" /\ s.requests \in Nat
      /\ s.requests + Len(s.todo) <= (IF s.pc = "embed" THEN 6 ELSE 7)
  BY <1>2 DEF SearchKept, Counted
<1>8. Len(s.todo) \in Nat
  BY <1>7 DEF SectionsToDo
<1>9. MatchesTold(s.matched, s.found, s.semantic /\ s.fallback)
  BY <1>2 DEF SearchKept
<1>10. CASE s.pc = "embed" /\ reply = "matches"
  <2>1. PICK v : v = [u EXCEPT !.pc = "semantic"]
    OBVIOUS
  <2>2. /\ DOMAIN v = SearchFields /\ v.todo = s.todo /\ v.found = s.found /\ v.matched = s.matched
        /\ v.semantic = s.semantic /\ v.fallback = s.fallback /\ v.requests = s.requests + 1 /\ v.pc = "semantic"
    BY <1>6, <2>1 DEF SearchFields
  <2>3. Counted(v)
    BY <1>7, <1>8, <1>10, <2>2 DEF Counted
  <2>4. SearchKept(v)
    BY <1>7, <1>9, <2>2, <2>3 DEF SearchKept, SearchPlaces, FailureTold
  <2> QED BY <1>5, <1>10, <2>1, <2>4
<1>11. CASE ~(s.pc = "embed" /\ reply = "matches")
  <2>1. u.requests \in Nat /\ u.requests + Len(u.todo) <= 8
    BY <1>6, <1>7, <1>8
  <2>2. MatchesTold(u.matched, IF matches THEN u.found \cup {Head(u.todo)} ELSE u.found, u.semantic /\ u.fallback)
    BY <1>6, <1>7, <1>9 DEF MatchesTold, Sections
  <2> QED BY <1>5, <1>6, <1>7, <1>11, <2>1, <2>2, AnsweredKept
<1> QED BY <1>10, <1>11

LEMMA OntologyKeeps == SearchKept(search) /\ (OntologyNext \/ UNCHANGED ontologyVars) => SearchKept(search')
<1> SUFFICES ASSUME SearchKept(search), OntologyNext \/ UNCHANGED ontologyVars PROVE SearchKept(search')
  OBVIOUS
<1>1. CASE UNCHANGED ontologyVars
  BY <1>1 DEF ontologyVars
<1>2. ASSUME NEW reply \in Replies, SearchConcepts(reply) \/ SemanticSearch(reply) \/ SearchSection(reply)
      PROVE  SearchKept(search')
  BY <1>2, SearchConceptsKept, SemanticSearchKept, SearchSectionKept
<1>3. ASSUME NEW sameTenant \in BOOLEAN, NEW knownCategory \in BOOLEAN, NEW q \in BOOLEAN, NEW semantic \in BOOLEAN,
             NEW limit, NEW type, ExecuteSearch(sameTenant, type, knownCategory, limit, q, semantic)
      PROVE  SearchKept(search')
  BY <1>3, ExecuteSearchKept
<1> QED BY <1>1, <1>2, <1>3 DEF OntologyNext

LEMMA OntologyHolds == SearchKept(search) => OntologyTypeOK /\ FoundIsReported /\ EmptyIsNoFailure
<1> SUFFICES ASSUME SearchKept(search) PROVE OntologyTypeOK /\ FoundIsReported /\ EmptyIsNoFailure
  OBVIOUS
<1>1. search.requests \in 0..7 /\ Len(AllSections) + 2 = 7
  BY EverySection DEF SearchKept, Counted
<1>2. OntologyTypeOK
  BY <1>1, SectionNames DEF OntologyTypeOK, SearchKept, SearchPlaces, MatchesTold
<1>3. FoundIsReported
  BY DEF FoundIsReported, SearchKept, MatchesTold
<1>4. EmptyIsNoFailure
  BY DEF EmptyIsNoFailure, SearchKept, FailureTold
<1> QED BY <1>2, <1>3, <1>4

-----------------------------------------------------------------------------
(* Pages of telemetry.  What the caller has is always the points from its  *)
(* first offset up to the offset of the next page, as far as they exist.   *)

LEMMA LargerOfTwo ==
  ASSUME NEW a \in Int, NEW b \in Int
  PROVE  Max({a, b}) = IF a >= b THEN a ELSE b
BY DEF Max

LEMMA SmallerOfTwo ==
  ASSUME NEW a \in Int, NEW b \in Int
  PROVE  Min({a, b}) = IF a <= b THEN a ELSE b
BY DEF Min

QueryFields == {"own", "aggregate", "quality", "limit", "offset", "start", "end"}
QueryPlaces == {"idle", "sent", "answered", "refused", "failed", "raised"}
ReadTimes(q) == q.start.form \in {"absent", "garbled", "naive", "aware"}
                /\ q.end.form \in {"absent", "garbled", "naive", "aware"}
QueryTyped(q) == DOMAIN q = QueryFields /\ q.limit \in Nat \ {0} /\ q.offset \in Nat /\ ReadTimes(q)
MixedZones(q) == {q.start.form, q.end.form} = {"naive", "aware"}

\* The number of points between the offsets from and to when there are n in all.
Between(from, to, n) == IF to <= n THEN to - from ELSE IF from <= n THEN n - from ELSE 0
Stretch(from, to, n) == [i \in 1..Between(from, to, n) |-> from + i]

PagesKept ==
  /\ first_offset \in Nat /\ first_offset <= query.offset
  /\ query_state = "idle" => points = <<>>
  /\ query_state \in {"sent", "failed"} => points = Stretch(first_offset, query.offset, matching)
  /\ query_state = "answered" => points = Stretch(first_offset, query.offset + query.limit, matching)
  /\ query_state = "answered" /\ tells_total => has_more = (query.offset + query.limit < matching)
  /\ \A i \in DOMAIN points : points[i] \in 1..MaxStored

QueryInv ==
  /\ matching \in 0..MaxStored /\ tells_total \in BOOLEAN /\ has_more \in BOOLEAN
  /\ query_state \in QueryPlaces /\ QueryTyped(query)
  /\ query_state = "raised" => MixedZones(query)
  /\ PagesKept

LEMMA StretchStart ==
  ASSUME NEW from \in Nat, NEW n \in Nat PROVE Stretch(from, from, n) = <<>>
<1>1. Between(from, from, n) = 0
  BY DEF Between
<1> QED BY <1>1 DEF Stretch

LEMMA StretchPoints ==
  ASSUME NEW from \in Nat, NEW to \in Nat, from <= to, NEW n \in Nat
  PROVE  /\ Between(from, to, n) \in Nat /\ Len(Stretch(from, to, n)) = Between(from, to, n)
         /\ DOMAIN Stretch(from, to, n) = 1..Between(from, to, n)
         /\ Stretch(from, to, n) \in Seq(Nat)
         /\ \A i \in 1..Between(from, to, n) : Stretch(from, to, n)[i] = from + i /\ from + i \in 1..n
<1>1. Between(from, to, n) \in Nat /\ (Between(from, to, n) = 0 \/ from + Between(from, to, n) <= n)
  BY DEF Between
<1> HIDE DEF Between
<1>2. DOMAIN Stretch(from, to, n) = 1..Between(from, to, n)
      /\ \A i \in 1..Between(from, to, n) : Stretch(from, to, n)[i] = from + i
  BY DEF Stretch
<1>3. Stretch(from, to, n) \in Seq(Nat)
  BY <1>1 DEF Stretch
<1>4. Len(Stretch(from, to, n)) = Between(from, to, n)
  BY <1>1, <1>2, <1>3
<1>5. \A i \in 1..Between(from, to, n) : from + i \in 1..n
  BY <1>1
<1> QED BY <1>1, <1>2, <1>3, <1>4, <1>5

(* The next page continues the stretch. *)
PageSize(at, limit, n) == IF n - at <= 0 THEN 0 ELSE IF limit <= n - at THEN limit ELSE n - at

LEMMA CountGrows ==
  ASSUME NEW from \in Nat, NEW at \in Nat, from <= at, NEW limit \in Nat, NEW n \in Nat
  PROVE  /\ PageSize(at, limit, n) \in Nat /\ Between(from, at, n) \in Nat
         /\ Between(from, at + limit, n) = Between(from, at, n) + PageSize(at, limit, n)
         /\ PageSize(at, limit, n) > 0 => from + Between(from, at, n) = at
BY DEF Between, PageSize

Counting(s, n, from) == s \in Seq(Nat) /\ Len(s) = n /\ \A i \in 1..n : s[i] = from + i

LEMMA Joined ==
  ASSUME NEW b \in Nat, NEW k \in Nat, NEW from \in Nat, NEW at \in Nat, k > 0 => from + b = at,
         NEW s, NEW p, NEW t, Counting(s, b, from), Counting(p, k, at), Counting(t, b + k, from)
  PROVE  s \o p = t
<1>0. s \in Seq(Nat) /\ p \in Seq(Nat) /\ t \in Seq(Nat) /\ Len(s) = b /\ Len(p) = k /\ Len(t) = b + k
  BY DEF Counting
<1>1. s \o p \in Seq(Nat) /\ Len(s \o p) = b + k
  BY <1>0, ConcatProperties
<1>2. ASSUME NEW i \in 1..(b + k) PROVE (s \o p)[i] = t[i]
  <2>1. (s \o p)[i] = IF i <= b THEN s[i] ELSE p[i - b]
    BY <1>0, ConcatProperties
  <2>2. t[i] = from + i
    BY DEF Counting
  <2>3. CASE i <= b
    BY <2>1, <2>2, <2>3 DEF Counting
  <2>4. CASE i > b
    <3>1. i - b \in 1..k /\ k > 0 /\ ~(i <= b)
      BY <2>4
    <3>2. p[i - b] = at + (i - b)
      BY <3>1 DEF Counting
    <3>3. at + (i - b) = from + i
      BY <3>1
    <3> QED BY <2>1, <2>2, <3>1, <3>2, <3>3
  <2>5. i <= b \/ i > b
    OBVIOUS
  <2> QED BY <2>3, <2>4, <2>5
<1> QED BY <1>0, <1>1, <1>2, SeqEqual

LEMMA StretchCounts ==
  ASSUME NEW from \in Nat, NEW to \in Nat, from <= to, NEW n \in Nat
  PROVE  Counting(Stretch(from, to, n), Between(from, to, n), from)
BY StretchPoints DEF Counting

PageExtends(from, at, limit, n) ==
  Stretch(from, at, n) \o [i \in 1..PageSize(at, limit, n) |-> at + i] = Stretch(from, at + limit, n)

LEMMA StretchGrows ==
  ASSUME NEW from \in Nat, NEW at \in Nat, from <= at, NEW limit \in Nat, NEW n \in Nat
  PROVE  PageExtends(from, at, limit, n)
<1> DEFINE k == PageSize(at, limit, n)
           b == Between(from, at, n)
           c == Between(from, at + limit, n)
           s == Stretch(from, at, n)
           p == [i \in 1..k |-> at + i]
           t == Stretch(from, at + limit, n)
<1>1. b \in Nat /\ k \in Nat /\ c = b + k /\ (k > 0 => from + b = at)
  BY CountGrows
<1>2. Counting(s, b, from)
  BY StretchCounts
<1>3. at + limit \in Nat /\ from <= at + limit
  OBVIOUS
<1>4. Counting(t, c, from)
  BY <1>3, StretchCounts
<1> HIDE DEF b, c, k, s, t
<1>5. Counting(p, k, at)
  BY <1>1 DEF Counting
<1> HIDE DEF p
<1>6. s \o p = t
  BY <1>1, <1>2, <1>4, <1>5, Joined
<1> QED BY <1>6, Zenon DEF PageExtends, s, p, t, k

LEMMA PageIs ==
  ASSUME QueryInv
  PROVE  /\ Page(query) = [i \in 1..PageSize(query.offset, query.limit, matching) |-> query.offset + i]
         /\ PageSize(query.offset, query.limit, matching) \in Nat
<1>1. PICK at : at = query.offset
  OBVIOUS
<1>2. PICK limit : limit = query.limit
  OBVIOUS
<1>3. at \in Nat /\ limit \in Nat /\ matching \in Nat
  BY <1>1, <1>2 DEF QueryInv, QueryTyped
<1>4. Min({limit, matching - at}) = IF limit <= matching - at THEN limit ELSE matching - at
  BY <1>3, SmallerOfTwo
<1>5. PICK m \in Int : m = Min({limit, matching - at})
  BY <1>3, <1>4
<1>6. Max({0, m}) = IF 0 >= m THEN 0 ELSE m
  BY LargerOfTwo
<1>7. Max({0, m}) = PageSize(at, limit, matching) /\ PageSize(at, limit, matching) \in Nat
  BY <1>3, <1>4, <1>5, <1>6 DEF PageSize
<1> QED BY <1>1, <1>2, <1>5, <1>7 DEF Page

LEMMA QueryStart ==
  ASSUME QueryInit PROVE QueryInv
<1>1. /\ matching \in 0..MaxStored /\ tells_total \in BOOLEAN /\ query_state = "idle" /\ first_offset = 0
      /\ points = <<>> /\ has_more = FALSE
  BY DEF QueryInit
<1>2. QueryTyped(query) /\ query.offset = 0
  BY DEF QueryInit, QueryTyped, QueryFields, ReadTimes, Absent
<1>3. PagesKept
  BY <1>1, <1>2 DEF PagesKept
<1> QED BY <1>1, <1>2, <1>3 DEF QueryInv, QueryPlaces

LEMMA ArgumentsTyped ==
  ASSUME NEW q \in QueryArguments PROVE QueryTyped(q)
<1>1. q.start \in Times /\ q.end \in Times /\ q.limit \in QueryLimits /\ q.offset \in QueryOffsets /\ DOMAIN q = QueryFields
  BY DEF QueryArguments, QueryFields
<1>2. \A t \in Times : t.form \in {"absent", "garbled", "naive", "aware"}
  BY DEF Times
<1> QED BY <1>1, <1>2, QueryConstants DEF QueryTyped, ReadTimes

LEMMA LatestTyped ==
  ASSUME NEW l \in QueryLimits, NEW q,
         q = [own |-> TRUE, aggregate |-> "raw", quality |-> "absent", limit |-> l, offset |-> 0,
              start |-> [form |-> "naive", at |-> 0], end |-> [form |-> "naive", at |-> 0]]
  PROVE  QueryTyped(q)
BY QueryConstants DEF QueryTyped, ReadTimes, QueryFields

LEMMA CheckedTrue ==
  ASSUME NEW q, QueryTyped(q)
  PROVE  /\ Checked(q) \in {"refused", "raised", "sent"}
         /\ Checked(q) = "raised" => MixedZones(q)
<1>1. Checked(q) \in {"refused", "raised", "sent"}
  BY DEF Checked
<1>2. ASSUME Checked(q) = "raised" PROVE MixedZones(q)
  <2>1. ~ArgumentsRefused(q) /\ ComparisonRaises(q)
    BY <1>2 DEF Checked
  <2>2. q.start.form # "garbled" /\ q.end.form # "garbled"
    BY <2>1 DEF ArgumentsRefused
  <2>3. q.start.form # "absent" /\ q.end.form # "absent" /\ q.start.form # q.end.form
    BY <2>1 DEF ComparisonRaises, Given
  <2> QED BY <2>2, <2>3 DEF MixedZones, QueryTyped, ReadTimes
<1> QED BY <1>1, <1>2

LEMMA ExecuteQueryKeeps ==
  ASSUME QueryInv, NEW q, QueryTyped(q), ExecuteQuery(q) PROVE QueryInv'
<1>1. /\ query_state = "idle" /\ query' = q /\ query_state' = Checked(q) /\ first_offset' = q.offset
      /\ UNCHANGED <<matching, tells_total, points, has_more>>
  BY DEF ExecuteQuery
<1>2. points = <<>> /\ q.offset \in Nat /\ matching \in Nat
  BY <1>1 DEF QueryInv, PagesKept, QueryTyped
<1>3. Stretch(q.offset, q.offset, matching) = <<>>
  BY <1>2, StretchStart
<1>4. PagesKept'
  BY <1>1, <1>2, <1>3, CheckedTrue DEF PagesKept
<1>5. QueryTyped(query)' /\ query_state' \in QueryPlaces /\ (query_state' = "raised" => MixedZones(query)')
  BY <1>1, CheckedTrue DEF QueryPlaces
<1> QED BY <1>1, <1>4, <1>5 DEF QueryInv

LEMMA AnswerQueryKeeps ==
  ASSUME QueryInv, AnswerQuery PROVE QueryInv'
<1>1. /\ query_state = "sent" /\ points' = points \o Page(query) /\ query_state' = "answered"
      /\ has_more' = HasMore(query, IF tells_total THEN matching ELSE Len(Page(query)))
      /\ UNCHANGED <<matching, tells_total, query, first_offset>>
  BY DEF AnswerQuery
<1>2. /\ first_offset \in Nat /\ query.offset \in Nat /\ query.limit \in Nat /\ matching \in 0..MaxStored
      /\ first_offset <= query.offset /\ matching \in Nat
  BY DEF QueryInv, PagesKept, QueryTyped
<1>3. points = Stretch(first_offset, query.offset, matching)
  BY <1>1 DEF QueryInv, PagesKept
<1>4. points' = Stretch(first_offset, query.offset + query.limit, matching)
  <2>1. Page(query) = [i \in 1..PageSize(query.offset, query.limit, matching) |-> query.offset + i]
    BY PageIs
  <2>2. Stretch(first_offset, query.offset, matching) \o [i \in 1..PageSize(query.offset, query.limit, matching) |-> query.offset + i]
          = Stretch(first_offset, query.offset + query.limit, matching)
    <3>1. query.offset \in Nat /\ query.limit \in Nat
      BY <1>2
    <3> DEFINE from == first_offset
               at == query.offset
               limit == query.limit
    <3>2. from \in Nat /\ at \in Nat /\ limit \in Nat /\ matching \in Nat /\ from <= at
      BY <1>2, <3>1
    <3> HIDE DEF from, at, limit
    <3>3. PageExtends(from, at, limit, matching)
      BY <3>2, StretchGrows, Zenon
    <3> QED BY <3>3, Zenon DEF PageExtends, from, at, limit
  <2> QED BY <1>1, <1>3, <2>1, <2>2
<1>5. has_more' = (query.offset + query.limit < IF tells_total THEN matching ELSE Len(Page(query)))
  BY <1>1 DEF HasMore
<1>6. has_more' \in BOOLEAN /\ (tells_total => has_more' = (query.offset + query.limit < matching))
  BY <1>5
<1>7. \A i \in DOMAIN points' : points'[i] \in 1..MaxStored
  <2>1. query.offset + query.limit \in Nat /\ first_offset <= query.offset + query.limit
    BY <1>2
  <2>2. \A i \in DOMAIN points' : points'[i] \in 1..matching
    <3> DEFINE to == query.offset + query.limit
               s == Stretch(first_offset, to, matching)
               b == Between(first_offset, to, matching)
    <3>1. DOMAIN s = 1..b /\ \A i \in 1..b : s[i] = first_offset + i /\ first_offset + i \in 1..matching
      BY <1>2, <2>1, StretchPoints
    <3> HIDE DEF s, b
    <3>2. \A i \in DOMAIN s : s[i] \in 1..matching
      BY <3>1
    <3> QED BY <1>4, <3>2 DEF s
  <2> QED BY <1>2, <2>2, QueryConstants
<1>8. PagesKept'
  BY <1>1, <1>2, <1>4, <1>6, <1>7 DEF PagesKept
<1> QED BY <1>1, <1>6, <1>8 DEF QueryInv, QueryPlaces

LEMMA NextPageKeeps ==
  ASSUME QueryInv, NextPage PROVE QueryInv'
<1>1. query_state' = Checked(query') /\ UNCHANGED <<matching, tells_total, first_offset, points, has_more>>
  BY DEF NextPage
<1>2. QueryTyped(query)
  BY DEF QueryInv
<1>3. /\ QueryTyped(query)' /\ first_offset \in Nat /\ first_offset <= query'.offset
      /\ points = Stretch(first_offset, query'.offset, matching)
  <2>1. CASE query_state = "failed" /\ query' = query
    BY <1>2, <2>1 DEF QueryInv, PagesKept
  <2>2. CASE query_state = "answered" /\ query' = [query EXCEPT !.offset = @ + query.limit]
    <3>1. query'.offset = query.offset + query.limit /\ QueryTyped(query)'
      BY <1>2, <2>2 DEF QueryTyped, QueryFields, ReadTimes
    <3>2. first_offset \in Nat /\ first_offset <= query.offset + query.limit
      BY <1>2 DEF QueryInv, PagesKept, QueryTyped
    <3> QED BY <2>2, <3>1, <3>2 DEF QueryInv, PagesKept
  <2> QED BY <2>1, <2>2 DEF NextPage
<1>4. PICK q : q = query'
  OBVIOUS
<1>5. /\ query_state' \in {"refused", "raised", "sent"} /\ (query_state' = "raised" => MixedZones(query)')
  BY <1>1, <1>3, <1>4, CheckedTrue
<1>6. PagesKept'
  BY <1>1, <1>3, <1>5 DEF QueryInv, PagesKept
<1> QED BY <1>1, <1>3, <1>5, <1>6 DEF QueryInv, QueryPlaces

LEMMA QueryKeeps == QueryInv /\ (QueryNext \/ UNCHANGED queryVars) => QueryInv'
<1> SUFFICES ASSUME QueryInv, QueryNext \/ UNCHANGED queryVars PROVE QueryInv'
  OBVIOUS
<1>1. CASE UNCHANGED queryVars
  BY <1>1 DEF queryVars, QueryInv, PagesKept
<1>2. ASSUME NEW q \in QueryArguments, ExecuteQuery(q) PROVE QueryInv'
  BY <1>2, ArgumentsTyped, ExecuteQueryKeeps
<1>3. ASSUME NEW l \in QueryLimits, QueryLatest(l) PROVE QueryInv'
  <2>1. PICK q : q = [own |-> TRUE, aggregate |-> "raw", quality |-> "absent", limit |-> l, offset |-> 0,
              start |-> [form |-> "naive", at |-> 0], end |-> [form |-> "naive", at |-> 0]]
    OBVIOUS
  <2>2. QueryTyped(q)
    BY <2>1, LatestTyped
  <2>3. ExecuteQuery(q)
    BY <1>3, <2>1 DEF QueryLatest
  <2> QED BY <2>2, <2>3, ExecuteQueryKeeps
<1>4. CASE QueryFails
  BY <1>4 DEF QueryFails, QueryInv, QueryPlaces, PagesKept
<1> QED BY <1>1, <1>2, <1>3, <1>4, AnswerQueryKeeps, NextPageKeeps DEF QueryNext

LEMMA QueryHolds == QueryInv => QueryTypeOK /\ PagesCoverAll /\ RaisesOnlyForMixedZones
<1> SUFFICES ASSUME QueryInv PROVE QueryTypeOK /\ PagesCoverAll /\ RaisesOnlyForMixedZones
  OBVIOUS
<1>1. QueryTypeOK
  BY DEF QueryInv, PagesKept, QueryTypeOK, QueryPlaces, ToSet
<1>2. RaisesOnlyForMixedZones
  BY DEF QueryInv, RaisesOnlyForMixedZones, MixedZones
<1>3. PagesCoverAll
  <2> SUFFICES ASSUME tells_total, query_state = "answered", ~has_more
               PROVE  points = [i \in 1..Max({0, matching - first_offset}) |-> first_offset + i]
    BY DEF PagesCoverAll
  <2>1. /\ points = Stretch(first_offset, query.offset + query.limit, matching)
        /\ ~(query.offset + query.limit < matching)
    BY DEF QueryInv, PagesKept
  <2>2. /\ first_offset \in Nat /\ query.offset \in Nat /\ query.limit \in Nat /\ matching \in Nat
        /\ first_offset <= query.offset
    BY DEF QueryInv, PagesKept, QueryTyped
  <2>3. Max({0, matching - first_offset}) = IF 0 >= matching - first_offset THEN 0 ELSE matching - first_offset
    BY <2>2, LargerOfTwo
  <2>4. Between(first_offset, query.offset + query.limit, matching) = Max({0, matching - first_offset})
    BY <2>1, <2>2, <2>3 DEF Between
  <2> QED BY <2>1, <2>4 DEF Stretch
<1> QED BY <1>1, <1>2, <1>3

-----------------------------------------------------------------------------
(* Walks over the assets.  A frame's list is the children of its asset,    *)
(* followed by repetitions of those it has entered; a frame that has begun *)
(* is within the depth asked for; and what a lookup has expanded without   *)
(* being overlapped is still in the visited set.                           *)

Frames == [asset : Assets, ids : Seq(Assets), slice : Seq(Assets), next : Nat]

Repeats(ids, kids) ==
  /\ Len(ids) >= Len(kids)
  /\ \A i \in 1..Len(kids) : ids[i] = kids[i]
  /\ \A i \in 1..Len(ids) : \E j \in 1..Len(kids) : kids[j] = ids[i]

Walked(n) == IF n > MAX_CHILDREN THEN MAX_CHILDREN ELSE n

FrameBegun(f, kids) ==
  /\ Len(f.slice) = Walked(Len(kids)) /\ \A i \in 1..Len(f.slice) : f.slice[i] = kids[i]
  /\ f.next <= Len(f.slice) + 1 /\ Len(f.ids) + 1 <= Len(kids) + f.next

FrameKept(f, k) ==
  /\ f \in Frames /\ Repeats(f.ids, k[f.asset])
  /\ f.next = 0 => f.ids = k[f.asset]
  /\ f.next > 0 => FrameBegun(f, k[f.asset])

FramesKept(F, depth, k) ==
  /\ F \in Seq(Frames) /\ Len(F) <= depth + 1
  /\ \A i \in 1..Len(F) : FrameKept(F[i], k) /\ (F[i].next > 0 => i <= depth)

AnswerKept(answer, k) ==
  /\ answer \in Seq(Assets)
  /\ answer # <<>> =>
       \E a \in Assets : Repeats(answer, k[a]) /\ Len(answer) <= Len(k[a]) + Walked(Len(k[a]))

ExpandedKept(e, alone, seen) ==
  /\ e \in Seq(Assets)
  /\ alone => \A i \in 1..Len(e) : e[i] \in seen /\ \A j \in 1..Len(e) : i # j => e[i] # e[j]

LookupFields == {"pc", "depth", "frames", "expanded", "alone", "answer"}
LookupPlaces == Kinds \cup {"idle", "entity_asset", "walk", "done"}

LookupKept(r, k, seen) ==
  /\ DOMAIN r = LookupFields /\ r.pc \in LookupPlaces /\ r.depth \in Nat
  /\ FramesKept(r.frames, r.depth, k) /\ (r.pc = "walk" => r.frames # <<>>)
  /\ ExpandedKept(r.expanded, r.alone, seen) /\ (r.pc = "idle" => r.expanded = <<>>)
  /\ AnswerKept(r.answer, k)

AssetInv ==
  /\ children \in [Assets -> Seq(Assets)] /\ visited \subseteq Assets
  /\ lookup = [l \in Lookups |-> lookup[l]]
  /\ \A l \in Lookups : LookupKept(lookup[l], children, visited)

LEMMA FrontOf ==
  ASSUME NEW S, NEW F \in Seq(S), F # <<>>
  PROVE  /\ Front(F) \in Seq(S) /\ Len(Front(F)) = Len(F) - 1 /\ Last(F) \in S /\ Last(F) = F[Len(F)]
         /\ \A i \in 1..(Len(F) - 1) : Front(F)[i] = F[i]
         /\ Len(F) \in Nat /\ Len(F) >= 1
<1>1. Len(F) \in Nat /\ Len(F) >= 1
  OBVIOUS
<1>2. Last(F) \in S /\ Last(F) = F[Len(F)]
  BY <1>1 DEF Last
<1>3. Front(F) \in Seq(S) /\ Len(Front(F)) = Len(F) - 1
  <2>1. 1 \in Int /\ Len(F) - 1 \in Int /\ \A i \in 1..(Len(F) - 1) : F[i] \in S
    BY <1>1
  <2>2. /\ SubSeq(F, 1, Len(F) - 1) \in Seq(S)
        /\ Len(SubSeq(F, 1, Len(F) - 1)) = IF 1 <= Len(F) - 1 THEN Len(F) - 1 - 1 + 1 ELSE 0
    BY <2>1, SubSeqProperties
  <2>3. ASSUME NEW n \in Nat, n >= 1 PROVE (IF 1 <= n - 1 THEN n - 1 - 1 + 1 ELSE 0) = n - 1
    BY <2>3
  <2> QED BY <1>1, <2>2, <2>3 DEF Front
<1>4. \A i \in 1..(Len(F) - 1) : Front(F)[i] = F[i]
  BY <1>1 DEF Front
<1> QED BY <1>1, <1>2, <1>3, <1>4

LEMMA NewTop ==
  ASSUME NEW S, NEW F \in Seq(S), F # <<>>, NEW x \in S
  PROVE  /\ Append(Front(F), x) \in Seq(S) /\ Len(Append(Front(F), x)) = Len(F)
         /\ \A i \in 1..Len(F) : Append(Front(F), x)[i] = IF i = Len(F) THEN x ELSE F[i]
<1> DEFINE G == Front(F)
<1>1. G \in Seq(S) /\ Len(G) = Len(F) - 1 /\ Len(F) \in Nat /\ \A i \in 1..(Len(F) - 1) : G[i] = F[i]
  BY FrontOf
<1> HIDE DEF G
<1>2. Append(G, x) \in Seq(S) /\ Len(Append(G, x)) = Len(F)
  BY <1>1
<1>3. ASSUME NEW i \in 1..Len(F) PROVE Append(G, x)[i] = IF i = Len(F) THEN x ELSE F[i]
  <2>1. CASE i = Len(F)
    BY <1>1, <2>1
  <2>2. CASE i # Len(F)
    <3>1. i \in 1..Len(G) /\ i \in 1..(Len(F) - 1)
      BY <1>1, <2>2
    <3>2. Append(G, x)[i] = G[i]
      BY <1>1, <3>1
    <3> QED BY <1>1, <2>2, <3>1, <3>2
  <2> QED BY <2>1, <2>2
<1> QED BY <1>2, <1>3 DEF G

LEMMA PushedTop ==
  ASSUME NEW S, NEW F \in Seq(S), F # <<>>, NEW x \in S, NEW y \in S
  PROVE  /\ Front(F) \o <<x, y>> \in Seq(S) /\ Len(Front(F) \o <<x, y>>) = Len(F) + 1
         /\ \A i \in 1..(Len(F) + 1) : (Front(F) \o <<x, y>>)[i] =
               IF i = Len(F) + 1 THEN y ELSE IF i = Len(F) THEN x ELSE F[i]
<1> DEFINE G == Front(F)
           p == <<x, y>>
<1>1. G \in Seq(S) /\ Len(G) = Len(F) - 1 /\ Len(F) \in Nat /\ \A i \in 1..(Len(F) - 1) : G[i] = F[i]
  BY FrontOf
<1>2. p \in Seq(S) /\ Len(p) = 2 /\ p[1] = x /\ p[2] = y
  OBVIOUS
<1> HIDE DEF G, p
<1>3. /\ G \o p \in Seq(S) /\ Len(G \o p) = Len(G) + Len(p)
      /\ \A i \in 1..(Len(G) + Len(p)) : (G \o p)[i] = IF i <= Len(G) THEN G[i] ELSE p[i - Len(G)]
  BY <1>1, <1>2, ConcatProperties
<1>4. Len(G) + Len(p) = Len(F) + 1
  BY <1>1, <1>2
<1>5. ASSUME NEW i \in 1..(Len(F) + 1)
      PROVE  (G \o p)[i] = IF i = Len(F) + 1 THEN y ELSE IF i = Len(F) THEN x ELSE F[i]
  <2>1. (G \o p)[i] = IF i <= Len(G) THEN G[i] ELSE p[i - Len(G)]
    BY <1>3, <1>4
  <2>2. CASE i = Len(F) + 1
    <3>1. ~(i <= Len(G)) /\ i - Len(G) = 2
      BY <1>1, <2>2
    <3> QED BY <1>2, <2>1, <2>2, <3>1
  <2>3. CASE i = Len(F)
    <3>1. ~(i <= Len(G)) /\ i - Len(G) = 1 /\ i # Len(F) + 1
      BY <1>1, <2>3
    <3> QED BY <1>2, <2>1, <2>3, <3>1
  <2>4. CASE i # Len(F) /\ i # Len(F) + 1
    <3>1. i <= Len(G) /\ i \in 1..(Len(F) - 1)
      BY <1>1, <2>4
    <3> QED BY <1>1, <2>1, <2>4, <3>1
  <2> QED BY <2>2, <2>3, <2>4
<1> QED BY <1>3, <1>4, <1>5 DEF G, p

LEMMA FramesReturn ==
  ASSUME NEW F, NEW depth \in Nat, NEW k, FramesKept(F, depth, k), F # <<>>
  PROVE  FramesKept(Front(F), depth, k)
<1>1. F \in Seq(Frames)
  BY DEF FramesKept
<1>2. /\ Front(F) \in Seq(Frames) /\ Len(Front(F)) = Len(F) - 1 /\ \A i \in 1..(Len(F) - 1) : Front(F)[i] = F[i]
      /\ Len(F) \in Nat
  BY <1>1, FrontOf
<1> QED BY <1>2 DEF FramesKept

LEMMA FramesTop ==
  ASSUME NEW F, NEW depth \in Nat, NEW k, FramesKept(F, depth, k), F # <<>>,
         NEW x, FrameKept(x, k), Len(F) <= depth
  PROVE  FramesKept(Append(Front(F), x), depth, k)
<1>1. F \in Seq(Frames) /\ x \in Frames
  BY DEF FramesKept, FrameKept
<1> DEFINE G == Append(Front(F), x)
<1>2. /\ G \in Seq(Frames) /\ Len(G) = Len(F) /\ \A i \in 1..Len(F) : G[i] = IF i = Len(F) THEN x ELSE F[i]
  BY <1>1, NewTop
<1> HIDE DEF G
<1> QED BY <1>1, <1>2 DEF FramesKept, G

LEMMA FramesPush ==
  ASSUME NEW F, NEW depth \in Nat, NEW k, FramesKept(F, depth, k), F # <<>>, Len(F) <= depth,
         NEW x, FrameKept(x, k), NEW y, FrameKept(y, k), y.next = 0
  PROVE  FramesKept(Front(F) \o <<x, y>>, depth, k)
<1>1. F \in Seq(Frames) /\ x \in Frames /\ y \in Frames
  BY DEF FramesKept, FrameKept
<1> DEFINE G == Front(F) \o <<x, y>>
<1>2. /\ G \in Seq(Frames) /\ Len(G) = Len(F) + 1
      /\ \A i \in 1..(Len(F) + 1) : G[i] = IF i = Len(F) + 1 THEN y ELSE IF i = Len(F) THEN x ELSE F[i]
  BY <1>1, PushedTop
<1> HIDE DEF G
<1>3. Len(F) \in Nat
  BY <1>1
<1>4. Len(G) <= depth + 1
  BY <1>2, <1>3
<1>5. ASSUME NEW i \in 1..Len(G) PROVE FrameKept(G[i], k) /\ (G[i].next > 0 => i <= depth)
  <2>1. i \in 1..(Len(F) + 1)
    BY <1>2
  <2>2. CASE i = Len(F) + 1
    BY <1>2, <2>1, <2>2
  <2>3. CASE i = Len(F)
    BY <1>2, <1>3, <2>1, <2>3
  <2>4. CASE i # Len(F) + 1 /\ i # Len(F)
    <3>1. i \in 1..Len(F) /\ G[i] = F[i]
      BY <1>2, <1>3, <2>1, <2>4
    <3> QED BY <3>1 DEF FramesKept
  <2> QED BY <2>2, <2>3, <2>4
<1>6. FramesKept(G, depth, k)
  BY <1>2, <1>4, <1>5 DEF FramesKept
<1> QED BY <1>6 DEF G

(* What the walk does to the frame on top. *)
LEMMA NewFrame ==
  ASSUME NEW a \in Assets, NEW k \in [Assets -> Seq(Assets)]
  PROVE  FrameKept(Frame(a, k[a]), k) /\ Frame(a, k[a]).next = 0
<1>1. PICK f : f = Frame(a, k[a])
  OBVIOUS
<1>2. f \in Frames /\ f.asset = a /\ f.ids = k[a] /\ f.next = 0
  BY <1>1 DEF Frame, Frames
<1>3. Repeats(k[a], k[a])
  BY DEF Repeats
<1> QED BY <1>1, <1>2, <1>3 DEF FrameKept

LEMMA FrameBegins ==
  ASSUME NEW f, NEW k \in [Assets -> Seq(Assets)], FrameKept(f, k), f.next = 0, NEW g, NEW s,
         s = SubSeq(f.ids, 1, Walked(Len(f.ids))), g = [f EXCEPT !.slice = s, !.next = 1]
  PROVE  FrameKept(g, k)
<1>1. PICK kids : kids = k[f.asset]
  OBVIOUS
<1>2. f \in Frames /\ f.ids = kids /\ kids \in Seq(Assets) /\ Repeats(f.ids, kids)
  BY <1>1 DEF FrameKept, Frames
<1>3. Walked(Len(kids)) \in Nat /\ Walked(Len(kids)) <= Len(kids) /\ Len(kids) \in Nat
  BY <1>2, AssetConstants DEF Walked
<1>4. s \in Seq(Assets) /\ Len(s) = Walked(Len(kids)) /\ \A i \in 1..Len(s) : s[i] = kids[i]
  <2> DEFINE w == Walked(Len(kids))
  <2> HIDE DEF w
  <2>1. 1 \in Int /\ w \in Int /\ w \in Nat /\ \A i \in 1..w : kids[i] \in Assets
    BY <1>2, <1>3 DEF w
  <2>2. s = SubSeq(kids, 1, w)
    BY <1>2 DEF w
  <2>3. /\ SubSeq(kids, 1, w) \in Seq(Assets) /\ Len(SubSeq(kids, 1, w)) = IF 1 <= w THEN w - 1 + 1 ELSE 0
        /\ \A i \in 1..(w - 1 + 1) : SubSeq(kids, 1, w)[i] = kids[1 + i - 1]
    <3>2. \A i \in 1..w : kids[i] \in Assets
      BY <2>1
    <3>3. /\ SubSeq(kids, 1, w) \in Seq(Assets) /\ Len(SubSeq(kids, 1, w)) = IF 1 <= w THEN w - 1 + 1 ELSE 0
      BY <2>1, <3>2, SubSeqProperties
    <3>4. \A i \in 1..(w - 1 + 1) : SubSeq(kids, 1, w)[i] = kids[1 + i - 1]
      BY <2>1, <3>2, SubSeqProperties
    <3> QED BY <3>3, <3>4
  <2>4. Len(s) = w
    <3>1. (IF 1 <= w THEN w - 1 + 1 ELSE 0) = w
      BY <2>1
    <3> QED BY <2>2, <2>3, <3>1
  <2>5. ASSUME NEW i \in 1..w PROVE s[i] = kids[i]
    <3>1. i \in 1..(w - 1 + 1) /\ 1 + i - 1 = i
      BY <2>1
    <3> QED BY <2>2, <2>3, <3>1
  <2> QED BY <2>2, <2>3, <2>4, <2>5 DEF w
<1>5. g \in Frames
  <2> DEFINE half == [f EXCEPT !.slice = s]
  <2>1. half \in Frames
    BY <1>2, <1>4 DEF Frames
  <2>2. g = [half EXCEPT !.next = 1]
    OBVIOUS
  <2> HIDE DEF half
  <2> QED BY <2>1, <2>2 DEF Frames
<1>6. g.asset = f.asset /\ g.ids = f.ids /\ g.slice = s /\ g.next = 1
  BY <1>2 DEF Frames
<1>7. FrameBegun(g, kids)
  BY <1>2, <1>3, <1>4, <1>6 DEF FrameBegun
<1> QED BY <1>1, <1>2, <1>5, <1>6, <1>7 DEF FrameKept

LEMMA FramePasses ==
  ASSUME NEW f, NEW k, FrameKept(f, k), f.next \in 1..Len(f.slice), NEW n \in Nat,
         f.next <= n, n <= Len(f.slice) + 1, NEW g, g = [f EXCEPT !.next = n]
  PROVE  FrameKept(g, k)
<1>1. PICK kids : kids = k[f.asset]
  OBVIOUS
<1>2. f \in Frames /\ Repeats(f.ids, kids) /\ FrameBegun(f, kids)
  BY <1>1 DEF FrameKept
<1>3. g \in Frames /\ g.asset = f.asset /\ g.ids = f.ids /\ g.slice = f.slice /\ g.next = n
  BY <1>2 DEF Frames
<1>4. Len(f.ids) \in Nat /\ f.next \in Nat /\ f.next > 0 /\ n > 0
  BY <1>2 DEF Frames
<1>5. Len(kids) \in Int
  OBVIOUS
<1>6. FrameBegun(g, kids)
  BY <1>2, <1>3, <1>4, <1>5 DEF FrameBegun
<1> QED BY <1>1, <1>2, <1>3, <1>4, <1>6 DEF FrameKept

LEMMA FrameAppends ==
  ASSUME NEW f, NEW k \in [Assets -> Seq(Assets)], FrameKept(f, k), f.next \in 1..Len(f.slice),
         NEW g, g = [f EXCEPT !.next = f.next + 1, !.ids = Append(f.ids, f.slice[f.next])]
  PROVE  FrameKept(g, k) /\ f.slice[f.next] \in Assets
<1>1. PICK kids : kids = k[f.asset]
  OBVIOUS
<1>2. PICK c : c = f.slice[f.next]
  OBVIOUS
<1>3. PICK ids : ids = Append(f.ids, c)
  OBVIOUS
<1>4. f \in Frames /\ Repeats(f.ids, kids) /\ FrameBegun(f, kids)
  BY <1>1 DEF FrameKept
<1>5. /\ f.asset \in Assets /\ f.ids \in Seq(Assets) /\ f.slice \in Seq(Assets) /\ f.next \in Nat /\ f.next > 0
      /\ kids \in Seq(Assets)
  BY <1>1, <1>4 DEF Frames
<1>6. c \in Assets
  BY <1>2, <1>5
<1>7. ids \in Seq(Assets) /\ Len(ids) = Len(f.ids) + 1 /\ ids[Len(f.ids) + 1] = c /\ \A i \in 1..Len(f.ids) : ids[i] = f.ids[i]
  BY <1>3, <1>5, <1>6
<1>8. g \in Frames
  <2>0. PICK n \in Nat : n = f.next + 1
    BY <1>5
  <2> DEFINE half == [f EXCEPT !.next = n]
  <2>1. half \in Frames
    BY <1>4 DEF Frames
  <2>2. g = [half EXCEPT !.ids = ids]
    BY <1>2, <1>3, <2>0
  <2> HIDE DEF half
  <2> QED BY <1>7, <2>1, <2>2 DEF Frames
<1>9. g.asset = f.asset /\ g.ids = ids /\ g.slice = f.slice /\ g.next = f.next + 1
  BY <1>2, <1>3, <1>4 DEF Frames
<1>10. f.next \in 1..Len(kids) /\ kids[f.next] = c
  <2>1. Len(kids) \in Nat /\ Walked(Len(kids)) <= Len(kids)
    BY <1>5, AssetConstants DEF Walked
  <2>2. Len(f.slice) = Walked(Len(kids)) /\ \A i \in 1..Len(f.slice) : f.slice[i] = kids[i]
    BY <1>4 DEF FrameBegun
  <2>3. Len(f.slice) \in Nat
    BY <1>5
  <2>4. f.next \in 1..Len(kids)
    BY <1>5, <2>1, <2>2, <2>3
  <2> QED BY <1>2, <2>2, <2>4
<1>11. Repeats(ids, kids)
  <2>1. Len(f.ids) \in Nat /\ Len(kids) \in Nat /\ Len(f.ids) >= Len(kids)
    BY <1>4, <1>5 DEF Repeats
  <2>2. Len(ids) >= Len(kids)
    BY <1>7, <2>1
  <2>3. \A i \in 1..Len(kids) : ids[i] = kids[i]
    BY <1>4, <1>7, <2>1 DEF Repeats
  <2>4. ASSUME NEW i \in 1..Len(ids) PROVE \E j \in 1..Len(kids) : kids[j] = ids[i]
    <3>1. CASE i = Len(f.ids) + 1
      BY <1>7, <1>10, <3>1
    <3>2. CASE i # Len(f.ids) + 1
      <4>1. i \in 1..Len(f.ids)
        BY <1>7, <2>1, <3>2
      <4> QED BY <1>4, <1>7, <4>1 DEF Repeats
    <3> QED BY <3>1, <3>2
  <2> QED BY <2>2, <2>3, <2>4 DEF Repeats
<1>12. FrameBegun(g, kids)
  <2>1. /\ Len(f.slice) = Walked(Len(kids)) /\ \A i \in 1..Len(f.slice) : f.slice[i] = kids[i]
        /\ Len(f.ids) + 1 <= Len(kids) + f.next
    BY <1>4 DEF FrameBegun
  <2>2. Len(f.slice) \in Nat /\ Len(f.ids) \in Nat /\ Len(kids) \in Nat /\ f.next <= Len(f.slice)
    BY <1>5
  <2>3. g.next <= Len(g.slice) + 1 /\ Len(g.ids) + 1 <= Len(kids) + g.next
    <3>1. ASSUME NEW a \in Nat, NEW b \in Nat, NEW c_ \in Nat, NEW d \in Nat, d <= a, b + 1 <= c_ + d
          PROVE  d + 1 <= a + 1 /\ b + 1 + 1 <= c_ + (d + 1)
      BY <3>1
    <3>2. f.next + 1 <= Len(f.slice) + 1 /\ Len(f.ids) + 1 + 1 <= Len(kids) + (f.next + 1)
      BY <1>5, <2>1, <2>2, <3>1
    <3> QED BY <1>7, <1>9, <3>2
  <2> QED BY <1>9, <2>1, <2>3 DEF FrameBegun
<1>13. g.next > 0 /\ g.next # 0
  BY <1>5, <1>9
<1> QED BY <1>1, <1>2, <1>6, <1>8, <1>9, <1>11, <1>12, <1>13 DEF FrameKept

(* The list of a frame that returns is an answer. *)
LEMMA FrameAnswers ==
  ASSUME NEW f, NEW k \in [Assets -> Seq(Assets)], FrameKept(f, k), f.next = 0 \/ f.next > Len(f.slice)
  PROVE  AnswerKept(f.ids, k)
<1>1. PICK kids : kids = k[f.asset]
  OBVIOUS
<1>2. f \in Frames /\ Repeats(f.ids, kids)
  BY <1>1 DEF FrameKept
<1>3. f.asset \in Assets /\ f.ids \in Seq(Assets) /\ f.slice \in Seq(Assets) /\ f.next \in Nat /\ kids \in Seq(Assets)
  BY <1>1, <1>2 DEF Frames
<1>4. Len(f.ids) <= Len(kids) + Walked(Len(kids))
  <2>1. Walked(Len(kids)) \in Nat /\ Len(kids) \in Nat /\ Len(f.ids) \in Nat /\ Len(f.slice) \in Nat
    BY <1>3, AssetConstants DEF Walked
  <2>2. CASE f.next = 0
    BY <1>1, <2>1, <2>2 DEF FrameKept
  <2>3. CASE f.next # 0
    <3>1. FrameBegun(f, kids) /\ f.next > Len(f.slice)
      BY <1>1, <1>3, <2>3 DEF FrameKept
    <3> QED BY <1>3, <2>1, <3>1 DEF FrameBegun
  <2> QED BY <2>2, <2>3
<1> QED BY <1>1, <1>2, <1>3, <1>4 DEF AnswerKept

LEMMA IdleKept ==
  ASSUME NEW k, NEW seen PROVE LookupKept(IdleLookup, k, seen)
<1>1. /\ DOMAIN IdleLookup = LookupFields /\ IdleLookup.pc = "idle" /\ IdleLookup.depth = 0 /\ IdleLookup.frames = <<>>
      /\ IdleLookup.expanded = <<>> /\ IdleLookup.answer = <<>>
  BY DEF IdleLookup, LookupFields
<1>2. FramesKept(<<>>, 0, k) /\ AnswerKept(<<>>, k) /\ \A alone : ExpandedKept(<<>>, alone, seen)
  BY DEF FramesKept, AnswerKept, ExpandedKept
<1> QED BY <1>1, <1>2 DEF LookupKept, LookupPlaces

LEMMA AssetStart ==
  ASSUME children \in [Assets -> Seq(Assets)], visited = {}, lookup = [l \in Lookups |-> IdleLookup]
  PROVE  AssetInv
BY IdleKept DEF AssetInv

(* What a lookup has expanded stays in a visited set that only grows. *)
LEMMA SeenGrows ==
  ASSUME NEW r, NEW k, NEW seen, NEW more, seen \subseteq more, LookupKept(r, k, seen)
  PROVE  LookupKept(r, k, more)
<1>1. ExpandedKept(r.expanded, r.alone, more)
  BY DEF LookupKept, ExpandedKept
<1> QED BY <1>1 DEF LookupKept

LEMMA LookupMoves ==
  ASSUME AssetInv, NEW l \in Lookups, NEW r, lookup' = [lookup EXCEPT ![l] = r], children' = children,
         visited \subseteq visited', visited' \subseteq Assets, LookupKept(r, children, visited')
  PROVE  AssetInv'
<1>1. lookup' = [m \in Lookups |-> lookup'[m]] /\ \A m \in Lookups : lookup'[m] = IF m = l THEN r ELSE lookup[m]
  BY DEF AssetInv
<1>2. PICK k : k = children
  OBVIOUS
<1>3. PICK seen : seen = visited
  OBVIOUS
<1>4. PICK more : more = visited'
  OBVIOUS
<1>5. \A m \in Lookups : LookupKept(lookup[m], k, seen)
  BY <1>2, <1>3 DEF AssetInv
<1>6. seen \subseteq more
  BY <1>3, <1>4
<1>7. \A m \in Lookups : LookupKept(lookup[m], k, more)
  BY <1>5, <1>6, SeenGrows
<1>8. \A m \in Lookups : LookupKept(lookup'[m], k, more)
  BY <1>1, <1>2, <1>4, <1>7
<1> QED BY <1>1, <1>2, <1>4, <1>8 DEF AssetInv

LEMMA ExecuteLookupKeeps ==
  ASSUME AssetInv, NEW l \in Lookups, NEW kind \in Kinds, NEW depth \in TreeDepths, ExecuteLookup(l, kind, depth)
  PROVE  AssetInv'
<1> DEFINE started(alone) == [IdleLookup EXCEPT !.pc = kind, !.depth = depth, !.alone = alone]
           passed(r) == [r EXCEPT !.alone = FALSE]
<1>1. PICK alone : alone = (\A n \in Lookups : lookup[n].pc \in {"idle", "done"})
  OBVIOUS
<1>2. /\ visited' = {} /\ children' = children
      /\ lookup' = [m \in Lookups |-> IF m = l THEN started(alone)
                                      ELSE IF lookup[m].pc = "idle" THEN lookup[m] ELSE passed(lookup[m])]
  BY <1>1 DEF ExecuteLookup
<1>3. ASSUME NEW k PROVE LookupKept(started(alone), k, {})
  <2>1. PICK r : r = started(alone)
    OBVIOUS
  <2>2. /\ DOMAIN r = LookupFields /\ r.pc = kind /\ r.depth = depth /\ r.frames = <<>>
        /\ r.expanded = <<>> /\ r.answer = <<>>
    BY <2>1 DEF IdleLookup, LookupFields
  <2>3. kind \in LookupPlaces /\ kind # "walk" /\ depth \in Nat
    BY AssetConstants DEF Kinds, LookupPlaces
  <2>4. FramesKept(<<>>, depth, k) /\ AnswerKept(<<>>, k) /\ \A a : ExpandedKept(<<>>, a, {})
    BY <2>3 DEF FramesKept, AnswerKept, ExpandedKept
  <2>5. LookupKept(r, k, {})
    BY <2>2, <2>3, <2>4 DEF LookupKept
  <2> QED BY <2>1, <2>5
<1>4. ASSUME NEW r, NEW k, NEW seen, LookupKept(r, k, seen), r.pc = "idle" PROVE LookupKept(r, k, {})
  <2>1. ExpandedKept(r.expanded, r.alone, {})
    BY <1>4 DEF LookupKept, ExpandedKept
  <2> QED BY <1>4, <2>1 DEF LookupKept
<1>5. ASSUME NEW r, NEW k, NEW seen, LookupKept(r, k, seen) PROVE LookupKept(passed(r), k, {})
  <2>1. PICK u : u = passed(r)
    OBVIOUS
  <2>2. /\ DOMAIN u = LookupFields /\ u.pc = r.pc /\ u.depth = r.depth /\ u.frames = r.frames
        /\ u.expanded = r.expanded /\ u.answer = r.answer /\ u.alone = FALSE
    BY <1>5, <2>1 DEF LookupKept, LookupFields
  <2>3. ExpandedKept(u.expanded, FALSE, {})
    BY <1>5, <2>2 DEF LookupKept, ExpandedKept
  <2>4. LookupKept(u, k, {})
    BY <1>5, <2>2, <2>3 DEF LookupKept
  <2> QED BY <2>1, <2>4
<1> HIDE DEF started, passed
<1>6. PICK k : k = children
  OBVIOUS
<1>7. PICK seen : seen = visited
  OBVIOUS
<1>8. \A m \in Lookups : LookupKept(lookup[m], k, seen)
  BY <1>6, <1>7 DEF AssetInv
<1>9. ASSUME NEW m \in Lookups PROVE LookupKept(lookup'[m], k, {})
  <2>1. lookup'[m] = IF m = l THEN started(alone) ELSE IF lookup[m].pc = "idle" THEN lookup[m] ELSE passed(lookup[m])
    BY <1>2
  <2>2. LookupKept(lookup[m], k, seen)
    BY <1>8
  <2>3. CASE m = l
    BY <1>3, <2>1, <2>3
  <2>4. CASE m # l /\ lookup[m].pc = "idle"
    BY <1>4, <2>1, <2>2, <2>4
  <2>5. CASE m # l /\ lookup[m].pc # "idle"
    BY <1>5, <2>1, <2>2, <2>5
  <2> QED BY <2>3, <2>4, <2>5
<1>10. lookup' = [m \in Lookups |-> lookup'[m]]
  BY <1>2
<1> QED BY <1>2, <1>6, <1>9, <1>10 DEF AssetInv

(* A lookup goes to another place and nothing else of it changes. *)
LEMMA PlaceKeeps ==
  ASSUME AssetInv, NEW l \in Lookups, NEW place \in {"done", "entity_asset"},
         lookup' = [lookup EXCEPT ![l].pc = place], UNCHANGED <<children, visited>>
  PROVE  AssetInv'
<1>1. PICK r : r = [lookup[l] EXCEPT !.pc = place]
  OBVIOUS
<1>2. LookupKept(lookup[l], children, visited)
  BY DEF AssetInv
<1>3. /\ DOMAIN r = LookupFields /\ r.pc = place /\ r.depth = lookup[l].depth /\ r.frames = lookup[l].frames
      /\ r.expanded = lookup[l].expanded /\ r.answer = lookup[l].answer /\ r.alone = lookup[l].alone
  BY <1>1, <1>2 DEF LookupKept, LookupFields
<1>4. LookupKept(r, children, visited)
  BY <1>2, <1>3 DEF LookupKept, LookupPlaces
<1>5. lookup' = [lookup EXCEPT ![l] = r]
  BY <1>1 DEF AssetInv
<1>6. visited' = visited /\ children' = children /\ visited \subseteq Assets
  BY DEF AssetInv
<1>7. visited \subseteq visited' /\ visited' \subseteq Assets /\ LookupKept(r, children, visited')
  BY <1>4, <1>6, Zenon
<1> QED BY <1>5, <1>6, <1>7, LookupMoves, Zenon

LEMMA ByAssetIdKeeps ==
  ASSUME AssetInv, NEW l \in Lookups, NEW root \in Assets, LookupByAssetId(l, root)
  PROVE  AssetInv'
<1>1. UNCHANGED <<children, visited>>
  BY DEF LookupByAssetId
<1>2. CASE lookup' = [lookup EXCEPT ![l].pc = "done"]
  BY <1>1, <1>2, PlaceKeeps
<1>3. CASE lookup' = [lookup EXCEPT ![l].pc = "walk", ![l].frames = <<Frame(root, children[root])>>]
  <2>1. PICK f : f = Frame(root, children[root])
    OBVIOUS
  <2>2. PICK k \in [Assets -> Seq(Assets)] : k = children
    BY DEF AssetInv
  <2>3. FrameKept(f, k) /\ f.next = 0
    BY <2>1, <2>2, NewFrame
  <2>4. PICK r : r = [lookup[l] EXCEPT !.pc = "walk", !.frames = <<f>>]
    OBVIOUS
  <2>5. LookupKept(lookup[l], k, visited)
    BY <2>2 DEF AssetInv
  <2>6. /\ DOMAIN r = LookupFields /\ r.pc = "walk" /\ r.depth = lookup[l].depth /\ r.frames = <<f>>
        /\ r.expanded = lookup[l].expanded /\ r.answer = lookup[l].answer /\ r.alone = lookup[l].alone
    BY <2>4, <2>5 DEF LookupKept, LookupFields
  <2>7. lookup[l].depth \in Nat
    BY <2>5 DEF LookupKept
  <2>8. FramesKept(<<f>>, r.depth, k) /\ <<f>> # <<>>
    <3>1. f \in Frames
      BY <2>3 DEF FrameKept
    <3>2. <<f>> \in Seq(Frames) /\ Len(<<f>>) = 1 /\ <<f>>[1] = f
      BY <3>1
    <3>3. \A i \in 1..Len(<<f>>) : <<f>>[i] = f
      BY <3>2
    <3>4. Len(<<f>>) <= r.depth + 1
      BY <2>6, <2>7, <3>2
    <3>5. ~(f.next > 0)
      BY <2>3
    <3>6. FramesKept(<<f>>, r.depth, k)
      BY <2>3, <3>2, <3>3, <3>4, <3>5 DEF FramesKept
    <3> QED BY <3>6
  <2>9. LookupKept(r, k, visited)
    BY <2>5, <2>6, <2>7, <2>8 DEF LookupKept, LookupPlaces
  <2>10. lookup' = [lookup EXCEPT ![l] = r]
    BY <1>3, <2>1, <2>4 DEF AssetInv
  <2>11. visited' = visited /\ children' = children /\ visited \subseteq Assets
    BY <1>1 DEF AssetInv
  <2> QED BY <2>2, <2>9, <2>10, <2>11, LookupMoves
<1> QED BY <1>2, <1>3 DEF LookupByAssetId

(* A walking lookup gets other frames; what it has expanded may grow with them. *)
LEMMA FramesChange ==
  ASSUME AssetInv, NEW l \in Lookups, lookup[l].pc = "walk", NEW F, NEW e, NEW seen,
         lookup' = [lookup EXCEPT ![l].frames = F, ![l].expanded = e],
         visited' = seen, children' = children, visited \subseteq seen, seen \subseteq Assets,
         FramesKept(F, lookup[l].depth, children), F # <<>>, ExpandedKept(e, lookup[l].alone, seen)
  PROVE  AssetInv'
<1>1. PICK r : r = [lookup[l] EXCEPT !.frames = F, !.expanded = e]
  OBVIOUS
<1>2. LookupKept(lookup[l], children, visited)
  BY DEF AssetInv
<1>3. /\ DOMAIN r = LookupFields /\ r.pc = "walk" /\ r.depth = lookup[l].depth /\ r.frames = F
      /\ r.expanded = e /\ r.answer = lookup[l].answer /\ r.alone = lookup[l].alone
  BY <1>1, <1>2 DEF LookupKept, LookupFields
<1>4. LookupKept(r, children, seen)
  BY <1>2, <1>3 DEF LookupKept
<1>5. lookup' = [lookup EXCEPT ![l] = r]
  BY <1>1 DEF AssetInv
<1> QED BY <1>4, <1>5, LookupMoves

LEMMA FramesOnlyChange ==
  ASSUME AssetInv, NEW l \in Lookups, lookup[l].pc = "walk", NEW F,
         lookup' = [lookup EXCEPT ![l].frames = F], UNCHANGED <<children, visited>>,
         FramesKept(F, lookup[l].depth, children), F # <<>>
  PROVE  AssetInv'
<1>1. PICK r : r = [lookup[l] EXCEPT !.frames = F]
  OBVIOUS
<1>2. LookupKept(lookup[l], children, visited)
  BY DEF AssetInv
<1>3. /\ DOMAIN r = LookupFields /\ r.pc = "walk" /\ r.depth = lookup[l].depth /\ r.frames = F
      /\ r.expanded = lookup[l].expanded /\ r.answer = lookup[l].answer /\ r.alone = lookup[l].alone
  BY <1>1, <1>2 DEF LookupKept, LookupFields
<1>4. LookupKept(r, children, visited)
  BY <1>2, <1>3 DEF LookupKept
<1>5. lookup' = [lookup EXCEPT ![l] = r]
  BY <1>1 DEF AssetInv
<1>6. visited' = visited /\ children' = children /\ visited \subseteq Assets
  BY DEF AssetInv
<1>7. visited \subseteq visited' /\ visited' \subseteq Assets /\ LookupKept(r, children, visited')
  BY <1>4, <1>6, Zenon
<1> QED BY <1>5, <1>6, <1>7, LookupMoves, Zenon

(* The frames of a walking lookup and the one on top. *)
LEMMA TopKept ==
  ASSUME AssetInv, NEW l \in Lookups, Walking(l)
  PROVE  /\ lookup[l].pc = "walk" /\ lookup[l].depth \in Nat /\ FramesKept(lookup[l].frames, lookup[l].depth, children)
         /\ lookup[l].frames # <<>> /\ lookup[l].frames \in Seq(Frames) /\ Len(lookup[l].frames) \in Nat
         /\ FrameKept(Top(l), children) /\ Top(l) \in Frames /\ Top(l).next \in Nat
         /\ Top(l).next > 0 => Len(lookup[l].frames) <= lookup[l].depth
<1>1. PICK F : F = lookup[l].frames
  OBVIOUS
<1>2. LookupKept(lookup[l], children, visited) /\ lookup[l].pc = "walk"
  BY DEF AssetInv, Walking
<1>3. lookup[l].depth \in Nat /\ FramesKept(F, lookup[l].depth, children) /\ F # <<>> /\ F \in Seq(Frames)
  BY <1>1, <1>2 DEF LookupKept, FramesKept
<1>4. Len(F) \in 1..Len(F) /\ Len(F) \in Nat
  BY <1>3
<1>5. Top(l) = F[Len(F)]
  BY <1>1 DEF Top, Last
<1>6. FrameKept(F[Len(F)], children) /\ (F[Len(F)].next > 0 => Len(F) <= lookup[l].depth)
  BY <1>3, <1>4 DEF FramesKept
<1>7. F[Len(F)] \in Frames /\ F[Len(F)].next \in Nat
  BY <1>6 DEF FrameKept, Frames
<1> QED BY <1>1, <1>2, <1>3, <1>4, <1>5, <1>6, <1>7

LEMMA ReturnKeeps ==
  ASSUME AssetInv, NEW l \in Lookups, Walking(l), Top(l).next = 0 \/ Top(l).next > Len(Top(l).slice),
         Return(l), UNCHANGED <<children, visited>>
  PROVE  AssetInv'
<1>1. PICK F : F = lookup[l].frames
  OBVIOUS
<1>2. PICK k \in [Assets -> Seq(Assets)] : k = children
  BY DEF AssetInv
<1>3. PICK place : place = IF Len(F) = 1 THEN "done" ELSE lookup[l].pc
  OBVIOUS
<1>4. PICK answer : answer = IF Len(F) = 1 THEN Top(l).ids ELSE lookup[l].answer
  OBVIOUS
<1>5. PICK r : r = [lookup[l] EXCEPT !.frames = Front(F), !.pc = place, !.answer = answer]
  OBVIOUS
<1>6. lookup' = [lookup EXCEPT ![l] = r]
  BY <1>1, <1>3, <1>4, <1>5 DEF Return, AssetInv
<1>7. LookupKept(lookup[l], k, visited) /\ visited \subseteq Assets /\ visited' = visited /\ children' = children
  BY <1>2 DEF AssetInv
<1>8. /\ lookup[l].pc = "walk" /\ lookup[l].depth \in Nat /\ FramesKept(F, lookup[l].depth, k)
      /\ F # <<>> /\ F \in Seq(Frames) /\ FrameKept(Top(l), k)
  BY <1>1, <1>2, TopKept
<1>9. /\ DOMAIN r = LookupFields /\ r.pc = place /\ r.depth = lookup[l].depth /\ r.frames = Front(F)
      /\ r.expanded = lookup[l].expanded /\ r.answer = answer /\ r.alone = lookup[l].alone
  BY <1>5, <1>7 DEF LookupKept, LookupFields
<1>10. FramesKept(Front(F), lookup[l].depth, k)
  BY <1>8, FramesReturn
<1>11. place = "walk" => Front(F) # <<>>
  <2>1. Len(Front(F)) = Len(F) - 1 /\ Len(F) \in Nat /\ Len(F) >= 1
    BY <1>8, FrontOf
  <2>2. place = "walk" => Len(F) # 1
    BY <1>3
  <2>3. Len(F) # 1 => Len(Front(F)) # 0
    BY <2>1
  <2>4. Front(F) = <<>> => Len(Front(F)) = 0
    OBVIOUS
  <2> QED BY <2>2, <2>3, <2>4
<1>12. AnswerKept(answer, k)
  <2>1. AnswerKept(Top(l).ids, k)
    BY <1>8, FrameAnswers
  <2>2. AnswerKept(lookup[l].answer, k)
    BY <1>7 DEF LookupKept
  <2> QED BY <1>4, <2>1, <2>2
<1>13. place \in {"walk", "done"}
  BY <1>3, <1>8
<1>14. LookupKept(r, k, visited)
  BY <1>7, <1>8, <1>9, <1>10, <1>11, <1>12, <1>13 DEF LookupKept, LookupPlaces
<1> QED BY <1>2, <1>6, <1>7, <1>14, LookupMoves

LEMMA ExpandedGrows ==
  ASSUME NEW e, NEW alone, NEW seen, ExpandedKept(e, alone, seen), NEW a \in Assets, a \notin seen
  PROVE  ExpandedKept(Append(e, a), alone, seen \cup {a})
<1>1. e \in Seq(Assets)
  BY DEF ExpandedKept
<1>2. PICK n \in Nat : n = Len(e)
  BY <1>1
<1>3. PICK u : u = Append(e, a)
  OBVIOUS
<1>4. u \in Seq(Assets) /\ Len(u) = n + 1 /\ u[n + 1] = a /\ \A i \in 1..n : u[i] = e[i]
  BY <1>1, <1>2, <1>3
<1>5. ASSUME alone, NEW i \in 1..Len(u)
      PROVE  u[i] \in seen \cup {a} /\ \A j \in 1..Len(u) : i # j => u[i] # u[j]
  <2>1. \A m \in 1..Len(u) : m = n + 1 \/ m \in 1..n
    BY <1>4
  <2>2. \A m \in 1..n : e[m] \in seen /\ e[m] # a /\ u[m] = e[m]
    BY <1>2, <1>4, <1>5 DEF ExpandedKept
  <2>3. \A m, p \in 1..n : m # p => e[m] # e[p]
    BY <1>2, <1>5 DEF ExpandedKept
  <2> QED BY <1>4, <2>1, <2>2, <2>3
<1>6. ExpandedKept(u, alone, seen \cup {a})
  BY <1>4, <1>5 DEF ExpandedKept
<1> QED BY <1>3, <1>6

LEMMA EnterFrameKeeps ==
  ASSUME AssetInv, NEW l \in Lookups, EnterFrame(l)
  PROVE  AssetInv'
<1>1. Walking(l) /\ Top(l).next = 0 /\ children' = children
  BY DEF EnterFrame
<1>2. CASE ~Enters(l)
  BY <1>1, <1>2, ReturnKeeps DEF EnterFrame
<1>3. CASE Enters(l)
  <2>1. PICK F : F = lookup[l].frames
    OBVIOUS
  <2>2. PICK k \in [Assets -> Seq(Assets)] : k = children
    BY DEF AssetInv
  <2>3. PICK f : f = Top(l)
    OBVIOUS
  <2>4. PICK s : s = SubSeq(f.ids, 1, Walked(Len(f.ids)))
    OBVIOUS
  <2>5. PICK g : g = [f EXCEPT !.slice = s, !.next = 1]
    OBVIOUS
  <2>6. PICK e : e = Append(lookup[l].expanded, f.asset)
    OBVIOUS
  <2>7. PICK seen : seen = visited \cup {f.asset}
    OBVIOUS
  <2>8. PICK G : G = Append(Front(F), g)
    OBVIOUS
  <2>9. ChildIds(l) = s
    BY <2>3, <2>4 DEF ChildIds, Walked
  <2>10. visited' = seen /\ lookup' = [lookup EXCEPT ![l].frames = G, ![l].expanded = e]
    BY <1>3, <2>1, <2>3, <2>5, <2>6, <2>7, <2>8, <2>9 DEF EnterFrame, AssetInv
  <2>11. /\ lookup[l].pc = "walk" /\ lookup[l].depth \in Nat /\ FramesKept(F, lookup[l].depth, k)
         /\ F # <<>> /\ F \in Seq(Frames) /\ FrameKept(f, k) /\ f \in Frames
    BY <1>1, <2>1, <2>2, <2>3, TopKept
  <2>12. FrameKept(g, k)
    BY <1>1, <2>3, <2>4, <2>5, <2>11, FrameBegins
  <2>13. Len(F) <= lookup[l].depth /\ f.asset \notin visited /\ f.asset \in Assets
    BY <1>3, <2>1, <2>3, <2>11 DEF Enters, Frames
  <2>14. FramesKept(G, lookup[l].depth, k)
    BY <2>8, <2>11, <2>12, <2>13, FramesTop
  <2>15. G # <<>>
    <3>1. g \in Frames
      BY <2>12 DEF FrameKept
    <3>2. Len(G) = Len(F) /\ Len(F) \in Nat /\ Len(F) >= 1
      BY <2>8, <2>11, <3>1, NewTop, FrontOf
    <3> QED BY <3>2
  <2>16. ExpandedKept(lookup[l].expanded, lookup[l].alone, visited) /\ visited \subseteq Assets
    BY DEF AssetInv, LookupKept
  <2>17. ExpandedKept(e, lookup[l].alone, seen)
    BY <2>6, <2>7, <2>13, <2>16, ExpandedGrows
  <2>18. visited \subseteq seen /\ seen \subseteq Assets
    BY <2>7, <2>13, <2>16
  <2> QED BY <1>1, <2>2, <2>10, <2>11, <2>14, <2>15, <2>17, <2>18, FramesChange
<1> QED BY <1>2, <1>3

LEMMA WalkChildKeeps ==
  ASSUME AssetInv, NEW l \in Lookups, WalkChild(l)
  PROVE  AssetInv'
<1>1. PICK F : F = lookup[l].frames
  OBVIOUS
<1>2. PICK k \in [Assets -> Seq(Assets)] : k = children
  BY DEF AssetInv
<1>3. PICK f : f = Top(l)
  OBVIOUS
<1>4. PICK child : child = f.slice[f.next]
  OBVIOUS
<1>5. PICK g : g = [f EXCEPT !.next = f.next + 1]
  OBVIOUS
<1>6. PICK stop : stop = [g EXCEPT !.next = Len(g.slice) + 1]
  OBVIOUS
<1>7. PICK h : h = [g EXCEPT !.ids = Append(g.ids, child)]
  OBVIOUS
<1>8. PICK new : new = Frame(child, k[child])
  OBVIOUS
<1>9. Walking(l) /\ f.next \in 1..Len(f.slice) /\ UNCHANGED <<children, visited>>
  BY <1>3 DEF WalkChild
<1>10. \/ lookup' = [lookup EXCEPT ![l].frames = Front(F) \o <<h, new>>]
       \/ lookup' = [lookup EXCEPT ![l].frames = Append(Front(F), g)]
       \/ lookup' = [lookup EXCEPT ![l].frames = Append(Front(F), stop)]
  BY <1>1, <1>2, <1>3, <1>4, <1>5, <1>6, <1>7, <1>8 DEF WalkChild
<1>11. /\ lookup[l].pc = "walk" /\ lookup[l].depth \in Nat /\ FramesKept(F, lookup[l].depth, k)
       /\ F # <<>> /\ F \in Seq(Frames) /\ FrameKept(f, k) /\ f \in Frames
       /\ f.next > 0 => Len(F) <= lookup[l].depth
  BY <1>1, <1>2, <1>3, <1>9, TopKept
<1>12. f.next \in Nat /\ f.next > 0 /\ Len(f.slice) \in Nat /\ f.next <= Len(f.slice)
  <2>1. f.next \in Nat /\ f.slice \in Seq(Assets)
    BY <1>11 DEF Frames
  <2>2. f.next \in 1..Len(f.slice)
    BY <1>9
  <2> QED BY <2>1, <2>2
<1>13. Len(F) <= lookup[l].depth
  BY <1>11, <1>12
<1>14. FrameKept(g, k)
  <2>1. PICK n \in Nat : n = f.next + 1
    BY <1>12
  <2>2. f.next <= n /\ n <= Len(f.slice) + 1
    BY <1>12, <2>1
  <2> QED BY <1>5, <1>9, <1>11, <2>1, <2>2, FramePasses
<1>15. FrameKept(stop, k)
  <2>1. PICK n \in Nat : n = Len(f.slice) + 1
    BY <1>12
  <2>2. f.next <= n /\ n <= Len(f.slice) + 1
    BY <1>12, <2>1
  <2>3. g.slice = f.slice
    BY <1>5, <1>11 DEF Frames
  <2>4. stop = [f EXCEPT !.next = n]
    BY <1>5, <1>6, <1>11, <2>1, <2>3 DEF Frames
  <2> QED BY <1>9, <1>11, <2>2, <2>4, FramePasses
<1>16. FrameKept(h, k) /\ child \in Assets
  <2>1. g.ids = f.ids
    BY <1>5, <1>11 DEF Frames
  <2>2. h = [f EXCEPT !.next = f.next + 1, !.ids = Append(f.ids, f.slice[f.next])]
    BY <1>4, <1>5, <1>7, <1>11, <2>1 DEF Frames
  <2> QED BY <1>4, <1>9, <1>11, <2>2, FrameAppends
<1>17. FrameKept(new, k) /\ new.next = 0
  BY <1>8, <1>16, NewFrame
<1>18. ASSUME NEW G, lookup' = [lookup EXCEPT ![l].frames = G], FramesKept(G, lookup[l].depth, k), G # <<>>
       PROVE  AssetInv'
  BY <1>2, <1>9, <1>11, <1>18, FramesOnlyChange
<1>19. ASSUME NEW x, FrameKept(x, k), lookup' = [lookup EXCEPT ![l].frames = Append(Front(F), x)]
       PROVE  AssetInv'
  <2>1. PICK G : G = Append(Front(F), x)
    OBVIOUS
  <2>2. x \in Frames
    BY <1>19 DEF FrameKept
  <2>3. Len(G) = Len(F) /\ Len(F) \in Nat /\ Len(F) >= 1
    BY <1>11, <2>1, <2>2, NewTop, FrontOf
  <2>4. G # <<>>
    BY <2>3
  <2>5. FramesKept(G, lookup[l].depth, k)
    BY <1>11, <1>13, <1>19, <2>1, FramesTop
  <2> QED BY <1>18, <1>19, <2>1, <2>4, <2>5
<1>20. CASE lookup' = [lookup EXCEPT ![l].frames = Front(F) \o <<h, new>>]
  <2>1. PICK G : G = Front(F) \o <<h, new>>
    OBVIOUS
  <2>2. h \in Frames /\ new \in Frames
    BY <1>16, <1>17 DEF FrameKept
  <2>3. Len(G) = Len(F) + 1 /\ Len(F) \in Nat
    BY <1>11, <2>1, <2>2, PushedTop, FrontOf
  <2>4. G # <<>>
    BY <2>3
  <2>5. FramesKept(G, lookup[l].depth, k)
    BY <1>11, <1>13, <1>16, <1>17, <2>1, FramesPush
  <2> QED BY <1>18, <1>20, <2>1, <2>4, <2>5
<1> QED BY <1>10, <1>14, <1>15, <1>19, <1>20

LEMMA AssetKeeps == AssetInv /\ (AssetNext \/ UNCHANGED assetVars) => AssetInv'
<1> SUFFICES ASSUME AssetInv, AssetNext \/ UNCHANGED assetVars PROVE AssetInv'
  OBVIOUS
<1>1. CASE UNCHANGED assetVars
  BY <1>1 DEF assetVars, AssetInv
<1>2. ASSUME NEW l \in Lookups, LookupByEntityId(l) \/ SearchAssets(l) PROVE AssetInv'
  BY <1>2, PlaceKeeps DEF LookupByEntityId, SearchAssets
<1>3. ASSUME NEW l \in Lookups, FinishFrame(l) PROVE AssetInv'
  BY <1>3, ReturnKeeps DEF FinishFrame
<1>4. ASSUME NEW l \in Lookups, LookupStep(l) PROVE AssetInv'
  BY <1>2, <1>3, <1>4, ByAssetIdKeeps, EnterFrameKeeps, WalkChildKeeps DEF LookupStep
<1> QED BY <1>1, <1>4, ExecuteLookupKeeps DEF AssetNext

LEMMA AssetHolds == AssetInv => AssetTypeOK /\ ExpandedOnce /\ AnswerKeepsChildren
<1> SUFFICES ASSUME AssetInv PROVE AssetTypeOK /\ ExpandedOnce /\ AnswerKeepsChildren
  OBVIOUS
<1>1. AssetTypeOK
  BY DEF AssetInv, AssetTypeOK, LookupKept, LookupPlaces, FramesKept, Walking
<1>2. ExpandedOnce
  BY DEF AssetInv, ExpandedOnce, LookupKept, ExpandedKept
<1>3. ASSUME NEW l \in Lookups, NEW answer, answer = lookup[l].answer, answer # <<>>
      PROVE  \E a \in Assets : LET n == Len(children[a]) IN
                 /\ Len(answer) >= n /\ SubSeq(answer, 1, n) = children[a]
                 /\ Len(answer) <= n + (IF n > MAX_CHILDREN THEN MAX_CHILDREN ELSE n)
                 /\ \A i \in (n + 1)..Len(answer) : Contains(children[a], answer[i])
  <2>1. AnswerKept(answer, children)
    BY <1>3 DEF AssetInv, LookupKept
  <2>2. PICK a \in Assets : Repeats(answer, children[a]) /\ Len(answer) <= Len(children[a]) + Walked(Len(children[a]))
    BY <1>3, <2>1 DEF AnswerKept
  <2>3. PICK kids \in Seq(Assets) : kids = children[a]
    BY DEF AssetInv
  <2>4. answer \in Seq(Assets) /\ Len(kids) \in Nat /\ Len(answer) \in Nat /\ Len(answer) >= Len(kids)
    BY <2>1, <2>2, <2>3 DEF AnswerKept, Repeats
  <2>5. SubSeq(answer, 1, Len(kids)) = kids
    <3>1. PICK n \in Nat : n = Len(kids)
      BY <2>4
    <3>2. 1 \in Int /\ n \in Int /\ \A i \in 1..n : answer[i] \in Assets
      BY <2>4, <3>1
    <3>3. PICK u : u = SubSeq(answer, 1, n)
      OBVIOUS
    <3>4. /\ u \in Seq(Assets) /\ Len(u) = IF 1 <= n THEN n - 1 + 1 ELSE 0
          /\ \A i \in 1..(n - 1 + 1) : u[i] = answer[1 + i - 1]
      BY <3>2, <3>3, SubSeqProperties
    <3>5. Len(u) = n
      BY <3>1, <3>4
    <3>6. ASSUME NEW i \in 1..n PROVE u[i] = kids[i]
      <4>1. i \in 1..(n - 1 + 1) /\ 1 + i - 1 = i
        OBVIOUS
      <4>2. u[i] = answer[i]
        BY <3>4, <4>1
      <4>3. answer[i] = kids[i]
        BY <2>2, <2>3, <3>1 DEF Repeats
      <4> QED BY <4>2, <4>3
    <3>7. u = kids
      BY <3>1, <3>4, <3>5, <3>6, SeqEqual
    <3> QED BY <3>1, <3>3, <3>7
  <2>6. ASSUME NEW i \in (Len(kids) + 1)..Len(answer) PROVE Contains(kids, answer[i])
    <3>1. i \in 1..Len(answer)
      BY <2>4
    <3> QED BY <2>2, <2>3, <3>1 DEF Repeats, Contains
  <2>7. Len(answer) <= Len(kids) + (IF Len(kids) > MAX_CHILDREN THEN MAX_CHILDREN ELSE Len(kids))
    BY <2>2, <2>3 DEF Walked
  <2> QED BY <2>3, <2>4, <2>5, <2>6, <2>7
<1>4. AnswerKeepsChildren
  BY <1>3 DEF AnswerKeepsChildren
<1> QED BY <1>1, <1>2, <1>4

-----------------------------------------------------------------------------
ToolsInv == TriggerInv /\ AssetInv /\ SearchKept(search) /\ LoaderInv /\ QueryInv

(* ToolsAnswerTruly: what the agent's tools tell of workflows, assets, the *)
(* ontology, telemetry and custom tools is so, for any number of calls     *)
(* and lookups, any hierarchy, depth and limits, and whatever the services *)
(* behind them answer, lose or refuse.                                     *)
THEOREM ToolsTruthful == Spec => []ToolsAnswerTruly
<1>1. Init => ToolsInv
  <2> SUFFICES ASSUME Init PROVE ToolsInv
    OBVIOUS
  <2>1. children \in [Assets -> Seq(Assets)]
    <3>1. [a \in Assets |-> <<>>] \in [Assets -> Seq(Assets)]
      OBVIOUS
    <3> QED BY <3>1, AssetConstants DEF Init
  <2>2. AssetInv
    BY <2>1, AssetStart DEF Init
  <2> QED BY <2>2, TriggerStart, OntologyStart, LoaderStart, QueryStart DEF Init, ToolsInv
<1>2. ToolsInv /\ [Next]_vars => ToolsInv'
  BY PartSteps, TriggerInvKeeps, AssetKeeps, OntologyKeeps, LoaderKeeps, QueryKeeps DEF ToolsInv
<1>3. ToolsInv => ToolsAnswerTruly
  BY TriggerHolds, AssetHolds, OntologyHolds, LoaderHolds, QueryHolds DEF ToolsInv, ToolsAnswerTruly
<1> QED BY <1>1, <1>2, <1>3, PTL DEF Spec

-----------------------------------------------------------------------------
(* Cutting a text.  A break is never behind the start of its chunk, so the *)
(* next chunk starts at most an overlap before the text, and every piece   *)
(* reaches from its start to beyond the next one.                          *)

CutKept ==
  /\ Len(text) \in 1..MaxText /\ overlap \in OVERLAPS /\ idx \in 0..1
  /\ start \in (-CHUNK_SIZE)..MaxText /\ (start # Undecided => start >= -overlap)
  /\ \A c \in cuts : c.start_offset \in (1 - CHUNK_SIZE)..MaxText /\ c.end_offset \in 0..MaxText /\ c.kept \in BOOLEAN
  /\ NothingSkipped

LEMMA BreakFound ==
  ASSUME CutKept, NEW sep, NEW s \in Int, NEW end \in Int
  PROVE  LastBefore(sep, s, end) \in Int /\ LastBefore(sep, s, end) >= -1
<1> DEFINE to == Least(end + 1 + REACH, Len(text)) - 1
           at == {p \in From(s)..to : text[p + 1] = sep}
<1>1. Len(text) \in Nat
  BY DEF CutKept
<1>2. From(s) \in Int /\ From(s) >= -1 /\ to \in Int
  <2>1. CASE s < 0
    BY <1>1, <2>1, ChunkAssumption DEF From, Least
  <2>2. CASE ~(s < 0)
    BY <1>1, <2>2, ChunkAssumption DEF From, Least
  <2> QED BY <2>1, <2>2
<1>3. LastBefore(sep, s, end) = IF at = {} THEN -1 ELSE CHOOSE p \in at : \A q \in at : q <= p
  BY DEF LastBefore
<1> HIDE DEF to
<1>4. at \in SUBSET (From(s)..to)
  OBVIOUS
<1> HIDE DEF at
<1>5. at # {} => \E p \in at : \A q \in at : q <= p
  BY <1>2, <1>4, GreatestElement
<1>6. \A p \in at : p \in Int /\ p >= -1
  BY <1>2, <1>4
<1> QED BY <1>3, <1>5, <1>6

NextBreak(best, sep, s, end) ==
  LET pos == LastBefore(sep, s, end) IN IF pos > s /\ pos < best THEN pos + 1 ELSE best

LEMMA BreakMoves ==
  ASSUME CutKept, NEW sep, NEW s \in Int, NEW end \in Int, NEW best \in Int, s < best, 0 <= best, best <= end
  PROVE  /\ NextBreak(best, sep, s, end) \in Int /\ s < NextBreak(best, sep, s, end)
         /\ 0 <= NextBreak(best, sep, s, end) /\ NextBreak(best, sep, s, end) <= end
<1>1. PICK pos \in Int : pos = LastBefore(sep, s, end) /\ pos >= -1
  BY BreakFound
<1> QED BY <1>1 DEF NextBreak

LEMMA BreakBounds ==
  ASSUME CutKept, NEW s \in Int, NEW end \in Int, s < end, 0 <= end
  PROVE  /\ BestBreak(s, end) \in Int /\ s < BestBreak(s, end)
         /\ 0 <= BestBreak(s, end) /\ BestBreak(s, end) <= end
<1> DEFINE Loops(f) == f = [i \in 0..Len(Separators) |->
                              IF i = 0 THEN end
                              ELSE LET pos == LastBefore(Separators[i], s, end)
                                   IN  IF pos > s /\ pos < f[i - 1] THEN pos + 1 ELSE f[i - 1]]
           Turns2(f) == f = [i \in 0..Len(Separators) |->
                              IF i = 0 THEN end ELSE NextBreak(f[i - 1], Separators[i], s, end)]
           one == NextBreak(end, Separators[1], s, end)
           two == NextBreak(one, Separators[2], s, end)
           f == [i \in 0..2 |-> IF i = 0 THEN end ELSE IF i = 1 THEN one ELSE two]
<1>1. Len(Separators) = 2
  BY DEF Separators
<1>2. one \in Int /\ s < one /\ 0 <= one /\ one <= end
  BY BreakMoves
<1>3. two \in Int /\ s < two /\ 0 <= two /\ two <= end
  <2> HIDE DEF one
  <2> QED BY <1>2, BreakMoves
<1>4. Turns2(f)
  <2> HIDE DEF one
  <2>1. ASSUME NEW i \in 0..2
        PROVE  f[i] = IF i = 0 THEN end ELSE NextBreak(f[i - 1], Separators[i], s, end)
    <3>1. CASE i = 0
      BY <3>1
    <3>2. CASE i = 1
      BY <3>2 DEF one
    <3>3. CASE i = 2
      BY <3>3
    <3> QED BY <3>1, <3>2, <3>3
  <2> QED BY <1>1, <2>1
<1> HIDE DEF f
<1>5. \A g : Turns2(g) <=> Loops(g)
  BY DEF NextBreak
<1>6. PICK g : g = CHOOSE h : Loops(h)
  OBVIOUS
<1>7. BestBreak(s, end) = g[2]
  BY <1>1, <1>6 DEF BestBreak
<1> HIDE DEF Loops, Turns2
<1>8. Turns2(g)
  <2>1. Loops(f)
    BY <1>4, <1>5
  <2>2. Loops(g)
    BY <1>6, <2>1, Zenon
  <2> QED BY <1>5, <2>2
<1> USE DEF Turns2
<1>9. \A i \in 0..2 : g[i] = IF i = 0 THEN end ELSE NextBreak(g[i - 1], Separators[i], s, end)
  BY <1>1, <1>8
<1>10. g[0] = end
  BY <1>9
<1>11. g[1] = one
  <2>1. 1 \in 0..2 /\ 1 # 0 /\ 1 - 1 = 0
    OBVIOUS
  <2> QED BY <1>9, <1>10, <2>1
<1>12. g[2] = two
  <2>1. 2 \in 0..2 /\ 2 # 0 /\ 2 - 1 = 1
    OBVIOUS
  <2> QED BY <1>9, <1>11, <2>1
<1> QED BY <1>3, <1>7, <1>12

LEMMA CutKeeps ==
  ASSUME CutKept, CutByToken
  PROVE  CutKept'
<1>1. PICK L \in 1..MaxText : L = Len(text)
  BY DEF CutKept
<1>2. PICK e : e = Least(start + CHUNK_SIZE, L)
  OBVIOUS
<1>3. PICK end : end = Least(BestBreak(start, e), L)
  OBVIOUS
<1>4. /\ start # Undecided /\ start < L /\ cuts' = cuts \cup {Piece(start, end)} /\ start' = NextStart(start, end)
      /\ idx' = 1 - idx /\ UNCHANGED <<text, units, strategy, overlap, groups>>
  BY <1>1, <1>2, <1>3 DEF CutByToken
<1>5. /\ overlap \in 0..(CHUNK_SIZE - 1) /\ CHUNK_SIZE \in Nat /\ start \in Int /\ start >= -overlap /\ idx \in 0..1
      /\ L \in Nat /\ L >= 1 /\ L <= MaxText /\ MaxText \in Nat
  BY <1>1, <1>4, ChunkAssumption DEF CutKept
<1>6. e \in Int /\ start < e /\ 0 <= e /\ e <= L
  BY <1>2, <1>4, <1>5 DEF Least
<1>7. BestBreak(start, e) \in Int /\ start < BestBreak(start, e) /\ 0 <= BestBreak(start, e) /\ BestBreak(start, e) <= e
  BY <1>5, <1>6, BreakBounds
<1>8. end \in Int /\ start < end /\ 0 <= end /\ end <= L
  BY <1>3, <1>4, <1>5, <1>6, <1>7 DEF Least
<1>9. start' = end - overlap
  BY <1>4, <1>5, <1>8 DEF NextStart
<1>10. start' \in (-CHUNK_SIZE)..MaxText /\ start' >= -overlap
  BY <1>5, <1>8, <1>9
<1>11. PICK new : new = Piece(start, end)
  OBVIOUS
<1>12. new.start_offset = start /\ new.end_offset = end /\ new.kept \in BOOLEAN
  BY <1>11 DEF Piece
<1>13. start \in (1 - CHUNK_SIZE)..MaxText /\ end \in 0..MaxText
  BY <1>4, <1>5, <1>8
<1>14. \A c \in cuts' : c.start_offset \in (1 - CHUNK_SIZE)..MaxText /\ c.end_offset \in 0..MaxText /\ c.kept \in BOOLEAN
  BY <1>4, <1>11, <1>12, <1>13 DEF CutKept
<1>15. NothingSkipped'
  <2> SUFFICES ASSUME \A c \in cuts' : c.start_offset >= 0, NEW p \in 0..(start' - 1), p < L
               PROVE  \E c \in cuts' : c.start_offset <= p /\ p < c.end_offset
    BY <1>1, <1>4 DEF NothingSkipped
  <2>1. p \in Nat /\ p < end
    BY <1>5, <1>8, <1>9
  <2>2. CASE p >= start
    BY <1>4, <1>11, <1>12, <2>1, <2>2
  <2>3. CASE p < start
    <3>1. p \in 0..(start - 1)
      BY <1>5, <2>1, <2>3
    <3>2. \A c \in cuts : c.start_offset >= 0
      BY <1>4
    <3>3. \E c \in cuts : c.start_offset <= p /\ p < c.end_offset
      BY <1>1, <3>1, <3>2 DEF CutKept, NothingSkipped
    <3> QED BY <1>4, <3>3
  <2> QED BY <1>5, <2>1, <2>2, <2>3
<1>16. idx' \in 0..1
  BY <1>4, <1>5
<1>17. Len(text') \in 1..MaxText /\ overlap' \in OVERLAPS
  BY <1>4 DEF CutKept
<1> QED BY <1>4, <1>10, <1>14, <1>15, <1>16, <1>17 DEF CutKept

LEMMA ChooseStrategyKeeps ==
  ASSUME CutKept, ChooseStrategy
  PROVE  CutKept'
<1>1. start' = 0 /\ UNCHANGED <<text, units, strategy, overlap, idx, cuts, groups>>
  BY DEF ChooseStrategy
<1>2. 0 \in (-CHUNK_SIZE)..MaxText /\ 0 >= -overlap
  BY ChunkAssumption DEF CutKept
<1>3. NothingSkipped'
  BY <1>1 DEF NothingSkipped
<1> QED BY <1>1, <1>2, <1>3 DEF CutKept

-----------------------------------------------------------------------------
(* Grouping sentences or paragraphs.  After each unit the chunks closed so *)
(* far, with the current one behind them, are a greedy grouping of the     *)
(* units seen, and current_len is the length of the current chunk.         *)

SumFun(u, g) == CHOOSE f : f = [i \in 0..Len(g) |-> IF i = 0 THEN 0 ELSE f[i - 1] + u[g[i]]]

LEMMA TotalIs ==
  ASSUME NEW u, NEW g
  PROVE  Total(u, g) = SumFun(u, g)[Len(g)]
BY DEF Total, SumFun

LEMMA SumRuns ==
  ASSUME NEW n \in Nat, NEW u \in [1..n -> Nat], NEW g \in Seq(1..n), NEW f, f = SumFun(u, g)
  PROVE  f \in [0..Len(g) -> Nat] /\ f[0] = 0 /\ \A i \in 1..Len(g) : f[i] = f[i - 1] + u[g[i]]
<1> DEFINE m == Len(g)
           turn == [q \in Nat \X (1..m) |-> q[1] + u[g[q[2]]]]
           Loops(h) == h = [i \in 0..m |-> IF i = 0 THEN 0 ELSE h[i - 1] + u[g[i]]]
<1>1. m \in Nat /\ \A i \in 1..m : u[g[i]] \in Nat
  OBVIOUS
<1>2. f = CHOOSE h : Loops(h)
  BY DEF SumFun
<1> HIDE DEF m
<1>3. turn \in Turns(m, Nat)
  <2>1. ASSUME NEW q \in Nat \X (1..m) PROVE q[1] + u[g[q[2]]] \in Nat
    BY <1>1
  <2> QED BY <2>1, Zenon DEF Turns
<1> HIDE DEF turn
<1>4. PICK h : LoopRuns(h, m, Nat, 0, turn)
  BY <1>1, <1>3, LoopExists
<1>5. \A i \in 1..m : h[i] = h[i - 1] + u[g[i]]
  <2> SUFFICES ASSUME NEW i \in 1..m PROVE h[i] = h[i - 1] + u[g[i]]
    OBVIOUS
  <2>1. h[i - 1] \in Nat
    BY <1>1, <1>4 DEF LoopRuns
  <2> QED BY <1>4, <2>1 DEF turn, LoopRuns
<1>6. Loops(h)
  BY <1>1, <1>4, <1>5 DEF LoopRuns
<1>7. Loops(f)
  <2> HIDE DEF Loops
  <2> QED BY <1>2, <1>6, Zenon
<1>8. \A i \in 0..m : f[i] = IF i = 0 THEN 0 ELSE f[i - 1] + u[g[i]]
  BY <1>7, Zenon
<1>9. f = [i \in 0..m |-> f[i]]
  <2> DEFINE body(i) == IF i = 0 THEN 0 ELSE f[i - 1] + u[g[i]]
  <2>1. f = [i \in 0..m |-> body(i)]
    BY <1>7
  <2> HIDE DEF body
  <2> QED BY <2>1
<1>10. f[0] = 0 /\ \A i \in 1..m : f[i] = f[i - 1] + u[g[i]]
  BY <1>1, <1>8
<1> DEFINE S == {i \in 0..m : f[i] \in Nat}
<1>11. 0 \in S
  BY <1>1, <1>10
<1>12. ASSUME NEW i \in 0..(m - 1), i \in S PROVE i + 1 \in S
  <2>1. i + 1 \in 1..m /\ i + 1 \in 0..m /\ (i + 1) - 1 = i
    BY <1>1
  <2>2. f[i + 1] = f[i] + u[g[i + 1]] /\ u[g[i + 1]] \in Nat /\ f[i] \in Nat
    BY <1>1, <1>10, <1>12, <2>1
  <2> QED BY <2>1, <2>2
<1> HIDE DEF S
<1>13. 0..m \subseteq S
  <2>1. \A i \in 0..(m - 1) : i \in S => i + 1 \in S
    BY <1>12
  <2> QED BY <1>1, <1>11, <2>1, SetInduction, Zenon
<1>14. f \in [0..m -> Nat]
  BY <1>9, <1>13 DEF S
<1> QED BY <1>10, <1>14 DEF m

SumBy(f, u, g) == f[0] = 0 /\ \A i \in 1..Len(g) : f[i] = f[i - 1] + u[g[i]]

LEMMA SumSteps ==
  ASSUME NEW n \in Nat, NEW u \in [1..n -> Nat], NEW g \in Seq(1..n)
  PROVE  SumBy(SumFun(u, g), u, g)
<1>1. PICK f : f = SumFun(u, g)
  OBVIOUS
<1>2. f[0] = 0 /\ \A i \in 1..Len(g) : f[i] = f[i - 1] + u[g[i]]
  BY <1>1, SumRuns
<1> QED BY <1>1, <1>2, Zenon DEF SumBy

LEMMA SumType ==
  ASSUME NEW n \in Nat, NEW u \in [1..n -> Nat], NEW g \in Seq(1..n)
  PROVE  Total(u, g) \in Nat
<1>1. PICK f : f = SumFun(u, g)
  OBVIOUS
<1>2. f \in [0..Len(g) -> Nat]
  BY <1>1, SumRuns
<1>3. Len(g) \in 0..Len(g)
  OBVIOUS
<1> QED BY <1>1, <1>2, <1>3, TotalIs

LEMMA SumAppend ==
  ASSUME NEW n \in Nat, NEW u \in [1..n -> Nat], NEW g \in Seq(1..n), NEW x \in 1..n
  PROVE  Total(u, Append(g, x)) = Total(u, g) + u[x]
<1>1. PICK m \in Nat : m = Len(g)
  OBVIOUS
<1>2. PICK h : h = Append(g, x)
  OBVIOUS
<1>3. h \in Seq(1..n) /\ Len(h) = m + 1 /\ h[m + 1] = x /\ \A i \in 1..m : h[i] = g[i]
  BY <1>1, <1>2
<1>4. PICK f : f = SumFun(u, g)
  OBVIOUS
<1>5. PICK e : e = SumFun(u, h)
  OBVIOUS
<1>6. f[0] = 0 /\ \A i \in 1..m : f[i] = f[i - 1] + u[g[i]]
  <2>1. f[0] = 0 /\ \A i \in 1..Len(g) : f[i] = f[i - 1] + u[g[i]]
    BY <1>4, SumSteps DEF SumBy
  <2> QED BY <1>1, <2>1
<1>7. e[0] = 0 /\ \A i \in 1..(m + 1) : e[i] = e[i - 1] + u[h[i]]
  <2>1. h \in Seq(1..n)
    BY <1>3
  <2>2. e[0] = 0 /\ \A i \in 1..Len(h) : e[i] = e[i - 1] + u[h[i]]
    <3>1. SumBy(SumFun(u, h), u, h)
      BY <2>1, SumSteps, Zenon
    <3> QED BY <1>5, <3>1, Zenon DEF SumBy
  <2> QED BY <1>3, <2>2
<1> DEFINE S == {i \in 0..m : e[i] = f[i]}
<1>8. 0 \in S
  BY <1>6, <1>7
<1>9. ASSUME NEW i \in 0..(m - 1), i \in S PROVE i + 1 \in S
  <2>1. i + 1 \in 1..m /\ i + 1 \in 1..(m + 1) /\ i + 1 \in 0..m /\ (i + 1) - 1 = i
    OBVIOUS
  <2>2. e[i + 1] = e[i] + u[h[i + 1]] /\ f[i + 1] = f[i] + u[g[i + 1]] /\ h[i + 1] = g[i + 1] /\ e[i] = f[i]
    BY <1>3, <1>6, <1>7, <1>9, <2>1
  <2> QED BY <2>1, <2>2
<1> HIDE DEF S
<1>10. 0..m \subseteq S
  <2>1. \A i \in 0..(m - 1) : i \in S => i + 1 \in S
    BY <1>9
  <2> QED BY <1>8, <2>1, SetInduction, Zenon
<1>11. e[m] = f[m]
  BY <1>10 DEF S
<1>12. e[m + 1] = e[m] + u[x]
  <2>1. m + 1 \in 1..(m + 1) /\ (m + 1) - 1 = m
    OBVIOUS
  <2> QED BY <1>3, <1>7, <2>1
<1> QED BY <1>1, <1>2, <1>3, <1>4, <1>5, <1>11, <1>12, TotalIs

LEMMA SumSingle ==
  ASSUME NEW n \in Nat, NEW u \in [1..n -> Nat], NEW x \in 1..n
  PROVE  Total(u, <<x>>) = u[x]
<1>1. PICK f : f = SumFun(u, <<x>>)
  OBVIOUS
<1>2. PICK h : h = <<x>>
  OBVIOUS
<1>3. h \in Seq(1..n) /\ Len(h) = 1 /\ h[1] = x
  BY <1>2
<1>4. f[0] = 0 /\ \A i \in 1..Len(h) : f[i] = f[i - 1] + u[h[i]]
  <2>1. h \in Seq(1..n) /\ f = SumFun(u, h)
    BY <1>1, <1>2, <1>3, Zenon
  <2> QED BY <2>1, SumRuns, Zenon
<1>5. f[1] = f[1 - 1] + u[h[1]]
  BY <1>3, <1>4
<1>6. f[1] = u[x]
  <2>1. u[x] \in Nat /\ 1 - 1 = 0
    OBVIOUS
  <2> QED BY <1>3, <1>4, <1>5, <2>1
<1> QED BY <1>1, <1>2, <1>3, <1>6, TotalIs

AccOf(u, acc, i) ==
  IF acc.current_len + u[i] > CHUNK_SIZE /\ acc.current # <<>>
  THEN [chunks |-> Append(acc.chunks, acc.current), current |-> <<i>>, current_len |-> u[i]]
  ELSE [chunks |-> acc.chunks, current |-> Append(acc.current, i), current_len |-> acc.current_len + u[i]]

Accs(n) == [chunks : Seq(Seq(1..n)), current : Seq(1..n), current_len : Nat]

(* What the loop holds after i units: the chunks closed so far and the one  *)
(* being filled are the greedy grouping of the first i units.               *)
AccKept(u, n, acc, i) ==
  /\ acc \in Accs(n)
  /\ i = 0 => acc = Begun
  /\ i > 0 => acc.current # <<>> /\ Greedy(u, Append(acc.chunks, acc.current), i)
  /\ acc.current_len = Total(u, acc.current)

LEMMA AccType ==
  ASSUME NEW n \in Nat, NEW u \in [1..n -> Nat], NEW acc \in Accs(n), NEW i \in 1..n
  PROVE  AccOf(u, acc, i) \in Accs(n)
<1>1. u[i] \in Nat /\ acc.current_len + u[i] \in Nat /\ <<i>> \in Seq(1..n)
      /\ Append(acc.chunks, acc.current) \in Seq(Seq(1..n)) /\ Append(acc.current, i) \in Seq(1..n)
  BY DEF Accs
<1> QED BY <1>1 DEF AccOf, Accs

(* A group that grows by the next unit while it fits stays a right one. *)
EndsAt(u, g, i) == GroupRight(u, g) /\ Last(g) = i

LEMMA JoinRight ==
  ASSUME NEW n \in Nat, NEW u \in [1..n -> Nat], NEW g \in Seq(1..n), NEW i \in Nat, i + 1 \in 1..n,
         EndsAt(u, g, i), Total(u, g) + u[i + 1] <= CHUNK_SIZE
  PROVE  EndsAt(u, Append(g, i + 1), i + 1) /\ Append(g, i + 1)[1] = g[1]
<1>1. PICK m \in Nat : m = Len(g)
  OBVIOUS
<1>2. PICK h : h = Append(g, i + 1)
  OBVIOUS
<1>3. h \in Seq(1..n) /\ Len(h) = m + 1 /\ h[m + 1] = i + 1 /\ \A k \in 1..m : h[k] = g[k]
  BY <1>1, <1>2
<1>4. m >= 1 /\ g[m] = i /\ \A k \in 2..m : g[k] = g[k - 1] + 1
  BY <1>1 DEF EndsAt, GroupRight, Last
<1>5. \A k \in 2..Len(h) : h[k] = h[k - 1] + 1
  <2> SUFFICES ASSUME NEW k \in 2..(m + 1) PROVE h[k] = h[k - 1] + 1
    BY <1>3
  <2>1. CASE k = m + 1
    <3>1. k - 1 = m /\ m \in 1..m
      BY <1>4, <2>1
    <3> QED BY <1>3, <1>4, <2>1, <3>1
  <2>2. CASE k # m + 1
    <3>1. k \in 2..m /\ k \in 1..m /\ k - 1 \in 1..m
      BY <2>2
    <3> QED BY <1>3, <1>4, <3>1
  <2> QED BY <2>1, <2>2
<1>6. Total(u, h) = Total(u, g) + u[i + 1]
  BY <1>2, SumAppend
<1>7. h # <<>> /\ Total(u, h) <= CHUNK_SIZE /\ Last(h) = i + 1
  BY <1>3, <1>6 DEF Last
<1>8. h[1] = g[1]
  <2>1. 1 \in 1..m
    BY <1>4
  <2> QED BY <1>3, <2>1
<1> QED BY <1>2, <1>5, <1>7, <1>8 DEF EndsAt, GroupRight

LEMMA OneRight ==
  ASSUME NEW u, NEW x
  PROVE  GroupRight(u, <<x>>) /\ Last(<<x>>) = x /\ <<x>>[1] = x
<1>1. Len(<<x>>) = 1 /\ <<x>> # <<>> /\ <<x>>[1] = x
  OBVIOUS
<1>2. \A k \in 2..1 : FALSE
  OBVIOUS
<1> QED BY <1>1, <1>2 DEF GroupRight, Last

LEMMA GreedyClose ==
  ASSUME NEW n \in Nat, NEW u \in [1..n -> Nat], NEW cs \in Seq(Seq(1..n)), NEW c \in Seq(1..n),
         NEW i \in Nat, i + 1 \in 1..n,
         Greedy(u, Append(cs, c), i), Total(u, c) + u[i + 1] > CHUNK_SIZE
  PROVE  Greedy(u, Append(Append(cs, c), <<i + 1>>), i + 1)
<1>1. PICK gs : gs = Append(cs, c)
  OBVIOUS
<1>2. PICK m \in Nat : m = Len(gs)
  BY <1>1
<1>3. gs \in Seq(Seq(1..n)) /\ m >= 1 /\ gs[m] = c /\ Last(gs) = c
  BY <1>1, <1>2 DEF Last
<1>4. PICK one : one = <<i + 1>>
  OBVIOUS
<1>5. one \in Seq(1..n) /\ GroupRight(u, one) /\ Last(one) = i + 1 /\ one[1] = i + 1
  <2>1. <<i + 1>> \in Seq(1..n)
    OBVIOUS
  <2>2. GroupRight(u, <<i + 1>>) /\ Last(<<i + 1>>) = i + 1 /\ <<i + 1>>[1] = i + 1
    BY OneRight, Zenon
  <2> QED BY <1>4, <2>1, <2>2, Zenon
<1>6. PICK hs : hs = Append(gs, one)
  OBVIOUS
<1>7. Len(hs) = m + 1 /\ hs[m + 1] = one /\ Last(hs) = one /\ \A k \in 1..m : hs[k] = gs[k]
  BY <1>2, <1>3, <1>5, <1>6 DEF Last
<1>8. /\ gs[1][1] = 1 /\ Last(c) = i
      /\ \A k \in 1..m : GroupRight(u, gs[k])
      /\ \A k \in 2..m : FollowRight(u, gs[k - 1], gs[k])
  BY <1>1, <1>2, <1>3 DEF Greedy
<1>9. hs[1][1] = 1
  <2>1. 1 \in 1..m
    BY <1>3
  <2> QED BY <1>7, <1>8, <2>1
<1>10. \A k \in 1..(m + 1) : GroupRight(u, hs[k])
  <2> SUFFICES ASSUME NEW k \in 1..(m + 1) PROVE GroupRight(u, hs[k])
    OBVIOUS
  <2>1. k = m + 1 \/ k \in 1..m
    OBVIOUS
  <2> QED BY <1>5, <1>7, <1>8, <2>1
<1>11. \A k \in 2..(m + 1) : FollowRight(u, hs[k - 1], hs[k])
  <2> SUFFICES ASSUME NEW k \in 2..(m + 1) PROVE FollowRight(u, hs[k - 1], hs[k])
    OBVIOUS
  <2>1. CASE k = m + 1
    <3>1. k - 1 = m /\ m \in 1..m
      BY <1>3, <2>1
    <3>2. hs[k - 1] = c /\ hs[k] = one
      BY <1>3, <1>7, <2>1, <3>1
    <3> QED BY <1>5, <1>8, <3>2 DEF FollowRight
  <2>2. CASE k # m + 1
    <3>1. k \in 2..m /\ k \in 1..m /\ k - 1 \in 1..m
      BY <2>2
    <3> QED BY <1>7, <1>8, <3>1
  <2> QED BY <2>1, <2>2
<1>12. Greedy(u, hs, i + 1)
  BY <1>5, <1>7, <1>9, <1>10, <1>11 DEF Greedy
<1> QED BY <1>1, <1>4, <1>6, <1>12

LEMMA GreedyJoin ==
  ASSUME NEW n \in Nat, NEW u \in [1..n -> Nat], NEW cs \in Seq(Seq(1..n)), NEW c \in Seq(1..n),
         NEW i \in Nat, i + 1 \in 1..n,
         Greedy(u, Append(cs, c), i), Total(u, c) + u[i + 1] <= CHUNK_SIZE
  PROVE  Greedy(u, Append(cs, Append(c, i + 1)), i + 1)
<1>1. PICK gs : gs = Append(cs, c)
  OBVIOUS
<1>2. PICK m \in Nat : m = Len(cs)
  OBVIOUS
<1>3. Len(gs) = m + 1 /\ gs[m + 1] = c /\ Last(gs) = c /\ \A k \in 1..m : gs[k] = cs[k]
  BY <1>1, <1>2 DEF Last
<1>4. /\ gs[1][1] = 1 /\ Last(c) = i
      /\ \A k \in 1..(m + 1) : GroupRight(u, gs[k])
      /\ \A k \in 2..(m + 1) : FollowRight(u, gs[k - 1], gs[k])
  BY <1>1, <1>3 DEF Greedy
<1>5. PICK d : d = Append(c, i + 1)
  OBVIOUS
<1>6. GroupRight(u, c)
  BY <1>3, <1>4
<1>7. d \in Seq(1..n) /\ GroupRight(u, d) /\ Last(d) = i + 1 /\ d[1] = c[1]
  <2>1. Append(c, i + 1) \in Seq(1..n)
    OBVIOUS
  <2>2. Last(c) = i
    BY <1>4
  <2>3. GroupRight(u, Append(c, i + 1)) /\ Last(Append(c, i + 1)) = i + 1 /\ Append(c, i + 1)[1] = c[1]
    <3> DEFINE longer == Append(c, i + 1)
    <3>1. GroupRight(u, longer) /\ Last(longer) = i + 1 /\ longer[1] = c[1]
      <4>1. i \in Nat /\ i + 1 \in 1..n /\ Total(u, c) + u[i + 1] <= CHUNK_SIZE /\ c \in Seq(1..n)
        OBVIOUS
      <4>2. EndsAt(u, c, i)
        BY <1>6, <2>2 DEF EndsAt
      <4>3. EndsAt(u, Append(c, i + 1), i + 1) /\ Append(c, i + 1)[1] = c[1]
        BY <4>1, <4>2, JoinRight
      <4> QED BY <4>3, Zenon DEF EndsAt
    <3> QED BY <3>1
  <2> QED BY <1>5, <2>1, <2>3, Zenon
<1>8. PICK hs : hs = Append(cs, d)
  OBVIOUS
<1>9. Len(hs) = m + 1 /\ hs[m + 1] = d /\ Last(hs) = d /\ \A k \in 1..m : hs[k] = gs[k]
  <2>1. cs \in Seq(Seq(1..n)) /\ d \in Seq(1..n)
    BY <1>7
  <2>2. Len(Append(cs, d)) = m + 1 /\ Append(cs, d)[m + 1] = d /\ \A k \in 1..m : Append(cs, d)[k] = cs[k]
    BY <1>2, <2>1, AppendProperties
  <2>3. \A k \in 1..m : gs[k] = cs[k]
    BY <1>2, <1>3
  <2> QED BY <1>8, <2>2, <2>3 DEF Last
<1>10. hs[1][1] = 1
  <2>1. CASE m = 0
    <3>1. hs[1] = d /\ gs[1] = c
      BY <1>3, <1>9, <2>1
    <3> QED BY <1>4, <1>7, <3>1
  <2>2. CASE m # 0
    <3>1. 1 \in 1..m
      BY <2>2
    <3> QED BY <1>4, <1>9, <3>1
  <2> QED BY <2>1, <2>2
<1>11. \A k \in 1..(m + 1) : GroupRight(u, hs[k])
  <2> SUFFICES ASSUME NEW k \in 1..(m + 1) PROVE GroupRight(u, hs[k])
    OBVIOUS
  <2>1. k = m + 1 \/ k \in 1..m
    OBVIOUS
  <2> QED BY <1>4, <1>7, <1>9, <2>1
<1>12. \A k \in 2..(m + 1) : FollowRight(u, hs[k - 1], hs[k])
  <2> SUFFICES ASSUME NEW k \in 2..(m + 1) PROVE FollowRight(u, hs[k - 1], hs[k])
    OBVIOUS
  <2>1. k - 1 \in 1..m /\ hs[k - 1] = gs[k - 1]
    <3>1. k - 1 \in 1..m
      OBVIOUS
    <3> QED BY <1>9, <3>1
  <2>2. FollowRight(u, gs[k - 1], gs[k])
    BY <1>4
  <2>3. hs[k][1] = gs[k][1]
    <3>1. k = m + 1 \/ k \in 1..m
      OBVIOUS
    <3> QED BY <1>3, <1>7, <1>9, <3>1
  <2> QED BY <2>1, <2>2, <2>3 DEF FollowRight
<1>13. Greedy(u, hs, i + 1)
  BY <1>7, <1>9, <1>10, <1>11, <1>12 DEF Greedy
<1> QED BY <1>5, <1>8, <1>13

LEMMA GreedyOne ==
  ASSUME NEW n \in Nat, NEW u \in [1..n -> Nat]
  PROVE  Greedy(u, <<<<1>>>>, 1)
<1>1. PICK one : one = <<1>>
  OBVIOUS
<1>2. GroupRight(u, one) /\ Last(one) = 1 /\ one[1] = 1
  BY <1>1, OneRight
<1>3. PICK gs : gs = <<one>>
  OBVIOUS
<1>4. Len(gs) = 1 /\ gs[1] = one /\ Last(gs) = one
  BY <1>3 DEF Last
<1>5. (\A k \in 1..Len(gs) : GroupRight(u, gs[k])) /\ (\A k \in 2..Len(gs) : FollowRight(u, gs[k - 1], gs[k]))
  BY <1>2, <1>4
<1>6. Greedy(u, gs, 1)
  BY <1>2, <1>4, <1>5 DEF Greedy
<1> QED BY <1>1, <1>3, <1>6

(* A unit more keeps the loop's invariant. *)
LEMMA AccNext ==
  ASSUME NEW n \in Nat, NEW u \in [1..n -> Nat], NEW acc, NEW i \in Nat, i + 1 \in 1..n,
         AccKept(u, n, acc, i)
  PROVE  AccKept(u, n, AccOf(u, acc, i + 1), i + 1)
<1> DEFINE cs == acc.chunks
           c == acc.current
<1>1. acc \in Accs(n) /\ cs \in Seq(Seq(1..n)) /\ c \in Seq(1..n) /\ acc.current_len \in Nat
      /\ acc.current_len = Total(u, c) /\ u[i + 1] \in Nat
  BY DEF AccKept, Accs
<1>2. PICK next : next = AccOf(u, acc, i + 1)
  OBVIOUS
<1>3. next \in Accs(n) /\ i + 1 # 0 /\ i + 1 > 0
  <2>1. i + 1 \in 1..n /\ i + 1 # 0 /\ i + 1 > 0
    OBVIOUS
  <2> QED BY <1>1, <1>2, <2>1, AccType, Zenon
<1>4. CASE acc.current_len + u[i + 1] > CHUNK_SIZE /\ c # <<>>
  <2>1. next.chunks = Append(cs, c) /\ next.current = <<i + 1>> /\ next.current_len = u[i + 1]
    BY <1>2, <1>4 DEF AccOf
  <2>2. next.current # <<>> /\ next.current_len = Total(u, next.current)
    BY <2>1, SumSingle
  <2>3. i > 0
    <3>1. i = 0 => c = <<>>
      BY DEF AccKept, Begun
    <3> QED BY <1>4, <3>1
  <2>4. Greedy(u, Append(cs, c), i)
    BY <2>3 DEF AccKept
  <2>5. Total(u, c) + u[i + 1] > CHUNK_SIZE
    BY <1>1, <1>4
  <2> HIDE DEF cs, c
  <2>6. Greedy(u, Append(Append(cs, c), <<i + 1>>), i + 1)
    BY <1>1, <2>4, <2>5, GreedyClose
  <2> QED BY <1>2, <1>3, <2>1, <2>2, <2>6 DEF AccKept
<1>5. CASE ~(acc.current_len + u[i + 1] > CHUNK_SIZE /\ c # <<>>)
  <2>1. next.chunks = cs /\ next.current = Append(c, i + 1) /\ next.current_len = acc.current_len + u[i + 1]
    BY <1>2, <1>5 DEF AccOf
  <2>2. next.current # <<>> /\ next.current_len = Total(u, next.current)
    <3>1. Total(u, Append(c, i + 1)) = Total(u, c) + u[i + 1]
      BY <1>1, SumAppend
    <3>2. Append(c, i + 1) # <<>>
      <4> HIDE DEF c
      <4>1. Len(Append(c, i + 1)) = Len(c) + 1 /\ Len(c) \in Nat /\ Len(<<>>) = 0
        BY <1>1
      <4> QED BY <4>1
    <3> QED BY <1>1, <2>1, <3>1, <3>2
  <2>3. Greedy(u, Append(cs, Append(c, i + 1)), i + 1)
    <3>1. CASE i = 0
      <4>1. cs = <<>> /\ c = <<>>
        BY <3>1 DEF AccKept, Begun
      <4>2. Append(cs, Append(c, i + 1)) = <<<<1>>>> /\ i + 1 = 1
        <5>1. i + 1 = 1
          BY <3>1
        <5>2. Append(<<>>, 1) = <<1>> /\ Append(<<>>, <<1>>) = <<<<1>>>>
          OBVIOUS
        <5> QED BY <4>1, <5>1, <5>2, Zenon
      <4> QED BY <4>2, GreedyOne
    <3>2. CASE i > 0
      <4>1. c # <<>> /\ Greedy(u, Append(cs, c), i)
        BY <3>2 DEF AccKept
      <4>2. Total(u, c) + u[i + 1] <= CHUNK_SIZE
        BY <1>1, <1>5, <4>1, ChunkAssumption
      <4> HIDE DEF cs, c
      <4>3. i + 1 \in 1..n /\ i \in Nat
        OBVIOUS
      <4> QED BY <1>1, <4>1, <4>2, <4>3, GreedyJoin, Zenon
    <3> QED BY <3>1, <3>2
  <2> QED BY <1>2, <1>3, <2>1, <2>2, <2>3 DEF AccKept
<1> QED BY <1>4, <1>5

LEMMA GroupLoopKept ==
  ASSUME NEW n \in Nat, NEW u \in [1..n -> Nat], u = units, n = Len(units)
  PROVE  AccKept(u, n, GroupLoop[n], n)
<1> DEFINE T == Accs(n)
           turn == [q \in T \X (1..n) |-> AccOf(u, q[1], q[2])]
           Loops(f) == f = [i \in 0..n |-> IF i = 0 THEN Begun ELSE AccOf(u, f[i - 1], i)]
<1>1. Begun \in T
  BY DEF Begun, Accs
<1>2. turn \in Turns(n, T)
  <2>1. \A q \in T \X (1..n) : AccOf(u, q[1], q[2]) \in T
    BY AccType
  <2> QED BY <2>1 DEF Turns
<1> HIDE DEF turn, T
<1>3. PICK f : LoopRuns(f, n, T, Begun, turn)
  BY <1>1, <1>2, LoopExists
<1>4. \A i \in 1..n : f[i] = AccOf(u, f[i - 1], i)
  <2> SUFFICES ASSUME NEW i \in 1..n PROVE f[i] = AccOf(u, f[i - 1], i)
    OBVIOUS
  <2>1. f[i - 1] \in T
    BY <1>3 DEF LoopRuns
  <2> QED BY <1>3, <2>1 DEF turn, LoopRuns
<1>5. Loops(f)
  BY <1>3, <1>4 DEF LoopRuns
<1>6. PICK g : g = GroupLoop
  OBVIOUS
<1>7. g = CHOOSE h : Loops(h)
  BY <1>6 DEF GroupLoop, Accumulate, AccOf
<1>8. Loops(g)
  <2> HIDE DEF Loops
  <2> QED BY <1>5, <1>7, Zenon
<1>9. \A j \in 0..n : g[j] = IF j = 0 THEN Begun ELSE AccOf(u, g[j - 1], j)
  BY <1>8, Zenon
<1> DEFINE S == {i \in 0..n : AccKept(u, n, g[i], i)}
<1>10. 0 \in S
  <2>1. 0 \in 0..n /\ ~(0 > 0)
    OBVIOUS
  <2>2. g[0] = Begun
    BY <1>9, <2>1
  <2>3. Total(u, <<>>) = 0
    <3>1. PICK e : e = <<>>
      OBVIOUS
    <3>2. e \in Seq(1..n) /\ Len(e) = 0
      BY <3>1
    <3>3. PICK s : s = SumFun(u, e)
      OBVIOUS
    <3>4. s[0] = 0
      <4>1. e \in Seq(1..n)
        BY <3>2
      <4> QED BY <4>1, <3>3, SumRuns, Zenon
    <3> QED BY <3>1, <3>2, <3>3, <3>4, TotalIs
  <2>4. Begun.current_len = 0 /\ Begun.current = <<>>
    BY DEF Begun
  <2> QED BY <1>1, <2>1, <2>2, <2>3, <2>4 DEF AccKept, T
<1>11. ASSUME NEW i \in 0..(n - 1), i \in S PROVE i + 1 \in S
  <2>1. i \in Nat /\ i + 1 \in 1..n /\ i + 1 \in 0..n /\ (i + 1) - 1 = i /\ i + 1 # 0 /\ AccKept(u, n, g[i], i)
    BY <1>11
  <2>2. g[i + 1] = AccOf(u, g[i], i + 1)
    BY <1>9, <2>1
  <2>3. AccKept(u, n, g[i + 1], i + 1)
    BY <2>1, <2>2, AccNext
  <2> QED BY <2>1, <2>3
<1> HIDE DEF S
<1>12. n \in S
  <2>1. \A i \in 0..(n - 1) : i \in S => i + 1 \in S
    BY <1>11
  <2>2. 0..n \subseteq S
    BY <1>10, <2>1, SetInduction, Zenon
  <2> QED BY <2>2
<1> QED BY <1>6, <1>12 DEF S

UnitsKept == \E n \in Nat : units \in [1..n -> Nat]

(* Grouping the units makes a greedy grouping of all of them. *)
LEMMA GroupedIsGreedy ==
  ASSUME UnitsKept, Grouped # <<>>
  PROVE  Greedy(units, Grouped, Len(units))
<1>1. PICK n \in Nat : units \in [1..n -> Nat]
  BY DEF UnitsKept
<1>2. PICK u : u = units
  OBVIOUS
<1>3. u \in [1..n -> Nat] /\ u \in Seq(Nat) /\ n = Len(units)
  <2>1. u \in Seq(Nat) /\ u \in [1..n -> Nat]
    BY <1>1, <1>2, SeqDef
  <2>2. Len(u) = n
    BY <1>1, <1>2, <2>1
  <2> QED BY <1>2, <2>1, <2>2
<1>4. PICK a : a = GroupLoop[n]
  OBVIOUS
<1>5. AccKept(u, n, a, n)
  BY <1>2, <1>3, <1>4, GroupLoopKept
<1>6. Grouped = CloseLast(a)
  BY <1>3, <1>4 DEF Grouped
<1>7. n > 0
  <2> SUFFICES ASSUME n = 0 PROVE FALSE
    BY <1>1
  <2>1. a = Begun
    BY <1>5 DEF AccKept
  <2>2. a.current = <<>> /\ a.chunks = <<>>
    BY <2>1 DEF Begun
  <2> QED BY <1>6, <2>2 DEF CloseLast
<1>8. a.current # <<>> /\ Greedy(u, Append(a.chunks, a.current), n)
  BY <1>5, <1>7 DEF AccKept
<1>9. Grouped = Append(a.chunks, a.current)
  BY <1>6, <1>8 DEF CloseLast
<1>10. PICK gs : gs = Grouped
  OBVIOUS
<1>11. Greedy(u, gs, n)
  BY <1>8, <1>9, <1>10
<1> QED BY <1>2, <1>3, <1>10, <1>11

ChunkInv == CutKept /\ UnitsKept /\ GroupsAreGreedy

LEMMA ChunkStart ==
  ASSUME Init
  PROVE  ChunkInv
<1>1. ChunkInit
  BY DEF Init
<1>2. Len(text) \in 1..MaxText
  <2>1. PICK n \in 1..MaxText : text \in [1..n -> {"x", " ", "."}]
    BY <1>1 DEF ChunkInit
  <2>2. n \in Nat
    BY ChunkAssumption
  <2>3. text \in Seq({"x", " ", "."})
    BY <2>1, <2>2, SeqDef
  <2>4. Len(text) = n
    <3>1. DOMAIN text = 1..n
      BY <2>1
    <3>2. DOMAIN text = 1..Len(text) /\ Len(text) \in Nat
      BY <2>3, LenProperties, Zenon
    <3> QED BY <2>2, <3>1, <3>2
  <2> QED BY <2>4
<1>3. overlap \in OVERLAPS /\ idx = 0 /\ start = -CHUNK_SIZE /\ cuts = {} /\ groups = <<>>
  BY <1>1 DEF ChunkInit, Undecided
<1>4. UnitsKept
  <2>1. PICK n \in 0..MaxUnits : units \in [1..n -> 1..(CHUNK_SIZE + 1)]
    BY <1>1 DEF ChunkInit
  <2>2. n \in Nat /\ 1..(CHUNK_SIZE + 1) \subseteq Nat
    BY ChunkAssumption
  <2> QED BY <2>1, <2>2 DEF UnitsKept
<1>5. start \in (-CHUNK_SIZE)..MaxText /\ start = Undecided /\ idx \in 0..1
  BY <1>3, ChunkAssumption DEF Undecided
<1>6. NothingSkipped
  <2>1. \A p \in 0..(start - 1) : FALSE
    BY <1>3, ChunkAssumption
  <2> QED BY <2>1 DEF NothingSkipped
<1> QED BY <1>2, <1>3, <1>4, <1>5, <1>6 DEF ChunkInv, CutKept, GroupsAreGreedy

LEMMA ChunkKeeps ==
  ASSUME ChunkInv, ChunkNext \/ UNCHANGED chunkVars
  PROVE  ChunkInv'
<1>1. CASE ChooseStrategy
  <2>1. CutKept'
    BY <1>1, ChooseStrategyKeeps DEF ChunkInv
  <2>2. units' = units /\ groups' = groups
    BY <1>1 DEF ChooseStrategy
  <2> QED BY <2>1, <2>2 DEF ChunkInv, UnitsKept, GroupsAreGreedy
<1>2. CASE CutByToken
  <2>1. CutKept'
    BY <1>2, CutKeeps DEF ChunkInv
  <2>2. units' = units /\ groups' = groups
    BY <1>2 DEF CutByToken
  <2> QED BY <2>1, <2>2 DEF ChunkInv, UnitsKept, GroupsAreGreedy
<1>3. CASE ChunkBySentence \/ ChunkBySemantic
  <2>1. groups' = Grouped /\ UNCHANGED <<text, units, overlap, start, idx, cuts>>
    BY <1>3 DEF ChunkBySentence, ChunkBySemantic
  <2>2. CutKept'
    BY <2>1 DEF ChunkInv, CutKept, NothingSkipped
  <2>3. UnitsKept'
    BY <2>1 DEF ChunkInv, UnitsKept
  <2>4. GroupsAreGreedy'
    <3>1. Grouped # <<>> => Greedy(units, Grouped, Len(units))
      BY GroupedIsGreedy DEF ChunkInv
    <3> QED BY <2>1, <3>1 DEF GroupsAreGreedy
  <2> QED BY <2>2, <2>3, <2>4 DEF ChunkInv
<1>4. CASE UNCHANGED chunkVars
  BY <1>4 DEF chunkVars, ChunkInv, CutKept, NothingSkipped, From, UnitsKept, GroupsAreGreedy
<1> QED BY <1>1, <1>2, <1>3, <1>4 DEF ChunkNext

(* ChunksCoverText: cutting by size skips nothing while no chunk starts    *)
(* before the text, and grouping keeps every sentence or paragraph once,   *)
(* in order and in chunks as large as they may be, for any text, any chunk *)
(* size and any overlap below it.                                          *)
THEOREM ChunksCover == Spec => []ChunksCoverText
<1>1. Init => ChunkInv
  BY ChunkStart
<1>2. ChunkInv /\ [Next]_vars => ChunkInv'
  BY PartSteps, ChunkKeeps
<1>3. ChunkInv => ChunksCoverText
  <2> SUFFICES ASSUME ChunkInv PROVE ChunksCoverText
    OBVIOUS
  <2>1. start \in (-CHUNK_SIZE)..(MaxText + 1)
    BY ChunkAssumption DEF ChunkInv, CutKept
  <2> QED BY <2>1 DEF ChunkInv, CutKept, ChunksCoverText, ChunkTypeOK
<1> QED BY <1>1, <1>2, <1>3, PTL DEF Spec
=============================================================================
