---------------------------- MODULE SafetyEngine ----------------------------
(***************************************************************************)
(* Safety levels C0-C4: the engine that evaluates a tool call and records  *)
(* approvals (services/core/src/safety/service.py), and the capability     *)
(* gate that decides and logs on its own                                   *)
(* (services/core/src/capability/safety/gate.py).  Ids of evaluations and  *)
(* records are uuid4; a gate decision's id is its level and its time.      *)
(*                                                                         *)
(* The audit log (services/core/src/audit/service.py): entries are         *)
(* chained by hashing each with its predecessor's hash, and verify_chain   *)
(* walks them in the order of their timestamps.  The timestamps come from  *)
(* the wall clock, which may stand still between two entries or be set     *)
(* back.  A hash is modelled as the content it was computed from: equal    *)
(* hashes mean equal contents.                                             *)
(***************************************************************************)
EXTENDS Naturals, Sequences, FiniteSets

CONSTANTS
    Roles,              \* requester and approver roles
    ApproverLists,      \* context["approvers"]
    MaxEvaluations,     \* bound: evaluations of the engine
    MaxDecisions,       \* bound: decisions of the gate
    MaxTick,            \* bound: datetime.now() of the gate
    Contents,           \* actor, action, resource, result, level and metadata of an entry
    MaxEntries,         \* bound: entries of the log
    MaxWall             \* bound: the wall clock

ASSUME SafetyConstants ==
    /\ {"admin", "emergency_operator", "supervisor", "manager"} \cap Roles # {}
    /\ ApproverLists \subseteq Seq(Roles)
    /\ MaxEvaluations \in Nat /\ MaxDecisions \in Nat /\ MaxTick \in Nat

ASSUME AuditConstants == MaxEntries \in Nat /\ MaxWall \in Nat

VARIABLES
    evaluations,    \* _evaluations, in the order they were made
    records,        \* _approvals
    audit_log,      \* the gate's _audit_log
    tick,           \* the gate's clock
    entries,        \* the audit log's _entries, in insertion order
    last_hash,      \* _last_hash
    wall,           \* datetime.now(timezone.utc)
    altered         \* positions of entries changed after they were appended

safetyVars == <<evaluations, records, audit_log, tick>>
auditVars == <<entries, last_hash, wall, altered>>

SAFETY_LEVELS == {"C0", "C1", "C2", "C3", "C4"}
ApproverRoles == {"admin", "supervisor", "manager"}
EmergencyRoles == {"admin", "emergency_operator"}
Hardware == "hardware"

SafetyInit == evaluations = <<>> /\ records = <<>> /\ audit_log = <<>> /\ tick = 0

Evaluation(level, approved, approvers) == [level |-> level, approved |-> approved, approvers |-> approvers]

Record(level, role, approved) == [level |-> level, role |-> role, approved |-> approved]

\* The evaluation of a call, by level.
Verdict(level, role, approvers, emergency, hardware) ==
    CASE level = "C0" -> Evaluation(level, TRUE, <<>>)
      [] level = "C1" -> Evaluation(level, role \in ApproverRoles, IF role \in ApproverRoles THEN <<role>> ELSE <<>>)
      [] level = "C2" -> Evaluation(level, Len(approvers) >= 2,
                                    IF Len(approvers) >= 2 THEN SubSeq(approvers, 1, 2) ELSE <<>>)
      [] level = "C3" -> Evaluation(level, emergency /\ role \in EmergencyRoles,
                                    IF emergency /\ role \in EmergencyRoles THEN <<role>> ELSE <<>>)
      [] level = "C4" -> Evaluation(level, hardware, IF hardware THEN <<Hardware>> ELSE <<>>)

\* _record_approval: one record for each approver; a refusal is recorded for C1 only.
RecordApproval(v, role) ==
    IF v.approved THEN [i \in DOMAIN v.approvers |-> Record(v.level, v.approvers[i], TRUE)]
    ELSE IF v.level = "C1" THEN <<Record("C1", role, FALSE)>> ELSE <<>>

Evaluate(level, role, approvers, emergency, hardware) ==
    /\ Len(evaluations) < MaxEvaluations
    /\ LET v == Verdict(level, role, approvers, emergency, hardware)
       IN  evaluations' = Append(evaluations, v) /\ records' = records \o RecordApproval(v, role)
    /\ UNCHANGED <<audit_log, tick>>

\* SafetyGate.evaluate: what satisfies a level is the presence of the context's entry.
GateEvaluate(level, satisfied) ==
    /\ Len(audit_log) < MaxDecisions
    /\ audit_log' = Append(audit_log, [level |-> level, at |-> tick, n |-> Len(audit_log) + 1,
                                       approved |-> level = "C0" \/ satisfied])
    /\ UNCHANGED <<evaluations, records, tick>>

TickPasses == tick < MaxTick /\ tick' = tick + 1 /\ UNCHANGED <<evaluations, records, audit_log>>

EngineNext ==
    \E level \in SAFETY_LEVELS, role \in Roles, approvers \in ApproverLists, emergency, hardware \in BOOLEAN :
        Evaluate(level, role, approvers, emergency, hardware)

GateNext ==
    \/ \E level \in SAFETY_LEVELS, satisfied \in BOOLEAN : GateEvaluate(level, satisfied)
    \/ TickPasses

SameId(e, d) == e.level = d.level /\ e.at = d.at

\* get_decision: the newest entry that has the id.
GetDecision(d) == audit_log[CHOOSE i \in DOMAIN audit_log :
    SameId(audit_log[i], d) /\ \A j \in DOMAIN audit_log : SameId(audit_log[j], d) => j <= i]
-----------------------------------------------------------------------------
Genesis == <<>>

Hash(timestamp, content, prev_hash) == <<timestamp, content, prev_hash>>

AuditInit == entries = <<>> /\ last_hash = Genesis /\ wall = 0 /\ altered = {}

AppendEntry(c) ==
    /\ Len(entries) < MaxEntries
    /\ entries' = Append(entries, [timestamp |-> wall, content |-> c, prev_hash |-> last_hash,
                                   entry_hash |-> Hash(wall, c, last_hash)])
    /\ last_hash' = Hash(wall, c, last_hash)
    /\ UNCHANGED <<wall, altered>>

\* Somebody holding the entry object changes it: the dataclass is not frozen.
AlterEntry(i, c) ==
    /\ i \in DOMAIN entries \ altered /\ c # entries[i].content
    /\ entries' = [entries EXCEPT ![i].content = c]
    /\ altered' = altered \cup {i}
    /\ UNCHANGED <<last_hash, wall>>

SetWall(t) == wall' = t /\ UNCHANGED <<entries, last_hash, altered>>

AuditNext ==
    \/ \E c \in Contents : AppendEntry(c) \/ \E i \in 1..MaxEntries : AlterEntry(i, c)
    \/ \E t \in 0..MaxWall : SetWall(t)

IsTampered(e) == e.entry_hash # Hash(e.timestamp, e.content, e.prev_hash)

\* sorted(key=timestamp) is stable: entries of one time keep their order.
SortedBefore(log, i, j) ==
    \/ log[i].timestamp < log[j].timestamp
    \/ log[i].timestamp = log[j].timestamp /\ i < j

Predecessors(log, i) == {j \in DOMAIN log : SortedBefore(log, j, i)}

\* expected_prev when verify_chain reaches entry i: the hash of the entry that the
\* sort puts right before it.
ExpectedPrev(log, i) ==
    IF Predecessors(log, i) = {} THEN Genesis
    ELSE log[CHOOSE j \in Predecessors(log, i) :
                \A k \in Predecessors(log, i) : k = j \/ SortedBefore(log, k, j)].entry_hash

LinksOnly(log) == \A i \in DOMAIN log : log[i].prev_hash = ExpectedPrev(log, i)

VerifyChain(log) ==
    \A i \in DOMAIN log : log[i].prev_hash = ExpectedPrev(log, i) /\ ~IsTampered(log[i])
-----------------------------------------------------------------------------
SafetyTypeOK ==
    /\ tick \in 0..MaxTick
    /\ \A i \in DOMAIN evaluations : evaluations[i].level \in SAFETY_LEVELS /\ evaluations[i].approved \in BOOLEAN
    /\ \A i \in DOMAIN records : records[i].role \in Roles \cup {Hardware}
    /\ \A i \in DOMAIN audit_log : audit_log[i].at \in 0..MaxTick

\* The places at which a role stands among the approvers of the approved
\* evaluations of a level: the evaluation's number and the approver's.
TimesNamed(level, role) ==
    {p \in (DOMAIN evaluations) \X {1, 2} :
        LET v == evaluations[p[1]]
        IN  v.level = level /\ v.approved /\ p[2] \in DOMAIN v.approvers /\ v.approvers[p[2]] = role}

\* The approving records of a role at a level.
TimesRecorded(level, role) ==
    {i \in DOMAIN records : records[i].level = level /\ records[i].role = role /\ records[i].approved}

\* The approval records account for the evaluations: at every level each role has
\* as many approving records as approved evaluations name it, so no approval above
\* C0 goes unrecorded, none is recorded twice, and a dual approval leaves two.
ApprovalsAccountForEvaluations ==
    \A level \in SAFETY_LEVELS, role \in Roles \cup {Hardware} :
        Cardinality(TimesNamed(level, role)) = Cardinality(TimesRecorded(level, role))

\* Looking a gate decision up by its audit_id gives that decision, unless a later
\* one of the same level was made at the same time and took its id over.
GateFindsDecision ==
    \A i \in DOMAIN audit_log :
        \/ GetDecision(audit_log[i]) = audit_log[i]
        \/ \E j \in DOMAIN audit_log : j > i /\ SameId(audit_log[j], audit_log[i])

AuditTypeOK == wall \in 0..MaxWall /\ altered \subseteq DOMAIN entries /\ Len(entries) <= MaxEntries

\* verify_chain says yes exactly when no entry was changed and the clock was never
\* set back between two of them; entries with equal timestamps do no harm, since
\* the sort keeps their order.
ChainVerdictExact ==
    VerifyChain(entries) <=>
        /\ altered = {}
        /\ \A i, j \in DOMAIN entries : i < j => entries[i].timestamp <= entries[j].timestamp
=============================================================================
