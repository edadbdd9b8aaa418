------------------------- MODULE WorkflowCatalogue -------------------------
(***************************************************************************)
(* Where workflows come from and how their versions are kept: the preset   *)
(* templates (services/ai/orchestrator/templates.py) and VersionManager    *)
(* (versioning.py). One workflow starts as a preset, is edited, stored as  *)
(* snapshots, restored and deleted again; independently its nodes are put  *)
(* in an execution order. A preset keeps each node's type and the          *)
(* variables it reads (placeholders, END outputs) and writes (output and   *)
(* response variables, START inputs); prompts and tool names are left out. *)
(***************************************************************************)
EXTENDS Naturals, SequencesExt

CONSTANTS
    MaxPatch,       \* bound: highest patch number of a version
    MaxSnapshots    \* bound: snapshots kept at a time

ASSUME CatalogueBounds == MaxPatch \in Nat /\ MaxSnapshots \in Nat

VARIABLES
    workflow,       \* the preset the workflow was made from
    placed,         \* the nodes _topological_sort has put into the order
    draft,          \* the caller's WorkflowDSL
    snapshots,      \* _snapshots[workflow_id]
    current         \* _current_version[workflow_id], the patch number

workflowVars == <<workflow, placed, draft, snapshots, current>>

-----------------------------------------------------------------------------
(* The preset templates.                                                   *)

N(id, type, reads, writes) == [id |-> id, type |-> type, reads |-> reads, writes |-> writes]

Path(ids) == {<<ids[i], ids[i + 1]>> : i \in 1..(Len(ids) - 1)}

template_device_inspection ==
    [nodes |-> {N("start", "START", {}, {"device_id"}),
                N("check-status", "TOOL", {"device_id"}, {"device_status"}),
                N("collect-metrics", "TOOL", {"device_id"}, {"metrics"}),
                N("analyze", "LLM", {"device_status", "metrics"}, {"report"}),
                N("end", "END", {"report"}, {})},
     edges |-> Path(<<"start", "check-status", "collect-metrics", "analyze", "end">>)]

template_alarm_handling ==
    [nodes |-> {N("start", "START", {}, {"alarm_id"}),
                N("fetch-alarm", "TOOL", {"alarm_id"}, {"alarm"}),
                N("classify", "LLM", {"alarm"}, {"severity"}),
                N("check-severity", "CONDITION", {"severity"}, {}),
                N("notify-high", "TOOL", {"alarm"}, {"notification_sent"}),
                N("notify-low", "TOOL", {"alarm"}, {"notification_sent"}),
                N("end", "END", {"notification_sent"}, {})},
     edges |-> Path(<<"start", "fetch-alarm", "classify", "check-severity", "notify-high", "end">>)
                \cup Path(<<"check-severity", "notify-low", "end">>)]

template_report_generation ==
    [nodes |-> {N("start", "START", {}, {"report_type", "parameters"}),
                N("parallel-collect", "PARALLEL", {}, {}),
                N("collect-telemetry", "TOOL", {"parameters"}, {"telemetry_data"}),
                N("collect-assets", "TOOL", {"parameters"}, {"asset_data"}),
                N("analyze", "LLM", {"report_type"}, {"analysis"}),
                N("generate", "LLM", {"analysis", "report_type"}, {"report"}),
                N("end", "END", {"report"}, {})},
     edges |-> Path(<<"start", "parallel-collect", "collect-telemetry", "analyze", "generate", "end">>)
                \cup Path(<<"parallel-collect", "collect-assets", "analyze">>)]

template_energy_analysis ==
    [nodes |-> {N("start", "START", {}, {"building_id", "period"}),
                N("fetch-energy", "HTTP", {"building_id"}, {"energy_data"}),
                N("analyze", "LLM", {"energy_data", "period"}, {"analysis"}),
                N("recommend", "LLM", {"analysis"}, {"recommendations"}),
                N("end", "END", {"recommendations"}, {})},
     edges |-> Path(<<"start", "fetch-energy", "analyze", "recommend", "end">>)]

template_asset_inventory ==
    [nodes |-> {N("start", "START", {}, {"location_id"}),
                N("scan", "TOOL", {"location_id"}, {"scanned_assets"}),
                N("fetch-records", "TOOL", {"location_id"}, {"recorded_assets"}),
                N("compare", "LLM", {"recorded_assets", "scanned_assets"}, {"discrepancies"}),
                N("end", "END", {"discrepancies"}, {})},
     edges |-> Path(<<"start", "scan", "compare", "end">>)
                \cup Path(<<"start", "fetch-records", "compare">>)]

template_incident_response ==
    [nodes |-> {N("start", "START", {}, {"incident_id"}),
                N("assess", "TOOL", {"incident_id"}, {"assessment"}),
                N("plan", "LLM", {"assessment"}, {"response_plan"}),
                N("parallel-execute", "PARALLEL", {}, {}),
                N("execute-action-1", "TOOL", {}, {"action1_result"}),
                N("execute-action-2", "TOOL", {}, {"action2_result"}),
                N("end", "END", {"action1_result", "action2_result"}, {})},
     edges |-> Path(<<"start", "assess", "plan", "parallel-execute", "execute-action-1", "end">>)
                \cup Path(<<"parallel-execute", "execute-action-2", "end">>)]

template_data_backup ==
    [nodes |-> {N("start", "START", {}, {"backup_scope"}),
                N("validate", "CONDITION", {"backup_scope"}, {}),
                N("backup", "TOOL", {"backup_scope"}, {"backup_result"}),
                N("verify", "TOOL", {"backup_result"}, {"verification_result"}),
                N("notify", "TOOL", {}, {"notification_result"}),
                N("end", "END", {"verification_result", "notification_result"}, {}),
                N("error-end", "END", {}, {})},
     edges |-> Path(<<"start", "validate", "backup", "verify", "notify", "end">>)
                \cup Path(<<"validate", "error-end">>)]

template_device_provisioning ==
    [nodes |-> {N("start", "START", {}, {"device_specs"}),
                N("validate", "TOOL", {"device_specs"}, {"validation_result"}),
                N("check-validation", "CONDITION", {"validation_result"}, {}),
                N("configure", "TOOL", {"device_specs"}, {"config_result"}),
                N("test", "TOOL", {"config_result"}, {"test_result"}),
                N("register", "TOOL", {"config_result"}, {"register_result"}),
                N("end", "END", {"register_result"}, {}), N("reject-end", "END", {}, {})},
     edges |-> Path(<<"start", "validate", "check-validation", "configure", "test", "register", "end">>)
                \cup Path(<<"check-validation", "reject-end">>)]

template_compliance_check ==
    [nodes |-> {N("start", "START", {}, {"compliance_domain"}),
                N("parallel-collect", "PARALLEL", {}, {}),
                N("collect-policy", "TOOL", {"compliance_domain"}, {"policy"}),
                N("collect-evidence", "TOOL", {"compliance_domain"}, {"evidence"}),
                N("evaluate", "LLM", {"evidence", "policy"}, {"evaluation"}),
                N("report", "LLM", {"evaluation"}, {"report"}),
                N("end", "END", {"report"}, {})},
     edges |-> Path(<<"start", "parallel-collect", "collect-policy", "evaluate", "report", "end">>)
                \cup Path(<<"parallel-collect", "collect-evidence", "evaluate">>)]

template_anomaly_detection ==
    [nodes |-> {N("start", "START", {}, {"data_source", "time_range"}),
                N("collect", "TOOL", {"data_source", "time_range"}, {"data"}),
                N("analyze", "LLM", {"data"}, {"analysis"}),
                N("check-anomaly", "CONDITION", {"analysis"}, {}),
                N("alert", "TOOL", {"analysis"}, {"alert_result"}),
                N("end", "END", {"alert_result"}, {}),
                N("log-end", "END", {}, {})},
     edges |-> Path(<<"start", "collect", "analyze", "check-anomaly", "alert", "end">>)
                \cup Path(<<"check-anomaly", "log-end">>)]

template_asset_lifecycle ==
    [nodes |-> {N("start", "START", {}, {"asset_id", "lifecycle_stage"}),
                N("track", "TOOL", {"asset_id"}, {"status"}),
                N("predict", "LLM", {"status"}, {"prediction"}),
                N("update", "TOOL", {"asset_id", "prediction"}, {"update_result"}),
                N("end", "END", {"update_result"}, {})},
     edges |-> Path(<<"start", "track", "predict", "update", "end">>)]

\* The workflows get_template can return. template_maintenance_scheduling, the
\* twelfth entry, has none: its notify node formats a name that is not defined,
\* and building it raises.
PRESET_TEMPLATES ==
    {template_device_inspection, template_alarm_handling, template_report_generation,
     template_energy_analysis, template_asset_inventory, template_incident_response,
     template_data_backup, template_device_provisioning, template_compliance_check,
     template_anomaly_detection, template_asset_lifecycle}

-----------------------------------------------------------------------------
(* The order of execution.                                                 *)

Predecessors(n) == {e[1] : e \in {x \in workflow.edges : x[2] = n.id}}

\* _topological_sort appends a node all of whose predecessors are in the
\* order; which of several such nodes comes first is left open.
Place(n) ==
    /\ n \notin placed
    /\ Predecessors(n) \subseteq {m.id : m \in placed}
    /\ placed' = placed \cup {n}
    /\ UNCHANGED <<workflow, draft, snapshots, current>>

-----------------------------------------------------------------------------
(* Versions. A draft has a shape (ids, types, labels, edges, variables)    *)
(* and settings (what the node classes add: prompts, tool names).          *)

Drafts == [shape : {"a", "b"}, settings : {"a", "b"}]

\* WorkflowDSL.to_dict: nodes are declared as BaseNodeConfig and are dumped
\* as that, without the fields of the node classes.
ToDict(d) == [shape |-> d.shape]

WithVersion(v) == {i \in DOMAIN snapshots : snapshots[i].version = v}

\* get_snapshot(workflow_id, version): the first one that matches.
GetSnapshot(v) == CHOOSE i \in WithVersion(v) : \A j \in WithVersion(v) : i <= j

Edit(d) ==
    /\ d # draft
    /\ draft' = d
    /\ UNCHANGED <<workflow, placed, snapshots, current>>

\* Mutant: the older snapshots keep their flag.
CreateKeepsFlags ==
    /\ current < MaxPatch
    /\ Len(snapshots) < MaxSnapshots
    /\ snapshots' = Append(snapshots, [version |-> current + 1, is_current |-> TRUE, data |-> ToDict(draft)])
    /\ current' = current + 1
    /\ UNCHANGED <<workflow, placed, draft>>

\* create_snapshot: bump the current version, unmark every stored snapshot,
\* append the new one. The change summary in between only reads.
CreateSnapshot ==
    /\ current < MaxPatch
    /\ Len(snapshots) < MaxSnapshots
    /\ LET unmarked == [i \in DOMAIN snapshots |-> [snapshots[i] EXCEPT !.is_current = FALSE]]
           new == [version |-> current + 1, is_current |-> TRUE, data |-> ToDict(draft)]
       IN snapshots' = Append(unmarked, new)
    /\ current' = current + 1
    /\ UNCHANGED <<workflow, placed, draft>>

\* restore_version: mark the first snapshot of that version, unmark those with
\* another snapshot_id. A second snapshot with the same version has the same
\* snapshot_id and keeps its flag.
RestoreVersion(v) ==
    /\ WithVersion(v) # {}
    /\ snapshots' = [i \in DOMAIN snapshots |->
                        [snapshots[i] EXCEPT !.is_current = (i = GetSnapshot(v)) \/ (@ /\ i \in WithVersion(v))]]
    /\ current' = v
    /\ UNCHANGED <<workflow, placed, draft>>

\* delete_version: every snapshot of that version goes; the current version
\* is not touched.
DeleteVersion(v) ==
    /\ WithVersion(v) # {}
    /\ snapshots' = SelectSeq(snapshots, LAMBDA s : s.version # v)
    /\ UNCHANGED <<workflow, placed, draft, current>>

-----------------------------------------------------------------------------
WorkflowInit ==
    /\ workflow \in PRESET_TEMPLATES
    /\ placed = {}
    /\ draft = [shape |-> "a", settings |-> "a"]
    /\ snapshots = <<>>
    /\ current = 0

WorkflowNext ==
    \/ \E n \in workflow.nodes : Place(n)
    \/ \E d \in Drafts : Edit(d)
    \/ CreateSnapshot
    \/ \E v \in 1..MaxPatch : RestoreVersion(v) \/ DeleteVersion(v)

-----------------------------------------------------------------------------
(* Properties.                                                             *)

Versions == 0..MaxPatch

WorkflowTypeOK ==
    /\ workflow \in PRESET_TEMPLATES
    /\ placed \subseteq workflow.nodes
    /\ draft \in Drafts
    /\ current \in Versions
    /\ Len(snapshots) <= MaxSnapshots
    /\ \A i \in DOMAIN snapshots :
          snapshots[i] \in [version : Versions, is_current : BOOLEAN, data : [shape : {"a", "b"}]]

\* In whatever order the sort puts the nodes of a preset that can be built, a
\* node comes after the nodes that write the variables it reads: none runs on
\* a variable nobody has set.
ReadsAreWritten ==
    \A n \in placed : n.reads \subseteq UNION {m.writes : m \in placed \ {n}}

\* An edge of a preset that can be built joins two of its nodes and the sort
\* reaches every node, so WorkflowDSL does not refuse it and no node is left
\* over.
NothingLeftOver ==
    (\A n \in workflow.nodes \ placed : ~ (Predecessors(n) \subseteq {m.id : m \in placed}))
        => placed = workflow.nodes

\* A snapshot that is marked current has the version VersionManager believes
\* current, through every mixture of create, restore and delete.
CurrentIsConsistent ==
    \A i \in DOMAIN snapshots : snapshots[i].is_current => snapshots[i].version = current
=============================================================================
