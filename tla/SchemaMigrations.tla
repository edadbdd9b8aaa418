------------------------- MODULE SchemaMigrations -------------------------
(***************************************************************************)
(* The two ways the database gets its tables: the Alembic revisions of     *)
(* database/migrations, and init_db, with which the gateway creates the    *)
(* tables of its SQLAlchemy models when it starts. A migration command     *)
(* walks from the committed revision to a target; each revision's script   *)
(* is a sequence of operations, and env.py runs all scripts of one command *)
(* in one transaction. Kept of a schema: tables, foreign keys with their   *)
(* delete rule, indexes and unique constraints, the deleted_at columns,    *)
(* the JSON column of the first revision's tables and which of two columns *)
(* are text. Other columns and their types are left out.                   *)
(*                                                                         *)
(* Several scripts cannot run as they are written: the first revision      *)
(* seeds permissions through a column the table does not have, and         *)
(* operations of later ones raise or are refused whatever the database     *)
(* holds (Faulty). So no command ever gets past the first revision, and    *)
(* what the later scripts would do is read off them without running them.  *)
(***************************************************************************)
EXTENDS Naturals, SequencesExt

VARIABLES
    version,    \* the committed alembic_version: a position in Revisions, 0 = base
    schema,     \* the committed schema
    run         \* the migration command in progress, or NoRun

migrationVars == <<version, schema, run>>

-----------------------------------------------------------------------------
(* Operations of a script. A reference names its target and delete rule.   *)

NoAction(t) == <<t, "NO ACTION">>
Cascade(t) == <<t, "CASCADE">>
SetNull(t) == <<t, "SET NULL">>
Restricted(t) == <<t, "RESTRICT">>

CreateWith(t, refs, names) ==
    [op |-> "create_table", table |-> t, refs |-> refs, columns |-> {<<t, n>> : n \in names}]
Create(t, refs) == CreateWith(t, refs, {})
CreateSoft(t, refs) == CreateWith(t, refs, {"deleted_at"})
Drop(t) == [op |-> "drop_table", table |-> t]
Index(i, t) == [op |-> "create_index", index |-> i, table |-> t]
DropIndex(i) == [op |-> "drop_index", index |-> i]
AddColumn(t, c) == [op |-> "add_column", table |-> t, column |-> c]
DropColumn(t, c) == [op |-> "drop_column", table |-> t, column |-> c]
Alter(t, c, type) == [op |-> "alter_column", table |-> t, column |-> c, type |-> type]
Insert(t, names) == [op |-> "insert", table |-> t, columns |-> {<<t, n>> : n \in names}]
Extension(e) == [op |-> "create_extension", extension |-> e]

\* An operation that raises as it is written, whatever the database holds.
Faulty(o) == o @@ [faulty |-> TRUE]

-----------------------------------------------------------------------------
(* The revision scripts, oldest first.                                     *)

phase1_identity_up ==
    << CreateWith("tenants", {}, {"extra_data"}),
       CreateWith("users", {NoAction("tenants")}, {"extra_data"}),
       CreateWith("roles", {NoAction("tenants")}, {"extra_data"}),
       CreateWith("permissions", {}, {"extra_data"}),
       Create("user_roles", {Cascade("users"), Cascade("roles")}),
       Create("role_permissions", {Cascade("roles"), Cascade("permissions")}) >>

phase1_core_up ==
    << CreateWith("entities", {NoAction("tenants")}, {"extra_data"}),
       CreateWith("assets", {Cascade("entities")}, {"metadata"}),
       CreateWith("property_definitions", {NoAction("tenants")}, {"metadata"}),
       Index("uq_property_definition_system", "property_definitions"),
       Index("uq_property_definition_tenant", "property_definitions"),
       Create("property_values", {Cascade("entities"), NoAction("property_definitions")}),
       CreateWith("relationships", {NoAction("tenants"), Cascade("entities")}, {"metadata"}),
       Index("idx_tenants_code", "tenants"), Index("idx_users_tenant", "users"),
       Index("idx_users_username", "users"), Index("idx_roles_tenant", "roles"),
       Index("idx_entities_tenant", "entities"), Index("idx_entities_type", "entities"),
       Index("idx_assets_entity", "assets"), Index("idx_assets_code", "assets"),
       Index("idx_relationships_source", "relationships"),
       Index("idx_relationships_target", "relationships"),
       Index("idx_property_defs_type", "property_definitions"),
       Insert("permissions", {"metadata"}) >>

phase1_identity_core_up == phase1_identity_up \o phase1_core_up

phase1_identity_core_down ==
    << Drop("relationships"), Drop("property_values"), Drop("property_definitions"), Drop("assets"),
       Drop("entities"), Drop("role_permissions"), Drop("user_roles"), Drop("permissions"),
       Drop("roles"), Drop("users"), Drop("tenants") >>

phase1_fix_property_boolean_up ==
    << Alter("property_definitions", "required", "Boolean"),
       Alter("property_definitions", "writable", "Boolean") >>

phase1_fix_property_boolean_down ==
    << Alter("property_definitions", "required", "String"),
       Alter("property_definitions", "writable", "String") >>

\* The column's type, TIMESTAMPTZ, is none of the dialect's names.
phase2_soft_delete_up ==
    << Faulty(AddColumn("entities", "deleted_at")), Faulty(AddColumn("assets", "deleted_at")),
       Faulty(AddColumn("property_definitions", "deleted_at")),
       Faulty(AddColumn("relationships", "deleted_at")), Faulty(AddColumn("users", "deleted_at")),
       Index("idx_entities_deleted", "entities"), Index("idx_assets_deleted", "assets"),
       Index("idx_property_defs_deleted", "property_definitions"),
       Index("idx_relationships_deleted", "relationships"), Index("idx_users_deleted", "users") >>

phase2_soft_delete_down ==
    << DropIndex("idx_users_deleted"), DropIndex("idx_relationships_deleted"),
       DropIndex("idx_property_defs_deleted"), DropIndex("idx_assets_deleted"),
       DropIndex("idx_entities_deleted"), DropColumn("users", "deleted_at"),
       DropColumn("relationships", "deleted_at"),
       DropColumn("property_definitions", "deleted_at"), DropColumn("assets", "deleted_at"),
       DropColumn("entities", "deleted_at") >>

phase5_data_acquisition_up ==
    << CreateSoft("data_sources", {NoAction("tenants")}),
       Index("ix_datasource_tenant_status", "data_sources"),
       CreateSoft("connections", {NoAction("tenants"), Cascade("data_sources")}),
       Index("ix_connection_datasource", "connections"),
       CreateSoft("devices", {NoAction("tenants"), SetNull("data_sources"), SetNull("connections")}),
       Index("ix_device_datasource", "devices"), Index("ix_device_connection", "devices"),
       CreateSoft("data_points", {NoAction("tenants"), Cascade("devices")}),
       Index("ix_datapoint_external", "data_points"),
       CreateSoft("device_entity_bindings", {NoAction("tenants"), Cascade("devices"), Cascade("entities")}) >>

phase5_data_acquisition_down ==
    << Drop("device_entity_bindings"), Drop("data_points"), Drop("devices"), Drop("connections"),
       Drop("data_sources") >>

phase6_telemetry_up ==
    << Create("telemetry_points", {NoAction("tenants"), Cascade("devices"), Cascade("data_points")}),
       Index("ix_telemetry_tenant_device_time", "telemetry_points"),
       Index("ix_telemetry_datapoint_time", "telemetry_points"),
       Index("ix_telemetry_tenant_time", "telemetry_points") >>

phase6_telemetry_down ==
    << DropIndex("ix_telemetry_tenant_time"), DropIndex("ix_telemetry_datapoint_time"),
       DropIndex("ix_telemetry_tenant_device_time"), Drop("telemetry_points") >>

phase9_twin_persistence_up ==
    << CreateSoft("twin_definitions", {NoAction("tenants")}),
       Index("ix_twin_def_tenant_code", "twin_definitions"),
       Index("uq_twin_def_tenant_code", "twin_definitions"),
       CreateSoft("twin_entities", {NoAction("tenants"), NoAction("twin_definitions")}),
       Index("ix_twin_ent_tenant_external", "twin_entities"),
       Index("ix_twin_ent_definition", "twin_entities"),
       Create("twin_bindings", {NoAction("tenants"), Cascade("devices"), Cascade("twin_entities")}),
       Index("ix_twin_bind_device", "twin_bindings"),
       Index("ix_twin_bind_entity", "twin_bindings"),
       Index("ix_twin_bind_tenant_device", "twin_bindings") >>

phase9_twin_persistence_down ==
    << Drop("twin_bindings"), Drop("twin_entities"), Drop("twin_definitions") >>

phase10_twin_graph_up ==
    << CreateSoft("twin_relationships", {NoAction("tenants"), Cascade("twin_entities")}),
       Index("ix_twin_rel_source", "twin_relationships"),
       Index("ix_twin_rel_target", "twin_relationships"),
       Index("ix_twin_rel_type", "twin_relationships"),
       Index("ix_twin_rel_tenant", "twin_relationships"),
       Index("ix_twin_rel_all", "twin_relationships") >>

phase10_twin_graph_down ==
    << DropIndex("ix_twin_rel_all"), DropIndex("ix_twin_rel_tenant"), DropIndex("ix_twin_rel_type"),
       DropIndex("ix_twin_rel_target"), DropIndex("ix_twin_rel_source"),
       Drop("twin_relationships") >>

phase11_template_foundation_up ==
    << CreateSoft("twin_templates", {NoAction("tenants")}),
       Index("ix_template_code", "twin_templates"),
       Index("ix_template_tenant", "twin_templates"),
       Create("template_properties", {Cascade("twin_templates")}),
       Index("ix_prop_template", "template_properties"),
       Create("template_relationships", {Cascade("twin_templates")}),
       Index("ix_rel_template", "template_relationships") >>

phase11_template_foundation_down ==
    << DropIndex("ix_rel_template"), Drop("template_relationships"), DropIndex("ix_prop_template"),
       Drop("template_properties"), DropIndex("ix_template_tenant"),
       DropIndex("ix_template_code"), Drop("twin_templates") >>

phase12_semantic_meta_model_up ==
    << CreateSoft("ontology_concepts", {NoAction("tenants"), SetNull("ontology_concepts")}),
       Index("ix_ontology_code", "ontology_concepts"),
       Index("ix_ontology_tenant", "ontology_concepts"),
       Index("ix_ontology_parent", "ontology_concepts"),
       CreateSoft("entity_type_definitions", {NoAction("tenants"), Restricted("ontology_concepts")}),
       Index("ix_etype_code", "entity_type_definitions"),
       Index("ix_etype_tenant", "entity_type_definitions"),
       Index("ix_etype_ontology", "entity_type_definitions"),
       CreateSoft("capability_definitions", {NoAction("tenants")}),
       Index("ix_capability_code", "capability_definitions"),
       Index("ix_capability_tenant", "capability_definitions"),
       Create("semantic_properties", {Cascade("capability_definitions")}),
       Index("ix_prop_capability", "semantic_properties"),
       Create("capability_property_bindings", {Cascade("capability_definitions"), Cascade("semantic_properties")}),
       CreateSoft("template_capability_bindings", {Cascade("twin_templates"), Cascade("capability_definitions")}),
       Index("ix_tpc_template", "template_capability_bindings"),
       Index("ix_tpc_capability", "template_capability_bindings") >>

phase12_semantic_meta_model_down ==
    << DropIndex("ix_tpc_capability"), DropIndex("ix_tpc_template"),
       Drop("template_capability_bindings"), Drop("capability_property_bindings"),
       DropIndex("ix_prop_capability"), Drop("semantic_properties"),
       DropIndex("ix_capability_tenant"), DropIndex("ix_capability_code"),
       Drop("capability_definitions"), DropIndex("ix_etype_ontology"),
       DropIndex("ix_etype_tenant"), DropIndex("ix_etype_code"),
       Drop("entity_type_definitions"), DropIndex("ix_ontology_parent"),
       DropIndex("ix_ontology_tenant"), DropIndex("ix_ontology_code"), Drop("ontology_concepts") >>

phase12_1_deployment_meta_up ==
    << CreateSoft("deployment_profiles", {NoAction("tenants"), Restricted("twin_templates")}),
       Index("ix_profile_name", "deployment_profiles"),
       Index("ix_profile_tenant", "deployment_profiles"),
       Index("ix_profile_template", "deployment_profiles"),
       CreateSoft("deployment_instances", {NoAction("tenants"), Cascade("deployment_profiles")}),
       Index("ix_instance_name", "deployment_instances"),
       Index("ix_instance_tenant", "deployment_instances"),
       Index("ix_instance_profile", "deployment_instances"),
       CreateSoft("deployment_nodes", {NoAction("tenants"), Cascade("deployment_instances"), SetNull("entity_type_definitions")}),
       Index("ix_node_deployment", "deployment_nodes"),
       Index("ix_node_tenant", "deployment_nodes"),
       Index("ix_node_entity_type", "deployment_nodes"),
       CreateSoft("deployment_node_capabilities", {NoAction("tenants"), Cascade("deployment_nodes"), Cascade("capability_definitions")}),
       Index("ix_node_cap_node", "deployment_node_capabilities"),
       Index("ix_node_cap_capability", "deployment_node_capabilities"),
       Index("ix_node_cap_tenant", "deployment_node_capabilities") >>

phase12_1_deployment_meta_down ==
    << DropIndex("ix_node_cap_tenant"), DropIndex("ix_node_cap_capability"),
       DropIndex("ix_node_cap_node"), Drop("deployment_node_capabilities"),
       DropIndex("ix_node_entity_type"), DropIndex("ix_node_tenant"),
       DropIndex("ix_node_deployment"), Drop("deployment_nodes"),
       DropIndex("ix_instance_profile"), DropIndex("ix_instance_tenant"),
       DropIndex("ix_instance_name"), Drop("deployment_instances"),
       DropIndex("ix_profile_template"), DropIndex("ix_profile_tenant"),
       DropIndex("ix_profile_name"), Drop("deployment_profiles") >>

phase13_provisioning_up ==
    << CreateSoft("provisioning_plans", {NoAction("tenants"), Cascade("deployment_instances")}),
       Index("ix_plan_tenant", "provisioning_plans"),
       Index("ix_plan_deployment", "provisioning_plans"),
       Create("provisioning_items", {NoAction("tenants"), Cascade("provisioning_plans"), SetNull("twin_templates"), SetNull("entity_type_definitions"), SetNull("twin_entities")}),
       Index("ix_item_plan", "provisioning_items"),
       Index("ix_item_external", "provisioning_items"),
       Index("ix_item_tenant", "provisioning_items"),
       CreateSoft("provisioning_executions", {NoAction("tenants"), Cascade("provisioning_plans")}),
       Index("ix_execution_plan", "provisioning_executions"),
       Index("ix_execution_tenant", "provisioning_executions") >>

phase13_provisioning_down ==
    << DropIndex("ix_execution_tenant"), DropIndex("ix_execution_plan"),
       Drop("provisioning_executions"), DropIndex("ix_item_tenant"),
       DropIndex("ix_item_external"), DropIndex("ix_item_plan"), Drop("provisioning_items"),
       DropIndex("ix_plan_deployment"), DropIndex("ix_plan_tenant"), Drop("provisioning_plans") >>

phase14_twin_activation_up ==
    << CreateSoft("twin_activation_logs", {NoAction("tenants"), Cascade("twin_entities"), SetNull("twin_bindings")}),
       Index("ix_activation_entity", "twin_activation_logs"),
       Index("ix_activation_tenant_entity", "twin_activation_logs"),
       CreateSoft("twin_commands", {NoAction("tenants"), Cascade("twin_bindings"), Cascade("devices")}),
       Index("ix_command_binding", "twin_commands"),
       Index("ix_command_device", "twin_commands"),
       Index("ix_command_tenant_status", "twin_commands") >>

phase14_twin_activation_down ==
    << DropIndex("ix_command_tenant_status"), DropIndex("ix_command_device"),
       DropIndex("ix_command_binding"), Drop("twin_commands"),
       DropIndex("ix_activation_tenant_entity"), DropIndex("ix_activation_entity"),
       Drop("twin_activation_logs") >>

phase16_telemetry_pipeline_up ==
    << Create("telemetry_quality", {NoAction("tenants"), Cascade("telemetry_points")}),
       Index("ix_quality_point", "telemetry_quality"),
       Index("ix_quality_tenant_level", "telemetry_quality"), Create("telemetry_config", {}),
       Index("ix_telemetry_config_tenant", "telemetry_config") >>

phase16_telemetry_pipeline_down ==
    << DropIndex("ix_telemetry_config_tenant"), Drop("telemetry_config"),
       DropIndex("ix_quality_tenant_level"), DropIndex("ix_quality_point"),
       Drop("telemetry_quality") >>

\* A create_table that declares an index within the table gives sa.Index the
\* table's name and a list of columns as if they were columns, and raises; so
\* here for agent_memories, and in the three revisions after this one.
phase2_ai_agent_runtime_up ==
    << Create("agent_sessions", {}), Index("ix_agent_sessions_tenant_created", "agent_sessions"),
       Create("agent_messages", {Cascade("agent_sessions")}),
       Index("ix_agent_messages_session", "agent_messages"),
       Index("ix_agent_messages_tenant", "agent_messages"), Faulty(Create("agent_memories", {})),
       Index("ix_agent_memories_tenant_type", "agent_memories"),
       Index("ix_agent_memories_embedding", "agent_memories"),
       Create("agent_tool_calls", {Cascade("agent_sessions")}),
       Index("ix_agent_tool_calls_session", "agent_tool_calls"),
       Index("ix_agent_tool_calls_tenant", "agent_tool_calls") >>

phase2_ai_agent_runtime_down ==
    << DropIndex("ix_agent_tool_calls_tenant"), DropIndex("ix_agent_tool_calls_session"),
       Drop("agent_tool_calls"), DropIndex("ix_agent_memories_embedding"),
       DropIndex("ix_agent_memories_tenant_type"), Drop("agent_memories"),
       DropIndex("ix_agent_messages_tenant"), DropIndex("ix_agent_messages_session"),
       Drop("agent_messages"), DropIndex("ix_agent_sessions_tenant_created"),
       Drop("agent_sessions") >>

phase2_ai_rag_up ==
    << Faulty(Create("knowledge_bases", {})), Index("ix_kb_tenant_name", "knowledge_bases"),
       Faulty(Create("documents", {Cascade("knowledge_bases")})),
       Index("ix_docs_tenant_status", "documents"),
       Faulty(Create("document_chunks", {Cascade("documents")})),
       Index("ix_chunks_doc_index", "document_chunks"),
       Index("ix_chunks_tenant_kb", "document_chunks"),
       Faulty(Create("embeddings", {Cascade("document_chunks")})),
       Index("ix_embeddings_tenant_kb", "embeddings") >>

phase2_ai_rag_down ==
    << DropIndex("ix_embeddings_tenant_kb"), Drop("embeddings"), DropIndex("ix_chunks_tenant_kb"),
       DropIndex("ix_chunks_doc_index"), Drop("document_chunks"),
       DropIndex("ix_docs_tenant_status"), Drop("documents"), DropIndex("ix_kb_tenant_name"),
       Drop("knowledge_bases") >>

phase2_ai_orchestrator_up ==
    << Faulty(Create("workflows", {})), Index("ix_workflows_tenant_status", "workflows"),
       Create("workflow_versions", {Cascade("workflows")}), Faulty(Create("workflow_executions", {})),
       Index("ix_executions_tenant_status", "workflow_executions"),
       Index("ix_executions_workflow", "workflow_executions"),
       Faulty(Create("workflow_step_logs", {Cascade("workflow_executions")})),
       Index("ix_step_logs_execution", "workflow_step_logs"), Faulty(Create("workflow_approvals", {})),
       Index("ix_approvals_execution", "workflow_approvals") >>

phase2_ai_orchestrator_down ==
    << DropIndex("ix_approvals_execution"), Drop("workflow_approvals"),
       DropIndex("ix_step_logs_execution"), Drop("workflow_step_logs"),
       DropIndex("ix_executions_workflow"), DropIndex("ix_executions_tenant_status"),
       Drop("workflow_executions"), Drop("workflow_versions"),
       DropIndex("ix_workflows_tenant_status"), Drop("workflows") >>

phase2_ai_model_gateway_up ==
    << Create("model_providers", {}), Create("model_configs", {NoAction("model_providers")}),
       Create("tenant_quotas", {}), Faulty(Create("ai_usage_logs", {})),
       Index("ix_usage_tenant_created", "ai_usage_logs"),
       Index("ix_usage_trace", "ai_usage_logs"), Index("ix_usage_model", "ai_usage_logs"),
       Faulty(Create("ai_audit_logs", {})), Index("ix_audit_tenant_action", "ai_audit_logs"),
       Index("ix_audit_trace", "ai_audit_logs") >>

phase2_ai_model_gateway_down ==
    << DropIndex("ix_audit_trace"), DropIndex("ix_audit_tenant_action"), Drop("ai_audit_logs"),
       DropIndex("ix_usage_model"), DropIndex("ix_usage_trace"),
       DropIndex("ix_usage_tenant_created"), Drop("ai_usage_logs"), Drop("tenant_quotas"),
       Drop("model_configs"), Drop("model_providers") >>

\* agent_memories has no column embedding_vector, and the one of embeddings is
\* an array, which the index's operator class does not take.
phase2_ai_indexes_up ==
    << Extension("vector"),
       Faulty(Index("ix_agent_memories_embedding_cosine", "agent_memories")),
       Index("ix_doc_chunks_content_gin", "document_chunks"),
       Faulty(Index("ix_embeddings_vector_cosine", "embeddings")),
       Index("ix_usage_date_range", "ai_usage_logs"),
       Index("ix_audit_date_range", "ai_audit_logs"),
       Index("ix_wf_exec_active", "workflow_executions") >>

phase2_ai_indexes_down ==
    << DropIndex("ix_wf_exec_active"), DropIndex("ix_audit_date_range"),
       DropIndex("ix_usage_date_range"), DropIndex("ix_embeddings_vector_cosine"),
       DropIndex("ix_doc_chunks_content_gin"), DropIndex("ix_agent_memories_embedding_cosine") >>

Scripts ==
    << <<phase1_identity_core_up, phase1_identity_core_down>>,
       <<phase1_fix_property_boolean_up, phase1_fix_property_boolean_down>>,
       <<phase2_soft_delete_up, phase2_soft_delete_down>>,
       <<phase5_data_acquisition_up, phase5_data_acquisition_down>>,
       <<phase6_telemetry_up, phase6_telemetry_down>>,
       <<phase9_twin_persistence_up, phase9_twin_persistence_down>>,
       <<phase10_twin_graph_up, phase10_twin_graph_down>>,
       <<phase11_template_foundation_up, phase11_template_foundation_down>>,
       <<phase12_semantic_meta_model_up, phase12_semantic_meta_model_down>>,
       <<phase12_1_deployment_meta_up, phase12_1_deployment_meta_down>>,
       <<phase13_provisioning_up, phase13_provisioning_down>>,
       <<phase14_twin_activation_up, phase14_twin_activation_down>>,
       <<phase16_telemetry_pipeline_up, phase16_telemetry_pipeline_down>>,
       <<phase2_ai_agent_runtime_up, phase2_ai_agent_runtime_down>>,
       <<phase2_ai_rag_up, phase2_ai_rag_down>>,
       <<phase2_ai_orchestrator_up, phase2_ai_orchestrator_down>>,
       <<phase2_ai_model_gateway_up, phase2_ai_model_gateway_down>>,
       <<phase2_ai_indexes_up, phase2_ai_indexes_down>> >>

Newest == Len(Scripts)

Script(r, direction) == IF direction = "up" THEN Scripts[r][1] ELSE Scripts[r][2]

-----------------------------------------------------------------------------
(* The tables the SQLAlchemy models map, with the references they declare. *)

Model(t, refs) == [table |-> t, refs |-> refs, soft |-> FALSE]
SoftModel(t, refs) == [table |-> t, refs |-> refs, soft |-> TRUE]

Models_identity ==
    { SoftModel("tenants", {}), SoftModel("users", {NoAction("tenants")}),
      SoftModel("roles", {NoAction("tenants")}) }

Models_permission ==
    { SoftModel("permissions", {}), Model("user_roles", {Cascade("users"), Cascade("roles")}),
      Model("role_permissions", {Cascade("roles"), Cascade("permissions")}) }

Models_entity ==
    { SoftModel("entities", {NoAction("tenants")}), SoftModel("assets", {Cascade("entities")}) }

Models_property ==
    { SoftModel("property_definitions", {NoAction("tenants")}),
      Model("property_values", {Cascade("entities"), Cascade("property_definitions")}),
      SoftModel("relationships", {NoAction("tenants"), Cascade("entities")}) }

Models_source ==
    { SoftModel("data_sources", {NoAction("tenants")}),
      SoftModel("connections", {NoAction("tenants"), Cascade("data_sources")}),
      SoftModel("devices", {NoAction("tenants"), SetNull("data_sources"), SetNull("connections")}) }

Models_point ==
    { SoftModel("data_points", {NoAction("tenants"), Cascade("devices")}),
      SoftModel("device_entity_bindings", {NoAction("tenants"), Cascade("devices"), Cascade("entities")}) }

Models_telemetry ==
    { Model("telemetry_points", {NoAction("tenants"), Cascade("devices"), Cascade("data_points")}) }

Models_twinDefinition ==
    { SoftModel("twin_definitions", {NoAction("tenants")}) }

Models_twinEntity ==
    { SoftModel("twin_entities", {NoAction("tenants"), NoAction("twin_definitions")}) }

Models_twinBinding ==
    { Model("twin_bindings", {NoAction("tenants"), Cascade("devices"), Cascade("twin_entities")}) }

Models_twinGraph ==
    { SoftModel("twin_relationships", {NoAction("tenants"), Cascade("twin_entities")}) }

Models_template ==
    { SoftModel("twin_templates", {NoAction("tenants")}),
      SoftModel("template_properties", {Cascade("twin_templates")}),
      SoftModel("template_relationships", {Cascade("twin_templates")}) }

Models_ontology ==
    { SoftModel("ontology_concepts", {NoAction("tenants"), SetNull("ontology_concepts")}),
      SoftModel("entity_type_definitions", {NoAction("tenants"), Restricted("ontology_concepts")}) }

Models_capability ==
    { SoftModel("capability_definitions", {NoAction("tenants")}),
      SoftModel("semantic_properties", {Cascade("capability_definitions")}),
      Model("capability_property_bindings", {Cascade("capability_definitions"), Cascade("semantic_properties")}),
      SoftModel("template_capability_bindings", {Cascade("twin_templates"), Cascade("capability_definitions")}) }

Models_deployment ==
    { SoftModel("deployment_profiles", {NoAction("tenants"), Restricted("twin_templates")}),
      SoftModel("deployment_instances", {NoAction("tenants"), Cascade("deployment_profiles")}) }

Models_node ==
    { SoftModel("deployment_nodes", {NoAction("tenants"), Cascade("deployment_instances"), SetNull("entity_type_definitions")}),
      SoftModel("deployment_node_capabilities", {NoAction("tenants"), Cascade("deployment_nodes"), Cascade("capability_definitions")}) }

Models_plan ==
    { SoftModel("provisioning_plans", {NoAction("tenants"), Cascade("deployment_instances")}),
      SoftModel("provisioning_items", {NoAction("tenants"), Cascade("provisioning_plans"), SetNull("twin_templates"), SetNull("entity_type_definitions"), SetNull("twin_entities")}) }

Models_execution ==
    { SoftModel("provisioning_executions", {NoAction("tenants"), Cascade("provisioning_plans")}) }

Models_activation ==
    { SoftModel("twin_activation_logs", {NoAction("tenants"), Cascade("twin_entities"), SetNull("twin_bindings")}),
      SoftModel("twin_commands", {NoAction("tenants"), Cascade("twin_bindings"), Cascade("devices")}) }

Models_audit ==
    { Model("ai_usage_logs", {}), Model("ai_audit_logs", {}) }

Models ==
    UNION { Models_identity, Models_permission, Models_entity, Models_property, Models_source,
            Models_point, Models_telemetry, Models_twinDefinition, Models_twinEntity,
            Models_twinBinding, Models_twinGraph, Models_template, Models_ontology,
            Models_capability, Models_deployment, Models_node, Models_plan, Models_execution,
            Models_activation, Models_audit }

\* The models the gateway imports; the audit models have a base of their own.
GatewayModels == Models \ Models_audit

-----------------------------------------------------------------------------
(* What PostgreSQL does with an operation.                                 *)

EmptySchema ==
    [tables |-> {}, keys |-> {}, indexes |-> {}, columns |-> {}, textual |-> {}]

\* The operation is performed: it is not faulty, names are new or known, a
\* referenced table and a named column exist, a dropped table is referenced by
\* no other, and a column of text is not made Boolean (there is no USING).
Accepts(s, o) ==
    /\ "faulty" \notin DOMAIN o
    /\ CASE o.op = "create_table" -> /\ o.table \notin s.tables
                                     /\ \A r \in o.refs : r[1] \in s.tables \cup {o.table}
         [] o.op = "drop_table" -> /\ o.table \in s.tables
                                   /\ \A k \in s.keys : k[2] = o.table => k[1] = o.table
         [] o.op = "create_index" -> /\ o.table \in s.tables
                                     /\ \A i \in s.indexes : i[1] # o.index
         [] o.op = "drop_index" -> \E i \in s.indexes : i[1] = o.index
         [] o.op = "add_column" -> o.table \in s.tables /\ <<o.table, o.column>> \notin s.columns
         [] o.op = "drop_column" -> <<o.table, o.column>> \in s.columns
         [] o.op = "alter_column" -> /\ o.table \in s.tables
                                     /\ o.type = "Boolean" => <<o.table, o.column>> \notin s.textual
         [] o.op = "insert" -> o.table \in s.tables /\ o.columns \subseteq s.columns
         [] o.op = "create_extension" -> TRUE

\* The schema after the operation. Dropping a table drops its keys, indexes
\* and columns; rows and extensions are not part of a schema here.
Apply(s, o) ==
    CASE o.op = "create_table" ->
            [s EXCEPT !.tables = @ \cup {o.table},
                      !.keys = @ \cup {<<o.table, r[1], r[2]>> : r \in o.refs},
                      !.columns = @ \cup o.columns]
      [] o.op = "drop_table" ->
            [s EXCEPT !.tables = @ \ {o.table},
                      !.keys = {k \in @ : k[1] # o.table},
                      !.indexes = {i \in @ : i[2] # o.table},
                      !.columns = {c \in @ : c[1] # o.table},
                      !.textual = {c \in @ : c[1] # o.table}]
      [] o.op = "create_index" -> [s EXCEPT !.indexes = @ \cup {<<o.index, o.table>>}]
      [] o.op = "drop_index" -> [s EXCEPT !.indexes = {i \in @ : i[1] # o.index}]
      [] o.op = "add_column" -> [s EXCEPT !.columns = @ \cup {<<o.table, o.column>>}]
      [] o.op = "drop_column" -> [s EXCEPT !.columns = @ \ {<<o.table, o.column>>}]
      [] o.op = "alter_column" ->
            [s EXCEPT !.textual = IF o.type = "Boolean" THEN @ \ {<<o.table, o.column>>}
                                                        ELSE @ \cup {<<o.table, o.column>>}]
      [] o.op \in {"insert", "create_extension"} -> s

-----------------------------------------------------------------------------
(* The migration command: alembic upgrade or downgrade to a target.        *)

NoRun == [direction |-> "none"]

MigrationInit ==
    /\ version = 0
    /\ schema = EmptySchema
    /\ run = NoRun

\* run_migrations_online: connect and begin the transaction. at is the
\* revision the transaction has reached, done the operations of the script in
\* progress that were executed. The target may be the revision the database is
\* at: the command then runs no script.
Begin(target) ==
    /\ run = NoRun
    /\ run' = [direction |-> IF target >= version THEN "up" ELSE "down",
               at |-> version, target |-> target, done |-> 0, work |-> schema]
    /\ UNCHANGED <<version, schema>>

\* The revision whose script the command is executing.
Current == IF run.direction = "up" THEN run.at + 1 ELSE run.at

\* The operation the script in progress performs next.
NextOp == Script(Current, run.direction)[run.done + 1]

\* One op.* call of the script. After the last one alembic records the
\* revision reached, in the same transaction.
Execute ==
    /\ run # NoRun
    /\ run.at # run.target
    /\ Accepts(run.work, NextOp)
    /\ LET last == run.done + 1 = Len(Script(Current, run.direction))
       IN run' = [run EXCEPT !.work = Apply(@, NextOp),
                             !.done = IF last THEN 0 ELSE @ + 1,
                             !.at = IF ~last THEN @ ELSE
                                    IF run.direction = "up" THEN @ + 1 ELSE @ - 1]
    /\ UNCHANGED <<version, schema>>

\* Leaving context.begin_transaction() normally.
Commit ==
    /\ run # NoRun
    /\ run.at = run.target
    /\ version' = run.at
    /\ schema' = run.work
    /\ run' = NoRun


\* An operation raises, or the process dies: the transaction is rolled back.
RollBack ==
    /\ run # NoRun
    /\ run' = NoRun
    /\ UNCHANGED <<version, schema>>

\* create_all: the missing tables of the models, in an order in which every
\* table follows the ones it references. Their indexes are left out.
CreateAll(s) ==
    LET missing == {m \in GatewayModels : m.table \notin s.tables}
    IN [s EXCEPT !.tables = @ \cup {m.table : m \in missing},
                 !.keys = @ \cup UNION {{<<m.table, r[1], r[2]>> : r \in m.refs} : m \in missing},
                 !.columns = @ \cup {<<m.table, "deleted_at">> : m \in {x \in missing : x.soft}}]

\* The gateway starts: init_db in one transaction. A command that has executed
\* an operation holds the name of a table both create, so init_db waits for
\* its end; one that has not sees the tables init_db committed.
InitDb ==
    /\ run # NoRun => run.work = schema
    /\ schema' = CreateAll(schema)
    /\ run' = IF run = NoRun THEN NoRun ELSE [run EXCEPT !.work = schema']
    /\ UNCHANGED version

MigrationNext ==
    (\E target \in 0..Newest : Begin(target)) \/ Execute \/ Commit \/ RollBack \/ InitDb

-----------------------------------------------------------------------------
(* Properties.                                                             *)

\* The schemas the upgrades would build one after the other, base first, were
\* every operation performed.
Schemas ==
    FoldLeft(LAMBDA built, script : Append(built, FoldLeft(Apply, Last(built), script[1])),
             <<EmptySchema>>, Scripts)

MigrationTypeOK ==
    /\ version \in 0..Newest
    /\ \/ run = NoRun
       \/ /\ run.direction \in {"up", "down"}
          /\ {run.at, run.target} \subseteq 0..Newest
          /\ run.done \in Nat

\* No command moves the database, and no operation of one stays behind: what
\* is committed is an empty schema or the one the gateway created, never a
\* half-built one.
NothingHalfBuilt ==
    /\ version = 0
    /\ schema \in {EmptySchema, CreateAll(EmptySchema)}

\* On an empty database the first script is performed up to its last
\* operation, the seed of the permissions, which is refused. On a database
\* the gateway has started on the first operation is refused already.
RefusedAtTheSeed ==
    run # NoRun /\ run.at # run.target =>
        (Accepts(run.work, NextOp) <=> schema = EmptySchema /\ NextOp.op # "insert")

\* Apart from the seed and the faulty operations the scripts fit each other: a
\* table is created after every table it references and dropped before it,
\* whatever revision made them, and a downgrade undoes its upgrade (but for
\* the text columns the second one leaves, which its upgrade then refuses).
ScriptsFit ==
    \A r \in 1..Newest :
        LET before == Schemas[r]
            up == Script(r, "up")
            after == Schemas[r + 1]
            down == Script(r, "down")
        IN /\ \A n \in DOMAIN up :
                 \/ Accepts(FoldLeft(Apply, before, SubSeq(up, 1, n - 1)), up[n])
                 \/ "faulty" \in DOMAIN up[n]
                 \/ up[n].op = "insert"
           /\ \A n \in DOMAIN down : Accepts(FoldLeft(Apply, after, SubSeq(down, 1, n - 1)), down[n])
           /\ [FoldLeft(Apply, after, down) EXCEPT !.textual = {}] = before

\* The scripts and the SQLAlchemy models name the same tables, and each foreign
\* key a model declares points where the scripts' does. Columns are not
\* compared: the scripts give assets, property_definitions and relationships a
\* column metadata, and the models map extra_data.
ScriptsNameTheModels ==
    LET head == Schemas[Newest + 1]
    IN \A m \in Models :
           /\ m.table \in head.tables
           /\ {r[1] : r \in m.refs} = {k[2] : k \in {x \in head.keys : x[1] = m.table}}
=============================================================================
