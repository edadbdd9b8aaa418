------------------------- MODULE MCPlantOperations -------------------------
(***************************************************************************)
(* What runs a plant, checked side by side: alarms, BPMN-lite workflows    *)
(* and work orders (the closure loop), the assembly engine, the safety     *)
(* engine and gate, the audit chain, composite assets, model bindings and  *)
(* permissions; and its field side: the adapter lifecycle, the adapter     *)
(* service with its shared circuit breaker, the protocol adapters, the     *)
(* edge adapters with their offline buffers, the edge node's heartbeat and *)
(* store.  The repository does not wire them together, so a behaviour is   *)
(* one of a single part, chosen at the start, and the reachable states are *)
(* the sum of theirs, not the product.                                     *)
(***************************************************************************)
EXTENDS ClosureLoop, AssemblyEngine, SafetyEngine, CompositeAssets,
        Permissions, AdapterRuntime, ProtocolAdapters, EdgeAdapters, EdgeSite

CONSTANTS s1, s2, s3, x1, x2, x3, k1, k2

VARIABLE part_under_check

plantVars == <<alarmVars, orderVars, bpmnVars, assemblyVars, safetyVars, auditVars,
               compositeVars, bindingVars, permissionVars>>
fieldVars == <<lifecycleVars, serviceVars, adapterVars, edgeVars, nodeVars, storeVars>>
vars == <<plantVars, fieldVars, part_under_check>>

PlantParts == {"alarms", "orders", "bpmn", "plans", "assemblies", "safety", "gate", "audit",
               "composites", "bindings", "permissions"}
FieldParts == {"lifecycle", "service", "protocols", "edge adapters", "edge node", "store"}

\* Every dependency graph over three steps, one step also on an unknown step.
MCRecipes ==
    {r \in [{s1, s2, s3} -> SUBSET {s1, s2, s3, UnknownStep}] : UnknownStep \notin r[s2] \cup r[s3]}

MCApprovers == {<<>>, <<"admin">>, <<"admin", "operator">>, <<"operator", "operator", "admin">>}

Node(child, weight) == [ref |-> child, depth |-> 1, weight |-> weight]

\* Trees of up to three children; a child listed twice, a zero weight, and a
\* depth the engine refuses.
MCTrees ==
    {<<>>, <<Node(x1, 1)>>, <<Node(x1, 0)>>, <<Node(x1, 1), Node(x2, 2)>>, <<Node(x2, 3), Node(x1, 1), Node(x2, 1)>>,
     <<Node(x1, 2), Node(x2, 0), Node(x3, 1)>>, <<[ref |-> x1, depth |-> 9, weight |-> 1]>>}

MCCapabilityLists == {<<>>, <<"p">>, <<"p", "q">>, <<"q", "p">>, <<"p", "p">>}

MCBelow == [{x1, x2, x3} -> SUBSET {x1, x2, x3}]

\* The second row of the second batch has no value.
MCRefusedRows == {<<k2, 2>>}

Init ==
    /\ part_under_check \in PlantParts \cup FieldParts
    /\ AlarmInit /\ OrderInit /\ BpmnInit /\ AssemblyInit /\ SafetyInit /\ AuditInit
    /\ CompositeInit /\ BindingInit /\ PermissionInit
    /\ LifecycleInit /\ ServiceInit /\ ProtocolInit /\ EdgeInit /\ NodeInit /\ StoreInit
    /\ part_under_check # "plans" => recipe = [s \in StepIds |-> {}]
    /\ part_under_check # "protocols" => kind = "modbus"
    /\ part_under_check # "edge adapters" => edge_kind = [a \in EdgeIds |-> "modbus"]

Running(part, others) == part_under_check = part /\ UNCHANGED <<part_under_check, others>>

PlantStep ==
    \/ /\ Running("alarms", <<fieldVars, orderVars, bpmnVars, assemblyVars, safetyVars,
                              auditVars, compositeVars, bindingVars, permissionVars>>)
       /\ AlarmNext
    \/ /\ Running("orders", <<fieldVars, alarmVars, bpmnVars, assemblyVars, safetyVars,
                              auditVars, compositeVars, bindingVars, permissionVars>>)
       /\ OrderNext
    \/ /\ Running("bpmn", <<fieldVars, alarmVars, orderVars, assemblyVars, safetyVars,
                            auditVars, compositeVars, bindingVars, permissionVars>>)
       /\ BpmnNext
    \/ /\ Running("plans", <<fieldVars, alarmVars, orderVars, bpmnVars, safetyVars,
                             auditVars, compositeVars, bindingVars, permissionVars>>)
       /\ PlanNext
    \/ /\ Running("assemblies", <<fieldVars, alarmVars, orderVars, bpmnVars, safetyVars,
                                  auditVars, compositeVars, bindingVars, permissionVars>>)
       /\ AssemblyNext
    \/ /\ Running("safety", <<fieldVars, alarmVars, orderVars, bpmnVars, assemblyVars,
                              auditVars, compositeVars, bindingVars, permissionVars>>)
       /\ EngineNext
    \/ /\ Running("gate", <<fieldVars, alarmVars, orderVars, bpmnVars, assemblyVars,
                            auditVars, compositeVars, bindingVars, permissionVars>>)
       /\ GateNext
    \/ /\ Running("audit", <<fieldVars, alarmVars, orderVars, bpmnVars, assemblyVars,
                             safetyVars, compositeVars, bindingVars, permissionVars>>)
       /\ AuditNext
    \/ /\ Running("composites", <<fieldVars, alarmVars, orderVars, bpmnVars, assemblyVars,
                                  safetyVars, auditVars, bindingVars, permissionVars>>)
       /\ CompositeNext
    \/ /\ Running("bindings", <<fieldVars, alarmVars, orderVars, bpmnVars, assemblyVars,
                                safetyVars, auditVars, compositeVars, permissionVars>>)
       /\ BindingNext
    \/ /\ Running("permissions", <<fieldVars, alarmVars, orderVars, bpmnVars, assemblyVars,
                                   safetyVars, auditVars, compositeVars, bindingVars>>)
       /\ PermissionNext

LifecyclePart == Running("lifecycle", <<plantVars, serviceVars, adapterVars,
                                        edgeVars, nodeVars, storeVars>>)
ServicePart == Running("service", <<plantVars, lifecycleVars, adapterVars,
                                    edgeVars, nodeVars, storeVars>>)
ProtocolPart == Running("protocols", <<plantVars, lifecycleVars, serviceVars,
                                       edgeVars, nodeVars, storeVars>>)
EdgeAdapterPart == Running("edge adapters", <<plantVars, lifecycleVars, serviceVars,
                                              adapterVars, nodeVars, storeVars>>)
NodePart == Running("edge node", <<plantVars, lifecycleVars, serviceVars,
                                   adapterVars, edgeVars, storeVars>>)
StorePart == Running("store", <<plantVars, lifecycleVars, serviceVars,
                                adapterVars, edgeVars, nodeVars>>)

FieldStep ==
    \/ LifecyclePart /\ LifecycleNext
    \/ ServicePart /\ ServiceNext
    \/ ProtocolPart /\ ProtocolNext
    \/ EdgeAdapterPart /\ EdgeNext
    \/ NodePart /\ NodeNext
    \/ StorePart /\ StoreNext

Next == PlantStep \/ FieldStep

\* The event loop resumes every call whose awaited answer, sleep or
\* cancellation has come; the adapters answer or time out.
Fairness ==
    /\ \A c \in ServiceCalls : WF_vars(ServicePart /\ ServiceStep(c))
    /\ \A t \in Beats :
          WF_vars(NodePart /\ (LoopTurn(t) \/ SleepOver(t) \/ CancelTakesEffect(t)))

Spec == Init /\ [][Next]_vars /\ Fairness
-----------------------------------------------------------------------------
\* What the plant keeps on record is what happened: an alarm's history and
\* stamps, a work order's trail, a completed workflow's tasks, the safety
\* engine's approvals and the gate's decisions replay to the state they
\* describe, and the audit chain's verdict tells an altered entry.
RecordsTellWhatHappened ==
    /\ AlarmTypeOK /\ HistoryReplaysState /\ StampsFollowLifecycle
    /\ OrderTypeOK /\ OrderTrailReplays
    /\ BpmnTypeOK /\ CompletedMeansAllTasks
    /\ SafetyTypeOK /\ ApprovalsAccountForEvaluations /\ GateFindsDecision
    /\ AuditTypeOK /\ ChainVerdictExact

\* Structures are what their checks say: assembly plans are acyclic and group
\* steps after their dependencies, which run once; composite assets aggregate,
\* inherit and are checked for cycles as defined; the two dictionaries of the
\* model bindings agree.
StructuresAreSound ==
    /\ AssemblyTypeOK /\ CycleCheckExact /\ GroupsRespectDependencies
    /\ StepsRunOnce /\ ExecutionIsPlanned
    /\ CompositeTypeOK /\ AveragesLieBetween /\ LastChildWins /\ AcyclicCheckExact
    /\ BindingTypeOK /\ BindingsAreListedOnce
    /\ PermissionTypeOK

\* What a step may not do: clear the SLA breach of an open order, bring an
\* ended workflow back to running, or widen a permission by a constraint.
NothingIsUndone == BreachStandsUntilClosed /\ EndedStaysEnded /\ ConstraintsOnlyNarrow

\* Under overlapping calls the platform's picture of its devices is true: the
\* lifecycle state of the connection, the breaker of the outcomes, the registry
\* of the connections held, the adapters of their subscriptions.
ConnectionsAreTracked ==
    /\ LifecycleTypeOK /\ StateTellsConnection
    /\ ServiceTypeOK /\ BreakerFollowsOutcomes /\ NoOrphanConnections
    /\ ProtocolTypeOK /\ SubscriptionsAreHeld

\* Readings taken at the edge are kept as promised: the newest ones in a full
\* offline buffer, every row of an accepted batch in the store's file, and no
\* row of a batch without those before it.
ReadingsAreKept ==
    /\ EdgeTypeOK /\ BufferKeepsNewest
    /\ NodeTypeOK
    /\ StoreTypeOK /\ StoredIsPrefix /\ AcceptedIsCommitted

\* Calls of the adapter service return through retries and pauses, and a node
\* that stays stopped falls silent, forgotten heartbeat tasks included.
FieldWorkEnds == CallsReturn /\ StoppedFallsSilent
=============================================================================
