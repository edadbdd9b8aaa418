-------------------------- MODULE MCAgentServices --------------------------
(***************************************************************************)
(* The services an agent works with, checked side by side: approvals, the  *)
(* workflow trigger, the asset, ontology, telemetry and custom tools and   *)
(* the document chunker.  They share no state, so a behaviour is one of a  *)
(* single service, chosen at the start, and the reachable states are the   *)
(* sum of theirs, not the product.                                         *)
(***************************************************************************)
EXTENDS ApprovalService, WorkflowTrigger, QueryTools, ToolLoader, DocumentChunker

CONSTANTS Asset1, Asset2

VARIABLE service_under_check

vars == <<approvalVars, triggerVars, assetVars, ontologyVars, loaderVars, chunkVars,
          queryVars, service_under_check>>

Services == {"approval", "trigger", "assets", "ontology", "loader", "chunker", "queries"}

\* Hierarchies of two assets with up to three children, cycles, self-references
\* and repeated children included.
MCHierarchies ==
    [{Asset1, Asset2} ->
        {<<>>, <<Asset1>>, <<Asset2>>, <<Asset1, Asset2>>, <<Asset1, Asset2, Asset1>>}]

Init ==
    /\ service_under_check \in Services
    /\ ApprovalInit /\ TriggerInit /\ OntologyInit /\ LoaderInit
    /\ visited = {} /\ lookup = [l \in Lookups |-> IdleLookup]
    /\ IF service_under_check = "assets" THEN children \in Hierarchies
       ELSE children = [a \in Assets |-> <<>>]
    /\ ChunkInit
    /\ service_under_check # "chunker" =>
          text = <<"x">> /\ units = <<>> /\ strategy = "token" /\ overlap = 0
    /\ QueryInit
    /\ service_under_check # "queries" => matching = 0 /\ tells_total

Running(s, others) == service_under_check = s /\ UNCHANGED <<service_under_check, others>>

Approval == Running("approval", <<triggerVars, assetVars, ontologyVars, loaderVars,
                                  chunkVars, queryVars>>)
TriggerTool == Running("trigger", <<approvalVars, assetVars, ontologyVars, loaderVars,
                                    chunkVars, queryVars>>)
AssetTool == Running("assets", <<approvalVars, triggerVars, ontologyVars, loaderVars,
                                 chunkVars, queryVars>>)
OntologyTool == Running("ontology", <<approvalVars, triggerVars, assetVars, loaderVars,
                                      chunkVars, queryVars>>)
Loader == Running("loader", <<approvalVars, triggerVars, assetVars, ontologyVars,
                              chunkVars, queryVars>>)
Chunker == Running("chunker", <<approvalVars, triggerVars, assetVars, ontologyVars, loaderVars,
                              queryVars>>)
Queries == Running("queries", <<approvalVars, triggerVars, assetVars, ontologyVars, loaderVars,
                                chunkVars>>)

Next ==
    \/ Approval /\ ApprovalNext
    \/ TriggerTool /\ TriggerNext
    \/ AssetTool /\ AssetNext
    \/ OntologyTool /\ OntologyNext
    \/ Loader /\ LoaderNext
    \/ Chunker /\ ChunkNext
    \/ Queries /\ QueryNext

\* asyncio keeps stepping a coroutine that was started, and a loop that never awaits keeps running.
Fairness ==
    /\ \A r \in Requests : WF_vars(Approval /\ NotifyStep(r))
    /\ \A c \in Calls : WF_vars(TriggerTool /\ CallStep(c))
    /\ \A l \in Lookups : WF_vars(AssetTool /\ LookupStep(l))
    /\ WF_vars(Chunker /\ CutByToken)

Spec == Init /\ [][Next]_vars /\ Fairness

-----------------------------------------------------------------------------
\* The trail of every approval request names one outcome, a timeout only of a
\* request that was late, and the truth about its announcements, whatever
\* decisions, expiry checks and webhook retries come in between.
ApprovalsAreAccountable ==
    /\ ApprovalTypeOK
    /\ TrailNamesOneOutcome /\ TimeoutIsLate /\ TrailTellsNotification

\* What a tool tells its agent is so: of workflows it triggered through lost
\* replies, conflicts and cancellations, of assets walked by overlapping
\* lookups, of ontology sections of which some failed, of telemetry pages, and
\* of tools whose files changed between scans.
ToolsAnswerTruly ==
    /\ TriggerTypeOK /\ AnswerAgreesWithService /\ RefusalStartedNothing /\ ConflictNamesAnother
    /\ AssetTypeOK /\ ExpandedOnce /\ AnswerKeepsChildren
    /\ OntologyTypeOK /\ FoundIsReported /\ EmptyIsNoFailure
    /\ QueryTypeOK /\ PagesCoverAll /\ RaisesOnlyForMixedZones
    /\ LoaderTypeOK /\ CachesAgree /\ InstancesServeLoadedTools

\* Chunks lose nothing of a document that is not a scrap, and are as large as
\* the configuration lets them be.
ChunksCoverText == ChunkTypeOK /\ NothingSkipped /\ GroupsAreGreedy

\* What was started ends: announcements of a request through their retries,
\* triggers through their polling, walks over cyclic hierarchies, and cutting
\* a text without overlap.
StartedWorkEnds == NotificationSettles /\ CallReturns /\ LookupReturns /\ EndsWithoutOverlap
=============================================================================
