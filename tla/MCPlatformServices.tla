------------------------- MODULE MCPlatformServices -------------------------
(***************************************************************************)
(* The services over twins, telemetry, documents and workflows, checked    *)
(* side by side: the twin graph, the telemetry history, hybrid retrieval,  *)
(* the cost ledger and the workflow catalogue.  They share no state a      *)
(* property here speaks of, so a behaviour is one of a single part, chosen *)
(* at the start.                                                           *)
(***************************************************************************)
EXTENDS TwinGraph, TelemetryHistory, HybridRetrieval, CostLedger, WorkflowCatalogue

CONSTANTS k1, k2, k3, k4

VARIABLE service_under_check

vars == <<graphVars, historyVars, retrievalVars, ledgerVars, workflowVars, service_under_check>>

Services == {"graph", "history", "retrieval", "ledger", "workflows"}

MCOwner == [i \in {"d1", "d2", "p1"} |-> IF i = "d2" THEN k2 ELSE k1]
MCSamples ==
    [device : {"d1"}, datapoint : {"p1"}, time : {1, 3}, valid : {TRUE}]
    \cup {[device |-> "d2", datapoint |-> "p1", time |-> 1, valid |-> TRUE],
          [device |-> "d1", datapoint |-> "p1", time |-> 1, valid |-> FALSE]}
MCTokens == [d \in {k1, k2, k3} |-> CASE d = k1 -> 1 [] d = k2 -> 2 [] d = k3 -> 4]

Init ==
    /\ service_under_check \in Services
    /\ GraphInit /\ HistoryInit /\ RetrievalInit /\ LedgerInit /\ WorkflowInit
    /\ service_under_check # "graph" => links = {}
    /\ service_under_check # "workflows" => workflow = template_device_inspection

Serving(s, others) == service_under_check = s /\ UNCHANGED <<service_under_check, others>>

Next ==
    \/ /\ Serving("graph", <<historyVars, retrievalVars, ledgerVars, workflowVars>>)
       /\ GraphNext
    \/ /\ Serving("history", <<graphVars, retrievalVars, ledgerVars, workflowVars>>)
       /\ HistoryNext
    \/ /\ Serving("retrieval", <<graphVars, historyVars, ledgerVars, workflowVars>>)
       /\ RetrievalNext
    \/ /\ Serving("ledger", <<graphVars, historyVars, retrievalVars, workflowVars>>)
       /\ LedgerNext
    \/ /\ Serving("workflows", <<graphVars, historyVars, retrievalVars, ledgerVars>>)
       /\ WorkflowNext

Spec == Init /\ [][Next]_vars

-----------------------------------------------------------------------------
\* A path between twins is one that existed, and a shortest one if nothing
\* changed, whatever callers of the twin graph commit or leave to roll back
\* while it is searched.
PathsFollowLinks == GraphTypeOK /\ PathWasReal /\ PathIsShortest

\* What was recorded is what is read: telemetry of its owner, in whole batches
\* that a caller committed and none that a route answered, without gaps between
\* pages, costs but for the oldest trimmed ones, one alert a period.
RecordsAreComplete ==
    /\ HistoryTypeOK /\ StoredPointsAreOwned /\ BatchIsAtomic /\ PagesMissNothing
    /\ LedgerTypeOK /\ TotalsMissOnlyTheOldest /\ OneAlertPerPeriod

\* Fused rankings respect what the signals agree on, and the context takes
\* every document that still fits.
DocumentsAreServed == RetrievalTypeOK /\ FusionRespectsAgreement /\ ContextIsGreedy

\* A preset that can be built runs in orders in which every variable is
\* written before it is read and no node is left over; snapshots, their flags
\* and the current version of a workflow agree.
WorkflowsAreSound ==
    /\ WorkflowTypeOK
    /\ ReadsAreWritten /\ NothingLeftOver /\ CurrentIsConsistent
=============================================================================
