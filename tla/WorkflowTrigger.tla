-------------------------- MODULE WorkflowTrigger --------------------------
(***************************************************************************)
(* WorkflowTriggerTool (services/ai/agent/tools/workflow_trigger.py): an   *)
(* agent starts a workflow through the gateway and, in synchronous mode,   *)
(* polls its execution until a final status or the deadline.  Calls of     *)
(* several agents interleave at every HTTP request.  The workflow service  *)
(* behind the gateway is external: it runs one execution of the workflow   *)
(* at a time and may lose a reply after it has acted on the request.       *)
(***************************************************************************)
EXTENDS Naturals, FiniteSets

CONSTANTS
    Calls,                  \* calls of execute
    Executions,             \* execution ids the service hands out
    Timeouts,               \* timeout_seconds asked for
    MAX_TIMEOUT,            \* 300 seconds in the code
    PollIntervals           \* poll_interval_seconds, at least one second

ASSUME TriggerConstants ==
    /\ Timeouts \subseteq Nat /\ MAX_TIMEOUT \in Nat \ {0} /\ PollIntervals \subseteq Nat \ {0}
    /\ "nobody" \notin Calls

VARIABLES
    call,           \* per call: where it is, what it asked for, what it holds
    service,        \* external: status of every execution
    owner           \* external: the call whose POST created the execution

triggerVars == <<call, service, owner>>

Nobody == "nobody"
Final == {"success", "failed", "cancelled"}
NoExecution == [id |-> "none", status |-> "none"]
NoAnswer == [success |-> FALSE, code |-> "none", execution |-> NoExecution]
IdleCall == [pc |-> "idle", sync |-> FALSE, left |-> 0, every |-> 0,
             execution |-> NoExecution, answer |-> NoAnswer]

TriggerInit ==
    /\ call = [c \in Calls |-> IdleCall]
    /\ service = [e \in Executions |-> "none"]
    /\ owner = [e \in Executions |-> Nobody]

Succeed(c, execution) ==
    call' = [call EXCEPT ![c].pc = "done",
             ![c].answer = [success |-> TRUE, code |-> "none", execution |-> execution]]

\* The ladder of except clauses: one error_code per HTTP status or failure.
Fail(c, code) ==
    call' = [call EXCEPT ![c].pc = "done",
             ![c].answer = [success |-> FALSE, code |-> code, execution |-> NoExecution]]

\* execute: the checks made before the first request.
Execute(c, sameTenant, by, sync, timeout, every) ==
    /\ call[c].pc = "idle"
    /\ IF ~sameTenant THEN Fail(c, "ACCESS_DENIED")
       ELSE IF by = "nothing" THEN Fail(c, "MISSING_PARAMS")
       ELSE IF timeout < 1 \/ timeout > MAX_TIMEOUT THEN Fail(c, "INVALID_PARAMS")
       ELSE call' = [call EXCEPT ![c] = [IdleCall EXCEPT !.sync = sync, !.left = timeout,
                        !.every = every, !.pc = IF by = "id" THEN "post" ELSE "info"]]
    /\ UNCHANGED <<service, owner>>

\* _get_workflow_info, asked a second time through _find_workflow_by_code; every
\* failure of the request counts as not found.
LookUp(c) ==
    /\ call[c].pc \in {"info", "find"}
    /\ \/ call' = [call EXCEPT ![c].pc = "post"]
       \/ call[c].pc = "info" /\ call' = [call EXCEPT ![c].pc = "find"]
       \/ call[c].pc = "find" /\ Fail(c, "NOT_FOUND")
    /\ UNCHANGED <<service, owner>>

HttpErrors == {"NOT_FOUND", "BAD_REQUEST", "VALIDATION_ERROR", "INTERNAL_ERROR", "HTTP_OTHER"}

RunningNow == {e \in Executions : service[e] = "running"}

\* The service accepts the POST of call c with execution e.
Accept(c, e) ==
    /\ RunningNow = {} /\ service[e] = "none"
    /\ service' = [service EXCEPT ![e] = "running"]
    /\ owner' = [owner EXCEPT ![e] = c]

\* The POST is refused: 409 becomes an answer without an execution, any other
\* status or a failed connection an error.
Refused(c) ==
    \/ RunningNow # {} /\ Succeed(c, NoExecution)
    \/ \E code \in HttpErrors \cup {"CONNECTION_ERROR", "TIMEOUT"} : Fail(c, code)

\* _trigger_async, and _trigger_sync up to its loop.
Trigger(c) ==
    /\ call[c].pc = "post"
    /\ \/ \E e \in Executions :
             /\ Accept(c, e)
             /\ LET execution == [id |-> e, status |-> "running"]
                IN  \/ IF call[c].sync
                       THEN call' = [call EXCEPT ![c].pc = "poll", ![c].execution = execution]
                       ELSE Succeed(c, execution)
                    \/ Succeed(c, [execution EXCEPT !.id = "none"])                    \* a reply without an id
                    \/ \E code \in {"TIMEOUT", "UNEXPECTED_ERROR"} : Fail(c, code)    \* reply lost, or not parsed
       \/ Refused(c) /\ UNCHANGED <<service, owner>>

\* Mutant: a poll answered 404 goes up to the ladder of execute.
RaiseNotFound(c) == Fail(c, "NOT_FOUND")

\* A poll answered 404 ends the wait with a failed execution.
PollNotFound(c) == Succeed(c, [call[c].execution EXCEPT !.status = "failed"])

\* One round of the loop: the request (which may itself take a second), then the sleep.
Poll(c, seconds) ==
    /\ call[c].pc = "poll" /\ call[c].left > 0
    /\ \/ LET seen == [call[c].execution EXCEPT !.status = service[call[c].execution.id]]
              spent == IF seconds > call[c].left THEN call[c].left ELSE seconds
          IN  IF seen.status \in Final
              THEN Succeed(c, seen)
              ELSE call' = [call EXCEPT ![c].pc = "sleep", ![c].execution = seen, ![c].left = @ - spent]
       \/ PollNotFound(c)
       \/ \E code \in (HttpErrors \ {"NOT_FOUND"}) \cup {"TIMEOUT", "CONNECTION_ERROR", "UNEXPECTED_ERROR"} :
             Fail(c, code)
    /\ UNCHANGED <<service, owner>>

\* Mutant: the deadline is taken anew in every round.
SleepMovesDeadline(c) ==
    /\ call[c].pc = "sleep"
    /\ call' = [call EXCEPT ![c].pc = "poll"]
    /\ UNCHANGED <<service, owner>>

Sleep(c) ==
    /\ call[c].pc = "sleep"
    /\ call' = [call EXCEPT ![c].pc = "poll",
                ![c].left = IF @ > call[c].every THEN @ - call[c].every ELSE 0]
    /\ UNCHANGED <<service, owner>>

Deadline(c) ==
    /\ call[c].pc = "poll" /\ call[c].left = 0
    /\ Succeed(c, [call[c].execution EXCEPT !.status = "timeout"])
    /\ UNCHANGED <<service, owner>>

\* cancel_execution by any agent that has the id; the service refuses (404, 409)
\* what is not running.
CancelExecution(e) ==
    /\ service[e] = "running"
    /\ service' = [service EXCEPT ![e] = "cancelled"]
    /\ UNCHANGED <<call, owner>>

ServiceFinishes(e) ==
    /\ service[e] = "running"
    /\ \E s \in {"success", "failed"} : service' = [service EXCEPT ![e] = s]
    /\ UNCHANGED <<call, owner>>

CallStep(c) == LookUp(c) \/ Trigger(c) \/ (\E s \in {0, 1} : Poll(c, s)) \/ Sleep(c) \/ Deadline(c)

TriggerNext ==
    \/ \E c \in Calls, sameTenant \in BOOLEAN, by \in {"nothing", "code", "id"}, sync \in BOOLEAN,
          timeout \in Timeouts, every \in PollIntervals : Execute(c, sameTenant, by, sync, timeout, every)
    \/ \E c \in Calls : CallStep(c)
    \/ \E e \in Executions : CancelExecution(e) \/ ServiceFinishes(e)

-----------------------------------------------------------------------------
(* Properties.                                                             *)

TriggerTypeOK ==
    /\ \A c \in Calls :
          /\ call[c].pc \in {"idle", "info", "find", "post", "poll", "sleep", "done"}
          /\ call[c].left \in 0..MAX_TIMEOUT
          /\ call[c].pc \in {"poll", "sleep"} => call[c].sync /\ call[c].execution.id \in Executions
    /\ \A e \in Executions : service[e] \in Final \cup {"none", "running"}

\* An answer that names an execution's outcome agrees with the service, whatever
\* cancels, finishes or overtakes it: success and cancelled are only ever read
\* there, and the execution named was started by this very call.
AnswerAgreesWithService ==
    \A c \in Calls :
       LET execution == call[c].answer.execution
       IN  execution.id # "none" =>
              /\ owner[execution.id] = c
              /\ execution.status \in {"success", "cancelled"} => service[execution.id] = execution.status

\* An agent told "denied", "invalid" or "not found" may correct the request and
\* call again: such an answer started no execution.
RefusalStartedNothing ==
    \A c \in Calls, e \in Executions :
       owner[e] = c => call[c].answer.code \notin {"ACCESS_DENIED", "MISSING_PARAMS", "INVALID_PARAMS", "NOT_FOUND"}

\* A success without an execution means the workflow ran for another call: the
\* service answered 409, so somebody else's execution exists.
ConflictNamesAnother ==
    \A c \in Calls :
       call[c].answer.success /\ call[c].answer.execution = NoExecution
          => \E e \in Executions : owner[e] \notin {c, Nobody}

\* Every call returns: a lookup is asked at most twice and the poll loop ends at
\* its deadline even if the execution never does.
CallReturns == \A c \in Calls : call[c].pc # "idle" ~> call[c].pc = "done"
=============================================================================
