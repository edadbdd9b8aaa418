--------------------------- MODULE AdapterRuntime ---------------------------
(***************************************************************************)
(* What drives a protocol adapter: the lifecycle state machine, and the    *)
(* registry and runtime with retries and one circuit breaker.              *)
(***************************************************************************)
EXTENDS Naturals, Sequences, FiniteSets

-----------------------------------------------------------------------------
(***************************************************************************)
(* The adapter lifecycle state machine (services/adapter/lifecycle.py).    *)
(* connect, stop and reset check the state, await the adapter and write    *)
(* the state when the adapter has answered, so calls of several callers    *)
(* overlap at the await.  The adapter is any ProtocolAdapter: its connect  *)
(* and disconnect may take a while, succeed or raise.                      *)
(***************************************************************************)

CONSTANT LifecycleCallers

VARIABLES
    lifecycle_state,    \* _state
    adapter_online,     \* whether the adapter holds a connection
    pending_call,       \* caller -> the call that awaits the adapter, or "none"
    cleanup_failed      \* history: reset swallowed an error of the last disconnect

lifecycleVars == <<lifecycle_state, adapter_online, pending_call, cleanup_failed>>

LifecycleStates == {"CREATED", "CONNECTED", "RUNNING", "STOPPED", "FAILED"}

ValidTransitions ==
    [s \in LifecycleStates |->
        CASE s = "CREATED" -> {"CONNECTED"}
          [] s = "CONNECTED" -> {"RUNNING"}
          [] s = "RUNNING" -> {"STOPPED", "FAILED"}
          [] OTHER -> {"CREATED"}]

CanTransition(target) == target \in ValidTransitions[lifecycle_state]

LifecycleInit ==
    /\ lifecycle_state = "CREATED" /\ adapter_online = FALSE /\ cleanup_failed = FALSE
    /\ pending_call = [c \in LifecycleCallers |-> "none"]

\* The call c passes its check and awaits the adapter.
Await(c, what) ==
    /\ pending_call[c] = "none"
    /\ pending_call' = [pending_call EXCEPT ![c] = what]
    /\ UNCHANGED <<lifecycle_state, adapter_online, cleanup_failed>>

\* The adapter answers c, and c goes on to its end.
Answered(c, what) ==
    /\ pending_call[c] = what
    /\ pending_call' = [pending_call EXCEPT ![c] = "none"]

ConnectBegins(c) == CanTransition("CONNECTED") /\ Await(c, "connect")

ConnectEnds(c) ==
    /\ Answered(c, "connect")
    /\ \/ lifecycle_state' = "CONNECTED" /\ adapter_online' = TRUE /\ cleanup_failed' = FALSE
       \/ UNCHANGED <<lifecycle_state, adapter_online, cleanup_failed>>    \* AdapterConnectionError

StartAdapter ==
    /\ CanTransition("RUNNING")
    /\ lifecycle_state' = "RUNNING"
    /\ UNCHANGED <<adapter_online, pending_call, cleanup_failed>>

StopBegins(c) == CanTransition("STOPPED") /\ Await(c, "stop")

\* An error of disconnect leaves stop before it writes the state.
StopEnds(c) ==
    /\ Answered(c, "stop")
    /\ \/ lifecycle_state' = "STOPPED" /\ adapter_online' = FALSE /\ cleanup_failed' = FALSE
       \/ UNCHANGED <<lifecycle_state, adapter_online, cleanup_failed>>

ResetStopped ==
    /\ lifecycle_state = "STOPPED"
    /\ lifecycle_state' = "CREATED"
    /\ UNCHANGED <<adapter_online, pending_call, cleanup_failed>>

ResetBegins(c) == lifecycle_state = "FAILED" /\ Await(c, "reset")

ResetEnds(c) ==
    /\ Answered(c, "reset")
    /\ lifecycle_state' = "CREATED"
    /\ \/ adapter_online' = FALSE /\ cleanup_failed' = FALSE
       \/ cleanup_failed' = TRUE /\ UNCHANGED adapter_online     \* best effort cleanup

MarkFailed ==
    /\ lifecycle_state = "RUNNING"
    /\ lifecycle_state' = "FAILED"
    /\ UNCHANGED <<adapter_online, pending_call, cleanup_failed>>

LifecycleNext ==
    \/ StartAdapter \/ ResetStopped \/ MarkFailed
    \/ \E c \in LifecycleCallers :
        \/ ConnectBegins(c) \/ ConnectEnds(c) \/ StopBegins(c) \/ StopEnds(c)
        \/ ResetBegins(c) \/ ResetEnds(c)
-----------------------------------------------------------------------------
LifecycleTypeOK ==
    /\ lifecycle_state \in LifecycleStates
    /\ adapter_online \in BOOLEAN /\ cleanup_failed \in BOOLEAN
    /\ pending_call \in [LifecycleCallers -> {"none", "connect", "stop", "reset"}]

\* However the calls overlap, the state tells whether the adapter is connected:
\* CONNECTED and RUNNING adapters are, STOPPED ones are not, and a CREATED one
\* is only when reset swallowed the error of its disconnect.
StateTellsConnection ==
    /\ lifecycle_state \in {"CONNECTED", "RUNNING"} => adapter_online
    /\ lifecycle_state = "STOPPED" => ~adapter_online
    /\ lifecycle_state = "CREATED" /\ adapter_online => cleanup_failed

-----------------------------------------------------------------------------
(***************************************************************************)
(* The adapter service: the registry (services/adapter/registry.py), the   *)
(* runtime with its circuit breaker and retries (runtime.py) and the       *)
(* operations over them (services.py), which the routes share as one       *)
(* runtime for every adapter (routes.py).  The health checker only keeps   *)
(* an adapter's last answer for display and is left out.                   *)
(*                                                                         *)
(* A call keeps the adapter object it found in the registry across its     *)
(* awaits, while other calls unregister, connect or disconnect it.  The    *)
(* adapters of one tenant are modelled, with one adapter object per id;    *)
(* registering an id again brings its object back.  Tenants share nothing  *)
(* but the runtime.  An adapter's connect, disconnect and health may take  *)
(* a while, succeed or raise.                                              *)
(***************************************************************************)

CONSTANTS
    ServiceCalls,       \* calls that may be under way at one time
    AdapterIds,
    MAX_RETRIES,        \* max_retries
    MAX_FAILURES,       \* circuit_breaker_max_failures
    RESET_TIMEOUT       \* circuit_breaker_reset_timeout, in ticks

ASSUME RuntimeConstants == MAX_RETRIES \in Nat \ {0} /\ MAX_FAILURES \in Nat \ {0} /\ RESET_TIMEOUT \in Nat

VARIABLES
    registered,     \* ids in the tenant's map
    online,         \* ids of adapters that hold a connection
    breaker,        \* the circuit breaker's _state and _failure_count
    since_failure,  \* ticks since _last_failure_time, up to RESET_TIMEOUT
    service_call,   \* call -> the step it waits at
    outcomes,       \* history: the latest MAX_FAILURES recorded outcomes, newest last
    excused         \* history: ids whose disconnect raised, or that a connect held when they left the registry

serviceVars == <<registered, online, breaker, since_failure, service_call, outcomes, excused>>

NoCall == [at |-> "idle"]

ServiceInit ==
    /\ registered = {} /\ online = {} /\ excused = {}
    /\ breaker = [state |-> "closed", failure_count |-> 0]
    /\ since_failure = RESET_TIMEOUT /\ outcomes = <<>>
    /\ service_call = [c \in ServiceCalls |-> NoCall]

\* The state property: an open breaker reads as half open after the timeout.
CircuitState ==
    IF breaker.state = "open" /\ since_failure >= RESET_TIMEOUT THEN "half_open" ELSE breaker.state

AllowRequest == CircuitState # "open"

Remember(ok) ==
    outcomes' = IF Len(outcomes) = MAX_FAILURES THEN Append(Tail(outcomes), ok) ELSE Append(outcomes, ok)

RecordSuccess ==
    /\ breaker' = [state |-> "closed", failure_count |-> 0]
    /\ Remember(TRUE) /\ UNCHANGED since_failure

\* The count stops at MAX_FAILURES, where it has no further effect.
RecordFailure ==
    /\ breaker' = IF breaker.failure_count + 1 >= MAX_FAILURES
                  THEN [state |-> "open", failure_count |-> MAX_FAILURES]
                  ELSE [breaker EXCEPT !.failure_count = @ + 1]
    /\ since_failure' = 0 /\ Remember(FALSE)

NothingRecorded == UNCHANGED <<breaker, since_failure, outcomes>>

\* Call c, idle, starts waiting at a step; a waiting call moves on or returns.
Starts(c, step) == service_call[c] = NoCall /\ service_call' = [service_call EXCEPT ![c] = step]
At(c, step) == service_call[c].at = step
MovesTo(c, step) == service_call' = [service_call EXCEPT ![c].at = step]
Returns(c) == service_call' = [service_call EXCEPT ![c] = NoCall]

Register(a) ==
    /\ a \notin registered
    /\ registered' = registered \cup {a}
    /\ excused' = excused \ {a}
    /\ UNCHANGED <<online, breaker, since_failure, service_call, outcomes>>

\* Calls that hold adapter a and may still connect it.
Connecting(a) ==
    \E c \in ServiceCalls : service_call[c].at \in {"connect", "retry"} /\ service_call[c].adapter = a

LeftBehind(S) == {a \in S : Connecting(a)}

UnregisterForgets(c, a) ==
    /\ a \in registered /\ service_call[c] = NoCall
    /\ registered' = registered \ {a}
    /\ excused' = (excused \ {a}) \cup LeftBehind({a})
    /\ UNCHANGED <<online, breaker, since_failure, service_call, outcomes>>

\* unregister pops the adapter and then awaits its disconnect.
Unregister(c, a) ==
    /\ a \in registered
    /\ registered' = registered \ {a}
    /\ excused' = (excused \ {a}) \cup LeftBehind({a})
    /\ Starts(c, [at |-> "clear", adapters |-> {a}])
    /\ NothingRecorded /\ UNCHANGED <<online>>

\* clear_tenant pops the tenant's map and disconnects the adapters in turn.
ClearTenant(c) ==
    /\ registered # {}
    /\ registered' = {}
    /\ excused' = (excused \ registered) \cup LeftBehind(registered)
    /\ Starts(c, [at |-> "clear", adapters |-> registered])
    /\ NothingRecorded /\ UNCHANGED <<online>>

ClearStep(c) ==
    /\ At(c, "clear")
    /\ \E a \in service_call[c].adapters :
        LET rest == service_call[c].adapters \ {a} IN
        /\ \/ online' = online \ {a} /\ UNCHANGED excused
           \/ excused' = excused \cup {a} /\ UNCHANGED online       \* raised: logged and dropped
        /\ IF rest = {} THEN Returns(c) ELSE service_call' = [service_call EXCEPT ![c].adapters = rest]
    /\ NothingRecorded /\ UNCHANGED <<registered>>

\* The service's operations look the adapter up and then await it.
Calls(c, a, step) ==
    /\ a \in registered
    /\ Starts(c, [at |-> step, adapter |-> a, attempt |-> 0])
    /\ NothingRecorded /\ UNCHANGED <<registered, online, excused>>

ConnectAdapter(c, a) == Calls(c, a, "connect")
DisconnectAdapter(c, a) == Calls(c, a, "disconnect")

\* connect_with_retry, one attempt: a success returns, the last failure raises,
\* another one sleeps before the next attempt.  It never asks the breaker.
ConnectSucceeds(c) ==
    /\ At(c, "connect")
    /\ online' = online \cup {service_call[c].adapter}
    /\ RecordSuccess /\ Returns(c)
    /\ UNCHANGED <<registered, excused>>

ConnectFails(c) ==
    /\ At(c, "connect")
    /\ IF service_call[c].attempt = MAX_RETRIES - 1 THEN Returns(c) ELSE MovesTo(c, "retry")
    /\ RecordFailure /\ UNCHANGED <<registered, online, excused>>

SleepEndsUncounted(c) ==
    /\ At(c, "retry")
    /\ MovesTo(c, "connect")
    /\ NothingRecorded /\ UNCHANGED <<registered, online, excused>>

SleepEnds(c) ==
    /\ At(c, "retry")
    /\ service_call' = [service_call EXCEPT ![c] = [at |-> "connect", adapter |-> @.adapter, attempt |-> @.attempt + 1]]
    /\ NothingRecorded /\ UNCHANGED <<registered, online, excused>>

DisconnectWithCleanup(c) ==
    /\ At(c, "disconnect")
    /\ online' \in {online, online \ {service_call[c].adapter}}
    /\ Returns(c) /\ NothingRecorded /\ UNCHANGED <<registered, excused>>

\* read_data and write_data: refused while the breaker is open, else the
\* adapter's health is awaited.
ReadOrWrite(c, a) == AllowRequest /\ Calls(c, a, "health")

\* The answer of health is recorded; a healthy adapter is then read or written,
\* which only asks the adapter again.
HealthAnswers(c) ==
    /\ At(c, "health")
    /\ \/ service_call[c].adapter \in online /\ RecordSuccess
       \/ RecordFailure                                     \* unhealthy, or health raised
    /\ Returns(c) /\ UNCHANGED <<registered, online, excused>>

TimePasses ==
    /\ since_failure < RESET_TIMEOUT
    /\ since_failure' = since_failure + 1
    /\ UNCHANGED <<registered, online, breaker, service_call, outcomes, excused>>

ServiceStep(c) ==
    \/ ClearStep(c) \/ ConnectSucceeds(c) \/ ConnectFails(c) \/ SleepEnds(c)
    \/ DisconnectWithCleanup(c) \/ HealthAnswers(c)

ServiceNext ==
    \/ TimePasses
    \/ \E a \in AdapterIds : Register(a)
    \/ \E c \in ServiceCalls :
        \/ ClearTenant(c) \/ ServiceStep(c)
        \/ \E a \in AdapterIds :
            \/ Unregister(c, a) \/ ConnectAdapter(c, a) \/ DisconnectAdapter(c, a)
            \/ ReadOrWrite(c, a)
-----------------------------------------------------------------------------
ServiceTypeOK ==
    /\ registered \subseteq AdapterIds /\ online \subseteq AdapterIds /\ excused \subseteq AdapterIds
    /\ breaker \in [state : {"closed", "open"}, failure_count : 0..MAX_FAILURES]
    /\ since_failure \in 0..RESET_TIMEOUT
    /\ \A c \in ServiceCalls :
        service_call[c].at \in {"idle", "clear", "connect", "retry", "disconnect", "health"}

\* The breaker every adapter shares is open exactly when the latest
\* max_failures outcomes recorded, of whichever calls in whichever order they
\* ended, were all failures.
BreakerFollowsOutcomes ==
    breaker.state = "open" <=>
        /\ Len(outcomes) = MAX_FAILURES
        /\ \A i \in 1..MAX_FAILURES : ~outcomes[i]

\* An adapter that left the registry does not keep its connection, unless its
\* disconnect is still awaited or raised, or a connect call held the adapter
\* when it left.
NoOrphanConnections ==
    \A a \in online \ registered :
        \/ a \in excused
        \/ \E c \in ServiceCalls : At(c, "clear") /\ a \in service_call[c].adapters

\* Every call under way comes to its end: the retries of connect_with_retry are
\* numbered and the adapter's answers are awaited one at a time.
CallsReturn == \A c \in ServiceCalls : service_call[c] # NoCall ~> service_call[c] = NoCall
=============================================================================
