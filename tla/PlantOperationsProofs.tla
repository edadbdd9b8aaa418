----------------------- MODULE PlantOperationsProofs -----------------------
(***************************************************************************)
(* Proofs about the parts of MCPlantOperations, for any number of callers, *)
(* calls, adapters, batches, alarms and orders and any limits.  Each part  *)
(* has an inductive invariant of its own; a step of the composition is a   *)
(* step of one part and leaves the variables of the others alone.          *)
(***************************************************************************)
EXTENDS MCPlantOperations, DataInduction, FiniteSetTheorems, FunctionTheorems, SequenceTheorems, TLAPS

(* What a step of the composition is for each part. *)
LEMMA PartSteps ==
  ASSUME [Next]_vars
  PROVE  /\ LifecycleNext \/ UNCHANGED lifecycleVars
         /\ ServiceNext \/ UNCHANGED serviceVars
         /\ ProtocolNext \/ UNCHANGED adapterVars
         /\ EdgeNext \/ UNCHANGED edgeVars
         /\ NodeNext \/ UNCHANGED nodeVars
         /\ StoreNext \/ UNCHANGED storeVars
         /\ AlarmNext \/ UNCHANGED alarmVars
         /\ OrderNext \/ UNCHANGED orderVars
         /\ BpmnNext \/ UNCHANGED bpmnVars
         /\ EngineNext \/ GateNext \/ UNCHANGED safetyVars
         /\ AuditNext \/ UNCHANGED auditVars
         /\ PlanNext \/ AssemblyNext \/ UNCHANGED assemblyVars
         /\ CompositeNext \/ UNCHANGED compositeVars
         /\ BindingNext \/ UNCHANGED bindingVars
         /\ PermissionNext \/ UNCHANGED permissionVars
<1>1. CASE PlantStep
  BY <1>1 DEF PlantStep, Running, fieldVars
<1>2. CASE FieldStep
  BY <1>2 DEF FieldStep, Running, plantVars, LifecyclePart, ServicePart, ProtocolPart,
              EdgeAdapterPart, NodePart, StorePart
<1>3. CASE UNCHANGED vars
  BY <1>3 DEF vars, plantVars, fieldVars
<1> QED BY <1>1, <1>2, <1>3 DEF Next

-----------------------------------------------------------------------------
(* The lifecycle state machine: its two invariants are inductive together. *)

LifecycleInv == LifecycleTypeOK /\ StateTellsConnection

LEMMA LifecycleStart == LifecycleInit => LifecycleInv
BY DEF LifecycleInit, LifecycleInv, LifecycleTypeOK, StateTellsConnection, LifecycleStates

LEMMA LifecycleStep == LifecycleInv /\ (LifecycleNext \/ UNCHANGED lifecycleVars) => LifecycleInv'
<1> SUFFICES ASSUME LifecycleInv, LifecycleNext \/ UNCHANGED lifecycleVars PROVE LifecycleInv'
  OBVIOUS
<1> USE DEF LifecycleInv, LifecycleTypeOK, StateTellsConnection, LifecycleStates
<1>1. CASE UNCHANGED lifecycleVars
  BY <1>1 DEF lifecycleVars
<1>2. CASE StartAdapter \/ ResetStopped \/ MarkFailed
  BY <1>2 DEF StartAdapter, ResetStopped, MarkFailed, CanTransition, ValidTransitions
<1>3. ASSUME NEW c \in LifecycleCallers, NEW what \in {"connect", "stop", "reset"}, Await(c, what)
      PROVE  LifecycleInv'
  BY <1>3 DEF Await
<1>4. ASSUME NEW c \in LifecycleCallers, ConnectEnds(c) \/ StopEnds(c) \/ ResetEnds(c)
      PROVE  LifecycleInv'
  <2>1. pending_call' \in [LifecycleCallers -> {"none", "connect", "stop", "reset"}]
    BY <1>4 DEF ConnectEnds, StopEnds, ResetEnds, Answered
  <2>2. CASE UNCHANGED <<lifecycle_state, adapter_online, cleanup_failed>>
    BY <2>1, <2>2
  <2>3. CASE lifecycle_state' = "CONNECTED" /\ adapter_online' = TRUE /\ cleanup_failed' = FALSE
    BY <2>1, <2>3
  <2>4. CASE lifecycle_state' = "STOPPED" /\ adapter_online' = FALSE /\ cleanup_failed' = FALSE
    BY <2>1, <2>4
  <2>5. CASE ResetEnds(c)
    BY <2>1, <2>5 DEF ResetEnds
  <2> QED BY <1>4, <2>2, <2>3, <2>4, <2>5 DEF ConnectEnds, StopEnds
<1> QED BY <1>1, <1>2, <1>3, <1>4 DEF LifecycleNext, ConnectBegins, StopBegins, ResetBegins

-----------------------------------------------------------------------------
(* The adapter service.  The breaker's count is the length of the run of   *)
(* failures at the end of the outcomes.  A call that may still connect an  *)
(* adapter holds one that is registered or excused.                        *)

CallTyped(k) ==
  \/ k = NoCall
  \/ k \in [at : {"clear"}, adapters : SUBSET AdapterIds]
  \/ k \in [at : {"connect", "retry", "disconnect", "health"}, adapter : AdapterIds, attempt : Nat]

CallsTyped ==
  /\ registered \subseteq AdapterIds /\ online \subseteq AdapterIds /\ excused \subseteq AdapterIds
  /\ DOMAIN service_call = ServiceCalls
  /\ service_call = [c \in ServiceCalls |-> service_call[c]]
  /\ \A c \in ServiceCalls : CallTyped(service_call[c])

FailureRun ==
  /\ breaker \in [state : {"closed", "open"}, failure_count : 0..MAX_FAILURES]
  /\ since_failure \in 0..RESET_TIMEOUT
  /\ outcomes \in Seq(BOOLEAN) /\ Len(outcomes) <= MAX_FAILURES
  /\ breaker.failure_count <= Len(outcomes)
  /\ \A i \in 1..Len(outcomes) : i > Len(outcomes) - breaker.failure_count => ~outcomes[i]
  /\ breaker.failure_count < Len(outcomes) => outcomes[Len(outcomes) - breaker.failure_count]
  /\ breaker.state = "open" <=> breaker.failure_count = MAX_FAILURES

ConnectsAreKnown ==
  \A c \in ServiceCalls :
    service_call[c].at \in {"connect", "retry"} => service_call[c].adapter \in registered \cup excused

ServiceInv == CallsTyped /\ FailureRun /\ ConnectsAreKnown /\ NoOrphanConnections

LEMMA ServiceStart == ServiceInit => ServiceInv
<1> SUFFICES ASSUME ServiceInit PROVE ServiceInv
  OBVIOUS
<1> USE RuntimeConstants DEF ServiceInit, NoCall
<1>1. CallsTyped
  BY DEF CallsTyped, CallTyped
<1>2. FailureRun
  BY DEF FailureRun
<1>3. ConnectsAreKnown /\ NoOrphanConnections
  BY DEF ConnectsAreKnown, NoOrphanConnections
<1> QED BY <1>1, <1>2, <1>3 DEF ServiceInv

LEMMA RememberShifts ==
  ASSUME FailureRun, NEW ok \in BOOLEAN, Remember(ok)
  PROVE  /\ outcomes' \in Seq(BOOLEAN) /\ Len(outcomes') \in 1..MAX_FAILURES
         /\ outcomes'[Len(outcomes')] = ok
         /\ \/ Len(outcomes) < MAX_FAILURES /\ Len(outcomes') = Len(outcomes) + 1
               /\ \A i \in 1..Len(outcomes) : outcomes'[i] = outcomes[i]
            \/ Len(outcomes) = MAX_FAILURES /\ Len(outcomes') = MAX_FAILURES
               /\ \A i \in 1..(MAX_FAILURES - 1) : outcomes'[i] = outcomes[i + 1]
<1>1. outcomes \in Seq(BOOLEAN) /\ Len(outcomes) <= MAX_FAILURES /\ Len(outcomes) \in Nat
  BY DEF FailureRun
<1>2. CASE Len(outcomes) = MAX_FAILURES
  <2>1. /\ Tail(outcomes) \in Seq(BOOLEAN) /\ Len(Tail(outcomes)) = MAX_FAILURES - 1
        /\ \A i \in 1..(MAX_FAILURES - 1) : Tail(outcomes)[i] = outcomes[i + 1]
    BY <1>1, <1>2, RuntimeConstants
  <2> QED BY <1>1, <1>2, <2>1, RuntimeConstants DEF Remember
<1>3. CASE Len(outcomes) # MAX_FAILURES
  <2>1. Len(outcomes) < MAX_FAILURES
    BY <1>1, <1>3, RuntimeConstants
  <2>2. outcomes' = Append(outcomes, ok)
    BY <1>3 DEF Remember
  <2>3. outcomes' \in Seq(BOOLEAN) /\ Len(outcomes') = Len(outcomes) + 1
    BY <1>1, <2>2
  <2>4. outcomes'[Len(outcomes) + 1] = ok
    BY <1>1, <2>2
  <2>5. \A i \in 1..Len(outcomes) : outcomes'[i] = outcomes[i]
    BY <1>1, <2>2
  <2> QED BY <1>1, <2>1, <2>3, <2>4, <2>5, RuntimeConstants
<1> QED BY <1>2, <1>3

LEMMA SuccessRun == FailureRun /\ RecordSuccess => FailureRun'
<1> SUFFICES ASSUME FailureRun, RecordSuccess PROVE FailureRun'
  OBVIOUS
<1>1. Remember(TRUE) /\ breaker' = [state |-> "closed", failure_count |-> 0] /\ since_failure' = since_failure
  BY DEF RecordSuccess
<1>2. outcomes' \in Seq(BOOLEAN) /\ Len(outcomes') \in 1..MAX_FAILURES /\ outcomes'[Len(outcomes')] = TRUE
  BY <1>1, RememberShifts
<1> QED BY <1>1, <1>2, RuntimeConstants DEF FailureRun

LEMMA FailureRunGrows == FailureRun /\ RecordFailure => FailureRun'
<1> SUFFICES ASSUME FailureRun, RecordFailure PROVE FailureRun'
  OBVIOUS
<1> USE RuntimeConstants
<1>1. Remember(FALSE) /\ since_failure' = 0
  BY DEF RecordFailure
<1>2. /\ outcomes' \in Seq(BOOLEAN) /\ Len(outcomes') \in 1..MAX_FAILURES
      /\ outcomes'[Len(outcomes')] = FALSE
      /\ \/ Len(outcomes) < MAX_FAILURES /\ Len(outcomes') = Len(outcomes) + 1
            /\ \A i \in 1..Len(outcomes) : outcomes'[i] = outcomes[i]
         \/ Len(outcomes) = MAX_FAILURES /\ Len(outcomes') = MAX_FAILURES
            /\ \A i \in 1..(MAX_FAILURES - 1) : outcomes'[i] = outcomes[i + 1]
  BY <1>1, RememberShifts
<1> DEFINE n == breaker.failure_count
<1>3. n \in 0..MAX_FAILURES /\ n <= Len(outcomes) /\ Len(outcomes) \in Nat
  BY DEF FailureRun
<1>4. /\ breaker' \in [state : {"closed", "open"}, failure_count : 0..MAX_FAILURES]
      /\ breaker'.failure_count = (IF n + 1 >= MAX_FAILURES THEN MAX_FAILURES ELSE n + 1)
      /\ breaker'.state = "open" <=> breaker'.failure_count = MAX_FAILURES
  BY <1>3 DEF RecordFailure, FailureRun
<1> DEFINE m == breaker'.failure_count
<1>5. m \in 0..MAX_FAILURES /\ m <= Len(outcomes') /\ m <= n + 1 /\ (m < Len(outcomes') => m = n + 1)
  BY <1>2, <1>3, <1>4
<1>6. \A i \in 1..Len(outcomes) : i > Len(outcomes) - n => ~outcomes[i]
  BY DEF FailureRun
<1>7. n < Len(outcomes) => outcomes[Len(outcomes) - n]
  BY DEF FailureRun
<1> HIDE DEF n, m
<1>8. ASSUME NEW i \in 1..Len(outcomes'), i > Len(outcomes') - m PROVE ~outcomes'[i]
  <2>0. Len(outcomes) \in Nat /\ Len(outcomes') \in Nat /\ i \in Int /\ m \in Int /\ n \in Int
    BY <1>2, <1>3, <1>5
  <2>1. CASE i = Len(outcomes')
    BY <1>2, <2>1
  <2>2. CASE /\ i # Len(outcomes') /\ Len(outcomes') = Len(outcomes) + 1
             /\ \A j \in 1..Len(outcomes) : outcomes'[j] = outcomes[j]
    <3>1. i \in 1..Len(outcomes) /\ i > Len(outcomes) - n
      BY <1>5, <1>8, <2>0, <2>2
    <3> QED BY <1>6, <2>2, <3>1
  <2>3. CASE /\ i # Len(outcomes') /\ Len(outcomes) = MAX_FAILURES /\ Len(outcomes') = MAX_FAILURES
             /\ \A j \in 1..(MAX_FAILURES - 1) : outcomes'[j] = outcomes[j + 1]
    <3>1. i \in 1..(MAX_FAILURES - 1) /\ i + 1 \in 1..Len(outcomes) /\ i + 1 > Len(outcomes) - n
      BY <1>5, <1>8, <2>0, <2>3
    <3> QED BY <1>6, <2>3, <3>1
  <2> QED BY <1>2, <2>1, <2>2, <2>3
<1>9. m < Len(outcomes') => outcomes'[Len(outcomes') - m]
  BY <1>2, <1>3, <1>5, <1>7
<1> QED BY <1>1, <1>2, <1>4, <1>5, <1>8, <1>9 DEF FailureRun, m

(* What a call at each step carries. *)
LEMMA CallFields ==
  ASSUME NEW k, CallTyped(k)
  PROVE  /\ k.at \in {"idle", "clear", "connect", "retry", "disconnect", "health"}
         /\ k.at = "clear" => k.adapters \in SUBSET AdapterIds
         /\ k.at \in {"connect", "retry", "disconnect", "health"} =>
              k \in [at : {"connect", "retry", "disconnect", "health"}, adapter : AdapterIds, attempt : Nat]
<1>1. CASE k = NoCall
  BY <1>1 DEF NoCall
<1>2. CASE k \in [at : {"clear"}, adapters : SUBSET AdapterIds]
  BY <1>2
<1>3. CASE k \in [at : {"connect", "retry", "disconnect", "health"}, adapter : AdapterIds, attempt : Nat]
  BY <1>3
<1> QED BY <1>1, <1>2, <1>3 DEF CallTyped

(* A step of one call leaves the others where they are. *)
LEMMA CallChange ==
  ASSUME CallsTyped, NEW c \in ServiceCalls, NEW k, CallTyped(k),
         service_call' = [service_call EXCEPT ![c] = k]
  PROVE  /\ DOMAIN service_call' = ServiceCalls
         /\ service_call' = [d \in ServiceCalls |-> service_call'[d]]
         /\ service_call'[c] = k
         /\ \A d \in ServiceCalls : d # c => service_call'[d] = service_call[d]
         /\ \A d \in ServiceCalls : CallTyped(service_call'[d])
<1>1. /\ DOMAIN service_call' = ServiceCalls
      /\ service_call' = [d \in ServiceCalls |-> service_call'[d]]
      /\ service_call'[c] = k
      /\ \A d \in ServiceCalls : d # c => service_call'[d] = service_call[d]
  BY DEF CallsTyped
<1> QED BY <1>1 DEF CallsTyped

LEMMA RunUntouched == FailureRun /\ NothingRecorded => FailureRun'
BY DEF FailureRun, NothingRecorded

(* Adapters leave the registry; call c takes them over for disconnecting. *)
LEMMA ClearStarts ==
  ASSUME ServiceInv, NEW c \in ServiceCalls, NEW S \in SUBSET registered,
         registered' = registered \ S, excused' = (excused \ S) \cup LeftBehind(S),
         Starts(c, [at |-> "clear", adapters |-> S]), NothingRecorded, online' = online
  PROVE  ServiceInv'
<1> DEFINE k == [at |-> "clear", adapters |-> S]
<1>1. CallsTyped /\ CallTyped(k) /\ service_call' = [service_call EXCEPT ![c] = k] /\ service_call[c] = NoCall
  BY DEF ServiceInv, Starts, CallTyped, CallsTyped
<1>2. /\ DOMAIN service_call' = ServiceCalls
      /\ service_call' = [d \in ServiceCalls |-> service_call'[d]]
      /\ service_call'[c] = k
      /\ \A d \in ServiceCalls : d # c => service_call'[d] = service_call[d]
      /\ \A d \in ServiceCalls : CallTyped(service_call'[d])
  BY <1>1, CallChange
<1>3. CallsTyped'
  BY <1>2 DEF ServiceInv, CallsTyped, CallTyped, LeftBehind
<1>4. ConnectsAreKnown'
  <2> SUFFICES ASSUME NEW d \in ServiceCalls, service_call'[d].at \in {"connect", "retry"}
               PROVE  service_call'[d].adapter \in registered' \cup excused'
    BY DEF ConnectsAreKnown
  <2>1. d # c /\ service_call'[d] = service_call[d]
    BY <1>2
  <2>2. service_call[d].adapter \in registered \cup excused
    BY <2>1 DEF ServiceInv, ConnectsAreKnown
  <2>3. service_call[d].adapter \in S => service_call[d].adapter \in LeftBehind(S)
    BY <2>1 DEF LeftBehind, Connecting
  <2> QED BY <2>1, <2>2, <2>3
<1>5. NoOrphanConnections'
  <2> SUFFICES ASSUME NEW a \in online, a \notin registered'
               PROVE  a \in excused' \/ \E d \in ServiceCalls : service_call'[d].at = "clear" /\ a \in service_call'[d].adapters
    BY DEF NoOrphanConnections, At
  <2>1. CASE a \in S
    BY <1>2, <2>1
  <2>2. CASE a \notin S
    <3>1. a \in excused \/ \E d \in ServiceCalls : service_call[d].at = "clear" /\ a \in service_call[d].adapters
      BY <2>2 DEF ServiceInv, NoOrphanConnections, At
    <3>2. service_call[c].at = "idle"
      BY <1>1 DEF NoCall
    <3> QED BY <1>2, <2>2, <3>1, <3>2
  <2> QED BY <2>1, <2>2
<1> QED BY <1>3, <1>4, <1>5, RunUntouched DEF ServiceInv

(* One adapter of a clear call is disconnected, or its error is dropped. *)
LEMMA ClearGoesOn == ASSUME ServiceInv, NEW c \in ServiceCalls, ClearStep(c) PROVE ServiceInv'
<1>1. PICK a \in service_call[c].adapters :
        /\ \/ online' = online \ {a} /\ UNCHANGED excused
           \/ excused' = excused \cup {a} /\ UNCHANGED online
        /\ IF service_call[c].adapters \ {a} = {} THEN Returns(c)
           ELSE service_call' = [service_call EXCEPT ![c].adapters = service_call[c].adapters \ {a}]
  BY DEF ClearStep
<1> DEFINE rest == service_call[c].adapters \ {a}
<1>2. service_call[c].at = "clear" /\ registered' = registered /\ NothingRecorded
  BY DEF ClearStep, At
<1>3. service_call[c] \in [at : {"clear"}, adapters : SUBSET AdapterIds]
  BY <1>2 DEF ServiceInv, CallsTyped, CallTyped, NoCall
<1>4. PICK k : /\ CallTyped(k) /\ service_call' = [service_call EXCEPT ![c] = k]
               /\ k.at \in {"idle", "clear"}
               /\ rest # {} => k = [at |-> "clear", adapters |-> rest]
  <2>1. CASE rest = {}
    BY <1>1, <2>1 DEF Returns, CallTyped, NoCall
  <2>2. CASE rest # {}
    <3>1. service_call' = [service_call EXCEPT ![c] = [service_call[c] EXCEPT !.adapters = rest]]
      BY <1>1, <2>2
    <3>2. [service_call[c] EXCEPT !.adapters = rest] = [at |-> "clear", adapters |-> rest]
      BY <1>3
    <3>3. CallTyped([at |-> "clear", adapters |-> rest])
      BY <1>3 DEF CallTyped
    <3> QED BY <3>1, <3>2, <3>3
  <2> QED BY <2>1, <2>2
<1>5. /\ DOMAIN service_call' = ServiceCalls
      /\ service_call' = [d \in ServiceCalls |-> service_call'[d]]
      /\ service_call'[c] = k
      /\ \A d \in ServiceCalls : d # c => service_call'[d] = service_call[d]
      /\ \A d \in ServiceCalls : CallTyped(service_call'[d])
  BY <1>4, CallChange DEF ServiceInv
<1>6. CallsTyped'
  BY <1>1, <1>2, <1>3, <1>5 DEF ServiceInv, CallsTyped, CallTyped
<1>7. ConnectsAreKnown'
  BY <1>1, <1>2, <1>4, <1>5 DEF ServiceInv, ConnectsAreKnown
<1>8. NoOrphanConnections'
  <2> SUFFICES ASSUME NEW b \in online', b \notin registered', b \notin excused'
               PROVE  \E d \in ServiceCalls : service_call'[d].at = "clear" /\ b \in service_call'[d].adapters
    BY DEF NoOrphanConnections, At
  <2>1. b # a /\ b \in online \ registered /\ b \notin excused
    BY <1>1, <1>2
  <2>2. PICK d \in ServiceCalls : service_call[d].at = "clear" /\ b \in service_call[d].adapters
    BY <2>1 DEF ServiceInv, NoOrphanConnections, At
  <2>3. CASE d = c
    BY <1>4, <1>5, <2>1, <2>2, <2>3
  <2>4. CASE d # c
    BY <1>5, <2>2, <2>4
  <2> QED BY <2>3, <2>4
<1> QED BY <1>2, <1>6, <1>7, <1>8, RunUntouched DEF ServiceInv

(* Every other step of a call: it goes to a step at which it is held to no *)
(* more than before, and adapters come online only if they are known.      *)
LEMMA CallGoesOn ==
  ASSUME ServiceInv, NEW c \in ServiceCalls, NEW k, CallTyped(k), service_call[c].at # "clear",
         service_call' = [service_call EXCEPT ![c] = k],
         k.at \in {"connect", "retry"} => k.adapter \in registered \cup excused,
         online' \ online \subseteq registered \cup excused, online' \subseteq AdapterIds,
         UNCHANGED <<registered, excused>>, FailureRun'
  PROVE  ServiceInv'
<1>1. /\ DOMAIN service_call' = ServiceCalls
      /\ service_call' = [d \in ServiceCalls |-> service_call'[d]]
      /\ service_call'[c] = k
      /\ \A d \in ServiceCalls : d # c => service_call'[d] = service_call[d]
      /\ \A d \in ServiceCalls : CallTyped(service_call'[d])
  BY CallChange DEF ServiceInv
<1>2. CallsTyped'
  BY <1>1 DEF ServiceInv, CallsTyped, CallTyped
<1>3. ConnectsAreKnown'
  BY <1>1 DEF ServiceInv, ConnectsAreKnown
<1>4. NoOrphanConnections'
  <2> SUFFICES ASSUME NEW b \in online', b \notin registered, b \notin excused
               PROVE  \E d \in ServiceCalls : service_call'[d].at = "clear" /\ b \in service_call'[d].adapters
    BY DEF NoOrphanConnections, At
  <2>1. PICK d \in ServiceCalls : service_call[d].at = "clear" /\ b \in service_call[d].adapters
    BY DEF ServiceInv, NoOrphanConnections, At
  <2> QED BY <1>1, <2>1
<1> QED BY <1>2, <1>3, <1>4 DEF ServiceInv

LEMMA ServiceKeeps == ServiceInv /\ (ServiceNext \/ UNCHANGED serviceVars) => ServiceInv'
<1> SUFFICES ASSUME ServiceInv, ServiceNext \/ UNCHANGED serviceVars PROVE ServiceInv'
  OBVIOUS
<1>0. CallsTyped /\ FailureRun /\ ConnectsAreKnown
  BY DEF ServiceInv
<1>1. CASE UNCHANGED serviceVars
  BY <1>1 DEF serviceVars, ServiceInv, CallsTyped, CallTyped, FailureRun, ConnectsAreKnown, NoOrphanConnections, At
<1>2. CASE TimePasses
  <2>1. FailureRun'
    BY <1>0, <1>2, RuntimeConstants DEF TimePasses, FailureRun
  <2> QED BY <1>2, <2>1 DEF TimePasses, ServiceInv, CallsTyped, CallTyped, ConnectsAreKnown, NoOrphanConnections, At
<1>3. ASSUME NEW a \in AdapterIds, Register(a) PROVE ServiceInv'
  <2>1. FailureRun'
    BY <1>0, <1>3 DEF Register, FailureRun
  <2> QED BY <1>3, <2>1 DEF Register, ServiceInv, CallsTyped, CallTyped, ConnectsAreKnown, NoOrphanConnections, At
<1>4. ASSUME NEW c \in ServiceCalls, ClearTenant(c) PROVE ServiceInv'
  <2>1. registered' = registered \ registered
    BY <1>4 DEF ClearTenant
  <2> QED BY <1>4, <2>1, ClearStarts DEF ClearTenant
<1>5. ASSUME NEW c \in ServiceCalls, NEW a \in AdapterIds, Unregister(c, a) PROVE ServiceInv'
  <2>1. {a} \in SUBSET registered
    BY <1>5 DEF Unregister
  <2> QED BY <1>5, <2>1, ClearStarts DEF Unregister
<1>6. ASSUME NEW c \in ServiceCalls, NEW a \in AdapterIds,
             NEW step \in {"connect", "disconnect", "health"}, Calls(c, a, step)
      PROVE  ServiceInv'
  <2> DEFINE k == [at |-> step, adapter |-> a, attempt |-> 0]
  <2>1. CallTyped(k) /\ k.adapter = a /\ a \in registered
    BY <1>6 DEF CallTyped, Calls
  <2>2. service_call[c].at # "clear" /\ service_call' = [service_call EXCEPT ![c] = k]
    BY <1>6 DEF Calls, Starts, NoCall
  <2>3. FailureRun' /\ UNCHANGED <<registered, online, excused>>
    BY <1>0, <1>6, RunUntouched DEF Calls
  <2> HIDE DEF k
  <2> QED BY <1>0, <2>1, <2>2, <2>3, CallGoesOn DEF CallsTyped
<1>7. ASSUME NEW c \in ServiceCalls, service_call[c].at \in {"connect", "disconnect", "health"},
             Returns(c), UNCHANGED <<registered, excused>>, FailureRun',
             online' \in {online, online \cup {service_call[c].adapter}, online \ {service_call[c].adapter}},
             service_call[c].at # "connect" => online' \subseteq online
      PROVE  ServiceInv'
  <2>1. CallTyped(NoCall) /\ service_call' = [service_call EXCEPT ![c] = NoCall] /\ NoCall.at = "idle"
    BY <1>7 DEF CallTyped, Returns, NoCall
  <2>2. service_call[c].adapter \in AdapterIds
    BY <1>0, <1>7, CallFields DEF CallsTyped
  <2>3. online' \subseteq AdapterIds /\ online' \ online \subseteq registered \cup excused
    BY <1>0, <1>7, <2>2 DEF CallsTyped, ConnectsAreKnown
  <2> QED BY <1>7, <2>1, <2>3, CallGoesOn
<1>8. ASSUME NEW c \in ServiceCalls, ConnectSucceeds(c) PROVE ServiceInv'
  BY <1>0, <1>7, <1>8, SuccessRun DEF ConnectSucceeds, At
<1>9. ASSUME NEW c \in ServiceCalls, ConnectFails(c) PROVE ServiceInv'
  <2>1. FailureRun' /\ UNCHANGED <<registered, online, excused>> /\ service_call[c].at = "connect"
    BY <1>0, <1>9, FailureRunGrows DEF ConnectFails, At
  <2>2. CASE Returns(c)
    BY <1>7, <2>1, <2>2
  <2>3. CASE MovesTo(c, "retry")
    <3> DEFINE k == [service_call[c] EXCEPT !.at = "retry"]
    <3>1. service_call[c] \in [at : {"connect", "retry", "disconnect", "health"}, adapter : AdapterIds, attempt : Nat]
      BY <1>0, <2>1, CallFields DEF CallsTyped
    <3>2. service_call' = [service_call EXCEPT ![c] = k]
      BY <2>3 DEF MovesTo
    <3>3. CallTyped(k) /\ k.adapter = service_call[c].adapter
      BY <3>1 DEF CallTyped
    <3> HIDE DEF k
    <3>4. service_call[c].adapter \in registered \cup excused
      BY <1>0, <2>1 DEF ConnectsAreKnown
    <3> QED BY <1>0, <2>1, <3>2, <3>3, <3>4, CallGoesOn DEF CallsTyped
  <2> QED BY <1>9, <2>2, <2>3 DEF ConnectFails
<1>10. ASSUME NEW c \in ServiceCalls, SleepEnds(c) PROVE ServiceInv'
  <2>1. NothingRecorded /\ UNCHANGED <<registered, online, excused>> /\ service_call[c].at = "retry"
    BY <1>10 DEF SleepEnds, At
  <2> DEFINE k == [at |-> "connect", adapter |-> service_call[c].adapter, attempt |-> service_call[c].attempt + 1]
  <2>2. service_call[c] \in [at : {"connect", "retry", "disconnect", "health"}, adapter : AdapterIds, attempt : Nat]
    BY <1>0, <2>1, CallFields DEF CallsTyped
  <2>3. service_call' = [service_call EXCEPT ![c] = k]
    BY <1>0, <1>10, <2>2 DEF SleepEnds, CallsTyped
  <2>4. CallTyped(k) /\ k.adapter = service_call[c].adapter
    BY <2>2 DEF CallTyped
  <2> HIDE DEF k
  <2>5. service_call[c].adapter \in registered \cup excused
    BY <1>0, <2>1 DEF ConnectsAreKnown
  <2>6. FailureRun'
    BY <1>0, <2>1, RunUntouched
  <2> QED BY <1>0, <2>1, <2>3, <2>4, <2>5, <2>6, CallGoesOn DEF CallsTyped
<1>11. ASSUME NEW c \in ServiceCalls, DisconnectWithCleanup(c) PROVE ServiceInv'
  BY <1>0, <1>7, <1>11, RunUntouched DEF DisconnectWithCleanup, At
<1>12. ASSUME NEW c \in ServiceCalls, HealthAnswers(c) PROVE ServiceInv'
  BY <1>0, <1>7, <1>12, SuccessRun, FailureRunGrows DEF HealthAnswers, At
<1> QED BY <1>1, <1>2, <1>3, <1>4, <1>5, <1>6, <1>8, <1>9, <1>10, <1>11, <1>12, ClearGoesOn
        DEF ServiceNext, ServiceStep, ConnectAdapter, DisconnectAdapter, ReadOrWrite

LEMMA ServiceHolds == ServiceInv => ServiceTypeOK /\ BreakerFollowsOutcomes /\ NoOrphanConnections
<1> SUFFICES ASSUME ServiceInv PROVE ServiceTypeOK /\ BreakerFollowsOutcomes
  BY DEF ServiceInv
<1>1. ServiceTypeOK
  BY CallFields DEF ServiceInv, CallsTyped, FailureRun, ServiceTypeOK
<1>2. BreakerFollowsOutcomes
  BY RuntimeConstants DEF ServiceInv, FailureRun, BreakerFollowsOutcomes
<1> QED BY <1>1, <1>2

-----------------------------------------------------------------------------
(* The protocol adapters.  A subscription id begins with the point it is   *)
(* for, so subscribing again under an id never changes what it watches.    *)

SubsTyped ==
  /\ kind \in Kinds /\ connected \in BOOLEAN /\ client \in BOOLEAN
  /\ \A id \in DOMAIN subs : subs[id] \in Points
  /\ kind # "simulator" => \A id \in DOMAIN subs : subs[id] = id[1]

ProtocolInv == SubsTyped /\ SubscriptionsAreHeld

LEMMA ProtocolStart == ProtocolInit => ProtocolInv
BY DEF ProtocolInit, ProtocolInv, SubsTyped, SubscriptionsAreHeld, NoSubs, Kinds

LEMMA SubscribedKeeps ==
  ASSUME ProtocolInv, NEW id, NEW p \in Points, Subscribed(id, p),
         kind # "simulator" => connected /\ id[1] = p
  PROVE  ProtocolInv'
<1>1. UNCHANGED <<kind, connected, client>> /\ handed_out' = handed_out \cup {<<id, p>>}
      /\ DOMAIN subs' = DOMAIN subs \cup {id} /\ subs'[id] = p
      /\ \A i \in DOMAIN subs : i # id => subs'[i] = subs[i]
  BY DEF Subscribed
<1>2. SubsTyped'
  BY <1>1 DEF ProtocolInv, SubsTyped
<1>3. ASSUME kind # "simulator" PROVE handed_out' = {<<i, subs'[i]>> : i \in DOMAIN subs'}
  <2>1. handed_out = {<<i, subs[i]>> : i \in DOMAIN subs}
    BY <1>3 DEF ProtocolInv, SubscriptionsAreHeld
  <2>2. \A i \in DOMAIN subs : subs'[i] = subs[i]
    BY <1>1, <1>3 DEF ProtocolInv, SubsTyped
  <2> QED BY <1>1, <2>1, <2>2
<1> QED BY <1>1, <1>2, <1>3 DEF ProtocolInv, SubscriptionsAreHeld

LEMMA ForgottenKeeps == ASSUME ProtocolInv, NEW id, Forgotten(id) PROVE ProtocolInv'
<1>1. UNCHANGED <<kind, connected, client>> /\ handed_out' = {h \in handed_out : h[1] # id}
      /\ DOMAIN subs' = DOMAIN subs \ {id}
      /\ \A i \in DOMAIN subs' : subs'[i] = subs[i]
  BY DEF Forgotten, Restrict
<1>2. SubsTyped'
  BY <1>1 DEF ProtocolInv, SubsTyped
<1>3. ASSUME kind # "simulator" PROVE handed_out' = {<<i, subs'[i]>> : i \in DOMAIN subs'}
  <2>1. handed_out = {<<i, subs[i]>> : i \in DOMAIN subs}
    BY <1>3 DEF ProtocolInv, SubscriptionsAreHeld
  <2> QED BY <1>1, <2>1
<1> QED BY <1>1, <1>2, <1>3 DEF ProtocolInv, SubscriptionsAreHeld

LEMMA ProtocolKeeps == ProtocolInv /\ (ProtocolNext \/ UNCHANGED adapterVars) => ProtocolInv'
<1> SUFFICES ASSUME ProtocolInv, ProtocolNext \/ UNCHANGED adapterVars PROVE ProtocolInv'
  OBVIOUS
<1>1. CASE UNCHANGED adapterVars
  BY <1>1 DEF adapterVars, ProtocolInv, SubsTyped, SubscriptionsAreHeld
<1>2. ASSUME NEW k, NEW has_client \in BOOLEAN, Connects(k, has_client), k # "simulator" => has_client PROVE ProtocolInv'
  BY <1>2 DEF Connects, ProtocolInv, SubsTyped, SubscriptionsAreHeld
<1>3. ASSUME NEW k, Disconnects(k) PROVE ProtocolInv'
  BY <1>3 DEF Disconnects, ProtocolInv, SubsTyped, SubscriptionsAreHeld, NoSubs
<1>4. ASSUME NEW p \in Points, SubscribeBacnet(p) \/ SubscribeSimulator(p) PROVE ProtocolInv'
  BY <1>4, SubscribedKeeps DEF SubscribeBacnet, SubscribeSimulator
<1>5. ASSUME NEW p \in Points, NEW cb \in Callbacks, SubscribeMqtt(p, cb) \/ SubscribeOpcua(p, cb) PROVE ProtocolInv'
  BY <1>5, SubscribedKeeps DEF SubscribeMqtt, SubscribeOpcua
<1>6. ASSUME NEW id, UnsubscribeBacnet(id) \/ UnsubscribeMqtt(id) \/ UnsubscribeOpcua(id) \/ UnsubscribeSimulator(id)
      PROVE  ProtocolInv'
  BY <1>6, ForgottenKeeps DEF UnsubscribeBacnet, UnsubscribeMqtt, UnsubscribeOpcua, UnsubscribeSimulator
<1> QED BY <1>1, <1>2, <1>3, <1>4, <1>5, <1>6
        DEF ProtocolNext, ConnectBacnet, ConnectMqtt, ConnectOpcua, ConnectSimulator, ConnectModbusTo,
            DisconnectBacnet, DisconnectModbus, DisconnectMqtt, DisconnectOpcua, DisconnectSimulator

-----------------------------------------------------------------------------
ConnectionInv == LifecycleInv /\ ServiceInv /\ ProtocolInv

(* However calls of the lifecycle, of the adapter service and of the       *)
(* protocol adapters overlap, fail and retry, the state, the breaker, the  *)
(* registry and the subscriptions tell the truth about the connections.    *)
THEOREM ConnectionsTracked == Spec => []ConnectionsAreTracked
<1>1. Init => ConnectionInv
  BY LifecycleStart, ServiceStart, ProtocolStart DEF Init, ConnectionInv
<1>2. ConnectionInv /\ [Next]_vars => ConnectionInv'
  BY PartSteps, LifecycleStep, ServiceKeeps, ProtocolKeeps DEF ConnectionInv
<1>3. ConnectionInv => ConnectionsAreTracked
  <2>1. ProtocolInv => ProtocolTypeOK /\ SubscriptionsAreHeld
    BY DEF ProtocolInv, SubsTyped, ProtocolTypeOK, Range
  <2> QED BY <2>1, ServiceHolds DEF ConnectionInv, LifecycleInv, ConnectionsAreTracked
<1> QED BY <1>1, <1>2, <1>3, PTL DEF Spec

-----------------------------------------------------------------------------
(* The edge adapters.  The buffer is the end of what was buffered since    *)
(* the last flush, after every turn of the loop of read.                   *)

EdgePoint == ExternalIds \X Nat

Newest(s) == SubSeq(s, (IF Len(s) > BUFFER_SIZE THEN Len(s) - BUFFER_SIZE ELSE 0) + 1, Len(s))

(* What the loop keeps true: the points kept are the newest of all. *)
Reading ==
  {r \in [kept : Seq(EdgePoint), all : Seq(EdgePoint), made : Nat] : r.kept = Newest(r.all)}

EdgeInv ==
  /\ edge_registered \subseteq EdgeIds
  /\ edge_status \in [EdgeIds -> {"connected", "disconnected"}]
  /\ points_made \in 0..MaxPoints
  /\ buffer \in [EdgeIds -> Seq(EdgePoint)] /\ unflushed \in [EdgeIds -> Seq(EdgePoint)]
  /\ \A a \in EdgeIds : buffer[a] = Newest(unflushed[a])

LEMMA NewestShape ==
  ASSUME NEW s \in Seq(EdgePoint)
  PROVE  /\ Newest(s) \in Seq(EdgePoint)
         /\ Len(Newest(s)) = (IF Len(s) > BUFFER_SIZE THEN BUFFER_SIZE ELSE Len(s))
         /\ \A i \in 1..Len(Newest(s)) : Newest(s)[i] = s[Len(s) - Len(Newest(s)) + i]
<1> DEFINE from == (IF Len(s) > BUFFER_SIZE THEN Len(s) - BUFFER_SIZE ELSE 0) + 1
<1>1. from \in 1..(Len(s) + 1) /\ Len(s) \in Nat
  BY EdgeConstants
<1>2. \A i \in from..Len(s) : s[i] \in EdgePoint
  BY <1>1
<1>3. /\ SubSeq(s, from, Len(s)) \in Seq(EdgePoint)
      /\ Len(SubSeq(s, from, Len(s))) = Len(s) - from + 1
      /\ \A i \in 1..(Len(s) - from + 1) : SubSeq(s, from, Len(s))[i] = s[from + i - 1]
  BY <1>1, <1>2, SubSeqProperties
<1>4. Newest(s) = SubSeq(s, from, Len(s))
  BY DEF Newest
<1>5. Len(s) - from + 1 = (IF Len(s) > BUFFER_SIZE THEN BUFFER_SIZE ELSE Len(s))
  BY <1>1, EdgeConstants
<1> HIDE DEF from
<1>6. ASSUME NEW i \in 1..Len(Newest(s)) PROVE Newest(s)[i] = s[Len(s) - Len(Newest(s)) + i]
  <2>1. Newest(s)[i] = s[from + i - 1]
    BY <1>3, <1>4
  <2>2. from + i - 1 = Len(s) - Len(Newest(s)) + i
    <3>1. Len(Newest(s)) = Len(s) - from + 1
      BY <1>3, <1>4
    <3> QED BY <1>1, <3>1
  <2> QED BY <2>1, <2>2
<1> QED BY <1>3, <1>4, <1>5, <1>6

LEMMA NewestOfNone == <<>> \in Seq(EdgePoint) /\ Newest(<<>>) = <<>>
<1>1. ASSUME NEW s \in Seq(EdgePoint), Len(s) = 0 PROVE Newest(s) = s
  <2>1. Newest(s) \in Seq(EdgePoint)
        /\ Len(Newest(s)) = (IF Len(s) > BUFFER_SIZE THEN BUFFER_SIZE ELSE Len(s))
    BY NewestShape
  <2>2. Len(Newest(s)) = 0
    BY <1>1, <2>1, EdgeConstants
  <2> QED BY <1>1, <2>1, <2>2, SeqEqual
<1>2. <<>> \in Seq(EdgePoint) /\ Len(<<>>) = 0
  OBVIOUS
<1> QED BY <1>1, <1>2, Zenon

LEMMA BufferedIsNewest ==
  ASSUME NEW s \in Seq(EdgePoint), NEW p \in EdgePoint
  PROVE  Buffered(Newest(s), p) \in Seq(EdgePoint) /\ Buffered(Newest(s), p) = Newest(Append(s, p))
<1> DEFINE b == Newest(s)
           t == Append(s, p)
           u == Buffered(b, p)
<1>1. /\ b \in Seq(EdgePoint)
      /\ Len(b) = (IF Len(s) > BUFFER_SIZE THEN BUFFER_SIZE ELSE Len(s))
      /\ \A i \in 1..Len(b) : b[i] = s[Len(s) - Len(b) + i]
  BY NewestShape
<1>2. /\ t \in Seq(EdgePoint) /\ Len(t) = Len(s) + 1 /\ t[Len(s) + 1] = p
      /\ \A i \in 1..Len(s) : t[i] = s[i]
  OBVIOUS
<1>3. /\ Newest(t) \in Seq(EdgePoint)
      /\ Len(Newest(t)) = (IF Len(t) > BUFFER_SIZE THEN BUFFER_SIZE ELSE Len(t))
      /\ \A i \in 1..Len(Newest(t)) : Newest(t)[i] = t[Len(t) - Len(Newest(t)) + i]
  BY <1>2, NewestShape
<1> HIDE DEF b, t
<1>4. CASE Len(b) >= BUFFER_SIZE
  <2>1. Len(b) = BUFFER_SIZE /\ Len(s) >= BUFFER_SIZE /\ Len(s) \in Nat
    BY <1>1, <1>4, EdgeConstants
  <2>2. /\ Tail(b) \in Seq(EdgePoint) /\ Len(Tail(b)) = BUFFER_SIZE - 1
        /\ \A i \in 1..(BUFFER_SIZE - 1) : Tail(b)[i] = b[i + 1]
    BY <1>1, <2>1, EdgeConstants
  <2>3. u = Append(Tail(b), p)
    BY <1>4 DEF Buffered
  <2>4. /\ u \in Seq(EdgePoint) /\ Len(u) = BUFFER_SIZE /\ u[BUFFER_SIZE] = p
        /\ \A i \in 1..(BUFFER_SIZE - 1) : u[i] = b[i + 1]
    BY <2>2, <2>3, EdgeConstants
  <2> HIDE DEF u
  <2>5. Len(Newest(t)) = BUFFER_SIZE
    BY <1>2, <1>3, <2>1, EdgeConstants
  <2>6. ASSUME NEW i \in 1..BUFFER_SIZE PROVE u[i] = Newest(t)[i]
    <3>1. Newest(t)[i] = t[Len(s) + 1 - BUFFER_SIZE + i]
      <4>1. Newest(t)[i] = t[Len(t) - BUFFER_SIZE + i]
        BY <1>3, <2>5
      <4>2. Len(t) - BUFFER_SIZE + i = Len(s) + 1 - BUFFER_SIZE + i
        BY <1>2, <2>1, EdgeConstants
      <4> QED BY <4>1, <4>2
    <3>2. CASE i = BUFFER_SIZE
      BY <1>2, <2>1, <2>4, <3>1, <3>2, EdgeConstants
    <3>3. CASE i # BUFFER_SIZE
      <4>1. i \in 1..(BUFFER_SIZE - 1) /\ i + 1 \in 1..BUFFER_SIZE
            /\ Len(s) + 1 - BUFFER_SIZE + i \in 1..Len(s)
        BY <2>1, <3>3, EdgeConstants
      <4>2. u[i] = s[Len(s) - BUFFER_SIZE + (i + 1)]
        BY <1>1, <2>1, <2>4, <4>1
      <4>3. Len(s) - BUFFER_SIZE + (i + 1) = Len(s) + 1 - BUFFER_SIZE + i
        BY <2>1, EdgeConstants
      <4> QED BY <1>2, <3>1, <4>1, <4>2, <4>3
    <3> QED BY <3>2, <3>3
  <2>7. u = Newest(t)
    BY <1>3, <2>4, <2>5, <2>6
  <2> QED BY <2>4, <2>7 DEF b, t, u
<1>5. CASE Len(b) < BUFFER_SIZE
  <2>1. Len(b) = Len(s) /\ Len(s) < BUFFER_SIZE /\ Len(s) \in Nat
    BY <1>1, <1>5, EdgeConstants
  <2>2. u = Append(b, p)
    BY <1>1, <1>5, EdgeConstants DEF Buffered
  <2>3. /\ u \in Seq(EdgePoint) /\ Len(u) = Len(s) + 1 /\ u[Len(s) + 1] = p
        /\ \A i \in 1..Len(s) : u[i] = b[i]
    BY <1>1, <2>1, <2>2
  <2> HIDE DEF u
  <2>4. Len(Newest(t)) = Len(s) + 1 /\ \A i \in 1..(Len(s) + 1) : Newest(t)[i] = t[i]
    <3>1. Len(Newest(t)) = Len(s) + 1
      BY <1>2, <1>3, <2>1, EdgeConstants
    <3>2. ASSUME NEW i \in 1..(Len(s) + 1) PROVE Newest(t)[i] = t[i]
      <4>1. Newest(t)[i] = t[Len(t) - Len(Newest(t)) + i]
        BY <1>3, <3>1
      <4>2. Len(t) - Len(Newest(t)) + i = i
        BY <1>2, <2>1, <3>1
      <4> QED BY <4>1, <4>2
    <3> QED BY <3>1, <3>2
  <2>5. ASSUME NEW i \in 1..(Len(s) + 1) PROVE u[i] = Newest(t)[i]
    <3>1. CASE i = Len(s) + 1
      BY <1>2, <2>3, <2>4, <3>1
    <3>2. CASE i # Len(s) + 1
      <4>1. i \in 1..Len(s) /\ b[i] = s[i]
        BY <1>1, <2>1, <3>2
      <4> QED BY <1>2, <2>3, <2>4, <4>1
    <3> QED BY <3>1, <3>2
  <2>6. u = Newest(t)
    BY <1>3, <2>3, <2>4, <2>5
  <2> QED BY <2>3, <2>6 DEF b, t, u
<1> QED BY <1>1, <1>4, <1>5, EdgeConstants

LEMMA OfflinePointKeeps ==
  ASSUME NEW a, NEW id \in ExternalIds, NEW now \in Reading
  PROVE  OfflinePoint(a, id, now) \in Reading
<1>1. CASE Parses(a, id)
  <2> DEFINE point == <<id, now.made + 1>>
             next == [kept |-> Buffered(now.kept, point), all |-> Append(now.all, point), made |-> now.made + 1]
  <2>1. /\ now.kept \in Seq(EdgePoint) /\ now.all \in Seq(EdgePoint) /\ now.made \in Nat
        /\ now.kept = Newest(now.all)
    BY DEF Reading
  <2>2. point \in EdgePoint /\ now.made + 1 \in Nat
    BY <2>1 DEF EdgePoint
  <2> HIDE DEF point
  <2>3. Append(now.all, point) \in Seq(EdgePoint)
    BY <2>1, <2>2
  <2>4. Buffered(now.kept, point) \in Seq(EdgePoint) /\ Buffered(now.kept, point) = Newest(Append(now.all, point))
    BY <2>1, <2>2, BufferedIsNewest
  <2>5. next \in [kept : Seq(EdgePoint), all : Seq(EdgePoint), made : Nat] /\ next.kept = Newest(next.all)
    BY <2>2, <2>3, <2>4
  <2>6. OfflinePoint(a, id, now) = next
    BY <1>1 DEF OfflinePoint, point
  <2> QED BY <2>5, <2>6 DEF Reading
<1>2. CASE ~Parses(a, id)
  BY <1>2 DEF OfflinePoint
<1> QED BY <1>1, <1>2

(* The loop of read over a list of any length. *)
LEMMA OfflineLoopKeeps ==
  ASSUME EdgeInv, NEW a \in EdgeIds, NEW ids \in Seq(ExternalIds)
  PROVE  OfflineLoop(a, ids)[Len(ids)] \in Reading
<1> DEFINE n == Len(ids)
           start == [kept |-> buffer[a], all |-> unflushed[a], made |-> points_made]
           turn == [p \in Reading \X (1..n) |-> OfflinePoint(a, ids[p[2]], p[1])]
           Loops(f) == f = [i \in 0..n |-> IF i = 0 THEN start ELSE OfflinePoint(a, ids[i], f[i - 1])]
<1>1. n \in Nat /\ \A i \in 1..n : ids[i] \in ExternalIds
  OBVIOUS
<1>2. start \in Reading
  BY EdgeConstants DEF Reading, EdgeInv
<1>3. turn \in Turns(n, Reading)
  BY <1>1, OfflinePointKeeps DEF Turns
<1> HIDE DEF turn, n, start
<1>4. PICK f : LoopRuns(f, n, Reading, start, turn)
  BY <1>1, <1>2, <1>3, LoopExists
<1>5. \A i \in 1..n : f[i] = OfflinePoint(a, ids[i], f[i - 1])
  <2> SUFFICES ASSUME NEW i \in 1..n PROVE f[i] = OfflinePoint(a, ids[i], f[i - 1])
    OBVIOUS
  <2>1. f[i - 1] \in Reading
    BY <1>1, <1>4 DEF LoopRuns
  <2> QED BY <1>4, <2>1 DEF turn, LoopRuns
<1>6. Loops(f)
  BY <1>1, <1>4, <1>5 DEF LoopRuns
<1>7. OfflineLoop(a, ids) = CHOOSE g : Loops(g)
  BY DEF OfflineLoop, n, start
<1> DEFINE g == OfflineLoop(a, ids)
<1>8. Loops(g)
  BY <1>6, <1>7
<1> HIDE DEF g
<1>81. \A j \in 0..n : g[j] = IF j = 0 THEN start ELSE OfflinePoint(a, ids[j], g[j - 1])
  BY <1>8, Zenon
<1> DEFINE S == {i \in 0..n : g[i] \in Reading}
<1>9. 0 \in S
  BY <1>1, <1>2, <1>81
<1>10. ASSUME NEW i \in 0..(n - 1), i \in S PROVE i + 1 \in S
  <2>1. i + 1 \in 1..n /\ g[i] \in Reading /\ (i + 1) - 1 = i /\ i + 1 # 0
    BY <1>1, <1>10
  <2>2. g[i + 1] = OfflinePoint(a, ids[i + 1], g[i])
    BY <1>81, <2>1
  <2>3. g[i + 1] \in Reading
    BY <1>1, <2>1, <2>2, OfflinePointKeeps
  <2> QED BY <1>1, <2>1, <2>3
<1> HIDE DEF S
<1>11. n \in S
  <2>1. \A i \in 0..(n - 1) : i \in S => i + 1 \in S
    BY <1>10
  <2>2. 0..n \subseteq S
    BY <1>1, <1>9, <2>1, SetInduction, Zenon
  <2> QED BY <1>1, <2>2
<1> QED BY <1>11 DEF S, g, n

LEMMA EdgeStart == EdgeInit => EdgeInv
<1> SUFFICES ASSUME EdgeInit PROVE EdgeInv
  OBVIOUS
<1>1. <<>> \in Seq(EdgePoint) /\ Newest(<<>>) = <<>>
  BY NewestOfNone
<1> QED BY <1>1, EdgeConstants DEF EdgeInit, EdgeInv

LEMMA EdgeKeeps == EdgeInv /\ (EdgeNext \/ UNCHANGED edgeVars) => EdgeInv'
<1> SUFFICES ASSUME EdgeInv, EdgeNext \/ UNCHANGED edgeVars PROVE EdgeInv'
  OBVIOUS
<1>1. <<>> \in Seq(EdgePoint) /\ Newest(<<>>) = <<>>
  BY NewestOfNone
<1>2. CASE UNCHANGED edgeVars
  BY <1>2 DEF edgeVars, EdgeInv
<1>3. ASSUME NEW S, ConnectEdge(S) PROVE EdgeInv'
  BY <1>3 DEF ConnectEdge, EdgeInv
<1>4. ASSUME NEW S, DisconnectEdge(S) PROVE EdgeInv'
  <2>1. /\ buffer' \in [EdgeIds -> Seq(EdgePoint)] /\ unflushed' \in [EdgeIds -> Seq(EdgePoint)]
        /\ \A a \in EdgeIds : buffer'[a] = Newest(unflushed'[a])
    BY <1>1, <1>4 DEF DisconnectEdge, Flushed, EdgeInv
  <2> QED BY <1>4, <2>1 DEF DisconnectEdge, EdgeInv
<1>5. ASSUME NEW a \in EdgeIds, RegisterEdge(a) PROVE EdgeInv'
  BY <1>5 DEF RegisterEdge, EdgeInv
<1>6. ASSUME NEW a \in EdgeIds, FlushBuffer(a) PROVE EdgeInv'
  BY <1>1, <1>6 DEF FlushBuffer, EdgeInv
<1>7. ASSUME NEW ids \in Lists PROVE ids \in Seq(ExternalIds)
  BY EdgeConstants DEF Lists
<1>8. ASSUME NEW a \in EdgeIds, NEW ids \in Lists, ReadOffline(a, ids) PROVE EdgeInv'
  <2> DEFINE end == OfflineLoop(a, ids)[Len(ids)]
  <2>1. end \in Reading
    BY <1>7, OfflineLoopKeeps
  <2>2. /\ end.made <= MaxPoints /\ points_made' = end.made
        /\ buffer' = [buffer EXCEPT ![a] = end.kept] /\ unflushed' = [unflushed EXCEPT ![a] = end.all]
        /\ UNCHANGED <<edge_kind, edge_registered, edge_status>>
    BY <1>8 DEF ReadOffline
  <2> HIDE DEF end
  <2>3. end.made \in 0..MaxPoints /\ end.kept \in Seq(EdgePoint) /\ end.all \in Seq(EdgePoint)
        /\ end.kept = Newest(end.all)
    BY <2>1, <2>2, EdgeConstants DEF Reading
  <2> QED BY <2>2, <2>3 DEF EdgeInv
<1>9. ASSUME NEW a \in EdgeIds, NEW ids \in Lists, ReadOnline(a, ids) PROVE EdgeInv'
  <2> DEFINE Read(id) == Parses(a, id) /\ (edge_kind[a] = "opcua" => id \notin Unreadable)
             made == Cardinality({i \in DOMAIN ids : Read(ids[i])})
  <2>1. made \in Nat
    <3>1. IsFiniteSet(DOMAIN ids)
      BY <1>7, FS_Interval
    <3> QED BY <3>1, FS_Subset, FS_CardinalityType
  <2>2. /\ points_made + made <= MaxPoints /\ points_made' = points_made + made
        /\ UNCHANGED <<edge_kind, edge_registered, edge_status, buffer, unflushed>>
    BY <1>9 DEF ReadOnline
  <2> HIDE DEF made
  <2> QED BY <2>1, <2>2, EdgeConstants DEF EdgeInv
<1> QED BY <1>2, <1>3, <1>4, <1>5, <1>6, <1>8, <1>9 DEF EdgeNext, ConnectAll, DisconnectAll

LEMMA EdgeHolds == EdgeInv => EdgeTypeOK /\ BufferKeepsNewest
<1> SUFFICES ASSUME EdgeInv PROVE EdgeTypeOK /\ BufferKeepsNewest
  OBVIOUS
<1>1. ASSUME NEW a \in EdgeIds PROVE Len(buffer[a]) <= BUFFER_SIZE
  <2>1. unflushed[a] \in Seq(EdgePoint) /\ buffer[a] = Newest(unflushed[a])
    BY DEF EdgeInv
  <2> QED BY <2>1, NewestShape, EdgeConstants
<1> QED BY <1>1 DEF EdgeInv, EdgeTypeOK, BufferKeepsNewest, Newest

-----------------------------------------------------------------------------
(* The edge node: its types are inductive. *)

LEMMA NodeStart == NodeInit => NodeTypeOK
BY DEF NodeInit, NodeTypeOK, NoTask

LEMMA NodeKeeps == NodeTypeOK /\ (NodeNext \/ UNCHANGED nodeVars) => NodeTypeOK'
<1> SUFFICES ASSUME NodeTypeOK, NodeNext \/ UNCHANGED nodeVars PROVE NodeTypeOK'
  OBVIOUS
<1> USE DEF NodeTypeOK
<1>1. CASE UNCHANGED nodeVars
  BY <1>1 DEF nodeVars
<1>2. CASE Provision \/ StopReturns
  BY <1>2 DEF Provision, StopReturns
<1>3. CASE StopNode
  <2>1. CASE heartbeat_task = NoTask \/ heartbeat_task \in {t \in Beats : beat[t] = "done"}
    BY <1>3, <2>1 DEF StopNode
  <2>2. CASE ~(heartbeat_task = NoTask \/ heartbeat_task \in {t \in Beats : beat[t] = "done"})
    BY <1>3, <2>2 DEF StopNode
  <2> QED BY <2>1, <2>2
<1>4. ASSUME NEW t \in Beats, StartHeartbeatLoop(t) \/ LoopTurn(t) \/ SleepOver(t) \/ CancelTakesEffect(t)
      PROVE  NodeTypeOK'
  BY <1>4 DEF StartHeartbeatLoop, LoopTurn, SleepOver, CancelTakesEffect
<1> QED BY <1>1, <1>2, <1>3, <1>4 DEF NodeNext

-----------------------------------------------------------------------------
(* The store.  Rows in the file, and rows in the file or the transaction,  *)
(* are beginnings of their batches; a write call whose connection is still *)
(* the current one finds its rows there.                                   *)

Row == Batches \X (1..BATCH_SIZE)

WriterTyped(w) ==
  \/ w \in [at : {"idle", "raised"}]
  \/ w \in [at : {"insert"}, on : 1..MaxConnects, done : 0..(BATCH_SIZE - 1)]
  \/ w \in [at : {"commit"}, on : 1..MaxConnects]
  \/ w \in [at : {"accepted"}, same : BOOLEAN]

Beginnings(rows) ==
  \A b \in Batches : \A i \in 1..BATCH_SIZE :
    <<b, i>> \in rows => <<b, i>> \notin RefusedRows /\ \A j \in 1..i : <<b, j>> \in rows

StoreTyped ==
  /\ connects \in 0..MaxConnects /\ connection \in 0..connects
  /\ transaction \subseteq Row /\ committed \subseteq Row
  /\ writer = [b \in Batches |-> writer[b]]
  /\ \A b \in Batches : WriterTyped(writer[b]) /\ (writer[b].at \in {"insert", "commit"} => writer[b].on <= connects)

RowsAreHeld ==
  \A b \in Batches :
    /\ writer[b].at = "insert" /\ writer[b].on = connection =>
         \A i \in 1..writer[b].done : <<b, i>> \in transaction \cup committed
    /\ writer[b].at = "commit" /\ writer[b].on = connection =>
         \A i \in 1..BATCH_SIZE : <<b, i>> \in transaction \cup committed
    /\ writer[b].at = "accepted" /\ writer[b].same => \A i \in 1..BATCH_SIZE : <<b, i>> \in committed

StoreInv ==
  StoreTyped /\ RowsAreHeld /\ Beginnings(committed) /\ Beginnings(transaction \cup committed)

LEMMA StoreStart == StoreInit => StoreInv
<1> SUFFICES ASSUME StoreInit PROVE StoreInv
  OBVIOUS
<1> USE StoreConstants DEF StoreInit
<1>1. StoreTyped
  BY DEF StoreTyped, WriterTyped
<1>2. RowsAreHeld /\ Beginnings(committed) /\ Beginnings(transaction \cup committed)
  BY DEF RowsAreHeld, Beginnings
<1> QED BY <1>1, <1>2 DEF StoreInv

LEMMA WriterFields ==
  ASSUME NEW w, WriterTyped(w)
  PROVE  /\ w.at \in {"idle", "insert", "commit", "accepted", "raised"}
         /\ w.at = "insert" => w \in [at : {"insert"}, on : 1..MaxConnects, done : 0..(BATCH_SIZE - 1)]
         /\ w.at = "commit" => w.on \in 1..MaxConnects
<1>1. CASE w \in [at : {"idle", "raised"}]
  BY <1>1
<1>2. CASE w \in [at : {"insert"}, on : 1..MaxConnects, done : 0..(BATCH_SIZE - 1)]
  BY <1>2
<1>3. CASE w \in [at : {"commit"}, on : 1..MaxConnects]
  BY <1>3
<1>4. CASE w \in [at : {"accepted"}, same : BOOLEAN]
  BY <1>4
<1> QED BY <1>1, <1>2, <1>3, <1>4 DEF WriterTyped

(* A step of one write call. *)
LEMMA WriterMoves ==
  ASSUME StoreInv, NEW b \in Batches, NEW w, Moves(b, w), WriterTyped(w),
         w.at \in {"insert", "commit"} => w.on <= connects,
         UNCHANGED <<connection, connects>>,
         transaction' \subseteq Row, committed' \subseteq Row,
         committed \subseteq committed', transaction \cup committed \subseteq transaction' \cup committed',
         Beginnings(committed'), Beginnings(transaction' \cup committed'),
         w.at = "insert" /\ w.on = connection => \A i \in 1..w.done : <<b, i>> \in transaction' \cup committed',
         w.at = "commit" /\ w.on = connection => \A i \in 1..BATCH_SIZE : <<b, i>> \in transaction' \cup committed',
         w.at = "accepted" /\ w.same => \A i \in 1..BATCH_SIZE : <<b, i>> \in committed'
  PROVE  StoreInv'
<1>1. writer' = [writer EXCEPT ![b] = w] /\ writer = [c \in Batches |-> writer[c]]
  BY DEF Moves, StoreInv, StoreTyped
<1>2. /\ writer' = [c \in Batches |-> writer'[c]] /\ writer'[b] = w
      /\ \A c \in Batches : c # b => writer'[c] = writer[c]
  BY <1>1
<1>3. StoreTyped'
  BY <1>2 DEF StoreInv, StoreTyped, Row, WriterTyped
<1>4. RowsAreHeld'
  <2> SUFFICES ASSUME NEW c \in Batches
               PROVE  /\ writer'[c].at = "insert" /\ writer'[c].on = connection =>
                           \A i \in 1..writer'[c].done : <<c, i>> \in transaction' \cup committed'
                      /\ writer'[c].at = "commit" /\ writer'[c].on = connection =>
                           \A i \in 1..BATCH_SIZE : <<c, i>> \in transaction' \cup committed'
                      /\ writer'[c].at = "accepted" /\ writer'[c].same =>
                           \A i \in 1..BATCH_SIZE : <<c, i>> \in committed'
    BY DEF RowsAreHeld
  <2>1. CASE c = b
    BY <1>2, <2>1
  <2>2. CASE c # b
    BY <1>2, <2>2 DEF StoreInv, RowsAreHeld
  <2> QED BY <2>1, <2>2
<1> QED BY <1>3, <1>4 DEF StoreInv, Beginnings

LEMMA StoreKeeps == StoreInv /\ (StoreNext \/ UNCHANGED storeVars) => StoreInv'
<1> SUFFICES ASSUME StoreInv, StoreNext \/ UNCHANGED storeVars PROVE StoreInv'
  OBVIOUS
<1> USE StoreConstants
<1>0. StoreTyped /\ RowsAreHeld /\ Beginnings(committed) /\ Beginnings(transaction \cup committed)
  BY DEF StoreInv
<1>1. CASE UNCHANGED storeVars
  BY <1>1 DEF storeVars, StoreInv, StoreTyped, RowsAreHeld, Beginnings, WriterTyped, Row
<1>2. CASE OpenStore
  <2>1. /\ connection = 0 /\ connects' = connects + 1 /\ connection' = connects + 1 /\ connects < MaxConnects
        /\ UNCHANGED <<transaction, committed, writer>>
    BY <1>2 DEF OpenStore
  <2>2. StoreTyped'
    BY <1>0, <2>1 DEF StoreTyped, WriterTyped, Row
  <2>3. \A b \in Batches : writer[b].at \in {"insert", "commit"} => writer[b].on # connection'
    <3> SUFFICES ASSUME NEW b \in Batches, writer[b].at \in {"insert", "commit"} PROVE writer[b].on # connection'
      OBVIOUS
    <3>1. writer[b].on <= connects /\ writer[b].on \in 1..MaxConnects
      BY <1>0, WriterFields DEF StoreTyped
    <3> QED BY <1>0, <2>1, <3>1 DEF StoreTyped
  <2>4. RowsAreHeld'
    BY <1>0, <2>1, <2>3 DEF RowsAreHeld
  <2> QED BY <1>0, <2>1, <2>2, <2>4 DEF StoreInv, Beginnings
<1>3. CASE CloseStore
  <2>1. connection' = 0 /\ transaction' = {} /\ UNCHANGED <<committed, writer, connects>>
    BY <1>3 DEF CloseStore
  <2>2. StoreTyped'
    BY <1>0, <2>1 DEF StoreTyped, WriterTyped, Row
  <2>3. \A b \in Batches : writer[b].at \in {"insert", "commit"} => writer[b].on # 0
    <3> SUFFICES ASSUME NEW b \in Batches, writer[b].at \in {"insert", "commit"} PROVE writer[b].on # 0
      OBVIOUS
    <3> QED BY <1>0, WriterFields DEF StoreTyped
  <2>4. RowsAreHeld'
    BY <1>0, <2>1, <2>3 DEF RowsAreHeld
  <2>5. transaction' \cup committed' = committed /\ committed' = committed
    BY <2>1
  <2> QED BY <1>0, <2>2, <2>4, <2>5 DEF StoreInv, Beginnings
<1>4. ASSUME NEW b \in Batches, NEW w, Moves(b, w), w \in [at : {"idle", "raised"}],
             UNCHANGED <<connection, connects, transaction, committed>>
      PROVE  StoreInv'
  <2>1. WriterTyped(w) /\ w.at \in {"idle", "raised"}
    BY <1>4 DEF WriterTyped
  <2>2. Beginnings(committed') /\ Beginnings(transaction' \cup committed')
    BY <1>0, <1>4 DEF Beginnings
  <2> QED BY <1>0, <1>4, <2>1, <2>2, WriterMoves DEF StoreTyped
<1>5. ASSUME NEW b \in Batches, WriteBegins(b) PROVE StoreInv'
  <2> DEFINE w == [at |-> "insert", on |-> connection, done |-> 0]
  <2>1. Moves(b, w) /\ connection # 0 /\ UNCHANGED <<connection, transaction, committed, connects>>
    BY <1>5 DEF WriteBegins
  <2>2. WriterTyped(w) /\ w.at = "insert" /\ w.on = connection /\ w.done = 0 /\ w.on <= connects
    BY <1>0, <2>1 DEF StoreTyped, WriterTyped
  <2> HIDE DEF w
  <2>3. Beginnings(committed') /\ Beginnings(transaction' \cup committed')
    BY <1>0, <2>1 DEF Beginnings
  <2>4. transaction' \subseteq Row /\ committed' \subseteq Row /\ \A i \in 1..w.done : FALSE
    BY <1>0, <2>1, <2>2 DEF StoreTyped
  <2> QED BY <2>1, <2>2, <2>3, <2>4, WriterMoves
<1>6. ASSUME NEW b \in Batches, InsertRow(b) PROVE StoreInv'
  <2> DEFINE n == writer[b].done + 1
  <2>1. writer[b].at = "insert" /\ UNCHANGED <<connection, committed, connects>>
    BY <1>6 DEF InsertRow
  <2>2. writer[b] \in [at : {"insert"}, on : 1..MaxConnects, done : 0..(BATCH_SIZE - 1)]
    BY <1>0, <2>1, WriterFields DEF StoreTyped
  <2>3. CASE writer[b].on # connection \/ <<b, n>> \in RefusedRows
    <3>1. Moves(b, [at |-> "raised"]) /\ UNCHANGED transaction
      BY <1>6, <2>3 DEF InsertRow
    <3> QED BY <1>4, <2>1, <3>1
  <2>4. CASE ~(writer[b].on # connection \/ <<b, n>> \in RefusedRows)
    <3> DEFINE w == IF n = BATCH_SIZE THEN [at |-> "commit", on |-> connection]
                    ELSE [writer[b] EXCEPT !.done = @ + 1]
    <3>1. transaction' = transaction \cup {<<b, n>>} /\ Moves(b, w)
      BY <1>6, <2>4 DEF InsertRow
    <3>2. n \in 1..BATCH_SIZE /\ \A i \in 1..n : i < n => <<b, i>> \in transaction \cup committed
      BY <1>0, <2>1, <2>2, <2>4 DEF RowsAreHeld
    <3>3. \A i \in 1..n : <<b, i>> \in transaction' \cup committed'
      BY <2>1, <3>1, <3>2
    <3>4. /\ WriterTyped(w) /\ w.at \in {"insert", "commit"} /\ w.on = connection
          /\ w.at = "insert" => w.done = n
          /\ w.at = "commit" => n = BATCH_SIZE
      <4>1. CASE n = BATCH_SIZE
        BY <2>2, <2>4, <4>1 DEF WriterTyped
      <4>2. CASE n # BATCH_SIZE
        <5>1. w = [writer[b] EXCEPT !.done = n] /\ n \in 0..(BATCH_SIZE - 1)
          BY <3>2, <4>2
        <5> QED BY <2>2, <2>4, <5>1 DEF WriterTyped
      <4> QED BY <4>1, <4>2
    <3>5. w.on <= connects
      BY <1>0, <2>1, <2>4, <3>4 DEF StoreTyped
    <3>6. transaction' \subseteq Row /\ committed' \subseteq Row
      BY <1>0, <2>1, <3>1, <3>2 DEF StoreTyped, Row
    <3>7. Beginnings(committed') /\ Beginnings(transaction' \cup committed')
      <4>1. Beginnings(committed')
        BY <1>0, <2>1 DEF Beginnings
      <4>2. ASSUME NEW c \in Batches, NEW i \in 1..BATCH_SIZE, <<c, i>> \in transaction' \cup committed'
            PROVE  <<c, i>> \notin RefusedRows /\ \A j \in 1..i : <<c, j>> \in transaction' \cup committed'
        <5>1. CASE <<c, i>> \in transaction \cup committed
          BY <1>0, <2>1, <3>1, <4>2, <5>1 DEF Beginnings
        <5>2. CASE <<c, i>> \notin transaction \cup committed
          <6>1. c = b /\ i = n
            BY <2>1, <3>1, <4>2, <5>2
          <6> QED BY <2>4, <3>3, <6>1
        <5> QED BY <5>1, <5>2
      <4> QED BY <4>1, <4>2 DEF Beginnings
    <3> HIDE DEF w, n
    <3> QED BY <1>0, <2>1, <3>1, <3>3, <3>4, <3>5, <3>6, <3>7, WriterMoves
  <2> QED BY <2>3, <2>4
<1>7. ASSUME NEW b \in Batches, Commit(b) PROVE StoreInv'
  <2>1. writer[b].at = "commit" /\ UNCHANGED <<connection, connects>>
    BY <1>7 DEF Commit
  <2>2. CASE connection = 0
    <3>1. Moves(b, [at |-> "raised"]) /\ UNCHANGED <<transaction, committed>>
      BY <1>7, <2>2 DEF Commit
    <3> QED BY <1>4, <2>1, <3>1
  <2>3. CASE connection # 0
    <3> DEFINE same == writer[b].on = connection
               w == [at |-> "accepted", same |-> same]
    <3>1. committed' = committed \cup transaction /\ transaction' = {} /\ Moves(b, w)
      BY <1>7, <2>3 DEF Commit
    <3>2. w \in [at : {"accepted"}, same : BOOLEAN] /\ w.at = "accepted" /\ (w.same => same)
      OBVIOUS
    <3>3. WriterTyped(w)
      BY <3>2 DEF WriterTyped
    <3>4. w.same => \A i \in 1..BATCH_SIZE : <<b, i>> \in committed'
      BY <1>0, <2>1, <3>1, <3>2 DEF RowsAreHeld
    <3> HIDE DEF w
    <3>5. committed' = transaction \cup committed /\ transaction' \cup committed' = transaction \cup committed
      BY <3>1
    <3>6. Beginnings(committed') /\ Beginnings(transaction' \cup committed')
      BY <1>0, <3>5 DEF Beginnings
    <3> QED BY <1>0, <2>1, <3>1, <3>2, <3>3, <3>4, <3>6, WriterMoves DEF StoreTyped
  <2> QED BY <2>2, <2>3
<1> QED BY <1>1, <1>2, <1>3, <1>5, <1>6, <1>7 DEF StoreNext

LEMMA StoreHolds == StoreInv => StoreTypeOK /\ StoredIsPrefix /\ AcceptedIsCommitted
<1> SUFFICES ASSUME StoreInv PROVE StoreTypeOK /\ StoredIsPrefix /\ AcceptedIsCommitted
  OBVIOUS
<1>1. StoreTypeOK
  BY StoreConstants, WriterFields DEF StoreInv, StoreTyped, StoreTypeOK, Row
<1>2. StoredIsPrefix
  BY StoreConstants DEF StoreInv, StoreTyped, Beginnings, StoredIsPrefix, Row
<1>3. AcceptedIsCommitted
  BY DEF StoreInv, RowsAreHeld, AcceptedIsCommitted
<1> QED BY <1>1, <1>2, <1>3

-----------------------------------------------------------------------------
ReadingInv == EdgeInv /\ NodeTypeOK /\ StoreInv

(* Offline readings survive as far as the buffer has room, newest first to *)
(* stay, and what the store accepted is in its file, whatever commits of   *)
(* other calls, refused rows and reconnections come in between.            *)
THEOREM ReadingsKept == Spec => []ReadingsAreKept
<1>1. Init => ReadingInv
  BY EdgeStart, NodeStart, StoreStart DEF Init, ReadingInv
<1>2. ReadingInv /\ [Next]_vars => ReadingInv'
  BY PartSteps, EdgeKeeps, NodeKeeps, StoreKeeps DEF ReadingInv
<1>3. ReadingInv => ReadingsAreKept
  BY EdgeHolds, StoreHolds DEF ReadingInv, ReadingsAreKept
<1> QED BY <1>1, <1>2, <1>3, PTL DEF Spec

-----------------------------------------------------------------------------
(* The alarm service.  An alarm's history and stamps are followed together *)
(* with its stage of the lifecycle: each transition is one stage further.  *)

LEMMA StageTable ==
  /\ Stage("normal") = 1 /\ Stage("acknowledged") = 2 /\ Stage("investigating") = 3
  /\ Stage("resolving") = 4 /\ Stage("resolved") = 5 /\ Stage("closed") = 6
  /\ Stage("archived") = 7 /\ Stage("purged") = 8
<1> USE DEF Stage, Lifecycle
<1>1. Stage("normal") = 1
  OBVIOUS
<1>2. Stage("acknowledged") = 2
  OBVIOUS
<1>3. Stage("investigating") = 3
  OBVIOUS
<1>4. Stage("resolving") = 4
  OBVIOUS
<1>5. Stage("resolved") = 5
  OBVIOUS
<1>6. Stage("closed") = 6
  OBVIOUS
<1>7. Stage("archived") = 7
  OBVIOUS
<1>8. Stage("purged") = 8
  OBVIOUS
<1> QED BY <1>1, <1>2, <1>3, <1>4, <1>5, <1>6, <1>7, <1>8

AlarmStates ==
  {"normal", "acknowledged", "investigating", "resolving", "resolved", "closed", "archived", "purged"}
StampedStates == AlarmStates \ {"normal", "resolved"}

LEMMA StageFacts ==
  /\ \A s \in AlarmStates : Stage(s) \in 1..8 /\ Lifecycle[Stage(s)] = s
  /\ \A s, t \in AlarmStates : Stage(s) = Stage(t) => s = t
BY StageTable DEF AlarmStates, Lifecycle

LEMMA TransitionFacts ==
  /\ DOMAIN TRANSITIONS = AlarmStates
  /\ \A s \in AlarmStates : \A t \in Allowed(s) : t \in AlarmStates /\ Stage(t) = Stage(s) + 1
<1>1. DOMAIN TRANSITIONS = AlarmStates
  BY DEF TRANSITIONS, AlarmStates
<1>2. ASSUME NEW s \in AlarmStates, NEW t \in Allowed(s) PROVE t \in AlarmStates /\ Stage(t) = Stage(s) + 1
  BY <1>2, StageTable DEF Allowed, TRANSITIONS, AlarmStates
<1> QED BY <1>1, <1>2

StampNames == {StampOf[t] : t \in DOMAIN StampOf}

LEMMA StampFacts ==
  /\ DOMAIN StampOf = StampedStates
  /\ \A s, t \in StampedStates : StampOf[s] = StampOf[t] => s = t
  /\ \A s \in StampedStates : StampOf[s] \in StampNames
<1>1. DOMAIN StampOf = StampedStates
  BY DEF StampOf, StampedStates, AlarmStates
<1>2. \A s, t \in StampedStates : StampOf[s] = StampOf[t] => s = t
  BY DEF StampOf, StampedStates, AlarmStates
<1> QED BY <1>1, <1>2 DEF StampNames

HistoryEntry ==
  [type : {"transition"}, from : AlarmStates, to : AlarmStates]
    \cup [type : {"escalation"}, level : Nat] \cup [type : {"notification"}]

CountedOn(g, h, e, t) ==
  /\ \A n \in 0..Len(h) : Count(g, t, n) = Count(h, t, n)
  /\ e.type = t => Count(g, t, Len(h) + 1) = Count(h, t, Len(h)) + 1
  /\ e.type # t => Count(g, t, Len(h) + 1) = Count(h, t, Len(h))

LEMMA CountGrows ==
  ASSUME NEW h \in Seq(HistoryEntry), NEW e \in HistoryEntry, NEW t
  PROVE  Count(h, t, Len(h)) \in Nat /\ CountedOn(Append(h, e), h, e, t)
<1> DEFINE g == Append(h, e)
           NotedAt(s, n) == {i \in 1..n : s[i].type = t}
<1>1. /\ g \in Seq(HistoryEntry) /\ Len(g) = Len(h) + 1 /\ Len(h) \in Nat
      /\ g[Len(h) + 1] = e /\ \A i \in 1..Len(h) : g[i] = h[i]
  OBVIOUS
<1> HIDE DEF g
<1>2. IsFiniteSet(1..Len(h)) /\ NotedAt(h, Len(h)) \in SUBSET (1..Len(h))
  BY <1>1, FS_Interval
<1>3. IsFiniteSet(NotedAt(h, Len(h))) /\ Cardinality(NotedAt(h, Len(h))) \in Nat
  BY <1>2, FS_Subset, FS_CardinalityType
<1>4. \A n \in 0..Len(h) : NotedAt(g, n) = NotedAt(h, n)
  BY <1>1
<1>5. CASE e.type = t
  <2>1. NotedAt(g, Len(h) + 1) = NotedAt(h, Len(h)) \cup {Len(h) + 1} /\ Len(h) + 1 \notin NotedAt(h, Len(h))
    BY <1>1, <1>5
  <2>2. Cardinality(NotedAt(g, Len(h) + 1)) = Cardinality(NotedAt(h, Len(h))) + 1
    BY <1>3, <2>1, FS_AddElement
  <2> QED BY <1>1, <1>3, <1>4, <1>5, <2>2 DEF Count, CountedOn, g
<1>6. CASE e.type # t
  <2>1. NotedAt(g, Len(h) + 1) = NotedAt(h, Len(h))
    BY <1>1, <1>6
  <2> QED BY <1>1, <1>3, <1>4, <1>6, <2>1 DEF Count, CountedOn, g
<1> QED BY <1>5, <1>6

(* A history that replays to a stage of the lifecycle and a level. *)
EntryReplays(h, i) ==
  /\ h[i].type = "transition" =>
       /\ h[i].from = Lifecycle[Count(h, "transition", i)]
       /\ h[i].to = Lifecycle[Count(h, "transition", i) + 1]
  /\ h[i].type = "escalation" => h[i].level = Count(h, "escalation", i)

Replays(h, stage, level) ==
  /\ Count(h, "transition", Len(h)) = stage - 1
  /\ Count(h, "escalation", Len(h)) = level
  /\ \A i \in 1..Len(h) : EntryReplays(h, i)

LEMMA ReplayGoesOn ==
  ASSUME NEW h \in Seq(HistoryEntry), NEW e \in HistoryEntry, NEW stage \in Nat, NEW level \in Nat,
         Replays(h, stage, level),
         e.type = "transition" => e.from = Lifecycle[stage] /\ e.to = Lifecycle[stage + 1],
         e.type = "escalation" => e.level = level + 1
  PROVE  Replays(Append(h, e), IF e.type = "transition" THEN stage + 1 ELSE stage,
                               IF e.type = "escalation" THEN level + 1 ELSE level)
<1> DEFINE g == Append(h, e)
           C(s, t, n) == Count(s, t, n)
<1>1. /\ Len(g) = Len(h) + 1 /\ Len(h) \in Nat /\ g[Len(h) + 1] = e
      /\ \A i \in 1..Len(h) : g[i] = h[i]
  OBVIOUS
<1>2. /\ \A n \in 0..Len(h) : C(g, "transition", n) = C(h, "transition", n)
      /\ e.type = "transition" => C(g, "transition", Len(h) + 1) = C(h, "transition", Len(h)) + 1
      /\ e.type # "transition" => C(g, "transition", Len(h) + 1) = C(h, "transition", Len(h))
  <2>1. CountedOn(g, h, e, "transition")
    BY CountGrows
  <2> QED BY <2>1 DEF CountedOn
<1>3. /\ \A n \in 0..Len(h) : C(g, "escalation", n) = C(h, "escalation", n)
      /\ e.type = "escalation" => C(g, "escalation", Len(h) + 1) = C(h, "escalation", Len(h)) + 1
      /\ e.type # "escalation" => C(g, "escalation", Len(h) + 1) = C(h, "escalation", Len(h))
  <2>1. CountedOn(g, h, e, "escalation")
    BY CountGrows
  <2> QED BY <2>1 DEF CountedOn
<1>4. C(h, "transition", Len(h)) = stage - 1 /\ C(h, "escalation", Len(h)) = level
  BY DEF Replays
<1> HIDE DEF g, C
<1>5. ASSUME NEW i \in 1..Len(h) PROVE EntryReplays(g, i)
  <2>1. EntryReplays(h, i)
    BY DEF Replays
  <2>2. g[i] = h[i] /\ C(g, "transition", i) = C(h, "transition", i)
        /\ C(g, "escalation", i) = C(h, "escalation", i)
    BY <1>1, <1>2, <1>3
  <2> QED BY <2>1, <2>2 DEF EntryReplays, C
<1>6. EntryReplays(g, Len(h) + 1)
  <2>1. g[Len(h) + 1] = e
    BY <1>1
  <2>2. e.type = "transition" => C(g, "transition", Len(h) + 1) = stage
    BY <1>2, <1>4
  <2>3. e.type = "escalation" => C(g, "escalation", Len(h) + 1) = level + 1
    BY <1>3, <1>4
  <2> QED BY <2>1, <2>2, <2>3 DEF EntryReplays, C
<1>7. \A i \in 1..Len(g) : EntryReplays(g, i)
  BY <1>1, <1>5, <1>6
<1>8. C(g, "transition", Len(g)) = (IF e.type = "transition" THEN stage + 1 ELSE stage) - 1
  BY <1>1, <1>2, <1>4
<1>9. C(g, "escalation", Len(g)) = IF e.type = "escalation" THEN level + 1 ELSE level
  BY <1>1, <1>3, <1>4
<1> QED BY <1>7, <1>8, <1>9 DEF Replays, C, g

AlarmTyped(alarm, now) ==
  /\ DOMAIN alarm = {"state", "triggered_at", "level", "workflow", "stamps", "notification_history"}
  /\ alarm.state \in AlarmStates /\ alarm.level \in Nat /\ alarm.triggered_at \in 0..now
  /\ alarm.workflow \in WorkflowIds \cup {"none"}
  /\ alarm.notification_history \in Seq(HistoryEntry)
  /\ DOMAIN alarm.stamps = StampNames
  /\ \A s \in StampedStates : alarm.stamps[StampOf[s]] \in 0..now \cup {Unstamped}

StampedBy(alarm) ==
  \A s, t \in StampedStates :
    /\ alarm.stamps[StampOf[s]] # Unstamped <=> Stage(s) <= Stage(alarm.state)
    /\ Stage(s) < Stage(t) => alarm.stamps[StampOf[s]] <= alarm.stamps[StampOf[t]]
    /\ alarm.triggered_at <= alarm.stamps[StampOf[s]]

AlarmKept(alarm, now) ==
  /\ AlarmTyped(alarm, now) /\ StampedBy(alarm)
  /\ Replays(alarm.notification_history, Stage(alarm.state), alarm.level)

AlarmInv ==
  /\ instant \in 0..MaxInstant
  /\ alarms = [a \in Alarms |-> alarms[a]]
  /\ \A a \in Alarms : alarms[a] = NoAlarm \/ AlarmKept(alarms[a], instant)

LEMMA AlarmStart == AlarmInit => AlarmInv
BY AlarmConstants DEF AlarmInit, AlarmInv

(* A call changes one alarm only. *)
LEMMA AlarmChange ==
  ASSUME AlarmInv, NEW a \in Alarms, NEW alarm, alarm = NoAlarm \/ AlarmKept(alarm, instant),
         alarms' = [alarms EXCEPT ![a] = alarm], instant' = instant
  PROVE  AlarmInv'
<1>1. alarms' = [b \in Alarms |-> IF b = a THEN alarm ELSE alarms[b]]
  BY DEF AlarmInv
<1>2. alarms' = [b \in Alarms |-> alarms'[b]]
  BY <1>1
<1>3. ASSUME NEW b \in Alarms PROVE alarms'[b] = NoAlarm \/ AlarmKept(alarms'[b], instant)
  BY <1>1 DEF AlarmInv
<1>4. ASSUME NEW b \in Alarms PROVE AlarmKept(alarms'[b], instant) => AlarmKept(alarms'[b], instant')
  OBVIOUS
<1> QED BY <1>2, <1>3, <1>4 DEF AlarmInv

(* The stamp of an alarm that goes one stage further. *)
LEMMA StampGoesOn ==
  ASSUME instant \in 0..MaxInstant, NEW alarm, AlarmTyped(alarm, instant), StampedBy(alarm),
         NEW state \in AlarmStates, Stage(state) = Stage(alarm.state) + 1,
         NEW next, AlarmTyped(next, instant), next.state = state,
         next.triggered_at = alarm.triggered_at, next.stamps = Stamped(alarm, state).stamps
  PROVE  StampedBy(next)
<1> DEFINE at(s) == alarm.stamps[StampOf[s]]
           new(s) == next.stamps[StampOf[s]]
<1>1. ASSUME NEW s \in StampedStates PROVE new(s) = IF s = state THEN instant ELSE at(s)
  <2>1. CASE state \in StampedStates
    <3>1. next.stamps = [alarm.stamps EXCEPT ![StampOf[state]] = instant]
      BY <2>1, StampFacts DEF Stamped, AlarmTyped
    <3> QED BY <2>1, <3>1, StampFacts DEF AlarmTyped
  <2>2. CASE state \notin StampedStates
    BY <2>2, StampFacts DEF Stamped
  <2> QED BY <2>1, <2>2
<1>2. /\ \A s \in AlarmStates : Stage(s) \in Nat
      /\ \A s \in AlarmStates : Stage(s) = Stage(state) => s = state
      /\ alarm.state \in AlarmStates /\ StampedStates \subseteq AlarmStates
  <2>1. StampedStates \subseteq AlarmStates
    BY DEF StampedStates, AlarmStates
  <2>2. alarm.state \in AlarmStates
    BY DEF AlarmTyped
  <2> QED BY <2>1, <2>2, StageFacts
<1>3. \A s \in StampedStates : at(s) \in 0..instant \cup {Unstamped}
  BY DEF AlarmTyped
<1>4. instant < Unstamped /\ Unstamped \in Nat /\ instant \in Nat
  BY AlarmConstants DEF Unstamped
<1>5. \A s, t \in StampedStates :
        /\ at(s) # Unstamped <=> Stage(s) <= Stage(alarm.state)
        /\ Stage(s) < Stage(t) => at(s) <= at(t)
        /\ alarm.triggered_at <= at(s)
  BY DEF StampedBy
<1>6. alarm.triggered_at \in 0..instant
  BY DEF AlarmTyped
<1> HIDE DEF at, new
<1>7. ASSUME NEW s \in StampedStates, NEW t \in StampedStates
      PROVE  /\ new(s) # Unstamped <=> Stage(s) <= Stage(state)
             /\ Stage(s) < Stage(t) => new(s) <= new(t)
             /\ next.triggered_at <= new(s)
  <2>1. new(s) # Unstamped <=> Stage(s) <= Stage(state)
    BY <1>1, <1>2, <1>3, <1>4, <1>5
  <2>2. Stage(s) < Stage(t) => new(s) <= new(t)
    BY <1>1, <1>2, <1>3, <1>4, <1>5
  <2>3. next.triggered_at <= new(s)
    BY <1>1, <1>3, <1>4, <1>5, <1>6
  <2> QED BY <2>1, <2>2, <2>3
<1> QED BY <1>7 DEF StampedBy, new

LEMMA CreatedIsKept == ASSUME AlarmInv, NEW a \in Alarms, CreateAlarm(a) PROVE AlarmInv'
<1> DEFINE new == [state |-> "normal", triggered_at |-> instant, level |-> 0, workflow |-> "none",
                   stamps |-> [s \in StampNames |-> Unstamped], notification_history |-> <<>>]
<1>1. alarms' = [alarms EXCEPT ![a] = new] /\ instant' = instant
  BY DEF CreateAlarm, StampNames
<1>2. instant \in 0..MaxInstant /\ Unstamped \in Nat /\ instant < Unstamped /\ instant \in Nat
  BY AlarmConstants DEF AlarmInv, Unstamped
<1>3. \A s \in StampedStates : new.stamps[StampOf[s]] = Unstamped
  BY StampFacts
<1>4. AlarmTyped(new, instant)
  BY <1>2, <1>3 DEF AlarmTyped, AlarmStates
<1>5. StampedBy(new)
  <2>1. \A s \in StampedStates : Stage(s) > 1 /\ Stage(s) \in Nat
    BY StageTable DEF StampedStates, AlarmStates
  <2>2. Stage(new.state) = 1 /\ new.triggered_at = instant
    BY StageTable
  <2> HIDE DEF new
  <2> QED BY <1>2, <1>3, <2>1, <2>2 DEF StampedBy
<1>6. Replays(new.notification_history, Stage(new.state), new.level)
  <2>1. \A t : {i \in 1..0 : new.notification_history[i].type = t} = {}
    OBVIOUS
  <2>2. \A t : Count(new.notification_history, t, 0) = 0
    BY <2>1, FS_EmptySet DEF Count
  <2> QED BY <2>2, StageTable DEF Replays
<1> HIDE DEF new
<1> QED BY <1>1, <1>4, <1>5, <1>6, AlarmChange DEF AlarmKept

LEMMA TransitionIsKept ==
  ASSUME AlarmInv, NEW a \in Alarms, NEW state \in DOMAIN TRANSITIONS, TransitionAlarm(a, state)
  PROVE  AlarmInv'
<1> DEFINE old == alarms[a]
           e == [type |-> "transition", from |-> old.state, to |-> state]
           new == [Stamped(old, state) EXCEPT !.state = state,
                     !.notification_history = Append(@, e)]
<1>1. alarms' = [alarms EXCEPT ![a] = new] /\ instant' = instant
  BY DEF TransitionAlarm, AlarmInv
<1>2. AlarmKept(old, instant) /\ instant \in 0..MaxInstant
  BY DEF TransitionAlarm, Exists, AlarmInv
<1>3. state \in AlarmStates /\ Stage(state) = Stage(old.state) + 1 /\ Stage(old.state) \in Nat
      /\ Lifecycle[Stage(old.state)] = old.state /\ Lifecycle[Stage(old.state) + 1] = state
      /\ old.state \in AlarmStates
  BY <1>2, TransitionFacts, StageFacts DEF TransitionAlarm, AlarmKept, AlarmTyped
<1>4. e \in HistoryEntry
  BY <1>3 DEF HistoryEntry
<1>5. AlarmTyped(old, instant)
  BY <1>2 DEF AlarmKept
<1> DEFINE mid == Stamped(old, state)
<1>6. /\ DOMAIN mid = DOMAIN old /\ mid.notification_history = old.notification_history
      /\ mid.level = old.level /\ mid.triggered_at = old.triggered_at /\ mid.workflow = old.workflow
      /\ DOMAIN mid.stamps = StampNames
      /\ \A s \in StampedStates : mid.stamps[StampOf[s]] \in {old.stamps[StampOf[s]], instant}
  <2>1. CASE state \in DOMAIN StampOf
    <3>1. mid = [old EXCEPT !.stamps = [old.stamps EXCEPT ![StampOf[state]] = instant]]
      BY <2>1 DEF Stamped
    <3>2. \A s \in StampedStates : StampOf[s] \in StampNames
      BY StampFacts
    <3> HIDE DEF mid, old
    <3> QED BY <1>5, <3>1, <3>2 DEF AlarmTyped
  <2>2. CASE state \notin DOMAIN StampOf
    BY <1>5, <2>2 DEF Stamped, AlarmTyped
  <2> QED BY <2>1, <2>2
<1>7. /\ DOMAIN new = DOMAIN old /\ new.notification_history = Append(old.notification_history, e)
      /\ new.level = old.level /\ new.triggered_at = old.triggered_at /\ new.workflow = old.workflow
      /\ new.stamps = mid.stamps /\ new.state = state
  <2>1. new = [mid EXCEPT !.state = state, !.notification_history = Append(mid.notification_history, e)]
    OBVIOUS
  <2> HIDE DEF mid, old, e, new
  <2> QED BY <1>5, <1>6, <2>1 DEF AlarmTyped
<1> HIDE DEF new, old, e, mid
<1>8. AlarmTyped(new, instant)
  <2>1. new.notification_history \in Seq(HistoryEntry)
    BY <1>4, <1>5, <1>7 DEF AlarmTyped
  <2>2. \A s \in StampedStates : new.stamps[StampOf[s]] \in 0..instant \cup {Unstamped}
    BY <1>2, <1>5, <1>6, <1>7, AlarmConstants DEF AlarmTyped
  <2> QED BY <1>3, <1>5, <1>6, <1>7, <2>1, <2>2 DEF AlarmTyped
<1>9. StampedBy(new)
  BY <1>2, <1>3, <1>5, <1>7, <1>8, StampGoesOn DEF AlarmKept, mid
<1>10. Replays(new.notification_history, Stage(new.state), new.level)
  <2> DEFINE h == old.notification_history
             level == old.level
             stage == Stage(old.state)
  <2>1. h \in Seq(HistoryEntry) /\ stage \in Nat /\ level \in Nat /\ Replays(h, stage, level)
    BY <1>2, <1>3, <1>5 DEF AlarmTyped, AlarmKept
  <2>2. e.type = "transition" /\ e.from = Lifecycle[stage] /\ e.to = Lifecycle[stage + 1]
    BY <1>3 DEF e
  <2> HIDE DEF h, level, stage
  <2>3. Replays(Append(h, e), stage + 1, level)
    BY <1>4, <2>1, <2>2, ReplayGoesOn
  <2> QED BY <1>3, <1>7, <2>3 DEF h, level, stage
<1> QED BY <1>1, <1>8, <1>9, <1>10, AlarmChange DEF AlarmKept

(* An escalation or a notification adds an entry and leaves the stage. *)
LEMMA MessageIsKept ==
  ASSUME AlarmInv, NEW a \in Alarms, Escalate(a) \/ Notify(a)
  PROVE  AlarmInv'
<1> DEFINE old == alarms[a]
<1>1. AlarmKept(old, instant) /\ AlarmTyped(old, instant) /\ StampedBy(old)
  BY DEF Escalate, Notify, Exists, AlarmInv, AlarmKept
<1>2. PICK e, new :
        /\ e \in HistoryEntry
        /\ alarms' = [alarms EXCEPT ![a] = new] /\ instant' = instant
        /\ new = [old EXCEPT !.level = IF e.type = "escalation" THEN old.level + 1 ELSE old.level,
                             !.notification_history = Append(old.notification_history, e)]
        /\ e.type # "transition" /\ (e.type = "escalation" => e.level = old.level + 1)
  <2>1. CASE Escalate(a)
    <3> DEFINE e == [type |-> "escalation", level |-> old.level + 1]
    <3>1. e \in HistoryEntry /\ e.type = "escalation" /\ e.level = old.level + 1
      BY <1>1 DEF HistoryEntry, AlarmTyped
    <3>2. alarms' = [alarms EXCEPT ![a] = [old EXCEPT !.level = old.level + 1,
                       !.notification_history = Append(old.notification_history, e)]]
      BY <1>1, <2>1 DEF Escalate, AlarmTyped, AlarmInv
    <3>3. instant' = instant
      BY <2>1 DEF Escalate
    <3> HIDE DEF e
    <3> QED BY <3>1, <3>2, <3>3
  <2>2. CASE Notify(a)
    <3> DEFINE e == [type |-> "notification"]
    <3>1. e \in HistoryEntry /\ e.type = "notification"
      BY DEF HistoryEntry
    <3>2. alarms' = [alarms EXCEPT ![a] = [old EXCEPT !.level = old.level,
                       !.notification_history = Append(old.notification_history, e)]]
      BY <1>1, <2>2 DEF Notify, AlarmTyped, AlarmInv
    <3>3. instant' = instant
      BY <2>2 DEF Notify
    <3> HIDE DEF e
    <3> QED BY <3>1, <3>2, <3>3
  <2> QED BY <2>1, <2>2
<1> HIDE DEF old
<1> DEFINE h == old.notification_history
           level == old.level
           stage == Stage(old.state)
<1>3. h \in Seq(HistoryEntry) /\ stage \in Nat /\ level \in Nat /\ Replays(h, stage, level)
  BY <1>1, StageFacts DEF AlarmTyped, AlarmKept
<1>4. /\ DOMAIN new = DOMAIN old /\ new.notification_history = Append(h, e)
      /\ new.triggered_at = old.triggered_at /\ new.workflow = old.workflow
      /\ new.stamps = old.stamps /\ new.state = old.state
      /\ new.level = IF e.type = "escalation" THEN level + 1 ELSE level
  BY <1>1, <1>2 DEF AlarmTyped
<1>5. AlarmTyped(new, instant)
  <2>1. Append(h, e) \in Seq(HistoryEntry)
    BY <1>2, <1>3
  <2>2. new.level \in Nat
    BY <1>3, <1>4
  <2> HIDE DEF h
  <2> QED BY <1>1, <1>4, <2>1, <2>2 DEF AlarmTyped
<1>6. StampedBy(new)
  BY <1>1, <1>4 DEF StampedBy
<1>7. Replays(new.notification_history, Stage(new.state), new.level)
  <2> HIDE DEF h, level, stage
  <2>1. Replays(Append(h, e), stage, IF e.type = "escalation" THEN level + 1 ELSE level)
    BY <1>2, <1>3, ReplayGoesOn DEF level
  <2> QED BY <1>4, <2>1 DEF stage
<1> QED BY <1>2, <1>5, <1>6, <1>7, AlarmChange DEF AlarmKept

LEMMA AlarmKeeps == AlarmInv /\ (AlarmNext \/ UNCHANGED alarmVars) => AlarmInv'
<1> SUFFICES ASSUME AlarmInv, AlarmNext \/ UNCHANGED alarmVars PROVE AlarmInv'
  OBVIOUS
<1>1. CASE UNCHANGED alarmVars
  BY <1>1 DEF AlarmInv, alarmVars, AlarmKept, AlarmTyped, StampedBy
<1>2. ASSUME NEW a \in Alarms, NEW w \in WorkflowIds, LinkWorkflow(a, w) PROVE AlarmInv'
  <2> DEFINE old == alarms[a]
             new == [old EXCEPT !.workflow = w]
  <2>1. alarms' = [alarms EXCEPT ![a] = new] /\ instant' = instant /\ AlarmKept(old, instant)
    BY <1>2 DEF LinkWorkflow, Exists, AlarmInv
  <2>2. /\ DOMAIN new = DOMAIN old /\ new.notification_history = old.notification_history
        /\ new.triggered_at = old.triggered_at /\ new.workflow = w
        /\ new.stamps = old.stamps /\ new.state = old.state /\ new.level = old.level
    <3> HIDE DEF old
    <3> QED BY <2>1 DEF AlarmTyped, AlarmKept
  <2> HIDE DEF new, old
  <2>3. AlarmKept(new, instant)
    BY <2>1, <2>2 DEF AlarmKept, AlarmTyped, StampedBy
  <2> QED BY <2>1, <2>3, AlarmChange
<1>3. ASSUME NEW a \in Alarms, DeleteAlarm(a) PROVE AlarmInv'
  BY <1>3, AlarmChange DEF DeleteAlarm
<1>4. CASE InstantPasses
  <2>1. instant' \in 0..MaxInstant /\ instant' = instant + 1 /\ alarms' = alarms /\ instant \in Nat
    BY <1>4, AlarmConstants DEF InstantPasses, AlarmInv
  <2>2. ASSUME NEW a \in Alarms, AlarmKept(alarms[a], instant) PROVE AlarmKept(alarms[a], instant')
    BY <2>1, <2>2 DEF AlarmKept, AlarmTyped
  <2>3. ASSUME NEW a \in Alarms PROVE AlarmKept(alarms[a], instant') <=> AlarmKept(alarms'[a], instant')
    BY <2>1
  <2> QED BY <2>1, <2>2, <2>3 DEF AlarmInv
<1> QED BY <1>1, <1>2, <1>3, <1>4, CreatedIsKept, TransitionIsKept, MessageIsKept DEF AlarmNext

LEMMA AlarmHolds == AlarmInv => AlarmTypeOK /\ HistoryReplaysState /\ StampsFollowLifecycle
<1> SUFFICES ASSUME AlarmInv PROVE AlarmTypeOK /\ HistoryReplaysState /\ StampsFollowLifecycle
  OBVIOUS
<1>1. \A a \in Alarms : Exists(a) => AlarmKept(alarms[a], instant)
  BY DEF AlarmInv, Exists
<1>2. AlarmTypeOK
  <2>1. ASSUME NEW a \in Alarms, Exists(a), NEW s \in DOMAIN alarms[a].stamps
        PROVE  alarms[a].stamps[s] \in 0..Unstamped
    <3>1. AlarmTyped(alarms[a], instant)
      BY <1>1, <2>1 DEF AlarmKept
    <3>2. PICK t \in StampedStates : s = StampOf[t]
      BY <2>1, <3>1, StampFacts DEF AlarmTyped, StampNames
    <3>3. alarms[a].stamps[s] \in 0..instant \cup {Unstamped}
      BY <3>1, <3>2 DEF AlarmTyped
    <3> QED BY <3>3, AlarmConstants DEF AlarmInv, Unstamped
  <2> QED BY <1>1, <2>1, TransitionFacts DEF AlarmTypeOK, AlarmKept, AlarmTyped, AlarmInv
<1>3. HistoryReplaysState
  <2> SUFFICES ASSUME NEW a \in Alarms, Exists(a)
               PROVE  LET history == alarms[a].notification_history
                      IN  /\ Count(history, "transition", Len(history)) = Stage(alarms[a].state) - 1
                          /\ Count(history, "escalation", Len(history)) = alarms[a].level
                          /\ \A i \in DOMAIN history : EntryReplays(history, i)
    BY DEF HistoryReplaysState, EntryReplays
  <2>1. DOMAIN alarms[a].notification_history = 1..Len(alarms[a].notification_history)
    BY <1>1 DEF AlarmKept, AlarmTyped
  <2> QED BY <1>1, <2>1 DEF AlarmKept, Replays
<1>4. StampsFollowLifecycle
  <2> SUFFICES ASSUME NEW a \in Alarms, Exists(a), NEW s \in DOMAIN StampOf, NEW t \in DOMAIN StampOf
               PROVE  LET at(state) == alarms[a].stamps[StampOf[state]]
                      IN  /\ (at(s) # Unstamped) = (Stage(s) <= Stage(alarms[a].state))
                          /\ Stage(s) < Stage(t) => at(s) <= at(t)
                          /\ alarms[a].triggered_at <= at(s)
    BY DEF StampsFollowLifecycle
  <2>1. StampedBy(alarms[a]) /\ s \in StampedStates /\ t \in StampedStates
    BY <1>1, StampFacts DEF AlarmKept
  <2> QED BY <2>1 DEF StampedBy
<1> QED BY <1>2, <1>3, <1>4

-----------------------------------------------------------------------------
(* Work orders.  An order at the n-th status has the first n steps in its  *)
(* trail, stamped in order and not later than now.                         *)

TrailEntry == [action : {"created", "assigned", "started", "completed", "closed"}, at : Nat]

OrderTyped(order) ==
  /\ DOMAIN order = {"status", "assigned_to", "sla_deadline", "sla_compliance", "audit_trail"}
  /\ order.assigned_to \in Technicians \cup {"none"}
  /\ order.sla_deadline \in Deadlines \cup {NoDeadline}
  /\ order.sla_compliance \in {"unknown", "compliant", "breached"}
  /\ order.audit_trail \in Seq(TrailEntry)

TrailUpTo(order, n, now) ==
  /\ Len(order.audit_trail) = n /\ order.status = Statuses[n]
  /\ \A i \in 1..n : order.audit_trail[i].action = Steps[i] /\ order.audit_trail[i].at <= now
  /\ \A i, j \in 1..n : i < j => order.audit_trail[i].at <= order.audit_trail[j].at
  /\ order.sla_compliance # "unknown" <=> n = 5
  /\ order.assigned_to # "none" <=> n > 1

OrderKept(order, now) == OrderTyped(order) /\ \E n \in 1..5 : TrailUpTo(order, n, now)

OrderInv ==
  /\ day \in 0..MaxDay
  /\ orders = [o \in Orders |-> orders[o]]
  /\ \A o \in Orders : orders[o] = NoOrder \/ OrderKept(orders[o], day)

LEMMA OrderStart == OrderInit => OrderInv
BY OrderConstants DEF OrderInit, OrderInv

LEMMA OrderChange ==
  ASSUME OrderInv, NEW o \in Orders, NEW order, order = NoOrder \/ OrderKept(order, day),
         orders' = [orders EXCEPT ![o] = order], day' = day
  PROVE  OrderInv'
<1>1. orders' = [p \in Orders |-> IF p = o THEN order ELSE orders[p]]
  BY DEF OrderInv
<1>2. orders' = [p \in Orders |-> orders'[p]]
  BY <1>1
<1>3. ASSUME NEW p \in Orders PROVE orders'[p] = NoOrder \/ OrderKept(orders'[p], day)
  BY <1>1 DEF OrderInv
<1>4. ASSUME NEW p \in Orders PROVE OrderKept(orders'[p], day) => OrderKept(orders'[p], day')
  OBVIOUS
<1> QED BY <1>2, <1>3, <1>4 DEF OrderInv

(* A step of an order that is at its n-th status. *)
LEMMA TrailGoesOn ==
  ASSUME NEW old, OrderTyped(old), NEW n \in 1..4, TrailUpTo(old, n, day), day \in 0..MaxDay,
         NEW new, OrderTyped(new), new.status = Statuses[n + 1],
         new.audit_trail = Append(old.audit_trail, [action |-> Steps[n + 1], at |-> day]),
         new.sla_compliance # "unknown" <=> n = 4, new.assigned_to # "none"
  PROVE  TrailUpTo(new, n + 1, day)
<1> DEFINE h == old.audit_trail
           g == new.audit_trail
<1>1. h \in Seq(TrailEntry) /\ Len(h) = n /\ day \in Nat
  BY OrderConstants DEF OrderTyped, TrailUpTo
<1>2. /\ Len(g) = n + 1 /\ g[n + 1] = [action |-> Steps[n + 1], at |-> day]
      /\ \A i \in 1..n : g[i] = h[i]
  BY <1>1
<1>3. \A i \in 1..n : h[i].action = Steps[i] /\ h[i].at <= day
  BY DEF TrailUpTo
<1>4. \A i, j \in 1..n : i < j => h[i].at <= h[j].at
  BY DEF TrailUpTo
<1> HIDE DEF h, g
<1>5. \A i \in 1..(n + 1) : g[i].action = Steps[i] /\ g[i].at <= day
  BY <1>1, <1>2, <1>3
<1>6. ASSUME NEW i \in 1..(n + 1), NEW j \in 1..(n + 1), i < j PROVE g[i].at <= g[j].at
  <2>1. CASE j = n + 1
    <3>1. i \in 1..n /\ g[j].at = day
      BY <1>2, <1>6, <2>1
    <3> QED BY <1>2, <1>3, <3>1
  <2>2. CASE j # n + 1
    <3>1. i \in 1..n /\ j \in 1..n
      BY <1>6, <2>2
    <3> QED BY <1>2, <1>4, <1>6, <3>1
  <2> QED BY <2>1, <2>2
<1>7. (new.sla_compliance # "unknown" <=> n + 1 = 5) /\ (new.assigned_to # "none" <=> n + 1 > 1)
  OBVIOUS
<1> QED BY <1>2, <1>5, <1>6, <1>7 DEF TrailUpTo, g

(* What is known of an order by its status. *)
LEMMA OrderAt ==
  ASSUME OrderInv, NEW o \in Orders
  PROVE  /\ orders[o].status = "draft" =>
              OrderTyped(orders[o]) /\ TrailUpTo(orders[o], 1, day)
         /\ orders[o].status = "assigned" =>
              OrderTyped(orders[o]) /\ TrailUpTo(orders[o], 2, day)
         /\ orders[o].status = "in_progress" =>
              OrderTyped(orders[o]) /\ TrailUpTo(orders[o], 3, day)
         /\ orders[o].status = "pending_review" =>
              OrderTyped(orders[o]) /\ TrailUpTo(orders[o], 4, day)
<1>1. CASE orders[o] = NoOrder
  BY <1>1 DEF NoOrder
<1>2. CASE orders[o] # NoOrder
  <2>1. OrderTyped(orders[o])
    BY <1>2 DEF OrderInv, OrderKept
  <2>2. PICK n \in 1..5 : TrailUpTo(orders[o], n, day)
    BY <1>2 DEF OrderInv, OrderKept
  <2>3. orders[o].status = Statuses[n]
    BY <2>2 DEF TrailUpTo
  <2>4. /\ orders[o].status = "draft" => n = 1
        /\ orders[o].status = "assigned" => n = 2
        /\ orders[o].status = "in_progress" => n = 3
        /\ orders[o].status = "pending_review" => n = 4
    BY <2>3 DEF Statuses
  <2> QED BY <2>1, <2>2, <2>4
<1> QED BY <1>1, <1>2

LEMMA MoveIsKept ==
  ASSUME OrderInv, NEW o \in Orders, NEW n \in 2..3, Move(o, Statuses[n], Statuses[n + 1], Steps[n + 1])
  PROVE  OrderInv'
<1> DEFINE old == orders[o]
           new == [old EXCEPT !.status = Statuses[n + 1],
                     !.audit_trail = Append(old.audit_trail, [action |-> Steps[n + 1], at |-> day])]
<1>1. OrderTyped(old) /\ TrailUpTo(old, n, day) /\ day \in 0..MaxDay /\ day \in Nat
  <2>1. n = 2 \/ n = 3
    OBVIOUS
  <2>2. old.status = Statuses[n]
    BY DEF Move
  <2>3. Statuses[2] = "assigned" /\ Statuses[3] = "in_progress"
    BY DEF Statuses
  <2> QED BY <2>1, <2>2, <2>3, OrderAt, OrderConstants DEF OrderInv
<1>2. orders' = [orders EXCEPT ![o] = new] /\ day' = day
  <2> HIDE DEF new
  <2>1. orders' = [orders EXCEPT ![o].status = Statuses[n + 1],
                                 ![o].audit_trail = Append(@, [action |-> Steps[n + 1], at |-> day])]
    BY DEF Move
  <2> QED BY <1>1, <2>1 DEF new, OrderInv, OrderTyped, Move
<1>3. [action |-> Steps[n + 1], at |-> day] \in TrailEntry
  BY <1>1 DEF TrailEntry, Steps
<1>4. /\ DOMAIN new = DOMAIN old /\ new.status = Statuses[n + 1] /\ new.assigned_to = old.assigned_to
      /\ new.sla_deadline = old.sla_deadline /\ new.sla_compliance = old.sla_compliance
      /\ new.audit_trail = Append(old.audit_trail, [action |-> Steps[n + 1], at |-> day])
  <2> HIDE DEF old
  <2> QED BY <1>1 DEF OrderTyped
<1> HIDE DEF new, old
<1>5. OrderTyped(new)
  <2>1. new.audit_trail \in Seq(TrailEntry)
    BY <1>1, <1>3, <1>4 DEF OrderTyped
  <2> QED BY <1>1, <1>4, <2>1 DEF OrderTyped
<1>6. new.assigned_to # "none" /\ (new.sla_compliance # "unknown" <=> n = 4) /\ n \in 1..4
  BY <1>1, <1>4 DEF TrailUpTo
<1>7. TrailUpTo(new, n + 1, day)
  BY <1>1, <1>4, <1>5, <1>6, TrailGoesOn
<1>8. OrderKept(new, day)
  BY <1>5, <1>7 DEF OrderKept
<1> QED BY <1>2, <1>8, OrderChange

LEMMA AssignIsKept ==
  ASSUME OrderInv, NEW o \in Orders, NEW t \in Technicians, Assign(o, t)
  PROVE  OrderInv'
<1> DEFINE old == orders[o]
           e == [action |-> "assigned", at |-> day]
           new == [old EXCEPT !.status = "assigned", !.assigned_to = t,
                              !.audit_trail = Append(old.audit_trail, e)]
<1>1. OrderTyped(old) /\ TrailUpTo(old, 1, day) /\ day \in 0..MaxDay /\ day \in Nat
  BY OrderAt, OrderConstants DEF OrderInv, Assign
<1>2. orders' = [orders EXCEPT ![o] = new] /\ day' = day
  <2> HIDE DEF new
  <2>1. orders' = [orders EXCEPT ![o].status = "assigned", ![o].assigned_to = t,
                                 ![o].audit_trail = Append(@, e)]
    BY DEF Assign
  <2> HIDE DEF e
  <2> QED BY <1>1, <2>1 DEF new, OrderInv, OrderTyped, Assign
<1>3. e \in TrailEntry
  BY <1>1 DEF TrailEntry
<1>4. /\ DOMAIN new = DOMAIN old /\ new.status = "assigned" /\ new.assigned_to = t
      /\ new.sla_deadline = old.sla_deadline /\ new.sla_compliance = old.sla_compliance
      /\ new.audit_trail = Append(old.audit_trail, e)
  <2> HIDE DEF old, e
  <2> QED BY <1>1 DEF OrderTyped
<1> HIDE DEF new, old
<1>5. OrderTyped(new)
  <2>1. new.audit_trail \in Seq(TrailEntry)
    BY <1>1, <1>3, <1>4 DEF OrderTyped
  <2> QED BY <1>1, <1>4, <2>1 DEF OrderTyped
<1>6. /\ new.assigned_to # "none" /\ (new.sla_compliance # "unknown" <=> 1 = 4)
      /\ new.status = Statuses[1 + 1]
      /\ new.audit_trail = Append(old.audit_trail, [action |-> Steps[1 + 1], at |-> day])
  BY <1>1, <1>4, OrderConstants DEF TrailUpTo, Statuses, Steps
<1>7. TrailUpTo(new, 1 + 1, day)
  BY <1>1, <1>5, <1>6, TrailGoesOn
<1>8. OrderKept(new, day)
  BY <1>5, <1>7 DEF OrderKept
<1> QED BY <1>2, <1>8, OrderChange

LEMMA CloseIsKept == ASSUME OrderInv, NEW o \in Orders, Close(o) PROVE OrderInv'
<1> DEFINE old == orders[o]
           e == [action |-> "closed", at |-> day]
           mid == [old EXCEPT !.status = "closed", !.audit_trail = Append(old.audit_trail, e)]
           ruling == IF IsSlaBreached(mid) THEN "breached" ELSE "compliant"
           new == [mid EXCEPT !.sla_compliance = ruling]
<1>1. OrderTyped(old) /\ TrailUpTo(old, 4, day) /\ day \in 0..MaxDay /\ day \in Nat
  BY OrderAt, OrderConstants DEF OrderInv, Close
<1>2. orders' = [orders EXCEPT ![o] = new] /\ day' = day
  BY DEF Close
<1>3. e \in TrailEntry
  BY <1>1 DEF TrailEntry
<1>4. /\ DOMAIN new = DOMAIN old /\ new.status = "closed" /\ new.assigned_to = old.assigned_to
      /\ new.sla_deadline = old.sla_deadline /\ new.sla_compliance = ruling
      /\ new.audit_trail = Append(old.audit_trail, e)
  <2> HIDE DEF old, e, ruling
  <2>1. /\ DOMAIN mid = DOMAIN old /\ mid.status = "closed" /\ mid.assigned_to = old.assigned_to
        /\ mid.sla_deadline = old.sla_deadline /\ mid.audit_trail = Append(old.audit_trail, e)
    BY <1>1 DEF OrderTyped
  <2> HIDE DEF mid
  <2> QED BY <1>1, <2>1 DEF OrderTyped
<1>5. ruling \in {"breached", "compliant"}
  OBVIOUS
<1> HIDE DEF new, old, ruling
<1>6. OrderTyped(new)
  <2>1. new.audit_trail \in Seq(TrailEntry)
    BY <1>1, <1>3, <1>4 DEF OrderTyped
  <2> QED BY <1>1, <1>4, <1>5, <2>1 DEF OrderTyped
<1>7. /\ new.assigned_to # "none" /\ (new.sla_compliance # "unknown" <=> 4 = 4)
      /\ new.status = Statuses[4 + 1]
      /\ new.audit_trail = Append(old.audit_trail, [action |-> Steps[4 + 1], at |-> day])
  BY <1>1, <1>4, <1>5 DEF TrailUpTo, Statuses, Steps
<1>8. TrailUpTo(new, 4 + 1, day)
  BY <1>1, <1>6, <1>7, TrailGoesOn
<1>9. OrderKept(new, day)
  BY <1>6, <1>8 DEF OrderKept
<1> QED BY <1>2, <1>9, OrderChange

LEMMA CreateOrderIsKept ==
  ASSUME OrderInv, NEW o \in Orders, NEW d \in Deadlines \cup {NoDeadline}, CreateOrder(o, d)
  PROVE  OrderInv'
<1> DEFINE trail == <<[action |-> "created", at |-> day]>>
           new == [status |-> "draft", assigned_to |-> "none", sla_deadline |-> d,
                   sla_compliance |-> "unknown", audit_trail |-> trail]
<1>1. orders' = [orders EXCEPT ![o] = new] /\ day' = day /\ day \in Nat
  BY OrderConstants DEF CreateOrder, OrderInv
<1>2. trail \in Seq(TrailEntry) /\ Len(trail) = 1 /\ trail[1].action = Steps[1] /\ trail[1].at = day
  BY <1>1 DEF TrailEntry, Steps
<1> HIDE DEF trail
<1>3. OrderTyped(new)
  BY <1>2 DEF OrderTyped
<1>4. TrailUpTo(new, 1, day)
  BY <1>1, <1>2 DEF TrailUpTo, Statuses
<1>5. OrderKept(new, day)
  BY <1>3, <1>4 DEF OrderKept
<1> HIDE DEF new
<1> QED BY <1>1, <1>5, OrderChange

LEMMA OrderKeeps == OrderInv /\ (OrderNext \/ UNCHANGED orderVars) => OrderInv'
<1> SUFFICES ASSUME OrderInv, OrderNext \/ UNCHANGED orderVars PROVE OrderInv'
  OBVIOUS
<1>1. CASE UNCHANGED orderVars
  <2>1. orders' = orders /\ day' = day
    BY <1>1 DEF orderVars
  <2> QED BY <2>1, Zenon DEF OrderInv
<1>2. ASSUME NEW o \in Orders, Start(o) \/ Complete(o) PROVE OrderInv'
  <2>1. CASE Start(o)
    <3>1. Move(o, Statuses[2], Statuses[2 + 1], Steps[2 + 1])
      BY <2>1 DEF Start, Statuses, Steps
    <3> QED BY <3>1, MoveIsKept
  <2>2. CASE Complete(o)
    <3>1. Move(o, Statuses[3], Statuses[3 + 1], Steps[3 + 1])
      BY <2>2 DEF Complete, Statuses, Steps
    <3> QED BY <3>1, MoveIsKept
  <2> QED BY <1>2, <2>1, <2>2
<1>3. ASSUME NEW o \in Orders, DeleteOrder(o) PROVE OrderInv'
  BY <1>3, OrderChange DEF DeleteOrder
<1>4. CASE DayPasses
  <2>1. day' \in 0..MaxDay /\ day' = day + 1 /\ orders' = orders /\ day \in Nat
    BY <1>4, OrderConstants DEF DayPasses, OrderInv
  <2>2. ASSUME NEW o \in Orders, OrderKept(orders[o], day) PROVE OrderKept(orders[o], day')
    <3>1. PICK n \in 1..5 : TrailUpTo(orders[o], n, day)
      BY <2>2 DEF OrderKept
    <3>2. \A i \in 1..n : orders[o].audit_trail[i].at \in Nat
      <4>1. orders[o].audit_trail \in Seq(TrailEntry) /\ Len(orders[o].audit_trail) = n
        BY <2>2, <3>1 DEF OrderKept, OrderTyped, TrailUpTo
      <4>2. \A i \in 1..n : orders[o].audit_trail[i] \in TrailEntry
        BY <4>1
      <4> QED BY <4>2 DEF TrailEntry
    <3>3. TrailUpTo(orders[o], n, day')
      BY <2>1, <3>1, <3>2 DEF TrailUpTo
    <3> QED BY <2>2, <3>3 DEF OrderKept
  <2>3. ASSUME NEW o \in Orders PROVE OrderKept(orders[o], day') <=> OrderKept(orders'[o], day')
    BY <2>1
  <2> QED BY <2>1, <2>2, <2>3 DEF OrderInv
<1> QED BY <1>1, <1>2, <1>3, <1>4, CreateOrderIsKept, AssignIsKept, CloseIsKept DEF OrderNext

LEMMA OrderHolds == OrderInv => OrderTypeOK /\ OrderTrailReplays
<1> SUFFICES ASSUME OrderInv PROVE OrderTypeOK /\ OrderTrailReplays
  OBVIOUS
<1>1. ASSUME NEW o \in Orders, Present(o)
      PROVE  OrderTyped(orders[o]) /\ \E n \in 1..5 : TrailUpTo(orders[o], n, day)
  BY <1>1 DEF OrderInv, OrderKept, Present
<1>2. OrderTypeOK
  <2>1. ASSUME NEW o \in Orders
        PROVE  orders[o].status \in {"none", "draft", "assigned", "in_progress", "pending_review", "closed"}
    <3>1. CASE Present(o)
      BY <1>1, <3>1 DEF TrailUpTo, Statuses
    <3>2. CASE ~Present(o)
      BY <3>2 DEF Present, NoOrder
    <3> QED BY <3>1, <3>2
  <2>2. ASSUME NEW o \in Orders, orders[o] # NoOrder
        PROVE  /\ orders[o].assigned_to \in Technicians \cup {"none"}
               /\ orders[o].sla_compliance \in {"unknown", "compliant", "breached"}
    BY <1>1, <2>2 DEF Present, OrderTyped
  <2> QED BY <2>1, <2>2 DEF OrderTypeOK, OrderInv
<1>3. OrderTrailReplays
  <2> SUFFICES ASSUME NEW o \in Orders, Present(o)
               PROVE  LET trail == orders[o].audit_trail
                      IN  /\ Len(trail) \in DOMAIN Statuses /\ Statuses[Len(trail)] = orders[o].status
                          /\ \A i \in DOMAIN trail : trail[i].action = Steps[i]
                          /\ \A i, j \in DOMAIN trail : i < j => trail[i].at <= trail[j].at
                          /\ (orders[o].sla_compliance # "unknown") = (Len(trail) = Len(Steps))
                          /\ (orders[o].assigned_to # "none") = (Len(trail) > 1)
    BY DEF OrderTrailReplays
  <2>1. PICK n \in 1..5 : TrailUpTo(orders[o], n, day)
    BY <1>1
  <2>2. DOMAIN orders[o].audit_trail = 1..n
    <3>1. orders[o].audit_trail \in Seq(TrailEntry)
      BY <1>1 DEF OrderTyped
    <3>2. Len(orders[o].audit_trail) = n
      BY <2>1 DEF TrailUpTo
    <3> QED BY <3>1, <3>2, LenProperties, Zenon
  <2>3. Len(Steps) = 5 /\ DOMAIN Statuses = 1..5
    BY DEF Steps, Statuses
  <2> QED BY <2>1, <2>2, <2>3 DEF TrailUpTo
<1> QED BY <1>2, <1>3

-----------------------------------------------------------------------------
(* BPMN-lite workflows.  A task that is not pending and an instance that   *)
(* is not running have ended, at a time that is past.                      *)

TaskTyped(task, now) ==
  /\ DOMAIN task = {"status", "completed_at"}
  /\ task.status \in {"pending", "completed", "failed"}
  /\ task.status # "pending" => task.completed_at \in 0..now

RunTyped(run, now) ==
  /\ DOMAIN run = {"status", "template", "completed_at", "task"}
  /\ run.status \in {"running", "completed", "failed", "cancelled"}
  /\ run.status # "running" => run.completed_at \in 0..now
  /\ \A n \in DOMAIN run.task : TaskTyped(run.task[n], now)

TasksBefore(run) ==
  run.status = "completed" =>
    \A n \in DOMAIN run.task :
      run.task[n].status = "completed" /\ run.task[n].completed_at <= run.completed_at

RunKept(run, now) == RunTyped(run, now) /\ TasksBefore(run)

BpmnInv ==
  /\ minute \in 0..MaxMinute
  /\ templates = [t \in Templates |-> templates[t]]
  /\ \A t \in Templates : templates[t].defined =>
        \A n \in DOMAIN templates[t].type : templates[t].next[n] \subseteq Nodes
  /\ instances = [r \in Runs |-> instances[r]]
  /\ \A r \in Runs : instances[r] = NoRun \/ RunKept(instances[r], minute)

LEMMA BpmnStart == BpmnInit => BpmnInv
BY BpmnConstants DEF BpmnInit, BpmnInv, NoTemplate

LEMMA RunChange ==
  ASSUME BpmnInv, NEW r \in Runs, NEW run, RunKept(run, minute),
         instances' = [instances EXCEPT ![r] = run], UNCHANGED <<templates, minute>>
  PROVE  BpmnInv'
<1>1. instances' = [q \in Runs |-> IF q = r THEN run ELSE instances[q]]
  BY DEF BpmnInv
<1>2. instances' = [q \in Runs |-> instances'[q]]
  BY <1>1
<1>3. ASSUME NEW q \in Runs PROVE instances'[q] = NoRun \/ RunKept(instances'[q], minute)
  BY <1>1 DEF BpmnInv
<1>4. ASSUME NEW q \in Runs PROVE RunKept(instances'[q], minute) => RunKept(instances'[q], minute')
  OBVIOUS
<1> QED BY <1>2, <1>3, <1>4 DEF BpmnInv

(* What completing or failing a task makes of its instance. *)
LEMMA TaskChange ==
  ASSUME BpmnInv, NEW r \in Runs, instances[r] # NoRun, NEW n, NEW status \in {"completed", "failed"}
  PROVE  LET old == instances[r]
             run == WithTask(old, n, status)
         IN  /\ RunKept(old, minute) /\ RunTyped(run, minute)
             /\ run.status = old.status /\ run.completed_at = old.completed_at
             /\ run.template = old.template /\ DOMAIN run.task = DOMAIN old.task
             /\ \A m \in DOMAIN old.task :
                  run.task[m] = IF m = n THEN [status |-> status, completed_at |-> minute] ELSE old.task[m]
<1> DEFINE old == instances[r]
           run == WithTask(old, n, status)
           done == [status |-> status, completed_at |-> minute]
<1>1. RunKept(old, minute) /\ RunTyped(old, minute) /\ minute \in 0..MaxMinute /\ minute \in Nat
  BY BpmnConstants DEF BpmnInv, RunKept
<1>2. TaskTyped(done, minute)
  BY <1>1 DEF TaskTyped
<1>3. CASE n \in DOMAIN old.task
  <2>1. run = [old EXCEPT !.task = [old.task EXCEPT ![n] = done]]
    BY <1>3 DEF WithTask
  <2> HIDE DEF old, run, done
  <2>2. /\ DOMAIN run = DOMAIN old /\ run.status = old.status /\ run.completed_at = old.completed_at
        /\ run.template = old.template /\ run.task = [old.task EXCEPT ![n] = done]
    BY <1>1, <2>1 DEF RunTyped
  <2>3. /\ DOMAIN run.task = DOMAIN old.task
        /\ \A m \in DOMAIN old.task : run.task[m] = IF m = n THEN done ELSE old.task[m]
    BY <2>2
  <2>4. RunTyped(run, minute)
    BY <1>1, <1>2, <2>2, <2>3 DEF RunTyped
  <2> QED BY <1>1, <2>2, <2>3, <2>4 DEF old, run, done
<1>4. CASE n \notin DOMAIN old.task
  <2>1. run = old
    BY <1>4 DEF WithTask
  <2> HIDE DEF run
  <2> QED BY <1>1, <1>4, <2>1 DEF run
<1> QED BY <1>3, <1>4

LEMMA CompleteIsKept ==
  ASSUME BpmnInv, NEW r \in Runs, NEW n, CompleteTask(r, n)
  PROVE  BpmnInv'
<1> DEFINE old == instances[r]
           run == WithTask(old, n, "completed")
           new == IF AllDone(run.task) THEN [run EXCEPT !.status = "completed", !.completed_at = minute] ELSE run
<1>1. instances' = [instances EXCEPT ![r] = new] /\ UNCHANGED <<templates, minute>> /\ old # NoRun
  BY DEF CompleteTask
<1>2. /\ RunKept(old, minute) /\ RunTyped(run, minute)
      /\ run.status = old.status /\ run.completed_at = old.completed_at
      /\ DOMAIN run.task = DOMAIN old.task
      /\ \A m \in DOMAIN old.task :
           run.task[m] = IF m = n THEN [status |-> "completed", completed_at |-> minute] ELSE old.task[m]
  BY <1>1, TaskChange
<1>3. minute \in Nat /\ minute \in 0..MaxMinute
  BY BpmnConstants DEF BpmnInv
<1> HIDE DEF old, run
<1>4. CASE AllDone(run.task)
  <2>1. /\ DOMAIN new = DOMAIN run /\ new.status = "completed" /\ new.completed_at = minute
        /\ new.task = run.task
    BY <1>2, <1>4 DEF RunTyped
  <2>2. \A m \in DOMAIN run.task : run.task[m].status = "completed" /\ run.task[m].completed_at <= minute
    BY <1>2, <1>3, <1>4 DEF AllDone, RunTyped, TaskTyped
  <2> HIDE DEF new
  <2>3. RunKept(new, minute)
    BY <1>2, <1>3, <2>1, <2>2 DEF RunKept, RunTyped, TasksBefore
  <2> QED BY <1>1, <2>3, RunChange
<1>5. CASE ~AllDone(run.task)
  <2>1. run.status # "completed"
    <3> SUFFICES ASSUME run.status = "completed" PROVE AllDone(run.task)
      BY <1>5
    <3>1. \A m \in DOMAIN old.task : old.task[m].status = "completed"
      BY <1>2 DEF RunKept, TasksBefore
    <3> QED BY <1>2, <3>1 DEF AllDone
  <2>2. RunKept(run, minute)
    BY <1>2, <2>1 DEF RunKept, TasksBefore
  <2> QED BY <1>1, <1>5, <2>2, RunChange
<1> QED BY <1>4, <1>5

LEMMA FailIsKept == ASSUME BpmnInv, NEW r \in Runs, NEW n, FailTask(r, n) PROVE BpmnInv'
<1> DEFINE old == instances[r]
           run == WithTask(old, n, "failed")
           new == [run EXCEPT !.status = "failed", !.completed_at = minute]
<1>1. instances' = [instances EXCEPT ![r] = new] /\ UNCHANGED <<templates, minute>> /\ old # NoRun
  BY DEF FailTask
<1>2. RunTyped(run, minute)
  BY <1>1, TaskChange
<1>3. minute \in Nat /\ minute \in 0..MaxMinute
  BY BpmnConstants DEF BpmnInv
<1> HIDE DEF old, run
<1>4. DOMAIN new = DOMAIN run /\ new.status = "failed" /\ new.completed_at = minute /\ new.task = run.task
  BY <1>2 DEF RunTyped
<1> HIDE DEF new
<1>5. RunKept(new, minute)
  BY <1>2, <1>3, <1>4 DEF RunKept, RunTyped, TasksBefore
<1> QED BY <1>1, <1>5, RunChange

LEMMA CancelIsKept == ASSUME BpmnInv, NEW r \in Runs, CancelRun(r) PROVE BpmnInv'
<1> DEFINE run == instances[r]
           new == [run EXCEPT !.status = "cancelled", !.completed_at = minute]
<1>1. RunTyped(run, minute)
  BY DEF CancelRun, BpmnInv, RunKept, NoRun
<1>2. minute \in Nat /\ minute \in 0..MaxMinute
  BY BpmnConstants DEF BpmnInv
<1>3. instances' = [instances EXCEPT ![r] = new] /\ UNCHANGED <<templates, minute>>
  BY <1>1 DEF CancelRun, BpmnInv, RunTyped
<1> HIDE DEF run
<1>4. DOMAIN new = DOMAIN run /\ new.status = "cancelled" /\ new.completed_at = minute /\ new.task = run.task
  BY <1>1 DEF RunTyped
<1> HIDE DEF new
<1>5. RunKept(new, minute)
  BY <1>1, <1>2, <1>4 DEF RunKept, RunTyped, TasksBefore
<1> QED BY <1>3, <1>5, RunChange

LEMMA BpmnKeeps == BpmnInv /\ (BpmnNext \/ UNCHANGED bpmnVars) => BpmnInv'
<1> SUFFICES ASSUME BpmnInv, BpmnNext \/ UNCHANGED bpmnVars PROVE BpmnInv'
  OBVIOUS
<1>1. CASE UNCHANGED bpmnVars
  BY <1>1 DEF BpmnInv, bpmnVars, RunKept, RunTyped, TaskTyped, TasksBefore
<1>2. ASSUME NEW t \in Templates, NEW ids \in SUBSET Nodes, NEW type \in [ids -> NodeChoices], NEW next,
             CreateTemplate(t, type, next)
      PROVE  BpmnInv'
  <2>1. \A n \in DOMAIN type : next[n] \subseteq Nodes
    BY <1>2 DEF CreateTemplate, TemplateValid
  <2>2. templates' = [u \in Templates |->
            IF u = t THEN [defined |-> TRUE, type |-> type, next |-> next] ELSE templates[u]]
    BY <1>2 DEF CreateTemplate, BpmnInv
  <2>3. instances' = instances /\ minute' = minute
    BY <1>2 DEF CreateTemplate
  <2>4. \A u \in Templates : templates'[u].defined =>
            \A n \in DOMAIN templates'[u].type : templates'[u].next[n] \subseteq Nodes
    BY <2>1, <2>2 DEF BpmnInv
  <2>5. templates' = [u \in Templates |-> templates'[u]]
    BY <2>2
  <2>6. \A r \in Runs : RunKept(instances[r], minute) => RunKept(instances'[r], minute')
    BY <2>3
  <2> QED BY <2>3, <2>4, <2>5, <2>6 DEF BpmnInv
<1>3. ASSUME NEW r \in Runs, NEW t \in Templates, CreateInstance(r, t) PROVE BpmnInv'
  <2> DEFINE tasks == {n \in DOMAIN templates[t].type : templates[t].type[n] \in TaskTypes}
             new == [status |-> "running", template |-> t, completed_at |-> Never,
                     task |-> [n \in tasks |-> [status |-> "pending", completed_at |-> Never]]]
  <2>1. instances' = [instances EXCEPT ![r] = new] /\ UNCHANGED <<templates, minute>>
    BY <1>3 DEF CreateInstance
  <2> HIDE DEF tasks
  <2>2. RunKept(new, minute)
    BY DEF RunKept, RunTyped, TasksBefore, TaskTyped
  <2> HIDE DEF new
  <2> QED BY <2>1, <2>2, RunChange
<1>4. CASE MinutePasses
  <2>1. /\ minute' \in 0..MaxMinute /\ minute' = minute + 1 /\ minute \in Nat
        /\ templates' = templates /\ instances' = instances
    BY <1>4, BpmnConstants DEF MinutePasses, BpmnInv
  <2>2. ASSUME NEW r \in Runs, RunKept(instances[r], minute) PROVE RunKept(instances[r], minute')
    BY <2>1, <2>2 DEF RunKept, RunTyped, TaskTyped
  <2>3. ASSUME NEW r \in Runs PROVE RunKept(instances[r], minute') <=> RunKept(instances'[r], minute')
    BY <2>1
  <2> QED BY <2>1, <2>2, <2>3 DEF BpmnInv
<1> QED BY <1>1, <1>2, <1>3, <1>4, CompleteIsKept, FailIsKept, CancelIsKept DEF BpmnNext

LEMMA BpmnHolds == BpmnInv => BpmnTypeOK /\ CompletedMeansAllTasks
BY DEF BpmnInv, BpmnTypeOK, CompletedMeansAllTasks, NoRun, RunKept, RunTyped, TasksBefore

-----------------------------------------------------------------------------
(* The safety engine and the gate. *)

(* Sets of the same size stay of the same size when as many new elements   *)
(* join each: the images of D under two injective functions.               *)
Joins(f, D, S) ==
  DOMAIN f = D /\ (\A a, b \in D : f[a] = f[b] => a = b) /\ \A d \in D : f[d] \notin S

Image(f, D) == {f[d] : d \in D}

LEMMA JoinedBy ==
  ASSUME NEW S, IsFiniteSet(S), NEW D, IsFiniteSet(D), NEW f, Joins(f, D, S)
  PROVE  /\ IsFiniteSet(S \cup Image(f, D))
         /\ Cardinality(S \cup Image(f, D)) = Cardinality(S) + Cardinality(D)
<1> USE DEF Joins, Image
<1> DEFINE T == {f[d] : d \in D}
           g == [d \in D |-> f[d]]
<1>1. g \in [D -> T] /\ (\A a, b \in D : g[a] = g[b] => a = b) /\ \A t \in T : \E d \in D : g[d] = t
  OBVIOUS
<1> HIDE DEF g
<1>2. g \in Bijection(D, T)
  <2> HIDE DEF T
  <2> QED BY <1>1, Fun_IsBij
<1>3. ExistsBijection(D, T)
  BY <1>2 DEF ExistsBijection
<1>4. IsFiniteSet(T) /\ Cardinality(T) = Cardinality(D)
  <2> HIDE DEF T
  <2> QED BY <1>3, FS_Bijection
<1>5. S \cap T = {}
  OBVIOUS
<1> HIDE DEF T
<1>6. /\ IsFiniteSet(S \cup T)
      /\ Cardinality(S \cup T) = Cardinality(S) + Cardinality(T) - Cardinality(S \cap T)
  BY <1>4, FS_Union
<1>7. Cardinality(S \cap T) = 0 /\ Cardinality(S) \in Nat /\ Cardinality(T) \in Nat
  BY <1>4, <1>5, FS_EmptySet, FS_CardinalityType
<1>8. Cardinality(S \cup T) = Cardinality(S) + Cardinality(D)
  BY <1>4, <1>6, <1>7
<1> QED BY <1>6, <1>8 DEF T

Approver == Roles \cup {Hardware}
EvaluationSet == [level : SAFETY_LEVELS, approved : BOOLEAN, approvers : Seq(Approver)]
RecordSet == [level : SAFETY_LEVELS, role : Approver, approved : BOOLEAN]
DecisionSet == [level : SAFETY_LEVELS, at : 0..MaxTick, n : Nat, approved : BOOLEAN]

SafetyInv ==
  /\ tick \in 0..MaxTick
  /\ evaluations \in Seq(EvaluationSet) /\ \A i \in 1..Len(evaluations) : Len(evaluations[i].approvers) <= 2
  /\ records \in Seq(RecordSet)
  /\ audit_log \in Seq(DecisionSet)
  /\ ApprovalsAccountForEvaluations

LEMMA SafetyStart == SafetyInit => SafetyInv
<1> SUFFICES ASSUME SafetyInit PROVE SafetyInv
  OBVIOUS
<1>1. \A level, role : TimesNamed(level, role) = {} /\ TimesRecorded(level, role) = {}
  BY DEF SafetyInit, TimesNamed, TimesRecorded
<1>2. ApprovalsAccountForEvaluations
  BY <1>1 DEF ApprovalsAccountForEvaluations
<1>3. tick = 0 /\ evaluations = <<>> /\ records = <<>> /\ audit_log = <<>>
  BY DEF SafetyInit
<1>4. evaluations \in Seq(EvaluationSet) /\ records \in Seq(RecordSet) /\ audit_log \in Seq(DecisionSet)
  BY <1>3
<1> QED BY <1>2, <1>3, <1>4, SafetyConstants DEF SafetyInv

(* The verdict is well-formed at every level and names at most two.        *)
LEMMA VerdictTyped ==
  ASSUME NEW level \in SAFETY_LEVELS, NEW role \in Roles, NEW approvers \in ApproverLists,
         NEW emergency \in BOOLEAN, NEW hardware \in BOOLEAN
  PROVE  LET v == Verdict(level, role, approvers, emergency, hardware)
         IN  v \in EvaluationSet /\ Len(v.approvers) <= 2
<1> DEFINE v == Verdict(level, role, approvers, emergency, hardware)
<1> USE DEF Evaluation, EvaluationSet
<1>1. <<>> \in Seq(Approver) /\ <<role>> \in Seq(Approver) /\ <<Hardware>> \in Seq(Approver)
      /\ Len(<<>>) = 0 /\ Len(<<role>>) = 1 /\ Len(<<Hardware>>) = 1
  BY DEF Approver
<1>2. ASSUME Len(approvers) >= 2
      PROVE  SubSeq(approvers, 1, 2) \in Seq(Approver) /\ Len(SubSeq(approvers, 1, 2)) = 2
  BY <1>2, SafetyConstants DEF Approver
<1>3. CASE level = "C0"
  <2>1. v = Evaluation(level, TRUE, <<>>)
    BY <1>3 DEF Verdict
  <2> HIDE DEF v
  <2> QED BY <1>1, <2>1 DEF v
<1>4. CASE level = "C1"
  <2>1. v = Evaluation(level, role \in ApproverRoles, IF role \in ApproverRoles THEN <<role>> ELSE <<>>)
    BY <1>4 DEF Verdict
  <2> HIDE DEF v
  <2> QED BY <1>1, <2>1 DEF v
<1>5. CASE level = "C2"
  <2>1. v = Evaluation(level, Len(approvers) >= 2,
                       IF Len(approvers) >= 2 THEN SubSeq(approvers, 1, 2) ELSE <<>>)
    BY <1>5 DEF Verdict
  <2> DEFINE s == SubSeq(approvers, 1, 2)
             enough == Len(approvers) >= 2
  <2>2. enough \in BOOLEAN
    OBVIOUS
  <2> HIDE DEF v, s, enough
  <2>3. v = [level |-> level, approved |-> enough, approvers |-> IF enough THEN s ELSE <<>>]
    BY <2>1 DEF enough, s
  <2>4. enough => s \in Seq(Approver) /\ Len(s) = 2
    BY <1>2 DEF enough, s
  <2>5. CASE enough
    <3>1. v = [level |-> level, approved |-> TRUE, approvers |-> s]
      BY <2>2, <2>3, <2>5
    <3>2. s \in Seq(Approver) /\ Len(s) = 2
      BY <2>4, <2>5
    <3>3. v \in EvaluationSet /\ v.approvers = s
      BY <3>1, <3>2
    <3>4. Len(v.approvers) <= 2
      <4> HIDE DEF EvaluationSet, Evaluation
      <4>1. Len(v.approvers) = Len(s) /\ Len(s) = 2
        BY <3>2, <3>3
      <4> QED BY <4>1
    <3> QED BY <3>3, <3>4 DEF v
  <2>6. CASE ~enough
    <3>1. v = [level |-> level, approved |-> FALSE, approvers |-> <<>>]
      BY <2>2, <2>3, <2>6
    <3> QED BY <1>1, <3>1 DEF v
  <2> QED BY <2>5, <2>6
<1>6. CASE level = "C3"
  <2>1. v = Evaluation(level, emergency /\ role \in EmergencyRoles,
                       IF emergency /\ role \in EmergencyRoles THEN <<role>> ELSE <<>>)
    BY <1>6 DEF Verdict
  <2> HIDE DEF v
  <2> QED BY <1>1, <2>1 DEF v
<1>7. CASE level = "C4"
  <2>1. v = Evaluation(level, hardware, IF hardware THEN <<Hardware>> ELSE <<>>)
    BY <1>7 DEF Verdict
  <2> HIDE DEF v
  <2> QED BY <1>1, <2>1 DEF v
<1> QED BY <1>3, <1>4, <1>5, <1>6, <1>7 DEF SAFETY_LEVELS

LEMMA ApprovalTyped ==
  ASSUME NEW v \in EvaluationSet, NEW role \in Roles
  PROVE  /\ RecordApproval(v, role) \in Seq(RecordSet)
         /\ v.approved => /\ Len(RecordApproval(v, role)) = Len(v.approvers)
                          /\ \A k \in 1..Len(v.approvers) :
                               RecordApproval(v, role)[k] = Record(v.level, v.approvers[k], TRUE)
         /\ ~v.approved => \A k \in 1..Len(RecordApproval(v, role)) : ~RecordApproval(v, role)[k].approved
<1> DEFINE n == Len(v.approvers)
<1>1. v.approvers \in Seq(Approver) /\ DOMAIN v.approvers = 1..n /\ n \in Nat /\ v.level \in SAFETY_LEVELS
      /\ v.approved \in BOOLEAN
  BY DEF EvaluationSet
<1>2. CASE v.approved
  <2> DEFINE s == [i \in 1..n |-> Record(v.level, v.approvers[i], TRUE)]
  <2>1. RecordApproval(v, role) = s
    BY <1>1, <1>2 DEF RecordApproval
  <2>2. \A i \in 1..n : Record(v.level, v.approvers[i], TRUE) \in RecordSet
    BY <1>1 DEF Record, RecordSet
  <2>3. s \in [1..n -> RecordSet]
    BY <2>2
  <2> HIDE DEF s
  <2>4. s \in Seq(RecordSet)
    BY <1>1, <2>3, SeqDef
  <2>5. Len(s) = n
    BY <1>1, <2>3, <2>4, LenProperties
  <2>6. \A k \in 1..n : s[k] = Record(v.level, v.approvers[k], TRUE)
    BY DEF s
  <2> QED BY <1>2, <2>1, <2>4, <2>5, <2>6
<1>3. CASE ~v.approved
  <2>1. RecordApproval(v, role) \in {<<>>, <<Record("C1", role, FALSE)>>}
    BY <1>3 DEF RecordApproval
  <2>2. Record("C1", role, FALSE) \in RecordSet /\ ~Record("C1", role, FALSE).approved
    BY DEF Record, RecordSet, SAFETY_LEVELS, Approver
  <2> DEFINE r == Record("C1", role, FALSE)
             s == RecordApproval(v, role)
  <2> HIDE DEF r, s
  <2>3. s \in {<<>>, <<r>>} /\ r \in RecordSet /\ ~r.approved
    BY <2>1, <2>2 DEF r, s
  <2>4. s \in Seq(RecordSet)
    <3>1. CASE s = <<>>
      BY <3>1
    <3>2. CASE s = <<r>>
      BY <2>3, <3>2
    <3> QED BY <2>3, <3>1, <3>2
  <2>5. \A k \in 1..Len(s) : s[k] = r
    BY <2>3
  <2> QED BY <1>3, <2>3, <2>4, <2>5 DEF s
<1> QED BY <1>2, <1>3

Evaluated(v, role) ==
  /\ Len(v.approvers) <= 2
  /\ evaluations' = Append(evaluations, v) /\ records' = records \o RecordApproval(v, role)

LEMMA EvaluateAccounts ==
  ASSUME SafetyInv, NEW v \in EvaluationSet, NEW role \in Roles, Evaluated(v, role),
         NEW level \in SAFETY_LEVELS, NEW named \in Approver
  PROVE  Cardinality(TimesNamed(level, named)') = Cardinality(TimesRecorded(level, named)')
<1> DEFINE N == Len(evaluations)
           M == Len(records)
           new == RecordApproval(v, role)
           A == TimesNamed(level, named)
           B == TimesRecorded(level, named)
           D == {k \in 1..Len(v.approvers) : v.level = level /\ v.approved /\ v.approvers[k] = named}
           f == [k \in D |-> <<N + 1, k>>]
           g == [k \in D |-> M + k]
<1>1. evaluations \in Seq(EvaluationSet) /\ records \in Seq(RecordSet) /\ N \in Nat /\ M \in Nat
  BY DEF SafetyInv
<1>2. v.approvers \in Seq(Approver) /\ Len(v.approvers) \in Nat /\ v.approved \in BOOLEAN
      /\ Len(v.approvers) <= 2 /\ DOMAIN v.approvers = 1..Len(v.approvers)
  <2>1. v.approvers \in Seq(Approver) /\ v.approved \in BOOLEAN
    BY DEF EvaluationSet
  <2>2. Len(v.approvers) \in Nat /\ DOMAIN v.approvers = 1..Len(v.approvers)
    BY <2>1
  <2>3. Len(v.approvers) <= 2
    BY DEF Evaluated
  <2> QED BY <2>1, <2>2, <2>3
<1>3. /\ new \in Seq(RecordSet)
      /\ v.approved => /\ Len(new) = Len(v.approvers)
                       /\ \A k \in 1..Len(v.approvers) : new[k] = Record(v.level, v.approvers[k], TRUE)
      /\ ~v.approved => \A k \in 1..Len(new) : ~new[k].approved
  BY ApprovalTyped
<1>4. /\ DOMAIN evaluations' = 1..(N + 1) /\ evaluations'[N + 1] = v
      /\ \A i \in 1..N : evaluations'[i] = evaluations[i]
      /\ DOMAIN evaluations = 1..N
  <2>1. evaluations' = Append(evaluations, v)
    BY DEF Evaluated
  <2> QED BY <1>1, <2>1
<1> HIDE DEF new
<1>5. /\ DOMAIN records' = 1..(M + Len(new)) /\ Len(new) \in Nat /\ DOMAIN records = 1..M
      /\ \A i \in 1..M : records'[i] = records[i]
      /\ \A k \in 1..Len(new) : records'[M + k] = new[k]
  <2>1. records' = records \o new
    BY DEF new, Evaluated
  <2>2. records' \in Seq(RecordSet) /\ Len(records') = M + Len(new) /\ Len(new) \in Nat
    BY <1>1, <1>3, <2>1
  <2>3. \A i \in 1..(M + Len(new)) : records'[i] = IF i <= M THEN records[i] ELSE new[i - M]
    BY <1>1, <1>3, <2>1, ConcatProperties
  <2>4. DOMAIN records' = 1..(M + Len(new)) /\ DOMAIN records = 1..M
    BY <1>1, <2>2
  <2>5. \A i \in 1..M : records'[i] = records[i]
    BY <1>1, <2>2, <2>3
  <2>6. ASSUME NEW k \in 1..Len(new) PROVE records'[M + k] = new[k]
    <3>1. M + k \in 1..(M + Len(new)) /\ ~(M + k <= M) /\ M + k - M = k
      BY <1>1, <2>2
    <3> QED BY <2>3, <3>1
  <2> QED BY <2>2, <2>4, <2>5, <2>6
<1>0. IsFiniteSet({1, 2})
  <2>1. IsFiniteSet({1})
    BY FS_Singleton
  <2>2. {1, 2} = {1} \cup {2}
    OBVIOUS
  <2> QED BY <2>1, <2>2, FS_AddElement
<1>6. D \subseteq {1, 2} /\ IsFiniteSet(D)
  <2>1. D \in SUBSET {1, 2}
    BY <1>2
  <2>2. IsFiniteSet({1, 2})
    BY <1>0
  <2> HIDE DEF D
  <2> QED BY <2>1, <2>2, FS_Subset
<1>7. IsFiniteSet(A)
  <2>1. IsFiniteSet((1..N) \X {1, 2})
    <3>1. IsFiniteSet(1..N)
      BY <1>1, FS_Interval
    <3> QED BY <1>0, <3>1, FS_Product
  <2>2. A \in SUBSET ((1..N) \X {1, 2})
    BY <1>4 DEF TimesNamed
  <2> HIDE DEF A
  <2> QED BY <2>1, <2>2, FS_Subset
<1>8. IsFiniteSet(B)
  <2>1. IsFiniteSet(1..M)
    BY <1>1, FS_Interval
  <2>2. B \in SUBSET (1..M)
    BY <1>5 DEF TimesRecorded
  <2> HIDE DEF B
  <2> QED BY <2>1, <2>2, FS_Subset
<1>9. TimesNamed(level, named)' = A \cup Image(f, D)
  <2> DEFINE P(w, k) == w.level = level /\ w.approved /\ k \in DOMAIN w.approvers /\ w.approvers[k] = named
  <2>1. TimesNamed(level, named)' = {p \in (1..(N + 1)) \X {1, 2} : P(evaluations'[p[1]], p[2])}
    BY <1>4 DEF TimesNamed
  <2>2. A = {p \in (1..N) \X {1, 2} : P(evaluations[p[1]], p[2])}
    BY <1>4 DEF TimesNamed
  <2>3. D = {k \in {1, 2} : P(v, k)}
    BY <1>2
  <2>4. {f[k] : k \in D} = {<<N + 1, k>> : k \in D}
    OBVIOUS
  <2> HIDE DEF P, A, D, f
  <2>5. ASSUME NEW i \in 1..(N + 1), NEW k \in {1, 2}
        PROVE  P(evaluations'[i], k) <=> <<i, k>> \in A \cup {<<N + 1, m>> : m \in D}
    <3>1. CASE i = N + 1
      <4>1. <<i, k>> \notin A
        BY <1>1, <2>2, <3>1
      <4> QED BY <1>4, <2>3, <3>1, <4>1
    <3>2. CASE i # N + 1
      <4>1. i \in 1..N
        BY <1>1, <3>2
      <4> QED BY <1>4, <2>2, <3>2, <4>1
    <3> QED BY <3>1, <3>2
  <2>6. \A p \in A \cup {<<N + 1, m>> : m \in D} : p \in (1..(N + 1)) \X {1, 2}
    BY <1>1, <2>2, <2>3
  <2> DEFINE U == A \cup {<<N + 1, m>> : m \in D}
             X == {p \in (1..(N + 1)) \X {1, 2} : P(evaluations'[p[1]], p[2])}
  <2>7. U \subseteq (1..(N + 1)) \X {1, 2}
    BY <2>6
  <2>8. ASSUME NEW p \in (1..(N + 1)) \X {1, 2} PROVE p \in X <=> p \in U
    <3>1. PICK i \in 1..(N + 1), k \in {1, 2} : p = <<i, k>>
      OBVIOUS
    <3>2. p[1] = i /\ p[2] = k
      BY <3>1
    <3>3. P(evaluations'[i], k) <=> p \in U
      BY <2>5, <3>1
    <3> QED BY <3>2, <3>3
  <2>9. X \subseteq (1..(N + 1)) \X {1, 2}
    OBVIOUS
  <2>10. X = U
    <3> HIDE DEF X, U
    <3> QED BY <2>7, <2>8, <2>9
  <2> QED BY <2>1, <2>4, <2>10 DEF Image
<1>10. TimesRecorded(level, named)' = B \cup Image(g, D)
  <2> DEFINE P(r) == r.level = level /\ r.role = named /\ r.approved
  <2>1. TimesRecorded(level, named)' = {i \in 1..(M + Len(new)) : P(records'[i])}
    BY <1>5 DEF TimesRecorded
  <2>2. B = {i \in 1..M : P(records[i])}
    BY <1>5 DEF TimesRecorded
  <2>3. D = {k \in 1..Len(new) : P(new[k])}
    <3>1. CASE v.approved
      <4>1. Len(new) = Len(v.approvers)
            /\ \A k \in 1..Len(new) : new[k] = Record(v.level, v.approvers[k], TRUE)
        BY <1>3, <3>1
      <4>2. \A k \in 1..Len(new) :
              new[k].level = v.level /\ new[k].role = v.approvers[k] /\ new[k].approved
        <5> SUFFICES ASSUME NEW k \in 1..Len(new)
                     PROVE  new[k].level = v.level /\ new[k].role = v.approvers[k] /\ new[k].approved
          OBVIOUS
        <5>1. new[k] = [level |-> v.level, role |-> v.approvers[k], approved |-> TRUE]
          BY <4>1 DEF Record
        <5>2. new[k].level = v.level /\ new[k].role = v.approvers[k]
          BY <5>1
        <5>3. new[k].approved
          BY <5>1
        <5> QED BY <5>2, <5>3
      <4> QED BY <3>1, <4>1, <4>2
    <3>2. CASE ~v.approved
      BY <1>3, <3>2
    <3> QED BY <3>1, <3>2
  <2>4. {g[k] : k \in D} = {M + k : k \in D}
    OBVIOUS
  <2> HIDE DEF P, B, D, g
  <2>5. ASSUME NEW i \in 1..(M + Len(new))
        PROVE  P(records'[i]) <=> i \in B \cup {M + k : k \in D}
    <3>1. CASE i <= M
      <4>1. i \in 1..M /\ ~\E k \in D : i = M + k
        BY <1>1, <1>5, <2>3, <3>1
      <4> QED BY <1>5, <2>2, <4>1
    <3>2. CASE i > M
      <4>1. i - M \in 1..Len(new) /\ i = M + (i - M) /\ i \notin 1..M
        BY <1>1, <1>5, <3>2
      <4>2. records'[i] = new[i - M]
        BY <1>5, <4>1
      <4>3. \A k \in D : i = M + k => k = i - M
        BY <1>1, <1>5, <2>3
      <4> QED BY <2>2, <2>3, <4>1, <4>2, <4>3
    <3>3. i \in Nat /\ M \in Nat
      BY <1>1, <1>5
    <3> QED BY <3>1, <3>2, <3>3
  <2>6. \A i \in B \cup {M + k : k \in D} : i \in 1..(M + Len(new))
    BY <1>1, <1>5, <2>2, <2>3
  <2> QED BY <2>1, <2>4, <2>5, <2>6 DEF Image
<1>11. Joins(f, D, A)
  <2>1. \A p \in A : p[1] \in 1..N
    BY <1>4 DEF TimesNamed
  <2>2. \A d \in D : f[d][1] = N + 1 /\ f[d][2] = d
    OBVIOUS
  <2> HIDE DEF A, D
  <2>3. DOMAIN f = D
    OBVIOUS
  <2> HIDE DEF f
  <2> QED BY <1>1, <2>1, <2>2, <2>3 DEF Joins
<1>12. Joins(g, D, B)
  <2>1. \A i \in B : i \in 1..M
    BY <1>5 DEF TimesRecorded
  <2> HIDE DEF B, D
  <2> QED BY <1>1, <1>6, <2>1 DEF Joins
<1>13. Cardinality(A) = Cardinality(B)
  BY DEF SafetyInv, ApprovalsAccountForEvaluations, Approver
<1> HIDE DEF A, B, D, f, g
<1>14. Cardinality(A \cup Image(f, D)) = Cardinality(A) + Cardinality(D)
  BY <1>6, <1>7, <1>11, JoinedBy
<1>15. Cardinality(B \cup Image(g, D)) = Cardinality(B) + Cardinality(D)
  BY <1>6, <1>8, <1>12, JoinedBy
<1> QED BY <1>9, <1>10, <1>13, <1>14, <1>15

LEMMA SafetyKeeps == SafetyInv /\ (EngineNext \/ GateNext \/ UNCHANGED safetyVars) => SafetyInv'
<1> SUFFICES ASSUME SafetyInv, EngineNext \/ GateNext \/ UNCHANGED safetyVars PROVE SafetyInv'
  OBVIOUS
<1>0. UNCHANGED <<evaluations, records>> => ApprovalsAccountForEvaluations'
  <2> SUFFICES ASSUME UNCHANGED <<evaluations, records>> PROVE ApprovalsAccountForEvaluations'
    OBVIOUS
  <2>1. evaluations' = evaluations /\ records' = records
    OBVIOUS
  <2>2. ApprovalsAccountForEvaluations
    BY DEF SafetyInv
  <2>3. ASSUME NEW level, NEW role
        PROVE  TimesNamed(level, role)' = TimesNamed(level, role) /\ TimesRecorded(level, role)' = TimesRecorded(level, role)
    BY <2>1 DEF TimesNamed, TimesRecorded
  <2> QED BY <2>2, <2>3, Zenon DEF ApprovalsAccountForEvaluations
<1>1. CASE UNCHANGED safetyVars
  BY <1>0, <1>1 DEF SafetyInv, safetyVars
<1>2. ASSUME NEW level \in SAFETY_LEVELS, NEW satisfied \in BOOLEAN, GateEvaluate(level, satisfied)
      PROVE  SafetyInv'
  <2> DEFINE approved == level = "C0" \/ satisfied
             d == [level |-> level, at |-> tick, n |-> Len(audit_log) + 1, approved |-> approved]
  <2>1. audit_log' = Append(audit_log, d) /\ UNCHANGED <<evaluations, records, tick>>
    BY <1>2 DEF GateEvaluate
  <2>2. audit_log \in Seq(DecisionSet) /\ Len(audit_log) + 1 \in Nat
    BY DEF SafetyInv
  <2>3. approved \in BOOLEAN
    OBVIOUS
  <2> HIDE DEF approved
  <2>4. d \in DecisionSet
    BY <2>2, <2>3 DEF DecisionSet, SafetyInv
  <2> HIDE DEF d
  <2>5. audit_log' \in Seq(DecisionSet)
    BY <2>1, <2>2, <2>4
  <2> QED BY <1>0, <2>1, <2>5 DEF SafetyInv
<1>3. CASE TickPasses
  BY <1>0, <1>3, SafetyConstants DEF SafetyInv, TickPasses
<1>4. ASSUME NEW level \in SAFETY_LEVELS, NEW role \in Roles, NEW approvers \in ApproverLists,
             NEW emergency \in BOOLEAN, NEW hardware \in BOOLEAN,
             Evaluate(level, role, approvers, emergency, hardware)
      PROVE  SafetyInv'
  <2> DEFINE v == Verdict(level, role, approvers, emergency, hardware)
  <2>1. v \in EvaluationSet /\ Len(v.approvers) <= 2
    BY VerdictTyped
  <2>2. evaluations' = Append(evaluations, v) /\ records' = records \o RecordApproval(v, role)
        /\ UNCHANGED <<audit_log, tick>>
    BY <1>4 DEF Evaluate
  <2> HIDE DEF v
  <2>3. Evaluated(v, role)
    BY <2>1, <2>2 DEF Evaluated
  <2>4. ApprovalsAccountForEvaluations'
    BY <2>1, <2>3, EvaluateAccounts DEF ApprovalsAccountForEvaluations, Approver
  <2>5. evaluations' \in Seq(EvaluationSet) /\ \A i \in 1..Len(evaluations') : Len(evaluations'[i].approvers) <= 2
    <3>1. evaluations \in Seq(EvaluationSet) /\ \A i \in 1..Len(evaluations) : Len(evaluations[i].approvers) <= 2
      BY DEF SafetyInv
    <3> QED BY <2>1, <2>2, <3>1
  <2>6. records' \in Seq(RecordSet)
    <3>1. records \in Seq(RecordSet) /\ RecordApproval(v, role) \in Seq(RecordSet)
      BY <2>1, ApprovalTyped DEF SafetyInv
    <3> QED BY <2>2, <3>1
  <2> QED BY <2>2, <2>4, <2>5, <2>6 DEF SafetyInv
<1> QED BY <1>1, <1>2, <1>3, <1>4 DEF EngineNext, GateNext

LEMMA SafetyHolds == SafetyInv => SafetyTypeOK /\ ApprovalsAccountForEvaluations /\ GateFindsDecision
<1> SUFFICES ASSUME SafetyInv PROVE SafetyTypeOK /\ ApprovalsAccountForEvaluations /\ GateFindsDecision
  OBVIOUS
<1>1. /\ evaluations \in Seq(EvaluationSet) /\ records \in Seq(RecordSet) /\ audit_log \in Seq(DecisionSet)
      /\ DOMAIN evaluations = 1..Len(evaluations) /\ DOMAIN records = 1..Len(records)
      /\ DOMAIN audit_log = 1..Len(audit_log)
  BY DEF SafetyInv
<1>2. SafetyTypeOK
  <2>1. \A i \in DOMAIN evaluations : evaluations[i] \in EvaluationSet
    BY <1>1
  <2>2. \A i \in DOMAIN records : records[i] \in RecordSet
    BY <1>1
  <2>3. \A i \in DOMAIN audit_log : audit_log[i] \in DecisionSet
    BY <1>1
  <2>4. \A i \in DOMAIN evaluations : evaluations[i].level \in SAFETY_LEVELS /\ evaluations[i].approved \in BOOLEAN
    BY <2>1 DEF EvaluationSet
  <2>5. \A i \in DOMAIN records : records[i].role \in Roles \cup {Hardware}
    BY <2>2 DEF RecordSet, Approver
  <2>6. \A i \in DOMAIN audit_log : audit_log[i].at \in 0..MaxTick
    BY <2>3 DEF DecisionSet
  <2> QED BY <2>4, <2>5, <2>6 DEF SafetyTypeOK, SafetyInv
<1>3. GateFindsDecision
  <2> SUFFICES ASSUME NEW i \in DOMAIN audit_log,
                      ~\E j \in DOMAIN audit_log : j > i /\ SameId(audit_log[j], audit_log[i])
               PROVE  GetDecision(audit_log[i]) = audit_log[i]
    BY DEF GateFindsDecision
  <2> DEFINE LatestAt(k) == SameId(audit_log[k], audit_log[i])
                          /\ \A j \in DOMAIN audit_log : SameId(audit_log[j], audit_log[i]) => j <= k
  <2>1. SameId(audit_log[i], audit_log[i])
    BY DEF SameId
  <2>2. \A j \in DOMAIN audit_log : j \in Nat
    BY <1>1
  <2>3. LatestAt(i)
    BY <2>1, <2>2
  <2>4. \A k \in DOMAIN audit_log : LatestAt(k) => k = i
    BY <2>1, <2>2
  <2>5. (CHOOSE k \in DOMAIN audit_log : LatestAt(k)) = i
    <3> HIDE DEF LatestAt
    <3> QED BY <2>3, <2>4
  <2> QED BY <2>5 DEF GetDecision
<1> QED BY <1>2, <1>3 DEF SafetyInv

-----------------------------------------------------------------------------
(* The audit chain.  Every entry carries the hash of the one appended      *)
(* before it, the hashes differ from each other, and an entry's own hash   *)
(* tells its content until it is altered.                                  *)

EntryLinked(i) ==
  entries[i].prev_hash = IF i = 1 THEN Genesis ELSE entries[i - 1].entry_hash

EntryHashed(i) ==
  \E c : /\ entries[i].entry_hash = Hash(entries[i].timestamp, c, entries[i].prev_hash)
         /\ c = entries[i].content <=> i \notin altered

AuditInv ==
  /\ wall \in 0..MaxWall
  /\ (\E S : entries \in Seq(S)) /\ Len(entries) <= MaxEntries
  /\ altered \subseteq 1..Len(entries)
  /\ \A i \in 1..Len(entries) :
        /\ DOMAIN entries[i] = {"timestamp", "content", "prev_hash", "entry_hash"}
        /\ entries[i].timestamp \in 0..MaxWall
        /\ EntryLinked(i) /\ EntryHashed(i)
  /\ \A i, j \in 1..Len(entries) : entries[i].entry_hash = entries[j].entry_hash => i = j
  /\ last_hash = IF Len(entries) = 0 THEN Genesis ELSE entries[Len(entries)].entry_hash

LEMMA AuditStart == AuditInit => AuditInv
<1> SUFFICES ASSUME AuditInit PROVE AuditInv
  OBVIOUS
<1>1. entries = <<>> /\ last_hash = Genesis /\ wall = 0 /\ altered = {}
  BY DEF AuditInit
<1>2. entries \in Seq({}) /\ Len(entries) = 0
  BY <1>1
<1> QED BY <1>1, <1>2, AuditConstants DEF AuditInv

LEMMA HashIsNotGenesis == \A t, c, p : Hash(t, c, p) # Genesis
<1> SUFFICES ASSUME NEW t, NEW c, NEW p PROVE Hash(t, c, p) # Genesis
  OBVIOUS
<1>1. Len(Hash(t, c, p)) = 3 /\ Len(Genesis) = 0
  BY DEF Hash, Genesis
<1> QED BY <1>1

LEMMA AppendIsChained == ASSUME AuditInv, NEW c \in Contents, AppendEntry(c) PROVE AuditInv'
<1> DEFINE e == [timestamp |-> wall, content |-> c, prev_hash |-> last_hash,
                 entry_hash |-> Hash(wall, c, last_hash)]
<1>0. PICK n : n = Len(entries)
  OBVIOUS
<1>1. PICK S : entries \in Seq(S)
  BY DEF AuditInv
<1>2. entries' = Append(entries, e) /\ last_hash' = Hash(wall, c, last_hash)
      /\ wall' = wall /\ altered' = altered /\ n < MaxEntries
  BY <1>0 DEF AppendEntry
<1>3. entries \in Seq(S \cup {e}) /\ n \in Nat /\ e \in S \cup {e}
  BY <1>0, <1>1, SeqMonotonic
<1>4. /\ e.timestamp = wall /\ e.content = c /\ e.prev_hash = last_hash
      /\ e.entry_hash = Hash(wall, c, last_hash)
      /\ DOMAIN e = {"timestamp", "content", "prev_hash", "entry_hash"}
  OBVIOUS
<1> HIDE DEF e
<1>5. /\ entries' \in Seq(S \cup {e}) /\ Len(entries') = n + 1 /\ entries'[n + 1] = e
      /\ \A i \in 1..n : entries'[i] = entries[i]
  BY <1>0, <1>2, <1>3
<1>6. Len(entries') <= MaxEntries /\ altered' \subseteq 1..Len(entries') /\ n + 1 \notin altered
  BY <1>0, <1>2, <1>3, <1>5, AuditConstants DEF AuditInv
<1>7. last_hash = IF n = 0 THEN Genesis ELSE entries[n].entry_hash
  BY <1>0 DEF AuditInv
<1>8. \A i \in 1..n : EntryLinked(i) /\ EntryHashed(i) /\ entries[i].timestamp \in 0..MaxWall
        /\ DOMAIN entries[i] = {"timestamp", "content", "prev_hash", "entry_hash"}
  BY <1>0 DEF AuditInv
<1>9. \A i, j \in 1..n : entries[i].entry_hash = entries[j].entry_hash => i = j
  BY <1>0 DEF AuditInv
<1>10. ASSUME NEW i \in 1..n
       PROVE  /\ DOMAIN entries'[i] = {"timestamp", "content", "prev_hash", "entry_hash"}
              /\ entries'[i].timestamp \in 0..MaxWall
              /\ EntryLinked(i)' /\ EntryHashed(i)'
  <2>1. entries'[i] = entries[i] /\ (i # 1 => i - 1 \in 1..n) /\ altered' = altered
    BY <1>2, <1>3, <1>5
  <2>2. EntryLinked(i)'
    <3>1. i # 1 => entries'[i - 1] = entries[i - 1]
      BY <1>5, <2>1
    <3> QED BY <1>8, <2>1, <3>1 DEF EntryLinked
  <2>3. EntryHashed(i)'
    BY <1>8, <2>1 DEF EntryHashed
  <2> QED BY <1>8, <2>1, <2>2, <2>3
<1>11. /\ DOMAIN entries'[n + 1] = {"timestamp", "content", "prev_hash", "entry_hash"}
       /\ entries'[n + 1].timestamp \in 0..MaxWall
       /\ EntryLinked(n + 1)' /\ EntryHashed(n + 1)'
  <2>1. EntryLinked(n + 1)'
    <3>1. n # 0 => entries'[n] = entries[n]
      BY <1>3, <1>5
    <3> QED BY <1>3, <1>4, <1>5, <1>7, <3>1 DEF EntryLinked
  <2>2. EntryHashed(n + 1)'
    BY <1>2, <1>4, <1>5, <1>6 DEF EntryHashed
  <2> QED BY <1>4, <1>5, <2>1, <2>2 DEF AuditInv
<1>12. \A i \in 1..n : entries[i].entry_hash # e.entry_hash
  <2> SUFFICES ASSUME NEW i \in 1..n, entries[i].entry_hash = e.entry_hash PROVE FALSE
    OBVIOUS
  <2>1. PICK d : entries[i].entry_hash = Hash(entries[i].timestamp, d, entries[i].prev_hash)
    BY <1>8 DEF EntryHashed
  <2>2. entries[i].prev_hash = last_hash
    BY <1>4, <2>1 DEF Hash
  <2>3. last_hash = entries[n].entry_hash /\ n \in 1..n
    BY <1>3, <1>7
  <2>4. PICK b : entries[n].entry_hash = Hash(entries[n].timestamp, b, entries[n].prev_hash)
    BY <1>8, <2>3 DEF EntryHashed
  <2>5. CASE i = 1
    <3>1. entries[i].prev_hash = <<>>
      BY <1>8, <2>5 DEF EntryLinked, Genesis
    <3> QED BY <2>2, <2>3, <2>4, <3>1, HashIsNotGenesis DEF Genesis
  <2>6. CASE i # 1
    <3>1. entries[i].prev_hash = entries[i - 1].entry_hash /\ i - 1 \in 1..n /\ i - 1 # n
      BY <1>3, <1>8, <2>6 DEF EntryLinked
    <3> QED BY <1>9, <2>2, <2>3, <3>1
  <2> QED BY <2>5, <2>6
<1>13. \A i, j \in 1..(n + 1) : entries'[i].entry_hash = entries'[j].entry_hash => i = j
  <2>1. \A i \in 1..(n + 1) : i = n + 1 \/ i \in 1..n
    BY <1>3
  <2> QED BY <1>5, <1>9, <1>12, <2>1
<1>14. last_hash' = IF Len(entries') = 0 THEN Genesis ELSE entries'[Len(entries')].entry_hash
  BY <1>2, <1>3, <1>4, <1>5
<1>15. \A i \in 1..Len(entries') :
         /\ DOMAIN entries'[i] = {"timestamp", "content", "prev_hash", "entry_hash"}
         /\ entries'[i].timestamp \in 0..MaxWall
         /\ EntryLinked(i)' /\ EntryHashed(i)'
  <2>1. \A i \in 1..Len(entries') : i = n + 1 \/ i \in 1..n
    BY <1>3, <1>5
  <2> QED BY <1>10, <1>11, <2>1
<1>16. wall' \in 0..MaxWall /\ \E Q : entries' \in Seq(Q)
  BY <1>2, <1>5 DEF AuditInv
<1>17. \A i, j \in 1..Len(entries') : entries'[i].entry_hash = entries'[j].entry_hash => i = j
  BY <1>5, <1>13
<1> QED BY <1>6, <1>14, <1>15, <1>16, <1>17 DEF AuditInv

LEMMA AlterIsSeen == ASSUME AuditInv, NEW k, NEW c, AlterEntry(k, c) PROVE AuditInv'
<1>1. PICK S : entries \in Seq(S)
  BY DEF AuditInv
<1>2. /\ k \in 1..Len(entries) /\ k \notin altered /\ c # entries[k].content
      /\ entries' = [entries EXCEPT ![k].content = c] /\ altered' = altered \cup {k}
      /\ last_hash' = last_hash /\ wall' = wall /\ Len(entries) \in Nat
      /\ DOMAIN entries = 1..Len(entries)
  BY <1>1 DEF AlterEntry
<1> DEFINE e == [entries[k] EXCEPT !.content = c]
<1>3. entries' = [entries EXCEPT ![k] = e]
  BY <1>2
<1>4. entries \in Seq(S \cup {e}) /\ e \in S \cup {e}
  BY <1>1, SeqMonotonic
<1>5. \A i \in 1..Len(entries) : EntryLinked(i) /\ EntryHashed(i) /\ entries[i].timestamp \in 0..MaxWall
        /\ DOMAIN entries[i] = {"timestamp", "content", "prev_hash", "entry_hash"}
  BY DEF AuditInv
<1>6. /\ DOMAIN e = {"timestamp", "content", "prev_hash", "entry_hash"}
      /\ e.timestamp = entries[k].timestamp /\ e.prev_hash = entries[k].prev_hash
      /\ e.entry_hash = entries[k].entry_hash /\ e.content = c
  BY <1>2, <1>5
<1> HIDE DEF e
<1>7. entries' \in Seq(S \cup {e}) /\ Len(entries') = Len(entries)
  BY <1>2, <1>3, <1>4
<1>8. \A i \in 1..Len(entries) : entries'[i] = IF i = k THEN e ELSE entries[i]
  BY <1>2, <1>3
<1>9. \A i \in 1..Len(entries) :
        /\ entries'[i].timestamp = entries[i].timestamp /\ entries'[i].prev_hash = entries[i].prev_hash
        /\ entries'[i].entry_hash = entries[i].entry_hash
        /\ DOMAIN entries'[i] = {"timestamp", "content", "prev_hash", "entry_hash"}
  BY <1>5, <1>6, <1>8
<1>10. ASSUME NEW i \in 1..Len(entries) PROVE EntryLinked(i)'
  <2>1. i # 1 => i - 1 \in 1..Len(entries)
    BY <1>2
  <2> QED BY <1>5, <1>9, <2>1 DEF EntryLinked
<1>11. ASSUME NEW i \in 1..Len(entries) PROVE EntryHashed(i)'
  <2>1. PICK d : /\ entries[i].entry_hash = Hash(entries[i].timestamp, d, entries[i].prev_hash)
                 /\ d = entries[i].content <=> i \notin altered
    BY <1>5 DEF EntryHashed
  <2>2. entries'[i].entry_hash = Hash(entries'[i].timestamp, d, entries'[i].prev_hash)
    BY <1>9, <2>1
  <2>3. d = entries'[i].content <=> i \notin altered'
    BY <1>2, <1>6, <1>8, <2>1
  <2> QED BY <2>2, <2>3 DEF EntryHashed
<1>12. altered' \subseteq 1..Len(entries)
  BY <1>2 DEF AuditInv
<1>17. last_hash = IF Len(entries) = 0 THEN Genesis ELSE entries[Len(entries)].entry_hash
  BY DEF AuditInv
<1>18. Len(entries) <= MaxEntries /\ wall \in 0..MaxWall
  BY DEF AuditInv
<1>19. \A i, j \in 1..Len(entries) : entries[i].entry_hash = entries[j].entry_hash => i = j
  BY DEF AuditInv
<1>13. last_hash' = IF Len(entries') = 0 THEN Genesis ELSE entries'[Len(entries')].entry_hash
  <2>1. Len(entries) # 0 => Len(entries) \in 1..Len(entries)
    BY <1>2
  <2> QED BY <1>2, <1>7, <1>9, <1>17, <2>1
<1>14. \E Q : entries' \in Seq(Q)
  BY <1>7
<1>15. \A i, j \in 1..Len(entries') : entries'[i].entry_hash = entries'[j].entry_hash => i = j
  BY <1>7, <1>9, <1>19
<1>16. \A i \in 1..Len(entries') :
         /\ DOMAIN entries'[i] = {"timestamp", "content", "prev_hash", "entry_hash"}
         /\ entries'[i].timestamp \in 0..MaxWall
         /\ EntryLinked(i)' /\ EntryHashed(i)'
  BY <1>5, <1>7, <1>9, <1>10, <1>11
<1> QED BY <1>2, <1>7, <1>12, <1>13, <1>14, <1>15, <1>16, <1>18 DEF AuditInv

LEMMA AuditKeeps == AuditInv /\ (AuditNext \/ UNCHANGED auditVars) => AuditInv'
<1> SUFFICES ASSUME AuditInv, AuditNext \/ UNCHANGED auditVars PROVE AuditInv'
  OBVIOUS
<1>1. CASE UNCHANGED <<entries, last_hash, altered>> /\ wall' \in 0..MaxWall
  BY <1>1 DEF AuditInv, EntryLinked, EntryHashed
<1>2. CASE UNCHANGED auditVars
  BY <1>1, <1>2 DEF auditVars, AuditInv
<1>3. ASSUME NEW t \in 0..MaxWall, SetWall(t) PROVE AuditInv'
  BY <1>1, <1>3 DEF SetWall
<1> QED BY <1>2, <1>3, AppendIsChained, AlterIsSeen DEF AuditNext

(* Among the entries the sort puts before i there is a last one. *)
LEMMA LastExists ==
  ASSUME AuditInv, NEW i \in 1..Len(entries), Predecessors(entries, i) # {}
  PROVE  \E j \in Predecessors(entries, i) :
            \A k \in Predecessors(entries, i) : k = j \/ SortedBefore(entries, k, j)
<1> DEFINE Q == Predecessors(entries, i)
           T == {MaxWall - entries[j].timestamp : j \in Q}
<1>1. DOMAIN entries = 1..Len(entries) /\ Len(entries) \in Nat
  BY DEF AuditInv
<1>2. \A j \in 1..Len(entries) : entries[j].timestamp \in 0..MaxWall
  BY DEF AuditInv
<1>3. Q \subseteq 1..Len(entries)
  BY <1>1 DEF Predecessors
<1> HIDE DEF Q
<1>4. T \in SUBSET Nat /\ T # {}
  BY <1>2, <1>3, AuditConstants DEF Q
<1>5. PICK m \in T : \A t \in T : m <= t
  <2> HIDE DEF T
  <2> QED BY <1>4, SmallestElement
<1>6. PICK l \in Q : m = MaxWall - entries[l].timestamp
  BY <1>5
<1>7. \A k \in Q : entries[k].timestamp <= entries[l].timestamp
  <2> SUFFICES ASSUME NEW k \in Q PROVE entries[k].timestamp <= entries[l].timestamp
    OBVIOUS
  <2>1. MaxWall - entries[k].timestamp \in T
    OBVIOUS
  <2>2. m <= MaxWall - entries[k].timestamp
    BY <1>5, <2>1
  <2>3. entries[k].timestamp \in Nat /\ entries[l].timestamp \in Nat
    BY <1>2, <1>3
  <2> HIDE DEF T
  <2>4. PICK a \in Nat, b \in Nat : a = entries[k].timestamp /\ b = entries[l].timestamp
    BY <2>3
  <2>5. MaxWall \in Nat /\ MaxWall - b <= MaxWall - a
    BY <1>6, <2>2, <2>4, AuditConstants
  <2>6. a <= b
    BY <2>5
  <2> QED BY <2>4, <2>6
<1> DEFINE U == {Len(entries) - j : j \in {k \in Q : entries[k].timestamp = entries[l].timestamp}}
<1>8. U \in SUBSET Nat /\ U # {}
  BY <1>1, <1>3
<1>9. PICK u \in U : \A w \in U : u <= w
  <2> HIDE DEF U
  <2> QED BY <1>8, SmallestElement
<1>10. PICK j \in Q : u = Len(entries) - j /\ entries[j].timestamp = entries[l].timestamp
  BY <1>9
<1>11. ASSUME NEW k \in Q, k # j PROVE SortedBefore(entries, k, j)
  <2>1. k \in Nat /\ j \in Nat /\ entries[k].timestamp \in Nat /\ entries[j].timestamp \in Nat
    BY <1>2, <1>3
  <2>2. CASE entries[k].timestamp = entries[l].timestamp
    <3>1. Len(entries) - k \in U
      BY <2>2
    <3>2. Len(entries) - j <= Len(entries) - k
      BY <1>9, <1>10, <3>1
    <3>3. k < j
      BY <1>1, <1>11, <2>1, <3>2
    <3> QED BY <1>10, <2>2, <3>3 DEF SortedBefore
  <2>3. CASE entries[k].timestamp # entries[l].timestamp
    <3>1. entries[k].timestamp < entries[j].timestamp
      BY <1>7, <1>10, <2>1, <2>3
    <3> QED BY <3>1 DEF SortedBefore
  <2> QED BY <2>2, <2>3
<1> QED BY <1>10, <1>11 DEF Q

(* The sort leaves the entries where they are if no timestamp goes back:   *)
(* the entry before i in it is i - 1.                                      *)
Monotone == \A i, j \in 1..Len(entries) : i < j => entries[i].timestamp <= entries[j].timestamp

LEMMA ExpectedInOrder ==
  ASSUME AuditInv, Monotone, NEW i \in 1..Len(entries)
  PROVE  ExpectedPrev(entries, i) = IF i = 1 THEN Genesis ELSE entries[i - 1].entry_hash
<1>1. DOMAIN entries = 1..Len(entries) /\ Len(entries) \in Nat
  BY DEF AuditInv
<1>2. \A j \in 1..Len(entries) : entries[j].timestamp \in Nat
  BY DEF AuditInv
<1>3. \A j, k \in 1..Len(entries) : SortedBefore(entries, j, k) <=> j < k
  BY <1>1, <1>2 DEF Monotone, SortedBefore
<1>4. Predecessors(entries, i) = 1..(i - 1)
  <2>1. \A j \in 1..Len(entries) : j \in Predecessors(entries, i) <=> j < i
    BY <1>1, <1>3 DEF Predecessors
  <2>2. Predecessors(entries, i) \subseteq 1..Len(entries)
    BY <1>1 DEF Predecessors
  <2>3. \A j \in 1..Len(entries) : j < i <=> j \in 1..(i - 1)
    BY <1>1
  <2>4. 1..(i - 1) \subseteq 1..Len(entries)
    BY <1>1
  <2> QED BY <2>1, <2>2, <2>3, <2>4
<1>5. CASE i = 1
  BY <1>4, <1>5 DEF ExpectedPrev
<1>6. CASE i # 1
  <2> DEFINE LatestAt(j) == \A k \in Predecessors(entries, i) : k = j \/ SortedBefore(entries, k, j)
  <2>0. i - 1 \in 1..(i - 1)
    BY <1>1, <1>6
  <2>1. i - 1 \in Predecessors(entries, i) /\ Predecessors(entries, i) # {}
    BY <1>4, <2>0
  <2>2. LatestAt(i - 1)
    BY <1>1, <1>3, <1>4
  <2>3. \A j \in Predecessors(entries, i) : LatestAt(j) => j = i - 1
    BY <1>1, <1>3, <1>4, <2>1
  <2> DEFINE p == CHOOSE j \in Predecessors(entries, i) : LatestAt(j)
  <2>4. ExpectedPrev(entries, i) = entries[p].entry_hash
    BY <2>1 DEF ExpectedPrev
  <2>5. p = i - 1
    <3> HIDE DEF LatestAt
    <3> QED BY <2>1, <2>2, <2>3
  <2> HIDE DEF p
  <2> QED BY <1>6, <2>4, <2>5
<1> QED BY <1>5, <1>6

(* A chain whose links hold in the sorted order was never set back: the    *)
(* entry the sort puts before i has the hash that only i - 1 has.          *)
LEMMA LinksInOrder ==
  ASSUME AuditInv, \A i \in 1..Len(entries) : entries[i].prev_hash = ExpectedPrev(entries, i)
  PROVE  Monotone
<1>1. DOMAIN entries = 1..Len(entries) /\ Len(entries) \in Nat
  BY DEF AuditInv
<1>2. \A j \in 1..Len(entries) : entries[j].timestamp \in Nat
  BY DEF AuditInv
<1>3. ASSUME NEW i \in 1..Len(entries), i # 1
      PROVE  i - 1 \in 1..Len(entries) /\ entries[i - 1].timestamp <= entries[i].timestamp
  <2>1. i - 1 \in 1..Len(entries) /\ entries[i].prev_hash = entries[i - 1].entry_hash
    BY <1>1, <1>3 DEF AuditInv, EntryLinked
  <2>2. PICK c : entries[i - 1].entry_hash = Hash(entries[i - 1].timestamp, c, entries[i - 1].prev_hash)
    BY <2>1 DEF AuditInv, EntryHashed
  <2> DEFINE LatestAt(j) == \A k \in Predecessors(entries, i) : k = j \/ SortedBefore(entries, k, j)
             p == CHOOSE j \in Predecessors(entries, i) : LatestAt(j)
  <2>3. ExpectedPrev(entries, i) # Genesis
    BY <2>1, <2>2, HashIsNotGenesis
  <2>4. Predecessors(entries, i) # {} /\ ExpectedPrev(entries, i) = entries[p].entry_hash
    BY <2>3 DEF ExpectedPrev
  <2>5. \E j \in Predecessors(entries, i) : LatestAt(j)
    BY <1>1, <2>4, LastExists
  <2>6. p \in Predecessors(entries, i)
    <3> HIDE DEF LatestAt
    <3> QED BY <2>5
  <2> HIDE DEF p
  <2>7. p \in 1..Len(entries) /\ SortedBefore(entries, p, i)
    BY <1>1, <2>6 DEF Predecessors
  <2>8. p = i - 1
    BY <2>1, <2>4, <2>7 DEF AuditInv
  <2> QED BY <1>2, <2>1, <2>7, <2>8 DEF SortedBefore
<1>4. ASSUME NEW j \in 1..Len(entries)
      PROVE  \A i \in 1..j : entries[i].timestamp <= entries[j].timestamp
  <2> DEFINE S == {d \in 0..(j - 1) : entries[j - d].timestamp <= entries[j].timestamp}
  <2>1. 0 \in S
    BY <1>1, <1>2
  <2>2. ASSUME NEW d \in 0..(j - 1 - 1), d \in S PROVE d + 1 \in S
    <3>1. j - d \in 1..Len(entries) /\ j - d # 1 /\ j - d - 1 = j - (d + 1) /\ d + 1 \in 0..(j - 1)
          /\ j \in 1..Len(entries)
      BY <1>1
    <3>2. entries[j - d - 1].timestamp <= entries[j - d].timestamp /\ j - d - 1 \in 1..Len(entries)
      BY <1>3, <3>1
    <3>3. entries[j - d].timestamp <= entries[j].timestamp
      BY <2>2
    <3>4. entries[j - (d + 1)].timestamp <= entries[j].timestamp
      BY <1>2, <3>1, <3>2, <3>3
    <3> QED BY <3>1, <3>4
  <2>3. j - 1 \in Nat
    BY <1>1
  <2> HIDE DEF S
  <2>4. 0..(j - 1) \subseteq S
    BY <2>1, <2>2, <2>3, SetInduction
  <2>5. ASSUME NEW i \in 1..j PROVE entries[i].timestamp <= entries[j].timestamp
    <3>1. j - i \in 0..(j - 1) /\ j - (j - i) = i
      BY <1>1
    <3> QED BY <2>4, <3>1 DEF S
  <2> QED BY <2>5
<1>5. ASSUME NEW i \in 1..Len(entries), NEW j \in 1..Len(entries), i < j
      PROVE  entries[i].timestamp <= entries[j].timestamp
  <2>1. i \in 1..j
    BY <1>1, <1>5
  <2> QED BY <1>4, <2>1
<1> QED BY <1>5 DEF Monotone

LEMMA AuditHolds == AuditInv => AuditTypeOK /\ ChainVerdictExact
<1> SUFFICES ASSUME AuditInv PROVE AuditTypeOK /\ ChainVerdictExact
  OBVIOUS
<1>1. DOMAIN entries = 1..Len(entries) /\ Len(entries) \in Nat
  BY DEF AuditInv
<1>2. AuditTypeOK
  BY <1>1 DEF AuditTypeOK, AuditInv
<1>3. \A i \in 1..Len(entries) : IsTampered(entries[i]) <=> i \in altered
  <2> SUFFICES ASSUME NEW i \in 1..Len(entries) PROVE IsTampered(entries[i]) <=> i \in altered
    OBVIOUS
  <2>1. PICK c : /\ entries[i].entry_hash = Hash(entries[i].timestamp, c, entries[i].prev_hash)
                 /\ c = entries[i].content <=> i \notin altered
    BY DEF AuditInv, EntryHashed
  <2> QED BY <2>1 DEF IsTampered, Hash
<1>4. Monotone <=> \A i, j \in DOMAIN entries : i < j => entries[i].timestamp <= entries[j].timestamp
  BY <1>1 DEF Monotone
<1>5. ASSUME VerifyChain(entries) PROVE altered = {} /\ Monotone
  <2>1. \A i \in 1..Len(entries) : entries[i].prev_hash = ExpectedPrev(entries, i) /\ ~IsTampered(entries[i])
    BY <1>1, <1>5 DEF VerifyChain
  <2>2. Monotone
    BY <2>1, LinksInOrder
  <2>3. altered = {}
    BY <1>3, <2>1 DEF AuditInv
  <2> QED BY <2>2, <2>3
<1>6. ASSUME altered = {}, Monotone PROVE VerifyChain(entries)
  <2> SUFFICES ASSUME NEW i \in 1..Len(entries)
               PROVE  entries[i].prev_hash = ExpectedPrev(entries, i) /\ ~IsTampered(entries[i])
    BY <1>1 DEF VerifyChain
  <2>1. ExpectedPrev(entries, i) = IF i = 1 THEN Genesis ELSE entries[i - 1].entry_hash
    BY <1>6, ExpectedInOrder
  <2>2. EntryLinked(i)
    BY DEF AuditInv
  <2> QED BY <1>3, <1>6, <2>1, <2>2 DEF EntryLinked
<1>7. ChainVerdictExact
  BY <1>4, <1>5, <1>6 DEF ChainVerdictExact
<1> QED BY <1>2, <1>7

-----------------------------------------------------------------------------
RecordInv == AlarmInv /\ OrderInv /\ BpmnInv /\ SafetyInv /\ AuditInv

(* What the plant's services keep on record replays to what happened: the  *)
(* alarms' histories and stamps, the work orders' trails, the workflows'   *)
(* tasks, the approvals and gate decisions, and the verdict on the audit   *)
(* chain, which is yes exactly when nothing was altered and the clock was  *)
(* never set back.                                                         *)
THEOREM RecordsTold == Spec => []RecordsTellWhatHappened
<1>1. Init => RecordInv
  BY AlarmStart, OrderStart, BpmnStart, SafetyStart, AuditStart DEF Init, RecordInv
<1>2. RecordInv /\ [Next]_vars => RecordInv'
  BY PartSteps, AlarmKeeps, OrderKeeps, BpmnKeeps, SafetyKeeps, AuditKeeps DEF RecordInv
<1>3. RecordInv => RecordsTellWhatHappened
  BY AlarmHolds, OrderHolds, BpmnHolds, SafetyHolds, AuditHolds DEF RecordInv, RecordsTellWhatHappened
<1> QED BY <1>1, <1>2, <1>3, PTL DEF Spec

-----------------------------------------------------------------------------
(* The permission engine: the loop over the constraints denies exactly     *)
(* when one of them does.                                                  *)

Denies(c, resource, context) == AbacDenied(FALSE, c, resource, context)

LEMMA LoopDenies ==
  ASSUME NEW cs \in Seq(AbacConstraint), NEW resource, NEW context
  PROVE  AbacLoop(cs, resource, context)[Len(cs)] <=> \E i \in 1..Len(cs) : Denies(cs[i], resource, context)
<1> DEFINE n == Len(cs)
           D(i) == Denies(cs[i], resource, context)
           Turn(b, i) == AbacDenied(b, cs[i], resource, context)
           Loops(f) == f = [i \in 0..n |-> IF i = 0 THEN FALSE ELSE Turn(f[i - 1], i)]
           f == [i \in 0..n |-> \E j \in 1..i : D(j)]
           g == AbacLoop(cs, resource, context)
<1>1. n \in Nat
  OBVIOUS
<1>2. \A b \in BOOLEAN, i \in 1..n : Turn(b, i) = (b \/ D(i))
  BY DEF AbacDenied, Denies
<1>3. g = CHOOSE h : Loops(h)
  BY DEF AbacLoop
<1> HIDE DEF n, D, Turn, g
<1>4. Loops(f)
  <2>1. f = [i \in 0..n |-> f[i]]
    OBVIOUS
  <2>2. f[0] = FALSE
    BY <1>1
  <2>3. ASSUME NEW i \in 1..n PROVE f[i] = Turn(f[i - 1], i)
    <3>1. i - 1 \in 0..n /\ i \in 0..n /\ 1..i = 1..(i - 1) \cup {i}
      BY <1>1
    <3>2. f[i] = (\E j \in 1..i : D(j)) /\ f[i - 1] = (\E j \in 1..(i - 1) : D(j))
      BY <3>1
    <3>3. f[i - 1] \in BOOLEAN /\ f[i] = (f[i - 1] \/ D(i))
      BY <3>1, <3>2
    <3> HIDE DEF f
    <3>4. Turn(f[i - 1], i) = (f[i - 1] \/ D(i))
      BY <1>2, <3>3, Zenon
    <3> QED BY <3>3, <3>4, Zenon
  <2>4. ASSUME NEW i \in 0..n PROVE f[i] = IF i = 0 THEN FALSE ELSE Turn(f[i - 1], i)
    <3> HIDE DEF f
    <3>1. i = 0 \/ i \in 1..n
      BY <1>1
    <3>2. i \in 1..n => i # 0
      BY <1>1
    <3> QED BY <2>2, <2>3, <3>1, <3>2, Zenon
  <2> HIDE DEF f
  <2> QED BY <2>1, <2>4
<1>5. Loops(g)
  BY <1>3, <1>4
<1>6. \A i \in 0..n : g[i] = IF i = 0 THEN FALSE ELSE Turn(g[i - 1], i)
  BY <1>5, Zenon
<1> DEFINE S == {i \in 0..n : g[i] = (\E j \in 1..i : D(j))}
<1>7. 0 \in S
  <2>1. 0 \in 0..n /\ 1..0 = {}
    BY <1>1
  <2>2. g[0] = FALSE
    BY <1>6, <2>1, Zenon
  <2>3. ~\E j \in 1..0 : D(j)
    BY <2>1, Zenon
  <2> QED BY <2>1, <2>2, <2>3, Zenon
<1>8. ASSUME NEW i \in 0..(n - 1), i \in S PROVE i + 1 \in S
  <2>1. i + 1 \in 1..n /\ i + 1 \in 0..n /\ (i + 1) - 1 = i /\ i + 1 # 0 /\ 1..(i + 1) = 1..i \cup {i + 1}
    BY <1>1, <1>8
  <2>2. g[i] = (\E j \in 1..i : D(j)) /\ g[i] \in BOOLEAN
    BY <1>8
  <2>3. g[i + 1] = Turn(g[i], i + 1)
    BY <1>6, <2>1
  <2>4. g[i + 1] = (g[i] \/ D(i + 1))
    BY <1>2, <2>1, <2>2, <2>3
  <2>5. (\E j \in 1..(i + 1) : D(j)) <=> (\E j \in 1..i : D(j)) \/ D(i + 1)
    BY <2>1
  <2> QED BY <2>1, <2>2, <2>4, <2>5
<1> HIDE DEF S
<1>9. n \in S
  <2>1. \A i \in 0..(n - 1) : i \in S => i + 1 \in S
    BY <1>8
  <2>2. 0..n \subseteq S
    BY <1>1, <1>7, <2>1, SetInduction, Zenon
  <2> QED BY <1>1, <2>2
<1> QED BY <1>9 DEF S, g, n, D

Questions == Subjects \X Operations \X Resources \X Contexts

ByRules(rules) ==
  {p \in Questions : \E i \in DOMAIN rules : rules[i] = [role |-> p[1], action |-> p[2], resource |-> p[3]]}

DeniedBy(cs) == {p \in Questions : \E i \in 1..Len(cs) : Denies(cs[i], p[3], p[4])}

LEMMA PermittedIs ==
  ASSUME NEW rules, NEW cs \in Seq(AbacConstraint)
  PROVE  Permitted(rules, cs) = ByRules(rules) \ DeniedBy(cs)
<1>1. ASSUME NEW p \in Questions
      PROVE  Check(rules, cs, p[1], p[2], p[3], p[4]) <=> p \in ByRules(rules) \ DeniedBy(cs)
  <2>1. AbacLoop(cs, p[3], p[4])[Len(cs)] <=> \E i \in 1..Len(cs) : Denies(cs[i], p[3], p[4])
    BY LoopDenies
  <2>2. AbacLoop(cs, p[3], p[4])[Len(cs)] <=> p \in DeniedBy(cs)
    BY <2>1 DEF DeniedBy
  <2>3. p \in ByRules(rules) <=>
          \E i \in DOMAIN rules : rules[i] = [role |-> p[1], action |-> p[2], resource |-> p[3]]
    BY DEF ByRules
  <2> QED BY <2>2, <2>3, Zenon DEF Check
<1>2. Permitted(rules, cs) = {p \in Questions : Check(rules, cs, p[1], p[2], p[3], p[4])}
  BY DEF Permitted, Questions
<1>3. ByRules(rules) \subseteq Questions
  BY DEF ByRules
<1> QED BY <1>1, <1>2, <1>3

LEMMA ReversedDenies ==
  ASSUME NEW cs \in Seq(AbacConstraint)
  PROVE  Reverse(cs) \in Seq(AbacConstraint) /\ DeniedBy(Reverse(cs)) = DeniedBy(cs)
<1> DEFINE n == Len(cs)
           r == Reverse(cs)
<1>1. n \in Nat /\ \A i \in 1..n : cs[i] \in AbacConstraint
  OBVIOUS
<1>2. r = [i \in 1..n |-> cs[(n - i) + 1]]
  BY DEF Reverse
<1> HIDE DEF n, r
<1>3. \A i \in 1..n : (n - i) + 1 \in 1..n /\ (n - ((n - i) + 1)) + 1 = i
  BY <1>1
<1>4. r \in [1..n -> AbacConstraint]
  BY <1>1, <1>2, <1>3
<1>5. r \in Seq(AbacConstraint)
  BY <1>1, <1>4, SeqDef
<1>6. Len(r) = n
  BY <1>1, <1>4, <1>5, LenProperties
<1>7. /\ \A i \in 1..n : \E j \in 1..n : r[i] = cs[j]
      /\ \A j \in 1..n : \E i \in 1..n : r[i] = cs[j]
  <2>1. \A i \in 1..n : r[i] = cs[(n - i) + 1]
    BY <1>2
  <2>2. \A j \in 1..n : r[(n - j) + 1] = cs[j]
    BY <1>3, <2>1
  <2> QED BY <1>3, <2>1, <2>2
<1>8. ASSUME NEW p PROVE (\E i \in 1..n : Denies(r[i], p[3], p[4])) <=> \E j \in 1..n : Denies(cs[j], p[3], p[4])
  <2>1. ASSUME NEW i \in 1..n, Denies(r[i], p[3], p[4]) PROVE \E j \in 1..n : Denies(cs[j], p[3], p[4])
    <3>1. PICK j \in 1..n : r[i] = cs[j]
      BY <1>7
    <3> QED BY <2>1, <3>1
  <2>2. ASSUME NEW j \in 1..n, Denies(cs[j], p[3], p[4]) PROVE \E i \in 1..n : Denies(r[i], p[3], p[4])
    <3>1. PICK i \in 1..n : r[i] = cs[j]
      BY <1>7
    <3> QED BY <2>2, <3>1
  <2> QED BY <2>1, <2>2
<1>9. DeniedBy(r) = {p \in Questions : \E i \in 1..n : Denies(r[i], p[3], p[4])}
      /\ DeniedBy(cs) = {p \in Questions : \E i \in 1..n : Denies(cs[i], p[3], p[4])}
  BY <1>6 DEF DeniedBy, n
<1>10. DeniedBy(r) = DeniedBy(cs)
  BY <1>8, <1>9
<1> QED BY <1>5, <1>10 DEF r

LEMMA RemovedFrom ==
  ASSUME NEW T, NEW s \in Seq(T), NEW i \in 1..Len(s)
  PROVE  /\ RemoveAt(s, i) \in Seq(T) /\ Len(RemoveAt(s, i)) = Len(s) - 1
         /\ \A j \in 1..Len(RemoveAt(s, i)) : \E k \in 1..Len(s) : RemoveAt(s, i)[j] = s[k]
<1> DEFINE a == SubSeq(s, 1, i - 1)
           b == SubSeq(s, i + 1, Len(s))
           r == a \o b
<1>1. Len(s) \in Nat /\ i \in Nat /\ i >= 1 /\ i <= Len(s)
  OBVIOUS
<1>2. a \in Seq(T) /\ Len(a) = i - 1 /\ \A j \in 1..(i - 1) : a[j] = s[j]
  BY <1>1
<1>3. b \in Seq(T) /\ Len(b) = Len(s) - i /\ \A j \in 1..(Len(s) - i) : b[j] = s[i + j]
  <2>1. CASE i < Len(s)
    BY <1>1, <2>1, SubSeqProperties
  <2>2. CASE i = Len(s)
    <3>1. b = <<>>
      BY <1>1, <2>2, SubSeqEmpty
    <3> QED BY <1>1, <2>2, <3>1
  <2> QED BY <1>1, <2>1, <2>2
<1> HIDE DEF a, b
<1>4. r \in Seq(T) /\ Len(r) = Len(a) + Len(b)
      /\ \A j \in 1..(Len(a) + Len(b)) : r[j] = IF j <= Len(a) THEN a[j] ELSE b[j - Len(a)]
  BY <1>2, <1>3, ConcatProperties
<1> HIDE DEF r
<1>5. Len(r) = Len(s) - 1
  BY <1>1, <1>2, <1>3, <1>4
<1>6. ASSUME NEW j \in 1..Len(r) PROVE \E k \in 1..Len(s) : r[j] = s[k]
  <2>1. CASE j <= i - 1
    <3>1. j \in 1..(i - 1) /\ j \in 1..Len(s) /\ r[j] = a[j]
      BY <1>1, <1>2, <1>4, <1>5, <2>1
    <3> QED BY <1>2, <3>1
  <2>2. CASE ~(j <= i - 1)
    <3>1. j - (i - 1) \in 1..(Len(s) - i) /\ i + (j - (i - 1)) = j + 1 /\ j + 1 \in 1..Len(s)
      BY <1>1, <1>5, <2>2
    <3>2. r[j] = b[j - (i - 1)]
      BY <1>1, <1>2, <1>4, <2>2
    <3> QED BY <1>3, <3>1, <3>2
  <2> QED BY <2>1, <2>2
<1>7. RemoveAt(s, i) = r
  BY DEF RemoveAt, r, a, b
<1> QED BY <1>4, <1>5, <1>6, <1>7

LEMMA PermissionStart == PermissionInit => PermissionTypeOK
BY DEF PermissionInit, PermissionTypeOK

LEMMA PermissionKeeps ==
  ASSUME PermissionTypeOK, PermissionNext \/ UNCHANGED permissionVars
  PROVE  PermissionTypeOK'
<1>1. CASE UNCHANGED permissionVars
  BY <1>1 DEF permissionVars, PermissionTypeOK
<1>2. ASSUME NEW rule \in RbacRule, AddRbacRule(rule) PROVE PermissionTypeOK'
  BY <1>2 DEF AddRbacRule, PermissionTypeOK
<1>3. ASSUME NEW c \in AbacConstraint, AddAbacConstraint(c) PROVE PermissionTypeOK'
  BY <1>3 DEF AddAbacConstraint, PermissionTypeOK
<1>4. ASSUME NEW i, DeleteRbacRule(i) PROVE PermissionTypeOK'
  <2>1. rbac_rules \in Seq(RbacRule) /\ i \in 1..Len(rbac_rules)
    BY <1>4 DEF DeleteRbacRule, PermissionTypeOK
  <2>2. RemoveAt(rbac_rules, i) \in Seq(RbacRule)
    BY <2>1, RemovedFrom
  <2> QED BY <1>4, <2>2 DEF DeleteRbacRule, PermissionTypeOK
<1>5. ASSUME NEW i, DeleteAbacConstraint(i) PROVE PermissionTypeOK'
  <2>1. abac_constraints \in Seq(AbacConstraint) /\ i \in 1..Len(abac_constraints)
    BY <1>5 DEF DeleteAbacConstraint, PermissionTypeOK
  <2>2. RemoveAt(abac_constraints, i) \in Seq(AbacConstraint)
    BY <2>1, RemovedFrom
  <2> QED BY <1>5, <2>2 DEF DeleteAbacConstraint, PermissionTypeOK
<1> QED BY <1>1, <1>2, <1>3, <1>4, <1>5 DEF PermissionNext

(* What ConstraintsOnlyNarrow says of a step. *)
Narrows ==
  LET before == Permitted(rbac_rules, abac_constraints)
      after == Permitted(rbac_rules, abac_constraints)'
  IN  /\ Len(abac_constraints') > Len(abac_constraints) \/ Len(rbac_rules') < Len(rbac_rules)
            => after \subseteq before
      /\ after = Permitted(rbac_rules, Reverse(abac_constraints))'

LEMMA PermissionNarrows ==
  ASSUME PermissionTypeOK, PermissionNext \/ UNCHANGED permissionVars
  PROVE  Narrows
<1> DEFINE R == rbac_rules
           C == abac_constraints
           RR == rbac_rules'
           CC == abac_constraints'
<1>1. R \in Seq(RbacRule) /\ C \in Seq(AbacConstraint) /\ RR \in Seq(RbacRule) /\ CC \in Seq(AbacConstraint)
  <2>1. PermissionTypeOK'
    BY PermissionKeeps
  <2> QED BY <2>1 DEF PermissionTypeOK
<1>2. Permitted(R, C) = ByRules(R) \ DeniedBy(C)
  BY <1>1, PermittedIs
<1>3. Permitted(RR, CC) = ByRules(RR) \ DeniedBy(CC)
  BY <1>1, PermittedIs
<1>4. Permitted(RR, Reverse(CC)) = Permitted(RR, CC)
  <2>1. Reverse(CC) \in Seq(AbacConstraint) /\ DeniedBy(Reverse(CC)) = DeniedBy(CC)
    BY <1>1, ReversedDenies
  <2>2. Permitted(RR, Reverse(CC)) = ByRules(RR) \ DeniedBy(Reverse(CC))
    BY <2>1, PermittedIs
  <2> QED BY <1>3, <2>1, <2>2
<1>5. ASSUME Len(CC) > Len(C) \/ Len(RR) < Len(R) PROVE ByRules(RR) \ DeniedBy(CC) \subseteq ByRules(R) \ DeniedBy(C)
  <2>0. Len(C) \in Nat /\ Len(R) \in Nat
    BY <1>1
  <2>1. CASE UNCHANGED permissionVars
    BY <1>5, <2>0, <2>1 DEF permissionVars
  <2>2. ASSUME NEW rule \in RbacRule, AddRbacRule(rule) PROVE FALSE
    BY <1>1, <1>5, <2>0, <2>2 DEF AddRbacRule
  <2>3. ASSUME NEW c \in AbacConstraint, AddAbacConstraint(c)
        PROVE  ByRules(RR) \ DeniedBy(CC) \subseteq ByRules(R) \ DeniedBy(C)
    <3>1. RR = R /\ CC = Append(C, c)
      BY <2>3 DEF AddAbacConstraint
    <3>2. Len(CC) = Len(C) + 1 /\ \A i \in 1..Len(C) : CC[i] = C[i]
      BY <1>1, <3>1
    <3>3. \A i \in 1..Len(C) : i \in 1..Len(CC)
      BY <2>0, <3>2
    <3>4. DeniedBy(C) \subseteq DeniedBy(CC)
      BY <3>2, <3>3 DEF DeniedBy
    <3> QED BY <3>1, <3>4
  <2>4. ASSUME NEW i, DeleteRbacRule(i)
        PROVE  ByRules(RR) \ DeniedBy(CC) \subseteq ByRules(R) \ DeniedBy(C)
    <3>1. RR = RemoveAt(R, i) /\ CC = C /\ i \in 1..Len(R)
      BY <1>1, <2>4 DEF DeleteRbacRule
    <3>2. \A j \in 1..Len(RR) : \E k \in 1..Len(R) : RR[j] = R[k]
      <4>1. R \in Seq(RbacRule) /\ i \in 1..Len(R)
        BY <1>1, <3>1
      <4>2. \A j \in 1..Len(RemoveAt(R, i)) : \E k \in 1..Len(R) : RemoveAt(R, i)[j] = R[k]
        BY <4>1, RemovedFrom
      <4> QED BY <3>1, <4>2
    <3>3. DOMAIN RR = 1..Len(RR) /\ DOMAIN R = 1..Len(R)
      BY <1>1
    <3>4. ByRules(RR) \subseteq ByRules(R)
      BY <3>2, <3>3 DEF ByRules
    <3> QED BY <3>1, <3>4
  <2>5. ASSUME NEW i, DeleteAbacConstraint(i) PROVE FALSE
    <3>1. CC = RemoveAt(C, i) /\ RR = R /\ i \in 1..Len(C)
      BY <1>1, <2>5 DEF DeleteAbacConstraint
    <3>2. Len(CC) = Len(C) - 1
      BY <1>1, <3>1, RemovedFrom
    <3> QED BY <1>5, <2>0, <3>1, <3>2
  <2> QED BY <2>1, <2>2, <2>3, <2>4, <2>5 DEF PermissionNext
<1> QED BY <1>2, <1>3, <1>4, <1>5 DEF Narrows

-----------------------------------------------------------------------------
(* What a step may not do to an order and to a workflow. *)

BreachStands ==
  \A o \in Orders :
    Present(o) /\ IsSlaBreached(orders[o]) /\ orders[o]' # NoOrder /\ orders[o].status' # "closed"
      => IsSlaBreached(orders[o])'

(* An order that stays keeps its deadline. *)
LEMMA DeadlineStays ==
  ASSUME OrderInv, OrderNext \/ UNCHANGED orderVars, NEW o \in Orders,
         orders[o] # NoOrder, orders'[o] # NoOrder
  PROVE  orders'[o].sla_deadline = orders[o].sla_deadline /\ day' >= day
<1>0. OrderTyped(orders[o]) /\ day \in Nat /\ orders = [p \in Orders |-> orders[p]]
  BY OrderConstants DEF OrderInv, OrderKept
<1>1. CASE UNCHANGED orderVars
  BY <1>0, <1>1 DEF orderVars
<1>2. CASE DayPasses
  BY <1>0, <1>2 DEF DayPasses
<1>3. ASSUME NEW p \in Orders, NEW d \in Deadlines \cup {NoDeadline}, CreateOrder(p, d)
      PROVE  orders'[o].sla_deadline = orders[o].sla_deadline /\ day' >= day
  <2>1. orders'[o] = orders[o] /\ day' = day
    BY <1>0, <1>3 DEF CreateOrder
  <2> QED BY <1>0, <2>1
<1>4. ASSUME NEW p \in Orders, DeleteOrder(p)
      PROVE  orders'[o].sla_deadline = orders[o].sla_deadline /\ day' >= day
  <2>1. orders'[o] = orders[o] /\ day' = day
    BY <1>0, <1>4 DEF DeleteOrder
  <2> QED BY <1>0, <2>1
<1>5. ASSUME NEW p \in Orders, NEW t \in Technicians, Assign(p, t)
      PROVE  orders'[o].sla_deadline = orders[o].sla_deadline /\ day' >= day
  BY <1>0, <1>5 DEF Assign, OrderTyped
<1>6. ASSUME NEW p \in Orders, Start(p) \/ Complete(p)
      PROVE  orders'[o].sla_deadline = orders[o].sla_deadline /\ day' >= day
  BY <1>0, <1>6 DEF Start, Complete, Move, OrderTyped
<1>7. ASSUME NEW p \in Orders, Close(p)
      PROVE  orders'[o].sla_deadline = orders[o].sla_deadline /\ day' >= day
  BY <1>0, <1>7 DEF Close, OrderTyped
<1> QED BY <1>1, <1>2, <1>3, <1>4, <1>5, <1>6, <1>7 DEF OrderNext

LEMMA BreachStandsStep ==
  ASSUME OrderInv, OrderNext \/ UNCHANGED orderVars
  PROVE  BreachStands
<1> SUFFICES ASSUME NEW o \in Orders, orders[o] # NoOrder, IsSlaBreached(orders[o]),
                    orders'[o] # NoOrder, orders'[o].status # "closed"
             PROVE  IsSlaBreached(orders[o])'
  BY DEF BreachStands, Present
<1>1. orders'[o].sla_deadline = orders[o].sla_deadline /\ day' >= day
  BY DeadlineStays
<1>2. OrderInv'
  BY OrderKeeps
<1>3. orders'[o].status \notin {"completed", "closed"}
  <2>1. orders'[o] = NoOrder \/ OrderKept(orders'[o], day')
    BY <1>2 DEF OrderInv
  <2>2. PICK n \in 1..5 : TrailUpTo(orders'[o], n, day')
    BY <2>1 DEF OrderKept
  <2>3. orders'[o].status = Statuses[n]
    BY <2>2 DEF TrailUpTo
  <2>4. Statuses[n] \in {"draft", "assigned", "in_progress", "pending_review", "closed"}
    BY DEF Statuses
  <2> QED BY <2>3, <2>4
<1>4. day \in Nat /\ day' \in Nat /\ orders[o].sla_deadline # NoDeadline /\ day > orders[o].sla_deadline
      /\ orders[o].sla_deadline \in Nat
  BY <1>2, OrderConstants DEF OrderInv, OrderKept, OrderTyped, IsSlaBreached
<1>5. day' > orders'[o].sla_deadline
  BY <1>1, <1>4
<1> QED BY <1>1, <1>3, <1>4, <1>5 DEF IsSlaBreached

Ended == {"completed", "failed", "cancelled"}

EndStands ==
  \A r \in Runs : instances[r].status \in Ended
    => instances[r].status' \in Ended /\ instances[r].completed_at' >= instances[r].completed_at

LEMMA EndStandsStep ==
  ASSUME BpmnInv, BpmnNext \/ UNCHANGED bpmnVars
  PROVE  EndStands
<1> SUFFICES ASSUME NEW r \in Runs, instances[r].status \in Ended
             PROVE  instances'[r].status \in Ended /\ instances'[r].completed_at >= instances[r].completed_at
  BY DEF EndStands
<1> DEFINE old == instances[r]
<1>1. old # NoRun /\ RunTyped(old, minute) /\ old.completed_at \in 0..minute /\ minute \in Nat
      /\ instances = [q \in Runs |-> instances[q]]
  BY BpmnConstants DEF BpmnInv, RunKept, RunTyped, NoRun, Ended
<1>2. CASE instances'[r] = old
  BY <1>1, <1>2
<1>3. CASE instances'[r].status \in Ended /\ instances'[r].completed_at = minute
  BY <1>1, <1>3
<1>4. ASSUME NEW n, NEW q \in Runs, CompleteTask(q, n) PROVE instances'[r] = old
        \/ (instances'[r].status \in Ended /\ instances'[r].completed_at >= old.completed_at)
  <2>1. CASE q # r
    BY <1>1, <1>4, <2>1 DEF CompleteTask
  <2>2. CASE q = r
    <3> DEFINE run == WithTask(old, n, "completed")
    <3>1. RunTyped(run, minute) /\ run.status = old.status /\ run.completed_at = old.completed_at
      BY <1>1, TaskChange
    <3>2. instances'[r] = IF AllDone(run.task)
                          THEN [run EXCEPT !.status = "completed", !.completed_at = minute] ELSE run
      BY <1>1, <1>4, <2>2 DEF CompleteTask
    <3> HIDE DEF run, old
    <3>3. CASE AllDone(run.task)
      <4>1. instances'[r].status = "completed" /\ instances'[r].completed_at = minute
        BY <3>1, <3>2, <3>3 DEF RunTyped
      <4> QED BY <1>1, <4>1 DEF Ended
    <3>4. CASE ~AllDone(run.task)
      BY <1>1, <3>1, <3>2, <3>4 DEF old
    <3> QED BY <3>3, <3>4
  <2> QED BY <2>1, <2>2
<1>5. ASSUME NEW n, NEW q \in Runs, FailTask(q, n) PROVE instances'[r] = old
        \/ (instances'[r].status \in Ended /\ instances'[r].completed_at = minute)
  <2>1. CASE q # r
    BY <1>1, <1>5, <2>1 DEF FailTask
  <2>2. CASE q = r
    <3> DEFINE run == WithTask(old, n, "failed")
    <3>1. RunTyped(run, minute)
      BY <1>1, TaskChange
    <3>2. instances'[r] = [run EXCEPT !.status = "failed", !.completed_at = minute]
      BY <1>1, <1>5, <2>2 DEF FailTask
    <3> HIDE DEF run, old
    <3> QED BY <3>1, <3>2 DEF RunTyped, Ended
  <2> QED BY <2>1, <2>2
<1>6. ASSUME NEW q \in Runs, CancelRun(q) PROVE instances'[r] = old
  BY <1>1, <1>6 DEF CancelRun, Ended
<1>7. ASSUME NEW q \in Runs, NEW t \in Templates, CreateInstance(q, t) PROVE instances'[r] = old
  BY <1>1, <1>7 DEF CreateInstance
<1>8. ASSUME UNCHANGED instances PROVE instances'[r] = old
  BY <1>8
<1> QED BY <1>2, <1>3, <1>4, <1>5, <1>6, <1>7, <1>8
     DEF BpmnNext, CreateTemplate, MinutePasses, bpmnVars

(* No step takes back what was established: a breach stands until the      *)
(* order is closed, an ended workflow never runs again, and neither a new  *)
(* constraint nor a deleted rule permits anything.                         *)
THEOREM NothingUndone == Spec => NothingIsUndone
<1> DEFINE Inv == OrderInv /\ BpmnInv /\ PermissionTypeOK
<1>1. Init => Inv
  BY OrderStart, BpmnStart, PermissionStart DEF Init
<1>2. Inv /\ [Next]_vars => Inv'
  BY PartSteps, OrderKeeps, BpmnKeeps, PermissionKeeps
<1>3. Inv /\ [Next]_vars => [BreachStands]_orderVars
  BY PartSteps, BreachStandsStep
<1>4. Inv /\ [Next]_vars => [EndStands]_bpmnVars
  BY PartSteps, EndStandsStep
<1>5. Inv /\ [Next]_vars => [Narrows]_permissionVars
  BY PartSteps, PermissionNarrows
<1>6. Spec => [][BreachStands]_orderVars /\ [][EndStands]_bpmnVars /\ [][Narrows]_permissionVars
  <2> HIDE DEF Inv
  <2> QED BY <1>1, <1>2, <1>3, <1>4, <1>5, PTL DEF Spec
<1> QED BY <1>6 DEF NothingIsUndone, BreachStandsUntilClosed, BreachStands, EndedStaysEnded, EndStands,
                    Ended, ConstraintsOnlyNarrow, Narrows

-----------------------------------------------------------------------------
(* The depth-first search, for any graph.  Its path is a way through the   *)
(* graph; while no cycle was seen, the nodes it is done with lead to such  *)
(* nodes only, no set of them feeds itself, and what the loop of a call    *)
(* has looked at is done, but for the node that is called.                 *)

SearchRecord(nodes) ==
  [visited : SUBSET nodes, path : Seq(nodes), left : [nodes -> SUBSET nodes], cycle : BOOLEAN]

Done(s) == s.visited \ Range(s.path)

FeedsItself(S, graph) == S # {} /\ \A n \in S : graph[n] \cap S # {}

PathHolds(s, graph) ==
  /\ Range(s.path) \subseteq s.visited
  /\ \A i, j \in 1..Len(s.path) : s.path[i] = s.path[j] => i = j
  /\ \A i \in 1..(Len(s.path) - 1) : s.path[i + 1] \in graph[s.path[i]]
  /\ \A i \in 1..Len(s.path) : s.left[s.path[i]] \subseteq graph[s.path[i]]

DoneClosed(s, graph) == \A n \in Done(s) : graph[n] \subseteq Done(s)

DoneAcyclic(s, graph) == \A S \in SUBSET Done(s) : ~FeedsItself(S, graph)

LookedAt(s, graph) ==
  \A i \in 1..Len(s.path) : \A m \in graph[s.path[i]] \ s.left[s.path[i]] :
    m \in Done(s) \/ (i < Len(s.path) /\ m = s.path[i + 1])

CycleFound(s, graph) == \E S \in SUBSET s.visited : FeedsItself(S, graph)

SearchHolds(s, nodes, graph) ==
  /\ s \in SearchRecord(nodes) /\ PathHolds(s, graph)
  /\ ~s.cycle => DoneClosed(s, graph) /\ DoneAcyclic(s, graph) /\ LookedAt(s, graph)
  /\ s.cycle => CycleFound(s, graph)

(* Nothing is visited that the starts do not lead to. *)
ClosedUnder(T, starts, graph) == starts \subseteq T /\ \A n \in T : graph[n] \subseteq T

Within(s, starts, graph) == \A T : ClosedUnder(T, starts, graph) => s.visited \subseteq T

LEMMA NewSearchHolds ==
  ASSUME NEW nodes, NEW graph, NEW starts
  PROVE  SearchHolds(NewSearch(nodes), nodes, graph) /\ Within(NewSearch(nodes), starts, graph)
<1> DEFINE s == NewSearch(nodes)
<1>1. /\ s.visited = {} /\ s.path = <<>> /\ s.left = [n \in nodes |-> {}] /\ s.cycle = FALSE
      /\ Len(s.path) = 0 /\ Done(s) = {}
  BY DEF NewSearch, Done
<1>2. s.left \in [nodes -> SUBSET nodes] /\ s.path \in Seq(nodes) /\ Range(s.path) = {}
  BY <1>1 DEF Range
<1>3. s \in SearchRecord(nodes)
  <2>1. [n \in nodes |-> {}] \in [nodes -> SUBSET nodes] /\ <<>> \in Seq(nodes) /\ {} \in SUBSET nodes
    OBVIOUS
  <2> QED BY <2>1 DEF NewSearch, SearchRecord
<1> HIDE DEF s
<1>4. PathHolds(s, graph) /\ LookedAt(s, graph)
  BY <1>1, <1>2 DEF PathHolds, LookedAt
<1>5. DoneClosed(s, graph) /\ DoneAcyclic(s, graph)
  BY <1>1 DEF DoneClosed, DoneAcyclic, FeedsItself
<1> QED BY <1>1, <1>3, <1>4, <1>5 DEF SearchHolds, Within, s

LEMMA PathIs ==
  ASSUME NEW nodes, NEW graph, NEW s, SearchHolds(s, nodes, graph)
  PROVE  /\ s.path \in Seq(nodes) /\ Len(s.path) \in Nat /\ s.visited \subseteq nodes
         /\ \A i \in 1..Len(s.path) : s.path[i] \in nodes /\ s.path[i] \in s.visited
         /\ \A m : m \in Range(s.path) <=> \E i \in 1..Len(s.path) : s.path[i] = m
<1>1. s.path \in Seq(nodes) /\ s.visited \subseteq nodes
  BY DEF SearchHolds, SearchRecord
<1>2. Len(s.path) \in Nat /\ DOMAIN s.path = 1..Len(s.path) /\ \A i \in 1..Len(s.path) : s.path[i] \in nodes
  BY <1>1
<1>3. \A m : m \in Range(s.path) <=> \E i \in 1..Len(s.path) : s.path[i] = m
  BY <1>2 DEF Range
<1>4. Range(s.path) \subseteq s.visited
  BY DEF SearchHolds, PathHolds
<1> QED BY <1>1, <1>2, <1>3, <1>4

(* A call of dfs(): the path grows by a node that was not visited. *)
LEMMA EnterHolds ==
  ASSUME NEW nodes, NEW graph \in [nodes -> SUBSET nodes],
         NEW s, SearchHolds(s, nodes, graph), ~s.cycle,
         NEW n \in nodes, n \notin s.visited, s.path # <<>> => n \in graph[Innermost(s)],
         NEW t \in SearchRecord(nodes),
         t.visited = s.visited \cup {n}, t.path = Append(s.path, n), t.cycle = FALSE,
         t.left[n] = graph[n],
         \A i \in 1..Len(s.path) :
           t.left[s.path[i]] = s.left[s.path[i]] \/ (i = Len(s.path) /\ t.left[s.path[i]] = s.left[s.path[i]] \ {n})
  PROVE  SearchHolds(t, nodes, graph)
<1>1. PICK p \in Seq(nodes) : p = s.path
  BY PathIs
<1>2. PICK L \in Nat : L = Len(p)
  BY <1>1
<1>3. /\ \A i \in 1..L : p[i] \in nodes /\ p[i] \in s.visited /\ p[i] # n
      /\ \A m : m \in Range(p) <=> \E i \in 1..L : p[i] = m
  BY <1>1, <1>2, PathIs
<1>4. PICK q \in Seq(nodes) : q = Append(p, n)
  <2>1. Append(p, n) \in Seq(nodes)
    BY AppendProperties
  <2> QED BY <2>1
<1>5. Len(q) = L + 1 /\ q[L + 1] = n /\ \A i \in 1..L : q[i] = p[i]
  BY <1>1, <1>2, <1>4, AppendProperties
<1>6. t.path = q /\ DOMAIN q = 1..(L + 1)
  BY <1>1, <1>4, <1>5
<1>7. Range(q) = Range(p) \cup {n}
  <2>1. \A i \in 1..(L + 1) : i \in 1..L \/ i = L + 1
    OBVIOUS
  <2>2. \A i \in 1..L : i \in 1..(L + 1)
    OBVIOUS
  <2>3. L + 1 \in 1..(L + 1)
    OBVIOUS
  <2>4. \A m : m \in Range(q) <=> \E i \in 1..(L + 1) : q[i] = m
    BY <1>6 DEF Range
  <2>5. ASSUME NEW m \in Range(q) PROVE m \in Range(p) \cup {n}
    BY <1>3, <1>5, <2>1, <2>4
  <2>6. ASSUME NEW m \in Range(p) PROVE m \in Range(q)
    BY <1>3, <1>5, <2>2, <2>4
  <2>7. n \in Range(q)
    BY <1>5, <2>3, <2>4
  <2> QED BY <2>5, <2>6, <2>7
<1>8. Done(t) = Done(s)
  BY <1>1, <1>6, <1>7 DEF Done
<1>9. /\ Range(p) \subseteq s.visited
      /\ \A i, j \in 1..L : p[i] = p[j] => i = j
      /\ \A i \in 1..(L - 1) : p[i + 1] \in graph[p[i]]
      /\ \A i \in 1..L : s.left[p[i]] \subseteq graph[p[i]]
  BY <1>1, <1>2 DEF SearchHolds, PathHolds
<1>10. \A i \in 1..L : t.left[p[i]] = s.left[p[i]] \/ (i = L /\ t.left[p[i]] = s.left[p[i]] \ {n})
  BY <1>1, <1>2
<1>11. PathHolds(t, graph)
  <2>1. Range(q) \subseteq t.visited
    BY <1>7, <1>9
  <2>2. ASSUME NEW i \in 1..(L + 1), NEW j \in 1..(L + 1), q[i] = q[j] PROVE i = j
    <3>1. (i \in 1..L \/ i = L + 1) /\ (j \in 1..L \/ j = L + 1)
      OBVIOUS
    <3>2. CASE i \in 1..L /\ j \in 1..L
      BY <1>5, <1>9, <2>2, <3>2
    <3> QED BY <1>3, <1>5, <2>2, <3>1, <3>2
  <2>3. ASSUME NEW i \in 1..L PROVE q[i + 1] \in graph[q[i]]
    <3>1. CASE i < L
      <4>1. i \in 1..(L - 1) /\ i + 1 \in 1..L
        BY <3>1
      <4> QED BY <1>5, <1>9, <4>1
    <3>2. CASE i = L
      <4>1. s.path # <<>> /\ Innermost(s) = p[L]
        BY <1>1, <1>2, <3>2 DEF Innermost
      <4> QED BY <1>5, <3>2, <4>1
    <3> QED BY <3>1, <3>2
  <2>4. ASSUME NEW i \in 1..(L + 1) PROVE t.left[q[i]] \subseteq graph[q[i]]
    <3>1. i \in 1..L \/ i = L + 1
      OBVIOUS
    <3>2. CASE i \in 1..L
      <4>1. q[i] = p[i] /\ s.left[p[i]] \subseteq graph[p[i]]
        BY <1>5, <1>9, <3>2
      <4>2. t.left[p[i]] = s.left[p[i]] \/ t.left[p[i]] = s.left[p[i]] \ {n}
        BY <1>10, <3>2
      <4> QED BY <4>1, <4>2
    <3> QED BY <1>5, <3>1, <3>2
  <2>5. (L + 1) - 1 = L
    OBVIOUS
  <2> QED BY <1>5, <1>6, <2>1, <2>2, <2>3, <2>4, <2>5 DEF PathHolds
<1>12. DoneClosed(t, graph) /\ DoneAcyclic(t, graph)
  BY <1>8 DEF SearchHolds, DoneClosed, DoneAcyclic
<1>13. LookedAt(t, graph)
  <2> SUFFICES ASSUME NEW i \in 1..(L + 1), NEW m \in graph[q[i]] \ t.left[q[i]]
               PROVE  m \in Done(s) \/ (i < L + 1 /\ m = q[i + 1])
    BY <1>5, <1>6, <1>8 DEF LookedAt
  <2>1. i \in 1..L /\ q[i] = p[i]
    BY <1>5
  <2>2. CASE m \notin s.left[p[i]]
    <3>1. m \in Done(s) \/ (i < L /\ m = p[i + 1])
      BY <1>1, <1>2, <2>1, <2>2 DEF SearchHolds, LookedAt
    <3>2. i < L => i + 1 \in 1..L /\ i < L + 1
      BY <2>1
    <3> QED BY <1>5, <3>1, <3>2
  <2>3. CASE m \in s.left[p[i]]
    <3>1. i = L /\ m = n
      BY <1>10, <2>1, <2>3
    <3> QED BY <1>5, <3>1
  <2> QED BY <2>2, <2>3
<1> QED BY <1>11, <1>12, <1>13 DEF SearchHolds

(* An edge back into the path closes a cycle. *)
LEMMA BackEdgeClosesCycle ==
  ASSUME NEW nodes, NEW graph \in [nodes -> SUBSET nodes],
         NEW s, SearchHolds(s, nodes, graph), s.path # <<>>,
         NEW m \in graph[Innermost(s)], OnPath(s, m)
  PROVE  CycleFound(s, graph)
<1>1. PICK p \in Seq(nodes) : p = s.path
  BY PathIs
<1>2. PICK L \in Nat : L = Len(p)
  BY <1>1
<1>3. L >= 1 /\ Innermost(s) = p[L] /\ \A i \in 1..L : p[i] \in nodes /\ p[i] \in s.visited
  BY <1>1, <1>2, PathIs DEF Innermost
<1>4. PICK j \in 1..L : p[j] = m
  BY <1>1, <1>2, PathIs DEF OnPath
<1> DEFINE S == {p[k] : k \in j..L}
<1>5. S \in SUBSET s.visited /\ S # {}
  <2>1. j..L \subseteq 1..L /\ j \in j..L
    OBVIOUS
  <2> QED BY <1>3, <2>1
<1>6. ASSUME NEW x \in S PROVE graph[x] \cap S # {}
  <2>1. PICK k \in j..L : x = p[k]
    OBVIOUS
  <2>2. CASE k = L
    <3>1. j \in j..L
      OBVIOUS
    <3>2. m \in S
      BY <1>4, <3>1
    <3> QED BY <1>3, <2>1, <2>2, <3>2
  <2>3. CASE k # L
    <3>1. k + 1 \in j..L /\ k \in 1..(L - 1)
      BY <2>3
    <3>2. p[k + 1] \in S /\ p[k + 1] \in graph[p[k]]
      BY <1>1, <1>2, <3>1 DEF SearchHolds, PathHolds
    <3> QED BY <2>1, <3>2
  <2> QED BY <2>2, <2>3
<1> HIDE DEF S
<1> QED BY <1>5, <1>6 DEF CycleFound, FeedsItself

(* The loop looks at a node that was visited before. *)
LEMMA SkipHolds ==
  ASSUME NEW nodes, NEW graph \in [nodes -> SUBSET nodes],
         NEW s, SearchHolds(s, nodes, graph), ~s.cycle, s.path # <<>>,
         NEW n \in s.left[Innermost(s)], n \in s.visited,
         NEW t \in SearchRecord(nodes),
         t.visited = s.visited, t.path = s.path, t.cycle = OnPath(s, n),
         t.left = [s.left EXCEPT ![Innermost(s)] = @ \ {n}]
  PROVE  SearchHolds(t, nodes, graph)
<1>1. PICK p \in Seq(nodes) : p = s.path
  BY PathIs
<1>2. PICK L \in Nat : L = Len(p)
  BY <1>1
<1>3. L >= 1 /\ L \in 1..L /\ Innermost(s) = p[L] /\ \A i \in 1..L : p[i] \in nodes /\ p[i] \in s.visited
  BY <1>1, <1>2, PathIs DEF Innermost
<1>4. s.left \in [nodes -> SUBSET nodes]
  BY DEF SearchHolds, SearchRecord
<1>5. \A x \in nodes : t.left[x] = IF x = p[L] THEN s.left[x] \ {n} ELSE s.left[x]
  BY <1>3, <1>4
<1>6. Done(t) = Done(s)
  BY DEF Done
<1>7. /\ Range(p) \subseteq s.visited
      /\ \A i, j \in 1..L : p[i] = p[j] => i = j
      /\ \A i \in 1..(L - 1) : p[i + 1] \in graph[p[i]]
      /\ \A i \in 1..L : s.left[p[i]] \subseteq graph[p[i]]
  BY <1>1, <1>2 DEF SearchHolds, PathHolds
<1>8. PathHolds(t, graph)
  <2>1. \A i \in 1..L : t.left[p[i]] \subseteq graph[p[i]]
    BY <1>3, <1>5, <1>7
  <2> QED BY <1>1, <1>2, <1>7, <2>1 DEF PathHolds
<1>9. n \in graph[Innermost(s)]
  BY <1>3, <1>7
<1>10. CASE OnPath(s, n)
  <2>1. CycleFound(s, graph)
    BY <1>9, <1>10, BackEdgeClosesCycle
  <2>2. CycleFound(t, graph)
    BY <2>1 DEF CycleFound
  <2>3. t.cycle
    BY <1>10
  <2> QED BY <1>8, <2>2, <2>3 DEF SearchHolds
<1>11. CASE ~OnPath(s, n)
  <2>1. n \in Done(s) /\ ~t.cycle
    BY <1>11 DEF Done, OnPath
  <2>2. DoneClosed(t, graph) /\ DoneAcyclic(t, graph)
    BY <1>6 DEF SearchHolds, DoneClosed, DoneAcyclic
  <2>3. LookedAt(t, graph)
    <3> SUFFICES ASSUME NEW i \in 1..L, NEW m \in graph[p[i]] \ t.left[p[i]]
                 PROVE  m \in Done(s) \/ (i < L /\ m = p[i + 1])
      BY <1>1, <1>2, <1>6 DEF LookedAt
    <3>1. m \notin s.left[p[i]] \/ m = n
      BY <1>3, <1>5
    <3>2. CASE m \notin s.left[p[i]]
      BY <1>1, <1>2, <3>2 DEF SearchHolds, LookedAt
    <3> QED BY <2>1, <3>1, <3>2
  <2> QED BY <1>8, <2>1, <2>2, <2>3 DEF SearchHolds
<1> QED BY <1>10, <1>11

LEMMA LookAtHolds ==
  ASSUME NEW nodes, NEW graph \in [nodes -> SUBSET nodes],
         NEW s, SearchHolds(s, nodes, graph), ~s.cycle, s.path # <<>>,
         NEW n \in s.left[Innermost(s)]
  PROVE  SearchHolds(LookAt(s, n, graph), nodes, graph)
<1>1. PICK t : t = LookAt(s, n, graph)
  OBVIOUS
<1>2. PICK left : left = [s.left EXCEPT ![Innermost(s)] = @ \ {n}]
  OBVIOUS
<1>3. PICK L \in Nat : L = Len(s.path)
  BY PathIs
<1>4. /\ s.path \in Seq(nodes) /\ L >= 1 /\ L \in 1..L /\ Innermost(s) = s.path[L]
      /\ \A i \in 1..L : s.path[i] \in nodes /\ s.path[i] \in s.visited
  BY <1>3, PathIs DEF Innermost
<1>5. s \in SearchRecord(nodes) /\ s.left \in [nodes -> SUBSET nodes]
  BY DEF SearchHolds, SearchRecord
<1>6. left \in [nodes -> SUBSET nodes] /\ \A x \in nodes : left[x] = IF x = s.path[L] THEN s.left[x] \ {n} ELSE s.left[x]
  BY <1>2, <1>4, <1>5
<1>7. n \in graph[Innermost(s)] /\ n \in nodes
  <2>1. s.left[s.path[L]] \subseteq graph[s.path[L]]
    BY <1>3, <1>4 DEF SearchHolds, PathHolds
  <2> QED BY <1>4, <2>1
<1>8. CASE n \in s.visited
  <2>1. PICK c \in BOOLEAN : c = OnPath(s, n)
    <3>1. OnPath(s, n) \in BOOLEAN
      BY DEF OnPath
    <3> QED BY <3>1
  <2>2. t = [s EXCEPT !.left = left, !.cycle = c]
    BY <1>1, <1>2, <1>8, <2>1 DEF LookAt
  <2>3. /\ t \in SearchRecord(nodes) /\ t.visited = s.visited /\ t.path = s.path /\ t.cycle = c
        /\ t.left = left
    BY <1>5, <1>6, <2>1, <2>2 DEF SearchRecord
  <2> QED BY <1>1, <1>2, <1>8, <2>1, <2>3, SkipHolds
<1>9. CASE n \notin s.visited
  <2>1. PICK u : u = [s EXCEPT !.left = left]
    OBVIOUS
  <2>2. u.visited = s.visited /\ u.path = s.path /\ u.left = left
    BY <1>5, <2>1 DEF SearchRecord
  <2>3. t = Enter(u, n, graph)
    BY <1>1, <1>2, <1>9, <2>1 DEF LookAt
  <2>4. PICK below : below = [left EXCEPT ![n] = graph[n]]
    OBVIOUS
  <2>5. below \in [nodes -> SUBSET nodes] /\ below[n] = graph[n] /\ \A x \in nodes : x # n => below[x] = left[x]
    BY <1>6, <1>7, <2>4
  <2>6. PICK q \in Seq(nodes) : q = Append(s.path, n)
    <3>1. PICK p \in Seq(nodes) : p = s.path
      BY <1>4
    <3>2. Append(p, n) \in Seq(nodes)
      BY <1>7, AppendProperties
    <3> QED BY <3>1, <3>2
  <2>7. t = [visited |-> s.visited \cup {n}, path |-> q, left |-> below, cycle |-> FALSE]
    BY <2>2, <2>3, <2>4, <2>6 DEF Enter
  <2>8. s.visited \cup {n} \in SUBSET nodes
    BY <1>7, PathIs
  <2>9. /\ t \in SearchRecord(nodes) /\ t.visited = s.visited \cup {n} /\ t.path = q
        /\ t.cycle = FALSE /\ t.left = below
    BY <2>5, <2>7, <2>8 DEF SearchRecord
  <2>10. ASSUME NEW i \in 1..L
         PROVE  t.left[s.path[i]] = s.left[s.path[i]] \/ (i = L /\ t.left[s.path[i]] = s.left[s.path[i]] \ {n})
    <3>1. s.path[i] # n /\ s.path[i] \in nodes
      BY <1>4, <1>9
    <3>2. s.path[i] = s.path[L] => i = L
      BY <1>3, <1>4 DEF SearchHolds, PathHolds
    <3> QED BY <1>6, <2>5, <2>9, <3>1, <3>2
  <2>11. t.left[n] = graph[n]
    BY <2>5, <2>9
  <2>12. t.path = Append(s.path, n) /\ (s.path # <<>> => n \in graph[Innermost(s)])
    BY <1>1, <1>7, <2>6, <2>9
  <2>13. \A i \in 1..Len(s.path) :
           t.left[s.path[i]] = s.left[s.path[i]] \/ (i = Len(s.path) /\ t.left[s.path[i]] = s.left[s.path[i]] \ {n})
    BY <1>3, <2>10
  <2>14. SearchHolds(t, nodes, graph)
    BY <1>7, <1>9, <2>9, <2>11, <2>12, <2>13, EnterHolds
  <2> QED BY <1>1, <2>14
<1> QED BY <1>8, <1>9

LEMMA StartHolds ==
  ASSUME NEW nodes, NEW graph \in [nodes -> SUBSET nodes],
         NEW s, SearchHolds(s, nodes, graph), ~s.cycle, s.path = <<>>,
         NEW n \in nodes, n \notin s.visited
  PROVE  SearchHolds(Enter(s, n, graph), nodes, graph)
<1>1. s.left \in [nodes -> SUBSET nodes] /\ s.path \in Seq(nodes) /\ s.visited \in SUBSET nodes
  BY DEF SearchHolds, SearchRecord
<1>2. PICK below : below = [s.left EXCEPT ![n] = graph[n]]
  OBVIOUS
<1>3. below \in [nodes -> SUBSET nodes] /\ below[n] = graph[n]
  BY <1>1, <1>2
<1>4. PICK q \in Seq(nodes) : q = Append(s.path, n)
  <2>1. PICK p \in Seq(nodes) : p = s.path
    BY <1>1
  <2>2. Append(p, n) \in Seq(nodes)
    BY AppendProperties
  <2> QED BY <2>1, <2>2
<1>5. PICK t : t = Enter(s, n, graph)
  OBVIOUS
<1>6. t = [visited |-> s.visited \cup {n}, path |-> q, left |-> below, cycle |-> FALSE]
  BY <1>2, <1>4, <1>5 DEF Enter
<1>7. s.visited \cup {n} \in SUBSET nodes
  BY <1>1
<1>8. /\ t \in SearchRecord(nodes) /\ t.visited = s.visited \cup {n} /\ t.path = q
      /\ t.cycle = FALSE /\ t.left[n] = graph[n]
  BY <1>3, <1>6, <1>7 DEF SearchRecord
<1>9. Len(s.path) = 0
  OBVIOUS
<1>10. \A i \in 1..Len(s.path) :
         t.left[s.path[i]] = s.left[s.path[i]] \/ (i = Len(s.path) /\ t.left[s.path[i]] = s.left[s.path[i]] \ {n})
  BY <1>9
<1>11. t.path = Append(s.path, n) /\ (s.path # <<>> => n \in graph[Innermost(s)])
  BY <1>4, <1>8
<1>12. SearchHolds(t, nodes, graph)
  BY <1>8, <1>10, <1>11, EnterHolds
<1> QED BY <1>5, <1>12

(* A call returns: its node is done, and everything it leads to was. *)
LEMMA LeaveHolds ==
  ASSUME NEW nodes, NEW graph \in [nodes -> SUBSET nodes],
         NEW s, SearchHolds(s, nodes, graph), ~s.cycle, s.path # <<>>, s.left[Innermost(s)] = {}
  PROVE  SearchHolds(Leave(s), nodes, graph)
<1>1. PICK p \in Seq(nodes) : p = s.path
  BY PathIs
<1>2. PICK L \in Nat : L = Len(p)
  BY <1>1
<1>3. PICK c : c = p[L]
  OBVIOUS
<1>4. /\ L >= 1 /\ L \in 1..L /\ Innermost(s) = c /\ c \in nodes
      /\ \A i \in 1..L : p[i] \in nodes /\ p[i] \in s.visited
      /\ \A m : m \in Range(p) <=> \E i \in 1..L : p[i] = m
  BY <1>1, <1>2, <1>3, PathIs DEF Innermost
<1>5. /\ Range(p) \subseteq s.visited
      /\ \A i, j \in 1..L : p[i] = p[j] => i = j
      /\ \A i \in 1..(L - 1) : p[i + 1] \in graph[p[i]]
      /\ \A i \in 1..L : s.left[p[i]] \subseteq graph[p[i]]
  BY <1>1, <1>2 DEF SearchHolds, PathHolds
<1>6. PICK q : q = SubSeq(p, 1, L - 1)
  OBVIOUS
<1>7. q \in Seq(nodes) /\ Len(q) = L - 1 /\ \A i \in 1..(L - 1) : q[i] = p[i] /\ p[i] # c
  <2>1. 1 \in Int /\ L - 1 \in Int /\ \A i \in 1..(L - 1) : p[i] \in nodes
    BY <1>4
  <2>2. /\ SubSeq(p, 1, L - 1) \in Seq(nodes)
        /\ Len(SubSeq(p, 1, L - 1)) = IF 1 <= L - 1 THEN (L - 1) - 1 + 1 ELSE 0
        /\ \A i \in 1..((L - 1) - 1 + 1) : SubSeq(p, 1, L - 1)[i] = p[1 + i - 1]
    BY <2>1, SubSeqProperties
  <2>3. ASSUME NEW i \in 1..(L - 1) PROVE p[i] # c
    <3>1. i \in 1..L /\ i # L
      OBVIOUS
    <3> QED BY <1>3, <1>4, <1>5, <3>1
  <2> QED BY <1>4, <1>6, <2>2, <2>3
<1>8. PICK t : t = Leave(s)
  OBVIOUS
<1>9. t = [s EXCEPT !.path = q]
  BY <1>1, <1>2, <1>6, <1>8 DEF Leave
<1>10. s \in SearchRecord(nodes)
  BY DEF SearchHolds
<1>11. /\ t \in SearchRecord(nodes) /\ t.visited = s.visited /\ t.path = q /\ t.left = s.left /\ ~t.cycle
  BY <1>7, <1>9, <1>10 DEF SearchRecord
<1>12. Range(q) = Range(p) \ {c}
  <2>1. \A m : m \in Range(q) <=> \E i \in 1..(L - 1) : q[i] = m
    <3>1. DOMAIN q = 1..(L - 1)
      BY <1>4, <1>7
    <3> QED BY <3>1 DEF Range
  <2>2. \A i \in 1..(L - 1) : i \in 1..L
    OBVIOUS
  <2>3. \A i \in 1..L : i \in 1..(L - 1) \/ i = L
    OBVIOUS
  <2>4. ASSUME NEW m \in Range(q) PROVE m \in Range(p) \ {c}
    BY <1>4, <1>7, <2>1, <2>2
  <2>5. ASSUME NEW m \in Range(p) \ {c} PROVE m \in Range(q)
    BY <1>3, <1>4, <1>7, <2>1, <2>3
  <2> QED BY <2>4, <2>5
<1>13. c \in Range(p) /\ c \notin Done(s) /\ Done(t) = Done(s) \cup {c}
  <2>1. c \in Range(p) /\ c \in s.visited
    BY <1>3, <1>4
  <2> QED BY <1>1, <1>11, <1>12, <2>1 DEF Done
<1>14. PathHolds(t, graph)
  <2>1. Range(q) \subseteq s.visited
    BY <1>5, <1>12
  <2>2. \A i, j \in 1..(L - 1) : q[i] = q[j] => i = j
    BY <1>5, <1>7
  <2>3. ASSUME NEW i \in 1..((L - 1) - 1) PROVE q[i + 1] \in graph[q[i]]
    <3>1. i \in 1..(L - 1) /\ i + 1 \in 1..(L - 1)
      OBVIOUS
    <3>2. q[i] = p[i] /\ q[i + 1] = p[i + 1]
      BY <1>7, <3>1
    <3>3. p[i + 1] \in graph[p[i]]
      BY <1>5, <3>1
    <3> QED BY <3>2, <3>3
  <2>4. ASSUME NEW i \in 1..(L - 1) PROVE s.left[q[i]] \subseteq graph[q[i]]
    <3>1. q[i] = p[i] /\ i \in 1..L
      BY <1>7
    <3> QED BY <1>5, <3>1
  <2> QED BY <1>7, <1>11, <2>1, <2>2, <2>3, <2>4 DEF PathHolds
<1>15. DoneClosed(s, graph) /\ DoneAcyclic(s, graph) /\ LookedAt(s, graph)
  BY DEF SearchHolds
<1>16. graph[c] \subseteq Done(s)
  <2>1. \A m \in graph[p[L]] \ s.left[p[L]] : m \in Done(s) \/ L < L
    BY <1>1, <1>2, <1>4, <1>15 DEF LookedAt
  <2> QED BY <1>3, <1>4, <2>1
<1>17. DoneClosed(t, graph)
  BY <1>13, <1>15, <1>16 DEF DoneClosed
<1>18. DoneAcyclic(t, graph)
  <2> SUFFICES ASSUME NEW S \in SUBSET Done(t), FeedsItself(S, graph) PROVE FALSE
    BY DEF DoneAcyclic
  <2>1. S \ {c} \in SUBSET Done(s)
    BY <1>13
  <2>2. \A n \in S \ {c} : graph[n] \cap (S \ {c}) # {}
    <3> SUFFICES ASSUME NEW n \in S \ {c} PROVE graph[n] \cap (S \ {c}) # {}
      OBVIOUS
    <3>1. graph[n] \cap S # {} /\ graph[n] \subseteq Done(s)
      BY <1>15, <2>1 DEF FeedsItself, DoneClosed
    <3> QED BY <1>13, <3>1
  <2>3. S \ {c} = {}
    BY <1>15, <2>1, <2>2 DEF DoneAcyclic, FeedsItself
  <2>4. c \in S /\ graph[c] \cap S # {}
    BY <2>3 DEF FeedsItself
  <2> QED BY <1>13, <1>16, <2>3, <2>4
<1>19. LookedAt(t, graph)
  <2> SUFFICES ASSUME NEW i \in 1..(L - 1), NEW m \in graph[q[i]] \ s.left[q[i]]
               PROVE  m \in Done(t) \/ (i < L - 1 /\ m = q[i + 1])
    BY <1>7, <1>11 DEF LookedAt
  <2>1. i \in 1..L /\ q[i] = p[i]
    BY <1>7
  <2>2. m \in Done(s) \/ m = p[i + 1]
    BY <1>1, <1>2, <1>15, <2>1 DEF LookedAt
  <2>3. CASE i + 1 = L
    BY <1>3, <1>13, <2>2, <2>3
  <2>4. CASE i + 1 # L
    <3>1. i + 1 \in 1..(L - 1) /\ i < L - 1
      BY <2>4
    <3> QED BY <1>7, <1>13, <2>2, <3>1
  <2> QED BY <2>3, <2>4
<1> QED BY <1>8, <1>11, <1>14, <1>17, <1>18, <1>19 DEF SearchHolds

LEMMA SearchStepHolds ==
  ASSUME NEW nodes, NEW graph \in [nodes -> SUBSET nodes], NEW starts \in SUBSET nodes,
         NEW s, SearchHolds(s, nodes, graph), Within(s, starts, graph),
         NEW t \in SearchSteps(s, starts, graph)
  PROVE  SearchHolds(t, nodes, graph) /\ Within(t, starts, graph)
<1>1. ~s.cycle
  BY DEF SearchSteps
<1>2. CASE s.path = <<>>
  <2>1. PICK n \in starts \ s.visited : t = Enter(s, n, graph)
    BY <1>1, <1>2 DEF SearchSteps
  <2>2. SearchHolds(t, nodes, graph)
    BY <1>1, <1>2, <2>1, StartHolds
  <2>3. t.visited = s.visited \cup {n}
    BY <2>1 DEF Enter
  <2> QED BY <2>1, <2>2, <2>3 DEF Within, ClosedUnder
<1>3. CASE s.path # <<>> /\ s.left[Innermost(s)] = {}
  <2>1. t = Leave(s)
    BY <1>1, <1>3 DEF SearchSteps
  <2>2. s \in SearchRecord(nodes)
    BY DEF SearchHolds
  <2>3. t.visited = s.visited
    BY <2>1, <2>2 DEF Leave, SearchRecord
  <2> QED BY <1>1, <1>3, <2>1, <2>3, LeaveHolds DEF Within
<1>4. CASE s.path # <<>> /\ s.left[Innermost(s)] # {}
  <2>1. PICK n \in s.left[Innermost(s)] : t = LookAt(s, n, graph)
    BY <1>1, <1>4 DEF SearchSteps
  <2>2. SearchHolds(t, nodes, graph)
    BY <1>1, <1>4, <2>1, LookAtHolds
  <2>3. s \in SearchRecord(nodes)
    BY DEF SearchHolds
  <2>4. t.visited = s.visited \/ t.visited = s.visited \cup {n}
    BY <2>1, <2>3 DEF LookAt, Enter, SearchRecord
  <2>5. Innermost(s) \in s.visited /\ n \in graph[Innermost(s)]
    <3>1. Len(s.path) \in 1..Len(s.path)
      BY <1>4, PathIs
    <3>2. s.left[s.path[Len(s.path)]] \subseteq graph[s.path[Len(s.path)]]
      BY <3>1 DEF SearchHolds, PathHolds
    <3> QED BY <3>1, <3>2, PathIs DEF Innermost
  <2>6. ASSUME NEW T, ClosedUnder(T, starts, graph) PROVE t.visited \subseteq T
    <3>1. s.visited \subseteq T
      BY <2>6 DEF Within
    <3>2. n \in T
      BY <2>5, <2>6, <3>1 DEF ClosedUnder
    <3> QED BY <2>4, <3>1, <3>2
  <2> QED BY <2>2, <2>6 DEF Within
<1> QED BY <1>2, <1>3, <1>4

(* What the answer means: a cycle is one among what the starts lead to, and *)
(* without one no part of it feeds itself.                                  *)
LEMMA SearchAnswers ==
  ASSUME NEW nodes, NEW graph \in [nodes -> SUBSET nodes], NEW starts \in SUBSET nodes,
         NEW s, SearchHolds(s, nodes, graph), Within(s, starts, graph), SearchOver(s, starts)
  PROVE  /\ s.cycle => \E S \in SUBSET nodes : /\ FeedsItself(S, graph)
                                               /\ \A T : ClosedUnder(T, starts, graph) => S \subseteq T
         /\ ~s.cycle => /\ ClosedUnder(s.visited, starts, graph)
                        /\ \A S \in SUBSET s.visited : ~FeedsItself(S, graph)
<1>1. ASSUME s.cycle PROVE \E S \in SUBSET nodes : /\ FeedsItself(S, graph)
                                                   /\ \A T : ClosedUnder(T, starts, graph) => S \subseteq T
  <2>1. PICK S \in SUBSET s.visited : FeedsItself(S, graph)
    BY <1>1 DEF SearchHolds, CycleFound
  <2>2. S \in SUBSET nodes /\ \A T : ClosedUnder(T, starts, graph) => S \subseteq T
    BY PathIs DEF Within
  <2> QED BY <2>1, <2>2
<1>2. ASSUME ~s.cycle PROVE /\ ClosedUnder(s.visited, starts, graph)
                            /\ \A S \in SUBSET s.visited : ~FeedsItself(S, graph)
  <2>1. s.path = <<>> /\ starts \subseteq s.visited
    BY <1>2 DEF SearchOver
  <2>2. Range(s.path) = {} /\ Done(s) = s.visited
    BY <2>1 DEF Range, Done
  <2> QED BY <1>2, <2>1, <2>2 DEF SearchHolds, DoneClosed, DoneAcyclic, ClosedUnder
<1> QED BY <1>1, <1>2

-----------------------------------------------------------------------------
(* The assembly engine: the groups.  A step that no group has taken was    *)
(* not ready a group earlier, or it would have been taken.                 *)

Upto(k) == UNION {groups[j] : j \in 1..k}

Sortable == ~Circular(recipe) /\ \A s \in StepIds : UnknownStep \notin recipe[s]

GroupsInv ==
  /\ recipe \in Recipes
  /\ remaining \in SUBSET StepIds /\ groups \in Seq(SUBSET StepIds)
  /\ Upto(Len(groups)) \cup remaining = StepIds /\ Upto(Len(groups)) \cap remaining = {}
  /\ \A i, j \in 1..Len(groups) : i # j => groups[i] \cap groups[j] = {}
  /\ Sortable =>
       /\ \A i \in 1..Len(groups) : \A s \in groups[i] :
            recipe[s] \subseteq Upto(i - 1) /\ (i > 1 => ~(recipe[s] \subseteq Upto(i - 2)))
       /\ Len(groups) >= 1 => \A s \in remaining : ~(recipe[s] \subseteq Upto(Len(groups) - 1))

LEMMA GroupedIs == ASSUME groups \in Seq(SUBSET StepIds) PROVE Grouped = Upto(Len(groups))
<1>1. DOMAIN groups = 1..Len(groups)
  OBVIOUS
<1> QED BY <1>1 DEF Grouped, Range, Upto

LEMMA GroupsStart == AssemblyInit => GroupsInv
<1> SUFFICES ASSUME AssemblyInit PROVE GroupsInv
  OBVIOUS
<1>1. groups = <<>> /\ Len(groups) = 0 /\ remaining = StepIds /\ recipe \in Recipes
  BY DEF AssemblyInit
<1>2. Upto(Len(groups)) = {}
  BY <1>1 DEF Upto
<1> QED BY <1>1, <1>2 DEF GroupsInv

(* A recipe that can be ordered always has a step that is ready. *)
LEMMA SomethingReady == ASSUME GroupsInv, Sortable, remaining # {} PROVE Ready # {}
<1> SUFFICES ASSUME Ready = {} PROVE FALSE
  OBVIOUS
<1>1. recipe \in [StepIds -> SUBSET (StepIds \cup {UnknownStep})]
  BY AssemblyConstants DEF GroupsInv
<1>2. ASSUME NEW s \in remaining PROVE recipe[s] \cap remaining # {}
  <2>1. ~(recipe[s] \subseteq Upto(Len(groups)))
    BY GroupedIs DEF GroupsInv, Ready
  <2>2. recipe[s] \subseteq StepIds
    BY <1>1 DEF GroupsInv, Sortable
  <2> QED BY <2>1, <2>2 DEF GroupsInv
<1> QED BY <1>2 DEF GroupsInv, Sortable, Circular

LEMMA NextGroupKeeps == ASSUME GroupsInv, NextGroup PROVE GroupsInv'
<1>1. PICK group : /\ group \in (IF Ready # {} THEN {Ready} ELSE {{s} : s \in remaining})
                   /\ groups' = Append(groups, group) /\ remaining' = remaining \ group
                   /\ recipe' = recipe /\ remaining # {}
  BY DEF NextGroup
<1>2. group \subseteq remaining /\ group \in SUBSET StepIds
  BY <1>1 DEF Ready, GroupsInv
<1>3. PICK L \in Nat : L = Len(groups)
  BY DEF GroupsInv
<1>4. PICK g \in Seq(SUBSET StepIds) : g = groups
  BY DEF GroupsInv
<1>5. PICK h \in Seq(SUBSET StepIds) : h = Append(g, group)
  <2>1. Append(g, group) \in Seq(SUBSET StepIds)
    BY <1>2, AppendProperties
  <2> QED BY <2>1
<1>6. groups' = h /\ Len(h) = L + 1 /\ h[L + 1] = group /\ \A i \in 1..L : h[i] = g[i]
  BY <1>1, <1>2, <1>3, <1>4, <1>5, AppendProperties
<1>7. ASSUME NEW k \in Int, k <= L PROVE Upto(k)' = Upto(k)
  <2>1. \A j \in 1..k : j \in 1..L
    BY <1>7
  <2>2. \A j \in 1..k : groups'[j] = groups[j]
    BY <1>4, <1>6, <2>1
  <2> QED BY <2>2 DEF Upto
<1>8. Upto(L + 1)' = Upto(L) \cup group
  <2>1. \A j \in 1..(L + 1) : j \in 1..L \/ j = L + 1
    OBVIOUS
  <2>2. L + 1 \in 1..(L + 1) /\ \A j \in 1..L : j \in 1..(L + 1)
    OBVIOUS
  <2>3. \A j \in 1..L : groups'[j] = groups[j]
    BY <1>4, <1>6
  <2>4. groups'[L + 1] = group
    BY <1>6
  <2>5. Upto(L) = UNION {groups[j] : j \in 1..L} /\ Upto(L + 1)' = UNION {groups'[j] : j \in 1..(L + 1)}
    BY DEF Upto
  <2>6. ASSUME NEW x \in Upto(L + 1)' PROVE x \in Upto(L) \cup group
    BY <2>1, <2>3, <2>4, <2>5
  <2>7. ASSUME NEW x \in Upto(L) \cup group PROVE x \in Upto(L + 1)'
    BY <2>2, <2>3, <2>4, <2>5
  <2> QED BY <2>6, <2>7
<1>9. Len(groups)' = L + 1 /\ Upto(Len(groups)) = Upto(L) /\ Upto(Len(groups))' = Upto(L) \cup group
  <2>1. Len(groups') = L + 1
    BY <1>6
  <2>2. Upto(Len(groups))' = UNION {groups'[j] : j \in 1..Len(groups')} /\ Upto(L + 1)' = UNION {groups'[j] : j \in 1..(L + 1)}
    BY DEF Upto
  <2> QED BY <1>3, <1>8, <2>1, <2>2
<1>10. Upto(L) \cup remaining = StepIds /\ Upto(L) \cap remaining = {}
  BY <1>9 DEF GroupsInv
<1>11. /\ Upto(Len(groups))' \cup remaining' = StepIds
       /\ Upto(Len(groups))' \cap remaining' = {}
       /\ remaining' \in SUBSET StepIds
  BY <1>1, <1>2, <1>9, <1>10
<1>12. ASSUME NEW i \in 1..L PROVE groups[i] \subseteq Upto(L)
  BY DEF Upto
<1>13. ASSUME NEW i \in 1..(L + 1), NEW j \in 1..(L + 1), i # j PROVE groups'[i] \cap groups'[j] = {}
  <2>1. (i \in 1..L \/ i = L + 1) /\ (j \in 1..L \/ j = L + 1)
    OBVIOUS
  <2>2. CASE i \in 1..L /\ j \in 1..L
    BY <1>3, <1>4, <1>6, <1>13, <2>2 DEF GroupsInv
  <2>3. CASE i = L + 1
    <3>1. j \in 1..L /\ groups'[i] = group /\ groups'[j] = groups[j]
      BY <1>4, <1>6, <1>13, <2>1, <2>3
    <3> QED BY <1>2, <1>10, <1>12, <3>1
  <2>4. CASE j = L + 1
    <3>1. i \in 1..L /\ groups'[j] = group /\ groups'[i] = groups[i]
      BY <1>4, <1>6, <1>13, <2>1, <2>4
    <3> QED BY <1>2, <1>10, <1>12, <3>1
  <2> QED BY <2>1, <2>2, <2>3, <2>4
<1>14. ASSUME Sortable
       PROVE  /\ \A i \in 1..(L + 1) : \A s \in groups'[i] :
                   recipe[s] \subseteq Upto(i - 1)' /\ (i > 1 => ~(recipe[s] \subseteq Upto(i - 2)'))
              /\ \A s \in remaining' : ~(recipe[s] \subseteq Upto(L)')
  <2>1. group = {s \in remaining : recipe[s] \subseteq Upto(L)}
    <3>1. group = Ready
      BY <1>1, <1>14, SomethingReady
    <3> QED BY <1>3, <3>1, GroupedIs DEF Ready, GroupsInv
  <2>2. Upto(L)' = Upto(L)
    BY <1>7
  <2>3. ASSUME NEW i \in 1..(L + 1), NEW s \in groups'[i]
        PROVE  recipe[s] \subseteq Upto(i - 1)' /\ (i > 1 => ~(recipe[s] \subseteq Upto(i - 2)'))
    <3>1. Upto(i - 1)' = Upto(i - 1) /\ Upto(i - 2)' = Upto(i - 2)
      <4>1. i - 1 \in Int /\ i - 1 <= L /\ i - 2 \in Int /\ i - 2 <= L
        OBVIOUS
      <4> QED BY <1>7, <4>1
    <3>2. CASE i \in 1..L
      <4>1. s \in groups[i]
        BY <1>4, <1>6, <2>3, <3>2
      <4>2. i \in 1..Len(groups)
        BY <1>3, <3>2
      <4>3. recipe[s] \subseteq Upto(i - 1) /\ (i > 1 => ~(recipe[s] \subseteq Upto(i - 2)))
        BY <1>14, <4>1, <4>2 DEF GroupsInv
      <4> QED BY <3>1, <4>3
    <3>3. CASE i = L + 1
      <4>1. s \in group /\ i - 1 = L /\ i - 2 = L - 1
        <5>1. groups'[i] = group
          BY <1>6, <3>3
        <5>2. i - 1 = L /\ i - 2 = L - 1
          BY <3>3
        <5> QED BY <2>3, <5>1, <5>2
      <4>2. recipe[s] \subseteq Upto(i - 1) /\ s \in remaining
        BY <2>1, <4>1
      <4>3. i > 1 => ~(recipe[s] \subseteq Upto(i - 2))
        <5>1. i > 1 => L >= 1
          BY <3>3
        <5> QED BY <1>3, <1>14, <4>1, <4>2, <5>1 DEF GroupsInv
      <4> QED BY <3>1, <4>2, <4>3
    <3>4. i \in 1..L \/ i = L + 1
      OBVIOUS
    <3> QED BY <3>2, <3>3, <3>4
  <2>4. \A s \in remaining' : ~(recipe[s] \subseteq Upto(L)')
    BY <1>1, <2>1, <2>2
  <2> QED BY <2>3, <2>4
<1>15. Sortable' <=> Sortable
  BY <1>1 DEF Sortable, Circular
<1>16. (L + 1) - 1 = L
  OBVIOUS
<1>17. /\ Upto(Len(groups) - 1)' = Upto(L)' /\ Len(groups') = L + 1
  <2>1. Len(groups') = L + 1 /\ Len(groups') - 1 = L
    BY <1>6, <1>16
  <2>2. Upto(Len(groups) - 1)' = UNION {groups'[j] : j \in 1..(Len(groups') - 1)} /\ Upto(L)' = UNION {groups'[j] : j \in 1..L}
    BY DEF Upto
  <2> QED BY <2>1, <2>2
<1>18. recipe' \in Recipes /\ groups' \in Seq(SUBSET StepIds)
  BY <1>1, <1>6 DEF GroupsInv
<1> DEFINE Ordered == /\ \A i \in 1..Len(groups') : \A s \in groups'[i] :
                             recipe'[s] \subseteq Upto(i - 1)' /\ (i > 1 => ~(recipe'[s] \subseteq Upto(i - 2)'))
                      /\ Len(groups') >= 1 => \A s \in remaining' : ~(recipe'[s] \subseteq Upto(Len(groups) - 1)')
<1>19. Sortable => Ordered
  BY <1>1, <1>14, <1>17
<1>20. GroupsInv' <=>
         /\ recipe' \in Recipes
         /\ remaining' \in SUBSET StepIds /\ groups' \in Seq(SUBSET StepIds)
         /\ Upto(Len(groups))' \cup remaining' = StepIds /\ Upto(Len(groups))' \cap remaining' = {}
         /\ \A i, j \in 1..Len(groups') : i # j => groups'[i] \cap groups'[j] = {}
         /\ Sortable' => Ordered
  BY DEF GroupsInv, Upto
<1>21. \A i, j \in 1..Len(groups') : i # j => groups'[i] \cap groups'[j] = {}
  BY <1>13, <1>17
<1> HIDE DEF Ordered
<1> QED BY <1>11, <1>15, <1>18, <1>19, <1>20, <1>21

LEMMA GroupsRest ==
  ASSUME GroupsInv, UNCHANGED <<recipe, groups, remaining>>
  PROVE  GroupsInv'
<1>1. recipe' = recipe /\ groups' = groups /\ remaining' = remaining
  OBVIOUS
<1>2. Sortable' <=> Sortable
  BY <1>1 DEF Sortable, Circular
<1>3. Upto(Len(groups))' = Upto(Len(groups)) /\ Upto(Len(groups) - 1)' = Upto(Len(groups) - 1)
  BY <1>1 DEF Upto
<1>4. \A i \in 1..Len(groups) : Upto(i - 1)' = Upto(i - 1) /\ Upto(i - 2)' = Upto(i - 2)
  BY <1>1 DEF Upto
<1> QED BY <1>1, <1>2, <1>3, <1>4 DEF GroupsInv

LEMMA GroupsAreRespected == GroupsInv => GroupsRespectDependencies
<1> SUFFICES ASSUME GroupsInv PROVE GroupsRespectDependencies
  OBVIOUS
<1>1. groups \in Seq(SUBSET StepIds) /\ DOMAIN groups = 1..Len(groups) /\ Grouped = Upto(Len(groups))
  BY GroupedIs DEF GroupsInv
<1> QED BY <1>1 DEF GroupsInv, GroupsRespectDependencies, Upto, Sortable

-----------------------------------------------------------------------------
(* The assembly's state machine.  Since the last time it was pending, an   *)
(* assembly has been validated before it was planned, and planned before   *)
(* it ran.                                                                 *)

AssemblyStates ==
  {"pending", "validating", "planning", "executing", "paused", "rolling_back", "completed", "failed", "cancelled"}

Assembly == [state : AssemblyStates, state_history : Seq(AssemblyStates), step_results : SUBSET IdemKeys]

PlannedStates == {"planning", "executing", "paused", "rolling_back", "completed"}

LastPendingAt(h, p) == h[p] = "pending" /\ \A j \in (p + 1)..Len(h) : h[j] # "pending"

ValidatedSince(h, p) == \E i \in p..Len(h) : h[i] = "validating"

PlannedSince(h, p) == \E i, j \in p..Len(h) : i < j /\ h[i] = "validating" /\ h[j] = "planning"

HistoryTells(h, state) ==
  /\ Len(h) >= 1 /\ h[Len(h)] = state
  /\ \E p \in 1..Len(h) :
       /\ LastPendingAt(h, p)
       /\ state = "validating" => ValidatedSince(h, p)
       /\ state \in PlannedStates => PlannedSince(h, p)

RunsCounted ==
  /\ runs \in [IdemKeys -> Nat]
  /\ \A k \in IdemKeys : runs[k] <= 1 /\ (k \in assembly.step_results <=> runs[k] = 1)

MovesInv == assembly \in Assembly /\ HistoryTells(assembly.state_history, assembly.state) /\ RunsCounted

LEMMA MovesAre ==
  /\ DOMAIN VALID_TRANSITIONS = AssemblyStates
  /\ \A s \in AssemblyStates : Targets(s) \subseteq AssemblyStates
  /\ \A s \in AssemblyStates : "validating" \in Targets(s) => s = "pending"
  /\ \A s \in AssemblyStates : "planning" \in Targets(s) => s = "validating"
  /\ \A s \in AssemblyStates : \A t \in PlannedStates \ {"planning"} : t \in Targets(s) => s \in PlannedStates
BY DEF VALID_TRANSITIONS, Targets, AssemblyStates, PlannedStates

LEMMA MovesStart == AssemblyInit => MovesInv
<1> SUFFICES ASSUME AssemblyInit PROVE MovesInv
  OBVIOUS
<1>1. assembly = [state |-> "pending", state_history |-> <<"pending">>, step_results |-> {}]
  BY DEF AssemblyInit, NewAssembly
<1>2. assembly \in Assembly /\ assembly.state = "pending" /\ assembly.state_history = <<"pending">> /\ assembly.step_results = {}
  BY <1>1 DEF Assembly, AssemblyStates
<1>3. HistoryTells(<<"pending">>, "pending")
  BY DEF HistoryTells, LastPendingAt, PlannedStates
<1>4. RunsCounted
  BY <1>2 DEF AssemblyInit, RunsCounted
<1> QED BY <1>2, <1>3, <1>4 DEF MovesInv

LEMMA HistoryGrows ==
  ASSUME NEW h \in Seq(AssemblyStates), NEW s \in AssemblyStates, HistoryTells(h, s), NEW t \in Targets(s)
  PROVE  HistoryTells(Append(h, t), t)
<1>1. t \in AssemblyStates
  BY MovesAre
<1>2. PICK L \in Nat : L = Len(h)
  OBVIOUS
<1>3. PICK g \in Seq(AssemblyStates) : g = Append(h, t)
  <2>1. Append(h, t) \in Seq(AssemblyStates)
    BY <1>1, AppendProperties
  <2> QED BY <2>1
<1>4. Len(g) = L + 1 /\ g[L + 1] = t /\ \A i \in 1..L : g[i] = h[i]
  BY <1>1, <1>2, <1>3, AppendProperties
<1>5. PICK p \in 1..L : /\ LastPendingAt(h, p)
                        /\ s = "validating" => ValidatedSince(h, p)
                        /\ s \in PlannedStates => PlannedSince(h, p)
  BY <1>2 DEF HistoryTells
<1>6. L >= 1 /\ h[L] = s
  BY <1>2 DEF HistoryTells
<1>7. CASE t = "pending"
  <2>1. L + 1 \in 1..(L + 1) /\ LastPendingAt(g, L + 1)
    BY <1>4, <1>7 DEF LastPendingAt
  <2> QED BY <1>3, <1>4, <1>7, <2>1 DEF HistoryTells, PlannedStates
<1>8. CASE t # "pending"
  <2>1. LastPendingAt(g, p) /\ p \in 1..(L + 1)
    <3>1. \A j \in (p + 1)..(L + 1) : (j \in (p + 1)..L /\ j \in 1..L) \/ j = L + 1
      OBVIOUS
    <3>2. h[p] = "pending" /\ \A j \in (p + 1)..L : h[j] # "pending"
      BY <1>2, <1>5 DEF LastPendingAt
    <3>3. \A j \in (p + 1)..(L + 1) : g[j] # "pending"
      BY <1>4, <1>8, <3>1, <3>2
    <3> QED BY <1>4, <3>2, <3>3 DEF LastPendingAt
  <2>2. \A i \in p..L : i \in 1..L /\ i \in p..(L + 1) /\ g[i] = h[i]
    BY <1>4
  <2>3. L + 1 \in p..(L + 1) /\ L \in p..L
    OBVIOUS
  <2>4. t = "validating" => ValidatedSince(g, p)
    BY <1>4, <2>3 DEF ValidatedSince
  <2>5. ASSUME t \in PlannedStates PROVE PlannedSince(g, p)
    <3>1. CASE t = "planning"
      <4>1. s = "validating"
        BY <3>1, MovesAre
      <4>2. L < L + 1 /\ g[L] = "validating" /\ g[L + 1] = "planning" /\ L \in p..(L + 1)
        BY <1>4, <1>6, <2>2, <2>3, <3>1, <4>1
      <4> QED BY <1>4, <2>3, <4>2 DEF PlannedSince
    <3>2. CASE t # "planning"
      <4>1. s \in PlannedStates
        BY <2>5, <3>2, MovesAre
      <4>2. PICK i \in p..L, j \in p..L : i < j /\ h[i] = "validating" /\ h[j] = "planning"
        BY <1>2, <1>5, <4>1 DEF PlannedSince
      <4> QED BY <1>4, <2>2, <4>2 DEF PlannedSince
    <3> QED BY <3>1, <3>2
  <2> QED BY <1>3, <1>4, <2>1, <2>4, <2>5 DEF HistoryTells
<1> QED BY <1>7, <1>8

LEMMA TransitionKeeps ==
  ASSUME MovesInv, NEW t, TransitionAssembly(t)
  PROVE  MovesInv'
<1>1. PICK a \in Assembly : a = assembly
  BY DEF MovesInv
<1>2. /\ t \in Targets(a.state) /\ runs' = runs
      /\ assembly' = [a EXCEPT !.state = t, !.state_history = Append(@, t)]
  BY <1>1 DEF TransitionAssembly
<1>3. a.state \in AssemblyStates /\ a.state_history \in Seq(AssemblyStates) /\ t \in AssemblyStates
  BY <1>1, <1>2, MovesAre DEF Assembly
<1>4. HistoryTells(a.state_history, a.state)
  BY <1>1 DEF MovesInv
<1>5. PICK h \in Seq(AssemblyStates) : h = Append(a.state_history, t)
  <2>1. PICK old \in Seq(AssemblyStates) : old = a.state_history
    BY <1>3
  <2>2. Append(old, t) \in Seq(AssemblyStates)
    BY <1>3, AppendProperties
  <2> QED BY <2>1, <2>2
<1>6. HistoryTells(h, t)
  BY <1>2, <1>3, <1>4, <1>5, HistoryGrows
<1>7. PICK b : b = [a EXCEPT !.state = t, !.state_history = h]
  OBVIOUS
<1>8. b \in Assembly /\ b.state = t /\ b.state_history = h /\ b.step_results = a.step_results
  BY <1>3, <1>5, <1>7 DEF Assembly
<1>9. assembly' = b
  BY <1>2, <1>5, <1>7
<1>10. RunsCounted'
  BY <1>1, <1>2, <1>8, <1>9 DEF MovesInv, RunsCounted
<1> QED BY <1>6, <1>8, <1>9, <1>10 DEF MovesInv

LEMMA ExecuteKeeps ==
  ASSUME MovesInv, NEW k \in IdemKeys, ExecuteStep(k)
  PROVE  MovesInv'
<1>1. PICK a \in Assembly : a = assembly
  BY DEF MovesInv
<1>2. /\ k \notin a.step_results /\ runs' = [runs EXCEPT ![k] = @ + 1]
      /\ assembly' = [a EXCEPT !.step_results = @ \cup {k}]
  BY <1>1 DEF ExecuteStep
<1>3. PICK results \in SUBSET IdemKeys : results = a.step_results \cup {k}
  BY <1>1 DEF Assembly
<1>4. PICK b : b = [a EXCEPT !.step_results = results]
  OBVIOUS
<1>5. b \in Assembly /\ b.state = a.state /\ b.state_history = a.state_history /\ b.step_results = results
  BY <1>1, <1>3, <1>4 DEF Assembly
<1>6. assembly' = b
  BY <1>2, <1>3, <1>4
<1>7. runs \in [IdemKeys -> Nat] /\ \A j \in IdemKeys : runs[j] <= 1 /\ (j \in a.step_results <=> runs[j] = 1)
  BY <1>1 DEF MovesInv, RunsCounted
<1>8. runs' \in [IdemKeys -> Nat] /\ \A j \in IdemKeys : runs'[j] = IF j = k THEN runs[k] + 1 ELSE runs[j]
  BY <1>2, <1>7
<1>9. runs[k] = 0
  BY <1>2, <1>7
<1>10. \A j \in IdemKeys : runs'[j] <= 1 /\ (j \in results <=> runs'[j] = 1)
  <2> SUFFICES ASSUME NEW j \in IdemKeys PROVE runs'[j] <= 1 /\ (j \in results <=> runs'[j] = 1)
    OBVIOUS
  <2>1. CASE j = k
    BY <1>3, <1>8, <1>9, <2>1
  <2>2. CASE j # k
    BY <1>3, <1>7, <1>8, <2>2
  <2> QED BY <2>1, <2>2
<1>11. RunsCounted'
  BY <1>5, <1>6, <1>8, <1>10 DEF RunsCounted
<1> QED BY <1>1, <1>5, <1>6, <1>11 DEF MovesInv

LEMMA MovesRest == ASSUME MovesInv, UNCHANGED <<assembly, runs>> PROVE MovesInv'
BY DEF MovesInv, RunsCounted

LEMMA LastPendingIs ==
  ASSUME NEW h \in Seq(AssemblyStates), NEW p \in 1..Len(h), LastPendingAt(h, p)
  PROVE  (CHOOSE i \in DOMAIN h : h[i] = "pending" /\ \A j \in i + 1..Len(h) : h[j] # "pending") = p
<1> DEFINE last == CHOOSE i \in DOMAIN h : h[i] = "pending" /\ \A j \in i + 1..Len(h) : h[j] # "pending"
<1>1. DOMAIN h = 1..Len(h) /\ Len(h) \in Nat
  OBVIOUS
<1>2. \E i \in DOMAIN h : h[i] = "pending" /\ \A j \in i + 1..Len(h) : h[j] # "pending"
  BY <1>1 DEF LastPendingAt
<1>3. last \in DOMAIN h /\ h[last] = "pending" /\ \A j \in last + 1..Len(h) : h[j] # "pending"
  BY <1>2
<1> SUFFICES last = p
  OBVIOUS
<1> HIDE DEF last
<1>4. last \in 1..Len(h)
  BY <1>1, <1>3
<1>5. ~(last < p)
  <2>1. last < p => p \in last + 1..Len(h)
    BY <1>1, <1>4
  <2> QED BY <1>3, <2>1 DEF LastPendingAt
<1>6. ~(p < last)
  <2>1. p < last => last \in p + 1..Len(h)
    BY <1>1, <1>4
  <2> QED BY <1>3, <2>1 DEF LastPendingAt
<1> QED BY <1>1, <1>4, <1>5, <1>6

LEMMA ExecutionsArePlanned == MovesInv => ExecutionIsPlanned
<1> SUFFICES ASSUME MovesInv PROVE ExecutionIsPlanned
  OBVIOUS
<1>1. assembly.state_history \in Seq(AssemblyStates) /\ HistoryTells(assembly.state_history, assembly.state)
  BY DEF MovesInv, Assembly
<1>2. PICK p \in 1..Len(assembly.state_history) :
         /\ LastPendingAt(assembly.state_history, p)
         /\ assembly.state \in PlannedStates => PlannedSince(assembly.state_history, p)
  BY <1>1 DEF HistoryTells
<1>3. (CHOOSE i \in DOMAIN assembly.state_history :
          assembly.state_history[i] = "pending"
          /\ \A j \in i + 1..Len(assembly.state_history) : assembly.state_history[j] # "pending") = p
  BY <1>1, <1>2, LastPendingIs
<1>4. assembly.state_history[Len(assembly.state_history)] = assembly.state
  BY <1>1 DEF HistoryTells
<1>5. assembly.state \in {"executing", "rolling_back", "paused", "completed"} =>
         \E i, j \in p..Len(assembly.state_history) :
            i < j /\ assembly.state_history[i] = "validating" /\ assembly.state_history[j] = "planning"
  BY <1>2 DEF PlannedSince, PlannedStates
<1> QED BY <1>3, <1>4, <1>5 DEF ExecutionIsPlanned

LEMMA StepsAreRunOnce == MovesInv => StepsRunOnce
BY DEF MovesInv, RunsCounted, StepsRunOnce

-----------------------------------------------------------------------------
(* The assembly engine as a whole. *)

AssemblyInv ==
  /\ GroupsInv /\ MovesInv
  /\ SearchHolds(search, Named, DependsOn(recipe)) /\ Within(search, StepIds, DependsOn(recipe))

LEMMA DependenciesAre == ASSUME NEW r \in Recipes PROVE DependsOn(r) \in [Named -> SUBSET Named]
BY AssemblyConstants DEF DependsOn, Named

LEMMA AssemblyStart == AssemblyInit => AssemblyInv
<1> SUFFICES ASSUME AssemblyInit PROVE AssemblyInv
  OBVIOUS
<1>1. search = NewSearch(Named)
  BY DEF AssemblyInit
<1> QED BY <1>1, GroupsStart, MovesStart, NewSearchHolds DEF AssemblyInv

LEMMA AssemblyKeeps ==
  ASSUME AssemblyInv, PlanNext \/ AssemblyNext \/ UNCHANGED assemblyVars
  PROVE  AssemblyInv'
<1>1. ASSUME UNCHANGED <<recipe, search, groups, remaining>>, MovesInv' PROVE AssemblyInv'
  <2>1. recipe' = recipe /\ search' = search
    BY <1>1
  <2>2. GroupsInv'
    BY <1>1, GroupsRest DEF AssemblyInv
  <2>3. DependsOn(recipe)' = DependsOn(recipe)
    BY <2>1 DEF DependsOn
  <2> QED BY <1>1, <2>1, <2>2, <2>3 DEF AssemblyInv
<1>2. CASE UNCHANGED assemblyVars
  <2>1. UNCHANGED <<recipe, search, groups, remaining>> /\ UNCHANGED <<assembly, runs>>
    BY <1>2 DEF assemblyVars
  <2> QED BY <1>1, <2>1, MovesRest DEF AssemblyInv
<1>3. ASSUME NEW t, TransitionAssembly(t) PROVE AssemblyInv'
  <2>1. UNCHANGED <<recipe, search, groups, remaining>>
    BY <1>3 DEF TransitionAssembly
  <2> QED BY <1>1, <1>3, <2>1, TransitionKeeps DEF AssemblyInv
<1>4. ASSUME NEW k \in IdemKeys, ExecuteStep(k) PROVE AssemblyInv'
  <2>1. UNCHANGED <<recipe, search, groups, remaining>>
    BY <1>4 DEF ExecuteStep
  <2> QED BY <1>1, <1>4, <2>1, ExecuteKeeps DEF AssemblyInv
<1>5. CASE NextGroup
  <2>1. recipe' = recipe /\ search' = search /\ UNCHANGED <<assembly, runs>>
    BY <1>5 DEF NextGroup
  <2>2. DependsOn(recipe)' = DependsOn(recipe)
    BY <2>1 DEF DependsOn
  <2> QED BY <1>5, <2>1, <2>2, NextGroupKeeps, MovesRest DEF AssemblyInv
<1>6. CASE DetectCycle
  <2>1. /\ recipe' = recipe /\ search' \in SearchSteps(search, StepIds, DependsOn(recipe))
        /\ UNCHANGED <<recipe, groups, remaining>> /\ UNCHANGED <<assembly, runs>>
    BY <1>6 DEF DetectCycle
  <2>2. DependsOn(recipe)' = DependsOn(recipe)
    BY <2>1 DEF DependsOn
  <2>3. DependsOn(recipe) \in [Named -> SUBSET Named] /\ StepIds \in SUBSET Named
    BY DependenciesAre DEF AssemblyInv, GroupsInv, Named
  <2>4. /\ SearchHolds(search', Named, DependsOn(recipe))
        /\ Within(search', StepIds, DependsOn(recipe))
    BY <2>1, <2>3, SearchStepHolds DEF AssemblyInv
  <2> QED BY <2>1, <2>2, <2>4, GroupsRest, MovesRest DEF AssemblyInv
<1> QED BY <1>2, <1>3, <1>4, <1>5, <1>6 DEF PlanNext, AssemblyNext

LEMMA CycleCheckIsExact == AssemblyInv => CycleCheckExact
<1> SUFFICES ASSUME AssemblyInv, SearchOver(search, StepIds) PROVE search.cycle = Circular(recipe)
  BY DEF CycleCheckExact, Validated
<1> DEFINE g == DependsOn(recipe)
<1>1. g \in [Named -> SUBSET Named] /\ StepIds \in SUBSET Named
  BY DependenciesAre DEF AssemblyInv, GroupsInv, Named
<1>2. \A s \in Named : g[s] = IF s \in StepIds THEN recipe[s] ELSE {}
  BY DEF DependsOn
<1>3. SearchHolds(search, Named, g) /\ Within(search, StepIds, g) /\ search.cycle \in BOOLEAN
  BY DEF AssemblyInv, SearchHolds, SearchRecord
<1> HIDE DEF g
<1>4. ASSUME search.cycle PROVE Circular(recipe)
  <2>1. PICK S \in SUBSET Named : FeedsItself(S, g)
    BY <1>1, <1>3, <1>4, SearchAnswers
  <2>2. S \in SUBSET StepIds
    BY <1>2, <2>1 DEF FeedsItself
  <2> QED BY <1>2, <2>1, <2>2 DEF FeedsItself, Circular, Named
<1>5. ASSUME ~search.cycle, Circular(recipe) PROVE FALSE
  <2>1. StepIds \subseteq search.visited /\ \A S \in SUBSET search.visited : ~FeedsItself(S, g)
    BY <1>1, <1>3, <1>5, SearchAnswers DEF ClosedUnder
  <2>2. PICK S \in (SUBSET StepIds) \ {{}} : \A s \in S : recipe[s] \cap S # {}
    BY <1>5 DEF Circular
  <2>3. S # {} /\ S \subseteq StepIds
    BY <2>2
  <2>4. ASSUME NEW n \in S PROVE g[n] \cap S # {}
    <3>1. n \in StepIds /\ n \in Named
      BY <2>3 DEF Named
    <3>2. g[n] = recipe[n]
      BY <1>2, <3>1
    <3> QED BY <2>2, <3>2
  <2>5. FeedsItself(S, g)
    BY <2>3, <2>4 DEF FeedsItself
  <2>6. S \in SUBSET search.visited
    BY <2>1, <2>3
  <2> QED BY <2>1, <2>5, <2>6
<1>6. Circular(recipe) \in BOOLEAN
  BY DEF Circular
<1> QED BY <1>3, <1>4, <1>5, <1>6

LEMMA AssemblyTyped == AssemblyInv => AssemblyTypeOK
<1> SUFFICES ASSUME AssemblyInv PROVE AssemblyTypeOK
  OBVIOUS
<1>1. search.visited \subseteq Named /\ search.path \in Seq(Named)
  BY DEF AssemblyInv, SearchHolds, SearchRecord
<1>2. remaining \in SUBSET StepIds /\ groups \in Seq(SUBSET StepIds)
  BY DEF AssemblyInv, GroupsInv
<1>3. assembly.state \in DOMAIN VALID_TRANSITIONS /\ runs \in [IdemKeys -> Nat]
  BY MovesAre DEF AssemblyInv, MovesInv, Assembly, RunsCounted
<1> QED BY <1>1, <1>2, <1>3 DEF AssemblyTypeOK

-----------------------------------------------------------------------------
(* The aggregation of a composite's children: a bound of all their values  *)
(* bounds both averages.                                                   *)

Aggregate == [values : SUBSET Values, count : Nat, sum : Int, latest : Int, weight : Nat, weighted : Int]

Bounded(a) ==
  /\ a.count = 0 <=> a.values = {}
  /\ a.values # {} =>
       /\ a.latest \in a.values
       /\ \E lo \in a.values : \A v \in a.values : lo <= v
       /\ \E hi \in a.values : \A v \in a.values : v <= hi
  /\ \A lo \in Int : (\A v \in a.values : lo <= v) => lo * a.count <= a.sum /\ lo * a.weight <= a.weighted
  /\ \A hi \in Int : (\A v \in a.values : v <= hi) => a.sum <= hi * a.count /\ a.weighted <= hi * a.weight

LEMMA WeightsKeepOrder ==
  ASSUME NEW a \in Int, NEW b \in Int, a <= b, NEW w \in Nat, NEW c \in Int, NEW x \in Int
  PROVE  a * w <= b * w /\ x * (c + w) = x * c + x * w /\ x * (c + 1) = x * c + x
OBVIOUS

LEMMA ReportHolds ==
  ASSUME NEW a \in Aggregate, Bounded(a), NEW node, node.weight \in Nat, NEW value \in Values \cup {NoValue}
  PROVE  Report(a, node, value) \in Aggregate /\ Bounded(Report(a, node, value))
<1>1. CASE value = NoValue
  BY <1>1 DEF Report
<1>2. CASE value # NoValue
  <2>1. value \in Values /\ value \in Int
    BY <1>2, CompositeConstants
  <2>2. PICK w \in Nat : w = node.weight
    OBVIOUS
  <2>3. /\ a.values \in SUBSET Values /\ a.count \in Nat /\ a.sum \in Int /\ a.weight \in Nat /\ a.weighted \in Int
        /\ \A v \in a.values : v \in Int
    BY CompositeConstants DEF Aggregate
  <2>4. PICK product \in Int : product = value * w
    BY <2>1
  <2>5. PICK b : b = Report(a, node, value)
    OBVIOUS
  <2>6. b = [values |-> a.values \cup {value}, count |-> a.count + 1, sum |-> a.sum + value,
             latest |-> value, weight |-> a.weight + w, weighted |-> a.weighted + product]
    BY <1>2, <2>2, <2>4, <2>5 DEF Report
  <2>7. /\ b.values = a.values \cup {value} /\ b.count = a.count + 1 /\ b.sum = a.sum + value
        /\ b.latest = value /\ b.weight = a.weight + w /\ b.weighted = a.weighted + product
    BY <2>6
  <2>8. b \in Aggregate
    BY <2>1, <2>3, <2>6 DEF Aggregate
  <2>9. b.count # 0 /\ b.values # {} /\ b.latest \in b.values
    BY <2>3, <2>7
  <2>10. \E lo \in b.values : \A v \in b.values : lo <= v
    <3>1. CASE a.values = {}
      BY <2>1, <2>7, <3>1
    <3>2. CASE a.values # {}
      <4>1. PICK lo \in a.values : \A v \in a.values : lo <= v
        BY <3>2 DEF Bounded
      <4>2. CASE lo <= value
        BY <2>7, <4>1, <4>2
      <4>3. CASE ~(lo <= value)
        <5>1. \A v \in b.values : value <= v
          BY <2>1, <2>3, <2>7, <4>1, <4>3
        <5> QED BY <2>7, <5>1
      <4> QED BY <4>2, <4>3
    <3> QED BY <3>1, <3>2
  <2>11. \E hi \in b.values : \A v \in b.values : v <= hi
    <3>1. CASE a.values = {}
      BY <2>1, <2>7, <3>1
    <3>2. CASE a.values # {}
      <4>1. PICK hi \in a.values : \A v \in a.values : v <= hi
        BY <3>2 DEF Bounded
      <4>2. CASE value <= hi
        BY <2>7, <4>1, <4>2
      <4>3. CASE ~(value <= hi)
        <5>1. \A v \in b.values : v <= value
          BY <2>1, <2>3, <2>7, <4>1, <4>3
        <5> QED BY <2>7, <5>1
      <4> QED BY <4>2, <4>3
    <3> QED BY <3>1, <3>2
  <2>12. ASSUME NEW lo \in Int, \A v \in b.values : lo <= v
         PROVE  lo * b.count <= b.sum /\ lo * b.weight <= b.weighted
    <3>1. lo <= value /\ \A v \in a.values : lo <= v
      BY <2>7, <2>12
    <3>2. lo * a.count <= a.sum /\ lo * a.weight <= a.weighted
      BY <3>1 DEF Bounded
    <3>3. lo * w <= product
      BY <2>1, <2>4, <3>1, WeightsKeepOrder
    <3>4. lo * (a.count + 1) = lo * a.count + lo /\ lo * (a.weight + w) = lo * a.weight + lo * w
      BY <2>3, WeightsKeepOrder
    <3>5. lo * a.count \in Int /\ lo * a.weight \in Int /\ lo * w \in Int
      BY <2>3
    <3>6. lo * a.count + lo <= a.sum + value /\ lo * a.weight + lo * w <= a.weighted + product
      BY <2>1, <2>3, <3>1, <3>2, <3>3, <3>5
    <3> QED BY <2>7, <3>4, <3>6
  <2>13. ASSUME NEW hi \in Int, \A v \in b.values : v <= hi
         PROVE  b.sum <= hi * b.count /\ b.weighted <= hi * b.weight
    <3>1. value <= hi /\ \A v \in a.values : v <= hi
      BY <2>7, <2>13
    <3>2. a.sum <= hi * a.count /\ a.weighted <= hi * a.weight
      BY <3>1 DEF Bounded
    <3>3. product <= hi * w
      BY <2>1, <2>4, <3>1, WeightsKeepOrder
    <3>4. hi * (a.count + 1) = hi * a.count + hi /\ hi * (a.weight + w) = hi * a.weight + hi * w
      BY <2>3, WeightsKeepOrder
    <3>5. hi * a.count \in Int /\ hi * a.weight \in Int /\ hi * w \in Int
      BY <2>3
    <3>6. a.sum + value <= hi * a.count + hi /\ a.weighted + product <= hi * a.weight + hi * w
      BY <2>1, <2>3, <3>1, <3>2, <3>3, <3>5
    <3> QED BY <2>7, <3>4, <3>6
  <2>14. Bounded(b)
    BY <2>9, <2>10, <2>11, <2>12, <2>13 DEF Bounded
  <2> QED BY <2>5, <2>8, <2>14
<1> QED BY <1>1, <1>2

CompositeNode == [ref : Children, depth : Nat, weight : Nat]

LEMMA ReportedHolds ==
  ASSUME NEW tree \in Seq(CompositeNode), NEW value \in [Children -> Values \cup {NoValue}]
  PROVE  Reported(tree, value) \in Aggregate /\ Bounded(Reported(tree, value))
<1> DEFINE n == Len(tree)
           T == {a \in Aggregate : Bounded(a)}
           Turn(a, i) == Report(a, tree[i], value[tree[i].ref])
           turn == [p \in T \X (1..n) |-> Turn(p[1], p[2])]
           Loops(f) == f = [i \in 0..n |-> IF i = 0 THEN NothingReported ELSE Turn(f[i - 1], i)]
           g == CHOOSE f : Loops(f)
<1>1. n \in Nat /\ \A i \in 1..n : value[tree[i].ref] \in Values \cup {NoValue} /\ tree[i].weight \in Nat
  <2>1. n \in Nat /\ \A i \in 1..n : tree[i] \in CompositeNode
    OBVIOUS
  <2>2. \A i \in 1..n : tree[i].ref \in Children /\ tree[i].weight \in Nat
    BY <2>1 DEF CompositeNode
  <2> QED BY <2>1, <2>2
<1>2. NothingReported \in T
  <2>1. NothingReported \in Aggregate
    BY DEF NothingReported, Aggregate
  <2>2. \A x \in Int : x * 0 = 0
    OBVIOUS
  <2>3. Bounded(NothingReported)
    BY <2>2 DEF NothingReported, Bounded
  <2> QED BY <2>1, <2>3
<1>3. \A a \in T, i \in 1..n : Turn(a, i) \in T
  BY <1>1, ReportHolds
<1>4. Reported(tree, value) = g[n]
  BY DEF Reported
<1> HIDE DEF n, T, Turn
<1>5. turn \in Turns(n, T) /\ \A a \in T, i \in 1..n : turn[<<a, i>>] = Turn(a, i)
  BY <1>3 DEF Turns
<1> HIDE DEF turn
<1>6. PICK f : LoopRuns(f, n, T, NothingReported, turn)
  BY <1>1, <1>2, <1>5, LoopExists
<1>7. \A i \in 1..n : f[i] = Turn(f[i - 1], i)
  <2> SUFFICES ASSUME NEW i \in 1..n PROVE f[i] = Turn(f[i - 1], i)
    OBVIOUS
  <2>1. f[i - 1] \in T
    BY <1>1, <1>6 DEF LoopRuns
  <2> QED BY <1>5, <1>6, <2>1 DEF LoopRuns
<1>8. Loops(f)
  BY <1>1, <1>6, <1>7 DEF LoopRuns
<1>9. Loops(g)
  BY <1>8
<1> HIDE DEF g
<1>10. \A i \in 0..n : g[i] = IF i = 0 THEN NothingReported ELSE Turn(g[i - 1], i)
  BY <1>9, Zenon
<1> DEFINE S == {i \in 0..n : g[i] \in T}
<1>11. 0 \in S
  BY <1>1, <1>2, <1>10
<1>12. ASSUME NEW i \in 0..(n - 1), i \in S PROVE i + 1 \in S
  <2>1. i + 1 \in 1..n /\ g[i] \in T /\ (i + 1) - 1 = i /\ i + 1 # 0 /\ i + 1 \in 0..n
    BY <1>1, <1>12
  <2>2. g[i + 1] = Turn(g[i], i + 1)
    BY <1>10, <2>1
  <2>3. g[i + 1] \in T
    BY <1>3, <2>1, <2>2
  <2> QED BY <2>1, <2>3
<1> HIDE DEF S
<1>13. n \in S
  <2>1. 0..n \subseteq S
    BY <1>1, <1>11, <1>12, SetInduction, Zenon
  <2> QED BY <1>1, <2>1
<1> QED BY <1>4, <1>13 DEF S, T

LEMMA AggregationHolds ==
  ASSUME ~composite.absent, composite.tree \in Seq(CompositeNode),
         NEW value \in [Children -> Values \cup {NoValue}], ComputeAggregation(value)
  PROVE  AveragesLieBetween'
<1>1. PICK a \in Aggregate : a = Reported(composite.tree, value)
  BY ReportedHolds
<1>2. Bounded(a)
  BY <1>1, ReportedHolds
<1>3. aggregate' = [absent |-> FALSE, values |-> a.values, count |-> a.count, sum |-> a.sum,
                    avg |-> IF a.count = 0 THEN <<0, 1>> ELSE <<a.sum, a.count>>,
                    min |-> IF a.count = 0 THEN 0 ELSE Min(a.values),
                    max |-> IF a.count = 0 THEN 0 ELSE Max(a.values),
                    latest |-> a.latest,
                    weighted |-> IF a.weight > 0 THEN <<a.weighted, a.weight>> ELSE <<0, 1>>]
  BY <1>1 DEF ComputeAggregation
<1>4. /\ aggregate'.values = a.values /\ aggregate'.latest = a.latest
      /\ aggregate'.avg = IF a.count = 0 THEN <<0, 1>> ELSE <<a.sum, a.count>>
      /\ aggregate'.min = IF a.count = 0 THEN 0 ELSE Min(a.values)
      /\ aggregate'.max = IF a.count = 0 THEN 0 ELSE Max(a.values)
      /\ aggregate'.weighted = IF a.weight > 0 THEN <<a.weighted, a.weight>> ELSE <<0, 1>>
  BY <1>3
<1> SUFFICES ASSUME a.values # {}
             PROVE  /\ aggregate'.min * aggregate'.avg[2] <= aggregate'.avg[1]
                    /\ aggregate'.avg[1] <= aggregate'.max * aggregate'.avg[2]
                    /\ aggregate'.latest \in aggregate'.values
                    /\ aggregate'.weighted # <<0, 1>> =>
                          /\ aggregate'.min * aggregate'.weighted[2] <= aggregate'.weighted[1]
                          /\ aggregate'.weighted[1] <= aggregate'.max * aggregate'.weighted[2]
  BY <1>4 DEF AveragesLieBetween
<1>5. a.count # 0 /\ a.latest \in a.values /\ a.values \subseteq Int
  BY <1>1, <1>2, CompositeConstants DEF Bounded, Aggregate
<1>6. Min(a.values) \in a.values /\ \A v \in a.values : Min(a.values) <= v
  BY <1>2 DEF Min, Bounded
<1>7. Max(a.values) \in a.values /\ \A v \in a.values : v <= Max(a.values)
  <2>1. \E hi \in a.values : \A v \in a.values : hi >= v
    BY <1>2, <1>5 DEF Bounded
  <2>2. Max(a.values) \in a.values /\ \A v \in a.values : Max(a.values) >= v
    BY <2>1 DEF Max
  <2> QED BY <1>5, <2>2
<1>8. /\ Min(a.values) * a.count <= a.sum /\ Min(a.values) * a.weight <= a.weighted
      /\ a.sum <= Max(a.values) * a.count /\ a.weighted <= Max(a.values) * a.weight
  BY <1>2, <1>5, <1>6, <1>7 DEF Bounded
<1> QED BY <1>4, <1>5, <1>8

-----------------------------------------------------------------------------
(* The inheritance of capabilities.  After each child the loops hold, for  *)
(* every capability offered so far, the last child that offered it, and as *)
(* many conflicts as there were offers of a capability already inherited.  *)

Inheritance ==
  [inherited : UNION {[D -> Children] : D \in SUBSET Capabilities},
   conflicts : Seq(Capabilities \X Children \X Children)]

Held(x) == DOMAIN x.inherited

Tally(x, n) == IsFiniteSet(Held(x)) /\ Cardinality(Held(x)) \in Nat /\ Len(x.conflicts) + Cardinality(Held(x)) = n

LEMMA InheritHolds ==
  ASSUME NEW x \in Inheritance, NEW n \in Nat, Tally(x, n), NEW code \in Capabilities, NEW source \in Children,
         NEW y, y = Inherit(x, code, source)
  PROVE  /\ y \in Inheritance /\ Tally(y, n + 1) /\ Held(y) = Held(x) \cup {code}
         /\ \A c \in Held(y) : y.inherited[c] = IF c = code THEN source ELSE x.inherited[c]
<1>1. PICK D \in SUBSET Capabilities : x.inherited \in [D -> Children]
  BY DEF Inheritance
<1>2. PICK got \in [D -> Children] : got = x.inherited
  BY <1>1
<1>3. PICK told \in Seq(Capabilities \X Children \X Children) : told = x.conflicts
  BY DEF Inheritance
<1>4. Held(x) = D
  BY <1>2 DEF Held
<1>5. PICK got2 : got2 = [c \in D \cup {code} |-> IF c = code THEN source ELSE got[c]]
  OBVIOUS
<1>6. got2 \in [D \cup {code} -> Children] /\ D \cup {code} \in SUBSET Capabilities
  BY <1>5
<1>7. PICK told2 : told2 = IF code \in D THEN Append(told, <<code, got[code], source>>) ELSE told
  OBVIOUS
<1>8. /\ told2 \in Seq(Capabilities \X Children \X Children)
      /\ Len(told2) = IF code \in D THEN Len(told) + 1 ELSE Len(told)
  <2>1. CASE code \in D
    <3>1. <<code, got[code], source>> \in Capabilities \X Children \X Children
      BY <2>1
    <3>2. PICK e \in Capabilities \X Children \X Children : e = <<code, got[code], source>>
      BY <3>1
    <3>3. Append(told, e) \in Seq(Capabilities \X Children \X Children) /\ Len(Append(told, e)) = Len(told) + 1
      BY <3>2, AppendProperties
    <3> QED BY <1>7, <2>1, <3>2, <3>3
  <2>2. CASE code \notin D
    BY <1>7, <2>2
  <2> QED BY <2>1, <2>2
<1>9. y = [inherited |-> got2, conflicts |-> told2]
  BY <1>2, <1>3, <1>5, <1>7 DEF Inherit
<1>10. y \in Inheritance /\ y.inherited = got2 /\ y.conflicts = told2
  <2>1. got2 \in UNION {[C -> Children] : C \in SUBSET Capabilities}
    BY <1>6
  <2> QED BY <1>8, <1>9, <2>1 DEF Inheritance
<1>11. Held(y) = D \cup {code}
  BY <1>6, <1>10 DEF Held
<1>12. /\ IsFiniteSet(D \cup {code})
       /\ Cardinality(D \cup {code}) = IF code \in D THEN Cardinality(D) ELSE Cardinality(D) + 1
  BY <1>4, FS_AddElement DEF Tally
<1>13. Tally(y, n + 1)
  <2>1. Len(told) + Cardinality(D) = n /\ Cardinality(D) \in Nat /\ Len(told) \in Nat
    BY <1>3, <1>4 DEF Tally
  <2> QED BY <1>8, <1>10, <1>11, <1>12, <2>1 DEF Tally
<1> QED BY <1>2, <1>4, <1>5, <1>10, <1>11, <1>13

LEMMA InheritAllHolds ==
  ASSUME NEW x \in Inheritance, NEW n \in Nat, Tally(x, n),
         NEW offers \in Seq(Capabilities), NEW source \in Children, NEW y, y = InheritAll(x, offers, source)
  PROVE  /\ y \in Inheritance /\ Tally(y, n + Len(offers)) /\ Held(y) = Held(x) \cup Range(offers)
         /\ \A c \in Held(y) : y.inherited[c] = IF c \in Range(offers) THEN source ELSE x.inherited[c]
<1> DEFINE m == Len(offers)
           T == {z \in Inheritance : \E k \in Nat : Tally(z, k)}
           Turn(z, j) == Inherit(z, offers[j], source)
           turn == [p \in T \X (1..m) |-> Turn(p[1], p[2])]
           Loops(f) == f = [j \in 0..m |-> IF j = 0 THEN x ELSE Turn(f[j - 1], j)]
           g == CHOOSE f : Loops(f)
           Seen(j) == {offers[i] : i \in 1..j}
<1>1. m \in Nat /\ \A j \in 1..m : offers[j] \in Capabilities
  OBVIOUS
<1>2. x \in T
  OBVIOUS
<1>3. \A z \in T, j \in 1..m : Turn(z, j) \in T
  <2> SUFFICES ASSUME NEW z \in T, NEW j \in 1..m PROVE Turn(z, j) \in T
    OBVIOUS
  <2>1. PICK k \in Nat : Tally(z, k)
    OBVIOUS
  <2>2. Turn(z, j) \in Inheritance /\ Tally(Turn(z, j), k + 1) /\ k + 1 \in Nat
    BY <1>1, <2>1, InheritHolds
  <2> QED BY <2>2
<1>4. y = g[m]
  BY DEF InheritAll
<1> HIDE DEF T
<1>5. turn \in Turns(m, T) /\ \A z \in T, j \in 1..m : turn[<<z, j>>] = Turn(z, j)
  BY <1>3 DEF Turns
<1> HIDE DEF turn, Turn
<1>6. PICK f : LoopRuns(f, m, T, x, turn)
  BY <1>1, <1>2, <1>5, LoopExists
<1>7. \A j \in 1..m : f[j] = Turn(f[j - 1], j)
  <2> SUFFICES ASSUME NEW j \in 1..m PROVE f[j] = Turn(f[j - 1], j)
    OBVIOUS
  <2>1. f[j - 1] \in T
    BY <1>1, <1>6 DEF LoopRuns
  <2> QED BY <1>5, <1>6, <2>1 DEF LoopRuns
<1>8. Loops(f)
  BY <1>1, <1>6, <1>7 DEF LoopRuns
<1>9. Loops(g)
  BY <1>8
<1> HIDE DEF g
<1>10. \A j \in 0..m : g[j] = IF j = 0 THEN x ELSE Turn(g[j - 1], j)
  BY <1>9, Zenon
<1> DEFINE Holds(z, j) ==
             /\ z \in Inheritance /\ Tally(z, n + j) /\ Held(z) = Held(x) \cup Seen(j)
             /\ \A c \in Held(z) : z.inherited[c] = IF c \in Seen(j) THEN source ELSE x.inherited[c]
           S == {j \in 0..m : Holds(g[j], j)}
<1>11. 0 \in S
  <2>1. Seen(0) = {} /\ n + 0 = n /\ 0 \in 0..m
    BY <1>1
  <2>2. g[0] = x
    BY <1>10, <2>1
  <2> QED BY <2>1, <2>2
<1>12. ASSUME NEW j \in 0..(m - 1), j \in S PROVE j + 1 \in S
  <2>1. j + 1 \in 1..m /\ (j + 1) - 1 = j /\ j + 1 # 0 /\ j + 1 \in 0..m /\ n + j \in Nat /\ (n + j) + 1 = n + (j + 1)
    BY <1>1, <1>12
  <2>2. g[j + 1] = Inherit(g[j], offers[j + 1], source)
    BY <1>10, <2>1 DEF Turn
  <2>3. Seen(j + 1) = Seen(j) \cup {offers[j + 1]}
    BY <1>1, <1>12
  <2>4. Holds(g[j], j)
    BY <1>12
  <2> HIDE DEF Seen
  <2>5. /\ g[j + 1] \in Inheritance /\ Tally(g[j + 1], n + j + 1) /\ Held(g[j + 1]) = Held(g[j]) \cup {offers[j + 1]}
        /\ \A c \in Held(g[j + 1]) :
             g[j + 1].inherited[c] = IF c = offers[j + 1] THEN source ELSE g[j].inherited[c]
    BY <1>1, <2>1, <2>2, <2>4, InheritHolds
  <2>6. Held(g[j + 1]) = Held(x) \cup Seen(j + 1)
    BY <2>3, <2>4, <2>5
  <2>7. ASSUME NEW c \in Held(g[j + 1])
        PROVE  g[j + 1].inherited[c] = IF c \in Seen(j + 1) THEN source ELSE x.inherited[c]
    <3>1. CASE c = offers[j + 1]
      BY <2>3, <2>5, <3>1
    <3>2. CASE c # offers[j + 1]
      <4>1. c \in Held(g[j]) /\ (c \in Seen(j + 1) <=> c \in Seen(j))
        BY <2>3, <2>5, <3>2
      <4> QED BY <2>4, <2>5, <3>2, <4>1
    <3> QED BY <3>1, <3>2
  <2>8. Tally(g[j + 1], n + (j + 1))
    BY <2>1, <2>5
  <2>9. Holds(g[j + 1], j + 1)
    BY <2>5, <2>6, <2>7, <2>8
  <2> HIDE DEF Holds
  <2> QED BY <2>1, <2>9
<1> HIDE DEF S
<1>13. m \in S
  <2>1. 0..m \subseteq S
    BY <1>1, <1>11, <1>12, SetInduction, Zenon
  <2> QED BY <1>1, <2>1
<1>14. Holds(y, m)
  BY <1>4, <1>13 DEF S
<1>15. Seen(m) = Range(offers)
  BY <1>1 DEF Range
<1> QED BY <1>14, <1>15

(* The number of offers, child by child. *)
LEMMA OffersCounted ==
  ASSUME NEW tree \in Seq(CompositeNode), NEW caps \in [Children -> Seq(Capabilities)]
  PROVE  \E f \in [0..Len(tree) -> Nat] :
           /\ f[0] = 0 /\ NumberOfOffers(tree, caps) = f[Len(tree)]
           /\ \A i \in 1..Len(tree) : f[i] = f[i - 1] + Len(caps[tree[i].ref])
<1> DEFINE n == Len(tree)
           Turn(a, i) == a + Len(caps[tree[i].ref])
           turn == [p \in Nat \X (1..n) |-> Turn(p[1], p[2])]
           Loops(f) == f = [i \in 0..n |-> IF i = 0 THEN 0 ELSE Turn(f[i - 1], i)]
           g == CHOOSE f : Loops(f)
<1>1. n \in Nat /\ \A i \in 1..n : Len(caps[tree[i].ref]) \in Nat
  <2>1. n \in Nat /\ \A i \in 1..n : tree[i] \in CompositeNode
    OBVIOUS
  <2>2. \A i \in 1..n : tree[i].ref \in Children
    BY <2>1 DEF CompositeNode
  <2>3. \A i \in 1..n : caps[tree[i].ref] \in Seq(Capabilities)
    BY <2>2
  <2> QED BY <2>1, <2>3
<1>2. \A a \in Nat, i \in 1..n : Turn(a, i) \in Nat
  BY <1>1
<1>3. NumberOfOffers(tree, caps) = g[n]
  BY DEF NumberOfOffers
<1> HIDE DEF n
<1>4. turn \in Turns(n, Nat) /\ \A a \in Nat, i \in 1..n : turn[<<a, i>>] = Turn(a, i)
  BY <1>2 DEF Turns
<1> HIDE DEF turn, Turn
<1>5. PICK f : LoopRuns(f, n, Nat, 0, turn)
  BY <1>1, <1>4, LoopExists
<1>6. \A i \in 1..n : f[i] = Turn(f[i - 1], i)
  <2> SUFFICES ASSUME NEW i \in 1..n PROVE f[i] = Turn(f[i - 1], i)
    OBVIOUS
  <2>1. f[i - 1] \in Nat
    BY <1>1, <1>5 DEF LoopRuns
  <2> QED BY <1>4, <1>5, <2>1 DEF LoopRuns
<1>7. Loops(f)
  BY <1>1, <1>5, <1>6 DEF LoopRuns
<1>8. Loops(g)
  BY <1>7
<1> HIDE DEF g
<1>9. \A i \in 0..n : g[i] = IF i = 0 THEN 0 ELSE Turn(g[i - 1], i)
  BY <1>8, Zenon
<1>10. g = [i \in 0..n |-> g[i]]
  BY <1>8, Zenon
<1> DEFINE S == {i \in 0..n : g[i] \in Nat}
<1>11. 0 \in S
  BY <1>1, <1>9
<1>12. ASSUME NEW i \in 0..(n - 1), i \in S PROVE i + 1 \in S
  <2>1. i + 1 \in 1..n /\ g[i] \in Nat /\ (i + 1) - 1 = i /\ i + 1 # 0 /\ i + 1 \in 0..n
    BY <1>1, <1>12
  <2>2. g[i + 1] = Turn(g[i], i + 1)
    BY <1>9, <2>1
  <2> QED BY <1>2, <2>1, <2>2
<1>13. 0..n \subseteq S
  <2> HIDE DEF S
  <2> QED BY <1>1, <1>11, <1>12, SetInduction, Zenon
<1>14. g \in [0..n -> Nat]
  BY <1>10, <1>13
<1>15. ASSUME NEW i \in 1..n PROVE g[i] = g[i - 1] + Len(caps[tree[i].ref])
  <2>1. i \in 0..n /\ i # 0
    BY <1>1
  <2> QED BY <1>9, <2>1 DEF Turn
<1>16. g[0] = 0
  BY <1>1, <1>9
<1> QED BY <1>3, <1>14, <1>15, <1>16 DEF n

(* What is inherited once i children of the tree were looked at. *)
InheritedBy(x, tree, caps, i) ==
  /\ x \in Inheritance
  /\ \A k \in 1..i : Range(caps[tree[k].ref]) \subseteq Held(x)
  /\ \A c \in Held(x) :
       \E k \in 1..i : /\ c \in Range(caps[tree[k].ref]) /\ x.inherited[c] = tree[k].ref
                       /\ \A l \in 1..i : c \in Range(caps[tree[l].ref]) => l <= k

LEMMA ChildInherits ==
  ASSUME NEW tree \in Seq(CompositeNode), NEW caps \in [Children -> Seq(Capabilities)],
         NEW i \in 0..(Len(tree) - 1), NEW x, InheritedBy(x, tree, caps, i), NEW n \in Nat, Tally(x, n),
         NEW y, y = InheritAll(x, caps[tree[i + 1].ref], tree[i + 1].ref)
  PROVE  InheritedBy(y, tree, caps, i + 1) /\ Tally(y, n + Len(caps[tree[i + 1].ref]))
<1>1. PICK L \in Nat : L = Len(tree)
  OBVIOUS
<1>2. i \in Nat /\ i + 1 \in 1..L /\ tree[i + 1] \in CompositeNode
  BY <1>1
<1>3. PICK source \in Children : source = tree[i + 1].ref
  BY <1>2 DEF CompositeNode
<1>4. PICK offers \in Seq(Capabilities) : offers = caps[tree[i + 1].ref]
  BY <1>3
<1>5. x \in Inheritance
  BY DEF InheritedBy
<1>6. /\ y \in Inheritance /\ Tally(y, n + Len(offers)) /\ Held(y) = Held(x) \cup Range(offers)
      /\ \A c \in Held(y) : y.inherited[c] = IF c \in Range(offers) THEN source ELSE x.inherited[c]
  <2>1. y = InheritAll(x, offers, source)
    BY <1>3, <1>4
  <2> QED BY <1>5, <2>1, InheritAllHolds
<1>7. ASSUME NEW k \in 1..(i + 1) PROVE Range(caps[tree[k].ref]) \subseteq Held(y)
  <2>1. CASE k = i + 1
    BY <1>4, <1>6, <2>1
  <2>2. CASE k # i + 1
    <3>1. k \in 1..i
      BY <1>2, <2>2
    <3>2. Range(caps[tree[k].ref]) \subseteq Held(x)
      BY <3>1 DEF InheritedBy
    <3> QED BY <1>6, <3>2
  <2> QED BY <2>1, <2>2
<1>8. ASSUME NEW c \in Held(y)
      PROVE  \E k \in 1..(i + 1) :
               /\ c \in Range(caps[tree[k].ref]) /\ y.inherited[c] = tree[k].ref
               /\ \A l \in 1..(i + 1) : c \in Range(caps[tree[l].ref]) => l <= k
  <2>1. CASE c \in Range(offers)
    <3>1. y.inherited[c] = tree[i + 1].ref /\ c \in Range(caps[tree[i + 1].ref])
      BY <1>3, <1>4, <1>6, <2>1
    <3>2. i + 1 \in 1..(i + 1) /\ \A l \in 1..(i + 1) : l <= i + 1
      BY <1>2
    <3> QED BY <3>1, <3>2
  <2>2. CASE c \notin Range(offers)
    <3>1. c \in Held(x) /\ y.inherited[c] = x.inherited[c]
      BY <1>6, <2>2
    <3>2. PICK k \in 1..i : /\ c \in Range(caps[tree[k].ref]) /\ x.inherited[c] = tree[k].ref
                            /\ \A l \in 1..i : c \in Range(caps[tree[l].ref]) => l <= k
      BY <3>1 DEF InheritedBy
    <3>3. ASSUME NEW l \in 1..(i + 1), c \in Range(caps[tree[l].ref]) PROVE l <= k
      <4>1. l # i + 1
        BY <1>4, <2>2, <3>3
      <4>2. l \in 1..i
        BY <1>2, <4>1
      <4> QED BY <3>2, <3>3, <4>2
    <3>4. k \in 1..(i + 1)
      BY <1>2
    <3> QED BY <3>1, <3>2, <3>3, <3>4
  <2> QED BY <2>1, <2>2
<1> QED BY <1>4, <1>6, <1>7, <1>8 DEF InheritedBy

LEMMA InheritedHolds ==
  ASSUME NEW tree \in Seq(CompositeNode), NEW caps \in [Children -> Seq(Capabilities)],
         NEW x, x = Inherited(tree, caps)
  PROVE  InheritedBy(x, tree, caps, Len(tree)) /\ Tally(x, NumberOfOffers(tree, caps))
<1> DEFINE n == Len(tree)
           T == {z \in Inheritance : \E k \in Nat : Tally(z, k)}
           Turn(z, i) == InheritAll(z, caps[tree[i].ref], tree[i].ref)
           turn == [p \in T \X (1..n) |-> Turn(p[1], p[2])]
           Loops(f) == f = [i \in 0..n |-> IF i = 0 THEN NothingInherited ELSE Turn(f[i - 1], i)]
           g == CHOOSE f : Loops(f)
<1>1. n \in Nat /\ \A i \in 1..n : tree[i].ref \in Children /\ caps[tree[i].ref] \in Seq(Capabilities)
  <2>1. n \in Nat /\ \A i \in 1..n : tree[i] \in CompositeNode
    OBVIOUS
  <2>2. \A i \in 1..n : tree[i].ref \in Children
    BY <2>1 DEF CompositeNode
  <2> QED BY <2>1, <2>2
<1>2. NothingInherited \in Inheritance /\ Held(NothingInherited) = {} /\ Tally(NothingInherited, 0)
  <2>1. [c \in {} |-> ""] \in [{} -> Children]
    OBVIOUS
  <2>2. [c \in {} |-> ""] \in UNION {[D -> Children] : D \in SUBSET Capabilities}
    BY <2>1
  <2>3. NothingInherited \in Inheritance /\ Held(NothingInherited) = {} /\ NothingInherited.conflicts = <<>>
    <3>1. PICK e : e = [c \in {} |-> ""]
      OBVIOUS
    <3>2. e \in UNION {[D -> Children] : D \in SUBSET Capabilities} /\ DOMAIN e = {}
      BY <2>2, <3>1
    <3>3. <<>> \in Seq(Capabilities \X Children \X Children)
      OBVIOUS
    <3>4. NothingInherited = [inherited |-> e, conflicts |-> <<>>]
      BY <3>1 DEF NothingInherited
    <3> QED BY <3>2, <3>3, <3>4 DEF Inheritance, Held
  <2> QED BY <2>3, FS_EmptySet DEF Tally
<1>3. \A z \in T, i \in 1..n : Turn(z, i) \in T
  <2> SUFFICES ASSUME NEW z \in T, NEW i \in 1..n PROVE Turn(z, i) \in T
    OBVIOUS
  <2>1. PICK k \in Nat : Tally(z, k)
    OBVIOUS
  <2>2. PICK offers \in Seq(Capabilities) : offers = caps[tree[i].ref]
    BY <1>1
  <2>5. PICK y : y = InheritAll(z, offers, tree[i].ref)
    OBVIOUS
  <2>3. y \in Inheritance /\ Tally(y, k + Len(offers)) /\ k + Len(offers) \in Nat
    BY <1>1, <2>1, <2>5, InheritAllHolds
  <2>4. Turn(z, i) = y
    BY <2>2, <2>5
  <2> QED BY <2>3, <2>4
<1>4. x = g[n]
  BY DEF Inherited
<1>5. NothingInherited \in T
  BY <1>2
<1> HIDE DEF T, Turn
<1>6. turn \in Turns(n, T) /\ \A z \in T, i \in 1..n : turn[<<z, i>>] = Turn(z, i)
  BY <1>3 DEF Turns
<1> HIDE DEF turn
<1>7. PICK f : LoopRuns(f, n, T, NothingInherited, turn)
  BY <1>1, <1>5, <1>6, LoopExists
<1>8. \A i \in 1..n : f[i] = Turn(f[i - 1], i)
  <2> SUFFICES ASSUME NEW i \in 1..n PROVE f[i] = Turn(f[i - 1], i)
    OBVIOUS
  <2>1. f[i - 1] \in T
    BY <1>1, <1>7 DEF LoopRuns
  <2> QED BY <1>6, <1>7, <2>1 DEF LoopRuns
<1>9. Loops(f)
  BY <1>1, <1>7, <1>8 DEF LoopRuns
<1>10. Loops(g)
  BY <1>9
<1> HIDE DEF g
<1>11. \A i \in 0..n : g[i] = IF i = 0 THEN NothingInherited ELSE Turn(g[i - 1], i)
  BY <1>10, Zenon
<1>12. PICK upto \in [0..n -> Nat] :
         /\ upto[0] = 0 /\ NumberOfOffers(tree, caps) = upto[n]
         /\ \A i \in 1..n : upto[i] = upto[i - 1] + Len(caps[tree[i].ref])
  BY OffersCounted
<1> HIDE DEF n
<1> DEFINE S == {i \in 0..n : InheritedBy(g[i], tree, caps, i) /\ Tally(g[i], upto[i])}
<1>13. 0 \in S
  <2>1. g[0] = NothingInherited /\ 0 \in 0..n
    BY <1>1, <1>11
  <2>2. InheritedBy(NothingInherited, tree, caps, 0)
    BY <1>2 DEF InheritedBy
  <2> QED BY <1>2, <1>12, <2>1, <2>2
<1>14. ASSUME NEW i \in 0..(n - 1), i \in S PROVE i + 1 \in S
  <2>1. i + 1 \in 1..n /\ (i + 1) - 1 = i /\ i + 1 # 0 /\ i + 1 \in 0..n /\ i \in 0..n
    BY <1>1, <1>14
  <2>2. g[i + 1] = InheritAll(g[i], caps[tree[i + 1].ref], tree[i + 1].ref)
    BY <1>11, <2>1 DEF Turn
  <2>3. upto[i] \in Nat /\ upto[i + 1] = upto[i] + Len(caps[tree[i + 1].ref])
    BY <1>12, <2>1
  <2>4. InheritedBy(g[i], tree, caps, i) /\ Tally(g[i], upto[i])
    BY <1>14
  <2>5. InheritedBy(g[i + 1], tree, caps, i + 1) /\ Tally(g[i + 1], upto[i] + Len(caps[tree[i + 1].ref]))
    BY <2>2, <2>3, <2>4, ChildInherits DEF n
  <2>6. Tally(g[i + 1], upto[i + 1])
    BY <2>3, <2>5
  <2> QED BY <2>1, <2>5, <2>6
<1> HIDE DEF S
<1>15. n \in S
  <2>1. 0..n \subseteq S
    BY <1>1, <1>13, <1>14, SetInduction, Zenon
  <2> QED BY <1>1, <2>1
<1> QED BY <1>4, <1>12, <1>15 DEF S, n

-----------------------------------------------------------------------------
(* The composite asset engine as a whole. *)

CheckHolds ==
  /\ acyclic = [absent |-> FALSE, below |-> acyclic.below, search |-> acyclic.search]
  /\ acyclic.below \in [Children -> SUBSET Children]
  /\ SearchHolds(acyclic.search, Children, acyclic.below)
  /\ Within(acyclic.search, Refs(composite.tree), acyclic.below)

CompositeInv ==
  /\ CompositeTypeOK /\ AveragesLieBetween /\ LastChildWins
  /\ composite # NoAnswerYet => ~composite.absent
  /\ ~inheritance.absent => ~composite.absent
  /\ ~acyclic.absent => ~composite.absent /\ CheckHolds

LEMMA CompositeStart == CompositeInit => CompositeInv
<1> SUFFICES ASSUME CompositeInit PROVE CompositeInv
  OBVIOUS
<1>1. composite.absent /\ aggregate.absent /\ inheritance.absent /\ acyclic.absent /\ composite = NoAnswerYet
  BY DEF CompositeInit, NoAnswerYet
<1> QED BY <1>1 DEF CompositeInv, CompositeTypeOK, AveragesLieBetween, LastChildWins

LEMMA InheritanceHolds ==
  ASSUME ~composite.absent, composite.tree \in Seq(CompositeNode),
         NEW caps \in [Children -> CapabilityLists], ComputeInheritance(caps)
  PROVE  LastChildWins'
<1>1. caps \in [Children -> Seq(Capabilities)]
  BY CompositeConstants
<1>2. PICK tree \in Seq(CompositeNode) : tree = composite.tree
  OBVIOUS
<1>3. PICK x : x = Inherited(tree, caps)
  OBVIOUS
<1>4. InheritedBy(x, tree, caps, Len(tree)) /\ Tally(x, NumberOfOffers(tree, caps))
  BY <1>1, <1>3, InheritedHolds
<1>5. composite' = composite /\ inheritance' = [absent |-> FALSE, caps |-> caps, answer |-> x]
  BY <1>2, <1>3 DEF ComputeInheritance
<1>6. composite.tree' = tree /\ inheritance.caps' = caps /\ inheritance.answer' = x
  BY <1>2, <1>5
<1>7. DOMAIN tree = 1..Len(tree)
  OBVIOUS
<1>8. \A i \in DOMAIN tree : Range(caps[tree[i].ref]) \subseteq DOMAIN x.inherited
  BY <1>4, <1>7 DEF InheritedBy, Held
<1>9. \A c \in DOMAIN x.inherited :
        \E i \in DOMAIN tree :
           /\ Offers(tree, caps, i, c) /\ x.inherited[c] = tree[i].ref
           /\ \A k \in DOMAIN tree : Offers(tree, caps, k, c) => k <= i
  <2> SUFFICES ASSUME NEW c \in DOMAIN x.inherited
               PROVE  \E i \in DOMAIN tree :
                         /\ Offers(tree, caps, i, c) /\ x.inherited[c] = tree[i].ref
                         /\ \A k \in DOMAIN tree : Offers(tree, caps, k, c) => k <= i
    OBVIOUS
  <2>1. PICK i \in 1..Len(tree) : /\ c \in Range(caps[tree[i].ref]) /\ x.inherited[c] = tree[i].ref
                                  /\ \A l \in 1..Len(tree) : c \in Range(caps[tree[l].ref]) => l <= i
    BY <1>4 DEF InheritedBy, Held
  <2> QED BY <1>7, <2>1 DEF Offers
<1>10. Len(x.conflicts) + Cardinality(DOMAIN x.inherited) = NumberOfOffers(tree, caps)
  BY <1>4 DEF Tally, Held
<1> QED BY <1>6, <1>8, <1>9, <1>10 DEF LastChildWins, Offers, NumberOfOffers

LEMMA RefsAre ==
  ASSUME NEW tree \in Seq(CompositeNode)
  PROVE  Refs(tree) \in SUBSET Children
<1>1. DOMAIN tree = 1..Len(tree) /\ \A i \in 1..Len(tree) : tree[i] \in CompositeNode
  OBVIOUS
<1>2. \A i \in 1..Len(tree) : tree[i].ref \in Children
  BY <1>1 DEF CompositeNode
<1> QED BY <1>1, <1>2 DEF Refs

LEMMA CompositeKeeps ==
  ASSUME CompositeInv, CompositeNext \/ UNCHANGED compositeVars
  PROVE  CompositeInv'
<1>1. ~composite.absent => composite.tree \in Seq(CompositeNode)
  BY DEF CompositeInv, CompositeTypeOK, CompositeNode
<1>2. ASSUME composite' = composite PROVE CompositeTypeOK'
  BY <1>2 DEF CompositeInv, CompositeTypeOK
<1>3. ASSUME aggregate' = aggregate PROVE AveragesLieBetween'
  BY <1>3 DEF CompositeInv, AveragesLieBetween
<1>4. ASSUME composite' = composite, inheritance' = inheritance PROVE LastChildWins'
  BY <1>4 DEF CompositeInv, LastChildWins, Offers, NumberOfOffers
<1>5. ASSUME composite' = composite, acyclic' = acyclic, CheckHolds PROVE CheckHolds'
  <2>1. Refs(composite.tree)' = Refs(composite.tree)
    BY <1>5 DEF Refs
  <2> QED BY <1>5, <2>1 DEF CheckHolds
<1>6. CASE UNCHANGED compositeVars
  BY <1>2, <1>3, <1>4, <1>5, <1>6 DEF compositeVars, CompositeInv
<1>7. ASSUME NEW tree \in Trees, CreateComposite(tree) PROVE CompositeInv'
  <2>1. composite = NoAnswerYet /\ composite.absent
    BY <1>7 DEF CreateComposite, NoAnswerYet
  <2>2. /\ composite' = [absent |-> FALSE, tree |-> tree]
        /\ aggregate' = aggregate /\ inheritance' = inheritance /\ acyclic' = acyclic
    BY <1>7 DEF CreateComposite
  <2>3. inheritance'.absent /\ acyclic'.absent
    BY <2>1, <2>2 DEF CompositeInv
  <2>4. composite'.tree \in Seq(CompositeNode) /\ ~composite'.absent
    BY <2>2, CompositeConstants DEF CompositeNode
  <2> QED BY <1>3, <2>2, <2>3, <2>4 DEF CompositeInv, CompositeTypeOK, LastChildWins, CompositeNode
<1>8. ASSUME NEW value \in [Children -> Values \cup {NoValue}], ComputeAggregation(value) PROVE CompositeInv'
  <2>1. ~composite.absent /\ composite' = composite /\ inheritance' = inheritance /\ acyclic' = acyclic
    BY <1>8 DEF ComputeAggregation
  <2>2. AveragesLieBetween'
    BY <1>1, <1>8, <2>1, AggregationHolds
  <2> QED BY <1>2, <1>4, <1>5, <2>1, <2>2 DEF CompositeInv
<1>9. ASSUME NEW caps \in [Children -> CapabilityLists], ComputeInheritance(caps) PROVE CompositeInv'
  <2>1. ~composite.absent /\ composite' = composite /\ aggregate' = aggregate /\ acyclic' = acyclic
    BY <1>9 DEF ComputeInheritance
  <2>2. LastChildWins'
    BY <1>1, <1>9, <2>1, InheritanceHolds
  <2> QED BY <1>2, <1>3, <1>5, <2>1, <2>2 DEF CompositeInv
<1>10. ASSUME NEW below \in Below, ValidateTreeAcyclic(below) PROVE CompositeInv'
  <2>1. /\ ~composite.absent /\ composite' = composite /\ aggregate' = aggregate /\ inheritance' = inheritance
        /\ acyclic' = [absent |-> FALSE, below |-> below, search |-> NewSearch(Children)]
    BY <1>10 DEF ValidateTreeAcyclic
  <2>2. below \in [Children -> SUBSET Children]
    BY CompositeConstants
  <2>3. /\ SearchHolds(NewSearch(Children), Children, below)
        /\ Within(NewSearch(Children), Refs(composite.tree)', below)
    BY NewSearchHolds
  <2>4. CheckHolds'
    BY <2>1, <2>2, <2>3 DEF CheckHolds
  <2> QED BY <1>2, <1>3, <1>4, <2>1, <2>4 DEF CompositeInv
<1>11. CASE HasCycle
  <2>1. ~acyclic.absent /\ composite' = composite /\ aggregate' = aggregate /\ inheritance' = inheritance
    BY <1>11 DEF HasCycle
  <2>2. ~composite.absent /\ CheckHolds
    BY <2>1 DEF CompositeInv
  <2>3. PICK below \in [Children -> SUBSET Children] : below = acyclic.below
    BY <2>2 DEF CheckHolds
  <2>4. PICK now : now = acyclic.search
    OBVIOUS
  <2>5. acyclic = [absent |-> FALSE, below |-> below, search |-> now]
    BY <2>2, <2>3, <2>4 DEF CheckHolds
  <2>6. PICK starts \in SUBSET Children : starts = Refs(composite.tree)
    BY <1>1, <2>2, RefsAre
  <2>7. PICK next \in SearchSteps(now, starts, below) : acyclic' = [acyclic EXCEPT !.search = next]
    BY <1>11, <2>3, <2>4, <2>6 DEF HasCycle
  <2>8. acyclic' = [absent |-> FALSE, below |-> below, search |-> next]
    BY <2>5, <2>7
  <2>9. SearchHolds(now, Children, below) /\ Within(now, starts, below)
    BY <2>2, <2>3, <2>4, <2>6 DEF CheckHolds
  <2>10. SearchHolds(next, Children, below) /\ Within(next, starts, below)
    BY <2>9, SearchStepHolds
  <2>11. Refs(composite.tree)' = starts
    BY <2>1, <2>6 DEF Refs
  <2>12. acyclic'.below = below /\ acyclic'.search = next
    BY <2>8
  <2>13. CheckHolds'
    BY <2>8, <2>10, <2>11, <2>12 DEF CheckHolds
  <2> QED BY <1>2, <1>3, <1>4, <2>1, <2>2, <2>13 DEF CompositeInv
<1> QED BY <1>6, <1>7, <1>8, <1>9, <1>10, <1>11 DEF CompositeNext

LEMMA AcyclicCheckIsExact == CompositeInv => AcyclicCheckExact
<1> SUFFICES ASSUME CompositeInv, ~acyclic.absent, SearchOver(acyclic.search, Refs(composite.tree))
             PROVE  acyclic.search.cycle =
                      \E S \in (SUBSET ReachableBelow(acyclic.below, composite.tree)) \ {{}} :
                         \A a \in S : acyclic.below[a] \cap S # {}
  BY DEF AcyclicCheckExact
<1>1. ~composite.absent /\ CheckHolds /\ composite.tree \in Seq(CompositeNode)
  BY DEF CompositeInv, CompositeTypeOK, CompositeNode
<1>2. PICK g \in [Children -> SUBSET Children] : g = acyclic.below
  BY <1>1 DEF CheckHolds
<1>3. PICK s : s = acyclic.search
  OBVIOUS
<1>4. PICK starts \in SUBSET Children : starts = Refs(composite.tree)
  BY <1>1, RefsAre
<1>5. SearchHolds(s, Children, g) /\ Within(s, starts, g) /\ SearchOver(s, starts)
  BY <1>1, <1>2, <1>3, <1>4 DEF CheckHolds
<1> DEFINE R == ReachableBelow(acyclic.below, composite.tree)
           Contained == \E S \in (SUBSET R) \ {{}} : \A a \in S : g[a] \cap S # {}
<1>6. R = {a \in Children : \A T \in SUBSET Children : ClosedUnder(T, starts, g) => a \in T}
  BY <1>2, <1>4 DEF ReachableBelow, ClosedUnder
<1> HIDE DEF R
<1>7. ASSUME s.cycle PROVE Contained
  <2>1. PICK S \in SUBSET Children : FeedsItself(S, g) /\ \A T : ClosedUnder(T, starts, g) => S \subseteq T
    BY <1>5, <1>7, SearchAnswers
  <2>2. S \in (SUBSET R) \ {{}}
    BY <1>6, <2>1 DEF FeedsItself
  <2> QED BY <2>1, <2>2 DEF FeedsItself
<1>8. ASSUME ~s.cycle, Contained PROVE FALSE
  <2>1. /\ ClosedUnder(s.visited, starts, g) /\ s.visited \in SUBSET Children
        /\ \A S \in SUBSET s.visited : ~FeedsItself(S, g)
    BY <1>5, <1>8, SearchAnswers DEF SearchHolds, SearchRecord
  <2>2. R \subseteq s.visited
    BY <1>6, <2>1
  <2>3. PICK S \in (SUBSET R) \ {{}} : \A a \in S : g[a] \cap S # {}
    BY <1>8
  <2>4. FeedsItself(S, g) /\ S \in SUBSET s.visited
    BY <2>2, <2>3 DEF FeedsItself
  <2> QED BY <2>1, <2>4
<1>9. s.cycle \in BOOLEAN
  BY <1>5 DEF SearchHolds, SearchRecord
<1>10. s.cycle = Contained
  <2> HIDE DEF Contained
  <2>1. s.cycle <=> Contained
    BY <1>7, <1>8
  <2>2. Contained \in BOOLEAN
    BY DEF Contained
  <2> QED BY <1>9, <2>1, <2>2
<1> QED BY <1>2, <1>3, <1>10 DEF R

-----------------------------------------------------------------------------
(* The model bindings.  A stored binding's id is in the list of exactly    *)
(* one asset, its own unless it was nullified; an id that was deleted is   *)
(* never issued again, so what a list still holds of it does no harm.      *)

ListedOnce(b) ==
  \E a \in BoundAssets : /\ b \in by_asset[a] /\ bindings[b] \in {a, Nullified}
                         /\ \A o \in BoundAssets : b \in by_asset[o] => o = a

BindingInv ==
  /\ bindings \in [Bindings -> BoundAssets \cup {Absent, Nullified}]
  /\ by_asset \in [BoundAssets -> SUBSET issued] /\ issued \subseteq Bindings
  /\ \A b \in Bindings : bindings[b] # Absent => b \in issued /\ ListedOnce(b)

LEMMA BindingStart == BindingInit => BindingInv
BY DEF BindingInit, BindingInv

LEMMA BindingKeeps == BindingInv /\ (BindingNext \/ UNCHANGED bindingVars) => BindingInv'
<1> SUFFICES ASSUME BindingInv, BindingNext \/ UNCHANGED bindingVars PROVE BindingInv'
  OBVIOUS
<1>1. CASE UNCHANGED bindingVars
  BY <1>1 DEF bindingVars, BindingInv, ListedOnce
<1>2. ASSUME NEW a \in BoundAssets, DeleteByAsset(a) PROVE BindingInv'
  <2>1. /\ bindings' = [b \in Bindings |-> IF b \in by_asset[a] THEN Absent ELSE bindings[b]]
        /\ by_asset' = [by_asset EXCEPT ![a] = {}] /\ issued' = issued
    BY <1>2 DEF DeleteByAsset
  <2>2. /\ bindings' \in [Bindings -> BoundAssets \cup {Absent, Nullified}]
        /\ by_asset' \in [BoundAssets -> SUBSET issued'] /\ issued' \subseteq Bindings
        /\ \A o \in BoundAssets : by_asset'[o] = IF o = a THEN {} ELSE by_asset[o]
    BY <2>1 DEF BindingInv
  <2>3. ASSUME NEW b \in Bindings, bindings'[b] # Absent PROVE b \in issued' /\ ListedOnce(b)'
    <3>1. b \notin by_asset[a] /\ bindings'[b] = bindings[b] /\ bindings[b] # Absent
      BY <2>1, <2>3
    <3>2. b \in issued /\ ListedOnce(b)
      BY <3>1 DEF BindingInv
    <3>3. PICK h \in BoundAssets : /\ b \in by_asset[h] /\ bindings[b] \in {h, Nullified}
                                   /\ \A o \in BoundAssets : b \in by_asset[o] => o = h
      BY <3>2 DEF ListedOnce
    <3>4. b \in by_asset'[h] /\ \A o \in BoundAssets : b \in by_asset'[o] => o = h
      BY <2>2, <3>1, <3>3
    <3> QED BY <2>1, <3>1, <3>2, <3>3, <3>4 DEF ListedOnce
  <2> QED BY <2>2, <2>3 DEF BindingInv
<1>3. ASSUME NEW a \in BoundAssets, NEW b \in Bindings, CreateBinding(a, b) PROVE BindingInv'
  <2>1. /\ b \notin issued /\ issued' = issued \cup {b} /\ bindings' = [bindings EXCEPT ![b] = a]
        /\ by_asset' = [by_asset EXCEPT ![a] = @ \cup {b}]
    BY <1>3 DEF CreateBinding, Listed
  <2>2. /\ bindings' \in [Bindings -> BoundAssets \cup {Absent, Nullified}]
        /\ issued' \subseteq Bindings
        /\ \A o \in BoundAssets : by_asset[o] \subseteq issued
        /\ \A c \in Bindings : bindings'[c] = IF c = b THEN a ELSE bindings[c]
    BY <2>1 DEF BindingInv
  <2>3. \A o \in BoundAssets : by_asset'[o] = IF o = a THEN by_asset[o] \cup {b} ELSE by_asset[o]
    BY <2>1 DEF BindingInv
  <2>4. by_asset' \in [BoundAssets -> SUBSET issued']
    BY <2>1, <2>2 DEF BindingInv
  <2>5. ASSUME NEW c \in Bindings, bindings'[c] # Absent PROVE c \in issued' /\ ListedOnce(c)'
    <3>1. CASE c = b
      <4>1. b \in by_asset'[a] /\ bindings'[b] = a /\ \A o \in BoundAssets : b \in by_asset'[o] => o = a
        BY <2>1, <2>2, <2>3
      <4> QED BY <2>1, <3>1, <4>1 DEF ListedOnce
    <3>2. CASE c # b
      <4>1. bindings'[c] = bindings[c] /\ \A o \in BoundAssets : c \in by_asset'[o] <=> c \in by_asset[o]
        BY <2>2, <2>3, <3>2
      <4>2. c \in issued /\ ListedOnce(c)
        BY <2>5, <4>1 DEF BindingInv
      <4> QED BY <2>1, <4>1, <4>2 DEF ListedOnce
    <3> QED BY <3>1, <3>2
  <2> QED BY <2>2, <2>4, <2>5 DEF BindingInv
<1>4. ASSUME NEW b \in Bindings, Nullify(b) PROVE BindingInv'
  <2>1. /\ bindings[b] # Absent /\ bindings' = [bindings EXCEPT ![b] = Nullified]
        /\ by_asset' = by_asset /\ issued' = issued
    BY <1>4 DEF Nullify
  <2>2. /\ bindings' \in [Bindings -> BoundAssets \cup {Absent, Nullified}]
        /\ \A c \in Bindings : bindings'[c] = IF c = b THEN Nullified ELSE bindings[c]
    BY <2>1 DEF BindingInv
  <2>3. ASSUME NEW c \in Bindings, bindings'[c] # Absent PROVE c \in issued' /\ ListedOnce(c)'
    <3>1. bindings[c] # Absent /\ bindings'[c] \in {bindings[c], Nullified}
      BY <2>1, <2>2, <2>3
    <3>2. c \in issued /\ ListedOnce(c)
      BY <3>1 DEF BindingInv
    <3> QED BY <2>1, <3>1, <3>2 DEF ListedOnce
  <2> QED BY <2>1, <2>2, <2>3 DEF BindingInv
<1>5. ASSUME NEW b \in Bindings, DeleteBinding(b) PROVE BindingInv'
  <2>1. /\ bindings[b] # Absent /\ bindings' = [bindings EXCEPT ![b] = Absent] /\ issued' = issued
        /\ by_asset' = IF bindings[b] = Nullified THEN by_asset
                       ELSE [by_asset EXCEPT ![bindings[b]] = @ \ {b}]
    BY <1>5 DEF DeleteBinding
  <2>2. /\ bindings' \in [Bindings -> BoundAssets \cup {Absent, Nullified}]
        /\ by_asset' \in [BoundAssets -> SUBSET issued']
        /\ \A c \in Bindings : bindings'[c] = IF c = b THEN Absent ELSE bindings[c]
        /\ \A o \in BoundAssets, c \in Bindings : c # b => (c \in by_asset'[o] <=> c \in by_asset[o])
    BY <2>1 DEF BindingInv
  <2>3. ASSUME NEW c \in Bindings, bindings'[c] # Absent PROVE c \in issued' /\ ListedOnce(c)'
    <3>1. c # b /\ bindings'[c] = bindings[c]
      BY <2>2, <2>3
    <3>2. c \in issued /\ ListedOnce(c)
      BY <2>3, <3>1 DEF BindingInv
    <3> QED BY <2>1, <2>2, <3>1, <3>2 DEF ListedOnce
  <2>4. issued' \subseteq Bindings
    BY <2>1 DEF BindingInv
  <2> QED BY <2>2, <2>3, <2>4 DEF BindingInv
<1> QED BY <1>1, <1>2, <1>3, <1>4, <1>5 DEF BindingNext

LEMMA BindingHolds == BindingInv => BindingTypeOK /\ BindingsAreListedOnce
<1> SUFFICES ASSUME BindingInv PROVE BindingTypeOK /\ BindingsAreListedOnce
  OBVIOUS
<1>1. BindingTypeOK
  BY DEF BindingInv, BindingTypeOK
<1>2. ASSUME NEW b \in Bindings, bindings[b] # Absent
      PROVE  /\ Cardinality({a \in BoundAssets : b \in ListByAsset(a)}) = 1
             /\ bindings[b] # Nullified => b \in ListByAsset(bindings[b])
  <2>1. PICK a \in BoundAssets : /\ b \in by_asset[a] /\ bindings[b] \in {a, Nullified}
                                 /\ \A o \in BoundAssets : b \in by_asset[o] => o = a
    BY <1>2 DEF BindingInv, ListedOnce
  <2>2. \A o \in BoundAssets : b \in ListByAsset(o) <=> b \in by_asset[o]
    BY <1>2 DEF ListByAsset
  <2>3. {o \in BoundAssets : b \in ListByAsset(o)} = {a}
    BY <2>1, <2>2
  <2> QED BY <2>1, <2>2, <2>3, FS_Singleton
<1> QED BY <1>1, <1>2 DEF BindingsAreListedOnce

-----------------------------------------------------------------------------
(* Assembly plans, composite assets and model bindings are what their      *)
(* checks say: the cycle checks of both engines are exact for every graph, *)
(* whatever order their searches take, the groups respect dependencies, a  *)
(* step runs once and only as planned, averages lie between what children  *)
(* report, the last child's capability wins, a binding is listed once.     *)
THEOREM StructuresSound == Spec => []StructuresAreSound
<1> DEFINE Inv == AssemblyInv /\ CompositeInv /\ BindingInv /\ PermissionTypeOK
<1>1. Init => Inv
  BY AssemblyStart, CompositeStart, BindingStart, PermissionStart DEF Init
<1>2. Inv /\ [Next]_vars => Inv'
  BY PartSteps, AssemblyKeeps, CompositeKeeps, BindingKeeps, PermissionKeeps
<1>3. Inv => StructuresAreSound
  <2> SUFFICES ASSUME Inv PROVE StructuresAreSound
    OBVIOUS
  <2>1. AssemblyTypeOK /\ CycleCheckExact /\ GroupsRespectDependencies /\ StepsRunOnce /\ ExecutionIsPlanned
    BY AssemblyTyped, CycleCheckIsExact, GroupsAreRespected, StepsAreRunOnce, ExecutionsArePlanned DEF AssemblyInv
  <2>2. CompositeTypeOK /\ AveragesLieBetween /\ LastChildWins /\ AcyclicCheckExact
    BY AcyclicCheckIsExact DEF CompositeInv
  <2> QED BY <2>1, <2>2, BindingHolds DEF StructuresAreSound
<1> QED BY <1>1, <1>2, <1>3, PTL DEF Spec
=============================================================================
