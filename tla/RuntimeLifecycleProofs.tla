------------------------ MODULE RuntimeLifecycleProofs ------------------------
(***************************************************************************)
(* For any number of requests, of overlapping calls of Shutdown and any    *)
(* admission limit: the safety properties of RuntimeLifecycle, and that it *)
(* implements GracefulService.                                             *)
(***************************************************************************)
EXTENDS RuntimeLifecycle, FiniteSetTheorems, TLAPS

-----------------------------------------------------------------------------
(* The inductive invariant.  The properties alone are not inductive: that  *)
(* no dependency is closed under a request rests on where each call of     *)
(* Shutdown is, and on the counter it drains on being exact.               *)

\* The steps of a Shutdown that has seen the runtime drained.
PastDrain == {"transport", "audit", "storage", "mark closed"}

Quiet == shuttingDown /\ Handling = {}

\* What a call of Shutdown knows at each of its steps.
CallerInv(c) ==
  /\ caller[c] # "idle" => shuttingDown
  /\ caller[c] \in PastDrain => Handling = {}
  /\ caller[c] \in {"shutdowners", "draining", "polling"} /\ ~graceful
       => "transport" \notin open
  /\ caller[c] = "audit" => "transport" \notin open
  /\ caller[c] = "storage" => {"transport", "audit"} \intersect open = {}
  /\ caller[c] = "mark closed" => open = {}
  /\ caller[c] = "returned" /\ c \notin failed => closed

ClosedInv == closed => Quiet /\ open = {}

\* A dependency that requests need is only ever closed once they are gone.
OpenInv ==
  /\ ~({"audit", "storage"} \subseteq open) => Quiet
  /\ graceful /\ "transport" \notin open => Quiet

IInv ==
  /\ TypeOK
  /\ InFlightExact
  /\ CloseOrder
  /\ OpenInv
  /\ ClosedInv
  /\ \A c \in Caller : CallerInv(c)

-----------------------------------------------------------------------------
\* The requests in flight are finitely many.
LEMMA HandlingFinite ==
  TypeOK => IsFiniteSet(Handling) /\ Cardinality(Handling) \in Nat
BY LifecycleAssumption, FS_Subset, FS_CardinalityType DEF Handling

\* The initial states satisfy the inductive invariant.
LEMMA InitInv == Init => IInv
<1> SUFFICES ASSUME Init PROVE IInv
  OBVIOUS
<1>1. TypeOK
  BY DEF Init, TypeOK, RequestState, CallerState
<1>2. Handling = {}
  BY DEF Init, Handling
<1>3. InFlightExact
  BY <1>2, FS_EmptySet, LifecycleAssumption DEF Init, InFlightExact
<1>4. QED
  BY <1>1, <1>2, <1>3 DEF Init, IInv, CloseOrder, OpenInv, ClosedInv, CallerInv,
     PastDrain, Dependency

-----------------------------------------------------------------------------
(* Requests.  None of these steps touches what Shutdown owns.              *)

\* A request that is refused leaves the set in flight as it was.
LEMMA RefuseInv ==
  ASSUME IInv, NEW r \in Request, RefuseStopping(r) \/ RefuseBusy(r)
  PROVE  IInv'
<1> USE DEF RefuseStopping, RefuseBusy, callerVars, IInv
<1>1. TypeOK'
  BY DEF TypeOK, RequestState
<1>2. Handling' = Handling
  BY DEF Handling, TypeOK
<1>3. InFlightExact'
  BY <1>2 DEF InFlightExact
<1>4. UNCHANGED <<graceful, shuttingDown, closed, caller, failed, open>>
  OBVIOUS
<1>5. ASSUME NEW c \in Caller PROVE CallerInv(c)'
  <2>1. CallerInv(c)
    OBVIOUS
  <2>2. QED
    BY <1>2, <1>4, <2>1 DEF CallerInv, PastDrain
<1>6. QED
  BY <1>1, <1>2, <1>3, <1>4, <1>5 DEF CloseOrder, OpenInv, ClosedInv, Quiet

\* A request is admitted only while no Shutdown has begun, so that no step of
\* Shutdown that relies on the drain has been reached.
LEMMA AdmitInv ==
  ASSUME IInv, NEW r \in Request, Admit(r)
  PROVE  IInv'
<1> USE DEF Admit, callerVars, IInv
<1>1. TypeOK'
  BY DEF TypeOK, RequestState
<1>2. Handling' = Handling \union {r} /\ r \notin Handling
  BY DEF Handling, TypeOK
<1>3. InFlightExact'
  <2>1. Cardinality(Handling \union {r}) = Cardinality(Handling) + 1
    BY <1>2, HandlingFinite, FS_AddElement
  <2>2. inFlight + 1 <= MaxConcurrent
    BY LifecycleAssumption DEF TypeOK
  <2>3. QED
    BY <1>2, <2>1, <2>2 DEF InFlightExact
<1>4. ~shuttingDown /\ ~closed
  BY DEF Stopping
<1>5. ASSUME NEW c \in Caller PROVE CallerInv(c)'
  <2>1. caller[c] = "idle"
    BY <1>4 DEF CallerInv
  <2>2. QED
    BY <2>1 DEF CallerInv, PastDrain
<1>6. QED
  BY <1>1, <1>3, <1>4, <1>5 DEF CloseOrder, OpenInv, ClosedInv, Quiet

\* A request that returns is counted out.
LEMMA ReleaseInv ==
  ASSUME IInv, NEW r \in Request, Release(r)
  PROVE  IInv'
<1> USE DEF Release, callerVars, IInv
<1>1. TypeOK'
  BY DEF TypeOK, RequestState
<1>2. Handling' = Handling \ {r} /\ r \in Handling
  BY DEF Handling, TypeOK
<1>3. InFlightExact'
  <2>1. Cardinality(Handling \ {r}) = Cardinality(Handling) - 1
    BY <1>2, HandlingFinite, FS_RemoveElement
  <2>2. Cardinality(Handling) # 0
    BY <1>2, HandlingFinite, FS_EmptySet
  <2>3. inFlight > 0 /\ inFlight' = inFlight - 1
    BY <2>2 DEF InFlightExact, TypeOK
  <2>4. QED
    BY <1>2, <2>1, <2>3, LifecycleAssumption DEF InFlightExact, TypeOK
<1>4. QED
  BY <1>1, <1>2, <1>3 DEF CloseOrder, OpenInv, ClosedInv, Quiet, CallerInv

-----------------------------------------------------------------------------
(* Shutdown.  A caller moves, and the others stay where they are.          *)

\* The steps that close nothing, do not mark the runtime, and do not return.
LEMMA MoveInv ==
  ASSUME IInv, NEW c \in Caller,
         RunShutdowners(c) \/ NotDrained(c) \/ Tick(c)
  PROVE  IInv'
<1> USE DEF RunShutdowners, NotDrained, Tick, MayFail, Goto, requestVars, IInv
<1>1. TypeOK'
  BY DEF TypeOK, CallerState
<1>2. Handling' = Handling
  BY DEF Handling
<1>3. ASSUME NEW d \in Caller PROVE CallerInv(d)'
  BY <1>2 DEF CallerInv, PastDrain, TypeOK
<1>4. QED
  BY <1>1, <1>2, <1>3 DEF InFlightExact, CloseOrder, OpenInv, ClosedInv, Quiet

\* Shutdown marks the runtime, or returns because it is closed.
LEMMA BeginInv ==
  ASSUME IInv, NEW c \in Caller, BeginShutdown(c)
  PROVE  IInv'
<1> USE DEF BeginShutdown, Goto, requestVars, IInv
<1>1. TypeOK'
  BY DEF TypeOK, CallerState
<1>2. Handling' = Handling
  BY DEF Handling
<1>3. shuttingDown'
  BY DEF ClosedInv, Quiet
<1>4. ASSUME NEW d \in Caller PROVE CallerInv(d)'
  BY <1>2, <1>3 DEF CallerInv, PastDrain, TypeOK
<1>5. QED
  BY <1>1, <1>2, <1>3, <1>4 DEF InFlightExact, CloseOrder, OpenInv, ClosedInv, Quiet

\* A transport that is not graceful is closed before the drain: the requests in
\* flight do not need it.
LEMMA StopTransportInv ==
  ASSUME IInv, NEW c \in Caller, StopTransport(c)
  PROVE  IInv'
<1> USE DEF StopTransport, MayFail, Goto, requestVars, IInv
<1>1. TypeOK'
  BY DEF TypeOK, CallerState
<1>2. Handling' = Handling
  BY DEF Handling
<1>3. ASSUME NEW d \in Caller PROVE CallerInv(d)'
  BY <1>2 DEF CallerInv, PastDrain, TypeOK
<1>4. QED
  BY <1>1, <1>2, <1>3 DEF InFlightExact, CloseOrder, OpenInv, ClosedInv, Quiet

\* The drain has seen the counter at zero, and so no request in flight.
LEMMA DrainedInv ==
  ASSUME IInv, NEW c \in Caller, Drained(c)
  PROVE  IInv'
<1> USE DEF Drained, Goto, requestVars, IInv
<1>1. TypeOK'
  BY DEF TypeOK, CallerState, Dependency
<1>2. Handling' = {} /\ Handling = {}
  BY HandlingFinite, FS_EmptySet DEF Handling, InFlightExact
<1>3. ASSUME NEW d \in Caller PROVE CallerInv(d)'
  BY <1>2 DEF CallerInv, PastDrain, TypeOK
<1>4. QED
  BY <1>1, <1>2, <1>3 DEF InFlightExact, CloseOrder, OpenInv, ClosedInv, Quiet

\* Shutdown gives up, with an error.
LEMMA TimeoutInv ==
  ASSUME IInv, NEW c \in Caller, DrainTimeout(c)
  PROVE  IInv'
<1> USE DEF DrainTimeout, Goto, requestVars, IInv
<1>1. TypeOK'
  BY DEF TypeOK, CallerState
<1>2. Handling' = Handling
  BY DEF Handling
<1>3. ASSUME NEW d \in Caller PROVE CallerInv(d)'
  BY <1>2 DEF CallerInv, PastDrain, TypeOK
<1>4. QED
  BY <1>1, <1>2, <1>3 DEF InFlightExact, CloseOrder, OpenInv, ClosedInv, Quiet

\* A dependency is closed past the drain, after those before it.
LEMMA CloseInv ==
  ASSUME IInv, NEW c \in Caller, NEW d \in Dependency, CloseDependency(c, d)
  PROVE  IInv'
<1> USE DEF CloseDependency, MayFail, Goto, requestVars, IInv
<1>1. TypeOK'
  BY DEF TypeOK, CallerState, Dependency, AfterClosing
<1>2. Handling' = Handling
  BY DEF Handling
<1>3. Quiet
  BY DEF CallerInv, PastDrain, Dependency, Quiet
<1>4. ASSUME NEW e \in Caller PROVE CallerInv(e)'
  BY <1>2, <1>3 DEF CallerInv, PastDrain, TypeOK, Dependency, AfterClosing, Quiet
<1>5. CloseOrder'
  BY DEF CallerInv, CloseOrder, Dependency
<1>6. QED
  BY <1>1, <1>2, <1>3, <1>4, <1>5 DEF InFlightExact, OpenInv, ClosedInv, Quiet

\* The runtime is marked closed once everything is.
LEMMA MarkClosedInv ==
  ASSUME IInv, NEW c \in Caller, MarkClosed(c)
  PROVE  IInv'
<1> USE DEF MarkClosed, Goto, requestVars, IInv
<1>1. TypeOK'
  BY DEF TypeOK, CallerState
<1>2. Handling' = Handling
  BY DEF Handling
<1>3. Quiet /\ open = {}
  BY DEF CallerInv, PastDrain, Quiet
<1>4. ASSUME NEW d \in Caller PROVE CallerInv(d)'
  BY <1>2 DEF CallerInv, PastDrain, TypeOK
<1>5. QED
  BY <1>1, <1>2, <1>3, <1>4 DEF InFlightExact, CloseOrder, OpenInv, ClosedInv, Quiet

\* A deadline changes nothing by itself.
LEMMA ExpireInv ==
  ASSUME IInv, NEW c \in Caller, Expire(c)
  PROVE  IInv'
BY DEF Expire, requestVars, IInv, TypeOK, Handling, InFlightExact, CloseOrder,
   OpenInv, ClosedInv, Quiet, CallerInv

-----------------------------------------------------------------------------
\* Every step preserves the inductive invariant.
LEMMA StepInv == IInv /\ [Next]_vars => IInv'
<1> SUFFICES ASSUME IInv, [Next]_vars PROVE IInv'
  OBVIOUS
<1>1. ASSUME NEW r \in Request, Handle(r) PROVE IInv'
  BY <1>1, RefuseInv, AdmitInv, ReleaseInv DEF Handle
<1>2. ASSUME NEW c \in Caller, Shutdown(c) PROVE IInv'
  BY <1>2, BeginInv, StopTransportInv, MoveInv, DrainedInv, TimeoutInv, CloseInv,
     MarkClosedInv, ExpireInv DEF Shutdown
<1>3. CASE UNCHANGED vars
  BY <1>3 DEF vars, requestVars, callerVars, IInv, TypeOK, Handling, InFlightExact,
     CloseOrder, OpenInv, ClosedInv, Quiet, CallerInv
<1>4. QED
  BY <1>1, <1>2, <1>3 DEF Next

\* The inductive invariant holds in every reachable state.
THEOREM Invariance == Spec => []IInv
<1>1. QED
  BY InitInv, StepInv, PTL DEF Spec

-----------------------------------------------------------------------------
\* Every variable keeps its type.
THEOREM TypeCorrect == Spec => []TypeOK
<1>1. IInv => TypeOK
  BY DEF IInv
<1>2. QED
  BY <1>1, Invariance, PTL

\* While a request is in flight the sinks it writes to are open, and a graceful
\* transport is too, whatever calls of Shutdown overlap, fail or are retried.
THEOREM SinksOutliveRequests == Spec => []OpenWhileInFlight
<1>1. IInv => OpenWhileInFlight
  BY DEF IInv, OpenInv, Quiet, OpenWhileInFlight
<1>2. QED
  BY <1>1, Invariance, PTL

\* The counter is exact and within the limit.
THEOREM AdmissionBounded == Spec => []InFlightExact
<1>1. IInv => InFlightExact
  BY DEF IInv
<1>2. QED
  BY <1>1, Invariance, PTL

\* A Shutdown that returns nil has left nothing open and no request in flight.
THEOREM NilReleasesAll == Spec => []NilMeansReleased
<1>1. IInv => NilMeansReleased
  BY DEF IInv, CallerInv, ClosedInv, Quiet, NilMeansReleased
<1>2. QED
  BY <1>1, Invariance, PTL

\* Transport, audit and storage are closed in this order.
THEOREM ClosedInOrder == Spec => []CloseOrder
<1>1. IInv => CloseOrder
  BY DEF IInv
<1>2. QED
  BY <1>1, Invariance, PTL

-----------------------------------------------------------------------------
(* Refinement: the steps of requests start and finish operations, marking  *)
(* the runtime stops the service, and the first sink to be closed releases *)
(* its resources.  All others are stutters.                                *)

\* The initial states are initial states of the service.
LEMMA RefineInit == Init => Service!Init
BY DEF Init, Service!Init, Phase, Handling, Dependency

\* A step that leaves the requests, the mark and the sinks alone is a stutter.
LEMMA RefineStutter ==
  ASSUME UNCHANGED <<request, shuttingDown, open>>
  PROVE  UNCHANGED Service!vars
BY DEF Service!vars, Phase, Handling

\* Requests are operations.
LEMMA RefineRequest ==
  ASSUME IInv, NEW r \in Request, Handle(r)
  PROVE  [Service!Next]_(Service!vars)
<1>1. CASE RefuseStopping(r) \/ RefuseBusy(r)
  <2>1. Handling' = Handling /\ Phase' = Phase
    BY <1>1 DEF RefuseStopping, RefuseBusy, IInv, TypeOK, Handling, Phase
  <2>2. QED
    BY <2>1 DEF Service!vars
<1>2. CASE Admit(r)
  <2>1. Handling' = Handling \union {r}
    BY <1>2 DEF Admit, IInv, TypeOK, Handling
  <2>2. Phase = "open" /\ Phase' = Phase
    BY <1>2 DEF Admit, Stopping, IInv, OpenInv, Quiet, Phase
  <2>3. Cardinality(Handling) < MaxConcurrent
    BY <1>2 DEF Admit, IInv, InFlightExact
  <2>4. Service!Cardinality(Handling) = Cardinality(Handling)
    BY DEF Service!Cardinality, Cardinality
  <2>5. Service!Start(r)
    BY <2>1, <2>2, <2>3, <2>4 DEF Service!Start
  <2>6. QED
    BY <2>5 DEF Service!Next
<1>3. CASE Release(r)
  <2>1. Handling' = Handling \ {r} /\ Phase' = Phase
    BY <1>3 DEF Release, IInv, TypeOK, Handling, Phase
  <2>2. Service!Finish(r)
    BY <2>1 DEF Service!Finish
  <2>3. QED
    BY <2>2 DEF Service!Next
<1>4. QED
  BY <1>1, <1>2, <1>3 DEF Handle

\* Shutdown stops the service, and releases it after the drain.
LEMMA RefineShutdown ==
  ASSUME IInv, NEW c \in Caller, Shutdown(c)
  PROVE  [Service!Next]_(Service!vars)
<1>1. CASE BeginShutdown(c)
  <2>1. Handling' = Handling
    BY <1>1 DEF BeginShutdown, requestVars, Handling
  <2>2. CASE shuttingDown' = shuttingDown
    BY <1>1, <2>1, <2>2 DEF BeginShutdown, Phase, Service!vars
  <2>3. CASE shuttingDown' # shuttingDown
    <3>1. Phase = "open" /\ Phase' = "draining"
      BY <1>1, <2>3 DEF BeginShutdown, IInv, TypeOK, OpenInv, Quiet, Phase
    <3>2. QED
      BY <2>1, <3>1 DEF Service!Stop, Service!Next
  <2>4. QED
    BY <2>2, <2>3
<1>2. CASE StopTransport(c)
  <2>1. Handling' = Handling /\ Phase' = Phase
    BY <1>2 DEF StopTransport, requestVars, Handling, Phase
  <2>2. QED
    BY <2>1 DEF Service!vars
<1>3. ASSUME NEW d \in Dependency, CloseDependency(c, d)
      PROVE  [Service!Next]_(Service!vars)
  <2>1. Handling' = Handling /\ Quiet
    BY <1>3 DEF CloseDependency, requestVars, IInv, CallerInv, PastDrain, Dependency,
       Handling, Quiet
  <2>2. CASE Phase' = Phase
    BY <2>1, <2>2 DEF Service!vars
  <2>3. CASE Phase' # Phase
    <3>1. Phase = "draining" /\ Phase' = "released"
      BY <1>3, <2>1, <2>3 DEF CloseDependency, Quiet, Phase
    <3>2. QED
      BY <2>1, <3>1 DEF Quiet, Service!Release, Service!Next
  <2>4. QED
    BY <2>2, <2>3
<1>4. CASE RunShutdowners(c) \/ NotDrained(c) \/ Tick(c)
  BY <1>4, RefineStutter DEF RunShutdowners, NotDrained, Tick, requestVars
<1>5. CASE Drained(c) \/ DrainTimeout(c)
  BY <1>5, RefineStutter DEF Drained, DrainTimeout, requestVars
<1>6. CASE MarkClosed(c) \/ Expire(c)
  BY <1>6, RefineStutter DEF MarkClosed, Expire, requestVars
<1>7. QED
  BY <1>1, <1>2, <1>3, <1>4, <1>5, <1>6 DEF Shutdown

\* The runtime implements the abstract service, for any number of requests and
\* of overlapping calls of Shutdown.
THEOREM Refinement == Spec => ImplementsGracefulService
<1>1. IInv /\ [Next]_vars => [Service!Next]_(Service!vars)
  <2> SUFFICES ASSUME IInv, [Next]_vars PROVE [Service!Next]_(Service!vars)
    OBVIOUS
  <2>1. CASE UNCHANGED vars
    BY <2>1, RefineStutter DEF vars, requestVars
  <2>2. QED
    BY <2>1, RefineRequest, RefineShutdown DEF Next
<1>2. QED
  BY <1>1, RefineInit, Invariance, PTL DEF Spec, ImplementsGracefulService, Service!Spec

=============================================================================
