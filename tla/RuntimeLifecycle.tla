--------------------------- MODULE RuntimeLifecycle ---------------------------
(***************************************************************************)
(* internal/runtime/lifecycle.go: the admission of requests by Handle and  *)
(* the coordinated Shutdown of the runtime.  Each request is one call of   *)
(* Handle, on the goroutine of its connection; each caller is one call of  *)
(* Shutdown.  A step is one critical section of Runtime.mu, or one call    *)
(* the runtime makes on a dependency.                                      *)
(***************************************************************************)
EXTENDS Naturals, FiniteSets

CONSTANTS
  Request,        \* the calls of Handle
  Caller,         \* the calls of Shutdown
  Timed,          \* those whose context has a deadline
  MaxConcurrent   \* Runtime.maxConcurrentRequests, which New makes positive

ASSUME LifecycleAssumption ==
  /\ IsFiniteSet(Request)
  /\ Timed \subseteq Caller
  /\ MaxConcurrent \in Nat \ {0}

VARIABLES
  graceful,       \* does the transport implement gracefulTransport?
  shuttingDown,   \* Runtime.shuttingDown
  closed,         \* Runtime.closed
  inFlight,       \* Runtime.inFlight
  request,        \* where each call of Handle is
  caller,         \* where each call of Shutdown is
  expired,        \* the callers whose context is done
  failed,         \* the callers that have collected an error
  open            \* the dependencies whose Close has not been called

requestVars == <<inFlight, request>>
callerVars == <<caller, expired, failed>>
vars == <<graceful, shuttingDown, closed, requestVars, callerVars, open>>

Dependency == {"transport", "audit", "storage"}

RequestState == {"waiting", "handling", "answered", "busy", "refused"}

CallerState == {"idle", "marked", "shutdowners", "draining", "polling",
                "mark closed", "returned"} \union Dependency

TypeOK ==
  /\ graceful \in BOOLEAN
  /\ shuttingDown \in BOOLEAN
  /\ closed \in BOOLEAN
  /\ inFlight \in Nat
  /\ request \in [Request -> RequestState]
  /\ caller \in [Caller -> CallerState]
  /\ expired \in SUBSET Timed
  /\ failed \in SUBSET Caller
  /\ open \in SUBSET Dependency

Init ==
  /\ graceful \in BOOLEAN
  /\ shuttingDown = FALSE
  /\ closed = FALSE
  /\ inFlight = 0
  /\ request = [r \in Request |-> "waiting"]
  /\ caller = [c \in Caller |-> "idle"]
  /\ expired = {}
  /\ failed = {}
  /\ open = Dependency

-----------------------------------------------------------------------------
(* Handle: admitRequest, the method's handler, and the deferred            *)
(* releaseRequest.  What the handler does is RequestPipeline's subject;    *)
(* here it only keeps the request in flight.                               *)

Stopping_ClosedOnly == closed

Stopping == shuttingDown \/ closed

Handling == {r \in Request : request[r] = "handling"}

RefuseStopping_CountsOut(r) ==
  /\ request[r] = "waiting"
  /\ Stopping
  /\ request' = [request EXCEPT ![r] = "refused"]
  /\ inFlight' = inFlight - 1
  /\ UNCHANGED <<graceful, shuttingDown, closed, callerVars, open>>

RefuseStopping(r) ==
  /\ request[r] = "waiting"
  /\ Stopping
  /\ request' = [request EXCEPT ![r] = "refused"]
  /\ UNCHANGED <<graceful, shuttingDown, closed, inFlight, callerVars, open>>

RefuseBusy(r) ==
  /\ request[r] = "waiting"
  /\ ~Stopping
  /\ inFlight >= MaxConcurrent
  /\ request' = [request EXCEPT ![r] = "busy"]
  /\ UNCHANGED <<graceful, shuttingDown, closed, inFlight, callerVars, open>>

Admit_NoLimit(r) ==
  /\ request[r] = "waiting"
  /\ ~Stopping
  /\ request' = [request EXCEPT ![r] = "handling"]
  /\ inFlight' = inFlight + 1
  /\ UNCHANGED <<graceful, shuttingDown, closed, callerVars, open>>

Admit(r) ==
  /\ request[r] = "waiting"
  /\ ~Stopping
  /\ inFlight < MaxConcurrent
  /\ request' = [request EXCEPT ![r] = "handling"]
  /\ inFlight' = inFlight + 1
  /\ UNCHANGED <<graceful, shuttingDown, closed, callerVars, open>>

Release_KeepsCount(r) ==
  /\ request[r] = "handling"
  /\ request' = [request EXCEPT ![r] = "answered"]
  /\ UNCHANGED <<graceful, shuttingDown, closed, inFlight, callerVars, open>>

Release(r) ==
  /\ request[r] = "handling"
  /\ request' = [request EXCEPT ![r] = "answered"]
  /\ inFlight' = IF inFlight > 0 THEN inFlight - 1 ELSE inFlight
  /\ UNCHANGED <<graceful, shuttingDown, closed, callerVars, open>>

-----------------------------------------------------------------------------
(* Shutdown.                                                               *)

Goto(c, step) == caller' = [caller EXCEPT ![c] = step]

\* A call on a dependency may return an error; Shutdown joins it and goes on.
MayFail(c) == failed' \in {failed, failed \union {c}}

BeginShutdown(c) ==
  /\ caller[c] = "idle"
  /\ IF closed
       THEN Goto(c, "returned") /\ UNCHANGED shuttingDown
       ELSE Goto(c, "marked") /\ shuttingDown' = TRUE
  /\ UNCHANGED <<graceful, closed, requestVars, expired, failed, open>>

\* A graceful transport is told to begin its shutdown, any other is closed.
StopTransport(c) ==
  /\ caller[c] = "marked"
  /\ open' = IF graceful THEN open ELSE open \ {"transport"}
  /\ MayFail(c)
  /\ Goto(c, "shutdowners")
  /\ UNCHANGED <<graceful, shuttingDown, closed, requestVars, expired>>

\* The loop over Shutdowners returns: TerminalService models the one there is.
RunShutdowners(c) ==
  /\ caller[c] = "shutdowners"
  /\ MayFail(c)
  /\ Goto(c, "draining")
  /\ UNCHANGED <<graceful, shuttingDown, closed, requestVars, expired, open>>

Drained_Unchecked(c) ==
  /\ caller[c] = "draining"
  /\ Goto(c, IF graceful THEN "transport" ELSE "audit")
  /\ UNCHANGED <<graceful, shuttingDown, closed, requestVars, expired, failed, open>>

\* waitForDrain finds no request in flight.
Drained(c) ==
  /\ caller[c] = "draining"
  /\ inFlight = 0
  /\ Goto(c, IF graceful THEN "transport" ELSE "audit")
  /\ UNCHANGED <<graceful, shuttingDown, closed, requestVars, expired, failed, open>>

\* waitForDrain finds requests in flight and blocks in its select.
NotDrained(c) ==
  /\ caller[c] = "draining"
  /\ inFlight # 0
  /\ Goto(c, "polling")
  /\ UNCHANGED <<graceful, shuttingDown, closed, requestVars, expired, failed, open>>

Tick(c) ==
  /\ caller[c] = "polling"
  /\ Goto(c, "draining")
  /\ UNCHANGED <<graceful, shuttingDown, closed, requestVars, expired, failed, open>>

DrainTimeout_NoContext(c) == FALSE

DrainTimeout_Silent(c) ==
  /\ caller[c] = "polling"
  /\ c \in expired
  /\ Goto(c, "returned")
  /\ UNCHANGED <<graceful, shuttingDown, closed, requestVars, expired, failed, open>>

\* The select takes ctx.Done: Shutdown returns and closes nothing.
DrainTimeout(c) ==
  /\ caller[c] = "polling"
  /\ c \in expired
  /\ failed' = failed \union {c}
  /\ Goto(c, "returned")
  /\ UNCHANGED <<graceful, shuttingDown, closed, requestVars, expired, open>>

AfterClosing_StorageFirst(d) ==
  CASE d = "transport" -> "storage"
    [] d = "storage" -> "audit"
    [] d = "audit" -> "mark closed"

AfterClosing(d) ==
  CASE d = "transport" -> "audit"
    [] d = "audit" -> "storage"
    [] d = "storage" -> "mark closed"

CloseDependency(c, d) ==
  /\ caller[c] = d
  /\ open' = open \ {d}
  /\ MayFail(c)
  /\ Goto(c, AfterClosing(d))
  /\ UNCHANGED <<graceful, shuttingDown, closed, requestVars, expired>>

MarkClosed(c) ==
  /\ caller[c] = "mark closed"
  /\ closed' = TRUE
  /\ Goto(c, "returned")
  /\ UNCHANGED <<graceful, shuttingDown, requestVars, expired, failed, open>>

\* The context of a caller that set a deadline reaches it.
Expire(c) ==
  /\ c \in Timed \ expired
  /\ caller[c] \notin {"idle", "returned"}
  /\ expired' = expired \union {c}
  /\ UNCHANGED <<graceful, shuttingDown, closed, requestVars, caller, failed, open>>

-----------------------------------------------------------------------------
Handle(r) == RefuseStopping(r) \/ RefuseBusy(r) \/ Admit(r) \/ Release(r)

Shutdown(c) ==
  \/ BeginShutdown(c)
  \/ StopTransport(c)
  \/ RunShutdowners(c)
  \/ Drained(c)
  \/ NotDrained(c)
  \/ Tick(c)
  \/ DrainTimeout(c)
  \/ \E d \in Dependency : CloseDependency(c, d)
  \/ MarkClosed(c)
  \/ Expire(c)

Next ==
  \/ \E r \in Request : Handle(r)
  \/ \E c \in Caller : Shutdown(c)

Spec == Init /\ [][Next]_vars

\* A call of Shutdown that has begun goes on, and deadlines come.  The select
\* of waitForDrain picks at random among what is ready, so it does not pass
\* over ctx.Done for ever.  Nothing is assumed of the handlers.
Fairness ==
  \A c \in Caller :
    /\ WF_vars(caller[c] # "idle" /\ Shutdown(c))
    /\ WF_vars(Expire(c))
    /\ SF_vars(DrainTimeout(c))

FairSpec == Spec /\ Fairness

-----------------------------------------------------------------------------
(* Safety.                                                                 *)

\* A request in flight can record what it does: audit and storage stay open
\* until the drain has seen no request, however many calls of Shutdown race and
\* however many of them gave up; and a graceful transport stays open that long
\* too, so that the requests it still accepts are refused with an answer.
OpenWhileInFlight ==
  Handling # {} =>
    /\ {"audit", "storage"} \subseteq open
    /\ graceful => "transport" \in open

\* The counter that Shutdown drains on is the number of calls of Handle between
\* admitRequest and releaseRequest, and it never passes the limit.
InFlightExact ==
  /\ inFlight = Cardinality(Handling)
  /\ inFlight <= MaxConcurrent

\* A call of Shutdown that returns nil has left nothing behind: no request in
\* flight, no dependency open, the runtime closed.
NilMeansReleased ==
  \A c \in Caller \ failed :
    caller[c] = "returned" => closed /\ open = {} /\ Handling = {}

\* Storage is closed after audit and audit after the transport, even when calls
\* of Shutdown overlap.
CloseOrder ==
  /\ "storage" \notin open => "audit" \notin open
  /\ "audit" \notin open => "transport" \notin open

-----------------------------------------------------------------------------
(* Liveness.                                                               *)

\* Shutdown with a deadline returns even if some handler never does.
TimedShutdownReturns ==
  \A c \in Timed : caller[c] = "marked" ~> caller[c] = "returned"

\* If every handler returns, so does Shutdown without a deadline (Close).
ShutdownReturnsAfterHandlers ==
  (\A r \in Request : request[r] = "handling" ~> request[r] = "answered")
    => \A c \in Caller : caller[c] = "marked" ~> caller[c] = "returned"

-----------------------------------------------------------------------------
(* The runtime implements GracefulService.                                 *)

Phase ==
  IF {"audit", "storage"} \subseteq open
    THEN IF shuttingDown THEN "draining" ELSE "open"
    ELSE "released"

Service == INSTANCE GracefulService WITH
  Operation <- Request,
  Limit <- MaxConcurrent,
  phase <- Phase,
  running <- Handling

\* However many requests and calls of Shutdown there are, the runtime admits,
\* drains and releases as the abstract service does.
ImplementsGracefulService == Service!Spec

=============================================================================
