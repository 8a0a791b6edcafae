---------------------------- MODULE NucleusAppProofs ----------------------------
(***************************************************************************)
(* For any number of connections and any admission limit, with either      *)
(* listener: the process drives its runtime as RuntimeLifecycle specifies, *)
(* and the safety properties of NucleusApp.                                *)
(***************************************************************************)
EXTENDS NucleusApp, TLAPS

\* The theorems about the runtime, as the process uses it.
Life == INSTANCE RuntimeLifecycleProofs WITH
  Request <- Connection, Caller <- {"app"}, Timed <- {"app"}

-----------------------------------------------------------------------------
(* The process is a behaviour of the runtime.                              *)

LEMMA Assumptions == Life!LifecycleAssumption
BY AppAssumption DEF Life!LifecycleAssumption, Life!IsFiniteSet, IsFiniteSet

LEMMA LifeRequest ==
  ASSUME NEW k \in Connection, Lifecycle!Handle(k)
  PROVE  Life!Next
<1>1. Life!Handle(k)
  BY DEF Lifecycle!Handle, Lifecycle!RefuseStopping, Lifecycle!RefuseBusy,
     Lifecycle!Admit, Lifecycle!Release, Lifecycle!Stopping, Lifecycle!callerVars,
     Life!Handle, Life!RefuseStopping, Life!RefuseBusy, Life!Admit, Life!Release,
     Life!Stopping, Life!callerVars
<1>2. QED
  BY <1>1 DEF Life!Next

\* app.run is the only caller of Shutdown.
LEMMA LifeShutdown ==
  ASSUME \/ Lifecycle!Shutdown("app")
         \/ Lifecycle!BeginShutdown("app")
         \/ Lifecycle!Expire("app")
         \/ Lifecycle!CloseDependency("app", "transport")
  PROVE  Life!Next
<1>1. "transport" \in Life!Dependency
  BY DEF Life!Dependency
<1>2. Life!Shutdown("app")
  BY <1>1 DEF Lifecycle!Shutdown, Lifecycle!BeginShutdown, Lifecycle!StopTransport,
     Lifecycle!RunShutdowners, Lifecycle!Drained, Lifecycle!NotDrained, Lifecycle!Tick,
     Lifecycle!DrainTimeout, Lifecycle!CloseDependency, Lifecycle!MarkClosed,
     Lifecycle!Expire, Lifecycle!Goto, Lifecycle!MayFail, Lifecycle!AfterClosing,
     Lifecycle!Dependency, Lifecycle!requestVars, Life!Shutdown, Life!BeginShutdown,
     Life!StopTransport, Life!RunShutdowners, Life!Drained, Life!NotDrained, Life!Tick,
     Life!DrainTimeout, Life!CloseDependency, Life!MarkClosed, Life!Expire, Life!Goto,
     Life!MayFail, Life!AfterClosing, Life!Dependency, Life!requestVars
<1>3. QED
  BY <1>2 DEF Life!Next

\* Every step is a step of the runtime, or one that it does not see.
LEMMA LifeStep == [Next]_vars => [Life!Next]_(Life!vars)
<1> SUFFICES ASSUME [Next]_vars PROVE [Life!Next]_(Life!vars)
  OBVIOUS
<1>1. ASSUME UNCHANGED lifecycleVars PROVE UNCHANGED Life!vars
  BY <1>1 DEF lifecycleVars, Life!vars, Life!requestVars, Life!callerVars
<1>2. CASE UnixServe \/ PipeServe \/ Signal
  BY <1>1, <1>2 DEF UnixServe, PipeServe, Signal
<1>3. CASE Run
  BY <1>1, <1>3, LifeShutdown DEF Run, ServeEnded, Exit, Stop, ShutdownStep,
     ContextExpires, CloseTransport, BeginCloseUnix, CloseSocketUnix, EndCloseUnix,
     BeginClosePipe, EndClosePipe, Join
<1>4. CASE \E k \in Connection : Connect(k) \/ ReadFrame(k) \/ CallHandle(k) \/ WriteFrame(k)
  BY <1>1, <1>4, LifeRequest DEF Connect, ReadFrame, CallHandle, WriteFrame
<1>5. CASE UNCHANGED vars
  BY <1>1, <1>5 DEF vars
<1>6. QED
  BY <1>2, <1>3, <1>4, <1>5 DEF Next

LEMMA LifeInit == Init => Life!Init
BY DEF Init, Lifecycle!Init, Lifecycle!Dependency, Life!Init, Life!Dependency

\* The process admits and drains requests, and releases what they need, as the
\* runtime is specified to do.
THEOREM ImplementsRuntime == Spec => Life!Spec
BY LifeInit, LifeStep, PTL DEF Spec, Life!Spec

\* And so it is an implementation of the abstract service.
THEOREM ImplementsService == Spec => Life!ImplementsGracefulService
<1>1. Life!Spec => Life!ImplementsGracefulService
  BY Assumptions, Life!Refinement
<1>2. QED
  BY <1>1, ImplementsRuntime, PTL

LEMMA LifeInvariance == Spec => []Life!IInv
<1>1. Life!Spec => []Life!IInv
  BY Assumptions, Life!Invariance
<1>2. QED
  BY <1>1, ImplementsRuntime, PTL

-----------------------------------------------------------------------------
(* What relates the runtime, the listener and app.run.                     *)

\* The socket is handed over to Close when the listener is published: before
\* that Serve cleans up after itself, and after it Close does.  Serve goes on
\* accepting until Close has closed the socket.
UnixInv ==
  platform = "unix" =>
    /\ closing <=> closer # "idle"
    /\ serve \in {"starting", "bound"} => ~published /\ closer # "socket"
    /\ serve = "bound" /\ Alive => listening
    /\ serve = "accepting" =>
         /\ closer = "idle" => published
         /\ closer \in {"idle", "socket"} /\ Alive => listening
         /\ closer \in {"path", "done"} => ~listening /\ path # "socket"
    /\ serve = "returned" /\ ~serveErr =>
         /\ closing
         /\ closer # "socket" => ~listening /\ path # "socket"

\* Serve holds an instance of the pipe from its creation until it lets go of it.
PipeInv ==
  platform = "windows" =>
    /\ serve \in {"bound", "accepting", "connected"} /\ Alive => listening
    /\ serve \in {"starting", "returned"} => ~listening

\* The transport is closed once the requests are gone, and run has waited for
\* Serve when it returns.
RunInv ==
  /\ closing => Life!Quiet
  /\ app = "exited" => serve = "returned"

OwnInv == TypeOK /\ UnixInv /\ PipeInv /\ RunInv

LEMMA OwnInit == Init => OwnInv
<1> SUFFICES ASSUME Init PROVE OwnInv
  OBVIOUS
<1>1. Lifecycle!TypeOK
  BY DEF Init, Lifecycle!Init, Lifecycle!TypeOK, Lifecycle!RequestState,
     Lifecycle!CallerState
<1>2. conn \in [Connection -> ConnState]
  BY DEF Init, Unix!Init, Pipe!Init, ConnState
<1>3. TypeOK
  BY <1>1, <1>2 DEF Init, TypeOK, Unix!Init, Pipe!Init, Unix!TypeOK, Pipe!TypeOK
<1>4. UnixInv /\ PipeInv
  BY DEF Init, Unix!Init, Pipe!Init, UnixInv, PipeInv
<1>5. RunInv
  BY DEF Init, Unix!Init, Pipe!Init, RunInv
<1>6. QED
  BY <1>3, <1>4, <1>5 DEF OwnInv

\* The runtime keeps its own types.
LEMMA LifeTypes == Life!IInv => Lifecycle!TypeOK
BY DEF Life!IInv, Life!TypeOK, Lifecycle!TypeOK, Life!RequestState,
   Lifecycle!RequestState, Life!CallerState, Lifecycle!CallerState, Life!Dependency,
   Lifecycle!Dependency

\* A runtime that is drained stays so.
LEMMA QuietStays ==
  ASSUME Life!IInv, Life!Quiet, [Life!Next]_(Life!vars)
  PROVE  Life!Quiet'
<1> USE DEF Life!Quiet, Life!Handling, Life!IInv, Life!TypeOK
<1>1. ASSUME NEW k \in Connection, Life!Handle(k) PROVE Life!Quiet'
  BY <1>1 DEF Life!Handle, Life!RefuseStopping, Life!RefuseBusy, Life!Admit,
     Life!Release, Life!Stopping, Life!callerVars
<1>2. ASSUME Life!Shutdown("app") PROVE Life!Quiet'
  BY <1>2 DEF Life!Shutdown, Life!BeginShutdown, Life!StopTransport,
     Life!RunShutdowners, Life!Drained, Life!NotDrained, Life!Tick,
     Life!DrainTimeout, Life!CloseDependency, Life!MarkClosed, Life!Expire,
     Life!requestVars
<1>3. CASE UNCHANGED Life!vars
  BY <1>3 DEF Life!vars, Life!requestVars, Life!callerVars
<1>4. QED
  BY <1>1, <1>2, <1>3 DEF Life!Next

\* The steps that leave the listener and run alone.
LEMMA ListenerKept ==
  ASSUME OwnInv, Lifecycle!TypeOK', Life!Quiet => Life!Quiet',
         UNCHANGED <<app, listenerVars>>, signalled' \in BOOLEAN,
         conn' \in [Connection -> ConnState]
  PROVE  OwnInv'
<1> USE DEF OwnInv, listenerVars, unixVars
<1>1. TypeOK'
  BY DEF TypeOK, Unix!TypeOK, Pipe!TypeOK
<1>2. (UnixInv /\ PipeInv /\ RunInv)'
  BY DEF UnixInv, PipeInv, RunInv, Alive
<1>3. QED
  BY <1>1, <1>2

-----------------------------------------------------------------------------
(* The listeners.                                                          *)

\* Serve of the Unix listener leaves a socket behind only to a Close that will
\* find it.
LEMMA UnixServeInv ==
  ASSUME OwnInv, Lifecycle!TypeOK', Life!Quiet => Life!Quiet', UnixServe
  PROVE  OwnInv'
<1> USE DEF OwnInv, UnixServe
<1>1. Unix!TypeOK /\ conn \in [Connection -> ConnState]
  BY DEF TypeOK
<1>2. CASE Unix!Listen
  <2>1. Unix!TypeOK' /\ conn' \in [Connection -> ConnState]
    BY <1>1, <1>2 DEF Unix!Listen, Unix!TypeOK
  <2>2. QED
    BY <1>2, <2>1 DEF Unix!Listen, TypeOK, UnixInv, PipeInv, RunInv, Alive
<1>3. CASE Unix!Publish
  <2>1. conn' \in [Connection -> ConnState]
    BY <1>1, <1>3 DEF Unix!Publish, Unix!DropQueued, ConnState
  <2>2. Unix!TypeOK'
    BY <1>1, <1>3 DEF Unix!Publish, Unix!TypeOK
  <2>3. QED
    BY <1>3, <2>1, <2>2 DEF Unix!Publish, TypeOK, UnixInv, PipeInv, RunInv, Alive
<1>4. CASE Unix!AcceptFails
  <2>1. Unix!TypeOK' /\ conn' \in [Connection -> ConnState]
    BY <1>1, <1>4 DEF Unix!AcceptFails, Unix!TypeOK
  <2>2. TypeOK' /\ UnixInv'
    BY <1>1, <1>4, <2>1 DEF Unix!AcceptFails, Unix!TypeOK, TypeOK, UnixInv, Alive
  <2>3. QED
    BY <1>4, <2>2 DEF Unix!AcceptFails, TypeOK, PipeInv, RunInv, Alive
<1>5. ASSUME NEW k \in Connection, Unix!Accept(k) PROVE OwnInv'
  <2>1. Unix!TypeOK' /\ conn' \in [Connection -> ConnState]
    BY <1>1, <1>5 DEF Unix!Accept, Unix!TypeOK, ConnState
  <2>2. QED
    BY <1>5, <2>1 DEF Unix!Accept, TypeOK, UnixInv, PipeInv, RunInv, Alive
<1>6. QED
  BY <1>2, <1>3, <1>4, <1>5 DEF Unix!Serve, Unix!GoOn

\* Serve of the pipe holds an instance, or is about to create one, or returns.
LEMMA PipeServeInv ==
  ASSUME OwnInv, Lifecycle!TypeOK', Life!Quiet => Life!Quiet', PipeServe
  PROVE  OwnInv'
<1> USE DEF OwnInv, PipeServe, unixVars
<1>1. Pipe!TypeOK /\ conn \in [Connection -> ConnState] /\ platform = "windows"
  BY DEF TypeOK
<1>2. Pipe!DropQueued \in [Connection -> ConnState]
  BY <1>1 DEF Pipe!DropQueued, ConnState
<1>3. CASE Pipe!CreateInstance \/ Pipe!ConnectReturns
  <2>1. Pipe!TypeOK' /\ conn' \in [Connection -> ConnState]
    BY <1>1, <1>3 DEF Pipe!CreateInstance, Pipe!ConnectReturns, Pipe!TypeOK
  <2>2. QED
    BY <1>1, <1>3, <2>1 DEF Pipe!CreateInstance, Pipe!ConnectReturns, TypeOK,
       UnixInv, PipeInv, RunInv, Alive
<1>4. ASSUME Pipe!Return, UNCHANGED <<closing, wake>> PROVE OwnInv'
  <2>1. Pipe!TypeOK' /\ conn' \in [Connection -> ConnState]
    BY <1>1, <1>2, <1>4 DEF Pipe!Return, Pipe!TypeOK
  <2>2. QED
    BY <1>1, <1>4, <2>1 DEF Pipe!Return, TypeOK, UnixInv, PipeInv, RunInv, Alive
<1>5. CASE Pipe!CreateFails \/ Pipe!ConnectFails
  BY <1>4, <1>5 DEF Pipe!CreateFails, Pipe!ConnectFails
<1>6. CASE Pipe!KeepInstance
  <2>1. CASE closing
    BY <1>4, <1>6, <2>1 DEF Pipe!KeepInstance
  <2>2. CASE ~closing
    <3>1. Pipe!TypeOK' /\ conn' \in [Connection -> ConnState]
      BY <1>1, <1>6, <2>2 DEF Pipe!KeepInstance, Pipe!TypeOK
    <3>2. QED
      BY <1>1, <1>6, <2>2, <3>1 DEF Pipe!KeepInstance, TypeOK, UnixInv, PipeInv, RunInv, Alive
  <2>3. QED
    BY <2>1, <2>2
<1>7. CASE Pipe!HandOff
  <2>1. CASE closing
    BY <1>4, <1>7, <2>1 DEF Pipe!HandOff
  <2>2. CASE ~closing
    <3>1. Pipe!TypeOK' /\ conn' \in [Connection -> ConnState]
      BY <1>1, <1>7, <2>2 DEF Pipe!HandOff, Pipe!TypeOK, ConnState
    <3>2. QED
      BY <1>1, <1>7, <2>2, <3>1 DEF Pipe!HandOff, TypeOK, UnixInv, PipeInv, RunInv, Alive
  <2>3. QED
    BY <2>1, <2>2
<1>8. QED
  BY <1>3, <1>5, <1>6, <1>7 DEF Pipe!Serve, Pipe!GoOn

\* The transport is closed when the drain has seen no request in flight.
LEMMA CloseTransportInv ==
  ASSUME Life!IInv, OwnInv, Lifecycle!TypeOK', Life!Quiet => Life!Quiet', CloseTransport
  PROVE  OwnInv'
<1> USE DEF OwnInv
<1>1. conn \in [Connection -> ConnState] /\ app = "stopping"
  BY DEF TypeOK, CloseTransport, BeginCloseUnix, CloseSocketUnix, EndCloseUnix,
     BeginClosePipe, EndClosePipe
<1>2. closing' => Life!Quiet'
  <2>1. caller["app"] = "transport" => Life!Quiet'
    BY DEF Life!IInv, Life!CallerInv, Life!PastDrain, Life!Quiet
  <2>2. caller["app"] = "transport" \/ closing' = closing
    BY DEF CloseTransport, BeginCloseUnix, CloseSocketUnix, EndCloseUnix, BeginClosePipe,
       EndClosePipe, Unix!CloseSocket, Lifecycle!CloseDependency
  <2>3. QED
    BY <2>1, <2>2 DEF RunInv
<1>3. CASE BeginCloseUnix \/ CloseSocketUnix \/ EndCloseUnix
  <2> USE DEF BeginCloseUnix, CloseSocketUnix, EndCloseUnix, Unix!BeginClose,
          Unix!CloseSocket, Unix!RemovePath
  <2>1. conn' \in [Connection -> ConnState]
    BY <1>1, <1>3 DEF Unix!DropQueued, ConnState
  <2>2. Unix!TypeOK'
    BY <1>3 DEF Unix!TypeOK, TypeOK
  <2>3. TypeOK'
    BY <1>3, <2>1, <2>2 DEF TypeOK
  <2>4. UnixInv' /\ PipeInv'
    <3>1. PipeInv' /\ Alive /\ Unix!TypeOK /\ UNCHANGED <<app, serve, serveErr>>
      BY <1>1, <1>3 DEF PipeInv, TypeOK, Alive
    <3>2. CASE BeginCloseUnix
      <4>1. closing' /\ closer' \in {"socket", "path"} /\ (closer' = "socket" <=> published)
        BY <3>1, <3>2 DEF Unix!TypeOK
      <4>2. ~closing /\ closer = "idle" /\ UNCHANGED <<listening, path>>
        BY <3>1, <3>2 DEF UnixInv, Unix!TypeOK
      <4>3. QED
        BY <3>1, <3>2, <4>1, <4>2 DEF UnixInv, Alive
    <3>3. CASE CloseSocketUnix
      BY <3>1, <3>3 DEF UnixInv, Unix!TypeOK, Alive
    <3>4. CASE EndCloseUnix
      <4>1. closer = "path" /\ closer' = "done" /\ path' = "nothing"
        BY <3>4
      <4>2. UNCHANGED <<listening, published, closing, platform, serve, serveErr, app>>
        BY <3>1, <3>4
      <4>3. /\ closing /\ closing' /\ closer' # "idle" /\ closer' # "socket"
            /\ serve \in {"accepting", "returned"} /\ ~serveErr => ~listening'
        BY <1>3, <3>1, <4>1, <4>2 DEF UnixInv
      <4>4. QED
        BY <3>1, <4>1, <4>2, <4>3 DEF UnixInv, Alive
    <3>5. QED
      BY <1>3, <3>1, <3>2, <3>3, <3>4
  <2>5. QED
    BY <1>1, <1>2, <1>3, <2>3, <2>4 DEF RunInv
<1>4. CASE BeginClosePipe \/ EndClosePipe
  <2>1. UNCHANGED <<app, signalled, platform, serve, serveErr, listening, published, path,
                    closer, conn>>
    BY <1>4 DEF BeginClosePipe, EndClosePipe, Pipe!BeginClose, Pipe!EndClose,
       Pipe!WakeServe, Pipe!DialExpires, unixVars
  <2>2. /\ platform = "windows" /\ closing' \in BOOLEAN
        /\ wake' \in {"none", "dialing", "connected", "gave up"}
    BY <1>4 DEF BeginClosePipe, EndClosePipe, Pipe!BeginClose, Pipe!EndClose,
       Pipe!WakeServe, Pipe!DialExpires, TypeOK, Pipe!TypeOK
  <2>3. TypeOK'
    BY <2>1, <2>2 DEF TypeOK, Pipe!TypeOK
  <2>4. QED
    BY <1>1, <1>2, <2>1, <2>2, <2>3 DEF UnixInv, PipeInv, RunInv, Alive
<1>5. QED
  BY <1>3, <1>4 DEF CloseTransport

-----------------------------------------------------------------------------
(* app.run and the connections.                                            *)

\* run returns after Serve has.
LEMMA ExitInv ==
  ASSUME OwnInv, Lifecycle!TypeOK', Life!Quiet => Life!Quiet', Exit, serve = "returned"
  PROVE  OwnInv'
<1> USE DEF OwnInv, Exit, unixVars
<1>1. conn' \in [Connection -> ConnState]
  BY DEF TypeOK, ConnState
<1>2. TypeOK'
  BY <1>1 DEF TypeOK, Unix!TypeOK, Pipe!TypeOK
<1>3. QED
  BY <1>2 DEF UnixInv, PipeInv, RunInv, Alive

LEMMA StopInv ==
  ASSUME OwnInv, Lifecycle!TypeOK', Life!Quiet => Life!Quiet', Stop
  PROVE  OwnInv'
<1> USE DEF OwnInv, Stop, listenerVars, unixVars
<1>1. TypeOK'
  BY DEF TypeOK, Unix!TypeOK, Pipe!TypeOK
<1>2. QED
  BY <1>1 DEF UnixInv, PipeInv, RunInv, Alive

LEMMA ConnectionInv ==
  ASSUME OwnInv, Lifecycle!TypeOK', Life!Quiet => Life!Quiet', NEW k \in Connection,
         Connect(k) \/ ReadFrame(k) \/ CallHandle(k) \/ WriteFrame(k)
  PROVE  OwnInv'
<1>1. conn' \in [Connection -> ConnState]
  BY DEF OwnInv, TypeOK, ConnState, Connect, Unix!Connect, Pipe!Connect, ReadFrame,
     CallHandle, WriteFrame, Move
<1>2. UNCHANGED <<app, signalled, listenerVars>>
  BY DEF Connect, ReadFrame, CallHandle, WriteFrame
<1>3. signalled' \in BOOLEAN
  BY <1>2 DEF OwnInv, TypeOK
<1>4. QED
  BY <1>1, <1>2, <1>3, ListenerKept

\* Every step keeps it.
LEMMA OwnStep == Life!IInv /\ Life!IInv' /\ OwnInv /\ [Next]_vars => OwnInv'
<1> SUFFICES ASSUME Life!IInv, Life!IInv', OwnInv, [Next]_vars PROVE OwnInv'
  OBVIOUS
<1>1. Lifecycle!TypeOK' /\ (Life!Quiet => Life!Quiet')
  <2>1. Life!IInv' => Lifecycle!TypeOK'
    BY LifeTypes, PTL
  <2>2. QED
    BY <2>1, LifeStep, QuietStays
<1>2. signalled \in BOOLEAN /\ conn \in [Connection -> ConnState]
  BY DEF OwnInv, TypeOK
<1>3. CASE UnixServe \/ PipeServe
  BY <1>1, <1>3, UnixServeInv, PipeServeInv
<1>4. CASE Signal
  BY <1>1, <1>2, <1>4, ListenerKept DEF Signal
<1>5. CASE Run
  <2>1. CASE ServeEnded \/ Join
    BY <1>1, <2>1, ExitInv DEF ServeEnded, Join
  <2>2. CASE ShutdownStep \/ ContextExpires
    BY <1>1, <1>2, <2>2, ListenerKept DEF ShutdownStep, ContextExpires
  <2>3. QED
    BY <1>1, <1>5, <2>1, <2>2, StopInv, CloseTransportInv DEF Run
<1>6. CASE \E k \in Connection : Connect(k) \/ ReadFrame(k) \/ CallHandle(k) \/ WriteFrame(k)
  BY <1>1, <1>6, ConnectionInv
<1>7. CASE UNCHANGED vars
  BY <1>1, <1>2, <1>7, ListenerKept DEF vars
<1>8. QED
  BY <1>3, <1>4, <1>5, <1>6, <1>7 DEF Next

-----------------------------------------------------------------------------
(* The theorems.                                                           *)

\* Every reachable state satisfies the runtime's invariant and that of its
\* listener.
THEOREM Invariance == Spec => [](Life!IInv /\ OwnInv)
BY OwnInit, OwnStep, LifeInvariance, PTL DEF Spec

\* The variables keep their types, on either platform.
THEOREM TypeCorrect == Spec => []TypeOK
<1>1. OwnInv => TypeOK
  BY DEF OwnInv
<1>2. QED
  BY <1>1, Invariance, PTL

\* Whichever of Serve and Close comes second, no socket, path or instance is left
\* when Serve has returned nil.
THEOREM NothingLeftListening == Spec => []NoSocketBehind
<1>1. OwnInv => NoSocketBehind
  BY DEF OwnInv, TypeOK, UnixInv, PipeInv, NoSocketBehind
<1>2. QED
  BY <1>1, Invariance, PTL

\* While a request is in flight the accept loop has something to accept from.
THEOREM ListensDuringDrain == Spec => []ListeningWhileDraining
<1>1. Life!IInv /\ OwnInv => ListeningWhileDraining
  <2> SUFFICES ASSUME OwnInv, NEW k \in Connection, request[k] = "handling",
                      serve = "accepting", Alive
               PROVE  listening
    BY DEF ListeningWhileDraining
  <2>1. ~closing
    BY DEF OwnInv, RunInv, Life!Quiet, Life!Handling
  <2>2. QED
    BY <2>1 DEF OwnInv, TypeOK, Unix!TypeOK, UnixInv, PipeInv
<1>2. QED
  BY <1>1, Invariance, PTL

\* A run that ends with a Shutdown that reported no error has finished all it
\* admitted and closed everything.
THEOREM ExitsClean == Spec => []CleanExit
<1>1. Life!IInv /\ OwnInv => CleanExit
  <2> SUFFICES ASSUME Life!IInv, OwnInv, app = "exited", caller["app"] = "returned",
                      "app" \notin failed
               PROVE  closed /\ open = {} /\ Lifecycle!Handling = {} /\ serve = "returned"
    BY DEF CleanExit
  <2>1. closed
    BY DEF Life!IInv, Life!CallerInv
  <2>2. open = {} /\ Life!Handling = {}
    BY <2>1 DEF Life!IInv, Life!ClosedInv, Life!Quiet
  <2>3. QED
    BY <2>1, <2>2 DEF OwnInv, RunInv, Life!Handling, Lifecycle!Handling
<1>2. QED
  BY <1>1, Invariance, PTL

-----------------------------------------------------------------------------
(* The process keeps the promise of one endpoint.                          *)

\* A request is in flight while its connection's goroutine is in Handle; an instance
\* of the pipe has at most one client; Shutdown is called once.
ConnInv ==
  /\ Alive => \A k \in Connection : request[k] = "handling" => conn[k] = "calling"
  /\ platform = "windows" =>
       \A j, k \in Connection : conn[j] = "queued" /\ conn[k] = "queued" => j = k
  /\ app = "stopping" => caller["app"] # "idle"

LEMMA ConnInit == Init => ConnInv
BY DEF Init, Unix!Init, Pipe!Init, Lifecycle!Init, ConnInv

\* The listeners hand over or drop only connections that are queued.
LEMMA ServeConn ==
  ASSUME OwnInv, ConnInv, UnixServe \/ PipeServe
  PROVE  ConnInv'
<1>1. UNCHANGED <<app, platform, closing, caller, request>>
  BY DEF UnixServe, PipeServe, Unix!Serve, Unix!GoOn, Unix!Listen, Unix!Publish,
     Unix!Accept, Unix!AcceptFails, Pipe!Serve, Pipe!GoOn, Pipe!CreateInstance,
     Pipe!CreateFails, Pipe!KeepInstance, Pipe!ConnectReturns, Pipe!ConnectFails,
     Pipe!HandOff, Pipe!Return, lifecycleVars
<1>2. \A k \in Connection : conn'[k] = conn[k] \/ (conn[k] = "queued" /\ conn'[k] # "queued")
  BY DEF UnixServe, PipeServe, Unix!Serve, Unix!GoOn, Unix!Listen, Unix!Publish,
     Unix!Accept, Unix!AcceptFails, Pipe!Serve, Pipe!GoOn, Pipe!CreateInstance,
     Pipe!CreateFails, Pipe!KeepInstance, Pipe!ConnectReturns, Pipe!ConnectFails,
     Pipe!HandOff, Pipe!Return, Unix!DropQueued, Pipe!DropQueued, OwnInv, TypeOK
<1>3. QED
  BY <1>1, <1>2 DEF ConnInv, Alive

LEMMA RunConn ==
  ASSUME OwnInv, ConnInv, Run
  PROVE  ConnInv'
<1> USE DEF OwnInv, TypeOK
<1>1. CASE ServeEnded \/ Join
  <2>1. ~Alive' /\ app' = "exited" /\ UNCHANGED <<platform, closing, caller>>
    BY <1>1 DEF ServeEnded, Join, Exit, Alive, lifecycleVars
  <2>2. \A k \in Connection : conn'[k] # "queued"
    BY <1>1 DEF ServeEnded, Join, Exit
  <2>3. QED
    BY <2>1, <2>2 DEF ConnInv
<1>2. CASE Stop \/ ShutdownStep \/ ContextExpires
  <2>1. UNCHANGED <<request, conn, platform, closing>> /\ (Alive <=> Alive')
    BY <1>2 DEF Stop, ShutdownStep, ContextExpires, listenerVars, Alive,
       Lifecycle!Shutdown, Lifecycle!BeginShutdown, Lifecycle!StopTransport,
       Lifecycle!RunShutdowners, Lifecycle!Drained, Lifecycle!NotDrained, Lifecycle!Tick,
       Lifecycle!DrainTimeout, Lifecycle!CloseDependency, Lifecycle!MarkClosed,
       Lifecycle!Expire, Lifecycle!requestVars
  <2>2. caller'["app"] # "idle"
    BY <1>2 DEF Stop, ShutdownStep, ContextExpires, ConnInv, Lifecycle!TypeOK,
       Lifecycle!Shutdown, Lifecycle!BeginShutdown, Lifecycle!StopTransport,
       Lifecycle!RunShutdowners, Lifecycle!Drained, Lifecycle!NotDrained, Lifecycle!Tick,
       Lifecycle!DrainTimeout, Lifecycle!CloseDependency, Lifecycle!MarkClosed,
       Lifecycle!Expire, Lifecycle!Goto, Lifecycle!AfterClosing, Lifecycle!Dependency
  <2>3. QED
    BY <2>1, <2>2 DEF ConnInv
<1>3. CASE BeginCloseUnix \/ CloseSocketUnix \/ EndCloseUnix
  <2> USE DEF BeginCloseUnix, CloseSocketUnix, EndCloseUnix
  <2>1. UNCHANGED <<request, app, platform>> /\ platform = "unix"
    BY <1>3 DEF lifecycleVars, Lifecycle!CloseDependency, Lifecycle!requestVars
  <2>2. caller'["app"] = "audit" \/ UNCHANGED caller
    BY <1>3 DEF lifecycleVars, Lifecycle!CloseDependency, Lifecycle!Goto,
       Lifecycle!AfterClosing, Lifecycle!TypeOK
  <2>3. \A k \in Connection : conn'[k] = conn[k] \/ conn[k] = "queued"
    BY <1>3 DEF Unix!BeginClose, Unix!CloseSocket, Unix!RemovePath, Unix!DropQueued
  <2>4. QED
    BY <1>3, <2>1, <2>2, <2>3 DEF ConnInv, Alive
<1>4. CASE BeginClosePipe \/ EndClosePipe
  <2>1. UNCHANGED <<app, request, conn, platform>> /\ platform = "windows"
    BY <1>4 DEF BeginClosePipe, EndClosePipe, Pipe!BeginClose, Pipe!EndClose,
       Pipe!WakeServe, Pipe!DialExpires, Lifecycle!CloseDependency, Lifecycle!requestVars,
       lifecycleVars
  <2>2. caller'["app"] # "idle"
    BY <1>4 DEF BeginClosePipe, EndClosePipe, Lifecycle!CloseDependency, Lifecycle!Goto,
       Lifecycle!AfterClosing, Lifecycle!TypeOK, lifecycleVars
  <2>3. QED
    BY <2>1, <2>2 DEF ConnInv, Alive
<1>5. QED
  BY <1>1, <1>2, <1>3, <1>4 DEF Run, CloseTransport

LEMMA ConnectionConn ==
  ASSUME OwnInv, ConnInv, NEW k \in Connection,
         Connect(k) \/ ReadFrame(k) \/ CallHandle(k) \/ WriteFrame(k)
  PROVE  ConnInv'
<1> USE DEF OwnInv, TypeOK
<1>1. UNCHANGED <<app, listenerVars>>
  BY DEF Connect, ReadFrame, CallHandle, WriteFrame
<1>2. UNCHANGED caller
  BY DEF Connect, ReadFrame, CallHandle, WriteFrame, lifecycleVars, Lifecycle!Handle,
     Lifecycle!RefuseStopping, Lifecycle!RefuseBusy, Lifecycle!Admit, Lifecycle!Release,
     Lifecycle!callerVars
<1>3. CASE Connect(k)
  <2>1. conn[k] = "none" /\ conn' = [conn EXCEPT ![k] = "queued"] /\ UNCHANGED request
    BY <1>3 DEF Connect, Unix!Connect, Pipe!Connect, lifecycleVars
  <2>2. platform = "windows" => \A j \in Connection : conn[j] # "queued"
    BY <1>3 DEF Connect, Pipe!Connect, Pipe!Free, Pipe!Opened
  <2>3. UNCHANGED <<app, platform, closing>>
    BY <1>1 DEF listenerVars
  <2>4. Alive' => \A j \in Connection : request'[j] = "handling" => conn'[j] = "calling"
    BY <2>1, <2>3 DEF ConnInv, Alive
  <2>5. platform' = "windows" =>
          \A i, j \in Connection : conn'[i] = "queued" /\ conn'[j] = "queued" => i = j
    BY <2>1, <2>2, <2>3
  <2>6. QED
    BY <1>2, <2>3, <2>4, <2>5 DEF ConnInv
<1>4. CASE ReadFrame(k) \/ WriteFrame(k)
  BY <1>1, <1>2, <1>4 DEF ReadFrame, WriteFrame, Move, lifecycleVars, listenerVars, ConnInv,
     Alive
<1>5. CASE CallHandle(k)
  <2>1. \A j \in Connection \ {k} : request'[j] = request[j] /\ conn'[j] = conn[j]
    BY <1>5 DEF CallHandle, Lifecycle!Handle, Lifecycle!RefuseStopping,
       Lifecycle!RefuseBusy, Lifecycle!Admit, Lifecycle!Release, Lifecycle!TypeOK, Move
  <2>2. /\ request'[k] = "handling" => conn'[k] = "calling"
        /\ conn'[k] # "queued"
    BY <1>5 DEF CallHandle, Move
  <2>3. QED
    BY <1>1, <1>2, <2>1, <2>2 DEF listenerVars, ConnInv, Alive
<1>6. QED
  BY <1>3, <1>4, <1>5

LEMMA ConnStep == OwnInv /\ ConnInv /\ [Next]_vars => ConnInv'
<1> SUFFICES ASSUME OwnInv, ConnInv, [Next]_vars PROVE ConnInv'
  OBVIOUS
<1>1. CASE Signal
  BY <1>1 DEF Signal, lifecycleVars, listenerVars, ConnInv, Alive
<1>2. CASE UNCHANGED vars
  BY <1>2 DEF vars, lifecycleVars, listenerVars, ConnInv, Alive
<1>3. QED
  BY <1>1, <1>2, ServeConn, RunConn, ConnectionConn DEF Next

-----------------------------------------------------------------------------
(* The steps, as the clients see them.                                     *)

\* The life of the process, seen from outside, does not change.
SameLife ==
  /\ UNCHANGED <<app, platform, closing, closer, shuttingDown>>
  /\ serve' = "returned" <=> serve = "returned"

\* A step that moves one connection, or its request.
LEMMA MovesOne ==
  ASSUME OwnInv, SameLife, Alive, NEW k \in Connection,
         \A j \in Connection \ {k} : conn'[j] = conn[j] /\ request'[j] = request[j]
  PROVE  /\ \A from, to : Seen[k] = from /\ Seen'[k] = to => Clients!Move(k, from, to)
         /\ Seen'[k] = Seen[k] => UNCHANGED Clients!vars
<1>1. Phase' = Phase /\ Phase # "over"
  BY DEF SameLife, Phase, EndpointClosed, Alive
<1>2. \A j \in Connection \ {k} : Seen'[j] = Seen[j]
  BY DEF Seen
<1>3. /\ Seen = [j \in Connection |-> Seen[j]]
      /\ Seen' = [j \in Connection |-> Seen'[j]]
  BY DEF Seen
<1>4. /\ Seen' = [Seen EXCEPT ![k] = Seen'[k]]
      /\ Seen'[k] = Seen[k] => Seen' = Seen
  BY <1>2, <1>3
<1>5. (serve # "returned")' = (serve # "returned")
  BY DEF SameLife
<1>6. QED
  BY <1>1, <1>3, <1>4, <1>5 DEF Clients!Move, Clients!vars

\* Connections that are dropped while they are queued.
LEMMA DropsQueued ==
  ASSUME OwnInv, UNCHANGED request,
         conn' = [k \in Connection |-> IF conn[k] = "queued" THEN "dropped" ELSE conn[k]]
  PROVE  Seen' = Clients!CloseAll({"queued"})
BY DEF Seen, Clients!CloseAll

\* Serve returns, with or without an error.
LEMMA ServeStops ==
  ASSUME OwnInv, Alive, serve # "returned", serve' = "returned",
         UNCHANGED <<app, platform, closing, closer, shuttingDown, request>>,
         \/ UNCHANGED conn
         \/ conn' = [k \in Connection |-> IF conn[k] = "queued" THEN "dropped" ELSE conn[k]]
  PROVE  Clients!StopServing
<1>1. Seen' \in {Seen, Clients!CloseAll({"queued"})}
  BY DropsQueued DEF Seen
<1>2. Phase' = Phase /\ Phase # "over"
  BY DEF Phase, EndpointClosed, Alive
<1>3. QED
  BY <1>1, <1>2 DEF Clients!StopServing

\* A connection is taken while the endpoint has not been closed.
LEMMA Takes ==
  ASSUME OwnInv, SameLife, Alive, ~EndpointClosed, serve # "returned", UNCHANGED request,
         NEW k \in Connection, conn[k] = "queued", conn'[k] = "reading",
         \A j \in Connection \ {k} : conn'[j] = conn[j]
  PROVE  Clients!Take(k)
<1>1. Seen[k] = "queued" /\ Seen'[k] = "taken"
  BY DEF Seen
<1>2. Clients!Move(k, "queued", "taken")
  BY <1>1, MovesOne
<1>3. Phase \in {"open", "draining"}
  BY DEF Phase
<1>4. QED
  BY <1>2, <1>3 DEF Clients!Take

LEMMA UnixServeSeen ==
  ASSUME OwnInv, UnixServe
  PROVE  [Clients!Next]_(Clients!vars)
<1> USE DEF Unix!Listen, Unix!Publish, Unix!AcceptFails, Unix!Accept
<1>1. /\ Alive /\ serve # "returned"
      /\ UNCHANGED <<app, platform, closing, closer, shuttingDown, request>>
  BY DEF UnixServe, lifecycleVars, Unix!Serve, Unix!GoOn
<1>2. CASE serve' = "returned"
  <2>1. \/ UNCHANGED conn
        \/ conn' = [k \in Connection |-> IF conn[k] = "queued" THEN "dropped" ELSE conn[k]]
    BY <1>2 DEF UnixServe, Unix!Serve, Unix!GoOn, Unix!DropQueued
  <2>2. QED
    BY <1>1, <1>2, <2>1, ServeStops DEF Clients!Next
<1>3. CASE serve' # "returned" /\ UNCHANGED conn
  BY <1>1, <1>3 DEF Clients!vars, Seen, Phase, EndpointClosed, Alive
<1>4. ASSUME NEW k \in Connection, Unix!Accept(k)
      PROVE  [Clients!Next]_(Clients!vars)
  <2>1. ~EndpointClosed
    BY <1>4 DEF OwnInv, TypeOK, UnixInv, UnixServe, EndpointClosed
  <2>2. SameLife
    BY <1>1, <1>4 DEF SameLife
  <2>3. conn'[k] = "reading" /\ \A j \in Connection \ {k} : conn'[j] = conn[j]
    BY <1>4 DEF OwnInv, TypeOK
  <2>4. Clients!Take(k)
    BY <1>1, <1>4, <2>1, <2>2, <2>3, Takes
  <2>5. QED
    BY <2>4 DEF Clients!Next
<1>5. QED
  BY <1>2, <1>3, <1>4 DEF UnixServe, Unix!Serve, Unix!GoOn

LEMMA PipeServeSeen ==
  ASSUME OwnInv, ConnInv, PipeServe
  PROVE  [Clients!Next]_(Clients!vars)
<1>1. /\ Alive /\ UNCHANGED <<app, platform, closer, shuttingDown, request>>
      /\ platform = "windows"
  BY DEF PipeServe, lifecycleVars, unixVars
<1>2. UNCHANGED closing /\ serve # "returned"
  BY DEF PipeServe, Pipe!Serve, Pipe!GoOn, Pipe!CreateInstance, Pipe!CreateFails,
     Pipe!KeepInstance, Pipe!ConnectReturns, Pipe!ConnectFails, Pipe!HandOff
<1>3. CASE Pipe!Return
  BY <1>1, <1>2, <1>3, ServeStops DEF Pipe!Return, Pipe!DropQueued, Clients!Next
<1>4. CASE serve' # "returned" /\ UNCHANGED conn
  BY <1>1, <1>2, <1>4 DEF Clients!vars, Seen, Phase, EndpointClosed, Alive
<1>5. CASE Pipe!HandOff /\ ~closing
  <2>1. serve' = "starting"
        /\ conn' = [k \in Connection |-> IF conn[k] = "queued" THEN "reading" ELSE conn[k]]
    BY <1>5 DEF Pipe!HandOff
  <2>2. CASE \A k \in Connection : conn[k] # "queued"
    <3>1. UNCHANGED conn
      BY <2>1, <2>2 DEF OwnInv, TypeOK
    <3>2. QED
      BY <1>4, <2>1, <3>1
  <2>3. ASSUME NEW k \in Connection, conn[k] = "queued"
        PROVE  [Clients!Next]_(Clients!vars)
    <3>1. conn'[k] = "reading" /\ \A j \in Connection \ {k} : conn'[j] = conn[j]
      BY <1>1, <2>1, <2>3 DEF ConnInv
    <3>2. SameLife
      BY <1>1, <1>2, <2>1 DEF SameLife
    <3>3. Clients!Take(k)
      BY <1>1, <1>2, <1>5, <2>3, <3>1, <3>2, Takes DEF EndpointClosed
    <3>4. QED
      BY <3>3 DEF Clients!Next
  <2>4. QED
    BY <2>2, <2>3
<1>6. QED
  BY <1>2, <1>3, <1>4, <1>5 DEF PipeServe, Pipe!Serve, Pipe!GoOn, Pipe!CreateInstance,
     Pipe!CreateFails, Pipe!KeepInstance, Pipe!ConnectReturns, Pipe!ConnectFails,
     Pipe!HandOff

\* The requests that run are the ones in flight.
LEMMA RunningIsHandling ==
  ASSUME OwnInv, ConnInv, Alive
  PROVE  Clients!In({"running"}) = Life!Handling
<1>1. \A k \in Connection : Seen[k] = "running" <=> request[k] = "handling"
  BY DEF OwnInv, TypeOK, ConnState, ConnInv, Seen
<1>2. QED
  BY <1>1 DEF Clients!In, Life!Handling

\* Handle admits a request if the endpoint is open and within its limit, or it does
\* not, and in the end the connection has an answer to write.
LEMMA CallHandleSeen ==
  ASSUME Life!IInv, OwnInv, ConnInv, NEW k \in Connection, CallHandle(k)
  PROVE  [Clients!Next]_(Clients!vars)
<1> USE DEF OwnInv, TypeOK
<1>1. Alive /\ conn[k] = "calling" /\ SameLife
  BY DEF CallHandle, SameLife, listenerVars, unixVars, Lifecycle!Handle, Lifecycle!RefuseStopping,
     Lifecycle!RefuseBusy, Lifecycle!Admit, Lifecycle!Release
<1>2. \A j \in Connection \ {k} : request'[j] = request[j] /\ conn'[j] = conn[j]
  BY DEF CallHandle, Lifecycle!Handle, Lifecycle!RefuseStopping, Lifecycle!RefuseBusy,
     Lifecycle!Admit, Lifecycle!Release, Lifecycle!TypeOK, Move
<1>3. CASE Lifecycle!Admit(k)
  <2>1. Seen[k] = "taken" /\ Seen'[k] = "running"
    BY <1>1, <1>3 DEF CallHandle, Lifecycle!Admit, Lifecycle!TypeOK, Move, Seen
  <2>2. Clients!Move(k, "taken", "running")
    BY <1>1, <1>2, <2>1, MovesOne
  <2>3. Phase = "open"
    BY <1>1, <1>3 DEF Lifecycle!Admit, Lifecycle!Stopping, Phase, EndpointClosed, UnixInv,
       RunInv, Life!Quiet
  <2>4. Cardinality(Clients!In({"running"})) < MaxConcurrent
    <3>1. Cardinality(Life!Handling) = inFlight
      BY DEF Life!IInv, Life!InFlightExact, Life!Cardinality, Cardinality
    <3>2. QED
      BY <1>1, <1>3, <3>1, RunningIsHandling DEF Lifecycle!Admit
  <2>5. Clients!Admit(k)
    BY <2>2, <2>3, <2>4 DEF Clients!Admit, Clients!Cardinality, Cardinality
  <2>6. QED
    BY <2>5 DEF Clients!Next
<1>4. CASE ~Lifecycle!Admit(k)
  <2>1. Seen[k] \in {"taken", "running"} /\ Seen'[k] = "answering"
    BY <1>1, <1>4 DEF CallHandle, Lifecycle!Handle, Lifecycle!RefuseStopping,
       Lifecycle!RefuseBusy, Lifecycle!Release, Lifecycle!TypeOK, Move, Seen
  <2>2. Clients!Answer(k)
    BY <1>1, <1>2, <2>1, MovesOne DEF Clients!Answer
  <2>3. QED
    BY <2>2 DEF Clients!Next
<1>5. QED
  BY <1>3, <1>4

\* The other steps of a connection.
LEMMA ConnectionSeen ==
  ASSUME OwnInv, ConnInv, NEW k \in Connection, Connect(k) \/ ReadFrame(k) \/ WriteFrame(k)
  PROVE  [Clients!Next]_(Clients!vars)
<1> USE DEF OwnInv, TypeOK
<1>1. Alive /\ SameLife /\ UNCHANGED request
  BY DEF Connect, ReadFrame, WriteFrame, SameLife, listenerVars, unixVars, lifecycleVars
<1>2. \A j \in Connection \ {k} : conn'[j] = conn[j]
  BY DEF Connect, Unix!Connect, Pipe!Connect, ReadFrame, WriteFrame, Move
<1>3. CASE Connect(k)
  <2>1. Seen[k] = "none" /\ Seen'[k] = "queued"
    BY <1>3 DEF Connect, Unix!Connect, Pipe!Connect, Seen
  <2>2. Clients!Connect(k)
    BY <1>1, <1>2, <2>1, MovesOne DEF Clients!Connect
  <2>3. QED
    BY <2>2 DEF Clients!Next
<1>4. CASE WriteFrame(k)
  <2>1. Seen[k] = "answering" /\ Seen'[k] \in {"answered", "closed"}
    BY <1>4 DEF WriteFrame, Move, Seen
  <2>2. Clients!Send(k)
    BY <1>1, <1>2, <2>1, MovesOne DEF Clients!Send
  <2>3. QED
    BY <2>2 DEF Clients!Next
<1>5. CASE ReadFrame(k)
  <2>1. request[k] # "handling"
    BY <1>1, <1>5 DEF ReadFrame, ConnInv
  <2>2. Seen[k] = "taken" /\ Seen'[k] \in {"taken", "answering", "closed"}
    BY <1>1, <1>5, <2>1 DEF ReadFrame, Move, Seen
  <2>3. CASE Seen'[k] = "taken"
    BY <1>1, <1>2, <2>2, <2>3, MovesOne
  <2>4. CASE Seen'[k] # "taken"
    <3>1. Clients!Answer(k) \/ Clients!HangUp(k)
      BY <1>1, <1>2, <2>2, <2>4, MovesOne DEF Clients!Answer, Clients!HangUp
    <3>2. QED
      BY <3>1 DEF Clients!Next
  <2>5. QED
    BY <2>3, <2>4
<1>6. QED
  BY <1>3, <1>4, <1>5

\* A step of Close leaves the endpoint as it is, or closes it: on Unix when it closes
\* the socket, or finds that Serve has not published it, on Windows with the flag.
LEMMA CloseSeen ==
  ASSUME Life!IInv, OwnInv, ConnInv, CloseTransport
  PROVE  [Clients!Next]_(Clients!vars)
<1> USE DEF OwnInv, TypeOK, CloseTransport, BeginCloseUnix, CloseSocketUnix, EndCloseUnix,
        BeginClosePipe, EndClosePipe, Unix!BeginClose, Unix!CloseSocket, Unix!RemovePath,
        Pipe!BeginClose, Pipe!EndClose, Pipe!WakeServe, Pipe!DialExpires
<1>1. /\ app = "stopping" /\ UNCHANGED <<app, platform, serve, request, shuttingDown>>
      /\ \/ UNCHANGED conn
         \/ conn' = [k \in Connection |-> IF conn[k] = "queued" THEN "dropped" ELSE conn[k]]
  BY DEF Unix!DropQueued, lifecycleVars, Lifecycle!CloseDependency, Lifecycle!requestVars
<1>2. CASE EndpointClosed' = EndpointClosed
  <2>1. UNCHANGED conn
    BY <1>2 DEF EndpointClosed
  <2>2. QED
    BY <1>1, <1>2, <2>1 DEF Clients!vars, Seen, Phase, Alive
<1>3. CASE EndpointClosed' # EndpointClosed
  <2>1. ~EndpointClosed /\ EndpointClosed'
    <3>1. EndpointClosed => EndpointClosed'
      <4>1. CASE BeginCloseUnix \/ CloseSocketUnix \/ EndCloseUnix
        BY <4>1 DEF EndpointClosed, UnixInv
      <4>2. CASE BeginClosePipe \/ EndClosePipe
        BY <4>2 DEF EndpointClosed
      <4>3. QED
        BY <4>1, <4>2
    <3>2. EndpointClosed \in BOOLEAN /\ EndpointClosed' \in BOOLEAN
      BY <1>1 DEF EndpointClosed, Pipe!TypeOK
    <3>3. QED
      BY <1>3, <3>1, <3>2
  <2>2. closing' /\ (closing \/ caller["app"] = "transport")
    BY <2>1 DEF EndpointClosed, UnixInv
  <2>3. shuttingDown /\ Life!Handling = {}
    BY <2>2 DEF RunInv, Life!Quiet, Life!IInv, Life!CallerInv, Life!PastDrain
  <2>4. Phase = "draining" /\ Phase' = "closed"
    BY <1>1, <2>1, <2>3 DEF Phase, Alive
  <2>5. Clients!In({"running"}) = {}
    BY <1>1, <2>3, RunningIsHandling DEF Alive
  <2>6. Seen' \in {Seen, Clients!CloseAll({"queued"})}
    BY <1>1, DropsQueued DEF Seen
  <2>7. Clients!Close
    BY <1>1, <2>4, <2>5, <2>6 DEF Clients!Close
  <2>8. QED
    BY <2>7 DEF Clients!Next
<1>4. QED
  BY <1>2, <1>3

\* app.run: the drain begins with Shutdown, the endpoint is closed when the runtime
\* is quiet, and what is left when run returns is dropped.
LEMMA RunSeen ==
  ASSUME Life!IInv, OwnInv, ConnInv, Run
  PROVE  [Clients!Next]_(Clients!vars)
<1> USE DEF OwnInv, TypeOK
<1>1. CASE ServeEnded \/ Join
  <2>1. /\ Alive /\ ~Alive' /\ serve = "returned" /\ UNCHANGED <<serve, request>>
        /\ conn' = [k \in Connection |->
                      IF conn[k] \in {"queued", "reading", "calling", "writing"}
                        THEN "dropped" ELSE conn[k]]
    BY <1>1 DEF ServeEnded, Join, Exit, Alive, lifecycleVars
  <2>2. Seen' = Clients!CloseAll({"queued", "taken", "running", "answering"})
    BY <2>1 DEF Seen, Clients!CloseAll, ConnState
  <2>3. Clients!Exit
    BY <2>1, <2>2 DEF Clients!Exit, Phase, Alive
  <2>4. QED
    BY <2>3 DEF Clients!Next
<1>2. CASE Stop
  <2>1. /\ Alive /\ UNCHANGED <<conn, request, serve, platform, closing, closer>> /\ Alive'
        /\ shuttingDown' \in BOOLEAN
    BY <1>2 DEF Stop, Alive, listenerVars, unixVars, Lifecycle!BeginShutdown, Lifecycle!requestVars,
       Lifecycle!TypeOK
  <2>2. shuttingDown => shuttingDown'
    BY <1>2 DEF Stop, Lifecycle!BeginShutdown
  <2>3. CASE shuttingDown' = shuttingDown
    BY <2>1, <2>3 DEF Clients!vars, Seen, Phase, EndpointClosed
  <2>4. CASE shuttingDown' # shuttingDown
    <3>1. ~shuttingDown /\ shuttingDown'
      BY <2>1, <2>2, <2>4 DEF Lifecycle!TypeOK
    <3>2. Phase = "open" /\ Phase' = "draining"
      BY <2>1, <3>1 DEF Phase, EndpointClosed, UnixInv, RunInv, Life!Quiet
    <3>3. UNCHANGED <<Seen, serve>>
      BY <2>1 DEF Seen
    <3>4. Clients!Drain
      BY <3>2, <3>3 DEF Clients!Drain
    <3>5. QED
      BY <3>4 DEF Clients!Next
  <2>5. QED
    BY <2>3, <2>4
<1>3. CASE ShutdownStep \/ ContextExpires
  <2>1. UNCHANGED <<app, conn, request, serve, platform, closing, closer>>
    BY <1>3 DEF ShutdownStep, ContextExpires, listenerVars, unixVars,
       Lifecycle!Shutdown, Lifecycle!BeginShutdown, Lifecycle!StopTransport,
       Lifecycle!RunShutdowners, Lifecycle!Drained, Lifecycle!NotDrained, Lifecycle!Tick,
       Lifecycle!DrainTimeout, Lifecycle!CloseDependency, Lifecycle!MarkClosed,
       Lifecycle!Expire, Lifecycle!requestVars
  <2>2. UNCHANGED shuttingDown
    BY <1>3 DEF ShutdownStep, ContextExpires, ConnInv,
       Lifecycle!Shutdown, Lifecycle!BeginShutdown, Lifecycle!StopTransport,
       Lifecycle!RunShutdowners, Lifecycle!Drained, Lifecycle!NotDrained, Lifecycle!Tick,
       Lifecycle!DrainTimeout, Lifecycle!CloseDependency, Lifecycle!MarkClosed,
       Lifecycle!Expire
  <2>3. QED
    BY <2>1, <2>2 DEF Clients!vars, Seen, Phase, EndpointClosed, Alive
<1>4. CASE CloseTransport
  BY <1>4, CloseSeen
<1>5. QED
  BY <1>1, <1>2, <1>3, <1>4 DEF Run

LEMMA InitSeen == Init => Clients!Init
BY DEF Init, Unix!Init, Pipe!Init, Lifecycle!Init, Clients!Init, Seen, Phase,
   EndpointClosed, Alive

LEMMA StepSeen ==
  Life!IInv /\ OwnInv /\ ConnInv /\ [Next]_vars => [Clients!Next]_(Clients!vars)
<1> SUFFICES ASSUME Life!IInv, OwnInv, ConnInv, [Next]_vars
             PROVE  [Clients!Next]_(Clients!vars)
  OBVIOUS
<1>1. CASE Signal \/ UNCHANGED vars
  BY <1>1 DEF Signal, vars, lifecycleVars, listenerVars, unixVars, Clients!vars, Seen, Phase,
     EndpointClosed, Alive
<1>2. QED
  BY <1>1, UnixServeSeen, PipeServeSeen, RunSeen, ConnectionSeen, CallHandleSeen DEF Next

\* For any number of clients and on both platforms, the process is one endpoint:
\* it takes connections until it is closed, closes when it runs no request, and takes
\* none afterwards, also when Serve accepts while Close is on its way to the socket.
THEOREM OneEndpoint == Spec => ImplementsEndpoint
<1>1. Spec => []ConnInv
  BY ConnInit, ConnStep, Invariance, PTL DEF Spec
<1>2. QED
  BY <1>1, InitSeen, StepSeen, Invariance, PTL DEF Spec, ImplementsEndpoint, Clients!Spec

=============================================================================
