------------------------------ MODULE NucleusApp ------------------------------
(***************************************************************************)
(* The composed process: app.run of cmd/nucleusd, the listener of the      *)
(* platform it was built for, one handleConnection goroutine per           *)
(* connection, and the runtime of RuntimeLifecycle, whose only caller of   *)
(* Shutdown is app.run.  When run returns, main returns and every          *)
(* goroutine dies where it is.                                             *)
(***************************************************************************)
EXTENDS Naturals, FiniteSets

CONSTANTS
  Connection,     \* the connections clients make, with one request each
  MaxConcurrent   \* the runtime's admission limit

ASSUME AppAssumption == IsFiniteSet(Connection) /\ MaxConcurrent \in Nat \ {0}

VARIABLES
  graceful, shuttingDown, closed, inFlight, request, caller, expired, failed,
  open,           \* the variables of RuntimeLifecycle
  app,            \* where app.run is
  signalled,      \* SIGINT or SIGTERM has arrived
  platform,       \* which listener the build has
  serve, serveErr, listening, closing,  \* what the listeners have in common
  published, path, closer,  \* UnixListener's own variables
  wake,           \* PipeListener's own variable
  conn            \* where each connection is

Lifecycle == INSTANCE RuntimeLifecycle WITH
  Request <- Connection, Caller <- {"app"}, Timed <- {"app"}
Unix == INSTANCE UnixListener
Pipe == INSTANCE PipeListener

lifecycleVars == <<graceful, shuttingDown, closed, inFlight, request, caller,
                   expired, failed, open>>
unixVars == <<published, path, closer>>
listenerVars == <<platform, serve, serveErr, listening, closing, unixVars, wake>>
vars == <<lifecycleVars, app, signalled, listenerVars, conn>>

ConnState == {"none", "queued", "reading", "calling", "writing", "replied", "unsent",
              "dropped"}

TypeOK ==
  /\ Lifecycle!TypeOK
  /\ app \in {"serving", "stopping", "exited"}
  /\ signalled \in BOOLEAN
  /\ \/ platform = "unix" /\ Unix!TypeOK /\ wake = "none"
     \/ /\ platform = "windows" /\ Pipe!TypeOK
        /\ ~published /\ path = "nothing" /\ closer = "idle"
  /\ conn \in [Connection -> ConnState]

Init ==
  /\ Lifecycle!Init
  /\ graceful
  /\ app = "serving"
  /\ signalled = FALSE
  /\ \/ platform = "unix" /\ Unix!Init /\ wake = "none"
     \/ /\ platform = "windows" /\ Pipe!Init
        /\ published = FALSE /\ path = "nothing" /\ closer = "idle"

Move(k, state) == conn' = [conn EXCEPT ![k] = state]

Alive == app # "exited"

-----------------------------------------------------------------------------
(* The goroutine that runs Serve.                                          *)

UnixServe ==
  /\ Alive
  /\ platform = "unix"
  /\ Unix!Serve
  /\ UNCHANGED <<lifecycleVars, app, signalled, platform, wake>>

PipeServe ==
  /\ Alive
  /\ platform = "windows"
  /\ Pipe!Serve
  /\ UNCHANGED <<lifecycleVars, app, signalled, platform, unixVars>>

-----------------------------------------------------------------------------
(* A client, and handleConnection on the server's side.                    *)

Connect(k) ==
  /\ Alive
  /\ \/ platform = "unix" /\ Unix!Connect(k)
     \/ platform = "windows" /\ Pipe!Connect(k)
  /\ UNCHANGED <<lifecycleVars, app, signalled, listenerVars>>

\* readFrame fails (the connection is closed with no answer), or DecodeRequest
\* does (it is answered at once), or the request goes to Handle.
ReadFrame(k) ==
  /\ Alive
  /\ conn[k] = "reading"
  /\ \E state \in {"dropped", "writing", "calling"} : Move(k, state)
  /\ UNCHANGED <<lifecycleVars, app, signalled, listenerVars>>

\* Handle admits or refuses the request, and in the end returns a response.
CallHandle(k) ==
  /\ Alive
  /\ conn[k] = "calling"
  /\ Lifecycle!Handle(k)
  /\ Move(k, IF request'[k] = "handling" THEN "calling" ELSE "writing")
  /\ UNCHANGED <<app, signalled, listenerVars>>

\* An answer that is too long for a frame, or whose client has gone, is not sent,
\* and nobody is told.
WriteFrame(k) ==
  /\ Alive
  /\ conn[k] = "writing"
  /\ \E state \in {"replied", "unsent"} : Move(k, state)
  /\ UNCHANGED <<lifecycleVars, app, signalled, listenerVars>>

-----------------------------------------------------------------------------
(* app.run.                                                                *)

Signal ==
  /\ Alive
  /\ ~signalled
  /\ signalled' = TRUE
  /\ UNCHANGED <<lifecycleVars, app, listenerVars, conn>>

\* run returns: what the other goroutines had in hand is lost.
Exit ==
  /\ app' = "exited"
  /\ listening' = FALSE
  /\ conn' = [k \in Connection |->
                IF conn[k] \in {"queued", "reading", "calling", "writing"}
                  THEN "dropped" ELSE conn[k]]
  /\ UNCHANGED <<lifecycleVars, signalled, platform, serve, serveErr, closing,
                 unixVars, wake>>

ServeEnded_NotSelected == FALSE

\* The select takes serveErrCh: run returns, and nothing is shut down.
ServeEnded ==
  /\ app = "serving"
  /\ serve = "returned"
  /\ Exit

\* The select takes ctx.Done: Shutdown is called with five seconds to go.
Stop ==
  /\ app = "serving"
  /\ signalled
  /\ Lifecycle!BeginShutdown("app")
  /\ app' = "stopping"
  /\ UNCHANGED <<signalled, listenerVars, conn>>

\* Any step of Shutdown but the one that closes the transport.
ShutdownStep ==
  /\ app = "stopping"
  /\ caller["app"] # "transport"
  /\ Lifecycle!Shutdown("app")
  /\ UNCHANGED <<app, signalled, listenerVars, conn>>

ContextExpires ==
  /\ app = "stopping"
  /\ Lifecycle!Expire("app")
  /\ UNCHANGED <<app, signalled, listenerVars, conn>>

\* Close of the Unix listener is three steps, of which one holds the lock.
BeginCloseUnix ==
  /\ app = "stopping"
  /\ platform = "unix"
  /\ caller["app"] = "transport"
  /\ Unix!BeginClose
  /\ UNCHANGED <<lifecycleVars, app, signalled, platform, wake>>

CloseSocketUnix ==
  /\ app = "stopping"
  /\ platform = "unix"
  /\ Unix!CloseSocket
  /\ UNCHANGED <<lifecycleVars, app, signalled, platform, wake>>

EndCloseUnix ==
  /\ app = "stopping"
  /\ platform = "unix"
  /\ Lifecycle!CloseDependency("app", "transport")
  /\ Unix!RemovePath
  /\ UNCHANGED <<app, signalled, platform, wake>>

\* Close of the pipe is two steps: the flag, then the connection that wakes Serve.
BeginClosePipe ==
  /\ app = "stopping"
  /\ platform = "windows"
  /\ caller["app"] = "transport"
  /\ Pipe!BeginClose
  /\ UNCHANGED <<lifecycleVars, app, signalled, platform, unixVars>>

EndClosePipe ==
  /\ app = "stopping"
  /\ platform = "windows"
  /\ Lifecycle!CloseDependency("app", "transport")
  /\ Pipe!EndClose
  /\ UNCHANGED <<app, signalled, platform, unixVars>>

CloseTransport ==
  \/ BeginCloseUnix \/ CloseSocketUnix \/ EndCloseUnix
  \/ BeginClosePipe \/ EndClosePipe

Join_NoWait ==
  /\ app = "stopping"
  /\ caller["app"] = "returned"
  /\ Exit

\* run waits for Serve to return before it does.
Join ==
  /\ app = "stopping"
  /\ caller["app"] = "returned"
  /\ serve = "returned"
  /\ Exit

-----------------------------------------------------------------------------
Run ==
  \/ ServeEnded
  \/ Stop
  \/ ShutdownStep
  \/ ContextExpires
  \/ CloseTransport
  \/ Join

Next ==
  \/ UnixServe
  \/ PipeServe
  \/ Signal
  \/ Run
  \/ \E k \in Connection : Connect(k) \/ ReadFrame(k) \/ CallHandle(k) \/ WriteFrame(k)

Spec == Init /\ [][Next]_vars

\* The server's own goroutines that can move do: Serve, run and its Shutdown, whose
\* select does not pass over an expired context for ever, and a listener whose socket
\* is closed notices.  Nothing makes a handler return, for the executor waits for its
\* tool beyond the deadline, a client send its request, for it is read with no
\* deadline, a signal arrive, a client connect, or Accept fail on an open socket.
FairSpec ==
  /\ Spec
  /\ WF_vars(UnixServe /\ Unix!GoOn)
  /\ WF_vars(PipeServe /\ Pipe!GoOn)
  /\ WF_vars(ServeEnded)
  /\ WF_vars(Stop)
  /\ WF_vars(ShutdownStep)
  /\ SF_vars(ShutdownStep /\ Lifecycle!DrainTimeout("app"))
  /\ WF_vars(ContextExpires)
  /\ WF_vars(CloseTransport)
  /\ WF_vars(Join)

-----------------------------------------------------------------------------
(* Properties.                                                             *)

\* A Serve that returned nil leaves nothing behind, whichever of Serve and Close
\* came second, unless Close is about to close the socket it took from Serve: no
\* socket that listens, no path that names it, no instance of the pipe that a client
\* could open and wait on.
NoSocketBehind ==
  serve = "returned" /\ ~serveErr /\ closer # "socket" => ~listening /\ path # "socket"

\* While a request is in flight the accept loop has a socket, or an instance of
\* the pipe, to accept from, so that callers who come during the drain are answered.
ListeningWhileDraining ==
  (\E k \in Connection : request[k] = "handling") /\ serve = "accepting" /\ Alive
    => listening

\* A run that ends with a Shutdown that reported no error has finished every
\* request it admitted, closed every dependency and seen Serve return.
CleanExit ==
  app = "exited" /\ caller["app"] = "returned" /\ "app" \notin failed =>
    /\ closed
    /\ open = {}
    /\ Lifecycle!Handling = {}
    /\ serve = "returned"

GaveUp == caller["app"] = "returned" /\ ~closed

\* If the drain does not time out, a signal ends the process, whatever Serve was
\* doing when it arrived: blocked in ConnectNamedPipe, or between two instances.
SignalEndsRun == []~GaveUp => (signalled ~> app = "exited")

\* No client waits for ever to be taken, whatever the handlers and the other clients
\* do: it is taken, or cut off when the listener or the process ends.  So a Serve that
\* fails ends the process, at once or after a Shutdown that may wait for handlers.
QueuedAreTaken == \A k \in Connection : conn[k] = "queued" ~> conn[k] # "queued"

-----------------------------------------------------------------------------
(* What the clients see, on either platform.                               *)

\* The socket has been closed, or will never be used; the flag that Serve reads before
\* it hands over the client of an instance is set.
EndpointClosed ==
  \/ platform = "unix" /\ closer \in {"path", "done"}
  \/ platform = "windows" /\ closing

Phase ==
  IF ~Alive THEN "over"
  ELSE IF EndpointClosed THEN "closed"
  ELSE IF shuttingDown THEN "draining"
  ELSE "open"

Seen ==
  [k \in Connection |->
    IF conn[k] = "calling" /\ request[k] = "handling" THEN "running"
    ELSE IF conn[k] \in {"reading", "calling"} THEN "taken"
    ELSE IF conn[k] = "writing" THEN "answering"
    ELSE IF conn[k] = "replied" THEN "answered"
    ELSE IF conn[k] \in {"unsent", "dropped"} THEN "closed"
    ELSE conn[k]]

Clients == INSTANCE Endpoint WITH
  Limit <- MaxConcurrent,
  phase <- Phase,
  serving <- serve # "returned",
  conn <- Seen

\* Both listeners, with the runtime and run, keep the promise of one endpoint: they
\* take connections while requests are drained, close when none runs, and take none
\* once they are closed, however Close meets Serve.
ImplementsEndpoint == Clients!Spec

-----------------------------------------------------------------------------
(* Documented behaviour that the code does not have.                       *)

\* docs/ARCHITECTURE.md:319: the runtime exits cleanly when explicitly
\* requested.  After a drain that timed out, app.run waits for a Serve that
\* nothing will end.
ExitsWhenRequested == signalled ~> app = "exited"

\* docs/SECURITY_MODEL.md:284: shutdown conditions are surfaced through
\* structured RPC errors rather than silent drops.  A request that Handle refused
\* is not counted in flight, so the process may exit before its answer is sent,
\* even where Serve and Shutdown both return nil.
RefusedAreTold ==
  \A k \in Connection :
    request[k] = "refused" /\ conn[k] = "dropped" => serveErr \/ "app" \in failed

=============================================================================
