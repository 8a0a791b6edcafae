---------------------------- MODULE PipeListener ----------------------------
(***************************************************************************)
(* The listener of transport/listener_windows.go.  Serve creates one       *)
(* instance of the named pipe after the other and blocks until a client    *)
(* opens it.  Nothing can interrupt that wait: Close sets a flag and then  *)
(* connects to the pipe itself, so that Serve wakes up and sees the flag.  *)
(***************************************************************************)
EXTENDS Naturals

CONSTANT Connection   \* the connections clients make

VARIABLES
  serve,       \* where Serve is
  serveErr,    \* did it return an error?
  listening,   \* does Serve hold an instance of the pipe?
  closing,     \* namedPipeListener.closing
  wake,        \* where Close's own connection is
  conn         \* where each connection is

vars == <<serve, serveErr, listening, closing, wake, conn>>

TypeOK ==
  /\ serve \in {"starting", "bound", "accepting", "connected", "returned"}
  /\ {serveErr, listening, closing} \subseteq BOOLEAN
  /\ wake \in {"none", "dialing", "connected", "gave up"}

Init ==
  /\ serve = "starting"
  /\ serveErr = FALSE
  /\ listening = FALSE
  /\ closing = FALSE
  /\ wake = "none"
  /\ conn = [k \in Connection |-> "none"]

\* An instance serves one client.
Opened == wake = "connected" \/ \E k \in Connection : conn[k] = "queued"
Free == listening /\ ~Opened

DropQueued == [k \in Connection |-> IF conn[k] = "queued" THEN "dropped" ELSE conn[k]]

-----------------------------------------------------------------------------
(* Serve.                                                                  *)

\* The instance is closed and Serve returns, with nil if it is closing.
Return ==
  /\ serve' = "returned"
  /\ serveErr' = ~closing
  /\ listening' = FALSE
  /\ conn' = DropQueued

\* CreateNamedPipe, outside the lock.  Clients can open the instance at once.
CreateInstance ==
  /\ serve = "starting"
  /\ serve' = "bound"
  /\ listening' = TRUE
  /\ UNCHANGED <<serveErr, closing, wake, conn>>

\* The first instance must be the first of its name on the machine, and any may
\* fail for want of resources.
CreateFails ==
  /\ serve = "starting"
  /\ Return
  /\ UNCHANGED <<closing, wake>>

KeepInstance_Unchecked ==
  /\ serve = "bound"
  /\ serve' = "accepting"
  /\ UNCHANGED <<serveErr, listening, closing, wake, conn>>

\* The rest of createPipeInstance, under the lock.
KeepInstance ==
  /\ serve = "bound"
  /\ IF closing
       THEN Return
       ELSE serve' = "accepting" /\ UNCHANGED <<serveErr, listening, conn>>
  /\ UNCHANGED <<closing, wake>>

\* ConnectNamedPipe returns when the instance has been opened.
ConnectReturns ==
  /\ serve = "accepting"
  /\ Opened
  /\ serve' = "connected"
  /\ UNCHANGED <<serveErr, listening, closing, wake, conn>>

\* It fails, for instance, when the client that opened the instance has gone.
ConnectFails ==
  /\ serve = "accepting"
  /\ Return
  /\ UNCHANGED <<closing, wake>>

HandOff_Unchecked ==
  /\ serve = "connected"
  /\ serve' = "starting"
  /\ listening' = FALSE
  /\ conn' = [k \in Connection |-> IF conn[k] = "queued" THEN "reading" ELSE conn[k]]
  /\ UNCHANGED <<serveErr, closing, wake>>

\* Serve starts handleConnection and goes round its loop, or finds that it has
\* been closed.
HandOff ==
  /\ serve = "connected"
  /\ IF closing
       THEN Return
       ELSE /\ serve' = "starting"
            /\ listening' = FALSE
            /\ conn' = [k \in Connection |->
                          IF conn[k] = "queued" THEN "reading" ELSE conn[k]]
            /\ UNCHANGED serveErr
  /\ UNCHANGED <<closing, wake>>

GoOn ==
  \/ CreateInstance
  \/ KeepInstance
  \/ ConnectReturns
  \/ HandOff

Serve == GoOn \/ CreateFails \/ ConnectFails

-----------------------------------------------------------------------------
(* Clients and Close.                                                      *)

Connect(k) ==
  /\ Free
  /\ conn[k] = "none"
  /\ conn' = [conn EXCEPT ![k] = "queued"]
  /\ UNCHANGED <<serve, serveErr, listening, closing, wake>>

BeginClose ==
  /\ ~closing
  /\ closing' = TRUE
  /\ wake' = "dialing"
  /\ UNCHANGED <<serve, serveErr, listening, conn>>

\* Close opens the instance Serve holds, and lets go of it.
WakeServe ==
  /\ wake = "dialing"
  /\ Free
  /\ wake' = "connected"
  /\ UNCHANGED <<serve, serveErr, listening, closing, conn>>

\* No instance can be opened, and goes on being so for the 250 ms of the dial.
\* (One that stays free is found by the first attempt.)
DialExpires ==
  /\ wake = "dialing"
  /\ ~Free
  /\ wake' = "gave up"
  /\ UNCHANGED <<serve, serveErr, listening, closing, conn>>

EndClose == WakeServe \/ DialExpires

=============================================================================
