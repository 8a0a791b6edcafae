---------------------------- MODULE UnixListener ----------------------------
(***************************************************************************)
(* The listener of transport/listener_unix.go: the goroutine that runs     *)
(* Serve, and Close, which meet on the mutex and on the socket's path.     *)
(***************************************************************************)
EXTENDS Naturals

CONSTANT Connection   \* the connections clients make

VARIABLES
  serve,       \* where Serve is
  serveErr,    \* did it return an error?
  listening,   \* is the socket listening?
  published,   \* unixListener.listener is set
  closing,     \* unixListener.closing
  path,        \* what the endpoint's path names
  closer,      \* where Close is: what it has left to do
  conn         \* where each connection is

vars == <<serve, serveErr, listening, published, closing, path, closer, conn>>

TypeOK ==
  /\ serve \in {"starting", "bound", "accepting", "returned"}
  /\ {serveErr, listening, published, closing} \subseteq BOOLEAN
  /\ path \in {"nothing", "file", "stale socket", "socket"}
  /\ closer \in {"idle", "socket", "path", "done"}

\* A process that did not exit cleanly leaves its socket's path behind; the
\* configured path may also be that of some other file.
Init ==
  /\ serve = "starting"
  /\ serveErr = FALSE
  /\ listening = FALSE
  /\ published = FALSE
  /\ closing = FALSE
  /\ path \in {"nothing", "file", "stale socket"}
  /\ closer = "idle"
  /\ conn = [k \in Connection |-> "none"]

\* prepareUnixSocketPath, net.Listen and os.Chmod, any of which may fail.  Only a
\* socket is removed from the path, and it is whether or not anyone listens on it.
Listen ==
  /\ serve = "starting"
  /\ \/ /\ path # "file"
        /\ serve' = "bound"
        /\ listening' = TRUE
        /\ path' = "socket"
        /\ UNCHANGED serveErr
     \/ /\ serve' = "returned"
        /\ serveErr' = TRUE
        /\ path' \in IF path = "file" THEN {"file"} ELSE {path, "nothing"}
        /\ UNCHANGED listening
  /\ UNCHANGED <<published, closing, closer, conn>>

\* The clients still waiting in the backlog when the socket is closed.
DropQueued == [k \in Connection |-> IF conn[k] = "queued" THEN "dropped" ELSE conn[k]]

Publish_LeavesSocket ==
  /\ serve = "bound"
  /\ IF closing
       THEN serve' = "returned" /\ UNCHANGED published
       ELSE serve' = "accepting" /\ published' = TRUE
  /\ UNCHANGED <<serveErr, listening, closing, path, closer, conn>>

\* The critical section that hands the socket over to Close, or finds that Close
\* has come first: then nobody else will use the socket, and Serve closes it.
Publish ==
  /\ serve = "bound"
  /\ IF closing
       THEN /\ serve' = "returned"
            /\ listening' = FALSE
            /\ path' = "nothing"
            /\ conn' = DropQueued
            /\ UNCHANGED published
       ELSE /\ serve' = "accepting"
            /\ published' = TRUE
            /\ UNCHANGED <<listening, path, conn>>
  /\ UNCHANGED <<serveErr, closing, closer>>

Accept(k) ==
  /\ serve = "accepting"
  /\ listening
  /\ conn[k] = "queued"
  /\ conn' = [conn EXCEPT ![k] = "reading"]
  /\ UNCHANGED <<serve, serveErr, listening, published, closing, path, closer>>

\* Accept fails for good once the socket is closed, and may fail before that.  The
\* flag says whether that is an error, also while Close has not closed the socket yet.
AcceptFails ==
  /\ serve = "accepting"
  /\ serve' = "returned"
  /\ serveErr' = ~closing
  /\ UNCHANGED <<listening, published, closing, path, closer, conn>>

Connect(k) ==
  /\ listening
  /\ conn[k] = "none"
  /\ conn' = [conn EXCEPT ![k] = "queued"]
  /\ UNCHANGED <<serve, serveErr, listening, published, closing, path, closer>>

-----------------------------------------------------------------------------
(* Close.                                                                  *)

BeginClose_Unmarked ==
  /\ ~closing
  /\ published' = FALSE
  /\ closer' = IF published THEN "socket" ELSE "path"
  /\ UNCHANGED <<serve, serveErr, listening, closing, path, conn>>

\* The critical section: Close takes the socket, if Serve has published it.
BeginClose ==
  /\ ~closing
  /\ closing' = TRUE
  /\ published' = FALSE
  /\ closer' = IF published THEN "socket" ELSE "path"
  /\ UNCHANGED <<serve, serveErr, listening, path, conn>>

\* Outside the lock, while Serve goes on accepting.  The socket removes its own path.
CloseSocket ==
  /\ closer = "socket"
  /\ closer' = "path"
  /\ listening' = FALSE
  /\ path' = "nothing"
  /\ conn' = DropQueued
  /\ UNCHANGED <<serve, serveErr, published, closing>>

\* Close removes whatever the path names.
RemovePath ==
  /\ closer = "path"
  /\ closer' = "done"
  /\ path' = "nothing"
  /\ UNCHANGED <<serve, serveErr, listening, published, closing, conn>>

-----------------------------------------------------------------------------
\* What Serve does when nothing goes wrong with an open socket.
GoOn ==
  \/ Listen
  \/ Publish
  \/ ~listening /\ AcceptFails
  \/ \E k \in Connection : Accept(k)

Serve == GoOn \/ AcceptFails

=============================================================================
