------------------------------- MODULE Endpoint -------------------------------
(***************************************************************************)
(* What a process promises the clients that connect to its endpoint, on    *)
(* any platform: no listener, lock or procedure of shutdown, only the      *)
(* connections and the life of the process.  Connections are taken until   *)
(* the endpoint is closed, also while it drains, and those taken are       *)
(* answered or closed.  It is closed only when it runs no request, and     *)
(* that is a barrier: afterwards no connection is taken.                   *)
(***************************************************************************)
EXTENDS Naturals, FiniteSets

CONSTANTS
  Connection,   \* the connections clients make, with one request each
  Limit         \* how many requests may run at once

VARIABLES
  phase,        \* "open", then "draining", then "closed"; "over" when the process is
  serving,      \* does the process take connections, or wait for them?
  conn          \* where each connection is

vars == <<phase, serving, conn>>

TypeOK ==
  /\ phase \in {"open", "draining", "closed", "over"}
  /\ serving \in BOOLEAN
  /\ conn \in [Connection -> {"none", "queued", "taken", "running", "answering",
                              "answered", "closed"}]

Init ==
  /\ phase = "open"
  /\ serving = TRUE
  /\ conn = [k \in Connection |-> "none"]

In(states) == {k \in Connection : conn[k] \in states}

Move(k, from, to) ==
  /\ phase # "over"
  /\ conn[k] = from
  /\ conn' = [conn EXCEPT ![k] = to]
  /\ UNCHANGED <<phase, serving>>

Connect(k) == Move(k, "none", "queued")

Take(k) ==
  /\ serving
  /\ phase \in {"open", "draining"}
  /\ Move(k, "queued", "taken")

Admit(k) ==
  /\ phase = "open"
  /\ Cardinality(In({"running"})) < Limit
  /\ Move(k, "taken", "running")

\* Not every answer is that of a request that ran.
Answer(k) == \E from \in {"taken", "running"} : Move(k, from, "answering")

HangUp(k) == Move(k, "taken", "closed")

Send(k) == \E to \in {"answered", "closed"} : Move(k, "answering", to)

CloseAll(states) == [k \in Connection |-> IF conn[k] \in states THEN "closed" ELSE conn[k]]

Drain ==
  /\ phase = "open"
  /\ phase' = "draining"
  /\ UNCHANGED <<serving, conn>>

Close ==
  /\ phase = "draining"
  /\ In({"running"}) = {}
  /\ phase' = "closed"
  /\ conn' \in {conn, CloseAll({"queued"})}
  /\ UNCHANGED serving

\* The endpoint has been closed, or has failed.
StopServing ==
  /\ phase # "over"
  /\ serving
  /\ serving' = FALSE
  /\ conn' \in {conn, CloseAll({"queued"})}
  /\ UNCHANGED phase

Exit ==
  /\ phase # "over"
  /\ ~serving
  /\ phase' = "over"
  /\ conn' = CloseAll({"queued", "taken", "running", "answering"})
  /\ UNCHANGED serving

Next ==
  \/ \E k \in Connection :
       Connect(k) \/ Take(k) \/ Admit(k) \/ Answer(k) \/ HangUp(k) \/ Send(k)
  \/ Drain
  \/ Close
  \/ StopServing
  \/ Exit

Spec == Init /\ [][Next]_vars

=============================================================================
