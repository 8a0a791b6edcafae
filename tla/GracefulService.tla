--------------------------- MODULE GracefulService ---------------------------
(***************************************************************************)
(* What the runtime promises its callers and its sinks, with no counter,   *)
(* no lock and no shutdown procedure: operations run, at most Limit at a   *)
(* time, until the service stops; from then on none starts, and the        *)
(* resources they write to are released only when none is left.            *)
(***************************************************************************)
EXTENDS Naturals, FiniteSets

CONSTANTS
  Operation,   \* the operations that may be asked of the service
  Limit        \* how many of them may run at once

VARIABLES
  phase,       \* "open", then "draining", then "released"
  running      \* the operations now running

vars == <<phase, running>>

TypeOK ==
  /\ phase \in {"open", "draining", "released"}
  /\ running \in SUBSET Operation

Init ==
  /\ phase = "open"
  /\ running = {}

Start(o) ==
  /\ phase = "open"
  /\ Cardinality(running) < Limit
  /\ running' = running \union {o}
  /\ UNCHANGED phase

Finish(o) ==
  /\ running' = running \ {o}
  /\ UNCHANGED phase

Stop ==
  /\ phase = "open"
  /\ phase' = "draining"
  /\ UNCHANGED running

Release ==
  /\ phase = "draining"
  /\ running = {}
  /\ phase' = "released"
  /\ UNCHANGED running

Next ==
  \/ \E o \in Operation : Start(o) \/ Finish(o)
  \/ Stop
  \/ Release

Spec == Init /\ [][Next]_vars

=============================================================================
