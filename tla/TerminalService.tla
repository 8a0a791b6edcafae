--------------------------- MODULE TerminalService ---------------------------
(***************************************************************************)
(* internal/tools/terminal/service.go: terminal sessions, the commands     *)
(* that run in them, and the two ways to stop them, terminal.end_session   *)
(* and the service's Shutdown.  Every call runs on its own goroutine.  A   *)
(* step is one critical section of Service.mu, one call of a cancel        *)
(* function, or one event of a child process.  A call whose arguments do   *)
(* not decode or parse touches nothing and is left out.                    *)
(***************************************************************************)
EXTENDS Naturals, FiniteSets

CONSTANTS
  Owner,     \* the client sessions (Call.Session.SessionID)
  Id,        \* the terminal session ids the clock may give
  Session,   \* the managedSession objects, one per terminal.start_session
  Command,   \* the calls of terminal.exec
  Ender,     \* the calls of terminal.end_session
  FreshIds   \* does the clock advance between two readings of UnixNano?

None == "none"

ASSUME TerminalAssumption ==
  /\ FreshIds \in BOOLEAN
  /\ None \notin Session
  /\ None \notin Owner \union Id
  /\ "shutdown" \notin Ender

VARIABLES
  sessions,      \* Service.sessions: the object each id is mapped to
  id,            \* managedSession.ID
  owner,         \* managedSession.SessionID; None before the object exists
  ended,         \* managedSession.Ended
  nextActiveID,  \* managedSession.nextActiveID
  active,        \* managedSession.activeCommands: the commands registered
  shuttingDown,  \* Service.shuttingDown
  command,       \* where each call of terminal.exec is
  runsIn,        \* the object beginExecution returned to it
  activeID,      \* the key beginExecution returned to it
  cancelled,     \* the commands whose context is done
  held,          \* those whose descendants hold their output pipes open
  ender,         \* where each call of terminal.end_session is
  ending,        \* the object it ended
  pending,       \* the local slice `cancels` of endSession and of Shutdown
  shutdown,      \* where Shutdown is
  expired        \* Shutdown's context is done

sessionVars == <<sessions, id, owner, ended, nextActiveID>>
commandVars == <<command, runsIn, activeID, held>>
enderVars == <<ender, ending>>
shutdownVars == <<shutdown, shuttingDown, expired>>
vars == <<sessionVars, active, commandVars, cancelled, enderVars, pending, shutdownVars>>

Canceller == Ender \union {"shutdown"}

TypeOK ==
  /\ sessions \in [Id -> Session \union {None}]
  /\ id \in [Session -> Id \union {None}]
  /\ owner \in [Session -> Owner \union {None}]
  /\ ended \in [Session -> BOOLEAN]
  /\ nextActiveID \in [Session -> Nat]
  /\ active \in [Session -> SUBSET Command]
  /\ shuttingDown \in BOOLEAN
  /\ command \in [Command -> {"idle", "refused", "registered", "running",
                              "exited", "finished", "done"}]
  /\ runsIn \in [Command -> Session \union {None}]
  /\ activeID \in [Command -> Nat]
  /\ cancelled \in SUBSET Command
  /\ held \in SUBSET Command
  /\ ender \in [Ender -> {"idle", "refused", "cancelling", "returned"}]
  /\ ending \in [Ender -> Session \union {None}]
  /\ pending \in [Canceller -> SUBSET Command]
  /\ shutdown \in {"idle", "cancelling", "draining", "polling", "nil", "timeout"}
  /\ expired \in BOOLEAN

Init ==
  /\ sessions = [i \in Id |-> None]
  /\ id = [s \in Session |-> None]
  /\ owner = [s \in Session |-> None]
  /\ ended = [s \in Session |-> FALSE]
  /\ nextActiveID = [s \in Session |-> 0]
  /\ active = [s \in Session |-> {}]
  /\ shuttingDown = FALSE
  /\ command = [c \in Command |-> "idle"]
  /\ runsIn = [c \in Command |-> None]
  /\ activeID = [c \in Command |-> 0]
  /\ cancelled = {}
  /\ held = {}
  /\ ender = [e \in Ender |-> "idle"]
  /\ ending = [e \in Ender |-> None]
  /\ pending = [x \in Canceller |-> {}]
  /\ shutdown = "idle"
  /\ expired = FALSE

-----------------------------------------------------------------------------
(* terminal.start_session.  A call that finds the service shutting down is *)
(* denied and changes nothing.                                             *)

StartSession_EvenWhenStopping(s, o, i) ==
  /\ owner[s] = None
  /\ FreshIds => sessions[i] = None
  /\ sessions' = [sessions EXCEPT ![i] = s]
  /\ id' = [id EXCEPT ![s] = i]
  /\ owner' = [owner EXCEPT ![s] = o]
  /\ UNCHANGED <<ended, nextActiveID, active, commandVars, cancelled,
                 enderVars, pending, shutdownVars>>

StartSession_KeysFromZero(s, o, i) ==
  /\ owner[s] = None
  /\ FreshIds => sessions[i] = None
  /\ ~shuttingDown
  /\ sessions' = [sessions EXCEPT ![i] = s]
  /\ id' = [id EXCEPT ![s] = i]
  /\ owner' = [owner EXCEPT ![s] = o]
  /\ nextActiveID' = [nextActiveID EXCEPT ![s] = @ - 1]
  /\ UNCHANGED <<ended, active, commandVars, cancelled, enderVars, pending, shutdownVars>>

\* The new object takes its id in the map, from another one if need be.
StartSession(s, o, i) ==
  /\ owner[s] = None
  /\ FreshIds => sessions[i] = None
  /\ ~shuttingDown
  /\ sessions' = [sessions EXCEPT ![i] = s]
  /\ id' = [id EXCEPT ![s] = i]
  /\ owner' = [owner EXCEPT ![s] = o]
  /\ UNCHANGED <<ended, nextActiveID, active, commandVars, cancelled,
                 enderVars, pending, shutdownVars>>

-----------------------------------------------------------------------------
(* terminal.exec.                                                          *)

Usable_EvenEnded(i, o) == sessions[i] # None /\ owner[sessions[i]] = o

\* The checks beginExecution and endSession share: the id is known, its session
\* belongs to the caller, and it has not ended.
Usable(i, o) ==
  /\ sessions[i] # None
  /\ owner[sessions[i]] = o
  /\ ~ended[sessions[i]]

MayBegin_EvenEnded(i, o) == sessions[i] # None /\ owner[sessions[i]] = o /\ ~shuttingDown

MayBegin(i, o) == Usable(i, o) /\ ~shuttingDown

BeginExecution_Unregistered(c, o, i) ==
  /\ command[c] = "idle"
  /\ MayBegin(i, o)
  /\ LET s == sessions[i]
     IN  /\ nextActiveID' = [nextActiveID EXCEPT ![s] = @ + 1]
         /\ activeID' = [activeID EXCEPT ![c] = nextActiveID[s] + 1]
         /\ runsIn' = [runsIn EXCEPT ![c] = s]
  /\ command' = [command EXCEPT ![c] = "registered"]
  /\ UNCHANGED <<sessions, id, owner, ended, active, held, cancelled, enderVars,
                 pending, shutdownVars>>

BeginExecution(c, o, i) ==
  /\ command[c] = "idle"
  /\ MayBegin(i, o)
  /\ LET s == sessions[i]
     IN  /\ nextActiveID' = [nextActiveID EXCEPT ![s] = @ + 1]
         /\ activeID' = [activeID EXCEPT ![c] = nextActiveID[s] + 1]
         /\ runsIn' = [runsIn EXCEPT ![c] = s]
         /\ active' = [active EXCEPT ![s] = @ \union {c}]
  /\ command' = [command EXCEPT ![c] = "registered"]
  /\ UNCHANGED <<sessions, id, owner, ended, held, cancelled, enderVars,
                 pending, shutdownVars>>

RefuseExecution(c, o, i) ==
  /\ command[c] = "idle"
  /\ ~MayBegin(i, o)
  /\ command' = [command EXCEPT ![c] = "refused"]
  /\ UNCHANGED <<sessionVars, active, runsIn, activeID, held, cancelled,
                 enderVars, pending, shutdownVars>>

CommandStep(c, from, to) ==
  /\ command[c] = from
  /\ command' = [command EXCEPT ![c] = to]
  /\ UNCHANGED <<sessionVars, runsIn, activeID, enderVars, pending, shutdownVars>>

\* cmd.Run does not start the process if the context is already done.
RunCommand(c) ==
  /\ CommandStep(c, "registered", IF c \in cancelled THEN "finished" ELSE "running")
  /\ UNCHANGED <<active, held, cancelled>>

\* The process exits by itself or is killed by its context; it may leave
\* descendants that hold the pipes from which its output is copied.
ProcessExits(c) ==
  /\ CommandStep(c, "running", "exited")
  /\ held' \in {held, held \union {c}}
  /\ UNCHANGED <<active, cancelled>>

DescendantsExit(c) ==
  /\ c \in held
  /\ held' = held \ {c}
  /\ UNCHANGED <<sessionVars, active, command, runsIn, activeID, cancelled,
                 enderVars, pending, shutdownVars>>

RunReturns_NoWait(c) ==
  /\ CommandStep(c, "exited", "finished")
  /\ UNCHANGED <<active, held, cancelled>>

\* cmd.Run returns once the process has been waited for and its output copied.
RunReturns(c) ==
  /\ c \notin held
  /\ CommandStep(c, "exited", "finished")
  /\ UNCHANGED <<active, held, cancelled>>

\* The deadline the executor put on the call's context.
CommandTimeout(c) ==
  /\ command[c] \in {"registered", "running"}
  /\ c \notin cancelled
  /\ cancelled' = cancelled \union {c}
  /\ UNCHANGED <<sessionVars, active, commandVars, enderVars, pending, shutdownVars>>

Unregister_LiveOnly(c) ==
  /\ CommandStep(c, "finished", "done")
  /\ LET s == sessions[id[runsIn[c]]]
     IN  active' = [active EXCEPT ![s] =
                      {d \in @ : ended[s] \/ activeID[d] # activeID[c]}]
  /\ UNCHANGED <<held, cancelled>>

\* unregisterActiveCommand: it looks the session up by its id once more.
Unregister(c) ==
  /\ CommandStep(c, "finished", "done")
  /\ LET s == sessions[id[runsIn[c]]]
     IN  active' = [active EXCEPT ![s] = {d \in @ : activeID[d] # activeID[c]}]
  /\ UNCHANGED <<held, cancelled>>

-----------------------------------------------------------------------------
(* terminal.end_session.                                                   *)

EndSession_DropsCancels(e, o, i) ==
  /\ ender[e] = "idle"
  /\ Usable(i, o)
  /\ LET s == sessions[i]
     IN  /\ ended' = [ended EXCEPT ![s] = TRUE]
         /\ ending' = [ending EXCEPT ![e] = s]
         /\ active' = [active EXCEPT ![s] = {}]
  /\ ender' = [ender EXCEPT ![e] = "cancelling"]
  /\ UNCHANGED <<sessions, id, owner, nextActiveID, commandVars, cancelled,
                 pending, shutdownVars>>

\* The critical section of endSession.
EndSession(e, o, i) ==
  /\ ender[e] = "idle"
  /\ Usable(i, o)
  /\ LET s == sessions[i]
     IN  /\ ended' = [ended EXCEPT ![s] = TRUE]
         /\ ending' = [ending EXCEPT ![e] = s]
         /\ pending' = [pending EXCEPT ![e] = active[s]]
         /\ active' = [active EXCEPT ![s] = {}]
  /\ ender' = [ender EXCEPT ![e] = "cancelling"]
  /\ UNCHANGED <<sessions, id, owner, nextActiveID, commandVars, cancelled, shutdownVars>>

RefuseEnd(e, o, i) ==
  /\ ender[e] = "idle"
  /\ ~Usable(i, o)
  /\ ender' = [ender EXCEPT ![e] = "refused"]
  /\ UNCHANGED <<sessionVars, active, commandVars, cancelled, ending, pending, shutdownVars>>

\* One turn of the loop over `cancels`, outside the lock.
Cancel(x) ==
  \E c \in pending[x] :
    /\ cancelled' = cancelled \union {c}
    /\ pending' = [pending EXCEPT ![x] = @ \ {c}]
    /\ UNCHANGED <<sessionVars, active, commandVars, enderVars, shutdownVars>>

EndReturns_Early(e) ==
  /\ ender[e] = "cancelling"
  /\ ender' = [ender EXCEPT ![e] = "returned"]
  /\ UNCHANGED <<sessionVars, active, commandVars, cancelled, ending, pending, shutdownVars>>

EndReturns(e) ==
  /\ ender[e] = "cancelling"
  /\ pending[e] = {}
  /\ ender' = [ender EXCEPT ![e] = "returned"]
  /\ UNCHANGED <<sessionVars, active, commandVars, cancelled, ending, pending, shutdownVars>>

-----------------------------------------------------------------------------
(* Service.Shutdown.                                                       *)

Mapped == {sessions[i] : i \in Id} \ {None}

Registered == UNION {active[s] : s \in Mapped}

\* The first critical section; the sessions are those the map still knows.
BeginShutdown ==
  /\ shutdown = "idle"
  /\ shutdown' = "cancelling"
  /\ shuttingDown' = TRUE
  /\ ended' = [s \in Session |-> ended[s] \/ s \in Mapped]
  /\ pending' = [pending EXCEPT !["shutdown"] = Registered]
  /\ UNCHANGED <<sessions, id, owner, nextActiveID, active, commandVars,
                 cancelled, enderVars, expired>>

ShutdownStep(from, to) ==
  /\ shutdown = from
  /\ shutdown' = to
  /\ UNCHANGED <<sessionVars, active, commandVars, cancelled, enderVars,
                 pending, shuttingDown, expired>>

AllCancelled ==
  /\ pending["shutdown"] = {}
  /\ ShutdownStep("cancelling", "draining")

NoneRegistered == Registered = {} /\ ShutdownStep("draining", "nil")

SomeRegistered == Registered # {} /\ ShutdownStep("draining", "polling")

Tick == ShutdownStep("polling", "draining")

ShutdownTimeout == expired /\ ShutdownStep("polling", "timeout")

\* The deadline of the context that its caller passes: it may be over before.
Expire ==
  /\ ~expired
  /\ expired' = TRUE
  /\ UNCHANGED <<sessionVars, active, commandVars, cancelled, enderVars,
                 pending, shutdown, shuttingDown>>

-----------------------------------------------------------------------------
Exec(c) ==
  \/ \E o \in Owner, i \in Id : BeginExecution(c, o, i) \/ RefuseExecution(c, o, i)
  \/ RunCommand(c)
  \/ ProcessExits(c)
  \/ RunReturns(c)
  \/ CommandTimeout(c)
  \/ Unregister(c)

End(e) ==
  \/ \E o \in Owner, i \in Id : EndSession(e, o, i) \/ RefuseEnd(e, o, i)
  \/ EndReturns(e)

Shutdown ==
  \/ BeginShutdown
  \/ AllCancelled
  \/ NoneRegistered
  \/ SomeRegistered
  \/ Tick
  \/ ShutdownTimeout

Next ==
  \/ \E s \in Session, o \in Owner, i \in Id : StartSession(s, o, i)
  \/ \E c \in Command : Exec(c) \/ DescendantsExit(c)
  \/ \E e \in Ender : End(e)
  \/ \E x \in Canceller : Cancel(x)
  \/ Shutdown
  \/ Expire

Spec == Init /\ [][Next]_vars

\* Goroutines that have begun go on, and a process whose context is done is
\* killed.  Nothing makes a process exit by itself, its descendants release its
\* output, the executor's deadline fall, or a client or the runtime make a call.
Fairness ==
  /\ \A c \in Command :
       /\ WF_vars(RunCommand(c) \/ RunReturns(c) \/ Unregister(c))
       /\ WF_vars(c \in cancelled /\ ProcessExits(c))
  /\ \A e \in Ender : WF_vars(EndReturns(e))
  /\ \A x \in Canceller : WF_vars(Cancel(x))
  /\ WF_vars(shutdown # "idle" /\ Shutdown)
  /\ SF_vars(ShutdownTimeout)

FairSpec == Spec /\ Fairness

-----------------------------------------------------------------------------
(* Properties.                                                             *)

Live(c) == command[c] \in {"registered", "running"}

\* A command can only outlive the end of its session while someone is about to
\* cancel it, whichever way begin, end, unregister and shutdown interleave.
EndedAreCancelled ==
  \A c \in Command : Live(c) /\ ended[runsIn[c]] =>
    c \in cancelled \/ \E x \in Canceller : c \in pending[x]

\* Until its session ends, a command is where end_session and Shutdown will find
\* its cancel function.
LiveAreRegistered ==
  \A c \in Command : Live(c) /\ ~ended[runsIn[c]] => c \in active[runsIn[c]]

\* Once Shutdown has taken the lock every session that was ever started has
\* ended, and so none can run another command.
ShutdownEndsAll ==
  shuttingDown => \A s \in Session : owner[s] # None => ended[s]

\* When terminal.end_session has answered, every command of the session that still
\* runs is cancelled: its client need not ask again, whatever began meanwhile and
\* although Shutdown may be going through the same commands.
AnsweredEndsCancelled ==
  \A e \in Ender, c \in Command :
    ender[e] = "returned" /\ Live(c) /\ runsIn[c] = ending[e] => c \in cancelled

\* Two calls of end_session never end the same session: at most one of them
\* reports, and has recorded, its end.
EndOnce ==
  \A e1, e2 \in Ender : ending[e1] # None /\ ending[e1] = ending[e2] => e1 = e2

\* A command whose session has ended stops without waiting for its own timeout,
\* unless its descendants hold its output.
EndedCommandsStop ==
  \A c \in Command :
    Live(c) /\ ended[runsIn[c]] ~> command[c] = "done" \/ c \in held

-----------------------------------------------------------------------------
(* Documented behaviour that the code does not have.                       *)

\* docs/ACCEPTANCE_CRITERIA.md:158: command timeout behavior is enforced.  A
\* command whose descendants keep its output open outlives any timeout.
TimeoutEnforced ==
  []~shuttingDown =>
    \A c \in Command : Live(c) /\ c \in cancelled ~> command[c] = "done"

=============================================================================
