--------------------------- MODULE RuntimeTerminals ---------------------------
(***************************************************************************)
(* The runtime and the terminal service it stops: every call of a terminal *)
(* tool is a request that RuntimeLifecycle keeps in flight, and the one    *)
(* Shutdowner that newApp registers is TerminalService's Shutdown, called  *)
(* with the context of the runtime's own Shutdown.                         *)
(***************************************************************************)
EXTENDS Naturals, FiniteSets

CONSTANTS
  Owner, Id, Session, Command, Ender,   \* as in TerminalService
  MaxConcurrent                         \* as in RuntimeLifecycle

VARIABLES
  graceful, stopping, closed, inFlight, request, caller, expired, failed,
  open,          \* RuntimeLifecycle's; stopping is Runtime.shuttingDown
  sessions, id, owner, ended, nextActiveID, active, command, runsIn, activeID,
  cancelled, held, ender, ending, pending, shutdown,
  shuttingDown   \* TerminalService's; its context is the runtime's

None == "none"

\* A terminal session object is made by one call of terminal.start_session.
Call == Session \union Command \union Ender

ASSUME CallsAssumption ==
  /\ IsFiniteSet(Call)
  /\ Session \intersect Command = {}
  /\ Ender \intersect (Session \union Command) = {}
  /\ "run" \notin Call
  /\ "shutdown" \notin Ender
  /\ None \notin Session \union Owner \union Id
  /\ MaxConcurrent \in Nat \ {0}

Runtime == INSTANCE RuntimeLifecycle WITH
  Request <- Call, Caller <- {"run"}, Timed <- {"run"}, shuttingDown <- stopping

Terminal == INSTANCE TerminalService WITH
  FreshIds <- TRUE, expired <- "run" \in expired

runtimeVars == <<graceful, stopping, closed, inFlight, request, caller, expired,
                 failed, open>>
terminalVars == <<sessions, id, owner, ended, nextActiveID, active, command, runsIn,
                  activeID, cancelled, held, ender, ending, pending, shutdown,
                  shuttingDown>>
vars == <<runtimeVars, terminalVars>>

TypeOK == Runtime!TypeOK /\ Terminal!TypeOK

\* Both transports of nucleusd are graceful.
Init == Runtime!Init /\ graceful /\ Terminal!Init

-----------------------------------------------------------------------------
(* Handle.                                                                 *)

Handling(r) == request[r] = "handling"

\* The tool has changed the terminal service and has not returned yet.
Working(r) ==
  \/ r \in Command /\ command[r] \in {"registered", "running", "exited", "finished"}
  \/ r \in Ender /\ ender[r] = "cancelling"

Admission(r) ==
  /\ Runtime!RefuseStopping(r) \/ Runtime!RefuseBusy(r) \/ Runtime!Admit(r)
  /\ UNCHANGED terminalVars

Answer_Early(r) ==
  /\ Runtime!Release(r)
  /\ UNCHANGED terminalVars

\* Handle returns after the tool, or without having called it.
Answer(r) ==
  /\ ~Working(r)
  /\ Runtime!Release(r)
  /\ UNCHANGED terminalVars

Start(s) ==
  /\ Handling(s)
  /\ UNCHANGED runtimeVars
  /\ \E o \in Owner, i \in Id : Terminal!StartSession(s, o, i)

Exec(c) == Handling(c) /\ UNCHANGED runtimeVars /\ Terminal!Exec(c)

End(e) ==
  /\ Handling(e)
  /\ UNCHANGED runtimeVars
  /\ Terminal!End(e) \/ Terminal!Cancel(e)

DescendantsExit(c) == UNCHANGED runtimeVars /\ Terminal!DescendantsExit(c)

-----------------------------------------------------------------------------
(* Runtime.Shutdown, which app.run calls once.                             *)

\* The call of the terminal service's Shutdown in the loop over Shutdowners.
StopTerminals ==
  /\ caller["run"] = "shutdowners"
  /\ UNCHANGED runtimeVars
  /\ \/ Terminal!BeginShutdown
     \/ Terminal!Cancel("shutdown")
     \/ Terminal!AllCancelled
     \/ Terminal!NoneRegistered
     \/ Terminal!SomeRegistered
     \/ Terminal!Tick
     \/ Terminal!ShutdownTimeout

TerminalsStopped_NotCalled ==
  /\ Runtime!RunShutdowners("run")
  /\ UNCHANGED <<failed, terminalVars>>

\* It returns, with an error if its context was done first.
TerminalsStopped ==
  /\ shutdown \in {"nil", "timeout"}
  /\ Runtime!RunShutdowners("run")
  /\ shutdown = "nil" => failed' = failed
  /\ shutdown = "timeout" => "run" \in failed'
  /\ UNCHANGED terminalVars

ShutdownStep ==
  /\ caller["run"] # "shutdowners"
  /\ Runtime!Shutdown("run")
  /\ UNCHANGED terminalVars

\* The five seconds of app.run's context, whatever it waits for.
Expire == Runtime!Expire("run") /\ UNCHANGED terminalVars

-----------------------------------------------------------------------------
Shutdown == ShutdownStep \/ StopTerminals \/ TerminalsStopped \/ Expire

Next ==
  \/ \E r \in Call : Admission(r) \/ Answer(r)
  \/ \E s \in Session : Start(s)
  \/ \E c \in Command : Exec(c) \/ DescendantsExit(c)
  \/ \E e \in Ender : End(e)
  \/ Shutdown

Spec == Init /\ [][Next]_vars

\* What TerminalService assumes of goroutines and processes, and RuntimeLifecycle
\* of Shutdown.  A tool that has returned lets Handle return.  No process exits of
\* its own accord, no deadline falls, nobody calls.
Fairness ==
  /\ \A c \in Command :
       /\ WF_vars(/\ UNCHANGED runtimeVars
                  /\ \/ Terminal!RunCommand(c)
                     \/ Terminal!RunReturns(c)
                     \/ Terminal!Unregister(c))
       /\ WF_vars(c \in cancelled /\ UNCHANGED runtimeVars /\ Terminal!ProcessExits(c))
  /\ \A e \in Ender : WF_vars(ender[e] = "cancelling" /\ End(e))
  /\ \A r \in Call : WF_vars(Answer(r))
  /\ WF_vars(caller["run"] # "idle" /\ ShutdownStep)
  /\ WF_vars(StopTerminals)
  /\ WF_vars(TerminalsStopped)
  /\ SF_vars(UNCHANGED runtimeVars /\ Terminal!ShutdownTimeout)
  /\ SF_vars(Runtime!DrainTimeout("run") /\ UNCHANGED terminalVars)

FairSpec == Spec /\ Fairness

-----------------------------------------------------------------------------
(* Properties.                                                             *)

\* When Shutdown has returned nil, no command of any client is left: no process
\* runs or will be started, no descendant holds a pipe, no session can be used.
NilLeavesNothing ==
  caller["run"] = "returned" /\ failed = {} =>
    /\ \A c \in Command : ~Working(c) /\ c \notin held
    /\ \A s \in Session : owner[s] # None => ended[s]

\* A tool never works with a closed store or log, although the terminal service's
\* Shutdown may have given up on the commands it cancelled.
WorkIsBacked ==
  (\E r \in Call : Working(r)) => {"audit", "storage"} \subseteq open

\* A command whose session has ended stops without waiting for its own timeout,
\* unless its descendants hold its output.
EndedCommandsStop == Terminal!EndedCommandsStop

\* Shutdown of the runtime returns although the commands of its clients never
\* exit by themselves and clients go on calling: only processes that outlive
\* their parents make it wait for its deadline.
ShutdownReturns ==
  []<>("run" \in expired) \/ (\A c \in Command : []<>(c \notin held)) =>
    (caller["run"] = "marked" ~> caller["run"] = "returned")

=============================================================================
