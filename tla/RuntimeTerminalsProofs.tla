------------------------ MODULE RuntimeTerminalsProofs ------------------------
(***************************************************************************)
(* For any number of calls, terminal sessions and commands: the runtime    *)
(* with the terminal service behaves as each of the two specifications     *)
(* says on its own, and the safety properties of RuntimeTerminals, which   *)
(* neither of them can state.                                              *)
(***************************************************************************)
EXTENDS RuntimeTerminals, TLAPS

\* The theorems about the two parts, as the composition uses them.
Life == INSTANCE RuntimeLifecycleProofs WITH
  Request <- Call, Caller <- {"run"}, Timed <- {"run"}, shuttingDown <- stopping

Serv == INSTANCE TerminalServiceProofs WITH
  FreshIds <- TRUE, expired <- "run" \in expired

-----------------------------------------------------------------------------
(* The composition is a behaviour of each part.                            *)

\* The constants of the parts satisfy what the parts assume.
LEMMA Assumptions == Life!LifecycleAssumption /\ Serv!TerminalAssumption
BY CallsAssumption DEF Life!LifecycleAssumption, Life!IsFiniteSet, IsFiniteSet,
   Serv!TerminalAssumption, Serv!None, None

\* The steps that the composition takes from RuntimeLifecycle are its steps.
LEMMA LifeRequest ==
  ASSUME NEW r \in Call,
         Runtime!RefuseStopping(r) \/ Runtime!RefuseBusy(r) \/ Runtime!Admit(r)
           \/ Runtime!Release(r)
  PROVE  Life!Next
<1>1. Life!Handle(r)
  BY DEF Runtime!RefuseStopping, Runtime!RefuseBusy, Runtime!Admit, Runtime!Release,
     Runtime!Stopping, Runtime!callerVars, Life!RefuseStopping, Life!RefuseBusy,
     Life!Admit, Life!Release, Life!Stopping, Life!callerVars, Life!Handle
<1>2. QED
  BY <1>1 DEF Life!Next

LEMMA LifeShutdown ==
  ASSUME Runtime!Shutdown("run") \/ Runtime!RunShutdowners("run") \/ Runtime!Expire("run")
  PROVE  Life!Next
<1>1. Life!Shutdown("run")
  BY DEF Runtime!Shutdown, Runtime!BeginShutdown, Runtime!StopTransport,
     Runtime!RunShutdowners, Runtime!Drained, Runtime!NotDrained, Runtime!Tick,
     Runtime!DrainTimeout, Runtime!CloseDependency, Runtime!MarkClosed, Runtime!Expire,
     Runtime!Goto, Runtime!MayFail, Runtime!AfterClosing, Runtime!Dependency,
     Runtime!requestVars, Life!Shutdown, Life!BeginShutdown, Life!StopTransport,
     Life!RunShutdowners, Life!Drained, Life!NotDrained, Life!Tick, Life!DrainTimeout,
     Life!CloseDependency, Life!MarkClosed, Life!Expire, Life!Goto, Life!MayFail,
     Life!AfterClosing, Life!Dependency, Life!requestVars
<1>2. QED
  BY <1>1 DEF Life!Next

\* Every step is a step of the runtime, or one that it does not see.
LEMMA LifeStep == [Next]_vars => [Life!Next]_(Life!vars)
<1> SUFFICES ASSUME [Next]_vars PROVE [Life!Next]_(Life!vars)
  OBVIOUS
<1>1. ASSUME UNCHANGED runtimeVars PROVE UNCHANGED Life!vars
  BY <1>1 DEF runtimeVars, Life!vars, Life!requestVars, Life!callerVars
<1>2. CASE \E r \in Call : Admission(r) \/ Answer(r)
  BY <1>2, LifeRequest DEF Admission, Answer
<1>3. CASE \/ \E s \in Session : Start(s)
           \/ \E c \in Command : Exec(c) \/ DescendantsExit(c)
           \/ \E e \in Ender : End(e)
  BY <1>1, <1>3 DEF Start, Exec, DescendantsExit, End
<1>4. CASE Shutdown
  BY <1>1, <1>4, LifeShutdown DEF Shutdown, ShutdownStep, StopTerminals, TerminalsStopped, Expire
<1>5. CASE UNCHANGED vars
  BY <1>1, <1>5 DEF vars
<1>6. QED
  BY <1>2, <1>3, <1>4, <1>5 DEF Next

\* Every step is a step of the terminal service, or one that it does not see.
LEMMA ServStep == [Next]_vars => [Serv!Next]_(Serv!vars)
<1> SUFFICES ASSUME [Next]_vars PROVE [Serv!Next]_(Serv!vars)
  OBVIOUS
<1>1. ASSUME UNCHANGED terminalVars, UNCHANGED expired PROVE UNCHANGED Serv!vars
  BY <1>1 DEF terminalVars, Serv!vars, Serv!sessionVars, Serv!commandVars, Serv!enderVars,
     Serv!shutdownVars
<1>2. CASE \E r \in Call : Admission(r) \/ Answer(r)
  BY <1>1, <1>2 DEF Admission, Answer, Runtime!RefuseStopping, Runtime!RefuseBusy,
     Runtime!Admit, Runtime!Release, Runtime!callerVars
<1>3. CASE \E s \in Session : Start(s)
  <2>1. PICK s \in Session, o \in Owner, i \in Id : Terminal!StartSession(s, o, i)
    BY <1>3 DEF Start
  <2>2. Serv!StartSession(s, o, i)
    BY <2>1 DEF Terminal!StartSession, Terminal!None, Terminal!commandVars,
       Terminal!enderVars, Terminal!shutdownVars, Serv!StartSession, Serv!None,
       Serv!commandVars, Serv!enderVars, Serv!shutdownVars
  <2>3. QED
    BY <2>2 DEF Serv!Next
<1>4. ASSUME NEW c \in Command, Exec(c) \/ DescendantsExit(c) PROVE Serv!Next
  <2>1. CASE Terminal!Exec(c)
    <3>1. Serv!Exec(c)
      BY <2>1 DEF Terminal!Exec, Terminal!BeginExecution, Terminal!RefuseExecution,
         Terminal!RunCommand, Terminal!ProcessExits, Terminal!RunReturns,
         Terminal!CommandTimeout, Terminal!Unregister, Terminal!CommandStep,
         Terminal!MayBegin, Terminal!Usable, Terminal!None, Terminal!sessionVars,
         Terminal!commandVars, Terminal!enderVars, Terminal!shutdownVars,
         Serv!Exec, Serv!BeginExecution, Serv!RefuseExecution, Serv!RunCommand,
         Serv!ProcessExits, Serv!RunReturns, Serv!CommandTimeout, Serv!Unregister,
         Serv!CommandStep, Serv!MayBegin, Serv!Usable, Serv!None, Serv!sessionVars,
         Serv!commandVars, Serv!enderVars, Serv!shutdownVars
    <3>2. QED
      BY <3>1 DEF Serv!Next
  <2>2. CASE Terminal!DescendantsExit(c)
    <3>1. Serv!DescendantsExit(c)
      BY <2>2 DEF Terminal!DescendantsExit, Terminal!sessionVars, Terminal!enderVars,
         Terminal!shutdownVars, Serv!DescendantsExit, Serv!sessionVars, Serv!enderVars,
         Serv!shutdownVars
    <3>2. QED
      BY <3>1 DEF Serv!Next
  <2>3. QED
    BY <1>4, <2>1, <2>2 DEF Exec, DescendantsExit
<1>5. ASSUME NEW x \in Ender \union {"shutdown"}, Terminal!Cancel(x) PROVE Serv!Next
  <2>1. Serv!Cancel(x)
    BY <1>5 DEF Terminal!Cancel, Terminal!sessionVars, Terminal!commandVars,
       Terminal!enderVars, Terminal!shutdownVars, Serv!Cancel, Serv!sessionVars,
       Serv!commandVars, Serv!enderVars, Serv!shutdownVars
  <2>2. QED
    BY <2>1 DEF Serv!Next, Serv!Canceller
<1>6. ASSUME NEW e \in Ender, End(e) PROVE Serv!Next
  <2>1. CASE Terminal!Cancel(e)
    BY <1>5, <2>1
  <2>2. CASE Terminal!End(e)
    <3>1. Serv!End(e)
      BY <2>2 DEF Terminal!End, Terminal!EndSession, Terminal!RefuseEnd, Terminal!EndReturns,
         Terminal!Usable, Terminal!None, Terminal!sessionVars, Terminal!commandVars,
         Terminal!shutdownVars, Serv!End, Serv!EndSession, Serv!RefuseEnd,
         Serv!EndReturns, Serv!Usable, Serv!None, Serv!sessionVars, Serv!commandVars,
         Serv!shutdownVars
    <3>2. QED
      BY <3>1 DEF Serv!Next
  <2>3. QED
    BY <1>6, <2>1, <2>2 DEF End
<1>7. CASE StopTerminals
  <2>1. CASE Terminal!Cancel("shutdown")
    BY <1>5, <2>1
  <2>2. CASE \/ Terminal!BeginShutdown \/ Terminal!AllCancelled \/ Terminal!NoneRegistered
             \/ Terminal!SomeRegistered \/ Terminal!Tick \/ Terminal!ShutdownTimeout
    <3>1. Serv!Shutdown
      BY <2>2 DEF Terminal!BeginShutdown, Terminal!AllCancelled, Terminal!NoneRegistered,
         Terminal!SomeRegistered, Terminal!Tick, Terminal!ShutdownTimeout,
         Terminal!ShutdownStep, Terminal!Registered, Terminal!Mapped, Terminal!None,
         Terminal!sessionVars, Terminal!commandVars, Terminal!enderVars,
         Serv!Shutdown, Serv!BeginShutdown, Serv!AllCancelled, Serv!NoneRegistered,
         Serv!SomeRegistered, Serv!Tick, Serv!ShutdownTimeout, Serv!ShutdownStep,
         Serv!Registered, Serv!Mapped, Serv!None, Serv!sessionVars, Serv!commandVars,
         Serv!enderVars
    <3>2. QED
      BY <3>1 DEF Serv!Next
  <2>3. QED
    BY <1>7, <2>1, <2>2 DEF StopTerminals
<1>8. CASE Expire
  <2>1. expired' = expired \union {"run"} /\ "run" \notin expired /\ UNCHANGED terminalVars
    BY <1>8 DEF Expire, Runtime!Expire
  <2>2. Serv!Expire
    BY <2>1 DEF terminalVars, Serv!Expire, Serv!sessionVars, Serv!commandVars,
       Serv!enderVars
  <2>3. QED
    BY <2>2 DEF Serv!Next
<1>9. CASE TerminalsStopped
  BY <1>1, <1>9 DEF TerminalsStopped, Runtime!RunShutdowners
<1>10. CASE ShutdownStep
  <2>1. UNCHANGED expired \/ Runtime!Expire("run")
    BY <1>10 DEF ShutdownStep, Runtime!Shutdown, Runtime!BeginShutdown,
       Runtime!StopTransport, Runtime!RunShutdowners, Runtime!Drained, Runtime!NotDrained,
       Runtime!Tick, Runtime!DrainTimeout, Runtime!CloseDependency, Runtime!MarkClosed
  <2>2. QED
    BY <1>1, <1>8, <1>10, <2>1 DEF ShutdownStep, Expire
<1>11. CASE UNCHANGED vars
  BY <1>1, <1>11 DEF vars, runtimeVars
<1>12. QED
  BY <1>2, <1>3, <1>4, <1>6, <1>7, <1>8, <1>9, <1>10, <1>11 DEF Next, Shutdown

LEMMA InitParts == Init => Life!Init /\ Serv!Init
<1> SUFFICES ASSUME Init PROVE Life!Init /\ Serv!Init
  OBVIOUS
<1>1. Life!Init
  BY DEF Init, Runtime!Init, Runtime!Dependency, Life!Init, Life!Dependency
<1>2. Serv!Init
  BY DEF Init, Terminal!Init, Terminal!None, Terminal!Canceller, Serv!Init, Serv!None,
     Serv!Canceller
<1>3. QED
  BY <1>1, <1>2

\* The runtime with its terminal service behaves as RuntimeLifecycle specifies:
\* the call of the service's Shutdown is one step of the loop over Shutdowners.
THEOREM ImplementsRuntime == Spec => Life!Spec
BY InitParts, LifeStep, PTL DEF Spec, Life!Spec

\* The terminal service, with calls that the runtime admits and a Shutdown that
\* the runtime makes, behaves as TerminalService specifies.
THEOREM ImplementsTerminals == Spec => Serv!Spec
BY InitParts, ServStep, PTL DEF Spec, Serv!Spec

\* And so it admits, drains and releases as the abstract service does.
THEOREM ImplementsService == Spec => Life!ImplementsGracefulService
<1>1. Life!Spec => Life!ImplementsGracefulService
  BY Assumptions, Life!Refinement
<1>2. QED
  BY <1>1, ImplementsRuntime, PTL

\* The inductive invariants of the parts hold of the composition.
LEMMA PartsInvariance == Spec => [](Life!IInv /\ Serv!IInv)
<1>1. Life!Spec => []Life!IInv
  BY Assumptions, Life!Invariance
<1>2. Serv!Spec => []Serv!IInv
  BY Assumptions, Serv!Invariance
<1>3. QED
  BY <1>1, <1>2, ImplementsRuntime, ImplementsTerminals, PTL

-----------------------------------------------------------------------------
(* What relates the two parts.                                             *)

\* A tool works only while Handle waits for it, and only a command whose process
\* has exited waits for its output.
CallInv ==
  /\ \A r \in Call : Working(r) => Handling(r)
  /\ \A c \in Command : c \in held => command[c] = "exited"

Past == caller["run"] \notin {"idle", "marked", "shutdowners"}

\* Runtime.Shutdown goes on when the service's Shutdown has returned, and takes
\* its error with it.
OrderInv ==
  /\ Past => shutdown = "nil" \/ (shutdown = "timeout" /\ "run" \in failed)
  /\ closed => Past
  /\ shutdown # "idle" => shuttingDown

IInv == Life!IInv /\ Serv!IInv /\ CallInv /\ OrderInv

LEMMA InitInv == Init => CallInv /\ OrderInv
<1> SUFFICES ASSUME Init PROVE CallInv /\ OrderInv
  OBVIOUS
<1>1. CallInv
  BY DEF Init, Terminal!Init, CallInv, Working
<1>2. OrderInv
  BY DEF Init, Runtime!Init, Terminal!Init, OrderInv, Past
<1>3. QED
  BY <1>1, <1>2

\* The parts' types that the next lemmas use.
LEMMA PartTypes ==
  ASSUME Life!IInv, Serv!IInv
  PROVE  /\ DOMAIN request = Call /\ DOMAIN caller = {"run"}
         /\ DOMAIN command = Command /\ DOMAIN ender = Ender
         /\ request = [r \in Call |-> request[r]] /\ caller = [c \in {"run"} |-> caller[c]]
         /\ command = [c \in Command |-> command[c]] /\ ender = [e \in Ender |-> ender[e]]
BY DEF Life!IInv, Life!TypeOK, Serv!IInv, Serv!TypeOK

\* Handle waits for its tool.
LEMMA CallInvStep ==
  ASSUME Life!IInv, Serv!IInv, CallInv, [Next]_vars
  PROVE  CallInv'
<1> USE PartTypes
<1>1. ASSUME UNCHANGED <<request, command, ender>>, held' \subseteq held PROVE CallInv'
  BY <1>1 DEF CallInv, Working, Handling
<1>2. ASSUME UNCHANGED terminalVars, NEW r \in Call, request[r] # "handling" \/ ~Working(r),
             \A q \in Call \ {r} : request'[q] = request[q]
      PROVE  CallInv'
  BY <1>2 DEF CallInv, Working, Handling, terminalVars
<1>3. ASSUME NEW r \in Call, Admission(r) PROVE CallInv'
  BY <1>2, <1>3 DEF Admission, Runtime!RefuseStopping, Runtime!RefuseBusy, Runtime!Admit
<1>4. ASSUME NEW r \in Call, Answer(r) PROVE CallInv'
  BY <1>2, <1>4 DEF Answer, Runtime!Release
<1>5. ASSUME NEW s \in Session, Start(s) PROVE CallInv'
  BY <1>1, <1>5 DEF Start, Terminal!StartSession, Terminal!commandVars, Terminal!enderVars,
     runtimeVars
<1>6. ASSUME NEW c \in Command, Exec(c) PROVE CallInv'
  <2>1. Handling(c) /\ UNCHANGED <<request, ender>>
    BY <1>6 DEF Exec, runtimeVars, Terminal!Exec, Terminal!BeginExecution,
       Terminal!RefuseExecution, Terminal!RunCommand, Terminal!ProcessExits,
       Terminal!RunReturns, Terminal!CommandTimeout, Terminal!Unregister,
       Terminal!CommandStep, Terminal!enderVars
  <2>2. \A d \in Command \ {c} : command'[d] = command[d]
    BY <1>6 DEF Exec, Terminal!Exec, Terminal!BeginExecution,
       Terminal!RefuseExecution, Terminal!RunCommand, Terminal!ProcessExits,
       Terminal!RunReturns, Terminal!CommandTimeout, Terminal!Unregister,
       Terminal!CommandStep, Terminal!commandVars
  <2>3. \/ held' = held /\ (c \in held => command'[c] = "exited")
        \/ held' = held \union {c} /\ command'[c] = "exited"
    BY <1>6 DEF CallInv, Exec, Terminal!Exec, Terminal!BeginExecution,
       Terminal!RefuseExecution, Terminal!RunCommand, Terminal!ProcessExits,
       Terminal!RunReturns, Terminal!CommandTimeout, Terminal!Unregister,
       Terminal!CommandStep, Terminal!commandVars
  <2>4. ASSUME NEW r \in Call, Working(r)' PROVE Handling(r)'
    <3>1. r = c \/ Working(r)
      BY <2>1, <2>2, <2>4 DEF Working
    <3>2. QED
      BY <2>1, <3>1 DEF CallInv, Handling
  <2>5. \A d \in Command : d \in held' => command'[d] = "exited"
    BY <2>2, <2>3 DEF CallInv
  <2>6. QED
    BY <2>4, <2>5 DEF CallInv
<1>7. ASSUME NEW c \in Command, DescendantsExit(c) PROVE CallInv'
  BY <1>1, <1>7 DEF DescendantsExit, Terminal!DescendantsExit, Terminal!enderVars, runtimeVars
<1>8. ASSUME NEW e \in Ender, End(e) PROVE CallInv'
  <2>1. Handling(e) /\ UNCHANGED <<request, command, held>>
    BY <1>8 DEF End, runtimeVars, Terminal!End, Terminal!EndSession, Terminal!RefuseEnd,
       Terminal!EndReturns, Terminal!Cancel, Terminal!commandVars
  <2>2. \A x \in Ender \ {e} : ender'[x] = ender[x]
    BY <1>8 DEF End, Terminal!End, Terminal!EndSession, Terminal!RefuseEnd,
       Terminal!EndReturns, Terminal!Cancel, Terminal!enderVars
  <2>3. QED
    BY <2>1, <2>2 DEF CallInv, Working, Handling
<1>9. CASE StopTerminals
  BY <1>1, <1>9 DEF StopTerminals, runtimeVars, Terminal!BeginShutdown, Terminal!Cancel,
     Terminal!AllCancelled, Terminal!NoneRegistered, Terminal!SomeRegistered,
     Terminal!Tick, Terminal!ShutdownTimeout, Terminal!ShutdownStep,
     Terminal!commandVars, Terminal!enderVars
<1>10. CASE ShutdownStep \/ TerminalsStopped \/ Expire
  <2>1. UNCHANGED <<request, terminalVars>>
    BY <1>10 DEF ShutdownStep, TerminalsStopped, Expire, Runtime!Shutdown,
       Runtime!BeginShutdown, Runtime!StopTransport, Runtime!RunShutdowners,
       Runtime!Drained, Runtime!NotDrained, Runtime!Tick, Runtime!DrainTimeout,
       Runtime!CloseDependency, Runtime!MarkClosed, Runtime!Expire, Runtime!requestVars
  <2>2. QED
    BY <1>1, <2>1 DEF terminalVars
<1>11. CASE UNCHANGED vars
  BY <1>1, <1>11 DEF vars, runtimeVars, terminalVars
<1>12. QED
  BY <1>3, <1>4, <1>5, <1>6, <1>7, <1>8, <1>9, <1>10, <1>11 DEF Next, Shutdown

\* The service's Shutdown has returned when the runtime's goes on.
LEMMA OrderInvStep ==
  ASSUME Life!IInv, OrderInv, [Next]_vars
  PROVE  OrderInv'
<1>1. DOMAIN caller = {"run"}
  BY DEF Life!IInv, Life!TypeOK
<1>2. ASSUME UNCHANGED <<caller, closed, failed, shutdown, shuttingDown>> PROVE OrderInv'
  BY <1>2 DEF OrderInv, Past
<1>3. CASE \E r \in Call : Admission(r) \/ Answer(r)
  BY <1>2, <1>3 DEF Admission, Answer, Runtime!RefuseStopping, Runtime!RefuseBusy,
     Runtime!Admit, Runtime!Release, Runtime!callerVars, terminalVars
<1>4. CASE \E s \in Session : Start(s)
  BY <1>2, <1>4 DEF Start, Terminal!StartSession, Terminal!shutdownVars, runtimeVars
<1>5. CASE \E c \in Command : Exec(c) \/ DescendantsExit(c)
  BY <1>2, <1>5 DEF Exec, DescendantsExit, runtimeVars, Terminal!Exec,
     Terminal!BeginExecution, Terminal!RefuseExecution, Terminal!RunCommand,
     Terminal!ProcessExits, Terminal!RunReturns, Terminal!CommandTimeout,
     Terminal!Unregister, Terminal!CommandStep, Terminal!DescendantsExit,
     Terminal!shutdownVars
<1>6. CASE \E e \in Ender : End(e)
  BY <1>2, <1>6 DEF End, runtimeVars, Terminal!End, Terminal!EndSession,
     Terminal!RefuseEnd, Terminal!EndReturns, Terminal!Cancel, Terminal!shutdownVars
<1>7. CASE StopTerminals
  <2>1. ~Past /\ ~Past'
    BY <1>7 DEF StopTerminals, Past, runtimeVars
  <2>2. UNCHANGED closed /\ (shutdown' # "idle" => shuttingDown')
    BY <1>7 DEF StopTerminals, OrderInv, runtimeVars, Terminal!BeginShutdown,
       Terminal!Cancel, Terminal!AllCancelled, Terminal!NoneRegistered,
       Terminal!SomeRegistered, Terminal!Tick, Terminal!ShutdownTimeout,
       Terminal!ShutdownStep, Terminal!shutdownVars
  <2>3. QED
    BY <2>1, <2>2 DEF OrderInv
<1>8. CASE TerminalsStopped
  BY <1>1, <1>8 DEF TerminalsStopped, Runtime!RunShutdowners, Runtime!MayFail,
     Runtime!Goto, terminalVars, OrderInv, Past
<1>9. CASE ShutdownStep
  <2>1. UNCHANGED <<shutdown, shuttingDown>> /\ (Past /\ "run" \in failed => "run" \in failed')
    BY <1>9 DEF ShutdownStep, terminalVars, Past, Runtime!Shutdown, Runtime!BeginShutdown,
       Runtime!StopTransport, Runtime!RunShutdowners, Runtime!Drained,
       Runtime!NotDrained, Runtime!Tick, Runtime!DrainTimeout, Runtime!CloseDependency,
       Runtime!MarkClosed, Runtime!Expire, Runtime!MayFail
  <2>2. (Past' <=> Past) /\ (closed' => closed \/ Past)
    <3> USE <1>1 DEF Past, Runtime!Goto
    <3>1. caller["run"] # "shutdowners"
      BY <1>9 DEF ShutdownStep
    <3>2. CASE Runtime!BeginShutdown("run")
      BY <3>2 DEF Runtime!BeginShutdown, OrderInv
    <3>3. CASE Runtime!StopTransport("run") \/ Runtime!RunShutdowners("run")
      BY <3>1, <3>3 DEF Runtime!StopTransport, Runtime!RunShutdowners
    <3>4. CASE Runtime!Drained("run") \/ Runtime!NotDrained("run") \/ Runtime!Tick("run")
      BY <3>4 DEF Runtime!Drained, Runtime!NotDrained, Runtime!Tick
    <3>5. ASSUME NEW d \in Runtime!Dependency, Runtime!CloseDependency("run", d)
          PROVE  (Past' <=> Past) /\ (closed' => closed \/ Past)
      BY <3>5 DEF Runtime!CloseDependency, Runtime!AfterClosing, Runtime!Dependency
    <3>6. CASE Runtime!DrainTimeout("run")
      BY <3>6 DEF Runtime!DrainTimeout
    <3>7. CASE Runtime!MarkClosed("run")
      BY <3>7 DEF Runtime!MarkClosed
    <3>8. CASE Runtime!Expire("run")
      BY <3>8 DEF Runtime!Expire
    <3>9. QED
      BY <1>9, <3>2, <3>3, <3>4, <3>5, <3>6, <3>7, <3>8 DEF ShutdownStep, Runtime!Shutdown
  <2>3. QED
    BY <2>1, <2>2 DEF OrderInv
<1>10. CASE Expire
  BY <1>2, <1>10 DEF Expire, Runtime!Expire, terminalVars
<1>11. CASE UNCHANGED vars
  BY <1>2, <1>11 DEF vars, runtimeVars, terminalVars
<1>12. QED
  BY <1>3, <1>4, <1>5, <1>6, <1>7, <1>8, <1>9, <1>10, <1>11 DEF Next, Shutdown

-----------------------------------------------------------------------------
(* The theorems.                                                           *)

\* Every reachable state satisfies the invariants of both parts, and that which
\* relates them.
THEOREM Invariance == Spec => []IInv
<1>1. (Life!IInv /\ Serv!IInv) /\ (CallInv /\ OrderInv) /\ [Next]_vars => (CallInv /\ OrderInv)'
  BY CallInvStep, OrderInvStep
<1>2. QED
  BY <1>1, InitInv, PartsInvariance, PTL DEF Spec, IInv

\* The variables of both parts keep their types.
THEOREM TypeCorrect == Spec => []TypeOK
<1>1. IInv => TypeOK
  BY DEF IInv, TypeOK, Life!IInv, Life!TypeOK, Runtime!TypeOK, Serv!IInv, Serv!TypeOK,
     Terminal!TypeOK, Life!RequestState, Runtime!RequestState, Life!CallerState,
     Runtime!CallerState, Life!Dependency, Runtime!Dependency, Serv!None, Terminal!None,
     Serv!Canceller, Terminal!Canceller
<1>2. QED
  BY <1>1, Invariance, PTL

\* When Runtime.Shutdown has returned nil no command is left, and every terminal
\* session has ended.
THEOREM NothingIsLeft == Spec => []NilLeavesNothing
<1>1. IInv => NilLeavesNothing
  <2> SUFFICES ASSUME IInv, caller["run"] = "returned", failed = {}
               PROVE  /\ \A c \in Command : ~Working(c) /\ c \notin held
                      /\ \A s \in Session : owner[s] # None => ended[s]
    BY DEF NilLeavesNothing
  <2>1. \A r \in Call : ~Handling(r)
    BY DEF IInv, Life!IInv, Life!CallerInv, Life!ClosedInv, Life!Quiet, Life!Handling, Handling
  <2>2. \A c \in Command : ~Working(c) /\ c \notin held
    BY <2>1 DEF IInv, CallInv, Working, Call
  <2>3. shuttingDown
    BY DEF IInv, OrderInv, Past
  <2>4. \A s \in Session : owner[s] # None => ended[s]
    BY <2>3 DEF IInv, Serv!IInv, Serv!ShutdownEndsAll, Serv!None, None
  <2>5. QED
    BY <2>2, <2>4
<1>2. QED
  BY <1>1, Invariance, PTL

\* A tool that works can record what it does.
THEOREM WorkBacked == Spec => []WorkIsBacked
<1>1. IInv => WorkIsBacked
  <2> SUFFICES ASSUME IInv, NEW r \in Call, Working(r)
               PROVE  {"audit", "storage"} \subseteq open
    BY DEF WorkIsBacked
  <2>1. Handling(r)
    BY DEF IInv, CallInv
  <2>2. QED
    BY <2>1 DEF IInv, Life!IInv, Life!OpenInv, Life!Quiet, Life!Handling, Handling
<1>2. QED
  BY <1>1, Invariance, PTL

=============================================================================
