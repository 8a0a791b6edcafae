------------------------- MODULE TerminalServiceProofs -------------------------
(***************************************************************************)
(* For any number of terminal sessions, commands and calls: the safety     *)
(* properties of TerminalService, when no two sessions are given one id.   *)
(***************************************************************************)
EXTENDS TerminalService, TLAPS

-----------------------------------------------------------------------------
(* The inductive invariant.  That a session's end reaches its commands     *)
(* rests on two maps being exact: the service's, from ids to objects, and  *)
(* the object's, from activeIDs to cancel functions.                       *)

\* The map knows every session that has been started, by the id it was given.
MapInv ==
  /\ \A s \in Session : owner[s] # None => id[s] \in Id /\ sessions[id[s]] = s
  /\ \A i \in Id : sessions[i] # None => owner[sessions[i]] # None

Begun(c) == command[c] \notin {"idle", "refused"}

\* A call of exec that was let in has a session, and a key of its own there.
KeyInv ==
  /\ \A c \in Command : Begun(c) =>
       /\ runsIn[c] \in Session
       /\ owner[runsIn[c]] # None
       /\ activeID[c] <= nextActiveID[runsIn[c]]
  /\ \A c, d \in Command :
       Begun(c) /\ Begun(d) /\ runsIn[c] = runsIn[d] /\ activeID[c] = activeID[d]
         => c = d
  /\ \A s \in Session : \A c \in active[s] : Begun(c) /\ runsIn[c] = s

\* The slices of cancel functions are empty until they are filled.
PendingInv ==
  /\ \A e \in Ender : ender[e] = "idle" => pending[e] = {} /\ ending[e] = None
  /\ shutdown = "idle" => pending["shutdown"] = {}

EndingInv == \A e \in Ender : ending[e] # None => ended[ending[e]]

IInv ==
  /\ TypeOK
  /\ MapInv
  /\ KeyInv
  /\ PendingInv
  /\ EndingInv
  /\ EndOnce
  /\ LiveAreRegistered
  /\ EndedAreCancelled
  /\ ShutdownEndsAll

-----------------------------------------------------------------------------
\* The initial states satisfy the inductive invariant.
LEMMA InitInv == Init => IInv
<1> SUFFICES ASSUME Init PROVE IInv
  OBVIOUS
<1> USE TerminalAssumption DEF Init, None
<1>1. TypeOK
  BY DEF TypeOK, Canceller
<1>2. MapInv /\ KeyInv
  BY DEF MapInv, KeyInv, Begun
<1>3. PendingInv /\ EndingInv /\ EndOnce
  BY DEF PendingInv, EndingInv, EndOnce, Canceller
<1>4. LiveAreRegistered /\ EndedAreCancelled /\ ShutdownEndsAll
  BY DEF LiveAreRegistered, EndedAreCancelled, ShutdownEndsAll, Live
<1>5. QED
  BY <1>1, <1>2, <1>3, <1>4 DEF IInv

\* A new session takes an id that no other has: this is where ids must be fresh.
LEMMA StartSessionInv ==
  ASSUME FreshIds, IInv, NEW s \in Session, NEW o \in Owner, NEW i \in Id,
         StartSession(s, o, i)
  PROVE  IInv'
<1> USE TerminalAssumption DEF IInv, StartSession, commandVars, enderVars, shutdownVars
<1>1. TypeOK'
  BY DEF TypeOK
<1>2. MapInv'
  BY DEF TypeOK, MapInv
<1>3. KeyInv'
  BY DEF TypeOK, KeyInv, Begun
<1>4. (PendingInv /\ EndingInv /\ EndOnce)'
  BY DEF PendingInv, EndingInv, EndOnce
<1>5. (LiveAreRegistered /\ EndedAreCancelled)'
  BY DEF LiveAreRegistered, EndedAreCancelled, Live
<1>6. ShutdownEndsAll'
  BY DEF ShutdownEndsAll
<1>7. QED
  BY <1>1, <1>2, <1>3, <1>4, <1>5, <1>6

-----------------------------------------------------------------------------
(* Commands.                                                               *)

\* A command begins only in a session that has not ended, under a key of its own.
LEMMA BeginExecutionInv ==
  ASSUME IInv, NEW c \in Command, NEW o \in Owner, NEW i \in Id,
         BeginExecution(c, o, i)
  PROVE  IInv'
<1> DEFINE s == sessions[i]
<1> USE TerminalAssumption DEF IInv, BeginExecution, MayBegin, Usable, enderVars, shutdownVars
<1>1. s \in Session /\ owner[s] # None /\ ~ended[s] /\ nextActiveID[s] \in Nat
  BY DEF TypeOK, MapInv
<1>2. /\ command' = [command EXCEPT ![c] = "registered"]
      /\ runsIn' = [runsIn EXCEPT ![c] = s]
      /\ activeID' = [activeID EXCEPT ![c] = nextActiveID[s] + 1]
      /\ nextActiveID' = [nextActiveID EXCEPT ![s] = @ + 1]
      /\ active' = [active EXCEPT ![s] = @ \union {c}]
      /\ UNCHANGED <<sessions, id, owner, ended, cancelled, held, ender, ending,
                     pending, shutdown, shuttingDown, expired>>
  OBVIOUS
<1>3. TypeOK'
  BY <1>1, <1>2 DEF TypeOK
<1>4. MapInv'
  BY <1>2 DEF MapInv
<1>5. KeyInv'
  <2>1. \A d \in Command : Begun(d)' <=> Begun(d) \/ d = c
    BY <1>2 DEF Begun, TypeOK
  <2>2. ~Begun(c)
    BY DEF Begun
  <2>3. \A d \in Command \ {c} : runsIn'[d] = runsIn[d] /\ activeID'[d] = activeID[d]
    BY <1>2 DEF TypeOK
  <2>4. runsIn'[c] = s /\ activeID'[c] = nextActiveID[s] + 1
    BY <1>2 DEF TypeOK
  <2>5. \A t \in Session : nextActiveID'[t] \in Nat /\ nextActiveID'[t] >= nextActiveID[t]
    BY <1>1, <1>2 DEF TypeOK
  <2>6. nextActiveID'[s] = nextActiveID[s] + 1
    BY <1>1, <1>2 DEF TypeOK
  <2>7. \A d \in Command : activeID[d] \in Nat
    BY DEF TypeOK
  <2>8. ASSUME NEW d \in Command, Begun(d)'
        PROVE  /\ runsIn'[d] \in Session
               /\ owner'[runsIn'[d]] # None
               /\ activeID'[d] <= nextActiveID'[runsIn'[d]]
    <3>1. CASE d = c
      BY <1>1, <1>2, <2>4, <2>6, <3>1
    <3>2. CASE d # c
      <4>1. /\ runsIn[d] \in Session
            /\ owner[runsIn[d]] # None
            /\ activeID[d] <= nextActiveID[runsIn[d]]
        BY <2>1, <2>8, <3>2 DEF KeyInv
      <4>2. nextActiveID[runsIn[d]] \in Nat
        BY <4>1 DEF TypeOK
      <4>3. QED
        BY <1>2, <2>3, <2>5, <2>7, <3>2, <4>1, <4>2
    <3>3. QED
      BY <3>1, <3>2
  <2>9. ASSUME NEW d \in Command, Begun(d), d # c, runsIn[d] = s
        PROVE  activeID[d] # nextActiveID[s] + 1
    BY <1>1, <2>7, <2>9 DEF KeyInv
  <2>10. ASSUME NEW d \in Command, NEW e \in Command, Begun(d)', Begun(e)',
                runsIn'[d] = runsIn'[e], activeID'[d] = activeID'[e]
         PROVE  d = e
    BY <2>1, <2>3, <2>4, <2>9, <2>10 DEF KeyInv
  <2>11. ASSUME NEW t \in Session, NEW d \in active'[t] PROVE Begun(d)' /\ runsIn'[d] = t
    <3>1. d \in active[t] \/ (d = c /\ t = s)
      BY <1>1, <1>2, <2>11 DEF TypeOK
    <3>2. d \in Command
      BY <3>1 DEF TypeOK
    <3>3. QED
      BY <2>1, <2>2, <2>3, <2>4, <3>1, <3>2 DEF KeyInv
  <2>12. QED
    BY <2>8, <2>10, <2>11 DEF KeyInv
<1>6. (PendingInv /\ EndingInv /\ EndOnce)'
  BY <1>2 DEF PendingInv, EndingInv, EndOnce
<1>7. LiveAreRegistered'
  BY <1>1, <1>2 DEF LiveAreRegistered, Live, TypeOK, KeyInv, Begun
<1>8. EndedAreCancelled'
  BY <1>1, <1>2 DEF EndedAreCancelled, Live, TypeOK
<1>9. ShutdownEndsAll'
  BY <1>2 DEF ShutdownEndsAll
<1>10. QED
  BY <1>3, <1>4, <1>5, <1>6, <1>7, <1>8, <1>9

\* The steps of a command that leave the sessions alone: a command that was not
\* live does not become so, and one that was keeps its place.
LEMMA CommandInv ==
  ASSUME IInv, NEW c \in Command,
         RunCommand(c) \/ ProcessExits(c) \/ DescendantsExit(c) \/ RunReturns(c)
           \/ CommandTimeout(c)
  PROVE  IInv'
<1> USE DEF IInv, RunCommand, ProcessExits, DescendantsExit, RunReturns, CommandTimeout,
            CommandStep, sessionVars, commandVars, enderVars, shutdownVars
<1>1. UNCHANGED <<sessions, id, owner, ended, nextActiveID, active, runsIn, activeID,
                  ender, ending, pending, shutdown, shuttingDown, expired>>
  OBVIOUS
<1>2. cancelled \subseteq cancelled' /\ cancelled' \subseteq Command
  BY DEF TypeOK
<1>3. \A d \in Command : (Live(d)' => Live(d)) /\ (Begun(d)' <=> Begun(d))
  BY DEF Live, Begun, TypeOK
<1>4. TypeOK'
  <2>1. held' \in SUBSET Command
    BY DEF TypeOK
  <2>2. command' \in [Command -> {"idle", "refused", "registered", "running",
                                  "exited", "finished", "done"}]
    BY DEF TypeOK
  <2>3. QED
    BY <1>1, <1>2, <2>1, <2>2 DEF TypeOK
<1>5. MapInv'
  BY <1>1 DEF MapInv
<1>6. KeyInv'
  <2>1. \A s \in Session : \A d \in active[s] : d \in Command
    BY DEF TypeOK
  <2>2. QED
    BY <1>1, <1>3, <2>1 DEF KeyInv
<1>7. (PendingInv /\ EndingInv /\ EndOnce)'
  BY <1>1 DEF PendingInv, EndingInv, EndOnce
<1>8. (LiveAreRegistered /\ EndedAreCancelled /\ ShutdownEndsAll)'
  BY <1>1, <1>2, <1>3 DEF LiveAreRegistered, EndedAreCancelled, ShutdownEndsAll
<1>9. QED
  BY <1>4, <1>5, <1>6, <1>7, <1>8

\* A refused command has never been in a session.
LEMMA RefuseExecutionInv ==
  ASSUME IInv, NEW c \in Command, NEW o \in Owner, NEW i \in Id,
         RefuseExecution(c, o, i)
  PROVE  IInv'
<1> USE DEF IInv, RefuseExecution, sessionVars, enderVars, shutdownVars
<1>1. UNCHANGED <<sessions, id, owner, ended, nextActiveID, active, runsIn, activeID,
                  cancelled, held, ender, ending, pending, shutdown, shuttingDown, expired>>
  OBVIOUS
<1>2. \A d \in Command : (Live(d)' => Live(d)) /\ (Begun(d)' <=> Begun(d))
  BY DEF Live, Begun, TypeOK
<1>3. \A s \in Session : \A d \in active[s] : d \in Command
  BY DEF TypeOK
<1>4. TypeOK'
  BY DEF TypeOK
<1>5. (MapInv /\ KeyInv /\ PendingInv /\ EndingInv /\ EndOnce)'
  BY <1>1, <1>2, <1>3 DEF MapInv, KeyInv, PendingInv, EndingInv, EndOnce
<1>6. (LiveAreRegistered /\ EndedAreCancelled /\ ShutdownEndsAll)'
  BY <1>1, <1>2 DEF LiveAreRegistered, EndedAreCancelled, ShutdownEndsAll
<1>7. QED
  BY <1>4, <1>5, <1>6

\* Unregistering finds the session the command ran in, ended or not, and removes
\* that command alone.
LEMMA UnregisterInv ==
  ASSUME IInv, NEW c \in Command, Unregister(c)
  PROVE  IInv'
<1> DEFINE s == runsIn[c]
<1> USE DEF IInv, Unregister, CommandStep, sessionVars, enderVars, shutdownVars
<1>1. Begun(c)
  BY DEF Begun
<1>2. s \in Session /\ sessions[id[s]] = s
  BY <1>1 DEF KeyInv, MapInv
<1>3. /\ command[c] = "finished"
      /\ command' = [command EXCEPT ![c] = "done"]
      /\ active' = [active EXCEPT ![s] = {d \in active[s] : activeID[d] # activeID[c]}]
      /\ UNCHANGED <<sessions, id, owner, ended, nextActiveID, runsIn, activeID, cancelled,
                     held, ender, ending, pending, shutdown, shuttingDown, expired>>
  BY <1>2
<1>4. \A d \in Command : (Live(d)' => Live(d) /\ d # c) /\ (Begun(d)' <=> Begun(d))
  BY <1>3 DEF Live, Begun, TypeOK
<1>5. TypeOK'
  BY <1>2, <1>3 DEF TypeOK
<1>6. \A t \in Session : active'[t] \subseteq active[t]
  BY <1>2, <1>3 DEF TypeOK
<1>7. KeyInv'
  <2>1. \A t \in Session : \A d \in active'[t] : d \in active[t] /\ d \in Command
    BY <1>6 DEF TypeOK
  <2>2. QED
    BY <1>3, <1>4, <2>1 DEF KeyInv
<1>8. \A t \in Session, d \in Command : d \in active[t] /\ d # c => d \in active'[t]
  <2> SUFFICES ASSUME NEW t \in Session, NEW d \in Command, d \in active[t], d # c
               PROVE  d \in active'[t]
    OBVIOUS
  <2>1. Begun(d) /\ runsIn[d] = t
    BY DEF KeyInv
  <2>2. t = s => activeID[d] # activeID[c]
    BY <1>1, <2>1 DEF KeyInv
  <2>3. QED
    BY <1>2, <1>3, <2>2 DEF TypeOK
<1>9. LiveAreRegistered'
  <2> SUFFICES ASSUME NEW d \in Command, Live(d)', ~ended[runsIn[d]]
               PROVE  d \in active'[runsIn[d]]
    BY <1>3 DEF LiveAreRegistered
  <2>1. Live(d) /\ d # c
    BY <1>4
  <2>2. d \in active[runsIn[d]] /\ runsIn[d] \in Session
    BY <2>1 DEF LiveAreRegistered, KeyInv, Begun, Live
  <2>3. QED
    BY <1>8, <2>1, <2>2
<1>10. (EndedAreCancelled /\ ShutdownEndsAll)'
  BY <1>3, <1>4 DEF EndedAreCancelled, ShutdownEndsAll
<1>11. (MapInv /\ PendingInv /\ EndingInv /\ EndOnce)'
  BY <1>3 DEF MapInv, PendingInv, EndingInv, EndOnce
<1>12. QED
  BY <1>5, <1>7, <1>9, <1>10, <1>11

-----------------------------------------------------------------------------
(* terminal.end_session and the loop over the cancel functions.            *)

\* Ending a session takes every live command of it into `cancels`.
LEMMA EndSessionInv ==
  ASSUME IInv, NEW e \in Ender, NEW o \in Owner, NEW i \in Id,
         EndSession(e, o, i)
  PROVE  IInv'
<1> DEFINE s == sessions[i]
<1> USE TerminalAssumption DEF IInv, EndSession, Usable, commandVars, shutdownVars
<1>1. s \in Session /\ ~ended[s] /\ s # None
  BY DEF TypeOK
<1>2. pending[e] = {} /\ ending[e] = None
  BY DEF PendingInv
<1>3. /\ ended' = [ended EXCEPT ![s] = TRUE]
      /\ ending' = [ending EXCEPT ![e] = s]
      /\ pending' = [pending EXCEPT ![e] = active[s]]
      /\ active' = [active EXCEPT ![s] = {}]
      /\ ender' = [ender EXCEPT ![e] = "cancelling"]
      /\ UNCHANGED <<sessions, id, owner, nextActiveID, command, runsIn, activeID,
                     cancelled, held, shutdown, shuttingDown, expired>>
  OBVIOUS
<1>4. TypeOK'
  BY <1>1, <1>3 DEF TypeOK, Canceller
<1>5. MapInv'
  BY <1>3 DEF MapInv
<1>6. KeyInv'
  <2>1. \A t \in Session : \A d \in active'[t] : d \in active[t]
    BY <1>1, <1>3 DEF TypeOK
  <2>2. \A d \in Command : Begun(d)' <=> Begun(d)
    BY <1>3 DEF Begun
  <2>3. \A t \in Session : \A d \in active[t] : d \in Command
    BY DEF TypeOK
  <2>4. QED
    BY <1>3, <2>1, <2>2, <2>3 DEF KeyInv
<1>7. PendingInv'
  BY <1>3 DEF PendingInv, TypeOK, Canceller
<1>8. EndingInv'
  BY <1>1, <1>3 DEF EndingInv, TypeOK
<1>9. EndOnce'
  <2>1. \A f \in Ender : ending[f] # s
    BY <1>1 DEF EndingInv
  <2>2. QED
    BY <1>1, <1>3, <2>1 DEF EndOnce, TypeOK
<1>10. LiveAreRegistered'
  BY <1>1, <1>3 DEF LiveAreRegistered, TypeOK, Live, KeyInv, Begun
<1>11. EndedAreCancelled'
  <2> SUFFICES ASSUME NEW d \in Command, Live(d)', ended'[runsIn[d]]
               PROVE  d \in cancelled \/ \E x \in Canceller : d \in pending'[x]
    BY <1>3 DEF EndedAreCancelled
  <2>1. Live(d)
    BY <1>3 DEF Live
  <2>2. CASE ended[runsIn[d]]
    <3>1. d \in cancelled \/ \E x \in Canceller : d \in pending[x]
      BY <2>1, <2>2 DEF EndedAreCancelled
    <3>2. \A x \in Canceller : d \in pending[x] => d \in pending'[x]
      BY <1>2, <1>3 DEF TypeOK
    <3>3. QED
      BY <3>1, <3>2
  <2>3. CASE ~ended[runsIn[d]]
    <3>1. runsIn[d] \in Session /\ d \in active[runsIn[d]]
      BY <2>1, <2>3 DEF LiveAreRegistered, KeyInv, Begun, Live
    <3>2. runsIn[d] = s
      BY <1>1, <1>3, <2>3, <3>1 DEF TypeOK
    <3>3. e \in Canceller /\ d \in pending'[e]
      BY <1>3, <3>1, <3>2 DEF Canceller, TypeOK
    <3>4. QED
      BY <3>3
  <2>4. QED
    BY <2>2, <2>3
<1>12. ShutdownEndsAll'
  BY <1>1, <1>3 DEF ShutdownEndsAll, TypeOK
<1>13. QED
  BY <1>4, <1>5, <1>6, <1>7, <1>8, <1>9, <1>10, <1>11, <1>12

\* A call that is refused or returns moves nothing but itself.
LEMMA EnderInv ==
  ASSUME IInv, NEW e \in Ender,
         EndReturns(e) \/ \E o \in Owner, i \in Id : RefuseEnd(e, o, i)
  PROVE  IInv'
<1> USE DEF IInv, EndReturns, RefuseEnd, sessionVars, commandVars, shutdownVars
<1>1. /\ UNCHANGED <<sessions, id, owner, ended, nextActiveID, active, command, runsIn,
                     activeID, cancelled, held, ending, pending, shutdown,
                     shuttingDown, expired>>
      /\ ender' = [ender EXCEPT ![e] = "returned"] \/ ender' = [ender EXCEPT ![e] = "refused"]
  OBVIOUS
<1>2. TypeOK'
  BY <1>1 DEF TypeOK
<1>3. PendingInv'
  BY <1>1 DEF PendingInv, TypeOK
<1>4. \A d \in Command : (Live(d)' <=> Live(d)) /\ (Begun(d)' <=> Begun(d))
  BY <1>1 DEF Live, Begun
<1>5. \A t \in Session : \A d \in active[t] : d \in Command
  BY DEF TypeOK
<1>6. (MapInv /\ KeyInv /\ EndingInv /\ EndOnce)'
  BY <1>1, <1>4, <1>5 DEF MapInv, KeyInv, EndingInv, EndOnce
<1>7. (LiveAreRegistered /\ EndedAreCancelled /\ ShutdownEndsAll)'
  BY <1>1, <1>4 DEF LiveAreRegistered, EndedAreCancelled, ShutdownEndsAll
<1>8. QED
  BY <1>2, <1>3, <1>6, <1>7

\* A command leaves the slice of cancel functions only by being cancelled.
LEMMA CancelInv ==
  ASSUME IInv, NEW x \in Canceller, Cancel(x)
  PROVE  IInv'
<1> USE DEF IInv, sessionVars, commandVars, enderVars, shutdownVars
<1>1. PICK c \in pending[x] :
        /\ cancelled' = cancelled \union {c}
        /\ pending' = [pending EXCEPT ![x] = @ \ {c}]
        /\ UNCHANGED <<sessions, id, owner, ended, nextActiveID, active, command, runsIn,
                       activeID, held, ender, ending, shutdown, shuttingDown, expired>>
  BY DEF Cancel
<1>2. c \in Command
  BY DEF TypeOK
<1>3. TypeOK'
  BY <1>1, <1>2 DEF TypeOK
<1>4. PendingInv'
  BY <1>1 DEF PendingInv, TypeOK, Canceller
<1>5. \A d \in Command : (Live(d)' <=> Live(d)) /\ (Begun(d)' <=> Begun(d))
  BY <1>1 DEF Live, Begun
<1>6. \A t \in Session : \A d \in active[t] : d \in Command
  BY DEF TypeOK
<1>7. (MapInv /\ KeyInv /\ EndingInv /\ EndOnce)'
  BY <1>1, <1>5, <1>6 DEF MapInv, KeyInv, EndingInv, EndOnce
<1>8. (LiveAreRegistered /\ ShutdownEndsAll)'
  BY <1>1, <1>5 DEF LiveAreRegistered, ShutdownEndsAll
<1>9. \A y \in Canceller, d \in Command :
         d \in pending[y] => d \in cancelled' \/ d \in pending'[y]
  BY <1>1 DEF TypeOK
<1>10. EndedAreCancelled'
  BY <1>1, <1>5, <1>9 DEF EndedAreCancelled
<1>11. QED
  BY <1>3, <1>4, <1>7, <1>8, <1>10

-----------------------------------------------------------------------------
(* Service.Shutdown.                                                       *)

\* The lock is taken once: every session the map knows ends, which is every one
\* that has been started, and every command registered will be cancelled.
LEMMA BeginShutdownInv ==
  ASSUME IInv, BeginShutdown
  PROVE  IInv'
<1> USE TerminalAssumption DEF IInv, BeginShutdown, commandVars, enderVars
<1>1. /\ shutdown' = "cancelling"
      /\ shuttingDown' = TRUE
      /\ ended' = [s \in Session |-> ended[s] \/ s \in Mapped]
      /\ pending' = [pending EXCEPT !["shutdown"] = Registered]
      /\ UNCHANGED <<sessions, id, owner, nextActiveID, active, command, runsIn, activeID,
                     cancelled, held, ender, ending, expired>>
  OBVIOUS
<1>2. pending["shutdown"] = {}
  BY DEF PendingInv
<1>3. Mapped \subseteq Session
  BY DEF Mapped, TypeOK
<1>4. Registered \subseteq Command
  BY <1>3 DEF Registered, TypeOK
<1>5. \A s \in Session : owner[s] # None => s \in Mapped
  BY DEF Mapped, MapInv
<1>6. TypeOK'
  <2>1. ended' \in [Session -> BOOLEAN]
    BY <1>1 DEF TypeOK
  <2>2. pending' \in [Canceller -> SUBSET Command]
    BY <1>1, <1>4 DEF TypeOK
  <2>3. QED
    BY <1>1, <2>1, <2>2 DEF TypeOK
<1>7. \A d \in Command : (Live(d)' <=> Live(d)) /\ (Begun(d)' <=> Begun(d))
  BY <1>1 DEF Live, Begun
<1>8. \A s \in Session : ended[s] => ended'[s]
  BY <1>1
<1>9. \A t \in Session : \A d \in active[t] : d \in Command
  BY DEF TypeOK
<1>10. (MapInv /\ KeyInv)'
  BY <1>1, <1>7, <1>9 DEF MapInv, KeyInv
<1>11. (EndingInv /\ EndOnce)'
  BY <1>1, <1>8 DEF EndingInv, EndOnce, TypeOK
<1>12. PendingInv'
  BY <1>1 DEF PendingInv, TypeOK, Canceller
<1>13. ShutdownEndsAll'
  BY <1>1, <1>5 DEF ShutdownEndsAll
<1>14. \A d \in Command : Live(d) => runsIn[d] \in Session /\ owner[runsIn[d]] # None
  BY DEF KeyInv, Begun, Live
<1>15. LiveAreRegistered'
  BY <1>1, <1>7, <1>8, <1>14 DEF LiveAreRegistered
<1>16. EndedAreCancelled'
  <2> SUFFICES ASSUME NEW d \in Command, Live(d)
               PROVE  d \in cancelled \/ \E x \in Canceller : d \in pending'[x]
    BY <1>1, <1>7 DEF EndedAreCancelled
  <2>1. CASE ended[runsIn[d]]
    <3>1. d \in cancelled \/ \E x \in Canceller : d \in pending[x]
      BY <2>1 DEF EndedAreCancelled
    <3>2. \A x \in Canceller : d \in pending[x] => d \in pending'[x]
      BY <1>1, <1>2 DEF TypeOK
    <3>3. QED
      BY <3>1, <3>2
  <2>2. CASE ~ended[runsIn[d]]
    <3>1. d \in active[runsIn[d]] /\ runsIn[d] \in Mapped
      BY <1>5, <1>14, <2>2 DEF LiveAreRegistered
    <3>2. d \in Registered
      BY <3>1 DEF Registered
    <3>3. "shutdown" \in Canceller /\ d \in pending'["shutdown"]
      BY <1>1, <3>2 DEF Canceller, TypeOK
    <3>4. QED
      BY <3>3
  <2>3. QED
    BY <2>1, <2>2
<1>17. QED
  BY <1>6, <1>10, <1>11, <1>12, <1>13, <1>15, <1>16

\* The other steps of Shutdown, and its deadline, only move Shutdown.
LEMMA ShutdownInv ==
  ASSUME IInv,
         AllCancelled \/ NoneRegistered \/ SomeRegistered \/ Tick \/ ShutdownTimeout \/ Expire
  PROVE  IInv'
<1> USE DEF IInv, AllCancelled, NoneRegistered, SomeRegistered, Tick, ShutdownTimeout,
            Expire, ShutdownStep, sessionVars, commandVars, enderVars
<1>1. UNCHANGED <<sessions, id, owner, ended, nextActiveID, active, command, runsIn,
                  activeID, cancelled, held, ender, ending, pending, shuttingDown>>
  OBVIOUS
<1>2. shutdown' = "idle" => shutdown = "idle"
  OBVIOUS
<1>3. TypeOK'
  BY DEF TypeOK
<1>4. \A d \in Command : (Live(d)' <=> Live(d)) /\ (Begun(d)' <=> Begun(d))
  BY <1>1 DEF Live, Begun
<1>5. \A t \in Session : \A d \in active[t] : d \in Command
  BY DEF TypeOK
<1>6. (MapInv /\ KeyInv /\ PendingInv /\ EndingInv /\ EndOnce)'
  BY <1>1, <1>2, <1>4, <1>5 DEF MapInv, KeyInv, PendingInv, EndingInv, EndOnce
<1>7. (LiveAreRegistered /\ EndedAreCancelled /\ ShutdownEndsAll)'
  BY <1>1, <1>4 DEF LiveAreRegistered, EndedAreCancelled, ShutdownEndsAll
<1>8. QED
  BY <1>3, <1>6, <1>7

-----------------------------------------------------------------------------
\* Every step of the service keeps the inductive invariant.
LEMMA StepInv == ASSUME FreshIds PROVE IInv /\ [Next]_vars => IInv'
<1> SUFFICES ASSUME IInv, [Next]_vars PROVE IInv'
  OBVIOUS
<1>1. CASE \E s \in Session, o \in Owner, i \in Id : StartSession(s, o, i)
  BY <1>1, StartSessionInv
<1>2. ASSUME NEW c \in Command, Exec(c) PROVE IInv'
  BY <1>2, BeginExecutionInv, RefuseExecutionInv, CommandInv, UnregisterInv DEF Exec
<1>3. ASSUME NEW c \in Command, DescendantsExit(c) PROVE IInv'
  BY <1>3, CommandInv
<1>4. ASSUME NEW e \in Ender, End(e) PROVE IInv'
  BY <1>4, EndSessionInv, EnderInv DEF End
<1>5. ASSUME NEW x \in Canceller, Cancel(x) PROVE IInv'
  BY <1>5, CancelInv
<1>6. CASE Shutdown \/ Expire
  BY <1>6, BeginShutdownInv, ShutdownInv DEF Shutdown
<1>7. CASE UNCHANGED vars
  <2>1. UNCHANGED <<sessions, id, owner, ended, nextActiveID, active, command, runsIn,
                    activeID, cancelled, held, ender, ending, pending, shutdown,
                    shuttingDown, expired>>
    BY <1>7 DEF vars, sessionVars, commandVars, enderVars, shutdownVars
  <2>2. TypeOK'
    BY <2>1 DEF IInv, TypeOK
  <2>3. \A d \in Command : (Live(d)' <=> Live(d)) /\ (Begun(d)' <=> Begun(d))
    BY <2>1 DEF Live, Begun
  <2>4. \A t \in Session : \A d \in active[t] : d \in Command
    BY DEF IInv, TypeOK
  <2>5. (MapInv /\ KeyInv /\ PendingInv /\ EndingInv /\ EndOnce)'
    BY <2>1, <2>3, <2>4 DEF IInv, MapInv, KeyInv, PendingInv, EndingInv, EndOnce
  <2>6. (LiveAreRegistered /\ EndedAreCancelled /\ ShutdownEndsAll)'
    BY <2>1, <2>3 DEF IInv, LiveAreRegistered, EndedAreCancelled, ShutdownEndsAll
  <2>7. QED
    BY <2>2, <2>5, <2>6 DEF IInv
<1>8. QED
  BY <1>1, <1>2, <1>3, <1>4, <1>5, <1>6, <1>7 DEF Next

\* With fresh ids, the inductive invariant holds of every reachable state.
THEOREM Invariance == ASSUME FreshIds PROVE Spec => []IInv
BY InitInv, StepInv, PTL DEF Spec

\* Every variable stays in its type, the activeIDs among the naturals.
THEOREM TypeCorrect == ASSUME FreshIds PROVE Spec => []TypeOK
<1>1. IInv => TypeOK
  BY DEF IInv
<1>2. QED
  BY Invariance, <1>1, PTL

\* However begin, end, unregister and Shutdown interleave, no command outlives
\* the end of its session unless someone is about to cancel it.
THEOREM EndReachesCommands == ASSUME FreshIds PROVE Spec => []EndedAreCancelled
<1>1. IInv => EndedAreCancelled
  BY DEF IInv
<1>2. QED
  BY Invariance, <1>1, PTL

\* The commands of a session that has not ended are where its end finds them.
THEOREM CommandsAreFound == ASSUME FreshIds PROVE Spec => []LiveAreRegistered
<1>1. IInv => LiveAreRegistered
  BY DEF IInv
<1>2. QED
  BY Invariance, <1>1, PTL

\* Shutdown ends every session that has been started, and no other one starts.
THEOREM ShutdownReachesSessions == ASSUME FreshIds PROVE Spec => []ShutdownEndsAll
<1>1. IInv => ShutdownEndsAll
  BY DEF IInv
<1>2. QED
  BY Invariance, <1>1, PTL

\* At most one call of end_session ends a session.
THEOREM EndsOnce == ASSUME FreshIds PROVE Spec => []EndOnce
<1>1. IInv => EndOnce
  BY DEF IInv
<1>2. QED
  BY Invariance, <1>1, PTL

-----------------------------------------------------------------------------
(* What the answer of terminal.end_session means.  The call that ends a    *)
(* session has taken over all its live commands, and keeps each until it   *)
(* has cancelled it.                                                       *)

TakenOver ==
  /\ \A e \in Ender, c \in Command :
       Live(c) /\ runsIn[c] = ending[e] => c \in cancelled \union pending[e]
  /\ \A e \in Ender : ender[e] = "returned" => pending[e] = {}

LEMMA TakenOverInit == Init => TakenOver
BY DEF Init, TakenOver, Live

\* The critical section of endSession takes over what is registered.
LEMMA EndSessionTakesOver ==
  ASSUME IInv, TakenOver, NEW e \in Ender, NEW o \in Owner, NEW i \in Id,
         EndSession(e, o, i)
  PROVE  TakenOver'
<1> DEFINE s == sessions[i]
<1> USE DEF EndSession, Usable, commandVars, shutdownVars
<1>1. s \in Session /\ ~ended[s]
  BY DEF IInv, TypeOK
<1>2. ending' = [ending EXCEPT ![e] = s] /\ pending' = [pending EXCEPT ![e] = active[s]]
      /\ ender' = [ender EXCEPT ![e] = "cancelling"]
      /\ UNCHANGED <<command, runsIn, cancelled>>
  OBVIOUS
<1>3. \A c \in Command : Live(c) /\ runsIn[c] = s => c \in active[s]
  BY <1>1 DEF IInv, LiveAreRegistered
<1>4. ASSUME NEW f \in Ender, NEW c \in Command, Live(c)', runsIn'[c] = ending'[f]
      PROVE  c \in cancelled' \union pending'[f]
  <2>1. Live(c) /\ runsIn[c] = runsIn'[c]
    BY <1>2, <1>4 DEF Live
  <2>2. CASE f = e
    BY <1>2, <1>3, <1>4, <2>1, <2>2 DEF IInv, TypeOK, Canceller
  <2>3. CASE f # e
    BY <1>2, <1>4, <2>1, <2>3 DEF TakenOver, IInv, TypeOK, Canceller
  <2>4. QED
    BY <2>2, <2>3
<1>5. \A f \in Ender : ender'[f] = "returned" => pending'[f] = {}
  BY <1>2 DEF TakenOver, IInv, TypeOK, Canceller
<1>6. QED
  BY <1>4, <1>5 DEF TakenOver

\* No command begins in a session that somebody is ending.
LEMMA BeginTakesOver ==
  ASSUME IInv, TakenOver, NEW c \in Command, NEW o \in Owner, NEW i \in Id,
         BeginExecution(c, o, i)
  PROVE  TakenOver'
<1> DEFINE s == sessions[i]
<1> USE DEF BeginExecution, MayBegin, Usable, enderVars, shutdownVars
<1>1. s \in Session /\ ~ended[s]
  BY DEF IInv, TypeOK
<1>2. \A e \in Ender : ending[e] # s
  BY <1>1, TerminalAssumption DEF IInv, EndingInv
<1>3. /\ \A d \in Command \ {c} : command'[d] = command[d] /\ runsIn'[d] = runsIn[d]
      /\ runsIn'[c] = s
      /\ UNCHANGED <<ender, ending, pending, cancelled>>
  BY DEF IInv, TypeOK
<1>4. QED
  BY <1>2, <1>3 DEF TakenOver, Live

\* A command is dropped from the slice when it has been cancelled.
LEMMA CancelTakesOver ==
  ASSUME IInv, TakenOver, NEW x \in Canceller, Cancel(x)
  PROVE  TakenOver'
<1>1. PICK c \in pending[x] : /\ cancelled' = cancelled \union {c}
                              /\ pending' = [pending EXCEPT ![x] = @ \ {c}]
                              /\ UNCHANGED <<sessionVars, active, commandVars, enderVars,
                                             shutdownVars>>
  BY DEF Cancel
<1>2. \A e \in Ender : pending'[e] \subseteq pending[e]
                       /\ pending[e] \subseteq pending'[e] \union cancelled'
  BY <1>1 DEF IInv, TypeOK, Canceller
<1>3. UNCHANGED <<command, runsIn, ender, ending>>
  BY <1>1 DEF commandVars, enderVars
<1>4. QED
  BY <1>1, <1>2, <1>3 DEF TakenOver, Live

\* The other steps bring no command to life, end nothing and let go of nothing.
LEMMA OthersTakeOver ==
  ASSUME IInv, TakenOver,
         \A c \in Command : Live(c)' => Live(c) /\ runsIn'[c] = runsIn[c],
         cancelled \subseteq cancelled',
         \A e \in Ender : pending'[e] = pending[e] /\ ending'[e] = ending[e],
         \A e \in Ender : ender'[e] = "returned" => pending[e] = {}
  PROVE  TakenOver'
BY DEF TakenOver

LEMMA TakenOverStep == IInv /\ TakenOver /\ [Next]_vars => TakenOver'
<1> SUFFICES ASSUME IInv, TakenOver, [Next]_vars PROVE TakenOver'
  OBVIOUS
<1> USE DEF sessionVars, commandVars, enderVars, shutdownVars
<1>1. ASSUME NEW s \in Session, NEW o \in Owner, NEW i \in Id, StartSession(s, o, i)
      PROVE  TakenOver'
  BY <1>1 DEF StartSession, TakenOver, Live
<1>2. ASSUME NEW c \in Command,
             RunCommand(c) \/ ProcessExits(c) \/ DescendantsExit(c) \/ RunReturns(c)
               \/ CommandTimeout(c) \/ Unregister(c)
               \/ \E o \in Owner, i \in Id : RefuseExecution(c, o, i)
      PROVE  TakenOver'
  <2>1. \A d \in Command : Live(d)' => Live(d) /\ runsIn'[d] = runsIn[d]
    BY <1>2 DEF RunCommand, ProcessExits, DescendantsExit, RunReturns, CommandTimeout,
         Unregister, RefuseExecution, CommandStep, Live, IInv, TypeOK
  <2>2. cancelled \subseteq cancelled' /\ UNCHANGED <<ender, ending, pending>>
    BY <1>2 DEF RunCommand, ProcessExits, DescendantsExit, RunReturns, CommandTimeout,
         Unregister, RefuseExecution, CommandStep
  <2>3. QED
    BY <2>1, <2>2, OthersTakeOver DEF TakenOver
<1>3. ASSUME NEW e \in Ender, EndReturns(e) \/ \E o \in Owner, i \in Id : RefuseEnd(e, o, i)
      PROVE  TakenOver'
  <2>1. UNCHANGED <<command, runsIn, cancelled, ending, pending>>
    BY <1>3 DEF EndReturns, RefuseEnd
  <2>2. \A f \in Ender : ender'[f] = "returned" => pending[f] = {}
    BY <1>3 DEF EndReturns, RefuseEnd, TakenOver, IInv, TypeOK
  <2>3. QED
    BY <2>1, <2>2 DEF TakenOver, Live
<1>4. CASE Shutdown \/ Expire
  <2>1. UNCHANGED <<command, runsIn, cancelled, ending, ender>>
    BY <1>4 DEF Shutdown, BeginShutdown, AllCancelled, NoneRegistered, SomeRegistered,
         Tick, ShutdownTimeout, ShutdownStep, Expire
  <2>2. \A e \in Ender : pending'[e] = pending[e]
    BY <1>4, TerminalAssumption DEF Shutdown, BeginShutdown, AllCancelled, NoneRegistered,
         SomeRegistered, Tick, ShutdownTimeout, ShutdownStep, Expire, IInv, TypeOK, Canceller
  <2>3. QED
    BY <2>1, <2>2 DEF TakenOver, Live
<1>5. CASE UNCHANGED vars
  BY <1>5 DEF vars, TakenOver, Live
<1>6. QED
  BY <1>1, <1>2, <1>3, <1>4, <1>5, EndSessionTakesOver, BeginTakesOver, CancelTakesOver
     DEF Next, Exec, End

\* Whoever is told that a session has ended is told that its commands are cancelled.
THEOREM AnswersMeanCancelled == ASSUME FreshIds PROVE Spec => []AnsweredEndsCancelled
<1>1. Spec => []TakenOver
  BY TakenOverInit, TakenOverStep, Invariance, PTL DEF Spec
<1>2. TakenOver => AnsweredEndsCancelled
  BY DEF TakenOver, AnsweredEndsCancelled
<1>3. QED
  BY <1>1, <1>2, PTL

=============================================================================
