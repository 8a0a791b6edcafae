--------------------------- MODULE RequestPipeline ---------------------------
(***************************************************************************)
(* What internal/runtime does with a request it has admitted: the session  *)
(* check, the policy decision, the execution of a tool, and the writes to  *)
(* the store and to the audit log (handler.go, policy.go, persistence.go), *)
(* with the terminal sessions' rows and their owners in memory.  Requests  *)
(* run concurrently, any write may fail, and the process may crash and     *)
(* start again between any two steps: the files survive, memory does not.  *)
(***************************************************************************)
EXTENDS Naturals, Sequences

CONSTANTS
  Request,    \* the requests of all clients
  Session,    \* the client sessions that can be bootstrapped
  Terminal,   \* the terminal sessions that can be started
  WritesMayFail   \* can the disk fail, apart from key conflicts?

None == "none"

ASSUME PipelineAssumption ==
  /\ None \notin Session \union Terminal
  /\ WritesMayFail \in BOOLEAN

VARIABLES
  phase,        \* where each request is
  method,       \* its method
  session,      \* the session it bootstraps or names
  target,       \* the terminal session it names or has started
  verdict,      \* what policy decided about it
  answer,       \* its response, once decided
  todo,         \* the writes it must make before it may answer
  live,         \* MemoryService.records: the sessions that are valid
  born,         \* the sessions bootstrapped so far
  terminal,     \* the terminal sessions in memory
  owner,        \* the session that started each of them
  executed,     \* the requests whose tool has been invoked
  stored,       \* rows and audit events on disk, with the request of each
  terminalRow   \* the status column of terminal_sessions

requestVars == <<method, session, target>>
vars == <<phase, verdict, answer, todo, requestVars, live, born, terminal, owner,
          executed, stored, terminalRow>>

\* terminal.start_session and terminal.end_session have a method of their own and
\* are also reached through tools.call.  "tool" is any other tool, either way;
\* "other" a name in a guarded namespace that no handler serves.
Method == {"session.bootstrap", "session.status", "tools.list", "tool",
           "terminal.start", "call terminal.start",
           "terminal.end", "call terminal.end", "other"}

Starts == {"terminal.start", "call terminal.start"}
Ends == {"terminal.end", "call terminal.end"}
Tools == {"tool"} \union Starts \union Ends

\* The action policy decides on, which is also all the resource is made of.
Action(m) ==
  CASE m \in Starts -> "terminal.start_session"
    [] m \in Ends -> "terminal.end_session"
    [] OTHER -> m

Decision == {"allow", "deny", "approval required", "error"}

Answer == {"result", "invalid token", "internal error", "invalid params",
           "method not found", "denied", "approval required", "failed",
           "timeout", "storage error"}

-----------------------------------------------------------------------------
(* The writes.                                                             *)

Table == {"audit", "sessions", "executions", "errors", "approvals", "terminals"}

\* The types of the audit events, and what the rows say.
Content == {"session.bootstrapped", "tool.requested", "tool.completed", "tool.failed",
            "policy.denied", "approval.required", "terminal.session.started",
            "terminal.session.ended", "upserted", "succeeded", "failed", "execution",
            "denied", "pending", "active", "ended"}

Write == [to : Table, what : Content]

Put(table, what) == [to |-> table, what |-> what]

BootstrapWrites_AuditOnly == <<Put("audit", "session.bootstrapped")>>

\* persistSessionBootstrap
BootstrapWrites ==
  <<Put("sessions", "upserted"), Put("audit", "session.bootstrapped")>>

SuccessWrites_CompletedFirst ==
  <<Put("audit", "tool.requested"), Put("audit", "tool.completed"),
    Put("executions", "succeeded")>>

\* persistExecutorExecution and persistOperationalExecution
SuccessWrites ==
  <<Put("audit", "tool.requested"), Put("executions", "succeeded"),
    Put("audit", "tool.completed")>>

\* persistExecutionFailure
FailureWrites ==
  <<Put("audit", "tool.requested"), Put("executions", "failed"),
    Put("errors", "execution"), Put("audit", "tool.failed")>>

\* persistPolicyDenied
DeniedWrites == <<Put("errors", "denied"), Put("audit", "policy.denied")>>

\* persistApprovalRequired
ApprovalWrites == <<Put("approvals", "pending"), Put("audit", "approval.required")>>

TerminalWrites_Skipped(m) == <<>>

\* persistTerminalSessionStarted and persistTerminalSessionEnded, which only the
\* handlers of the two methods call.
TerminalWrites(m) ==
  CASE m = "terminal.start" ->
         <<Put("terminals", "active"), Put("audit", "terminal.session.started")>>
    [] m = "terminal.end" ->
         <<Put("terminals", "ended"), Put("audit", "terminal.session.ended")>>
    [] OTHER -> <<>>

Has(r, table, what) == <<r, Put(table, what)>> \in stored

-----------------------------------------------------------------------------
TypeOK ==
  /\ phase \in [Request -> {"idle", "received", "authenticated", "authorized",
                            "writing", "answered", "lost"}]
  /\ method \in [Request -> Method \union {None}]
  /\ session \in [Request -> Session \union {None}]
  /\ target \in [Request -> Terminal \union {None}]
  /\ verdict \in [Request -> Decision \union {None}]
  /\ answer \in [Request -> Answer \union {None}]
  /\ todo \in [Request -> Seq(Write)]
  /\ live \in SUBSET Session
  /\ born \in SUBSET Session
  /\ terminal \in [Terminal -> {"free", "active", "ended", "gone"}]
  /\ owner \in [Terminal -> Session \union {None}]
  /\ executed \in SUBSET Request
  /\ stored \in SUBSET (Request \X Write)
  /\ terminalRow \in [Terminal -> {None, "active", "ended"}]

Init ==
  /\ phase = [r \in Request |-> "idle"]
  /\ method = [r \in Request |-> None]
  /\ session = [r \in Request |-> None]
  /\ target = [r \in Request |-> None]
  /\ verdict = [r \in Request |-> None]
  /\ answer = [r \in Request |-> None]
  /\ todo = [r \in Request |-> <<>>]
  /\ live = {}
  /\ born = {}
  /\ terminal = [t \in Terminal |-> "free"]
  /\ owner = [t \in Terminal |-> None]
  /\ executed = {}
  /\ stored = {}
  /\ terminalRow = [t \in Terminal |-> None]

Answered(r, m, result) == phase[r] = "answered" /\ method[r] \in m /\ answer[r] = result

\* The sessions and the terminal sessions that clients have been told of.
Known == {session[r] : r \in {q \in Request : Answered(q, {"session.bootstrap"}, "result")}}
Told == {target[r] : r \in {q \in Request : Answered(q, Starts, "result")}}

Reply(r, a) ==
  /\ phase' = [phase EXCEPT ![r] = "answered"]
  /\ answer' = [answer EXCEPT ![r] = a]
  /\ UNCHANGED todo

\* The answer is decided, and is given once the writes are made.
ReplyAfter(r, writes, a) ==
  /\ phase' = [phase EXCEPT ![r] = "writing"]
  /\ answer' = [answer EXCEPT ![r] = a]
  /\ todo' = [todo EXCEPT ![r] = writes]

Proceed(r, p) ==
  /\ phase' = [phase EXCEPT ![r] = p]
  /\ UNCHANGED <<answer, todo>>

-----------------------------------------------------------------------------
(* The clients.                                                            *)

\* A client sends a request with a token and a terminal session id it was given,
\* or with neither.
Receive(r, m, s, t) ==
  /\ phase[r] = "idle"
  /\ s \in IF m = "session.bootstrap" THEN {None} ELSE Known \union {None}
  /\ t \in IF m \in Ends THEN Told \union {None} ELSE {None}
  /\ method' = [method EXCEPT ![r] = m]
  /\ session' = [session EXCEPT ![r] = s]
  /\ target' = [target EXCEPT ![r] = t]
  /\ Proceed(r, "received")
  /\ UNCHANGED <<verdict, live, born, terminal, owner, executed, stored, terminalRow>>

-----------------------------------------------------------------------------
(* handleSessionBootstrap, authenticateRequest, handleSessionStatus.       *)

RefuseBootstrap(r) ==
  /\ phase[r] = "received"
  /\ method[r] = "session.bootstrap"
  /\ \E a \in {"invalid token", "invalid params", "internal error"} : Reply(r, a)
  /\ UNCHANGED <<requestVars, verdict, live, born, terminal, owner, executed, stored, terminalRow>>

Bootstrap(r, s) ==
  /\ phase[r] = "received"
  /\ method[r] = "session.bootstrap"
  /\ s \notin born
  /\ born' = born \union {s}
  /\ live' = live \union {s}
  /\ session' = [session EXCEPT ![r] = s]
  /\ ReplyAfter(r, BootstrapWrites, "result")
  /\ UNCHANGED <<method, target, verdict, terminal, owner, executed, stored, terminalRow>>

Authenticate(r) ==
  /\ phase[r] = "received"
  /\ method[r] # "session.bootstrap"
  /\ IF session[r] \notin live THEN Reply(r, "invalid token")
     ELSE IF method[r] = "session.status" THEN Reply(r, "result")
     ELSE Proceed(r, "authenticated")
  /\ UNCHANGED <<requestVars, verdict, live, born, terminal, owner, executed, stored, terminalRow>>

\* Validate finds the session expired and deletes it.
ExpireSession(s) ==
  /\ s \in live
  /\ live' = live \ {s}
  /\ UNCHANGED <<phase, verdict, answer, todo, requestVars, born, terminal, owner,
                 executed, stored, terminalRow>>

-----------------------------------------------------------------------------
(* authorizeRequest, and the switch of Handle after it.                    *)

Authorize_Fallthrough(r, d) ==
  /\ phase[r] = "authenticated"
  /\ verdict' = [verdict EXCEPT ![r] = d]
  /\ CASE d \in {"allow", "approval required"} -> Proceed(r, "authorized")
       [] d = "deny" -> ReplyAfter(r, DeniedWrites, "denied")
       [] d = "error" -> \E a \in {"internal error", "invalid params"} : Reply(r, a)
  /\ UNCHANGED <<requestVars, live, born, terminal, owner, executed, stored, terminalRow>>

Authorize(r, d) ==
  /\ phase[r] = "authenticated"
  /\ verdict' = [verdict EXCEPT ![r] = d]
  /\ CASE d = "allow" -> Proceed(r, "authorized")
       [] d = "deny" -> ReplyAfter(r, DeniedWrites, "denied")
       [] d = "approval required" -> ReplyAfter(r, ApprovalWrites, "approval required")
       [] d = "error" -> \E a \in {"internal error", "invalid params"} : Reply(r, a)
  /\ UNCHANGED <<requestVars, live, born, terminal, owner, executed, stored, terminalRow>>

NoHandler(r) ==
  /\ phase[r] = "authorized"
  /\ method[r] = "other"
  /\ Reply(r, "method not found")
  /\ UNCHANGED <<requestVars, verdict, live, born, terminal, owner, executed, stored, terminalRow>>

ListTools(r) ==
  /\ phase[r] = "authorized"
  /\ method[r] = "tools.list"
  /\ ReplyAfter(r, SuccessWrites, "result")
  /\ UNCHANGED <<requestVars, verdict, live, born, terminal, owner, executed, stored, terminalRow>>

\* The parameters do not decode, or the tool is not in the registry.
RejectCall(r) ==
  /\ phase[r] = "authorized"
  /\ method[r] \in Tools
  /\ \E a \in {"invalid params", "internal error"} : Reply(r, a)
  /\ UNCHANGED <<requestVars, verdict, live, born, terminal, owner, executed, stored, terminalRow>>

-----------------------------------------------------------------------------
(* Executor.Execute and the tool's Invoke.                                 *)

\* How a deadline that has passed is answered: tools.call and terminal.exec report
\* a timeout, the handlers of the other methods a failure.
LateAnswers(m) ==
  CASE m \in {"terminal.start", "terminal.end"} -> {"failed"}
    [] m = "tool" -> {"failed", "timeout"}
    [] OTHER -> {"timeout"}

\* A tool that did its work is still answered as late when it finished after its
\* deadline.
Executed(r) ==
  /\ phase[r] = "authorized"
  /\ executed' = executed \union {r}
  /\ \/ ReplyAfter(r, SuccessWrites \o TerminalWrites(method[r]), "result")
     \/ \E a \in LateAnswers(method[r]) : ReplyAfter(r, FailureWrites, a)

RunTool(r) ==
  /\ method[r] = "tool"
  /\ Executed(r)
  /\ UNCHANGED <<requestVars, verdict, live, born, terminal, owner, stored, terminalRow>>

StartTerminal(r, t) ==
  /\ method[r] \in Starts
  /\ terminal[t] = "free"
  /\ terminal' = [terminal EXCEPT ![t] = "active"]
  /\ owner' = [owner EXCEPT ![t] = session[r]]
  /\ target' = [target EXCEPT ![r] = t]
  /\ Executed(r)
  /\ UNCHANGED <<method, session, verdict, live, born, stored, terminalRow>>

MayEnd(r, t) == terminal[t] = "active" /\ owner[t] = session[r]

EndTerminal(r, t) ==
  /\ method[r] \in Ends
  /\ target[r] = t
  /\ MayEnd(r, t)
  /\ terminal' = [terminal EXCEPT ![t] = "ended"]
  /\ Executed(r)
  /\ UNCHANGED <<requestVars, verdict, live, born, owner, stored, terminalRow>>

\* The executor or the tool returns an error and has changed nothing.  A call of
\* end_session does when there is no such session, or it is not active or not
\* the caller's.
ToolFails(r) ==
  /\ phase[r] = "authorized"
  /\ method[r] \in Tools
  /\ executed' = executed \union {r}
  /\ \E a \in {"failed"} \union LateAnswers(method[r]) : ReplyAfter(r, FailureWrites, a)
  /\ UNCHANGED <<requestVars, verdict, live, born, terminal, owner, stored, terminalRow>>

-----------------------------------------------------------------------------
(* The writes of persistence.go, one at a time.                            *)

\* approvals.approval_id is a primary key, a hash of the action, the resource and
\* the reason: two requests with the same action may have the same.
MayConflict(r, w) ==
  /\ w.to = "approvals"
  /\ \E q \in Request : <<q, w>> \in stored /\ Action(method[q]) = Action(method[r])

\* Those that start a terminal session do, as it is their action's rule that asks
\* for the approval; the others may be different tools, or have different reasons.
Conflicts(r, w) == MayConflict(r, w) /\ method[r] \in Starts

WriteNext_AnyTable(r) ==
  /\ phase[r] = "writing"
  /\ todo[r] # <<>>
  /\ LET w == Head(todo[r])
     IN  /\ ~Conflicts(r, w)
         /\ stored' = stored \union {<<r, w>>}
         /\ terminalRow' = [terminalRow EXCEPT ![target[r]] = w.what]
  /\ todo' = [todo EXCEPT ![r] = Tail(@)]
  /\ UNCHANGED <<phase, verdict, answer, requestVars, live, born, terminal, owner, executed>>

WriteNext(r) ==
  /\ phase[r] = "writing"
  /\ todo[r] # <<>>
  /\ LET w == Head(todo[r])
     IN  /\ ~Conflicts(r, w)
         /\ stored' = stored \union {<<r, w>>}
         /\ terminalRow' = IF w.to = "terminals"
                             THEN [terminalRow EXCEPT ![target[r]] = w.what]
                             ELSE terminalRow
  /\ todo' = [todo EXCEPT ![r] = Tail(@)]
  /\ UNCHANGED <<phase, verdict, answer, requestVars, live, born, terminal, owner, executed>>

WriteFails_Ignored(r) ==
  /\ phase[r] = "writing"
  /\ todo[r] # <<>>
  /\ todo' = [todo EXCEPT ![r] = Tail(@)]
  /\ UNCHANGED <<phase, verdict, answer, requestVars, live, born, terminal, owner,
                 executed, stored, terminalRow>>

\* The first write that fails ends the handler.  An audit event whose Sync failed
\* may be in the file all the same.
WriteFails(r) ==
  /\ phase[r] = "writing"
  /\ todo[r] # <<>>
  /\ LET w == Head(todo[r])
     IN  /\ WritesMayFail \/ MayConflict(r, w)
         /\ \/ UNCHANGED stored
            \/ w.to = "audit" /\ stored' = stored \union {<<r, w>>}
  /\ phase' = [phase EXCEPT ![r] = "answered"]
  /\ answer' = [answer EXCEPT ![r] = "storage error"]
  /\ todo' = [todo EXCEPT ![r] = <<>>]
  /\ UNCHANGED <<requestVars, verdict, live, born, terminal, owner, executed, terminalRow>>

Respond(r) ==
  /\ phase[r] = "writing"
  /\ todo[r] = <<>>
  /\ Proceed(r, "answered")
  /\ UNCHANGED <<requestVars, verdict, live, born, terminal, owner, executed, stored, terminalRow>>

\* The process dies and is started again.
Crash ==
  /\ phase' = [r \in Request |->
                 IF phase[r] \in {"idle", "answered"} THEN phase[r] ELSE "lost"]
  /\ todo' = [r \in Request |-> <<>>]
  /\ live' = {}
  /\ terminal' = [t \in Terminal |-> IF terminal[t] = "free" THEN "free" ELSE "gone"]
  /\ UNCHANGED <<verdict, answer, requestVars, born, owner, executed, stored, terminalRow>>

-----------------------------------------------------------------------------
Serve(r) ==
  \/ \E m \in Method, s \in Session \union {None}, t \in Terminal \union {None} :
       Receive(r, m, s, t)
  \/ RefuseBootstrap(r)
  \/ \E s \in Session : Bootstrap(r, s)
  \/ Authenticate(r)
  \/ \E d \in Decision : Authorize(r, d)
  \/ NoHandler(r)
  \/ ListTools(r)
  \/ RejectCall(r)
  \/ RunTool(r)
  \/ \E t \in Terminal : StartTerminal(r, t) \/ EndTerminal(r, t)
  \/ ToolFails(r)
  \/ WriteNext(r)
  \/ WriteFails(r)
  \/ Respond(r)

Next ==
  \/ \E r \in Request : Serve(r)
  \/ \E s \in Session : ExpireSession(s)
  \/ Crash

Spec == Init /\ [][Next]_vars

-----------------------------------------------------------------------------
(* Properties.                                                             *)

\* An answer is given only when what it says is on disk: a result with the whole
\* record of its execution, a failure with its error, a refusal with its reason,
\* also when the disk fails between two of the writes.
AnswerIsRecorded ==
  \A r \in Request : phase[r] = "answered" =>
    /\ answer[r] = "result" /\ method[r] = "session.bootstrap" =>
         Has(r, "sessions", "upserted") /\ Has(r, "audit", "session.bootstrapped")
    /\ answer[r] = "result" /\ method[r] \in Tools \union {"tools.list"} =>
         /\ Has(r, "audit", "tool.requested")
         /\ Has(r, "executions", "succeeded")
         /\ Has(r, "audit", "tool.completed")
    /\ answer[r] \in {"failed", "timeout"} =>
         /\ Has(r, "audit", "tool.requested")
         /\ Has(r, "executions", "failed")
         /\ Has(r, "errors", "execution")
         /\ Has(r, "audit", "tool.failed")
    /\ answer[r] = "denied" =>
         Has(r, "errors", "denied") /\ Has(r, "audit", "policy.denied")
    /\ answer[r] = "approval required" =>
         Has(r, "approvals", "pending") /\ Has(r, "audit", "approval.required")

\* The audit log never says more than the store: whenever the process stops, an
\* event that reports an outcome finds the row of that outcome.
AuditIsBacked ==
  \A r \in Request :
    /\ Has(r, "audit", "tool.completed") => Has(r, "executions", "succeeded")
    /\ Has(r, "audit", "tool.failed") =>
         Has(r, "executions", "failed") /\ Has(r, "errors", "execution")
    /\ Has(r, "audit", "policy.denied") => Has(r, "errors", "denied")
    /\ Has(r, "audit", "approval.required") => Has(r, "approvals", "pending")
    /\ Has(r, "audit", "session.bootstrapped") => Has(r, "sessions", "upserted")

HasRow(s) == \E q \in Request : session[q] = s /\ Has(q, "sessions", "upserted")

\* Every row that refers to a client session refers to one that is on disk, even
\* where SQLite does not enforce the foreign key: a session's token is not given
\* to anyone before its row is written.
RowsHaveSession ==
  \A r \in Request :
    (\E w \in {Put("executions", "succeeded"), Put("executions", "failed"),
               Put("approvals", "pending"), Put("terminals", "active"),
               Put("terminals", "ended")} : <<r, w>> \in stored)
      => HasRow(session[r])

\* docs/ACCEPTANCE_CRITERIA.md:102: only a request that policy allowed, of a
\* client whose session is on disk, has a tool run for it.
ExecutedWasAllowed ==
  \A r \in executed : verdict[r] = "allow" /\ HasRow(session[r])

\* Once terminal.end_session has answered, the row says "ended" for good: neither
\* the row of the start nor a crash brings it back.
EndedRowStays ==
  \A r \in Request :
    Answered(r, {"terminal.end"}, "result") => terminalRow[target[r]] = "ended"

-----------------------------------------------------------------------------
(* Documented behaviour that the code does not have.                       *)

\* docs/ACCEPTANCE_CRITERIA.md:103: approval-required requests are surfaced
\* cleanly.  The second one for an action meets the approval_id of the first.
ApprovalSurfaced ==
  \A r \in Request :
    phase[r] = "answered" /\ verdict[r] = "approval required" =>
      answer[r] = "approval required"

\* docs/RPC_SCHEMA.md:406: terminal session lifecycle changes should be persisted.
\* A session ended through tools.call keeps an active row.
EndIsPersisted ==
  \A r \in Request :
    Answered(r, Ends, "result") => terminalRow[target[r]] # "active"

=============================================================================
