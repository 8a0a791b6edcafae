------------------------ MODULE RequestPipelineProofs ------------------------
(***************************************************************************)
(* For any number of requests, client sessions and terminal sessions, with *)
(* a disk that may fail at any write and a process that may crash at any   *)
(* step: the safety properties of RequestPipeline.                         *)
(***************************************************************************)
EXTENDS RequestPipeline, SequenceTheorems, TLAPS

-----------------------------------------------------------------------------
(* The inductive invariant.  What is on disk for a request is as much of   *)
(* the plan that its answer stands for as its handler has come through.    *)

\* The writes that an answer to a method stands for.
Plan(m, a) ==
  CASE a = "result" /\ m = "session.bootstrap" -> BootstrapWrites
    [] a = "result" /\ m \in Tools \union {"tools.list"} ->
         SuccessWrites \o TerminalWrites(m)
    [] a \in {"failed", "timeout"} -> FailureWrites
    [] a = "denied" -> DeniedWrites
    [] a = "approval required" -> ApprovalWrites
    [] OTHER -> <<>>

From(s, k) == SubSeq(s, k + 1, Len(s))

\* The first k writes of its plan are on disk.
Written(r, k) == \A i \in 1..k : <<r, Plan(method[r], answer[r])[i]>> \in stored

Early == {"idle", "received", "authenticated", "authorized"}

\* Before its answer is decided a request has run no tool and written nothing,
\* and it passes the session check and the policy in this order.
EarlyInv(r) ==
  /\ phase[r] \in Early => r \notin executed /\ \A w \in Write : <<r, w>> \notin stored
  /\ phase[r] \in {"authenticated", "authorized"} =>
       method[r] # "session.bootstrap" /\ session[r] \in Session
  /\ phase[r] = "authorized" => verdict[r] = "allow"

\* A handler that writes has the rest of its plan before it.
WritingInv(r) ==
  phase[r] = "writing" =>
    /\ \E k \in 0..Len(Plan(method[r], answer[r])) :
         todo[r] = From(Plan(method[r], answer[r]), k) /\ Written(r, k)
    /\ method[r] = "session.bootstrap" => answer[r] = "result"
    /\ method[r] # "session.bootstrap" => session[r] \in Session
    /\ method[r] \in Starts \union Ends /\ answer[r] = "result" => target[r] \in Terminal

\* An answer other than a storage error has all of its plan behind it.
AnsweredInv(r) ==
  phase[r] = "answered" /\ answer[r] # "storage error" =>
    Written(r, Len(Plan(method[r], answer[r])))

\* Nobody has a session that is not on disk.
SessionInv(r) ==
  phase[r] # "idle" /\ method[r] # "session.bootstrap" /\ session[r] # None =>
    HasRow(session[r])

\* Each terminal session is started by one request, and ended only by those who
\* have the answer to it.
TerminalInv ==
  /\ \A r \in Request : phase[r] # "idle" /\ method[r] \in Starts /\ target[r] # None =>
       terminal[target[r]] # "free"
  /\ \A q, r \in Request :
       /\ phase[q] # "idle" /\ method[q] \in Starts /\ target[q] # None
       /\ phase[r] # "idle" /\ method[r] \in Starts /\ target[r] # None
       /\ target[q] = target[r]
       => q = r
  /\ \A r \in Request : phase[r] # "idle" /\ method[r] \in Ends /\ target[r] # None =>
       \E q \in Request : Answered(q, Starts, "result") /\ target[q] = target[r]

\* The rows of terminal sessions are written by those requests, and an end stays.
RowInv(r) ==
  \A w \in Write : <<r, w>> \in stored /\ w.to = "terminals" =>
    /\ target[r] \in Terminal
    /\ \/ w.what = "active" /\ method[r] \in Starts
       \/ w.what = "ended" /\ method[r] \in Ends /\ terminalRow[target[r]] = "ended"

IInv ==
  /\ TypeOK
  /\ \A r \in Request :
       EarlyInv(r) /\ WritingInv(r) /\ AnsweredInv(r) /\ SessionInv(r) /\ RowInv(r)
  /\ TerminalInv
  /\ AuditIsBacked
  /\ RowsHaveSession
  /\ ExecutedWasAllowed

-----------------------------------------------------------------------------
(* Lemmas about the plans.                                                 *)

\* The rest of a sequence is empty at its end, and otherwise starts with the next
\* element.
LEMMA FromProperties ==
  ASSUME NEW S, NEW s \in Seq(S), NEW k \in 0..Len(s)
  PROVE  /\ From(s, 0) = s
         /\ From(s, k) = <<>> => k = Len(s)
         /\ From(s, k) # <<>> =>
              /\ k + 1 \in 1..Len(s)
              /\ Head(From(s, k)) = s[k + 1]
              /\ Tail(From(s, k)) = From(s, k + 1)
<1>1. Len(s) \in Nat
  BY LenProperties
<1>2. From(s, 0) = s
  BY <1>1, SubSeqFull DEF From
<1>3. From(s, Len(s)) = <<>>
  BY <1>1, SubSeqEmpty DEF From
<1>4. CASE k = Len(s)
  BY <1>2, <1>3, <1>4
<1>5. CASE k # Len(s)
  <2>1. k + 1 \in 1..Len(s)
    BY <1>1, <1>5
  <2>2. Head(From(s, k)) = s[k + 1] /\ Tail(From(s, k)) = From(s, k + 1)
    <3>1. Len(s) \in k + 1 .. Len(s)
      BY <1>1, <2>1
    <3>2. QED
      BY <2>1, <3>1, HeadTailOfSubSeq DEF From
  <2>3. From(s, k) # <<>>
    <3>1. \A i \in k + 1 .. Len(s) : s[i] \in S
      BY <1>1, ElementOfSeq
    <3>2. Len(From(s, k)) = Len(s) - k
      BY <1>1, <2>1, <3>1, SubSeqProperties DEF From
    <3>3. QED
      BY <1>1, <1>5, <3>2, EmptySeq
  <2>4. QED
    BY <1>2, <2>1, <2>2, <2>3
<1>6. QED
  BY <1>4, <1>5

\* Every list of writes is one.
LEMMA WritesTyped ==
  /\ BootstrapWrites \in Seq(Write)
  /\ SuccessWrites \in Seq(Write)
  /\ FailureWrites \in Seq(Write)
  /\ DeniedWrites \in Seq(Write)
  /\ ApprovalWrites \in Seq(Write)
  /\ \A m : TerminalWrites(m) \in Seq(Write)
<1>1. \A t \in Table : \A w \in Content : Put(t, w) \in Write
  BY DEF Put, Write
<1>2. BootstrapWrites \in Seq(Write)
  <2>1. Put("sessions", "upserted") \in Write /\ Put("audit", "session.bootstrapped") \in Write
    BY <1>1 DEF Table, Content
  <2>2. QED
    BY <2>1 DEF BootstrapWrites
<1>3. SuccessWrites \in Seq(Write)
  <2>1. /\ Put("audit", "tool.requested") \in Write
        /\ Put("executions", "succeeded") \in Write
        /\ Put("audit", "tool.completed") \in Write
    BY <1>1 DEF Table, Content
  <2>2. QED
    BY <2>1 DEF SuccessWrites
<1>4. FailureWrites \in Seq(Write)
  <2>1. /\ Put("audit", "tool.requested") \in Write
        /\ Put("executions", "failed") \in Write
        /\ Put("errors", "execution") \in Write
        /\ Put("audit", "tool.failed") \in Write
    BY <1>1 DEF Table, Content
  <2>2. QED
    BY <2>1 DEF FailureWrites
<1>5. DeniedWrites \in Seq(Write)
  <2>1. Put("errors", "denied") \in Write /\ Put("audit", "policy.denied") \in Write
    BY <1>1 DEF Table, Content
  <2>2. QED
    BY <2>1 DEF DeniedWrites
<1>6. ApprovalWrites \in Seq(Write)
  <2>1. Put("approvals", "pending") \in Write /\ Put("audit", "approval.required") \in Write
    BY <1>1 DEF Table, Content
  <2>2. QED
    BY <2>1 DEF ApprovalWrites
<1>7. ASSUME NEW m PROVE TerminalWrites(m) \in Seq(Write)
  <2>1. /\ Put("terminals", "active") \in Write
        /\ Put("audit", "terminal.session.started") \in Write
        /\ Put("terminals", "ended") \in Write
        /\ Put("audit", "terminal.session.ended") \in Write
    BY <1>1 DEF Table, Content
  <2>2. CASE m = "terminal.start"
    BY <2>1, <2>2 DEF TerminalWrites
  <2>3. CASE m = "terminal.end"
    BY <2>1, <2>3 DEF TerminalWrites
  <2>4. CASE m \notin {"terminal.start", "terminal.end"}
    BY <2>4, EmptySeq DEF TerminalWrites
  <2>5. QED
    BY <2>2, <2>3, <2>4
<1>8. QED
  BY <1>2, <1>3, <1>4, <1>5, <1>6, <1>7

LEMMA PlanTyped == \A m, a : Plan(m, a) \in Seq(Write)
<1> SUFFICES ASSUME NEW m, NEW a PROVE Plan(m, a) \in Seq(Write)
  OBVIOUS
<1>1. SuccessWrites \o TerminalWrites(m) \in Seq(Write)
  BY WritesTyped, ConcatProperties
<1>2. <<>> \in Seq(Write)
  BY EmptySeq
<1>3. QED
  BY <1>1, <1>2, WritesTyped DEF Plan

\* The plan of a tool's result: the record of the execution, and after it the
\* row of the terminal session, if the method keeps one.
LEMMA SuccessPlan ==
  ASSUME NEW m, m \in Tools \union {"tools.list"}
  PROVE  LET plan == Plan(m, "result")
         IN  /\ Len(plan) \in Nat /\ Len(plan) >= 3
             /\ plan[1] = Put("audit", "tool.requested")
             /\ plan[2] = Put("executions", "succeeded")
             /\ plan[3] = Put("audit", "tool.completed")
             /\ \A i \in 4..Len(plan) :
                  \/ /\ m = "terminal.start"
                     /\ plan[i] \in {Put("terminals", "active"),
                                     Put("audit", "terminal.session.started")}
                  \/ /\ m = "terminal.end"
                     /\ plan[i] \in {Put("terminals", "ended"),
                                     Put("audit", "terminal.session.ended")}
             /\ m = "terminal.end" =>
                  Len(plan) >= 4 /\ plan[4] = Put("terminals", "ended")
<1> DEFINE plan == SuccessWrites \o TerminalWrites(m)
<1>1. Plan(m, "result") = plan
  BY DEF Plan, Tools, Starts, Ends
<1>2. SuccessWrites \in Seq(Write) /\ TerminalWrites(m) \in Seq(Write)
  BY WritesTyped
<1>3. /\ Len(SuccessWrites) = 3
      /\ SuccessWrites[1] = Put("audit", "tool.requested")
      /\ SuccessWrites[2] = Put("executions", "succeeded")
      /\ SuccessWrites[3] = Put("audit", "tool.completed")
  BY DEF SuccessWrites
<1>4. /\ Len(TerminalWrites(m)) \in Nat
      /\ Len(plan) = 3 + Len(TerminalWrites(m))
      /\ \A i \in 1 .. 3 + Len(TerminalWrites(m)) :
           plan[i] = IF i <= 3 THEN SuccessWrites[i] ELSE TerminalWrites(m)[i - 3]
  <2>1. Len(TerminalWrites(m)) \in Nat
    BY <1>2, LenProperties
  <2>2. /\ Len(plan) = Len(SuccessWrites) + Len(TerminalWrites(m))
        /\ \A i \in 1 .. Len(SuccessWrites) + Len(TerminalWrites(m)) :
             plan[i] = IF i <= Len(SuccessWrites) THEN SuccessWrites[i]
                       ELSE TerminalWrites(m)[i - Len(SuccessWrites)]
    BY <1>2, ConcatProperties
  <2>3. QED
    BY <1>3, <2>1, <2>2
<1>5. /\ Len(plan) \in Nat /\ Len(plan) >= 3
      /\ plan[1] = Put("audit", "tool.requested")
      /\ plan[2] = Put("executions", "succeeded")
      /\ plan[3] = Put("audit", "tool.completed")
  BY <1>3, <1>4
<1>6. \A i \in 4..Len(plan) :
        /\ i - 3 \in 1..Len(TerminalWrites(m))
        /\ plan[i] = TerminalWrites(m)[i - 3]
  BY <1>4
<1>7. CASE m = "terminal.start"
  <2>1. \A i \in 1..Len(TerminalWrites(m)) : TerminalWrites(m)[i] \in
          {Put("terminals", "active"), Put("audit", "terminal.session.started")}
    BY <1>7 DEF TerminalWrites
  <2>2. QED
    BY <1>1, <1>5, <1>6, <1>7, <2>1
<1>8. CASE m = "terminal.end"
  <2>1. /\ Len(TerminalWrites(m)) = 2
        /\ TerminalWrites(m)[1] = Put("terminals", "ended")
        /\ TerminalWrites(m)[2] = Put("audit", "terminal.session.ended")
    BY <1>8 DEF TerminalWrites
  <2>2. \A i \in 1..Len(TerminalWrites(m)) : TerminalWrites(m)[i] \in
          {Put("terminals", "ended"), Put("audit", "terminal.session.ended")}
    BY <2>1
  <2>3. Len(plan) >= 4 /\ plan[4] = Put("terminals", "ended")
    BY <1>4, <2>1
  <2>4. QED
    BY <1>1, <1>5, <1>6, <1>8, <2>2, <2>3
<1>9. CASE m \notin {"terminal.start", "terminal.end"}
  <2>1. Len(TerminalWrites(m)) = 0
    BY <1>9 DEF TerminalWrites
  <2>2. QED
    BY <1>1, <1>4, <1>5, <1>9, <2>1
<1>10. QED
  BY <1>7, <1>8, <1>9

\* The plans of the other answers that have one.
LEMMA OtherPlans ==
  ASSUME NEW m
  PROVE  /\ LET plan == Plan("session.bootstrap", "result")
            IN  /\ Len(plan) = 2
                /\ plan[1] = Put("sessions", "upserted")
                /\ plan[2] = Put("audit", "session.bootstrapped")
         /\ \A a \in {"failed", "timeout"} :
              /\ Len(Plan(m, a)) = 4
              /\ Plan(m, a)[1] = Put("audit", "tool.requested")
              /\ Plan(m, a)[2] = Put("executions", "failed")
              /\ Plan(m, a)[3] = Put("errors", "execution")
              /\ Plan(m, a)[4] = Put("audit", "tool.failed")
         /\ LET plan == Plan(m, "denied")
            IN  /\ Len(plan) = 2
                /\ plan[1] = Put("errors", "denied")
                /\ plan[2] = Put("audit", "policy.denied")
         /\ LET plan == Plan(m, "approval required")
            IN  /\ Len(plan) = 2
                /\ plan[1] = Put("approvals", "pending")
                /\ plan[2] = Put("audit", "approval.required")
<1>1. Plan("session.bootstrap", "result") = BootstrapWrites
  BY DEF Plan, Tools, Starts, Ends
<1>2. \A a \in {"failed", "timeout"} : Plan(m, a) = FailureWrites
  BY DEF Plan
<1>3. Plan(m, "denied") = DeniedWrites /\ Plan(m, "approval required") = ApprovalWrites
  BY DEF Plan
<1>4. /\ Len(FailureWrites) = 4
      /\ FailureWrites[1] = Put("audit", "tool.requested")
      /\ FailureWrites[2] = Put("executions", "failed")
      /\ FailureWrites[3] = Put("errors", "execution")
      /\ FailureWrites[4] = Put("audit", "tool.failed")
  BY DEF FailureWrites
<1>5. /\ Len(BootstrapWrites) = 2
      /\ BootstrapWrites[1] = Put("sessions", "upserted")
      /\ BootstrapWrites[2] = Put("audit", "session.bootstrapped")
  BY DEF BootstrapWrites
<1>6. /\ Len(DeniedWrites) = 2
      /\ DeniedWrites[1] = Put("errors", "denied")
      /\ DeniedWrites[2] = Put("audit", "policy.denied")
  BY DEF DeniedWrites
<1>7. /\ Len(ApprovalWrites) = 2
      /\ ApprovalWrites[1] = Put("approvals", "pending")
      /\ ApprovalWrites[2] = Put("audit", "approval.required")
  BY DEF ApprovalWrites
<1>8. QED
  BY <1>1, <1>2, <1>3, <1>4, <1>5, <1>6, <1>7

\* The answers without one.
LEMMA EmptyPlans ==
  ASSUME NEW m, NEW a,
         \/ a \notin {"result", "failed", "timeout", "denied", "approval required"}
         \/ a = "result" /\ m \notin Tools \union {"tools.list", "session.bootstrap"}
  PROVE  Plan(m, a) = <<>> /\ Len(Plan(m, a)) = 0
BY DEF Plan

\* Two writes are the same if they put the same into the same file.
LEMMA PutEqual ==
  \A t1, t2, w1, w2 :
    /\ Put(t1, w1) = Put(t2, w2) <=> t1 = t2 /\ w1 = w2
    /\ Put(t1, w1).to = t1 /\ Put(t1, w1).what = w1
BY DEF Put

\* Every plan has the row before the event that reports it.
LEMMA PlanOrder ==
  ASSUME NEW m, NEW a, NEW i \in 1..Len(Plan(m, a))
  PROVE  LET plan == Plan(m, a)
             Before(t, w) == \E j \in 1 .. i - 1 : plan[j] = Put(t, w)
         IN  /\ plan[i] = Put("audit", "tool.completed") => Before("executions", "succeeded")
             /\ plan[i] = Put("audit", "tool.failed") =>
                  Before("executions", "failed") /\ Before("errors", "execution")
             /\ plan[i] = Put("audit", "policy.denied") => Before("errors", "denied")
             /\ plan[i] = Put("audit", "approval.required") => Before("approvals", "pending")
             /\ plan[i] = Put("audit", "session.bootstrapped") => Before("sessions", "upserted")
<1> DEFINE plan == Plan(m, a)
           Before(t, w) == \E j \in 1 .. i - 1 : plan[j] = Put(t, w)
<1>1. CASE a = "result" /\ m = "session.bootstrap"
  <2>1. i = 1 \/ i = 2
    <3>1. Len(plan) = 2
      BY <1>1, OtherPlans
    <3>2. QED
      BY <3>1
  <2>2. plan[1] = Put("sessions", "upserted") /\ plan[2] = Put("audit", "session.bootstrapped")
    BY <1>1, OtherPlans
  <2>3. CASE i = 1
    BY <2>2, <2>3, PutEqual
  <2>4. CASE i = 2
    <3>1. Before("sessions", "upserted")
      BY <2>2, <2>4
    <3>2. QED
      BY <2>2, <2>4, <3>1, PutEqual
  <2>5. QED
    BY <2>1, <2>3, <2>4
<1>2. CASE a = "result" /\ m \in Tools \union {"tools.list"}
  <2>1. /\ plan[1] = Put("audit", "tool.requested")
        /\ plan[2] = Put("executions", "succeeded")
        /\ plan[3] = Put("audit", "tool.completed")
    BY <1>2, SuccessPlan
  <2>2. CASE i \in 4..Len(plan)
    <3>1. plan[i] \in {Put("terminals", "active"), Put("audit", "terminal.session.started"),
                      Put("terminals", "ended"), Put("audit", "terminal.session.ended")}
      BY <1>2, <2>2, SuccessPlan
    <3>2. QED
      BY <3>1, PutEqual
  <2>3. CASE i = 1
    BY <2>1, <2>3, PutEqual
  <2>4. CASE i = 2
    BY <2>1, <2>4, PutEqual
  <2>5. CASE i = 3
    <3>1. Before("executions", "succeeded")
      BY <2>1, <2>5
    <3>2. QED
      BY <2>1, <2>5, <3>1, PutEqual
  <2>6. i \in 4..Len(plan) \/ i \in {1, 2, 3}
    BY <1>2, SuccessPlan
  <2>7. QED
    BY <2>2, <2>3, <2>4, <2>5, <2>6
<1>3. CASE a \in {"failed", "timeout"}
  <2>1. i \in {1, 2, 3, 4}
    <3>1. Len(Plan(m, a)) = 4
      BY <1>3, OtherPlans
    <3>2. QED
      BY <3>1
  <2>2. /\ plan[1] = Put("audit", "tool.requested")
        /\ plan[2] = Put("executions", "failed")
        /\ plan[3] = Put("errors", "execution")
        /\ plan[4] = Put("audit", "tool.failed")
    BY <1>3, OtherPlans
  <2>3. CASE i \in {1, 2, 3}
    BY <2>2, <2>3, PutEqual
  <2>4. CASE i = 4
    <3>1. Before("executions", "failed") /\ Before("errors", "execution")
      BY <2>2, <2>4
    <3>2. QED
      BY <2>2, <2>4, <3>1, PutEqual
  <2>5. QED
    BY <2>1, <2>3, <2>4
<1>4. CASE a = "denied"
  <2>1. i \in {1, 2}
    <3>1. Len(Plan(m, a)) = 2
      BY <1>4, OtherPlans
    <3>2. QED
      BY <3>1
  <2>2. plan[1] = Put("errors", "denied") /\ plan[2] = Put("audit", "policy.denied")
    BY <1>4, OtherPlans
  <2>3. i = 2 => Before("errors", "denied")
    BY <2>2
  <2>4. QED
    BY <2>1, <2>2, <2>3, PutEqual
<1>5. CASE a = "approval required"
  <2>1. i \in {1, 2}
    <3>1. Len(Plan(m, a)) = 2
      BY <1>5, OtherPlans
    <3>2. QED
      BY <3>1
  <2>2. plan[1] = Put("approvals", "pending") /\ plan[2] = Put("audit", "approval.required")
    BY <1>5, OtherPlans
  <2>3. i = 2 => Before("approvals", "pending")
    BY <2>2
  <2>4. QED
    BY <2>1, <2>2, <2>3, PutEqual
<1>6. CASE \/ a \notin {"result", "failed", "timeout", "denied", "approval required"}
           \/ a = "result" /\ m \notin Tools \union {"tools.list", "session.bootstrap"}
  <2>1. Len(Plan(m, a)) = 0
    BY <1>6, EmptyPlans
  <2>2. QED
    BY <2>1
<1>7. QED
  BY <1>1, <1>2, <1>3, <1>4, <1>5, <1>6

\* Only the results of the two methods have a row of a terminal session in their
\* plans, and that of a bootstrap has no row that refers to a session.
LEMMA PlanRows ==
  ASSUME NEW m, NEW a, NEW i \in 1..Len(Plan(m, a))
  PROVE  /\ Plan(m, a)[i].to = "terminals" =>
              /\ a = "result"
              /\ \/ m = "terminal.start" /\ Plan(m, a)[i].what = "active"
                 \/ m = "terminal.end" /\ Plan(m, a)[i].what = "ended"
         /\ m = "session.bootstrap" /\ a = "result" =>
              Plan(m, a)[i].to \in {"sessions", "audit"}
<1> DEFINE w == Plan(m, a)[i]
<1>1. CASE a = "result" /\ m = "session.bootstrap"
  <2>1. i \in {1, 2}
    <3>1. Len(Plan(m, a)) = 2
      BY <1>1, OtherPlans
    <3>2. QED
      BY <3>1
  <2>2. w \in {Put("sessions", "upserted"), Put("audit", "session.bootstrapped")}
    BY <1>1, <2>1, OtherPlans
  <2>3. w.to \in {"sessions", "audit"}
    BY <2>2, PutEqual
  <2>4. QED
    BY <2>3
<1>2. CASE a = "result" /\ m \in Tools \union {"tools.list"}
  <2>1. m # "session.bootstrap"
    BY <1>2 DEF Tools, Starts, Ends
  <2>2. CASE i \in 4..Len(Plan(m, a))
    <3>1. \/ m = "terminal.start" /\ w \in {Put("terminals", "active"),
                                           Put("audit", "terminal.session.started")}
          \/ m = "terminal.end" /\ w \in {Put("terminals", "ended"),
                                         Put("audit", "terminal.session.ended")}
      BY <1>2, <2>2, SuccessPlan
    <3>2. QED
      BY <1>2, <2>1, <3>1, PutEqual
  <2>3. CASE i \in {1, 2, 3}
    <3>1. w \in {Put("audit", "tool.requested"), Put("executions", "succeeded"),
                 Put("audit", "tool.completed")}
      BY <1>2, <2>3, SuccessPlan
    <3>2. w.to # "terminals"
      BY <3>1, PutEqual
    <3>3. QED
      BY <2>1, <3>2
  <2>4. i \in 4..Len(Plan(m, a)) \/ i \in {1, 2, 3}
    BY <1>2, SuccessPlan
  <2>5. QED
    BY <2>2, <2>3, <2>4
<1>3. CASE a \in {"failed", "timeout"}
  <2>1. i \in {1, 2, 3, 4}
    <3>1. Len(Plan(m, a)) = 4
      BY <1>3, OtherPlans
    <3>2. QED
      BY <3>1
  <2>2. w \in {Put("audit", "tool.requested"), Put("executions", "failed"),
               Put("errors", "execution"), Put("audit", "tool.failed")}
    BY <1>3, <2>1, OtherPlans
  <2>3. w.to # "terminals"
    BY <2>2, PutEqual
  <2>4. QED
    BY <1>3, <2>3
<1>4. CASE a \in {"denied", "approval required"}
  <2>1. i \in {1, 2}
    <3>1. Len(Plan(m, a)) = 2
      BY <1>4, OtherPlans
    <3>2. QED
      BY <3>1
  <2>2. w \in {Put("errors", "denied"), Put("audit", "policy.denied"),
               Put("approvals", "pending"), Put("audit", "approval.required")}
    BY <1>4, <2>1, OtherPlans
  <2>3. w.to # "terminals"
    BY <2>2, PutEqual
  <2>4. QED
    BY <1>4, <2>3
<1>5. CASE \/ a \notin {"result", "failed", "timeout", "denied", "approval required"}
           \/ a = "result" /\ m \notin Tools \union {"tools.list", "session.bootstrap"}
  <2>1. Len(Plan(m, a)) = 0
    BY <1>5, EmptyPlans
  <2>2. QED
    BY <2>1
<1>6. QED
  BY <1>1, <1>2, <1>3, <1>4, <1>5

-----------------------------------------------------------------------------
(* The initial states, and what no step undoes.                            *)

\* The initial states satisfy the inductive invariant.
LEMMA InitInv == Init => IInv
<1> SUFFICES ASSUME Init PROVE IInv
  OBVIOUS
<1> USE DEF Init
<1>1. TypeOK
  BY EmptySeq DEF TypeOK
<1>2. \A r \in Request : EarlyInv(r) /\ WritingInv(r) /\ AnsweredInv(r)
  BY DEF EarlyInv, WritingInv, AnsweredInv
<1>3. \A r \in Request : SessionInv(r) /\ RowInv(r)
  BY DEF SessionInv, RowInv
<1>4. TerminalInv
  BY DEF TerminalInv
<1>5. AuditIsBacked /\ RowsHaveSession /\ ExecutedWasAllowed
  BY DEF AuditIsBacked, RowsHaveSession, ExecutedWasAllowed, Has
<1>6. QED
  BY <1>1, <1>2, <1>3, <1>4, <1>5 DEF IInv

\* The row of a session is written by a request that is past its decision.
LEMMA UpsertIsWrite == Put("sessions", "upserted") \in Write
BY DEF Put, Write, Table, Content

\* A step of request r that writes nothing.
Moves(r) ==
  /\ \A q \in Request \ {r} :
       /\ phase'[q] = phase[q] /\ method'[q] = method[q] /\ session'[q] = session[q]
       /\ target'[q] = target[q] /\ verdict'[q] = verdict[q]
       /\ answer'[q] = answer[q] /\ todo'[q] = todo[q]
  /\ UNCHANGED <<stored, terminalRow>>

\* A session that is on disk stays there while an early request moves.
LEMMA EarlyKeepsRows ==
  ASSUME IInv, NEW r \in Request, phase[r] \in Early, Moves(r)
  PROVE  \A s : HasRow(s) => HasRow(s)'
<1> SUFFICES ASSUME NEW s, HasRow(s) PROVE HasRow(s)'
  OBVIOUS
<1>1. PICK q \in Request : session[q] = s /\ Has(q, "sessions", "upserted")
  BY DEF HasRow
<1>2. q # r
  BY <1>1, UpsertIsWrite DEF IInv, EarlyInv, Has
<1>3. session'[q] = s /\ Has(q, "sessions", "upserted")'
  BY <1>1, <1>2 DEF Moves, Has
<1>4. QED
  BY <1>3 DEF HasRow

\* A request whose answer is not decided disturbs only what is said about itself.
LEMMA EarlyStep ==
  ASSUME IInv, TypeOK', NEW r \in Request, phase[r] \in Early, phase'[r] # "idle",
         Moves(r), executed' \in {executed, executed \union {r}},
         EarlyInv(r)', WritingInv(r)', AnsweredInv(r)', TerminalInv',
         method'[r] # "session.bootstrap" /\ session'[r] # None => HasRow(session'[r]),
         r \in executed' => /\ verdict'[r] = "allow" /\ session'[r] \in Session
                            /\ method'[r] # "session.bootstrap"
  PROVE  IInv'
<1>1. \A s : HasRow(s) => HasRow(s)'
  BY EarlyKeepsRows
<1>2. UNCHANGED <<stored, terminalRow>>
  BY DEF Moves
<1>3. \A w \in Write : <<r, w>> \notin stored
  BY DEF IInv, EarlyInv
<1>4. ASSUME NEW q \in Request, q # r
      PROVE  /\ phase'[q] = phase[q] /\ method'[q] = method[q] /\ session'[q] = session[q]
             /\ target'[q] = target[q] /\ verdict'[q] = verdict[q]
             /\ answer'[q] = answer[q] /\ todo'[q] = todo[q]
             /\ q \in executed' <=> q \in executed
  BY <1>4 DEF Moves
<1>5. \A q \in Request : (EarlyInv(q) /\ WritingInv(q) /\ AnsweredInv(q))'
  <2> SUFFICES ASSUME NEW q \in Request, q # r
               PROVE  (EarlyInv(q) /\ WritingInv(q) /\ AnsweredInv(q))'
    OBVIOUS
  <2>1. EarlyInv(q)'
    BY <1>2, <1>4 DEF IInv, EarlyInv
  <2>2. \A k : Written(q, k)' <=> Written(q, k)
    BY <1>2, <1>4 DEF Written
  <2>3. WritingInv(q)'
    BY <1>2, <1>4, <2>2 DEF IInv, WritingInv
  <2>4. AnsweredInv(q)'
    BY <1>2, <1>4, <2>2 DEF IInv, AnsweredInv
  <2>5. QED
    BY <2>1, <2>3, <2>4
<1>6. \A q \in Request : SessionInv(q)'
  BY <1>1, <1>4 DEF IInv, SessionInv
<1>7. \A q \in Request : RowInv(q)'
  <2> SUFFICES ASSUME NEW q \in Request PROVE RowInv(q)'
    OBVIOUS
  <2>1. CASE q = r
    BY <1>2, <1>3, <2>1 DEF RowInv
  <2>2. CASE q # r
    BY <1>2, <1>4, <2>2 DEF IInv, RowInv
  <2>3. QED
    BY <2>1, <2>2
<1>8. AuditIsBacked'
  BY <1>2 DEF IInv, AuditIsBacked, Has
<1>9. RowsHaveSession'
  <2> SUFFICES ASSUME NEW q \in Request,
                      NEW w \in {Put("executions", "succeeded"), Put("executions", "failed"),
                                 Put("approvals", "pending"), Put("terminals", "active"),
                                 Put("terminals", "ended")},
                      <<q, w>> \in stored
               PROVE  HasRow(session[q])'
    BY <1>2 DEF RowsHaveSession
  <2>1. w \in Write
    BY DEF Put, Write, Table, Content
  <2>2. q # r
    BY <1>3, <2>1
  <2>3. HasRow(session[q])
    BY DEF IInv, RowsHaveSession
  <2>4. QED
    BY <1>1, <1>4, <2>2, <2>3
<1>10. ExecutedWasAllowed'
  <2> SUFFICES ASSUME NEW q \in executed' PROVE (verdict[q] = "allow" /\ HasRow(session[q]))'
    BY DEF ExecutedWasAllowed
  <2>1. CASE q = r
    BY <1>1, <2>1, PipelineAssumption
  <2>2. CASE q # r
    <3>1. q \in executed /\ q \in Request
      BY <2>2 DEF IInv, TypeOK
    <3>2. verdict[q] = "allow" /\ HasRow(session[q])
      BY <3>1 DEF IInv, ExecutedWasAllowed
    <3>3. QED
      BY <1>1, <1>4, <2>2, <3>1, <3>2
  <2>3. QED
    BY <2>1, <2>2
<1>11. QED
  BY <1>5, <1>6, <1>7, <1>8, <1>9, <1>10 DEF IInv

\* The requests that start and end terminal sessions are the same as before.
LEMMA TerminalKept ==
  ASSUME IInv, NEW r \in Request, phase[r] \in Early, phase[r] # "idle", Moves(r),
         UNCHANGED <<method, target, terminal>>
  PROVE  TerminalInv'
<1>1. \A q \in Request : phase'[q] # "idle" => phase[q] # "idle"
  BY DEF Moves
<1>2. \A q \in Request : Answered(q, Starts, "result") => Answered(q, Starts, "result")'
  BY DEF Moves, Answered, Early
<1>3. TerminalInv
  BY DEF IInv
<1>4. QED
  BY <1>1, <1>2, <1>3 DEF TerminalInv

\* An answer that needs no write, given by a request that has been received.
LEMMA RepliesInv ==
  ASSUME IInv, TypeOK', NEW r \in Request, NEW a, Reply(r, a),
         phase[r] \in {"received", "authenticated", "authorized"},
         UNCHANGED <<requestVars, terminal, executed, stored, terminalRow>>,
         \A q \in Request \ {r} : verdict'[q] = verdict[q],
         Len(Plan(method[r], a)) = 0
  PROVE  IInv'
<1> USE DEF Reply, requestVars
<1>1. /\ phase'[r] = "answered" /\ answer'[r] = a
      /\ \A q \in Request \ {r} : phase'[q] = phase[q] /\ answer'[q] = answer[q]
  BY DEF IInv, TypeOK
<1>2. Moves(r)
  BY <1>1 DEF Moves
<1>3. r \notin executed
  BY DEF IInv, EarlyInv, Early
<1>4. EarlyInv(r)' /\ WritingInv(r)'
  BY <1>1 DEF EarlyInv, WritingInv, Early
<1>5. AnsweredInv(r)'
  <2>1. Len(Plan(method'[r], answer'[r])) = 0
    BY <1>1
  <2>2. Written(r, 0)'
    BY DEF Written
  <2>3. QED
    BY <2>1, <2>2 DEF AnsweredInv
<1>6. TerminalInv'
  BY <1>2, TerminalKept DEF Early
<1>7. method[r] # "session.bootstrap" /\ session[r] # None => HasRow(session[r])
  BY DEF IInv, SessionInv
<1>8. QED
  BY <1>1, <1>2, <1>3, <1>4, <1>5, <1>6, <1>7, EarlyStep DEF Early

\* A handler that has decided its answer has the whole plan before it.
LEMMA PlanAhead ==
  ASSUME IInv, NEW r \in Request, NEW a, NEW writes, ReplyAfter(r, writes, a),
         writes = Plan(method'[r], a)
  PROVE  /\ phase'[r] = "writing" /\ answer'[r] = a
         /\ \A q \in Request \ {r} :
              phase'[q] = phase[q] /\ answer'[q] = answer[q] /\ todo'[q] = todo[q]
         /\ (\E k \in 0..Len(Plan(method[r], answer[r])) :
               todo[r] = From(Plan(method[r], answer[r]), k) /\ Written(r, k))'
<1>1. /\ phase'[r] = "writing" /\ answer'[r] = a /\ todo'[r] = writes
      /\ \A q \in Request \ {r} :
           phase'[q] = phase[q] /\ answer'[q] = answer[q] /\ todo'[q] = todo[q]
  BY DEF ReplyAfter, IInv, TypeOK
<1>2. writes \in Seq(Write) /\ Len(writes) \in Nat
  BY PlanTyped, LenProperties
<1>3. 0 \in 0..Len(writes) /\ writes = From(writes, 0)
  BY <1>2, FromProperties
<1>4. Written(r, 0)'
  BY DEF Written
<1>5. QED
  BY <1>1, <1>3, <1>4

\* An answer with writes, decided for a request that has been authenticated.
LEMMA DecidesInv ==
  ASSUME IInv, TypeOK', NEW r \in Request, NEW a, NEW writes, ReplyAfter(r, writes, a),
         writes = Plan(method[r], a),
         phase[r] \in {"authenticated", "authorized"},
         UNCHANGED <<method, session, stored, terminalRow>>,
         \A q \in Request \ {r} : verdict'[q] = verdict[q] /\ target'[q] = target[q],
         executed' \in {executed, executed \union {r}},
         r \in executed' => verdict'[r] = "allow",
         method[r] \in Starts \union Ends /\ a = "result" => target'[r] \in Terminal,
         TerminalInv'
  PROVE  IInv'
<1>1. /\ phase'[r] = "writing" /\ answer'[r] = a
      /\ \A q \in Request \ {r} :
           phase'[q] = phase[q] /\ answer'[q] = answer[q] /\ todo'[q] = todo[q]
      /\ (\E k \in 0..Len(Plan(method[r], answer[r])) :
            todo[r] = From(Plan(method[r], answer[r]), k) /\ Written(r, k))'
  BY PlanAhead
<1>2. Moves(r)
  BY <1>1 DEF Moves
<1>3. method[r] # "session.bootstrap" /\ session[r] \in Session
  BY DEF IInv, EarlyInv
<1>4. EarlyInv(r)' /\ AnsweredInv(r)'
  BY <1>1 DEF EarlyInv, AnsweredInv, Early
<1>5. WritingInv(r)'
  BY <1>1, <1>3 DEF WritingInv
<1>6. HasRow(session[r])
  BY <1>3, PipelineAssumption DEF IInv, SessionInv
<1>7. QED
  BY <1>1, <1>2, <1>3, <1>4, <1>5, <1>6, EarlyStep DEF Early

-----------------------------------------------------------------------------
(* The steps of a request up to its decision.                              *)

\* A client names a session and a terminal session that it was told of.
LEMMA ReceiveInv ==
  ASSUME IInv, NEW r \in Request, NEW m \in Method, NEW s \in Session \union {None},
         NEW t \in Terminal \union {None}, Receive(r, m, s, t)
  PROVE  IInv'
<1> USE DEF Receive, Proceed
<1>1. TypeOK'
  BY DEF IInv, TypeOK
<1>2. /\ phase'[r] = "received" /\ method'[r] = m /\ session'[r] = s /\ target'[r] = t
      /\ Moves(r)
  BY DEF IInv, TypeOK, Moves
<1>3. EarlyInv(r)' /\ WritingInv(r)' /\ AnsweredInv(r)'
  BY <1>2 DEF IInv, EarlyInv, WritingInv, AnsweredInv, Early
<1>4. s # None => HasRow(s)
  <2> SUFFICES ASSUME s # None PROVE HasRow(s)
    OBVIOUS
  <2>1. PICK q \in Request : Answered(q, {"session.bootstrap"}, "result") /\ session[q] = s
    BY DEF Known
  <2>2. Written(q, 2)
    BY <2>1, OtherPlans DEF IInv, AnsweredInv, Answered
  <2>3. Has(q, "sessions", "upserted")
    <3>1. Plan(method[q], answer[q])[1] = Put("sessions", "upserted")
      BY <2>1, OtherPlans DEF Answered
    <3>2. <<q, Plan(method[q], answer[q])[1]>> \in stored
      BY <2>2 DEF Written
    <3>3. QED
      BY <3>1, <3>2 DEF Has
  <2>4. QED
    BY <2>1, <2>3 DEF HasRow
<1>5. TerminalInv'
  <2>1. \A q \in Request : Answered(q, Starts, "result") =>
          q # r /\ Answered(q, Starts, "result")' /\ target'[q] = target[q]
    BY <1>2 DEF Answered, Moves
  <2>2. m \in Ends => m \notin Starts
    BY DEF Starts, Ends
  <2>3. m \in Starts => t = None
    BY <2>2
  <2>4. m \in Ends /\ t # None =>
          \E q \in Request : Answered(q, Starts, "result") /\ target[q] = t
    BY DEF Told
  <2>5. TerminalInv
    BY DEF IInv
  <2>6. QED
    BY <1>2, <2>1, <2>3, <2>4, <2>5 DEF TerminalInv, Moves
<1>6. r \notin executed
  BY DEF IInv, EarlyInv, Early
<1>7. QED
  BY <1>1, <1>2, <1>3, <1>4, <1>5, <1>6, EarlyStep DEF Early

LEMMA RefuseBootstrapInv ==
  ASSUME IInv, NEW r \in Request, RefuseBootstrap(r)
  PROVE  IInv'
<1>1. PICK a \in {"invalid token", "invalid params", "internal error"} : Reply(r, a)
  BY DEF RefuseBootstrap
<1>2. TypeOK'
  BY <1>1 DEF RefuseBootstrap, Reply, IInv, TypeOK, requestVars, Answer
<1>3. Len(Plan(method[r], a)) = 0
  BY EmptyPlans
<1>4. QED
  BY <1>1, <1>2, <1>3, RepliesInv DEF RefuseBootstrap

\* A session is bootstrapped in memory first; its row comes with the writes.
LEMMA BootstrapInv ==
  ASSUME IInv, NEW r \in Request, NEW s \in Session, Bootstrap(r, s)
  PROVE  IInv'
<1> USE DEF Bootstrap
<1>1. BootstrapWrites = Plan(method'[r], "result")
  BY DEF Plan, Tools, Starts, Ends
<1>2. /\ phase'[r] = "writing" /\ answer'[r] = "result"
      /\ \A q \in Request \ {r} :
           phase'[q] = phase[q] /\ answer'[q] = answer[q] /\ todo'[q] = todo[q]
      /\ (\E k \in 0..Len(Plan(method[r], answer[r])) :
            todo[r] = From(Plan(method[r], answer[r]), k) /\ Written(r, k))'
  BY <1>1, PlanAhead
<1>3. TypeOK'
  BY WritesTyped DEF IInv, TypeOK, ReplyAfter, Answer
<1>4. Moves(r)
  BY <1>2 DEF Moves, IInv, TypeOK
<1>5. EarlyInv(r)' /\ AnsweredInv(r)'
  BY <1>2 DEF EarlyInv, AnsweredInv, Early
<1>6. WritingInv(r)'
  BY <1>2 DEF WritingInv, Starts, Ends
<1>7. TerminalInv'
  BY <1>4, TerminalKept DEF Early
<1>8. r \notin executed
  BY DEF IInv, EarlyInv, Early
<1>9. QED
  BY <1>2, <1>3, <1>4, <1>5, <1>6, <1>7, <1>8, EarlyStep DEF Early

\* A request that has been checked goes on.
LEMMA ProceedsInv ==
  ASSUME IInv, TypeOK', NEW r \in Request, NEW p \in {"authenticated", "authorized"},
         Proceed(r, p), phase[r] \in {"received", "authenticated"},
         UNCHANGED <<requestVars, terminal, executed, stored, terminalRow>>,
         \A q \in Request \ {r} : verdict'[q] = verdict[q],
         method[r] # "session.bootstrap", session[r] \in Session,
         p = "authorized" => verdict'[r] = "allow"
  PROVE  IInv'
<1> USE DEF Proceed, requestVars
<1>1. phase'[r] = p /\ Moves(r)
  BY DEF IInv, TypeOK, Moves
<1>2. r \notin executed /\ \A w \in Write : <<r, w>> \notin stored
  BY DEF IInv, EarlyInv, Early
<1>3. EarlyInv(r)' /\ WritingInv(r)' /\ AnsweredInv(r)'
  BY <1>1, <1>2 DEF EarlyInv, WritingInv, AnsweredInv
<1>4. TerminalInv'
  BY <1>1, TerminalKept DEF Early
<1>5. session[r] # None => HasRow(session[r])
  BY DEF IInv, SessionInv
<1>6. QED
  BY <1>1, <1>2, <1>3, <1>4, <1>5, EarlyStep DEF Early

\* A session that is live is one of those that were bootstrapped.
LEMMA AuthenticateInv ==
  ASSUME IInv, NEW r \in Request, Authenticate(r)
  PROVE  IInv'
<1> USE DEF Authenticate
<1>1. CASE session[r] \notin live
  <2>1. TypeOK'
    BY <1>1 DEF IInv, TypeOK, Reply, requestVars, Answer
  <2>2. QED
    BY <1>1, <2>1, EmptyPlans, RepliesInv
<1>2. CASE session[r] \in live /\ method[r] = "session.status"
  <2>1. TypeOK'
    BY <1>2 DEF IInv, TypeOK, Reply, requestVars, Answer
  <2>2. Len(Plan(method[r], "result")) = 0
    BY <1>2, EmptyPlans DEF Tools, Starts, Ends
  <2>3. QED
    BY <1>2, <2>1, <2>2, RepliesInv
<1>3. CASE session[r] \in live /\ method[r] # "session.status"
  <2>1. TypeOK'
    BY <1>3 DEF IInv, TypeOK, Proceed, requestVars
  <2>2. session[r] \in Session
    BY <1>3 DEF IInv, TypeOK
  <2>3. QED
    BY <1>3, <2>1, <2>2, ProceedsInv
<1>4. QED
  BY <1>1, <1>2, <1>3

LEMMA AuthorizeInv ==
  ASSUME IInv, NEW r \in Request, NEW d \in Decision, Authorize(r, d)
  PROVE  IInv'
<1> USE DEF Authorize
<1>1. /\ method[r] # "session.bootstrap" /\ session[r] \in Session /\ r \notin executed
      /\ verdict'[r] = d /\ \A q \in Request \ {r} : verdict'[q] = verdict[q]
  BY DEF IInv, EarlyInv, Early, TypeOK
<1>2. CASE d = "allow"
  <2>1. TypeOK'
    BY <1>2 DEF IInv, TypeOK, Proceed, requestVars
  <2>2. QED
    BY <1>1, <1>2, <2>1, ProceedsInv
<1>3. CASE d = "error"
  <2>1. PICK a \in {"internal error", "invalid params"} : Reply(r, a)
    BY <1>3
  <2>2. TypeOK'
    BY <2>1 DEF IInv, TypeOK, Reply, requestVars, Answer
  <2>3. QED
    BY <1>1, <2>1, <2>2, EmptyPlans, RepliesInv
<1>4. ASSUME NEW writes \in Seq(Write), NEW a \in {"denied", "approval required"},
             ReplyAfter(r, writes, a), writes = Plan(method[r], a)
      PROVE  IInv'
  <2>1. TypeOK'
    BY <1>4 DEF IInv, TypeOK, ReplyAfter, requestVars, Answer
  <2>2. Moves(r)
    BY <1>1, <1>4 DEF Moves, ReplyAfter, requestVars, IInv, TypeOK
  <2>3. TerminalInv'
    BY <2>2, TerminalKept DEF Early, requestVars
  <2>4. QED
    BY <1>1, <1>4, <2>1, <2>3, DecidesInv DEF requestVars
<1>5. CASE d = "deny"
  <2>1. DeniedWrites = Plan(method[r], "denied") /\ ReplyAfter(r, DeniedWrites, "denied")
    BY <1>5 DEF Plan
  <2>2. QED
    BY <1>4, <2>1, WritesTyped
<1>6. CASE d = "approval required"
  <2>1. /\ ApprovalWrites = Plan(method[r], "approval required")
        /\ ReplyAfter(r, ApprovalWrites, "approval required")
    BY <1>6 DEF Plan
  <2>2. QED
    BY <1>4, <2>1, WritesTyped
<1>7. QED
  BY <1>2, <1>3, <1>5, <1>6 DEF Decision

-----------------------------------------------------------------------------
(* The handlers and the tools.                                             *)

LEMMA NoHandlerInv ==
  ASSUME IInv, NEW r \in Request, NoHandler(r)
  PROVE  IInv'
<1>1. TypeOK'
  BY DEF NoHandler, IInv, TypeOK, Reply, requestVars, Answer
<1>2. QED
  BY <1>1, EmptyPlans, RepliesInv DEF NoHandler

LEMMA RejectCallInv ==
  ASSUME IInv, NEW r \in Request, RejectCall(r)
  PROVE  IInv'
<1>1. PICK a \in {"invalid params", "internal error"} : Reply(r, a)
  BY DEF RejectCall
<1>2. TypeOK'
  BY <1>1 DEF RejectCall, IInv, TypeOK, Reply, requestVars, Answer
<1>3. QED
  BY <1>1, <1>2, EmptyPlans, RepliesInv DEF RejectCall

LEMMA ListToolsInv ==
  ASSUME IInv, NEW r \in Request, ListTools(r)
  PROVE  IInv'
<1> USE DEF ListTools, requestVars
<1>1. SuccessWrites = Plan(method[r], "result")
  <2>1. TerminalWrites(method[r]) = <<>>
    BY DEF TerminalWrites
  <2>2. SuccessWrites \o <<>> = SuccessWrites
    BY WritesTyped, ConcatEmptySeq
  <2>3. QED
    BY <2>1, <2>2 DEF Plan
<1>2. TypeOK'
  BY WritesTyped DEF IInv, TypeOK, ReplyAfter, Answer
<1>3. Moves(r)
  BY DEF Moves, ReplyAfter, IInv, TypeOK
<1>4. TerminalInv'
  BY <1>3, TerminalKept DEF Early
<1>5. r \notin executed /\ method[r] \notin Starts \union Ends
  BY DEF IInv, EarlyInv, Early, Starts, Ends
<1>6. QED
  BY <1>1, <1>2, <1>4, <1>5, DecidesInv

\* What every run of a tool has in common, whatever its outcome.
LEMMA RunsInv ==
  ASSUME IInv, NEW r \in Request, phase[r] = "authorized", method[r] \in Tools,
         executed' = executed \union {r}, NEW a, NEW writes, ReplyAfter(r, writes, a),
         \/ a = "result" /\ writes = SuccessWrites \o TerminalWrites(method[r])
         \/ a \in {"failed", "timeout"} /\ writes = FailureWrites,
         UNCHANGED <<method, session, verdict, live, born, stored, terminalRow>>,
         target' \in [Request -> Terminal \union {None}],
         terminal' \in [Terminal -> {"free", "active", "ended", "gone"}],
         owner' \in [Terminal -> Session \union {None}],
         \A q \in Request \ {r} : target'[q] = target[q],
         method[r] \in Starts \union Ends /\ a = "result" => target'[r] \in Terminal,
         TerminalInv'
  PROVE  IInv'
<1>1. writes = Plan(method[r], a)
  BY DEF Plan, Tools, Starts, Ends
<1>2. writes \in Seq(Write) /\ a \in Answer
  BY <1>1, PlanTyped DEF Answer
<1>3. TypeOK'
  BY <1>2 DEF IInv, TypeOK, ReplyAfter
<1>4. verdict[r] = "allow"
  BY DEF IInv, EarlyInv
<1>5. QED
  BY <1>1, <1>3, <1>4, DecidesInv

\* The answers of a call that was late are failures.
LEMMA LateAnswersAreFailures == \A m : LateAnswers(m) \subseteq {"failed", "timeout"}
BY DEF LateAnswers

\* Execute's outcome is an answer with its writes.
LEMMA ExecutedOutcome ==
  ASSUME NEW r \in Request, Executed(r)
  PROVE  /\ phase[r] = "authorized" /\ executed' = executed \union {r}
         /\ \E a, writes :
              /\ ReplyAfter(r, writes, a)
              /\ \/ a = "result" /\ writes = SuccessWrites \o TerminalWrites(method[r])
                 \/ a \in {"failed", "timeout"} /\ writes = FailureWrites
BY LateAnswersAreFailures DEF Executed

LEMMA RunToolInv ==
  ASSUME IInv, NEW r \in Request, RunTool(r)
  PROVE  IInv'
<1> USE DEF RunTool, requestVars
<1>1. PICK a, writes :
        /\ ReplyAfter(r, writes, a)
        /\ \/ a = "result" /\ writes = SuccessWrites \o TerminalWrites(method[r])
           \/ a \in {"failed", "timeout"} /\ writes = FailureWrites
  BY ExecutedOutcome
<1>2. phase[r] = "authorized" /\ executed' = executed \union {r}
  BY ExecutedOutcome
<1>3. Moves(r)
  BY <1>1 DEF Moves, ReplyAfter, IInv, TypeOK
<1>4. TerminalInv'
  BY <1>2, <1>3, TerminalKept DEF Early
<1>5. method[r] \in Tools /\ method[r] \notin Starts \union Ends
  BY DEF Tools, Starts, Ends
<1>6. QED
  BY <1>1, <1>2, <1>4, <1>5, RunsInv DEF IInv, TypeOK

LEMMA ToolFailsInv ==
  ASSUME IInv, NEW r \in Request, ToolFails(r)
  PROVE  IInv'
<1> USE DEF ToolFails, requestVars
<1>1. PICK a \in {"failed", "timeout"} : ReplyAfter(r, FailureWrites, a)
  BY LateAnswersAreFailures
<1>2. Moves(r)
  BY <1>1 DEF Moves, ReplyAfter, IInv, TypeOK
<1>3. TerminalInv'
  BY <1>2, TerminalKept DEF Early
<1>4. QED
  BY <1>1, <1>3, RunsInv DEF IInv, TypeOK

\* A terminal session is started once: nobody has started it while it is free.
LEMMA StartTerminalInv ==
  ASSUME IInv, NEW r \in Request, NEW t \in Terminal, StartTerminal(r, t)
  PROVE  IInv'
<1> USE DEF StartTerminal
<1>1. PICK a, writes :
        /\ ReplyAfter(r, writes, a)
        /\ \/ a = "result" /\ writes = SuccessWrites \o TerminalWrites(method[r])
           \/ a \in {"failed", "timeout"} /\ writes = FailureWrites
  BY ExecutedOutcome
<1>2. phase[r] = "authorized" /\ executed' = executed \union {r}
  BY ExecutedOutcome
<1>3. /\ target' \in [Request -> Terminal \union {None}]
      /\ terminal' \in [Terminal -> {"free", "active", "ended", "gone"}]
      /\ owner' \in [Terminal -> Session \union {None}]
      /\ target'[r] = t /\ \A q \in Request \ {r} : target'[q] = target[q]
      /\ terminal'[t] = "active" /\ \A u \in Terminal \ {t} : terminal'[u] = terminal[u]
  BY DEF IInv, TypeOK
<1>4. phase'[r] = "writing" /\ \A q \in Request \ {r} : phase'[q] = phase[q] /\ answer'[q] = answer[q]
  BY <1>1 DEF ReplyAfter, IInv, TypeOK
<1>5. TerminalInv'
  <2>1. TerminalInv /\ UNCHANGED method
    BY DEF IInv
  <2>2. ASSUME NEW q \in Request \ {r}, phase'[q] # "idle", method[q] \in Starts,
               target[q] # None
        PROVE  target[q] \in Terminal \ {t} /\ terminal'[target[q]] # "free"
    BY <1>3, <1>4, <2>1, <2>2 DEF TerminalInv, IInv, TypeOK
  <2>3. \A q \in Request : Answered(q, Starts, "result") =>
          q # r /\ Answered(q, Starts, "result")'
    BY <1>2, <1>4, <2>1 DEF Answered
  <2>4. method[r] \notin Ends
    BY DEF Starts, Ends
  <2>5. \A q \in Request : phase'[q] # "idle" /\ method'[q] \in Starts /\ target'[q] # None =>
          terminal'[target'[q]] # "free"
    BY <1>3, <2>1, <2>2
  <2>6. ASSUME NEW p \in Request, NEW q \in Request,
               phase'[p] # "idle", method'[p] \in Starts, target'[p] # None,
               phase'[q] # "idle", method'[q] \in Starts, target'[q] # None,
               target'[p] = target'[q]
        PROVE  p = q
    <3>1. CASE p = r \/ q = r
      BY <1>3, <2>1, <2>2, <2>6, <3>1
    <3>2. CASE p # r /\ q # r
      BY <1>3, <1>4, <2>1, <2>6, <3>2 DEF TerminalInv
    <3>3. QED
      BY <3>1, <3>2
  <2>7. ASSUME NEW q \in Request, phase'[q] # "idle", method'[q] \in Ends, target'[q] # None
        PROVE  \E p \in Request : Answered(p, Starts, "result")' /\ target'[p] = target'[q]
    <3>1. q # r
      BY <2>1, <2>4, <2>7
    <3>2. PICK p \in Request : Answered(p, Starts, "result") /\ target[p] = target[q]
      BY <1>3, <1>4, <2>1, <2>7, <3>1 DEF TerminalInv
    <3>3. QED
      BY <1>3, <2>3, <3>1, <3>2
  <2>8. QED
    BY <2>5, <2>6, <2>7 DEF TerminalInv
<1>6. method[r] \in Tools
  BY DEF Tools
<1>7. QED
  BY <1>1, <1>2, <1>3, <1>5, <1>6, RunsInv

LEMMA EndTerminalInv ==
  ASSUME IInv, NEW r \in Request, NEW t \in Terminal, EndTerminal(r, t)
  PROVE  IInv'
<1> USE DEF EndTerminal, requestVars
<1>1. PICK a, writes :
        /\ ReplyAfter(r, writes, a)
        /\ \/ a = "result" /\ writes = SuccessWrites \o TerminalWrites(method[r])
           \/ a \in {"failed", "timeout"} /\ writes = FailureWrites
  BY ExecutedOutcome
<1>2. phase[r] = "authorized" /\ executed' = executed \union {r}
  BY ExecutedOutcome
<1>3. /\ terminal' \in [Terminal -> {"free", "active", "ended", "gone"}]
      /\ \A u \in Terminal : terminal[u] # "free" => terminal'[u] # "free"
  BY DEF IInv, TypeOK
<1>4. Moves(r)
  BY <1>1 DEF Moves, ReplyAfter, IInv, TypeOK
<1>5. TerminalInv'
  <2>1. \A q \in Request : phase'[q] # "idle" => phase[q] # "idle"
    BY <1>2, <1>4 DEF Moves
  <2>2. \A q \in Request : Answered(q, Starts, "result") => Answered(q, Starts, "result")'
    BY <1>2, <1>4 DEF Moves, Answered
  <2>3. \A q \in Request : target[q] # None => target[q] \in Terminal
    BY DEF IInv, TypeOK
  <2>4. QED
    BY <1>3, <2>1, <2>2, <2>3 DEF IInv, TerminalInv
<1>6. method[r] \in Tools /\ target[r] \in Terminal
  BY DEF Tools
<1>7. QED
  BY <1>1, <1>2, <1>3, <1>5, <1>6, RunsInv DEF IInv, TypeOK

-----------------------------------------------------------------------------
(* The writes.                                                             *)

\* The write that a handler makes next is the next one of its plan.
LEMMA NextWrite ==
  ASSUME IInv, NEW r \in Request, phase[r] = "writing", todo[r] # <<>>
  PROVE  \E i \in 1..Len(Plan(method[r], answer[r])) :
           /\ Head(todo[r]) = Plan(method[r], answer[r])[i]
           /\ Head(todo[r]) \in Write
           /\ Tail(todo[r]) = From(Plan(method[r], answer[r]), i)
           /\ Tail(todo[r]) \in Seq(Write)
           /\ Written(r, i - 1)
<1> DEFINE plan == Plan(method[r], answer[r])
<1>1. plan \in Seq(Write) /\ Len(plan) \in Nat
  BY PlanTyped, LenProperties
<1>2. PICK k \in 0..Len(plan) : todo[r] = From(plan, k) /\ Written(r, k)
  BY DEF IInv, WritingInv
<1>3. /\ k + 1 \in 1..Len(plan)
      /\ Head(todo[r]) = plan[k + 1] /\ Tail(todo[r]) = From(plan, k + 1)
  <2> HIDE DEF plan
  <2>1. QED
    BY <1>1, <1>2, FromProperties
<1>4. plan[k + 1] \in Write
  <2> HIDE DEF plan
  <2>1. QED
    BY <1>1, <1>3, ElementOfSeq
<1>5. Tail(todo[r]) \in Seq(Write)
  <2>1. todo[r] \in Seq(Write)
    BY DEF IInv, TypeOK
  <2>2. QED
    BY <2>1, HeadTailProperties
<1>6. (k + 1) - 1 = k
  BY <1>2
<1>7. QED
  BY <1>2, <1>3, <1>4, <1>5, <1>6

\* A row is on disk before the event that reports it, and the session before any
\* row that refers to it, whether or not the write succeeds.
LEMMA WriteKeepsOrder ==
  ASSUME IInv, NEW r \in Request, phase[r] = "writing",
         NEW i \in 1..Len(Plan(method[r], answer[r])), Written(r, i - 1),
         NEW w, w = Plan(method[r], answer[r])[i],
         stored' \in {stored, stored \union {<<r, w>>}},
         UNCHANGED <<method, session, verdict, executed>>
  PROVE  /\ AuditIsBacked' /\ RowsHaveSession' /\ ExecutedWasAllowed'
         /\ \A s : HasRow(s) => HasRow(s)'
<1>1. \A q, v : <<q, v>> \in stored => <<q, v>> \in stored'
  OBVIOUS
<1>2. \A q, v : <<q, v>> \in stored' => <<q, v>> \in stored \/ (q = r /\ v = w)
  OBVIOUS
<1>3. \A s : HasRow(s) => HasRow(s)'
  BY <1>1 DEF HasRow, Has
<1>4. ASSUME NEW t1, NEW t2, NEW v1, NEW v2,
             \A q \in Request : Has(q, t1, v1) => Has(q, t2, v2),
             w = Put(t1, v1) =>
               \E j \in 1 .. i - 1 : Plan(method[r], answer[r])[j] = Put(t2, v2)
      PROVE  \A q \in Request : Has(q, t1, v1)' => Has(q, t2, v2)'
  <2> SUFFICES ASSUME NEW q \in Request, Has(q, t1, v1)' PROVE Has(q, t2, v2)'
    OBVIOUS
  <2>1. CASE Has(q, t1, v1)
    BY <1>1, <1>4, <2>1 DEF Has
  <2>2. CASE q = r /\ w = Put(t1, v1)
    <3>1. PICK j \in 1 .. i - 1 : Plan(method[r], answer[r])[j] = Put(t2, v2)
      BY <1>4, <2>2
    <3>2. <<r, Put(t2, v2)>> \in stored
      BY <3>1 DEF Written
    <3>3. QED
      BY <1>1, <2>2, <3>2 DEF Has
  <2>3. QED
    BY <1>2, <2>1, <2>2 DEF Has
<1>5. AuditIsBacked'
  <2> DEFINE Before(t, v) ==
        \E j \in 1 .. i - 1 : Plan(method[r], answer[r])[j] = Put(t, v)
  <2>1. /\ w = Put("audit", "tool.completed") => Before("executions", "succeeded")
        /\ w = Put("audit", "tool.failed") =>
             Before("executions", "failed") /\ Before("errors", "execution")
        /\ w = Put("audit", "policy.denied") => Before("errors", "denied")
        /\ w = Put("audit", "approval.required") => Before("approvals", "pending")
        /\ w = Put("audit", "session.bootstrapped") => Before("sessions", "upserted")
    BY PlanOrder
  <2>2. AuditIsBacked
    BY DEF IInv
  <2>3. \A q \in Request :
          Has(q, "audit", "tool.completed")' => Has(q, "executions", "succeeded")'
    BY <1>4, <2>1, <2>2 DEF AuditIsBacked
  <2>4. \A q \in Request :
          Has(q, "audit", "tool.failed")' => Has(q, "executions", "failed")'
    BY <1>4, <2>1, <2>2 DEF AuditIsBacked
  <2>5. \A q \in Request : Has(q, "audit", "tool.failed")' => Has(q, "errors", "execution")'
    BY <1>4, <2>1, <2>2 DEF AuditIsBacked
  <2>6. \A q \in Request : Has(q, "audit", "policy.denied")' => Has(q, "errors", "denied")'
    BY <1>4, <2>1, <2>2 DEF AuditIsBacked
  <2>7. \A q \in Request :
          Has(q, "audit", "approval.required")' => Has(q, "approvals", "pending")'
    BY <1>4, <2>1, <2>2 DEF AuditIsBacked
  <2>8. \A q \in Request :
          Has(q, "audit", "session.bootstrapped")' => Has(q, "sessions", "upserted")'
    BY <1>4, <2>1, <2>2 DEF AuditIsBacked
  <2>9. QED
    BY <2>3, <2>4, <2>5, <2>6, <2>7, <2>8 DEF AuditIsBacked
<1>6. RowsHaveSession'
  <2> DEFINE Rows == {Put("executions", "succeeded"), Put("executions", "failed"),
                      Put("approvals", "pending"), Put("terminals", "active"),
                      Put("terminals", "ended")}
  <2> SUFFICES ASSUME NEW q \in Request, NEW v \in Rows, <<q, v>> \in stored'
               PROVE  HasRow(session[q])'
    BY DEF RowsHaveSession
  <2>1. CASE <<q, v>> \in stored
    <3>1. HasRow(session[q])
      BY <2>1 DEF IInv, RowsHaveSession
    <3>2. QED
      BY <1>3, <3>1
  <2>2. CASE q = r /\ v = w
    <3>1. w.to \notin {"sessions", "audit"}
      BY <2>2, PutEqual
    <3>2. method[r] # "session.bootstrap"
      BY <3>1, PlanRows DEF IInv, WritingInv
    <3>3. session[r] \in Session
      BY <3>2 DEF IInv, WritingInv
    <3>4. HasRow(session[r])
      BY <3>2, <3>3, PipelineAssumption DEF IInv, SessionInv
    <3>5. QED
      BY <1>3, <2>2, <3>4
  <2>3. QED
    BY <1>2, <2>1, <2>2
<1>7. ExecutedWasAllowed'
  BY <1>3 DEF IInv, ExecutedWasAllowed
<1>8. QED
  BY <1>3, <1>5, <1>6, <1>7

\* The row of a terminal session's start is not written once anyone could end it.
LEMMA WriteNextInv ==
  ASSUME IInv, NEW r \in Request, WriteNext(r)
  PROVE  IInv'
<1> USE DEF WriteNext, requestVars
<1> DEFINE w == Head(todo[r])
<1>1. PICK i \in 1..Len(Plan(method[r], answer[r])) :
        /\ w = Plan(method[r], answer[r])[i]
        /\ w \in Write
        /\ Tail(todo[r]) = From(Plan(method[r], answer[r]), i)
        /\ Tail(todo[r]) \in Seq(Write)
        /\ Written(r, i - 1)
  BY NextWrite
<1>2. /\ stored' = stored \union {<<r, w>>}
      /\ terminalRow' = IF w.to = "terminals"
                          THEN [terminalRow EXCEPT ![target[r]] = w.what]
                          ELSE terminalRow
      /\ todo'[r] = Tail(todo[r]) /\ \A q \in Request \ {r} : todo'[q] = todo[q]
  BY DEF IInv, TypeOK
<1>3. w.to = "terminals" =>
        /\ target[r] \in Terminal
        /\ \/ w.what = "active" /\ method[r] \in Starts
           \/ w.what = "ended" /\ method[r] \in Ends
  <2> SUFFICES ASSUME w.to = "terminals"
               PROVE  /\ target[r] \in Terminal
                      /\ \/ w.what = "active" /\ method[r] \in Starts
                         \/ w.what = "ended" /\ method[r] \in Ends
    OBVIOUS
  <2>1. /\ answer[r] = "result"
        /\ \/ method[r] = "terminal.start" /\ w.what = "active"
           \/ method[r] = "terminal.end" /\ w.what = "ended"
    BY <1>1, PlanRows
  <2>2. method[r] \in Starts \union Ends
    BY <2>1 DEF Starts, Ends
  <2>3. target[r] \in Terminal
    BY <2>1, <2>2 DEF IInv, WritingInv
  <2>4. QED
    BY <2>1, <2>3 DEF Starts, Ends
<1> HIDE DEF w
<1>4. TypeOK'
  <2>1. stored' \in SUBSET (Request \X Write)
    BY <1>1, <1>2 DEF IInv, TypeOK
  <2>2. terminalRow' \in [Terminal -> {None, "active", "ended"}]
    BY <1>2, <1>3 DEF IInv, TypeOK
  <2>3. todo' \in [Request -> Seq(Write)]
    BY <1>1, <1>2 DEF IInv, TypeOK
  <2>4. QED
    BY <2>1, <2>2, <2>3 DEF IInv, TypeOK
<1>5. /\ AuditIsBacked' /\ RowsHaveSession' /\ ExecutedWasAllowed'
      /\ \A s : HasRow(s) => HasRow(s)'
  BY <1>1, <1>2, WriteKeepsOrder
<1>6. \A q \in Request : EarlyInv(q)'
  BY <1>2 DEF IInv, EarlyInv, Early
<1>7. \A q \in Request : \A k : Written(q, k) => Written(q, k)'
  BY <1>2 DEF Written
<1>8. \A q \in Request : WritingInv(q)' /\ AnsweredInv(q)'
  <2>1. Written(r, i)'
    <3>1. \A j \in 1..i : j \in 1 .. i - 1 \/ j = i
      OBVIOUS
    <3>2. QED
      BY <1>1, <1>2, <3>1 DEF Written
  <2>2. WritingInv(r)'
    <3>1. i \in 0..Len(Plan(method[r], answer[r]))
      OBVIOUS
    <3>2. QED
      BY <1>1, <1>2, <2>1, <3>1 DEF IInv, WritingInv
  <2>3. \A q \in Request \ {r} : WritingInv(q)'
    BY <1>2, <1>7 DEF IInv, WritingInv
  <2>4. \A q \in Request : AnsweredInv(q)'
    BY <1>7 DEF IInv, AnsweredInv
  <2>5. QED
    BY <2>2, <2>3, <2>4
<1>9. \A q \in Request : SessionInv(q)'
  BY <1>5 DEF IInv, SessionInv
<1>10. TerminalInv'
  BY DEF IInv, TerminalInv, Answered
<1>11. \A q \in Request : RowInv(q)'
  <2> SUFFICES ASSUME NEW q \in Request, NEW v \in Write, <<q, v>> \in stored',
                      v.to = "terminals"
               PROVE  /\ target[q] \in Terminal
                      /\ \/ v.what = "active" /\ method[q] \in Starts
                         \/ /\ v.what = "ended" /\ method[q] \in Ends
                            /\ terminalRow'[target[q]] = "ended"
    BY DEF RowInv
  <2>1. CASE <<q, v>> \in stored
    <3>1. /\ target[q] \in Terminal
          /\ \/ v.what = "active" /\ method[q] \in Starts
             \/ v.what = "ended" /\ method[q] \in Ends /\ terminalRow[target[q]] = "ended"
      BY <2>1 DEF IInv, RowInv
    <3>2. ASSUME method[q] \in Ends, w.to = "terminals", target[q] = target[r]
          PROVE  method[r] \notin Starts
      <4>1. phase[q] # "idle"
        BY <2>1 DEF IInv, EarlyInv, Early
      <4>2. target[q] # None
        BY <3>1, PipelineAssumption
      <4>3. PICK p \in Request : Answered(p, Starts, "result") /\ target[p] = target[q]
        BY <3>2, <4>1, <4>2 DEF IInv, TerminalInv
      <4>4. p # r
        BY <4>3 DEF Answered
      <4>5. QED
        BY <3>2, <4>2, <4>3, <4>4 DEF IInv, TerminalInv, Answered
    <3>3. QED
      BY <1>2, <1>3, <3>1, <3>2 DEF IInv, TypeOK
  <2>2. CASE q = r /\ v = w
    BY <1>2, <1>3, <2>2 DEF IInv, TypeOK
  <2>3. QED
    BY <1>2, <2>1, <2>2
<1>12. QED
  BY <1>4, <1>5, <1>6, <1>8, <1>9, <1>10, <1>11 DEF IInv

\* A write that fails leaves at most an audit event.
LEMMA WriteFailsInv ==
  ASSUME IInv, NEW r \in Request, WriteFails(r)
  PROVE  IInv'
<1> USE DEF WriteFails, requestVars
<1> DEFINE w == Head(todo[r])
<1>1. PICK i \in 1..Len(Plan(method[r], answer[r])) :
        /\ w = Plan(method[r], answer[r])[i] /\ w \in Write /\ Written(r, i - 1)
  BY NextWrite
<1>2. stored' = stored \/ (w.to = "audit" /\ stored' = stored \union {<<r, w>>})
  OBVIOUS
<1>3. /\ phase'[r] = "answered" /\ answer'[r] = "storage error"
      /\ \A q \in Request \ {r} :
           phase'[q] = phase[q] /\ answer'[q] = answer[q] /\ todo'[q] = todo[q]
  BY DEF IInv, TypeOK
<1> HIDE DEF w
<1>4. TypeOK'
  <2>1. stored' \in SUBSET (Request \X Write)
    <3>1. stored \in SUBSET (Request \X Write) /\ <<r, w>> \in Request \X Write
      BY <1>1 DEF IInv, TypeOK
    <3>2. QED
      BY <1>2, <3>1
  <2>2. todo' \in [Request -> Seq(Write)]
    BY EmptySeq DEF IInv, TypeOK
  <2>3. QED
    BY <2>1, <2>2 DEF IInv, TypeOK, Answer
<1>5. /\ AuditIsBacked' /\ RowsHaveSession' /\ ExecutedWasAllowed'
      /\ \A s : HasRow(s) => HasRow(s)'
  BY <1>1, <1>2, WriteKeepsOrder
<1>6. \A q \in Request : EarlyInv(q)'
  <2>1. \A q \in Request \ {r} : \A v : <<q, v>> \in stored' => <<q, v>> \in stored
    BY <1>2
  <2>2. QED
    BY <1>3, <2>1 DEF IInv, EarlyInv, Early
<1>7. \A q \in Request \ {r} : \A k : Written(q, k) => Written(q, k)'
  BY <1>2, <1>3 DEF Written
<1>8. \A q \in Request : WritingInv(q)' /\ AnsweredInv(q)'
  <2>1. WritingInv(r)' /\ AnsweredInv(r)'
    BY <1>3 DEF WritingInv, AnsweredInv
  <2>2. \A q \in Request \ {r} : WritingInv(q)'
    BY <1>3, <1>7 DEF IInv, WritingInv
  <2>3. \A q \in Request \ {r} : AnsweredInv(q)'
    BY <1>3, <1>7 DEF IInv, AnsweredInv
  <2>4. QED
    BY <2>1, <2>2, <2>3
<1>9. \A q \in Request : phase'[q] # "idle" => phase[q] # "idle"
  BY <1>3
<1>10. \A q \in Request : SessionInv(q)'
  BY <1>5, <1>9 DEF IInv, SessionInv
<1>11. TerminalInv'
  <2>1. \A q \in Request : Answered(q, Starts, "result") => Answered(q, Starts, "result")'
    BY <1>3 DEF Answered
  <2>2. TerminalInv
    BY DEF IInv
  <2>3. QED
    BY <1>9, <2>1, <2>2 DEF TerminalInv
<1>12. \A q \in Request : RowInv(q)'
  <2>1. \A q, v : <<q, v>> \in stored' => <<q, v>> \in stored \/ v.to = "audit"
    <3>1. CASE stored' = stored
      BY <3>1
    <3>2. CASE w.to = "audit" /\ stored' = stored \union {<<r, w>>}
      BY <3>2
    <3>3. QED
      BY <1>2, <3>1, <3>2
  <2>2. \A q \in Request, v \in Write :
          <<q, v>> \in stored' /\ v.to = "terminals" => <<q, v>> \in stored
    BY <2>1
  <2>3. QED
    BY <2>2 DEF IInv, RowInv
<1>13. QED
  BY <1>4, <1>5, <1>6, <1>8, <1>10, <1>11, <1>12 DEF IInv

\* What is said of the requests survives a step that changes phases only to later
\* ones and leaves the record alone.
LEMMA PhasesInv ==
  ASSUME IInv, TypeOK',
         UNCHANGED <<method, session, target, verdict, answer, executed, stored, terminalRow>>,
         \A q \in Request :
           /\ \/ phase'[q] = phase[q]
              \/ phase'[q] = "lost" /\ phase[q] \notin {"idle", "answered"}
              \/ phase'[q] = "answered" /\ phase[q] = "writing"
           /\ phase'[q] = "writing" => todo'[q] = todo[q]
           /\ phase'[q] = "answered" => AnsweredInv(q)',
         \A t \in Terminal : terminal[t] # "free" => terminal'[t] # "free"
  PROVE  IInv'
<1>1. \A q \in Request : \A k : Written(q, k)' <=> Written(q, k)
  BY DEF Written
<1>2. \A q \in Request : EarlyInv(q)'
  BY DEF IInv, EarlyInv, Early
<1>3. \A q \in Request : WritingInv(q)' /\ AnsweredInv(q)'
  <2>1. \A q \in Request : WritingInv(q)'
    BY <1>1 DEF IInv, WritingInv
  <2>2. \A q \in Request : AnsweredInv(q)'
    BY DEF AnsweredInv
  <2>3. QED
    BY <2>1, <2>2
<1>4. \A s : HasRow(s)' <=> HasRow(s)
  BY DEF HasRow, Has
<1>5. \A q \in Request : phase'[q] # "idle" => phase[q] # "idle"
  OBVIOUS
<1>6. \A q \in Request : SessionInv(q)' /\ RowInv(q)'
  BY <1>4, <1>5 DEF IInv, SessionInv, RowInv
<1>7. TerminalInv'
  <2>1. \A q \in Request : Answered(q, Starts, "result") => Answered(q, Starts, "result")'
    BY DEF Answered
  <2>2. TerminalInv /\ \A q \in Request : target[q] # None => target[q] \in Terminal
    BY DEF IInv, TypeOK
  <2>3. QED
    BY <1>5, <2>1, <2>2 DEF TerminalInv
<1>8. AuditIsBacked' /\ RowsHaveSession' /\ ExecutedWasAllowed'
  BY <1>4 DEF IInv, AuditIsBacked, RowsHaveSession, ExecutedWasAllowed, Has
<1>9. QED
  BY <1>2, <1>3, <1>6, <1>7, <1>8 DEF IInv

\* The answer is given when the plan is through.
LEMMA RespondInv ==
  ASSUME IInv, NEW r \in Request, Respond(r)
  PROVE  IInv'
<1> USE DEF Respond, Proceed, requestVars
<1>1. TypeOK'
  BY DEF IInv, TypeOK
<1>2. phase'[r] = "answered" /\ \A q \in Request \ {r} : phase'[q] = phase[q]
  BY DEF IInv, TypeOK
<1>3. \A q \in Request : \A k : Written(q, k)' <=> Written(q, k)
  BY DEF Written
<1>4. AnsweredInv(r)'
  <2> DEFINE plan == Plan(method[r], answer[r])
  <2>1. plan \in Seq(Write)
    BY PlanTyped
  <2>2. PICK k \in 0..Len(plan) : todo[r] = From(plan, k) /\ Written(r, k)
    BY DEF IInv, WritingInv
  <2>3. k = Len(plan)
    <3> HIDE DEF plan
    <3>1. QED
      BY <2>1, <2>2, FromProperties
  <2>4. QED
    BY <1>3, <2>2, <2>3 DEF AnsweredInv
<1>5. \A q \in Request \ {r} : AnsweredInv(q)'
  BY <1>2, <1>3 DEF IInv, AnsweredInv
<1>6. QED
  BY <1>1, <1>2, <1>4, <1>5, PhasesInv

-----------------------------------------------------------------------------
(* The steps of nobody.                                                    *)

LEMMA ExpireSessionInv ==
  ASSUME IInv, NEW s \in Session, ExpireSession(s)
  PROVE  IInv'
<1> USE DEF ExpireSession, requestVars
<1>1. TypeOK'
  BY DEF IInv, TypeOK
<1>2. \A q \in Request : AnsweredInv(q)'
  BY DEF IInv, AnsweredInv, Written
<1>3. QED
  BY <1>1, <1>2, PhasesInv

LEMMA CrashInv ==
  ASSUME IInv, Crash
  PROVE  IInv'
<1> USE DEF Crash, requestVars
<1>1. TypeOK'
  BY EmptySeq DEF IInv, TypeOK
<1>2. \A q \in Request :
        phase'[q] = IF phase[q] \in {"idle", "answered"} THEN phase[q] ELSE "lost"
  OBVIOUS
<1>3. \A q \in Request : phase'[q] = "answered" => AnsweredInv(q)'
  BY <1>2 DEF IInv, AnsweredInv, Written
<1>4. \A t \in Terminal : terminal[t] # "free" => terminal'[t] # "free"
  OBVIOUS
<1>5. \A q \in Request :
        /\ \/ phase'[q] = phase[q]
           \/ phase'[q] = "lost" /\ phase[q] \notin {"idle", "answered"}
        /\ phase'[q] # "writing"
  BY <1>2
<1>6. QED
  BY <1>1, <1>3, <1>4, <1>5, PhasesInv

LEMMA StutterInv ==
  ASSUME IInv, UNCHANGED vars
  PROVE  IInv'
<1> USE DEF vars, requestVars
<1>1. TypeOK'
  BY DEF IInv, TypeOK
<1>2. \A q \in Request : AnsweredInv(q)'
  BY DEF IInv, AnsweredInv, Written
<1>3. QED
  BY <1>1, <1>2, PhasesInv

\* Every step keeps the inductive invariant.
LEMMA StepInv == IInv /\ [Next]_vars => IInv'
<1> SUFFICES ASSUME IInv, [Next]_vars PROVE IInv'
  OBVIOUS
<1>1. ASSUME NEW r \in Request, Serve(r) PROVE IInv'
  <2>1. CASE \E m \in Method, s \in Session \union {None}, t \in Terminal \union {None} :
               Receive(r, m, s, t)
    BY <2>1, ReceiveInv
  <2>2. CASE RefuseBootstrap(r)
    BY <2>2, RefuseBootstrapInv
  <2>3. CASE \E s \in Session : Bootstrap(r, s)
    BY <2>3, BootstrapInv
  <2>4. CASE Authenticate(r)
    BY <2>4, AuthenticateInv
  <2>5. CASE \E d \in Decision : Authorize(r, d)
    BY <2>5, AuthorizeInv
  <2>6. CASE NoHandler(r)
    BY <2>6, NoHandlerInv
  <2>7. CASE ListTools(r)
    BY <2>7, ListToolsInv
  <2>8. CASE RejectCall(r)
    BY <2>8, RejectCallInv
  <2>9. CASE RunTool(r)
    BY <2>9, RunToolInv
  <2>10. CASE \E t \in Terminal : StartTerminal(r, t) \/ EndTerminal(r, t)
    BY <2>10, StartTerminalInv, EndTerminalInv
  <2>11. CASE ToolFails(r)
    BY <2>11, ToolFailsInv
  <2>12. CASE WriteNext(r)
    BY <2>12, WriteNextInv
  <2>13. CASE WriteFails(r)
    BY <2>13, WriteFailsInv
  <2>14. CASE Respond(r)
    BY <2>14, RespondInv
  <2>15. QED
    BY <1>1, <2>1, <2>2, <2>3, <2>4, <2>5, <2>6, <2>7, <2>8, <2>9, <2>10, <2>11,
       <2>12, <2>13, <2>14 DEF Serve
<1>2. ASSUME NEW s \in Session, ExpireSession(s) PROVE IInv'
  BY <1>2, ExpireSessionInv
<1>3. CASE Crash
  BY <1>3, CrashInv
<1>4. CASE UNCHANGED vars
  BY <1>4, StutterInv
<1>5. QED
  BY <1>1, <1>2, <1>3, <1>4 DEF Next

-----------------------------------------------------------------------------
(* The theorems.                                                           *)

\* Every reachable state satisfies the inductive invariant: what a request has on
\* disk is the part of its plan that its handler has come through.
THEOREM Invariance == Spec => []IInv
BY InitInv, StepInv, PTL DEF Spec

\* The variables keep their types: every request, its writes and the rows on disk.
THEOREM TypeCorrect == Spec => []TypeOK
<1>1. IInv => TypeOK
  BY DEF IInv
<1>2. QED
  BY <1>1, Invariance, PTL

\* Whenever the process stops, an audit event that reports an outcome finds the
\* row of that outcome in the store.
THEOREM AuditBacked == Spec => []AuditIsBacked
<1>1. IInv => AuditIsBacked
  BY DEF IInv
<1>2. QED
  BY <1>1, Invariance, PTL

\* Every row that refers to a client session refers to one whose row is on disk.
THEOREM SessionsOnDisk == Spec => []RowsHaveSession
<1>1. IInv => RowsHaveSession
  BY DEF IInv
<1>2. QED
  BY <1>1, Invariance, PTL

\* A tool runs only for a request that policy allowed, of a client whose session
\* is on disk.
THEOREM OnlyAllowedExecute == Spec => []ExecutedWasAllowed
<1>1. IInv => ExecutedWasAllowed
  BY DEF IInv
<1>2. QED
  BY <1>1, Invariance, PTL

\* An answer is given only when all that it says is on disk.
THEOREM AnswersRecorded == Spec => []AnswerIsRecorded
<1>1. ASSUME IInv, NEW r \in Request, phase[r] = "answered", answer[r] # "storage error",
             NEW i \in 1..Len(Plan(method[r], answer[r])), NEW t, NEW w,
             Plan(method[r], answer[r])[i] = Put(t, w)
      PROVE  Has(r, t, w)
  BY <1>1 DEF IInv, AnsweredInv, Written, Has
<1>2. ASSUME IInv, NEW r \in Request, phase[r] = "answered", answer[r] = "result",
             method[r] = "session.bootstrap"
      PROVE  Has(r, "sessions", "upserted") /\ Has(r, "audit", "session.bootstrapped")
  <2>1. Len(Plan(method[r], answer[r])) = 2
    BY <1>2, OtherPlans
  <2>2. {1, 2} \subseteq 1..Len(Plan(method[r], answer[r]))
    BY <2>1
  <2>3. /\ Plan(method[r], answer[r])[1] = Put("sessions", "upserted")
        /\ Plan(method[r], answer[r])[2] = Put("audit", "session.bootstrapped")
    BY <1>2, OtherPlans
  <2>4. QED
    BY <1>1, <1>2, <2>2, <2>3
<1>3. ASSUME IInv, NEW r \in Request, phase[r] = "answered", answer[r] = "result",
             method[r] \in Tools \union {"tools.list"}
      PROVE  /\ Has(r, "audit", "tool.requested") /\ Has(r, "executions", "succeeded")
             /\ Has(r, "audit", "tool.completed")
  <2>1. /\ Len(Plan(method[r], answer[r])) \in Nat /\ Len(Plan(method[r], answer[r])) >= 3
        /\ Plan(method[r], answer[r])[1] = Put("audit", "tool.requested")
        /\ Plan(method[r], answer[r])[2] = Put("executions", "succeeded")
        /\ Plan(method[r], answer[r])[3] = Put("audit", "tool.completed")
    BY <1>3, SuccessPlan
  <2>2. {1, 2, 3} \subseteq 1..Len(Plan(method[r], answer[r]))
    BY <2>1
  <2>3. QED
    BY <1>1, <1>3, <2>1, <2>2
<1>4. ASSUME IInv, NEW r \in Request, phase[r] = "answered", answer[r] \in {"failed", "timeout"}
      PROVE  /\ Has(r, "audit", "tool.requested") /\ Has(r, "executions", "failed")
             /\ Has(r, "errors", "execution") /\ Has(r, "audit", "tool.failed")
  <2>1. /\ Len(Plan(method[r], answer[r])) = 4
        /\ Plan(method[r], answer[r])[1] = Put("audit", "tool.requested")
        /\ Plan(method[r], answer[r])[2] = Put("executions", "failed")
        /\ Plan(method[r], answer[r])[3] = Put("errors", "execution")
        /\ Plan(method[r], answer[r])[4] = Put("audit", "tool.failed")
    BY <1>4, OtherPlans
  <2>2. {1, 2, 3, 4} \subseteq 1..Len(Plan(method[r], answer[r]))
    BY <2>1
  <2>3. QED
    BY <1>1, <1>4, <2>1, <2>2
<1>5. ASSUME IInv, NEW r \in Request, phase[r] = "answered", answer[r] = "denied"
      PROVE  Has(r, "errors", "denied") /\ Has(r, "audit", "policy.denied")
  <2>1. /\ Len(Plan(method[r], answer[r])) = 2
        /\ Plan(method[r], answer[r])[1] = Put("errors", "denied")
        /\ Plan(method[r], answer[r])[2] = Put("audit", "policy.denied")
    BY <1>5, OtherPlans
  <2>2. {1, 2} \subseteq 1..Len(Plan(method[r], answer[r]))
    BY <2>1
  <2>3. QED
    BY <1>1, <1>5, <2>1, <2>2
<1>6. ASSUME IInv, NEW r \in Request, phase[r] = "answered", answer[r] = "approval required"
      PROVE  Has(r, "approvals", "pending") /\ Has(r, "audit", "approval.required")
  <2>1. /\ Len(Plan(method[r], answer[r])) = 2
        /\ Plan(method[r], answer[r])[1] = Put("approvals", "pending")
        /\ Plan(method[r], answer[r])[2] = Put("audit", "approval.required")
    BY <1>6, OtherPlans
  <2>2. {1, 2} \subseteq 1..Len(Plan(method[r], answer[r]))
    BY <2>1
  <2>3. QED
    BY <1>1, <1>6, <2>1, <2>2
<1>7. IInv => AnswerIsRecorded
  BY <1>2, <1>3, <1>4, <1>5, <1>6 DEF AnswerIsRecorded
<1>8. QED
  BY <1>7, Invariance, PTL

\* Once terminal.end_session has answered, the row of the terminal session says
\* "ended" for good.
THEOREM EndedRowsStay == Spec => []EndedRowStays
<1>1. ASSUME IInv, NEW r \in Request, Answered(r, {"terminal.end"}, "result")
      PROVE  terminalRow[target[r]] = "ended"
  <2>1. method[r] \in Tools \union {"tools.list"} /\ method[r] = "terminal.end"
    BY <1>1 DEF Answered, Tools, Ends
  <2>2. /\ Len(Plan(method[r], "result")) \in Nat /\ Len(Plan(method[r], "result")) >= 4
        /\ Plan(method[r], "result")[4] = Put("terminals", "ended")
    BY <2>1, SuccessPlan
  <2>3. 4 \in 1..Len(Plan(method[r], "result"))
    BY <2>2
  <2>4. <<r, Put("terminals", "ended")>> \in stored
    BY <1>1, <2>2, <2>3 DEF IInv, AnsweredInv, Answered, Written
  <2>5. Put("terminals", "ended") \in Write
    BY DEF Put, Write, Table, Content
  <2>6. Put("terminals", "ended").to = "terminals" /\ Put("terminals", "ended").what = "ended"
    BY PutEqual
  <2>7. RowInv(r)
    BY <1>1 DEF IInv
  <2>8. \/ Put("terminals", "ended").what = "active"
        \/ terminalRow[target[r]] = "ended"
    BY <2>4, <2>5, <2>6, <2>7 DEF RowInv
  <2>9. QED
    BY <2>6, <2>8
<1>2. IInv => EndedRowStays
  BY <1>1 DEF EndedRowStays
<1>3. QED
  BY <1>2, Invariance, PTL

=============================================================================
