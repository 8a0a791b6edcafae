---------------------------- MODULE SessionService ----------------------------
(***************************************************************************)
(* The client sessions of session/memory.go: a map from token to record    *)
(* under a reader-writer lock, and a clock that is read outside it.  A     *)
(* token lives for TTL.  Validate looks the record up under the read lock, *)
(* reads the clock, and deletes an expired record under the write lock.    *)
(* UTC strips the monotonic reading from a time, so that the clock is the  *)
(* wall clock, which may be set, also back.                                *)
(***************************************************************************)
EXTENDS Naturals

CONSTANTS
  Request,   \* the calls of Bootstrap and Validate
  Session,   \* the tokens Bootstrap can generate
  TTL,       \* how long a session is valid
  Time       \* the readings of the clock

None == "none"

VARIABLES
  now,       \* what the wall clock reads
  records,   \* MemoryService.records: when each token in the map expires, or 0
  call,      \* where each call is
  token,     \* the token it is given or generates
  seen       \* the expiry in the copy of the record it holds

vars == <<now, records, call, token, seen>>

CallState == {"idle",
              "issuing", "issued", "refused",
              "lookup", "check", "expiring",
              "valid", "expired", "unknown"}

TypeOK ==
  /\ now \in Time
  /\ records \in [Session -> Nat]
  /\ call \in [Request -> CallState]
  /\ token \in [Request -> Session \union {None}]
  /\ seen \in [Request -> Nat]

Init ==
  /\ now \in Time
  /\ records = [s \in Session |-> 0]
  /\ call = [r \in Request |-> "idle"]
  /\ token = [r \in Request |-> None]
  /\ seen = [r \in Request |-> 0]

Go(r, state) == call' = [call EXCEPT ![r] = state]

\* Time goes on, or the clock is set.
ClockMoves ==
  /\ now' \in Time
  /\ UNCHANGED <<records, call, token, seen>>

-----------------------------------------------------------------------------
(* Bootstrap.                                                              *)

\* The bootstrap token is not the configured one, or no identifier could be made.
RefuseBootstrap(r) ==
  /\ call[r] = "idle"
  /\ Go(r, "refused")
  /\ UNCHANGED <<now, records, token, seen>>

\* The clock is read and a new token generated, before the lock is taken.
BeginBootstrap(r, s) ==
  /\ call[r] = "idle"
  /\ \A q \in Request : token[q] # s
  /\ token' = [token EXCEPT ![r] = s]
  /\ seen' = [seen EXCEPT ![r] = now + TTL]
  /\ Go(r, "issuing")
  /\ UNCHANGED <<now, records>>

EndBootstrap(r) ==
  /\ call[r] = "issuing"
  /\ records' = [records EXCEPT ![token[r]] = seen[r]]
  /\ Go(r, "issued")
  /\ UNCHANGED <<now, token, seen>>

-----------------------------------------------------------------------------
(* Validate.                                                               *)

\* The sessions clients have been told of, each by one call of Bootstrap.
Issued(q, s) == call[q] = "issued" /\ token[q] = s

BeginValidate(r, s) ==
  /\ call[r] = "idle"
  /\ \E q \in Request : Issued(q, s)
  /\ token' = [token EXCEPT ![r] = s]
  /\ Go(r, "lookup")
  /\ UNCHANGED <<now, records, seen>>

\* Under the read lock.
Lookup(r) ==
  /\ call[r] = "lookup"
  /\ IF records[token[r]] = 0
       THEN Go(r, "unknown") /\ UNCHANGED seen
       ELSE /\ seen' = [seen EXCEPT ![r] = records[token[r]]]
            /\ Go(r, "check")
  /\ UNCHANGED <<now, records, token>>

Check_Renews(r) ==
  /\ call[r] = "check"
  /\ IF now < seen[r]
       THEN Go(r, "valid") /\ records' = [records EXCEPT ![token[r]] = now + TTL]
       ELSE Go(r, "expiring") /\ UNCHANGED records
  /\ UNCHANGED <<now, token, seen>>

Check_AtExpiry(r) ==
  /\ call[r] = "check"
  /\ Go(r, IF now <= seen[r] THEN "valid" ELSE "expiring")
  /\ UNCHANGED <<now, records, token, seen>>

\* The clock is compared with the copy, under no lock.
Check(r) ==
  /\ call[r] = "check"
  /\ Go(r, IF now < seen[r] THEN "valid" ELSE "expiring")
  /\ UNCHANGED <<now, records, token, seen>>

Delete_Everything(r) ==
  /\ call[r] = "expiring"
  /\ records' = [s \in Session |-> 0]
  /\ Go(r, "expired")
  /\ UNCHANGED <<now, token, seen>>

\* Under the write lock.
Delete(r) ==
  /\ call[r] = "expiring"
  /\ records' = [records EXCEPT ![token[r]] = 0]
  /\ Go(r, "expired")
  /\ UNCHANGED <<now, token, seen>>

-----------------------------------------------------------------------------
Step(r) ==
  \/ RefuseBootstrap(r)
  \/ \E s \in Session : BeginBootstrap(r, s) \/ BeginValidate(r, s)
  \/ EndBootstrap(r)
  \/ Lookup(r)
  \/ Check(r)
  \/ Delete(r)

Next == ClockMoves \/ \E r \in Request : Step(r)

Spec == Init /\ [][Next]_vars

-----------------------------------------------------------------------------
(* Properties.                                                             *)

FoundExpired(r) == call[r] \in {"expiring", "expired"}

\* A call of Validate looks up and finds a token that another has already answered
\* to be expired.
Revival ==
  \E r, q \in Request :
    /\ token[q] = token[r]
    /\ call[r] = "expired"
    /\ call[q] = "lookup" /\ call'[q] = "check"

\* A call of Validate is about to answer that its token is expired, or unknown.
Refuses(r) ==
  call[r] \in {"lookup", "check"} /\ call'[r] \in {"expiring", "unknown"}

\* It is, although the clock reads less than the expiry that the client was told and
\* has not been seen to read as much by another call either.
CutShort ==
  \E r, q \in Request :
    /\ Refuses(r) /\ Issued(q, token[r])
    /\ now < seen[q]
    /\ \A p \in Request : FoundExpired(p) => token[p] # token[r]

-----------------------------------------------------------------------------
(* The promise, kept by calls of Validate from their lookup on.            *)

Told ==
  {[token |-> token[q], expires |-> seen[q]] : q \in {r \in Request : call[r] = "issued"}}

Over == {token[r] : r \in {q \in Request : FoundExpired(q)}}

Verdict ==
  [r \in Request |->
    IF call[r] \in {"check", "expiring"} THEN "asking"
    ELSE IF call[r] = "valid" THEN "valid"
    ELSE IF call[r] \in {"expired", "unknown"} THEN "refused"
    ELSE "none"]

Asked == [r \in Request |-> IF Verdict[r] = "none" THEN None ELSE token[r]]

Atomic == INSTANCE AtomicSessions
            WITH told <- Told, over <- Over, verdict <- Verdict, asked <- Asked

\* Although Validate reads the map, reads the clock and deletes in three steps, under
\* two locks and none, its calls keep the promise, wherever the clock is set.
ImplementsAtomicSessions == Atomic!Spec

=============================================================================
