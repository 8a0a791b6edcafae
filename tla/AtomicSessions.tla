---------------------------- MODULE AtomicSessions ----------------------------
(***************************************************************************)
(* What the session service promises its callers, with no map, no lock and *)
(* no copies: a client is told a token and when it expires, once.  A call  *)
(* that names the token is accepted only while the clock is before that    *)
(* expiry.  It is refused only if the clock has been seen to reach it, and *)
(* once one call has been refused all that ask later are, even if the      *)
(* clock is set back.  While it is not set back, each call is decided by   *)
(* one reading of the clock.                                               *)
(***************************************************************************)
EXTENDS Naturals

CONSTANTS
  Request,   \* the calls that name a token
  Session,   \* the tokens
  TTL,       \* how long a session is valid
  Time       \* the readings of the clock

None == "none"

VARIABLES
  now,       \* what the clock reads
  told,      \* the tokens clients have been told, with their expiries
  over,      \* the tokens that a call has found to have expired
  verdict,   \* what has been decided about each call
  asked      \* the token it was decided about

vars == <<now, told, over, verdict, asked>>

Grant == [token : Session, expires : Nat]

TypeOK ==
  /\ now \in Time
  /\ told \in SUBSET Grant
  /\ over \in SUBSET Session
  /\ verdict \in [Request -> {"none", "asking", "valid", "refused"}]
  /\ asked \in [Request -> Session \union {None}]

Init ==
  /\ now \in Time
  /\ told = {}
  /\ over = {}
  /\ verdict = [r \in Request |-> "none"]
  /\ asked = [r \in Request |-> None]

ClockMoves ==
  /\ now' \in Time
  /\ UNCHANGED <<told, over, verdict, asked>>

\* The expiry counts from a reading of the clock.
Tell(s) ==
  /\ \A g \in told : g.token # s
  /\ \E t \in Time : told' = told \union {[token |-> s, expires |-> t + TTL]}
  /\ UNCHANGED <<now, over, verdict, asked>>

Asking(r, g) == verdict[r] = "asking" /\ asked[r] = g.token

Decide(r, g, v) ==
  /\ verdict' = [verdict EXCEPT ![r] = v]
  /\ asked' = [asked EXCEPT ![r] = g.token]

\* Nobody asks about a token that has been refused, for good.
Ask(r, g) ==
  /\ verdict[r] = "none"
  /\ \A q \in Request : verdict[q] = "refused" => asked[q] # g.token
  /\ Decide(r, g, "asking")
  /\ UNCHANGED <<now, told, over>>

Accept(r, g) ==
  /\ Asking(r, g)
  /\ now < g.expires
  /\ Decide(r, g, "valid")
  /\ UNCHANGED <<now, told, over>>

Notice(r, g) ==
  /\ Asking(r, g)
  /\ now >= g.expires
  /\ over' = over \union {g.token}
  /\ UNCHANGED <<now, told, verdict, asked>>

Refuse(r, g) ==
  /\ Asking(r, g) \/ verdict[r] = "none"
  /\ g.token \in over
  /\ Decide(r, g, "refused")
  /\ UNCHANGED <<now, told, over>>

Next ==
  \/ ClockMoves
  \/ \E s \in Session : Tell(s)
  \/ \E r \in Request, g \in told :
       Ask(r, g) \/ Accept(r, g) \/ Notice(r, g) \/ Refuse(r, g)

Spec == Init /\ [][Next]_vars

=============================================================================
