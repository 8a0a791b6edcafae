-------------------------- MODULE RequestGuardProofs --------------------------
(***************************************************************************)
(* For any number of calls and sessions, any file system and any           *)
(* configuration: the safety properties of RequestGuard.                   *)
(***************************************************************************)
EXTENDS RequestGuard, PolicyEngineProofs, SequenceTheorems, TLAPS

-----------------------------------------------------------------------------
(* The sessions.                                                           *)

Holds(q) == call[q] \in {"issuing", "issued"}
Compared(r) == call[r] \in {"check", "expiring", "valid", "expired"}

\* No two calls of Bootstrap generate the same token.
TokensDiffer ==
  \A q, r \in Request : Holds(q) /\ Holds(r) /\ token[q] = token[r] => q = r

\* A call that holds a token was given one, or has generated it; one that
\* validates it was given it by the Bootstrap that issued it.
TokensKnown ==
  /\ \A q \in Request : Holds(q) => token[q] \in Session
  /\ \A r \in Request : Compared(r) \/ call[r] \in {"lookup", "unknown"} =>
       token[r] \in Session /\ \E q \in Request : Sessions!Issued(q, token[r])

\* A token that some call has found expired.
Over(s) == \E p \in Request : token[p] = s /\ Sessions!FoundExpired(p)

\* The record of an issued token says what its client was told, until a call that has
\* found it expired deletes it, for good.
RecordInv ==
  /\ \A q \in Request : call[q] = "issued" =>
       \/ records[token[q]] = seen[q]
       \/ records[token[q]] = 0 /\ Over(token[q])
  /\ \A r \in Request : call[r] \in {"expired", "unknown"} =>
       records[token[r]] = 0 /\ Over(token[r])

\* So do the copies.
CopyInv ==
  \A q, r \in Request : Compared(r) /\ Sessions!Issued(q, token[r]) => seen[r] = seen[q]

\* The expiry that a Bootstrap tells, or is about to, counts from a reading of the clock.
GrantInv == \A q \in Request : Holds(q) => \E t \in Time : seen[q] = t + TTL

SessionInv ==
  /\ Sessions!TypeOK
  /\ TokensDiffer
  /\ TokensKnown
  /\ RecordInv
  /\ CopyInv
  /\ GrantInv

\* The initial states satisfy it.
LEMMA InitSession == Init => SessionInv
BY GuardAssumption
   DEF Init, SessionInv, Sessions!Init, Sessions!TypeOK, Sessions!None, Sessions!CallState,
       TokensDiffer, TokensKnown, RecordInv, CopyInv, GrantInv, Holds, Compared, Over,
       Sessions!FoundExpired, Sessions!Issued

\* Wherever the clock goes.
LEMMA ClockSession == SessionInv /\ Sessions!ClockMoves => SessionInv'
BY DEF SessionInv, Sessions!ClockMoves, Sessions!TypeOK, TokensDiffer, TokensKnown, RecordInv,
       CopyInv, GrantInv, Holds, Compared, Over, Sessions!FoundExpired, Sessions!Issued

\* A call of Bootstrap that is refused, or has read the clock and generated a
\* token, which nobody knows yet.
LEMMA BeginBootstrapSession ==
  ASSUME SessionInv, NEW r \in Request, NEW s,
         \/ Sessions!RefuseBootstrap(r)
         \/ s \in Session /\ Sessions!BeginBootstrap(r, s)
  PROVE  SessionInv'
<1> USE DEF SessionInv, Sessions!RefuseBootstrap, Sessions!BeginBootstrap, Sessions!Go
<1>1. Sessions!TypeOK'
  <2>1. TTL \in Nat /\ Time \subseteq Nat
    BY GuardAssumption
  <2>2. QED
    BY <2>1 DEF Sessions!TypeOK, Sessions!CallState
<1>2. (TokensDiffer /\ TokensKnown)'
  BY DEF Sessions!TypeOK, TokensDiffer, TokensKnown, Holds, Compared, Sessions!Issued
<1>3. \A q \in Request : call'[q] # "idle" /\ q # r => token'[q] = token[q] /\ call'[q] = call[q]
  BY DEF Sessions!TypeOK
<1>4. \A p \in Request : Sessions!FoundExpired(p) =>
        token'[p] = token[p] /\ Sessions!FoundExpired(p)'
  BY DEF Sessions!TypeOK, Sessions!FoundExpired
<1>5. RecordInv'
  <2>1. \A t : Over(t) => Over(t)'
    BY <1>4 DEF Over
  <2>2. QED
    BY <2>1 DEF Sessions!TypeOK, RecordInv
<1>6. CopyInv'
  BY DEF Sessions!TypeOK, CopyInv, Compared, Sessions!Issued
<1>7. GrantInv'
  BY DEF Sessions!TypeOK, GrantInv, Holds
<1>8. QED
  BY <1>1, <1>2, <1>5, <1>6, <1>7

\* The record is stored before the token is given away.
LEMMA EndBootstrapSession ==
  ASSUME SessionInv, NEW r \in Request, Sessions!EndBootstrap(r)
  PROVE  SessionInv'
<1> USE DEF SessionInv, Sessions!EndBootstrap, Sessions!Go
<1>1. Sessions!TypeOK'
  BY DEF Sessions!TypeOK, Sessions!CallState
<1>2. (TokensDiffer /\ TokensKnown)'
  BY DEF Sessions!TypeOK, TokensDiffer, TokensKnown, Holds, Compared, Sessions!Issued
<1>3. \A t : Over(t) => Over(t)'
  BY DEF Over, Sessions!FoundExpired, Sessions!TypeOK
<1>4. \A q \in Request : call[q] \in {"issued", "expired", "unknown"} => token[q] # token[r]
  BY DEF TokensDiffer, TokensKnown, Holds, Compared, Sessions!Issued
<1>5. RecordInv'
  BY <1>3, <1>4 DEF Sessions!TypeOK, RecordInv, TokensKnown, Holds
<1>6. CopyInv'
  BY DEF Sessions!TypeOK, CopyInv, Compared, TokensDiffer, TokensKnown, Holds,
         Sessions!Issued
<1>7. GrantInv'
  BY DEF Sessions!TypeOK, GrantInv, Holds
<1>8. QED
  BY <1>1, <1>2, <1>5, <1>6, <1>7

\* Validate up to its comparison, which changes no record.
LEMMA ReadSession ==
  ASSUME SessionInv, NEW r \in Request, NEW s,
         \/ s \in Session /\ Sessions!BeginValidate(r, s)
         \/ Sessions!Lookup(r)
         \/ Sessions!Check(r)
  PROVE  SessionInv'
<1> USE DEF SessionInv, Sessions!BeginValidate, Sessions!Lookup, Sessions!Check, Sessions!Go
<1>1. Sessions!TypeOK'
  BY DEF Sessions!TypeOK, Sessions!CallState, TokensKnown
<1>2. TokensDiffer'
  BY DEF Sessions!TypeOK, TokensDiffer, Holds
<1>3. TokensKnown'
  BY DEF Sessions!TypeOK, TokensKnown, Holds, Compared, Sessions!Issued
<1>4. \A t : Over(t) => Over(t)'
  BY DEF Over, Sessions!FoundExpired, Sessions!TypeOK
<1>5. RecordInv'
  <2>1. call'[r] = "unknown" => records[token[r]] = 0 /\ Over(token[r])
    <3>1. CASE call[r] = "lookup"
      <4>1. PICK q \in Request : Sessions!Issued(q, token[r])
        BY <3>1 DEF TokensKnown
      <4>2. records[token[r]] = 0 => Over(token[r])
        <5>1. CASE records[token[r]] = seen[q] /\ seen[q] = 0
          <6>1. PICK t \in Time : seen[q] = t + TTL
            BY <4>1 DEF GrantInv, Holds, Sessions!Issued
          <6>2. t \in Nat \ {0} /\ TTL \in Nat
            BY GuardAssumption
          <6>3. QED
            BY <5>1, <6>1, <6>2
        <5>2. QED
          BY <4>1, <5>1 DEF RecordInv, Sessions!Issued
      <4>3. QED
        BY <3>1, <4>2 DEF Sessions!TypeOK
    <3>2. QED
      BY <3>1 DEF Sessions!TypeOK
  <2>2. /\ \A q \in Request : call'[q] = "issued" =>
             call[q] = "issued" /\ token'[q] = token[q] /\ seen'[q] = seen[q]
        /\ \A q \in Request : call'[q] \in {"expired", "unknown"} =>
             token'[q] = token[q] /\ (q # r => call[q] = call'[q])
        /\ call'[r] # "expired"
        /\ records' = records
    BY DEF Sessions!TypeOK
  <2>3. QED
    BY <1>4, <2>1, <2>2 DEF RecordInv
<1>6. CopyInv'
  BY DEF Sessions!TypeOK, CopyInv, RecordInv, Compared, Sessions!Issued
<1>7. GrantInv'
  BY DEF Sessions!TypeOK, GrantInv, Holds
<1>8. QED
  BY <1>1, <1>2, <1>3, <1>5, <1>6, <1>7

\* The deletion of a record that was found expired.
LEMMA DeleteSession ==
  ASSUME SessionInv, NEW r \in Request, Sessions!Delete(r)
  PROVE  SessionInv'
<1> USE DEF SessionInv, Sessions!Delete, Sessions!Go
<1>1. Sessions!TypeOK'
  BY DEF Sessions!TypeOK, Sessions!CallState
<1>2. (TokensDiffer /\ TokensKnown)'
  BY DEF Sessions!TypeOK, TokensDiffer, TokensKnown, Holds, Compared, Sessions!Issued
<1>3. RecordInv'
  <2>1. \A t : Over(t) => Over(t)'
    BY DEF Over, Sessions!FoundExpired, Sessions!TypeOK
  <2>2. Over(token[r])'
    BY DEF Over, Sessions!FoundExpired, Sessions!TypeOK
  <2>3. QED
    BY <2>1, <2>2 DEF Sessions!TypeOK, RecordInv, TokensKnown, Compared, Holds
<1>4. CopyInv'
  BY DEF Sessions!TypeOK, CopyInv, Compared, Sessions!Issued
<1>5. GrantInv'
  BY DEF Sessions!TypeOK, GrantInv, Holds
<1>6. QED
  BY <1>1, <1>2, <1>3, <1>4, <1>5

\* Every step of the session service keeps the invariant.
LEMMA SessionStep == SessionInv /\ Sessions!Next => SessionInv'
<1> SUFFICES ASSUME SessionInv, Sessions!Next PROVE SessionInv'
  OBVIOUS
<1>1. CASE Sessions!ClockMoves
  BY <1>1, ClockSession
<1>2. ASSUME NEW r \in Request, Sessions!Step(r) PROVE SessionInv'
  BY <1>2, BeginBootstrapSession, EndBootstrapSession, ReadSession, DeleteSession
     DEF Sessions!Step
<1>3. QED
  BY <1>1, <1>2 DEF Sessions!Next

\* A call comes to compare or to refuse by its own lookup or comparison.
LEMMA OnlyOwnSteps ==
  ASSUME SessionInv, Sessions!Next, NEW q \in Request
  PROVE  /\ call[q] = "lookup" /\ call'[q] \in {"check", "unknown"} => Sessions!Lookup(q)
         /\ call[q] = "lookup" => call'[q] # "expiring"
         /\ call[q] = "check" /\ call'[q] = "expiring" => Sessions!Check(q)
         /\ call[q] = "check" => call'[q] # "unknown"
<1> USE DEF SessionInv, Sessions!TypeOK, Sessions!Go
<1>1. CASE Sessions!ClockMoves
  BY <1>1 DEF Sessions!ClockMoves
<1>2. ASSUME NEW r \in Request, Sessions!Step(r)
      PROVE  /\ call[q] = "lookup" /\ call'[q] \in {"check", "unknown"} => Sessions!Lookup(q)
             /\ call[q] = "lookup" => call'[q] # "expiring"
             /\ call[q] = "check" /\ call'[q] = "expiring" => Sessions!Check(q)
             /\ call[q] = "check" => call'[q] # "unknown"
  <2>1. CASE r = q
    BY <1>2, <2>1 DEF Sessions!Step, Sessions!RefuseBootstrap, Sessions!BeginBootstrap,
         Sessions!EndBootstrap, Sessions!BeginValidate, Sessions!Lookup, Sessions!Check,
         Sessions!Delete
  <2>2. CASE r # q
    <3>1. call'[q] = call[q]
      BY <1>2, <2>2 DEF Sessions!Step, Sessions!RefuseBootstrap, Sessions!BeginBootstrap,
           Sessions!EndBootstrap, Sessions!BeginValidate, Sessions!Lookup, Sessions!Check,
           Sessions!Delete
    <3>2. QED
      BY <3>1
  <2>3. QED
    BY <2>1, <2>2
<1>3. QED
  BY <1>1, <1>2 DEF Sessions!Next

\* A token that a call has answered to be expired has no record any more.
LEMMA SessionOnce == SessionInv /\ Sessions!Next => ~Sessions!Revival
<1> SUFFICES ASSUME SessionInv, Sessions!Next, NEW r \in Request, NEW q \in Request,
                    token[q] = token[r], call[r] = "expired",
                    call[q] = "lookup", call'[q] = "check"
             PROVE  FALSE
  BY DEF Sessions!Revival
<1>1. Sessions!Lookup(q)
  BY OnlyOwnSteps
<1>2. records[token[q]] = 0
  BY DEF SessionInv, RecordInv
<1>3. QED
  BY <1>1, <1>2 DEF Sessions!Lookup, Sessions!Go, SessionInv, Sessions!TypeOK

\* A token that has none was found expired by the clock, and so is one by a copy.
LEMMA SessionRefused == SessionInv /\ SessionInv' /\ Sessions!Next => ~Sessions!CutShort
<1> SUFFICES ASSUME SessionInv, SessionInv', Sessions!Next,
                    NEW r \in Request, NEW q \in Request,
                    Sessions!Refuses(r), Sessions!Issued(q, token[r]), now < seen[q],
                    \A p \in Request : Sessions!FoundExpired(p) => token[p] # token[r]
             PROVE  FALSE
  BY DEF Sessions!CutShort
<1>1. CASE call[r] = "lookup"
  <2>1. Sessions!Lookup(r) /\ call'[r] = "unknown"
    BY <1>1, OnlyOwnSteps DEF Sessions!Refuses
  <2>2. PICK p \in Request : token'[p] = token'[r] /\ Sessions!FoundExpired(p)'
    BY <2>1 DEF SessionInv, RecordInv, Over
  <2>3. Sessions!FoundExpired(p) /\ token[p] = token[r]
    BY <2>1, <2>2 DEF Sessions!Lookup, Sessions!Go, Sessions!FoundExpired, SessionInv,
         Sessions!TypeOK
  <2>4. QED
    BY <2>3
<1>2. CASE call[r] = "check"
  <2>1. Sessions!Check(r) /\ call'[r] = "expiring"
    BY <1>2, OnlyOwnSteps DEF Sessions!Refuses
  <2>2. seen[r] = seen[q]
    BY <1>2 DEF SessionInv, CopyInv, Compared
  <2>3. QED
    BY <2>1, <2>2 DEF Sessions!Check, Sessions!Go, SessionInv, Sessions!TypeOK
<1>3. QED
  BY <1>1, <1>2 DEF Sessions!Refuses

-----------------------------------------------------------------------------
(* The policy decision.                                                    *)

\* nucleusd's configuration is one whose rules have decisions.
LEMMA ConfigIsValid ==
  ASSUME roots \in ConfiguredRoots
  PROVE  ValidConfig(Config)
<1>1. roots \in Seq(Seq(STRING)) /\ \A a \in DOMAIN Actions : Actions[a] \in Decision
  BY GuardAssumption
<1>2. DOMAIN AllowPathRules \subseteq Nat
  BY <1>1 DEF AllowPathRules
<1>3. \A i \in DOMAIN AllowPathRules : AllowPathRules[i].decision = "allow"
  BY DEF AllowPathRules
<1>4. QED
  BY <1>1, <1>2, <1>3 DEF ValidConfig, Config, Decision

\* A request that was allowed has a timeout within the limit.
LEMMA AllowedTimeout ==
  ASSUME NEW i, NEW r, MostSevere(Config, i, r), r.decision = "allow"
  PROVE  \A x \in i.timeout : ~(ToInt(machine, x) > MaxTimeoutMS)
<1> SUFFICES ASSUME NEW x \in i.timeout, ToInt(machine, x) > MaxTimeoutMS PROVE FALSE
  OBVIOUS
<1>1. EvaluateTimeout(Config, i).decision = "deny"
  <2>1. /\ Config.maxTimeout = MaxTimeoutMS /\ MaxTimeoutMS > 0
        /\ Config.machine = machine
    <3>1. MaxTimeoutMS \in Nat \ {0}
      BY GuardAssumption
    <3>2. QED
      BY <3>1 DEF Config
  <2>2. QED
    BY <2>1 DEF EvaluateTimeout, Result
<1>2. EvaluateTimeout(Config, i) \in Rules(Config, i)
  BY DEF Rules
<1>3. Severity("deny") <= Severity("allow")
  BY <1>1, <1>2 DEF MostSevere
<1>4. QED
  BY <1>3 DEF Severity

-----------------------------------------------------------------------------
(* The deadline.                                                           *)

\* The arithmetic of a word: a number of the word is itself, any other becomes one.
LEMMA WrapInWord ==
  ASSUME NEW x \in Int
  PROVE  /\ Word > 0 => Wrap(x) \in (-Word) .. (Word - 1)
         /\ 0 <= x /\ x < Word => Wrap(x) = x
<1>1. Word \in Nat
  BY GuardAssumption
<1>2. QED
  BY <1>1 DEF Wrap

\* The product of an admitted timeout does not leave the word, and is positive unless
\* there is no whole millisecond in it.
LEMMA ProductInWord ==
  ASSUME NEW ms \in Int, 0 <= ms, ~(ms > MaxTimeoutMS)
  PROVE  0 <= ms * Milli /\ ms * Milli < Word /\ (ms > 0 => ms * Milli > 0)
<1>1. MaxTimeoutMS \in Nat /\ Milli \in Nat \ {0} /\ Word \in Nat /\ MaxTimeoutMS * Milli < Word
  BY GuardAssumption
<1>2. ms * Milli <= MaxTimeoutMS * Milli
  BY <1>1
<1>3. QED
  BY <1>1, <1>2

\* The largest int is over the limit.
LEMMA LimitInWord == Word \in Nat \ {0} /\ MaxTimeoutMS \in Nat /\ MaxTimeoutMS < Word - 1
<1>1. /\ MaxTimeoutMS \in Nat \ {0} /\ Word \in Nat /\ MaxTimeoutMS * Milli < Word
      /\ Milli \in Nat /\ Milli >= 2
  BY GuardAssumption
<1>2. MaxTimeoutMS * 2 <= MaxTimeoutMS * Milli
  BY <1>1
<1>3. QED
  BY <1>1, <1>2

\* The least int, in milliseconds, wraps around to nothing.
LEMMA LeastWraps == Wrap((-Word) * Milli) = 0
<1> DEFINE half == Milli \div 2
           modulus == 2 * Word
<1>1. Word \in Nat \ {0} /\ Milli \in Nat /\ half \in Nat /\ Milli = 2 * half
  BY GuardAssumption, LimitInWord
<1>2. (-Word) * Milli + Word = modulus * (-half) + Word
  BY <1>1
<1>3. modulus \in Nat \ {0} /\ 0 <= Word /\ Word < modulus
  BY <1>1
<1> HIDE DEF half, modulus
<1>4. (modulus * (-half) + Word) % modulus = Word
  BY <1>1, <1>3
<1>5. QED
  BY <1>1, <1>2, <1>4 DEF Wrap, modulus

-----------------------------------------------------------------------------
(* The paths.                                                              *)

\* A path that has been resolved to something is its own canonical form.
LEMMA ResolvedIsReal ==
  ASSUME NEW p, Resolve(p) \in DOMAIN Real
  PROVE  /\ Clean(p) \in DOMAIN Real
         /\ Resolve(p) = Real[Clean(p)]
         /\ Real[Resolve(p)] = Resolve(p)
         /\ Clean(Resolve(p)) = Resolve(p)
         /\ Resolve(p) \in Seq(STRING)
BY FileSystemAssumption DEF Resolve

\* What a tool admits exists and lies in a root, both by their canonical names.
LEMMA AdmittedIsInside ==
  ASSUME roots \in ConfiguredRoots, NEW p, NEW kinds, Admit(p, roots, kinds) = "result"
  PROVE  /\ Resolve(p) \in DOMAIN Real
         /\ \E i \in DOMAIN roots :
              /\ PathWithinScope(Resolve(p), Resolve(roots[i]))
              /\ IsPrefix(Real[Clean(roots[i])], Real[Resolve(p)])
<1>1. PathAllowed(Resolve(p), roots) /\ Resolve(p) \in DOMAIN Real
  BY DEF Admit
<1>2. PICK i \in DOMAIN roots : PathWithinScope(Resolve(p), Resolve(roots[i]))
  BY <1>1 DEF PathAllowed, NormalizeRoot
<1>3. Resolve(roots[i]) \in DOMAIN Real
  BY GuardAssumption DEF ValidRoot, NormalizeRoot
<1>4. Real[Clean(roots[i])] = Resolve(roots[i]) /\ Real[Resolve(p)] = Resolve(p)
      /\ Resolve(p) \in Seq(STRING)
  BY <1>1, <1>3, ResolvedIsReal
<1>5. IsPrefix(Resolve(roots[i]), Resolve(p))
  BY <1>2, <1>4 DEF PathWithinScope, IsPrefix, IsStrictPrefix
<1>6. QED
  BY <1>1, <1>2, <1>4, <1>5

\* A name in a directory that has a prefix has the prefix, properly.
LEMMA EntryHasPrefix ==
  ASSUME NEW p \in Seq(STRING), p # <<>>, NEW r \in Seq(STRING),
         IsPrefix(r, Front(p))
  PROVE  IsStrictPrefix(r, p)
<1> DEFINE n == Len(p) - 1
           m == Len(r)
<1>1. n \in Nat /\ Len(p) = n + 1 /\ m \in Nat
  OBVIOUS
<1>2. Front(p) = SubSeq(p, 1, n) /\ Len(Front(p)) = n
  BY <1>1, SubSeqProperties DEF Front
<1>3. m <= n /\ SubSeq(r, 1, m) = SubSeq(SubSeq(p, 1, n), 1, m)
  BY <1>2 DEF IsPrefix
<1>4. SubSeq(SubSeq(p, 1, n), 1, m) = SubSeq(p, 1, m)
  <2> HIDE DEF n, m
  <2>1. CASE m = 0
    BY <2>1, SubSeqEmpty
  <2>2. CASE m > 0
    BY <1>1, <1>3, <2>2, SubSeqOfSubSeq
  <2>3. m = 0 \/ m > 0
    BY <1>1
  <2>4. QED
    BY <2>1, <2>2, <2>3
<1>5. QED
  BY <1>1, <1>3, <1>4 DEF IsStrictPrefix, IsPrefix

\* Where the roots are plain, the policy allows the paths of an admitted directory.
LEMMA EntriesAreAllowed ==
  ASSUME roots \in ConfiguredRoots, PlainRoots, NEW q, NEW kinds,
         Admit(q, roots, kinds) = "result", NEW p \in EntryPaths(Resolve(q))
  PROVE  EvaluatePath(Config, [NoInput EXCEPT !.path = {p}]).decision = "allow"
<1>1. PICK i \in DOMAIN roots :
        /\ PathWithinScope(Resolve(q), Resolve(roots[i]))
        /\ Resolve(q) \in DOMAIN Real
  BY AdmittedIsInside
<1>2. roots[i] # <<>> /\ Resolve(roots[i]) = roots[i] /\ roots[i] \in DOMAIN Real
  BY GuardAssumption DEF PlainRoots, ValidRoot, NormalizeRoot
<1>3. Clean(roots[i]) = roots[i] /\ roots[i] \in Seq(STRING)
  BY <1>2, FileSystemAssumption
<1>4. p \in Seq(STRING) /\ Clean(p) = p /\ p # <<>> /\ Front(p) = Resolve(q)
  BY FileSystemAssumption DEF EntryPaths
<1>5. IsPrefix(roots[i], Resolve(q))
  BY <1>1, <1>2, <1>3 DEF PathWithinScope, IsPrefix, IsStrictPrefix
<1>6. PathWithinScope(p, roots[i])
  BY <1>2, <1>3, <1>4, <1>5, EntryHasPrefix DEF PathWithinScope
<1> DEFINE input0 == [NoInput EXCEPT !.path = {p}]
<1>7. input0.path = {p}
  BY DEF NoInput
<1>8. /\ DOMAIN Config.paths = DOMAIN roots
      /\ \A k \in DOMAIN roots :
           Config.paths[k].decision = "allow" /\ Config.paths[k].prefix = Clean(roots[k])
  BY DEF Config, AllowPathRules
<1>9. DOMAIN Config.paths \subseteq Nat
  BY ConfigIsValid DEF ValidConfig
<1> HIDE DEF input0
<1>10. /\ i \in DOMAIN Config.paths /\ input0.path # {}
       /\ \A path \in input0.path :
            PathWithinScope(Clean(path), Clean(Config.paths[i].prefix))
  BY <1>3, <1>4, <1>6, <1>7, <1>8
<1>11. PICK k \in DOMAIN Config.paths :
         EvaluatePath(Config, input0) = Result(Config.paths[k].decision, "path", "path")
  BY <1>9, <1>10, ScopeDecides
<1>12. QED
  BY <1>8, <1>11 DEF Result, input0

-----------------------------------------------------------------------------
(* The inductive invariant.                                                *)

\* A call that has not been decided has no result, and no answer.
Undecided == \A c \in Caller : input[c] = NoInput => result[c] = Silent

IInv ==
  /\ SessionInv
  /\ TypeOK
  /\ Undecided
  /\ MostSevereRuleDecides
  /\ DeadlineAsAsked
  /\ OpensInsideRoots
  /\ ListedIsAllowed

\* The initial states satisfy it.
LEMMA InitInv == Init => IInv
<1> SUFFICES ASSUME Init PROVE IInv
  OBVIOUS
<1> USE DEF Init
<1>1. SessionInv
  BY InitSession
<1>2. TypeOK
  <2>1. Word \in Nat /\ 0 < Word
    BY GuardAssumption
  <2>2. Silent \in PolicyResult
    BY DEF Silent, Result, PolicyResult, RuleName
  <2>3. deadline \in [Caller -> (-Word) .. (Word - 1)]
    BY <2>1
  <2>4. QED
    BY <1>1, <2>2, <2>3 DEF SessionInv, TypeOK, Answer
<1>3. Undecided /\ MostSevereRuleDecides /\ DeadlineAsAsked
  BY DEF Undecided, MostSevereRuleDecides, DeadlineAsAsked
<1>4. OpensInsideRoots /\ ListedIsAllowed
  BY DEF OpensInsideRoots, ListedIsAllowed
<1>5. QED
  BY <1>1, <1>2, <1>3, <1>4 DEF IInv

\* Configuration and premise depend on the process alone.
LEMMA ProcessFixed ==
  ASSUME UNCHANGED <<roots, machine>>
  PROVE  Config' = Config /\ PlainRoots' = PlainRoots
BY DEF Config, AllowPathRules, PlainRoots

\* A step of the session service, or of nobody.
LEMMA UseSessionInv ==
  ASSUME IInv, SessionInv', UNCHANGED <<processVars, callVars>>
  PROVE  IInv'
<1> USE DEF IInv, callVars, processVars
<1>1. TypeOK'
  BY DEF SessionInv, TypeOK
<1>2. (Undecided /\ DeadlineAsAsked /\ OpensInsideRoots)'
  BY DEF Undecided, DeadlineAsAsked, OpensInsideRoots
<1>3. (MostSevereRuleDecides /\ ListedIsAllowed)'
  BY ProcessFixed DEF MostSevereRuleDecides, ListedIsAllowed
<1>4. QED
  BY <1>1, <1>2, <1>3

\* The session invariant reads the session's variables only.
LEMMA SessionFrame == SessionInv /\ UNCHANGED sessionVars => SessionInv'
BY DEF SessionInv, sessionVars, Sessions!TypeOK, TokensDiffer, TokensKnown, RecordInv,
       CopyInv, GrantInv, Holds, Compared, Over, Sessions!FoundExpired, Sessions!Issued

\* The policy engine has decided, and nothing runs yet.
LEMMA AuthorizeInv ==
  ASSUME IInv, NEW c \in Caller, NEW i \in Input, Authorize(c, i)
  PROVE  IInv'
<1> DEFINE decided == Evaluate(Config, i)
           reply == IF decided.decision = "allow" THEN "none" ELSE decided.decision
<1> USE DEF IInv
<1>1. SessionInv'
  BY SessionFrame DEF Authorize
<1>2. /\ input[c] = NoInput
      /\ result' = [result EXCEPT ![c] = decided]
      /\ answer' = [answer EXCEPT ![c] = reply]
      /\ input' = [input EXCEPT ![c] = i]
      /\ UNCHANGED <<sessionVars, roots, machine, deadline, opened, listed>>
  BY DEF Authorize, processVars
<1>3. /\ decided \in PolicyResult /\ decided.decision \in Decision
      /\ MostSevere(Config, i, decided)
  BY ConfigIsValid, EvaluateIsMostSevere DEF TypeOK
<1>4. i # NoInput
  BY GuardAssumption DEF NoInput
<1> HIDE DEF decided
<1>5. TypeOK'
  BY <1>1, <1>2, <1>3, <1>4 DEF SessionInv, TypeOK, Decision, Answer
<1>6. Undecided'
  BY <1>2, <1>4 DEF Undecided, TypeOK
<1>7. MostSevereRuleDecides'
  BY <1>2, <1>3, ProcessFixed DEF MostSevereRuleDecides, TypeOK
<1>8. DeadlineAsAsked'
  BY <1>2 DEF DeadlineAsAsked, TypeOK
<1>9. (OpensInsideRoots /\ ListedIsAllowed)'
  BY <1>2, ProcessFixed DEF OpensInsideRoots, ListedIsAllowed
<1>10. QED
  BY <1>1, <1>5, <1>6, <1>7, <1>8, <1>9

\* What the deadline of an allowed call must be.
Right(i, d) ==
  /\ d > 0
  /\ \A x \in i.timeout : x >= 0 =>
       d = IF x < Unit \/ x >= Word * Unit THEN DefaultTimeout ELSE (x \div Unit) * Milli

\* It is what the conversion, the product and the default make of the timeout.
LEMMA DeadlineIsRight ==
  ASSUME NEW i \in Input, NEW r, MostSevere(Config, i, r), r.decision = "allow"
  PROVE  LET d == EffectiveTimeout(RequestTimeout(i))
         IN  d \in (-Word) .. (Word - 1) /\ Right(i, d)
<1> DEFINE t == RequestTimeout(i)
           d == EffectiveTimeout(t)
<1>1. /\ Word \in Nat \ {0} /\ Milli \in Nat
      /\ DefaultTimeout \in Nat /\ DefaultTimeout > 0 /\ DefaultTimeout < Word
  BY GuardAssumption, LimitInWord
<1>2. i.timeout \subseteq Int /\ \A x, other \in i.timeout : x = other
  BY GuardAssumption
<1>3. ASSUME t \in (-Word) .. (Word - 1)
      PROVE  /\ d \in (-Word) .. (Word - 1) /\ d > 0
             /\ t <= 0 => d = DefaultTimeout
             /\ t > 0 => d = t
  <2> HIDE DEF t
  <2>1. QED
    BY <1>1, <1>3 DEF EffectiveTimeout
<1> HIDE DEF d
<1>4. CASE i.timeout = {}
  <2>1. t = 0
    BY <1>4 DEF RequestTimeout
  <2>2. QED
    BY <1>1, <1>3, <1>4, <2>1 DEF Right, d
<1>5. ASSUME NEW x \in i.timeout
      PROVE  d \in (-Word) .. (Word - 1) /\ Right(i, d)
  <2> DEFINE ms == ToInt(machine, x)
  <2>1. /\ x \in Int
        /\ ms \in (-Word) .. (Word - 1) /\ ~(ms > MaxTimeoutMS)
        /\ 0 <= x /\ x < Word * Unit => ms = x \div Unit
        /\ x >= Word * Unit => ms = IF machine = "arm64" THEN Word - 1 ELSE -Word
    BY <1>1, <1>2, AllowedTimeout, Conversion
  <2>2. t = Wrap(ms * Milli)
    BY <1>2 DEF RequestTimeout
  <2> HIDE DEF ms, t
  <2>3. ms * Milli \in Int
    BY <1>1, <2>1
  <2>4. t \in (-Word) .. (Word - 1)
    BY <1>1, <2>2, <2>3, WrapInWord
  <2>5. CASE x < 0
    BY <1>2, <1>3, <2>1, <2>4, <2>5 DEF Right
  <2>6. CASE 0 <= x /\ x < Word * Unit
    <3>1. 0 <= ms /\ (x < Unit => ms = 0) /\ (x >= Unit => ms > 0)
      BY <2>1, <2>6 DEF Unit
    <3>2. 0 <= ms * Milli /\ ms * Milli < Word /\ (ms > 0 => ms * Milli > 0)
      BY <2>1, <3>1, ProductInWord
    <3>3. t = ms * Milli
      BY <2>2, <2>3, <3>2, WrapInWord
    <3>4. d = IF x < Unit THEN DefaultTimeout ELSE ms * Milli
      <4>1. CASE x < Unit
        BY <1>1, <1>3, <2>4, <3>1, <3>3, <4>1
      <4>2. CASE ~(x < Unit)
        BY <1>3, <2>1, <2>4, <3>1, <3>2, <3>3, <4>2 DEF Unit
      <4>3. QED
        BY <4>1, <4>2
    <3>5. ~(x >= Word * Unit)
      BY <1>1, <2>1, <2>6 DEF Unit
    <3>6. QED
      BY <1>2, <1>3, <2>1, <2>4, <2>6, <3>4, <3>5 DEF Right
  <2>7. CASE x >= Word * Unit
    <3>1. ms = -Word
      BY <2>1, <2>7, LimitInWord
    <3>2. t = 0
      BY <2>2, <3>1, LeastWraps
    <3>3. QED
      BY <1>2, <1>3, <2>4, <2>7, <3>2 DEF Right
  <2>8. x < 0 \/ (0 <= x /\ x < Word * Unit) \/ x >= Word * Unit
    BY <1>1, <2>1 DEF Unit
  <2>9. QED
    BY <2>5, <2>6, <2>7, <2>8
<1>6. QED
  BY <1>4, <1>5 DEF d

\* A tool has run: what it opened and answered is admitted.
LEMMA RunInv ==
  ASSUME IInv, NEW c \in Caller, NEW a \in Answer,
         NEW open \in SUBSET DOMAIN Real, NEW entries \in SUBSET DOMAIN Real,
         Run(c, a, open, entries),
         \A p \in open : \E i \in DOMAIN roots : IsPrefix(Real[Clean(roots[i])], Real[p]),
         PlainRoots => \A p \in entries :
           EvaluatePath(Config, [NoInput EXCEPT !.path = {p}]).decision = "allow"
  PROVE  IInv'
<1> DEFINE d == EffectiveTimeout(RequestTimeout(input[c]))
<1> USE DEF IInv
<1>1. SessionInv'
  BY SessionFrame DEF Run
<1>2. /\ result[c].decision = "allow"
      /\ deadline' = [deadline EXCEPT ![c] = d]
      /\ answer' = [answer EXCEPT ![c] = a]
      /\ opened' = [opened EXCEPT ![c] = open]
      /\ listed' = [listed EXCEPT ![c] = entries]
      /\ UNCHANGED <<sessionVars, roots, machine, input, result>>
  BY DEF Run, processVars
<1>3. input[c] # NoInput /\ input[c] \in Input
  <2>1. Silent.decision # "allow"
    BY DEF Silent, Result
  <2>2. input[c] # NoInput
    BY <1>2, <2>1 DEF Undecided
  <2>3. QED
    BY <2>2 DEF TypeOK
<1>4. d \in (-Word) .. (Word - 1) /\ Right(input[c], d)
  BY <1>2, <1>3, DeadlineIsRight DEF MostSevereRuleDecides
<1> HIDE DEF d
<1>5. TypeOK'
  BY <1>1, <1>2, <1>4 DEF SessionInv, TypeOK
<1>6. (Undecided /\ MostSevereRuleDecides)'
  BY <1>2, ProcessFixed DEF Undecided, MostSevereRuleDecides
<1>7. DeadlineAsAsked'
  BY <1>2, <1>4 DEF DeadlineAsAsked, Right, TypeOK
<1>8. OpensInsideRoots'
  BY <1>2 DEF OpensInsideRoots, TypeOK
<1>9. ListedIsAllowed'
  BY <1>2, ProcessFixed DEF ListedIsAllowed, TypeOK
<1>10. QED
  BY <1>1, <1>5, <1>6, <1>7, <1>8, <1>9

\* A tool has run, and opened nothing.
LEMMA RunNothingInv ==
  ASSUME IInv, NEW c \in Caller, NEW a \in Answer, Run(c, a, {}, {})
  PROVE  IInv'
<1>1. /\ {} \in SUBSET DOMAIN Real
      /\ \A p \in {} : \E i \in DOMAIN roots : IsPrefix(Real[Clean(roots[i])], Real[p])
      /\ \A p \in {} : EvaluatePath(Config, [NoInput EXCEPT !.path = {p}]).decision = "allow"
  OBVIOUS
<1>2. QED
  BY <1>1, RunInv

\* filesystem.list opens and answers what is admitted.
LEMMA RunListInv == \A c \in Caller : IInv /\ RunList(c) => IInv'
<1> SUFFICES ASSUME IInv, NEW c \in Caller, RunList(c) PROVE IInv'
  OBVIOUS
<1> USE DEF Answer
<1>1. roots \in ConfiguredRoots
  BY DEF IInv, TypeOK
<1>2. CASE input[c].path = {} /\ Run(c, "invalid", {}, {})
  BY <1>2, RunNothingInv
<1>3. ASSUME NEW p \in input[c].path,
             LET a == Admit(p, roots, {"directory"}) IN
               \/ a = "result" /\ Run(c, a, {Resolve(p)}, EntryPaths(Resolve(p)))
               \/ a = "result" /\ \E o \in SUBSET {Resolve(p)} : Run(c, "failed", o, {})
               \/ a # "result" /\ Run(c, a, {}, {})
      PROVE  IInv'
  <2> DEFINE a == Admit(p, roots, {"directory"})
  <2>1. a \in {"result", "invalid", "out of scope"}
    BY DEF Admit
  <2>2. a = "result" =>
          /\ Resolve(p) \in DOMAIN Real
          /\ \E i \in DOMAIN roots : IsPrefix(Real[Clean(roots[i])], Real[Resolve(p)])
          /\ EntryPaths(Resolve(p)) \subseteq DOMAIN Real
          /\ PlainRoots => \A q \in EntryPaths(Resolve(p)) :
               EvaluatePath(Config, [NoInput EXCEPT !.path = {q}]).decision = "allow"
    BY <1>1, AdmittedIsInside, EntriesAreAllowed DEF EntryPaths
  <2> HIDE DEF a
  <2>3. CASE a = "result" /\ Run(c, a, {Resolve(p)}, EntryPaths(Resolve(p)))
    <3>1. {Resolve(p)} \in SUBSET DOMAIN Real /\ EntryPaths(Resolve(p)) \in SUBSET DOMAIN Real
      BY <2>2, <2>3
    <3>2. \A q \in {Resolve(p)} :
            \E i \in DOMAIN roots : IsPrefix(Real[Clean(roots[i])], Real[q])
      BY <2>2, <2>3
    <3>3. Run(c, "result", {Resolve(p)}, EntryPaths(Resolve(p)))
      BY <2>3
    <3>4. QED
      BY <2>2, <2>3, <3>1, <3>2, <3>3, RunInv
  <2>4. ASSUME NEW o \in SUBSET {Resolve(p)}, a = "result", Run(c, "failed", o, {})
        PROVE  IInv'
    <3>1. o \in SUBSET DOMAIN Real /\ {} \in SUBSET DOMAIN Real
      BY <2>2, <2>4
    <3>2. \A q \in o :
            \E i \in DOMAIN roots : IsPrefix(Real[Clean(roots[i])], Real[q])
      BY <2>2, <2>4
    <3>3. \A q \in {} : EvaluatePath(Config, [NoInput EXCEPT !.path = {q}]).decision = "allow"
      OBVIOUS
    <3>4. QED
      BY <2>4, <3>1, <3>2, <3>3, RunInv
  <2>5. CASE a # "result" /\ Run(c, a, {}, {})
    BY <2>1, <2>5, RunNothingInv
  <2>6. QED
    BY <1>3, <2>3, <2>4, <2>5 DEF a
<1>4. QED
  BY <1>2, <1>3 DEF RunList

\* So does filesystem.read, which answers no paths.
LEMMA RunReadInv == \A c \in Caller : IInv /\ RunRead(c) => IInv'
<1> SUFFICES ASSUME IInv, NEW c \in Caller, RunRead(c) PROVE IInv'
  OBVIOUS
<1> USE DEF Answer
<1>1. roots \in ConfiguredRoots
  BY DEF IInv, TypeOK
<1>2. CASE input[c].path = {} /\ Run(c, "invalid", {}, {})
  BY <1>2, RunNothingInv
<1>3. ASSUME NEW p \in input[c].path,
             LET a == Admit(p, roots, {"text", "binary"}) IN
               \/ a = "result" /\ Run(c, Content(Resolve(p)), {Resolve(p)}, {})
               \/ a = "result" /\ \E o \in SUBSET {Resolve(p)} : Run(c, "failed", o, {})
               \/ a # "result" /\ Run(c, a, {}, {})
      PROVE  IInv'
  <2> DEFINE a == Admit(p, roots, {"text", "binary"})
  <2>1. a \in {"result", "invalid", "out of scope"} /\ Content(Resolve(p)) \in Answer
    BY DEF Admit, Content
  <2>2. a = "result" =>
          /\ Resolve(p) \in DOMAIN Real
          /\ \E i \in DOMAIN roots : IsPrefix(Real[Clean(roots[i])], Real[Resolve(p)])
    BY <1>1, AdmittedIsInside
  <2> HIDE DEF a
  <2>3. CASE a = "result" /\ Run(c, Content(Resolve(p)), {Resolve(p)}, {})
    <3>1. {Resolve(p)} \in SUBSET DOMAIN Real /\ {} \in SUBSET DOMAIN Real
      BY <2>2, <2>3
    <3>2. \A q \in {Resolve(p)} :
            \E i \in DOMAIN roots : IsPrefix(Real[Clean(roots[i])], Real[q])
      BY <2>2, <2>3
    <3>3. \A q \in {} : EvaluatePath(Config, [NoInput EXCEPT !.path = {q}]).decision = "allow"
      OBVIOUS
    <3>4. QED
      BY <2>1, <2>3, <3>1, <3>2, <3>3, RunInv
  <2>4. ASSUME NEW o \in SUBSET {Resolve(p)}, a = "result", Run(c, "failed", o, {})
        PROVE  IInv'
    <3>1. o \in SUBSET DOMAIN Real /\ {} \in SUBSET DOMAIN Real
      BY <2>2, <2>4
    <3>2. \A q \in o :
            \E i \in DOMAIN roots : IsPrefix(Real[Clean(roots[i])], Real[q])
      BY <2>2, <2>4
    <3>3. \A q \in {} : EvaluatePath(Config, [NoInput EXCEPT !.path = {q}]).decision = "allow"
      OBVIOUS
    <3>4. QED
      BY <2>4, <3>1, <3>2, <3>3, RunInv
  <2>5. CASE a # "result" /\ Run(c, a, {}, {})
    BY <2>1, <2>5, RunNothingInv
  <2>6. QED
    BY <1>3, <2>3, <2>4, <2>5 DEF a
<1>4. QED
  BY <1>2, <1>3 DEF RunRead

\* Every step keeps the invariant.
LEMMA StepInv == IInv /\ [Next]_vars => IInv'
<1> SUFFICES ASSUME IInv, [Next]_vars PROVE IInv'
  OBVIOUS
<1>1. CASE UseSession
  BY <1>1, UseSessionInv, SessionStep DEF UseSession, IInv
<1>2. ASSUME NEW c \in Caller, NEW i \in Input, Authorize(c, i) PROVE IInv'
  BY <1>2, AuthorizeInv
<1>3. ASSUME NEW c \in Caller, RunList(c) \/ RunRead(c) PROVE IInv'
  BY <1>3, RunListInv, RunReadInv
<1>4. ASSUME NEW c \in Caller, RunOther(c) PROVE IInv'
  <2>1. PICK a \in {"result", "failed"} : Run(c, a, {}, {})
    BY <1>4 DEF RunOther
  <2>2. QED
    BY <2>1, RunNothingInv DEF Answer
<1>5. CASE UNCHANGED vars
  BY <1>5, UseSessionInv, SessionFrame DEF vars, IInv
<1>6. QED
  BY <1>1, <1>2, <1>3, <1>4, <1>5 DEF Next

-----------------------------------------------------------------------------
(* The theorems.                                                           *)

\* The inductive invariant holds of every behaviour.
THEOREM Invariance == Spec => []IInv
BY InitInv, StepInv, PTL DEF Spec

\* Type correctness.
THEOREM TypeCorrect == Spec => []TypeOK
<1>1. IInv => TypeOK
  BY DEF IInv
<1>2. QED
  BY <1>1, Invariance, PTL

\* Only the session service moves its calls.
LEMMA CallsMoveInSessions == Next /\ call' # call => Sessions!Next
BY DEF Next, UseSession, Authorize, RunList, RunRead, RunOther, Run, sessionVars

\* No session is found again after it has been answered to be expired: its record is
\* gone for good, wherever the clock is set and however the calls are interleaved.
THEOREM ExpiredForGood == Spec => NoRevival
<1>1. IInv /\ [Next]_vars => [~Sessions!Revival]_vars
  <2> SUFFICES ASSUME IInv, Next, Sessions!Revival PROVE FALSE
    OBVIOUS
  <2>1. call' # call
    BY DEF Sessions!Revival
  <2>2. QED
    BY <2>1, CallsMoveInSessions, SessionOnce DEF IInv
<1>2. QED
  BY <1>1, Invariance, PTL DEF Spec, NoRevival

\* No session is refused unless the clock has been seen to reach the expiry that its
\* client was told.
THEOREM RefusedInTime == Spec => RefusedOnlyWhenOver
<1>1. IInv /\ IInv' /\ [Next]_vars => [~Sessions!CutShort]_vars
  <2> SUFFICES ASSUME IInv, IInv', Next, Sessions!CutShort PROVE FALSE
    OBVIOUS
  <2>1. call' # call
    BY DEF Sessions!CutShort, Sessions!Refuses
  <2>2. QED
    BY <2>1, CallsMoveInSessions, SessionRefused DEF IInv
<1>2. QED
  BY <1>1, Invariance, PTL DEF Spec, RefusedOnlyWhenOver

\* The most severe rule decides, whatever the rules and the roots are.
THEOREM PolicyDecides == Spec => []MostSevereRuleDecides
<1>1. IInv => MostSevereRuleDecides
  BY DEF IInv
<1>2. QED
  BY <1>1, Invariance, PTL

\* A timeout that was admitted runs for its whole milliseconds or for the default, for
\* every number, every width of a word and every limit that fits in it, on machines
\* of both kinds.
THEOREM DeadlinesFit == Spec => []DeadlineAsAsked
<1>1. IInv => DeadlineAsAsked
  BY DEF IInv
<1>2. QED
  BY <1>1, Invariance, PTL

\* Nothing outside the roots is opened, in any file system.
THEOREM RootsContain == Spec => []OpensInsideRoots
<1>1. IInv => OpensInsideRoots
  BY DEF IInv
<1>2. QED
  BY <1>1, Invariance, PTL

\* Listed paths can be used, where the roots are plain, in any file system.
THEOREM ListedCanBeUsed == Spec => []ListedIsAllowed
<1>1. IInv => ListedIsAllowed
  BY DEF IInv
<1>2. QED
  BY <1>1, Invariance, PTL

-----------------------------------------------------------------------------
(* What the session service promises.                                      *)

\* Nothing has been promised at first.
LEMMA AtomicInit == Init => Sessions!Atomic!Init
BY DEF Init, Sessions!Init, Sessions!Atomic!Init, Sessions!Told, Sessions!Over,
       Sessions!Verdict, Sessions!Asked, Sessions!FoundExpired, Sessions!None,
       Sessions!Atomic!None

\* A step of one call tells nothing if it issues nothing.
LEMMA TellsNothing ==
  ASSUME NEW r \in Request,
         \A q \in Request \ {r} : /\ call'[q] = call[q]
                                  /\ token'[q] = token[q]
                                  /\ seen'[q] = seen[q],
         call[r] # "issued" /\ call'[r] # "issued"
  PROVE  Sessions!Told' = Sessions!Told
BY DEF Sessions!Told

\* A step that finds nothing expired and decides nothing is invisible.
LEMMA Invisible ==
  ASSUME now' = now,
         NEW r \in Request,
         \A q \in Request \ {r} : /\ call'[q] = call[q]
                                  /\ token'[q] = token[q]
                                  /\ seen'[q] = seen[q],
         call[r] # "issued" /\ call'[r] # "issued",
         Sessions!Verdict[r] = "none" /\ Sessions!Verdict'[r] = "none"
  PROVE  UNCHANGED Sessions!Atomic!vars
<1>1. Sessions!Told' = Sessions!Told
  BY TellsNothing
<1>2. Sessions!Verdict' = Sessions!Verdict
  BY DEF Sessions!Verdict
<1>3. Sessions!Asked' = Sessions!Asked
  BY <1>2 DEF Sessions!Asked
<1>4. ~Sessions!FoundExpired(r) /\ ~Sessions!FoundExpired(r)'
  BY DEF Sessions!Verdict, Sessions!FoundExpired
<1>5. Sessions!Over' = Sessions!Over
  BY <1>4 DEF Sessions!Over, Sessions!FoundExpired
<1>6. QED
  BY <1>1, <1>2, <1>3, <1>5 DEF Sessions!Atomic!vars

\* The verdict on a call that moves on becomes that of its new state.
LEMMA Decides ==
  ASSUME SessionInv, token' = token,
         NEW r \in Request,
         \A q \in Request \ {r} : call'[q] = call[q],
         NEW v \in {"asking", "valid", "refused"}, Sessions!Verdict'[r] = v,
         NEW g, g.token = token[r]
  PROVE  Sessions!Atomic!Decide(r, g, v)
<1>1. Sessions!Verdict' = [Sessions!Verdict EXCEPT ![r] = v]
  BY DEF Sessions!Verdict
<1>2. Sessions!Asked' = [Sessions!Asked EXCEPT ![r] = token[r]]
  <2>1. \A q \in Request \ {r} : Sessions!Verdict'[q] = Sessions!Verdict[q]
    BY <1>1 DEF Sessions!Verdict
  <2>2. Sessions!Asked'[r] = token[r]
    BY DEF Sessions!Asked
  <2>3. QED
    BY <2>1, <2>2 DEF Sessions!Asked
<1>3. QED
  BY <1>1, <1>2 DEF Sessions!Atomic!Decide

\* A call that asks is known to ask about its token.
LEMMA AskingIsKnown ==
  ASSUME NEW r \in Request, call[r] \in {"check", "expiring"}, NEW g, g.token = token[r]
  PROVE  Sessions!Atomic!Asking(r, g)
BY DEF Sessions!Atomic!Asking, Sessions!Verdict, Sessions!Asked

\* What the client of an issued token was told.
LEMMA GrantExists ==
  ASSUME SessionInv, NEW r \in Request, Compared(r) \/ call[r] = "lookup"
  PROVE  \E b \in Request, g \in Sessions!Told :
           Sessions!Issued(b, token[r]) /\ g.token = token[r] /\ g.expires = seen[b]
<1>1. PICK b \in Request : Sessions!Issued(b, token[r])
  BY DEF SessionInv, TokensKnown
<1> DEFINE g == [token |-> token[b], expires |-> seen[b]]
<1>2. g \in Sessions!Told /\ g.token = token[r] /\ g.expires = seen[b]
  BY <1>1 DEF Sessions!Told, Sessions!Issued
<1>3. QED
  BY <1>1, <1>2

\* Bootstrap tells its client a new token, and when it expires.
LEMMA EndBootstrapTells ==
  ASSUME SessionInv, NEW r \in Request, Sessions!EndBootstrap(r)
  PROVE  \E s \in Session : Sessions!Atomic!Tell(s)
<1> USE DEF Sessions!EndBootstrap, Sessions!Go
<1>1. token[r] \in Session /\ Holds(r)
  BY DEF SessionInv, TokensKnown, Holds
<1>2. \A g \in Sessions!Told : g.token # token[r]
  BY <1>1 DEF Sessions!Told, SessionInv, TokensDiffer, Holds
<1>3. PICK t \in Time : seen[r] = t + TTL
  BY <1>1 DEF SessionInv, GrantInv
<1>4. Sessions!Told' = Sessions!Told \union {[token |-> token[r], expires |-> seen[r]]}
  BY DEF Sessions!Told, SessionInv, Sessions!TypeOK
<1>5. Sessions!Verdict' = Sessions!Verdict /\ Sessions!Asked' = Sessions!Asked
  BY DEF Sessions!Verdict, Sessions!Asked, SessionInv, Sessions!TypeOK
<1>6. Sessions!Over' = Sessions!Over
  BY DEF Sessions!Over, Sessions!FoundExpired, SessionInv, Sessions!TypeOK
<1>7. QED
  BY <1>1, <1>2, <1>3, <1>4, <1>5, <1>6 DEF Sessions!Atomic!Tell

\* A call asks when it finds a record, and is refused at once when it finds none.
LEMMA LookupAsks ==
  ASSUME SessionInv, SessionInv', NEW r \in Request, Sessions!Lookup(r)
  PROVE  Sessions!Atomic!Next
<1> USE DEF Sessions!Lookup, Sessions!Go
<1>1. PICK b \in Request, g \in Sessions!Told :
        Sessions!Issued(b, token[r]) /\ g.token = token[r] /\ g.expires = seen[b]
  BY GrantExists
<1>2. /\ \A q \in Request \ {r} : call'[q] = call[q] /\ token'[q] = token[q] /\ seen'[q] = seen[q]
      /\ call[r] # "issued" /\ call'[r] # "issued" /\ token' = token /\ now' = now
      /\ Sessions!Verdict[r] = "none"
      /\ call'[r] = IF records[token[r]] = 0 THEN "unknown" ELSE "check"
  BY DEF SessionInv, Sessions!TypeOK, Sessions!Verdict
<1>3. Sessions!Told' = Sessions!Told
  BY <1>2, TellsNothing
<1>4. Sessions!Over' = Sessions!Over
  BY <1>2 DEF Sessions!Over, Sessions!FoundExpired
<1>5. CASE records[token[r]] = 0
  <2>1. Sessions!Atomic!Decide(r, g, "refused")
    BY <1>1, <1>2, <1>5, Decides DEF Sessions!Verdict
  <2>2. g.token \in Sessions!Over
    <3>1. Over(token[r])'
      BY <1>2, <1>5 DEF SessionInv, RecordInv
    <3>2. PICK p \in Request : token[p] = token[r] /\ Sessions!FoundExpired(p)
      BY <1>2, <3>1 DEF Over, Sessions!FoundExpired
    <3>3. QED
      BY <1>1, <3>2 DEF Sessions!Over
  <2>3. QED
    BY <1>2, <1>3, <1>4, <2>1, <2>2 DEF Sessions!Atomic!Next, Sessions!Atomic!Refuse
<1>6. CASE records[token[r]] # 0
  <2>1. Sessions!Atomic!Decide(r, g, "asking")
    BY <1>1, <1>2, <1>6, Decides DEF Sessions!Verdict
  <2>2. \A q \in Request : Sessions!Verdict[q] = "refused" => Sessions!Asked[q] # g.token
    <3> SUFFICES ASSUME NEW q \in Request, Sessions!Verdict[q] = "refused"
                 PROVE  Sessions!Asked[q] # g.token
      OBVIOUS
    <3>1. call[q] \in {"expired", "unknown"} /\ Sessions!Asked[q] = token[q]
      BY DEF Sessions!Verdict, Sessions!Asked
    <3>2. records[token[q]] = 0
      BY <3>1 DEF SessionInv, RecordInv
    <3>3. QED
      BY <1>1, <1>6, <3>1, <3>2
  <2>3. QED
    BY <1>2, <1>3, <1>4, <2>1, <2>2 DEF Sessions!Atomic!Next, Sessions!Atomic!Ask
<1>7. QED
  BY <1>5, <1>6

\* It is accepted, or finds its token expired, by the clock and what its client was told.
LEMMA CheckReadsClock ==
  ASSUME SessionInv, NEW r \in Request, Sessions!Check(r)
  PROVE  Sessions!Atomic!Next
<1> USE DEF Sessions!Check, Sessions!Go
<1>1. PICK b \in Request, g \in Sessions!Told :
        Sessions!Issued(b, token[r]) /\ g.token = token[r] /\ g.expires = seen[b]
  BY GrantExists DEF Compared
<1>2. seen[r] = g.expires /\ g.expires \in Nat /\ now \in Nat
  BY <1>1, GuardAssumption DEF SessionInv, CopyInv, Compared, Sessions!TypeOK
<1>3. /\ \A q \in Request \ {r} : call'[q] = call[q] /\ token'[q] = token[q] /\ seen'[q] = seen[q]
      /\ call[r] # "issued" /\ call'[r] # "issued" /\ token' = token /\ now' = now
      /\ call'[r] = IF now < seen[r] THEN "valid" ELSE "expiring"
  BY DEF SessionInv, Sessions!TypeOK
<1>4. Sessions!Told' = Sessions!Told
  BY <1>3, TellsNothing
<1>5. Sessions!Atomic!Asking(r, g)
  BY <1>1, AskingIsKnown
<1>6. CASE now < seen[r]
  <2>1. Sessions!Atomic!Decide(r, g, "valid")
    BY <1>1, <1>3, <1>6, Decides DEF Sessions!Verdict
  <2>2. Sessions!Over' = Sessions!Over
    BY <1>3, <1>6 DEF Sessions!Over, Sessions!FoundExpired
  <2>3. QED
    BY <1>2, <1>3, <1>4, <1>5, <1>6, <2>1, <2>2
       DEF Sessions!Atomic!Next, Sessions!Atomic!Accept
<1>7. CASE ~(now < seen[r])
  <2>1. Sessions!Verdict' = Sessions!Verdict
    BY <1>3, <1>7 DEF Sessions!Verdict
  <2>2. Sessions!Asked' = Sessions!Asked
    BY <1>3, <2>1 DEF Sessions!Asked
  <2>3. Sessions!Over' = Sessions!Over \union {g.token}
    BY <1>1, <1>3, <1>7 DEF Sessions!Over, Sessions!FoundExpired
  <2>4. QED
    BY <1>2, <1>3, <1>4, <1>5, <1>7, <2>1, <2>2, <2>3
       DEF Sessions!Atomic!Next, Sessions!Atomic!Notice
<1>8. QED
  BY <1>6, <1>7

\* A call that has found its token expired answers so when it has deleted the record.
LEMMA DeleteRefuses ==
  ASSUME SessionInv, NEW r \in Request, Sessions!Delete(r)
  PROVE  Sessions!Atomic!Next
<1> USE DEF Sessions!Delete, Sessions!Go
<1>1. PICK b \in Request, g \in Sessions!Told :
        Sessions!Issued(b, token[r]) /\ g.token = token[r] /\ g.expires = seen[b]
  BY GrantExists DEF Compared
<1>2. /\ \A q \in Request \ {r} : call'[q] = call[q] /\ token'[q] = token[q] /\ seen'[q] = seen[q]
      /\ call[r] # "issued" /\ call'[r] # "issued" /\ token' = token /\ now' = now
      /\ call'[r] = "expired"
  BY DEF SessionInv, Sessions!TypeOK
<1>3. Sessions!Told' = Sessions!Told
  BY <1>2, TellsNothing
<1>4. Sessions!Over' = Sessions!Over /\ g.token \in Sessions!Over
  BY <1>1, <1>2 DEF Sessions!Over, Sessions!FoundExpired
<1>5. Sessions!Atomic!Decide(r, g, "refused")
  BY <1>1, <1>2, Decides DEF Sessions!Verdict
<1>6. Sessions!Atomic!Asking(r, g)
  BY <1>1, AskingIsKnown
<1>7. QED
  BY <1>2, <1>3, <1>4, <1>5, <1>6 DEF Sessions!Atomic!Next, Sessions!Atomic!Refuse

\* The other steps of a call decide and tell nothing.
LEMMA OthersInvisible ==
  ASSUME SessionInv, NEW r \in Request, NEW s,
         \/ Sessions!RefuseBootstrap(r)
         \/ s \in Session /\ (Sessions!BeginBootstrap(r, s) \/ Sessions!BeginValidate(r, s))
  PROVE  UNCHANGED Sessions!Atomic!vars
<1>1. /\ now' = now
      /\ \A q \in Request \ {r} : /\ call'[q] = call[q]
                                  /\ token'[q] = token[q]
                                  /\ seen'[q] = seen[q]
      /\ call[r] # "issued" /\ call'[r] # "issued"
      /\ Sessions!Verdict[r] = "none" /\ Sessions!Verdict'[r] = "none"
  BY DEF Sessions!RefuseBootstrap, Sessions!BeginBootstrap, Sessions!BeginValidate,
         Sessions!Go, SessionInv, Sessions!TypeOK, Sessions!Verdict
<1>2. QED
  BY <1>1, Invisible

\* Every step of the service is a step of the promise, or invisible.
LEMMA AtomicStep ==
  SessionInv /\ SessionInv' /\ [Next]_vars => [Sessions!Atomic!Next]_(Sessions!Atomic!vars)
<1> SUFFICES ASSUME SessionInv, SessionInv', [Next]_vars
             PROVE  [Sessions!Atomic!Next]_(Sessions!Atomic!vars)
  OBVIOUS
<1>1. CASE UNCHANGED sessionVars
  BY <1>1 DEF sessionVars, Sessions!Atomic!vars, Sessions!Told, Sessions!Over,
       Sessions!Verdict, Sessions!Asked, Sessions!FoundExpired
<1>2. CASE Sessions!ClockMoves
  <2>1. Sessions!Atomic!ClockMoves
    BY <1>2 DEF Sessions!ClockMoves, Sessions!Atomic!ClockMoves, Sessions!Told,
         Sessions!Over, Sessions!Verdict, Sessions!Asked, Sessions!FoundExpired
  <2>2. QED
    BY <2>1 DEF Sessions!Atomic!Next
<1>3. ASSUME NEW r \in Request, Sessions!Step(r)
      PROVE  [Sessions!Atomic!Next]_(Sessions!Atomic!vars)
  <2>1. CASE Sessions!EndBootstrap(r)
    BY <2>1, EndBootstrapTells DEF Sessions!Atomic!Next
  <2>2. CASE Sessions!Lookup(r)
    BY <2>2, LookupAsks
  <2>3. CASE Sessions!Check(r)
    BY <2>3, CheckReadsClock
  <2>4. CASE Sessions!Delete(r)
    BY <2>4, DeleteRefuses
  <2>5. QED
    BY <1>3, <2>1, <2>2, <2>3, <2>4, OthersInvisible DEF Sessions!Step
<1>4. QED
  BY <1>1, <1>2, <1>3
     DEF Next, vars, UseSession, Sessions!Next, Authorize, RunList, RunRead, RunOther, Run

\* However the steps of Validate interleave with those of other calls, and wherever the
\* clock is set meanwhile, each call keeps the promise: accepted before the expiry its
\* client was told, refused when that has been reached, and refused for good.
THEOREM SessionsAreAtomic == Spec => ImplementsAtomicSessions
<1>1. IInv /\ IInv' /\ [Next]_vars => [Sessions!Atomic!Next]_(Sessions!Atomic!vars)
  BY AtomicStep DEF IInv
<1>2. QED
  BY <1>1, AtomicInit, Invariance, PTL
     DEF Spec, ImplementsAtomicSessions, Sessions!ImplementsAtomicSessions,
         Sessions!Atomic!Spec

=============================================================================
