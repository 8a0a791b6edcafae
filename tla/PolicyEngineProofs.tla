-------------------------- MODULE PolicyEngineProofs --------------------------
(***************************************************************************)
(* What the policy engine decides, for every configuration and request.    *)
(***************************************************************************)
EXTENDS PolicyEngine, WellFoundedInduction, TLAPS

\* A configuration whose rules have decisions.
ValidConfig(config) ==
  /\ \A a \in DOMAIN config.actions : config.actions[a] \in Decision
  /\ DOMAIN config.paths \subseteq Nat
  /\ \A i \in DOMAIN config.paths : config.paths[i].decision \in Decision

\* A set of rule numbers that is not empty has a first one.
LEMMA FirstExists ==
  ASSUME NEW S, S \subseteq Nat, S # {}
  PROVE  \E i \in S : \A j \in S : i <= j
<1> DEFINE R == OpToRel(<, Nat)
<1>1. PICK i \in S : \A j \in S : ~(<<j, i>> \in R)
  BY NatLessThanWellFounded, WFMin
<1>2. \A j \in S : ~(j < i)
  BY <1>1 DEF OpToRel
<1>3. QED
  BY <1>2

-----------------------------------------------------------------------------
(* What each rule may say.                                                 *)

\* An action has a decision, with no approval id of its own.
LEMMA ActionDecides ==
  ASSUME NEW config, NEW input, ValidConfig(config)
  PROVE  LET r == EvaluateAction(config, input)
         IN  r \in PolicyResult /\ r.decision \in Decision /\ r.seed = NoSeed
                /\ r.by = "action"
BY DEF ValidConfig, EvaluateAction, Result, PolicyResult, RuleName, Decision, NoSeed

\* What a rule on the path, the timeout or the command says: an approval that it
\* asks for has an approval id made by the rule.
Says(r) ==
  /\ r \in PolicyResult
  /\ r.decision = "approval required" => r.seed = r.by

\* Where some rule has the path in its scope, one that has decides.
LEMMA ScopeDecides ==
  ASSUME NEW config, NEW input, DOMAIN config.paths \subseteq Nat, input.path # {},
         NEW k \in DOMAIN config.paths,
         \A path \in input.path : PathWithinScope(Clean(path), Clean(config.paths[k].prefix))
  PROVE  \E i \in DOMAIN config.paths :
           EvaluatePath(config, input) = Result(config.paths[i].decision, "path", "path")
<1> DEFINE InScope(rule) ==
             \A path \in input.path : PathWithinScope(Clean(path), Clean(rule.prefix))
           matching == {i \in DOMAIN config.paths : InScope(config.paths[i])}
           first == CHOOSE i \in matching : \A j \in matching : i <= j
<1>1. matching # {} /\ matching \subseteq Nat /\ matching \subseteq DOMAIN config.paths
  OBVIOUS
<1>2. first \in matching
  <2> HIDE DEF matching
  <2>1. QED
    BY <1>1, FirstExists
<1>3. EvaluatePath(config, input) = Result(config.paths[first].decision, "path", "path")
  BY <1>1 DEF EvaluatePath
<1>4. QED
  BY <1>1, <1>2, <1>3

\* The path's rule is silent, a decision of the configuration, or a refusal.
LEMMA PathSays ==
  ASSUME NEW config, NEW input, ValidConfig(config)
  PROVE  Says(EvaluatePath(config, input))
<1>1. CASE input.path # {} /\ \E k \in DOMAIN config.paths : \A path \in input.path :
             PathWithinScope(Clean(path), Clean(config.paths[k].prefix))
  <2>1. PICK d \in Decision : EvaluatePath(config, input) = Result(d, "path", "path")
    BY <1>1, ScopeDecides DEF ValidConfig
  <2>2. Says(Result(d, "path", "path"))
    BY DEF Says, Result, PolicyResult, RuleName
  <2>3. QED
    BY <2>1, <2>2
<1>2. CASE input.path = {} \/ \A k \in DOMAIN config.paths : \E path \in input.path :
             ~PathWithinScope(Clean(path), Clean(config.paths[k].prefix))
  BY <1>2 DEF EvaluatePath, Says, Silent, Result, PolicyResult, RuleName, Decision, NoSeed
<1>3. QED
  BY <1>1, <1>2

\* The timeout's rule is silent or refuses.
LEMMA TimeoutSays ==
  ASSUME NEW config, NEW input
  PROVE  Says(EvaluateTimeout(config, input))
BY DEF EvaluateTimeout, Says, Silent, Result, PolicyResult, RuleName, Decision, NoSeed

\* The command's rule is silent, refuses, or asks for an approval.
LEMMA CommandSays ==
  ASSUME NEW config, NEW input
  PROVE  Says(EvaluateCommand(config, input))
BY DEF EvaluateCommand, Says, Silent, Result, PolicyResult, RuleName, Decision, NoSeed

-----------------------------------------------------------------------------
(* The conversion of numbers.                                              *)

\* An int is made of every number, and of one in range the whole part.
LEMMA Conversion ==
  ASSUME Word \in Nat \ {0}, NEW machine, NEW x \in Int
  PROVE  /\ ToInt(machine, x) \in (-Word) .. (Word - 1)
         /\ 0 <= x /\ x < Word * Unit => ToInt(machine, x) = x \div Unit
         /\ x >= Word * Unit =>
              ToInt(machine, x) = IF machine = "arm64" THEN Word - 1 ELSE -Word
<1> DEFINE whole == IF x >= 0 THEN x \div Unit ELSE -((-x) \div Unit)
<1>1. /\ whole \in Int
      /\ x >= 0 => whole = x \div Unit /\ whole >= 0
      /\ 0 <= x /\ x < Word * Unit => whole < Word
      /\ x >= Word * Unit => x > 0 /\ whole >= Word
  BY DEF Unit
<1>2. ToInt(machine, x) =
        IF whole \in (-Word) .. (Word - 1) THEN whole
        ELSE IF machine = "arm64" /\ x > 0 THEN Word - 1
        ELSE -Word
  BY DEF ToInt
<1> HIDE DEF whole
<1>3. QED
  BY <1>1, <1>2 DEF Unit

-----------------------------------------------------------------------------
(* The merge.                                                              *)

\* Severity is a number, which orders the decisions.
LEMMA SeverityIsNat == \A d : Severity(d) \in Nat
BY DEF Severity

LEMMA SeverityOrders ==
  /\ \A d \in Decision : Severity("") <= Severity(d) /\ Severity(d) <= Severity("deny")
  /\ Severity("allow") <= Severity("approval required")
BY DEF Severity, Decision

\* The more severe of two results, and of two alike the one or the other.
LEMMA MergeSevere ==
  ASSUME NEW current \in PolicyResult, NEW next \in PolicyResult,
         current.decision \in Decision
  PROVE  LET merged == MergeResults(current, next)
         IN  /\ merged \in {current, next}
             /\ merged.decision \in Decision
             /\ Severity(current.decision) <= Severity(merged.decision)
             /\ Severity(next.decision) <= Severity(merged.decision)
<1> DEFINE c == current.decision
           n == next.decision
           AtMost(x, y) == Severity(x) <= Severity(y)
<1>1. c \in Decision /\ n \in Decision \union {""}
  BY DEF PolicyResult
<1>2. \A x : AtMost(x, x)
  BY SeverityIsNat
<1>3. /\ \A d \in Decision : AtMost("", d) /\ AtMost(d, "deny")
      /\ AtMost("allow", "approval required")
  BY SeverityOrders
<1>4. IF n = "deny" \/ (n = "approval required" /\ c # "deny")
        THEN MergeResults(current, next) = next ELSE MergeResults(current, next) = current
  BY DEF MergeResults
<1> SUFFICES /\ n = "deny" \/ (n = "approval required" /\ c # "deny")
                  => n \in Decision /\ AtMost(c, n)
             /\ ~(n = "deny" \/ (n = "approval required" /\ c # "deny")) => AtMost(n, c)
  BY <1>1, <1>2, <1>4
<1> HIDE DEF c, n, AtMost
<1>5. n = "deny" => AtMost(c, n)
  BY <1>1, <1>3
<1>6. n = "approval required" /\ c # "deny" => AtMost(c, n)
  BY <1>1, <1>2, <1>3 DEF Decision
<1>7. n \in {"approval required", ""} /\ c = "deny" => AtMost(n, c)
  BY <1>1, <1>3 DEF Decision
<1>8. n \in {"allow", ""} => AtMost(n, c)
  BY <1>1, <1>2, <1>3 DEF Decision
<1>9. QED
  BY <1>1, <1>5, <1>6, <1>7, <1>8 DEF Decision

\* Evaluate returns the most severe of the decisions of its four rules, and an
\* approval id of the rule that asked for the approval, in every configuration.
THEOREM EvaluateIsMostSevere ==
  ASSUME NEW config, NEW input, ValidConfig(config)
  PROVE  /\ Evaluate(config, input) \in PolicyResult
         /\ Evaluate(config, input).decision \in Decision
         /\ MostSevere(config, input, Evaluate(config, input))
<1> DEFINE action == EvaluateAction(config, input)
           path == EvaluatePath(config, input)
           timeout == EvaluateTimeout(config, input)
           command == EvaluateCommand(config, input)
           m1 == MergeResults(action, path)
           m2 == MergeResults(m1, timeout)
           m3 == MergeResults(m2, command)
<1>1. /\ action \in PolicyResult /\ action.decision \in Decision /\ action.seed = NoSeed
      /\ action.by = "action"
      /\ Says(path) /\ Says(timeout) /\ Says(command)
  BY ActionDecides, PathSays, TimeoutSays, CommandSays
<1>2. Evaluate(config, input) = Identified(m3) /\ Rules(config, input) = {action, path, timeout, command}
  BY DEF Evaluate, Rules
<1> HIDE DEF action, path, timeout, command
<1>3. /\ m1 \in {action, path} /\ m1.decision \in Decision
      /\ Severity(action.decision) <= Severity(m1.decision)
      /\ Severity(path.decision) <= Severity(m1.decision)
  BY <1>1, MergeSevere DEF Says
<1> HIDE DEF m1
<1>4. /\ m2 \in {m1, timeout} /\ m2.decision \in Decision
      /\ Severity(m1.decision) <= Severity(m2.decision)
      /\ Severity(timeout.decision) <= Severity(m2.decision)
  BY <1>1, <1>3, MergeSevere DEF Says
<1> HIDE DEF m2
<1>5. /\ m3 \in {m2, command} /\ m3.decision \in Decision
      /\ Severity(m2.decision) <= Severity(m3.decision)
      /\ Severity(command.decision) <= Severity(m3.decision)
  BY <1>1, <1>3, <1>4, MergeSevere DEF Says
<1> HIDE DEF m3
<1>6. m3 \in {action, path, timeout, command} /\ m3 \in PolicyResult
  BY <1>1, <1>3, <1>4, <1>5 DEF Says
<1>7. \A rule \in {action, path, timeout, command} :
        Severity(rule.decision) <= Severity(m3.decision)
  <2>1. /\ Severity(action.decision) \in Nat /\ Severity(path.decision) \in Nat
        /\ Severity(timeout.decision) \in Nat /\ Severity(command.decision) \in Nat
        /\ Severity(m1.decision) \in Nat /\ Severity(m2.decision) \in Nat
        /\ Severity(m3.decision) \in Nat
    BY SeverityIsNat
  <2>2. QED
    BY <2>1, <1>3, <1>4, <1>5
<1> DEFINE result == Identified(m3)
<1>8. /\ result \in PolicyResult /\ result.decision = m3.decision /\ result.by = m3.by
      /\ result.decision = "approval required" => result.seed = result.by
  <2>1. m3.decision = "approval required" => m3.seed \in {NoSeed, m3.by}
    BY <1>1, <1>6 DEF Says
  <2>2. QED
    BY <2>1, <1>6 DEF Identified, PolicyResult, RuleName
<1> HIDE DEF result
<1>9. MostSevere(config, input, result)
  BY <1>2, <1>6, <1>7, <1>8 DEF MostSevere
<1>10. QED
  BY <1>2, <1>5, <1>8, <1>9 DEF result

=============================================================================
