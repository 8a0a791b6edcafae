----------------------------- MODULE PolicyEngine -----------------------------
(***************************************************************************)
(* The policy engine of policy/static.go.  It keeps no state: Evaluate is  *)
(* a function of the configuration and of the request.                     *)
(*                                                                         *)
(* A configuration is a record with                                        *)
(*   actions    a decision for each action that has a rule,                *)
(*   paths      a sequence of rules, each a prefix and a decision,         *)
(*   maxTimeout the largest timeout_ms, or a number that is not positive,  *)
(*   machine    the machine, on which the conversion of numbers depends,   *)
(*   denied, approved   the command fragments that are refused, and those  *)
(*              that need approval.                                        *)
(* A request has an action; a path and a timeout, each the set of the one  *)
(* value of that attribute, or empty; and a command, which is the set of   *)
(* the fragments that the command line contains.                           *)
(***************************************************************************)
EXTENDS Integers, Paths

CONSTANT Word   \* one more than the largest int

Decision == {"allow", "approval required", "deny"}

NoSeed == "no id"
RuleName == {"none", "action", "path", "timeout", "command"}

\* by: the rule that made the decision.  seed: what its approval id is made of.
PolicyResult ==
  [decision : Decision \union {""}, by : RuleName, seed : RuleName \union {NoSeed}]

Result(d, by, seed) == [decision |-> d, by |-> by, seed |-> seed]

\* A rule that says nothing.
Silent == Result("", "none", NoSeed)

EvaluateAction_NoDefault(config, input) ==
  IF input.action \in DOMAIN config.actions
    THEN Result(config.actions[input.action], "action", NoSeed)
    ELSE Silent

\* An action without a rule is refused.
EvaluateAction(config, input) ==
  IF input.action \in DOMAIN config.actions
    THEN Result(config.actions[input.action], "action", NoSeed)
    ELSE Result("deny", "action", NoSeed)

\* The first rule that has the path in its scope decides.
EvaluatePath(config, input) ==
  LET InScope(rule) ==
        \A path \in input.path : PathWithinScope(Clean(path), Clean(rule.prefix))
      matching == {i \in DOMAIN config.paths : InScope(config.paths[i])}
      first == CHOOSE i \in matching : \A j \in matching : i <= j
  IN  IF input.path = {} THEN Silent
      ELSE IF matching = {} THEN Result("deny", "path", NoSeed)
      ELSE Result(config.paths[first].decision, "path", "path")

\* A number in JSON is a float64, counted here in halves: some are not whole.
Unit == 2

\* int(x) drops the fraction.  Of a number out of range Go leaves it to the machine:
\* amd64 makes it the least int, arm64 the nearest.
ToInt(machine, x) ==
  LET whole == IF x >= 0 THEN x \div Unit ELSE -((-x) \div Unit)
  IN  IF whole \in (-Word) .. (Word - 1) THEN whole
      ELSE IF machine = "arm64" /\ x > 0 THEN Word - 1
      ELSE -Word

EvaluateTimeout_NoLimit(config, input) == Silent

\* A timeout that is too long is refused; one that is not positive is not.
EvaluateTimeout(config, input) ==
  IF /\ config.maxTimeout > 0
     /\ \E x \in input.timeout : ToInt(config.machine, x) > config.maxTimeout
    THEN Result("deny", "timeout", NoSeed)
    ELSE Silent

EvaluateCommand(config, input) ==
  IF input.command \intersect config.denied # {}
    THEN Result("deny", "command", NoSeed)
  ELSE IF input.command \intersect config.approved # {}
    THEN Result("approval required", "command", "command")
  ELSE Silent

MergeResults_LastWins(current, next) ==
  IF next.decision = "" THEN current ELSE next

\* The next result takes over if it is a refusal, or asks for an approval where
\* nothing has been refused.
MergeResults(current, next) ==
  IF \/ next.decision = "deny"
     \/ next.decision = "approval required" /\ current.decision # "deny"
    THEN next
    ELSE current

\* A decision that needs approval and has no approval id gets one from its reason.
Identified(result) ==
  IF result.decision = "approval required" /\ result.seed = NoSeed
    THEN [result EXCEPT !.seed = result.by]
    ELSE result

Evaluate(config, input) ==
  LET action == EvaluateAction(config, input)
      path == MergeResults(action, EvaluatePath(config, input))
      timeout == MergeResults(path, EvaluateTimeout(config, input))
      command == MergeResults(timeout, EvaluateCommand(config, input))
  IN  Identified(command)

-----------------------------------------------------------------------------
(* What the engine promises.                                               *)

Severity(d) == CASE d = "deny" -> 3
                 [] d = "approval required" -> 2
                 [] d = "allow" -> 1
                 [] OTHER -> 0

Rules(config, input) ==
  {EvaluateAction(config, input), EvaluatePath(config, input),
   EvaluateTimeout(config, input), EvaluateCommand(config, input)}

\* The result is that of one of the rules, none is more severe, and the approval
\* id comes from the rule that asked for the approval.
MostSevere(config, input, result) ==
  /\ \E rule \in Rules(config, input) :
       result.decision = rule.decision /\ result.by = rule.by
  /\ \A rule \in Rules(config, input) :
       Severity(rule.decision) <= Severity(result.decision)
  /\ result.decision = "approval required" => result.seed = result.by

=============================================================================
