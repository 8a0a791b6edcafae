----------------------------- MODULE RequestGuard -----------------------------
(***************************************************************************)
(* What stands between a request and a tool, composed: the session of its  *)
(* token (SessionService), the policy decision (PolicyEngine), the         *)
(* deadline the executor gives it, and the path check of the filesystem    *)
(* tools (FilesystemTools), with the configuration that nucleusd builds    *)
(* for all of them from one list of roots.                                 *)
(***************************************************************************)
EXTENDS Integers, Sequences, PolicyEngine, FilesystemTools

CONSTANTS
  Request, Session, TTL, Time,   \* those of SessionService
  Caller,           \* the requests that call a tool; others only use the session
  Input,            \* the attributes a call may have
  ConfiguredRoots,  \* the lists of roots nucleusd may be started with
  Actions,          \* the action rules of policy.DefaultConfig
  DeniedFragments, ApprovalFragments,   \* its command rules
  MaxTimeoutMS,     \* its limit on timeout_ms
  DefaultTimeout,   \* the executor's
  Milli             \* time.Millisecond

ASSUME GuardAssumption ==
  /\ "none" \notin Session
  /\ TTL \in Nat /\ Time \subseteq Nat \ {0}
  /\ Caller \subseteq Request
  /\ \A roots \in ConfiguredRoots :
       roots \in Seq(Seq(STRING)) /\ \A i \in DOMAIN roots : ValidRoot(roots[i])
  /\ \A a \in DOMAIN Actions : Actions[a] \in Decision
  /\ MaxTimeoutMS \in Nat \ {0} /\ DefaultTimeout \in Nat \ {0}
  /\ Milli \in Nat \ {0} /\ Milli % 2 = 0
  /\ Word \in Nat /\ MaxTimeoutMS * Milli < Word /\ DefaultTimeout < Word
  /\ \A i \in Input :
       /\ i.action # "none"
       /\ i.timeout \subseteq Int
       /\ \A x, other \in i.timeout : x = other

VARIABLES
  now, records, call, token, seen,   \* the variables of SessionService
  roots,      \* the roots this process was started with
  machine,    \* the machine it runs on
  input,      \* the attributes of each call
  result,     \* the policy engine's result
  deadline,   \* how long the executor lets it run
  answer,     \* what it was answered, once it was
  opened,     \* the paths the tool opened
  listed      \* the paths in the answer of filesystem.list

Sessions == INSTANCE SessionService

sessionVars == <<now, records, call, token, seen>>
callVars == <<input, result, deadline, answer, opened, listed>>
processVars == <<roots, machine>>
vars == <<sessionVars, processVars, callVars>>

Machine == {"amd64", "arm64"}

NoInput == [action |-> "none", path |-> {}, timeout |-> {}, command |-> {}]

Answer == {"none", "result", "invalid", "failed", "out of scope",
           "deny", "approval required"}

TypeOK ==
  /\ Sessions!TypeOK
  /\ roots \in ConfiguredRoots
  /\ machine \in Machine
  /\ input \in [Caller -> Input \union {NoInput}]
  /\ result \in [Caller -> PolicyResult]
  /\ \A c \in Caller : input[c] # NoInput => result[c].decision \in Decision
  /\ deadline \in [Caller -> (-Word) .. (Word - 1)]
  /\ answer \in [Caller -> Answer]
  /\ opened \in [Caller -> SUBSET DOMAIN Real]
  /\ listed \in [Caller -> SUBSET DOMAIN Real]

Init ==
  /\ Sessions!Init
  /\ roots \in ConfiguredRoots
  /\ machine \in Machine
  /\ input = [c \in Caller |-> NoInput]
  /\ result = [c \in Caller |-> Silent]
  /\ deadline = [c \in Caller |-> 0]
  /\ answer = [c \in Caller |-> "none"]
  /\ opened = [c \in Caller |-> {}]
  /\ listed = [c \in Caller |-> {}]

-----------------------------------------------------------------------------
(* newApp: the policy has a rule for each root, as it was configured.      *)

AllowPathRules ==
  [i \in DOMAIN roots |-> [prefix |-> Clean(roots[i]), decision |-> "allow"]]

Config ==
  [actions |-> Actions, paths |-> AllowPathRules,
   maxTimeout |-> MaxTimeoutMS, machine |-> machine,
   denied |-> DeniedFragments, approved |-> ApprovalFragments]

-----------------------------------------------------------------------------
(* The deadline, in the arithmetic of a signed word.                       *)

Wrap(x) == ((x + Word) % (2 * Word)) - Word

\* requestTimeout
RequestTimeout(i) ==
  IF i.timeout = {} THEN 0
  ELSE Wrap(ToInt(machine, CHOOSE x \in i.timeout : TRUE) * Milli)

\* Execute replaces a timeout that is not positive by its default.
EffectiveTimeout(timeout) == IF timeout <= 0 THEN DefaultTimeout ELSE timeout

-----------------------------------------------------------------------------
UseSession ==
  /\ Sessions!Next
  /\ UNCHANGED <<processVars, callVars>>

\* authorizeRequest, with the session found valid before: the session may expire
\* from here on, and the request goes on.
Authorize(c, i) ==
  /\ call[c] = "valid"
  /\ input[c] = NoInput
  /\ LET decided == Evaluate(Config, i)
     IN  /\ result' = [result EXCEPT ![c] = decided]
         /\ answer' = [answer EXCEPT ![c] =
                         IF decided.decision = "allow" THEN "none" ELSE decided.decision]
  /\ input' = [input EXCEPT ![c] = i]
  /\ UNCHANGED <<sessionVars, processVars, deadline, opened, listed>>

\* Execute sets the deadline; the tool has decided what to open.
Run(c, a, open, entries) ==
  /\ result[c].decision = "allow"
  /\ answer[c] = "none"
  /\ deadline' = [deadline EXCEPT ![c] = EffectiveTimeout(RequestTimeout(input[c]))]
  /\ answer' = [answer EXCEPT ![c] = a]
  /\ opened' = [opened EXCEPT ![c] = open]
  /\ listed' = [listed EXCEPT ![c] = entries]
  /\ UNCHANGED <<sessionVars, processVars, input, result>>

\* What the tool's own check let through may still fail, before or after the path
\* is opened: the operating system refuses it, or the deadline passes.
RunList(c) ==
  /\ input[c].action = "filesystem.list"
  /\ \/ input[c].path = {} /\ Run(c, "invalid", {}, {})
     \/ \E p \in input[c].path : LET a == Admit(p, roots, {"directory"}) IN
          \/ a = "result" /\ Run(c, a, {Resolve(p)}, EntryPaths(Resolve(p)))
          \/ a = "result" /\ \E o \in SUBSET {Resolve(p)} : Run(c, "failed", o, {})
          \/ a # "result" /\ Run(c, a, {}, {})

RunRead(c) ==
  /\ input[c].action = "filesystem.read"
  /\ \/ input[c].path = {} /\ Run(c, "invalid", {}, {})
     \/ \E p \in input[c].path : LET a == Admit(p, roots, {"text", "binary"}) IN
          \/ a = "result" /\ Run(c, Content(Resolve(p)), {Resolve(p)}, {})
          \/ a = "result" /\ \E o \in SUBSET {Resolve(p)} : Run(c, "failed", o, {})
          \/ a # "result" /\ Run(c, a, {}, {})

\* Any other tool has no use for the roots.
RunOther(c) ==
  /\ input[c].action \notin {"filesystem.list", "filesystem.read"}
  /\ \E a \in {"result", "failed"} : Run(c, a, {}, {})

Next ==
  \/ UseSession
  \/ \E c \in Caller :
       \/ \E i \in Input : Authorize(c, i)
       \/ RunList(c)
       \/ RunRead(c)
       \/ RunOther(c)

Spec == Init /\ [][Next]_vars

-----------------------------------------------------------------------------
(* Properties.                                                             *)

\* Once a Validate has answered that a session is expired, none that looks it up later
\* finds it, wherever the clock is set and whatever the other calls that had looked
\* it up before do.
NoRevival == [][~Sessions!Revival]_vars

\* A session is refused only when the clock reads its expiry or more, or when another
\* call has seen it do so: neither a Bootstrap that has not stored its record yet nor
\* the deletion of other records cuts it short.
RefusedOnlyWhenOver == [][~Sessions!CutShort]_vars

\* Each call of Validate keeps the promise of AtomicSessions: it is accepted only at
\* an instant before the expiry its client was told, and refused only when that has
\* been reached, and refused for good.
ImplementsAtomicSessions == Sessions!ImplementsAtomicSessions

\* The request is answered with the most severe of the decisions of the rules on
\* its action, path, timeout and command, in whatever order they are merged, and
\* an approval id belongs to the rule that asked for the approval.
MostSevereRuleDecides ==
  \A c \in Caller : input[c] # NoInput => MostSevere(Config, input[c], result[c])

\* A tool never runs without a deadline.  One that the policy engine admitted with a
\* timeout that is not negative runs for the whole milliseconds asked for, or for the
\* default when those are none or too many for an int: no fraction, conversion or
\* product makes it run for longer.
DeadlineAsAsked ==
  \A c \in Caller : result[c].decision = "allow" /\ answer[c] # "none" =>
    /\ deadline[c] > 0
    /\ \A x \in input[c].timeout : x >= 0 =>
         deadline[c] = IF x < Unit \/ x >= Word * Unit
                         THEN DefaultTimeout
                         ELSE (x \div Unit) * Milli

\* What a tool opens lies in a root when every link on the way has been followed,
\* although the policy engine has only compared names.
OpensInsideRoots ==
  \A c \in Caller : \A p \in opened[c] :
    \E i \in DOMAIN roots : IsPrefix(Real[Clean(roots[i])], Real[p])

\* The policy engine compares with the roots as configured, the tool answers with
\* paths it has resolved.  Where the roots are directories by their own names, other
\* than the root of the file system, every path that filesystem.list answers
\* can be named in the next request.
PlainRoots == \A i \in DOMAIN roots : roots[i] # <<>> /\ Resolve(roots[i]) = roots[i]

ListedIsAllowed ==
  PlainRoots =>
    \A c \in Caller : \A p \in listed[c] :
      EvaluatePath(Config, [NoInput EXCEPT !.path = {p}]).decision = "allow"

=============================================================================
