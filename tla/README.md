# Verification of nucleusd

TLA+ models of `nucleus-backend`, the TLC runs that check them and the TLAPS
proofs about them. Line numbers are those of the commit modelled; `src/` stands
for the root of the repository, and `PROJECT.json` maps every definition to the
lines it models.

## 1. The system

`nucleusd` is one process. A trusted local client starts it, reads the endpoint
and a bootstrap token from its standard output, and talks JSON-RPC to it over a
Unix socket (a named pipe on Windows): one connection, one frame, one request,
one answer. Each connection has a goroutine of its own, which calls
`Runtime.Handle`.

```
 client ──connect──> transport.Serve ──go──> handleConnection
                                                 │ readFrame, DecodeRequest
                                                 ▼
 main ── app.run ── Shutdown ──────────>  runtime.Runtime ── admit / release
                       │                         │ Handle
                       │   session.Validate ◄────┤
                       │   policy.Evaluate  ◄────┤
                       │   executor.Execute ◄────┤──> tools (terminal, filesystem,
                       │                         │           screenshot, desktop)
                       │   storage.Record…  ◄────┤
                       │   audit.Append     ◄────┘
                       └─> transport.BeginShutdown, terminal.Shutdown, drain,
                           transport.Close, audit.Close, storage.Close
```

| component | state | operations | what makes it correct |
|---|---|---|---|
| Runtime lifecycle (`runtime/lifecycle.go`) | `inFlight`, `shuttingDown`, `closed` | `admitRequest`, `releaseRequest`, `Shutdown`, `Close` | nothing a request needs is closed under it; the limit holds; Shutdown returns |
| Process (`cmd/nucleusd`) | the channel of Serve's result, the signal | `run` | a signal ends the process, cleanly if the drain was |
| Unix transport (`transport/listener_unix.go`, `ipc.go`) | `listener`, `closing`, the socket file | `Serve`, `Close`, `handleConnection` | no socket left behind; every connection is answered or closed |
| Windows transport (`listener_windows.go`) | `closing`, the pipe being waited on | `Serve`, `Close` | Close wakes the accept loop |
| Terminal service (`tools/terminal`) | the sessions, each with its active commands | start, exec, end, `Shutdown` | the end of a session reaches every command of it |
| Request pipeline (`runtime/handler.go`, `policy.go`, `persistence.go`) | none of its own: it orders the calls on the others | one handler per method | refused requests are not executed; answers, log and store agree |
| Session service (`session/memory.go`) | token to record, with an expiry | `Bootstrap`, `Validate` | a token answered to be expired is not found again, and none is refused early |
| Policy engine (`policy/static.go`) | none | `Evaluate` | the most severe rule wins |
| Executor (`executor/default.go`) | none | `Execute` | a deadline is always set; a late success is a timeout |
| SQLite store, audit file | tables, a file | `Record…`, `UpsertSession`, `Append` | one row per event, in an order that a crash leaves meaningful |
| Filesystem tools (`tools/filesystem`) | the resolved roots | `list`, `read` | nothing outside the roots is opened |
| Screenshot and desktop tools; registry; codec | none | one call each | pure functions of their input and of the machine |

What is hard to test here: requests, end_session and Shutdown interleave with
locks that are released between the steps; several Shutdowns may overlap and may
give up half way; cancel functions are called after the lock that protected them;
child processes outlive their parents; one request writes to two stores with no
transaction; the process may die between two writes. `PROJECT.json` lists each
hazard at its line with the properties that would notice it.

## 2. The modules

| module | models | composed with |
|---|---|---|
| `GracefulService` | what the runtime promises, without its counter, locks and sequence: operations start while open and within a limit; resources are released when none runs | refined by `RuntimeLifecycle` |
| `Endpoint` | what the process promises its clients, without listeners, locks or the procedure of shutdown: connections are taken until the endpoint is closed, it is closed only when it runs no request, and none is taken afterwards | refined by `NucleusApp` |
| `AtomicSessions` | what the session service promises its callers, without map, locks or copies: a token is accepted only before the expiry the client was told, refused only when that has been reached, and then for good | refined by `RequestGuard`, through `SessionService` |
| `RuntimeLifecycle` | admission, release, and any number of overlapping Shutdowns | instantiated by `NucleusApp` and `RuntimeTerminals` |
| `UnixListener` | `Serve` and `Close` of the Unix socket, and what its path names | instantiated by `NucleusApp` |
| `PipeListener` | `Serve` and `Close` of the named pipe on Windows | instantiated by `NucleusApp` |
| `NucleusApp` | `app.run`, one goroutine per connection, the listener of either platform, over the runtime with a single caller of Shutdown | `RuntimeLifecycle`, `UnixListener`, `PipeListener` |
| `TerminalService` | terminal sessions, commands, child processes, end and Shutdown | instantiated by `RuntimeTerminals` |
| `RuntimeTerminals` | the calls of the terminal tools as requests in flight, and the terminal service's Shutdown inside the runtime's | `RuntimeLifecycle`, `TerminalService` |
| `RequestPipeline` | what one admitted request does to the store, the log and the terminal sessions, with crashes and restarts | its requests are the ones `RuntimeLifecycle` keeps in flight |
| `SessionService` | `Bootstrap` and `Validate`: records, lock and clock | instantiated by `RequestGuard` |
| `Paths` | clean paths, and what it means to be in the scope of one | extended by the next two |
| `PolicyEngine` | the four rules and their merge, as operators | extended by `RequestGuard` |
| `FilesystemTools` | how `filesystem.list` and `filesystem.read` resolve, check and open a path, as operators over a file system | extended by `RequestGuard` |
| `RequestGuard` | a call from the validation of its token through the decision and the deadline to what the tool opens | `SessionService`, `PolicyEngine`, `FilesystemTools` |
| `RuntimeLifecycleProofs`, `TerminalServiceProofs`, `PolicyEngineProofs`, `RequestGuardProofs`, `RequestPipelineProofs` | theorems | extend the module they are about |
| `NucleusAppProofs`, `RuntimeTerminalsProofs` | theorems | the same, and instantiate the proofs of the parts they compose |
| `MC…` | instances for TLC | |

`RequestPipeline` lets the policy decide anything and the session expire at any
moment, and follows what is written; `RequestGuard` evaluates both, and follows
what is opened. They are the two halves of one request.

How state and actions correspond to the code:

- **RuntimeLifecycle.** A step is one critical section of `Runtime.mu`, or one
  call on a dependency. `request[r]` is where a call of `Handle` is, `caller[c]`
  where a call of `Shutdown` is: `"marked"` after lifecycle.go:34, `"shutdowners"`
  before the loop at 50, `"draining"`/`"polling"` on the two sides of the select in
  `waitForDrain`, then the dependency about to be closed. Every call on a
  dependency may fail: the error is collected (`failed`) and Shutdown goes on.
  `graceful` is whether the transport has `BeginShutdown`; the other kind is
  closed at once. `New` turns a limit that is not positive into 32, so the limit
  is positive.
- **UnixListener.** `serve` is where the goroutine of `Serve` is, `published` is
  `unixListener.listener` being set, `closing` the flag that `Close` sets. The two
  critical sections that meet are `Publish` (listener_unix.go:61-69) and `BeginClose`
  (91-102). The rest of `Close` runs outside the lock, and is a step each: it closes
  the socket it took from Serve (`CloseSocket`, 104-107), which goes on accepting
  until then, and removes the path (`RemovePath`, 109). `closer` is how far it has
  come. `path` is what the socket's path names: nothing, another file, the
  socket of a process that is gone, or the one this process listens on.
- **PipeListener.** A pass of Serve's loop (listener_windows.go:65-94) is four
  steps: an instance is created outside the lock (`CreateInstance`), the flag is
  read and the instance kept under it (`KeepInstance`), `ConnectNamedPipe` blocks
  until somebody has opened the instance (`ConnectReturns`), and the connection is
  handed off or, if the flag has been set, dropped (`HandOff`). `Close` sets the
  flag (`BeginClose`) and then opens the pipe itself for at most 250 ms
  (`WakeServe`, `DialExpires`). `firstPipe` and `acceptHandle` decide nothing else.
- **NucleusApp.** The platform is chosen once. When `run` returns `main` does, and
  whatever the other goroutines had in hand is dropped. `"unsent"` is an answer
  whose write failed, because it was too long for a frame or the client had gone.
- **TerminalService.** The identity of a session object and the id it is mapped
  under are different things, because `unregisterActiveCommand` looks the object
  up again by its id. `pending` is the local slice of cancel functions, which is
  used after the lock is released. `held` are the commands whose descendants keep
  the output pipes open, for which `cmd.Run` waits. The deadline of the context
  that Shutdown is given may be over before Shutdown is called. `FreshIds` says
  whether two readings of the clock that name sessions differ.
- **RuntimeTerminals.** Where `RuntimeLifecycle` lets a handler return at any moment,
  here it returns when its tool has (`Answer`), because Execute calls the tool on
  the goroutine of the request. The step `RunShutdowners` becomes the whole of
  the terminal service's Shutdown, which has the context of the runtime's: if the
  deadline falls inside it, the drain that follows finds it fallen. Ids are
  taken to be fresh here; `terminal_collision` is about what happens if not.
- **RequestPipeline.** A handler decides its answer, then makes its writes one at
  a time (`todo`); a write that fails ends the handler with a storage error. The
  decision of the policy engine is any decision, so that the properties hold
  whatever its configuration. (In the configuration `nucleusd` builds, starting a
  terminal and running a command always need approval, and nothing grants it.)
  What is on disk is `stored`, a set of (request, write); `Crash` forgets
  everything else. An audit event whose `Sync` failed may be in the file or not.
- **SessionService.** Validate is three steps: the copy under the read lock
  (`Lookup`), the comparison with the clock under none (`Check`), the deletion
  under the write lock (`Delete`). `s.now().UTC()` (memory.go:61, 106) strips the
  monotonic reading, so the clock is the wall clock: `ClockMoves` sets it to any
  reading, earlier ones too. A record that is not in the map is 0. `Issued`
  are the tokens clients have been told; two never agree, being 128 random bits.
- **PolicyEngine, FilesystemTools, Paths.** Neither engine nor tools keep state, so
  they are operators. A path is the sequence of its names; `Clean` does what
  `filepath.Clean` does; `Real` gives the canonical form of every path that names
  something, and stands for the links. A command line is the set of the configured
  fragments it contains, and an attribute that may be missing is a set of at most
  one value. A number in JSON is a float64, which `intAttribute` (static.go:254) and
  `requestTimeout` (handler.go:619) turn into an int: here numbers are counted in
  halves (`Unit`), and `ToInt` drops the fraction and does with a number out of
  range what the machine does, the least int on amd64 and the nearest on arm64. The
  seed of an approval id is kept instead of its hash.
- **RequestGuard.** A call whose token was found valid is decided (`Authorize`) by
  the configuration that `newApp` builds from its roots, and then runs
  (`RunList`, `RunRead`, `RunOther`). Its session may expire in between, as it may
  in the code. `machine` is chosen once. `Wrap` is the arithmetic of `time.Duration`: `Word`
  stands for 2^63.

Definitions whose name ends in a suffix after an underscore (`Drained_Unchecked`)
are plausible bugs of the definition that follows them. They are used to test the
properties: with the bug in place TLC must find the property violated. No
specification uses them.

## 3. The runs

| run | what it checks | bounds | states |
|---|---|---|---|
| `lifecycle` | the four safety properties of Shutdown, its two liveness properties, the refinement of `GracefulService` | 3 requests, limit 2, 2 overlapping Shutdowns, one with a deadline | 44 k |
| `app` | no socket, path or pipe left behind, listening during the drain, clean exit; the refinement of `Endpoint`; a signal ends the run, nobody waits for ever to be taken; on both platforms | 2 connections, limit 1 | 72 k |
| `terminal` | the end of a session reaches its commands, across begin, end, unregister, Shutdown, and before it is answered | 2 of each: sessions, ids, commands, calls of end, owners | 82 k up to symmetry |
| `runtime_terminals` | a Shutdown of the runtime that returns nil leaves no command and no session; store and log are open under every tool; commands of ended sessions stop; Shutdown returns | 1 start, 2 commands, 1 end, limit 2 | 202 k |
| `pipeline` | answers, log and store agree, under failing writes and crashes | 3 requests, 1 session, 1 terminal session | 141 k up to symmetry |
| `guard` | sessions end once and not early, on a clock that may be set back; the most severe rule decides; deadlines, through conversion and product; what is opened lies in the roots; what is listed can be used | 4 calls, 2 sessions, 2 readings of the clock, 4 lists of roots, 13 paths, 2 machines | 315 k up to symmetry |
| `app_exit`, `app_refused`, `terminal_collision`, `terminal_held`, `pipeline_approval`, `pipeline_end` | one documented behaviour each, which the code does not have (section 6) | as above | |

Why the bounds are enough. Three requests under a limit of two are the fewest in which
one is refused while another is released; two Shutdowns are the fewest that overlap, and
one of them has a deadline while the other is `Close`. Two connections with a limit of
one show admission, refusal and release side by side. In `runtime_terminals`, a limit of two
lets a command run beside another, or beside the start or the end of a session. In the terminal
service two commands may share a session or not, two calls may end the same session, and
the second owner makes the ownership check matter. In the pipeline, three requests are a
bootstrap, a start and an end, or a bootstrap and two requests for one approval. In
`guard`, a token is issued by one call, renewed by none, and validated by three in any
order; its configurations have a root that is a link, one that is the root of the file
system, and two of which one is reached through a link of the other. Its timeouts, in
halves, lie on both sides of zero, of one, of the limit (3) and of the number whose
product with a millisecond (4) leaves the word (64), beyond the largest int and below
the least. The theorems of section 5 have no
bounds.
`nextActiveID` is bounded by the number of commands. Nothing else is unbounded,
and no constraint cuts the state space.

Deadlock is not checked: every one of these systems may stop for good (a runtime
that is closed, requests that are all answered). Progress is what the liveness
properties state.

The runs `terminal`, `pipeline` and `guard` use symmetry; no run with a liveness
property does. The clock of `SessionService` reads 1 or 2 and moves between them in
either direction; a session lives for one tick, so that those begun at 1 expire and
those begun at 2 do not, whatever is read in between.

## 4. Fairness

- **RuntimeLifecycle.** A Shutdown that has begun goes on (weak fairness of its
  steps): nothing blocks it but the select of `waitForDrain`. Deadlines come. The
  step that takes `ctx.Done()` is strongly fair: it is enabled each time the loop
  comes back to the select, and Go picks at random among ready cases. Handlers get
  no fairness: `TimedShutdownReturns` holds although a handler hangs, and
  `ShutdownReturnsAfterHandlers` assumes that they return as its premise.
- **NucleusApp.** The server's own goroutines that can move do: Serve, `run`, and
  Shutdown and Close inside it; the `ctx.Done()` of the drain is strongly fair, as
  above. Handlers get no fairness, because Execute calls the tool on their goroutine
  and waits for it beyond the deadline (default.go:115), and neither do clients,
  because a frame is read with no deadline (ipc.go:89): `QueuedAreTaken` holds although
  both hang, and `SignalEndsRun` is about a Shutdown that does not give up on them.
  Nothing makes a signal arrive, a client connect, Accept or ConnectNamedPipe fail while nobody has
  closed the socket or the pipe. On Windows one timing assumption is in the guard of
  `DialExpires`: an instance that stays free is found by the dial's first attempt,
  which is 250 ms away from giving up. A pause of that length before it would leave
  Serve, and `run`, waiting.
- **TerminalService.** Goroutines go on; a process whose context is done is killed
  (`exec.CommandContext`). No process exits of its own accord, no descendant lets
  go of the pipes, no deadline of a command has to fall.
- **RuntimeTerminals.** The same, and Shutdown as in RuntimeLifecycle, but neither
  that handlers return nor that the deadline of Shutdown falls. The first is what
  `ShutdownReturns` shows of the terminal tools, and discharges the premise of
  `ShutdownReturnsAfterHandlers` for them; without the second it is also about
  `Close`.

## 5. The proofs

`RuntimeLifecycleProofs`, from `LifecycleAssumption` (finitely many requests, a
positive limit): for any number of requests and of overlapping Shutdowns,
`TypeOK`, `OpenWhileInFlight`, `InFlightExact`, `NilMeansReleased`, `CloseOrder`,
and the refinement of `GracefulService`. The properties are not inductive. What
makes them so is `CallerInv`, what each Shutdown knows at each of its steps (past
the drain there is no request in flight; at `"storage"` the transport and the
audit log are closed already), with `OpenInv`: a dependency that requests need is
closed only when no request is in flight *and none can be admitted again*. The
drain reads a counter, so the invariant also says that the counter is the
cardinality of the set of requests between admission and release.

`TerminalServiceProofs`, from `TerminalAssumption` and `FreshIds`: for any number
of sessions, commands and calls, `TypeOK`, `EndedAreCancelled`,
`LiveAreRegistered`, `ShutdownEndsAll` and `EndOnce`. The strengthening says that
two maps are exact: the service's, from ids to objects (`MapInv`), because
`unregisterActiveCommand` goes through it a second time, and the object's, from
activeIDs to commands (`KeyInv`), because removing a key must remove one command
and no other. `FreshIds` is used in one place, where a new session takes its id;
the run `terminal_collision` shows what happens without it.

`PolicyEngineProofs`: for every configuration whose rules have decisions, and every
request, `Evaluate` returns the most severe of its rules' decisions. The merge is
not associative in its reasons, only in its severity, which is why the lemma about
one merge (`MergeSevere`) is used three times in the order of the code. That a
first matching path rule exists is the one place where induction is needed; it
comes from the library's theorem that numbers are well-founded.

`RequestGuardProofs`, from `GuardAssumption` and `FileSystemAssumption`: for any
number of calls and sessions, any file system that stands still, any roots that
are accessible directories, any readings of the clock in any order, either machine,
any number for a timeout and any width of a word in which the limit on timeouts
times a millisecond fits, all eight properties of the run. A token is not revived
because all copies of its record agree (`CopyInv`), and they do because no two
Bootstraps generate one token and no record changes but by being deleted after a
call has found it expired (`RecordInv`). None of this says what the clock reads now,
so none of it is lost when the clock is set back. `DeadlinesFit` needs one fact of
the unit: a millisecond is an even number of nanoseconds, so that the least int
times it wraps around to zero, which is replaced by the default. What a tool opens is inside because a resolved path is
its own canonical form (`ResolvedIsReal`) on both sides of the comparison.
`FileSystemAssumption` says what a canonical form is: it is clean, and canonical
itself.

`SessionsAreAtomic` is the refinement of `AtomicSessions`. A call of Validate asks
when it copies the record, and is decided when it compares its copy with the clock,
or when it does not find the record. In the second case the token was told to the
client and its record is gone, so somebody found it expired (`RecordInv`) and it is
over. That an expiry counts from some reading of the clock is `GrantInv`. The abstract specification says who may still be accepted when the clock is set
back: a call that had asked before the first refusal was answered, and no other.

`AnswersMeanCancelled` is about `terminal.end_session` once it has answered: no
command of that session is left with a context that has not been cancelled. The
answer is given after the cancel functions were called outside the lock, and a
command that began in between would not be among them; `TakenOver` says that none
can.

`RequestPipelineProofs`, from `PipelineAssumption`: for any number of requests,
client sessions and terminal sessions, with writes that fail and a process that
crashes and restarts, all six properties of the run. The answer a handler has
decided on stands for a list of writes (`Plan`), and the invariant (`IInv`) says that
what is on disk for a request is the prefix of that list the handler has come
through, and `todo` the rest of it (`WritingInv`). Before the answer is decided
there is nothing on disk and no tool has run (`EarlyInv`). The rest relates
requests: nobody names a session that is not on disk (`SessionInv`), because
Bootstrap tells its client last; and each terminal session has one starter, whose
row is written before anyone can end the session (`TerminalInv`). Without that
`EndedRowStays` fails, as a late start would write "active" over "ended".

`NucleusAppProofs`, from `AppAssumption` (finitely many connections, a positive
limit): the process is a behaviour of `RuntimeLifecycle` with a single caller
(`ImplementsRuntime`), so that all that is proved of the runtime holds of it. With
the invariants of its own part (`OwnInv`), namely what each of the two listeners
knows at each step of Serve and of Close, inside the lock and after it (`UnixInv`,
`PipeInv`), and what `run` knows
(`RunInv`), that gives the four invariants of the run on both platforms. For the
refinement of `Endpoint` (`OneEndpoint`) `ConnInv` is needed too: a request in flight
belongs to a connection that waits for it, one instance of the pipe has at most
one client, and Shutdown and Close are called once. On Unix the endpoint counts as
closed when Close has closed the socket, or had none to close: what Serve accepts
between the flag and that is taken by an open endpoint, and no request runs.

`RuntimeTerminalsProofs`, from `CallsAssumption` (finitely many calls, names that
differ, a positive limit): the composition is a behaviour of `RuntimeLifecycle`
(`ImplementsRuntime`) and, with fresh ids, one of `TerminalService`
(`ImplementsTerminals`). The invariants of both parts are cited from their
proofs, not proved again. What relates them is `CallInv`, that a tool works only for
a request in flight, and `OrderInv`, that the service's Shutdown has returned when
the runtime's goes on to the drain; `NilLeavesNothing` and `WorkIsBacked` follow.

Every safety property and every refinement of the passing runs is proved for all
values of the constants. Model-checked only: the liveness properties
(`TimedShutdownReturns`, `ShutdownReturnsAfterHandlers`, `SignalEndsRun`,
`QueuedAreTaken`, `EndedCommandsStop`, `ShutdownReturns`), since fairness and
ENABLED are out of the prover's reach, and the counterexamples of section 6. The
refinements proved are those of the safety parts: no abstract specification states
fairness.

## 6. Where the code and its documents differ

- `app_exit`. After a drain that timed out, `run` waits for `Serve` for ever
  (app.go:183): the transport has not been closed, and signals are still caught.
- `app_refused`. The answer to a request is written after it has been counted
  out, and a refused request is never counted in; the process may exit first
  (ipc.go:105).
- `terminal_collision`. `start_session` overwrites a session that has the same id
  (service.go:161); ids are readings of the wall clock. A command of the overwritten
  session finds the other one by the id when it is unregistered (service.go:399), and
  deletes the entry that has its number there: the end of the session that is left
  misses its own command. (That the overwritten session is out of reach of
  `end_session` and of Shutdown is seen in the code, not by this run.)
- `terminal_held`. `LocalRunner.Run` returns when every holder of the output pipes
  has closed them, not at the timeout (service.go:460).
- `pipeline_approval`. Approval ids depend on the action and the reason only, and
  are a primary key: from the second request on, also after a restart, the answer
  is a storage error (static.go:261, sqlite.go:138).
- `pipeline_end`. `terminal.end_session` through `tools.call` leaves the row of
  the terminal session active (handler.go:209).

Noticed, where no document promises otherwise:

- A root that is a link, relative, or the root of the file system passes the
  start-up check, but the paths `filesystem.list` answers under it are refused by
  the policy, which compares them with the root as configured (app.go:138,
  static.go:279). `ListedIsAllowed` therefore assumes plain roots.
- A `timeout_ms` that no int holds is refused by the policy's limit on arm64; on amd64
  it becomes the least int, passes the limit, and the tool runs with the executor's
  default, as it does for 0.5 (static.go:254, handler.go:619). Negative values are
  replaced by the default too, except that the product of one below -2^63/10^6 wraps
  around and may be a long deadline. `DeadlineAsAsked` is about values that are not
  negative.
- After the wall clock has been set back, a Validate that looked a record up before
  another deleted it may accept a token which the other has found expired
  (memory.go:106). One that looks it up later is refused, although the clock reads less
  than the expiry.
- An answer longer than 16 MiB is not sent and the connection is closed
  (ipc.go:155), although the request was executed and recorded.
- On Windows one client that opens the pipe and leaves before `ConnectNamedPipe`
  makes Serve, and with it the process, end (listener_windows.go:80).
- A short write or a crash can leave part of a line in the audit log, to which the
  next event is appended (file_sink.go:48).
- A file that is no socket at the endpoint's path is refused by Serve, but removed by
  Close, which does not look (listener_unix.go:109).

## 7. What is not modelled

Two processes on one endpoint. The lengths in the framing, and the codec. Changes of
the file system while a tool is between its check and the open. The forms of a path
on Windows. The screenshot tool runs
one external command and names its file at random; the desktop tools keep no state;
both are one call into the operating system. The registry never changes. The read
side of the store serves tests. `runtime.health` reads constants. How the process
reads its environment and writes its startup message is sequential and happens
once.

## 8. Plan

In order:

1. The terminal sessions of `RequestPipeline` are a view of `TerminalService`:
   state it as a refinement, so that "live" in one means mapped in the other.
2. An abstract ledger for the pipeline: a request and what it leaves behind as one
   step, with the crash as the only thing that can divide it.
3. More lemmas about the operators: the reasons `Evaluate` gives, and that
   `PathWithinScope` is a partial order.
4. Two processes on one socket path: prepare, listen and remove.
