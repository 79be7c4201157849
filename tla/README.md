# TLA+ models of rpackit-tauri

rpackit-tauri ships an R application as a Windows desktop program: a bundled R
runtime serves HTTP on a loopback port, an authenticated proxy stands between it
and a locked-down WebView2 window, and three owners see to it that nothing (no
process, socket, secret or file) survives the window. This directory holds TLA+
models of the parts whose correctness depends on the order of events, the TLC
runs that check them on small instances, and TLAPS proofs of their safety for
every instance. Paths below are relative to `src/`.

## 1. The system

| Part | Source | State it keeps | Operations |
|---|---|---|---|
| Runtime owner | `crates/windows-lifecycle/src/lib.rs` | `OwnerState`, Job handle, captured runtime, two thread handles, last protocol state, session, upstream secret | `launch`, `poll_health`, `shutdown`, `force_shutdown`, `retry_private_cleanup`, `Drop` |
| Launcher protocol | `crates/launcher-protocol/src/lib.rs` | decoder buffer, `LifecycleTracker` | `push`, `finish`, `observe` |
| Private session | `crates/windows-launcher/src/private_fs.rs` | a directory and two fixed files on disk | `create`, `write_token_file`, `create_control_file`, `verify_security`, `cleanup` |
| Job launcher | `crates/windows-launcher/src/lib.rs` | kill-on-close Job, process and pipe handles | `launch`, `wait`, `terminate`, `wait_for_empty`, `capture_job_member`, `verify_ipv4_listener` |
| Transport proxy | `crates/transport/src/proxy.rs` | watch channel, `TrackedTasks`, semaphore, bootstrap flag | `start`, `shutdown`, `Drop`; listener, connection, driver and tunnel tasks |
| Request policy | `crates/transport/src/{admission,cookie,secret,limits}.rs` | none (pure) | `validate`, header and cookie normalisation, `is_valid` |
| Body and stream guards | `crates/transport/src/{request_body,response_body,response_decode,response_guard_io,websocket_io,replay_io}.rs` | byte counters, idle and rate windows, token bucket | `poll_frame`, `poll_read`, `poll_write` |
| Native application owner | `crates/windows-lifecycle/src/desktop.rs` | optional proxy, optional runtime | `launch`, `poll_health`, `shutdown`, `force_shutdown`, `retry_private_cleanup`, `Drop` |
| WebView owner | `crates/windows-webview/src/` | window, cookie, profile directory | `launch`, `shutdown`, `retry_profile_cleanup`, `Drop` |
| Windows shell | `apps/windows-shell/src/windows_app.rs` | one-shot cleanup flag, exit flag, the two owners | window and exit events, health loop, `shutdown_owners` |
| Resource bundle | `crates/resource-bundle/src/lib.rs` | none | validation of a manifest against a tree |

**Interaction.** The shell launches the native application owner and then the
WebView owner. The native owner starts the proxy, then, on a worker thread, the
runtime owner; both share one set of generated secrets. The runtime owner talks
to the launched R tree through two files in the private session (the one-time
token and the control file that asks it to stop), through its exit, and through
its stdout; a monitor thread and a stderr drain thread turn the pipes into
messages on one channel. The proxy forwards authenticated requests to R's port.

**What is hard.** Every Windows call may fail between two steps of a cleanup;
pipe threads, process tree and owner interleave; deadlines race late answers;
cleanup is retried by callers in any order; proxy tasks spawn tasks while
another thread is closing the task set; a task can be aborted at every await.
`PROJECT.json` lists these hazards at their lines, with the property that covers
each, or the reason why none does.

**What makes each part correct.**
*Runtime owner*: the session is not removed under a live tree; `Cleaned` means
nothing is left; no failure leaves a state from which no call can finish; a
report is evidence; `Ready` means all gates hold together and no listener that was
there to be seen was missed; every call returns;
once the value is gone the tree dies.
*Protocol*: the owner's view moves only along protocol edges.
*Proxy*: no task escapes; `shutdown` returns, and then nothing runs; permits are
neither lost nor duplicated; a failing listener stops the other.
*Native owner and shell*: the runtime value is held or gone, never lost; a forced
stop closes the browser's way in first; a request to close ends the program, unless
the browser never answers one call; what the evidence claims is true when the
program ends.
*WebView owner*: the window is shown only to an authenticated browser; startup is
answered, with the same exception.
*One connection*: nothing of the browser's credentials reaches R and nothing of
R's reaches past its head; a body is as announced and within its limits; a tunnel
keeps its rate and is not starved by it; every connection ends.
*Startup*: what was validated is inside the bundle; the child sees exactly the
arguments and environment it was meant to; no child runs outside its Job; the
launch secret is removed or reported.

## 2. Modules

| Module | Models | Extends |
|---|---|---|
| `LauncherProtocol` | protocol events and `LifecycleTracker` | |
| `PrivateSession` | outcomes of the private-file operations | |
| `OwnerContract` | abstract: what a runtime owner promises its owner | |
| `RuntimeOwner` | the runtime owner, its threads, the Job, port, pipe and session; implements `OwnerContract` | the first two |
| `TransportProxy` | listeners, tracked tasks, semaphore, shutdown and Drop | |
| `NativeApp` | native application owner | `OwnerContract` |
| `WebviewOwner` | WebView owner, its callbacks and profile | |
| `Shell` | event loop, `run_shell`, evidence and exit code | the two above |
| `HeaderMap`, `RequestPolicy`, `ResponsePolicy` | request and response heads: admission, cookies, rewriting (operators) | each the one before |
| `BodyGuards`, `RateLimiter` | body guards and token bucket (operators) | |
| `Exchange` | one connection after another, from first byte to last | the five above |
| `ResourceBundle`, `ChildCommand` | calls and rules of the bundle check; environment block and command line (operators) | |
| `JobLaunch` | `launch` of the Job launcher, several at once | |
| `Startup` | a runtime owner's launch up to the running child; implements `JobLaunch` | the three above |
| `MCRuntimeOwner`, `MCTransportProxy`, `MCShell`, `MCExchange`, `MCStartup` | instances for TLC | |
| `RuntimeOwnerProofs`, `TransportProxyProofs`, `ShellProofs`, `ExchangeProofs`, `StartupProofs` | inductive invariants and theorems | |
| `WindowsLauncherProofs` | theorems about `JobLaunch` and `ChildCommand` | both |
| `RuntimeOwnerPromises` | proofs of what the runtime owner tells its caller, and of `OwnerContract` | `RuntimeOwnerProofs` |
| `ExchangePromises` | proofs of what the browser gets of an exchange, and of busy tunnels | `ExchangeProofs` |

The modules meet where the code's parts do. `RuntimeOwner` is shown to implement
`OwnerContract`, and `NativeApp` uses only that contract; `Shell` extends
`NativeApp` and `WebviewOwner`. `Startup` performs its launch with the actions of
`JobLaunch`, beside other launches of the same process. `TransportProxy` and
`Exchange` cut the proxy in two: the first has all tasks and leaves open what a
connection says, the second has one connection at a time and all it says.

A definition whose comment begins with "Mutant:" is the definition after it with
a plausible defect. No specification uses it; it shows that the property it is
paired with in `PROJECT.json` would notice that defect.

### RuntimeOwner

The owner is a sequential program with control point `pc`. One action is the
stretch of code between two points at which another party's step could matter:
a Windows query, a receive, a join, a file operation. At `pc = "idle"` the value
belongs to its caller, who may make any call in any order; `"gone"` is after its
Drop, or after a failed launch.

| State | Code |
|---|---|
| `owner_state`, `monitor_state`, `stdout_ended`, `process`, `runtime`, `secret`, `joinable` | fields of `RuntimeOwner`; `joinable` is both thread handles, which are set and taken together |
| `first_error`, `kind`, `in_drop`, `last` | locals and result of the running call |
| `dir`, `files` | the session on disk; the `session` field is held exactly while the owner is neither unborn nor Cleaned |
| `live`, `spawned`, `doomed` | members of the Job; terminated or closed |
| `listeners`, `checked` | sockets on the upstream port; those of them that are open since the listener check looked |
| `wire`, `pipe`, `control_seen` | what the launcher wrote, what is unread, whether it reacted to the control file |
| `tracker`, `channel`, `stdout`, `stderr` | monitor thread, channel, thread status |

`Launch` is `launch_validated_inner` with `cleanup_prelaunch_error` and
`cleanup_spawned_error`; `WaitUntilReady` is `wait_until_ready`,
`wait_for_listener` and `wait_for_authenticated_readiness`; `Abort` is
`abort_and_cleanup`, after a failed startup and in Drop; `Shutdown` is
`shutdown`, `force_and_cleanup` and `finish_cleanup`. `Environment` is external:
processes start, exit and bind, the launcher consumes the token, writes lines or
closes stdout, and foreign entries come and go in the session.

Choices worth knowing:

- Each Windows call may fail at any time, either pipe thread may panic (the code
  handles it when it joins them), and each deadline may expire at any
  round of its loop; no clock is modelled.
- A line is the event the decoder and tracker tell apart. Whatever the decoder,
  the field checks, the port or the policy comparison rejects is `Malformed`: all
  of them end the monitor thread with the same message. One read may return
  several lines, and a malformed one discards the events decoded with it.
- `Spawn` stops when the Job is doomed: a process assigned to a terminated or
  closed Job does not stay.
- Any process, inside the Job or outside, opens and closes listening sockets on the
  port at any time, several at once and on several addresses: whether two can share
  it depends on socket options that are not this program's. `verify_ipv4_listener`
  counts the rows of two tables that are read one after the other, with an exit or a
  new socket in between. Whoever listens may answer the readiness probe. `ReadyGates`
  says what the check buys: a foreign socket is there at the probe only if it was
  opened after the check looked. The doc of `select_upstream_port` promises more, and
  the run `runtime_takeover` shows where the code does not keep it. The port is
  followed while startup waits, the only time the owner looks at it.
- The pipe holds `PipeLines` lines; a launcher that finds it full waits, as a writer
  on a full pipe does.
- The exit codes of a report and the number of discarded bytes are left out.

### TransportProxy

Tasks are pairs of a role (connection, upstream driver, tunnel) and a
connection. `Spawn`, `AbortAll` and `CloseAndTake` are the three locked
operations of `TrackedTasks`; everything else may interleave between them. A
cancelled task may still take steps until it is dropped, because `abort` acts at
an await that is not ready. Every response carries `Connection: close`, so a
connection serves one request. `up` and `down` are hyper's two upgrade futures;
they fail when the connection behind them is dropped. Contents of requests and
responses are the outcome of the check that reads them.

### OwnerContract

Nine phases of the value, whether a call runs, the last answer, whether some
process lives and whether the session exists. A phase names the calls that can
still finish the owner (`held`: shutdown; `dirty`: `retry_private_cleanup`). The
refinement mapping in `RuntimeOwner` (`PhaseSeen`, `AnswerSeen`) reads the phase
off the control point and the held handles.

### NativeApp, WebviewOwner, Shell

`NativeApp`: an operation of the owner is a sequence of control points `app`
between two values `"idle"`. `CallStop(forced)` has both orders of
`shutdown`/`force_shutdown`; the worker that runs the blocking runtime calls may
panic, which drops the value it was given. The proxy is the fact whether its
listeners run.

`WebviewOwner`: the owner's future, the UI thread's callbacks, the cookie checker
and the browser share `page` (the `AtomicU8`) and the one-shot `ready`. The
bootstrap page consumes the credential whether or not its bootstrap page consumes the credential whether or not its answer arrives. Steps
after a deadline are possible everywhere the code does not cancel them. Three calls
wait for the browser and its UI thread without a deadline (`BrowserCalls`: the
window that is built, `cookies_for_url`, `delete_cookie`); nothing makes them return.

`Shell`: `main` and `run_shell`. `driver` chooses the program: the shell, or a
caller that uses one of the two owners in any order, with a window that is shown
when it is ready or stays hidden. Evidence is a failure stage and the set of claims;
texts and versions are left out. The claim `window` (`window_destroyed`,
`windows-webview/src/lib.rs:180`, "was destroyed") counts as true when the
destruction was posted to the event loop: that is what `destroy().is_ok()` shows,
nothing takes it back, and the end of the process carries it out at the latest.

### Exchange and its operators

A head has a function from header names to their values, a size, and the facts
about its text that admission reads (line endings, length, version, target
form). Credentials are model values; nobody guesses one. The upstream and the
browser send any of their heads in pieces of any size, or stop. A body is what
its guard counts; a frame is data of some length, trailers, an end, an error or
nothing yet. An upload goes on after the upstream has begun to answer: Hyper's driver
sends it under its guard while the response body comes down, and a guard error then
breaks off the response (`UploadAborts`). Time is a tick that all running timers share; a timer that has fired
is seen at the next poll. Decoders are external: they yield any bytes once fed,
fail at will, and end only after their input has ended.

A tunnel is two directions with a bucket, a backlog and a copy buffer each. A
reader that may read does so before the next tick, because a tick is long beside
a poll; without that, a peer's idle time would be the model's choice.
`Watch` starts the window in which `RateBound` counts; it is no step of the code.

### Startup and its operators

`load` is the list of its file-system calls in order, and each is a step. Between
two of them another process may remove, replace or link an entry (`MaxSwaps`
changes in all); a link leads to an intact copy of the subtree, elsewhere or
inside `resources`, which is the case that is hard to notice. The manifest is the
record of the facts its rules test. A character of a command line is one of the
four kinds that quoting tells apart, or NUL; a variable is a word (what Windows
compares), a spelling of it and a value, which is a sequence of units. `Words` is
the sequence of all names in Windows' ordinal order. A loop of the code over a
slice is `Loop`, a fold. What the child reads back
(`ParseCommandLine`, `ReadBlock`) is external, from the documented rules of its C
runtime, which reads the program's name by another rule than the arguments: there a
backslash is never special. That rule and the quoting of the code agree on file
paths (`FilePath`: no quote in them, no separator at the end), and a program is one;
`BundledExactly` says what it may see of the environment its owner was
started with. `JobLaunch` counts handles: who holds which, which are inheritable, and
what each child was created with. The owning process may die at any step; a
process that was created suspended and not yet assigned then stays, suspended.

Nothing reads the bundle again after `BundledRCommand`, after a `load` that failed
or when the owner is gone. There the model forgets how it was changed
(`ForgetChanges`), so that behaviours that differ only there coincide.

## 3. Runs

| Run | Checks | Distinct states | Result |
|---|---|---|---|
| `runtime_owner` | `TypeOK`, `SessionOutlivesJob`, `CleanedIsReleased`, `AlwaysRecoverable`, `ReportIsEvidence`, `MonitorFollowsProtocol` | 2.1 million | holds |
| `runtime_readiness` | `ReadyGates`, `ImplementsContract` | 765 thousand | holds |
| `runtime_owner_liveness` | `CallsReturn`, `GoneTreeDies` | 97 thousand | holds |
| `graceful_report` | `GracefulMeansControlObserved` | | violated |
| `runtime_takeover` | `TakeoverDetected` | | violated |
| `transport_proxy` | `TypeOK`, `TasksTracked`, `ShutdownIsComplete`, `PermitsConserved` | 1.0 million | holds |
| `transport_proxy_liveness` | `StopReachesAll`, `ShutdownReturns` | 11 thousand | holds |
| `connection_limit` | `ConnectionLimit` | | violated |
| `desktop` | `TypeOK`, `SuccessIsClean`, `NothingOutlivesExit`, `HeldOrGone`, `NoTrafficDuringForce`, `VisibleIsAuthenticated`, `RequestEnds`, `StartupAnswered` | 447 thousand | holds |
| `failed_launch_cleanup` | `FailedLaunchCleanupBounded` | | violated |
| `exchange` | `TypeOK`, `UpstreamRequestClean`, `ForwardedFaithfully`, `BootstrapOnce`, `AnswerEndsAdmission`, `BrowserHeadSafe`, `BodyAsAnnounced`, `RateBound`, `BusyTunnelLives`, `ExchangeEnds` | 368 thousand | holds |
| `startup` | `TypeOK`, `ResolvedInside`, `ChildSeesExactly`, `SecretAccounted`, `RunsOnlyOwned`, `EofWithTree` | 1.2 million | holds |

Deadlock is checked except in `exchange` and `startup`, which rest when the last
connection is closed or launch has returned and nothing more happens; elsewhere
`Done` is the one state in which the system may rest.

**Bounds.** `runtime_owner`: a Job of an interpreter and one child (the runtime
the launcher announces), one foreign entry, one line of every kind. Two members
are enough to tell the wrapper from the runtime and to leave a live process after
either has exited; members are created once, so a restart of an id is not
modelled. `runtime_readiness` and `runtime_takeover` add one process outside the
Job, which may listen on the port and be announced by the launcher, and sockets for
the ways in which rows can fail the check: another owner, an IPv6 address, a second
exact row. The liveness run has the interpreter
alone, because its question is whether waits end. The pipe holds two lines, so that
one read can return an event and a malformed line after it. `transport_proxy`: two
connections, two listeners, one permit and two bind attempts: one connection
holds the permit while the other is refused or admitted after an upgrade, and
both listeners race. Connections are symmetric, and so are listeners. The
liveness run has one connection and no symmetry. `desktop`: one window, one
runtime, one life of the program; all three drivers. `exchange`: four base
requests with up to two parts replaced by any other value, three base responses
likewise, so that every rule is met alone and with one other; one connection after
another without end, so that a credential can be presented again; limits of two to
four bytes, windows of two ticks, a total time of three and a floor of one byte a
tick in both directions, which every counter reaches and passes; a bucket whose burst is
smaller than a byte, the edge at which its floor matters. `startup`: a sound manifest of each kind
and thirteen spoilt ones, three ambient environments (repeated names in two spellings,
hidden names), all arguments of up to three characters, two launches at once,
two changes to the bundle (one to pass a check, one to restore or divert it), two
attempts at a directory name.

**Fairness.** *Runtime owner*: the owner's thread and the two pipe threads run
(weak fairness); a member of a doomed Job exits (Windows terminates it); a loop
that keeps coming to its deadline check finds it expired (strong fairness of the
four deadline steps, each of which the code evaluates against a fixed `Instant`).
Nothing is assumed of a launcher that may never write or stop, of callers, or of
failures. *Proxy*: the owner's future and the executor run, a listener with a
raised flag is woken (`watch`), an aborted task is dropped. Nothing is assumed of
clients or of R. *Desktop*: `run_shell` is one task with the operations of its two owners and
the worker it waits for (`TaskRuns`, weak fairness), except for the three
`BrowserCalls`, which wait for the browser without a deadline and are not forced. A
pending signal is received although the health loop keeps
polling (strong fairness): its `select` finds the signal ready while each sleep is
a fresh one. Nothing is assumed of the user, of failures or of the browser, which may
never load a page, build a window or answer a cookie call. `RequestEnds` and
`StartupAnswered` therefore allow one way not to end: waiting for ever in one of those
calls (`[]BrowserWaits`).
*Exchange*: the clock runs, tasks run to their next await, and a timer that has
fired wakes its task; a decoder whose input has ended ends. Nothing is assumed of
the peers except that the client takes what it is sent, because Hyper polls no
body while its write buffer is full and the code has no write timeout
(`proxy.rs:610`).

**The violated ones** are disagreements between the code and its own words, not
crashes:

- `graceful_report`: `ShutdownKind::Graceful` promises that the launcher observed
  the control file. The code asks for protocol state `Stopped` and an empty Job,
  which a launcher that stops by itself also reaches.
- `runtime_takeover`: `select_upstream_port` promises that any takeover of the port
  before authenticated readiness is detected. The listener is verified once; between
  that and the probe the runtime may close its socket and another process may listen
  and answer.
- `connection_limit`: a permit covers the connection task, which ends when a
  WebSocket is upgraded, not the tunnel that keeps the socket.
- `failed_launch_cleanup`: `launch` of the WebView owner promises bounded cleanup
  after a failure. The cleanup begins with cookie calls that have no deadline, so that
  a launch that gave up on a hanging browser then waits for that browser.

Two more were met while modelling; they are smaller, and no run is about them. The comment in
`finish_cleanup` (`windows-lifecycle/src/lib.rs:736-738`) says that the Job is closed
after a query error too; the early return above it (732-734) keeps it, which is what
`AlwaysRecoverable` needs: the mutant that drops it leaves an owner that no call can
bring to Cleaned. And `shutdown` of the proxy is documented to return the first
failure of a tracked task (`proxy.rs:347-348`), while a later `spawn` prunes finished
handles, a panicked one included (447).

## 4. Proofs

`RuntimeOwnerProofs` proves, for any sets of members, outsiders, foreign entries
and lines that satisfy the named assumptions (`NoPidAssumption`,
`ForeignAssumption`, `RuntimeAssumption`):
`TypeOK`, `SessionOutlivesJob`, `CleanedIsReleased` and `AlwaysRecoverable`.

None of the last three is inductive. Whether removing the session is safe depends
on which handles are held at that point of the code, and why: `process` is
dropped only after the Job was seen empty, and an empty Job whose handle is gone
stays empty. `Control` says so: the owner's state at each control point
(`StateAt`), the handles held there (`HandlesAt`), no tree without the Job handle
(`TreeHeld`), no thread without its handle (`ThreadsHeld`), the directory from
creation to Cleaned (`DirHeld`), and the two properties themselves. The proof has
one lemma per party and one step per action. `AlwaysRecoverable` follows from
`Control` at `pc = "idle"`.

`RuntimeOwnerPromises` adds, from the same assumptions, what crosses from the
threads to the owner. `Stream` is the chain behind all of it: the states carried
by the messages in the channel lead, edge by edge of the protocol, from
`monitor_state` to the tracker of the monitor thread. A send extends the chain at
its end, a receive takes its first link, and `MonitorFollowsProtocol` is what a
receive shows. `GateInv` adds what launch has passed at each control point of
readiness: only a spawned Job has members (`Spawned`), every `listening` in the
channel carries the bound id (`Announced`), and from `capture_job_member` on the
token is consumed and the runtime is the announced member (`Gates`). `PortGate` keeps
of the port what no other process can spoil: once the IPv4 table was looked at, each
socket in `checked` is the runtime's own on 127.0.0.1, or an IPv6 one until that table
was looked at too, and a socket leaves `checked` when it closes. `ReadyGates` is its
last step. `Reported` says what a running shutdown has seen, and gives
`ReportIsEvidence`: once `stopped` was received, only messages that leave the
state can follow. `ImplementsContractCorrect` is the refinement of
`OwnerContract`: each action of the owner, its threads and the tree maps to a step
of the contract or to a stutter, with `Control` deciding which. The proofs about
`NativeApp` and `Shell` take the runtime as that contract.

`ShellProofs` proves, for any `Drivers` (`DriversAssumption`), every safety
property of `desktop`. The two owners come first, each under any caller that its
interface allows (`NativeSpec`, `ViewSpec`): `HeldOrGone`, `NoTrafficDuringForce`
and `VisibleIsAuthenticated` hold there, from `NativeInv` (what the owner holds of
runtime and proxy at each control point of launch, stop and Drop) and `ViewInv`.
`ShellUsesOwners` then shows the program to be such a caller, which carries the
three over. `NothingOutlivesExit` and `SuccessIsClean` need both owners at once:
`ClaimInv` adds where they stand at each control point of `run_shell` (`ShellAt`),
what a finished stop leaves (`StoppedAt`), which reports stand behind the evidence
(`ReportedAt`) and that claims once made stay true until the end (`ClaimedAt`).
`TypeOK` follows from the parts of `ClaimInv`.

`TransportProxyProofs` proves, for any finite set of connections, any listeners,
any limit and any number of bind attempts (`ProxyAssumption`): `TypeOK`,
`TasksTracked`, `ShutdownIsComplete` and `PermitsConserved`. `Tracking`
strengthens `TasksTracked` with what is closed, empty and stopped at each control
point; its crux is that a spawn and the two closers exclude each other, so that a
spawn after the second pass is refused. `Permits` is inductive over `Shape`
(types without the semaphore): each step either leaves the set of holders alone
or adds or removes one element together with one permit. The bound on `permits`
in `TypeOK` is a consequence, not a premise.

`WindowsLauncherProofs` proves `RunsOnlyOwned` and `EofWithTree` for any number of
concurrent launches. Neither is inductive: what a child holds was decided when
its handle list was written, stages earlier. `JobInv` adds to the types which
handles owner, list and child hold at each stage (`HandlesAt`) and that a process
runs only after launch has returned, in its Job (`ProcessAt`).

Its second part is about the strings, for every input. The loops of the code are
folds, and what a fold computes is shown by induction over sequences, stated of a
set instead of a formula (`SetOfSequences`: a set that holds the empty sequence
and with a sequence every longer one by one element holds them all).
`CommandLineReadBack`, for a program that is a file path: `QuotedSoFar` relates the quoting loop, which holds
backslashes back, to the parser in the middle of a quoted argument: after every
character the parser has read what came before, except for the backslashes that
are held back, and doubling them before a quote, and only there, is what makes the
two agree. `BlockReadBack` does the same for `encoded_block`. `EnvironmentBundled`
rests on what `set` and `remove` do to a block that is in order (`ByRank`): a name
is there once at most, so that replacing or removing the first entry of a name
removes every value of it, and sorting moves only a new entry. Over the ambient
block this gives the last value of each name (`FromCurrentFacts`). Assumptions:
`WordsAssumption` (the names the code itself sets or removes are names, and no name
has a NUL or an equals sign, as `environment_name` requires) and
`ValueUnitsAssumption` (values are free of NUL, as `environment_value` requires,
and the bundle's own are values).

`StartupProofs` proves that `Startup` implements `JobSpec` (`StartupImplementsLaunch`: every
step is a step of some launch or leaves the handles alone), from which the two
properties follow for the startup as well, and `SecretAccounted` from `SessionAt`,
which says what was created and verified at each step.

`ResolvedInside` is proved for any number of changes to the directory. Nothing can
be said about the disk, which anybody may change; the argument is about the order
of the calls instead. `LoadPlan` shows of the list of calls, for any manifest, that
the bundle, `resources`, the five locations and the topology test have their turns
in this order and that each location is named from `resources`
(`Plan`, `Aimed`); taking the first call keeps that (`OrderedTail`). `FoundAt` then
says that whatever has no call left is established: a resolved location was
compared with `resources` on its canonical path, and `resources` itself is not
resolved again while such a location stands. `TypeOK` needs in addition that
canonicalization stays among the bundle's paths, where the first link of a path
exists because lengths are well-founded (`ShortestExists`). Assumptions:
`MainAssumption`, `SessionAttemptsAssumption`, `ManifestsAssumption` (manifests are
records of the fields that are read) and `MaxSwapsAssumption`.

`ChildSeesExactly` follows from the three theorems about strings once it is known
that nothing comes between the steps of launch that make the strings and the call
that passes them on. `ChildAt` says that: from `ComposeEnvironment` to the creation of the
process the environment is the one composed of an accepted ambient block, and when
the process is about to be created the line and the block were built from it and
from arguments that were not refused. `AmbientAssumption` and `CommandAssumption`
only say what the inputs are made of, and that the program is a file path; names and
values that the code rejects, and NUL characters, are among them.

`ExchangeProofs` proves, for any heads and limits that satisfy
`ExchangeAssumption`, `HeadsAssumption` and `LimiterAssumption`:
`BootstrapOnce`, `UpstreamRequestClean`, `ForwardedFaithfully`,
`AnswerEndsAdmission` and `RateBound`. The policies are proved as lemmas about the operators (what
stripping, inserting and rewriting leave of each header), and `HeadAt` says that
a head which is handled is one that was admitted, so that the lemmas apply. For
`RateBound` the invariant `BucketAt` is the accounting identity of a bucket: tokens
left plus tokens spent since the window began never exceed capacity plus what the
clock brought; a read moves tokens from one side to the other, a tick adds to
both sides.

`ExchangePromises` goes on with what comes back. `BrowserHeadSafe` is a lemma about
each header of a normalized head (`NormalizedHead`, `NormalizeSetCookie`), for any
upstream head. For `BodyAsAnnounced`, `StreamAt` follows a response through its two
guards: what the inner one has counted (`EncodedAt`), what that means for a body
that is passed through (`IdentityAt`), and for a decoded one what the outer guard
has counted (`DecodedAt`): it ends cleanly only after the inner one has, gives
nothing before the inner one gave something, and announces no length. `UploadAt` and `CountsAt` give `TypeOK`, with the bounds on what
is read of a head and forwarded of a body.

`BusyTunnelLives` is proved under one hypothesis in the theorem itself,
`ByteBeforeIdle`: `Rate * (TunnelIdle - 1) >= TokenUnits`. `is_valid`
(`limits.rs:115`) does not test it, and without it the property is false: with a
rate below one byte per idle timeout, a tunnel with bytes to send is cut. The
default rate meets it by a wide margin, and so does the instance of `exchange`.
`ClockAt` is the invariant: since the last activity of the tunnel each side has
saved up the rate's share of the time, or a byte's worth already, and a reader
sleeps no longer than until it has one.

**Model-checked only.** The liveness properties `CallsReturn`, `GoneTreeDies`,
`StopReachesAll`, `ShutdownReturns`, `RequestEnds`, `StartupAnswered` and
`ExchangeEnds`: they rest on fairness and ENABLED, which are out of reach of the
prover. Every invariant and every other action property that a run checks is
also a theorem.

## 5. What could follow

An abstract task set for `TransportProxy`; the NDJSON decoder by chunks.

## 6. Not modelled

- Win32 plumbing (security descriptors, attribute lists, the bytes of TCP tables)
  beyond success, failure and what the call changes.
- WebView2 itself, Hyper, Tokio, decoders and the C runtime, which appear as what
  the code may see of them.
- R, and the launcher script, which may write or withhold any line.
- A process created by other means than `launch`, with plain inheritance, while
  another launch has its pipe ends open (`windows-launcher/src/lib.rs:832`): nothing
  else in the repository creates one.
- Tauri's own exit request when the last window is gone, beyond `ExitRequested`, which
  may come at any time.
- JSON parsing and the bytes of the NDJSON decoder; logging, messages, texts of
  options and evidence.
- The exclusive socket option (one call without state).
- The test kit, fixtures, the acceptance harness and its reports
  (`crates/transport-testkit`, `apps/windows-spike`), CI workflows and templates:
  they exercise the program and are no part of it. They are a good quarter of the
  repository's Rust.
- A client that stops reading its response (`proxy.rs:610`): the code has no bound
  there, and `ExchangeEnds` assumes it away.

## 7. Running

    tlc -workers 2 -config RuntimeOwner.cfg MCRuntimeOwner
    tlc -workers 2 -config TransportProxy.cfg MCTransportProxy
    tlc -workers 2 -config Shell.cfg MCShell
    tlc -workers 2 -config Exchange.cfg MCExchange
    tlc -workers 2 -config Startup.cfg MCStartup
    for m in RuntimeOwner TransportProxy Shell Exchange WindowsLauncher Startup; do tlapm ${m}Proofs.tla; done
    for m in RuntimeOwner Exchange; do tlapm ${m}Promises.tla; done
