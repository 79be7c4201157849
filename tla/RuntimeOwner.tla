----------------------------- MODULE RuntimeOwner -----------------------------
(***************************************************************************)
(* RuntimeOwner (crates/windows-lifecycle/src/lib.rs): one bundled R        *)
(* process tree, from the creation of its private session to the removal   *)
(* of it.                                                                   *)
(*                                                                          *)
(* Four parties interleave:                                                 *)
(*   - the owner, a sequential program whose control point is `pc`; at      *)
(*     pc = "idle" it belongs to its caller, who may call poll_health,      *)
(*     shutdown, force_shutdown, retry_private_cleanup or drop it;          *)
(*   - the stdout monitor thread and the stderr drain thread, which talk    *)
(*     to the owner only through `channel`;                                 *)
(*   - the launched process tree, confined to a kill-on-close Job;          *)
(*   - the rest of the machine: another process may listen on the port, and *)
(*     an administrator may remove a foreign entry from the session.        *)
(*                                                                          *)
(* Every call into Windows may fail at any time, and every deadline may     *)
(* expire at any iteration of its loop.                                     *)
(***************************************************************************)
EXTENDS LauncherProtocol, PrivateSession, Naturals, Sequences

CONSTANTS Members,    \* identities that can belong to the Job
          Wrapper,    \* the launched interpreter, first member of the Job
          Outsiders,  \* processes outside the Job
          Sockets,    \* listening sockets that may be opened on the upstream port
          Lines,      \* the stdout lines the launcher may write
          PipeLines   \* lines the pipe holds before a writer has to wait

(***************************************************************************)
(* A row of the system's listener tables: who listens, and on 127.0.0.1, on *)
(* another IPv4 address or on an IPv6 one.  One process may open several     *)
(* sockets on one address, told apart by `number`.                           *)
(***************************************************************************)
ListenerRow ==
  [owner : Pids, address : {"loopback", "ipv4", "ipv6"}, number : Nat]

ASSUME RuntimeAssumption ==
  /\ Wrapper \in Members
  /\ Outsiders \cap Members = {}
  /\ Pids = Members \cup Outsiders
  /\ Lines \subseteq Line
  /\ Sockets \subseteq ListenerRow
  /\ PipeLines \in Nat \ {0}

VARIABLES
  pc,             \* control point of the owner
  owner_state,    \* OwnerState; "none" until the value exists
  monitor_state,  \* last LifecycleState taken from the channel
  stdout_ended,   \* a StdoutEnded message was applied
  process,        \* the JobProcess handle is held
  runtime,        \* captured Job member, or NoPid
  secret,         \* upstream_secret is held
  joinable,       \* both thread handles are held
  first_error,    \* the running call has stored an error
  kind,           \* ShutdownKind of the running call
  in_drop,        \* abort_and_cleanup runs inside Drop
  last,           \* result of the last call, "none" while one runs
  dir,            \* the session directory exists on disk
  files,          \* leaves in it
  live,           \* live members of the Job
  spawned,        \* members that were ever created
  doomed,         \* the Job was terminated or its last handle closed
  listeners,      \* sockets on the upstream port, followed while startup waits
  checked,        \* those of them that are open since the owner last looked
  wire,           \* tracker of everything written to stdout so far
  pipe,           \* lines written and not yet read
  control_seen,   \* the launcher reacted to the control file
  tracker,        \* LifecycleTracker of the monitor thread
  channel,        \* messages sent and not yet received
  stdout,         \* monitor thread: "none", "running", "done" or "panicked"
  stderr          \* drain thread

ownerVars == <<owner_state, monitor_state, stdout_ended, process, runtime,
               secret, joinable>>
callVars == <<pc, first_error, kind, in_drop, last>>
diskVars == <<dir, files>>
portVars == <<listeners, checked>>
jobVars == <<live, spawned, doomed, portVars>>
wireVars == <<wire, pipe, control_seen>>
threadVars == <<tracker, stdout, stderr>>

vars == <<ownerVars, callVars, diskVars, jobVars, wireVars, threadVars, channel>>

(***************************************************************************)
(* Messages of the monitor channel.  The owner copies the state of an event *)
(* and of "ended"; a failure carries none, and the one recorded here is not *)
(* read.                                                                     *)
(***************************************************************************)
EventKind == {"starting", "listening", "stopping", "stopped", "error"}

Failure(what) == [kind |-> what, state |-> tracker.state, pid |-> NoPid]

FailureKind == {"protocol_failure", "stdout_failure", "stderr_failure"}

Message ==
  [kind : EventKind \cup {"ended"} \cup FailureKind, state : LifecycleState,
   pid : Pids \cup {NoPid}]

(***************************************************************************)
(* What the launcher has put on the wire: a tracker, or one of two states   *)
(* after which nothing it writes is ever read.                              *)
(***************************************************************************)
Wire == [state : LifecycleState \cup {"Broken", "Closed"}, pid : Pids \cup {NoPid}]

LaunchPc == {"create", "token", "command", "pipes", "spawnTerminate", "spawnEmpty",
             "spawnJoin", "discard"}
ReadyPc == {"wait", "recv", "listenAlive", "listenDrain", "listenVerify",
            "foundIpv6", "missingIpv6", "probeAlive", "probeDrain", "probe"}
AbortPc == {"abortTerminate", "abortEmpty", "abortJoin", "abortDrain", "abortClean",
            "abortReturn"}
ShutdownPc == {"stopDrain", "stopObserve", "forceTerminate", "forceEmpty",
               "finishQuery", "finishJoin", "finishDrain", "finishClean"}
PollPc == {"pollDrain", "pollCheck"}

PcValues == LaunchPc \cup ReadyPc \cup AbortPc \cup ShutdownPc \cup PollPc
              \cup {"idle", "gone"}

Init ==
  /\ pc = "create" /\ owner_state = "none" /\ monitor_state = "AwaitingStart"
  /\ stdout_ended = FALSE /\ process = FALSE /\ runtime = NoPid
  /\ secret = FALSE /\ joinable = FALSE
  /\ first_error = FALSE /\ kind = "Forced" /\ in_drop = FALSE /\ last = "none"
  /\ dir = FALSE /\ files = {}
  /\ live = {} /\ spawned = {} /\ doomed = FALSE /\ listeners = {} /\ checked = {}
  /\ wire = NewTracker /\ pipe = <<>> /\ control_seen = FALSE
  /\ tracker = NewTracker /\ channel = <<>> /\ stdout = "none" /\ stderr = "none"

-------------------------------------------------------------------------------
(* The machine: the launched tree, its pipe, the port and the session.      *)

Spawn(p) ==
  /\ live # {} /\ ~doomed
  /\ p \in Members \ spawned
  /\ live' = live \cup {p}
  /\ spawned' = spawned \cup {p}
  /\ UNCHANGED <<ownerVars, callVars, diskVars, doomed, portVars, wireVars,
                 threadVars, channel>>

(* Sockets close; one opened again later is a new one.                       *)
Close(closed) ==
  /\ listeners' = listeners \ closed
  /\ checked' = checked \ closed

Exit(p) ==
  /\ p \in live
  /\ live' = live \ {p}
  /\ Close({s \in Sockets : s.owner = p})
  /\ UNCHANGED <<ownerVars, callVars, diskVars, spawned, doomed, wireVars,
                 threadVars, channel>>

(***************************************************************************)
(* Any process may listen on the port at any time, and give it up at any    *)
(* time: whether two sockets can share it is decided by their options,      *)
(* which are not this program's.  The owner looks at the port only while    *)
(* startup waits, so what happens to it before and after is not followed.   *)
(***************************************************************************)
Bind(s) ==
  /\ pc \in ReadyPc
  /\ s \in Sockets \ listeners
  /\ s.owner \in live \cup Outsiders
  /\ listeners' = listeners \cup {s}
  /\ UNCHANGED <<ownerVars, callVars, diskVars, live, spawned, doomed, checked,
                 wireVars, threadVars, channel>>

Release(s) ==
  /\ s \in listeners
  /\ Close({s})
  /\ UNCHANGED <<ownerVars, callVars, diskVars, live, spawned, doomed, wireVars,
                 threadVars, channel>>

(* Startup is over, and who listens is no longer followed.                   *)
ForgetPort == listeners' = {} /\ checked' = {}

ConsumeToken ==
  /\ live # {}
  /\ "token" \in files
  /\ files' = files \ {"token"}
  /\ UNCHANGED <<ownerVars, callVars, dir, jobVars, wireVars, threadVars, channel>>

AddForeign(leaf) ==
  /\ live # {} /\ dir
  /\ leaf \in Foreign \ files
  /\ files' = files \cup {leaf}
  /\ UNCHANGED <<ownerVars, callVars, dir, jobVars, wireVars, threadVars, channel>>

RemoveForeign(leaf) ==
  /\ leaf \in Foreign \cap files
  /\ files' = files \ {leaf}
  /\ UNCHANGED <<ownerVars, callVars, dir, jobVars, wireVars, threadVars, channel>>

(***************************************************************************)
(* The launcher writes any line; with a `stopping` while the control file   *)
(* is there it answers the request.  Nothing follows a rejected line: the   *)
(* monitor returns at it, so later lines are never read.                    *)
(***************************************************************************)
Write(line) ==
  /\ live # {}
  /\ wire.state \notin {"Broken", "Closed"}
  /\ stdout \in {"none", "running"} /\ Len(pipe) < PipeLines
  /\ pipe' = Append(pipe, line)
  /\ wire' = IF Accepts(wire, line) THEN Observe(wire, line)
             ELSE [wire EXCEPT !.state = "Broken"]
  /\ control_seen' = (control_seen \/ (line.kind = "stopping" /\ "control" \in files))
  /\ UNCHANGED <<ownerVars, callVars, diskVars, jobVars, threadVars, channel>>

CloseStdout ==
  /\ live # {}
  /\ wire.state \notin {"Broken", "Closed"}
  /\ wire' = [wire EXCEPT !.state = "Closed"]
  /\ UNCHANGED <<ownerVars, callVars, diskVars, jobVars, pipe, control_seen,
                 threadVars, channel>>

Environment ==
  \/ \E p \in Members : Spawn(p) \/ Exit(p)
  \/ \E s \in Sockets : Bind(s) \/ Release(s)
  \/ ConsumeToken
  \/ \E leaf \in Foreign : AddForeign(leaf) \/ RemoveForeign(leaf)
  \/ \E line \in Lines : Write(line)
  \/ CloseStdout

-------------------------------------------------------------------------------
(* The monitor and drain threads.  A send after the owner value is gone     *)
(* finds the receiver dropped; with the monitor thread goes the read end of *)
(* the pipe, and what it has not read.                                      *)

Send(message) ==
  channel' = IF pc = "gone" THEN channel ELSE Append(channel, message)

MonitorEvent ==
  /\ stdout = "running" /\ pipe # <<>>
  /\ Accepts(tracker, Head(pipe))
  /\ pipe' = IF pc = "gone" THEN <<>> ELSE Tail(pipe)
  /\ tracker' = Observe(tracker, Head(pipe))
  /\ Send([kind |-> Head(pipe).kind, state |-> StateAfter(Head(pipe).kind),
           pid |-> Head(pipe).pid])
  /\ stdout' = IF pc = "gone" THEN "done" ELSE "running"
  /\ UNCHANGED <<ownerVars, callVars, diskVars, jobVars, wire, control_seen, stderr>>

MonitorRejects ==
  /\ stdout = "running" /\ pipe # <<>>
  /\ ~Accepts(tracker, Head(pipe))
  /\ pipe' = <<>>
  /\ stdout' = "done"
  /\ Send(Failure("protocol_failure"))
  /\ UNCHANGED <<ownerVars, callVars, diskVars, jobVars, wire, control_seen,
                 tracker, stderr>>

(***************************************************************************)
(* One read may return several lines, and a malformed line among them       *)
(* discards the events decoded before it.                                   *)
(***************************************************************************)
MonitorDecodeFailure ==
  /\ stdout = "running"
  /\ \E i \in DOMAIN pipe : pipe[i] = Malformed
  /\ pipe' = <<>>
  /\ stdout' = "done"
  /\ Send(Failure("protocol_failure"))
  /\ UNCHANGED <<ownerVars, callVars, diskVars, jobVars, wire, control_seen,
                 tracker, stderr>>

MonitorReadFailure ==
  /\ stdout = "running"
  /\ pipe' = <<>>
  /\ stdout' = "done"
  /\ Send(Failure("stdout_failure"))
  /\ UNCHANGED <<ownerVars, callVars, diskVars, jobVars, wire, control_seen,
                 tracker, stderr>>

(* Mutant: the parent keeps the write end of the pipe open.                  *)
MonitorEofHeldOpen ==
  /\ stdout = "running" /\ pipe = <<>>
  /\ wire.state = "Closed"
  /\ stdout' = "done"
  /\ Send([kind |-> "ended", state |-> tracker.state, pid |-> NoPid])
  /\ UNCHANGED <<ownerVars, callVars, diskVars, jobVars, wireVars, tracker, stderr>>

MonitorEof ==
  /\ stdout = "running" /\ pipe = <<>>
  /\ live = {} \/ wire.state = "Closed"
  /\ stdout' = "done"
  /\ Send([kind |-> "ended", state |-> tracker.state, pid |-> NoPid])
  /\ UNCHANGED <<ownerVars, callVars, diskVars, jobVars, wireVars, tracker, stderr>>

(* Every process that inherited stderr has closed it or exited.              *)
DrainStderrEof ==
  /\ stderr = "running"
  /\ stderr' = "done"
  /\ UNCHANGED <<ownerVars, callVars, diskVars, jobVars, wireVars, tracker, stdout,
                 channel>>

DrainStderrFailure ==
  /\ stderr = "running"
  /\ stderr' = "done"
  /\ Send(Failure("stderr_failure"))
  /\ UNCHANGED <<ownerVars, callVars, diskVars, jobVars, wireVars, tracker, stdout>>

(* A thread that panics drops its sender without a message.                  *)
ThreadPanics ==
  /\ \/ /\ stdout = "running" /\ stdout' = "panicked" /\ pipe' = <<>>
        /\ UNCHANGED stderr
     \/ /\ stderr = "running" /\ stderr' = "panicked"
        /\ UNCHANGED <<stdout, pipe>>
  /\ UNCHANGED <<ownerVars, callVars, diskVars, jobVars, wire, control_seen, tracker,
                 channel>>

(* What the monitor thread does when its reads succeed.                      *)
MonitorReads ==
  MonitorEvent \/ MonitorRejects \/ MonitorDecodeFailure \/ MonitorEof

Monitor == MonitorReads \/ MonitorReadFailure

DrainStderr == DrainStderrEof \/ DrainStderrFailure

-------------------------------------------------------------------------------
(* Startup: launch, launch_validated_inner and the two cleanup paths before  *)
(* the owner value exists.                                                   *)

(***************************************************************************)
(* Scalar limits, port and bundle are validated before the session; the     *)
(* rollback of a half-created session is best effort.                       *)
(***************************************************************************)
CreateSession ==
  /\ pc = "create"
  /\ \/ pc' = "token" /\ dir' = TRUE
     \/ pc' = "gone" /\ dir' \in BOOLEAN
  /\ UNCHANGED <<ownerVars, first_error, kind, in_drop, last, files, jobVars,
                 wireVars, threadVars, channel>>

WriteTokenFile ==
  /\ pc = "token"
  /\ \E r \in CreateResults(files, "token") :
       /\ files' = r.files
       /\ pc' = IF r.ok THEN "command" ELSE "discard"
  /\ UNCHANGED <<ownerVars, first_error, kind, in_drop, last, dir, jobVars,
                 wireVars, threadVars, channel>>

(***************************************************************************)
(* Interpreter, environment and command are prepared, then the process is   *)
(* created suspended, assigned to the Job and resumed; a failure of any of   *)
(* these leaves no process.                                                  *)
(***************************************************************************)
LaunchProcess ==
  /\ pc = "command"
  /\ \/ /\ pc' = "pipes"
        /\ process' = TRUE
        /\ live' = {Wrapper} /\ spawned' = {Wrapper}
     \/ /\ pc' = "discard"
        /\ UNCHANGED <<process, live, spawned>>
  /\ UNCHANGED <<owner_state, monitor_state, stdout_ended, runtime, secret, joinable,
                 first_error, kind, in_drop, last, diskVars, doomed, portVars,
                 wireVars, threadVars, channel>>

StartMonitors ==
  /\ pc = "pipes"
  /\ \/ /\ stderr' = "running" /\ stdout' = "running"
        /\ owner_state' = "Starting" /\ secret' = TRUE /\ joinable' = TRUE
        /\ pc' = "wait"
     \/ /\ stderr' \in {"none", "running"}
        /\ pc' = "spawnTerminate"
        /\ UNCHANGED <<stdout, owner_state, secret, joinable>>
  /\ UNCHANGED <<monitor_state, stdout_ended, process, runtime, first_error, kind,
                 in_drop, last, diskVars, jobVars, wireVars, tracker, channel>>

(* TerminateJobObject: succeeds, or fails and leaves the tree running.       *)
TerminateJob == doomed' \in {doomed, TRUE}

SpawnedTerminate ==
  /\ pc = "spawnTerminate"
  /\ TerminateJob
  /\ pc' = "spawnEmpty"
  /\ UNCHANGED <<ownerVars, first_error, kind, in_drop, last, diskVars, live, spawned,
                 portVars, wireVars, threadVars, channel>>

(***************************************************************************)
(* The Job handle is dropped on every path; the session is cleaned and the  *)
(* thread joined only when the Job was seen empty.                           *)
(***************************************************************************)
SpawnedEmpty ==
  /\ pc = "spawnEmpty"
  /\ process' = FALSE /\ doomed' = TRUE
  /\ \/ live = {} /\ pc' = "spawnJoin"
     \/ pc' = "gone"
  /\ UNCHANGED <<owner_state, monitor_state, stdout_ended, runtime, secret, joinable,
                 first_error, kind, in_drop, last, diskVars, live, spawned, portVars,
                 wireVars, threadVars, channel>>

SpawnedJoin ==
  /\ pc = "spawnJoin"
  /\ stdout # "running" /\ stderr # "running"
  /\ pc' = "discard"
  /\ UNCHANGED <<ownerVars, first_error, kind, in_drop, last, diskVars, jobVars,
                 wireVars, threadVars, channel>>

(* session.cleanup() of both early-failure paths; the value is then gone.    *)
DiscardSession ==
  /\ pc = "discard"
  /\ \E r \in CleanupResults(files) : dir' = ~r.removed /\ files' = r.files
  /\ pc' = "gone"
  /\ UNCHANGED <<ownerVars, first_error, kind, in_drop, last, jobVars, wireVars,
                 threadVars, channel>>

Launch ==
  \/ CreateSession \/ WriteTokenFile \/ LaunchProcess \/ StartMonitors
  \/ SpawnedTerminate \/ SpawnedEmpty \/ SpawnedJoin \/ DiscardSession

-------------------------------------------------------------------------------
(* apply_monitor and drain_monitor.                                          *)

Apply(m) ==
  /\ monitor_state' = IF m.kind \in FailureKind THEN monitor_state ELSE m.state
  /\ stdout_ended' = (stdout_ended \/ m.kind = "ended")
  /\ channel' = Tail(channel)

(* A message that a strict drain turns into an error.                        *)
Refused(m) ==
  \/ m.kind \in FailureKind \cup {"error"}
  \/ m.kind \in {"ended", "stopping", "stopped"} /\ owner_state # "Stopping"

Disconnected == channel = <<>> /\ stdout # "running" /\ stderr # "running"

(* drain_monitor returned an error.                                          *)
DrainFails(strict) ==
  /\ strict
  /\ \/ channel # <<>> /\ Refused(Head(channel)) /\ Apply(Head(channel))
     \/ /\ Disconnected /\ owner_state # "Stopping"
        /\ UNCHANGED <<monitor_state, stdout_ended, channel>>

(* drain_monitor takes one more message.                                     *)
DrainContinues(strict) ==
  /\ channel # <<>>
  /\ ~(strict /\ Refused(Head(channel)))
  /\ Apply(Head(channel))

(* drain_monitor found nothing more to take.                                 *)
DrainEnds(strict) ==
  /\ channel = <<>>
  /\ ~(strict /\ Disconnected /\ owner_state # "Stopping")
  /\ UNCHANGED <<monitor_state, stdout_ended, channel>>

-------------------------------------------------------------------------------
(* wait_until_ready, wait_for_listener, wait_for_authenticated_readiness.    *)

ReadyFrame == <<first_error, kind, in_drop, process, secret, joinable, diskVars,
                jobVars, wireVars, threadVars>>

Alive(members) == members \subseteq live

(* The interpreter is alive, or it exited or could not be queried.           *)
WaitAlive ==
  /\ pc = "wait"
  /\ \/ Alive({Wrapper}) /\ pc' = "recv"
     \/ pc' = "abortTerminate"
  /\ UNCHANGED <<owner_state, monitor_state, stdout_ended, runtime, last, channel,
                 ReadyFrame>>

RecvDeadline ==
  /\ pc = "recv"
  /\ pc' = "abortTerminate"
  /\ UNCHANGED <<owner_state, monitor_state, stdout_ended, runtime, last, channel,
                 ReadyFrame>>

RecvTimeout ==
  /\ pc = "recv"
  /\ channel = <<>> /\ ~Disconnected
  /\ pc' = "wait"
  /\ UNCHANGED <<owner_state, monitor_state, stdout_ended, runtime, last, channel,
                 ReadyFrame>>

RecvDisconnected ==
  /\ pc = "recv"
  /\ Disconnected
  /\ pc' = "abortTerminate"
  /\ UNCHANGED <<owner_state, monitor_state, stdout_ended, runtime, last, channel,
                 ReadyFrame>>

TokenConsumed == "token" \notin files

(* capture_job_member: opens the process a message names; only a live member  *)
(* of this Job is captured.                                                  *)
CaptureJobMember(pid) == pid \in live

(***************************************************************************)
(* `starting` and `listening` pass the token gate, `listening` also the     *)
(* capture of the reported process as a live Job member.  Every other       *)
(* message, and a gate that fails or cannot be evaluated, ends the startup. *)
(***************************************************************************)
RecvMessage ==
  /\ pc = "recv"
  /\ channel # <<>>
  /\ Apply(Head(channel))
  /\ LET m == Head(channel) IN
       \/ /\ m.kind = "starting" /\ TokenConsumed
          /\ pc' = "wait"
          /\ UNCHANGED runtime
       \/ /\ m.kind = "listening" /\ TokenConsumed /\ CaptureJobMember(m.pid)
          /\ pc' = "listenAlive"
          /\ runtime' = m.pid
       \/ /\ pc' = "abortTerminate"
          /\ UNCHANGED runtime
  /\ UNCHANGED <<owner_state, last, ReadyFrame>>

ProcessesAlive(at, next) ==
  /\ pc = at
  /\ \/ Alive({Wrapper, runtime}) /\ pc' = next
     \/ pc' = "abortTerminate"
  /\ UNCHANGED <<owner_state, monitor_state, stdout_ended, runtime, last, channel,
                 ReadyFrame>>

StartupDrain(at, next) ==
  /\ pc = at
  /\ \/ DrainFails(TRUE) /\ pc' = "abortTerminate"
     \/ DrainContinues(TRUE) /\ pc' = at
     \/ DrainEnds(TRUE) /\ pc' = next
  /\ UNCHANGED <<owner_state, runtime, last, ReadyFrame>>

(***************************************************************************)
(* verify_ipv4_listener counts the rows of the port in two tables, read one *)
(* after the other, and asks before and after whether the captured process  *)
(* lives.  A row of the IPv4 table is exact if it is that process listening *)
(* on 127.0.0.1.                                                             *)
(***************************************************************************)
Ipv4Rows == {s \in listeners : s.address # "ipv6"}

Ipv6Rows == {s \in listeners : s.address = "ipv6"}

Exact == {s \in Ipv4Rows : s.address = "loopback" /\ s.owner = runtime}

(* Mutant: any listener on the port will do.                                 *)
ListenVerifyAnyOwner ==
  /\ pc = "listenVerify"
  /\ runtime \in live
  /\ checked' = listeners
  /\ pc' = IF Ipv4Rows = {} THEN "missingIpv6" ELSE "foundIpv6"
  /\ UNCHANGED <<ownerVars, first_error, kind, in_drop, last, diskVars, live, spawned,
                 doomed, listeners, wireVars, threadVars, channel>>

(* The IPv4 table: every row is exact, and there is one or none.             *)
ListenVerify ==
  /\ pc = "listenVerify"
  /\ runtime \in live
  /\ checked' = listeners
  /\ Ipv4Rows = Exact
  /\ \/ (\E s \in Exact : Exact = {s}) /\ pc' = "foundIpv6"
     \/ Exact = {} /\ pc' = "missingIpv6"
  /\ UNCHANGED <<ownerVars, first_error, kind, in_drop, last, diskVars, live, spawned,
                 doomed, listeners, wireVars, threadVars, channel>>

(* The IPv6 table: no row.  Without an exact listener the check is repeated. *)
ListenVerifyIpv6 ==
  /\ Ipv6Rows = {}
  /\ \/ pc = "foundIpv6" /\ runtime \in live /\ pc' = "probeAlive"
     \/ pc = "missingIpv6" /\ pc' = "listenAlive"
  /\ UNCHANGED <<owner_state, monitor_state, stdout_ended, runtime, last, channel,
                 ReadyFrame>>

(***************************************************************************)
(* A competing listener, an exited process, a failed query, or no listener   *)
(* when the deadline has passed.                                             *)
(***************************************************************************)
ListenGiveUp ==
  /\ pc \in {"listenVerify", "foundIpv6", "missingIpv6"}
  /\ pc' = "abortTerminate"
  /\ UNCHANGED <<owner_state, monitor_state, stdout_ended, runtime, last, channel,
                 ReadyFrame>>

(* Whoever listens now answers 2xx or 3xx: the owner becomes Ready.          *)
ProbeSucceeds ==
  /\ pc = "probe"
  /\ listeners # {}
  /\ owner_state' = "Ready"
  /\ pc' = "idle" /\ last' = "ok"
  /\ ForgetPort
  /\ UNCHANGED <<monitor_state, stdout_ended, process, runtime, secret, joinable,
                 first_error, kind, in_drop, diskVars, live, spawned, doomed, wireVars,
                 threadVars, channel>>

ProbeRetry ==
  /\ pc = "probe"
  /\ pc' = "probeAlive"
  /\ UNCHANGED <<owner_state, monitor_state, stdout_ended, runtime, last, channel,
                 ReadyFrame>>

ProbeDeadline ==
  /\ pc = "probe"
  /\ pc' = "abortTerminate"
  /\ UNCHANGED <<owner_state, monitor_state, stdout_ended, runtime, last, channel,
                 ReadyFrame>>

WaitUntilReady ==
  \/ WaitAlive \/ RecvTimeout \/ RecvDisconnected \/ RecvMessage
  \/ ProcessesAlive("listenAlive", "listenDrain")
  \/ StartupDrain("listenDrain", "listenVerify")
  \/ ListenVerify \/ ListenVerifyIpv6
  \/ ProcessesAlive("probeAlive", "probeDrain")
  \/ StartupDrain("probeDrain", "probe")
  \/ ProbeSucceeds \/ ProbeRetry
  \/ RecvDeadline \/ ListenGiveUp \/ ProbeDeadline

-------------------------------------------------------------------------------
(* abort_and_cleanup: after a failed startup, and from Drop.                 *)

AbortTerminate ==
  /\ pc = "abortTerminate"
  /\ owner_state' = "Stopping"
  /\ \/ process /\ TerminateJob /\ pc' = "abortEmpty"
     \/ ~process /\ UNCHANGED doomed /\ pc' = "abortJoin"
  /\ ForgetPort
  /\ UNCHANGED <<monitor_state, stdout_ended, process, runtime, secret, joinable,
                 first_error, kind, in_drop, last, diskVars, live, spawned, wireVars,
                 threadVars, channel>>

(* Mutant: a Job that did not become empty in time counts as empty.          *)
AbortEmptyIgnoresTimeout ==
  /\ pc = "abortEmpty"
  /\ process' = FALSE /\ doomed' = TRUE
  /\ pc' = "abortJoin"
  /\ UNCHANGED <<owner_state, monitor_state, stdout_ended, runtime, secret, joinable,
                 first_error, kind, in_drop, last, diskVars, live, spawned, portVars,
                 wireVars, threadVars, channel>>

AbortEmpty ==
  /\ pc = "abortEmpty"
  /\ \/ /\ live = {}
        /\ process' = FALSE /\ doomed' = TRUE
        /\ pc' = "abortJoin"
     \/ /\ pc' = "abortReturn"
        /\ UNCHANGED <<process, doomed>>
  /\ UNCHANGED <<owner_state, monitor_state, stdout_ended, runtime, secret, joinable,
                 first_error, kind, in_drop, last, diskVars, live, spawned, portVars,
                 wireVars, threadVars, channel>>

(* Mutant: the thread handles are dropped, not joined.                       *)
JoinDetaches(at, next) ==
  /\ pc = at
  /\ joinable' = FALSE
  /\ pc' = next
  /\ UNCHANGED <<owner_state, monitor_state, stdout_ended, process, runtime, secret,
                 first_error, kind, in_drop, last, diskVars, jobVars, wireVars,
                 threadVars, channel>>

(***************************************************************************)
(* join_monitors blocks until both threads have returned, and stores an      *)
(* error for one that panicked.                                              *)
(***************************************************************************)
Join(at, next) ==
  /\ pc = at
  /\ joinable => stdout # "running" /\ stderr # "running"
  /\ joinable' = FALSE
  /\ first_error' = (first_error \/ (joinable /\ "panicked" \in {stdout, stderr}))
  /\ pc' = next
  /\ UNCHANGED <<owner_state, monitor_state, stdout_ended, process, runtime, secret,
                 kind, in_drop, last, diskVars, jobVars, wireVars, threadVars, channel>>

AbortDrain ==
  /\ pc = "abortDrain"
  /\ \/ DrainContinues(FALSE) /\ pc' = "abortDrain"
     \/ DrainEnds(FALSE) /\ pc' = "abortClean"
  /\ UNCHANGED <<owner_state, process, runtime, secret, joinable, first_error, kind,
                 in_drop, last, diskVars, jobVars, wireVars, threadVars>>

(***************************************************************************)
(* verify_security and PrivateSession::cleanup: the session value, and with  *)
(* it the state Cleaned, follow the removal of the directory; the captured   *)
(* runtime and the secret are released either way.                           *)
(***************************************************************************)
RemoveSession ==
  \E r \in CleanupResults(files) :
    /\ dir' = ~r.removed
    /\ files' = r.files
    /\ owner_state' = IF r.removed THEN "Cleaned" ELSE owner_state

AbortClean ==
  /\ pc = "abortClean"
  /\ RemoveSession
  /\ runtime' = NoPid /\ secret' = FALSE
  /\ pc' = "abortReturn"
  /\ UNCHANGED <<monitor_state, stdout_ended, process, joinable, first_error, kind,
                 in_drop, last, jobVars, wireVars, threadVars, channel>>

(* Mutant: a Job without kill-on-close.                                      *)
AbortReturnLeavesJob ==
  /\ pc = "abortReturn"
  /\ IF in_drop \/ owner_state = "Cleaned"
       THEN /\ pc' = "gone"
            /\ process' = FALSE /\ joinable' = FALSE
            /\ runtime' = NoPid /\ secret' = FALSE
            /\ UNCHANGED in_drop
       ELSE /\ pc' = "abortTerminate"
            /\ in_drop' = TRUE
            /\ UNCHANGED <<process, joinable, runtime, secret>>
  /\ UNCHANGED <<doomed, owner_state, monitor_state, stdout_ended, first_error, kind,
                 last, diskVars, live, spawned, portVars, wireVars, threadVars, channel>>

(***************************************************************************)
(* A failed launch drops its owner, whose Drop aborts once more unless it is *)
(* Cleaned.  Dropping the fields closes the Job and detaches the threads.    *)
(***************************************************************************)
AbortReturn ==
  /\ pc = "abortReturn"
  /\ IF in_drop \/ owner_state = "Cleaned"
       THEN /\ pc' = "gone"
            /\ process' = FALSE /\ doomed' = (doomed \/ process)
            /\ joinable' = FALSE /\ runtime' = NoPid /\ secret' = FALSE
            /\ UNCHANGED in_drop
       ELSE /\ pc' = "abortTerminate"
            /\ in_drop' = TRUE
            /\ UNCHANGED <<process, doomed, joinable, runtime, secret>>
  /\ UNCHANGED <<owner_state, monitor_state, stdout_ended, first_error, kind, last,
                 diskVars, live, spawned, portVars, wireVars, threadVars, channel>>

Abort ==
  \/ AbortTerminate \/ AbortEmpty \/ Join("abortJoin", "abortDrain")
  \/ AbortDrain \/ AbortClean \/ AbortReturn

-------------------------------------------------------------------------------
(* shutdown, force_and_cleanup and finish_cleanup.                           *)

ShutdownFrame == <<wireVars, threadVars, live, spawned, portVars, in_drop>>

(* The call ends and its locals with it.                                     *)
Return(result) ==
  pc' = "idle" /\ last' = result /\ first_error' = FALSE /\ kind' = "Forced"

StopDrain ==
  /\ pc = "stopDrain"
  /\ \/ /\ DrainFails(TRUE)
        /\ pc' = "forceTerminate" /\ first_error' = TRUE /\ kind' = "Forced"
     \/ /\ DrainContinues(TRUE)
        /\ pc' = "stopDrain" /\ UNCHANGED <<first_error, kind>>
     \/ /\ DrainEnds(TRUE)
        /\ pc' = "stopObserve" /\ UNCHANGED <<first_error, kind>>
  /\ UNCHANGED <<owner_state, process, runtime, secret, joinable, last, diskVars,
                 doomed, ShutdownFrame>>

(* graceful_completion_observed, when none of its queries fails.             *)
Observed == monitor_state = "Stopped" /\ process /\ runtime # NoPid /\ live = {}

NotObserved ==
  monitor_state = "Stopped" => process /\ runtime # NoPid /\ live # {}

(***************************************************************************)
(* Complete: clean up gracefully.  Not complete: poll again.  A failed      *)
(* query, or a process that is no longer held, returns from shutdown with   *)
(* everything retained.                                                      *)
(***************************************************************************)
StopObserve ==
  /\ pc = "stopObserve"
  /\ \/ Observed /\ pc' = "finishQuery" /\ UNCHANGED <<first_error, kind, last>>
     \/ NotObserved /\ pc' = "stopDrain" /\ UNCHANGED <<first_error, kind, last>>
     \/ monitor_state = "Stopped" /\ Return("err")
  /\ UNCHANGED <<ownerVars, diskVars, doomed, channel, ShutdownFrame>>

StopDeadline ==
  /\ pc = "stopObserve"
  /\ NotObserved
  /\ pc' = "forceTerminate" /\ kind' = "Forced"
  /\ UNCHANGED <<ownerVars, first_error, last, diskVars, doomed, channel,
                 ShutdownFrame>>

ForceTerminate ==
  /\ pc = "forceTerminate"
  /\ \/ /\ process
        /\ \/ doomed' = TRUE /\ UNCHANGED first_error
           \/ first_error' = TRUE /\ UNCHANGED doomed
        /\ pc' = "forceEmpty"
     \/ /\ ~process
        /\ first_error' = TRUE /\ UNCHANGED doomed
        /\ pc' = "finishQuery"
  /\ UNCHANGED <<ownerVars, kind, last, diskVars, channel, ShutdownFrame>>

ForceEmpty ==
  /\ pc = "forceEmpty"
  /\ \/ live = {} /\ UNCHANGED first_error
     \/ first_error' = TRUE
  /\ pc' = "finishQuery"
  /\ UNCHANGED <<ownerVars, kind, last, diskVars, doomed, channel, ShutdownFrame>>

(* Mutant: a failed query drops the process value before returning.          *)
FinishQueryDropsProcess ==
  /\ pc = "finishQuery"
  /\ process' = FALSE /\ doomed' = (doomed \/ process)
  /\ \/ /\ process /\ runtime # NoPid /\ live = {}
        /\ pc' = "finishJoin" /\ UNCHANGED <<first_error, kind, last>>
     \/ Return("err")
  /\ UNCHANGED <<owner_state, monitor_state, stdout_ended, runtime, secret, joinable,
                 diskVars, channel, ShutdownFrame>>

(***************************************************************************)
(* finish_cleanup asks whether the Job is empty and for both exit codes.    *)
(* Unless all three are known it returns at once; otherwise it drops the    *)
(* process value, which closes the Job.                                      *)
(***************************************************************************)
FinishQuery ==
  /\ pc = "finishQuery"
  /\ \/ /\ process /\ runtime # NoPid /\ live = {}
        /\ process' = FALSE /\ doomed' = TRUE
        /\ pc' = "finishJoin" /\ UNCHANGED <<first_error, kind, last>>
     \/ Return("err") /\ UNCHANGED <<process, doomed>>
  /\ UNCHANGED <<owner_state, monitor_state, stdout_ended, runtime, secret, joinable,
                 diskVars, channel, ShutdownFrame>>

FinishDrain ==
  LET strict == kind = "Graceful" IN
  /\ pc = "finishDrain"
  /\ \/ DrainFails(strict) /\ first_error' = TRUE /\ pc' = "finishClean"
     \/ DrainContinues(strict) /\ pc' = "finishDrain" /\ UNCHANGED first_error
     \/ DrainEnds(strict) /\ pc' = "finishClean" /\ UNCHANGED first_error
  /\ UNCHANGED <<owner_state, process, runtime, secret, joinable, kind, last,
                 diskVars, doomed, ShutdownFrame>>

(* Mutant: the report ignores whether the directory was removed.             *)
FinishCleanOptimistic ==
  /\ pc = "finishClean"
  /\ RemoveSession
  /\ runtime' = NoPid /\ secret' = FALSE
  /\ Return(IF first_error THEN "err" ELSE kind)
  /\ UNCHANGED <<monitor_state, stdout_ended, process, joinable, doomed, channel,
                 ShutdownFrame>>

(* The report is returned only when no step has stored an error.             *)
FinishClean ==
  /\ pc = "finishClean"
  /\ RemoveSession
  /\ runtime' = NoPid /\ secret' = FALSE
  /\ \/ Return(IF first_error \/ dir' THEN "err" ELSE kind)
     \/ Return("err")
  /\ UNCHANGED <<monitor_state, stdout_ended, process, joinable, doomed, channel,
                 ShutdownFrame>>

Shutdown ==
  \/ StopDrain \/ StopObserve \/ StopDeadline \/ ForceTerminate \/ ForceEmpty
  \/ FinishQuery \/ Join("finishJoin", "finishDrain") \/ FinishDrain \/ FinishClean

-------------------------------------------------------------------------------
(* poll_health.                                                              *)

PollDrain ==
  /\ pc = "pollDrain"
  /\ \/ DrainFails(TRUE) /\ pc' = "idle" /\ last' = "err"
     \/ DrainContinues(TRUE) /\ pc' = "pollDrain" /\ UNCHANGED last
     \/ DrainEnds(TRUE) /\ pc' = "pollCheck" /\ UNCHANGED last
  /\ UNCHANGED <<owner_state, process, runtime, secret, joinable, first_error, kind,
                 in_drop, diskVars, jobVars, wireVars, threadVars>>

PollCheck ==
  /\ pc = "pollCheck"
  /\ pc' = "idle"
  /\ \/ /\ ~stdout_ended /\ Alive({Wrapper, runtime}) /\ monitor_state = "Listening"
        /\ last' = "ok"
     \/ last' = "err"
  /\ UNCHANGED <<ownerVars, first_error, kind, in_drop, diskVars, jobVars, wireVars,
                 threadVars, channel>>

-------------------------------------------------------------------------------
(* Calls the owner's caller may make, in any order.                          *)

CallFrame == <<monitor_state, stdout_ended, process, joinable, jobVars, wireVars,
               threadVars, channel>>

CallPollHealth ==
  /\ pc = "idle"
  /\ \/ owner_state = "Ready" /\ pc' = "pollDrain" /\ last' = "none"
     \/ owner_state # "Ready" /\ last' = "err" /\ UNCHANGED pc
  /\ UNCHANGED <<owner_state, runtime, secret, first_error, kind, in_drop, diskVars,
                 CallFrame>>

(***************************************************************************)
(* The first call requests the stop by creating the control file; a later   *)
(* one, in state Stopping, only waits again.                                 *)
(***************************************************************************)
CallShutdown ==
  /\ pc = "idle"
  /\ owner_state # "Cleaned"
  /\ owner_state' = "Stopping"
  /\ \/ /\ owner_state # "Stopping"
        /\ \E r \in CreateResults(files, "control") :
             /\ files' = r.files
             /\ pc' = IF r.ok THEN "stopDrain" ELSE "forceTerminate"
             /\ first_error' = ~r.ok
             /\ kind' = IF r.ok THEN "Graceful" ELSE "Forced"
     \/ /\ owner_state = "Stopping"
        /\ pc' = "stopDrain" /\ first_error' = FALSE /\ kind' = "Graceful"
        /\ UNCHANGED files
  /\ last' = "none"
  /\ UNCHANGED <<runtime, secret, in_drop, dir, CallFrame>>

CallForceShutdown ==
  /\ pc = "idle"
  /\ owner_state # "Cleaned"
  /\ owner_state' = "Stopping"
  /\ pc' = "forceTerminate" /\ first_error' = FALSE /\ kind' = "Forced"
  /\ last' = "none"
  /\ UNCHANGED <<runtime, secret, in_drop, diskVars, CallFrame>>

(* Refused while a process or a thread handle is held.                       *)
CallRetryPrivateCleanup ==
  /\ pc = "idle"
  /\ owner_state # "Cleaned"
  /\ IF process \/ joinable
       THEN last' = "err" /\ UNCHANGED <<owner_state, runtime, secret, diskVars>>
       ELSE /\ RemoveSession
            /\ runtime' = IF dir' THEN runtime ELSE NoPid
            /\ secret' = (secret /\ dir')
            /\ \/ last' = IF dir' THEN "err" ELSE "ok"
               \/ last' = "err"
  /\ UNCHANGED <<pc, first_error, kind, in_drop, CallFrame>>

(* shutdown, force_shutdown and retry_private_cleanup on a Cleaned owner.    *)
CallOnCleaned ==
  /\ pc = "idle"
  /\ owner_state = "Cleaned"
  /\ last' = "err"
  /\ UNCHANGED <<pc, owner_state, runtime, secret, first_error, kind, in_drop,
                 diskVars, CallFrame>>

CallDrop ==
  /\ pc = "idle"
  /\ pc' = IF owner_state = "Cleaned" THEN "gone" ELSE "abortTerminate"
  /\ in_drop' = TRUE /\ last' = "none"
  /\ UNCHANGED <<owner_state, runtime, secret, first_error, kind, diskVars, CallFrame>>

Call ==
  \/ CallPollHealth \/ CallShutdown \/ CallForceShutdown
  \/ CallRetryPrivateCleanup \/ CallOnCleaned \/ CallDrop

(* What the owner does between a call and its return.                        *)
OwnerStep == Launch \/ WaitUntilReady \/ Abort \/ Shutdown \/ PollDrain \/ PollCheck

Done == pc = "gone" /\ live = {} /\ stdout # "running" /\ stderr # "running"
          /\ UNCHANGED vars

Next ==
  \/ Environment \/ Monitor \/ DrainStderr \/ ThreadPanics
  \/ OwnerStep \/ Call \/ Done

(***************************************************************************)
(* Fairness.  The owner and its threads keep running, a terminated process   *)
(* dies, and every deadline-bounded loop meets its deadline if it keeps      *)
(* coming round to it.  Nothing is assumed of the launcher or of the caller, *)
(* and no failure of a read is forced to happen.                             *)
(***************************************************************************)
Fairness ==
  /\ WF_vars(OwnerStep)
  /\ WF_vars(MonitorReads)
  /\ WF_vars(live = {} /\ DrainStderrEof)
  /\ \A p \in Members : WF_vars(doomed /\ Exit(p))
  /\ SF_vars(RecvDeadline)
  /\ SF_vars(pc = "missingIpv6" /\ ListenGiveUp)
  /\ SF_vars(ProbeDeadline)
  /\ SF_vars(StopDeadline)

Spec == Init /\ [][Next]_vars

FairSpec == Spec /\ Fairness

-------------------------------------------------------------------------------
(* Properties.                                                               *)

(* Every variable holds a value of its type.                                 *)
TypeOK ==
  /\ pc \in PcValues
  /\ owner_state \in {"none", "Starting", "Ready", "Stopping", "Cleaned"}
  /\ monitor_state \in LifecycleState
  /\ stdout_ended \in BOOLEAN /\ process \in BOOLEAN
  /\ runtime \in Members \cup {NoPid}
  /\ secret \in BOOLEAN /\ joinable \in BOOLEAN
  /\ first_error \in BOOLEAN /\ kind \in {"Graceful", "Forced"}
  /\ in_drop \in BOOLEAN
  /\ last \in {"none", "ok", "err", "Graceful", "Forced"}
  /\ dir \in BOOLEAN /\ files \in SUBSET Leaf
  /\ live \in SUBSET Members /\ spawned \in SUBSET Members /\ doomed \in BOOLEAN
  /\ listeners \in SUBSET Sockets /\ checked \in SUBSET Sockets
  /\ wire \in Wire /\ pipe \in Seq(Line) /\ control_seen \in BOOLEAN
  /\ tracker \in Tracker /\ channel \in Seq(Message)
  /\ stdout \in {"none", "running", "done", "panicked"}
  /\ stderr \in {"none", "running", "done", "panicked"}

(***************************************************************************)
(* The private session outlives the process tree: while any Job member is   *)
(* alive its session directory, and the token and control paths it was      *)
(* given, are still there.  Every removal of the directory is preceded by a *)
(* Job seen empty (private_fs.rs: "Call this only after the owned launch    *)
(* Job has stopped").                                                        *)
(***************************************************************************)
SessionOutlivesJob == live # {} => dir

(***************************************************************************)
(* Cleaned is final and complete: no live process, no handle, no running    *)
(* thread, no directory and no secret remain (finish_cleanup,               *)
(* abort_and_cleanup, retry_private_cleanup).                                *)
(***************************************************************************)
CleanedIsReleased ==
  owner_state = "Cleaned" =>
    /\ live = {} /\ ~process /\ ~joinable
    /\ stdout # "running" /\ stderr # "running"
    /\ ~dir /\ files = {}
    /\ runtime = NoPid /\ ~secret

(***************************************************************************)
(* No failed shutdown leaves the caller without a way on.  Whenever a call  *)
(* has returned, either the Job and the captured runtime are both held, so  *)
(* that shutdown and force_shutdown can finish, or neither process nor      *)
(* threads are held and the directory is, so that retry_private_cleanup can *)
(* finish, or the owner is Cleaned.                                          *)
(***************************************************************************)
AlwaysRecoverable ==
  pc = "idle" =>
    \/ owner_state = "Cleaned"
    \/ owner_state \in {"Ready", "Stopping"} /\ process /\ runtime # NoPid /\ joinable
    \/ owner_state = "Stopping" /\ ~process /\ ~joinable /\ dir

(***************************************************************************)
(* A shutdown report is evidence: when shutdown or force_shutdown returns   *)
(* one, the owner is Cleaned, so by CleanedIsReleased nothing is left; a    *)
(* Graceful one also means the launcher reported `stopped`, through a       *)
(* channel without a refused message left in it.                             *)
(***************************************************************************)
ReportIsEvidence ==
  /\ last \in {"Graceful", "Forced"} => owner_state = "Cleaned"
  /\ last = "Graceful" => monitor_state = "Stopped" /\ channel = <<>>

(***************************************************************************)
(* The startup gates hold together when the owner becomes Ready, although   *)
(* they were evaluated at different times: the token is consumed, the       *)
(* captured runtime is the process the launcher announced and was a member  *)
(* of the Job, the last event taken is `listening`, and a socket on the     *)
(* port that is not that process listening on 127.0.0.1 was opened after    *)
(* the listener check looked: one that was there before is never missed.    *)
(***************************************************************************)
BecomesReady == owner_state' = "Ready" /\ owner_state # "Ready"

ReadyGates ==
  [][BecomesReady =>
       /\ TokenConsumed
       /\ runtime \in spawned /\ runtime = tracker.pid
       /\ monitor_state = "Listening" /\ ~stdout_ended
       /\ \A s \in checked : s.owner = runtime /\ s.address = "loopback"]_vars

(***************************************************************************)
(* select_upstream_port says of the port it releases: "Exact owner-PID      *)
(* listener verification detects any takeover before authenticated          *)
(* readiness".  At least, then, the captured process still listens when the *)
(* owner becomes Ready: the port has not passed to another one.             *)
(***************************************************************************)
TakeoverDetected == [][BecomesReady => \E s \in listeners : s.owner = runtime]_vars

(***************************************************************************)
(* The owner sees the launcher's protocol as it was written: between two    *)
(* threads, a chunking decoder and a channel no event is lost, repeated or  *)
(* reordered without the channel failing, so monitor_state moves only along *)
(* single edges of the protocol.                                             *)
(***************************************************************************)
ProtocolEdges ==
  {<<"AwaitingStart", "Starting">>, <<"Starting", "Listening">>,
   <<"Listening", "Stopping">>, <<"Listening", "Stopped">>,
   <<"Stopping", "Stopped">>}
    \cup {<<s, "Failed">> : s \in LifecycleState \ Terminal}

MonitorFollowsProtocol ==
  [][monitor_state' # monitor_state =>
       <<monitor_state, monitor_state'>> \in ProtocolEdges]_vars

(***************************************************************************)
(* Every call returns: startup, shutdown in both forms, polling and Drop    *)
(* end, whatever the launcher does and whichever Windows calls fail.  In    *)
(* particular joining the monitor threads never blocks for ever.            *)
(***************************************************************************)
CallsReturn == pc \notin {"idle", "gone"} ~> pc \in {"idle", "gone"}

(***************************************************************************)
(* Kill-on-close is the last resort that always works: once the owner value *)
(* is gone, the tree dies and both threads return, even when termination    *)
(* and accounting failed on every attempt.                                   *)
(***************************************************************************)
GoneTreeDies ==
  pc = "gone" ~> live = {} /\ stdout # "running" /\ stderr # "running"

(***************************************************************************)
(* ShutdownKind::Graceful is documented as "The launcher observed the       *)
(* control file and completed protocol 2".                                   *)
(***************************************************************************)
GracefulMeansControlObserved == last = "Graceful" => control_seen

-------------------------------------------------------------------------------
(* What the owner of the value sees, in the terms of OwnerContract.          *)

PhaseSeen ==
  CASE pc = "gone" -> "gone"
    [] pc \in LaunchPc \cup ReadyPc -> IF spawned = {} THEN "starting" ELSE "waking"
    [] pc \in AbortPc -> "ending"
    [] pc \in {"finishJoin", "finishDrain", "finishClean"} -> "closing"
    [] OTHER -> IF owner_state = "Cleaned" THEN "clean"
                ELSE IF owner_state = "Ready" THEN "ready"
                ELSE IF process THEN "held" ELSE "dirty"

AnswerSeen == IF last \in {"Graceful", "Forced"} THEN "report" ELSE last

Promise == INSTANCE OwnerContract
             WITH phase <- PhaseSeen, busy <- pc \notin {"idle", "gone"},
                  answer <- AnswerSeen, tree <- live # {}, session <- dir

(***************************************************************************)
(* The owner keeps its contract: launch, poll_health, shutdown,              *)
(* force_shutdown, retry_private_cleanup and Drop, with all their threads,   *)
(* Windows failures and deadlines, do nothing that OwnerContract does not    *)
(* allow.  In particular the Job is closed, the session removed and a report *)
(* given only in that order, and a stop that returned an error leaves a      *)
(* phase from which some call can still finish.                              *)
(***************************************************************************)
ImplementsContract == Promise!Contract

===============================================================================
