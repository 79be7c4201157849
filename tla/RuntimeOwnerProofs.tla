-------------------------- MODULE RuntimeOwnerProofs --------------------------
(***************************************************************************)
(* Safety of RuntimeOwner for every Job, every set of outside processes,    *)
(* every set of foreign entries and every launcher output.                   *)
(*                                                                           *)
(* The invariants proved are not inductive alone: whether removing the       *)
(* session is safe depends on which handles are held at which control point. *)
(* Control adds exactly that: the owner's state, its handles, its threads, the  *)
(* tree and the directory, each as a function of pc.                         *)
(***************************************************************************)
EXTENDS RuntimeOwner, TLAPS

(* The owner's state at each control point.                                  *)
StateAt ==
  /\ pc \in LaunchPc => owner_state = "none"
  /\ pc \in ReadyPc => owner_state = "Starting"
  /\ pc \in PollPc => owner_state = "Ready"
  /\ pc \in ShutdownPc \cup {"abortEmpty", "abortJoin", "abortDrain", "abortClean"} =>
       owner_state = "Stopping"
  /\ pc = "abortTerminate" => owner_state \in {"Starting", "Ready", "Stopping"}
  /\ pc = "abortReturn" => owner_state \in {"Stopping", "Cleaned"}
  /\ pc = "idle" => owner_state \in {"Ready", "Stopping", "Cleaned"}

(* The Job and thread handles, and the captured runtime, at each of them.    *)
HandlesAt ==
  /\ pc \in {"create", "token", "command", "spawnJoin", "discard", "abortJoin",
             "abortDrain", "abortClean", "finishJoin", "finishDrain", "finishClean"} =>
       ~process
  /\ pc \in {"pipes", "spawnTerminate", "spawnEmpty", "abortEmpty", "forceEmpty"} =>
       process
  /\ owner_state \in {"Starting", "Ready"} => process /\ joinable
  /\ pc \in {"abortDrain", "abortClean", "finishDrain", "finishClean"} => ~joinable
  /\ pc \in {"listenAlive", "listenDrain", "listenVerify", "foundIpv6", "missingIpv6",
             "probeAlive", "probeDrain", "probe"} => runtime # NoPid
  /\ pc \in {"idle"} \cup ShutdownPc \cup PollPc /\ process =>
       joinable /\ runtime # NoPid
  /\ pc \in {"idle", "stopDrain", "stopObserve", "forceTerminate", "finishQuery"}
       /\ ~process => ~joinable

(* Without the Job handle there is no tree, as long as the value exists.     *)
TreeHeld == pc # "gone" /\ ~process => live = {}

(* Without the thread handles no thread runs, as long as the value exists.   *)
ThreadsHeld ==
  owner_state # "none" /\ pc # "gone" /\ ~joinable =>
    stdout # "running" /\ stderr # "running"

(* The directory exists from its creation until Cleaned.                     *)
DirHeld ==
  /\ pc \in LaunchPc \ {"create"} => dir
  /\ owner_state \in {"Starting", "Ready", "Stopping"} => dir

Control ==
  /\ StateAt /\ HandlesAt /\ TreeHeld /\ ThreadsHeld /\ DirHeld
  /\ SessionOutlivesJob /\ CleanedIsReleased

-------------------------------------------------------------------------------
(* What accepted lines and received messages are.                            *)

(* Every event kind leads to a state of the tracker.                         *)
LEMMA StateAfterType ==
  ASSUME NEW k \in EventKind
  PROVE  StateAfter(k) \in LifecycleState
  BY DEF EventKind, StateAfter, LifecycleState

(* A line the tracker accepts is an event.                                   *)
LEMMA AcceptedLine ==
  ASSUME NEW t, NEW e \in Line, Accepts(t, e)
  PROVE  e.kind \in EventKind /\ e.pid \in Pids \cup {NoPid}
  BY DEF Line, Event, Malformed, Accepts, EventKind

(* An accepted line leaves a well-typed tracker.                             *)
LEMMA ObserveType ==
  ASSUME NEW T, NEW t \in [state : T, pid : Pids \cup {NoPid}],
         NEW e \in Line, Accepts(t, e)
  PROVE  Observe(t, e) \in Tracker
<1>1. e.kind \in EventKind /\ e.pid \in Pids \cup {NoPid}
  BY AcceptedLine
<1>2. StateAfter(e.kind) \in LifecycleState
  BY <1>1, StateAfterType
<1> QED BY <1>1, <1>2 DEF Observe, Tracker

(* The failure messages of the two threads are messages.                     *)
LEMMA FailureType ==
  ASSUME TypeOK, NEW k \in FailureKind
  PROVE  Failure(k) \in Message
  BY DEF TypeOK, Failure, Message, FailureKind, Tracker

(* A send keeps the channel a sequence of messages.                          *)
LEMMA SendType ==
  ASSUME TypeOK, NEW m \in Message, Send(m)
  PROVE  channel' \in Seq(Message)
  BY DEF TypeOK, Send

(* apply_monitor takes a message and keeps the owner's copy well typed.      *)
LEMMA ApplyType ==
  ASSUME TypeOK, channel # <<>>, Apply(Head(channel))
  PROVE  /\ monitor_state' \in LifecycleState /\ stdout_ended' \in BOOLEAN
         /\ channel' \in Seq(Message)
         /\ Head(channel).pid \in Pids \cup {NoPid}
<1>1. Head(channel) \in Message /\ Tail(channel) \in Seq(Message)
  BY DEF TypeOK
<1> QED BY <1>1 DEF Apply, Message, TypeOK

(* So does each outcome of drain_monitor.                                    *)
LEMMA DrainType ==
  ASSUME TypeOK, NEW strict,
         DrainFails(strict) \/ DrainContinues(strict) \/ DrainEnds(strict)
  PROVE  /\ monitor_state' \in LifecycleState /\ stdout_ended' \in BOOLEAN
         /\ channel' \in Seq(Message)
  BY ApplyType DEF DrainFails, DrainContinues, DrainEnds, TypeOK

(* A successful cleanup leaves no leaf; every cleanup leaves leaves.         *)
LEMMA CleanupType ==
  ASSUME TypeOK, NEW r \in CleanupResults(files)
  PROVE  r.removed \in BOOLEAN /\ r.files \in SUBSET Leaf
         /\ (r.removed => r.files = {})
<1>1. \/ r = [removed |-> TRUE, files |-> {}]
      \/ \E done \in {{}, {"token"}, {"token", "control"}} :
           r = [removed |-> FALSE, files |-> files \ done]
  BY Zenon DEF CleanupResults
<1>2. files \in SUBSET Leaf
  BY DEF TypeOK
<1>3. CASE r = [removed |-> TRUE, files |-> {}]
  BY <1>3
<1>4. ASSUME NEW done, r = [removed |-> FALSE, files |-> files \ done]
      PROVE  r.removed = FALSE /\ r.files \in SUBSET Leaf
  BY <1>2, <1>4
<1> QED BY <1>1, <1>3, <1>4

(* Creating a fixed file leaves a set of leaves.                             *)
LEMMA CreateType ==
  ASSUME TypeOK, NEW leaf \in Known, NEW r \in CreateResults(files, leaf)
  PROVE  r.ok \in BOOLEAN /\ r.files \in SUBSET Leaf
<1>1. \/ r = [ok |-> TRUE, files |-> files \cup {leaf}]
      \/ \E f \in {files, files \cup {leaf}} : r = [ok |-> FALSE, files |-> f]
  BY Zenon DEF CreateResults
<1>2. files \in SUBSET Leaf /\ leaf \in Leaf
  BY DEF TypeOK, Leaf
<1>3. CASE r = [ok |-> TRUE, files |-> files \cup {leaf}]
  BY <1>2, <1>3
<1>4. ASSUME NEW f \in {files, files \cup {leaf}}, r = [ok |-> FALSE, files |-> f]
      PROVE  r.ok = FALSE /\ r.files \in SUBSET Leaf
  BY <1>2, <1>4
<1> QED BY <1>1, <1>3, <1>4

(* Cleaned is entered exactly when the directory and its leaves are gone.    *)
LEMMA RemoveSessionEffect ==
  ASSUME TypeOK, RemoveSession
  PROVE  /\ dir' \in BOOLEAN /\ files' \in SUBSET Leaf
         /\ owner_state' = IF dir' THEN owner_state ELSE "Cleaned"
         /\ ~dir' => files' = {}
<1> PICK r \in CleanupResults(files) :
      /\ dir' = ~r.removed
      /\ files' = r.files
      /\ owner_state' = IF r.removed THEN "Cleaned" ELSE owner_state
  BY DEF RemoveSession
<1> QED BY CleanupType

-------------------------------------------------------------------------------
(* Type correctness, one lemma per party.                                    *)

USE DEF ownerVars, callVars, diskVars, portVars, jobVars, wireVars, threadVars,
        ReadyFrame, ShutdownFrame, CallFrame

(* The machine's steps preserve the types.                                   *)
LEMMA EnvironmentType ==
  ASSUME TypeOK, Environment
  PROVE  TypeOK'
<1>1. ASSUME NEW p \in Members, Spawn(p) \/ Exit(p) PROVE TypeOK'
  BY <1>1 DEF Spawn, Exit, Close, TypeOK
<1>2. ASSUME NEW s \in Sockets, Bind(s) PROVE TypeOK'
  BY <1>2 DEF Bind, TypeOK
<1>3. ASSUME NEW s \in Sockets, Release(s) PROVE TypeOK'
  BY <1>3 DEF Release, Close, TypeOK
<1>4. CASE ConsumeToken
  BY <1>4 DEF ConsumeToken, TypeOK
<1>5. ASSUME NEW leaf \in Foreign, AddForeign(leaf) \/ RemoveForeign(leaf)
      PROVE  TypeOK'
  BY <1>5 DEF AddForeign, RemoveForeign, TypeOK, Leaf
<1>6. ASSUME NEW line \in Lines, Write(line) PROVE TypeOK'
  <2>1. line \in Line
    BY RuntimeAssumption
  <2>2. pipe' \in Seq(Line)
    BY <1>6, <2>1 DEF Write, TypeOK
  <2>3. wire' \in Wire
    <3>1. CASE Accepts(wire, line)
      <4>1. Observe(wire, line) \in Tracker
        BY <2>1, <3>1, ObserveType DEF TypeOK, Wire
      <4> QED BY <1>6, <3>1, <4>1 DEF Write, Tracker, Wire
    <3>2. CASE ~Accepts(wire, line)
      BY <1>6, <3>2 DEF Write, TypeOK, Wire
    <3> QED BY <3>1, <3>2
  <2> QED BY <1>6, <2>2, <2>3 DEF Write, TypeOK
<1>7. CASE CloseStdout
  BY <1>7 DEF CloseStdout, TypeOK, Wire
<1> QED BY <1>1, <1>2, <1>3, <1>4, <1>5, <1>6, <1>7 DEF Environment

(* The steps of the two threads preserve the types.                          *)
LEMMA MonitorType ==
  ASSUME TypeOK, Monitor \/ DrainStderr \/ ThreadPanics
  PROVE  TypeOK'
<1>1. CASE MonitorEvent
  <2>1. Head(pipe) \in Line /\ Tail(pipe) \in Seq(Line)
    BY <1>1 DEF MonitorEvent, TypeOK
  <2>2. Head(pipe).kind \in EventKind /\ Head(pipe).pid \in Pids \cup {NoPid}
    BY <1>1, <2>1, AcceptedLine DEF MonitorEvent
  <2>3. Observe(tracker, Head(pipe)) \in Tracker
    BY <1>1, <2>1, ObserveType DEF MonitorEvent, TypeOK, Tracker
  <2>4. [kind |-> Head(pipe).kind, state |-> StateAfter(Head(pipe).kind),
         pid |-> Head(pipe).pid] \in Message
    BY <2>2, StateAfterType DEF Message
  <2>5. channel' \in Seq(Message)
    BY <1>1, <2>4, SendType DEF MonitorEvent
  <2> QED BY <1>1, <2>1, <2>3, <2>5 DEF MonitorEvent, TypeOK
<1>2. CASE MonitorRejects \/ MonitorDecodeFailure
  <2>1. channel' \in Seq(Message)
    <3>1. Failure("protocol_failure") \in Message
      BY FailureType DEF FailureKind
    <3>2. Send(Failure("protocol_failure"))
      BY <1>2 DEF MonitorRejects, MonitorDecodeFailure
    <3> QED BY <3>1, <3>2, SendType
  <2>2. /\ pipe' = <<>> /\ stdout' = "done"
        /\ UNCHANGED <<ownerVars, callVars, diskVars, jobVars, wire, control_seen,
                       tracker, stderr>>
    BY <1>2 DEF MonitorRejects, MonitorDecodeFailure
  <2>3. pipe' \in Seq(Line)
    BY <2>2
  <2> QED BY <2>1, <2>2, <2>3 DEF TypeOK
<1>3. CASE MonitorReadFailure
  <2>1. channel' \in Seq(Message)
    BY <1>3, FailureType, SendType DEF MonitorReadFailure, FailureKind
  <2> QED BY <1>3, <2>1 DEF MonitorReadFailure, TypeOK
<1>4. CASE MonitorEof
  <2>1. [kind |-> "ended", state |-> tracker.state, pid |-> NoPid] \in Message
    BY DEF TypeOK, Tracker, Message
  <2>2. channel' \in Seq(Message)
    BY <1>4, <2>1, SendType DEF MonitorEof
  <2> QED BY <1>4, <2>2 DEF MonitorEof, TypeOK
<1>5. CASE DrainStderrEof
  BY <1>5 DEF DrainStderrEof, TypeOK
<1>6. CASE DrainStderrFailure
  <2>1. channel' \in Seq(Message)
    BY <1>6, FailureType, SendType DEF DrainStderrFailure, FailureKind
  <2> QED BY <1>6, <2>1 DEF DrainStderrFailure, TypeOK
<1>7. CASE ThreadPanics
  <2>1. pipe' \in Seq(Line)
    <3>1. CASE pipe' = <<>>
      BY <3>1
    <3>2. CASE pipe' = pipe
      BY <3>2 DEF TypeOK
    <3> QED BY <1>7, <3>1, <3>2 DEF ThreadPanics
  <2> QED BY <1>7, <2>1 DEF ThreadPanics, TypeOK
<1> QED BY <1>1, <1>2, <1>3, <1>4, <1>5, <1>6, <1>7
        DEF Monitor, MonitorReads, DrainStderr

(* The control points, spelled out.                                          *)
USE DEF PcValues, LaunchPc, ReadyPc, AbortPc, ShutdownPc, PollPc

(***************************************************************************)
(* In the steps below the Boolean variables an action assigns have a step   *)
(* of their own, because Zenon decides those and SMT the rest.               *)
(***************************************************************************)

(* The steps of launch preserve the types.                                   *)
LEMMA LaunchType ==
  ASSUME TypeOK, Launch
  PROVE  TypeOK'
<1>1. CASE CreateSession
  <2>1. dir' \in BOOLEAN
    BY <1>1, Zenon DEF CreateSession
  <2> QED BY <1>1, <2>1 DEF CreateSession, TypeOK
<1>2. CASE WriteTokenFile
  <2>1. files' \in SUBSET Leaf /\ pc' \in {"command", "discard"}
    BY <1>2, CreateType DEF WriteTokenFile, Known
  <2> QED BY <1>2, <2>1 DEF WriteTokenFile, TypeOK
<1>3. CASE LaunchProcess
  <2>1. process' \in BOOLEAN
    BY <1>3, Zenon DEF LaunchProcess, TypeOK
  <2> QED BY <1>3, <2>1, RuntimeAssumption DEF LaunchProcess, TypeOK
<1>4. CASE StartMonitors
  <2>1. secret' \in BOOLEAN /\ joinable' \in BOOLEAN
    BY <1>4, Zenon DEF StartMonitors, TypeOK
  <2> QED BY <1>4, <2>1 DEF StartMonitors, TypeOK
<1>5. CASE SpawnedTerminate
  <2>1. doomed' \in BOOLEAN
    BY <1>5, Zenon DEF SpawnedTerminate, TerminateJob, TypeOK
  <2> QED BY <1>5, <2>1 DEF SpawnedTerminate, TypeOK
<1>6. CASE SpawnedEmpty \/ SpawnedJoin
  <2>1. process' \in BOOLEAN /\ doomed' \in BOOLEAN
    BY <1>6, Zenon DEF SpawnedEmpty, SpawnedJoin, TypeOK, ownerVars, jobVars
  <2> QED BY <1>6, <2>1 DEF SpawnedEmpty, SpawnedJoin, TypeOK
<1>7. CASE DiscardSession
  <2>1. files' \in SUBSET Leaf /\ dir' \in BOOLEAN
    BY <1>7, CleanupType DEF DiscardSession
  <2> QED BY <1>7, <2>1 DEF DiscardSession, TypeOK
<1> QED BY <1>1, <1>2, <1>3, <1>4, <1>5, <1>6, <1>7 DEF Launch

(* The steps of wait_until_ready preserve the types.                         *)
LEMMA WaitUntilReadyType ==
  ASSUME TypeOK, WaitUntilReady
  PROVE  TypeOK'
<1>1. CASE WaitAlive \/ RecvTimeout \/ RecvDisconnected \/ RecvDeadline
  BY <1>1 DEF WaitAlive, RecvTimeout, RecvDisconnected, RecvDeadline, TypeOK
<1>2. CASE RecvMessage
  <2>1. /\ monitor_state' \in LifecycleState /\ stdout_ended' \in BOOLEAN
        /\ channel' \in Seq(Message)
    BY <1>2, ApplyType DEF RecvMessage
  <2>2. runtime' \in Members \cup {NoPid}
    BY <1>2 DEF RecvMessage, CaptureJobMember, TypeOK
  <2>3. pc' \in {"wait", "listenAlive", "abortTerminate"}
    BY <1>2 DEF RecvMessage
  <2> QED BY <1>2, <2>1, <2>2, <2>3 DEF RecvMessage, TypeOK
<1>3. CASE \/ ProcessesAlive("listenAlive", "listenDrain")
           \/ ProcessesAlive("probeAlive", "probeDrain")
  BY <1>3 DEF ProcessesAlive, TypeOK
<1>4. CASE \/ StartupDrain("listenDrain", "listenVerify")
           \/ StartupDrain("probeDrain", "probe")
  <2>1. /\ monitor_state' \in LifecycleState /\ stdout_ended' \in BOOLEAN
        /\ channel' \in Seq(Message)
    BY <1>4, DrainType DEF StartupDrain
  <2>2. /\ pc' \in {"abortTerminate", "listenDrain", "listenVerify", "probeDrain", "probe"}
        /\ UNCHANGED <<owner_state, runtime, last, ReadyFrame>>
    BY <1>4 DEF StartupDrain
  <2> QED BY <2>1, <2>2 DEF TypeOK
<1>5. CASE ListenVerifyIpv6 \/ ListenGiveUp \/ ProbeRetry \/ ProbeDeadline
  BY <1>5 DEF ListenVerifyIpv6, ListenGiveUp, ProbeRetry, ProbeDeadline, TypeOK
<1>6. CASE ListenVerify \/ ProbeSucceeds
  BY <1>6 DEF ListenVerify, ProbeSucceeds, ForgetPort, TypeOK
<1> QED BY <1>1, <1>2, <1>3, <1>4, <1>5, <1>6 DEF WaitUntilReady

(* The steps of abort_and_cleanup and Drop preserve the types.               *)
LEMMA AbortType ==
  ASSUME TypeOK, Abort
  PROVE  TypeOK'
<1>1. CASE AbortTerminate
  <2>1. doomed' \in BOOLEAN
    BY <1>1, Zenon DEF AbortTerminate, TerminateJob, TypeOK
  <2> QED BY <1>1, <2>1 DEF AbortTerminate, ForgetPort, TypeOK
<1>2. CASE AbortEmpty \/ Join("abortJoin", "abortDrain")
  <2>1. process' \in BOOLEAN /\ doomed' \in BOOLEAN /\ joinable' \in BOOLEAN
    BY <1>2, Zenon DEF AbortEmpty, Join, TypeOK
  <2> QED BY <1>2, <2>1 DEF AbortEmpty, Join, TypeOK
<1>3. CASE AbortDrain
  <2>1. /\ monitor_state' \in LifecycleState /\ stdout_ended' \in BOOLEAN
        /\ channel' \in Seq(Message)
    BY <1>3, DrainType DEF AbortDrain
  <2>2. pc' \in {"abortDrain", "abortClean"}
    BY <1>3 DEF AbortDrain
  <2> QED BY <1>3, <2>1, <2>2 DEF AbortDrain, TypeOK
<1>4. CASE AbortClean
  <2>1. secret' \in BOOLEAN
    BY <1>4, Zenon DEF AbortClean
  <2>2. /\ dir' \in BOOLEAN /\ files' \in SUBSET Leaf
        /\ owner_state' \in {owner_state, "Cleaned"}
    BY <1>4, RemoveSessionEffect DEF AbortClean
  <2> QED BY <1>4, <2>1, <2>2 DEF AbortClean, TypeOK
<1>5. CASE AbortReturn
  <2>1. /\ process' \in BOOLEAN /\ doomed' \in BOOLEAN /\ joinable' \in BOOLEAN
        /\ secret' \in BOOLEAN /\ in_drop' \in BOOLEAN
    <3>1. CASE in_drop \/ owner_state = "Cleaned"
      BY <1>5, <3>1, Zenon DEF AbortReturn, TypeOK
    <3>2. CASE ~(in_drop \/ owner_state = "Cleaned")
      BY <1>5, <3>2, Zenon DEF AbortReturn, TypeOK
    <3> QED BY <3>1, <3>2
  <2> QED BY <1>5, <2>1 DEF AbortReturn, TypeOK
<1> QED BY <1>1, <1>2, <1>3, <1>4, <1>5 DEF Abort

(* The steps of shutdown, force_and_cleanup and polling preserve the types.  *)
LEMMA ShutdownType ==
  ASSUME TypeOK, Shutdown
  PROVE  TypeOK'
<1>1. CASE StopDrain
  <2>1. /\ monitor_state' \in LifecycleState /\ stdout_ended' \in BOOLEAN
        /\ channel' \in Seq(Message)
    BY <1>1, DrainType DEF StopDrain
  <2>2. /\ pc' \in {"forceTerminate", "stopDrain", "stopObserve"}
        /\ kind' \in {kind, "Forced"}
    BY <1>1 DEF StopDrain
  <2>3. first_error' \in BOOLEAN
    BY <1>1, Zenon DEF StopDrain, TypeOK
  <2>4. UNCHANGED <<owner_state, process, runtime, secret, joinable, last, diskVars,
                    doomed, ShutdownFrame>>
    BY <1>1 DEF StopDrain
  <2> QED BY <2>1, <2>2, <2>3, <2>4 DEF TypeOK
<1>2. CASE StopObserve \/ StopDeadline
  <2>1. first_error' \in BOOLEAN
    BY <1>2, Zenon DEF StopObserve, StopDeadline, Return, TypeOK
  <2> QED BY <1>2, <2>1 DEF StopObserve, StopDeadline, Return, TypeOK
<1>3. CASE ForceTerminate \/ ForceEmpty
  <2>1. first_error' \in BOOLEAN /\ doomed' \in BOOLEAN
    BY <1>3, Zenon DEF ForceTerminate, ForceEmpty, TypeOK
  <2> QED BY <1>3, <2>1 DEF ForceTerminate, ForceEmpty, TypeOK
<1>4. CASE FinishQuery \/ Join("finishJoin", "finishDrain")
  <2>1. /\ process' \in BOOLEAN /\ doomed' \in BOOLEAN /\ joinable' \in BOOLEAN
        /\ first_error' \in BOOLEAN
    BY <1>4, Zenon DEF FinishQuery, Join, Return, TypeOK
  <2> QED BY <1>4, <2>1 DEF FinishQuery, Join, Return, TypeOK
<1>5. CASE FinishDrain
  <2>1. /\ monitor_state' \in LifecycleState /\ stdout_ended' \in BOOLEAN
        /\ channel' \in Seq(Message)
    BY <1>5, DrainType DEF FinishDrain
  <2>2. /\ pc' \in {"finishDrain", "finishClean"}
        /\ UNCHANGED <<owner_state, process, runtime, secret, joinable, kind, last,
                       diskVars, doomed, ShutdownFrame>>
    BY <1>5 DEF FinishDrain
  <2>3. first_error' \in BOOLEAN
    BY <1>5, Zenon DEF FinishDrain, TypeOK
  <2> QED BY <2>1, <2>2, <2>3 DEF TypeOK
<1>6. CASE FinishClean
  <2>1. secret' \in BOOLEAN /\ first_error' \in BOOLEAN
    BY <1>6, Zenon DEF FinishClean, Return
  <2>2. /\ dir' \in BOOLEAN /\ files' \in SUBSET Leaf
        /\ owner_state' \in {owner_state, "Cleaned"}
    BY <1>6, RemoveSessionEffect DEF FinishClean
  <2>3. last' \in {"err", kind}
    BY <1>6 DEF FinishClean, Return
  <2> QED BY <1>6, <2>1, <2>2, <2>3 DEF FinishClean, Return, TypeOK
<1> QED BY <1>1, <1>2, <1>3, <1>4, <1>5, <1>6 DEF Shutdown

(* Every call preserves the types.                                           *)
LEMMA CallType ==
  ASSUME TypeOK, PollDrain \/ PollCheck \/ Call
  PROVE  TypeOK'
<1>1. CASE PollDrain
  <2>1. /\ monitor_state' \in LifecycleState /\ stdout_ended' \in BOOLEAN
        /\ channel' \in Seq(Message)
    BY <1>1, DrainType DEF PollDrain
  <2>2. pc' \in {"idle", "pollDrain", "pollCheck"} /\ last' \in {last, "err"}
    BY <1>1 DEF PollDrain
  <2> QED BY <1>1, <2>1, <2>2 DEF PollDrain, TypeOK
<1>2. CASE PollCheck \/ CallPollHealth
  BY <1>2 DEF PollCheck, CallPollHealth, TypeOK
<1>3. CASE CallShutdown
  <2>1. CASE owner_state # "Stopping"
    <3> PICK r \in CreateResults(files, "control") :
          /\ files' = r.files
          /\ pc' = IF r.ok THEN "stopDrain" ELSE "forceTerminate"
          /\ first_error' = ~r.ok
          /\ kind' = IF r.ok THEN "Graceful" ELSE "Forced"
      BY <1>3, <2>1 DEF CallShutdown
    <3>1. files' \in SUBSET Leaf /\ first_error' \in BOOLEAN
      BY CreateType DEF Known
    <3> QED BY <1>3, <3>1 DEF CallShutdown, TypeOK
  <2>2. CASE owner_state = "Stopping"
    <3>1. first_error' \in BOOLEAN
      BY <1>3, <2>2, Zenon DEF CallShutdown
    <3> QED BY <1>3, <2>2, <3>1 DEF CallShutdown, TypeOK
  <2> QED BY <2>1, <2>2
<1>4. CASE CallForceShutdown \/ CallOnCleaned \/ CallDrop
  <2>1. first_error' \in BOOLEAN /\ in_drop' \in BOOLEAN
    BY <1>4, Zenon DEF CallForceShutdown, CallOnCleaned, CallDrop, TypeOK
  <2> QED BY <1>4, <2>1 DEF CallForceShutdown, CallOnCleaned, CallDrop, TypeOK
<1>5. CASE CallRetryPrivateCleanup
  <2>1. CASE process \/ joinable
    BY <1>5, <2>1 DEF CallRetryPrivateCleanup, TypeOK
  <2>2. CASE ~(process \/ joinable)
    BY <1>5, <2>2, RemoveSessionEffect DEF CallRetryPrivateCleanup, TypeOK
  <2> QED BY <2>1, <2>2
<1> QED BY <1>1, <1>2, <1>3, <1>4, <1>5 DEF Call

(***************************************************************************)
(* Every reachable state of the owner, its threads, the Job, the session    *)
(* and the protocol stream is well typed.                                    *)
(***************************************************************************)
THEOREM TypeCorrect == Spec => []TypeOK
<1>1. Init => TypeOK
  <2> SUFFICES ASSUME Init PROVE TypeOK
    OBVIOUS
  <2>1. /\ stdout_ended \in BOOLEAN /\ process \in BOOLEAN /\ secret \in BOOLEAN
        /\ joinable \in BOOLEAN /\ first_error \in BOOLEAN /\ in_drop \in BOOLEAN
        /\ dir \in BOOLEAN /\ doomed \in BOOLEAN /\ control_seen \in BOOLEAN
    BY Zenon DEF Init
  <2>2. wire \in Wire /\ tracker \in Tracker
    BY DEF Init, NewTracker, Tracker, Wire, LifecycleState
  <2> QED BY <2>1, <2>2 DEF Init, TypeOK, LifecycleState
<1>2. TypeOK /\ [Next]_vars => TypeOK'
  <2> SUFFICES ASSUME TypeOK, [Next]_vars PROVE TypeOK'
    OBVIOUS
  <2>1. CASE Next
    BY <2>1, EnvironmentType, MonitorType, LaunchType, WaitUntilReadyType, AbortType,
       ShutdownType, CallType DEF Next, OwnerStep, Done, vars, TypeOK
  <2>2. CASE UNCHANGED vars
    BY <2>2 DEF vars, TypeOK
  <2> QED BY <2>1, <2>2
<1> QED BY <1>1, <1>2, PTL DEF Spec

-------------------------------------------------------------------------------
(* The handles, the tree, the threads and the directory at each control      *)
(* point, one lemma per party.                                               *)

USE DEF Control, StateAt, HandlesAt, TreeHeld, ThreadsHeld, DirHeld,
        SessionOutlivesJob, CleanedIsReleased

(* The machine creates no process once the Job handle is closed.             *)
LEMMA EnvironmentControl ==
  ASSUME TypeOK, Control, Environment
  PROVE  Control'
<1>1. ASSUME NEW p \in Members, Spawn(p) PROVE Control'
  BY <1>1 DEF Spawn
<1>2. ASSUME NEW p \in Members, Exit(p) PROVE Control'
  BY <1>2 DEF Exit
<1>3. ASSUME NEW s \in Sockets, Bind(s) \/ Release(s) PROVE Control'
  BY <1>3 DEF Bind, Release
<1>4. CASE ConsumeToken \/ CloseStdout
  BY <1>4 DEF ConsumeToken, CloseStdout
<1>5. ASSUME NEW leaf \in Foreign, AddForeign(leaf) \/ RemoveForeign(leaf)
      PROVE  Control'
  BY <1>5 DEF AddForeign, RemoveForeign
<1>6. ASSUME NEW line \in Lines, Write(line) PROVE Control'
  BY <1>6 DEF Write
<1> QED BY <1>1, <1>2, <1>3, <1>4, <1>5, <1>6 DEF Environment

(* A thread only ends; it holds nothing the owner accounts for.              *)
LEMMA MonitorControl ==
  ASSUME TypeOK, Control, Monitor \/ DrainStderr \/ ThreadPanics
  PROVE  Control'
<1>1. /\ UNCHANGED <<ownerVars, callVars, diskVars, jobVars>>
      /\ stdout' \in {stdout, "done", "panicked"}
      /\ stderr' \in {stderr, "done", "panicked"}
  BY DEF Monitor, MonitorReads, DrainStderr, MonitorEvent, MonitorRejects,
         MonitorDecodeFailure, MonitorReadFailure, MonitorEof, DrainStderrEof,
         DrainStderrFailure, ThreadPanics
<1> QED BY <1>1

(* launch reaches the owner value with every handle, or discards them.       *)
LEMMA LaunchControl ==
  ASSUME TypeOK, Control, Launch
  PROVE  Control'
<1>1. CASE CreateSession
  BY <1>1 DEF CreateSession
<1>2. CASE WriteTokenFile
  <2>1. pc = "token" /\ pc' \in {"command", "discard"}
    BY <1>2 DEF WriteTokenFile
  <2> QED BY <1>2, <2>1 DEF WriteTokenFile
<1>3. CASE LaunchProcess
  BY <1>3 DEF LaunchProcess
<1>4. CASE StartMonitors
  BY <1>4 DEF StartMonitors
<1>5. CASE SpawnedTerminate \/ SpawnedEmpty \/ SpawnedJoin
  BY <1>5 DEF SpawnedTerminate, SpawnedEmpty, SpawnedJoin
<1>6. CASE DiscardSession
  BY <1>6 DEF DiscardSession
<1> QED BY <1>1, <1>2, <1>3, <1>4, <1>5, <1>6 DEF Launch

(* The readiness gates give nothing up but control.                          *)
LEMMA WaitUntilReadyControl ==
  ASSUME TypeOK, Control, WaitUntilReady
  PROVE  Control'
<1>1. CASE WaitAlive \/ RecvTimeout \/ RecvDisconnected \/ RecvDeadline
  BY <1>1 DEF WaitAlive, RecvTimeout, RecvDisconnected, RecvDeadline
<1>2. CASE RecvMessage
  <2>1. /\ pc = "recv" /\ UNCHANGED <<owner_state, last, ReadyFrame>>
        /\ \/ pc' \in {"wait", "abortTerminate"} /\ runtime' = runtime
           \/ pc' = "listenAlive" /\ runtime' \in live
    BY <1>2 DEF RecvMessage, CaptureJobMember
  <2>2. NoPid \notin live
    BY RuntimeAssumption, NoPidAssumption DEF TypeOK
  <2> QED BY <2>1, <2>2
<1>3. CASE \/ ProcessesAlive("listenAlive", "listenDrain")
           \/ ProcessesAlive("probeAlive", "probeDrain")
  BY <1>3 DEF ProcessesAlive
<1>4. CASE \/ StartupDrain("listenDrain", "listenVerify")
           \/ StartupDrain("probeDrain", "probe")
  <2>1. /\ UNCHANGED <<owner_state, runtime, last, ReadyFrame>>
        /\ \/ pc = "listenDrain"
              /\ pc' \in {"abortTerminate", "listenDrain", "listenVerify"}
           \/ pc = "probeDrain" /\ pc' \in {"abortTerminate", "probeDrain", "probe"}
    BY <1>4 DEF StartupDrain
  <2> QED BY <2>1
<1>5. CASE \/ ListenVerify \/ ListenVerifyIpv6 \/ ListenGiveUp \/ ProbeSucceeds
           \/ ProbeRetry \/ ProbeDeadline
  BY <1>5 DEF ListenVerify, ListenVerifyIpv6, ListenGiveUp, ProbeSucceeds, ProbeRetry,
              ProbeDeadline
<1> QED BY <1>1, <1>2, <1>3, <1>4, <1>5 DEF WaitUntilReady

(* abort_and_cleanup drops the Job only when empty, then threads, then session. *)
LEMMA AbortControl ==
  ASSUME TypeOK, Control, Abort
  PROVE  Control'
<1>1. CASE AbortTerminate
  BY <1>1 DEF AbortTerminate
<1>2. CASE AbortEmpty
  BY <1>2 DEF AbortEmpty
<1>3. CASE Join("abortJoin", "abortDrain")
  BY <1>3 DEF Join
<1>4. CASE AbortDrain
  <2>1. /\ pc = "abortDrain" /\ pc' \in {"abortDrain", "abortClean"}
        /\ UNCHANGED <<owner_state, process, runtime, secret, joinable, diskVars,
                       jobVars, threadVars>>
    BY <1>4 DEF AbortDrain
  <2> QED BY <2>1
<1>5. CASE AbortClean
  <2>1. /\ owner_state' = IF dir' THEN owner_state ELSE "Cleaned"
        /\ ~dir' => files' = {}
    BY <1>5, RemoveSessionEffect DEF AbortClean
  <2> QED BY <1>5, <2>1 DEF AbortClean
<1>6. CASE AbortReturn
  BY <1>6 DEF AbortReturn
<1> QED BY <1>1, <1>2, <1>3, <1>4, <1>5, <1>6 DEF Abort

(* finish_cleanup does the same, and retains everything when a query fails.  *)
LEMMA ShutdownControl ==
  ASSUME TypeOK, Control, Shutdown
  PROVE  Control'
<1>1. CASE StopDrain
  <2>1. /\ pc = "stopDrain" /\ pc' \in {"forceTerminate", "stopDrain", "stopObserve"}
        /\ UNCHANGED <<owner_state, process, runtime, secret, joinable, diskVars,
                       ShutdownFrame>>
    BY <1>1 DEF StopDrain
  <2> QED BY <2>1
<1>2. CASE StopObserve \/ StopDeadline
  BY <1>2 DEF StopObserve, StopDeadline, Return
<1>3. CASE ForceTerminate \/ ForceEmpty
  BY <1>3 DEF ForceTerminate, ForceEmpty
<1>4. CASE FinishQuery
  BY <1>4 DEF FinishQuery, Return
<1>5. CASE Join("finishJoin", "finishDrain")
  BY <1>5 DEF Join
<1>6. CASE FinishDrain
  <2>1. /\ pc = "finishDrain" /\ pc' \in {"finishDrain", "finishClean"}
        /\ UNCHANGED <<owner_state, process, runtime, secret, joinable, diskVars,
                       ShutdownFrame>>
    BY <1>6 DEF FinishDrain
  <2> QED BY <2>1
<1>7. CASE FinishClean
  <2>1. /\ owner_state' = IF dir' THEN owner_state ELSE "Cleaned"
        /\ ~dir' => files' = {}
    BY <1>7, RemoveSessionEffect DEF FinishClean
  <2>2. /\ pc = "finishClean" /\ pc' = "idle" /\ runtime' = NoPid /\ ~secret'
        /\ UNCHANGED <<process, joinable, ShutdownFrame>>
    BY <1>7 DEF FinishClean, Return
  <2> QED BY <2>1, <2>2
<1> QED BY <1>1, <1>2, <1>3, <1>4, <1>5, <1>6, <1>7 DEF Shutdown

(* A call starts, is refused or retries the cleanup, and keeps what it must. *)
LEMMA CallControl ==
  ASSUME TypeOK, Control, PollDrain \/ PollCheck \/ Call
  PROVE  Control'
<1>1. CASE PollDrain
  <2>1. /\ pc = "pollDrain" /\ pc' \in {"idle", "pollDrain", "pollCheck"}
        /\ UNCHANGED <<owner_state, process, runtime, secret, joinable, diskVars,
                       jobVars, threadVars>>
    BY <1>1 DEF PollDrain
  <2> QED BY <2>1
<1>2. CASE PollCheck \/ CallPollHealth \/ CallOnCleaned
  BY <1>2 DEF PollCheck, CallPollHealth, CallOnCleaned
<1>3. CASE CallShutdown
  <2>1. /\ pc = "idle" /\ pc' \in {"stopDrain", "forceTerminate"}
        /\ owner_state # "Cleaned" /\ owner_state' = "Stopping"
        /\ UNCHANGED <<runtime, secret, dir, CallFrame>>
    BY <1>3 DEF CallShutdown
  <2> QED BY <2>1
<1>4. CASE CallForceShutdown \/ CallDrop
  BY <1>4 DEF CallForceShutdown, CallDrop
<1>5. CASE CallRetryPrivateCleanup
  <2>1. CASE process \/ joinable
    BY <1>5, <2>1 DEF CallRetryPrivateCleanup
  <2>2. CASE ~(process \/ joinable)
    <3>1. /\ owner_state' = IF dir' THEN owner_state ELSE "Cleaned"
          /\ ~dir' => files' = {}
      BY <1>5, <2>2, RemoveSessionEffect DEF CallRetryPrivateCleanup
    <3>2. /\ pc = "idle" /\ owner_state # "Cleaned"
          /\ runtime' = IF dir' THEN runtime ELSE NoPid
          /\ secret' => dir'
          /\ UNCHANGED <<pc, CallFrame>>
      BY <1>5, <2>2 DEF CallRetryPrivateCleanup
    <3> QED BY <2>2, <3>1, <3>2
  <2> QED BY <2>1, <2>2
<1> QED BY <1>1, <1>2, <1>3, <1>4, <1>5 DEF Call

HIDE DEF Control, StateAt, HandlesAt, TreeHeld, ThreadsHeld, DirHeld,
         SessionOutlivesJob, CleanedIsReleased

(***************************************************************************)
(* The inductive invariant holds in every reachable state.                   *)
(***************************************************************************)
THEOREM ControlCorrect == Spec => []Control
<1>1. Init => Control
  BY DEF Init, Control, StateAt, HandlesAt, TreeHeld, ThreadsHeld, DirHeld,
         SessionOutlivesJob, CleanedIsReleased
<1>2. TypeOK /\ Control /\ [Next]_vars => Control'
  <2> SUFFICES ASSUME TypeOK, Control, [Next]_vars PROVE Control'
    OBVIOUS
  <2>1. CASE Environment \/ Monitor \/ DrainStderr \/ ThreadPanics
    BY <2>1, EnvironmentControl, MonitorControl
  <2>2. CASE OwnerStep \/ Call
    BY <2>2, LaunchControl, WaitUntilReadyControl, AbortControl, ShutdownControl,
       CallControl DEF OwnerStep
  <2>3. CASE UNCHANGED vars
    BY <2>3 DEF vars, Control, StateAt, HandlesAt, TreeHeld, ThreadsHeld, DirHeld,
               SessionOutlivesJob, CleanedIsReleased
  <2> QED BY <2>1, <2>2, <2>3 DEF Next, Done
<1> QED BY <1>1, <1>2, TypeCorrect, PTL DEF Spec

(***************************************************************************)
(* No path of startup, shutdown, abort, retry or Drop removes the session    *)
(* while a member of the Job is alive.                                       *)
(***************************************************************************)
THEOREM SessionOutlivesJobCorrect == Spec => []SessionOutlivesJob
<1>1. Control => SessionOutlivesJob
  BY DEF Control
<1> QED BY <1>1, ControlCorrect, PTL

(***************************************************************************)
(* An owner in state Cleaned holds nothing: no tree, handle, thread,         *)
(* directory or secret.                                                       *)
(***************************************************************************)
THEOREM CleanedIsReleasedCorrect == Spec => []CleanedIsReleased
<1>1. Control => CleanedIsReleased
  BY DEF Control
<1> QED BY <1>1, ControlCorrect, PTL

(***************************************************************************)
(* Whatever failed before, an owner that has returned to its caller can      *)
(* still be shut down, forced or cleaned.                                     *)
(***************************************************************************)
THEOREM AlwaysRecoverableCorrect == Spec => []AlwaysRecoverable
<1>1. Control => AlwaysRecoverable
  BY DEF Control, StateAt, HandlesAt, DirHeld, AlwaysRecoverable
<1> QED BY <1>1, ControlCorrect, PTL

===============================================================================
