------------------------- MODULE RuntimeOwnerPromises -------------------------
(***************************************************************************)
(* What RuntimeOwner tells its caller, for every Job, every set of outside   *)
(* processes, every set of foreign entries and every launcher output: the    *)
(* protocol as the owner sees it, the gates of readiness, the report of a    *)
(* shutdown, and the contract of OwnerContract.                              *)
(*                                                                          *)
(* The first three rest on the stream: the states carried by the messages in *)
(* the channel lead, edge by edge of the protocol, from the owner's copy of  *)
(* the state to the tracker of the monitor thread.                           *)
(***************************************************************************)
EXTENDS RuntimeOwnerProofs, Integers

(* The state before the i-th message of the channel.                         *)
StateBefore(i) == IF i = 1 THEN monitor_state ELSE channel[i - 1].state

(* The state after the last one.                                             *)
StateSent == IF channel = <<>> THEN monitor_state ELSE channel[Len(channel)].state

(* A message is an event on an edge of the protocol, or leaves the state.    *)
MessageFits(before, m) ==
  IF m.kind \in EventKind
    THEN <<before, m.state>> \in ProtocolEdges /\ m.state = StateAfter(m.kind)
    ELSE m.state = before

Stream ==
  pc # "gone" =>
    /\ \A i \in 1..Len(channel) : MessageFits(StateBefore(i), channel[i])
    /\ StateSent = tracker.state

-------------------------------------------------------------------------------
(* The stream, one lemma per kind of step.                                   *)

(* An accepted line moves the tracker along an edge.                         *)
LEMMA AcceptedEdge ==
  ASSUME NEW t \in Tracker, NEW e \in Line, Accepts(t, e)
  PROVE  /\ <<t.state, StateAfter(e.kind)>> \in ProtocolEdges
         /\ e.kind \in EventKind
<1>1. e.kind \in EventKind
  BY AcceptedLine
<1>2. StateAfter("starting") = "Starting" /\ StateAfter("listening") = "Listening"
      /\ StateAfter("stopping") = "Stopping" /\ StateAfter("stopped") = "Stopped"
      /\ StateAfter("error") = "Failed"
  BY DEF StateAfter
<1>3. t.state \in LifecycleState
  BY DEF Tracker
<1>4. CASE e.kind = "error"
  <2>1. t.state \in LifecycleState \ Terminal
    BY <1>3, <1>4 DEF Accepts
  <2> QED BY <1>1, <1>2, <1>4, <2>1 DEF ProtocolEdges
<1>5. CASE e.kind # "error"
  BY <1>1, <1>2, <1>5 DEF Accepts, ProtocolEdges
<1> QED BY <1>1, <1>4, <1>5

(* A sent message that fits the tracker's state extends the stream.          *)
LEMMA StreamSend ==
  ASSUME TypeOK, Stream, pc # "gone", NEW m \in Message,
         MessageFits(tracker.state, m), channel' = Append(channel, m),
         UNCHANGED <<monitor_state, pc>>, tracker'.state = m.state
  PROVE  Stream'
<1>1. channel \in Seq(Message) /\ channel' \in Seq(Message) /\ Len(channel') = Len(channel) + 1
      /\ channel' # <<>> /\ Len(channel) \in Nat
  BY DEF TypeOK
<1>2. \A i \in 1..Len(channel) : channel'[i] = channel[i]
  BY <1>1
<1>3. channel'[Len(channel')] = m
  BY <1>1
<1>4. ASSUME NEW i \in 1..Len(channel') PROVE MessageFits(StateBefore(i), channel[i])'
  <2>1. CASE i \in 1..Len(channel)
    <3>1. StateBefore(i)' = StateBefore(i)
      BY <1>1, <1>2, <2>1 DEF StateBefore
    <3>2. MessageFits(StateBefore(i), channel[i])
      BY <2>1 DEF Stream
    <3> QED BY <1>2, <2>1, <3>1, <3>2 DEF MessageFits
  <2>2. CASE i = Len(channel')
    <3>1. StateBefore(i)' = StateSent
      BY <1>1, <1>2, <2>2 DEF StateBefore, StateSent
    <3>2. StateSent = tracker.state
      BY DEF Stream
    <3> QED BY <1>3, <2>2, <3>1, <3>2 DEF MessageFits
  <2> QED BY <1>1, <2>1, <2>2
<1>5. StateSent' = tracker'.state
  BY <1>1, <1>3 DEF StateSent
<1> QED BY <1>4, <1>5 DEF Stream

(* Applying the head shortens the stream by its first edge.                  *)
LEMMA StreamApply ==
  ASSUME TypeOK, Stream, pc # "gone", channel # <<>>, Apply(Head(channel)),
         UNCHANGED tracker
  PROVE  /\ Stream'
         /\ MessageFits(monitor_state, Head(channel))
         /\ monitor_state' = Head(channel).state
<1>1. channel \in Seq(Message) /\ channel' = Tail(channel) /\ Len(channel) \in Nat \ {0}
      /\ Head(channel) = channel[1] /\ Len(channel') = Len(channel) - 1
      /\ channel' \in Seq(Message)
  BY DEF TypeOK, Apply
<1>2. \A i \in 1..Len(channel') : channel'[i] = channel[i + 1]
  BY <1>1
<1>3. MessageFits(monitor_state, Head(channel))
  <2>1. 1 \in 1..Len(channel)
    BY <1>1
  <2>2. MessageFits(StateBefore(1), channel[1])
    BY <2>1 DEF Stream
  <2> QED BY <1>1, <2>2 DEF StateBefore
<1>4. monitor_state' = Head(channel).state
  <2>1. CASE Head(channel).kind \in FailureKind
    BY <1>3, <2>1 DEF Apply, MessageFits, FailureKind, EventKind
  <2> QED BY <2>1 DEF Apply
<1>5. ASSUME NEW i \in 1..Len(channel') PROVE MessageFits(StateBefore(i), channel[i])'
  <2>1. i + 1 \in 1..Len(channel)
    BY <1>1
  <2>2. MessageFits(StateBefore(i + 1), channel[i + 1])
    BY <2>1 DEF Stream
  <2>3. StateBefore(i)' = StateBefore(i + 1)
    <3>1. CASE i = 1
      BY <1>1, <1>4, <3>1 DEF StateBefore
    <3>2. CASE i # 1
      <4>1. channel'[i - 1] = channel[i] /\ i - 1 \in 1..Len(channel')
        BY <1>1, <1>2, <3>2
      <4> QED BY <1>1, <3>2, <4>1 DEF StateBefore
    <3> QED BY <3>1, <3>2
  <2> QED BY <1>2, <2>2, <2>3 DEF MessageFits
<1>6. StateSent' = StateSent
  <2>1. CASE Len(channel) = 1
    <3>1. channel' = <<>>
      BY <1>1, <2>1
    <3> QED BY <1>1, <1>4, <2>1, <3>1 DEF StateSent
  <2>2. CASE Len(channel) # 1
    <3>1. channel' # <<>> /\ Len(channel') \in 1..Len(channel')
      BY <1>1, <2>2
    <3>2. channel'[Len(channel')] = channel[Len(channel)]
      BY <1>1, <1>2, <3>1
    <3> QED BY <3>1, <3>2 DEF StateSent
  <2> QED BY <2>1, <2>2
<1> QED BY <1>3, <1>4, <1>5, <1>6 DEF Stream

USE DEF ownerVars, callVars, diskVars, portVars, jobVars, wireVars, threadVars,
        ReadyFrame, ShutdownFrame, CallFrame

(* What a thread sends while the owner exists: a message that fits, carries  *)
(* the tracker's id if it is a `listening`, and tells the state it leaves.   *)
LEMMA ThreadSends ==
  ASSUME TypeOK, Monitor \/ DrainStderr, pc # "gone"
  PROVE  \/ UNCHANGED <<tracker, channel>>
         \/ \E m \in Message :
              /\ channel' = Append(channel, m) /\ MessageFits(tracker.state, m)
              /\ tracker'.state = m.state
              /\ m.kind = "listening" => m.pid = tracker.pid
              /\ m.kind = "listening" => tracker.state # "AwaitingStart"
              /\ m.kind \in EventKind => tracker'.state # "AwaitingStart"
              /\ tracker.state # "AwaitingStart" =>
                   tracker'.pid = tracker.pid /\ tracker'.state # "AwaitingStart"
<1>1. CASE MonitorEvent
  <2> DEFINE e == Head(pipe)
             m == [kind |-> e.kind, state |-> StateAfter(e.kind), pid |-> e.pid]
  <2>1. e \in Line /\ tracker \in Tracker /\ Accepts(tracker, e)
    BY <1>1 DEF MonitorEvent, TypeOK
  <2>2. <<tracker.state, m.state>> \in ProtocolEdges /\ e.kind \in EventKind
        /\ e.pid \in Pids \cup {NoPid}
    BY <2>1, AcceptedEdge, AcceptedLine
  <2>3. m \in Message
    BY <2>2, StateAfterType DEF Message
  <2>4. channel' = Append(channel, m) /\ tracker' = Observe(tracker, e)
    BY <1>1 DEF MonitorEvent, Send
  <2>5. MessageFits(tracker.state, m) /\ tracker'.state = m.state
    BY <2>2, <2>4 DEF MessageFits, Observe
  <2>6. m.kind = "listening" => m.pid = tracker.pid /\ tracker.state # "AwaitingStart"
    BY <2>1 DEF Accepts
  <2>7. StateAfter(e.kind) # "AwaitingStart"
    BY <2>2 DEF StateAfter, EventKind
  <2>8. tracker.state # "AwaitingStart" => tracker'.pid = tracker.pid
    BY <2>1, <2>4 DEF Accepts, Observe
  <2> QED BY <2>3, <2>4, <2>5, <2>6, <2>7, <2>8
<1>2. ASSUME NEW m \in Message, m.kind \notin EventKind, m.state = tracker.state,
             Send(m), UNCHANGED tracker
      PROVE  /\ channel' = Append(channel, m) /\ MessageFits(tracker.state, m)
             /\ tracker'.state = m.state /\ m.kind # "listening"
  BY <1>2 DEF Send, MessageFits, EventKind
<1>3. ASSUME NEW k \in FailureKind, Send(Failure(k)), UNCHANGED tracker
      PROVE  \E m \in Message : m.kind \notin EventKind /\ m.state = tracker.state /\ Send(m)
  <2>1. Failure(k) \in Message
    BY FailureType
  <2>2. Failure(k).kind \notin EventKind /\ Failure(k).state = tracker.state
    BY DEF Failure, FailureKind, EventKind
  <2> QED BY <1>3, <2>1, <2>2
<1>4. CASE MonitorRejects \/ MonitorDecodeFailure \/ MonitorReadFailure \/ DrainStderrFailure
  <2>1. UNCHANGED tracker /\ \E k \in FailureKind : Send(Failure(k))
    BY <1>4 DEF MonitorRejects, MonitorDecodeFailure, MonitorReadFailure, DrainStderrFailure,
                FailureKind
  <2> QED BY <1>2, <1>3, <2>1
<1>5. CASE MonitorEof
  <2> DEFINE m == [kind |-> "ended", state |-> tracker.state, pid |-> NoPid]
  <2>1. m \in Message /\ m.kind \notin EventKind /\ m.state = tracker.state
    BY DEF TypeOK, Tracker, Message, EventKind
  <2>2. Send(m) /\ UNCHANGED tracker
    BY <1>5 DEF MonitorEof
  <2> QED BY <1>2, <2>1, <2>2
<1>6. CASE DrainStderrEof
  BY <1>6 DEF DrainStderrEof
<1> QED BY <1>1, <1>4, <1>5, <1>6 DEF Monitor, MonitorReads, DrainStderr

(* A step of the owner takes the first message, or leaves the stream.        *)
LEMMA OwnerTakes ==
  ASSUME [Next]_vars, ~(Monitor \/ DrainStderr)
  PROVE  /\ UNCHANGED tracker
         /\ \/ pc # "gone" /\ channel # <<>> /\ Apply(Head(channel))
            \/ UNCHANGED <<monitor_state, stdout_ended, channel>>
<1>1. CASE Environment \/ ThreadPanics \/ Done \/ UNCHANGED vars
  BY <1>1 DEF Environment, Spawn, Exit, Bind, Release, ConsumeToken, AddForeign,
              RemoveForeign, Write, CloseStdout, ThreadPanics, Done, vars
<1>2. CASE Launch
  BY <1>2 DEF Launch, CreateSession, WriteTokenFile, LaunchProcess, StartMonitors, SpawnedTerminate,
              SpawnedEmpty, SpawnedJoin, DiscardSession
<1>3. CASE WaitUntilReady
  BY <1>3 DEF WaitUntilReady, WaitAlive, RecvTimeout, RecvDisconnected, RecvMessage, ProcessesAlive,
              StartupDrain, DrainFails, DrainContinues, DrainEnds, ListenVerify, ListenVerifyIpv6, ProbeSucceeds,
              ProbeRetry, RecvDeadline, ListenGiveUp, ProbeDeadline
<1>4. CASE Abort
  BY <1>4 DEF Abort, AbortTerminate, AbortEmpty, Join, AbortDrain, DrainContinues, DrainEnds,
              AbortClean, AbortReturn
<1>5. CASE Shutdown
  BY <1>5 DEF Shutdown, StopDrain, StopObserve, StopDeadline, ForceTerminate, ForceEmpty,
              FinishQuery, Join, FinishDrain, DrainFails, DrainContinues, DrainEnds, FinishClean
<1>6. CASE PollDrain \/ PollCheck \/ Call
  BY <1>6 DEF PollDrain, DrainFails, DrainContinues, DrainEnds, PollCheck, Call, CallPollHealth,
              CallShutdown, CallForceShutdown, CallRetryPrivateCleanup, CallOnCleaned, CallDrop
<1> QED BY <1>1, <1>2, <1>3, <1>4, <1>5, <1>6 DEF Next, OwnerStep

(* A value that is gone stays gone.                                          *)
LEMMA GoneStays == [Next]_vars /\ pc = "gone" => pc' = "gone"
<1> SUFFICES ASSUME [Next]_vars, pc = "gone" PROVE pc' = "gone" OBVIOUS
<1>1. CASE \/ Environment \/ Monitor \/ DrainStderr \/ ThreadPanics \/ Done \/ UNCHANGED vars
  BY <1>1 DEF Environment, Spawn, Exit, Bind, Release, ConsumeToken, AddForeign,
              RemoveForeign, Write, CloseStdout, Monitor, MonitorReads, MonitorEvent, MonitorRejects,
              MonitorDecodeFailure, MonitorReadFailure, MonitorEof, DrainStderr, DrainStderrEof,
              DrainStderrFailure, ThreadPanics, Done, vars
<1>2. ~Launch /\ ~WaitUntilReady
  BY DEF Launch, CreateSession, WriteTokenFile, LaunchProcess, StartMonitors, SpawnedTerminate,
         SpawnedEmpty, SpawnedJoin, DiscardSession, WaitUntilReady, WaitAlive, RecvTimeout,
         RecvDisconnected, RecvMessage, ProcessesAlive, StartupDrain, ListenVerify, ListenVerifyIpv6, ProbeSucceeds,
         ProbeRetry, RecvDeadline, ListenGiveUp, ProbeDeadline
<1>3. ~Abort /\ ~Shutdown
  BY DEF Abort, AbortTerminate, AbortEmpty, Join, AbortDrain, AbortClean, AbortReturn, Shutdown,
         StopDrain, StopObserve, StopDeadline, ForceTerminate, ForceEmpty, FinishQuery, FinishDrain,
         FinishClean
<1>4. ~PollDrain /\ ~PollCheck /\ ~Call
  BY DEF PollDrain, PollCheck, Call, CallPollHealth, CallShutdown, CallForceShutdown,
         CallRetryPrivateCleanup, CallOnCleaned, CallDrop
<1> QED BY <1>1, <1>2, <1>3, <1>4 DEF Next, OwnerStep

(* The threads touch neither the owner's copy nor its control.               *)
LEMMA ThreadFrame ==
  Monitor \/ DrainStderr \/ ThreadPanics =>
    UNCHANGED <<ownerVars, callVars, diskVars, jobVars>>
BY DEF Monitor, MonitorReads, MonitorEvent, MonitorRejects, MonitorDecodeFailure, MonitorReadFailure,
       MonitorEof, DrainStderr, DrainStderrEof, DrainStderrFailure, ThreadPanics

LEMMA StreamKept == TypeOK /\ Stream /\ [Next]_vars => Stream'
<1> SUFFICES ASSUME TypeOK, Stream, [Next]_vars, pc' # "gone" PROVE Stream'
  BY DEF Stream
<1>1. pc # "gone"
  BY GoneStays
<1>2. ASSUME UNCHANGED <<monitor_state, tracker, channel>> PROVE Stream'
  BY <1>1, <1>2 DEF Stream, StateBefore, StateSent
<1>3. CASE Monitor \/ DrainStderr
  <2>1. UNCHANGED <<monitor_state, pc>>
    BY <1>3, ThreadFrame
  <2> QED BY <1>1, <1>2, <1>3, <2>1, ThreadSends, StreamSend
<1>4. CASE ~(Monitor \/ DrainStderr)
  BY <1>1, <1>2, <1>4, OwnerTakes, StreamApply
<1> QED BY <1>3, <1>4

(* The channel carries the launcher's protocol, as far as it was written.    *)
THEOREM StreamCorrect == Spec => []Stream
<1>1. Init => Stream
  BY DEF Init, Stream, StateSent, NewTracker
<1> QED BY <1>1, StreamKept, TypeCorrect, PTL DEF Spec

(***************************************************************************)
(* The owner's view of the launcher moves along single edges of the          *)
(* protocol, whatever the launcher writes and however it is read: nothing is *)
(* lost, repeated or reordered on the way through two threads and a channel. *)
(***************************************************************************)
THEOREM MonitorFollowsProtocolCorrect == Spec => MonitorFollowsProtocol
<1>1. TypeOK /\ Stream /\ [Next]_vars =>
        [monitor_state' # monitor_state =>
           <<monitor_state, monitor_state'>> \in ProtocolEdges]_vars
  <2> SUFFICES ASSUME TypeOK, Stream, [Next]_vars, monitor_state' # monitor_state
               PROVE  <<monitor_state, monitor_state'>> \in ProtocolEdges
    OBVIOUS
  <2>1. ~(Monitor \/ DrainStderr)
    BY ThreadFrame
  <2>2. pc # "gone" /\ channel # <<>> /\ Apply(Head(channel)) /\ UNCHANGED tracker
    BY <2>1, OwnerTakes
  <2>3. MessageFits(monitor_state, Head(channel)) /\ monitor_state' = Head(channel).state
    BY <2>2, StreamApply
  <2> QED BY <2>3 DEF MessageFits
<1> QED BY <1>1, StreamCorrect, TypeCorrect, PTL DEF Spec, MonitorFollowsProtocol

-------------------------------------------------------------------------------
(* What the readiness gates have established at each control point.          *)

(* The control points after capture_job_member.                              *)
CapturedPc == {"listenAlive", "listenDrain", "listenVerify", "foundIpv6", "missingIpv6",
               "probeAlive", "probeDrain", "probe"}

(* Only a Job that was given its interpreter has members.                    *)
Spawned ==
  /\ live \subseteq spawned
  /\ pc = "create" => ~dir
  /\ pc \in {"create", "token", "command"} => spawned = {}
  /\ process \/ owner_state # "none" => spawned # {}

(* The `listening` event carries the id that `starting` has bound.           *)
Announced ==
  pc # "gone" =>
    /\ tracker.state = "AwaitingStart" =>
         \A i \in 1..Len(channel) : channel[i].kind \notin EventKind
    /\ \A i \in 1..Len(channel) : channel[i].kind = "listening" => channel[i].pid = tracker.pid

Gates ==
  /\ pc \in LaunchPc \cup ReadyPc => ~stdout_ended
  /\ pc \in CapturedPc =>
       /\ TokenConsumed /\ runtime \in spawned /\ runtime = tracker.pid
       /\ tracker.state # "AwaitingStart" /\ monitor_state = "Listening"

(***************************************************************************)
(* What is left of the sockets the listener check looked at: after the IPv4  *)
(* table only the runtime's own, and those of the IPv6 table, which the next *)
(* look excludes.                                                            *)
(***************************************************************************)
OfRuntime(s) == s.owner = runtime /\ s.address = "loopback"

PortGate ==
  /\ checked \subseteq listeners
  /\ pc = "foundIpv6" => \A s \in checked : s.address = "ipv6" \/ OfRuntime(s)
  /\ pc \in {"probeAlive", "probeDrain", "probe"} => \A s \in checked : OfRuntime(s)

(* What the running shutdown has established, and what its report keeps.     *)
Reported ==
  /\ pc \in {"forceTerminate", "forceEmpty"} => kind = "Forced"
  /\ pc \in {"finishQuery", "finishJoin", "finishDrain", "finishClean"} /\ kind = "Graceful" =>
       monitor_state = "Stopped"
  /\ pc = "finishClean" /\ kind = "Graceful" /\ ~first_error => channel = <<>>
  /\ last \in {"Graceful", "Forced"} => pc = "idle" /\ owner_state = "Cleaned"
  /\ last = "Graceful" => monitor_state = "Stopped" /\ channel = <<>>

(* Members of the Job come and go, but were all created in it.               *)
LEMMA SpawnedKept == TypeOK /\ Control /\ Spawned /\ [Next]_vars => Spawned'
<1> SUFFICES ASSUME TypeOK, Control, Spawned, [Next]_vars PROVE Spawned' OBVIOUS
<1> USE DEF Spawned
<1>1. ASSUME NEW p \in Members, Spawn(p) \/ Exit(p) PROVE Spawned'
  BY <1>1 DEF Spawn, Exit
<1>2. ASSUME UNCHANGED <<live, spawned, pc, process, owner_state>>, dir' = dir PROVE Spawned'
  BY <1>2
<1>3. CASE Environment
  BY <1>1, <1>2, <1>3 DEF Environment, Bind, Release, ConsumeToken, AddForeign,
              RemoveForeign, Write, CloseStdout
<1>4. CASE Monitor \/ DrainStderr \/ ThreadPanics
  BY <1>2, <1>4, ThreadFrame
<1>5. CASE Launch
  BY <1>5 DEF Launch, CreateSession, WriteTokenFile, LaunchProcess, StartMonitors, SpawnedTerminate,
              SpawnedEmpty, SpawnedJoin, DiscardSession, Control, HandlesAt
<1>6. CASE WaitUntilReady
  <2>1. /\ UNCHANGED <<live, spawned, process, dir>> /\ owner_state' \in {owner_state, "Ready"}
        /\ pc \in ReadyPc /\ pc' \notin {"create", "token", "command"}
    BY <1>6 DEF WaitUntilReady, WaitAlive, RecvTimeout, RecvDisconnected, RecvMessage, ProcessesAlive,
              StartupDrain, ListenVerify, ListenVerifyIpv6, ProbeSucceeds, ProbeRetry, RecvDeadline, ListenGiveUp,
              ProbeDeadline, ReadyPc
  <2>2. process
    BY <2>1 DEF Control, StateAt, HandlesAt
  <2> QED BY <2>1, <2>2
<1>7. CASE Abort \/ Shutdown \/ PollDrain \/ PollCheck \/ Call
  <2>1. UNCHANGED <<live, spawned>> /\ (process' => process)
        /\ pc' \notin {"create", "token", "command"} /\ pc \notin LaunchPc \cup {"gone"}
    <3>1. CASE Abort
      BY <3>1 DEF Abort, AbortTerminate, AbortEmpty, Join, AbortDrain, AbortClean, AbortReturn, LaunchPc
    <3>2. CASE \/ StopDrain \/ StopObserve \/ StopDeadline \/ ForceTerminate \/ ForceEmpty
      <4>1. UNCHANGED <<live, spawned, process>>
        BY <3>2 DEF StopDrain, StopObserve, StopDeadline, ForceTerminate, ForceEmpty
      <4>2. /\ pc \in {"stopDrain", "stopObserve", "forceTerminate", "forceEmpty"}
            /\ pc' \in {"stopDrain", "stopObserve", "forceTerminate", "forceEmpty", "finishQuery",
                        "idle"}
        BY <3>2 DEF StopDrain, StopObserve, StopDeadline, ForceTerminate, ForceEmpty, Return
      <4> QED BY <4>1, <4>2 DEF LaunchPc
    <3>3. CASE FinishQuery \/ Join("finishJoin", "finishDrain") \/ FinishDrain \/ FinishClean
      BY <3>3 DEF FinishQuery, Join, FinishDrain, FinishClean, Return, LaunchPc
    <3>4. CASE PollDrain \/ PollCheck \/ CallPollHealth \/ CallOnCleaned \/ CallDrop
      <4>1. UNCHANGED <<live, spawned, process>>
        BY <3>4 DEF PollDrain, PollCheck, CallPollHealth, CallOnCleaned, CallDrop
      <4>2. /\ pc \in {"pollDrain", "pollCheck", "idle"}
            /\ pc' \in {"pollDrain", "pollCheck", "idle", "gone", "abortTerminate"}
        BY <3>4 DEF PollDrain, PollCheck, CallPollHealth, CallOnCleaned, CallDrop
      <4> QED BY <4>1, <4>2 DEF LaunchPc
    <3>5. CASE CallShutdown \/ CallForceShutdown \/ CallRetryPrivateCleanup
      <4>1. UNCHANGED <<live, spawned, process>> /\ pc = "idle"
        BY <3>5 DEF CallShutdown, CallForceShutdown, CallRetryPrivateCleanup
      <4>2. pc' \in {"stopDrain", "forceTerminate", "idle"}
        BY <3>5 DEF CallShutdown, CallForceShutdown, CallRetryPrivateCleanup
      <4> QED BY <4>1, <4>2 DEF LaunchPc
    <3> QED BY <1>7, <3>1, <3>2, <3>3, <3>4, <3>5 DEF Shutdown, Call
  <2>2. owner_state # "none"
    BY <2>1 DEF Control, StateAt, TypeOK, PcValues, LaunchPc, ReadyPc, AbortPc, ShutdownPc, PollPc
  <2>3. spawned # {}
    BY <2>2
  <2> QED BY <2>1, <2>3
<1>8. CASE Done \/ UNCHANGED vars
  BY <1>2, <1>8 DEF Done, vars
<1> QED BY <1>3, <1>4, <1>5, <1>6, <1>7, <1>8 DEF Next, OwnerStep

LEMMA AnnouncedKept == TypeOK /\ Announced /\ [Next]_vars => Announced'
<1> SUFFICES ASSUME TypeOK, Announced, [Next]_vars, pc' # "gone" PROVE Announced'
  BY DEF Announced
<1>1. pc # "gone"
  BY GoneStays
<1>2. channel \in Seq(Message) /\ Len(channel) \in Nat
  BY DEF TypeOK
<1>3. ASSUME UNCHANGED <<tracker, channel>> PROVE Announced'
  BY <1>1, <1>3 DEF Announced
<1>4. CASE Monitor \/ DrainStderr
  <2>1. ASSUME NEW m \in Message,
               /\ channel' = Append(channel, m)
               /\ m.kind = "listening" => m.pid = tracker.pid
               /\ m.kind = "listening" => tracker.state # "AwaitingStart"
               /\ m.kind \in EventKind => tracker'.state # "AwaitingStart"
               /\ tracker.state # "AwaitingStart" =>
                    tracker'.pid = tracker.pid /\ tracker'.state # "AwaitingStart"
        PROVE  Announced'
    <3>1. /\ Len(channel') = Len(channel) + 1 /\ channel'[Len(channel) + 1] = m
          /\ \A i \in 1..Len(channel) : channel'[i] = channel[i]
      BY <1>2, <2>1
    <3>2. CASE tracker.state = "AwaitingStart"
      <4>1. \A i \in 1..Len(channel) : channel[i].kind \notin EventKind
        BY <1>1, <3>2 DEF Announced
      <4>2. m.kind # "listening"
        BY <2>1, <3>2
      <4>3. "listening" \in EventKind
        BY DEF EventKind
      <4>4. ASSUME NEW i \in 1..Len(channel') PROVE channel'[i].kind # "listening"
        BY <1>2, <3>1, <4>1, <4>2, <4>3
      <4>5. ASSUME tracker'.state = "AwaitingStart", NEW i \in 1..Len(channel')
            PROVE  channel'[i].kind \notin EventKind
        BY <1>2, <2>1, <3>1, <4>1, <4>5
      <4> QED BY <4>4, <4>5 DEF Announced
    <3>3. CASE tracker.state # "AwaitingStart"
      <4>1. tracker'.pid = tracker.pid /\ tracker'.state # "AwaitingStart"
        BY <2>1, <3>3
      <4>2. ASSUME NEW i \in 1..Len(channel'), channel'[i].kind = "listening"
            PROVE  channel'[i].pid = tracker.pid
        <5>1. CASE i = Len(channel) + 1
          BY <2>1, <3>1, <4>2, <5>1
        <5>2. CASE i \in 1..Len(channel)
          BY <1>1, <3>1, <4>2, <5>2 DEF Announced
        <5> QED BY <1>2, <3>1, <5>1, <5>2
      <4> QED BY <4>1, <4>2 DEF Announced
    <3> QED BY <3>2, <3>3
  <2> QED BY <1>1, <1>3, <1>4, <2>1, ThreadSends
<1>5. CASE ~(Monitor \/ DrainStderr)
  <2>1. CASE UNCHANGED channel
    BY <1>3, <1>5, <2>1, OwnerTakes
  <2>2. CASE channel # <<>> /\ Apply(Head(channel))
    <3>1. channel' = Tail(channel) /\ UNCHANGED tracker
      BY <1>5, <2>2, OwnerTakes DEF Apply
    <3>2. ASSUME NEW i \in 1..Len(channel')
          PROVE  i + 1 \in 1..Len(channel) /\ channel'[i] = channel[i + 1]
      BY <1>2, <2>2, <3>1
    <3> QED BY <1>1, <3>1, <3>2 DEF Announced
  <2> QED BY <1>5, <2>1, <2>2, OwnerTakes
<1> QED BY <1>4, <1>5

(* The machine cannot take back what a gate has seen: a captured runtime was *)
(* a member of the Job, and no token comes back.                             *)
LEMMA EnvironmentGates ==
  ASSUME TypeOK, Spawned, Gates, Environment
  PROVE  Gates'
<1> USE DEF Gates, TokenConsumed
<1>1. UNCHANGED <<pc, stdout_ended, runtime, tracker, monitor_state>>
  BY DEF Environment, Spawn, Exit, Bind, Release, ConsumeToken, AddForeign, RemoveForeign,
         Write, CloseStdout
<1>2. pc \in CapturedPc => "token" \notin files'
  BY ForeignAssumption DEF Environment, Spawn, Exit, Bind, Release, ConsumeToken,
       AddForeign, RemoveForeign, Write, CloseStdout, Known
<1>3. spawned \subseteq spawned'
  BY DEF Environment, Spawn, Exit, Bind, Release, ConsumeToken, AddForeign, RemoveForeign,
         Write, CloseStdout
<1> QED BY <1>1, <1>2, <1>3

(* Waiting for readiness passes the gates in order; a message that would     *)
(* leave Listening ends the startup.                                         *)
LEMMA ReadyGatesKept ==
  ASSUME TypeOK, Control, Stream, Spawned, Announced, Gates, WaitUntilReady
  PROVE  Gates'
<1> USE DEF CapturedPc, TokenConsumed
<1>1. pc \in ReadyPc /\ owner_state = "Starting" /\ pc # "gone" /\ ~stdout_ended
  BY DEF WaitUntilReady, WaitAlive, RecvTimeout, RecvDisconnected, RecvMessage, ProcessesAlive,
         StartupDrain, ListenVerify, ListenVerifyIpv6, ProbeSucceeds, ProbeRetry, RecvDeadline, ListenGiveUp,
         ProbeDeadline, ReadyPc, Control, StateAt, Gates
<1>2. ASSUME UNCHANGED <<monitor_state, stdout_ended, channel, tracker, files, spawned, runtime>>,
             pc' \in CapturedPc => pc \in CapturedPc
      PROVE  Gates'
  BY <1>1, <1>2 DEF Gates
<1>3. CASE WaitAlive \/ RecvTimeout \/ RecvDisconnected \/ RecvDeadline
  BY <1>2, <1>3 DEF WaitAlive, RecvTimeout, RecvDisconnected, RecvDeadline
<1>4. CASE \/ ProcessesAlive("listenAlive", "listenDrain")
           \/ ProcessesAlive("probeAlive", "probeDrain")
  BY <1>2, <1>4 DEF ProcessesAlive
<1>5. CASE ListenVerify \/ ListenVerifyIpv6 \/ ListenGiveUp
  BY <1>2, <1>5 DEF ListenVerify, ListenVerifyIpv6, ListenGiveUp
<1>6. CASE ProbeSucceeds \/ ProbeRetry \/ ProbeDeadline
  BY <1>2, <1>6 DEF ProbeSucceeds, ProbeRetry, ProbeDeadline
<1>7. CASE RecvMessage
  <2> DEFINE m == Head(channel)
  <2>1. /\ pc = "recv" /\ channel # <<>> /\ Apply(m)
        /\ UNCHANGED <<tracker, files, spawned, live>>
    BY <1>7 DEF RecvMessage
  <2>2. m = channel[1] /\ 1 \in 1..Len(channel)
    BY <2>1 DEF TypeOK
  <2>3. MessageFits(monitor_state, m) /\ monitor_state' = m.state
    BY <1>1, <2>1, StreamApply
  <2>4. CASE m.kind = "starting" /\ pc' = "wait"
    <3>1. ~stdout_ended'
      BY <1>1, <2>1, <2>4 DEF Apply
    <3> QED BY <2>4, <3>1 DEF Gates
  <2>5. CASE m.kind = "listening" /\ TokenConsumed /\ m.pid \in live /\ pc' = "listenAlive"
             /\ runtime' = m.pid
    <3>1. ~stdout_ended'
      BY <1>1, <2>1, <2>5 DEF Apply
    <3>2. m.kind \in EventKind /\ m.state = "Listening"
      BY <2>3, <2>5 DEF EventKind, MessageFits, StateAfter
    <3>3. m.pid = tracker.pid /\ tracker.state # "AwaitingStart"
      BY <1>1, <2>2, <2>5, <3>2 DEF Announced
    <3>4. m.pid \in spawned
      BY <2>5 DEF Spawned
    <3> QED BY <2>1, <2>3, <2>5, <3>1, <3>2, <3>3, <3>4 DEF Gates
  <2>6. CASE pc' = "abortTerminate"
    BY <2>6 DEF Gates, LaunchPc, ReadyPc
  <2> QED BY <1>7, <2>4, <2>5, <2>6 DEF RecvMessage, CaptureJobMember
<1>8. CASE \/ StartupDrain("listenDrain", "listenVerify")
           \/ StartupDrain("probeDrain", "probe")
  <2>1. /\ UNCHANGED <<tracker, files, spawned, live, runtime>>
        /\ pc \in {"listenDrain", "probeDrain"}
        /\ \/ pc' = "abortTerminate"
           \/ DrainContinues(TRUE)
           \/ DrainEnds(TRUE) /\ pc = "listenDrain" /\ pc' = "listenVerify"
           \/ DrainEnds(TRUE) /\ pc = "probeDrain" /\ pc' = "probe"
    <3>1. CASE StartupDrain("listenDrain", "listenVerify")
      BY <3>1 DEF StartupDrain
    <3>2. CASE StartupDrain("probeDrain", "probe")
      BY <3>2 DEF StartupDrain
    <3> QED BY <1>8, <3>1, <3>2
  <2>2. ~DrainContinues(TRUE)
    <3> SUFFICES ASSUME DrainContinues(TRUE) PROVE FALSE OBVIOUS
    <3> DEFINE m == Head(channel)
    <3>1. channel # <<>> /\ ~Refused(m) /\ Apply(m) /\ m \in Message
      BY DEF DrainContinues, TypeOK
    <3>2. m.kind \in {"starting", "listening"}
      BY <1>1, <3>1 DEF Refused, Message, EventKind, FailureKind
    <3>3. MessageFits("Listening", m)
      BY <1>1, <2>1, <3>1, StreamApply DEF Gates
    <3>4. m.state \in {"Starting", "Listening"} /\ <<"Listening", m.state>> \in ProtocolEdges
      BY <3>2, <3>3 DEF MessageFits, EventKind, StateAfter
    <3>5. <<"Listening", "Starting">> \notin ProtocolEdges
          /\ <<"Listening", "Listening">> \notin ProtocolEdges
      BY DEF ProtocolEdges
    <3> QED BY <3>4, <3>5
  <2>3. CASE pc' = "abortTerminate"
    BY <2>3 DEF Gates, LaunchPc, ReadyPc
  <2>4. CASE DrainEnds(TRUE)
    BY <1>2, <2>1, <2>2, <2>3, <2>4 DEF DrainEnds
  <2> QED BY <2>1, <2>2, <2>3, <2>4
<1> QED BY <1>3, <1>4, <1>5, <1>6, <1>7, <1>8 DEF WaitUntilReady

(* The control points before an owner becomes ready are not returned to.     *)
LEMMA StartupLeft ==
  ASSUME Abort \/ Shutdown \/ PollDrain \/ PollCheck \/ Call
  PROVE  pc' \notin LaunchPc \cup ReadyPc
<1> USE DEF LaunchPc, ReadyPc
<1>1. CASE Abort
  BY <1>1 DEF Abort, AbortTerminate, AbortEmpty, Join, AbortDrain, AbortClean, AbortReturn
<1>2. CASE Shutdown
  BY <1>2 DEF Shutdown, StopDrain, StopObserve, StopDeadline, ForceTerminate, ForceEmpty, FinishQuery,
              Join, FinishDrain, FinishClean, Return
<1>3. CASE PollDrain \/ PollCheck
  BY <1>3 DEF PollDrain, PollCheck
<1>4. CASE Call
  BY <1>4 DEF Call, CallPollHealth, CallShutdown, CallForceShutdown, CallRetryPrivateCleanup,
              CallOnCleaned, CallDrop
<1> QED BY <1>1, <1>2, <1>3, <1>4

LEMMA GatesKept ==
  TypeOK /\ Control /\ Stream /\ Spawned /\ Announced /\ Gates /\ [Next]_vars => Gates'
<1> SUFFICES ASSUME TypeOK, Control, Stream, Spawned, Announced, Gates, [Next]_vars PROVE Gates'
  OBVIOUS
<1>1. CASE Monitor \/ DrainStderr \/ ThreadPanics
  <2>1. UNCHANGED <<ownerVars, callVars, diskVars, jobVars>>
    BY <1>1, ThreadFrame
  <2>2. pc \in CapturedPc => tracker'.pid = tracker.pid /\ tracker'.state # "AwaitingStart"
    <3> SUFFICES ASSUME pc \in CapturedPc
                 PROVE  tracker'.pid = tracker.pid /\ tracker'.state # "AwaitingStart"
      OBVIOUS
    <3>1. pc # "gone" /\ tracker.state # "AwaitingStart"
      BY DEF Gates, CapturedPc
    <3>2. CASE ThreadPanics
      BY <3>1, <3>2 DEF ThreadPanics
    <3>3. CASE Monitor \/ DrainStderr
      BY <3>1, <3>3, ThreadSends
    <3> QED BY <1>1, <3>2, <3>3
  <2> QED BY <2>1, <2>2 DEF Gates, TokenConsumed
<1>2. CASE Launch
  <2>1. /\ UNCHANGED stdout_ended /\ pc \in LaunchPc
        /\ pc' \notin CapturedPc
    BY <1>2 DEF Launch, CreateSession, WriteTokenFile, LaunchProcess, StartMonitors, SpawnedTerminate,
              SpawnedEmpty, SpawnedJoin, DiscardSession, LaunchPc, CapturedPc
  <2> QED BY <2>1 DEF Gates, CapturedPc
<1>3. CASE Abort \/ Shutdown \/ PollDrain \/ PollCheck \/ Call
  BY <1>3, StartupLeft DEF Gates, CapturedPc, ReadyPc
<1>4. CASE Done \/ UNCHANGED vars
  BY <1>4 DEF Done, vars, Gates, TokenConsumed
<1> QED BY <1>1, <1>2, <1>3, <1>4, EnvironmentGates, ReadyGatesKept DEF Next, OwnerStep

(* A socket on the port that the owner did not see cannot be one that was    *)
(* there before it looked.                                                   *)
LEMMA PortGateKept == TypeOK /\ PortGate /\ [Next]_vars => PortGate'
<1> SUFFICES ASSUME TypeOK, PortGate, [Next]_vars PROVE PortGate' OBVIOUS
<1> USE DEF PortGate, OfRuntime
<1>1. ASSUME UNCHANGED <<pc, runtime>>, listeners \subseteq listeners', checked' = checked
      PROVE  PortGate'
  BY <1>1
<1>2. ASSUME NEW closed, UNCHANGED <<pc, runtime>>, Close(closed) PROVE PortGate'
  BY <1>2 DEF Close
<1>3. CASE Environment
  <2>1. ASSUME NEW p \in Members, Exit(p) PROVE PortGate'
    BY <1>2, <2>1 DEF Exit
  <2>2. ASSUME NEW s \in Sockets, Release(s) PROVE PortGate'
    BY <1>2, <2>2 DEF Release
  <2>3. ASSUME NEW s \in Sockets, Bind(s) PROVE PortGate'
    BY <1>1, <2>3 DEF Bind
  <2>4. ASSUME NEW p \in Members, Spawn(p) PROVE PortGate'
    BY <1>1, <2>4 DEF Spawn
  <2>5. CASE ConsumeToken \/ CloseStdout \/ (\E line \in Lines : Write(line))
             \/ (\E leaf \in Foreign : AddForeign(leaf) \/ RemoveForeign(leaf))
    BY <1>1, <2>5 DEF ConsumeToken, CloseStdout, Write, AddForeign, RemoveForeign
  <2> QED BY <1>3, <2>1, <2>2, <2>3, <2>4, <2>5 DEF Environment
<1>4. CASE Monitor \/ DrainStderr \/ ThreadPanics
  BY <1>1, <1>4, ThreadFrame
<1>5. CASE Launch
  <2>1. UNCHANGED portVars /\ pc' \notin ReadyPc \ {"wait"}
    BY <1>5 DEF Launch, CreateSession, WriteTokenFile, LaunchProcess, StartMonitors, SpawnedTerminate,
              SpawnedEmpty, SpawnedJoin, DiscardSession, ReadyPc
  <2> QED BY <2>1 DEF ReadyPc
<1>6. CASE ListenVerify
  BY <1>6 DEF ListenVerify, Exact, Ipv4Rows
<1>7. CASE ListenVerifyIpv6
  BY <1>7 DEF ListenVerifyIpv6, Ipv6Rows
<1>8. CASE ProbeSucceeds
  BY <1>8 DEF ProbeSucceeds, ForgetPort
<1>9. CASE \/ WaitAlive \/ RecvTimeout \/ RecvDisconnected \/ RecvDeadline \/ RecvMessage
           \/ ProcessesAlive("listenAlive", "listenDrain")
           \/ StartupDrain("listenDrain", "listenVerify") \/ ListenGiveUp \/ ProbeDeadline
  <2>1. UNCHANGED portVars
        /\ pc' \in {"wait", "recv", "listenAlive", "listenDrain", "listenVerify", "abortTerminate"}
    BY <1>9 DEF WaitAlive, RecvTimeout, RecvDisconnected, RecvDeadline, RecvMessage, ProcessesAlive,
                StartupDrain, ListenGiveUp, ProbeDeadline
  <2> QED BY <2>1
<1>10. CASE ProcessesAlive("probeAlive", "probeDrain") \/ StartupDrain("probeDrain", "probe")
            \/ ProbeRetry
  <2>1. UNCHANGED <<portVars, runtime>> /\ pc \in {"probeAlive", "probeDrain", "probe"}
        /\ pc' \in {"probeAlive", "probeDrain", "probe", "abortTerminate"}
    BY <1>10 DEF ProcessesAlive, StartupDrain, ProbeRetry
  <2> QED BY <2>1
<1>11. CASE Abort \/ Shutdown \/ PollDrain \/ PollCheck \/ Call
  <2>1. pc' \notin LaunchPc \cup ReadyPc
    BY <1>11, StartupLeft
  <2>2. UNCHANGED portVars \/ ForgetPort
    BY <1>11 DEF Abort, AbortTerminate, AbortEmpty, Join, AbortDrain, AbortClean, AbortReturn,
           Shutdown, StopDrain, StopObserve, StopDeadline, ForceTerminate, ForceEmpty, FinishQuery,
           FinishDrain, FinishClean, PollDrain, PollCheck, Call, CallPollHealth, CallShutdown,
           CallForceShutdown, CallRetryPrivateCleanup, CallOnCleaned, CallDrop
  <2> QED BY <2>1, <2>2 DEF ForgetPort, ReadyPc
<1>12. CASE Done \/ UNCHANGED vars
  BY <1>1, <1>12 DEF Done, vars
<1> QED BY <1>3, <1>4, <1>5, <1>6, <1>7, <1>8, <1>9, <1>10, <1>11, <1>12
        DEF Next, OwnerStep, WaitUntilReady

(* Only an answered probe makes an owner Ready.                              *)
LEMMA ReadyByProbe ==
  ASSUME TypeOK, [Next]_vars, owner_state' = "Ready", owner_state # "Ready"
  PROVE  pc = "probe"
<1>1. CASE Environment \/ Done \/ UNCHANGED vars
  BY <1>1 DEF Environment, Spawn, Exit, Bind, Release, ConsumeToken, AddForeign,
              RemoveForeign, Write, CloseStdout, Done, vars
<1>2. CASE Monitor \/ DrainStderr \/ ThreadPanics
  BY <1>2, ThreadFrame
<1>3. CASE Launch
  BY <1>3 DEF Launch, CreateSession, WriteTokenFile, LaunchProcess, StartMonitors, SpawnedTerminate,
              SpawnedEmpty, SpawnedJoin, DiscardSession
<1>4. CASE WaitUntilReady
  BY <1>4 DEF WaitUntilReady, WaitAlive, RecvTimeout, RecvDisconnected, RecvMessage, ProcessesAlive,
              StartupDrain, ListenVerify, ListenVerifyIpv6, ProbeSucceeds, ProbeRetry, RecvDeadline, ListenGiveUp,
              ProbeDeadline
<1>5. CASE AbortClean \/ FinishClean
  BY <1>5, RemoveSessionEffect DEF AbortClean, FinishClean
<1>6. CASE Abort /\ ~AbortClean
  BY <1>6 DEF Abort, AbortTerminate, AbortEmpty, Join, AbortDrain, AbortReturn
<1>7. CASE Shutdown /\ ~FinishClean
  BY <1>7 DEF Shutdown, StopDrain, StopObserve, StopDeadline, ForceTerminate, ForceEmpty, FinishQuery,
              Join, FinishDrain
<1>8. CASE CallRetryPrivateCleanup
  BY <1>8, RemoveSessionEffect DEF CallRetryPrivateCleanup
<1>9. CASE \/ PollDrain \/ PollCheck \/ CallPollHealth \/ CallShutdown \/ CallForceShutdown
           \/ CallOnCleaned \/ CallDrop
  BY <1>9 DEF PollDrain, PollCheck, CallPollHealth, CallShutdown, CallForceShutdown, CallOnCleaned,
              CallDrop
<1> QED BY <1>1, <1>2, <1>3, <1>4, <1>5, <1>6, <1>7, <1>8, <1>9 DEF Next, OwnerStep, Call

GateInv == Spawned /\ Announced /\ Gates /\ PortGate

(***************************************************************************)
(* The gates of readiness hold together: from capture_job_member on, the     *)
(* token is consumed, the captured runtime is the member of the Job that     *)
(* `starting` announced, no message in the channel announces another one,    *)
(* and no socket the listener check should have refused is still open.       *)
(***************************************************************************)
THEOREM GatesCorrect == Spec => []GateInv
<1>1. Init => GateInv
  BY DEF Init, GateInv, Spawned, Announced, Gates, PortGate, CapturedPc
<1>2. TypeOK /\ Control /\ Stream /\ GateInv /\ [Next]_vars => GateInv'
  BY SpawnedKept, AnnouncedKept, GatesKept, PortGateKept DEF GateInv
<1> QED BY <1>1, <1>2, TypeCorrect, ControlCorrect, StreamCorrect, PTL DEF Spec

(***************************************************************************)
(* An owner becomes Ready only when every gate still holds, although each    *)
(* was passed at a time of its own: the token is consumed, the runtime is    *)
(* the announced member of the Job, the launcher has said no more than       *)
(* `listening`, and any other socket on the port was opened after the        *)
(* listener check looked.                                                    *)
(***************************************************************************)
THEOREM ReadyGatesCorrect == Spec => ReadyGates
<1> DEFINE Open ==
      /\ TokenConsumed
      /\ runtime \in spawned /\ runtime = tracker.pid
      /\ monitor_state = "Listening" /\ ~stdout_ended
      /\ \A s \in checked : s.owner = runtime /\ s.address = "loopback"
<1>1. TypeOK /\ GateInv /\ [Next]_vars =>
        [BecomesReady => Open]_vars
  <2> SUFFICES ASSUME TypeOK, GateInv, [Next]_vars, owner_state' = "Ready", owner_state # "Ready"
               PROVE  Open
    BY DEF BecomesReady
  <2>1. pc = "probe"
    BY ReadyByProbe
  <2> QED BY <2>1 DEF GateInv, Gates, PortGate, OfRuntime, CapturedPc, ReadyPc
<1> QED BY <1>1, TypeCorrect, GatesCorrect, PTL DEF Spec, ReadyGates

-------------------------------------------------------------------------------
(* The report of a shutdown.                                                 *)

(* Nothing follows `stopped`: what is taken later does not change the state. *)
LEMMA StoppedIsFinal ==
  ASSUME TypeOK, Stream, pc # "gone", monitor_state = "Stopped", [Next]_vars
  PROVE  monitor_state' = "Stopped"
<1>1. CASE Monitor \/ DrainStderr
  BY <1>1, ThreadFrame
<1>2. CASE ~(Monitor \/ DrainStderr) /\ channel # <<>> /\ Apply(Head(channel))
  <2>1. MessageFits("Stopped", Head(channel)) /\ monitor_state' = Head(channel).state
    BY <1>2, OwnerTakes, StreamApply
  <2>2. <<"Stopped", Head(channel).state>> \notin ProtocolEdges
    BY DEF ProtocolEdges, Terminal
  <2> QED BY <2>1, <2>2 DEF MessageFits
<1> QED BY <1>1, <1>2, OwnerTakes

(* Once the threads were joined nobody sends any more.                       *)
LEMMA ChannelQuiet ==
  ASSUME stdout # "running", stderr # "running", channel = <<>>, [Next]_vars
  PROVE  channel' = <<>>
<1>1. ~Monitor /\ ~DrainStderr
  BY DEF Monitor, MonitorReads, MonitorEvent, MonitorRejects, MonitorDecodeFailure, MonitorEof,
         MonitorReadFailure, DrainStderr, DrainStderrEof, DrainStderrFailure
<1> QED BY <1>1, OwnerTakes

FinishPc == {"finishQuery", "finishJoin", "finishDrain", "finishClean"}

LEMMA ReportedKept ==
  TypeOK /\ Control /\ Stream /\ Reported /\ [Next]_vars => Reported'
<1> SUFFICES ASSUME TypeOK, Control, Stream, Reported, [Next]_vars PROVE Reported' OBVIOUS
<1>1. monitor_state = "Stopped" /\ pc # "gone" => monitor_state' = "Stopped"
  BY StoppedIsFinal
<1>2. pc = "finishClean" \/ (pc = "idle" /\ owner_state = "Cleaned") =>
        (channel = <<>> => channel' = <<>>)
  <2> SUFFICES ASSUME pc = "finishClean" \/ (pc = "idle" /\ owner_state = "Cleaned")
               PROVE  channel = <<>> => channel' = <<>>
    OBVIOUS
  <2>1. stdout # "running" /\ stderr # "running"
    BY DEF Control, StateAt, HandlesAt, ThreadsHeld, CleanedIsReleased, ShutdownPc
  <2> QED BY <2>1, ChannelQuiet
<1>3. ASSUME UNCHANGED <<pc, kind, first_error, last, owner_state>> PROVE Reported'
  BY <1>1, <1>2, <1>3 DEF Reported
<1>4. last \in {"Graceful", "Forced"} => pc = "idle" /\ owner_state = "Cleaned"
  BY DEF Reported
<1>5. ASSUME last' \notin {"Graceful", "Forced"},
             pc' \notin {"forceTerminate", "forceEmpty"} \cup FinishPc
      PROVE  Reported'
  BY <1>5 DEF Reported, FinishPc
<1>6. CASE Environment \/ Monitor \/ DrainStderr \/ ThreadPanics \/ Done \/ UNCHANGED vars
  BY <1>3, <1>6, ThreadFrame DEF Environment, Spawn, Exit, Bind, Release, ConsumeToken,
       AddForeign, RemoveForeign, Write, CloseStdout, Done, vars
<1>7. CASE Launch \/ WaitUntilReady
  <2>1. CASE Launch
    BY <1>4, <1>5, <2>1 DEF FinishPc, Launch, CreateSession, WriteTokenFile, LaunchProcess,
         StartMonitors, SpawnedTerminate, SpawnedEmpty, SpawnedJoin, DiscardSession
  <2>2. CASE WaitUntilReady
    BY <1>4, <1>5, <2>2 DEF FinishPc, WaitUntilReady, WaitAlive, RecvTimeout, RecvDisconnected,
         RecvMessage, ProcessesAlive, StartupDrain, ListenVerify, ListenVerifyIpv6, ProbeSucceeds, ProbeRetry,
         RecvDeadline, ListenGiveUp, ProbeDeadline
  <2> QED BY <1>7, <2>1, <2>2
<1>8. CASE Abort
  BY <1>4, <1>5, <1>8 DEF FinishPc, Abort, AbortTerminate, AbortEmpty, Join, AbortDrain, AbortClean,
       AbortReturn
<1>9. CASE PollDrain \/ PollCheck \/ CallPollHealth \/ CallOnCleaned \/ CallDrop
  BY <1>4, <1>5, <1>9 DEF FinishPc, PollDrain, PollCheck, CallPollHealth, CallOnCleaned, CallDrop
<1>10. CASE CallRetryPrivateCleanup
  <2>1. last' \in {"ok", "err"} /\ pc' = "idle"
    BY <1>10 DEF CallRetryPrivateCleanup
  <2> QED BY <1>5, <2>1 DEF FinishPc
<1>11. CASE CallShutdown \/ CallForceShutdown
  <2>1. /\ last' = "none" /\ pc' \in {"stopDrain", "forceTerminate"}
        /\ pc' = "forceTerminate" => kind' = "Forced"
    BY <1>11 DEF CallShutdown, CallForceShutdown
  <2> QED BY <2>1 DEF Reported
<1>12. CASE StopDrain
  <2>1. /\ pc = "stopDrain" /\ last' = last /\ pc' \in {"stopDrain", "stopObserve", "forceTerminate"}
        /\ pc' = "forceTerminate" => kind' = "Forced"
    BY <1>12 DEF StopDrain
  <2> QED BY <1>4, <2>1 DEF Reported
<1>13. CASE StopObserve \/ StopDeadline
  <2>1. pc = "stopObserve" /\ last' \in {last, "err"} /\ UNCHANGED monitor_state
        /\ pc' \in {"stopDrain", "finishQuery", "idle", "forceTerminate"}
        /\ (pc' = "forceTerminate" => kind' = "Forced")
        /\ (pc' = "finishQuery" => monitor_state = "Stopped")
    BY <1>13 DEF StopObserve, StopDeadline, Return, Observed
  <2> QED BY <1>4, <2>1 DEF Reported
<1>14. CASE ForceTerminate \/ ForceEmpty
  <2>1. /\ pc \in {"forceTerminate", "forceEmpty"} /\ UNCHANGED <<last, kind>>
        /\ pc' \in {"forceEmpty", "finishQuery"}
    BY <1>14 DEF ForceTerminate, ForceEmpty
  <2>2. kind = "Forced" /\ last \notin {"Graceful", "Forced"}
    BY <1>4, <2>1 DEF Reported
  <2> QED BY <2>1, <2>2 DEF Reported
<1>15. CASE FinishQuery \/ Join("finishJoin", "finishDrain")
  <2>1. /\ pc \in {"finishQuery", "finishJoin"} /\ last' \in {last, "err"}
        /\ pc' \in {"idle", "finishJoin", "finishDrain"}
        /\ pc' # "idle" => UNCHANGED kind
    BY <1>15 DEF FinishQuery, Join, Return
  <2> QED BY <1>1, <1>4, <2>1 DEF Reported
<1>16. CASE FinishDrain
  <2>1. /\ pc = "finishDrain" /\ UNCHANGED <<last, kind>> /\ pc' \in {"finishDrain", "finishClean"}
        /\ pc' = "finishClean" => first_error' \/ channel' = <<>>
    BY <1>16 DEF FinishDrain, DrainEnds
  <2> QED BY <1>1, <1>4, <2>1 DEF Reported
<1>17. CASE FinishClean
  <2>1. /\ pc = "finishClean" /\ pc' = "idle" /\ UNCHANGED <<channel, monitor_state>>
        /\ last' = "err" \/ (last' = kind /\ ~first_error /\ ~dir')
    BY <1>17 DEF FinishClean, Return
  <2>2. owner_state' = IF dir' THEN owner_state ELSE "Cleaned"
    BY <1>17, RemoveSessionEffect DEF FinishClean
  <2> QED BY <2>1, <2>2 DEF Reported
<1> QED BY <1>6, <1>7, <1>8, <1>9, <1>10, <1>11, <1>12, <1>13, <1>14, <1>15, <1>16, <1>17
        DEF Next, OwnerStep, Shutdown, Call

(***************************************************************************)
(* A report is evidence: the owner that gives one is Cleaned, and one that   *)
(* says Graceful has the launcher's `stopped` as the last word of a channel  *)
(* that nothing refused was left in.                                         *)
(***************************************************************************)
THEOREM ReportIsEvidenceCorrect == Spec => []ReportIsEvidence
<1>1. Init => Reported
  BY DEF Init, Reported
<1>2. Reported => ReportIsEvidence
  BY DEF Reported, ReportIsEvidence
<1> QED BY <1>1, <1>2, ReportedKept, TypeCorrect, ControlCorrect, StreamCorrect, PTL DEF Spec

-------------------------------------------------------------------------------
(* The contract of the value.                                                *)

USE DEF LaunchPc, ReadyPc, AbortPc, ShutdownPc, PollPc

ClosingPc == {"finishJoin", "finishDrain", "finishClean"}

Working == pc \notin {"idle", "gone"}

(* The phases, one control point after another.                              *)
LEMMA PhaseAt ==
  /\ pc = "gone" => PhaseSeen = "gone"
  /\ pc \in LaunchPc \cup ReadyPc => PhaseSeen = IF spawned = {} THEN "starting" ELSE "waking"
  /\ pc \in AbortPc => PhaseSeen = "ending"
  /\ pc \in ClosingPc => PhaseSeen = "closing"
  /\ pc \in PollPc \cup (ShutdownPc \ ClosingPc) \cup {"idle"} =>
       PhaseSeen = IF owner_state = "Cleaned" THEN "clean"
                   ELSE IF owner_state = "Ready" THEN "ready"
                   ELSE IF process THEN "held" ELSE "dirty"
BY DEF PhaseSeen, ClosingPc

LEMMA PhaseAtNext ==
  /\ pc' = "gone" => PhaseSeen' = "gone"
  /\ pc' \in LaunchPc \cup ReadyPc => PhaseSeen' = IF spawned' = {} THEN "starting" ELSE "waking"
  /\ pc' \in AbortPc => PhaseSeen' = "ending"
  /\ pc' \in ClosingPc => PhaseSeen' = "closing"
  /\ pc' \in PollPc \cup (ShutdownPc \ ClosingPc) \cup {"idle"} =>
       PhaseSeen' = IF owner_state' = "Cleaned" THEN "clean"
                    ELSE IF owner_state' = "Ready" THEN "ready"
                    ELSE IF process' THEN "held" ELSE "dirty"
BY DEF PhaseSeen, ClosingPc

(* A step that the owner of the value does not see.                          *)
LEMMA Unseen ==
  ASSUME UNCHANGED <<PhaseSeen, last, dir>>, live' = {} <=> live = {}, Working' <=> Working
  PROVE  UNCHANGED Promise!contractVars
BY DEF Promise!contractVars, AnswerSeen, Working

(* The tree, the threads and the machine: nothing but the end of the tree    *)
(* is seen.                                                                  *)
LEMMA OthersKeepContract ==
  ASSUME TypeOK, Spawned, Environment \/ Monitor \/ DrainStderr \/ ThreadPanics \/ UNCHANGED vars
  PROVE  [Promise!ContractNext]_(Promise!contractVars)
<1>1. UNCHANGED <<pc, owner_state, process, last, dir>>
  BY ThreadFrame DEF Environment, Spawn, Exit, Bind, Release, ConsumeToken, AddForeign,
     RemoveForeign, Write, CloseStdout, vars
<1>2. spawned = {} <=> spawned' = {}
  BY ThreadFrame DEF Environment, Spawn, Exit, Bind, Release, ConsumeToken, AddForeign,
     RemoveForeign, Write, CloseStdout, vars, Spawned
<1>3. UNCHANGED PhaseSeen
  BY <1>1, <1>2 DEF PhaseSeen
<1>4. \/ live' = {} <=> live = {}
      \/ live # {} /\ live' = {}
  BY ThreadFrame DEF Environment, Spawn, Exit, Bind, Release, ConsumeToken, AddForeign,
     RemoveForeign, Write, CloseStdout, vars
<1>5. CASE live' = {} <=> live = {}
  BY <1>1, <1>3, <1>5, Unseen DEF Working
<1>6. CASE live # {} /\ live' = {}
  <2>1. Promise!TreeExits
    BY <1>1, <1>3, <1>6 DEF Promise!TreeExits, AnswerSeen
  <2> QED BY <2>1 DEF Promise!ContractNext
<1> QED BY <1>4, <1>5, <1>6

(* launch, up to the owner value.                                            *)
LEMMA LaunchKeepsContract ==
  ASSUME TypeOK, Control, Spawned, Launch
  PROVE  [Promise!ContractNext]_(Promise!contractVars)
<1> USE DEF Working
<1>1. pc \in LaunchPc /\ UNCHANGED last
  BY DEF Launch, CreateSession, WriteTokenFile, LaunchProcess, StartMonitors, SpawnedTerminate,
         SpawnedEmpty, SpawnedJoin, DiscardSession
<1>2. PhaseSeen = IF spawned = {} THEN "starting" ELSE "waking"
  BY <1>1, PhaseAt
<1>3. ASSUME pc' \in LaunchPc \cup ReadyPc, UNCHANGED <<spawned, live, dir>>
      PROVE  UNCHANGED Promise!contractVars
  <2>1. UNCHANGED PhaseSeen
    BY <1>2, <1>3, PhaseAtNext
  <2> QED BY <1>1, <1>3, <2>1, Unseen
<1>4. ASSUME pc' = "gone", UNCHANGED <<spawned, live>>, dir' \in BOOLEAN, live # {} => dir'
      PROVE  Promise!ContractNext
  <2>1. PhaseSeen' = "gone" /\ PhaseSeen \in {"starting", "waking"}
    BY <1>2, <1>4, PhaseAtNext
  <2>2. Promise!NeverStarted
    BY <1>1, <1>4, <2>1 DEF Promise!NeverStarted, AnswerSeen
  <2> QED BY <2>2 DEF Promise!ContractNext, Promise!Internal
<1>5. CASE CreateSession
  <2>1. pc = "create" /\ spawned = {} /\ live = {} /\ ~dir
    BY <1>5 DEF CreateSession, Spawned
  <2>2. CASE pc' = "token" /\ dir' = TRUE
    <3>1. PhaseSeen' = "starting" /\ PhaseSeen = "starting"
      BY <1>2, <1>5, <2>1, <2>2, PhaseAtNext DEF CreateSession
    <3>2. Promise!SessionCreated
      BY <1>1, <1>5, <2>1, <2>2, <3>1 DEF CreateSession, Promise!SessionCreated, AnswerSeen
    <3> QED BY <3>2 DEF Promise!ContractNext, Promise!Internal
  <2>3. CASE pc' = "gone" /\ dir' \in BOOLEAN
    BY <1>4, <1>5, <2>1, <2>3 DEF CreateSession
  <2> QED BY <1>5, <2>2, <2>3 DEF CreateSession
<1>6. CASE WriteTokenFile
  <2>1. pc' \in LaunchPc /\ UNCHANGED <<spawned, live, dir>>
    BY <1>6 DEF WriteTokenFile
  <2> QED BY <1>3, <2>1
<1>7. CASE LaunchProcess
  <2>1. CASE pc' = "pipes" /\ live' = {Wrapper} /\ spawned' = {Wrapper}
    <3>1. PhaseSeen = "starting" /\ PhaseSeen' = "waking" /\ dir /\ dir' = dir
      BY <1>2, <1>7, <2>1, PhaseAtNext DEF LaunchProcess, Spawned, Control, DirHeld
    <3>2. Promise!TreeStarts
      BY <1>1, <1>7, <2>1, <3>1 DEF LaunchProcess, Promise!TreeStarts, AnswerSeen
    <3> QED BY <3>2 DEF Promise!ContractNext, Promise!Internal
  <2>2. CASE pc' = "discard" /\ UNCHANGED <<live, spawned>>
    BY <1>3, <1>7, <2>2 DEF LaunchProcess
  <2> QED BY <1>7, <2>1, <2>2 DEF LaunchProcess
<1>8. CASE StartMonitors \/ SpawnedTerminate \/ SpawnedJoin
  BY <1>3, <1>8 DEF StartMonitors, SpawnedTerminate, SpawnedJoin
<1>9. CASE SpawnedEmpty
  <2>1. dir' = dir /\ dir \in BOOLEAN /\ dir
    BY <1>9 DEF SpawnedEmpty, TypeOK, Control, DirHeld
  <2> QED BY <1>3, <1>4, <1>9, <2>1 DEF SpawnedEmpty
<1>10. CASE DiscardSession
  <2>1. dir' \in BOOLEAN /\ live = {}
    BY <1>10, CleanupType DEF DiscardSession, Control, HandlesAt, TreeHeld
  <2> QED BY <1>4, <1>10, <2>1 DEF DiscardSession
<1> QED BY <1>5, <1>6, <1>7, <1>8, <1>9, <1>10 DEF Launch

(* wait_until_ready.                                                         *)
LEMMA ReadyKeepsContract ==
  ASSUME TypeOK, Control, Spawned, WaitUntilReady
  PROVE  [Promise!ContractNext]_(Promise!contractVars)
<1> USE DEF Working
<1>1. pc \in ReadyPc /\ UNCHANGED <<dir, live, spawned>>
  BY DEF WaitUntilReady, WaitAlive, RecvTimeout, RecvDisconnected, RecvMessage, ProcessesAlive,
         StartupDrain, ListenVerify, ListenVerifyIpv6, ProbeSucceeds, ProbeRetry, RecvDeadline, ListenGiveUp,
         ProbeDeadline
<1>2. PhaseSeen = "waking" /\ dir
  BY <1>1, PhaseAt DEF Control, StateAt, Spawned, DirHeld
<1>3. CASE pc' \in ReadyPc /\ UNCHANGED last
  <2>1. PhaseSeen' = "waking"
    BY <1>1, <1>2, <1>3, PhaseAt, PhaseAtNext
  <2> QED BY <1>1, <1>2, <1>3, <2>1, Unseen
<1>4. CASE pc' = "abortTerminate" /\ UNCHANGED last
  <2>1. PhaseSeen' = "ending"
    BY <1>4, PhaseAtNext
  <2>2. Promise!StartupFails
    BY <1>1, <1>2, <1>4, <2>1 DEF Promise!StartupFails, AnswerSeen
  <2> QED BY <2>2 DEF Promise!ContractNext, Promise!Internal
<1>5. CASE ProbeSucceeds
  <2>1. pc' = "idle" /\ owner_state' = "Ready" /\ last' = "ok"
    BY <1>5 DEF ProbeSucceeds
  <2>2. PhaseSeen' = "ready"
    BY <2>1, PhaseAtNext
  <2>3. Promise!BecomesReady
    BY <1>1, <1>2, <2>1, <2>2 DEF Promise!BecomesReady, AnswerSeen
  <2> QED BY <2>3 DEF Promise!ContractNext, Promise!Internal
<1>6. \/ (pc' \in ReadyPc \cup {"abortTerminate"} /\ UNCHANGED last)
      \/ ProbeSucceeds
  BY DEF WaitUntilReady, WaitAlive, RecvTimeout, RecvDisconnected, RecvMessage, ProcessesAlive,
         StartupDrain, ListenVerify, ListenVerifyIpv6, ProbeRetry, RecvDeadline, ListenGiveUp, ProbeDeadline
<1> QED BY <1>3, <1>4, <1>5, <1>6

(* abort_and_cleanup and Drop.                                               *)
LEMMA AbortKeepsContract ==
  ASSUME TypeOK, Control, Abort
  PROVE  [Promise!ContractNext]_(Promise!contractVars)
<1> USE DEF Working
<1>1. pc \in AbortPc /\ UNCHANGED <<live, last>>
  BY DEF Abort, AbortTerminate, AbortEmpty, Join, AbortDrain, AbortClean, AbortReturn
<1>2. PhaseSeen = "ending"
  BY <1>1, PhaseAt
<1>3. ASSUME pc' \in AbortPc PROVE PhaseSeen' = "ending"
  BY <1>3, PhaseAtNext
<1>4. CASE AbortTerminate \/ AbortEmpty \/ Join("abortJoin", "abortDrain") \/ AbortDrain
  <2>1. pc' \in AbortPc /\ dir' = dir
    BY <1>4 DEF AbortTerminate, AbortEmpty, Join, AbortDrain
  <2> QED BY <1>1, <1>2, <1>3, <2>1, Unseen
<1>5. CASE AbortClean
  <2>1. pc' = "abortReturn" /\ live = {} /\ dir /\ dir' \in BOOLEAN
    BY <1>5, RemoveSessionEffect DEF AbortClean, Control, StateAt, HandlesAt, TreeHeld, DirHeld
  <2>2. PhaseSeen' = "ending"
    BY <1>3, <2>1
  <2>3. CASE dir' = FALSE
    <3>1. Promise!EndRemovesSession
      BY <1>1, <1>2, <2>1, <2>2, <2>3 DEF Promise!EndRemovesSession, AnswerSeen
    <3> QED BY <3>1 DEF Promise!ContractNext, Promise!Internal
  <2>4. CASE dir' = TRUE
    <3>1. dir' = dir
      BY <2>1, <2>4 DEF TypeOK
    <3> QED BY <1>1, <1>2, <2>1, <2>2, <3>1, Unseen
  <2> QED BY <2>1, <2>3, <2>4
<1>6. CASE AbortReturn
  <2>1. dir' = dir
    BY <1>6 DEF AbortReturn
  <2>2. CASE pc' = "abortTerminate"
    BY <1>1, <1>2, <1>3, <2>1, <2>2, Unseen
  <2>3. CASE pc' = "gone"
    <3>1. PhaseSeen' = "gone"
      BY <2>3, PhaseAtNext
    <3>2. Promise!Ended
      BY <1>1, <1>2, <2>1, <2>3, <3>1 DEF Promise!Ended, AnswerSeen
    <3> QED BY <3>2 DEF Promise!ContractNext, Promise!Internal
  <2> QED BY <1>6, <2>2, <2>3 DEF AbortReturn
<1> QED BY <1>4, <1>5, <1>6 DEF Abort

(* shutdown, force_shutdown and finish_cleanup.                              *)
LEMMA ShutdownKeepsContract ==
  ASSUME TypeOK, Control, Shutdown
  PROVE  [Promise!ContractNext]_(Promise!contractVars)
<1> USE DEF Working, ClosingPc
<1>1. pc \in ShutdownPc /\ UNCHANGED live
  BY DEF Shutdown, StopDrain, StopObserve, StopDeadline, ForceTerminate, ForceEmpty, FinishQuery,
         Join, FinishDrain, FinishClean
<1>2. owner_state = "Stopping" /\ dir
  BY <1>1 DEF Control, StateAt, DirHeld
<1>3. PhaseSeen = IF pc \in ClosingPc THEN "closing" ELSE IF process THEN "held" ELSE "dirty"
  BY <1>1, <1>2, PhaseAt
<1>4. ASSUME pc \notin ClosingPc, pc' \in ShutdownPc \ ClosingPc,
             UNCHANGED <<process, owner_state, dir, last>>
      PROVE  UNCHANGED Promise!contractVars
  <2>1. UNCHANGED PhaseSeen
    BY <1>2, <1>3, <1>4, PhaseAtNext
  <2> QED BY <1>1, <1>4, <2>1, Unseen
<1>5. ASSUME pc \notin ClosingPc, pc' = "idle", last' = "err", UNCHANGED <<process, owner_state, dir>>
      PROVE  Promise!ContractNext
  <2>1. UNCHANGED PhaseSeen /\ PhaseSeen \in {"held", "dirty"}
    BY <1>2, <1>3, <1>5, PhaseAtNext
  <2>2. Promise!StopFails
    BY <1>1, <1>5, <2>1 DEF Promise!StopFails, AnswerSeen
  <2> QED BY <2>2 DEF Promise!ContractNext, Promise!Internal
<1>6. CASE StopDrain
  <2>1. /\ pc = "stopDrain" /\ pc' \in {"stopDrain", "stopObserve", "forceTerminate"}
        /\ UNCHANGED <<process, owner_state, dir, last>>
    BY <1>6 DEF StopDrain
  <2> QED BY <1>4, <2>1
<1>7. CASE StopObserve \/ StopDeadline
  <2>1. /\ pc = "stopObserve" /\ UNCHANGED <<process, owner_state, dir>>
        /\ \/ pc' \in {"finishQuery", "stopDrain", "forceTerminate"} /\ UNCHANGED last
           \/ pc' = "idle" /\ last' = "err"
    BY <1>7 DEF StopObserve, StopDeadline, Return
  <2> QED BY <1>4, <1>5, <2>1
<1>8. CASE ForceTerminate \/ ForceEmpty
  <2>1. /\ pc \in {"forceTerminate", "forceEmpty"} /\ pc' \in {"forceEmpty", "finishQuery"}
        /\ UNCHANGED <<process, owner_state, dir, last>>
    BY <1>8 DEF ForceTerminate, ForceEmpty
  <2> QED BY <1>4, <2>1
<1>9. CASE FinishQuery
  <2>1. pc = "finishQuery" /\ UNCHANGED <<owner_state, dir>>
    BY <1>9 DEF FinishQuery
  <2>2. CASE process /\ live = {} /\ pc' = "finishJoin" /\ UNCHANGED last
    <3>1. PhaseSeen = "held" /\ PhaseSeen' = "closing"
      BY <1>3, <2>1, <2>2, PhaseAtNext
    <3>2. Promise!JobClosed
      BY <1>1, <2>1, <2>2, <3>1 DEF Promise!JobClosed, AnswerSeen
    <3> QED BY <3>2 DEF Promise!ContractNext, Promise!Internal
  <2>3. CASE pc' = "idle" /\ last' = "err" /\ UNCHANGED process
    BY <1>5, <2>1, <2>3
  <2> QED BY <1>9, <2>2, <2>3 DEF FinishQuery, Return
<1>10. CASE Join("finishJoin", "finishDrain") \/ FinishDrain
  <2>1. pc \in ClosingPc /\ pc' \in ClosingPc /\ UNCHANGED <<last, dir>>
    BY <1>10 DEF Join, FinishDrain
  <2>2. UNCHANGED PhaseSeen
    BY <1>3, <2>1, PhaseAtNext
  <2> QED BY <1>1, <2>1, <2>2, Unseen
<1>11. CASE FinishClean
  <2>1. /\ pc = "finishClean" /\ pc' = "idle" /\ UNCHANGED process /\ ~process
        /\ last' = "err" \/ (~dir' /\ last' = kind)
    BY <1>11 DEF FinishClean, Return, Control, HandlesAt
  <2>2. dir' \in BOOLEAN /\ owner_state' = IF dir' THEN owner_state ELSE "Cleaned"
    BY <1>11, RemoveSessionEffect DEF FinishClean
  <2>3. PhaseSeen = "closing" /\ PhaseSeen' = IF dir' THEN "dirty" ELSE "clean"
    BY <1>2, <1>3, <2>1, <2>2, PhaseAtNext
  <2>4. CASE dir' = TRUE
    <3>1. last' = "err" /\ dir' = dir
      BY <1>2, <2>1, <2>4 DEF TypeOK
    <3>2. Promise!StopLeavesSession
      BY <1>1, <2>1, <2>3, <2>4, <3>1 DEF Promise!StopLeavesSession, AnswerSeen
    <3> QED BY <3>2 DEF Promise!ContractNext, Promise!Internal
  <2>5. CASE dir' = FALSE
    <3>1. AnswerSeen' \in {"report", "err"}
      BY <2>1 DEF AnswerSeen, TypeOK
    <3>2. Promise!StopCleans
      BY <1>1, <2>1, <2>3, <2>5, <3>1 DEF Promise!StopCleans
    <3> QED BY <3>2 DEF Promise!ContractNext, Promise!Internal
  <2> QED BY <2>2, <2>4, <2>5
<1> QED BY <1>6, <1>7, <1>8, <1>9, <1>10, <1>11 DEF Shutdown

(* The calls, and what poll_health does inside one.                          *)
LEMMA CallKeepsContract ==
  ASSUME TypeOK, Control, PollDrain \/ PollCheck \/ Call
  PROVE  [Promise!ContractNext]_(Promise!contractVars)
<1> USE DEF Working, ClosingPc
<1>1. UNCHANGED live
  BY DEF PollDrain, PollCheck, Call, CallPollHealth, CallShutdown, CallForceShutdown,
         CallRetryPrivateCleanup, CallOnCleaned, CallDrop
<1>2. CASE PollDrain \/ PollCheck
  <2>1. /\ pc \in PollPc /\ UNCHANGED <<owner_state, dir>>
        /\ \/ pc' = "idle" /\ last' \in {"ok", "err"}
           \/ pc' \in PollPc /\ UNCHANGED last
    BY <1>2 DEF PollDrain, PollCheck
  <2>2. PhaseSeen = "ready" /\ PhaseSeen' = "ready"
    BY <2>1, PhaseAt, PhaseAtNext DEF Control, StateAt
  <2>3. CASE pc' \in PollPc /\ UNCHANGED last
    BY <1>1, <2>1, <2>2, <2>3, Unseen
  <2>4. CASE pc' = "idle" /\ last' \in {"ok", "err"}
    <3>1. Promise!Healthy
      BY <1>1, <2>1, <2>2, <2>4 DEF Promise!Healthy, AnswerSeen
    <3> QED BY <3>1 DEF Promise!ContractNext, Promise!Internal
  <2> QED BY <2>1, <2>3, <2>4
<1>3. CASE Call
  <2>1. pc = "idle" /\ UNCHANGED process
    BY <1>3 DEF Call, CallPollHealth, CallShutdown, CallForceShutdown, CallRetryPrivateCleanup,
                CallOnCleaned, CallDrop
  <2>2. owner_state \in {"Ready", "Stopping", "Cleaned"} /\ (owner_state = "Ready" => process)
        /\ (owner_state # "Cleaned" => dir)
    BY <2>1 DEF Control, StateAt, HandlesAt, DirHeld
  <2>3. PhaseSeen = IF owner_state = "Cleaned" THEN "clean"
                    ELSE IF owner_state = "Ready" THEN "ready"
                    ELSE IF process THEN "held" ELSE "dirty"
    BY <2>1, PhaseAt
  <2>4. ASSUME pc' = "idle", last' = "err", UNCHANGED <<owner_state, dir>>
        PROVE  Promise!ContractNext
    <3>1. UNCHANGED PhaseSeen /\ PhaseSeen \in {"ready", "held", "dirty", "clean"}
      BY <2>1, <2>2, <2>3, <2>4, PhaseAtNext
    <3>2. Promise!Refuse
      BY <1>1, <2>1, <2>4, <3>1 DEF Promise!Refuse, AnswerSeen
    <3> QED BY <3>2 DEF Promise!ContractNext, Promise!ContractCall
  <2>5. CASE CallPollHealth
    <3>1. UNCHANGED <<owner_state, dir>>
      BY <2>5 DEF CallPollHealth
    <3>2. CASE owner_state = "Ready" /\ pc' = "pollDrain" /\ last' = "none"
      <4>1. PhaseSeen = "ready" /\ PhaseSeen' = "ready"
        BY <2>3, <3>1, <3>2, PhaseAtNext
      <4>2. Promise!PollHealth
        BY <1>1, <2>1, <3>1, <3>2, <4>1 DEF Promise!PollHealth, AnswerSeen
      <4> QED BY <4>2 DEF Promise!ContractNext, Promise!ContractCall
    <3>3. CASE last' = "err" /\ UNCHANGED pc
      BY <2>1, <2>4, <3>1, <3>3
    <3> QED BY <2>5, <3>2, <3>3 DEF CallPollHealth
  <2>6. CASE CallShutdown \/ CallForceShutdown
    <3>1. /\ owner_state # "Cleaned" /\ owner_state' = "Stopping" /\ last' = "none" /\ dir' = dir
          /\ pc' \in {"stopDrain", "forceTerminate"}
      BY <2>6 DEF CallShutdown, CallForceShutdown
    <3>2. PhaseSeen' = IF process THEN "held" ELSE "dirty"
      BY <2>1, <3>1, PhaseAtNext
    <3>3. PhaseSeen \in {"ready", "held", "dirty"}
          /\ PhaseSeen' = IF PhaseSeen = "dirty" THEN "dirty" ELSE "held"
      BY <2>2, <2>3, <3>1, <3>2
    <3>4. Promise!Stop
      BY <1>1, <2>1, <3>1, <3>3 DEF Promise!Stop, AnswerSeen
    <3> QED BY <3>4 DEF Promise!ContractNext, Promise!ContractCall
  <2>7. CASE CallRetryPrivateCleanup
    <3>1. owner_state # "Cleaned" /\ UNCHANGED pc
      BY <2>7 DEF CallRetryPrivateCleanup
    <3>2. CASE process \/ joinable
      BY <2>1, <2>4, <2>7, <3>2 DEF CallRetryPrivateCleanup
    <3>3. CASE ~(process \/ joinable)
      <4>1. /\ dir' \in BOOLEAN /\ owner_state' = IF dir' THEN owner_state ELSE "Cleaned"
            /\ last' = "err" \/ (~dir' /\ last' = "ok")
        BY <2>7, <3>3, RemoveSessionEffect DEF CallRetryPrivateCleanup
      <4>2. PhaseSeen = "dirty" /\ PhaseSeen' = IF dir' THEN "dirty" ELSE "clean"
        BY <2>1, <2>2, <2>3, <3>1, <3>3, <4>1, PhaseAtNext
      <4>3. CASE dir' = TRUE
        <5>1. dir' = dir /\ last' = "err"
          BY <2>2, <3>1, <4>1, <4>3 DEF TypeOK
        <5>2. Promise!Retry
          BY <1>1, <2>1, <3>1, <4>2, <4>3, <5>1 DEF Promise!Retry, AnswerSeen
        <5> QED BY <5>2 DEF Promise!ContractNext, Promise!ContractCall
      <4>4. CASE dir' = FALSE
        <5>1. AnswerSeen' \in {"ok", "err"}
          BY <4>1 DEF AnswerSeen
        <5>2. Promise!Retry
          BY <1>1, <2>1, <3>1, <4>2, <4>4, <5>1 DEF Promise!Retry
        <5> QED BY <5>2 DEF Promise!ContractNext, Promise!ContractCall
      <4> QED BY <4>1, <4>3, <4>4
    <3> QED BY <3>2, <3>3
  <2>8. CASE CallOnCleaned
    BY <2>1, <2>4, <2>8 DEF CallOnCleaned
  <2>9. CASE CallDrop
    <3>1. /\ pc' = IF owner_state = "Cleaned" THEN "gone" ELSE "abortTerminate"
          /\ last' = "none" /\ UNCHANGED <<owner_state, dir>>
      BY <2>9 DEF CallDrop
    <3>2. PhaseSeen' = IF owner_state = "Cleaned" THEN "gone" ELSE "ending"
      BY <3>1, PhaseAtNext
    <3>3. Promise!Drop
      BY <1>1, <2>1, <2>2, <2>3, <3>1, <3>2 DEF Promise!Drop, AnswerSeen
    <3> QED BY <3>3 DEF Promise!ContractNext, Promise!ContractCall
  <2> QED BY <1>3, <2>5, <2>6, <2>7, <2>8, <2>9 DEF Call
<1> QED BY <1>2, <1>3

(***************************************************************************)
(* The owner keeps its contract: every step of launch, poll_health,          *)
(* shutdown, force_shutdown, retry_private_cleanup and Drop, of the two      *)
(* threads and of the tree, is a step OwnerContract allows or is not seen by *)
(* whoever owns the value.  NativeApp, and through it Shell, take the        *)
(* runtime to be what this theorem says it is.                               *)
(***************************************************************************)
THEOREM ImplementsContractCorrect == Spec => ImplementsContract
<1>1. Init => Promise!ContractInit
  <2> SUFFICES ASSUME Init PROVE Promise!ContractInit OBVIOUS
  <2>1. PhaseSeen = "starting"
    BY PhaseAt DEF Init
  <2> QED BY <2>1 DEF Init, Promise!ContractInit, AnswerSeen
<1>2. TypeOK /\ Control /\ GateInv /\ [Next]_vars => [Promise!ContractNext]_(Promise!contractVars)
  <2> SUFFICES ASSUME TypeOK, Control, GateInv, [Next]_vars
               PROVE  [Promise!ContractNext]_(Promise!contractVars)
    OBVIOUS
  <2>1. Spawned
    BY DEF GateInv
  <2> QED BY <2>1, OthersKeepContract, LaunchKeepsContract, ReadyKeepsContract, AbortKeepsContract,
             ShutdownKeepsContract, CallKeepsContract DEF Next, OwnerStep, Done
<1> QED BY <1>1, <1>2, TypeCorrect, ControlCorrect, GatesCorrect, PTL
        DEF Spec, ImplementsContract, Promise!Contract
===============================================================================
