------------------------- MODULE TransportProxyProofs -------------------------
(***************************************************************************)
(* Safety of TransportProxy for any number of connections, any limit and    *)
(* any number of listeners.                                                  *)
(***************************************************************************)
EXTENDS TransportProxy, FiniteSetTheorems, TLAPS

(* TypeOK without the semaphore, whose bound depends on PermitsConserved.    *)
Shape ==
  /\ pc \in {"bind", "unstarted", "run", "abortAll", "joinListeners", "take",
             "joinTasks", "returned", "dropTake", "dropped"}
  /\ attempts \in 0..(BindAttempts - 1) /\ result \in {"none", "ok", "err"}
  /\ shutdown \in BOOLEAN
  /\ listener \in [Listeners -> {"none", "accepting", "stopped", "failed", "panicked"}]
  /\ closed \in BOOLEAN /\ handles \in SUBSET Task /\ taken \in SUBSET Task
  /\ task \in [Task -> {"none", "running", "ended", "panicked"}]
  /\ cancelled \in SUBSET (Task \cup Listeners)
  /\ step \in [Conns -> PermitStep \cup {"new", "busy", "upgraded", "closed"}]
  /\ websocket \in SUBSET Conns
  /\ up \in [Conns -> {"none", "pending", "ready", "lost"}]
  /\ down \in [Conns -> {"none", "pending", "ready", "lost"}]
  /\ bootstrap_consumed \in BOOLEAN

(***************************************************************************)
(* What makes TasksTracked inductive: when the set is closed, when it is    *)
(* empty, and when the listeners have stopped, at each control point.        *)
(***************************************************************************)
Tracking ==
  /\ TasksTracked
  /\ pc \in {"bind", "unstarted"} => \A l \in Listeners : listener[l] = "none"
  /\ pc \in {"joinListeners", "take", "joinTasks", "returned", "dropped"} => closed
  /\ pc \in {"take", "joinTasks", "returned"} =>
       \A l \in Listeners : listener[l] # "accepting"
  /\ pc \in {"joinTasks", "returned", "dropped"} => handles = {}
  /\ pc # "joinTasks" => taken = {}

USE DEF ownerVars, trackVars, connVars, ConnFrame, EndFrame

-------------------------------------------------------------------------------
(* Operators shared by the actions.                                          *)

(* Connection, driver and tunnel of a connection are tasks.                  *)
LEMMA TaskMember ==
  ASSUME NEW c \in Conns, NEW k \in {"conn", "driver", "tunnel"}
  PROVE  <<k, c>> \in Task
  BY DEF Task

(* Spawning keeps handles and task status well typed.                        *)
LEMMA SpawnType ==
  ASSUME Shape, NEW t \in Task, Spawn(t)
  PROVE  /\ handles' \in SUBSET Task
         /\ task' \in [Task -> {"none", "running", "ended", "panicked"}]
  BY DEF Shape, Spawn, Running

(* Losing an upgrade keeps it well typed.                                    *)
LEMMA LoseType ==
  ASSUME NEW f \in [Conns -> {"none", "pending", "ready", "lost"}], NEW c \in Conns
  PROVE  Lose(f, c) \in [Conns -> {"none", "pending", "ready", "lost"}]
  BY DEF Lose

(* The end of a connection task preserves the types.                         *)
LEMMA ConnEndsType ==
  ASSUME Shape, NEW c \in Conns, NEW how \in {"ended", "panicked"}, ConnEnds(c, how)
  PROVE  Shape'
<1>1. <<"conn", c>> \in Task
  BY TaskMember
<1>2. down' \in [Conns -> {"none", "pending", "ready", "lost"}]
  BY LoseType DEF ConnEnds, Shape
<1> QED BY <1>1, <1>2 DEF ConnEnds, Shape

-------------------------------------------------------------------------------
(* Type correctness, apart from the semaphore.                               *)

(* The steps of start, shutdown and Drop preserve the types.                 *)
LEMMA OwnerShape ==
  ASSUME Shape, OwnerStep \/ CallShutdown \/ CallDrop
  PROVE  Shape'
<1>1. CASE Bind
  BY <1>1, ProxyAssumption DEF Bind, Shape
<1>2. CASE ShutdownAbortAll
  <2>1. closed' \in BOOLEAN
    BY <1>2, Zenon DEF ShutdownAbortAll, AbortAll
  <2> QED BY <1>2, <2>1 DEF ShutdownAbortAll, AbortAll, Shape
<1>3. CASE JoinListeners
  BY <1>3 DEF JoinListeners, Shape
<1>4. CASE ShutdownTake
  <2>1. closed' \in BOOLEAN
    BY <1>4, Zenon DEF ShutdownTake, CloseAndTake
  <2> QED BY <1>4, <2>1 DEF ShutdownTake, CloseAndTake, Shape
<1>5. CASE JoinTasks
  BY <1>5 DEF JoinTasks, Shape
<1>6. CASE DropTake
  <2>1. closed' \in BOOLEAN
    BY <1>6, Zenon DEF DropTake
  <2> QED BY <1>6, <2>1 DEF DropTake, Shape
<1>7. CASE CallShutdown \/ CallDrop
  <2>1. shutdown' \in BOOLEAN
    BY <1>7, Zenon DEF CallShutdown, CallDrop
  <2> QED BY <1>7, <2>1 DEF CallShutdown, CallDrop, Shape
<1> QED BY <1>1, <1>2, <1>3, <1>4, <1>5, <1>6, <1>7 DEF OwnerStep

(* The steps of the listeners preserve the types.                            *)
LEMMA ListenShape ==
  ASSUME Shape, Listen
  PROVE  Shape'
<1> PICK l \in Listeners :
      \/ ListenerStops(l) \/ ListenerFails(l) \/ ListenerPanics(l)
      \/ \E c \in Conns : Accept(l, c)
  BY DEF Listen
<1>1. CASE ListenerStops(l) \/ ListenerPanics(l)
  BY <1>1 DEF ListenerStops, ListenerPanics, Shape
<1>2. CASE ListenerFails(l)
  <2>1. closed' \in BOOLEAN /\ shutdown' \in BOOLEAN
    BY <1>2, Zenon DEF ListenerFails, AbortAll
  <2> QED BY <1>2, <2>1 DEF ListenerFails, AbortAll, Shape
<1>3. ASSUME NEW c \in Conns, Accept(l, c) PROVE Shape'
  <2>1. /\ handles' \in SUBSET Task
        /\ task' \in [Task -> {"none", "running", "ended", "panicked"}]
    BY <1>3, SpawnType, TaskMember DEF Accept
  <2>2. step' \in [Conns -> PermitStep \cup {"new", "busy", "upgraded", "closed"}]
    BY <1>3 DEF Accept, Shape, PermitStep
  <2> QED BY <1>3, <2>1, <2>2 DEF Accept, Shape
<1> QED BY <1>1, <1>2, <1>3

(* The steps of a request preserve the types.                                *)
LEMMA RequestShape ==
  ASSUME Shape, NEW c \in Conns,
         \/ ReadPrefix(c) \/ HandleRequest(c) \/ ConnectUpstream(c)
         \/ UpstreamResponse(c) \/ SpawnTunnel(c)
  PROVE  Shape'
<1>0. step' \in [Conns -> PermitStep \cup {"new", "busy", "upgraded", "closed"}]
  BY DEF ReadPrefix, HandleRequest, ConnectUpstream, UpstreamResponse, SpawnTunnel,
         Shape, PermitStep
<1>1. CASE ReadPrefix(c) \/ UpstreamResponse(c)
  BY <1>0, <1>1 DEF ReadPrefix, UpstreamResponse, Shape
<1>2. CASE HandleRequest(c)
  <2>1. bootstrap_consumed' \in BOOLEAN
    BY <1>2, Zenon DEF HandleRequest, Shape
  <2> QED BY <1>0, <1>2, <2>1 DEF HandleRequest, Shape
<1>3. CASE ConnectUpstream(c)
  <2>1. /\ handles' \in SUBSET Task
        /\ task' \in [Task -> {"none", "running", "ended", "panicked"}]
    BY <1>3, SpawnType, TaskMember DEF ConnectUpstream, Shape
  <2>2. up' \in [Conns -> {"none", "pending", "ready", "lost"}]
    BY <1>3 DEF ConnectUpstream, Shape
  <2> QED BY <1>0, <1>3, <2>1, <2>2 DEF ConnectUpstream, Shape
<1>4. CASE SpawnTunnel(c)
  <2>1. /\ handles' \in SUBSET Task
        /\ task' \in [Task -> {"none", "running", "ended", "panicked"}]
    BY <1>4, SpawnType, TaskMember DEF SpawnTunnel
  <2> QED BY <1>0, <1>4, <2>1 DEF SpawnTunnel, Shape
<1> QED BY <1>1, <1>2, <1>3, <1>4

(* The ends of tasks preserve the types.                                     *)
LEMMA EndShape ==
  ASSUME Shape, NEW c \in Conns,
         Respond(c) \/ SwitchProtocols(c) \/ DriverEnds(c) \/ DriverUpgrades(c)
           \/ TunnelEnds(c)
  PROVE  Shape'
<1>1. CASE Respond(c)
  BY <1>1, ConnEndsType DEF Respond
<1>2. CASE SwitchProtocols(c)
  BY <1>2, TaskMember DEF SwitchProtocols, Shape
<1>3. CASE DriverEnds(c)
  <2>1. up' \in [Conns -> {"none", "pending", "ready", "lost"}]
    BY <1>3, LoseType DEF DriverEnds, Shape
  <2> QED BY <1>3, <2>1, TaskMember DEF DriverEnds, Shape
<1>4. CASE DriverUpgrades(c) \/ TunnelEnds(c)
  BY <1>4, TaskMember DEF DriverUpgrades, TunnelEnds, Shape
<1> QED BY <1>1, <1>2, <1>3, <1>4

(* A cancellation or panic preserves the types.                              *)
LEMMA InterruptedShape ==
  ASSUME Shape, NEW t \in Task, NEW how \in {"ended", "panicked"}, Interrupted(t, how)
  PROVE  Shape'
<1>0. t[2] \in Conns
  BY DEF Task
<1>1. CASE t[1] = "conn" /\ ConnEnds(t[2], how)
  BY <1>0, <1>1, ConnEndsType
<1>2. CASE /\ t[1] = "driver"
           /\ task' = [task EXCEPT ![t] = how]
           /\ up' = Lose(up, t[2])
           /\ UNCHANGED <<EndFrame, step, down, permits>>
  <2>1. up' \in [Conns -> {"none", "pending", "ready", "lost"}]
    BY <1>0, <1>2, LoseType DEF Shape
  <2> QED BY <1>2, <2>1 DEF Shape
<1>3. CASE /\ t[1] = "tunnel"
           /\ task' = [task EXCEPT ![t] = how]
           /\ UNCHANGED <<EndFrame, up, down, step, permits>>
  BY <1>3 DEF Shape
<1> QED BY <1>1, <1>2, <1>3 DEF Interrupted

(* All variables but the semaphore are well typed in every reachable state.  *)
THEOREM ShapeCorrect == Spec => []Shape
<1>1. Init => Shape
  <2> SUFFICES ASSUME Init PROVE Shape
    OBVIOUS
  <2>1. shutdown \in BOOLEAN /\ closed \in BOOLEAN /\ bootstrap_consumed \in BOOLEAN
    BY Zenon DEF Init
  <2> QED BY <2>1, ProxyAssumption DEF Init, Shape
<1>2. Shape /\ [Next]_vars => Shape'
  <2> SUFFICES ASSUME Shape, [Next]_vars PROVE Shape'
    OBVIOUS
  <2>1. CASE OwnerStep \/ CallShutdown \/ CallDrop \/ Listen
    BY <2>1, OwnerShape, ListenShape
  <2>2. CASE Serve
    BY <2>2, RequestShape, EndShape, InterruptedShape DEF Serve, Cancelled, Panics
  <2>3. CASE UNCHANGED vars
    BY <2>3 DEF vars, Shape
  <2> QED BY <2>1, <2>2, <2>3 DEF Next, Done
<1> QED BY <1>1, <1>2, PTL DEF Spec

-------------------------------------------------------------------------------
(* Tracking.  A step either ends tasks, or spawns one, or is the owner's or  *)
(* a listener's own.                                                         *)

TrackedVars == <<pc, listener, closed, handles, taken, cancelled>>

(* A step that only ends tasks keeps the tracking.                           *)
LEMMA EndingTracked ==
  ASSUME Shape, Tracking, Running' \subseteq Running, UNCHANGED TrackedVars
  PROVE  Tracking'
  BY DEF Tracking, TasksTracked, TrackedVars

(* After a spawn at most the spawned task runs in addition.                  *)
LEMMA SpawnRunning ==
  ASSUME Shape, NEW t \in Task, Spawn(t)
  PROVE  Running' = Running \cup (IF closed THEN {} ELSE {t})
<1>1. CASE closed
  BY <1>1 DEF Spawn, Running
<1>2. CASE ~closed
  BY <1>2 DEF Spawn, Running, Shape
<1> QED BY <1>1, <1>2

(* A spawn adds a tracked task, or none when the set is closed.              *)
LEMMA SpawnTracked ==
  ASSUME Shape, Tracking, NEW t \in Task, Spawn(t),
         UNCHANGED <<pc, listener, closed, taken, cancelled>>
  PROVE  Tracking'
<1>1. Running' = Running \cup (IF closed THEN {} ELSE {t})
  BY SpawnRunning
<1>2. handles' = (handles \cap Running) \cup (IF closed THEN {} ELSE {t})
  BY DEF Spawn
<1>3. pc \in {"joinTasks", "returned", "dropped"} => closed
  BY DEF Tracking
<1>4. TasksTracked'
  BY <1>1, <1>2, <1>3 DEF Tracking, TasksTracked
<1> QED BY <1>2, <1>3, <1>4 DEF Tracking

(* Handles move from the set to the owner or are cancelled, never lost.      *)
LEMMA OwnerTracked ==
  ASSUME Shape, Tracking, OwnerStep \/ CallShutdown \/ CallDrop
  PROVE  Tracking'
<1>0. Running' = Running
  BY DEF OwnerStep, Bind, ShutdownAbortAll, JoinListeners, ShutdownTake, JoinTasks,
         DropTake, CallShutdown, CallDrop, Running
<1>1. CASE Bind
  BY <1>0, <1>1 DEF Bind, Tracking, TasksTracked, Shape
<1>2. CASE ShutdownAbortAll
  BY <1>0, <1>2 DEF ShutdownAbortAll, AbortAll, Tracking, TasksTracked
<1>3. CASE JoinListeners
  BY <1>0, <1>3 DEF JoinListeners, Tracking, TasksTracked
<1>4. CASE ShutdownTake
  BY <1>0, <1>4 DEF ShutdownTake, CloseAndTake, Tracking, TasksTracked
<1>5. CASE JoinTasks
  BY <1>0, <1>5 DEF JoinTasks, Tracking, TasksTracked
<1>6. CASE DropTake
  BY <1>0, <1>6 DEF DropTake, Tracking, TasksTracked
<1>7. CASE CallShutdown \/ CallDrop
  BY <1>0, <1>7 DEF CallShutdown, CallDrop, Tracking, TasksTracked
<1> QED BY <1>1, <1>2, <1>3, <1>4, <1>5, <1>6, <1>7 DEF OwnerStep

(* A listener spawns only into the tracked set, and closes it on failure.    *)
LEMMA ListenTracked ==
  ASSUME Shape, Tracking, Listen
  PROVE  Tracking'
<1> PICK l \in Listeners :
      \/ ListenerStops(l) \/ ListenerFails(l) \/ ListenerPanics(l)
      \/ \E c \in Conns : Accept(l, c)
  BY DEF Listen
<1>1. CASE ListenerStops(l) \/ ListenerFails(l) \/ ListenerPanics(l)
  <2>1. Running' = Running
    BY <1>1 DEF ListenerStops, ListenerFails, ListenerPanics, Running
  <2>2. /\ UNCHANGED <<pc, handles, taken>>
        /\ cancelled \subseteq cancelled'
        /\ listener[l] = "accepting"
        /\ \A k \in Listeners : listener'[k] = "accepting" => listener[k] = "accepting"
    BY <1>1 DEF ListenerStops, ListenerFails, ListenerPanics, AbortAll, Shape
  <2>3. pc \notin {"bind", "unstarted"}
    BY <2>2 DEF Tracking
  <2>4. TasksTracked'
    BY <2>1, <2>2 DEF Tracking, TasksTracked
  <2>5. closed' = TRUE \/ closed' = closed
    BY <1>1 DEF ListenerStops, ListenerFails, ListenerPanics, AbortAll
  <2>6. pc \in {"joinListeners", "take", "joinTasks", "returned", "dropped"} => closed'
    BY <2>5 DEF Tracking
  <2> QED BY <2>2, <2>3, <2>4, <2>6 DEF Tracking
<1>2. ASSUME NEW c \in Conns, Accept(l, c) PROVE Tracking'
  BY <1>2, SpawnTracked, TaskMember DEF Accept
<1> QED BY <1>1, <1>2

(* A request spawns its driver and tunnel only into the tracked set.         *)
LEMMA RequestTracked ==
  ASSUME Shape, Tracking, NEW c \in Conns,
         \/ ReadPrefix(c) \/ HandleRequest(c) \/ ConnectUpstream(c)
         \/ UpstreamResponse(c) \/ SpawnTunnel(c)
  PROVE  Tracking'
<1>1. UNCHANGED <<pc, listener, closed, taken, cancelled>>
  BY DEF ReadPrefix, HandleRequest, ConnectUpstream, UpstreamResponse, SpawnTunnel
<1>2. \/ UNCHANGED <<handles, task>>
      \/ Spawn(<<"driver", c>>)
      \/ Spawn(<<"tunnel", c>>)
  BY DEF ReadPrefix, HandleRequest, ConnectUpstream, UpstreamResponse, SpawnTunnel
<1>3. CASE UNCHANGED <<handles, task>>
  BY <1>1, <1>3, EndingTracked DEF Running, TrackedVars
<1>4. CASE Spawn(<<"driver", c>>) \/ Spawn(<<"tunnel", c>>)
  BY <1>1, <1>4, SpawnTracked, TaskMember
<1> QED BY <1>2, <1>3, <1>4

(* Changing a task to a final status starts no task.                         *)
LEMMA EndRunning ==
  ASSUME Shape, NEW t \in Task, NEW how \in {"ended", "panicked"},
         task' = [task EXCEPT ![t] = how]
  PROVE  Running' \subseteq Running
  BY DEF Running, Shape

(* The ends of tasks keep the tracking.                                      *)
LEMMA EndTracked ==
  ASSUME Shape, Tracking, NEW c \in Conns,
         Respond(c) \/ SwitchProtocols(c) \/ DriverEnds(c) \/ DriverUpgrades(c)
           \/ TunnelEnds(c)
  PROVE  Tracking'
<1>1. UNCHANGED TrackedVars
  BY DEF Respond, ConnEnds, SwitchProtocols, DriverEnds, DriverUpgrades, TunnelEnds,
         TrackedVars
<1>2. PICK k \in {"conn", "driver", "tunnel"} : task' = [task EXCEPT ![<<k, c>>] = "ended"]
  BY DEF Respond, ConnEnds, SwitchProtocols, DriverEnds, DriverUpgrades, TunnelEnds
<1>3. Running' \subseteq Running
  BY <1>2, EndRunning, TaskMember
<1> QED BY <1>1, <1>3, EndingTracked

(* A cancellation or panic keeps the tracking.                               *)
LEMMA InterruptedTracked ==
  ASSUME Shape, Tracking, NEW t \in Task, NEW how \in {"ended", "panicked"},
         Interrupted(t, how)
  PROVE  Tracking'
<1>1. UNCHANGED TrackedVars
  BY DEF Interrupted, ConnEnds, TrackedVars
<1>2. task' = [task EXCEPT ![t] = how]
  <2>1. t = <<t[1], t[2]>>
    BY DEF Task
  <2> QED BY <2>1 DEF Interrupted, ConnEnds
<1>3. Running' \subseteq Running
  BY <1>2, EndRunning
<1> QED BY <1>1, <1>3, EndingTracked

(* The tracking invariant holds in every reachable state.                    *)
THEOREM TrackingCorrect == Spec => []Tracking
<1>1. Init => Tracking
  BY DEF Init, Tracking, TasksTracked, Running
<1>2. Shape /\ Tracking /\ [Next]_vars => Tracking'
  <2> SUFFICES ASSUME Shape, Tracking, [Next]_vars PROVE Tracking'
    OBVIOUS
  <2>1. CASE OwnerStep \/ CallShutdown \/ CallDrop \/ Listen
    BY <2>1, OwnerTracked, ListenTracked
  <2>2. CASE Serve
    BY <2>2, RequestTracked, EndTracked, InterruptedTracked
       DEF Serve, Cancelled, Panics
  <2>3. CASE UNCHANGED vars
    BY <2>3, EndingTracked DEF vars, TrackedVars, Running
  <2> QED BY <2>1, <2>2, <2>3 DEF Next, Done
<1> QED BY <1>1, <1>2, ShapeCorrect, PTL DEF Spec

(***************************************************************************)
(* However tasks spawn tasks while shutdown, Drop or a failing listener      *)
(* closes the set, none runs without a handle or a cancellation.             *)
(***************************************************************************)
THEOREM TasksTrackedCorrect == Spec => []TasksTracked
<1>1. Tracking => TasksTracked
  BY DEF Tracking
<1> QED BY <1>1, TrackingCorrect, PTL

(***************************************************************************)
(* When RunningProxy::shutdown has returned, no listener accepts and no      *)
(* tracked task runs.                                                         *)
(***************************************************************************)
THEOREM ShutdownIsCompleteCorrect == Spec => []ShutdownIsComplete
<1>1. Tracking => ShutdownIsComplete
  BY DEF Tracking, TasksTracked, ShutdownIsComplete, Quiet
<1> QED BY <1>1, TrackingCorrect, PTL

-------------------------------------------------------------------------------
(* The connection semaphore.                                                 *)

Permits == permits \in Nat /\ PermitsConserved

(* Permit holders can be counted.                                            *)
LEMMA HoldersFinite == IsFiniteSet(Holders) /\ Cardinality(Holders) \in Nat
<1>1. Holders \subseteq Conns
  BY DEF Holders
<1>2. IsFiniteSet(Holders)
  BY <1>1, ProxyAssumption, FS_Subset
<1> QED BY <1>2, FS_CardinalityType

(* A step that changes neither side keeps the sum.                           *)
LEMMA SamePermits ==
  ASSUME Permits, Holders' = Holders, permits' = permits
  PROVE  Permits'
  BY DEF Permits, PermitsConserved

(* A new holder with one permit fewer keeps the sum.                         *)
LEMMA TakePermit ==
  ASSUME Permits, NEW c \in Conns \ Holders, Holders' = Holders \cup {c},
         permits > 0, permits' = permits - 1
  PROVE  Permits'
<1>1. Cardinality(Holders') = Cardinality(Holders) + 1
  BY HoldersFinite, FS_AddElement
<1> QED BY <1>1, HoldersFinite, ProxyAssumption DEF Permits, PermitsConserved

(* A holder fewer with one more permit keeps the sum.                        *)
LEMMA ReturnPermit ==
  ASSUME Permits, NEW c \in Holders, Holders' = Holders \ {c}, permits' = permits + 1
  PROVE  Permits'
<1>1. Cardinality(Holders') = Cardinality(Holders) - 1
  BY HoldersFinite, FS_RemoveElement
<1> QED BY <1>1, HoldersFinite, ProxyAssumption DEF Permits, PermitsConserved

(* An accepted connection takes a permit exactly when its task starts with one. *)
LEMMA AcceptPermits ==
  ASSUME Shape, Permits, NEW l \in Listeners, NEW c \in Conns, Accept(l, c)
  PROVE  Permits'
<1>1. c \notin Holders
  BY DEF Accept, Holders, PermitStep
<1>2. <<"conn", c>> \in Task
  BY TaskMember
<1>3. \A d \in Conns \ {c} : /\ step'[d] = step[d]
                             /\ task'[<<"conn", d>>] = task[<<"conn", d>>]
  BY <1>2, TaskMember DEF Accept, Spawn, Shape
<1>4. CASE closed \/ permits = 0
  <2>1. step'[c] \in {"closed", "busy"}
    BY <1>4 DEF Accept, Shape
  <2>2. Holders' = Holders
    BY <1>1, <1>3, <2>1 DEF Holders, PermitStep
  <2> QED BY <1>4, <2>2, SamePermits DEF Accept
<1>5. CASE ~(closed \/ permits = 0)
  <2>1. step'[c] = "prefix" /\ task'[<<"conn", c>>] = "running" /\ permits' = permits - 1
        /\ permits > 0
    BY <1>2, <1>5 DEF Accept, Spawn, Shape, Permits
  <2>2. Holders' = Holders \cup {c}
    BY <1>3, <2>1 DEF Holders, PermitStep
  <2> QED BY <1>1, <2>1, <2>2, TakePermit
<1> QED BY <1>4, <1>5

(* The steps of a request keep the permit.                                   *)
LEMMA RequestPermits ==
  ASSUME Shape, Permits, NEW c \in Conns,
         \/ ReadPrefix(c) \/ HandleRequest(c) \/ ConnectUpstream(c)
         \/ UpstreamResponse(c) \/ SpawnTunnel(c)
  PROVE  Permits'
<1>1. /\ permits' = permits /\ c \in Holders
      /\ step'[c] \in PermitStep
      /\ \A d \in Conns \ {c} : step'[d] = step[d]
  BY DEF ReadPrefix, HandleRequest, ConnectUpstream, UpstreamResponse, SpawnTunnel,
         At, Holders, PermitStep, Shape
<1>2. \A d \in Conns : task'[<<"conn", d>>] = task[<<"conn", d>>]
  <2>1. \/ UNCHANGED task
        \/ Spawn(<<"driver", c>>)
        \/ Spawn(<<"tunnel", c>>)
    BY DEF ReadPrefix, HandleRequest, ConnectUpstream, UpstreamResponse, SpawnTunnel
  <2> QED BY <2>1, TaskMember DEF Spawn, Shape
<1>3. Holders' = Holders
  BY <1>1, <1>2 DEF Holders
<1> QED BY <1>1, <1>3, SamePermits

(* The end of a connection task returns its permit, if it had one.           *)
LEMMA ConnEndsPermits ==
  ASSUME Shape, Permits, NEW c \in Conns, NEW how \in {"ended", "panicked"},
         task[<<"conn", c>>] = "running", ConnEnds(c, how)
  PROVE  Permits'
<1>1. /\ task'[<<"conn", c>>] # "running"
      /\ \A d \in Conns \ {c} : /\ step'[d] = step[d]
                                /\ task'[<<"conn", d>>] = task[<<"conn", d>>]
  BY TaskMember DEF ConnEnds, Shape
<1>2. Holders' = Holders \ {c}
  BY <1>1 DEF Holders
<1>3. CASE step[c] \in PermitStep
  <2>1. c \in Holders /\ permits' = permits + 1
    BY <1>3 DEF Holders, ConnEnds
  <2> QED BY <1>2, <2>1, ReturnPermit
<1>4. CASE step[c] \notin PermitStep
  <2>1. Holders' = Holders /\ permits' = permits
    BY <1>2, <1>4 DEF Holders, ConnEnds
  <2> QED BY <2>1, SamePermits
<1> QED BY <1>3, <1>4

(* The end of a driver or tunnel touches no permit.                          *)
LEMMA OtherEndPermits ==
  ASSUME Shape, Permits, NEW c \in Conns, NEW k \in {"driver", "tunnel"}, NEW how,
         task' = [task EXCEPT ![<<k, c>>] = how], UNCHANGED <<step, permits>>
  PROVE  Permits'
<1>1. \A d \in Conns : task'[<<"conn", d>>] = task[<<"conn", d>>]
  BY TaskMember DEF Shape
<1>2. Holders' = Holders
  BY <1>1 DEF Holders
<1> QED BY <1>2, SamePermits

(* Every ordinary end of a task keeps the sum.                               *)
LEMMA EndPermits ==
  ASSUME Shape, Permits, NEW c \in Conns,
         Respond(c) \/ SwitchProtocols(c) \/ DriverEnds(c) \/ DriverUpgrades(c)
           \/ TunnelEnds(c)
  PROVE  Permits'
<1>1. CASE Respond(c)
  BY <1>1, ConnEndsPermits DEF Respond, At
<1>2. CASE SwitchProtocols(c)
  <2>1. c \in Holders /\ permits' = permits + 1
    BY <1>2 DEF SwitchProtocols, At, Holders, PermitStep
  <2>2. /\ task'[<<"conn", c>>] # "running"
        /\ \A d \in Conns \ {c} : /\ step'[d] = step[d]
                                  /\ task'[<<"conn", d>>] = task[<<"conn", d>>]
    BY <1>2, TaskMember DEF SwitchProtocols, Shape
  <2>3. Holders' = Holders \ {c}
    BY <2>2 DEF Holders
  <2> QED BY <2>1, <2>3, ReturnPermit
<1>3. CASE DriverEnds(c) \/ DriverUpgrades(c) \/ TunnelEnds(c)
  <2>1. /\ UNCHANGED <<step, permits>>
        /\ \/ task' = [task EXCEPT ![<<"driver", c>>] = "ended"]
           \/ task' = [task EXCEPT ![<<"tunnel", c>>] = "ended"]
    BY <1>3 DEF DriverEnds, DriverUpgrades, TunnelEnds
  <2> QED BY <2>1, OtherEndPermits
<1> QED BY <1>1, <1>2, <1>3

(* A cancellation or panic keeps the sum.                                    *)
LEMMA InterruptedPermits ==
  ASSUME Shape, Permits, NEW t \in Task, NEW how \in {"ended", "panicked"},
         Interrupted(t, how)
  PROVE  Permits'
<1>0. t = <<t[1], t[2]>> /\ t[2] \in Conns /\ t \in Running
  BY DEF Task, Interrupted
<1>1. CASE t[1] = "conn"
  <2>1. ConnEnds(t[2], how) /\ task[<<"conn", t[2]>>] = "running"
    BY <1>0, <1>1 DEF Interrupted, Running
  <2> QED BY <1>0, <2>1, ConnEndsPermits
<1>2. CASE t[1] # "conn"
  <2>1. /\ t[1] \in {"driver", "tunnel"} /\ task' = [task EXCEPT ![<<t[1], t[2]>>] = how]
        /\ UNCHANGED <<step, permits>>
    BY <1>0, <1>2 DEF Interrupted
  <2> QED BY <1>0, <2>1, OtherEndPermits
<1> QED BY <1>1, <1>2

(* The semaphore invariant holds in every reachable state.                   *)
THEOREM PermitsCorrect == Spec => []Permits
<1>1. Init => Permits
  <2> SUFFICES ASSUME Init PROVE Permits
    OBVIOUS
  <2>1. Holders = {}
    BY DEF Init, Holders, PermitStep
  <2>2. Cardinality(Holders) = 0
    BY <2>1, FS_EmptySet
  <2> QED BY <2>2, ProxyAssumption DEF Init, Permits, PermitsConserved
<1>2. Shape /\ Permits /\ [Next]_vars => Permits'
  <2> SUFFICES ASSUME Shape, Permits, [Next]_vars PROVE Permits'
    OBVIOUS
  <2>1. CASE \/ OwnerStep \/ CallShutdown \/ CallDrop \/ UNCHANGED vars
             \/ \E l \in Listeners :
                  ListenerStops(l) \/ ListenerFails(l) \/ ListenerPanics(l)
    <3>1. UNCHANGED <<task, step, permits>>
      BY <2>1 DEF OwnerStep, Bind, ShutdownAbortAll, JoinListeners, ShutdownTake,
         JoinTasks, DropTake, CallShutdown, CallDrop, ListenerStops, ListenerFails,
         ListenerPanics, vars
    <3> QED BY <3>1, SamePermits DEF Holders
  <2>2. ASSUME NEW l \in Listeners, NEW c \in Conns, Accept(l, c) PROVE Permits'
    BY <2>2, AcceptPermits
  <2>3. CASE Serve
    BY <2>3, RequestPermits, EndPermits, InterruptedPermits
       DEF Serve, Cancelled, Panics
  <2> QED BY <2>1, <2>2, <2>3 DEF Next, Done, Listen
<1> QED BY <1>1, <1>2, ShapeCorrect, PTL DEF Spec

(***************************************************************************)
(* For every limit and every number of connections, a permit is held exactly *)
(* as long as its connection task runs.                                       *)
(***************************************************************************)
THEOREM PermitsConservedCorrect == Spec => []PermitsConserved
<1>1. Permits => PermitsConserved
  BY DEF Permits
<1> QED BY <1>1, PermitsCorrect, PTL

(* Every variable, the semaphore included, is well typed.                    *)
THEOREM TypeCorrect == Spec => []TypeOK
<1>1. Shape /\ Permits => TypeOK
  BY HoldersFinite, ProxyAssumption DEF Shape, Permits, PermitsConserved, TypeOK
<1> QED BY <1>1, ShapeCorrect, PermitsCorrect, PTL

===============================================================================
