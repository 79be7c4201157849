---------------------------- MODULE TransportProxy ----------------------------
(***************************************************************************)
(* The authenticated loopback proxy (crates/transport/src/proxy.rs): two    *)
(* listener tasks, one task per accepted connection, and for a forwarded    *)
(* request an upstream driver task and, after a WebSocket upgrade, a tunnel *)
(* task.  All of them are spawned through TrackedTasks, whose lock makes    *)
(* each of spawn, abort_all and close_and_take atomic.                      *)
(*                                                                          *)
(* The tasks run on a thread pool, so a step of any of them may fall        *)
(* between two steps of RunningProxy::shutdown or of its Drop.  abort()     *)
(* ends a task at its next await; a poll in progress, and every await that  *)
(* is ready in it, still runs, so a cancelled task may take further steps.  *)
(*                                                                          *)
(* What the bytes of a request or response say is abstracted to the outcome *)
(* of the check that reads them.                                            *)
(***************************************************************************)
EXTENDS Naturals, FiniteSets

CONSTANTS Conns,           \* TCP connections that clients may open
          Listeners,       \* the IPv4 and IPv6 listener tasks
          MaxConnections,  \* limits.max_connections
          BindAttempts     \* DUAL_LOOPBACK_BIND_ATTEMPTS

ASSUME ProxyAssumption ==
  /\ IsFiniteSet(Conns)
  /\ MaxConnections \in Nat \ {0}
  /\ BindAttempts \in Nat \ {0}

VARIABLES
  pc,          \* control point of the owner of RunningProxy
  attempts,    \* failed attempts to bind both loopback listeners
  shutdown,    \* value of the shutdown watch channel
  listener,    \* what each listener task does
  closed,      \* TrackedTaskState::closed
  handles,     \* TrackedTaskState::handles
  taken,       \* handles moved out by close_and_take and not yet awaited
  task,        \* status of every task
  cancelled,   \* tasks and listeners that were aborted
  step,        \* progress of the request on each connection
  websocket,   \* connections whose admission found a WebSocket upgrade
  up, down,    \* the two OnUpgrade futures of each connection's tunnel
  permits,     \* permits left in the connection semaphore
  bootstrap_consumed,
  result       \* what shutdown() returned

ownerVars == <<pc, attempts, result>>
trackVars == <<closed, handles, taken>>
connVars == <<step, websocket, up, down, permits>>

vars == <<ownerVars, shutdown, listener, trackVars, task, cancelled, connVars,
          bootstrap_consumed>>

Task == {"conn", "driver", "tunnel"} \X Conns

Running == {t \in Task : task[t] = "running"}

(* Steps of a connection task that hold a semaphore permit.                  *)
PermitStep == {"prefix", "rejected", "serve", "connect", "await", "respond", "switch"}

(* Connections whose task holds a permit.                                    *)
Holders == {c \in Conns : task[<<"conn", c>>] = "running" /\ step[c] \in PermitStep}

Init ==
  /\ pc = "bind" /\ attempts = 0 /\ result = "none"
  /\ shutdown = FALSE
  /\ listener = [l \in Listeners |-> "none"]
  /\ closed = FALSE /\ handles = {} /\ taken = {}
  /\ task = [t \in Task |-> "none"]
  /\ cancelled = {}
  /\ step = [c \in Conns |-> "new"]
  /\ websocket = {}
  /\ up = [c \in Conns |-> "none"] /\ down = [c \in Conns |-> "none"]
  /\ permits = MaxConnections
  /\ bootstrap_consumed = FALSE

-------------------------------------------------------------------------------
(* TrackedTasks.                                                             *)

(* Mutant: a task is spawned after the set was closed.                       *)
SpawnIgnoresClosed(t) ==
  /\ handles' = (handles \cap Running) \cup {t}
  /\ task' = [task EXCEPT ![t] = "running"]

(***************************************************************************)
(* spawn: finished handles are pruned first; a closed set drops the future  *)
(* unpolled.                                                                 *)
(***************************************************************************)
Spawn(t) ==
  /\ handles' = (handles \cap Running) \cup (IF closed THEN {} ELSE {t})
  /\ task' = IF closed THEN task ELSE [task EXCEPT ![t] = "running"]

(* abort_all: the handles stay.                                              *)
AbortAll ==
  /\ closed' = TRUE
  /\ cancelled' = cancelled \cup handles

-------------------------------------------------------------------------------
(* RunningProxy::start.  Both listeners are bound, or an address conflict    *)
(* is retried, or the last conflict or any other error ends the start.       *)

Bind ==
  /\ pc = "bind"
  /\ \/ /\ pc' = "run"
        /\ listener' = [l \in Listeners |-> "accepting"]
        /\ attempts' = 0
     \/ /\ attempts + 1 < BindAttempts
        /\ attempts' = attempts + 1
        /\ UNCHANGED <<pc, listener>>
     \/ /\ pc' = "unstarted"
        /\ attempts' = 0
        /\ UNCHANGED listener
  /\ UNCHANGED <<result, shutdown, trackVars, task, cancelled, connVars,
                 bootstrap_consumed>>

-------------------------------------------------------------------------------
(* run_listener.  select! may take an accept result although the shutdown    *)
(* flag is set.                                                              *)

ListenerStops(l) ==
  /\ listener[l] = "accepting"
  /\ shutdown \/ l \in cancelled
  /\ listener' = [listener EXCEPT ![l] = "stopped"]
  /\ UNCHANGED <<ownerVars, shutdown, trackVars, task, cancelled, connVars,
                 bootstrap_consumed>>

(* Mutant: the failing listener leaves the other one and the tasks alone.    *)
ListenerFailsAlone(l) ==
  /\ listener[l] = "accepting"
  /\ listener' = [listener EXCEPT ![l] = "failed"]
  /\ shutdown' = TRUE
  /\ UNCHANGED <<ownerVars, trackVars, task, cancelled, connVars, bootstrap_consumed>>

ListenerFails(l) ==
  /\ listener[l] = "accepting"
  /\ listener' = [listener EXCEPT ![l] = "failed"]
  /\ shutdown' = TRUE
  /\ AbortAll
  /\ UNCHANGED <<ownerVars, handles, taken, task, connVars, bootstrap_consumed>>

ListenerPanics(l) ==
  /\ listener[l] = "accepting"
  /\ listener' = [listener EXCEPT ![l] = "panicked"]
  /\ UNCHANGED <<ownerVars, shutdown, trackVars, task, cancelled, connVars,
                 bootstrap_consumed>>

(* Mutant: the permit of a connection that could not be spawned is lost.     *)
AcceptLosesPermit(l, c) ==
  /\ listener[l] = "accepting" /\ step[c] = "new"
  /\ Spawn(<<"conn", c>>)
  /\ step' = [step EXCEPT ![c] = IF closed THEN "closed"
                                 ELSE IF permits > 0 THEN "prefix" ELSE "busy"]
  /\ permits' = IF permits > 0 THEN permits - 1 ELSE permits
  /\ UNCHANGED <<ownerVars, shutdown, listener, closed, taken, cancelled, websocket,
                 up, down, bootstrap_consumed>>

(***************************************************************************)
(* A connection is accepted.  With a permit its task handles the socket,    *)
(* without one it only writes a 503.  If the task set is closed, socket and *)
(* permit are dropped.                                                       *)
(***************************************************************************)
Accept(l, c) ==
  /\ listener[l] = "accepting" /\ step[c] = "new"
  /\ Spawn(<<"conn", c>>)
  /\ step' = [step EXCEPT ![c] = IF closed THEN "closed"
                                 ELSE IF permits > 0 THEN "prefix" ELSE "busy"]
  /\ permits' = IF closed \/ permits = 0 THEN permits ELSE permits - 1
  /\ UNCHANGED <<ownerVars, shutdown, listener, closed, taken, cancelled, websocket,
                 up, down, bootstrap_consumed>>

Listen ==
  \E l \in Listeners :
    \/ ListenerStops(l) \/ ListenerFails(l) \/ ListenerPanics(l)
    \/ \E c \in Conns : Accept(l, c)

-------------------------------------------------------------------------------
(* handle_socket, handle_request, forward_http and forward_websocket.        *)

At(c, s) == task[<<"conn", c>>] = "running" /\ step[c] = s

ConnFrame == <<ownerVars, shutdown, listener, closed, taken, cancelled, permits>>

(* The raw prefix is read and admitted, or refused or late (400).            *)
ReadPrefix(c) ==
  /\ At(c, "prefix")
  /\ \/ /\ step' = [step EXCEPT ![c] = "serve"]
        /\ websocket' \in {websocket, websocket \cup {c}}
     \/ step' = [step EXCEPT ![c] = "rejected"] /\ UNCHANGED websocket
  /\ UNCHANGED <<ConnFrame, handles, task, up, down, bootstrap_consumed>>

(***************************************************************************)
(* A bootstrap request consumes the one-time credential; a refused one, and *)
(* every request that fails the origin or cookie check, is answered here;   *)
(* an authenticated one is forwarded.                                        *)
(***************************************************************************)
HandleRequest(c) ==
  /\ At(c, "serve")
  /\ \/ /\ ~bootstrap_consumed
        /\ bootstrap_consumed' = TRUE
        /\ step' = [step EXCEPT ![c] = "respond"]
     \/ /\ step' = [step EXCEPT ![c] = "respond"]
        /\ UNCHANGED bootstrap_consumed
     \/ /\ step' = [step EXCEPT ![c] = "connect"]
        /\ UNCHANGED bootstrap_consumed
  /\ UNCHANGED <<ConnFrame, handles, task, websocket, up, down>>

(* The upstream connection is made and its driver spawned, or 502.           *)
ConnectUpstream(c) ==
  /\ At(c, "connect")
  /\ \/ /\ Spawn(<<"driver", c>>)
        /\ step' = [step EXCEPT ![c] = IF closed THEN "respond" ELSE "await"]
        /\ up' = IF c \in websocket /\ ~closed THEN [up EXCEPT ![c] = "pending"] ELSE up
     \/ /\ step' = [step EXCEPT ![c] = "respond"]
        /\ UNCHANGED <<handles, task, up>>
  /\ UNCHANGED <<ConnFrame, websocket, down, bootstrap_consumed>>

(* A response to forward, or a timeout, error or unacceptable head (502).    *)
UpstreamResponse(c) ==
  /\ At(c, "await")
  /\ step' = [step EXCEPT ![c] = "respond"]
  /\ UNCHANGED <<ConnFrame, handles, task, websocket, up, down, bootstrap_consumed>>

(* The upstream switched protocols: spawn the tunnel, then answer 101.       *)
SpawnTunnel(c) ==
  /\ At(c, "await") /\ c \in websocket
  /\ Spawn(<<"tunnel", c>>)
  /\ step' = [step EXCEPT ![c] = IF closed THEN "respond" ELSE "switch"]
  /\ down' = IF closed THEN down ELSE [down EXCEPT ![c] = "pending"]
  /\ UNCHANGED <<ConnFrame, websocket, up, bootstrap_consumed>>

-------------------------------------------------------------------------------
(* How tasks end.                                                            *)

EndFrame == <<ownerVars, shutdown, listener, trackVars, cancelled, websocket,
              bootstrap_consumed>>

(* An OnUpgrade future whose sender is dropped resolves to an error.         *)
Lose(upgrade, c) ==
  IF upgrade[c] = "pending" THEN [upgrade EXCEPT ![c] = "lost"] ELSE upgrade

(* Mutant: a task that only writes a 503 returns a permit too.               *)
ConnEndsReturnsPermit(c, how) ==
  /\ task' = [task EXCEPT ![<<"conn", c>>] = how]
  /\ permits' = permits + 1
  /\ step' = [step EXCEPT ![c] = "closed"]
  /\ down' = Lose(down, c)
  /\ UNCHANGED <<EndFrame, up>>

(* The future of a connection task is dropped: its socket and permit are.    *)
ConnEnds(c, how) ==
  /\ task' = [task EXCEPT ![<<"conn", c>>] = how]
  /\ permits' = IF step[c] \in PermitStep THEN permits + 1 ELSE permits
  /\ step' = [step EXCEPT ![c] = "closed"]
  /\ down' = Lose(down, c)
  /\ UNCHANGED <<EndFrame, up>>

(* The response, or the raw rejection, is written or its client is gone.     *)
Respond(c) ==
  /\ \E s \in {"busy", "rejected", "respond", "switch"} : At(c, s)
  /\ ConnEnds(c, "ended")

(* The 101 is written: hyper hands the socket to the tunnel and returns.     *)
SwitchProtocols(c) ==
  /\ At(c, "switch")
  /\ task' = [task EXCEPT ![<<"conn", c>>] = "ended"]
  /\ permits' = permits + 1
  /\ step' = [step EXCEPT ![c] = "upgraded"]
  /\ down' = [down EXCEPT ![c] = "ready"]
  /\ UNCHANGED <<EndFrame, up>>

(* The upstream connection closed, or its request was dropped.               *)
DriverEnds(c) ==
  /\ task[<<"driver", c>>] = "running"
  /\ task' = [task EXCEPT ![<<"driver", c>>] = "ended"]
  /\ up' = Lose(up, c)
  /\ UNCHANGED <<EndFrame, step, down, permits>>

DriverUpgrades(c) ==
  /\ task[<<"driver", c>>] = "running" /\ up[c] = "pending"
  /\ task[<<"tunnel", c>>] = "running"
  /\ task' = [task EXCEPT ![<<"driver", c>>] = "ended"]
  /\ up' = [up EXCEPT ![c] = "ready"]
  /\ UNCHANGED <<EndFrame, step, down, permits>>

(* Either upgrade failed, or both are there and the transfer ended or idled. *)
TunnelEnds(c) ==
  /\ task[<<"tunnel", c>>] = "running"
  /\ "lost" \in {up[c], down[c]} \/ {up[c], down[c]} = {"ready"}
  /\ task' = [task EXCEPT ![<<"tunnel", c>>] = "ended"]
  /\ UNCHANGED <<EndFrame, up, down, step, permits>>

(* A cancelled task ends at an await; a panicking one anywhere.              *)
Interrupted(t, how) ==
  /\ t \in Running
  /\ \/ t[1] = "conn" /\ ConnEnds(t[2], how)
     \/ /\ t[1] = "driver"
        /\ task' = [task EXCEPT ![t] = how]
        /\ up' = Lose(up, t[2])
        /\ UNCHANGED <<EndFrame, step, down, permits>>
     \/ /\ t[1] = "tunnel"
        /\ task' = [task EXCEPT ![t] = how]
        /\ UNCHANGED <<EndFrame, up, down, step, permits>>

Cancelled(t) == t \in cancelled /\ Interrupted(t, "ended")

Panics(t) == Interrupted(t, "panicked")

Serve ==
  \/ \E c \in Conns :
       \/ ReadPrefix(c) \/ HandleRequest(c) \/ ConnectUpstream(c)
       \/ UpstreamResponse(c) \/ SpawnTunnel(c)
       \/ Respond(c) \/ SwitchProtocols(c)
       \/ DriverEnds(c) \/ DriverUpgrades(c) \/ TunnelEnds(c)
  \/ \E t \in Task : Cancelled(t) \/ Panics(t)

-------------------------------------------------------------------------------
(* RunningProxy::shutdown and Drop.                                          *)

(* Mutant: the watch channel is not signalled.                               *)
CallShutdownSilent ==
  /\ pc = "run"
  /\ pc' = "abortAll"
  /\ UNCHANGED <<attempts, result, shutdown, listener, trackVars, task, cancelled,
                 connVars, bootstrap_consumed>>

CallShutdown ==
  /\ pc = "run"
  /\ shutdown' = TRUE
  /\ pc' = "abortAll"
  /\ UNCHANGED <<attempts, result, listener, trackVars, task, cancelled, connVars,
                 bootstrap_consumed>>

ShutdownAbortAll ==
  /\ pc = "abortAll"
  /\ AbortAll
  /\ pc' = "joinListeners"
  /\ UNCHANGED <<attempts, result, shutdown, listener, handles, taken, task, connVars,
                 bootstrap_consumed>>

JoinListeners ==
  /\ pc = "joinListeners"
  /\ \A l \in Listeners : listener[l] # "accepting"
  /\ pc' = "take"
  /\ result' = IF \A l \in Listeners : listener[l] = "stopped" THEN "ok" ELSE "err"
  /\ UNCHANGED <<attempts, shutdown, listener, trackVars, task, cancelled, connVars,
                 bootstrap_consumed>>

(* close_and_take, then abort() on every handle taken.                       *)
CloseAndTake ==
  /\ closed' = TRUE
  /\ taken' = handles /\ handles' = {}
  /\ cancelled' = cancelled \cup handles

ShutdownTake ==
  /\ pc = "take"
  /\ CloseAndTake
  /\ pc' = "joinTasks"
  /\ UNCHANGED <<attempts, result, shutdown, listener, task, connVars,
                 bootstrap_consumed>>

(***************************************************************************)
(* Every taken handle is awaited; a cancelled task is no error.  The Drop   *)
(* of the consumed value then finds nothing left to abort.                   *)
(***************************************************************************)
JoinTasks ==
  /\ pc = "joinTasks"
  /\ taken \cap Running = {}
  /\ pc' = "returned"
  /\ result' = IF \E t \in taken : task[t] = "panicked" THEN "err" ELSE result
  /\ taken' = {}
  /\ UNCHANGED <<attempts, shutdown, listener, closed, handles, task, cancelled,
                 connVars, bootstrap_consumed>>

(* Drop without shutdown: signal and abort the listeners, then the tasks.    *)
CallDrop ==
  /\ pc = "run"
  /\ shutdown' = TRUE
  /\ cancelled' = cancelled \cup Listeners
  /\ pc' = "dropTake"
  /\ UNCHANGED <<attempts, result, listener, trackVars, task, connVars,
                 bootstrap_consumed>>

(* Mutant: Drop aborts the tasks it sees and leaves the set open.            *)
DropTakeLeavesOpen ==
  /\ pc = "dropTake"
  /\ handles' = {} /\ cancelled' = cancelled \cup handles
  /\ pc' = "dropped"
  /\ UNCHANGED <<closed, taken, attempts, result, shutdown, listener, task, connVars,
                 bootstrap_consumed>>

DropTake ==
  /\ pc = "dropTake"
  /\ closed' = TRUE
  /\ handles' = {} /\ cancelled' = cancelled \cup handles
  /\ pc' = "dropped"
  /\ UNCHANGED <<taken, attempts, result, shutdown, listener, task, connVars,
                 bootstrap_consumed>>

OwnerStep ==
  Bind \/ ShutdownAbortAll \/ JoinListeners \/ ShutdownTake \/ JoinTasks \/ DropTake

Done == pc \in {"unstarted", "returned", "dropped"} /\ Running = {} /\ UNCHANGED vars

Next == OwnerStep \/ CallShutdown \/ CallDrop \/ Listen \/ Serve \/ Done

(***************************************************************************)
(* Fairness.  The owner's thread and the executor run; an aborted task is    *)
(* dropped; a listener sees the shutdown flag.  Nothing is assumed of        *)
(* clients or of the upstream.                                                *)
(***************************************************************************)
Fairness ==
  /\ WF_vars(OwnerStep)
  /\ \A l \in Listeners : WF_vars(ListenerStops(l))
  /\ \A t \in Task : WF_vars(Cancelled(t))

Spec == Init /\ [][Next]_vars

FairSpec == Spec /\ Fairness

-------------------------------------------------------------------------------
(* Properties.                                                               *)

(* Every variable holds a value of its type.                                 *)
TypeOK ==
  /\ pc \in {"bind", "unstarted", "run", "abortAll", "joinListeners", "take",
             "joinTasks", "returned", "dropTake", "dropped"}
  /\ attempts \in 0..(BindAttempts - 1) /\ result \in {"none", "ok", "err"}
  /\ shutdown \in BOOLEAN
  /\ listener \in [Listeners -> {"none", "accepting", "stopped", "failed", "panicked"}]
  /\ closed \in BOOLEAN /\ handles \in SUBSET Task /\ taken \in SUBSET Task
  /\ task \in [Task -> {"none", "running", "ended", "panicked"}]
  /\ cancelled \in SUBSET (Task \cup Listeners)
  /\ step \in [Conns -> PermitStep \cup {"new", "busy", "upgraded", "closed"}]
  /\ websocket \in SUBSET Conns
  /\ up \in [Conns -> {"none", "pending", "ready", "lost"}]
  /\ down \in [Conns -> {"none", "pending", "ready", "lost"}]
  /\ permits \in 0..MaxConnections
  /\ bootstrap_consumed \in BOOLEAN

(***************************************************************************)
(* No task escapes: every running task can still be awaited through its     *)
(* handle, or the owner is gone and the task was aborted.  Pruning, the two *)
(* closers and tasks that spawn tasks never leave one untracked.            *)
(***************************************************************************)
TasksTracked ==
  Running \subseteq IF pc = "dropped" THEN cancelled ELSE handles \cup taken

(***************************************************************************)
(* "Stop accepting traffic, cancel every active connection and upstream     *)
(* task, and wait until all tracked work has terminated": when shutdown has *)
(* returned nothing runs, and nothing will.                                  *)
(***************************************************************************)
Quiet == Running = {} /\ \A l \in Listeners : listener[l] # "accepting"

ShutdownIsComplete == pc = "returned" => Quiet /\ closed

(***************************************************************************)
(* A permit is held exactly as long as its connection task: it is neither   *)
(* lost nor returned twice when a task is refused, cancelled, upgraded or   *)
(* panics.                                                                   *)
(***************************************************************************)
PermitsConserved == permits + Cardinality(Holders) = MaxConnections

(***************************************************************************)
(* Whoever raises the shutdown flag (shutdown, Drop or a failing listener), *)
(* both listeners and every task end.                                        *)
(***************************************************************************)
StopReachesAll == shutdown ~> Quiet

(* shutdown() returns, whatever clients and upstream do.                     *)
ShutdownReturns == pc = "abortAll" ~> pc = "returned"

(***************************************************************************)
(* limits.rs calls max_connections "Maximum concurrently admitted TCP       *)
(* connections".                                                             *)
(***************************************************************************)
Admitted ==
  Holders \cup {c \in Conns : step[c] = "upgraded" /\ <<"tunnel", c>> \in Running}

ConnectionLimit == Cardinality(Admitted) <= MaxConnections
===============================================================================
