------------------------------ MODULE NativeApp ------------------------------
(***************************************************************************)
(* NativeAppOwner (crates/windows-lifecycle/src/desktop.rs): one            *)
(* authenticated proxy and one runtime owner.  Of the runtime owner it uses *)
(* what OwnerContract promises; its proxy may lose its listeners at any     *)
(* time, and shutting it down may report an error, but leaves nothing       *)
(* running (TransportProxy!ShutdownIsComplete).                             *)
(*                                                                          *)
(* An operation runs between two values "idle" of `app`.  The runtime calls *)
(* are made on a blocking worker, which may panic; the value it had taken   *)
(* is then dropped by the unwinding.                                         *)
(***************************************************************************)
EXTENDS OwnerContract

VARIABLES
  app,          \* control point of the running operation
  proxy,        \* listeners: "none", "running", "failed" or "stopped"
  proxy_held,   \* the field `proxy` is Some
  runtime_held, \* the field `runtime` is Some
  forced,       \* RuntimeStop::Forced
  polling,      \* the operation is poll_health
  runtime_ok,   \* result of stop_runtime: "none", "ok" or "err"
  proxy_ok,     \* result of stop_proxy
  result        \* of the last operation: "none", "ok" or "err"

appLocals == <<forced, polling, runtime_ok, proxy_ok>>
nativeVars == <<app, proxy, proxy_held, runtime_held, appLocals, result>>

LaunchAt == {"prepare", "bind", "resolve", "worker", "launchCleanup"}
StopAt == {"runtime", "runtimeAnswer", "proxy", "finish"}
DropAt == {"dropProxy", "dropRuntime", "dropped"}

NativeInit ==
  /\ app = "unborn" /\ proxy = "none" /\ proxy_held = FALSE /\ runtime_held = FALSE
  /\ forced = FALSE /\ polling = FALSE
  /\ runtime_ok = "none" /\ proxy_ok = "none" /\ result = "none"
  /\ phase = "absent" /\ busy = FALSE /\ answer = "none"
  /\ tree = FALSE /\ session = FALSE

(* A listener dies; TransportProxy then stops the others, and nobody asks.   *)
ListenerFails ==
  /\ proxy = "running"
  /\ proxy' = "failed"
  /\ UNCHANGED <<contractVars, app, proxy_held, runtime_held, appLocals, result>>

(***************************************************************************)
(* RunningProxy::shutdown: nothing runs afterwards, whatever it answers.  A *)
(* listener that had failed is reported.                                     *)
(***************************************************************************)
ProxyShutdown(ok) ==
  /\ proxy' = "stopped"
  /\ ok => proxy = "running"

-------------------------------------------------------------------------------
(* launch.                                                                   *)

LaunchCalled ==
  /\ app = "unborn"
  /\ app' = "prepare" /\ result' = "none"
  /\ UNCHANGED <<contractVars, proxy, proxy_held, runtime_held, appLocals>>

(* Limits, bundle, port and secrets: a failure here leaves nothing behind.   *)
Prepare ==
  /\ app = "prepare"
  /\ \/ app' = "bind" /\ UNCHANGED result
     \/ app' = "gone" /\ result' = "err"
  /\ UNCHANGED <<contractVars, proxy, proxy_held, runtime_held, appLocals>>

BindProxy ==
  /\ app = "bind"
  /\ \/ app' = "resolve" /\ proxy' = "running" /\ UNCHANGED result
     \/ app' = "gone" /\ result' = "err" /\ UNCHANGED proxy
  /\ UNCHANGED <<contractVars, proxy_held, runtime_held, appLocals>>

(* A hostname outside loopback ends the launch; otherwise the worker starts. *)
ResolveHost ==
  /\ app = "resolve"
  /\ \/ /\ app' = "worker"
        /\ phase' = "starting" /\ busy' = TRUE
     \/ app' = "launchCleanup" /\ UNCHANGED <<phase, busy>>
  /\ UNCHANGED <<answer, tree, session, proxy, proxy_held, runtime_held, appLocals,
                 result>>

LaunchAnswer ==
  /\ app = "worker" /\ ~busy
  /\ \/ /\ phase = "ready"
        /\ app' = "idle" /\ result' = "ok"
        /\ proxy_held' = TRUE /\ runtime_held' = TRUE
     \/ /\ phase = "gone"
        /\ app' = "launchCleanup"
        /\ UNCHANGED <<result, proxy_held, runtime_held>>
  /\ UNCHANGED <<contractVars, proxy, appLocals>>

(* Mutant: a failed launch returns without stopping its proxy.               *)
CleanupProxyForgotten ==
  /\ app = "launchCleanup"
  /\ app' = "gone" /\ result' = "err"
  /\ UNCHANGED <<contractVars, proxy, proxy_held, runtime_held, appLocals>>

CleanupProxyAfterFailure ==
  /\ app = "launchCleanup"
  /\ \E ok \in BOOLEAN : ProxyShutdown(ok)
  /\ app' = "gone" /\ result' = "err"
  /\ UNCHANGED <<contractVars, proxy_held, runtime_held, appLocals>>

-------------------------------------------------------------------------------
(* The blocking worker panics while it starts or stops the runtime: the      *)
(* value is dropped while the stack unwinds.                                 *)
WorkerPanics ==
  /\ app \in {"worker", "runtimeAnswer"} /\ busy
  /\ phase \in {"starting", "waking", "held", "closing", "dirty"}
  /\ phase' = "ending"
  /\ UNCHANGED <<busy, answer, tree, session, nativeVars>>

(* stop_runtime takes the value; without one it fails at once.               *)
StopRuntime ==
  /\ app = "runtime"
  /\ \/ /\ runtime_held
        /\ runtime_held' = FALSE
        /\ Stop \/ (phase = "clean" /\ Refuse)
        /\ app' = "runtimeAnswer" /\ UNCHANGED runtime_ok
     \/ /\ ~runtime_held
        /\ runtime_ok' = "err"
        /\ app' = IF forced THEN "finish" ELSE "proxy"
        /\ UNCHANGED <<contractVars, runtime_held>>
  /\ UNCHANGED <<proxy, proxy_held, forced, polling, proxy_ok, result>>

(* Mutant: the value is dropped with the worker's tuple, error or not.       *)
RuntimeAnswerLosesValue ==
  /\ app = "runtimeAnswer" /\ ~busy
  /\ runtime_ok' = IF answer = "report" THEN "ok" ELSE "err"
  /\ phase' = IF answer = "report" THEN "gone" ELSE phase
  /\ app' = IF forced THEN "finish" ELSE "proxy"
  /\ UNCHANGED <<busy, answer, tree, session, proxy, proxy_held, runtime_held, forced,
                 polling, proxy_ok, result>>

(***************************************************************************)
(* With a report the value, which is clean, is dropped; with an error it is  *)
(* put back; after a panic there is none.                                    *)
(***************************************************************************)
RuntimeAnswer ==
  /\ app = "runtimeAnswer" /\ ~busy
  /\ \/ /\ phase # "gone" /\ answer = "report"
        /\ phase' = "gone" /\ runtime_ok' = "ok" /\ UNCHANGED runtime_held
     \/ /\ phase # "gone" /\ answer # "report"
        /\ runtime_held' = TRUE /\ runtime_ok' = "err" /\ UNCHANGED phase
     \/ /\ phase = "gone"
        /\ runtime_ok' = "err" /\ UNCHANGED <<phase, runtime_held>>
  /\ app' = IF forced THEN "finish" ELSE "proxy"
  /\ UNCHANGED <<busy, answer, tree, session, proxy, proxy_held, forced, polling,
                 proxy_ok, result>>

StopProxy ==
  /\ app = "proxy"
  /\ \/ /\ proxy_held
        /\ proxy_held' = FALSE
        /\ \E ok \in BOOLEAN :
             ProxyShutdown(ok) /\ proxy_ok' = IF ok THEN "ok" ELSE "err"
     \/ ~proxy_held /\ proxy_ok' = "ok" /\ UNCHANGED <<proxy, proxy_held>>
  /\ app' = IF forced THEN "runtime" ELSE "finish"
  /\ UNCHANGED <<contractVars, runtime_held, forced, polling, runtime_ok, result>>

(* finish_shutdown, and for poll_health the original failure.                *)
FinishShutdown ==
  /\ app = "finish"
  /\ result' = IF runtime_ok = "ok" /\ proxy_ok = "ok" /\ ~polling THEN "ok" ELSE "err"
  /\ app' = "idle"
  /\ forced' = FALSE /\ polling' = FALSE /\ runtime_ok' = "none" /\ proxy_ok' = "none"
  /\ UNCHANGED <<contractVars, proxy, proxy_held, runtime_held>>

-------------------------------------------------------------------------------
(* Operations of the owner.                                                  *)

(* Mutant: a forced stop begins with the runtime.                            *)
CallStopRuntimeFirst(is_forced) ==
  /\ app = "idle"
  /\ proxy_held \/ runtime_held
  /\ app' = "runtime"
  /\ forced' = is_forced /\ result' = "none"
  /\ UNCHANGED <<contractVars, proxy, proxy_held, runtime_held, polling, runtime_ok,
                 proxy_ok>>

(* shutdown and force_shutdown differ in which part they stop first.         *)
CallStop(is_forced) ==
  /\ app = "idle"
  /\ proxy_held \/ runtime_held
  /\ app' = IF is_forced THEN "proxy" ELSE "runtime"
  /\ forced' = is_forced /\ result' = "none"
  /\ UNCHANGED <<contractVars, proxy, proxy_held, runtime_held, polling, runtime_ok,
                 proxy_ok>>

CallPoll ==
  /\ app = "idle"
  /\ runtime_held
  /\ \/ PollHealth
     \/ phase # "ready" /\ Refuse
  /\ app' = "health" /\ polling' = TRUE /\ result' = "none"
  /\ UNCHANGED <<proxy, proxy_held, runtime_held, forced, runtime_ok, proxy_ok>>

(* poll_health goes on with force_shutdown when the runtime is not healthy.  *)
HealthAnswer ==
  /\ app = "health" /\ ~busy
  /\ \/ answer = "ok" /\ app' = "idle" /\ polling' = FALSE /\ result' = "ok"
        /\ UNCHANGED forced
     \/ answer = "err" /\ app' = "proxy" /\ forced' = TRUE
        /\ UNCHANGED <<polling, result>>
  /\ UNCHANGED <<contractVars, proxy, proxy_held, runtime_held, runtime_ok, proxy_ok>>

(* retry_private_cleanup: refused with a proxy; a success releases the value. *)
CallRetry ==
  /\ app = "idle"
  /\ \/ /\ ~proxy_held /\ runtime_held
        /\ \/ Retry
           \/ phase # "dirty" /\ Refuse
        /\ result' = answer'
        /\ runtime_held' = (answer' # "ok")
        /\ app' = IF answer' = "ok" THEN "release" ELSE "idle"
     \/ /\ proxy_held
        /\ result' = "err" /\ UNCHANGED <<contractVars, runtime_held, app>>
  /\ UNCHANGED <<proxy, proxy_held, appLocals>>

(* The taken value, which is clean, is dropped.                              *)
ReleaseRuntime ==
  /\ app = "release"
  /\ Drop
  /\ app' = "idle"
  /\ UNCHANGED <<proxy, proxy_held, runtime_held, appLocals, result>>

(* An operation on an owner that holds nothing: OwnerNotRunning.             *)
CallOnEmpty ==
  /\ app = "idle"
  /\ ~runtime_held /\ ~proxy_held
  /\ result' = "err"
  /\ UNCHANGED <<contractVars, app, proxy, proxy_held, runtime_held, appLocals>>

CallDropApp ==
  /\ app = "idle"
  /\ app' = "dropProxy"
  /\ UNCHANGED <<contractVars, proxy, proxy_held, runtime_held, appLocals, result>>

(* RunningProxy's Drop stops the listeners and aborts every task.            *)
DropProxy ==
  /\ app = "dropProxy"
  /\ proxy' = IF proxy_held THEN "stopped" ELSE proxy
  /\ proxy_held' = FALSE
  /\ app' = "dropRuntime"
  /\ UNCHANGED <<contractVars, runtime_held, appLocals, result>>

DropRuntime ==
  /\ app = "dropRuntime"
  /\ \/ runtime_held /\ Drop /\ runtime_held' = FALSE /\ app' = "dropped"
     \/ ~runtime_held /\ app' = "gone" /\ UNCHANGED <<contractVars, runtime_held>>
  /\ UNCHANGED <<proxy, proxy_held, appLocals, result>>

Dropped ==
  /\ app = "dropped" /\ ~busy
  /\ app' = "gone"
  /\ UNCHANGED <<contractVars, proxy, proxy_held, runtime_held, appLocals, result>>

NativeStep ==
  \/ Prepare \/ BindProxy \/ ResolveHost \/ LaunchAnswer \/ CleanupProxyAfterFailure
  \/ StopRuntime \/ RuntimeAnswer \/ StopProxy \/ FinishShutdown \/ HealthAnswer
  \/ ReleaseRuntime \/ DropProxy \/ DropRuntime \/ Dropped

(* The worker inside a runtime call, and what nobody controls.               *)
RuntimeStep == Internal /\ UNCHANGED nativeVars

NativeEnvironment ==
  \/ ListenerFails \/ WorkerPanics
  \/ TreeExits /\ UNCHANGED nativeVars

(* Calls the public interface allows in any order.                           *)
NativeCall ==
  \/ \E is_forced \in BOOLEAN : CallStop(is_forced)
  \/ CallPoll \/ CallRetry \/ CallOnEmpty \/ CallDropApp
===============================================================================
