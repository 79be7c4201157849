-------------------------------- MODULE Shell --------------------------------
(***************************************************************************)
(* The desktop program (apps/windows-shell/src/windows_app.rs): main, the    *)
(* event handlers of its event loop, run_shell and shutdown_owners, over the *)
(* native application owner and the WebView owner.                           *)
(*                                                                          *)
(* The handlers run on the UI thread and talk to run_shell, a task of its    *)
(* own, through an unbounded channel that the one-shot flag cleanup_started  *)
(* limits to one signal.  Until allow_exit is set no event ends the program. *)
(*                                                                          *)
(* The two owners are public libraries, so the same module also lets another *)
(* program call one of them in any order: `driver` says which program runs.  *)
(***************************************************************************)
EXTENDS NativeApp, WebviewOwner, Integers

CONSTANT Drivers   \* programs considered: the shell, callers of one owner

ASSUME DriversAssumption == Drivers \subseteq {"shell", "native", "view"}

VARIABLES
  driver,
  shell,           \* control point of run_shell and of the task around it
  cleanup_started, \* AtomicBool
  allow_exit,      \* AtomicBool
  signals,         \* the channel: "none", "Graceful", "Forced"
  destroy_event,   \* the Destroyed event was handled
  acceptance,      \* --evidence and --close-after-ready, which come together
  native_ok,       \* the native owner returned its report
  evidence,        \* ShellEvidence, NoEvidence until run_shell has returned
  exit_code        \* -1 while running

shellVars == <<driver, shell, cleanup_started, allow_exit, signals, destroy_event,
               acceptance, native_ok, evidence, exit_code>>
vars == <<contractVars, nativeVars, viewVars, shellVars>>

native == <<contractVars, nativeVars>>

(* ShellFailure::stage                                                       *)
FailureStage ==
  {"webview_preflight", "packaged_paths", "native_startup", "browser_material",
   "webview_startup", "runtime_health", "shutdown"}

(* What the evidence can claim: the two reports, field by field.             *)
Claims == {"proxy_stopped", "job_empty", "session_removed"} \cup Evidence

NoEvidence == [stage |-> "none", claims |-> {}]

(* ShellEvidence::failure claims nothing.                                    *)
FailureEvidence(stage) == [stage |-> stage, claims |-> {}]

(* ShellEvidence::success copies both reports; the native one is complete    *)
(* or is not returned.                                                       *)
SuccessEvidence ==
  [stage |-> "none", claims |-> {"proxy_stopped", "job_empty", "session_removed"} \cup report]

Init ==
  /\ NativeInit /\ ViewInit
  /\ driver \in Drivers
  /\ shell = "parse" /\ cleanup_started = FALSE /\ allow_exit = FALSE
  /\ signals = "none" /\ destroy_event = FALSE
  /\ acceptance = FALSE /\ native_ok = FALSE
  /\ evidence = NoEvidence /\ exit_code = -1

-------------------------------------------------------------------------------
(* The UI thread.                                                            *)

(* Mutant: the flag is set before the channel is known to take the signal.   *)
RequestCleanupLost(signal) ==
  /\ cleanup_started' = TRUE
  /\ UNCHANGED signals

(* request_cleanup: the first request wins.                                  *)
RequestCleanup(signal) ==
  /\ cleanup_started' = TRUE
  /\ signals' = IF cleanup_started THEN signals ELSE signal

UiFrame == <<native, viewVars, driver, shell, allow_exit, acceptance, native_ok,
             evidence, exit_code>>

(* CloseRequested on the window, or ExitRequested on the application: both    *)
(* are prevented and ask for a graceful cleanup.                              *)
ExitRequested ==
  /\ driver = "shell" /\ ~allow_exit /\ shell # "parse"
  /\ ~cleanup_started
  /\ RequestCleanup("Graceful")
  /\ UNCHANGED destroy_event /\ UNCHANGED UiFrame

(* The Destroyed event of a window that is gone asks for a forced one.        *)
DestroyedEvent ==
  /\ driver = "shell" /\ window = "destroyed" /\ ~destroy_event
  /\ destroy_event' = TRUE
  /\ IF allow_exit THEN UNCHANGED <<signals, cleanup_started>>
                   ELSE RequestCleanup("Forced")
  /\ UNCHANGED UiFrame

-------------------------------------------------------------------------------
(* main and run_shell.                                                       *)

Leave(shown, code) == shell' = "evidence" /\ evidence' = shown /\ exit_code' = code

LeaveFailed(stage) == Leave(FailureEvidence(stage), 1)

ShellFrame == <<driver, cleanup_started, allow_exit, destroy_event>>

(* parse_options and validate_options, the build of the Tauri application,    *)
(* and resolve_options: usage error, no application, bad paths, or a launch   *)
(* with or without the acceptance pair.                                       *)
ParseOptions ==
  /\ driver = "shell" /\ shell = "parse"
  /\ \/ shell' = "exited" /\ exit_code' \in {1, 2} /\ UNCHANGED <<evidence, acceptance>>
     \/ LeaveFailed("packaged_paths") /\ acceptance' \in BOOLEAN
     \/ /\ shell' = "preflight" /\ acceptance' \in BOOLEAN
        /\ UNCHANGED <<evidence, exit_code>>
  /\ UNCHANGED <<native, viewVars, ShellFrame, signals, native_ok>>

(* WebviewPreflight::verify, before R can run.                                *)
Preflight ==
  /\ shell = "preflight"
  /\ \/ shell' = "launching" /\ LaunchCalled /\ UNCHANGED <<evidence, exit_code>>
     \/ LeaveFailed("webview_preflight") /\ UNCHANGED native
  /\ UNCHANGED <<viewVars, ShellFrame, signals, acceptance, native_ok>>

(* launch has returned; with it browser_launch, which needs the proxy value,  *)
(* and the call of the WebView launch.                                        *)
NativeLaunched ==
  /\ shell = "launching" /\ app \in {"idle", "gone"}
  /\ \/ app = "idle" /\ shell' = "viewing" /\ ViewLaunchCalled
        /\ UNCHANGED <<evidence, exit_code>>
     \/ app = "gone" /\ LeaveFailed("native_startup") /\ UNCHANGED viewVars
  /\ UNCHANGED <<native, ShellFrame, signals, acceptance, native_ok>>

(* A failed WebView launch forces the native owner down.                      *)
ViewLaunched ==
  /\ shell = "viewing" /\ view \in {"idle", "gone"}
  /\ \/ view = "gone" /\ CallStop(TRUE) /\ shell' = "viewFailed"
     \/ /\ view = "idle" /\ shell' = IF acceptance THEN "closing" ELSE "loop"
        /\ UNCHANGED native
  /\ UNCHANGED <<viewVars, ShellFrame, signals, acceptance, native_ok, evidence, exit_code>>

ViewFailed ==
  /\ shell = "viewFailed" /\ app = "idle"
  /\ CallDropApp
  /\ shell' = "dropNative" /\ evidence' = FailureEvidence("webview_startup")
  /\ UNCHANGED <<viewVars, ShellFrame, signals, acceptance, native_ok, exit_code>>

(* The loop receives a signal (a closed channel would count as Forced), or    *)
(* its sleep ends first and it polls.  shutdown_owners hides the window.      *)
ReceiveSignal ==
  /\ shell \in {"loop", "closing"}
  /\ shell = "loop" => signals # "none"
  /\ shell' = "stopping"
  /\ CallStop(shell = "loop" /\ signals = "Forced")
  /\ signals' = IF shell = "loop" THEN "none" ELSE signals
  /\ Hide
  /\ UNCHANGED <<view, window, window_held, page, checker, ready, navigation, consumed,
                 cookie, profile, profile_held, report, failing, view_result, ShellFrame,
                 acceptance, native_ok, evidence, exit_code>>

PollHealthTick ==
  /\ shell = "loop"
  /\ CallPoll
  /\ shell' = "polling"
  /\ UNCHANGED <<viewVars, ShellFrame, signals, acceptance, native_ok, evidence, exit_code>>

(* An unhealthy runtime: hide the window, shut the WebView down, fail.        *)
PollAnswered ==
  /\ shell = "polling" /\ app = "idle"
  /\ IF result = "ok"
       THEN shell' = "loop" /\ UNCHANGED <<view, visible>>
       ELSE shell' = "unhealthy" /\ view' = "cookie" /\ Hide
  /\ UNCHANGED <<native, window, window_held, page, checker, ready, navigation, consumed,
                 cookie, profile, profile_held, report, failing, view_result, ShellFrame,
                 signals, acceptance, native_ok, evidence, exit_code>>

(* shutdown_owners goes on to the WebView whatever the native owner says.     *)
NativeStopped ==
  /\ shell = "stopping" /\ app = "idle"
  /\ native_ok' = (result = "ok")
  /\ shell' = "stoppingView"
  /\ CallViewShutdown
  /\ UNCHANGED <<native, ShellFrame, signals, acceptance, evidence, exit_code>>

(* shutdown_owners succeeds when both owners have returned their reports.     *)
ShellSuccess == native_ok /\ view_result = "ok"

(* Both values go out of scope, the WebView first.                            *)
ViewStopped ==
  /\ shell \in {"stoppingView", "unhealthy"} /\ view = "idle"
  /\ evidence' = IF shell = "unhealthy" THEN FailureEvidence("runtime_health")
                 ELSE IF ShellSuccess THEN SuccessEvidence ELSE FailureEvidence("shutdown")
  /\ CallDropView
  /\ shell' = "dropView"
  /\ UNCHANGED <<native, ShellFrame, signals, acceptance, native_ok, exit_code>>

ViewDropped ==
  /\ shell = "dropView" /\ view = "gone"
  /\ CallDropApp
  /\ shell' = "dropNative"
  /\ UNCHANGED <<viewVars, ShellFrame, signals, acceptance, native_ok, evidence, exit_code>>

NativeDropped ==
  /\ shell = "dropNative" /\ app = "gone"
  /\ Leave(evidence, IF evidence.stage = "none" THEN 0 ELSE 1)
  /\ UNCHANGED <<native, viewVars, ShellFrame, signals, acceptance, native_ok>>

(* write_evidence creates the file; failing to is a failure of the program.   *)
WriteEvidence ==
  /\ shell = "evidence"
  /\ exit_code' \in (IF acceptance THEN {exit_code, 1} ELSE {exit_code})
  /\ allow_exit' = TRUE /\ shell' = "exited"
  /\ UNCHANGED <<native, viewVars, driver, cleanup_started, destroy_event, signals,
                 acceptance, native_ok, evidence>>

RunShell ==
  \/ ParseOptions \/ Preflight \/ NativeLaunched \/ ViewLaunched \/ ViewFailed
  \/ ReceiveSignal \/ PollHealthTick \/ PollAnswered \/ NativeStopped \/ ViewStopped
  \/ ViewDropped \/ NativeDropped \/ WriteEvidence

-------------------------------------------------------------------------------
(* A caller of one library: launches what it needs, then calls in any order.  *)

CallerLaunches ==
  /\ driver # "shell"
  /\ \/ LaunchCalled /\ UNCHANGED viewVars
     \/ /\ driver = "view" /\ app = "idle"
        /\ ViewLaunchCalled /\ UNCHANGED native
  /\ UNCHANGED shellVars

CallerCalls ==
  /\ \/ driver = "native" /\ NativeCall /\ UNCHANGED viewVars
     \/ driver = "view" /\ ViewCall /\ UNCHANGED native
  /\ UNCHANGED shellVars

Owners ==
  \/ (NativeStep \/ RuntimeStep) /\ UNCHANGED <<viewVars, shellVars>>
  \/ /\ ViewStep \/ Browser(proxy = "running", driver = "shell")
     /\ UNCHANGED <<native, shellVars>>

Accidents ==
  \/ NativeEnvironment /\ UNCHANGED <<viewVars, shellVars>>
  \/ WindowLost /\ UNCHANGED <<native, shellVars>>

Done ==
  /\ \/ shell = "exited"
     \/ driver = "native" /\ app = "gone"
     \/ driver = "view" /\ (app = "gone" \/ view = "gone")
  /\ UNCHANGED vars

Next ==
  \/ shell # "exited" /\ (ExitRequested \/ DestroyedEvent \/ RunShell \/ CallerLaunches
                            \/ CallerCalls \/ Owners \/ Accidents)
  \/ Done

(***************************************************************************)
(* run_shell is one task: it runs itself, or waits for an operation of one   *)
(* of its owners, and the executor runs whichever is next.  Every wait in    *)
(* them has a deadline or is for the blocking worker, except the             *)
(* BrowserCalls, which nothing forces.  A select that finds a signal each    *)
(* time it starts does not prefer the sleep for ever.  Nothing is assumed of *)
(* the user, of failures or of the browser, which may never load a page,     *)
(* answer a cookie request or build a window.                                *)
(***************************************************************************)
TaskRuns ==
  \/ RunShell
  \/ (NativeStep \/ RuntimeStep) /\ UNCHANGED <<viewVars, shellVars>>
  \/ BoundedStep /\ UNCHANGED <<native, shellVars>>

Fairness ==
  /\ WF_vars(shell # "exited" /\ TaskRuns)
  /\ SF_vars(shell = "loop" /\ ReceiveSignal)

Spec == Init /\ [][Next]_vars

FairSpec == Spec /\ Fairness

-------------------------------------------------------------------------------
(* Properties.                                                               *)

(* Every variable holds a value of its type.                                 *)
TypeOK ==
  /\ phase \in Phase \cup {"absent"} /\ busy \in BOOLEAN
  /\ answer \in {"none", "ok", "err", "report"} /\ tree \in BOOLEAN /\ session \in BOOLEAN
  /\ app \in LaunchAt \cup StopAt \cup DropAt \cup {"unborn", "idle", "health", "release", "gone"}
  /\ proxy \in {"none", "running", "failed", "stopped"}
  /\ proxy_held \in BOOLEAN /\ runtime_held \in BOOLEAN
  /\ runtime_ok \in {"none", "ok", "err"} /\ proxy_ok \in {"none", "ok", "err"}
  /\ result \in {"none", "ok", "err"}
  /\ window \in {"none", "open", "destroying", "destroyed"} /\ page \in 0..4
  /\ ready \in {"empty", "ok", "err"} /\ report \subseteq Evidence
  /\ profile_held => profile
  /\ evidence.stage \in FailureStage \cup {"none"} /\ evidence.claims \subseteq Claims
  /\ exit_code \in -1..2

(* The claims that are true of the machine: dead process tree, removed        *)
(* session and profile, stopped proxy, no cookie, no window to come back to:  *)
(* its destruction was posted to the event loop, which nothing takes back,    *)
(* and at the latest the end of the process carries it out.  That clearing    *)
(* the browsing data was queued leaves no trace to look for.                  *)
TrueClaims ==
  {c \in Claims : \/ c = "data"
                  \/ c = "proxy_stopped" /\ proxy = "stopped"
                  \/ c = "job_empty" /\ ~tree
                  \/ c = "session_removed" /\ ~session
                  \/ c = "cookie" /\ ~cookie
                  \/ c = "window" /\ window \in {"destroying", "destroyed"}
                  \/ c = "profile" /\ ~profile}

(***************************************************************************)
(* The evidence of a finished run is true of the machine it ran on, however  *)
(* long before the end each claim was collected, and exit code 0 means that  *)
(* all of it is claimed (windows_app.rs ShellEvidence::success).             *)
(***************************************************************************)
SuccessIsClean ==
  shell = "exited" =>
    /\ evidence.claims \subseteq TrueClaims
    /\ exit_code = 0 => evidence.claims = Claims

(***************************************************************************)
(* However the program ends, and whatever failed before, it does not leave   *)
(* before the proxy is down and the runtime value has been dropped, which    *)
(* closes the Job (run_shell returns its owners before main allows exit).    *)
(***************************************************************************)
NothingOutlivesExit ==
  shell = "exited" =>
    /\ phase \in {"absent", "gone"}
    /\ proxy \in {"none", "stopped"}

(***************************************************************************)
(* No failure loses the runtime value: between two operations of the native  *)
(* owner it is either held, so that a caller can stop or retry it, or gone.  *)
(* A worker that panics, a stop that returns an error and a retry that       *)
(* succeeds are all answered that way (desktop.rs stop_runtime).             *)
(***************************************************************************)
HeldOrGone ==
  app \in {"idle", "gone"} =>
    IF runtime_held THEN phase \in {"ready", "held", "dirty", "clean"}
                    ELSE phase \in {"absent", "gone"}

(***************************************************************************)
(* A forced stop takes the browser's way in before it touches R: "new       *)
(* requests cannot race forced process cleanup" (desktop.rs force_shutdown). *)
(* The same holds of poll_health, whose failure forces a stop.               *)
(***************************************************************************)
NoTrafficDuringForce ==
  forced /\ app \in {"runtime", "runtimeAnswer", "finish"} => proxy # "running"

(***************************************************************************)
(* The window is visible only after the session cookie was found in the      *)
(* browser, which the proxy gives out once: the bootstrap credential was     *)
(* consumed by this browser.  It holds although the callback that shows the  *)
(* window may run after the owner stopped waiting (webview lib.rs            *)
(* on_page_load).                                                            *)
(***************************************************************************)
VisibleIsAuthenticated == visible => consumed /\ page = 3

(* The WebView owner is in one of the calls that only the browser and its UI *)
(* thread can end.                                                           *)
BrowserWaits == view \in {"dispatch", "cookie", "cookieGone"}

(***************************************************************************)
(* A request to close, or a window destroyed by the system, ends the program *)
(* (main, request_cleanup): one signal is enough, also when it comes during  *)
(* startup, when a cleanup step fails, or when a second request is dropped.  *)
(* Only a browser that never answers one of the deadline-free calls (webview *)
(* lib.rs window_receiver, delete_session_cookie) can keep it from ending,   *)
(* and then by that one call: no page, lost answer or other failure can.     *)
(***************************************************************************)
RequestEnds == cleanup_started ~> (shell = "exited" \/ []BrowserWaits)

(***************************************************************************)
(* Startup is answered: once launched, the program either reaches its event  *)
(* loop or ends, even if the one-time bootstrap answer is lost and the       *)
(* credential is spent (StartupTimeout), or the browser hangs for good in    *)
(* one deadline-free call.                                                   *)
(***************************************************************************)
StartupAnswered ==
  shell = "preflight" ~> (shell \in {"loop", "exited"} \/ []BrowserWaits)

(***************************************************************************)
(* What launch promises: "Every failure after window creation attempts       *)
(* bounded cookie/window/profile cleanup" (webview lib.rs:216), so that a    *)
(* launch that failed has returned after a while, unless its window went     *)
(* away by itself before.                                                    *)
(***************************************************************************)
FailedLaunchCleanupBounded == failing ~> (view = "gone" \/ window # "open")
===============================================================================
