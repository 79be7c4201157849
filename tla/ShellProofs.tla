------------------------------ MODULE ShellProofs -----------------------------
(***************************************************************************)
(* Proofs about Shell, for every choice of Drivers.  The two owners are      *)
(* treated first, each under any caller its interface allows; the shell is   *)
(* then shown to be such a caller, and what its evidence claims follows from *)
(* where the two owners stand at each of its control points.                 *)
(***************************************************************************)
EXTENDS Shell, TLAPS

-------------------------------------------------------------------------------
(* The native application owner, whoever calls it.                           *)

NativeNext ==
  \/ NativeStep \/ RuntimeStep \/ NativeEnvironment \/ NativeCall \/ LaunchCalled

NativeSpec == NativeInit /\ [][NativeNext]_native

(***************************************************************************)
(* What an OwnerContract value is like between and inside calls: only a      *)
(* running call starts or ends anything, the tree is dead once its Job was   *)
(* closed, and a report is only given for a clean value.                     *)
(***************************************************************************)
ValueAt ==
  /\ phase \in {"starting", "waking", "closing", "ending"} => busy
  /\ phase \in {"closing", "dirty", "clean"} => ~tree
  /\ phase = "clean" => ~session
  /\ answer = "report" => phase \in {"clean", "gone"}

Held == {"ready", "held", "dirty", "clean"}

(* The runtime value is held by the owner, or is gone.                       *)
Settled ==
  ~busy /\ IF runtime_held THEN phase \in Held ELSE phase = "gone"

(* What the owner still holds of its proxy, it holds running or failed.      *)
ProxyKept == IF proxy_held THEN proxy \in {"running", "failed"} ELSE proxy = "stopped"

Flags ==
  /\ busy \in BOOLEAN /\ tree \in BOOLEAN /\ session \in BOOLEAN
  /\ proxy_held \in BOOLEAN /\ runtime_held \in BOOLEAN
  /\ forced \in BOOLEAN /\ polling \in BOOLEAN

Places ==
  /\ phase \in Phase \cup {"absent"} /\ answer \in {"none", "ok", "err", "report"}
  /\ app \in LaunchAt \cup StopAt \cup DropAt \cup {"unborn", "idle", "health", "release", "gone"}
  /\ proxy \in {"none", "running", "failed", "stopped"}
  /\ runtime_ok \in {"none", "ok", "err"} /\ proxy_ok \in {"none", "ok", "err"}
  /\ result \in {"none", "ok", "err"}

(* Launching, the owner holds nothing yet.                                   *)
Launching ==
  /\ app \in {"unborn"} \cup LaunchAt =>
       /\ ~proxy_held /\ ~runtime_held /\ runtime_ok = "none"
       /\ IF app \in {"unborn", "prepare", "bind"} THEN proxy = "none"
                                                   ELSE proxy \in {"running", "failed"}
  /\ app \in {"unborn", "prepare", "bind", "resolve"} => phase = "absent" /\ ~busy
  /\ app = "worker" =>
       IF busy THEN phase \in {"starting", "waking", "ending"} ELSE phase \in {"ready", "gone"}
  /\ app = "launchCleanup" => phase \in {"absent", "gone"} /\ ~busy

(* Stopping, the proxy goes first when the stop is forced, last otherwise.   *)
Stopping ==
  /\ app \in {"idle", "runtime", "proxy", "finish", "dropProxy", "dropRuntime"} => Settled
  /\ app \in {"idle", "health", "release", "dropProxy", "dropRuntime", "dropped"} \cup StopAt =>
       ProxyKept
  /\ forced /\ app \in {"runtime", "runtimeAnswer", "finish"} => proxy = "stopped"
  /\ app \in {"finish", "release", "dropRuntime", "dropped"} => ~proxy_held
  /\ app = "health" => runtime_held /\ phase \in Held /\ (busy => phase = "ready")
  /\ app = "runtimeAnswer" =>
       /\ ~runtime_held
       /\ IF busy THEN phase \in {"held", "closing", "dirty", "ending"}
                  ELSE phase \in {"held", "dirty", "clean", "gone"}
  /\ app = "release" => ~runtime_held /\ phase = "clean" /\ ~busy
  /\ app = "dropped" =>
       ~runtime_held /\ IF busy THEN phase = "ending" ELSE phase = "gone"
  /\ app = "gone" =>
       /\ ~proxy_held /\ ~runtime_held /\ ~busy
       /\ phase \in {"absent", "gone"} /\ proxy \in {"none", "stopped"}

(* A stop that succeeded has left nothing on the machine.                    *)
StoppedClean == runtime_ok = "ok" => phase = "gone" /\ ~tree /\ ~session

NativeControl == ValueAt /\ Launching /\ Stopping /\ StoppedClean

NativeInv == Flags /\ Places /\ NativeControl

LEMMA NativeInitial == NativeInit => NativeInv
BY DEF NativeInit, NativeInv, NativeControl, ValueAt, Flags, Places, Launching, Stopping, StoppedClean,
       LaunchAt, StopAt, Settled, ProxyKept, Phase

LEMMA FlagsKept == Flags /\ NativeNext => Flags'
<1> SUFFICES ASSUME Flags, NativeNext PROVE Flags' OBVIOUS
<1> USE DEF Flags, contractVars, appLocals, nativeVars
<1>1. CASE LaunchCalled \/ Prepare \/ BindProxy \/ ResolveHost \/ LaunchAnswer
           \/ CleanupProxyAfterFailure
  BY <1>1 DEF LaunchCalled, Prepare, BindProxy, ResolveHost, LaunchAnswer,
              CleanupProxyAfterFailure, ProxyShutdown
<1>2. CASE StopRuntime \/ RuntimeAnswer \/ StopProxy \/ FinishShutdown \/ HealthAnswer
  BY <1>2 DEF StopRuntime, Stop, Refuse, RuntimeAnswer, StopProxy, ProxyShutdown,
              FinishShutdown, HealthAnswer
<1>3. CASE ReleaseRuntime \/ DropProxy \/ DropRuntime \/ Dropped
  BY <1>3 DEF ReleaseRuntime, DropProxy, DropRuntime, Dropped, Drop
<1>4. CASE NativeCall
  BY <1>4 DEF NativeCall, CallStop, CallPoll, CallRetry, CallOnEmpty, CallDropApp,
              PollHealth, Retry, Refuse
<1>5. CASE RuntimeStep
  BY <1>5 DEF RuntimeStep, Internal, SessionCreated, TreeStarts, BecomesReady, StartupFails,
              NeverStarted, EndRemovesSession, Ended, Healthy, StopFails, JobClosed,
              StopLeavesSession, StopCleans
<1>6. CASE NativeEnvironment
  BY <1>6 DEF NativeEnvironment, ListenerFails, WorkerPanics, TreeExits
<1> QED BY <1>1, <1>2, <1>3, <1>4, <1>5, <1>6 DEF NativeNext, NativeStep

LEMMA PlacesKept == Places /\ NativeNext => Places'
<1> SUFFICES ASSUME Places, NativeNext PROVE Places' OBVIOUS
<1> USE DEF Places, LaunchAt, StopAt, DropAt, Phase, contractVars, appLocals, nativeVars
<1>1. CASE LaunchCalled \/ Prepare \/ BindProxy \/ ResolveHost \/ LaunchAnswer
           \/ CleanupProxyAfterFailure
  BY <1>1 DEF LaunchCalled, Prepare, BindProxy, ResolveHost, LaunchAnswer,
              CleanupProxyAfterFailure, ProxyShutdown
<1>2. CASE StopRuntime \/ RuntimeAnswer \/ StopProxy \/ FinishShutdown \/ HealthAnswer
  BY <1>2 DEF StopRuntime, Stop, Refuse, RuntimeAnswer, StopProxy, ProxyShutdown,
              FinishShutdown, HealthAnswer
<1>3. CASE ReleaseRuntime \/ DropProxy \/ DropRuntime \/ Dropped
  BY <1>3 DEF ReleaseRuntime, DropProxy, DropRuntime, Dropped, Drop
<1>4. CASE NativeCall
  BY <1>4 DEF NativeCall, CallStop, CallPoll, CallRetry, CallOnEmpty, CallDropApp,
              PollHealth, Retry, Refuse
<1>5. CASE RuntimeStep
  BY <1>5 DEF RuntimeStep, Internal, SessionCreated, TreeStarts, BecomesReady, StartupFails,
              NeverStarted, EndRemovesSession, Ended, Healthy, StopFails, JobClosed,
              StopLeavesSession, StopCleans
<1>6. CASE NativeEnvironment
  BY <1>6 DEF NativeEnvironment, ListenerFails, WorkerPanics, TreeExits
<1> QED BY <1>1, <1>2, <1>3, <1>4, <1>5, <1>6 DEF NativeNext, NativeStep

LEMMA LaunchKeepsControl ==
  ASSUME NativeInv, LaunchCalled \/ Prepare \/ BindProxy \/ ResolveHost \/ LaunchAnswer
           \/ CleanupProxyAfterFailure
  PROVE  NativeControl'
<1> USE DEF NativeInv, NativeControl, ValueAt, Places, Launching, Stopping, StoppedClean, Settled, ProxyKept,
            Held, LaunchAt, StopAt, DropAt, Phase, contractVars, appLocals, nativeVars
<1>1. CASE LaunchCalled \/ Prepare
  BY <1>1 DEF LaunchCalled, Prepare
<1>2. CASE BindProxy
  BY <1>2 DEF BindProxy
<1>3. CASE ResolveHost
  BY <1>3 DEF ResolveHost
<1>4. CASE LaunchAnswer
  BY <1>4 DEF LaunchAnswer
<1>5. CASE CleanupProxyAfterFailure
  BY <1>5 DEF CleanupProxyAfterFailure, ProxyShutdown
<1> QED BY <1>1, <1>2, <1>3, <1>4, <1>5

LEMMA StopKeepsControl ==
  ASSUME NativeInv, StopRuntime \/ RuntimeAnswer \/ StopProxy \/ FinishShutdown \/ HealthAnswer
           \/ ReleaseRuntime \/ DropProxy \/ DropRuntime \/ Dropped
  PROVE  NativeControl'
<1> USE DEF NativeInv, NativeControl, ValueAt, Places, Launching, Stopping, StoppedClean, Settled, ProxyKept,
            Held, LaunchAt, StopAt, DropAt, Phase, contractVars, appLocals, nativeVars
<1>1. CASE StopRuntime
  BY <1>1 DEF StopRuntime, Stop, Refuse
<1>2. CASE RuntimeAnswer
  BY <1>2 DEF RuntimeAnswer
<1>3. CASE StopProxy
  BY <1>3 DEF StopProxy, ProxyShutdown
<1>4. CASE FinishShutdown
  BY <1>4 DEF FinishShutdown
<1>5. CASE HealthAnswer
  BY <1>5 DEF HealthAnswer
<1>6. CASE ReleaseRuntime
  BY <1>6 DEF ReleaseRuntime, Drop
<1>7. CASE DropProxy
  BY <1>7 DEF DropProxy
<1>8. CASE DropRuntime \/ Dropped
  BY <1>8 DEF DropRuntime, Dropped, Drop
<1> QED BY <1>1, <1>2, <1>3, <1>4, <1>5, <1>6, <1>7, <1>8

LEMMA CallKeepsControl ==
  ASSUME NativeInv, NativeCall
  PROVE  NativeControl'
<1> USE DEF NativeInv, NativeControl, ValueAt, Places, Launching, Stopping, StoppedClean, Settled, ProxyKept,
            Held, LaunchAt, StopAt, DropAt, Phase, contractVars, appLocals, nativeVars
<1>1. CASE \E is_forced \in BOOLEAN : CallStop(is_forced)
  BY <1>1 DEF CallStop
<1>2. CASE CallPoll
  BY <1>2 DEF CallPoll, PollHealth, Refuse
<1>3. CASE CallRetry
  <2>1. CASE proxy_held
    BY <1>3, <2>1 DEF CallRetry
  <2>2. CASE ~proxy_held /\ answer' = "ok"
    <3>1. /\ app = "idle" /\ app' = "release" /\ ~runtime_held' /\ phase' = "clean" /\ ~session'
          /\ UNCHANGED <<busy, tree, proxy, proxy_held, appLocals>> /\ phase = "dirty"
      BY <1>3, <2>2 DEF CallRetry, Retry, Refuse
    <3> QED BY <2>2, <3>1
  <2>3. CASE ~proxy_held /\ answer' # "ok"
    <3>1. /\ app = "idle" /\ app' = "idle" /\ runtime_held /\ runtime_held'
          /\ UNCHANGED <<proxy, proxy_held, appLocals>>
          /\ Retry \/ (phase # "dirty" /\ Refuse)
      BY <1>3, <2>3 DEF CallRetry
    <3>2. CASE Refuse
      BY <3>1, <3>2 DEF Refuse
    <3>3. CASE Retry
      BY <2>3, <3>1, <3>3 DEF Retry
    <3> QED BY <3>1, <3>2, <3>3
  <2> QED BY <2>1, <2>2, <2>3
<1>4. CASE CallOnEmpty \/ CallDropApp
  BY <1>4 DEF CallOnEmpty, CallDropApp
<1> QED BY <1>1, <1>2, <1>3, <1>4 DEF NativeCall

LEMMA RuntimeKeepsControl ==
  ASSUME NativeInv, RuntimeStep \/ NativeEnvironment
  PROVE  NativeControl'
<1> USE DEF NativeInv, NativeControl, ValueAt, Places, Launching, Stopping, StoppedClean, Settled, ProxyKept,
            Held, LaunchAt, StopAt, DropAt, Phase, contractVars, appLocals, nativeVars
<1>1. CASE (SessionCreated \/ TreeStarts \/ BecomesReady \/ StartupFails) /\ UNCHANGED nativeVars
  BY <1>1 DEF SessionCreated, TreeStarts, BecomesReady, StartupFails
<1>2. CASE (NeverStarted \/ EndRemovesSession \/ Ended) /\ UNCHANGED nativeVars
  BY <1>2 DEF NeverStarted, EndRemovesSession, Ended
<1>3. CASE (Healthy \/ StopFails \/ JobClosed) /\ UNCHANGED nativeVars
  BY <1>3 DEF Healthy, StopFails, JobClosed
<1>4. CASE (StopLeavesSession \/ StopCleans) /\ UNCHANGED nativeVars
  BY <1>4 DEF StopLeavesSession, StopCleans
<1>5. CASE ListenerFails
  BY <1>5 DEF ListenerFails
<1>6. CASE WorkerPanics
  BY <1>6 DEF WorkerPanics
<1>7. CASE TreeExits /\ UNCHANGED nativeVars
  BY <1>7 DEF TreeExits
<1> QED BY <1>1, <1>2, <1>3, <1>4, <1>5, <1>6, <1>7 DEF RuntimeStep, Internal, NativeEnvironment

LEMMA NativeStepKeeps == NativeInv /\ [NativeNext]_native => NativeInv'
<1> SUFFICES ASSUME NativeInv, [NativeNext]_native PROVE NativeInv' OBVIOUS
<1>1. CASE UNCHANGED native
  BY <1>1 DEF native, contractVars, nativeVars, appLocals, NativeInv, NativeControl, ValueAt, Flags, Places,
              Launching, Stopping, StoppedClean, Settled, ProxyKept
<1>2. CASE NativeNext
  <2>1. NativeControl'
    BY <1>2, LaunchKeepsControl, StopKeepsControl, CallKeepsControl, RuntimeKeepsControl
       DEF NativeNext, NativeStep
  <2> QED BY <1>2, <2>1, FlagsKept, PlacesKept DEF NativeInv
<1> QED BY <1>1, <1>2

(***************************************************************************)
(* Under any caller of the native owner: between two operations the runtime  *)
(* value is held or gone, whichever of its calls failed or panicked.         *)
(***************************************************************************)
THEOREM NativeHeldOrGone == NativeSpec => []HeldOrGone
<1>1. NativeInv => HeldOrGone
  BY DEF NativeInv, NativeControl, Stopping, Settled, Held, HeldOrGone
<1> QED BY <1>1, NativeInitial, NativeStepKeeps, PTL DEF NativeSpec

(***************************************************************************)
(* Under any caller: no request can race a forced stop, because the proxy is *)
(* stopped before the runtime is touched.                                    *)
(***************************************************************************)
THEOREM NativeNoTraffic == NativeSpec => []NoTrafficDuringForce
<1>1. NativeInv => NoTrafficDuringForce
  BY DEF NativeInv, NativeControl, Stopping, NoTrafficDuringForce
<1> QED BY <1>1, NativeInitial, NativeStepKeeps, PTL DEF NativeSpec

-------------------------------------------------------------------------------
(* The WebView owner, whoever calls it and whatever the proxy does.          *)

(* The shell hides the window; one of its two calls goes on to a shutdown.   *)
ViewHides ==
  /\ Hide /\ view' \in {view, "cookie"}
  /\ UNCHANGED <<window, window_held, page, checker, ready, navigation, consumed, cookie,
                 profile, profile_held, report, failing, view_result>>

ViewNext ==
  \/ ViewStep \/ ViewCall \/ ViewLaunchCalled \/ ViewHides \/ WindowLost
  \/ Browser(proxy = "running", driver = "shell")

ViewSpec == ViewInit /\ [][ViewNext]_viewVars

ViewLaunchAt == {"unborn", "profile", "dispatch", "guards", "bootstrap", "await"}

(***************************************************************************)
(* How far the page has come says how far the cookie thread has, and the     *)
(* thread only goes on from a cookie that the proxy handed out.              *)
(***************************************************************************)
PageAt ==
  /\ page \in 0..4 /\ checker \in {"none", "reading", "navigating", "done"}
  /\ cookie => consumed
  /\ checker = "none" <=> page = 0
  /\ checker = "reading" => page = 1
  /\ checker = "navigating" => page = 2
  /\ checker = "done" => page \in {2, 3, 4}
  /\ page \in {2, 3} => consumed
  /\ navigation = "root" => checker = "done"
  /\ visible => page = 3

ViewTypes ==
  /\ window \in {"none", "open", "destroying", "destroyed"}
  /\ ready \in {"empty", "ok", "err"} /\ report \subseteq Evidence

(* A cleanup step that is reported done stays done.                          *)
ReportAt ==
  /\ view \in ViewLaunchAt => report = {}
  /\ "profile" \in report => ~profile
  /\ "window" \in report => window \in {"destroying", "destroyed"}
  /\ profile_held => profile
  /\ view \in {"unborn", "profile"} => ~profile_held

ViewInv == ViewTypes /\ PageAt /\ ReportAt

LEMMA ViewInitial == ViewInit => ViewInv
BY DEF ViewInit, ViewInv, ViewTypes, PageAt, ReportAt

LEMMA PageKept == PageAt /\ [ViewNext]_viewVars => PageAt'
<1> SUFFICES ASSUME PageAt, [ViewNext]_viewVars PROVE PageAt' OBVIOUS
<1> USE DEF PageAt, browserVars
<1>1. CASE UNCHANGED browserVars
  BY <1>1
<1>2. CASE BootstrapFinishes(proxy = "running")
  BY <1>2 DEF BootstrapFinishes
<1>3. CASE CheckCookie
  BY <1>3 DEF CheckCookie
<1>4. CASE NavigateRoot
  BY <1>4 DEF NavigateRoot
<1>5. CASE RootFinishes(driver = "shell")
  BY <1>5 DEF RootFinishes
<1>6. CASE WindowDestroyed \/ WindowLost
  BY <1>6 DEF WindowDestroyed, WindowLost
<1>7. CASE ViewHides
  BY <1>7 DEF ViewHides, Hide
<1>8. CASE CreateWindow \/ NavigateWithBootstrap \/ DestroyWindow \/ DropWindow
  BY <1>8 DEF CreateWindow, NavigateWithBootstrap, DestroyWindow, DropWindow
<1>9. CASE DeleteCookie \/ CookieGone
  <2>1. /\ cookie' = cookie \/ cookie' = FALSE
        /\ UNCHANGED <<visible, page, checker, navigation, consumed>>
    BY <1>9 DEF DeleteCookie, CookieGone
  <2> QED BY <2>1
<1>10. CASE \/ CreateProfile \/ InstallGuards \/ AwaitReady \/ StartupTimeout \/ ClearData
            \/ RemoveProfile \/ ShutdownReport \/ DropProfile \/ ViewCall \/ ViewLaunchCalled
            \/ UNCHANGED viewVars
  BY <1>1, <1>10 DEF CreateProfile, InstallGuards, AwaitReady, StartupTimeout, ClearData,
       RemoveProfile, ShutdownReport, DropProfile, ViewCall, CallViewShutdown, CallRetryProfile,
       CallDropView, ViewLaunchCalled, viewVars
<1> QED BY <1>2, <1>3, <1>4, <1>5, <1>6, <1>7, <1>8, <1>9, <1>10
        DEF ViewNext, ViewStep, BrowserCalls, BoundedStep, Browser

LEMMA ViewTypesKept == ViewTypes /\ [ViewNext]_viewVars => ViewTypes'
<1> SUFFICES ASSUME ViewTypes, [ViewNext]_viewVars PROVE ViewTypes' OBVIOUS
<1> USE DEF ViewTypes, Evidence, browserVars
<1>1. CASE Browser(proxy = "running", driver = "shell") \/ WindowLost
  BY <1>1 DEF Browser, BootstrapFinishes, CheckCookie, NavigateRoot, RootFinishes, SignalStartup,
              WindowDestroyed, WindowLost
<1>2. CASE ViewHides \/ ViewLaunchCalled \/ CreateProfile \/ CreateWindow
  BY <1>2 DEF ViewHides, ViewLaunchCalled, CreateProfile, CreateWindow
<1>3. CASE InstallGuards \/ NavigateWithBootstrap \/ AwaitReady \/ StartupTimeout
  BY <1>3 DEF InstallGuards, NavigateWithBootstrap, AwaitReady, StartupTimeout
<1>4. CASE DeleteCookie \/ CookieGone \/ ClearData
  BY <1>4 DEF DeleteCookie, CookieGone, ClearData
<1>5. CASE DestroyWindow \/ RemoveProfile
  BY <1>5 DEF DestroyWindow, RemoveProfile
<1>6. CASE ShutdownReport \/ DropWindow \/ DropProfile
  BY <1>6 DEF ShutdownReport, DropWindow, DropProfile
<1>7. CASE ViewCall
  BY <1>7 DEF ViewCall, CallViewShutdown, CallRetryProfile, CallDropView
<1>8. CASE UNCHANGED viewVars
  BY <1>8 DEF viewVars
<1> QED BY <1>1, <1>2, <1>3, <1>4, <1>5, <1>6, <1>7, <1>8
        DEF ViewNext, ViewStep, BrowserCalls, BoundedStep

LEMMA ReportKept == ReportAt /\ [ViewNext]_viewVars => ReportAt'
<1> SUFFICES ASSUME ReportAt, [ViewNext]_viewVars PROVE ReportAt' OBVIOUS
<1> USE DEF ReportAt, ViewLaunchAt, browserVars
<1>1. CASE Browser(proxy = "running", driver = "shell") \/ WindowLost
  BY <1>1 DEF Browser, BootstrapFinishes, CheckCookie, NavigateRoot, RootFinishes, SignalStartup,
              WindowDestroyed, WindowLost
<1>2. CASE ViewHides \/ ViewLaunchCalled \/ CreateProfile \/ CreateWindow
  BY <1>2 DEF ViewHides, ViewLaunchCalled, CreateProfile, CreateWindow
<1>3. CASE InstallGuards \/ NavigateWithBootstrap \/ AwaitReady \/ StartupTimeout
  BY <1>3 DEF InstallGuards, NavigateWithBootstrap, AwaitReady, StartupTimeout
<1>4. CASE DeleteCookie \/ CookieGone \/ ClearData
  <2>1. CASE DeleteCookie
    BY <2>1 DEF DeleteCookie
  <2>2. CASE CookieGone
    BY <2>2 DEF CookieGone
  <2>3. CASE ClearData
    BY <2>3 DEF ClearData
  <2> QED BY <1>4, <2>1, <2>2, <2>3
<1>5. CASE DestroyWindow \/ RemoveProfile
  BY <1>5 DEF DestroyWindow, RemoveProfile
<1>6. CASE ShutdownReport \/ DropWindow \/ DropProfile
  <2>1. CASE ShutdownReport
    BY <2>1 DEF ShutdownReport
  <2>2. CASE DropWindow
    BY <2>2 DEF DropWindow
  <2>3. CASE DropProfile
    BY <2>3 DEF DropProfile
  <2> QED BY <1>6, <2>1, <2>2, <2>3
<1>7. CASE ViewCall
  BY <1>7 DEF ViewCall, CallViewShutdown, CallRetryProfile, CallDropView
<1>8. CASE UNCHANGED viewVars
  BY <1>8 DEF viewVars
<1> QED BY <1>1, <1>2, <1>3, <1>4, <1>5, <1>6, <1>7, <1>8
        DEF ViewNext, ViewStep, BrowserCalls, BoundedStep

(***************************************************************************)
(* Under any caller of the WebView owner, also one that has given up         *)
(* waiting: a visible window is one whose browser was given the session.     *)
(***************************************************************************)
THEOREM ViewVisibleIsAuthenticated == ViewSpec => []VisibleIsAuthenticated
<1>1. PageAt => VisibleIsAuthenticated
  BY DEF PageAt, VisibleIsAuthenticated
<1>2. ViewInit => PageAt
  BY ViewInitial DEF ViewInv
<1> QED BY <1>1, <1>2, PageKept, PTL DEF ViewSpec

-------------------------------------------------------------------------------
(* The shell is a caller of both owners.                                     *)

LEMMA ShellStepIsOwnerStep ==
  [Next]_vars => [NativeNext]_native /\ [ViewNext]_viewVars
<1> SUFFICES ASSUME [Next]_vars PROVE [NativeNext]_native /\ [ViewNext]_viewVars OBVIOUS
<1> USE DEF native, UiFrame, ShellFrame
<1>1. CASE UNCHANGED vars \/ Done
  BY <1>1 DEF vars, Done
<1>2. CASE ExitRequested \/ DestroyedEvent
  BY <1>2 DEF ExitRequested, DestroyedEvent
<1>3. CASE \/ ParseOptions \/ NativeDropped \/ WriteEvidence
  BY <1>3 DEF ParseOptions, NativeDropped, WriteEvidence
<1>4. CASE Preflight
  BY <1>4 DEF Preflight, NativeNext
<1>5. CASE NativeLaunched
  BY <1>5 DEF NativeLaunched, ViewNext
<1>6. CASE ViewLaunched
  <2>1. (\E is_forced \in BOOLEAN : CallStop(is_forced)) \/ UNCHANGED native
    BY <1>6, TRUE \in BOOLEAN DEF ViewLaunched
  <2> QED BY <1>6, <2>1 DEF ViewLaunched, NativeNext, NativeCall
<1>7. CASE ViewFailed \/ ViewDropped
  BY <1>7 DEF ViewFailed, ViewDropped, NativeNext, NativeCall
<1>8. CASE ReceiveSignal
  <2>1. \E is_forced \in BOOLEAN : CallStop(is_forced)
    <3>1. (shell = "loop" /\ signals = "Forced") \in BOOLEAN
      OBVIOUS
    <3> QED BY <1>8, <3>1, Zenon DEF ReceiveSignal
  <2> QED BY <1>8, <2>1 DEF ReceiveSignal, NativeNext, NativeCall, ViewNext, ViewHides
<1>9. CASE PollHealthTick
  BY <1>9 DEF PollHealthTick, NativeNext, NativeCall
<1>10. CASE PollAnswered
  <2>1. UNCHANGED viewVars \/ ViewHides
    BY <1>10 DEF PollAnswered, ViewHides, viewVars
  <2> QED BY <1>10, <2>1 DEF PollAnswered, ViewNext
<1>11. CASE NativeStopped \/ ViewStopped
  BY <1>11 DEF NativeStopped, ViewStopped, ViewNext, ViewCall
<1>12. CASE CallerLaunches \/ CallerCalls
  BY <1>12 DEF CallerLaunches, CallerCalls, NativeNext, ViewNext
<1>13. CASE Owners \/ Accidents
  BY <1>13 DEF Owners, Accidents, NativeNext, ViewNext
<1> QED BY <1>1, <1>2, <1>3, <1>4, <1>5, <1>6, <1>7, <1>8, <1>9, <1>10, <1>11, <1>12, <1>13
        DEF Next, RunShell

(***************************************************************************)
(* The desktop program uses its two owners only as their interfaces allow,   *)
(* so that what holds of each under any caller holds in it.                  *)
(***************************************************************************)
THEOREM ShellUsesOwners == Spec => NativeSpec /\ ViewSpec
<1>1. Init => NativeInit /\ ViewInit
  BY DEF Init
<1> QED BY <1>1, ShellStepIsOwnerStep, PTL DEF Spec, NativeSpec, ViewSpec

(* In the program, too, no failure loses the runtime value.                  *)
THEOREM HeldOrGoneAlways == Spec => []HeldOrGone
BY ShellUsesOwners, NativeHeldOrGone, PTL

(* And no request races a forced stop of the runtime.                        *)
THEOREM NoTrafficDuringForceAlways == Spec => []NoTrafficDuringForce
BY ShellUsesOwners, NativeNoTraffic, PTL

(* And a window that can be seen is authenticated.                           *)
THEOREM VisibleIsAuthenticatedAlways == Spec => []VisibleIsAuthenticated
BY ShellUsesOwners, ViewVisibleIsAuthenticated, PTL

-------------------------------------------------------------------------------
(* Where the two owners stand at each control point of run_shell.            *)

ShellAt ==
  /\ shell # "parse" => driver = "shell"
  /\ driver = "shell" /\ shell \in {"parse", "preflight"} => app = "unborn"
  /\ shell = "launching" => app \in LaunchAt \cup {"idle", "gone"}
  /\ shell \in {"viewing", "loop", "closing", "stoppingView", "unhealthy", "dropView"} =>
       app = "idle"
  /\ shell \in {"viewFailed", "stopping"} => app \in StopAt \cup {"idle"}
  /\ shell = "polling" => app \in StopAt \cup {"health", "idle"}
  /\ shell = "dropNative" => app \in DropAt \cup {"gone"}
  /\ shell \in {"evidence", "exited"} => app \in {"unborn", "gone"}
  /\ shell \in {"parse", "preflight", "launching", "viewing", "viewFailed", "loop", "closing",
                "stopping", "polling", "stoppingView", "unhealthy", "dropView", "dropNative",
                "evidence", "exited"}

LEMMA ShellAtInitial == Init => ShellAt
BY DEF Init, NativeInit, ShellAt

(* A step of the native owner on its own stays inside the operation, and     *)
(* ends only where the operation does.                                       *)
LEMMA OwnerStepKeepsShellAt ==
  ASSUME NativeInv, ShellAt, driver = "shell",
         NativeStep \/ RuntimeStep \/ NativeEnvironment, UNCHANGED shellVars
  PROVE  ShellAt'
<1> USE DEF ShellAt, LaunchAt, StopAt, DropAt, shellVars
<1>1. CASE UNCHANGED app
  BY <1>1
<1>2. CASE \/ Prepare \/ BindProxy \/ ResolveHost \/ LaunchAnswer \/ CleanupProxyAfterFailure
  BY <1>2 DEF Prepare, BindProxy, ResolveHost, LaunchAnswer, CleanupProxyAfterFailure
<1>3. CASE StopRuntime \/ RuntimeAnswer \/ StopProxy \/ FinishShutdown \/ HealthAnswer
  BY <1>3 DEF StopRuntime, RuntimeAnswer, StopProxy, FinishShutdown, HealthAnswer
<1>4. CASE ReleaseRuntime \/ DropProxy \/ DropRuntime \/ Dropped
  BY <1>4 DEF ReleaseRuntime, DropProxy, DropRuntime, Dropped
<1> QED BY <1>1, <1>2, <1>3, <1>4 DEF NativeStep, RuntimeStep, NativeEnvironment, ListenerFails,
             WorkerPanics, nativeVars

LEMMA ShellAtKept == NativeInv /\ ShellAt /\ [Next]_vars => ShellAt'
<1> SUFFICES ASSUME NativeInv, ShellAt, [Next]_vars PROVE ShellAt' OBVIOUS
<1> USE DEF UiFrame, ShellFrame, native, nativeVars, StopAt, DropAt, LaunchAt
<1>1. CASE UNCHANGED vars \/ Done
  BY <1>1 DEF vars, Done, ShellAt, shellVars
<1>2. CASE ExitRequested \/ DestroyedEvent
  BY <1>2 DEF ExitRequested, DestroyedEvent, ShellAt
<1>3. CASE ParseOptions \/ NativeDropped \/ WriteEvidence
  BY <1>3 DEF ParseOptions, NativeDropped, WriteEvidence, ShellAt, Leave, LeaveFailed
<1>4. CASE Preflight \/ NativeLaunched
  BY <1>4 DEF Preflight, LaunchCalled, NativeLaunched, ShellAt, Leave, LeaveFailed
<1>5. CASE ViewLaunched \/ ReceiveSignal
  BY <1>5 DEF ViewLaunched, ReceiveSignal, CallStop, ShellAt
<1>6. CASE ViewFailed \/ ViewDropped
  BY <1>6 DEF ViewFailed, ViewDropped, CallDropApp, ShellAt
<1>7. CASE PollHealthTick \/ PollAnswered
  BY <1>7 DEF PollHealthTick, CallPoll, PollAnswered, ShellAt
<1>8. CASE NativeStopped \/ ViewStopped
  BY <1>8 DEF NativeStopped, ViewStopped, ShellAt
<1>9. CASE CallerLaunches \/ CallerCalls
  BY <1>9 DEF CallerLaunches, CallerCalls, shellVars, ShellAt
<1>10. CASE Owners \/ Accidents
  <2>1. CASE UNCHANGED <<native, shellVars>>
    BY <2>1 DEF ShellAt, shellVars
  <2>2. CASE driver # "shell"
    BY <1>10, <2>2 DEF Owners, Accidents, ShellAt, shellVars
  <2>3. CASE driver = "shell" /\ ~UNCHANGED <<native, shellVars>>
    BY <1>10, <2>3, OwnerStepKeepsShellAt DEF Owners, Accidents
  <2> QED BY <2>1, <2>2, <2>3
<1> QED BY <1>1, <1>2, <1>3, <1>4, <1>5, <1>6, <1>7, <1>8, <1>9, <1>10 DEF Next, RunShell

(***************************************************************************)
(* However the program ends, no listener and no runtime value is left.       *)
(***************************************************************************)
THEOREM NothingOutlivesExitAlways == Spec => []NothingOutlivesExit
<1> DEFINE Both == NativeInv /\ ShellAt
<1>1. Init => Both
  BY NativeInitial, ShellAtInitial DEF Init
<1>2. Both /\ [Next]_vars => Both'
  BY ShellStepIsOwnerStep, NativeStepKeeps, ShellAtKept
<1>3. Both => NothingOutlivesExit
  BY DEF NativeInv, NativeControl, Launching, Stopping, ShellAt, NothingOutlivesExit, LaunchAt
<1> QED BY <1>1, <1>2, <1>3, PTL DEF Spec

-------------------------------------------------------------------------------
(* What the evidence claims.                                                 *)

NothingLeft == phase = "gone" /\ ~tree /\ ~session

(* Control points of a shutdown after the cookie was dealt with.             *)
AfterCookie == {"cookieGone", "clear", "destroy", "remove", "report"}

(* The native owner has been stopped before the WebView is.                  *)
StoppedAt ==
  /\ shell = "stopping" /\ app = "idle" => ~proxy_held /\ (result = "ok" => NothingLeft)
  /\ shell = "stoppingView" => proxy = "stopped" /\ (native_ok => NothingLeft)

(* The WebView's report of a shutdown is its own, and still true: nobody     *)
(* serves a bootstrap request any more that could bring the cookie back.     *)
ReportedAt ==
  shell = "stoppingView" =>
    /\ view \notin ViewLaunchAt
    /\ view = "idle" /\ view_result = "ok" => report = Evidence
    /\ view \in AfterCookie \/ (view = "idle" /\ view_result = "ok") =>
         ("cookie" \in report => ~cookie)

(* What success evidence says stays true until the program is gone.          *)
CleanMachine ==
  /\ proxy = "stopped" /\ NothingLeft
  /\ view \notin ViewLaunchAt
  /\ ~cookie /\ ~profile /\ window \in {"destroying", "destroyed"}

ClaimedAt ==
  /\ evidence.stage \in FailureStage \cup {"none"} /\ evidence.claims \in {{}, Claims}
  /\ evidence.claims # {} =>
       shell \in {"dropView", "dropNative", "evidence", "exited"} /\ CleanMachine
  /\ shell \in {"dropView", "dropNative"} /\ evidence.stage = "none" => evidence.claims = Claims
  /\ exit_code = 0 => evidence.claims = Claims
  /\ exit_code \in -1..2

ClaimInv == NativeInv /\ ViewInv /\ ShellAt /\ StoppedAt /\ ReportedAt /\ ClaimedAt

LEMMA NothingLeftStays ==
  ASSUME NativeInv, NothingLeft, [NativeNext]_native
  PROVE  NothingLeft'
<1> USE DEF NothingLeft, contractVars, nativeVars
<1>1. app # "resolve" /\ phase = "gone"
  BY DEF NativeInv, NativeControl, Launching
<1>2. CASE LaunchCalled \/ NativeStep
  BY <1>1, <1>2 DEF LaunchCalled, NativeStep, Prepare, BindProxy, ResolveHost, LaunchAnswer,
       CleanupProxyAfterFailure, StopRuntime, Stop, Refuse, RuntimeAnswer, StopProxy,
       FinishShutdown, HealthAnswer, ReleaseRuntime, DropProxy, DropRuntime, Dropped, Drop
<1>3. CASE NativeCall
  BY <1>1, <1>3 DEF NativeCall, CallStop, CallPoll, CallRetry, CallOnEmpty, CallDropApp, PollHealth,
       Retry, Refuse
<1>4. CASE RuntimeStep
  BY <1>1, <1>4 DEF RuntimeStep, Internal, SessionCreated, TreeStarts, BecomesReady, StartupFails,
       NeverStarted, EndRemovesSession, Ended, Healthy, StopFails, JobClosed,
       StopLeavesSession, StopCleans
<1>5. CASE NativeEnvironment
  BY <1>1, <1>5 DEF NativeEnvironment, ListenerFails, WorkerPanics, TreeExits
<1>6. CASE UNCHANGED native
  BY <1>6 DEF native
<1> QED BY <1>2, <1>3, <1>4, <1>5, <1>6 DEF NativeNext

LEMMA StoppedStays ==
  ASSUME NativeInv, proxy = "stopped", [NativeNext]_native
  PROVE  proxy' = "stopped"
<1> USE DEF contractVars, nativeVars
<1>1. app # "bind"
  BY DEF NativeInv, NativeControl, Launching, LaunchAt
<1>2. CASE LaunchCalled \/ NativeStep
  BY <1>1, <1>2 DEF LaunchCalled, NativeStep, Prepare, BindProxy, ResolveHost, LaunchAnswer,
       CleanupProxyAfterFailure, ProxyShutdown, StopRuntime, RuntimeAnswer, StopProxy,
       FinishShutdown, HealthAnswer, ReleaseRuntime, DropProxy, DropRuntime, Dropped
<1>3. CASE NativeCall
  BY <1>3 DEF NativeCall, CallStop, CallPoll, CallRetry, CallOnEmpty, CallDropApp
<1>4. CASE RuntimeStep \/ NativeEnvironment \/ UNCHANGED native
  BY <1>4 DEF RuntimeStep, NativeEnvironment, ListenerFails, WorkerPanics, native
<1> QED BY <1>2, <1>3, <1>4 DEF NativeNext

(* Once launched, a WebView does not come back to launching; without a proxy *)
(* its cookie does not come back, and what it has removed stays removed.      *)
LEMMA ViewStays ==
  ASSUME [ViewNext]_viewVars, view \notin ViewLaunchAt
  PROVE  /\ view' \notin ViewLaunchAt
         /\ proxy = "stopped" /\ ~cookie => ~cookie'
         /\ ~profile => ~profile'
         /\ window \in {"destroying", "destroyed"} => window' \in {"destroying", "destroyed"}
<1> USE DEF ViewLaunchAt, browserVars
<1>1. CASE Browser(proxy = "running", driver = "shell") \/ WindowLost
  BY <1>1 DEF Browser, BootstrapFinishes, CheckCookie, NavigateRoot, RootFinishes, WindowDestroyed,
              WindowLost
<1>2. CASE ViewHides \/ ViewCall \/ ViewLaunchCalled
  BY <1>2 DEF ViewHides, ViewCall, CallViewShutdown, CallRetryProfile, CallDropView,
              ViewLaunchCalled
<1>3. CASE DeleteCookie \/ CookieGone
  <2>1. cookie' = cookie \/ cookie' = FALSE
    BY <1>3 DEF DeleteCookie, CookieGone
  <2>2. UNCHANGED <<profile, window>> /\ view' \in {"cookieGone", "clear"}
    BY <1>3 DEF DeleteCookie, CookieGone
  <2> QED BY <2>1, <2>2
<1>4. CASE ClearData \/ DestroyWindow \/ RemoveProfile
  BY <1>4 DEF ClearData, DestroyWindow, RemoveProfile
<1>5. CASE ShutdownReport \/ DropWindow \/ DropProfile
  <2>1. UNCHANGED cookie /\ (profile' = profile \/ profile' = FALSE)
    BY <1>5 DEF ShutdownReport, DropWindow, DropProfile
  <2>2. window' = window \/ window' = "destroying"
    BY <1>5 DEF ShutdownReport, DropWindow, DropProfile
  <2>3. view' \in {"dropWindow", "idle", "dropProfile", "gone"}
    BY <1>5 DEF ShutdownReport, DropWindow, DropProfile
  <2> QED BY <2>1, <2>2, <2>3
<1>6. CASE UNCHANGED viewVars
  BY <1>6 DEF viewVars
<1> QED BY <1>1, <1>2, <1>3, <1>4, <1>5, <1>6
        DEF ViewNext, ViewStep, BrowserCalls, BoundedStep, CreateProfile, CreateWindow,
            InstallGuards, NavigateWithBootstrap, AwaitReady, StartupTimeout

(* The shell takes one of its own steps, or waits while its owners run.      *)
LEMMA ShellFrames ==
  ASSUME [Next]_vars, driver = "shell"
  PROVE  \/ RunShell
         \/ /\ UNCHANGED <<shell, native_ok, evidence, exit_code>>
            /\ NativeStep \/ RuntimeStep \/ NativeEnvironment \/ UNCHANGED native
            /\ ViewStep \/ Browser(proxy = "running", driver = "shell") \/ WindowLost \/ UNCHANGED viewVars
<1>1. CASE ExitRequested \/ DestroyedEvent
  BY <1>1 DEF ExitRequested, DestroyedEvent, UiFrame, native
<1>2. CASE Owners \/ Accidents \/ Done \/ UNCHANGED vars
  BY <1>2 DEF Owners, Accidents, Done, vars, shellVars, native
<1>3. ~CallerLaunches /\ ~CallerCalls
  BY DEF CallerLaunches, CallerCalls
<1> QED BY <1>1, <1>2, <1>3 DEF Next

LEMMA DriverStays == [Next]_vars => driver' = driver
BY DEF Next, ExitRequested, DestroyedEvent, UiFrame, RunShell, ParseOptions, Preflight, NativeLaunched,
     ViewLaunched, ViewFailed, ReceiveSignal, PollHealthTick, PollAnswered, NativeStopped, ViewStopped,
     ViewDropped, NativeDropped, WriteEvidence, ShellFrame, CallerLaunches, CallerCalls, Owners,
     Accidents, Done, vars, shellVars

LEMMA StoppedKept ==
  ASSUME NativeInv, ShellAt, StoppedAt, [Next]_vars
  PROVE  StoppedAt'
<1>1. ASSUME UNCHANGED <<shell, native_ok>>, shell = "stopping", app' = "idle",
             NativeStep \/ RuntimeStep \/ NativeEnvironment \/ UNCHANGED native
      PROVE  ~proxy_held' /\ (result' = "ok" => NothingLeft')
  <2>1. CASE app = "idle"
    <3>1. UNCHANGED <<proxy_held, result>>
      BY <1>1, <2>1 DEF NativeStep, Prepare, BindProxy, ResolveHost, LaunchAnswer,
           CleanupProxyAfterFailure, StopRuntime, RuntimeAnswer, StopProxy, FinishShutdown,
           HealthAnswer, ReleaseRuntime, DropProxy, DropRuntime, Dropped, RuntimeStep,
           NativeEnvironment, ListenerFails, WorkerPanics, native, nativeVars
    <3>2. [NativeNext]_native
      BY <1>1 DEF NativeNext
    <3> QED BY <1>1, <2>1, <3>1, <3>2, NothingLeftStays DEF StoppedAt
  <2>2. CASE app # "idle"
    <3>1. FinishShutdown
      BY <1>1, <2>2 DEF ShellAt, StopAt, NativeStep, Prepare, BindProxy, ResolveHost, LaunchAnswer,
           CleanupProxyAfterFailure, StopRuntime, RuntimeAnswer, StopProxy, 
           HealthAnswer, ReleaseRuntime, DropProxy, DropRuntime, Dropped, RuntimeStep,
           NativeEnvironment, ListenerFails, WorkerPanics, native, nativeVars
    <3> QED BY <3>1 DEF FinishShutdown, contractVars, NativeInv, NativeControl, Stopping,
                        StoppedClean, NothingLeft
  <2> QED BY <2>1, <2>2
<1>2. ASSUME UNCHANGED <<shell, native_ok>>, shell = "stoppingView"
      PROVE  proxy' = "stopped" /\ (native_ok' => NothingLeft')
  BY <1>2, ShellStepIsOwnerStep, NothingLeftStays, StoppedStays DEF StoppedAt
<1>3. CASE RunShell
  <2>1. CASE NativeStopped
    <3>1. /\ shell' = "stoppingView" /\ UNCHANGED native /\ native_ok' = (result = "ok")
          /\ shell = "stopping" /\ app = "idle"
      BY <2>1 DEF NativeStopped
    <3>2. proxy = "stopped" /\ (result = "ok" => NothingLeft)
      BY <3>1 DEF StoppedAt, NativeInv, NativeControl, Stopping, ProxyKept
    <3>3. native_ok' => result = "ok"
      BY <3>1
    <3>4. proxy' = "stopped" /\ (NothingLeft => NothingLeft')
      BY <3>1, <3>2 DEF native, contractVars, nativeVars, NothingLeft
    <3> QED BY <3>1, <3>2, <3>3, <3>4 DEF StoppedAt
  <2>2. CASE ReceiveSignal
    BY <2>2 DEF ReceiveSignal, CallStop, StoppedAt
  <2>3. shell' \notin {"stopping", "stoppingView"} \/ NativeStopped \/ ReceiveSignal
    BY <1>3 DEF RunShell, ParseOptions, Preflight, NativeLaunched, ViewLaunched, ViewFailed,
         PollHealthTick, PollAnswered, ViewStopped, ViewDropped, NativeDropped, WriteEvidence,
         Leave, LeaveFailed
  <2> QED BY <2>1, <2>2, <2>3 DEF StoppedAt
<1>4. CASE driver # "shell"
  <2>1. shell' = "parse"
    BY <1>4, ShellAtKept DEF ShellAt, Next, ExitRequested, DestroyedEvent, RunShell, ParseOptions,
         Preflight, NativeLaunched, ViewLaunched, ViewFailed, ReceiveSignal, PollHealthTick,
         PollAnswered, NativeStopped, ViewStopped, ViewDropped, NativeDropped, WriteEvidence,
         CallerLaunches, CallerCalls, Owners, Accidents, Done, vars, shellVars
  <2> QED BY <2>1 DEF StoppedAt
<1>5. CASE driver = "shell" /\ ~RunShell
  BY <1>1, <1>2, <1>5, ShellFrames DEF StoppedAt
<1> QED BY <1>3, <1>4, <1>5

LEMMA ReportedKept ==
  ASSUME NativeInv, ShellAt, StoppedAt, ReportedAt, [Next]_vars
  PROVE  ReportedAt'
<1> SUFFICES ASSUME shell' = "stoppingView"
             PROVE  /\ view' \notin ViewLaunchAt
                    /\ view' = "idle" /\ view_result' = "ok" => report' = Evidence
                    /\ view' \in AfterCookie \/ (view' = "idle" /\ view_result' = "ok") =>
                         ("cookie" \in report' => ~cookie')
  BY DEF ReportedAt
<1>1. driver = "shell"
  BY ShellAtKept, DriverStays DEF ShellAt
<1>2. CASE RunShell
  <2>1. NativeStopped
    BY <1>2 DEF RunShell, ParseOptions, Preflight, NativeLaunched, ViewLaunched, ViewFailed,
         ReceiveSignal, PollHealthTick, PollAnswered, ViewStopped, ViewDropped, NativeDropped,
         WriteEvidence, Leave, LeaveFailed
  <2> QED BY <2>1 DEF NativeStopped, CallViewShutdown, ViewLaunchAt, AfterCookie
<1>3. CASE ~RunShell
  <2>1. /\ shell = "stoppingView" /\ proxy = "stopped" /\ view \notin ViewLaunchAt
        /\ ViewStep \/ Browser(proxy = "running", driver = "shell") \/ WindowLost \/ UNCHANGED viewVars
    BY <1>1, <1>3, ShellFrames DEF StoppedAt, ReportedAt
  <2>2. /\ view = "idle" /\ view_result = "ok" => report = Evidence
        /\ view \in AfterCookie \/ (view = "idle" /\ view_result = "ok") =>
             ("cookie" \in report => ~cookie)
    BY <2>1 DEF ReportedAt
  <2> USE DEF ViewLaunchAt, AfterCookie, browserVars
  <2>3. CASE Browser(proxy = "running", driver = "shell") \/ WindowLost \/ UNCHANGED viewVars
    BY <2>1, <2>2, <2>3 DEF Browser, BootstrapFinishes, CheckCookie, NavigateRoot, RootFinishes,
         WindowDestroyed, WindowLost, viewVars
  <2>4. CASE DeleteCookie
    BY <2>4 DEF DeleteCookie
  <2>5. CASE CookieGone
    BY <2>2, <2>5 DEF CookieGone
  <2>6. CASE ClearData \/ DestroyWindow \/ RemoveProfile
    BY <2>2, <2>6 DEF ClearData, DestroyWindow, RemoveProfile
  <2>7. CASE ShutdownReport
    BY <2>2, <2>7 DEF ShutdownReport
  <2>8. CASE DropWindow \/ DropProfile
    BY <2>8 DEF DropWindow, DropProfile
  <2> QED BY <2>1, <2>3, <2>4, <2>5, <2>6, <2>7, <2>8
          DEF ViewStep, BrowserCalls, BoundedStep, CreateProfile, CreateWindow,
              InstallGuards, NavigateWithBootstrap, AwaitReady, StartupTimeout
<1> QED BY <1>2, <1>3

(* What success evidence says stays true, whatever runs on.                  *)
LEMMA CleanStays ==
  ASSUME NativeInv, CleanMachine, [Next]_vars
  PROVE  CleanMachine'
BY ShellStepIsOwnerStep, NothingLeftStays, StoppedStays, ViewStays DEF CleanMachine

(* Only a success of both owners is claimed, and it is what their reports    *)
(* say it is.                                                                 *)
LEMMA SuccessIsTrue ==
  ASSUME NativeInv, ViewInv, ShellAt, StoppedAt, ReportedAt,
         shell = "stoppingView", view = "idle", ShellSuccess
  PROVE  report = Evidence /\ CleanMachine
<1>1. proxy = "stopped" /\ NothingLeft
  BY DEF StoppedAt, ShellSuccess
<1>2. report = Evidence /\ ~cookie
  BY DEF ReportedAt, ShellSuccess, Evidence
<1>3. ~profile /\ window \in {"destroying", "destroyed"}
  BY <1>2 DEF ViewInv, ReportAt, Evidence
<1> QED BY <1>1, <1>2, <1>3 DEF CleanMachine, ViewLaunchAt

LEMMA ClaimedKept ==
  ASSUME NativeInv, ViewInv, ShellAt, StoppedAt, ReportedAt, ClaimedAt, [Next]_vars
  PROVE  ClaimedAt'
<1> DEFINE Unclaimed == evidence.claims = {} /\ exit_code # 0
<1>1. Claims # {} /\ {} # Claims
  BY DEF Claims, Evidence
<1>2. shell \notin {"dropView", "dropNative", "evidence", "exited"} => Unclaimed
  BY <1>1 DEF ClaimedAt
<1>3. evidence.claims # {} => CleanMachine'
  BY CleanStays DEF ClaimedAt
<1>4. ASSUME UNCHANGED <<shell, evidence, exit_code>>
      PROVE  ClaimedAt'
  BY <1>3, <1>4 DEF ClaimedAt
<1>6. ASSUME UNCHANGED <<evidence, exit_code>>,
             shell \notin {"dropView", "dropNative", "evidence", "exited"},
             shell' \notin {"dropView", "dropNative"}
      PROVE  ClaimedAt'
  BY <1>1, <1>2, <1>6 DEF ClaimedAt
<1>7. CASE ParseOptions \/ Preflight \/ NativeLaunched
  <2>1. shell \in {"parse", "preflight", "launching"}
    BY <1>7 DEF ParseOptions, Preflight, NativeLaunched
  <2>2. \/ UNCHANGED evidence
        \/ \E stage \in FailureStage : evidence' = FailureEvidence(stage)
    BY <1>7 DEF ParseOptions, Preflight, NativeLaunched, LeaveFailed, Leave, FailureStage
  <2>3. evidence'.claims = {} /\ evidence'.stage \in FailureStage \cup {"none"}
    BY <1>2, <2>1, <2>2 DEF FailureEvidence, ClaimedAt
  <2>4. exit_code' \in {exit_code, 1, 2} /\ shell' \notin {"dropView", "dropNative"}
    BY <1>7 DEF ParseOptions, Preflight, NativeLaunched, LeaveFailed, Leave
  <2> QED BY <1>1, <1>2, <2>1, <2>3, <2>4 DEF ClaimedAt
<1>8. CASE ViewLaunched \/ ReceiveSignal \/ PollHealthTick \/ PollAnswered \/ NativeStopped
  BY <1>6, <1>8 DEF ViewLaunched, ReceiveSignal, PollHealthTick, PollAnswered, NativeStopped
<1>9. CASE ViewFailed
  <2>1. evidence' = FailureEvidence("webview_startup") /\ UNCHANGED exit_code /\ shell = "viewFailed"
    BY <1>9 DEF ViewFailed
  <2> QED BY <1>1, <1>2, <2>1 DEF ClaimedAt, FailureEvidence, FailureStage
<1>10. CASE ViewStopped
  <2>1. /\ shell' = "dropView" /\ UNCHANGED exit_code /\ exit_code # 0 /\ view = "idle"
        /\ shell \in {"stoppingView", "unhealthy"}
    BY <1>2, <1>10 DEF ViewStopped
  <2>2. CASE shell = "stoppingView" /\ ShellSuccess
    <3>1. report = Evidence /\ CleanMachine
      BY <2>1, <2>2, SuccessIsTrue
    <3>2. evidence' = SuccessEvidence
      BY <1>10, <2>2 DEF ViewStopped
    <3>3. evidence'.stage = "none" /\ evidence'.claims = Claims
      BY <3>1, <3>2 DEF SuccessEvidence, Claims
    <3>4. CleanMachine'
      BY <3>1, CleanStays
    <3> QED BY <2>1, <3>3, <3>4 DEF ClaimedAt
  <2>3. CASE ~(shell = "stoppingView" /\ ShellSuccess)
    <3>1. \E stage \in FailureStage : evidence' = FailureEvidence(stage)
      BY <1>10, <2>1, <2>3 DEF ViewStopped, FailureStage
    <3>2. evidence'.claims = {} /\ evidence'.stage \in FailureStage /\ evidence'.stage # "none"
      BY <3>1 DEF FailureEvidence, FailureStage
    <3> QED BY <1>1, <2>1, <3>2 DEF ClaimedAt
  <2> QED BY <2>2, <2>3
<1>11. CASE ViewDropped
  BY <1>3, <1>11 DEF ViewDropped, ClaimedAt
<1>12. CASE NativeDropped
  <2>1. /\ shell = "dropNative" /\ shell' = "evidence" /\ evidence' = evidence
        /\ exit_code' = IF evidence.stage = "none" THEN 0 ELSE 1
    BY <1>12 DEF NativeDropped, Leave
  <2> QED BY <1>3, <2>1 DEF ClaimedAt
<1>13. CASE WriteEvidence
  <2>1. /\ shell' = "exited" /\ evidence' = evidence
        /\ exit_code' = exit_code \/ exit_code' = 1
    BY <1>13 DEF WriteEvidence
  <2> QED BY <1>3, <2>1 DEF ClaimedAt
<1>14. CASE driver = "shell" /\ ~RunShell
  BY <1>4, <1>14, ShellFrames
<1>15. CASE driver # "shell"
  <2>1. shell = "parse" /\ ~RunShell
    BY <1>15 DEF ShellAt, RunShell, ParseOptions, Preflight, NativeLaunched, ViewLaunched, ViewFailed,
         ReceiveSignal, PollHealthTick, PollAnswered, NativeStopped, ViewStopped, ViewDropped,
         NativeDropped, WriteEvidence
  <2>2. UNCHANGED <<shell, evidence, exit_code>>
    BY <1>15, <2>1 DEF Next, ExitRequested, DestroyedEvent, CallerLaunches, CallerCalls, Owners,
         Accidents, Done, vars, shellVars
  <2> QED BY <1>4, <2>2
<1> QED BY <1>7, <1>8, <1>9, <1>10, <1>11, <1>12, <1>13, <1>14, <1>15 DEF RunShell

LEMMA ClaimInvInitial == Init => ClaimInv
<1> SUFFICES ASSUME Init PROVE ClaimInv OBVIOUS
<1>1. NativeInv /\ ViewInv /\ ShellAt
  BY NativeInitial, ViewInitial, ShellAtInitial DEF Init
<1>2. StoppedAt /\ ReportedAt
  BY DEF Init, StoppedAt, ReportedAt
<1>3. ClaimedAt
  BY DEF Init, ClaimedAt, NoEvidence
<1> QED BY <1>1, <1>2, <1>3 DEF ClaimInv

LEMMA ClaimInvKept == ClaimInv /\ [Next]_vars => ClaimInv'
<1> SUFFICES ASSUME ClaimInv, [Next]_vars PROVE ClaimInv' OBVIOUS
<1>1. NativeInv' /\ ShellAt'
  BY ShellStepIsOwnerStep, NativeStepKeeps, ShellAtKept DEF ClaimInv
<1>2. ViewInv'
  BY ShellStepIsOwnerStep, PageKept, ViewTypesKept, ReportKept DEF ClaimInv, ViewInv
<1>3. StoppedAt' /\ ReportedAt'
  BY StoppedKept, ReportedKept DEF ClaimInv
<1>4. ClaimedAt'
  BY ClaimedKept DEF ClaimInv
<1> QED BY <1>1, <1>2, <1>3, <1>4 DEF ClaimInv

(***************************************************************************)
(* The evidence of a finished run is true of the machine, and exit code 0    *)
(* stands for all of it: each claim is made once its owner has reported it,  *)
(* and nothing that still runs between then and the end can undo it.         *)
(***************************************************************************)
THEOREM SuccessIsCleanAlways == Spec => []SuccessIsClean
<1>1. ClaimInv => SuccessIsClean
  <2> SUFFICES ASSUME ClaimInv, evidence.claims # {} PROVE evidence.claims \subseteq TrueClaims
    BY DEF SuccessIsClean, ClaimInv, ClaimedAt
  <2>1. CleanMachine
    BY DEF ClaimInv, ClaimedAt
  <2>2. TrueClaims = Claims
    BY <2>1 DEF CleanMachine, NothingLeft, TrueClaims, Claims, Evidence
  <2> QED BY <2>2 DEF ClaimInv, ClaimedAt
<1> QED BY <1>1, ClaimInvInitial, ClaimInvKept, PTL DEF Spec

(* Every variable of the program and of its two owners keeps its type.       *)
THEOREM ShellTypes == Spec => []TypeOK
<1>1. ClaimInv => TypeOK
  <2> SUFFICES ASSUME ClaimInv PROVE TypeOK OBVIOUS
  <2>1. /\ busy \in BOOLEAN /\ tree \in BOOLEAN /\ session \in BOOLEAN
        /\ proxy_held \in BOOLEAN /\ runtime_held \in BOOLEAN
    BY Zenon DEF ClaimInv, NativeInv, Flags
  <2>2. Places
    BY DEF ClaimInv, NativeInv
  <2>3. ViewTypes /\ PageAt /\ ReportAt
    BY DEF ClaimInv, ViewInv
  <2>4. /\ evidence.stage \in FailureStage \cup {"none"} /\ evidence.claims \subseteq Claims
        /\ exit_code \in -1..2
    BY DEF ClaimInv, ClaimedAt
  <2> QED BY <2>1, <2>2, <2>3, <2>4, Zenon DEF TypeOK, Places, ViewTypes, PageAt, ReportAt
<1> QED BY <1>1, ClaimInvInitial, ClaimInvKept, PTL DEF Spec
===============================================================================
