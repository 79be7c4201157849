----------------------------- MODULE WebviewOwner -----------------------------
(***************************************************************************)
(* SecureWebviewOwner (crates/windows-webview/src): one hidden window, the   *)
(* one-time bootstrap navigation that gives it the session cookie, and the   *)
(* per-launch profile directory.                                             *)
(*                                                                          *)
(* Four parties interleave: the owner's future (`view`), the UI thread that  *)
(* runs dispatched closures and page-load callbacks, the thread that checks  *)
(* the cookie after the bootstrap page (`checker`), and the browser.  Only   *)
(* `page` (an AtomicU8) and the one-shot `ready` connect them, and a         *)
(* callback may run after the owner has given up waiting for it.             *)
(***************************************************************************)

VARIABLES
  view,        \* control point of the owner
  window,      \* "none", "open", "destroying" or "destroyed"
  window_held, \* the field `window` is Some
  visible,
  page,        \* AtomicU8: 0 fresh, 1 bootstrapped, 2 verified, 3 shown, 4 failed
  checker,     \* cookie thread: "none", "reading", "navigating" or "done"
  ready,       \* the oneshot: "empty", "ok", "err"; first writer wins
  navigation,  \* what the browser is loading: "none", "bootstrap" or "root"
  consumed,    \* the proxy has accepted the bootstrap credential
  cookie,      \* the session cookie is in the browser
  profile,     \* the profile directory exists
  profile_held,\* ScopedProfile.path is Some
  report,      \* set of cleanup steps that succeeded
  failing,     \* the launch has failed and is cleaning up
  view_result  \* of the last operation: "none", "ok" or "err"

viewVars == <<view, window, window_held, visible, page, checker, ready, navigation,
              consumed, cookie, profile, profile_held, report, failing,
              view_result>>
browserVars == <<window, visible, page, checker, ready, navigation, consumed, cookie>>

ViewInit ==
  /\ view = "unborn" /\ window = "none" /\ window_held = FALSE /\ visible = FALSE
  /\ page = 0 /\ checker = "none" /\ ready = "empty" /\ navigation = "none"
  /\ consumed = FALSE /\ cookie = FALSE
  /\ profile = FALSE /\ profile_held = FALSE
  /\ report = {} /\ failing = FALSE /\ view_result = "none"

(* A window whose page callbacks can still run: a destroy is only posted.    *)
Alive == {"open", "destroying"}

(* The four claims of WebviewShutdownReport.                                 *)
Evidence == {"cookie", "data", "window", "profile"}

(* signal_startup: only the first signal is sent.                            *)
SignalStartup(what) == ready' = IF ready = "empty" THEN what ELSE ready

-------------------------------------------------------------------------------
(* The UI thread and the browser.                                            *)

(***************************************************************************)
(* The proxy answers the bootstrap request: once, and only while it serves. *)
(* The answer, and with it the cookie, may be lost on the way; the browser  *)
(* reports the page as finished in every case.  The callback of the first   *)
(* bootstrap page moves 0 to 1 and starts the cookie thread.                 *)
(***************************************************************************)
BootstrapFinishes(serving) ==
  /\ window \in Alive /\ navigation = "bootstrap"
  /\ navigation' = "none"
  /\ \/ serving /\ ~consumed /\ consumed' = TRUE /\ cookie' \in BOOLEAN
     \/ ~(serving /\ ~consumed) /\ UNCHANGED <<consumed, cookie>>
  /\ IF page = 0 THEN page' = 1 /\ checker' = "reading"
                 ELSE UNCHANGED <<page, checker>>
  /\ UNCHANGED <<view, window, window_held, visible, ready, profile, profile_held,
                 report, failing, view_result>>

(* Mutant: the cookie is taken for granted once the page has loaded.         *)
CheckCookieTrusts ==
  /\ checker = "reading"
  /\ page' = 2 /\ checker' = "navigating"
  /\ UNCHANGED <<view, window, window_held, visible, ready, navigation, consumed,
                 cookie, profile, profile_held, report, failing, view_result>>

(* cookies_for_url and session_cookie_is_exact: the call fails without a     *)
(* window.                                                                   *)
CheckCookie ==
  /\ checker = "reading"
  /\ \/ /\ window = "open" /\ cookie
        /\ page' = 2 /\ checker' = "navigating" /\ UNCHANGED ready
     \/ /\ page' = 4 /\ checker' = "done" /\ SignalStartup("err")
  /\ UNCHANGED <<view, window, window_held, visible, navigation, consumed, cookie,
                 profile, profile_held, report, failing, view_result>>

NavigateRoot ==
  /\ checker = "navigating"
  /\ checker' = "done"
  /\ \/ window = "open" /\ navigation' = "root" /\ UNCHANGED <<page, ready>>
     \/ page' = 4 /\ SignalStartup("err") /\ UNCHANGED navigation
  /\ UNCHANGED <<view, window, window_held, visible, consumed, cookie, profile,
                 profile_held, report, failing, view_result>>

(* The callback of the first page of the origin after the check shows the    *)
(* window, whether or not the owner still waits.  A caller may have asked    *)
(* for a window that stays hidden (show_after_ready, `shows`).               *)
RootFinishes(shows) ==
  /\ window \in Alive /\ navigation = "root"
  /\ navigation' = "none"
  /\ IF page = 2
       THEN \/ page' = 3 /\ visible' = TRUE /\ SignalStartup("ok")
            \/ page' = 4 /\ SignalStartup("err") /\ UNCHANGED visible
            \/ ~shows /\ page' = 3 /\ SignalStartup("ok") /\ UNCHANGED visible
       ELSE UNCHANGED <<page, visible, ready>>
  /\ UNCHANGED <<view, window, window_held, checker, consumed, cookie, profile,
                 profile_held, report, failing, view_result>>

(* The event loop carries out a destroy.                                     *)
WindowDestroyed ==
  /\ window = "destroying"
  /\ window' = "destroyed" /\ visible' = FALSE /\ navigation' = "none"
  /\ UNCHANGED <<view, window_held, page, checker, ready, consumed, cookie, profile,
                 profile_held, report, failing, view_result>>

(* The system destroys the window of an owner that did not ask for it.       *)
WindowLost ==
  /\ window = "open"
  /\ window' = "destroyed" /\ visible' = FALSE /\ navigation' = "none"
  /\ UNCHANGED <<view, window_held, page, checker, ready, consumed, cookie, profile,
                 profile_held, report, failing, view_result>>

Browser(serving, shows) ==
  \/ BootstrapFinishes(serving) \/ CheckCookie \/ NavigateRoot \/ RootFinishes(shows)
  \/ WindowDestroyed

-------------------------------------------------------------------------------
(* launch.                                                                   *)

(* Limits, configuration and identity are checked first.                     *)
ViewLaunchCalled ==
  /\ view = "unborn"
  /\ \/ view' = "profile" /\ UNCHANGED view_result
     \/ view' = "gone" /\ view_result' = "err"
  /\ UNCHANGED <<browserVars, window_held, profile, profile_held, report, failing>>

(* ScopedProfile::create: a new directory of a random name.  One whose path   *)
(* fails its check is removed, as far as that works, and not kept.            *)
CreateProfile ==
  /\ view = "profile"
  /\ \/ view' = "dispatch" /\ profile' = TRUE /\ profile_held' = TRUE
        /\ UNCHANGED view_result
     \/ view' = "gone" /\ view_result' = "err" /\ profile' \in BOOLEAN
        /\ UNCHANGED profile_held
  /\ UNCHANGED <<browserVars, window_held, report, failing>>

(***************************************************************************)
(* The window is built hidden on the UI thread.  Without one the launch ends *)
(* and only the profile value is dropped.                                    *)
(***************************************************************************)
CreateWindow ==
  /\ view = "dispatch"
  /\ \/ view' = "guards" /\ window' = "open" /\ window_held' = TRUE
        /\ UNCHANGED view_result
     \/ view' = "dropProfile" /\ view_result' = "err" /\ UNCHANGED <<window, window_held>>
  /\ UNCHANGED <<visible, page, checker, ready, navigation, consumed, cookie, profile,
                 profile_held, report, failing>>

(* install_guards: settings read back, request filter, external schemes.     *)
InstallGuards ==
  /\ view = "guards"
  /\ \/ window = "open" /\ view' = "bootstrap" /\ UNCHANGED failing
     \/ view' = "cookie" /\ failing' = TRUE
  /\ UNCHANGED <<browserVars, window_held, profile, profile_held, report,
                 view_result>>

(* The dispatched navigation may happen although its answer came too late.   *)
NavigateWithBootstrap ==
  /\ view = "bootstrap"
  /\ \/ window = "open" /\ navigation' = "bootstrap" /\ view' = "await"
        /\ UNCHANGED failing
     \/ /\ navigation' \in (IF window = "open" THEN {"bootstrap"} ELSE {})
                             \cup {navigation}
        /\ view' = "cookie" /\ failing' = TRUE
  /\ UNCHANGED <<window, visible, page, checker, ready, consumed, cookie, window_held,
                 profile, profile_held, report, view_result>>

AwaitReady ==
  /\ view = "await"
  /\ \/ ready = "ok" /\ view' = "idle" /\ view_result' = "ok" /\ UNCHANGED failing
     \/ ready = "err" /\ view' = "cookie" /\ failing' = TRUE /\ UNCHANGED view_result
  /\ UNCHANGED <<browserVars, window_held, profile, profile_held, report>>

(* Mutant: the deadline covers the bootstrap page only.                      *)
StartupTimeoutEarly ==
  /\ view = "await" /\ ready = "empty" /\ page = 0
  /\ view' = "cookie" /\ failing' = TRUE
  /\ UNCHANGED <<browserVars, window_held, profile, profile_held, report, view_result>>

StartupTimeout ==
  /\ view = "await" /\ ready = "empty"
  /\ view' = "cookie" /\ failing' = TRUE
  /\ UNCHANGED <<browserVars, window_held, profile, profile_held, report,
                 view_result>>

-------------------------------------------------------------------------------
(* shutdown: every step is attempted, whatever the ones before it did.       *)

(***************************************************************************)
(* delete_session_cookie: deletes what it finds, then looks for it again    *)
(* until it is gone or the rounds are used up.  An error of the browser ends *)
(* it.                                                                        *)
(***************************************************************************)
DeleteCookie ==
  /\ view = "cookie"
  /\ \/ window = "open" /\ view' = "cookieGone" /\ cookie' \in {cookie, FALSE}
     \/ view' = "clear" /\ UNCHANGED cookie
  /\ report' = {}
  /\ UNCHANGED <<window, visible, page, checker, ready, navigation, consumed,
                 window_held, profile, profile_held, failing, view_result>>

CookieGone ==
  /\ view = "cookieGone"
  /\ view' = "clear"
  /\ \/ window = "open" /\ cookie' = FALSE /\ report' = report \cup {"cookie"}
     \/ (cookie \/ window # "open") /\ UNCHANGED <<cookie, report>>
  /\ UNCHANGED <<window, visible, page, checker, ready, navigation, consumed,
                 window_held, profile, profile_held, failing, view_result>>

ClearData ==
  /\ view = "clear"
  /\ view' = "destroy"
  /\ \/ window = "open" /\ report' = report \cup {"data"}
     \/ UNCHANGED report
  /\ UNCHANGED <<browserVars, window_held, profile, profile_held, failing,
                 view_result>>

(* destroy() posts to the event loop; the handle is dropped either way.      *)
DestroyWindow ==
  /\ view = "destroy"
  /\ \/ window = "open" /\ window' = "destroying" /\ report' = report \cup {"window"}
     \/ UNCHANGED <<window, report>>
  /\ window_held' = FALSE
  /\ view' = "remove"
  /\ UNCHANGED <<visible, page, checker, ready, navigation, consumed, cookie, profile,
                 profile_held, failing, view_result>>

(* Mutant: the path is kept after the directory was removed.                 *)
RemoveProfileKeepsPath ==
  /\ view = "remove"
  /\ view' = "report"
  /\ profile' = FALSE /\ report' = report \cup {"profile"}
  /\ UNCHANGED <<browserVars, window_held, profile_held, failing, view_result>>

(***************************************************************************)
(* remove_bounded: tries until the directory is gone, the path fails its     *)
(* scope check, the worker panics or the deadline has passed.  A shutdown   *)
(* that finds no profile to remove counts it as removed.                     *)
(***************************************************************************)
RemoveProfile ==
  /\ view = "remove"
  /\ view' = "report"
  /\ \/ /\ profile' = FALSE /\ profile_held' = FALSE
        /\ report' = report \cup {"profile"}
     \/ profile_held /\ UNCHANGED <<profile, profile_held, report>>
  /\ UNCHANGED <<browserVars, window_held, failing, view_result>>

(* Mutant: the report is returned however many steps succeeded.              *)
ReportIncomplete ==
  /\ view = "report"
  /\ view' = IF failing THEN "dropWindow" ELSE "idle"
  /\ view_result' = IF ~failing THEN "ok" ELSE "err"
  /\ UNCHANGED <<browserVars, window_held, profile, profile_held, report, failing>>

ShutdownReport ==
  /\ view = "report"
  /\ view' = IF failing THEN "dropWindow" ELSE "idle"
  /\ view_result' = IF report = Evidence /\ ~failing THEN "ok" ELSE "err"
  /\ UNCHANGED <<browserVars, window_held, profile, profile_held, report, failing>>

-------------------------------------------------------------------------------
(* Operations, and the end of the value.                                     *)

CallViewShutdown ==
  /\ view = "idle"
  /\ \/ window_held /\ view' = "cookie" /\ UNCHANGED <<report, view_result>>
     \/ /\ ~window_held /\ profile_held
        /\ view' = "remove" /\ report' = {} /\ UNCHANGED view_result
     \/ ~window_held /\ ~profile_held /\ view_result' = "err" /\ UNCHANGED <<view, report>>
  /\ UNCHANGED <<browserVars, window_held, profile, profile_held, failing>>

(* hide() reports an error without a window; its callers ignore it.          *)
Hide == visible' \in (IF window = "open" /\ window_held THEN {visible, FALSE} ELSE {visible})

(* retry_profile_cleanup removes a profile that a shutdown has left.         *)
CallRetryProfile ==
  /\ view = "idle"
  /\ \/ /\ ~window_held /\ profile_held
        /\ \/ profile' = FALSE /\ profile_held' = FALSE /\ view_result' = "ok"
           \/ view_result' = "err" /\ UNCHANGED <<profile, profile_held>>
     \/ /\ window_held \/ ~profile_held
        /\ view_result' = "err" /\ UNCHANGED <<profile, profile_held>>
  /\ UNCHANGED <<view, browserVars, window_held, report, failing>>

CallDropView ==
  /\ view = "idle"
  /\ view' = "dropWindow"
  /\ UNCHANGED <<browserVars, window_held, profile, profile_held, report, failing,
                 view_result>>

DropWindow ==
  /\ view = "dropWindow"
  /\ window' \in (IF window_held /\ window = "open" THEN {window, "destroying"} ELSE {window})
  /\ window_held' = FALSE
  /\ view' = "dropProfile"
  /\ UNCHANGED <<visible, page, checker, ready, navigation, consumed, cookie, profile,
                 profile_held, report, failing, view_result>>

(* ScopedProfile's Drop tries once.                                          *)
DropProfile ==
  /\ view = "dropProfile"
  /\ profile' \in (IF profile_held THEN {profile, FALSE} ELSE {profile})
  /\ profile_held' = FALSE
  /\ view' = "gone"
  /\ UNCHANGED <<browserVars, window_held, report, failing, view_result>>

(***************************************************************************)
(* window_receiver.await, cookies_for_url and delete_cookie wait for the UI  *)
(* thread and the browser without a deadline.  Every other wait of the owner *)
(* has one: native_operation_timeout, startup_timeout, profile_cleanup_      *)
(* timeout and fixed sleeps.                                                 *)
(***************************************************************************)
BrowserCalls == CreateWindow \/ DeleteCookie \/ CookieGone

BoundedStep ==
  \/ CreateProfile \/ InstallGuards \/ NavigateWithBootstrap \/ AwaitReady \/ StartupTimeout
  \/ ClearData \/ DestroyWindow \/ RemoveProfile
  \/ ShutdownReport \/ DropWindow \/ DropProfile

ViewStep == BrowserCalls \/ BoundedStep

ViewCall == CallViewShutdown \/ CallRetryProfile \/ CallDropView
===============================================================================
