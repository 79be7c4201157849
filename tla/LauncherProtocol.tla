--------------------------- MODULE LauncherProtocol ---------------------------
(***************************************************************************)
(* The launcher's NDJSON lifecycle protocol, version 2                     *)
(* (crates/launcher-protocol/src/lib.rs).                                  *)
(*                                                                         *)
(* A line of launcher output is abstracted to what the tracker tells       *)
(* apart: the event's kind and the process id it carries.  Everything that *)
(* decode_line, parse_event and the tracker's port and policy comparisons  *)
(* reject is the single line Malformed: each of them ends the monitor      *)
(* thread with the same ProtocolFailure message.                           *)
(***************************************************************************)

CONSTANTS Pids,   \* process ids an event can carry
          NoPid   \* the absent id of `stopping` and of a bootstrap `error`

ASSUME NoPidAssumption == NoPid \notin Pids

(***************************************************************************)
(* States of LifecycleTracker.  Failed is entered on an `error` event and  *)
(* on every rejected event.                                                *)
(***************************************************************************)
LifecycleState ==
  {"AwaitingStart", "Starting", "Listening", "Stopping", "Stopped", "Failed"}

Terminal == {"Stopped", "Failed"}

Event ==
  [kind : {"starting", "listening", "stopped"}, pid : Pids]
    \cup [kind : {"stopping"}, pid : {NoPid}]
    \cup [kind : {"error"}, pid : Pids \cup {NoPid}]

Malformed == [kind |-> "malformed", pid |-> NoPid]

Line == Event \cup {Malformed}

Tracker == [state : LifecycleState, pid : Pids \cup {NoPid}]

NewTracker == [state |-> "AwaitingStart", pid |-> NoPid]

(* Mutant: the tracker compares ids but not the order of events.             *)
AcceptsAnyOrder(t, e) ==
  /\ t.state \notin Terminal
  /\ e.kind # "malformed"
  /\ t.pid = NoPid \/ e.pid = NoPid \/ t.pid = e.pid

(***************************************************************************)
(* LifecycleTracker::observe accepts an event e in the tracker state t.    *)
(***************************************************************************)
Accepts(t, e) ==
  \/ /\ t.state \notin Terminal
     /\ e.kind = "error"
     /\ t.pid = NoPid \/ e.pid = NoPid \/ t.pid = e.pid
  \/ t.state = "AwaitingStart" /\ e.kind = "starting"
  \/ t.state = "Starting" /\ e.kind = "listening" /\ t.pid = e.pid
  \/ t.state = "Listening" /\ e.kind = "stopping"
  \/ t.state \in {"Listening", "Stopping"} /\ e.kind = "stopped" /\ t.pid = e.pid

(* Mutant: the event's own name is recorded as the state.                    *)
StateAfterRaw(kind) == kind

StateAfter(kind) ==
  CASE kind = "starting"  -> "Starting"
    [] kind = "listening" -> "Listening"
    [] kind = "stopping"  -> "Stopping"
    [] kind = "stopped"   -> "Stopped"
    [] kind = "error"     -> "Failed"

(***************************************************************************)
(* The tracker after an accepted event: `starting` binds the runtime's id, *)
(* every later event keeps it.                                             *)
(***************************************************************************)
Observe(t, e) ==
  [state |-> StateAfter(e.kind),
   pid   |-> IF e.kind = "starting" THEN e.pid ELSE t.pid]

===============================================================================
