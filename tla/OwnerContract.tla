---------------------------- MODULE OwnerContract ----------------------------
(***************************************************************************)
(* What RuntimeOwner (crates/windows-lifecycle/src/lib.rs) promises whoever *)
(* owns one: where the value stands between two calls, when the process     *)
(* tree and the private session may still be there, and which answer each   *)
(* call can give.  RuntimeOwner implements it; NativeApp relies on nothing  *)
(* else.                                                                     *)
(*                                                                          *)
(*   starting  launch has not started the process                           *)
(*   waking    launch waits for the started process to become ready         *)
(*   ready     authenticated and running                                    *)
(*   held      stopping, the Job handle is held: shutdown can be repeated   *)
(*   closing   inside a stop, after the empty Job was closed                *)
(*   dirty     Job closed, session left: retry_private_cleanup can finish   *)
(*   clean     nothing left, value still held                               *)
(*   ending    inside abort_and_cleanup, from a failed launch or Drop       *)
(*   gone      no value                                                     *)
(***************************************************************************)
VARIABLES phase,    \* where the value stands
          busy,     \* a call (launch and Drop included) is running
          answer,   \* of the last call: "none", "ok", "err" or "report"
          tree,     \* some process of the tree is alive
          session   \* the private session directory exists

contractVars == <<phase, busy, answer, tree, session>>

Phase == {"starting", "waking", "ready", "held", "closing", "dirty", "clean", "ending",
          "gone"}

ContractInit ==
  /\ phase = "starting" /\ busy = TRUE /\ answer = "none"
  /\ tree = FALSE /\ session = FALSE

-------------------------------------------------------------------------------
(* launch.                                                                   *)

SessionCreated ==
  /\ phase = "starting" /\ ~tree /\ ~session
  /\ session' = TRUE
  /\ UNCHANGED <<phase, busy, answer, tree>>

TreeStarts ==
  /\ phase = "starting" /\ session
  /\ phase' = "waking" /\ tree' = TRUE
  /\ UNCHANGED <<busy, answer, session>>

BecomesReady ==
  /\ phase = "waking" /\ session
  /\ phase' = "ready" /\ busy' = FALSE /\ answer' = "ok"
  /\ UNCHANGED <<tree, session>>

StartupFails ==
  /\ phase = "waking"
  /\ phase' = "ending"
  /\ UNCHANGED <<busy, answer, tree, session>>

(* A launch that fails before its owner exists tries to remove the session,  *)
(* and may leave it behind.                                                  *)
NeverStarted ==
  /\ phase \in {"starting", "waking"}
  /\ phase' = "gone" /\ busy' = FALSE
  /\ session' \in BOOLEAN
  /\ tree => session'
  /\ UNCHANGED <<answer, tree>>

-------------------------------------------------------------------------------
(* The tree, and the end of the value.                                       *)

TreeExits ==
  /\ tree
  /\ tree' = FALSE
  /\ UNCHANGED <<phase, busy, answer, session>>

EndRemovesSession ==
  /\ phase = "ending" /\ ~tree
  /\ session' = FALSE
  /\ UNCHANGED <<phase, busy, answer, tree>>

Ended ==
  /\ phase = "ending"
  /\ phase' = "gone" /\ busy' = FALSE
  /\ UNCHANGED <<answer, tree, session>>

-------------------------------------------------------------------------------
(* Calls of an owner that is not in one.                                     *)

PollHealth ==
  /\ ~busy /\ phase = "ready"
  /\ busy' = TRUE /\ answer' = "none"
  /\ UNCHANGED <<phase, tree, session>>

Healthy ==
  /\ busy /\ phase = "ready"
  /\ busy' = FALSE /\ answer' \in {"ok", "err"}
  /\ UNCHANGED <<phase, tree, session>>

(* shutdown and force_shutdown.                                              *)
Stop ==
  /\ ~busy /\ phase \in {"ready", "held", "dirty"}
  /\ phase' = IF phase = "dirty" THEN "dirty" ELSE "held"
  /\ busy' = TRUE /\ answer' = "none"
  /\ UNCHANGED <<tree, session>>

StopFails ==
  /\ busy /\ phase \in {"held", "dirty"}
  /\ busy' = FALSE /\ answer' = "err"
  /\ UNCHANGED <<phase, tree, session>>

JobClosed ==
  /\ busy /\ phase = "held" /\ ~tree
  /\ phase' = "closing"
  /\ UNCHANGED <<busy, answer, tree, session>>

StopLeavesSession ==
  /\ phase = "closing"
  /\ phase' = "dirty" /\ busy' = FALSE /\ answer' = "err"
  /\ UNCHANGED <<tree, session>>

StopCleans ==
  /\ phase = "closing"
  /\ phase' = "clean" /\ busy' = FALSE /\ answer' \in {"report", "err"}
  /\ session' = FALSE
  /\ UNCHANGED tree

(* retry_private_cleanup, where it does something.                           *)
Retry ==
  /\ ~busy /\ phase = "dirty"
  /\ \/ phase' = "clean" /\ session' = FALSE /\ answer' \in {"ok", "err"}
     \/ answer' = "err" /\ UNCHANGED <<phase, session>>
  /\ UNCHANGED <<busy, tree>>

(* Any call the phase does not admit.                                        *)
Refuse ==
  /\ ~busy /\ phase \in {"ready", "held", "dirty", "clean"}
  /\ answer' = "err"
  /\ UNCHANGED <<phase, busy, tree, session>>

Drop ==
  /\ ~busy /\ phase \in {"ready", "held", "dirty", "clean"}
  /\ answer' = "none"
  /\ \/ phase = "clean" /\ phase' = "gone" /\ UNCHANGED busy
     \/ phase # "clean" /\ phase' = "ending" /\ busy' = TRUE
  /\ UNCHANGED <<tree, session>>

(* What happens inside a call, and what only the owner of the value does.    *)
Internal ==
  \/ SessionCreated \/ TreeStarts \/ BecomesReady \/ StartupFails \/ NeverStarted
  \/ EndRemovesSession \/ Ended \/ Healthy \/ StopFails \/ JobClosed
  \/ StopLeavesSession \/ StopCleans

ContractCall == PollHealth \/ Stop \/ Retry \/ Refuse \/ Drop

ContractNext == Internal \/ TreeExits \/ ContractCall

Contract == ContractInit /\ [][ContractNext]_contractVars
===============================================================================
