---------------------------- MODULE PrivateSession ----------------------------
(***************************************************************************)
(* The private launch directory (crates/windows-launcher/src/private_fs.rs) *)
(* as seen by its owner: a directory that exists or not, and the leaves in  *)
(* it.  "token" and "control" are the two fixed files the owner creates;    *)
(* Foreign are the entries others may create.  Random names, SDDL text and  *)
(* DACL readback are abstracted to "the call succeeds or fails".             *)
(***************************************************************************)

CONSTANT Foreign

Known == {"token", "control"}

ASSUME ForeignAssumption == Foreign \cap Known = {}

Leaf == Known \cup Foreign

(***************************************************************************)
(* create_private_file: CREATE_NEW refuses an existing leaf; a write or     *)
(* DACL failure removes the new file again, and that removal is best        *)
(* effort, so a failed call may leave the leaf behind.                      *)
(***************************************************************************)
CreateResults(files, leaf) ==
  (IF leaf \notin files THEN {[ok |-> TRUE, files |-> files \cup {leaf}]} ELSE {})
    \cup {[ok |-> FALSE, files |-> f] : f \in {files, files \cup {leaf}}}

(***************************************************************************)
(* PrivateSession::cleanup: remove the token, then the control file, then   *)
(* the directory.  Any of the three may fail and ends the call; removing    *)
(* the directory always fails while a foreign entry is in it.               *)
(***************************************************************************)
CleanupResults(files) ==
  (IF files \cap Foreign = {} THEN {[removed |-> TRUE, files |-> {}]} ELSE {})
    \cup {[removed |-> FALSE, files |-> files \ done] :
            done \in {{}, {"token"}, {"token", "control"}}}

===============================================================================
