------------------------------ MODULE JobLaunch ------------------------------
(***************************************************************************)
(* launch (crates/windows-launcher/src/lib.rs): a child process is created  *)
(* suspended, put into a Job that dies with its last handle, and only then  *)
(* resumed.  Several threads of the owning process may be inside launch at  *)
(* once, and the owning process may die between any two calls.              *)
(*                                                                         *)
(* A handle is <<launch, object, end>>.  owner is the handle table of the   *)
(* owning process, inheritable the handles in it whose inherit flag is set, *)
(* child[l] what the process of launch l was created with.  A process's     *)
(* descendants are part of it: the Job allows no breakaway.                 *)
(***************************************************************************)
EXTENDS Naturals

CONSTANT Launches

Job(l) == <<l, "job", "job">>
Pipe == {"stdout", "stderr", "stdin"}
PipeEnd(l, p, e) == <<l, p, e>>

Own(l) == {Job(l)} \cup {PipeEnd(l, p, e) : p \in Pipe, e \in {"read", "write"}}
Handle == UNION {Own(l) : l \in Launches}

(* The ends the child gets: it reads stdin and writes the other two.         *)
ChildEnds(l) ==
  {PipeEnd(l, "stdin", "read"), PipeEnd(l, "stdout", "write"), PipeEnd(l, "stderr", "write")}

LaunchStage ==
  {"job", "stdout", "stdout_flag", "stderr", "stderr_flag", "stdin", "stdin_flag",
   "attributes", "build", "create", "close", "assign", "identity", "membership", "resume"}

ProcessState == {"none", "suspended", "running", "dead"}

VARIABLES pc, owner, inheritable, listed, child, proc, member

jobVars == <<pc, owner, inheritable, listed, child, proc, member>>

JobTypeOK ==
  /\ pc \in [Launches -> LaunchStage \cup {"done", "failed", "dropped", "gone"}]
  /\ owner \subseteq Handle
  /\ inheritable \subseteq owner
  /\ listed \in [Launches -> SUBSET Handle]
  /\ child \in [Launches -> SUBSET Handle]
  /\ proc \in [Launches -> ProcessState]
  /\ member \subseteq Launches

JobInit ==
  /\ pc = [l \in Launches |-> "job"]
  /\ owner = {} /\ inheritable = {}
  /\ listed = [l \in Launches |-> {}]
  /\ child = [l \in Launches |-> {}]
  /\ proc = [l \in Launches |-> "none"]
  /\ member = {}

Go(l, stage) == pc' = [pc EXCEPT ![l] = stage]

(***************************************************************************)
(* The kernel ends the members of every Job that no process has open.       *)
(***************************************************************************)
KillOnClose(handles, states) ==
  [l \in Launches |->
     IF /\ l \in member /\ Job(l) \notin handles
        /\ \A k \in Launches : Job(l) \in child[k] => states[k] \in {"none", "dead"}
     THEN "dead" ELSE states[l]]

(* Mutant: the pipe ends are raw handles, which an early return leaves open.  *)
ReleaseLeaks(l, states) ==
  /\ owner' = owner \ {Job(l)}
  /\ inheritable' = inheritable \ Own(l)
  /\ listed' = [listed EXCEPT ![l] = {}]
  /\ proc' = KillOnClose(owner \ {Job(l)}, states)

(* Every OwnedHandle of the call is dropped; states is what was terminated.  *)
Release(l, states) ==
  /\ owner' = owner \ Own(l)
  /\ inheritable' = inheritable \ Own(l)
  /\ listed' = [listed EXCEPT ![l] = {}]
  /\ proc' = KillOnClose(owner \ Own(l), states)

-------------------------------------------------------------------------------
(* validate_command and create_kill_on_close_job: the Job is unnamed, its     *)
(* handle not inheritable, and both are read back.                            *)
CreateKillOnCloseJob(l) ==
  /\ pc[l] = "job" /\ Go(l, "stdout")
  /\ owner' = owner \cup {Job(l)}
  /\ UNCHANGED <<inheritable, listed, child, proc, member>>

(* inheritable_pipe: both ends of a new pipe can be inherited.               *)
InheritablePipe(l, p, next) ==
  /\ pc[l] = p /\ Go(l, next)
  /\ owner' = owner \cup {PipeEnd(l, p, "read"), PipeEnd(l, p, "write")}
  /\ inheritable' = inheritable \cup {PipeEnd(l, p, "read"), PipeEnd(l, p, "write")}
  /\ UNCHANGED <<listed, child, proc, member>>

(* output_pipe: the end the owner keeps loses its flag.                      *)
OutputPipe(l, p, flag, next) ==
  /\ pc[l] = flag /\ Go(l, next)
  /\ inheritable' = inheritable \ {PipeEnd(l, p, "read")}
  /\ UNCHANGED <<owner, listed, child, proc, member>>

(* closed_stdin_pipe: the write end loses its flag and is closed.            *)
ClosedStdinPipe(l) ==
  /\ pc[l] = "stdin_flag" /\ Go(l, "attributes")
  /\ owner' = owner \ {PipeEnd(l, "stdin", "write")}
  /\ inheritable' = inheritable \ {PipeEnd(l, "stdin", "write")}
  /\ UNCHANGED <<listed, child, proc, member>>

(* AttributeList::with_handle_list                                           *)
WithHandleList(l) ==
  /\ pc[l] = "attributes" /\ Go(l, "build")
  /\ listed' = [listed EXCEPT ![l] = ChildEnds(l)]
  /\ UNCHANGED <<owner, inheritable, child, proc, member>>

(* The program, directory, command line and environment as wide strings.     *)
BuildStrings(l) ==
  /\ pc[l] = "build" /\ Go(l, "create")
  /\ UNCHANGED <<owner, inheritable, listed, child, proc, member>>

(* CreateProcessW: suspended, with the listed handles only.  Nothing else in  *)
(* the repository creates a process.                                          *)
CreateProcess(l) ==
  /\ pc[l] = "create" /\ Go(l, "close")
  /\ child' = [child EXCEPT ![l] = listed[l] \cap inheritable]
  /\ proc' = [proc EXCEPT ![l] = "suspended"]
  /\ UNCHANGED <<owner, inheritable, listed, member>>

(* The owner's copies of the child's ends are closed.                        *)
CloseChildEnds(l) ==
  /\ pc[l] = "close" /\ Go(l, "assign")
  /\ owner' = owner \ ChildEnds(l)
  /\ inheritable' = inheritable \ ChildEnds(l)
  /\ listed' = [listed EXCEPT ![l] = {}]
  /\ UNCHANGED <<child, proc, member>>

(* AssignProcessToJobObject                                                  *)
AssignProcess(l) ==
  /\ pc[l] = "assign" /\ Go(l, "identity")
  /\ member' = member \cup {l}
  /\ UNCHANGED <<owner, inheritable, listed, child, proc>>

ProcessIdentity(l) ==
  /\ pc[l] = "identity" /\ Go(l, "membership")
  /\ UNCHANGED <<owner, inheritable, listed, child, proc, member>>

ProcessIsInJob(l) ==
  /\ pc[l] = "membership" /\ l \in member /\ Go(l, "resume")
  /\ UNCHANGED <<owner, inheritable, listed, child, proc, member>>

(* Mutant: the process is resumed first and assigned to its Job afterwards.   *)
ResumeThreadEarly(l) ==
  /\ pc[l] \in {"assign", "resume"}
  /\ Go(l, IF pc[l] = "assign" THEN "assign" ELSE "done")
  /\ proc' = [proc EXCEPT ![l] = "running"]
  /\ UNCHANGED <<owner, inheritable, listed, child, member>>

(* ResumeThread found the one suspension that launch made.                   *)
ResumeThread(l) ==
  /\ pc[l] = "resume" /\ Go(l, "done")
  /\ proc' = [proc EXCEPT ![l] = "running"]
  /\ UNCHANGED <<owner, inheritable, listed, child, member>>

-------------------------------------------------------------------------------
(* A call that fails ends launch.                                            *)

(* Before there is a process only handles have to go.                        *)
FailBeforeCreate(l) ==
  /\ pc[l] \in LaunchStage \ {"close", "assign", "identity", "membership", "resume"}
  /\ Go(l, "failed") /\ Release(l, proc)
  /\ UNCHANGED <<child, member>>

(* Assignment failed: terminate_suspended_process ignores its own failure.   *)
FailAssign(l) ==
  /\ pc[l] = "assign" /\ Go(l, "failed")
  /\ \E end \in {"dead", proc[l]} : Release(l, [proc EXCEPT ![l] = end])
  /\ UNCHANGED <<child, member>>

(***************************************************************************)
(* Identity, membership or resumption failed.  terminate_assigned_job is    *)
(* best effort, and a failed membership query returns without calling it;   *)
(* closing the Job handle ends the process either way.  A resumption that   *)
(* is refused may have found the thread already running.                    *)
(***************************************************************************)
FailAssigned(l) ==
  /\ pc[l] \in {"identity", "membership", "resume"} /\ Go(l, "failed")
  /\ \E end \in {"dead", proc[l]} \cup (IF pc[l] = "resume" THEN {"running"} ELSE {}) :
       Release(l, [proc EXCEPT ![l] = end])
  /\ UNCHANGED <<child, member>>

LaunchStep(l) ==
  \/ CreateKillOnCloseJob(l)
  \/ InheritablePipe(l, "stdout", "stdout_flag")
  \/ OutputPipe(l, "stdout", "stdout_flag", "stderr")
  \/ InheritablePipe(l, "stderr", "stderr_flag")
  \/ OutputPipe(l, "stderr", "stderr_flag", "stdin")
  \/ InheritablePipe(l, "stdin", "stdin_flag")
  \/ ClosedStdinPipe(l)
  \/ WithHandleList(l)
  \/ BuildStrings(l)
  \/ CreateProcess(l)
  \/ CloseChildEnds(l)
  \/ AssignProcess(l)
  \/ ProcessIdentity(l)
  \/ ProcessIsInJob(l)
  \/ ResumeThread(l)
  \/ FailBeforeCreate(l)
  \/ FailAssign(l)
  \/ FailAssigned(l)

-------------------------------------------------------------------------------
(* The process ends by itself.                                               *)
ChildExits(l) ==
  /\ proc[l] = "running"
  /\ proc' = KillOnClose(owner, [proc EXCEPT ![l] = "dead"])
  /\ UNCHANGED <<pc, owner, inheritable, listed, child, member>>

(* The JobProcess value is dropped.                                          *)
DropJobProcess(l) ==
  /\ pc[l] = "done" /\ Go(l, "dropped") /\ Release(l, proc)
  /\ UNCHANGED <<child, member>>

(* The owning process dies and the kernel closes its handles.                *)
OwnerDies ==
  /\ pc # [l \in Launches |-> "gone"]
  /\ pc' = [l \in Launches |-> "gone"]
  /\ owner' = {} /\ inheritable' = {}
  /\ listed' = [l \in Launches |-> {}]
  /\ proc' = KillOnClose({}, proc)
  /\ UNCHANGED <<child, member>>

JobNext ==
  \/ \E l \in Launches : LaunchStep(l) \/ ChildExits(l) \/ DropJobProcess(l)
  \/ OwnerDies

JobSpec == JobInit /\ [][JobNext]_jobVars

-------------------------------------------------------------------------------
(* A process that has been allowed to run is always one that its owner can    *)
(* still end: it is in its Job, the owner holds the Job's handle, and no      *)
(* other process holds it too, so the tree cannot outlive the owner whatever  *)
(* call of launch fails or at whichever step the owner dies.                  *)
RunsOnlyOwned ==
  \A l \in Launches :
    proc[l] = "running" =>
      /\ l \in member
      /\ Job(l) \in owner
      /\ \A k \in Launches : Job(l) \notin child[k]

(* Once launch has returned, the only process with a write end of its output  *)
(* pipes is the launched one, whoever else was in launch at the same time: a  *)
(* reader sees end of file when that tree ends.  A launch that failed, and a  *)
(* JobProcess that was dropped, leave no handle behind.                       *)
EofWithTree ==
  \A l \in Launches :
    /\ pc[l] = "done" =>
         /\ owner \cap ChildEnds(l) = {}
         /\ \A k \in Launches \ {l} : child[k] \cap Own(l) = {}
    /\ pc[l] \in {"failed", "dropped"} => owner \cap Own(l) = {}

===============================================================================
