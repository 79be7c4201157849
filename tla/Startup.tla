------------------------------- MODULE Startup -------------------------------
(***************************************************************************)
(* RuntimeOwner::launch up to the running child                             *)
(* (crates/windows-lifecycle/src/lib.rs): validate the bundle, create the   *)
(* private session and its token file, find the interpreter, compose the    *)
(* environment and the command, and launch.  Everything that fails after    *)
(* the session exists goes through cleanup_prelaunch_error.                 *)
(*                                                                         *)
(* Meanwhile other processes change entries of the bundle, other threads    *)
(* of the owning process are inside launch themselves, and the owning       *)
(* process may die.                                                         *)
(***************************************************************************)
EXTENDS ResourceBundle, ChildCommand, JobLaunch

CONSTANTS Main,             \* the launch this startup performs
          Manifests,        \* manifests a bundle can carry
          AmbientBlocks,    \* environments the owner can be started with
          Program,          \* the interpreter's path, as characters
          ArgumentLists,    \* arguments of the command, as characters
          SessionAttempts,  \* SESSION_CREATE_ATTEMPTS
          MaxSwaps          \* bound on changes made to the bundle meanwhile

ASSUME MainAssumption == Main \in Launches

ASSUME SessionAttemptsAssumption == SessionAttempts \in Nat \ {0}

ASSUME ManifestsAssumption == Manifests \subseteq Manifest

ASSUME MaxSwapsAssumption == MaxSwaps \in Nat

ASSUME AmbientAssumption == AmbientBlocks \subseteq Seq(AmbientEntries)

ASSUME CommandAssumption ==
  Program \in Seq(Char) /\ FilePath(Program) /\ ArgumentLists \subseteq Seq(Seq(Char))

VARIABLES
  stage,      \* the step launch is at
  result,     \* what launch returned
  manifest, disk, swaps,
  calls,      \* the calls of load still to make
  found,      \* what load has resolved
  acl,        \* the session's volume keeps access lists
  attempts,   \* directory names tried
  session,    \* the private directory and its files
  ambient, environment, arguments, line, block

bundleVars  == <<manifest, disk, swaps, calls, found>>
sessionVars == <<acl, attempts, session>>
commandVars == <<ambient, environment, arguments, line, block>>
startVars   == <<stage, result, bundleVars, sessionVars, commandVars>>
vars        == <<startVars, jobVars>>

Stage ==
  {"load", "parent", "account", "session", "verify_new", "verify", "token", "token_write", "token_verify",
   "interpreter", "environment", "command", "launch", "cleanup", "returned", "gone"}

Root == [place |-> "bundle", path |-> BundlePath]

(* Every variable has its type, and what has been resolved, created and       *)
(* composed belongs to the step launch is at.                                 *)
TypeOK ==
  /\ JobTypeOK
  /\ stage \in Stage /\ manifest \in Manifest
  /\ result \in {"none", "ready", "failed", "failed_cleanup"}
  /\ disk.now \in [Paths -> Entry] /\ swaps \in 0..MaxSwaps
  /\ found \in [Field -> Location]
  /\ attempts \in 0..SessionAttempts
  /\ session.dir \in {"none", "new", "verified"} /\ session.files \subseteq {"token"}
  /\ result # "none" => stage \in {"returned", "gone"}
  /\ result = "ready" => session.dir = "verified" /\ calls = <<>>
  /\ stage \in {"token_write", "token_verify"} => session.files = {"token"}

Init ==
  /\ JobInit
  /\ stage = "load" /\ result = "none"
  /\ manifest \in Manifests
  /\ \E type \in AppType :
       disk = [now |-> Prepared(type), intact |-> Prepared(type)]
  /\ swaps = 0
  /\ calls = LoadCalls(manifest)
  /\ found = [f \in Field |-> Root]
  /\ acl = FALSE /\ attempts = 0
  /\ session = [dir |-> "none", files |-> {}]
  /\ ambient = <<>> /\ environment = <<>>
  /\ arguments = <<>> /\ line = <<>> /\ block = <<>>

-------------------------------------------------------------------------------
(* Other processes.                                                          *)

(* An entry of the bundle is removed, replaced or turned into a link.         *)
Swap ==
  /\ swaps < MaxSwaps /\ stage \in {"load", "interpreter"}
  /\ \E p \in Paths :
       \E e \in ({"absent", "elsewhere"}
                   \cup (IF p \in Files THEN {"file", "bad", "big"} ELSE {"dir"})
                   \cup (IF p \in {BundlePath, ResourcesPath} THEN {} ELSE {"spare"})) :
         /\ e # disk.now[p]
         /\ disk' = [disk EXCEPT !.now = [@ EXCEPT ![p] = e]]
  /\ swaps' = swaps + 1
  /\ UNCHANGED <<stage, result, manifest, calls, found, sessionVars, commandVars, jobVars>>

(***************************************************************************)
(* Once nothing looks at the bundle again (the command is composed, load has *)
(* failed, or the owner is gone) the model forgets how it was changed, so    *)
(* that behaviours that differ only there are one.                           *)
(***************************************************************************)
ForgetChanges == disk' = [disk EXCEPT !.now = disk.intact] /\ swaps' = 0

-------------------------------------------------------------------------------
(* ValidatedBundle::load, one file-system call per step.                     *)

Load ==
  /\ stage = "load"
  /\ LET c == Head(calls)
     IN  \/ /\ CallPasses(disk, manifest, found, c)
            /\ found' = CallResult(disk, found, c)
            /\ calls' = Tail(calls)
            /\ stage' = IF calls' = <<>> THEN "parent" ELSE "load"
            /\ UNCHANGED <<result, disk, swaps>>
         \/ /\ ~CallPasses(disk, manifest, found, c)
            /\ stage' = "returned" /\ result' = "failed" /\ ForgetChanges
            /\ UNCHANGED <<calls, found>>
  /\ UNCHANGED <<manifest, sessionVars, commandVars, jobVars>>

-------------------------------------------------------------------------------
(* PrivateSession::create.                                                   *)

(* The DACL read back from a path is the one it was created with.  Reading   *)
(* may fail, which is handled as a mismatch.                                 *)
VerifyExactDacl(kept) == kept

(* The parent has to be an absolute, normalized path of a directory.         *)
ValidateParent ==
  /\ stage = "parent"
  /\ \/ stage' = "account" /\ UNCHANGED result
     \/ stage' = "returned" /\ result' = "failed"
  /\ UNCHANGED <<bundleVars, sessionVars, commandVars, jobVars>>

(* The SID of the process token's user, for the access list; any of the      *)
(* token queries may fail or return something malformed.                     *)
CurrentAccountSid ==
  /\ stage = "account"
  /\ \/ stage' = "session" /\ UNCHANGED result
     \/ stage' = "returned" /\ result' = "failed"
  /\ UNCHANGED <<bundleVars, sessionVars, commandVars, jobVars>>

(* A random name, and CreateDirectoryW on a volume that keeps the access      *)
(* list or ignores it.                                                        *)
CreateRandomDirectory ==
  /\ stage = "session" /\ attempts < SessionAttempts
  /\ stage' = "verify_new"
  /\ session' = [session EXCEPT !.dir = "new"]
  /\ acl' \in BOOLEAN
  /\ UNCHANGED <<result, bundleVars, attempts, commandVars, jobVars>>

(* Mutant: names are tried until one is free.                                *)
NameCollisionForever ==
  /\ stage = "session"
  /\ attempts' = attempts + 1
  /\ UNCHANGED <<stage, result, bundleVars, acl, session, commandVars, jobVars>>

(* The name was taken: another one is tried.                                 *)
NameCollision ==
  /\ stage = "session" /\ attempts < SessionAttempts
  /\ attempts' = attempts + 1
  /\ UNCHANGED <<stage, result, bundleVars, acl, session, commandVars, jobVars>>

CreateSessionFails ==
  /\ stage = "session"
  /\ stage' = "returned" /\ result' = "failed"
  /\ UNCHANGED <<bundleVars, sessionVars, commandVars, jobVars>>

(* Both looks at the new directory: in create_random_directory, and in       *)
(* verify_security.  The rollback of a directory that fails is best effort.   *)
VerifySession ==
  /\ \/ /\ stage \in {"verify_new", "verify"} /\ VerifyExactDacl(acl)
        /\ stage' = IF stage = "verify_new" THEN "verify" ELSE "token"
        /\ session' = [session EXCEPT !.dir = "verified"]
        /\ UNCHANGED result
     \/ /\ stage \in {"verify_new", "verify"}
        /\ stage' = "returned" /\ result' = "failed"
        /\ \E dir \in {"none", session.dir} : session' = [session EXCEPT !.dir = dir]
  /\ UNCHANGED <<bundleVars, acl, attempts, commandVars, jobVars>>

-------------------------------------------------------------------------------
(* write_token_file: create_private_file in three calls.                     *)

(* A call after the session exists fails: launch goes to its cleanup.         *)
Fails(files) ==
  /\ stage' = "cleanup"
  /\ session' = [session EXCEPT !.files = files]
  /\ UNCHANGED result

CreateTokenFile ==
  /\ stage = "token"
  /\ \/ stage' = "token_write" /\ session' = [session EXCEPT !.files = {"token"}]
        /\ UNCHANGED result
     \/ Fails({})
  /\ UNCHANGED <<bundleVars, acl, attempts, commandVars, jobVars>>

(* write_all and sync_all, then the DACL; the removal of a file that fails    *)
(* either is best effort.                                                     *)
WriteToken ==
  /\ stage \in {"token_write", "token_verify"}
  /\ \/ /\ stage = "token_verify" => VerifyExactDacl(acl)
        /\ stage' = IF stage = "token_write" THEN "token_verify" ELSE "interpreter"
        /\ UNCHANGED <<session, result>>
     \/ \E files \in {{}, {"token"}} : Fails(files)
  /\ UNCHANGED <<bundleVars, acl, attempts, commandVars, jobVars>>

-------------------------------------------------------------------------------
(* The command.                                                              *)

(***************************************************************************)
(* bundled_r_interpreter looks for x64\Rscript.exe beside the resolved      *)
(* Rscript.exe, following links; r_compatible_existing_path canonicalizes   *)
(* it and may fail.                                                         *)
(***************************************************************************)
BundledRInterpreter ==
  /\ stage = "interpreter"
  /\ LET x64 == [found.rscript EXCEPT !.path = RuntimePath \o <<"bin", "x64">>]
     IN  \/ Followed(disk, x64) \in FileEntry /\ stage' = "environment"
            /\ UNCHANGED <<session, result>>
         \/ Fails(session.files)
  /\ UNCHANGED <<bundleVars, acl, attempts, commandVars, jobVars>>

(* The owner's own environment is read here.                                 *)
ComposeEnvironment ==
  /\ stage = "environment"
  /\ ambient' \in AmbientBlocks
  /\ \/ /\ \A i \in DOMAIN ambient' : ValidName(ambient'[i]) /\ ValidValue(ambient'[i])
        /\ environment' = BundledREnvironment(ambient')
        /\ stage' = "command" /\ UNCHANGED <<session, result>>
     \/ Fails(session.files) /\ UNCHANGED environment
  /\ UNCHANGED <<bundleVars, acl, attempts, arguments, line, block, jobVars>>

(***************************************************************************)
(* Each path of the command is canonicalized once more; its text is first   *)
(* read when the command line is built.  Nothing looks at the bundle or at   *)
(* the tried names after this step.                                          *)
(***************************************************************************)
BundledRCommand ==
  /\ stage = "command"
  /\ \/ stage' = "launch" /\ UNCHANGED <<session, result>>
     \/ Fails(session.files)
  /\ ForgetChanges /\ attempts' = 0
  /\ UNCHANGED <<manifest, calls, found, acl, commandVars, jobVars>>

-------------------------------------------------------------------------------
(* launch, called for Main.                                                  *)

(* build_command_line, for arguments it does not refuse, and encoded_block.  *)
BuildMain ==
  /\ BuildStrings(Main)
  /\ \E args \in ArgumentLists :
       /\ ~CommandLineRefused(Program, args)
       /\ arguments' = args
       /\ line' = BuildCommandLine(Program, args)
  /\ block' = EncodedBlock(environment)
  /\ UNCHANGED <<stage, result, ambient, environment>>

(* CreateProcessW copies the strings, and nothing reads them again.          *)
CreateMain ==
  /\ CreateProcess(Main)
  /\ ambient' = <<>> /\ environment' = <<>>
  /\ arguments' = <<>> /\ line' = <<>> /\ block' = <<>>
  /\ UNCHANGED <<stage, result>>

LaunchMain ==
  /\ stage = "launch"
  /\ \/ BuildMain
     \/ CreateMain
     \/ /\ LaunchStep(Main)
        /\ pc'[Main] \notin {"create", "close"}
        /\ CASE pc'[Main] = "failed" -> stage' = "cleanup" /\ UNCHANGED result
             [] pc'[Main] = "done"   -> stage' = "returned" /\ result' = "ready"
             [] OTHER -> UNCHANGED <<stage, result>>
        /\ UNCHANGED commandVars
  /\ UNCHANGED <<bundleVars, sessionVars>>

(* Mutant: the error is returned as it is.                                   *)
CleanupPrelaunchErrorSkipped ==
  /\ stage = "cleanup" /\ stage' = "returned" /\ result' = "failed"
  /\ UNCHANGED <<bundleVars, sessionVars, commandVars, jobVars>>

(* cleanup_prelaunch_error: PrivateSession::cleanup stops at its first        *)
(* failure, which is then part of the returned error.                         *)
CleanupPrelaunchError ==
  /\ stage = "cleanup" /\ stage' = "returned"
  /\ \/ session' = [dir |-> "none", files |-> {}] /\ result' = "failed"
     \/ /\ \E files \in {{}, session.files} : session' = [session EXCEPT !.files = files]
        /\ result' = "failed_cleanup"
  /\ UNCHANGED <<bundleVars, acl, attempts, commandVars, jobVars>>

-------------------------------------------------------------------------------
(* The rest of the owning process, and its end.                              *)

Busy == stage = "launch" \/ result = "ready"

OtherThread ==
  /\ Busy
  /\ \E l \in Launches \ {Main} : LaunchStep(l) \/ ChildExits(l) \/ DropJobProcess(l)
  /\ UNCHANGED startVars

MainProcessEnds ==
  /\ result = "ready"
  /\ ChildExits(Main) \/ DropJobProcess(Main)
  /\ UNCHANGED startVars

OwnerCrashes ==
  /\ OwnerDies
  /\ stage' = "gone" /\ ForgetChanges
  /\ UNCHANGED <<result, manifest, calls, found, sessionVars, commandVars>>

Next ==
  \/ Swap \/ Load
  \/ ValidateParent \/ CurrentAccountSid
  \/ CreateRandomDirectory \/ NameCollision \/ CreateSessionFails \/ VerifySession
  \/ CreateTokenFile \/ WriteToken
  \/ BundledRInterpreter \/ ComposeEnvironment \/ BundledRCommand
  \/ LaunchMain \/ CleanupPrelaunchError
  \/ OtherThread \/ MainProcessEnds \/ OwnerCrashes

Spec == Init /\ [][Next]_vars

-------------------------------------------------------------------------------
(* Whatever another process does to the directory between two calls of load,  *)
(* the locations that load returns are all below the resources directory of   *)
(* the bundle it opened, and the interpreter and the library are below the    *)
(* one runtime root: canonicalization is the last look, and it is compared.   *)
ResolvedInside ==
  stage \notin {"load", "gone"} /\ calls = <<>> =>
    /\ found.resources.place = found.bundle.place
    /\ \A f \in ResolvedField :
         StartsWith(found[f], found.resources) /\ found[f] # found.resources
    /\ StartsWith(found.rscript, found.runtime)
    /\ StartsWith(found.library, found.runtime)

(* The child reads back exactly the arguments the command holds, whatever     *)
(* quotes, blanks and trailing backslashes are in them, and an environment    *)
(* with one entry per name, in order, in which no ambient R setting survives  *)
(* under any spelling and every unrelated variable has its last value.        *)
ChildSeesExactly ==
  pc[Main] = "create" /\ stage = "launch" =>
    /\ ParseCommandLine(line) = <<Program>> \o arguments
    /\ BundledExactly(ReadBlock(block), ambient)

(* The launch secret is only ever on disk inside a directory whose access     *)
(* list has been read back, and an error that reports no failed cleanup means *)
(* that the secret is not on disk any more.                                   *)
SecretAccounted ==
  /\ session.files # {} => acl /\ session.dir = "verified"
  /\ result = "failed" => session.files = {}

===============================================================================
