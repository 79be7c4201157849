---------------------------- MODULE StartupProofs ----------------------------
(***************************************************************************)
(* Proofs about Startup, for every bundle, environment and argument list:   *)
(* where the launch secret can be on disk, that a startup is a user of       *)
(* launch like any other, so that what WindowsLauncherProofs shows of launch *)
(* holds of it, that what load resolves is inside the bundle it opened,      *)
(* whatever other processes do to the directory meanwhile, and that the      *)
(* child sees the command and the environment that were composed for it.     *)
(***************************************************************************)
EXTENDS Startup, WindowsLauncherProofs

NoSecretYet == {"load", "parent", "account", "session"}
Verifying == {"verify_new", "verify"}
Verified == {"token", "token_write", "token_verify", "interpreter", "environment", "command",
             "launch", "cleanup"}

(* What has been created and verified at each step of launch.  The last part *)
(* covers the steps after launch has returned.                               *)
SessionAt ==
  /\ session \in [dir : {"none", "new", "verified"}, files : SUBSET {"token"}]
  /\ result # "none" => stage \in {"returned", "gone"}
  /\ stage \in NoSecretYet \cup Verifying => session.files = {}
  /\ stage \in Verified => acl /\ session.dir = "verified"
  /\ SecretAccounted

LEMMA SessionInitial == Init => SessionAt
BY DEF Init, SessionAt, NoSecretYet, Verifying, Verified, SecretAccounted

(* The steps that create, verify and clean up the session.                   *)
LEMMA SessionSteps ==
  ASSUME SessionAt,
         \/ ValidateParent \/ CurrentAccountSid \/ CreateRandomDirectory \/ NameCollision
         \/ CreateSessionFails \/ VerifySession \/ CreateTokenFile \/ WriteToken
         \/ CleanupPrelaunchError
  PROVE  SessionAt'
<1> USE DEF SessionAt, NoSecretYet, Verifying, Verified, SecretAccounted
<1>1. CASE ValidateParent \/ CurrentAccountSid
  BY <1>1 DEF ValidateParent, CurrentAccountSid, sessionVars
<1>2. CASE CreateRandomDirectory \/ NameCollision \/ CreateSessionFails
  BY <1>2 DEF CreateRandomDirectory, NameCollision, CreateSessionFails, sessionVars
<1>3. CASE VerifySession
  BY <1>3 DEF VerifySession, VerifyExactDacl
<1>4. CASE CreateTokenFile
  BY <1>4 DEF CreateTokenFile, Fails
<1>5. CASE WriteToken
  BY <1>5 DEF WriteToken, Fails, VerifyExactDacl
<1>6. CASE CleanupPrelaunchError
  BY <1>6 DEF CleanupPrelaunchError
<1> QED BY <1>1, <1>2, <1>3, <1>4, <1>5, <1>6

(* The steps that leave the session alone or only fail.                      *)
LEMMA OtherSteps ==
  ASSUME SessionAt,
         \/ Swap \/ Load \/ BundledRInterpreter \/ ComposeEnvironment \/ BundledRCommand
         \/ LaunchMain \/ OtherThread \/ MainProcessEnds \/ OwnerCrashes
  PROVE  SessionAt'
<1> USE DEF SessionAt, NoSecretYet, Verifying, Verified, SecretAccounted, sessionVars
<1>1. CASE Swap
  BY <1>1 DEF Swap
<1>2. CASE Load
  <2>1. /\ stage = "load" /\ UNCHANGED <<acl, session>>
        /\ \/ stage' \in {"parent", "load"} /\ result' = result
           \/ stage' = "returned" /\ result' = "failed"
    BY <1>2 DEF Load
  <2> QED BY <2>1
<1>3. CASE BundledRInterpreter
  <2>1. /\ stage = "interpreter" /\ acl' = acl /\ result' = result
        /\ \/ stage' = "environment" /\ session' = session
           \/ stage' = "cleanup" /\ session' = [session EXCEPT !.files = session.files]
    BY <1>3 DEF BundledRInterpreter, Fails
  <2> QED BY <2>1
<1>4. CASE ComposeEnvironment
  <2>1. /\ stage = "environment" /\ acl' = acl /\ result' = result
        /\ \/ stage' = "command" /\ session' = session
           \/ stage' = "cleanup" /\ session' = [session EXCEPT !.files = session.files]
    BY <1>4 DEF ComposeEnvironment, Fails
  <2> QED BY <2>1
<1>5. CASE BundledRCommand
  <2>1. /\ stage = "command" /\ acl' = acl /\ result' = result
        /\ \/ stage' = "launch" /\ session' = session
           \/ stage' = "cleanup" /\ session' = [session EXCEPT !.files = session.files]
    BY <1>5 DEF BundledRCommand, Fails
  <2> QED BY <2>1
<1>6. CASE LaunchMain
  <2>1. /\ stage = "launch" /\ UNCHANGED <<acl, session>>
        /\ \/ stage' \in {"launch", "cleanup"} /\ result' = result
           \/ stage' = "returned" /\ result' = "ready"
    BY <1>6 DEF LaunchMain, BuildMain, CreateMain
  <2> QED BY <2>1
<1>7. CASE OtherThread \/ MainProcessEnds
  BY <1>7 DEF OtherThread, MainProcessEnds, startVars
<1>8. CASE OwnerCrashes
  BY <1>8 DEF OwnerCrashes
<1> QED BY <1>1, <1>2, <1>3, <1>4, <1>5, <1>6, <1>7, <1>8

(***************************************************************************)
(* Whatever call of the startup fails, and whenever the owner dies, the      *)
(* launch secret is on disk only inside a directory whose access list was    *)
(* read back, and an error without a cleanup failure means it is gone.       *)
(***************************************************************************)
THEOREM SecretAccountedAlways == Spec => []SecretAccounted
<1>1. SessionAt /\ [Next]_vars => SessionAt'
  <2> SUFFICES ASSUME SessionAt, [Next]_vars PROVE SessionAt' OBVIOUS
  <2>1. CASE UNCHANGED vars
    BY <2>1 DEF vars, startVars, sessionVars, SessionAt, SecretAccounted, NoSecretYet,
                Verifying, Verified
  <2>2. CASE Next
    BY <2>2, SessionSteps, OtherSteps DEF Next
  <2> QED BY <2>1, <2>2
<1>2. SessionAt => SecretAccounted
  BY DEF SessionAt
<1> QED BY <1>1, <1>2, SessionInitial, PTL DEF Spec

-------------------------------------------------------------------------------
(* A step of the startup is a step of launch, or leaves its handles alone.    *)
LEMMA StartupStepIsJobStep == [Next]_vars => [JobNext]_jobVars
<1> SUFFICES ASSUME [Next]_vars PROVE [JobNext]_jobVars OBVIOUS
<1>1. CASE UNCHANGED vars
  BY <1>1 DEF vars
<1>2. CASE \/ Swap \/ Load \/ ValidateParent \/ CurrentAccountSid \/ CreateRandomDirectory
           \/ NameCollision \/ CreateSessionFails \/ VerifySession \/ CreateTokenFile
           \/ WriteToken \/ BundledRInterpreter \/ ComposeEnvironment \/ BundledRCommand
           \/ CleanupPrelaunchError
  <2>1. UNCHANGED jobVars
    BY <1>2 DEF Swap, Load, ValidateParent, CurrentAccountSid, CreateRandomDirectory,
                NameCollision, CreateSessionFails, VerifySession, CreateTokenFile, WriteToken,
                BundledRInterpreter, ComposeEnvironment, BundledRCommand, CleanupPrelaunchError
  <2> QED BY <2>1
<1>3. CASE LaunchMain
  <2>1. LaunchStep(Main)
    <3>1. CASE BuildMain
      BY <3>1 DEF BuildMain, LaunchStep
    <3>2. CASE CreateMain
      BY <3>2 DEF CreateMain, LaunchStep
    <3> QED BY <1>3, <3>1, <3>2 DEF LaunchMain
  <2> QED BY <2>1, MainAssumption DEF JobNext
<1>4. CASE OtherThread
  BY <1>4 DEF OtherThread, JobNext
<1>5. CASE MainProcessEnds
  BY <1>5, MainAssumption DEF MainProcessEnds, JobNext
<1>6. CASE OwnerCrashes
  BY <1>6 DEF OwnerCrashes, JobNext
<1> QED BY <1>1, <1>2, <1>3, <1>4, <1>5, <1>6 DEF Next

(* RuntimeOwner::launch uses launch as its specification allows.              *)
THEOREM StartupImplementsLaunch == Spec => JobSpec
<1>1. Init => JobInit
  BY DEF Init
<1> QED BY <1>1, StartupStepIsJobStep, PTL DEF Spec, JobSpec

(* In a startup, too, a process that runs is always one its owner can end.    *)
THEOREM StartupRunsOnlyOwned == Spec => []RunsOnlyOwned
BY StartupImplementsLaunch, RunsOnlyOwnedAlways, PTL

(* And nobody but the launched tree holds an end of its pipes.                *)
THEOREM StartupEofWithTree == Spec => []EofWithTree
BY StartupImplementsLaunch, EofWithTreeAlways, PTL

-------------------------------------------------------------------------------
(***************************************************************************)
(* The calls of load.  Those that resolve a location or compare some have    *)
(* their turn; the others only look.                                         *)
(***************************************************************************)
Turn(op) ==
  IF op = "bundle" THEN 1 ELSE IF op = "resources" THEN 2
  ELSE IF op \in ResolvedField THEN 3 ELSE IF op = "topology" THEN 4 ELSE 0

Component ==
  {"resources", "rpackit.json", "R", "bin", "Rscript.exe", "library", "app", "launcher.R", "app.R",
   "ui.R", "server.R", "DESCRIPTION", "no name"} \cup PackageNames

CallRecord ==
  [op : {"stat", "none", "size", "read", "manifest", "topology"} \cup Field,
   base : {"root"} \cup Field, rel : Seq(Component), kind : {"any", "dir", "file"}]

(* What a call resolves is named from where it has to be.                     *)
Aimed(c) ==
  /\ c.op = "bundle" => c.base = "root"
  /\ c.op = "resources" => c.base = "bundle" /\ c.rel = <<"resources">>
  /\ c.op \in ResolvedField => c.base = "resources" /\ ResourcesPath \o c.rel \in Paths

(* Calls in order, with turns from lo to hi.                                  *)
Plan(s, lo, hi) ==
  /\ s \in Seq(CallRecord)
  /\ \A i \in 1 .. Len(s) : Aimed(s[i]) /\ Turn(s[i].op) \in {0} \cup lo .. hi
  /\ \A i, j \in 1 .. Len(s) : i < j /\ Turn(s[j].op) # 0 => Turn(s[i].op) <= Turn(s[j].op)

Occurs(s, op) == \E i \in 1 .. Len(s) : s[i].op = op

LEMMA PlanAppend ==
  ASSUME NEW lo \in 0 .. 4, NEW mid \in 0 .. 4, NEW hi \in 0 .. 4, lo <= mid, mid <= hi,
         NEW s, Plan(s, lo, mid), NEW t, Plan(t, mid, hi)
  PROVE  /\ Plan(s \o t, lo, hi)
         /\ \A op : Occurs(s, op) \/ Occurs(t, op) => Occurs(s \o t, op)
<1> DEFINE u == s \o t
           n == Len(s)
           k == Len(t)
<1>1. n \in Nat /\ k \in Nat
  BY DEF Plan
<1>2. /\ u \in Seq(CallRecord) /\ Len(u) = n + k
      /\ \A i \in 1 .. n : u[i] = s[i]
      /\ \A i \in 1 .. k : u[n + i] = t[i]
  BY DEF Plan
<1> HIDE DEF u, n, k
<1>3. \A i \in 1 .. n + k : \/ i \in 1 .. n /\ u[i] = s[i]
                            \/ i - n \in 1 .. k /\ u[i] = t[i - n] /\ i > n
  <2> SUFFICES ASSUME NEW i \in 1 .. n + k, ~(i \in 1 .. n)
               PROVE  i - n \in 1 .. k /\ u[i] = t[i - n] /\ i > n
    BY <1>2
  <2>1. i - n \in 1 .. k /\ n + (i - n) = i /\ i > n
    BY <1>1
  <2> QED BY <1>2, <2>1
<1>4. ASSUME NEW i \in 1 .. n + k PROVE Aimed(u[i]) /\ Turn(u[i].op) \in {0} \cup lo .. hi
  <2>1. CASE i \in 1 .. n /\ u[i] = s[i]
    BY <2>1 DEF Plan, n
  <2>2. CASE i - n \in 1 .. k /\ u[i] = t[i - n]
    BY <2>2 DEF Plan, k
  <2> QED BY <1>3, <2>1, <2>2
<1>5. ASSUME NEW i \in 1 .. n + k, NEW j \in 1 .. n + k, i < j, Turn(u[j].op) # 0
      PROVE  Turn(u[i].op) <= Turn(u[j].op)
  <2>1. CASE j \in 1 .. n /\ u[j] = s[j]
    <3>1. i \in 1 .. n /\ u[i] = s[i]
      BY <1>1, <1>2, <1>5, <2>1
    <3> QED BY <1>5, <2>1, <3>1 DEF Plan, n
  <2>2. CASE j - n \in 1 .. k /\ u[j] = t[j - n] /\ j > n
    <3>1. Turn(u[j].op) \in mid .. hi
      BY <1>5, <2>2 DEF Plan, k
    <3>2. CASE i \in 1 .. n /\ u[i] = s[i]
      <4>1. Turn(u[i].op) \in {0} \cup lo .. mid
        BY <3>2 DEF Plan, n
      <4> QED BY <3>1, <4>1
    <3>3. CASE i - n \in 1 .. k /\ u[i] = t[i - n]
      <4>1. i - n < j - n
        BY <1>1, <1>5
      <4> QED BY <1>5, <2>2, <3>3, <4>1 DEF Plan, k
    <3> QED BY <1>3, <3>2, <3>3
  <2> QED BY <1>3, <2>1, <2>2
<1>6. ASSUME NEW op, Occurs(s, op) \/ Occurs(t, op) PROVE Occurs(u, op)
  <2>1. CASE Occurs(s, op)
    <3>1. PICK i \in 1 .. n : s[i].op = op
      BY <2>1 DEF Occurs, n
    <3>2. i \in 1 .. n + k /\ u[i].op = op
      BY <1>1, <1>2, <3>1
    <3> QED BY <1>2, <3>2 DEF Occurs
  <2>2. CASE Occurs(t, op)
    <3>1. PICK i \in 1 .. k : t[i].op = op
      BY <2>2 DEF Occurs, k
    <3>2. n + i \in 1 .. n + k /\ u[n + i].op = op
      BY <1>1, <1>2, <3>1
    <3> QED BY <1>2, <3>2 DEF Occurs
  <2> QED BY <1>6, <2>1, <2>2
<1>7. Plan(u, lo, hi)
  BY <1>2, <1>4, <1>5 DEF Plan
<1> QED BY <1>6, <1>7 DEF u

LEMMA SequencesEqual ==
  ASSUME NEW S, NEW s \in Seq(S), NEW t \in Seq(S), Len(s) = Len(t),
         \A i \in 1 .. Len(s) : s[i] = t[i]
  PROVE  s = t
OBVIOUS

LEMMA Joined ==
  ASSUME NEW S, NEW s \in Seq(S), NEW t \in Seq(S), NEW u, u = s \o t
  PROVE  /\ u \in Seq(S) /\ Len(u) = Len(s) + Len(t)
         /\ \A i \in 1 .. Len(s) : u[i] = s[i]
         /\ \A i \in 1 .. Len(t) : u[Len(s) + i] = t[i]
OBVIOUS

LEMMA PathsOfLoad ==
  /\ ResourcesPath \o <<"R", "bin", "Rscript.exe">> \in Paths
  /\ ResourcesPath \o <<"R", "library">> \in Paths
  /\ ResourcesPath \o <<"app">> \in Paths
  /\ ResourcesPath \o <<"launcher.R">> \in Paths
  /\ ResourcesPath \o <<"R">> \in Paths
  /\ BundlePath \in Paths /\ ResourcesPath \in Paths
<1> DEFINE C == {"bundle", "resources", "R", "bin", "Rscript.exe", "library"}
           r == <<"R">>
<1>1. ResourcesPath \in Seq(C) /\ r \in Seq(C)
  BY DEF ResourcesPath, BundlePath
<1>2. Len(ResourcesPath) = 2 /\ Len(r) = 1 /\ r[1] = "R"
  BY DEF ResourcesPath, BundlePath
<1> HIDE DEF C, r
<1>3. RuntimePath \in Seq(C)
  BY <1>1 DEF RuntimePath, r
<1>4. /\ Len(RuntimePath) = 3 /\ RuntimePath[3] = "R"
      /\ \A i \in 1 .. 2 : RuntimePath[i] = ResourcesPath[i]
  <2>1. RuntimePath = ResourcesPath \o r
    BY DEF RuntimePath, r
  <2>2. /\ Len(RuntimePath) = Len(ResourcesPath) + Len(r)
        /\ \A i \in 1 .. Len(ResourcesPath) : RuntimePath[i] = ResourcesPath[i]
        /\ \A i \in 1 .. Len(r) : RuntimePath[Len(ResourcesPath) + i] = r[i]
    BY <1>1, <2>1, Joined
  <2>3. RuntimePath[2 + 1] = r[1]
    BY <1>2, <2>2
  <2> QED BY <1>2, <2>2, <2>3
\* The same path, whether its tail is joined at once or after R.
<1>5. ASSUME NEW t \in Seq(C), NEW v \in Seq(C), Len(t) = 1 + Len(v), t[1] = "R",
             \A i \in 1 .. Len(v) : t[1 + i] = v[i]
      PROVE  ResourcesPath \o t = RuntimePath \o v
  <2> DEFINE a == ResourcesPath \o t
             b == RuntimePath \o v
  <2>0. a = ResourcesPath \o t /\ b = RuntimePath \o v
    OBVIOUS
  <2> HIDE DEF a, b
  <2>1. /\ a \in Seq(C) /\ Len(a) = 2 + Len(t)
        /\ \A i \in 1 .. 2 : a[i] = ResourcesPath[i]
        /\ \A i \in 1 .. Len(t) : a[2 + i] = t[i]
    <3>1. /\ a \in Seq(C) /\ Len(a) = Len(ResourcesPath) + Len(t)
          /\ \A i \in 1 .. Len(ResourcesPath) : a[i] = ResourcesPath[i]
          /\ \A i \in 1 .. Len(t) : a[Len(ResourcesPath) + i] = t[i]
      BY <1>1, <2>0, Joined
    <3> QED BY <1>2, <3>1
  <2>2. /\ b \in Seq(C) /\ Len(b) = 3 + Len(v)
        /\ \A i \in 1 .. 3 : b[i] = RuntimePath[i]
        /\ \A i \in 1 .. Len(v) : b[3 + i] = v[i]
    <3>1. /\ b \in Seq(C) /\ Len(b) = Len(RuntimePath) + Len(v)
          /\ \A i \in 1 .. Len(RuntimePath) : b[i] = RuntimePath[i]
          /\ \A i \in 1 .. Len(v) : b[Len(RuntimePath) + i] = v[i]
      BY <1>3, <2>0, Joined
    <3> QED BY <1>4, <3>1
  <2>3. ASSUME NEW i \in 1 .. Len(a) PROVE a[i] = b[i]
    <3>1. CASE i \in 1 .. 2
      BY <1>4, <2>1, <2>2, <3>1
    <3>2. CASE i = 3
      <4>1. a[2 + 1] = t[1]
        BY <1>5, <2>1
      <4>2. b[3] = "R"
        BY <1>4, <2>2
      <4> QED BY <1>5, <3>2, <4>1, <4>2
    <3>3. CASE i > 3
      <4>1. /\ i - 3 \in 1 .. Len(v) /\ i - 2 \in 1 .. Len(t) /\ 2 + (i - 2) = i
            /\ 3 + (i - 3) = i /\ 1 + (i - 3) = i - 2
        BY <1>5, <2>1, <3>3
      <4>2. a[i] = t[i - 2] /\ b[i] = v[i - 3] /\ t[i - 2] = v[i - 3]
        BY <1>5, <2>1, <2>2, <4>1
      <4> QED BY <4>2
    <3>4. i \in Int /\ i >= 1
      BY <2>1
    <3> QED BY <3>1, <3>2, <3>3, <3>4
  <2>4. Len(a) = Len(b)
    BY <1>5, <2>1, <2>2
  <2> QED BY <2>1, <2>2, <2>3, <2>4, SequencesEqual DEF a, b
<1>6. ResourcesPath \o <<"R", "bin", "Rscript.exe">> = RuntimePath \o <<"bin", "Rscript.exe">>
  <2> DEFINE t == <<"R", "bin", "Rscript.exe">>
             v == <<"bin", "Rscript.exe">>
  <2>1. t \in Seq(C) /\ v \in Seq(C) /\ Len(t) = 3 /\ Len(v) = 2
    BY DEF C
  <2>2. t[1] = "R" /\ t[2] = v[1] /\ t[3] = v[2]
    OBVIOUS
  <2> HIDE DEF t, v
  <2>3. \A i \in 1 .. 2 : t[1 + i] = v[i]
    <3>1. \A i \in 1 .. 2 : i = 1 \/ i = 2
      OBVIOUS
    <3> QED BY <2>2, <3>1
  <2>4. Len(t) = 1 + Len(v) /\ \A i \in 1 .. Len(v) : t[1 + i] = v[i]
    BY <2>1, <2>3
  <2>5. ResourcesPath \o t = RuntimePath \o v
    BY <1>5, <2>1, <2>2, <2>4
  <2> QED BY <2>5 DEF t, v
<1>7. ResourcesPath \o <<"R", "library">> = LibraryPath
  <2> DEFINE t == <<"R", "library">>
             v == <<"library">>
  <2>1. t \in Seq(C) /\ v \in Seq(C) /\ Len(t) = 2 /\ Len(v) = 1
    BY DEF C
  <2>2. t[1] = "R" /\ t[2] = v[1]
    OBVIOUS
  <2> HIDE DEF t, v
  <2>3. \A i \in 1 .. 1 : t[1 + i] = v[i]
    <3>1. \A i \in 1 .. 1 : i = 1
      OBVIOUS
    <3> QED BY <2>2, <3>1
  <2>4. Len(t) = 1 + Len(v) /\ \A i \in 1 .. Len(v) : t[1 + i] = v[i]
    BY <2>1, <2>3
  <2>5. ResourcesPath \o t = RuntimePath \o v
    BY <1>5, <2>1, <2>2, <2>4
  <2> QED BY <2>5 DEF LibraryPath, t, v
<1> QED BY <1>6, <1>7 DEF Paths, Files, Directories, RuntimePath, AppPath

(* resolve_manifest_path: looks, and one turn at the end.                      *)
LEMMA ResolvePlan ==
  ASSUME NEW field \in ResolvedField, NEW rel \in Seq(Component), NEW kind \in {"any", "dir", "file"},
         ResourcesPath \o rel \in Paths, NEW s, s = ResolveManifestPath(field, rel, kind)
  PROVE  Plan(s, 3, 3) /\ Occurs(s, field)
<1> DEFINE n == Len(rel)
           looks == [i \in 1 .. n |-> Call("stat", "resources", SubSeq(rel, 1, i), "any")]
           look == Call("stat", "resources", rel, kind)
           turn == Call(field, "resources", rel, kind)
           last == <<look, turn>>
<1>1. n \in Nat
  OBVIOUS
<1>2. \A i \in 1 .. n : SubSeq(rel, 1, i) \in Seq(Component)
  OBVIOUS
<1>3. field \in Field /\ "resources" \in Field /\ field \notin {"bundle", "resources"}
  BY DEF Field, ResolvedField
<1>4. \A i \in 1 .. n : Call("stat", "resources", SubSeq(rel, 1, i), "any") \in CallRecord
  BY <1>2, <1>3 DEF CallRecord, Call
<1>5. look \in CallRecord /\ turn \in CallRecord
  BY <1>3 DEF CallRecord, Call
<1>6. looks \in Seq(CallRecord) /\ Len(looks) = n
  BY <1>1, <1>4
<1>7. "stat" \notin Field /\ "stat" \notin ResolvedField
  BY DEF Field, ResolvedField
<1>8. Turn("stat") = 0 /\ Turn(field) = 3
  BY <1>3, <1>7 DEF Turn
<1>9. \A i \in 1 .. n : looks[i].op = "stat"
  BY DEF Call
<1>10. look.op = "stat" /\ turn.op = field /\ Aimed(turn)
  BY <1>3 DEF Call, Aimed
<1>11. Aimed(look) /\ \A i \in 1 .. n : Aimed(looks[i])
  BY <1>7, <1>9, <1>10 DEF Aimed
<1> HIDE DEF n, looks, look, turn
<1>12. Plan(looks, 3, 3)
  BY <1>1, <1>6, <1>8, <1>9, <1>11 DEF Plan
<1>13. /\ last \in Seq(CallRecord) /\ Len(last) = 2 /\ last[1] = look /\ last[2] = turn
  BY <1>5
<1> HIDE DEF last
<1>14. \A i \in 1 .. 2 : i = 1 \/ i = 2
  OBVIOUS
<1>15. Plan(last, 3, 3)
  BY <1>8, <1>10, <1>11, <1>13, <1>14 DEF Plan
<1>16. Occurs(last, field)
  BY <1>10, <1>13 DEF Occurs
<1>17. s = looks \o last
  BY DEF ResolveManifestPath, looks, last, look, turn, n
<1> QED BY <1>12, <1>15, <1>16, <1>17, PlanAppend

(* Calls that only look have no turn.                                         *)
Looks == {"stat", "none", "size", "read", "manifest"}

LEMMA LooksHaveNoTurn ==
  ASSUME NEW op \in Looks
  PROVE  Turn(op) = 0 /\ op \notin Field /\ op \notin ResolvedField
BY DEF Looks, Turn, Field, ResolvedField

LEMMA QuietPlan ==
  ASSUME NEW s \in Seq(CallRecord), \A i \in 1 .. Len(s) : s[i].op \in Looks, NEW turn \in 0 .. 4
  PROVE  Plan(s, turn, turn)
<1>1. \A i \in 1 .. Len(s) : Aimed(s[i])
  BY LooksHaveNoTurn DEF Aimed, Field
<1>2. \A i \in 1 .. Len(s) : Turn(s[i].op) = 0
  BY LooksHaveNoTurn
<1> QED BY <1>1, <1>2 DEF Plan

LEMMA LookIsCall ==
  ASSUME NEW op \in Looks, NEW base \in {"root"} \cup Field, NEW rel \in Seq(Component),
         NEW kind \in {"any", "dir", "file"}
  PROVE  Call(op, base, rel, kind) \in CallRecord /\ Call(op, base, rel, kind).op = op
BY DEF Looks, CallRecord, Call

LEMMA OneLook ==
  ASSUME NEW c \in CallRecord, c.op \in Looks, NEW turn \in 0 .. 4
  PROVE  Plan(<<c>>, turn, turn)
<1> DEFINE s == <<c>>
<1>1. s \in Seq(CallRecord) /\ Len(s) = 1 /\ s[1] = c
  OBVIOUS
<1>2. \A i \in 1 .. 1 : i = 1
  OBVIOUS
<1> HIDE DEF s
<1>3. \A i \in 1 .. Len(s) : s[i].op \in Looks
  BY <1>1, <1>2
<1>4. Plan(s, turn, turn)
  BY <1>1, <1>3, QuietPlan
<1> QED BY <1>4 DEF s

LEMMA TwoLooks ==
  ASSUME NEW c \in CallRecord, c.op \in Looks, NEW d \in CallRecord, d.op \in Looks,
         NEW turn \in 0 .. 4
  PROVE  Plan(<<c, d>>, turn, turn)
<1> DEFINE s == <<c, d>>
<1>1. s \in Seq(CallRecord) /\ Len(s) = 2 /\ s[1] = c /\ s[2] = d
  OBVIOUS
<1>2. \A i \in 1 .. 2 : i = 1 \/ i = 2
  OBVIOUS
<1> HIDE DEF s
<1>3. \A i \in 1 .. Len(s) : s[i].op \in Looks
  BY <1>1, <1>2
<1>4. Plan(s, turn, turn)
  BY <1>1, <1>3, QuietPlan
<1> QED BY <1>4 DEF s

(* read_bounded_regular_file only looks.                                      *)
LEMMA ReadPlan ==
  ASSUME NEW base \in Field, NEW rel \in Seq(Component), NEW turn \in 0 .. 4
  PROVE  Plan(ReadBoundedRegularFile(base, rel), turn, turn)
<1>1. /\ Call("size", base, rel, "file") \in CallRecord /\ Call("size", base, rel, "file").op \in Looks
      /\ Call("read", base, rel, "file") \in CallRecord /\ Call("read", base, rel, "file").op \in Looks
  BY LookIsCall DEF Looks
<1> QED BY <1>1, TwoLooks DEF ReadBoundedRegularFile

LEMMA Halves ==
  ASSUME NEW length \in Nat, NEW i \in 1 .. 2 * length
  PROVE  (i + 1) \div 2 \in 1 .. length
OBVIOUS

LEMMA PackageLooks ==
  ASSUME NEW p \in Component
  PROVE  /\ Call("stat", "library", <<p>>, "dir") \in CallRecord
         /\ Call("stat", "library", <<p, "DESCRIPTION">>, "file") \in CallRecord
         /\ Call("stat", "library", <<p>>, "dir").op = "stat"
         /\ Call("stat", "library", <<p, "DESCRIPTION">>, "file").op = "stat"
<1>1. "DESCRIPTION" \in Component
  BY DEF Component
<1>2. <<p>> \in Seq(Component) /\ <<p, "DESCRIPTION">> \in Seq(Component)
  BY <1>1
<1>3. "stat" \in Looks /\ "library" \in {"root"} \cup Field
  BY DEF Looks, Field, ResolvedField
<1> QED BY <1>2, <1>3, LookIsCall

LEMMA Tabulated ==
  ASSUME NEW S, NEW n \in Nat, NEW f(_), \A i \in 1 .. n : f(i) \in S,
         NEW s, s = [i \in 1 .. n |-> f(i)]
  PROVE  s \in Seq(S) /\ Len(s) = n /\ \A i \in 1 .. n : s[i] = f(i)
OBVIOUS

LEMMA PackagePlan ==
  ASSUME NEW Names, Names \subseteq Component, NEW packages \in Seq(Names)
  PROVE  Plan(ValidateInstalledPackages(packages), 4, 4)
<1> DEFINE s == ValidateInstalledPackages(packages)
           n == 2 * Len(packages)
           p(i) == packages[(i + 1) \div 2]
           call(i) == IF i % 2 = 1 THEN Call("stat", "library", <<p(i)>>, "dir")
                      ELSE Call("stat", "library", <<p(i), "DESCRIPTION">>, "file")
<1>1. Len(packages) \in Nat
  OBVIOUS
<1>2. n \in Nat
  BY <1>1
<1>3. ASSUME NEW i \in 1 .. n PROVE call(i) \in CallRecord /\ call(i).op = "stat"
  <2>1. (i + 1) \div 2 \in 1 .. Len(packages)
    BY <1>1, Halves
  <2>2. ASSUME NEW m \in 1 .. Len(packages) PROVE packages[m] \in Names
    OBVIOUS
  <2>3. p(i) \in Names
    BY <2>1, <2>2
  <2> HIDE DEF p
  <2>4. p(i) \in Component
    BY <2>3
  <2> QED BY <2>4, PackageLooks
<1>4. s = [i \in 1 .. n |-> call(i)]
  BY DEF ValidateInstalledPackages
<1> HIDE DEF call, n, s
<1>5. s \in Seq(CallRecord) /\ Len(s) = n /\ \A i \in 1 .. n : s[i] = call(i)
  BY <1>2, <1>3, <1>4, Tabulated
<1>6. \A i \in 1 .. Len(s) : s[i].op \in Looks
  BY <1>3, <1>5 DEF Looks
<1>7. 4 \in 0 .. 4
  OBVIOUS
<1>8. Plan(s, 4, 4)
  BY <1>5, <1>6, <1>7, QuietPlan
<1> QED BY <1>8 DEF s

LEMMA LayoutPlan ==
  ASSUME NEW app_type
  PROVE  Plan(ValidateAppLayout(app_type), 4, 4)
<1>1. "app" \in Field
  BY DEF Field, ResolvedField
<1>2. ASSUME NEW op \in {"stat", "none"}, NEW f \in {"app.R", "ui.R", "server.R"}
      PROVE  Plan(<<Call(op, "app", <<f>>, "file")>>, 4, 4)
  <2>1. f \in Component /\ op \in Looks
    BY DEF Component, Looks
  <2>2. <<f>> \in Seq(Component)
    BY <2>1
  <2>3. /\ Call(op, "app", <<f>>, "file") \in CallRecord
        /\ Call(op, "app", <<f>>, "file").op \in Looks
    BY <1>1, <2>1, <2>2, LookIsCall
  <2> QED BY <2>3, OneLook
<1>3. CASE app_type = "single"
  BY <1>2, <1>3 DEF ValidateAppLayout, CriticalChild
<1>4. CASE app_type # "single"
  <2> DEFINE a == <<Call("none", "app", <<"app.R">>, "file")>>
             b == <<Call("stat", "app", <<"ui.R">>, "file")>>
             c == <<Call("stat", "app", <<"server.R">>, "file")>>
  <2>1. Plan(a, 4, 4) /\ Plan(b, 4, 4) /\ Plan(c, 4, 4)
    BY <1>2
  <2>2. ValidateAppLayout(app_type) = (a \o b) \o c
    BY <1>4 DEF ValidateAppLayout, CriticalChild
  <2> HIDE DEF a, b, c
  <2>3. Plan(a \o b, 4, 4)
    BY <2>1, PlanAppend
  <2> QED BY <2>1, <2>2, <2>3, PlanAppend
<1> QED BY <1>3, <1>4

LEMMA OpenPlan ==
  /\ Plan(OpenBundle, 1, 2)
  /\ Occurs(OpenBundle, "bundle") /\ Occurs(OpenBundle, "resources")
<1> DEFINE c1 == Call("stat", "root", <<>>, "dir")
           c2 == Call("bundle", "root", <<>>, "dir")
           c3 == Call("stat", "bundle", <<"resources">>, "dir")
           c4 == Call("resources", "bundle", <<"resources">>, "dir")
           a == <<c1, c2, c3, c4>>
           b == ReadBoundedRegularFile("resources", <<"rpackit.json">>)
           d == Call("manifest", "root", <<>>, "any")
<1>1. /\ "bundle" \in Field /\ "resources" \in Field
      /\ <<>> \in Seq(Component) /\ <<"resources">> \in Seq(Component)
      /\ <<"rpackit.json">> \in Seq(Component)
  BY DEF Field, Component
<1>2. c1 \in CallRecord /\ c2 \in CallRecord /\ c3 \in CallRecord /\ c4 \in CallRecord
  BY <1>1 DEF CallRecord, Call
<1>3. /\ c1.op = "stat" /\ c2.op = "bundle" /\ c3.op = "stat" /\ c4.op = "resources"
      /\ c2.base = "root" /\ c4.base = "bundle" /\ c4.rel = <<"resources">>
  BY DEF Call
<1>4. d \in CallRecord /\ d.op \in Looks
  BY <1>1, LookIsCall DEF Looks
<1> HIDE DEF c1, c2, c3, c4, b, d
<1>5. /\ a \in Seq(CallRecord) /\ Len(a) = 4
      /\ a[1] = c1 /\ a[2] = c2 /\ a[3] = c3 /\ a[4] = c4
  BY <1>2
<1> HIDE DEF a
<1>6. /\ Turn("stat") = 0 /\ Turn("bundle") = 1 /\ Turn("resources") = 2
      /\ {"stat", "bundle", "resources"} \cap ResolvedField = {}
  BY DEF Turn, ResolvedField
<1>7. \A i \in 1 .. 4 : i = 1 \/ i = 2 \/ i = 3 \/ i = 4
  OBVIOUS
<1>8. \A i \in 1 .. 4 : Aimed(a[i])
  BY <1>3, <1>5, <1>6, <1>7 DEF Aimed
<1>9. \A i \in 1 .. 4 : Turn(a[i].op) \in {0} \cup 1 .. 2
  BY <1>3, <1>5, <1>6, <1>7
<1>10. \A i, j \in 1 .. 4 : i < j /\ Turn(a[j].op) # 0 => Turn(a[i].op) <= Turn(a[j].op)
  BY <1>3, <1>5, <1>6, <1>7
<1>11. Plan(a, 1, 2)
  BY <1>5, <1>8, <1>9, <1>10 DEF Plan
<1>12. Occurs(a, "bundle") /\ Occurs(a, "resources")
  BY <1>3, <1>5 DEF Occurs
<1>13. Plan(b, 2, 2)
  <2> DEFINE rel == <<"rpackit.json">>
  <2>1. rel \in Seq(Component)
    BY <1>1
  <2> HIDE DEF rel
  <2>2. Plan(ReadBoundedRegularFile("resources", rel), 2, 2)
    BY <1>1, <2>1, ReadPlan
  <2> QED BY <2>2 DEF b, rel
<1>14. Plan(<<d>>, 2, 2)
  BY <1>4, OneLook
<1>15. /\ Plan(a \o b, 1, 2) /\ Occurs(a \o b, "bundle") /\ Occurs(a \o b, "resources")
  BY <1>11, <1>12, <1>13, PlanAppend
<1>16. OpenBundle = (a \o b) \o <<d>>
  BY DEF OpenBundle, a, b, c1, c2, c3, c4, d
<1> QED BY <1>14, <1>15, <1>16, PlanAppend

(* The whole of load: every location is resolved, in the order of the turns.  *)
LEMMA LoadPlan ==
  ASSUME NEW m, NEW Names, Names \subseteq Component, m.dependencies.packages \in Seq(Names)
  PROVE  /\ Plan(LoadCalls(m), 1, 4)
         /\ \A op \in Field \cup {"topology"} : Occurs(LoadCalls(m), op)
<1> DEFINE p1 == OpenBundle
           q1 == ResolveManifestPath("rscript", <<"R", "bin", "Rscript.exe">>, "file")
           q2 == ResolveManifestPath("library", <<"R", "library">>, "dir")
           q3 == ResolveManifestPath("app", <<"app">>, "dir")
           q4 == ResolveManifestPath("launcher", <<"launcher.R">>, "file")
           q5 == ResolveManifestPath("runtime", <<"R">>, "dir")
           c == Call("topology", "root", <<>>, "any")
           q6 == <<c>>
           q7 == ValidateAppLayout(m.app_type)
           q8 == ValidateInstalledPackages(m.dependencies.packages)
           q9 == ValidateLauncherFile
<1>1. /\ <<"R", "bin", "Rscript.exe">> \in Seq(Component) /\ <<"R", "library">> \in Seq(Component)
      /\ <<"app">> \in Seq(Component) /\ <<"launcher.R">> \in Seq(Component)
      /\ <<"R">> \in Seq(Component) /\ <<>> \in Seq(Component)
  <2>1. {"R", "bin", "Rscript.exe", "library", "app", "launcher.R"} \subseteq Component
    BY DEF Component
  <2> QED BY <2>1
<1>2. {"rscript", "library", "app", "launcher", "runtime"} = ResolvedField /\ "launcher" \in Field
  BY DEF ResolvedField, Field
<1>3. /\ Plan(q1, 3, 3) /\ Occurs(q1, "rscript")
      /\ Plan(q2, 3, 3) /\ Occurs(q2, "library")
      /\ Plan(q3, 3, 3) /\ Occurs(q3, "app")
      /\ Plan(q4, 3, 3) /\ Occurs(q4, "launcher")
      /\ Plan(q5, 3, 3) /\ Occurs(q5, "runtime")
  <2> USE <1>1, <1>2, PathsOfLoad, ResolvePlan
  <2>1. Plan(q1, 3, 3) /\ Occurs(q1, "rscript")
    OBVIOUS
  <2>2. Plan(q2, 3, 3) /\ Occurs(q2, "library")
    OBVIOUS
  <2>3. Plan(q3, 3, 3) /\ Occurs(q3, "app")
    OBVIOUS
  <2>4. Plan(q4, 3, 3) /\ Occurs(q4, "launcher")
    OBVIOUS
  <2>5. Plan(q5, 3, 3) /\ Occurs(q5, "runtime")
    OBVIOUS
  <2> QED BY <2>1, <2>2, <2>3, <2>4, <2>5
<1>4. Plan(q6, 4, 4) /\ Occurs(q6, "topology")
  <2>1. c \in CallRecord /\ c.op = "topology"
    BY <1>1 DEF CallRecord, Call
  <2>2. Aimed(c) /\ Turn("topology") = 4
    BY <2>1 DEF Aimed, Turn, ResolvedField
  <2> HIDE DEF c
  <2>3. q6 \in Seq(CallRecord) /\ Len(q6) = 1 /\ q6[1] = c
    BY <2>1
  <2>4. \A i \in 1 .. 1 : i = 1
    OBVIOUS
  <2> HIDE DEF q6
  <2> QED BY <2>1, <2>2, <2>3, <2>4 DEF Plan, Occurs
<1>5. Plan(q7, 4, 4) /\ Plan(q8, 4, 4)
  BY LayoutPlan, PackagePlan
<1>6. Plan(q9, 4, 4)
  <2> DEFINE rel == <<>>
  <2>1. rel \in Seq(Component)
    BY <1>1
  <2> HIDE DEF rel
  <2>2. Plan(ReadBoundedRegularFile("launcher", rel), 4, 4)
    BY <1>2, <2>1, ReadPlan
  <2> QED BY <2>2 DEF ValidateLauncherFile, rel
<1>7. Plan(p1, 1, 2) /\ Occurs(p1, "bundle") /\ Occurs(p1, "resources")
  BY OpenPlan
<1>8. LoadCalls(m) = ((((((((p1 \o q1) \o q2) \o q3) \o q4) \o q5) \o q6) \o q7) \o q8) \o q9
  BY DEF LoadCalls
<1> HIDE DEF p1, q1, q2, q3, q4, q5, q6, q7, q8, q9
<1> DEFINE p2 == p1 \o q1
           p3 == p2 \o q2
           p4 == p3 \o q3
           p5 == p4 \o q4
           p6 == p5 \o q5
           p7 == p6 \o q6
           p8 == p7 \o q7
           p9 == p8 \o q8
           Has(p, ops) == \A op \in ops : Occurs(p, op)
<1>9. Plan(q1, 2, 3)
  BY <1>3 DEF Plan
<1>10. Plan(p2, 1, 3) /\ Has(p2, {"bundle", "resources", "rscript"})
  BY <1>3, <1>7, <1>9, PlanAppend
<1> HIDE DEF p2
<1>11. Plan(p3, 1, 3) /\ Has(p3, {"bundle", "resources", "rscript", "library"})
  BY <1>3, <1>10, PlanAppend
<1> HIDE DEF p3
<1>12. Plan(p4, 1, 3) /\ Has(p4, {"bundle", "resources", "rscript", "library", "app"})
  BY <1>3, <1>11, PlanAppend
<1> HIDE DEF p4
<1>13. Plan(p5, 1, 3) /\ Has(p5, {"bundle", "resources", "rscript", "library", "app", "launcher"})
  BY <1>3, <1>12, PlanAppend
<1> HIDE DEF p5
<1>14. Plan(p6, 1, 3) /\ Has(p6, Field)
  BY <1>3, <1>13, PlanAppend DEF Field, ResolvedField
<1> HIDE DEF p6
<1>15. Plan(q6, 3, 4)
  BY <1>4 DEF Plan
<1>16. Plan(p7, 1, 4) /\ Has(p7, Field \cup {"topology"})
  BY <1>4, <1>14, <1>15, PlanAppend
<1> HIDE DEF p7
<1>17. Plan(p8, 1, 4) /\ Has(p8, Field \cup {"topology"})
  BY <1>5, <1>16, PlanAppend
<1> HIDE DEF p8
<1>18. Plan(p9, 1, 4) /\ Has(p9, Field \cup {"topology"})
  BY <1>5, <1>17, PlanAppend
<1> HIDE DEF p9
<1>19. Plan(p9 \o q9, 1, 4) /\ Has(p9 \o q9, Field \cup {"topology"})
  BY <1>6, <1>18, PlanAppend
<1> QED BY <1>8, <1>19 DEF p2, p3, p4, p5, p6, p7, p8, p9

(* Whenever first is still to be called, last is too, and after it.            *)
Then(s, first, last) ==
  \A i \in 1 .. Len(s) : s[i].op = first => \E j \in 1 .. Len(s) : i < j /\ s[j].op = last

LEMMA ThenInPlan ==
  ASSUME NEW s, Plan(s, 1, 4), NEW first, NEW last, Occurs(s, last),
         Turn(first) \in 1 .. 4, Turn(last) \in 1 .. 4, Turn(first) < Turn(last)
  PROVE  Then(s, first, last)
<1> SUFFICES ASSUME NEW i \in 1 .. Len(s), s[i].op = first
             PROVE  \E j \in 1 .. Len(s) : i < j /\ s[j].op = last
  BY DEF Then
<1>1. PICK j \in 1 .. Len(s) : s[j].op = last
  BY DEF Occurs
<1>2. Len(s) \in Nat
  BY DEF Plan
<1>3. ~(j < i)
  BY <1>1 DEF Plan
<1>4. j # i
  BY <1>1
<1>5. i < j
  BY <1>2, <1>3, <1>4
<1> QED BY <1>1, <1>5

(* The order of the calls still to make.                                       *)
Ordered(s) ==
  /\ Plan(s, 1, 4)
  /\ Then(s, "bundle", "resources")
  /\ \A f \in ResolvedField : Then(s, "resources", f) /\ Then(s, f, "topology")

LEMMA TurnsOfFields ==
  /\ Turn("bundle") = 1 /\ Turn("resources") = 2 /\ Turn("topology") = 4
  /\ \A f \in ResolvedField : Turn(f) = 3
BY DEF Turn, ResolvedField

LEMMA LoadOrdered ==
  ASSUME NEW m, NEW Names, Names \subseteq Component, m.dependencies.packages \in Seq(Names)
  PROVE  Ordered(LoadCalls(m)) /\ LoadCalls(m) # <<>>
<1> DEFINE s == LoadCalls(m)
<1>1. Plan(s, 1, 4) /\ \A op \in Field \cup {"topology"} : Occurs(s, op)
  BY LoadPlan
<1>2. /\ "resources" \in Field \cup {"topology"} /\ "topology" \in Field \cup {"topology"}
      /\ ResolvedField \subseteq Field \cup {"topology"}
  BY DEF Field
<1> HIDE DEF s
<1>3. Then(s, "bundle", "resources")
  BY <1>1, <1>2, TurnsOfFields, ThenInPlan
<1>4. ASSUME NEW f \in ResolvedField PROVE Then(s, "resources", f) /\ Then(s, f, "topology")
  BY <1>1, <1>2, TurnsOfFields, ThenInPlan
<1>5. s # <<>>
  BY <1>1, <1>2 DEF Occurs
<1> QED BY <1>1, <1>3, <1>4, <1>5 DEF Ordered, s

(* One call is made: the others stay in order.                                *)
LEMMA TailFacts ==
  ASSUME NEW S, NEW s \in Seq(S), s # <<>>
  PROVE  /\ Tail(s) \in Seq(S) /\ Head(s) = s[1] /\ Len(s) \in Nat \ {0}
         /\ Len(Tail(s)) = Len(s) - 1
         /\ \A i \in 1 .. Len(Tail(s)) : Tail(s)[i] = s[i + 1]
OBVIOUS

LEMMA OrderedTail ==
  ASSUME NEW s, Ordered(s), s # <<>>
  PROVE  /\ Ordered(Tail(s))
         /\ \A op : Occurs(s, op) => Head(s).op = op \/ Occurs(Tail(s), op)
         /\ \A first, last : Then(s, first, last) /\ Head(s).op = first => Occurs(Tail(s), last)
<1> DEFINE t == Tail(s)
           n == Len(t)
<1>0. s \in Seq(CallRecord)
  BY DEF Ordered, Plan
<1>1. /\ t \in Seq(CallRecord) /\ Head(s) = s[1] /\ n \in Nat /\ Len(s) = n + 1
      /\ \A i \in 1 .. n : t[i] = s[i + 1]
  BY <1>0, TailFacts
<1> HIDE DEF t, n
<1>2. \A i \in 1 .. n : i + 1 \in 1 .. Len(s)
  BY <1>1
<1>3. \A i \in 1 .. Len(s) : i = 1 \/ (i - 1 \in 1 .. n /\ t[i - 1] = s[i])
  <2> SUFFICES ASSUME NEW i \in 1 .. Len(s), i # 1 PROVE i - 1 \in 1 .. n /\ t[i - 1] = s[i]
    OBVIOUS
  <2>1. i - 1 \in 1 .. n /\ (i - 1) + 1 = i
    BY <1>1
  <2> QED BY <1>1, <2>1
<1>4. Plan(t, 1, 4)
  <2>1. \A i \in 1 .. n : Aimed(t[i]) /\ Turn(t[i].op) \in {0} \cup 1 .. 4
    BY <1>1, <1>2 DEF Ordered, Plan
  <2>2. ASSUME NEW i \in 1 .. n, NEW j \in 1 .. n, i < j, Turn(t[j].op) # 0
        PROVE  Turn(t[i].op) <= Turn(t[j].op)
    <3>1. i + 1 \in 1 .. Len(s) /\ j + 1 \in 1 .. Len(s) /\ i + 1 < j + 1
      BY <1>1, <1>2, <2>2
    <3> QED BY <1>1, <2>2, <3>1 DEF Ordered, Plan
  <2> QED BY <1>1, <2>1, <2>2 DEF Plan, n
<1>5. ASSUME NEW first, NEW last, Then(s, first, last) PROVE Then(t, first, last)
  <2> SUFFICES ASSUME NEW i \in 1 .. n, t[i].op = first
               PROVE  \E j \in 1 .. n : i < j /\ t[j].op = last
    BY DEF Then, n
  <2>1. PICK j \in 1 .. Len(s) : i + 1 < j /\ s[j].op = last
    BY <1>1, <1>2, <1>5 DEF Then
  <2>2. j - 1 \in 1 .. n /\ t[j - 1] = s[j] /\ i < j - 1
    BY <1>1, <1>3, <2>1
  <2> QED BY <2>1, <2>2
<1>6. ASSUME NEW op, Occurs(s, op) PROVE s[1].op = op \/ Occurs(t, op)
  <2>1. PICK i \in 1 .. Len(s) : s[i].op = op
    BY <1>6 DEF Occurs
  <2> QED BY <1>3, <2>1 DEF Occurs, n
<1>7. ASSUME NEW first, NEW last, Then(s, first, last), s[1].op = first PROVE Occurs(t, last)
  <2>1. PICK j \in 1 .. Len(s) : 1 < j /\ s[j].op = last
    BY <1>1, <1>7 DEF Then
  <2>2. j - 1 \in 1 .. n /\ t[j - 1].op = last
    BY <1>1, <1>3, <2>1
  <2> QED BY <2>2 DEF Occurs, n
<1>8. Ordered(t)
  BY <1>4, <1>5 DEF Ordered
<1> QED BY <1>1, <1>6, <1>7, <1>8 DEF t

(* A call whose turn has come: everything of an earlier turn has been called.  *)
LEMMA HeadIsFirst ==
  ASSUME NEW s, Ordered(s), s # <<>>, NEW op, Turn(op) # 0, Turn(op) < Turn(Head(s).op)
  PROVE  ~Occurs(Tail(s), op)
<1>1. s \in Seq(CallRecord)
  BY DEF Ordered, Plan
<1>2. /\ Tail(s) \in Seq(CallRecord) /\ Head(s) = s[1] /\ Len(s) \in Nat \ {0}
      /\ Len(Tail(s)) = Len(s) - 1
      /\ \A i \in 1 .. Len(Tail(s)) : Tail(s)[i] = s[i + 1]
  BY <1>1, TailFacts
<1> SUFFICES ASSUME NEW i \in 1 .. Len(Tail(s)), Tail(s)[i].op = op PROVE FALSE
  BY DEF Occurs
<1>3. i + 1 \in 1 .. Len(s) /\ 1 \in 1 .. Len(s) /\ 1 < i + 1 /\ s[i + 1].op = op
  BY <1>2
<1>4. Turn(s[1].op) <= Turn(s[i + 1].op) /\ Turn(s[1].op) \in 0 .. 4 /\ Turn(s[i + 1].op) \in 0 .. 4
  BY <1>3 DEF Ordered, Plan
<1> QED BY <1>2, <1>3, <1>4

-------------------------------------------------------------------------------
(* Paths and locations.                                                       *)

LEMMA PathsAreSequences == \A q \in Paths : Len(q) \in Nat
<1> DEFINE C == Component \cup {"bundle", "x64"}
<1>1. /\ \A x \in {"bundle", "resources", "R", "bin", "Rscript.exe", "library", "app", "x64",
                   "launcher.R", "rpackit.json", "DESCRIPTION"} : x \in C
      /\ \A x \in ApplicationFiles : x \in C
      /\ \A x \in PackageNames : x \in C
  BY DEF Component, ApplicationFiles
<1> HIDE DEF C
<1>2. /\ \A x \in C : <<x>> \in Seq(C)
      /\ \A x, y \in C : <<x, y>> \in Seq(C)
      /\ \A s, t \in Seq(C) : s \o t \in Seq(C)
  OBVIOUS
<1>3. BundlePath \in Seq(C)
  BY <1>1, <1>2, Zenon DEF BundlePath
<1>4. ResourcesPath \in Seq(C)
  BY <1>1, <1>2, <1>3, Zenon DEF ResourcesPath
<1>5. RuntimePath \in Seq(C) /\ AppPath \in Seq(C)
  BY <1>1, <1>2, <1>4, Zenon DEF RuntimePath, AppPath
<1>6. LibraryPath \in Seq(C)
  BY <1>1, <1>2, <1>5, Zenon DEF LibraryPath
<1>7. /\ RuntimePath \o <<"bin">> \in Seq(C)
      /\ ResourcesPath \o <<"rpackit.json">> \in Seq(C)
      /\ RuntimePath \o <<"bin", "Rscript.exe">> \in Seq(C)
      /\ RuntimePath \o <<"bin", "x64">> \in Seq(C)
      /\ ResourcesPath \o <<"launcher.R">> \in Seq(C)
  BY <1>1, <1>2, <1>4, <1>5, Zenon
<1>8. /\ \A f \in ApplicationFiles : AppPath \o <<f>> \in Seq(C)
      /\ \A p \in PackageNames : LibraryPath \o <<p>> \in Seq(C)
      /\ \A p \in PackageNames : LibraryPath \o <<p, "DESCRIPTION">> \in Seq(C)
  BY <1>1, <1>2, <1>5, <1>6, Zenon
<1>9. \A q \in Paths : q \in Seq(C)
  BY <1>3, <1>4, <1>5, <1>6, <1>7, <1>8, Zenon DEF Paths, Directories, Files
<1> QED BY <1>9

(* Among sequences there is a shortest.                                       *)
LEMMA ShortestExists ==
  ASSUME NEW L, L # {}, \A q \in L : Len(q) \in Nat
  PROVE  \E q \in L : \A r \in L : Len(q) <= Len(r)
<1> DEFINE T == {Len(q) : q \in L}
           R == OpToRel(<, Nat)
<1>1. T \subseteq Nat /\ T # {}
  OBVIOUS
<1>2. \A x, y \in Nat : <<y, x>> \in R <=> y < x
  BY DEF OpToRel
<1>3. IsWellFoundedOn(R, Nat)
  BY NatLessThanWellFounded
<1> HIDE DEF R
<1>4. PICK x \in T : \A y \in T : ~(<<y, x>> \in R)
  <2> HIDE DEF T
  <2> QED BY <1>1, <1>3, WFMin
<1>5. PICK q \in L : x = Len(q)
  OBVIOUS
<1>6. \A r \in L : ~(Len(r) < Len(q))
  BY <1>2, <1>4, <1>5
<1> QED BY <1>5, <1>6

(* canonicalize: the same path, in the tree its first link leads to.          *)
LEMMA CanonicalStays ==
  ASSUME NEW d, d.now \in [Paths -> Entry], NEW loc \in Location
  PROVE  Canonical(d, loc) \in Location /\ Canonical(d, loc).path = loc.path
<1> DEFINE links == {q \in Ancestors(loc.path) \cup {loc.path} :
                       q \in Paths /\ d.now[q] \in LinkEntry}
           first == CHOOSE q \in links : \A r \in links : Len(q) <= Len(r)
<1>1. \A q \in links : q \in Paths /\ d.now[q] \in LinkEntry
  OBVIOUS
<1>2. Canonical(d, loc) = IF loc.place # "bundle" \/ links = {} THEN loc
                          ELSE [loc EXCEPT !.place = d.now[first]]
  BY DEF Canonical
<1> HIDE DEF links
<1>3. CASE loc.place # "bundle" \/ links = {}
  BY <1>2, <1>3
<1>4. CASE ~(loc.place # "bundle" \/ links = {})
  <2>1. \E q \in links : \A r \in links : Len(q) <= Len(r)
    BY <1>1, <1>4, PathsAreSequences, ShortestExists
  <2>2. first \in links
    BY <2>1
  <2> HIDE DEF first
  <2>3. d.now[first] \in Place
    BY <1>1, <2>2 DEF Place
  <2>4. Canonical(d, loc) = [loc EXCEPT !.place = d.now[first]]
    BY <1>2, <1>4
  <2> QED BY <2>3, <2>4 DEF Location
<1> QED BY <1>3, <1>4

LEMMA Deeper ==
  ASSUME NEW l \in Location, NEW r, NEW p \in Paths, l.path \o r = p,
         NEW named, named = [l EXCEPT !.path = @ \o r]
  PROVE  named \in Location /\ named.path = p
BY DEF Location

-------------------------------------------------------------------------------
(***************************************************************************)
(* What load has established is what it has no more calls for: a location    *)
(* whose turn is over is contained in the resources directory, which is not  *)
(* resolved again.                                                           *)
(***************************************************************************)
FoundAt ==
  /\ found \in [Field -> Location]
  /\ found.bundle.path = BundlePath
  /\ ~Occurs(calls, "resources") => /\ found.resources.path = ResourcesPath
                                    /\ found.resources.place = found.bundle.place
  /\ \A f \in ResolvedField : ~Occurs(calls, f) => Contained(found, found[f])
  /\ ~Occurs(calls, "topology") => /\ StartsWith(found.rscript, found.runtime)
                                   /\ StartsWith(found.library, found.runtime)

DiskAt == disk \in [now : [Paths -> Entry], intact : [Paths -> Entry]]

LoadAt ==
  /\ stage \in Stage /\ result \in {"none", "ready", "failed", "failed_cleanup"}
  /\ Ordered(calls)
  /\ stage = "load" => calls # <<>>
  /\ stage \notin {"load", "returned", "gone"} => calls = <<>>
  /\ result = "ready" => calls = <<>>
  /\ FoundAt /\ DiskAt

LEMMA HeadIsCall ==
  ASSUME NEW s, Ordered(s), s # <<>>
  PROVE  Head(s) \in CallRecord /\ Aimed(Head(s))
<1>1. s \in Seq(CallRecord)
  BY DEF Ordered, Plan
<1>2. Head(s) = s[1] /\ 1 \in 1 .. Len(s)
  BY <1>1, TailFacts
<1> QED BY <1>1, <1>2 DEF Ordered, Plan

(* A location is resolved from where its parent was found.                     *)
LEMMA NamedStays ==
  ASSUME Ordered(calls), calls # <<>>, FoundAt, Head(calls).op \in Field
  PROVE  /\ Named(found, Head(calls)) \in Location
         /\ Head(calls).op = "bundle" => Named(found, Head(calls)).path = BundlePath
         /\ Head(calls).op = "resources" => Named(found, Head(calls)).path = ResourcesPath
<1> DEFINE c == Head(calls)
<1>1. c \in CallRecord /\ Aimed(c) /\ c.op \in Field
  BY HeadIsCall
<1>2. found.bundle \in Location /\ found.resources \in Location /\ found.bundle.path = BundlePath
  BY DEF FoundAt, Field
<1> HIDE DEF c
<1>3. CASE c.op = "bundle"
  <2>1. Named(found, c) = [place |-> "bundle", path |-> BundlePath]
    BY <1>1, <1>3 DEF Aimed, Named
  <2> QED BY <1>3, <2>1, PathsOfLoad DEF Location, Place, c
<1>4. CASE c.op = "resources"
  <2>1. c.base = "bundle" /\ c.rel = <<"resources">>
    BY <1>1, <1>4 DEF Aimed
  <2>2. Named(found, c) = [found.bundle EXCEPT !.path = @ \o c.rel]
    BY <2>1 DEF Named
  <2>3. found.bundle.path \o c.rel = ResourcesPath
    BY <1>2, <2>1 DEF ResourcesPath
  <2>4. ResourcesPath \in Paths
    BY PathsOfLoad
  <2>5. Named(found, c) \in Location /\ Named(found, c).path = ResourcesPath
    <3>1. found.bundle \in Location
      BY <1>2
    <3>2. Named(found, c) \in Location
      BY <2>2, <2>3, <2>4, <3>1, Deeper, Zenon
    <3>3. Named(found, c).path = found.bundle.path \o c.rel
      BY <2>2, <3>1 DEF Location
    <3> QED BY <2>3, <3>2, <3>3
  <2> QED BY <1>4, <2>5 DEF c
<1>5. CASE c.op \in ResolvedField
  <2>1. c.base = "resources" /\ ResourcesPath \o c.rel \in Paths
    BY <1>1, <1>5 DEF Aimed
  <2>2. Named(found, c) = [found.resources EXCEPT !.path = @ \o c.rel]
    BY <2>1 DEF Named
  <2>3. ~Occurs(calls, "resources")
    <3>1. Turn(c.op) = 3 /\ Turn("resources") = 2 /\ c.op # "resources"
      BY <1>5, TurnsOfFields
    <3>2. ~Occurs(Tail(calls), "resources")
      BY <3>1, HeadIsFirst DEF c
    <3> QED BY <3>1, <3>2, OrderedTail DEF c
  <2>4. found.resources.path = ResourcesPath
    BY <2>3 DEF FoundAt
  <2>5. Named(found, c) \in Location
    BY <1>2, <2>1, <2>2, <2>4, Deeper, Zenon
  <2>6. c.op # "bundle" /\ c.op # "resources"
    BY <1>5 DEF ResolvedField
  <2> QED BY <2>5, <2>6 DEF c
<1> QED BY <1>1, <1>3, <1>4, <1>5 DEF Field

(* A call that passes, and what it leaves for the calls after it.             *)
LEMMA PassedCall ==
  ASSUME LoadAt, calls # <<>>, CallPasses(disk, manifest, found, Head(calls)),
         found' = CallResult(disk, found, Head(calls)), calls' = Tail(calls)
  PROVE  Ordered(calls') /\ FoundAt'
<1> DEFINE c == Head(calls)
           to == Canonical(disk, Named(found, c))
<1>1. /\ Ordered(calls) /\ FoundAt /\ disk.now \in [Paths -> Entry]
      /\ c \in CallRecord /\ CallPasses(disk, manifest, found, c)
      /\ found' = IF c.op \in Field THEN [found EXCEPT ![c.op] = to] ELSE found
  BY HeadIsCall DEF LoadAt, DiskAt, CallResult
<1>2. /\ Ordered(calls')
      /\ \A op : Occurs(calls, op) => c.op = op \/ Occurs(calls', op)
      /\ \A first, last : Then(calls, first, last) /\ c.op = first => Occurs(calls', last)
  BY <1>1, OrderedTail
<1>3. c.op \in Field => /\ to \in Location
                        /\ c.op = "bundle" => to.path = BundlePath
                        /\ c.op = "resources" => to.path = ResourcesPath
  BY <1>1, NamedStays, CanonicalStays
<1>4. /\ c.op = "resources" => to.place = found.bundle.place
      /\ c.op \in ResolvedField => Contained(found, to)
      /\ c.op = "topology" => /\ StartsWith(found.rscript, found.runtime)
                              /\ StartsWith(found.library, found.runtime)
  BY <1>1 DEF CallPasses, ResolvedField
<1>5. /\ c.op = "bundle" => Occurs(calls', "resources")
      /\ c.op = "resources" => \A f \in ResolvedField : Occurs(calls', f)
      /\ c.op \in ResolvedField => Occurs(calls', "topology")
  BY <1>1, <1>2 DEF Ordered
(* What is resolved again has everything after it still to come.              *)
<1>6. \A f \in ResolvedField : Occurs(calls', "resources") => Occurs(calls', f)
  <2> SUFFICES ASSUME NEW f \in ResolvedField, Occurs(calls', "resources") PROVE Occurs(calls', f)
    OBVIOUS
  <2>1. Then(calls', "resources", f)
    BY <1>2 DEF Ordered
  <2> QED BY <2>1 DEF Then, Occurs
<1>7. \A f \in ResolvedField : Occurs(calls', f) => Occurs(calls', "topology")
  <2> SUFFICES ASSUME NEW f \in ResolvedField, Occurs(calls', f) PROVE Occurs(calls', "topology")
    OBVIOUS
  <2>1. Then(calls', f, "topology")
    BY <1>2 DEF Ordered
  <2> QED BY <2>1 DEF Then, Occurs
<1> HIDE DEF c, to
<1>8. found \in [Field -> Location] /\ found.bundle.path = BundlePath
  BY <1>1 DEF FoundAt
<1>9. /\ {"bundle", "resources", "rscript", "library", "runtime"} \subseteq Field
      /\ ResolvedField \subseteq Field /\ {"rscript", "library", "runtime"} \subseteq ResolvedField
      /\ "bundle" \notin ResolvedField /\ "resources" \notin ResolvedField
      /\ "topology" \notin Field
  BY DEF Field, ResolvedField
<1>10. found' \in [Field -> Location]
  <2>1. found' = IF c.op \in Field THEN [found EXCEPT ![c.op] = to] ELSE found
    BY <1>1
  <2>2. c.op \in Field => to \in Location
    BY <1>3
  <2> QED BY <1>8, <2>1, <2>2
<1>11. \A f \in Field : found'[f] = IF c.op = f THEN to ELSE found[f]
  BY <1>1, <1>8
<1>12. found'.bundle.path = BundlePath
  <2>1. found'.bundle = IF c.op = "bundle" THEN to ELSE found.bundle
    BY <1>9, <1>11
  <2>2. c.op = "bundle" => to.path = BundlePath
    BY <1>3, <1>9
  <2> QED BY <1>8, <2>1, <2>2
<1>13. ~Occurs(calls', "resources") => /\ found'.resources.path = ResourcesPath
                                       /\ found'.resources.place = found'.bundle.place
  <2> SUFFICES ASSUME ~Occurs(calls', "resources")
               PROVE  /\ found'.resources.path = ResourcesPath
                      /\ found'.resources.place = found'.bundle.place
    OBVIOUS
  <2>1. c.op # "bundle" /\ found'.bundle = found.bundle
    BY <1>5, <1>9, <1>11
  <2>2. CASE c.op = "resources"
    <3>1. found'.resources = to
      BY <1>9, <1>11, <2>2
    <3>2. to.path = ResourcesPath /\ to.place = found.bundle.place
      BY <1>3, <1>4, <1>9, <2>2
    <3> QED BY <2>1, <3>1, <3>2
  <2>3. CASE c.op # "resources"
    BY <1>1, <1>2, <1>9, <1>11, <2>1, <2>3 DEF FoundAt
  <2> QED BY <2>2, <2>3
<1>14. ASSUME NEW f \in ResolvedField, ~Occurs(calls', f) PROVE Contained(found', found'[f])
  <2>1. c.op # "bundle" /\ c.op # "resources"
    BY <1>5, <1>6, <1>14
  <2>2. found'.resources = found.resources
    BY <1>9, <1>11, <2>1
  <2>3. Contained(found, found'[f])
    <3>1. CASE c.op = f
      BY <1>4, <1>9, <1>11, <3>1
    <3>2. CASE c.op # f
      BY <1>1, <1>2, <1>9, <1>11, <1>14, <3>2 DEF FoundAt
    <3> QED BY <3>1, <3>2
  <2> QED BY <2>2, <2>3 DEF Contained
<1>15. ASSUME ~Occurs(calls', "topology")
       PROVE  /\ StartsWith(found'.rscript, found'.runtime)
              /\ StartsWith(found'.library, found'.runtime)
  <2>1. c.op \notin ResolvedField
    BY <1>5, <1>15
  <2>2. /\ found'.rscript = found.rscript /\ found'.runtime = found.runtime
        /\ found'.library = found.library
    BY <1>9, <1>11, <2>1
  <2>3. StartsWith(found.rscript, found.runtime) /\ StartsWith(found.library, found.runtime)
    BY <1>1, <1>2, <1>4, <1>15 DEF FoundAt
  <2> QED BY <2>2, <2>3
<1> QED BY <1>2, <1>10, <1>12, <1>13, <1>14, <1>15 DEF FoundAt

LEMMA LoadInitial == Init => LoadAt
<1> SUFFICES ASSUME Init PROVE LoadAt OBVIOUS
<1> DEFINE Names == PackageNames \cup {"no name"}
<1>1. manifest \in Manifest
  BY ManifestsAssumption, Zenon DEF Init
<1>2. manifest.dependencies.packages \in Seq(Names)
  BY <1>1 DEF Manifest
<1>3. Names \subseteq Component
  BY DEF Component
<1> HIDE DEF Names
<1>4. calls = LoadCalls(manifest)
  BY DEF Init
<1>5. /\ Ordered(calls) /\ calls # <<>>
      /\ \A op \in Field \cup {"topology"} : Occurs(calls, op)
  BY <1>2, <1>3, <1>4, LoadOrdered, LoadPlan
<1>6. \A f \in ResolvedField : f \in Field
  BY DEF Field
<1>7. "bundle" \in Field /\ "resources" \in Field
  BY DEF Field
<1>8. found = [f \in Field |-> Root] /\ Root \in Location /\ Root.path = BundlePath
  BY PathsOfLoad DEF Init, Root, Location, Place
<1>9. FoundAt
  BY <1>5, <1>6, <1>7, <1>8 DEF FoundAt
<1>10. DiskAt
  <2>1. PICK type \in AppType : disk = [now |-> Prepared(type), intact |-> Prepared(type)]
    BY DEF Init
  <2>2. Prepared(type) \in [Paths -> Entry]
    <3>1. {"absent", "dir", "file"} \subseteq Entry
      BY DEF Entry, FileEntry
    <3> QED BY <3>1 DEF Prepared
  <2> HIDE DEF DiskAt
  <2> QED BY <2>1, <2>2 DEF DiskAt
<1>11. stage = "load" /\ result = "none"
  BY DEF Init
<1> QED BY <1>5, <1>9, <1>10, <1>11 DEF LoadAt, Stage

LEMMA LoadSteps ==
  ASSUME LoadAt, Swap \/ Load \/ BundledRCommand
  PROVE  LoadAt'
<1>1. CASE Load
  <2>1. /\ stage = "load" /\ calls # <<>> /\ disk' \in {disk, [disk EXCEPT !.now = disk.intact]}
        /\ \/ /\ CallPasses(disk, manifest, found, Head(calls))
              /\ found' = CallResult(disk, found, Head(calls)) /\ calls' = Tail(calls)
              /\ stage' = (IF calls' = <<>> THEN "parent" ELSE "load") /\ result' = result
           \/ stage' = "returned" /\ result' = "failed" /\ UNCHANGED <<calls, found>>
    BY <1>1 DEF Load, LoadAt, ForgetChanges
  <2>2. CASE calls' = Tail(calls) /\ CallPasses(disk, manifest, found, Head(calls))
             /\ found' = CallResult(disk, found, Head(calls))
             /\ stage' = (IF calls' = <<>> THEN "parent" ELSE "load") /\ result' = result
    <3>1. Ordered(calls') /\ FoundAt'
      BY <2>1, <2>2, PassedCall
    <3>2. result # "ready"
      BY <2>1 DEF LoadAt
    <3>3. DiskAt'
      BY <2>1 DEF LoadAt, DiskAt
    <3>4. stage' \in Stage /\ (stage' = "load" => calls' # <<>>)
          /\ (stage' \notin {"load", "returned", "gone"} => calls' = <<>>)
      BY <2>2 DEF Stage
    <3> QED BY <2>2, <3>1, <3>2, <3>3, <3>4 DEF LoadAt
  <2>3. CASE stage' = "returned" /\ result' = "failed" /\ UNCHANGED <<calls, found>>
    <3>1. Ordered(calls') /\ FoundAt' /\ DiskAt'
      BY <2>1, <2>3 DEF LoadAt, FoundAt, DiskAt
    <3> QED BY <2>3, <3>1 DEF LoadAt, Stage
  <2> QED BY <2>1, <2>2, <2>3
<1>2. CASE Swap
  <2>1. UNCHANGED <<stage, result, calls, found>>
    BY <1>2 DEF Swap
  <2>2. PICK p \in Paths, e \in Entry : disk' = [disk EXCEPT !.now = [@ EXCEPT ![p] = e]]
    BY <1>2 DEF Swap, Entry, FileEntry, LinkEntry
  <2>3. DiskAt'
    BY <2>2 DEF LoadAt, DiskAt
  <2> QED BY <2>1, <2>3 DEF LoadAt, FoundAt
<1>3. CASE BundledRCommand
  <2>1. /\ UNCHANGED <<result, calls, found>> /\ stage = "command"
        /\ stage' \in {"launch", "cleanup"} /\ disk' = [disk EXCEPT !.now = disk.intact]
    BY <1>3 DEF BundledRCommand, Fails, ForgetChanges
  <2>2. DiskAt'
    BY <2>1 DEF LoadAt, DiskAt
  <2> QED BY <2>1, <2>2 DEF LoadAt, FoundAt, Stage
<1> QED BY <1>1, <1>2, <1>3

(* After load, launch goes on or returns, and touches nothing that was found.  *)
LEMMA AfterLoad ==
  ASSUME LoadAt, SessionAt,
         \/ ValidateParent \/ CurrentAccountSid \/ CreateRandomDirectory \/ NameCollision
         \/ CreateSessionFails \/ VerifySession \/ CreateTokenFile \/ WriteToken
         \/ BundledRInterpreter \/ ComposeEnvironment \/ LaunchMain \/ CleanupPrelaunchError
         \/ OtherThread \/ MainProcessEnds \/ OwnerCrashes
  PROVE  LoadAt'
<1>1. UNCHANGED <<calls, found>> /\ disk' \in {disk, [disk EXCEPT !.now = disk.intact]}
  BY DEF ForgetChanges, ValidateParent, CurrentAccountSid, CreateRandomDirectory, NameCollision,
         CreateSessionFails, VerifySession, CreateTokenFile, WriteToken, BundledRInterpreter,
         ComposeEnvironment, LaunchMain, CleanupPrelaunchError, OtherThread, MainProcessEnds,
         OwnerCrashes, bundleVars, startVars
<1>2. \/ stage' = stage /\ result' = result
      \/ stage' = "gone" /\ result' = result
      \/ /\ stage \notin {"load", "returned", "gone"} /\ stage' \in Stage \ {"load"}
         /\ result' \in {result, "ready", "failed", "failed_cleanup"}
  <2>1. CASE ValidateParent \/ CurrentAccountSid \/ CreateRandomDirectory \/ NameCollision
             \/ CreateSessionFails
    BY <2>1 DEF ValidateParent, CurrentAccountSid, CreateRandomDirectory, NameCollision,
                CreateSessionFails, Stage
  <2>2. CASE VerifySession \/ CreateTokenFile \/ WriteToken
    BY <2>2 DEF VerifySession, CreateTokenFile, WriteToken, Fails, Stage
  <2>3. CASE BundledRInterpreter
    BY <2>3 DEF BundledRInterpreter, Fails, Stage
  <2>4. CASE ComposeEnvironment
    BY <2>4 DEF ComposeEnvironment, Fails, Stage
  <2>5. CASE LaunchMain
    BY <2>5 DEF LaunchMain, BuildMain, CreateMain, Stage
  <2>6. CASE CleanupPrelaunchError
    BY <2>6 DEF CleanupPrelaunchError, Stage
  <2>7. CASE OtherThread \/ MainProcessEnds \/ OwnerCrashes
    BY <2>7 DEF OtherThread, MainProcessEnds, OwnerCrashes, startVars
  <2> QED BY <2>1, <2>2, <2>3, <2>4, <2>5, <2>6, <2>7
<1>3. Ordered(calls') /\ FoundAt' /\ DiskAt'
  BY <1>1 DEF LoadAt, FoundAt, DiskAt
<1> QED BY <1>1, <1>2, <1>3 DEF LoadAt, Stage

LEMMA LoadInductive == Spec => [](SessionAt /\ LoadAt)
<1>1. Init => SessionAt /\ LoadAt
  BY SessionInitial, LoadInitial
<1>2. SessionAt /\ LoadAt /\ [Next]_vars => (SessionAt /\ LoadAt)'
  <2> SUFFICES ASSUME SessionAt, LoadAt, [Next]_vars PROVE SessionAt' /\ LoadAt' OBVIOUS
  <2>1. CASE UNCHANGED vars
    BY <2>1 DEF vars, startVars, bundleVars, sessionVars, SessionAt, SecretAccounted,
                NoSecretYet, Verifying, Verified, LoadAt, FoundAt, DiskAt
  <2>2. CASE Next
    BY <2>2, SessionSteps, OtherSteps, LoadSteps, AfterLoad DEF Next
  <2> QED BY <2>1, <2>2
<1> QED BY <1>1, <1>2, PTL DEF Spec

(***************************************************************************)
(* Whatever is swapped on disk between two calls of load, and however often, *)
(* the locations it hands to launch are inside the resources directory of    *)
(* the bundle that was opened, the interpreter and the library inside its R. *)
(***************************************************************************)
THEOREM ResolvedInsideAlways == Spec => []ResolvedInside
<1>1. SessionAt /\ LoadAt => ResolvedInside
  <2> SUFFICES ASSUME LoadAt, calls = <<>> PROVE ResolvedInside
    BY DEF ResolvedInside
  <2>1. \A op : ~Occurs(calls, op)
    BY DEF Occurs
  <2>2. \A f \in ResolvedField : Contained(found, found[f])
    BY <2>1 DEF LoadAt, FoundAt
  <2>3. /\ found.resources.place = found.bundle.place
        /\ StartsWith(found.rscript, found.runtime) /\ StartsWith(found.library, found.runtime)
    BY <2>1 DEF LoadAt, FoundAt
  <2> QED BY <2>2, <2>3 DEF ResolvedInside, Contained
<1> QED BY <1>1, LoadInductive, PTL

(* The counters, and what a result and a step say about the session.           *)
CountAt ==
  /\ manifest \in Manifest
  /\ swaps \in 0 .. MaxSwaps
  /\ attempts \in 0 .. SessionAttempts
  /\ result = "ready" => session.dir = "verified"
  /\ stage \in {"token_write", "token_verify"} => session.files = {"token"}

LEMMA CountStep == SessionAt /\ CountAt /\ [Next]_vars => CountAt'
<1> SUFFICES ASSUME SessionAt, CountAt, [Next]_vars PROVE CountAt' OBVIOUS
<1> USE MaxSwapsAssumption, SessionAttemptsAssumption DEF CountAt
<1>1. CASE UNCHANGED vars
  BY <1>1 DEF vars, startVars, bundleVars, sessionVars
<1>2. CASE Swap
  BY <1>2 DEF Swap, sessionVars
<1>3. CASE Load
  <2>1. /\ UNCHANGED <<manifest, sessionVars>> /\ swaps' \in {swaps, 0}
        /\ stage' \in {"parent", "load", "returned"} /\ result' \in {result, "failed"}
    BY <1>3 DEF Load, ForgetChanges
  <2> QED BY <2>1 DEF sessionVars
<1>4. CASE ValidateParent \/ CurrentAccountSid \/ CreateSessionFails
  BY <1>4 DEF ValidateParent, CurrentAccountSid, CreateSessionFails, bundleVars, sessionVars
<1>5. CASE CreateRandomDirectory \/ NameCollision
  BY <1>5 DEF CreateRandomDirectory, NameCollision, bundleVars, SessionAt
<1>6. CASE VerifySession \/ CleanupPrelaunchError
  BY <1>6 DEF VerifySession, CleanupPrelaunchError, bundleVars, SessionAt
<1>7. CASE CreateTokenFile \/ WriteToken
  BY <1>7 DEF CreateTokenFile, WriteToken, Fails, bundleVars, SessionAt
<1>8. CASE BundledRInterpreter \/ ComposeEnvironment \/ BundledRCommand
  <2>1. /\ stage \in {"interpreter", "environment", "command"} /\ result' = result
        /\ stage' \in {"environment", "command", "launch", "cleanup"}
        /\ manifest' = manifest /\ swaps' \in {swaps, 0} /\ attempts' \in {attempts, 0}
    BY <1>8 DEF BundledRInterpreter, ComposeEnvironment, BundledRCommand, Fails, bundleVars,
                ForgetChanges
  <2>2. result # "ready"
    BY <2>1 DEF SessionAt
  <2> QED BY <2>1, <2>2
<1>9. CASE LaunchMain
  <2>1. /\ stage = "launch" /\ UNCHANGED <<bundleVars, sessionVars>>
        /\ stage' \in {"launch", "cleanup", "returned"}
    BY <1>9 DEF LaunchMain, BuildMain, CreateMain
  <2>2. session.dir = "verified"
    BY <2>1 DEF SessionAt, Verified
  <2> QED BY <2>1, <2>2 DEF bundleVars, sessionVars
<1>10. CASE OtherThread \/ MainProcessEnds
  BY <1>10 DEF OtherThread, MainProcessEnds, startVars, bundleVars, sessionVars
<1>11. CASE OwnerCrashes
  BY <1>11 DEF OwnerCrashes, ForgetChanges, sessionVars
<1> QED BY <1>1, <1>2, <1>3, <1>4, <1>5, <1>6, <1>7, <1>8, <1>9, <1>10, <1>11 DEF Next

(***************************************************************************)
(* Every variable of the startup has its type in every reachable state; the  *)
(* locations load has found are paths of the bundle, also where links led.    *)
(***************************************************************************)
THEOREM StartupTypes == Spec => []TypeOK
<1>1. Init => CountAt
  BY ManifestsAssumption, MaxSwapsAssumption, SessionAttemptsAssumption DEF Init, CountAt
<1>2. SessionAt /\ LoadAt /\ CountAt /\ JobTypeOK => TypeOK
  BY DEF SessionAt, LoadAt, FoundAt, DiskAt, CountAt, TypeOK
<1>3. Spec => []CountAt
  <2>1. Init /\ [](SessionAt /\ LoadAt) /\ [][Next]_vars => []CountAt
    BY <1>1, CountStep, PTL
  <2> QED BY <2>1, LoadInductive, PTL DEF Spec
<1> QED BY <1>2, <1>3, LoadInductive, StartupImplementsLaunch, JobTypes, PTL
-------------------------------------------------------------------------------
(* The command and the environment of the child.                              *)

BeforeCreate ==
  {"job", "stdout", "stdout_flag", "stderr", "stderr_flag", "stdin", "stdin_flag",
   "attributes", "build", "create"}

(* What ComposeEnvironment leaves behind, and what BuildMain does.            *)
Composed ==
  /\ ambient \in AmbientBlocks
  /\ \A i \in DOMAIN ambient : ValidName(ambient[i]) /\ ValidValue(ambient[i])
  /\ environment = BundledREnvironment(ambient)

Built ==
  /\ arguments \in ArgumentLists /\ ~CommandLineRefused(Program, arguments)
  /\ line = BuildCommandLine(Program, arguments)
  /\ block = EncodedBlock(environment)

(* Launch is the only caller of its strings: nothing changes them between the *)
(* steps that make them and the one that passes them on.                      *)
ChildAt ==
  /\ pc[Main] = "create" => stage = "launch" /\ Built
  /\ stage = "command" \/ (stage = "launch" /\ pc[Main] \in BeforeCreate) => Composed

LEMMA OnlyItsOwnStep ==
  ASSUME JobTypeOK, NEW l \in Launches, LaunchStep(l)
  PROVE  \E s : pc' = [pc EXCEPT ![l] = s] /\ (s \in BeforeCreate => pc[l] \in BeforeCreate)
<1>1. CASE \/ CreateKillOnCloseJob(l) \/ InheritablePipe(l, "stdout", "stdout_flag")
           \/ InheritablePipe(l, "stderr", "stderr_flag")
           \/ InheritablePipe(l, "stdin", "stdin_flag")
  BY <1>1 DEF CreateKillOnCloseJob, InheritablePipe, Go, BeforeCreate
<1>2. CASE \/ OutputPipe(l, "stdout", "stdout_flag", "stderr")
           \/ OutputPipe(l, "stderr", "stderr_flag", "stdin")
           \/ ClosedStdinPipe(l) \/ WithHandleList(l) \/ BuildStrings(l)
  BY <1>2 DEF OutputPipe, ClosedStdinPipe, WithHandleList, BuildStrings, Go, BeforeCreate
<1>3. CASE CreateProcess(l) \/ CloseChildEnds(l) \/ AssignProcess(l) \/ ProcessIdentity(l)
  BY <1>3 DEF CreateProcess, CloseChildEnds, AssignProcess, ProcessIdentity, Go, BeforeCreate
<1>4. CASE ProcessIsInJob(l) \/ ResumeThread(l)
  BY <1>4 DEF ProcessIsInJob, ResumeThread, Go, BeforeCreate
<1>5. CASE FailBeforeCreate(l) \/ FailAssign(l) \/ FailAssigned(l)
  BY <1>5 DEF FailBeforeCreate, FailAssign, FailAssigned, Go, BeforeCreate
<1> QED BY <1>1, <1>2, <1>3, <1>4, <1>5 DEF LaunchStep

LEMMA OthersLeaveMain ==
  ASSUME JobTypeOK, OtherThread
  PROVE  pc'[Main] = pc[Main] /\ UNCHANGED <<stage, commandVars>>
<1>1. PICK l \in Launches \ {Main} : LaunchStep(l) \/ ChildExits(l) \/ DropJobProcess(l)
  BY DEF OtherThread
<1>2. pc' = pc \/ \E s : pc' = [pc EXCEPT ![l] = s]
  <2>1. CASE LaunchStep(l)
    BY <2>1, OnlyItsOwnStep
  <2>2. CASE ChildExits(l) \/ DropJobProcess(l)
    BY <2>2 DEF ChildExits, DropJobProcess, Go
  <2> QED BY <1>1, <2>1, <2>2
<1>3. pc'[Main] = pc[Main]
  BY <1>2, MainAssumption DEF JobTypeOK
<1>4. UNCHANGED <<stage, commandVars>>
  BY DEF OtherThread, startVars
<1> QED BY <1>3, <1>4

(* The steps before and after the command is composed.                        *)
LEMMA CommandUntouched ==
  ASSUME ChildAt,
         \/ Swap \/ Load \/ ValidateParent \/ CurrentAccountSid \/ CreateRandomDirectory
         \/ NameCollision \/ CreateSessionFails \/ VerifySession \/ CreateTokenFile
         \/ WriteToken \/ BundledRInterpreter \/ CleanupPrelaunchError
  PROVE  ChildAt'
<1>1. pc' = pc
  BY DEF Swap, Load, ValidateParent, CurrentAccountSid, CreateRandomDirectory, NameCollision,
         CreateSessionFails, VerifySession, CreateTokenFile, WriteToken, BundledRInterpreter,
         CleanupPrelaunchError, jobVars
<1>2. stage \notin {"launch", "command"} /\ stage' \notin {"launch", "command"}
  <2>1. CASE Swap \/ Load
    BY <2>1 DEF Swap, Load
  <2>2. CASE ValidateParent \/ CurrentAccountSid \/ CreateRandomDirectory \/ NameCollision
             \/ CreateSessionFails
    BY <2>2 DEF ValidateParent, CurrentAccountSid, CreateRandomDirectory, NameCollision,
                CreateSessionFails
  <2>3. CASE VerifySession \/ CreateTokenFile \/ WriteToken
    BY <2>3 DEF VerifySession, CreateTokenFile, WriteToken, Fails
  <2>4. CASE BundledRInterpreter \/ CleanupPrelaunchError
    BY <2>4 DEF BundledRInterpreter, CleanupPrelaunchError, Fails
  <2> QED BY <2>1, <2>2, <2>3, <2>4
<1> QED BY <1>1, <1>2 DEF ChildAt

(* The environment, the command, and the launch itself.                       *)
LEMMA CommandComposed ==
  ASSUME JobTypeOK, ChildAt, ComposeEnvironment \/ BundledRCommand
  PROVE  ChildAt'
<1>1. CASE ComposeEnvironment
  <2>1. /\ pc' = pc /\ stage = "environment"
        /\ \/ stage' = "command" /\ Composed'
           \/ stage' = "cleanup"
    BY <1>1 DEF ComposeEnvironment, Composed, Fails, jobVars
  <2> QED BY <2>1 DEF ChildAt
<1>2. CASE BundledRCommand
  <2>1. /\ pc' = pc /\ stage = "command" /\ stage' \in {"launch", "cleanup"}
        /\ UNCHANGED commandVars
    BY <1>2 DEF BundledRCommand, Fails, jobVars
  <2>2. pc[Main] # "create" /\ Composed
    BY <2>1 DEF ChildAt
  <2>3. Composed'
    BY <2>1, <2>2 DEF Composed, commandVars
  <2> QED BY <2>1, <2>2, <2>3 DEF ChildAt
<1> QED BY <1>1, <1>2

LEMMA LaunchKeepsChild ==
  ASSUME JobTypeOK, ChildAt, LaunchMain
  PROVE  ChildAt'
<1>1. stage = "launch" /\ Main \in Launches /\ pc \in [Launches -> {pc[l] : l \in Launches}]
  BY MainAssumption DEF LaunchMain, JobTypeOK
<1>2. CASE BuildMain
  <2>1. pc[Main] = "build" /\ pc' = [pc EXCEPT ![Main] = "create"]
    BY <1>2 DEF BuildMain, BuildStrings, Go
  <2>2. pc'[Main] = "create" /\ stage' = "launch" /\ Composed
    BY <1>1, <1>2, <2>1 DEF BuildMain, ChildAt, BeforeCreate
  <2>3. Built'
    BY <1>2 DEF BuildMain, Built
  <2>4. Composed'
    BY <1>2, <2>2 DEF BuildMain, Composed
  <2> QED BY <2>2, <2>3, <2>4 DEF ChildAt
<1>3. CASE CreateMain
  <2>1. pc' = [pc EXCEPT ![Main] = "close"] /\ stage' = "launch"
    BY <1>1, <1>3 DEF CreateMain, CreateProcess, Go
  <2>2. pc'[Main] = "close"
    BY <1>1, <2>1
  <2> QED BY <2>1, <2>2 DEF ChildAt, BeforeCreate
<1>4. CASE /\ LaunchStep(Main) /\ pc'[Main] \notin {"create", "close"}
           /\ CASE pc'[Main] = "failed" -> stage' = "cleanup" /\ UNCHANGED result
                [] pc'[Main] = "done"   -> stage' = "returned" /\ result' = "ready"
                [] OTHER -> UNCHANGED <<stage, result>>
           /\ UNCHANGED commandVars
  <2>1. PICK s : pc' = [pc EXCEPT ![Main] = s] /\ (s \in BeforeCreate => pc[Main] \in BeforeCreate)
    BY <1>1, <1>4, OnlyItsOwnStep
  <2>2. pc'[Main] = s
    BY <1>1, <2>1
  <2>3. stage' # "command"
    BY <1>1, <1>4
  <2>4. pc'[Main] \in BeforeCreate => Composed
    BY <1>1, <2>1, <2>2 DEF ChildAt
  <2>5. Composed => Composed'
    BY <1>4 DEF Composed, commandVars
  <2> QED BY <1>4, <2>3, <2>4, <2>5 DEF ChildAt
<1> QED BY <1>2, <1>3, <1>4 DEF LaunchMain

LEMMA ChildStep == JobTypeOK /\ ChildAt /\ [Next]_vars => ChildAt'
<1> SUFFICES ASSUME JobTypeOK, ChildAt, [Next]_vars PROVE ChildAt' OBVIOUS
<1>1. CASE UNCHANGED vars
  BY <1>1 DEF vars, startVars, commandVars, jobVars, ChildAt, Composed, Built
<1>2. CASE OtherThread
  <2>1. pc'[Main] = pc[Main] /\ UNCHANGED <<stage, commandVars>>
    BY <1>2, OthersLeaveMain
  <2> QED BY <2>1 DEF ChildAt, Composed, Built, commandVars
<1>3. CASE MainProcessEnds
  <2>1. /\ pc' = pc \/ (pc[Main] = "done" /\ pc' = [pc EXCEPT ![Main] = "dropped"])
        /\ UNCHANGED <<stage, commandVars>>
    BY <1>3 DEF MainProcessEnds, ChildExits, DropJobProcess, Go, startVars
  <2>2. pc'[Main] = pc[Main] \/ pc'[Main] = "dropped"
    BY <2>1, MainAssumption DEF JobTypeOK
  <2> QED BY <2>1, <2>2 DEF ChildAt, Composed, Built, commandVars, BeforeCreate
<1>4. CASE OwnerCrashes
  <2>1. stage' = "gone" /\ pc'[Main] = "gone"
    BY <1>4, MainAssumption DEF OwnerCrashes, OwnerDies
  <2> QED BY <2>1 DEF ChildAt
<1> QED BY <1>1, <1>2, <1>3, <1>4, CommandUntouched, CommandComposed, LaunchKeepsChild DEF Next

(***************************************************************************)
(* Whatever the owner's environment holds, whatever characters the paths and *)
(* the arguments are made of, and whatever runs beside the startup: at the    *)
(* call of CreateProcessW the line is taken apart into the command as it was  *)
(* given, and the block read as the environment composed for the bundled R.   *)
(***************************************************************************)
THEOREM ChildSeesExactlyAlways == Spec => []ChildSeesExactly
<1>1. Init => ChildAt
  BY MainAssumption DEF Init, JobInit, ChildAt
<1>2. ChildAt => ChildSeesExactly
  <2> SUFFICES ASSUME ChildAt, pc[Main] = "create", stage = "launch"
               PROVE  /\ ParseCommandLine(line) = <<Program>> \o arguments
                      /\ BundledExactly(ReadBlock(block), ambient)
    BY DEF ChildSeesExactly
  <2>1. Composed /\ Built
    BY DEF ChildAt, BeforeCreate
  <2>2. /\ Program \in Seq(Char) /\ arguments \in Seq(Seq(Char)) /\ ambient \in Seq(AmbientEntries)
    BY <2>1, CommandAssumption, AmbientAssumption DEF Composed, Built
  <2>3. \A s \in {Program} \cup ToSet(arguments) : Nul \notin ToSet(s)
    BY <2>1 DEF Built, CommandLineRefused
  <2>4. ASSUME NEW s \in Seq(Char), Nul \notin ToSet(s) PROVE s \in Seq(Char \ {Nul})
    <3>1. DOMAIN s = 1..Len(s) /\ \A i \in 1..Len(s) : s[i] \in Char
      BY LenProperties, ElementOfSeq
    <3>2. \A i \in 1..Len(s) : s[i] \in Char \ {Nul}
      BY <2>4, <3>1 DEF ToSet
    <3> QED BY <3>2, Narrowed
  <2>5. Program \in Seq(Char \ {Nul})
    BY <2>2, <2>3, <2>4
  <2>6. arguments \in Seq(Seq(Char \ {Nul}))
    <3>1. DOMAIN arguments = 1..Len(arguments) /\ \A i \in 1..Len(arguments) : arguments[i] \in Seq(Char)
      BY <2>2, LenProperties, ElementOfSeq
    <3>2. \A i \in 1..Len(arguments) : arguments[i] \in ToSet(arguments)
      BY <3>1 DEF ToSet
    <3>3. \A i \in 1..Len(arguments) : arguments[i] \in Seq(Char \ {Nul})
      BY <2>3, <2>4, <3>1, <3>2
    <3> QED BY <2>2, <3>3, Narrowed
  <2>7. ParseCommandLine(line) = <<Program>> \o arguments
    BY <2>1, <2>5, <2>6, CommandLineReadBack, CommandAssumption DEF Built
  <2>8. environment \in Seq(Entries) /\ BundledExactly(environment, ambient)
    BY <2>1, <2>2, EnvironmentBundled DEF Composed
  <2>9. ReadBlock(block) = environment
    BY <2>1, <2>8, BlockReadBack DEF Built
  <2> QED BY <2>7, <2>8, <2>9
<1>3. Spec => []ChildAt
  <2>1. Init /\ []JobTypeOK /\ [][Next]_vars => []ChildAt
    BY <1>1, ChildStep, PTL
  <2> QED BY <2>1, StartupImplementsLaunch, JobTypes, PTL DEF Spec
<1> QED BY <1>2, <1>3, PTL
===============================================================================
