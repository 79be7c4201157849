------------------------ MODULE WindowsLauncherProofs ------------------------
(***************************************************************************)
(* Proofs about crates/windows-launcher: JobLaunch and ChildCommand.         *)
(*                                                                         *)
(* For any set of launches, the handle and process bookkeeping of launch    *)
(* keeps RunsOnlyOwned and EofWithTree at every step, every failure and     *)
(* every moment at which the owning process may die.                        *)
(*                                                                         *)
(* For every command and every environment, the child reads back what the   *)
(* launcher was given: the loops of the code are folds over a sequence, and  *)
(* what they compute follows by induction, stated with sets of sequences.    *)
(***************************************************************************)
EXTENDS JobLaunch, ChildCommand, TLAPS, WellFoundedInduction, SequenceTheorems

Assigned == {"identity", "membership", "resume", "done"}
Closed == {"assign"} \cup Assigned
Over == {"failed", "dropped", "gone"}

(* Who holds what at which stage.  A child gets the ends of its own pipes     *)
(* and nothing else, so no process but the owner ever holds a Job.            *)
HandlesAt ==
  \A l \in Launches :
    /\ pc[l] \notin Over \cup {"job"} => Job(l) \in owner
    /\ pc[l] \in Closed => owner \cap ChildEnds(l) = {}
    /\ pc[l] \in Over => owner \cap Own(l) = {}
    /\ listed[l] \subseteq ChildEnds(l)
    /\ child[l] \subseteq ChildEnds(l)

(* A process runs only after launch has returned, and is then in its Job.     *)
ProcessAt ==
  \A l \in Launches :
    /\ pc[l] \in Assigned => l \in member
    /\ proc[l] = "running" => pc[l] = "done"

JobInv == JobTypeOK /\ HandlesAt /\ ProcessAt

-------------------------------------------------------------------------------
(* Handles of different launches are different, and a Job is no pipe end.     *)
LEMMA HandlesDiffer ==
  ASSUME NEW l \in Launches
  PROVE  /\ Own(l) \subseteq Handle
         /\ Job(l) \in Own(l)
         /\ ChildEnds(l) \subseteq Own(l)
         /\ \A k \in Launches : Job(l) \notin ChildEnds(k)
         /\ \A k \in Launches \ {l} : Own(l) \cap Own(k) = {}
<1>1. Own(l) \subseteq Handle
  BY DEF Handle
<1>2. ChildEnds(l) \subseteq Own(l) /\ Job(l) \in Own(l)
  BY DEF ChildEnds, Own, PipeEnd, Pipe, Job
<1>3. \A k \in Launches : Job(l) \notin ChildEnds(k)
  BY DEF ChildEnds, PipeEnd, Job
<1>4. \A k \in Launches \ {l} : Own(l) \cap Own(k) = {}
  BY DEF Own, PipeEnd, Pipe, Job
<1> QED BY <1>1, <1>2, <1>3, <1>4

(* Every handle of launch l is one of Own(l): what the pipes add and remove.  *)
LEMMA EndsAreOwn ==
  ASSUME NEW l \in Launches, NEW p \in Pipe, NEW e \in {"read", "write"}
  PROVE  PipeEnd(l, p, e) \in Own(l) /\ PipeEnd(l, p, e) # Job(l)
BY DEF Own, PipeEnd, Pipe, Job

(* The kernel only ever ends processes, and ends a member of a Job that       *)
(* nobody has open.                                                           *)
LEMMA KillOnCloseEnds ==
  ASSUME JobInv, NEW handles, NEW states \in [Launches -> ProcessState]
  PROVE  /\ KillOnClose(handles, states) \in [Launches -> ProcessState]
         /\ \A l \in Launches : KillOnClose(handles, states)[l] \in {states[l], "dead"}
         /\ \A l \in Launches : l \in member /\ Job(l) \notin handles =>
                                  KillOnClose(handles, states)[l] = "dead"
<1>1. \A l, k \in Launches : Job(l) \notin child[k]
  BY HandlesDiffer DEF JobInv, HandlesAt
<1> QED BY <1>1 DEF KillOnClose, ProcessState

-------------------------------------------------------------------------------
LEMMA JobInitial == JobInit => JobInv
<1> SUFFICES ASSUME JobInit PROVE JobInv OBVIOUS
<1>1. JobTypeOK
  BY DEF JobInit, JobTypeOK, LaunchStage, ProcessState
<1>2. HandlesAt
  BY DEF JobInit, HandlesAt, Over, Closed, Assigned
<1>3. ProcessAt
  BY DEF JobInit, ProcessAt, Assigned
<1> QED BY <1>1, <1>2, <1>3 DEF JobInv

(* A call of launch that succeeds moves one launch to its next stage.  The    *)
(* stages of the others, and what they hold, stay.                            *)
LEMMA PipeStep ==
  ASSUME JobInv, NEW l \in Launches,
         \/ CreateKillOnCloseJob(l)
         \/ InheritablePipe(l, "stdout", "stdout_flag")
         \/ OutputPipe(l, "stdout", "stdout_flag", "stderr")
         \/ InheritablePipe(l, "stderr", "stderr_flag")
         \/ OutputPipe(l, "stderr", "stderr_flag", "stdin")
         \/ InheritablePipe(l, "stdin", "stdin_flag")
         \/ ClosedStdinPipe(l)
  PROVE  JobInv'
<1> DEFINE Before == {"job", "stdout", "stdout_flag", "stderr", "stderr_flag", "stdin",
                      "stdin_flag"}
           After == (Before \ {"job"}) \cup {"attributes"}
<1>1. PICK stage \in After :
        /\ pc[l] \in Before /\ pc' = [pc EXCEPT ![l] = stage]
        /\ UNCHANGED <<listed, child, proc, member>>
  BY DEF Go, CreateKillOnCloseJob, InheritablePipe, OutputPipe, ClosedStdinPipe
<1>2. /\ owner' \subseteq owner \cup Own(l) /\ owner \ Own(l) \subseteq owner'
      /\ Job(l) \in owner' /\ inheritable' \subseteq owner'
  <2> USE HandlesDiffer, EndsAreOwn DEF JobInv, JobTypeOK, HandlesAt, Pipe, Over
  <2>1. CASE CreateKillOnCloseJob(l)
    BY <2>1 DEF CreateKillOnCloseJob
  <2>2. CASE \/ InheritablePipe(l, "stdout", "stdout_flag")
             \/ InheritablePipe(l, "stderr", "stderr_flag")
             \/ InheritablePipe(l, "stdin", "stdin_flag")
    BY <2>2 DEF InheritablePipe
  <2>3. CASE \/ OutputPipe(l, "stdout", "stdout_flag", "stderr")
             \/ OutputPipe(l, "stderr", "stderr_flag", "stdin")
    BY <2>3 DEF OutputPipe
  <2>4. CASE ClosedStdinPipe(l)
    BY <2>4 DEF ClosedStdinPipe
  <2> QED BY <2>1, <2>2, <2>3, <2>4
<1>3. JobTypeOK'
  BY <1>1, <1>2, HandlesDiffer DEF JobInv, JobTypeOK, LaunchStage
<1>4. HandlesAt'
  BY <1>1, <1>2, HandlesDiffer DEF JobInv, JobTypeOK, HandlesAt, Over, Closed, Assigned
<1>5. ProcessAt'
  BY <1>1 DEF JobInv, JobTypeOK, ProcessAt, Assigned
<1> QED BY <1>3, <1>4, <1>5 DEF JobInv

(* From the handle list to the resumed thread.                                *)
LEMMA CreateStep ==
  ASSUME JobInv, NEW l \in Launches,
         \/ WithHandleList(l) \/ BuildStrings(l) \/ CreateProcess(l) \/ CloseChildEnds(l)
         \/ AssignProcess(l) \/ ProcessIdentity(l) \/ ProcessIsInJob(l) \/ ResumeThread(l)
  PROVE  JobInv'
<1> USE HandlesDiffer DEF JobInv, JobTypeOK, HandlesAt, ProcessAt, Over, Closed, Assigned, Go
<1>1. CASE WithHandleList(l)
  BY <1>1 DEF WithHandleList, LaunchStage
<1>2. CASE BuildStrings(l)
  BY <1>2 DEF BuildStrings, LaunchStage
<1>3. CASE CreateProcess(l)
  BY <1>3 DEF CreateProcess, LaunchStage, ProcessState
<1>4. CASE CloseChildEnds(l)
  BY <1>4 DEF CloseChildEnds, LaunchStage
<1>5. CASE AssignProcess(l)
  BY <1>5 DEF AssignProcess, LaunchStage
<1>6. CASE ProcessIdentity(l)
  BY <1>6 DEF ProcessIdentity, LaunchStage
<1>7. CASE ProcessIsInJob(l)
  BY <1>7 DEF ProcessIsInJob, LaunchStage
<1>8. CASE ResumeThread(l)
  BY <1>8 DEF ResumeThread, LaunchStage, ProcessState
<1> QED BY <1>1, <1>2, <1>3, <1>4, <1>5, <1>6, <1>7, <1>8

(* However a launch ends, the handles it made go, and with the last handle of *)
(* its Job a process that could run.                                          *)
LEMMA ReleaseStep ==
  ASSUME JobInv, NEW l \in Launches, NEW stage \in {"failed", "dropped"},
         NEW states \in [Launches -> ProcessState],
         Go(l, stage), Release(l, states), UNCHANGED <<child, member>>,
         \A k \in Launches \ {l} : states[k] = proc[k],
         states[l] = "running" => l \in member
  PROVE  JobInv'
<1>1. /\ owner' = owner \ Own(l) /\ inheritable' = inheritable \ Own(l)
      /\ listed' = [listed EXCEPT ![l] = {}] /\ pc' = [pc EXCEPT ![l] = stage]
      /\ proc' = KillOnClose(owner', states)
  BY DEF Release, Go
<1>2. /\ proc' \in [Launches -> ProcessState]
      /\ \A k \in Launches : proc'[k] \in {states[k], "dead"}
      /\ l \in member => proc'[l] = "dead"
  BY <1>1, KillOnCloseEnds, HandlesDiffer
<1>3. JobTypeOK'
  BY <1>1, <1>2 DEF JobInv, JobTypeOK
<1>4. HandlesAt'
  BY <1>1, HandlesDiffer DEF JobInv, JobTypeOK, HandlesAt, Over, Closed, Assigned
<1>5. ProcessAt'
  BY <1>1, <1>2 DEF JobInv, JobTypeOK, ProcessAt, Assigned
<1> QED BY <1>3, <1>4, <1>5 DEF JobInv

LEMMA FailStep ==
  ASSUME JobInv, NEW l \in Launches,
         FailBeforeCreate(l) \/ FailAssign(l) \/ FailAssigned(l) \/ DropJobProcess(l)
  PROVE  JobInv'
<1>1. CASE FailBeforeCreate(l)
  BY <1>1, ReleaseStep DEF FailBeforeCreate, JobInv, JobTypeOK, ProcessAt, LaunchStage
<1>2. CASE FailAssign(l)
  <2>1. PICK end \in {"dead", proc[l]} : Release(l, [proc EXCEPT ![l] = end])
    BY <1>2 DEF FailAssign
  <2>2. [proc EXCEPT ![l] = end] \in [Launches -> ProcessState]
    BY DEF JobInv, JobTypeOK, ProcessState
  <2> QED BY <1>2, <2>1, <2>2, ReleaseStep DEF FailAssign, JobInv, JobTypeOK, ProcessAt
<1>3. CASE FailAssigned(l)
  <2>1. PICK end \in {"dead", proc[l], "running"} : Release(l, [proc EXCEPT ![l] = end])
    BY <1>3 DEF FailAssigned
  <2>2. [proc EXCEPT ![l] = end] \in [Launches -> ProcessState]
    BY DEF JobInv, JobTypeOK, ProcessState
  <2>3. l \in member
    BY <1>3 DEF FailAssigned, JobInv, ProcessAt, Assigned
  <2> QED BY <1>3, <2>1, <2>2, <2>3, ReleaseStep DEF FailAssigned, JobInv, JobTypeOK
<1>4. CASE DropJobProcess(l)
  <2>1. l \in member
    BY <1>4 DEF DropJobProcess, JobInv, ProcessAt, Assigned
  <2> QED BY <1>4, <2>1, ReleaseStep DEF DropJobProcess, JobInv, JobTypeOK
<1> QED BY <1>1, <1>2, <1>3, <1>4

LEMMA ChildExitsStep ==
  ASSUME JobInv, NEW l \in Launches, ChildExits(l)
  PROVE  JobInv'
<1> DEFINE states == [proc EXCEPT ![l] = "dead"]
<1>1. states \in [Launches -> ProcessState]
  BY DEF JobInv, JobTypeOK, ProcessState
<1>2. /\ proc' = KillOnClose(owner, states)
      /\ UNCHANGED <<pc, owner, inheritable, listed, child, member>>
  BY DEF ChildExits
<1>3. /\ proc' \in [Launches -> ProcessState]
      /\ \A k \in Launches : proc'[k] \in {states[k], "dead"}
  BY <1>1, <1>2, KillOnCloseEnds
<1>4. \A k \in Launches : proc'[k] = "running" => proc[k] = "running"
  BY <1>3 DEF JobInv, JobTypeOK
<1> QED BY <1>2, <1>3, <1>4 DEF JobInv, JobTypeOK, HandlesAt, ProcessAt

(* The death of the owner at any point ends every process that runs.          *)
LEMMA OwnerDiesStep ==
  ASSUME JobInv, OwnerDies
  PROVE  JobInv'
<1>1. /\ pc' = [l \in Launches |-> "gone"] /\ owner' = {} /\ inheritable' = {}
      /\ listed' = [l \in Launches |-> {}] /\ proc' = KillOnClose({}, proc)
      /\ UNCHANGED <<child, member>>
  BY DEF OwnerDies
<1>2. proc \in [Launches -> ProcessState]
  BY DEF JobInv, JobTypeOK
<1>3. /\ proc' \in [Launches -> ProcessState]
      /\ \A l \in Launches : proc'[l] \in {proc[l], "dead"}
      /\ \A l \in Launches : l \in member => proc'[l] = "dead"
  BY <1>1, <1>2, KillOnCloseEnds
<1>4. \A l \in Launches : proc'[l] # "running"
  BY <1>3 DEF JobInv, ProcessAt, Assigned
<1>5. JobTypeOK'
  BY <1>1, <1>3 DEF JobInv, JobTypeOK
<1>6. HandlesAt'
  BY <1>1 DEF JobInv, HandlesAt, Over, Closed, Assigned
<1>7. ProcessAt'
  BY <1>1, <1>4 DEF ProcessAt, Assigned
<1> QED BY <1>5, <1>6, <1>7 DEF JobInv

LEMMA JobStep == JobInv /\ [JobNext]_jobVars => JobInv'
<1> SUFFICES ASSUME JobInv, [JobNext]_jobVars PROVE JobInv' OBVIOUS
<1>1. CASE UNCHANGED jobVars
  BY <1>1 DEF jobVars, JobInv, JobTypeOK, HandlesAt, ProcessAt
<1>2. ASSUME NEW l \in Launches, LaunchStep(l)
      PROVE  JobInv'
  BY <1>2, PipeStep, CreateStep, FailStep DEF LaunchStep
<1>3. ASSUME NEW l \in Launches, ChildExits(l) \/ DropJobProcess(l)
      PROVE  JobInv'
  BY <1>3, ChildExitsStep, FailStep
<1>4. CASE OwnerDies
  BY <1>4, OwnerDiesStep
<1> QED BY <1>1, <1>2, <1>3, <1>4 DEF JobNext

-------------------------------------------------------------------------------
(* The invariant, for every number of concurrent launches.                    *)
THEOREM JobInductive == JobSpec => []JobInv
<1> QED BY JobInitial, JobStep, PTL DEF JobSpec

(* Handles, stages and process states keep their types in launch.             *)
THEOREM JobTypes == JobSpec => []JobTypeOK
<1>1. JobInv => JobTypeOK
  BY DEF JobInv
<1> QED BY <1>1, JobInductive, PTL

(* A process that runs is in a Job that only its owner holds, whichever call  *)
(* of launch failed and whenever the owner died.                              *)
THEOREM RunsOnlyOwnedAlways == JobSpec => []RunsOnlyOwned
<1>1. JobInv => RunsOnlyOwned
  BY HandlesDiffer DEF JobInv, HandlesAt, ProcessAt, RunsOnlyOwned, Assigned, Over
<1> QED BY <1>1, JobInductive, PTL

(* After launch has returned nobody but the launched tree holds an end of its *)
(* pipes, however many launches ran at the same time.                         *)
THEOREM EofWithTreeAlways == JobSpec => []EofWithTree
<1>1. JobInv => EofWithTree
  <2> SUFFICES ASSUME JobInv PROVE EofWithTree OBVIOUS
  <2>1. \A l \in Launches, k \in Launches : k # l => child[k] \cap Own(l) = {}
    BY HandlesDiffer DEF JobInv, HandlesAt
  <2> QED BY <2>1 DEF JobInv, HandlesAt, EofWithTree, Closed, Assigned, Over
<1> QED BY <1>1, JobInductive, PTL

-------------------------------------------------------------------------------
(* Loops.                                                                    *)

(* Induction over the numbers, for a set: the least number outside it has a   *)
(* predecessor.                                                              *)
LEMMA SetOfNumbers ==
  ASSUME NEW S, 0 \in S, \A n \in Nat : n \in S => n + 1 \in S
  PROVE  Nat \subseteq S
<1> SUFFICES ASSUME NEW b \in Nat, b \notin S PROVE FALSE
  OBVIOUS
<1> DEFINE Out == {n \in Nat : n \notin S}
<1>1. Out # {} /\ Out \subseteq Nat
  OBVIOUS
<1>2. PICK x \in Out : \A y \in Out : ~ (<<y, x>> \in OpToRel(<, Nat))
  BY <1>1, NatLessThanWellFounded, WFMin
<1>3. x # 0 /\ x - 1 \in Nat /\ x \in Nat
  <2>1. x \in Nat /\ x \notin S
    OBVIOUS
  <2> QED BY <2>1
<1>4. x - 1 \in Out
  <2>1. x - 1 \in S => x \in S
    BY <1>3
  <2> QED BY <2>1, <1>2, <1>3
<1>5. <<x - 1, x>> \in OpToRel(<, Nat)
  BY <1>3, x - 1 < x DEF OpToRel
<1> QED BY <1>2, <1>4, <1>5

(* Induction over sequences, for a set.                                       *)
LEMMA SetOfSequences ==
  ASSUME NEW C, NEW T, <<>> \in T,
         \A s \in Seq(C) : \A c \in C : s \in T => Append(s, c) \in T
  PROVE  Seq(C) \subseteq T
<1> DEFINE S == {n \in Nat : \A s \in Seq(C) : Len(s) = n => s \in T}
<1>1. 0 \in S
  <2>1. ASSUME NEW s \in Seq(C), Len(s) = 0 PROVE s = <<>>
    BY <2>1, EmptySeq
  <2> QED BY <2>1
<1>2. ASSUME NEW n \in Nat, n \in S PROVE n + 1 \in S
  <2> SUFFICES ASSUME NEW s \in Seq(C), Len(s) = n + 1 PROVE s \in T
    OBVIOUS
  <2>1. s # <<>>
    BY EmptySeq
  <2>2. PICK t \in Seq(C), c \in C : s = Append(t, c)
    BY <2>1, SequenceEmptyOrAppend
  <2>3. Len(s) = Len(t) + 1 /\ Len(t) \in Nat
    BY <2>2, AppendProperties, LenProperties
  <2>4. Len(t) = n
    BY <2>3
  <2>5. t \in T
    BY <1>2, <2>4
  <2> QED BY <2>2, <2>5
<1> HIDE DEF S
<1>3. Nat \subseteq S
  BY <1>1, <1>2, SetOfNumbers
<1> QED BY <1>3, LenProperties DEF S

(* f holds what the loop has after each of its first m turns.                 *)
Turns(f, step, base, s, m) ==
  f = [n \in 0..m |-> IF n = 0 THEN base ELSE step[f[n - 1]][s[n]]]

LEMMA TurnsExist ==
  ASSUME NEW step, NEW base, NEW s, NEW m \in Nat
  PROVE  \E f : Turns(f, step, base, s, m)
<1> DEFINE T == {k \in Nat : \E f : Turns(f, step, base, s, k)}
<1>1. 0 \in T
  <2> DEFINE f == [n \in 0..0 |-> base]
  <2>1. Turns(f, step, base, s, 0)
    BY DEF Turns
  <2> QED BY <2>1
<1>2. ASSUME NEW k \in Nat, k \in T PROVE k + 1 \in T
  <2>1. PICK f : Turns(f, step, base, s, k)
    BY <1>2
  <2> DEFINE g == [n \in 0..(k + 1) |-> IF n = k + 1 THEN step[f[k]][s[k + 1]] ELSE f[n]]
  <2>2. ASSUME NEW n \in 0..(k + 1)
        PROVE  g[n] = IF n = 0 THEN base ELSE step[g[n - 1]][s[n]]
    <3>1. CASE n = k + 1
      BY <3>1
    <3>2. CASE n # k + 1
      <4>1. n \in 0..k /\ (n # 0 => n - 1 \in 0..k) /\ n - 1 # k
        BY <3>2
      <4>2. f[n] = IF n = 0 THEN base ELSE step[f[n - 1]][s[n]]
        BY <4>1, <2>1 DEF Turns
      <4> QED BY <4>1, <4>2, <3>2
    <3> QED BY <3>1, <3>2
  <2>3. Turns(g, step, base, s, k + 1)
    <3>1. g = [n \in 0..(k + 1) |-> g[n]]
      OBVIOUS
    <3> HIDE DEF g
    <3> QED BY <2>2, <3>1 DEF Turns
  <2> HIDE DEF g
  <2> QED BY <2>3
<1> HIDE DEF T
<1>3. m \in T
  BY <1>1, <1>2, SetOfNumbers
<1> QED BY <1>3 DEF T

LEMMA LoopTurns ==
  ASSUME NEW step, NEW base, NEW s, Len(s) \in Nat
  PROVE  \E f : Turns(f, step, base, s, Len(s)) /\ Loop(step, base, s) = f[Len(s)]
<1> DEFINE h == CHOOSE f : Turns(f, step, base, s, Len(s))
<1>1. Turns(h, step, base, s, Len(s))
  BY TurnsExist
<1>2. Loop(step, base, s) = h[Len(s)]
  BY Zenon DEF Loop, Turns
<1> QED BY <1>1, <1>2

LEMMA LoopEmpty ==
  ASSUME NEW step, NEW base
  PROVE  Loop(step, base, <<>>) = base
<1>1. Len(<<>>) = 0
  OBVIOUS
<1>2. PICK f : Turns(f, step, base, <<>>, 0) /\ Loop(step, base, <<>>) = f[0]
  BY <1>1, LoopTurns
<1> QED BY <1>2 DEF Turns

(* One more turn.                                                            *)
LEMMA LoopAppend ==
  ASSUME NEW step, NEW base, NEW C, NEW s \in Seq(C), NEW c \in C
  PROVE  Loop(step, base, Append(s, c)) = step[Loop(step, base, s)][c]
<1> DEFINE t == Append(s, c)
           m == Len(s)
<1>1. /\ m \in Nat /\ t \in Seq(C) /\ Len(t) = m + 1 /\ t[m + 1] = c
      /\ \A n \in 1..m : t[n] = s[n]
  BY AppendProperties, LenProperties
<1> HIDE DEF t, m
<1>2. PICK f : Turns(f, step, base, s, m) /\ Loop(step, base, s) = f[m]
  BY <1>1, LoopTurns DEF m
<1>3. PICK g : Turns(g, step, base, t, m + 1) /\ Loop(step, base, t) = g[m + 1]
  BY <1>1, LoopTurns
<1> DEFINE T == {n \in Nat : n <= m => f[n] = g[n]}
<1>4. 0 \in T
  <2>1. f[0] = base
    BY <1>1, <1>2 DEF Turns
  <2>2. g[0] = base
    BY <1>1, <1>3 DEF Turns
  <2> QED BY <2>1, <2>2
<1>5. ASSUME NEW n \in Nat, n \in T PROVE n + 1 \in T
  <2> SUFFICES ASSUME n + 1 <= m PROVE f[n + 1] = g[n + 1]
    OBVIOUS
  <2>1. n + 1 \in 0..m /\ n + 1 \in 1..m /\ n + 1 \in 0..(m + 1) /\ n + 1 # 0 /\ (n + 1) - 1 = n
    BY <1>1
  <2>2. f[n + 1] = step[f[n]][s[n + 1]]
    BY <1>2, <2>1 DEF Turns
  <2>3. g[n + 1] = step[g[n]][t[n + 1]]
    BY <1>3, <2>1 DEF Turns
  <2>4. f[n] = g[n] /\ t[n + 1] = s[n + 1]
    BY <1>1, <1>5, <2>1
  <2> QED BY <2>2, <2>3, <2>4
<1>6. f[m] = g[m]
  <2> HIDE DEF T
  <2>1. m \in T
    BY <1>1, <1>4, <1>5, SetOfNumbers
  <2> QED BY <1>1, <2>1 DEF T
<1>7. g[m + 1] = step[g[m]][t[m + 1]]
  BY <1>1, <1>3 DEF Turns
<1> QED BY <1>1, <1>2, <1>3, <1>6, <1>7 DEF t

LEMMA LoopOne ==
  ASSUME NEW step, NEW base, NEW c
  PROVE  Loop(step, base, <<c>>) = step[base][c]
<1> DEFINE C == {c}
<1>1. <<>> \in Seq(C) /\ Append(<<>>, c) = <<c>> /\ c \in C
  OBVIOUS
<1> HIDE DEF C
<1>2. \A s \in Seq(C) : Loop(step, base, Append(s, c)) = step[Loop(step, base, s)][c]
  BY <1>1, LoopAppend
<1>3. Loop(step, base, Append(<<>>, c)) = step[Loop(step, base, <<>>)][c]
  BY <1>1, <1>2
<1> QED BY <1>1, <1>3, LoopEmpty

LEMMA LoopTyped ==
  ASSUME NEW C, NEW P, NEW step, NEW base \in P, NEW s \in Seq(C),
         \A p \in P : \A c \in C : step[p][c] \in P
  PROVE  Loop(step, base, s) \in P
<1> DEFINE T == {t \in Seq(C) : Loop(step, base, t) \in P}
<1>1. <<>> \in T
  BY LoopEmpty
<1>2. ASSUME NEW t \in Seq(C), NEW c \in C, t \in T PROVE Append(t, c) \in T
  <2>1. Append(t, c) \in Seq(C)
    BY AppendProperties
  <2>2. Loop(step, base, Append(t, c)) = step[Loop(step, base, t)][c]
    BY LoopAppend
  <2> QED BY <1>2, <2>1, <2>2
<1> HIDE DEF T
<1>3. s \in T
  BY <1>1, <1>2, SetOfSequences
<1> QED BY <1>3 DEF T

LEMMA AppendToConcat ==
  ASSUME NEW C, NEW s \in Seq(C), NEW t \in Seq(C), NEW c \in C
  PROVE  s \o Append(t, c) = Append(s \o t, c)
<1>1. <<c>> \in Seq(C) /\ s \o t \in Seq(C)
  BY ConcatProperties
<1>2. Append(t, c) = t \o <<c>> /\ Append(s \o t, c) = (s \o t) \o <<c>>
  BY <1>1, AppendIsConcat
<1>3. (s \o t) \o <<c>> = s \o (t \o <<c>>)
  BY <1>1, ConcatAssociative
<1> QED BY <1>2, <1>3

LEMMA LoopConcat ==
  ASSUME NEW step, NEW base, NEW C, NEW s \in Seq(C), NEW t \in Seq(C)
  PROVE  Loop(step, base, s \o t) = Loop(step, Loop(step, base, s), t)
<1> DEFINE mid == Loop(step, base, s)
           T == {u \in Seq(C) : Loop(step, base, s \o u) = Loop(step, mid, u)}
<1>1. <<>> \in T
  BY LoopEmpty, ConcatEmptySeq, EmptySeq
<1>2. ASSUME NEW u \in Seq(C), NEW c \in C, u \in T PROVE Append(u, c) \in T
  <2>1. Append(u, c) \in Seq(C) /\ s \o u \in Seq(C)
    BY AppendProperties, ConcatProperties
  <2>2. s \o Append(u, c) = Append(s \o u, c)
    BY AppendToConcat
  <2>3. Loop(step, base, Append(s \o u, c)) = step[Loop(step, base, s \o u)][c]
    <3>1. \A v \in Seq(C) : Loop(step, base, Append(v, c)) = step[Loop(step, base, v)][c]
      BY LoopAppend
    <3> QED BY <2>1, <3>1
  <2>4. Loop(step, mid, Append(u, c)) = step[Loop(step, mid, u)][c]
    BY LoopAppend
  <2> HIDE DEF mid
  <2> QED BY <1>2, <2>1, <2>2, <2>3, <2>4
<1> HIDE DEF T, mid
<1>3. t \in T
  BY <1>1, <1>2, SetOfSequences
<1> QED BY <1>3 DEF T, mid

-------------------------------------------------------------------------------
(* The command line.                                                         *)

(* The characters of a string that build_command_line does not refuse.        *)
Visible == Char \ {Nul}

ParseStep == [p \in ParseState |-> [c \in Char |-> ParseChar(p, c)]]

Parsing(argv, cur, slashes, quoted, open) ==
  [argv |-> argv, cur |-> cur, slashes |-> slashes, quoted |-> quoted, open |-> open]

(* What the child has of the line once it has the program's name.             *)
Argv == Seq(Seq(Char)) \ {<<>>}

LEMMA RepeatedFacts ==
  ASSUME NEW n \in Nat
  PROVE  /\ Repeated("bs", n) \in Seq(Char)
         /\ Repeated("bs", n + 1) = Append(Repeated("bs", n), "bs")
         /\ Repeated("bs", 0) = <<>>
<1>1. \A m \in Nat : Repeated("bs", m) \in Seq({"bs"}) /\ Len(Repeated("bs", m)) = m
  BY DEF Repeated
<1>2. Repeated("bs", n) \in Seq(Char)
  BY <1>1, SeqMonotonic, {"bs"} \subseteq Char DEF Char
<1>3. Repeated("bs", 0) = <<>>
  BY <1>1, EmptySeq
<1>4. Repeated("bs", n + 1) = Append(Repeated("bs", n), "bs")
  <2> DEFINE r == Repeated("bs", n + 1)
             q == Append(Repeated("bs", n), "bs")
  <2>1. r \in Seq({"bs"}) /\ Len(r) = n + 1 /\ \A i \in 1..(n + 1) : r[i] = "bs"
    BY <1>1 DEF Repeated
  <2>2. q \in Seq({"bs"}) /\ Len(q) = n + 1
    BY <1>1, AppendProperties
  <2>3. \A i \in 1..(n + 1) : q[i] = "bs"
    BY <2>2, ElementOfSeq
  <2> HIDE DEF r, q
  <2>4. r = q
    BY <2>1, <2>2, <2>3, SeqEqual
  <2> QED BY <2>4 DEF r, q
<1> QED BY <1>2, <1>3, <1>4

LEMMA ParsingTyped ==
  ASSUME NEW A \in Seq(Seq(Char)), NEW u \in Seq(Char), NEW k \in Nat,
         NEW q \in BOOLEAN, NEW o \in BOOLEAN
  PROVE  Parsing(A, u, k, q, o) \in ParseState
BY DEF Parsing, ParseState

(* What the child makes of one character: a backslash is counted,             *)
LEMMA ParseSlash ==
  ASSUME NEW A \in Argv, NEW u \in Seq(Char), NEW k \in Nat,
         NEW q \in BOOLEAN, NEW o \in BOOLEAN, NEW c \in Char, c = "bs"
  PROVE  ParseStep[Parsing(A, u, k, q, o)][c] = Parsing(A, u, k + 1, q, TRUE)
<1> DEFINE p == Parsing(A, u, k, q, o)
<1>1. ParseStep[p][c] = ParseChar(p, c)
  BY ParsingTyped DEF ParseStep, Argv
<1>2. p = [argv |-> A, cur |-> u, slashes |-> k, quoted |-> q, open |-> o]
  BY DEF Parsing
<1> HIDE DEF p
<1>3. ParseChar(p, c) = [p EXCEPT !.slashes = p.slashes + 1, !.open = TRUE]
  BY <1>2 DEF ParseChar, ParseArgumentChar, Argv, Nul
<1>4. ParseChar(p, c) = Parsing(A, u, k + 1, q, TRUE)
  BY <1>2, <1>3 DEF Parsing
<1> QED BY <1>1, <1>4 DEF p

(* a quote after an odd number of them is one,                                *)
LEMMA ParseEscaped ==
  ASSUME NEW A \in Argv, NEW u \in Seq(Char), NEW k \in Nat,
         NEW q \in BOOLEAN, NEW o \in BOOLEAN, NEW c \in Char, c = "qt",
         k % 2 = 1
  PROVE  ParseStep[Parsing(A, u, k, q, o)][c]
           = Parsing(A, u \o Repeated("bs", k \div 2) \o <<c>>, 0, q, o)
<1> DEFINE p == Parsing(A, u, k, q, o)
<1>1. ParseStep[p][c] = ParseChar(p, c)
  BY ParsingTyped DEF ParseStep, Argv
<1>2. p = [argv |-> A, cur |-> u, slashes |-> k, quoted |-> q, open |-> o]
  BY DEF Parsing
<1> HIDE DEF p
<1>3. p.slashes = k /\ p.cur = u
  BY <1>2
<1>4. ParseChar(p, c) = [p EXCEPT !.cur = p.cur \o Repeated("bs", p.slashes \div 2) \o <<c>>,
                                  !.slashes = 0]
  BY <1>2, <1>3 DEF ParseChar, ParseArgumentChar, Argv, Nul
<1>5. ParseChar(p, c) = Parsing(A, u \o Repeated("bs", k \div 2) \o <<c>>, 0, q, o)
  BY <1>2, <1>3, <1>4 DEF Parsing
<1> QED BY <1>1, <1>5 DEF p

(* and after an even number opens or closes a quoted part;                    *)
LEMMA ParseDelimiter ==
  ASSUME NEW A \in Argv, NEW u \in Seq(Char), NEW k \in Nat,
         NEW q \in BOOLEAN, NEW o \in BOOLEAN, NEW c \in Char, c = "qt",
         k % 2 = 0
  PROVE  ParseStep[Parsing(A, u, k, q, o)][c]
           = Parsing(A, u \o Repeated("bs", k \div 2), 0, ~q, TRUE)
<1> DEFINE p == Parsing(A, u, k, q, o)
<1>1. ParseStep[p][c] = ParseChar(p, c)
  BY ParsingTyped DEF ParseStep, Argv
<1>2. p = [argv |-> A, cur |-> u, slashes |-> k, quoted |-> q, open |-> o]
  BY DEF Parsing
<1> HIDE DEF p
<1>3. p.slashes = k /\ p.cur = u /\ p.quoted = q
  BY <1>2
<1>4. ParseChar(p, c) = [p EXCEPT !.cur = p.cur \o Repeated("bs", p.slashes \div 2),
                                  !.slashes = 0, !.quoted = ~p.quoted, !.open = TRUE]
  BY <1>2, <1>3 DEF ParseChar, ParseArgumentChar, Argv, Nul
<1>5. ParseChar(p, c) = Parsing(A, u \o Repeated("bs", k \div 2), 0, ~q, TRUE)
  BY <1>2, <1>3, <1>4 DEF Parsing
<1> QED BY <1>1, <1>5 DEF p

(* a blank or the end outside quotes ends an argument;                        *)
LEMMA ParseEnd ==
  ASSUME NEW A \in Argv, NEW u \in Seq(Char), NEW k \in Nat,
         NEW c \in Char, c \in {"sp", Nul}
  PROVE  ParseStep[Parsing(A, u, k, FALSE, TRUE)][c]
           = Parsing(Append(A, u \o Repeated("bs", k)), <<>>, 0, FALSE, FALSE)
<1> DEFINE p == Parsing(A, u, k, FALSE, TRUE)
<1>1. ParseStep[p][c] = ParseChar(p, c)
  BY ParsingTyped, TRUE \in BOOLEAN, FALSE \in BOOLEAN DEF ParseStep, Argv
<1>2. p = [argv |-> A, cur |-> u, slashes |-> k, quoted |-> FALSE, open |-> TRUE]
  BY DEF Parsing
<1> HIDE DEF p
<1>3. ParseChar(p, c) = Parsing(Append(A, u \o Repeated("bs", k)), <<>>, 0, FALSE, FALSE)
  BY <1>2 DEF ParseChar, ParseArgumentChar, Parsing, Argv, Nul
<1> QED BY <1>1, <1>3 DEF p

(* and anything else is itself, after the backslashes before it.              *)
LEMMA ParsePlain ==
  ASSUME NEW A \in Argv, NEW u \in Seq(Char), NEW k \in Nat,
         NEW q \in BOOLEAN, NEW o \in BOOLEAN, NEW c \in Char,
         c = "a" \/ (c = "sp" /\ q)
  PROVE  ParseStep[Parsing(A, u, k, q, o)][c]
           = Parsing(A, Append(u \o Repeated("bs", k), c), 0, q, TRUE)
<1> DEFINE p == Parsing(A, u, k, q, o)
<1>1. ParseStep[p][c] = ParseChar(p, c)
  BY ParsingTyped DEF ParseStep, Argv
<1>2. p = [argv |-> A, cur |-> u, slashes |-> k, quoted |-> q, open |-> o]
  BY DEF Parsing
<1> HIDE DEF p
<1>3. ParseChar(p, c) = Parsing(A, Append(u \o Repeated("bs", k), c), 0, q, TRUE)
  BY <1>2 DEF ParseChar, ParseArgumentChar, Parsing, Argv, Nul
<1> QED BY <1>1, <1>3 DEF p

(* Loops over characters.                                                     *)
LEMMA ParseAppend ==
  ASSUME NEW p, NEW s \in Seq(Char), NEW c \in Char
  PROVE  Loop(ParseStep, p, Append(s, c)) = ParseStep[Loop(ParseStep, p, s)][c]
BY LoopAppend

LEMMA ParseConcat ==
  ASSUME NEW p, NEW s \in Seq(Char), NEW t \in Seq(Char)
  PROVE  Loop(ParseStep, p, s \o t) = Loop(ParseStep, Loop(ParseStep, p, s), t)
BY LoopConcat

(* A run of backslashes is counted.                                           *)
LEMMA ParseSlashes ==
  ASSUME NEW A \in Argv, NEW u \in Seq(Char), NEW k \in Nat, NEW q \in BOOLEAN,
         NEW m \in Nat
  PROVE  Loop(ParseStep, Parsing(A, u, k, q, TRUE), Repeated("bs", m))
           = Parsing(A, u, k + m, q, TRUE)
<1> DEFINE p == Parsing(A, u, k, q, TRUE)
           T == {n \in Nat : Loop(ParseStep, p, Repeated("bs", n)) = Parsing(A, u, k + n, q, TRUE)}
<1>1. 0 \in T
  <2>1. Repeated("bs", 0) = <<>>
    BY RepeatedFacts
  <2>2. k + 0 = k
    OBVIOUS
  <2> QED BY <2>1, <2>2, LoopEmpty
<1>2. ASSUME NEW n \in Nat, n \in T PROVE n + 1 \in T
  <2>1. Repeated("bs", n + 1) = Append(Repeated("bs", n), "bs") /\ Repeated("bs", n) \in Seq(Char)
    BY RepeatedFacts
  <2>2. PICK c \in Char : c = "bs"
    BY DEF Char
  <2> HIDE DEF p
  <2>3. Loop(ParseStep, p, Append(Repeated("bs", n), c))
          = ParseStep[Loop(ParseStep, p, Repeated("bs", n))][c]
    BY <2>1, ParseAppend
  <2>4. k + n \in Nat /\ (k + n) + 1 = k + (n + 1) /\ TRUE \in BOOLEAN
    OBVIOUS
  <2>5. ParseStep[Parsing(A, u, k + n, q, TRUE)][c] = Parsing(A, u, (k + n) + 1, q, TRUE)
    BY <2>2, <2>4, ParseSlash, Zenon
  <2>6. Loop(ParseStep, p, Repeated("bs", n)) = Parsing(A, u, k + n, q, TRUE)
    BY <1>2
  <2>7. Loop(ParseStep, p, Repeated("bs", n + 1)) = Parsing(A, u, k + (n + 1), q, TRUE)
    BY <2>1, <2>2, <2>3, <2>4, <2>5, <2>6, Zenon
  <2>8. n + 1 \in Nat
    OBVIOUS
  <2> QED BY <2>7, <2>8, Zenon
<1> HIDE DEF T
<1>3. m \in T
  BY <1>1, <1>2, SetOfNumbers
<1> QED BY <1>3 DEF T, p

InQuotes(A, u, k) == Parsing(A, u, k, TRUE, TRUE)

(* The child that has read out is inside quotes, and has u of an argument.    *)
Inside(base, out, A, u) ==
  /\ out \in Seq(Char) /\ A \in Argv /\ u \in Seq(Char)
  /\ Loop(ParseStep, base, out) = InQuotes(A, u, 0)

WithSlashes(out, m, c) == out \o Repeated("bs", m) \o <<c>>

(* There, a run of backslashes and one more character.                       *)
LEMMA ParseSlashesThen ==
  ASSUME NEW base, NEW out, NEW A, NEW u, Inside(base, out, A, u)
  PROVE  \A m \in Nat : \A c \in Char :
           /\ WithSlashes(out, m, c) \in Seq(Char)
           /\ Loop(ParseStep, base, WithSlashes(out, m, c))
                = ParseStep[InQuotes(A, u, m)][c]
<1> SUFFICES ASSUME NEW m \in Nat, NEW c \in Char
             PROVE  /\ WithSlashes(out, m, c) \in Seq(Char)
                    /\ Loop(ParseStep, base, WithSlashes(out, m, c))
                         = ParseStep[InQuotes(A, u, m)][c]
  OBVIOUS
<1>0. /\ out \in Seq(Char) /\ A \in Argv /\ u \in Seq(Char)
      /\ Loop(ParseStep, base, out) = InQuotes(A, u, 0)
  BY DEF Inside
<1> DEFINE r == Repeated("bs", m)
<1>1. r \in Seq(Char) /\ <<c>> \in Seq(Char)
  BY RepeatedFacts
<1>4. Loop(ParseStep, InQuotes(A, u, 0), r) = InQuotes(A, u, m)
  <2>1. Loop(ParseStep, InQuotes(A, u, 0), r) = InQuotes(A, u, 0 + m)
    BY <1>0, ParseSlashes, TRUE \in BOOLEAN, 0 \in Nat, Zenon DEF InQuotes
  <2> QED BY <2>1, 0 + m = m
<1> HIDE DEF r
<1>2. out \o r \in Seq(Char) /\ (out \o r) \o <<c>> \in Seq(Char)
  BY <1>0, <1>1, ConcatProperties
<1>3. Loop(ParseStep, base, out \o r) = Loop(ParseStep, Loop(ParseStep, base, out), r)
  BY <1>0, <1>1, ParseConcat
<1>5. Loop(ParseStep, base, (out \o r) \o <<c>>) = Loop(ParseStep, Loop(ParseStep, base, out \o r), <<c>>)
  BY <1>1, <1>2, ParseConcat
<1>6. \A x : Loop(ParseStep, x, <<c>>) = ParseStep[x][c]
  BY LoopOne
<1> QED BY <1>0, <1>2, <1>3, <1>4, <1>5, <1>6 DEF r, WithSlashes

QuoteStep == [q \in QuoteState |-> [c \in Char |-> QuoteChar(q, c)]]

QuoteStart == [out |-> <<"qt">>, slashes |-> 0]

(* The state before an argument, after those in A.                            *)
Between(A) == Parsing(A, <<>>, 0, FALSE, FALSE)

(* While quote_windows_argument runs, the child that reads what it has        *)
(* written is inside the quotes with all of the argument but the backslashes  *)
(* that are held back.                                                        *)
QuotedSoFar(A, acc, s) ==
  /\ acc \in QuoteState
  /\ \E u \in Seq(Char) :
       /\ u \o Repeated("bs", acc.slashes) = s
       /\ Loop(ParseStep, Between(A), acc.out) = InQuotes(A, u, 0)

LEMMA QuoteOpens ==
  ASSUME NEW A \in Argv
  PROVE  QuotedSoFar(A, QuoteStart, <<>>)
<1>1. "qt" \in Char /\ <<"qt">> \in Seq(Char) /\ <<>> \in Seq(Char) /\ FALSE \in BOOLEAN
  BY DEF Char
<1>2. QuoteStart \in QuoteState /\ QuoteStart.out = <<"qt">> /\ QuoteStart.slashes = 0
  BY <1>1 DEF QuoteStart, QuoteState
<1>3. Repeated("bs", 0) = <<>> /\ <<>> \o <<>> = <<>>
  BY RepeatedFacts, ConcatEmptySeq, <1>1
<1>4. 0 % 2 = 0 /\ 0 \div 2 = 0
  OBVIOUS
<1>5. ParseStep[Between(A)]["qt"] = Parsing(A, <<>> \o Repeated("bs", 0 \div 2), 0, ~FALSE, TRUE)
  BY <1>1, <1>4, ParseDelimiter, 0 \in Nat, Zenon DEF Between
<1>6. ParseStep[Between(A)]["qt"] = InQuotes(A, <<>>, 0)
  BY <1>3, <1>4, <1>5 DEF InQuotes
<1>7. Loop(ParseStep, Between(A), <<"qt">>) = ParseStep[Between(A)]["qt"]
  BY LoopOne
<1> QED BY <1>1, <1>2, <1>3, <1>6, <1>7 DEF QuotedSoFar

LEMMA QuotedIs ==
  ASSUME NEW A, NEW out \in Seq(Char), NEW k \in Nat, NEW u \in Seq(Char),
         Loop(ParseStep, Between(A), out) = InQuotes(A, u, 0)
  PROVE  QuotedSoFar(A, [out |-> out, slashes |-> k], u \o Repeated("bs", k))
<1> DEFINE acc == [out |-> out, slashes |-> k]
<1>1. acc \in QuoteState /\ acc.out = out /\ acc.slashes = k
  BY DEF QuoteState
<1> HIDE DEF acc
<1>2. QuotedSoFar(A, acc, u \o Repeated("bs", k))
  BY <1>1 DEF QuotedSoFar
<1> QED BY <1>2 DEF acc

LEMMA QuotedAll ==
  ASSUME NEW A, NEW out \in Seq(Char), NEW s \in Seq(Char),
         Loop(ParseStep, Between(A), out) = InQuotes(A, s, 0)
  PROVE  QuotedSoFar(A, [out |-> out, slashes |-> 0], s)
<1>1. s \o Repeated("bs", 0) = s /\ 0 \in Nat
  BY RepeatedFacts, ConcatEmptySeq, 0 \in Nat
<1>2. QuotedSoFar(A, [out |-> out, slashes |-> 0], s \o Repeated("bs", 0))
  BY <1>1, QuotedIs
<1> QED BY <1>1, <1>2

LEMMA OddSlashes ==
  ASSUME NEW k \in Nat
  PROVE  /\ 2 * k + 1 \in Nat /\ (2 * k + 1) % 2 = 1 /\ (2 * k + 1) \div 2 = k
         /\ 2 * k \in Nat /\ (2 * k) % 2 = 0 /\ (2 * k) \div 2 = k
OBVIOUS

LEMMA QuoteOne ==
  ASSUME NEW A \in Argv, NEW acc, NEW s \in Seq(Char), NEW c \in Visible,
         QuotedSoFar(A, acc, s)
  PROVE  QuotedSoFar(A, QuoteStep[acc][c], Append(s, c))
<1>1. PICK u \in Seq(Char) :
        /\ u \o Repeated("bs", acc.slashes) = s
        /\ Loop(ParseStep, Between(A), acc.out) = InQuotes(A, u, 0)
  BY DEF QuotedSoFar
<1>2. PICK out \in Seq(Char), k \in Nat : acc = [out |-> out, slashes |-> k]
  BY DEF QuotedSoFar, QuoteState
<1>3. /\ u \o Repeated("bs", k) = s
      /\ Loop(ParseStep, Between(A), out) = InQuotes(A, u, 0)
  BY <1>1, <1>2
<1>31. \A m \in Nat : \A d \in Char :
         /\ WithSlashes(out, m, d) \in Seq(Char)
         /\ Loop(ParseStep, Between(A), WithSlashes(out, m, d))
              = ParseStep[InQuotes(A, u, m)][d]
  <2>1. Inside(Between(A), out, A, u)
    BY <1>3 DEF Inside
  <2> QED BY <2>1, ParseSlashesThen
<1>4. c \in Char /\ (c = "bs" \/ c = "qt" \/ c = "a" \/ c = "sp")
  BY DEF Visible, Char, Nul
<1>41. c \in Char
  BY <1>4
<1>5. QuoteStep[acc][c] = QuoteChar(acc, c)
  BY <1>2, <1>4 DEF QuoteStep, QuoteState
<1>6. Append(s, c) \in Seq(Char) /\ Append(s, c) = s \o <<c>>
  BY <1>4, AppendProperties, AppendIsConcat
<1>7. CASE c = "bs"
  <2>1. QuoteChar(acc, c) = [out |-> out, slashes |-> k + 1]
    BY <1>2, <1>7 DEF QuoteChar, WithSlashes
  <2>2. Repeated("bs", k) \in Seq(Char) /\ Repeated("bs", k + 1) = Append(Repeated("bs", k), c)
    BY <1>7, RepeatedFacts
  <2>3. u \o Append(Repeated("bs", k), c) = Append(u \o Repeated("bs", k), c)
    BY <1>4, <2>2, AppendToConcat
  <2>4. u \o Repeated("bs", k + 1) = Append(s, c)
    BY <1>3, <2>2, <2>3
  <2>5. QuotedSoFar(A, [out |-> out, slashes |-> k + 1], u \o Repeated("bs", k + 1))
    BY <1>3, QuotedIs, k + 1 \in Nat
  <2> QED BY <1>5, <2>1, <2>4, <2>5
<1>8. CASE c = "qt"
  <2>1. PICK m \in Nat : m = 2 * k + 1 /\ m % 2 = 1 /\ m \div 2 = k
    BY OddSlashes
  <2>2. QuoteChar(acc, c) = [out |-> WithSlashes(out, m, c), slashes |-> 0]
    BY <1>2, <1>8, <2>1 DEF QuoteChar, WithSlashes
  <2>3. PICK new \in Seq(Char) :
          /\ new = WithSlashes(out, m, c)
          /\ Loop(ParseStep, Between(A), new) = ParseStep[InQuotes(A, u, m)][c]
    BY <1>31, <1>41
  <2>4. ParseStep[InQuotes(A, u, m)][c]
          = InQuotes(A, u \o Repeated("bs", m \div 2) \o <<c>>, 0)
    <3>1. m % 2 = 1
      BY <2>1
    <3> QED BY <1>4, <1>8, <3>1, ParseEscaped, TRUE \in BOOLEAN, Zenon DEF InQuotes
  <2>5. u \o Repeated("bs", m \div 2) \o <<c>> = Append(s, c)
    BY <1>3, <1>6, <2>1
  <2>6. QuotedSoFar(A, [out |-> new, slashes |-> 0], Append(s, c))
    BY <1>6, <2>3, <2>4, <2>5, QuotedAll
  <2> QED BY <1>5, <2>2, <2>3, <2>6
<1>9. CASE c = "a" \/ c = "sp"
  <2>2. QuoteChar(acc, c) = [out |-> WithSlashes(out, k, c), slashes |-> 0]
    BY <1>2, <1>9 DEF QuoteChar, WithSlashes
  <2>3. PICK new \in Seq(Char) :
          /\ new = WithSlashes(out, k, c)
          /\ Loop(ParseStep, Between(A), new) = ParseStep[InQuotes(A, u, k)][c]
    BY <1>31, <1>41
  <2>4. ParseStep[InQuotes(A, u, k)][c]
          = InQuotes(A, Append(u \o Repeated("bs", k), c), 0)
    BY <1>4, <1>9, ParsePlain, TRUE \in BOOLEAN, Zenon DEF InQuotes
  <2>5. QuotedSoFar(A, [out |-> new, slashes |-> 0], Append(s, c))
    BY <1>3, <1>6, <2>3, <2>4, QuotedAll
  <2> QED BY <1>5, <2>2, <2>3, <2>5
<1> QED BY <1>4, <1>7, <1>8, <1>9

LEMMA QuoteLoop ==
  ASSUME NEW A \in Argv, NEW s \in Seq(Visible)
  PROVE  QuotedSoFar(A, Loop(QuoteStep, QuoteStart, s), s)
<1> DEFINE T == {t \in Seq(Visible) : QuotedSoFar(A, Loop(QuoteStep, QuoteStart, t), t)}
<1>1. <<>> \in T
  BY LoopEmpty, QuoteOpens
<1>2. ASSUME NEW t \in Seq(Visible), NEW c \in Visible, t \in T PROVE Append(t, c) \in T
  <2>1. Append(t, c) \in Seq(Visible)
    BY AppendProperties
  <2>2. Loop(QuoteStep, QuoteStart, Append(t, c)) = QuoteStep[Loop(QuoteStep, QuoteStart, t)][c]
    BY LoopAppend
  <2>3. t \in Seq(Char)
    BY SeqMonotonic, Visible \subseteq Char DEF Visible
  <2>4. QuotedSoFar(A, QuoteStep[Loop(QuoteStep, QuoteStart, t)][c], Append(t, c))
    BY <1>2, <2>3, QuoteOne
  <2> QED BY <2>1, <2>2, <2>4
<1> HIDE DEF T
<1>3. s \in T
  BY <1>1, <1>2, SetOfSequences
<1> QED BY <1>3 DEF T
(* The child has read the whole of s, and waits for the end of the argument.  *)
AfterText(A, u, k) == Parsing(A, u, k, FALSE, TRUE)

HasRead(A, s, p) ==
  \E u \in Seq(Char) : \E k \in Nat : u \o Repeated("bs", k) = s /\ p = AfterText(A, u, k)

LEMMA QuotedClosing ==
  ASSUME NEW A \in Argv, NEW u \in Seq(Char), NEW k \in Nat, NEW c \in Char, c = "qt"
  PROVE  ParseStep[InQuotes(A, u, 2 * k)][c] = AfterText(A, u \o Repeated("bs", k), 0)
<1>1. PICK m \in Nat : m = 2 * k /\ m % 2 = 0 /\ m \div 2 = k
  BY OddSlashes
<1>2. m % 2 = 0
  BY <1>1
<1>3. ParseStep[InQuotes(A, u, m)][c] = Parsing(A, u \o Repeated("bs", m \div 2), 0, ~TRUE, TRUE)
  BY <1>2, ParseDelimiter, TRUE \in BOOLEAN, Zenon DEF InQuotes
<1>4. Parsing(A, u \o Repeated("bs", m \div 2), 0, ~TRUE, TRUE)
        = AfterText(A, u \o Repeated("bs", m \div 2), 0)
  BY (~TRUE) = FALSE DEF AfterText
<1>5. ParseStep[InQuotes(A, u, m)][c] = AfterText(A, u \o Repeated("bs", m \div 2), 0)
  BY <1>3, <1>4
<1> QED BY <1>1, <1>5

LEMMA HasReadAll ==
  ASSUME NEW A, NEW s \in Seq(Char)
  PROVE  HasRead(A, s, AfterText(A, s, 0))
<1>1. s \o Repeated("bs", 0) = s /\ 0 \in Nat
  BY RepeatedFacts, ConcatEmptySeq, 0 \in Nat
<1> QED BY <1>1 DEF HasRead

(* A quoted argument, with its closing quote.                                 *)
LEMMA QuotedArgument ==
  ASSUME NEW A \in Argv, NEW s \in Seq(Visible), NEW acc,
         acc = Loop(QuoteStep, QuoteStart, s)
  PROVE  /\ acc.out \o Repeated("bs", 2 * acc.slashes) \o <<"qt">> \in Seq(Char)
         /\ HasRead(A, s, Loop(ParseStep, Between(A),
                               acc.out \o Repeated("bs", 2 * acc.slashes) \o <<"qt">>))
<1>1. QuotedSoFar(A, acc, s)
  BY QuoteLoop
<1>2. PICK u \in Seq(Char) :
        /\ u \o Repeated("bs", acc.slashes) = s
        /\ Loop(ParseStep, Between(A), acc.out) = InQuotes(A, u, 0)
  BY <1>1 DEF QuotedSoFar
<1>3. PICK out \in Seq(Char), k \in Nat : acc.out = out /\ acc.slashes = k
  BY <1>1 DEF QuotedSoFar, QuoteState
<1>4. u \o Repeated("bs", k) = s /\ Inside(Between(A), out, A, u)
  BY <1>2, <1>3 DEF Inside
<1>5. PICK c \in Char : c = "qt"
  BY DEF Char
<1>6. 2 * k \in Nat
  BY OddSlashes
<1>7. /\ WithSlashes(out, 2 * k, c) \in Seq(Char)
      /\ Loop(ParseStep, Between(A), WithSlashes(out, 2 * k, c))
           = ParseStep[InQuotes(A, u, 2 * k)][c]
  <2>1. PICK m \in Nat : m = 2 * k
    BY <1>6
  <2>2. Inside(Between(A), out, A, u)
    BY <1>4
  <2>3. /\ WithSlashes(out, m, c) \in Seq(Char)
        /\ Loop(ParseStep, Between(A), WithSlashes(out, m, c)) = ParseStep[InQuotes(A, u, m)][c]
    BY <2>2, ParseSlashesThen
  <2> QED BY <2>1, <2>3
<1>8. ParseStep[InQuotes(A, u, 2 * k)][c] = AfterText(A, u \o Repeated("bs", k), 0)
  BY <1>5, QuotedClosing
<1>9. s \in Seq(Char)
  BY SeqMonotonic, Visible \subseteq Char DEF Visible
<1>10. HasRead(A, s, AfterText(A, s, 0))
  BY <1>9, HasReadAll
<1>11. WithSlashes(out, 2 * k, c) = acc.out \o Repeated("bs", 2 * acc.slashes) \o <<"qt">>
  BY <1>3, <1>5 DEF WithSlashes
<1>12. HasRead(A, s, Loop(ParseStep, Between(A), WithSlashes(out, 2 * k, c)))
  BY <1>4, <1>7, <1>8, <1>10
<1> QED BY <1>7, <1>11, <1>12

(* One character outside quotes.                                              *)
LEMMA UnquotedOne ==
  ASSUME NEW A \in Argv, NEW u \in Seq(Char), NEW k \in Nat, NEW o \in BOOLEAN,
         NEW c \in Char, c = "a" \/ c = "bs"
  PROVE  HasRead(A, Append(u \o Repeated("bs", k), c), ParseStep[Parsing(A, u, k, FALSE, o)][c])
<1> DEFINE r == Repeated("bs", k)
           s == u \o r
           p == Parsing(A, u, k, FALSE, o)
<1>1. r \in Seq(Char) /\ Repeated("bs", k + 1) = Append(r, "bs")
  BY RepeatedFacts
<1> HIDE DEF r
<1>2. s \in Seq(Char)
  BY <1>1, ConcatProperties
<1>3. CASE c = "bs"
  <2>1. ParseStep[p][c] = AfterText(A, u, k + 1)
    BY <1>3, ParseSlash, FALSE \in BOOLEAN, Zenon DEF AfterText
  <2>2. u \o Append(r, c) = Append(s, c)
    BY <1>1, AppendToConcat
  <2> HIDE DEF p, s
  <2>5. Repeated("bs", k + 1) = Append(r, c) /\ k + 1 \in Nat
    BY <1>1, <1>3
  <2>3. u \o Repeated("bs", k + 1) = Append(s, c)
    BY <2>2, <2>5, Zenon
  <2>4. HasRead(A, Append(s, c), ParseStep[p][c])
    BY <2>1, <2>3, <2>5 DEF HasRead
  <2> QED BY <2>4 DEF p, s, r
<1>4. CASE c = "a"
  <2>1. ParseStep[p][c] = AfterText(A, Append(s, c), 0)
    BY <1>4, ParsePlain, FALSE \in BOOLEAN, Zenon DEF AfterText, r
  <2>2. Append(s, c) \in Seq(Char)
    BY <1>2, AppendProperties
  <2> HIDE DEF p, s
  <2>3. HasRead(A, Append(s, c), ParseStep[p][c])
    BY <2>1, <2>2, HasReadAll
  <2> QED BY <2>3 DEF p, s, r
<1> QED BY <1>3, <1>4

(* An argument that quote_windows_argument passes on as it is.                *)
LEMMA UnquotedArgument ==
  ASSUME NEW A \in Argv, NEW s \in Seq({"a", "bs"}), s # <<>>
  PROVE  HasRead(A, s, Loop(ParseStep, Between(A), s))
<1> DEFINE C == {"a", "bs"}
           P(t) == Loop(ParseStep, Between(A), t)
           T == {t \in Seq(C) : t # <<>> => HasRead(A, t, P(t))}
<1>1. <<>> \in T
  OBVIOUS
<1>2. ASSUME NEW t \in Seq(C), NEW c \in C, t \in T PROVE Append(t, c) \in T
  <2>1. Append(t, c) \in Seq(C)
    BY AppendProperties
  <2>2. c \in Char /\ (c = "a" \/ c = "bs") /\ t \in Seq(Char)
    BY SeqMonotonic, C \subseteq Char DEF Char
  <2>3. P(Append(t, c)) = ParseStep[P(t)][c]
    BY <2>2, ParseAppend
  <2>4. CASE t = <<>>
    <3>1. P(t) = Between(A) /\ <<>> \in Seq(Char)
      BY <2>4, LoopEmpty
    <3>2. HasRead(A, Append(<<>> \o Repeated("bs", 0), c),
                  ParseStep[Parsing(A, <<>>, 0, FALSE, FALSE)][c])
      BY <2>2, <3>1, UnquotedOne, FALSE \in BOOLEAN, 0 \in Nat, Zenon
    <3>3. <<>> \o Repeated("bs", 0) = t
      BY <2>4, <3>1, RepeatedFacts, ConcatEmptySeq
    <3>4. HasRead(A, Append(t, c), ParseStep[P(t)][c])
      BY <3>1, <3>2, <3>3 DEF Between
    <3> QED BY <2>1, <2>3, <3>4
  <2>5. CASE t # <<>>
    <3>1. HasRead(A, t, P(t))
      BY <1>2, <2>5
    <3>2. PICK u \in Seq(Char), k \in Nat : u \o Repeated("bs", k) = t /\ P(t) = AfterText(A, u, k)
      BY <3>1 DEF HasRead
    <3>3. HasRead(A, Append(u \o Repeated("bs", k), c), ParseStep[Parsing(A, u, k, FALSE, TRUE)][c])
      BY <2>2, UnquotedOne, TRUE \in BOOLEAN, Zenon
    <3>4. HasRead(A, Append(t, c), ParseStep[P(t)][c])
      BY <3>2, <3>3 DEF AfterText
    <3> QED BY <2>1, <2>3, <3>4
  <2> QED BY <2>4, <2>5
<1> HIDE DEF T
<1>3. s \in T
  BY <1>1, <1>2, SetOfSequences
<1> QED BY <1>3 DEF T
(* One argument, quoted or not, and what ends it.                             *)
LEMMA ArgumentRead ==
  ASSUME NEW A \in Argv, NEW s \in Seq(Visible)
  PROVE  /\ QuoteWindowsArgument(s) \in Seq(Char)
         /\ HasRead(A, s, Loop(ParseStep, Between(A), QuoteWindowsArgument(s)))
<1>1. CASE s # <<>> /\ ToSet(s) \cap {"sp", "qt"} = {}
  <2>1. QuoteWindowsArgument(s) = s
    BY <1>1 DEF QuoteWindowsArgument
  <2>2. s \in Seq({"a", "bs"})
    <3>1. Len(s) \in Nat /\ \A i \in 1..Len(s) : s[i] \in Visible /\ s[i] \in ToSet(s)
      BY LenProperties, ElementOfSeq DEF ToSet
    <3>2. \A i \in 1..Len(s) : s[i] \in {"a", "bs"}
      BY <1>1, <3>1 DEF Visible, Char
    <3>3. s \in [1..Len(s) -> {"a", "bs"}]
      BY <3>1, <3>2, LenProperties
    <3> QED BY <3>1, <3>3, SeqDef
  <2>3. s \in Seq(Char)
    BY SeqMonotonic, Visible \subseteq Char DEF Visible
  <2>4. HasRead(A, s, Loop(ParseStep, Between(A), s))
    BY <1>1, <2>2, UnquotedArgument
  <2> QED BY <2>1, <2>3, <2>4
<1>2. CASE ~(s # <<>> /\ ToSet(s) \cap {"sp", "qt"} = {})
  <2>1. PICK acc : acc = Loop(QuoteStep, QuoteStart, s)
    OBVIOUS
  <2>2. QuoteWindowsArgument(s) = acc.out \o Repeated("bs", 2 * acc.slashes) \o <<"qt">>
    BY <1>2, <2>1 DEF QuoteWindowsArgument, QuoteStep, QuoteStart
  <2>3. /\ acc.out \o Repeated("bs", 2 * acc.slashes) \o <<"qt">> \in Seq(Char)
        /\ HasRead(A, s, Loop(ParseStep, Between(A),
                              acc.out \o Repeated("bs", 2 * acc.slashes) \o <<"qt">>))
    BY <2>1, QuotedArgument
  <2> QED BY <2>2, <2>3
<1> QED BY <1>1, <1>2

LEMMA ArgumentEnds ==
  ASSUME NEW A \in Argv, NEW s \in Seq(Visible), NEW c \in {"sp", Nul}
  PROVE  /\ Append(QuoteWindowsArgument(s), c) \in Seq(Char)
         /\ Loop(ParseStep, Between(A), Append(QuoteWindowsArgument(s), c)) = Between(Append(A, s))
<1>1. PICK w \in Seq(Char) :
        w = QuoteWindowsArgument(s) /\ HasRead(A, s, Loop(ParseStep, Between(A), w))
  BY ArgumentRead
<1>2. PICK u \in Seq(Char), k \in Nat :
        u \o Repeated("bs", k) = s /\ Loop(ParseStep, Between(A), w) = AfterText(A, u, k)
  BY <1>1 DEF HasRead
<1>3. c \in Char
  BY DEF Char
<1>4. ParseStep[AfterText(A, u, k)][c] = Between(Append(A, u \o Repeated("bs", k)))
  BY <1>3, ParseEnd DEF AfterText, Between
<1>5. Loop(ParseStep, Between(A), Append(w, c)) = ParseStep[Loop(ParseStep, Between(A), w)][c]
  BY <1>3, ParseAppend
<1>6. Append(w, c) \in Seq(Char)
  BY <1>3, AppendProperties
<1> QED BY <1>1, <1>2, <1>4, <1>5, <1>6

(***************************************************************************)
(* The program's name, the path of a file: the child has u of it.            *)
(***************************************************************************)
InProgram(u, q) == Parsing(<<>>, u, 0, q, FALSE)

LEMMA ProgramTyped ==
  ASSUME NEW u \in Seq(Char), NEW q \in BOOLEAN
  PROVE  InProgram(u, q) \in ParseState
<1>1. <<>> \in Seq(Seq(Char)) /\ FALSE \in BOOLEAN /\ 0 \in Nat
  OBVIOUS
<1> QED BY <1>1, ParsingTyped, Zenon DEF InProgram

(* A quote opens or closes,                                                   *)
LEMMA ProgramQuote ==
  ASSUME NEW u \in Seq(Char), NEW q \in BOOLEAN, NEW c \in Char, c = "qt"
  PROVE  ParseStep[InProgram(u, q)][c] = InProgram(u, ~q)
<1> DEFINE p == InProgram(u, q)
<1>1. ParseStep[p][c] = ParseChar(p, c)
  BY ProgramTyped DEF ParseStep
<1>2. p = [argv |-> <<>>, cur |-> u, slashes |-> 0, quoted |-> q, open |-> FALSE]
  BY DEF InProgram, Parsing
<1> HIDE DEF p
<1>3. ParseChar(p, c) = [p EXCEPT !.quoted = ~p.quoted]
  BY <1>2 DEF ParseChar, ParseProgramChar, Nul
<1>4. ParseChar(p, c) = InProgram(u, ~q)
  BY <1>2, <1>3 DEF InProgram, Parsing
<1> QED BY <1>1, <1>4 DEF p

(* a blank outside quotes, or the end, ends it,                               *)
LEMMA ProgramEnd ==
  ASSUME NEW u \in Seq(Char), NEW c \in Char, c \in {"sp", Nul}
  PROVE  ParseStep[InProgram(u, FALSE)][c] = Between(<<u>>)
<1> DEFINE p == InProgram(u, FALSE)
<1>1. ParseStep[p][c] = ParseChar(p, c)
  BY ProgramTyped, FALSE \in BOOLEAN DEF ParseStep
<1>2. p = [argv |-> <<>>, cur |-> u, slashes |-> 0, quoted |-> FALSE, open |-> FALSE]
  BY DEF InProgram, Parsing
<1> HIDE DEF p
<1>3. ParseChar(p, c) = Between(<<u>>)
  BY <1>2 DEF ParseChar, ParseProgramChar, Between, Parsing, Nul
<1> QED BY <1>1, <1>3 DEF p

(* and anything else is itself.                                               *)
LEMMA ProgramPlain ==
  ASSUME NEW u \in Seq(Char), NEW q \in BOOLEAN, NEW c \in Char,
         c = "a" \/ c = "bs" \/ (c = "sp" /\ q)
  PROVE  ParseStep[InProgram(u, q)][c] = InProgram(Append(u, c), q)
<1> DEFINE p == InProgram(u, q)
<1>1. ParseStep[p][c] = ParseChar(p, c)
  BY ProgramTyped DEF ParseStep
<1>2. p = [argv |-> <<>>, cur |-> u, slashes |-> 0, quoted |-> q, open |-> FALSE]
  BY DEF InProgram, Parsing
<1> HIDE DEF p
<1>3. ParseChar(p, c) = InProgram(Append(u, c), q)
  BY <1>2 DEF ParseChar, ParseProgramChar, InProgram, Parsing, Nul
<1> QED BY <1>1, <1>3 DEF p

LEMMA ProgramText ==
  ASSUME NEW C, NEW s \in Seq(C), NEW q \in BOOLEAN,
         \A c \in C : c \in Char /\ (c = "a" \/ c = "bs" \/ (c = "sp" /\ q))
  PROVE  Loop(ParseStep, InProgram(<<>>, q), s) = InProgram(s, q)
<1> DEFINE B == InProgram(<<>>, q)
           T == {t \in Seq(C) : Loop(ParseStep, B, t) = InProgram(t, q)}
<1>1. <<>> \in T
  BY LoopEmpty
<1>2. ASSUME NEW t \in Seq(C), NEW c \in C, t \in T PROVE Append(t, c) \in T
  <2>1. Append(t, c) \in Seq(C)
    BY AppendProperties
  <2>2. c \in Char /\ (c = "a" \/ c = "bs" \/ (c = "sp" /\ q))
    OBVIOUS
  <2>3. t \in Seq(Char)
    BY SeqMonotonic, C \subseteq Char
  <2>4. Loop(ParseStep, B, Append(t, c)) = ParseStep[Loop(ParseStep, B, t)][c]
    BY <2>2, <2>3, ParseAppend
  <2>5. ParseStep[InProgram(t, q)][c] = InProgram(Append(t, c), q)
    BY <2>2, <2>3, ProgramPlain
  <2> QED BY <1>2, <2>1, <2>4, <2>5
<1> HIDE DEF T
<1>3. s \in T
  BY <1>1, <1>2, SetOfSequences
<1> QED BY <1>3 DEF T

(* quote_windows_argument adds nothing but the quotes to a path.               *)
Quoting(acc, s) ==
  /\ acc \in QuoteState
  /\ acc.out \o Repeated("bs", acc.slashes) = <<"qt">> \o s
  /\ (s = <<>> \/ s[Len(s)] # "bs") => acc.slashes = 0

PathChar == {"a", "bs", "sp"}

LEMMA QuotingStep ==
  ASSUME NEW s \in Seq(Char), NEW acc, Quoting(acc, s), NEW c \in PathChar
  PROVE  Quoting(QuoteStep[acc][c], Append(s, c))
<1>1. PICK out \in Seq(Char), k \in Nat : acc = [out |-> out, slashes |-> k]
  BY DEF Quoting, QuoteState
<1>2. out \o Repeated("bs", k) = <<"qt">> \o s
  BY <1>1 DEF Quoting
<1>3. c \in Char /\ c # "qt" /\ (c = "bs" \/ c = "a" \/ c = "sp")
  BY DEF PathChar, Char
<1>4. QuoteStep[acc][c] = QuoteChar(acc, c)
  BY <1>1, <1>3 DEF QuoteStep, QuoteState
<1>5. /\ Append(s, c) # <<>> /\ Append(s, c)[Len(Append(s, c))] = c
      /\ <<"qt">> \in Seq(Char) /\ Repeated("bs", k) \in Seq(Char)
  <2>1. Append(s, c) # <<>> /\ Append(s, c)[Len(Append(s, c))] = c
    BY <1>3, AppendProperties
  <2>2. <<"qt">> \in Seq(Char)
    BY DEF Char
  <2>3. Repeated("bs", k) \in Seq(Char)
    BY RepeatedFacts
  <2> QED BY <2>1, <2>2, <2>3
<1>6. <<"qt">> \o Append(s, c) = Append(<<"qt">> \o s, c)
  BY <1>3, <1>5, AppendToConcat
<1>7. CASE c = "bs"
  <2>1. QuoteChar(acc, c) = [out |-> out, slashes |-> k + 1]
    BY <1>1, <1>7 DEF QuoteChar
  <2>2. Repeated("bs", k + 1) = Append(Repeated("bs", k), c)
    BY <1>7, RepeatedFacts
  <2>3. out \o Append(Repeated("bs", k), c) = Append(out \o Repeated("bs", k), c)
    BY <1>3, <1>5, AppendToConcat
  <2>4. out \o Repeated("bs", k + 1) = <<"qt">> \o Append(s, c)
    BY <1>2, <1>6, <2>2, <2>3, Zenon
  <2>8. k + 1 \in Nat
    OBVIOUS
  <2>5. PICK new \in QuoteState : new = [out |-> out, slashes |-> k + 1]
    BY <2>8, Zenon DEF QuoteState
  <2>6. new.out = out /\ new.slashes = k + 1
    BY <2>5
  <2>7. Quoting(new, Append(s, c))
    BY <1>5, <1>7, <2>4, <2>6 DEF Quoting
  <2> QED BY <1>4, <2>1, <2>5, <2>7
<1>8. CASE c # "bs"
  <2>1. QuoteChar(acc, c) = [out |-> out \o Repeated("bs", k) \o <<c>>, slashes |-> 0]
    BY <1>1, <1>3, <1>8 DEF QuoteChar
  <2>2. PICK line \in Seq(Char) : line = out \o Repeated("bs", k) \o <<c>>
    <3>1. <<c>> \in Seq(Char) /\ out \o Repeated("bs", k) \in Seq(Char)
      BY <1>3, <1>5, ConcatProperties
    <3>2. (out \o Repeated("bs", k)) \o <<c>> \in Seq(Char)
      BY <3>1, ConcatProperties
    <3> QED BY <3>2
  <2>3. line = Append(<<"qt">> \o s, c)
    <3>1. <<"qt">> \o s \in Seq(Char)
      BY <1>5, ConcatProperties
    <3> QED BY <1>2, <1>3, <2>2, <3>1, AppendIsConcat
  <2>4. PICK new \in QuoteState : new = [out |-> line, slashes |-> 0]
    BY DEF QuoteState
  <2>5. new.out = line /\ new.slashes = 0 /\ line \o Repeated("bs", 0) = line
    BY <2>4, RepeatedFacts, ConcatEmptySeq
  <2>6. Quoting(new, Append(s, c))
    BY <1>6, <2>3, <2>5 DEF Quoting
  <2> QED BY <1>4, <2>1, <2>2, <2>4, <2>6
<1> QED BY <1>7, <1>8

LEMMA QuotedPath ==
  ASSUME NEW s \in Seq(PathChar), s # <<>> => s[Len(s)] # "bs", NEW acc,
         acc = Loop(QuoteStep, QuoteStart, s)
  PROVE  acc.out \o Repeated("bs", 2 * acc.slashes) \o <<"qt">> = (<<"qt">> \o s) \o <<"qt">>
<1> DEFINE T == {t \in Seq(PathChar) : Quoting(Loop(QuoteStep, QuoteStart, t), t)}
<1>0. Repeated("bs", 0) = <<>> /\ <<"qt">> \in Seq(Char)
  BY RepeatedFacts DEF Char
<1>1. <<>> \in T
  <2>1. Loop(QuoteStep, QuoteStart, <<>>) = QuoteStart
    BY LoopEmpty
  <2>2. QuoteStart \in QuoteState /\ QuoteStart.out = <<"qt">> /\ QuoteStart.slashes = 0
    BY <1>0 DEF QuoteStart, QuoteState
  <2>3. Quoting(QuoteStart, <<>>)
    BY <1>0, <2>2 DEF Quoting
  <2> QED BY <2>1, <2>3
<1>2. ASSUME NEW t \in Seq(PathChar), NEW c \in PathChar, t \in T PROVE Append(t, c) \in T
  <2>1. Append(t, c) \in Seq(PathChar)
    BY AppendProperties
  <2>2. Loop(QuoteStep, QuoteStart, Append(t, c)) = QuoteStep[Loop(QuoteStep, QuoteStart, t)][c]
    BY LoopAppend
  <2>3. t \in Seq(Char)
    BY SeqMonotonic, PathChar \subseteq Char DEF PathChar, Char
  <2>4. Quoting(QuoteStep[Loop(QuoteStep, QuoteStart, t)][c], Append(t, c))
    BY <1>2, <2>3, QuotingStep
  <2> QED BY <2>1, <2>2, <2>4
<1> HIDE DEF T
<1>3. s \in T
  BY <1>1, <1>2, SetOfSequences
<1>4. Quoting(acc, s)
  BY <1>3 DEF T
<1>5. acc.slashes = 0 /\ acc.out \in Seq(Char) /\ acc.out \o Repeated("bs", 0) = <<"qt">> \o s
  BY <1>4 DEF Quoting, QuoteState
<1>6. 2 * 0 = 0
  OBVIOUS
<1> QED BY <1>5, <1>6

LEMMA ProgramRead ==
  ASSUME NEW s \in Seq(Visible), FilePath(s)
  PROVE  /\ QuoteWindowsArgument(s) \in Seq(Char)
         /\ Loop(ParseStep, Between(<<>>), QuoteWindowsArgument(s)) = InProgram(s, FALSE)
<1>1. Len(s) \in Nat /\ \A i \in 1..Len(s) : s[i] \in Visible /\ s[i] \in ToSet(s)
  BY LenProperties, ElementOfSeq DEF ToSet
<1>2. \A i \in 1..Len(s) : s[i] \in PathChar
  BY <1>1 DEF Visible, Char, PathChar, FilePath
<1>3. s \in Seq(PathChar) /\ s \in Seq(Char)
  <2>1. s \in [1..Len(s) -> PathChar]
    BY <1>1, <1>2, LenProperties
  <2>2. s \in Seq(PathChar)
    BY <1>1, <2>1, SeqDef
  <2> QED BY <2>2, SeqMonotonic, Visible \subseteq Char DEF Visible
<1>4. Between(<<>>) = InProgram(<<>>, FALSE)
  BY DEF Between, InProgram
<1>5. CASE s # <<>> /\ ToSet(s) \cap {"sp", "qt"} = {}
  <2>1. QuoteWindowsArgument(s) = s
    BY <1>5 DEF QuoteWindowsArgument
  <2>2. PICK C : C = {"a", "bs"}
    OBVIOUS
  <2>3. \A i \in 1..Len(s) : s[i] \in C
    BY <1>1, <1>2, <1>5, <2>2 DEF PathChar
  <2>4. s \in Seq(C)
    <3>1. s \in [1..Len(s) -> C]
      BY <1>1, <2>3, LenProperties
    <3> QED BY <1>1, <3>1, SeqDef
  <2>5. \A c \in C : c \in Char /\ (c = "a" \/ c = "bs" \/ (c = "sp" /\ FALSE))
    BY <2>2 DEF Char
  <2>6. Loop(ParseStep, InProgram(<<>>, FALSE), s) = InProgram(s, FALSE)
    BY <2>4, <2>5, ProgramText, FALSE \in BOOLEAN, Zenon
  <2> QED BY <1>3, <1>4, <2>1, <2>6
<1>6. CASE ~(s # <<>> /\ ToSet(s) \cap {"sp", "qt"} = {})
  <2>1. PICK q : q = "qt" /\ q \in Char
    BY DEF Char
  <2>2. PICK acc : acc = Loop(QuoteStep, QuoteStart, s)
    OBVIOUS
  <2>3. QuoteWindowsArgument(s) = acc.out \o Repeated("bs", 2 * acc.slashes) \o <<"qt">>
    BY <1>6, <2>2 DEF QuoteWindowsArgument, QuoteStep, QuoteStart
  <2>4. QuoteWindowsArgument(s) = (<<q>> \o s) \o <<q>>
    BY <1>3, <2>1, <2>2, <2>3, QuotedPath DEF FilePath
  <2>5. <<q>> \in Seq(Char) /\ <<q>> \o s \in Seq(Char) /\ (<<q>> \o s) \o <<q>> \in Seq(Char)
    BY <1>3, <2>1, ConcatProperties
  <2>6. \A p : Loop(ParseStep, p, <<q>>) = ParseStep[p][q]
    BY <2>1, LoopOne
  <2>7. Loop(ParseStep, InProgram(<<>>, FALSE), <<q>>) = InProgram(<<>>, TRUE)
    <3>1. <<>> \in Seq(Char) /\ (~FALSE) = TRUE
      OBVIOUS
    <3>2. ParseStep[InProgram(<<>>, FALSE)][q] = InProgram(<<>>, ~FALSE)
      BY <2>1, <3>1, ProgramQuote, FALSE \in BOOLEAN, Zenon
    <3> QED BY <2>6, <3>1, <3>2, Zenon
  <2>8. Loop(ParseStep, InProgram(<<>>, TRUE), s) = InProgram(s, TRUE)
    <3>1. \A c \in PathChar : c \in Char /\ (c = "a" \/ c = "bs" \/ (c = "sp" /\ TRUE))
      BY DEF PathChar, Char
    <3> QED BY <1>3, <3>1, ProgramText, TRUE \in BOOLEAN, Zenon
  <2>9. Loop(ParseStep, InProgram(s, TRUE), <<q>>) = InProgram(s, FALSE)
    <3>1. (~TRUE) = FALSE
      OBVIOUS
    <3>2. ParseStep[InProgram(s, TRUE)][q] = InProgram(s, ~TRUE)
      BY <1>3, <2>1, ProgramQuote, TRUE \in BOOLEAN, Zenon
    <3> QED BY <2>6, <3>1, <3>2, Zenon
  <2>10. \A p : Loop(ParseStep, p, (<<q>> \o s) \o <<q>>)
                 = Loop(ParseStep, Loop(ParseStep, Loop(ParseStep, p, <<q>>), s), <<q>>)
    <3> TAKE p
    <3>1. Loop(ParseStep, p, (<<q>> \o s) \o <<q>>)
            = Loop(ParseStep, Loop(ParseStep, p, <<q>> \o s), <<q>>)
      BY <2>5, ParseConcat, Zenon
    <3>2. Loop(ParseStep, p, <<q>> \o s) = Loop(ParseStep, Loop(ParseStep, p, <<q>>), s)
      BY <1>3, <2>5, ParseConcat, Zenon
    <3> QED BY <3>1, <3>2, Zenon
  <2> QED BY <1>4, <2>4, <2>5, <2>7, <2>8, <2>9, <2>10, Zenon
<1> QED BY <1>5, <1>6

LineStep ==
  [line \in Seq(Char) |-> [s \in Seq(Char) |-> line \o <<"sp">> \o QuoteWindowsArgument(s)]]

(* The line without its NUL, and what the child has of it at the next blank    *)
(* or at the end.                                                             *)
LineRead(program, args, line) ==
  /\ line \in Seq(Char)
  /\ \A c \in {"sp", Nul} :
       Loop(ParseStep, Between(<<>>), Append(line, c)) = Between(<<program>> \o args)

LEMMA LineStarts ==
  ASSUME NEW program \in Seq(Visible), FilePath(program)
  PROVE  LineRead(program, <<>>, QuoteWindowsArgument(program))
<1>1. program \in Seq(Char)
  BY SeqMonotonic, Visible \subseteq Char DEF Visible
<1>2. <<program>> = <<program>> \o <<>>
  <2>1. <<program>> \in Seq({program})
    OBVIOUS
  <2> QED BY <2>1, ConcatEmptySeq
<1>3. PICK w \in Seq(Char) :
        /\ w = QuoteWindowsArgument(program)
        /\ Loop(ParseStep, Between(<<>>), w) = InProgram(program, FALSE)
  BY ProgramRead
<1>4. ASSUME NEW c \in {"sp", Nul}
      PROVE  Loop(ParseStep, Between(<<>>), Append(w, c)) = Between(<<program>>)
  <2>1. c \in Char
    BY DEF Char
  <2>2. Loop(ParseStep, Between(<<>>), Append(w, c)) = ParseStep[Loop(ParseStep, Between(<<>>), w)][c]
    BY <2>1, ParseAppend
  <2>3. ParseStep[InProgram(program, FALSE)][c] = Between(<<program>>)
    BY <1>1, <2>1, ProgramEnd
  <2> QED BY <1>3, <2>2, <2>3
<1> QED BY <1>2, <1>3, <1>4 DEF LineRead

LEMMA LineOne ==
  ASSUME NEW program \in Seq(Visible), NEW args \in Seq(Seq(Visible)), NEW s \in Seq(Visible),
         NEW line, LineRead(program, args, line)
  PROVE  LineRead(program, Append(args, s), LineStep[line][s])
<1> DEFINE w == QuoteWindowsArgument(s)
           A == <<program>> \o args
           B == Between(<<>>)
<1>1. line \in Seq(Char) /\ \A c \in {"sp", Nul} : Loop(ParseStep, B, Append(line, c)) = Between(A)
  BY DEF LineRead
<1>2. /\ s \in Seq(Char) /\ program \in Seq(Char) /\ args \in Seq(Seq(Char))
      /\ <<program>> \in Seq(Seq(Char)) /\ <<program>> \in Seq(Seq(Visible))
  <2>1. Seq(Visible) \subseteq Seq(Char)
    BY SeqMonotonic, Visible \subseteq Char DEF Visible
  <2> QED BY <2>1, SeqMonotonic
<1>3. A \in Seq(Seq(Char)) /\ <<program>> \o Append(args, s) = Append(A, s)
  BY <1>2, ConcatProperties, AppendToConcat
<1>11. A \in Argv
  <2>1. Len(A) = 1 + Len(args) /\ Len(args) \in Nat
    BY <1>2, ConcatProperties, LenProperties
  <2> QED BY <1>3, <2>1, EmptySeq DEF Argv
<1> HIDE DEF A
<1>4. w \in Seq(Char)
  BY <1>11, ArgumentRead
<1>5. PICK b \in Char : b = "sp" /\ b \in {"sp", Nul}
  BY DEF Char
<1>6. LineStep[line][s] = (line \o <<b>>) \o w
  BY <1>1, <1>2, <1>5 DEF LineStep
<1> HIDE DEF w, B
<1>7. Append(line, b) \in Seq(Char) /\ Append(line, b) = line \o <<b>>
  BY <1>1, AppendProperties, AppendIsConcat
<1>8. PICK pre \in Seq(Char) : pre = Append(line, b) /\ LineStep[line][s] = pre \o w
  BY <1>6, <1>7
<1>9. pre \o w \in Seq(Char)
  BY <1>4, ConcatProperties
<1>10. ASSUME NEW c \in {"sp", Nul}
       PROVE  Loop(ParseStep, B, Append(pre \o w, c)) = Between(Append(A, s))
  <2>1. c \in Char
    BY DEF Char
  <2>2. Append(pre \o w, c) = pre \o Append(w, c)
    <3>1. \A x, y \in Seq(Char) : \A d \in Char : x \o Append(y, d) = Append(x \o y, d)
      BY AppendToConcat
    <3> QED BY <1>4, <2>1, <3>1, Zenon
  <2>6. Append(w, c) \in Seq(Char)
    BY <1>4, <2>1, AppendProperties
  <2>3. Loop(ParseStep, B, pre \o Append(w, c)) = Loop(ParseStep, Loop(ParseStep, B, pre), Append(w, c))
    BY <2>6, ParseConcat
  <2>4. Loop(ParseStep, B, pre) = Between(A)
    BY <1>1, <1>5, <1>8
  <2>5. Loop(ParseStep, Between(A), Append(w, c)) = Between(Append(A, s))
    BY <1>11, ArgumentEnds DEF w
  <2> QED BY <2>2, <2>3, <2>4, <2>5
<1> QED BY <1>3, <1>8, <1>9, <1>10 DEF LineRead, B

(***************************************************************************)
(* Whatever quotes, blanks and backslashes are in the arguments, and         *)
(* wherever, and whatever path the program has: the C runtime of the child    *)
(* takes the line that build_command_line puts together apart into exactly    *)
(* those strings.                                                             *)
(***************************************************************************)
THEOREM CommandLineReadBack ==
  ASSUME NEW program \in Seq(Char \ {Nul}), FilePath(program),
         NEW arguments \in Seq(Seq(Char \ {Nul}))
  PROVE  ParseCommandLine(BuildCommandLine(program, arguments)) = <<program>> \o arguments
<1> DEFINE start == QuoteWindowsArgument(program)
           T == {args \in Seq(Seq(Visible)) : LineRead(program, args, Loop(LineStep, start, args))}
<1>0. program \in Seq(Visible) /\ arguments \in Seq(Seq(Visible))
  BY DEF Visible
<1>1. <<>> \in T
  BY <1>0, LoopEmpty, LineStarts
<1>2. ASSUME NEW args \in Seq(Seq(Visible)), NEW s \in Seq(Visible), args \in T
      PROVE  Append(args, s) \in T
  <2>1. Append(args, s) \in Seq(Seq(Visible))
    BY AppendProperties
  <2>2. Loop(LineStep, start, Append(args, s)) = LineStep[Loop(LineStep, start, args)][s]
    BY LoopAppend
  <2>3. LineRead(program, Append(args, s), LineStep[Loop(LineStep, start, args)][s])
    BY <1>0, <1>2, LineOne
  <2> QED BY <2>1, <2>2, <2>3
<1> HIDE DEF T
<1>3. arguments \in T
  BY <1>0, <1>1, <1>2, SetOfSequences
<1>4. PICK line : line = Loop(LineStep, start, arguments) /\ LineRead(program, arguments, line)
  BY <1>3 DEF T
<1>5. BuildCommandLine(program, arguments) = line \o <<Nul>>
  BY <1>4 DEF BuildCommandLine, LineStep
<1>6. line \in Seq(Char) /\ Nul \in Char
  BY <1>4 DEF LineRead, Char
<1>7. line \o <<Nul>> = Append(line, Nul)
  BY <1>6, AppendIsConcat
<1>8. Loop(ParseStep, Between(<<>>), Append(line, Nul)) = Between(<<program>> \o arguments)
  BY <1>4 DEF LineRead
<1>9. \A argv : Between(argv).argv = argv
  BY DEF Between, Parsing
<1>10. ParseCommandLine(line \o <<Nul>>) = Loop(ParseStep, Between(<<>>), line \o <<Nul>>).argv
  BY DEF ParseCommandLine, ParseStep, Between, Parsing, ParseStart
<1> QED BY <1>5, <1>7, <1>8, <1>9, <1>10
-------------------------------------------------------------------------------
(* The environment block.                                                    *)

ReadEntries == [word : Units, spelling : Units, value : Seq(Units)]

ReadStep == [b \in ReadState |-> [c \in Units |-> ReadUnit(b, c)]]

(* The child is at the end of the last entry of env, or inside the next one.  *)
Reading(env, cur) == [env |-> env, cur |-> cur, done |-> FALSE]

Text == Units \ {Nul}

LEMMA ReadPlain ==
  ASSUME NEW env \in Seq(ReadEntries), NEW cur \in Seq(Units), NEW c \in Text
  PROVE  ReadStep[Reading(env, cur)][c] = Reading(env, Append(cur, c))
<1> DEFINE b == Reading(env, cur)
<1>1. b \in ReadState /\ c \in Units /\ c # Nul
  BY DEF Reading, ReadState, ReadEntries, Text
<1>2. ReadStep[b][c] = ReadUnit(b, c)
  BY <1>1 DEF ReadStep
<1>3. b = [env |-> env, cur |-> cur, done |-> FALSE]
  BY DEF Reading
<1> HIDE DEF b
<1>4. b.done = FALSE /\ b.env = env /\ b.cur = cur
  BY <1>3
<1>5. ReadUnit(b, c) = [env |-> b.env, cur |-> Append(b.cur, c), done |-> FALSE]
  BY <1>1, <1>4 DEF ReadUnit
<1> QED BY <1>2, <1>4, <1>5 DEF Reading, b

LEMMA ReadText ==
  ASSUME NEW env \in Seq(ReadEntries), NEW cur \in Seq(Units), NEW t \in Seq(Text)
  PROVE  Loop(ReadStep, Reading(env, cur), t) = Reading(env, cur \o t)
<1> DEFINE B == Reading(env, cur)
           T == {s \in Seq(Text) : Loop(ReadStep, B, s) = Reading(env, cur \o s)}
<1>1. <<>> \in T
  BY LoopEmpty, ConcatEmptySeq
<1>2. ASSUME NEW s \in Seq(Text), NEW c \in Text, s \in T PROVE Append(s, c) \in T
  <2>1. Append(s, c) \in Seq(Text) /\ c \in Units
    BY AppendProperties DEF Text
  <2>2. s \in Seq(Units)
    BY SeqMonotonic, Text \subseteq Units DEF Text
  <2>3. cur \o s \in Seq(Units)
    BY <2>2, ConcatProperties
  <2>4. cur \o Append(s, c) = Append(cur \o s, c)
    BY <2>1, <2>2, AppendToConcat
  <2>5. Loop(ReadStep, B, Append(s, c)) = ReadStep[Loop(ReadStep, B, s)][c]
    BY LoopAppend
  <2>6. Loop(ReadStep, B, s) = Reading(env, cur \o s)
    BY <1>2
  <2>7. ReadStep[Reading(env, cur \o s)][c] = Reading(env, Append(cur \o s, c))
    BY <2>3, ReadPlain
  <2> HIDE DEF B
  <2>8. Loop(ReadStep, B, Append(s, c)) = Reading(env, cur \o Append(s, c))
    BY <2>4, <2>5, <2>6, <2>7
  <2> QED BY <2>1, <2>8
<1> HIDE DEF T
<1>3. t \in T
  BY <1>1, <1>2, SetOfSequences
<1> QED BY <1>3 DEF T

LEMMA ReadEnd ==
  ASSUME NEW env \in Seq(ReadEntries), NEW cur \in Seq(Units), cur # <<>>
  PROVE  ReadStep[Reading(env, cur)][Nul]
           = Reading(Append(env, Variable(cur[1], cur[2], SubSeq(cur, 4, Len(cur)))), <<>>)
<1> DEFINE b == Reading(env, cur)
<1>1. b \in ReadState /\ Nul \in Units
  BY DEF Reading, ReadState, ReadEntries, Units
<1>2. ReadStep[b][Nul] = ReadUnit(b, Nul)
  BY <1>1 DEF ReadStep
<1>3. b.done = FALSE /\ b.env = env /\ b.cur = cur
  BY DEF Reading
<1> HIDE DEF b
<1>4. ReadUnit(b, Nul) = [env |-> Append(b.env, Variable(b.cur[1], b.cur[2],
                                                         SubSeq(b.cur, 4, Len(b.cur)))),
                          cur |-> <<>>, done |-> FALSE]
  BY <1>3 DEF ReadUnit
<1> QED BY <1>2, <1>3, <1>4 DEF Reading, b

(* An entry as it is written.                                                 *)
Written(v) == <<v.word, v.spelling, "=">> \o v.value

LEMMA WrittenFacts ==
  ASSUME NEW v \in Entries
  PROVE  /\ Written(v) \in Seq(Text) /\ Written(v) # <<>>
         /\ Variable(Written(v)[1], Written(v)[2], SubSeq(Written(v), 4, Len(Written(v)))) = v
         /\ v \in ReadEntries
<1>1. /\ v.word \in Text /\ v.spelling \in Text /\ "=" \in Text
      /\ v.value \in Seq(ValueUnits) /\ ValueUnits \subseteq Text
      /\ v = [word |-> v.word, spelling |-> v.spelling, value |-> v.value]
  <2>1. ToSet(Words) \subseteq Text
    BY WordsAssumption DEF Text, Units, Nul
  <2>2. Spelling \subseteq Text /\ "=" \in Text /\ ValueUnits \subseteq Text
    BY ValueUnitsAssumption DEF Spelling, Text, Units, Nul
  <2> QED BY <2>1, <2>2 DEF Entries
<1> DEFINE h == <<v.word, v.spelling, "=">>
           w == v.value
           cur == Written(v)
<1>2. /\ h \in Seq(Text) /\ Len(h) = 3
      /\ h[1] = v.word /\ h[2] = v.spelling
  BY <1>1
<1>3. w \in Seq(Text)
  BY <1>1, SeqMonotonic
<1>4. cur = h \o w
  BY DEF Written
<1> HIDE DEF h, w, cur
<1>5. cur \in Seq(Text)
  BY <1>2, <1>3, <1>4, ConcatProperties
<1>6. /\ Len(w) \in Nat /\ Len(cur) = 3 + Len(w)
      /\ \A i \in 1..(3 + Len(w)) : cur[i] = IF i <= 3 THEN h[i] ELSE w[i - 3]
  <2>1. h \in Seq(Text) /\ w \in Seq(Text)
    BY <1>2, <1>3
  <2>2. /\ Len(h \o w) = Len(h) + Len(w) /\ Len(w) \in Nat
        /\ \A i \in 1..(Len(h) + Len(w)) : (h \o w)[i] = IF i <= Len(h) THEN h[i] ELSE w[i - Len(h)]
    BY <2>1, ConcatProperties, LenProperties
  <2>3. Len(h) = 3
    BY <1>2
  <2> QED BY <1>4, <2>2, <2>3
<1>7. cur[1] = v.word /\ cur[2] = v.spelling /\ cur # <<>>
  <2>1. 1 \in 1..(3 + Len(w)) /\ 2 \in 1..(3 + Len(w)) /\ Len(cur) # 0
    BY <1>6
  <2>2. cur # <<>>
    BY <2>1, EmptySeq
  <2> QED BY <1>2, <1>6, <2>1, <2>2
<1>8. SubSeq(cur, 4, Len(cur)) = w
  <2> DEFINE n == Len(cur)
  <2>1. 4 \in Int /\ n \in Int /\ n - 4 + 1 = Len(w) /\ \A i \in 4..n : cur[i] \in Text
    BY <1>5, <1>6, ElementOfSeq
  <2>2. /\ SubSeq(cur, 4, n) \in Seq(Text)
        /\ Len(SubSeq(cur, 4, n)) = IF 4 <= n THEN n - 4 + 1 ELSE 0
        /\ \A i \in 1..(n - 4 + 1) : SubSeq(cur, 4, n)[i] = cur[4 + i - 1]
    BY <2>1, SubSeqProperties
  <2>3. Len(SubSeq(cur, 4, n)) = Len(w)
    BY <1>6, <2>1, <2>2
  <2>4. ASSUME NEW i \in 1..Len(w) PROVE SubSeq(cur, 4, n)[i] = w[i]
    <3>1. 4 + i - 1 \in 1..(3 + Len(w)) /\ ~(4 + i - 1 <= 3) /\ 4 + i - 1 - 3 = i
      BY <1>6
    <3> QED BY <1>6, <2>1, <2>2, <3>1
  <2> QED BY <1>3, <2>2, <2>3, <2>4, SeqEqual
<1>9. v \in ReadEntries
  <2>1. w \in Seq(Units)
    BY <1>3, SeqMonotonic, Text \subseteq Units DEF Text
  <2> QED BY <1>1, <2>1 DEF ReadEntries, Text, w
<1> QED BY <1>1, <1>5, <1>7, <1>8, <1>9 DEF Variable, w, cur
EncodeStep == [b \in Seq(Units) |-> [v \in Entries |-> EncodeEntry(b, v)]]

(* The child reads an entry back.                                             *)
LEMMA ReadEntry ==
  ASSUME NEW base, NEW block \in Seq(Units), NEW env \in Seq(ReadEntries), NEW v \in Entries,
         Loop(ReadStep, base, block) = Reading(env, <<>>)
  PROVE  /\ EncodeStep[block][v] \in Seq(Units)
         /\ Loop(ReadStep, base, EncodeStep[block][v]) = Reading(Append(env, v), <<>>)
<1> DEFINE cur == Written(v)
<1>1. /\ cur \in Seq(Text) /\ cur # <<>> /\ v \in ReadEntries
      /\ Variable(cur[1], cur[2], SubSeq(cur, 4, Len(cur))) = v
  BY WrittenFacts
<1>2. cur \in Seq(Units) /\ Nul \in Units /\ <<>> \in Seq(Units)
  BY <1>1, SeqMonotonic, Text \subseteq Units DEF Text, Units
<1>3. block \o cur \in Seq(Units)
  BY <1>2, ConcatProperties
<1>4. EncodeStep[block][v] = Append(block \o cur, Nul)
  <2>1. EncodeStep[block][v] = ((block \o <<v.word, v.spelling, "=">>) \o v.value) \o <<Nul>>
    BY DEF EncodeStep, EncodeEntry
  <2>2. <<v.word, v.spelling, "=">> \in Seq(Units) /\ v.value \in Seq(Units)
    <3>1. ToSet(Words) \subseteq Units /\ Spelling \subseteq Units /\ "=" \in Units /\ ValueUnits \subseteq Units
      BY DEF Units
    <3>2. v.word \in Units /\ v.spelling \in Units /\ v.value \in Seq(ValueUnits)
      BY <3>1 DEF Entries
    <3>3. v.value \in Seq(Units)
      BY <3>1, <3>2, SeqMonotonic
    <3> QED BY <3>1, <3>2, <3>3
  <2>3. (block \o <<v.word, v.spelling, "=">>) \o v.value = block \o cur
    <3>1. PICK h \in Seq(Units), w \in Seq(Units) : h = <<v.word, v.spelling, "=">> /\ w = v.value
      BY <2>2
    <3>2. (block \o h) \o w = block \o (h \o w)
      BY ConcatAssociative
    <3> QED BY <3>1, <3>2 DEF Written
  <2>4. (block \o cur) \o <<Nul>> = Append(block \o cur, Nul)
    BY <1>2, <1>3, AppendIsConcat
  <2> QED BY <2>1, <2>3, <2>4
<1> HIDE DEF cur
<1>5. PICK w \in Seq(Units) : w = block \o cur
  BY <1>3
<1>6. Loop(ReadStep, base, w) = Loop(ReadStep, Loop(ReadStep, base, block), cur)
  BY <1>2, <1>5, LoopConcat
<1>7. Loop(ReadStep, Reading(env, <<>>), cur) = Reading(env, <<>> \o cur)
  BY <1>1, <1>2, ReadText
<1>8. <<>> \o cur = cur
  BY <1>2, ConcatEmptySeq
<1>9. Loop(ReadStep, base, w) = Reading(env, cur)
  BY <1>6, <1>7, <1>8
<1>10. Loop(ReadStep, base, Append(w, Nul)) = ReadStep[Loop(ReadStep, base, w)][Nul]
  BY <1>2, LoopAppend
<1>11. ReadStep[Reading(env, cur)][Nul] = Reading(Append(env, v), <<>>)
  <2>1. ReadStep[Reading(env, cur)][Nul]
          = Reading(Append(env, Variable(cur[1], cur[2], SubSeq(cur, 4, Len(cur)))), <<>>)
    BY <1>1, <1>2, ReadEnd
  <2> QED BY <1>1, <2>1
<1>12. Append(w, Nul) \in Seq(Units)
  BY <1>2, AppendProperties
<1> QED BY <1>4, <1>5, <1>9, <1>10, <1>11, <1>12

(* The empty string after the last entry ends the block, and what follows it  *)
(* is not looked at.                                                          *)
LEMMA ReadStops ==
  ASSUME NEW env \in Seq(ReadEntries)
  PROVE  /\ ReadStep[Reading(env, <<>>)][Nul] = [env |-> env, cur |-> <<>>, done |-> TRUE]
         /\ ReadStep[[env |-> env, cur |-> <<>>, done |-> TRUE]][Nul]
              = [env |-> env, cur |-> <<>>, done |-> TRUE]
<1> DEFINE b == Reading(env, <<>>)
           d == [env |-> env, cur |-> <<>>, done |-> TRUE]
<1>1. b \in ReadState /\ d \in ReadState /\ Nul \in Units
  BY DEF Reading, ReadState, ReadEntries, Units
<1>2. ReadStep[b][Nul] = ReadUnit(b, Nul) /\ ReadStep[d][Nul] = ReadUnit(d, Nul)
  BY <1>1 DEF ReadStep
<1>3. b = [env |-> env, cur |-> <<>>, done |-> FALSE]
  BY DEF Reading
<1> HIDE DEF b
<1>4. b.done = FALSE /\ b.env = env /\ b.cur = <<>>
  BY <1>3
<1>5. ReadUnit(b, Nul) = d
  BY <1>4 DEF ReadUnit
<1>6. d.done
  OBVIOUS
<1> HIDE DEF d
<1>7. ReadUnit(d, Nul) = d
  BY <1>6 DEF ReadUnit
<1> QED BY <1>2, <1>5, <1>7 DEF b, d

(***************************************************************************)
(* The child reads the block that encoded_block writes back as the entries   *)
(* of the environment, in their order, the empty environment included.        *)
(***************************************************************************)
THEOREM BlockReadBack ==
  ASSUME NEW env \in Seq(Entries)
  PROVE  ReadBlock(EncodedBlock(env)) = env
<1> DEFINE B == Reading(<<>>, <<>>)
           Enc(e) == Loop(EncodeStep, <<>>, e)
           T == {e \in Seq(Entries) : /\ Enc(e) \in Seq(Units)
                                      /\ Loop(ReadStep, B, Enc(e)) = Reading(e, <<>>)}
<1>1. <<>> \in T
  <2>1. Enc(<<>>) = <<>> /\ <<>> \in Seq(Units) /\ <<>> \in Seq(Entries)
    BY LoopEmpty
  <2>2. Loop(ReadStep, B, <<>>) = B
    BY LoopEmpty
  <2> QED BY <2>1, <2>2
<1>2. ASSUME NEW e \in Seq(Entries), NEW v \in Entries, e \in T PROVE Append(e, v) \in T
  <2>1. Append(e, v) \in Seq(Entries)
    BY AppendProperties
  <2>2. Enc(Append(e, v)) = EncodeStep[Enc(e)][v]
    BY LoopAppend
  <2>3. e \in Seq(ReadEntries)
    BY SeqMonotonic, WrittenFacts
  <2>4. PICK block \in Seq(Units) : block = Enc(e) /\ Loop(ReadStep, B, block) = Reading(e, <<>>)
    BY <1>2
  <2> HIDE DEF B
  <2>5. /\ EncodeStep[block][v] \in Seq(Units)
        /\ Loop(ReadStep, B, EncodeStep[block][v]) = Reading(Append(e, v), <<>>)
    BY <2>3, <2>4, ReadEntry
  <2> QED BY <2>1, <2>2, <2>4, <2>5
<1> HIDE DEF T
<1>3. env \in T
  BY <1>1, <1>2, SetOfSequences
<1>4. PICK block \in Seq(Units) :
        block = Loop(EncodeStep, <<>>, env) /\ Loop(ReadStep, B, block) = Reading(env, <<>>)
  BY <1>3 DEF T
<1>5. env \in Seq(ReadEntries) /\ Nul \in Units /\ <<Nul>> \in Seq(Units) /\ <<Nul, Nul>> \in Seq(Units)
  BY SeqMonotonic, WrittenFacts DEF Units
<1> DEFINE d == [env |-> env, cur |-> <<>>, done |-> TRUE]
<1>6. ReadStep[Reading(env, <<>>)][Nul] = d /\ ReadStep[d][Nul] = d /\ d.env = env
  BY <1>5, ReadStops
<1> HIDE DEF d
<1>7. Loop(ReadStep, Reading(env, <<>>), <<Nul>>) = d
  BY <1>6, LoopOne
<1>8. Loop(ReadStep, Reading(env, <<>>), <<Nul, Nul>>) = d
  <2>1. <<Nul, Nul>> = Append(<<Nul>>, Nul)
    OBVIOUS
  <2>2. Loop(ReadStep, Reading(env, <<>>), Append(<<Nul>>, Nul))
          = ReadStep[Loop(ReadStep, Reading(env, <<>>), <<Nul>>)][Nul]
    <3>1. PICK s \in Seq(Units), c \in Units : s = <<Nul>> /\ c = Nul
      BY <1>5
    <3>2. Loop(ReadStep, Reading(env, <<>>), Append(s, c))
            = ReadStep[Loop(ReadStep, Reading(env, <<>>), s)][c]
      BY LoopAppend
    <3> QED BY <3>1, <3>2
  <2> QED BY <1>6, <1>7, <2>1, <2>2
<1>9. ASSUME NEW tail \in Seq(Units), Loop(ReadStep, Reading(env, <<>>), tail) = d
      PROVE  ReadBlock(block \o tail) = env
  <2>1. Loop(ReadStep, B, block \o tail) = Loop(ReadStep, Loop(ReadStep, B, block), tail)
    BY LoopConcat
  <2>2. ReadBlock(block \o tail) = Loop(ReadStep, B, block \o tail).env
    BY DEF ReadBlock, ReadStep, B, Reading
  <2> HIDE DEF B
  <2> QED BY <1>4, <1>6, <1>9, <2>1, <2>2
<1>10. EncodedBlock(env) = block \o (IF env = <<>> THEN <<Nul, Nul>> ELSE <<Nul>>)
  BY <1>4 DEF EncodedBlock, EncodeStep
<1>11. CASE env = <<>>
  BY <1>5, <1>8, <1>9, <1>10, <1>11
<1>12. CASE env # <<>>
  BY <1>5, <1>7, <1>9, <1>10, <1>12
<1> QED BY <1>11, <1>12
-------------------------------------------------------------------------------
(* The environment.                                                          *)

LEMMA LargestExists ==
  ASSUME NEW n \in Nat, NEW S \in SUBSET (0..n), S # {}
  PROVE  /\ Max(S) \in S
         /\ \A y \in S : y <= Max(S)
<1> DEFINE T == {m \in Nat : \A U \in SUBSET (0..m) : U # {} => \E x \in U : \A y \in U : x >= y}
<1>1. 0 \in T
  <2> SUFFICES ASSUME NEW U \in SUBSET (0..0), U # {} PROVE \E x \in U : \A y \in U : x >= y
    OBVIOUS
  <2>1. PICK x \in U : TRUE
    OBVIOUS
  <2>2. \A y \in U : y \in 0..0
    OBVIOUS
  <2>3. \A y \in U : x >= y
    BY <2>2
  <2> QED BY <2>3
<1>2. ASSUME NEW m \in Nat, m \in T PROVE m + 1 \in T
  <2> SUFFICES ASSUME NEW U \in SUBSET (0..(m + 1)), U # {}
               PROVE  \E x \in U : \A y \in U : x >= y
    OBVIOUS
  <2>1. CASE m + 1 \in U
    <3>1. \A y \in U : m + 1 >= y
      OBVIOUS
    <3> QED BY <2>1, <3>1
  <2>2. CASE m + 1 \notin U
    <3>1. U \in SUBSET (0..m)
      BY <2>2
    <3> QED BY <1>2, <3>1
  <2> QED BY <2>1, <2>2
<1> HIDE DEF T
<1>3. n \in T
  BY <1>1, <1>2, SetOfNumbers
<1>4. \E x \in S : \A y \in S : x >= y
  BY <1>3 DEF T
<1>5. Max(S) \in S /\ \A y \in S : Max(S) >= y
  BY <1>4 DEF Max
<1> QED BY <1>5

(* A sequence with one element put in or taken out.                           *)
PutIn(s, k, v, i) == IF i <= k THEN s[i] ELSE IF i = k + 1 THEN v ELSE s[i - 1]

LEMMA InsertAtFacts ==
  ASSUME NEW C, NEW s \in Seq(C), NEW v \in C, NEW k \in 0..Len(s)
  PROVE  /\ InsertAt(s, k + 1, v) \in Seq(C)
         /\ Len(InsertAt(s, k + 1, v)) = Len(s) + 1
         /\ \A i \in 1..(Len(s) + 1) : InsertAt(s, k + 1, v)[i] = PutIn(s, k, v, i)
<1> DEFINE n == Len(s)
           a == SubSeq(s, 1, k)
           b == SubSeq(s, k + 1, n)
<1>1. n \in Nat /\ k \in Int /\ n \in Int /\ k + 1 \in Int /\ 1 \in Int
  BY LenProperties
<1>2. \A i \in 1..n : s[i] \in C
  BY ElementOfSeq
<1>3. a \in Seq(C) /\ Len(a) = k /\ \A i \in 1..k : a[i] = s[i]
  <2>1. \A i \in 1..k : s[i] \in C
    BY <1>1, <1>2
  <2>2. /\ a \in Seq(C) /\ Len(a) = (IF 1 <= k THEN k - 1 + 1 ELSE 0)
        /\ \A i \in 1..(k - 1 + 1) : a[i] = s[1 + i - 1]
    BY <1>1, <2>1, SubSeqProperties
  <2> QED BY <1>1, <2>2
<1>4. b \in Seq(C) /\ Len(b) = n - k /\ \A i \in 1..(n - k) : b[i] = s[k + i]
  <2>1. \A i \in (k + 1)..n : s[i] \in C
    BY <1>1, <1>2
  <2>2. /\ b \in Seq(C) /\ Len(b) = (IF k + 1 <= n THEN n - (k + 1) + 1 ELSE 0)
        /\ \A i \in 1..(n - (k + 1) + 1) : b[i] = s[(k + 1) + i - 1]
    BY <1>1, <2>1, SubSeqProperties
  <2> QED BY <1>1, <2>2
<1>5. (k + 1) - 1 = k
  BY <1>1
<1> HIDE DEF a, b, n
<1>6. InsertAt(s, k + 1, v) = (a \o <<v>>) \o b
  BY <1>5 DEF InsertAt, a, b, n
<1>7. Append(a, v) = a \o <<v>> /\ Append(a, v) \in Seq(C) /\ Len(Append(a, v)) = k + 1
  BY <1>3, AppendIsConcat, AppendProperties
<1>8. \A i \in 1..k : Append(a, v)[i] = a[i]
  BY <1>3, AppendProperties
<1>9. Append(a, v)[k + 1] = v
  BY <1>3, AppendProperties
<1>10. PICK c \in Seq(C) : c = Append(a, v)
  BY <1>7
<1>11. c \o b \in Seq(C) /\ Len(c \o b) = Len(c) + Len(b)
  BY <1>4, ConcatProperties
<1>12. \A i \in 1..(Len(c) + Len(b)) : (c \o b)[i] = IF i <= Len(c) THEN c[i] ELSE b[i - Len(c)]
  BY <1>4, ConcatProperties
<1>13. Len(c) = k + 1 /\ Len(b) = n - k /\ Len(c) + Len(b) = n + 1
  BY <1>1, <1>4, <1>7, <1>10
<1>14. ASSUME NEW i \in 1..(n + 1)
       PROVE  (c \o b)[i] = IF i <= k THEN s[i] ELSE IF i = k + 1 THEN v ELSE s[i - 1]
  <2>1. (c \o b)[i] = IF i <= k + 1 THEN c[i] ELSE b[i - (k + 1)]
    BY <1>12, <1>13
  <2>2. CASE i <= k
    BY <1>1, <1>3, <1>8, <1>10, <2>1, <2>2
  <2>3. CASE i = k + 1
    <3>1. ~(i <= k) /\ i <= k + 1
      BY <1>1, <2>3
    <3>2. c[i] = v
      BY <1>9, <1>10, <2>3
    <3> QED BY <2>1, <2>3, <3>1, <3>2, Zenon
  <2>4. CASE i > k + 1
    <3>1. i - (k + 1) \in 1..(n - k) /\ k + (i - (k + 1)) = i - 1 /\ ~(i <= k + 1) /\ ~(i <= k) /\ i # k + 1
      BY <1>1, <2>4
    <3>2. b[i - (k + 1)] = s[i - 1]
      BY <1>4, <3>1
    <3> QED BY <2>1, <3>1, <3>2
  <2>5. i <= k \/ i = k + 1 \/ i > k + 1
    BY <1>1
  <2> QED BY <2>2, <2>3, <2>4, <2>5, Zenon
<1>15. InsertAt(s, k + 1, v) = c \o b
  BY <1>6, <1>7, <1>10
<1>16. Len(c \o b) = n + 1
  BY <1>11, <1>13
<1> QED BY <1>11, <1>14, <1>15, <1>16 DEF n, PutIn

LEMMA RemoveAtFacts ==
  ASSUME NEW C, NEW s \in Seq(C), NEW k \in 1..Len(s)
  PROVE  /\ RemoveAt(s, k) \in Seq(C)
         /\ Len(RemoveAt(s, k)) = Len(s) - 1
         /\ \A i \in 1..(Len(s) - 1) : RemoveAt(s, k)[i] = IF i < k THEN s[i] ELSE s[i + 1]
<1> DEFINE n == Len(s)
           a == SubSeq(s, 1, k - 1)
           b == SubSeq(s, k + 1, n)
<1>1. n \in Nat /\ k \in Int /\ n \in Int /\ k + 1 \in Int /\ k - 1 \in Int /\ 1 \in Int
  BY LenProperties
<1>2. \A i \in 1..n : s[i] \in C
  BY ElementOfSeq
<1>3. a \in Seq(C) /\ Len(a) = k - 1 /\ \A i \in 1..(k - 1) : a[i] = s[i]
  <2>1. \A i \in 1..(k - 1) : s[i] \in C
    BY <1>1, <1>2
  <2>2. /\ a \in Seq(C) /\ Len(a) = (IF 1 <= k - 1 THEN (k - 1) - 1 + 1 ELSE 0)
        /\ \A i \in 1..((k - 1) - 1 + 1) : a[i] = s[1 + i - 1]
    BY <1>1, <2>1, SubSeqProperties
  <2> QED BY <1>1, <2>2
<1>4. b \in Seq(C) /\ Len(b) = n - k /\ \A i \in 1..(n - k) : b[i] = s[k + i]
  <2>1. \A i \in (k + 1)..n : s[i] \in C
    BY <1>1, <1>2
  <2>2. /\ b \in Seq(C) /\ Len(b) = (IF k + 1 <= n THEN n - (k + 1) + 1 ELSE 0)
        /\ \A i \in 1..(n - (k + 1) + 1) : b[i] = s[(k + 1) + i - 1]
    BY <1>1, <2>1, SubSeqProperties
  <2> QED BY <1>1, <2>2
<1> HIDE DEF a, b, n
<1>6. RemoveAt(s, k) = a \o b
  BY DEF RemoveAt, a, b, n
<1>11. a \o b \in Seq(C) /\ Len(a \o b) = Len(a) + Len(b)
  BY <1>3, <1>4, ConcatProperties
<1>12. \A i \in 1..(Len(a) + Len(b)) : (a \o b)[i] = IF i <= Len(a) THEN a[i] ELSE b[i - Len(a)]
  BY <1>3, <1>4, ConcatProperties
<1>13. Len(a) = k - 1 /\ Len(b) = n - k /\ Len(a) + Len(b) = n - 1
  BY <1>1, <1>3, <1>4
<1>14. ASSUME NEW i \in 1..(n - 1)
       PROVE  (a \o b)[i] = IF i < k THEN s[i] ELSE s[i + 1]
  <2>1. (a \o b)[i] = IF i <= k - 1 THEN a[i] ELSE b[i - (k - 1)]
    BY <1>12, <1>13
  <2>2. CASE i < k
    BY <1>1, <1>3, <2>1, <2>2
  <2>3. CASE i >= k
    <3>1. i - (k - 1) \in 1..(n - k) /\ k + (i - (k - 1)) = i + 1 /\ ~(i <= k - 1) /\ ~(i < k)
      BY <1>1, <2>3
    <3>2. b[i - (k - 1)] = s[i + 1]
      BY <1>4, <3>1
    <3> QED BY <2>1, <3>1, <3>2
  <2>4. i < k \/ i >= k
    BY <1>1
  <2> QED BY <2>2, <2>3, <2>4, Zenon
<1> QED BY <1>6, <1>11, <1>13, <1>14 DEF n
(* LaunchEnvironment's entries: in the order of their names, one for each.    *)
ByRank(env) ==
  /\ env \in Seq(Entries)
  /\ \A i, j \in 1..Len(env) : i < j => Rank(env[i].word) < Rank(env[j].word)

LEMMA RankFacts ==
  /\ \A e \in Entries : Rank(e.word) \in Nat
  /\ \A e, f \in Entries : Rank(e.word) = Rank(f.word) => e.word = f.word
<1>1. \A w \in ToSet(Words) : Rank(w) \in DOMAIN Words /\ Words[Rank(w)] = w
  BY DEF Rank, ToSet
<1>2. DOMAIN Words \subseteq Nat
  BY WordsAssumption, LenProperties
<1>3. \A e \in Entries : e.word \in ToSet(Words)
  BY DEF Entries
<1>4. \A e \in Entries : Rank(e.word) \in Nat
  BY <1>1, <1>2, <1>3
<1>5. ASSUME NEW e \in Entries, NEW f \in Entries, Rank(e.word) = Rank(f.word) PROVE e.word = f.word
  <2>1. Words[Rank(e.word)] = e.word /\ Words[Rank(f.word)] = f.word
    BY <1>1, <1>3
  <2> QED BY <1>5, <2>1
<1> QED BY <1>4, <1>5

LEMMA EntryOf ==
  ASSUME NEW env \in Seq(Entries)
  PROVE  /\ Len(env) \in Nat /\ DOMAIN env = 1..Len(env)
         /\ \A i \in 1..Len(env) : env[i] \in Entries /\ Rank(env[i].word) \in Nat
<1>1. Len(env) \in Nat /\ DOMAIN env = 1..Len(env)
  BY LenProperties
<1>2. \A i \in 1..Len(env) : env[i] \in Entries
  BY ElementOfSeq
<1> QED BY <1>1, <1>2, RankFacts

(* Where the inner loop of sort_entries stops.                                *)
LEMMA InsertPlace ==
  ASSUME NEW env, ByRank(env), NEW v \in Entries
  PROVE  \E k \in 0..Len(env) :
           /\ Insert(env, v) = InsertAt(env, k + 1, v)
           /\ \A i \in 1..Len(env) : i <= k => Rank(env[i].word) <= Rank(v.word)
           /\ \A i \in 1..Len(env) : i > k => Rank(env[i].word) > Rank(v.word)
<1> DEFINE n == Len(env)
           r(i) == Rank(env[i].word)
           K == {0} \cup {i \in DOMAIN env : r(i) <= Rank(v.word)}
           k == Max(K)
<1>1. /\ n \in Nat /\ DOMAIN env = 1..n /\ Rank(v.word) \in Nat
      /\ \A i \in 1..n : r(i) \in Nat
      /\ \A i, j \in 1..n : i < j => r(i) < r(j)
  BY EntryOf, RankFacts DEF ByRank
<1>2. K \in SUBSET (0..n) /\ K # {}
  BY <1>1
<1>3. Insert(env, v) = InsertAt(env, k + 1, v)
  BY DEF Insert
<1>4. \A i \in 1..n : i \in K <=> r(i) <= Rank(v.word)
  BY <1>1
<1> HIDE DEF K
<1>5. k \in K /\ \A y \in K : y <= k
  BY <1>1, <1>2, LargestExists
<1> HIDE DEF k, n, r
<1>6. k \in 0..n
  BY <1>2, <1>5
<1>7. ASSUME NEW i \in 1..n, i <= k PROVE r(i) <= Rank(v.word)
  <2>1. k \in 1..n /\ r(k) <= Rank(v.word)
    BY <1>1, <1>4, <1>5, <1>6, <1>7
  <2>2. i = k \/ r(i) < r(k)
    BY <1>1, <1>6, <1>7, <2>1
  <2> QED BY <1>1, <2>1, <2>2
<1>8. ASSUME NEW i \in 1..n, i > k PROVE r(i) > Rank(v.word)
  <2>1. i \notin K
    BY <1>1, <1>5, <1>6, <1>8
  <2> QED BY <1>1, <1>4, <2>1
<1> QED BY <1>3, <1>6, <1>7, <1>8 DEF n, r

LEMMA InsertLast ==
  ASSUME NEW env, ByRank(env), NEW v \in Entries,
         \A i \in 1..Len(env) : Rank(env[i].word) < Rank(v.word)
  PROVE  Insert(env, v) = Append(env, v)
<1>1. env \in Seq(Entries) /\ Len(env) \in Nat
  BY EntryOf DEF ByRank
<1>2. PICK k \in 0..Len(env) :
        /\ Insert(env, v) = InsertAt(env, k + 1, v)
        /\ \A i \in 1..Len(env) : i > k => Rank(env[i].word) > Rank(v.word)
  BY InsertPlace
<1>3. k = Len(env)
  <2> SUFFICES ASSUME k # Len(env) PROVE FALSE
    OBVIOUS
  <2>1. Len(env) \in 1..Len(env) /\ Len(env) > k
    BY <1>1
  <2>2. Rank(env[Len(env)].word) > Rank(v.word) /\ Rank(env[Len(env)].word) < Rank(v.word)
    BY <1>2, <2>1
  <2>3. Rank(env[Len(env)].word) \in Nat /\ Rank(v.word) \in Nat
    BY <1>1, <2>1, EntryOf, RankFacts
  <2> QED BY <2>2, <2>3
<1> DEFINE n == Len(env)
           a == InsertAt(env, n + 1, v)
           b == Append(env, v)
<1>4. /\ a \in Seq(Entries) /\ Len(a) = n + 1
      /\ \A i \in 1..(n + 1) : a[i] = IF i <= n THEN env[i] ELSE IF i = n + 1 THEN v ELSE env[i - 1]
  <2>1. n \in 0..Len(env)
    BY <1>1
  <2>2. a \in Seq(Entries) /\ Len(a) = n + 1
    BY <1>1, <2>1, InsertAtFacts
  <2>3. \A i \in 1..(n + 1) : a[i] = PutIn(env, n, v, i)
    BY <1>1, <2>1, InsertAtFacts
  <2> HIDE DEF a, n
  <2> QED BY <2>2, <2>3 DEF PutIn
<1>5. b \in Seq(Entries) /\ Len(b) = n + 1 /\ (\A i \in 1..n : b[i] = env[i]) /\ b[n + 1] = v
  BY <1>1, AppendProperties
<1> HIDE DEF a, b
<1>6. \A i \in 1..(n + 1) : a[i] = b[i]
  <2> SUFFICES ASSUME NEW i \in 1..(n + 1) PROVE a[i] = b[i]
    OBVIOUS
  <2>1. CASE i = n + 1
    <3>1. ~(i <= n)
      BY <1>1, <2>1
    <3> QED BY <1>4, <1>5, <2>1, <3>1
  <2>2. CASE i \in 1..n
    <3>1. i <= n
      BY <1>1, <2>2
    <3> QED BY <1>4, <1>5, <2>2, <3>1
  <2> QED BY <1>1, <2>1, <2>2
<1>7. a = b
  BY <1>4, <1>5, <1>6, SeqEqual
<1> QED BY <1>2, <1>3, <1>7 DEF a, b

LEMMA InsertNew ==
  ASSUME NEW env, ByRank(env), NEW v \in Entries,
         \A i \in 1..Len(env) : env[i].word # v.word
  PROVE  ByRank(Insert(env, v)) /\ ToSet(Insert(env, v)) = ToSet(env) \cup {v}
<1> DEFINE n == Len(env)
           a == Insert(env, v)
           r(i) == Rank(env[i].word)
           rv == Rank(v.word)
<1>1. /\ env \in Seq(Entries) /\ n \in Nat /\ DOMAIN env = 1..n /\ rv \in Nat
      /\ \A i \in 1..n : env[i] \in Entries /\ r(i) \in Nat /\ r(i) # rv
      /\ \A i, j \in 1..n : i < j => r(i) < r(j)
  BY EntryOf, RankFacts DEF ByRank
<1>2. PICK k \in 0..n :
        /\ a = InsertAt(env, k + 1, v)
        /\ \A i \in 1..n : i <= k => r(i) <= rv
        /\ \A i \in 1..n : i > k => r(i) > rv
  BY InsertPlace
<1>3. /\ a \in Seq(Entries) /\ Len(a) = n + 1
      /\ \A i \in 1..(n + 1) : a[i] = IF i <= k THEN env[i] ELSE IF i = k + 1 THEN v ELSE env[i - 1]
  <2> DEFINE x == InsertAt(env, k + 1, v)
  <2>1. x \in Seq(Entries) /\ Len(x) = n + 1
    BY <1>1, InsertAtFacts
  <2>2. \A i \in 1..(n + 1) : x[i] = PutIn(env, k, v, i)
    BY <1>1, InsertAtFacts
  <2> HIDE DEF x, a
  <2> QED BY <1>2, <2>1, <2>2 DEF x, PutIn
<1>4. k \in Nat /\ k <= n
  BY <1>1
<1> HIDE DEF a, n, rv, r
<1>5. ASSUME NEW i \in 1..(n + 1)
      PROVE  \/ i \in 1..k /\ i \in 1..n /\ a[i] = env[i]
             \/ i = k + 1 /\ a[i] = v
             \/ i > k + 1 /\ i - 1 \in 1..n /\ a[i] = env[i - 1]
  <2>1. CASE i <= k
    BY <1>1, <1>3, <1>4, <2>1
  <2>2. CASE i = k + 1
    <3>1. ~(i <= k)
      BY <1>4, <2>2
    <3> QED BY <1>3, <2>2, <3>1
  <2>3. CASE i > k + 1
    <3>1. ~(i <= k) /\ i # k + 1 /\ i - 1 \in 1..n
      BY <1>1, <1>4, <2>3
    <3> QED BY <1>3, <2>3, <3>1
  <2>4. i <= k \/ i = k + 1 \/ i > k + 1
    BY <1>1, <1>4
  <2> QED BY <2>1, <2>2, <2>3, <2>4, Zenon
<1> DEFINE ra(i) == Rank(a[i].word)
<1>6. ASSUME NEW i \in 1..(n + 1)
      PROVE  \/ i \in 1..k /\ ra(i) = r(i) /\ ra(i) < rv
             \/ i = k + 1 /\ ra(i) = rv
             \/ i > k + 1 /\ i - 1 \in 1..n /\ ra(i) = r(i - 1) /\ ra(i) > rv
  <2>1. CASE i \in 1..k /\ i \in 1..n /\ a[i] = env[i]
    <3>1. ra(i) = r(i)
      BY <2>1 DEF r
    <3>2. r(i) <= rv /\ r(i) # rv /\ r(i) \in Nat
      BY <1>1, <1>2, <1>4, <2>1
    <3> QED BY <1>1, <2>1, <3>1, <3>2
  <2>2. CASE i = k + 1 /\ a[i] = v
    BY <2>2 DEF rv
  <2>3. CASE i > k + 1 /\ i - 1 \in 1..n /\ a[i] = env[i - 1]
    <3>1. ra(i) = r(i - 1)
      BY <2>3 DEF r
    <3>2. r(i - 1) > rv
      BY <1>2, <1>4, <2>3
    <3> QED BY <2>3, <3>1, <3>2
  <2> QED BY <1>5, <2>1, <2>2, <2>3
<1> HIDE DEF ra
<1>7. ASSUME NEW i \in 1..(n + 1), NEW j \in 1..(n + 1), i < j PROVE ra(i) < ra(j)
  <2>1. CASE i \in 1..k /\ j \in 1..k
    <3>1. ra(i) = r(i) /\ ra(j) = r(j)
      BY <1>4, <1>6, <2>1
    <3> QED BY <1>1, <1>4, <1>7, <2>1, <3>1
  <2>2. CASE i > k + 1
    <3>1. j > k + 1 /\ i - 1 < j - 1 
      BY <1>1, <1>4, <1>7, <2>2
    <3>2. ra(i) = r(i - 1) /\ ra(j) = r(j - 1) /\ i - 1 \in 1..n /\ j - 1 \in 1..n
      BY <1>4, <1>6, <2>2, <3>1
    <3> QED BY <1>1, <3>1, <3>2
  <2>3. CASE i <= k + 1 /\ ~(i \in 1..k /\ j \in 1..k)
    <3>1. ra(i) <= rv /\ ra(j) >= rv /\ (i = k + 1 => ra(j) > rv) /\ (i # k + 1 => ra(i) < rv)
      BY <1>1, <1>4, <1>6, <1>7, <2>3
    <3>2. ra(i) \in Nat /\ ra(j) \in Nat
      BY <1>1, <1>4, <1>6
    <3> QED BY <1>1, <3>1, <3>2
  <2> QED BY <1>1, <1>4, <2>1, <2>2, <2>3
<1>8. ByRank(a)
  BY <1>3, <1>7 DEF ByRank, ra
<1>9. DOMAIN a = 1..(n + 1)
  BY <1>3, LenProperties
<1>10. ToSet(a) \subseteq ToSet(env) \cup {v}
  BY <1>1, <1>5, <1>9 DEF ToSet
<1>11. v \in ToSet(a)
  <2>1. k + 1 \in 1..(n + 1)
    BY <1>1, <1>4
  <2>2. a[k + 1] = v
    BY <1>4, <1>5, <2>1
  <2> QED BY <1>9, <2>1, <2>2 DEF ToSet
<1>12. ASSUME NEW i \in 1..n PROVE env[i] \in ToSet(a)
  <2>1. CASE i <= k
    <3>1. i \in 1..(n + 1) /\ a[i] = env[i]
      BY <1>1, <1>3, <1>4, <2>1
    <3> QED BY <1>9, <3>1 DEF ToSet
  <2>2. CASE i > k
    <3>1. i + 1 \in 1..(n + 1) /\ ~(i + 1 <= k) /\ i + 1 # k + 1 /\ (i + 1) - 1 = i
      BY <1>1, <1>4, <2>2
    <3>2. a[i + 1] = env[i]
      BY <1>3, <3>1
    <3> QED BY <1>9, <3>1, <3>2 DEF ToSet
  <2> QED BY <1>1, <1>4, <2>1, <2>2
<1>13. ToSet(env) \subseteq ToSet(a)
  BY <1>1, <1>12 DEF ToSet
<1> QED BY <1>8, <1>10, <1>11, <1>13 DEF a

(* One turn of the outer loop of sort_entries.                                *)
SortStep == [sorted \in Seq(Entries) |-> [v \in Entries |-> Insert(sorted, v)]]

LEMMA OrderedPrefix ==
  ASSUME NEW e \in Seq(Entries), NEW v \in Entries, ByRank(Append(e, v))
  PROVE  ByRank(e) /\ \A i \in 1..Len(e) : Rank(e[i].word) < Rank(v.word)
<1> DEFINE n == Len(e)
           a == Append(e, v)
<1>1. n \in Nat /\ Len(a) = n + 1 /\ a[n + 1] = v /\ \A i \in 1..n : a[i] = e[i]
  BY AppendProperties, LenProperties
<1>2. \A i, j \in 1..Len(a) : i < j => Rank(a[i].word) < Rank(a[j].word)
  BY DEF ByRank
<1> HIDE DEF a
<1>3. ASSUME NEW i \in 1..n PROVE Rank(e[i].word) < Rank(v.word)
  <2>1. i \in 1..Len(a) /\ n + 1 \in 1..Len(a) /\ i < n + 1
    BY <1>1
  <2> QED BY <1>1, <1>2, <2>1
<1>4. ASSUME NEW i \in 1..n, NEW j \in 1..n, i < j PROVE Rank(e[i].word) < Rank(e[j].word)
  <2>1. i \in 1..Len(a) /\ j \in 1..Len(a)
    BY <1>1
  <2> QED BY <1>1, <1>2, <1>4, <2>1
<1> QED BY <1>3, <1>4 DEF ByRank

(* Sorting what is sorted changes nothing, and then sorting with one more      *)
(* entry at the end inserts it.                                               *)
LEMMA SortOrdered ==
  ASSUME NEW env, ByRank(env)
  PROVE  SortEntries(env) = env
<1> DEFINE S(e) == Loop(SortStep, <<>>, e)
           T == {e \in Seq(Entries) : ByRank(e) => S(e) = e}
<1>1. <<>> \in T
  BY LoopEmpty
<1>2. ASSUME NEW e \in Seq(Entries), NEW v \in Entries, e \in T PROVE Append(e, v) \in T
  <2>1. Append(e, v) \in Seq(Entries)
    BY AppendProperties
  <2> SUFFICES ASSUME ByRank(Append(e, v)) PROVE S(Append(e, v)) = Append(e, v)
    BY <2>1
  <2>2. ByRank(e) /\ \A i \in 1..Len(e) : Rank(e[i].word) < Rank(v.word)
    BY OrderedPrefix
  <2>3. S(Append(e, v)) = SortStep[S(e)][v]
    BY LoopAppend
  <2>4. S(e) = e
    BY <1>2, <2>2
  <2>5. SortStep[e][v] = Insert(e, v)
    BY DEF SortStep
  <2>6. Insert(e, v) = Append(e, v)
    BY <2>2, InsertLast
  <2> QED BY <2>3, <2>4, <2>5, <2>6
<1> HIDE DEF T
<1>3. env \in T
  <2>1. Seq(Entries) \subseteq T
    BY <1>1, <1>2, SetOfSequences
  <2> QED BY <2>1 DEF ByRank
<1>4. SortEntries(env) = S(env)
  BY DEF SortEntries, SortStep
<1> QED BY <1>3, <1>4 DEF T

LEMMA SortAppended ==
  ASSUME NEW env, ByRank(env), NEW v \in Entries
  PROVE  SortEntries(Append(env, v)) = Insert(env, v)
<1>1. env \in Seq(Entries)
  BY DEF ByRank
<1>2. Loop(SortStep, <<>>, Append(env, v)) = SortStep[Loop(SortStep, <<>>, env)][v]
  BY <1>1, LoopAppend
<1>3. \A e : SortEntries(e) = Loop(SortStep, <<>>, e)
  BY DEF SortEntries, SortStep
<1>4. SortStep[env][v] = Insert(env, v)
  BY <1>1 DEF SortStep
<1>5. SortEntries(env) = env
  BY SortOrdered
<1> QED BY <1>2, <1>3, <1>4, <1>5

(* A name is at one position at most.                                         *)
LEMMA NameOnce ==
  ASSUME NEW env, ByRank(env), NEW i \in 1..Len(env), NEW j \in 1..Len(env),
         env[i].word = env[j].word
  PROVE  i = j
<1>1. /\ Len(env) \in Nat /\ Rank(env[i].word) \in Nat
      /\ i < j => Rank(env[i].word) < Rank(env[j].word)
      /\ j < i => Rank(env[j].word) < Rank(env[i].word)
  BY EntryOf DEF ByRank
<1>2. ~(i < j) /\ ~(j < i)
  BY <1>1
<1> QED BY <1>1, <1>2

LEMMA SamePosition ==
  ASSUME NEW env, ByRank(env), NEW v, NEW same,
         same = {i \in DOMAIN env : SameName(env[i], v)}
  PROVE  /\ same = {} => \A i \in 1..Len(env) : env[i].word # v.word
         /\ same # {} => /\ Min(same) \in 1..Len(env)
                         /\ env[Min(same)].word = v.word
                         /\ \A j \in 1..Len(env) : env[j].word = v.word => j = Min(same)
<1>1. DOMAIN env = 1..Len(env) /\ Len(env) \in Nat
  BY EntryOf DEF ByRank
<1>2. \A i \in 1..Len(env) : i \in same <=> env[i].word = v.word
  BY <1>1 DEF SameName
<1>3. ASSUME same # {}
      PROVE  /\ Min(same) \in 1..Len(env)
             /\ env[Min(same)].word = v.word
             /\ \A j \in 1..Len(env) : env[j].word = v.word => j = Min(same)
  <2>1. PICK i \in same : TRUE
    BY <1>3
  <2>2. i \in 1..Len(env) /\ env[i].word = v.word
    BY <1>1, <1>2
  <2>3. \A j \in 1..Len(env) : env[j].word = v.word => j = i
    BY <2>2, NameOnce
  <2>4. same \subseteq 1..Len(env)
    BY <1>1
  <2>5. \A j \in same : j = i
    BY <1>2, <2>3, <2>4
  <2>6. i <= i
    BY <1>1, <2>2
  <2>7. Min(same) = i
    <3>1. \E x \in same : \A y \in same : x =< y
      BY <2>1, <2>5, <2>6
    <3>2. Min(same) \in same
      BY <3>1 DEF Min
    <3> QED BY <2>5, <3>2
  <2> QED BY <2>2, <2>3, <2>7
<1> QED BY <1>2, <1>3

Without(entries, word) == {e \in entries : e.word # word}

(* LaunchEnvironment::set: the entry, whatever was there, and the rest as it   *)
(* was, in order.                                                             *)
LEMMA SetFacts ==
  ASSUME NEW env, ByRank(env), NEW v \in Entries
  PROVE  /\ ByRank(SetVariable(env, v))
         /\ ToSet(SetVariable(env, v)) = Without(ToSet(env), v.word) \cup {v}
<1> DEFINE n == Len(env)
<1>1. env \in Seq(Entries) /\ n \in Nat /\ DOMAIN env = 1..n
  BY EntryOf DEF ByRank
<1>2. PICK same : same = {i \in DOMAIN env : SameName(env[i], v)}
  OBVIOUS
<1>3. SetVariable(env, v) =
        SortEntries(IF same = {} THEN Append(env, v) ELSE [env EXCEPT ![Min(same)] = v])
  BY <1>2 DEF SetVariable
<1>4. CASE same = {}
  <2>1. SetVariable(env, v) = Insert(env, v)
    BY <1>3, <1>4, SortAppended
  <2>2. \A i \in 1..n : env[i].word # v.word
    BY <1>2, <1>4, SamePosition
  <2>3. ByRank(Insert(env, v)) /\ ToSet(Insert(env, v)) = ToSet(env) \cup {v}
    BY <2>2, InsertNew
  <2>4. Without(ToSet(env), v.word) = ToSet(env)
    BY <1>1, <2>2 DEF Without, ToSet
  <2> QED BY <2>1, <2>3, <2>4
<1>5. CASE same # {}
  <2>0. /\ Min(same) \in 1..n /\ env[Min(same)].word = v.word
        /\ \A j \in 1..n : env[j].word = v.word => j = Min(same)
    <3>1. \A w : same = {i \in DOMAIN env : SameName(env[i], w)} =>
                 /\ Min(same) \in 1..n /\ env[Min(same)].word = w.word
                 /\ \A j \in 1..n : env[j].word = w.word => j = Min(same)
      BY <1>5, SamePosition
    <3> QED BY <1>2, <3>1, Zenon
  <2>1. PICK m \in 1..n : /\ m = Min(same) /\ env[m].word = v.word
                          /\ \A j \in 1..n : env[j].word = v.word => j = m
    BY <2>0, Zenon
  <2> DEFINE a == [env EXCEPT ![m] = v]
  <2>2. /\ a \in Seq(Entries) /\ Len(a) = n
        /\ \A j \in 1..n : a[j] = IF j = m THEN v ELSE env[j]
    BY <1>1, ExceptSeq
  <2>3. SetVariable(env, v) = SortEntries(a)
    BY <1>3, <1>5, <2>1
  <2> HIDE DEF a
  <2>4. \A j \in 1..n : a[j].word = env[j].word
    BY <2>1, <2>2
  <2>5. ByRank(a)
    BY <2>2, <2>4 DEF ByRank
  <2>6. SetVariable(env, v) = a
    BY <2>3, <2>5, SortOrdered
  <2>7. DOMAIN a = 1..n
    BY <2>2, LenProperties
  <2>8. ToSet(a) = Without(ToSet(env), v.word) \cup {v}
    <3>1. ASSUME NEW j \in 1..n PROVE a[j] \in Without(ToSet(env), v.word) \cup {v}
      BY <1>1, <2>1, <2>2 DEF Without, ToSet
    <3>2. v \in ToSet(a)
      BY <2>1, <2>2, <2>7 DEF ToSet
    <3>3. ASSUME NEW j \in 1..n, env[j].word # v.word PROVE env[j] \in ToSet(a)
      <4>1. j # m
        BY <2>1, <3>3
      <4>2. a[j] = env[j]
        BY <2>2, <4>1
      <4> QED BY <2>7, <4>2 DEF ToSet
    <3> QED BY <1>1, <2>7, <3>1, <3>2, <3>3 DEF ToSet, Without
  <2> QED BY <2>5, <2>6, <2>8
<1> QED BY <1>4, <1>5

LEMMA RemoveFacts ==
  ASSUME NEW env, ByRank(env), NEW v
  PROVE  /\ ByRank(RemoveVariable(env, v))
         /\ ToSet(RemoveVariable(env, v)) = Without(ToSet(env), v.word)
<1> DEFINE n == Len(env)
<1>1. env \in Seq(Entries) /\ n \in Nat /\ DOMAIN env = 1..n
  BY EntryOf DEF ByRank
<1>2. PICK same : same = {i \in DOMAIN env : SameName(env[i], v)}
  OBVIOUS
<1>3. RemoveVariable(env, v) = IF same = {} THEN env ELSE RemoveAt(env, Min(same))
  BY <1>2 DEF RemoveVariable
<1>4. CASE same = {}
  <2>1. \A i \in 1..n : env[i].word # v.word
    BY <1>2, <1>4, SamePosition
  <2>2. Without(ToSet(env), v.word) = ToSet(env)
    BY <1>1, <2>1 DEF Without, ToSet
  <2> QED BY <1>3, <1>4, <2>2
<1>5. CASE same # {}
  <2>0. /\ Min(same) \in 1..n /\ env[Min(same)].word = v.word
        /\ \A j \in 1..n : env[j].word = v.word => j = Min(same)
    BY <1>2, <1>5, SamePosition
  <2>1. PICK m \in 1..n : /\ m = Min(same) /\ env[m].word = v.word
                          /\ \A j \in 1..n : env[j].word = v.word => j = m
    BY <2>0, Zenon
  <2> DEFINE a == RemoveAt(env, m)
  <2>2. /\ a \in Seq(Entries) /\ Len(a) = n - 1
        /\ \A i \in 1..(n - 1) : a[i] = IF i < m THEN env[i] ELSE env[i + 1]
    BY <1>1, RemoveAtFacts
  <2>3. RemoveVariable(env, v) = a
    BY <1>3, <1>5, <2>1
  <2> HIDE DEF a, n
  <2>4. ASSUME NEW i \in 1..(n - 1)
        PROVE  \/ i < m /\ i \in 1..n /\ a[i] = env[i]
               \/ i >= m /\ i + 1 \in 1..n /\ a[i] = env[i + 1]
    BY <1>1, <2>1, <2>2
  <2>5. ASSUME NEW i \in 1..(n - 1), NEW j \in 1..(n - 1), i < j
        PROVE  Rank(a[i].word) < Rank(a[j].word)
    <3>1. \A x, y \in 1..n : x < y => Rank(env[x].word) < Rank(env[y].word)
      BY DEF ByRank, n
    <3>2. PICK x \in 1..n : a[i] = env[x] /\ ((x = i /\ i < m) \/ (x = i + 1 /\ i >= m))
      BY <2>4
    <3>3. PICK y \in 1..n : a[j] = env[y] /\ ((y = j /\ j < m) \/ (y = j + 1 /\ j >= m))
      BY <2>4
    <3>4. x < y
      BY <1>1, <2>5, <3>2, <3>3
    <3> QED BY <3>1, <3>2, <3>3, <3>4
  <2>6. ByRank(a)
    BY <2>2, <2>5 DEF ByRank
  <2>7. DOMAIN a = 1..(n - 1)
    BY <2>2, LenProperties
  <2>8. ASSUME NEW i \in 1..(n - 1) PROVE a[i] \in Without(ToSet(env), v.word)
    <3>1. PICK x \in 1..n : a[i] = env[x] /\ ((x = i /\ i < m) \/ (x = i + 1 /\ i >= m))
      BY <2>4
    <3>2. x # m
      BY <1>1, <2>1, <3>1
    <3>3. env[x].word # v.word
      BY <2>1, <3>2
    <3> QED BY <1>1, <3>1, <3>3 DEF Without, ToSet
  <2>9. ASSUME NEW j \in 1..n, env[j].word # v.word PROVE env[j] \in ToSet(a)
    <3>1. j # m
      BY <2>1, <2>9
    <3>2. CASE j < m
      <4>1. j \in 1..(n - 1) /\ a[j] = env[j]
        BY <1>1, <2>1, <2>2, <3>2
      <4> QED BY <2>7, <4>1 DEF ToSet
    <3>3. CASE j > m
      <4>1. j - 1 \in 1..(n - 1) /\ ~(j - 1 < m) /\ (j - 1) + 1 = j
        BY <1>1, <2>1, <3>3
      <4>2. a[j - 1] = env[j]
        BY <2>2, <4>1
      <4> QED BY <2>7, <4>1, <4>2 DEF ToSet
    <3> QED BY <1>1, <2>1, <3>1, <3>2, <3>3
  <2>10. ToSet(a) = Without(ToSet(env), v.word)
    BY <1>1, <2>7, <2>8, <2>9 DEF ToSet, Without
  <2> QED BY <2>3, <2>6, <2>10
<1> QED BY <1>4, <1>5
-------------------------------------------------------------------------------
(* from_current and bundled_r_environment.                                    *)

SetStep == [e \in Seq(Entries) |-> [v \in Entries |-> SetVariable(e, v)]]

RemoveStep ==
  [e \in Seq(Entries) |->
     [w \in ToSet(Words) |-> RemoveVariable(e, Variable(w, "upper", <<>>))]]

(* A sequence over a set is one over any set that holds its elements.         *)
LEMMA Narrowed ==
  ASSUME NEW S, NEW R, NEW s \in Seq(S), \A i \in 1..Len(s) : s[i] \in R
  PROVE  s \in Seq(R)
<1>1. Len(s) \in Nat /\ s \in [1..Len(s) -> S] /\ DOMAIN s = 1..Len(s)
  BY LenProperties
<1>2. s \in [1..Len(s) -> R]
  BY <1>1
<1> QED BY <1>1, <1>2, SeqDef

LEMMA SmallestExists ==
  ASSUME NEW S \in SUBSET Nat, S # {}
  PROVE  \E x \in S : \A y \in S : x <= y
<1> SUFFICES ASSUME \A x \in S : \E y \in S : ~(x <= y) PROVE FALSE
  OBVIOUS
<1> DEFINE T == {n \in Nat : \A m \in 0..n : m \notin S}
<1>1. 0 \in T
  BY SMT
<1>2. ASSUME NEW n \in Nat, n \in T PROVE n + 1 \in T
  <2>1. \A m \in 0..(n + 1) : m \in 0..n \/ m = n + 1
    OBVIOUS
  <2>2. \A m \in 0..n : m \notin S
    BY <1>2
  <2>3. n + 1 \notin S
    <3> SUFFICES ASSUME n + 1 \in S PROVE FALSE
      OBVIOUS
    <3>1. PICK y \in S : ~(n + 1 <= y)
      OBVIOUS
    <3>2. y \in 0..n
      BY <3>1
    <3> QED BY <2>2, <3>2
  <2> QED BY <2>1, <2>2, <2>3
<1> HIDE DEF T
<1>3. Nat \subseteq T
  BY <1>1, <1>2, SetOfNumbers
<1>4. PICK x \in S : TRUE
  OBVIOUS
<1>5. x \in T
  BY <1>3
<1>6. x \in 0..x
  OBVIOUS
<1> QED BY <1>4, <1>5, <1>6 DEF T

LEMMA SetAllAppend ==
  ASSUME NEW env, NEW vs \in Seq(Entries), NEW v \in Entries,
         SetAll(env, vs) \in Seq(Entries)
  PROVE  SetAll(env, Append(vs, v)) = SetVariable(SetAll(env, vs), v)
<1>1. \A u : SetAll(env, u) = Loop(SetStep, env, u)
  BY DEF SetAll, SetStep
<1>2. Loop(SetStep, env, Append(vs, v)) = SetStep[Loop(SetStep, env, vs)][v]
  BY LoopAppend
<1>3. \A e \in Seq(Entries) : SetStep[e][v] = SetVariable(e, v)
  BY DEF SetStep
<1> QED BY <1>1, <1>2, <1>3

LEMMA RemoveAllAppend ==
  ASSUME NEW env, NEW ws \in Seq(ToSet(Words)), NEW w \in ToSet(Words),
         RemoveAll(env, ws) \in Seq(Entries)
  PROVE  RemoveAll(env, Append(ws, w)) =
           RemoveVariable(RemoveAll(env, ws), Variable(w, "upper", <<>>))
<1>1. \A u : RemoveAll(env, u) = Loop(RemoveStep, env, u)
  BY DEF RemoveAll, RemoveStep
<1>2. Loop(RemoveStep, env, Append(ws, w)) = RemoveStep[Loop(RemoveStep, env, ws)][w]
  BY LoopAppend
<1>3. \A e \in Seq(Entries) : RemoveStep[e][w] = RemoveVariable(e, Variable(w, "upper", <<>>))
  BY DEF RemoveStep
<1> QED BY <1>1, <1>2, <1>3

(* One more call of set, and one more of remove.                              *)
LEMMA SetOneMore ==
  ASSUME NEW env, NEW vs \in Seq(Entries), NEW v \in Entries, ByRank(SetAll(env, vs))
  PROVE  /\ ByRank(SetAll(env, Append(vs, v)))
         /\ ToSet(SetAll(env, Append(vs, v))) =
              Without(ToSet(SetAll(env, vs)), v.word) \cup {v}
<1>1. SetAll(env, Append(vs, v)) = SetVariable(SetAll(env, vs), v)
  BY SetAllAppend DEF ByRank
<1>2. PICK e : e = SetAll(env, vs)
  OBVIOUS
<1> QED BY <1>1, <1>2, SetFacts

LEMMA RemoveOneMore ==
  ASSUME NEW env, NEW ws \in Seq(ToSet(Words)), NEW w \in ToSet(Words),
         ByRank(RemoveAll(env, ws))
  PROVE  /\ ByRank(RemoveAll(env, Append(ws, w)))
         /\ ToSet(RemoveAll(env, Append(ws, w))) = Without(ToSet(RemoveAll(env, ws)), w)
<1>1. RemoveAll(env, Append(ws, w)) =
        RemoveVariable(RemoveAll(env, ws), Variable(w, "upper", <<>>))
  BY RemoveAllAppend DEF ByRank
<1>2. PICK e : e = RemoveAll(env, ws)
  OBVIOUS
<1>3. PICK v : v = Variable(w, "upper", <<>>)
  OBVIOUS
<1>4. v.word = w
  BY <1>3 DEF Variable
<1> QED BY <1>1, <1>2, <1>3, <1>4, RemoveFacts

(* The entries of a sequence that no later entry of the same name replaces.   *)
Lasting(s) ==
  {e \in Entries : \E n \in 1..Len(s) :
     /\ s[n] = e
     /\ \A m \in 1..Len(s) : s[m].word = e.word => m <= n}

WordsOf(entries) == {e.word : e \in entries}

LEMMA LastingAppend ==
  ASSUME NEW s \in Seq(Entries), NEW v \in Entries
  PROVE  Without(Lasting(s), v.word) \cup {v} \subseteq Lasting(Append(s, v))
<1> DEFINE n == Len(s)
           t == Append(s, v)
<1>1. n \in Nat /\ Len(t) = n + 1 /\ t[n + 1] = v /\ \A i \in 1..n : t[i] = s[i]
  BY AppendProperties, LenProperties
<1> HIDE DEF t
<1>2. v \in Lasting(t)
  <2>1. n + 1 \in 1..Len(t) /\ \A m \in 1..Len(t) : m <= n + 1
    BY <1>1
  <2> QED BY <1>1, <2>1 DEF Lasting
<1>3. ASSUME NEW e \in Lasting(s), e.word # v.word PROVE e \in Lasting(t)
  <2>1. PICK k \in 1..n : s[k] = e /\ \A m \in 1..n : s[m].word = e.word => m <= k
    BY DEF Lasting
  <2>2. k \in 1..Len(t) /\ t[k] = e
    BY <1>1, <2>1
  <2>3. ASSUME NEW m \in 1..Len(t), t[m].word = e.word PROVE m <= k
    <3>1. m # n + 1
      BY <1>1, <1>3, <2>3
    <3>2. m \in 1..n
      BY <1>1, <3>1
    <3> QED BY <1>1, <2>1, <2>3, <3>2
  <2>4. e \in Entries
    BY DEF Lasting
  <2> QED BY <2>2, <2>3, <2>4 DEF Lasting
<1> QED BY <1>2, <1>3 DEF Without, t

LEMMA WordsAppend ==
  ASSUME NEW s \in Seq(Entries), NEW v \in Entries, NEW E, WordsOf(E) = WordsOf(ToSet(s))
  PROVE  WordsOf(Without(E, v.word) \cup {v}) = WordsOf(ToSet(Append(s, v)))
<1> DEFINE n == Len(s)
           t == Append(s, v)
<1>1. n \in Nat /\ Len(t) = n + 1 /\ t[n + 1] = v /\ (\A i \in 1..n : t[i] = s[i])
      /\ t \in Seq(Entries)
  BY AppendProperties, LenProperties
<1>2. DOMAIN s = 1..n /\ DOMAIN t = 1..(n + 1)
  BY <1>1, LenProperties
<1> HIDE DEF t
<1>3. ToSet(t) = ToSet(s) \cup {v}
  <2>1. \A i \in 1..(n + 1) : i \in 1..n \/ i = n + 1
    BY <1>1
  <2>2. 1..n \subseteq 1..(n + 1) /\ n + 1 \in 1..(n + 1)
    BY <1>1
  <2> QED BY <1>1, <1>2, <2>1, <2>2 DEF ToSet
<1>4. WordsOf(ToSet(t)) = WordsOf(ToSet(s)) \cup {v.word}
  BY <1>3 DEF WordsOf
<1>5. WordsOf(Without(E, v.word) \cup {v}) = WordsOf(E) \cup {v.word}
  BY DEF WordsOf, Without
<1> QED BY <1>4, <1>5 DEF t

LEMMA FromCurrentFacts ==
  ASSUME NEW s \in Seq(Entries)
  PROVE  /\ ByRank(FromCurrent(s))
         /\ ToSet(FromCurrent(s)) \subseteq Lasting(s)
         /\ WordsOf(ToSet(FromCurrent(s))) = WordsOf(ToSet(s))
<1> DEFINE F(u) == SetAll(<<>>, u)
           T == {u \in Seq(Entries) : /\ ByRank(F(u))
                                      /\ ToSet(F(u)) \subseteq Lasting(u)
                                      /\ WordsOf(ToSet(F(u))) = WordsOf(ToSet(u))}
<1>1. <<>> \in T
  <2>1. F(<<>>) = <<>>
    BY LoopEmpty DEF SetAll
  <2>2. ByRank(<<>>)
    BY DEF ByRank
  <2>3. ToSet(<<>>) = {}
    BY DEF ToSet
  <2>4. <<>> \in Seq(Entries)
    OBVIOUS
  <2> QED BY <2>1, <2>2, <2>3, <2>4
<1>2. ASSUME NEW u \in Seq(Entries), NEW v \in Entries, u \in T PROVE Append(u, v) \in T
  <2>1. Append(u, v) \in Seq(Entries)
    BY AppendProperties
  <2>2. /\ ByRank(F(Append(u, v)))
        /\ ToSet(F(Append(u, v))) = Without(ToSet(F(u)), v.word) \cup {v}
    BY <1>2, SetOneMore
  <2>3. ToSet(F(Append(u, v))) \subseteq Lasting(Append(u, v))
    <3>1. Without(ToSet(F(u)), v.word) \subseteq Without(Lasting(u), v.word)
      BY <1>2 DEF Without
    <3>2. Without(Lasting(u), v.word) \cup {v} \subseteq Lasting(Append(u, v))
      BY LastingAppend
    <3> QED BY <2>2, <3>1, <3>2
  <2>4. WordsOf(ToSet(F(Append(u, v)))) = WordsOf(ToSet(Append(u, v)))
    <3>1. PICK E : E = ToSet(F(u))
      OBVIOUS
    <3>2. WordsOf(E) = WordsOf(ToSet(u))
      BY <1>2, <3>1
    <3>3. WordsOf(Without(E, v.word) \cup {v}) = WordsOf(ToSet(Append(u, v)))
      BY <3>2, WordsAppend
    <3> QED BY <2>2, <3>1, <3>3
  <2> QED BY <2>1, <2>2, <2>3, <2>4
<1> HIDE DEF T
<1>3. s \in T
  <2>1. Seq(Entries) \subseteq T
    BY <1>1, <1>2, SetOfSequences
  <2> QED BY <2>1
<1> QED BY <1>3 DEF T, FromCurrent
LEMMA AmbientSet ==
  /\ ToSet(AmbientRVariables) = {"R_HOME", "R_LIBS", "R_PROFILE", "RPACKIT_LAUNCH_PROTOCOL"}
  /\ {"R_HOME", "R_LIBS", "R_PROFILE", "RPACKIT_LAUNCH_PROTOCOL"} \cup {"PATH"} \subseteq ToSet(Words)
<1>1. ToSet(AmbientRVariables) = {"R_HOME", "R_LIBS", "R_PROFILE", "RPACKIT_LAUNCH_PROTOCOL"}
  BY DEF ToSet, AmbientRVariables
<1> QED BY <1>1, WordsAssumption

(* The four calls of remove that the model has for AMBIENT_R_VARIABLES.       *)
LEMMA RemoveAllFacts ==
  ASSUME NEW env, ByRank(env)
  PROVE  /\ ByRank(RemoveAll(env, AmbientRVariables))
         /\ ToSet(RemoveAll(env, AmbientRVariables)) =
              {e \in ToSet(env) : e.word \notin ToSet(AmbientRVariables)}
<1> DEFINE W == ToSet(Words)
           R(ws) == RemoveAll(env, ws)
<1>1. PICK w1 \in W, w2 \in W, w3 \in W, w4 \in W : AmbientRVariables = <<w1, w2, w3, w4>>
  BY AmbientSet DEF AmbientRVariables
<1>2. /\ <<>> \in Seq(W) /\ <<w1>> \in Seq(W) /\ <<w1, w2>> \in Seq(W)
      /\ <<w1, w2, w3>> \in Seq(W)
      /\ <<w1>> = Append(<<>>, w1) /\ <<w1, w2>> = Append(<<w1>>, w2)
      /\ <<w1, w2, w3>> = Append(<<w1, w2>>, w3)
      /\ <<w1, w2, w3, w4>> = Append(<<w1, w2, w3>>, w4)
  OBVIOUS
<1> HIDE DEF W
<1>3. R(<<>>) = env
  BY LoopEmpty DEF RemoveAll
<1> HIDE DEF R
<1>4. \A ws \in Seq(W) : \A w \in W : ByRank(R(ws)) =>
         ByRank(R(Append(ws, w))) /\ ToSet(R(Append(ws, w))) = Without(ToSet(R(ws)), w)
  BY RemoveOneMore DEF W, R
<1>5. ByRank(R(<<w1>>)) /\ ToSet(R(<<w1>>)) = Without(ToSet(env), w1)
  BY <1>2, <1>3, <1>4
<1>6. ByRank(R(<<w1, w2>>)) /\ ToSet(R(<<w1, w2>>)) = Without(ToSet(R(<<w1>>)), w2)
  BY <1>2, <1>4, <1>5
<1>7. ByRank(R(<<w1, w2, w3>>)) /\ ToSet(R(<<w1, w2, w3>>)) = Without(ToSet(R(<<w1, w2>>)), w3)
  BY <1>2, <1>4, <1>6
<1>8. /\ ByRank(R(<<w1, w2, w3, w4>>))
      /\ ToSet(R(<<w1, w2, w3, w4>>)) = Without(ToSet(R(<<w1, w2, w3>>)), w4)
  BY <1>2, <1>4, <1>7
<1>9. ToSet(R(<<w1, w2, w3, w4>>)) = {e \in ToSet(env) : e.word \notin {w1, w2, w3, w4}}
  BY <1>5, <1>6, <1>7, <1>8 DEF Without
<1>10. ToSet(AmbientRVariables) = {w1, w2, w3, w4}
  BY <1>1 DEF ToSet
<1> QED BY <1>1, <1>8, <1>9, <1>10 DEF R

(* Entries of four different names.                                           *)
Four(v1, v2, v3, v4) ==
  /\ v1 \in Entries /\ v2 \in Entries /\ v3 \in Entries /\ v4 \in Entries
  /\ v1.word \notin {v2.word, v3.word, v4.word} /\ v2.word \notin {v3.word, v4.word}
  /\ v3.word # v4.word

(* The four calls of set that follow.                                         *)
LEMMA SetFour ==
  ASSUME NEW env, ByRank(env), NEW v1, NEW v2, NEW v3, NEW v4, Four(v1, v2, v3, v4)
  PROVE  /\ ByRank(SetAll(env, <<v1, v2, v3, v4>>))
         /\ ToSet(SetAll(env, <<v1, v2, v3, v4>>)) =
              {e \in ToSet(env) : e.word \notin {v1.word, v2.word, v3.word, v4.word}}
                \cup {v1, v2, v3, v4}
<1> DEFINE R(vs) == SetAll(env, vs)
<1>1. /\ v1 \in Entries /\ v2 \in Entries /\ v3 \in Entries /\ v4 \in Entries
      /\ v1.word \notin {v2.word, v3.word, v4.word} /\ v2.word \notin {v3.word, v4.word}
      /\ v3.word # v4.word
  BY DEF Four
<1>2. /\ <<>> \in Seq(Entries) /\ <<v1>> \in Seq(Entries) /\ <<v1, v2>> \in Seq(Entries)
      /\ <<v1, v2, v3>> \in Seq(Entries)
      /\ <<v1>> = Append(<<>>, v1) /\ <<v1, v2>> = Append(<<v1>>, v2)
      /\ <<v1, v2, v3>> = Append(<<v1, v2>>, v3)
      /\ <<v1, v2, v3, v4>> = Append(<<v1, v2, v3>>, v4)
  BY <1>1
<1>3. R(<<>>) = env
  BY LoopEmpty DEF SetAll
<1> HIDE DEF R
<1>4. \A vs \in Seq(Entries) : \A v \in Entries : ByRank(R(vs)) =>
         /\ ByRank(R(Append(vs, v)))
         /\ ToSet(R(Append(vs, v))) = Without(ToSet(R(vs)), v.word) \cup {v}
  BY SetOneMore DEF R
<1>5. ByRank(R(<<v1>>)) /\ ToSet(R(<<v1>>)) = Without(ToSet(env), v1.word) \cup {v1}
  BY <1>1, <1>2, <1>3, <1>4
<1>6. ByRank(R(<<v1, v2>>)) /\ ToSet(R(<<v1, v2>>)) = Without(ToSet(R(<<v1>>)), v2.word) \cup {v2}
  BY <1>1, <1>2, <1>4, <1>5
<1>7. /\ ByRank(R(<<v1, v2, v3>>))
      /\ ToSet(R(<<v1, v2, v3>>)) = Without(ToSet(R(<<v1, v2>>)), v3.word) \cup {v3}
  BY <1>1, <1>2, <1>4, <1>6
<1>8. /\ ByRank(R(<<v1, v2, v3, v4>>))
      /\ ToSet(R(<<v1, v2, v3, v4>>)) = Without(ToSet(R(<<v1, v2, v3>>)), v4.word) \cup {v4}
  BY <1>1, <1>2, <1>4, <1>7
<1>9. ToSet(R(<<v1, v2, v3, v4>>)) =
        {e \in ToSet(env) : e.word \notin {v1.word, v2.word, v3.word, v4.word}}
          \cup {v1, v2, v3, v4}
  BY <1>1, <1>5, <1>6, <1>7, <1>8 DEF Without
<1> QED BY <1>8, <1>9 DEF R

LEMMA VarOsTyped ==
  ASSUME NEW s \in Seq(Entries), NEW word
  PROVE  VarOs(s, word) \in Seq(ValueUnits)
<1>1. PICK found : found = {i \in DOMAIN s : s[i].word = word}
  OBVIOUS
<1>2. DOMAIN s = 1..Len(s) /\ Len(s) \in Nat /\ \A i \in 1..Len(s) : s[i] \in Entries
  BY EntryOf
<1>3. CASE found = {}
  BY <1>1, <1>3 DEF VarOs
<1>4. CASE found # {}
  <2>1. found \in SUBSET Nat
    BY <1>1, <1>2
  <2>2. \E x \in found : \A y \in found : x <= y
    BY <1>4, <2>1, SmallestExists
  <2>3. PICK k : k = CHOOSE i \in found : \A j \in found : i <= j
    OBVIOUS
  <2>4. k \in found
    BY <2>2, <2>3
  <2>5. VarOs(s, word) = s[k].value
    BY <1>1, <1>4, <2>3 DEF VarOs
  <2>6. s[k] \in Entries
    BY <1>1, <1>2, <2>4
  <2>7. s[k].value \in Seq(ValueUnits)
    BY <2>6 DEF Entries
  <2> QED BY <2>5, <2>7
<1> QED BY <1>3, <1>4

(* What from_current accepts is an entry as the launcher keeps it.            *)
LEMMA AcceptedEntries ==
  ASSUME NEW ambient \in Seq(AmbientEntries),
         \A i \in DOMAIN ambient : ValidName(ambient[i]) /\ ValidValue(ambient[i])
  PROVE  ambient \in Seq(Entries)
<1>1. DOMAIN ambient = 1..Len(ambient) /\ \A i \in 1..Len(ambient) : ambient[i] \in AmbientEntries
  BY LenProperties, ElementOfSeq
<1>2. ASSUME NEW v \in AmbientEntries, ValidName(v), ValidValue(v) PROVE v \in Entries
  <2>1. /\ v = [word |-> v.word, spelling |-> v.spelling, value |-> v.value]
        /\ v.word \in ToSet(Words) \cup {DriveName} /\ v.spelling \in Spelling
        /\ v.value \in Seq(ValueUnits \cup {Nul})
    BY DEF AmbientEntries
  <2>2. v.word \in ToSet(Words)
    BY <1>2, <2>1 DEF ValidName
  <2>3. v.value \in Seq(ValueUnits)
    <3>1. PICK x : x = v.value
      OBVIOUS
    <3>2. x \in Seq(ValueUnits \cup {Nul}) /\ Nul \notin ToSet(x)
      BY <1>2, <2>1, <3>1 DEF ValidValue
    <3>3. DOMAIN x = 1..Len(x) /\ \A i \in 1..Len(x) : x[i] \in ValueUnits \cup {Nul}
      BY <3>2, LenProperties, ElementOfSeq
    <3>4. \A i \in 1..Len(x) : x[i] # Nul
      BY <3>2, <3>3 DEF ToSet
    <3>5. \A i \in 1..Len(x) : x[i] \in ValueUnits
      BY <3>3, <3>4
    <3>6. x \in Seq(ValueUnits)
      BY <3>2, <3>5, Narrowed
    <3> QED BY <3>1, <3>6
  <2> QED BY <2>1, <2>2, <2>3 DEF Entries
<1>3. \A i \in 1..Len(ambient) : ambient[i] \in Entries
  BY <1>1, <1>2
<1> QED BY <1>3, Narrowed

LEMMA OwnedEntry ==
  ASSUME NEW w \in ToSet(Words), NEW value \in Seq(ValueUnits)
  PROVE  Variable(w, "upper", value) \in Entries /\ Variable(w, "upper", value).word = w
BY DEF Variable, Entries, Spelling

(***************************************************************************)
(* bundled_r_environment, for every environment that from_current accepts:   *)
(* in order, what it keeps of the owner's own, and its own four variables.    *)
(***************************************************************************)
LEMMA BundledFacts ==
  ASSUME NEW s \in Seq(Entries)
  PROVE  /\ ByRank(BundledREnvironment(s))
         /\ ToSet(BundledREnvironment(s)) =
              {e \in ToSet(FromCurrent(s)) : e.word \notin ToSet(AmbientRVariables) \cup {"PATH"}}
                \cup {Variable("R_HOME", "upper", <<"bundle">>),
                      Variable("R_LIBS", "upper", <<"bundle">>),
                      Variable("RPACKIT_LAUNCH_PROTOCOL", "upper", <<"2">>),
                      Variable("PATH", "upper", <<"x64", "bin">> \o VarOs(s, "PATH"))}
<1> DEFINE cleared == RemoveAll(FromCurrent(s), AmbientRVariables)
<1>1. PICK v1, v2, v3, v4 :
        /\ v1 = Variable("R_HOME", "upper", <<"bundle">>)
        /\ v2 = Variable("R_LIBS", "upper", <<"bundle">>)
        /\ v3 = Variable("RPACKIT_LAUNCH_PROTOCOL", "upper", <<"2">>)
        /\ v4 = Variable("PATH", "upper", <<"x64", "bin">> \o VarOs(s, "PATH"))
  OBVIOUS
<1>2. {"R_HOME", "R_LIBS", "RPACKIT_LAUNCH_PROTOCOL", "PATH"} \subseteq ToSet(Words)
  BY AmbientSet
<1>3. /\ <<"bundle">> \in Seq(ValueUnits) /\ <<"2">> \in Seq(ValueUnits)
      /\ <<"x64", "bin">> \in Seq(ValueUnits)
  BY ValueUnitsAssumption
<1>4. <<"x64", "bin">> \o VarOs(s, "PATH") \in Seq(ValueUnits)
  BY <1>3, VarOsTyped, ConcatProperties
<1>5. /\ v1 \in Entries /\ v1.word = "R_HOME"
      /\ v2 \in Entries /\ v2.word = "R_LIBS"
  BY <1>1, <1>2, <1>3, OwnedEntry
<1>6. /\ v3 \in Entries /\ v3.word = "RPACKIT_LAUNCH_PROTOCOL"
      /\ v4 \in Entries /\ v4.word = "PATH"
  BY <1>1, <1>2, <1>3, <1>4, OwnedEntry
<1>7. /\ ByRank(cleared)
      /\ ToSet(cleared) =
           {e \in ToSet(FromCurrent(s)) : e.word \notin ToSet(AmbientRVariables)}
  <2>1. PICK f : f = FromCurrent(s)
    OBVIOUS
  <2>2. ByRank(f)
    BY <2>1, FromCurrentFacts
  <2> QED BY <2>1, <2>2, RemoveAllFacts
<1>8. BundledREnvironment(s) = SetAll(cleared, <<v1, v2, v3, v4>>)
  BY <1>1 DEF BundledREnvironment
<1> HIDE DEF cleared
<1>9. /\ ByRank(SetAll(cleared, <<v1, v2, v3, v4>>))
      /\ ToSet(SetAll(cleared, <<v1, v2, v3, v4>>)) =
           {e \in ToSet(cleared) : e.word \notin {v1.word, v2.word, v3.word, v4.word}}
             \cup {v1, v2, v3, v4}
  <2>1. Four(v1, v2, v3, v4)
    BY <1>5, <1>6 DEF Four
  <2> QED BY <1>7, <2>1, SetFour
<1>10. ToSet(AmbientRVariables) = {"R_HOME", "R_LIBS", "R_PROFILE", "RPACKIT_LAUNCH_PROTOCOL"}
  BY AmbientSet
<1>11. {e \in ToSet(cleared) : e.word \notin {v1.word, v2.word, v3.word, v4.word}} =
         {e \in ToSet(FromCurrent(s)) : e.word \notin ToSet(AmbientRVariables) \cup {"PATH"}}
  BY <1>5, <1>6, <1>7, <1>10
<1> QED BY <1>1, <1>8, <1>9, <1>11
(* The parts of BundledExactly, over the positions of the block.              *)
LEMMA BundledParts ==
  ASSUME NEW s \in Seq(Entries), NEW env, env = BundledREnvironment(s)
  PROVE  BundledExactly(env, s)
<1> DEFINE F == ToSet(FromCurrent(s))
           kept == {e \in F : e.word \notin ToSet(AmbientRVariables) \cup {"PATH"}}
           path == <<"x64", "bin">> \o VarOs(s, "PATH")
<1>1. PICK v1, v2, v3, v4 :
        /\ v1 = Variable("R_HOME", "upper", <<"bundle">>)
        /\ v2 = Variable("R_LIBS", "upper", <<"bundle">>)
        /\ v3 = Variable("RPACKIT_LAUNCH_PROTOCOL", "upper", <<"2">>)
        /\ v4 = Variable("PATH", "upper", path)
  OBVIOUS
<1>2. ByRank(env) /\ ToSet(env) = kept \cup {v1, v2, v3, v4}
  BY <1>1, BundledFacts
<1>3. /\ v1.word = "R_HOME" /\ v1.value = <<"bundle">>
      /\ v2.word = "R_LIBS" /\ v2.value = <<"bundle">>
  BY <1>1 DEF Variable
<1>4. /\ v3.word = "RPACKIT_LAUNCH_PROTOCOL" /\ v3.value = <<"2">>
      /\ v4.word = "PATH" /\ v4.value = path
  BY <1>1 DEF Variable
<1>5. DOMAIN env = 1..Len(env) /\ DOMAIN s = 1..Len(s)
  BY <1>2, EntryOf DEF ByRank
<1>6. ToSet(AmbientRVariables) = {"R_HOME", "R_LIBS", "R_PROFILE", "RPACKIT_LAUNCH_PROTOCOL"}
  BY AmbientSet
<1> HIDE DEF path
<1>7. \A i, j \in DOMAIN env : i < j => Rank(env[i].word) < Rank(env[j].word)
  BY <1>2, <1>5 DEF ByRank
<1>8. ASSUME NEW e \in kept
      PROVE  /\ e.word \notin ToSet(AmbientRVariables) \cup {"PATH"}
             /\ \E n \in DOMAIN s :
                  /\ s[n] = e
                  /\ \A m \in DOMAIN s : s[m].word = e.word => m <= n
  <2>1. e \in Lasting(s)
    BY FromCurrentFacts
  <2> QED BY <1>5, <2>1 DEF Lasting
<1>9. ASSUME NEW i \in DOMAIN env
      PROVE  CASE env[i].word \in {"R_HOME", "R_LIBS"} -> env[i].value = <<"bundle">>
               [] env[i].word = "RPACKIT_LAUNCH_PROTOCOL" -> env[i].value = <<"2">>
               [] env[i].word = "PATH" -> env[i].value = path
               [] OTHER -> \E n \in DOMAIN s :
                             /\ s[n] = env[i]
                             /\ \A m \in DOMAIN s : s[m].word = env[i].word => m <= n
  <2>1. PICK e : e = env[i]
    OBVIOUS
  <2>2. e \in kept \/ e \in {v1, v2, v3, v4}
    BY <1>2, <2>1 DEF ToSet
  <2>3. CASE e \in kept
    <3>1. /\ e.word \notin {"R_HOME", "R_LIBS"} /\ e.word # "RPACKIT_LAUNCH_PROTOCOL"
          /\ e.word # "PATH"
      BY <1>6, <1>8, <2>3
    <3> QED BY <1>8, <2>1, <2>3, <3>1
  <2>4. CASE e \in {v1, v2}
    BY <1>3, <2>1, <2>4
  <2>5. CASE e = v3
    BY <1>4, <2>1, <2>5
  <2>6. CASE e = v4
    BY <1>4, <2>1, <2>6
  <2> QED BY <2>2, <2>3, <2>4, <2>5, <2>6
<1>10. {env[i].word : i \in DOMAIN env} = WordsOf(ToSet(env))
  BY DEF ToSet, WordsOf
<1>11. {s[n].word : n \in DOMAIN s} = WordsOf(ToSet(s))
  BY DEF ToSet, WordsOf
<1>12. WordsOf(F) = WordsOf(ToSet(s))
  BY FromCurrentFacts
<1>13. WordsOf(kept) = WordsOf(F) \ (ToSet(AmbientRVariables) \cup {"PATH"})
  BY DEF WordsOf
<1>14. WordsOf(ToSet(env)) =
         WordsOf(kept) \cup {"R_HOME", "R_LIBS", "RPACKIT_LAUNCH_PROTOCOL", "PATH"}
  BY <1>2, <1>3, <1>4 DEF WordsOf
<1> HIDE DEF F, kept
<1>15. {env[i].word : i \in DOMAIN env} =
         {"R_HOME", "R_LIBS", "RPACKIT_LAUNCH_PROTOCOL", "PATH"}
           \cup ({s[n].word : n \in DOMAIN s} \ ToSet(AmbientRVariables))
  BY <1>10, <1>11, <1>12, <1>13, <1>14
<1> QED BY <1>7, <1>9, <1>15 DEF BundledExactly, path

(***************************************************************************)
(* bundled_r_environment, whatever the owner was started with, in whatever   *)
(* order, case and number of duplicates, as long as from_current accepts it:  *)
(* one entry per name in the order CreateProcessW asks for, no ambient R      *)
(* setting left, the bundle's own values, and the rest with its last value.   *)
(***************************************************************************)
THEOREM EnvironmentBundled ==
  ASSUME NEW ambient \in Seq(AmbientEntries),
         \A i \in DOMAIN ambient : ValidName(ambient[i]) /\ ValidValue(ambient[i])
  PROVE  /\ BundledREnvironment(ambient) \in Seq(Entries)
         /\ BundledExactly(BundledREnvironment(ambient), ambient)
<1>1. ambient \in Seq(Entries)
  BY AcceptedEntries
<1>2. ByRank(BundledREnvironment(ambient))
  BY <1>1, BundledFacts
<1>3. PICK env : env = BundledREnvironment(ambient)
  OBVIOUS
<1>4. BundledExactly(env, ambient)
  BY <1>1, <1>3, BundledParts
<1> QED BY <1>2, <1>3, <1>4 DEF ByRank
===============================================================================
