----------------------- MODULE SessionLifecycleProofs -----------------------
(***************************************************************************)
(* Proofs about SessionLifecycle, for any number of generations, resume    *)
(* requests, reopenings and failing writes, and with crashes.              *)
(*                                                                         *)
(* The argument: from its first step until its driver has scheduled the    *)
(* finalizer, a generation owns the session and its record is unfinished   *)
(* (WorkInv).  Nothing can take the session from it, because a handle is   *)
(* completed only by a finalizer, which the generation schedules last      *)
(* (FinInv), and replaced only by a resume that saw an ended record, which *)
(* no handle that still works lets it see (FreshInv, ClaimInv).            *)
(***************************************************************************)
EXTENDS SessionLifecycle, TLAPS

-----------------------------------------------------------------------------
(* Type correctness: every action leaves the registry, the durable record *)
(* and the tasks in flight in their types.                                *)

\* The values that the actions write into the record, the transitions, the
\* finalizers and the resumes have the types of those.
LEMMA TypeOfRecs ==
    ASSUME TypeOK
    PROVE  /\ NoRec \in RecType
           /\ [phase |-> "creating", status |-> "creating", pending |-> "none"] \in RecType
           /\ ReconciledRec \in RecType
           /\ \A s \in Statuses : TransitionedRec(s) \in RecType
           /\ \A s \in {"none"} \cup Terminal : FinalizedRec(s) \in RecType
           /\ \A r \in Resumers : resume[r].seen \in RecType
BY Zenon DEF TypeOK, NoRec, ReconciledRec, TransitionedRec, FinalizedRec, RecType,
       Phases, Statuses, Terminal, ResumeType

LEMMA TypeOfTrans ==
    ASSUME TypeOK
    PROVE  /\ Idle \in TransType
           /\ \A s \in Statuses, b \in {"no", "yes"}, a \in TransSteps :
                 [at |-> a, status |-> s, already |-> b] \in TransType
           /\ \A x \in TransType, a \in TransSteps : [x EXCEPT !.at = a] \in TransType
           /\ \A x \in TransType : x.status \in Statuses
BY DEF TypeOK, Idle, TransType, TransSteps, Statuses, Terminal

LEMMA TypeOfFin ==
    ASSUME TypeOK
    PROVE  /\ NoFin \in FinType
           /\ \A s \in {"none"} \cup Terminal :
                 [at |-> "scan", fallback |-> s, epoch |-> 0, final |-> "none"] \in FinType
           /\ \A x \in FinType :
                 /\ [x EXCEPT !.at = "capture"] \in FinType
                 /\ [x EXCEPT !.at = "history", !.epoch = epoch] \in FinType
                 /\ \A s \in Statuses : [x EXCEPT !.at = "publish", !.final = s] \in FinType
                 /\ x.fallback \in {"none"} \cup Terminal
                 /\ x.final \in Statuses
<1>1. NoFin \in FinType
  BY BoundsAssumption DEF NoFin, FinType, FinSteps, Statuses
<1>2. ASSUME NEW x \in FinType
      PROVE  [x EXCEPT !.at = "history", !.epoch = epoch] \in FinType
  <2>1. epoch \in 0 .. MaxEpoch
    BY BoundsAssumption DEF TypeOK
  <2>2. QED
    BY <2>1, Zenon DEF FinType, FinSteps
<1>3. ASSUME NEW x \in FinType, NEW s \in Statuses
      PROVE  [x EXCEPT !.at = "publish", !.final = s] \in FinType
  BY BoundsAssumption, Zenon DEF FinType, FinSteps, Statuses, Terminal
<1>4. ASSUME NEW x \in FinType
      PROVE  [x EXCEPT !.at = "capture"] \in FinType
  BY BoundsAssumption DEF FinType, FinSteps, Statuses, Terminal
<1>5. ASSUME NEW s \in {"none"} \cup Terminal
      PROVE  [at |-> "scan", fallback |-> s, epoch |-> 0, final |-> "none"] \in FinType
  BY BoundsAssumption DEF FinType, FinSteps, Statuses, Terminal
<1>6. ASSUME NEW x \in FinType
      PROVE  x.fallback \in {"none"} \cup Terminal /\ x.final \in Statuses
  BY DEF FinType
<1>7. QED
  BY <1>1, <1>2, <1>3, <1>4, <1>5, <1>6, Zenon

LEMMA TypeOfResumes ==
    ASSUME TypeOK
    PROVE  /\ NoResume \in ResumeType
           /\ [NoResume EXCEPT !.at = "read", !.expected = live] \in ResumeType
           /\ \A g \in 0 .. MaxGen :
                 [NoResume EXCEPT !.at = "started", !.gen = g] \in ResumeType
           /\ \A x \in ResumeType :
                 /\ [x EXCEPT !.at = "install", !.seen = rec] \in ResumeType
                 /\ \A g, h \in 0 .. MaxGen :
                      [x EXCEPT !.at = "persist", !.gen = g, !.prev = h] \in ResumeType
                 /\ [x EXCEPT !.at = "unwind"] \in ResumeType
                 /\ [x EXCEPT !.at = "restore"] \in ResumeType
                 /\ x.gen \in 0 .. MaxGen /\ x.prev \in 0 .. MaxGen
<1>1. NoResume \in ResumeType
  BY BoundsAssumption, TypeOfRecs DEF NoResume, ResumeType, ResumeSteps
<1>2. ASSUME NEW x \in ResumeType
      PROVE  [x EXCEPT !.at = "read", !.expected = live] \in ResumeType
  BY BoundsAssumption, Zenon DEF TypeOK, ResumeType, ResumeSteps
<1>3. ASSUME NEW x \in ResumeType, NEW g \in 0 .. MaxGen
      PROVE  [x EXCEPT !.at = "started", !.gen = g] \in ResumeType
  BY Zenon DEF ResumeType, ResumeSteps
<1>4. ASSUME NEW x \in ResumeType
      PROVE  [x EXCEPT !.at = "install", !.seen = rec] \in ResumeType
  BY BoundsAssumption, Zenon DEF TypeOK, ResumeType, ResumeSteps
<1>5. ASSUME NEW x \in ResumeType, NEW g \in 0 .. MaxGen, NEW h \in 0 .. MaxGen
      PROVE  [x EXCEPT !.at = "persist", !.gen = g, !.prev = h] \in ResumeType
  BY Zenon DEF ResumeType, ResumeSteps
<1>6. ASSUME NEW x \in ResumeType
      PROVE  /\ [x EXCEPT !.at = "unwind"] \in ResumeType
             /\ [x EXCEPT !.at = "restore"] \in ResumeType
  BY DEF ResumeType, ResumeSteps
<1>7. ASSUME NEW x \in ResumeType
      PROVE  x.gen \in 0 .. MaxGen /\ x.prev \in 0 .. MaxGen
  BY DEF ResumeType
<1>8. QED
  BY <1>1, <1>2, <1>3, <1>4, <1>5, <1>6, <1>7, Zenon

\* Resume requests
LEMMA TypeOfResumeStep ==
    ASSUME TypeOK, NEW r \in Resumers, ResumeCapture(r) \/ ResumeStep(r)
    PROVE  TypeOK'
<1>0. /\ resume \in [Resumers -> ResumeType] /\ resume[r] \in ResumeType
      /\ rec \in RecType /\ live \in 0 .. MaxGen
  BY DEF TypeOK
<1>1. CASE ResumeCapture(r)
  BY <1>1, TypeOfResumes, Zenon DEF ResumeCapture, ResumeUnchanged, TypeOK
<1>2. CASE ResumeRead(r)
  BY <1>2, TypeOfResumes, Zenon DEF ResumeRead, ResumeUnchanged, TypeOK
<1>3. CASE ResumeInstall(r)
  <2>1. CASE ResumeAdmits(r)
    <3>1. next \in Gens /\ next \in 0 .. MaxGen /\ next + 1 \in 1 .. MaxGen + 1
      BY <2>1, BoundsAssumption DEF ResumeAdmits, TypeOK, Gens
    <3>2. resume' \in [Resumers -> ResumeType]
      <4> DEFINE x == [resume[r] EXCEPT !.at = "persist", !.gen = next, !.prev = live]
      <4>1. x \in ResumeType
        BY <1>0, <3>1, TypeOfResumes, Zenon
      <4>2. resume' = [resume EXCEPT ![r] = x]
        BY <1>3, <2>1 DEF ResumeInstall
      <4> HIDE DEF x
      <4>3. QED
        BY <1>0, <4>1, <4>2
    <3>3. /\ next' \in 1 .. MaxGen + 1 /\ live' \in 0 .. MaxGen
          /\ phase' \in [Gens -> Phases] /\ status' \in [Gens -> Statuses]
          /\ resuming' \subseteq Gens
      BY <1>3, <2>1, <3>1 DEF ResumeInstall, InstallHandle, Phases, Statuses, TypeOK
    <3>4. QED
      BY <1>3, <2>1, <3>2, <3>3 DEF ResumeInstall, ResumeUnchanged, TypeOK
  <2>2. CASE ~ResumeAdmits(r)
    BY <1>3, <2>2, TypeOfResumes, Zenon DEF ResumeInstall, ResumeUnchanged, TypeOK
  <2>3. QED
    BY <2>1, <2>2
<1>4. CASE ResumePersist(r)
  <2>1. resume' \in [Resumers -> ResumeType]
    BY <1>0, <1>4, TypeOfResumes, Zenon DEF ResumePersist
  <2>2. run' \in [Gens -> RunSteps]
    BY <1>4 DEF ResumePersist, Goto, RunSteps, TypeOK
  <2>3. rec' \in RecType /\ faults' \in 0 .. MaxFaults
    BY <1>4, TypeOfRecs, BoundsAssumption DEF ResumePersist, WriteFails, TypeOK
  <2>4. QED
    BY <1>4, <2>1, <2>2, <2>3 DEF ResumePersist, ResumeUnchanged, TypeOK
<1>5. CASE ResumeUnwind(r)
  <2>1. resume' \in [Resumers -> ResumeType]
    BY <1>0, <1>5, TypeOfResumes, Zenon DEF ResumeUnwind
  <2>2. live' \in 0 .. MaxGen
    BY <1>0, <1>5, TypeOfResumes, Zenon DEF ResumeUnwind
  <2>3. QED
    BY <1>5, <2>1, <2>2 DEF ResumeUnwind, ResumeUnchanged, TypeOK
<1>6. CASE ResumeRestore(r)
  <2>1. resume' \in [Resumers -> ResumeType]
    BY <1>0, <1>6, TypeOfResumes, Zenon DEF ResumeRestore
  <2>2. rec' \in RecType /\ faults' \in 0 .. MaxFaults
    BY <1>6, TypeOfRecs, BoundsAssumption DEF ResumeRestore, WriteFails, TypeOK
  <2>3. QED
    BY <1>6, <2>1, <2>2 DEF ResumeRestore, ResumeUnchanged, TypeOK
<1>7. CASE ResumeReturns(r)
  BY <1>7, TypeOfResumes, Zenon DEF ResumeReturns, ResumeUnchanged, TypeOK
<1>8. QED
  BY <1>1, <1>2, <1>3, <1>4, <1>5, <1>6, <1>7 DEF ResumeStep

\* Startup
LEMMA TypeOfAbort ==
    ASSUME TypeOK, NEW g \in Gens, NEW to \in RunSteps, AbortStartup(g, to)
    PROVE  /\ run' \in [Gens -> RunSteps] /\ closed' \subseteq Gens
           /\ child' \in [Gens -> {"none", "running", "exited", "lost"}]
           /\ pid' \in 0 .. MaxGen /\ fin' \in [Fins -> FinType]
           /\ spawned' = spawned
<1>1. fin' \in [Fins -> FinType]
  BY TypeOfFin, Zenon DEF AbortStartup, Schedule, Fins, Terminal, TypeOK
<1>2. QED
  BY <1>1, BoundsAssumption DEF AbortStartup, Goto, TypeOK

LEMMA TypeOfStartStep ==
    ASSUME TypeOK, NEW g \in Gens, StartStep(g)
    PROVE  TypeOK'
<1>0. \A s \in RunSteps : Goto(g, s) \in [Gens -> RunSteps]
  BY DEF Goto, TypeOK
<1>r. /\ Request(<<g, "start">>, "killed") \in [Gens \X Roles -> TransType]
      /\ Request(<<g, "start">>, "error") \in [Gens \X Roles -> TransType]
      /\ Request(<<g, "start">>, "running") \in [Gens \X Roles -> TransType]
  BY TypeOfTrans, Zenon DEF Request, TypeOK, TransSteps, Statuses, Terminal
<1>i. [trans EXCEPT ![<<g, "start">>] = Idle] \in [Gens \X Roles -> TransType]
  BY TypeOfTrans, Zenon DEF TypeOK
<1>f. \A k \in {1, 2}, s \in Terminal : Schedule(g, k, s) \in [Fins -> FinType]
  BY TypeOfFin, Zenon DEF Schedule, TypeOK
<1>1. CASE StartCancelled(g) \/ StartFails(g) \/ StartChecked(g)
  BY <1>0, <1>1 DEF StartCancelled, StartFails, StartChecked, StartUnchanged,
       TypeOK, RunSteps
<1>2. CASE StartIsolateCancelled(g)
  BY <1>0, <1>r, <1>2, Zenon DEF StartIsolateCancelled, StartUnchanged, TypeOK, RunSteps
<1>10. CASE PublishRunning(g)
  BY <1>0, <1>r, <1>10, Zenon DEF PublishRunning, StartUnchanged, TypeOK, RunSteps
<1>11. CASE ReportFailure(g)
  BY <1>0, <1>r, <1>11, Zenon DEF ReportFailure, StartUnchanged, TypeOK, RunSteps
<1>3. CASE StartIsolateSettled(g) \/ CancellationSettled(g)
  <2>1. /\ run' \in [Gens -> RunSteps] /\ trans' \in [Gens \X Roles -> TransType]
        /\ fin' \in [Fins -> FinType] /\ closed' \subseteq Gens
    BY <1>0, <1>i, <1>f, <1>3, Zenon DEF StartIsolateSettled, CancellationSettled,
       RunSteps, Terminal, TypeOK
  <2>2. UNCHANGED <<spawned, child, pid>> /\ StartUnchanged
    BY <1>3 DEF StartIsolateSettled, CancellationSettled
  <2>3. QED
    BY <2>1, <2>2 DEF StartUnchanged, TypeOK
<1>4. CASE FailureSettled(g)
  BY <1>0, <1>i, <1>f, <1>4 DEF FailureSettled, StartUnchanged, TypeOK, RunSteps,
       Terminal
<1>5. CASE SpawnChild(g)
  BY <1>0, <1>5 DEF SpawnChild, StartUnchanged, TypeOK, RunSteps
<1>12. CASE MarkSpawned(g)
  <2>1. CASE Owns(g)
    BY <1>0, <1>12, <2>1 DEF MarkSpawned, StartUnchanged, TypeOK, RunSteps
  <2>2. CASE ~Owns(g)
    BY <1>0, <1>12, <2>2 DEF MarkSpawned, StartUnchanged, TypeOK, RunSteps
  <2>3. QED
    BY <2>1, <2>2
<1>13. CASE RegisterPid(g)
  BY <1>0, <1>13, BoundsAssumption DEF RegisterPid, StartUnchanged, TypeOK, RunSteps, Gens
<1>6. CASE SetupFails(g)
  BY <1>6, TypeOfAbort DEF SetupFails, StartUnchanged, TypeOK, RunSteps
<1>7. CASE RunningSettled(g)
  <2>1. CASE trans[<<g, "start">>].at = "applied"
    BY <1>0, <1>i, <1>7, <2>1 DEF RunningSettled, StartUnchanged, TypeOK, RunSteps
  <2>2. CASE trans[<<g, "start">>].at = "refused"
    BY <1>i, <1>7, <2>2, TypeOfAbort DEF RunningSettled, StartUnchanged, TypeOK, RunSteps
  <2>3. QED
    BY <1>7, <2>1, <2>2 DEF RunningSettled
<1>8. CASE FinishCancellation(g)
  BY <1>0, <1>r, <1>8, Zenon DEF FinishCancellation, StartUnchanged, TypeOK, RunSteps
<1>9. QED
  BY <1>1, <1>2, <1>3, <1>4, <1>5, <1>6, <1>7, <1>8, <1>10, <1>11, <1>12, <1>13
     DEF StartStep

\* The driver
LEMMA TypeOfDriverStep ==
    ASSUME TypeOK, NEW g \in Gens, DriverStep(g) \/ ChildExits(g) \/ StopChild(g)
    PROVE  TypeOK'
<1>0. \A s \in RunSteps : Goto(g, s) \in [Gens -> RunSteps]
  BY DEF Goto, TypeOK
<1>e. exitAs[g] \in {"none"} \cup Terminal /\ exitAs[g] \in Statuses
  BY DEF TypeOK, Statuses
<1>1. CASE ChildExits(g)
  BY <1>1 DEF ChildExits, DriverUnchanged, TypeOK
<1>2. CASE ObserveExit(g)
  <2>1. exitAs' \in [Gens -> {"none"} \cup Terminal]
    BY <1>2 DEF ObserveExit, TypeOK, Terminal
  <2>2. QED
    BY <1>0, <1>2, <2>1 DEF ObserveExit, DriverUnchanged, TypeOK, RunSteps
<1>3. CASE ExitRequest(g)
  <2>1. Request(<<g, "exit">>, exitAs[g]) \in [Gens \X Roles -> TransType]
    BY <1>e, TypeOfTrans, Zenon DEF Request, TypeOK, TransSteps
  <2>2. QED
    <3>0. trans \in [Gens \X Roles -> TransType]
      BY DEF TypeOK
    <3>1. run' \in [Gens -> RunSteps] /\ trans' \in [Gens \X Roles -> TransType]
      BY <1>0, <1>3, <2>1, <3>0, Zenon DEF ExitRequest, RunSteps
    <3>2. /\ UNCHANGED <<phase, status, attached, closed, child, pid, exitAs, fin>>
          /\ DriverUnchanged
      BY <1>3 DEF ExitRequest
    <3>3. QED
      BY <3>1, <3>2 DEF DriverUnchanged, TypeOK
<1>4. CASE ExitSettled(g)
  <2>1. [trans EXCEPT ![<<g, "exit">>] = Idle] \in [Gens \X Roles -> TransType]
    BY TypeOfTrans, Zenon DEF TypeOK
  <2>2. QED
    BY <1>0, <1>4, <2>1 DEF ExitSettled, DriverUnchanged, TypeOK, RunSteps
<1>5. CASE ExitTimeout(g)
  <2>1. phase' \in [Gens -> Phases] /\ status' \in [Gens -> Statuses]
    BY <1>5 DEF ExitTimeout, TypeOK, Phases, Statuses
  <2>2. QED
    BY <1>0, <1>5, <2>1 DEF ExitTimeout, DriverUnchanged, TypeOK, RunSteps
<1>6. CASE ExitDetach(g)
  BY <1>0, <1>6 DEF ExitDetach, DriverUnchanged, TypeOK, RunSteps
<1>7. CASE ExitClear(g)
  <2>1. Schedule(g, 1, exitAs[g]) \in [Fins -> FinType]
    BY <1>e, TypeOfFin, Zenon DEF Schedule, TypeOK
  <2>2. pid' \in 0 .. MaxGen
    BY <1>7, BoundsAssumption DEF ExitClear, TypeOK
  <2>3. QED
    BY <1>0, <1>7, <2>1, <2>2 DEF ExitClear, DriverUnchanged, TypeOK, RunSteps
<1>8. CASE SignalChild(g)
  BY <1>0, <1>8 DEF SignalChild, DriverUnchanged, TypeOK, RunSteps
<1>9. QED
  BY <1>1, <1>2, <1>3, <1>4, <1>5, <1>6, <1>7, <1>8 DEF DriverStep, KillChild, StopChild

\* Status transitions
LEMMA TypeOfTransitionStep ==
    ASSUME TypeOK, NEW g \in Gens, NEW role \in Roles, TransitionStep(g, role)
    PROVE  TypeOK'
<1> DEFINE t == <<g, role>>
           s == trans[t].status
<1>0. s \in Statuses /\ t \in Gens \X Roles
  BY TypeOfTrans DEF TypeOK
<1>s. \A a \in TransSteps : Settle(t, a) \in [Gens \X Roles -> TransType]
  BY <1>0, TypeOfTrans DEF Settle, TypeOK
<1>1. CASE TransitionRefused(g, role)
  BY <1>s, <1>1, Zenon DEF TransitionRefused, TransUnchanged, TypeOK, TransSteps
<1>2. CASE TransitionHandle(g, role)
  <2>1. trans' \in [Gens \X Roles -> TransType]
    BY <1>0, <1>2, TypeOfTrans, Zenon DEF TransitionHandle, TransSteps, TypeOK
  <2>2. phase' \in [Gens -> Phases] /\ status' \in [Gens -> Statuses]
    BY <1>0, <1>2 DEF TransitionHandle, TypeOK, Phases, Statuses
  <2>3. lock' \in (Gens \X Roles) \cup {NoTask}
    BY <1>0, <1>2 DEF TransitionHandle
  <2>4. QED
    BY <1>2, <2>1, <2>2, <2>3 DEF TransitionHandle, TransUnchanged, TypeOK
<1>3. CASE PersistTransition(g, role)
  <2>1. trans' \in [Gens \X Roles -> TransType]
    BY <1>s, <1>3 DEF PersistTransition, TransSteps
  <2>2. rec' \in RecType /\ faults' \in 0 .. MaxFaults
    <3>1. CASE WriteFails /\ UNCHANGED rec
      BY <3>1, BoundsAssumption DEF WriteFails, TypeOK
    <3>2. CASE UNCHANGED faults
      BY <1>0, <1>3, <3>2, TypeOfRecs DEF PersistTransition, TypeOK
    <3>3. QED
      BY <1>3, <3>1, <3>2 DEF PersistTransition
  <2>3. QED
    BY <1>3, <2>1, <2>2 DEF PersistTransition, TransUnchanged, TypeOK
<1>4. QED
  BY <1>1, <1>2, <1>3 DEF TransitionStep

\* The finalizer
LEMMA TypeOfFinStep ==
    ASSUME TypeOK, NEW g \in Gens, NEW k \in {1, 2}, FinStep(g, k)
    PROVE  TypeOK'
<1> DEFINE f == <<g, k>>
<1>0. f \in Fins /\ fin[f] \in FinType /\ fin \in [Fins -> FinType]
  BY DEF TypeOK, Fins
<1>s. FinStop(f) => fin' \in [Fins -> FinType]
  BY <1>0, TypeOfFin, Zenon DEF FinStop
<1>1. CASE FinScan(g, k)
  <2>1. fin' \in [Fins -> FinType]
    BY <1>0, <1>s, <1>1, TypeOfFin, Zenon DEF FinScan
  <2>2. QED
    BY <1>1, <2>1 DEF FinScan, FinUnchanged, TypeOK
<1>2. CASE FinCapture(g, k)
  <2>1. fin' \in [Fins -> FinType]
    BY <1>0, <1>s, <1>2, TypeOfFin, Zenon DEF FinCapture
  <2>2. QED
    BY <1>2, <2>1 DEF FinCapture, FinUnchanged, TypeOK
<1>3. CASE FinHistory(g, k)
  <2>1. /\ FinalizedRec(fin[f].fallback) \in RecType
        /\ FinalizedRec(fin[f].fallback).status \in Statuses
        /\ fin[f].fallback \in Statuses
    BY <1>0, TypeOfRecs, TypeOfFin, Zenon DEF RecType, Statuses
  <2>2. fin' \in [Fins -> FinType]
    <3>1. ASSUME NEW s \in Statuses,
                 fin' = [fin EXCEPT ![f] = [@ EXCEPT !.at = "publish", !.final = s]]
          PROVE  fin' \in [Fins -> FinType]
      <4> DEFINE x == [fin[f] EXCEPT !.at = "publish", !.final = s]
      <4>1. x \in FinType
        BY <1>0, TypeOfFin, Zenon
      <4>2. fin' = [fin EXCEPT ![f] = x]
        BY <3>1
      <4> HIDE DEF x
      <4>3. QED
        BY <1>0, <4>1, <4>2
    <3>2. CASE FinStop(f)
      BY <1>s, <3>2
    <3>3. \/ FinStop(f)
          \/ fin' = [fin EXCEPT ![f] = [@ EXCEPT !.at = "publish",
                       !.final = FinalizedRec(fin[f].fallback).status]]
          \/ fin' = [fin EXCEPT ![f] = [@ EXCEPT !.at = "publish",
                       !.final = fin[f].fallback]]
      BY <1>3, Zenon DEF FinHistory
    <3>4. QED
      BY <2>1, <3>1, <3>2, <3>3, Zenon
  <2>3. rec' \in RecType /\ faults' \in 0 .. MaxFaults
    BY <1>3, <2>1, BoundsAssumption DEF FinHistory, WriteFails, TypeOK
  <2>4. QED
    BY <1>3, <2>2, <2>3 DEF FinHistory, FinUnchanged, TypeOK
<1>4. CASE FinPublish(g, k)
  <2>1. phase' \in [Gens -> Phases] /\ status' \in [Gens -> Statuses]
        /\ resuming' \subseteq Gens
    BY <1>0, <1>4, TypeOfFin, Zenon DEF FinPublish, TypeOK, Phases
  <2>2. QED
    BY <1>s, <1>4, <2>1 DEF FinPublish, FinUnchanged, TypeOK
<1>5. QED
  BY <1>1, <1>2, <1>3, <1>4 DEF FinStep

\* Requests of clients
LEMMA TypeOfRequest ==
    ASSUME TypeOK, NEW g \in Gens,
           \/ RequestStop(g) \/ DeleteSession(g) \/ DeleteReturns(g)
           \/ Attach(g) \/ Detach(g)
    PROVE  TypeOK'
<1>1. CASE RequestStop(g)
  BY <1>1 DEF RequestStop, UserUnchanged, TypeOK
<1>2. CASE DeleteSession(g)
  <2>1. Request(<<g, "kill">>, "killed") \in [Gens \X Roles -> TransType]
    BY TypeOfTrans, Zenon DEF Request, TypeOK, TransSteps, Statuses, Terminal
  <2>2. reserved' \subseteq Gens \X (1 .. MaxEpoch) /\ killed' \subseteq Gens
    BY <1>2 DEF DeleteSession, TypeOK
  <2>3. QED
    BY <1>2, <2>1, <2>2 DEF DeleteSession, UserUnchanged, TypeOK
<1>3. CASE DeleteReturns(g)
  BY <1>3 DEF DeleteReturns, UserUnchanged, TypeOK
<1>4. CASE Attach(g) \/ Detach(g)
  BY <1>4 DEF Attach, Detach, UserUnchanged, TypeOK
<1>5. QED
  BY <1>1, <1>2, <1>3, <1>4

LEMMA TypeOfCreate ==
    ASSUME TypeOK, CreateSession PROVE TypeOK'
<1>1. 1 \in Gens /\ next = 1 /\ next + 1 \in 1 .. MaxGen + 1 /\ 1 \in 0 .. MaxGen
  BY BoundsAssumption DEF Gens, CreateSession
<1>2. rec' \in RecType /\ faults' \in 0 .. MaxFaults
  BY TypeOfRecs, BoundsAssumption DEF CreateSession, WriteFails, TypeOK
<1>3. run' \in [Gens -> RunSteps]
  BY <1>1 DEF CreateSession, Goto, RunSteps, TypeOK
<1>4. /\ next' \in 1 .. MaxGen + 1 /\ live' \in 0 .. MaxGen
      /\ phase' \in [Gens -> Phases] /\ status' \in [Gens -> Statuses]
  BY <1>1 DEF CreateSession, InstallHandle, Phases, Statuses, TypeOK
<1>5. QED
  BY <1>2, <1>3, <1>4 DEF CreateSession, TypeOK

LEMMA TypeOfForget ==
    ASSUME TypeOK, ForgetSession PROVE TypeOK'
<1>1. rec' \in RecType
  BY TypeOfRecs DEF ForgetSession
<1>2. live' \in 0 .. MaxGen /\ pid' \in 0 .. MaxGen
  BY BoundsAssumption DEF ForgetSession
<1>3. UNCHANGED <<attached, killed, trans, reserved>> /\ UserUnchanged
  BY DEF ForgetSession
<1>4. QED
  BY <1>1, <1>2, <1>3 DEF UserUnchanged, TypeOK

\* Reopening the workspace and restarting the sidecar
LEMMA TypeOfReconcile ==
    ASSUME TypeOK, NEW b, Reconcile(b)
    PROVE  rec' \in RecType /\ faults' \in 0 .. MaxFaults
BY TypeOfRecs, BoundsAssumption DEF Reconcile, WriteFails, TypeOK

LEMMA TypeOfOpen ==
    ASSUME TypeOK, ReopenWorkspace \/ CrashRestart PROVE TypeOK'
<1>1. CASE ReopenWorkspace
  <2>1. epoch' \in 1 .. MaxEpoch
    BY <1>1, BoundsAssumption DEF ReopenWorkspace, TypeOK
  <2>2. rec' \in RecType /\ faults' \in 0 .. MaxFaults
    BY <1>1, TypeOfReconcile DEF ReopenWorkspace
  <2>3. QED
    BY <1>1, <2>1, <2>2 DEF ReopenWorkspace, handleVars, taskVars, TypeOK
<1>2. CASE CrashRestart
  <2>1. epoch' \in 1 .. MaxEpoch
    BY <1>2, BoundsAssumption DEF CrashRestart, TypeOK
  <2>2. rec' \in RecType /\ faults' \in 0 .. MaxFaults
    BY <1>2, TypeOfReconcile, Zenon DEF CrashRestart
  <2>3. /\ trans' \in [Gens \X Roles -> TransType]
        /\ fin' \in [Fins -> FinType]
        /\ resume' \in [Resumers -> ResumeType]
    BY <1>2, TypeOfTrans, TypeOfFin, TypeOfResumes, Zenon DEF CrashRestart
  <2>4. /\ phase' \in [Gens -> Phases] /\ status' \in [Gens -> Statuses]
        /\ run' \in [Gens -> RunSteps] /\ exitAs' \in [Gens -> {"none"} \cup Terminal]
        /\ child' \in [Gens -> {"none", "running", "exited", "lost"}]
    BY <1>2 DEF CrashRestart, Phases, Statuses, RunSteps, TypeOK
  <2>5. QED
    BY <1>2, <2>1, <2>2, <2>3, <2>4, BoundsAssumption DEF CrashRestart, TypeOK
<1>3. QED
  BY <1>1, <1>2

\* Every step of the sidecar, its clients and its children keeps the types.
LEMMA TypeOfNext == TypeOK /\ [Next]_vars => TypeOK'
<1> SUFFICES ASSUME TypeOK, [Next]_vars PROVE TypeOK'
  OBVIOUS
<1>1. CASE UserStep
  BY <1>1, TypeOfCreate, TypeOfForget, TypeOfResumeStep, TypeOfRequest,
     TypeOfDriverStep DEF UserStep
<1>2. ASSUME NEW r \in Resumers, ResumeStep(r) PROVE TypeOK'
  BY <1>2, TypeOfResumeStep
<1>3. ASSUME NEW g \in Gens, StartStep(g) \/ DriverStep(g) PROVE TypeOK'
  BY <1>3, TypeOfStartStep, TypeOfDriverStep
<1>4. ASSUME NEW g \in Gens, NEW role \in Roles, TransitionStep(g, role) PROVE TypeOK'
  BY <1>4, TypeOfTransitionStep
<1>5. ASSUME NEW g \in Gens, NEW k \in {1, 2}, FinStep(g, k) PROVE TypeOK'
  BY <1>5, TypeOfFinStep
<1>6. CASE ReopenWorkspace \/ CrashRestart
  BY <1>6, TypeOfOpen
<1>7. CASE UNCHANGED vars
  BY <1>7 DEF vars, handleVars, taskVars, TypeOK
<1>8. QED
  BY <1>1, <1>2, <1>3, <1>4, <1>5, <1>6, <1>7 DEF Next

\* The registry, the record and the tasks in flight keep their types, whatever
\* the sidecar, its clients, its children and failing writes do.
THEOREM LifecycleTypeOK == Spec => []TypeOK
<1>1. Init => TypeOK
  <2>1. ASSUME Init PROVE TypeOK
    <3>1. /\ NoRec \in RecType /\ Idle \in TransType
      BY DEF NoRec, RecType, Phases, Statuses, Terminal, Idle, TransType, TransSteps
    <3>2. NoFin \in FinType
      BY BoundsAssumption DEF NoFin, FinType, FinSteps, Statuses
    <3>3. NoResume \in ResumeType
      BY <3>1, BoundsAssumption DEF NoResume, ResumeType, ResumeSteps
    <3>4. QED
      BY <2>1, <3>1, <3>2, <3>3, BoundsAssumption
         DEF Init, TypeOK, Phases, Statuses, RunSteps, Gens
  <2>2. QED
    BY <2>1
<1>2. QED
  BY <1>1, TypeOfNext, PTL DEF Spec

-----------------------------------------------------------------------------
(* Who owns the session *)

(* The steps of a generation that is at work, those with a child process   *)
(* and those with a tracked one, and the steps after its work.             *)
WithChild == {"spawned", "marked", "setup", "publishing", "driving", "stopping"}
Exiting   == {"exiting", "settling", "detaching", "clearing"}
Working   == {"prep", "isolated", "spawning"} \cup WithChild \cup Exiting
Tracked   == {"setup", "publishing", "driving", "stopping"} \cup Exiting
Over      == {"cancelled", "failed", "reporting", "killing", "done"}
Unended   == {"creating", "active", "ending"}

WorkInv ==
    \A g \in Gens : run[g] \in Working =>
        Owns(g) /\ phase[g] \in Unended /\ rec.phase \notin {"none", "ended"}

ProcInv ==
    /\ \A g \in Gens : child[g] = "running" => run[g] \in WithChild
    /\ pid # 0 => run[pid] \in Tracked

(* The exit callback waits for a terminal transition, and whatever it      *)
(* answers, the handle is ending.                                          *)
ExitInv ==
    \A g \in Gens :
        /\ run[g] \in {"detaching", "clearing"} => phase[g] = "ending"
        /\ run[g] \in Exiting => exitAs[g] \in Terminal
        /\ run[g] = "settling" =>
              /\ trans[<<g, "exit">>].status \in Terminal
              /\ trans[<<g, "exit">>].at \in {"persist", "applied", "refused"}
                    => phase[g] = "ending"

FinInv == \A g \in Gens, k \in {1, 2} : fin[<<g, k>>].at # "idle" => run[g] \in Over

NextInv ==
    /\ live < next
    /\ live # 0 => phase[live] # "none"
    /\ \A g \in Gens : g >= next => run[g] = "none" /\ g \notin spawned
    /\ \A r \in Resumers : resume[r].expected < next /\ resume[r].prev < next

(* An admission that is not handed over yet is the only one and owns the   *)
(* session; what it replaced was ended.                                    *)
ClaimInv ==
    /\ \A r \in Resumers : resume[r].at \in {"persist", "unwind"} =>
          /\ resume[r].gen \in Gens /\ Owns(resume[r].gen)
          /\ phase[resume[r].gen] \in Unended
          /\ resume[r].gen \in resuming \ spawned
          /\ run[resume[r].gen] = "none"
    /\ \A r, q \in Resumers :
          /\ resume[r].at \in {"persist", "unwind"}
          /\ resume[q].at \in {"persist", "unwind"}
          => r = q
    /\ \A r \in Resumers :
          /\ resume[r].at \in {"persist", "unwind", "restore"}
          /\ resume[r].prev # 0
          => phase[resume[r].prev] = "ended"

(* A handle that is not a resume's has never seen an ended record. *)
FreshInv ==
    live # 0 /\ live \notin resuming /\ phase[live] \in {"creating", "active"} =>
        /\ rec.phase # "ended"
        /\ \A r \in Resumers :
              resume[r].at = "install" /\ resume[r].expected = live
                 => resume[r].seen.phase # "ended"

OwnInv == WorkInv /\ ProcInv /\ ExitInv /\ FinInv /\ NextInv /\ ClaimInv /\ FreshInv

-----------------------------------------------------------------------------
(* Steps of a generation's own task *)

\* A generation that moves on in its task, without touching the registry or
\* the record, keeps what the invariant says of those.
LEMMA TaskMoves ==
    ASSUME TypeOK, OwnInv, NEW g \in Gens, NEW to \in RunSteps,
           run[g] # "none", to # "none", to \in Working => run[g] \in Working,
           run' = Goto(g, to), spawned' \in {spawned, spawned \cup {g}},
           UNCHANGED <<next, live, phase, resuming, rec, resume>>
    PROVE  WorkInv' /\ NextInv' /\ ClaimInv' /\ FreshInv'
<1>0. run' = [run EXCEPT ![g] = to] /\ run \in [Gens -> RunSteps]
  BY DEF Goto, TypeOK
<1>1. WorkInv'
  BY <1>0 DEF OwnInv, WorkInv, Owns
<1>2. NextInv'
  BY <1>0 DEF OwnInv, NextInv
<1>3. ClaimInv'
  BY <1>0 DEF OwnInv, ClaimInv, Owns
<1>4. FreshInv'
  BY DEF OwnInv, FreshInv
<1>5. QED
  BY <1>1, <1>2, <1>3, <1>4

\* Outside the exit callback the waiting transition is not looked at.
LEMMA ExitUntouched ==
    ASSUME TypeOK, OwnInv, NEW g \in Gens, NEW to \in RunSteps \ Exiting,
           run' = Goto(g, to), UNCHANGED <<phase, exitAs>>,
           \A h \in Gens : h # g => trans'[<<h, "exit">>] = trans[<<h, "exit">>]
    PROVE  ExitInv'
BY Zenon DEF OwnInv, ExitInv, Goto, TypeOK, Exiting

\* A finalizer is scheduled by a generation whose work is over.
LEMMA FinScheduled ==
    ASSUME TypeOK, OwnInv, NEW g \in Gens, NEW to \in RunSteps,
           run' = Goto(g, to), run[g] \in Over => to \in Over,
           \/ fin' = fin
           \/ to \in Over /\ \E k \in {1, 2}, s \in Statuses : fin' = Schedule(g, k, s)
    PROVE  FinInv'
<1>0. run' = [run EXCEPT ![g] = to] /\ run \in [Gens -> RunSteps]
  BY DEF Goto, TypeOK
<1>1. CASE fin' = fin
  BY <1>0, <1>1, Zenon DEF OwnInv, FinInv
<1>2. CASE to \in Over /\ \E k \in {1, 2}, s \in Statuses : fin' = Schedule(g, k, s)
  <2>1. \A h \in Gens, k \in {1, 2} : h # g => fin'[<<h, k>>] = fin[<<h, k>>]
    BY <1>2 DEF Schedule, TypeOK, Fins
  <2>2. QED
    BY <1>0, <1>2, <2>1, Zenon DEF OwnInv, FinInv
<1>3. QED
  BY <1>1, <1>2

\* A step of the startup task is a move of the task: only the transition and
\* the finalizer of its own generation are touched.
LEMMA StartMoves ==
    ASSUME TypeOK, OwnInv, NEW g \in Gens, NEW to \in RunSteps \ Exiting,
           run[g] # "none", to # "none", run[g] \in Over => to \in Over,
           to \in Working => run[g] \in Working,
           run' = Goto(g, to), spawned' \in {spawned, spawned \cup {g}},
           StartUnchanged,
           \/ trans' = trans
           \/ \E x \in TransType : trans' = [trans EXCEPT ![<<g, "start">>] = x],
           \/ fin' = fin
           \/ to \in Over /\ \E k \in {1, 2}, s \in Statuses : fin' = Schedule(g, k, s),
           ProcInv'
    PROVE  OwnInv'
<1>1. WorkInv' /\ NextInv' /\ ClaimInv' /\ FreshInv'
  BY TaskMoves DEF StartUnchanged
<1>2. ExitInv'
  <2>1. \A h \in Gens : trans'[<<h, "exit">>] = trans[<<h, "exit">>]
    BY DEF TypeOK, Roles
  <2>2. QED
    BY <2>1, ExitUntouched DEF StartUnchanged
<1>3. FinInv'
  BY FinScheduled
<1>4. QED
  BY <1>1, <1>2, <1>3 DEF OwnInv

\* What a request or an answer leaves in the transition of the startup task.
LEMMA StartTransition ==
    ASSUME TypeOK, NEW g \in Gens
    PROVE  /\ Idle \in TransType
           /\ \A s \in Statuses :
                 \E x \in TransType :
                    Request(<<g, "start">>, s) = [trans EXCEPT ![<<g, "start">>] = x]
BY Zenon DEF Idle, TransType, TransSteps, Statuses, Terminal, Request

\* The startup task up to the spawn of the child.
LEMMA BeforeSpawn ==
    ASSUME TypeOK, OwnInv, NEW g \in Gens,
           \/ StartCancelled(g) \/ StartIsolateCancelled(g)
           \/ StartIsolateSettled(g) \/ StartFails(g) \/ StartChecked(g)
    PROVE  OwnInv'
<1>0. /\ run \in [Gens -> RunSteps] /\ run[g] \in {"prep", "isolated", "spawning"}
      /\ UNCHANGED <<child, pid, spawned>> /\ StartUnchanged
  BY DEF TypeOK, StartCancelled, StartIsolateCancelled, StartIsolateSettled,
         StartFails, StartChecked
<1>1. child[g] # "running" /\ pid # g
  BY <1>0 DEF Gens, OwnInv, ProcInv, WithChild, Tracked, Exiting
<1>2. ASSUME NEW to \in {"cancelled", "isolated", "failed", "spawning"},
             run' = Goto(g, to)
      PROVE  ProcInv'
  BY <1>0, <1>1, <1>2 DEF OwnInv, ProcInv, Goto
<1>3. CASE StartCancelled(g)
  BY <1>0, <1>2, <1>3, StartMoves DEF StartCancelled, Working, WithChild, Exiting, Tracked, Over, RunSteps, Statuses, Terminal
<1>4. CASE StartIsolateCancelled(g)
  BY <1>0, <1>2, <1>4, StartMoves, StartTransition, Zenon
     DEF StartIsolateCancelled, Working, WithChild, Exiting, Tracked, Over, RunSteps, Statuses, Terminal
<1>5. CASE StartIsolateSettled(g)
  BY <1>0, <1>2, <1>5, StartMoves, StartTransition, Zenon
     DEF StartIsolateSettled, Working, WithChild, Exiting, Tracked, Over, RunSteps, Statuses, Terminal
<1>6. CASE StartFails(g)
  BY <1>0, <1>2, <1>6, StartMoves DEF StartFails, Working, WithChild, Exiting, Tracked, Over, RunSteps, Statuses, Terminal
<1>7. CASE StartChecked(g)
  BY <1>0, <1>2, <1>7, StartMoves DEF StartChecked, Working, WithChild, Exiting, Tracked, Over, RunSteps, Statuses, Terminal
<1>8. QED
  BY <1>3, <1>4, <1>5, <1>6, <1>7

\* The startup task from the spawn to the registered process.
LEMMA Spawning ==
    ASSUME TypeOK, OwnInv, NEW g \in Gens,
           SpawnChild(g) \/ MarkSpawned(g) \/ RegisterPid(g) \/ PublishRunning(g)
    PROVE  OwnInv'
<1>0. /\ run \in [Gens -> RunSteps]
      /\ child \in [Gens -> {"none", "running", "exited", "lost"}]
  BY DEF TypeOK
<1>1. CASE SpawnChild(g)
  <2>1. ProcInv'
    BY <1>0, <1>1 DEF OwnInv, ProcInv, SpawnChild, Goto, WithChild, Tracked, Exiting
  <2>2. QED
    BY <1>1, <2>1, StartMoves DEF SpawnChild, Working, WithChild, Exiting, Tracked, Over, RunSteps, Statuses, Terminal
<1>2. CASE MarkSpawned(g)
  <2>1. run' = Goto(g, "marked") /\ spawned' = spawned \cup {g} /\ UNCHANGED child
    BY <1>2 DEF OwnInv, WorkInv, MarkSpawned, Working, WithChild
  <2>2. ProcInv'
    BY <1>0, <1>2, <2>1 DEF OwnInv, ProcInv, MarkSpawned, Goto, WithChild, Tracked, Exiting
  <2>3. QED
    BY <1>2, <2>1, <2>2, StartMoves DEF MarkSpawned, Working, WithChild, Exiting, Tracked, Over, RunSteps, Statuses, Terminal
<1>3. CASE RegisterPid(g)
  <2>1. ProcInv'
    BY <1>0, <1>3 DEF OwnInv, ProcInv, RegisterPid, Goto, WithChild, Tracked, Exiting
  <2>2. QED
    BY <1>3, <2>1, StartMoves DEF RegisterPid, Working, WithChild, Exiting, Tracked, Over, RunSteps, Statuses, Terminal
<1>4. CASE PublishRunning(g)
  <2>1. ProcInv'
    BY <1>0, <1>4 DEF OwnInv, ProcInv, PublishRunning, Goto, WithChild, Tracked, Exiting
  <2>2. QED
    BY <1>4, <2>1, StartMoves, StartTransition, Zenon DEF PublishRunning, Working, WithChild, Exiting, Tracked, Over, RunSteps, Statuses, Terminal
<1>5. QED
  BY <1>1, <1>2, <1>3, <1>4

\* A startup that is given up after the spawn: nothing else can have become
\* the owner, so the process is untracked with the child's end.
LEMMA AbortMoves ==
    ASSUME TypeOK, OwnInv, NEW g \in Gens, NEW to \in {"cancelled", "failed"},
           run[g] \in {"setup", "publishing"}, AbortStartup(g, to), StartUnchanged,
           \/ trans' = trans
           \/ \E x \in TransType : trans' = [trans EXCEPT ![<<g, "start">>] = x]
    PROVE  OwnInv'
<1>0. /\ run \in [Gens -> RunSteps]
      /\ child \in [Gens -> {"none", "running", "exited", "lost"}]
  BY DEF TypeOK
<1>1. run' = Goto(g, to) /\ child' = [child EXCEPT ![g] = "exited"] /\ pid' = 0
  BY DEF AbortStartup, OwnInv, WorkInv, Working, WithChild
<1>2. ProcInv'
  BY <1>0, <1>1 DEF OwnInv, ProcInv, Goto
<1>3. fin' = fin \/ \E k \in {1, 2}, s \in Statuses : fin' = Schedule(g, k, s)
  BY DEF AbortStartup, Statuses, Terminal
<1>4. QED
  BY <1>1, <1>2, <1>3, StartMoves DEF AbortStartup, Working, WithChild, Exiting, Tracked, Over, RunSteps, Statuses, Terminal

LEMMA AfterSpawn ==
    ASSUME TypeOK, OwnInv, NEW g \in Gens, SetupFails(g) \/ RunningSettled(g)
    PROVE  OwnInv'
<1>0. /\ run \in [Gens -> RunSteps]
  BY DEF TypeOK
<1>1. CASE SetupFails(g)
  BY <1>1, AbortMoves DEF SetupFails
<1>2. CASE RunningSettled(g) /\ trans[<<g, "start">>].at = "applied"
  <2>1. run' = Goto(g, "driving") /\ UNCHANGED <<spawned, closed, child, pid, fin>>
    BY <1>2 DEF RunningSettled
  <2>2. ProcInv'
    BY <1>0, <1>2, <2>1 DEF OwnInv, ProcInv, RunningSettled, Goto, WithChild, Tracked, Exiting
  <2>3. QED
    BY <1>2, <2>1, <2>2, StartMoves, StartTransition, Zenon DEF RunningSettled, Working, WithChild, Exiting, Tracked, Over, RunSteps, Statuses, Terminal
<1>3. CASE RunningSettled(g) /\ trans[<<g, "start">>].at # "applied"
  BY <1>3, AbortMoves, StartTransition, Zenon DEF RunningSettled
<1>4. QED
  BY <1>1, <1>2, <1>3

\* The reports of a startup that was cancelled or has failed.
LEMMA Reporting ==
    ASSUME TypeOK, OwnInv, NEW g \in Gens,
           \/ FinishCancellation(g) \/ CancellationSettled(g)
           \/ ReportFailure(g) \/ FailureSettled(g)
    PROVE  OwnInv'
<1>0. /\ run \in [Gens -> RunSteps] /\ run[g] \in Over
      /\ UNCHANGED <<child, pid, spawned>> /\ StartUnchanged
  BY DEF TypeOK, FinishCancellation, CancellationSettled, ReportFailure,
         FailureSettled, Over
<1>1. child[g] # "running" /\ pid # g
  BY <1>0 DEF Gens, OwnInv, ProcInv, WithChild, Tracked, Exiting, Over
<1>2. ASSUME NEW to \in Over, run' = Goto(g, to)
      PROVE  ProcInv'
  BY <1>0, <1>1, <1>2 DEF OwnInv, ProcInv, Goto
<1>3. CASE FinishCancellation(g)
  <2>1. CASE run' = Goto(g, "killing") /\ trans' = Request(<<g, "start">>, "killed")
    BY <1>0, <1>2, <1>3, <2>1, StartMoves, StartTransition, Zenon DEF FinishCancellation, Working, WithChild, Exiting, Tracked, Over, RunSteps, Statuses, Terminal
  <2>2. CASE run' = Goto(g, "done") /\ UNCHANGED trans
    BY <1>0, <1>2, <1>3, <2>2, StartMoves DEF FinishCancellation, Working, WithChild, Exiting, Tracked, Over, RunSteps, Statuses, Terminal
  <2>3. QED
    BY <1>3, <2>1, <2>2, Zenon DEF FinishCancellation
<1>4. CASE CancellationSettled(g)
  BY <1>0, <1>2, <1>4, StartMoves, StartTransition, Zenon DEF CancellationSettled, Working, WithChild, Exiting, Tracked, Over, RunSteps, Statuses, Terminal
<1>5. CASE ReportFailure(g)
  <2>1. /\ run' = Goto(g, "reporting") /\ trans' = Request(<<g, "start">>, "error")
        /\ UNCHANGED <<fin, closed>>
    BY <1>5 DEF ReportFailure
  <2>2. "error" \in Statuses /\ "reporting" \in RunSteps /\ "reporting" \in Over
    BY DEF Statuses, Terminal, RunSteps, Over
  <2>3. "reporting" \notin Working /\ "reporting" \notin Exiting
    BY DEF Working, WithChild, Exiting
  <2>4. \E y \in TransType : trans' = [trans EXCEPT ![<<g, "start">>] = y]
    BY <2>1, <2>2, StartTransition
  <2>5. run[g] # "none" /\ spawned' = spawned /\ ProcInv'
    BY <1>0, <1>2, <2>1, <2>2 DEF Over
  <2>6. QED
    BY <1>0, <2>1, <2>2, <2>3, <2>4, <2>5, StartMoves, Zenon
<1>6. CASE FailureSettled(g)
  BY <1>0, <1>2, <1>6, StartMoves, StartTransition, Zenon DEF FailureSettled, Working, WithChild, Exiting, Tracked, Over, RunSteps, Statuses, Terminal
<1>7. QED
  BY <1>3, <1>4, <1>5, <1>6

\* Every step of the startup task keeps the invariant.
LEMMA OwnInvStart ==
    ASSUME TypeOK, OwnInv, NEW g \in Gens, StartStep(g)
    PROVE  OwnInv'
BY BeforeSpawn, Spawning, AfterSpawn, Reporting DEF StartStep

-----------------------------------------------------------------------------
(* Steps of the driver and of status transitions *)

LEMMA OwnInvChildExits ==
    ASSUME TypeOK, OwnInv, NEW g \in Gens, ChildExits(g)
    PROVE  OwnInv'
<1>1. ProcInv'
  BY DEF TypeOK, OwnInv, ProcInv, ChildExits
<1>2. WorkInv' /\ ExitInv' /\ FinInv' /\ NextInv' /\ ClaimInv' /\ FreshInv'
  BY Zenon DEF OwnInv, WorkInv, ExitInv, FinInv, NextInv, ClaimInv, FreshInv, Owns,
         ChildExits, DriverUnchanged
<1>3. QED
  BY <1>1, <1>2 DEF OwnInv

LEMMA OwnInvSignalChild ==
    ASSUME TypeOK, OwnInv, NEW g \in Gens, SignalChild(g)
    PROVE  OwnInv'
<1>0. run \in [Gens -> RunSteps] /\ run' = [run EXCEPT ![g] = "stopping"]
  BY DEF TypeOK, SignalChild, Goto
<1>1. WorkInv' /\ NextInv' /\ ClaimInv' /\ FreshInv'
  BY TaskMoves, Zenon DEF SignalChild, DriverUnchanged, Working, WithChild, Exiting, RunSteps
<1>2. ProcInv'
  <2>1. run[g] = "driving" /\ UNCHANGED <<child, pid>>
    BY DEF SignalChild
  <2>2. QED
    BY <1>0, <2>1 DEF OwnInv, ProcInv, WithChild, Tracked, Exiting
<1>3. ExitInv'
  <2>1. UNCHANGED <<phase, trans, exitAs>>
    BY Zenon DEF SignalChild
  <2>2. QED
    BY <1>0, <2>1, Zenon DEF OwnInv, ExitInv, Exiting
<1>4. FinInv'
  BY FinScheduled DEF SignalChild, Over, RunSteps
<1>5. QED
  BY <1>1, <1>2, <1>3, <1>4 DEF OwnInv

LEMMA OwnInvObserveExit ==
    ASSUME TypeOK, OwnInv, NEW g \in Gens, ObserveExit(g)
    PROVE  OwnInv'
<1>0. run \in [Gens -> RunSteps] /\ run' = [run EXCEPT ![g] = "exiting"]
  BY DEF TypeOK, ObserveExit, Goto
<1>1. WorkInv' /\ NextInv' /\ ClaimInv' /\ FreshInv'
  BY TaskMoves, Zenon DEF ObserveExit, DriverUnchanged, Working, WithChild, Exiting, RunSteps
<1>2. ProcInv'
  <2>1. /\ run[g] \in {"driving", "stopping"} /\ child[g] = "exited"
        /\ UNCHANGED <<child, pid>>
    BY DEF ObserveExit
  <2>2. QED
    BY <1>0, <2>1 DEF OwnInv, ProcInv, WithChild, Tracked, Exiting
<1>3. ExitInv'
  <2>1. exitAs'[g] \in Terminal /\ \A h \in Gens : h # g => exitAs'[h] = exitAs[h]
    BY DEF ObserveExit, TypeOK, Terminal
  <2>2. UNCHANGED <<phase, trans>>
    BY Zenon DEF ObserveExit
  <2>3. QED
    BY <1>0, <2>1, <2>2, Zenon DEF OwnInv, ExitInv
<1>4. FinInv'
  BY FinScheduled DEF ObserveExit, Over, RunSteps
<1>5. QED
  BY <1>1, <1>2, <1>3, <1>4 DEF OwnInv

LEMMA OwnInvExitRequest ==
    ASSUME TypeOK, OwnInv, NEW g \in Gens, ExitRequest(g)
    PROVE  OwnInv'
<1>0. /\ run \in [Gens -> RunSteps] /\ run' = [run EXCEPT ![g] = "settling"]
      /\ run' = Goto(g, "settling") /\ trans' = Request(<<g, "exit">>, exitAs[g])
  BY DEF OwnInv, WorkInv, TypeOK, ExitRequest, Goto, Working, Exiting
<1>1. WorkInv' /\ NextInv' /\ ClaimInv' /\ FreshInv'
  BY <1>0, TaskMoves DEF ExitRequest, DriverUnchanged, Working, Exiting, RunSteps
<1>2. ProcInv'
  BY <1>0 DEF OwnInv, ProcInv, ExitRequest, WithChild, Tracked, Exiting
<1>3. ExitInv'
  <2>1. /\ trans'[<<g, "exit">>].at = "handle"
        /\ trans'[<<g, "exit">>].status = exitAs[g]
        /\ \A h \in Gens \ {g} : trans'[<<h, "exit">>] = trans[<<h, "exit">>]
    BY <1>0 DEF Request, TypeOK, Roles
  <2>2. exitAs[g] \in Terminal /\ UNCHANGED <<phase, exitAs>>
    BY DEF OwnInv, ExitInv, ExitRequest, Exiting
  <2>3. QED
    BY <1>0, <2>1, <2>2, Zenon DEF OwnInv, ExitInv
<1>4. FinInv'
  BY <1>0, FinScheduled DEF ExitRequest, Over, RunSteps
<1>5. QED
  BY <1>1, <1>2, <1>3, <1>4 DEF OwnInv

LEMMA OwnInvExitSettled ==
    ASSUME TypeOK, OwnInv, NEW g \in Gens, ExitSettled(g)
    PROVE  OwnInv'
<1>0. run \in [Gens -> RunSteps] /\ run' = [run EXCEPT ![g] = "detaching"]
  BY DEF TypeOK, ExitSettled, Goto
<1>1. WorkInv' /\ NextInv' /\ ClaimInv' /\ FreshInv'
  BY TaskMoves DEF ExitSettled, DriverUnchanged, Working, Exiting, RunSteps
<1>2. ProcInv'
  <2>1. run[g] = "settling" /\ UNCHANGED <<child, pid>>
    BY DEF ExitSettled
  <2>2. QED
    BY <1>0, <2>1 DEF OwnInv, ProcInv, WithChild, Tracked, Exiting
<1>3. ExitInv'
  <2>1. \A h \in Gens \ {g} : trans'[<<h, "exit">>] = trans[<<h, "exit">>]
    BY Zenon DEF ExitSettled, TypeOK, Roles
  <2>2. exitAs[g] \in Terminal /\ phase[g] = "ending" /\ UNCHANGED <<phase, exitAs>>
    BY Zenon DEF OwnInv, ExitInv, ExitSettled, Exiting, Settled
  <2>3. QED
    BY <1>0, <2>1, <2>2, Zenon DEF OwnInv, ExitInv
<1>4. FinInv'
  BY <1>0, FinScheduled DEF ExitSettled, Over, RunSteps
<1>5. QED
  BY <1>1, <1>2, <1>3, <1>4 DEF OwnInv

LEMMA OwnInvExitTimeout ==
    ASSUME TypeOK, OwnInv, NEW g \in Gens, ExitTimeout(g)
    PROVE  OwnInv'
<1>0. /\ run \in [Gens -> RunSteps] /\ phase \in [Gens -> Phases]
      /\ run[g] = "settling" /\ Owns(g) /\ phase[g] \in Unended
      /\ run' = [run EXCEPT ![g] = "detaching"]
      /\ phase' = [phase EXCEPT ![g] = "ending"]
      /\ UNCHANGED <<child, pid, exitAs, trans, fin>> /\ DriverUnchanged
  <2>1. run[g] = "settling" /\ Owns(g) /\ phase[g] \in Unended
    BY DEF OwnInv, WorkInv, ExitTimeout, Working, Exiting
  <2>2. QED
    BY <2>1 DEF TypeOK, ExitTimeout, EndingOrGone, Goto, Unended
<1>1. WorkInv'
  BY <1>0 DEF OwnInv, WorkInv, Owns, DriverUnchanged, Working, Exiting, Unended
<1>2. ProcInv'
  BY <1>0 DEF OwnInv, ProcInv, WithChild, Tracked, Exiting
<1>3. ExitInv'
  BY <1>0, Zenon DEF OwnInv, ExitInv, Exiting
<1>4. FinInv'
  BY <1>0, Zenon DEF OwnInv, FinInv, Over
<1>5. NextInv'
  BY <1>0, Zenon DEF OwnInv, NextInv, DriverUnchanged, Owns
<1>6. ClaimInv'
  <2>1. UNCHANGED <<live, resuming, spawned, resume>>
    BY <1>0 DEF DriverUnchanged
  <2>2. \A r \in Resumers : resume[r].at \notin {"persist", "unwind"}
    BY <1>0, Zenon DEF OwnInv, ClaimInv, Owns
  <2>3. \A h \in Gens : phase[h] = "ended" => phase'[h] = "ended"
    BY <1>0 DEF Unended
  <2>4. \A r \in Resumers : resume[r].prev \in Gens \cup {0}
    BY DEF TypeOK, ResumeType, Gens
  <2>5. QED
    BY <2>1, <2>2, <2>3, <2>4, Zenon DEF OwnInv, ClaimInv
<1>7. FreshInv'
  BY <1>0, Zenon DEF OwnInv, FreshInv, DriverUnchanged, Owns
<1>8. QED
  BY <1>1, <1>2, <1>3, <1>4, <1>5, <1>6, <1>7 DEF OwnInv

LEMMA OwnInvExitDetach ==
    ASSUME TypeOK, OwnInv, NEW g \in Gens, ExitDetach(g)
    PROVE  OwnInv'
<1>0. /\ run \in [Gens -> RunSteps] /\ run' = [run EXCEPT ![g] = "clearing"]
      /\ run' = Goto(g, "clearing") /\ run[g] = "detaching"
      /\ UNCHANGED <<phase, child, pid, exitAs, trans, fin>>
  BY Zenon DEF OwnInv, WorkInv, ExitInv, TypeOK, ExitDetach, Goto, Working, Exiting
<1>1. WorkInv' /\ NextInv' /\ ClaimInv' /\ FreshInv'
  BY <1>0, TaskMoves DEF ExitDetach, DriverUnchanged, Working, Exiting, RunSteps
<1>2. ProcInv'
  BY <1>0 DEF OwnInv, ProcInv, WithChild, Tracked, Exiting
<1>3. ExitInv'
  BY <1>0, Zenon DEF OwnInv, ExitInv, Exiting
<1>4. FinInv'
  BY <1>0, FinScheduled DEF Over, RunSteps
<1>5. QED
  BY <1>1, <1>2, <1>3, <1>4 DEF OwnInv

LEMMA OwnInvExitClear ==
    ASSUME TypeOK, OwnInv, NEW g \in Gens, ExitClear(g)
    PROVE  OwnInv'
<1>0. /\ run \in [Gens -> RunSteps] /\ run' = [run EXCEPT ![g] = "done"]
      /\ run' = Goto(g, "done") /\ run[g] = "clearing" /\ Owns(g) /\ pid' = 0
      /\ exitAs[g] \in Terminal
      /\ UNCHANGED <<phase, child, exitAs, trans>>
  BY Zenon DEF OwnInv, WorkInv, ExitInv, TypeOK, ExitClear, Goto, Working, Exiting
<1>1. WorkInv' /\ NextInv' /\ ClaimInv' /\ FreshInv'
  BY <1>0, TaskMoves
     DEF ExitClear, DriverUnchanged, Working, WithChild, Exiting, RunSteps
<1>2. ProcInv'
  BY <1>0 DEF OwnInv, ProcInv, WithChild
<1>3. ExitInv'
  BY <1>0, ExitUntouched DEF Exiting, RunSteps
<1>4. FinInv'
  BY <1>0, FinScheduled, Zenon DEF ExitClear, Over, RunSteps, Statuses
<1>5. QED
  BY <1>1, <1>2, <1>3, <1>4 DEF OwnInv

\* Every step of the driver task keeps the invariant.
LEMMA OwnInvDriver ==
    ASSUME TypeOK, OwnInv, NEW g \in Gens, DriverStep(g)
    PROVE  OwnInv'
BY OwnInvSignalChild, OwnInvObserveExit, OwnInvExitRequest, OwnInvExitSettled,
   OwnInvExitTimeout, OwnInvExitDetach, OwnInvExitClear DEF DriverStep, KillChild

\* A transition that is answered: a driver that waits for a terminal one is
\* never refused before its handle is ending.
LEMMA OwnInvTransitionRefused ==
    ASSUME TypeOK, OwnInv, NEW g \in Gens, NEW role \in Roles,
           TransitionRefused(g, role)
    PROVE  OwnInv'
<1>1. WorkInv' /\ ProcInv' /\ FinInv' /\ NextInv' /\ ClaimInv' /\ FreshInv'
  BY Zenon DEF OwnInv, WorkInv, ProcInv, FinInv, NextInv, ClaimInv, FreshInv, Owns,
         TransitionRefused, TransUnchanged
<1>2. ExitInv'
  <2>1. UNCHANGED <<run, phase, exitAs>>
    BY DEF TransitionRefused, TransUnchanged
  <2>2. \A h \in Gens : h # g \/ role # "exit" =>
            trans'[<<h, "exit">>] = trans[<<h, "exit">>]
    BY DEF TransitionRefused, Settle, TypeOK, Roles
  <2>3. ~(role = "exit" /\ run[g] = "settling")
    BY DEF TransitionRefused, HandleRefuses, OwnInv, WorkInv, ExitInv, Working,
           Exiting, Unended
  <2>4. QED
    BY <2>1, <2>2, <2>3, Zenon DEF OwnInv, ExitInv
<1>3. QED
  BY <1>1, <1>2 DEF OwnInv

LEMMA OwnInvTransitionHandle ==
    ASSUME TypeOK, OwnInv, NEW g \in Gens, NEW role \in Roles,
           TransitionHandle(g, role)
    PROVE  OwnInv'
<1> DEFINE s == trans[<<g, role>>].status
<1>0. /\ phase \in [Gens -> Phases] /\ Owns(g) /\ phase[g] # "ended"
      /\ phase[g] = "ending" => s \in Terminal
      /\ phase' = [phase EXCEPT ![g] = IF s \in Terminal THEN "ending" ELSE "active"]
      /\ UNCHANGED rec /\ TransUnchanged
  BY DEF TypeOK, TransitionHandle, HandleRefuses
<1>1. WorkInv'
  BY <1>0 DEF OwnInv, WorkInv, Owns, TransUnchanged, Unended
<1>2. ProcInv' /\ FinInv'
  BY <1>0, Zenon DEF OwnInv, ProcInv, FinInv, TransUnchanged
<1>3. ExitInv'
  <2>1. \A h \in Gens : h # g \/ role # "exit" =>
            trans'[<<h, "exit">>] = trans[<<h, "exit">>]
    BY DEF TransitionHandle, TypeOK, Roles
  <2>2. role = "exit" => trans'[<<g, "exit">>].status = s
    BY DEF TransitionHandle, TypeOK, Roles
  <2>3. role = "exit" /\ run[g] = "settling" => s \in Terminal
    BY DEF OwnInv, ExitInv
  <2>4. QED
    BY <1>0, <2>1, <2>2, <2>3, Zenon DEF OwnInv, ExitInv, TransUnchanged
<1>4. NextInv'
  BY <1>0 DEF OwnInv, NextInv, TransUnchanged, Owns
<1>5. ClaimInv'
  <2>1. UNCHANGED <<live, resuming, spawned, run, resume>>
    BY <1>0, Zenon DEF TransUnchanged
  <2>2. \A h \in Gens : phase[h] = "ended" => phase'[h] = "ended"
    BY <1>0
  <2>3. \A h \in Gens : phase[h] \in Unended => phase'[h] \in Unended
    BY <1>0 DEF Unended
  <2>4. \A r \in Resumers : resume[r].prev \in Gens \cup {0}
    BY DEF TypeOK, ResumeType, Gens
  <2>5. QED
    BY <2>1, <2>2, <2>3, <2>4, Zenon DEF OwnInv, ClaimInv, Owns
<1>6. FreshInv'
  <2>1. phase[g] \in {"creating", "active", "ending"}
    BY <1>0 DEF OwnInv, NextInv, Owns, Gens, Phases
  <2>2. QED
    BY <1>0, <2>1 DEF OwnInv, FreshInv, TransUnchanged, Owns
<1>7. QED
  BY <1>1, <1>2, <1>3, <1>4, <1>5, <1>6 DEF OwnInv

LEMMA OwnInvPersistTransition ==
    ASSUME TypeOK, OwnInv, NEW g \in Gens, NEW role \in Roles,
           PersistTransition(g, role)
    PROVE  OwnInv'
<1>0. /\ UNCHANGED phase /\ TransUnchanged
      /\ rec' = rec \/ rec'.phase \in {"ending", "active"}
  <2>1. \A s \in Statuses : TransitionedRec(s).phase \in {"ending", "active"}
    BY DEF TransitionedRec, TypeOK, RecType
  <2>2. trans[<<g, role>>].status \in Statuses
    BY Zenon DEF TypeOK, TransType
  <2>3. QED
    BY <2>1, <2>2 DEF PersistTransition
<1>1. WorkInv' /\ FreshInv'
  BY <1>0, Zenon DEF OwnInv, WorkInv, FreshInv, Owns, TransUnchanged
<1>2. ProcInv' /\ FinInv' /\ NextInv' /\ ClaimInv'
  BY <1>0, Zenon DEF OwnInv, ProcInv, FinInv, NextInv, ClaimInv, Owns, TransUnchanged
<1>3. ExitInv'
  <2>1. \A h \in Gens : h # g \/ role # "exit" =>
            trans'[<<h, "exit">>] = trans[<<h, "exit">>]
    BY DEF PersistTransition, Settle, TypeOK, Roles
  <2>2. role = "exit" /\ run[g] = "settling" =>
            trans'[<<g, "exit">>].status = trans[<<g, "exit">>].status
    <3>1. ASSUME NEW x \in {"applied", "refused"}, role = "exit", run[g] = "settling",
                 trans' = Settle(<<g, role>>, x)
          PROVE  trans'[<<g, "exit">>].status = trans[<<g, "exit">>].status
      <4>1. /\ <<g, "exit">> \in Gens \X Roles
            /\ trans[<<g, "exit">>] \in TransType
            /\ trans' = [trans EXCEPT ![<<g, "exit">>] = [@ EXCEPT !.at = x]]
        BY <3>1 DEF Settle, Awaited, TypeOK, Roles
      <4>2. trans'[<<g, "exit">>] = [trans[<<g, "exit">>] EXCEPT !.at = x]
        BY <4>1 DEF TypeOK
      <4>3. QED
        BY <4>1, <4>2 DEF TransType
    <3>2. QED
      BY <3>1 DEF PersistTransition
  <2>3. role = "exit" /\ run[g] = "settling" => phase[g] = "ending"
    BY DEF OwnInv, ExitInv, PersistTransition
  <2>4. QED
    BY <1>0, <2>1, <2>2, <2>3, Zenon DEF OwnInv, ExitInv, TransUnchanged
<1>4. QED
  BY <1>1, <1>2, <1>3 DEF OwnInv

-----------------------------------------------------------------------------
(* Finalizers, requests and the workspace *)

\* While the registered handle is no working generation's, no generation
\* works and no admission is waiting to be handed over.
LEMMA QuietSession ==
    ASSUME OwnInv, live = 0 \/ phase[live] = "ended"
    PROVE  /\ \A g \in Gens : run[g] \notin Working
           /\ \A r \in Resumers : resume[r].at \notin {"persist", "unwind"}
<1>1. 0 \notin Gens
  BY DEF Gens
<1>2. \A g \in Gens : run[g] \notin Working
  BY <1>1 DEF OwnInv, WorkInv, Owns, Unended
<1>3. \A r \in Resumers : resume[r].at \notin {"persist", "unwind"}
  BY <1>1 DEF OwnInv, ClaimInv, Owns, Unended
<1>4. QED
  BY <1>2, <1>3

\* A finalizer only moves itself on, except for what it writes.
LEMMA FinMoves ==
    ASSUME TypeOK, OwnInv, NEW g \in Gens, NEW k \in {1, 2}, FinStep(g, k)
    PROVE  FinUnchanged /\ FinInv'
<1>1. FinUnchanged
  BY DEF FinStep, FinScan, FinCapture, FinHistory, FinPublish
<1>2. \A f \in Fins : f # <<g, k>> => fin'[f] = fin[f]
  BY DEF FinStep, FinScan, FinCapture, FinHistory, FinPublish, FinStop, TypeOK
<1>3. fin[<<g, k>>].at # "idle"
  BY DEF FinStep, FinScan, FinCapture, FinHistory, FinPublish
<1>4. run[g] \in Over
  BY <1>3, Zenon DEF OwnInv, FinInv
<1>5. FinInv'
  <2>1. UNCHANGED run
    BY <1>1 DEF FinUnchanged
  <2>2. \A h \in Gens, j \in {1, 2} : <<h, j>> \in Fins
    BY DEF Fins
  <2>3. ASSUME NEW h \in Gens, NEW j \in {1, 2}, fin'[<<h, j>>].at # "idle"
        PROVE  run'[h] \in Over
    <3>1. CASE <<h, j>> = <<g, k>>
      BY <1>4, <2>1, <3>1
    <3>2. CASE <<h, j>> # <<g, k>>
      BY <1>2, <2>1, <2>2, <2>3, <3>2, Zenon DEF OwnInv, FinInv
    <3>3. QED
      BY <3>1, <3>2
  <2>4. QED
    BY <2>3, Zenon DEF FinInv
<1>6. QED
  BY <1>1, <1>5

\* A finalizer writes only for a session in which nothing works any more.
LEMMA OwnInvFin ==
    ASSUME TypeOK, OwnInv, NEW g \in Gens, NEW k \in {1, 2}, FinStep(g, k)
    PROVE  OwnInv'
<1>0. FinUnchanged /\ FinInv'
  BY FinMoves
<1>1. run[g] \in Over
  <2>1. fin[<<g, k>>].at # "idle"
    BY DEF FinStep, FinScan, FinCapture, FinHistory, FinPublish
  <2>2. QED
    BY <2>1, Zenon DEF OwnInv, FinInv
<1>2. ProcInv'
  BY <1>0 DEF OwnInv, ProcInv, FinUnchanged
<1>3. CASE UNCHANGED <<phase, resuming, rec>>
  BY <1>0, <1>2, <1>3, Zenon DEF OwnInv, WorkInv, ExitInv, NextInv, ClaimInv, FreshInv, Owns,
     FinUnchanged
<1>4. CASE EndingOwner(g) /\ UNCHANGED <<phase, resuming>>
  <2>1. WorkInv'
    BY <1>0, <1>1, <1>4, Zenon DEF OwnInv, WorkInv, Owns, EndingOwner, FinUnchanged, Over,
       Working, WithChild, Exiting
  <2>2. ExitInv' /\ NextInv' /\ ClaimInv'
    BY <1>0, <1>4, Zenon DEF OwnInv, ExitInv, NextInv, ClaimInv, Owns, FinUnchanged
  <2>3. FreshInv'
    BY <1>0, <1>4, Zenon DEF OwnInv, FreshInv, Owns, EndingOwner, FinUnchanged
  <2>4. QED
    BY <1>0, <1>2, <2>1, <2>2, <2>3 DEF OwnInv
<1>5. CASE /\ EndingOwner(g) /\ UNCHANGED rec
           /\ phase' = [phase EXCEPT ![g] = "ended"] /\ resuming' = resuming \ {g}
  <2>0. phase \in [Gens -> Phases]
    BY DEF TypeOK
  <2>1. WorkInv'
    BY <1>0, <1>1, <1>5 DEF OwnInv, WorkInv, Owns, EndingOwner, FinUnchanged, Over,
       Working, WithChild, Exiting
  <2>2. ExitInv'
    BY <1>0, <1>1, <1>5, <2>0, Zenon DEF OwnInv, ExitInv, FinUnchanged, Over, Exiting
  <2>3. NextInv' /\ FreshInv'
    BY <1>0, <1>5, <2>0 DEF OwnInv, NextInv, FreshInv, Owns, EndingOwner, FinUnchanged
  <2>4. ClaimInv'
    <3>1. \A r \in Resumers : resume[r].at \notin {"persist", "unwind"}
      BY <1>1, <1>5 DEF OwnInv, ClaimInv, Owns, EndingOwner, Over
    <3>2. \A h \in Gens : phase[h] = "ended" => phase'[h] = "ended"
      BY <1>5, <2>0
    <3>3. \A r \in Resumers : resume[r].prev \in Gens \cup {0}
      BY DEF TypeOK, ResumeType, Gens
    <3>4. UNCHANGED <<live, resume>>
      BY <1>0 DEF FinUnchanged
    <3>5. QED
      BY <3>1, <3>2, <3>3, <3>4 DEF OwnInv, ClaimInv
  <2>5. QED
    BY <1>0, <1>2, <2>1, <2>2, <2>3, <2>4 DEF OwnInv
<1>6. QED
  <2>1. CASE FinScan(g, k) \/ FinCapture(g, k)
    BY <1>3, <2>1 DEF FinScan, FinCapture
  <2>2. CASE FinHistory(g, k)
    BY <1>3, <1>4, <2>2 DEF FinHistory, FinMatches
  <2>3. CASE FinPublish(g, k)
    BY <1>3, <1>5, <2>3, Zenon DEF FinPublish, FinMatches
  <2>4. QED
    BY <2>1, <2>2, <2>3 DEF FinStep

\* Stop, delete, attach and detach change no more than the kill transition.
LEMMA OwnInvRequest ==
    ASSUME TypeOK, OwnInv, NEW g \in Gens,
           \/ RequestStop(g) \/ DeleteSession(g) \/ DeleteReturns(g)
           \/ Attach(g) \/ Detach(g)
    PROVE  OwnInv'
<1>1. UserUnchanged /\ UNCHANGED <<live, pid, rec>>
  BY DEF RequestStop, DeleteSession, DeleteReturns, Attach, Detach
<1>2. \A h \in Gens : trans'[<<h, "exit">>] = trans[<<h, "exit">>]
  BY Zenon DEF RequestStop, DeleteSession, DeleteReturns, Attach, Detach, Request, TypeOK, Roles
<1>3. WorkInv' /\ ProcInv' /\ FinInv' /\ NextInv' /\ ClaimInv' /\ FreshInv'
  BY <1>1, Zenon DEF OwnInv, WorkInv, ProcInv, FinInv, NextInv, ClaimInv, FreshInv, Owns,
     UserUnchanged
<1>4. ExitInv'
  BY <1>1, <1>2, Zenon DEF OwnInv, ExitInv, UserUnchanged
<1>5. QED
  BY <1>3, <1>4 DEF OwnInv

LEMMA OwnInvForget ==
    ASSUME TypeOK, OwnInv, ForgetSession
    PROVE  OwnInv'
<1>0. /\ \A g \in Gens : run[g] \notin Working
      /\ \A r \in Resumers : resume[r].at \notin {"persist", "unwind"}
  BY QuietSession DEF ForgetSession, RuntimeClosed
<1>1. UserUnchanged /\ live' = 0 /\ pid' = 0 /\ UNCHANGED trans
  BY DEF ForgetSession
<1>2. WorkInv' /\ ClaimInv' /\ FreshInv'
  BY <1>0, <1>1, Zenon DEF OwnInv, WorkInv, ClaimInv, FreshInv, UserUnchanged
<1>3. NextInv'
  BY <1>1 DEF OwnInv, NextInv, UserUnchanged, TypeOK
<1>4. ProcInv' /\ ExitInv' /\ FinInv'
  BY <1>1, Zenon DEF OwnInv, ProcInv, ExitInv, FinInv, UserUnchanged
<1>5. QED
  BY <1>2, <1>3, <1>4 DEF OwnInv

LEMMA OwnInvCreate ==
    ASSUME TypeOK, OwnInv, CreateSession
    PROVE  OwnInv'
<1>0. /\ next = 1 /\ live = 0 /\ next' = 2 /\ 1 \in Gens
      /\ \A g \in Gens : run[g] = "none" /\ g \notin spawned
      /\ \A r \in Resumers : resume[r].expected = 0 /\ resume[r].prev = 0
      /\ UNCHANGED <<resuming, spawned, child, pid, exitAs, trans, fin, resume>>
  <2>1. next = 1 /\ live = 0 /\ next' = 2 /\ 1 \in Gens
    <3>1. next = 1 /\ next' = next + 1
      BY DEF CreateSession, InstallHandle
    <3>2. 1 \in Gens
      BY BoundsAssumption DEF Gens
    <3>3. live < next /\ live \in 0 .. MaxGen
      BY DEF OwnInv, NextInv, TypeOK
    <3>4. QED
      BY <3>1, <3>2, <3>3
  <2>2. \A g \in Gens : run[g] = "none" /\ g \notin spawned
    BY <2>1 DEF OwnInv, NextInv, Gens
  <2>3. \A r \in Resumers : resume[r].expected = 0 /\ resume[r].prev = 0
    BY <2>1 DEF OwnInv, NextInv, TypeOK, ResumeType
  <2>4. QED
    BY <2>1, <2>2, <2>3, Zenon DEF CreateSession
<1>1. \A r \in Resumers : resume[r].at \notin {"persist", "unwind"}
  BY <1>0, QuietSession
<1>2. CASE UNCHANGED <<live, phase, rec, run>>
  <2>1. NextInv'
    <3>1. live' = 0 /\ next' = 2
      BY <1>0, <1>2
    <3>2. \A g \in Gens : run'[g] = "none" /\ g \notin spawned'
      BY <1>0, <1>2
    <3>3. \A r \in Resumers : resume'[r].expected = 0 /\ resume'[r].prev = 0
      BY <1>0
    <3>4. \A r \in Resumers : resume'[r].expected < next' /\ resume'[r].prev < next'
      BY <3>1, <3>3
    <3>5. live' < next'
      BY <3>1
    <3>6. QED
      BY <3>1, <3>2, <3>4, <3>5, Zenon DEF NextInv
  <2>2. QED
    BY <1>0, <1>2, <2>1, Zenon
       DEF OwnInv, WorkInv, ProcInv, ExitInv, FinInv, ClaimInv, FreshInv, Owns
<1>3. CASE /\ live' = 1 /\ phase' = [phase EXCEPT ![1] = "creating"]
           /\ rec'.phase = "creating" /\ run' = [run EXCEPT ![1] = "prep"]
  <2>0. /\ phase \in [Gens -> Phases] /\ run \in [Gens -> RunSteps]
    BY DEF TypeOK
  <2>1. WorkInv'
    BY <1>0, <1>3, <2>0 DEF WorkInv, Owns, Working, WithChild, Exiting, Unended
  <2>2. ProcInv'
    <3>1. \A g \in Gens : child[g] # "running"
      BY <1>0, Zenon DEF OwnInv, ProcInv, WithChild
    <3>2. pid = 0
      <4>1. pid = 0 \/ pid \in Gens
        BY DEF TypeOK, Gens
      <4>2. QED
        BY <1>0, <4>1 DEF OwnInv, ProcInv, Tracked, Exiting
    <3>3. QED
      BY <1>0, <3>1, <3>2 DEF ProcInv
  <2>3. ExitInv' /\ FinInv'
    BY <1>0, <1>3, <2>0 DEF OwnInv, ExitInv, FinInv, Over, Exiting
  <2>4. NextInv'
    BY <1>0, <1>3, <2>0 DEF NextInv, Gens
  <2>5. ClaimInv' /\ FreshInv'
    BY <1>0, <1>1, <1>3 DEF ClaimInv, FreshInv
  <2>6. QED
    BY <2>1, <2>2, <2>3, <2>4, <2>5 DEF OwnInv
<1>4. \/ UNCHANGED <<live, phase, rec, run>>
      \/ /\ live' = 1 /\ phase' = [phase EXCEPT ![1] = "creating"]
         /\ rec'.phase = "creating" /\ run' = [run EXCEPT ![1] = "prep"]
  <2>1. CASE UNCHANGED <<live, phase, status, rec, run>>
    BY <2>1
  <2>2. CASE /\ InstallHandle(next) /\ run' = Goto(next, "prep")
             /\ rec' = [phase |-> "creating", status |-> "creating",
                        pending |-> "none"]
    BY <1>0, <2>2 DEF InstallHandle, Goto
  <2>3. QED
    BY <2>1, <2>2 DEF CreateSession
<1>5. QED
  BY <1>2, <1>3, <1>4

LEMMA OwnInvReopen ==
    ASSUME TypeOK, OwnInv, ReopenWorkspace
    PROVE  OwnInv'
<1>0. /\ UNCHANGED <<next, live, phase, resuming, spawned, child, pid, run, exitAs,
                     trans, fin, resume>>
      /\ rec' # rec => ~LiveRuntime
  BY DEF ReopenWorkspace, Reconcile, handleVars, taskVars
<1>1. ProcInv' /\ ExitInv' /\ FinInv' /\ NextInv' /\ ClaimInv'
  BY <1>0, Zenon DEF OwnInv, ProcInv, ExitInv, FinInv, NextInv, ClaimInv, Owns
<1>2. WorkInv' /\ FreshInv'
  <2>1. CASE rec' = rec
    BY <1>0, <2>1, Zenon DEF OwnInv, WorkInv, FreshInv, Owns
  <2>2. CASE ~LiveRuntime
    <3>1. 0 \notin Gens
      BY DEF Gens
    <3>2. \A g \in Gens : run[g] \notin Working
      BY <2>2, <3>1 DEF OwnInv, WorkInv, Owns, LiveRuntime, Unended
    <3>3. WorkInv'
      BY <1>0, <3>2 DEF WorkInv
    <3>4. FreshInv'
      BY <1>0, <2>2 DEF FreshInv, LiveRuntime
    <3>5. QED
      BY <3>3, <3>4
  <2>3. QED
    BY <1>0, <2>1, <2>2
<1>3. QED
  BY <1>1, <1>2 DEF OwnInv

LEMMA OwnInvCrash ==
    ASSUME TypeOK, OwnInv, CrashRestart
    PROVE  OwnInv'
<1>1. WorkInv' /\ ExitInv' /\ FinInv' /\ ClaimInv' /\ FreshInv'
  BY DEF CrashRestart, WorkInv, ExitInv, FinInv, ClaimInv, FreshInv, Working, WithChild,
         Exiting, NoResume, NoFin, Fins
<1>2. ProcInv'
  BY DEF CrashRestart, ProcInv
<1>3. NextInv'
  <2>1. /\ live' = 0 /\ next' = next /\ spawned' = {}
        /\ run' = [g \in Gens |-> "none"] /\ resume' = [r \in Resumers |-> NoResume]
    BY DEF CrashRestart
  <2>2. NoResume.expected = 0 /\ NoResume.prev = 0
    BY DEF NoResume
  <2>3. 0 < next
    BY DEF TypeOK
  <2>4. QED
    BY <2>1, <2>2, <2>3 DEF NextInv
<1>4. QED
  BY <1>1, <1>2, <1>3 DEF OwnInv

-----------------------------------------------------------------------------
(* Resume requests *)

\* A request that gives up, is answered, or only reads: nobody else's request
\* changes, and it holds no admission.
LEMMA ResumeWithoutClaim ==
    ASSUME TypeOK, OwnInv, NEW r \in Resumers, NEW x \in ResumeType,
           resume' = [resume EXCEPT ![r] = x], ResumeUnchanged,
           UNCHANGED <<next, live, phase, resuming, rec, run>>,
           x.at \notin {"persist", "unwind", "restore"},
           x.expected < next, x.prev < next,
           x.at = "install" /\ x.expected = live =>
              (x.seen.phase = "ended" => rec.phase = "ended")
    PROVE  OwnInv'
<1>0. resume \in [Resumers -> ResumeType]
  BY Zenon DEF TypeOK
<1>1. WorkInv' /\ ProcInv' /\ ExitInv' /\ FinInv'
  BY Zenon DEF OwnInv, WorkInv, ProcInv, ExitInv, FinInv, Owns, ResumeUnchanged
<1>2. NextInv'
  BY <1>0, Zenon DEF OwnInv, NextInv, ResumeUnchanged
<1>3. ClaimInv'
  BY <1>0, Zenon DEF OwnInv, ClaimInv, Owns, ResumeUnchanged
<1>4. FreshInv'
  BY <1>0, Zenon DEF OwnInv, FreshInv
<1>5. QED
  BY <1>1, <1>2, <1>3, <1>4, Zenon DEF OwnInv

\* NoResume is what a request without an admission looks like.
LEMMA NoResumeFacts ==
    ASSUME TypeOK
    PROVE  /\ NoResume \in ResumeType
           /\ NoResume.at = "idle" /\ NoResume.expected < next /\ NoResume.prev < next
<1>1. NoRec \in RecType
  BY DEF NoRec, RecType, Phases, Statuses
<1>2. NoResume \in ResumeType
  BY <1>1, BoundsAssumption DEF NoResume, ResumeType, ResumeSteps
<1>3. NoResume.at = "idle" /\ NoResume.expected = 0 /\ NoResume.prev = 0
  BY DEF NoResume
<1>4. QED
  BY <1>2, <1>3 DEF TypeOK

LEMMA OwnInvResumeCapture ==
    ASSUME TypeOK, OwnInv, NEW r \in Resumers, ResumeCapture(r)
    PROVE  OwnInv'
<1> DEFINE x == [NoResume EXCEPT !.at = "read", !.expected = live]
<1>1. /\ x \in ResumeType /\ x.at = "read" /\ x.expected < next /\ x.prev < next
  BY NoResumeFacts, Zenon DEF OwnInv, NextInv, TypeOK, ResumeType, ResumeSteps
<1>2. resume' = [resume EXCEPT ![r] = x]
  BY DEF ResumeCapture
<1> HIDE DEF x
<1>3. QED
  BY <1>1, <1>2, ResumeWithoutClaim, Zenon DEF ResumeCapture

LEMMA OwnInvResumeRead ==
    ASSUME TypeOK, OwnInv, NEW r \in Resumers, ResumeRead(r)
    PROVE  OwnInv'
<1> DEFINE x == [resume[r] EXCEPT !.at = "install", !.seen = rec]
<1>0. resume \in [Resumers -> ResumeType] /\ resume[r] \in ResumeType
  BY DEF TypeOK
<1>1. /\ x \in ResumeType /\ x.at = "install" /\ x.expected < next /\ x.prev < next
      /\ x.seen = rec
  BY <1>0, Zenon DEF OwnInv, NextInv, TypeOK, ResumeType, ResumeSteps
<1>2. resume' = [resume EXCEPT ![r] = x] \/ resume' = [resume EXCEPT ![r] = NoResume]
  BY <1>0, Zenon DEF ResumeRead
<1> HIDE DEF x
<1>3. CASE resume' = [resume EXCEPT ![r] = x]
  BY <1>1, <1>3, ResumeWithoutClaim, Zenon DEF ResumeRead
<1>4. CASE resume' = [resume EXCEPT ![r] = NoResume]
  BY <1>4, NoResumeFacts, ResumeWithoutClaim, Zenon DEF ResumeRead
<1>5. QED
  BY <1>2, <1>3, <1>4

\* A resume is admitted only for a session in which nothing works.
LEMMA AdmittedIsQuiet ==
    ASSUME TypeOK, OwnInv, NEW r \in Resumers, resume[r].at = "install", ResumeAdmits(r)
    PROVE  live = 0 \/ phase[live] = "ended"
<1>1. live # 0 => phase[live] \in Phases \ {"none"}
  BY DEF OwnInv, NextInv, TypeOK, Gens
<1>2. live # 0 => live \notin resuming /\ phase[live] \notin {"ending", "creating", "active"}
  BY DEF ResumeAdmits, ResumeConflicts, OwnInv, FreshInv
<1>3. QED
  BY <1>1, <1>2 DEF Phases

LEMMA OwnInvResumeInstall ==
    ASSUME TypeOK, OwnInv, NEW r \in Resumers, ResumeInstall(r)
    PROVE  OwnInv'
<1>0. /\ resume \in [Resumers -> ResumeType] /\ resume[r] \in ResumeType
      /\ phase \in [Gens -> Phases] /\ run \in [Gens -> RunSteps]
  BY DEF TypeOK
<1>1. CASE ~ResumeAdmits(r)
  BY <1>1, NoResumeFacts, ResumeWithoutClaim DEF ResumeInstall
<1>2. CASE ResumeAdmits(r)
  <2> DEFINE x == [resume[r] EXCEPT !.at = "persist", !.gen = next, !.prev = live]
  <2>1. /\ next \in Gens /\ next' = next + 1 /\ live' = next
        /\ phase' = [phase EXCEPT ![next] = "creating"]
        /\ resuming' = resuming \cup {next}
        /\ resume' = [resume EXCEPT ![r] = x]
        /\ UNCHANGED <<rec, run>> /\ ResumeUnchanged
    BY <1>0, <1>2 DEF ResumeInstall, InstallHandle, ResumeAdmits, TypeOK, Gens
  <2>2. /\ x.at = "persist" /\ x.gen = next /\ x.prev = live
        /\ x.expected = resume[r].expected
    BY <1>0 DEF ResumeType
  <2> HIDE DEF x
  <2>3. live = 0 \/ phase[live] = "ended"
    BY <1>2, AdmittedIsQuiet DEF ResumeInstall
  <2>4. /\ \A g \in Gens : run[g] \notin Working
        /\ \A q \in Resumers : resume[q].at \notin {"persist", "unwind"}
    BY <2>3, QuietSession
  <2>5. live < next /\ run[next] = "none" /\ next \notin spawned
    BY <2>1 DEF OwnInv, NextInv, TypeOK
  <2>6. WorkInv'
    BY <2>1, <2>4 DEF WorkInv
  <2>7. ProcInv' /\ FinInv'
    BY <2>1, Zenon DEF OwnInv, ProcInv, FinInv, ResumeUnchanged
  <2>8. ExitInv'
    BY <1>0, <2>1, <2>5, Zenon DEF OwnInv, ExitInv, ResumeUnchanged, Exiting
  <2>9. NextInv'
    <3>1. \A q \in Resumers : resume'[q].expected < next' /\ resume'[q].prev < next'
      <4>1. next \in Int /\ live \in Int
        BY DEF TypeOK
      <4>2. \A q \in Resumers : /\ resume[q].expected \in Int /\ resume[q].prev \in Int
                                 /\ resume[q].expected < next /\ resume[q].prev < next
        BY <1>0 DEF OwnInv, NextInv, ResumeType
      <4>3. \A q \in Resumers : q # r => resume'[q] = resume[q]
        BY <1>0, <2>1
      <4>4. resume'[r] = x
        BY <1>0, <2>1
      <4>5. next' = next + 1
        BY <2>1
      <4>6. ASSUME NEW q \in Resumers
            PROVE  resume'[q].expected < next' /\ resume'[q].prev < next'
        <5>1. CASE q = r
          BY <2>2, <4>1, <4>2, <4>4, <4>5, <5>1, <2>5
        <5>2. CASE q # r
          BY <4>1, <4>2, <4>3, <4>5, <5>2
        <5>3. QED
          BY <5>1, <5>2
      <4>7. QED
        BY <4>6
    <3>2. live' < next' /\ phase'[live'] # "none"
      BY <1>0, <2>1 DEF Gens
    <3>3. \A g \in Gens : g >= next' => run'[g] = "none" /\ g \notin spawned'
      <4>1. \A g \in Gens : g >= next + 1 => g >= next
        BY DEF Gens, TypeOK
      <4>2. \A g \in Gens : g >= next => run[g] = "none" /\ g \notin spawned
        BY DEF OwnInv, NextInv
      <4>3. QED
        BY <2>1, <4>1, <4>2 DEF ResumeUnchanged
    <3>4. QED
      BY <3>1, <3>2, <3>3 DEF NextInv
  <2>10. ClaimInv'
    <3>1. \A q \in Resumers : resume'[q].at \in {"persist", "unwind"} =>
              q = r /\ resume'[q].gen = next
      BY <1>0, <2>1, <2>2, <2>4
    <3>2. \A q \in Resumers :
              resume'[q].at \in {"persist", "unwind", "restore"} /\ resume'[q].prev # 0
                 => phase'[resume'[q].prev] = "ended"
      <4>1. \A q \in Resumers : resume[q].prev \in 0 .. MaxGen /\ resume[q].prev < next
        BY <1>0 DEF OwnInv, NextInv, ResumeType
      <4>2. live \in 0 .. MaxGen
        BY DEF TypeOK
      <4>3. \A h \in 0 .. MaxGen : h < next => phase'[h] = phase[h]
        BY <1>0, <2>1 DEF Gens
      <4>4. \A q \in Resumers : resume'[q] = IF q = r THEN x ELSE resume[q]
        BY <1>0, <2>1
      <4>5. \A q \in Resumers :
                resume[q].at \in {"persist", "unwind", "restore"} /\ resume[q].prev # 0
                   => phase[resume[q].prev] = "ended"
        BY DEF OwnInv, ClaimInv
      <4>6. QED
        BY <2>2, <2>3, <2>5, <4>1, <4>2, <4>3, <4>4, <4>5
    <3>3. QED
      BY <1>0, <2>1, <2>5, <3>1, <3>2 DEF ClaimInv, Owns, Unended, ResumeUnchanged
  <2>11. FreshInv'
    BY <2>1 DEF FreshInv
  <2>12. QED
    BY <2>6, <2>7, <2>8, <2>9, <2>10, <2>11 DEF OwnInv
<1>3. QED
  BY <1>1, <1>2

LEMMA OwnInvResumePersist ==
    ASSUME TypeOK, OwnInv, NEW r \in Resumers, ResumePersist(r)
    PROVE  OwnInv'
<1> DEFINE g == resume[r].gen
           st == [NoResume EXCEPT !.at = "started", !.gen = g]
           un == [resume[r] EXCEPT !.at = "unwind"]
<1>0. /\ resume \in [Resumers -> ResumeType] /\ resume[r] \in ResumeType
      /\ run \in [Gens -> RunSteps] /\ resume[r].at = "persist"
      /\ UNCHANGED <<next, live, phase, resuming>> /\ ResumeUnchanged
  BY DEF TypeOK, ResumePersist
<1>1. /\ g \in Gens /\ Owns(g) /\ phase[g] \in Unended /\ g \in resuming \ spawned
      /\ run[g] = "none"
      /\ \A q \in Resumers : resume[q].at \in {"persist", "unwind"} => q = r
  BY <1>0 DEF OwnInv, ClaimInv
<1>2. CASE UNCHANGED <<rec, run>> /\ resume' = [resume EXCEPT ![r] = un]
  <2>1. /\ un.at = "unwind" /\ un.gen = g /\ un.prev = resume[r].prev
        /\ un.expected = resume[r].expected
    BY <1>0 DEF ResumeType
  <2> HIDE DEF un
  <2>2. WorkInv' /\ ProcInv' /\ ExitInv' /\ FinInv'
    BY <1>0, <1>2, Zenon DEF OwnInv, WorkInv, ProcInv, ExitInv, FinInv, Owns, ResumeUnchanged
  <2>3. NextInv'
    BY <1>0, <1>2, <2>1 DEF OwnInv, NextInv, ResumeUnchanged
  <2>4. ClaimInv'
    BY <1>0, <1>1, <1>2, <2>1 DEF OwnInv, ClaimInv, Owns, ResumeUnchanged
  <2>5. FreshInv'
    BY <1>0, <1>2, <2>1, Zenon DEF OwnInv, FreshInv
  <2>6. QED
    BY <2>2, <2>3, <2>4, <2>5 DEF OwnInv
<1>3. CASE /\ rec'.phase = "creating" /\ run' = [run EXCEPT ![g] = "prep"]
           /\ resume' = [resume EXCEPT ![r] = st]
  <2>1. st.at = "started" /\ st.prev = 0 /\ st.expected = 0
    BY DEF NoResume
  <2> HIDE DEF st
  <2>2. WorkInv'
    BY <1>0, <1>1, <1>3 DEF OwnInv, WorkInv, Owns
  <2>3. ProcInv'
    BY <1>0, <1>1, <1>3
       DEF OwnInv, ProcInv, ResumeUnchanged, WithChild, Tracked, Exiting
  <2>4. ExitInv' /\ FinInv'
    BY <1>0, <1>1, <1>3, Zenon DEF OwnInv, ExitInv, FinInv, ResumeUnchanged, Exiting, Over
  <2>5. NextInv'
    <3>1. g < next
      BY <1>1, Zenon DEF OwnInv, NextInv, Owns
    <3>2. 0 < next
      BY DEF TypeOK
    <3>3. QED
      <4>1. \A h \in Gens : h >= next => h # g
        <5>1. g \in Int /\ next \in Int
          BY <1>1 DEF Gens, TypeOK
        <5>2. QED
          BY <3>1, <5>1
      <4>2. \A h \in Gens : h # g => run'[h] = run[h]
        BY <1>0, <1>3
      <4>3. \A h \in Gens : h >= next' => run'[h] = "none" /\ h \notin spawned'
        BY <1>0, <4>1, <4>2 DEF OwnInv, NextInv, ResumeUnchanged
      <4>4. \A q \in Resumers : resume'[q].expected < next' /\ resume'[q].prev < next'
        BY <1>0, <1>3, <2>1, <3>2 DEF OwnInv, NextInv
      <4>5. QED
        BY <1>0, <4>3, <4>4, Zenon DEF OwnInv, NextInv
  <2>6. ClaimInv'
    BY <1>0, <1>1, <1>3, <2>1 DEF OwnInv, ClaimInv, Owns, ResumeUnchanged
  <2>7. FreshInv'
    BY <1>0, <1>1, <1>3, Zenon DEF FreshInv, Owns
  <2>8. QED
    BY <2>2, <2>3, <2>4, <2>5, <2>6, <2>7 DEF OwnInv
<1>4. QED
  BY <1>2, <1>3 DEF ResumePersist, Goto

\* A rollback puts back a handle that was ended, or none.
LEMMA OwnInvResumeUnwind ==
    ASSUME TypeOK, OwnInv, NEW r \in Resumers, ResumeUnwind(r)
    PROVE  OwnInv'
<1> DEFINE x == [resume[r] EXCEPT !.at = "restore"]
<1>0. /\ resume \in [Resumers -> ResumeType] /\ resume[r] \in ResumeType
      /\ UNCHANGED <<next, phase, resuming, rec, run>> /\ ResumeUnchanged
  BY DEF TypeOK, ResumeUnwind
<1>1. /\ resume[r].gen \in Gens /\ Owns(resume[r].gen)
      /\ resume[r].gen \in resuming \ spawned /\ run[resume[r].gen] = "none"
      /\ \A q \in Resumers : resume[q].at \in {"persist", "unwind"} => q = r
      /\ resume[r].prev # 0 => phase[resume[r].prev] = "ended"
  BY DEF OwnInv, ClaimInv, ResumeUnwind
<1>2. live' = resume[r].prev /\ resume' = [resume EXCEPT ![r] = x]
  BY <1>0, <1>1 DEF ResumeUnwind
<1>3. /\ x.at = "restore" /\ x.prev = resume[r].prev
      /\ x.expected = resume[r].expected
  BY <1>0 DEF ResumeType
<1> HIDE DEF x
<1>4. WorkInv'
  BY <1>0, <1>1 DEF OwnInv, WorkInv, Owns, Working, WithChild, Exiting
<1>5. ProcInv' /\ ExitInv' /\ FinInv'
  BY <1>0 DEF OwnInv, ProcInv, ExitInv, FinInv, ResumeUnchanged
<1>6. NextInv'
  BY <1>0, <1>1, <1>2, <1>3 DEF OwnInv, NextInv, ResumeUnchanged
<1>7. ClaimInv'
  BY <1>0, <1>1, <1>2, <1>3 DEF OwnInv, ClaimInv, ResumeUnchanged
<1>8. FreshInv'
  BY <1>0, <1>1, <1>2, Zenon DEF FreshInv
<1>9. QED
  BY <1>4, <1>5, <1>6, <1>7, <1>8 DEF OwnInv

LEMMA OwnInvResumeRestore ==
    ASSUME TypeOK, OwnInv, NEW r \in Resumers, ResumeRestore(r)
    PROVE  OwnInv'
<1>0. /\ resume' = [resume EXCEPT ![r] = NoResume]
      /\ UNCHANGED <<next, live, phase, resuming, run>> /\ ResumeUnchanged
      /\ rec' # rec => Owns(resume[r].prev)
      /\ resume[r].at = "restore"
  BY Zenon DEF ResumeRestore
<1>1. CASE rec' = rec
  BY <1>0, <1>1, NoResumeFacts, ResumeWithoutClaim, Zenon
<1>2. CASE rec' # rec
  <2>1. live = 0 \/ phase[live] = "ended"
    BY <1>0, <1>2 DEF OwnInv, ClaimInv, Owns
  <2>2. \A g \in Gens : run[g] \notin Working
    BY <2>1, QuietSession
  <2>3. resume \in [Resumers -> ResumeType]
    BY DEF TypeOK
  <2>4. WorkInv' /\ FreshInv'
    BY <1>0, <2>1, <2>2 DEF WorkInv, FreshInv
  <2>5. ProcInv' /\ ExitInv' /\ FinInv'
    BY <1>0, Zenon DEF OwnInv, ProcInv, ExitInv, FinInv, ResumeUnchanged
  <2>6. NextInv' /\ ClaimInv'
    BY <1>0, <2>3, NoResumeFacts DEF OwnInv, NextInv, ClaimInv, Owns, ResumeUnchanged
  <2>7. QED
    BY <2>4, <2>5, <2>6 DEF OwnInv
<1>3. QED
  BY <1>1, <1>2

\* Every step of a resume request keeps the invariant.
LEMMA OwnInvResume ==
    ASSUME TypeOK, OwnInv, NEW r \in Resumers, ResumeStep(r)
    PROVE  OwnInv'
<1>1. CASE ResumeReturns(r)
  BY <1>1, NoResumeFacts, ResumeWithoutClaim, Zenon DEF ResumeReturns
<1>2. QED
  BY <1>1, OwnInvResumeRead, OwnInvResumeInstall, OwnInvResumePersist,
     OwnInvResumeUnwind, OwnInvResumeRestore DEF ResumeStep

-----------------------------------------------------------------------------
(* The invariant of the whole specification, and what follows from it *)

LEMMA OwnInvInit == Init => OwnInv
<1> SUFFICES ASSUME Init PROVE OwnInv
  OBVIOUS
<1>1. WorkInv /\ ExitInv /\ FinInv /\ ClaimInv /\ FreshInv
  BY Zenon DEF Init, WorkInv, ExitInv, FinInv, ClaimInv, FreshInv, Working, WithChild,
         Exiting, NoResume, NoFin, Fins
<1>2. ProcInv
  BY DEF Init, ProcInv
<1>3. NextInv
  <2>1. NoResume.expected = 0 /\ NoResume.prev = 0
    BY DEF NoResume
  <2>2. QED
    BY <2>1 DEF Init, NextInv
<1>4. QED
  BY <1>1, <1>2, <1>3 DEF OwnInv

LEMMA OwnInvNext == TypeOK /\ OwnInv /\ [Next]_vars => OwnInv'
<1> SUFFICES ASSUME TypeOK, OwnInv, [Next]_vars PROVE OwnInv'
  OBVIOUS
<1>1. CASE UserStep
  BY <1>1, OwnInvCreate, OwnInvForget, OwnInvResumeCapture, OwnInvRequest,
     OwnInvChildExits, OwnInvSignalChild DEF UserStep, StopChild
<1>2. CASE \E r \in Resumers : ResumeStep(r)
  BY <1>2, OwnInvResume
<1>3. CASE \E g \in Gens : StartStep(g) \/ DriverStep(g)
  BY <1>3, OwnInvStart, OwnInvDriver
<1>4. CASE \E g \in Gens, role \in Roles : TransitionStep(g, role)
  BY <1>4, OwnInvTransitionRefused, OwnInvTransitionHandle, OwnInvPersistTransition
     DEF TransitionStep
<1>5. CASE \E g \in Gens, k \in {1, 2} : FinStep(g, k)
  BY <1>5, OwnInvFin
<1>6. CASE ReopenWorkspace \/ CrashRestart
  BY <1>6, OwnInvReopen, OwnInvCrash
<1>7. CASE UNCHANGED vars
  BY <1>7, Zenon DEF vars, handleVars, taskVars, OwnInv, WorkInv, ProcInv, ExitInv, FinInv,
     NextInv, ClaimInv, FreshInv, Owns
<1>8. QED
  BY <1>1, <1>2, <1>3, <1>4, <1>5, <1>6, <1>7 DEF Next

\* In every state the generation at work owns the session, with an unfinished
\* record: the invariant the theorems below rest on.
THEOREM LifecycleOwnInv == Spec => []OwnInv
<1>1. Spec => []TypeOK
  BY LifecycleTypeOK
<1>2. QED
  BY <1>1, OwnInvInit, OwnInvNext, PTL DEF Spec

\* A running child process always belongs to the registered generation, and
\* that handle is not ended: resume, its rollback, forget, the finalizer and
\* the restart of the sidecar never leave a process the registry does not
\* lead to.
THEOREM LifecycleChildIsOwned == Spec => []ChildIsOwned
<1>1. OwnInv => ChildIsOwned
  BY DEF OwnInv, WorkInv, ProcInv, ChildIsOwned, Working, Unended
<1>2. QED
  BY <1>1, LifecycleOwnInv, PTL

\* A record that says ended, or that was forgotten, has no process behind it,
\* neither running nor tracked.
THEOREM LifecycleEndedMeansStopped == Spec => []EndedMeansStopped
<1>1. TypeOK /\ OwnInv => EndedMeansStopped
  <2>1. TypeOK => pid = 0 \/ pid \in Gens
    BY DEF TypeOK, Gens
  <2>2. WithChild \subseteq Working /\ Tracked \subseteq Working
    BY DEF Working, Tracked, WithChild
  <2>3. QED
    BY <2>1, <2>2 DEF OwnInv, WorkInv, ProcInv, EndedMeansStopped
<1>2. QED
  BY <1>1, LifecycleOwnInv, LifecycleTypeOK, PTL

=============================================================================
