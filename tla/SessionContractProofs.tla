------------------------ MODULE SessionContractProofs -----------------------
(***************************************************************************)
(* SessionLifecycle implements SessionContract, for all constants.         *)
(*                                                                         *)
(* Beyond the ownership invariant, the refinement needs that a handle      *)
(* becomes active only while its startup publishes running, so that a      *)
(* child is spawned and an admission withdrawn only before that.           *)
(***************************************************************************)
EXTENDS SessionLifecycleProofs

(* The steps of a generation before it publishes running. *)
Unpublished == {"none", "prep", "isolated", "spawning", "spawned", "marked", "setup"}

ActiveInv == \A g \in Gens : phase[g] = "active" => run[g] \notin Unpublished

(* Only the startup that is publishing asks for a status that is not       *)
(* terminal.                                                               *)
AskInv ==
    \A g \in Gens, role \in Roles :
        trans[<<g, role>>].at = "handle" /\ trans[<<g, role>>].status \notin Terminal
            => role = "start" /\ run[g] = "publishing"

(* An admission replaces an earlier generation. *)
OrderInv ==
    \A r \in Resumers :
        resume[r].at \in {"persist", "unwind"} => resume[r].prev < resume[r].gen

PublishInv == ActiveInv /\ AskInv /\ OrderInv

-----------------------------------------------------------------------------
\* A task that moves on without asking for a transition.
LEMMA PublishMoves ==
    ASSUME TypeOK, PublishInv, NEW g \in Gens, NEW to \in RunSteps,
           run' = Goto(g, to), to \in Unpublished => run[g] \in Unpublished,
           \A h \in Gens : phase'[h] = "active" => phase[h] = "active",
           UNCHANGED resume,
           \/ run[g] # "publishing" /\ UNCHANGED trans
           \/ /\ run[g] # "publishing" \/ trans[<<g, "start">>].at # "handle"
              /\ \E role \in Roles : trans' = [trans EXCEPT ![<<g, role>>] = Idle]
           \/ /\ run[g] # "publishing"
              /\ \E role \in Roles, s \in Statuses :
                    /\ trans' = Request(<<g, role>>, s)
                    /\ s \in Terminal \/ (role = "start" /\ to = "publishing")
    PROVE  PublishInv'
<1>0. /\ run \in [Gens -> RunSteps] /\ run' = [run EXCEPT ![g] = to]
      /\ trans \in [Gens \X Roles -> TransType]
  BY DEF TypeOK, Goto
<1>1. ActiveInv'
  BY <1>0 DEF PublishInv, ActiveInv
<1>2. OrderInv'
  BY DEF PublishInv, OrderInv
<1>3. AskInv'
  <2>1. CASE run[g] # "publishing" /\ UNCHANGED trans
    BY <1>0, <2>1 DEF PublishInv, AskInv
  <2>2. CASE /\ run[g] # "publishing" \/ trans[<<g, "start">>].at # "handle"
             /\ \E role \in Roles : trans' = [trans EXCEPT ![<<g, role>>] = Idle]
    <3>1. \A h \in Gens, q \in Roles :
              trans'[<<h, q>>] = Idle \/ trans'[<<h, q>>] = trans[<<h, q>>]
      BY <1>0, <2>2
    <3>2. Idle.at = "idle"
      BY DEF Idle
    <3>3. QED
      BY <1>0, <2>2, <3>1, <3>2 DEF PublishInv, AskInv
  <2>3. CASE /\ run[g] # "publishing"
             /\ \E role \in Roles, s \in Statuses :
                   /\ trans' = Request(<<g, role>>, s)
                   /\ s \in Terminal \/ (role = "start" /\ to = "publishing")
    <3>1. PICK role \in Roles, s \in Statuses :
              /\ trans' = Request(<<g, role>>, s)
              /\ s \in Terminal \/ (role = "start" /\ to = "publishing")
      BY <2>3
    <3>2. /\ trans'[<<g, role>>].status = s
          /\ \A h \in Gens, q \in Roles :
                h # g \/ q # role => trans'[<<h, q>>] = trans[<<h, q>>]
      BY <1>0, <3>1 DEF Request
    <3>3. ASSUME NEW h \in Gens, NEW q \in Roles, h # g \/ q # role,
                 trans'[<<h, q>>].at = "handle", trans'[<<h, q>>].status \notin Terminal
          PROVE  q = "start" /\ run'[h] = "publishing"
      <4>1. q = "start" /\ run[h] = "publishing"
        BY <3>2, <3>3 DEF PublishInv, AskInv
      <4>2. QED
        BY <1>0, <2>3, <4>1
    <3>4. s \in Terminal \/ (role = "start" /\ run'[g] = "publishing")
      BY <1>0, <3>1
    <3>5. QED
      BY <3>2, <3>3, <3>4 DEF AskInv
  <2>4. QED
    BY <2>1, <2>2, <2>3
<1>4. QED
  BY <1>1, <1>2, <1>3 DEF PublishInv

\* Every step of the startup task keeps the invariant: running is asked for
\* by the step to publishing, and answered before the task leaves it.
LEMMA PublishStart ==
    ASSUME TypeOK, PublishInv, NEW g \in Gens, StartStep(g)
    PROVE  PublishInv'
<1>0. UNCHANGED <<phase, resume>>
  BY DEF StartStep, StartCancelled, StartIsolateCancelled, StartIsolateSettled,
         StartFails, StartChecked, SpawnChild, MarkSpawned, RegisterPid, SetupFails,
         PublishRunning, RunningSettled, FinishCancellation, CancellationSettled,
         ReportFailure, FailureSettled, StartUnchanged
<1>1. /\ "start" \in Roles /\ {"killed", "error"} \subseteq Terminal
      /\ Terminal \cup {"running"} \subseteq Statuses
  BY DEF Roles, Terminal, Statuses
<1>2. CASE StartCancelled(g) \/ StartFails(g)
  BY <1>0, <1>2, PublishMoves DEF StartCancelled, StartFails, Unpublished, RunSteps
<1>3. CASE StartChecked(g) \/ SpawnChild(g) \/ RegisterPid(g)
  BY <1>0, <1>3, PublishMoves
     DEF StartChecked, SpawnChild, RegisterPid, Unpublished, RunSteps
<1>4. CASE MarkSpawned(g) \/ SetupFails(g)
  BY <1>0, <1>4, PublishMoves
     DEF MarkSpawned, SetupFails, AbortStartup, Unpublished, RunSteps
<1>5. CASE StartIsolateCancelled(g)
  BY <1>0, <1>1, <1>5, PublishMoves DEF StartIsolateCancelled, Unpublished, RunSteps
<1>6. CASE StartIsolateSettled(g)
  BY <1>0, <1>1, <1>6, PublishMoves DEF StartIsolateSettled, Unpublished, RunSteps
<1>7. CASE PublishRunning(g)
  BY <1>0, <1>1, <1>7, PublishMoves DEF PublishRunning, Unpublished, RunSteps
<1>8. CASE RunningSettled(g)
  <2>1. PICK to \in {"driving", "cancelled"} : run' = Goto(g, to)
    BY <1>8 DEF RunningSettled, AbortStartup
  <2>2. /\ trans[<<g, "start">>].at # "handle"
        /\ trans' = [trans EXCEPT ![<<g, "start">>] = Idle]
    BY <1>8 DEF RunningSettled, Settled
  <2>3. QED
    BY <1>0, <1>1, <2>1, <2>2, PublishMoves DEF Unpublished, RunSteps
<1>9. CASE FinishCancellation(g)
  <2>1. CASE run' = Goto(g, "killing") /\ trans' = Request(<<g, "start">>, "killed")
    BY <1>0, <1>1, <1>9, <2>1, PublishMoves DEF FinishCancellation, Unpublished, RunSteps
  <2>2. CASE run' = Goto(g, "done") /\ UNCHANGED trans
    BY <1>0, <1>9, <2>2, PublishMoves DEF FinishCancellation, Unpublished, RunSteps
  <2>3. QED
    BY <1>9, <2>1, <2>2 DEF FinishCancellation
<1>10. CASE CancellationSettled(g)
  BY <1>0, <1>1, <1>10, PublishMoves DEF CancellationSettled, Unpublished, RunSteps
<1>11. CASE ReportFailure(g)
  BY <1>0, <1>1, <1>11, PublishMoves DEF ReportFailure, Unpublished, RunSteps
<1>12. CASE FailureSettled(g)
  <2>1. PICK to \in {"done", "cancelled"} : run' = Goto(g, to)
    BY <1>12 DEF FailureSettled
  <2>2. /\ run[g] # "publishing"
        /\ trans' = [trans EXCEPT ![<<g, "start">>] = Idle]
    BY <1>12 DEF FailureSettled
  <2>3. QED
    BY <1>0, <1>1, <2>1, <2>2, PublishMoves DEF Unpublished, RunSteps
<1>13. QED
  BY <1>2, <1>3, <1>4, <1>5, <1>6, <1>7, <1>8, <1>9, <1>10, <1>11, <1>12 DEF StartStep

\* The driver asks only for terminal statuses.
LEMMA PublishDriver ==
    ASSUME TypeOK, OwnInv, PublishInv, NEW g \in Gens,
           DriverStep(g) \/ ChildExits(g) \/ StopChild(g)
    PROVE  PublishInv'
<1>0. CASE SignalChild(g)
  BY <1>0, PublishMoves DEF SignalChild, DriverUnchanged, Unpublished, RunSteps
<1>1. CASE ChildExits(g)
  BY <1>1 DEF ChildExits, DriverUnchanged, PublishInv, ActiveInv, AskInv,
     OrderInv
<1>2. CASE ObserveExit(g)
  BY <1>2, PublishMoves DEF ObserveExit, DriverUnchanged, Unpublished, RunSteps
<1>3. CASE ExitRequest(g)
  <2>1. exitAs[g] \in Terminal /\ exitAs[g] \in Statuses /\ "exit" \in Roles
    BY <1>3 DEF ExitRequest, OwnInv, ExitInv, Exiting, Statuses, Roles
  <2>2. run' = Goto(g, "settling") /\ trans' = Request(<<g, "exit">>, exitAs[g])
    BY <1>3 DEF ExitRequest, OwnInv, WorkInv, Working, Exiting
  <2>3. QED
    BY <1>3, <2>1, <2>2, PublishMoves DEF ExitRequest, DriverUnchanged, Unpublished, RunSteps
<1>4. CASE ExitSettled(g)
  BY <1>4, PublishMoves DEF ExitSettled, DriverUnchanged, Unpublished, RunSteps, Roles
<1>5. CASE ExitTimeout(g)
  <2>1. \A h \in Gens : phase'[h] = "active" => phase[h] = "active"
    BY <1>5 DEF ExitTimeout, TypeOK
  <2>2. PICK to \in {"done", "detaching"} : run' = Goto(g, to)
    BY <1>5 DEF ExitTimeout
  <2>3. run[g] = "settling" /\ UNCHANGED <<trans, resume>>
    BY <1>5 DEF ExitTimeout, DriverUnchanged
  <2>4. QED
    BY <2>1, <2>2, <2>3, PublishMoves DEF Unpublished, RunSteps
<1>6. CASE ExitDetach(g)
  <2>1. PICK to \in {"done", "clearing"} : run' = Goto(g, to)
    BY <1>6 DEF ExitDetach
  <2>2. QED
    BY <1>6, <2>1, PublishMoves DEF ExitDetach, DriverUnchanged, Unpublished, RunSteps
<1>7. CASE ExitClear(g)
  BY <1>7, PublishMoves DEF ExitClear, DriverUnchanged, Unpublished, RunSteps
<1>8. QED
  BY <1>0, <1>1, <1>2, <1>3, <1>4, <1>5, <1>6, <1>7 DEF DriverStep, KillChild, StopChild

LEMMA PublishTransition ==
    ASSUME TypeOK, PublishInv, NEW g \in Gens, NEW role \in Roles,
           TransitionStep(g, role)
    PROVE  PublishInv'
<1>0. UNCHANGED <<run, resume>> /\ phase \in [Gens -> Phases]
  BY DEF TransitionStep, TransitionRefused, TransitionHandle, PersistTransition,
         TransUnchanged, TypeOK
<1>1. AskInv'
  <2>1. \A h \in Gens, q \in Roles : h # g \/ q # role =>
            trans'[<<h, q>>] = trans[<<h, q>>]
    BY DEF TransitionStep, TransitionRefused, TransitionHandle, PersistTransition,
           Settle, TypeOK
  <2>2. trans'[<<g, role>>].at # "handle"
    <3>0. trans[<<g, role>>] \in TransType /\ <<g, role>> \in Gens \X Roles
      BY DEF TypeOK
    <3>1. ASSUME NEW x \in {"applied", "refused"}, trans' = Settle(<<g, role>>, x)
          PROVE  trans'[<<g, role>>].at # "handle"
      <4>1. trans'[<<g, role>>] \in {Idle, [trans[<<g, role>>] EXCEPT !.at = x]}
        BY <3>0, <3>1 DEF Settle, TypeOK
      <4>2. [trans[<<g, role>>] EXCEPT !.at = x].at = x
        BY <3>0 DEF TransType
      <4>3. Idle.at = "idle"
        BY DEF Idle
      <4>4. QED
        BY <4>1, <4>2, <4>3
    <3>2. CASE TransitionHandle(g, role)
      BY <3>0, <3>2 DEF TransitionHandle, TypeOK
    <3>3. QED
      BY <3>1, <3>2 DEF TransitionStep, TransitionRefused, PersistTransition
  <2>3. QED
    BY <1>0, <2>1, <2>2 DEF PublishInv, AskInv
<1>2. ActiveInv'
  <2>1. CASE UNCHANGED phase
    BY <1>0, <2>1 DEF PublishInv, ActiveInv
  <2>2. CASE TransitionHandle(g, role)
    <3>1. phase' = [phase EXCEPT ![g] =
                       IF trans[<<g, role>>].status \in Terminal THEN "ending" ELSE "active"]
      BY <2>2 DEF TransitionHandle
    <3>2. trans[<<g, role>>].status \notin Terminal => run[g] = "publishing"
      BY <2>2 DEF TransitionHandle, PublishInv, AskInv
    <3>3. QED
      BY <1>0, <3>1, <3>2 DEF PublishInv, ActiveInv, Unpublished
  <2>3. QED
    BY <2>1, <2>2 DEF TransitionStep, TransitionRefused, PersistTransition
<1>3. OrderInv'
  BY <1>0 DEF PublishInv, OrderInv
<1>4. QED
  BY <1>1, <1>2, <1>3 DEF PublishInv

\* Finalizers, requests and the workspace make no handle active.
LEMMA PublishOthers ==
    ASSUME TypeOK, PublishInv,
           \/ \E g \in Gens, k \in {1, 2} : FinStep(g, k)
           \/ \E g \in Gens : \/ RequestStop(g) \/ DeleteSession(g) \/ DeleteReturns(g)
                              \/ Attach(g) \/ Detach(g)
           \/ ForgetSession \/ ReopenWorkspace
    PROVE  PublishInv'
<1>0. ASSUME NEW g \in Gens, NEW k \in {1, 2}, FinStep(g, k)
      PROVE  UNCHANGED <<run, resume, trans>>
  <2>1. FinUnchanged
    BY <1>0 DEF FinStep, FinScan, FinCapture, FinHistory, FinPublish
  <2>2. QED
    BY <2>1 DEF FinUnchanged
<1>1. UNCHANGED <<run, resume>>
  <2>1. CASE \E g \in Gens, k \in {1, 2} : FinStep(g, k)
    BY <1>0, <2>1
  <2>2. CASE ForgetSession \/ ReopenWorkspace
    BY <2>2 DEF ForgetSession, UserUnchanged, ReopenWorkspace, taskVars
  <2>3. CASE \E g \in Gens : \/ RequestStop(g) \/ DeleteSession(g) \/ DeleteReturns(g)
                             \/ Attach(g) \/ Detach(g)
    BY <2>3 DEF RequestStop, DeleteSession, DeleteReturns, Attach, Detach, UserUnchanged
  <2>4. QED
    BY <2>1, <2>2, <2>3
<1>2. \A h \in Gens : phase'[h] = "active" => phase[h] = "active"
  <2>1. CASE \E g \in Gens, k \in {1, 2} : FinStep(g, k)
    BY <2>1 DEF FinStep, FinScan, FinCapture, FinHistory, FinPublish, TypeOK
  <2>2. CASE ForgetSession \/ ReopenWorkspace
    BY <2>2 DEF ForgetSession, UserUnchanged, ReopenWorkspace, handleVars
  <2>3. CASE \E g \in Gens : \/ RequestStop(g) \/ DeleteSession(g) \/ DeleteReturns(g)
                             \/ Attach(g) \/ Detach(g)
    BY <2>3 DEF RequestStop, DeleteSession, DeleteReturns, Attach, Detach, UserUnchanged
  <2>4. QED
    BY <2>1, <2>2, <2>3
<1>3. AskInv'
  <2>1. CASE UNCHANGED trans
    BY <1>1, <2>1 DEF PublishInv, AskInv
  <2>2. CASE \E g \in Gens : DeleteSession(g)
    <3>1. PICK g \in Gens : trans' = Request(<<g, "kill">>, "killed")
      BY <2>2 DEF DeleteSession
    <3>2. \A h \in Gens, q \in Roles :
              \/ trans'[<<h, q>>] = trans[<<h, q>>]
              \/ trans'[<<h, q>>].status = "killed"
      BY <3>1 DEF Request, TypeOK
    <3>3. QED
      BY <1>1, <3>2 DEF PublishInv, AskInv, Terminal
  <2>3. CASE \E g \in Gens, k \in {1, 2} : FinStep(g, k)
    BY <1>0, <2>1, <2>3
  <2>4. CASE ForgetSession \/ ReopenWorkspace
    BY <2>1, <2>4 DEF ForgetSession, ReopenWorkspace, taskVars
  <2>5. CASE \E g \in Gens : \/ RequestStop(g) \/ DeleteReturns(g) \/ Attach(g)
                             \/ Detach(g)
    BY <2>1, <2>5 DEF RequestStop, DeleteReturns, Attach, Detach
  <2>6. QED
    BY <2>2, <2>3, <2>4, <2>5
<1>4. ActiveInv' /\ OrderInv'
  BY <1>1, <1>2 DEF PublishInv, ActiveInv, OrderInv
<1>5. QED
  BY <1>3, <1>4 DEF PublishInv

LEMMA PublishCreate ==
    ASSUME TypeOK, OwnInv, PublishInv, CreateSession
    PROVE  PublishInv'
<1>0. /\ next = 1 /\ 1 \in Gens /\ run[1] = "none" /\ UNCHANGED <<trans, resume>>
      /\ run \in [Gens -> RunSteps] /\ phase \in [Gens -> Phases]
  <2>1. next = 1 /\ 1 \in Gens
    BY BoundsAssumption DEF CreateSession, Gens
  <2>2. QED
    BY <2>1 DEF OwnInv, NextInv, TypeOK, CreateSession
<1>1. OrderInv'
  BY <1>0 DEF PublishInv, OrderInv
<1>2. ActiveInv' /\ AskInv'
  BY <1>0 DEF PublishInv, ActiveInv, AskInv, CreateSession, InstallHandle, Goto
<1>3. QED
  BY <1>1, <1>2 DEF PublishInv

LEMMA PublishCrash ==
    ASSUME TypeOK, CrashRestart
    PROVE  PublishInv'
BY DEF CrashRestart, PublishInv, ActiveInv, AskInv, OrderInv, Idle, NoResume

LEMMA PublishResume ==
    ASSUME TypeOK, OwnInv, PublishInv, NEW r \in Resumers, ResumeStep(r) \/ ResumeCapture(r)
    PROVE  PublishInv'
<1>0. /\ resume \in [Resumers -> ResumeType] /\ resume[r] \in ResumeType
      /\ run \in [Gens -> RunSteps] /\ phase \in [Gens -> Phases]
      /\ UNCHANGED trans /\ live < next
  BY DEF ResumeStep, ResumeCapture, ResumeRead, ResumeInstall, ResumePersist,
         ResumeUnwind, ResumeRestore, ResumeReturns, ResumeUnchanged, TypeOK,
         OwnInv, NextInv
<1>1. ActiveInv' /\ AskInv'
  <2>1. CASE UNCHANGED <<run, phase>>
    BY <1>0, <2>1 DEF PublishInv, ActiveInv, AskInv
  <2>2. CASE ResumeInstall(r) /\ ResumeAdmits(r)
    BY <1>0, <2>2 DEF ResumeInstall, ResumeAdmits, InstallHandle, PublishInv, ActiveInv, AskInv
  <2>3. CASE ResumePersist(r) /\ run' = Goto(resume[r].gen, "prep") /\ UNCHANGED phase
    <3>1. resume[r].gen \in Gens /\ run[resume[r].gen] = "none"
      BY <2>3 DEF ResumePersist, OwnInv, ClaimInv
    <3>2. QED
      BY <1>0, <2>3, <3>1 DEF Goto, PublishInv, ActiveInv, AskInv, Unpublished
  <2>4. QED
    BY <2>1, <2>2, <2>3 DEF ResumeStep, ResumeCapture, ResumeRead, ResumeInstall,
       ResumePersist, ResumeUnwind, ResumeRestore, ResumeReturns
<1>2. OrderInv'
  <2>1. \A q \in Resumers : q # r => resume'[q] = resume[q]
    BY <1>0 DEF ResumeStep, ResumeCapture, ResumeRead, ResumeInstall, ResumePersist,
       ResumeUnwind, ResumeRestore, ResumeReturns
  <2>2. resume'[r].at \in {"persist", "unwind"} => resume'[r].prev < resume'[r].gen
    <3>1. CASE ResumeInstall(r) /\ ResumeAdmits(r)
      <4>1. resume'[r] = [resume[r] EXCEPT !.at = "persist", !.gen = next, !.prev = live]
        BY <1>0, <3>1 DEF ResumeInstall
      <4>2. QED
        BY <1>0, <4>1 DEF ResumeType
    <3>2. CASE ResumePersist(r)
      <4>1. \/ resume'[r] = [NoResume EXCEPT !.at = "started", !.gen = resume[r].gen]
            \/ resume[r].at = "persist" /\ resume'[r] = [resume[r] EXCEPT !.at = "unwind"]
        BY <1>0, <3>2 DEF ResumePersist
      <4>2. [NoResume EXCEPT !.at = "started", !.gen = resume[r].gen].at = "started"
        BY DEF NoResume
      <4>3. /\ [resume[r] EXCEPT !.at = "unwind"].prev = resume[r].prev
            /\ [resume[r] EXCEPT !.at = "unwind"].gen = resume[r].gen
        BY <1>0 DEF ResumeType
      <4>4. QED
        BY <4>1, <4>2, <4>3 DEF PublishInv, OrderInv
    <3>3. CASE ResumeCapture(r)
      <4>1. resume'[r] = [NoResume EXCEPT !.at = "read", !.expected = live]
        BY <1>0, <3>3 DEF ResumeCapture
      <4>2. QED
        BY <4>1 DEF NoResume
    <3>4. CASE ResumeRead(r)
      <4>1. resume'[r] \in {NoResume, [resume[r] EXCEPT !.at = "install", !.seen = rec]}
        BY <1>0, <3>4 DEF ResumeRead
      <4>2. [resume[r] EXCEPT !.at = "install", !.seen = rec].at = "install"
        BY <1>0 DEF ResumeType
      <4>3. NoResume.at = "idle"
        BY DEF NoResume
      <4>4. QED
        BY <4>1, <4>2, <4>3
    <3>5. CASE ResumeUnwind(r)
      <4>1. resume'[r] \in {NoResume, [resume[r] EXCEPT !.at = "restore"]}
        BY <1>0, <3>5 DEF ResumeUnwind
      <4>2. [resume[r] EXCEPT !.at = "restore"].at = "restore"
        BY <1>0 DEF ResumeType
      <4>3. NoResume.at = "idle"
        BY DEF NoResume
      <4>4. QED
        BY <4>1, <4>2, <4>3
    <3>6. CASE resume'[r] = NoResume
      BY <3>6 DEF NoResume
    <3>7. QED
      BY <1>0, <3>1, <3>2, <3>3, <3>4, <3>5, <3>6
         DEF ResumeStep, ResumeInstall, ResumeRestore, ResumeReturns
  <2>3. QED
    BY <2>1, <2>2 DEF PublishInv, OrderInv
<1>3. QED
  BY <1>1, <1>2 DEF PublishInv

\* Running is published before a handle is active, in every state.
THEOREM LifecyclePublishInv == Spec => []PublishInv
<1>1. Init => PublishInv
  BY DEF Init, PublishInv, ActiveInv, AskInv, OrderInv, Idle, NoResume
<1>2. TypeOK /\ OwnInv /\ PublishInv /\ [Next]_vars => PublishInv'
  <2> SUFFICES ASSUME TypeOK, OwnInv, PublishInv, [Next]_vars PROVE PublishInv'
    OBVIOUS
  <2>1. CASE UserStep
    BY <2>1, PublishCreate, PublishOthers, PublishResume, PublishDriver DEF UserStep
  <2>2. CASE \E r \in Resumers : ResumeStep(r)
    BY <2>2, PublishResume
  <2>3. CASE \E g \in Gens : StartStep(g) \/ DriverStep(g)
    BY <2>3, PublishStart, PublishDriver
  <2>4. CASE \E g \in Gens, role \in Roles : TransitionStep(g, role)
    BY <2>4, PublishTransition
  <2>5. CASE \E g \in Gens, k \in {1, 2} : FinStep(g, k)
    BY <2>5, PublishOthers
  <2>6. CASE ReopenWorkspace \/ CrashRestart
    BY <2>6, PublishOthers, PublishCrash
  <2>7. CASE UNCHANGED vars
    BY <2>7 DEF vars, handleVars, taskVars, PublishInv, ActiveInv, AskInv, OrderInv
  <2>8. QED
    BY <2>1, <2>2, <2>3, <2>4, <2>5, <2>6, <2>7 DEF Next
<1>3. QED
  BY <1>1, <1>2, LifecycleTypeOK, LifecycleOwnInv, PTL DEF Spec

-----------------------------------------------------------------------------
(* The step simulation *)

(* What the contract sees of a state. *)
Alive  == {g \in Gens : child[g] = "running"}
Shown  == IF live = 0 THEN "none" ELSE phase[live]

\* Only the registered generation has a process, and only while it works.
LEMMA AliveIsOwner ==
    ASSUME TypeOK, OwnInv
    PROVE  /\ Alive \subseteq {live}
           /\ \A g \in Alive : run[g] \in WithChild /\ phase[g] \in Unended
           /\ \A g \in Gens : Owns(g) /\ run[g] \notin WithChild => Alive = {}
           /\ live = 0 \/ phase[live] = "ended" => Alive = {}
<1>1. \A g \in Alive : g = live /\ run[g] \in WithChild /\ phase[g] \in Unended
  BY DEF Alive, OwnInv, ProcInv, WorkInv, Owns, Working
<1>2. QED
  BY <1>1 DEF Alive, Owns, Unended, Gens

\* Steps that leave the registry, the registered phase and the processes
\* alone are stuttering steps of the contract.
LEMMA ContractStutters ==
    ASSUME UNCHANGED <<live, phase, child>>
    PROVE  UNCHANGED Contract!vars
BY DEF Contract!vars

\* A new generation is admitted over nothing or over an ended handle.
LEMMA SimulateAdmit ==
    ASSUME TypeOK, OwnInv, NEW g \in Gens, live = 0 \/ phase[live] = "ended",
           live < g, live' = g, phase' = [phase EXCEPT ![g] = "creating"],
           UNCHANGED child
    PROVE  Contract!Next
<1>1. Alive = {} /\ live \in 0 .. MaxGen /\ g \in live + 1 .. MaxGen /\ g # 0
  BY AliveIsOwner DEF TypeOK, Gens
<1>2. phase'[g] = "creating"
  BY DEF TypeOK
<1>3. Contract!Admit
  BY <1>1, <1>2 DEF Contract!Admit, Alive
<1>4. QED
  BY <1>3 DEF Contract!Next

LEMMA SimulateResume ==
    ASSUME TypeOK, OwnInv, PublishInv, NEW r \in Resumers, ResumeStep(r) \/ ResumeCapture(r)
    PROVE  Contract!Next \/ UNCHANGED Contract!vars
<1>0. UNCHANGED child
  BY DEF ResumeStep, ResumeCapture, ResumeRead, ResumeInstall, ResumePersist,
         ResumeUnwind, ResumeRestore, ResumeReturns, ResumeUnchanged
<1>1. CASE ResumeInstall(r) /\ ResumeAdmits(r)
  <2>1. /\ next \in Gens /\ live' = next /\ phase' = [phase EXCEPT ![next] = "creating"]
        /\ live < next
    BY <1>1 DEF ResumeInstall, ResumeAdmits, InstallHandle, TypeOK, Gens, OwnInv, NextInv
  <2>2. live = 0 \/ phase[live] = "ended"
    BY <1>1, AdmittedIsQuiet DEF ResumeInstall
  <2>3. QED
    BY <1>0, <2>1, <2>2, SimulateAdmit
<1>2. CASE ResumeUnwind(r) /\ live' # live
  <2> DEFINE g == resume[r].gen
             h == resume[r].prev
  <2>1. /\ g \in Gens /\ Owns(g) /\ phase[g] \in Unended /\ run[g] = "none"
        /\ h # 0 => phase[h] = "ended"
        /\ h < g /\ h \in 0 .. MaxGen /\ live' = h /\ UNCHANGED phase
    <3>1. resume[r].at = "unwind" /\ live' = h /\ UNCHANGED phase
      BY <1>2 DEF ResumeUnwind
    <3>2. h \in 0 .. MaxGen
      BY DEF TypeOK, ResumeType
    <3>3. QED
      BY <3>1, <3>2 DEF OwnInv, ClaimInv, PublishInv, OrderInv
  <2>2. phase[g] \in {"creating", "ending"}
    BY <2>1 DEF PublishInv, ActiveInv, Unpublished, Unended
  <2>3. Alive = {}
    BY <2>1, AliveIsOwner DEF WithChild
  <2>4. live # 0 /\ live = g /\ h \in 0 .. g - 1
    BY <2>1 DEF Owns, Gens
  <2>5. Contract!Withdraw
    BY <1>0, <2>1, <2>2, <2>3, <2>4 DEF Contract!Withdraw, Alive
  <2>6. QED
    BY <2>5 DEF Contract!Next
<1>3. CASE UNCHANGED <<live, phase>>
  BY <1>0, <1>3, ContractStutters
<1>4. QED
  BY <1>1, <1>2, <1>3 DEF ResumeStep, ResumeCapture, ResumeRead, ResumeInstall,
     ResumePersist, ResumeUnwind, ResumeRestore, ResumeReturns

\* A child that exits was the only process.
LEMMA SimulateStop ==
    ASSUME TypeOK, OwnInv, NEW g \in Gens, child' = [child EXCEPT ![g] = "exited"],
           UNCHANGED <<live, phase>>
    PROVE  Contract!Next \/ UNCHANGED Contract!vars
<1>0. child \in [Gens -> {"none", "running", "exited", "lost"}]
  BY DEF TypeOK
<1>1. CASE child[g] = "running"
  <2>1. Alive = {g}
    BY <1>1, AliveIsOwner DEF Alive
  <2>2. Alive' = {}
    BY <1>0, <2>1 DEF Alive
  <2>3. Contract!Stop
    BY <2>1, <2>2 DEF Contract!Stop, Alive
  <2>4. QED
    BY <2>3 DEF Contract!Next
<1>2. CASE child[g] # "running"
  <2>1. Alive' = Alive
    BY <1>0, <1>2 DEF Alive
  <2>2. QED
    BY <2>1 DEF Contract!vars, Alive
<1>3. QED
  BY <1>1, <1>2

LEMMA SimulateStart ==
    ASSUME TypeOK, OwnInv, PublishInv, NEW g \in Gens, StartStep(g)
    PROVE  Contract!Next \/ UNCHANGED Contract!vars
<1>0. UNCHANGED <<live, phase>>
  BY DEF StartStep, StartCancelled, StartIsolateCancelled, StartIsolateSettled,
         StartFails, StartChecked, SpawnChild, MarkSpawned, RegisterPid, SetupFails,
         PublishRunning, RunningSettled, FinishCancellation, CancellationSettled,
         ReportFailure, FailureSettled, StartUnchanged
<1>1. CASE SpawnChild(g)
  <2>1. run[g] = "spawning" /\ Owns(g) /\ phase[g] \in {"creating", "ending"}
    BY <1>1 DEF SpawnChild, OwnInv, WorkInv, Working, PublishInv, ActiveInv, Unpublished,
       Unended
  <2>2. Alive = {}
    BY <2>1, AliveIsOwner DEF WithChild
  <2>3. Alive' = {g}
    BY <1>1, <2>2 DEF SpawnChild, TypeOK, Alive
  <2>4. Contract!Spawn
    BY <1>0, <2>1, <2>2, <2>3 DEF Contract!Spawn, Alive, Owns, Gens
  <2>5. QED
    BY <2>4 DEF Contract!Next
<1>2. CASE child' = [child EXCEPT ![g] = "exited"]
  BY <1>0, <1>2, SimulateStop
<1>3. CASE UNCHANGED child
  BY <1>0, <1>3, ContractStutters
<1>4. QED
  BY <1>1, <1>2, <1>3
     DEF StartStep, StartCancelled, StartIsolateCancelled, StartIsolateSettled,
         StartFails, StartChecked, MarkSpawned, RegisterPid, SetupFails, AbortStartup,
         PublishRunning, RunningSettled, FinishCancellation, CancellationSettled,
         ReportFailure, FailureSettled

\* The registered handle moves on to active, ending or ended.
LEMMA SimulatePhase ==
    ASSUME TypeOK, OwnInv, NEW g \in Gens, NEW to \in {"active", "ending", "ended"},
           Owns(g), phase' = [phase EXCEPT ![g] = to], UNCHANGED <<live, child>>,
           to = "active" => phase[g] \in {"creating", "active"},
           to = "ending" => phase[g] \in {"creating", "active", "ending"},
           to = "ended" => phase[g] = "ending" /\ run[g] \notin WithChild
    PROVE  Contract!Next \/ UNCHANGED Contract!vars
<1>0. phase'[g] = to /\ live = g /\ g # 0
  BY DEF TypeOK, Owns, Gens
<1>1. CASE phase[g] = to
  BY <1>0, <1>1 DEF Contract!vars
<1>2. CASE phase[g] # to /\ to = "active"
  <2>1. Contract!Activate
    BY <1>0, <1>2 DEF Contract!Activate
  <2>2. QED
    BY <2>1 DEF Contract!Next
<1>3. CASE phase[g] # to /\ to = "ending"
  <2>1. Contract!End
    BY <1>0, <1>3 DEF Contract!End
  <2>2. QED
    BY <2>1 DEF Contract!Next
<1>4. CASE to = "ended"
  <2>1. Alive = {}
    BY <1>4, AliveIsOwner
  <2>2. Contract!Complete
    BY <1>0, <1>4, <2>1 DEF Contract!Complete, Alive
  <2>3. QED
    BY <2>2 DEF Contract!Next
<1>5. QED
  BY <1>1, <1>2, <1>3, <1>4

LEMMA SimulateDriver ==
    ASSUME TypeOK, OwnInv, NEW g \in Gens, DriverStep(g) \/ ChildExits(g) \/ StopChild(g)
    PROVE  Contract!Next \/ UNCHANGED Contract!vars
<1>1. CASE ChildExits(g)
  BY <1>1, SimulateStop DEF ChildExits, DriverUnchanged
<1>2. CASE ExitTimeout(g)
  <2>1. run[g] = "settling" /\ Owns(g) /\ phase[g] \in Unended
    BY <1>2 DEF ExitTimeout, OwnInv, WorkInv, Working, Exiting
  <2>2. phase' = [phase EXCEPT ![g] = "ending"] /\ UNCHANGED <<live, child>>
    BY <1>2, <2>1 DEF ExitTimeout, EndingOrGone, DriverUnchanged, Unended
  <2>3. QED
    BY <2>1, <2>2, SimulatePhase DEF Unended
<1>3. CASE UNCHANGED <<live, phase, child>>
  BY <1>3, ContractStutters
<1>4. QED
  BY <1>1, <1>2, <1>3 DEF DriverStep, KillChild, StopChild, SignalChild, ObserveExit,
     ExitRequest, ExitSettled, ExitDetach, ExitClear, DriverUnchanged

LEMMA SimulateTransition ==
    ASSUME TypeOK, OwnInv, NEW g \in Gens, NEW role \in Roles, TransitionStep(g, role)
    PROVE  Contract!Next \/ UNCHANGED Contract!vars
<1>1. CASE TransitionHandle(g, role)
  <2> DEFINE s == trans[<<g, role>>].status
  <2>1. /\ Owns(g) /\ phase[g] # "ended"
        /\ phase[g] = "ending" => s \in Terminal
        /\ phase' = [phase EXCEPT ![g] = IF s \in Terminal THEN "ending" ELSE "active"]
        /\ UNCHANGED <<live, child>>
    BY <1>1 DEF TransitionHandle, HandleRefuses, TransUnchanged
  <2>2. phase[g] \in {"creating", "active", "ending"}
    BY <2>1 DEF OwnInv, NextInv, Owns, Gens, TypeOK, Phases
  <2>3. CASE s \in Terminal
    <3>1. phase' = [phase EXCEPT ![g] = "ending"]
      BY <2>1, <2>3
    <3>2. QED
      BY <2>1, <2>2, <3>1, SimulatePhase
  <2>4. CASE s \notin Terminal
    <3>1. phase' = [phase EXCEPT ![g] = "active"]
      BY <2>1, <2>4
    <3>2. phase[g] \in {"creating", "active"}
      BY <2>1, <2>2, <2>4
    <3>3. QED
      BY <2>1, <3>1, <3>2, SimulatePhase
  <2>5. QED
    BY <2>3, <2>4
<1>2. CASE UNCHANGED <<live, phase, child>>
  BY <1>2, ContractStutters
<1>3. QED
  BY <1>1, <1>2 DEF TransitionStep, TransitionRefused, PersistTransition, TransUnchanged

LEMMA SimulateFin ==
    ASSUME TypeOK, OwnInv, NEW g \in Gens, NEW k \in {1, 2}, FinStep(g, k)
    PROVE  Contract!Next \/ UNCHANGED Contract!vars
<1>0. UNCHANGED <<live, child>> /\ fin[<<g, k>>].at # "idle"
  BY DEF FinStep, FinScan, FinCapture, FinHistory, FinPublish, FinUnchanged
<1>1. CASE EndingOwner(g) /\ phase' = [phase EXCEPT ![g] = "ended"]
  <2>1. run[g] \notin WithChild
    BY <1>0 DEF OwnInv, FinInv, Over, WithChild
  <2>2. QED
    BY <1>0, <1>1, <2>1, SimulatePhase DEF EndingOwner
<1>2. CASE UNCHANGED phase
  BY <1>0, <1>2, ContractStutters
<1>3. QED
  BY <1>1, <1>2 DEF FinStep, FinScan, FinCapture, FinHistory, FinPublish, FinMatches

LEMMA SimulateForget ==
    ASSUME TypeOK, OwnInv, ForgetSession
    PROVE  Contract!Next \/ UNCHANGED Contract!vars
<1>0. /\ UNCHANGED <<phase, child>> /\ live' = 0
      /\ live = 0 \/ phase[live] = "ended"
  BY DEF ForgetSession, UserUnchanged, RuntimeClosed
<1>1. CASE live = 0
  BY <1>0, <1>1 DEF Contract!vars
<1>2. CASE live # 0
  <2>1. Alive = {}
    BY <1>0, AliveIsOwner
  <2>2. Contract!Forget
    BY <1>0, <1>2, <2>1 DEF Contract!Forget, Alive
  <2>3. QED
    BY <2>2 DEF Contract!Next
<1>3. QED
  BY <1>1, <1>2

LEMMA SimulateCrash ==
    ASSUME TypeOK, CrashRestart
    PROVE  Contract!Next
<1>1. Alive' = {} /\ live' = 0 /\ Crashes
  BY DEF CrashRestart, Alive
<1>2. Contract!Crash
  BY <1>1 DEF Contract!Crash, Alive
<1>3. QED
  BY <1>2 DEF Contract!Next

LEMMA SimulateCreate ==
    ASSUME TypeOK, OwnInv, CreateSession
    PROVE  Contract!Next \/ UNCHANGED Contract!vars
<1>0. next = 1 /\ live = 0 /\ 1 \in Gens /\ UNCHANGED child
  <2>1. next = 1 /\ UNCHANGED child
    BY DEF CreateSession
  <2>2. 1 \in Gens
    BY BoundsAssumption DEF Gens
  <2>3. live < next /\ live \in 0 .. MaxGen
    BY DEF OwnInv, NextInv, TypeOK
  <2>4. QED
    BY <2>1, <2>2, <2>3
<1>1. CASE live' = 1 /\ phase' = [phase EXCEPT ![1] = "creating"]
  <2> DEFINE g == 1
  <2>1. /\ g \in Gens /\ live < g /\ live' = g /\ live = 0
        /\ phase' = [phase EXCEPT ![g] = "creating"]
    BY <1>0, <1>1
  <2> HIDE DEF g
  <2>2. QED
    BY <1>0, <2>1, SimulateAdmit
<1>2. CASE UNCHANGED <<live, phase>>
  BY <1>0, <1>2, ContractStutters
<1>3. QED
  BY <1>0, <1>1, <1>2 DEF CreateSession, InstallHandle

\* The sidecar implements the contract: one generation at a time, its phase
\* only moves forward, a process only for it, and it is completed only after
\* its process has stopped; a rolled-back admission has never had one.
THEOREM LifecycleImplementsContract == Spec => ImplementsContract
<1>1. Init => Contract!Init
  BY DEF Init, Contract!Init
<1>2. TypeOK /\ OwnInv /\ PublishInv /\ [Next]_vars => [Contract!Next]_(Contract!vars)
  <2> SUFFICES ASSUME TypeOK, OwnInv, PublishInv, [Next]_vars
               PROVE  Contract!Next \/ UNCHANGED Contract!vars
    OBVIOUS
  <2>1. CASE UserStep
    <3>1. CASE \E g \in Gens : \/ RequestStop(g) \/ DeleteSession(g)
                               \/ DeleteReturns(g) \/ Attach(g) \/ Detach(g)
      BY <3>1, ContractStutters DEF RequestStop, DeleteSession, DeleteReturns, Attach,
         Detach, UserUnchanged
    <3>2. QED
      BY <2>1, <3>1, SimulateCreate, SimulateForget, SimulateResume, SimulateDriver
         DEF UserStep
  <2>2. CASE \E r \in Resumers : ResumeStep(r)
    BY <2>2, SimulateResume
  <2>3. CASE \E g \in Gens : StartStep(g) \/ DriverStep(g)
    BY <2>3, SimulateStart, SimulateDriver
  <2>4. CASE \E g \in Gens, role \in Roles : TransitionStep(g, role)
    BY <2>4, SimulateTransition
  <2>5. CASE \E g \in Gens, k \in {1, 2} : FinStep(g, k)
    BY <2>5, SimulateFin
  <2>6. CASE ReopenWorkspace
    BY <2>6, ContractStutters DEF ReopenWorkspace, handleVars
  <2>7. CASE CrashRestart
    BY <2>7, SimulateCrash
  <2>8. CASE UNCHANGED vars
    BY <2>8, ContractStutters DEF vars, handleVars
  <2>9. QED
    BY <2>1, <2>2, <2>3, <2>4, <2>5, <2>6, <2>7, <2>8 DEF Next
<1>3. QED
  BY <1>1, <1>2, LifecycleTypeOK, LifecycleOwnInv, LifecyclePublishInv, PTL
     DEF Spec, ImplementsContract, Contract!Spec

=============================================================================
