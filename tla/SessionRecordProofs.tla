------------------------- MODULE SessionRecordProofs -------------------------
(***************************************************************************)
(* What the durable record of SessionLifecycle says of the registered      *)
(* handle, for all constants: a published end is durable, and the first    *)
(* terminal status wins.                                                   *)
(*                                                                         *)
(* The argument: the record is written by the second half of a transition, *)
(* by a finalizer, by a resume and its rollback, and by reconciliation.    *)
(* A handle never leaves its ending but by being completed, after its      *)
(* record (CloseInv), so the record under a completed handle, under an     *)
(* admission and under one that was rolled back is ended (AgreeInv,        *)
(* ReplaceInv), and a transition leaves an ended record alone.  It makes a *)
(* record an ending one under a lock that it holds since it found the      *)
(* handle not ending, hence the record neither (WriteInv).                 *)
(***************************************************************************)
EXTENDS SessionContractProofs

(* What a record of each phase holds. *)
RecordInv ==
    /\ rec.phase = "none" => rec = NoRec /\ live = 0
    /\ rec.phase = "ending" => rec.pending \in Terminal
    /\ rec.phase = "ended" => rec.status \in Terminal
    /\ next = 1 => rec.phase = "none"

(* A completed handle has a completed record, and a record that is ending  *)
(* has an ending handle, if any.                                           *)
AgreeInv ==
    live # 0 => /\ phase[live] = "ended" => rec.phase = "ended"
                /\ rec.phase = "ending" => phase[live] = "ending"

(* An admission that is not handed over leaves the ended record it saw in  *)
(* place, and an unfinished record without a handle is not one that any    *)
(* request has seen ended.                                                 *)
ReplaceInv ==
    /\ \A r \in Resumers :
          /\ resume[r].seen.phase = "ended" => resume[r].seen.status \in Terminal
          /\ resume[r].at \in {"persist", "unwind", "restore"}
                => resume[r].seen.phase = "ended"
          /\ resume[r].at \in {"persist", "unwind"} => rec.phase = "ended"
    /\ live = 0 /\ rec.phase \notin {"none", "ended"} =>
          \A r \in Resumers :
             /\ resume[r].at = "install" /\ resume[r].expected = 0
                   => resume[r].seen.phase # "ended"
             /\ resume[r].at = "restore" => resume[r].prev # 0

(* A finalizer that has looked at its handle works for one that never      *)
(* leaves its ending but by being completed; the record comes first.       *)
CloseOK(g, k) ==
    /\ fin[<<g, k>>].at # "idle" => fin[<<g, k>>].fallback \in Terminal
    /\ fin[<<g, k>>].at \in {"capture", "history", "publish"}
          => phase[g] \in {"ending", "ended"}
    /\ fin[<<g, k>>].at = "publish" /\ live = g /\ phase[g] = "ending"
          => rec.phase = "ended"

CloseInv == \A g \in Gens, k \in {1, 2} : CloseOK(g, k)

(* Between its two halves a transition holds the lock, so that nobody else *)
(* makes the record an ending one under the first to end the session.      *)
WriteOK(g, role) ==
    /\ g >= next => trans[<<g, role>>].at = "idle"
    /\ trans[<<g, role>>].at = "persist" =>
          /\ lock = <<g, role>>
          /\ trans[<<g, role>>].status \in Terminal =>
                /\ phase[g] \in {"ending", "ended"}
                /\ live = g /\ trans[<<g, role>>].already = "no"
                      => rec.phase # "ending"
          /\ trans[<<g, role>>].status \notin Terminal =>
                role = "start" /\ run[g] = "publishing"

WriteInv == \A g \in Gens, role \in Roles : WriteOK(g, role)

DurableInv == RecordInv /\ AgreeInv /\ ReplaceInv /\ CloseInv /\ WriteInv

\* What transitions rely on, while nothing of it changes.
LEMMA WriteSame ==
    ASSUME WriteInv, UNCHANGED <<next, live, phase, rec, run, trans, lock>>
    PROVE  WriteInv'
<1>1. ASSUME NEW h \in Gens, NEW q \in Roles PROVE WriteOK(h, q)'
  <2>1. WriteOK(h, q)
    BY DEF WriteInv
  <2>2. QED
    BY <2>1 DEF WriteOK
<1>2. QED
  BY <1>1 DEF WriteInv

LEMMA DurableSame ==
    ASSUME DurableInv, UNCHANGED <<next, live, phase, rec, run, trans, lock, fin, resume>>
    PROVE  DurableInv'
<1>1. RecordInv' /\ AgreeInv' /\ ReplaceInv'
  BY DEF DurableInv, RecordInv, AgreeInv, ReplaceInv
<1>2. CloseInv'
  BY Zenon DEF DurableInv, CloseInv, CloseOK
<1>3. WriteInv'
  BY WriteSame DEF DurableInv
<1>4. QED
  BY <1>1, <1>2, <1>3 DEF DurableInv

\* A finalizer is scheduled with a terminal status.
LEMMA CloseScheduled ==
    ASSUME TypeOK, CloseInv, NEW g \in Gens, UNCHANGED <<live, phase, rec>>,
           \/ fin' = fin
           \/ \E k \in {1, 2}, s \in Terminal : fin' = Schedule(g, k, s)
    PROVE  CloseInv'
<1>1. CASE fin' = fin
  BY <1>1, Zenon DEF CloseInv, CloseOK
<1>2. CASE \E k \in {1, 2}, s \in Terminal : fin' = Schedule(g, k, s)
  <2>1. PICK k \in {1, 2}, s \in Terminal : fin' = Schedule(g, k, s)
    BY <1>2
  <2>2. /\ fin'[<<g, k>>].at = "scan" /\ fin'[<<g, k>>].fallback = s
        /\ \A f \in Fins : f # <<g, k>> => fin'[f] = fin[f]
    BY <2>1 DEF Schedule, TypeOK, Fins
  <2>3. \A h \in Gens, j \in {1, 2} : <<h, j>> \in Fins
    BY DEF Fins
  <2>4. ASSUME NEW h \in Gens, NEW j \in {1, 2} PROVE CloseOK(h, j)'
    <3>1. CASE <<h, j>> = <<g, k>>
      BY <2>2, <3>1 DEF CloseOK
    <3>2. CASE <<h, j>> # <<g, k>>
      <4>1. fin'[<<h, j>>] = fin[<<h, j>>] /\ CloseOK(h, j)
        BY <2>2, <2>3, <3>2, Zenon DEF CloseInv
      <4>2. QED
        BY <4>1 DEF CloseOK
    <3>3. QED
      BY <3>1, <3>2
  <2>5. QED
    BY <2>4 DEF CloseInv
<1>3. QED
  BY <1>1, <1>2

\* A task that moves on, and at most asks for a transition or takes its
\* answer, keeps what a transition that is under way relies on.
LEMMA WriteMoves ==
    ASSUME TypeOK, OwnInv, WriteInv, NEW g \in Gens, NEW to \in RunSteps,
           run[g] # "none", run' = Goto(g, to),
           UNCHANGED <<next, live, phase, rec, lock>>,
           \/ run[g] # "publishing" /\ UNCHANGED trans
           \/ \E role \in Roles, x \in TransType :
                 /\ trans' = [trans EXCEPT ![<<g, role>>] = x]
                 /\ x.at # "persist"
                 /\ run[g] = "publishing" => role = "start"
    PROVE  WriteInv'
<1>0. /\ run \in [Gens -> RunSteps] /\ run' = [run EXCEPT ![g] = to]
      /\ trans \in [Gens \X Roles -> TransType]
  BY DEF TypeOK, Goto
<1>1. ~(g >= next)
  BY DEF OwnInv, NextInv
<1>2. CASE run[g] # "publishing" /\ UNCHANGED trans
  <2>1. ASSUME NEW h \in Gens, NEW q \in Roles PROVE WriteOK(h, q)'
    <3>1. WriteOK(h, q) /\ (h # g => run'[h] = run[h])
      BY <1>0 DEF WriteInv
    <3>2. QED
      BY <1>2, <3>1 DEF WriteOK
  <2>2. QED
    BY <2>1 DEF WriteInv
<1>3. CASE \E role \in Roles, x \in TransType :
              /\ trans' = [trans EXCEPT ![<<g, role>>] = x]
              /\ x.at # "persist"
              /\ run[g] = "publishing" => role = "start"
  <2>1. PICK role \in Roles, x \in TransType :
              /\ trans' = [trans EXCEPT ![<<g, role>>] = x]
              /\ x.at # "persist"
              /\ run[g] = "publishing" => role = "start"
    BY <1>3, Zenon
  <2>2. /\ trans'[<<g, role>>] = x
        /\ \A h \in Gens, q \in Roles :
              h # g \/ q # role => trans'[<<h, q>>] = trans[<<h, q>>]
    BY <1>0, <2>1
  <2>3. \A h \in Gens : h # g => run'[h] = run[h]
    BY <1>0
  <2>4. ASSUME NEW h \in Gens, NEW q \in Roles PROVE WriteOK(h, q)'
    <3>1. CASE h = g /\ q = role
      BY <1>1, <2>1, <2>2, <3>1 DEF WriteOK
    <3>2. CASE h # g \/ q # role
      <4>1. WriteOK(h, q) /\ trans'[<<h, q>>] = trans[<<h, q>>]
        BY <2>2, <3>2 DEF WriteInv
      <4>2. QED
        BY <2>1, <2>3, <3>2, <4>1 DEF WriteOK
    <3>3. QED
      BY <3>1, <3>2
  <2>5. QED
    BY <2>4 DEF WriteInv
<1>4. QED
  BY <1>2, <1>3

LEMMA DurableMoves ==
    ASSUME TypeOK, OwnInv, DurableInv, NEW g \in Gens, NEW to \in RunSteps,
           run[g] # "none", run' = Goto(g, to),
           UNCHANGED <<next, live, phase, rec, lock, resume>>,
           \/ fin' = fin
           \/ \E k \in {1, 2}, s \in Terminal : fin' = Schedule(g, k, s),
           \/ run[g] # "publishing" /\ UNCHANGED trans
           \/ \E role \in Roles, x \in TransType :
                 /\ trans' = [trans EXCEPT ![<<g, role>>] = x]
                 /\ x.at # "persist"
                 /\ run[g] = "publishing" => role = "start"
    PROVE  DurableInv'
<1>1. RecordInv' /\ AgreeInv' /\ ReplaceInv'
  BY DEF DurableInv, RecordInv, AgreeInv, ReplaceInv
<1>2. CloseInv'
  BY CloseScheduled DEF DurableInv
<1>3. WriteInv'
  BY WriteMoves DEF DurableInv
<1>4. QED
  BY <1>1, <1>2, <1>3 DEF DurableInv

\* A request for a status, and the reset after its answer.
LEMMA AskedTransition ==
    ASSUME NEW g \in Gens, NEW role \in Roles, NEW s \in Statuses,
           trans' = Request(<<g, role>>, s)
    PROVE  \E x \in TransType :
              trans' = [trans EXCEPT ![<<g, role>>] = x] /\ x.at # "persist"
<1> DEFINE x == [at |-> "handle", status |-> s, already |-> "no"]
<1>1. x \in TransType /\ x.at # "persist"
  BY DEF TransType, TransSteps
<1>2. trans' = [trans EXCEPT ![<<g, role>>] = x]
  BY DEF Request
<1> HIDE DEF x
<1>3. QED
  BY <1>1, <1>2, Zenon

LEMMA IdleTransition == Idle \in TransType /\ Idle.at # "persist"
BY DEF Idle, TransType, TransSteps, Statuses

\* No step of the startup task touches the registry or the record.
LEMMA DurableStart ==
    ASSUME TypeOK, OwnInv, DurableInv, NEW g \in Gens, StartStep(g)
    PROVE  DurableInv'
<1>0. UNCHANGED <<next, live, phase, rec, lock, resume>>
  BY Zenon DEF StartStep, StartCancelled, StartIsolateCancelled, StartIsolateSettled,
         StartFails, StartChecked, SpawnChild, MarkSpawned, RegisterPid, SetupFails,
         PublishRunning, RunningSettled, FinishCancellation, CancellationSettled,
         ReportFailure, FailureSettled, StartUnchanged
<1>1. /\ "start" \in Roles /\ {"killed", "error"} \subseteq Terminal
      /\ Terminal \cup {"running"} \subseteq Statuses
  BY DEF Roles, Terminal, Statuses
<1>2. ASSUME NEW to \in RunSteps, run[g] \notin {"none", "publishing"}, run' = Goto(g, to),
             UNCHANGED <<trans, fin>>
      PROVE  DurableInv'
  BY <1>0, <1>2, DurableMoves
<1>3. ASSUME NEW to \in RunSteps, NEW s \in Statuses, run[g] # "none",
             run' = Goto(g, to), trans' = Request(<<g, "start">>, s), UNCHANGED fin
      PROVE  DurableInv'
  <2>1. PICK x \in TransType : /\ trans' = [trans EXCEPT ![<<g, "start">>] = x]
                               /\ x.at # "persist"
    BY <1>1, <1>3, AskedTransition, Zenon
  <2>2. QED
    BY <1>0, <1>1, <1>3, <2>1, DurableMoves, Zenon
<1>4. ASSUME NEW to \in RunSteps, run[g] # "none", run' = Goto(g, to),
             trans' = [trans EXCEPT ![<<g, "start">>] = Idle],
             fin' = fin \/ \E k \in {1, 2}, s \in Terminal : fin' = Schedule(g, k, s)
      PROVE  DurableInv'
  <2>1. Idle \in TransType /\ Idle.at # "persist"
    BY IdleTransition
  <2>2. QED
    BY <1>0, <1>1, <1>4, <2>1, DurableMoves, Zenon
<1>5. CASE \/ StartCancelled(g) \/ StartFails(g) \/ StartChecked(g) \/ SpawnChild(g)
           \/ MarkSpawned(g) \/ RegisterPid(g)
  BY <1>2, <1>5 DEF StartCancelled, StartFails, StartChecked, SpawnChild, MarkSpawned,
     RegisterPid, RunSteps
<1>6. CASE StartIsolateCancelled(g) \/ PublishRunning(g) \/ ReportFailure(g)
  BY <1>1, <1>3, <1>6 DEF StartIsolateCancelled, PublishRunning, ReportFailure, RunSteps
<1>7. CASE StartIsolateSettled(g) \/ CancellationSettled(g)
  <2>1. \E k \in {1, 2}, s \in Terminal : fin' = Schedule(g, k, s)
    BY <1>1, <1>7 DEF StartIsolateSettled, CancellationSettled
  <2>2. QED
    BY <1>4, <1>7, <2>1 DEF StartIsolateSettled, CancellationSettled, RunSteps
<1>8. CASE FailureSettled(g)
  <2>1. fin' = fin \/ \E k \in {1, 2}, s \in Terminal : fin' = Schedule(g, k, s)
    BY <1>1, <1>8 DEF FailureSettled
  <2>2. QED
    BY <1>4, <1>8, <2>1 DEF FailureSettled, RunSteps
<1>9. CASE FinishCancellation(g)
  BY <1>1, <1>2, <1>3, <1>9 DEF FinishCancellation, RunSteps
<1>10. CASE SetupFails(g)
  <2>1. fin' = fin \/ \E k \in {1, 2}, s \in Terminal : fin' = Schedule(g, k, s)
    BY <1>1, <1>10 DEF SetupFails, AbortStartup
  <2>2. PICK to \in {"cancelled", "failed"} : run' = Goto(g, to)
    BY <1>10 DEF SetupFails, AbortStartup
  <2>3. to \in RunSteps /\ run[g] = "setup" /\ UNCHANGED trans
    BY <1>10 DEF SetupFails, RunSteps
  <2>4. QED
    BY <1>0, <2>1, <2>2, <2>3, DurableMoves
<1>11. CASE RunningSettled(g)
  <2>1. fin' = fin \/ \E k \in {1, 2}, s \in Terminal : fin' = Schedule(g, k, s)
    BY <1>1, <1>11 DEF RunningSettled, AbortStartup
  <2>2. PICK to \in {"cancelled", "driving"} : run' = Goto(g, to)
    BY <1>11 DEF RunningSettled, AbortStartup
  <2>3. /\ to \in RunSteps /\ run[g] = "publishing"
        /\ trans' = [trans EXCEPT ![<<g, "start">>] = Idle]
    BY <1>11 DEF RunningSettled, RunSteps
  <2>4. QED
    BY <1>4, <2>1, <2>2, <2>3
<1>12. QED
  BY <1>5, <1>6, <1>7, <1>8, <1>9, <1>10, <1>11 DEF StartStep

\* The driver's own marking of the handle: no finalizer has looked at it yet.
LEMMA DurableExitTimeout ==
    ASSUME TypeOK, OwnInv, DurableInv, NEW g \in Gens, ExitTimeout(g)
    PROVE  DurableInv'
<1>0. /\ run[g] = "settling" /\ live = g /\ phase[g] \in Unended
      /\ phase \in [Gens -> Phases] /\ run \in [Gens -> RunSteps]
      /\ 0 \notin Gens
  BY DEF OwnInv, WorkInv, ExitTimeout, Working, Exiting, Owns, TypeOK, Gens
<1>1. /\ run' = [run EXCEPT ![g] = "detaching"]
      /\ phase' = [phase EXCEPT ![g] = "ending"]
      /\ UNCHANGED <<next, live, rec, trans, lock, fin, resume>>
  BY <1>0 DEF ExitTimeout, EndingOrGone, Goto, Unended, Owns, DriverUnchanged
<1>2. RecordInv' /\ AgreeInv' /\ ReplaceInv'
  BY <1>0, <1>1 DEF DurableInv, RecordInv, AgreeInv, ReplaceInv, Unended
<1>3. CloseInv'
  <2>1. ASSUME NEW h \in Gens, NEW j \in {1, 2} PROVE CloseOK(h, j)'
    <3>1. CloseOK(h, j) /\ (h = g => fin[<<h, j>>].at = "idle")
      BY <1>0, Zenon DEF DurableInv, CloseInv, OwnInv, FinInv, Over
    <3>2. QED
      BY <1>0, <1>1, <3>1 DEF CloseOK
  <2>2. QED
    BY <2>1 DEF CloseInv
<1>4. WriteInv'
  <2>1. ASSUME NEW h \in Gens, NEW q \in Roles PROVE WriteOK(h, q)'
    <3>1. WriteOK(h, q)
      BY DEF DurableInv, WriteInv
    <3>2. QED
      BY <1>0, <1>1, <3>1 DEF WriteOK
  <2>2. QED
    BY <2>1 DEF WriteInv
<1>5. QED
  BY <1>2, <1>3, <1>4 DEF DurableInv

LEMMA DurableDriver ==
    ASSUME TypeOK, OwnInv, DurableInv, NEW g \in Gens,
           DriverStep(g) \/ ChildExits(g) \/ StopChild(g)
    PROVE  DurableInv'
<1>1. CASE ChildExits(g)
  <2>1. UNCHANGED <<next, live, phase, rec, run, trans, lock, fin, resume>>
    BY <1>1 DEF ChildExits, DriverUnchanged
  <2>2. QED
    BY <2>1, DurableSame
<1>2. CASE SignalChild(g) \/ ObserveExit(g) \/ ExitDetach(g)
  <2>1. PICK to \in {"stopping", "exiting", "done", "clearing"} : run' = Goto(g, to)
    BY <1>2 DEF SignalChild, ObserveExit, ExitDetach
  <2>2. /\ run[g] \notin {"none", "publishing"} /\ to \in RunSteps
        /\ UNCHANGED <<next, live, phase, rec, lock, resume, trans, fin>>
    BY <1>2 DEF SignalChild, ObserveExit, ExitDetach, DriverUnchanged, RunSteps
  <2>3. QED
    BY <2>1, <2>2, DurableMoves
<1>3. CASE ExitRequest(g)
  <2>1. exitAs[g] \in Statuses /\ "exit" \in Roles /\ "settling" \in RunSteps
    BY <1>3 DEF ExitRequest, OwnInv, ExitInv, Exiting, Statuses, Roles, RunSteps
  <2>2. /\ run' = Goto(g, "settling") /\ trans' = Request(<<g, "exit">>, exitAs[g])
        /\ run[g] = "exiting" /\ UNCHANGED <<next, live, phase, rec, lock, resume, fin>>
    BY <1>3 DEF ExitRequest, OwnInv, WorkInv, Working, Exiting, DriverUnchanged
  <2>3. PICK x \in TransType : /\ trans' = [trans EXCEPT ![<<g, "exit">>] = x]
                               /\ x.at # "persist"
    BY <2>1, <2>2, AskedTransition, Zenon
  <2>4. QED
    BY <2>1, <2>2, <2>3, DurableMoves, Zenon
<1>4. CASE ExitSettled(g)
  <2>1. "exit" \in Roles /\ "detaching" \in RunSteps
    BY DEF Roles, RunSteps
  <2>2. Idle \in TransType /\ Idle.at # "persist"
    BY IdleTransition
  <2>3. QED
    BY <1>4, <2>1, <2>2, DurableMoves, Zenon DEF ExitSettled, DriverUnchanged
<1>5. CASE ExitClear(g)
  <2>1. exitAs[g] \in Terminal /\ "done" \in RunSteps
    BY <1>5, Zenon DEF ExitClear, OwnInv, ExitInv, Exiting, RunSteps
  <2>2. QED
    BY <1>5, <2>1, DurableMoves DEF ExitClear, DriverUnchanged
<1>6. QED
  BY <1>1, <1>2, <1>3, <1>4, <1>5, DurableExitTimeout DEF DriverStep, KillChild, StopChild

\* A step outside the transitions keeps what they rely on, unless it takes a
\* handle back from its ending or makes the owner's record an ending one.
LEMMA WriteKept ==
    ASSUME WriteInv, UNCHANGED <<next, run, trans, lock>>,
           \A h \in Gens : phase[h] \in {"ending", "ended"} =>
                              phase'[h] \in {"ending", "ended"},
           \A h \in Gens : live' = h /\ rec'.phase = "ending" =>
                              live = h /\ rec.phase = "ending"
    PROVE  WriteInv'
<1>1. ASSUME NEW h \in Gens, NEW q \in Roles PROVE WriteOK(h, q)'
  <2>1. WriteOK(h, q)
    BY DEF WriteInv
  <2>2. QED
    BY <2>1 DEF WriteOK
<1>2. QED
  BY <1>1 DEF WriteInv

\* A transition that is answered is no longer under way.
LEMMA AnsweredTransition ==
    ASSUME TypeOK, NEW g \in Gens, NEW role \in Roles, NEW x \in {"applied", "refused"},
           trans[<<g, role>>].at # "idle", WriteInv,
           trans' = Settle(<<g, role>>, x)
    PROVE  /\ trans'[<<g, role>>].at \notin {"handle", "persist"}
           /\ ~(g >= next)
           /\ \A h \in Gens, q \in Roles :
                 h # g \/ q # role => trans'[<<h, q>>] = trans[<<h, q>>]
<1>0. trans[<<g, role>>] \in TransType /\ <<g, role>> \in Gens \X Roles
  BY DEF TypeOK
<1>1. trans'[<<g, role>>] \in {Idle, [trans[<<g, role>>] EXCEPT !.at = x]}
  BY <1>0 DEF Settle, TypeOK
<1>2. [trans[<<g, role>>] EXCEPT !.at = x].at = x
  BY <1>0 DEF TransType
<1>3. Idle.at = "idle"
  BY DEF Idle
<1>4. \A h \in Gens, q \in Roles :
         h # g \/ q # role => trans'[<<h, q>>] = trans[<<h, q>>]
  BY DEF Settle, TypeOK
<1>5. ~(g >= next)
  <2>1. WriteOK(g, role)
    BY DEF WriteInv
  <2>2. QED
    BY <2>1 DEF WriteOK
<1>6. QED
  BY <1>1, <1>2, <1>3, <1>4, <1>5, Zenon

LEMMA DurableRefused ==
    ASSUME TypeOK, DurableInv, NEW g \in Gens, NEW role \in Roles,
           TransitionRefused(g, role)
    PROVE  DurableInv'
<1>0. UNCHANGED <<next, live, phase, rec, run, lock, fin, resume>>
  BY DEF TransitionRefused, TransUnchanged
<1>1. RecordInv' /\ AgreeInv' /\ ReplaceInv' /\ CloseInv'
  BY <1>0 DEF DurableInv, RecordInv, AgreeInv, ReplaceInv, CloseInv, CloseOK
<1>2. /\ trans'[<<g, role>>].at # "persist" /\ ~(g >= next)
      /\ \A h \in Gens, q \in Roles :
            h # g \/ q # role => trans'[<<h, q>>] = trans[<<h, q>>]
  BY AnsweredTransition, Zenon DEF TransitionRefused, DurableInv
<1>3. ASSUME NEW h \in Gens, NEW q \in Roles PROVE WriteOK(h, q)'
  <2>1. WriteOK(h, q)
    BY DEF DurableInv, WriteInv
  <2>2. QED
    BY <1>0, <1>2, <2>1 DEF WriteOK
<1>4. QED
  BY <1>1, <1>3 DEF DurableInv, WriteInv

\* The live half: the first to end the session finds no ending record, since
\* that would have an ending handle.
LEMMA DurableHandle ==
    ASSUME TypeOK, OwnInv, PublishInv, DurableInv, NEW g \in Gens, NEW role \in Roles,
           TransitionHandle(g, role)
    PROVE  DurableInv'
<1> DEFINE s == trans[<<g, role>>].status
           new == [at |-> "persist", status |-> s,
                   already |-> IF s \in Terminal /\ phase[g] = "ending"
                               THEN "yes" ELSE "no"]
<1>0. /\ phase \in [Gens -> Phases] /\ trans \in [Gens \X Roles -> TransType]
      /\ live = g /\ phase[g] # "ended" /\ lock = NoTask /\ lock' = <<g, role>>
      /\ phase[g] = "ending" => s \in Terminal
      /\ trans[<<g, role>>].at = "handle"
      /\ phase' = [phase EXCEPT ![g] = IF s \in Terminal THEN "ending" ELSE "active"]
      /\ trans' = [trans EXCEPT ![<<g, role>>] = new]
      /\ UNCHANGED <<next, live, rec, run, fin, resume>>
      /\ 0 \notin Gens
  BY SMTT(20) DEF TypeOK, TransitionHandle, HandleRefuses, TransUnchanged, Owns, Gens
<1>1. RecordInv' /\ AgreeInv' /\ ReplaceInv'
  BY <1>0 DEF DurableInv, RecordInv, AgreeInv, ReplaceInv
<1>2. CloseInv'
  <2>1. ASSUME NEW h \in Gens, NEW j \in {1, 2} PROVE CloseOK(h, j)'
    <3>1. CloseOK(h, j)
      BY DEF DurableInv, CloseInv
    <3>2. QED
      BY <1>0, <3>1 DEF CloseOK
  <2>2. QED
    BY <2>1 DEF CloseInv
<1>3. WriteInv'
  <2>1. /\ trans'[<<g, role>>] = new
        /\ \A h \in Gens, q \in Roles :
              h # g \/ q # role => trans'[<<h, q>>] = trans[<<h, q>>]
    BY <1>0
  <2>2. \A h \in Gens, q \in Roles : trans[<<h, q>>].at # "persist"
    <3>1. ASSUME NEW h \in Gens, NEW q \in Roles PROVE trans[<<h, q>>].at # "persist"
      <4>1. WriteOK(h, q) /\ lock # <<h, q>>
        BY <1>0 DEF DurableInv, WriteInv, NoTask, Gens
      <4>2. QED
        BY <4>1 DEF WriteOK
    <3>2. QED
      BY <3>1, Zenon
  <2>3. /\ new.at = "persist" /\ new.status = s
        /\ new.already = "no" => ~(s \in Terminal /\ phase[g] = "ending")
    OBVIOUS
  <2>4. s \notin Terminal => role = "start" /\ run[g] = "publishing"
    BY <1>0 DEF PublishInv, AskInv
  <2>5. phase[g] # "ending" => rec.phase # "ending"
    BY <1>0 DEF DurableInv, AgreeInv
  <2> HIDE DEF new, s
  <2>6. ASSUME NEW h \in Gens, NEW q \in Roles PROVE WriteOK(h, q)'
    <3>0. WriteOK(h, q)
      BY DEF DurableInv, WriteInv
    <3>1. CASE h = g /\ q = role
      <4>1. ~(g >= next)
        BY <1>0, <3>0, <3>1 DEF WriteOK
      <4>2. s \in Terminal => phase'[g] = "ending"
        BY <1>0
      <4>3. QED
        BY <1>0, <2>1, <2>3, <2>4, <2>5, <3>1, <4>1, <4>2 DEF WriteOK
    <3>2. CASE h # g \/ q # role
      BY <1>0, <2>1, <2>2, <3>0, <3>2 DEF WriteOK
    <3>3. QED
      BY <3>1, <3>2
  <2>7. QED
    BY <2>6 DEF WriteInv
<1>4. QED
  BY <1>1, <1>2, <1>3 DEF DurableInv

\* The workspace half writes only into a record that is neither ending nor
\* ended: an ended one belongs to an ended handle, to one whose finalizer is
\* about to publish or to an admission, and an ending one is the first's.
LEMMA PersistWrites ==
    ASSUME TypeOK, OwnInv, DurableInv, NEW g \in Gens, NEW role \in Roles,
           PersistTransition(g, role), rec' # rec
    PROVE  /\ live = g /\ rec.phase \notin {"none", "ending", "ended"}
           /\ \/ rec'.phase = "ending" /\ rec'.pending \in Terminal /\ phase[g] = "ending"
              \/ rec'.phase = "active"
<1> DEFINE s == trans[<<g, role>>].status
           al == trans[<<g, role>>].already
<1>0. /\ live = g /\ rec.phase # "none" /\ ~TransitionIgnored(g, s, al)
      /\ rec' = TransitionedRec(s) /\ trans[<<g, role>>].at = "persist"
  BY DEF PersistTransition, Owns
<1>1. /\ rec \in RecType /\ s \in Statuses /\ al \in {"no", "yes"} /\ g # 0
      /\ WriteOK(g, role)
  BY DEF TypeOK, TransType, Gens, DurableInv, WriteInv
<1>2. CASE s \in Terminal
  <2>1. phase[g] \in {"ending", "ended"} /\ (al = "no" => rec.phase # "ending")
    BY <1>0, <1>1, <1>2 DEF WriteOK
  <2>2. phase[g] = "ended" => rec.phase = "ended"
    BY <1>0, <1>1 DEF DurableInv, AgreeInv
  <2>3. rec.phase = "ended" => rec.status \in Terminal
    BY DEF DurableInv, RecordInv
  <2> HIDE DEF s, al
  <2>4. rec.phase \notin {"ending", "ended"}
    BY <1>0, <1>1, <1>2, <2>1, <2>2, <2>3 DEF TransitionIgnored
  <2>5. rec'.phase = "ending" /\ rec'.pending = s
    BY <1>0, <1>2 DEF TransitionedRec
  <2>6. QED
    BY <1>0, <1>2, <2>1, <2>2, <2>4, <2>5
<1>3. CASE s \notin Terminal
  <2>1. run[g] = "publishing"
    BY <1>0, <1>1, <1>3 DEF WriteOK
  <2>2. rec.phase # "ended"
    BY <2>1 DEF OwnInv, WorkInv, Working, WithChild
  <2> HIDE DEF s, al
  <2>3. phase[g] # "ending"
    BY <1>0, <1>3 DEF TransitionIgnored
  <2>4. rec.phase # "ending"
    BY <1>0, <1>1, <2>3 DEF DurableInv, AgreeInv
  <2>5. rec'.phase = "active"
    BY <1>0, <1>1, <1>3 DEF TransitionedRec, RecType
  <2>6. QED
    BY <1>0, <2>2, <2>4, <2>5
<1>4. QED
  BY <1>2, <1>3

LEMMA DurablePersist ==
    ASSUME TypeOK, OwnInv, DurableInv, NEW g \in Gens, NEW role \in Roles,
           PersistTransition(g, role)
    PROVE  DurableInv'
<1>0. /\ UNCHANGED <<next, live, phase, run, fin, resume>> /\ lock' = NoTask
      /\ trans[<<g, role>>].at = "persist"
      /\ \E x \in {"applied", "refused"} : trans' = Settle(<<g, role>>, x)
  BY DEF PersistTransition, TransUnchanged
<1>1. RecordInv' /\ AgreeInv' /\ ReplaceInv' /\ CloseInv'
  <2>1. CASE rec' = rec
    BY <1>0, <2>1, Zenon DEF DurableInv, RecordInv, AgreeInv, ReplaceInv, CloseInv, CloseOK
  <2>2. CASE rec' # rec
    <3>1. /\ live = g /\ rec.phase \notin {"none", "ending", "ended"}
          /\ \/ rec'.phase = "ending" /\ rec'.pending \in Terminal /\ phase[g] = "ending"
             \/ rec'.phase = "active"
      BY <2>2, PersistWrites
    <3>2. g # 0 /\ next # 1
      BY <3>1 DEF Gens, OwnInv, NextInv
    <3>3. RecordInv' /\ AgreeInv'
      BY <1>0, <3>1, <3>2 DEF DurableInv, RecordInv, AgreeInv
    <3>4. ReplaceInv'
      BY <1>0, <3>1, <3>2 DEF DurableInv, ReplaceInv
    <3>5. ASSUME NEW h \in Gens, NEW j \in {1, 2} PROVE CloseOK(h, j)'
      <4>1. CloseOK(h, j)
        BY DEF DurableInv, CloseInv
      <4>2. QED
        BY <1>0, <3>1, <4>1 DEF CloseOK
    <3>6. QED
      BY <3>3, <3>4, <3>5 DEF CloseInv
  <2>3. QED
    BY <2>1, <2>2
<1>2. WriteInv'
  <2>1. /\ trans'[<<g, role>>].at # "persist" /\ ~(g >= next)
        /\ \A h \in Gens, q \in Roles :
              h # g \/ q # role => trans'[<<h, q>>] = trans[<<h, q>>]
    BY <1>0, AnsweredTransition, Zenon DEF DurableInv
  <2>2. ASSUME NEW h \in Gens, NEW q \in Roles PROVE WriteOK(h, q)'
    <3>1. WriteOK(h, q) /\ WriteOK(g, role)
      BY DEF DurableInv, WriteInv
    <3>2. lock = <<g, role>> /\ (trans[<<h, q>>].at = "persist" => lock = <<h, q>>)
      BY <1>0, <3>1 DEF WriteOK
    <3>3. trans'[<<h, q>>].at # "persist"
      BY <2>1, <3>2
    <3>4. QED
      BY <1>0, <2>1, <3>1, <3>3 DEF WriteOK
  <2>3. QED
    BY <2>2 DEF WriteInv
<1>3. QED
  BY <1>1, <1>2 DEF DurableInv

-----------------------------------------------------------------------------
(* Finalizers *)

\* Between its steps a finalizer changes only itself, and the transitions.
LEMMA DurableFinFrame ==
    ASSUME TypeOK, DurableInv, NEW g \in Gens, NEW k \in {1, 2}, FinStep(g, k)
    PROVE  /\ UNCHANGED <<next, live, run, trans, lock, resume>>
           /\ \A h \in Gens, j \in {1, 2} : <<h, j>> # <<g, k>> =>
                 fin'[<<h, j>>] = fin[<<h, j>>]
           /\ fin[<<g, k>>] \in FinType /\ fin[<<g, k>>].at # "idle"
           /\ fin[<<g, k>>].fallback \in Terminal
<1>1. FinUnchanged /\ fin[<<g, k>>].at # "idle"
  BY DEF FinStep, FinScan, FinCapture, FinHistory, FinPublish
<1>2. \A f \in Fins : f # <<g, k>> => fin'[f] = fin[f]
  BY DEF FinStep, FinScan, FinCapture, FinHistory, FinPublish, FinStop, TypeOK
<1>3. \A h \in Gens, j \in {1, 2} : <<h, j>> \in Fins
  BY DEF Fins
<1>4. fin[<<g, k>>].fallback \in Terminal
  BY <1>1, Zenon DEF DurableInv, CloseInv, CloseOK
<1>5. QED
  BY <1>1, <1>2, <1>3, <1>4, Zenon DEF FinUnchanged, TypeOK

\* The record and the handle as they are, and one finalizer moved on.
LEMMA FinOnly ==
    ASSUME TypeOK, DurableInv, NEW g \in Gens, NEW k \in {1, 2}, FinStep(g, k),
           UNCHANGED <<phase, rec>>, CloseOK(g, k)'
    PROVE  DurableInv'
<1>0. /\ UNCHANGED <<next, live, run, trans, lock, resume>>
      /\ \A h \in Gens, j \in {1, 2} : <<h, j>> # <<g, k>> =>
            fin'[<<h, j>>] = fin[<<h, j>>]
  BY DurableFinFrame, Zenon
<1>1. RecordInv' /\ AgreeInv' /\ ReplaceInv'
  BY <1>0 DEF DurableInv, RecordInv, AgreeInv, ReplaceInv
<1>2. ASSUME NEW h \in Gens, NEW j \in {1, 2} PROVE CloseOK(h, j)'
  <2>1. CASE <<h, j>> = <<g, k>>
    BY <2>1
  <2>2. CASE <<h, j>> # <<g, k>>
    <3>1. CloseOK(h, j) /\ fin'[<<h, j>>] = fin[<<h, j>>]
      BY <1>0, <2>2, Zenon DEF DurableInv, CloseInv
    <3>2. QED
      BY <1>0, <3>1 DEF CloseOK
  <2>3. QED
    BY <2>1, <2>2
<1>3. WriteInv'
  BY <1>0, WriteSame DEF DurableInv
<1>4. QED
  BY <1>1, <1>2, <1>3 DEF DurableInv, CloseInv

\* A finalizer that gives up, and one that looks at its handle.
LEMMA StoppedFin ==
    ASSUME TypeOK, NEW g \in Gens, NEW k \in {1, 2}, FinStop(<<g, k>>)
    PROVE  CloseOK(g, k)'
<1>1. fin'[<<g, k>>] = NoFin
  BY DEF FinStop, TypeOK, Fins
<1>2. NoFin.at = "idle"
  BY DEF NoFin
<1>3. QED
  BY <1>1, <1>2 DEF CloseOK

\* A finalizer writes for its ending owner, and the record before the handle.
LEMMA DurableFin ==
    ASSUME TypeOK, OwnInv, DurableInv, NEW g \in Gens, NEW k \in {1, 2}, FinStep(g, k)
    PROVE  DurableInv'
<1> DEFINE old == fin[<<g, k>>]
           publish(s) == [old EXCEPT !.at = "publish", !.final = s]
<1>0. /\ UNCHANGED <<next, live, run, trans, lock, resume>>
      /\ \A h \in Gens, j \in {1, 2} : <<h, j>> # <<g, k>> =>
            fin'[<<h, j>>] = fin[<<h, j>>]
      /\ old \in FinType /\ old.fallback \in Terminal
      /\ <<g, k>> \in Fins /\ g # 0 /\ fin \in [Fins -> FinType]
  <2>1. <<g, k>> \in Fins /\ g # 0 /\ fin \in [Fins -> FinType]
    BY DEF Fins, Gens, TypeOK
  <2>2. QED
    BY <2>1, DurableFinFrame, Zenon
<1>1. CloseOK(g, k) /\ rec \in RecType /\ phase \in [Gens -> Phases]
  BY DEF DurableInv, CloseInv, TypeOK
<1>2. live = g => next # 1 /\ rec.phase # "none"
  BY <1>0 DEF OwnInv, NextInv, Gens, DurableInv, RecordInv
<1>3. CASE FinScan(g, k)
  <2>1. CASE FinStop(<<g, k>>)
    BY <1>3, <2>1, StoppedFin, FinOnly, Zenon DEF FinScan
  <2>2. CASE EndingOwner(g) /\ fin' = [fin EXCEPT ![<<g, k>>] = [@ EXCEPT !.at = "capture"]]
    <3>1. fin'[<<g, k>>] = [old EXCEPT !.at = "capture"]
      BY <1>0, <2>2
    <3>2. /\ [old EXCEPT !.at = "capture"].at = "capture"
          /\ [old EXCEPT !.at = "capture"].fallback = old.fallback
      BY <1>0 DEF FinType
    <3>3. UNCHANGED <<phase, rec>>
      BY <1>3 DEF FinScan
    <3>4. CloseOK(g, k)'
      BY <1>0, <2>2, <3>1, <3>2, <3>3 DEF CloseOK, EndingOwner
    <3>5. QED
      BY <3>3, <3>4, FinOnly
  <2>3. QED
    BY <1>3, <2>1, <2>2 DEF FinScan
<1>4. CASE FinCapture(g, k)
  <2>1. CASE FinStop(<<g, k>>)
    BY <1>4, <2>1, StoppedFin, FinOnly, Zenon DEF FinCapture
  <2>2. CASE EndingOwner(g) /\ fin' = [fin EXCEPT ![<<g, k>>] =
                                          [@ EXCEPT !.at = "history", !.epoch = epoch]]
    <3> DEFINE x == [old EXCEPT !.at = "history", !.epoch = epoch]
    <3>1. fin'[<<g, k>>] = x
      BY <1>0, <2>2
    <3>2. x.at = "history" /\ x.fallback = old.fallback
      BY <1>0 DEF FinType
    <3>3. UNCHANGED <<phase, rec>>
      BY <1>4 DEF FinCapture
    <3> HIDE DEF x
    <3>4. CloseOK(g, k)'
      BY <1>0, <2>2, <3>1, <3>2, <3>3 DEF CloseOK, EndingOwner
    <3>5. QED
      BY <3>3, <3>4, FinOnly
  <2>3. QED
    BY <1>4, <2>1, <2>2 DEF FinCapture
<1>5. CASE FinHistory(g, k)
  <2>1. CASE FinStop(<<g, k>>) /\ UNCHANGED rec
    BY <1>5, <2>1, StoppedFin, FinOnly, Zenon DEF FinHistory
  <2>2. CASE /\ EndingOwner(g) /\ rec' = FinalizedRec(old.fallback)
             /\ fin' = [fin EXCEPT ![<<g, k>>] = publish(rec'.status)]
    <3>1. rec'.phase = "ended" /\ rec'.status \in Terminal
      BY <1>0, <1>1, <2>2 DEF FinalizedRec, RecType
    <3>2. fin'[<<g, k>>].at = "publish" /\ fin'[<<g, k>>].fallback = old.fallback
      BY <1>0, <2>2 DEF FinType
    <3>3. UNCHANGED phase /\ live = g /\ phase[g] = "ending"
      BY <1>5, <2>2 DEF FinHistory, EndingOwner, Owns
    <3>4. RecordInv' /\ AgreeInv' /\ ReplaceInv'
      BY <1>0, <1>2, <3>1, <3>3 DEF DurableInv, RecordInv, AgreeInv, ReplaceInv
    <3>5. WriteInv'
      BY <1>0, <3>1, <3>3, WriteKept DEF DurableInv
    <3>6. ASSUME NEW h \in Gens, NEW j \in {1, 2} PROVE CloseOK(h, j)'
      <4>1. CASE <<h, j>> = <<g, k>>
        BY <1>0, <3>1, <3>2, <3>3, <4>1 DEF CloseOK
      <4>2. CASE <<h, j>> # <<g, k>>
        <5>1. CloseOK(h, j) /\ fin'[<<h, j>>] = fin[<<h, j>>]
          BY <1>0, <4>2, Zenon DEF DurableInv, CloseInv
        <5>2. QED
          BY <3>1, <3>3, <5>1 DEF CloseOK
      <4>3. QED
        BY <4>1, <4>2
    <3>7. QED
      BY <3>4, <3>5, <3>6 DEF DurableInv, CloseInv
  <2>3. QED
    BY <1>2, <1>5, <2>1, <2>2 DEF FinHistory, FinMatches, EndingOwner, Owns
<1>6. CASE FinPublish(g, k)
  <2>1. CASE UNCHANGED phase
    BY <1>6, <2>1, StoppedFin, FinOnly, Zenon DEF FinPublish
  <2>2. CASE EndingOwner(g) /\ phase' = [phase EXCEPT ![g] = "ended"]
    <3>1. /\ live = g /\ rec.phase = "ended" /\ UNCHANGED rec /\ CloseOK(g, k)'
      BY <1>1, <1>6, <2>2, StoppedFin, Zenon DEF FinPublish, CloseOK, EndingOwner, Owns
    <3>2. RecordInv' /\ AgreeInv' /\ ReplaceInv'
      BY <1>0, <3>1 DEF DurableInv, RecordInv, AgreeInv, ReplaceInv
    <3>3. \A h \in Gens : phase[h] \in {"ending", "ended"} =>
                             phase'[h] \in {"ending", "ended"}
      BY <1>1, <2>2
    <3>4. WriteInv'
      BY <1>0, <3>1, <3>3, WriteKept DEF DurableInv
    <3>5. ASSUME NEW h \in Gens, NEW j \in {1, 2} PROVE CloseOK(h, j)'
      <4>1. CASE <<h, j>> = <<g, k>>
        BY <3>1, <4>1
      <4>2. CASE <<h, j>> # <<g, k>>
        <5>1. CloseOK(h, j) /\ fin'[<<h, j>>] = fin[<<h, j>>]
          BY <1>0, <4>2, Zenon DEF DurableInv, CloseInv
        <5>2. QED
          BY <3>1, <3>3, <5>1 DEF CloseOK
      <4>3. QED
        BY <4>1, <4>2
    <3>6. QED
      BY <3>2, <3>4, <3>5 DEF DurableInv, CloseInv
  <2>3. QED
    BY <1>6, <2>1, <2>2 DEF FinPublish, FinMatches
<1>7. QED
  BY <1>3, <1>4, <1>5, <1>6 DEF FinStep

-----------------------------------------------------------------------------
(* Requests and the workspace *)

LEMMA DurableRequest ==
    ASSUME TypeOK, OwnInv, DurableInv, NEW g \in Gens,
           \/ RequestStop(g) \/ DeleteSession(g) \/ DeleteReturns(g)
           \/ Attach(g) \/ Detach(g)
    PROVE  DurableInv'
<1>0. UNCHANGED <<next, live, phase, rec, run, lock, fin, resume>>
  BY DEF RequestStop, DeleteSession, DeleteReturns, Attach, Detach, UserUnchanged
<1>1. RecordInv' /\ AgreeInv' /\ ReplaceInv' /\ CloseInv'
  BY <1>0, Zenon DEF DurableInv, RecordInv, AgreeInv, ReplaceInv, CloseInv, CloseOK
<1>2. CASE UNCHANGED trans
  BY <1>0, <1>2, DurableSame
<1>3. CASE DeleteSession(g)
  <2>1. /\ trans'[<<g, "kill">>].at = "handle" /\ "kill" \in Roles
        /\ \A h \in Gens, q \in Roles :
              h # g \/ q # "kill" => trans'[<<h, q>>] = trans[<<h, q>>]
    BY <1>3 DEF DeleteSession, Request, TypeOK, Roles
  <2>2. ~(g >= next)
    BY <1>3, SMTT(20) DEF DeleteSession, Owns, OwnInv, NextInv, Gens, TypeOK
  <2>3. ASSUME NEW h \in Gens, NEW q \in Roles PROVE WriteOK(h, q)'
    <3>1. WriteOK(h, q)
      BY DEF DurableInv, WriteInv
    <3>2. QED
      BY <1>0, <2>1, <2>2, <3>1 DEF WriteOK
  <2>4. QED
    BY <1>1, <2>3 DEF DurableInv, WriteInv
<1>4. QED
  BY <1>2, <1>3 DEF RequestStop, DeleteReturns, Attach, Detach

\* A record is forgotten with its handle.
LEMMA DurableForget ==
    ASSUME TypeOK, OwnInv, DurableInv, ForgetSession
    PROVE  DurableInv'
<1>0. /\ UNCHANGED <<next, phase, run, trans, lock, fin, resume>>
      /\ live' = 0 /\ rec' = NoRec /\ 0 \notin Gens /\ NoRec.phase = "none"
  BY DEF ForgetSession, UserUnchanged, Gens, NoRec
<1>1. \A r \in Resumers : resume[r].at \notin {"persist", "unwind"}
  BY QuietSession DEF ForgetSession, RuntimeClosed
<1>2. RecordInv' /\ AgreeInv'
  BY <1>0 DEF RecordInv, AgreeInv
<1>3. ReplaceInv'
  BY <1>0, <1>1 DEF DurableInv, ReplaceInv
<1>4. CloseInv'
  BY <1>0, Zenon DEF DurableInv, CloseInv, CloseOK
<1>5. WriteInv'
  BY <1>0, WriteKept DEF DurableInv
<1>6. QED
  BY <1>2, <1>3, <1>4, <1>5 DEF DurableInv

LEMMA DurableCreate ==
    ASSUME TypeOK, OwnInv, DurableInv, CreateSession
    PROVE  DurableInv'
<1>0. /\ next = 1 /\ next' = 2 /\ live = 0 /\ 1 \in Gens /\ 0 \notin Gens
      /\ run \in [Gens -> RunSteps] /\ phase \in [Gens -> Phases]
      /\ UNCHANGED <<trans, lock, fin, resume>> /\ rec = NoRec
      /\ \A g \in Gens : run[g] = "none"
  <2>1. next = 1 /\ next' = 2 /\ 1 \in Gens /\ 0 \notin Gens
    BY BoundsAssumption DEF CreateSession, InstallHandle, Gens
  <2>2. live = 0
    BY <2>1 DEF OwnInv, NextInv, TypeOK
  <2>3. \A g \in Gens : run[g] = "none"
    BY <2>1 DEF OwnInv, NextInv, Gens
  <2>4. QED
    BY <2>1, <2>2, <2>3 DEF CreateSession, DurableInv, RecordInv, TypeOK
<1>1. \A r \in Resumers : resume[r].at \notin {"persist", "unwind"}
  BY <1>0, QuietSession, Zenon
<1>2. \A g \in Gens, role \in Roles : trans[<<g, role>>].at = "idle"
  <2>1. \A g \in Gens : g >= next
    BY <1>0 DEF Gens
  <2>2. ASSUME NEW g \in Gens, NEW role \in Roles PROVE trans[<<g, role>>].at = "idle"
    <3>1. WriteOK(g, role) /\ g >= next
      BY <2>1 DEF DurableInv, WriteInv
    <3>2. QED
      BY <3>1 DEF WriteOK
  <2>3. QED
    BY <2>2, Zenon
<1>3. \A g \in Gens, k \in {1, 2} : fin[<<g, k>>].at = "idle"
  BY <1>0, Zenon DEF OwnInv, FinInv, Over
<1>4. CloseInv' /\ WriteInv'
  BY <1>0, <1>2, <1>3 DEF CloseInv, CloseOK, WriteInv, WriteOK
<1>5. CASE UNCHANGED <<live, phase, rec>>
  <2>1. RecordInv' /\ AgreeInv' /\ ReplaceInv'
    BY <1>0, <1>5 DEF DurableInv, RecordInv, AgreeInv, ReplaceInv
  <2>2. QED
    BY <1>4, <2>1 DEF DurableInv
<1>6. CASE /\ live' = 1 /\ phase' = [phase EXCEPT ![1] = "creating"]
           /\ rec'.phase = "creating"
  <2>1. RecordInv' /\ AgreeInv'
    BY <1>0, <1>6 DEF RecordInv, AgreeInv
  <2>2. ReplaceInv'
    BY <1>0, <1>1, <1>6 DEF DurableInv, ReplaceInv
  <2>3. QED
    BY <1>4, <2>1, <2>2 DEF DurableInv
<1>7. QED
  BY <1>0, <1>5, <1>6 DEF CreateSession, InstallHandle

\* What reconciliation leaves of a record.
LEMMA ReconciledRecord ==
    ASSUME TypeOK, RecordInv, NEW b \in BOOLEAN, Reconcile(b), rec' # rec
    PROVE  /\ ~b /\ rec.phase \notin {"none", "ended"}
           /\ rec'.phase = "ended" /\ rec'.status \in Terminal
           /\ rec.phase = "ending" =>
                 rec' = [phase |-> "ended", status |-> rec.pending, pending |-> "none"]
<1>1. rec.status \in {"running", "creating"} /\ ~b /\ rec' = ReconciledRec
  BY DEF Reconcile
<1>2. rec.phase \notin {"none", "ended"}
  BY <1>1 DEF RecordInv, NoRec, Terminal
<1>3. rec.phase = "ending" => rec.pending \in Terminal /\ rec.pending # "none"
  BY DEF RecordInv, Terminal
<1>4. rec \in RecType
  BY DEF TypeOK
<1>5. QED
  BY <1>1, <1>2, <1>3, <1>4 DEF ReconciledRec, RecType, Terminal

LEMMA DurableReopen ==
    ASSUME TypeOK, OwnInv, DurableInv, ReopenWorkspace
    PROVE  DurableInv'
<1>0. UNCHANGED <<next, live, phase, run, trans, lock, fin, resume>>
  BY DEF ReopenWorkspace, handleVars, taskVars
<1>1. CASE rec' = rec
  BY <1>0, <1>1, DurableSame
<1>2. CASE rec' # rec
  <2>1. /\ ~LiveRuntime /\ rec.phase \notin {"none", "ended"}
        /\ rec'.phase = "ended" /\ rec'.status \in Terminal
    <3>1. LiveRuntime \in BOOLEAN /\ Reconcile(LiveRuntime) /\ RecordInv
      BY DEF LiveRuntime, ReopenWorkspace, DurableInv
    <3>2. QED
      BY <1>2, <3>1, ReconciledRecord
  <2>2. RecordInv' /\ AgreeInv' /\ ReplaceInv'
    BY <1>0, <2>1 DEF DurableInv, RecordInv, AgreeInv, ReplaceInv
  <2>3. CloseInv'
    BY <1>0, <2>1, Zenon DEF DurableInv, CloseInv, CloseOK
  <2>4. WriteInv'
    BY <1>0, <2>1, WriteKept DEF DurableInv
  <2>5. QED
    BY <2>2, <2>3, <2>4 DEF DurableInv
<1>3. QED
  BY <1>1, <1>2

LEMMA DurableCrash ==
    ASSUME TypeOK, OwnInv, DurableInv, CrashRestart
    PROVE  DurableInv'
<1>0. /\ live' = 0 /\ UNCHANGED next
      /\ trans' = [t \in Gens \X Roles |-> Idle] /\ fin' = [f \in Fins |-> NoFin]
      /\ resume' = [r \in Resumers |-> NoResume] /\ 0 \notin Gens
  BY DEF CrashRestart, Gens
<1>1. /\ Idle.at = "idle" /\ NoFin.at = "idle" /\ NoResume.at = "idle"
      /\ NoResume.seen.phase = "none"
  BY DEF Idle, NoFin, NoResume, NoRec
<1>2. rec' # rec => rec.phase # "none" /\ rec'.phase = "ended" /\ rec'.status \in Terminal
  <2>1. FALSE \in BOOLEAN /\ Reconcile(FALSE) /\ RecordInv
    BY Zenon DEF CrashRestart, DurableInv
  <2>2. QED
    BY <2>1, ReconciledRecord, Zenon
<1>3. RecordInv'
  BY <1>0, <1>2 DEF DurableInv, RecordInv
<1>4. AgreeInv'
  BY <1>0 DEF AgreeInv
<1>5. ReplaceInv'
  BY <1>0, <1>1 DEF ReplaceInv
<1>6. CloseInv'
  BY <1>0, <1>1 DEF CloseInv, CloseOK, Fins
<1>7. WriteInv'
  BY <1>0, <1>1 DEF WriteInv, WriteOK
<1>8. QED
  BY <1>3, <1>4, <1>5, <1>6, <1>7 DEF DurableInv

-----------------------------------------------------------------------------
(* Resume requests and the record *)

\* A request that changes nothing but itself, and holds no admission after it.
LEMMA DurableReads ==
    ASSUME TypeOK, DurableInv, NEW r \in Resumers, NEW x \in ResumeType,
           resume' = [resume EXCEPT ![r] = x],
           UNCHANGED <<next, live, phase, rec, run, trans, lock, fin>>,
           x.seen.phase = "ended" => x.seen.status \in Terminal,
           x.at \notin {"persist", "unwind", "restore"},
           x.at = "install" => x.seen = rec
    PROVE  DurableInv'
<1>0. resume \in [Resumers -> ResumeType]
  BY DEF TypeOK
<1>1. RecordInv' /\ AgreeInv' /\ CloseInv'
  BY Zenon DEF DurableInv, RecordInv, AgreeInv, CloseInv, CloseOK
<1>2. ReplaceInv'
  BY <1>0 DEF DurableInv, ReplaceInv
<1>3. WriteInv'
  BY WriteSame, Zenon DEF DurableInv
<1>4. QED
  BY <1>1, <1>2, <1>3 DEF DurableInv

LEMMA DurableResumeReads ==
    ASSUME TypeOK, DurableInv, NEW r \in Resumers,
           \/ ResumeCapture(r) \/ ResumeRead(r) \/ ResumeReturns(r)
           \/ ResumeInstall(r) /\ ~ResumeAdmits(r)
    PROVE  DurableInv'
<1> DEFINE c == [NoResume EXCEPT !.at = "read", !.expected = live]
           x == [resume[r] EXCEPT !.at = "install", !.seen = rec]
<1>0. /\ resume \in [Resumers -> ResumeType] /\ resume[r] \in ResumeType
      /\ UNCHANGED <<next, live, phase, rec, run, trans, lock, fin>>
      /\ rec \in RecType /\ live \in 0 .. MaxGen
  BY DEF TypeOK, ResumeCapture, ResumeRead, ResumeReturns, ResumeInstall, ResumeUnchanged
<1>1. NoResume \in ResumeType /\ NoResume.at = "idle" /\ NoResume.seen.phase = "none"
  BY NoResumeFacts DEF NoResume, NoRec
<1>2. c \in ResumeType /\ c.at = "read" /\ c.seen.phase = "none"
  BY <1>0, <1>1, Zenon DEF ResumeType, ResumeSteps
<1>3. x \in ResumeType /\ x.at = "install" /\ x.seen = rec
  BY <1>0, Zenon DEF ResumeType, ResumeSteps
<1>4. \/ resume' = [resume EXCEPT ![r] = NoResume]
      \/ resume' = [resume EXCEPT ![r] = c]
      \/ resume' = [resume EXCEPT ![r] = x]
  BY <1>0 DEF ResumeCapture, ResumeRead, ResumeReturns, ResumeInstall
<1>5. rec.phase = "ended" => rec.status \in Terminal
  BY DEF DurableInv, RecordInv
<1> HIDE DEF c, x
<1>6. QED
  BY <1>0, <1>1, <1>2, <1>3, <1>4, <1>5, DurableReads

\* A resume is admitted over an ended record: that of the ended handle it
\* replaces or, without a handle, the one it has seen.
LEMMA DurableAdmit ==
    ASSUME TypeOK, OwnInv, DurableInv, NEW r \in Resumers, ResumeInstall(r),
           ResumeAdmits(r)
    PROVE  DurableInv'
<1> DEFINE x == [resume[r] EXCEPT !.at = "persist", !.gen = next, !.prev = live]
<1>0. /\ resume \in [Resumers -> ResumeType] /\ resume[r] \in ResumeType
      /\ phase \in [Gens -> Phases] /\ 0 \notin Gens /\ live \in 0 .. MaxGen
      /\ next \in Int
  BY DEF TypeOK, Gens
<1>1. /\ next \in Gens /\ next' = next + 1 /\ live' = next
      /\ phase' = [phase EXCEPT ![next] = "creating"]
      /\ resume' = [resume EXCEPT ![r] = x]
      /\ UNCHANGED <<rec, run, trans, lock, fin>>
      /\ resume[r].at = "install"
  BY <1>0 DEF ResumeInstall, InstallHandle, ResumeAdmits, ResumeUnchanged, TypeOK, Gens
<1>2. /\ x.at = "persist" /\ x.seen = resume[r].seen
  BY <1>0 DEF ResumeType
<1>3. rec.phase = "ended" /\ resume[r].seen.phase = "ended"
  <2>1. live = 0 \/ phase[live] = "ended"
    BY <1>1, AdmittedIsQuiet
  <2>2. /\ rec.phase # "none" /\ resume[r].seen.phase = "ended"
        /\ resume[r].expected = live
    BY DEF ResumeAdmits
  <2>3. QED
    BY <1>1, <2>1, <2>2 DEF DurableInv, AgreeInv, ReplaceInv
<1> HIDE DEF x
<1>4. RecordInv' /\ AgreeInv'
  <2>1. next' # 1
    BY <1>0, <1>1, SMTT(20) DEF TypeOK
  <2>2. QED
    BY <1>0, <1>1, <1>3, <2>1 DEF DurableInv, RecordInv, AgreeInv
<1>5. ReplaceInv'
  BY <1>0, <1>1, <1>2, <1>3 DEF DurableInv, ReplaceInv
<1>6. CloseInv'
  <2>1. ASSUME NEW h \in Gens, NEW j \in {1, 2} PROVE CloseOK(h, j)'
    <3>1. CloseOK(h, j)
      BY DEF DurableInv, CloseInv
    <3>2. h = next => fin[<<h, j>>].at = "idle"
      <4>1. next >= next /\ run[next] = "none"
        BY <1>0, <1>1 DEF OwnInv, NextInv
      <4>2. QED
        BY <4>1, Zenon DEF OwnInv, FinInv, Over
    <3>3. QED
      BY <1>0, <1>1, <1>3, <3>1, <3>2 DEF CloseOK
  <2>2. QED
    BY <2>1 DEF CloseInv
<1>7. WriteInv'
  <2>1. ASSUME NEW h \in Gens, NEW q \in Roles PROVE WriteOK(h, q)'
    <3>1. WriteOK(h, q) /\ (h >= next' => h >= next) /\ next >= next
      BY <1>0, <1>1 DEF DurableInv, WriteInv, Gens
    <3>2. h = next => trans[<<h, q>>].at = "idle"
      BY <3>1 DEF WriteOK
    <3>3. QED
      BY <1>0, <1>1, <1>3, <3>1, <3>2 DEF WriteOK
  <2>2. QED
    BY <2>1 DEF WriteInv
<1>8. QED
  BY <1>4, <1>5, <1>6, <1>7 DEF DurableInv

\* The creating record replaces the ended one when the admission is handed
\* over; a failed write leaves it for the rollback.
LEMMA DurableResumePersist ==
    ASSUME TypeOK, OwnInv, DurableInv, NEW r \in Resumers, ResumePersist(r)
    PROVE  DurableInv'
<1> DEFINE g == resume[r].gen
           st == [NoResume EXCEPT !.at = "started", !.gen = g]
           un == [resume[r] EXCEPT !.at = "unwind"]
<1>0. /\ resume \in [Resumers -> ResumeType] /\ resume[r] \in ResumeType
      /\ run \in [Gens -> RunSteps] /\ resume[r].at = "persist"
      /\ UNCHANGED <<next, live, phase, trans, lock, fin>>
  BY DEF TypeOK, ResumePersist, ResumeUnchanged
<1>1. /\ g \in Gens /\ live = g /\ phase[g] \in Unended /\ run[g] = "none" /\ g # 0
      /\ \A q \in Resumers : resume[q].at \in {"persist", "unwind"} => q = r
  BY <1>0 DEF OwnInv, ClaimInv, Owns, Gens
<1>2. CASE UNCHANGED <<rec, run>> /\ resume' = [resume EXCEPT ![r] = un]
  <2>1. un.at = "unwind" /\ un.seen = resume[r].seen
    BY <1>0 DEF ResumeType
  <2> HIDE DEF un
  <2>2. RecordInv' /\ AgreeInv' /\ CloseInv'
    BY <1>0, <1>2, Zenon DEF DurableInv, RecordInv, AgreeInv, CloseInv, CloseOK
  <2>3. ReplaceInv'
    BY <1>0, <1>1, <1>2, <2>1 DEF DurableInv, ReplaceInv
  <2>4. WriteInv'
    BY <1>0, <1>2, WriteSame DEF DurableInv
  <2>5. QED
    BY <2>2, <2>3, <2>4 DEF DurableInv
<1>3. CASE /\ rec'.phase = "creating" /\ run' = [run EXCEPT ![g] = "prep"]
           /\ resume' = [resume EXCEPT ![r] = st]
  <2>1. st.at = "started" /\ st.seen.phase = "none"
    BY DEF NoResume, NoRec
  <2>2. \A k \in {1, 2} : fin[<<g, k>>].at = "idle"
    BY <1>1, Zenon DEF OwnInv, FinInv, Over
  <2>3. next # 1
    BY <1>0 DEF DurableInv, RecordInv, ReplaceInv
  <2> HIDE DEF st, g
  <2>4. RecordInv' /\ AgreeInv'
    BY <1>0, <1>1, <1>3, <2>3 DEF RecordInv, AgreeInv, Unended
  <2>5. ReplaceInv'
    BY <1>0, <1>1, <1>3, <2>1 DEF DurableInv, ReplaceInv
  <2>6. ASSUME NEW h \in Gens, NEW j \in {1, 2} PROVE CloseOK(h, j)'
    <3>1. CloseOK(h, j)
      BY DEF DurableInv, CloseInv
    <3>2. QED
      BY <1>0, <1>1, <2>2, <3>1 DEF CloseOK
  <2>7. ASSUME NEW h \in Gens, NEW q \in Roles PROVE WriteOK(h, q)'
    <3>1. WriteOK(h, q) /\ (run[h] = "publishing" => run'[h] = "publishing")
      BY <1>0, <1>1, <1>3 DEF DurableInv, WriteInv
    <3>2. QED
      BY <1>0, <1>3, <3>1 DEF WriteOK
  <2>8. QED
    BY <2>4, <2>5, <2>6, <2>7 DEF DurableInv, CloseInv, WriteInv
<1>4. QED
  BY <1>2, <1>3 DEF ResumePersist, Goto

\* The rollback puts the ended handle back over the ended record.
LEMMA DurableUnwind ==
    ASSUME TypeOK, OwnInv, DurableInv, NEW r \in Resumers, ResumeUnwind(r)
    PROVE  DurableInv'
<1> DEFINE x == [resume[r] EXCEPT !.at = "restore"]
<1>0. /\ resume \in [Resumers -> ResumeType] /\ resume[r] \in ResumeType
      /\ resume[r].at = "unwind"
      /\ UNCHANGED <<next, phase, rec, run, trans, lock, fin>>
  BY DEF TypeOK, ResumeUnwind, ResumeUnchanged
<1>1. live' = resume[r].prev /\ resume' = [resume EXCEPT ![r] = x]
  BY <1>0 DEF OwnInv, ClaimInv, ResumeUnwind
<1>2. x.at = "restore" /\ x.seen = resume[r].seen
  BY <1>0 DEF ResumeType
<1>3. rec.phase = "ended" /\ resume[r].seen.phase = "ended"
  BY <1>0 DEF DurableInv, ReplaceInv
<1> HIDE DEF x
<1>4. RecordInv' /\ AgreeInv'
  BY <1>0, <1>3, Zenon DEF DurableInv, RecordInv, AgreeInv
<1>5. ReplaceInv'
  BY <1>0, <1>1, <1>2, <1>3 DEF DurableInv, ReplaceInv
<1>6. CloseInv'
  BY <1>0, <1>3, Zenon DEF DurableInv, CloseInv, CloseOK
<1>7. WriteInv'
  BY <1>0, <1>3, WriteKept DEF DurableInv
<1>8. QED
  BY <1>4, <1>5, <1>6, <1>7 DEF DurableInv

\* The restored record replaces an ended one: that of the ended handle put
\* back or, without a handle, one nobody has resumed since.
LEMMA RestoreReplaces ==
    ASSUME TypeOK, OwnInv, DurableInv, NEW r \in Resumers, ResumeRestore(r), rec' # rec
    PROVE  rec.phase = "ended" /\ rec'.phase = "ended" /\ rec'.status \in Terminal
<1>1. /\ resume[r].at = "restore" /\ live = resume[r].prev /\ rec.phase # "none"
      /\ rec' = resume[r].seen
  BY DEF ResumeRestore, Owns
<1>2. rec'.phase = "ended" /\ rec'.status \in Terminal
  BY <1>1 DEF DurableInv, ReplaceInv
<1>3. rec.phase = "ended"
  <2>1. live # 0 => phase[live] = "ended"
    BY <1>1 DEF OwnInv, ClaimInv
  <2>2. QED
    BY <1>1, <2>1 DEF DurableInv, AgreeInv, ReplaceInv
<1>4. QED
  BY <1>2, <1>3

LEMMA DurableRestore ==
    ASSUME TypeOK, OwnInv, DurableInv, NEW r \in Resumers, ResumeRestore(r)
    PROVE  DurableInv'
<1>0. /\ resume' = [resume EXCEPT ![r] = NoResume]
      /\ resume \in [Resumers -> ResumeType]
      /\ UNCHANGED <<next, live, phase, run, trans, lock, fin>>
  BY Zenon DEF ResumeRestore, ResumeUnchanged, TypeOK
<1>1. NoResume \in ResumeType /\ NoResume.at = "idle" /\ NoResume.seen.phase = "none"
  BY NoResumeFacts DEF NoResume, NoRec
<1>2. CASE rec' = rec
  BY <1>0, <1>1, <1>2, DurableReads, Zenon
<1>3. CASE rec' # rec
  <2>1. rec.phase = "ended" /\ rec'.phase = "ended" /\ rec'.status \in Terminal
    BY <1>3, RestoreReplaces
  <2>2. RecordInv' /\ AgreeInv'
    BY <1>0, <2>1, Zenon DEF DurableInv, RecordInv, AgreeInv
  <2>3. ReplaceInv'
    BY <1>0, <1>1, <2>1 DEF DurableInv, ReplaceInv
  <2>4. CloseInv'
    BY <1>0, <2>1, Zenon DEF DurableInv, CloseInv, CloseOK
  <2>5. WriteInv'
    BY <1>0, <2>1, WriteKept DEF DurableInv
  <2>6. QED
    BY <2>2, <2>3, <2>4, <2>5 DEF DurableInv
<1>4. QED
  BY <1>2, <1>3

LEMMA DurableResume ==
    ASSUME TypeOK, OwnInv, DurableInv, NEW r \in Resumers, ResumeStep(r) \/ ResumeCapture(r)
    PROVE  DurableInv'
<1>1. CASE ResumeInstall(r)
  BY <1>1, DurableAdmit, DurableResumeReads
<1>2. QED
  BY <1>1, DurableResumeReads, DurableResumePersist, DurableUnwind, DurableRestore
     DEF ResumeStep

-----------------------------------------------------------------------------
(* What is durable *)

LEMMA DurableInit == Init => DurableInv
<1> SUFFICES ASSUME Init PROVE DurableInv
  OBVIOUS
<1>1. /\ Idle.at = "idle" /\ NoFin.at = "idle" /\ NoResume.at = "idle"
      /\ NoResume.seen.phase = "none" /\ NoRec.phase = "none"
  BY DEF Idle, NoFin, NoResume, NoRec
<1>2. RecordInv /\ AgreeInv /\ ReplaceInv
  BY <1>1 DEF Init, RecordInv, AgreeInv, ReplaceInv
<1>3. CloseInv /\ WriteInv
  BY <1>1 DEF Init, CloseInv, CloseOK, WriteInv, WriteOK, Fins
<1>4. QED
  BY <1>2, <1>3 DEF DurableInv

LEMMA DurableNext == TypeOK /\ OwnInv /\ PublishInv /\ DurableInv /\ [Next]_vars => DurableInv'
<1> SUFFICES ASSUME TypeOK, OwnInv, PublishInv, DurableInv, [Next]_vars PROVE DurableInv'
  OBVIOUS
<1>1. CASE UserStep
  BY <1>1, DurableCreate, DurableForget, DurableRequest, DurableResume, DurableDriver
     DEF UserStep
<1>2. CASE \E r \in Resumers : ResumeStep(r)
  BY <1>2, DurableResume
<1>3. CASE \E g \in Gens : StartStep(g) \/ DriverStep(g)
  BY <1>3, DurableStart, DurableDriver
<1>4. CASE \E g \in Gens, role \in Roles : TransitionStep(g, role)
  BY <1>4, DurableRefused, DurableHandle, DurablePersist DEF TransitionStep
<1>5. CASE \E g \in Gens, k \in {1, 2} : FinStep(g, k)
  BY <1>5, DurableFin
<1>6. CASE ReopenWorkspace \/ CrashRestart
  BY <1>6, DurableReopen, DurableCrash
<1>7. CASE UNCHANGED vars
  BY <1>7, DurableSame DEF vars, handleVars, taskVars
<1>8. QED
  BY <1>1, <1>2, <1>3, <1>4, <1>5, <1>6, <1>7 DEF Next

\* The record and the registry agree as the invariant above says.
THEOREM LifecycleDurableInv == Spec => []DurableInv
BY DurableInit, DurableNext, LifecycleTypeOK, LifecycleOwnInv, LifecyclePublishInv, PTL
   DEF Spec

\* What the registry publishes as ended is ended on disk: no late transition,
\* failed write, rollback of a resume or reopened workspace leaves an
\* unfinished record under a completed handle.
THEOREM LifecyclePublishedIsDurable == Spec => []PublishedIsDurable
<1>1. DurableInv => PublishedIsDurable
  BY DEF DurableInv, AgreeInv, PublishedIsDurable
<1>2. QED
  BY <1>1, LifecycleDurableInv, PTL

\* Every step that changes an ending record completes it with the status that
\* is pending in it.
LEMMA EndingRecordStep ==
    ASSUME TypeOK, OwnInv, DurableInv, Next, rec.phase = "ending", rec' # rec
    PROVE  rec' = [phase |-> "ended", status |-> rec.pending, pending |-> "none"]
<1>0. rec.pending \in Terminal /\ rec.pending # "none" /\ RecordInv
  BY DEF DurableInv, RecordInv, Terminal
<1>1. CASE UserStep
  <2>1. CASE CreateSession
    BY <2>1 DEF CreateSession, DurableInv, RecordInv
  <2>2. CASE ForgetSession
    BY <2>2 DEF ForgetSession
  <2>3. CASE \E r \in Resumers : ResumeCapture(r)
    BY <2>3 DEF ResumeCapture
  <2>4. CASE \E g \in Gens : \/ RequestStop(g) \/ DeleteSession(g) \/ DeleteReturns(g)
                             \/ Attach(g) \/ Detach(g) \/ ChildExits(g) \/ StopChild(g)
    BY <2>4 DEF RequestStop, DeleteSession, DeleteReturns, Attach, Detach, ChildExits,
       StopChild, SignalChild, DriverUnchanged
  <2>5. QED
    BY <1>1, <2>1, <2>2, <2>3, <2>4 DEF UserStep
<1>2. CASE \E r \in Resumers : ResumeStep(r)
  <2>1. PICK r \in Resumers : ResumeStep(r)
    BY <1>2
  <2>2. CASE ResumePersist(r)
    BY <2>2 DEF ResumePersist, DurableInv, ReplaceInv
  <2>3. CASE ResumeRestore(r)
    BY <2>3, RestoreReplaces
  <2>4. QED
    BY <2>1, <2>2, <2>3 DEF ResumeStep, ResumeRead, ResumeInstall, ResumeUnwind,
       ResumeReturns
<1>3. CASE \E g \in Gens : StartStep(g) \/ DriverStep(g)
  <2>1. PICK g \in Gens : StartStep(g) \/ DriverStep(g)
    BY <1>3
  <2>2. CASE StartStep(g)
    BY <2>2, Zenon DEF StartStep, StartCancelled, StartIsolateCancelled, StartIsolateSettled,
       StartFails, StartChecked, SpawnChild, MarkSpawned, RegisterPid, SetupFails,
       PublishRunning, RunningSettled, FinishCancellation, CancellationSettled,
       ReportFailure, FailureSettled, StartUnchanged
  <2>3. CASE DriverStep(g)
    BY <2>3, Zenon DEF DriverStep, KillChild, SignalChild, ObserveExit, ExitRequest, ExitSettled,
       ExitTimeout, ExitDetach, ExitClear, DriverUnchanged
  <2>4. QED
    BY <2>1, <2>2, <2>3
<1>4. CASE \E g \in Gens, role \in Roles : TransitionStep(g, role)
  <2>1. PICK g \in Gens, role \in Roles : TransitionStep(g, role)
    BY <1>4
  <2>2. PersistTransition(g, role)
    BY <2>1 DEF TransitionStep, TransitionRefused, TransitionHandle
  <2>3. QED
    BY <2>2, PersistWrites
<1>5. CASE \E g \in Gens, k \in {1, 2} : FinStep(g, k)
  <2>1. PICK g \in Gens, k \in {1, 2} : FinStep(g, k)
    BY <1>5
  <2>2. FinHistory(g, k)
    BY <2>1 DEF FinStep, FinScan, FinCapture, FinPublish
  <2>3. rec' = FinalizedRec(fin[<<g, k>>].fallback)
    BY <2>2 DEF FinHistory
  <2>4. QED
    BY <1>0, <2>3 DEF FinalizedRec
<1>6. CASE ReopenWorkspace
  <2>1. LiveRuntime \in BOOLEAN /\ Reconcile(LiveRuntime)
    BY <1>6 DEF LiveRuntime, ReopenWorkspace
  <2>2. QED
    BY <1>0, <2>1, ReconciledRecord
<1>7. CASE CrashRestart
  <2>1. FALSE \in BOOLEAN /\ Reconcile(FALSE)
    BY <1>7, Zenon DEF CrashRestart
  <2>2. QED
    BY <1>0, <2>1, ReconciledRecord, Zenon
<1>8. QED
  BY <1>1, <1>2, <1>3, <1>4, <1>5, <1>6, <1>7 DEF Next

\* The first terminal status wins: whatever transitions, finalizers, resumes
\* and restarts follow, a record that is ending keeps its pending status
\* until it ends with it.
THEOREM LifecycleFirstTerminalWins == Spec => FirstTerminalWins
<1>1. TypeOK /\ OwnInv /\ DurableInv /\ [Next]_vars =>
        [rec.phase = "ending" =>
           rec' \in {rec, [phase |-> "ended", status |-> rec.pending,
                           pending |-> "none"]}]_rec
  <2>1. TypeOK /\ OwnInv /\ DurableInv /\ Next /\ rec.phase = "ending" =>
          rec' \in {rec, [phase |-> "ended", status |-> rec.pending,
                          pending |-> "none"]}
    BY EndingRecordStep
  <2>2. UNCHANGED vars => UNCHANGED rec
    BY DEF vars
  <2>3. QED
    BY <2>1, <2>2
<1>2. QED
  BY <1>1, LifecycleTypeOK, LifecycleOwnInv, LifecycleDurableInv, PTL
     DEF Spec, FirstTerminalWins

=============================================================================
