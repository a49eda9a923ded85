-------------------------- MODULE SessionLifecycle --------------------------
(***************************************************************************)
(* The lifecycle of one session of the sidecar (orkworksd): the live       *)
(* handles in AppState.sessions, the durable session record, the child     *)
(* process of each runtime generation and the tasks that race over them.   *)
(*                                                                         *)
(* A generation is one SessionRuntime (run_generation): create makes the   *)
(* first, every admitted resume the next.  The fields of a SessionHandle   *)
(* are indexed by its generation, and live is the generation registered    *)
(* under the session's id (0: none), so that a rollback which puts the     *)
(* previous handle back restores exactly that handle's fields.             *)
(*                                                                         *)
(* The sessions lock and the workspace lock are taken separately by every  *)
(* status transition, so a transition is two steps (TransitionHandle,      *)
(* PersistTransition) inside the global transition lock; the finalizer is  *)
(* four (scan, capture, history, publish); a resume is five.               *)
(***************************************************************************)
EXTENDS Integers, FiniteSets

CONSTANTS
    MaxGen,      \* bound: runtime generations of the session
    MaxEpoch,    \* bound: times the workspace is opened
    MaxFaults,   \* bound: failing writes of the session record
    Crashes,     \* whether the sidecar may crash and be restarted
    Resumers,    \* concurrent resume requests
    Requests     \* which of the other requests clients make

ASSUME BoundsAssumption ==
    /\ MaxGen \in Nat \ {0}
    /\ MaxEpoch \in Nat \ {0}
    /\ MaxFaults \in Nat
    /\ Crashes \in BOOLEAN
    /\ Requests \subseteq {"stop", "delete", "forget", "attach"}

Gens  == 1 .. MaxGen
Roles == {"start", "exit", "kill"}
Terminal == {"killed", "ended", "error"}
Phases   == {"none", "creating", "active", "ending", "ended"}
Statuses == {"none", "creating", "running"} \cup Terminal

(* Where the startup and driver task of a generation stands. *)
RunSteps == {"none", "prep", "isolated", "spawning", "spawned", "marked",
             "setup", "publishing", "driving", "stopping", "exiting",
             "settling", "detaching", "clearing", "cancelled", "failed", "reporting",
             "killing", "done"}
TransSteps  == {"idle", "handle", "persist", "applied", "refused"}
FinSteps    == {"idle", "scan", "capture", "history", "publish"}
ResumeSteps == {"idle", "read", "install", "persist", "unwind", "restore",
                "started"}
Fins == Gens \X {1, 2}

VARIABLES
    next,      \* next_runtime_generation: the next unused generation
    live,      \* generation registered in AppState.sessions, 0 for none
    phase,     \* handle.info.lifecycle_phase of each generation's handle
    status,    \* handle.info.status
    resuming,  \* generations whose handle has resume_in_progress
    spawned,   \* generations whose runtime has startup_spawned
    attached,  \* generations whose handle has terminal_attached
    closed,    \* generations whose runtime has commands_closed()
    killed,    \* generations whose kill channel holds true
    child,     \* the PTY child of each generation
    pid,       \* generation whose process is in session_pids, 0 for none
    rec,       \* the durable record: phase, status, pending terminal status
    run,       \* the startup and driver task of each generation
    exitAs,    \* status the driver computed from the child's exit
    trans,     \* status transitions in flight, by generation and caller
    lock,      \* holder of the prompt-authority transition lock
    fin,       \* the finalizers scheduled for each generation
    resume,    \* the resume requests in flight
    reserved,  \* reservations held by delete_session, with their store
    epoch,     \* which MetadataStore of the workspace is open
    faults     \* record writes that have failed so far

handleVars == <<live, phase, status, resuming, spawned, attached, closed>>
taskVars   == <<run, exitAs, trans, lock, fin>>
vars == <<next, handleVars, killed, child, pid, rec, taskVars, resume, reserved,
          epoch, faults>>

NoRec  == [phase |-> "none", status |-> "none", pending |-> "none"]
NoTask == <<0, "start">>
Idle   == [at |-> "idle", status |-> "none", already |-> "no"]
NoFin  == [at |-> "idle", fallback |-> "none", epoch |-> 0, final |-> "none"]
NoResume == [at |-> "idle", expected |-> 0, seen |-> NoRec, gen |-> 0,
             prev |-> 0]

Init ==
    /\ next = 1
    /\ live = 0
    /\ phase = [g \in Gens |-> "none"]
    /\ status = [g \in Gens |-> "none"]
    /\ resuming = {} /\ spawned = {} /\ attached = {} /\ closed = {}
    /\ killed = {}
    /\ child = [g \in Gens |-> "none"]
    /\ pid = 0
    /\ rec = NoRec
    /\ run = [g \in Gens |-> "none"]
    /\ exitAs = [g \in Gens |-> "none"]
    /\ trans = [t \in Gens \X Roles |-> Idle]
    /\ lock = NoTask
    /\ fin = [f \in Fins |-> NoFin]
    /\ resume = [r \in Resumers |-> NoResume]
    /\ reserved = {}
    /\ epoch = 1
    /\ faults = 0

-----------------------------------------------------------------------------
(* A generation owns the session while its handle is the registered one. *)
Owns(g) == live = g

(* startup_generation_is_ending *)
EndingOrGone(g) == ~Owns(g) \/ phase[g] \in {"ending", "ended"}

(* The check startup repeats around its awaits. *)
Cancelled(g) == g \in killed \/ EndingOrGone(g)

(* A write of the record fails, up to the bound on faults. *)
WriteFails == faults < MaxFaults /\ faults' = faults + 1

(* Mutant: only an active runtime counts. *)
LiveRuntime_active == live # 0 /\ phase[live] = "active"

(* SessionInfo::has_live_runtime of the registered handle. *)
LiveRuntime == live # 0 /\ phase[live] \in {"creating", "active", "ending"}

(* runtime_closed: no tracked process, and no handle or a finalized one. *)
RuntimeClosed ==
    /\ pid = 0
    /\ \/ live = 0
       \/ /\ live # 0 /\ phase[live] = "ended"
          /\ live \notin resuming \cup attached
          /\ live \in closed

(* OrganizationStore::pending of the open workspace's store. *)
Pending == \E g \in Gens : <<g, epoch>> \in reserved

Request(t, s) == [trans EXCEPT ![t] = [at |-> "handle", status |-> s,
                                       already |-> "no"]]

(* The answer of a transition nobody waits for any more is dropped. *)
Awaited(t) == t[2] = "start" \/ (t[2] = "exit" /\ run[t[1]] = "settling")
Settle(t, result) ==
    [trans EXCEPT ![t] = IF Awaited(t) THEN [@ EXCEPT !.at = result] ELSE Idle]
Settled(t) == trans[t].at \in {"applied", "refused"}
Goto(g, step) == [run EXCEPT ![g] = step]

(* schedule_session_ending_finalization: k = 1 from the runtime, 2 from    *)
(* the caller that reports how startup ended.                              *)
Schedule(g, k, s) ==
    [fin EXCEPT ![<<g, k>>] = [at |-> "scan", fallback |-> s, epoch |-> 0,
                               final |-> "none"]]

-----------------------------------------------------------------------------
(* Creation and resume *)

(* The handle that SessionRuntime::live and the workflow build for g. *)
InstallHandle(g) ==
    /\ next' = next + 1
    /\ live' = g
    /\ phase' = [phase EXCEPT ![g] = "creating"]
    /\ status' = [status EXCEPT ![g] = "creating"]

(* create_session_workflow, from the admission under the workspace lock:   *)
(* the handle is registered and the creating record written, or the write  *)
(* fails and the handle is removed again.                                  *)
CreateSession ==
    /\ next = 1
    /\ \/ /\ InstallHandle(next)
          /\ rec' = [phase |-> "creating", status |-> "creating",
                     pending |-> "none"]
          /\ run' = Goto(next, "prep")
          /\ UNCHANGED faults
       \/ /\ WriteFails
          /\ next' = next + 1
          /\ UNCHANGED <<live, phase, status, rec, run>>
    /\ UNCHANGED <<resuming, spawned, attached, closed, killed, child, pid,
                   exitAs, trans, lock, fin, resume, reserved, epoch>>

ResumeUnchanged == UNCHANGED <<spawned, attached, closed, killed, child, pid,
                               exitAs, trans, lock, fin, reserved, epoch>>

(* resume_session_workflow first captures the registered generation ... *)
ResumeCapture(r) ==
    /\ resume[r].at = "idle" /\ next <= MaxGen
    /\ resume' = [resume EXCEPT ![r] =
                     [NoResume EXCEPT !.at = "read", !.expected = live]]
    /\ UNCHANGED <<next, live, phase, status, resuming, rec, run, faults>>
    /\ ResumeUnchanged

(* ... then reads the record and the launch strategy from it, and may wait *)
(* for external probes.                                                    *)
ResumeRead(r) ==
    /\ resume[r].at = "read"
    /\ resume' = [resume EXCEPT ![r] =
                     IF rec.phase = "none" THEN NoResume
                     ELSE [@ EXCEPT !.at = "install", !.seen = rec]]
    /\ UNCHANGED <<next, live, phase, status, resuming, rec, run, faults>>
    /\ ResumeUnchanged

(* resume_handle_conflicts of the registered handle *)
ResumeConflicts == live # 0 /\ (phase[live] = "ending" \/ live \in resuming
                                   \/ live \in attached)

ResumeAdmits(r) ==
    /\ rec.phase # "none" /\ ~Pending
    /\ live = resume[r].expected
    /\ resume[r].seen.phase = "ended"
    /\ pid = 0
    /\ ~ResumeConflicts
    /\ next <= MaxGen

(* try_install_claimed_resume_handle *)
ResumeInstall(r) ==
    /\ resume[r].at = "install"
    /\ \/ /\ ResumeAdmits(r)
          /\ InstallHandle(next)
          /\ resuming' = resuming \cup {next}
          /\ resume' = [resume EXCEPT ![r] =
                           [@ EXCEPT !.at = "persist", !.gen = next, !.prev = live]]
       \/ /\ ~ResumeAdmits(r)
          /\ resume' = [resume EXCEPT ![r] = NoResume]
          /\ UNCHANGED <<next, live, phase, status, resuming>>
    /\ UNCHANGED <<rec, run, faults>>
    /\ ResumeUnchanged

(* The creating record of the resumed run; its startup task is then        *)
(* spawned and the admission handed to it.  A failed write drops the       *)
(* admission instead.                                                      *)
ResumePersist(r) ==
    /\ resume[r].at = "persist"
    /\ \/ /\ rec' = [phase |-> "creating", status |-> "creating",
                     pending |-> "none"]
          /\ run' = Goto(resume[r].gen, "prep")
          /\ resume' = [resume EXCEPT ![r] = [NoResume EXCEPT !.at = "started",
                                                           !.gen = resume[r].gen]]
          /\ UNCHANGED faults
       \/ /\ WriteFails
          /\ resume' = [resume EXCEPT ![r] = [@ EXCEPT !.at = "unwind"]]
          /\ UNCHANGED <<rec, run>>
    /\ UNCHANGED <<next, live, phase, status, resuming>>
    /\ ResumeUnchanged

(* Drop for ResumeAdmission, first half: put the previous handle back if   *)
(* this generation is still the registered, unspawned claim.               *)
ResumeUnwind(r) ==
    LET g == resume[r].gen IN
    /\ resume[r].at = "unwind"
    /\ \/ /\ Owns(g) /\ g \in resuming /\ g \notin spawned
          /\ live' = resume[r].prev
          /\ resume' = [resume EXCEPT ![r] = [@ EXCEPT !.at = "restore"]]
       \/ /\ ~(Owns(g) /\ g \in resuming /\ g \notin spawned)
          /\ resume' = [resume EXCEPT ![r] = NoResume]
          /\ UNCHANGED live
    /\ UNCHANGED <<next, phase, status, resuming, rec, run, faults>>
    /\ ResumeUnchanged

(* Second half, under both locks: restore the record unless another resume *)
(* has claimed the restored handle in between.                             *)
ResumeRestore(r) ==
    /\ resume[r].at = "restore"
    /\ \/ /\ Owns(resume[r].prev) /\ rec.phase # "none"
          /\ rec' = resume[r].seen
          /\ UNCHANGED faults
       \/ /\ Owns(resume[r].prev) /\ WriteFails
          /\ UNCHANGED rec
       \/ /\ ~Owns(resume[r].prev) \/ rec.phase = "none"
          /\ UNCHANGED <<rec, faults>>
    /\ resume' = [resume EXCEPT ![r] = NoResume]
    /\ UNCHANGED <<next, live, phase, status, resuming, run>>
    /\ ResumeUnchanged

(* The request waits for its startup task and answers with the registered   *)
(* handle's information; its client may leave earlier.                      *)
ResumeReturns(r) ==
    /\ resume[r].at = "started"
    /\ resume' = [resume EXCEPT ![r] = NoResume]
    /\ UNCHANGED <<next, live, phase, status, resuming, rec, run, faults>>
    /\ ResumeUnchanged

-----------------------------------------------------------------------------
(* Startup: run_session_runtime up to the spawned driver *)

StartUnchanged == UNCHANGED <<next, live, phase, status, resuming, attached,
                              killed, rec, exitAs, lock, resume, reserved,
                              epoch, faults>>

(* One of the cancellation checks before the child exists. *)
StartCancelled(g) ==
    /\ run[g] \in {"prep", "spawning"} /\ Cancelled(g)
    /\ run' = Goto(g, "cancelled")
    /\ closed' = closed \cup {g}
    /\ UNCHANGED <<spawned, child, pid, trans, fin>> /\ StartUnchanged

(* The check after codex_launch::isolate_session publishes the             *)
(* cancellation and schedules the finalizer itself.                        *)
StartIsolateCancelled(g) ==
    /\ run[g] = "prep" /\ Cancelled(g)
    /\ run' = Goto(g, "isolated")
    /\ trans' = Request(<<g, "start">>, "killed")
    /\ UNCHANGED <<spawned, closed, child, pid, fin>> /\ StartUnchanged

StartIsolateSettled(g) ==
    /\ run[g] = "isolated" /\ Settled(<<g, "start">>)
    /\ run' = Goto(g, "cancelled")
    /\ trans' = [trans EXCEPT ![<<g, "start">>] = Idle]
    /\ fin' = Schedule(g, 1, "killed")
    /\ closed' = closed \cup {g}
    /\ UNCHANGED <<spawned, child, pid>> /\ StartUnchanged

(* A classified startup failure before the child exists. *)
StartFails(g) ==
    /\ run[g] \in {"prep", "spawning"}
    /\ run' = Goto(g, "failed")
    /\ closed' = closed \cup {g}
    /\ UNCHANGED <<spawned, child, pid, trans, fin>> /\ StartUnchanged

(* The last check passes ... *)
StartChecked(g) ==
    /\ run[g] = "prep" /\ ~Cancelled(g)
    /\ run' = Goto(g, "spawning")
    /\ UNCHANGED <<spawned, closed, child, pid, trans, fin>> /\ StartUnchanged

(* ... and the PTY child is spawned, whatever happened since. *)
SpawnChild(g) ==
    /\ run[g] = "spawning"
    /\ run' = Goto(g, "spawned")
    /\ child' = [child EXCEPT ![g] = "running"]
    /\ UNCHANGED <<spawned, closed, pid, trans, fin>> /\ StartUnchanged

(* mark_startup_spawned, or the child is killed when the handle is gone. *)
MarkSpawned(g) ==
    /\ run[g] = "spawned"
    /\ \/ /\ Owns(g)
          /\ run' = Goto(g, "marked")
          /\ spawned' = spawned \cup {g}
          /\ UNCHANGED <<closed, child>>
       \/ /\ ~Owns(g)
          /\ run' = Goto(g, "cancelled")
          /\ child' = [child EXCEPT ![g] = "exited"]
          /\ closed' = closed \cup {g}
          /\ UNCHANGED spawned
    /\ UNCHANGED <<pid, trans, fin>> /\ StartUnchanged

RegisterPid(g) ==
    /\ run[g] = "marked"
    /\ run' = Goto(g, "setup")
    /\ pid' = g
    /\ UNCHANGED <<spawned, closed, child, trans, fin>> /\ StartUnchanged

(* Mutant: the process stays tracked. *)
AbortStartup_keepsPid(g, to) ==
    /\ run' = Goto(g, to)
    /\ child' = [child EXCEPT ![g] = "exited"]
    /\ closed' = closed \cup {g}
    /\ fin' = IF Owns(g) /\ phase[g] = "ending" THEN Schedule(g, 1, "killed")
              ELSE fin
    /\ UNCHANGED <<spawned, pid>>

(* Mutant: the child is left to itself. *)
AbortStartup_leavesChild(g, to) ==
    /\ run' = Goto(g, to)
    /\ closed' = closed \cup {g}
    /\ pid' = IF Owns(g) THEN 0 ELSE pid
    /\ fin' = IF Owns(g) /\ phase[g] = "ending" THEN Schedule(g, 1, "killed")
              ELSE fin
    /\ UNCHANGED <<spawned, child>>

(* abort_post_spawn_startup *)
AbortStartup(g, to) ==
    /\ run' = Goto(g, to)
    /\ child' = [child EXCEPT ![g] = "exited"]
    /\ closed' = closed \cup {g}
    /\ pid' = IF Owns(g) THEN 0 ELSE pid
    /\ fin' = IF Owns(g) /\ phase[g] = "ending" THEN Schedule(g, 1, "killed")
              ELSE fin
    /\ UNCHANGED spawned

(* The ending check after the spawn, or a failing reader or writer. *)
SetupFails(g) ==
    /\ run[g] = "setup"
    /\ \/ EndingOrGone(g) /\ AbortStartup(g, "cancelled")
       \/ AbortStartup(g, "failed")
    /\ UNCHANGED trans /\ StartUnchanged

PublishRunning(g) ==
    /\ run[g] = "setup" /\ ~EndingOrGone(g)
    /\ run' = Goto(g, "publishing")
    /\ trans' = Request(<<g, "start">>, "running")
    /\ UNCHANGED <<spawned, closed, child, pid, fin>> /\ StartUnchanged

(* The driver takes over once running is published. *)
RunningSettled(g) ==
    /\ run[g] = "publishing" /\ Settled(<<g, "start">>)
    /\ trans' = [trans EXCEPT ![<<g, "start">>] = Idle]
    /\ \/ /\ trans[<<g, "start">>].at = "applied"
          /\ run' = Goto(g, "driving")
          /\ UNCHANGED <<spawned, closed, child, pid, fin>>
       \/ /\ trans[<<g, "start">>].at = "refused"
          /\ AbortStartup(g, "cancelled")
    /\ StartUnchanged

(* finish_startup_cancellation *)
FinishCancellation(g) ==
    /\ run[g] = "cancelled"
    /\ \/ /\ Owns(g) /\ (g \in killed \/ phase[g] = "ending")
          /\ run' = Goto(g, "killing")
          /\ trans' = Request(<<g, "start">>, "killed")
       \/ /\ ~(Owns(g) /\ (g \in killed \/ phase[g] = "ending"))
          /\ run' = Goto(g, "done")
          /\ UNCHANGED trans
    /\ UNCHANGED <<spawned, closed, child, pid, fin>> /\ StartUnchanged

(* Mutant: the finalizer is scheduled only by the first to end the session. *)
CancellationSettled_first(g) ==
    /\ run[g] = "killing" /\ Settled(<<g, "start">>)
    /\ run' = Goto(g, "done")
    /\ trans' = [trans EXCEPT ![<<g, "start">>] = Idle]
    /\ fin' = IF trans[<<g, "start">>].at = "applied" THEN Schedule(g, 2, "killed")
              ELSE fin
    /\ UNCHANGED <<spawned, closed, child, pid>> /\ StartUnchanged

CancellationSettled(g) ==
    /\ run[g] = "killing" /\ Settled(<<g, "start">>)
    /\ run' = Goto(g, "done")
    /\ trans' = [trans EXCEPT ![<<g, "start">>] = Idle]
    /\ fin' = Schedule(g, 2, "killed")
    /\ UNCHANGED <<spawned, closed, child, pid>> /\ StartUnchanged

(* publish_startup_failure *)
ReportFailure(g) ==
    /\ run[g] = "failed"
    /\ run' = Goto(g, "reporting")
    /\ trans' = Request(<<g, "start">>, "error")
    /\ UNCHANGED <<spawned, closed, child, pid, fin>> /\ StartUnchanged

FailureSettled(g) ==
    /\ run[g] = "reporting" /\ Settled(<<g, "start">>)
    /\ trans' = [trans EXCEPT ![<<g, "start">>] = Idle]
    /\ \/ /\ trans[<<g, "start">>].at = "applied"
          /\ run' = Goto(g, "done")
          /\ fin' = Schedule(g, 2, "error")
       \/ /\ trans[<<g, "start">>].at = "refused"
          /\ run' = Goto(g, "cancelled")
          /\ UNCHANGED fin
    /\ UNCHANGED <<spawned, closed, child, pid>> /\ StartUnchanged

-----------------------------------------------------------------------------
(* The driver task, from the kill signal to the scheduled finalizer *)

DriverUnchanged == UNCHANGED <<next, live, resuming, spawned, killed, rec,
                               lock, resume, reserved, epoch, faults>>

(* The child exits, by itself or of a signal; it may ignore the signal.    *)
ChildExits(g) ==
    /\ child[g] = "running"
    /\ child' = [child EXCEPT ![g] = "exited"]
    /\ UNCHANGED <<phase, status, attached, closed, pid, run, exitAs, trans, fin>>
    /\ DriverUnchanged

(* The driver signals the child once, whatever comes of it, and closes the *)
(* command channel (kill_requested).                                       *)
SignalChild(g) ==
    /\ run[g] = "driving"
    /\ run' = Goto(g, "stopping")
    /\ closed' = closed \cup {g}
    /\ UNCHANGED <<phase, status, attached, child, pid, exitAs, trans, fin>>
    /\ DriverUnchanged

(* It relays the kill request, or gives up on an initial prompt it cannot  *)
(* write or a native observer that failed.                                 *)
KillChild(g) == g \in killed /\ SignalChild(g)
StopChild(g) == g \notin killed /\ SignalChild(g)

(* The driver observes the exit, closes the command channel and decides on *)
(* the terminal status; killed only if it signalled the child before.      *)
ObserveExit(g) ==
    /\ run[g] \in {"driving", "stopping"} /\ child[g] = "exited"
    /\ run' = Goto(g, "exiting")
    /\ closed' = closed \cup {g}
    /\ \E s \in {"error", IF run[g] = "stopping" THEN "killed" ELSE "ended"} :
          exitAs' = [exitAs EXCEPT ![g] = s]
    /\ UNCHANGED <<phase, status, attached, child, pid, trans, fin>>
    /\ DriverUnchanged

(* handle_runtime_exit: request the terminal transition ... *)
ExitRequest(g) ==
    /\ run[g] = "exiting"
    /\ \/ /\ Owns(g)
          /\ run' = Goto(g, "settling")
          /\ trans' = Request(<<g, "exit">>, exitAs[g])
       \/ /\ ~Owns(g)
          /\ run' = Goto(g, "done")
          /\ UNCHANGED trans
    /\ UNCHANGED <<phase, status, attached, closed, child, pid, exitAs, fin>>
    /\ DriverUnchanged

(* ... wait for it, whatever it answers ... *)
ExitSettled(g) ==
    /\ run[g] = "settling" /\ Settled(<<g, "exit">>)
    /\ run' = Goto(g, "detaching")
    /\ trans' = [trans EXCEPT ![<<g, "exit">>] = Idle]
    /\ UNCHANGED <<phase, status, attached, closed, child, pid, exitAs, fin>>
    /\ DriverUnchanged

(* ... or for EXIT_STATUS_TRANSITION_GRACE only: the transition stays      *)
(* detached and the driver marks the handle itself.                        *)
ExitTimeout(g) ==
    /\ run[g] = "settling" /\ ~Settled(<<g, "exit">>)
    /\ \/ /\ EndingOrGone(g) /\ ~(Owns(g) /\ phase[g] = "ending")
          /\ run' = Goto(g, "done")
          /\ UNCHANGED <<phase, status>>
       \/ /\ Owns(g) /\ phase[g] # "ended"
          /\ run' = Goto(g, "detaching")
          /\ phase' = [phase EXCEPT ![g] = "ending"]
          /\ status' = [status EXCEPT ![g] =
                           IF phase[g] = "ending" THEN @ ELSE "running"]
    /\ UNCHANGED <<attached, closed, child, pid, exitAs, trans, fin>>
    /\ DriverUnchanged

(* The terminal is detached while the generation is the ending owner. *)
ExitDetach(g) ==
    /\ run[g] = "detaching"
    /\ \/ /\ Owns(g) /\ phase[g] = "ending"
          /\ run' = Goto(g, "clearing")
          /\ attached' = attached \ {g}
       \/ /\ ~(Owns(g) /\ phase[g] = "ending")
          /\ run' = Goto(g, "done")
          /\ UNCHANGED attached
    /\ UNCHANGED <<phase, status, closed, child, pid, exitAs, trans, fin>>
    /\ DriverUnchanged

(* clear_ended_session_tracking_for_runtime, then the finalizer. *)
ExitClear(g) ==
    /\ run[g] = "clearing"
    /\ run' = Goto(g, "done")
    /\ pid' = IF Owns(g) THEN 0 ELSE pid
    /\ fin' = Schedule(g, 1, exitAs[g])
    /\ UNCHANGED <<phase, status, attached, closed, child, exitAs, trans>>
    /\ DriverUnchanged

-----------------------------------------------------------------------------
(* Status transitions: transition_status_blocking *)

TransUnchanged == UNCHANGED <<next, live, resuming, spawned, attached, closed,
                              killed, child, pid, run, exitAs, fin, resume,
                              reserved, epoch>>

(* Mutant: the phase of the handle is not looked at. *)
HandleRefuses_anyPhase(g, role, s) ==
    ~Owns(g) \/ (role = "start" /\ s = "error" /\ Cancelled(g))

(* The generation check and phase checks of transition_handle_session, and *)
(* the stricter one a startup failure is published under.                  *)
HandleRefuses(g, role, s) ==
    \/ ~Owns(g)
    \/ s \notin Terminal /\ phase[g] \in {"ending", "ended"}
    \/ s \in Terminal /\ phase[g] = "ended"
    \/ role = "start" /\ s = "error" /\ Cancelled(g)

TransitionRefused(g, role) ==
    LET t == <<g, role>> IN
    /\ trans[t].at = "handle" /\ lock = NoTask
    /\ HandleRefuses(g, role, trans[t].status)
    /\ trans' = Settle(t, "refused")
    /\ UNCHANGED <<phase, status, rec, lock, faults>> /\ TransUnchanged

(* transition_handle_session under the sessions lock *)
TransitionHandle(g, role) ==
    LET t == <<g, role>>
        s == trans[t].status
    IN
    /\ trans[t].at = "handle" /\ lock = NoTask
    /\ ~HandleRefuses(g, role, s)
    /\ lock' = t
    /\ trans' = [trans EXCEPT ![t] =
                    [at |-> "persist", status |-> s,
                     already |-> IF s \in Terminal /\ phase[g] = "ending"
                                 THEN "yes" ELSE "no"]]
    /\ phase' = [phase EXCEPT ![g] = IF s \in Terminal THEN "ending" ELSE "active"]
    /\ status' = [status EXCEPT ![g] = IF s \in Terminal THEN "running" ELSE s]
    /\ UNCHANGED <<rec, faults>> /\ TransUnchanged

(* Mutant: a repeated terminal transition writes again. *)
TransitionIgnored_repeats(g, s, already) ==
    \/ s \in Terminal /\ rec.phase = "ended"
    \/ s \notin Terminal /\ phase[g] \in {"ending", "ended"}

(* Mutant: a late terminal transition reopens an ended record. *)
TransitionIgnored_reopens(g, s, already) ==
    \/ s \in Terminal /\ already = "yes" /\ rec.phase = "ending"
    \/ s \notin Terminal /\ phase[g] \in {"ending", "ended"}

(* LifecycleMutation::Transition declines to write. *)
TransitionIgnored(g, s, already) ==
    \/ s \in Terminal /\ already = "yes" /\ rec.phase \in {"ending", "ended"}
    \/ /\ s \in Terminal /\ rec.phase = "ended"
       /\ \/ phase[g] = "ended"
          \/ phase[g] = "ending" /\ rec.status \in Terminal
    \/ s \notin Terminal /\ phase[g] \in {"ending", "ended"}

(* Mutant: every status is recorded as pending. *)
TransitionedRec_pending(s) ==
    [phase |-> IF s \in Terminal THEN "ending" ELSE "active",
     status |-> "running", pending |-> s]

TransitionedRec(s) ==
    IF s \in Terminal
    THEN [phase |-> "ending", status |-> "running", pending |-> s]
    ELSE [rec EXCEPT !.phase = "active", !.status = s]

(* The workspace half.  A generation that no longer owns the session       *)
(* aborts; a failed or missing record write keeps the live transition.     *)
PersistTransition(g, role) ==
    LET t == <<g, role>>
        s == trans[t].status
        ignored == TransitionIgnored(g, s, trans[t].already)
    IN
    /\ trans[t].at = "persist"
    /\ lock' = NoTask
    /\ \/ /\ ~Owns(g) \/ (rec.phase # "none" /\ ignored)
          /\ trans' = Settle(t, "refused")
          /\ UNCHANGED <<rec, faults>>
       \/ /\ Owns(g) /\ rec.phase = "none"
          /\ trans' = Settle(t, "applied")
          /\ UNCHANGED <<rec, faults>>
       \/ /\ Owns(g) /\ rec.phase # "none" /\ ~ignored
          /\ trans' = Settle(t, "applied")
          /\ \/ rec' = TransitionedRec(s) /\ UNCHANGED faults
             \/ WriteFails /\ UNCHANGED rec
    /\ UNCHANGED <<phase, status>> /\ TransUnchanged

-----------------------------------------------------------------------------
(* The finalizer: finalize_session_ending *)

FinUnchanged == UNCHANGED <<next, live, spawned, attached, closed, killed,
                            child, pid, run, exitAs, trans, lock, resume,
                            reserved, epoch>>
EndingOwner(g) == Owns(g) /\ phase[g] = "ending"
FinStop(f) == fin' = [fin EXCEPT ![f] = NoFin]

(* FinalScanPersistence::output: nothing to do unless still the ending     *)
(* owner; the inference that follows may take long.                        *)
FinScan(g, k) ==
    LET f == <<g, k>> IN
    /\ fin[f].at = "scan"
    /\ IF EndingOwner(g)
       THEN fin' = [fin EXCEPT ![f] = [@ EXCEPT !.at = "capture"]]
       ELSE FinStop(f)
    /\ UNCHANGED <<phase, status, resuming, rec, faults>> /\ FinUnchanged

(* persist_final_peon_scan and capture_ending_context: the finalizer binds *)
(* to the store that is open now.                                          *)
FinCapture(g, k) ==
    LET f == <<g, k>> IN
    /\ fin[f].at = "capture"
    /\ IF EndingOwner(g) /\ rec.phase # "ended"
       THEN fin' = [fin EXCEPT ![f] = [@ EXCEPT !.at = "history", !.epoch = epoch]]
       ELSE FinStop(f)
    /\ UNCHANGED <<phase, status, resuming, rec, faults>> /\ FinUnchanged

(* workspace_matches and runtime_matches *)
FinMatches(g, k) == fin[<<g, k>>].epoch = epoch /\ EndingOwner(g)

(* LifecycleMutation::Finalize *)
FinalizedRec(fallback) ==
    [phase |-> "ended", pending |-> "none",
     status |-> IF rec.pending = "none" THEN fallback ELSE rec.pending]

(* The terminal grid and the ended record, under the workspace lock.       *)
FinHistory(g, k) ==
    LET f == <<g, k>> IN
    /\ fin[f].at = "history"
    /\ \/ /\ ~FinMatches(g, k) \/ rec.phase = "ended"
          /\ FinStop(f) /\ UNCHANGED <<rec, faults>>
       \/ /\ FinMatches(g, k) /\ rec.phase \notin {"none", "ended"}
          /\ \/ /\ rec' = FinalizedRec(fin[f].fallback)
                /\ fin' = [fin EXCEPT ![f] = [@ EXCEPT !.at = "publish",
                                                      !.final = rec'.status]]
                /\ UNCHANGED faults
             \/ WriteFails /\ FinStop(f) /\ UNCHANGED rec
       \/ /\ FinMatches(g, k) /\ rec.phase = "none"
          /\ fin' = [fin EXCEPT ![f] = [@ EXCEPT !.at = "publish",
                                                !.final = fin[f].fallback]]
          /\ UNCHANGED <<rec, faults>>
    /\ UNCHANGED <<phase, status, resuming>> /\ FinUnchanged

(* The live handle follows the record. *)
FinPublish(g, k) ==
    LET f == <<g, k>> IN
    /\ fin[f].at = "publish"
    /\ \/ /\ FinMatches(g, k)
          /\ phase' = [phase EXCEPT ![g] = "ended"]
          /\ status' = [status EXCEPT ![g] = fin[f].final]
          /\ resuming' = resuming \ {g}
       \/ /\ ~FinMatches(g, k)
          /\ UNCHANGED <<phase, status, resuming>>
    /\ FinStop(f)
    /\ UNCHANGED <<rec, faults>> /\ FinUnchanged

-----------------------------------------------------------------------------
(* Requests from users, the workspace and the process *)

UserUnchanged == UNCHANGED <<next, phase, status, resuming, spawned, closed,
                             child, run, exitAs, lock, fin, resume, epoch,
                             faults>>

(* session_action Close: only the captured runtime is signalled. *)
RequestStop(g) ==
    /\ "stop" \in Requests
    /\ Owns(g) /\ phase[g] # "ended" /\ g \notin killed
    /\ killed' = killed \cup {g}
    /\ UNCHANGED <<live, attached, pid, rec, trans, reserved>> /\ UserUnchanged

(* delete_session: reserve, signal the captured runtime and request the    *)
(* killed transition for its generation.                                   *)
DeleteSession(g) ==
    /\ "delete" \in Requests
    /\ Owns(g) /\ ~Pending
    /\ trans[<<g, "kill">>].at = "idle"
    /\ reserved' = reserved \cup {<<g, epoch>>}
    /\ killed' = killed \cup {g}
    /\ trans' = Request(<<g, "kill">>, "killed")
    /\ UNCHANGED <<live, attached, pid, rec>> /\ UserUnchanged

(* The request ends or is cancelled; the transition goes on without it. *)
DeleteReturns(g) ==
    /\ \E e \in 1 .. MaxEpoch : <<g, e>> \in reserved
    /\ reserved' = reserved \ ({g} \X (1 .. MaxEpoch))
    /\ UNCHANGED <<live, attached, killed, pid, rec, trans>> /\ UserUnchanged

(* forget_session *)
ForgetSession ==
    /\ "forget" \in Requests
    /\ ~Pending /\ RuntimeClosed /\ rec.phase = "ended"
    /\ rec' = NoRec
    /\ live' = 0
    /\ pid' = 0
    /\ UNCHANGED <<attached, killed, trans, reserved>> /\ UserUnchanged

(* claim_attachment and release_attachment, as far as they gate a resume. *)
Attach(g) ==
    /\ "attach" \in Requests
    /\ Owns(g) /\ phase[g] \in {"creating", "active"} /\ g \notin attached
    /\ attached' = attached \cup {g}
    /\ UNCHANGED <<live, killed, pid, rec, trans, reserved>> /\ UserUnchanged

Detach(g) ==
    /\ Owns(g) /\ g \in attached
    /\ attached' = attached \ {g}
    /\ UNCHANGED <<live, killed, pid, rec, trans, reserved>> /\ UserUnchanged

(* Mutant: the pending status is not consumed. *)
ReconciledRec_forgets ==
    [phase |-> "ended", pending |-> "none", status |-> "ended"]

(* reconcile_orphaned_session *)
ReconciledRec ==
    [phase |-> "ended", pending |-> "none",
     status |-> IF rec.phase # "ending" THEN "ended"
                ELSE IF rec.pending = "none" THEN "error" ELSE rec.pending]

(* Records of sessions without a runtime are completed; a failed write is  *)
(* ignored.                                                                *)
Reconcile(hasRuntime) ==
    IF rec.status \in {"running", "creating"} /\ ~hasRuntime
    THEN \/ rec' = ReconciledRec /\ UNCHANGED faults
         \/ WriteFails /\ UNCHANGED rec
    ELSE UNCHANGED <<rec, faults>>

(* open_workspace_inner of the workspace that is open already: a new       *)
(* MetadataStore, and with it no reservations, under live sessions.        *)
ReopenWorkspace ==
    /\ epoch < MaxEpoch
    /\ epoch' = epoch + 1
    /\ Reconcile(LiveRuntime)
    /\ UNCHANGED <<next, handleVars, killed, child, pid, taskVars, resume,
                   reserved>>

(* The sidecar dies and a new one opens the workspace: only the record is  *)
(* left, and processes it had started are nobody's any more.               *)
CrashRestart ==
    /\ Crashes /\ epoch < MaxEpoch
    /\ epoch' = epoch + 1
    /\ Reconcile(FALSE)
    /\ live' = 0 /\ pid' = 0
    /\ phase' = [g \in Gens |-> "none"] /\ status' = [g \in Gens |-> "none"]
    /\ resuming' = {} /\ spawned' = {} /\ attached' = {} /\ closed' = {}
    /\ killed' = {}
    /\ child' = [g \in Gens |-> IF child[g] = "running" THEN "lost" ELSE child[g]]
    /\ run' = [g \in Gens |-> "none"] /\ exitAs' = [g \in Gens |-> "none"]
    /\ trans' = [t \in Gens \X Roles |-> Idle] /\ lock' = NoTask
    /\ fin' = [f \in Fins |-> NoFin]
    /\ resume' = [r \in Resumers |-> NoResume]
    /\ reserved' = {}
    /\ UNCHANGED next

-----------------------------------------------------------------------------
ResumeStep(r) ==
    \/ ResumeRead(r) \/ ResumeInstall(r) \/ ResumePersist(r)
    \/ ResumeUnwind(r) \/ ResumeRestore(r) \/ ResumeReturns(r)

StartStep(g) ==
    \/ StartCancelled(g) \/ StartIsolateCancelled(g) \/ StartIsolateSettled(g)
    \/ StartFails(g) \/ StartChecked(g) \/ SpawnChild(g) \/ MarkSpawned(g)
    \/ RegisterPid(g) \/ SetupFails(g) \/ PublishRunning(g) \/ RunningSettled(g)
    \/ FinishCancellation(g) \/ CancellationSettled(g)
    \/ ReportFailure(g) \/ FailureSettled(g)

DriverStep(g) ==
    \/ KillChild(g) \/ ObserveExit(g) \/ ExitRequest(g) \/ ExitSettled(g)
    \/ ExitTimeout(g) \/ ExitDetach(g) \/ ExitClear(g)

TransitionStep(g, role) ==
    TransitionRefused(g, role) \/ TransitionHandle(g, role) \/ PersistTransition(g, role)

FinStep(g, k) ==
    FinScan(g, k) \/ FinCapture(g, k) \/ FinHistory(g, k) \/ FinPublish(g, k)

UserStep ==
    \/ CreateSession \/ ForgetSession
    \/ \E r \in Resumers : ResumeCapture(r)
    \/ \E g \in Gens : \/ RequestStop(g) \/ DeleteSession(g) \/ DeleteReturns(g)
                       \/ Attach(g) \/ Detach(g) \/ ChildExits(g) \/ StopChild(g)

Next ==
    \/ UserStep
    \/ \E r \in Resumers : ResumeStep(r)
    \/ \E g \in Gens : StartStep(g) \/ DriverStep(g)
    \/ \E g \in Gens, role \in Roles : TransitionStep(g, role)
    \/ \E g \in Gens, k \in {1, 2} : FinStep(g, k)
    \/ ReopenWorkspace \/ CrashRestart

Spec == Init /\ [][Next]_vars

(* The runtime schedules its own tasks; users, children and the operating  *)
(* system owe nothing.  A transition waits for a global mutex, which every *)
(* holder releases, so a waiting one is served in the end.                 *)
Fairness ==
    /\ \A r \in Resumers : WF_vars(ResumeStep(r))
    /\ \A g \in Gens : WF_vars(StartStep(g)) /\ WF_vars(DriverStep(g))
    /\ \A g \in Gens, role \in Roles :
          /\ SF_vars(TransitionRefused(g, role) \/ TransitionHandle(g, role))
          /\ WF_vars(PersistTransition(g, role))
    /\ \A g \in Gens, k \in {1, 2} : WF_vars(FinStep(g, k))

FairSpec == Spec /\ Fairness

-----------------------------------------------------------------------------
RecType   == [phase : Phases, status : Statuses, pending : {"none"} \cup Terminal]
TransType == [at : TransSteps, status : Statuses, already : {"no", "yes"}]
FinType   == [at : FinSteps, fallback : {"none"} \cup Terminal,
              epoch : 0 .. MaxEpoch, final : Statuses]
ResumeType == [at : ResumeSteps, expected : 0 .. MaxGen, seen : RecType,
               gen : 0 .. MaxGen, prev : 0 .. MaxGen]

(* Type correctness of the registry, the record and the tasks in flight. *)
TypeOK ==
    /\ next \in 1 .. MaxGen + 1
    /\ live \in 0 .. MaxGen
    /\ phase \in [Gens -> Phases]
    /\ status \in [Gens -> Statuses]
    /\ resuming \subseteq Gens /\ spawned \subseteq Gens
    /\ attached \subseteq Gens /\ closed \subseteq Gens /\ killed \subseteq Gens
    /\ child \in [Gens -> {"none", "running", "exited", "lost"}]
    /\ pid \in 0 .. MaxGen
    /\ rec \in RecType
    /\ run \in [Gens -> RunSteps]
    /\ exitAs \in [Gens -> {"none"} \cup Terminal]
    /\ trans \in [Gens \X Roles -> TransType]
    /\ lock \in (Gens \X Roles) \cup {NoTask}
    /\ fin \in [Fins -> FinType]
    /\ resume \in [Resumers -> ResumeType]
    /\ reserved \subseteq Gens \X (1 .. MaxEpoch)
    /\ epoch \in 1 .. MaxEpoch
    /\ faults \in 0 .. MaxFaults

(* A running child belongs to the registered generation, and that handle   *)
(* is not ended: no resume, rollback, forget or finalizer of another task  *)
(* leaves a process behind that the registry does not lead to.             *)
ChildIsOwned ==
    \A g \in Gens : child[g] = "running" =>
        Owns(g) /\ phase[g] \in {"creating", "active", "ending"}

(* A record that says ended, or that was deleted, has no process behind    *)
(* it, neither running nor tracked in session_pids.                        *)
EndedMeansStopped ==
    rec.phase \in {"none", "ended"} =>
        pid = 0 /\ \A g \in Gens : child[g] # "running"

(* What the live registry publishes as ended is ended on disk, too: no     *)
(* late transition, failed write or rollback leaves an unfinished record   *)
(* under a completed handle.                                               *)
PublishedIsDurable ==
    live # 0 /\ phase[live] = "ended" => rec.phase = "ended"

(* The first terminal status wins: once the record is ending, its pending  *)
(* status never changes, and it is the one it ends with.                   *)
FirstTerminalWins ==
    [][rec.phase = "ending" =>
         rec' \in {rec, [phase |-> "ended", status |-> rec.pending,
                         pending |-> "none"]}]_rec

(* A generation that is ending is finalized in the end, however delete,    *)
(* exit, startup and the transition timeout interleave, unless its child   *)
(* outlives the driver's signal for ever or the workspace is opened again. *)
EndingCompletes ==
    \A g \in Gens :
        (Owns(g) /\ phase[g] = "ending")
            ~> (\/ phase[g] # "ending"
                \/ [](run[g] = "stopping" /\ child[g] = "running")
                \/ epoch > 1)

(* A delete during startup does not leave the generation ending for ever. *)
DeletedStartupCompletes ==
    \A g \in Gens :
        (Owns(g) /\ phase[g] = "ending" /\ g \in killed /\ g \notin spawned)
            ~> phase[g] # "ending"

(* An outcome is final: no late finalizer, transition or rollback rewrites *)
(* how an attempt ended into something else.                               *)
OutcomeIsFinal ==
    [][rec.phase = "ended" /\ rec'.phase = "ended" => rec' = rec]_rec

(* The sidecar implements the contract of SessionContract.                 *)
Contract == INSTANCE SessionContract WITH
    gen   <- live,
    phase <- IF live = 0 THEN "none" ELSE phase[live],
    alive <- {g \in Gens : child[g] = "running"}
ImplementsContract == Contract!Spec

=============================================================================
