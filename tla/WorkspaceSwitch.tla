--------------------------- MODULE WorkspaceSwitch ---------------------------
(***************************************************************************)
(* The desktop's main process opens, switches, updates and quits a         *)
(* workspace: the composition of workspaceSwitchCoordinator.ts,            *)
(* sidecarLifecycle.ts and backendRestoration.ts as main.ts wires them.    *)
(*                                                                         *)
(* One thread runs events (exit of the sidecar, timers, answers, requests  *)
(* of the window) and, before the next event, the continuations of every   *)
(* promise that has settled.  A continuation is an action of its own; no   *)
(* event happens while one is due (Due).                                   *)
(*                                                                         *)
(* Generation counters that are only compared for equality are booleans:   *)
(* op.stale says that markUnresolved moved the coordinator's generation,   *)
(* req[r].stale that backendGeneration moved since the request began.      *)
(***************************************************************************)
EXTENDS Naturals, FiniteSets

CONSTANTS
    Paths,
    Requests,    \* requests of the window that are bound to one backend
    None,
    MaxGen       \* bound: sidecars launched

ASSUME SwitchAssumption == None \notin Paths /\ MaxGen \in Nat

VARIABLES
    gens,       \* sidecarLifecycle: every generation launched
    current,    \* sidecarLifecycle: the current one, or 0
    launched,   \* sidecarLifecycle: how many were launched
    rest,       \* backendRestoration: the restoration of one generation
    co,         \* the coordinator
    op,         \* the operation at the head of its queue
    wpath,      \* main.ts: workspacePath
    life,       \* main.ts: latestBackendLifecycle.state
    req,        \* withReadyBackendGeneration: the requests
    gone        \* the application has quit

vars == <<gens, current, launched, rest, co, op, wpath, life, req, gone>>

Gens == 1..MaxGen
Path == Paths \cup {None}

Generations == [cwd: Path, proc: {"none", "running", "exited"}, ready: BOOLEAN,
                failed: BOOLEAN, killed: BOOLEAN, stopping: BOOLEAN,
                cleanup: {"open", "ok", "failed"}]

Unborn == [cwd |-> None, proc |-> "none", ready |-> FALSE, failed |-> FALSE,
           killed |-> FALSE, stopping |-> FALSE, cleanup |-> "open"]

Restorations == [gen: 0..MaxGen, state: {"open", "resolved", "failed"}, sent: BOOLEAN,
                 workspace: Path]
NoRest == [gen |-> 0, state |-> "failed", sent |-> FALSE, workspace |-> None]

States == {"picker", "opening", "ready", "closing", "unresolved"}

(* `failure` is attemptedRuntimeCleanupFailure.                            *)
Coordinators == [state: States, path: Path, last: Path, failure: BOOLEAN]

Pcs == {"idle", "picking", "closing", "closed", "starting", "restoring", "remember",
        "cleaning", "retrying", "installing"}

(* `of` is the generation whose cleanup the operation waits for.           *)
Operations == [kind: {"open", "update", "quit"}, pc: Pcs, dest: Path, of: 0..MaxGen,
               stale: BOOLEAN]
NoOp == [kind |-> "open", pc |-> "idle", dest |-> None, of |-> 0, stale |-> FALSE]

Bound == [pc: {"idle", "waiting", "sent", "answered", "failed"}, stale: BOOLEAN,
          gen: 0..MaxGen, home: Path]
Unsent == [pc |-> "idle", stale |-> FALSE, gen |-> 0, home |-> None]

Init ==
    /\ gens = [g \in Gens |-> Unborn] /\ current = 0 /\ launched = 0
    /\ rest = NoRest
    /\ co = [state |-> "picker", path |-> None, last |-> None, failure |-> FALSE]
    /\ op = NoOp
    /\ wpath = None /\ life = "picker"
    /\ req = [r \in Requests |-> Unsent] /\ gone = FALSE

-----------------------------------------------------------------------------
(* The event loop.                                                         *)

CleanupSettled(g) == g = 0 \/ gens[g].cleanup # "open"
CleanupFailed(g) == g # 0 /\ gens[g].cleanup = "failed"

(* The promise the operation awaits has settled.                           *)
OpDue ==
    \/ op.pc = "closed"
    \/ op.pc \in {"closing", "cleaning", "retrying"} /\ CleanupSettled(op.of)
    \/ op.pc = "starting" /\ (gens[launched].ready \/ gens[launched].failed)
    \/ op.pc = "restoring" /\ (rest.gen # launched \/ rest.state # "open")

Due == OpDue \/ \E r \in Requests : req[r].pc = "waiting"

Publish(c, s) == co' = [c EXCEPT !.state = s] /\ life' = s
Finish == op' = NoOp

(* cancelGenerationBoundRequests and backendGeneration += 1.               *)
Superseded == [r \in Requests |-> [req[r] EXCEPT !.stale = TRUE]]

-----------------------------------------------------------------------------
(* sidecarLifecycle.ts.                                                    *)

Running(g) == gens[g].proc = "running"
IsCurrent(g) == current = g /\ ~gens[g].stopping

(* terminate: kill() may throw, which settles the cleanup as failed.       *)
Terminate(g, throws) ==
    IF g.proc = "running" /\ ~g.killed
    THEN [g EXCEPT !.killed = TRUE,
                   !.cleanup = IF throws /\ @ = "open" THEN "failed" ELSE @]
    ELSE g

(* Mutant: a sidecar that was told to exit counts as gone. *)
StopCurrent_killed(g, throws) ==
    LET s == Terminate([g EXCEPT !.failed = @ \/ ~g.ready, !.stopping = TRUE], throws)
    IN  [s EXCEPT !.cleanup = "ok"]

StopCurrent(g, throws) ==
    LET s == Terminate([g EXCEPT !.failed = @ \/ ~g.ready, !.stopping = TRUE], throws)
    IN  CASE g.cleanup = "failed" -> g
          [] g.cleanup # "failed" /\ s.proc # "running" -> [s EXCEPT !.cleanup = "ok"]
          [] OTHER -> s

Stop(throws) ==
    IF current = 0 THEN UNCHANGED <<gens, current>>
    ELSE LET g == StopCurrent(gens[current], throws)
         IN  /\ gens' = [gens EXCEPT ![current] = g]
             /\ current' = IF g.cleanup = "ok" THEN 0 ELSE current

(* onUnavailable: restoration.fail.  While a workspace is opening the      *)
(* coordinator reports the failure, later the restoration does.            *)
RestorationFails ==
    IF rest.gen # 0 /\ rest.state # "failed"
    THEN /\ rest' = [rest EXCEPT !.state = "failed", !.workspace = None]
         /\ life' = IF co.state = "opening" THEN life ELSE "failed"
    ELSE UNCHANGED <<rest, life>>

(* A valid port is announced; restoration.restore posts the workspace.     *)
SidecarReady(g) ==
    /\ ~Due /\ Running(g) /\ IsCurrent(g) /\ ~gens[g].failed /\ ~gens[g].ready
    /\ gens' = [gens EXCEPT ![g].ready = TRUE]
    /\ rest' = IF rest.state = "failed" THEN rest ELSE [rest EXCEPT !.sent = TRUE]
    /\ UNCHANGED <<current, launched, co, op, wpath, life, req, gone>>

(* An error of the process, or an invalid port.                            *)
SidecarFails(g, throws) ==
    /\ ~Due /\ Running(g) /\ IsCurrent(g) /\ ~gens[g].failed
    /\ gens' = [gens EXCEPT ![g] = Terminate([@ EXCEPT !.failed = TRUE], throws)]
    /\ RestorationFails
    /\ UNCHANGED <<current, launched, co, op, wpath, req, gone>>

ReadinessTimeout(g) == ~gens[g].ready /\ SidecarFails(g, FALSE)

(* Mutant: the wait for the exit has no timer of its own. *)
CleanupTimeout_none(g) == FALSE /\ Running(g) /\ UNCHANGED vars

CleanupTimeout(g) ==
    /\ ~Due /\ Running(g) /\ gens[g].stopping /\ gens[g].cleanup = "open"
    /\ gens' = [gens EXCEPT ![g].cleanup = "failed"]
    /\ UNCHANGED <<current, launched, rest, co, op, wpath, life, req, gone>>

(* Mutant: a late exit settles the cleanup that was given up. *)
StoppedExit_late(g) ==
    /\ ~Due /\ Running(g) /\ gens[g].stopping
    /\ gens' = [gens EXCEPT ![g].proc = "exited", ![g].cleanup = "ok"]
    /\ current' = IF current = g THEN 0 ELSE current
    /\ UNCHANGED <<launched, rest, co, op, wpath, life, req, gone>>

(* The exit that stop was waiting for, or comes after its timeout.         *)
StoppedExit(g) ==
    /\ ~Due /\ Running(g) /\ gens[g].stopping
    /\ gens' = [gens EXCEPT ![g].proc = "exited",
                            ![g].cleanup = IF @ = "open" THEN "ok" ELSE @]
    /\ current' = IF current = g /\ gens'[g].cleanup = "ok" THEN 0 ELSE current
    /\ UNCHANGED <<launched, rest, co, op, wpath, life, req, gone>>

(* An exit nobody asked for: ownership of its descendants is unresolved    *)
(* (onUnexpectedExit, markUnresolved).                                     *)
UnexpectedExit(g) ==
    /\ ~Due /\ Running(g) /\ ~gens[g].stopping
    /\ gens' = [gens EXCEPT ![g].proc = "exited", ![g].failed = TRUE, ![g].cleanup = "failed"]
    /\ rest' = NoRest
    /\ Publish([co EXCEPT !.failure = TRUE], "unresolved")
    /\ op' = [op EXCEPT !.stale = op.pc # "idle"]
    /\ req' = Superseded
    /\ UNCHANGED <<current, launched, wpath, gone>>

-----------------------------------------------------------------------------
(* backendRestoration.ts: the answer to restoreWorkspace, or its timeout.  *)

Restored ==
    /\ ~Due /\ rest.state = "open" /\ rest.sent
    /\ rest' = [rest EXCEPT !.state = "resolved", !.workspace = wpath]
    /\ UNCHANGED <<gens, current, launched, co, op, wpath, life, req, gone>>

(* A sidecar that rejects the path makes main.ts forget it.                *)
RestoreFails(rejected) ==
    /\ ~Due /\ rest.state = "open" /\ rest.sent
    /\ RestorationFails
    /\ wpath' = IF rejected THEN None ELSE wpath
    /\ UNCHANGED <<gens, current, launched, co, op, req, gone>>

-----------------------------------------------------------------------------
(* workspaceSwitchCoordinator.ts.                                          *)

(* closeCurrent, for operation o over coordinator state c.                 *)
CloseCurrent(o, c, throws) ==
    IF c.path = None
    THEN /\ op' = [o EXCEPT !.pc = "closed"]
         /\ Publish(c, c.state)      \* with nothing open `life` is this state already
         /\ UNCHANGED <<gens, current, rest, req>>
    ELSE /\ op' = [o EXCEPT !.pc = "closing", !.of = current]
         /\ Publish(c, "closing")
         /\ req' = Superseded /\ rest' = NoRest
         /\ Stop(throws)

(* switchWorkspaceInternal up to its first await.                          *)
SwitchWorkspaceInternal(c, p, throws) ==
    CloseCurrent([NoOp EXCEPT !.dest = p], [c EXCEPT !.last = p], throws)

(* cleanupAttemptedRuntime.                                                *)
CleanupAttemptedRuntime(pc, throws) ==
    /\ op' = [op EXCEPT !.pc = pc, !.of = current]
    /\ rest' = NoRest /\ wpath' = None
    /\ Stop(throws)

Idle == op.pc = "idle" /\ ~gone

(* switchWorkspace, with a directory that is accessible.                   *)
SwitchWorkspace(p, throws) ==
    /\ Idle /\ ~co.failure /\ launched < MaxGen
    /\ SwitchWorkspaceInternal(co, p, throws)
    /\ UNCHANGED <<launched, wpath, gone>>

(* pickWorkspace holds the queue while the user has the dialog open.       *)
PickWorkspace ==
    /\ Idle /\ launched < MaxGen
    /\ op' = [NoOp EXCEPT !.pc = "picking"]
    /\ UNCHANGED <<gens, current, launched, rest, co, wpath, life, req, gone>>

(* The user's answer: None to cancel, or for what is no directory.         *)
Picked(p, throws) ==
    /\ op.pc = "picking" /\ ~Due
    /\ IF p = None \/ co.failure
       THEN Finish /\ UNCHANGED <<gens, current, rest, co, life, req>>
       ELSE SwitchWorkspaceInternal(co, p, throws)
    /\ UNCHANGED <<launched, wpath, gone>>

Retry(throws) ==
    /\ Idle /\ launched < MaxGen
    /\ IF co.failure
       THEN CleanupAttemptedRuntime("retrying", throws) /\ UNCHANGED <<co, life, req>>
       ELSE /\ co.last # None
            /\ SwitchWorkspaceInternal(co, co.last, throws)
            /\ UNCHANGED wpath
    /\ UNCHANGED <<launched, gone>>

(* retry-backend with a last destination that is no directory any more:    *)
(* the window is told "picker", the coordinator stays where it was.        *)
RetryRefused ==
    /\ Idle /\ ~co.failure
    /\ life' = "picker"
    /\ UNCHANGED <<gens, current, launched, rest, co, op, wpath, req, gone>>

Retried(throws) ==
    /\ op.pc = "retrying" /\ CleanupSettled(op.of)
    /\ IF CleanupFailed(op.of)
       THEN /\ Publish([co EXCEPT !.failure = TRUE], "unresolved") /\ Finish
            /\ UNCHANGED <<gens, current, rest, req>>
       ELSE SwitchWorkspaceInternal([co EXCEPT !.failure = FALSE, !.state = "picker"],
                                    co.last, throws)
    /\ UNCHANGED <<launched, wpath, gone>>

RunUpdate(throws) ==
    /\ Idle /\ ~co.failure /\ launched < MaxGen
    /\ CloseCurrent([NoOp EXCEPT !.kind = "update", !.dest = co.path], co, throws)
    /\ UNCHANGED <<launched, wpath, gone>>

(* Mutant: quit looks only at the open workspace. *)
Quit_unchecked(throws) ==
    /\ Idle
    /\ CloseCurrent([NoOp EXCEPT !.kind = "quit"], co, throws)
    /\ UNCHANGED <<launched, wpath, gone>>

(* quit: closeInternal, refused while an attempted runtime is unresolved.  *)
Quit(throws) ==
    /\ Idle
    /\ IF co.failure
       THEN Publish(co, "unresolved") /\ UNCHANGED <<gens, current, rest, op, req>>
       ELSE CloseCurrent([NoOp EXCEPT !.kind = "quit"], co, throws)
    /\ UNCHANGED <<launched, wpath, gone>>

(* closeCurrent resumes.                                                   *)
Closed ==
    /\ op.pc = "closing" /\ CleanupSettled(op.of)
    /\ IF CleanupFailed(op.of)
       THEN Publish(co, "unresolved") /\ Finish /\ UNCHANGED wpath
       ELSE /\ Publish([co EXCEPT !.path = None], "picker") /\ wpath' = None
            /\ op' = [op EXCEPT !.pc = "closed"]
    /\ UNCHANGED <<gens, current, launched, rest, req, gone>>

(* Nothing is open any more: publish opening, startRuntime, launch.  That  *)
(* `start` finds no earlier sidecar is part of OperationsEnd.              *)
StartRuntime(spawned) ==
    /\ op.pc = "closed" /\ op.kind = "open" /\ current = 0
    /\ Publish(co, "opening")
    /\ wpath' = op.dest
    /\ launched' = launched + 1 /\ current' = launched'
    /\ gens' = [gens EXCEPT ![launched'] =
                   [Unborn EXCEPT !.cwd = op.dest, !.failed = ~spawned,
                                  !.proc = IF spawned THEN "running" ELSE "none"]]
    /\ rest' = [gen |-> launched', state |-> IF spawned THEN "open" ELSE "failed",
                sent |-> FALSE, workspace |-> None]
    /\ req' = Superseded
    /\ op' = [op EXCEPT !.pc = "starting"]
    /\ UNCHANGED gone

(* startRuntime has a port, and then the restored workspace.               *)
Started ==
    /\ op.pc = "starting" /\ gens[launched].ready
    /\ op' = [op EXCEPT !.pc = "restoring"]
    /\ UNCHANGED <<gens, current, launched, rest, co, wpath, life, req, gone>>

WorkspaceRestored ==
    rest.gen = launched /\ rest.state = "resolved" /\ rest.workspace # None /\ ~op.stale

Remember ==
    /\ op.pc = "restoring" /\ OpDue /\ WorkspaceRestored
    /\ op' = [op EXCEPT !.pc = "remember"]
    /\ UNCHANGED <<gens, current, launched, rest, co, wpath, life, req, gone>>

StartFailed(throws) ==
    /\ \/ op.pc = "starting" /\ OpDue /\ ~gens[launched].ready
       \/ op.pc = "restoring" /\ OpDue /\ ~WorkspaceRestored
    /\ CleanupAttemptedRuntime("cleaning", throws)
    /\ UNCHANGED <<launched, co, life, req, gone>>

(* Mutant: readiness is published without looking at the generation again. *)
Remembered_unchecked(throws) ==
    /\ op.pc = "remember" /\ ~Due
    /\ Publish([co EXCEPT !.path = op.dest], "ready") /\ wpath' = op.dest
    /\ Finish
    /\ UNCHANGED <<gens, current, rest, launched, req, gone>>

(* Mutant: the restored workspace is kept in place of its path. *)
Remembered_workspace(throws) ==
    /\ op.pc = "remember" /\ ~Due
    /\ IF op.stale \/ co.failure
       THEN CleanupAttemptedRuntime("cleaning", throws) /\ UNCHANGED <<co, life>>
       ELSE /\ Publish([co EXCEPT !.path = rest], "ready") /\ wpath' = op.dest
            /\ Finish /\ UNCHANGED <<gens, current, rest>>
    /\ UNCHANGED <<launched, req, gone>>

(* rememberWorkspace resolves.  The coordinator awaits it and lets it be   *)
(* asynchronous; the one of main.ts is not.                                *)
Remembered(throws) ==
    /\ op.pc = "remember" /\ ~Due
    /\ IF op.stale \/ co.failure
       THEN CleanupAttemptedRuntime("cleaning", throws) /\ UNCHANGED <<co, life>>
       ELSE /\ Publish([co EXCEPT !.path = op.dest], "ready") /\ wpath' = op.dest
            /\ Finish /\ UNCHANGED <<gens, current, rest>>
    /\ UNCHANGED <<launched, req, gone>>

Cleaned ==
    /\ op.pc = "cleaning" /\ CleanupSettled(op.of)
    /\ IF co.failure \/ CleanupFailed(op.of)
       THEN Publish([co EXCEPT !.failure = TRUE], "unresolved")
       ELSE Publish(co, "picker")
    /\ Finish
    /\ UNCHANGED <<gens, current, launched, rest, wpath, req, gone>>

(* runUpdate: the installation replaces the application, which quits       *)
(* through quit, or fails and the workspace is opened again.               *)
Install ==
    /\ op.pc = "closed" /\ op.kind = "update"
    /\ op' = [op EXCEPT !.pc = "installing"]
    /\ UNCHANGED <<gens, current, launched, rest, co, wpath, life, req, gone>>

InstallEnds(ok, throws) ==
    /\ op.pc = "installing" /\ ~Due
    /\ IF ok \/ op.dest = None \/ co.failure
       THEN Finish /\ UNCHANGED <<gens, current, rest, co, life, req>>
       ELSE SwitchWorkspaceInternal(co, op.dest, throws)
    /\ UNCHANGED <<launched, wpath, gone>>

(* requestQuit: killSidecar and app.quit.                                  *)
KillSidecar ==
    /\ op.pc = "closed" /\ op.kind = "quit"
    /\ Publish(co, "picker")
    /\ gone' = TRUE /\ Finish
    /\ UNCHANGED <<gens, current, launched, rest, wpath, req>>

-----------------------------------------------------------------------------
(* withReadyBackendGeneration: a request belongs to the backend that was   *)
(* ready when it began.                                                    *)

Request(r) ==
    /\ ~Due /\ ~gone /\ req[r].pc = "idle" /\ life = "ready"
    /\ req' = [req EXCEPT ![r] = [pc |-> "waiting", stale |-> FALSE, gen |-> rest.gen,
                                  home |-> co.path]]
    /\ UNCHANGED <<gens, current, launched, rest, co, op, wpath, life, gone>>

(* Mutant: any ready backend will do. *)
IsCurrentReady_any(r) == req[r].pc # "idle" /\ life = "ready"

(* assertCurrentReadyBackendGeneration.                                    *)
IsCurrentReady(r) == ~req[r].stale /\ life = "ready"

(* getReadiness settles at once: what was ready has been restored.         *)
Send(r) ==
    /\ req[r].pc = "waiting"
    /\ req' = [req EXCEPT ![r].pc = IF IsCurrentReady(r) /\ rest.state = "resolved"
                                     THEN "sent" ELSE "failed"]
    /\ UNCHANGED <<gens, current, launched, rest, co, op, wpath, life, gone>>

(* The sidecar's answer, or an error.                                      *)
Answer(r, ok) ==
    /\ ~Due /\ req[r].pc = "sent"
    /\ req' = [req EXCEPT ![r].pc = IF ok /\ IsCurrentReady(r) THEN "answered" ELSE "failed"]
    /\ UNCHANGED <<gens, current, launched, rest, co, op, wpath, life, gone>>

-----------------------------------------------------------------------------
Continue ==
    \/ Closed \/ Started \/ Remember \/ Cleaned \/ Install \/ KillSidecar
    \/ \E t \in BOOLEAN : StartRuntime(t) \/ StartFailed(t) \/ Retried(t)
    \/ \E r \in Requests : Send(r)

Sidecar(g) ==
    \/ SidecarReady(g) \/ ReadinessTimeout(g) \/ CleanupTimeout(g)
    \/ StoppedExit(g) \/ UnexpectedExit(g)
    \/ \E t \in BOOLEAN : SidecarFails(g, t)

Answers ==
    \/ Restored
    \/ \E t \in BOOLEAN : RestoreFails(t) \/ Remembered(t)
    \/ \E ok, t \in BOOLEAN : InstallEnds(ok, t)
    \/ \E p \in Path, t \in BOOLEAN : Picked(p, t)
    \/ \E r \in Requests, ok \in BOOLEAN : Answer(r, ok)

Window ==
    \/ RetryRefused \/ PickWorkspace
    \/ \E t \in BOOLEAN : Retry(t) \/ RunUpdate(t) \/ Quit(t)
    \/ \E p \in Paths, t \in BOOLEAN : SwitchWorkspace(p, t)
    \/ \E r \in Requests : Request(r)

Next == Continue \/ (\E g \in Gens : Sidecar(g)) \/ Answers \/ Window

Spec == Init /\ [][Next]_vars

(* Continuations run; every wait for the sidecar has a timer (readiness    *)
(* 10 s, cleanup 2 s, restoration 10 s); the history is written.  That the *)
(* process exits or answers, the user closes the dialog or the installer   *)
(* returns is not assumed.                                                 *)
Fairness ==
    /\ WF_vars(Continue)
    /\ \A g \in Gens : WF_vars(ReadinessTimeout(g)) /\ WF_vars(CleanupTimeout(g))
    /\ WF_vars(RestoreFails(FALSE)) /\ WF_vars(Remembered(FALSE))

FairSpec == Spec /\ Fairness

-----------------------------------------------------------------------------
(* The lifecycle, restoration, coordinator and requests keep their types.  *)
TypeOK ==
    /\ gens \in [Gens -> Generations] /\ current \in 0..MaxGen /\ launched \in 0..MaxGen
    /\ rest \in Restorations /\ co \in Coordinators /\ op \in Operations
    /\ wpath \in Path /\ life \in States \cup {"failed"}
    /\ req \in [Requests -> Bound] /\ gone \in BOOLEAN

(* One sidecar at a time: the next is launched only when the one before    *)
(* has exited, whatever timed out or failed to be killed on the way.       *)
OneRuntime == \A g \in Gens : Running(g) => g = current /\ g = launched

(* The workspace that the coordinator or the window holds for ready is the *)
(* one the running sidecar was started for and has restored, and the one   *)
(* main.ts works with.                                                     *)
ReadyIsServed ==
    "ready" \in {co.state, life} =>
        /\ co.state = "ready" /\ co.path # None /\ wpath = co.path
        /\ current # 0 /\ Running(current) /\ gens[current].cwd = co.path
        /\ rest.gen = current /\ rest.state # "open"

(* The application quits only when no sidecar of its own is running, with  *)
(* or without an open workspace.                                           *)
QuitLeavesNothing == gone => \A g \in Gens : ~Running(g)

(* A failed cleanup is a tombstone: it stays failed, and no other sidecar  *)
(* is launched, even after the process it was waiting for has exited.      *)
NoReplacement ==
    [][\A g \in Gens : gens[g].cleanup = "failed" =>
          gens'[g].cleanup = "failed" /\ launched' = launched]_vars

(* What main.ts says of a quit whose cleanup failed, that a later one can  *)
(* try it again: a quit that closes the open workspace is refused only     *)
(* while a sidecar runs.                                                   *)
QuitTriesAgain ==
    [][op.kind = "quit" /\ op.pc = "closing" /\ op'.pc = "idle" =>
          \E g \in Gens : Running(g)]_vars

(* A request is answered by the sidecar it was sent to, while that one     *)
(* still serves the workspace the request was made in.                     *)
AnswersFromHome ==
    [][\A r \in Requests : req[r].pc = "sent" /\ req'[r].pc = "answered" =>
          req[r].home = co.path /\ req[r].gen = current /\ Running(current)]_vars

(* Every operation ends and lets the next one run, whether or not the      *)
(* sidecar answers, exits or can be killed, unless the user never closes   *)
(* the dialog or the installer never returns.                              *)
OperationsEnd ==
    (op.pc # "idle") ~> (op.pc = "idle" \/ [](op.pc = "picking") \/ [](op.pc = "installing"))

=============================================================================
