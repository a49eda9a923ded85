------------------------- MODULE TerminalAttachment -------------------------
(***************************************************************************)
(* The terminal WebSockets of one session: how a socket claims the single  *)
(* attachment of the registered runtime, replays its output, queues and    *)
(* submits the client's commands, and lets the attachment go.              *)
(*                                                                         *)
(* A runtime is one SessionRuntime; runs are numbered in the order they    *)
(* are registered and the number stands for RuntimeIdentity.  Attachment   *)
(* tokens (attachment_generation) restart at zero with every runtime.  A   *)
(* socket is one accepted connection and is not used again once closed.    *)
(* Terminal output itself is not modelled.                                 *)
(***************************************************************************)
EXTENDS Integers, Sequences, FiniteSets

CONSTANTS
    Sockets,    \* terminal connections clients open
    MaxRun,     \* bound: runtimes of the session
    MaxInput,   \* bound: inputs typed into all the sockets together
    MaxOther,   \* bound: resize and kill messages of all the sockets together
    QueueCap,   \* QUEUED_INPUT_CAP_BYTES; every input is one byte long
    Slots       \* permits of input_slots

ASSUME AttachmentAssumption ==
    /\ MaxRun \in Nat \ {0}
    /\ MaxInput \in Nat /\ MaxOther \in Nat
    /\ QueueCap \in Nat
    /\ Slots \in Nat \ {0}

Runs   == 1 .. MaxRun
Inputs == 1 .. MaxInput

VARIABLES
    run,        \* the registered runtime
    phase,      \* lifecycle phase of its handle
    driver,     \* how far each runtime's driver has come
    counter,    \* attachment_generation of the registered runtime
    held,       \* attached_generation of the registered runtime, 0 for None
    sock,       \* the connections: claim, command in flight, queue
    detached,   \* commands whose connection has gone
    typed,      \* inputs clients have typed so far
    others,     \* resizes and kills clients have sent so far
    delivered,  \* inputs of each socket that a PTY has taken, in order
    effects     \* what resizes, inputs and kills have reached

vars == <<run, phase, driver, counter, held, sock, detached, typed, others,
          delivered, effects>>

NoCommand == [at |-> "none", kind |-> "noop", data |-> <<>>, from |-> 0,
              to |-> 0, sock |-> 0]
EmptyQueue == [items |-> <<>>, bytes |-> 0, kill |-> "no"]
NoSocket == [at |-> "new", run |-> 0, token |-> 0, cmd |-> NoCommand,
             queue |-> EmptyQueue, draining |-> "no"]

Init ==
    /\ run = 1
    /\ phase = "creating"
    /\ driver = [r \in Runs |-> IF r = 1 THEN "starting" ELSE "none"]
    /\ counter = 0 /\ held = 0
    /\ sock = [s \in Sockets |-> NoSocket]
    /\ detached = {}
    /\ typed = 0 /\ others = 0
    /\ delivered = [s \in Sockets |-> <<>>]
    /\ effects = {}

-----------------------------------------------------------------------------
(* The queue of commands that arrive while one is in flight. *)

Input(n) == [kind |-> "input", data |-> <<n>>]
Resize   == [kind |-> "resize", data |-> <<>>]
Kill     == [kind |-> "kill", data |-> <<>>]

(* Mutant: what is already queued does not count. *)
Overflows_alone(q, a) == a.kind = "input" /\ Len(a.data) > QueueCap

Overflows(q, a) == a.kind = "input" /\ q.bytes + Len(a.data) > QueueCap

(* Mutant: a new item goes to the head of the queue. *)
Push_front(q, a) ==
    IF Overflows(q, a) THEN q
    ELSE IF a.kind = "kill" THEN [q EXCEPT !.kill = "yes"]
    ELSE [q EXCEPT !.items = <<a>> \o @, !.bytes = @ + Len(a.data)]

(* PendingActionQueue::push: an input joins an input at the tail, a resize  *)
(* replaces a resize at the tail, a kill is only remembered.                *)
Push(q, a) ==
    IF Overflows(q, a) THEN q
    ELSE IF a.kind = "kill" THEN [q EXCEPT !.kill = "yes"]
    ELSE LET n == Len(q.items)
             joined == [a EXCEPT !.data = q.items[n].data \o @]
         IN  [q EXCEPT !.items = IF n > 0 /\ q.items[n].kind = a.kind
                                 THEN [q.items EXCEPT ![n] = joined]
                                 ELSE Append(q.items, a),
                       !.bytes = @ + Len(a.data)]

HasNext(q) == q.items # <<>> \/ q.kill = "yes"

NextAction(q) == IF q.items # <<>> THEN Head(q.items) ELSE Kill

(* Mutant: the bytes of the item stay counted. *)
TakeNext_keepsBytes(q) ==
    IF q.items # <<>> THEN [q EXCEPT !.items = Tail(@)]
                      ELSE [q EXCEPT !.kill = "no"]

(* PendingActionQueue::take_next, what it leaves: items first, then a kill. *)
TakeNext(q) ==
    IF q.items # <<>>
    THEN [q EXCEPT !.items = Tail(@), !.bytes = @ - Len(Head(q.items).data)]
    ELSE [q EXCEPT !.kill = "no"]

-----------------------------------------------------------------------------
(* Claiming and letting go. *)

Attached(s) == sock[s].at \in {"replay", "open"}

(* Mutant: a claim does not look for a holder. *)
Claimable_shared == phase \notin {"ending", "ended"}

(* The conditions of claim_attachment. *)
Claimable == phase \notin {"ending", "ended"} /\ held = 0

(* claim_attachment and the start of handle_session_terminal.  A refused    *)
(* connection is told so and closed.                                        *)
Claim(s) ==
    /\ sock[s].at = "new"
    /\ IF Claimable
       THEN /\ counter' = counter + 1
            /\ held' = counter + 1
            /\ sock' = [sock EXCEPT ![s] = [@ EXCEPT !.at = "replay",
                                            !.run = run, !.token = counter + 1]]
       ELSE sock' = [sock EXCEPT ![s].at = "closed"] /\ UNCHANGED <<counter, held>>
    /\ UNCHANGED <<run, phase, driver, detached, typed, others, delivered, effects>>

(* release_attachment: only the token is compared with the handle that is   *)
(* registered now.                                                          *)
Released(token) == IF held = token THEN 0 ELSE held

ReplaySent(s) ==
    /\ sock[s].at = "replay"
    /\ sock' = [sock EXCEPT ![s].at = "open"]
    /\ UNCHANGED <<run, phase, driver, counter, held, detached, typed, others,
                   delivered, effects>>

(* Mutant: a failed replay closes the socket and keeps the claim. *)
ReplayFails_keepsClaim(s) ==
    /\ sock[s].at = "replay"
    /\ sock' = [sock EXCEPT ![s].at = "closed"]
    /\ UNCHANGED <<run, phase, driver, counter, held, detached, typed, others,
                   delivered, effects>>

(* A replayed chunk cannot be sent. *)
ReplayFails(s) ==
    /\ sock[s].at = "replay"
    /\ held' = Released(sock[s].token)
    /\ sock' = [sock EXCEPT ![s].at = "closed"]
    /\ UNCHANGED <<run, phase, driver, counter, detached, typed, others,
                   delivered, effects>>

(* The end of handle_session_terminal: a command in flight is detached and  *)
(* goes on by itself, the queue is dropped, the claim is released.          *)
Leave(s) ==
    /\ held' = Released(sock[s].token)
    /\ detached' = detached \cup ({sock[s].cmd} \ {NoCommand})
    /\ sock' = [sock EXCEPT ![s] = [@ EXCEPT !.at = "closed", !.cmd = NoCommand,
                                    !.queue = EmptyQueue]]

(* The client closes the connection, or sending to it fails. *)
SocketCloses(s) ==
    /\ sock[s].at = "open"
    /\ Leave(s)
    /\ UNCHANGED <<run, phase, driver, counter, typed, others, delivered, effects>>

(* RuntimeEvent::Ended or Error is received, or the channel is closed       *)
(* because driver and handle have both dropped their sender.                *)
RuntimeEventEnds(s) ==
    /\ sock[s].at = "open"
    /\ \/ driver[sock[s].run] = "done"
       \/ driver[sock[s].run] = "failed" /\ run # sock[s].run
    /\ Leave(s)
    /\ UNCHANGED <<run, phase, driver, counter, typed, others, delivered, effects>>

-----------------------------------------------------------------------------
(* Commands. *)

(* spawn_command_future: an input takes the sender of the runtime the       *)
(* socket is attached to, if that is still registered.                      *)
Spawned(s, a) ==
    [at |-> "spawned", kind |-> a.kind, data |-> a.data, from |-> sock[s].run,
     to |-> IF a.kind = "input" /\ run = sock[s].run THEN run ELSE 0, sock |-> s]

(* A message of the client: submitted when no command is in flight, queued  *)
(* otherwise; an input over the queue's cap is dropped and reported.        *)
Receive(s, a) ==
    /\ sock[s].at = "open" /\ sock[s].draining = "no"
    /\ sock' = IF sock[s].cmd.at = "none"
               THEN [sock EXCEPT ![s].cmd = Spawned(s, a)]
               ELSE [sock EXCEPT ![s].queue = Push(@, a)]
    /\ UNCHANGED <<run, phase, driver, counter, held, detached, delivered, effects>>

ReceiveInput(s) ==
    /\ typed < MaxInput
    /\ typed' = typed + 1
    /\ Receive(s, Input(typed + 1))
    /\ UNCHANGED others

ReceiveOther(s, a) ==
    /\ others < MaxOther
    /\ others' = others + 1
    /\ Receive(s, a)
    /\ UNCHANGED typed

(* Commands in flight, of sockets and of their detached successors. *)
InFlight == {sock[s].cmd : s \in Sockets} \cup detached

(* Input owners of a runtime: each holds a slot until it has its answer. *)
Owners(r) == {c \in InFlight : c.kind = "input" /\ c.to = r /\ c.at \in {"owner", "sent"}}

(* The runtime takes commands: its control channel is open. *)
Takes(r) == driver[r] \in {"starting", "up"}

(* The command future of socket s resolves: the next queued action is       *)
(* submitted; after a rejection the socket only drains an exiting runtime   *)
(* and leaves a working one (TerminalCommandFailure).                       *)
Resolved(s, result) ==
    IF result # "rejected"
    THEN /\ sock' = [sock EXCEPT
              ![s] = [@ EXCEPT
                !.cmd = IF HasNext(sock[s].queue)
                        THEN Spawned(s, NextAction(sock[s].queue))
                        ELSE NoCommand,
                !.queue = TakeNext(sock[s].queue)]]
         /\ UNCHANGED <<held, detached>>
    ELSE IF ~Takes(run) \/ phase \in {"ending", "ended"}
    THEN /\ sock' = [sock EXCEPT ![s] = [@ EXCEPT !.cmd = NoCommand,
                                         !.queue = EmptyQueue, !.draining = "yes"]]
         /\ UNCHANGED <<held, detached>>
    ELSE /\ held' = Released(sock[s].token)
         /\ sock' = [sock EXCEPT ![s] = [@ EXCEPT !.at = "closed",
                                         !.cmd = NoCommand, !.queue = EmptyQueue]]
         /\ UNCHANGED detached

(* The command c gets an answer: its socket takes it, or nobody does. *)
Answer(c, result) ==
    \/ \E s \in Sockets :
        /\ sock[s].at = "open" /\ sock[s].cmd = c
        /\ Resolved(s, result)
    \/ /\ c \in detached
       /\ detached' = detached \ {c}
       /\ UNCHANGED <<sock, held>>

(* The command c reaches its next await without an answer. *)
Advance(c, d) ==
    \/ \E s \in Sockets :
        /\ sock[s].cmd = c
        /\ sock' = [sock EXCEPT ![s].cmd = d]
        /\ UNCHANGED detached
    \/ /\ c \in detached
       /\ detached' = (detached \ {c}) \cup {d}
       /\ UNCHANGED sock

(* submit_input_with_admission, first part: the identity is checked, a      *)
(* slot is taken (Busy without one) and the owner task is spawned.          *)
AdmitInput(c) ==
    /\ c.kind = "input" /\ c.at = "spawned"
    /\ IF c.to # c.from \/ run # c.from
       THEN Answer(c, "rejected")
       ELSE IF Cardinality(Owners(run)) >= Slots
       THEN Answer(c, "busy")
       ELSE Advance(c, [c EXCEPT !.at = "owner"]) /\ UNCHANGED held
    /\ UNCHANGED <<run, phase, driver, counter, typed, others, delivered, effects>>

(* The owner task, holding the input gate: with_current_runtime_input       *)
(* checks the identity again and enqueues under the projection lock.        *)
EnqueueInput(c) ==
    /\ c.kind = "input" /\ c.at = "owner"
    /\ \A o \in Owners(c.to) : o.at # "sent"
    /\ IF run = c.from /\ Takes(c.to)
       THEN Advance(c, [c EXCEPT !.at = "sent"]) /\ UNCHANGED held
       ELSE Answer(c, "rejected")
    /\ UNCHANGED <<run, phase, driver, counter, typed, others, delivered, effects>>

(* apply_runtime_size_without_waiting_for_persistence: the runtime is       *)
(* looked up by session id alone.                                           *)
SendResize(c) ==
    /\ c.kind = "resize" /\ c.at = "spawned"
    /\ IF Takes(run)
       THEN Advance(c, [c EXCEPT !.at = "sent", !.to = run]) /\ UNCHANGED held
       ELSE Answer(c, "rejected")
    /\ UNCHANGED <<run, phase, driver, counter, typed, others, delivered, effects>>

(* Mutant: the kill goes to whatever is registered. *)
SendKill_anyRuntime(c) ==
    /\ c.kind = "kill" /\ c.at = "spawned"
    /\ Answer(c, "ok") /\ effects' = effects \cup {<<"kill", c.from, run>>}
    /\ UNCHANGED <<run, phase, driver, counter, typed, others, delivered>>

(* send_runtime_kill with the identity of the socket's claim. *)
SendKill(c) ==
    /\ c.kind = "kill" /\ c.at = "spawned"
    /\ IF run = c.from
       THEN Answer(c, "ok") /\ effects' = effects \cup {<<"kill", c.from, run>>}
       ELSE Answer(c, "rejected") /\ UNCHANGED effects
    /\ UNCHANGED <<run, phase, driver, counter, typed, others, delivered>>

(* The driver takes a command from its control channel: it writes or        *)
(* resizes the PTY and accepts, and the write or ioctl may fail.            *)
DriverTakes(c) ==
    /\ c.at = "sent" /\ driver[c.to] = "up"
    /\ \/ /\ Answer(c, "ok")
          /\ effects' = effects \cup {<<c.kind, c.from, c.to>>}
          /\ delivered' = [delivered EXCEPT ![c.sock] = @ \o c.data]
       \/ Answer(c, "rejected") /\ UNCHANGED <<effects, delivered>>
    /\ UNCHANGED <<run, phase, driver, counter, typed, others>>

(* Commands left in the control channel when it is closed are rejected. *)
DriverRejects(c) ==
    /\ c.at = "sent" /\ ~Takes(c.to)
    /\ Answer(c, "rejected")
    /\ UNCHANGED <<run, phase, driver, counter, typed, others, delivered, effects>>

-----------------------------------------------------------------------------
(* The runtime underneath. *)

(* The driver loop starts; running is published unless the session is       *)
(* already being deleted.                                                   *)
DriverStarts ==
    /\ driver[run] = "starting"
    /\ driver' = [driver EXCEPT ![run] = "up"]
    /\ phase' = IF phase = "creating" THEN "active" ELSE phase
    /\ UNCHANGED <<run, counter, held, sock, detached, typed, others, delivered, effects>>

(* Startup fails: the control receiver is dropped and the session ends      *)
(* without a driver, so nothing clears the claim and no event is sent.      *)
StartupFails ==
    /\ driver[run] = "starting"
    /\ driver' = [driver EXCEPT ![run] = "failed"]
    /\ phase' = "ending"
    /\ UNCHANGED <<run, counter, held, sock, detached, typed, others, delivered, effects>>

(* delete_session moves the handle to ending ahead of the exit. *)
DeleteBegins ==
    /\ phase \in {"creating", "active"}
    /\ phase' = "ending"
    /\ UNCHANGED <<run, driver, counter, held, sock, detached, typed, others,
                   delivered, effects>>

(* The driver observes the kill or the exit of the child: resize_closed is  *)
(* set, the control channel is closed.                                      *)
ExitObserved ==
    /\ driver[run] = "up"
    /\ driver' = [driver EXCEPT ![run] = "closed"]
    /\ UNCHANGED <<run, phase, counter, held, sock, detached, typed, others,
                   delivered, effects>>

(* handle_runtime_exit, the status transition. *)
ExitTransition ==
    /\ driver[run] = "closed" /\ phase \in {"creating", "active"}
    /\ phase' = "ending"
    /\ UNCHANGED <<run, driver, counter, held, sock, detached, typed, others,
                   delivered, effects>>

(* handle_runtime_exit, the rest: the claim is cleared and the finalizer    *)
(* scheduled.                                                               *)
ExitDetach ==
    /\ driver[run] = "closed" /\ phase = "ending"
    /\ driver' = [driver EXCEPT ![run] = "detached"]
    /\ held' = 0
    /\ UNCHANGED <<run, phase, counter, sock, detached, typed, others,
                   delivered, effects>>

(* Mutant: the sockets are told only while the handle is still ending. *)
ExitEvent_whileEnding(r) ==
    /\ driver[r] = "detached" /\ r = run /\ phase = "ending"
    /\ driver' = [driver EXCEPT ![r] = "done"]
    /\ UNCHANGED <<run, phase, counter, held, sock, detached, typed, others,
                   delivered, effects>>

(* The driver sends its last event and ends.  The finalizer is not waited   *)
(* for, and may be ahead.                                                   *)
ExitEvent(r) ==
    /\ driver[r] = "detached"
    /\ driver' = [driver EXCEPT ![r] = "done"]
    /\ UNCHANGED <<run, phase, counter, held, sock, detached, typed, others,
                   delivered, effects>>

(* complete_session_ending *)
Finalize ==
    /\ phase = "ending" /\ driver[run] \in {"detached", "done", "failed"}
    /\ phase' = "ended"
    /\ UNCHANGED <<run, driver, counter, held, sock, detached, typed, others,
                   delivered, effects>>

(* A resume registers a new runtime over an ended one that no terminal is   *)
(* attached to (resume_handle_conflicts).                                   *)
Resume ==
    /\ phase = "ended" /\ held = 0 /\ run < MaxRun
    /\ run' = run + 1
    /\ phase' = "creating"
    /\ driver' = [driver EXCEPT ![run + 1] = "starting"]
    /\ counter' = 0 /\ held' = 0
    /\ UNCHANGED <<sock, detached, typed, others, delivered, effects>>

-----------------------------------------------------------------------------
SocketStep(s) ==
    \/ Claim(s) \/ ReplaySent(s) \/ ReplayFails(s)
    \/ SocketCloses(s) \/ RuntimeEventEnds(s)
    \/ ReceiveInput(s) \/ \E a \in {Resize, Kill} : ReceiveOther(s, a)

CommandStep(c) ==
    \/ AdmitInput(c) \/ EnqueueInput(c) \/ SendResize(c) \/ SendKill(c)
    \/ DriverTakes(c) \/ DriverRejects(c)

RuntimeStep ==
    \/ DriverStarts \/ StartupFails \/ DeleteBegins \/ ExitObserved
    \/ ExitTransition \/ ExitDetach \/ (\E r \in Runs : ExitEvent(r))
    \/ Finalize \/ Resume

Next ==
    \/ \E s \in Sockets : SocketStep(s)
    \/ \E c \in InFlight : CommandStep(c)
    \/ RuntimeStep

Spec == Init /\ [][Next]_vars

(* The driver keeps running once it has seen the exit, and a connection     *)
(* that can be sent to is served.                                           *)
Fairness ==
    /\ WF_vars(ExitTransition) /\ WF_vars(ExitDetach)
    /\ \A r \in Runs : WF_vars(ExitEvent(r))
    /\ \A s \in Sockets : WF_vars(ReplaySent(s)) /\ WF_vars(RuntimeEventEnds(s))

FairSpec == Spec /\ Fairness

-----------------------------------------------------------------------------
Items == [kind : {"input", "resize"}, data : Seq(Inputs)]
Queues == [items : Seq(Items), bytes : 0 .. QueueCap, kill : {"no", "yes"}]
Commands == [at : {"none", "spawned", "owner", "sent"},
             kind : {"input", "resize", "kill", "noop"}, data : Seq(Inputs),
             from : 0 .. MaxRun, to : 0 .. MaxRun, sock : Sockets \cup {0}]

(* Every variable stays in its range: in particular the byte count of a     *)
(* queue stays between zero and the cap, and a token never exceeds the      *)
(* counter of its runtime (claim_attachment, PendingActionQueue).           *)
TypeOK ==
    /\ run \in Runs /\ phase \in {"creating", "active", "ending", "ended"}
    /\ driver \in [Runs -> {"none", "starting", "up", "closed", "detached",
                            "done", "failed"}]
    /\ counter \in Nat /\ held \in 0 .. counter
    /\ sock \in [Sockets -> [at : {"new", "replay", "open", "closed"},
                             run : 0 .. MaxRun, token : Nat, cmd : Commands,
                             queue : Queues, draining : {"no", "yes"}]]
    /\ detached \in SUBSET Commands
    /\ typed \in 0 .. MaxInput /\ others \in 0 .. MaxOther
    /\ delivered \in [Sockets -> Seq(Inputs)]
    /\ effects \in SUBSET ({"input", "resize", "kill"} \X Runs \X Runs)

(* A claim that is held belongs to a socket that is still there: a failed   *)
(* replay, a lost connection, a rejected command and the end of the         *)
(* runtime all give the claim back, so a session cannot become              *)
(* unattachable (release_attachment on every exit of                        *)
(* handle_session_terminal).                                                *)
HeldBySocket ==
    held # 0 =>
        \E s \in Sockets : Attached(s) /\ sock[s].run = run /\ sock[s].token = held

(* The places of the bytes in a queue: item and offset. *)
Queued(q) == UNION {{i} \X DOMAIN q.items[i].data : i \in DOMAIN q.items}

(* The byte count of the queue is the number of bytes queued, through       *)
(* coalescing, dispatch and the discard after a rejection                   *)
(* (PendingActionQueue.input_bytes): a drift would make a healthy terminal  *)
(* drop input for ever, or let the queue grow without bound.                *)
QueueIsCounted ==
    \A s \in Sockets : sock[s].queue.bytes = Cardinality(Queued(sock[s].queue))

(* What one socket's client types reaches the PTY in the order it was       *)
(* typed, whatever was queued, coalesced, refused or left in flight when    *)
(* the socket went away (handle_session_terminal keeps one command in       *)
(* flight and queues the rest).                                             *)
InputInOrder ==
    \A s \in Sockets : \A i, j \in DOMAIN delivered[s] :
        i < j => delivered[s][i] < delivered[s][j]

(* Input and kill act only on the runtime the socket attached to, never on  *)
(* one that replaced it while the command was queued or in flight           *)
(* (matches_identity in spawn_command_future, submit_input_with_admission,  *)
(* with_current_runtime_input and send_runtime_kill).                       *)
CommandsStayHome ==
    \A e \in effects : e[1] \in {"input", "kill"} => e[2] = e[3]

(* A session has at most one interactive attachment: two sockets are never  *)
(* both attached to the runtime that is registered, while that runtime      *)
(* still serves terminals (claim_attachment refuses the second).            *)
SingleAttachment ==
    \A s, t \in Sockets :
        /\ Attached(s) /\ sock[s].run = run
        /\ Attached(t) /\ sock[t].run = run
        => s = t

(* Until the first resume, while only one runtime has handed out tokens,    *)
(* a claim, its release and the end of the runtime keep the attachment      *)
(* single, for any number of sockets.                                       *)
SingleAttachmentOfRun == run = 1 => SingleAttachment

(* When the driver of a runtime has seen its child exit, every socket       *)
(* attached to it is closed in the end, even when the session is finalized  *)
(* and resumed before the last event is sent (the Ended or Error event      *)
(* after handle_runtime_exit).                                              *)
ExitReachesSockets ==
    \A s \in Sockets :
        (Attached(s) /\ driver[sock[s].run] = "closed") ~> sock[s].at = "closed"
=============================================================================
