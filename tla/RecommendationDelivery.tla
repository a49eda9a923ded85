----------------------- MODULE RecommendationDelivery -----------------------
(***************************************************************************)
(* One recommendation on its way into a terminal: a user accepts it for a  *)
(* session, a detached task writes its prompt into the session's PTY and   *)
(* then settles the reservation (session_application.rs, its               *)
(* recommendation_delivery.rs, taskmaster/store.rs,                        *)
(* runtime/terminal_runtime.rs).  Meanwhile other requests, orphan         *)
(* recovery, session ends, workspace switches and a crash touch the same   *)
(* record.                                                                 *)
(*                                                                         *)
(* Every store operation is atomic (RecommendationContract) and runs under *)
(* the workspace lock.  While another owner has the store it answers Busy: *)
(* a settlement waits and retries, any other request is refused.           *)
(***************************************************************************)
EXTENDS Naturals, FiniteSets

CONSTANTS
    Sessions,
    Accepts,     \* accept requests; each one that is admitted starts a delivery
    None,
    MaxRev,      \* bound: revisions of the completion packet
    MaxGen,      \* bound: runtimes per session
    MaxOpens     \* bound: times the workspace is adopted

ASSUME DeliveryAssumption ==
    /\ None \notin Sessions \cup Accepts
    /\ MaxRev \in Nat /\ MaxGen \in Nat /\ MaxOpens \in Nat

VARIABLES
    rec,        \* the stored recommendation
    dl,         \* the delivery of each accept request
    pending,    \* PENDING_RECOMMENDATION_DELIVERIES holds the recommendation
    run,        \* the runtime of each session
    ws,         \* the open workspace: which adoption of this path, or not open
    snap,       \* live sessions a manual analysis has read, or None
    incidents   \* what has happened that later states do not show

vars == <<rec, dl, pending, run, ws, snap, incidents>>

Statuses == {"absent", "proposed", "executing", "accepted", "completed",
             "dismissed", "superseded"}

(* rev 0 is a recommendation without packet.  `by` is the accept that      *)
(* reserved it, the idempotency key of a packet's approval.                *)
Records == [status: Statuses, target: Sessions \cup {None}, rev: 0..MaxRev,
            by: Accepts \cup {None}, redacted: BOOLEAN]

Fresh == [status |-> "proposed", target |-> None, rev |-> 0, by |-> None, redacted |-> FALSE]

(* io: a write to the store failed.  deleted: the record was.  replaced:   *)
(* its packet was, under a delivery.  stale: recovery went by sessions it  *)
(* had read earlier.  unguarded: a delivery dropped the guard of another.  *)
(* overlap: an approval was reserved while another was being delivered.    *)
Incidents == {"io", "deleted", "replaced", "stale", "unguarded", "overlap"}

Phases == {"idle", "reserved", "sent", "written", "failed", "settled", "done"}
InFlight == {"reserved", "sent", "written", "failed"}
Holding == InFlight \cup {"settled"}    \* the RecommendationDeliveryGuard lives

Deliveries == [pc: Phases, session: Sessions \cup {None}, gen: 0..MaxGen, rev: 0..MaxRev,
               ws: 0..MaxOpens, prompted: BOOLEAN]

NoDelivery == [pc |-> "idle", session |-> None, gen |-> 0, rev |-> 0, ws |-> 0,
               prompted |-> FALSE]

(* A runtime whose PTY is gone is "exiting" until the end is published.    *)
Runtimes == [state: {"alive", "exiting", "ended"}, gen: 0..MaxGen]

Live == {s \in Sessions : run[s].state # "ended"}    \* has_live_runtime
Current(d) == run[dl[d].session].gen = dl[d].gen     \* matches_identity
Matches(d) == ws.open /\ ws.adoption = dl[d].ws      \* RecommendationDeliveryWorkspace::matches
SomeInFlight == \E d \in Accepts : dl[d].pc \in InFlight

Init ==
    /\ rec = Fresh
    /\ dl = [d \in Accepts |-> NoDelivery]
    /\ pending = FALSE
    /\ run = [s \in Sessions |-> [state |-> "ended", gen |-> 0]]
    /\ ws = [open |-> TRUE, adoption |-> 0]
    /\ snap = None /\ incidents = {}

Status(s) == rec' = [rec EXCEPT !.status = s]

(* Mutant: the target stays when the recommendation is proposed again.     *)
Reopened_targeted == [rec EXCEPT !.status = "proposed", !.by = None]

(* Back to the user, for a new approval.                                   *)
Reopened == [rec EXCEPT !.status = "proposed", !.target = None, !.by = None]

Goto(d, l) == dl' = [dl EXCEPT ![d].pc = l]

-----------------------------------------------------------------------------
(* accept_recommendation_with_packet: checks, reservation and guard share  *)
(* one acquisition of the workspace lock.                                  *)

(* Mutant: the reservation does not look at the status.                    *)
Accept_unreserved(d, s) ==
    /\ ws.open /\ dl[d].pc = "idle"
    /\ rec.status \in {"proposed", "executing"} /\ ~rec.redacted
    /\ run[s].state # "ended"
    /\ rec' = [rec EXCEPT !.status = "executing", !.target = s, !.by = d]
    /\ dl' = [dl EXCEPT ![d] = [pc |-> "reserved", session |-> s, gen |-> run[s].gen,
                                rev |-> rec.rev, ws |-> ws.adoption, prompted |-> FALSE]]
    /\ pending' = TRUE
    /\ incidents' = incidents \cup (IF SomeInFlight THEN {"overlap"} ELSE {})
    /\ UNCHANGED <<run, ws, snap>>

Accept(d, s) ==
    /\ ws.open /\ dl[d].pc = "idle"
    /\ rec.status = "proposed" /\ ~rec.redacted
    /\ run[s].state # "ended"
    /\ rec' = [rec EXCEPT !.status = "executing", !.target = s, !.by = d]
    /\ dl' = [dl EXCEPT ![d] = [pc |-> "reserved", session |-> s, gen |-> run[s].gen,
                                rev |-> rec.rev, ws |-> ws.adoption, prompted |-> FALSE]]
    /\ pending' = TRUE
    /\ incidents' = incidents \cup (IF SomeInFlight THEN {"overlap"} ELSE {})
    /\ UNCHANGED <<run, ws, snap>>

(* No input slot, a closed channel, a store that is busy, or an admission  *)
(* that finds the record no longer executing.                              *)
Refuse(d) ==
    /\ dl[d].pc = "reserved"
    /\ Goto(d, "failed")
    /\ UNCHANGED <<rec, pending, run, ws, snap, incidents>>

(* The admission callback: authority is checked and the command enqueued   *)
(* under the projection and workspace locks.                               *)
Admit(d) ==
    /\ dl[d].pc = "reserved" /\ Current(d)
    /\ Matches(d)
    /\ rec.status = "executing" /\ ~rec.redacted
    /\ Goto(d, "sent")
    /\ UNCHANGED <<rec, pending, run, ws, snap, incidents>>

(* PendingPtyWrite: Ok once every byte is written.                         *)
WritePrompt(d) ==
    /\ dl[d].pc = "sent" /\ Current(d) /\ run[dl[d].session].state = "alive"
    /\ dl' = [dl EXCEPT ![d].pc = "written", ![d].prompted = TRUE]
    /\ UNCHANGED <<rec, pending, run, ws, snap, incidents>>

RejectPrompt(d) ==
    /\ dl[d].pc = "sent"
    /\ Goto(d, "failed")
    /\ UNCHANGED <<rec, pending, run, ws, snap, incidents>>

-----------------------------------------------------------------------------
(* settle_recommendation_delivery.                                         *)

CompleteExecution == IF rec.status = "executing" THEN Status("accepted") ELSE UNCHANGED rec

(* Mutant: like the other mutations it refuses a redacted recommendation.  *)
CancelExecution_mutable ==
    IF rec.status # "executing" \/ rec.redacted THEN UNCHANGED rec ELSE rec' = Reopened

CancelExecution ==
    IF rec.status # "executing" THEN UNCHANGED rec
    ELSE rec' = [Reopened EXCEPT !.status = IF rec.redacted THEN "superseded" ELSE "proposed"]

(* Mutant: the outcome of the write is not looked at.                      *)
Settle_blind(d) ==
    /\ dl[d].pc \in {"written", "failed"} /\ Matches(d)
    /\ CompleteExecution
    /\ Goto(d, "settled")
    /\ UNCHANGED <<pending, run, ws, snap, incidents>>

Settle(d) ==
    /\ dl[d].pc \in {"written", "failed"} /\ Matches(d)
    /\ IF dl[d].pc = "written" THEN CompleteExecution ELSE CancelExecution
    /\ Goto(d, "settled")
    /\ UNCHANGED <<pending, run, ws, snap, incidents>>

(* The store's write fails: only contention is retried.                    *)
SettleFails(d) ==
    /\ dl[d].pc \in {"written", "failed"} /\ Matches(d)
    /\ Goto(d, "settled")
    /\ incidents' = incidents \cup {"io"}
    /\ UNCHANGED <<rec, pending, run, ws, snap>>

(* A redacted reservation is cancelled by two writes; the second fails.    *)
CancelInterrupted(d) ==
    /\ dl[d].pc = "failed" /\ Matches(d)
    /\ rec.status = "executing" /\ rec.redacted /\ rec' = Reopened
    /\ Goto(d, "settled")
    /\ incidents' = incidents \cup {"io"}
    /\ UNCHANGED <<pending, run, ws, snap>>

(* Another workspace, or another adoption of this one, is open.            *)
Abandon(d) ==
    /\ dl[d].pc \in {"written", "failed"} /\ ~Matches(d)
    /\ Goto(d, "settled")
    /\ UNCHANGED <<rec, pending, run, ws, snap, incidents>>

(* Drop for RecommendationDeliveryGuard: the key leaves a set.             *)
Release(d) ==
    /\ dl[d].pc = "settled"
    /\ Goto(d, "done")
    /\ pending' = FALSE
    /\ incidents' = incidents \cup (IF SomeInFlight THEN {"unguarded"} ELSE {})
    /\ UNCHANGED <<rec, run, ws, snap>>

-----------------------------------------------------------------------------
(* Other requests for the record.                                          *)

(* dismiss_recommendation.                                                 *)
Dismiss ==
    /\ ws.open /\ ~pending /\ ~rec.redacted
    /\ rec.status \in {"proposed", "executing"}
    /\ Status("dismissed")
    /\ UNCHANGED <<dl, pending, run, ws, snap, incidents>>

(* report_completion_packet: a first packet, or the next revision, which   *)
(* takes the recommendation back from whoever is executing it.             *)
AttachPacket ==
    /\ ws.open /\ ~rec.redacted
    /\ rec.status = "proposed" /\ rec.rev = 0 /\ rec.rev < MaxRev
    /\ rec' = [rec EXCEPT !.rev = 1]
    /\ UNCHANGED <<dl, pending, run, ws, snap, incidents>>

ReplaceCompletionPacket ==
    /\ ws.open /\ ~rec.redacted
    /\ rec.status \in {"proposed", "executing", "accepted"} /\ rec.rev \in 1..(MaxRev - 1)
    /\ rec' = [Reopened EXCEPT !.rev = rec.rev + 1]
    /\ incidents' = incidents \cup (IF SomeInFlight THEN {"replaced"} ELSE {})
    /\ UNCHANGED <<dl, pending, run, ws, snap>>

(* Evidence access narrowed, or the assessment went stale (project_workspace, *)
(* fence_recommendation).                                                  *)
Fence ==
    /\ ws.open /\ rec.status \in {"proposed", "executing", "accepted"}
    /\ rec' = [rec EXCEPT !.redacted = TRUE,
                          !.status = IF @ = "proposed" THEN "superseded" ELSE @]
    /\ UNCHANGED <<dl, pending, run, ws, snap, incidents>>

(* delete_referencing_session: a session it has evidence from is deleted.  *)
DeleteRecord ==
    /\ ws.open /\ rec.status # "absent"
    /\ rec' = [Fresh EXCEPT !.status = "absent"]
    /\ incidents' = incidents \cup {"deleted"}
    /\ UNCHANGED <<dl, pending, run, ws, snap>>

(* New evidence makes the same family again.                               *)
RefreshWorkflowRecommendations ==
    /\ ws.open /\ rec.status = "absent"
    /\ rec' = Fresh
    /\ UNCHANGED <<dl, pending, run, ws, snap, incidents>>

(* complete_recommendation_with_packet, reported by session s with the     *)
(* approval of d.  When its event cannot be appended the record is put     *)
(* back, which may fail too: the outcome is this step or none.             *)
Complete(s, d) ==
    /\ ws.open /\ rec.status = "accepted" /\ rec.target = s
    /\ rec.rev > 0 => rec.by = d
    /\ run[s].state # "ended"
    /\ Status("completed")
    /\ UNCHANGED <<dl, pending, run, ws, snap, incidents>>

-----------------------------------------------------------------------------
(* recover_orphaned_executions.                                            *)

Orphaned(live) ==
    /\ rec.status \in {"executing", "accepted"}
    /\ rec.target \notin live /\ ~pending

RecoverOrphanedExecutions(live) == IF Orphaned(live) THEN rec' = Reopened ELSE UNCHANGED rec

(* analyze_taskmaster reads the live sessions before it has the workspace. *)
ReadLive ==
    /\ snap = None /\ snap' = Live
    /\ UNCHANGED <<rec, dl, pending, run, ws, incidents>>

RecoverManual ==
    /\ snap # None /\ ws.open
    /\ RecoverOrphanedExecutions(snap)
    /\ snap' = None
    /\ incidents' = incidents \cup (IF Orphaned(snap) /\ rec.target \in Live THEN {"stale"} ELSE {})
    /\ UNCHANGED <<dl, pending, run, ws>>

(* The workspace is opened over itself and keeps its lease.                *)
ReopenWorkspace ==
    /\ ws.open
    /\ RecoverOrphanedExecutions(Live)
    /\ UNCHANGED <<dl, pending, run, ws, snap, incidents>>

LeaveWorkspace ==
    /\ ws.open /\ ws' = [ws EXCEPT !.open = FALSE]
    /\ UNCHANGED <<rec, dl, pending, run, snap, incidents>>

OpenWorkspace ==
    /\ ~ws.open /\ ws.adoption < MaxOpens
    /\ ws' = [open |-> TRUE, adoption |-> ws.adoption + 1]
    /\ RecoverOrphanedExecutions(Live)
    /\ UNCHANGED <<dl, pending, run, snap, incidents>>

(* The workspace is adopted although recovery returned an error.           *)
OpenUnrecovered ==
    /\ ~ws.open /\ ws.adoption < MaxOpens
    /\ ws' = [open |-> TRUE, adoption |-> ws.adoption + 1]
    /\ incidents' = incidents \cup {"io"}
    /\ UNCHANGED <<rec, dl, pending, run, snap>>

-----------------------------------------------------------------------------
(* Runtimes, and the process.                                              *)

StartRuntime(s) ==
    /\ ws.open /\ run[s].state = "ended" /\ run[s].gen < MaxGen
    /\ run' = [run EXCEPT ![s] = [state |-> "alive", gen |-> @.gen + 1]]
    /\ UNCHANGED <<rec, dl, pending, ws, snap, incidents>>

RuntimeEnds(s) ==
    /\ run[s].state # "ended"
    /\ run' = [run EXCEPT ![s].state = IF @ = "alive" THEN "exiting" ELSE "ended"]
    /\ UNCHANGED <<rec, dl, pending, ws, snap, incidents>>

Crash ==
    /\ dl' = [d \in Accepts |-> IF dl[d].pc \in Holding THEN [dl[d] EXCEPT !.pc = "done"]
                                ELSE dl[d]]
    /\ run' = [s \in Sessions |-> [run[s] EXCEPT !.state = "ended"]]
    /\ ws' = [ws EXCEPT !.open = FALSE]
    /\ pending' = FALSE /\ snap' = None
    /\ UNCHANGED <<rec, incidents>>

Deliver(d) ==
    \/ Refuse(d) \/ Admit(d) \/ WritePrompt(d) \/ RejectPrompt(d)
    \/ Settle(d) \/ SettleFails(d) \/ CancelInterrupted(d) \/ Abandon(d) \/ Release(d)

Next ==
    \/ \E d \in Accepts : Deliver(d) \/ (\E s \in Sessions : Accept(d, s) \/ Complete(s, d))
    \/ \E s \in Sessions : StartRuntime(s) \/ RuntimeEnds(s)
    \/ Dismiss \/ AttachPacket \/ ReplaceCompletionPacket \/ Fence
    \/ DeleteRecord \/ RefreshWorkflowRecommendations
    \/ ReadLive \/ RecoverManual \/ ReopenWorkspace \/ LeaveWorkspace
    \/ OpenWorkspace \/ OpenUnrecovered
    \/ Crash

Spec == Init /\ [][Next]_vars

-----------------------------------------------------------------------------
(* The record, the deliveries and the runtimes keep their types, and the   *)
(* record names a session exactly while one has it.                        *)
TypeOK ==
    /\ rec \in Records /\ dl \in [Accepts -> Deliveries]
    /\ pending \in BOOLEAN /\ run \in [Sessions -> Runtimes]
    /\ ws \in [open: BOOLEAN, adoption: 0..MaxOpens]
    /\ snap \in (SUBSET Sessions) \cup {None}
    /\ incidents \subseteq Incidents
    /\ rec.status \in {"executing", "accepted", "completed"} => rec.target # None
    /\ rec.status = "proposed" => rec.target = None

Orderly == incidents \cap {"deleted", "replaced", "unguarded"} = {}

(* Two deliveries at once: the record was deleted or its packet replaced   *)
(* under the first, or an even earlier delivery dropped the guard of the   *)
(* first, and then the recommendation was offered and approved again.      *)
Overlapped == "overlap" \in incidents /\ ~Orderly

(* A recommendation is accepted only once some approval's prompt was       *)
(* written to the last byte.  Until two deliveries overlap, that approval  *)
(* is the one the record names, and the terminal that of the session it    *)
(* names; complete_execution does not ask whose reservation it completes.  *)
AcceptedWasDelivered ==
    rec.status \in {"accepted", "completed"} =>
        \E d \in Accepts :
            /\ dl[d].prompted
            /\ ~Overlapped => d = rec.by /\ dl[d].session = rec.target

(* A reservation is held by a delivery that will settle it, unless its     *)
(* workspace was left meanwhile or a write to the store failed             *)
(* (cancel_execution: "rather than being stuck").                          *)
ReservationIsHeld ==
    ws.open /\ rec.status = "executing" /\ "io" \notin incidents =>
        rec.by # None /\ (dl[rec.by].pc \in InFlight \/ dl[rec.by].ws # ws.adoption)

(* No running terminal gets the prompt of one revision twice, however many *)
(* requests accept it, as long as the record is not deleted and made anew, *)
(* recovered by a stale list of live sessions, or delivered by two at once *)
(* (begin_execution).                                                      *)
PromptedOnce ==
    ~Overlapped /\ incidents \cap {"stale", "deleted"} = {} =>
        \A d, e \in Accepts :
            d # e /\ dl[d].prompted /\ dl[e].prompted /\ dl[d].rev = dl[e].rev
                => dl[d].session # dl[e].session \/ dl[d].gen # dl[e].gen
=============================================================================
