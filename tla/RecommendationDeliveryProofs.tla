-------------------- MODULE RecommendationDeliveryProofs --------------------
(***************************************************************************)
(* Proofs about RecommendationDelivery for any number of sessions, accept  *)
(* requests, packet revisions, runtimes and adoptions of the workspace.    *)
(***************************************************************************)
EXTENDS RecommendationDelivery, TLAPS

(* The inductive invariant.  A record that is taken names the accept that  *)
(* took it.                                                                *)
Linked ==
    /\ rec.status \in {"executing", "accepted", "completed"} =>
           rec.by \in Accepts /\ dl[rec.by].session = rec.target
    /\ rec.status = "absent" => "deleted" \in incidents

(* What a delivery remembers was true of the world when it started.        *)
Remembered ==
    \A d \in Accepts :
        /\ dl[d].pc # "idle" => /\ dl[d].session \in Sessions
                                /\ dl[d].gen <= run[dl[d].session].gen
        /\ dl[d].ws <= ws.adoption
        /\ dl[d].prompted => dl[d].pc \in {"written", "settled", "done"}
        /\ dl[d].pc = "written" => dl[d].prompted

(* Until the record is reset or a guard is lost, the record is out only to *)
(* the one delivery in flight; so an overlap has one of these causes.      *)
Owned ==
    /\ Orderly =>
           /\ SomeInFlight => pending
           /\ \A d \in Accepts :
                  dl[d].pc \in InFlight => rec.status = "executing" /\ rec.by = d
    /\ "overlap" \in incidents => ~Orderly

(* Until deliveries overlap, one is in flight and it settles no            *)
(* reservation but its own.                                                *)
Alone ==
    "overlap" \notin incidents =>
        \A d \in Accepts : dl[d].pc \in InFlight =>
            /\ \A e \in Accepts : dl[e].pc \in InFlight => e = d
            /\ rec.status = "executing" => rec.by = d

(* A record that lives on only ever gets later revisions.                  *)
Revised == "deleted" \notin incidents => \A d \in Accepts : dl[d].rev <= rec.rev

(* A running terminal that has the prompt of this revision, or may still   *)
(* get it, keeps the recommendation from being offered again.              *)
Calm == ~Overlapped /\ incidents \cap {"stale", "deleted"} = {}

Addressed(d) == dl[d].prompted \/ dl[d].pc \in {"reserved", "sent"}

Spoken(d) ==
    /\ Addressed(d) /\ Current(d)
    /\ run[dl[d].session].state # "ended" /\ dl[d].rev = rec.rev

Kept ==
    Calm => \A d \in Accepts : Spoken(d) =>
                /\ rec.status # "proposed"
                /\ rec.status \in {"executing", "accepted"} => rec.by = d

(* No terminal is addressed twice with one revision.                       *)
AddressedOnce ==
    Calm => \A d, e \in Accepts :
                d # e /\ Addressed(d) /\ Addressed(e) /\ dl[d].rev = dl[e].rev
                    => dl[d].session # dl[e].session \/ dl[d].gen # dl[e].gen

Inv ==
    /\ TypeOK /\ Linked /\ Remembered /\ Owned /\ Alone /\ Revised /\ Kept
    /\ AddressedOnce /\ AcceptedWasDelivered /\ ReservationIsHeld

-----------------------------------------------------------------------------
(* The facts about the constants that a proof needs.                       *)
LEMMA Constants ==
    /\ None \notin Sessions /\ None \notin Accepts
    /\ MaxRev \in Nat /\ MaxGen \in Nat /\ MaxOpens \in Nat
BY DeliveryAssumption

LEMMA InitInv == Init => Inv
<1> SUFFICES ASSUME Init PROVE Inv
  OBVIOUS
<1>1. /\ rec = Fresh /\ incidents = {} /\ ws.adoption = 0
      /\ \A d \in Accepts : dl[d] = NoDelivery
  BY DEF Init
<1>2. NoDelivery \in Deliveries /\ Fresh \in Records
  BY Constants DEF NoDelivery, Deliveries, Phases, Fresh, Records, Statuses
<1>3. TypeOK
  <2>1. run \in [Sessions -> Runtimes]
    BY Constants DEF Init, Runtimes
  <2>2. ws \in [open: BOOLEAN, adoption: 0..MaxOpens] /\ dl \in [Accepts -> Deliveries]
    BY <1>2, Constants DEF Init
  <2>3. rec.status = "proposed" /\ rec.target = None /\ rec \in Records
    BY <1>1, <1>2 DEF Fresh
  <2>4. pending \in BOOLEAN /\ snap = None /\ incidents \subseteq Incidents
    BY DEF Init
  <2>5. QED
    BY <2>1, <2>2, <2>3, <2>4 DEF TypeOK
<1>4. Linked /\ Remembered
  BY <1>1 DEF Linked, Remembered, Fresh, NoDelivery
<1>5. Owned /\ Alone /\ Revised /\ Kept
  BY <1>1 DEF Owned, Alone, Revised, Kept, Spoken, Addressed, SomeInFlight, InFlight,
              Fresh, NoDelivery
<1>6. AddressedOnce /\ AcceptedWasDelivered /\ ReservationIsHeld
  BY <1>1 DEF AddressedOnce, Addressed, AcceptedWasDelivered, ReservationIsHeld,
              Fresh, NoDelivery
<1>7. QED
  BY <1>3, <1>4, <1>5, <1>6 DEF Inv

(* What has happened stays so.                                             *)
LEMMA IncidentsStay ==
    ASSUME incidents \subseteq incidents'
    PROVE  /\ Orderly' => Orderly
           /\ Overlapped => Overlapped'
           /\ Calm' => Calm
           /\ "overlap" \notin incidents' => "overlap" \notin incidents
           /\ "deleted" \notin incidents' => "deleted" \notin incidents
BY DEF Orderly, Overlapped, Calm

-----------------------------------------------------------------------------
(* A delivery moves on: only its program point changes.                    *)
Moved(d, l) ==
    \A e \in Accepts :
        /\ dl'[e].pc = (IF e = d THEN l ELSE dl[e].pc)
        /\ dl'[e].session = dl[e].session /\ dl'[e].gen = dl[e].gen
        /\ dl'[e].rev = dl[e].rev /\ dl'[e].ws = dl[e].ws
        /\ dl'[e].prompted = dl[e].prompted

LEMMA GotoMoves ==
    ASSUME NEW d \in Accepts, NEW l \in Phases, dl \in [Accepts -> Deliveries], Goto(d, l)
    PROVE  dl' \in [Accepts -> Deliveries] /\ Moved(d, l)
<1> DEFINE t == [dl[d] EXCEPT !.pc = l]
<1>1. dl[d] \in Deliveries
  OBVIOUS
<1>2. /\ t \in Deliveries /\ t.pc = l /\ t.session = dl[d].session /\ t.gen = dl[d].gen
      /\ t.rev = dl[d].rev /\ t.ws = dl[d].ws /\ t.prompted = dl[d].prompted
  BY <1>1 DEF Deliveries
<1>3. dl' = [dl EXCEPT ![d] = t]
  BY DEF Goto
<1> HIDE DEF t
<1>4. QED
  BY <1>2, <1>3 DEF Moved

(* The control steps that leave the record, the guard and the world alone. *)
LEMMA MoveStep ==
    ASSUME Inv, NEW d \in Accepts, NEW l \in Phases, Goto(d, l),
           UNCHANGED <<rec, run, ws, snap>>, pending' \in BOOLEAN,
           incidents \subseteq incidents', incidents' \subseteq Incidents,
           dl[d].prompted => l \in {"written", "settled", "done"},
           l = "written" => dl[d].prompted,
           l # "idle", dl[d].pc # "idle",
           l \in InFlight => dl[d].pc \in InFlight,
           l \in {"reserved", "sent"} => dl[d].pc \in {"reserved", "sent"},
           "overlap" \in incidents' => "overlap" \in incidents,
           Orderly' /\ SomeInFlight' => pending',
           ReservationIsHeld'
    PROVE  Inv'
<1>1. dl' \in [Accepts -> Deliveries] /\ Moved(d, l)
  BY GotoMoves DEF Inv, TypeOK
<1>2. TypeOK'
  BY <1>1 DEF Inv, TypeOK
<1>3. Linked'
  BY <1>1 DEF Inv, Linked, Moved
<1>4. Remembered'
  BY <1>1 DEF Inv, Remembered, Moved
<1>5. /\ Orderly' => Orderly
      /\ Overlapped => Overlapped'
      /\ Calm' => Calm
      /\ "overlap" \notin incidents' => "overlap" \notin incidents
      /\ "deleted" \notin incidents' => "deleted" \notin incidents
  BY IncidentsStay
<1>6. \A e \in Accepts : /\ dl'[e].pc \in InFlight => dl[e].pc \in InFlight
                         /\ Addressed(e)' => Addressed(e)
  BY <1>1 DEF Moved, Addressed
<1>7. Owned' /\ Alone' /\ Revised'
  BY <1>1, <1>5, <1>6 DEF Inv, Owned, Alone, Revised, Moved
<1>8. Kept' /\ AddressedOnce'
  BY <1>1, <1>5, <1>6 DEF Inv, Kept, Spoken, Current, AddressedOnce, Moved
<1>9. AcceptedWasDelivered'
  BY <1>1, <1>5 DEF Inv, AcceptedWasDelivered, Moved
<1>10. QED
  BY <1>2, <1>3, <1>4, <1>7, <1>8, <1>9 DEF Inv

(* Before the prompt is written a step only moves the delivery along.      *)
LEMMA EnqueueStep ==
    ASSUME Inv, NEW d \in Accepts, Refuse(d) \/ Admit(d) \/ RejectPrompt(d)
    PROVE  Inv'
<1>1. PICK m \in {"sent", "failed"} : Goto(d, m)
  BY DEF Refuse, Admit, RejectPrompt
<1>2. /\ dl[d].pc \in {"reserved", "sent"}
      /\ UNCHANGED <<rec, pending, run, ws, snap, incidents>>
  BY DEF Refuse, Admit, RejectPrompt
<1>3. m \in Phases /\ m \in InFlight /\ dl[d].pc \in InFlight /\ ~dl[d].prompted
  BY <1>2 DEF Phases, InFlight, Inv, Remembered
<1>4. Moved(d, m)
  BY <1>1, <1>3, GotoMoves DEF Inv, TypeOK
<1>5. SomeInFlight /\ (Orderly' => Orderly)
  BY <1>2, <1>3 DEF SomeInFlight, Orderly
<1>6. ReservationIsHeld'
  BY <1>2, <1>3, <1>4 DEF Inv, TypeOK, Records, ReservationIsHeld, Moved
<1>7. Orderly' => pending'
  BY <1>2, <1>5 DEF Inv, Owned
<1>8. QED
  BY <1>1, <1>2, <1>3, <1>6, <1>7, MoveStep DEF Inv, TypeOK

(* The settlement that changes nothing.                                    *)
LEMMA UnsettledStep ==
    ASSUME Inv, NEW d \in Accepts, SettleFails(d) \/ Abandon(d)
    PROVE  Inv'
<1>1. /\ dl[d].pc \in {"written", "failed"} /\ Goto(d, "settled")
      /\ UNCHANGED <<rec, pending, run, ws, snap>>
      /\ incidents \subseteq incidents' /\ incidents' \subseteq incidents \cup {"io"}
      /\ "io" \in incidents' \/ ~Matches(d)
  BY DEF SettleFails, Abandon
<1>2. "settled" \in Phases /\ "settled" \notin InFlight /\ dl[d].pc \in InFlight
  BY <1>1 DEF Phases, InFlight
<1>3. Moved(d, "settled")
  BY <1>1, <1>2, GotoMoves DEF Inv, TypeOK
<1>4. ReservationIsHeld'
  BY <1>1, <1>3 DEF Inv, TypeOK, Records, ReservationIsHeld, Moved, Matches
<1>5. Orderly' => pending'
  BY <1>1, <1>2 DEF Inv, Owned, Orderly, SomeInFlight
<1>6. pending' \in BOOLEAN /\ incidents' \subseteq Incidents
  BY <1>1 DEF Inv, TypeOK, Incidents
<1>7. QED
  BY <1>1, <1>2, <1>4, <1>5, <1>6, MoveStep

LEMMA ReleaseStep ==
    ASSUME Inv, NEW d \in Accepts, Release(d)
    PROVE  Inv'
<1>1. /\ dl[d].pc = "settled" /\ Goto(d, "done") /\ pending' = FALSE
      /\ UNCHANGED <<rec, run, ws, snap>>
      /\ incidents' = incidents \cup (IF SomeInFlight THEN {"unguarded"} ELSE {})
  BY DEF Release
<1>2. "done" \in Phases /\ "done" \notin InFlight /\ dl[d].pc \notin InFlight
  BY <1>1 DEF Phases, InFlight
<1>3. Moved(d, "done")
  BY <1>1, <1>2, GotoMoves DEF Inv, TypeOK
<1>4. ReservationIsHeld'
  BY <1>1, <1>2, <1>3 DEF Inv, TypeOK, Records, ReservationIsHeld, Moved
<1>5. SomeInFlight' => SomeInFlight
  BY <1>2, <1>3 DEF SomeInFlight, Moved
<1>6. Orderly' => ~SomeInFlight'
  BY <1>1, <1>5 DEF Orderly
<1>7. pending' \in BOOLEAN /\ incidents' \subseteq Incidents /\ incidents \subseteq incidents'
  BY <1>1 DEF Inv, TypeOK, Incidents
<1>8. QED
  BY <1>1, <1>2, <1>4, <1>6, <1>7, MoveStep

-----------------------------------------------------------------------------
LEMMA WriteStep ==
    ASSUME Inv, NEW d \in Accepts, WritePrompt(d)
    PROVE  Inv'
<1> DEFINE t == [dl[d] EXCEPT !.pc = "written", !.prompted = TRUE]
<1>1. /\ dl[d].pc = "sent" /\ Current(d) /\ run[dl[d].session].state = "alive"
      /\ UNCHANGED <<rec, pending, run, ws, snap, incidents>>
  BY DEF WritePrompt
<1>2. dl[d] \in Deliveries /\ dl' = [dl EXCEPT ![d] = t]
  BY DEF WritePrompt, Inv, TypeOK
<1>3. /\ t \in Deliveries /\ t.pc = "written" /\ t.session = dl[d].session
      /\ t.gen = dl[d].gen /\ t.rev = dl[d].rev /\ t.ws = dl[d].ws /\ t.prompted = TRUE
  BY <1>2 DEF Deliveries, Phases
<1> HIDE DEF t
<1>4. /\ dl' \in [Accepts -> Deliveries]
      /\ \A e \in Accepts : dl'[e] = IF e = d THEN t ELSE dl[e]
  BY <1>2, <1>3 DEF Inv, TypeOK
<1>5. TypeOK'
  BY <1>1, <1>4 DEF Inv, TypeOK
<1>6. Linked'
  BY <1>1, <1>3, <1>4 DEF Inv, Linked
<1>7. Remembered'
  BY <1>1, <1>3, <1>4 DEF Inv, Remembered
<1>8. /\ Orderly' = Orderly /\ Overlapped' = Overlapped /\ Calm' = Calm
      /\ dl[d].pc \in InFlight /\ t.pc \in InFlight
  BY <1>1, <1>3 DEF Orderly, Overlapped, Calm, InFlight
<1>9. \A e \in Accepts : /\ dl'[e].pc \in InFlight => dl[e].pc \in InFlight
                         /\ Addressed(e)' => Addressed(e)
                         /\ dl'[e].session = dl[e].session /\ dl'[e].gen = dl[e].gen
                         /\ dl'[e].rev = dl[e].rev
                         /\ dl[e].prompted => dl'[e].prompted
  BY <1>1, <1>3, <1>4, <1>8 DEF Addressed
<1>10. Owned' /\ Alone' /\ Revised'
  BY <1>1, <1>8, <1>9 DEF Inv, Owned, Alone, Revised, SomeInFlight
<1>11. Kept' /\ AddressedOnce'
  BY <1>1, <1>8, <1>9 DEF Inv, Kept, Spoken, Current, AddressedOnce
<1>12. AcceptedWasDelivered'
  BY <1>1, <1>8, <1>9 DEF Inv, AcceptedWasDelivered
<1>13. ReservationIsHeld'
  BY <1>1, <1>3, <1>4, <1>8 DEF Inv, TypeOK, Records, ReservationIsHeld
<1>14. QED
  BY <1>5, <1>6, <1>7, <1>10, <1>11, <1>12, <1>13 DEF Inv

-----------------------------------------------------------------------------
LEMMA AcceptStep ==
    ASSUME Inv, NEW d \in Accepts, NEW s \in Sessions, Accept(d, s)
    PROVE  Inv'
<1> DEFINE t == [pc |-> "reserved", session |-> s, gen |-> run[s].gen,
                 rev |-> rec.rev, ws |-> ws.adoption, prompted |-> FALSE]
<1>1. /\ rec.status = "proposed" /\ dl[d].pc = "idle" /\ pending' = TRUE
      /\ run[s].state # "ended" /\ UNCHANGED <<run, ws, snap>>
      /\ incidents' = incidents \cup (IF SomeInFlight THEN {"overlap"} ELSE {})
      /\ rec' = [rec EXCEPT !.status = "executing", !.target = s, !.by = d]
      /\ dl' = [dl EXCEPT ![d] = t]
  BY DEF Accept
<1>2. run[s].gen \in 0..MaxGen /\ rec.rev \in 0..MaxRev /\ ws.adoption \in 0..MaxOpens
  BY DEF Inv, TypeOK, Runtimes, Records
<1>3. t \in Deliveries
  BY <1>2 DEF Deliveries, Phases
<1>4. /\ t.pc = "reserved" /\ t.session = s /\ t.gen = run[s].gen /\ t.rev = rec.rev
      /\ t.ws = ws.adoption /\ ~t.prompted
  OBVIOUS
<1> HIDE DEF t
<1>5. /\ dl' \in [Accepts -> Deliveries]
      /\ \A e \in Accepts : dl'[e] = IF e = d THEN t ELSE dl[e]
  BY <1>1, <1>3 DEF Inv, TypeOK
<1>6. /\ rec' \in Records /\ rec'.status = "executing" /\ rec'.target = s
      /\ rec'.by = d /\ rec'.rev = rec.rev
  BY <1>1 DEF Inv, TypeOK, Records, Statuses
<1>7. TypeOK'
  BY <1>1, <1>5, <1>6, Constants DEF Inv, TypeOK, Incidents
<1>8. Linked'
  BY <1>4, <1>5, <1>6 DEF Linked
<1>9. Remembered'
  <2>1. run[s].gen <= run[s].gen /\ ws.adoption <= ws.adoption
    BY <1>2
  <2>2. QED
    BY <1>1, <1>4, <1>5, <2>1 DEF Inv, Remembered
<1>10. /\ Orderly' => Orderly
       /\ Calm' => Calm
       /\ "overlap" \notin incidents' => ~SomeInFlight
       /\ "deleted" \notin incidents' => "deleted" \notin incidents
       /\ t.pc \in InFlight
  BY <1>1, <1>4, IncidentsStay DEF InFlight
<1>11. Owned'
  <2>1. Orderly => ~SomeInFlight
    BY <1>1 DEF Inv, Owned, SomeInFlight
  <2>2. Orderly' => "overlap" \notin incidents'
    BY <1>1, <1>10, <2>1 DEF Inv, Owned
  <2>3. QED
    BY <1>1, <1>5, <1>6, <1>10, <2>1, <2>2 DEF Owned, SomeInFlight
<1>12. Alone' /\ Revised'
  BY <1>2, <1>4, <1>5, <1>6, <1>10 DEF Inv, Alone, Revised, SomeInFlight
<1>13. ASSUME Calm', NEW e \in Accepts PROVE ~Spoken(e)
  BY <1>1, <1>10, <1>13 DEF Inv, Kept
<1>14. Kept'
  BY <1>1, <1>5, <1>6, <1>13 DEF Kept, Spoken, Addressed, Current
<1>15. AddressedOnce'
  <2>1. ASSUME Calm', NEW e \in Accepts, e # d, Addressed(e), dl[e].rev = rec.rev
        PROVE  dl[e].session # s \/ dl[e].gen # run[s].gen
    BY <2>1, <1>1, <1>13 DEF Spoken, Current
  <2>2. QED
    BY <1>4, <1>5, <1>10, <2>1 DEF Inv, AddressedOnce, Addressed
<1>16. AcceptedWasDelivered' /\ ReservationIsHeld'
  BY <1>4, <1>5, <1>6, <1>10, Constants DEF AcceptedWasDelivered, ReservationIsHeld
<1>17. QED
  BY <1>7, <1>8, <1>9, <1>11, <1>12, <1>14, <1>15, <1>16 DEF Inv

LEMMA ReopenedIs ==
    ASSUME rec \in Records
    PROVE  /\ Reopened \in Records /\ Reopened.status = "proposed"
           /\ Reopened.target = None /\ Reopened.rev = rec.rev
BY DEF Reopened, Records, Statuses

LEMMA SettleStep ==
    ASSUME Inv, NEW d \in Accepts, Settle(d) \/ CancelInterrupted(d)
    PROVE  Inv'
<1>1. /\ dl[d].pc \in {"written", "failed"} /\ Matches(d) /\ Goto(d, "settled")
      /\ UNCHANGED <<pending, run, ws, snap>>
      /\ incidents' \in {incidents, incidents \cup {"io"}}
  BY DEF Settle, CancelInterrupted
<1>2. "settled" \in Phases /\ "settled" \notin InFlight /\ dl[d].pc \in InFlight
  BY <1>1 DEF Phases, InFlight
<1>3. dl' \in [Accepts -> Deliveries] /\ Moved(d, "settled")
  BY <1>1, <1>2, GotoMoves DEF Inv, TypeOK
<1>4. /\ rec \in Records /\ Orderly' = Orderly /\ Overlapped' = Overlapped /\ Calm' = Calm
      /\ "overlap" \in incidents' <=> "overlap" \in incidents
      /\ "deleted" \in incidents' <=> "deleted" \in incidents
  BY <1>1 DEF Inv, TypeOK, Orderly, Overlapped, Calm
<1>5. /\ rec' \in Records /\ rec'.rev = rec.rev /\ rec'.status # "executing"
      /\ \/ rec'.status = rec.status /\ rec'.target = rec.target /\ rec'.by = rec.by
         \/ /\ dl[d].pc = "written" /\ rec.status = "executing"
            /\ rec'.status = "accepted" /\ rec'.target = rec.target /\ rec'.by = rec.by
         \/ /\ dl[d].pc = "failed" /\ rec.status = "executing"
            /\ rec'.status \in {"proposed", "superseded"} /\ rec'.target = None
  <2>1. CASE rec.status # "executing"
    BY <2>1, <1>4 DEF Settle, CancelInterrupted, CompleteExecution, CancelExecution
  <2>2. CASE rec.status = "executing" /\ dl[d].pc = "written"
    BY <2>2, <1>4 DEF Settle, CancelInterrupted, CompleteExecution, Status, Records, Statuses
  <2>3. CASE CancelInterrupted(d)
    BY <2>3, <1>4, ReopenedIs DEF CancelInterrupted
  <2>4. CASE Settle(d) /\ rec.status = "executing" /\ dl[d].pc = "failed"
    <3> DEFINE r == Reopened
               v == IF rec.redacted THEN "superseded" ELSE "proposed"
    <3>1. rec' = [r EXCEPT !.status = v] /\ v \in {"proposed", "superseded"}
      BY <2>4 DEF Settle, CancelExecution
    <3>2. r \in Records /\ r.target = None /\ r.rev = rec.rev
      BY <1>4, ReopenedIs
    <3> HIDE DEF r, v
    <3>3. /\ rec' \in Records /\ rec'.status = v /\ rec'.target = r.target
          /\ rec'.rev = r.rev
      BY <3>1, <3>2 DEF Records, Statuses
    <3>4. QED
      BY <2>4, <3>1, <3>2, <3>3
  <2>5. QED
    BY <1>1, <2>1, <2>2, <2>3, <2>4
<1>6. TypeOK'
  BY <1>1, <1>3, <1>5 DEF Inv, TypeOK, Incidents
<1>7. Linked'
  BY <1>1, <1>3, <1>5 DEF Inv, Linked, Moved
<1>8. Remembered'
  BY <1>1, <1>3 DEF Inv, Remembered, Moved
<1>9. Orderly => \A e \in Accepts : e # d => dl[e].pc \notin InFlight
  BY <1>2 DEF Inv, Owned
<1>10. ~Overlapped /\ rec.status = "executing" => rec.by = d
  BY <1>2 DEF Inv, Owned, Alone, Overlapped
<1>11. \A e \in Accepts : /\ dl'[e].pc \in InFlight => e # d /\ dl[e].pc \in InFlight
                          /\ Addressed(e)' => Addressed(e)
  BY <1>2, <1>3 DEF Moved, Addressed
<1>12. Owned' /\ Alone' /\ Revised'
  <2>1. Owned'
    BY <1>4, <1>9, <1>11 DEF Inv, Owned, SomeInFlight
  <2>2. Alone' /\ Revised'
    BY <1>3, <1>4, <1>5, <1>11 DEF Inv, Alone, Revised, Moved
  <2>3. QED
    BY <2>1, <2>2
<1>13. dl[d].pc = "written" => dl[d].prompted
  BY DEF Inv, Remembered
<1>14. dl[d].pc = "failed" => ~Addressed(d)
  BY DEF Inv, Remembered, Addressed
<1>15. Kept'
  <2> SUFFICES ASSUME Calm, NEW e \in Accepts, Spoken(e)'
               PROVE  /\ rec'.status # "proposed"
                      /\ rec'.status \in {"executing", "accepted"} => rec'.by = e
    BY <1>4 DEF Kept
  <2>1. Spoken(e)
    BY <1>1, <1>3, <1>5, <1>11 DEF Spoken, Current, Moved
  <2>2. rec.status # "proposed" /\ (rec.status \in {"executing", "accepted"} => rec.by = e)
    BY <2>1 DEF Inv, Kept
  <2>3. ~(dl[d].pc = "failed" /\ rec.status = "executing")
    BY <1>10, <1>14, <2>1, <2>2 DEF Calm, Spoken
  <2>4. QED
    BY <1>5, <2>2, <2>3
<1>16. AddressedOnce'
  BY <1>3, <1>4, <1>11 DEF Inv, AddressedOnce, Moved
<1>17. AcceptedWasDelivered'
  <2>1. CASE rec'.status = "accepted" /\ dl[d].pc = "written" /\ rec.status = "executing"
    <3>1. rec'.by = rec.by /\ rec'.target = rec.target
      BY <1>5, <2>1
    <3>2. ~Overlapped' => d = rec'.by /\ dl[d].session = rec'.target
      BY <1>4, <1>10, <2>1, <3>1 DEF Inv, Linked
    <3>3. QED
      BY <1>3, <1>13, <2>1, <3>2 DEF AcceptedWasDelivered, Moved
  <2>2. CASE rec'.status = rec.status /\ rec'.target = rec.target /\ rec'.by = rec.by
    BY <1>3, <1>4, <2>2 DEF Inv, AcceptedWasDelivered, Moved
  <2>3. CASE rec'.status \in {"proposed", "superseded"}
    BY <2>3 DEF AcceptedWasDelivered
  <2>4. QED
    BY <1>5, <2>1, <2>2, <2>3
<1>18. ReservationIsHeld'
  BY <1>5 DEF ReservationIsHeld
<1>19. QED
  BY <1>6, <1>7, <1>8, <1>12, <1>15, <1>16, <1>17, <1>18 DEF Inv

-----------------------------------------------------------------------------
(* The steps of everyone else: the record may be taken back, the workspace *)
(* left or adopted again, and no delivery or runtime moves.                *)
LEMMA RecordStep ==
    ASSUME Inv, UNCHANGED <<dl, pending, run>>, rec' \in Records,
           ws' \in [open: BOOLEAN, adoption: 0..MaxOpens],
           snap' \in (SUBSET Sessions) \cup {None},
           incidents \subseteq incidents', incidents' \subseteq Incidents,
           ws.adoption <= ws'.adoption,
           ws'.open => ws' = ws \/ ws.adoption < ws'.adoption,
           rec'.status = "executing" => rec.status = "executing",
           rec'.status = "accepted" => rec.status = "accepted",
           rec'.status = "completed" => rec.status \in {"accepted", "completed"},
           rec'.status \in {"executing", "accepted", "completed"} =>
               rec'.by = rec.by /\ rec'.target = rec.target,
           rec'.status = "proposed" => rec'.target = None,
           rec'.status = "absent" => "deleted" \in incidents',
           "overlap" \in incidents' => "overlap" \in incidents,
           "deleted" \notin incidents' => rec.rev <= rec'.rev,
           Orderly' /\ SomeInFlight => rec'.status = rec.status /\ rec'.by = rec.by,
           \A d \in Accepts :
               Calm' /\ Spoken(d) /\ rec'.rev = rec.rev => rec'.status # "proposed"
    PROVE  Inv'
<1>1. /\ Orderly' => Orderly
      /\ Overlapped => Overlapped'
      /\ Calm' => Calm
      /\ "overlap" \notin incidents' => "overlap" \notin incidents
      /\ "deleted" \notin incidents' => "deleted" \notin incidents
  BY IncidentsStay
<1>2. /\ \A d \in Accepts : /\ dl[d].rev \in Nat /\ dl[d].ws \in Nat
      /\ rec.rev \in Nat /\ rec'.rev \in Nat /\ ws.adoption \in Nat /\ ws'.adoption \in Nat
  BY Constants DEF Inv, TypeOK, Records, Deliveries
<1>3. TypeOK'
  BY DEF Inv, TypeOK
<1>4. Linked'
  BY DEF Inv, Linked
<1>5. Remembered'
  BY <1>2 DEF Inv, Remembered
<1>6. Owned' /\ Alone' /\ Revised'
  <2>1. SomeInFlight' = SomeInFlight
    BY DEF SomeInFlight
  <2>2. ASSUME NEW d \in Accepts, Orderly', dl[d].pc \in InFlight
        PROVE  rec'.status = "executing" /\ rec'.by = d
    BY <2>2, <1>1 DEF Inv, Owned, SomeInFlight
  <2>3. Owned'
    BY <1>1, <2>1, <2>2 DEF Inv, Owned
  <2>4. Alone'
    BY <1>1 DEF Inv, Alone
  <2>5. Revised'
    BY <1>1, <1>2 DEF Inv, Revised
  <2>6. QED
    BY <2>3, <2>4, <2>5
<1>7. Kept'
  <2> SUFFICES ASSUME Calm', NEW d \in Accepts, Spoken(d)'
               PROVE  /\ rec'.status # "proposed"
                      /\ rec'.status \in {"executing", "accepted"} => rec'.by = d
    BY DEF Kept
  <2>1. dl[d].rev = rec'.rev /\ dl[d].rev <= rec.rev /\ rec.rev <= rec'.rev
    BY <1>1 DEF Spoken, Calm, Inv, Revised
  <2>2. rec'.rev = rec.rev
    BY <1>2, <2>1
  <2>3. Spoken(d)
    BY <2>1, <2>2 DEF Spoken, Addressed, Current
  <2>4. QED
    BY <1>1, <2>2, <2>3 DEF Inv, Kept
<1>8. AcceptedWasDelivered' /\ AddressedOnce'
  BY <1>1 DEF Inv, AcceptedWasDelivered, AddressedOnce, Addressed
<1>9. ReservationIsHeld'
  <2> SUFFICES ASSUME ws'.open, rec'.status = "executing", "io" \notin incidents'
               PROVE  rec.by # None /\ (dl[rec.by].pc \in InFlight
                                            \/ dl[rec.by].ws # ws'.adoption)
    BY DEF ReservationIsHeld
  <2>1. rec.by \in Accepts /\ rec.by # None /\ dl[rec.by].ws <= ws.adoption
    BY Constants DEF Inv, Linked, Remembered
  <2>2. CASE ws' = ws
    BY <2>2 DEF Inv, ReservationIsHeld
  <2>3. CASE ws.adoption < ws'.adoption
    BY <2>1, <2>3, <1>2
  <2>4. QED
    BY <2>2, <2>3
<1>10. QED
  BY <1>3, <1>4, <1>5, <1>6, <1>7, <1>8, <1>9 DEF Inv

(* What RecordStep asks of a step that leaves the workspace as it is.      *)
LEMMA HereStep == Inv => /\ ws \in [open: BOOLEAN, adoption: 0..MaxOpens]
                         /\ ws.adoption <= ws.adoption /\ rec.rev <= rec.rev
                         /\ rec \in Records /\ incidents \subseteq Incidents
                         /\ snap \in (SUBSET Sessions) \cup {None}
                         /\ rec.status = "proposed" => rec.target = None
                         /\ rec.status = "absent" => "deleted" \in incidents
<1>1. Inv => ws.adoption \in 0..MaxOpens /\ rec.rev \in 0..MaxRev
  BY DEF Inv, TypeOK, Records
<1>2. QED
  BY <1>1, Constants DEF Inv, TypeOK, Linked

(* While a delivery is in flight an orderly record is executing.           *)
LEMMA InFlightExecutes == Inv /\ Orderly /\ SomeInFlight => pending /\ rec.status = "executing"
BY DEF Inv, Owned, SomeInFlight

LEMMA RequestStep ==
    ASSUME Inv, \/ Dismiss \/ AttachPacket \/ Fence
                \/ \E d \in Accepts, s \in Sessions : Complete(s, d)
    PROVE  Inv'
<1>1. /\ UNCHANGED <<dl, pending, run, ws, snap, incidents>>
      /\ Orderly' = Orderly /\ Calm' = Calm
  BY DEF Dismiss, AttachPacket, Fence, Complete, Orderly, Overlapped, Calm
<1>2. rec \in Records /\ rec.rev \in Nat
  BY HereStep, Constants DEF Records
<1>3. /\ rec' \in Records /\ rec'.target = rec.target /\ rec'.by = rec.by
      /\ rec.rev <= rec'.rev
      /\ \/ /\ ~pending /\ rec'.status = "dismissed"
         \/ /\ rec.status = "proposed" /\ rec'.status = "proposed" /\ rec'.rev # rec.rev
         \/ /\ rec'.rev = rec.rev /\ rec.status = "proposed" /\ rec'.status = "superseded"
         \/ /\ rec'.rev = rec.rev /\ rec'.status = rec.status
            /\ rec.status \in {"executing", "accepted"}
         \/ /\ rec.status = "accepted" /\ rec'.status = "completed"
  <2>1. CASE Dismiss
    BY <2>1, <1>2 DEF Dismiss, Status, Records, Statuses
  <2>2. CASE AttachPacket
    BY <2>2, <1>2, Constants DEF AttachPacket, Records
  <2>3. CASE Fence
    <3> DEFINE v == IF rec.status = "proposed" THEN "superseded" ELSE rec.status
    <3>1. /\ rec' = [rec EXCEPT !.redacted = TRUE, !.status = v]
          /\ rec.status \in {"proposed", "executing", "accepted"}
      BY <2>3 DEF Fence
    <3>2. v \in Statuses
      BY <3>1 DEF Statuses
    <3>3. /\ rec' \in Records /\ rec'.status = v /\ rec'.target = rec.target
          /\ rec'.by = rec.by /\ rec'.rev = rec.rev
      <4> HIDE DEF v
      <4>1. QED
        BY <3>1, <3>2, <1>2 DEF Records
    <3>4. QED
      BY <3>1, <3>3, <1>2
  <2>4. CASE \E d \in Accepts, s \in Sessions : Complete(s, d)
    BY <2>4, <1>2 DEF Complete, Status, Records, Statuses
  <2>5. QED
    BY <2>1, <2>2, <2>3, <2>4
<1>4. Orderly' /\ SomeInFlight => rec'.status = rec.status /\ rec'.by = rec.by
  BY <1>1, <1>3, InFlightExecutes
<1>5. QED
  BY <1>1, <1>3, <1>4, HereStep, RecordStep

LEMMA ReplacePacketStep == ASSUME Inv, ReplaceCompletionPacket PROVE Inv'
<1>1. /\ UNCHANGED <<dl, pending, run, ws, snap>> /\ rec.rev \in 1..(MaxRev - 1)
      /\ rec' = [Reopened EXCEPT !.rev = rec.rev + 1]
      /\ incidents' = incidents \cup (IF SomeInFlight THEN {"replaced"} ELSE {})
  BY DEF ReplaceCompletionPacket
<1>2. rec.rev \in Nat /\ rec.rev + 1 \in 0..MaxRev
  BY <1>1, Constants
<1>3. /\ rec' \in Records /\ rec'.status = "proposed" /\ rec'.target = None
      /\ rec'.rev = rec.rev + 1
  <2> DEFINE r == Reopened
  <2>1. r \in Records /\ r.status = "proposed" /\ r.target = None
    BY ReopenedIs, HereStep
  <2> HIDE DEF r
  <2>2. rec' = [r EXCEPT !.rev = rec.rev + 1]
    BY <1>1 DEF r
  <2>3. QED
    BY <2>1, <2>2, <1>2 DEF Records
<1>4. rec.rev <= rec'.rev /\ rec'.rev # rec.rev
  BY <1>2, <1>3
<1>5. /\ Orderly' => ~SomeInFlight
      /\ "overlap" \in incidents' => "overlap" \in incidents
      /\ incidents \subseteq incidents' /\ incidents' \subseteq Incidents
  BY <1>1, HereStep DEF Orderly, Incidents
<1>6. QED
  BY <1>1, <1>3, <1>4, <1>5, HereStep, RecordStep

LEMMA ResetStep == ASSUME Inv, DeleteRecord \/ RefreshWorkflowRecommendations PROVE Inv'
<1>1. UNCHANGED <<dl, pending, run, ws, snap>>
  BY DEF DeleteRecord, RefreshWorkflowRecommendations
<1>2. /\ incidents \subseteq incidents' /\ incidents' \subseteq Incidents
      /\ "deleted" \in incidents'
      /\ "overlap" \in incidents' => "overlap" \in incidents
  BY HereStep DEF DeleteRecord, RefreshWorkflowRecommendations, Incidents
<1>3. rec' \in Records /\ rec'.status \in {"absent", "proposed"} /\ rec'.target = None
  <2>1. rec' \in {Fresh, [Fresh EXCEPT !.status = "absent"]}
    BY DEF DeleteRecord, RefreshWorkflowRecommendations
  <2>2. Fresh \in Records /\ Fresh.status = "proposed" /\ Fresh.target = None
    BY Constants DEF Fresh, Records, Statuses
  <2>3. [Fresh EXCEPT !.status = "absent"] \in Records
    BY <2>2 DEF Records, Statuses
  <2>4. /\ [Fresh EXCEPT !.status = "absent"].status = "absent"
        /\ [Fresh EXCEPT !.status = "absent"].target = None
    BY DEF Fresh
  <2>5. QED
    BY <2>1, <2>2, <2>3, <2>4
<1>4. ~Orderly' /\ ~Calm'
  BY <1>2 DEF Orderly, Calm
<1>5. QED
  BY <1>1, <1>2, <1>3, <1>4, HereStep, RecordStep

-----------------------------------------------------------------------------
(* Orphan recovery reopens no recommendation whose terminal still runs,    *)
(* unless the sessions it goes by are stale.                               *)
LEMMA RecoverStep ==
    ASSUME Inv, NEW live, RecoverOrphanedExecutions(live), UNCHANGED <<dl, pending, run>>,
           ws' \in [open: BOOLEAN, adoption: 0..MaxOpens],
           snap' \in (SUBSET Sessions) \cup {None},
           incidents \subseteq incidents', incidents' \subseteq Incidents,
           ws.adoption <= ws'.adoption,
           ws'.open => ws' = ws \/ ws.adoption < ws'.adoption,
           "overlap" \in incidents' => "overlap" \in incidents,
           Orphaned(live) /\ rec.target \in Live => "stale" \in incidents'
    PROVE  Inv'
<1>1. CASE ~Orphaned(live)
  <2>1. rec' = rec
    BY <1>1 DEF RecoverOrphanedExecutions
  <2>2. \A d \in Accepts : Calm' /\ Spoken(d) => rec.status # "proposed"
    BY IncidentsStay DEF Inv, Kept
  <2>3. rec.status = "absent" => "deleted" \in incidents'
    BY HereStep
  <2>4. QED
    BY <2>1, <2>2, <2>3, HereStep, RecordStep
<1>2. CASE Orphaned(live)
  <2>1. rec' = Reopened /\ rec.status \in {"executing", "accepted"} /\ ~pending
    BY <1>2 DEF RecoverOrphanedExecutions, Orphaned
  <2>2. /\ rec' \in Records /\ rec'.status = "proposed" /\ rec'.target = None
        /\ rec'.rev = rec.rev
    BY <2>1, ReopenedIs, HereStep
  <2>3. Orderly' => Orderly /\ ~SomeInFlight
    BY <2>1, InFlightExecutes DEF Orderly
  <2>4. ASSUME NEW d \in Accepts, Calm', Spoken(d)
        PROVE  FALSE
    <3>1. rec.by = d
      BY <2>1, <2>4, IncidentsStay DEF Inv, Kept
    <3>2. dl[d].session = rec.target
      BY <2>1, <3>1 DEF Inv, Linked
    <3>3. dl[d].session \in Sessions
      BY <2>4 DEF Inv, Remembered, Spoken, Addressed
    <3>4. rec.target \in Live
      BY <2>4, <3>2, <3>3 DEF Spoken, Live
    <3>5. QED
      BY <1>2, <2>4, <3>4 DEF Calm
  <2>5. QED
    BY <2>2, <2>3, <2>4, HereStep, RecordStep
<1>3. QED
  BY <1>1, <1>2

LEMMA RecoveryStep ==
    ASSUME Inv, RecoverManual \/ ReopenWorkspace \/ OpenWorkspace
    PROVE  Inv'
<1>1. CASE RecoverManual
  <2>1. /\ incidents \subseteq incidents' /\ incidents' \subseteq Incidents
        /\ "overlap" \in incidents' => "overlap" \in incidents
    BY <1>1, HereStep DEF RecoverManual, Incidents
  <2>2. Orphaned(snap) /\ rec.target \in Live => "stale" \in incidents'
    BY <1>1 DEF RecoverManual
  <2>3. /\ RecoverOrphanedExecutions(snap) /\ UNCHANGED <<dl, pending, run, ws>>
        /\ snap' = None
    BY <1>1 DEF RecoverManual
  <2>4. QED
    BY <2>1, <2>2, <2>3, HereStep, RecoverStep
<1>2. Orphaned(Live) => rec.target \notin Live
  BY DEF Orphaned
<1>3. CASE ReopenWorkspace
  <2>1. /\ RecoverOrphanedExecutions(Live)
        /\ UNCHANGED <<dl, pending, run, ws, snap, incidents>>
    BY <1>3 DEF ReopenWorkspace
  <2>2. QED
    BY <1>2, <2>1, HereStep, RecoverStep
<1>4. CASE OpenWorkspace
  <2>1. /\ RecoverOrphanedExecutions(Live) /\ ws.adoption < MaxOpens
        /\ UNCHANGED <<dl, pending, run, snap, incidents>>
        /\ ws' = [open |-> TRUE, adoption |-> ws.adoption + 1]
    BY <1>4 DEF OpenWorkspace
  <2>2. ws.adoption \in Nat
    BY HereStep, Constants
  <2>3. /\ ws' \in [open: BOOLEAN, adoption: 0..MaxOpens]
        /\ ws.adoption <= ws'.adoption /\ ws.adoption < ws'.adoption
    BY <2>1, <2>2, Constants
  <2>4. QED
    BY <1>2, <2>1, <2>3, HereStep, RecoverStep
<1>5. QED
  BY <1>1, <1>3, <1>4

(* The record stays; the workspace is left, adopted without recovery, or   *)
(* read.                                                                   *)
LEMMA WorkspaceStep ==
    ASSUME Inv, ReadLive \/ LeaveWorkspace \/ OpenUnrecovered
    PROVE  Inv'
<1>1. UNCHANGED <<rec, dl, pending, run>>
  BY DEF ReadLive, LeaveWorkspace, OpenUnrecovered
<1>2. /\ incidents \subseteq incidents' /\ incidents' \subseteq Incidents
      /\ "overlap" \in incidents' => "overlap" \in incidents
  BY HereStep DEF ReadLive, LeaveWorkspace, OpenUnrecovered, Incidents
<1>3. snap' \in (SUBSET Sessions) \cup {None}
  BY HereStep DEF ReadLive, LeaveWorkspace, OpenUnrecovered, Live
<1>4. ws \in [open: BOOLEAN, adoption: 0..MaxOpens] /\ ws.adoption \in Nat
  BY HereStep, Constants
<1>5. /\ ws' \in [open: BOOLEAN, adoption: 0..MaxOpens] /\ ws.adoption <= ws'.adoption
      /\ ws'.open => ws' = ws \/ ws.adoption < ws'.adoption
  <2>1. CASE ReadLive
    BY <2>1, <1>4 DEF ReadLive
  <2>2. CASE LeaveWorkspace
    <3>1. ws' = [ws EXCEPT !.open = FALSE]
      BY <2>2 DEF LeaveWorkspace
    <3>2. /\ ws' \in [open: BOOLEAN, adoption: 0..MaxOpens]
          /\ ws'.adoption = ws.adoption /\ ~ws'.open
      BY <3>1, <1>4
    <3>3. QED
      BY <3>2, <1>4
  <2>3. CASE OpenUnrecovered
    BY <2>3, <1>4, Constants DEF OpenUnrecovered
  <2>4. QED
    BY <2>1, <2>2, <2>3
<1>6. \A d \in Accepts : Calm' /\ Spoken(d) => rec.status # "proposed"
  BY <1>2, IncidentsStay DEF Inv, Kept
<1>7. rec.status = "absent" => "deleted" \in incidents'
  BY <1>2, HereStep
<1>8. QED
  BY <1>1, <1>2, <1>3, <1>5, <1>6, <1>7, HereStep, RecordStep

-----------------------------------------------------------------------------
(* A runtime starts or ends.  The next runtime of a session is another     *)
(* one than any delivery remembers.                                        *)
LEMMA RuntimeStep ==
    ASSUME Inv, NEW s \in Sessions, StartRuntime(s) \/ RuntimeEnds(s)
    PROVE  Inv'
<1>1. UNCHANGED <<rec, dl, pending, ws, snap, incidents>>
  BY DEF StartRuntime, RuntimeEnds
<1>2. run[s] \in Runtimes /\ run[s].gen \in Nat /\ run[s].gen \in 0..MaxGen
  BY Constants DEF Inv, TypeOK, Runtimes
<1>3. PICK r \in Runtimes :
          /\ run' = [run EXCEPT ![s] = r]
          /\ \/ run[s].state # "ended" /\ r.gen = run[s].gen
             \/ r.gen = run[s].gen + 1
  <2>1. CASE StartRuntime(s)
    <3>1. [state |-> "alive", gen |-> run[s].gen + 1] \in Runtimes
      BY <2>1, <1>2, Constants DEF StartRuntime, Runtimes
    <3>2. QED
      BY <2>1, <3>1 DEF StartRuntime
  <2>2. CASE RuntimeEnds(s)
    <3> DEFINE v == IF run[s].state = "alive" THEN "exiting" ELSE "ended"
               r == [run[s] EXCEPT !.state = v]
    <3>1. run' = [run EXCEPT ![s] = r] /\ run[s].state # "ended"
      BY <2>2 DEF RuntimeEnds
    <3>2. v \in {"alive", "exiting", "ended"}
      OBVIOUS
    <3>3. r \in Runtimes /\ r.gen = run[s].gen
      <4> HIDE DEF v
      <4>1. QED
        BY <3>2, <1>2 DEF Runtimes
    <3> HIDE DEF r
    <3>4. QED
      BY <3>1, <3>3
  <2>3. QED
    BY <2>1, <2>2
<1>4. /\ run' \in [Sessions -> Runtimes]
      /\ \A u \in Sessions : run'[u] = IF u = s THEN r ELSE run[u]
  BY <1>3 DEF Inv, TypeOK
<1>5. \A u \in Sessions : run[u].gen \in Nat /\ run'[u].gen \in Nat /\ run[u].gen <= run'[u].gen
  BY <1>2, <1>3, <1>4, Constants DEF Inv, TypeOK, Runtimes
<1>6. TypeOK' /\ Linked'
  BY <1>1, <1>4 DEF Inv, TypeOK, Linked
<1>7. Remembered'
  <2> SUFFICES ASSUME NEW d \in Accepts, dl[d].pc # "idle"
               PROVE  dl[d].gen <= run'[dl[d].session].gen
    BY <1>1 DEF Inv, Remembered
  <2>1. dl[d].gen \in Nat /\ dl[d].session \in Sessions /\ dl[d].gen <= run[dl[d].session].gen
    BY Constants DEF Inv, TypeOK, Deliveries, Remembered
  <2>2. QED
    BY <1>5, <2>1
<1>8. Owned' /\ Alone' /\ Revised'
  BY <1>1 DEF Inv, Owned, Alone, Revised, Orderly, SomeInFlight
<1>9. ASSUME NEW d \in Accepts, Spoken(d)'
      PROVE  Spoken(d)
  <2>1. Addressed(d) /\ dl[d].rev = rec.rev
    BY <1>1, <1>9 DEF Spoken, Addressed
  <2>2. /\ dl[d].session \in Sessions /\ dl[d].gen \in Nat
        /\ dl[d].gen <= run[dl[d].session].gen
    BY <2>1, Constants DEF Inv, TypeOK, Deliveries, Remembered, Addressed
  <2>3. run'[dl[d].session].gen = dl[d].gen /\ run'[dl[d].session].state # "ended"
    BY <1>1, <1>9 DEF Spoken, Current
  <2>4. run[dl[d].session].gen = dl[d].gen /\ run[dl[d].session].state # "ended"
    BY <1>2, <1>3, <1>4, <2>2, <2>3
  <2>5. QED
    BY <2>1, <2>4 DEF Spoken, Current
<1>10. Calm' = Calm /\ Overlapped' = Overlapped
  BY <1>1 DEF Calm, Overlapped, Orderly
<1>11. Kept' /\ AddressedOnce'
  BY <1>1, <1>9, <1>10 DEF Inv, Kept, AddressedOnce, Addressed
<1>12. AcceptedWasDelivered' /\ ReservationIsHeld'
  BY <1>1, <1>10 DEF Inv, AcceptedWasDelivered, ReservationIsHeld
<1>13. QED
  BY <1>6, <1>7, <1>8, <1>11, <1>12 DEF Inv

LEMMA CrashStep == ASSUME Inv, Crash PROVE Inv'
<1>1. /\ UNCHANGED <<rec, incidents>> /\ pending' = FALSE /\ snap' = None
      /\ ws' = [ws EXCEPT !.open = FALSE]
      /\ run' = [s \in Sessions |-> [run[s] EXCEPT !.state = "ended"]]
      /\ dl' = [d \in Accepts |-> IF dl[d].pc \in Holding THEN [dl[d] EXCEPT !.pc = "done"]
                                  ELSE dl[d]]
  BY DEF Crash
<1>2. /\ ws' \in [open: BOOLEAN, adoption: 0..MaxOpens] /\ ws'.adoption = ws.adoption
      /\ ~ws'.open
  BY <1>1, HereStep
<1>3. /\ run' \in [Sessions -> Runtimes]
      /\ \A s \in Sessions : run'[s].state = "ended" /\ run'[s].gen = run[s].gen
  BY <1>1 DEF Inv, TypeOK, Runtimes
<1>4. ASSUME NEW d \in Accepts
      PROVE  /\ dl'[d] \in Deliveries
             /\ dl'[d].pc = (IF dl[d].pc \in Holding THEN "done" ELSE dl[d].pc)
             /\ dl'[d].session = dl[d].session /\ dl'[d].gen = dl[d].gen
             /\ dl'[d].rev = dl[d].rev /\ dl'[d].ws = dl[d].ws
             /\ dl'[d].prompted = dl[d].prompted
  <2>1. dl[d] \in Deliveries
    BY DEF Inv, TypeOK
  <2>2. CASE dl[d].pc \in Holding
    BY <2>1, <2>2, <1>1 DEF Deliveries, Phases
  <2>3. CASE dl[d].pc \notin Holding
    BY <2>1, <2>3, <1>1
  <2>4. QED
    BY <2>2, <2>3
<1>5. dl' \in [Accepts -> Deliveries]
  BY <1>1, <1>4
<1>6. TypeOK'
  BY <1>1, <1>2, <1>3, <1>5 DEF Inv, TypeOK
<1>7. Linked'
  BY <1>1, <1>4 DEF Inv, Linked
<1>8. Remembered'
  BY <1>2, <1>3, <1>4 DEF Inv, Remembered, Holding, InFlight
<1>9. \A d \in Accepts : dl'[d].pc \notin InFlight /\ dl'[d].pc # "written"
  BY <1>4 DEF Holding, InFlight
<1>10. Owned' /\ Alone' /\ Revised'
  BY <1>1, <1>4, <1>9 DEF Inv, Owned, Alone, Revised, Orderly, SomeInFlight
<1>11. Kept'
  <2> SUFFICES ASSUME NEW d \in Accepts, Spoken(d)' PROVE FALSE
    BY DEF Kept
  <2>1. dl[d].session \in Sessions
    BY <1>4 DEF Inv, Remembered, Spoken, Addressed, Holding, InFlight
  <2>2. QED
    BY <1>3, <1>4, <2>1 DEF Spoken
<1>12. AcceptedWasDelivered' /\ AddressedOnce'
  <2>1. Calm' = Calm /\ Overlapped' = Overlapped
    BY <1>1 DEF Calm, Overlapped, Orderly
  <2>2. \A d \in Accepts : Addressed(d)' => Addressed(d)
    BY <1>4 DEF Addressed
  <2>3. QED
    BY <1>1, <1>4, <2>1, <2>2 DEF Inv, AcceptedWasDelivered, AddressedOnce
<1>13. ReservationIsHeld'
  BY <1>2 DEF ReservationIsHeld
<1>14. QED
  BY <1>6, <1>7, <1>8, <1>10, <1>11, <1>12, <1>13 DEF Inv

-----------------------------------------------------------------------------
LEMMA StutterStep == Inv /\ UNCHANGED vars => Inv'
<1> SUFFICES ASSUME Inv, UNCHANGED vars PROVE Inv'
  OBVIOUS
<1>1. UNCHANGED <<rec, dl, pending, run, ws, snap, incidents>>
  BY DEF vars
<1>2. TypeOK' /\ Linked' /\ Remembered' /\ Owned' /\ Alone' /\ Revised'
  BY <1>1 DEF Inv, TypeOK, Linked, Remembered, Owned, Alone, Revised, Orderly, SomeInFlight
<1>3. Kept' /\ AddressedOnce'
  BY <1>1 DEF Inv, Kept, AddressedOnce, Spoken, Addressed, Current, Calm, Overlapped, Orderly
<1>4. AcceptedWasDelivered' /\ ReservationIsHeld'
  BY <1>1 DEF Inv, AcceptedWasDelivered, ReservationIsHeld, Overlapped, Orderly
<1>5. QED
  BY <1>2, <1>3, <1>4 DEF Inv

LEMMA NextInv == Inv /\ [Next]_vars => Inv'
<1> SUFFICES ASSUME Inv, [Next]_vars PROVE Inv'
  OBVIOUS
<1>1. ASSUME NEW d \in Accepts, Deliver(d) PROVE Inv'
  BY <1>1, EnqueueStep, WriteStep, SettleStep, UnsettledStep, ReleaseStep DEF Deliver
<1>2. ASSUME NEW d \in Accepts, NEW s \in Sessions, Accept(d, s) \/ Complete(s, d)
      PROVE  Inv'
  BY <1>2, AcceptStep, RequestStep
<1>3. ASSUME NEW s \in Sessions, StartRuntime(s) \/ RuntimeEnds(s) PROVE Inv'
  BY <1>3, RuntimeStep
<1>4. CASE Dismiss \/ AttachPacket \/ ReplaceCompletionPacket \/ Fence
  BY <1>4, RequestStep, ReplacePacketStep
<1>5. CASE DeleteRecord \/ RefreshWorkflowRecommendations
  BY <1>5, ResetStep
<1>6. CASE RecoverManual \/ ReopenWorkspace \/ OpenWorkspace
  BY <1>6, RecoveryStep
<1>7. CASE ReadLive \/ LeaveWorkspace \/ OpenUnrecovered
  BY <1>7, WorkspaceStep
<1>8. CASE Crash
  BY <1>8, CrashStep
<1>9. CASE UNCHANGED vars
  BY <1>9, StutterStep
<1>10. QED
  BY <1>1, <1>2, <1>3, <1>4, <1>5, <1>6, <1>7, <1>8, <1>9 DEF Next

LEMMA DeliveryInvariant == Spec => []Inv
BY InitInv, NextInv, PTL DEF Spec

(* The record, the deliveries and the runtimes keep their types, and a     *)
(* record names a session exactly while one has it.                        *)
THEOREM DeliveryTypeOK == Spec => []TypeOK
<1>1. Inv => TypeOK
  BY DEF Inv
<1>2. QED
  BY <1>1, DeliveryInvariant, PTL

(* complete_execution marks nothing accepted unless a prompt was written   *)
(* to the last byte, whatever happens; and until two deliveries overlap it *)
(* was the prompt of the approval the record names, in its session.        *)
THEOREM AcceptedIsDelivered == Spec => []AcceptedWasDelivered
<1>1. Inv => AcceptedWasDelivered
  BY DEF Inv
<1>2. QED
  BY <1>1, DeliveryInvariant, PTL

(* In an open workspace every reservation has a delivery that settles it,  *)
(* unless the workspace was left meanwhile or a write to the store failed. *)
THEOREM ReservationAlwaysHeld == Spec => []ReservationIsHeld
<1>1. Inv => ReservationIsHeld
  BY DEF Inv
<1>2. QED
  BY <1>1, DeliveryInvariant, PTL

(* No runtime gets the prompt of one revision twice, through any number of *)
(* accepts, workspace switches, resumes and crashes, unless two deliveries *)
(* overlap, the record is made anew, or recovery uses a stale list.        *)
THEOREM NoDoublePrompt == Spec => []PromptedOnce
<1>1. Inv => PromptedOnce
  BY DEF Inv, PromptedOnce, AddressedOnce, Addressed, Calm
<1>2. QED
  BY <1>1, DeliveryInvariant, PTL

=============================================================================
