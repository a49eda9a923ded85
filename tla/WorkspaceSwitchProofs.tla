------------------------ MODULE WorkspaceSwitchProofs ------------------------
(***************************************************************************)
(* The safety of WorkspaceSwitch for every set of paths and requests and   *)
(* every number of sidecars.                                               *)
(***************************************************************************)
EXTENDS WorkspaceSwitch, TLAPS

(* A sidecar that runs, or whose cleanup has failed, is the current one    *)
(* and the last; a current one has not been cleaned up.                    *)
Own ==
    /\ \A g \in Gens : Running(g) \/ gens[g].cleanup = "failed" => g = current /\ g = launched
    /\ current # 0 => gens[current].cleanup # "ok"

(* The coordinator's refusal rests on a sidecar that is still current.     *)
Fenced == co.failure => current # 0 /\ gens[current].cleanup = "failed" /\ co.state # "ready"

(* What the operation waits for is all that is left of the sidecar.        *)
Awaits ==
    /\ op.pc \in {"closing", "cleaning"} => current \in {0, op.of}
    /\ op.pc \in {"closed", "installing"} => current = 0
    /\ op.pc = "retrying" => co.failure /\ op.of = current
    /\ op.pc = "closing" => co.path # None
    /\ op.pc \in {"idle", "picking"} /\ ~co.failure /\ co.path = None => current = 0
    /\ gone => op.pc = "idle" /\ current = 0

(* An operation that will launch has a destination and a generation left.  *)
Destined ==
    /\ op.kind = "open" /\ op.pc \in {"closing", "closed"} => op.dest # None
    /\ op.kind # "quit" /\ op.pc \in {"closing", "closed", "retrying"} => launched < MaxGen
    /\ op.pc \in {"picking", "installing"} => launched < MaxGen

(* The sidecar of an opening workspace runs, or its end is known.          *)
Opening ==
    op.pc \in {"starting", "restoring", "remember"} =>
        /\ op.dest # None
        /\ launched # 0 /\ current = launched
        /\ ~gens[launched].stopping /\ gens[launched].cwd = op.dest
        /\ \/ Running(launched) \/ co.failure
           \/ op.pc = "starting" /\ ~gens[launched].ready
        /\ op.pc = "remember" /\ ~co.failure => rest.gen = launched /\ rest.state # "open"

(* Nothing is under way while a workspace is ready, unless another is      *)
(* being picked.                                                           *)
Served ==
    /\ ReadyIsServed
    /\ co.state = "ready" => op.pc \in {"idle", "picking"} /\ ~gens[current].stopping

(* A request that is not stale was made to what is still ready.            *)
Homed ==
    \A r \in Requests : req[r].pc \in {"waiting", "sent"} /\ ~req[r].stale =>
        co.state = "ready" /\ req[r].home = co.path /\ req[r].gen = current

Inv == TypeOK /\ Own /\ Fenced /\ Awaits /\ Destined /\ Opening /\ Served /\ Homed

LEMMA InGens ==
    ASSUME TypeOK
    PROVE  /\ current # 0 => current \in Gens
           /\ launched # 0 => launched \in Gens
           /\ \A g \in Gens : g # 0 /\ gens[g] \in Generations
BY SwitchAssumption DEF TypeOK, Gens

LEMMA TerminateFacts ==
    ASSUME NEW g \in Generations, NEW t \in BOOLEAN
    PROVE  LET s == Terminate(g, t)
           IN  /\ s \in Generations
               /\ s.cwd = g.cwd /\ s.proc = g.proc /\ s.stopping = g.stopping
               /\ s.ready = g.ready
               /\ \/ s.cleanup = g.cleanup
                  \/ s.cleanup = "failed" /\ g.cleanup = "open" /\ g.proc = "running"
<1> DEFINE c == IF t /\ g.cleanup = "open" THEN "failed" ELSE g.cleanup
<1>0. g.cleanup \in {"open", "ok", "failed"}
  BY DEF Generations
<1>1. c \in {"open", "ok", "failed"} /\ (c = g.cleanup \/ (c = "failed" /\ g.cleanup = "open"))
  <2>1. CASE t /\ g.cleanup = "open"
    BY <2>1
  <2>2. CASE ~(t /\ g.cleanup = "open")
    BY <1>0, <2>2
  <2> QED BY <2>1, <2>2
<1> HIDE DEF c
<1>2. CASE g.proc = "running" /\ ~g.killed
  <2>1. Terminate(g, t) = [g EXCEPT !.killed = TRUE, !.cleanup = c]
    BY <1>2 DEF Terminate, Generations, c
  <2> QED BY <1>1, <1>2, <2>1 DEF Generations
<1>3. CASE ~(g.proc = "running" /\ ~g.killed)
  <2>1. Terminate(g, t) = g
    BY <1>3 DEF Terminate
  <2> QED BY <2>1
<1> QED BY <1>2, <1>3

LEMMA StopCurrentFacts ==
    ASSUME NEW g \in Generations, NEW t \in BOOLEAN
    PROVE  LET s == StopCurrent(g, t)
           IN  /\ s \in Generations
               /\ s.cwd = g.cwd /\ s.proc = g.proc
               /\ g.cleanup = "failed" => s = g
               /\ s.cleanup = "ok" => g.cleanup = "ok" \/ s.proc # "running"
               /\ s.cleanup = "failed" => g.cleanup = "failed" \/ s.proc = "running"
<1> DEFINE f == g.failed \/ ~g.ready
           h == [g EXCEPT !.failed = f, !.stopping = TRUE]
           s == Terminate(h, t)
<1>0. f \in BOOLEAN
  BY DEF Generations
<1> HIDE DEF f
<1>1. h \in Generations /\ h.cwd = g.cwd /\ h.proc = g.proc /\ h.cleanup = g.cleanup
  BY <1>0 DEF Generations
<1> HIDE DEF h
<1>2. /\ s \in Generations /\ s.cwd = h.cwd /\ s.proc = h.proc
      /\ \/ s.cleanup = h.cleanup
         \/ s.cleanup = "failed" /\ h.cleanup = "open" /\ h.proc = "running"
  BY <1>1, TerminateFacts
<1> HIDE DEF s
<1>3. StopCurrent(g, t) = CASE g.cleanup = "failed" -> g
          [] g.cleanup # "failed" /\ s.proc # "running" -> [s EXCEPT !.cleanup = "ok"]
          [] OTHER -> s
  BY DEF StopCurrent, s, h, f
<1>4. CASE g.cleanup = "failed"
  BY <1>3, <1>4
<1>5. CASE g.cleanup # "failed" /\ s.proc # "running"
  <2>1. StopCurrent(g, t) = [s EXCEPT !.cleanup = "ok"]
    BY <1>3, <1>5
  <2> QED BY <1>1, <1>2, <1>5, <2>1 DEF Generations
<1>6. CASE g.cleanup # "failed" /\ s.proc = "running"
  <2>1. StopCurrent(g, t) = s
    BY <1>3, <1>6
  <2> QED BY <1>1, <1>2, <1>6, <2>1
<1> QED BY <1>4, <1>5, <1>6

(* stop leaves the sidecar current until its cleanup is done, and a failed *)
(* cleanup as it is.                                                       *)
LEMMA StopFacts ==
    ASSUME TypeOK, Own, NEW t \in BOOLEAN, Stop(t), launched' = launched
    PROVE  /\ gens' \in [Gens -> Generations] /\ current' \in {0, current}
           /\ Own'
           /\ current # 0 /\ gens[current].cleanup = "failed" =>
                 gens'[current] = gens[current] /\ current' = current
<1>1. CASE current = 0
  <2>1. gens' = gens /\ current' = current
    BY <1>1 DEF Stop
  <2> QED BY <1>1, <2>1 DEF TypeOK, Own, Running
<1>2. CASE current # 0
  <2> DEFINE s == StopCurrent(gens[current], t)
  <2>1. current \in Gens /\ gens[current] \in Generations
    BY <1>2, InGens
  <2>2. /\ s \in Generations /\ s.proc = gens[current].proc
        /\ gens[current].cleanup = "failed" => s = gens[current]
        /\ s.cleanup = "ok" => gens[current].cleanup = "ok" \/ s.proc # "running"
        /\ s.cleanup = "failed" => gens[current].cleanup = "failed" \/ s.proc = "running"
    BY <2>1, StopCurrentFacts
  <2>3. gens' = [gens EXCEPT ![current] = s] /\ current' = IF s.cleanup = "ok" THEN 0 ELSE current
    BY <1>2 DEF Stop
  <2> HIDE DEF s
  <2>4. gens' \in [Gens -> Generations] /\ gens'[current] = s
        /\ \A g \in Gens : g # current => gens'[g] = gens[g]
    BY <2>1, <2>2, <2>3 DEF TypeOK
  <2>5. Own'
    BY <1>2, <2>1, <2>2, <2>3, <2>4 DEF Own, Running
  <2> QED BY <2>1, <2>2, <2>3, <2>4, <2>5
<1> QED BY <1>1, <1>2

-----------------------------------------------------------------------------
(* The events of the sidecar.                                              *)

LEMMA SidecarReadyInv ==
    ASSUME Inv, NEW g \in Gens, SidecarReady(g)
    PROVE  Inv'
<1>1. /\ gens' = [gens EXCEPT ![g].ready = TRUE] /\ current = g
      /\ rest'.gen = rest.gen /\ rest'.state = rest.state /\ rest' \in Restorations
      /\ UNCHANGED <<current, launched, co, op, wpath, life, req, gone>>
  BY DEF SidecarReady, IsCurrent, Inv, TypeOK, Restorations
<1>2. gens' \in [Gens -> Generations]
  <2> DEFINE v == [gens[g] EXCEPT !.ready = TRUE]
  <2>1. v \in Generations
    BY DEF Inv, TypeOK, Generations
  <2>2. gens' = [gens EXCEPT ![g] = v]
    BY <1>1 DEF Inv, TypeOK, Generations
  <2> HIDE DEF v
  <2> QED BY <2>1, <2>2 DEF Inv, TypeOK
<1>3. \A h \in Gens : /\ gens'[h].proc = gens[h].proc /\ gens'[h].cleanup = gens[h].cleanup
                      /\ gens'[h].cwd = gens[h].cwd /\ gens'[h].stopping = gens[h].stopping
  BY <1>1 DEF Inv, TypeOK, Generations
<1>4. Running(g) /\ g # 0
  BY DEF SidecarReady, Gens
<1>5. TypeOK'
  BY <1>1, <1>2 DEF Inv, TypeOK
<1>6. Own' /\ Fenced' /\ Awaits' /\ Destined' /\ Homed'
  BY <1>1, <1>3, <1>4 DEF Inv, Own, Fenced, Awaits, Destined, Homed, Running
<1>7. Opening'
  BY <1>1, <1>3, <1>4 DEF Inv, Own, Opening, Running
<1>8. Served'
  BY <1>1, <1>3, <1>4 DEF Inv, Served, ReadyIsServed, Running
<1> QED BY <1>5, <1>6, <1>7, <1>8 DEF Inv

LEMMA RestorationFailsFacts ==
    ASSUME TypeOK, RestorationFails
    PROVE  /\ rest' \in Restorations /\ rest'.gen = rest.gen
           /\ rest'.state = rest.state \/ rest'.state = "failed"
           /\ life' \in {life, "failed"}
BY DEF RestorationFails, TypeOK, Restorations, Path

LEMMA SidecarFailsInv ==
    ASSUME Inv, NEW g \in Gens, NEW t \in BOOLEAN, SidecarFails(g, t)
    PROVE  Inv'
<1> DEFINE v == [gens[g] EXCEPT !.failed = TRUE]
           s == Terminate(v, t)
<1>1. /\ gens' = [gens EXCEPT ![g] = s] /\ current = g /\ RestorationFails
      /\ UNCHANGED <<current, launched, co, op, wpath, req, gone>>
  BY DEF SidecarFails, IsCurrent
<1>2. v \in Generations /\ v.cwd = gens[g].cwd /\ v.proc = gens[g].proc
      /\ v.stopping = gens[g].stopping /\ v.ready = gens[g].ready /\ v.cleanup = gens[g].cleanup
  BY DEF Inv, TypeOK, Generations
<1> HIDE DEF v
<1>3. /\ s \in Generations /\ s.cwd = v.cwd /\ s.proc = v.proc /\ s.stopping = v.stopping
      /\ s.ready = v.ready
      /\ s.cleanup = v.cleanup \/ s.cleanup = "failed"
  BY <1>2, TerminateFacts
<1> HIDE DEF s
<1>4. gens' \in [Gens -> Generations]
  BY <1>1, <1>3 DEF Inv, TypeOK
<1>5. /\ \A h \in Gens : /\ gens'[h].proc = gens[h].proc /\ gens'[h].stopping = gens[h].stopping
                         /\ gens'[h].cwd = gens[h].cwd /\ gens'[h].ready = gens[h].ready
                         /\ \/ gens'[h].cleanup = gens[h].cleanup
                            \/ h = g /\ gens'[h].cleanup = "failed"
  BY <1>1, <1>2, <1>3 DEF Inv, TypeOK
<1>6. Running(g) /\ g # 0
  BY DEF SidecarFails, Gens
<1>7. /\ rest' \in Restorations /\ rest'.gen = rest.gen
      /\ rest'.state = rest.state \/ rest'.state = "failed"
      /\ life' \in {life, "failed"}
  BY <1>1, RestorationFailsFacts DEF Inv
<1>8. TypeOK'
  BY <1>1, <1>4, <1>7 DEF Inv, TypeOK
<1>9. Own' /\ Fenced' /\ Awaits' /\ Destined' /\ Homed'
  BY <1>1, <1>5, <1>6 DEF Inv, Own, Fenced, Awaits, Destined, Homed, Running
<1>10. Opening'
  BY <1>1, <1>5, <1>6, <1>7 DEF Inv, Own, Opening, Running
<1>11. Served'
  BY <1>1, <1>5, <1>6, <1>7 DEF Inv, Served, ReadyIsServed, Running
<1> QED BY <1>8, <1>9, <1>10, <1>11 DEF Inv

LEMMA ReadinessTimeoutInv ==
    ASSUME Inv, NEW g \in Gens, ReadinessTimeout(g)
    PROVE  Inv'
BY SidecarFailsInv DEF ReadinessTimeout

LEMMA CleanupTimeoutInv ==
    ASSUME Inv, NEW g \in Gens, CleanupTimeout(g)
    PROVE  Inv'
<1>1. /\ gens' = [gens EXCEPT ![g].cleanup = "failed"] /\ Running(g) /\ g # 0
      /\ UNCHANGED <<current, launched, rest, co, op, wpath, life, req, gone>>
  BY DEF CleanupTimeout, Gens
<1>2. current = g /\ launched = g
  BY <1>1 DEF Inv, Own
<1>3. gens' \in [Gens -> Generations]
  <2> DEFINE v == [gens[g] EXCEPT !.cleanup = "failed"]
  <2>1. v \in Generations
    BY DEF Inv, TypeOK, Generations
  <2>2. gens' = [gens EXCEPT ![g] = v]
    BY <1>1 DEF Inv, TypeOK, Generations
  <2> HIDE DEF v
  <2> QED BY <2>1, <2>2 DEF Inv, TypeOK
<1>4. \A h \in Gens : /\ gens'[h].proc = gens[h].proc /\ gens'[h].stopping = gens[h].stopping
                      /\ gens'[h].cwd = gens[h].cwd /\ gens'[h].ready = gens[h].ready
                      /\ gens'[h].cleanup = IF h = g THEN "failed" ELSE gens[h].cleanup
  BY <1>1 DEF Inv, TypeOK, Generations
<1>5. TypeOK'
  BY <1>1, <1>3 DEF Inv, TypeOK
<1>6. Own' /\ Fenced' /\ Awaits' /\ Destined' /\ Homed'
  BY <1>1, <1>2, <1>4 DEF Inv, Own, Fenced, Awaits, Destined, Homed, Running
<1>7. Opening'
  BY <1>1, <1>2, <1>4 DEF Inv, Opening, Running
<1>8. Served'
  BY <1>1, <1>2, <1>4 DEF Inv, Served, ReadyIsServed, Running
<1> QED BY <1>5, <1>6, <1>7, <1>8 DEF Inv

LEMMA StoppedExitInv ==
    ASSUME Inv, NEW g \in Gens, StoppedExit(g)
    PROVE  Inv'
<1> DEFINE c == IF gens[g].cleanup = "open" THEN "ok" ELSE gens[g].cleanup
<1>1. /\ gens' = [gens EXCEPT ![g].proc = "exited", ![g].cleanup = c]
      /\ Running(g) /\ g # 0 /\ gens[g].stopping
      /\ UNCHANGED <<launched, rest, co, op, wpath, life, req, gone>>
  BY DEF StoppedExit, Gens, Inv, TypeOK, Generations
<1>2. current = g /\ launched = g
  BY <1>1 DEF Inv, Own
<1>3. c \in {"ok", "failed"} /\ (gens[g].cleanup = "failed" => c = "failed")
  <2>1. gens[g].cleanup \in {"open", "ok", "failed"}
    BY DEF Inv, TypeOK, Generations
  <2> QED BY <2>1
<1> HIDE DEF c
<1>4. gens' \in [Gens -> Generations]
  <2> DEFINE v == [gens[g] EXCEPT !.proc = "exited", !.cleanup = c]
  <2>1. v \in Generations
    BY <1>3 DEF Inv, TypeOK, Generations
  <2>2. gens' = [gens EXCEPT ![g] = v]
    BY <1>1 DEF Inv, TypeOK, Generations
  <2> HIDE DEF v
  <2> QED BY <2>1, <2>2 DEF Inv, TypeOK
<1>5. /\ \A h \in Gens : h # g => gens'[h] = gens[h]
      /\ gens'[g].proc = "exited" /\ gens'[g].cleanup = c
      /\ gens'[g].stopping
  BY <1>1 DEF Inv, TypeOK, Generations
<1>6. current' = IF c = "ok" THEN 0 ELSE g
  BY <1>2, <1>5 DEF StoppedExit
<1>7. TypeOK'
  <2>1. current' \in 0..MaxGen
    BY <1>6, SwitchAssumption DEF Gens
  <2> QED BY <1>1, <1>4, <2>1 DEF Inv, TypeOK
<1>8. co.state # "ready" /\ life # "ready" /\ op.pc \notin {"starting", "restoring", "remember"}
  BY <1>1, <1>2 DEF Inv, Served, ReadyIsServed, Opening
<1>9. ~gone /\ (co.failure => c = "failed")
  BY <1>1, <1>2, <1>3 DEF Inv, Awaits, Fenced
<1>10. Own' /\ Fenced' /\ Destined' /\ Homed'
  BY <1>1, <1>2, <1>3, <1>5, <1>6, <1>8, <1>9 DEF Inv, Own, Fenced, Destined, Homed, Running
<1>11. Awaits'
  BY <1>1, <1>2, <1>3, <1>5, <1>6, <1>9 DEF Inv, Awaits
<1>12. Opening' /\ Served'
  BY <1>1, <1>8 DEF Opening, Served, ReadyIsServed
<1> QED BY <1>7, <1>10, <1>11, <1>12 DEF Inv

LEMMA UnexpectedExitInv ==
    ASSUME Inv, NEW g \in Gens, UnexpectedExit(g)
    PROVE  Inv'
<1>1. /\ gens' = [gens EXCEPT ![g].proc = "exited", ![g].failed = TRUE, ![g].cleanup = "failed"]
      /\ Running(g) /\ g # 0
      /\ rest' = NoRest
      /\ co' = [co EXCEPT !.failure = TRUE, !.state = "unresolved"] /\ life' = "unresolved"
      /\ op' = [op EXCEPT !.stale = op.pc # "idle"]
      /\ req' = Superseded
      /\ UNCHANGED <<current, launched, wpath, gone>>
  BY DEF UnexpectedExit, Publish, Gens
<1>2. current = g /\ launched = g
  BY <1>1 DEF Inv, Own
<1>3. gens' \in [Gens -> Generations]
  <2> DEFINE v == [gens[g] EXCEPT !.proc = "exited", !.failed = TRUE, !.cleanup = "failed"]
  <2>1. v \in Generations
    BY DEF Inv, TypeOK, Generations
  <2>2. gens' = [gens EXCEPT ![g] = v]
    BY <1>1 DEF Inv, TypeOK, Generations
  <2> HIDE DEF v
  <2> QED BY <2>1, <2>2 DEF Inv, TypeOK
<1>4. /\ \A h \in Gens : h # g => gens'[h] = gens[h]
      /\ gens'[g].proc = "exited" /\ gens'[g].cleanup = "failed"
      /\ gens'[g].stopping = gens[g].stopping /\ gens'[g].cwd = gens[g].cwd
  BY <1>1 DEF Inv, TypeOK, Generations
<1>5. co' \in Coordinators /\ co'.failure /\ co'.state = "unresolved" /\ co'.path = co.path
  BY <1>1 DEF Inv, TypeOK, Coordinators, States
<1>6. /\ op' \in Operations /\ op'.pc = op.pc /\ op'.of = op.of /\ op'.dest = op.dest
      /\ op'.kind = op.kind
  BY <1>1 DEF Inv, TypeOK, Operations
<1>7. req' \in [Requests -> Bound] /\ \A r \in Requests : req'[r].stale
  BY <1>1 DEF Inv, TypeOK, Bound, Superseded
<1>8. rest' \in Restorations
  BY <1>1, SwitchAssumption DEF NoRest, Restorations, Path
<1>9. TypeOK'
  BY <1>1, <1>3, <1>5, <1>6, <1>7, <1>8 DEF Inv, TypeOK, States
<1>10. Own' /\ Fenced' /\ Homed'
  BY <1>1, <1>2, <1>4, <1>5, <1>7 DEF Inv, Own, Fenced, Homed, Running
<1>11. Awaits' /\ Destined'
  BY <1>1, <1>2, <1>4, <1>5, <1>6 DEF Inv, Awaits, Destined
<1>12. Opening' /\ Served'
  BY <1>1, <1>2, <1>4, <1>5, <1>6 DEF Inv, Opening, Served, ReadyIsServed
<1> QED BY <1>9, <1>10, <1>11, <1>12 DEF Inv

-----------------------------------------------------------------------------
(* The answers to a restoration, and the requests of the window.           *)

LEMMA RestorationInv ==
    ASSUME Inv, Restored \/ \E t \in BOOLEAN : RestoreFails(t)
    PROVE  Inv'
<1>1. /\ UNCHANGED <<gens, current, launched, co, op, req, gone>>
      /\ rest.state = "open"
  BY DEF Restored, RestoreFails
<1>2. /\ rest' \in Restorations /\ rest'.gen = rest.gen
      /\ life' \in {life, "failed"} /\ wpath' \in Path
  <2>1. CASE Restored
    BY <2>1 DEF Restored, Inv, TypeOK, Restorations
  <2>2. CASE \E t \in BOOLEAN : RestoreFails(t)
    <3>1. wpath' \in Path /\ RestorationFails
      BY <2>2 DEF RestoreFails, Inv, TypeOK, Path
    <3> QED BY <3>1, RestorationFailsFacts DEF Inv
  <2> QED BY <2>1, <2>2
<1>3. co.state # "ready" /\ life # "ready"
  BY <1>1 DEF Inv, Served, ReadyIsServed
<1>4. TypeOK'
  BY <1>1, <1>2 DEF Inv, TypeOK
<1>5. Own' /\ Fenced' /\ Awaits' /\ Destined' /\ Homed'
  BY <1>1 DEF Inv, Own, Fenced, Awaits, Destined, Homed, Running
<1>6. Opening' /\ Served'
  BY <1>1, <1>2, <1>3 DEF Inv, Opening, Served, ReadyIsServed, Running
<1> QED BY <1>4, <1>5, <1>6 DEF Inv

LEMMA RequestInv ==
    ASSUME Inv, NEW r \in Requests, Request(r) \/ Send(r) \/ \E ok \in BOOLEAN : Answer(r, ok)
    PROVE  Inv'
<1>1. UNCHANGED <<gens, current, launched, rest, co, op, wpath, life, gone>>
  BY DEF Request, Send, Answer
<1>2. req' \in [Requests -> Bound] /\ \A q \in Requests : q # r => req'[q] = req[q]
  <2>1. CASE Request(r)
    BY <2>1 DEF Request, Inv, TypeOK, Bound, Restorations, Coordinators
  <2>2. CASE Send(r) \/ \E ok \in BOOLEAN : Answer(r, ok)
    <3>1. PICK c \in {"sent", "failed", "answered"} : req' = [req EXCEPT ![r].pc = c]
      BY <2>2 DEF Send, Answer
    <3> QED BY <3>1 DEF Inv, TypeOK, Bound
  <2> QED BY <2>1, <2>2
<1>3. Homed'
  <2>1. CASE Request(r)
    <3>1. req'[r].home = co.path /\ req'[r].gen = rest.gen /\ life = "ready"
      BY <2>1 DEF Request, Inv, TypeOK
    <3> QED BY <1>1, <1>2, <3>1 DEF Inv, Homed, Served, ReadyIsServed
  <2>2. CASE Send(r) \/ \E ok \in BOOLEAN : Answer(r, ok)
    <3>1. req[r].pc \in {"waiting", "sent"} /\ req'[r].stale = req[r].stale
          /\ req'[r].home = req[r].home /\ req'[r].gen = req[r].gen
      BY <2>2 DEF Send, Answer, Inv, TypeOK, Bound
    <3> QED BY <1>1, <1>2, <3>1 DEF Inv, Homed
  <2> QED BY <2>1, <2>2
<1>4. TypeOK'
  BY <1>1, <1>2 DEF Inv, TypeOK
<1>5. Own' /\ Fenced' /\ Awaits' /\ Destined' /\ Opening' /\ Served'
  BY <1>1 DEF Inv, Own, Fenced, Awaits, Destined, Opening, Served, ReadyIsServed, Running
<1> QED BY <1>3, <1>4, <1>5 DEF Inv

LEMMA RetryRefusedInv ==
    ASSUME Inv, RetryRefused
    PROVE  Inv'
<1>1. UNCHANGED <<gens, current, launched, rest, co, op, wpath, req, gone>> /\ life' = "picker"
  BY DEF RetryRefused
<1>2. TypeOK'
  BY <1>1 DEF Inv, TypeOK, States
<1>3. Own' /\ Fenced' /\ Awaits' /\ Destined' /\ Opening' /\ Homed'
  BY <1>1 DEF Inv, Own, Fenced, Awaits, Destined, Opening, Homed, Running
<1>4. Served'
  BY <1>1 DEF Inv, Served, ReadyIsServed, Running
<1> QED BY <1>2, <1>3, <1>4 DEF Inv

-----------------------------------------------------------------------------
(* The operations of the coordinator.                                      *)

LEMMA SupersededType ==
    ASSUME TypeOK
    PROVE  Superseded \in [Requests -> Bound] /\ \A r \in Requests : Superseded[r].stale
BY DEF TypeOK, Bound, Superseded

LEMMA NoRestType == NoRest \in Restorations
BY SwitchAssumption DEF NoRest, Restorations, Path

LEMMA CloseCurrentInv ==
    ASSUME Inv, NEW o \in Operations, NEW c \in Coordinators, NEW t \in BOOLEAN,
           c.path = co.path, c.state = co.state, ~co.failure, ~c.failure, ~gone,
           co.path = None => current = 0,
           o.kind = "open" => o.dest # None,
           o.kind # "quit" => launched < MaxGen,
           CloseCurrent(o, c, t), UNCHANGED <<launched, wpath, gone>>
    PROVE  Inv'
<1>1. CASE co.path = None
  <2>1. /\ op' = [o EXCEPT !.pc = "closed"] /\ co' = [c EXCEPT !.state = c.state]
        /\ life' = c.state
        /\ UNCHANGED <<gens, current, rest, req>>
    BY <1>1 DEF CloseCurrent, Publish
  <2>2. co.state # "ready"
    BY <1>1 DEF Inv, Served, ReadyIsServed
  <2>3. /\ op' \in Operations /\ op'.pc = "closed" /\ op'.kind = o.kind /\ op'.dest = o.dest
        /\ co' \in Coordinators /\ co'.state = co.state /\ co'.path = None /\ ~co'.failure
    BY <1>1, <2>1 DEF Operations, Coordinators, Pcs
  <2>4. TypeOK'
    BY <2>1, <2>3 DEF Inv, TypeOK, Coordinators
  <2>5. Own' /\ Fenced' /\ Homed'
    BY <2>1, <2>2, <2>3 DEF Inv, Own, Fenced, Homed, Running
  <2>6. Awaits' /\ Destined'
    BY <1>1, <2>1, <2>3 DEF Awaits, Destined
  <2>7. Opening' /\ Served'
    BY <2>1, <2>2, <2>3 DEF Opening, Served, ReadyIsServed
  <2> QED BY <2>4, <2>5, <2>6, <2>7 DEF Inv
<1>2. CASE co.path # None
  <2>1. /\ op' = [o EXCEPT !.pc = "closing", !.of = current]
        /\ co' = [c EXCEPT !.state = "closing"] /\ life' = "closing"
        /\ req' = Superseded /\ rest' = NoRest /\ Stop(t)
    BY <1>2 DEF CloseCurrent, Publish
  <2>2. gens' \in [Gens -> Generations] /\ current' \in {0, current} /\ Own'
    BY <2>1, StopFacts DEF Inv
  <2>3. /\ op' \in Operations /\ op'.pc = "closing" /\ op'.kind = o.kind /\ op'.dest = o.dest
        /\ op'.of = current
    BY <2>1 DEF Operations, Pcs, Inv, TypeOK
  <2>4. /\ co' \in Coordinators /\ co'.state = "closing" /\ co'.path # None /\ ~co'.failure
    BY <1>2, <2>1 DEF Coordinators, States
  <2>5. current' \in 0..MaxGen
    BY <2>2, SwitchAssumption DEF Inv, TypeOK
  <2>6. TypeOK'
    BY <2>1, <2>2, <2>3, <2>4, <2>5, SupersededType, NoRestType DEF Inv, TypeOK, States
  <2>7. Fenced' /\ Homed'
    BY <2>1, <2>4, SupersededType DEF Inv, Fenced, Homed
  <2>8. Awaits' /\ Destined'
    BY <2>2, <2>3, <2>4 DEF Awaits, Destined
  <2>9. Opening' /\ Served'
    BY <2>1, <2>3, <2>4 DEF Opening, Served, ReadyIsServed
  <2> QED BY <2>2, <2>6, <2>7, <2>8, <2>9 DEF Inv
<1> QED BY <1>1, <1>2

LEMMA CleanupAttemptedInv ==
    ASSUME Inv, NEW pc \in {"cleaning", "retrying"}, NEW t \in BOOLEAN,
           co.state # "ready", ~gone,
           pc = "retrying" => co.failure /\ launched < MaxGen,
           CleanupAttemptedRuntime(pc, t), UNCHANGED <<launched, co, life, req, gone>>
    PROVE  Inv'
<1>1. /\ op' = [op EXCEPT !.pc = pc, !.of = current]
      /\ rest' = NoRest /\ wpath' = None /\ Stop(t)
  BY DEF CleanupAttemptedRuntime
<1>2. /\ gens' \in [Gens -> Generations] /\ current' \in {0, current} /\ Own'
      /\ current # 0 /\ gens[current].cleanup = "failed" =>
            gens'[current] = gens[current] /\ current' = current
  BY <1>1, StopFacts DEF Inv
<1>3. op' \in Operations /\ op'.pc = pc /\ op'.of = current
  BY <1>1 DEF Operations, Pcs, Inv, TypeOK
<1>4. current' \in 0..MaxGen
  BY <1>2, SwitchAssumption DEF Inv, TypeOK
<1>5. TypeOK'
  BY <1>1, <1>2, <1>3, <1>4, NoRestType DEF Inv, TypeOK, Path
<1>6. Fenced' /\ Homed'
  BY <1>2 DEF Inv, Fenced, Homed
<1>7. Awaits' /\ Destined'
  BY <1>2, <1>3 DEF Inv, Fenced, Awaits, Destined
<1>8. Opening' /\ Served'
  BY <1>3 DEF Inv, Opening, Served, ReadyIsServed
<1> QED BY <1>2, <1>5, <1>6, <1>7, <1>8 DEF Inv

LEMMA NoOpType == NoOp \in Operations /\ NoOp.pc = "idle" /\ NoOp.kind = "open"
BY SwitchAssumption DEF NoOp, Operations, Pcs, Path

LEMMA SwitchInternalInv ==
    ASSUME Inv, NEW p \in Paths, NEW t \in BOOLEAN, ~co.failure, ~gone, launched < MaxGen,
           co.path = None => current = 0,
           SwitchWorkspaceInternal(co, p, t), UNCHANGED <<launched, wpath, gone>>
    PROVE  Inv'
<1> DEFINE o == [NoOp EXCEPT !.dest = p]
           c == [co EXCEPT !.last = p]
<1>1. o \in Operations /\ o.kind = "open" /\ o.dest # None
  BY NoOpType, SwitchAssumption DEF Operations, Path, NoOp
<1>2. c \in Coordinators /\ c.path = co.path /\ c.state = co.state /\ c.failure = co.failure
  BY DEF Inv, TypeOK, Coordinators, Path
<1>3. CloseCurrent(o, c, t)
  BY DEF SwitchWorkspaceInternal
<1> HIDE DEF o, c
<1> QED BY <1>1, <1>2, <1>3, CloseCurrentInv

LEMMA IdleNothing ==
    ASSUME Inv, Idle, ~co.failure
    PROVE  co.path = None => current = 0
BY DEF Inv, Awaits, Idle

LEMMA SwitchWorkspaceInv ==
    ASSUME Inv, NEW p \in Paths, NEW t \in BOOLEAN, SwitchWorkspace(p, t)
    PROVE  Inv'
<1>1. /\ Idle /\ ~co.failure /\ ~gone /\ launched < MaxGen
      /\ SwitchWorkspaceInternal(co, p, t) /\ UNCHANGED <<launched, wpath, gone>>
  BY DEF SwitchWorkspace, Idle
<1> QED BY <1>1, IdleNothing, SwitchInternalInv

LEMMA PickWorkspaceInv ==
    ASSUME Inv, PickWorkspace
    PROVE  Inv'
<1>1. /\ op.pc = "idle" /\ ~gone /\ launched < MaxGen
      /\ op' = [NoOp EXCEPT !.pc = "picking"]
      /\ UNCHANGED <<gens, current, launched, rest, co, wpath, life, req, gone>>
  BY DEF PickWorkspace, Idle
<1>2. op' \in Operations /\ op'.pc = "picking"
  BY <1>1, NoOpType DEF Operations, Pcs
<1>3. TypeOK'
  BY <1>1, <1>2 DEF Inv, TypeOK
<1>4. Own' /\ Fenced' /\ Homed'
  BY <1>1 DEF Inv, Own, Fenced, Homed, Running
<1>5. Awaits' /\ Destined' /\ Opening'
  BY <1>1, <1>2 DEF Inv, Awaits, Destined, Opening
<1>6. Served'
  BY <1>1, <1>2 DEF Inv, Served, ReadyIsServed, Running
<1> QED BY <1>3, <1>4, <1>5, <1>6 DEF Inv

LEMMA PickedInv ==
    ASSUME Inv, NEW p \in Path, NEW t \in BOOLEAN, Picked(p, t)
    PROVE  Inv'
<1>1. op.pc = "picking" /\ ~gone /\ launched < MaxGen /\ UNCHANGED <<launched, wpath, gone>>
  BY DEF Picked, Inv, Awaits, Destined
<1>2. CASE p = None \/ co.failure
  <2>1. op' = NoOp /\ UNCHANGED <<gens, current, rest, co, life, req>>
    BY <1>2 DEF Picked, Finish
  <2>2. TypeOK'
    BY <1>1, <2>1, NoOpType DEF Inv, TypeOK
  <2>3. Own' /\ Fenced' /\ Homed'
    BY <1>1, <2>1 DEF Inv, Own, Fenced, Homed, Running
  <2>4. Awaits' /\ Destined' /\ Opening'
    BY <1>1, <2>1, NoOpType DEF Inv, Awaits, Destined, Opening
  <2>5. Served'
    BY <1>1, <2>1, NoOpType DEF Inv, Served, ReadyIsServed, Running
  <2> QED BY <2>2, <2>3, <2>4, <2>5 DEF Inv
<1>3. CASE ~(p = None \/ co.failure)
  <2>1. p \in Paths /\ SwitchWorkspaceInternal(co, p, t)
    BY <1>3 DEF Picked, Path
  <2>2. co.path = None => current = 0
    BY <1>1, <1>3 DEF Inv, Awaits
  <2> QED BY <1>1, <1>3, <2>1, <2>2, SwitchInternalInv
<1> QED BY <1>2, <1>3

LEMMA RetryInv ==
    ASSUME Inv, NEW t \in BOOLEAN, Retry(t)
    PROVE  Inv'
<1>1. Idle /\ ~gone /\ launched < MaxGen /\ UNCHANGED <<launched, gone>>
  BY DEF Retry, Idle
<1>2. CASE co.failure
  <2>1. CleanupAttemptedRuntime("retrying", t) /\ UNCHANGED <<co, life, req>>
    BY <1>2 DEF Retry
  <2>2. co.state # "ready"
    BY <1>2 DEF Inv, Fenced
  <2> QED BY <1>1, <1>2, <2>1, <2>2, CleanupAttemptedInv
<1>3. CASE ~co.failure
  <2>1. co.last # None /\ SwitchWorkspaceInternal(co, co.last, t) /\ UNCHANGED wpath
    BY <1>3 DEF Retry
  <2>2. co.last \in Paths
    BY <2>1 DEF Inv, TypeOK, Coordinators, Path
  <2> QED BY <1>1, <1>3, <2>1, <2>2, IdleNothing, SwitchInternalInv
<1> QED BY <1>2, <1>3

(* A retry finds the failed cleanup it was refused for.                    *)
LEMMA RetriedInv ==
    ASSUME Inv, NEW t \in BOOLEAN, Retried(t)
    PROVE  Inv'
<1>1. op.pc = "retrying" /\ CleanupFailed(op.of)
  BY DEF Retried, CleanupFailed, Inv, Awaits, Fenced
<1>2. /\ co' = [co EXCEPT !.failure = TRUE, !.state = "unresolved"] /\ life' = "unresolved"
      /\ op' = NoOp /\ UNCHANGED <<gens, current, rest, req, launched, wpath, gone>>
  BY <1>1 DEF Retried, Publish, Finish
<1>3. co' \in Coordinators /\ co'.failure /\ co'.state = "unresolved"
  BY <1>2 DEF Inv, TypeOK, Coordinators, States
<1>4. co.failure /\ co.state # "ready" /\ ~gone /\ op'.pc = "idle"
  BY <1>1, <1>2, NoOpType DEF Inv, Awaits, Fenced
<1>5. TypeOK'
  BY <1>2, <1>3, NoOpType DEF Inv, TypeOK, States
<1>6. Own' /\ Fenced' /\ Homed'
  BY <1>2, <1>3, <1>4 DEF Inv, Own, Fenced, Homed, Running
<1>7. Awaits' /\ Destined' /\ Opening' /\ Served'
  BY <1>2, <1>3, <1>4 DEF Awaits, Destined, Opening, Served, ReadyIsServed
<1> QED BY <1>5, <1>6, <1>7 DEF Inv

LEMMA RunUpdateInv ==
    ASSUME Inv, NEW t \in BOOLEAN, RunUpdate(t)
    PROVE  Inv'
<1> DEFINE o == [NoOp EXCEPT !.kind = "update", !.dest = co.path]
<1>1. /\ Idle /\ ~co.failure /\ ~gone /\ launched < MaxGen
      /\ CloseCurrent(o, co, t) /\ UNCHANGED <<launched, wpath, gone>>
  BY DEF RunUpdate, Idle
<1>2. o \in Operations /\ o.kind = "update" /\ co \in Coordinators
  BY NoOpType DEF Operations, NoOp, Inv, TypeOK, Coordinators
<1> HIDE DEF o
<1> QED BY <1>1, <1>2, IdleNothing, CloseCurrentInv

LEMMA QuitInv ==
    ASSUME Inv, NEW t \in BOOLEAN, Quit(t)
    PROVE  Inv'
<1>1. Idle /\ ~gone /\ UNCHANGED <<launched, wpath, gone>>
  BY DEF Quit, Idle
<1>2. CASE co.failure
  <2>1. /\ co' = [co EXCEPT !.state = "unresolved"] /\ life' = "unresolved"
        /\ UNCHANGED <<gens, current, rest, op, req>>
    BY <1>2 DEF Quit, Publish
  <2>2. co' \in Coordinators /\ co'.failure /\ co'.state = "unresolved" /\ co.state # "ready"
    BY <1>2, <2>1 DEF Inv, TypeOK, Coordinators, States, Fenced
  <2>3. TypeOK'
    BY <1>1, <2>1, <2>2 DEF Inv, TypeOK, States
  <2>4. Own' /\ Fenced' /\ Homed'
    BY <1>1, <1>2, <2>1, <2>2 DEF Inv, Own, Fenced, Homed, Running
  <2>5. Awaits' /\ Destined' /\ Opening' /\ Served'
    BY <1>1, <2>1, <2>2 DEF Idle, Awaits, Destined, Opening, Served, ReadyIsServed
  <2> QED BY <2>3, <2>4, <2>5 DEF Inv
<1>3. CASE ~co.failure
  <2> DEFINE o == [NoOp EXCEPT !.kind = "quit"]
  <2>1. CloseCurrent(o, co, t)
    BY <1>3 DEF Quit
  <2>2. o \in Operations /\ o.kind = "quit" /\ co \in Coordinators
    BY NoOpType DEF Operations, NoOp, Inv, TypeOK
  <2> HIDE DEF o
  <2> QED BY <1>1, <1>3, <2>1, <2>2, IdleNothing, CloseCurrentInv
<1> QED BY <1>2, <1>3

LEMMA ClosedInv ==
    ASSUME Inv, Closed
    PROVE  Inv'
<1>1. /\ op.pc = "closing" /\ CleanupSettled(op.of)
      /\ UNCHANGED <<gens, current, launched, rest, req, gone>>
  BY DEF Closed
<1>2. ~gone /\ co.state # "ready" /\ co.path # None
  BY <1>1 DEF Inv, Awaits, Served
<1>3. CASE CleanupFailed(op.of)
  <2>1. /\ co' = [co EXCEPT !.state = "unresolved"] /\ life' = "unresolved"
        /\ op' = NoOp /\ wpath' = wpath
    BY <1>3 DEF Closed, Publish, Finish
  <2>2. co' \in Coordinators /\ co'.failure = co.failure /\ co'.state = "unresolved"
        /\ co'.path = co.path
    BY <2>1 DEF Inv, TypeOK, Coordinators, States
  <2>3. TypeOK'
    BY <1>1, <2>1, <2>2, NoOpType DEF Inv, TypeOK, States
  <2>4. Own' /\ Fenced' /\ Homed'
    BY <1>1, <1>2, <2>2 DEF Inv, Own, Fenced, Homed, Running
  <2>5. Awaits' /\ Destined' /\ Opening' /\ Served'
    BY <1>1, <1>2, <2>1, <2>2, NoOpType DEF Awaits, Destined, Opening, Served, ReadyIsServed
  <2> QED BY <2>3, <2>4, <2>5 DEF Inv
<1>4. CASE ~CleanupFailed(op.of)
  <2>1. /\ co' = [co EXCEPT !.path = None, !.state = "picker"] /\ life' = "picker"
        /\ wpath' = None /\ op' = [op EXCEPT !.pc = "closed"]
    BY <1>4 DEF Closed, Publish
  <2>2. current = 0
    BY <1>1, <1>4 DEF Inv, Awaits, Own, CleanupSettled, CleanupFailed, TypeOK, Generations, Gens
  <2>3. co' \in Coordinators /\ co'.failure = co.failure /\ co'.state = "picker"
    BY <2>1 DEF Inv, TypeOK, Coordinators, States, Path
  <2>4. op' \in Operations /\ op'.pc = "closed" /\ op'.kind = op.kind /\ op'.dest = op.dest
    BY <2>1 DEF Inv, TypeOK, Operations, Pcs
  <2>5. TypeOK'
    BY <1>1, <2>1, <2>3, <2>4 DEF Inv, TypeOK, States, Path
  <2>6. Own' /\ Fenced' /\ Homed'
    BY <1>1, <1>2, <2>2, <2>3 DEF Inv, Own, Fenced, Homed, Running
  <2>7. Awaits' /\ Destined' /\ Opening' /\ Served'
    BY <1>1, <1>2, <2>1, <2>2, <2>3, <2>4
       DEF Inv, Awaits, Destined, Opening, Served, ReadyIsServed
  <2> QED BY <2>5, <2>6, <2>7 DEF Inv
<1> QED BY <1>3, <1>4

LEMMA StartRuntimeInv ==
    ASSUME Inv, NEW t \in BOOLEAN, StartRuntime(t)
    PROVE  Inv'
<1> DEFINE n == launched + 1
           v == [Unborn EXCEPT !.cwd = op.dest, !.failed = ~t,
                               !.proc = IF t THEN "running" ELSE "none"]
<1>1. /\ op.pc = "closed" /\ op.kind = "open" /\ current = 0
      /\ co' = [co EXCEPT !.state = "opening"] /\ life' = "opening" /\ wpath' = op.dest
      /\ launched' = n /\ current' = n /\ gens' = [gens EXCEPT ![n] = v]
      /\ req' = Superseded /\ op' = [op EXCEPT !.pc = "starting"] /\ gone' = gone
  BY DEF StartRuntime, Publish
<1>2. rest' \in Restorations
  <2>1. PICK s \in {"open", "failed"} :
          rest' = [gen |-> launched', state |-> s, sent |-> FALSE, workspace |-> None]
    BY DEF StartRuntime
  <2>2. launched' \in 0..MaxGen
    BY <1>1, SwitchAssumption DEF Inv, TypeOK, Destined
  <2> QED BY <2>1, <2>2 DEF Restorations, Path
<1>3. op.dest # None /\ n \in Gens /\ n # 0 /\ n # launched
  BY <1>1, SwitchAssumption DEF Inv, TypeOK, Destined, Gens
<1>4. /\ v \in Generations /\ v.cwd = op.dest /\ ~v.stopping /\ ~v.ready /\ v.cleanup = "open"
  <2>1. op.dest \in Path
    BY DEF Inv, TypeOK, Operations
  <2>2. PICK s \in {"running", "none"}, f \in BOOLEAN :
          v = [Unborn EXCEPT !.cwd = op.dest, !.failed = f, !.proc = s]
    BY Zenon
  <2> QED BY <2>1, <2>2 DEF Unborn, Generations, Path
<1> HIDE DEF v
<1>5. /\ gens' \in [Gens -> Generations] /\ gens'[n] = v
      /\ \A g \in Gens : g # n => gens'[g] = gens[g]
  BY <1>1, <1>3, <1>4 DEF Inv, TypeOK
<1>6. ~co.failure /\ ~gone
  BY <1>1 DEF Inv, Fenced, Awaits
<1>7. co' \in Coordinators /\ ~co'.failure /\ co'.state = "opening"
  BY <1>1, <1>6 DEF Inv, TypeOK, Coordinators, States
<1>8. op' \in Operations /\ op'.pc = "starting" /\ op'.dest = op.dest
  BY <1>1 DEF Inv, TypeOK, Operations, Pcs
<1>9. TypeOK'
  <2>1. n \in 0..MaxGen /\ op.dest \in Path
    BY <1>3, SwitchAssumption DEF Gens, Inv, TypeOK, Operations
  <2> QED BY <1>1, <1>2, <1>5, <1>6, <1>7, <1>8, <2>1, SupersededType DEF Inv, TypeOK, States
<1> HIDE DEF n
<1>10. Own'
  BY <1>1, <1>3, <1>4, <1>5 DEF Inv, Own, Running, Gens
<1>11. Fenced' /\ Homed'
  BY <1>1, <1>7, SupersededType DEF Inv, Fenced, Homed
<1>12. Awaits' /\ Destined' /\ Served'
  BY <1>1, <1>6, <1>7, <1>8 DEF Awaits, Destined, Served, ReadyIsServed
<1>13. Opening'
  BY <1>1, <1>3, <1>4, <1>5, <1>8 DEF Opening
<1> QED BY <1>9, <1>10, <1>11, <1>12, <1>13 DEF Inv

(* Steps of an opening workspace that only move the operation on.          *)
LEMMA OpeningInv ==
    ASSUME Inv, Started \/ Remember
    PROVE  Inv'
<1>1. PICK pc \in {"restoring", "remember"} : op' = [op EXCEPT !.pc = pc]
  BY DEF Started, Remember
<1>2. /\ UNCHANGED <<gens, current, launched, rest, co, wpath, life, req, gone>>
      /\ op.pc \in {"starting", "restoring"}
  BY DEF Started, Remember
<1>3. op' \in Operations /\ op'.pc = pc /\ op'.dest = op.dest /\ op'.kind = op.kind
  BY <1>1 DEF Inv, TypeOK, Operations, Pcs
<1>4. /\ op.pc = "starting" => gens[launched].ready
      /\ pc = "remember" => rest.gen = launched /\ rest.state # "open"
  BY <1>2, <1>3 DEF Started, Remember, WorkspaceRestored, Inv, TypeOK, Operations
<1>5. ~gone /\ co.state # "ready" /\ life # "ready"
  BY <1>2 DEF Inv, Awaits, Served, ReadyIsServed
<1>6. TypeOK'
  BY <1>2, <1>3 DEF Inv, TypeOK
<1>7. Own' /\ Fenced' /\ Homed'
  BY <1>2 DEF Inv, Own, Fenced, Homed, Running
<1>8. Awaits' /\ Destined' /\ Served'
  BY <1>2, <1>3, <1>5 DEF Awaits, Destined, Served, ReadyIsServed
<1>9. Opening'
  BY <1>2, <1>3, <1>4 DEF Inv, Opening, Running
<1> QED BY <1>6, <1>7, <1>8, <1>9 DEF Inv

LEMMA StartFailedInv ==
    ASSUME Inv, NEW t \in BOOLEAN, StartFailed(t)
    PROVE  Inv'
<1>1. /\ op.pc \in {"starting", "restoring"} /\ CleanupAttemptedRuntime("cleaning", t)
      /\ UNCHANGED <<launched, co, life, req, gone>>
  BY DEF StartFailed
<1>2. co.state # "ready" /\ ~gone
  BY <1>1 DEF Inv, Served, Awaits
<1> QED BY <1>1, <1>2, CleanupAttemptedInv

LEMMA RememberedInv ==
    ASSUME Inv, NEW t \in BOOLEAN, Remembered(t)
    PROVE  Inv'
<1>1. op.pc = "remember" /\ UNCHANGED <<launched, req, gone>>
  BY DEF Remembered
<1>2. co.state # "ready" /\ ~gone
  BY <1>1 DEF Inv, Served, Awaits
<1>3. CASE op.stale \/ co.failure
  <2>1. CleanupAttemptedRuntime("cleaning", t) /\ UNCHANGED <<co, life>>
    BY <1>3 DEF Remembered
  <2> QED BY <1>1, <1>2, <2>1, CleanupAttemptedInv
<1>4. CASE ~(op.stale \/ co.failure)
  <2>1. /\ co' = [co EXCEPT !.path = op.dest, !.state = "ready"] /\ life' = "ready"
        /\ wpath' = op.dest /\ op' = NoOp /\ UNCHANGED <<gens, current, rest>>
    BY <1>4 DEF Remembered, Publish, Finish
  <2>2. op.dest \in Path /\ op.dest # None
    BY <1>1 DEF Inv, Opening, TypeOK, Operations
  <2>3. co' \in Coordinators /\ co'.path = op.dest /\ ~co'.failure /\ co'.state = "ready"
    BY <1>4, <2>1, <2>2 DEF Inv, TypeOK, Coordinators, States
  <2>4. /\ launched # 0 /\ current = launched /\ Running(launched) /\ ~gens[launched].stopping
        /\ gens[launched].cwd = op.dest /\ rest.gen = launched /\ rest.state # "open"
    BY <1>1, <1>4 DEF Inv, Opening
  <2>5. TypeOK'
    BY <1>1, <2>1, <2>2, <2>3, NoOpType DEF Inv, TypeOK, States
  <2>6. Own' /\ Fenced' /\ Homed'
    BY <1>1, <1>2, <2>1, <2>3 DEF Inv, Own, Fenced, Homed, Running
  <2>7. Awaits' /\ Destined' /\ Opening'
    BY <1>1, <1>2, <2>1, <2>2, <2>3, NoOpType DEF Awaits, Destined, Opening
  <2>8. Served'
    BY <1>1, <2>1, <2>2, <2>3, <2>4, NoOpType DEF Served, ReadyIsServed, Running
  <2> QED BY <2>5, <2>6, <2>7, <2>8 DEF Inv
<1> QED BY <1>3, <1>4

LEMMA CleanedInv ==
    ASSUME Inv, Cleaned
    PROVE  Inv'
<1>1. /\ op.pc = "cleaning" /\ CleanupSettled(op.of) /\ op' = NoOp
      /\ UNCHANGED <<gens, current, launched, rest, wpath, req, gone>>
  BY DEF Cleaned, Finish
<1>2. ~gone /\ co.state # "ready"
  BY <1>1 DEF Inv, Awaits, Served
<1>3. PICK f \in BOOLEAN, s \in {"unresolved", "picker"} :
        /\ co' = [co EXCEPT !.failure = f, !.state = s] /\ life' = s
        /\ f <=> (co.failure \/ CleanupFailed(op.of))
  <2>1. CASE co.failure \/ CleanupFailed(op.of)
    BY <2>1 DEF Cleaned, Publish
  <2>2. CASE ~(co.failure \/ CleanupFailed(op.of))
    <3>1. co' = [co EXCEPT !.state = "picker"] /\ life' = "picker" /\ co.failure = FALSE
      BY <2>2 DEF Cleaned, Publish, Inv, TypeOK, Coordinators
    <3>2. co' = [co EXCEPT !.failure = FALSE, !.state = "picker"]
      BY <3>1 DEF Inv, TypeOK, Coordinators
    <3> QED BY <2>2, <3>1, <3>2
  <2> QED BY <2>1, <2>2
<1>4. /\ co' \in Coordinators /\ co'.failure = f /\ co'.state = s /\ co'.path = co.path
  BY <1>3 DEF Inv, TypeOK, Coordinators, States
<1>5. f => current # 0 /\ gens[current].cleanup = "failed"
  BY <1>1, <1>3 DEF Inv, Fenced, Own, CleanupFailed, TypeOK, Operations, Gens
<1>6. ~f => current = 0
  BY <1>1, <1>3 DEF Inv, Awaits, Own, CleanupSettled, CleanupFailed, TypeOK, Generations, Gens
<1>7. TypeOK'
  BY <1>1, <1>3, <1>4, NoOpType DEF Inv, TypeOK, States
<1>8. Own' /\ Fenced' /\ Homed'
  BY <1>1, <1>2, <1>4, <1>5 DEF Inv, Own, Fenced, Homed, Running
<1>9. Awaits' /\ Destined' /\ Opening' /\ Served'
  BY <1>1, <1>2, <1>3, <1>4, <1>6, NoOpType DEF Awaits, Destined, Opening, Served, ReadyIsServed
<1> QED BY <1>7, <1>8, <1>9 DEF Inv

LEMMA InstallInv ==
    ASSUME Inv, Install
    PROVE  Inv'
<1>1. /\ op' = [op EXCEPT !.pc = "installing"] /\ op.pc = "closed" /\ op.kind = "update"
      /\ UNCHANGED <<gens, current, launched, rest, co, wpath, life, req, gone>>
  BY DEF Install
<1>2. op' \in Operations /\ op'.pc = "installing" /\ op'.kind = op.kind
  BY <1>1 DEF Inv, TypeOK, Operations, Pcs
<1>3. TypeOK'
  BY <1>1, <1>2 DEF Inv, TypeOK
<1>4. Own' /\ Fenced' /\ Homed'
  BY <1>1 DEF Inv, Own, Fenced, Homed, Running
<1>5. Awaits' /\ Destined' /\ Opening' /\ Served'
  BY <1>1, <1>2 DEF Inv, Awaits, Destined, Opening, Served, ReadyIsServed
<1> QED BY <1>3, <1>4, <1>5 DEF Inv

LEMMA InstallEndsInv ==
    ASSUME Inv, NEW ok \in BOOLEAN, NEW t \in BOOLEAN, InstallEnds(ok, t)
    PROVE  Inv'
<1>1. op.pc = "installing" /\ UNCHANGED <<launched, wpath, gone>>
  BY DEF InstallEnds
<1>2. current = 0 /\ ~gone /\ co.state # "ready" /\ life # "ready" /\ ~co.failure
  BY <1>1 DEF Inv, Awaits, Served, ReadyIsServed, Fenced
<1>3. CASE ok \/ op.dest = None \/ co.failure
  <2>1. op' = NoOp /\ UNCHANGED <<gens, current, rest, co, life, req>>
    BY <1>3 DEF InstallEnds, Finish
  <2>2. TypeOK'
    BY <1>1, <2>1, NoOpType DEF Inv, TypeOK
  <2>3. Own' /\ Fenced' /\ Homed'
    BY <1>1, <2>1 DEF Inv, Own, Fenced, Homed, Running
  <2>4. Awaits' /\ Destined' /\ Opening' /\ Served'
    BY <1>1, <1>2, <2>1, NoOpType DEF Awaits, Destined, Opening, Served, ReadyIsServed
  <2> QED BY <2>2, <2>3, <2>4 DEF Inv
<1>4. CASE ~(ok \/ op.dest = None \/ co.failure)
  <2>1. op.dest \in Paths /\ SwitchWorkspaceInternal(co, op.dest, t)
    BY <1>4 DEF InstallEnds, Inv, TypeOK, Operations, Path
  <2>2. launched < MaxGen
    BY <1>1 DEF Inv, Destined
  <2> QED BY <1>1, <1>2, <2>1, <2>2, SwitchInternalInv
<1> QED BY <1>3, <1>4

LEMMA KillSidecarInv ==
    ASSUME Inv, KillSidecar
    PROVE  Inv'
<1>1. /\ op.pc = "closed" /\ op' = NoOp /\ gone' = TRUE
      /\ co' = [co EXCEPT !.state = "picker"] /\ life' = "picker"
      /\ UNCHANGED <<gens, current, launched, rest, wpath, req>>
  BY DEF KillSidecar, Publish, Finish
<1>2. current = 0 /\ co.state # "ready" /\ ~co.failure
  BY <1>1 DEF Inv, Awaits, Served, Fenced
<1>3. co' \in Coordinators /\ co'.failure = co.failure /\ co'.state = "picker"
  BY <1>1 DEF Inv, TypeOK, Coordinators, States
<1>4. TypeOK'
  BY <1>1, <1>3, NoOpType DEF Inv, TypeOK, States
<1>5. Own' /\ Fenced' /\ Homed'
  BY <1>1, <1>2, <1>3 DEF Inv, Own, Fenced, Homed, Running
<1>6. Awaits' /\ Destined' /\ Opening' /\ Served'
  BY <1>1, <1>2, <1>3, NoOpType DEF Awaits, Destined, Opening, Served, ReadyIsServed
<1> QED BY <1>4, <1>5, <1>6 DEF Inv

-----------------------------------------------------------------------------
LEMMA InitInv == Init => Inv
<1> SUFFICES ASSUME Init PROVE Inv
  OBVIOUS
<1>1. Unborn \in Generations /\ Unborn.proc = "none" /\ Unborn.cleanup = "open"
  BY DEF Unborn, Generations, Path
<1>2. Unsent \in Bound /\ Unsent.pc = "idle"
  BY SwitchAssumption DEF Unsent, Bound, Path
<1>3. /\ co \in Coordinators /\ ~co.failure /\ co.state = "picker" /\ co.path = None
  BY DEF Init, Coordinators, States, Path
<1>4. TypeOK
  <2>1. gens \in [Gens -> Generations] /\ req \in [Requests -> Bound]
    BY <1>1, <1>2 DEF Init
  <2>2. 0 \in 0..MaxGen /\ None \in Path /\ "picker" \in States
    BY SwitchAssumption DEF Path, States
  <2> QED BY <1>3, <2>1, <2>2, NoOpType, NoRestType DEF Init, TypeOK
<1>5. Own /\ Homed
  BY <1>1, <1>2 DEF Init, Own, Homed, Running
<1>6. Fenced /\ Awaits /\ Destined /\ Opening /\ Served
  BY <1>3, NoOpType DEF Init, Fenced, Awaits, Destined, Opening, Served, ReadyIsServed
<1> QED BY <1>4, <1>5, <1>6 DEF Inv

LEMMA StutterInv == Inv /\ UNCHANGED vars => Inv'
BY DEF vars, Inv, TypeOK, Own, Fenced, Awaits, Destined, Opening, Served, ReadyIsServed, Homed,
       Running

LEMMA NextInv == Inv /\ [Next]_vars => Inv'
<1> SUFFICES ASSUME Inv, Next PROVE Inv'
  BY StutterInv
<1>1. CASE Continue
  BY <1>1, ClosedInv, OpeningInv, CleanedInv, InstallInv, KillSidecarInv, StartRuntimeInv,
     StartFailedInv, RetriedInv, RequestInv DEF Continue
<1>2. CASE \E g \in Gens : Sidecar(g)
  BY <1>2, SidecarReadyInv, ReadinessTimeoutInv, CleanupTimeoutInv, StoppedExitInv,
     UnexpectedExitInv, SidecarFailsInv DEF Sidecar
<1>3. CASE Answers
  BY <1>3, RestorationInv, RememberedInv, InstallEndsInv, PickedInv, RequestInv DEF Answers
<1>4. CASE Window
  BY <1>4, RetryRefusedInv, RetryInv, RunUpdateInv, QuitInv, SwitchWorkspaceInv,
     PickWorkspaceInv, RequestInv DEF Window
<1> QED BY <1>1, <1>2, <1>3, <1>4 DEF Next

LEMMA SpecInv == Spec => []Inv
BY InitInv, NextInv, PTL DEF Spec

-----------------------------------------------------------------------------
(* The state of the desktop is well formed.                                *)
THEOREM SwitchTypeOK == Spec => []TypeOK
BY SpecInv, PTL DEF Inv

(* For any number of workspaces, switches, updates and failures: two       *)
(* sidecars of the desktop never run at once.                              *)
THEOREM OneRuntimeAlways == Spec => []OneRuntime
<1>1. Inv => OneRuntime
  BY DEF Inv, Own, OneRuntime
<1> QED BY <1>1, SpecInv, PTL

(* "ready" always speaks of the sidecar that runs, restored, for the       *)
(* workspace that is open.                                                 *)
THEOREM ReadyAlwaysServed == Spec => []ReadyIsServed
BY SpecInv, PTL DEF Inv, Served

(* No sidecar of the desktop outlives its quit.                            *)
THEOREM QuitIsClean == Spec => []QuitLeavesNothing
<1>1. Inv => QuitLeavesNothing
  BY DEF Inv, Awaits, Own, QuitLeavesNothing, Gens
<1> QED BY <1>1, SpecInv, PTL

(* A failed cleanup is final: it stays failed whatever happens later, and  *)
(* nothing is launched after it.                                           *)
THEOREM FailedCleanupIsFinal == Spec => NoReplacement
<1>1. ASSUME Inv, Next, NEW g \in Gens, gens[g].cleanup = "failed"
      PROVE  gens'[g].cleanup = "failed" /\ launched' = launched
  <2> DEFINE Final == gens'[g].cleanup = "failed" /\ launched' = launched
  <2>1. g = current /\ current # 0 /\ op.pc # "closed" /\ gens \in [Gens -> Generations]
    BY <1>1 DEF Inv, TypeOK, Own, Awaits, Gens
  <2>2. ASSUME UNCHANGED <<gens, launched>> PROVE Final
    BY <1>1, <2>2
  <2>3. ASSUME NEW t \in BOOLEAN, Stop(t), launched' = launched PROVE Final
    BY <1>1, <2>1, <2>3, StopFacts DEF Inv
  <2>4. ASSUME NEW o, NEW c, NEW t \in BOOLEAN, CloseCurrent(o, c, t), launched' = launched
        PROVE  Final
    BY <2>2, <2>3, <2>4 DEF CloseCurrent
  <2>5. ASSUME NEW c, NEW p, NEW t \in BOOLEAN, SwitchWorkspaceInternal(c, p, t),
               launched' = launched
        PROVE  Final
    BY <2>4, <2>5 DEF SwitchWorkspaceInternal
  <2>6. ASSUME NEW pc, NEW t \in BOOLEAN, CleanupAttemptedRuntime(pc, t), launched' = launched
        PROVE  Final
    BY <2>3, <2>6 DEF CleanupAttemptedRuntime
  <2>7. CASE Continue
    <3>1. ~KillSidecar /\ ~Install /\ \A t \in BOOLEAN : ~StartRuntime(t)
      BY <2>1 DEF KillSidecar, Install, StartRuntime
    <3>2. CASE Closed \/ Started \/ Remember \/ Cleaned \/ \E r \in Requests : Send(r)
      BY <1>1, <3>2 DEF Closed, Started, Remember, Cleaned, Send
    <3>3. ASSUME NEW t \in BOOLEAN, StartFailed(t) PROVE Final
      BY <2>6, <3>3 DEF StartFailed
    <3>4. ASSUME NEW t \in BOOLEAN, Retried(t) PROVE Final
      BY <2>2, <2>5, <3>4 DEF Retried
    <3> QED BY <2>7, <3>1, <3>2, <3>3, <3>4 DEF Continue
  <2>8. ASSUME NEW h \in Gens, Sidecar(h) PROVE Final
    <3>1. CASE SidecarReady(h) \/ CleanupTimeout(h) \/ StoppedExit(h) \/ UnexpectedExit(h)
      BY <1>1, <2>1, <3>1
         DEF SidecarReady, CleanupTimeout, StoppedExit, UnexpectedExit, Generations
    <3>2. CASE ReadinessTimeout(h) \/ \E t \in BOOLEAN : SidecarFails(h, t)
      <4>1. PICK t \in BOOLEAN : SidecarFails(h, t)
        BY <3>2 DEF ReadinessTimeout
      <4> DEFINE f == [gens[h] EXCEPT !.failed = TRUE]
      <4>2. f \in Generations /\ f.cleanup = gens[h].cleanup
        BY <2>1 DEF Generations
      <4>3. launched' = launched /\ gens' = [gens EXCEPT ![h] = Terminate(f, t)]
        BY <4>1 DEF SidecarFails
      <4> HIDE DEF f
      <4>4. gens[h].cleanup = "failed" => Terminate(f, t).cleanup = "failed"
        BY <4>2, TerminateFacts
      <4> QED BY <1>1, <2>1, <4>3, <4>4
    <3> QED BY <2>8, <3>1, <3>2 DEF Sidecar
  <2>9. ASSUME Answers PROVE Final
    <3>1. CASE Restored \/ \E t \in BOOLEAN : RestoreFails(t)
      BY <1>1, <3>1 DEF Restored, RestoreFails
    <3>2. CASE \E r \in Requests, ok \in BOOLEAN : Answer(r, ok)
      BY <1>1, <3>2 DEF Answer
    <3>3. ASSUME NEW t \in BOOLEAN, Remembered(t) PROVE Final
      BY <2>2, <2>6, <3>3 DEF Remembered
    <3>4. ASSUME NEW ok \in BOOLEAN, NEW t \in BOOLEAN, InstallEnds(ok, t) PROVE Final
      BY <2>2, <2>5, <3>4 DEF InstallEnds
    <3>5. ASSUME NEW p \in Path, NEW t \in BOOLEAN, Picked(p, t) PROVE Final
      BY <2>2, <2>5, <3>5 DEF Picked
    <3> HIDE DEF Final
    <3> QED BY <2>9, <3>1, <3>2, <3>3, <3>4, <3>5 DEF Answers
  <2>10. ASSUME Window PROVE Final
    <3>1. CASE RetryRefused \/ PickWorkspace \/ \E r \in Requests : Request(r)
      BY <1>1, <3>1 DEF RetryRefused, PickWorkspace, Request
    <3>2. ASSUME NEW t \in BOOLEAN, Retry(t) PROVE Final
      BY <2>5, <2>6, <3>2 DEF Retry
    <3>3. ASSUME NEW t \in BOOLEAN, RunUpdate(t) \/ Quit(t) PROVE Final
      BY <2>2, <2>4, <3>3 DEF RunUpdate, Quit
    <3>4. ASSUME NEW p \in Paths, NEW t \in BOOLEAN, SwitchWorkspace(p, t) PROVE Final
      BY <2>5, <3>4 DEF SwitchWorkspace
    <3> HIDE DEF Final
    <3> QED BY <2>10, <3>1, <3>2, <3>3, <3>4 DEF Window
  <2> QED BY <1>1, <2>7, <2>8, <2>9, <2>10 DEF Next
<1>2. Inv /\ [Next]_vars =>
        [\A g \in Gens : gens[g].cleanup = "failed" =>
            gens'[g].cleanup = "failed" /\ launched' = launched]_vars
  BY <1>1
<1> QED BY <1>2, SpecInv, PTL DEF Spec, NoReplacement

(* Only its own steps settle a request; the others leave the requests as   *)
(* they are or make all of them stale.                                     *)
LEMMA RequestSteps ==
    ASSUME Next
    PROVE  \/ req' = req \/ req' = Superseded
           \/ \E r \in Requests : Request(r) \/ Send(r) \/ \E ok \in BOOLEAN : Answer(r, ok)
<1> DEFINE Kept == req' = req \/ req' = Superseded
<1>1. ASSUME NEW o, NEW c, NEW t, CloseCurrent(o, c, t) PROVE Kept
  BY <1>1 DEF CloseCurrent
<1>2. ASSUME NEW c, NEW p, NEW t, SwitchWorkspaceInternal(c, p, t) PROVE Kept
  BY <1>1, <1>2 DEF SwitchWorkspaceInternal
<1>3. CASE Closed \/ Started \/ Remember \/ Cleaned \/ Install \/ KillSidecar
  BY <1>3 DEF Closed, Started, Remember, Cleaned, Install, KillSidecar
<1>4. ASSUME NEW t \in BOOLEAN, StartRuntime(t) \/ StartFailed(t) PROVE Kept
  BY <1>4 DEF StartRuntime, StartFailed
<1>5. ASSUME NEW t \in BOOLEAN, Retried(t) PROVE Kept
  BY <1>2, <1>5 DEF Retried
<1>6. ASSUME NEW g \in Gens, Sidecar(g) PROVE Kept
  <2>1. CASE SidecarReady(g) \/ CleanupTimeout(g) \/ StoppedExit(g) \/ UnexpectedExit(g)
    BY <2>1 DEF SidecarReady, CleanupTimeout, StoppedExit, UnexpectedExit
  <2>2. CASE ReadinessTimeout(g) \/ \E t \in BOOLEAN : SidecarFails(g, t)
    BY <2>2 DEF ReadinessTimeout, SidecarFails
  <2> QED BY <1>6, <2>1, <2>2 DEF Sidecar
<1>7. CASE Restored \/ \E t \in BOOLEAN : RestoreFails(t) \/ Remembered(t)
  BY <1>7 DEF Restored, RestoreFails, Remembered
<1>8. ASSUME NEW ok \in BOOLEAN, NEW t \in BOOLEAN, InstallEnds(ok, t) PROVE Kept
  BY <1>2, <1>8 DEF InstallEnds
<1>9. ASSUME NEW t \in BOOLEAN, Retry(t) PROVE Kept
  BY <1>2, <1>9 DEF Retry
<1>10. ASSUME NEW t \in BOOLEAN, RunUpdate(t) \/ Quit(t) PROVE Kept
  BY <1>1, <1>10 DEF RunUpdate, Quit
<1>11. ASSUME NEW p \in Paths, NEW t \in BOOLEAN, SwitchWorkspace(p, t) PROVE Kept
  BY <1>2, <1>11 DEF SwitchWorkspace
<1>12. CASE RetryRefused \/ PickWorkspace
  BY <1>12 DEF RetryRefused, PickWorkspace
<1>13. ASSUME NEW p \in Path, NEW t \in BOOLEAN, Picked(p, t) PROVE Kept
  BY <1>2, <1>13 DEF Picked
<1> HIDE DEF Kept
<1>14. Kept \/ \E r \in Requests : Request(r) \/ Send(r) \/ \E ok \in BOOLEAN : Answer(r, ok)
  BY <1>3, <1>4, <1>5, <1>6, <1>7, <1>8, <1>9, <1>10, <1>11, <1>12, <1>13
     DEF Next, Continue, Answers, Window, Kept
<1> QED BY <1>14 DEF Kept

(* Every answer the window gets comes from the sidecar and the workspace   *)
(* it asked.                                                               *)
THEOREM AnswersStayHome == Spec => AnswersFromHome
<1>1. ASSUME Inv, Next, NEW r \in Requests, req[r].pc = "sent", req'[r].pc = "answered"
      PROVE  req[r].home = co.path /\ req[r].gen = current /\ Running(current)
  <2>1. ~req[r].stale
    <3>1. CASE \E q \in Requests, ok \in BOOLEAN : Answer(q, ok)
      BY <1>1, <3>1 DEF Answer, IsCurrentReady, Inv, TypeOK, Bound
    <3>2. CASE \E q \in Requests : Request(q) \/ Send(q)
      BY <1>1, <3>2 DEF Request, Send, Inv, TypeOK, Bound
    <3>3. CASE req' = req
      BY <1>1, <3>3
    <3>4. CASE req' = Superseded
      BY <1>1, <3>4 DEF Superseded, Inv, TypeOK, Bound
    <3> QED BY <1>1, <3>1, <3>2, <3>3, <3>4, RequestSteps
  <2> QED BY <1>1, <2>1 DEF Inv, Homed, Served, ReadyIsServed
<1>2. Inv /\ [Next]_vars =>
        [\A r \in Requests : req[r].pc = "sent" /\ req'[r].pc = "answered" =>
            req[r].home = co.path /\ req[r].gen = current /\ Running(current)]_vars
  BY <1>1
<1> QED BY <1>2, SpecInv, PTL DEF Spec, AnswersFromHome

=============================================================================
