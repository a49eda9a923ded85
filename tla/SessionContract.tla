--------------------------- MODULE SessionContract --------------------------
(***************************************************************************)
(* What a session promises to everyone outside the runtime: one generation *)
(* at a time is registered, its phase only moves forward through ending,   *)
(* a process runs only for the registered generation, and a generation is  *)
(* completed only after its process has stopped.                           *)
(*                                                                         *)
(* SessionLifecycle implements this specification.                         *)
(***************************************************************************)
EXTENDS Naturals

CONSTANTS
    MaxGen,    \* bound: generations of the session
    Crashes    \* whether the sidecar may crash

VARIABLES
    gen,     \* the registered generation, 0 for none
    phase,   \* its lifecycle phase, "none" without one
    alive    \* generations with a running process

vars == <<gen, phase, alive>>

Init == gen = 0 /\ phase = "none" /\ alive = {}

(* A create or resume is admitted: never over a runtime that still works.  *)
Admit ==
    /\ phase \in {"none", "ended"} /\ alive = {}
    /\ gen' \in gen + 1 .. MaxGen
    /\ phase' = "creating"
    /\ UNCHANGED alive

(* An admission is rolled back to what it replaced, before a process.      *)
Withdraw ==
    /\ phase \in {"creating", "ending"} /\ alive = {}
    /\ gen' \in 0 .. gen - 1
    /\ phase' = IF gen' = 0 THEN "none" ELSE "ended"
    /\ UNCHANGED alive

Spawn ==
    /\ phase \in {"creating", "ending"} /\ alive = {}
    /\ alive' = {gen}
    /\ UNCHANGED <<gen, phase>>

Stop == alive # {} /\ alive' = {} /\ UNCHANGED <<gen, phase>>

(* A process may be gone by the time running is published. *)
Activate == phase = "creating" /\ phase' = "active" /\ UNCHANGED <<gen, alive>>

End == phase \in {"creating", "active"} /\ phase' = "ending" /\ UNCHANGED <<gen, alive>>

Complete == phase = "ending" /\ alive = {} /\ phase' = "ended" /\ UNCHANGED <<gen, alive>>

Forget ==
    /\ phase = "ended" /\ alive = {}
    /\ gen' = 0 /\ phase' = "none" /\ UNCHANGED alive

Crash == Crashes /\ gen' = 0 /\ phase' = "none" /\ alive' = {}

Next ==
    \/ Admit \/ Withdraw \/ Spawn \/ Stop \/ Activate \/ End \/ Complete
    \/ Forget \/ Crash

Spec == Init /\ [][Next]_vars
=============================================================================
