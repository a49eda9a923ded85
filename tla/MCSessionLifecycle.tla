------------------------ MODULE MCSessionLifecycle --------------------------
(* Model values of the resume requests for the runs of SessionLifecycle. *)
EXTENDS SessionLifecycle
CONSTANTS r1, r2
=============================================================================
