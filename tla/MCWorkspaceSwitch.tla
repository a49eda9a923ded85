-------------------------- MODULE MCWorkspaceSwitch --------------------------
(* Model values for the run of WorkspaceSwitch. *)
EXTENDS WorkspaceSwitch

CONSTANTS p, q, r
=============================================================================
