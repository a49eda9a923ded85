-------------------------- MODULE MCWorkspaceLease --------------------------
(* Small instances of WorkspaceLease for TLC: two sidecars and two gc       *)
(* passes, which are interchangeable.                                      *)
EXTENDS WorkspaceLease, TLC

Symmetry == Permutations(Sidecars) \cup Permutations(Collectors)

=============================================================================
