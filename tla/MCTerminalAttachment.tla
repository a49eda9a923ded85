----------------------- MODULE MCTerminalAttachment -------------------------
(* Model values and symmetry for the runs of TerminalAttachment. *)
EXTENDS TerminalAttachment, TLC

CONSTANTS s1, s2, s3

SocketSymmetry == Permutations(Sockets)
=============================================================================
