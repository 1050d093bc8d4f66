------------------------------ MODULE MCDaemon ------------------------------
(* The command is given three times. *)
EXTENDS Daemon

CONSTANTS p1, p2, p3

ThreeProcs == {p1, p2, p3}

=============================================================================
