---------------------------- MODULE MCWinMonitor ----------------------------
(* A few readers and writers with a few runs each. *)
EXTENDS WinMonitor

CONSTANTS r1, r2, w1, w2

TwoReaders == {r1, r2}
TwoWriters == {w1, w2}

=============================================================================
