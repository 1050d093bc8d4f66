-------------------------- MODULE MCReadersWriters --------------------------
(* Two readers and two writers, semaphores and ints of a few values.       *)
EXTENDS ReadersWriters

CONSTANTS r1, r2, w1, w2

MCReaders == {r1, r2}
MCWriters == {w1, w2}

=============================================================================
