------------------------------ MODULE SysVSem -------------------------------
(***************************************************************************)
(* semop() of System V semaphores, as the programs of unix-lab-04 use it.  *)
(* The operations of one call are tried in the order of the array; the     *)
(* first that cannot be done decides the outcome of the call, and then     *)
(* none of them takes effect.  A call that blocks is tried again when a    *)
(* semaphore changes.  No operation has SEM_UNDO.                          *)
(***************************************************************************)
EXTENDS Integers

CONSTANT SEMVMX     (* the largest value of a semaphore: 32767 on Linux *)

ASSUME SemvmxAssumption == SEMVMX \in Nat \ {0}

(* A sembuf: on semaphore num, wait for zero (op = 0), P (-1) or V (1). *)
Sembuf(num, op) == [num |-> num, op |-> op]
P == -1
V == 1

Outcome(sem, buf) ==
  IF IF buf.op = 0 THEN sem[buf.num] = 0 ELSE sem[buf.num] + buf.op \in 0 .. SEMVMX
    THEN "OK"
    ELSE IF buf.op = V THEN "ERANGE" ELSE "EAGAIN"

(* A call in progress: the values so far, and whether it has failed.       *)
Begin(sem) == [sem |-> sem, out |-> "OK"]

Then(call, buf) ==
  IF call.out # "OK" THEN call
  ELSE [sem |-> [call.sem EXCEPT ![buf.num] = @ + buf.op],
        out |-> Outcome(call.sem, buf)]

(* semop(semid, bufs, 1), semop(semid, bufs, 2) and semop(semid, bufs, 4). *)
Semop1(sem, bufs) == Then(Begin(sem), bufs[1])
Semop2(sem, bufs) == Then(Semop1(sem, bufs), bufs[2])
Semop4(sem, bufs) == Then(Then(Semop2(sem, bufs), bufs[3]), bufs[4])

=============================================================================
