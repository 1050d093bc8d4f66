--------------------------- MODULE ReadersWriters ---------------------------
(***************************************************************************)
(* unix-lab-04/rw.c: readers and writers, processes that share one int and *)
(* a set of five System V semaphores.                                      *)
(*                                                                         *)
(* Two things about the code decide its behaviour.  start_read waits for   *)
(* BIN_WRITER to be zero, and BIN_WRITER is one when nobody writes.  And   *)
(* start_read has five operations, of which semop is told four, so that    *)
(* WAITING_READERS is never decremented; what semop answers when it can no *)
(* longer be incremented (ERANGE) is not looked at.                        *)
(*                                                                         *)
(* The int and the semaphores outlive the program, and main() sets two of  *)
(* them without looking whether processes of an earlier run are there: the *)
(* children of a parent whose fork failed, or a run in another terminal.   *)
(***************************************************************************)
EXTENDS SysVSem, FiniteSets

CONSTANTS
  Readers, Writers,   (* the pids of readers and writers                   *)
  COUNT_READERS, COUNT_WRITERS,   (* how many a run forks: five and two    *)
  INT,                (* the values of an int: 2^32                        *)
  MaxRuns,            (* bound: how often the program is started           *)
  MayFail             (* may fork fail?                                    *)

ASSUME ReadersWritersAssumption ==
  /\ Readers \intersect Writers = {}
  /\ IsFiniteSet(Readers) /\ IsFiniteSet(Writers)
  /\ COUNT_READERS \in Nat /\ COUNT_WRITERS \in Nat
  /\ INT \in Nat \ {0}
  /\ MaxRuns \in Nat \ {0}
  /\ MayFail \in BOOLEAN

VARIABLES
  parent,     (* the place of main() in the latest run                     *)
  pc,         (* the place of each child                                   *)
  older,      (* the children of earlier runs                              *)
  sem,        (* the semaphores                                            *)
  shm,        (* the shared int                                            *)
  loaded,     (* what each writer has loaded from it                       *)
  writes,     (* history: the increments since it was cleared, modulo INT  *)
  run,        (* how often the program has been started                    *)
  inherited,  (* history: ACTIVE_READERS as the latest run found it        *)
  beside      (* history: were there other processes when it was started?  *)

runs == <<older, run, inherited, beside>>
vars == <<parent, pc, sem, shm, loaded, writes, runs>>

Procs == Readers \union Writers

WAITING_READERS == 0
ACTIVE_READERS == 1
ACTIVE_WRITER == 2
WAITING_WRITERS == 3
BIN_WRITER == 4
Semaphores == 0 .. 4

(* Mutants of the arrays of operations: one left out, or on the wrong      *)
(* semaphore.                                                              *)
start_read_dropped == <<Sembuf(WAITING_READERS, V), Sembuf(BIN_WRITER, 0),
                        Sembuf(ACTIVE_READERS, V), Sembuf(WAITING_READERS, P)>>
start_write_hasty == <<Sembuf(WAITING_WRITERS, V), Sembuf(ACTIVE_WRITER, 0),
                       Sembuf(BIN_WRITER, P), Sembuf(WAITING_WRITERS, P)>>
start_write_unlocked == <<Sembuf(WAITING_WRITERS, V), Sembuf(ACTIVE_READERS, 0),
                          Sembuf(ACTIVE_WRITER, 0), Sembuf(WAITING_WRITERS, P)>>
stop_write_other == <<Sembuf(ACTIVE_WRITER, V)>>

start_read == <<Sembuf(WAITING_READERS, V), Sembuf(BIN_WRITER, 0), Sembuf(WAITING_WRITERS, 0),
                Sembuf(ACTIVE_READERS, V), Sembuf(WAITING_READERS, P)>>
stop_read == <<Sembuf(ACTIVE_READERS, P)>>
start_write == <<Sembuf(WAITING_WRITERS, V), Sembuf(ACTIVE_READERS, 0),
                 Sembuf(BIN_WRITER, P), Sembuf(WAITING_WRITERS, P)>>
stop_write == <<Sembuf(BIN_WRITER, V)>>

(* A reader is "astray" between a start_read that failed and its stop_read. *)
Reading == {"print", "stop"}
Astray == {"print astray", "stop astray"}
Writing == {"load", "store", "leave"}

(* main(): attach and clear the int, set BIN_WRITER.  A new semaphore set  *)
(* is all zeros; an old one keeps the values it has.                       *)
Init ==
  /\ parent = "forking"
  /\ pc = [p \in Procs |-> "unborn"]
  /\ older = {}
  /\ sem = [s \in Semaphores |-> IF s = BIN_WRITER THEN 1 ELSE 0]
  /\ shm = 0
  /\ loaded = [w \in Writers |-> 0]
  /\ writes = 0
  /\ run = 1
  /\ inherited = 0
  /\ beside = FALSE

-----------------------------------------------------------------------------
Alive == {p \in Procs : pc[p] # "unborn"}
Own(S) == (S \intersect Alive) \ older

(* main(): fork the writers, then the readers, then wait. *)
Fork(p) ==
  /\ parent = "forking"
  /\ pc[p] = "unborn"
  /\ IF p \in Writers
       THEN Cardinality(Own(Writers)) < COUNT_WRITERS
       ELSE Cardinality(Own(Writers)) = COUNT_WRITERS
  /\ pc' = [pc EXCEPT ![p] = "start"]
  /\ parent' = IF Cardinality(Own(Procs)) + 1 = COUNT_WRITERS + COUNT_READERS
                 THEN "waiting" ELSE parent
  /\ UNCHANGED <<sem, shm, loaded, writes, runs>>

(* Only the parent exits; its children go on. *)
ForkFails ==
  /\ MayFail
  /\ parent = "forking"
  /\ parent' = "gone"
  /\ UNCHANGED <<pc, sem, shm, loaded, writes, runs>>

(* Processes that are killed leave the semaphores as they are. *)
Interrupted(killed) ==
  /\ pc' = [p \in Procs |-> IF p \in killed THEN "unborn" ELSE pc[p]]
  /\ loaded' = [w \in Writers |-> IF w \in killed THEN 0 ELSE loaded[w]]
  /\ UNCHANGED <<sem, shm, writes, run, inherited, beside>>

(* The program has no end of its own: all processes of the latest run are  *)
(* interrupted, wherever they are, or those of the earlier ones.           *)
Interrupt ==
  /\ parent # "interrupted"
  /\ parent' = "interrupted"
  /\ Interrupted(Alive \ older)
  /\ UNCHANGED older

InterruptOlder ==
  /\ older # {}
  /\ older' = {}
  /\ Interrupted(older)
  /\ UNCHANGED parent

(* The program is started again, whoever is still there.  main() clears    *)
(* the int.                                                                *)
Restart ==
  /\ run < MaxRuns
  /\ parent \in {"waiting", "gone", "interrupted"}
  /\ parent' = "semctl"
  /\ run' = run + 1
  /\ older' = Alive
  /\ beside' = (Alive # {})
  /\ inherited' = sem[ACTIVE_READERS]
  /\ shm' = 0
  /\ writes' = 0
  /\ UNCHANGED <<pc, sem, loaded>>

(* semctl(SETVAL): BIN_WRITER becomes one, whatever it was. *)
SetBinWriter ==
  /\ parent = "semctl"
  /\ parent' = "forking"
  /\ sem' = [sem EXCEPT ![BIN_WRITER] = 1]
  /\ UNCHANGED <<pc, shm, loaded, writes, runs>>

Main == SetBinWriter \/ \E p \in Procs : Fork(p)

Goto(p, from, to) ==
  /\ pc[p] = from
  /\ pc' = [pc EXCEPT ![p] = to]
  /\ UNCHANGED <<parent, runs>>

-----------------------------------------------------------------------------
(* reader() *)
StartRead(p) ==
  LET call == Semop4(sem, start_read) IN
  /\ Goto(p, "start", "print")
  /\ call.out = "OK"
  /\ sem' = call.sem
  /\ UNCHANGED <<shm, loaded, writes>>

StartReadFails(p) ==
  /\ Goto(p, "start", "print astray")
  /\ Semop4(sem, start_read).out = "ERANGE"
  /\ UNCHANGED <<sem, shm, loaded, writes>>

Show(p) ==
  /\ \/ Goto(p, "print", "stop")
     \/ Goto(p, "print astray", "stop astray")
  /\ UNCHANGED <<sem, shm, loaded, writes>>

StopRead(p) ==
  LET call == Semop1(sem, stop_read) IN
  /\ Goto(p, "stop", "start") \/ Goto(p, "stop astray", "start")
  /\ call.out = "OK"
  /\ sem' = call.sem
  /\ UNCHANGED <<shm, loaded, writes>>

Reader(p) == StartRead(p) \/ StartReadFails(p) \/ Show(p) \/ StopRead(p)

-----------------------------------------------------------------------------
(* writer(): ( *shm)++ is a load and a store. *)
StartWrite(p) ==
  LET call == Semop4(sem, start_write) IN
  /\ Goto(p, "start", "load")
  /\ call.out = "OK"
  /\ sem' = call.sem
  /\ UNCHANGED <<shm, loaded, writes>>

Load(p) ==
  /\ Goto(p, "load", "store")
  /\ loaded' = [loaded EXCEPT ![p] = shm]
  /\ UNCHANGED <<sem, shm, writes>>

(* Mutant: the int does not wrap. *)
StoreWide(p) ==
  /\ Goto(p, "store", "leave")
  /\ shm' = loaded[p] + 1
  /\ writes' = (writes + 1) % INT
  /\ loaded' = [loaded EXCEPT ![p] = 0]
  /\ UNCHANGED sem

(* What was loaded is not used again. *)
Store(p) ==
  /\ Goto(p, "store", "leave")
  /\ shm' = (loaded[p] + 1) % INT
  /\ writes' = (writes + 1) % INT
  /\ loaded' = [loaded EXCEPT ![p] = 0]
  /\ UNCHANGED sem

(* A semop that fails with ERANGE is not noticed. *)
StopWrite(p) ==
  LET call == Semop1(sem, stop_write) IN
  /\ Goto(p, "leave", "start")
  /\ sem' = IF call.out = "OK" THEN call.sem ELSE sem
  /\ UNCHANGED <<shm, loaded, writes>>

Writer(p) == StartWrite(p) \/ Load(p) \/ Store(p) \/ StopWrite(p)

-----------------------------------------------------------------------------
Next ==
  \/ Main \/ ForkFails
  \/ Interrupt \/ InterruptOlder \/ Restart
  \/ \E p \in Readers : Reader(p)
  \/ \E p \in Writers : Writer(p)

Spec == Init /\ [][Next]_vars

(* Every process keeps running; sleepers of a semaphore set are served in  *)
(* the order they came, as soon as their operations can be done.           *)
FairSpec ==
  /\ Spec
  /\ WF_vars(Main)
  /\ \A p \in Readers : SF_vars(StartRead(p)) /\ WF_vars(StartReadFails(p) \/ Show(p) \/ StopRead(p))
  /\ \A p \in Writers : SF_vars(StartWrite(p)) /\ WF_vars(Load(p) \/ Store(p) \/ StopWrite(p))

-----------------------------------------------------------------------------
TypeOK ==
  /\ parent \in {"semctl", "forking", "waiting", "gone", "interrupted"}
  /\ \A p \in Readers : pc[p] \in {"unborn", "start"} \union Reading \union Astray
  /\ \A p \in Writers : pc[p] \in {"unborn", "start"} \union Writing
  /\ older \subseteq Procs
  /\ sem \in [Semaphores -> 0 .. SEMVMX]
  /\ shm \in 0 .. INT - 1
  /\ loaded \in [Writers -> 0 .. INT - 1]
  /\ writes \in 0 .. INT - 1
  /\ run \in 1 .. MaxRuns
  /\ inherited \in 0 .. SEMVMX
  /\ beside \in BOOLEAN

WritersIn == {w \in Writers : pc[w] \in Writing}

(* A run that was started when the earlier ones were over.                 *)
Alone == ~beside /\ parent \notin {"interrupted", "semctl"}

(* Each start of the program lets one more writer in, and no more than     *)
(* that, whichever processes of which runs are left.                       *)
OneWriterPerRun == Cardinality(WritersIn) + sem[BIN_WRITER] <= run

(* So it is with runs that overlap.  In a run that was started when the    *)
(* earlier ones were over BIN_WRITER is a mutex: one writer at a time,     *)
(* whatever the readers do, and no increment of the int is lost.           *)
NoLostUpdate ==
  /\ OneWriterPerRun
  /\ Alone =>
       /\ Cardinality(WritersIn) = 1 - sem[BIN_WRITER]
       /\ \A w \in Writers : pc[w] = "store" => loaded[w] = shm
       /\ shm = writes

(* WAITING_READERS counts every read there was, until it is full.          *)
Full == sem[WAITING_READERS] = SEMVMX

(* A writer never comes in on a reader, of whichever run, until            *)
(* WAITING_READERS is full and a reader whose start_read failed takes      *)
(* another's ACTIVE_READERS away.                                          *)
WritersEnterAlone ==
  [][\A w \in Writers : StartWrite(w) /\ ~Full =>
       \A r \in Readers : pc[r] \notin Reading \union Astray]_vars

(* A run that is interrupted during a read leaves ACTIVE_READERS behind,   *)
(* which nobody resets.  In the next run nobody ever reads or writes,      *)
(* unless a reader of an earlier run is left that takes it back, or        *)
(* WAITING_READERS is full.                                                *)
NextRunIsDead ==
  inherited > 0 /\ ~beside /\ ~Full =>
    \A p \in Procs : pc[p] \in {"unborn", "start"}

(* Every writer writes again and again, whatever the readers do, unless    *)
(* the run has inherited an ACTIVE_READERS, is interrupted, or is beside   *)
(* an earlier one, which may be interrupted and leave a semaphore taken.   *)
WritersProgress ==
  \A w \in Writers :
    pc[w] = "start" /\ inherited = 0 /\ ~beside ~> pc[w] # "start" \/ inherited > 0 \/ beside

(* The readers all hang in the end: once WAITING_READERS is full every     *)
(* start_read fails, and stop_read waits for an ACTIVE_READERS that nobody *)
(* increments.                                                             *)
HangsReading(r) == pc[r] \in {"stop", "stop astray"} /\ sem[ACTIVE_READERS] = 0
AllHang == \A r \in Readers : pc[r] = "unborn" \/ HangsReading(r)
ReadersHang == <>[](AllHang \/ parent # "waiting" \/ inherited > 0 \/ beside)

(* Readme.md, line 25: readers read in parallel, writers have exclusive    *)
(* access.                                                                 *)
WriterMonopoly ==
  \A r \in Readers, w \in Writers : ~(pc[r] \in Reading /\ pc[w] \in Writing)

=============================================================================
