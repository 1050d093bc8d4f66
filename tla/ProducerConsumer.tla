-------------------------- MODULE ProducerConsumer --------------------------
(***************************************************************************)
(* unix-lab-04/pc.c: producers and consumers, processes that share a       *)
(* System V memory segment and three semaphores.                           *)
(*                                                                         *)
(* The segment holds ptr_prod, ptr_cons, alfa, and from addr3 on the cells *)
(* of the buffer.  Cells are counted from addr3; the mapping ends after    *)
(* CELLS of them, whatever SIZE_BUF is.  Histories: the letters the        *)
(* producers stored, and those the consumers printed, in that order.       *)
(***************************************************************************)
EXTENDS SysVSem, Sequences, FiniteSets

CONSTANTS
  Producers, Consumers,   (* the processes: three of each in the code      *)
  SIZE_BUF,               (* what semaphore SE starts with                 *)
  CELLS,                  (* cells up to the end of the page: 4023         *)
  CHAR,                   (* the values of a char: 256                     *)
  MaxLetters,             (* bound: the letters produced                   *)
  MaxKills                (* bound: the processes killed from outside      *)

ASSUME ProducerConsumerAssumption ==
  /\ Producers \intersect Consumers = {}
  /\ SIZE_BUF \in 1 .. SEMVMX
  /\ CELLS \in Nat \ {0}
  /\ CHAR \in Nat \ {0}
  /\ MaxLetters \in Nat
  /\ MaxKills \in Nat

VARIABLES
  parent,     (* main(): forking, waiting, or gone                         *)
  pc,         (* the place of each child                                   *)
  sem,        (* the semaphores SB, SE, SF                                 *)
  ptr_prod, ptr_cons, alfa, cell,         (* the segment                   *)
  written, printed,                       (* the histories                 *)
  kills

segment == <<ptr_prod, ptr_cons, alfa, cell>>
stdout == <<written, printed>>
vars == <<parent, pc, sem, segment, stdout, kills>>

Procs == Producers \union Consumers

SB == 0
SE == 1
SF == 2

(* Mutants: wait-for-zero for P, and a producer that gives its cell back.  *)
start_consume_zero == <<Sembuf(SF, P), Sembuf(SB, 0)>>
stop_produce_copied == <<Sembuf(SB, V), Sembuf(SE, V)>>

start_produce == <<Sembuf(SE, P), Sembuf(SB, P)>>
stop_produce == <<Sembuf(SB, V), Sembuf(SF, V)>>
start_consume == <<Sembuf(SF, P), Sembuf(SB, P)>>
stop_consume == <<Sembuf(SB, V), Sembuf(SE, V)>>

(* Chars are counted from 'a'. *)
FirstLetter == 0

(* A dead child has left the place it died at, but not the semaphores it   *)
(* held: a child that dies in its critical section dies "in".              *)
Producing == {"write", "advance", "next", "published"}
Consuming == {"print", "increment", "taken"}
InSection == Producing \union Consuming \union {"dead in"}

Init ==
  /\ parent = "forking"
  /\ pc = [p \in Procs |-> "unborn"]
  /\ sem = [s \in {SB, SE, SF} |-> CASE s = SB -> 1 [] s = SE -> SIZE_BUF [] s = SF -> 0]
  /\ ptr_prod = 0
  /\ ptr_cons = 0
  /\ alfa = FirstLetter
  /\ \E junk \in 0 .. CHAR - 1 : cell = [i \in 0 .. CELLS - 1 |-> junk]
  /\ written = <<>>
  /\ printed = <<>>
  /\ kills = 0

-----------------------------------------------------------------------------
(* main(): fork the producers, then the consumers, then wait for them all. *)
Fork(p) ==
  /\ parent = "forking"
  /\ pc[p] = "unborn"
  /\ p \in Consumers => \A q \in Producers : pc[q] # "unborn"
  /\ pc' = [pc EXCEPT ![p] = "start"]
  /\ parent' = IF \A q \in Procs \ {p} : pc[q] # "unborn" THEN "waiting" ELSE parent
  /\ UNCHANGED <<sem, segment, stdout, kills>>

(* fork() fails: the parent exits, the children born so far go on.         *)
ForkFails ==
  /\ parent = "forking"
  /\ kills < MaxKills
  /\ kills' = kills + 1
  /\ parent' = "gone"
  /\ UNCHANGED <<pc, sem, segment, stdout>>

Reap ==
  /\ parent = "waiting"
  /\ \A p \in Procs : pc[p] \in {"dead", "dead in"}
  /\ parent' = "gone"
  /\ UNCHANGED <<pc, sem, segment, stdout, kills>>

(* A child calls semop with bufs in place from and goes on to place to.    *)
SemStep(p, from, bufs, to) ==
  /\ pc[p] = from
  /\ Semop2(sem, bufs).out = "OK"
  /\ sem' = Semop2(sem, bufs).sem
  /\ pc' = [pc EXCEPT ![p] = to]
  /\ UNCHANGED <<parent, kills>>

Goto(p, from, to) ==
  /\ pc[p] = from
  /\ pc' = [pc EXCEPT ![p] = to]
  /\ UNCHANGED <<parent, sem, kills>>

-----------------------------------------------------------------------------
(* producer() *)
StartProduce(p) ==
  /\ Len(written) < MaxLetters
  /\ SemStep(p, "start", start_produce, "write")
  /\ UNCHANGED <<segment, stdout>>

(* **ptr_prod = *alfa, and the line that shows it *)
Write(p) ==
  /\ ptr_prod < CELLS
  /\ Goto(p, "write", "advance")
  /\ cell' = [cell EXCEPT ![ptr_prod] = alfa]
  /\ written' = Append(written, alfa)
  /\ UNCHANGED <<ptr_prod, ptr_cons, alfa, printed>>

(* ptr_prod has left the mapped page: SIGSEGV. *)
WriteFaults(p) ==
  /\ ptr_prod >= CELLS
  /\ Goto(p, "write", "dead in")
  /\ UNCHANGED <<segment, stdout>>

(* ( *ptr_prod)++ *)
Advance(p) ==
  /\ Goto(p, "advance", "next")
  /\ ptr_prod' = ptr_prod + 1
  /\ UNCHANGED <<ptr_cons, alfa, cell, stdout>>

(* Mutant: alfa is wider than a char. *)
NextLetterWide(p) ==
  /\ Goto(p, "next", "published")
  /\ alfa' = alfa + 1
  /\ UNCHANGED <<ptr_prod, ptr_cons, cell, stdout>>

(* ( *alfa)++ *)
NextLetter(p) ==
  /\ Goto(p, "next", "published")
  /\ alfa' = (alfa + 1) % CHAR
  /\ UNCHANGED <<ptr_prod, ptr_cons, cell, stdout>>

(* Mutant: semop is told of one operation only. *)
StopProduceOne(p) ==
  /\ pc[p] = "published"
  /\ sem' = Semop1(sem, stop_produce).sem
  /\ pc' = [pc EXCEPT ![p] = "start"]
  /\ UNCHANGED <<parent, segment, stdout, kills>>

StopProduce(p) ==
  /\ SemStep(p, "published", stop_produce, "start")
  /\ UNCHANGED <<segment, stdout>>

Producer(p) ==
  \/ StartProduce(p) \/ Write(p) \/ WriteFaults(p) \/ Advance(p)
  \/ NextLetter(p) \/ StopProduce(p)

-----------------------------------------------------------------------------
(* consumer() *)
StartConsume(p) ==
  /\ SemStep(p, "start", start_consume, "print")
  /\ UNCHANGED <<segment, stdout>>

(* printf of **ptr_cons *)
Show(p) ==
  /\ Goto(p, "print", "increment")
  /\ printed' = Append(printed, cell[ptr_cons])
  /\ UNCHANGED <<segment, written>>

(* Mutant: the consumer leaves the letter and the pointer alone. *)
IncrementNothing(p) ==
  /\ Goto(p, "increment", "taken")
  /\ UNCHANGED <<segment, stdout>>

(* ( **ptr_cons)++: the letter in the cell is incremented, not ptr_cons.   *)
Increment(p) ==
  /\ Goto(p, "increment", "taken")
  /\ cell' = [cell EXCEPT ![ptr_cons] = (@ + 1) % CHAR]
  /\ UNCHANGED <<ptr_prod, ptr_cons, alfa, stdout>>

StopConsume(p) ==
  /\ SemStep(p, "taken", stop_consume, "start")
  /\ UNCHANGED <<segment, stdout>>

Consumer(p) == StartConsume(p) \/ Show(p) \/ Increment(p) \/ StopConsume(p)

-----------------------------------------------------------------------------
(* A child is killed.  Its semaphores stay as they are: no SEM_UNDO.       *)
Kill(p) ==
  /\ kills < MaxKills
  /\ pc[p] \notin {"unborn", "dead", "dead in"}
  /\ kills' = kills + 1
  /\ pc' = [pc EXCEPT ![p] = IF @ \in InSection THEN "dead in" ELSE "dead"]
  /\ UNCHANGED <<parent, sem, segment, stdout>>

Next ==
  \/ ForkFails \/ Reap
  \/ \E p \in Procs : Fork(p) \/ Kill(p)
  \/ \E p \in Producers : Producer(p)
  \/ \E p \in Consumers : Consumer(p)

Spec == Init /\ [][Next]_vars

(* The scheduler runs every process.  Linux serves the sleepers of a       *)
(* semaphore set in the order they came, so one whose operations can be    *)
(* done again and again is not passed over for ever.  A producer may stop  *)
(* for good before it calls semop for another cell.                        *)
FairSpec ==
  /\ Spec
  /\ WF_vars(\E p \in Procs : Fork(p))
  /\ \A p \in Producers : WF_vars(Producer(p) /\ pc[p] # "start")
  /\ \A p \in Consumers : WF_vars(Consumer(p)) /\ SF_vars(StartConsume(p))

(* No producer stops: the same of their calls of semop.                    *)
ProducersGoOn ==
  \A p \in Producers : WF_vars(Producer(p)) /\ SF_vars(StartProduce(p))

-----------------------------------------------------------------------------
TypeOK ==
  /\ parent \in {"forking", "waiting", "gone"}
  /\ pc \in [Procs -> {"unborn", "start", "dead"} \union InSection]
  /\ sem \in [{SB, SE, SF} -> 0 .. SEMVMX]
  /\ ptr_prod \in 0 .. CELLS
  /\ ptr_cons \in 0 .. CELLS - 1
  /\ alfa \in 0 .. CHAR - 1
  /\ cell \in [0 .. CELLS - 1 -> 0 .. CHAR - 1]
  /\ written \in Seq(0 .. CHAR - 1)
  /\ printed \in Seq(0 .. CHAR - 1)
  /\ kills \in 0 .. MaxKills

(* One process at a time is in its critical section, a dead one included,  *)
(* and it has taken SB; SE and SF count the empty and the full cells, and  *)
(* what is missing from SIZE_BUF is in the hands of that process.          *)
CellsCounted ==
  LET inside == Cardinality({p \in Procs : pc[p] \in InSection})
  IN  /\ sem[SB] = 1 - inside
      /\ sem[SE] + sem[SF] + inside = SIZE_BUF

(* The semaphores and the letters implement a bounded FIFO buffer: a line  *)
(* of a consumer repeats the oldest line of a producer not yet repeated,   *)
(* and at most SIZE_BUF of them wait.                                      *)
Buffer == INSTANCE BoundedBuffer WITH
  Letters <- 0 .. CHAR - 1,
  Capacity <- SIZE_BUF,
  buffer <- SubSeq(written, Len(printed) + 1, Len(written)),
  out <- printed

ImplementsBuffer == Buffer!Spec

(* When no child can go on, either somebody died in its critical section,  *)
(* or one kind of process is gone and the other has nothing to do.         *)
Living(S) == {p \in S : pc[p] \notin {"unborn", "dead", "dead in"}}
Blocked(p, bufs) == pc[p] = "start" /\ Semop2(sem, bufs).out = "EAGAIN"
AllBlocked ==
  /\ parent # "forking"
  /\ \A p \in Living(Producers) : Blocked(p, start_produce)
  /\ \A p \in Living(Consumers) : Blocked(p, start_consume)

StuckForAReason ==
  AllBlocked =>
    \/ \E p \in Procs : pc[p] = "dead in"
    \/ Living(Producers) = {} /\ (Living(Consumers) = {} \/ sem[SF] = 0)
    \/ Living(Consumers) = {} /\ sem[SE] = 0

(* Whatever a producer prints a consumer prints later, also when no        *)
(* producer ever comes again, and whoever is killed outside its critical   *)
(* section: as long as a consumer is left, and nobody dies inside.         *)
NobodyConsumes ==
  \/ \E p \in Procs : pc[p] = "dead in"
  \/ parent # "forking" /\ Living(Consumers) = {}
ProducedIsConsumed ==
  \A k \in 1 .. MaxLetters : Len(written) >= k ~> Len(printed) >= k \/ NobodyConsumes

(* ptr_prod is never reset: if nothing else goes wrong before, and the     *)
(* producers go on, one of them walks off the page, holding SB, and every  *)
(* other process is stuck.                                                 *)
Wedged == \E p \in Producers : pc[p] = "dead in" /\ ptr_prod = CELLS
WedgesInTheEnd ==
  ProducersGoOn => <>[](Wedged /\ AllBlocked) \/ <>(kills > 0)

=============================================================================
