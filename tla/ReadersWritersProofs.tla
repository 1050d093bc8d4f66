------------------------ MODULE ReadersWritersProofs ------------------------
(* The theorems about ReadersWriters, for all finite sets of readers and   *)
(* writers, every SEMVMX, and any number of runs, over or beside another.  *)
EXTENDS ReadersWriters, FiniteSetTheorems, TLAPS

(* The places of a process, of either kind.                                *)
Places == {"unborn", "start"} \union Reading \union Astray \union Writing

(* What a set of semaphores may hold.                                      *)
Sems == [Semaphores -> 0 .. SEMVMX]

PlaceInv ==
  /\ pc \in [Procs -> Places]
  /\ TypeOK

(* Nobody ever touches ACTIVE_WRITER for good, and every V of              *)
(* WAITING_WRITERS is taken back by the same call.                         *)
IdleInv ==
  /\ sem[ACTIVE_WRITER] = 0
  /\ sem[WAITING_WRITERS] = 0

(* A run that was started when the earlier ones were over has nobody       *)
(* beside it, and nobody at all before its first fork or after its end.    *)
AloneInv ==
  ~beside =>
    /\ older = {}
    /\ parent \in {"interrupted", "semctl"} => \A p \in Procs : pc[p] = "unborn"

(* In such a run BIN_WRITER is taken by the one writer that is writing.    *)
MutexInv ==
  Alone =>
    /\ sem[BIN_WRITER] \in {0, 1}
    /\ \A v, w \in Writers : pc[v] \in Writing /\ pc[w] \in Writing => v = w
    /\ sem[BIN_WRITER] = 0 <=> \E w \in Writers : pc[w] \in Writing

(* The int is what the writers have made it.                               *)
IntInv ==
  ~beside /\ parent # "interrupted" =>
    /\ \A w \in Writers : pc[w] = "store" => loaded[w] = shm
    /\ shm = writes

(* Each start of the program has raised BIN_WRITER at most once.           *)
RunsInv == Cardinality(WritersIn) + sem[BIN_WRITER] <= IF parent = "semctl" THEN run - 1 ELSE run

(* The readers that are reading.                                           *)
ReadersIn == {r \in Readers : pc[r] \in Reading}

(* ACTIVE_READERS counts them, on top of what earlier runs left in it,     *)
(* until WAITING_READERS is full; ACTIVE_READERS is full no sooner.        *)
CountInv ==
  /\ sem[ACTIVE_READERS] <= sem[WAITING_READERS]
  /\ ~Full =>
       /\ \A r \in Readers : pc[r] \notin Astray
       /\ Cardinality(ReadersIn) <= sem[ACTIVE_READERS]
  /\ ~Full /\ ~beside /\ parent # "interrupted" =>
       sem[ACTIVE_READERS] = inherited + Cardinality(ReadersIn)

IInv ==
  PlaceInv /\ IdleInv /\ AloneInv /\ MutexInv /\ IntInv /\ RunsInv /\ CountInv /\ NextRunIsDead


-----------------------------------------------------------------------------

(* The five semaphores are different ones.                                 *)
LEMMA IndexFacts ==
  /\ WAITING_READERS \in Semaphores /\ ACTIVE_READERS \in Semaphores /\ ACTIVE_WRITER \in Semaphores
  /\ WAITING_WRITERS \in Semaphores /\ BIN_WRITER \in Semaphores
  /\ WAITING_READERS # ACTIVE_READERS /\ WAITING_READERS # BIN_WRITER /\ WAITING_READERS # WAITING_WRITERS
  /\ ACTIVE_READERS # BIN_WRITER /\ ACTIVE_READERS # WAITING_WRITERS /\ BIN_WRITER # WAITING_WRITERS
  /\ ACTIVE_WRITER # WAITING_READERS /\ ACTIVE_WRITER # ACTIVE_READERS /\ ACTIVE_WRITER # BIN_WRITER
  /\ ACTIVE_WRITER # WAITING_WRITERS
  BY DEF Semaphores, WAITING_READERS, ACTIVE_READERS, ACTIVE_WRITER, WAITING_WRITERS, BIN_WRITER

(* The operations there are.                                               *)
Ops == {-1, 0, 1}

LEMMA OpFacts == -1 \in Ops /\ 0 \in Ops /\ 1 \in Ops
  BY DEF Ops

LEMMA SemFacts ==
  ASSUME NEW s \in Sems, NEW i \in Semaphores
  PROVE  s[i] \in Int /\ 0 <= s[i] /\ s[i] <= SEMVMX
  BY SemvmxAssumption DEF Sems

(* s becomes t by one operation that could be done.                        *)
Does(s, t, num, op) ==
  /\ t \in Sems
  /\ t[num] = s[num] + op
  /\ \A i \in Semaphores \ {num} : t[i] = s[i]
  /\ op = 0 => s[num] = 0

-----------------------------------------------------------------------------
(* An operation of a call that succeeds: the ones before it have, it finds *)
(* the value it waits for, and leaves one that a semaphore can hold.       *)
LEMMA ThenOut ==
  ASSUME NEW call, NEW num, NEW op, Then(call, Sembuf(num, op)).out = "OK"
  PROVE  call.out = "OK"
  BY DEF Then, Sembuf

LEMMA ThenOK ==
  ASSUME NEW call, call.sem \in Sems, NEW num \in Semaphores, NEW op \in Ops,
         Then(call, Sembuf(num, op)).out = "OK"
  PROVE  /\ Then(call, Sembuf(num, op)).sem \in Sems
         /\ Does(call.sem, Then(call, Sembuf(num, op)).sem, num, op)
<1>1. call.out = "OK"
  BY ThenOut
<1>2. /\ Then(call, Sembuf(num, op)).sem = [call.sem EXCEPT ![num] = @ + op]
      /\ Outcome(call.sem, Sembuf(num, op)) = "OK"
  BY <1>1 DEF Then, Sembuf
<1>3. call.sem[num] \in 0 .. SEMVMX /\ SEMVMX \in Nat
  BY SemvmxAssumption DEF Sems
<1>4. (op = 0 => call.sem[num] = 0) /\ call.sem[num] + op \in 0 .. SEMVMX
  BY <1>2, <1>3 DEF Outcome, Sembuf, Ops
<1>5. [call.sem EXCEPT ![num] = @ + op] \in Sems
  BY <1>4 DEF Sems
<1>6. /\ [call.sem EXCEPT ![num] = @ + op][num] = call.sem[num] + op
      /\ \A i \in Semaphores \ {num} : [call.sem EXCEPT ![num] = @ + op][i] = call.sem[i]
  BY DEF Sems
<1> QED
  BY <1>2, <1>4, <1>5, <1>6 DEF Does

(* An operation that makes a call fail with ERANGE, or one before it has.  *)
LEMMA ThenErange ==
  ASSUME NEW call, NEW num \in Semaphores, NEW op \in Ops,
         Then(call, Sembuf(num, op)).out = "ERANGE"
  PROVE  \/ call.out = "ERANGE"
         \/ call.out = "OK" /\ (call.sem \in Sems => op = 1 /\ call.sem[num] = SEMVMX)
<1>1. CASE call.out # "OK"
  BY <1>1 DEF Then
<1>2. CASE call.out = "OK"
  <2>1. Outcome(call.sem, Sembuf(num, op)) = "ERANGE"
    BY <1>2 DEF Then
  <2>2. ASSUME call.sem \in Sems
        PROVE  op = 1 /\ call.sem[num] = SEMVMX
    <3>1. call.sem[num] \in 0 .. SEMVMX /\ SEMVMX \in Nat
      BY <2>2, SemvmxAssumption DEF Sems
    <3> QED
      BY <2>1, <3>1 DEF Outcome, Sembuf, Ops, V
  <2> QED
    BY <1>2, <2>2
<1> QED
  BY <1>1, <1>2

(* To wait for zero never fails with ERANGE.                               *)
LEMMA ZeroNoErange ==
  ASSUME NEW call, NEW num \in Semaphores, Then(call, Sembuf(num, 0)).out = "ERANGE",
         call.out = "OK" => call.sem \in Sems
  PROVE  call.out = "ERANGE"
<1>1. \/ call.out = "ERANGE"
      \/ call.out = "OK" /\ (call.sem \in Sems => 0 = 1 /\ call.sem[num] = SEMVMX)
  BY ThenErange, OpFacts
<1> QED
  BY <1>1

(* Four operations in a row that all could be done.                        *)
LEMMA FourOK ==
  ASSUME NEW s \in Sems,
         NEW a \in Semaphores, NEW b \in Semaphores, NEW c \in Semaphores, NEW d \in Semaphores,
         NEW i \in Ops, NEW j \in Ops, NEW k \in Ops, NEW l \in Ops,
         Then(Then(Then(Then(Begin(s), Sembuf(a, i)), Sembuf(b, j)), Sembuf(c, k)), Sembuf(d, l)).out = "OK"
  PROVE  \E t, u, v \in Sems :
           /\ Does(s, t, a, i) /\ Does(t, u, b, j) /\ Does(u, v, c, k)
           /\ Does(v, Then(Then(Then(Then(Begin(s), Sembuf(a, i)), Sembuf(b, j)), Sembuf(c, k)), Sembuf(d, l)).sem, d, l)
<1> DEFINE c0 == Begin(s)
           c1 == Then(c0, Sembuf(a, i))
           c2 == Then(c1, Sembuf(b, j))
           c3 == Then(c2, Sembuf(c, k))
           c4 == Then(c3, Sembuf(d, l))
<1>1. c0.sem = s
  BY DEF Begin
<1>2. c4.out = "OK"
  OBVIOUS
<1> HIDE DEF c0
<1>3. c3.out = "OK"
  BY <1>2, ThenOut
<1>4. c2.out = "OK"
  BY <1>3, ThenOut
<1>5. c1.out = "OK"
  BY <1>4, ThenOut
<1>6. c1.sem \in Sems /\ Does(s, c1.sem, a, i)
  BY <1>1, <1>5, ThenOK
<1> HIDE DEF c1
<1>7. c2.sem \in Sems /\ Does(c1.sem, c2.sem, b, j)
  BY <1>4, <1>6, ThenOK
<1> HIDE DEF c2
<1>8. c3.sem \in Sems /\ Does(c2.sem, c3.sem, c, k)
  BY <1>3, <1>7, ThenOK
<1> HIDE DEF c3
<1>9. Does(c3.sem, c4.sem, d, l)
  BY <1>2, <1>8, ThenOK
<1>10. c4 = Then(Then(Then(Then(Begin(s), Sembuf(a, i)), Sembuf(b, j)), Sembuf(c, k)), Sembuf(d, l))
  BY DEF c0, c1, c2, c3
<1> HIDE DEF c4
<1> QED
  BY <1>6, <1>7, <1>8, <1>9, <1>10

-----------------------------------------------------------------------------
(* start_read as semop is told of it: four operations.                     *)
LEMMA StartReadEffect ==
  ASSUME NEW s \in Sems, NEW t, Semop4(s, start_read).out = "OK", t = Semop4(s, start_read).sem
  PROVE  /\ t \in Sems
         /\ t[WAITING_READERS] = s[WAITING_READERS] + 1
         /\ t[ACTIVE_READERS] = s[ACTIVE_READERS] + 1
         /\ \A i \in Semaphores \ {WAITING_READERS, ACTIVE_READERS} : t[i] = s[i]
         /\ s[BIN_WRITER] = 0
<1>1. Semop4(s, start_read) =
        Then(Then(Then(Then(Begin(s), Sembuf(WAITING_READERS, 1)), Sembuf(BIN_WRITER, 0)),
             Sembuf(WAITING_WRITERS, 0)), Sembuf(ACTIVE_READERS, 1))
  BY DEF Semop4, Semop2, Semop1, start_read, V
<1>2. PICK x, y, z \in Sems :
        /\ Does(s, x, WAITING_READERS, 1) /\ Does(x, y, BIN_WRITER, 0)
        /\ Does(y, z, WAITING_WRITERS, 0) /\ Does(z, t, ACTIVE_READERS, 1)
  BY <1>1, FourOK, IndexFacts, OpFacts
<1>3. \A i \in Semaphores : s[i] \in Int /\ x[i] \in Int /\ y[i] \in Int /\ z[i] \in Int
  BY SemFacts
<1> QED
  BY <1>2, <1>3, IndexFacts DEF Does

(* start_write: it finds no reader counted and takes BIN_WRITER.           *)
LEMMA StartWriteEffect ==
  ASSUME NEW s \in Sems, NEW t, Semop4(s, start_write).out = "OK", t = Semop4(s, start_write).sem
  PROVE  /\ t \in Sems
         /\ t[BIN_WRITER] = s[BIN_WRITER] - 1
         /\ \A i \in Semaphores \ {BIN_WRITER} : t[i] = s[i]
         /\ s[ACTIVE_READERS] = 0
<1>1. Semop4(s, start_write) =
        Then(Then(Then(Then(Begin(s), Sembuf(WAITING_WRITERS, 1)), Sembuf(ACTIVE_READERS, 0)),
             Sembuf(BIN_WRITER, -1)), Sembuf(WAITING_WRITERS, -1))
  BY DEF Semop4, Semop2, Semop1, start_write, V, P
<1>2. PICK x, y, z \in Sems :
        /\ Does(s, x, WAITING_WRITERS, 1) /\ Does(x, y, ACTIVE_READERS, 0)
        /\ Does(y, z, BIN_WRITER, -1) /\ Does(z, t, WAITING_WRITERS, -1)
  BY <1>1, FourOK, IndexFacts, OpFacts
<1>3. \A i \in Semaphores : s[i] \in Int /\ x[i] \in Int /\ y[i] \in Int /\ z[i] \in Int
  BY SemFacts
<1> QED
  BY <1>2, <1>3, IndexFacts DEF Does

(* stop_read and stop_write: one operation.                                *)
LEMMA StopReadEffect ==
  ASSUME NEW s \in Sems, NEW t, Semop1(s, stop_read).out = "OK", t = Semop1(s, stop_read).sem
  PROVE  /\ t \in Sems
         /\ t[ACTIVE_READERS] = s[ACTIVE_READERS] - 1
         /\ \A i \in Semaphores \ {ACTIVE_READERS} : t[i] = s[i]
<1>1. Semop1(s, stop_read) = Then(Begin(s), Sembuf(ACTIVE_READERS, -1)) /\ Begin(s).sem = s
  BY DEF Semop1, stop_read, P, Begin
<1>2. Does(s, t, ACTIVE_READERS, -1)
  BY <1>1, ThenOK, IndexFacts, OpFacts
<1> QED
  BY <1>2, SemFacts, IndexFacts DEF Does

LEMMA StopWriteEffect ==
  ASSUME NEW s \in Sems, NEW t, Semop1(s, stop_write).out = "OK", t = Semop1(s, stop_write).sem
  PROVE  /\ t \in Sems
         /\ t[BIN_WRITER] = s[BIN_WRITER] + 1
         /\ \A i \in Semaphores \ {BIN_WRITER} : t[i] = s[i]
<1>1. Semop1(s, stop_write) = Then(Begin(s), Sembuf(BIN_WRITER, 1)) /\ Begin(s).sem = s
  BY DEF Semop1, stop_write, V, Begin
<1>2. Does(s, t, BIN_WRITER, 1)
  BY <1>1, ThenOK, IndexFacts, OpFacts
<1> QED
  BY <1>2 DEF Does

(* When start_read fails: WAITING_READERS is full, or ACTIVE_READERS is.   *)
LEMMA StartReadErange ==
  ASSUME NEW s \in Sems, Semop4(s, start_read).out = "ERANGE"
  PROVE  \/ s[WAITING_READERS] = SEMVMX
         \/ s[BIN_WRITER] = 0 /\ s[ACTIVE_READERS] = SEMVMX
<1> DEFINE c0 == Begin(s)
           c1 == Then(c0, Sembuf(WAITING_READERS, 1))
           c2 == Then(c1, Sembuf(BIN_WRITER, 0))
           c3 == Then(c2, Sembuf(WAITING_WRITERS, 0))
           c4 == Then(c3, Sembuf(ACTIVE_READERS, 1))
<1> USE IndexFacts, OpFacts
<1>1. c4.out = "ERANGE"
  BY DEF Semop4, Semop2, Semop1, start_read, V
<1>2. c0.sem = s /\ c0.out = "OK"
  BY DEF Begin
<1> HIDE DEF c0
<1>3. c3.out \in {"ERANGE", "OK"}
  BY <1>1, ThenErange
<1>4. c1.out = "OK" => c1.sem \in Sems /\ Does(s, c1.sem, WAITING_READERS, 1)
  BY <1>2, ThenOK
<1>5. c1.out = "ERANGE" => s[WAITING_READERS] = SEMVMX
  BY <1>2, ThenErange
<1> HIDE DEF c1
<1>6. c2.out = "OK" => c1.out = "OK" /\ c2.sem \in Sems /\ Does(c1.sem, c2.sem, BIN_WRITER, 0)
  BY <1>4, ThenOut, ThenOK
<1>7. c2.out = "ERANGE" => c1.out = "ERANGE"
  BY <1>4, ZeroNoErange
<1> HIDE DEF c2
<1>8. c3.out = "OK" => c2.out = "OK" /\ c3.sem \in Sems /\ Does(c2.sem, c3.sem, WAITING_WRITERS, 0)
  BY <1>6, ThenOut, ThenOK
<1>9. c3.out = "ERANGE" => c2.out = "ERANGE"
  BY <1>6, ZeroNoErange
<1> HIDE DEF c3
<1>10. CASE c3.out = "ERANGE"
  BY <1>5, <1>7, <1>9, <1>10
<1>11. CASE c3.out = "OK"
  <2>1. c3.sem[ACTIVE_READERS] = SEMVMX
    BY <1>1, <1>8, <1>11, ThenErange
  <2>2. /\ Does(s, c1.sem, WAITING_READERS, 1) /\ Does(c1.sem, c2.sem, BIN_WRITER, 0)
        /\ Does(c2.sem, c3.sem, WAITING_WRITERS, 0)
    BY <1>4, <1>6, <1>8, <1>11
  <2>3. s[ACTIVE_READERS] = c3.sem[ACTIVE_READERS] /\ s[BIN_WRITER] = 0
    BY <2>2 DEF Does
  <2> QED
    BY <2>1, <2>3
<1> QED
  BY <1>3, <1>10, <1>11

-----------------------------------------------------------------------------
(* What a step does to the semaphores.                                     *)
LEMMA StartReadStep ==
  ASSUME sem \in Sems, NEW p, StartRead(p)
  PROVE  /\ sem' \in Sems
         /\ sem'[WAITING_READERS] = sem[WAITING_READERS] + 1
         /\ sem'[ACTIVE_READERS] = sem[ACTIVE_READERS] + 1
         /\ \A i \in Semaphores \ {WAITING_READERS, ACTIVE_READERS} : sem'[i] = sem[i]
         /\ sem[BIN_WRITER] = 0
         /\ Goto(p, "start", "print") /\ UNCHANGED <<shm, loaded, writes>>
  BY StartReadEffect DEF StartRead

LEMMA StopReadStep ==
  ASSUME sem \in Sems, NEW p, StopRead(p)
  PROVE  /\ sem' \in Sems
         /\ sem'[ACTIVE_READERS] = sem[ACTIVE_READERS] - 1
         /\ \A i \in Semaphores \ {ACTIVE_READERS} : sem'[i] = sem[i]
         /\ Goto(p, "stop", "start") \/ Goto(p, "stop astray", "start")
         /\ UNCHANGED <<shm, loaded, writes>>
  BY StopReadEffect DEF StopRead

LEMMA StartWriteStep ==
  ASSUME sem \in Sems, NEW p, StartWrite(p)
  PROVE  /\ sem' \in Sems
         /\ sem'[BIN_WRITER] = sem[BIN_WRITER] - 1
         /\ \A i \in Semaphores \ {BIN_WRITER} : sem'[i] = sem[i]
         /\ sem[ACTIVE_READERS] = 0
         /\ Goto(p, "start", "load") /\ UNCHANGED <<shm, loaded, writes>>
  BY StartWriteEffect DEF StartWrite

LEMMA StopWriteStep ==
  ASSUME sem \in Sems, NEW p, StopWrite(p)
  PROVE  /\ sem' \in Sems
         /\ sem'[BIN_WRITER] <= sem[BIN_WRITER] + 1
         /\ sem[BIN_WRITER] # SEMVMX => sem'[BIN_WRITER] = sem[BIN_WRITER] + 1
         /\ \A i \in Semaphores \ {BIN_WRITER} : sem'[i] = sem[i]
         /\ Goto(p, "leave", "start") /\ UNCHANGED <<shm, loaded, writes>>
<1>1. sem[BIN_WRITER] \in 0 .. SEMVMX /\ SEMVMX \in Nat
  BY SemvmxAssumption, IndexFacts DEF Sems
<1>2. CASE Semop1(sem, stop_write).out = "OK"
  <2>1. /\ sem' \in Sems /\ sem'[BIN_WRITER] = sem[BIN_WRITER] + 1
        /\ \A i \in Semaphores \ {BIN_WRITER} : sem'[i] = sem[i]
    BY <1>2, StopWriteEffect DEF StopWrite
  <2> QED
    BY <1>1, <2>1 DEF StopWrite
<1>3. CASE Semop1(sem, stop_write).out # "OK"
  <2>1. sem' = sem
    BY <1>3 DEF StopWrite
  <2>2. Outcome(sem, Sembuf(BIN_WRITER, 1)) # "OK"
    BY <1>3 DEF Semop1, Then, Begin, stop_write, V
  <2>3. sem[BIN_WRITER] = SEMVMX
    BY <1>1, <2>2 DEF Outcome, Sembuf
  <2> QED
    BY <1>1, <2>1, <2>3 DEF StopWrite
<1> QED
  BY <1>2, <1>3

LEMMA SetBinWriterStep ==
  ASSUME sem \in Sems, SetBinWriter
  PROVE  /\ sem' \in Sems
         /\ sem'[BIN_WRITER] = 1
         /\ \A i \in Semaphores \ {BIN_WRITER} : sem'[i] = sem[i]
<1>1. 1 \in 0 .. SEMVMX
  BY SemvmxAssumption
<1> QED
  BY <1>1, IndexFacts DEF SetBinWriter, Sems

(* A process is killed or stays where it is, and nothing else changes.     *)
LEMMA InterruptStep ==
  ASSUME Interrupt \/ InterruptOlder
  PROVE  /\ UNCHANGED <<sem, shm, writes, run, inherited, beside>>
         /\ \A p \in Procs : pc'[p] = "unborn" \/ pc'[p] = pc[p]
         /\ \A w \in Writers : loaded'[w] = loaded[w] \/ pc'[w] = "unborn"
  BY DEF Interrupt, InterruptOlder, Interrupted, Procs

(* The steps of a process change nothing of the runs.                      *)
LEMMA ProcessStep ==
  ASSUME NEW p, Reader(p) \/ Writer(p)
  PROVE  UNCHANGED <<parent, older, run, inherited, beside>>
  BY DEF Reader, StartRead, StartReadFails, Show, StopRead,
    Writer, StartWrite, Load, Store, StopWrite, Goto, runs

-----------------------------------------------------------------------------
(* The initial state satisfies the inductive invariant. *)
LEMMA InitInv == Init => IInv
<1> SUFFICES ASSUME Init PROVE IInv
  OBVIOUS
<1> USE ReadersWritersAssumption, SemvmxAssumption DEF Init
<1>1. sem \in Sems
  BY DEF Sems, Semaphores
<1>2. /\ sem[BIN_WRITER] = 1
      /\ \A i \in Semaphores \ {BIN_WRITER} : sem[i] = 0
  BY IndexFacts
<1>3. pc \in [Procs -> Places] /\ \A p \in Procs : pc[p] = "unborn"
  BY DEF Places
<1>4. Readers \subseteq Procs /\ Writers \subseteq Procs
  BY DEF Procs
<1>5. PlaceInv
  <2>1. /\ \A p \in Readers : pc[p] \in {"unborn", "start"} \union Reading \union Astray
        /\ \A p \in Writers : pc[p] \in {"unborn", "start"} \union Writing
    BY <1>3, <1>4
  <2>2. /\ loaded \in [Writers -> 0 .. INT - 1] /\ shm \in 0 .. INT - 1 /\ writes \in 0 .. INT - 1
        /\ run \in 1 .. MaxRuns /\ inherited \in 0 .. SEMVMX
    OBVIOUS
  <2>3. parent \in {"semctl", "forking", "waiting", "gone", "interrupted"}
        /\ older \subseteq Procs /\ beside \in BOOLEAN
    OBVIOUS
  <2> QED
    BY <1>1, <1>3, <2>1, <2>2, <2>3 DEF PlaceInv, TypeOK, Sems
<1>6. IdleInv /\ AloneInv /\ MutexInv
  BY <1>2, <1>3, <1>4, IndexFacts DEF IdleInv, AloneInv, MutexInv, Writing
<1>7. IntInv /\ NextRunIsDead
  BY <1>3, <1>4 DEF IntInv, NextRunIsDead
<1>8. RunsInv
  <2>1. WritersIn = {}
    BY <1>3, <1>4 DEF WritersIn, Writing
  <2>2. Cardinality(WritersIn) = 0
    BY <2>1, FS_EmptySet
  <2> QED
    BY <1>2, <2>2 DEF RunsInv
<1>9. CountInv
  <2>1. ReadersIn = {}
    BY <1>3, <1>4 DEF ReadersIn, Reading
  <2>2. Cardinality(ReadersIn) = 0
    BY <2>1, FS_EmptySet
  <2>3. sem[ACTIVE_READERS] = 0 /\ sem[WAITING_READERS] = 0 /\ inherited = 0
    BY <1>2, IndexFacts
  <2>4. \A r \in Readers : pc[r] \notin Astray
    BY <1>3, <1>4 DEF Astray
  <2> QED
    BY <2>2, <2>3, <2>4 DEF CountInv
<1> QED
  BY <1>5, <1>6, <1>7, <1>8, <1>9 DEF IInv

(* What the types say of places and semaphores.                            *)
LEMMA TypeFacts ==
  ASSUME PlaceInv
  PROVE  /\ pc \in [Procs -> Places] /\ sem \in Sems
         /\ Readers \subseteq Procs /\ Writers \subseteq Procs
         /\ \A p \in Readers : p \notin Writers
  BY ReadersWritersAssumption DEF PlaceInv, TypeOK, Sems, Procs

(* Every step keeps the types, and every process to places of its kind.    *)
LEMMA PlaceStep ==
  ASSUME PlaceInv, Next PROVE PlaceInv'
<1> USE ReadersWritersAssumption, SemvmxAssumption
<1>1. /\ pc \in [Procs -> Places] /\ TypeOK /\ sem \in Sems
      /\ Readers \subseteq Procs /\ Writers \subseteq Procs
  BY DEF PlaceInv, TypeOK, Sems, Procs
<1>2. ASSUME NEW p \in Procs, Fork(p) PROVE PlaceInv'
  <2>1. pc' = [pc EXCEPT ![p] = "start"] /\ parent' \in {"waiting", "forking"}
        /\ UNCHANGED <<sem, shm, loaded, writes, older, run, inherited, beside>>
    BY <1>2 DEF Fork, runs
  <2> QED
    BY <1>1, <2>1 DEF PlaceInv, Places, TypeOK, Reading, Astray, Writing
<1>3. CASE ForkFails
  BY <1>1, <1>3 DEF PlaceInv, TypeOK, ForkFails, runs
<1>4. CASE Restart
  <2>1. inherited' \in 0 .. SEMVMX
    BY <1>1, <1>4, IndexFacts DEF Restart, Sems
  <2>2. run' \in 1 .. MaxRuns
    BY <1>1, <1>4 DEF Restart, TypeOK
  <2>3. writes' \in 0 .. INT - 1 /\ shm' \in 0 .. INT - 1
    BY <1>4 DEF Restart
  <2>4. older' \subseteq Procs /\ beside' \in BOOLEAN /\ parent' = "semctl" /\ UNCHANGED <<pc, sem, loaded>>
    BY <1>4 DEF Restart, Alive
  <2> QED
    BY <1>1, <2>1, <2>2, <2>3, <2>4 DEF PlaceInv, TypeOK
<1>5. CASE SetBinWriter
  <2>1. sem' \in [Semaphores -> 0 .. SEMVMX]
    BY <1>1, <1>5, SetBinWriterStep DEF Sems
  <2> QED
    BY <1>1, <1>5, <2>1 DEF PlaceInv, TypeOK, SetBinWriter, runs
<1>6. CASE Interrupt \/ InterruptOlder
  <2>1. UNCHANGED <<sem, shm, writes, run, inherited, beside>>
    BY <1>6, InterruptStep
  <2>2. \A p \in Procs : pc'[p] = "unborn" \/ pc'[p] = pc[p]
    BY <1>6, InterruptStep
  <2>3. /\ parent' \in {"semctl", "forking", "waiting", "gone", "interrupted"}
        /\ older' \subseteq Procs
    BY <1>1, <1>6 DEF Interrupt, InterruptOlder, TypeOK
  <2>4. \E killed : /\ pc' = [p \in Procs |-> IF p \in killed THEN "unborn" ELSE pc[p]]
                    /\ loaded' = [w \in Writers |-> IF w \in killed THEN 0 ELSE loaded[w]]
    BY <1>6 DEF Interrupt, InterruptOlder, Interrupted
  <2>5. loaded' \in [Writers -> 0 .. INT - 1] /\ pc' \in [Procs -> Places]
    BY <1>1, <2>4 DEF TypeOK, Places
  <2>6. /\ \A p \in Readers : pc'[p] \in {"unborn", "start"} \union Reading \union Astray
        /\ \A p \in Writers : pc'[p] \in {"unborn", "start"} \union Writing
    BY <1>1, <2>2 DEF TypeOK
  <2> QED
    BY <1>1, <2>1, <2>3, <2>5, <2>6 DEF PlaceInv, TypeOK
<1>7. ASSUME NEW p \in Readers, Reader(p) PROVE PlaceInv'
  <2>1. sem' \in [Semaphores -> 0 .. SEMVMX]
    BY <1>1, <1>7, StartReadStep, StopReadStep DEF Reader, Sems, StartReadFails, Show
  <2>2. \E to \in {"start"} \union Reading \union Astray : pc' = [pc EXCEPT ![p] = to]
    BY <1>7 DEF Reader, StartRead, StartReadFails, Show, StopRead, Goto, Reading, Astray
  <2>3. UNCHANGED <<parent, shm, loaded, writes, older, run, inherited, beside>>
    BY <1>7, ProcessStep DEF Reader, StartRead, StartReadFails, Show, StopRead
  <2>4. pc' \in [Procs -> Places]
    BY <1>1, <2>2 DEF Places
  <2>5. /\ \A q \in Readers : pc'[q] \in {"unborn", "start"} \union Reading \union Astray
        /\ \A q \in Writers : pc'[q] \in {"unborn", "start"} \union Writing
    BY <1>1, <2>2 DEF TypeOK
  <2> QED
    BY <1>1, <2>1, <2>3, <2>4, <2>5 DEF PlaceInv, TypeOK
<1>8. ASSUME NEW p \in Writers, Writer(p) PROVE PlaceInv'
  <2>1. sem' \in [Semaphores -> 0 .. SEMVMX]
    BY <1>1, <1>8, StartWriteStep, StopWriteStep DEF Writer, Sems, Load, Store
  <2>2. \E to \in {"start"} \union Writing : pc' = [pc EXCEPT ![p] = to]
    BY <1>8 DEF Writer, StartWrite, Load, Store, StopWrite, Goto, Writing
  <2>3. UNCHANGED <<parent, older, run, inherited, beside>>
    BY <1>8, ProcessStep
  <2>4. loaded' \in [Writers -> 0 .. INT - 1] /\ shm' \in 0 .. INT - 1 /\ writes' \in 0 .. INT - 1
    <3>1. loaded[p] \in Nat /\ writes \in Nat /\ shm \in 0 .. INT - 1 /\ INT \in Nat \ {0}
      BY <1>1 DEF TypeOK
    <3>2. (loaded[p] + 1) % INT \in 0 .. INT - 1 /\ (writes + 1) % INT \in 0 .. INT - 1
      BY <3>1
    <3> QED
      BY <1>1, <1>8, <3>1, <3>2 DEF TypeOK, Writer, StartWrite, Load, Store, StopWrite
  <2>5. pc' \in [Procs -> Places]
    BY <1>1, <2>2 DEF Places
  <2>6. /\ \A q \in Readers : pc'[q] \in {"unborn", "start"} \union Reading \union Astray
        /\ \A q \in Writers : pc'[q] \in {"unborn", "start"} \union Writing
    BY <1>1, <2>2 DEF TypeOK
  <2> QED
    BY <1>1, <2>1, <2>3, <2>4, <2>5, <2>6 DEF PlaceInv, TypeOK
<1> QED
  BY <1>2, <1>3, <1>4, <1>5, <1>6, <1>7, <1>8 DEF Next, Main

-----------------------------------------------------------------------------
(* ACTIVE_WRITER and WAITING_WRITERS are zero between any two calls.       *)
LEMMA IdleStep ==
  ASSUME PlaceInv, IdleInv, Next PROVE IdleInv'
<1>1. sem \in Sems
  BY TypeFacts
<1> USE IndexFacts
<1>2. ASSUME NEW p, Reader(p) \/ Writer(p)
      PROVE  sem'[ACTIVE_WRITER] = sem[ACTIVE_WRITER] /\ sem'[WAITING_WRITERS] = sem[WAITING_WRITERS]
  BY <1>1, <1>2, StartReadStep, StopReadStep, StartWriteStep, StopWriteStep
    DEF Reader, StartReadFails, Show, Writer, Load, Store
<1>3. SetBinWriter =>
        sem'[ACTIVE_WRITER] = sem[ACTIVE_WRITER] /\ sem'[WAITING_WRITERS] = sem[WAITING_WRITERS]
  BY <1>1, SetBinWriterStep
<1>4. ForkFails \/ Interrupt \/ InterruptOlder \/ Restart \/ (\E p \in Procs : Fork(p)) => sem' = sem
  BY InterruptStep DEF ForkFails, Restart, Fork
<1> QED
  BY <1>2, <1>3, <1>4 DEF Next, Main, IdleInv

(* A run that has nobody beside it gets nobody, and whoever is interrupted *)
(* with it is all there is.                                                *)
LEMMA AloneStep ==
  ASSUME PlaceInv, AloneInv, Next PROVE AloneInv'
<1>1. /\ pc \in [Procs -> Places]
      /\ Readers \subseteq Procs /\ Writers \subseteq Procs
  BY TypeFacts
<1> SUFFICES ASSUME ~beside'
             PROVE  /\ older' = {}
                    /\ parent' \in {"interrupted", "semctl"} => \A p \in Procs : pc'[p] = "unborn"
  BY DEF AloneInv
<1>2. CASE Restart
  <2>1. Alive = {} /\ older' = Alive /\ pc' = pc
    BY <1>2 DEF Restart
  <2> QED
    BY <2>1 DEF Alive
<1>3. CASE ~Restart
  <2>1. beside' = beside
    BY <1>3, InterruptStep, ProcessStep DEF Next, Main, SetBinWriter, Fork, ForkFails, runs
  <2>2. older = {} /\ (parent \in {"interrupted", "semctl"} => \A p \in Procs : pc[p] = "unborn")
    BY <2>1 DEF AloneInv
  <2>3. CASE Interrupt
    <3>1. older' = {} /\ pc' = [p \in Procs |-> IF p \in Alive THEN "unborn" ELSE pc[p]]
      BY <2>2, <2>3 DEF Interrupt, Interrupted
    <3> QED
      BY <3>1 DEF Alive
  <2>4. CASE InterruptOlder
    BY <2>2, <2>4 DEF InterruptOlder
  <2>5. CASE SetBinWriter
    BY <2>2, <2>5 DEF SetBinWriter, runs
  <2>6. ASSUME NEW p \in Procs, Fork(p) PROVE older' = {} /\ parent' \notin {"interrupted", "semctl"}
    BY <2>2, <2>6 DEF Fork, runs
  <2>7. CASE ForkFails
    BY <2>2, <2>7 DEF ForkFails, runs
  <2>8. ASSUME NEW p \in Procs, Reader(p) \/ Writer(p)
        PROVE  older' = {} /\ parent' \notin {"interrupted", "semctl"}
    <3>1. pc[p] # "unborn"
      BY <2>8 DEF Reader, StartRead, StartReadFails, Show, StopRead,
        Writer, StartWrite, Load, Store, StopWrite, Goto
    <3> QED
      BY <2>2, <2>8, <3>1, ProcessStep
  <2> QED
    BY <1>1, <1>3, <2>3, <2>4, <2>5, <2>6, <2>7, <2>8 DEF Next, Main
<1> QED
  BY <1>2, <1>3

(* BIN_WRITER stays a mutex of the writers: a writer goes in by taking it, *)
(* which none can while another has it, and gives it back when it goes.    *)
LEMMA MutexStep ==
  ASSUME PlaceInv, AloneInv, MutexInv, Next PROVE MutexInv'
<1>1. /\ pc \in [Procs -> Places] /\ sem \in Sems
      /\ Readers \subseteq Procs /\ Writers \subseteq Procs
      /\ \A p \in Readers : p \notin Writers
  BY TypeFacts
<1> USE IndexFacts
<1> SUFFICES ASSUME Alone' PROVE MutexInv'
  BY DEF MutexInv
<1>2. ASSUME Alone, sem' = sem, \A w \in Writers : pc'[w] \in Writing <=> pc[w] \in Writing
      PROVE  MutexInv'
  BY <1>2 DEF MutexInv
<1>3. ASSUME NEW p \in Procs, Fork(p) PROVE MutexInv'
  <2>1. Alone
    BY <1>3 DEF Fork, Alone, runs
  <2> QED
    BY <1>1, <1>2, <1>3, <2>1 DEF Fork, Writing
<1>4. CASE ForkFails
  BY <1>2, <1>4 DEF ForkFails, Alone, runs
<1>5. CASE SetBinWriter
  <2>1. \A p \in Procs : pc'[p] = "unborn"
    BY <1>5 DEF SetBinWriter, AloneInv, Alone, runs
  <2>2. \A w \in Writers : pc'[w] \notin Writing
    BY <1>1, <2>1 DEF Writing
  <2>3. sem'[BIN_WRITER] = 1
    BY <1>1, <1>5, SetBinWriterStep
  <2> QED
    BY <2>2, <2>3 DEF MutexInv
<1>6. CASE Restart \/ Interrupt
  BY <1>6 DEF Restart, Interrupt, Alone
<1>7. CASE InterruptOlder
  <2>1. ~beside
    BY <1>7, InterruptStep DEF Alone
  <2> QED
    BY <1>7, <2>1 DEF InterruptOlder, AloneInv
<1>8. ASSUME NEW p, Reader(p) \/ Writer(p) PROVE Alone
  BY <1>8, ProcessStep DEF Alone
<1>9. ASSUME NEW p \in Readers, Reader(p) PROVE MutexInv'
  <2>1. \A w \in Writers : pc'[w] = pc[w]
    BY <1>1, <1>9 DEF Reader, StartRead, StartReadFails, Show, StopRead, Goto
  <2>2. sem'[BIN_WRITER] = sem[BIN_WRITER]
    BY <1>1, <1>9, StartReadStep, StopReadStep DEF Reader, StartReadFails, Show
  <2> QED
    BY <1>8, <1>9, <2>1, <2>2 DEF MutexInv
<1>10. ASSUME NEW p \in Writers, StartWrite(p) PROVE MutexInv'
  <2>1. /\ sem' \in Sems /\ sem'[BIN_WRITER] = sem[BIN_WRITER] - 1
        /\ pc' = [pc EXCEPT ![p] = "load"]
    BY <1>1, <1>10, StartWriteStep DEF Goto
  <2>2. 0 <= sem'[BIN_WRITER]
    BY <2>1, SemFacts
  <2>3. Alone
    BY <1>8, <1>10 DEF Writer
  <2>4. sem[BIN_WRITER] = 1 /\ sem'[BIN_WRITER] = 0
    BY <2>1, <2>2, <2>3 DEF MutexInv
  <2>5. \A w \in Writers : pc[w] \notin Writing
    BY <2>3, <2>4 DEF MutexInv
  <2>6. \A w \in Writers : pc'[w] \in Writing <=> w = p
    BY <1>1, <2>1, <2>5 DEF Writing
  <2> QED
    BY <2>4, <2>6 DEF MutexInv
<1>11. ASSUME NEW p \in Writers, Load(p) \/ Store(p) PROVE MutexInv'
  <2>1. Alone
    BY <1>8, <1>11 DEF Writer
  <2> QED
    BY <1>1, <1>2, <1>11, <2>1 DEF Load, Store, Goto, Writing
<1>12. ASSUME NEW p \in Writers, StopWrite(p) PROVE MutexInv'
  <2>1. /\ sem[BIN_WRITER] # SEMVMX => sem'[BIN_WRITER] = sem[BIN_WRITER] + 1
        /\ pc[p] = "leave" /\ pc' = [pc EXCEPT ![p] = "start"]
    BY <1>1, <1>12, StopWriteStep DEF Goto
  <2>2. Alone
    BY <1>8, <1>12 DEF Writer
  <2>3. pc[p] \in Writing
    BY <2>1 DEF Writing
  <2>4. sem[BIN_WRITER] = 0 /\ sem'[BIN_WRITER] = 1
    BY <2>1, <2>2, <2>3, SemvmxAssumption DEF MutexInv
  <2>5. \A w \in Writers : pc'[w] \notin Writing
    BY <1>1, <2>1, <2>2, <2>3 DEF MutexInv, Writing
  <2> QED
    BY <2>4, <2>5 DEF MutexInv
<1> QED
  BY <1>3, <1>4, <1>5, <1>6, <1>7, <1>9, <1>10, <1>11, <1>12 DEF Next, Main, Writer

(* What a writer has loaded stays true until it stores: nobody else is at  *)
(* the int.                                                                *)
LEMMA IntStep ==
  ASSUME PlaceInv, AloneInv, MutexInv, IntInv, Next PROVE IntInv'
<1>1. /\ pc \in [Procs -> Places] /\ Readers \subseteq Procs /\ Writers \subseteq Procs
      /\ \A p \in Readers : p \notin Writers
      /\ DOMAIN loaded = Writers
  BY TypeFacts DEF PlaceInv, TypeOK
<1> DEFINE On == ~beside /\ parent # "interrupted"
<1> SUFFICES ASSUME On' PROVE IntInv'
  BY DEF IntInv
<1>2. ASSUME On, UNCHANGED <<shm, loaded, writes>>, \A w \in Writers : pc'[w] = "store" => pc[w] = "store"
      PROVE  IntInv'
  BY <1>2 DEF IntInv
<1>3. ASSUME NEW p \in Procs, Fork(p) PROVE IntInv'
  BY <1>1, <1>2, <1>3 DEF Fork, runs
<1>4. CASE ForkFails \/ SetBinWriter
  BY <1>2, <1>4 DEF ForkFails, SetBinWriter, runs
<1>5. CASE Restart
  <2>1. Alive = {} /\ pc' = pc /\ shm' = writes'
    BY <1>5 DEF Restart
  <2> QED
    BY <1>1, <2>1 DEF IntInv, Alive
<1>6. CASE Interrupt
  BY <1>6 DEF Interrupt
<1>7. CASE InterruptOlder
  <2>1. ~beside
    BY <1>7, InterruptStep
  <2> QED
    BY <1>7, <2>1 DEF InterruptOlder, AloneInv
<1>8. ASSUME NEW p \in Procs, Reader(p) \/ Writer(p) PROVE On /\ Alone
  <2>1. On
    BY <1>8, ProcessStep
  <2>2. pc[p] # "unborn"
    BY <1>8 DEF Reader, StartRead, StartReadFails, Show, StopRead,
      Writer, StartWrite, Load, Store, StopWrite, Goto
  <2> QED
    BY <2>1, <2>2 DEF AloneInv, Alone
<1>9. ASSUME NEW p \in Readers, Reader(p) PROVE IntInv'
  <2>1. On
    BY <1>1, <1>8, <1>9
  <2> HIDE DEF On
  <2> QED
    BY <1>1, <1>2, <1>9, <2>1 DEF Reader, StartRead, StartReadFails, Show, StopRead, Goto
<1>10. ASSUME NEW p \in Writers, StartWrite(p) \/ StopWrite(p) PROVE IntInv'
  <2>1. On
    BY <1>1, <1>8, <1>10 DEF Writer
  <2> HIDE DEF On
  <2> QED
    BY <1>1, <1>2, <1>10, <2>1 DEF StartWrite, StopWrite, Goto
<1>11. ASSUME NEW p \in Writers, Load(p) PROVE IntInv'
  <2>1. On
    BY <1>1, <1>8, <1>11 DEF Writer
  <2> QED
    BY <1>1, <1>11, <2>1 DEF IntInv, Load, Goto
<1>12. ASSUME NEW p \in Writers, Store(p) PROVE IntInv'
  <2>1. On /\ Alone
    BY <1>1, <1>8, <1>12 DEF Writer
  <2>2. loaded[p] = shm /\ shm = writes
    BY <1>12, <2>1 DEF IntInv, Store, Goto
  <2>3. shm' = writes'
    BY <1>12, <2>2 DEF Store
  <2>4. \A w \in Writers : pc'[w] # "store"
    BY <1>1, <1>12, <2>1 DEF MutexInv, Writing, Store, Goto
  <2> QED
    BY <2>3, <2>4 DEF IntInv
<1> QED
  BY <1>3, <1>4, <1>5, <1>6, <1>7, <1>9, <1>10, <1>11, <1>12 DEF Next, Main, Writer

-----------------------------------------------------------------------------
(* The writers that are writing are finitely many.                         *)
LEMMA WritersInFinite == IsFiniteSet(WritersIn) /\ Cardinality(WritersIn) \in Nat
<1>1. WritersIn \subseteq Writers
  BY DEF WritersIn
<1>2. IsFiniteSet(WritersIn)
  BY <1>1, FS_Subset, ReadersWritersAssumption
<1> QED
  BY <1>2, FS_CardinalityType

(* A writer that goes in has taken one of BIN_WRITER, and only semctl,     *)
(* once in a run, adds to what the writers hold and leave.                 *)
LEMMA RunsStep ==
  ASSUME PlaceInv, RunsInv, Next PROVE RunsInv'
<1>1. /\ pc \in [Procs -> Places] /\ sem \in Sems
      /\ Readers \subseteq Procs /\ Writers \subseteq Procs
      /\ \A p \in Readers : p \notin Writers
      /\ run \in Int
  BY TypeFacts, ReadersWritersAssumption DEF PlaceInv, TypeOK
<1>2. /\ sem[BIN_WRITER] \in Int /\ 0 <= sem[BIN_WRITER]
      /\ Cardinality(WritersIn) \in Int
  BY <1>1, SemFacts, IndexFacts, WritersInFinite
<1> USE IndexFacts
<1>3. ASSUME sem'[BIN_WRITER] = sem[BIN_WRITER], run' = run,
             parent' = "semctl" <=> parent = "semctl",
             \A w \in Writers : pc'[w] \in Writing <=> pc[w] \in Writing
      PROVE  RunsInv'
  <2>1. WritersIn' = WritersIn
    BY <1>3 DEF WritersIn
  <2> QED
    BY <1>3, <2>1 DEF RunsInv
<1>4. ASSUME NEW p \in Procs, Fork(p) PROVE RunsInv'
  <2>1. \A w \in Writers : pc'[w] \in Writing <=> pc[w] \in Writing
    BY <1>1, <1>4 DEF Fork, Writing
  <2>2. sem' = sem /\ run' = run /\ parent' # "semctl" /\ parent # "semctl"
    BY <1>4 DEF Fork, runs
  <2> QED
    BY <1>3, <2>1, <2>2
<1>5. CASE ForkFails
  BY <1>3, <1>5 DEF ForkFails, runs
<1>6. CASE Restart
  <2>1. sem' = sem /\ pc' = pc /\ run' = run + 1 /\ parent' = "semctl" /\ parent # "semctl"
    BY <1>6 DEF Restart
  <2>2. WritersIn' = WritersIn
    BY <2>1 DEF WritersIn
  <2> QED
    BY <1>1, <2>1, <2>2 DEF RunsInv
<1>7. CASE SetBinWriter
  <2>1. sem'[BIN_WRITER] = 1
    BY <1>1, <1>7, SetBinWriterStep
  <2>2. pc' = pc /\ run' = run /\ parent' # "semctl" /\ parent = "semctl"
    BY <1>7 DEF SetBinWriter, runs
  <2>3. WritersIn' = WritersIn
    BY <2>2 DEF WritersIn
  <2>4. Cardinality(WritersIn) + sem[BIN_WRITER] <= run - 1
    BY <2>2 DEF RunsInv
  <2>5. Cardinality(WritersIn) + 1 <= run
    BY <1>1, <1>2, <2>4
  <2> QED
    BY <2>1, <2>2, <2>3, <2>5 DEF RunsInv
<1>8. CASE Interrupt \/ InterruptOlder
  <2>1. sem' = sem /\ run' = run
    BY <1>8, InterruptStep
  <2>2. \A w \in Writers : pc'[w] \in Writing => pc[w] \in Writing
    <3>1. \A p \in Procs : pc'[p] = "unborn" \/ pc'[p] = pc[p]
      BY <1>8, InterruptStep
    <3> QED
      BY <1>1, <3>1 DEF Writing
  <2>3. WritersIn' \subseteq WritersIn
    BY <2>2 DEF WritersIn
  <2>4. Cardinality(WritersIn') <= Cardinality(WritersIn) /\ Cardinality(WritersIn') \in Nat
    <3>1. IsFiniteSet(WritersIn')
      BY <2>3, WritersInFinite, FS_Subset
    <3> QED
      BY <2>3, <3>1, WritersInFinite, FS_Subset, FS_CardinalityType
  <2>5. parent' = parent \/ parent' = "interrupted"
    BY <1>8 DEF Interrupt, InterruptOlder
  <2>6. Cardinality(WritersIn') + sem[BIN_WRITER] <= IF parent' = "semctl" THEN run - 1 ELSE run
    BY <1>1, <1>2, <2>4, <2>5 DEF RunsInv
  <2> QED
    BY <2>1, <2>6 DEF RunsInv
<1>9. ASSUME NEW p, Reader(p) \/ Writer(p)
      PROVE  run' = run /\ parent' = parent
  BY <1>9, ProcessStep
<1>10. ASSUME NEW p \in Readers, Reader(p) PROVE RunsInv'
  <2>1. \A w \in Writers : pc'[w] = pc[w]
    BY <1>1, <1>10 DEF Reader, StartRead, StartReadFails, Show, StopRead, Goto
  <2>2. sem'[BIN_WRITER] = sem[BIN_WRITER]
    BY <1>1, <1>10, StartReadStep, StopReadStep DEF Reader, StartReadFails, Show
  <2> QED
    BY <1>3, <1>9, <1>10, <2>1, <2>2
<1>11. ASSUME NEW p \in Writers, StartWrite(p) PROVE RunsInv'
  <2>1. sem'[BIN_WRITER] = sem[BIN_WRITER] - 1 /\ pc[p] = "start" /\ pc' = [pc EXCEPT ![p] = "load"]
    BY <1>1, <1>11, StartWriteStep DEF Goto
  <2>2. WritersIn' = WritersIn \union {p} /\ p \notin WritersIn
    BY <1>1, <2>1 DEF WritersIn, Writing
  <2>3. Cardinality(WritersIn') = Cardinality(WritersIn) + 1
    BY <2>2, WritersInFinite, FS_AddElement
  <2>4. Cardinality(WritersIn') + sem'[BIN_WRITER] = Cardinality(WritersIn) + sem[BIN_WRITER]
    BY <1>2, <2>1, <2>3
  <2>5. run' = run /\ parent' = parent
    BY <1>9, <1>11 DEF Writer
  <2> QED
    BY <2>4, <2>5 DEF RunsInv
<1>12. ASSUME NEW p \in Writers, Load(p) \/ Store(p) PROVE RunsInv'
  <2>1. run' = run /\ parent' = parent
    BY <1>9, <1>12 DEF Writer
  <2>2. sem' = sem /\ \A w \in Writers : pc'[w] \in Writing <=> pc[w] \in Writing
    BY <1>1, <1>12 DEF Load, Store, Goto, Writing
  <2> QED
    BY <1>3, <2>1, <2>2
<1>13. ASSUME NEW p \in Writers, StopWrite(p) PROVE RunsInv'
  <2>1. /\ sem' \in Sems /\ sem'[BIN_WRITER] <= sem[BIN_WRITER] + 1
        /\ pc[p] = "leave" /\ pc' = [pc EXCEPT ![p] = "start"]
    BY <1>1, <1>13, StopWriteStep DEF Goto
  <2>2. WritersIn' = WritersIn \ {p} /\ p \in WritersIn
    BY <1>1, <2>1 DEF WritersIn, Writing
  <2>3. Cardinality(WritersIn') = Cardinality(WritersIn) - 1
    BY <2>2, WritersInFinite, FS_RemoveElement
  <2>4. sem'[BIN_WRITER] \in Int
    BY <2>1, SemFacts
  <2>5. Cardinality(WritersIn') + sem'[BIN_WRITER] <= Cardinality(WritersIn) + sem[BIN_WRITER]
    BY <1>2, <2>1, <2>3, <2>4
  <2>6. run' = run /\ parent' = parent
    BY <1>9, <1>13 DEF Writer
  <2>7. Cardinality(WritersIn') + sem'[BIN_WRITER] \in Int
    BY <1>2, <2>3, <2>4
  <2> QED
    BY <1>1, <1>2, <2>5, <2>6, <2>7 DEF RunsInv
<1> QED
  BY <1>4, <1>5, <1>6, <1>7, <1>8, <1>10, <1>11, <1>12, <1>13 DEF Next, Main, Writer

-----------------------------------------------------------------------------
(* WAITING_READERS never goes down, so that what is not full was not.      *)
LEMMA FullStays ==
  ASSUME PlaceInv, Next, ~Full' PROVE ~Full
<1>1. sem \in Sems
  BY TypeFacts
<1> USE IndexFacts
<1> DEFINE Kept == sem'[WAITING_READERS] = sem[WAITING_READERS]
           Raised == sem'[WAITING_READERS] = sem[WAITING_READERS] + 1 /\ sem' \in Sems
<1>2. Kept \/ Raised
  <2>1. ASSUME NEW p \in Readers, Reader(p) PROVE Kept \/ Raised
    BY <1>1, <2>1, StartReadStep, StopReadStep DEF Reader, StartReadFails, Show
  <2>2. ASSUME NEW p \in Writers, Writer(p) PROVE Kept
    BY <1>1, <2>2, StartWriteStep, StopWriteStep DEF Writer, Load, Store
  <2>3. SetBinWriter => Kept
    BY <1>1, SetBinWriterStep
  <2>4. ASSUME NEW p \in Procs, Fork(p) PROVE Kept
    BY <2>4 DEF Fork
  <2>5. ForkFails \/ Interrupt \/ InterruptOlder \/ Restart => Kept
    BY InterruptStep DEF ForkFails, Restart
  <2> HIDE DEF Kept, Raised
  <2> QED
    BY <2>1, <2>2, <2>3, <2>4, <2>5 DEF Next, Main
<1>3. sem' \in Sems => sem'[WAITING_READERS] \in Int /\ sem'[WAITING_READERS] <= SEMVMX
  BY SemFacts
<1>4. sem[WAITING_READERS] \in Int /\ SEMVMX \in Int
  BY <1>1, SemFacts, SemvmxAssumption
<1> QED
  BY <1>2, <1>3, <1>4 DEF Full

(* The readers that are reading are finitely many.                         *)
LEMMA ReadersInFinite == IsFiniteSet(ReadersIn) /\ Cardinality(ReadersIn) \in Nat
<1>1. ReadersIn \subseteq Readers
  BY DEF ReadersIn
<1>2. IsFiniteSet(ReadersIn)
  BY <1>1, FS_Subset, ReadersWritersAssumption
<1> QED
  BY <1>2, FS_CardinalityType

(* ACTIVE_READERS keeps count of them, and start_read does not fail before *)
(* WAITING_READERS is full.  A reader that is killed is still counted.     *)
LEMMA CountStep ==
  ASSUME PlaceInv, AloneInv, CountInv, Next PROVE CountInv'
<1>1. /\ pc \in [Procs -> Places] /\ sem \in Sems
      /\ Readers \subseteq Procs /\ Writers \subseteq Procs
      /\ \A p \in Readers : p \notin Writers
      /\ inherited \in Int
  BY TypeFacts, SemvmxAssumption DEF PlaceInv, TypeOK
<1>2. /\ sem[ACTIVE_READERS] \in Int /\ sem[WAITING_READERS] \in Int
      /\ sem[ACTIVE_READERS] <= sem[WAITING_READERS]
      /\ sem[WAITING_READERS] <= SEMVMX /\ SEMVMX \in Int
  BY <1>1, SemFacts, SemvmxAssumption, IndexFacts DEF CountInv
<1>3. ~Full' => ~Full
  BY FullStays
<1> DEFINE Counting == ~beside /\ parent # "interrupted"
<1> USE IndexFacts
<1>4. ASSUME sem'[ACTIVE_READERS] = sem[ACTIVE_READERS], sem'[WAITING_READERS] = sem[WAITING_READERS],
             inherited' = inherited, Counting' => Counting,
             \A r \in Readers : (pc'[r] \in Reading <=> pc[r] \in Reading) /\ (pc'[r] \in Astray => pc[r] \in Astray)
      PROVE  CountInv'
  <2>1. ReadersIn' = ReadersIn
    BY <1>4 DEF ReadersIn
  <2> QED
    BY <1>3, <1>4, <2>1 DEF CountInv
<1>5. ASSUME NEW p \in Procs, Fork(p) PROVE CountInv'
  <2>1. sem' = sem /\ inherited' = inherited /\ (Counting' => Counting)
    BY <1>5 DEF Fork, runs
  <2>2. \A r \in Readers : (pc'[r] \in Reading <=> pc[r] \in Reading) /\ (pc'[r] \in Astray => pc[r] \in Astray)
    BY <1>1, <1>5 DEF Fork, Reading, Astray
  <2> HIDE DEF Counting
  <2> QED
    BY <1>4, <2>1, <2>2
<1>6. CASE ForkFails \/ SetBinWriter
  <2>1. /\ pc' = pc /\ inherited' = inherited /\ (Counting' => Counting)
        /\ sem'[ACTIVE_READERS] = sem[ACTIVE_READERS] /\ sem'[WAITING_READERS] = sem[WAITING_READERS]
    BY <1>1, <1>6, SetBinWriterStep DEF ForkFails, SetBinWriter, runs
  <2> HIDE DEF Counting
  <2> QED
    BY <1>4, <2>1
<1>7. CASE Restart
  <2>1. sem' = sem /\ pc' = pc /\ inherited' = sem[ACTIVE_READERS] /\ (Counting' => Alive = {})
    BY <1>7 DEF Restart
  <2>2. ReadersIn' = ReadersIn
    BY <2>1 DEF ReadersIn
  <2>3. Alive = {} => Cardinality(ReadersIn) = 0
    <3>1. Alive = {} => ReadersIn = {}
      BY <1>1 DEF Alive, ReadersIn, Reading
    <3> QED
      BY <3>1, FS_EmptySet
  <2>4. Counting' => sem'[ACTIVE_READERS] = inherited' + Cardinality(ReadersIn')
    BY <1>2, <2>1, <2>2, <2>3
  <2> QED
    BY <1>3, <2>1, <2>2, <2>4 DEF CountInv
<1>8. CASE Interrupt \/ InterruptOlder
  <2>1. sem' = sem
    BY <1>8, InterruptStep
  <2>2. ~Counting'
    <3>1. Interrupt => ~Counting'
      BY DEF Interrupt
    <3>2. InterruptOlder => beside /\ beside' = beside
      BY DEF InterruptOlder, Interrupted, AloneInv
    <3> QED
      BY <1>8, <3>1, <3>2
  <2>3. \A p \in Readers : pc'[p] = "unborn" \/ pc'[p] = pc[p]
    BY <1>1, <1>8, InterruptStep
  <2>4. /\ \A r \in Readers : pc'[r] \in Astray => pc[r] \in Astray
        /\ ReadersIn' \subseteq ReadersIn
    BY <2>3 DEF Astray, Reading, ReadersIn
  <2>5. Cardinality(ReadersIn') <= Cardinality(ReadersIn) /\ Cardinality(ReadersIn') \in Nat
    <3>1. IsFiniteSet(ReadersIn')
      BY <2>4, ReadersInFinite, FS_Subset
    <3> QED
      BY <2>4, <3>1, ReadersInFinite, FS_Subset, FS_CardinalityType
  <2>6. ~Full => Cardinality(ReadersIn') <= sem[ACTIVE_READERS]
    <3>1. ~Full => Cardinality(ReadersIn) <= sem[ACTIVE_READERS]
      BY DEF CountInv
    <3> QED
      BY <1>2, <2>5, <3>1, ReadersInFinite
  <2> QED
    BY <1>3, <2>1, <2>2, <2>4, <2>6 DEF CountInv
<1>9. ASSUME NEW p, Reader(p) \/ Writer(p)
      PROVE  inherited' = inherited /\ (Counting' <=> Counting)
  BY <1>9, ProcessStep
<1>10. ASSUME NEW p \in Readers, StartRead(p) PROVE CountInv'
  <2>1. /\ sem'[ACTIVE_READERS] = sem[ACTIVE_READERS] + 1
        /\ sem'[WAITING_READERS] = sem[WAITING_READERS] + 1
        /\ pc[p] = "start" /\ pc' = [pc EXCEPT ![p] = "print"]
    BY <1>1, <1>10, StartReadStep DEF Goto
  <2>2. inherited' = inherited /\ (Counting' <=> Counting)
    BY <1>9, <1>10 DEF Reader
  <2>3. ReadersIn' = ReadersIn \union {p} /\ p \notin ReadersIn
    BY <1>1, <2>1 DEF ReadersIn, Reading
  <2>4. Cardinality(ReadersIn') = Cardinality(ReadersIn) + 1
    BY <2>3, ReadersInFinite, FS_AddElement
  <2>5. \A r \in Readers : pc'[r] \in Astray => pc[r] \in Astray
    BY <1>1, <2>1 DEF Astray
  <2>6. sem'[ACTIVE_READERS] <= sem'[WAITING_READERS]
    BY <1>2, <2>1
  <2>7. ~Full => Cardinality(ReadersIn') <= sem'[ACTIVE_READERS]
    <3>1. ~Full => Cardinality(ReadersIn) <= sem[ACTIVE_READERS]
      BY DEF CountInv
    <3> QED
      BY <1>2, <2>1, <2>4, <3>1, ReadersInFinite
  <2>8. ~Full /\ Counting => sem'[ACTIVE_READERS] = inherited' + Cardinality(ReadersIn')
    <3>1. ~Full /\ Counting => sem[ACTIVE_READERS] = inherited + Cardinality(ReadersIn)
      BY DEF CountInv
    <3> QED
      BY <1>1, <2>1, <2>2, <2>4, <3>1, ReadersInFinite
  <2>9. ~Full => \A r \in Readers : pc'[r] \notin Astray
    BY <2>5 DEF CountInv
  <2> QED
    BY <1>3, <2>2, <2>6, <2>7, <2>8, <2>9 DEF CountInv
<1>11. ASSUME NEW p \in Readers, StartReadFails(p) PROVE CountInv'
  <2>1. /\ sem' = sem /\ pc[p] = "start"
        /\ sem[WAITING_READERS] = SEMVMX \/ sem[ACTIVE_READERS] = SEMVMX
    BY <1>1, <1>11, StartReadErange DEF StartReadFails, Goto
  <2>2. sem[WAITING_READERS] = SEMVMX
    BY <1>2, <2>1
  <2>3. Full'
    BY <2>1, <2>2 DEF Full
  <2> QED
    BY <2>1, <2>3 DEF CountInv
<1>12. ASSUME NEW p \in Readers, Show(p) PROVE CountInv'
  <2>1. inherited' = inherited /\ (Counting' => Counting) /\ sem' = sem
    BY <1>9, <1>12 DEF Reader, Show
  <2>2. \A r \in Readers : (pc'[r] \in Reading <=> pc[r] \in Reading) /\ (pc'[r] \in Astray => pc[r] \in Astray)
    BY <1>1, <1>12 DEF Show, Goto, Reading, Astray
  <2> HIDE DEF Counting
  <2> QED
    BY <1>4, <2>1, <2>2
<1>13. ASSUME NEW p \in Readers, StopRead(p) PROVE CountInv'
  <2>1. /\ sem'[ACTIVE_READERS] = sem[ACTIVE_READERS] - 1
        /\ sem'[WAITING_READERS] = sem[WAITING_READERS]
        /\ pc[p] \in {"stop", "stop astray"} /\ pc' = [pc EXCEPT ![p] = "start"]
    BY <1>1, <1>13, StopReadStep DEF Goto
  <2>2. inherited' = inherited /\ (Counting' <=> Counting)
    BY <1>9, <1>13 DEF Reader
  <2>3. sem'[ACTIVE_READERS] <= sem'[WAITING_READERS]
    <3>1. sem[ACTIVE_READERS] - 1 <= sem[WAITING_READERS]
      BY <1>2
    <3> QED
      BY <2>1, <3>1
  <2>4. CASE Full
    BY <1>3, <2>3, <2>4 DEF CountInv
  <2>5. CASE ~Full
    <3>1. pc[p] = "stop"
      BY <2>1, <2>5 DEF CountInv, Astray
    <3>2. ReadersIn' = ReadersIn \ {p} /\ p \in ReadersIn
      BY <1>1, <2>1, <3>1 DEF ReadersIn, Reading
    <3>3. Cardinality(ReadersIn') = Cardinality(ReadersIn) - 1
      BY <3>2, ReadersInFinite, FS_RemoveElement
    <3>4. \A r \in Readers : pc'[r] \notin Astray
      BY <1>1, <2>1, <2>5 DEF CountInv, Astray
    <3>5. Cardinality(ReadersIn') <= sem'[ACTIVE_READERS]
      <4>1. Cardinality(ReadersIn) <= sem[ACTIVE_READERS]
        BY <2>5 DEF CountInv
      <4>2. Cardinality(ReadersIn) - 1 <= sem[ACTIVE_READERS] - 1
        BY <1>2, <4>1, ReadersInFinite
      <4> QED
        BY <2>1, <3>3, <4>2
    <3>6. Counting => sem'[ACTIVE_READERS] = inherited' + Cardinality(ReadersIn')
      <4>1. Counting => sem[ACTIVE_READERS] = inherited + Cardinality(ReadersIn)
        BY <2>5 DEF CountInv
      <4>2. Counting => sem[ACTIVE_READERS] - 1 = inherited + (Cardinality(ReadersIn) - 1)
        BY <1>1, <4>1, ReadersInFinite
      <4> QED
        BY <2>1, <2>2, <3>3, <4>2
    <3> QED
      BY <2>2, <2>3, <3>4, <3>5, <3>6 DEF CountInv
  <2> QED
    BY <2>4, <2>5
<1>14. ASSUME NEW p \in Writers, Writer(p) PROVE CountInv'
  <2>1. \A r \in Readers : pc'[r] = pc[r]
    BY <1>1, <1>14 DEF Writer, StartWrite, Load, Store, StopWrite, Goto
  <2>2. sem'[ACTIVE_READERS] = sem[ACTIVE_READERS] /\ sem'[WAITING_READERS] = sem[WAITING_READERS]
    BY <1>1, <1>14, StartWriteStep, StopWriteStep DEF Writer, Load, Store
  <2>3. inherited' = inherited /\ (Counting' => Counting)
    BY <1>9, <1>14
  <2> HIDE DEF Counting
  <2> QED
    BY <1>4, <2>1, <2>2, <2>3
<1> QED
  BY <1>5, <1>6, <1>7, <1>8, <1>10, <1>11, <1>12, <1>13, <1>14 DEF Next, Main, Reader

(* Where ACTIVE_READERS was inherited, no call of start_read or            *)
(* start_write ever ends: nobody writes, so that BIN_WRITER is one, and    *)
(* ACTIVE_READERS is not zero.                                             *)
LEMMA DeadStep ==
  ASSUME PlaceInv, AloneInv, MutexInv, CountInv, NextRunIsDead, Next PROVE NextRunIsDead'
<1>1. /\ pc \in [Procs -> Places] /\ sem \in Sems
      /\ Readers \subseteq Procs /\ Writers \subseteq Procs
      /\ inherited \in Int
  BY TypeFacts, SemvmxAssumption DEF PlaceInv, TypeOK
<1> USE IndexFacts
<1> SUFFICES ASSUME inherited' > 0, ~beside', ~Full'
             PROVE  \A p \in Procs : pc'[p] \in {"unborn", "start"}
  BY DEF NextRunIsDead
<1>2. CASE Restart
  <2>1. Alive = {} /\ pc' = pc
    BY <1>2 DEF Restart
  <2> QED
    BY <2>1 DEF Alive
<1>3. CASE ~Restart
  <2>1. ~Full
    BY FullStays
  <2>2. beside' = beside /\ inherited' = inherited
    BY <1>3, InterruptStep, ProcessStep DEF Next, Main, SetBinWriter, Fork, ForkFails, runs
  <2>3. \A p \in Procs : pc[p] \in {"unborn", "start"}
    BY <2>1, <2>2 DEF NextRunIsDead
  <2>4. ASSUME NEW p \in Procs, pc[p] = "start" PROVE sem[BIN_WRITER] = 1 /\ sem[ACTIVE_READERS] # 0
    <3>1. Alone
      BY <2>2, <2>4 DEF AloneInv, Alone
    <3>2. sem[BIN_WRITER] = 1
      BY <1>1, <2>3, <3>1 DEF MutexInv, Writing
    <3>3. sem[ACTIVE_READERS] = inherited + Cardinality(ReadersIn)
      BY <2>1, <3>1 DEF CountInv, Alone
    <3>4. sem[ACTIVE_READERS] # 0
      BY <1>1, <2>2, <3>3, ReadersInFinite
    <3> QED
      BY <3>2, <3>4
  <2>5. ASSUME NEW p \in Procs, Fork(p) PROVE \A q \in Procs : pc'[q] \in {"unborn", "start"}
    BY <1>1, <2>3, <2>5 DEF Fork
  <2>6. CASE ForkFails \/ SetBinWriter \/ Interrupt \/ InterruptOlder
    BY <2>3, <2>6, InterruptStep DEF ForkFails, SetBinWriter
  <2>7. ASSUME NEW p \in Readers, Reader(p) PROVE FALSE
    <3>1. pc[p] = "start" /\ p \in Procs
      BY <1>1, <2>3, <2>7 DEF Reader, StartRead, StartReadFails, Show, StopRead, Goto
    <3>2. ~StartRead(p)
      BY <1>1, <2>4, <3>1, StartReadStep
    <3>3. ~StartReadFails(p)
      <4>1. StartReadFails(p) => Semop4(sem, start_read).out = "ERANGE"
        BY DEF StartReadFails
      <4>2. sem[WAITING_READERS] # SEMVMX /\ sem[BIN_WRITER] # 0
        BY <2>1, <2>4, <3>1 DEF Full
      <4> QED
        BY <1>1, <4>1, <4>2, StartReadErange
    <3>4. ~Show(p) /\ ~StopRead(p)
      BY <3>1 DEF Show, StopRead, Goto
    <3> QED
      BY <2>7, <3>2, <3>3, <3>4 DEF Reader
  <2>8. ASSUME NEW p \in Writers, Writer(p) PROVE FALSE
    <3>1. pc[p] = "start" /\ p \in Procs
      BY <1>1, <2>3, <2>8 DEF Writer, StartWrite, Load, Store, StopWrite, Goto
    <3>2. ~StartWrite(p)
      BY <1>1, <2>4, <3>1, StartWriteStep
    <3>3. ~Load(p) /\ ~Store(p) /\ ~StopWrite(p)
      BY <3>1 DEF Load, Store, StopWrite, Goto
    <3> QED
      BY <2>8, <3>2, <3>3 DEF Writer
  <2> QED
    BY <1>3, <2>5, <2>6, <2>7, <2>8 DEF Next, Main
<1> QED
  BY <1>2, <1>3

-----------------------------------------------------------------------------
(* The invariant the theorems below are read from: the mutex and the count *)
(* of a run that was started when the earlier ones were over, and what is  *)
(* left of them when it was started beside one.                            *)
THEOREM Invariance == Spec => []IInv
<1>1. Init => IInv
  BY InitInv
<1>2. IInv /\ [Next]_vars => IInv'
  <2> SUFFICES ASSUME IInv, [Next]_vars PROVE IInv'
    OBVIOUS
  <2>1. CASE Next
    BY <2>1, PlaceStep, IdleStep, AloneStep, MutexStep, IntStep, RunsStep, CountStep, DeadStep DEF IInv
  <2>2. CASE UNCHANGED vars
    <3>1. PlaceInv' /\ IdleInv' /\ AloneInv'
      BY <2>2 DEF IInv, PlaceInv, TypeOK, IdleInv, AloneInv, vars, runs
    <3>2. MutexInv' /\ IntInv'
      BY <2>2 DEF IInv, MutexInv, IntInv, Alone, vars, runs
    <3>3. RunsInv' /\ CountInv' /\ NextRunIsDead'
      BY <2>2 DEF IInv, RunsInv, WritersIn, CountInv, ReadersIn, Full, NextRunIsDead, vars, runs
    <3> QED
      BY <3>1, <3>2, <3>3 DEF IInv
  <2> QED
    BY <2>1, <2>2
<1> QED
  BY <1>1, <1>2, PTL DEF Spec

(* Every variable keeps to its set of values: in particular no semaphore   *)
(* goes below zero or above SEMVMX.                                        *)
THEOREM TypeCorrect == Spec => []TypeOK
<1>1. IInv => TypeOK
  BY DEF IInv, PlaceInv
<1> QED
  BY <1>1, Invariance, PTL

(* However the runs overlap, main() having set BIN_WRITER to one under     *)
(* whoever was there (line 133), no more writers are inside than there     *)
(* were runs.                                                              *)
THEOREM RunsBoundWriters == Spec => []OneWriterPerRun
<1>1. IInv => OneWriterPerRun
  <2> SUFFICES ASSUME IInv PROVE OneWriterPerRun
    OBVIOUS
  <2>1. sem \in Sems /\ run \in Int
    BY TypeFacts, ReadersWritersAssumption DEF IInv, PlaceInv, TypeOK
  <2>2. Cardinality(WritersIn) + sem[BIN_WRITER] \in Int
    BY <2>1, SemFacts, IndexFacts, WritersInFinite
  <2>3. Cardinality(WritersIn) + sem[BIN_WRITER] <= IF parent = "semctl" THEN run - 1 ELSE run
    BY DEF IInv, RunsInv
  <2> QED
    BY <2>1, <2>2, <2>3 DEF OneWriterPerRun
<1> QED
  BY <1>1, Invariance, PTL

(* One writer at a time and no increment lost, however many readers and    *)
(* writers there are, in every run that is started when the earlier ones   *)
(* are over, wherever they were interrupted; in others, one for each run.  *)
THEOREM UpdatesKept == Spec => []NoLostUpdate
<1>1. IInv /\ OneWriterPerRun => NoLostUpdate
  <2> SUFFICES ASSUME IInv, OneWriterPerRun, Alone
               PROVE  /\ Cardinality(WritersIn) = 1 - sem[BIN_WRITER]
                      /\ \A w \in Writers : pc[w] = "store" => loaded[w] = shm
                      /\ shm = writes
    BY DEF NoLostUpdate
  <2>1. Cardinality(WritersIn) = 1 - sem[BIN_WRITER]
    <3>1. CASE sem[BIN_WRITER] = 1
      <4>1. WritersIn = {}
        BY <3>1 DEF IInv, MutexInv, WritersIn
      <4> QED
        BY <3>1, <4>1, FS_EmptySet
    <3>2. CASE sem[BIN_WRITER] = 0
      <4>1. PICK w \in Writers : pc[w] \in Writing
        BY <3>2 DEF IInv, MutexInv
      <4>2. WritersIn = {w}
        BY <4>1 DEF IInv, MutexInv, WritersIn
      <4>3. Cardinality(WritersIn) = 1
        BY <4>2, FS_Singleton
      <4> QED
        BY <3>2, <4>3
    <3> QED
      BY <3>1, <3>2 DEF IInv, MutexInv
  <2> QED
    BY <2>1 DEF IInv, IntInv, Alone
<1> QED
  BY <1>1, Invariance, RunsBoundWriters, PTL

(* A run that inherits an ACTIVE_READERS, and has nobody of an earlier run *)
(* beside it, is dead until WAITING_READERS is full.                       *)
THEOREM InheritedRunIsDead == Spec => []NextRunIsDead
<1>1. IInv => NextRunIsDead
  BY DEF IInv
<1> QED
  BY <1>1, Invariance, PTL

(* A writer comes in only when no reader is reading, until WAITING_READERS *)
(* is full: ACTIVE_READERS, which it finds zero, counts the readers.       *)
THEOREM WritersFindNobody == Spec => WritersEnterAlone
<1>1. IInv /\ [Next]_vars =>
        [\A w \in Writers : StartWrite(w) /\ ~Full =>
           \A r \in Readers : pc[r] \notin Reading \union Astray]_vars
  <2> SUFFICES ASSUME IInv, NEW w \in Writers, StartWrite(w), ~Full, NEW r \in Readers
               PROVE  pc[r] \notin Reading \union Astray
    OBVIOUS
  <2>1. sem \in Sems
    BY TypeFacts DEF IInv
  <2>2. sem[ACTIVE_READERS] = 0
    BY <2>1, StartWriteStep
  <2>3. Cardinality(ReadersIn) = 0
    BY <2>2, ReadersInFinite DEF IInv, CountInv
  <2>4. ReadersIn = {}
    BY <2>3, ReadersInFinite, FS_EmptySet
  <2> QED
    BY <2>4 DEF IInv, CountInv, ReadersIn
<1> QED
  BY <1>1, Invariance, PTL DEF Spec, WritersEnterAlone

(* WAITING_READERS, that start_read increments and does not decrement,     *)
(* stays at SEMVMX once it is there: start_read (line 41) fails in this    *)
(* run and in every later one, since the semaphores outlive the program.   *)
THEOREM FullForGood == Spec => [](Full => []Full)
<1>1. IInv /\ Full /\ [Next]_vars => Full'
  <2>1. IInv /\ Full /\ Next => Full'
    BY FullStays DEF IInv
  <2>2. Full /\ UNCHANGED vars => Full'
    BY DEF Full, vars
  <2> QED
    BY <2>1, <2>2
<1> QED
  BY <1>1, Invariance, PTL DEF Spec

(* Where ReadersHang ends, the run stays: when every reader there is waits *)
(* in stop_read (line 43) for an ACTIVE_READERS that is zero, no writer    *)
(* ever increments it, and only a reader that is forked anew, by another   *)
(* run of the program, can set one free.                                   *)
THEOREM HangsUntilAnotherRun == Spec => [][AllHang => AllHang' \/ \E p \in Readers : Fork(p)]_vars
<1>1. IInv /\ [Next]_vars => [AllHang => AllHang' \/ \E p \in Readers : Fork(p)]_vars
  <2> SUFFICES ASSUME IInv, Next, AllHang, ~\E p \in Readers : Fork(p), NEW r \in Readers, pc'[r] # "unborn"
               PROVE  HangsReading(r)'
    BY DEF AllHang
  <2>1. /\ sem \in Sems /\ pc \in [Procs -> Places]
        /\ Readers \subseteq Procs /\ Writers \subseteq Procs
        /\ \A p \in Readers : p \notin Writers
    BY TypeFacts DEF IInv
  <2>2. \A q \in Readers : pc[q] = "unborn" \/ (pc[q] \in {"stop", "stop astray"} /\ sem[ACTIVE_READERS] = 0)
    BY DEF AllHang, HangsReading
  <2> USE IndexFacts
  <2>3. ASSUME NEW p \in Readers, Reader(p) PROVE FALSE
    <3>1. ~StopRead(p)
      <4> SUFFICES ASSUME StopRead(p) PROVE FALSE
        OBVIOUS
      <4>1. sem' \in Sems /\ sem'[ACTIVE_READERS] = sem[ACTIVE_READERS] - 1 /\ pc[p] # "unborn"
        BY <2>1, StopReadStep DEF Goto
      <4>2. sem'[ACTIVE_READERS] \in Int /\ 0 <= sem'[ACTIVE_READERS]
        BY <4>1, SemFacts
      <4>3. sem[ACTIVE_READERS] = 0
        BY <2>2, <4>1
      <4> QED
        BY <4>1, <4>2, <4>3
    <3>2. ~StartRead(p) /\ ~StartReadFails(p) /\ ~Show(p)
      BY <2>2 DEF StartRead, StartReadFails, Show, Goto
    <3> QED
      BY <2>3, <3>1, <3>2 DEF Reader
  <2>4. ASSUME NEW p \in Writers, Writer(p)
        PROVE  pc'[r] = pc[r] /\ sem'[ACTIVE_READERS] = sem[ACTIVE_READERS]
    <3>1. p # r
      BY <2>1
    <3>2. pc'[r] = pc[r]
      BY <2>1, <2>4, <3>1 DEF Writer, StartWrite, Load, Store, StopWrite, Goto
    <3>3. sem'[ACTIVE_READERS] = sem[ACTIVE_READERS]
      BY <2>1, <2>4, StartWriteStep, StopWriteStep DEF Writer, Load, Store
    <3> QED
      BY <3>2, <3>3
  <2>5. ASSUME NEW p \in Procs, Fork(p)
        PROVE  pc'[r] = pc[r] /\ sem'[ACTIVE_READERS] = sem[ACTIVE_READERS]
    <3>1. p # r
      BY <2>5
    <3> QED
      BY <2>1, <2>5, <3>1 DEF Fork
  <2>6. pc'[r] = pc[r] /\ sem'[ACTIVE_READERS] = sem[ACTIVE_READERS]
    <3>1. CASE ForkFails \/ SetBinWriter \/ Restart
      BY <2>1, <3>1, SetBinWriterStep DEF ForkFails, SetBinWriter, Restart
    <3>2. CASE Interrupt \/ InterruptOlder
      BY <2>1, <3>2, InterruptStep
    <3> QED
      BY <2>3, <2>4, <2>5, <3>1, <3>2 DEF Next, Main
  <2> QED
    BY <2>2, <2>6 DEF HangsReading
<1> QED
  BY <1>1, Invariance, PTL DEF Spec

=============================================================================
