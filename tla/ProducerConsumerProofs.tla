----------------------- MODULE ProducerConsumerProofs -----------------------
(* The theorems about ProducerConsumer, for any sets of producers and      *)
(* consumers, any SIZE_BUF and CELLS, and any width of a char.             *)
EXTENDS ProducerConsumer, SequenceTheorems, FiniteSetTheorems, TLAPS

Semaphores == {SB, SE, SF}

(* What a set of semaphores may hold.                                      *)
Sems == [Semaphores -> 0 .. SEMVMX]

Places == {"unborn", "start", "dead"} \union InSection

(* ptr_cons never moves, and a producer that is about to advance ptr_prod  *)
(* has just stored through it.                                             *)
PlaceInv ==
  /\ TypeOK
  /\ ptr_cons = 0
  /\ \A p \in Procs : pc[p] = "advance" => ptr_prod < CELLS

(* SB is taken by the one process that is in its critical section.  That   *)
(* process has a cell in its hands, so SE and SF miss one.                 *)
MutexInv ==
  /\ sem[SB] \in {0, 1}
  /\ \A p, q \in Procs : pc[p] \in InSection /\ pc[q] \in InSection => p = q
  /\ sem[SB] = 0 <=> \E p \in Procs : pc[p] \in InSection
  /\ sem[SE] + sem[SF] = SIZE_BUF - 1 + sem[SB]

(* SF, ptr_prod, alfa and the one cell that consumers use follow from the  *)
(* numbers of letters written and printed, but for the letter at hand and  *)
(* what is one step behind: ptr_prod, alfa, or the cell.                   *)
At(hand, ptr, letter, shown) ==
  /\ sem[SF] = Len(written) - Len(printed) - hand
  /\ ptr_prod = Len(written) - ptr
  /\ alfa = (Len(written) - letter) % CHAR
  /\ Len(written) > 0 => cell[0] = (Len(printed) - shown) % CHAR
  /\ letter <= Len(written) /\ shown <= Len(printed)

(* What is behind at each place.  After a death in the critical section    *)
(* nobody uses the segment any more.                                       *)
SegmentInv ==
  /\ (\A p \in Procs : pc[p] \notin InSection) => At(0, 0, 0, 0)
  /\ \A p \in Procs :
       /\ pc[p] = "write" => At(0, 0, 0, 0)
       /\ pc[p] = "advance" => At(1, 1, 1, 0)
       /\ pc[p] = "next" => At(1, 0, 1, 0)
       /\ pc[p] = "published" => At(1, 0, 0, 0)
       /\ pc[p] = "print" => At(1, 0, 0, 0)
       /\ pc[p] = "increment" => At(0, 0, 0, 1)
       /\ pc[p] = "taken" => At(0, 0, 0, 0)

(* The letters come in the order of the alphabet, and no more are printed  *)
(* than written.                                                           *)
LetterInv ==
  /\ \A k \in 1 .. Len(written) : written[k] = (k - 1) % CHAR
  /\ Len(printed) <= Len(written)

IInv == PlaceInv /\ MutexInv /\ SegmentInv /\ LetterInv

-----------------------------------------------------------------------------
(* Chars wrap around: counting one on from a char is counting one on from  *)
(* the number that was cut to it.                                          *)
LEMMA ModUnique ==
  ASSUME NEW C \in Nat \ {0}, NEW q \in Nat, NEW r \in 0 .. C - 1
  PROVE  (C * q + r) % C = r
<1> DEFINE x == C * q + r
<1>1. x \in Nat
  OBVIOUS
<1>2. x = C * (x \div C) + (x % C) /\ x % C \in 0 .. C - 1 /\ x \div C \in Int
  BY <1>1
<1>3. C * (q - (x \div C)) = (x % C) - r
  BY <1>2
<1>4. ASSUME q - (x \div C) >= 1 PROVE FALSE
  <2>1. C * (q - (x \div C)) >= C
    BY <1>4, <1>2
  <2> QED
    BY <2>1, <1>3, <1>2
<1>5. ASSUME q - (x \div C) <= -1 PROVE FALSE
  <2>1. C * (q - (x \div C)) <= -C
    BY <1>5, <1>2
  <2> QED
    BY <2>1, <1>3, <1>2
<1>6. q - (x \div C) = 0
  BY <1>4, <1>5, <1>2
<1> QED
  BY <1>6, <1>3, <1>2

LEMMA ModSucc ==
  ASSUME NEW C \in Nat \ {0}, NEW x \in Nat
  PROVE  ((x % C) + 1) % C = (x + 1) % C
<1> DEFINE q == x \div C
           r == x % C
<1>1. x = C * q + r /\ r \in 0 .. C - 1 /\ q \in Nat
  OBVIOUS
<1> HIDE DEF q, r
<1>2. CASE r < C - 1
  <2>1. (C * q + (r + 1)) % C = r + 1
    BY <1>1, <1>2, ModUnique
  <2>2. (r + 1) % C = r + 1
    BY <1>1, <1>2
  <2>3. x + 1 = C * q + (r + 1)
    BY <1>1
  <2> QED
    BY <2>1, <2>2, <2>3 DEF r
<1>3. CASE r = C - 1
  <2>1. (C * (q + 1) + 0) % C = 0
    BY <1>1, ModUnique
  <2>2. (r + 1) % C = 0
    BY <1>1, <1>3
  <2>3. x + 1 = C * (q + 1) + 0
    BY <1>1, <1>3
  <2> QED
    BY <2>1, <2>2, <2>3 DEF r
<1> QED
  BY <1>1, <1>2, <1>3

(* The letters of w after the first r, when one is appended and when one   *)
(* more is left out.                                                       *)
LEMMA RestOfAppend ==
  ASSUME NEW S, NEW w \in Seq(S), NEW a \in S, NEW r \in Nat, r <= Len(w)
  PROVE  SubSeq(Append(w, a), r + 1, Len(w) + 1) = Append(SubSeq(w, r + 1, Len(w)), a)
<1>1. Append(w, a) \in Seq(S) /\ Len(Append(w, a)) = Len(w) + 1 /\ Len(w) \in Nat
  OBVIOUS
<1> DEFINE s == SubSeq(Append(w, a), r + 1, Len(w) + 1)
           b == SubSeq(w, r + 1, Len(w))
<1>2. /\ s \in Seq(S) /\ Len(s) = Len(w) + 1 - r
      /\ \A i \in 1 .. Len(w) + 1 - r : s[i] = Append(w, a)[r + i]
  BY <1>1, SubSeqProperties
<1>3. /\ b \in Seq(S) /\ Len(b) = Len(w) - r
      /\ \A i \in 1 .. Len(w) - r : b[i] = w[r + i]
  BY <1>1, SubSeqProperties
<1> HIDE DEF s, b
<1>4. Append(b, a) \in Seq(S) /\ Len(Append(b, a)) = Len(s)
  BY <1>2, <1>3, <1>1
<1>5. ASSUME NEW i \in 1 .. Len(s) PROVE s[i] = Append(b, a)[i]
  <2>1. CASE i = Len(s)
    <3>1. s[i] = Append(w, a)[Len(w) + 1]
      BY <2>1, <1>1, <1>2
    <3>2. Append(b, a)[i] = a
      BY <2>1, <1>1, <1>2, <1>3
    <3> QED
      BY <3>1, <3>2
  <2>2. CASE i # Len(s)
    <3>1. i \in 1 .. Len(b) /\ r + i \in 1 .. Len(w)
      BY <2>2, <1>1, <1>2, <1>3
    <3>2. s[i] = w[r + i]
      BY <3>1, <1>1, <1>2
    <3>3. Append(b, a)[i] = w[r + i]
      BY <3>1, <1>1, <1>3
    <3> QED
      BY <3>2, <3>3
  <2> QED
    BY <2>1, <2>2
<1> QED
  BY <1>2, <1>4, <1>5, SeqEqual DEF s, b

LEMMA RestOfOneLess ==
  ASSUME NEW S, NEW w \in Seq(S), NEW r \in Nat, r < Len(w)
  PROVE  /\ SubSeq(w, r + 2, Len(w)) = Tail(SubSeq(w, r + 1, Len(w)))
         /\ Head(SubSeq(w, r + 1, Len(w))) = w[r + 1]
         /\ SubSeq(w, r + 1, Len(w)) # <<>>
<1>1. /\ SubSeq(w, r + 2, Len(w)) = Tail(SubSeq(w, r + 1, Len(w)))
      /\ Head(SubSeq(w, r + 1, Len(w))) = w[r + 1]
  OBVIOUS
<1>2. Len(SubSeq(w, r + 1, Len(w))) = Len(w) - r
  OBVIOUS
<1>3. Len(w) - r # 0
  OBVIOUS
<1> QED
  BY <1>1, <1>2, <1>3

LEMMA RestLength ==
  ASSUME NEW S, NEW w \in Seq(S), NEW r \in Nat, r <= Len(w)
  PROVE  Len(SubSeq(w, r + 1, Len(w))) = Len(w) - r
  OBVIOUS

-----------------------------------------------------------------------------
(* The three semaphores are different ones.                                *)
LEMMA IndexFacts ==
  /\ SB \in Semaphores /\ SE \in Semaphores /\ SF \in Semaphores
  /\ SB # SE /\ SB # SF /\ SE # SF
  BY DEF Semaphores, SB, SE, SF

LEMMA SemFacts ==
  ASSUME NEW s \in Sems, NEW i \in Semaphores
  PROVE  s[i] \in Int /\ 0 <= s[i] /\ s[i] <= SEMVMX
  BY SemvmxAssumption DEF Sems

LEMMA NumberFacts ==
  /\ SIZE_BUF \in Int /\ 1 <= SIZE_BUF /\ SIZE_BUF <= SEMVMX /\ SEMVMX \in Nat
  /\ CELLS \in Nat /\ CELLS >= 1 /\ 0 \in 0 .. CELLS - 1
  /\ CHAR \in Nat \ {0} /\ 0 \in 0 .. CHAR - 1
  /\ MaxKills \in Nat
  BY ProducerConsumerAssumption, SemvmxAssumption

(* s becomes t by one operation that could be done.                        *)
Does(s, t, num, op) ==
  /\ t \in Sems
  /\ t[num] = s[num] + op
  /\ \A i \in Semaphores \ {num} : t[i] = s[i]

(* An operation of a call that succeeds: the ones before it have, and it   *)
(* leaves a value that a semaphore can hold.                               *)
LEMMA ThenOK ==
  ASSUME NEW call, call.sem \in Sems, NEW num \in Semaphores, NEW op \in {-1, 1},
         Then(call, Sembuf(num, op)).out = "OK"
  PROVE  call.out = "OK" /\ Does(call.sem, Then(call, Sembuf(num, op)).sem, num, op)
<1>1. call.out = "OK"
  BY DEF Then, Sembuf
<1>2. /\ Then(call, Sembuf(num, op)).sem = [call.sem EXCEPT ![num] = @ + op]
      /\ Outcome(call.sem, Sembuf(num, op)) = "OK"
  BY <1>1 DEF Then, Sembuf
<1>3. call.sem[num] \in 0 .. SEMVMX /\ SEMVMX \in Nat
  BY SemvmxAssumption DEF Sems
<1>4. call.sem[num] + op \in 0 .. SEMVMX
  BY <1>2, <1>3 DEF Outcome, Sembuf
<1>5. [call.sem EXCEPT ![num] = @ + op] \in Sems
  BY <1>4 DEF Sems
<1>6. /\ [call.sem EXCEPT ![num] = @ + op][num] = call.sem[num] + op
      /\ \A i \in Semaphores \ {num} : [call.sem EXCEPT ![num] = @ + op][i] = call.sem[i]
  BY DEF Sems
<1> QED
  BY <1>1, <1>2, <1>5, <1>6 DEF Does

(* Two operations, on different semaphores, that both could be done.       *)
LEMMA TwoOK ==
  ASSUME NEW s \in Sems, NEW a \in Semaphores, NEW b \in Semaphores, a # b,
         NEW i \in {-1, 1}, NEW j \in {-1, 1},
         NEW bufs, bufs = <<Sembuf(a, i), Sembuf(b, j)>>,
         Semop2(s, bufs).out = "OK"
  PROVE  /\ Semop2(s, bufs).sem \in Sems
         /\ Semop2(s, bufs).sem[a] = s[a] + i
         /\ Semop2(s, bufs).sem[b] = s[b] + j
         /\ \A n \in Semaphores \ {a, b} : Semop2(s, bufs).sem[n] = s[n]
<1> DEFINE c0 == Begin(s)
           c1 == Then(c0, Sembuf(a, i))
           c2 == Then(c1, Sembuf(b, j))
<1>1. c0.sem = s /\ Semop2(s, bufs) = c2
  BY DEF Begin, Semop2, Semop1
<1> HIDE DEF c0
<1>2. c1.out = "OK" => Does(s, c1.sem, a, i)
  BY <1>1, ThenOK
<1>3. c1.sem \in Sems
  <2>1. c1.sem = s \/ c1.sem = [s EXCEPT ![a] = @ + i]
    BY <1>1 DEF Then, Sembuf
  <2>2. c1.out = "OK"
    BY <1>1 DEF Then, Sembuf
  <2> QED
    BY <1>2, <2>2 DEF Does
<1>4. c2.out = "OK"
  BY <1>1
<1> HIDE DEF c1
<1>5. c1.out = "OK" /\ Does(c1.sem, c2.sem, b, j)
  BY <1>3, <1>4, ThenOK
<1> QED
  BY <1>1, <1>2, <1>5 DEF Does

(* The four calls.                                                         *)
LEMMA StartProduceEffect ==
  ASSUME sem \in Sems, NEW p, SemStep(p, "start", start_produce, "write")
  PROVE  sem' \in Sems /\ sem'[SE] = sem[SE] - 1 /\ sem'[SB] = sem[SB] - 1 /\ sem'[SF] = sem[SF]
  BY TwoOK, IndexFacts, SemFacts DEF SemStep, start_produce, P

LEMMA StopProduceEffect ==
  ASSUME sem \in Sems, NEW p, SemStep(p, "published", stop_produce, "start")
  PROVE  sem' \in Sems /\ sem'[SB] = sem[SB] + 1 /\ sem'[SF] = sem[SF] + 1 /\ sem'[SE] = sem[SE]
  BY TwoOK, IndexFacts, SemFacts DEF SemStep, stop_produce, V

LEMMA StartConsumeEffect ==
  ASSUME sem \in Sems, NEW p, SemStep(p, "start", start_consume, "print")
  PROVE  sem' \in Sems /\ sem'[SF] = sem[SF] - 1 /\ sem'[SB] = sem[SB] - 1 /\ sem'[SE] = sem[SE]
  BY TwoOK, IndexFacts, SemFacts DEF SemStep, start_consume, P

LEMMA StopConsumeEffect ==
  ASSUME sem \in Sems, NEW p, SemStep(p, "taken", stop_consume, "start")
  PROVE  sem' \in Sems /\ sem'[SB] = sem[SB] + 1 /\ sem'[SE] = sem[SE] + 1 /\ sem'[SF] = sem[SF]
  BY TwoOK, IndexFacts, SemFacts DEF SemStep, stop_consume, V

(* A start_ call blocks only on a semaphore that is 0.                     *)
LEMMA BlocksOnZero ==
  ASSUME NEW s \in Sems, NEW a \in Semaphores, NEW b \in Semaphores, a # b,
         NEW bufs, bufs = <<Sembuf(a, -1), Sembuf(b, -1)>>, Semop2(s, bufs).out = "EAGAIN"
  PROVE  s[a] = 0 \/ s[b] = 0
<1> SUFFICES ASSUME s[a] # 0, s[b] # 0 PROVE FALSE
  OBVIOUS
<1>1. s[a] \in 1 .. SEMVMX /\ s[b] \in 1 .. SEMVMX /\ SEMVMX \in Nat
  BY SemvmxAssumption DEF Sems
<1>2. Outcome(s, Sembuf(a, -1)) = "OK"
  BY <1>1 DEF Outcome, Sembuf
<1>3. Semop1(s, bufs) = [sem |-> [s EXCEPT ![a] = @ + (-1)], out |-> "OK"]
  BY <1>2 DEF Semop1, Then, Begin, Sembuf
<1>4. [s EXCEPT ![a] = @ + (-1)][b] = s[b]
  BY DEF Sems
<1>5. Outcome([s EXCEPT ![a] = @ + (-1)], Sembuf(b, -1)) = "OK"
  BY <1>1, <1>4 DEF Outcome, Sembuf
<1>6. Semop2(s, bufs).out = Outcome([s EXCEPT ![a] = @ + (-1)], Sembuf(b, -1))
  <2> DEFINE t == [s EXCEPT ![a] = @ + (-1)]
             call == [sem |-> t, out |-> "OK"]
  <2>1. Semop2(s, bufs) = Then(call, Sembuf(b, -1))
    BY <1>3 DEF Semop2
  <2>2. call.out = "OK" /\ call.sem = t
    OBVIOUS
  <2> HIDE DEF call
  <2>3. Then(call, Sembuf(b, -1)).out = Outcome(t, Sembuf(b, -1))
    BY <2>2 DEF Then
  <2> QED
    BY <2>1, <2>3
<1> QED
  BY <1>5, <1>6

-----------------------------------------------------------------------------
(* The initial states satisfy the inductive invariant. *)
LEMMA InitInv == Init => IInv
<1> SUFFICES ASSUME Init PROVE IInv
  OBVIOUS
<1> USE ProducerConsumerAssumption, SemvmxAssumption DEF Init, InSection, Producing, Consuming
<1>1. sem[SB] = 1 /\ sem[SE] = SIZE_BUF /\ sem[SF] = 0 /\ sem \in [{SB, SE, SF} -> 0 .. SEMVMX]
  BY DEF SB, SE, SF
<1>2. written = <<>> /\ printed = <<>> /\ Len(written) = 0 /\ Len(printed) = 0
  OBVIOUS
<1>3. PlaceInv
  <2>1. TypeOK
    <3>1. cell \in [0 .. CELLS - 1 -> 0 .. CHAR - 1] /\ alfa \in 0 .. CHAR - 1
      BY DEF FirstLetter
    <3>2. pc \in [Procs -> {"unborn", "start", "dead"} \union InSection]
      OBVIOUS
    <3> QED
      BY <1>1, <1>2, <3>1, <3>2 DEF TypeOK
  <2> QED
    BY <2>1 DEF PlaceInv
<1>4. MutexInv
  BY <1>1 DEF MutexInv
<1>5. SegmentInv
  BY <1>1, <1>2 DEF SegmentInv, At, FirstLetter
<1>6. LetterInv
  BY <1>2 DEF LetterInv
<1> QED
  BY <1>3, <1>4, <1>5, <1>6 DEF IInv

-----------------------------------------------------------------------------
(* p goes from one place to another, and nobody else does.                 *)
Moves(p, from, to) ==
  /\ pc[p] = from
  /\ pc'[p] = to
  /\ \A q \in Procs \ {p} : pc'[q] = pc[q]
  /\ pc' \in [Procs -> Places]

LEMMA MoveFacts ==
  ASSUME TypeOK, NEW p \in Procs, NEW to \in Places, pc' = [pc EXCEPT ![p] = to]
  PROVE  Moves(p, pc[p], to)
BY DEF TypeOK, Places, Moves

(* Every step is one of these.                                             *)
Enters(p) ==
  \/ Moves(p, "start", "write") /\ StartProduce(p)
  \/ Moves(p, "start", "print") /\ StartConsume(p)
Leaves(p) ==
  \/ Moves(p, "published", "start") /\ StopProduce(p)
  \/ Moves(p, "taken", "start") /\ StopConsume(p)
Works(p) ==
  \/ Moves(p, "write", "advance") /\ Write(p)
  \/ Moves(p, "write", "dead in") /\ WriteFaults(p)
  \/ Moves(p, "advance", "next") /\ Advance(p)
  \/ Moves(p, "next", "published") /\ NextLetter(p)
  \/ Moves(p, "print", "increment") /\ Show(p)
  \/ Moves(p, "increment", "taken") /\ Increment(p)
Dies(p) ==
  /\ pc[p] \in InSection
  /\ Moves(p, pc[p], "dead in")
  /\ Kill(p)
Waits(p) ==
  /\ \/ Moves(p, "unborn", "start") /\ Fork(p)
     \/ pc[p] \notin InSection /\ Moves(p, pc[p], "dead") /\ Kill(p)
Stays == UNCHANGED <<pc, sem, segment, stdout>> /\ (ForkFails \/ Reap)

LEMMA StepCases ==
  ASSUME TypeOK, Next
  PROVE  Stays \/ \E p \in Procs : Enters(p) \/ Leaves(p) \/ Works(p) \/ Dies(p) \/ Waits(p)
<1>1. /\ "start" \in Places /\ "write" \in Places /\ "advance" \in Places /\ "next" \in Places
      /\ "published" \in Places /\ "print" \in Places /\ "increment" \in Places /\ "taken" \in Places
      /\ "dead" \in Places /\ "dead in" \in Places
  BY DEF Places, InSection, Producing, Consuming
<1>2. CASE ForkFails \/ Reap
  BY <1>2 DEF ForkFails, Reap, Stays
<1>3. ASSUME NEW p \in Procs, Fork(p) PROVE Waits(p)
  BY <1>1, <1>3, MoveFacts DEF Fork, Waits
<1>4. ASSUME NEW p \in Procs, Kill(p) PROVE Dies(p) \/ Waits(p)
  <2>1. CASE pc[p] \in InSection
    BY <1>1, <1>4, <2>1, MoveFacts DEF Kill, Dies
  <2>2. CASE pc[p] \notin InSection
    BY <1>1, <1>4, <2>2, MoveFacts DEF Kill, Waits
  <2> QED
    BY <2>1, <2>2
<1>5. ASSUME NEW p \in Producers, Producer(p) PROVE Enters(p) \/ Leaves(p) \/ Works(p)
  <2>1. p \in Procs
    BY DEF Procs
  <2>2. CASE StartProduce(p)
    BY <1>1, <2>1, <2>2, MoveFacts DEF StartProduce, SemStep, Enters
  <2>3. CASE StopProduce(p)
    BY <1>1, <2>1, <2>3, MoveFacts DEF StopProduce, SemStep, Leaves
  <2>4. CASE Write(p) \/ WriteFaults(p) \/ Advance(p) \/ NextLetter(p)
    BY <1>1, <2>1, <2>4, MoveFacts DEF Write, WriteFaults, Advance, NextLetter, Goto, Works
  <2> QED
    BY <1>5, <2>2, <2>3, <2>4 DEF Producer
<1>6. ASSUME NEW p \in Consumers, Consumer(p) PROVE Enters(p) \/ Leaves(p) \/ Works(p)
  <2>1. p \in Procs
    BY DEF Procs
  <2>2. CASE StartConsume(p)
    BY <1>1, <2>1, <2>2, MoveFacts DEF StartConsume, SemStep, Enters
  <2>3. CASE StopConsume(p)
    BY <1>1, <2>1, <2>3, MoveFacts DEF StopConsume, SemStep, Leaves
  <2>4. CASE Show(p) \/ Increment(p)
    BY <1>1, <2>1, <2>4, MoveFacts DEF Show, Increment, Goto, Works
  <2> QED
    BY <1>6, <2>2, <2>3, <2>4 DEF Consumer
<1> QED
  BY <1>2, <1>3, <1>4, <1>5, <1>6 DEF Next, Procs

LEMMA EntersEffect ==
  ASSUME sem \in Sems, NEW p, Enters(p)
  PROVE  /\ sem' \in Sems /\ sem'[SB] = sem[SB] - 1
         /\ sem'[SE] + sem'[SF] = sem[SE] + sem[SF] - 1
         /\ UNCHANGED <<parent, segment, stdout, kills>>
<1>0. sem[SE] \in Int /\ sem[SF] \in Int
  BY SemFacts, IndexFacts
<1>1. CASE StartProduce(p)
  <2>1. sem' \in Sems /\ sem'[SE] = sem[SE] - 1 /\ sem'[SB] = sem[SB] - 1 /\ sem'[SF] = sem[SF]
    BY <1>1, StartProduceEffect DEF StartProduce
  <2>2. UNCHANGED <<parent, segment, stdout, kills>>
    BY <1>1 DEF StartProduce, SemStep
  <2> QED
    BY <1>0, <2>1, <2>2
<1>2. CASE StartConsume(p)
  <2>1. sem' \in Sems /\ sem'[SF] = sem[SF] - 1 /\ sem'[SB] = sem[SB] - 1 /\ sem'[SE] = sem[SE]
    BY <1>2, StartConsumeEffect DEF StartConsume
  <2>2. UNCHANGED <<parent, segment, stdout, kills>>
    BY <1>2 DEF StartConsume, SemStep
  <2> QED
    BY <1>0, <2>1, <2>2
<1> QED
  BY <1>1, <1>2 DEF Enters

LEMMA LeavesEffect ==
  ASSUME sem \in Sems, NEW p, Leaves(p)
  PROVE  /\ sem' \in Sems /\ sem'[SB] = sem[SB] + 1
         /\ sem'[SE] + sem'[SF] = sem[SE] + sem[SF] + 1
         /\ UNCHANGED <<parent, segment, stdout, kills>>
<1>0. sem[SE] \in Int /\ sem[SF] \in Int
  BY SemFacts, IndexFacts
<1>1. CASE StopProduce(p)
  <2>1. sem' \in Sems /\ sem'[SF] = sem[SF] + 1 /\ sem'[SB] = sem[SB] + 1 /\ sem'[SE] = sem[SE]
    BY <1>1, StopProduceEffect DEF StopProduce
  <2>2. UNCHANGED <<parent, segment, stdout, kills>>
    BY <1>1 DEF StopProduce, SemStep
  <2> QED
    BY <1>0, <2>1, <2>2
<1>2. CASE StopConsume(p)
  <2>1. sem' \in Sems /\ sem'[SE] = sem[SE] + 1 /\ sem'[SB] = sem[SB] + 1 /\ sem'[SF] = sem[SF]
    BY <1>2, StopConsumeEffect DEF StopConsume
  <2>2. UNCHANGED <<parent, segment, stdout, kills>>
    BY <1>2 DEF StopConsume, SemStep
  <2> QED
    BY <1>0, <2>1, <2>2
<1> QED
  BY <1>1, <1>2 DEF Leaves

(* Where a step begins and ends, seen from the critical section.           *)
LEMMA WhereFacts ==
  /\ \A to \in {"write", "advance", "next", "published", "print", "increment", "taken", "dead in"} : to \in InSection
  /\ \A to \in {"unborn", "start", "dead"} : to \notin InSection
  BY DEF InSection, Producing, Consuming

(* Every step keeps the critical section to one process at a time.         *)
LEMMA MutexStep ==
  ASSUME TypeOK, MutexInv, Next PROVE MutexInv'
<1>1. sem \in Sems
  BY DEF TypeOK, Sems, Semaphores
<1>2. /\ sem[SB] \in Int /\ sem[SE] \in Int /\ sem[SF] \in Int
  BY <1>1, SemFacts, IndexFacts
<1>3. ASSUME NEW p \in Procs, Enters(p) PROVE MutexInv'
  <2>1. pc[p] \notin InSection /\ pc'[p] \in InSection /\ \A q \in Procs \ {p} : pc'[q] = pc[q]
    BY <1>3, WhereFacts DEF Enters, Moves
  <2>2. /\ sem' \in Sems /\ sem'[SB] = sem[SB] - 1
        /\ sem'[SE] + sem'[SF] = sem[SE] + sem[SF] - 1
    BY <1>1, <1>3, EntersEffect
  <2>3. sem'[SB] >= 0
    BY <2>2, SemFacts, IndexFacts
  <2>4. sem[SB] \in {0, 1}
    BY DEF MutexInv
  <2>5. sem[SB] = 1 /\ sem'[SB] = 0
    BY <2>2, <2>3, <2>4
  <2>6. \A q \in Procs : pc[q] \notin InSection
    BY <2>5 DEF MutexInv
  <2>7. sem[SE] + sem[SF] = SIZE_BUF - 1 + 1
    BY <2>5 DEF MutexInv
  <2>8. sem'[SE] + sem'[SF] = SIZE_BUF - 1 + 0
    BY <1>2, <2>2, <2>7, NumberFacts
  <2> QED
    BY <2>1, <2>5, <2>6, <2>8 DEF MutexInv
<1>4. ASSUME NEW p \in Procs, Leaves(p) PROVE MutexInv'
  <2>1. pc[p] \in InSection /\ pc'[p] \notin InSection /\ \A q \in Procs \ {p} : pc'[q] = pc[q]
    BY <1>4, WhereFacts DEF Leaves, Moves
  <2>2. /\ sem' \in Sems /\ sem'[SB] = sem[SB] + 1
        /\ sem'[SE] + sem'[SF] = sem[SE] + sem[SF] + 1
    BY <1>1, <1>4, LeavesEffect
  <2>3. sem[SB] = 0
    BY <2>1 DEF MutexInv
  <2>4. sem'[SB] = 1
    BY <2>2, <2>3
  <2>5. \A q \in Procs : pc'[q] \notin InSection
    BY <2>1 DEF MutexInv
  <2>6. sem[SE] + sem[SF] = SIZE_BUF - 1 + 0
    BY <2>3 DEF MutexInv
  <2>7. sem'[SE] + sem'[SF] = SIZE_BUF - 1 + 1
    BY <2>2, <2>6, NumberFacts
  <2> QED
    BY <2>4, <2>5, <2>7 DEF MutexInv
<1>5. ASSUME UNCHANGED sem, \A q \in Procs : pc'[q] \in InSection <=> pc[q] \in InSection PROVE MutexInv'
  BY <1>5 DEF MutexInv
<1>6. ASSUME NEW p \in Procs, Works(p) \/ Dies(p) \/ Waits(p) PROVE MutexInv'
  <2>1. UNCHANGED sem
    BY <1>6 DEF Works, Dies, Waits, Write, WriteFaults, Advance, NextLetter, Show, Increment, Goto, Kill, Fork
  <2>2. (pc'[p] \in InSection <=> pc[p] \in InSection) /\ \A q \in Procs \ {p} : pc'[q] = pc[q]
    BY <1>6, WhereFacts DEF Works, Dies, Waits, Moves
  <2> QED
    BY <2>1, <2>2, <1>5
<1>7. CASE Stays
  BY <1>5, <1>7 DEF Stays
<1> QED
  BY <1>3, <1>4, <1>6, <1>7, StepCases

(* Nobody is in the critical section with p.                               *)
LEMMA AloneInSection ==
  ASSUME MutexInv, NEW p \in Procs, pc[p] \in InSection
  PROVE  \A q \in Procs \ {p} : pc[q] \notin InSection
BY DEF MutexInv

LEMMA NobodyInSection ==
  ASSUME sem \in Sems, MutexInv, NEW p \in Procs, Enters(p)
  PROVE  \A q \in Procs : pc[q] \notin InSection
<1>1. sem' \in Sems /\ sem'[SB] = sem[SB] - 1
  BY EntersEffect
<1>2. sem[SB] # 0
  BY <1>1, SemFacts, IndexFacts
<1> QED
  BY <1>2 DEF MutexInv

(* Every step keeps the types, the pointers within their page included.    *)
LEMMA PlaceStep ==
  ASSUME PlaceInv, MutexInv, Next PROVE PlaceInv'
<1>1. sem \in Sems /\ TypeOK
  BY DEF PlaceInv, TypeOK, Sems, Semaphores
<1>2. CASE Stays
  <2>1. UNCHANGED <<pc, sem, segment, stdout>>
    BY <1>2 DEF Stays
  <2>2. kills' \in 0 .. MaxKills /\ parent' \in {"forking", "waiting", "gone"}
    <3>1. kills \in 0 .. MaxKills
      BY <1>1 DEF TypeOK
    <3>2. CASE ForkFails
      <4>1. kills < MaxKills /\ kills' = kills + 1 /\ parent' = "gone"
        BY <3>2 DEF ForkFails
      <4> QED
        BY <3>1, <4>1, NumberFacts
    <3>3. CASE Reap
      BY <3>1, <3>3 DEF Reap
    <3> QED
      BY <1>2, <3>2, <3>3 DEF Stays
  <2> QED
    BY <2>1, <2>2 DEF segment, stdout, PlaceInv, TypeOK
<1>3. ASSUME NEW p \in Procs, Enters(p) \/ Leaves(p) PROVE PlaceInv'
  <2>1. sem' \in Sems /\ UNCHANGED <<parent, segment, stdout, kills>>
    BY <1>1, <1>3, EntersEffect, LeavesEffect
  <2>2. pc' \in [Procs -> Places] /\ \A q \in Procs : pc'[q] = "advance" => pc[q] = "advance"
    BY <1>3 DEF Enters, Leaves, Moves
  <2> QED
    BY <2>1, <2>2 DEF PlaceInv, TypeOK, segment, stdout, Sems, Semaphores, Places
<1>4. ASSUME NEW p \in Procs, Dies(p) \/ Waits(p) PROVE PlaceInv'
  <2>1. pc' \in [Procs -> Places] /\ \A q \in Procs : pc'[q] = "advance" => pc[q] = "advance"
    BY <1>4 DEF Dies, Waits, Moves
  <2>2. UNCHANGED <<sem, segment, stdout>>
    BY <1>4 DEF Dies, Waits, Kill, Fork
  <2>3. kills' \in 0 .. MaxKills /\ parent' \in {"forking", "waiting", "gone"}
    <3>1. kills \in 0 .. MaxKills /\ parent \in {"forking", "waiting", "gone"}
      BY <1>1 DEF TypeOK
    <3>2. CASE Kill(p)
      <4>1. kills < MaxKills /\ kills' = kills + 1 /\ parent' = parent
        BY <3>2 DEF Kill
      <4> QED
        BY <3>1, <4>1, NumberFacts
    <3>3. CASE Fork(p)
      BY <3>1, <3>3 DEF Fork
    <3> QED
      BY <1>4, <3>2, <3>3 DEF Dies, Waits
  <2> QED
    BY <2>1, <2>2, <2>3 DEF PlaceInv, TypeOK, segment, stdout, Places
<1>5. ASSUME NEW p \in Procs, Works(p) PROVE PlaceInv'
  <2>1. /\ pc' \in [Procs -> Places] /\ pc[p] \in InSection
        /\ \A q \in Procs \ {p} : pc'[q] = pc[q]
        /\ UNCHANGED <<parent, sem, kills>>
    BY <1>5, WhereFacts DEF Works, Moves, Write, WriteFaults, Advance, NextLetter, Show, Increment, Goto
  <2>2. \A q \in Procs \ {p} : pc'[q] \notin InSection /\ pc'[q] # "advance"
    BY <2>1, AloneInSection, WhereFacts DEF PlaceInv
  <2>3. cell \in [0 .. CELLS - 1 -> 0 .. CHAR - 1] /\ alfa \in 0 .. CHAR - 1 /\ ptr_cons = 0
        /\ ptr_prod \in 0 .. CELLS /\ written \in Seq(0 .. CHAR - 1) /\ printed \in Seq(0 .. CHAR - 1)
    BY <1>1 DEF PlaceInv, TypeOK
  <2>4. /\ cell' \in [0 .. CELLS - 1 -> 0 .. CHAR - 1] /\ alfa' \in 0 .. CHAR - 1 /\ ptr_cons' = 0
        /\ ptr_prod' \in 0 .. CELLS /\ written' \in Seq(0 .. CHAR - 1) /\ printed' \in Seq(0 .. CHAR - 1)
        /\ pc'[p] = "advance" => ptr_prod' < CELLS
    <3>1. CASE Moves(p, "write", "advance") /\ Write(p)
      <4>1. ptr_prod < CELLS /\ cell' = [cell EXCEPT ![ptr_prod] = alfa] /\ written' = Append(written, alfa)
            /\ UNCHANGED <<ptr_prod, ptr_cons, alfa, printed>>
        BY <3>1 DEF Write
      <4>2. cell' \in [0 .. CELLS - 1 -> 0 .. CHAR - 1]
        BY <4>1, <2>3
      <4>3. written' \in Seq(0 .. CHAR - 1)
        BY <4>1, <2>3
      <4> QED
        BY <4>1, <4>2, <4>3, <2>3
    <3>2. CASE Moves(p, "write", "dead in") /\ WriteFaults(p)
      BY <3>2, <2>3 DEF Moves, WriteFaults, segment, stdout
    <3>3. CASE Moves(p, "advance", "next") /\ Advance(p)
      <4>1. ptr_prod < CELLS
        BY <3>3 DEF PlaceInv, Moves
      <4>2. ptr_prod' = ptr_prod + 1 /\ UNCHANGED <<ptr_cons, alfa, cell, stdout>> /\ pc'[p] # "advance"
        BY <3>3 DEF Advance, Moves
      <4>3. ptr_prod' \in 0 .. CELLS
        BY <4>1, <4>2, <2>3, NumberFacts
      <4> QED
        BY <4>2, <4>3, <2>3 DEF stdout
    <3>4. CASE Moves(p, "next", "published") /\ NextLetter(p)
      <4>1. alfa' = (alfa + 1) % CHAR /\ UNCHANGED <<ptr_prod, ptr_cons, cell, stdout>> /\ pc'[p] # "advance"
        BY <3>4 DEF NextLetter, Moves
      <4>2. alfa' \in 0 .. CHAR - 1
        BY <4>1, <2>3, NumberFacts
      <4> QED
        BY <4>1, <4>2, <2>3 DEF stdout
    <3>5. CASE Moves(p, "print", "increment") /\ Show(p)
      <4>1. cell[ptr_cons] \in 0 .. CHAR - 1
        BY <2>3, NumberFacts
      <4>2. printed' = Append(printed, cell[ptr_cons]) /\ UNCHANGED <<segment, written>> /\ pc'[p] # "advance"
        BY <3>5 DEF Show, Moves
      <4>3. printed' \in Seq(0 .. CHAR - 1)
        BY <4>1, <4>2, <2>3
      <4> QED
        BY <4>2, <4>3, <2>3 DEF segment
    <3>6. CASE Moves(p, "increment", "taken") /\ Increment(p)
      <4>1. cell[0] \in 0 .. CHAR - 1 /\ (cell[0] + 1) % CHAR \in 0 .. CHAR - 1
        BY <2>3, NumberFacts
      <4>2. cell' = [cell EXCEPT ![0] = (cell[0] + 1) % CHAR]
        BY <3>6, <2>3 DEF Increment
      <4>3. cell' \in [0 .. CELLS - 1 -> 0 .. CHAR - 1]
        BY <4>1, <4>2, <2>3
      <4> QED
        BY <3>6, <4>3, <2>3 DEF Moves, Increment, stdout
    <3> QED
      BY <1>5, <3>1, <3>2, <3>3, <3>4, <3>5, <3>6 DEF Works
  <2>5. TypeOK'
    <3>1. ptr_cons' \in 0 .. CELLS - 1
      BY <2>4, NumberFacts
    <3> QED
      BY <1>1, <2>1, <2>4, <3>1 DEF TypeOK, Places
  <2> QED
    BY <2>2, <2>4, <2>5 DEF PlaceInv
<1> QED
  BY <1>1, <1>2, <1>3, <1>4, <1>5, StepCases

(* What is written and printed, in numbers.                                *)
LEMMA LengthFacts ==
  ASSUME TypeOK
  PROVE  /\ Len(written) \in Nat /\ Len(printed) \in Nat
         /\ written \in Seq(0 .. CHAR - 1) /\ printed \in Seq(0 .. CHAR - 1)
         /\ sem \in Sems /\ sem[SF] \in Int /\ sem[SF] >= 0
         /\ alfa \in 0 .. CHAR - 1 /\ ptr_prod \in Int
         /\ DOMAIN cell = 0 .. CELLS - 1 /\ 0 \in DOMAIN cell
<1>1. sem \in Sems
  BY DEF TypeOK, Sems, Semaphores
<1>2. sem[SF] \in Int /\ sem[SF] >= 0
  BY <1>1, SemFacts, IndexFacts
<1> QED
  BY <1>1, <1>2, NumberFacts DEF TypeOK

(* At "print" a letter is there to be printed.                             *)
LEMMA LetterAtHand ==
  ASSUME TypeOK, NEW ptr, NEW letter, NEW shown, At(1, ptr, letter, shown)
  PROVE  Len(printed) + 1 <= Len(written)
BY LengthFacts DEF At

(* What Write, Show, Increment, NextLetter and Advance do to the numbers.  *)
LEMMA WriteEffect ==
  ASSUME TypeOK, TypeOK', ptr_cons = 0, LetterInv, At(0, 0, 0, 0), NEW p, Write(p)
  PROVE  At(1, 1, 1, 0)' /\ LetterInv' /\ alfa = Len(written) % CHAR
<1>1. /\ ptr_prod < CELLS /\ cell' = [cell EXCEPT ![ptr_prod] = alfa]
      /\ written' = Append(written, alfa) /\ UNCHANGED <<sem, ptr_prod, alfa, printed>>
  BY DEF Write, Goto
<1>2. /\ sem[SF] = Len(written) - Len(printed) /\ ptr_prod = Len(written)
      /\ alfa = Len(written) % CHAR
      /\ Len(written) > 0 => cell[0] = Len(printed) % CHAR
  BY LengthFacts DEF At
<1>3. Len(written') = Len(written) + 1 /\ Len(printed') = Len(printed)
  BY <1>1, LengthFacts
<1>4. cell'[0] = Len(printed) % CHAR
  <2>1. CASE Len(written) = 0
    <3>1. Len(printed) = 0
      BY <2>1, LengthFacts DEF LetterInv
    <3>2. cell'[0] = alfa
      BY <1>1, <1>2, <2>1, LengthFacts
    <3> QED
      BY <3>1, <3>2, <1>2, <2>1
  <2>2. CASE Len(written) # 0
    <3>1. ptr_prod # 0 /\ cell[0] = Len(printed) % CHAR
      BY <1>2, <2>2, LengthFacts
    <3> QED
      BY <1>1, <3>1, LengthFacts
  <2> QED
    BY <2>1, <2>2
<1>5. At(1, 1, 1, 0)'
  <2>1. sem'[SF] = Len(written') - Len(printed') - 1 /\ ptr_prod' = Len(written') - 1
    BY <1>1, <1>2, <1>3, LengthFacts
  <2>2. alfa' = (Len(written') - 1) % CHAR
    <3>1. Len(written') - 1 = Len(written)
      BY <1>3, LengthFacts
    <3> QED
      BY <3>1, <1>1, <1>2
  <2>3. cell'[0] = (Len(printed') - 0) % CHAR
    <3>1. Len(printed') - 0 = Len(printed)
      BY <1>3, LengthFacts
    <3> QED
      BY <3>1, <1>4
  <2>4. 1 <= Len(written') /\ 0 <= Len(printed')
    BY <1>3, LengthFacts
  <2> QED
    BY <2>1, <2>2, <2>3, <2>4 DEF At
<1>6. LetterInv'
  <2>1. ASSUME NEW k \in 1 .. Len(written') PROVE written'[k] = (k - 1) % CHAR
    <3>1. CASE k = Len(written) + 1
      <4>1. written'[k] = alfa /\ k - 1 = Len(written)
        BY <3>1, <1>1, LengthFacts
      <4> QED
        BY <4>1, <1>2
    <3>2. CASE k # Len(written) + 1
      <4>1. k \in 1 .. Len(written)
        BY <3>2, <1>3, LengthFacts
      <4>2. written'[k] = written[k]
        BY <4>1, <1>1, LengthFacts
      <4> QED
        BY <4>1, <4>2 DEF LetterInv
    <3> QED
      BY <3>1, <3>2
  <2>2. Len(printed') <= Len(written')
    BY <1>3, LengthFacts DEF LetterInv
  <2> QED
    BY <2>1, <2>2 DEF LetterInv
<1> QED
  BY <1>2, <1>5, <1>6

LEMMA AdvanceEffect ==
  ASSUME TypeOK, At(1, 1, 1, 0), NEW p, Advance(p) PROVE At(1, 0, 1, 0)'
<1>1. ptr_prod' = ptr_prod + 1 /\ UNCHANGED <<sem, alfa, cell, written, printed>>
  BY DEF Advance, Goto, stdout
<1>2. ptr_prod' = Len(written) - 0
  BY <1>1, LengthFacts DEF At
<1> QED
  BY <1>1, <1>2 DEF At

LEMMA NextLetterEffect ==
  ASSUME TypeOK, At(1, 0, 1, 0), NEW p, NextLetter(p) PROVE At(1, 0, 0, 0)'
<1>1. alfa' = (alfa + 1) % CHAR /\ UNCHANGED <<sem, ptr_prod, cell, written, printed>>
  BY DEF NextLetter, Goto, stdout
<1>2. alfa = (Len(written) - 1) % CHAR /\ 1 <= Len(written)
  BY DEF At
<1>3. Len(written) - 1 \in Nat /\ (Len(written) - 1) + 1 = Len(written) - 0 /\ 0 <= Len(written)
  BY <1>2, LengthFacts
<1>4. alfa' = (Len(written) - 0) % CHAR
  BY <1>1, <1>2, <1>3, ModSucc, NumberFacts
<1> QED
  BY <1>1, <1>3, <1>4 DEF At

LEMMA ShowEffect ==
  ASSUME TypeOK, LetterInv, ptr_cons = 0, At(1, 0, 0, 0), NEW p, Show(p)
  PROVE  /\ At(0, 0, 0, 1)' /\ LetterInv'
         /\ Len(printed) < Len(written) /\ printed' = Append(printed, written[Len(printed) + 1])
<1>1. printed' = Append(printed, cell[0]) /\ UNCHANGED <<sem, ptr_prod, alfa, cell, written>>
  BY DEF Show, Goto, segment
<1>2. Len(printed) + 1 <= Len(written)
  BY LetterAtHand
<1>3. Len(printed') = Len(printed) + 1
  BY <1>1, LengthFacts
<1>4. At(0, 0, 0, 1)'
  <2>1. /\ Len(printed') - 1 = Len(printed) - 0 /\ 1 <= Len(printed') /\ Len(written) > 0
        /\ Len(written) - Len(printed') - 0 = Len(written) - Len(printed) - 1
    BY <1>2, <1>3, LengthFacts
  <2> QED
    BY <1>1, <2>1 DEF At
<1>5. LetterInv'
  <2>1. Len(printed') <= Len(written)
    BY <1>2, <1>3, LengthFacts
  <2> QED
    BY <1>1, <2>1 DEF LetterInv
<1>6. cell[0] = written[Len(printed) + 1]
  <2>1. /\ Len(printed) + 1 \in 1 .. Len(written) /\ (Len(printed) + 1) - 1 = Len(printed) - 0
        /\ Len(written) > 0
    BY <1>2, LengthFacts
  <2>2. written[Len(printed) + 1] = (Len(printed) - 0) % CHAR
    BY <2>1 DEF LetterInv
  <2>3. cell[0] = (Len(printed) - 0) % CHAR
    BY <2>1 DEF At
  <2> QED
    BY <2>2, <2>3
<1> QED
  BY <1>1, <1>2, <1>4, <1>5, <1>6, LengthFacts

LEMMA IncrementEffect ==
  ASSUME TypeOK, LetterInv, ptr_cons = 0, At(0, 0, 0, 1), NEW p, Increment(p) PROVE At(0, 0, 0, 0)'
<1>1. cell' = [cell EXCEPT ![0] = (cell[0] + 1) % CHAR] /\ UNCHANGED <<sem, ptr_prod, alfa, written, printed>>
  BY DEF Increment, Goto, stdout
<1>2. 1 <= Len(printed) /\ Len(written) > 0
  BY LengthFacts DEF At, LetterInv
<1>3. cell[0] = (Len(printed) - 1) % CHAR
  BY <1>2 DEF At
<1>4. Len(printed) - 1 \in Nat /\ (Len(printed) - 1) + 1 = Len(printed) - 0 /\ 0 <= Len(printed)
  BY <1>2, LengthFacts
<1>5. cell'[0] = (Len(printed) - 0) % CHAR
  <2>1. cell'[0] = (cell[0] + 1) % CHAR
    BY <1>1, LengthFacts
  <2> QED
    BY <2>1, <1>3, <1>4, ModSucc, NumberFacts
<1> QED
  BY <1>1, <1>4, <1>5 DEF At

(* A call changes only what SF is behind.                                  *)
LEMMA CallEffect ==
  ASSUME TypeOK, NEW h \in {0, 1}, NEW d \in {-1, 0, 1}, At(h, 0, 0, 0), UNCHANGED <<segment, stdout>>,
         sem'[SF] = sem[SF] + d, NEW g, g = h - d
  PROVE  At(g, 0, 0, 0)'
<1>1. sem'[SF] = Len(written) - Len(printed) - g
  BY LengthFacts DEF At
<1> QED
  BY <1>1 DEF At, segment, stdout

-----------------------------------------------------------------------------
(* The process that is alone in the critical section decides.              *)
LEMMA SegmentMove ==
  ASSUME NEW p \in Procs, \A q \in Procs \ {p} : pc'[q] \notin InSection,
         pc'[p] \notin InSection => At(0, 0, 0, 0)',
         pc'[p] = "write" => At(0, 0, 0, 0)',
         pc'[p] = "advance" => At(1, 1, 1, 0)',
         pc'[p] = "next" => At(1, 0, 1, 0)',
         pc'[p] = "published" => At(1, 0, 0, 0)',
         pc'[p] = "print" => At(1, 0, 0, 0)',
         pc'[p] = "increment" => At(0, 0, 0, 1)',
         pc'[p] = "taken" => At(0, 0, 0, 0)'
  PROVE  SegmentInv'
<1>1. (\A q \in Procs : pc'[q] \notin InSection) => At(0, 0, 0, 0)'
  OBVIOUS
<1>2. ASSUME NEW q \in Procs
      PROVE  /\ pc'[q] = "write" => At(0, 0, 0, 0)'
             /\ pc'[q] = "advance" => At(1, 1, 1, 0)'
             /\ pc'[q] = "next" => At(1, 0, 1, 0)'
             /\ pc'[q] = "published" => At(1, 0, 0, 0)'
             /\ pc'[q] = "print" => At(1, 0, 0, 0)'
             /\ pc'[q] = "increment" => At(0, 0, 0, 1)'
             /\ pc'[q] = "taken" => At(0, 0, 0, 0)'
  BY WhereFacts
<1> QED
  BY <1>1, <1>2 DEF SegmentInv

(* Every step keeps the segment and the histories together.                *)
LEMMA SegmentStep ==
  ASSUME PlaceInv, MutexInv, SegmentInv, LetterInv, PlaceInv', Next
  PROVE  SegmentInv' /\ LetterInv'
<1>1. TypeOK /\ TypeOK' /\ ptr_cons = 0 /\ sem \in Sems
  BY LengthFacts DEF PlaceInv
<1>2. ASSUME NEW p \in Procs, Enters(p) PROVE SegmentInv' /\ LetterInv'
  <2>1. /\ At(0, 0, 0, 0)
        /\ \A q \in Procs \ {p} : pc'[q] \notin InSection
    BY <1>1, <1>2, NobodyInSection DEF SegmentInv, Enters, Moves
  <2>2. UNCHANGED <<segment, stdout>>
    BY <1>1, <1>2, EntersEffect
  <2>3. LetterInv'
    BY <2>2 DEF LetterInv, stdout
  <2>4. CASE Moves(p, "start", "write") /\ StartProduce(p)
    <3>1. sem'[SF] = sem[SF] + 0
      BY <1>1, <2>4, StartProduceEffect, LengthFacts DEF StartProduce
    <3>2. At(0, 0, 0, 0)'
      BY <1>1, <2>1, <2>2, <3>1, CallEffect
    <3>3. pc'[p] = "write"
      BY <2>4 DEF Moves
    <3> QED
      BY <2>1, <2>3, <3>2, <3>3, SegmentMove
  <2>5. CASE Moves(p, "start", "print") /\ StartConsume(p)
    <3>1. sem'[SF] = sem[SF] + (-1)
      BY <1>1, <2>5, StartConsumeEffect, LengthFacts DEF StartConsume
    <3>2. At(1, 0, 0, 0)'
      BY <1>1, <2>1, <2>2, <3>1, CallEffect
    <3>3. pc'[p] = "print"
      BY <2>5 DEF Moves
    <3> QED
      BY <2>1, <2>3, <3>2, <3>3, SegmentMove, WhereFacts
  <2> QED
    BY <1>2, <2>4, <2>5 DEF Enters
<1>3. ASSUME NEW p \in Procs, Leaves(p) PROVE SegmentInv' /\ LetterInv'
  <2>1. \A q \in Procs \ {p} : pc'[q] \notin InSection
    BY <1>3, AloneInSection, WhereFacts DEF Leaves, Moves
  <2>2. UNCHANGED <<segment, stdout>>
    BY <1>1, <1>3, LeavesEffect
  <2>3. LetterInv'
    BY <2>2 DEF LetterInv, stdout
  <2>4. At(0, 0, 0, 0)' /\ pc'[p] = "start"
    <3>1. CASE Moves(p, "published", "start") /\ StopProduce(p)
      <4>1. sem'[SF] = sem[SF] + 1
        BY <1>1, <3>1, StopProduceEffect DEF StopProduce
      <4>2. At(1, 0, 0, 0)
        BY <3>1 DEF SegmentInv, Moves
      <4> QED
        BY <1>1, <2>2, <3>1, <4>1, <4>2, CallEffect DEF Moves
    <3>2. CASE Moves(p, "taken", "start") /\ StopConsume(p)
      <4>1. sem'[SF] = sem[SF] + 0
        BY <1>1, <3>2, StopConsumeEffect, LengthFacts DEF StopConsume
      <4>2. At(0, 0, 0, 0)
        BY <3>2 DEF SegmentInv, Moves
      <4> QED
        BY <1>1, <2>2, <3>2, <4>1, <4>2, CallEffect DEF Moves
    <3> QED
      BY <1>3, <3>1, <3>2 DEF Leaves
  <2> QED
    BY <2>1, <2>3, <2>4, SegmentMove
<1>4. ASSUME NEW p \in Procs, Works(p) PROVE SegmentInv' /\ LetterInv'
  <2>1. \A q \in Procs \ {p} : pc'[q] \notin InSection
    <3>1. pc[p] \in InSection /\ \A q \in Procs \ {p} : pc'[q] = pc[q]
      BY <1>4, WhereFacts DEF Works, Moves
    <3> QED
      BY <3>1, AloneInSection
  <2>2. ASSUME UNCHANGED stdout PROVE LetterInv'
    BY <2>2 DEF LetterInv, stdout
  <2>3. CASE Moves(p, "write", "advance") /\ Write(p)
    <3>1. At(0, 0, 0, 0) /\ pc'[p] = "advance"
      BY <2>3 DEF SegmentInv, Moves
    <3>2. At(1, 1, 1, 0)' /\ LetterInv'
      BY <1>1, <2>3, <3>1, WriteEffect
    <3> QED
      BY <2>1, <3>1, <3>2, SegmentMove, WhereFacts
  <2>4. CASE Moves(p, "write", "dead in") /\ WriteFaults(p)
    <3>1. pc'[p] = "dead in" /\ UNCHANGED stdout
      BY <2>4 DEF WriteFaults, Moves
    <3> QED
      BY <2>1, <2>2, <3>1, SegmentMove, WhereFacts
  <2>5. CASE Moves(p, "advance", "next") /\ Advance(p)
    <3>1. At(1, 1, 1, 0) /\ pc'[p] = "next" /\ UNCHANGED stdout
      BY <2>5 DEF SegmentInv, Moves, Advance
    <3>2. At(1, 0, 1, 0)'
      BY <1>1, <2>5, <3>1, AdvanceEffect
    <3> QED
      BY <2>1, <2>2, <3>1, <3>2, SegmentMove, WhereFacts
  <2>6. CASE Moves(p, "next", "published") /\ NextLetter(p)
    <3>1. At(1, 0, 1, 0) /\ pc'[p] = "published" /\ UNCHANGED stdout
      BY <2>6 DEF SegmentInv, Moves, NextLetter
    <3>2. At(1, 0, 0, 0)'
      BY <1>1, <2>6, <3>1, NextLetterEffect
    <3> QED
      BY <2>1, <2>2, <3>1, <3>2, SegmentMove, WhereFacts
  <2>7. CASE Moves(p, "print", "increment") /\ Show(p)
    <3>1. At(1, 0, 0, 0) /\ pc'[p] = "increment"
      BY <2>7 DEF SegmentInv, Moves
    <3>2. At(0, 0, 0, 1)' /\ LetterInv'
      BY <1>1, <2>7, <3>1, ShowEffect
    <3> QED
      BY <2>1, <3>1, <3>2, SegmentMove, WhereFacts
  <2>8. CASE Moves(p, "increment", "taken") /\ Increment(p)
    <3>1. At(0, 0, 0, 1) /\ pc'[p] = "taken" /\ UNCHANGED stdout
      BY <2>8 DEF SegmentInv, Moves, Increment
    <3>2. At(0, 0, 0, 0)'
      BY <1>1, <2>8, <3>1, IncrementEffect
    <3> QED
      BY <2>1, <2>2, <3>1, <3>2, SegmentMove, WhereFacts
  <2> QED
    BY <1>4, <2>3, <2>4, <2>5, <2>6, <2>7, <2>8 DEF Works
<1>5. ASSUME NEW p \in Procs, Dies(p) PROVE SegmentInv' /\ LetterInv'
  <2>1. pc'[p] = "dead in" /\ \A q \in Procs \ {p} : pc'[q] \notin InSection
    BY <1>5, AloneInSection DEF Dies, Moves
  <2>2. UNCHANGED stdout
    BY <1>5 DEF Dies, Kill
  <2> QED
    BY <2>1, <2>2, SegmentMove, WhereFacts DEF LetterInv, stdout
<1>6. ASSUME UNCHANGED <<sem, segment, stdout>>,
             \A q \in Procs : \/ pc'[q] = pc[q]
                              \/ pc[q] \notin InSection /\ pc'[q] \notin InSection
      PROVE  SegmentInv' /\ LetterInv'
  <2>1. ASSUME NEW h, NEW i, NEW j, NEW k, At(h, i, j, k) PROVE At(h, i, j, k)'
    BY <1>6, <2>1 DEF At, segment, stdout
  <2>2. SegmentInv'
    BY <1>6, <2>1, WhereFacts DEF SegmentInv
  <2> QED
    BY <1>6, <2>2 DEF LetterInv, stdout
<1>7. ASSUME NEW p \in Procs, Waits(p) PROVE SegmentInv' /\ LetterInv'
  <2>1. UNCHANGED <<sem, segment, stdout>>
    BY <1>7 DEF Waits, Kill, Fork
  <2>2. /\ pc[p] \notin InSection /\ pc'[p] \notin InSection
        /\ \A q \in Procs \ {p} : pc'[q] = pc[q]
    BY <1>7, WhereFacts DEF Waits, Moves
  <2>3. \A q \in Procs : \/ pc'[q] = pc[q]
                         \/ pc[q] \notin InSection /\ pc'[q] \notin InSection
    BY <2>2
  <2> QED
    BY <2>1, <2>3, <1>6
<1>8. CASE Stays
  <2>1. pc' = pc /\ UNCHANGED <<sem, segment, stdout>>
    BY <1>8 DEF Stays
  <2>2. \A q \in Procs : \/ pc'[q] = pc[q]
                         \/ pc[q] \notin InSection /\ pc'[q] \notin InSection
    BY <2>1
  <2> QED
    BY <2>1, <2>2, <1>6
<1> QED
  BY <1>1, <1>2, <1>3, <1>4, <1>5, <1>7, <1>8, StepCases

-----------------------------------------------------------------------------
(* The inductive invariant holds, wherever children are killed.            *)
THEOREM Invariance == Spec => []IInv
<1>1. Init => IInv
  BY InitInv
<1>2. IInv /\ [Next]_vars => IInv'
  <2> SUFFICES ASSUME IInv, [Next]_vars PROVE IInv'
    OBVIOUS
  <2>1. CASE Next
    <3>1. PlaceInv' /\ MutexInv'
      BY <2>1, PlaceStep, MutexStep DEF IInv, PlaceInv
    <3> QED
      BY <2>1, <3>1, SegmentStep DEF IInv
  <2>2. CASE UNCHANGED vars
    BY <2>2 DEF vars, segment, stdout, IInv, PlaceInv, TypeOK, MutexInv, SegmentInv, At, LetterInv
  <2> QED
    BY <2>1, <2>2
<1> QED
  BY <1>1, <1>2, PTL DEF Spec

(* Every variable keeps its type: no semaphore overflows, ptr_prod never   *)
(* passes the end of the page, and the consumers' pointer stays on it.     *)
THEOREM TypeCorrect == Spec => []TypeOK
<1>1. IInv => TypeOK
  BY DEF IInv, PlaceInv
<1> QED
  BY <1>1, Invariance, PTL

(* One process at a time is in its critical section, and the semaphores    *)
(* count the cells.                                                        *)
THEOREM CellsAreCounted == Spec => []CellsCounted
<1>1. IInv => CellsCounted
  <2> SUFFICES ASSUME IInv PROVE CellsCounted
    OBVIOUS
  <2> DEFINE Inside == {p \in Procs : pc[p] \in InSection}
  <2>0. sem[SB] \in {0, 1} /\ sem[SE] + sem[SF] = SIZE_BUF - 1 + sem[SB]
    BY DEF IInv, MutexInv
  <2>1. CASE sem[SB] = 1
    <3>1. Inside = {}
      BY <2>1 DEF IInv, MutexInv
    <3>2. Cardinality(Inside) = 0
      BY <3>1, FS_EmptySet
    <3> HIDE DEF Inside
    <3>3. sem[SB] = 1 - Cardinality(Inside) /\ sem[SE] + sem[SF] + Cardinality(Inside) = SIZE_BUF
      BY <2>0, <2>1, <3>2, NumberFacts
    <3> QED
      BY <3>3 DEF CellsCounted, Inside
  <2>2. CASE sem[SB] = 0
    <3>1. PICK p \in Procs : pc[p] \in InSection
      BY <2>2 DEF IInv, MutexInv
    <3>2. Inside = {p}
      BY <3>1 DEF IInv, MutexInv
    <3>3. Cardinality(Inside) = 1
      BY <3>2, FS_Singleton
    <3>4. sem[SE] + sem[SF] = SIZE_BUF - 1
      BY <2>0, <2>2, NumberFacts
    <3>5. sem[SE] \in Int /\ sem[SF] \in Int
      BY SemFacts, IndexFacts, LengthFacts DEF IInv, PlaceInv
    <3> HIDE DEF Inside
    <3>6. sem[SB] = 1 - Cardinality(Inside) /\ sem[SE] + sem[SF] + Cardinality(Inside) = SIZE_BUF
      BY <2>2, <3>3, <3>4, <3>5, NumberFacts
    <3> QED
      BY <3>6 DEF CellsCounted, Inside
  <2> QED
    BY <2>0, <2>1, <2>2
<1> QED
  BY <1>1, Invariance, PTL

NobodyDiedInside == \A p \in Procs : pc[p] # "dead in"

(* The children are stuck only after a death in a critical section, or     *)
(* when one kind of them is gone.                                          *)
THEOREM StuckOnlyForAReason == Spec => []StuckForAReason
<1>1. IInv => StuckForAReason
  <2> SUFFICES ASSUME IInv, AllBlocked, NobodyDiedInside
               PROVE  \/ Living(Producers) = {} /\ (Living(Consumers) = {} \/ sem[SF] = 0)
                      \/ Living(Consumers) = {} /\ sem[SE] = 0
    BY DEF StuckForAReason, NobodyDiedInside
  <2>1. sem \in Sems
    BY LengthFacts DEF IInv, PlaceInv
  <2>2. \A p \in Procs : pc[p] \notin InSection
    <3> SUFFICES ASSUME NEW p \in Procs, pc[p] \in InSection PROVE FALSE
      OBVIOUS
    <3>1. pc[p] \notin {"unborn", "dead", "dead in", "start"}
      BY DEF InSection, Producing, Consuming, NobodyDiedInside
    <3>2. p \in Living(Producers) \/ p \in Living(Consumers)
      BY <3>1 DEF Living, Procs
    <3> QED
      BY <3>1, <3>2 DEF AllBlocked, Blocked
  <2>3. sem[SB] = 1
    BY <2>2 DEF IInv, MutexInv
  <2>4. Living(Producers) # {} => sem[SE] = 0
    <3> SUFFICES ASSUME NEW p \in Living(Producers) PROVE sem[SE] = 0
      OBVIOUS
    <3>1. Semop2(sem, start_produce).out = "EAGAIN"
      BY DEF AllBlocked, Blocked
    <3>2. start_produce = <<Sembuf(SE, -1), Sembuf(SB, -1)>>
      BY DEF start_produce, P
    <3>3. sem[SE] = 0 \/ sem[SB] = 0
      BY <2>1, <3>1, <3>2, BlocksOnZero, IndexFacts
    <3> QED
      BY <2>3, <3>3
  <2>5. Living(Consumers) # {} => sem[SF] = 0
    <3> SUFFICES ASSUME NEW p \in Living(Consumers) PROVE sem[SF] = 0
      OBVIOUS
    <3>1. Semop2(sem, start_consume).out = "EAGAIN"
      BY DEF AllBlocked, Blocked
    <3>2. start_consume = <<Sembuf(SF, -1), Sembuf(SB, -1)>>
      BY DEF start_consume, P
    <3>3. sem[SF] = 0 \/ sem[SB] = 0
      BY <2>1, <3>1, <3>2, BlocksOnZero, IndexFacts
    <3> QED
      BY <2>3, <3>3
  <2>6. ASSUME sem[SE] = 0, sem[SF] = 0 PROVE FALSE
    <3>1. 0 + 0 = SIZE_BUF - 1 + 1
      BY <2>3, <2>6 DEF IInv, MutexInv
    <3> QED
      BY <3>1, NumberFacts
  <2> QED
    BY <2>4, <2>5, <2>6
<1> QED
  BY <1>1, Invariance, PTL

(* A child that died in its critical section.                              *)
DiedInside(p) == pc[p] = "dead in"

(* It is in the way of everybody: nobody can enter, and nobody else is     *)
(* inside to work or to leave.                                             *)
LEMMA NothingAfterDeath ==
  ASSUME IInv, NEW d \in Procs, DiedInside(d), Next
  PROVE  /\ DiedInside(d)' /\ UNCHANGED <<sem, segment, stdout>>
         /\ Stays \/ \E p \in Procs : Waits(p)
<1>1. sem \in Sems /\ TypeOK /\ MutexInv
  BY LengthFacts DEF IInv, PlaceInv
<1>2. pc[d] = "dead in" /\ pc[d] \in InSection
  BY WhereFacts DEF DiedInside
<1>3. \A q \in Procs \ {d} : pc[q] \notin InSection
  BY <1>1, <1>2, AloneInSection
<1>4. ASSUME NEW p \in Procs, Enters(p) PROVE FALSE
  BY <1>1, <1>2, <1>4, NobodyInSection
<1>5. ASSUME NEW p \in Procs, Leaves(p) \/ Works(p) PROVE FALSE
  <2>1. pc[p] \in InSection /\ pc[p] # "dead in"
    BY <1>5, WhereFacts DEF Leaves, Works, Moves
  <2> QED
    BY <1>2, <1>3, <2>1
<1>6. ASSUME NEW p \in Procs, Dies(p) PROVE FALSE
  <2>1. pc[p] \in InSection /\ pc[p] # "dead in"
    BY <1>6 DEF Dies, Kill
  <2> QED
    BY <1>2, <1>3, <2>1
<1>7. Stays \/ \E p \in Procs : Waits(p)
  BY <1>1, <1>4, <1>5, <1>6, StepCases
<1>8. CASE Stays
  BY <1>2, <1>7, <1>8 DEF Stays, DiedInside
<1>9. ASSUME NEW p \in Procs, Waits(p)
      PROVE  DiedInside(d)' /\ UNCHANGED <<sem, segment, stdout>>
  <2>1. UNCHANGED <<sem, segment, stdout>>
    BY <1>9 DEF Waits, Fork, Kill
  <2>2. p # d
    BY <1>2, <1>9 DEF Waits, Moves
  <2>3. pc'[d] = pc[d]
    BY <1>9, <2>2 DEF Waits, Moves
  <2> QED
    BY <1>2, <2>1, <2>3 DEF DiedInside
<1> QED
  BY <1>7, <1>8, <1>9

(* A child that dies between its two calls of semop, killed from outside   *)
(* or by the store at line 50 once it has left the page, dies with SB taken:  *)
(* the calls at lines 43, 59, 72 and 85 have no SEM_UNDO.  From then on    *)
(* no semaphore changes, nothing is stored and nothing printed.            *)
THEOREM DeathInsideIsTheEnd ==
  Spec => [][\A p \in Procs : DiedInside(p) =>
               DiedInside(p)' /\ UNCHANGED <<sem, segment, stdout>>]_vars
<1>1. IInv /\ [Next]_vars =>
        [\A p \in Procs : DiedInside(p) =>
           DiedInside(p)' /\ UNCHANGED <<sem, segment, stdout>>]_vars
  BY NothingAfterDeath
<1> QED
  BY <1>1, Invariance, PTL DEF Spec

(* Where WedgesInTheEnd ends, the program stays: a producer has walked off *)
(* the page with SB taken, every living child sleeps in its first semop,   *)
(* and none of them ever wakes up.                                         *)
THEOREM WedgedForGood == Spec => [](Wedged /\ AllBlocked => [](Wedged /\ AllBlocked))
<1>1. IInv /\ (Wedged /\ AllBlocked) /\ [Next]_vars => (Wedged /\ AllBlocked)'
  <2> SUFFICES ASSUME IInv, Wedged, AllBlocked, [Next]_vars PROVE Wedged' /\ AllBlocked'
    OBVIOUS
  <2>1. PICK d \in Producers : pc[d] = "dead in" /\ ptr_prod = CELLS
    BY DEF Wedged
  <2>2. CASE Next
    <3>1. d \in Procs /\ DiedInside(d)
      BY <2>1 DEF Procs, DiedInside
    <3>2. /\ pc'[d] = "dead in" /\ UNCHANGED <<sem, segment, stdout>>
          /\ Stays \/ \E p \in Procs : Waits(p)
      BY <2>2, <3>1, NothingAfterDeath DEF DiedInside
    <3>3. Wedged'
      BY <2>1, <3>2 DEF Wedged, segment
    <3>4. /\ parent' # "forking"
          /\ \A q \in Procs : pc'[q] = pc[q] \/ pc'[q] = "dead"
      <4>1. CASE Stays
        BY <4>1 DEF Stays, ForkFails, Reap, AllBlocked
      <4>2. ASSUME NEW p \in Procs, Waits(p)
            PROVE  /\ parent' # "forking"
                   /\ \A q \in Procs : pc'[q] = pc[q] \/ pc'[q] = "dead"
        <5>1. ~Fork(p)
          BY DEF Fork, AllBlocked
        <5>2. Moves(p, pc[p], "dead") /\ Kill(p)
          BY <4>2, <5>1 DEF Waits
        <5> QED
          BY <5>2 DEF Moves, Kill, AllBlocked
      <4> QED
        BY <3>2, <4>1, <4>2
    <3>5. ASSUME NEW p \in Procs, pc'[p] \notin {"unborn", "dead", "dead in"}
          PROVE  pc'[p] = pc[p]
      BY <3>4, <3>5
    <3>6. ASSUME NEW p \in Living(Producers)' PROVE Blocked(p, start_produce)'
      <4>1. p \in Producers /\ pc'[p] = pc[p] /\ p \in Living(Producers)
        BY <3>5, <3>6 DEF Living, Procs
      <4>2. Blocked(p, start_produce)
        BY <4>1 DEF AllBlocked
      <4> QED
        BY <3>2, <4>1, <4>2 DEF Blocked, start_produce
    <3>7. ASSUME NEW p \in Living(Consumers)' PROVE Blocked(p, start_consume)'
      <4>1. p \in Consumers /\ pc'[p] = pc[p] /\ p \in Living(Consumers)
        BY <3>5, <3>7 DEF Living, Procs
      <4>2. Blocked(p, start_consume)
        BY <4>1 DEF AllBlocked
      <4> QED
        BY <3>2, <4>1, <4>2 DEF Blocked, start_consume
    <3> QED
      BY <3>3, <3>4, <3>6, <3>7 DEF AllBlocked
  <2>3. CASE UNCHANGED vars
    BY <2>3 DEF vars, segment, Wedged, AllBlocked, Living, Blocked
  <2> QED
    BY <2>2, <2>3
<1> QED
  BY <1>1, Invariance, PTL DEF Spec

(* The two histories implement a bounded buffer.  Write is Put, Show is    *)
(* Get, and every other step leaves the buffer alone.                      *)
THEOREM Refinement == Spec => ImplementsBuffer
<1> DEFINE Rest == SubSeq(written, Len(printed) + 1, Len(written))
<1>1. Init => Buffer!Init
  <2> SUFFICES ASSUME Init PROVE Rest = <<>> /\ printed = <<>>
    BY DEF Buffer!Init
  <2>1. written = <<>> /\ printed = <<>> /\ Len(written) = 0 /\ Len(printed) = 0
    BY DEF Init
  <2> QED
    BY <2>1, SubSeqEmpty
<1>2. IInv /\ [Next]_vars => [Buffer!Next]_(Buffer!bbvars)
  <2> SUFFICES ASSUME IInv, [Next]_vars PROVE Buffer!Next \/ UNCHANGED <<Rest, printed>>
    BY DEF Buffer!bbvars
  <2>0. /\ TypeOK /\ ptr_cons = 0 /\ LetterInv /\ sem \in Sems
        /\ written \in Seq(0 .. CHAR - 1) /\ printed \in Seq(0 .. CHAR - 1)
        /\ Len(written) \in Nat /\ Len(printed) \in Nat /\ Len(printed) <= Len(written)
        /\ alfa \in 0 .. CHAR - 1
    BY LengthFacts DEF IInv, PlaceInv, LetterInv
  <2>1. ASSUME UNCHANGED stdout PROVE UNCHANGED <<Rest, printed>>
    BY <2>1 DEF stdout
  <2>2. ASSUME NEW p \in Procs, Moves(p, "write", "advance"), Write(p) PROVE Buffer!Put(alfa)
    <3>1. pc[p] = "write" /\ At(0, 0, 0, 0)
      BY <2>2 DEF IInv, SegmentInv, Moves
    <3>2. Len(Rest) < SIZE_BUF
      <4>1. sem[SE] + sem[SF] = SIZE_BUF - 1
        <5>1. sem[SB] = 0
          BY <3>1, WhereFacts DEF IInv, MutexInv
        <5> QED
          BY <5>1, NumberFacts DEF IInv, MutexInv
      <4>2. sem[SE] \in Int /\ sem[SE] >= 0 /\ sem[SF] \in Int
        BY <2>0, SemFacts, IndexFacts
      <4>3. sem[SF] = Len(written) - Len(printed)
        BY <2>0, <3>1 DEF At
      <4>4. Len(Rest) = Len(written) - Len(printed)
        BY <2>0, RestLength
      <4> HIDE DEF Rest
      <4> QED
        BY <2>0, <4>1, <4>2, <4>3, <4>4, NumberFacts
    <3>3. written' = Append(written, alfa) /\ printed' = printed
      BY <2>2 DEF Write
    <3>4. Len(written') = Len(written) + 1
      BY <2>0, <3>3
    <3>5. SubSeq(written', Len(printed') + 1, Len(written')) = Append(Rest, alfa)
      BY <2>0, <3>3, <3>4, RestOfAppend
    <3> QED
      BY <3>2, <3>3, <3>5 DEF Buffer!Put
  <2>3. ASSUME NEW p \in Procs, Moves(p, "print", "increment"), Show(p) PROVE Buffer!Get
    <3>1. At(1, 0, 0, 0)
      BY <2>3 DEF IInv, SegmentInv, Moves
    <3>2. Len(printed) < Len(written) /\ printed' = Append(printed, written[Len(printed) + 1])
      BY <2>0, <2>3, <3>1, ShowEffect
    <3>3. /\ SubSeq(written, Len(printed) + 2, Len(written)) = Tail(Rest)
          /\ Head(Rest) = written[Len(printed) + 1] /\ Rest # <<>>
      BY <2>0, <3>2, RestOfOneLess
    <3>4. written' = written /\ Len(printed') + 1 = Len(printed) + 2
      <4>1. written' = written
        BY <2>3 DEF Show
      <4>2. Len(printed') = Len(printed) + 1
        <5>1. printed' = Append(printed, cell[ptr_cons])
          BY <2>3 DEF Show
        <5> QED
          BY <5>1, <2>0
      <4> QED
        BY <4>1, <4>2, <2>0
    <3>5. SubSeq(written', Len(printed') + 1, Len(written')) = Tail(Rest)
      BY <3>3, <3>4
    <3>6. printed' = Append(printed, Head(Rest))
      BY <3>2, <3>3
    <3> QED
      BY <3>3, <3>5, <3>6 DEF Buffer!Get
  <2>4. CASE UNCHANGED vars
    BY <2>1, <2>4 DEF vars
  <2>5. CASE Next
    <3>1. CASE Stays
      BY <2>1, <3>1 DEF Stays
    <3>2. ASSUME NEW p \in Procs, Enters(p) \/ Leaves(p) \/ Dies(p) \/ Waits(p) PROVE UNCHANGED stdout
      <4>1. CASE Enters(p) \/ Leaves(p)
        BY <2>0, <4>1, EntersEffect, LeavesEffect
      <4>2. CASE Dies(p) \/ Waits(p)
        BY <4>2 DEF Dies, Waits, Kill, Fork
      <4> QED
        BY <3>2, <4>1, <4>2
    <3>3. ASSUME NEW p \in Procs, Works(p) PROVE Buffer!Next \/ UNCHANGED <<Rest, printed>>
      <4>1. CASE Moves(p, "write", "advance") /\ Write(p)
        BY <2>0, <2>2, <4>1 DEF Buffer!Next
      <4>2. CASE Moves(p, "print", "increment") /\ Show(p)
        BY <2>3, <4>2 DEF Buffer!Next
      <4>3. CASE WriteFaults(p) \/ Advance(p) \/ NextLetter(p) \/ Increment(p)
        <5>1. UNCHANGED stdout
          BY <4>3 DEF WriteFaults, Advance, NextLetter, Increment
        <5> QED
          BY <2>1, <5>1
      <4> QED
        BY <3>3, <4>1, <4>2, <4>3 DEF Works
    <3> HIDE DEF Rest
    <3> QED
      BY <2>0, <2>1, <2>5, <3>1, <3>2, <3>3, StepCases
  <2> QED
    BY <2>4, <2>5
<1> QED
  BY <1>1, <1>2, Invariance, PTL DEF Spec, Buffer!Spec, ImplementsBuffer

=============================================================================
