---------------------------- MODULE BakeryProofs ----------------------------
(***************************************************************************)
(* The theorems about the bakery.  The first half is about BakeryServer,   *)
(* for every number N of slots; the second about BakerySystem, for any     *)
(* clients besides, whatever is lost or repeated but WAIT_QUEUE, and       *)
(* whoever is killed.  Where the server's arrays end the model stops, and  *)
(* the code does not; the last theorem says when they are never used up.   *)
(***************************************************************************)
EXTENDS BakerySystem, FiniteSetTheorems, TLAPS

(***************************************************************************)
(* The server.                                                             *)
(***************************************************************************)

(* The slots are the numbers 0 .. N - 1. *)
LEMMA SlotFacts == \A k : k \in Slots <=> k \in Nat /\ k < N
  BY NAssumption DEF Slots

(* The initial state satisfies the inductive invariant. *)
LEMMA InitInv == Init => IInv
<1> SUFFICES ASSUME Init PROVE IInv
  OBVIOUS
<1> USE NAssumption DEF Init, Slots
<1>1. TypeOK
  BY DEF TypeOK, FirstSymbol
<1>2. ScanInv
  BY DEF ScanInv, Choosing
<1>3. ThreadInv
  BY DEF ThreadInv, Issued, Active, Waiting, Inside
<1>4. PassageInv
  BY DEF PassageInv, Waiting, Inside
<1>5. TicketsIncrease
  BY DEF TicketsIncrease
<1>6. LetterInv
  BY DEF LetterInv, Letters, Issued, LetterMatchesTicket, FirstSymbol
<1> QED
  BY <1>1, <1>2, <1>3, <1>4, <1>5, <1>6 DEF IInv

-----------------------------------------------------------------------------
(* Every step keeps the types: no index leaves the arrays. *)
LEMMA TypeStep == IInv /\ Next => TypeOK'
<1> SUFFICES ASSUME TypeOK, ScanInv, PassageInv, Next PROVE TypeOK'
  BY DEF IInv
<1> USE NAssumption
<1> USE DEF TypeOK, tickets, threads, served, dispatcher, workers
<1>1. CASE GetNumber
  <2>1. dpc' \in {"idle", "join"} \cup Choosing /\ scan' \in 0 .. N /\ max' \in Nat
    BY <1>1 DEF GetNumber, Choosing
  <2>2. num' \in 0 .. N
    BY <1>1 DEF GetNumber
  <2>3. choosing' \in [Slots -> BOOLEAN]
    BY <1>1 DEF GetNumber
  <2> QED
    BY <1>1, <2>1, <2>2, <2>3 DEF GetNumber
<1>2. CASE ScanCompare
  <2>1. scan + 1 \in 0 .. N
    BY <1>2 DEF ScanCompare, ScanInv
  <2>2. dpc' \in {"idle", "join"} \cup Choosing /\ scan' \in 0 .. N
    BY <1>2, <2>1 DEF ScanCompare, Choosing
  <2> QED
    BY <1>2, <2>2 DEF ScanCompare
<1>3. CASE ScanAssign
  <2>1. scan + 1 \in 0 .. N /\ number[scan] \in Nat
    BY <1>3 DEF ScanAssign, ScanInv, Slots
  <2>2. dpc' \in {"idle", "join"} \cup Choosing /\ scan' \in 0 .. N
    BY <1>3, <2>1 DEF ScanAssign, Choosing
  <2> QED
    BY <1>3, <2>1, <2>2 DEF ScanAssign
<1>4. CASE StoreNumber
  <2>1. max + 1 \in Nat
    OBVIOUS
  <2>2. number' \in [Slots -> Nat]
    BY <1>4, <2>1 DEF StoreNumber
  <2> QED
    BY <1>4, <2>2 DEF StoreNumber, Choosing
<1>5. CASE ClearChoosing
  <2>1. choosing' \in [Slots -> BOOLEAN]
    BY <1>5 DEF ClearChoosing
  <2> QED
    BY <1>5, <2>1 DEF ClearChoosing
<1>6. ASSUME NEW id \in 0 .. num - 1, WaitQueue(id) PROVE TypeOK'
  <2>1. id \in Slots /\ idx_thread_create + 1 \in 0 .. N /\ idx_thread_join \in 0 .. idx_thread_create + 1
    BY <1>6 DEF WaitQueue, Slots
  <2>2. "choosing" \in {"none", "done"} \cup Active /\ 0 \in 0 .. N
    BY DEF Active, Waiting
  <2>3. thread_id' \in [Slots -> Slots]
    BY <1>6, <2>1 DEF WaitQueue
  <2>4. wpc' \in [Slots -> {"none", "done"} \cup Active] /\ wscan' \in [Slots -> 0 .. N]
    BY <1>6, <2>2 DEF WaitQueue
  <2> QED
    BY <1>6, <2>1, <2>3, <2>4 DEF WaitQueue
<1>7. CASE BakeryRes
  BY <1>7 DEF BakeryRes
<1>8. CASE Join
  <2>1. idx_thread_join + 1 \in 0 .. idx_thread_create
    BY <1>8 DEF Join, ScanInv
  <2> QED
    BY <1>8, <2>1 DEF Join
<1>9. ASSUME NEW w \in Slots, Bakery(w) PROVE TypeOK'
  <2> DEFINE Places == {"none", "done"} \cup Active
  <2>1. \A p \in Places : Goto(w, p) =>
          wpc' \in [Slots -> Places] /\ wscan' \in [Slots -> 0 .. N]
    BY DEF Goto
  <2>2. wpc[w] \in Waiting /\ NextSlot(w) =>
          wpc' \in [Slots -> Places] /\ wscan' \in [Slots -> 0 .. N]
    <3>1. wpc[w] \in Waiting => wscan[w] + 1 \in 0 .. N
      BY DEF PassageInv
    <3>2. "take" \in Places /\ "choosing" \in Places
      BY DEF Active, Waiting, Inside
    <3> QED
      BY <3>1, <3>2 DEF NextSlot
  <2>3. /\ {"choosing", "positive", "less", "equal", "take", "bump", "release", "done"} \subseteq Places
        /\ Waiting = {"choosing", "positive", "less", "equal"}
    BY DEF Active, Waiting, Inside
  <2> HIDE DEF Places
  <2>4. wpc' \in [Slots -> Places] /\ wscan' \in [Slots -> 0 .. N]
    BY <1>9, <2>1, <2>2, <2>3
    DEF Bakery, AwaitChoosing, TestPositive, TestLess, TestEqual, TakeSymbol, BumpSymbol, Release
  <2>5. CASE TakeSymbol(w)
    BY <2>4, <2>5 DEF TakeSymbol, Places
  <2>6. CASE BumpSymbol(w)
    BY <2>4, <2>6 DEF BumpSymbol, Places
  <2>7. CASE Release(w)
    BY <2>4, <2>7 DEF Release, Places
  <2>8. CASE AwaitChoosing(w) \/ TestPositive(w) \/ TestLess(w) \/ TestEqual(w)
    BY <2>4, <2>8 DEF AwaitChoosing, TestPositive, TestLess, TestEqual, Places
  <2> QED
    BY <1>9, <2>5, <2>6, <2>7, <2>8 DEF Bakery
<1> QED
  BY <1>1, <1>2, <1>3, <1>4, <1>5, <1>6, <1>7, <1>8, <1>9
  DEF Next, Dispatcher, GetNumberStep


-----------------------------------------------------------------------------
(* bakery() changes its own thread's place only, moves it among the places *)
(* of a live thread until it releases its ticket, and changes number       *)
(* there alone (line 73).                                                  *)
LEMMA BakeryStep ==
  ASSUME TypeOK, NEW w \in Slots, Bakery(w)
  PROVE  /\ UNCHANGED <<choosing, num, threads, dispatcher>>
         /\ wpc[w] \in Active
         /\ wpc'[w] \in Active \union {"done"}
         /\ \A v \in Slots : v # w => wpc'[v] = wpc[v] /\ wscan'[v] = wscan[v]
         /\ \/ Release(w) /\ wpc'[w] = "done"
            \/ UNCHANGED number /\ wpc'[w] \in Active
<1> USE DEF TypeOK, tickets, threads, dispatcher, Active, Waiting, Inside, Goto, NextSlot
<1>1. CASE AwaitChoosing(w)
  BY <1>1 DEF AwaitChoosing
<1>2. CASE TestPositive(w)
  BY <1>2 DEF TestPositive
<1>3. CASE TestLess(w)
  BY <1>3 DEF TestLess
<1>4. CASE TestEqual(w)
  BY <1>4 DEF TestEqual
<1>5. CASE TakeSymbol(w)
  BY <1>5 DEF TakeSymbol
<1>6. CASE BumpSymbol(w)
  BY <1>6 DEF BumpSymbol
<1>7. CASE Release(w)
  BY <1>7 DEF Release
<1> QED
  BY <1>1, <1>2, <1>3, <1>4, <1>5, <1>6, <1>7 DEF Bakery

(* number[i] = 0 (line 73) takes the earliest live ticket out. *)
LEMMA ReleaseStep ==
  ASSUME IInv, NEW w \in Slots, Release(w)
  PROVE  /\ thread_id[w] \in Slots
         /\ number'[thread_id[w]] = 0
         /\ \A k \in Slots : k # thread_id[w] => number'[k] = number[k]
         /\ \A k \in Slots : k <= thread_id[w] => number'[k] = 0
<1>1. thread_id[w] \in Slots /\ number \in [Slots -> Nat]
  BY DEF IInv, TypeOK
<1>2. \A k \in Slots : k < thread_id[w] => number[k] = 0
  BY DEF IInv, PassageInv, Release, Inside
<1>3. number' = [number EXCEPT ![thread_id[w]] = 0]
  BY DEF Release
<1> QED
  BY <1>1, <1>2, <1>3, SlotFacts

(* max bounds what get_number has scanned (lines 43-46), although tickets  *)
(* may be released between the two loads of number[j].                     *)
LEMMA ScanStep == IInv /\ Next => ScanInv'
<1> SUFFICES ASSUME IInv, Next PROVE ScanInv'
  OBVIOUS
<1> USE NAssumption, SlotFacts DEF Choosing, tickets, threads, served, dispatcher, workers
<1>0. TypeOK /\ ScanInv
  BY DEF IInv
<1>1. CASE GetNumber
  BY <1>0, <1>1 DEF GetNumber, ScanInv, TypeOK
<1>2. CASE ScanCompare
  <2>1. scan \in Slots /\ max \in Nat /\ \A k \in Slots : number[k] \in Nat
    BY <1>0, <1>2 DEF ScanCompare, ScanInv, TypeOK
  <2>2. UNCHANGED <<num, number, max, idx_thread_join, idx_thread_create>> /\ dpc = "compare"
    BY <1>2 DEF ScanCompare
  <2>3. CASE number[scan] > max /\ dpc' = "assign" /\ UNCHANGED scan
    BY <1>0, <2>1, <2>2, <2>3 DEF ScanInv
  <2>4. CASE number[scan] <= max /\ scan' = scan + 1
    <3>1. \A k \in Slots : k < scan + 1 => number[k] <= max
      BY <1>0, <2>1, <2>2, <2>4 DEF ScanInv
    <3>2. dpc' = IF scan + 1 = N THEN "store" ELSE "compare"
      BY <1>2, <2>1, <2>4 DEF ScanCompare
    <3> QED
      BY <1>0, <2>1, <2>2, <2>4, <3>1, <3>2 DEF ScanInv
  <2> QED
    BY <1>2, <2>3, <2>4 DEF ScanCompare
<1>3. CASE ScanAssign
  <2>1. scan \in Slots /\ max \in Nat /\ \A k \in Slots : number[k] \in Nat
    BY <1>0, <1>3 DEF ScanAssign, ScanInv, TypeOK
  <2>2. \A k \in Slots : k < scan + 1 => number[k] <= number[scan]
    BY <1>0, <1>3, <2>1 DEF ScanAssign, ScanInv
  <2> QED
    BY <1>0, <1>3, <2>1, <2>2 DEF ScanAssign, ScanInv
<1>4. CASE StoreNumber
  BY <1>0, <1>4 DEF StoreNumber, ScanInv, TypeOK
<1>5. CASE ClearChoosing
  BY <1>0, <1>5 DEF ClearChoosing, ScanInv, TypeOK
<1>6. ASSUME NEW id \in 0 .. num - 1, WaitQueue(id) PROVE ScanInv'
  BY <1>0, <1>6 DEF WaitQueue, ScanInv, TypeOK
<1>7. CASE BakeryRes
  BY <1>0, <1>7 DEF BakeryRes, ScanInv, TypeOK
<1>8. CASE Join
  BY <1>0, <1>8 DEF Join, ScanInv, TypeOK
<1>9. ASSUME NEW w \in Slots, Bakery(w) PROVE ScanInv'
  <2>1. UNCHANGED <<num, idx_thread_create, idx_thread_join, dpc, scan, max>>
    BY <1>0, <1>9, BakeryStep
  <2>2. CASE UNCHANGED number
    BY <1>0, <2>1, <2>2 DEF ScanInv
  <2>3. CASE Release(w)
    <3>1. \A k \in Slots : number'[k] <= number[k]
      BY <1>0, <2>3, ReleaseStep DEF TypeOK
    <3>2. \A k \in Slots : number'[k] \in Nat /\ number[k] \in Nat
      BY <1>0, TypeStep DEF TypeOK
    <3>3. dpc = "assign" =>
            number'[scan] > max \/ \A k \in Slots : k <= scan => number'[k] = 0
      BY <1>0, <2>3, <3>1, <3>2, ReleaseStep DEF ScanInv, TypeOK
    <3> QED
      BY <1>0, <2>1, <3>1, <3>2, <3>3 DEF ScanInv, TypeOK
  <2> QED
    BY <1>0, <1>9, <2>2, <2>3, BakeryStep
<1> QED
  BY <1>1, <1>2, <1>3, <1>4, <1>5, <1>6, <1>7, <1>8, <1>9
  DEF Next, Dispatcher, GetNumberStep

(* number[i] = max + 1 (line 47) exceeds every number in the array. *)
LEMMA StoreStep ==
  ASSUME IInv, StoreNumber
  PROVE  /\ num - 1 \in Slots /\ Issued = num - 1 /\ Issued' = num
         /\ number'[num - 1] > 0
         /\ \A k \in Slots : k # num - 1 => number'[k] = number[k]
         /\ \A k \in Slots : number[k] < number'[num - 1]
<1>1. /\ number \in [Slots -> Nat] /\ max \in Nat /\ num \in 0 .. N
      /\ num > 0 /\ \A k \in Slots : number[k] <= max
  BY DEF IInv, TypeOK, ScanInv, StoreNumber, Choosing
<1>2. num - 1 \in Slots
  BY <1>1, SlotFacts, NAssumption
<1>3. number' = [number EXCEPT ![num - 1] = max + 1] /\ UNCHANGED num
  BY DEF StoreNumber, tickets
<1>4. \A k \in Slots : number[k] \in Nat
  BY <1>1
<1>5. number'[num - 1] = max + 1 /\ \A k \in Slots : k # num - 1 => number'[k] = number[k]
  BY <1>1, <1>2, <1>3
<1>6. Issued = num - 1 /\ Issued' = num
  BY <1>3 DEF Issued, StoreNumber
<1> QED
  BY <1>1, <1>2, <1>4, <1>5, <1>6

(* Outside these two lines number does not change. *)
LEMMA NumberStep == IInv /\ Next =>
  \/ UNCHANGED number
  \/ StoreNumber
  \/ \E w \in Slots : Release(w)
<1> SUFFICES ASSUME IInv, Next, ~StoreNumber, ~\E w \in Slots : Release(w)
             PROVE  UNCHANGED number
  OBVIOUS
<1>1. ASSUME NEW w \in Slots, Bakery(w) PROVE UNCHANGED number
  BY <1>1, BakeryStep DEF IInv
<1> QED
  BY <1>1 DEF Next, Dispatcher, GetNumberStep, GetNumber, ScanCompare, ScanAssign,
              ClearChoosing, WaitQueue, BakeryRes, Join, tickets

(* The numbers of live tickets grow with the slot. *)
LEMMA TicketsStep == IInv /\ Next => TicketsIncrease'
<1> SUFFICES ASSUME IInv, Next PROVE TicketsIncrease'
  OBVIOUS
<1>1. \A i \in Slots : i >= Issued => number[i] = 0
  BY DEF IInv, ThreadInv
<1>2. \A k \in Slots : number[k] \in Nat /\ number'[k] \in Nat
  BY TypeStep DEF IInv, TypeOK
<1>3. TicketsIncrease
  BY DEF IInv
<1>4. CASE UNCHANGED number
  BY <1>3, <1>4 DEF TicketsIncrease
<1>5. CASE StoreNumber
  BY <1>1, <1>2, <1>3, <1>5, StoreStep, SlotFacts DEF TicketsIncrease
<1>6. ASSUME NEW w \in Slots, Release(w) PROVE TicketsIncrease'
  BY <1>2, <1>3, <1>6, ReleaseStep, SlotFacts DEF TicketsIncrease
<1> QED
  BY <1>4, <1>5, <1>6, NumberStep

-----------------------------------------------------------------------------
(* wait_queue_1_svc gives every thread a ticket of its own (lines 91-104), *)
(* and the ticket is live until the thread ends.                           *)
LEMMA ThreadStep == IInv /\ Next => ThreadInv'
<1> SUFFICES ASSUME IInv, Next PROVE ThreadInv'
  OBVIOUS
<1>0. TypeOK /\ ThreadInv /\ ScanInv
  BY DEF IInv
<1>1. CASE GetNumber
  <2>1. Issued' = Issued
    BY <1>0, <1>1 DEF GetNumber, Issued, TypeOK
  <2>2. UNCHANGED <<number, thread_id, idx_thread_create, wpc>>
    BY <1>1 DEF GetNumber, threads, workers
  <2> QED
    BY <1>0, <2>1, <2>2 DEF ThreadInv, Queued
<1>2. CASE ScanCompare \/ ScanAssign \/ ClearChoosing
  <2>1. Issued' = Issued
    BY <1>2 DEF ScanCompare, ScanAssign, ClearChoosing, Issued, tickets
  <2>2. UNCHANGED <<number, thread_id, idx_thread_create, wpc>>
    BY <1>2 DEF ScanCompare, ScanAssign, ClearChoosing, tickets, threads, workers
  <2> QED
    BY <1>0, <2>1, <2>2 DEF ThreadInv, Queued
<1>3. CASE StoreNumber
  <2>1. UNCHANGED <<thread_id, idx_thread_create, wpc>>
    BY <1>3 DEF StoreNumber, threads, workers
  <2>2. num \in Int /\ \A k \in Slots : k \in Int /\ thread_id[k] \in Slots
    BY <1>0, SlotFacts DEF TypeOK
  <2> QED
    BY <1>0, <1>3, <2>1, <2>2, StoreStep DEF ThreadInv, Queued, Active, Waiting, Inside
<1>4. CASE BakeryRes \/ Join
  <2>1. UNCHANGED <<number, thread_id, idx_thread_create, wpc, num>>
    BY <1>4 DEF BakeryRes, Join, tickets, threads, workers
  <2>2. Issued' = Issued
    BY <1>4, <2>1 DEF BakeryRes, Join, Issued
  <2> QED
    BY <1>0, <2>1, <2>2 DEF ThreadInv, Queued
<1>5. ASSUME NEW id \in (0 .. num - 1) \ Queued, WaitQueue(id) PROVE ThreadInv'
  <2> DEFINE t == idx_thread_create
  <2>1. /\ t \in Slots /\ id \in Slots /\ id < Issued /\ t' = t + 1 /\ Issued' = Issued
        /\ number' = number
    BY <1>0, <1>5, SlotFacts, NAssumption DEF WaitQueue, TypeOK, Issued, tickets, dispatcher
  <2>2. /\ thread_id'[t] = id /\ wpc'[t] = "choosing"
        /\ \A v \in Slots : v # t => thread_id'[v] = thread_id[v] /\ wpc'[v] = wpc[v]
    BY <1>0, <1>5, <2>1 DEF WaitQueue, TypeOK
  <2>3. \A v \in Slots : v < t <=> wpc[v] # "none"
    BY <1>0, <2>1, SlotFacts DEF ThreadInv
  <2>4. \A v \in Slots : wpc[v] # "none" => thread_id[v] # id /\ v # t
    BY <1>0, <1>5, <2>1, <2>3, SlotFacts DEF Queued, TypeOK
  <2>5. Queued' = Queued \union {id}
    <3>1. t \in Nat /\ t < N
      BY <2>1, SlotFacts
    <3>2. \A v : v \in 0 .. t' - 1 <=> v \in 0 .. t - 1 \/ v = t
      BY <2>1, <3>1
    <3> HIDE DEF t
    <3>3. \A v \in 0 .. t - 1 : v \in Slots /\ v # t
      <4>1. \A v \in 0 .. t - 1 : v \in Nat /\ v < N /\ v # t
        BY <3>1, NAssumption
      <4> QED
        BY <4>1, SlotFacts
    <3>4. \A x : x \in Queued <=> \E v \in 0 .. t - 1 : x = thread_id[v]
      BY DEF Queued, t
    <3>5. \A x : x \in Queued' <=> \E v \in 0 .. t' - 1 : x = thread_id'[v]
      BY DEF Queued, t
    <3>6. \A x : x \in Queued' <=> x \in Queued \/ x = id
      BY <2>2, <3>2, <3>3, <3>4, <3>5
    <3> QED
      BY <3>6
  <2>6. number[id] > 0
    BY <1>0, <1>5, <2>1 DEF ThreadInv
  <2>7. \A w \in Slots : wpc'[w] = "none" <=> w >= t'
    BY <2>1, <2>2, <2>3, SlotFacts
  <2> HIDE DEF t
  <2>8. \A w \in Slots : wpc'[w] # "none" => w = t \/ wpc[w] # "none"
    BY <2>2
  <2>9. \A v, w \in Slots : wpc'[v] # "none" /\ wpc'[w] # "none" /\ v # w
          => thread_id'[v] # thread_id'[w]
    BY <1>0, <2>2, <2>4, <2>8 DEF ThreadInv
  <2>10. \A w \in Slots : wpc'[w] # "none" => thread_id'[w] < Issued'
    BY <1>0, <2>1, <2>2, <2>8 DEF ThreadInv
  <2>11. \A w \in Slots : wpc'[w] \in Active => number'[thread_id'[w]] > 0
    BY <1>0, <2>1, <2>2, <2>6 DEF ThreadInv
  <2>12. \A w \in Slots : wpc'[w] = "done" => number'[thread_id'[w]] = 0
    BY <1>0, <2>1, <2>2 DEF ThreadInv
  <2>13. \A i \in Slots : i >= Issued' => number'[i] = 0
    BY <1>0, <2>1 DEF ThreadInv
  <2>14. \A i \in Slots : i < Issued' /\ i \notin Queued' => number'[i] > 0
    BY <1>0, <2>1, <2>5 DEF ThreadInv
  <2>15. \A w \in Slots : wpc'[w] = "none" <=> w >= idx_thread_create'
    BY <2>7 DEF t
  <2> QED
    BY <2>9, <2>10, <2>11, <2>12, <2>13, <2>14, <2>15 DEF ThreadInv
<1>6. ASSUME NEW w \in Slots, Bakery(w) PROVE ThreadInv'
  <2>1. UNCHANGED <<num, dpc, thread_id, idx_thread_create>>
    BY <1>0, <1>6, BakeryStep DEF threads, dispatcher
  <2>2. Issued' = Issued /\ Queued' = Queued
    BY <2>1 DEF Issued, Queued
  <2>3. /\ wpc[w] \in Active /\ wpc'[w] \in Active \union {"done"}
        /\ \A v \in Slots : v # w => wpc'[v] = wpc[v]
    BY <1>0, <1>6, BakeryStep
  <2>4. "none" \notin Active \union {"done"} /\ "done" \notin Active
    BY DEF Active, Waiting, Inside
  <2>5. CASE UNCHANGED number /\ wpc'[w] \in Active
    BY <1>0, <2>1, <2>2, <2>3, <2>4, <2>5 DEF ThreadInv
  <2>6. CASE Release(w) /\ wpc'[w] = "done"
    <3>1. idx_thread_create \in Nat /\ w \in 0 .. idx_thread_create - 1
      BY <1>0, <2>3, <2>4, SlotFacts DEF ThreadInv, TypeOK
    <3>2. thread_id[w] \in Queued
      BY <3>1 DEF Queued
    <3>3. thread_id[w] < Issued /\ wpc[w] # "none"
      BY <1>0, <2>3, <2>4 DEF ThreadInv
    <3> QED
      BY <1>0, <2>1, <2>2, <2>3, <2>4, <2>6, <3>2, <3>3, ReleaseStep DEF ThreadInv, TypeOK
  <2> QED
    BY <1>0, <1>6, <2>5, <2>6, BakeryStep
<1> QED
  BY <1>1, <1>2, <1>3, <1>4, <1>5, <1>6 DEF Next, Dispatcher, GetNumberStep

-----------------------------------------------------------------------------
(* A number that is zero in an issued slot stays zero. *)
LEMMA ZeroStays ==
  ASSUME IInv, Next, NEW k \in Slots, k < Issued, number[k] = 0
  PROVE  number'[k] = 0
<1>1. CASE UNCHANGED number
  BY <1>1
<1>2. CASE StoreNumber
  BY <1>2, StoreStep, SlotFacts
<1>3. ASSUME NEW w \in Slots, Release(w) PROVE number'[k] = 0
  BY <1>3, ReleaseStep
<1> QED
  BY <1>1, <1>2, <1>3, NumberStep

(* The loop of bakery() (lines 62-66) passes an earlier ticket only when   *)
(* it has left, and never spins on its own or a later one.                 *)
LEMMA PassageStep == IInv /\ Next => PassageInv'
<1> SUFFICES ASSUME IInv, Next, NEW v \in Slots
             PROVE  (/\ wpc[v] \in Waiting =>
                         /\ wscan[v] < N
                         /\ \A k \in Slots : k < wscan[v] /\ k < thread_id[v] => number[k] = 0
                     /\ wpc[v] = "equal" => wscan[v] >= thread_id[v]
                     /\ wpc[v] \in Inside \union {"done"} =>
                         \A k \in Slots : k < thread_id[v] => number[k] = 0)'
  BY DEF PassageInv
<1>0. TypeOK /\ ThreadInv /\ PassageInv /\ TicketsIncrease
  BY DEF IInv
<1>1. /\ thread_id[v] \in Slots /\ thread_id'[v] \in Slots
      /\ wscan[v] \in 0 .. N /\ wscan'[v] \in 0 .. N
      /\ \A k \in Slots : number[k] \in Nat
  BY <1>0, TypeStep DEF TypeOK
<1>2. \A k \in Slots : wpc[v] # "none" /\ k < thread_id[v] /\ number[k] = 0 => number'[k] = 0
  <2>1. wpc[v] # "none" => thread_id[v] < Issued
    BY <1>0 DEF ThreadInv
  <2>2. Issued \in Int
    BY <1>0 DEF TypeOK, Issued
  <2> QED
    BY <1>1, <2>1, <2>2, ZeroStays, SlotFacts
<1>3. CASE wpc'[v] = wpc[v] /\ wscan'[v] = wscan[v] /\ thread_id'[v] = thread_id[v]
  BY <1>0, <1>1, <1>2, <1>3 DEF PassageInv, Waiting, Inside
<1>4. CASE \E id \in (0 .. num - 1) \ Queued : WaitQueue(id)
  <2>1. \/ wpc'[v] = wpc[v] /\ wscan'[v] = wscan[v] /\ thread_id'[v] = thread_id[v]
        \/ wpc'[v] = "choosing" /\ wscan'[v] = 0
    BY <1>0, <1>4 DEF WaitQueue, TypeOK
  <2> QED
    BY <1>3, <2>1, NAssumption, SlotFacts DEF Waiting, Inside
<1>5. ASSUME NEW w \in Slots, Bakery(w), w # v
      PROVE  wpc'[v] = wpc[v] /\ wscan'[v] = wscan[v] /\ thread_id'[v] = thread_id[v]
  BY <1>0, <1>5, BakeryStep DEF threads
<1>6. CASE Bakery(v)
  <2>1. thread_id'[v] = thread_id[v] /\ wpc[v] # "none"
    BY <1>0, <1>6, BakeryStep DEF threads, Active, Waiting, Inside
  <2>2. \A p : Goto(v, p) => wpc'[v] = p /\ wscan'[v] = wscan[v]
    BY <1>0 DEF Goto, TypeOK
  <2>3. NextSlot(v) => /\ wscan'[v] = wscan[v] + 1
                       /\ wpc'[v] = IF wscan[v] + 1 = N THEN "take" ELSE "choosing"
    BY <1>0 DEF NextSlot, TypeOK
  <2>4. wpc[v] \in Waiting => wscan[v] \in Slots
    BY <1>0, <1>1, SlotFacts DEF PassageInv
  <2>5. \A k \in Slots : wpc[v] \in Waiting /\ k < wscan[v] /\ k < thread_id[v] => number'[k] = 0
    BY <1>0, <1>2, <2>1 DEF PassageInv
  <2>6. ASSUME wpc[v] \in Waiting, NextSlot(v),
               wscan[v] < thread_id[v] => number'[wscan[v]] = 0
        PROVE  /\ wpc'[v] = "choosing" => wscan'[v] < N
               /\ wpc'[v] \in {"choosing", "take"}
               /\ wpc'[v] = "take" => wscan'[v] = N
               /\ \A k \in Slots : k < wscan'[v] /\ k < thread_id[v] => number'[k] = 0
    <3>1. wscan[v] \in Nat /\ wscan[v] < N /\ N \in Nat
      BY <2>4, <2>6, SlotFacts, NAssumption
    <3>2. \A k \in Slots : k < wscan[v] + 1 => k < wscan[v] \/ k = wscan[v]
      BY <3>1, SlotFacts
    <3> QED
      BY <2>3, <2>5, <2>6, <3>1, <3>2
  <2>7. CASE AwaitChoosing(v)
    BY <1>0, <1>1, <2>1, <2>2, <2>5, <2>7 DEF AwaitChoosing, Waiting, Inside, PassageInv
  <2>8. CASE TestPositive(v)
    <3>1. CASE Goto(v, "less")
      BY <1>0, <1>1, <2>1, <2>2, <2>5, <2>8, <3>1 DEF TestPositive, Waiting, Inside, PassageInv
    <3>2. CASE number[wscan[v]] = 0 /\ NextSlot(v)
      <4>1. wpc[v] \in Waiting /\ wscan[v] < thread_id[v] => number'[wscan[v]] = 0
        BY <1>2, <2>1, <2>4, <2>8, <3>2 DEF TestPositive, Waiting
      <4>2. wpc[v] \in Waiting
        BY <2>8 DEF TestPositive, Waiting
      <4> QED
        BY <1>1, <2>1, <2>6, <3>2, <4>1, <4>2, SlotFacts DEF Waiting, Inside
    <3> QED
      BY <2>8, <3>1, <3>2 DEF TestPositive
  <2>9. CASE TestLess(v)
    <3>1. wpc[v] \in Waiting /\ wscan[v] \in Slots
      BY <2>4, <2>9 DEF TestLess, Waiting
    <3>2. number[thread_id[v]] > 0
      BY <1>0, <3>1 DEF ThreadInv, Active
    <3>3. CASE number[wscan[v]] < number[thread_id[v]] /\ Goto(v, "positive")
      BY <1>0, <1>1, <2>1, <2>2, <2>5, <3>1, <3>3 DEF Waiting, Inside, PassageInv
    <3>4. CASE ~(number[wscan[v]] < number[thread_id[v]]) /\ Goto(v, "equal")
      <4>1. wscan[v] >= thread_id[v]
        BY <1>0, <1>1, <3>1, <3>2, <3>4, SlotFacts DEF TicketsIncrease
      <4> QED
        BY <1>0, <1>1, <2>1, <2>2, <2>5, <3>1, <3>4, <4>1 DEF Waiting, Inside, PassageInv
    <3> QED
      BY <2>9, <3>3, <3>4 DEF TestLess
  <2>10. CASE TestEqual(v)
    <3>1. wpc[v] \in Waiting /\ wscan[v] >= thread_id[v] /\ wscan[v] \in Slots
      BY <1>0, <2>4, <2>10 DEF TestEqual, Waiting, PassageInv
    <3>2. NextSlot(v)
      BY <1>1, <2>10, <3>1, SlotFacts DEF TestEqual
    <3> QED
      BY <1>1, <2>1, <2>6, <3>1, <3>2, SlotFacts DEF Waiting, Inside
  <2>11. CASE TakeSymbol(v) \/ BumpSymbol(v) \/ Release(v)
    <3>1. wpc[v] \in Inside /\ wpc'[v] \in Inside \union {"done"}
      BY <2>2, <2>11 DEF TakeSymbol, BumpSymbol, Release, Inside
    <3>2. \A k \in Slots : k < thread_id[v] => number'[k] = 0
      BY <1>0, <1>2, <2>1, <3>1 DEF PassageInv
    <3> QED
      BY <2>1, <3>1, <3>2 DEF Waiting, Inside
  <2> QED
    BY <1>6, <2>7, <2>8, <2>9, <2>10, <2>11 DEF Bakery
<1>7. CASE Dispatcher /\ ~\E id \in (0 .. num - 1) \ Queued : WaitQueue(id)
  <2>1. UNCHANGED <<wpc, wscan, thread_id>>
    BY <1>7 DEF Dispatcher, GetNumberStep, GetNumber, ScanCompare, ScanAssign, StoreNumber,
                ClearChoosing, BakeryRes, Join, threads, workers
  <2> QED
    BY <1>3, <2>1
<1> QED
  BY <1>3, <1>4, <1>5, <1>6, <1>7 DEF Next

-----------------------------------------------------------------------------
(* Two threads with live tickets that have passed every earlier ticket     *)
(* would each have the smaller one (lines 67-73).                          *)
LEMMA Exclusion == IInv => MutualExclusion
<1> SUFFICES ASSUME IInv, NEW v \in Slots, NEW w \in Slots, v # w,
                    wpc[v] \in Inside, wpc[w] \in Inside
             PROVE  FALSE
  BY DEF MutualExclusion
<1>1. thread_id[v] \in Slots /\ thread_id[w] \in Slots
  BY DEF IInv, TypeOK
<1>2. thread_id[v] # thread_id[w] /\ number[thread_id[v]] > 0 /\ number[thread_id[w]] > 0
  BY DEF IInv, ThreadInv, Active, Inside
<1>3. \A k \in Slots : (k < thread_id[v] \/ k < thread_id[w]) => number[k] = 0
  BY DEF IInv, PassageInv
<1> QED
  BY <1>1, <1>2, <1>3, SlotFacts

(* The letter a thread finds in symbol (line 67) is that of its ticket. *)
LEMMA SymbolIsNext ==
  ASSUME IInv, NEW w \in Slots, wpc[w] \in {"take", "bump"}
  PROVE  Letters = thread_id[w]
<1>1. /\ thread_id[w] \in Slots /\ Letters \in Int /\ Letters >= 0 /\ Issued \in Int
      /\ thread_id[w] < Issued
  BY DEF IInv, TypeOK, ThreadInv, Issued, Letters, FirstSymbol, LetterInv
<1>2. \A k \in Slots : k < thread_id[w] => k < Letters
  BY <1>1, SlotFacts DEF IInv, PassageInv, LetterInv, Inside
<1>3. thread_id[w] <= Letters
  <2>1. CASE thread_id[w] = 0
    BY <1>1, <2>1
  <2>2. CASE thread_id[w] > 0
    <3>1. thread_id[w] \in Nat /\ thread_id[w] < N /\ N \in Nat
      BY <1>1, SlotFacts, NAssumption
    <3>2. thread_id[w] - 1 \in Nat /\ thread_id[w] - 1 < N /\ thread_id[w] - 1 < thread_id[w]
      BY <2>2, <3>1
    <3>3. thread_id[w] - 1 < Letters
      BY <1>2, <3>2, SlotFacts
    <3> QED
      BY <1>1, <3>1, <3>3
  <2> QED
    BY <1>1, <2>1, <2>2, SlotFacts
<1>4. thread_id[w] >= Letters
  <2>1. number[thread_id[w]] > 0 /\ wpc[w] # "none"
    BY DEF IInv, ThreadInv, Active, Inside
  <2>2. ASSUME NEW v \in Slots, wpc[v] = "release", thread_id[v] = thread_id[w] PROVE FALSE
    BY <2>1, <2>2 DEF IInv, ThreadInv
  <2> QED
    BY <1>1, <2>1, <2>2, SlotFacts DEF IInv, LetterInv
<1> QED
  BY <1>1, <1>3, <1>4, SlotFacts

(* targ->res = symbol, symbol++ and the release (lines 67-73) keep letters *)
(* and tickets in step.                                                    *)
LEMMA LetterStep == IInv /\ Next => LetterInv'
<1> SUFFICES ASSUME IInv, Next PROVE LetterInv'
  OBVIOUS
<1>0. TypeOK /\ ThreadInv /\ LetterInv /\ TypeOK' /\ ThreadInv'
  BY TypeStep, ThreadStep DEF IInv
<1>1. /\ Letters \in Int /\ Issued \in Int /\ Issued' \in Int
      /\ \A k \in Slots : number[k] \in Nat /\ number'[k] \in Nat /\ k \in Nat
  BY <1>0, SlotFacts DEF TypeOK, Issued, Letters, FirstSymbol
<1>2. CASE UNCHANGED <<symbol, thread_res, thread_id, wpc, number>> /\ Issued' = Issued
  BY <1>0, <1>2 DEF LetterInv, Letters, LetterMatchesTicket
<1>3. CASE StoreNumber
  <2>1. UNCHANGED <<symbol, thread_res, thread_id, wpc>>
    BY <1>3 DEF StoreNumber, threads, workers, served
  <2> QED
    BY <1>0, <1>1, <1>3, <2>1, StoreStep DEF LetterInv, Letters, LetterMatchesTicket
<1>4. CASE GetNumber \/ ScanCompare \/ ScanAssign \/ ClearChoosing \/ BakeryRes \/ Join
  <2>1. Issued' = Issued
    <3>1. CASE GetNumber
      BY <1>0, <3>1 DEF GetNumber, Issued, TypeOK
    <3>2. CASE ScanCompare \/ ScanAssign \/ ClearChoosing \/ BakeryRes \/ Join
      BY <3>2 DEF ScanCompare, ScanAssign, ClearChoosing, BakeryRes, Join, Issued, tickets
    <3> QED
      BY <1>4, <3>1, <3>2
  <2>2. UNCHANGED <<symbol, thread_res, thread_id, wpc, number>>
    BY <1>4 DEF GetNumber, ScanCompare, ScanAssign, ClearChoosing, BakeryRes, Join,
                tickets, threads, workers, served
  <2> QED
    BY <1>2, <2>1, <2>2
<1>5. ASSUME NEW id \in (0 .. num - 1) \ Queued, WaitQueue(id) PROVE LetterInv'
  <2> DEFINE t == idx_thread_create
  <2>1. UNCHANGED <<symbol, thread_res, number>> /\ Issued' = Issued
    BY <1>5 DEF WaitQueue, Issued, tickets, served, dispatcher
  <2>2. t \in Slots /\ wpc[t] = "none"
    BY <1>0, <1>5, SlotFacts, NAssumption DEF WaitQueue, TypeOK, ThreadInv
  <2>3. /\ wpc'[t] = "choosing"
        /\ \A v \in Slots : v # t => thread_id'[v] = thread_id[v] /\ wpc'[v] = wpc[v]
    BY <1>0, <1>5, <2>2 DEF WaitQueue, TypeOK
  <2> HIDE DEF t
  <2> QED
    BY <1>0, <2>1, <2>2, <2>3 DEF LetterInv, Letters, LetterMatchesTicket
<1>6. ASSUME NEW w \in Slots, Bakery(w) PROVE LetterInv'
  <2>1. UNCHANGED <<num, dpc, thread_id>> /\ Issued' = Issued
    BY <1>0, <1>6, BakeryStep DEF threads, dispatcher, Issued
  <2>2. wpc[w] \in Active /\ \A v \in Slots : v # w => wpc'[v] = wpc[v]
    BY <1>0, <1>6, BakeryStep
  <2>3. thread_id[w] \in Slots /\ thread_id[w] < Issued /\ number[thread_id[w]] > 0
    BY <1>0, <2>2 DEF TypeOK, ThreadInv, Active, Waiting, Inside
  <2>4. CASE AwaitChoosing(w) \/ TestPositive(w) \/ TestLess(w) \/ TestEqual(w)
    <3>1. wpc[w] \in Waiting /\ wpc'[w] \in Waiting \union {"take"}
      BY <1>0, <2>4 DEF AwaitChoosing, TestPositive, TestLess, TestEqual, Goto, NextSlot,
                        Waiting, TypeOK
    <3>2. UNCHANGED <<symbol, thread_res, number>>
      BY <2>4 DEF AwaitChoosing, TestPositive, TestLess, TestEqual, tickets, served
    <3> QED
      BY <1>0, <2>1, <2>2, <3>1, <3>2 DEF LetterInv, Letters, LetterMatchesTicket, Waiting
  <2>5. CASE TakeSymbol(w)
    <3>1. UNCHANGED <<symbol, number>> /\ wpc[w] = "take" /\ wpc'[w] = "bump"
      BY <1>0, <2>5 DEF TakeSymbol, Goto, TypeOK, tickets
    <3>2. thread_res'[w] = symbol /\ \A v \in Slots : v # w => thread_res'[v] = thread_res[v]
      BY <1>0, <2>5 DEF TakeSymbol, TypeOK
    <3>3. symbol = FirstSymbol + thread_id[w]
      BY <1>0, <3>1, SymbolIsNext, SlotFacts DEF Letters, TypeOK, FirstSymbol
    <3> QED
      BY <1>0, <2>1, <2>2, <3>1, <3>2, <3>3 DEF LetterInv, Letters, LetterMatchesTicket
  <2>6. CASE BumpSymbol(w)
    <3>1. UNCHANGED <<thread_res, number>> /\ wpc[w] = "bump" /\ wpc'[w] = "release"
      BY <1>0, <2>6 DEF BumpSymbol, Goto, TypeOK, tickets
    <3>2. Letters' = Letters + 1
      BY <1>0, <2>6 DEF BumpSymbol, Letters, TypeOK, FirstSymbol
    <3>3. Letters = thread_id[w]
      BY <3>1, SymbolIsNext
    <3>4. \A v \in Slots : wpc[v] # "release"
      BY <3>1, Exclusion DEF MutualExclusion, Inside
    <3>5. Letters' \in 0 .. Issued'
      BY <1>0, <1>1, <2>1, <2>3, <3>2, <3>3, SlotFacts
    <3>6. \A i \in Slots : i < Issued' /\ number'[i] = 0 => i < Letters'
      BY <1>0, <1>1, <2>1, <3>1, <3>2 DEF LetterInv
    <3>7. \A i \in Slots : number'[i] > 0 /\ i < Letters' => i = thread_id[w]
      BY <1>0, <1>1, <3>1, <3>2, <3>3, <3>4 DEF LetterInv
    <3>8. \A v \in Slots : wpc'[v] = "release" => v = w
      BY <2>2, <3>4
    <3>9. LetterMatchesTicket'
      BY <1>0, <2>1, <2>2, <3>1 DEF LetterInv, LetterMatchesTicket
    <3> QED
      BY <2>1, <3>1, <3>2, <3>3, <3>5, <3>6, <3>7, <3>8, <3>9 DEF LetterInv
  <2>7. CASE Release(w)
    <3>1. UNCHANGED <<symbol, thread_res>> /\ wpc[w] = "release" /\ wpc'[w] = "done"
      BY <1>0, <2>7 DEF Release, Goto, TypeOK, served
    <3>2. Letters' = Letters /\ Letters = thread_id[w] + 1
      BY <1>0, <3>1 DEF LetterInv, Letters
    <3> QED
      BY <1>0, <1>1, <2>1, <2>2, <2>3, <2>7, <3>1, <3>2, ReleaseStep
      DEF LetterInv, LetterMatchesTicket
  <2> QED
    BY <1>6, <2>4, <2>5, <2>6, <2>7 DEF Bakery
<1> QED
  BY <1>3, <1>4, <1>5, <1>6 DEF Next, Dispatcher, GetNumberStep

-----------------------------------------------------------------------------
(* Every step of the server, and every step of others, preserves IInv. *)
LEMMA InvStep == IInv /\ [Next]_vars => IInv'
<1>1. IInv /\ Next => IInv'
  BY TypeStep, ScanStep, ThreadStep, PassageStep, TicketsStep, LetterStep DEF IInv
<1>2. IInv /\ UNCHANGED vars => IInv'
  BY DEF IInv, TypeOK, ScanInv, ThreadInv, PassageInv, TicketsIncrease, LetterInv,
         LetterMatchesTicket, Letters, Issued, Queued,
         vars, tickets, threads, served, dispatcher, workers
<1> QED
  BY <1>1, <1>2

(* The conjunction IInv is an invariant of the server. *)
THEOREM Invariance == Spec => []IInv
  BY InitInv, InvStep, PTL DEF Spec

(* No operation of the server takes an index out of its array (lines       *)
(* 24-33), as long as at most N numbers are asked for.                     *)
THEOREM TypeCorrect == Spec => []TypeOK
<1>1. IInv => TypeOK
  BY DEF IInv
<1> QED
  BY <1>1, Invariance, PTL

(* At most one thread is between the loop of bakery() and number[i] = 0    *)
(* (lines 67-73), whatever the number of slots.                            *)
THEOREM MutuallyExclusive == Spec => []MutualExclusion
  BY Invariance, Exclusion, PTL

(* get_number (lines 35-51) numbers live tickets in the order of their     *)
(* slots, although tickets leave while it scans.                           *)
THEOREM NumbersIncrease == Spec => []TicketsIncrease
<1>1. IInv => TicketsIncrease
  BY DEF IInv
<1> QED
  BY <1>1, Invariance, PTL

(* The thread of ticket i returns the letter 'a' + i (line 67). *)
THEOREM LettersMatchTickets == Spec => []LetterMatchesTicket
<1>1. IInv => LetterMatchesTicket
  BY DEF IInv, LetterInv
<1> QED
  BY <1>1, Invariance, PTL

(* bakery_res_1_svc (lines 106-118) only answers with the letter of the    *)
(* thread it has joined.                                                   *)
THEOREM AnswersCorrect == Spec => AnswersAreLetters
<1>1. IInv /\ Join => thread_res[idx_thread_join] = FirstSymbol + thread_id[idx_thread_join]
  <2> SUFFICES ASSUME IInv, Join
               PROVE  thread_res[idx_thread_join] = FirstSymbol + thread_id[idx_thread_join]
    OBVIOUS
  <2>1. idx_thread_join \in Nat /\ idx_thread_join < N
    BY NAssumption DEF IInv, TypeOK, ScanInv, Join
  <2> QED
    BY <2>1, SlotFacts DEF IInv, LetterInv, LetterMatchesTicket, Join
<1>2. IInv /\ [Next]_vars =>
        [Join => thread_res[idx_thread_join] = FirstSymbol + thread_id[idx_thread_join]]_vars
  BY <1>1
<1> QED
  BY <1>2, Invariance, PTL DEF Spec, AnswersAreLetters

-----------------------------------------------------------------------------
(* The server implements NowServing.  First, the steps that stutter.       *)
Now == IF \E w \in Slots : wpc[w] = "release" THEN Letters - 1 ELSE Letters
Serving == \E w \in Slots : wpc[w] \in {"bump", "release"}
Given == {<<thread_id[w], thread_res[w]>> : w \in Served}

(* A dispatcher's step (lines 35-51, 91-118) serves nobody. *)
LEMMA DispatcherMapped ==
  ASSUME IInv, Dispatcher
  PROVE  /\ UNCHANGED <<Now, Serving, Given>>
         /\ Issued' = IF StoreNumber THEN Issued + 1 ELSE Issued
<1>0. TypeOK /\ ThreadInv
  BY DEF IInv
<1>1. CASE \E id \in (0 .. num - 1) \ Queued : WaitQueue(id)
  <2> DEFINE t == idx_thread_create
  <2>1. UNCHANGED <<symbol, thread_res>> /\ Issued' = Issued /\ ~StoreNumber
    BY <1>1 DEF WaitQueue, Issued, tickets, served, dispatcher, StoreNumber
  <2>2. t \in Slots /\ wpc[t] = "none"
    BY <1>0, <1>1, SlotFacts, NAssumption DEF WaitQueue, TypeOK, ThreadInv
  <2>3. /\ wpc'[t] = "choosing"
        /\ \A v \in Slots : v # t => thread_id'[v] = thread_id[v] /\ wpc'[v] = wpc[v]
    BY <1>0, <1>1, <2>2 DEF WaitQueue, TypeOK
  <2> HIDE DEF t
  <2>4. Served' = Served /\ t \notin Served
    BY <2>2, <2>3 DEF Served
  <2>5. Given' = Given
    BY <2>1, <2>3, <2>4 DEF Given, Served
  <2>6. UNCHANGED <<Now, Serving>>
    BY <2>1, <2>2, <2>3 DEF Now, Serving, Letters
  <2> QED
    BY <2>1, <2>5, <2>6
<1>2. CASE GetNumber \/ ScanCompare \/ ScanAssign \/ ClearChoosing \/ BakeryRes \/ Join \/ StoreNumber
  <2>1. UNCHANGED <<symbol, thread_res, thread_id, wpc>>
    BY <1>2 DEF GetNumber, ScanCompare, ScanAssign, ClearChoosing, BakeryRes, Join, StoreNumber,
                threads, workers, served
  <2>2. UNCHANGED <<Now, Serving, Given>>
    BY <2>1 DEF Now, Serving, Given, Served, Letters
  <2>3. CASE GetNumber
    BY <1>0, <2>2, <2>3 DEF GetNumber, Issued, TypeOK, StoreNumber
  <2>4. CASE ScanCompare \/ ScanAssign \/ ClearChoosing \/ BakeryRes \/ Join
    BY <2>2, <2>4 DEF ScanCompare, ScanAssign, ClearChoosing, BakeryRes, Join,
                      Issued, tickets, StoreNumber
  <2>5. CASE StoreNumber
    <3>1. num \in Int
      BY <1>0 DEF TypeOK
    <3> QED
      BY <2>2, <2>5, <3>1, StoreStep
  <2> QED
    BY <1>2, <2>3, <2>4, <2>5
<1> QED
  BY <1>1, <1>2 DEF Dispatcher, GetNumberStep

(* A thread's step (lines 53-75) stutters, except that it begins to serve  *)
(* its ticket at targ->res = symbol and is done with it at number[i] = 0.  *)
LEMMA BakeryMapped ==
  ASSUME IInv, NEW w \in Slots, Bakery(w)
  PROVE  /\ Issued' = Issued
         /\ \/ UNCHANGED <<Now, Serving, Given>>
            \/ /\ ~Serving /\ Now < Issued /\ Serving'
               /\ Given' = Given \union {<<Now, FirstSymbol + Now>>}
               /\ UNCHANGED Now
            \/ Serving /\ ~Serving' /\ Now' = Now + 1 /\ UNCHANGED Given
<1>0. TypeOK /\ ThreadInv /\ LetterInv
  BY DEF IInv
<1>1. UNCHANGED <<num, dpc, thread_id>> /\ Issued' = Issued
  BY <1>0, BakeryStep DEF threads, dispatcher, Issued
<1>2. wpc[w] \in Active /\ \A v \in Slots : v # w => wpc'[v] = wpc[v]
  BY <1>0, BakeryStep
<1>3. /\ thread_id[w] \in Nat /\ thread_id[w] < Issued /\ symbol \in Nat /\ Letters \in Int
      /\ symbol = FirstSymbol + Letters
  BY <1>0, <1>2, SlotFacts DEF TypeOK, ThreadInv, Active, Waiting, Inside, Letters, FirstSymbol
<1>4. CASE AwaitChoosing(w) \/ TestPositive(w) \/ TestLess(w) \/ TestEqual(w)
  <2>1. wpc[w] \in Waiting /\ wpc'[w] \in Waiting \union {"take"}
    BY <1>0, <1>4 DEF AwaitChoosing, TestPositive, TestLess, TestEqual, Goto, NextSlot,
                      Waiting, TypeOK
  <2>2. UNCHANGED <<symbol, thread_res>>
    BY <1>4 DEF AwaitChoosing, TestPositive, TestLess, TestEqual, served
  <2>3. Served' = Served
    BY <1>2, <2>1 DEF Served, Waiting
  <2>4. UNCHANGED <<Now, Serving>>
    BY <1>2, <2>1, <2>2 DEF Now, Serving, Letters, Waiting
  <2> QED
    BY <1>1, <2>2, <2>3, <2>4 DEF Given
<1>5. CASE TakeSymbol(w)
  <2>1. wpc[w] = "take" /\ wpc'[w] = "bump" /\ UNCHANGED symbol
    BY <1>0, <1>5 DEF TakeSymbol, Goto, TypeOK
  <2>2. thread_res'[w] = symbol /\ \A v \in Slots : v # w => thread_res'[v] = thread_res[v]
    BY <1>0, <1>5 DEF TakeSymbol, TypeOK
  <2>3. \A v \in Slots : wpc[v] \notin {"bump", "release"}
    BY <2>1, Exclusion DEF MutualExclusion, Inside
  <2>4. Now = Letters /\ ~Serving /\ Serving' /\ Now' = Now /\ Now = thread_id[w]
    BY <1>2, <2>1, <2>3, SymbolIsNext DEF Now, Serving, Letters
  <2>5. w \notin Served /\ Served' = Served \union {w}
    BY <1>2, <2>1 DEF Served
  <2>6. Given' = Given \union {<<thread_id[w], symbol>>}
    <3>1. Given' = {<<thread_id[v], thread_res'[v]>> : v \in Served \union {w}}
      BY <1>1, <2>5 DEF Given
    <3>2. \A v \in Served : v # w /\ v \in Slots
      BY <2>5 DEF Served
    <3> QED
      BY <2>2, <3>1, <3>2 DEF Given
  <2> QED
    BY <1>1, <1>3, <2>4, <2>6
<1>6. CASE BumpSymbol(w)
  <2>1. wpc[w] = "bump" /\ wpc'[w] = "release" /\ UNCHANGED thread_res
    BY <1>0, <1>6 DEF BumpSymbol, Goto, TypeOK
  <2>2. Letters' = Letters + 1
    BY <1>0, <1>6 DEF BumpSymbol, Letters, TypeOK, FirstSymbol
  <2>3. \A v \in Slots : wpc[v] # "release"
    BY <2>1, Exclusion DEF MutualExclusion, Inside
  <2>4. Now = Letters /\ Now' = Letters' - 1 /\ Serving /\ Serving'
    BY <2>1, <2>3 DEF Now, Serving
  <2>5. Served' = Served
    BY <1>2, <2>1 DEF Served
  <2> QED
    BY <1>1, <1>3, <2>1, <2>2, <2>4, <2>5 DEF Given
<1>7. CASE Release(w)
  <2>1. wpc[w] = "release" /\ wpc'[w] = "done" /\ UNCHANGED <<symbol, thread_res>>
    BY <1>0, <1>7 DEF Release, Goto, TypeOK, served
  <2>2. \A v \in Slots : v # w => wpc[v] \notin {"bump", "release"}
    BY <2>1, Exclusion DEF MutualExclusion, Inside
  <2>3. Letters' = Letters
    BY <2>1 DEF Letters
  <2>4. Now = Letters - 1 /\ Now' = Letters /\ Serving /\ ~Serving'
    BY <1>2, <2>1, <2>2, <2>3 DEF Now, Serving
  <2>5. Now' = Now + 1
    BY <1>3, <2>4
  <2>6. Served' = Served
    BY <1>2, <2>1 DEF Served
  <2>7. Given' = Given
    BY <1>1, <2>1, <2>6 DEF Given
  <2> QED
    BY <1>1, <2>4, <2>5, <2>7
<1> QED
  BY <1>4, <1>5, <1>6, <1>7 DEF Bakery

(* The server serves its customers one at a time, in the order of their    *)
(* tickets and without passing one over (lines 24-118).                    *)
THEOREM Refinement == Spec => ServesInOrder
<1> USE DEF TicketService!abstract
<1>1. Init => TicketService!Init
  <2> SUFFICES ASSUME Init PROVE TicketService!Init
    OBVIOUS
  <2>1. Served = {} /\ Issued = 0 /\ Letters = 0 /\ \A w \in Slots : wpc[w] = "none"
    BY DEF Init, Served, Issued, Letters, FirstSymbol
  <2> QED
    BY <2>1 DEF TicketService!Init
<1>2. IInv /\ [Next]_vars => [TicketService!Next]_TicketService!abstract
  <2> SUFFICES ASSUME IInv, [Next]_vars PROVE [TicketService!Next]_TicketService!abstract
    OBVIOUS
  <2> USE DEF Now, Serving, Given
  <2>1. CASE Dispatcher
    <3>1. UNCHANGED <<Now, Serving, Given>> /\ (Issued' = Issued + 1 \/ Issued' = Issued)
      BY <2>1, DispatcherMapped
    <3> QED
      BY <3>1 DEF TicketService!Next, TicketService!Issue
  <2>2. ASSUME NEW w \in Slots, Bakery(w)
        PROVE  [TicketService!Next]_TicketService!abstract
    BY <2>2, BakeryMapped DEF TicketService!Next, TicketService!Serve, TicketService!Leave
  <2>3. CASE UNCHANGED vars
    BY <2>3 DEF vars, tickets, threads, served, dispatcher, workers, Issued, Letters, Served
  <2> QED
    BY <2>1, <2>2, <2>3 DEF Next
<1> QED
  BY <1>1, <1>2, Invariance, PTL DEF Spec, ServesInOrder, TicketService!Spec

(***************************************************************************)
(* The server with its clients.                                            *)
(***************************************************************************)

(* The tickets GET_NUMBER has answered; num - 1 is still being numbered.   *)
Answered == IF dpc \in Choosing THEN num - 1 ELSE num

(* A client has one WAIT_QUEUE on its way while it waits for the answer,   *)
(* and at most one after it has given up.                                  *)
ProtocolInv ==
  \A c \in Clients :
    /\ net[c]["wait"] \in {0, 1}
    /\ cpc[c] = "wait" => net[c]["wait"] = 1
    /\ cpc[c] \in {"start", "get", "got"} => net[c]["wait"] = 0

(* The ticket of c may still be queued: c is about to ask for it, or has.  *)
Owns(c) == cpc[c] = "got" \/ net[c]["wait"] = 1

(* Every client that may still queue has a ticket of its own, which was    *)
(* answered and is not queued.                                             *)
TicketInv ==
  /\ \A c \in Clients : Owns(c) => ticket[c] < Answered /\ ticket[c] \notin Queued
  /\ \A c, d \in Clients : c # d /\ Owns(c) /\ Owns(d) => ticket[c] # ticket[d]
  /\ \A i \in Queued : i < Answered

(* Every letter a client has was that of a thread joined before.           *)
GivenInv ==
  \A c \in Clients : letter[c] # 0 =>
    \E w \in Slots : w < idx_thread_join /\ letter[c] = FirstSymbol + thread_id[w]

SysIInv ==
  /\ SysTypeOK
  /\ IInv
  /\ ProtocolInv
  /\ TicketInv
  /\ GivenInv
  /\ NoLetterTwice

-----------------------------------------------------------------------------
(* Without failures a client is queued by one thread and given a letter by *)
(* one pthread_join.                                                       *)
Queuers == {c \in Clients : cpc[c] \in {"queued", "res", "finished"}}
Finishers == {c \in Clients : cpc[c] = "finished"}

CountInv ==
  /\ IsFiniteSet(Queuers) /\ Cardinality(Queuers) = idx_thread_create
  /\ IsFiniteSet(Finishers) /\ Cardinality(Finishers) = idx_thread_join

(* The only requests on their way are those that are waited for, and the   *)
(* dispatcher joins for a client whose only BAKERY_RES it has taken.       *)
ReliableInv ==
  /\ \A c \in Clients :
       /\ cpc[c] # "dead"
       /\ net[c]["wait"] = 1 => cpc[c] = "wait"
       /\ net[c]["res"] \in {0, 1}
       /\ net[c]["res"] = 1 => cpc[c] = "res"
  /\ dpc = "join" => cpc[caller] = "res" /\ net[caller]["res"] = 0
  /\ CountInv
  /\ up

-----------------------------------------------------------------------------
(* One datagram of call k of client c more, or one less.                   *)
Counts(c, k, d) ==
  /\ net' \in [Clients -> [Calls -> Nat]]
  /\ net'[c][k] = net[c][k] + d
  /\ \A j \in Calls \ {k} : net'[c][j] = net[c][j]
  /\ \A e \in Clients \ {c} : net'[e] = net[e]

LEMMA Sends ==
  ASSUME SysTypeOK, NEW c \in Clients, NEW k \in Calls, net' = [net EXCEPT ![c][k] = @ + 1]
  PROVE  Counts(c, k, 1)
<1>1. net \in [Clients -> [Calls -> Nat]]
  BY DEF SysTypeOK
<1>2. [net[c] EXCEPT ![k] = @ + 1] \in [Calls -> Nat]
  BY <1>1
<1>3. net' = [net EXCEPT ![c] = [net[c] EXCEPT ![k] = @ + 1]]
  BY <1>1
<1>4. net'[c] = [net[c] EXCEPT ![k] = @ + 1] /\ \A e \in Clients \ {c} : net'[e] = net[e]
  BY <1>1, <1>3
<1> QED
  BY <1>1, <1>2, <1>3, <1>4 DEF Counts

LEMMA Takes ==
  ASSUME SysTypeOK, NEW c \in Clients, NEW k \in Calls, net[c][k] > 0, net' = [net EXCEPT ![c][k] = @ - 1]
  PROVE  Counts(c, k, -1)
<1>1. net \in [Clients -> [Calls -> Nat]]
  BY DEF SysTypeOK
<1>2. net[c][k] - 1 \in Nat
  BY <1>1
<1>3. [net[c] EXCEPT ![k] = @ - 1] \in [Calls -> Nat]
  BY <1>1, <1>2
<1>4. net' = [net EXCEPT ![c] = [net[c] EXCEPT ![k] = @ - 1]]
  BY <1>1
<1>5. net'[c] = [net[c] EXCEPT ![k] = @ - 1] /\ \A e \in Clients \ {c} : net'[e] = net[e]
  BY <1>1, <1>4
<1>6. net'[c][k] = net[c][k] + (-1)
  BY <1>1, <1>5
<1> QED
  BY <1>1, <1>3, <1>4, <1>5, <1>6 DEF Counts

LEMMA CallFacts ==
  /\ "get" \in Calls /\ "wait" \in Calls /\ "res" \in Calls
  /\ After["get"] = "got" /\ After["wait"] = "queued" /\ After["res"] = "finished"
  /\ DOMAIN NextCall = {"start", "got", "queued"}
  /\ NextCall["start"] = "get" /\ NextCall["got"] = "wait" /\ NextCall["queued"] = "res"
  BY DEF Calls, After, NextCall

(* The place of client c, and of no other, becomes to.                     *)
Goes(c, to) ==
  /\ cpc'[c] = to
  /\ \A e \in Clients \ {c} : cpc'[e] = cpc[e]

(* What an answer does, if it reaches its client.                          *)
LEMMA AnswerEffect ==
  ASSUME SysTypeOK, NEW c \in Clients, NEW call \in Calls, NEW got, NEW given, Answer(c, call, got, given)
  PROVE  \/ /\ cpc[c] = call /\ Goes(c, After[call])
            /\ \A e \in Clients \ {c} : ticket'[e] = ticket[e] /\ letter'[e] = letter[e]
            /\ ticket'[c] = IF call = "get" THEN got ELSE ticket[c]
            /\ letter'[c] = IF call = "res" THEN given ELSE letter[c]
            /\ ticket' = [ticket EXCEPT ![c] = IF call = "get" THEN got ELSE @]
            /\ letter' = [letter EXCEPT ![c] = IF call = "res" THEN given ELSE @]
            /\ cpc' = [cpc EXCEPT ![c] = After[call]]
            /\ UNCHANGED <<sends, failures>>
         \/ (cpc[c] # call \/ call \in Retried) /\ UNCHANGED <<cpc, ticket, letter, sends, failures>>
<1>1. DOMAIN cpc = Clients /\ DOMAIN ticket = Clients /\ DOMAIN letter = Clients
  BY DEF SysTypeOK
<1> QED
  BY <1>1 DEF Answer, Goes, clients

-----------------------------------------------------------------------------
(* Every step is one of these.                                             *)
LEMMA SysCases ==
  ASSUME SysNext
  PROVE  \/ \E c \in Clients : Call(c) \/ Retransmit(c) \/ TimeOut(c) \/ Kill(c)
         \/ \E c \in Clients, call \in Calls : Lose(c, call)
         \/ \E c \in Clients : DispatchGet(c)
         \/ \E c \in Clients : DispatchWait(c)
         \/ \E c \in Clients : DispatchRes(c)
         \/ \E c \in Clients : DispatchSurplusRes(c)
         \/ Execute \/ AnswerGet \/ AnswerRes
         \/ \E w \in Slots : Work(w)
  BY DEF SysNext, Dispatch

LEMMA AnsweredFacts ==
  ASSUME IInv
  PROVE  Answered \in Int /\ Answered >= 0 /\ Answered <= num /\ num \in Nat /\ num <= N
<1>1. num \in Nat /\ num <= N /\ (dpc \in Choosing => num > 0)
  BY NAssumption DEF IInv, TypeOK, ScanInv
<1> QED
  BY <1>1 DEF Answered

LEMMA JoinSlot == IInv /\ Join => idx_thread_join \in Slots /\ idx_thread_join < idx_thread_create
<1> SUFFICES ASSUME IInv, Join PROVE idx_thread_join \in Slots /\ idx_thread_join < idx_thread_create
  OBVIOUS
<1>1. idx_thread_join \in Nat /\ idx_thread_join < N /\ idx_thread_join < idx_thread_create
  BY NAssumption DEF IInv, TypeOK, ScanInv, Join
<1> QED
  BY <1>1, SlotFacts

(* DispatchWait queues the ticket of a client that owns it.                *)
LEMMA WaitIsProper ==
  ASSUME SysIInv, NEW c \in Clients, DispatchWait(c)
  PROVE  /\ ticket[c] \in (0 .. num - 1) \ Queued /\ WaitQueue(ticket[c])
         /\ net[c]["wait"] = 1 /\ Owns(c) /\ cpc[c] \notin {"start", "get", "got"}
<1>1. WaitQueue(ticket[c]) /\ net[c]["wait"] > 0
  BY DEF DispatchWait, Take
<1>2. net[c]["wait"] = 1 /\ Owns(c) /\ cpc[c] \notin {"start", "get", "got"}
  BY <1>1 DEF SysIInv, ProtocolInv, Owns
<1>3. ticket[c] \in Slots /\ ticket[c] < Answered /\ ticket[c] \notin Queued
  BY <1>2 DEF SysIInv, TicketInv, SysTypeOK
<1>4. ticket[c] \in 0 .. num - 1
  BY <1>3, AnsweredFacts, SlotFacts DEF SysIInv
<1> QED
  BY <1>1, <1>2, <1>3, <1>4

(* What the system does is a step of the server or leaves it alone.        *)
LEMMA ServerStep ==
  ASSUME SysIInv, SysNext
  PROVE  [Next]_vars
<1>1. ASSUME NEW c \in Clients, DispatchWait(c) PROVE Next
  BY <1>1, WaitIsProper DEF Next, Dispatcher
<1>2. ASSUME NEW c \in Clients, DispatchGet(c) \/ DispatchRes(c) PROVE Next
  BY <1>2 DEF DispatchGet, DispatchRes, Next, Dispatcher
<1>3. CASE Execute \/ AnswerGet \/ AnswerRes
  BY <1>3 DEF Execute, AnswerGet, AnswerRes, Next, Dispatcher, GetNumberStep
<1>4. ASSUME NEW w \in Slots, Work(w) PROVE Next
  BY <1>4 DEF Work, Next
<1>5. ASSUME NEW c \in Clients, Call(c) \/ Retransmit(c) \/ TimeOut(c) \/ Kill(c) \/ DispatchSurplusRes(c)
      PROVE  UNCHANGED vars
  BY <1>5 DEF Call, Retransmit, TimeOut, Kill, DispatchSurplusRes
<1>6. ASSUME NEW c \in Clients, NEW call \in Calls, Lose(c, call) PROVE UNCHANGED vars
  BY <1>6 DEF Lose
<1> QED
  BY <1>1, <1>2, <1>3, <1>4, <1>5, <1>6, SysCases

-----------------------------------------------------------------------------
(* The initial states satisfy the inductive invariant.                     *)
LEMMA SysInitInv == SysInit => SysIInv
<1> SUFFICES ASSUME SysInit PROVE SysIInv
  OBVIOUS
<1>1. IInv /\ TypeOK
  BY InitInv DEF SysInit, IInv
<1>2. SysTypeOK
  <2>1. caller \in Clients
    BY SystemAssumption DEF SysInit
  <2>2. 0 \in Slots /\ 0 \in 0 .. MaxSends /\ 0 \in 0 .. MaxFailures
    BY NAssumption, SystemAssumption DEF Slots
  <2> QED
    BY <1>1, <2>1, <2>2 DEF SysInit, SysTypeOK
<1>3. ProtocolInv
  BY DEF SysInit, ProtocolInv, Calls
<1>4. TicketInv
  <2>1. \A c \in Clients : ~Owns(c)
    BY DEF SysInit, Owns, Calls
  <2>2. Queued = {}
    BY DEF SysInit, Init, Queued
  <2> QED
    BY <2>1, <2>2 DEF TicketInv
<1>5. GivenInv /\ NoLetterTwice
  BY DEF SysInit, GivenInv, NoLetterTwice
<1> QED
  BY <1>1, <1>2, <1>3, <1>4, <1>5 DEF SysIInv

(* Every step keeps the types.                                             *)
LEMMA SysTypeStep ==
  ASSUME SysIInv, SysNext PROVE SysTypeOK'
<1>1. TypeOK' /\ IInv /\ SysTypeOK
  BY ServerStep, InvStep DEF SysIInv, IInv
<1> USE DEF SysTypeOK
<1>2. ASSUME UNCHANGED <<cpc, ticket, letter, sends, failures>>,
             net' \in [Clients -> [Calls -> Nat]], caller' \in Clients, up' \in BOOLEAN
      PROVE  SysTypeOK'
  BY <1>1, <1>2
<1>3. ASSUME NEW c \in Clients, Call(c) PROVE SysTypeOK'
  <2>1. NextCall[cpc[c]] \in Calls
    BY <1>3, CallFacts DEF Call
  <2>2. net' \in [Clients -> [Calls -> Nat]]
    BY <1>1, <1>3, <2>1, Sends DEF Call, Counts
  <2>3. cpc' = [cpc EXCEPT ![c] = NextCall[cpc[c]]]
    BY <1>3 DEF Call
  <2>4. cpc' \in [Clients -> {"start", "got", "queued", "finished", "dead"} \union Calls]
    BY <1>1, <2>1, <2>3
  <2>5. sends' \in [Clients -> 0 .. MaxSends]
    <3>1. 1 \in 0 .. MaxSends
      BY SystemAssumption
    <3> QED
      BY <1>1, <1>3, <3>1 DEF Call
  <2> QED
    BY <1>1, <1>3, <2>2, <2>4, <2>5 DEF Call
<1>4. ASSUME NEW c \in Clients, Retransmit(c) PROVE SysTypeOK'
  <2>1. cpc[c] \in Calls /\ sends[c] < MaxSends
    BY <1>4, SystemAssumption DEF Retransmit
  <2>2. net' \in [Clients -> [Calls -> Nat]]
    BY <1>1, <1>4, <2>1, Sends DEF Retransmit, Counts
  <2>3. sends[c] + 1 \in 0 .. MaxSends
    BY <1>1, <2>1, SystemAssumption
  <2>4. sends' = [sends EXCEPT ![c] = sends[c] + 1]
    BY <1>4 DEF Retransmit
  <2>5. sends' \in [Clients -> 0 .. MaxSends]
    BY <1>1, <2>3, <2>4
  <2> QED
    BY <1>1, <1>4, <2>2, <2>5 DEF Retransmit
<1>5. ASSUME NEW c \in Clients, TimeOut(c) \/ Kill(c) PROVE SysTypeOK'
  <2>1. failures < MaxFailures /\ failures' = failures + 1
    BY <1>5 DEF TimeOut, Kill
  <2>2. failures' \in 0 .. MaxFailures
    BY <1>1, <2>1, SystemAssumption
  <2>3. cpc' = [cpc EXCEPT ![c] = "queued"] \/ cpc' = [cpc EXCEPT ![c] = "dead"]
    BY <1>5 DEF TimeOut, Kill
  <2>4. cpc' \in [Clients -> {"start", "got", "queued", "finished", "dead"} \union Calls]
    BY <1>1, <2>3
  <2> QED
    BY <1>1, <1>5, <2>2, <2>4 DEF TimeOut, Kill
<1>6. ASSUME NEW c \in Clients, NEW call \in Calls, Lose(c, call) PROVE SysTypeOK'
  <2>1. net' \in [Clients -> [Calls -> Nat]]
    BY <1>1, <1>6, Takes DEF Lose, Counts
  <2> QED
    BY <1>1, <1>2, <1>6, <2>1 DEF Lose, clients
<1>7. ASSUME NEW c \in Clients, NEW call \in Calls, Take(c, call) PROVE net' \in [Clients -> [Calls -> Nat]]
  BY <1>1, <1>7, Takes DEF Take, Counts
<1>8. ASSUME NEW c \in Clients, DispatchGet(c) \/ DispatchRes(c) PROVE SysTypeOK'
  <2>1. net' \in [Clients -> [Calls -> Nat]]
    BY <1>7, <1>8, CallFacts DEF DispatchGet, DispatchRes
  <2> QED
    BY <1>1, <1>2, <1>8, <2>1 DEF DispatchGet, DispatchRes, clients
<1>9. ASSUME NEW c \in Clients, DispatchSurplusRes(c) PROVE SysTypeOK'
  <2>1. net' \in [Clients -> [Calls -> Nat]]
    BY <1>7, <1>9, CallFacts DEF DispatchSurplusRes
  <2> QED
    BY <1>1, <1>2, <1>9, <2>1 DEF DispatchSurplusRes, clients
<1>10. ASSUME NEW c \in Clients, NEW call \in Calls, NEW got, NEW given, Answer(c, call, got, given),
              call = "get" => got \in Slots, call = "res" => given \in Nat,
              net' \in [Clients -> [Calls -> Nat]], UNCHANGED <<caller, up>>
       PROVE  SysTypeOK'
  <2>1. CASE /\ ticket' = [ticket EXCEPT ![c] = IF call = "get" THEN got ELSE @]
             /\ letter' = [letter EXCEPT ![c] = IF call = "res" THEN given ELSE @]
             /\ cpc' = [cpc EXCEPT ![c] = After[call]]
             /\ UNCHANGED <<sends, failures>>
    <3>1. After[call] \in {"got", "queued", "finished"}
      BY CallFacts DEF Calls
    <3>2. cpc' \in [Clients -> {"start", "got", "queued", "finished", "dead"} \union Calls]
      BY <1>1, <2>1, <3>1
    <3>3. ticket' \in [Clients -> Slots]
      BY <1>1, <1>10, <2>1
    <3>4. letter' \in [Clients -> Nat]
      BY <1>1, <1>10, <2>1
    <3> QED
      BY <1>1, <1>10, <2>1, <3>2, <3>3, <3>4
  <2>2. CASE UNCHANGED <<cpc, ticket, letter, sends, failures>>
    BY <1>1, <1>2, <1>10, <2>2
  <2> QED
    BY <1>1, <1>10, <2>1, <2>2, AnswerEffect
<1>11. ASSUME NEW c \in Clients, DispatchWait(c) PROVE SysTypeOK'
  <2>1. net' \in [Clients -> [Calls -> Nat]]
    BY <1>7, <1>11, CallFacts DEF DispatchWait
  <2> QED
    BY <1>10, <1>11, <2>1, CallFacts DEF DispatchWait
<1>12. CASE AnswerGet
  <2>1. num - 1 \in Slots
    <3>1. num \in Nat /\ num <= N /\ num > 0
      BY <1>1, <1>12, AnsweredFacts DEF AnswerGet, ClearChoosing, IInv, ScanInv, Choosing
    <3> QED
      BY <3>1, SlotFacts, NAssumption
  <2> QED
    BY <1>1, <1>10, <1>12, <2>1, CallFacts DEF AnswerGet
<1>13. CASE AnswerRes
  <2>1. thread_res[idx_thread_join] \in Nat
    <3>1. idx_thread_join \in Slots /\ TypeOK
      BY <1>1, <1>13, JoinSlot DEF AnswerRes, IInv
    <3> QED
      BY <3>1 DEF TypeOK
  <2> QED
    BY <1>1, <1>10, <1>13, <2>1, CallFacts DEF AnswerRes
<1>14. CASE Execute
  BY <1>1, <1>2, <1>14 DEF Execute, clients
<1>15. ASSUME NEW w \in Slots, Work(w) PROVE SysTypeOK'
  BY <1>1, <1>2, <1>15 DEF Work, clients
<1> QED
  BY <1>3, <1>4, <1>5, <1>6, <1>8, <1>9, <1>11, <1>12, <1>13, <1>14, <1>15, SysCases

-----------------------------------------------------------------------------
(* What a step may do to the place of client c and to its WAIT_QUEUE, if   *)
(* none is repeated.                                                       *)
Waits(c) == net[c]["wait"]
Fails(c) == TimeOut(c) \/ Kill(c)

Moves(c) ==
  \/ cpc'[c] = cpc[c] /\ Waits(c)' = Waits(c)
  \/ Call(c) /\ cpc[c] = "start" /\ cpc'[c] = "get" /\ Waits(c)' = Waits(c)
  \/ AnswerGet /\ c = caller /\ cpc[c] = "get" /\ cpc'[c] = "got" /\ Waits(c)' = Waits(c)
  \/ Call(c) /\ cpc[c] = "got" /\ cpc'[c] = "wait" /\ Waits(c)' = Waits(c) + 1
  \/ DispatchWait(c) /\ cpc[c] = "wait" /\ cpc'[c] = "queued" /\ Waits(c)' = Waits(c) - 1
  \/ DispatchWait(c) /\ cpc[c] # "wait" /\ cpc'[c] = cpc[c] /\ Waits(c)' = Waits(c) - 1
  \/ Call(c) /\ cpc[c] = "queued" /\ cpc'[c] = "res" /\ Waits(c)' = Waits(c)
  \/ AnswerRes /\ c = caller /\ cpc[c] = "res" /\ cpc'[c] = "finished" /\ Waits(c)' = Waits(c)
  \/ Fails(c) /\ cpc[c] = "wait" /\ cpc'[c] = "queued" /\ Waits(c)' = Waits(c)
  \/ Fails(c) /\ cpc'[c] = "dead" /\ Waits(c)' = Waits(c)

LEMMA ClientMoves ==
  ASSUME SysIInv, SysNext, "wait" \notin Retried, NEW c \in Clients
  PROVE  Moves(c)
<1>1. SysTypeOK /\ IInv /\ cpc \in [Clients -> {"start", "got", "queued", "finished", "dead"} \union Calls]
  BY DEF SysIInv, SysTypeOK
<1>2. ASSUME NEW d \in Clients, NEW k \in Calls, NEW n, Counts(d, k, n), d # c \/ k # "wait"
      PROVE  Waits(c)' = Waits(c)
  BY <1>2, CallFacts DEF Counts, Waits
<1>3. ASSUME NEW d \in Clients, Call(d) PROVE Moves(c)
  <2> DEFINE k == NextCall[cpc[d]]
  <2>1. k \in Calls /\ (k = "wait" => cpc[d] = "got") /\ cpc[d] \in {"start", "got", "queued"}
    BY <1>3, CallFacts DEF Call
  <2>2. Counts(d, k, 1) /\ cpc' = [cpc EXCEPT ![d] = k]
    BY <1>1, <1>3, <2>1, Sends DEF Call
  <2>3. CASE d # c
    BY <1>1, <1>2, <2>1, <2>2, <2>3 DEF Moves
  <2>4. CASE d = c /\ cpc[c] = "got"
    <3>1. k = "wait"
      BY <2>4, CallFacts
    <3>2. Waits(c)' = Waits(c) + 1
      BY <2>2, <2>4, <3>1 DEF Counts, Waits
    <3> QED
      BY <1>1, <1>3, <2>2, <2>4, <3>1, <3>2 DEF Moves
  <2>5. CASE d = c /\ cpc[c] # "got"
    <3>1. k # "wait"
      BY <2>1, <2>5
    <3>2. Waits(c)' = Waits(c)
      BY <1>2, <2>1, <2>2, <3>1
    <3>3. cpc'[c] = k
      BY <1>1, <2>2, <2>5
    <3>4. CASE cpc[c] = "start"
      BY <1>3, <2>5, <3>2, <3>3, <3>4, CallFacts DEF Moves
    <3>5. CASE cpc[c] = "queued"
      BY <1>3, <2>5, <3>2, <3>3, <3>5, CallFacts DEF Moves
    <3> QED
      BY <2>1, <2>5, <3>4, <3>5
  <2> QED
    BY <2>3, <2>4, <2>5
<1>4. ASSUME NEW d \in Clients, Retransmit(d) PROVE Moves(c)
  <2>1. cpc[d] \in Calls /\ cpc[d] # "wait" /\ cpc' = cpc
    BY <1>4, SystemAssumption DEF Retransmit
  <2>2. Counts(d, cpc[d], 1)
    BY <1>1, <1>4, <2>1, Sends DEF Retransmit
  <2> QED
    BY <1>2, <2>1, <2>2 DEF Moves
<1>5. ASSUME NEW d \in Clients, Fails(d) PROVE Moves(c)
  <2>1. net' = net
    BY <1>5 DEF Fails, TimeOut, Kill
  <2>2. d # c => cpc'[c] = cpc[c]
    BY <1>1, <1>5 DEF Fails, TimeOut, Kill
  <2>3. DOMAIN cpc = Clients
    BY <1>1
  <2>4. CASE TimeOut(d)
    <3>1. cpc' = [cpc EXCEPT ![d] = IF cpc[d] = "wait" THEN "queued" ELSE "dead"]
      BY <2>4 DEF TimeOut
    <3>2. cpc'[d] = IF cpc[d] = "wait" THEN "queued" ELSE "dead"
      BY <2>3, <3>1
    <3> QED
      BY <1>5, <2>1, <2>2, <3>2 DEF Moves, Waits
  <2>5. CASE Kill(d)
    <3>1. cpc'[d] = "dead"
      BY <2>3, <2>5 DEF Kill
    <3> QED
      BY <1>5, <2>1, <2>2, <3>1 DEF Moves, Waits
  <2> QED
    BY <1>5, <2>4, <2>5 DEF Fails
<1>6. ASSUME NEW d \in Clients, NEW call \in Calls, Lose(d, call) PROVE Moves(c)
  <2>1. call # "wait" /\ cpc' = cpc /\ Counts(d, call, -1)
    BY <1>1, <1>6, Takes DEF Lose, clients
  <2> QED
    BY <1>2, <2>1 DEF Moves
<1>7. ASSUME NEW d \in Clients, DispatchGet(d) \/ DispatchRes(d) \/ DispatchSurplusRes(d) PROVE Moves(c)
  <2>1. cpc' = cpc
    BY <1>7 DEF DispatchGet, DispatchRes, DispatchSurplusRes, clients
  <2>2. Counts(d, "get", -1) \/ Counts(d, "res", -1)
    BY <1>1, <1>7, Takes, CallFacts DEF DispatchGet, DispatchRes, DispatchSurplusRes, Take
  <2> QED
    BY <1>2, <2>1, <2>2, CallFacts DEF Moves
<1>8. ASSUME NEW d \in Clients, DispatchWait(d) PROVE Moves(c)
  <2>1. Counts(d, "wait", -1) /\ Answer(d, "wait", 0, 0)
    BY <1>1, <1>8, Takes, CallFacts DEF DispatchWait, Take
  <2>2. \/ cpc[d] = "wait" /\ Goes(d, "queued")
        \/ cpc[d] # "wait" /\ UNCHANGED cpc
    BY <1>1, <2>1, AnswerEffect, CallFacts
  <2>3. CASE d # c
    <3>1. Waits(c)' = Waits(c)
      BY <1>2, <2>1, <2>3, CallFacts
    <3> QED
      BY <2>2, <2>3, <3>1 DEF Moves, Goes
  <2>4. CASE d = c
    <3>1. Waits(c)' = Waits(c) - 1
      <4>1. Waits(c)' = Waits(c) + (-1) /\ Waits(c) \in Nat
        BY <1>1, <2>1, <2>4, CallFacts DEF Counts, Waits, SysTypeOK
      <4> QED
        BY <4>1
    <3> QED
      BY <1>8, <2>2, <2>4, <3>1 DEF Moves, Goes
  <2> QED
    BY <2>3, <2>4
<1>9. CASE AnswerGet
  <2>1. Answer(caller, "get", num - 1, 0) /\ net' = net /\ caller \in Clients
    BY <1>1, <1>9 DEF AnswerGet, SysTypeOK
  <2>2. (cpc[caller] = "get" /\ Goes(caller, "got")) \/ UNCHANGED cpc
    BY <1>1, <2>1, AnswerEffect, CallFacts
  <2> QED
    BY <1>9, <2>1, <2>2 DEF Moves, Goes, Waits
<1>10. CASE AnswerRes
  <2>1. Answer(caller, "res", 0, thread_res[idx_thread_join]) /\ net' = net /\ caller \in Clients
    BY <1>1, <1>10 DEF AnswerRes, SysTypeOK
  <2>2. (cpc[caller] = "res" /\ Goes(caller, "finished")) \/ UNCHANGED cpc
    BY <1>1, <2>1, AnswerEffect, CallFacts
  <2> QED
    BY <1>10, <2>1, <2>2 DEF Moves, Goes, Waits
<1>11. ASSUME NEW w \in Slots, Execute \/ Work(w) PROVE Moves(c)
  BY <1>11 DEF Execute, Work, clients, Moves, Waits
<1>12. 0 \in Slots
  BY NAssumption DEF Slots
<1> QED
  BY <1>3, <1>4, <1>5, <1>6, <1>7, <1>8, <1>9, <1>10, <1>11, <1>12, SysCases DEF Fails

(* A client has at most one WAIT_QUEUE on its way.                         *)
LEMMA ProtocolStep ==
  ASSUME SysIInv, SysNext, "wait" \notin Retried PROVE ProtocolInv'
<1>1. ASSUME NEW c \in Clients
      PROVE  /\ Waits(c)' \in {0, 1}
             /\ cpc'[c] = "wait" => Waits(c)' = 1
             /\ cpc'[c] \in {"start", "get", "got"} => Waits(c)' = 0
  <2>1. /\ Waits(c) \in {0, 1}
        /\ cpc[c] = "wait" => Waits(c) = 1
        /\ cpc[c] \in {"start", "get", "got"} => Waits(c) = 0
    BY DEF SysIInv, ProtocolInv, Waits
  <2>2. DispatchWait(c) => Waits(c) = 1 /\ cpc[c] \notin {"start", "get", "got"}
    BY WaitIsProper DEF Waits
  <2> QED
    BY <2>1, <2>2, ClientMoves DEF Moves
<1> QED
  BY <1>1 DEF ProtocolInv, Waits

(* A client comes to own a ticket by the answer to its GET_NUMBER only,    *)
(* and owns it no longer once its WAIT_QUEUE is executed.                  *)
LEMMA OwnsStep ==
  ASSUME SysIInv, SysNext, "wait" \notin Retried, NEW c \in Clients
  PROVE  /\ Owns(c)' => Owns(c) \/ (AnswerGet /\ c = caller /\ cpc[c] = "get" /\ cpc'[c] = "got")
         /\ DispatchWait(c) => ~Owns(c)'
<1>1. /\ Waits(c) \in {0, 1}
      /\ cpc[c] = "wait" => Waits(c) = 1
      /\ cpc[c] \in {"start", "get", "got"} => Waits(c) = 0
  BY DEF SysIInv, ProtocolInv, Waits
<1>2. DispatchWait(c) => /\ Waits(c) = 1 /\ cpc[c] \notin {"start", "get", "got"}
                         /\ Waits(c)' = 0 /\ cpc'[c] # "got"
  <2> SUFFICES ASSUME DispatchWait(c)
               PROVE  Waits(c) = 1 /\ cpc[c] \notin {"start", "get", "got"} /\ Waits(c)' = 0 /\ cpc'[c] # "got"
    OBVIOUS
  <2>1. Waits(c) = 1 /\ cpc[c] \notin {"start", "get", "got"} /\ SysTypeOK
    BY WaitIsProper DEF Waits, SysIInv
  <2>2. Counts(c, "wait", -1) /\ Answer(c, "wait", 0, 0)
    BY <2>1, Takes, CallFacts DEF DispatchWait, Take
  <2>3. Waits(c)' = 0
    BY <2>1, <2>2 DEF Counts, Waits
  <2>4. cpc'[c] # "got"
    BY <2>1, <2>2, AnswerEffect, CallFacts DEF Goes
  <2> QED
    BY <2>1, <2>3, <2>4
<1>3. Owns(c)' => Owns(c) \/ (AnswerGet /\ c = caller /\ cpc[c] = "get" /\ cpc'[c] = "got")
  BY <1>1, <1>2, ClientMoves DEF Moves, Owns, Waits
<1> QED
  BY <1>2, <1>3 DEF Owns, Waits

-----------------------------------------------------------------------------
(* A step that answers no GET_NUMBER and executes no WAIT_QUEUE leaves     *)
(* what TicketInv is about alone.                                          *)
LEMMA AnsweredStep ==
  ASSUME SysIInv, SysNext, ~AnswerGet, \A c \in Clients : ~DispatchWait(c)
  PROVE  /\ Answered' = Answered
         /\ UNCHANGED <<idx_thread_create, thread_id, ticket>>
<1>1. SysTypeOK /\ IInv /\ num \in Nat
  BY DEF SysIInv, SysTypeOK, IInv, TypeOK
<1>2. ASSUME NEW c \in Clients, Call(c) \/ Retransmit(c) \/ TimeOut(c) \/ Kill(c) \/ DispatchSurplusRes(c)
      PROVE  UNCHANGED <<num, dpc, idx_thread_create, thread_id, ticket>>
  BY <1>2 DEF Call, Retransmit, TimeOut, Kill, DispatchSurplusRes, clients, vars, tickets, threads, dispatcher
<1>3. ASSUME NEW c \in Clients, NEW call \in Calls, Lose(c, call)
      PROVE  UNCHANGED <<num, dpc, idx_thread_create, thread_id, ticket>>
  BY <1>3 DEF Lose, clients, vars, tickets, threads, dispatcher
<1>4. ASSUME NEW w \in Slots, Work(w)
      PROVE  UNCHANGED <<num, dpc, idx_thread_create, thread_id, ticket>>
  BY <1>1, <1>4, BakeryStep DEF Work, clients, threads, dispatcher, IInv
<1>5. CASE Execute
  <2>1. dpc \in Choosing /\ dpc' \in Choosing
    BY <1>5 DEF Execute, ScanCompare, ScanAssign, StoreNumber, Choosing
  <2>2. UNCHANGED <<num, idx_thread_create, thread_id, ticket>>
    BY <1>5 DEF Execute, ScanCompare, ScanAssign, StoreNumber, clients, tickets, threads
  <2> QED
    BY <2>1, <2>2 DEF Answered
<1>6. CASE AnswerRes
  <2>1. dpc = "join" /\ dpc' = "idle" /\ UNCHANGED <<num, idx_thread_create, thread_id>>
    BY <1>6 DEF AnswerRes, Join, tickets
  <2>2. ticket' = ticket
    <3>1. Answer(caller, "res", 0, thread_res[idx_thread_join]) /\ caller \in Clients
      BY <1>1, <1>6 DEF AnswerRes, SysTypeOK
    <3>2. ticket' = [ticket EXCEPT ![caller] = ticket[caller]] \/ ticket' = ticket
      BY <3>1 DEF Answer, clients
    <3> QED
      BY <1>1, <3>1, <3>2 DEF SysTypeOK
  <2> QED
    BY <2>1, <2>2 DEF Answered, Choosing
<1>7. ASSUME NEW c \in Clients, DispatchGet(c) PROVE Answered' = Answered
  <2>1. dpc = "idle" /\ dpc' = "compare" /\ num' = num + 1
    BY <1>7 DEF DispatchGet, GetNumber
  <2>2. num' - 1 = num
    BY <1>1, <2>1
  <2> QED
    BY <2>1, <2>2 DEF Answered, Choosing
<1>8. ASSUME NEW c \in Clients, DispatchGet(c) PROVE UNCHANGED <<idx_thread_create, thread_id, ticket>>
  BY <1>8 DEF DispatchGet, GetNumber, clients, threads
<1>9. ASSUME NEW c \in Clients, DispatchRes(c)
      PROVE  Answered' = Answered /\ UNCHANGED <<idx_thread_create, thread_id, ticket>>
  BY <1>9 DEF DispatchRes, BakeryRes, clients, threads, tickets, Answered, Choosing
<1> QED
  BY <1>2, <1>3, <1>4, <1>5, <1>6, <1>7, <1>8, <1>9, SysCases DEF Answered

(* WAIT_QUEUE queues the ticket of its client.                             *)
LEMMA QueuedStep ==
  ASSUME IInv, NEW id, WaitQueue(id) PROVE Queued' = Queued \union {id}
<1> DEFINE t == idx_thread_create
<1>1. t \in Nat /\ t < N /\ t \in Slots
  BY SlotFacts, NAssumption DEF IInv, WaitQueue, TypeOK
<1>2. thread_id'[t] = id /\ \A v \in Slots : v # t => thread_id'[v] = thread_id[v]
  BY <1>1 DEF WaitQueue, IInv, TypeOK
<1>3. idx_thread_create' = t + 1
  BY DEF WaitQueue
<1> HIDE DEF t
<1>4. 0 .. (t + 1) - 1 = (0 .. t - 1) \union {t}
  BY <1>1
<1>5. \A v \in 0 .. t - 1 : v \in Slots /\ v # t
  BY <1>1, SlotFacts, NAssumption
<1>6. Queued' = {thread_id'[w] : w \in (0 .. t - 1) \union {t}}
  BY <1>3, <1>4 DEF Queued
<1>7. Queued = {thread_id[w] : w \in 0 .. t - 1}
  BY DEF Queued, t
<1> QED
  BY <1>2, <1>5, <1>6, <1>7

(* Nobody else gets the ticket a client is about to queue.                 *)
LEMMA TicketStep ==
  ASSUME SysIInv, SysNext, "wait" \notin Retried PROVE TicketInv'
<1>1. /\ \A c \in Clients : Owns(c) => ticket[c] < Answered /\ ticket[c] \notin Queued
      /\ \A c, d \in Clients : c # d /\ Owns(c) /\ Owns(d) => ticket[c] # ticket[d]
      /\ \A i \in Queued : i < Answered
  BY DEF SysIInv, TicketInv
<1>2. SysTypeOK /\ IInv /\ ticket \in [Clients -> Slots] /\ num \in Nat /\ Answered \in Int
  BY AnsweredFacts DEF SysIInv, SysTypeOK
<1>3. CASE ~AnswerGet /\ \A c \in Clients : ~DispatchWait(c)
  <2>1. Answered' = Answered /\ ticket' = ticket /\ Queued' = Queued
    BY <1>3, AnsweredStep DEF Queued
  <2>2. \A c \in Clients : Owns(c)' => Owns(c)
    BY <1>3, OwnsStep
  <2> QED
    BY <1>1, <2>1, <2>2 DEF TicketInv, Owns
<1>4. CASE AnswerGet
  <2>1. ClearChoosing /\ Answer(caller, "get", num - 1, 0) /\ caller \in Clients
    BY <1>2, <1>4 DEF AnswerGet, SysTypeOK
  <2>2. Answered = num - 1 /\ Answered' = num /\ Answered' = Answered + 1
    BY <1>2, <2>1 DEF ClearChoosing, Answered, Choosing
  <2>3. Queued' = Queued
    BY <2>1 DEF ClearChoosing, threads, Queued
  <2>4. \A c \in Clients : Owns(c)' => Owns(c) \/ (c = caller /\ cpc[c] = "get" /\ cpc'[c] = "got")
    BY OwnsStep
  <2>5. \A i \in Queued : i \in Int
    BY <1>2, SlotFacts, NAssumption DEF Queued, IInv, TypeOK
  <2>6. \A i \in Queued : i < Answered'
    BY <1>1, <1>2, <2>2, <2>5
  <2>7. ASSUME NEW c \in Clients, ticket[c] < Answered PROVE ticket[c] < Answered + 1 /\ ticket[c] # Answered
    BY <1>2, <2>7, SlotFacts
  <2>8. CASE cpc[caller] = "get" /\ cpc'[caller] = "got"
    <3>1. ticket'[caller] = num - 1 /\ \A e \in Clients \ {caller} : ticket'[e] = ticket[e]
      BY <1>2, <2>1, <2>8, AnswerEffect, CallFacts
    <3>2. ticket'[caller] = Answered /\ Answered < Answered' /\ Answered \notin Queued
      BY <1>1, <1>2, <2>2, <2>5, <3>1
    <3> QED
      BY <1>1, <2>2, <2>3, <2>4, <2>6, <2>7, <3>1, <3>2 DEF TicketInv, Owns
  <2>9. CASE ~(cpc[caller] = "get" /\ cpc'[caller] = "got")
    <3>1. \A c \in Clients : Owns(c)' => Owns(c)
      BY <2>4, <2>9
    <3>2. UNCHANGED ticket
      BY <1>2, <2>1, <2>9, AnswerEffect, CallFacts DEF Goes
    <3> QED
      BY <1>1, <2>2, <2>3, <2>6, <2>7, <3>1, <3>2 DEF TicketInv, Owns
  <2> QED
    BY <2>8, <2>9
<1>5. ASSUME NEW c \in Clients, DispatchWait(c) PROVE TicketInv'
  <2>1. WaitQueue(ticket[c]) /\ Owns(c) /\ Answer(c, "wait", 0, 0)
    BY <1>5, WaitIsProper DEF DispatchWait
  <2>2. ~AnswerGet
    BY <2>1 DEF AnswerGet, ClearChoosing, WaitQueue
  <2>3. \A d \in Clients : Owns(d)' => Owns(d) /\ d # c
    BY <1>5, <2>2, OwnsStep
  <2>4. Answered' = Answered
    BY <2>1 DEF WaitQueue, tickets, dispatcher, Answered
  <2>5. ticket' = ticket
    <3>1. ticket' = [ticket EXCEPT ![c] = ticket[c]] \/ ticket' = ticket
      BY <2>1 DEF Answer, clients
    <3> QED
      BY <1>2, <3>1
  <2>6. Queued' = Queued \union {ticket[c]}
    BY <1>2, <2>1, QueuedStep
  <2> QED
    BY <1>1, <2>1, <2>3, <2>4, <2>5, <2>6 DEF TicketInv, Owns
<1> QED
  BY <1>3, <1>4, <1>5

-----------------------------------------------------------------------------
(* What a step does to the letters and to the threads that are joined.     *)
LEMMA LetterUnchanged ==
  ASSUME SysIInv, SysNext, ~AnswerRes
  PROVE  UNCHANGED <<letter, idx_thread_join>>
<1>1. SysTypeOK /\ IInv
  BY DEF SysIInv
<1>2. ASSUME NEW c \in Clients, NEW call \in Calls, NEW got, call # "res", Answer(c, call, got, 0)
      PROVE  letter' = letter
  <2>1. letter' = [letter EXCEPT ![c] = letter[c]] \/ letter' = letter
    BY <1>2 DEF Answer, clients
  <2> QED
    BY <1>1, <2>1 DEF SysTypeOK
<1>3. ASSUME NEW c \in Clients, Call(c) \/ Retransmit(c) \/ TimeOut(c) \/ Kill(c) \/ DispatchSurplusRes(c)
      PROVE  UNCHANGED <<letter, idx_thread_join>>
  BY <1>3 DEF Call, Retransmit, TimeOut, Kill, DispatchSurplusRes, clients, vars, threads
<1>4. ASSUME NEW c \in Clients, NEW call \in Calls, Lose(c, call)
      PROVE  UNCHANGED <<letter, idx_thread_join>>
  BY <1>4 DEF Lose, clients, vars, threads
<1>5. ASSUME NEW w \in Slots, Work(w)
      PROVE  UNCHANGED <<letter, idx_thread_join>>
  BY <1>1, <1>5, BakeryStep DEF Work, clients, threads, IInv
<1>6. CASE Execute
  BY <1>6 DEF Execute, ScanCompare, ScanAssign, StoreNumber, clients, threads
<1>7. ASSUME NEW c \in Clients, DispatchGet(c) \/ DispatchRes(c)
      PROVE  UNCHANGED <<letter, idx_thread_join>>
  BY <1>7 DEF DispatchGet, DispatchRes, GetNumber, BakeryRes, clients, threads
<1>8. ASSUME NEW c \in Clients, DispatchWait(c)
      PROVE  UNCHANGED <<letter, idx_thread_join>>
  <2>1. letter' = letter
    BY <1>2, <1>8, CallFacts DEF DispatchWait
  <2> QED
    BY <1>8, <2>1 DEF DispatchWait, WaitQueue
<1>9. CASE AnswerGet
  <2>1. letter' = letter
    BY <1>1, <1>2, <1>9, CallFacts DEF AnswerGet, SysTypeOK
  <2> QED
    BY <1>9, <2>1 DEF AnswerGet, ClearChoosing, threads
<1> QED
  BY <1>3, <1>4, <1>5, <1>6, <1>7, <1>8, <1>9, SysCases

(* The tickets of the threads that are joined do not change any more.      *)
LEMMA JoinedStay ==
  ASSUME SysIInv, SysNext, NEW w \in Slots, w < idx_thread_join
  PROVE  thread_id'[w] = thread_id[w]
<1>1. SysTypeOK /\ IInv
  BY DEF SysIInv
<1>2. w < idx_thread_create
  BY <1>1, SlotFacts, NAssumption DEF IInv, TypeOK
<1>3. ASSUME NEW id, WaitQueue(id) PROVE thread_id'[w] = thread_id[w]
  <2>1. w # idx_thread_create
    BY <1>1, <1>2, SlotFacts, NAssumption DEF IInv, TypeOK
  <2> QED
    BY <1>1, <1>3, <2>1 DEF WaitQueue, IInv, TypeOK
<1>4. ASSUME NEW c \in Clients, DispatchWait(c) PROVE thread_id'[w] = thread_id[w]
  BY <1>3, <1>4 DEF DispatchWait
<1>5. CASE AnswerGet
  BY <1>5 DEF AnswerGet, ClearChoosing, threads
<1> QED
  BY <1>4, <1>5, AnsweredStep

(* An answer to BAKERY_RES gives the caller the letter of the thread that  *)
(* is joined.                                                              *)
LEMMA AnswerResGives ==
  ASSUME SysIInv, AnswerRes
  PROVE  /\ idx_thread_join \in Slots /\ idx_thread_join < idx_thread_create
         /\ idx_thread_join' = idx_thread_join + 1
         /\ \A c \in Clients :
              \/ letter'[c] = letter[c]
              \/ c = caller /\ letter'[c] = FirstSymbol + thread_id[idx_thread_join]
<1>1. SysTypeOK /\ IInv /\ Join /\ caller \in Clients
  BY DEF SysIInv, AnswerRes, SysTypeOK
<1>2. idx_thread_join \in Slots /\ idx_thread_join < idx_thread_create
  BY <1>1, JoinSlot
<1>3. thread_res[idx_thread_join] = FirstSymbol + thread_id[idx_thread_join]
  BY <1>1, <1>2 DEF Join, IInv, LetterInv, LetterMatchesTicket
<1>4. Answer(caller, "res", 0, thread_res[idx_thread_join])
  BY DEF AnswerRes
<1>5. \A c \in Clients : letter'[c] = letter[c] \/ (c = caller /\ letter'[c] = thread_res[idx_thread_join])
  BY <1>1, <1>4, AnswerEffect, CallFacts
<1>6. idx_thread_join' = idx_thread_join + 1
  BY <1>1 DEF Join
<1> QED
  BY <1>2, <1>3, <1>5, <1>6

LEMMA GivenStep ==
  ASSUME SysIInv, SysNext PROVE GivenInv' /\ NoLetterTwice'
<1>1. SysTypeOK /\ IInv /\ GivenInv /\ NoLetterTwice /\ idx_thread_join \in Int
  BY NAssumption DEF SysIInv, IInv, TypeOK
<1>2. \A w \in Slots : w \in Int /\ thread_id[w] \in Int
  BY <1>1, SlotFacts DEF IInv, TypeOK
<1>3. CASE ~AnswerRes
  <2>1. letter' = letter /\ idx_thread_join' = idx_thread_join
    BY <1>3, LetterUnchanged
  <2> QED
    BY <1>1, <2>1, JoinedStay DEF GivenInv, NoLetterTwice
<1>4. CASE AnswerRes
  <2> DEFINE t == idx_thread_join
  <2>1. /\ t \in Slots /\ t < idx_thread_create /\ idx_thread_join' = t + 1
        /\ \A c \in Clients : letter'[c] = letter[c] \/ (c = caller /\ letter'[c] = FirstSymbol + thread_id[t])
    BY <1>4, AnswerResGives
  <2>2. thread_id' = thread_id
    BY <1>4 DEF AnswerRes, Join
  <2> HIDE DEF t
  <2>3. GivenInv'
    <3> SUFFICES ASSUME NEW c \in Clients, letter'[c] # 0
                 PROVE  \E w \in Slots : w < t + 1 /\ letter'[c] = FirstSymbol + thread_id[w]
      BY <2>1, <2>2 DEF GivenInv
    <3>1. CASE letter'[c] = letter[c]
      <4>1. PICK w \in Slots : w < idx_thread_join /\ letter[c] = FirstSymbol + thread_id[w]
        BY <1>1, <3>1 DEF GivenInv
      <4>2. w < t + 1
        BY <1>1, <1>2, <4>1 DEF t
      <4> QED
        BY <3>1, <4>1, <4>2
    <3>2. CASE letter'[c] = FirstSymbol + thread_id[t]
      <4>1. t < t + 1
        BY <1>2, <2>1
      <4> QED
        BY <2>1, <3>2, <4>1
    <3> QED
      BY <2>1, <3>1, <3>2
  <2>4. ASSUME NEW c \in Clients, letter[c] = FirstSymbol + thread_id[t] PROVE FALSE
    <3>1. letter[c] # 0
      BY <1>1, <2>1, <2>4, SlotFacts DEF IInv, TypeOK, FirstSymbol
    <3>2. PICK w \in Slots : w < idx_thread_join /\ letter[c] = FirstSymbol + thread_id[w]
      BY <1>1, <3>1 DEF GivenInv
    <3>3. thread_id[w] = thread_id[t] /\ w # t /\ w < idx_thread_create
      <4>1. idx_thread_create \in Int
        BY <1>1, NAssumption DEF IInv, TypeOK
      <4> QED
        BY <1>1, <1>2, <2>1, <2>4, <3>2, <4>1 DEF FirstSymbol, t
    <3>4. wpc[w] # "none" /\ wpc[t] # "none"
      <4>1. idx_thread_create \in Int
        BY <1>1, NAssumption DEF IInv, TypeOK
      <4> QED
        BY <1>1, <1>2, <2>1, <3>2, <3>3, <4>1 DEF IInv, ThreadInv
    <3> QED
      BY <1>1, <2>1, <3>2, <3>3, <3>4 DEF IInv, ThreadInv
  <2>5. FirstSymbol + thread_id[t] # 0
    BY <1>1, <2>1, SlotFacts DEF IInv, TypeOK, FirstSymbol
  <2>6. NoLetterTwice'
    <3> SUFFICES ASSUME NEW c \in Clients, NEW d \in Clients, c # d, letter'[c] # 0
                 PROVE  letter'[c] # letter'[d]
      BY DEF NoLetterTwice
    <3>1. CASE letter'[c] = letter[c] /\ letter'[d] = letter[d]
      BY <1>1, <3>1 DEF NoLetterTwice
    <3>2. CASE letter'[c] = letter[c] /\ letter'[d] = FirstSymbol + thread_id[t]
      BY <2>4, <3>2
    <3>3. CASE letter'[d] = letter[d] /\ letter'[c] = FirstSymbol + thread_id[t]
      BY <2>4, <3>3
    <3> QED
      BY <2>1, <3>1, <3>2, <3>3
  <2> QED
    BY <2>3, <2>6
<1> QED
  BY <1>3, <1>4

-----------------------------------------------------------------------------
(* Every step keeps the inductive invariant.                               *)
LEMMA SysInvStep ==
  "wait" \notin Retried => (SysIInv /\ [SysNext]_sysvars => SysIInv')
<1> SUFFICES ASSUME "wait" \notin Retried, SysIInv, [SysNext]_sysvars PROVE SysIInv'
  OBVIOUS
<1>1. CASE SysNext
  <2>1. SysTypeOK'
    BY <1>1, SysTypeStep
  <2>2. IInv'
    BY <1>1, ServerStep, InvStep DEF SysIInv
  <2>3. ProtocolInv' /\ TicketInv'
    BY <1>1, ProtocolStep, TicketStep
  <2>4. GivenInv' /\ NoLetterTwice'
    BY <1>1, GivenStep
  <2> QED
    BY <2>1, <2>2, <2>3, <2>4 DEF SysIInv
<1>2. CASE UNCHANGED sysvars
  <2>1. UNCHANGED vars /\ UNCHANGED <<cpc, ticket, letter, sends, failures, net, caller, up>>
    BY <1>2 DEF sysvars, clients
  <2>2. IInv' /\ TypeOK'
    BY <2>1, InvStep DEF SysIInv, IInv
  <2>3. SysTypeOK'
    BY <2>1, <2>2 DEF SysIInv, SysTypeOK
  <2>4. UNCHANGED <<Answered, Queued, thread_id, idx_thread_join>>
    BY <2>1 DEF vars, tickets, threads, dispatcher, Answered, Queued
  <2>5. ProtocolInv' /\ TicketInv'
    BY <2>1, <2>4 DEF SysIInv, ProtocolInv, TicketInv, Owns
  <2>6. GivenInv' /\ NoLetterTwice'
    BY <2>1, <2>4 DEF SysIInv, GivenInv, NoLetterTwice
  <2> QED
    BY <2>2, <2>3, <2>5, <2>6 DEF SysIInv
<1> QED
  BY <1>1, <1>2

(* SysIInv is an invariant of the server with its clients, unless          *)
(* WAIT_QUEUE is repeated.                                                 *)
THEOREM SysInvariance == "wait" \notin Retried => (SysSpec => []SysIInv)
<1> SUFFICES ASSUME "wait" \notin Retried PROVE SysSpec => []SysIInv
  OBVIOUS
<1>1. SysIInv /\ [SysNext]_sysvars => SysIInv'
  BY SysInvStep
<1> QED
  BY <1>1, SysInitInv, PTL DEF SysSpec

(* No two clients are given the same letter (bakery_res_1_svc, lines       *)
(* 106-118), although requests are lost, repeated or sent by clients that  *)
(* die before the answer.                                                  *)
THEOREM LettersDiffer == "wait" \notin Retried => (SysSpec => []NoLetterTwice)
<1>1. SysIInv => NoLetterTwice
  BY DEF SysIInv
<1> QED
  BY <1>1, SysInvariance, PTL

(* The clients and their datagrams use the server as BakeryServer assumes: *)
(* every WAIT_QUEUE that is executed (line 93) names a ticket that         *)
(* GET_NUMBER has answered and nobody has queued.                          *)
THEOREM ProperUse == "wait" \notin Retried => (SysSpec => UsesServerProperly)
<1>1. SysInit => Init
  BY DEF SysInit
<1>2. SysIInv /\ [SysNext]_sysvars => [Next]_vars
  <2>1. SysIInv /\ SysNext => [Next]_vars
    BY ServerStep
  <2>2. UNCHANGED sysvars => UNCHANGED vars
    BY DEF sysvars
  <2> QED
    BY <2>1, <2>2
<1> QED
  BY <1>1, <1>2, SysInvariance, PTL DEF SysSpec, Spec, UsesServerProperly

(* With its clients, too, the server serves one customer at a time and in  *)
(* the order of the tickets: what is proved of BakeryServer carries over.  *)
THEOREM SystemServesInOrder ==
  "wait" \notin Retried => (SysSpec => []MutualExclusion /\ []LetterMatchesTicket /\ ServesInOrder)
  BY ProperUse, MutuallyExclusive, LettersMatchTickets, Refinement DEF UsesServerProperly

-----------------------------------------------------------------------------
(* From here on no call but GET_NUMBER is repeated or lost, and no client  *)
(* is killed or gives up.                                                  *)
Reliable == Retried \subseteq {"get"} /\ MaxFailures = 0

(* What a step may do to the BAKERY_RES of client c.                       *)
Asks(c) == net[c]["res"]

AskMoves(c) ==
  \/ Asks(c)' = Asks(c)
  \/ Call(c) /\ cpc[c] = "queued" /\ cpc'[c] = "res" /\ Asks(c)' = Asks(c) + 1
  \/ DispatchRes(c) /\ cpc'[c] = cpc[c] /\ Asks(c)' = Asks(c) - 1
  \/ DispatchSurplusRes(c)

LEMMA ReliableFacts ==
  ASSUME Reliable PROVE "wait" \notin Retried /\ "res" \notin Retried
  BY DEF Reliable

LEMMA NobodyFails ==
  ASSUME Reliable, SysIInv, NEW c \in Clients PROVE ~Fails(c)
<1>1. failures \in 0 .. MaxFailures /\ MaxFailures = 0
  BY DEF SysIInv, SysTypeOK, Reliable
<1>2. ~(failures < MaxFailures)
  BY <1>1
<1> QED
  BY <1>2 DEF Fails, TimeOut, Kill

LEMMA ClientAsks ==
  ASSUME Reliable, SysIInv, SysNext, NEW c \in Clients
  PROVE  AskMoves(c)
<1>1. SysTypeOK /\ IInv /\ DOMAIN cpc = Clients
  BY DEF SysIInv, SysTypeOK
<1>2. ASSUME NEW d \in Clients, NEW k \in Calls, NEW n, Counts(d, k, n), d # c \/ k # "res"
      PROVE  Asks(c)' = Asks(c)
  BY <1>2, CallFacts DEF Counts, Asks
<1>3. ASSUME NEW d \in Clients, Call(d) PROVE AskMoves(c)
  <2>1. NextCall[cpc[d]] \in Calls /\ cpc[d] \in {"start", "got", "queued"}
    BY <1>3, CallFacts DEF Call
  <2>2. Counts(d, NextCall[cpc[d]], 1)
    BY <1>1, <1>3, <2>1, Sends DEF Call
  <2>3. CASE d = c /\ cpc[c] = "queued"
    <3>1. cpc'[c] = "res" /\ Asks(c)' = Asks(c) + 1
      BY <1>1, <1>3, <2>2, <2>3, CallFacts DEF Call, Counts, Asks
    <3> QED
      BY <1>3, <2>3, <3>1 DEF AskMoves
  <2>4. CASE ~(d = c /\ cpc[c] = "queued")
    <3>1. d = c => NextCall[cpc[d]] # "res"
      BY <2>1, <2>4, CallFacts
    <3> QED
      BY <1>2, <2>1, <2>2, <3>1 DEF AskMoves
  <2> QED
    BY <2>3, <2>4
<1>4. ASSUME NEW d \in Clients, Retransmit(d) PROVE AskMoves(c)
  <2>1. cpc[d] \in Calls /\ cpc[d] # "res"
    BY <1>4, ReliableFacts, SystemAssumption DEF Retransmit
  <2>2. Counts(d, cpc[d], 1)
    BY <1>1, <1>4, <2>1, Sends DEF Retransmit
  <2> QED
    BY <1>2, <2>1, <2>2 DEF AskMoves
<1>5. ASSUME NEW d \in Clients, NEW call \in Calls, Lose(d, call) PROVE AskMoves(c)
  <2>1. call # "res" /\ Counts(d, call, -1)
    BY <1>1, <1>5, Takes, ReliableFacts DEF Lose
  <2> QED
    BY <1>2, <2>1 DEF AskMoves
<1>6. ASSUME NEW d \in Clients, DispatchGet(d) \/ DispatchWait(d) PROVE AskMoves(c)
  <2>1. Counts(d, "get", -1) \/ Counts(d, "wait", -1)
    BY <1>1, <1>6, Takes, CallFacts DEF DispatchGet, DispatchWait, Take
  <2> QED
    BY <1>2, <2>1, CallFacts DEF AskMoves
<1>7. ASSUME NEW d \in Clients, DispatchRes(d) PROVE AskMoves(c)
  <2>1. Counts(d, "res", -1) /\ cpc' = cpc
    BY <1>1, <1>7, Takes, CallFacts DEF DispatchRes, Take, clients
  <2>2. CASE d = c
    <3>1. Asks(c)' = Asks(c) + (-1) /\ Asks(c) \in Nat
      BY <1>1, <2>1, <2>2, CallFacts DEF Counts, Asks, SysTypeOK
    <3>2. Asks(c)' = Asks(c) - 1
      BY <3>1
    <3> QED
      BY <1>7, <2>1, <2>2, <3>2 DEF AskMoves
  <2>3. CASE d # c
    BY <1>2, <2>1, <2>3, CallFacts DEF AskMoves
  <2> QED
    BY <2>2, <2>3
<1>8. ASSUME NEW d \in Clients, DispatchSurplusRes(d) PROVE AskMoves(c)
  <2>1. Counts(d, "res", -1)
    BY <1>1, <1>8, Takes, CallFacts DEF DispatchSurplusRes, Take
  <2> QED
    BY <1>2, <1>8, <2>1, CallFacts DEF AskMoves
<1>9. CASE Execute \/ AnswerGet \/ AnswerRes
  BY <1>9 DEF Execute, AnswerGet, AnswerRes, AskMoves, Asks
<1>10. ASSUME NEW w \in Slots, Work(w) PROVE AskMoves(c)
  BY <1>10 DEF Work, AskMoves, Asks
<1> QED
  BY <1>3, <1>4, <1>5, <1>6, <1>7, <1>8, <1>9, <1>10, SysCases, NobodyFails DEF Fails

(* There is no BAKERY_RES too many: a client that sends one is queued and  *)
(* has not been joined for.                                                *)
LEMMA NoSurplus ==
  ASSUME SysIInv, ReliableInv, NEW c \in Clients PROVE ~DispatchSurplusRes(c)
<1> SUFFICES ASSUME DispatchSurplusRes(c) PROVE FALSE
  OBVIOUS
<1>1. net[c]["res"] > 0 /\ idx_thread_join = idx_thread_create
  BY DEF DispatchSurplusRes, Take
<1>2. net[c]["res"] \in {0, 1} /\ (net[c]["res"] = 1 => cpc[c] = "res")
  BY DEF ReliableInv
<1>3. c \in Queuers /\ c \notin Finishers
  BY <1>1, <1>2 DEF Queuers, Finishers
<1>4. Finishers \subseteq Queuers
  BY DEF Queuers, Finishers
<1>5. Cardinality(Finishers) = Cardinality(Queuers) /\ IsFiniteSet(Queuers)
  BY <1>1 DEF ReliableInv, CountInv
<1> QED
  BY <1>3, <1>4, <1>5, FS_Subset

LEMMA ReliableInit == SysInit => ReliableInv
<1> SUFFICES ASSUME SysInit PROVE ReliableInv
  OBVIOUS
<1>1. Queuers = {} /\ Finishers = {}
  BY DEF SysInit, Queuers, Finishers
<1>2. CountInv
  BY <1>1, FS_EmptySet DEF SysInit, Init, CountInv
<1> QED
  BY <1>2 DEF SysInit, Init, ReliableInv, Calls

(* Only the execution of a BAKERY_RES starts a pthread_join.               *)
LEMMA JoinStep ==
  ASSUME SysIInv, SysNext, dpc' = "join"
  PROVE  \/ dpc = "join" /\ caller' = caller /\ ~AnswerRes
         \/ \E c \in Clients : DispatchRes(c) /\ caller' = c
<1>1. ASSUME NEW c \in Clients, Call(c) \/ Retransmit(c) \/ TimeOut(c) \/ Kill(c) \/ DispatchSurplusRes(c)
      PROVE  UNCHANGED <<dpc, caller>>
  BY <1>1 DEF Call, Retransmit, TimeOut, Kill, DispatchSurplusRes, vars, dispatcher
<1>2. ASSUME NEW c \in Clients, NEW call \in Calls, Lose(c, call) PROVE UNCHANGED <<dpc, caller>>
  BY <1>2 DEF Lose, vars, dispatcher
<1>3. ASSUME NEW w \in Slots, Work(w) PROVE UNCHANGED <<dpc, caller>>
  BY <1>3, BakeryStep DEF Work, dispatcher, SysIInv, IInv
<1>4. ~Execute /\ ~AnswerGet /\ ~AnswerRes /\ \A c \in Clients : ~DispatchGet(c)
  BY DEF Execute, ScanCompare, ScanAssign, StoreNumber, AnswerGet, ClearChoosing,
         AnswerRes, Join, DispatchGet, GetNumber
<1>5. ASSUME NEW c \in Clients, DispatchWait(c) PROVE dpc' = dpc /\ caller' = caller
  BY <1>5 DEF DispatchWait, WaitQueue, dispatcher
<1>6. ASSUME NEW c \in Clients, DispatchRes(c) PROVE caller' = c
  BY <1>6 DEF DispatchRes
<1> QED
  BY <1>1, <1>2, <1>3, <1>4, <1>5, <1>6, SysCases

(* The requests on their way stay those that are waited for.               *)
LEMMA RequestsStep ==
  ASSUME Reliable, SysIInv, ReliableInv, SysNext, NEW c \in Clients
  PROVE  /\ cpc'[c] # "dead"
         /\ Waits(c)' = 1 => cpc'[c] = "wait"
         /\ Asks(c)' \in {0, 1}
         /\ Asks(c)' = 1 => cpc'[c] = "res"
<1>1. /\ Waits(c) \in {0, 1} /\ (Waits(c) = 1 => cpc[c] = "wait")
      /\ cpc[c] # "dead" /\ (cpc[c] = "wait" => Waits(c) = 1)
  BY DEF ReliableInv, SysIInv, ProtocolInv, Waits
<1>2. Asks(c) \in {0, 1} /\ (Asks(c) = 1 => cpc[c] = "res")
  BY DEF ReliableInv, Asks
<1>3. Moves(c) /\ ~Fails(c)
  BY ClientMoves, NobodyFails, ReliableFacts
<1>4. cpc'[c] # "dead" /\ (Waits(c)' = 1 => cpc'[c] = "wait")
  BY <1>1, <1>3 DEF Moves
<1>5. Asks(c)' = Asks(c) \/ (Asks(c)' = 1 /\ cpc'[c] = "res") \/ Asks(c)' = 0
  BY <1>2, ClientAsks, NoSurplus DEF AskMoves, DispatchRes, Take, Asks
<1>6. ASSUME Asks(c) = 1, Asks(c)' = Asks(c) PROVE cpc'[c] = "res"
  <2>1. cpc[c] = "res"
    BY <1>2, <1>6
  <2>2. ~(AnswerRes /\ c = caller)
    <3>1. AnswerRes /\ c = caller => Asks(c) = 0
      BY DEF AnswerRes, Join, ReliableInv, Asks
    <3> QED
      BY <1>6, <3>1
  <2> QED
    BY <1>3, <2>1, <2>2 DEF Moves
<1> QED
  BY <1>2, <1>4, <1>5, <1>6

(* The dispatcher waits in pthread_join for a client that has sent one     *)
(* BAKERY_RES, which is no longer on its way.                              *)
LEMMA CallerStep ==
  ASSUME Reliable, SysIInv, ReliableInv, SysNext, dpc' = "join"
  PROVE  cpc'[caller'] = "res" /\ net'[caller']["res"] = 0
<1>1. SysTypeOK /\ IInv /\ caller \in Clients /\ DOMAIN cpc = Clients
  BY DEF SysIInv, SysTypeOK
<1>2. CASE dpc = "join" /\ caller' = caller /\ ~AnswerRes
  <2>1. cpc[caller] = "res" /\ Asks(caller) = 0
    BY <1>2 DEF ReliableInv, Asks
  <2>2. Moves(caller) /\ ~Fails(caller)
    BY <1>1, ClientMoves, NobodyFails, ReliableFacts
  <2>3. cpc'[caller] = "res"
    BY <1>2, <2>1, <2>2 DEF Moves
  <2>4. ASSUME NEW c \in Clients, c = caller PROVE net'[c]["res"] = 0
    <3>1. AskMoves(c) /\ ~DispatchSurplusRes(c)
      BY ClientAsks, NoSurplus
    <3>2. ~DispatchRes(c) /\ cpc[c] # "queued" /\ net[c]["res"] = 0
      BY <1>2, <2>1, <2>4 DEF DispatchRes, BakeryRes, Asks
    <3> QED
      BY <3>1, <3>2 DEF AskMoves, Asks
  <2> QED
    BY <1>1, <1>2, <2>3, <2>4
<1>3. ASSUME NEW c \in Clients, DispatchRes(c), caller' = c
      PROVE  cpc'[caller'] = "res" /\ net'[caller']["res"] = 0
  <2>1. net[c]["res"] > 0 /\ cpc' = cpc
    BY <1>3 DEF DispatchRes, Take, clients
  <2>2. net[c]["res"] = 1 /\ cpc[c] = "res"
    BY <2>1 DEF ReliableInv
  <2>3. Counts(c, "res", -1)
    BY <1>1, <1>3, Takes, CallFacts DEF DispatchRes, Take
  <2>4. net'[c]["res"] = 0
    BY <2>2, <2>3 DEF Counts
  <2> QED
    BY <1>3, <2>1, <2>2, <2>4
<1> QED
  BY <1>2, <1>3, JoinStep

(* The k-th client that is queued makes the k-th thread, and the k-th that *)
(* finishes is joined for with the k-th.                                   *)
LEMMA QueuersStep ==
  ASSUME Reliable, SysIInv, ReliableInv, SysNext
  PROVE  IsFiniteSet(Queuers') /\ Cardinality(Queuers') = idx_thread_create'
<1>1. SysTypeOK /\ IInv /\ IsFiniteSet(Queuers) /\ Cardinality(Queuers) = idx_thread_create
  BY DEF SysIInv, ReliableInv, CountInv
<1>2. ASSUME NEW c \in Clients
      PROVE  Moves(c) /\ ~Fails(c)
  BY ClientMoves, NobodyFails, ReliableFacts
<1>3. CASE \A c \in Clients : ~DispatchWait(c)
  <2>1. \A c \in Clients : c \in Queuers' <=> c \in Queuers
    BY <1>2, <1>3 DEF Moves, Queuers
  <2>2. Queuers' = Queuers
    BY <2>1 DEF Queuers
  <2>3. idx_thread_create' = idx_thread_create
    <3>1. AnswerGet => idx_thread_create' = idx_thread_create
      BY DEF AnswerGet, ClearChoosing, threads
    <3> QED
      BY <1>3, <3>1, AnsweredStep
  <2> QED
    BY <1>1, <2>2, <2>3
<1>4. ASSUME NEW c \in Clients, DispatchWait(c)
      PROVE  IsFiniteSet(Queuers') /\ Cardinality(Queuers') = idx_thread_create'
  <2>1. cpc[c] = "wait"
    BY <1>4, WaitIsProper DEF ReliableInv
  <2>2. Goes(c, "queued")
    <3>1. Answer(c, "wait", 0, 0)
      BY <1>4 DEF DispatchWait
    <3> QED
      BY <1>1, <2>1, <3>1, AnswerEffect, CallFacts, ReliableFacts
  <2>3. c \notin Queuers /\ Queuers' = Queuers \union {c}
    BY <2>1, <2>2 DEF Queuers, Goes
  <2>4. idx_thread_create' = idx_thread_create + 1
    BY <1>4 DEF DispatchWait, WaitQueue
  <2> QED
    BY <1>1, <2>3, <2>4, FS_AddElement
<1> QED
  BY <1>3, <1>4

LEMMA FinishersStep ==
  ASSUME Reliable, SysIInv, ReliableInv, SysNext
  PROVE  IsFiniteSet(Finishers') /\ Cardinality(Finishers') = idx_thread_join'
<1>1. SysTypeOK /\ IInv /\ IsFiniteSet(Finishers) /\ Cardinality(Finishers) = idx_thread_join
  BY DEF SysIInv, ReliableInv, CountInv
<1>2. ASSUME NEW c \in Clients
      PROVE  Moves(c) /\ ~Fails(c)
  BY ClientMoves, NobodyFails, ReliableFacts
<1>3. CASE ~AnswerRes
  <2>1. \A c \in Clients : c \in Finishers' <=> c \in Finishers
    BY <1>2, <1>3 DEF Moves, Finishers
  <2>2. Finishers' = Finishers
    BY <2>1 DEF Finishers
  <2> QED
    BY <1>1, <1>3, <2>2, LetterUnchanged
<1>4. CASE AnswerRes
  <2>1. caller \in Clients /\ cpc[caller] = "res" /\ Answer(caller, "res", 0, thread_res[idx_thread_join])
    BY <1>1, <1>4 DEF AnswerRes, Join, ReliableInv, SysTypeOK
  <2>2. Goes(caller, "finished")
    BY <1>1, <2>1, AnswerEffect, CallFacts, ReliableFacts
  <2>3. caller \notin Finishers /\ Finishers' = Finishers \union {caller}
    BY <2>1, <2>2 DEF Finishers, Goes
  <2>4. idx_thread_join' = idx_thread_join + 1
    BY <1>4, AnswerResGives
  <2> QED
    BY <1>1, <2>3, <2>4, FS_AddElement
<1> QED
  BY <1>3, <1>4

LEMMA ReliableStep ==
  ASSUME Reliable, SysIInv, ReliableInv, [SysNext]_sysvars PROVE ReliableInv'
<1>1. CASE SysNext
  <2>1. up'
    <3>1. \A c \in Clients : ~DispatchSurplusRes(c)
      BY NoSurplus
    <3>2. ASSUME NEW c \in Clients, Call(c) \/ Retransmit(c) \/ TimeOut(c) \/ Kill(c)
          PROVE  up' = up
      BY <3>2 DEF Call, Retransmit, TimeOut, Kill
    <3>3. ASSUME NEW c \in Clients, NEW call \in Calls, Lose(c, call) PROVE up' = up
      BY <3>3 DEF Lose
    <3>4. ASSUME NEW c \in Clients, DispatchGet(c) \/ DispatchWait(c) \/ DispatchRes(c) PROVE up' = up
      BY <3>4 DEF DispatchGet, DispatchWait, DispatchRes
    <3>5. Execute \/ AnswerGet \/ AnswerRes \/ (\E w \in Slots : Work(w)) => up' = up
      BY DEF Execute, AnswerGet, AnswerRes, Work
    <3> QED
      BY <1>1, <3>1, <3>2, <3>3, <3>4, <3>5, SysCases DEF ReliableInv
  <2>2. CountInv'
    BY <1>1, QueuersStep, FinishersStep DEF CountInv
  <2>3. dpc' = "join" => cpc'[caller'] = "res" /\ net'[caller']["res"] = 0
    BY <1>1, CallerStep
  <2> QED
    BY <1>1, <2>1, <2>2, <2>3, RequestsStep DEF ReliableInv, Waits, Asks
<1>2. CASE UNCHANGED sysvars
  <2>1. UNCHANGED <<vars, cpc, net, caller, up>>
    BY <1>2 DEF sysvars, clients
  <2>2. UNCHANGED <<dpc, idx_thread_create, idx_thread_join, Queuers, Finishers>>
    BY <2>1 DEF vars, threads, dispatcher, Queuers, Finishers
  <2> QED
    BY <2>1, <2>2 DEF ReliableInv, CountInv
<1> QED
  BY <1>1, <1>2

(* While no call but GET_NUMBER is repeated and no client fails, the k-th  *)
(* BAKERY_RES finds a k-th thread to join, and the server never calls      *)
(* pthread_join on a thread it has not started (line 112).                 *)
THEOREM StaysUp ==
  Retried \subseteq {"get"} /\ MaxFailures = 0 => (SysSpec => []ServerStaysUp)
<1> SUFFICES ASSUME Retried \subseteq {"get"}, MaxFailures = 0 PROVE SysSpec => []ServerStaysUp
  OBVIOUS
<1>1. Reliable /\ "wait" \notin Retried
  BY DEF Reliable
<1>2. SysIInv /\ ReliableInv /\ [SysNext]_sysvars => SysIInv' /\ ReliableInv'
  BY <1>1, ReliableStep, SysInvStep
<1>3. ReliableInv => ServerStaysUp
  BY DEF ReliableInv, ServerStaysUp
<1> QED
  BY <1>2, <1>3, SysInitInv, ReliableInit, PTL DEF SysSpec

-----------------------------------------------------------------------------
(* Only bakery() clears a number, and only that of its own ticket.         *)
LEMMA NumberStays ==
  ASSUME IInv, dpc = "join", [Next]_vars, NEW i \in Slots, number[i] > 0, i \notin Queued
  PROVE  number'[i] > 0
<1>1. TypeOK /\ ThreadInv
  BY DEF IInv
<1>2. CASE number' = number
  BY <1>2
<1>3. ASSUME NEW w \in Slots, Release(w) PROVE number'[i] > 0
  <2>1. w < idx_thread_create /\ w \in Nat /\ idx_thread_create \in Nat
    <3>1. wpc[w] # "none" /\ w \in Nat /\ idx_thread_create \in Nat
      BY <1>1, <1>3, SlotFacts, NAssumption DEF Release, TypeOK
    <3>2. ~(w >= idx_thread_create)
      BY <1>1, <3>1 DEF ThreadInv
    <3> QED
      BY <3>1, <3>2
  <2>2. w \in 0 .. idx_thread_create - 1
    BY <2>1
  <2>3. thread_id[w] # i
    BY <2>2 DEF Queued
  <2> QED
    BY <1>1, <1>3, <2>3 DEF Release, TypeOK
<1>4. ASSUME NEW w \in Slots, Bakery(w), ~Release(w) PROVE number' = number
  BY <1>4 DEF Bakery, AwaitChoosing, TestPositive, TestLess, TestEqual, TakeSymbol, BumpSymbol, tickets
<1>5. CASE Dispatcher
  BY <1>5 DEF Dispatcher, GetNumberStep, GetNumber, ScanCompare, ScanAssign, StoreNumber,
              ClearChoosing, WaitQueue, BakeryRes, Join, tickets
<1>6. CASE UNCHANGED vars
  BY <1>6 DEF vars, tickets
<1> QED
  BY <1>2, <1>3, <1>4, <1>5, <1>6 DEF Next

(* While the dispatcher joins a thread whose predecessor is not queued,    *)
(* nothing can queue that one, nor can the thread end.                     *)
LEMMA WedgedStep ==
  ASSUME SysIInv, Wedged, [SysNext]_sysvars PROVE Wedged'
<1>1. IInv /\ TypeOK /\ up /\ dpc = "join"
  BY DEF SysIInv, IInv, Wedged
<1>2. PICK i \in Slots : number[i] > 0 /\ i < thread_id[idx_thread_join] /\ i \notin Queued
  BY DEF Wedged
<1>3. CASE UNCHANGED sysvars
  BY <1>3 DEF sysvars, Wedged, Queued, vars, tickets, threads, dispatcher
<1>4. CASE SysNext
  <2>1. [Next]_vars
    BY <1>4, ServerStep
  <2>2. number'[i] > 0
    BY <1>1, <1>2, <2>1, NumberStays
  <2>3. ~Join
    <3>1. idx_thread_join \in Slots /\ wpc[idx_thread_join] # "done"
      <4>1. idx_thread_join \in Nat /\ idx_thread_join < N
        BY <1>1, NAssumption DEF IInv, TypeOK, ScanInv
      <4>2. idx_thread_join \in Slots
        BY <4>1, SlotFacts
      <4>3. wpc[idx_thread_join] = "done" => number[i] = 0
        BY <1>1, <1>2, <4>2 DEF IInv, PassageInv
      <4>4. number[i] # 0
        BY <1>1, <1>2 DEF TypeOK
      <4> QED
        BY <4>2, <4>3, <4>4
    <3> QED
      BY <3>1 DEF Join
  <2>4. /\ ~AnswerGet /\ ~AnswerRes /\ ~Execute
        /\ \A c \in Clients : ~DispatchGet(c) /\ ~DispatchWait(c) /\ ~DispatchRes(c) /\ ~DispatchSurplusRes(c)
    BY <1>1, <2>3 DEF AnswerGet, AnswerRes, Execute, DispatchGet, DispatchWait, DispatchRes,
         DispatchSurplusRes, ClearChoosing, ScanCompare, ScanAssign, StoreNumber,
         GetNumber, WaitQueue, BakeryRes
  <2>5. UNCHANGED <<up, dpc, thread_id, idx_thread_create, idx_thread_join>>
    <3>1. ASSUME NEW c \in Clients, Call(c) \/ Retransmit(c) \/ TimeOut(c) \/ Kill(c)
          PROVE  UNCHANGED <<up, dpc, thread_id, idx_thread_create, idx_thread_join>>
      BY <3>1 DEF Call, Retransmit, TimeOut, Kill, vars, threads, dispatcher
    <3>2. ASSUME NEW c \in Clients, NEW call \in Calls, Lose(c, call)
          PROVE  UNCHANGED <<up, dpc, thread_id, idx_thread_create, idx_thread_join>>
      BY <3>2 DEF Lose, vars, threads, dispatcher
    <3>3. ASSUME NEW w \in Slots, Work(w)
          PROVE  UNCHANGED <<up, dpc, thread_id, idx_thread_create, idx_thread_join>>
      BY <1>1, <3>3, BakeryStep DEF Work, threads, dispatcher, IInv
    <3> QED
      BY <1>4, <2>4, <3>1, <3>2, <3>3, SysCases
  <2> QED
    BY <1>1, <1>2, <2>2, <2>5 DEF Wedged, Queued
<1> QED
  BY <1>3, <1>4

(* Once the dispatcher waits in pthread_join (line 112) for a thread whose *)
(* predecessor has a number but is not queued, it waits for ever: that     *)
(* client's WAIT_QUEUE is behind the dispatcher.                           *)
THEOREM WedgedForGood == "wait" \notin Retried => (SysSpec => [](Wedged => []Wedged))
<1> SUFFICES ASSUME "wait" \notin Retried PROVE SysSpec => [](Wedged => []Wedged)
  OBVIOUS
<1>1. SysIInv /\ Wedged /\ [SysNext]_sysvars => Wedged'
  BY WedgedStep
<1>2. SysSpec => []SysIInv
  BY SysInvariance
<1> QED
  BY <1>1, <1>2, PTL DEF SysSpec

-----------------------------------------------------------------------------
(* An orphaned ticket is answered, not queued, and owned by nobody.        *)
LEMMA OrphanedMeans ==
  ASSUME IInv, ProtocolInv, NEW i \in Slots
  PROVE  Orphaned(i) <=> i < Answered /\ i \notin Queued /\ \A c \in Clients : Owns(c) => ticket[c] # i
<1>1. \A c \in Clients : WillQueue(c) <=> Owns(c)
  <2> SUFFICES ASSUME NEW c \in Clients PROVE WillQueue(c) <=> Owns(c)
    OBVIOUS
  <2>1. net[c]["wait"] \in {0, 1}
    BY DEF ProtocolInv
  <2> QED
    BY <2>1 DEF WillQueue, Owns
<1>2. i < Answered <=> i < num /\ (dpc \in Choosing => i # num - 1)
  <2>1. i \in Nat /\ num \in Nat
    BY AnsweredFacts, SlotFacts
  <2>2. CASE dpc \in Choosing
    <3>1. i < num - 1 <=> i < num /\ i # num - 1
      BY <2>1
    <3> QED
      BY <2>2, <3>1 DEF Answered
  <2>3. CASE dpc \notin Choosing
    BY <2>3 DEF Answered
  <2> QED
    BY <2>2, <2>3
<1> QED
  BY <1>1, <1>2 DEF Orphaned

(* A ticket that nobody will queue stays one.                              *)
LEMMA OrphanStep ==
  ASSUME "wait" \notin Retried, SysIInv, [SysNext]_sysvars, NEW i \in Slots, Orphaned(i)
  PROVE  Orphaned(i)'
<1>1. /\ i < Answered /\ i \notin Queued /\ i \in Int /\ Answered \in Int
      /\ \A c \in Clients : Owns(c) => ticket[c] # i
  BY OrphanedMeans, AnsweredFacts, SlotFacts DEF SysIInv
<1>2. SysTypeOK /\ IInv
  BY DEF SysIInv
<1>3. IInv' /\ ProtocolInv'
  BY SysInvStep DEF SysIInv
<1>4. (i < Answered /\ i \notin Queued /\ \A c \in Clients : Owns(c) => ticket[c] # i)' => Orphaned(i)'
  BY <1>3, OrphanedMeans, PTL
<1>5. CASE UNCHANGED sysvars
  BY <1>5 DEF sysvars, clients, vars, tickets, threads, dispatcher, Orphaned, WillQueue, Queued
<1>6. CASE SysNext /\ ~AnswerGet /\ \A c \in Clients : ~DispatchWait(c)
  <2>1. Answered' = Answered /\ ticket' = ticket /\ Queued' = Queued
    BY <1>6, AnsweredStep DEF Queued
  <2>2. \A c \in Clients : Owns(c)' => Owns(c)
    BY <1>6, OwnsStep
  <2> QED
    BY <1>1, <1>4, <2>1, <2>2
<1>7. CASE SysNext /\ AnswerGet
  <2>1. ClearChoosing /\ Answer(caller, "get", num - 1, 0) /\ caller \in Clients /\ num \in Nat
    BY <1>2, <1>7, AnsweredFacts DEF AnswerGet, SysTypeOK
  <2>2. Answered = num - 1 /\ Answered' = Answered + 1
    BY <2>1 DEF ClearChoosing, Answered, Choosing
  <2>3. Queued' = Queued
    BY <2>1 DEF ClearChoosing, threads, Queued
  <2>4. i < Answered' /\ i # num - 1
    BY <1>1, <2>2
  <2>5. ASSUME NEW c \in Clients, Owns(c)' PROVE ticket'[c] # i
    <3>1. Owns(c) \/ (c = caller /\ cpc[c] = "get" /\ cpc'[c] = "got")
      BY <1>7, <2>5, OwnsStep
    <3>2. CASE c = caller /\ cpc[c] = "get" /\ cpc'[c] = "got"
      BY <1>2, <2>1, <2>4, <3>2, AnswerEffect, CallFacts
    <3>3. CASE Owns(c) /\ ~(c = caller /\ cpc[c] = "get" /\ cpc'[c] = "got")
      <4>1. ticket'[c] = ticket[c]
        BY <1>2, <2>1, <3>3, AnswerEffect, CallFacts DEF Goes
      <4> QED
        BY <1>1, <3>3, <4>1
    <3> QED
      BY <3>1, <3>2, <3>3
  <2> QED
    BY <1>1, <1>4, <2>3, <2>4, <2>5
<1>8. ASSUME SysNext, NEW c \in Clients, DispatchWait(c) PROVE Orphaned(i)'
  <2>1. WaitQueue(ticket[c]) /\ Owns(c) /\ Answer(c, "wait", 0, 0)
    BY <1>8, WaitIsProper DEF DispatchWait
  <2>2. ~AnswerGet
    BY <2>1 DEF AnswerGet, ClearChoosing, WaitQueue
  <2>3. \A d \in Clients : Owns(d)' => Owns(d)
    BY <1>8, <2>2, OwnsStep
  <2>4. Answered' = Answered
    BY <2>1 DEF WaitQueue, tickets, dispatcher, Answered
  <2>5. ticket' = ticket
    <3>1. ticket' = [ticket EXCEPT ![c] = ticket[c]] \/ ticket' = ticket
      BY <2>1 DEF Answer, clients
    <3> QED
      BY <1>2, <3>1 DEF SysTypeOK
  <2>6. Queued' = Queued \union {ticket[c]}
    BY <1>2, <2>1, QueuedStep
  <2> QED
    BY <1>1, <1>4, <2>1, <2>3, <2>4, <2>5, <2>6
<1> QED
  BY <1>5, <1>6, <1>7, <1>8

(* Its number keeps every later thread in the loop of bakery().            *)
LEMMA OrphanKeepsOut ==
  ASSUME SysIInv, NEW i \in Slots, Orphaned(i) PROVE LaterAreNotServed(i)
<1>1. IInv /\ TypeOK /\ i \notin Queued /\ i < Answered
  BY OrphanedMeans DEF SysIInv, IInv
<1>2. number[i] > 0
  <2>1. i \in Int /\ Answered \in Int /\ num \in Int /\ Issued \in Int /\ Answered <= Issued
    BY <1>1, AnsweredFacts, SlotFacts DEF Answered, Issued, Choosing
  <2>2. i < Issued
    BY <1>1, <2>1
  <2> QED
    BY <1>1, <2>2 DEF IInv, ThreadInv
<1> SUFFICES ASSUME NEW w \in Slots, wpc[w] \in Inside \union {"done"} PROVE thread_id[w] < i
  BY DEF LaterAreNotServed
<1>3. thread_id[w] # i
  <2>1. wpc[w] # "none" /\ w \in Nat /\ idx_thread_create \in Nat
    BY <1>1, SlotFacts, NAssumption DEF TypeOK, Inside
  <2>2. ~(w >= idx_thread_create)
    BY <1>1, <2>1 DEF IInv, ThreadInv
  <2>3. w \in 0 .. idx_thread_create - 1
    BY <2>1, <2>2
  <2> QED
    BY <1>1, <2>3 DEF Queued
<1>4. ~(i < thread_id[w])
  <2>1. i < thread_id[w] => number[i] = 0
    BY <1>1 DEF IInv, PassageInv
  <2>2. number[i] # 0
    BY <1>1, <1>2 DEF TypeOK
  <2> QED
    BY <2>1, <2>2
<1>5. i \in Nat /\ thread_id[w] \in Nat
  BY <1>1, SlotFacts DEF TypeOK
<1> QED
  BY <1>3, <1>4, <1>5

(* The server numbers a ticket for every GET_NUMBER it executes and takes  *)
(* none back (lines 35-50, 62-66): one whose client is gone before it is   *)
(* queued keeps all later customers waiting for ever.                      *)
THEOREM OrphansBlockForGood == "wait" \notin Retried => (SysSpec => OrphansBlock)
<1> SUFFICES ASSUME "wait" \notin Retried PROVE SysSpec => OrphansBlock
  OBVIOUS
<1>1. SysSpec => []SysIInv
  BY SysInvariance
<1> DEFINE KeepOut == \A i \in Slots : Orphaned(i) => LaterAreNotServed(i)
<1>2. SysIInv => KeepOut
  BY OrphanKeepsOut
<1>3. SysIInv /\ KeepOut' /\ [SysNext]_sysvars =>
        [\A i \in Slots : Orphaned(i) => Orphaned(i)' /\ LaterAreNotServed(i)']_sysvars
  <2> SUFFICES ASSUME SysIInv, KeepOut', [SysNext]_sysvars, NEW i \in Slots, Orphaned(i)
               PROVE  Orphaned(i)' /\ LaterAreNotServed(i)'
    OBVIOUS
  <2>1. Orphaned(i)'
    BY OrphanStep
  <2>2. LaterAreNotServed(i)'
    BY <2>1
  <2> QED
    BY <2>1, <2>2
<1> QED
  BY <1>1, <1>2, <1>3, PTL DEF SysSpec, OrphansBlock

-----------------------------------------------------------------------------
(* The GET_NUMBERs of c that are on their way, and those it may still send. *)
MayStillSend(c) ==
  IF cpc[c] = "start" THEN MaxSends ELSE IF cpc[c] = "get" THEN MaxSends - sends[c] ELSE 0
Outstanding(c) == net[c]["get"] + MayStillSend(c)

(* One element for each of them. *)
Debt == {p \in Clients \X (1 .. MaxSends) : p[2] <= Outstanding(p[1])}

(* Tickets taken and tickets that may still be asked for; threads started. *)
DebtInv ==
  /\ \A c \in Clients : Outstanding(c) <= MaxSends
  /\ num + Cardinality(Debt) <= Cardinality(Clients) * MaxSends
  /\ IsFiniteSet(Queued) /\ Cardinality(Queued) = idx_thread_create

LEMMA OutstandingFacts ==
  ASSUME SysTypeOK, NEW c \in Clients
  PROVE  /\ net[c]["get"] \in Nat /\ MayStillSend(c) \in 0 .. MaxSends /\ Outstanding(c) \in Nat
         /\ MaxSends \in Nat /\ MaxSends > 0 /\ sends[c] \in 0 .. MaxSends
<1>1. net[c]["get"] \in Nat
  <2>1. net[c] \in [Calls -> Nat]
    BY DEF SysTypeOK
  <2> QED
    BY <2>1, CallFacts
<1>2. MaxSends \in Nat /\ MaxSends > 0 /\ sends[c] \in 0 .. MaxSends
  BY SystemAssumption DEF SysTypeOK
<1>3. MayStillSend(c) \in 0 .. MaxSends
  BY <1>2 DEF MayStillSend
<1> QED
  BY <1>1, <1>2, <1>3 DEF Outstanding

(* No step adds a GET_NUMBER to those a client may have executed, and      *)
(* executing one takes it away.                                            *)
LEMMA OutstandingStep ==
  ASSUME SysIInv, SysNext, SysTypeOK', NEW c \in Clients
  PROVE  /\ Outstanding(c) \in Nat /\ Outstanding(c)' \in Nat /\ MaxSends \in Nat
         /\ Outstanding(c)' <= Outstanding(c)
         /\ DispatchGet(c) => Outstanding(c)' < Outstanding(c) /\ Outstanding(c) > 0
<1> DEFINE n == net[c]["get"]
           m == MayStillSend(c)
<1>1. SysTypeOK /\ IInv /\ DOMAIN cpc = Clients /\ DOMAIN sends = Clients
  BY DEF SysIInv, SysTypeOK
<1>2. n \in Nat /\ m \in 0 .. MaxSends /\ MaxSends \in Nat /\ Outstanding(c) = n + m /\ sends[c] \in 0 .. MaxSends
  BY <1>1, OutstandingFacts DEF Outstanding
<1>3. n' \in Nat /\ m' \in 0 .. MaxSends /\ Outstanding(c)' = n' + m'
  <2>1. net'[c] \in [Calls -> Nat] /\ sends'[c] \in 0 .. MaxSends
    BY DEF SysTypeOK
  <2>2. net'[c]["get"] \in Nat
    BY <2>1, CallFacts
  <2>3. m' \in 0 .. MaxSends
    BY <1>2, <2>1 DEF MayStillSend
  <2> QED
    BY <2>2, <2>3 DEF Outstanding
<1>4. m' = IF cpc'[c] = "start" THEN MaxSends ELSE IF cpc'[c] = "get" THEN MaxSends - sends'[c] ELSE 0
  BY DEF MayStillSend
<1>5. m = IF cpc[c] = "start" THEN MaxSends ELSE IF cpc[c] = "get" THEN MaxSends - sends[c] ELSE 0
  BY DEF MayStillSend
<1>6. ASSUME NEW d \in Clients, NEW k \in Calls, NEW e, Counts(d, k, e), d # c \/ k # "get"
      PROVE  n' = n
  BY <1>6, CallFacts DEF Counts
<1> HIDE DEF n, m
<1> DEFINE Less == n' + m' <= n + m
<1>7. ASSUME NEW d \in Clients, Call(d) PROVE Less
  <2> DEFINE k == NextCall[cpc[d]]
  <2>1. k \in Calls /\ cpc[d] \in {"start", "got", "queued"} /\ (k = "get" <=> cpc[d] = "start")
    BY <1>7, CallFacts DEF Call
  <2>2. Counts(d, k, 1) /\ cpc' = [cpc EXCEPT ![d] = k] /\ sends' = [sends EXCEPT ![d] = 1]
    BY <1>1, <1>7, <2>1, Sends DEF Call
  <2> HIDE DEF k
  <2>3. CASE d # c
    <3>1. n' = n /\ cpc'[c] = cpc[c] /\ sends'[c] = sends[c]
      BY <1>1, <1>6, <2>1, <2>2, <2>3
    <3> QED
      BY <1>2, <1>4, <1>5, <3>1
  <2>4. CASE d = c /\ cpc[c] = "start"
    <3>1. n' = n + 1
      BY <2>1, <2>2, <2>4, CallFacts DEF Counts, n
    <3>2. cpc'[c] = "get" /\ sends'[c] = 1
      BY <1>1, <2>1, <2>2, <2>4
    <3>3. m' = MaxSends - 1 /\ m = MaxSends
      BY <1>4, <1>5, <2>4, <3>2
    <3> QED
      BY <1>2, <3>1, <3>3
  <2>5. CASE d = c /\ cpc[c] # "start"
    <3>1. n' = n
      BY <1>6, <2>1, <2>2, <2>5
    <3>2. cpc'[c] # "start" /\ cpc'[c] # "get"
      BY <1>1, <2>1, <2>2, <2>5 DEF Calls
    <3>3. m' = 0
      BY <1>4, <3>2
    <3> QED
      BY <1>2, <3>1, <3>3
  <2> QED
    BY <2>3, <2>4, <2>5
<1>8. ASSUME NEW d \in Clients, Retransmit(d) PROVE Less
  <2>1. cpc[d] \in Calls /\ cpc' = cpc /\ sends' = [sends EXCEPT ![d] = sends[d] + 1]
    BY <1>8, SystemAssumption DEF Retransmit
  <2>2. Counts(d, cpc[d], 1)
    BY <1>1, <1>8, <2>1, Sends DEF Retransmit
  <2>3. CASE d = c /\ cpc[c] = "get"
    <3>1. n' = n + 1
      BY <2>2, <2>3, CallFacts DEF Counts, n
    <3>2. m = MaxSends - sends[c] /\ m' = MaxSends - (sends[c] + 1)
      BY <1>1, <1>4, <1>5, <2>1, <2>3
    <3> QED
      BY <1>2, <3>1, <3>2
  <2>4. CASE d = c /\ cpc[c] # "get"
    <3>1. n' = n /\ m' = m
      BY <1>4, <1>5, <1>6, <2>1, <2>2, <2>4 DEF Calls
    <3> QED
      BY <1>2, <3>1
  <2>5. CASE d # c
    <3>1. n' = n /\ sends'[c] = sends[c]
      BY <1>1, <1>6, <2>1, <2>2, <2>5
    <3>2. m' = m
      BY <1>4, <1>5, <2>1, <3>1
    <3> QED
      BY <1>2, <3>1, <3>2
  <2> QED
    BY <2>3, <2>4, <2>5
<1>9. ASSUME n' <= n, (cpc'[c] = cpc[c] /\ sends'[c] = sends[c]) \/ cpc'[c] \notin {"start", "get"}
      PROVE  Less
  <2>1. m' <= m
    BY <1>2, <1>4, <1>5, <1>9
  <2>2. n' <= n
    BY <1>9
  <2>3. n \in Int /\ m \in Int /\ n' \in Int /\ m' \in Int
    BY <1>2, <1>3
  <2>4. \A a, b, x, y \in Int : a <= x /\ b <= y => a + b <= x + y
    OBVIOUS
  <2> QED
    BY <2>1, <2>2, <2>3, <2>4
<1>10. ASSUME NEW d \in Clients, TimeOut(d) \/ Kill(d) PROVE Less
  <2>1. n' = n /\ sends' = sends
    BY <1>10 DEF TimeOut, Kill, n
  <2>2. cpc'[c] = cpc[c] \/ cpc'[c] \in {"queued", "dead"}
    BY <1>1, <1>10 DEF TimeOut, Kill
  <2>3. n' <= n
    BY <1>2, <2>1
  <2> QED
    BY <1>9, <2>1, <2>2, <2>3
<1>11. ASSUME NEW d \in Clients, NEW k \in Calls, Counts(d, k, -1) PROVE n' <= n
  <2>1. CASE d = c /\ k = "get"
    <3>1. n' = n + (-1)
      BY <1>11, <2>1, CallFacts DEF Counts, n
    <3> QED
      BY <1>2, <3>1
  <2>2. CASE d # c \/ k # "get"
    BY <1>2, <1>6, <1>11, <2>2
  <2> QED
    BY <2>1, <2>2
<1>12. ASSUME NEW d \in Clients, NEW call \in Calls, Lose(d, call) PROVE Less
  <2>1. Counts(d, call, -1) /\ cpc' = cpc /\ sends' = sends
    BY <1>1, <1>12, Takes DEF Lose, clients
  <2> QED
    BY <1>9, <1>11, <2>1
<1>13. ASSUME NEW d \in Clients, DispatchGet(d) \/ DispatchRes(d) \/ DispatchSurplusRes(d) PROVE Less
  <2>1. cpc' = cpc /\ sends' = sends
    BY <1>13 DEF DispatchGet, DispatchRes, DispatchSurplusRes, clients
  <2>2. Counts(d, "get", -1) \/ Counts(d, "res", -1)
    BY <1>1, <1>13, Takes, CallFacts DEF DispatchGet, DispatchRes, DispatchSurplusRes, Take
  <2> QED
    BY <1>9, <1>11, <2>1, <2>2, CallFacts
<1>14. ASSUME NEW d \in Clients, NEW call \in Calls, NEW got, NEW given, Answer(d, call, got, given)
       PROVE  sends' = sends /\ (cpc'[c] = cpc[c] \/ cpc'[c] \notin {"start", "get"})
  <2>1. sends' = sends
    BY <1>1, <1>14, AnswerEffect
  <2>2. After[call] \notin {"start", "get"}
    BY CallFacts DEF Calls
  <2> QED
    BY <1>1, <1>14, <2>1, <2>2, AnswerEffect DEF Goes
<1>15. ASSUME NEW d \in Clients, DispatchWait(d) PROVE Less
  <2>1. Counts(d, "wait", -1) /\ Answer(d, "wait", 0, 0)
    BY <1>1, <1>15, Takes, CallFacts DEF DispatchWait, Take
  <2> QED
    BY <1>9, <1>11, <1>14, <2>1, CallFacts
<1>16. ASSUME AnswerGet \/ AnswerRes PROVE Less
  <2>1. net' = net /\ caller \in Clients
    BY <1>1, <1>16 DEF AnswerGet, AnswerRes, SysTypeOK
  <2>2. n' <= n
    BY <1>2, <2>1 DEF n
  <2>3. CASE AnswerGet
    <3>1. Answer(caller, "get", num - 1, 0)
      BY <2>3 DEF AnswerGet
    <3>2. sends' = sends /\ (cpc'[c] = cpc[c] \/ cpc'[c] \notin {"start", "get"})
      BY <1>1, <2>1, <3>1, AnswerEffect, CallFacts DEF Goes
    <3> QED
      BY <1>9, <2>2, <3>2
  <2>4. CASE AnswerRes
    <3>1. Answer(caller, "res", 0, thread_res[idx_thread_join])
      BY <2>4 DEF AnswerRes
    <3>2. sends' = sends /\ (cpc'[c] = cpc[c] \/ cpc'[c] \notin {"start", "get"})
      BY <1>1, <2>1, <3>1, AnswerEffect, CallFacts DEF Goes
    <3> QED
      BY <1>9, <2>2, <3>2
  <2> QED
    BY <1>16, <2>3, <2>4
<1>17. ASSUME Execute \/ \E w \in Slots : Work(w) PROVE Less
  <2>1. net' = net /\ cpc' = cpc /\ sends' = sends
    BY <1>17 DEF Execute, Work, clients
  <2>2. n' <= n
    BY <1>2, <2>1 DEF n
  <2> QED
    BY <1>9, <2>1, <2>2
<1>18. Less
  BY <1>7, <1>8, <1>10, <1>12, <1>13, <1>15, <1>16, <1>17, SysCases
<1>19. ASSUME DispatchGet(c) PROVE n' + m' < n + m /\ n + m > 0
  <2>1. n > 0 /\ Counts(c, "get", -1) /\ cpc' = cpc /\ sends' = sends
    BY <1>1, <1>19, Takes, CallFacts DEF DispatchGet, Take, clients, n
  <2>2. n' = n + (-1)
    BY <2>1 DEF Counts, n
  <2>3. m' = m
    BY <1>4, <1>5, <2>1
  <2> QED
    BY <1>2, <2>1, <2>2, <2>3
<1> QED
  <2>1. Outstanding(c) \in Nat /\ MaxSends \in Nat
    BY <1>2
  <2>2. Outstanding(c)' \in Nat
    <3>1. \A a \in Nat, b \in 0 .. MaxSends : a + b \in Nat
      BY <1>2
    <3> QED
      BY <1>3, <3>1
  <2>3. Outstanding(c)' <= Outstanding(c)
    BY <1>2, <1>3, <1>18 DEF Less
  <2>4. DispatchGet(c) => Outstanding(c)' < Outstanding(c) /\ Outstanding(c) > 0
    BY <1>2, <1>3, <1>19
  <2> QED
    BY <2>1, <2>2, <2>3, <2>4

(* A ticket is taken by the execution of a GET_NUMBER only.                *)
LEMMA NumStep ==
  ASSUME SysIInv, SysNext
  PROVE  num' = num \/ \E c \in Clients : DispatchGet(c) /\ num' = num + 1
<1>1. ASSUME NEW c \in Clients, Call(c) \/ Retransmit(c) \/ TimeOut(c) \/ Kill(c) \/ DispatchSurplusRes(c)
      PROVE  num' = num
  BY <1>1 DEF Call, Retransmit, TimeOut, Kill, DispatchSurplusRes, vars, tickets
<1>2. ASSUME NEW c \in Clients, NEW call \in Calls, Lose(c, call) PROVE num' = num
  BY <1>2 DEF Lose, vars, tickets
<1>3. ASSUME NEW w \in Slots, Work(w) PROVE num' = num
  BY <1>3, BakeryStep DEF Work, SysIInv, IInv
<1>4. ASSUME Execute \/ AnswerGet \/ AnswerRes PROVE num' = num
  BY <1>4 DEF Execute, ScanCompare, ScanAssign, StoreNumber, AnswerGet, ClearChoosing, AnswerRes, Join, tickets
<1>5. ASSUME NEW c \in Clients, DispatchWait(c) \/ DispatchRes(c) PROVE num' = num
  BY <1>5 DEF DispatchWait, WaitQueue, DispatchRes, BakeryRes, tickets
<1>6. ASSUME NEW c \in Clients, DispatchGet(c) PROVE num' = num + 1
  BY <1>6 DEF DispatchGet, GetNumber
<1> QED
  BY <1>1, <1>2, <1>3, <1>4, <1>5, <1>6, SysCases

LEMMA DebtFinite ==
  ASSUME IsFiniteSet(Clients)
  PROVE  /\ IsFiniteSet(Debt) /\ Cardinality(Debt) \in Nat
         /\ Cardinality(Debt) <= Cardinality(Clients) * MaxSends
         /\ Cardinality(Clients) * MaxSends \in Nat
<1>1. MaxSends \in Nat /\ IsFiniteSet(1 .. MaxSends) /\ Cardinality(1 .. MaxSends) = MaxSends
  BY SystemAssumption, FS_Interval
<1>2. /\ IsFiniteSet(Clients \X (1 .. MaxSends))
      /\ Cardinality(Clients \X (1 .. MaxSends)) = Cardinality(Clients) * MaxSends
  BY <1>1, FS_Product
<1>3. Debt \in SUBSET (Clients \X (1 .. MaxSends))
  BY DEF Debt
<1> QED
  BY <1>2, <1>3, FS_Subset, FS_CardinalityType

(* The threads started are as many as the tickets queued.                  *)
LEMMA QueuedCountStep ==
  ASSUME SysIInv, SysNext, "wait" \notin Retried,
         IsFiniteSet(Queued), Cardinality(Queued) = idx_thread_create
  PROVE  (IsFiniteSet(Queued) /\ Cardinality(Queued) = idx_thread_create)'
<1>1. CASE \A c \in Clients : ~DispatchWait(c)
  <2>1. UNCHANGED <<idx_thread_create, thread_id>>
    <3>1. CASE AnswerGet
      BY <3>1 DEF AnswerGet, ClearChoosing, threads
    <3>2. CASE ~AnswerGet
      BY <1>1, <3>2, AnsweredStep
    <3> QED
      BY <3>1, <3>2
  <2>2. Queued' = Queued
    BY <2>1 DEF Queued
  <2> QED
    BY <2>1, <2>2
<1>2. ASSUME NEW c \in Clients, DispatchWait(c)
      PROVE  (IsFiniteSet(Queued) /\ Cardinality(Queued) = idx_thread_create)'
  <2>1. ticket[c] \notin Queued /\ WaitQueue(ticket[c]) /\ IInv
    BY <1>2, WaitIsProper DEF SysIInv
  <2>2. Queued' = Queued \union {ticket[c]}
    BY <2>1, QueuedStep
  <2>3. idx_thread_create' = idx_thread_create + 1
    BY <2>1 DEF WaitQueue
  <2> QED
    BY <2>1, <2>2, <2>3, FS_AddElement
<1> QED
  BY <1>1, <1>2

LEMMA DebtStep ==
  ASSUME "wait" \notin Retried, IsFiniteSet(Clients), SysIInv, DebtInv, [SysNext]_sysvars
  PROVE  DebtInv'
<1> DEFINE B == Cardinality(Clients) * MaxSends
           C == Cardinality(Debt)
<1>1. CASE UNCHANGED sysvars
  BY <1>1 DEF sysvars, clients, vars, tickets, threads, DebtInv, Debt, Outstanding, MayStillSend, Queued
<1>2. CASE SysNext
  <2>1. SysTypeOK /\ SysTypeOK' /\ num \in Nat
    <3>1. SysIInv'
      BY SysInvStep
    <3> QED
      BY <3>1, AnsweredFacts DEF SysIInv
  <2>2. \A c \in Clients : Outstanding(c)' <= Outstanding(c) /\ Outstanding(c) <= MaxSends
    BY <1>2, <2>1, OutstandingStep DEF DebtInv
  <2>3. \A c \in Clients : Outstanding(c) \in Nat /\ Outstanding(c)' \in Nat /\ MaxSends \in Nat
    BY <1>2, <2>1, OutstandingStep
  <2>4. \A c \in Clients : Outstanding(c)' <= MaxSends
    BY <2>2, <2>3
  <2>5. Debt' \subseteq Debt
    <3> SUFFICES ASSUME NEW p \in Debt' PROVE p \in Debt
      OBVIOUS
    <3>1. p \in Clients \X (1 .. MaxSends) /\ p[2] <= Outstanding(p[1])'
      BY DEF Debt
    <3>2. p[1] \in Clients /\ p[2] \in Int
      BY <2>3, <3>1
    <3>3. p[2] <= Outstanding(p[1])
      BY <2>2, <2>3, <3>1, <3>2
    <3> QED
      BY <3>1, <3>3 DEF Debt
  <2>6. IsFiniteSet(Debt) /\ C \in Nat /\ C' \in Nat /\ B \in Nat
    <3>1. IsFiniteSet(Debt) /\ C \in Nat /\ B \in Nat
      BY DebtFinite
    <3>2. IsFiniteSet(Debt')
      BY <2>5, <3>1, FS_Subset
    <3> QED
      BY <3>1, <3>2, FS_CardinalityType
  <2>7. num + C <= B
    BY DEF DebtInv
  <2>8. num' + C' <= B
    <3>1. CASE num' = num
      <4>1. C' <= C
        BY <2>5, <2>6, FS_Subset
      <4>2. \A n, x, y, b \in Nat : n + x <= b /\ y <= x => n + y <= b
        OBVIOUS
      <4> HIDE DEF C, B
      <4> QED
        BY <2>1, <2>6, <2>7, <3>1, <4>1, <4>2
    <3>2. ASSUME NEW c \in Clients, DispatchGet(c), num' = num + 1 PROVE num' + C' <= B
      <4> DEFINE p == <<c, Outstanding(c)>>
      <4>1. Outstanding(c)' < Outstanding(c) /\ Outstanding(c) > 0
        BY <1>2, <2>1, <3>2, OutstandingStep
      <4>2. p \in Debt
        BY <2>2, <2>3, <4>1 DEF Debt
      <4>3. p \notin Debt'
        BY <2>3, <4>1 DEF Debt
      <4>4. Debt' \in SUBSET (Debt \ {p})
        BY <2>5, <4>3
      <4>5. IsFiniteSet(Debt \ {p}) /\ Cardinality(Debt \ {p}) = C - 1
        BY <2>6, <4>2, FS_RemoveElement
      <4>6. C' <= C - 1
        BY <4>4, <4>5, FS_Subset
      <4>7. \A n, x, y, b \in Nat : n + x <= b /\ y <= x - 1 => n + 1 + y <= b
        OBVIOUS
      <4> HIDE DEF C, B
      <4> QED
        BY <2>1, <2>6, <2>7, <3>2, <4>6, <4>7
    <3> QED
      BY <1>2, <3>1, <3>2, NumStep
  <2>9. (IsFiniteSet(Queued) /\ Cardinality(Queued) = idx_thread_create)'
    BY <1>2, QueuedCountStep DEF DebtInv
  <2> QED
    BY <2>4, <2>8, <2>9 DEF DebtInv
<1> QED
  BY <1>1, <1>2

LEMMA DebtInit ==
  ASSUME IsFiniteSet(Clients), SysInit PROVE DebtInv
<1>1. SysTypeOK
  BY SysInitInv DEF SysIInv
<1>2. \A c \in Clients : Outstanding(c) <= MaxSends
  <2> SUFFICES ASSUME NEW c \in Clients PROVE Outstanding(c) <= MaxSends
    OBVIOUS
  <2>1. net[c]["get"] = 0 /\ MayStillSend(c) = MaxSends /\ MaxSends \in Nat
    BY CallFacts, SystemAssumption DEF SysInit, MayStillSend
  <2> QED
    BY <2>1 DEF Outstanding
<1>3. num + Cardinality(Debt) <= Cardinality(Clients) * MaxSends
  <2>1. num = 0
    BY DEF SysInit, Init
  <2> QED
    BY <2>1, DebtFinite
<1>4. Queued = {} /\ idx_thread_create = 0
  BY DEF SysInit, Init, Queued
<1> QED
  BY <1>2, <1>3, <1>4, FS_EmptySet DEF DebtInv

(* Arrays with a slot for every datagram that the clients may send for     *)
(* GET_NUMBER are never used up: get_number (lines 39-42) and wait_queue   *)
(* (lines 93-99), which do not look, always find a slot, and no index ever *)
(* leaves them.                                                            *)
THEOREM ArraysSuffice ==
  ASSUME "wait" \notin Retried, IsFiniteSet(Clients), Cardinality(Clients) * MaxSends <= N
  PROVE  SysSpec => []InArrays
<1>1. SysSpec => []SysIInv
  BY SysInvariance
<1>2. SysInit => DebtInv
  BY DebtInit
<1>3. SysIInv /\ DebtInv /\ [SysNext]_sysvars => DebtInv'
  BY DebtStep
<1>4. SysIInv /\ DebtInv => EnoughSlots
  <2> SUFFICES ASSUME SysIInv, DebtInv, NEW c \in Clients
               PROVE  (net[c]["get"] > 0 => num < N) /\ (net[c]["wait"] > 0 => idx_thread_create < N)
    BY DEF EnoughSlots
  <2>1. SysTypeOK /\ IInv /\ num \in Nat /\ N \in Nat
    BY AnsweredFacts, NAssumption DEF SysIInv
  <2>2. ASSUME net[c]["get"] > 0 PROVE num < N
    <3> DEFINE C == Cardinality(Debt)
               B == Cardinality(Clients) * MaxSends
    <3>1. Outstanding(c) \in Nat /\ Outstanding(c) > 0 /\ Outstanding(c) <= MaxSends /\ MaxSends \in Nat
      BY <2>1, <2>2, OutstandingFacts DEF Outstanding, DebtInv
    <3>2. <<c, Outstanding(c)>> \in Debt
      BY <3>1 DEF Debt
    <3>3. C \in Nat /\ C # 0 /\ B \in Nat
      BY <3>2, DebtFinite, FS_EmptySet
    <3>4. num + C <= B /\ B <= N
      BY DEF DebtInv
    <3> HIDE DEF C, B
    <3> QED
      BY <2>1, <3>3, <3>4
  <2>3. ASSUME net[c]["wait"] > 0 PROVE idx_thread_create < N
    <3>1. net[c]["wait"] = 1
      BY <2>3 DEF SysIInv, ProtocolInv
    <3>2. ticket[c] \in Slots /\ ticket[c] \notin Queued
      BY <3>1 DEF SysIInv, TicketInv, Owns, SysTypeOK
    <3>3. Queued \subseteq Slots
      BY <2>1, SlotFacts, NAssumption DEF Queued, IInv, TypeOK
    <3>4. IsFiniteSet(Slots) /\ Cardinality(Slots) = N
      BY NAssumption, FS_Interval DEF Slots
    <3>5. Queued \union {ticket[c]} \in SUBSET Slots
      BY <3>2, <3>3
    <3>6. Cardinality(Queued \union {ticket[c]}) = idx_thread_create + 1
      BY <3>2, FS_AddElement DEF DebtInv
    <3>7. idx_thread_create + 1 <= N
      BY <3>4, <3>5, <3>6, FS_Subset
    <3> QED
      BY <2>1, <3>7 DEF IInv, TypeOK
  <2> QED
    BY <2>2, <2>3
<1>5. SysIInv /\ DebtInv => InArrays
  BY <1>4 DEF SysIInv, InArrays
<1> QED
  BY <1>1, <1>2, <1>3, <1>5, PTL DEF SysSpec

=============================================================================
