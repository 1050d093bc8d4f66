---------------------------- MODULE BakeryServer ----------------------------
(***************************************************************************)
(* The server of unix-lab-06/bakery: one dispatcher thread (svc_run) that  *)
(* runs the three remote procedures one after another, and the threads     *)
(* that wait_queue_1_svc starts, each running bakery().                    *)
(*                                                                         *)
(* The build has no -O flag (Makefile.bakery), so every load and store of  *)
(* a shared variable in the source happens where it is written.  An action *)
(* makes at most one access to memory that two threads share; private      *)
(* computation is folded into the access next to it.  In particular both   *)
(* loads of number[j] in get_number, and the three loads in the second     *)
(* while of bakery(), are steps of their own.                              *)
(***************************************************************************)
EXTENDS Integers

CONSTANT N      (* the length of choosing, number, workers: 30 in the code *)

ASSUME NAssumption == N \in Nat \ {0}

VARIABLES
  choosing,           (* choosing[30]                                      *)
  number,             (* number[30]; 0 is "no ticket"                      *)
  num,                (* the next slot get_number hands out                *)
  symbol,             (* the next letter                                   *)
  idx_thread_create,  (* the next index of threads_results and workers     *)
  idx_thread_join,    (* the next thread bakery_res_1_svc joins            *)
  thread_id,          (* threads_results[w].id                             *)
  thread_res,         (* threads_results[w].res                            *)
  dpc, scan, max,     (* the dispatcher: its place, and get_number's j, max *)
  wpc, wscan          (* the threads: the place and the j of each bakery() *)

tickets == <<choosing, number, num>>
threads == <<idx_thread_create, idx_thread_join, thread_id>>
served == <<symbol, thread_res>>
dispatcher == <<dpc, scan, max>>
workers == <<wpc, wscan>>
vars == <<tickets, threads, served, dispatcher, workers>>

Slots == 0 .. N - 1
FirstSymbol == 97       \* 'a'

(* The places of get_number after choosing[i] = 1, and of a live thread.   *)
Choosing == {"compare", "assign", "store", "publish"}
Waiting == {"choosing", "positive", "less", "equal"}
Inside == {"take", "bump", "release"}
Active == Waiting \union Inside

Init ==
  /\ choosing = [i \in Slots |-> FALSE]
  /\ number = [i \in Slots |-> 0]
  /\ num = 0
  /\ symbol = FirstSymbol
  /\ idx_thread_create = 0
  /\ idx_thread_join = 0
  /\ thread_id = [w \in Slots |-> 0]
  /\ thread_res = [w \in Slots |-> 0]
  /\ dpc = "idle"
  /\ scan = 0
  /\ max = 0
  /\ wpc = [w \in Slots |-> "none"]
  /\ wscan = [w \in Slots |-> 0]

-----------------------------------------------------------------------------
(* get_number_1_svc -> get_number: take slot i = num, raise choosing[i].   *)
(* The guard num < N is the bound of the model: the code has none, and     *)
(* takes a slot past its arrays (see EnoughSlots in BakerySystem).         *)
GetNumber ==
  /\ dpc = "idle"
  /\ num < N
  /\ num' = num + 1
  /\ choosing' = [choosing EXCEPT ![num] = TRUE]
  /\ dpc' = "compare"
  /\ scan' = 0
  /\ max' = 0
  /\ UNCHANGED <<number, threads, served, workers>>

(* Mutant: max = number[j] for every j, also where it makes max fall back. *)
ScanCompareNot ==
  /\ dpc = "compare"
  /\ dpc' = "assign"
  /\ UNCHANGED <<tickets, threads, served, workers, scan, max>>

(* if (number[j] > max): the first load of number[j]. *)
ScanCompare ==
  /\ dpc = "compare"
  /\ \/ /\ number[scan] > max
        /\ dpc' = "assign"
        /\ UNCHANGED scan
     \/ /\ number[scan] <= max
        /\ scan' = scan + 1
        /\ dpc' = IF scan + 1 = N THEN "store" ELSE "compare"
  /\ UNCHANGED <<tickets, threads, served, workers, max>>

(* max = number[j]: the second load, which a release may have preceded.    *)
ScanAssign ==
  /\ dpc = "assign"
  /\ max' = number[scan]
  /\ scan' = scan + 1
  /\ dpc' = IF scan + 1 = N THEN "store" ELSE "compare"
  /\ UNCHANGED <<tickets, threads, served, workers>>

(* Mutant: number[i] = max. *)
StoreMax ==
  /\ dpc = "store"
  /\ number' = [number EXCEPT ![num - 1] = max]
  /\ dpc' = "publish"
  /\ UNCHANGED <<choosing, num, threads, served, workers, scan, max>>

(* number[i] = max + 1 *)
StoreNumber ==
  /\ dpc = "store"
  /\ number' = [number EXCEPT ![num - 1] = max + 1]
  /\ dpc' = "publish"
  /\ UNCHANGED <<choosing, num, threads, served, workers, scan, max>>

(* choosing[i] = 0; get_number_1_svc then answers <<i, number[i]>>. *)
ClearChoosing ==
  /\ dpc = "publish"
  /\ choosing' = [choosing EXCEPT ![num - 1] = FALSE]
  /\ dpc' = "idle"
  /\ UNCHANGED <<number, num, threads, served, workers, scan, max>>

(* Mutant: bakery() starts its loop at j = 1. *)
WaitQueueFromOne(id) ==
  /\ dpc = "idle"
  /\ idx_thread_create < N
  /\ thread_id' = [thread_id EXCEPT ![idx_thread_create] = id]
  /\ idx_thread_create' = idx_thread_create + 1
  /\ wpc' = [wpc EXCEPT ![idx_thread_create] = "choosing"]
  /\ wscan' = [wscan EXCEPT ![idx_thread_create] = 1]
  /\ UNCHANGED <<tickets, idx_thread_join, served, dispatcher>>

(* wait_queue_1_svc: record the ticket, start bakery() on it.  A failure   *)
(* of pthread_create, at whose result the code does not look, is left out. *)
WaitQueue(id) ==
  /\ dpc = "idle"
  /\ idx_thread_create < N
  /\ thread_id' = [thread_id EXCEPT ![idx_thread_create] = id]
  /\ idx_thread_create' = idx_thread_create + 1
  /\ wpc' = [wpc EXCEPT ![idx_thread_create] = "choosing"]
  /\ wscan' = [wscan EXCEPT ![idx_thread_create] = 0]
  /\ UNCHANGED <<tickets, idx_thread_join, served, dispatcher>>

(* bakery_res_1_svc up to pthread_join, which blocks the dispatcher. *)
BakeryRes ==
  /\ dpc = "idle"
  /\ idx_thread_join < idx_thread_create
  /\ dpc' = "join"
  /\ UNCHANGED <<tickets, threads, served, workers, scan, max>>

(* Mutant: idx_thread_join++ is forgotten. *)
JoinAgain ==
  /\ dpc = "join"
  /\ wpc[idx_thread_join] = "done"
  /\ dpc' = "idle"
  /\ UNCHANGED <<tickets, threads, served, workers, scan, max>>

(* pthread_join returns; the answer is threads_results[idx_thread_join].res *)
Join ==
  /\ dpc = "join"
  /\ wpc[idx_thread_join] = "done"
  /\ idx_thread_join' = idx_thread_join + 1
  /\ dpc' = "idle"
  /\ UNCHANGED <<tickets, idx_thread_create, thread_id, served, workers, scan, max>>

-----------------------------------------------------------------------------
(* The thread w goes on to the next j, or leaves the loop after the last.  *)
NextSlot(w) ==
  /\ wscan' = [wscan EXCEPT ![w] = @ + 1]
  /\ wpc' = [wpc EXCEPT ![w] = IF wscan[w] + 1 = N THEN "take" ELSE "choosing"]

Goto(w, place) ==
  /\ wpc' = [wpc EXCEPT ![w] = place]
  /\ UNCHANGED wscan

(* while (choosing[j]); *)
AwaitChoosing(w) ==
  /\ wpc[w] = "choosing"
  /\ ~choosing[wscan[w]]
  /\ Goto(w, "positive")
  /\ UNCHANGED <<tickets, threads, served, dispatcher>>

(* number[j] > 0 *)
TestPositive(w) ==
  /\ wpc[w] = "positive"
  /\ \/ number[wscan[w]] > 0 /\ Goto(w, "less")
     \/ number[wscan[w]] = 0 /\ NextSlot(w)
  /\ UNCHANGED <<tickets, threads, served, dispatcher>>

(* Mutants: the later ticket goes first; number[j] <= number[i]. *)
TestGreater(w) ==
  /\ wpc[w] = "less"
  /\ IF number[wscan[w]] > number[thread_id[w]]
       THEN Goto(w, "positive")
       ELSE Goto(w, "equal")
  /\ UNCHANGED <<tickets, threads, served, dispatcher>>

TestLessOrEqual(w) ==
  /\ wpc[w] = "less"
  /\ IF number[wscan[w]] <= number[thread_id[w]]
       THEN Goto(w, "positive")
       ELSE Goto(w, "equal")
  /\ UNCHANGED <<tickets, threads, served, dispatcher>>

(* number[j] < number[i]: if so, spin. *)
TestLess(w) ==
  /\ wpc[w] = "less"
  /\ IF number[wscan[w]] < number[thread_id[w]]
       THEN Goto(w, "positive")
       ELSE Goto(w, "equal")
  /\ UNCHANGED <<tickets, threads, served, dispatcher>>

(* number[j] == number[i] && j < i: if so, spin. *)
TestEqual(w) ==
  /\ wpc[w] = "equal"
  /\ IF number[wscan[w]] = number[thread_id[w]] /\ wscan[w] < thread_id[w]
       THEN Goto(w, "positive")
       ELSE NextSlot(w)
  /\ UNCHANGED <<tickets, threads, served, dispatcher>>

(* targ->res = symbol *)
TakeSymbol(w) ==
  /\ wpc[w] = "take"
  /\ thread_res' = [thread_res EXCEPT ![w] = symbol]
  /\ Goto(w, "bump")
  /\ UNCHANGED <<tickets, threads, symbol, dispatcher>>

(* symbol++ *)
BumpSymbol(w) ==
  /\ wpc[w] = "bump"
  /\ symbol' = symbol + 1
  /\ Goto(w, "release")
  /\ UNCHANGED <<tickets, threads, thread_res, dispatcher>>

(* sleep(5); number[i] = 0; return *)
Release(w) ==
  /\ wpc[w] = "release"
  /\ number' = [number EXCEPT ![thread_id[w]] = 0]
  /\ Goto(w, "done")
  /\ UNCHANGED <<choosing, num, threads, served, dispatcher>>

-----------------------------------------------------------------------------
(* The tickets that may be queued: handed out, and not queued before.  A   *)
(* client sends one WAIT_QUEUE with the pid that GET_NUMBER answered.      *)
Queued == {thread_id[w] : w \in 0 .. idx_thread_create - 1}

GetNumberStep == ScanCompare \/ ScanAssign \/ StoreNumber \/ ClearChoosing

Dispatcher ==
  \/ GetNumber
  \/ GetNumberStep
  \/ \E id \in (0 .. num - 1) \ Queued : WaitQueue(id)
  \/ BakeryRes
  \/ Join

Bakery(w) ==
  \/ AwaitChoosing(w)
  \/ TestPositive(w)
  \/ TestLess(w)
  \/ TestEqual(w)
  \/ TakeSymbol(w)
  \/ BumpSymbol(w)
  \/ Release(w)

Next == Dispatcher \/ \E w \in Slots : Bakery(w)

Spec == Init /\ [][Next]_vars

(* Every thread keeps running, and so does a get_number once it is called. *)
(* Whether a further request arrives is up to the clients.                 *)
FairSpec ==
  /\ Spec
  /\ WF_vars(GetNumberStep)
  /\ \A w \in Slots : WF_vars(Bakery(w))

-----------------------------------------------------------------------------
TypeOK ==
  /\ choosing \in [Slots -> BOOLEAN]
  /\ number \in [Slots -> Nat]
  /\ num \in 0 .. N
  /\ symbol \in Nat
  /\ idx_thread_create \in 0 .. N
  /\ idx_thread_join \in 0 .. idx_thread_create
  /\ thread_id \in [Slots -> Slots]
  /\ thread_res \in [Slots -> Nat]
  /\ dpc \in {"idle", "join"} \union Choosing
  /\ scan \in 0 .. N
  /\ max \in Nat
  /\ wpc \in [Slots -> {"none", "done"} \union Active]
  /\ wscan \in [Slots -> 0 .. N]

(* Two threads are never both between the scan of bakery() and             *)
(* number[i] = 0 (lines 67-73), where the shared symbol is read, handed    *)
(* out and incremented.                                                    *)
MutualExclusion ==
  \A v, w \in Slots : v # w => ~(wpc[v] \in Inside /\ wpc[w] \in Inside)

(* Of two live tickets the earlier has the smaller number, although        *)
(* get_number loads number[j] twice and a customer may leave in between,   *)
(* which makes max fall back to 0.                                         *)
TicketsIncrease ==
  \A i, k \in Slots : i < k /\ number[i] > 0 /\ number[k] > 0 => number[i] < number[k]

(* Whatever the interleaving, the thread of ticket i hands out 'a' + i: no *)
(* letter is lost, repeated or swapped, and no ticket overtakes another.   *)
LetterMatchesTicket ==
  \A w \in Slots :
    wpc[w] \in {"bump", "release", "done"} => thread_res[w] = FirstSymbol + thread_id[w]

-----------------------------------------------------------------------------
(* The inductive invariant behind the properties above.                    *)

(* Tickets 0 .. Issued - 1 have got their number; 0 .. Letters - 1 their letter. *)
Issued == IF dpc \in {"compare", "assign", "store"} THEN num - 1 ELSE num
Letters == symbol - FirstSymbol

(* get_number holds the slot num - 1; what it has scanned is at most max,  *)
(* unless max was loaded after a release, when all of it has left.         *)
ScanInv ==
  /\ dpc \in Choosing => num > 0
  /\ dpc \in {"compare", "assign"} => scan < N
  /\ dpc = "join" => idx_thread_join < idx_thread_create
  /\ dpc \in {"compare", "assign"} =>
       \A k \in Slots : k < scan => number[k] <= max
  /\ dpc = "assign" =>
       number[scan] > max \/ \A k \in Slots : k <= scan => number[k] = 0
  /\ dpc = "store" => \A k \in Slots : number[k] <= max

(* Each thread has a ticket of its own, which is live as long as it is.    *)
ThreadInv ==
  /\ \A i \in Slots : i >= Issued => number[i] = 0
  /\ \A i \in Slots : i < Issued /\ i \notin Queued => number[i] > 0
  /\ \A w \in Slots : wpc[w] = "none" <=> w >= idx_thread_create
  /\ \A w \in Slots : wpc[w] # "none" => thread_id[w] < Issued
  /\ \A v, w \in Slots :
       wpc[v] # "none" /\ wpc[w] # "none" /\ v # w => thread_id[v] # thread_id[w]
  /\ \A w \in Slots : wpc[w] \in Active => number[thread_id[w]] > 0
  /\ \A w \in Slots : wpc[w] = "done" => number[thread_id[w]] = 0

(* A thread has seen every earlier ticket leave that its scan has passed.  *)
PassageInv ==
  \A w \in Slots :
    /\ wpc[w] \in Waiting =>
         /\ wscan[w] < N
         /\ \A k \in Slots : k < wscan[w] /\ k < thread_id[w] => number[k] = 0
    /\ wpc[w] = "equal" => wscan[w] >= thread_id[w]
    /\ wpc[w] \in Inside \union {"done"} =>
         \A k \in Slots : k < thread_id[w] => number[k] = 0

(* Letters follow tickets: those without a letter are live, and of those   *)
(* with one only the ticket of a thread at "release" still is.             *)
LetterInv ==
  /\ Letters \in 0 .. Issued
  /\ \A i \in Slots : i < Issued /\ number[i] = 0 => i < Letters
  /\ \A i \in Slots : number[i] > 0 /\ i < Letters =>
       \E w \in Slots : wpc[w] = "release" /\ thread_id[w] = i
  /\ \A w \in Slots : wpc[w] = "release" => Letters = thread_id[w] + 1
  /\ LetterMatchesTicket

(* get_number numbers the tickets in order, and the threads give out the   *)
(* letters in that order (lines 35-75): the conjunction is inductive.      *)
IInv ==
  /\ TypeOK
  /\ ScanInv
  /\ ThreadInv
  /\ PassageInv
  /\ TicketsIncrease
  /\ LetterInv

-----------------------------------------------------------------------------
(* bakery_res_1_svc answers with the letter of a finished thread, and with *)
(* a different thread every time: the answer is never the zero that        *)
(* threads_results starts with.                                            *)
AnswersAreLetters ==
  [][Join => thread_res[idx_thread_join] = FirstSymbol + thread_id[idx_thread_join]]_vars

(* A queued customer all of whose predecessors are queued gets a letter.   *)
Preceded(w) ==
  wpc[w] \in Active /\ \A i \in Slots : number[i] > 0 /\ i < thread_id[w] => i \in Queued
QueuedIsServed == \A w \in Slots : Preceded(w) ~> wpc[w] = "done"

(* The server implements NowServing: a ticket is issued when its number is *)
(* stored, and served from the load of symbol to number[i] = 0.            *)
Served == {w \in Slots : wpc[w] \in {"bump", "release", "done"}}

TicketService == INSTANCE NowServing WITH
  FirstLetter <- FirstSymbol,
  issued <- Issued,
  now <- IF \E w \in Slots : wpc[w] = "release" THEN Letters - 1 ELSE Letters,
  serving <- \E w \in Slots : wpc[w] \in {"bump", "release"},
  given <- {<<thread_id[w], thread_res[w]>> : w \in Served}

(* One customer at a time, in the order of the tickets, none passed over.  *)
ServesInOrder == TicketService!Spec

=============================================================================
