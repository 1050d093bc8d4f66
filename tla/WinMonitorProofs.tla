-------------------------- MODULE WinMonitorProofs --------------------------
(* The theorems about WinMonitor, for all finite sets of readers and of    *)
(* writers, and any number of iterations.                                  *)
EXTENDS WinMonitor, FiniteSetTheorems, TLAPS

(* The threads each counter counts: between the increment and the          *)
(* decrement of it.                                                        *)
AnnouncedPlaces == {"lock", "ask writers", "poll can_write", "await can_read",
                    "signal readers", "activate", "retract"}
ActivePlaces == {"retract", "unlock", "read"}
AskingPlaces == {"ask writer", "poll can_read", "await can_write", "retract"}

At(S, places) == {t \in S : pc[t] \in places}

(* The stores there have been: the k-th of writer w for every iteration it *)
(* has finished, and for the one it is in when it is past the store.       *)
PastStore == {"clear", "hand over", "to readers", "to writers"}
Stores(w) == WRUNS - runs[w] + (IF pc[w] \in PastStore THEN 1 ELSE 0)
Stored == {x \in Writers \X (1 .. WRUNS) : x[2] <= Stores(x[1])}

PlaceInv ==
  /\ pc \in [Threads -> ReaderPlaces \union WriterPlaces]
  /\ runs \in [Threads -> Nat]
  /\ \A r \in Readers : pc[r] \in ReaderPlaces /\ runs[r] <= RRUNS
  /\ \A w \in Writers : pc[w] \in WriterPlaces /\ runs[w] <= WRUNS
  /\ \A t \in Threads : pc[t] # "finished" => runs[t] >= 1

(* _can_read is never a handle. *)
FlagInv ==
  /\ main \in {"creating", "waiting", "done", "failed"}
  /\ can_read = "null"
  /\ can_write \in {"reset", "signalled"}
  /\ mutex = {} \/ \E r \in Readers : mutex = {r}
  /\ active_writer \in BOOLEAN

(* The interlocked counters count.                                         *)
CountInv ==
  /\ waiting_readers = Cardinality(At(Readers, AnnouncedPlaces))
  /\ active_readers = Cardinality(At(Readers, ActivePlaces))
  /\ waiting_writers = Cardinality(At(Writers, AskingPlaces))

(* _active_writer is not always set when somebody writes, but never set    *)
(* when nobody does.                                                       *)
MarkInv == active_writer => \E w \in Writers : pc[w] \in Writing

(* The int is at most the number of the stores.                            *)
ValInv ==
  /\ val \in Nat /\ val <= Cardinality(Stored)
  /\ loaded \in [Writers -> Nat]
  /\ \A w \in Writers : loaded[w] <= Cardinality(Stored)

IInv == PlaceInv /\ FlagInv /\ CountInv /\ MarkInv /\ ValInv /\ NoLostWakeup

-----------------------------------------------------------------------------
(* How many a set has of, when one comes or goes.                          *)
LEMMA Counting ==
  ASSUME NEW F, IsFiniteSet(F), NEW G, NEW x, \A y : y # x => (y \in G <=> y \in F)
  PROVE  /\ Cardinality(F) \in Nat
         /\ (x \in G <=> x \in F) => G = F
         /\ x \in G /\ x \notin F => Cardinality(G) = Cardinality(F) + 1
         /\ x \notin G /\ x \in F => Cardinality(G) = Cardinality(F) - 1
<1>1. (x \in G <=> x \in F) => G = F
  OBVIOUS
<1>2. ASSUME x \in G, x \notin F PROVE Cardinality(G) = Cardinality(F) + 1
  <2>1. G = F \union {x}
    BY <1>2
  <2> QED
    BY <1>2, <2>1, FS_AddElement
<1>3. ASSUME x \notin G, x \in F PROVE Cardinality(G) = Cardinality(F) - 1
  <2>1. G = F \ {x}
    BY <1>3
  <2> QED
    BY <1>3, <2>1, FS_RemoveElement
<1> QED
  BY <1>1, <1>2, <1>3, FS_CardinalityType

(* The two kinds of threads.                                               *)
LEMMA ThreadFacts ==
  /\ Readers \subseteq Threads /\ Writers \subseteq Threads
  /\ IsFiniteSet(Readers) /\ IsFiniteSet(Writers)
  /\ \A r \in Readers : r \notin Writers
  /\ \A w \in Writers : w \notin Readers
  BY WinMonitorAssumption DEF Threads

(* The initial state satisfies the inductive invariant. *)
LEMMA InitInv == Init => IInv
<1> SUFFICES ASSUME Init PROVE IInv
  OBVIOUS
<1> USE WinMonitorAssumption, ThreadFacts DEF Init
<1>1. \A t \in Threads : pc[t] = "uncreated"
  OBVIOUS
<1>a. /\ \A r \in Readers : runs[r] = RRUNS
      /\ \A w \in Writers : runs[w] = WRUNS
  OBVIOUS
<1>b. RRUNS \in Nat /\ RRUNS >= 1 /\ WRUNS \in Nat /\ WRUNS >= 1
  OBVIOUS
<1>2. PlaceInv
  <2>1. pc \in [Threads -> ReaderPlaces \union WriterPlaces]
    BY DEF ReaderPlaces, WriterPlaces
  <2>2. runs \in [Threads -> Nat]
    BY <1>b
  <2>3. \A t \in Threads : runs[t] >= 1
    BY <1>a, <1>b DEF Threads
  <2>4. /\ \A r \in Readers : pc[r] \in ReaderPlaces
        /\ \A w \in Writers : pc[w] \in WriterPlaces
    BY <1>1, ThreadFacts DEF ReaderPlaces, WriterPlaces
  <2>5. /\ \A r \in Readers : runs[r] <= RRUNS
        /\ \A w \in Writers : runs[w] <= WRUNS
    BY <1>a, <1>b
  <2> QED
    BY <2>1, <2>2, <2>3, <2>4, <2>5 DEF PlaceInv
<1>3. FlagInv
  BY DEF FlagInv, CanReadAtStart
<1>4. /\ At(Readers, AnnouncedPlaces) = {} /\ At(Readers, ActivePlaces) = {}
      /\ At(Writers, AskingPlaces) = {}
  BY <1>1 DEF At, AnnouncedPlaces, ActivePlaces, AskingPlaces
<1>5. CountInv
  BY <1>4, FS_EmptySet DEF CountInv
<1>6. MarkInv /\ NoLostWakeup
  BY <1>1 DEF MarkInv, NoLostWakeup
<1>7. ValInv
  <2>1. Stored = {}
    <3>1. ASSUME NEW w \in Writers PROVE Stores(w) = 0
      <4>1. pc[w] \notin PastStore
        BY <1>1 DEF PastStore
      <4> QED
        BY <4>1, <1>a, <1>b DEF Stores
    <3> QED
      BY <3>1 DEF Stored
  <2>2. Cardinality(Stored) = 0
    BY <2>1, FS_EmptySet
  <2> QED
    BY <2>2 DEF ValInv
<1> QED
  BY <1>2, <1>3, <1>5, <1>6, <1>7 DEF IInv

-----------------------------------------------------------------------------
(* A thread's step: it goes to another place in the same iteration, or     *)
(* ends the iteration.                                                     *)
Moves(t, places) ==
  /\ pc[t] \in places \ {"finished"}
  /\ \/ runs' = runs /\ \E to \in places \ {"finished"} : pc' = [pc EXCEPT ![t] = to]
     \/ /\ runs' = [runs EXCEPT ![t] = @ - 1]
        /\ pc' = [pc EXCEPT ![t] = IF runs[t] = 1 THEN "finished" ELSE "sleep"]

LEMMA ReaderMoves ==
  ASSUME NEW r \in Readers, Reader(r)
  PROVE  Moves(r, ReaderPlaces) /\ UNCHANGED main
<1> USE DEF ReaderPlaces, Moves, Goto, Again
<1>1. CASE AnnounceRead(r) \/ Lock(r) \/ AwaitCanRead(r) \/ SignalReaders(r)
  BY <1>1 DEF AnnounceRead, Lock, AwaitCanRead, SignalReaders
<1>2. CASE Activate(r) \/ RetractRead(r) \/ Unlock(r) \/ Deactivate(r) \/ StopReaders(r)
  BY <1>2 DEF Activate, RetractRead, Unlock, Deactivate, StopReaders
<1>3. CASE AskWriters(r)
  BY <1>3 DEF AskWriters
<1>4. CASE PollCanWrite(r)
  BY <1>4 DEF PollCanWrite
<1>5. CASE AskReaders(r)
  BY <1>5 DEF AskReaders
<1>6. CASE SignalWriters(r)
  BY <1>6 DEF SignalWriters
<1> QED
  BY <1>1, <1>2, <1>3, <1>4, <1>5, <1>6 DEF Reader

LEMMA WriterMoves ==
  ASSUME NEW w \in Writers, Writer(w)
  PROVE  Moves(w, WriterPlaces) /\ UNCHANGED main
<1> USE DEF WriterPlaces, Writing, Moves, Goto, Again
<1>1. CASE AnnounceWrite(w) \/ AwaitCanWrite(w) \/ RetractWrite(w) \/ Mark(w)
  BY <1>1 DEF AnnounceWrite, AwaitCanWrite, RetractWrite, Mark
<1>2. CASE Load(w) \/ Store(w) \/ Clear(w)
  BY <1>2 DEF Load, Store, Clear
<1>3. CASE AskWriter(w)
  BY <1>3 DEF AskWriter
<1>4. CASE PollCanRead(w)
  BY <1>4 DEF PollCanRead
<1>5. CASE HandOver(w)
  BY <1>5 DEF HandOver
<1>6. CASE HandToReaders(w) \/ HandToWriters(w)
  BY <1>6 DEF HandToReaders, HandToWriters
<1> QED
  BY <1>1, <1>2, <1>3, <1>4, <1>5, <1>6 DEF Writer

(* Every thread keeps to its places, and to an iteration it has yet to     *)
(* make until it has finished.                                             *)
LEMMA MoveKeepsPlaces ==
  ASSUME PlaceInv, NEW t \in Threads, NEW places,
         places = IF t \in Readers THEN ReaderPlaces ELSE WriterPlaces,
         Moves(t, places)
  PROVE  PlaceInv'
<1>1. runs[t] \in Nat /\ runs[t] >= 1 /\ DOMAIN runs = Threads /\ DOMAIN pc = Threads
  BY DEF PlaceInv, Moves
<1>2. {"sleep", "finished"} \subseteq places
  BY DEF ReaderPlaces, WriterPlaces
<1>3. PICK to \in places : pc' = [pc EXCEPT ![t] = to]
  BY <1>2 DEF Moves
<1>4. t \in Readers \/ t \in Writers
  BY DEF Threads
<1>5. /\ \A r \in Readers : pc'[r] \in ReaderPlaces
      /\ \A w \in Writers : pc'[w] \in WriterPlaces
  BY <1>1, <1>3, <1>4, ThreadFacts DEF PlaceInv
<1>6. pc' \in [Threads -> ReaderPlaces \union WriterPlaces]
  <2>1. to \in ReaderPlaces \union WriterPlaces
    OBVIOUS
  <2> QED
    BY <1>3, <2>1 DEF PlaceInv
<1>7. CASE runs' = runs /\ pc'[t] # "finished"
  BY <1>1, <1>3, <1>5, <1>6, <1>7 DEF PlaceInv
<1>8. CASE runs' = [runs EXCEPT ![t] = @ - 1] /\ pc'[t] = IF runs[t] = 1 THEN "finished" ELSE "sleep"
  <2>1. runs[t] - 1 \in Nat /\ runs[t] - 1 <= runs[t] /\ (runs[t] # 1 => runs[t] - 1 >= 1)
    BY <1>1
  <2>2. runs' \in [Threads -> Nat]
    BY <1>8, <2>1 DEF PlaceInv
  <2>3. \A u \in Threads : pc'[u] # "finished" => runs'[u] >= 1
    <3>1. pc'[t] # "finished" => runs'[t] >= 1
      BY <1>1, <1>8, <2>1
    <3>2. \A u \in Threads \ {t} : pc'[u] = pc[u] /\ runs'[u] = runs[u]
      BY <1>1, <1>3, <1>8
    <3> QED
      BY <3>1, <3>2 DEF PlaceInv
  <2>4. \A u \in Threads : runs'[u] <= runs[u] /\ runs[u] \in Nat /\ runs'[u] \in Nat
    BY <1>1, <1>8, <2>1, <2>2 DEF PlaceInv
  <2>5. /\ \A r \in Readers : runs'[r] <= RRUNS
        /\ \A w \in Writers : runs'[w] <= WRUNS
    BY <2>4, ThreadFacts, WinMonitorAssumption DEF PlaceInv
  <2> QED
    BY <1>5, <1>6, <2>2, <2>3, <2>5 DEF PlaceInv
<1>9. \/ runs' = runs /\ pc'[t] # "finished"
      \/ runs' = [runs EXCEPT ![t] = @ - 1] /\ pc'[t] = IF runs[t] = 1 THEN "finished" ELSE "sleep"
  BY <1>1 DEF Moves
<1> QED
  BY <1>7, <1>8, <1>9

LEMMA PlaceStep ==
  ASSUME PlaceInv, Next PROVE PlaceInv'
<1>1. ASSUME NEW r \in Readers, Reader(r) PROVE PlaceInv'
  BY <1>1, ReaderMoves, MoveKeepsPlaces, ThreadFacts
<1>2. ASSUME NEW w \in Writers, Writer(w) PROVE PlaceInv'
  BY <1>2, WriterMoves, MoveKeepsPlaces, ThreadFacts
<1>3. ASSUME NEW t \in Threads, CreateThread(t) PROVE PlaceInv'
  <2>1. runs' = runs /\ pc' = [pc EXCEPT ![t] = "sleep"] /\ runs[t] >= 1
    BY <1>3 DEF CreateThread, PlaceInv
  <2>2. "sleep" \in ReaderPlaces /\ "sleep" \in WriterPlaces
    BY DEF ReaderPlaces, WriterPlaces
  <2>3. pc' \in [Threads -> ReaderPlaces \union WriterPlaces]
    BY <2>1, <2>2 DEF PlaceInv
  <2>4. /\ \A r \in Readers : pc'[r] \in ReaderPlaces
        /\ \A w \in Writers : pc'[w] \in WriterPlaces
    BY <2>1, <2>2, ThreadFacts DEF PlaceInv
  <2>5. \A u \in Threads : pc'[u] # "finished" => runs'[u] >= 1
    BY <2>1 DEF PlaceInv
  <2> QED
    BY <2>1, <2>3, <2>4, <2>5 DEF PlaceInv
<1>4. CASE CreateThreadFails \/ WaitForThreads
  BY <1>4 DEF CreateThreadFails, WaitForThreads, PlaceInv
<1> QED
  BY <1>1, <1>2, <1>3, <1>4 DEF Next

-----------------------------------------------------------------------------
(* The events, the mutex and the flag keep their types; _can_read is never *)
(* made a handle.                                                          *)
LEMMA FlagStep ==
  ASSUME FlagInv, Next PROVE FlagInv'
<1> USE DEF FlagInv, Set, Reset
<1>1. ASSUME NEW r \in Readers, Reader(r) PROVE FlagInv'
  <2>a. CASE AnnounceRead(r) \/ AskWriters(r)
    BY <2>a DEF AnnounceRead, AskWriters, Goto, events, counters
  <2>1. CASE Lock(r) \/ Unlock(r)
    BY <2>1 DEF Lock, Unlock, Goto, events, counters
  <2>2. CASE PollCanWrite(r) \/ AwaitCanRead(r) \/ SignalReaders(r)
    BY <2>2 DEF PollCanWrite, AwaitCanRead, SignalReaders, Goto, counters
  <2>3. CASE Activate(r) \/ RetractRead(r) \/ Deactivate(r)
    BY <2>3 DEF Activate, RetractRead, Deactivate, Goto, events
  <2>4. CASE AskReaders(r) \/ StopReaders(r) \/ SignalWriters(r)
    BY <2>4 DEF AskReaders, StopReaders, SignalWriters, Goto, Again, events, counters
  <2>5. UNCHANGED active_writer
    BY <1>1 DEF Reader, AnnounceRead, Lock, AskWriters, PollCanWrite, AwaitCanRead, SignalReaders,
      Activate, RetractRead, Unlock, Deactivate, AskReaders, StopReaders, SignalWriters, counters
  <2> QED
    BY <1>1, <2>a, <2>1, <2>2, <2>3, <2>4, <2>5 DEF Reader
<1>2. ASSUME NEW w \in Writers, Writer(w) PROVE FlagInv'
  <2>1. CASE AnnounceWrite(w) \/ AskWriter(w) \/ RetractWrite(w) \/ HandOver(w)
    BY <2>1 DEF AnnounceWrite, AskWriter, RetractWrite, HandOver, Goto, events, counters
  <2>2. CASE PollCanRead(w) \/ AwaitCanWrite(w)
    BY <2>2 DEF PollCanRead, AwaitCanWrite, Goto, counters
  <2>3. CASE Mark(w) \/ Load(w) \/ Store(w) \/ Clear(w)
    BY <2>3 DEF Mark, Load, Store, Clear, Goto, events, counters
  <2>4. CASE HandToReaders(w) \/ HandToWriters(w)
    BY <2>4 DEF HandToReaders, HandToWriters, Goto, Again, counters
  <2> QED
    BY <1>2, <2>1, <2>2, <2>3, <2>4 DEF Writer
<1>3. ASSUME NEW t \in Threads, CreateThread(t) PROVE FlagInv'
  BY <1>3 DEF CreateThread, events, counters
<1>4. CASE CreateThreadFails \/ WaitForThreads
  BY <1>4 DEF CreateThreadFails, WaitForThreads, events, counters
<1> QED
  BY <1>1, <1>2, <1>3, <1>4 DEF Next

(* While _active_writer is set, somebody writes: who sets it writes, and   *)
(* nobody stops writing without clearing it.                               *)
LEMMA MarkStep ==
  ASSUME PlaceInv, MarkInv, Next PROVE MarkInv'
<1>1. DOMAIN pc = Threads /\ Writers \subseteq Threads /\ \A r \in Readers : r \notin Writers
  BY ThreadFacts DEF PlaceInv
<1>2. ASSUME active_writer' = active_writer, \A w \in Writers : pc[w] \in Writing => pc'[w] \in Writing
      PROVE  MarkInv'
  BY <1>2 DEF MarkInv
<1>3. ASSUME NEW r \in Readers, Reader(r) PROVE MarkInv'
  <2>1. UNCHANGED active_writer
    BY <1>3 DEF Reader, AnnounceRead, Lock, AskWriters, PollCanWrite, AwaitCanRead, SignalReaders,
      Activate, RetractRead, Unlock, Deactivate, AskReaders, StopReaders, SignalWriters, counters
  <2>2. \A w \in Writers : pc'[w] = pc[w]
    BY <1>1, <1>3, ReaderMoves DEF Moves
  <2> QED
    BY <1>2, <2>1, <2>2
<1>4. ASSUME NEW w \in Writers, Writer(w) PROVE MarkInv'
  <2>1. CASE Mark(w)
    BY <1>1, <2>1 DEF Mark, Goto, Writing, MarkInv
  <2>2. CASE Load(w) \/ Store(w)
    BY <1>1, <1>2, <2>2 DEF Load, Store, Goto, Writing, counters
  <2>3. CASE Clear(w)
    BY <2>3 DEF Clear, MarkInv
  <2>4. CASE AnnounceWrite(w) \/ AskWriter(w) \/ PollCanRead(w) \/ AwaitCanWrite(w) \/ RetractWrite(w)
    BY <1>1, <1>2, <2>4 DEF AnnounceWrite, AskWriter, PollCanRead, AwaitCanWrite, RetractWrite,
      Goto, Writing, counters
  <2>5. CASE HandOver(w) \/ HandToReaders(w) \/ HandToWriters(w)
    BY <1>1, <1>2, <2>5 DEF HandOver, HandToReaders, HandToWriters, Goto, Again, Writing, counters
  <2> QED
    BY <1>4, <2>1, <2>2, <2>3, <2>4, <2>5 DEF Writer
<1>5. ASSUME NEW t \in Threads, CreateThread(t) PROVE MarkInv'
  BY <1>1, <1>2, <1>5 DEF CreateThread, Writing, counters
<1>6. CASE CreateThreadFails \/ WaitForThreads
  BY <1>2, <1>6 DEF CreateThreadFails, WaitForThreads, counters
<1> QED
  BY <1>3, <1>4, <1>5, <1>6 DEF Next

-----------------------------------------------------------------------------
(* How the sets that are counted change when one thread moves.             *)
LEMMA AtReaders ==
  ASSUME PlaceInv, NEW r \in Readers, NEW to, pc' = [pc EXCEPT ![r] = to], NEW places
  PROVE  /\ Cardinality(At(Readers, places)) \in Nat
         /\ (to \in places <=> pc[r] \in places) => At(Readers, places)' = At(Readers, places)
         /\ to \in places /\ pc[r] \notin places =>
              Cardinality(At(Readers, places)') = Cardinality(At(Readers, places)) + 1
         /\ to \notin places /\ pc[r] \in places =>
              Cardinality(At(Readers, places)') = Cardinality(At(Readers, places)) - 1
         /\ At(Writers, places)' = At(Writers, places)
<1>1. DOMAIN pc = Threads /\ Readers \subseteq Threads /\ \A w \in Writers : w # r
  BY ThreadFacts DEF PlaceInv
<1>2. pc'[r] = to /\ \A y \in Readers \ {r} : pc'[y] = pc[y]
  BY <1>1
<1> DEFINE F == At(Readers, places)
           G == At(Readers, places)'
<1>4. /\ IsFiniteSet(F)
      /\ r \in F <=> pc[r] \in places
      /\ r \in G <=> to \in places
      /\ \A y : y # r => (y \in G <=> y \in F)
  <2>1. F \in SUBSET Readers
    BY DEF At
  <2> QED
    BY <1>2, <2>1, ThreadFacts, FS_Subset DEF At
<1>3. At(Writers, places)' = At(Writers, places)
  BY <1>1 DEF At
<1> QED
  BY <1>3, <1>4, Counting

LEMMA AtWriters ==
  ASSUME PlaceInv, NEW w \in Writers, NEW to, pc' = [pc EXCEPT ![w] = to], NEW places
  PROVE  /\ Cardinality(At(Writers, places)) \in Nat
         /\ (to \in places <=> pc[w] \in places) => At(Writers, places)' = At(Writers, places)
         /\ to \in places /\ pc[w] \notin places =>
              Cardinality(At(Writers, places)') = Cardinality(At(Writers, places)) + 1
         /\ to \notin places /\ pc[w] \in places =>
              Cardinality(At(Writers, places)') = Cardinality(At(Writers, places)) - 1
         /\ At(Readers, places)' = At(Readers, places)
<1>1. DOMAIN pc = Threads /\ Writers \subseteq Threads /\ \A r \in Readers : w # r
  BY ThreadFacts DEF PlaceInv
<1>2. pc'[w] = to /\ \A y \in Writers \ {w} : pc'[y] = pc[y]
  BY <1>1
<1> DEFINE F == At(Writers, places)
           G == At(Writers, places)'
<1>4. /\ IsFiniteSet(F)
      /\ w \in F <=> pc[w] \in places
      /\ w \in G <=> to \in places
      /\ \A y : y # w => (y \in G <=> y \in F)
  <2>1. F \in SUBSET Writers
    BY DEF At
  <2> QED
    BY <1>2, <2>1, ThreadFacts, FS_Subset DEF At
<1>3. At(Readers, places)' = At(Readers, places)
  BY <1>1 DEF At
<1> QED
  BY <1>3, <1>4, Counting

(* Every counter is changed where its thread comes to, and leaves, the     *)
(* places it counts.                                                       *)
LEMMA ReaderCounts ==
  ASSUME PlaceInv, CountInv, NEW r \in Readers, Reader(r) PROVE CountInv'
<1> DEFINE Announced == Cardinality(At(Readers, AnnouncedPlaces))
           Active == Cardinality(At(Readers, ActivePlaces))
<1>1. PICK to : pc' = [pc EXCEPT ![r] = to]
  BY ReaderMoves DEF Moves
<1>2. DOMAIN pc = Threads /\ r \in Threads
  BY ThreadFacts DEF PlaceInv
<1>3. /\ Announced \in Nat /\ Active \in Nat
      /\ (to \in AnnouncedPlaces <=> pc[r] \in AnnouncedPlaces) => Announced' = Announced
      /\ to \in AnnouncedPlaces /\ pc[r] \notin AnnouncedPlaces => Announced' = Announced + 1
      /\ to \notin AnnouncedPlaces /\ pc[r] \in AnnouncedPlaces => Announced' = Announced - 1
      /\ (to \in ActivePlaces <=> pc[r] \in ActivePlaces) => Active' = Active
      /\ to \in ActivePlaces /\ pc[r] \notin ActivePlaces => Active' = Active + 1
      /\ to \notin ActivePlaces /\ pc[r] \in ActivePlaces => Active' = Active - 1
      /\ At(Writers, AskingPlaces)' = At(Writers, AskingPlaces)
  <2>1. At(Writers, AskingPlaces)' = At(Writers, AskingPlaces)
    BY <1>1, AtReaders
  <2>2. /\ Announced \in Nat
        /\ (to \in AnnouncedPlaces <=> pc[r] \in AnnouncedPlaces) => Announced' = Announced
        /\ to \in AnnouncedPlaces /\ pc[r] \notin AnnouncedPlaces => Announced' = Announced + 1
        /\ to \notin AnnouncedPlaces /\ pc[r] \in AnnouncedPlaces => Announced' = Announced - 1
    BY <1>1, AtReaders
  <2>3. /\ Active \in Nat
        /\ (to \in ActivePlaces <=> pc[r] \in ActivePlaces) => Active' = Active
        /\ to \in ActivePlaces /\ pc[r] \notin ActivePlaces => Active' = Active + 1
        /\ to \notin ActivePlaces /\ pc[r] \in ActivePlaces => Active' = Active - 1
    BY <1>1, AtReaders
  <2> QED
    BY <2>1, <2>2, <2>3
<1>4. waiting_readers = Announced /\ active_readers = Active
  BY DEF CountInv
<1>5. SUFFICES waiting_readers' = Announced' /\ active_readers' = Active' /\ UNCHANGED waiting_writers
  BY <1>3 DEF CountInv
<1> HIDE DEF Announced, Active
<1> USE DEF AnnouncedPlaces, ActivePlaces, Goto, Again, counters
<1>6. pc'[r] = to
  BY <1>1, <1>2
<1>7. CASE AnnounceRead(r)
  BY <1>1, <1>2, <1>3, <1>4, <1>7 DEF AnnounceRead
<1>8. CASE RetractRead(r)
  BY <1>1, <1>2, <1>3, <1>4, <1>8 DEF RetractRead
<1>9. CASE Activate(r)
  BY <1>1, <1>2, <1>3, <1>4, <1>9 DEF Activate
<1>10. CASE Deactivate(r)
  BY <1>1, <1>2, <1>3, <1>4, <1>10 DEF Deactivate
<1>11. CASE Lock(r) \/ AwaitCanRead(r) \/ SignalReaders(r) \/ StopReaders(r)
  BY <1>1, <1>2, <1>3, <1>4, <1>11 DEF Lock, AwaitCanRead, SignalReaders, StopReaders
<1>12. CASE Unlock(r)
  BY <1>1, <1>2, <1>3, <1>4, <1>12 DEF Unlock
<1>13. CASE AskWriters(r)
  BY <1>1, <1>2, <1>3, <1>4, <1>13 DEF AskWriters
<1>14. CASE PollCanWrite(r)
  BY <1>1, <1>2, <1>3, <1>4, <1>14 DEF PollCanWrite
<1>15. CASE AskReaders(r)
  BY <1>1, <1>2, <1>3, <1>4, <1>15 DEF AskReaders
<1>16. CASE SignalWriters(r)
  BY <1>1, <1>2, <1>3, <1>4, <1>16 DEF SignalWriters
<1> QED
  BY <1>7, <1>8, <1>9, <1>10, <1>11, <1>12, <1>13, <1>14, <1>15, <1>16 DEF Reader

LEMMA WriterCounts ==
  ASSUME PlaceInv, CountInv, NEW w \in Writers, Writer(w) PROVE CountInv'
<1> DEFINE Asking == Cardinality(At(Writers, AskingPlaces))
<1>1. PICK to : pc' = [pc EXCEPT ![w] = to]
  BY WriterMoves DEF Moves
<1>2. DOMAIN pc = Threads /\ w \in Threads
  BY ThreadFacts DEF PlaceInv
<1>3. /\ Asking \in Nat
      /\ (to \in AskingPlaces <=> pc[w] \in AskingPlaces) => Asking' = Asking
      /\ to \in AskingPlaces /\ pc[w] \notin AskingPlaces => Asking' = Asking + 1
      /\ to \notin AskingPlaces /\ pc[w] \in AskingPlaces => Asking' = Asking - 1
  BY <1>1, AtWriters
<1>4. /\ At(Readers, AnnouncedPlaces)' = At(Readers, AnnouncedPlaces)
      /\ At(Readers, ActivePlaces)' = At(Readers, ActivePlaces)
  BY <1>1, AtWriters
<1>5. waiting_writers = Asking
  BY DEF CountInv
<1>6. SUFFICES waiting_writers' = Asking' /\ UNCHANGED <<waiting_readers, active_readers>>
  BY <1>4 DEF CountInv
<1> HIDE DEF Asking
<1> USE DEF AskingPlaces, Goto, Again, counters
<1>7. CASE AnnounceWrite(w)
  BY <1>1, <1>2, <1>3, <1>5, <1>7 DEF AnnounceWrite
<1>8. CASE RetractWrite(w)
  BY <1>1, <1>2, <1>3, <1>5, <1>8 DEF RetractWrite
<1>9. CASE AskWriter(w)
  BY <1>1, <1>2, <1>3, <1>5, <1>9 DEF AskWriter
<1>10. CASE PollCanRead(w)
  BY <1>1, <1>2, <1>3, <1>5, <1>10 DEF PollCanRead
<1>11. CASE AwaitCanWrite(w)
  BY <1>1, <1>2, <1>3, <1>5, <1>11 DEF AwaitCanWrite
<1>12. CASE Mark(w) \/ Load(w) \/ Store(w) \/ Clear(w)
  BY <1>1, <1>2, <1>3, <1>5, <1>12 DEF Mark, Load, Store, Clear
<1>13. CASE HandOver(w)
  BY <1>1, <1>2, <1>3, <1>5, <1>13 DEF HandOver
<1>14. CASE HandToReaders(w) \/ HandToWriters(w)
  BY <1>1, <1>2, <1>3, <1>5, <1>14 DEF HandToReaders, HandToWriters
<1> QED
  BY <1>7, <1>8, <1>9, <1>10, <1>11, <1>12, <1>13, <1>14 DEF Writer

LEMMA CountStep ==
  ASSUME PlaceInv, CountInv, Next PROVE CountInv'
<1>1. ASSUME NEW t \in Threads, CreateThread(t) PROVE CountInv'
  <2>1. /\ pc[t] = "uncreated" /\ pc' = [pc EXCEPT ![t] = "sleep"]
        /\ UNCHANGED <<waiting_readers, active_readers, waiting_writers>>
    BY <1>1 DEF CreateThread, counters
  <2>2. /\ At(Readers, AnnouncedPlaces)' = At(Readers, AnnouncedPlaces)
        /\ At(Readers, ActivePlaces)' = At(Readers, ActivePlaces)
        /\ At(Writers, AskingPlaces)' = At(Writers, AskingPlaces)
    BY <2>1, ThreadFacts DEF At, AnnouncedPlaces, ActivePlaces, AskingPlaces, PlaceInv
  <2> QED
    BY <2>1, <2>2 DEF CountInv
<1>2. CASE CreateThreadFails \/ WaitForThreads
  BY <1>2 DEF CreateThreadFails, WaitForThreads, CountInv, At, counters
<1> QED
  BY <1>1, <1>2, ReaderCounts, WriterCounts DEF Next

-----------------------------------------------------------------------------
(* Where a reader is announced or active, it is on its way to the writers. *)
LEMMA CountedReader ==
  ASSUME CountInv, waiting_readers # 0 \/ active_readers # 0
  PROVE  \E r \in Readers :
           \/ waiting_readers # 0 /\ pc[r] \in AnnouncedPlaces
           \/ active_readers # 0 /\ pc[r] \in ActivePlaces
<1>1. waiting_readers # 0 => At(Readers, AnnouncedPlaces) # {}
  BY FS_EmptySet DEF CountInv
<1>2. active_readers # 0 => At(Readers, ActivePlaces) # {}
  BY FS_EmptySet DEF CountInv
<1> QED
  BY <1>1, <1>2 DEF At

(* Whoever was on its way and leaves it has signalled can_write, or leaves *)
(* it to somebody else: a reader that finds others active, and a writer    *)
(* that finds readers waiting, to them.                                    *)
LEMMA WakeStep ==
  ASSUME PlaceInv, FlagInv, CountInv, MarkInv, NoLostWakeup, Next
  PROVE  NoLostWakeup'
<1>1. /\ DOMAIN pc = Threads /\ Readers \subseteq Threads /\ Writers \subseteq Threads
      /\ \A r \in Readers : r \notin Writers
  BY ThreadFacts DEF PlaceInv
<1>2. ASSUME NEW t \in Threads, OnItsWay(t)' PROVE NoLostWakeup'
  BY <1>2 DEF NoLostWakeup
<1>3. ASSUME can_write' = can_write, \A t \in Threads : OnItsWay(t) => OnItsWay(t)',
             \A w \in Writers : pc'[w] = "await can_write" => pc[w] = "await can_write"
      PROVE  NoLostWakeup'
  BY <1>3 DEF NoLostWakeup
<1>4. ASSUME can_write' = "signalled" PROVE NoLostWakeup'
  BY <1>4 DEF NoLostWakeup
<1>5. ASSUME NEW r \in Readers, Reader(r) PROVE NoLostWakeup'
  <2>1. ASSUME NEW to, pc' = [pc EXCEPT ![r] = to], to \notin {"uncreated", "sleep", "finished"}
        PROVE  NoLostWakeup'
    <3>1. OnItsWay(r)'
      BY <1>1, <2>1 DEF OnItsWay
    <3> QED
      BY <1>1, <1>2, <3>1
  <2> USE DEF Goto
  <2>2. CASE AnnounceRead(r) \/ Lock(r) \/ AwaitCanRead(r) \/ SignalReaders(r) \/ Activate(r)
    BY <2>1, <2>2 DEF AnnounceRead, Lock, AwaitCanRead, SignalReaders, Activate
  <2>3. CASE RetractRead(r) \/ Unlock(r) \/ Deactivate(r) \/ StopReaders(r)
    BY <2>1, <2>3 DEF RetractRead, Unlock, Deactivate, StopReaders
  <2>4. CASE AskWriters(r)
    BY <2>1, <2>4 DEF AskWriters
  <2>5. CASE PollCanWrite(r)
    BY <2>1, <2>5 DEF PollCanWrite
  <2>6. CASE AskReaders(r)
    <3>1. CASE active_readers = 0
      BY <2>1, <2>6, <3>1 DEF AskReaders
    <3>2. CASE active_readers # 0
      <4>1. pc[r] = "ask readers" /\ \A q \in Readers \ {r} : pc'[q] = pc[q]
        BY <1>1, <2>6, <3>2 DEF AskReaders, Again
      <4>2. PICK q \in Readers : pc[q] \in AnnouncedPlaces \union ActivePlaces
        BY <3>2, CountedReader
      <4>3. pc'[q] = pc[q] /\ pc[q] \notin {"uncreated", "sleep", "finished"}
        BY <4>1, <4>2 DEF AnnouncedPlaces, ActivePlaces
      <4>4. OnItsWay(q)'
        BY <1>1, <4>3 DEF OnItsWay
      <4> QED
        BY <1>1, <1>2, <4>4
    <3> QED
      BY <3>1, <3>2
  <2>7. CASE SignalWriters(r)
    BY <1>4, <2>7 DEF SignalWriters, Set, FlagInv
  <2> QED
    BY <1>5, <2>2, <2>3, <2>4, <2>5, <2>6, <2>7 DEF Reader
<1>6. ASSUME NEW w \in Writers, Writer(w) PROVE NoLostWakeup'
  <2>1. ASSUME NEW to, pc' = [pc EXCEPT ![w] = to],
               to \in {"poll can_read", "retract", "mark", "hand over", "to writers"} \union Writing
        PROVE  NoLostWakeup'
    <3>1. OnItsWay(w)'
      BY <1>1, <2>1 DEF OnItsWay
    <3> QED
      BY <1>1, <1>2, <3>1
  <2>2. ASSUME NEW to, pc' = [pc EXCEPT ![w] = to], to # "await can_write", can_write' = can_write, ~OnItsWay(w)
        PROVE  NoLostWakeup'
    <3>1. \A t \in Threads : OnItsWay(t) => OnItsWay(t)'
      BY <1>1, <2>2 DEF OnItsWay
    <3>2. \A v \in Writers : pc'[v] = "await can_write" => pc[v] = "await can_write"
      BY <1>1, <2>2
    <3> QED
      BY <1>3, <2>2, <3>1, <3>2
  <2> USE DEF Goto
  <2>3. CASE AnnounceWrite(w)
    <3>1. ~OnItsWay(w)
      BY <2>3 DEF AnnounceWrite, OnItsWay, Writing
    <3> QED
      BY <2>2, <2>3, <3>1 DEF AnnounceWrite, events
  <2>4. CASE AskWriter(w)
    <3>1. CASE active_writer
      <4>1. PICK v \in Writers : pc[v] \in Writing
        BY <3>1 DEF MarkInv
      <4>2. pc'[v] = pc[v]
        BY <1>1, <2>4, <4>1 DEF AskWriter, Writing
      <4>3. OnItsWay(v)'
        BY <4>1, <4>2 DEF OnItsWay
      <4> QED
        BY <1>1, <1>2, <4>3
    <3>2. CASE ~active_writer
      BY <2>1, <2>4, <3>2 DEF AskWriter
    <3> QED
      BY <3>1, <3>2
  <2>5. CASE PollCanRead(w)
    BY <2>1, <2>5 DEF PollCanRead, FlagInv
  <2>6. CASE AwaitCanWrite(w) \/ RetractWrite(w)
    BY <2>1, <2>6 DEF AwaitCanWrite, RetractWrite
  <2>7. CASE Mark(w) \/ Load(w) \/ Store(w) \/ Clear(w)
    BY <2>1, <2>7 DEF Mark, Load, Store, Clear, Writing
  <2>8. CASE HandOver(w)
    <3>1. CASE waiting_readers = 0
      BY <2>1, <2>8, <3>1 DEF HandOver
    <3>2. CASE waiting_readers # 0
      <4>1. PICK q \in Readers : pc[q] \in AnnouncedPlaces \union ActivePlaces
        BY <3>2, CountedReader
      <4>2. pc'[q] = pc[q] /\ pc[q] \notin {"uncreated", "sleep", "finished"}
        BY <1>1, <2>8, <4>1 DEF HandOver, AnnouncedPlaces, ActivePlaces
      <4>3. OnItsWay(q)'
        BY <1>1, <4>2 DEF OnItsWay
      <4> QED
        BY <1>1, <1>2, <4>3
    <3> QED
      BY <3>1, <3>2
  <2>9. CASE HandToReaders(w)
    <3>1. ~OnItsWay(w)
      BY <2>9 DEF HandToReaders, Again, OnItsWay, Writing
    <3>2. CASE runs[w] = 1
      BY <2>2, <2>9, <3>1, <3>2 DEF HandToReaders, Again
    <3>3. CASE runs[w] # 1
      BY <2>2, <2>9, <3>1, <3>3 DEF HandToReaders, Again
    <3> QED
      BY <3>2, <3>3
  <2>10. CASE HandToWriters(w)
    BY <1>4, <2>10 DEF HandToWriters, Set, FlagInv
  <2> QED
    BY <1>6, <2>3, <2>4, <2>5, <2>6, <2>7, <2>8, <2>9, <2>10 DEF Writer
<1>7. ASSUME NEW t \in Threads, CreateThread(t) PROVE NoLostWakeup'
  <2>1. pc[t] = "uncreated" /\ pc' = [pc EXCEPT ![t] = "sleep"] /\ can_write' = can_write
    BY <1>7 DEF CreateThread, events
  <2>2. \A u \in Threads : OnItsWay(u) => OnItsWay(u)'
    BY <1>1, <2>1 DEF OnItsWay, Writing
  <2>3. \A v \in Writers : pc'[v] = "await can_write" => pc[v] = "await can_write"
    BY <1>1, <2>1
  <2> QED
    BY <1>3, <2>1, <2>2, <2>3
<1>8. CASE CreateThreadFails \/ WaitForThreads
  BY <1>3, <1>8 DEF CreateThreadFails, WaitForThreads, OnItsWay, events
<1> QED
  BY <1>5, <1>6, <1>7, <1>8 DEF Next

-----------------------------------------------------------------------------
(* The stores are finitely many: WRUNS for every writer.                   *)
LEMMA StoredBound ==
  /\ IsFiniteSet(Stored) /\ Cardinality(Stored) \in Nat
  /\ Cardinality(Stored) <= Cardinality(Writers) * WRUNS
<1>1. WRUNS \in Nat /\ WRUNS >= 1
  BY WinMonitorAssumption
<1>2. IsFiniteSet(1 .. WRUNS) /\ Cardinality(1 .. WRUNS) = WRUNS
  BY <1>1, FS_Interval
<1>3. /\ IsFiniteSet(Writers \X (1 .. WRUNS))
      /\ Cardinality(Writers \X (1 .. WRUNS)) = Cardinality(Writers) * WRUNS
  BY <1>2, FS_Product, ThreadFacts
<1>4. Stored \in SUBSET (Writers \X (1 .. WRUNS))
  BY DEF Stored
<1> HIDE DEF Stored
<1>5. IsFiniteSet(Stored) /\ Cardinality(Stored) <= Cardinality(Writers \X (1 .. WRUNS))
  BY <1>3, <1>4, FS_Subset
<1> QED
  BY <1>3, <1>5, FS_CardinalityType

(* A store adds one to the stores, and no other step does.                 *)
LEMMA StoredStep ==
  ASSUME PlaceInv, Next
  PROVE  /\ (\A w \in Writers : ~Store(w)) => Stored' = Stored
         /\ \A w \in Writers : Store(w) => Cardinality(Stored)' = Cardinality(Stored) + 1
<1>1. /\ DOMAIN pc = Threads /\ DOMAIN runs = Threads /\ Readers \subseteq Threads /\ Writers \subseteq Threads
      /\ \A r \in Readers : r \notin Writers
      /\ WRUNS \in Nat
  BY ThreadFacts, WinMonitorAssumption DEF PlaceInv
<1>2. ASSUME \A w \in Writers : Stores(w)' = Stores(w) PROVE Stored' = Stored
  BY <1>2 DEF Stored
<1>3. ASSUME NEW r \in Readers, Reader(r) PROVE \A w \in Writers : Stores(w)' = Stores(w)
  <2>1. \A w \in Writers : pc'[w] = pc[w] /\ runs'[w] = runs[w]
    BY <1>1, <1>3, ReaderMoves DEF Moves
  <2> QED
    BY <2>1 DEF Stores
<1>4. ASSUME NEW w \in Writers, Writer(w), ~Store(w), NEW v \in Writers PROVE Stores(v)' = Stores(v)
  <2>1. v # w => pc'[v] = pc[v] /\ runs'[v] = runs[v]
    BY <1>1, <1>4, WriterMoves DEF Moves
  <2>2. runs[w] \in Nat
    BY <1>1 DEF PlaceInv
  <2>3. CASE Clear(w) \/ HandOver(w)
    <3>1. pc[w] \in PastStore /\ pc'[w] \in PastStore /\ runs' = runs
      BY <1>1, <2>3 DEF Clear, HandOver, Goto, PastStore
    <3> QED
      BY <2>1, <3>1 DEF Stores
  <2>4. CASE HandToReaders(w) \/ HandToWriters(w)
    <3>1. pc[w] \in PastStore /\ pc'[w] \notin PastStore /\ runs'[w] = runs[w] - 1
      BY <1>1, <2>4 DEF HandToReaders, HandToWriters, Again, Goto, PastStore
    <3>2. WRUNS - (runs[w] - 1) + 0 = WRUNS - runs[w] + 1
      BY <1>1, <2>2
    <3> QED
      BY <2>1, <3>1, <3>2 DEF Stores
  <2>5. CASE AnnounceWrite(w) \/ AwaitCanWrite(w) \/ RetractWrite(w) \/ Mark(w) \/ Load(w)
    <3>1. pc[w] \notin PastStore /\ pc'[w] \notin PastStore /\ runs' = runs
      BY <1>1, <2>5 DEF AnnounceWrite, AwaitCanWrite, RetractWrite, Mark, Load, Goto, PastStore
    <3> QED
      BY <2>1, <3>1 DEF Stores
  <2>6. CASE AskWriter(w) \/ PollCanRead(w)
    <3>1. pc[w] \notin PastStore /\ pc'[w] \notin PastStore /\ runs' = runs
      BY <1>1, <2>6 DEF AskWriter, PollCanRead, Goto, PastStore
    <3> QED
      BY <2>1, <3>1 DEF Stores
  <2> QED
    BY <1>4, <2>3, <2>4, <2>5, <2>6 DEF Writer
<1>5. ASSUME NEW t \in Threads, CreateThread(t), NEW v \in Writers PROVE Stores(v)' = Stores(v)
  BY <1>1, <1>5 DEF CreateThread, Stores, PastStore
<1>6. ASSUME CreateThreadFails \/ WaitForThreads, NEW v \in Writers PROVE Stores(v)' = Stores(v)
  BY <1>6 DEF CreateThreadFails, WaitForThreads, Stores
<1>7. (\A w \in Writers : ~Store(w)) => Stored' = Stored
  BY <1>2, <1>3, <1>4, <1>5, <1>6 DEF Next
<1>8. ASSUME NEW w \in Writers, Store(w) PROVE Cardinality(Stored)' = Cardinality(Stored) + 1
  <2>1. pc[w] = "store" /\ pc'[w] = "clear" /\ runs' = runs /\ \A v \in Writers \ {w} : pc'[v] = pc[v]
    BY <1>1, <1>8 DEF Store, Goto
  <2>2. runs[w] \in Nat /\ runs[w] >= 1 /\ runs[w] <= WRUNS
    BY <1>1, <2>1 DEF PlaceInv
  <2> DEFINE k == WRUNS - runs[w] + 1
  <2>3. Stores(w) = k - 1 /\ Stores(w)' = k /\ k \in 1 .. WRUNS
    <3>1. Stores(w) = WRUNS - runs[w] + 0 /\ Stores(w)' = k
      BY <2>1 DEF Stores, PastStore
    <3> QED
      BY <1>1, <2>2, <3>1
  <2>4. \A v \in Writers \ {w} : Stores(v)' = Stores(v)
    BY <2>1 DEF Stores
  <2> HIDE DEF k
  <2>5. Stored' = Stored \union {<<w, k>>} /\ <<w, k>> \notin Stored
    <3>1. \A i \in 1 .. WRUNS : i <= k <=> i <= k - 1 \/ i = k
      BY <2>3
    <3>2. ASSUME NEW v \in Writers, NEW i \in 1 .. WRUNS
          PROVE  <<v, i>> \in Stored' <=> <<v, i>> \in Stored \/ <<v, i>> = <<w, k>>
      BY <2>3, <2>4, <3>1 DEF Stored
    <3>3. <<w, k>> \notin Stored
      BY <2>3 DEF Stored
    <3>4. Stored' \subseteq Writers \X (1 .. WRUNS) /\ Stored \subseteq Writers \X (1 .. WRUNS)
      BY DEF Stored
    <3>5. <<w, k>> \in Writers \X (1 .. WRUNS)
      BY <2>3
    <3>6. \A x \in Writers \X (1 .. WRUNS) : x \in Stored' <=> x \in Stored \/ x = <<w, k>>
      BY <3>2
    <3> QED
      BY <3>3, <3>4, <3>5, <3>6
  <2> QED
    BY <2>5, StoredBound, FS_AddElement
<1> QED
  BY <1>7, <1>8

LEMMA ValStep ==
  ASSUME PlaceInv, ValInv, Next PROVE ValInv'
<1>1. Cardinality(Stored) \in Nat
  BY StoredBound
<1>2. ASSUME val' = val, Stored' = Stored, loaded' = loaded PROVE ValInv'
  BY <1>2 DEF ValInv
<1>3. ASSUME NEW w \in Writers, Load(w) PROVE ValInv'
  <2>1. Stored' = Stored
    <3>1. \A v \in Writers : ~Store(v)
      BY <1>3, ThreadFacts DEF Load, Store, Goto, PlaceInv
    <3> QED
      BY <3>1, StoredStep
  <2>2. val' = val /\ loaded' = [loaded EXCEPT ![w] = val]
    BY <1>3 DEF Load
  <2> QED
    BY <2>1, <2>2 DEF ValInv
<1>4. ASSUME NEW w \in Writers, Store(w) PROVE ValInv'
  <2>1. Cardinality(Stored)' = Cardinality(Stored) + 1
    BY <1>4, StoredStep
  <2>2. val' = loaded[w] + 1 /\ loaded' = loaded
    BY <1>4 DEF Store
  <2>3. loaded[w] \in Nat /\ loaded[w] <= Cardinality(Stored)
    BY DEF ValInv
  <2>4. val' \in Nat /\ val' <= Cardinality(Stored)'
    BY <1>1, <2>1, <2>2, <2>3
  <2>5. \A v \in Writers : loaded[v] \in Nat /\ loaded[v] <= Cardinality(Stored) + 1
    BY <1>1 DEF ValInv
  <2> QED
    BY <2>1, <2>2, <2>4, <2>5 DEF ValInv
<1>5. ASSUME \A w \in Writers : ~Load(w) /\ ~Store(w) PROVE ValInv'
  <2>1. Stored' = Stored
    BY <1>5, StoredStep
  <2>2. val' = val /\ loaded' = loaded
    <3>1. ASSUME NEW r \in Readers, Reader(r) PROVE UNCHANGED <<val, loaded>>
      BY <3>1 DEF Reader, AnnounceRead, Lock, AskWriters, PollCanWrite, AwaitCanRead, SignalReaders,
        Activate, RetractRead, Unlock, Deactivate, AskReaders, StopReaders, SignalWriters, data
    <3>2. ASSUME NEW w \in Writers, Writer(w) PROVE UNCHANGED <<val, loaded>>
      BY <1>5, <3>2 DEF Writer, AnnounceWrite, AskWriter, PollCanRead, AwaitCanWrite, RetractWrite, Mark,
        Clear, HandOver, HandToReaders, HandToWriters, data
    <3>3. ASSUME NEW t \in Threads, CreateThread(t) PROVE UNCHANGED <<val, loaded>>
      BY <3>3 DEF CreateThread, data
    <3>4. CreateThreadFails \/ WaitForThreads => UNCHANGED <<val, loaded>>
      BY DEF CreateThreadFails, WaitForThreads, data
    <3> QED
      BY <3>1, <3>2, <3>3, <3>4 DEF Next
  <2> QED
    BY <1>2, <2>1, <2>2
<1> QED
  BY <1>3, <1>4, <1>5

-----------------------------------------------------------------------------
(* The invariant the theorems below are read from.                         *)
THEOREM Invariance == Spec => []IInv
<1>1. Init => IInv
  BY InitInv
<1>2. IInv /\ [Next]_vars => IInv'
  <2> SUFFICES ASSUME IInv, [Next]_vars PROVE IInv'
    OBVIOUS
  <2>1. CASE Next
    BY <2>1, PlaceStep, FlagStep, CountStep, MarkStep, ValStep, WakeStep DEF IInv
  <2>2. CASE UNCHANGED vars
    <3> USE <2>2 DEF vars, events, counters, data
    <3>1. PlaceInv' /\ FlagInv' /\ MarkInv'
      BY DEF IInv, PlaceInv, FlagInv, MarkInv
    <3>2. CountInv'
      BY DEF IInv, CountInv, At
    <3>3. ValInv'
      BY DEF IInv, ValInv, Stored, Stores
    <3>4. NoLostWakeup'
      BY DEF IInv, NoLostWakeup, OnItsWay
    <3> QED
      BY <3>1, <3>2, <3>3, <3>4 DEF IInv
  <2> QED
    BY <2>1, <2>2
<1> QED
  BY <1>1, <1>2, PTL DEF Spec

(* Every variable keeps to its set of values: the counters stay within the *)
(* numbers of the threads, and val within the number of the increments.    *)
THEOREM TypeCorrect == Spec => []TypeOK
<1>1. IInv => TypeOK
  <2> SUFFICES ASSUME IInv PROVE TypeOK
    OBVIOUS
  <2>1. ASSUME NEW S, IsFiniteSet(S), NEW places
        PROVE  Cardinality(At(S, places)) \in 0 .. Cardinality(S)
    <3>1. At(S, places) \in SUBSET S
      BY DEF At
    <3>2. IsFiniteSet(At(S, places)) /\ Cardinality(At(S, places)) <= Cardinality(S)
      BY <2>1, <3>1, FS_Subset
    <3>3. Cardinality(At(S, places)) \in Nat /\ Cardinality(S) \in Nat
      BY <2>1, <3>2, FS_CardinalityType
    <3> QED
      BY <3>2, <3>3
  <2>2. /\ waiting_readers \in 0 .. Cardinality(Readers)
        /\ active_readers \in 0 .. Cardinality(Readers)
        /\ waiting_writers \in 0 .. Cardinality(Writers)
    BY <2>1, ThreadFacts DEF IInv, CountInv
  <2>3. mutex \subseteq Readers /\ Cardinality(mutex) <= 1
    BY FS_EmptySet, FS_Singleton DEF IInv, FlagInv
  <2>4. /\ val \in 0 .. WRUNS * Cardinality(Writers)
        /\ loaded \in [Writers -> 0 .. WRUNS * Cardinality(Writers)]
    <3>1. /\ WRUNS \in Nat /\ Cardinality(Writers) \in Nat
          /\ Cardinality(Stored) \in Nat /\ Cardinality(Stored) <= Cardinality(Writers) * WRUNS
      BY WinMonitorAssumption, ThreadFacts, FS_CardinalityType, StoredBound
    <3>2. Cardinality(Stored) <= WRUNS * Cardinality(Writers) /\ WRUNS * Cardinality(Writers) \in Nat
      BY <3>1
    <3>3. \A x \in Nat : x <= Cardinality(Stored) => x \in 0 .. WRUNS * Cardinality(Writers)
      BY <3>1, <3>2
    <3> QED
      BY <3>3 DEF IInv, ValInv
  <2>5. /\ \A r \in Readers : runs[r] \in 0 .. RRUNS
        /\ \A w \in Writers : runs[w] \in 0 .. WRUNS
    BY ThreadFacts, WinMonitorAssumption DEF IInv, PlaceInv
  <2> QED
    BY <2>2, <2>3, <2>4, <2>5 DEF TypeOK, IInv, PlaceInv, FlagInv
<1> QED
  BY <1>1, Invariance, PTL

(* While a writer waits for can_write, it is signalled or somebody is on   *)
(* the way to signal it, for any number of readers and writers.            *)
THEOREM WakeupsKept == Spec => []NoLostWakeup
<1>1. IInv => NoLostWakeup
  BY DEF IInv
<1> QED
  BY <1>1, Invariance, PTL

-----------------------------------------------------------------------------
(* The mutex is owned by the reader that is between its Lock and Unlock.   *)
OwnerPlaces == {"ask writers", "poll can_write", "await can_read", "signal readers",
                "activate", "retract", "unlock"}
OwnerInv == \A r \in Readers : r \in mutex <=> pc[r] \in OwnerPlaces

(* The kinds of steps as to the mutex.                                     *)
LEMMA OwnerCases ==
  ASSUME PlaceInv, OwnerInv, NEW r \in Readers, Reader(r)
  PROVE  /\ \A u \in Threads \ {r} : pc'[u] = pc[u]
         /\ \/ mutex = {} /\ mutex' = {r} /\ pc'[r] \in OwnerPlaces
            \/ r \in mutex /\ mutex' = {} /\ pc'[r] \notin OwnerPlaces
            \/ mutex' = mutex /\ (pc'[r] \in OwnerPlaces <=> pc[r] \in OwnerPlaces)
<1> USE ThreadFacts DEF OwnerPlaces, Goto, Again
<1>1. DOMAIN pc = Threads /\ r \in Threads
  BY DEF PlaceInv
<1>2. CASE Lock(r)
  BY <1>1, <1>2 DEF Lock
<1>3. CASE Unlock(r)
  BY <1>1, <1>3 DEF Unlock, OwnerInv
<1>4. CASE AnnounceRead(r) \/ AwaitCanRead(r) \/ SignalReaders(r)
  BY <1>1, <1>4 DEF AnnounceRead, AwaitCanRead, SignalReaders
<1>5. CASE Activate(r) \/ RetractRead(r) \/ Deactivate(r) \/ StopReaders(r)
  BY <1>1, <1>5 DEF Activate, RetractRead, Deactivate, StopReaders
<1>6. CASE AskWriters(r)
  BY <1>1, <1>6 DEF AskWriters
<1>7. CASE PollCanWrite(r)
  BY <1>1, <1>7 DEF PollCanWrite
<1>8. CASE AskReaders(r)
  BY <1>1, <1>8 DEF AskReaders
<1>9. CASE SignalWriters(r)
  BY <1>1, <1>9 DEF SignalWriters
<1> QED
  BY <1>2, <1>3, <1>4, <1>5, <1>6, <1>7, <1>8, <1>9 DEF Reader

LEMMA OwnerStep ==
  ASSUME PlaceInv, FlagInv, OwnerInv, Next PROVE OwnerInv'
<1>0. DOMAIN pc = Threads
  BY DEF PlaceInv
<1>1. ASSUME NEW r \in Readers, Reader(r) PROVE OwnerInv'
  <2>1. \A u \in Readers \ {r} : pc'[u] = pc[u]
    BY <1>1, OwnerCases, ThreadFacts
  <2>2. CASE mutex = {} /\ mutex' = {r} /\ pc'[r] \in OwnerPlaces
    BY <2>1, <2>2 DEF OwnerInv
  <2>3. CASE r \in mutex /\ mutex' = {} /\ pc'[r] \notin OwnerPlaces
    BY <2>1, <2>3 DEF OwnerInv, FlagInv
  <2>4. CASE mutex' = mutex /\ (pc'[r] \in OwnerPlaces <=> pc[r] \in OwnerPlaces)
    BY <2>1, <2>4 DEF OwnerInv
  <2> QED
    BY <1>1, <2>2, <2>3, <2>4, OwnerCases
<1>2. ASSUME NEW w \in Writers, Writer(w) PROVE OwnerInv'
  <2>1. \A r \in Readers : pc'[r] = pc[r]
    <3>1. PICK to : pc' = [pc EXCEPT ![w] = to]
      BY <1>2, WriterMoves DEF Moves
    <3> QED
      BY <3>1, <1>0, ThreadFacts
  <2>2. UNCHANGED mutex
    BY <1>2 DEF Writer, AnnounceWrite, AskWriter, PollCanRead, AwaitCanWrite, RetractWrite, Mark,
      Load, Store, Clear, HandOver, HandToReaders, HandToWriters
  <2> QED
    BY <2>1, <2>2 DEF OwnerInv
<1>3. ASSUME NEW t \in Threads, CreateThread(t) PROVE OwnerInv'
  BY <1>0, <1>3, ThreadFacts DEF CreateThread, OwnerInv, OwnerPlaces
<1>4. CASE CreateThreadFails \/ WaitForThreads
  BY <1>4 DEF CreateThreadFails, WaitForThreads, OwnerInv
<1> QED
  BY <1>1, <1>2, <1>3, <1>4 DEF Next

(* A thread that waits: the three calls that may block.                    *)
Alive(t) == pc[t] \notin {"uncreated", "finished"}
BlockedIn(t) ==
  \/ t \in Readers /\ pc[t] = "lock" /\ mutex # {}
  \/ t \in Readers /\ pc[t] = "await can_read" /\ ~Returns(can_read)
  \/ t \in Writers /\ pc[t] = "await can_write" /\ ~Returns(can_write)
SomebodyRuns == (\E t \in Threads : Alive(t)) => \E t \in Threads : Alive(t) /\ ~BlockedIn(t)

(* There is no deadlock: while a thread has not finished, there is one in  *)
(* none of the WaitForSingleObject calls, or in one that returns.  So not  *)
(* all threads wait for each other, with the mutex taken or the event not  *)
(* signalled.                                                              *)
THEOREM NeverStuck == Spec => []SomebodyRuns
<1>1. Init => OwnerInv
  BY ThreadFacts DEF Init, OwnerInv, OwnerPlaces
<1>2. IInv /\ OwnerInv /\ [Next]_vars => OwnerInv'
  <2>1. IInv /\ OwnerInv /\ Next => OwnerInv'
    BY OwnerStep DEF IInv
  <2>2. OwnerInv /\ UNCHANGED vars => OwnerInv'
    BY DEF OwnerInv, vars
  <2> QED
    BY <2>1, <2>2
<1>3. IInv /\ OwnerInv => SomebodyRuns
  <2> SUFFICES ASSUME IInv, OwnerInv, NEW t \in Threads, Alive(t)
               PROVE  \E u \in Threads : Alive(u) /\ ~BlockedIn(u)
    BY DEF SomebodyRuns
  <2>1. can_read = "null" /\ Returns(can_read)
    BY DEF IInv, FlagInv, Returns
  <2>2. ASSUME NEW r \in Readers, pc[r] \in OwnerPlaces PROVE Alive(r) /\ ~BlockedIn(r)
    BY <2>1, <2>2, ThreadFacts DEF OwnerPlaces, Alive, BlockedIn
  <2>3. ASSUME mutex # {} PROVE \E r \in Readers : pc[r] \in OwnerPlaces
    BY <2>3 DEF IInv, FlagInv, OwnerInv
  <2>4. CASE mutex # {}
    BY <2>2, <2>3, <2>4, ThreadFacts
  <2>5. CASE mutex = {}
    <3>1. ASSUME NEW r \in Readers PROVE ~BlockedIn(r)
      BY <2>1, <2>5, ThreadFacts DEF BlockedIn
    <3>2. CASE ~BlockedIn(t)
      BY <3>2
    <3>3. CASE BlockedIn(t)
      <4>1. t \in Writers /\ pc[t] = "await can_write" /\ can_write # "signalled"
        BY <3>1, <3>3 DEF BlockedIn, Returns
      <4>2. PICK u \in Threads : OnItsWay(u)
        BY <4>1 DEF IInv, NoLostWakeup
      <4>3. CASE u \in Writers
        BY <4>2, <4>3, ThreadFacts DEF OnItsWay, Writing, Alive, BlockedIn
      <4>4. CASE u \in Readers
        BY <3>1, <4>2, <4>4, ThreadFacts DEF OnItsWay, Alive
      <4> QED
        BY <4>3, <4>4 DEF Threads
    <3> QED
      BY <3>2, <3>3
  <2> QED
    BY <2>4, <2>5
<1> QED
  BY <1>1, <1>2, <1>3, Invariance, PTL DEF Spec

-----------------------------------------------------------------------------
(* A bound on the steps a thread can still make: those to the end of its   *)
(* iteration, and no more than sixteen for every other.                    *)
Rank(place) ==
  CASE place = "uncreated" -> 15
    [] place = "sleep" -> 14
    [] place \in {"lock", "ask writer"} -> 13
    [] place \in {"ask writers", "poll can_read"} -> 12
    [] place \in {"poll can_write", "await can_write"} -> 11
    [] place = "await can_read" -> 10
    [] place = "signal readers" -> 9
    [] place = "activate" -> 8
    [] place = "retract" -> 7
    [] place \in {"unlock", "mark"} -> 6
    [] place \in {"read", "load"} -> 5
    [] place \in {"ask readers", "store"} -> 4
    [] place \in {"stop readers", "clear"} -> 3
    [] place \in {"signal writers", "hand over"} -> 2
    [] place \in {"to readers", "to writers"} -> 1
    [] place = "finished" -> 0

StepsLeft(t) == 16 * runs[t] + Rank(pc[t])

(* Along the program the ranks go down.                                    *)
Down(from, to) == Rank(to) \in Nat /\ Rank(to) < Rank(from)

(* t makes one of its steps, and nobody else does.                         *)
Counts(t) ==
  /\ StepsLeft(t)' < StepsLeft(t)
  /\ \A u \in Threads \ {t} : StepsLeft(u)' = StepsLeft(u)

LEMMA RankTypes ==
  /\ \A place \in ReaderPlaces : Rank(place) \in Nat
  /\ \A place \in WriterPlaces : Rank(place) \in Nat
BY DEF Rank, ReaderPlaces, WriterPlaces, Writing

LEMMA LeftTypes ==
  ASSUME PlaceInv, NEW t \in Threads
  PROVE  runs[t] \in Nat /\ Rank(pc[t]) \in Nat /\ StepsLeft(t) \in Nat
<1>1. pc[t] \in ReaderPlaces \/ pc[t] \in WriterPlaces
  BY DEF PlaceInv
<1>2. runs[t] \in Nat /\ Rank(pc[t]) \in Nat
  BY <1>1, RankTypes DEF PlaceInv
<1> QED
  BY <1>2 DEF StepsLeft

LEMMA GotoCounts ==
  ASSUME PlaceInv, NEW t \in Threads, NEW from, NEW to, Goto(t, from, to), runs' = runs,
         Down(from, to)
  PROVE  Counts(t)
<1>1. /\ pc[t] = from /\ pc'[t] = to /\ \A u \in Threads \ {t} : pc'[u] = pc[u]
  BY DEF Goto, PlaceInv
<1>2. runs[t] \in Nat /\ Rank(from) \in Nat
  BY <1>1, LeftTypes
<1>3. 16 * runs[t] + Rank(to) < 16 * runs[t] + Rank(from)
  BY <1>2 DEF Down
<1> QED
  BY <1>1, <1>3 DEF Counts, StepsLeft

LEMMA AgainCounts ==
  ASSUME PlaceInv, NEW t \in Threads, NEW from, Again(t, from)
  PROVE  Counts(t)
<1> DEFINE to == IF runs[t] = 1 THEN "finished" ELSE "sleep"
<1>1. /\ pc[t] = from /\ pc'[t] = to /\ \A u \in Threads \ {t} : pc'[u] = pc[u]
      /\ runs'[t] = runs[t] - 1 /\ \A u \in Threads \ {t} : runs'[u] = runs[u]
  BY DEF Again, Goto, PlaceInv
<1>2. Rank("finished") = 0 /\ Rank("sleep") = 14
  BY DEF Rank
<1>3. Rank(to) \in Nat /\ Rank(to) <= 14
  BY <1>2
<1>4. runs[t] \in Nat /\ Rank(from) \in Nat
  BY <1>1, LeftTypes
<1> HIDE DEF to
<1>5. 16 * (runs[t] - 1) + Rank(to) < 16 * runs[t] + Rank(from)
  BY <1>3, <1>4
<1> QED
  BY <1>1, <1>5 DEF Counts, StepsLeft

(* A reader's steps, and a writer's.                                       *)
LEMMA ReaderRanks ==
  /\ Down("sleep", "lock") /\ Down("lock", "ask writers")
  /\ Down("ask writers", "await can_read") /\ Down("ask writers", "poll can_write")
  /\ Down("poll can_write", "await can_read") /\ Down("poll can_write", "signal readers")
  /\ Down("await can_read", "signal readers") /\ Down("signal readers", "activate")
  /\ Down("activate", "retract") /\ Down("retract", "unlock")
  /\ Down("unlock", "read") /\ Down("read", "ask readers")
  /\ Down("ask readers", "stop readers") /\ Down("stop readers", "signal writers")
<1>1. Down("sleep", "lock") /\ Down("lock", "ask writers")
  BY DEF Rank, Down
<1>2. Down("ask writers", "await can_read") /\ Down("ask writers", "poll can_write")
  BY DEF Rank, Down
<1>3. Down("poll can_write", "await can_read") /\ Down("poll can_write", "signal readers")
  BY DEF Rank, Down
<1>4. Down("await can_read", "signal readers") /\ Down("signal readers", "activate")
  BY DEF Rank, Down
<1>5. Down("activate", "retract") /\ Down("retract", "unlock")
  BY DEF Rank, Down
<1>6. Down("unlock", "read") /\ Down("read", "ask readers")
  BY DEF Rank, Down
<1>7. Down("ask readers", "stop readers") /\ Down("stop readers", "signal writers")
  BY DEF Rank, Down
<1> QED
  BY <1>1, <1>2, <1>3, <1>4, <1>5, <1>6, <1>7

LEMMA WriterRanks ==
  /\ Down("sleep", "ask writer") /\ Down("ask writer", "await can_write")
  /\ Down("ask writer", "poll can_read") /\ Down("poll can_read", "await can_write")
  /\ Down("poll can_read", "retract") /\ Down("await can_write", "retract")
  /\ Down("retract", "mark") /\ Down("mark", "load")
  /\ Down("load", "store") /\ Down("store", "clear")
  /\ Down("clear", "hand over") /\ Down("hand over", "to readers")
  /\ Down("hand over", "to writers")
<1>1. Down("sleep", "ask writer") /\ Down("ask writer", "await can_write")
  BY DEF Rank, Down
<1>2. Down("ask writer", "poll can_read") /\ Down("poll can_read", "await can_write")
  BY DEF Rank, Down
<1>3. Down("poll can_read", "retract") /\ Down("await can_write", "retract")
  BY DEF Rank, Down
<1>4. Down("retract", "mark") /\ Down("mark", "load")
  BY DEF Rank, Down
<1>5. Down("load", "store") /\ Down("store", "clear")
  BY DEF Rank, Down
<1>6. Down("clear", "hand over") /\ Down("hand over", "to readers")
  BY DEF Rank, Down
<1>7. Down("hand over", "to writers")
  BY DEF Rank, Down
<1> QED
  BY <1>1, <1>2, <1>3, <1>4, <1>5, <1>6, <1>7

LEMMA ReaderStepCounts ==
  ASSUME PlaceInv, NEW r \in Readers, Reader(r)
  PROVE  Counts(r)
<1> USE ThreadFacts, ReaderRanks
<1>1. CASE AnnounceRead(r) \/ Lock(r)
  BY <1>1, GotoCounts DEF AnnounceRead, Lock
<1>2. CASE AskWriters(r)
  BY <1>2, GotoCounts DEF AskWriters
<1>3. CASE PollCanWrite(r)
  BY <1>3, GotoCounts DEF PollCanWrite
<1>4. CASE AwaitCanRead(r) \/ SignalReaders(r)
  BY <1>4, GotoCounts DEF AwaitCanRead, SignalReaders
<1>5. CASE Activate(r) \/ RetractRead(r) \/ Unlock(r)
  BY <1>5, GotoCounts DEF Activate, RetractRead, Unlock
<1>6. CASE Deactivate(r) \/ StopReaders(r)
  BY <1>6, GotoCounts DEF Deactivate, StopReaders
<1>7. CASE AskReaders(r)
  BY <1>7, GotoCounts, AgainCounts DEF AskReaders
<1>8. CASE SignalWriters(r)
  BY <1>8, AgainCounts DEF SignalWriters
<1> QED
  BY <1>1, <1>2, <1>3, <1>4, <1>5, <1>6, <1>7, <1>8 DEF Reader

LEMMA WriterStepCounts ==
  ASSUME PlaceInv, NEW w \in Writers, Writer(w)
  PROVE  Counts(w)
<1> USE ThreadFacts, WriterRanks
<1>1. CASE AnnounceWrite(w)
  BY <1>1, GotoCounts DEF AnnounceWrite
<1>2. CASE AskWriter(w)
  BY <1>2, GotoCounts DEF AskWriter
<1>3. CASE PollCanRead(w)
  BY <1>3, GotoCounts DEF PollCanRead
<1>4. CASE AwaitCanWrite(w) \/ RetractWrite(w) \/ Mark(w)
  BY <1>4, GotoCounts DEF AwaitCanWrite, RetractWrite, Mark
<1>5. CASE Load(w) \/ Store(w) \/ Clear(w)
  BY <1>5, GotoCounts DEF Load, Store, Clear
<1>6. CASE HandOver(w)
  BY <1>6, GotoCounts DEF HandOver
<1>7. CASE HandToReaders(w) \/ HandToWriters(w)
  BY <1>7, AgainCounts DEF HandToReaders, HandToWriters
<1> QED
  BY <1>1, <1>2, <1>3, <1>4, <1>5, <1>6, <1>7 DEF Writer

(* Every step uses up one that somebody had left, or is of main(): no      *)
(* thread goes round in circles while it waits (WaitForSingleObject is     *)
(* called without a loop around it), so that the program makes finitely    *)
(* many.  With NeverStuck this is all of AllFinish but that somebody who   *)
(* can go on does.                                                         *)
THEOREM EveryStepCounts ==
  Spec => [][/\ \A t \in Threads : StepsLeft(t)' <= StepsLeft(t)
             /\ main' # main \/ \E t \in Threads : StepsLeft(t)' < StepsLeft(t)]_vars
<1> DEFINE Fewer == /\ \A t \in Threads : StepsLeft(t)' <= StepsLeft(t)
                    /\ main' # main \/ \E t \in Threads : StepsLeft(t)' < StepsLeft(t)
<1>1. IInv /\ [Next]_vars => [Fewer]_vars
  <2> SUFFICES ASSUME IInv, Next PROVE Fewer
    OBVIOUS
  <2>0. PlaceInv
    BY DEF IInv
  <2>1. ASSUME NEW t \in Threads, Counts(t) PROVE Fewer
    <3>1. ASSUME NEW u \in Threads PROVE StepsLeft(u)' <= StepsLeft(u)
      <4>1. StepsLeft(u) \in Nat
        BY <2>0, LeftTypes
      <4>2. StepsLeft(u)' \in Nat
        <5>1. PlaceInv'
          BY <2>0, PlaceStep
        <5>2. runs'[u] \in Nat
          BY <5>1 DEF PlaceInv
        <5>3. Rank(pc'[u]) \in Nat
          <6>1. pc'[u] \in ReaderPlaces \/ pc'[u] \in WriterPlaces
            BY <5>1 DEF PlaceInv
          <6> QED
            BY <6>1, RankTypes
        <5> QED
          BY <5>2, <5>3 DEF StepsLeft
      <4>3. u = t => StepsLeft(u)' < StepsLeft(u)
        BY <2>1 DEF Counts
      <4>4. u # t => StepsLeft(u)' = StepsLeft(u)
        BY <2>1 DEF Counts
      <4> QED
        BY <4>1, <4>2, <4>3, <4>4
    <3>2. StepsLeft(t)' < StepsLeft(t)
      BY <2>1 DEF Counts
    <3> QED
      BY <3>1, <3>2
  <2>2. ASSUME NEW r \in Readers, Reader(r) PROVE Fewer
    BY <2>0, <2>1, <2>2, ReaderStepCounts, ThreadFacts
  <2>3. ASSUME NEW w \in Writers, Writer(w) PROVE Fewer
    BY <2>0, <2>1, <2>3, WriterStepCounts, ThreadFacts
  <2>4. ASSUME NEW t \in Threads, CreateThread(t) PROVE Counts(t)
    <3>1. /\ pc[t] = "uncreated" /\ pc'[t] = "sleep" /\ runs' = runs
          /\ \A u \in Threads \ {t} : pc'[u] = pc[u]
      BY <2>0, <2>4 DEF CreateThread, PlaceInv
    <3>2. Rank("uncreated") = 15 /\ Rank("sleep") = 14
      BY DEF Rank
    <3>3. runs[t] \in Nat
      BY <2>0 DEF PlaceInv
    <3>4. 16 * runs[t] + 14 < 16 * runs[t] + 15
      BY <3>3
    <3> QED
      BY <3>1, <3>2, <3>4 DEF Counts, StepsLeft
  <2>5. CASE CreateThreadFails \/ WaitForThreads
    <3>1. UNCHANGED <<pc, runs>> /\ main' # main
      BY <2>5 DEF CreateThreadFails, WaitForThreads
    <3>2. \A t \in Threads : StepsLeft(t)' = StepsLeft(t) /\ StepsLeft(t) \in Nat
      BY <2>0, <3>1, LeftTypes DEF StepsLeft
    <3> QED
      BY <3>1, <3>2
  <2> HIDE DEF Fewer
  <2> QED
    BY <2>1, <2>2, <2>3, <2>4, <2>5 DEF Next
<1> QED
  BY <1>1, Invariance, PTL DEF Spec

=============================================================================
