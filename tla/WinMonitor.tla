----------------------------- MODULE WinMonitor -----------------------------
(***************************************************************************)
(* unix-lab-05/main.c: readers and writers as Windows threads, with a      *)
(* mutex, two events and interlocked counters.                             *)
(*                                                                         *)
(* For want of a parenthesis main() assigns to _can_read the value of      *)
(*   CreateEvent(...) == NULL || (_can_write = CreateEvent(...)) == NULL   *)
(* which is zero when both events could be created.  _can_read is then no  *)
(* handle at all: SetEvent and ResetEvent do nothing, and                  *)
(* WaitForSingleObject returns WAIT_FAILED at once.  An action makes one   *)
(* access to what the threads share.                                       *)
(***************************************************************************)
EXTENDS Integers, FiniteSets

CONSTANTS
  Readers, Writers,   (* the threads: three of each in the code            *)
  RRUNS, WRUNS,       (* how often each reads or writes: 7 and 8           *)
  MayFail             (* may CreateThread fail?                            *)

ASSUME WinMonitorAssumption ==
  /\ Readers \intersect Writers = {}
  /\ IsFiniteSet(Readers) /\ IsFiniteSet(Writers)
  /\ RRUNS \in Nat \ {0}
  /\ WRUNS \in Nat \ {0}
  /\ MayFail \in BOOLEAN

VARIABLES
  main,               (* main(): creating, waiting, done, or failed        *)
  pc,                 (* the place of each thread                          *)
  runs,               (* the iterations each thread has yet to make        *)
  can_read, can_write,(* the events: signalled or not, or no handle        *)
  mutex,              (* the readers that own the mutex                    *)
  waiting_readers, active_readers, waiting_writers, active_writer,
  val, loaded         (* the shared int, and what each writer has loaded   *)

events == <<can_read, can_write>>
counters == <<waiting_readers, active_readers, waiting_writers, active_writer>>
data == <<val, loaded>>
vars == <<main, pc, runs, events, mutex, counters, data>>

Threads == Readers \union Writers

(* The state of an event, or "null" where there is no handle. *)
Set(event) == IF event = "null" THEN "null" ELSE "signalled"
Reset(event) == IF event = "null" THEN "null" ELSE "reset"
(* WaitForSingleObject(event, INFINITE) returns: an auto-reset event when  *)
(* signalled, which it resets; no handle at once.                          *)
Returns(event) == event \in {"null", "signalled"}

Writing == {"load", "store", "clear"}

(* _can_read as main() leaves it; mutant: as it was meant. *)
CanReadCreated == "reset"
CanReadAtStart == "null"

Init ==
  /\ main = "creating"
  /\ pc = [t \in Threads |-> "uncreated"]
  /\ runs = [t \in Threads |-> IF t \in Readers THEN RRUNS ELSE WRUNS]
  /\ can_read = CanReadAtStart
  /\ can_write = "reset"
  /\ mutex = {}
  /\ waiting_readers = 0
  /\ active_readers = 0
  /\ waiting_writers = 0
  /\ active_writer = FALSE
  /\ val = 0
  /\ loaded = [w \in Writers |-> 0]

-----------------------------------------------------------------------------
(* main() *)
CreateThread(t) ==
  /\ main = "creating"
  /\ pc[t] = "uncreated"
  /\ t \in Writers => \A r \in Readers : pc[r] # "uncreated"
  /\ pc' = [pc EXCEPT ![t] = "sleep"]
  /\ main' = IF \A u \in Threads \ {t} : pc[u] # "uncreated" THEN "waiting" ELSE main
  /\ UNCHANGED <<runs, events, mutex, counters, data>>

(* main returns -1, which ends the process and every thread in it. *)
CreateThreadFails ==
  /\ MayFail
  /\ main = "creating"
  /\ main' = "failed"
  /\ UNCHANGED <<pc, runs, events, mutex, counters, data>>

WaitForThreads ==
  /\ main = "waiting"
  /\ \A t \in Threads : pc[t] = "finished"
  /\ main' = "done"
  /\ UNCHANGED <<pc, runs, events, mutex, counters, data>>

Goto(t, from, to) ==
  /\ main # "failed"
  /\ pc[t] = from
  /\ pc' = [pc EXCEPT ![t] = to]
  /\ UNCHANGED main

(* The end of an iteration. *)
Again(t, from) ==
  /\ Goto(t, from, IF runs[t] = 1 THEN "finished" ELSE "sleep")
  /\ runs' = [runs EXCEPT ![t] = @ - 1]

-----------------------------------------------------------------------------
(* startRead() *)
AnnounceRead(r) ==
  /\ Goto(r, "sleep", "lock")
  /\ waiting_readers' = waiting_readers + 1
  /\ UNCHANGED <<runs, events, mutex, active_readers, waiting_writers, active_writer, data>>

Lock(r) ==
  /\ Goto(r, "lock", "ask writers")
  /\ mutex = {}
  /\ mutex' = {r}
  /\ UNCHANGED <<runs, events, counters, data>>

(* _waiting_writers || ... *)
AskWriters(r) ==
  /\ Goto(r, "ask writers", IF waiting_writers # 0 THEN "await can_read" ELSE "poll can_write")
  /\ UNCHANGED <<runs, events, mutex, counters, data>>

(* ... WaitForSingleObject(_can_write, 0) == WAIT_OBJECT_0: this resets it. *)
PollCanWrite(r) ==
  /\ Goto(r, "poll can_write", IF can_write = "signalled" THEN "await can_read" ELSE "signal readers")
  /\ can_write' = Reset(can_write)
  /\ UNCHANGED <<runs, can_read, mutex, counters, data>>

AwaitCanRead(r) ==
  /\ Goto(r, "await can_read", "signal readers")
  /\ Returns(can_read)
  /\ can_read' = Reset(can_read)
  /\ UNCHANGED <<runs, can_write, mutex, counters, data>>

SignalReaders(r) ==
  /\ Goto(r, "signal readers", "activate")
  /\ can_read' = Set(can_read)
  /\ UNCHANGED <<runs, can_write, mutex, counters, data>>

Activate(r) ==
  /\ Goto(r, "activate", "retract")
  /\ active_readers' = active_readers + 1
  /\ UNCHANGED <<runs, events, mutex, waiting_readers, waiting_writers, active_writer, data>>

RetractRead(r) ==
  /\ Goto(r, "retract", "unlock")
  /\ waiting_readers' = waiting_readers - 1
  /\ UNCHANGED <<runs, events, mutex, active_readers, waiting_writers, active_writer, data>>

Unlock(r) ==
  /\ Goto(r, "unlock", "read")
  /\ mutex' = {}
  /\ UNCHANGED <<runs, events, counters, data>>

(* Mutant: the other counter is decremented. *)
DeactivateWaiting(r) ==
  /\ Goto(r, "read", "ask readers")
  /\ waiting_readers' = waiting_readers - 1
  /\ UNCHANGED <<runs, events, mutex, active_readers, waiting_writers, active_writer, data>>

(* stopRead(), after val was printed *)
Deactivate(r) ==
  /\ Goto(r, "read", "ask readers")
  /\ active_readers' = active_readers - 1
  /\ UNCHANGED <<runs, events, mutex, waiting_readers, waiting_writers, active_writer, data>>

(* if (_active_readers == 0), on a value that may have changed *)
AskReaders(r) ==
  /\ \/ active_readers = 0 /\ Goto(r, "ask readers", "stop readers") /\ UNCHANGED runs
     \/ active_readers # 0 /\ Again(r, "ask readers")
  /\ UNCHANGED <<events, mutex, counters, data>>

StopReaders(r) ==
  /\ Goto(r, "stop readers", "signal writers")
  /\ can_read' = Reset(can_read)
  /\ UNCHANGED <<runs, can_write, mutex, counters, data>>

SignalWriters(r) ==
  /\ Again(r, "signal writers")
  /\ can_write' = Set(can_write)
  /\ UNCHANGED <<can_read, mutex, counters, data>>

Reader(r) ==
  \/ AnnounceRead(r) \/ Lock(r) \/ AskWriters(r) \/ PollCanWrite(r) \/ AwaitCanRead(r)
  \/ SignalReaders(r) \/ Activate(r) \/ RetractRead(r) \/ Unlock(r) \/ Deactivate(r)
  \/ AskReaders(r) \/ StopReaders(r) \/ SignalWriters(r)

-----------------------------------------------------------------------------
(* startWrite() *)
AnnounceWrite(w) ==
  /\ Goto(w, "sleep", "ask writer")
  /\ waiting_writers' = waiting_writers + 1
  /\ UNCHANGED <<runs, events, mutex, waiting_readers, active_readers, active_writer, data>>

(* _active_writer || ... *)
AskWriter(w) ==
  /\ Goto(w, "ask writer", IF active_writer THEN "await can_write" ELSE "poll can_read")
  /\ UNCHANGED <<runs, events, mutex, counters, data>>

(* ... WaitForSingleObject(_can_read, 0) == WAIT_OBJECT_0 *)
PollCanRead(w) ==
  /\ Goto(w, "poll can_read", IF can_read = "signalled" THEN "await can_write" ELSE "retract")
  /\ can_read' = Reset(can_read)
  /\ UNCHANGED <<runs, can_write, mutex, counters, data>>

AwaitCanWrite(w) ==
  /\ Goto(w, "await can_write", "retract")
  /\ Returns(can_write)
  /\ can_write' = Reset(can_write)
  /\ UNCHANGED <<runs, can_read, mutex, counters, data>>

RetractWrite(w) ==
  /\ Goto(w, "retract", "mark")
  /\ waiting_writers' = waiting_writers - 1
  /\ UNCHANGED <<runs, events, mutex, waiting_readers, active_readers, active_writer, data>>

(* _active_writer = true *)
Mark(w) ==
  /\ Goto(w, "mark", "load")
  /\ active_writer' = TRUE
  /\ UNCHANGED <<runs, events, mutex, waiting_readers, active_readers, waiting_writers, data>>

(* val++, a load and a store *)
Load(w) ==
  /\ Goto(w, "load", "store")
  /\ loaded' = [loaded EXCEPT ![w] = val]
  /\ UNCHANGED <<runs, events, mutex, counters, val>>

Store(w) ==
  /\ Goto(w, "store", "clear")
  /\ val' = loaded[w] + 1
  /\ UNCHANGED <<runs, events, mutex, counters, loaded>>

(* stopWirite() *)
Clear(w) ==
  /\ Goto(w, "clear", "hand over")
  /\ active_writer' = FALSE
  /\ UNCHANGED <<runs, events, mutex, waiting_readers, active_readers, waiting_writers, data>>

(* Mutant: the condition is negated. *)
HandOverNegated(w) ==
  /\ Goto(w, "hand over", IF waiting_readers = 0 THEN "to readers" ELSE "to writers")
  /\ UNCHANGED <<runs, events, mutex, counters, data>>

(* if (_waiting_readers) ... *)
HandOver(w) ==
  /\ Goto(w, "hand over", IF waiting_readers # 0 THEN "to readers" ELSE "to writers")
  /\ UNCHANGED <<runs, events, mutex, counters, data>>

HandToReaders(w) ==
  /\ Again(w, "to readers")
  /\ can_read' = Set(can_read)
  /\ UNCHANGED <<can_write, mutex, counters, data>>

HandToWriters(w) ==
  /\ Again(w, "to writers")
  /\ can_write' = Set(can_write)
  /\ UNCHANGED <<can_read, mutex, counters, data>>

Writer(w) ==
  \/ AnnounceWrite(w) \/ AskWriter(w) \/ PollCanRead(w) \/ AwaitCanWrite(w)
  \/ RetractWrite(w) \/ Mark(w) \/ Load(w) \/ Store(w) \/ Clear(w)
  \/ HandOver(w) \/ HandToReaders(w) \/ HandToWriters(w)

-----------------------------------------------------------------------------
Next ==
  \/ CreateThreadFails \/ WaitForThreads
  \/ \E t \in Threads : CreateThread(t)
  \/ \E r \in Readers : Reader(r)
  \/ \E w \in Writers : Writer(w)

Spec == Init /\ [][Next]_vars

(* Every thread that can run runs.  The threads make finitely many steps,  *)
(* so it does not matter which waiter a mutex or an event prefers.         *)
FairSpec ==
  /\ Spec
  /\ WF_vars(WaitForThreads)
  /\ WF_vars(\E t \in Threads : CreateThread(t))
  /\ \A r \in Readers : WF_vars(Reader(r))
  /\ \A w \in Writers : WF_vars(Writer(w))

-----------------------------------------------------------------------------
ReaderPlaces ==
  {"uncreated", "sleep", "lock", "ask writers", "poll can_write", "await can_read",
   "signal readers", "activate", "retract", "unlock", "read", "ask readers",
   "stop readers", "signal writers", "finished"}
WriterPlaces ==
  {"uncreated", "sleep", "ask writer", "poll can_read", "await can_write", "retract", "mark",
   "hand over", "to readers", "to writers", "finished"} \union Writing

TypeOK ==
  /\ main \in {"creating", "waiting", "done", "failed"}
  /\ \A r \in Readers : pc[r] \in ReaderPlaces /\ runs[r] \in 0 .. RRUNS
  /\ \A w \in Writers : pc[w] \in WriterPlaces /\ runs[w] \in 0 .. WRUNS
  /\ can_read \in {"null", "reset", "signalled"}
  /\ can_write \in {"null", "reset", "signalled"}
  /\ mutex \subseteq Readers /\ Cardinality(mutex) <= 1
  /\ waiting_readers \in 0 .. Cardinality(Readers)
  /\ active_readers \in 0 .. Cardinality(Readers)
  /\ waiting_writers \in 0 .. Cardinality(Writers)
  /\ active_writer \in BOOLEAN
  /\ val \in 0 .. WRUNS * Cardinality(Writers)
  /\ loaded \in [Writers -> 0 .. WRUNS * Cardinality(Writers)]

(* No wakeup is lost: while a writer waits for can_write, the event is     *)
(* signalled, or some thread is on its way to signal it.  This in spite of *)
(* readers that reset the event when they only mean to look at it, and of  *)
(* writers that hand over to readers through an event that does not exist. *)
OnItsWay(t) ==
  IF t \in Writers
    THEN pc[t] \in {"poll can_read", "retract", "mark", "hand over", "to writers"} \union Writing
    ELSE pc[t] \notin {"uncreated", "sleep", "finished"}
NoLostWakeup ==
  (\E w \in Writers : pc[w] = "await can_write") =>
    can_write = "signalled" \/ \E t \in Threads : OnItsWay(t)

(* All reads and writes are made in the end, and main() returns (or fails  *)
(* to create a thread): readers wait for nothing, the null handle being no *)
(* event, and writers are always woken.                                    *)
AllFinish == <>(main \in {"done", "failed"})

(* Readme.md, line 9: writers work in exclusive access.                    *)
WritersExclusive ==
  \A v, w \in Writers : v # w => ~(pc[v] \in Writing /\ pc[w] \in Writing)

=============================================================================
