---------------------------- MODULE DaemonProofs ----------------------------
(* The theorems about Daemon, for every set of processes started, every    *)
(* number of signals sent, and system calls that fail or not.              *)
EXTENDS Daemon, TLAPS

(* The lock is held by the process that is past lockfile(), if there is    *)
(* one: it is what keeps every other out.                                  *)
LockInv ==
  /\ lock = {p \in Procs : pc[p] \in Sole}
  /\ OneDaemon

(* From ftruncate to write the file is empty, and a process that only      *)
(* opens it leaves it so.                                                  *)
FileInv ==
  /\ \A p \in Procs : pc[p] = "write" => pidfile = "empty"
  /\ PidFileNamesNoOther

(* What the process has said of its signals, at each place.                *)
SignalInv ==
  \A p \in Procs :
    /\ pc[p] \in {"open", "lock", "truncate", "write", "default"} => hup[p] = "ignore"
    /\ pc[p] \in {"create", "running"} => blocked[p]

(* A SIGHUP is counted when it is sent, and reread after that.             *)
CountInv == \A p \in Procs : reread[p] <= asked[p] /\ asked[p] <= sent

IInv == TypeOK /\ LockInv /\ FileInv /\ SignalInv /\ CountInv

-----------------------------------------------------------------------------
(* The initial state satisfies the inductive invariant. *)
LEMMA InitInv == Init => IInv
<1> SUFFICES ASSUME Init PROVE IInv
  OBVIOUS
<1> USE DaemonAssumption DEF Init, Starting, Sole
<1>1. TypeOK
  BY DEF TypeOK
<1>2. LockInv /\ FileInv
  BY DEF LockInv, OneDaemon, FileInv, PidFileNamesNoOther
<1>3. SignalInv /\ CountInv
  BY DEF SignalInv, CountInv
<1> QED
  BY <1>1, <1>2, <1>3 DEF IInv

-----------------------------------------------------------------------------
(* Where the steps lead: every step but the end of a process leaves the    *)
(* places of the others, and a process comes to hold the lock only when    *)
(* nobody holds it.                                                        *)
Advances(p) ==
  \/ pc' = pc /\ lock' = lock
  \/ /\ pc[p] \in {"unborn"} \union Starting
     /\ \E to \in Starting : pc' = [pc EXCEPT ![p] = to]
     /\ lock' = lock
  \/ /\ pc[p] \in Sole
     /\ \E to \in Sole : pc' = [pc EXCEPT ![p] = to]
     /\ lock' = lock
  \/ /\ lock = {}
     /\ \E to \in Sole : pc' = [pc EXCEPT ![p] = to]
     /\ lock' = {p}
  \/ /\ pc' = [pc EXCEPT ![p] = "gone"]
     /\ lock' = lock \ {p}

LEMMA StepAdvances ==
  ASSUME Next PROVE \E p \in Procs : Advances(p)
<1> USE DEF Advances, Goto, End, Starting, Sole, files
<1>1. ASSUME NEW p \in Procs, Fork(p) PROVE Advances(p)
  BY <1>1 DEF Fork
<1>2. ASSUME NEW p \in Procs, MainThread(p) PROVE Advances(p)
  <2>1. CASE Daemonize(p) \/ Open(p) \/ Lock(p) \/ AlreadyRunning(p)
    BY <2>1 DEF Daemonize, Open, Lock, AlreadyRunning
  <2>2. CASE Truncate(p) \/ WritePid(p) \/ RestoreDefault(p) \/ BlockSignals(p) \/ CreateThread(p)
    BY <2>2 DEF Truncate, WritePid, RestoreDefault, BlockSignals, CreateThread
  <2> QED
    BY <1>2, <2>1, <2>2 DEF MainThread
<1>3. ASSUME NEW p \in Procs, Fail(p) \/ thr_fn(p) \/ Kill(p) PROVE Advances(p)
  BY <1>3 DEF Fail, thr_fn, SigWait, Reread, Terminate, Unexpected, Kill
<1>4. ASSUME NEW p \in Procs, NEW signo \in Signals, Send(p, signo) PROVE Advances(p)
  BY <1>4 DEF Send
<1> QED
  BY <1>1, <1>2, <1>3, <1>4 DEF Next

(* The lock keeps to the process past lockfile(), so there is one of them. *)
LEMMA LockStep ==
  ASSUME TypeOK, LockInv, Next PROVE LockInv'
<1>1. PICK p \in Procs : Advances(p)
  BY StepAdvances
<1> USE DEF TypeOK, LockInv, OneDaemon, Starting, Sole
<1>2. CASE pc' = pc /\ lock' = lock
  BY <1>2
<1>3. CASE /\ pc[p] \in {"unborn"} \union Starting
           /\ \E to \in Starting : pc' = [pc EXCEPT ![p] = to]
           /\ lock' = lock
  BY <1>3
<1>4. CASE /\ pc[p] \in Sole
           /\ \E to \in Sole : pc' = [pc EXCEPT ![p] = to]
           /\ lock' = lock
  BY <1>4
<1>5. CASE /\ lock = {}
           /\ \E to \in Sole : pc' = [pc EXCEPT ![p] = to]
           /\ lock' = {p}
  <2>1. \A q \in Procs : pc[q] \notin Sole
    BY <1>5
  <2>2. PICK to \in Sole : pc' = [pc EXCEPT ![p] = to]
    BY <1>5
  <2>3. \A q \in Procs : pc'[q] \in Sole <=> q = p
    BY <2>1, <2>2
  <2>4. lock' = {q \in Procs : pc'[q] \in Sole}
    <3>1. {p} = {q \in Procs : pc'[q] \in Sole}
      BY <2>3, Zenon
    <3> QED
      BY <1>5, <3>1
  <2>5. OneDaemon'
    BY <2>3, Zenon
  <2> QED
    BY <2>4, <2>5
<1>6. CASE /\ pc' = [pc EXCEPT ![p] = "gone"]
           /\ lock' = lock \ {p}
  BY <1>6
<1> QED
  BY <1>1, <1>2, <1>3, <1>4, <1>5, <1>6 DEF Advances

-----------------------------------------------------------------------------
(* A process that opens the pid file leaves what a daemon wrote in it, and *)
(* only the one past lockfile() writes to it.                              *)
LEMMA FileStep ==
  ASSUME TypeOK, LockInv, FileInv, Next PROVE FileInv'
<1> USE DEF TypeOK, LockInv, OneDaemon, FileInv, PidFileNamesNoOther, Goto, End, Starting, Sole, files
<1>1. ASSUME NEW p \in Procs, Fork(p) PROVE FileInv'
  BY <1>1 DEF Fork
<1>2. ASSUME NEW p \in Procs, MainThread(p) PROVE FileInv'
  <2>1. CASE Daemonize(p)
    BY <2>1 DEF Daemonize
  <2>2. CASE Open(p)
    BY <2>2 DEF Open
  <2>3. CASE Lock(p)
    BY <2>3 DEF Lock
  <2>4. CASE AlreadyRunning(p)
    BY <2>4 DEF AlreadyRunning
  <2>5. CASE Truncate(p)
    BY <2>5 DEF Truncate
  <2>6. CASE WritePid(p)
    BY <2>6 DEF WritePid
  <2>7. CASE RestoreDefault(p)
    BY <2>7 DEF RestoreDefault
  <2>8. CASE BlockSignals(p)
    BY <2>8 DEF BlockSignals
  <2>9. CASE CreateThread(p)
    BY <2>9 DEF CreateThread
  <2> QED
    BY <1>2, <2>1, <2>2, <2>3, <2>4, <2>5, <2>6, <2>7, <2>8, <2>9 DEF MainThread
<1>3. ASSUME NEW p \in Procs, Fail(p) \/ thr_fn(p) \/ Kill(p) PROVE FileInv'
  BY <1>3 DEF Fail, thr_fn, SigWait, Reread, Terminate, Unexpected, Kill
<1>4. ASSUME NEW p \in Procs, NEW signo \in Signals, Send(p, signo) PROVE FileInv'
  BY <1>4 DEF Send
<1> QED
  BY <1>1, <1>2, <1>3, <1>4 DEF Next

-----------------------------------------------------------------------------
(* A process's dispositions and mask change where its main thread says so. *)
LEMMA SignalStep ==
  ASSUME TypeOK, SignalInv, Next PROVE SignalInv'
<1> USE DEF TypeOK, SignalInv, Goto, End, Starting, Sole, files, history
<1>1. ASSUME NEW p \in Procs, Fork(p) PROVE SignalInv'
  BY <1>1 DEF Fork
<1>2. ASSUME NEW p \in Procs, MainThread(p) PROVE SignalInv'
  <2>1. CASE Daemonize(p)
    BY <2>1 DEF Daemonize
  <2>2. CASE RestoreDefault(p)
    BY <2>2 DEF RestoreDefault
  <2>3. CASE BlockSignals(p)
    BY <2>3 DEF BlockSignals
  <2>4. CASE Open(p) \/ Lock(p) \/ AlreadyRunning(p) \/ Truncate(p) \/ WritePid(p) \/ CreateThread(p)
    BY <2>4 DEF Open, Lock, AlreadyRunning, Truncate, WritePid, CreateThread
  <2> QED
    BY <1>2, <2>1, <2>2, <2>3, <2>4 DEF MainThread
<1>3. ASSUME NEW p \in Procs, Fail(p) \/ thr_fn(p) \/ Kill(p) PROVE SignalInv'
  BY <1>3 DEF Fail, thr_fn, SigWait, Reread, Terminate, Unexpected, Kill
<1>4. ASSUME NEW p \in Procs, NEW signo \in Signals, Send(p, signo) PROVE SignalInv'
  BY <1>4 DEF Send
<1> QED
  BY <1>1, <1>2, <1>3, <1>4 DEF Next

(* A signal is counted once, and rereading catches up with the count.      *)
LEMMA CountStep ==
  ASSUME TypeOK, CountInv, Next PROVE CountInv'
<1> USE DEF CountInv
<1>0. /\ sent \in Int
      /\ \A p \in Procs : asked[p] \in Int /\ reread[p] \in Int
      /\ DOMAIN asked = Procs /\ DOMAIN reread = Procs
  <2>1. asked \in [Procs -> 0 .. MaxSignals] /\ reread \in [Procs -> 0 .. MaxSignals] /\ sent \in 0 .. MaxSignals
    BY Zenon DEF TypeOK
  <2> QED
    BY <2>1, DaemonAssumption
<1>1. CASE UNCHANGED <<asked, reread, sent>>
  BY <1>1
<1>2. ASSUME NEW p \in Procs, Reread(p) PROVE CountInv'
  <2>1. reread' = [reread EXCEPT ![p] = asked[p]] /\ asked' = asked /\ sent' = sent
    BY <1>2 DEF Reread
  <2>2. \A q \in Procs : reread'[q] = IF q = p THEN asked[p] ELSE reread[q]
    BY <2>1, <1>0
  <2> QED
    BY <2>1, <2>2, <1>0
<1>3. ASSUME NEW p \in Procs, Kill(p) PROVE CountInv'
  <2>1. asked' = asked /\ reread' = reread /\ sent' = sent + 1
    BY <1>3 DEF Kill
  <2> QED
    BY <2>1, <1>0
<1>4. ASSUME NEW p \in Procs, NEW signo \in Signals, Send(p, signo) PROVE CountInv'
  <2>1. sent' = sent + 1 /\ reread' = reread
    BY <1>4 DEF Send
  <2>2. asked' = asked \/ asked' = [asked EXCEPT ![p] = @ + 1]
    BY <1>4, Zenon DEF Send
  <2>3. \A q \in Procs : asked'[q] = asked[q] \/ asked'[q] = asked[q] + 1
    BY <2>2, <1>0
  <2>4. ASSUME NEW q \in Procs PROVE reread'[q] <= asked'[q] /\ asked'[q] <= sent'
    <3>1. asked[q] \in Int /\ reread[q] \in Int /\ reread[q] <= asked[q] /\ asked[q] <= sent
      BY <1>0
    <3> QED
      BY <3>1, <2>1, <2>3, <1>0
  <2> QED
    BY <2>4
<1>5. ASSUME NEW p \in Procs, Fork(p) \/ MainThread(p) \/ Fail(p)
      PROVE  UNCHANGED <<asked, reread, sent>>
  BY <1>5 DEF Fork, MainThread, Fail, Daemonize, Open, Lock, AlreadyRunning, Truncate, WritePid,
    RestoreDefault, BlockSignals, CreateThread, history
<1>6. ASSUME NEW p \in Procs, SigWait(p) \/ Terminate(p) \/ Unexpected(p)
      PROVE  UNCHANGED <<asked, reread, sent>>
  BY <1>6 DEF SigWait, Terminate, Unexpected, history
<1> QED
  BY <1>1, <1>2, <1>3, <1>4, <1>5, <1>6 DEF Next, thr_fn

(* A number below a bound can be incremented.                              *)
LEMMA UpTo ==
  ASSUME NEW m \in Nat, NEW x \in 0 .. m, x < m
  PROVE  x + 1 \in 0 .. m
  OBVIOUS

LEMMA UpToLess ==
  ASSUME NEW m \in Nat, NEW x \in 0 .. m, x < m
  PROVE  \A y \in 0 .. m : y <= x => y + 1 \in 0 .. m
  OBVIOUS

(* Every step keeps the types.                                             *)
LEMMA TypeStep ==
  ASSUME TypeOK, CountInv, Next PROVE TypeOK'
<1> USE DaemonAssumption DEF TypeOK, Goto, End, Starting, Sole, files, history
<1>1. ASSUME NEW p \in Procs, Fork(p) PROVE TypeOK'
  BY <1>1 DEF Fork
<1>2. ASSUME NEW p \in Procs, MainThread(p) PROVE TypeOK'
  <2>1. CASE Daemonize(p) \/ Open(p) \/ Lock(p) \/ AlreadyRunning(p)
    BY <2>1 DEF Daemonize, Open, Lock, AlreadyRunning
  <2>2. CASE Truncate(p) \/ WritePid(p) \/ RestoreDefault(p) \/ BlockSignals(p) \/ CreateThread(p)
    BY <2>2 DEF Truncate, WritePid, RestoreDefault, BlockSignals, CreateThread
  <2> QED
    BY <1>2, <2>1, <2>2 DEF MainThread
<1>a. sent < MaxSignals => sent + 1 \in 0 .. MaxSignals
  BY UpTo
<1>3. ASSUME NEW p \in Procs, Fail(p) \/ Kill(p) PROVE TypeOK'
  <2>1. sent' \in 0 .. MaxSignals
    BY <1>3, <1>a DEF Fail, Kill
  <2> QED
    BY <1>3, <2>1 DEF Fail, Kill
<1>4. ASSUME NEW p \in Procs, thr_fn(p) PROVE TypeOK'
  <2>1. CASE SigWait(p)
    <3>1. PICK signo \in pending[p] : /\ got' = [got EXCEPT ![p] = signo]
                                     /\ pending' = [pending EXCEPT ![p] = @ \ {signo}]
      BY <2>1 DEF SigWait
    <3>2. signo \in Signals /\ pending[p] \ {signo} \in SUBSET Signals
      OBVIOUS
    <3>3. got' \in [Procs -> {"nothing"} \union Signals] /\ pending' \in [Procs -> SUBSET Signals]
      BY <3>1, <3>2
    <3> QED
      BY <2>1, <3>3 DEF SigWait
  <2>2. CASE Reread(p)
    BY <2>2 DEF Reread
  <2>3. CASE Terminate(p)
    BY <2>3 DEF Terminate, Signals
  <2>4. CASE Unexpected(p)
    BY <2>4 DEF Unexpected
  <2> QED
    BY <1>4, <2>1, <2>2, <2>3, <2>4 DEF thr_fn
<1>5. ASSUME NEW p \in Procs, NEW signo \in Signals, Send(p, signo) PROVE TypeOK'
  <2>1. sent' \in 0 .. MaxSignals /\ sent' = sent + 1
    BY <1>5, <1>a DEF Send
  <2>2. asked' = asked \/ asked' = [asked EXCEPT ![p] = @ + 1]
    BY <1>5, Zenon DEF Send
  <2>3. asked' \in [Procs -> 0 .. MaxSignals]
    <3>1. asked[p] <= sent
      BY DEF CountInv
    <3>2. sent < MaxSignals /\ asked[p] \in 0 .. MaxSignals
      BY <1>5 DEF Send
    <3>3. \A y \in 0 .. MaxSignals : y <= sent => y + 1 \in 0 .. MaxSignals
      BY <3>2, UpToLess
    <3>4. asked[p] + 1 \in 0 .. MaxSignals
      BY <3>1, <3>2, <3>3, Zenon
    <3> QED
      BY <2>2, <3>4
  <2>4. pc' \in [Procs -> {"unborn", "gone"} \union Starting \union Sole] /\ lock' \subseteq Procs
    BY <1>5 DEF Send
  <2>5. pending' \in [Procs -> SUBSET Signals]
    <3>1. pending' = pending \/ pending' = [pending EXCEPT ![p] = @ \union {signo}]
      BY <1>5 DEF Send
    <3>2. pending[p] \union {signo} \in SUBSET Signals
      OBVIOUS
    <3> QED
      BY <3>1, <3>2
  <2>6. cause' \in [Procs -> {"none", "already running", "error", "KILL"} \union Signals]
    BY <1>5 DEF Send
  <2> QED
    BY <1>5, <2>1, <2>3, <2>4, <2>5, <2>6 DEF Send
<1> QED
  BY <1>1, <1>2, <1>3, <1>4, <1>5 DEF Next

-----------------------------------------------------------------------------
(* The invariant the theorems below are read from.                         *)
THEOREM Invariance == Spec => []IInv
<1>1. Init => IInv
  BY InitInv
<1>2. IInv /\ [Next]_vars => IInv'
  <2> SUFFICES ASSUME IInv, [Next]_vars PROVE IInv'
    OBVIOUS
  <2>1. CASE Next
    BY <2>1, LockStep, FileStep, SignalStep, CountStep, TypeStep DEF IInv
  <2>2. CASE UNCHANGED vars
    BY <2>2 DEF IInv, TypeOK, LockInv, OneDaemon, FileInv, PidFileNamesNoOther, SignalInv,
      CountInv, vars, files, history
  <2> QED
    BY <2>1, <2>2
<1> QED
  BY <1>1, <1>2, PTL DEF Spec

(* Every variable keeps to its set of values.                              *)
THEOREM TypeCorrect == Spec => []TypeOK
<1>1. IInv => TypeOK
  BY DEF IInv
<1> QED
  BY <1>1, Invariance, PTL

(* However often the command is given, and whatever fails or is killed,    *)
(* already_running() lets at most one process pass at a time.              *)
THEOREM AlwaysOneDaemon == Spec => []OneDaemon
<1>1. IInv => OneDaemon
  BY DEF IInv, LockInv
<1> QED
  BY <1>1, Invariance, PTL

(* Once a daemon has written its pid, the pid file names it or nobody.     *)
THEOREM PidFileCorrect == Spec => []PidFileNamesNoOther
<1>1. IInv => PidFileNamesNoOther
  BY DEF IInv, FileInv
<1> QED
  BY <1>1, Invariance, PTL

(* A SIGHUP ends a process only before it is ignored or between the two    *)
(* calls of main() that restore its default action and block it: the       *)
(* safety half of HangupIsHeard.                                           *)
THEOREM HangupSpares == Spec => HangupSparesDaemon
<1>1. IInv /\ [Next]_vars =>
        [\A p \in Procs : cause[p] = "none" /\ cause'[p] = "HUP" => pc[p] \in {"session", "block"}]_vars
  <2> SUFFICES ASSUME IInv, Next, NEW q \in Procs, cause[q] = "none", cause'[q] = "HUP"
               PROVE  pc[q] \in {"session", "block"}
    OBVIOUS
  <2> USE DEF IInv, TypeOK, SignalInv, End, Starting, Sole
  <2>1. ASSUME NEW p \in Procs, NEW signo \in Signals, Send(p, signo)
        PROVE  pc[q] \in {"session", "block"}
    BY <2>1 DEF Send, Alive, Signals
  <2>2. ASSUME NEW p \in Procs, Fork(p) \/ MainThread(p) PROVE FALSE
    BY <2>2 DEF Fork, MainThread, Daemonize, Open, Lock, AlreadyRunning, Truncate, WritePid,
      RestoreDefault, BlockSignals, CreateThread, history
  <2>3. ASSUME NEW p \in Procs, Fail(p) \/ thr_fn(p) \/ Kill(p) PROVE FALSE
    BY <2>3 DEF Fail, Kill, thr_fn, SigWait, Reread, Terminate, Unexpected, history
  <2> QED
    BY <2>1, <2>2, <2>3 DEF Next
<1> QED
  BY <1>1, Invariance, PTL DEF Spec, HangupSparesDaemon

=============================================================================
