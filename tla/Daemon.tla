------------------------------- MODULE Daemon -------------------------------
(***************************************************************************)
(* unix-lab-03/main.c: a daemon that keeps to one instance by a lock on    *)
(* its pid file, and leaves its signals to a thread that calls sigwait.    *)
(*                                                                         *)
(* The command may be given any number of times and every process it       *)
(* starts be sent signals from outside; the kernel keeps the lock, the     *)
(* file, and one bit for each pending signal.  The loop in main() that     *)
(* logs the time changes nothing and is left out.                          *)
(***************************************************************************)
EXTENDS Integers

CONSTANTS
  Procs,        (* the children daemonize() forks, one per command         *)
  MaxSignals,   (* bound: the signals sent                                 *)
  MayFail       (* may system calls fail?                                  *)

ASSUME DaemonAssumption ==
  /\ Procs # {}
  /\ MaxSignals \in Nat
  /\ MayFail \in BOOLEAN

VARIABLES
  pc,           (* the place of the main thread                            *)
  got,          (* the signal thr_fn has taken and not yet handled         *)
  hup,          (* the disposition of SIGHUP                               *)
  blocked,      (* are all signals blocked?                                *)
  pending,      (* the signals that wait to be taken                       *)
  lock,         (* the processes that hold the lock on LOCKFILE            *)
  pidfile,      (* "absent", "empty", or the pid in it                     *)
  asked, reread,(* histories: SIGHUPs sent from pthread_create on, and how *)
                (* many of them had been sent when it last reread          *)
  cause,        (* history: what ended the process                         *)
  sent

files == <<lock, pidfile>>
history == <<asked, reread, cause, sent>>
vars == <<pc, got, hup, blocked, pending, files, history>>

(* OTHER is any signal that ends a process by default. *)
Signals == {"HUP", "TERM", "OTHER"}

(* Places before the lock is asked for, and with the lock held. *)
Starting == {"session", "open", "lock"}
Sole == {"truncate", "write", "default", "block", "create", "running"}
Alive(p) == pc[p] \in Starting \union Sole

Init ==
  /\ pc = [p \in Procs |-> "unborn"]
  /\ got = [p \in Procs |-> "nothing"]
  /\ hup = [p \in Procs |-> "default"]
  /\ blocked = [p \in Procs |-> FALSE]
  /\ pending = [p \in Procs |-> {}]
  /\ lock = {}
  /\ pidfile = "absent"
  /\ asked = [p \in Procs |-> 0]
  /\ reread = [p \in Procs |-> 0]
  /\ cause = [p \in Procs |-> "none"]
  /\ sent = 0

Goto(p, from, to) ==
  /\ pc[p] = from
  /\ pc' = [pc EXCEPT ![p] = to]

(* The process ends, and the kernel releases its lock; nobody removes the  *)
(* pid file.                                                               *)
End(p, why) ==
  /\ pc' = [pc EXCEPT ![p] = "gone"]
  /\ cause' = [cause EXCEPT ![p] = why]
  /\ lock' = lock \ {p}
  /\ UNCHANGED pidfile

-----------------------------------------------------------------------------
(* daemonize(): the command forks and exits. *)
Fork(p) ==
  /\ Goto(p, "unborn", "session")
  /\ UNCHANGED <<got, hup, blocked, pending, files, history>>

(* setsid, signal(SIGHUP, SIG_IGN), chdir, and descriptors 0, 1 and 2. *)
Daemonize(p) ==
  /\ Goto(p, "session", "open")
  /\ hup' = [hup EXCEPT ![p] = "ignore"]
  /\ UNCHANGED <<got, blocked, pending, files, history>>

(* already_running(): open with O_CREAT *)
Open(p) ==
  /\ Goto(p, "open", "lock")
  /\ pidfile' = IF pidfile = "absent" THEN "empty" ELSE pidfile
  /\ UNCHANGED <<got, hup, blocked, pending, lock, history>>

(* Mutant: a read lock. *)
LockShared(p) ==
  /\ Goto(p, "lock", "truncate")
  /\ lock' = lock \union {p}
  /\ UNCHANGED <<got, hup, blocked, pending, pidfile, history>>

(* lockfile() *)
Lock(p) ==
  /\ lock = {}
  /\ Goto(p, "lock", "truncate")
  /\ lock' = {p}
  /\ UNCHANGED <<got, hup, blocked, pending, pidfile, history>>

(* EACCES or EAGAIN: main() logs that a daemon is running, and exits. *)
AlreadyRunning(p) ==
  /\ pc[p] = "lock"
  /\ lock # {}
  /\ End(p, "already running")
  /\ UNCHANGED <<got, hup, blocked, pending, asked, reread, sent>>

(* Mutant: the file is not truncated. *)
TruncateNot(p) ==
  /\ Goto(p, "truncate", "write")
  /\ UNCHANGED <<got, hup, blocked, pending, files, history>>

(* ftruncate(fd, 0) *)
Truncate(p) ==
  /\ Goto(p, "truncate", "write")
  /\ pidfile' = "empty"
  /\ UNCHANGED <<got, hup, blocked, pending, lock, history>>

(* Mutant: the pid that the command had before daemonize() forked. *)
WriteParentPid(p) ==
  /\ Goto(p, "write", "default")
  /\ pidfile' = "parent"
  /\ UNCHANGED <<got, hup, blocked, pending, lock, history>>

(* write of the pid: an error is not looked at. *)
WritePid(p) ==
  /\ Goto(p, "write", "default")
  /\ \/ pidfile' = p
     \/ MayFail /\ UNCHANGED pidfile
  /\ UNCHANGED <<got, hup, blocked, pending, lock, history>>

(* main(): sigaction(SIGHUP, SIG_DFL) *)
RestoreDefault(p) ==
  /\ Goto(p, "default", "block")
  /\ hup' = [hup EXCEPT ![p] = "default"]
  /\ UNCHANGED <<got, blocked, pending, files, history>>

(* Mutant: sigemptyset for sigfillset. *)
BlockNone(p) ==
  /\ Goto(p, "block", "create")
  /\ UNCHANGED <<got, hup, blocked, pending, files, history>>

(* sigfillset, pthread_sigmask(SIG_BLOCK): in force in the thread, too. *)
BlockSignals(p) ==
  /\ Goto(p, "block", "create")
  /\ blocked' = [blocked EXCEPT ![p] = TRUE]
  /\ UNCHANGED <<got, hup, pending, files, history>>

(* pthread_create of thr_fn *)
CreateThread(p) ==
  /\ Goto(p, "create", "running")
  /\ UNCHANGED <<got, hup, blocked, pending, files, history>>

(* A call fails whose result is looked at, sigwait included: exit(1). *)
Fail(p) ==
  /\ MayFail
  /\ \/ pc[p] \in Starting \union {"default", "block", "create"}
     \/ pc[p] = "running" /\ got[p] = "nothing"
  /\ End(p, "error")
  /\ UNCHANGED <<got, hup, blocked, pending, asked, reread, sent>>

-----------------------------------------------------------------------------
(* thr_fn: sigwait takes one of the pending signals, whichever. *)
SigWait(p) ==
  /\ pc[p] = "running"
  /\ got[p] = "nothing"
  /\ \E signo \in pending[p] :
       /\ got' = [got EXCEPT ![p] = signo]
       /\ pending' = [pending EXCEPT ![p] = @ \ {signo}]
  /\ UNCHANGED <<pc, hup, blocked, files, history>>

(* case SIGHUP: reread the configuration (the code says so in the log). *)
Reread(p) ==
  /\ pc[p] = "running"
  /\ got[p] = "HUP"
  /\ got' = [got EXCEPT ![p] = "nothing"]
  /\ reread' = [reread EXCEPT ![p] = asked[p]]
  /\ UNCHANGED <<pc, hup, blocked, pending, files, asked, cause, sent>>

(* Mutant: break for exit. *)
TerminateNot(p) ==
  /\ pc[p] = "running"
  /\ got[p] = "TERM"
  /\ got' = [got EXCEPT ![p] = "nothing"]
  /\ UNCHANGED <<pc, hup, blocked, pending, files, history>>

(* case SIGTERM: exit(0) *)
Terminate(p) ==
  /\ pc[p] = "running"
  /\ got[p] = "TERM"
  /\ End(p, "TERM")
  /\ UNCHANGED <<got, hup, blocked, pending, asked, reread, sent>>

(* default: log it *)
Unexpected(p) ==
  /\ pc[p] = "running"
  /\ got[p] = "OTHER"
  /\ got' = [got EXCEPT ![p] = "nothing"]
  /\ UNCHANGED <<pc, hup, blocked, pending, files, history>>

-----------------------------------------------------------------------------
(* Somebody sends a signal, which waits, is ignored, or ends the process.  *)
Send(p, signo) ==
  /\ Alive(p)
  /\ sent < MaxSignals
  /\ sent' = sent + 1
  /\ \/ /\ blocked[p]
        /\ pending' = [pending EXCEPT ![p] = @ \union {signo}]
        /\ UNCHANGED <<pc, cause, files>>
     \/ /\ ~blocked[p] /\ signo = "HUP" /\ hup[p] = "ignore"
        /\ UNCHANGED <<pc, cause, files, pending>>
     \/ /\ ~blocked[p] /\ ~(signo = "HUP" /\ hup[p] = "ignore")
        /\ End(p, signo)
        /\ UNCHANGED pending
  /\ asked' = IF signo = "HUP" /\ pc[p] \in {"create", "running"}
                THEN [asked EXCEPT ![p] = @ + 1]
                ELSE asked
  /\ UNCHANGED <<got, hup, blocked, reread>>

(* SIGKILL *)
Kill(p) ==
  /\ Alive(p)
  /\ sent < MaxSignals
  /\ sent' = sent + 1
  /\ End(p, "KILL")
  /\ UNCHANGED <<got, hup, blocked, pending, asked, reread>>

-----------------------------------------------------------------------------
MainThread(p) ==
  \/ Daemonize(p) \/ Open(p) \/ Lock(p) \/ AlreadyRunning(p) \/ Truncate(p)
  \/ WritePid(p) \/ RestoreDefault(p) \/ BlockSignals(p) \/ CreateThread(p)

thr_fn(p) == SigWait(p) \/ Reread(p) \/ Terminate(p) \/ Unexpected(p)

Next ==
  \E p \in Procs :
    \/ Fork(p) \/ MainThread(p) \/ Fail(p) \/ thr_fn(p)
    \/ Kill(p) \/ \E signo \in Signals : Send(p, signo)

Spec == Init /\ [][Next]_vars

(* Every thread keeps running; commands and signals come as they please.   *)
FairSpec ==
  /\ Spec
  /\ \A p \in Procs : WF_vars(MainThread(p)) /\ WF_vars(thr_fn(p))

-----------------------------------------------------------------------------
TypeOK ==
  /\ pc \in [Procs -> {"unborn", "gone"} \union Starting \union Sole]
  /\ got \in [Procs -> {"nothing"} \union Signals]
  /\ hup \in [Procs -> {"default", "ignore"}]
  /\ blocked \in [Procs -> BOOLEAN]
  /\ pending \in [Procs -> SUBSET Signals]
  /\ lock \subseteq Procs
  /\ pidfile \in {"absent", "empty"} \union Procs
  /\ asked \in [Procs -> 0 .. MaxSignals]
  /\ reread \in [Procs -> 0 .. MaxSignals]
  /\ cause \in [Procs -> {"none", "already running", "error", "KILL"} \union Signals]
  /\ sent \in 0 .. MaxSignals

(* There is one daemon at a time, whatever is started, killed or fails at  *)
(* whichever moment: already_running() lets no second process pass.        *)
OneDaemon == \A p, q \in Procs : pc[p] \in Sole /\ pc[q] \in Sole => p = q

(* Once a daemon has written its pid, the pid file does not name another   *)
(* process: commands given in vain leave it alone, and what a daemon that  *)
(* was killed left in it is gone, even where the write failed.             *)
PidFileNamesNoOther ==
  \A p \in Procs :
    pc[p] \in {"default", "block", "create", "running"} => pidfile \in {p, "empty"}

(* A SIGHUP ends a process before line 46 or between the lines 159 and     *)
(* 164, where its default action is in force and it is not yet blocked,    *)
(* but never a daemon that is up.                                          *)
HangupSparesDaemon ==
  [][\A p \in Procs : cause[p] = "none" /\ cause'[p] = "HUP" => pc[p] \in {"session", "block"}]_vars

(* SIGHUPs may coalesce, but unless it ends a process as above, after the  *)
(* last of them the configuration is read once more, whenever they come:   *)
(* also before the thread exists, and between sigwait and the reading.  A  *)
(* daemon that something else ends, a failing sigwait included, is exempt. *)
HangupIsHeard ==
  /\ HangupSparesDaemon
  /\ \A p \in Procs : \A k \in 1 .. MaxSignals :
       asked[p] >= k ~> reread[p] >= k \/ cause[p] \notin {"none", "HUP"}

(* A daemon that is sent a SIGTERM ends, whatever else it is sent.         *)
TermIsObeyed ==
  \A p \in Procs : "TERM" \in pending[p] ~> pc[p] = "gone"

=============================================================================
