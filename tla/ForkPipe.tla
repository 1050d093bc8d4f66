------------------------------ MODULE ForkPipe ------------------------------
(***************************************************************************)
(* unix-lab-02/task-1.c to task-5.c: a parent forks its children.  From    *)
(* task-2 on it waits for them; in task-3 they execute another program.    *)
(* In task-4 it first opens a pipe, into which they write, and reads what  *)
(* they wrote.  In task-5 a child writes only if Ctrl+Z was pressed: the   *)
(* handler of SIGTSTP sets a flag, of which each process has its own copy  *)
(* from fork on.                                                           *)
(*                                                                         *)
(* The terminal sends Ctrl+Z to all processes at once, each of which runs  *)
(* the handler when it gets to it; the other programs have no handler and  *)
(* are stopped until they are continued, as at any pause between steps.    *)
(* Any process may be killed at any time.                                  *)
(* The messages, 25 bytes in all, fit the pipe and each is written as a    *)
(* whole; child c's is c.                                                  *)
(***************************************************************************)
EXTENDS Integers, Sequences, FiniteSets

CONSTANTS
  N,            (* the children: 2 in the code                             *)
  MaxStops      (* bound: how often Ctrl+Z is pressed                      *)

ASSUME ForkPipeAssumption == N \in Nat \ {0} /\ MaxStops \in Nat

Parent == 0
Children == 1 .. N
Procs == {Parent} \union Children

VARIABLES
  program,      (* which of the five runs                                  *)
  pc,           (* the place of each process                               *)
  ended,        (* how it ended                                            *)
  sig_flag,     (* its copy of sig_flag                                    *)
  pending,      (* has it a SIGTSTP to handle?                             *)
  forked,       (* the children forked                                     *)
  reaped,       (* those wait() has returned                               *)
  open,         (* who has which end of the pipe open                      *)
  pipe,         (* the messages in the pipe                                *)
  got,          (* what read() has returned                                *)
  sent,         (* history: the messages written                           *)
  stops

signals == <<sig_flag, pending, stops>>
family == <<forked, reaped>>
channel == <<pipe, got, sent>>
vars == <<program, pc, ended, signals, family, open, channel>>

Living(p) == pc[p] \notin {"unborn", "gone"}
Holders(end) == {p \in Procs : <<p, end>> \in open}

(* What the programs differ in: do they have a pipe, where does a child    *)
(* begin, and what does the parent do after the forks and after the waits? *)
HasPipe == program \in {"task-4", "task-5"}
ChildBegins ==
  CASE program = "task-5" -> "test"
    [] program = "task-4" -> "close"
    [] program = "task-3" -> "exec"
    [] OTHER -> "return"
AfterForks == IF program = "task-1" THEN "return" ELSE "wait"
AfterWaits == IF HasPipe THEN "close" ELSE "return"

(* In task-5, signal(SIGTSTP, sigCatch) has been called. *)
Init ==
  /\ program \in {"task-1", "task-2", "task-3", "task-4", "task-5"}
  /\ pc = [p \in Procs |-> IF p # Parent THEN "unborn"
                           ELSE IF HasPipe THEN "pipe" ELSE "fork"]
  /\ ended = [p \in Procs |-> "no"]
  /\ sig_flag = [p \in Procs |-> FALSE]
  /\ pending = [p \in Procs |-> FALSE]
  /\ forked = 0
  /\ reaped = {}
  /\ open = {}
  /\ pipe = <<>>
  /\ got = <<>>
  /\ sent = <<>>
  /\ stops = 0

Goto(p, from, to) ==
  /\ pc[p] = from
  /\ pc' = [pc EXCEPT ![p] = to]

(* A process ends, and the kernel closes its descriptors. *)
End(p, how) ==
  /\ pc' = [pc EXCEPT ![p] = "gone"]
  /\ ended' = [ended EXCEPT ![p] = how]
  /\ open' = {h \in open : h[1] # p}

-----------------------------------------------------------------------------
(* pipe(fd) *)
Pipe ==
  /\ Goto(Parent, "pipe", "fork")
  /\ open' = {Parent} \X {"read", "write"}
  /\ UNCHANGED <<program, ended, signals, family, channel>>

PipeFails ==
  /\ pc[Parent] = "pipe"
  /\ End(Parent, "failed")
  /\ UNCHANGED <<program, signals, family, channel>>

(* fork() copies the flag and the descriptors.  The kernel starts it over  *)
(* if a signal is pending, so that the handler is run before it.           *)
Fork ==
  LET c == forked + 1 IN
  /\ pc[Parent] = "fork"
  /\ ~pending[Parent]
  /\ pc' = [pc EXCEPT ![c] = ChildBegins, ![Parent] = IF c = N THEN AfterForks ELSE "fork"]
  /\ sig_flag' = [sig_flag EXCEPT ![c] = sig_flag[Parent]]
  /\ open' = open \union ({c} \X {h[2] : h \in {g \in open : g[1] = Parent}})
  /\ forked' = c
  /\ UNCHANGED <<program, ended, pending, stops, reaped, channel>>

(* exit(1), with nobody to wait for the children there are *)
ForkFails ==
  /\ pc[Parent] = "fork"
  /\ End(Parent, "failed")
  /\ UNCHANGED <<program, signals, family, channel>>

(* Mutant: one wait too few. *)
WaitAllButOne ==
  /\ pc[Parent] = "wait"
  /\ \E c \in Children \ reaped :
       /\ pc[c] = "gone"
       /\ reaped' = reaped \union {c}
  /\ pc' = [pc EXCEPT ![Parent] = IF Cardinality(reaped') >= N - 1 THEN AfterWaits ELSE "wait"]
  /\ UNCHANGED <<program, ended, signals, forked, open, channel>>

(* Mutant: a child that has not ended counts (WNOHANG). *)
WaitNoHang ==
  /\ pc[Parent] = "wait"
  /\ \E c \in Children \ reaped : reaped' = reaped \union {c}
  /\ pc' = [pc EXCEPT ![Parent] = IF Cardinality(reaped') = N THEN AfterWaits ELSE "wait"]
  /\ UNCHANGED <<program, ended, signals, forked, open, channel>>

(* wait(&status): N times, for whichever child has ended *)
Wait ==
  /\ pc[Parent] = "wait"
  /\ \E c \in Children \ reaped :
       /\ pc[c] = "gone"
       /\ reaped' = reaped \union {c}
  /\ pc' = [pc EXCEPT ![Parent] = IF Cardinality(reaped') = N THEN AfterWaits ELSE "wait"]
  /\ UNCHANGED <<program, ended, signals, forked, open, channel>>

(* Mutant: fd[1] stays open. *)
CloseNot ==
  /\ Goto(Parent, "close", "read")
  /\ UNCHANGED <<program, ended, signals, family, open, channel>>

(* close(fd[1]) *)
Close ==
  /\ Goto(Parent, "close", "read")
  /\ open' = open \ {<<Parent, "write">>}
  /\ UNCHANGED <<program, ended, signals, family, channel>>

(* read(fd[0], ...) blocks while the pipe is empty and somebody can write. *)
Read ==
  /\ pipe # <<>> \/ Holders("write") = {}
  /\ Goto(Parent, "read", "return")
  /\ got' = pipe
  /\ pipe' = <<>>
  /\ UNCHANGED <<program, ended, signals, family, open, sent>>

(* return 0 *)
Return(p) ==
  /\ pc[p] = "return"
  /\ End(p, "returned")
  /\ UNCHANGED <<program, signals, family, channel>>

-----------------------------------------------------------------------------
(* if (sig_flag) *)
Test(c) ==
  /\ Goto(c, "test", IF sig_flag[c] THEN "close" ELSE "return")
  /\ UNCHANGED <<program, ended, signals, family, open, channel>>

(* execl(...): the other program runs, and ends. *)
Exec(c) ==
  /\ Goto(c, "exec", "return")
  /\ UNCHANGED <<program, ended, signals, family, open, channel>>

ExecFails(c) ==
  /\ pc[c] = "exec"
  /\ End(c, "failed")
  /\ UNCHANGED <<program, signals, family, channel>>

(* close(fd[0]) *)
CloseRead(c) ==
  /\ c \in Children
  /\ Goto(c, "close", "write")
  /\ open' = open \ {<<c, "read">>}
  /\ UNCHANGED <<program, ended, signals, family, channel>>

(* write(fd[1], ...) *)
Write(c) ==
  /\ Holders("read") # {}
  /\ Goto(c, "write", "return")
  /\ pipe' = Append(pipe, c)
  /\ sent' = Append(sent, c)
  /\ UNCHANGED <<program, ended, signals, family, open, got>>

(* Nobody can read any more: SIGPIPE, by default, ends the writer. *)
BrokenPipe(c) ==
  /\ pc[c] = "write"
  /\ Holders("read") = {}
  /\ End(c, "broken pipe")
  /\ UNCHANGED <<program, signals, family, channel>>

-----------------------------------------------------------------------------
(* Somebody presses Ctrl+Z. *)
CtrlZ ==
  /\ program = "task-5"
  /\ stops < MaxStops
  /\ stops' = stops + 1
  /\ pending' = [p \in Procs |-> pending[p] \/ Living(p)]
  /\ UNCHANGED <<program, pc, ended, sig_flag, family, open, channel>>

(* The handler; the call it interrupts is restarted. *)
sigCatch(p) ==
  /\ Living(p)
  /\ pending[p]
  /\ pending' = [pending EXCEPT ![p] = FALSE]
  /\ sig_flag' = [sig_flag EXCEPT ![p] = TRUE]
  /\ UNCHANGED <<program, pc, ended, stops, family, open, channel>>

Kill(p) ==
  /\ Living(p)
  /\ End(p, "killed")
  /\ UNCHANGED <<program, signals, family, channel>>

-----------------------------------------------------------------------------
ParentStep ==
  Pipe \/ PipeFails \/ Fork \/ ForkFails \/ Wait \/ Close \/ Read \/ Return(Parent)
ChildStep(c) ==
  \/ Test(c) \/ Exec(c) \/ ExecFails(c)
  \/ CloseRead(c) \/ Write(c) \/ BrokenPipe(c) \/ Return(c)

Next ==
  \/ ParentStep
  \/ \E c \in Children : ChildStep(c)
  \/ CtrlZ
  \/ \E p \in Procs : sigCatch(p) \/ Kill(p)

Spec == Init /\ [][Next]_vars

(* Every process keeps running and takes its signals. *)
FairSpec ==
  /\ Spec
  /\ WF_vars(ParentStep)
  /\ \A c \in Children : WF_vars(ChildStep(c))
  /\ \A p \in Procs : WF_vars(sigCatch(p))

-----------------------------------------------------------------------------
TypeOK ==
  /\ program \in {"task-1", "task-2", "task-3", "task-4", "task-5"}
  /\ pc \in [Procs -> {"unborn", "pipe", "fork", "wait", "close", "read", "test", "exec",
                       "write", "return", "gone"}]
  /\ ended \in [Procs -> {"no", "returned", "failed", "killed", "broken pipe"}]
  /\ sig_flag \in [Procs -> BOOLEAN]
  /\ pending \in [Procs -> BOOLEAN]
  /\ forked \in 0 .. N
  /\ reaped \subseteq {c \in Children : pc[c] = "gone"}
  /\ open \subseteq {p \in Procs : Living(p)} \X {"read", "write"}
  /\ \A s \in {pipe, got, sent} : s \in Seq(Children)
  /\ stops \in 0 .. MaxStops

(* What the parent's one read() returns is all that its children ever      *)
(* write, in the order in which they do, whichever of them were killed or  *)
(* saw no Ctrl+Z; no child finds the pipe broken that has a parent; and no *)
(* child outlives a parent that waits for it and is not killed or failed.  *)
HasRead == HasPipe /\ (pc[Parent] = "return" \/ ended[Parent] = "returned")
NothingLost ==
  /\ HasRead => got = sent
  /\ \A c \in Children :
       /\ ended[c] = "broken pipe" => ended[Parent] \in {"failed", "killed"}
       /\ ended[Parent] = "returned" /\ program # "task-1" => ended[c] # "no"

(* The parent ends, also if no child writes anything or executes anything: *)
(* read() then returns at once, since nobody can write any more.           *)
ParentEnds == <>(pc[Parent] = "gone")

=============================================================================
