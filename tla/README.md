# Models of the operating-systems course programs

This directory holds TLA+ models of the concurrent programs of the repository
(`unix-lab-02` to `unix-lab-06`) and of two sequential ones, the TLC
configurations that check them, and proofs about each of them.  Paths below are relative to `src/`.

## 1. The system

The repository is a set of small independent C programs. Most consist of
processes or threads that share state; two are sequential programs on queues and
stacks.

| Program | State | Operations | Interaction |
|---|---|---|---|
| Bakery server, `unix-lab-06/bakery/bakery_server.c`, `bakery_svc.c` | `choosing`, `number`, `num`, `symbol`, `threads_results`, `workers`, two indices | `get_number_1_svc`, `wait_queue_1_svc`, `bakery_res_1_svc`, and `bakery()` in a thread for each queued ticket | One dispatcher thread (`svc_run`) executes requests one at a time; it shares memory with the threads it starts; `pthread_join` |
| Bakery client, `bakery_client.c`, `bakery_clnt.c` | its ticket, number and letter | three remote calls in a row | UDP datagrams, repeated by `clnt_call`; `TIMEOUT` of 25 s |
| Producers and consumers, `unix-lab-04/pc.c` | `ptr_prod`, `ptr_cons`, `alfa`, the cells; semaphores SB, SE, SF | `producer`, `consumer` | Forked processes, System V shared memory and semaphores |
| Readers and writers, `unix-lab-04/rw.c` | an `int`; five semaphores, which outlive the program | `reader`, `writer` | Same |
| Readers and writers, `unix-lab-05/main.c` | `val`, three counters, a flag, a mutex, two events | `startRead`, `stopRead`, `startWrite`, `stopWirite` | Windows threads |
| Parent and children, `unix-lab-02/task-1.c` to `task-5.c` | a pipe; a flag in each process | `fork`, `wait`, `execl`, `write`, `read`, `sigCatch` | Pipe, exit of children, Ctrl+Z to all processes |
| Daemon, `unix-lab-03/main.c` | lock and pid file, signal masks and dispositions | `daemonize`, `already_running`, `thr_fn` | Other instances through the lock; signals from outside |
| Service with two queues, `unix-lab-02/task3/lab_05_02` | timers, counters; two pointers of each ring, or two lists and the freed addresses | arrivals, service, the step of time | None: one loop |
| Conversion to postfix, `unix-lab-02/task3/lab_4_9` | a stack by array or by list, the result | a step for each character and each operator popped | None: one function |

`task-3.c` executes the last two programs, in two processes that share nothing.

Not modelled: `unix-lab-01` (two endless prints), the menus and time
measurements of the two sequential programs, the disassembled timer interrupt of
`lab-01/src`, generated RPC conversion code, and course reports. Section 8 says
why, and what is planned.

What is hard about these programs:

* interleavings of single memory accesses (bakery, Windows monitor);
* blocking of a single dispatcher on a thread that waits for a request the
  dispatcher has yet to read (bakery);
* calls that are lost, repeated, or executed after the caller is gone (bakery);
* `semop`'s all-or-nothing semantics, its unchecked failures, and semaphores that
  outlive a run (`rw.c`), or that a dead process holds (`pc.c`);
* wakeups that can be lost, and a handle that is not one (Windows monitor);
* a flag that is set in some children and not in others, and a read that waits for
  writers that may never write (parent and children);
* signals that coalesce or arrive in an unprotected window, and a lock that must
  outlive neither its owner nor its file (daemon);
* pointers of a ring that are compared too late and wrap relative to the wrong
  cell, and timers that tie (two queues);
* an operator read from the wrong end of the stack, and unbalanced input (postfix).

`PROJECT.json` lists them under `hazards`, each with its line.

What makes each correct:

* bakery: one customer is served at a time, in ticket order; no letter is given
  twice; whoever queues is served;
* producers and consumers: a bounded FIFO buffer; whatever is produced is consumed;
* readers and writers: writers exclude each other and lose no update, readers and
  writers exclude each other, nobody starves;
* parent and children: all that is written is read, and the parent ends;
* daemon: one instance; the pid file names it; SIGHUP is always heard, SIGTERM
  always obeyed;
* two queues: whoever waits is seen to wait, nobody is served who has not come, and
  the simulation ends;
* postfix: the result is the expression in postorder, and fits its buffer.

Several of these do not hold of the code. Where a README of the repository
claims one of those, a run shows the claim violated (section 4). Where none
does, the properties state what does hold.

## 2. Modules

| Module | Models | Uses |
|---|---|---|
| `NowServing` | what the bakery promises (abstract) | |
| `BakeryServer` | `bakery_server.c` | `NowServing` as a refinement target |
| `BakerySystem` | clients, datagrams, dispatcher; composes them with the server | extends `BakeryServer` |
| `BakeryProofs` | theorems about `BakeryServer` and `BakerySystem` | extends `BakerySystem` |
| `SysVSem` | `semop` as `pc.c` and `rw.c` use it (external) | |
| `BoundedBuffer` | a bounded FIFO buffer (abstract) | |
| `ProducerConsumer` | `pc.c` | `SysVSem`; `BoundedBuffer` as a refinement target |
| `ProducerConsumerProofs` | theorems about `ProducerConsumer` | extends `ProducerConsumer` |
| `ReadersWriters` | `rw.c` | `SysVSem` |
| `ReadersWritersProofs` | theorems about `ReadersWriters` | extends `ReadersWriters` |
| `WinMonitor` | `unix-lab-05/main.c` | |
| `WinMonitorProofs` | theorems about `WinMonitor` | extends `WinMonitor` |
| `ForkPipe` | `unix-lab-02/task-1.c` to `task-5.c` | |
| `ForkPipeProofs` | theorems about `ForkPipe` | extends `ForkPipe` |
| `Daemon` | `unix-lab-03/main.c` | |
| `DaemonProofs` | theorems about `Daemon` | extends `Daemon` |
| `TwoQueues` | `lab_05_02/src/array.c`, `list.c` | |
| `TwoQueuesProofs` | theorems about `TwoQueues` | extends `TwoQueues` |
| `Postfix` | `lab_4_9/array_operations.c`, `list_operations.c` | |
| `PostfixProofs` | theorems about `Postfix` | extends `Postfix` |
| `MC*` | instances for TLC | the module of the same name |

Definitions marked "Mutant" are faulty variants of the definition that follows
them. They are not part of any specification: they document which error each
property would catch.

### 2.1 The bakery server

Everything `get_number` does happens on the dispatcher's thread, one call after
another: unlike in Lamport's algorithm no two tickets are ever chosen at the same
time. What runs concurrently is `get_number` with the threads in `bakery()`, and
these with each other. `dpc`, `scan`, `max` are the place and the locals of the
dispatcher; `wpc[w]` and `wscan[w]` the place and the `j` of the thread whose
argument is `threads_results[w]`.

An action makes at most one access to memory two threads share. The build is
unoptimised (`Makefile.bakery` sets `-g` only), so every access in the source is
made, and made there; the two loads of `number[j]` (lines 45, 46) and the three
of line 65 are actions of their own. Stores are seen in program order (the
model is sequentially consistent). On x86 a store may be delayed past a later
load of another address; the dispatcher's `choosing[i] = 1` could then become
visible late, but it protects against concurrent choosing, which does not occur:
stores become visible in order, so that whoever sees `number[i]` sees the stores
before it.

`symbol++` is one step of the model: a load and a store that nothing may
separate *because* of `MutualExclusion`, which is checked over the whole section.

`BakeryServer!Spec` assumes of its environment that a WAIT_QUEUE names a ticket
that was handed out and has not been queued. `BakerySystem` discharges it:
`UsesServerProperly` says that, restricted to the server's variables, the whole
system is a behaviour of `BakeryServer!Spec`, as long as WAIT_QUEUE is not
repeated.

### 2.2 The bakery system

A client is at one of the places of `bakery_prog_1` (`cpc`). `net[c][call]` counts
the copies of a request that are on their way. The request that is being executed
is `caller`'s. An answer either reaches a client that still waits for it or is
dropped. Time is left out: a retransmission or time-out can come whenever the
client waits. A client that times out in GET_NUMBER or BAKERY_RES dereferences
NULL and dies (lines 39, 56); one that times out in WAIT_QUEUE goes on. A
BAKERY_RES for which no thread was started joins a zero `pthread_t` and kills the
server (`up`). `MaxFailures` bounds the clients killed or timed out, `MaxSends`
how often one request is sent.

### 2.3 Producers and consumers

A place per shared access between the two `semop` calls; `semop` is one step, as
in the kernel. Cells are counted from `addr3`. The segment of 128 bytes occupies
a page, so writing goes on unpunished for `CELLS` cells and then faults. `CELLS` is 4023 in the
code: `pc.c:153` adds `sizeof(char *)` to a `char **`, so the cells begin 73 bytes into the page.
No property depends on the number. `written` and `printed` record what is stored and what is printed.
A process that dies in its critical section is at "dead in".

The consumer does not advance `ptr_cons`: it increments the letter in the first
cell. Since `alfa` is incremented as well, what consumers print is still 'a', 'b',
'c', ..., and the program implements `BoundedBuffer` on what the user sees. It
does so until `ptr_prod` leaves the page.

### 2.4 Readers and writers on semaphores

The arrays of operations are definitions, translated one to one, and `semop` is
told four of `start_read`'s five (line 41). `loaded[w]` is what a writer has loaded for
`(*shm)++`; `writes` counts the increments since `main` cleared the int, modulo its size.

The program has no end of its own, and the segment and the semaphore set outlive it. `Interrupt`
kills a run (Ctrl+C), parent and children, wherever they are. `ForkFails` ends the parent only
(`exit(1)`, lines 67-71 and 88-92): its children go on, and it waits for nobody. `Restart` is another
start of the program,
whoever is left: after an interruption nobody, after a failed fork the children of that run, and
where the program is started in a second terminal the whole of the first run. `main` then
clears the int and, a step later (`SetBinWriter`), sets BIN_WRITER to 1 under whoever is there.
`older` are the processes of earlier runs, which `InterruptOlder` may kill; `beside` says that
there were any when the latest run was started. A process that is killed is "unborn" again, which
serves the next run as a process id to fork. A run forks `COUNT_WRITERS` writers and then
`COUNT_READERS` readers, five and two in the code.

What holds of a run that is started when earlier ones are over (`Alone`) and what holds whoever else
is there are different things, and `NoLostUpdate` has a conjunct for each: one writer at a time and no
increment lost in the first case, and `OneWriterPerRun` in both. The second is not exclusion, and nothing
like it holds of runs that overlap (section 4).

### 2.5 Readers and writers on Windows events

Lines 107-109 assign to `_can_read` the value of a comparison, 0 if both events
were created, so waiting for it fails immediately and signalling it has no
effect; the model has "null" for it. `WaitForSingleObject(_, 0)` on an auto-reset
event resets it if signalled (`PollCanWrite`). `_active_readers` and
`_waiting_readers` are read outside the interlocked operations, as steps of their
own. `val++` is a load and a store.

### 2.6 The daemon

A process is what `daemonize` has forked. `lock` and `pidfile` belong to the
kernel: a process that ends, however it does, loses its lock; the file stays as it
is. `hup`, `blocked` and `pending` are the disposition of SIGHUP, the mask and the
pending signals. OTHER stands for all signals that end a process by default.
`sigwait` takes any pending signal. `Fail` is every exit on a failed system call, that of
`thr_fn` on a failing `sigwait` included;
failures of `ftruncate` are not modelled, those of `write`, which the code
ignores, are.

### 2.7 The parent and its children

The five programs are variants of one, which `program` chooses: `HasPipe`,
`ChildBegins`, `AfterForks` and `AfterWaits` say in what they differ. What
`task-3.c` executes is a step, `Exec`.

`open` says who has which end of the pipe open; a process that ends, however it
does, loses both. A message is written as a whole, as the kernel guarantees for
so few bytes, and one `read` of 800 bytes returns all there is. Ctrl+Z makes a
signal pending in all living processes at once; each runs `sigCatch` on its own
time, but before a `fork`, which the kernel restarts if a signal is pending; all
other interrupted calls are restarted too (`signal` sets SA_RESTART), except
`sleep`, which has no effect. Before line 22, and in the other four programs,
Ctrl+Z only stops the program for a while. What line 80 of `task-5.c` prints after an
empty or short `read` is what was in the array before,
the bytes of pointers; that text is left out.

### 2.8 The two queues

`Arrive1`, `Arrive2`, a service (`Serve1`, `Serve2` or none) and `Advance` are the
turns of the loop, the same in `array.c:51` and `list.c:169`. Pointers are
counted in cells from `q_1`. `arr_push` moves the pointer first; it returns before
the wrap if it meets the other one. `arr_pop` is given the other pointer as
begin. Both queues are pushed with `q_1` as begin: whether the second ever wraps
depends on whether the compiler has put `q_2` below `q_1` (`Init` takes both
choices). Cells are never written, only pointed to, so a pointer that leaves its
array does no harm that the program can see. `get_adr` keeps `N - 1` freed
addresses. Timers are whole numbers; they go below zero as in the code, and 0
stands for `EPS`, with which the lists compare them. Where `malloc` fails, `create_list` gives back
what it was given: the customer is counted and not linked, and `lost` counts that.

`PointersTell` says what the two pointers are good for. When a multiple of `N`
customers wait, the first ring looks empty. They are served later, once
another has come. For the second queue the property stops at `MAXSIZE + N`
arrivals: from then on its pointer may have wrapped to the first array, and comparing
it with the other says nothing about who waits. A list tells of all but those `lost`.

`LateTogether` says when customers come late: `get_min` takes the time of service where both
arrivals tie, so that time goes past both, at the end of a service, and never past one alone.

### 2.9 The conversion to postfix

Each character is read by one of `Operand`, `OpenParen`, `CloseParen` and
`Operator`; the loops that pop are steps that leave `i` alone. `impl` chooses the
array or the list; they differ in `TopOf` and `ClosesLoop`. Stack and result hold
places in `infix`, so that
`ArrayConverts` and `ListConverts` compare with the one right order of places, and not with
one of several that read alike. "." stands for the operators that `precedence`
does not know, which bind most.

`top_list` (`list_operations.c:46`) returns the oldest operator. `ListConverts`
says for which expressions without parentheses that matters: `1-2*3/4`, say, is
converted to `1234/*-`. With parentheses more goes wrong, as `pop_list`'s loop (line
108) drops the last operator inside if the list is then empty, and the oldest operator
may be a
parenthesis; nothing is claimed about that.

## 3. Runs that pass

| Run | Instance | Shows |
|---|---|---|
| `bakery_server` | 3 slots; requests in every order | `MutualExclusion`, `LetterMatchesTicket`; a queued customer whose predecessors queue is served; the server implements `NowServing`; `IInv`, the invariant the proofs use, of which `TypeOK` and `TicketsIncrease` are parts |
| `bakery_reliable` | 3 clients, no failure | the server either serves everybody or is wedged for good |
| `bakery_faulty` | 2 interchangeable clients, 4 slots, GET_NUMBER and BAKERY_RES sent up to twice or lost, one client killed or timed out | `InArrays`: no request finds the arrays used up; no letter twice; `OrphansBlock`: a ticket nobody will queue keeps all later customers out for ever; `UsesServerProperly` |
| `producer_consumer` | 2 producers, 2 consumers, buffer of 2, page of 4 cells, chars of 3 values, 5 letters, up to four failures | at most one process inside, counts, order, implementation of `BoundedBuffer`, the only reasons for a standstill; `ProducedIsConsumed`: each letter that was produced is printed, also if the producers stop for good outside their critical sections, as long as a consumer is left and nobody dies inside; if the producers go on and nothing fails, the end is a producer dead with SB taken, everybody else blocked |
| `readers_writers` | 2 readers, 2 writers, two runs, of which the second may overlap the first, failing forks, interruptions, semaphores up to 3, ints of 2 values | in a run that is alone writers exclude each other and lose no update; however runs overlap, no more writers are inside than runs were started; writers do not come in on readers until WAITING_READERS is full; a run that inherits a reader, and has nobody beside it, does nothing until then; writers go on for ever in a run that inherits nothing and is beside nobody, and in such a run the readers all hang in the end |
| `win_monitor` | 2 readers with one run, 2 writers with two; threads may fail to be created | a writer that waits is woken by somebody; all finish and `main` returns |
| `fork_pipe` | the five programs, 3 children (2 in the code), Ctrl+Z twice, anybody killed, failing calls | the parent reads all that is ever written; no child with a living parent gets SIGPIPE; no child outlives a parent that waits; the parent ends |
| `daemon` | 3 commands, 2 signals, failing calls | one daemon; pid file; SIGHUP only ends processes that are not ready; SIGHUP is heard by a daemon nothing else ends, SIGTERM obeyed |
| `two_queues` | rings of 3 cells in arrays of 4, 3 customers to serve, times of 1 to 3, `q_2` on either side, one failing `malloc` | what the server sees of the queues; customers are late only where arrivals tie; the loop ends |
| `postfix` | all well-formed expressions of up to 9 characters, all strings of up to 5 over 6 characters | the types and that the buffers suffice; the array converts correctly; the list does so without parentheses, but for exactly the expressions that `OldestMisleads` describes |

Deadlock is not checked, because each program really may stop: clients finish,
semaphores block for good, threads end, signals cease. Where it must not stop
early, a property says so (`StuckForAReason`, `ServedOrWedged`, `AllFinish`).

Why the bounds are enough to be of interest:

* Three tickets are the least with a first, a middle and a last: a thread that
  scans past one ticket while another leaves and a third is being chosen. The
  theorems of section 6 remove this bound.
* Two clients and four slots: a repeated GET_NUMBER makes an orphan ticket, a repeated BAKERY_RES
  steals a result or crashes the server. Two clients that may send GET_NUMBER twice take up to four
  tickets: four slots are just enough. `ArraysSuffice` proves it for any numbers. Clients
  differ in nothing but their names, and the properties of this run are safety properties, so that
  symmetry is sound.
* A buffer of 2 with 5 letters fills and empties, and the last letter leaves a
  page of 4 cells; chars of 3 values wrap in `alfa` and in the cell.
* Semaphores with a maximum of 3 reach ERANGE in a few reads, which the program
  does after 32767; two runs suffice since a run starts from what the previous
  one left, whatever it was, and two can overlap. Two values of the int tell a lost increment from none.
* Killing two of four: both producers and no consumer, one of each, or a consumer inside.
* Two writers with two writes each: a writer can meet its own earlier signal, and
  another's.
* Three children: two that agree and one that does not. Ctrl+Z twice: before and
  between the forks, or between two children's tests.
* Three commands: a daemon, its successor after a kill, and one that comes in
  between. Two signals: two SIGHUPs that coalesce, or a SIGHUP and a SIGTERM that
  compete, or two kills in a row.

* Rings of three cells in arrays of four: a ring is filled, overflows and wraps, the second
  queue passes the end of its array and gets to where the wrapping starts. Arrivals are
  one or three apart (one or two in the second queue) and service takes one or
  three: queues grow, drain, and arrivals tie. A service of the second queue never
  takes as long as `N` arrivals of the first need, or the first could fill its ring
  exactly during each and look empty for ever; with a thousand random times that is
  not to be expected.
* Nine characters hold two levels of parentheses with operators of all levels before,
  inside and after them, or five operands in a row; garbage of five characters has
  every kind of imbalance.

One thing about `win_monitor` is worth a remark. `AllFinish` holds *because* of the
missing parenthesis. With `_can_read` a real auto-reset event (the mutant
`CanReadCreated`) a reader may wait inside the mutex for a writer that
never comes, and `main` does not return.

## 4. Runs that find a violation

| Run | Claim | What the code does |
|---|---|---|
| `rw_monopoly` | `unix-lab-04/Readme.md:25`: writers have exclusive access | readers enter only while a writer is inside |
| `win_exclusive` | `unix-lab-05/Readme.md:9`: writers work in exclusive access | `_active_writer` is tested on line 66 and set on line 70 |

More places where a README and the code disagree need no run:
the exclusive access of `unix-lab-04/Readme.md:25` is not even one of writers from each other when the
program is started beside processes of another run, which a failed fork has left (`rw.c:67-71`) or
which run in another terminal, since `main` sets BIN_WRITER to 1 under them (`rw.c:133`): what is
left of it is `OneWriterPerRun`;
`unix-lab-04/Readme.md:6` says that the consumer only reads the buffer, but it
increments the letter (`pc.c:81`); `unix-lab-05/Readme.md:4` says that readers do not
read while writers wait, but they wait for that on a null handle
(`unix-lab-05/main.c:107`); `unix-lab-04/Readme.md:23` says that no reader starts while
a writer waits, but a
writer that waits in `semop` does not show in WAITING_WRITERS (`rw.c:33`);
`unix-lab-06/Readme.md:22-28` says that the number is assigned in `bakery`, in
several threads, but `get_number` assigns it on the dispatcher's thread
(`bakery_server.c:47, 84`); and lines 18-20 say that `get_number_1` is what a
client calls to get a number and a letter, but it takes two more calls to get
the letter, which may never come (`ServedOrWedged`).

## 5. Fairness

* Bakery: weak fairness of each thread and of the steps of the dispatcher once
  it has a request; threads are scheduled preemptively, and spinning threads do
  not keep others from running. In `FairSysSpec` clients make their next call,
  since all their sleeps are finite, and datagrams that are not lost are taken.
  No fairness of retransmission, loss, time-out or death.
* Semaphores: weak fairness of every process, and strong fairness of the `semop`
  calls that compete (`StartProduce`, `StartConsume`, `StartRead`, `StartWrite`).
  Linux keeps the sleepers of a set in a queue and scans it from the oldest at
  every change, so a call that becomes possible again and again is not overtaken
  for ever. No fairness of kills, failing forks, interruptions or restarts. A producer
  is only fair while it is in its critical section (`FairSpec`), so that letters have to be consumed
  without the help of producers to come; `WedgesInTheEnd` is about behaviours in which
  producers are as fair as the others (`ProducersGoOn`).
* Windows monitor: weak fairness of every thread. As threads make finitely many
  steps, which waiter an object prefers does not matter.
* Parent and children: weak fairness of every process and of its signal handler; none
  of Ctrl+Z or kills. This includes `Exec`: the programs `task-3.c` executes are taken to end. They are menus
  under `unix-lab-02/task3`, which end when the user says so; a user need not, and a token that is
  no number makes `lab_4_9/main.c` read it again for ever. `ParentEnds` of `task-3` holds if they do.
* Daemon: weak fairness of the main thread's start-up and of `thr_fn`; none of
  commands, signals or failures.
* Two queues: weak fairness of the loop, in which nothing blocks. `Postfix` states no
  fairness.

## 6. Proofs

The theorems hold for every value of the constants the assumptions of a module admit. What the
assumptions ask for beyond types is in the tables' captions. `TypeCorrect` states
`Spec => []TypeOK` in each module and `Invariance` the inductive invariant `IInv`;
they are left out of the tables. Bounds such as `MaxSends`, `MaxRuns` or `MaxSignals` stay
in the guards, but can have any value.

In each module the properties follow from `IInv` (in `PostfixProofs` from `TypeOK`, `PlacesInv` and
`ConvertInv`, each for more than the one before), some together with a further invariant that is named
below. A lemma for each part of
`IInv` says that steps preserve it. Lemmas called `...Effect` say what an operation
does to each variable; where many actions disturb a part in the same few ways, these ways are
a definition of their own (`Moves`, `Advances`), and one lemma says that every
step is one of them.

### 6.1 The bakery server: `BakeryProofs`

For every `N` in `Nat \ {0}`:

| Theorem | States |
|---|---|
| `MutuallyExclusive` | `Spec => []MutualExclusion` |
| `NumbersIncrease` | `Spec => []TicketsIncrease` |
| `LettersMatchTickets` | `Spec => []LetterMatchesTicket` |
| `AnswersCorrect` | `Spec => AnswersAreLetters` |
| `Refinement` | `Spec => ServesInOrder`: the server implements `NowServing` |

None of the properties is inductive by itself. The argument, and the parts of
`IInv` it needs:

* `ScanInv`: while `get_number` scans, every number before `scan` is at most
  `max`. The one exception is `max` loaded after a customer left (second
  load): then all tickets up to that slot are gone, as the tickets leave in
  order. So when the number is stored it exceeds all live ones, and
  `TicketsIncrease` is kept. Numbers may restart from 1, when nobody is left.
* `ThreadInv`: a thread has a ticket of its own, live until it releases it; a
  ticket that is not queued is live.
* `PassageInv`: a thread has passed an earlier ticket's slot only when that ticket
  was gone, and it stays gone (`ZeroStays`). So inside, all earlier tickets are
  gone, and two threads inside would each be the earlier: `Exclusion`.
* `LetterInv`: the letters handed out are those of tickets `0 .. Letters - 1`; the
  thread inside has ticket `Letters` (`SymbolIsNext`), since all earlier ones are
  gone, which they are only with a letter, and its own has none yet.

`DispatcherMapped` and
`BakeryMapped` map each step to one of `NowServing` or to a stutter. Customers
are served when `symbol` is loaded; they leave when `number[i]` is cleared.

### 6.2 The bakery with its clients: `BakeryProofs`

In the same module, since the system's invariant contains the server's and its steps
use the server's lemmas. For any clients (at least one), any `MaxSends` and `MaxFailures`. The
theorems have the hypothesis `"wait" \notin Retried`: a repeated WAIT_QUEUE is outside
the model (section 7).

| Theorem | States |
|---|---|
| `SysInvariance` | `SysSpec => []SysIInv`, of which the types, `SysTypeOK`, are a part, while at most `N` tickets are taken, which is the bound of the model |
| `ArraysSuffice` | `SysSpec => []InArrays`: every index keeps within the arrays and none is used up, if the clients are finitely many and `Cardinality(Clients) * MaxSends <= N`: then that bound is no restriction |
| `OrphansBlockForGood` | `SysSpec => OrphansBlock` |
| `LettersDiffer` | `SysSpec => []NoLetterTwice` |
| `ProperUse` | `SysSpec => UsesServerProperly` |
| `SystemServesInOrder` | mutual exclusion, letters and `ServesInOrder` of the whole system |
| `StaysUp` | `SysSpec => []ServerStaysUp` if `Retried \subseteq {"get"}` and `MaxFailures = 0` |
| `WedgedForGood` | `SysSpec => [](Wedged => []Wedged)` |

`SysIInv` adds to the server's invariant:

* `ProtocolInv`: one WAIT_QUEUE is on its way while a client waits for the answer,
  and at most one after it has given up;
* `TicketInv`: whoever may still queue has a ticket of its own, which has been answered and
  not been queued. A late answer to a repeated GET_NUMBER overwrites nothing since a client
  takes only one; the other ticket is nobody's. With `ProtocolInv` this is all that
  `BakeryServer!Spec` asks of a WAIT_QUEUE, hence `ProperUse`, from which
  `SystemServesInOrder` follows without another look at a step;
* `GivenInv`: a letter that a client has is that of a thread joined before. Letters
  follow tickets and a thread is joined once, so the next one is given to nobody else.

`StaysUp` is a matter of counting: without failures the clients that have
queued are as many as the threads (`CountInv`), those that have finished as many
as the threads joined, and a client that asks for its letter has queued and not finished, so
there is a thread left to join (`NoSurplus`). With failures it is false, and the run
`bakery_faulty` does not claim it.

The code does not look where its arrays end. The model executes a GET_NUMBER only while `num < N`,
so that `SysInvariance` says nothing of a 31st ticket. `ArraysSuffice` says when there is none:
`Debt` has an element for each GET_NUMBER datagram on its way or still allowed to its client, and
`DebtInv` says that these and the tickets taken are never more than all that may ever be sent; since threads
are started for different tickets, there are no more of them. With fewer slots the guard does keep the
model from what the code does, which is to write past its arrays.

`Orphaned` holds of a ticket that was handed out, is not queued, and whose number no client that may
yet call WAIT_QUEUE has. No step ends that (`OrphanStep`): it would take a WAIT_QUEUE with the
ticket, which `TicketInv` leaves to its owner. The number of such a ticket stays set, so that by `PassageInv`
no thread of a later one has passed it (`OrphanKeepsOut`).

`WedgedForGood` is the part of `ServedOrWedged` that is no liveness: the dispatcher joins a thread
that waits for a ticket whose WAIT_QUEUE only the dispatcher could take.

### 6.3 Producers and consumers: `ProducerConsumerProofs`

For any producers and consumers, any `SIZE_BUF` in `1 .. SEMVMX`, any page and any char:

| Theorem | States |
|---|---|
| `CellsAreCounted` | `Spec => []CellsCounted` |
| `StuckOnlyForAReason` | `Spec => []StuckForAReason` |
| `Refinement` | `Spec => ImplementsBuffer` |
| `DeathInsideIsTheEnd` | once a child has died between its two calls of `semop`, no semaphore, cell, pointer or printed letter changes |
| `WedgedForGood` | `Spec => [](Wedged /\ AllBlocked => [](Wedged /\ AllBlocked))` |

`MutexInv` says that SB is 0 while one process, which may be dead, is in its critical
section, and that SE and SF then miss one. `SegmentInv` says for each place in the critical section
how far `ptr_prod`, `alfa` and the first cell are behind the letters written and printed
(`At`): nowhere else could `alfa` and the cell be known to agree. From it and
`LetterInv` (letters are written in order) the letter a consumer prints is the
oldest not printed, although it comes from another cell than the producer wrote to:
`Show` is a step of `BoundedBuffer`'s `Get`. `TwoOK` and the `...Effect` lemmas take `Semop2`
apart into its two operations.

`NothingAfterDeath`: as long as somebody is in the critical section, dead included, SB is 0, so no
`semop` with which one enters succeeds; the others can only die, be forked or stop. `WedgedForGood`
is the part of `WedgesInTheEnd` that is no liveness: what the program ends in is final.

### 6.4 Readers and writers on semaphores: `ReadersWritersProofs`

For finite sets of readers and writers, and any number of runs, after each other or beside each
other:

| Theorem | States |
|---|---|
| `RunsBoundWriters` | `Spec => []OneWriterPerRun`, of any runs, however they overlap |
| `UpdatesKept` | `Spec => []NoLostUpdate`: and exclusion, with no increment lost, in a run that is `Alone` |
| `InheritedRunIsDead` | `Spec => []NextRunIsDead` |
| `WritersFindNobody` | `Spec => WritersEnterAlone` |
| `FullForGood` | `Spec => [](Full => []Full)` |
| `HangsUntilAnotherRun` | `Spec => [][AllHang => AllHang' \/ \E p \in Readers : Fork(p)]_vars` |

`AloneInv`: a run that was started when nobody was there has nobody beside it. In such a run
`MutexInv` holds: BIN_WRITER is 0 exactly while the one writer is inside; and `IntInv`: what the writer has
loaded is still there when it stores. Neither survives a start beside others. What does is `RunsInv`:
a start raises BIN_WRITER by at most one, a writer that comes in takes one from it and one that leaves
gives it back, so that the writers inside and BIN_WRITER together are at most the number of starts.

`IdleInv`: nobody changes ACTIVE_WRITER
for good, and the V of WAITING_WRITERS is undone by the same call. `CountInv`:
ACTIVE_READERS is at least the number of readers inside, whichever runs they are from, until
WAITING_READERS is full, and in a run with nobody beside it exactly what the run inherited more; it is
never more than WAITING_READERS, so
that `start_read` cannot fail any sooner. `NextRunIsDead` is inductive with the
others: nobody is inside, so BIN_WRITER is 1 and `start_read` waits for a writer, and
ACTIVE_READERS is not 0 and `start_write` waits for readers, none of whom comes. It needs both its
exceptions: a reader of an earlier run that is still there takes back what was inherited, and when
WAITING_READERS is full a reader whose `start_read` failed does. `FourOK`
takes `start_read`'s call apart, `ThenErange` what makes it fail.

The last two are the part of `ReadersHang` that is no liveness. WAITING_READERS is decremented
by nobody, in this run or a later one; and where all readers wait for an ACTIVE_READERS of zero, the one
process that could raise it would be a reader that is forked anew, by another run.

### 6.5 Readers and writers on Windows events: `WinMonitorProofs`

For finite sets of readers and writers and any numbers of iterations:

| Theorem | States |
|---|---|
| `WakeupsKept` | `Spec => []NoLostWakeup` |
| `NeverStuck` | `Spec => []SomebodyRuns`: while a thread has not finished, one is in no wait, or in one that returns |
| `EveryStepCounts` | each step is `main`'s or uses up one of those a thread has left |

`CountInv` says which places each interlocked counter counts, `MarkInv` that
`_active_writer` is set only if somebody writes (not conversely), `FlagInv` that
`_can_read` is no handle. `NoLostWakeup` is inductive with them: whoever reads a counter
and leaves the signal to others finds somebody who is counted, and who is on its way
to signal in turn. `ValInv` (`val` is at most the number of stores) is for the types only.

`NeverStuck` adds `OwnerInv`: the mutex is owned by the reader between `Lock` and `Unlock`. That
reader cannot block, as the wait in between is for `_can_read`, which is no handle and returns at
once. So a reader that waits for the mutex waits for one that runs; and for a
writer that waits for `can_write`, `NoLostWakeup` names somebody who is on the way
to signal, and either runs or waits for the mutex itself.
`EveryStepCounts` has a measure: `Rank` counts backwards the places of an iteration, of which none is taken
twice, and `StepsLeft` adds what the iterations still to come can take. The two theorems
together are `AllFinish` but for the fairness it needs: that somebody who can go on
does.

### 6.6 The parent and its children: `ForkPipeProofs`

For the five programs and any number of children:

| Theorem | States |
|---|---|
| `NothingIsLost` | `Spec => []NothingLost` |
| `ParentNeverStuck` | at a `wait` there is a forked child to reap, and the `read` never blocks |

`FamilyInv`: children are born in order and all reaped once the parent is past
its waits. `OpenInv`: the parent has its reading end until it ends, so that nobody finds
the pipe broken before (`EndInv`). `PipeInv`: up to the `read`, what
is in the pipe is what has been sent; when the parent reads all children are gone, so
nothing is sent later.

`ParentNeverStuck` needs `WaitInv`: while the parent waits, all children have been forked and one is
left to reap, and when it reads it has closed its own writing end. The children have been reaped by
then, and so nobody can write. It is the part of `ParentEnds` that is no liveness.

### 6.7 The daemon: `DaemonProofs`

For any processes (at least one) and any number of signals, with or without failures:

| Theorem | States |
|---|---|
| `AlwaysOneDaemon` | `Spec => []OneDaemon` |
| `PidFileCorrect` | `Spec => []PidFileNamesNoOther` |
| `HangupSpares` | `Spec => HangupSparesDaemon`, the action part of `HangupIsHeard` |

`LockInv`: the lock's holders are the processes past `lockfile()`, and there is at
most one. `FileInv`: between `ftruncate` and `write` the file is empty, and only the holder writes
to it. `SignalInv`: where a process ignores SIGHUP or blocks signals; the places where it does
neither are those `HangupSparesDaemon` names.

### 6.8 The two queues: `TwoQueuesProofs`

For any `N` of at least 2, `MAXSIZE` of at least `N`, `LIMIT` up to `N`, and any times
above 0 to choose from:

| Theorem | States |
|---|---|
| `PointersCorrect` | `Spec => []PointersTell` |
| `LateOnlyTogether` | `Spec => []LateTogether` |
| `TimeMovesOn` | `Spec => [][Advance => \A k \in Queues : t_in'[k] < t_in[k]]_vars` |

`RingOneInv`: `pin` is the count modulo `N`, `pout` the number served, as no more are served of the first
queue than one turn. `RingTwoInv`: both pointers are as far
from `q_2` as there have come and been served, until `MAXSIZE + N` have come.
`ListInv`: a list is as long as customers wait for whom there was memory. `ModUnique`, `ModNext`, `ModDifference` and `ModTurn`
are the arithmetic of going round.

Both other theorems need `TimeInv`: a timer that has run out is started again before `get_min` looks at it,
so that what `get_min` returns, and `Advance` takes off all of them, is above 0 (`TimeMovesOn`, on which
`Finishes` rests, fairness aside). `AdvanceEffect`: it is at most both times of arrival, or these
tie and it is the time of service, which is then 0 (`LateOnlyTogether`). How far timers fall
below zero depends on the times of service, and no theorem bounds it.

### 6.9 The conversion to postfix: `PostfixProofs`

From `PostfixAssumption` (an expression is a finite string shorter than `MAXSIZE`, which the menus
check before they call):

| Theorem | States |
|---|---|
| `BuffersSuffice` | `Spec => []Fits`: neither buffer gets full, whatever is typed |
| `OrderKept` | no character is emitted twice, operands keep their order |
| `NothingIsLost` | in the end every operand is in the result, and every operator with an array, and with a list if there are no parentheses |
| `PlacesInvariance`, `ConvertInvariance` | `Spec => []PlacesInv`, `Spec => []ConvertInv` |
| `ArrayCorrect` | `Spec => []ArrayConverts`: the array version converts every well-formed expression to its postorder |
| `ListCorrect` | `Spec => []ListConverts`: the list version converts an expression without parentheses correctly exactly if `OldestMisleads` does not hold of it |

`TypeOK` is inductive as it stands because of its last part: what is on the stack
and in the result is less than what has been read. `PopTypes` and `AppendTypes` say
what a pop and a push do to the lengths. `PlacesInv` adds that the stack holds
places in the order they were read, none of them of an operand and none that has been
emitted. `OrderKept` and `NothingIsLost` are about unbalanced input as well, for which no run
claims a result.

`Postorder` is defined by taking the expression apart at the operator applied last; the program
never does that, and looks at one character after the other. The proof goes through a third
description, the order of two places: an operator at k comes out when some later character ends it
(`Ends`: the parenthesis around it is closed, or an operator beside it binds no tighter), so
that of two places the first precedes the second if it is an operand or is ended in time
(`Closed`, `Precedes`).

* *Postorder is in this order.* `PostorderInOrder` says that each stretch of the expression that is
  well-formed by itself is put in order, by induction over the length of the
  stretch; `SplitSpan` and `ParenthesisedSpan` say that its parts are such stretches,
  `LastOfAll` that the operator taken comes after the rest. There is only one sequence in this order
  (`OrderUnique`). The prover has no induction over data, so `Induction` takes the set
  of the numbers with a property, and follows from the least number outside it
  (`LeastNumber`). That the recursive function in `Postorder`
  exists is proved the same way (`OrderExists`); for that, `Postorder` is given what is done at one
  stretch by an operator, `FromParts`.
* *The program produces this order.* `Levels`: the parentheses on the stack are those not closed.
  `Sorting`: no operator on the stack has been ended yet, whatever has been emitted precedes
  what is on the stack or still to be read, and the result is in order. It holds for an array,
  whose top is the newest operator: between two parentheses the operators on the
  stack bind ever tighter, so the loop pops exactly those that the new one ends.
* *With a list* the loop compares with the oldest operator, which binds least of all that were read
  (`Weakest`); the newest is on top unless everything was popped (`Newest`). As long as the
  oldest does not mislead, the loop pops what an array would, and `Sorting` holds. Where it
  does, an operator that should have come out earlier comes out later than the one after it (`Late`) and
  the result is not the postorder. So the condition is exact.

`ConvertInv` is `PlacesInv` with these parts.

### 6.10 What is only model-checked

Every invariant and every action property of the runs of section 3 is a theorem. What is left:

* All liveness: `QueuedIsServed`, `ServedOrWedged`, `ProducedIsConsumed`,
  `WedgesInTheEnd`, `WritersProgress`, `ReadersHang`, `AllFinish`, `ParentEnds`, `TermIsObeyed`, the
  leads-to half of `HangupIsHeard`, and `Finishes`. It rests on fairness, and so on
  ENABLED, which the prover does not handle. For some of it the part without fairness is proved:
  that what it ends in is final (`WedgedForGood` of the bakery and of the buffer, `FullForGood`,
  `HangsUntilAnotherRun`), that nobody waits in vain (`NeverStuck`, `ParentNeverStuck`,
  `StuckOnlyForAReason`), or that each step uses something up (`EveryStepCounts`,
  `TimeMovesOn`).
* The two runs of section 4 are counterexamples, and prove what they show by themselves.

## 7. What is abstracted

* Sleeps, times, and text that is printed; process ids and thread ids.
* The server's 31st ticket: the arrays have 30 elements and the code does not check
  (`bakery_server.c:42, 98`); the model stops at N, which `InArrays` says is never
  reached if the clients send no more than N GET_NUMBERs.
* A repeated WAIT_QUEUE: two threads with the same ticket. `BakeryServer!Spec`
  excludes it, no run of `BakerySystem` repeats one.
* A failing `pthread_create` (`bakery_server.c:99`), whose result is not looked at:
  `idx_thread_create` has moved on, there is no thread for the ticket, and the
  `pthread_join` of that index is given what `workers` held before, with undefined effect.
* The death of a single reader or writer of `rw.c`, as opposed to that of a run or of a parent.
* A failing `malloc` in `push_list` (`list_operations.c:34-39`): `*n` is
  incremented before the pointer is looked at, and `pop_list`, which goes by `*n`, later
  dereferences NULL.
* Failures of set-up calls before there is concurrency (`shmget`, `semget`,
  `CreateMutex`, `svc_register`): the program then exits.
* `shmget` in `pc.c` is given an uninitialised key. The model starts from any
  content of the cells and no other user of the segment.
* The periodic log line of the daemon.
* The sums and averages that `lab_05_02` prints every 100 customers (the integer
  division `n_quit_2 / 100` is 0 for the first 99 of the second queue, and the lengths,
  differences of
  pointers, are wrong once a ring has wrapped).
* In `lab_4_9` the menus, and the list menu's table of freed addresses, which is only
  printed. `delete_old_memory_from_array` (line 169) exchanges an address with the place
  *behind* the last, and so puts into the table what happens to be there.
  `compare_time` (`time.c:12`) converts a string without a terminating 0.
* Numbers of more than one digit: to the conversion each character is an operand.

## 8. Plan

In this order:

1. Bakery: repeated WAIT_QUEUE, with a server model that admits two threads of one
   ticket, and what is left of the properties then.
2. `lab_4_9`: the list menu with an allocator that reuses cells, and what its table of freed
   addresses shows.
3. `lab-01/src/INT8.LST`: the tick counter with its midnight wrap, the motor
   time-out, and the order of the end-of-interrupt and the chained INT 1Ch.

Not planned: generated RPC code (no state), reports, menus and time measurements,
and `unix-lab-01` (two endless prints).
