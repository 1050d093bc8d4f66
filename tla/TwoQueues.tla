----------------------------- MODULE TwoQueues ------------------------------
(***************************************************************************)
(* unix-lab-02/task3/lab_05_02: one server and two queues, the first of    *)
(* which has priority, until LIMIT customers of the first are served.  The *)
(* queues are rings of cells (array.c) or linked lists (list.c); the loop  *)
(* is the same.  Customers carry no data: a ring is its two pointers, a    *)
(* list its length.                                                        *)
(*                                                                         *)
(* Random times come from small sets of whole numbers.  A timer may go     *)
(* below zero, as in the code.  EPS, which the lists compare with, is 0.   *)
(* Pointers are counted in cells from q_1.  Both rings are pushed with q_1 *)
(* as their begin; where q_2 is, below q_1 or above it, is the compiler's  *)
(* choice.                                                                 *)
(***************************************************************************)
EXTENDS Integers

CONSTANTS
  N,            (* the cells of a ring, and of the freed addresses kept    *)
  MAXSIZE,      (* the cells of the arrays that hold the rings             *)
  LIMIT,        (* the customers to serve: 1000, as is N                   *)
  T1, T2,       (* the times between arrivals in each queue                *)
  T3, T4,       (* the times of service for each queue                     *)
  MaxLost       (* bound: how often malloc fails in create_list            *)

ASSUME TwoQueuesAssumption ==
  /\ N \in Nat \ {0, 1}
  /\ MAXSIZE \in Nat /\ MAXSIZE >= N
  /\ LIMIT \in 1 .. N
  /\ \A T \in {T1, T2, T3, T4} : T # {} /\ T \subseteq Nat \ {0}
  /\ MaxLost \in Nat

VARIABLES
  impl,         (* start_arr_time or start_list_time                       *)
  pc,           (* the place in the loop                                   *)
  t_in,         (* the time to the next arrival in each queue              *)
  t_out,        (* the time the server is still busy                       *)
  count,        (* how many have come to each queue                        *)
  n_quit,       (* how many each has been served                           *)
  pin, pout,    (* array: the pointers of each ring                        *)
  head,         (* list: the length of each list                           *)
  lost,         (* list: how many were counted and not linked (history)    *)
  flag,         (* list: are the freed addresses kept?                     *)
  adr_num       (* list: the next cell for one                             *)

customers == <<count, n_quit>>
rings == <<pin, pout>>
lists == <<head, lost, flag, adr_num>>
vars == <<impl, pc, t_in, t_out, customers, rings, lists>>

Queues == 1 .. 2
Waiting(k) == count[k] - n_quit[k]

Init ==
  /\ impl \in {"array", "list"}
  /\ pc = "first"
  /\ t_in = [k \in Queues |-> 0]
  /\ t_out = 0
  /\ count = [k \in Queues |-> 0]
  /\ n_quit = [k \in Queues |-> 0]
  /\ \E q_2 \in {-MAXSIZE, MAXSIZE} : pin = <<0, q_2>>
  /\ pout = pin
  /\ head = [k \in Queues |-> 0]
  /\ lost = [k \in Queues |-> 0]
  /\ flag \in BOOLEAN
  /\ adr_num = 0

-----------------------------------------------------------------------------
(* The rings. *)

(* Mutant: wrapped one cell early, as get_adr does. *)
arr_push_early(in, out) ==
  IF in + 1 # out /\ in + 1 = N - 1 THEN 0 ELSE in + 1

(* A full ring is noticed when it is too late, and nobody looks at the     *)
(* ERR_LENGTH it is noticed with.                                          *)
arr_push(in, out) ==
  IF in + 1 # out /\ in + 1 = N THEN 0 ELSE in + 1

(* begin is not the first cell here but pin (line 31). *)
arr_pop(out, begin) ==
  IF out + 1 = begin + N THEN begin ELSE out + 1

(* The lists: without memory create_list returns what it was given, and    *)
(* the customer who is counted is not in the list (list.c:21-27, 94-105).  *)
Push(k) ==
  \/ /\ impl = "array"
     /\ pin' = [pin EXCEPT ![k] = arr_push(@, pout[k])]
     /\ UNCHANGED <<pout, lists>>
  \/ /\ impl = "list"
     /\ head' = [head EXCEPT ![k] = @ + 1]
     /\ UNCHANGED <<rings, lost, flag, adr_num>>
  \/ /\ impl = "list"
     /\ lost[1] + lost[2] < MaxLost
     /\ lost' = [lost EXCEPT ![k] = @ + 1]
     /\ UNCHANGED <<rings, head, flag, adr_num>>

(* Mutant: the cells are not used again. *)
get_adr_unbounded == adr_num + 1

get_adr == (IF adr_num = N - 1 THEN 0 ELSE adr_num) + 1

Pop(k) ==
  \/ /\ impl = "array"
     /\ pout' = [pout EXCEPT ![k] = arr_pop(@, pin[k])]
     /\ UNCHANGED <<pin, lists>>
  \/ /\ impl = "list"
     /\ head' = [head EXCEPT ![k] = @ - 1]
     /\ adr_num' = IF flag THEN get_adr ELSE adr_num
     /\ UNCHANGED <<rings, lost, flag>>

LooksEmpty(k) == IF impl = "array" THEN pin[k] = pout[k] ELSE head[k] = 0

-----------------------------------------------------------------------------
(* add_element_to_queue, if the time has come *)
Arrive(k, T) ==
  \/ /\ t_in[k] <= 0
     /\ \E t \in T : t_in' = [t_in EXCEPT ![k] = t]
     /\ count' = [count EXCEPT ![k] = @ + 1]
     /\ Push(k)
  \/ /\ t_in[k] > 0
     /\ UNCHANGED <<t_in, count, rings, lists>>

Arrive1 ==
  /\ pc = "first" /\ pc' = "second"
  /\ Arrive(1, T1)
  /\ UNCHANGED <<impl, t_out, n_quit>>

Arrive2 ==
  /\ pc = "second" /\ pc' = "serve"
  /\ Arrive(2, T2)
  /\ UNCHANGED <<impl, t_out, n_quit>>

(* get_time_work_exit_element *)
ServeFrom(k, T) ==
  /\ pc = "serve" /\ pc' = "advance"
  /\ t_out <= 0
  /\ ~LooksEmpty(k)
  /\ t_out' \in T
  /\ n_quit' = [n_quit EXCEPT ![k] = @ + 1]
  /\ Pop(k)
  /\ UNCHANGED <<impl, t_in, count>>

Serve1 == ServeFrom(1, T3)
Serve2 == LooksEmpty(1) /\ ServeFrom(2, T4)

(* The server is busy, or idle. *)
NoService ==
  /\ pc = "serve" /\ pc' = "advance"
  /\ \/ t_out > 0
     \/ \A k \in Queues : LooksEmpty(k)
  /\ UNCHANGED <<impl, t_in, t_out, customers, rings, lists>>

Least(S) == CHOOSE t \in S : \A u \in S : t <= u

(* Mutant: a timer that has run out counts. *)
get_min_plain(t1, t2, t3) == Least({t1, t2, t3})

(* Mutant: the test of the second time is forgotten. *)
get_min_first(t1, t2, t3) ==
  IF t1 > 0 /\ t2 > 0 /\ t3 > 0
    THEN IF t1 < t2 /\ t1 < t3 THEN t1 ELSE t3
    ELSE LET positive == {t \in {t1, t2, t3} : t > 0}
         IN  IF positive = {} THEN 0 ELSE Least(positive)

(* The least positive time, except that when two arrivals tie the time of  *)
(* service is taken, however long.                                         *)
get_min(t1, t2, t3) ==
  IF t1 > 0 /\ t2 > 0 /\ t3 > 0
    THEN IF t1 < t2 /\ t1 < t3 THEN t1
         ELSE IF t2 < t1 /\ t2 < t3 THEN t2 ELSE t3
    ELSE LET positive == {t \in {t1, t2, t3} : t > 0}
         IN  IF positive = {} THEN 0 ELSE Least(positive)

(* Time goes on, and the loop ends when enough are served. *)
Advance ==
  /\ pc = "advance"
  /\ LET t_min == get_min(t_in[1], t_in[2], t_out)
     IN  /\ t_in' = [k \in Queues |-> t_in[k] - t_min]
         /\ t_out' = t_out - t_min
  /\ pc' = IF n_quit[1] < LIMIT THEN "first" ELSE "done"
  /\ UNCHANGED <<impl, customers, rings, lists>>

-----------------------------------------------------------------------------
Next == Arrive1 \/ Arrive2 \/ Serve1 \/ Serve2 \/ NoService \/ Advance

Spec == Init /\ [][Next]_vars

(* Nothing in the loop blocks. *)
FairSpec == Spec /\ WF_vars(Next)

-----------------------------------------------------------------------------
TypeOK ==
  /\ impl \in {"array", "list"}
  /\ pc \in {"first", "second", "serve", "advance", "done"}
  /\ t_in \in [Queues -> Int]
  /\ t_out \in Int
  /\ count \in [Queues -> Nat]
  /\ n_quit \in [Queues -> Nat] /\ n_quit[1] <= LIMIT
  /\ pin \in [Queues -> Int]
  /\ pout \in [Queues -> Int]
  /\ head \in [Queues -> Nat]
  /\ lost \in [Queues -> Nat]
  /\ flag \in BOOLEAN
  /\ adr_num \in 0 .. N - 1

(* Only customers who have come are served, and the server sees whether    *)
(* any wait: a list tells of all for whom there was memory; the first ring *)
(* of all, but for a number of customers that fill it exactly, once or     *)
(* several times; the second of all as long as no more have come than      *)
(* there are cells.                                                        *)
PointersTell ==
  /\ \A k \in Queues :
       \/ n_quit[k] + lost[k] <= count[k]
       \/ k = 2 /\ impl = "array" /\ count[k] >= MAXSIZE + N
  /\ impl = "list" => \A k \in Queues : LooksEmpty(k) <=> Waiting(k) = lost[k]
  /\ impl = "array" =>
       /\ LooksEmpty(1) <=> Waiting(1) % N = 0
       /\ count[2] < MAXSIZE + N => (LooksEmpty(2) <=> Waiting(2) = 0)

(* Customers are late only in both queues at once, by equally much, and at *)
(* a moment when a service ends: time is never moved past an arrival but   *)
(* past two that tie.                                                      *)
LateTogether ==
  pc \in {"first", "done"} /\ (\E k \in Queues : t_in[k] < 0) => t_in[1] = t_in[2] /\ t_out = 0

(* LIMIT customers of the first queue are served in the end: time moves on *)
(* in every turn of the loop, also when a ring that is full looks empty.   *)
(* It takes a service of the second queue, during which the first fills,   *)
(* that is shorter than N arrivals of the first: each time in T4 is.       *)
Finishes == <>(pc = "done")

=============================================================================
