--------------------------- MODULE TwoQueuesProofs --------------------------
(* Theorems about TwoQueues, for rings of any length, any LIMIT up to it   *)
(* and any times.                                                          *)
EXTENDS TwoQueues, TLAPS

LEMMA NumberFacts ==
  /\ N \in Nat /\ N >= 2 /\ N \in Nat \ {0}
  /\ MAXSIZE \in Nat /\ MAXSIZE >= N
  /\ LIMIT \in Nat /\ LIMIT >= 1 /\ LIMIT <= N
  BY TwoQueuesAssumption

LEMMA TimeFacts ==
  \A T \in {T1, T2, T3, T4} : \A t \in T : t \in Nat
  BY TwoQueuesAssumption

-----------------------------------------------------------------------------
(* The inductive invariant.                                                *)

(* No more are served of the first queue than asked for: the loop ends.    *)
LoopInv == pc \in {"first", "second", "serve"} => n_quit[1] < LIMIT

(* The first ring: pin is where the count is, modulo N, and pout is where  *)
(* the number served is, until the last service, which may wrap.           *)
RingOneInv ==
  impl = "array" =>
    /\ n_quit[1] <= count[1]
    /\ pin[1] = count[1] % N
    /\ n_quit[1] < N => pout[1] = n_quit[1]
    /\ n_quit[1] = N => pout[1] \in {0, N} /\ (pout[1] = 0 <=> pin[1] = 0)

(* The second: both pointers go on, past the end of the array, until the   *)
(* first meets the end of the other array, where it is compared with N.    *)
RingTwoInv ==
  impl = "array" /\ count[2] < MAXSIZE + N =>
    \E q_2 \in {-MAXSIZE, MAXSIZE} :
      /\ pin[2] = q_2 + count[2]
      /\ pout[2] = q_2 + n_quit[2]
      /\ n_quit[2] <= count[2]

(* A list is as long as there are customers for whom there was memory.     *)
ListInv ==
  /\ impl = "list" => \A k \in Queues : head[k] = count[k] - n_quit[k] - lost[k]
  /\ impl = "array" => \A k \in Queues : lost[k] = 0

IInv ==
  /\ TypeOK
  /\ LoopInv
  /\ RingOneInv
  /\ RingTwoInv
  /\ ListInv

-----------------------------------------------------------------------------
(* What is left of a division is determined.                               *)
LEMMA ModUnique ==
  ASSUME NEW C \in Nat \ {0}, NEW q \in Nat, NEW r \in 0 .. C - 1
  PROVE  (C * q + r) % C = r
<1> DEFINE x == C * q + r
<1>1. x \in Nat
  OBVIOUS
<1>2. x = C * (x \div C) + (x % C) /\ x % C \in 0 .. C - 1 /\ x \div C \in Int
  BY <1>1
<1>3. C * (q - (x \div C)) = (x % C) - r
  BY <1>2
<1>4. ASSUME q - (x \div C) >= 1 PROVE FALSE
  <2>1. C * (q - (x \div C)) >= C
    BY <1>4, <1>2
  <2> QED
    BY <2>1, <1>3, <1>2
<1>5. ASSUME q - (x \div C) <= -1 PROVE FALSE
  <2>1. C * (q - (x \div C)) <= -C
    BY <1>5, <1>2
  <2> QED
    BY <2>1, <1>3, <1>2
<1>6. q - (x \div C) = 0
  BY <1>4, <1>5, <1>2
<1> QED
  BY <1>6, <1>3, <1>2

LEMMA ModFacts ==
  ASSUME NEW C \in Nat \ {0}, NEW x \in Nat
  PROVE  /\ x % C \in 0 .. C - 1
         /\ x \div C \in Nat
         /\ x = C * (x \div C) + (x % C)
  OBVIOUS

(* One customer more.                                                      *)
LEMMA ModNext ==
  ASSUME NEW C \in Nat \ {0}, NEW x \in Nat
  PROVE  (x + 1) % C = IF (x % C) + 1 = C THEN 0 ELSE (x % C) + 1
<1> DEFINE q == x \div C
           r == x % C
<1>1. x = C * q + r /\ r \in 0 .. C - 1 /\ q \in Nat
  BY ModFacts
<1> HIDE DEF q, r
<1>2. CASE r + 1 # C
  <2>1. (C * q + (r + 1)) % C = r + 1
    BY <1>1, <1>2, ModUnique
  <2>2. x + 1 = C * q + (r + 1)
    BY <1>1
  <2> QED
    BY <1>2, <2>1, <2>2 DEF r
<1>3. CASE r + 1 = C
  <2>1. (C * (q + 1) + 0) % C = 0
    BY <1>1, ModUnique
  <2>2. x + 1 = C * (q + 1) + 0
    BY <1>1, <1>3
  <2> QED
    BY <1>3, <2>1, <2>2 DEF r
<1> QED
  BY <1>2, <1>3

(* Two numbers at the same place differ by a multiple.                     *)
LEMMA ModDifference ==
  ASSUME NEW C \in Nat \ {0}, NEW x \in Nat, NEW y \in 0 .. C - 1, y <= x
  PROVE  x % C = y <=> (x - y) % C = 0
<1>1. ASSUME x % C = y PROVE (x - y) % C = 0
  <2>1. x = C * (x \div C) + y /\ x \div C \in Nat
    BY <1>1, ModFacts
  <2>2. (C * (x \div C) + 0) % C = 0
    BY <2>1, ModUnique
  <2>3. x - y = C * (x \div C) + 0
    BY <2>1
  <2> QED
    BY <2>2, <2>3
<1>2. ASSUME (x - y) % C = 0 PROVE x % C = y
  <2> DEFINE z == x - y
             q == z \div C
  <2>1. z \in Nat /\ x = z + y
    OBVIOUS
  <2>2. z = C * q + 0 /\ q \in Nat
    BY <1>2, <2>1, ModFacts
  <2>3. (C * q + y) % C = y
    BY <2>2, ModUnique
  <2>4. x = C * q + y
    BY <2>1, <2>2
  <2> QED
    BY <2>3, <2>4
<1> QED
  BY <1>1, <1>2

(* A whole turn makes no difference.                                       *)
LEMMA ModTurn ==
  ASSUME NEW C \in Nat \ {0}, NEW x \in Nat, x >= C
  PROVE  (x - C) % C = x % C
<1> DEFINE q == x \div C
           r == x % C
<1>1. x = C * q + r /\ r \in 0 .. C - 1 /\ q \in Nat
  BY ModFacts
<1> HIDE DEF q, r
<1>2. q # 0
  BY <1>1
<1>3. q - 1 \in Nat
  BY <1>1, <1>2
<1>4. (C * (q - 1) + r) % C = r
  BY <1>1, <1>3, ModUnique
<1>5. x - C = C * (q - 1) + r
  BY <1>1
<1> QED
  BY <1>4, <1>5 DEF r

-----------------------------------------------------------------------------
(* Times.                                                                  *)
LEMMA LeastOfThree ==
  ASSUME NEW a \in Int, NEW b \in Int, NEW c \in Int,
         NEW S, S \subseteq {a, b, c}, S # {}
  PROVE  Least(S) \in S
<1>1. \E t \in S : \A u \in S : t <= u
  <2>1. PICK s \in S : TRUE
    OBVIOUS
  <2>2. CASE a \in S /\ (b \in S => a <= b) /\ (c \in S => a <= c)
    BY <2>2
  <2>3. CASE b \in S /\ (a \in S => b <= a) /\ (c \in S => b <= c)
    BY <2>3
  <2>4. CASE c \in S /\ (a \in S => c <= a) /\ (b \in S => c <= b)
    BY <2>4
  <2> QED
    BY <2>1, <2>2, <2>3, <2>4
<1> QED
  BY <1>1 DEF Least

LEMMA MinTypes ==
  ASSUME NEW a \in Int, NEW b \in Int, NEW c \in Int
  PROVE  get_min(a, b, c) \in Int
<1>1. CASE a > 0 /\ b > 0 /\ c > 0
  BY <1>1 DEF get_min
<1>2. CASE ~(a > 0 /\ b > 0 /\ c > 0)
  <2> DEFINE positive == {t \in {a, b, c} : t > 0}
  <2>1. positive # {} => Least(positive) \in positive
    BY LeastOfThree
  <2>2. positive \subseteq Int
    OBVIOUS
  <2>3. get_min(a, b, c) = IF positive = {} THEN 0 ELSE Least(positive)
    BY <1>2 DEF get_min
  <2> QED
    BY <2>1, <2>2, <2>3
<1> QED
  BY <1>1, <1>2

-----------------------------------------------------------------------------
LEMMA QueueFacts == 1 \in Queues /\ 2 \in Queues /\ \A k \in Queues : k = 1 \/ k = 2
  BY DEF Queues

(* The k-th of g is v, and the other that of f.                            *)
Differs(g, f, k, v) ==
  /\ g[k] = v
  /\ \A j \in Queues \ {k} : g[j] = f[j]

LEMMA ExceptDiffers ==
  ASSUME NEW S, NEW f \in [Queues -> S], NEW k \in Queues, NEW v \in S, NEW g, g = [f EXCEPT ![k] = v]
  PROVE  Differs(g, f, k, v) /\ g \in [Queues -> S]
  BY DEF Differs

(* What a push and a pop do.                                               *)
LEMMA PushEffect ==
  ASSUME TypeOK, NEW k \in Queues, Push(k)
  PROVE  \/ /\ impl = "array" /\ Differs(pin', pin, k, arr_push(pin[k], pout[k]))
            /\ pin' \in [Queues -> Int] /\ UNCHANGED <<pout, head, lost, flag, adr_num>>
         \/ /\ impl = "list" /\ Differs(head', head, k, head[k] + 1)
            /\ head' \in [Queues -> Nat] /\ UNCHANGED <<pin, pout, lost, flag, adr_num>>
         \/ /\ impl = "list" /\ Differs(lost', lost, k, lost[k] + 1)
            /\ lost' \in [Queues -> Nat] /\ UNCHANGED <<pin, pout, head, flag, adr_num>>
<1>1. /\ pin \in [Queues -> Int] /\ pout \in [Queues -> Int] /\ N \in Int
      /\ head \in [Queues -> Nat] /\ lost \in [Queues -> Nat]
  BY NumberFacts DEF TypeOK
<1>2. pin[k] \in Int /\ pout[k] \in Int /\ head[k] + 1 \in Nat /\ lost[k] + 1 \in Nat
  BY <1>1
<1>3. arr_push(pin[k], pout[k]) \in Int
  BY <1>1, <1>2 DEF arr_push
<1>4. CASE impl = "array" /\ pin' = [pin EXCEPT ![k] = arr_push(pin[k], pout[k])] /\ UNCHANGED <<pout, lists>>
  BY <1>1, <1>3, <1>4, ExceptDiffers DEF lists
<1>5. CASE impl = "list" /\ head' = [head EXCEPT ![k] = head[k] + 1] /\ UNCHANGED <<rings, lost, flag, adr_num>>
  BY <1>1, <1>2, <1>5, ExceptDiffers DEF rings
<1>6. CASE impl = "list" /\ lost' = [lost EXCEPT ![k] = lost[k] + 1] /\ UNCHANGED <<rings, head, flag, adr_num>>
  BY <1>1, <1>2, <1>6, ExceptDiffers DEF rings
<1> QED
  BY <1>4, <1>5, <1>6 DEF Push

LEMMA PopEffect ==
  ASSUME TypeOK, NEW k \in Queues, Pop(k), ~LooksEmpty(k)
  PROVE  \/ /\ impl = "array" /\ pin[k] # pout[k] /\ Differs(pout', pout, k, arr_pop(pout[k], pin[k]))
            /\ pout' \in [Queues -> Int] /\ UNCHANGED <<pin, head, lost, flag, adr_num>>
         \/ /\ impl = "list" /\ head[k] # 0 /\ Differs(head', head, k, head[k] - 1)
            /\ head' \in [Queues -> Nat] /\ adr_num' \in 0 .. N - 1 /\ UNCHANGED <<pin, pout, lost, flag>>
<1>1. pin \in [Queues -> Int] /\ pout \in [Queues -> Int] /\ head \in [Queues -> Nat] /\ N \in Int
  BY NumberFacts DEF TypeOK
<1>2. pin[k] \in Int /\ pout[k] \in Int /\ head[k] \in Nat
  BY <1>1
<1>3. arr_pop(pout[k], pin[k]) \in Int
  BY <1>1, <1>2 DEF arr_pop
<1>4. impl = "array" => pin[k] # pout[k]
  BY DEF LooksEmpty
<1>5. CASE impl = "array" /\ pout' = [pout EXCEPT ![k] = arr_pop(pout[k], pin[k])] /\ UNCHANGED <<pin, lists>>
  BY <1>1, <1>3, <1>4, <1>5, ExceptDiffers DEF lists
<1>6. CASE impl = "list" /\ head' = [head EXCEPT ![k] = head[k] - 1]
           /\ adr_num' = (IF flag THEN get_adr ELSE adr_num) /\ UNCHANGED <<rings, lost, flag>>
  <2>1. head[k] # 0
    BY <1>6 DEF LooksEmpty
  <2>2. head[k] - 1 \in Nat
    BY <1>2, <2>1
  <2>3. adr_num \in 0 .. N - 1 /\ get_adr \in 0 .. N - 1
    BY NumberFacts DEF TypeOK, get_adr
  <2>4. adr_num' \in 0 .. N - 1
    BY <1>6, <2>3
  <2> QED
    BY <1>1, <1>6, <2>1, <2>2, <2>4, ExceptDiffers DEF rings
<1> QED
  BY <1>5, <1>6 DEF Pop

(* What an arrival does, if the time has come.                             *)
LEMMA ArriveEffect ==
  ASSUME TypeOK, NEW k \in Queues, NEW T \in {T1, T2, T3, T4}, Arrive(k, T)
  PROVE  /\ t_in' \in [Queues -> Int]
         /\ \/ Differs(count', count, k, count[k] + 1) /\ count' \in [Queues -> Nat] /\ Push(k)
            \/ UNCHANGED <<count, pin, pout, head, lost, flag, adr_num>>
<1>1. t_in \in [Queues -> Int] /\ count \in [Queues -> Nat] /\ count[k] + 1 \in Nat
  BY DEF TypeOK
<1>2. CASE /\ \E t \in T : t_in' = [t_in EXCEPT ![k] = t]
           /\ count' = [count EXCEPT ![k] = count[k] + 1] /\ Push(k)
  <2>1. PICK t \in T : t_in' = [t_in EXCEPT ![k] = t]
    BY <1>2
  <2>2. t \in Int
    BY TimeFacts
  <2>3. t_in' \in [Queues -> Int]
    BY <1>1, <2>1, <2>2, ExceptDiffers
  <2>4. count' = [count EXCEPT ![k] = count[k] + 1]
    BY <1>2
  <2>5. Differs(count', count, k, count[k] + 1) /\ count' \in [Queues -> Nat]
    BY <1>1, <2>4, ExceptDiffers
  <2> QED
    BY <1>2, <2>3, <2>5
<1>3. CASE UNCHANGED <<t_in, count, rings, lists>>
  BY <1>1, <1>3 DEF rings, lists
<1> QED
  BY <1>2, <1>3 DEF Arrive

(* What a service does.                                                    *)
LEMMA ServeEffect ==
  ASSUME TypeOK, NEW k \in Queues, NEW T \in {T1, T2, T3, T4}, ServeFrom(k, T)
  PROVE  /\ pc = "serve" /\ pc' = "advance"
         /\ t_out' \in Int
         /\ Differs(n_quit', n_quit, k, n_quit[k] + 1) /\ n_quit' \in [Queues -> Nat]
         /\ Pop(k) /\ ~LooksEmpty(k)
         /\ UNCHANGED <<impl, t_in, count>>
<1>1. n_quit \in [Queues -> Nat] /\ n_quit[k] + 1 \in Nat
  BY DEF TypeOK
<1>2. t_out' \in Int
  BY TimeFacts DEF ServeFrom
<1>3. n_quit' = [n_quit EXCEPT ![k] = n_quit[k] + 1]
  BY DEF ServeFrom
<1>4. Differs(n_quit', n_quit, k, n_quit[k] + 1) /\ n_quit' \in [Queues -> Nat]
  BY <1>1, <1>3, ExceptDiffers
<1> QED
  BY <1>2, <1>4 DEF ServeFrom

(* Every step is an arrival, a service or neither.                         *)
LEMMA StepCases ==
  ASSUME TypeOK, Next
  PROVE  \/ \E k \in Queues, T \in {T1, T2, T3, T4} :
              /\ pc \in {"first", "second"} /\ pc' \in {"second", "serve"}
              /\ Arrive(k, T) /\ UNCHANGED <<impl, t_out, n_quit>>
         \/ \E k \in Queues, T \in {T1, T2, T3, T4} : ServeFrom(k, T)
         \/ NoService
         \/ Advance
  BY QueueFacts DEF Next, Arrive1, Arrive2, Serve1, Serve2

-----------------------------------------------------------------------------
(* The initial states satisfy the invariant.                               *)
LEMMA InitInv == Init => IInv
<1> SUFFICES ASSUME Init PROVE IInv
  OBVIOUS
<1>1. PICK q_2 \in {-MAXSIZE, MAXSIZE} : pin = <<0, q_2>>
  BY DEF Init
<1>2. q_2 \in Int /\ q_2 + 0 = q_2
  BY <1>1, NumberFacts
<1>3. pin \in [Queues -> Int] /\ pin[1] = 0 /\ pin[2] = q_2
  BY <1>1, <1>2 DEF Queues
<1>4. pout \in [Queues -> Int] /\ pout[1] = 0 /\ pout[2] = q_2
  BY <1>3 DEF Init
<1>5. \A k \in Queues : count[k] = 0 /\ n_quit[k] = 0 /\ head[k] = 0 /\ lost[k] = 0
  BY DEF Init
<1>6. TypeOK
  <2>1. 0 \in 0 .. N - 1 /\ 0 <= LIMIT /\ n_quit[1] <= LIMIT
    BY <1>5, NumberFacts, QueueFacts
  <2> QED
    BY <1>3, <1>4, <2>1 DEF Init, TypeOK
<1>7. LoopInv
  BY <1>5, NumberFacts, QueueFacts DEF LoopInv
<1>8. RingOneInv
  <2>1. 0 % N = 0
    BY NumberFacts
  <2>2. 0 < N /\ N # 0
    BY NumberFacts
  <2> QED
    BY <1>3, <1>4, <1>5, <2>1, <2>2, QueueFacts DEF RingOneInv
<1>9. RingTwoInv
  BY <1>1, <1>2, <1>3, <1>4, <1>5, QueueFacts DEF RingTwoInv
<1>10. ListInv
  BY <1>5 DEF ListInv
<1> QED
  BY <1>6, <1>7, <1>8, <1>9, <1>10 DEF IInv

LEMMA TypeStep ==
  ASSUME IInv, Next PROVE TypeOK' /\ LoopInv'
<1>1. TypeOK /\ LoopInv /\ LIMIT \in Nat
  BY NumberFacts DEF IInv
<1>2. ASSUME NEW k \in Queues, NEW T \in {T1, T2, T3, T4}, Arrive(k, T),
             pc \in {"first", "second"}, pc' \in {"second", "serve"}, UNCHANGED <<impl, t_out, n_quit>>
      PROVE  TypeOK' /\ LoopInv'
  <2>1. LoopInv'
    BY <1>1, <1>2 DEF LoopInv
  <2>2. t_in' \in [Queues -> Int] /\ count' \in [Queues -> Nat]
    BY <1>1, <1>2, ArriveEffect DEF TypeOK
  <2>3. /\ pin' \in [Queues -> Int] /\ pout' \in [Queues -> Int]
        /\ head' \in [Queues -> Nat] /\ lost' \in [Queues -> Nat]
        /\ flag' = flag /\ adr_num' = adr_num
    BY <1>1, <1>2, ArriveEffect, PushEffect DEF TypeOK
  <2> QED
    BY <1>1, <1>2, <2>1, <2>2, <2>3 DEF TypeOK
<1>3. ASSUME NEW k \in Queues, NEW T \in {T1, T2, T3, T4}, ServeFrom(k, T) PROVE TypeOK' /\ LoopInv'
  <2>1. /\ pc = "serve" /\ pc' = "advance" /\ t_out' \in Int
        /\ Differs(n_quit', n_quit, k, n_quit[k] + 1) /\ n_quit' \in [Queues -> Nat]
        /\ Pop(k) /\ ~LooksEmpty(k) /\ UNCHANGED <<impl, t_in, count>>
    BY <1>1, <1>3, ServeEffect
  <2>2. n_quit[1] < LIMIT /\ n_quit[1] \in Nat
    BY <1>1, <2>1, QueueFacts DEF LoopInv, TypeOK
  <2>3. n_quit'[1] = n_quit[1] + 1 \/ n_quit'[1] = n_quit[1]
    BY <2>1, QueueFacts DEF Differs
  <2>4. n_quit'[1] <= LIMIT
    BY <1>1, <2>2, <2>3
  <2>5. /\ pin' \in [Queues -> Int] /\ pout' \in [Queues -> Int]
        /\ head' \in [Queues -> Nat] /\ lost' \in [Queues -> Nat]
        /\ flag' = flag /\ adr_num' \in 0 .. N - 1
    BY <1>1, <2>1, PopEffect DEF TypeOK
  <2> QED
    BY <1>1, <2>1, <2>4, <2>5 DEF TypeOK, LoopInv
<1>4. CASE NoService
  BY <1>1, <1>4 DEF NoService, TypeOK, LoopInv, customers, rings, lists
<1>5. CASE Advance
  <2> DEFINE t_min == get_min(t_in[1], t_in[2], t_out)
  <2>1. \A k \in Queues : t_in[k] \in Int
    BY <1>1 DEF TypeOK
  <2>2. t_min \in Int /\ t_out \in Int
    BY <1>1, <2>1, MinTypes, QueueFacts DEF TypeOK
  <2>3. t_in' = [k \in Queues |-> t_in[k] - t_min] /\ t_out' = t_out - t_min
    BY <1>5 DEF Advance
  <2> HIDE DEF t_min
  <2>4. t_in' \in [Queues -> Int] /\ t_out' \in Int
    BY <2>1, <2>2, <2>3
  <2>5. LoopInv'
    BY <1>5 DEF Advance, LoopInv, customers
  <2> QED
    BY <1>1, <1>5, <2>4, <2>5 DEF Advance, TypeOK, customers, rings, lists
<1> QED
  BY <1>1, <1>2, <1>3, <1>4, <1>5, StepCases

-----------------------------------------------------------------------------
(* A customer comes to the first ring.                                     *)
LEMMA ArriveKeepsRingOne ==
  ASSUME IInv, NEW T \in {T1, T2, T3, T4}, Arrive(1, T),
         pc \in {"first", "second"}, UNCHANGED <<impl, n_quit>>
  PROVE  RingOneInv'
<1> SUFFICES ASSUME impl = "array" PROVE RingOneInv'
  BY DEF RingOneInv
<1>1. TypeOK /\ n_quit[1] < N /\ n_quit[1] \in Nat /\ count[1] \in Nat
  BY NumberFacts, QueueFacts DEF IInv, LoopInv, TypeOK
<1>2. n_quit[1] <= count[1] /\ pin[1] = count[1] % N /\ pout[1] = n_quit[1]
  BY <1>1 DEF IInv, RingOneInv
<1>3. CASE UNCHANGED <<count, pin, pout>>
  BY <1>1, <1>3 DEF IInv, RingOneInv
<1>4. CASE count'[1] = count[1] + 1 /\ pin'[1] = arr_push(pin[1], pout[1]) /\ pout' = pout
  <2>1. (count[1] + 1) % N = IF (count[1] % N) + 1 = N THEN 0 ELSE (count[1] % N) + 1
    BY <1>1, NumberFacts, ModNext
  <2>2. arr_push(pin[1], pout[1]) = IF pin[1] + 1 # pout[1] /\ pin[1] + 1 = N THEN 0 ELSE pin[1] + 1
    BY DEF arr_push
  <2>3. pout[1] # N
    BY <1>1, <1>2, NumberFacts
  <2>4. pin'[1] = count'[1] % N
    BY <1>2, <1>4, <2>1, <2>2, <2>3
  <2>5. n_quit[1] <= count[1] + 1 /\ n_quit[1] # N
    BY <1>1, <1>2, NumberFacts
  <2> QED
    BY <1>1, <1>2, <1>4, <2>4, <2>5 DEF RingOneInv
<1> QED
  BY <1>1, <1>3, <1>4, ArriveEffect, PushEffect, QueueFacts DEF Differs

(* A customer of the first ring is served.                                 *)
LEMMA ServeKeepsRingOne ==
  ASSUME IInv, NEW T \in {T1, T2, T3, T4}, ServeFrom(1, T)
  PROVE  RingOneInv'
<1> SUFFICES ASSUME impl = "array" PROVE RingOneInv'
  BY DEF RingOneInv, ServeFrom
<1>1. TypeOK /\ N \in Nat /\ N >= 2 /\ n_quit[1] \in Nat /\ count[1] \in Nat
  BY NumberFacts, QueueFacts DEF IInv, TypeOK
<1>2. n_quit[1] < N
  BY <1>1, NumberFacts DEF IInv, LoopInv, ServeFrom
<1>3. n_quit[1] <= count[1] /\ pin[1] = count[1] % N /\ pout[1] = n_quit[1]
  BY <1>1, <1>2 DEF IInv, RingOneInv
<1>4. Pop(1) /\ ~LooksEmpty(1) /\ count' = count /\ n_quit'[1] = n_quit[1] + 1
  BY <1>1, ServeEffect, QueueFacts DEF Differs
<1>5. pin[1] # pout[1] /\ pout'[1] = arr_pop(pout[1], pin[1]) /\ pin' = pin
  BY <1>1, <1>4, PopEffect, QueueFacts DEF Differs
<1>6. pin[1] \in 0 .. N - 1
  BY <1>1, <1>3, NumberFacts, ModFacts
<1>7. n_quit[1] < count[1]
  <2>1. SUFFICES ASSUME n_quit[1] = count[1] PROVE FALSE
    BY <1>1, <1>3
  <2>2. (N * 0 + count[1]) % N = count[1]
    BY <1>1, <1>2, <2>1, NumberFacts, ModUnique
  <2>3. N * 0 + count[1] = count[1]
    BY <1>1
  <2> QED
    BY <1>3, <1>5, <2>1, <2>2, <2>3
<1>8. pout'[1] = IF n_quit[1] + 1 = pin[1] + N THEN pin[1] ELSE n_quit[1] + 1
  BY <1>3, <1>5 DEF arr_pop
<1>9. n_quit[1] + 1 = pin[1] + N <=> n_quit[1] + 1 = N /\ pin[1] = 0
  BY <1>1, <1>2, <1>6
<1>10. CASE n_quit[1] + 1 < N
  BY <1>1, <1>3, <1>4, <1>5, <1>7, <1>8, <1>9, <1>10 DEF RingOneInv
<1>11. CASE n_quit[1] + 1 = N
  BY <1>1, <1>3, <1>4, <1>5, <1>7, <1>8, <1>9, <1>11 DEF RingOneInv
<1> QED
  BY <1>1, <1>2, <1>10, <1>11

LEMMA ArriveKeepsRingTwo ==
  ASSUME IInv, NEW T \in {T1, T2, T3, T4}, Arrive(2, T), UNCHANGED <<impl, n_quit>>
  PROVE  RingTwoInv'
<1> SUFFICES ASSUME impl = "array", count'[2] < MAXSIZE + N PROVE RingTwoInv'
  BY DEF RingTwoInv
<1>1. TypeOK /\ n_quit[2] \in Nat /\ count[2] \in Nat
  BY QueueFacts DEF IInv, TypeOK
<1>2. CASE UNCHANGED <<count, pin, pout>>
  BY <1>2 DEF IInv, RingTwoInv
<1>3. CASE count'[2] = count[2] + 1 /\ pin'[2] = arr_push(pin[2], pout[2]) /\ pout' = pout
  <2>1. PICK q_2 \in {-MAXSIZE, MAXSIZE} :
          pin[2] = q_2 + count[2] /\ pout[2] = q_2 + n_quit[2] /\ n_quit[2] <= count[2]
    <3>1. count[2] < MAXSIZE + N
      BY <1>1, <1>3, NumberFacts
    <3> QED
      BY <3>1 DEF IInv, RingTwoInv
  <2>2. q_2 + count[2] + 1 # N
    BY <1>1, <1>3, NumberFacts
  <2>3. q_2 \in Int
    BY NumberFacts
  <2>4. pin'[2] = q_2 + (count[2] + 1)
    BY <1>1, <1>3, <2>1, <2>2, <2>3 DEF arr_push
  <2>5. n_quit[2] <= count[2] + 1
    BY <1>1, <2>1
  <2> QED
    BY <1>3, <2>1, <2>4, <2>5 DEF RingTwoInv
<1> QED
  BY <1>1, <1>2, <1>3, ArriveEffect, PushEffect, QueueFacts DEF Differs

LEMMA ServeKeepsRingTwo ==
  ASSUME IInv, NEW T \in {T1, T2, T3, T4}, ServeFrom(2, T)
  PROVE  RingTwoInv'
<1> SUFFICES ASSUME impl = "array", count'[2] < MAXSIZE + N PROVE RingTwoInv'
  BY DEF RingTwoInv, ServeFrom
<1>1. TypeOK /\ N \in Nat /\ N >= 2 /\ n_quit[2] \in Nat /\ count[2] \in Nat
  BY NumberFacts, QueueFacts DEF IInv, TypeOK
<1>2. Pop(2) /\ ~LooksEmpty(2) /\ count' = count /\ n_quit'[2] = n_quit[2] + 1
  BY <1>1, ServeEffect, QueueFacts DEF Differs
<1>3. pin[2] # pout[2] /\ pout'[2] = arr_pop(pout[2], pin[2]) /\ pin' = pin
  BY <1>1, <1>2, PopEffect, QueueFacts DEF Differs
<1>4. PICK q_2 \in {-MAXSIZE, MAXSIZE} :
        pin[2] = q_2 + count[2] /\ pout[2] = q_2 + n_quit[2] /\ n_quit[2] <= count[2]
  BY <1>2 DEF IInv, RingTwoInv
<1>5. q_2 \in Int
  BY NumberFacts
<1>6. n_quit[2] + 1 <= count[2]
  BY <1>1, <1>3, <1>4, <1>5
<1>7. pout'[2] = q_2 + (n_quit[2] + 1)
  <2>1. pout[2] + 1 # pin[2] + N
    BY <1>1, <1>4, <1>5
  <2>2. pout'[2] = pout[2] + 1
    BY <1>3, <2>1 DEF arr_pop
  <2> QED
    BY <1>1, <1>4, <1>5, <2>2
<1> QED
  BY <1>2, <1>3, <1>4, <1>6, <1>7 DEF RingTwoInv

LEMMA ArriveKeepsLists ==
  ASSUME IInv, NEW k \in Queues, NEW T \in {T1, T2, T3, T4}, Arrive(k, T), UNCHANGED <<impl, n_quit>>
  PROVE  ListInv'
<1>1. ASSUME impl = "list", NEW j \in Queues PROVE head'[j] = count'[j] - n_quit'[j] - lost'[j]
  <2>1. /\ TypeOK /\ n_quit[j] \in Nat /\ count[j] \in Nat /\ lost[j] \in Nat
        /\ head[j] = count[j] - n_quit[j] - lost[j]
    BY <1>1 DEF IInv, ListInv, TypeOK
  <2>2. CASE head'[j] = head[j] /\ count'[j] = count[j] /\ lost'[j] = lost[j]
    BY <2>1, <2>2
  <2>3. CASE head'[j] = head[j] + 1 /\ count'[j] = count[j] + 1 /\ lost'[j] = lost[j]
    BY <2>1, <2>3
  <2>4. CASE head'[j] = head[j] /\ count'[j] = count[j] + 1 /\ lost'[j] = lost[j] + 1
    BY <2>1, <2>4
  <2> QED
    BY <1>1, <2>1, <2>2, <2>3, <2>4, ArriveEffect, PushEffect DEF Differs
<1>2. ASSUME impl = "array" PROVE lost' = lost
  <2>1. TypeOK
    BY DEF IInv
  <2> QED
    BY <1>2, <2>1, ArriveEffect, PushEffect
<1> QED
  BY <1>1, <1>2 DEF IInv, ListInv

LEMMA ServeKeepsLists ==
  ASSUME IInv, NEW k \in Queues, NEW T \in {T1, T2, T3, T4}, ServeFrom(k, T)
  PROVE  ListInv'
<1>1. TypeOK /\ impl' = impl
  BY DEF IInv, ServeFrom
<1>2. lost' = lost
  BY <1>1, ServeEffect, PopEffect
<1>3. ASSUME impl = "list", NEW j \in Queues PROVE head'[j] = count'[j] - n_quit'[j] - lost'[j]
  <2>1. /\ n_quit[j] \in Nat /\ count[j] \in Nat /\ lost[j] \in Nat
        /\ head[j] = count[j] - n_quit[j] - lost[j]
    BY <1>1, <1>3 DEF IInv, ListInv, TypeOK
  <2>2. CASE head'[j] = head[j] /\ n_quit'[j] = n_quit[j] /\ count' = count
    BY <1>2, <2>1, <2>2
  <2>3. CASE head'[j] = head[j] - 1 /\ n_quit'[j] = n_quit[j] + 1 /\ count' = count
    BY <1>2, <2>1, <2>3
  <2> QED
    BY <1>1, <1>3, <2>2, <2>3, ServeEffect, PopEffect DEF Differs
<1> QED
  BY <1>1, <1>2, <1>3 DEF IInv, ListInv

(* What is done to one queue leaves the ring of the other alone.           *)
LEMMA OtherRing ==
  ASSUME IInv, NEW k \in Queues, NEW T \in {T1, T2, T3, T4},
         (Arrive(k, T) /\ UNCHANGED <<impl, n_quit>>) \/ ServeFrom(k, T)
  PROVE  (k = 2 => RingOneInv') /\ (k = 1 => RingTwoInv')
<1>1. TypeOK
  BY DEF IInv
<1>2. ASSUME NEW j \in Queues, j # k, impl = "array"
      PROVE  pin'[j] = pin[j] /\ pout'[j] = pout[j] /\ count'[j] = count[j] /\ n_quit'[j] = n_quit[j]
  <2>1. CASE Arrive(k, T) /\ UNCHANGED <<impl, n_quit>>
    BY <1>1, <1>2, <2>1, ArriveEffect, PushEffect DEF Differs
  <2>2. CASE ServeFrom(k, T)
    BY <1>1, <1>2, <2>2, ServeEffect, PopEffect DEF Differs
  <2> QED
    BY <2>1, <2>2
<1>3. impl' = impl
  BY DEF ServeFrom
<1> QED
  BY <1>2, <1>3, QueueFacts DEF IInv, RingOneInv, RingTwoInv

-----------------------------------------------------------------------------
LEMMA InvStep == IInv /\ [Next]_vars => IInv'
<1> SUFFICES ASSUME IInv, [Next]_vars PROVE IInv'
  OBVIOUS
<1>1. TypeOK
  BY DEF IInv
<1>2. ASSUME UNCHANGED <<impl, count, n_quit, pin, pout, head, lost>>
      PROVE  RingOneInv' /\ RingTwoInv' /\ ListInv'
  BY <1>2 DEF IInv, RingOneInv, RingTwoInv, ListInv
<1>3. ASSUME NEW k \in Queues, NEW T \in {T1, T2, T3, T4}, Arrive(k, T),
             pc \in {"first", "second"}, UNCHANGED <<impl, n_quit>>
      PROVE  RingOneInv' /\ RingTwoInv' /\ ListInv'
  <2>1. ListInv'
    BY <1>3, ArriveKeepsLists
  <2>2. CASE k = 1
    BY <1>3, <2>1, <2>2, ArriveKeepsRingOne, OtherRing
  <2>3. CASE k = 2
    BY <1>3, <2>1, <2>3, ArriveKeepsRingTwo, OtherRing
  <2> QED
    BY <2>2, <2>3, QueueFacts
<1>4. ASSUME NEW k \in Queues, NEW T \in {T1, T2, T3, T4}, ServeFrom(k, T)
      PROVE  RingOneInv' /\ RingTwoInv' /\ ListInv'
  <2>1. ListInv'
    BY <1>4, ServeKeepsLists
  <2>2. CASE k = 1
    BY <1>4, <2>1, <2>2, ServeKeepsRingOne, OtherRing
  <2>3. CASE k = 2
    BY <1>4, <2>1, <2>3, ServeKeepsRingTwo, OtherRing
  <2> QED
    BY <2>2, <2>3, QueueFacts
<1>5. CASE NoService \/ Advance
  <2>1. RingOneInv' /\ RingTwoInv' /\ ListInv'
    BY <1>2, <1>5 DEF NoService, Advance, customers, rings, lists
  <2> QED
    BY <1>5, <2>1, TypeStep DEF Next, IInv
<1>6. CASE UNCHANGED vars
  <2>1. RingOneInv' /\ RingTwoInv' /\ ListInv'
    BY <1>2, <1>6 DEF vars, customers, rings, lists
  <2>2. TypeOK' /\ LoopInv'
    BY <1>6 DEF IInv, TypeOK, LoopInv, vars, customers, rings, lists
  <2> QED
    BY <2>1, <2>2 DEF IInv
<1>7. CASE Next
  <2>1. RingOneInv' /\ RingTwoInv' /\ ListInv'
    <3>1. NoService \/ Advance => RingOneInv' /\ RingTwoInv' /\ ListInv'
      BY <1>5 DEF IInv
    <3> QED
      BY <1>1, <1>3, <1>4, <1>7, <3>1, StepCases
  <2> QED
    BY <1>7, <2>1, TypeStep DEF IInv
<1> QED
  BY <1>6, <1>7

(* IInv is an invariant of the simulation.                                 *)
THEOREM Invariance == Spec => []IInv
  BY InitInv, InvStep, PTL DEF Spec

(* No list is popped while it is empty (its length stays a natural         *)
(* number), the place for a freed address stays in its array (list.c:74-   *)
(* 83), and the loop serves no more than LIMIT customers of the first      *)
(* queue.  Timers are whole numbers, and may be negative.                  *)
THEOREM TypeCorrect == Spec => []TypeOK
<1>1. IInv => TypeOK
  BY DEF IInv
<1> QED
  BY <1>1, Invariance, PTL

(* What the pointers of the rings and the lengths of the lists tell of the *)
(* customers that wait (array.c:10-33, list.c), for rings of any length.   *)
THEOREM PointersCorrect == Spec => []PointersTell
<1>1. ASSUME IInv PROVE PointersTell
  <2>1. /\ TypeOK
        /\ \A k \in Queues : count[k] \in Nat /\ n_quit[k] \in Nat /\ head[k] \in Nat /\ lost[k] \in Nat
    BY <1>1 DEF IInv, TypeOK
  <2>2. CASE impl = "list"
    <3>1. \A k \in Queues : /\ n_quit[k] + lost[k] <= count[k]
                            /\ head[k] = 0 <=> count[k] - n_quit[k] = lost[k]
      <4> SUFFICES ASSUME NEW k \in Queues
                   PROVE  n_quit[k] + lost[k] <= count[k] /\ (head[k] = 0 <=> count[k] - n_quit[k] = lost[k])
        OBVIOUS
      <4>1. head[k] = count[k] - n_quit[k] - lost[k]
        BY <1>1, <2>2 DEF IInv, ListInv
      <4> QED
        BY <2>1, <4>1
    <3> QED
      BY <2>2, <3>1 DEF PointersTell, LooksEmpty, Waiting
  <2>3. CASE impl = "array"
    <3>1. n_quit[1] <= count[1] /\ n_quit[1] \in Nat /\ n_quit[1] <= N /\ count[1] \in Nat
      BY <1>1, <2>1, <2>3, NumberFacts, QueueFacts DEF IInv, RingOneInv, TypeOK
    <3>2. pin[1] = pout[1] <=> (count[1] - n_quit[1]) % N = 0
      <4>1. CASE n_quit[1] < N
        <5>1. pin[1] = count[1] % N /\ pout[1] = n_quit[1] /\ n_quit[1] \in 0 .. N - 1
          BY <1>1, <2>3, <3>1, <4>1, NumberFacts DEF IInv, RingOneInv
        <5> QED
          BY <3>1, <5>1, NumberFacts, ModDifference
      <4>2. CASE n_quit[1] = N
        <5>1. pin[1] = count[1] % N /\ pout[1] \in {0, N} /\ (pout[1] = 0 <=> pin[1] = 0)
          BY <1>1, <2>3, <4>2 DEF IInv, RingOneInv
        <5>2. pin[1] \in 0 .. N - 1
          BY <3>1, <5>1, NumberFacts, ModFacts
        <5>3. pin[1] # N
          BY <5>2, NumberFacts
        <5>4. (count[1] - N) % N = count[1] % N
          BY <3>1, <4>2, NumberFacts, ModTurn
        <5> QED
          BY <4>2, <5>1, <5>3, <5>4
      <4> QED
        BY <3>1, <4>1, <4>2, NumberFacts
    <3>3. ASSUME count[2] < MAXSIZE + N
          PROVE  n_quit[2] <= count[2] /\ (pin[2] = pout[2] <=> count[2] - n_quit[2] = 0)
      <4>1. PICK q_2 \in {-MAXSIZE, MAXSIZE} :
              pin[2] = q_2 + count[2] /\ pout[2] = q_2 + n_quit[2] /\ n_quit[2] <= count[2]
        BY <1>1, <2>3, <3>3 DEF IInv, RingTwoInv
      <4>2. q_2 \in Int /\ count[2] \in Nat /\ n_quit[2] \in Nat
        BY <2>1, NumberFacts, QueueFacts
      <4> QED
        BY <4>1, <4>2
    <3>4. count[2] < MAXSIZE + N \/ count[2] >= MAXSIZE + N
      BY <2>1, NumberFacts, QueueFacts
    <3>5. \A k \in Queues : n_quit[k] + lost[k] <= count[k] \/ (k = 2 /\ impl = "array" /\ count[k] >= MAXSIZE + N)
      <4>1. \A k \in Queues : lost[k] = 0 /\ n_quit[k] + lost[k] = n_quit[k]
        BY <1>1, <2>1, <2>3 DEF IInv, ListInv
      <4> QED
        BY <2>3, <3>1, <3>3, <3>4, <4>1, QueueFacts
    <3>6. LooksEmpty(1) <=> Waiting(1) % N = 0
      BY <2>3, <3>2 DEF LooksEmpty, Waiting
    <3>7. count[2] < MAXSIZE + N => (LooksEmpty(2) <=> Waiting(2) = 0)
      BY <2>3, <3>3 DEF LooksEmpty, Waiting
    <3> QED
      BY <2>3, <3>5, <3>6, <3>7 DEF PointersTell
  <2> QED
    BY <2>1, <2>2, <2>3 DEF TypeOK
<1> QED
  BY <1>1, Invariance, PTL

-----------------------------------------------------------------------------
(* A timer that has run out is started again before it is next looked at.  *)
TimeInv ==
  /\ pc \in {"second", "serve", "advance"} => t_in[1] > 0
  /\ pc \in {"serve", "advance"} => t_in[2] > 0

LEMMA TimeStep ==
  ASSUME TypeOK, TimeInv, [Next]_vars PROVE TimeInv'
<1>1. t_in \in [Queues -> Int]
  BY DEF TypeOK
<1>2. \A T \in {T1, T2} : \A t \in T : t \in Nat /\ t > 0
  BY TwoQueuesAssumption
<1>3. ASSUME NEW k \in Queues, NEW T \in {T1, T2}, Arrive(k, T)
      PROVE  t_in'[k] > 0 /\ \A j \in Queues \ {k} : t_in'[j] = t_in[j]
  <2>1. CASE \E t \in T : t_in' = [t_in EXCEPT ![k] = t]
    BY <1>1, <1>2, <2>1
  <2>2. CASE t_in[k] > 0 /\ UNCHANGED t_in
    BY <2>2
  <2> QED
    BY <1>3, <2>1, <2>2 DEF Arrive
<1>4. CASE Arrive1
  BY <1>3, <1>4, QueueFacts DEF Arrive1, TimeInv
<1>5. CASE Arrive2
  <2>1. t_in'[2] > 0 /\ t_in'[1] = t_in[1] /\ t_in[1] > 0
    BY <1>3, <1>5, QueueFacts DEF Arrive2, TimeInv
  <2> QED
    BY <2>1 DEF TimeInv
<1>6. CASE Serve1 \/ Serve2 \/ NoService
  <2>1. pc = "serve" /\ UNCHANGED t_in
    BY <1>6 DEF Serve1, Serve2, ServeFrom, NoService
  <2> QED
    BY <2>1 DEF TimeInv
<1>7. CASE Advance
  BY <1>7 DEF Advance, TimeInv
<1>8. CASE UNCHANGED vars
  BY <1>8 DEF vars, TimeInv
<1> QED
  BY <1>4, <1>5, <1>6, <1>7, <1>8 DEF Next

(* When customers are to come to both queues, the least time is positive:  *)
(* with a tie of arrivals, get_min takes the time of service only if there *)
(* is one.  It is above the time of an arrival in such a tie only.         *)
LEMMA MinPositive ==
  ASSUME NEW a \in Int, NEW b \in Int, NEW c \in Int, a > 0, b > 0
  PROVE  /\ get_min(a, b, c) \in Int /\ get_min(a, b, c) > 0
         /\ \/ get_min(a, b, c) <= a /\ get_min(a, b, c) <= b
            \/ a = b /\ get_min(a, b, c) = c
<1>1. CASE c > 0
  BY <1>1 DEF get_min
<1>2. CASE c <= 0
  <2> DEFINE positive == {t \in {a, b, c} : t > 0}
             m == IF a <= b THEN a ELSE b
  <2>1. positive = {a, b} /\ m \in positive /\ \A t \in positive : m <= t
    BY <1>2
  <2>2. Least(positive) \in positive /\ \A t \in positive : Least(positive) <= t
    BY <2>1 DEF Least
  <2>3. get_min(a, b, c) = Least(positive)
    BY <1>2, <2>1 DEF get_min
  <2> HIDE DEF positive, m
  <2> QED
    BY <2>1, <2>2, <2>3
<1> QED
  BY <1>1, <1>2

LEMMA AdvanceEffect ==
  ASSUME TypeOK, TimeInv, Advance
  PROVE  LET t_min == get_min(t_in[1], t_in[2], t_out)
         IN  /\ t_min \in Int /\ t_min > 0
             /\ (t_min <= t_in[1] /\ t_min <= t_in[2]) \/ (t_in[1] = t_in[2] /\ t_min = t_out)
             /\ \A k \in Queues : t_in[k] \in Int /\ t_in'[k] = t_in[k] - t_min
             /\ t_out \in Int /\ t_out' = t_out - t_min
<1>1. t_in[1] \in Int /\ t_in[2] \in Int /\ t_out \in Int /\ t_in[1] > 0 /\ t_in[2] > 0
  BY QueueFacts DEF TypeOK, TimeInv, Advance
<1> QED
  BY <1>1, MinPositive, QueueFacts DEF Advance

LEMMA TimeInvariance == Spec => []TimeInv
<1>1. Init => TimeInv
  BY DEF Init, TimeInv
<1>2. IInv /\ TimeInv /\ [Next]_vars => TimeInv'
  BY TimeStep DEF IInv
<1> QED
  BY <1>1, <1>2, Invariance, PTL DEF Spec

(* Time moves on in every turn (array.c:79-82, list.c:197-200), whatever   *)
(* the times, also when the server is idle or two arrivals tie: the next   *)
(* customers of both queues come nearer.  What is left of Finishes is that *)
(* the turns are taken.                                                    *)
THEOREM TimeMovesOn == Spec => [][Advance => \A k \in Queues : t_in'[k] < t_in[k]]_vars
<1>1. IInv /\ TimeInv /\ [Next]_vars => [Advance => \A k \in Queues : t_in'[k] < t_in[k]]_vars
  <2> SUFFICES ASSUME IInv, TimeInv, Advance, NEW k \in Queues PROVE t_in'[k] < t_in[k]
    OBVIOUS
  <2> DEFINE t_min == get_min(t_in[1], t_in[2], t_out)
  <2>1. t_min \in Int /\ t_min > 0 /\ t_in[k] \in Int /\ t_in'[k] = t_in[k] - t_min
    BY AdvanceEffect DEF IInv
  <2> HIDE DEF t_min
  <2> QED
    BY <2>1
<1> QED
  BY <1>1, Invariance, TimeInvariance, PTL DEF Spec

(* A timer of an arrival falls below zero (array.c:80-81, list.c:198-199)  *)
(* only together with the other and by as much, at the end of a service:   *)
(* get_min goes past a tie, and past nothing else.                         *)
THEOREM LateOnlyTogether == Spec => []LateTogether
<1>1. Init => LateTogether
  BY QueueFacts DEF Init, LateTogether
<1>2. IInv /\ TimeInv /\ LateTogether /\ [Next]_vars => LateTogether'
  <2> SUFFICES ASSUME IInv, TimeInv, LateTogether, [Next]_vars, pc' \in {"first", "done"},
                      NEW k \in Queues, t_in'[k] < 0
               PROVE  t_in'[1] = t_in'[2] /\ t_out' = 0
    BY DEF LateTogether
  <2>1. CASE Advance
    <3> DEFINE t_min == get_min(t_in[1], t_in[2], t_out)
    <3>1. /\ t_min \in Int
          /\ (t_min <= t_in[1] /\ t_min <= t_in[2]) \/ (t_in[1] = t_in[2] /\ t_min = t_out)
          /\ \A j \in Queues : t_in[j] \in Int /\ t_in'[j] = t_in[j] - t_min
          /\ t_out \in Int /\ t_out' = t_out - t_min
      BY <2>1, AdvanceEffect DEF IInv
    <3> HIDE DEF t_min
    <3>2. ~(t_min <= t_in[1] /\ t_min <= t_in[2])
      BY <3>1, QueueFacts
    <3> QED
      BY <3>1, <3>2, QueueFacts
  <2>2. CASE UNCHANGED vars
    BY <2>2 DEF LateTogether, vars
  <2>3. pc' \in {"second", "serve", "advance"} \/ Advance \/ UNCHANGED vars
    BY DEF Next, Arrive1, Arrive2, Serve1, Serve2, ServeFrom, NoService
  <2> QED
    BY <2>1, <2>2, <2>3
<1> QED
  BY <1>1, <1>2, Invariance, TimeInvariance, PTL DEF Spec

=============================================================================
