---------------------------- MODULE BakerySystem ----------------------------
(***************************************************************************)
(* The bakery server together with its clients and the datagrams between   *)
(* them.  A client makes three calls: GET_NUMBER, WAIT_QUEUE, BAKERY_RES.  *)
(* clnt_call over UDP sends its request again while no answer comes, and   *)
(* gives up after TIMEOUT (bakery_clnt.c:10); the server keeps no record   *)
(* of what it has answered, so a repeated request is executed again.  Time *)
(* is left out: a retransmission or a timeout may come at any moment.      *)
(***************************************************************************)
EXTENDS BakeryServer

CONSTANTS
  Clients,        (* the client processes                                  *)
  Retried,        (* the calls whose datagrams may be repeated or lost     *)
  MaxSends,       (* bound: how often a call is sent, 5 in the code        *)
  MaxFailures     (* bound: the clients that may be killed or time out     *)

Calls == {"get", "wait", "res"}

ASSUME SystemAssumption ==
  /\ Clients # {}
  /\ Retried \subseteq Calls
  /\ MaxSends \in Nat \ {0}
  /\ MaxFailures \in Nat

VARIABLES
  cpc,        (* the place of each client in bakery_prog_1                 *)
  ticket,     (* the slot GET_NUMBER answered, sent as pid from then on    *)
  letter,     (* the letter BAKERY_RES answered; 0 before that             *)
  sends,      (* how often each client has sent its current request        *)
  net,        (* the copies of each request on their way to the server     *)
  caller,     (* the client whose request the dispatcher executes          *)
  failures,   (* clients killed or timed out so far                        *)
  up          (* is the server process alive?                              *)

clients == <<cpc, ticket, letter, sends, failures>>
sysvars == <<vars, clients, net, caller, up>>

SysInit ==
  /\ Init
  /\ cpc = [c \in Clients |-> "start"]
  /\ ticket = [c \in Clients |-> 0]
  /\ letter = [c \in Clients |-> 0]
  /\ sends = [c \in Clients |-> 0]
  /\ net = [c \in Clients |-> [call \in Calls |-> 0]]
  /\ caller \in Clients
  /\ failures = 0
  /\ up = TRUE

-----------------------------------------------------------------------------
(* The client. *)

(* The call a client makes from each of the places between calls. *)
NextCall == [start |-> "get", got |-> "wait", queued |-> "res"]
(* Where it is once the call is answered. *)
After == [get |-> "got", wait |-> "queued", res |-> "finished"]

(* clnt_call: the first datagram of a request. *)
Call(c) ==
  /\ cpc[c] \in DOMAIN NextCall
  /\ cpc' = [cpc EXCEPT ![c] = NextCall[@]]
  /\ sends' = [sends EXCEPT ![c] = 1]
  /\ net' = [net EXCEPT ![c][NextCall[cpc[c]]] = @ + 1]
  /\ UNCHANGED <<vars, ticket, letter, failures, caller, up>>

(* Mutant: one datagram too many. *)
RetransmitOnceMore(c) ==
  /\ cpc[c] \in Retried
  /\ sends[c] <= MaxSends
  /\ sends' = [sends EXCEPT ![c] = @ + 1]
  /\ net' = [net EXCEPT ![c][cpc[c]] = @ + 1]
  /\ UNCHANGED <<vars, cpc, ticket, letter, failures, caller, up>>

(* clnt_call: the retry timer expires. *)
Retransmit(c) ==
  /\ cpc[c] \in Retried
  /\ sends[c] < MaxSends
  /\ sends' = [sends EXCEPT ![c] = @ + 1]
  /\ net' = [net EXCEPT ![c][cpc[c]] = @ + 1]
  /\ UNCHANGED <<vars, cpc, ticket, letter, failures, caller, up>>

Lose(c, call) ==
  /\ call \in Retried
  /\ net[c][call] > 0
  /\ net' = [net EXCEPT ![c][call] = @ - 1]
  /\ UNCHANGED <<vars, clients, caller, up>>

(* clnt_call returns RPC_TIMEDOUT and the stub NULL.  The client goes on   *)
(* after a failed WAIT_QUEUE, whose result it does not use; it dereferences *)
(* the NULL of the two others (lines 39 and 56) and dies.                  *)
TimeOut(c) ==
  /\ cpc[c] \in Calls
  /\ failures < MaxFailures
  /\ failures' = failures + 1
  /\ cpc' = [cpc EXCEPT ![c] = IF @ = "wait" THEN "queued" ELSE "dead"]
  /\ UNCHANGED <<vars, ticket, letter, sends, net, caller, up>>

(* The user kills a client. *)
Kill(c) ==
  /\ cpc[c] \notin {"finished", "dead"}
  /\ failures < MaxFailures
  /\ failures' = failures + 1
  /\ cpc' = [cpc EXCEPT ![c] = "dead"]
  /\ UNCHANGED <<vars, ticket, letter, sends, net, caller, up>>

(* The answer to call reaches client c, or is lost, or is discarded        *)
(* because c no longer waits for it.                                       *)
Answer(c, call, got, given) ==
  \/ /\ cpc[c] = call
     /\ cpc' = [cpc EXCEPT ![c] = After[call]]
     /\ ticket' = [ticket EXCEPT ![c] = IF call = "get" THEN got ELSE @]
     /\ letter' = [letter EXCEPT ![c] = IF call = "res" THEN given ELSE @]
     /\ UNCHANGED <<sends, failures>>
  \/ /\ cpc[c] # call \/ call \in Retried
     /\ UNCHANGED clients

-----------------------------------------------------------------------------
(* The dispatcher, which takes a datagram, executes it, and answers.       *)
Take(c, call) ==
  /\ up
  /\ net[c][call] > 0
  /\ net' = [net EXCEPT ![c][call] = @ - 1]

DispatchGet(c) ==
  /\ Take(c, "get")
  /\ GetNumber
  /\ caller' = c
  /\ UNCHANGED <<clients, up>>

(* Mutant: the answer carries the next slot. *)
AnswerGetNext ==
  /\ up
  /\ ClearChoosing
  /\ Answer(caller, "get", num, 0)
  /\ UNCHANGED <<net, caller, up>>

AnswerGet ==
  /\ up
  /\ ClearChoosing
  /\ Answer(caller, "get", num - 1, 0)
  /\ UNCHANGED <<net, caller, up>>

DispatchWait(c) ==
  /\ Take(c, "wait")
  /\ WaitQueue(ticket[c])
  /\ Answer(c, "wait", 0, 0)
  /\ UNCHANGED <<caller, up>>

DispatchRes(c) ==
  /\ Take(c, "res")
  /\ BakeryRes
  /\ caller' = c
  /\ UNCHANGED <<clients, up>>

(* A BAKERY_RES that has no thread left to join: workers[idx_thread_join]  *)
(* is still zero, pthread_join faults, and the server dies.                *)
DispatchSurplusRes(c) ==
  /\ Take(c, "res")
  /\ dpc = "idle"
  /\ idx_thread_join = idx_thread_create
  /\ up' = FALSE
  /\ UNCHANGED <<vars, clients, caller>>

AnswerRes ==
  /\ up
  /\ Join
  /\ Answer(caller, "res", 0, thread_res[idx_thread_join])
  /\ UNCHANGED <<net, caller, up>>

Dispatch ==
  \E c \in Clients : DispatchGet(c) \/ DispatchWait(c) \/ DispatchRes(c) \/ DispatchSurplusRes(c)

(* The steps of get_number between the request and the answer, and those   *)
(* of the threads.                                                         *)
Execute ==
  /\ up
  /\ ScanCompare \/ ScanAssign \/ StoreNumber
  /\ UNCHANGED <<clients, net, caller, up>>

Work(w) ==
  /\ up
  /\ Bakery(w)
  /\ UNCHANGED <<clients, net, caller, up>>

-----------------------------------------------------------------------------
SysNext ==
  \/ \E c \in Clients : Call(c) \/ Retransmit(c) \/ TimeOut(c) \/ Kill(c)
  \/ \E c \in Clients, call \in Calls : Lose(c, call)
  \/ Dispatch \/ Execute \/ AnswerGet \/ AnswerRes
  \/ \E w \in Slots : Work(w)

SysSpec == SysInit /\ [][SysNext]_sysvars

(* Clients do not dawdle for ever (their sleeps are finite), the           *)
(* dispatcher takes what is in its socket buffer, and threads keep running. *)
FairSysSpec ==
  /\ SysSpec
  /\ \A c \in Clients : WF_sysvars(Call(c))
  /\ WF_sysvars(Dispatch)
  /\ WF_sysvars(Execute)
  /\ WF_sysvars(AnswerGet)
  /\ WF_sysvars(AnswerRes)
  /\ \A w \in Slots : WF_sysvars(Work(w))

-----------------------------------------------------------------------------
SysTypeOK ==
  /\ TypeOK
  /\ cpc \in [Clients -> {"start", "got", "queued", "finished", "dead"} \union Calls]
  /\ ticket \in [Clients -> Slots]
  /\ letter \in [Clients -> Nat]
  /\ sends \in [Clients -> 0 .. MaxSends]
  /\ net \in [Clients -> [Calls -> Nat]]
  /\ caller \in Clients
  /\ failures \in 0 .. MaxFailures
  /\ up \in BOOLEAN

(* No two clients are given the same letter, whatever is lost, repeated or *)
(* killed, as long as no WAIT_QUEUE is repeated.                           *)
NoLetterTwice ==
  \A c, d \in Clients : c # d /\ letter[c] # 0 => letter[c] # letter[d]

(* The server joins only threads it has started: a BAKERY_RES follows the  *)
(* answer to a WAIT_QUEUE, so the k-th finds a k-th thread to join.        *)
ServerStaysUp == up

(* The clients keep to the protocol BakeryServer takes for granted: every  *)
(* WAIT_QUEUE names a ticket that was handed out and is not queued yet.    *)
UsesServerProperly == Spec

(* No request finds the arrays used up, neither number[30] nor             *)
(* threads_results[30], whose ends the code does not look at: as long as   *)
(* they have a slot for each time a GET_NUMBER may be sent, no guard of    *)
(* the model keeps the dispatcher from executing what it takes.            *)
EnoughSlots ==
  \A c \in Clients :
    /\ net[c]["get"] > 0 => num < N
    /\ net[c]["wait"] > 0 => idx_thread_create < N

(* Whatever is lost, repeated or killed, no variable and no index leaves   *)
(* its range, and not because the model stops where the arrays do.         *)
InArrays == SysTypeOK /\ EnoughSlots

(* Nobody will ever queue ticket i: the answer to its GET_NUMBER was not   *)
(* waited for, or its client died before it called WAIT_QUEUE.             *)
WillQueue(c) == cpc[c] = "got" \/ net[c]["wait"] > 0
Orphaned(i) ==
  /\ i < num /\ i \notin Queued
  /\ dpc \in Choosing => i # num - 1
  /\ \A c \in Clients : WillQueue(c) => ticket[c] # i

(* Nobody who came after an orphaned ticket is ever served: the server has *)
(* no way to give such a ticket up, and it stays one.                      *)
LaterAreNotServed(i) ==
  \A w \in Slots : wpc[w] \in Inside \union {"done"} => thread_id[w] < i
OrphansBlock ==
  [][\A i \in Slots : Orphaned(i) => Orphaned(i)' /\ LaterAreNotServed(i)']_sysvars

(* The dispatcher waits in pthread_join for a thread that waits for a      *)
(* ticket which is not queued, and whose owner the dispatcher cannot hear. *)
Wedged ==
  /\ up
  /\ dpc = "join"
  /\ \E i \in Slots : /\ number[i] > 0
                      /\ i < thread_id[idx_thread_join]
                      /\ i \notin Queued

(* Without failures, that is the only thing that can go wrong: every       *)
(* client is given a letter, unless the server wedges and stays so.        *)
Finished == \A c \in Clients : cpc[c] = "finished" /\ letter[c] # 0
ServedOrWedged == <>Finished \/ <>[]Wedged

=============================================================================
