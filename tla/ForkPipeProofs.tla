--------------------------- MODULE ForkPipeProofs ---------------------------
(* The theorems about ForkPipe: the five programs, with any number of      *)
(* children.                                                               *)
EXTENDS ForkPipe, FiniteSetTheorems, TLAPS

Programs == {"task-1", "task-2", "task-3", "task-4", "task-5"}
ParentPlaces == {"pipe", "fork", "wait", "close", "read", "return", "gone"}
ChildPlaces == {"unborn", "test", "exec", "close", "write", "return", "gone"}

(* Only the programs with a pipe lead to the places about it.              *)
PlaceInv ==
  /\ program \in Programs
  /\ pc \in [Procs -> ParentPlaces \union ChildPlaces]
  /\ pc[Parent] \in ParentPlaces
  /\ pc[Parent] \in {"pipe", "close", "read"} => HasPipe
  /\ \A c \in Children :
       /\ pc[c] \in ChildPlaces
       /\ pc[c] \in {"test", "close", "write"} => HasPipe

(* The parent is through with its waits: it is past them, or has returned. *)
HasWaited ==
  /\ program # "task-1"
  /\ pc[Parent] \in {"close", "read", "return"} \/ ended[Parent] = "returned"

(* Children are forked in their order, and reaped all before the parent    *)
(* goes on.                                                                *)
FamilyInv ==
  /\ forked \in 0 .. N
  /\ \A c \in Children : pc[c] = "unborn" <=> c > forked
  /\ pc[Parent] = "pipe" => forked = 0
  /\ pc[Parent] = "fork" => forked < N
  /\ reaped \subseteq {c \in Children : pc[c] = "gone"}
  /\ HasWaited => reaped = Children

(* How processes have ended: one that finds the pipe broken had a parent   *)
(* that ended before its waits did.                                        *)
EndInv ==
  /\ ended \in [Procs -> {"no", "returned", "failed", "killed", "broken pipe"}]
  /\ \A p \in Procs : ended[p] = "no" <=> pc[p] # "gone"
  /\ ended[Parent] # "broken pipe"
  /\ \A c \in Children : ended[c] = "broken pipe" => ended[Parent] \in {"failed", "killed"}

(* The parent can read from the pipe as long as it lives.                  *)
OpenInv ==
  /\ open \subseteq {p \in Procs : Living(p)} \X {"read", "write"}
  /\ HasPipe /\ pc[Parent] \notin {"pipe", "gone"} => <<Parent, "read">> \in open

(* What has been written is in the pipe until the parent reads it.         *)
PipeInv ==
  /\ pipe \in Seq(Children) /\ got \in Seq(Children) /\ sent \in Seq(Children)
  /\ pc[Parent] \in {"pipe", "fork", "wait", "close", "read"} => pipe = sent
  /\ HasRead => got = sent

SignalInv ==
  /\ sig_flag \in [Procs -> BOOLEAN]
  /\ pending \in [Procs -> BOOLEAN]
  /\ stops \in 0 .. MaxStops

IInv == PlaceInv /\ FamilyInv /\ EndInv /\ OpenInv /\ PipeInv /\ SignalInv

-----------------------------------------------------------------------------
(* The parent is none of the children.                                     *)
LEMMA FamilyFacts ==
  /\ Parent \in Procs /\ Children \subseteq Procs
  /\ \A c \in Children : c # Parent /\ c \in Int /\ c >= 1 /\ c <= N
  /\ N \in Nat /\ N >= 1
  BY ForkPipeAssumption DEF Parent, Children, Procs

(* What the programs do after the forks and the waits, and where a child   *)
(* begins.                                                                 *)
LEMMA ProgramFacts ==
  ASSUME program \in Programs
  PROVE  /\ AfterForks \in {"return", "wait"}
         /\ AfterForks = "return" => program = "task-1"
         /\ AfterWaits \in {"close", "return"}
         /\ AfterWaits = "close" => HasPipe
         /\ HasPipe => AfterWaits = "close" /\ program # "task-1"
         /\ ChildBegins \in {"test", "close", "exec", "return"}
         /\ ChildBegins \in {"test", "close"} => HasPipe
<1>1. /\ AfterForks \in {"return", "wait"}
      /\ AfterForks = "return" => program = "task-1"
  BY DEF AfterForks
<1>2. /\ AfterWaits \in {"close", "return"}
      /\ AfterWaits = "close" => HasPipe
      /\ HasPipe => AfterWaits = "close" /\ program # "task-1"
  BY DEF AfterWaits, HasPipe
<1>3. /\ ChildBegins \in {"test", "close", "exec", "return"}
      /\ ChildBegins \in {"test", "close"} => HasPipe
  BY DEF ChildBegins, HasPipe, Programs
<1> QED
  BY <1>1, <1>2, <1>3

(* The initial states satisfy the inductive invariant. *)
LEMMA InitInv == Init => IInv
<1> SUFFICES ASSUME Init PROVE IInv
  OBVIOUS
<1> USE FamilyFacts, ForkPipeAssumption DEF Init
<1>1. /\ \A c \in Children : pc[c] = "unborn"
      /\ pc[Parent] = IF HasPipe THEN "pipe" ELSE "fork"
      /\ program \in Programs
  BY DEF Programs
<1>2. PlaceInv
  BY <1>1 DEF PlaceInv, ParentPlaces, ChildPlaces
<1>3. FamilyInv
  BY <1>1 DEF FamilyInv, HasWaited
<1>4. EndInv
  BY <1>1 DEF EndInv
<1>5. OpenInv
  BY <1>1 DEF OpenInv
<1>6. PipeInv
  BY <1>1 DEF PipeInv
<1>7. SignalInv
  BY DEF SignalInv
<1> QED
  BY <1>2, <1>3, <1>4, <1>5, <1>6, <1>7 DEF IInv

-----------------------------------------------------------------------------
(* Every step is one of these.                                             *)
LEMMA StepCases ==
  ASSUME Next
  PROVE  \/ Pipe \/ Fork \/ Wait \/ Close \/ Read \/ CtrlZ
         \/ PipeFails \/ ForkFails
         \/ \E c \in Children : Test(c) \/ Exec(c) \/ CloseRead(c) \/ Write(c)
         \/ \E c \in Children : ExecFails(c) \/ BrokenPipe(c)
         \/ \E p \in Procs : Return(p) \/ Kill(p)
         \/ \E p \in Procs : sigCatch(p)
  BY FamilyFacts DEF Next, ParentStep, ChildStep

(* Every step keeps each process to its places.                            *)
LEMMA PlaceStep ==
  ASSUME PlaceInv, FamilyInv, Next PROVE PlaceInv'
<1> USE FamilyFacts DEF PlaceInv, ParentPlaces, ChildPlaces, Goto, End
<1>0. UNCHANGED program /\ (HasPipe' <=> HasPipe)
  BY DEF Next, ParentStep, ChildStep, Pipe, PipeFails, Fork, ForkFails, Wait, Close, Read, Return, Test,
    Exec, ExecFails, CloseRead, Write, BrokenPipe, CtrlZ, sigCatch, Kill, HasPipe
<1>1. CASE Pipe \/ Close \/ Read \/ PipeFails \/ ForkFails
  BY <1>0, <1>1 DEF Pipe, Close, Read, PipeFails, ForkFails
<1>2. CASE Fork
  <2>1. forked + 1 \in Children
    BY <1>2 DEF Fork, FamilyInv, Children
  <2>2. pc' = [pc EXCEPT ![forked + 1] = ChildBegins,
                         ![Parent] = IF forked + 1 = N THEN AfterForks ELSE "fork"]
    BY <1>2 DEF Fork
  <2> QED
    BY <1>0, <2>1, <2>2, ProgramFacts
<1>3. CASE Wait
  <2>1. pc' = [pc EXCEPT ![Parent] = AfterWaits] \/ pc' = [pc EXCEPT ![Parent] = "wait"]
    BY <1>3 DEF Wait
  <2> QED
    BY <1>0, <2>1, ProgramFacts
<1>4. ASSUME NEW c \in Children, Test(c) \/ Exec(c) \/ CloseRead(c) \/ Write(c) PROVE PlaceInv'
  <2>1. CASE Test(c)
    BY <1>0, <2>1 DEF Test
  <2>2. CASE Exec(c) \/ CloseRead(c) \/ Write(c)
    BY <1>0, <2>2 DEF Exec, CloseRead, Write
  <2> QED
    BY <1>4, <2>1, <2>2
<1>5. ASSUME NEW c \in Children, ExecFails(c) \/ BrokenPipe(c) PROVE PlaceInv'
  BY <1>0, <1>5 DEF ExecFails, BrokenPipe
<1>6. ASSUME NEW p \in Procs, Return(p) \/ Kill(p) PROVE PlaceInv'
  BY <1>0, <1>6 DEF Return, Kill
<1>7. ASSUME NEW p \in Procs, sigCatch(p) PROVE PlaceInv'
  BY <1>0, <1>7 DEF sigCatch
<1>8. CASE CtrlZ
  BY <1>0, <1>8 DEF CtrlZ
<1> QED
  BY <1>1, <1>2, <1>3, <1>4, <1>5, <1>6, <1>7, <1>8, StepCases

(* Every step leaves the program as it is. *)
LEMMA ProgramStays ==
  ASSUME Next PROVE program' = program /\ (HasPipe' <=> HasPipe)
BY DEF Next, ParentStep, ChildStep, Pipe, PipeFails, Fork, ForkFails, Wait, Close, Read, Return, Test,
    Exec, ExecFails, CloseRead, Write, BrokenPipe, CtrlZ, sigCatch, Kill, HasPipe

(* The N-th wait is for the last child. *)
LEMMA LastWait ==
  ASSUME NEW S, S \subseteq Children, Cardinality(S) = N PROVE S = Children
<1>1. IsFiniteSet(Children) /\ Cardinality(Children) = N
  BY FS_Interval, ForkPipeAssumption DEF Children
<1> QED
  BY <1>1, FS_Subset

(* What ends a process changes of the family only that process. *)
LEMMA EndKeepsFamily ==
  ASSUME PlaceInv, FamilyInv, EndInv, NEW p \in Procs, NEW how \in {"returned", "failed", "killed", "broken pipe"},
         End(p, how), pc[p] # "unborn", UNCHANGED <<program, family>>,
         how = "returned" => pc[p] = "return"
  PROVE  FamilyInv'
<1> USE FamilyFacts DEF End, family
<1>1. pc' = [pc EXCEPT ![p] = "gone"] /\ ended' = [ended EXCEPT ![p] = how]
  OBVIOUS
<1>2. pc \in [Procs -> ParentPlaces \union ChildPlaces] /\ DOMAIN ended = Procs
  BY DEF PlaceInv, EndInv
<1>3. pc'[p] = "gone" /\ \A q \in Procs \ {p} : pc'[q] = pc[q] /\ ended'[q] = ended[q]
  BY <1>1, <1>2
<1>4. ended'[p] = how
  BY <1>1, <1>2
<1>5. HasWaited' => HasWaited
  BY <1>3, <1>4 DEF HasWaited
<1>6. \A c \in Children : pc'[c] = "unborn" <=> pc[c] = "unborn"
  BY <1>3
<1> QED
  BY <1>3, <1>5, <1>6 DEF FamilyInv

(* Every step keeps the order of forks and waits.                          *)
LEMMA FamilyStep ==
  ASSUME PlaceInv, FamilyInv, EndInv, Next PROVE FamilyInv'
<1> USE FamilyFacts DEF Goto
<1>0. program' = program
  BY ProgramStays
<1>a. pc \in [Procs -> ParentPlaces \union ChildPlaces]
  BY DEF PlaceInv
<1>1. CASE Pipe \/ Close \/ Read
  <2>1. UNCHANGED <<ended, family>> /\ \A c \in Children : pc'[c] = pc[c]
    BY <1>1, <1>a DEF Pipe, Close, Read
  <2>2. HasWaited' => HasWaited
    BY <1>0, <1>1, <1>a, <2>1 DEF HasWaited, Pipe, Close, Read
  <2>3. /\ pc'[Parent] # "pipe"
        /\ pc'[Parent] = "fork" => forked < N
    BY <1>1, <1>a DEF Pipe, Close, Read, FamilyInv
  <2> QED
    BY <2>1, <2>2, <2>3 DEF FamilyInv, family
<1>2. CASE Fork
  <2> DEFINE c == forked + 1
             after == IF c = N THEN AfterForks ELSE "fork"
  <2>1. /\ pc[Parent] = "fork" /\ forked' = c /\ UNCHANGED <<ended, reaped>>
        /\ pc' = [pc EXCEPT ![c] = ChildBegins, ![Parent] = after]
    BY <1>2 DEF Fork
  <2>2. forked \in 0 .. N /\ forked < N /\ c \in Children
    BY <2>1 DEF FamilyInv, Children
  <2>3. pc'[c] = ChildBegins /\ pc'[Parent] = after /\ \A d \in Children \ {c} : pc'[d] = pc[d]
    BY <2>1, <2>2, <1>a
  <2>4. ChildBegins \in {"test", "close", "exec", "return"} /\ AfterForks \in {"return", "wait"}
        /\ (AfterForks = "return" => program = "task-1")
    BY ProgramFacts DEF PlaceInv, Programs
  <2>5. \A d \in Children : pc'[d] = "unborn" <=> d > forked'
    <3> TAKE d \in Children
    <3>1. CASE d = c
      BY <3>1, <2>1, <2>2, <2>3, <2>4
    <3>2. CASE d # c
      <4>1. pc'[d] = pc[d] /\ (pc[d] = "unborn" <=> d > forked)
        BY <3>2, <2>3 DEF FamilyInv
      <4>2. d > forked <=> d > forked + 1
        BY <3>2, <2>2
      <4> QED
        BY <4>1, <4>2, <2>1
    <3> QED
      BY <3>1, <3>2
  <2>6. ~HasWaited'
    <3>1. ended[Parent] = "no"
      BY <2>1 DEF EndInv
    <3> QED
      BY <3>1, <2>1, <2>3, <2>4, <1>0 DEF HasWaited
  <2>7. /\ pc'[Parent] # "pipe"
        /\ pc'[Parent] = "fork" => forked' < N
    BY <2>1, <2>2, <2>3, <2>4
  <2>8. pc[c] = "unborn"
    BY <2>2 DEF FamilyInv
  <2>9. reaped' \subseteq {d \in Children : pc'[d] = "gone"}
    BY <2>1, <2>3, <2>8 DEF FamilyInv
  <2>10. forked' \in 0 .. N
    BY <2>1, <2>2
  <2> HIDE DEF c, after
  <2> QED
    BY <2>5, <2>6, <2>7, <2>9, <2>10 DEF FamilyInv
<1>3. CASE Wait
  <2>1. PICK c \in Children \ reaped : pc[c] = "gone" /\ reaped' = reaped \union {c}
    BY <1>3 DEF Wait
  <2> DEFINE after == IF Cardinality(reaped') = N THEN AfterWaits ELSE "wait"
  <2>2. pc[Parent] = "wait" /\ pc' = [pc EXCEPT ![Parent] = after] /\ UNCHANGED <<ended, forked>>
    BY <1>3 DEF Wait
  <2>3. pc'[Parent] = after /\ \A d \in Children : pc'[d] = pc[d]
    BY <2>2, <1>a
  <2>4. AfterWaits \in {"close", "return"}
    BY ProgramFacts DEF PlaceInv
  <2>5. reaped' \subseteq {d \in Children : pc'[d] = "gone"}
    BY <2>1, <2>3 DEF FamilyInv
  <2>6. ASSUME HasWaited' PROVE reaped' = Children
    <3>1. ended[Parent] = "no"
      BY <2>2 DEF EndInv
    <3>2. Cardinality(reaped') = N
      BY <3>1, <2>2, <2>3, <2>6 DEF HasWaited
    <3> QED
      BY <3>2, <2>5, LastWait
  <2>7. pc'[Parent] \notin {"pipe", "fork"}
    BY <2>3, <2>4
  <2> HIDE DEF after
  <2> QED
    BY <2>2, <2>3, <2>5, <2>6, <2>7 DEF FamilyInv
<1>4. ASSUME NEW c \in Children, Test(c) \/ Exec(c) \/ CloseRead(c) \/ Write(c) PROVE FamilyInv'
  <2>1. /\ UNCHANGED <<ended, family>> /\ pc[c] \in {"test", "exec", "close", "write"}
        /\ pc'[c] \in {"close", "return", "write"} /\ \A q \in Procs \ {c} : pc'[q] = pc[q]
    <3>1. CASE Test(c)
      BY <3>1, <1>a DEF Test
    <3>2. CASE Exec(c) \/ CloseRead(c) \/ Write(c)
      BY <3>2, <1>a DEF Exec, CloseRead, Write
    <3> QED
      BY <1>4, <3>1, <3>2
  <2>2. HasWaited' <=> HasWaited
    BY <2>1, <1>0 DEF HasWaited
  <2> QED
    BY <2>1, <2>2 DEF FamilyInv, family
<1>5. ASSUME NEW c \in Children, ExecFails(c) \/ BrokenPipe(c) PROVE FamilyInv'
  <2>1. CASE ExecFails(c)
    BY <2>1, EndKeepsFamily DEF ExecFails
  <2>2. CASE BrokenPipe(c)
    BY <2>2, EndKeepsFamily DEF BrokenPipe
  <2> QED
    BY <1>5, <2>1, <2>2
<1>6. ASSUME NEW p \in Procs, Return(p) \/ Kill(p) PROVE FamilyInv'
  <2>1. CASE Return(p)
    BY <2>1, EndKeepsFamily DEF Return
  <2>2. CASE Kill(p)
    BY <2>2, EndKeepsFamily DEF Kill, Living
  <2> QED
    BY <1>6, <2>1, <2>2
<1>7. CASE PipeFails \/ ForkFails
  <2>1. CASE PipeFails
    BY <2>1, EndKeepsFamily DEF PipeFails
  <2>2. CASE ForkFails
    BY <2>2, EndKeepsFamily DEF ForkFails
  <2> QED
    BY <1>7, <2>1, <2>2
<1>8. ASSUME UNCHANGED <<pc, ended, family>> PROVE FamilyInv'
  BY <1>8, <1>0 DEF FamilyInv, HasWaited, family
<1>9. CASE CtrlZ
  BY <1>9, <1>8 DEF CtrlZ
<1>10. ASSUME NEW p \in Procs, sigCatch(p) PROVE FamilyInv'
  BY <1>10, <1>8 DEF sigCatch
<1> QED
  BY <1>1, <1>2, <1>3, <1>4, <1>5, <1>6, <1>7, <1>9, <1>10, StepCases

(* A child that finds the pipe broken has a parent that ended early. *)
LEMMA BrokenOnlyIfLeft ==
  ASSUME PlaceInv, FamilyInv, EndInv, OpenInv, NEW c \in Children,
         pc[c] = "write", Holders("read") = {}
  PROVE  ended[Parent] \in {"failed", "killed"}
<1> USE FamilyFacts
<1>1. HasPipe
  BY DEF PlaceInv
<1>2. <<Parent, "read">> \notin open
  BY DEF Holders
<1>3. pc[Parent] # "pipe"
  BY DEF FamilyInv
<1>4. pc[Parent] = "gone"
  BY <1>1, <1>2, <1>3 DEF OpenInv
<1>5. ended[Parent] \in {"returned", "failed", "killed"}
  BY <1>4 DEF EndInv
<1>6. ended[Parent] # "returned"
  <2> SUFFICES ASSUME ended[Parent] = "returned" PROVE FALSE
    OBVIOUS
  <2>1. HasWaited
    BY <1>1 DEF HasWaited, HasPipe
  <2> QED
    BY <2>1 DEF FamilyInv
<1> QED
  BY <1>5, <1>6

(* What ends a process ends it as it should. *)
LEMMA EndKeepsEnds ==
  ASSUME PlaceInv, EndInv, NEW p \in Procs, NEW how \in {"returned", "failed", "killed", "broken pipe"},
         End(p, how), pc[p] # "gone",
         how = "broken pipe" => p # Parent /\ ended[Parent] \in {"failed", "killed"}
  PROVE  EndInv'
<1> USE FamilyFacts
<1>1. pc' = [pc EXCEPT ![p] = "gone"] /\ ended' = [ended EXCEPT ![p] = how]
  BY DEF End
<1>2. pc \in [Procs -> ParentPlaces \union ChildPlaces] /\ ended \in [Procs -> {"no", "returned", "failed", "killed", "broken pipe"}]
  BY DEF PlaceInv, EndInv
<1>3. /\ pc'[p] = "gone" /\ ended'[p] = how
      /\ \A q \in Procs \ {p} : pc'[q] = pc[q] /\ ended'[q] = ended[q]
  BY <1>1, <1>2
<1>4. ended' \in [Procs -> {"no", "returned", "failed", "killed", "broken pipe"}]
  BY <1>1, <1>2
<1>5. \A q \in Procs : ended'[q] = "no" <=> pc'[q] # "gone"
  BY <1>3 DEF EndInv
<1>6. ended'[Parent] # "broken pipe"
  BY <1>3 DEF EndInv
<1>7. ended[p] = "no"
  BY DEF EndInv
<1>8. ASSUME NEW c \in Children, ended'[c] = "broken pipe" PROVE ended'[Parent] \in {"failed", "killed"}
  <2>1. ended[Parent] \in {"failed", "killed"}
    BY <1>3, <1>8 DEF EndInv
  <2> QED
    BY <2>1, <1>3, <1>7
<1> QED
  BY <1>4, <1>5, <1>6, <1>8 DEF EndInv

(* Every step ends processes only as it should.                            *)
LEMMA EndStep ==
  ASSUME PlaceInv, FamilyInv, EndInv, OpenInv, Next PROVE EndInv'
<1> USE FamilyFacts DEF Goto
<1>a. pc \in [Procs -> ParentPlaces \union ChildPlaces]
  BY DEF PlaceInv
<1>0. ASSUME UNCHANGED ended, \A q \in Procs : pc'[q] = "gone" <=> pc[q] = "gone" PROVE EndInv'
  BY <1>0 DEF EndInv
<1>1. CASE Pipe \/ Close \/ Read
  <2>1. UNCHANGED ended /\ \A q \in Procs : pc'[q] = "gone" <=> pc[q] = "gone"
    BY <1>1, <1>a DEF Pipe, Close, Read
  <2> QED
    BY <2>1, <1>0
<1>2. CASE Fork
  <2> DEFINE after == IF forked + 1 = N THEN AfterForks ELSE "fork"
  <2>1. /\ pc[Parent] = "fork" /\ UNCHANGED ended
        /\ pc' = [pc EXCEPT ![forked + 1] = ChildBegins, ![Parent] = after]
    BY <1>2 DEF Fork
  <2>2. forked + 1 \in Children /\ pc[forked + 1] = "unborn"
    BY <2>1 DEF FamilyInv, Children
  <2>3. ChildBegins # "gone" /\ after # "gone"
    BY ProgramFacts DEF PlaceInv
  <2> HIDE DEF after
  <2>4. \A q \in Procs : pc'[q] = "gone" <=> pc[q] = "gone"
    BY <2>1, <2>2, <2>3, <1>a
  <2> QED
    BY <2>1, <2>4, <1>0
<1>3. CASE Wait
  <2> DEFINE after == IF Cardinality(reaped') = N THEN AfterWaits ELSE "wait"
  <2>1. pc[Parent] = "wait" /\ pc' = [pc EXCEPT ![Parent] = after] /\ UNCHANGED ended
    BY <1>3 DEF Wait
  <2>2. after # "gone"
    BY ProgramFacts DEF PlaceInv
  <2> HIDE DEF after
  <2>3. \A q \in Procs : pc'[q] = "gone" <=> pc[q] = "gone"
    BY <2>1, <2>2, <1>a
  <2> QED
    BY <2>1, <2>3, <1>0
<1>4. ASSUME NEW c \in Children, Test(c) \/ Exec(c) \/ CloseRead(c) \/ Write(c) PROVE EndInv'
  <2>1. CASE Test(c)
    BY <2>1, <1>a, <1>0 DEF Test
  <2>2. CASE Exec(c) \/ CloseRead(c) \/ Write(c)
    BY <2>2, <1>a, <1>0 DEF Exec, CloseRead, Write
  <2> QED
    BY <1>4, <2>1, <2>2
<1>5. ASSUME NEW c \in Children, ExecFails(c) \/ BrokenPipe(c) PROVE EndInv'
  <2>1. CASE ExecFails(c)
    BY <2>1, EndKeepsEnds DEF ExecFails
  <2>2. CASE BrokenPipe(c)
    BY <2>2, EndKeepsEnds, BrokenOnlyIfLeft DEF BrokenPipe
  <2> QED
    BY <1>5, <2>1, <2>2
<1>6. ASSUME NEW p \in Procs, Return(p) \/ Kill(p) PROVE EndInv'
  BY <1>6, EndKeepsEnds DEF Return, Kill, Living
<1>7. CASE PipeFails \/ ForkFails
  BY <1>7, EndKeepsEnds DEF PipeFails, ForkFails
<1>8. CASE CtrlZ
  BY <1>8, <1>0 DEF CtrlZ
<1>9. ASSUME NEW p \in Procs, sigCatch(p) PROVE EndInv'
  BY <1>9, <1>0 DEF sigCatch
<1> QED
  BY <1>1, <1>2, <1>3, <1>4, <1>5, <1>6, <1>7, <1>8, <1>9, StepCases

(* Every step leaves descriptors with the living only, and the parent its  *)
(* reading end.                                                            *)
LEMMA OpenStep ==
  ASSUME PlaceInv, FamilyInv, OpenInv, Next PROVE OpenInv'
<1> USE FamilyFacts DEF Goto
<1>a. pc \in [Procs -> ParentPlaces \union ChildPlaces]
  BY DEF PlaceInv
<1>b. HasPipe' <=> HasPipe
  BY ProgramStays
<1>0. ASSUME open' \subseteq open, \A q \in Procs : Living(q) => Living(q)',
             pc'[Parent] \in {"pipe", "gone"} <=> pc[Parent] \in {"pipe", "gone"},
             <<Parent, "read">> \in open => <<Parent, "read">> \in open'
      PROVE  OpenInv'
  BY <1>0, <1>b DEF OpenInv
<1>1. CASE Pipe
  <2>1. open' = {Parent} \X {"read", "write"} /\ pc'[Parent] = "fork"
    BY <1>1, <1>a DEF Pipe
  <2>2. Living(Parent)'
    BY <2>1 DEF Living
  <2> QED
    BY <2>1, <2>2 DEF OpenInv
<1>2. CASE Close \/ Read
  <2>1. \A q \in Procs : Living(q) => Living(q)'
    BY <1>2, <1>a DEF Close, Read, Living
  <2>2. open' \subseteq open /\ (<<Parent, "read">> \in open => <<Parent, "read">> \in open')
    BY <1>2 DEF Close, Read
  <2>3. pc'[Parent] \in {"pipe", "gone"} <=> pc[Parent] \in {"pipe", "gone"}
    BY <1>2, <1>a DEF Close, Read
  <2> QED
    BY <2>1, <2>2, <2>3, <1>0
<1>3. CASE Fork
  <2> DEFINE after == IF forked + 1 = N THEN AfterForks ELSE "fork"
             c == forked + 1
             ends == {h[2] : h \in {g \in open : g[1] = Parent}}
  <2>1. /\ pc[Parent] = "fork"
        /\ pc' = [pc EXCEPT ![c] = ChildBegins, ![Parent] = after]
        /\ open' = open \union ({c} \X ends)
    BY <1>3 DEF Fork
  <2>2. c \in Children
    BY <2>1 DEF FamilyInv, Children
  <2>3. ChildBegins \notin {"unborn", "gone"} /\ after \notin {"unborn", "pipe", "gone"}
    BY ProgramFacts DEF PlaceInv
  <2>4. ends \subseteq {"read", "write"}
    BY DEF OpenInv
  <2> HIDE DEF after, c, ends
  <2>5. pc'[c] \notin {"unborn", "gone"} /\ \A q \in Procs : Living(q) => Living(q)'
    BY <2>1, <2>2, <2>3, <1>a DEF Living
  <2>6. open' \subseteq {p \in Procs : Living(p)'} \X {"read", "write"}
    <3> DEFINE Alive == {p \in Procs : Living(p)'}
    <3>1. c \in Alive
      BY <2>2, <2>5 DEF Living
    <3>2. \A q \in Procs : Living(q) => q \in Alive
      BY <2>5 DEF Living
    <3> HIDE DEF Alive
    <3>3. open \subseteq Alive \X {"read", "write"}
      BY <3>2 DEF OpenInv
    <3>4. {c} \X ends \subseteq Alive \X {"read", "write"}
      BY <3>1, <2>4
    <3> QED
      BY <3>3, <3>4, <2>1 DEF Alive
  <2>7. HasPipe => <<Parent, "read">> \in open
    BY <2>1 DEF OpenInv
  <2> QED
    BY <1>b, <2>1, <2>6, <2>7 DEF OpenInv
<1>4. CASE Wait
  <2> DEFINE after == IF Cardinality(reaped') = N THEN AfterWaits ELSE "wait"
  <2>1. pc[Parent] = "wait" /\ pc' = [pc EXCEPT ![Parent] = after] /\ UNCHANGED open
    BY <1>4 DEF Wait
  <2>2. after \notin {"unborn", "pipe", "gone"}
    BY ProgramFacts DEF PlaceInv
  <2> HIDE DEF after
  <2>3. \A q \in Procs : Living(q) => Living(q)'
    BY <2>1, <2>2, <1>a DEF Living
  <2>4. pc'[Parent] \in {"pipe", "gone"} <=> pc[Parent] \in {"pipe", "gone"}
    BY <2>1, <2>2, <1>a
  <2> QED
    BY <2>1, <2>3, <2>4, <1>0
<1>5. ASSUME NEW c \in Children, Test(c) \/ Exec(c) \/ CloseRead(c) \/ Write(c) PROVE OpenInv'
  <2>1. \A q \in Procs : Living(q) => Living(q)'
    <3>1. CASE Test(c)
      BY <3>1, <1>a DEF Test, Living
    <3>2. CASE Exec(c) \/ CloseRead(c) \/ Write(c)
      BY <3>2, <1>a DEF Exec, CloseRead, Write, Living
    <3> QED
      BY <1>5, <3>1, <3>2
  <2>2. pc'[Parent] = pc[Parent]
    BY <1>5, <1>a DEF Test, Exec, CloseRead, Write
  <2>3. open' \subseteq open /\ (<<Parent, "read">> \in open => <<Parent, "read">> \in open')
    BY <1>5 DEF Test, Exec, CloseRead, Write
  <2> QED
    BY <2>1, <2>2, <2>3, <1>0
<1>6. ASSUME NEW p \in Procs, NEW how, End(p, how) PROVE OpenInv'
  <2>1. pc' = [pc EXCEPT ![p] = "gone"] /\ open' = {h \in open : h[1] # p}
    BY <1>6 DEF End
  <2>2. \A q \in Procs \ {p} : Living(q) => Living(q)'
    BY <2>1, <1>a DEF Living
  <2>3. open' \subseteq {q \in Procs : Living(q)'} \X {"read", "write"}
    BY <2>1, <2>2 DEF OpenInv
  <2>4. ASSUME HasPipe, pc'[Parent] \notin {"pipe", "gone"} PROVE <<Parent, "read">> \in open'
    <3>1. p # Parent /\ pc'[Parent] = pc[Parent]
      BY <2>1, <2>4, <1>a
    <3> QED
      BY <3>1, <2>1, <2>4 DEF OpenInv
  <2> QED
    BY <2>3, <2>4, <1>b DEF OpenInv
<1>7. ASSUME NEW c \in Children, ExecFails(c) \/ BrokenPipe(c) PROVE OpenInv'
  BY <1>7, <1>6 DEF ExecFails, BrokenPipe
<1>8. ASSUME NEW p \in Procs, Return(p) \/ Kill(p) PROVE OpenInv'
  BY <1>8, <1>6 DEF Return, Kill
<1>9. CASE PipeFails \/ ForkFails
  BY <1>9, <1>6 DEF PipeFails, ForkFails
<1>10. CASE CtrlZ
  BY <1>10, <1>0 DEF CtrlZ, Living
<1>11. ASSUME NEW p \in Procs, sigCatch(p) PROVE OpenInv'
  BY <1>11, <1>0 DEF sigCatch, Living
<1> QED
  BY <1>1, <1>2, <1>3, <1>4, <1>5, <1>7, <1>8, <1>9, <1>10, <1>11, StepCases

(* Every step that is no write and no read leaves what they left, unless    *)
(* the parent comes to its return without having read.                      *)
LEMMA PipeKept ==
  ASSUME PipeInv, UNCHANGED <<program, channel>>,
         pc'[Parent] \in {"pipe", "fork", "wait", "close", "read"}
           => pc[Parent] \in {"pipe", "fork", "wait", "close", "read"},
         HasRead' => HasRead
  PROVE  PipeInv'
BY DEF PipeInv, channel

(* Every step keeps in the pipe, or has given the parent, what is written. *)
LEMMA PipeStep ==
  ASSUME PlaceInv, FamilyInv, EndInv, PipeInv, Next PROVE PipeInv'
<1> USE FamilyFacts DEF Goto
<1>a. pc \in [Procs -> ParentPlaces \union ChildPlaces]
  BY DEF PlaceInv
<1>b. program' = program /\ (HasPipe' <=> HasPipe)
  BY ProgramStays
<1>c. \A q \in Procs : pc[q] # "gone" => ended[q] = "no"
  BY DEF EndInv
<1>1. CASE Pipe \/ Close
  <2>1. /\ UNCHANGED channel /\ UNCHANGED ended
        /\ pc[Parent] \in {"pipe", "close"} /\ pc'[Parent] \in {"fork", "read"}
    BY <1>1, <1>a DEF Pipe, Close
  <2>2. ~HasRead'
    BY <2>1, <1>c DEF HasRead
  <2> QED
    BY <2>1, <2>2, <1>b, PipeKept
<1>2. CASE Read
  <2>1. /\ pc[Parent] = "read" /\ pc'[Parent] = "return"
        /\ got' = pipe /\ pipe' = <<>> /\ sent' = sent
    BY <1>2, <1>a DEF Read
  <2> QED
    BY <2>1 DEF PipeInv
<1>3. CASE Fork
  <2> DEFINE after == IF forked + 1 = N THEN AfterForks ELSE "fork"
  <2>1. /\ pc[Parent] = "fork" /\ UNCHANGED ended /\ UNCHANGED channel
        /\ pc' = [pc EXCEPT ![forked + 1] = ChildBegins, ![Parent] = after]
    BY <1>3 DEF Fork
  <2>2. forked + 1 \in Children
    BY <2>1 DEF FamilyInv, Children
  <2>3. (after = "return" => ~HasPipe) /\ after \in {"fork", "wait", "return"}
    BY ProgramFacts DEF PlaceInv
  <2> HIDE DEF after
  <2>4. pc'[Parent] = after
    BY <2>1, <2>2, <1>a
  <2>5. ~HasRead'
    BY <2>1, <2>3, <2>4, <1>b, <1>c DEF HasRead
  <2> QED
    BY <2>1, <2>5, <1>b, PipeKept
<1>4. CASE Wait
  <2> DEFINE after == IF Cardinality(reaped') = N THEN AfterWaits ELSE "wait"
  <2>1. /\ pc[Parent] = "wait" /\ UNCHANGED ended /\ UNCHANGED channel
        /\ pc' = [pc EXCEPT ![Parent] = after]
    BY <1>4 DEF Wait
  <2>2. after = "return" => ~HasPipe
    BY ProgramFacts DEF PlaceInv
  <2> HIDE DEF after
  <2>3. ~HasRead'
    BY <2>1, <2>2, <1>a, <1>b, <1>c DEF HasRead
  <2> QED
    BY <2>1, <2>3, <1>b, PipeKept
<1>5. ASSUME NEW c \in Children, Test(c) \/ Exec(c) \/ CloseRead(c) PROVE PipeInv'
  <2>1. UNCHANGED channel /\ UNCHANGED ended /\ pc'[Parent] = pc[Parent]
    BY <1>5, <1>a DEF Test, Exec, CloseRead
  <2> QED
    BY <2>1, <1>b, PipeKept DEF HasRead
<1>6. ASSUME NEW c \in Children, Write(c) PROVE PipeInv'
  <2>1. /\ pc[c] = "write" /\ UNCHANGED ended /\ pc'[Parent] = pc[Parent]
        /\ pipe' = Append(pipe, c) /\ sent' = Append(sent, c) /\ got' = got
    BY <1>6, <1>a DEF Write
  <2>2. HasPipe /\ program # "task-1"
    BY <2>1 DEF PlaceInv, HasPipe
  <2>3. ~HasRead
    BY <2>1, <2>2 DEF HasRead, FamilyInv, HasWaited
  <2>4. ~HasRead'
    BY <2>1, <2>3, <1>b DEF HasRead
  <2> QED
    BY <2>1, <2>4 DEF PipeInv
<1>7. ASSUME NEW p \in Procs, NEW how, End(p, how), UNCHANGED channel,
             p = Parent /\ how = "returned" => pc[p] = "return"
      PROVE  PipeInv'
  <2>1. pc' = [pc EXCEPT ![p] = "gone"] /\ ended' = [ended EXCEPT ![p] = how]
    BY <1>7 DEF End
  <2>2. DOMAIN ended = Procs
    BY DEF EndInv
  <2>3. CASE p = Parent
    <3>1. pc'[Parent] = "gone" /\ ended'[Parent] = how
      BY <2>1, <2>2, <2>3, <1>a
    <3>2. HasRead' => HasRead
      BY <3>1, <1>7, <2>3, <1>b DEF HasRead
    <3> QED
      BY <1>7, <3>1, <3>2, <1>b, PipeKept
  <2>4. CASE p # Parent
    <3>1. pc'[Parent] = pc[Parent] /\ ended'[Parent] = ended[Parent]
      BY <2>1, <2>2, <2>4, <1>a
    <3> QED
      BY <1>7, <3>1, <1>b, PipeKept DEF HasRead
  <2> QED
    BY <2>3, <2>4
<1>8. ASSUME NEW c \in Children, ExecFails(c) \/ BrokenPipe(c) PROVE PipeInv'
  BY <1>8, <1>7 DEF ExecFails, BrokenPipe
<1>9. ASSUME NEW p \in Procs, Return(p) \/ Kill(p) PROVE PipeInv'
  BY <1>9, <1>7 DEF Return, Kill
<1>10. CASE PipeFails \/ ForkFails
  BY <1>10, <1>7 DEF PipeFails, ForkFails
<1>11. ASSUME UNCHANGED <<pc, ended, channel>> PROVE PipeInv'
  BY <1>11, <1>b, PipeKept DEF HasRead
<1>12. CASE CtrlZ
  BY <1>12, <1>11 DEF CtrlZ
<1>13. ASSUME NEW p \in Procs, sigCatch(p) PROVE PipeInv'
  BY <1>13, <1>11 DEF sigCatch
<1> QED
  BY <1>1, <1>2, <1>3, <1>4, <1>5, <1>6, <1>8, <1>9, <1>10, <1>12, <1>13, StepCases

(* Every step keeps the flags flags. *)
LEMMA SignalStep ==
  ASSUME SignalInv, FamilyInv, Next PROVE SignalInv'
<1> USE FamilyFacts
<1>1. ASSUME UNCHANGED signals PROVE SignalInv'
  BY <1>1 DEF SignalInv, signals
<1>2. CASE Fork
  <2>1. forked + 1 \in Children
    BY <1>2 DEF Fork, FamilyInv, Children
  <2>2. sig_flag' = [sig_flag EXCEPT ![forked + 1] = sig_flag[Parent]] /\ UNCHANGED <<pending, stops>>
    BY <1>2 DEF Fork
  <2>3. sig_flag' \in [Procs -> BOOLEAN]
    BY <2>1, <2>2, Zenon DEF SignalInv
  <2> QED
    BY <2>2, <2>3 DEF SignalInv
<1>3. CASE CtrlZ
  <2>1. stops < MaxStops /\ stops' = stops + 1 /\ UNCHANGED sig_flag
    BY <1>3 DEF CtrlZ
  <2>2. stops' \in 0 .. MaxStops
    BY <2>1, ForkPipeAssumption DEF SignalInv
  <2>3. pending' = [p \in Procs |-> pending[p] \/ Living(p)]
    BY <1>3 DEF CtrlZ
  <2>4. pending' \in [Procs -> BOOLEAN]
    BY <2>3, Zenon
  <2> QED
    BY <2>1, <2>2, <2>4 DEF SignalInv
<1>4. ASSUME NEW p \in Procs, sigCatch(p) PROVE SignalInv'
  BY <1>4 DEF sigCatch, SignalInv
<1>5. CASE Pipe \/ PipeFails \/ ForkFails \/ Wait \/ Close \/ Read
  BY <1>5, <1>1 DEF Pipe, PipeFails, ForkFails, Wait, Close, Read
<1>6. ASSUME NEW c \in Children,
             Test(c) \/ Exec(c) \/ CloseRead(c) \/ Write(c) \/ ExecFails(c) \/ BrokenPipe(c)
      PROVE  SignalInv'
  BY <1>6, <1>1 DEF Test, Exec, CloseRead, Write, ExecFails, BrokenPipe
<1>7. ASSUME NEW p \in Procs, Return(p) \/ Kill(p) PROVE SignalInv'
  BY <1>7, <1>1 DEF Return, Kill
<1> QED
  BY <1>2, <1>3, <1>4, <1>5, <1>6, <1>7, StepCases

-----------------------------------------------------------------------------
(* The inductive invariant holds whatever is killed or fails and whenever  *)
(* Ctrl+Z is pressed.                                                      *)
THEOREM Invariance == Spec => []IInv
<1>1. Init => IInv
  BY InitInv
<1>2. IInv /\ [Next]_vars => IInv'
  <2> SUFFICES ASSUME IInv, [Next]_vars PROVE IInv'
    OBVIOUS
  <2>1. CASE Next
    BY <2>1, PlaceStep, FamilyStep, EndStep, OpenStep, PipeStep, SignalStep DEF IInv
  <2>2. CASE UNCHANGED vars
    BY <2>2 DEF vars, signals, family, channel, IInv, PlaceInv, FamilyInv, EndInv, OpenInv,
      PipeInv, SignalInv, HasPipe, HasWaited, HasRead, Living
  <2> QED
    BY <2>1, <2>2
<1> QED
  BY <1>1, <1>2, PTL DEF Spec

(* Every variable keeps its type: only ended children are reaped, and only *)
(* living processes have an end of the pipe.                               *)
THEOREM TypeCorrect == Spec => []TypeOK
<1>1. IInv => TypeOK
  <2> SUFFICES ASSUME IInv PROVE TypeOK
    OBVIOUS
  <2>1. pc \in [Procs -> {"unborn", "pipe", "fork", "wait", "close", "read", "test", "exec",
                         "write", "return", "gone"}]
    <3>1. ParentPlaces \union ChildPlaces
            = {"unborn", "pipe", "fork", "wait", "close", "read", "test", "exec", "write", "return", "gone"}
      BY DEF ParentPlaces, ChildPlaces
    <3> QED
      BY <3>1 DEF IInv, PlaceInv
  <2> QED
    BY <2>1 DEF IInv, PlaceInv, FamilyInv, EndInv, OpenInv, PipeInv, SignalInv, TypeOK, Programs
<1> QED
  BY <1>1, Invariance, PTL

(* The parent's one read() returns all that its children ever write, in    *)
(* their order; no child of a parent that goes through its waits finds the *)
(* pipe broken or is left behind.                                          *)
THEOREM NothingIsLost == Spec => []NothingLost
<1>1. IInv => NothingLost
  <2> SUFFICES ASSUME IInv PROVE NothingLost
    OBVIOUS
  <2>1. HasRead => got = sent
    BY DEF IInv, PipeInv
  <2>2. ASSUME NEW c \in Children, ended[Parent] = "returned", program # "task-1"
        PROVE  ended[c] # "no"
    <3>1. HasWaited
      BY <2>2 DEF HasWaited
    <3>2. pc[c] = "gone"
      BY <3>1 DEF IInv, FamilyInv
    <3> QED
      BY <3>2, FamilyFacts DEF IInv, EndInv
  <2>3. \A c \in Children : ended[c] = "broken pipe" => ended[Parent] \in {"failed", "killed"}
    BY DEF IInv, EndInv
  <2> QED
    BY <2>1, <2>2, <2>3 DEF NothingLost
<1> QED
  BY <1>1, Invariance, PTL

-----------------------------------------------------------------------------
(* While the parent waits all children have been forked and one is left to *)
(* reap; when it reads it cannot write any more.                           *)
WaitInv ==
  /\ pc[Parent] = "wait" => forked = N /\ reaped # Children
  /\ pc[Parent] = "read" => <<Parent, "write">> \notin open

LEMMA WaitStep ==
  ASSUME PlaceInv, FamilyInv, WaitInv, Next PROVE WaitInv'
<1> USE FamilyFacts DEF Goto
<1>a. pc \in [Procs -> ParentPlaces \union ChildPlaces]
  BY DEF PlaceInv
<1>0. ASSUME UNCHANGED family, open' \subseteq open,
             pc'[Parent] = pc[Parent] \/ pc'[Parent] \notin {"wait", "read"}
      PROVE  WaitInv'
  BY <1>0 DEF WaitInv, family
<1>1. CASE Pipe
  BY <1>1, <1>a DEF Pipe, WaitInv
<1>2. CASE Fork
  <2> DEFINE c == forked + 1
             after == IF c = N THEN AfterForks ELSE "fork"
  <2>1. /\ forked' = c /\ UNCHANGED reaped
        /\ pc' = [pc EXCEPT ![c] = ChildBegins, ![Parent] = after]
    BY <1>2 DEF Fork
  <2>2. c \in Children
    BY <1>2 DEF Fork, FamilyInv, Children
  <2>3. pc'[Parent] = after /\ pc[c] = "unborn"
    BY <2>1, <2>2, <1>a DEF FamilyInv
  <2>4. AfterForks \in {"return", "wait"}
    BY ProgramFacts DEF PlaceInv
  <2>5. c \notin reaped
    BY <2>3 DEF FamilyInv
  <2> HIDE DEF c
  <2> QED
    BY <2>1, <2>2, <2>3, <2>4, <2>5 DEF WaitInv
<1>3. CASE Wait
  <2> DEFINE after == IF Cardinality(reaped') = N THEN AfterWaits ELSE "wait"
  <2>1. pc[Parent] = "wait" /\ pc'[Parent] = after /\ UNCHANGED <<forked, open>>
    BY <1>3, <1>a DEF Wait
  <2>2. AfterWaits \in {"close", "return"}
    BY ProgramFacts DEF PlaceInv
  <2>3. Cardinality(Children) = N
    BY FS_Interval, ForkPipeAssumption DEF Children
  <2>4. after = "wait" => reaped' # Children
    BY <2>2, <2>3
  <2>5. after \in {"wait", "close", "return"}
    BY <2>2
  <2> HIDE DEF after
  <2> QED
    BY <2>1, <2>4, <2>5 DEF WaitInv
<1>4. CASE Close
  BY <1>4, <1>a DEF Close, WaitInv
<1>5. CASE Read
  BY <1>5, <1>a DEF Read, WaitInv
<1>6. ASSUME NEW c \in Children, Test(c) \/ Exec(c) \/ CloseRead(c) \/ Write(c) PROVE WaitInv'
  <2>1. CASE Test(c)
    BY <1>0, <1>a, <2>1 DEF Test
  <2>2. CASE Exec(c) \/ CloseRead(c) \/ Write(c)
    BY <1>0, <1>a, <2>2 DEF Exec, CloseRead, Write
  <2> QED
    BY <1>6, <2>1, <2>2
<1>7. ASSUME NEW p \in Procs, NEW how, End(p, how), UNCHANGED family PROVE WaitInv'
  BY <1>0, <1>a, <1>7 DEF End
<1>8. ASSUME NEW c \in Children, ExecFails(c) \/ BrokenPipe(c) PROVE WaitInv'
  BY <1>7, <1>8 DEF ExecFails, BrokenPipe
<1>9. ASSUME NEW p \in Procs, Return(p) \/ Kill(p) PROVE WaitInv'
  BY <1>7, <1>9 DEF Return, Kill
<1>10. CASE PipeFails \/ ForkFails
  BY <1>7, <1>10 DEF PipeFails, ForkFails
<1>11. CASE CtrlZ
  BY <1>0, <1>11 DEF CtrlZ
<1>12. ASSUME NEW p \in Procs, sigCatch(p) PROVE WaitInv'
  BY <1>0, <1>12 DEF sigCatch
<1> QED
  BY <1>1, <1>2, <1>3, <1>4, <1>5, <1>6, <1>8, <1>9, <1>10, <1>11, <1>12, StepCases

(* What the parent waits for comes.                                        *)
ParentIsNotStuck ==
  /\ pc[Parent] = "wait" => \E c \in Children \ reaped : pc[c] # "unborn"
  /\ pc[Parent] = "read" => Holders("write") = {}

(* The parent never waits in vain: at a wait() (task-2.c, task-3.c,        *)
(* task-4.c, task-5.c) there is a child that has been forked and not been  *)
(* reaped, and the read() of task-4.c and task-5.c never blocks, as nobody *)
(* is left who could write, the parent included.                           *)
THEOREM ParentNeverStuck == Spec => []ParentIsNotStuck
<1>1. Init => WaitInv
  BY FamilyFacts DEF Init, WaitInv
<1>2. IInv /\ WaitInv /\ [Next]_vars => WaitInv'
  <2>1. IInv /\ WaitInv /\ Next => WaitInv'
    BY WaitStep DEF IInv
  <2>2. WaitInv /\ UNCHANGED vars => WaitInv'
    BY DEF WaitInv, vars, family
  <2> QED
    BY <2>1, <2>2
<1>3. IInv /\ WaitInv => ParentIsNotStuck
  <2> SUFFICES ASSUME IInv, WaitInv PROVE ParentIsNotStuck
    OBVIOUS
  <2>1. ASSUME pc[Parent] = "wait" PROVE \E c \in Children \ reaped : pc[c] # "unborn"
    <3>1. PICK c \in Children : c \notin reaped
      BY <2>1 DEF WaitInv, IInv, FamilyInv
    <3>2. ~(c > forked)
      BY <2>1, <3>1, FamilyFacts DEF WaitInv
    <3> QED
      BY <3>1, <3>2 DEF IInv, FamilyInv
  <2>2. ASSUME pc[Parent] = "read" PROVE Holders("write") = {}
    <3>1. HasPipe /\ program # "task-1"
      BY <2>2, ProgramFacts DEF IInv, PlaceInv
    <3>2. reaped = Children
      BY <2>2, <3>1 DEF IInv, FamilyInv, HasWaited
    <3>3. \A c \in Children : ~Living(c)
      BY <3>2 DEF IInv, FamilyInv, Living
    <3>4. \A p \in Procs : <<p, "write">> \in open => Living(p)
      BY DEF IInv, OpenInv
    <3>5. <<Parent, "write">> \notin open
      BY <2>2 DEF WaitInv
    <3> QED
      BY <3>3, <3>4, <3>5 DEF Holders, Procs
  <2> QED
    BY <2>1, <2>2 DEF ParentIsNotStuck
<1> QED
  BY <1>1, <1>2, <1>3, Invariance, PTL DEF Spec

=============================================================================
