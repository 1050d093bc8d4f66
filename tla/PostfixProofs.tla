--------------------------- MODULE PostfixProofs ----------------------------
(* Theorems about Postfix, for expressions of any length.                  *)
EXTENDS Postfix, SequenceTheorems, FiniteSetTheorems, WellFoundedInduction, TLAPS

-----------------------------------------------------------------------------
(* An expression is shorter than the array it is typed into. *)
LEMMA InputsFit ==
  ASSUME infix \in Inputs
  PROVE  infix \in Seq(Characters) /\ Len(infix) \in Nat /\ Len(infix) < MAXSIZE
BY PostfixAssumption

(* All but the last of a sequence. *)
LEMMA FrontTypes ==
  ASSUME NEW S, NEW s \in Seq(S), s # <<>>
  PROVE  /\ SubSeq(s, 1, Len(s) - 1) \in Seq(S)
         /\ Len(SubSeq(s, 1, Len(s) - 1)) = Len(s) - 1
<1> DEFINE m == Len(s) - 1
<1>1. m \in Nat
  OBVIOUS
<1>2. \A k \in 1 .. m : s[k] \in S
  OBVIOUS
<1> HIDE DEF m
<1>3. SubSeq(s, 1, m) \in Seq(S) /\ Len(SubSeq(s, 1, m)) = IF 1 <= m THEN m - 1 + 1 ELSE 0
  BY <1>1, <1>2, SubSeqProperties
<1>4. Len(SubSeq(s, 1, m)) = m
  BY <1>1, <1>3
<1> QED
  BY <1>3, <1>4 DEF m

(* Popping shortens the stack by the place that is emitted. *)
LEMMA PopTypes ==
  ASSUME NEW n \in Nat, stack \in Seq(1 .. n), postfix \in Seq(1 .. n),
         stack # <<>>
  PROVE  /\ Top \in 1 .. n
         /\ Below \in Seq(1 .. n)
         /\ Len(Below) = Len(stack) - 1
         /\ Append(postfix, Top) \in Seq(1 .. n)
         /\ Len(Append(postfix, Top)) = Len(postfix) + 1
<1>1. Len(stack) \in 1 .. Len(stack)
  OBVIOUS
<1>2. Top \in 1 .. n
  BY <1>1 DEF Top
<1>3. Below \in Seq(1 .. n) /\ Len(Below) = Len(stack) - 1
  BY <1>1, FrontTypes DEF Below
<1> QED
  BY <1>2, <1>3

(* Pushing and emitting the place that is read keep the types. *)
LEMMA AppendTypes ==
  ASSUME NEW n \in Nat, NEW s \in Seq(1 .. n), NEW k \in 1 .. n
  PROVE  Append(s, k) \in Seq(1 .. n) /\ Len(Append(s, k)) = Len(s) + 1
OBVIOUS

-----------------------------------------------------------------------------
LEMMA InitTypes == Init => TypeOK
BY InputsFit DEF Init, TypeOK

LEMMA StepTypes == TypeOK /\ [Next]_vars => TypeOK'
<1> SUFFICES ASSUME TypeOK, [Next]_vars
             PROVE  TypeOK'
  OBVIOUS
<1> DEFINE n == Len(infix)
<1>0. infix \in Seq(Characters) /\ n \in Nat
  BY InputsFit DEF TypeOK
<1>1. ASSUME NEW S, Reads(S)
      PROVE  i \in 1 .. n
  BY <1>0, <1>1 DEF Reads
<1>2. ASSUME PopAndEmit, stack # <<>>, UNCHANGED <<impl, infix>>
      PROVE  TypeOK'
  BY <1>0, <1>2, PopTypes DEF PopAndEmit, TypeOK
<1>3. ASSUME Push(i), i \in 1 .. n, i' = i + 1, UNCHANGED <<impl, infix, postfix>>
      PROVE  TypeOK'
  <2>1. stack' \in Seq(1 .. n) /\ Len(stack') <= Len(stack) + 1
    <3>1. stack \in Seq(1 .. n) /\ Len(stack) \in Nat
      BY <1>0 DEF TypeOK
    <3>2. Append(stack, i) \in Seq(1 .. n) /\ Len(Append(stack, i)) = Len(stack) + 1
      BY <1>0, <1>3, <3>1, AppendTypes
    <3>3. stack' = Append(stack, i) \/ stack' = stack
      BY <1>3, Zenon DEF Push
    <3>4. CASE stack' = stack
      BY <3>1, <3>4
    <3>5. CASE stack' = Append(stack, i)
      BY <3>1, <3>2, <3>5
    <3> QED
      BY <3>3, <3>4, <3>5
  <2> QED
    BY <1>0, <1>3, <2>1 DEF TypeOK
<1>4. CASE Operand
  BY <1>0, <1>1, <1>4, AppendTypes DEF Operand, TypeOK
<1>5. CASE OpenParen
  BY <1>1, <1>3, <1>5 DEF OpenParen
<1>6. CASE CloseParen
  <2>1. i \in 1 .. n
    BY <1>1, <1>6 DEF CloseParen
  <2>2. CASE stack = <<>> /\ i' = i + 1 /\ UNCHANGED <<stack, postfix>>
    BY <1>0, <1>6, <2>1, <2>2 DEF CloseParen, TypeOK
  <2>3. CASE stack # <<>> /\ stack' = Below /\ i' = i + 1 /\ UNCHANGED postfix
    BY <1>0, <1>6, <2>1, <2>3, PopTypes DEF CloseParen, TypeOK
  <2>4. CASE stack # <<>> /\ PopAndEmit
    BY <1>2, <1>6, <2>4 DEF CloseParen
  <2> QED
    BY <1>6, <2>2, <2>3, <2>4 DEF CloseParen
<1>7. CASE Operator
  <2>1. CASE GoesFirst(infix[i]) /\ PopAndEmit
    BY <1>2, <1>7, <2>1 DEF Operator, GoesFirst
  <2>2. CASE Push(i) /\ i' = i + 1 /\ UNCHANGED postfix
    BY <1>1, <1>3, <1>7, <2>2 DEF Operator
  <2> QED
    BY <1>7, <2>1, <2>2 DEF Operator
<1>8. CASE Drain
  BY <1>2, <1>8 DEF Drain
<1>9. CASE UNCHANGED vars
  BY <1>9 DEF vars, TypeOK
<1> QED
  BY <1>4, <1>5, <1>6, <1>7, <1>8, <1>9 DEF Next

(* Whatever is typed, the stack and the result hold places of characters   *)
(* that have been read, and no more of them than there are.                *)
THEOREM TypeCorrect == Spec => []TypeOK
<1>1. Init => TypeOK
  BY InitTypes
<1>2. TypeOK /\ [Next]_vars => TypeOK'
  BY StepTypes
<1> QED
  BY <1>1, <1>2, PTL DEF Spec

-----------------------------------------------------------------------------
(* No push is refused, and the result leaves room for its 0: the results   *)
(* of push are not looked at, and the result is written without a check.   *)
Fits == Len(stack) < MAXSIZE /\ Len(postfix) < MAXSIZE

THEOREM BuffersSuffice == Spec => []Fits
<1>1. TypeOK => Fits
  BY InputsFit, PostfixAssumption DEF TypeOK, Fits
<1> QED
  BY <1>1, TypeCorrect, PTL

-----------------------------------------------------------------------------
(* What becomes of the characters that are read.                           *)

(* The stack holds places in the order they were read, none of an operand, *)
(* and no place is held twice or held and emitted.                         *)
PlaceInv ==
  /\ \A a \in DOMAIN postfix : postfix[a] < i
  /\ \A a \in DOMAIN stack : stack[a] < i /\ infix[stack[a]] \notin Operands
  /\ \A a, b \in DOMAIN stack : a < b => stack[a] < stack[b]
  /\ \A a, b \in DOMAIN postfix : a # b => postfix[a] # postfix[b]
  /\ \A a \in DOMAIN stack, b \in DOMAIN postfix : stack[a] # postfix[b]

Holds(s, k) == \E a \in DOMAIN s : s[a] = k

(* Every operand that has been read is in the result, and operands stay in *)
(* their order.                                                            *)
OperandInv ==
  /\ \A k \in 1 .. i - 1 : infix[k] \in Operands => Holds(postfix, k)
  /\ \A a, b \in DOMAIN postfix :
       a < b /\ infix[postfix[a]] \in Operands /\ infix[postfix[b]] \in Operands
         => postfix[a] < postfix[b]

Plain(s) == \A k \in DOMAIN s : s[k] \notin {"(", ")"}

(* With an array, every operator that has been read is on the stack or in  *)
(* the result; with a list, when there are no parentheses.                 *)
OperatorInv ==
  impl = "array" \/ Plain(infix) =>
    \A k \in 1 .. i - 1 : infix[k] \in Operators => Holds(postfix, k) \/ Holds(stack, k)

PlacesInv == TypeOK /\ PlaceInv /\ OperandInv /\ OperatorInv

(* The elements of a sequence with one more, and with one less.            *)
LEMMA AppendElements ==
  ASSUME NEW S, NEW s \in Seq(S), NEW x \in S
  PROVE  /\ DOMAIN s = 1 .. Len(s) /\ Len(s) \in Nat
         /\ DOMAIN Append(s, x) = 1 .. Len(s) + 1
         /\ \A a \in 1 .. Len(s) : Append(s, x)[a] = s[a]
         /\ Append(s, x)[Len(s) + 1] = x
OBVIOUS

LEMMA FrontElements ==
  ASSUME NEW S, NEW s \in Seq(S), s # <<>>
  PROVE  /\ DOMAIN s = 1 .. Len(s) /\ Len(s) \in Nat /\ Len(s) >= 1
         /\ DOMAIN SubSeq(s, 1, Len(s) - 1) = 1 .. Len(s) - 1
         /\ \A a \in 1 .. Len(s) - 1 : SubSeq(s, 1, Len(s) - 1)[a] = s[a]
OBVIOUS

(* No push is refused. *)
LEMMA PushWorks ==
  ASSUME TypeOK, i \in 1 .. Len(infix), Push(i)
  PROVE  stack' = Append(stack, i)
<1>1. Len(stack) < MAXSIZE
  BY InputsFit, PostfixAssumption DEF TypeOK
<1> QED
  BY <1>1 DEF Push

(* How a step moves places: an operand that is read is emitted; a place is *)
(* pushed; the top is emitted; the top is dropped, or nothing moves.       *)
LEMMA Movements ==
  ASSUME TypeOK, Next
  PROVE  /\ UNCHANGED <<impl, infix>>
         /\ \/ /\ i \in DOMAIN infix /\ i' = i + 1 /\ infix[i] \in Operands
               /\ postfix' = Append(postfix, i) /\ stack' = stack
            \/ /\ i \in DOMAIN infix /\ i' = i + 1 /\ infix[i] \notin Operands
               /\ stack' = Append(stack, i) /\ postfix' = postfix
            \/ /\ stack # <<>> /\ i' = i
               /\ postfix' = Append(postfix, Top) /\ stack' = Below
            \/ /\ i \in DOMAIN infix /\ i' = i + 1 /\ infix[i] = ")"
               /\ stack # <<>> /\ (impl = "array" => infix[Top] = "(")
               /\ stack' = Below /\ postfix' = postfix
            \/ /\ i \in DOMAIN infix /\ i' = i + 1 /\ infix[i] = ")"
               /\ stack' = stack /\ postfix' = postfix
<1>1. DOMAIN infix = 1 .. Len(infix)
  BY InputsFit DEF TypeOK
<1>2. CASE Operand
  BY <1>2 DEF Operand, Reads
<1>3. CASE OpenParen
  BY <1>1, <1>3, PushWorks DEF OpenParen, Reads, Operands
<1>4. CASE CloseParen
  BY <1>4 DEF CloseParen, Reads, ClosesLoop, PopAndEmit
<1>5. CASE Operator
  <2>1. i \in DOMAIN infix /\ infix[i] \notin Operands
    BY <1>5 DEF Operator, Reads, Operators, Operands
  <2> QED
    BY <1>1, <1>5, <2>1, PushWorks DEF Operator, GoesFirst, PopAndEmit
<1>6. CASE Drain
  BY <1>6 DEF Drain, PopAndEmit
<1> QED
  BY <1>2, <1>3, <1>4, <1>5, <1>6 DEF Next

(* Every step keeps the invariant of the places.                           *)
LEMMA PlacesStep == PlacesInv /\ [Next]_vars => PlacesInv'
<1> SUFFICES ASSUME PlacesInv, [Next]_vars PROVE PlacesInv'
  OBVIOUS
<1> DEFINE n == Len(infix)
           p == Len(postfix)
           q == Len(stack)
<1>1. TypeOK /\ TypeOK'
  BY StepTypes DEF PlacesInv
<1>2. infix \in Seq(Characters) /\ n \in Nat /\ DOMAIN infix = 1 .. n /\ i \in Nat /\ i >= 1
  BY <1>1, InputsFit DEF TypeOK
<1>3. stack \in Seq(1 .. n) /\ postfix \in Seq(1 .. n)
  BY <1>1 DEF TypeOK
<1>4. /\ p \in Nat /\ DOMAIN postfix = 1 .. p /\ \A a \in 1 .. p : postfix[a] \in Nat
      /\ q \in Nat /\ DOMAIN stack = 1 .. q /\ \A a \in 1 .. q : stack[a] \in Nat
  BY <1>2, <1>3
<1>5. PlaceInv /\ OperandInv /\ OperatorInv
  BY DEF PlacesInv
<1>6. ASSUME NEW x \in 1 .. n, postfix' = Append(postfix, x)
      PROVE  /\ DOMAIN postfix' = 1 .. p + 1 /\ postfix'[p + 1] = x
             /\ \A a \in 1 .. p : postfix'[a] = postfix[a]
             /\ Holds(postfix', x) /\ \A k : Holds(postfix, k) => Holds(postfix', k)
  <2>1. /\ DOMAIN postfix' = 1 .. p + 1 /\ postfix'[p + 1] = x
        /\ \A a \in 1 .. p : postfix'[a] = postfix[a]
    BY <1>3, <1>6, AppendElements
  <2> QED
    BY <1>4, <2>1 DEF Holds
<1>7. ASSUME stack # <<>>, stack' = Below
      PROVE  /\ q >= 1 /\ DOMAIN stack' = 1 .. q - 1 /\ \A a \in 1 .. q - 1 : stack'[a] = stack[a]
             /\ q \in 1 .. q /\ Top = stack[q] /\ Top \in 1 .. n /\ Top < i
             /\ \A k : Holds(stack, k) => k = Top \/ Holds(stack', k)
  <2>1. q >= 1 /\ DOMAIN stack' = 1 .. q - 1 /\ \A a \in 1 .. q - 1 : stack'[a] = stack[a]
    BY <1>3, <1>7, FrontElements DEF Below
  <2>2. q \in 1 .. q /\ Top = stack[q] /\ Top \in 1 .. n /\ Top < i
    BY <1>3, <1>4, <1>5, <2>1 DEF Top, PlaceInv
  <2> HIDE DEF q, n
  <2>3. \A a \in 1 .. q : a = q \/ a \in 1 .. q - 1
    BY <1>4
  <2> QED
    BY <1>4, <2>1, <2>2, <2>3 DEF Holds
<1> HIDE DEF n, p, q
<1>8. \A k \in 1 .. i : k = i \/ k \in 1 .. i - 1
  BY <1>2
<1>9. (i + 1) - 1 = i
  BY <1>2
<1>10. ASSUME UNCHANGED <<impl, infix>>, i \in DOMAIN infix, i' = i + 1, infix[i] \in Operands,
              postfix' = Append(postfix, i), stack' = stack
       PROVE  PlaceInv' /\ OperandInv' /\ OperatorInv'
  <2>1. /\ DOMAIN postfix' = 1 .. p + 1 /\ postfix'[p + 1] = i
        /\ \A a \in 1 .. p : postfix'[a] = postfix[a]
        /\ Holds(postfix', i) /\ \A k : Holds(postfix, k) => Holds(postfix', k)
    BY <1>2, <1>6, <1>10
  <2>2. PlaceInv'
    BY <1>2, <1>4, <1>5, <1>10, <2>1 DEF PlaceInv
  <2>3. \A k \in 1 .. i' - 1 : infix'[k] \in Operands => Holds(postfix', k)
    BY <1>5, <1>8, <1>9, <1>10, <2>1 DEF OperandInv
  <2>4. \A a, b \in DOMAIN postfix' :
          a < b /\ infix'[postfix'[a]] \in Operands /\ infix'[postfix'[b]] \in Operands
            => postfix'[a] < postfix'[b]
    BY <1>2, <1>4, <1>5, <1>10, <2>1 DEF OperandInv, PlaceInv
  <2>5. OperatorInv'
    BY <1>5, <1>8, <1>9, <1>10, <2>1 DEF OperatorInv, Holds
  <2> QED
    BY <2>2, <2>3, <2>4, <2>5 DEF OperandInv
<1>11. ASSUME UNCHANGED <<impl, infix>>, i \in DOMAIN infix, i' = i + 1, infix[i] \notin Operands,
              stack' = Append(stack, i), postfix' = postfix
       PROVE  PlaceInv' /\ OperandInv' /\ OperatorInv'
  <2>1. /\ DOMAIN stack' = 1 .. q + 1 /\ stack'[q + 1] = i
        /\ \A a \in 1 .. q : stack'[a] = stack[a]
    BY <1>2, <1>3, <1>11, AppendElements DEF q, n
  <2>2. Holds(stack', i) /\ \A k : Holds(stack, k) => Holds(stack', k)
    BY <1>4, <2>1 DEF Holds
  <2>3. PlaceInv'
    BY <1>2, <1>4, <1>5, <1>11, <2>1 DEF PlaceInv
  <2>4. OperandInv'
    BY <1>5, <1>8, <1>9, <1>11 DEF OperandInv, Holds
  <2>5. OperatorInv'
    BY <1>5, <1>8, <1>9, <1>11, <2>2 DEF OperatorInv, Holds
  <2> QED
    BY <2>3, <2>4, <2>5
<1>12. ASSUME UNCHANGED <<impl, infix>>, stack # <<>>, i' = i,
              postfix' = Append(postfix, Top), stack' = Below
       PROVE  PlaceInv' /\ OperandInv' /\ OperatorInv'
  <2>1. /\ q >= 1 /\ DOMAIN stack' = 1 .. q - 1 /\ \A a \in 1 .. q - 1 : stack'[a] = stack[a]
        /\ q \in 1 .. q /\ Top = stack[q] /\ Top \in 1 .. n /\ Top < i
        /\ \A k : Holds(stack, k) => k = Top \/ Holds(stack', k)
    BY <1>7, <1>12
  <2>2. /\ DOMAIN postfix' = 1 .. p + 1 /\ postfix'[p + 1] = Top
        /\ \A a \in 1 .. p : postfix'[a] = postfix[a]
        /\ Holds(postfix', Top) /\ \A k : Holds(postfix, k) => Holds(postfix', k)
    BY <1>6, <1>12, <2>1
  <2>3. infix[Top] \notin Operands
    BY <1>4, <1>5, <2>1 DEF PlaceInv
  <2>4. PlaceInv'
    <3>0. \A a \in 1 .. q - 1 : a \in 1 .. q /\ a < q /\ stack'[a] = stack[a]
      BY <1>4, <2>1
    <3>1. \A a \in 1 .. q - 1 : a \in 1 .. q /\ a < q /\ stack[a] < stack[q] /\ stack'[a] = stack[a]
      BY <1>4, <1>5, <2>1, <3>0 DEF PlaceInv
    <3>2. /\ \A a \in DOMAIN postfix' : postfix'[a] < i'
          /\ \A a \in DOMAIN stack' : stack'[a] < i' /\ infix'[stack'[a]] \notin Operands
      BY <1>2, <1>4, <1>5, <1>12, <2>1, <2>2, <3>1 DEF PlaceInv
    <3>3. \A a, b \in DOMAIN stack' : a < b => stack'[a] < stack'[b]
      BY <1>4, <1>5, <2>1, <3>1 DEF PlaceInv
    <3>4. \A a \in 1 .. p : postfix[a] # Top
      BY <1>4, <1>5, <2>1 DEF PlaceInv
    <3>5. \A a, b \in DOMAIN postfix' : a # b => postfix'[a] # postfix'[b]
      BY <1>4, <1>5, <2>2, <3>4 DEF PlaceInv
    <3>6. \A a \in 1 .. q - 1 : stack'[a] # Top
      BY <1>4, <2>1, <3>1
    <3>7. \A a \in DOMAIN stack', b \in DOMAIN postfix' : stack'[a] # postfix'[b]
      <4>1. \A a \in 1 .. q - 1, b \in 1 .. p : stack'[a] # postfix'[b]
        BY <1>4, <1>5, <2>2, <3>1 DEF PlaceInv
      <4>2. \A b \in 1 .. p + 1 : b = p + 1 \/ b \in 1 .. p
        BY <1>4
      <4> QED
        BY <2>1, <2>2, <3>6, <4>1, <4>2
    <3> QED
      BY <3>2, <3>3, <3>5, <3>7 DEF PlaceInv
  <2>5. OperandInv'
    BY <1>2, <1>4, <1>5, <1>12, <2>2, <2>3 DEF OperandInv
  <2>6. OperatorInv'
    BY <1>5, <1>12, <2>1, <2>2 DEF OperatorInv
  <2> QED
    BY <2>4, <2>5, <2>6
<1>13. ASSUME UNCHANGED <<impl, infix>>, i \in DOMAIN infix, i' = i + 1, infix[i] = ")",
              stack # <<>>, impl = "array" => infix[Top] = "(",
              stack' = Below, postfix' = postfix
       PROVE  PlaceInv' /\ OperandInv' /\ OperatorInv'
  <2>1. /\ q >= 1 /\ DOMAIN stack' = 1 .. q - 1 /\ \A a \in 1 .. q - 1 : stack'[a] = stack[a]
        /\ q \in 1 .. q /\ Top = stack[q] /\ Top \in 1 .. n /\ Top < i
        /\ \A k : Holds(stack, k) => k = Top \/ Holds(stack', k)
    BY <1>7, <1>13
  <2>2. PlaceInv'
    <3>1. \A a \in 1 .. q - 1 : a \in 1 .. q /\ stack'[a] = stack[a]
      BY <1>4, <2>1
    <3>2. infix' = infix /\ postfix' = postfix /\ i' = i + 1
      BY <1>13
    <3>3. /\ \A a \in DOMAIN postfix' : postfix'[a] < i'
          /\ \A a \in DOMAIN stack' : stack'[a] < i' /\ infix'[stack'[a]] \notin Operands
      <4>1. \A a \in 1 .. p : postfix[a] < i'
        <5>1. \A a \in 1 .. p : postfix[a] < i /\ postfix[a] \in Nat
          BY <1>4, <1>5 DEF PlaceInv
        <5> QED
          BY <1>2, <3>2, <5>1
      <4>2. \A a \in 1 .. q : stack[a] < i' /\ infix[stack[a]] \notin Operands
        BY <1>2, <1>4, <1>5, <3>2 DEF PlaceInv
      <4> QED
        BY <1>4, <2>1, <3>1, <3>2, <4>1, <4>2
    <3>4. \A a, b \in DOMAIN stack' : a < b => stack'[a] < stack'[b]
      BY <1>4, <1>5, <2>1, <3>1 DEF PlaceInv
    <3>5. \A a \in DOMAIN stack', b \in DOMAIN postfix' : stack'[a] # postfix'[b]
      BY <1>4, <1>5, <2>1, <3>1, <3>2 DEF PlaceInv
    <3>6. \A a, b \in DOMAIN postfix' : a # b => postfix'[a] # postfix'[b]
      BY <1>5, <1>13 DEF PlaceInv
    <3> QED
      BY <3>3, <3>4, <3>5, <3>6 DEF PlaceInv
  <2>3. infix[i] \notin Operands /\ infix[i] \notin Operators
    BY <1>13 DEF Operands, Operators
  <2>4. OperandInv'
    BY <1>5, <1>8, <1>9, <1>13, <2>3 DEF OperandInv, Holds
  <2>5. /\ impl = "array" => infix[Top] \notin Operators
        /\ ~Plain(infix)
    BY <1>13 DEF Operators, Plain
  <2>6. OperatorInv'
    BY <1>5, <1>8, <1>9, <1>13, <2>1, <2>3, <2>5 DEF OperatorInv, Holds
  <2> QED
    BY <2>2, <2>4, <2>6
<1>14. ASSUME UNCHANGED <<impl, infix>>, i \in DOMAIN infix, i' = i + 1, infix[i] = ")",
              stack' = stack, postfix' = postfix
       PROVE  PlaceInv' /\ OperandInv' /\ OperatorInv'
  <2>1. infix[i] \notin Operands /\ infix[i] \notin Operators
    BY <1>14 DEF Operands, Operators
  <2>2. PlaceInv'
    BY <1>2, <1>4, <1>5, <1>14 DEF PlaceInv
  <2>3. OperandInv' /\ OperatorInv'
    BY <1>5, <1>8, <1>9, <1>14, <2>1 DEF OperandInv, OperatorInv, Holds
  <2> QED
    BY <2>2, <2>3
<1>15. CASE UNCHANGED vars
  <2>1. UNCHANGED impl /\ UNCHANGED infix /\ UNCHANGED i /\ UNCHANGED stack /\ UNCHANGED postfix
    BY <1>15 DEF vars
  <2>2. PlaceInv'
    BY <1>5, <2>1 DEF PlaceInv
  <2>3. OperandInv' /\ OperatorInv'
    BY <1>5, <2>1 DEF OperandInv, OperatorInv
  <2> QED
    BY <1>1, <2>2, <2>3 DEF PlacesInv
<1>16. CASE Next
  <2>1. UNCHANGED <<impl, infix>>
    BY <1>1, <1>16, Movements
  <2>2. CASE /\ i \in DOMAIN infix /\ i' = i + 1 /\ infix[i] \in Operands
             /\ postfix' = Append(postfix, i) /\ stack' = stack
    BY <1>1, <1>10, <2>1, <2>2 DEF PlacesInv
  <2>3. CASE /\ i \in DOMAIN infix /\ i' = i + 1 /\ infix[i] \notin Operands
             /\ stack' = Append(stack, i) /\ postfix' = postfix
    BY <1>1, <1>11, <2>1, <2>3 DEF PlacesInv
  <2>4. CASE stack # <<>> /\ i' = i /\ postfix' = Append(postfix, Top) /\ stack' = Below
    BY <1>1, <1>12, <2>1, <2>4 DEF PlacesInv
  <2>5. CASE /\ i \in DOMAIN infix /\ i' = i + 1 /\ infix[i] = ")"
             /\ stack # <<>> /\ (impl = "array" => infix[Top] = "(")
             /\ stack' = Below /\ postfix' = postfix
    BY <1>1, <1>13, <2>1, <2>5 DEF PlacesInv
  <2>6. CASE /\ i \in DOMAIN infix /\ i' = i + 1 /\ infix[i] = ")"
             /\ stack' = stack /\ postfix' = postfix
    BY <1>1, <1>14, <2>1, <2>6 DEF PlacesInv
  <2> QED
    BY <1>1, <1>16, <2>2, <2>3, <2>4, <2>5, <2>6, Movements
<1> QED
  BY <1>15, <1>16

(* PlacesInv is an invariant of the conversion, with an array or a list.   *)
THEOREM PlacesInvariance == Spec => []PlacesInv
<1>1. Init => PlacesInv
  BY InitTypes DEF Init, PlacesInv, PlaceInv, OperandInv, OperatorInv
<1> QED
  BY <1>1, PlacesStep, PTL DEF Spec

(* Whatever is typed, either loop of pops included, no character comes out *)
(* twice, and the operands come out in the order they were typed in.       *)
OperandsInOrder ==
  /\ \A a, b \in DOMAIN postfix : a # b => postfix[a] # postfix[b]
  /\ \A a, b \in DOMAIN postfix :
       a < b /\ infix[postfix[a]] \in Operands /\ infix[postfix[b]] \in Operands
         => postfix[a] < postfix[b]

(* The loops of array_operations.c:66-111 and list_operations.c:89-135     *)
(* emit no character twice and let no operand overtake another.            *)
THEOREM OrderKept == Spec => []OperandsInOrder
<1>1. PlacesInv => OperandsInOrder
  BY DEF PlacesInv, PlaceInv, OperandInv, OperandsInOrder
<1> QED
  BY <1>1, PlacesInvariance, PTL

(* At the end every operand is in the result, and with an array or without *)
(* parentheses every operator, too.                                        *)
NoneLost ==
  Done => \A k \in DOMAIN infix :
            \/ infix[k] \in Operands
            \/ infix[k] \in Operators /\ (impl = "array" \/ Plain(infix))
            => Holds(postfix, k)

(* Only parentheses get lost with an array (array_operations.c:66-111),    *)
(* and with a list (list_operations.c:89-135) no operand, however          *)
(* unbalanced the expression, and no operator of one without parentheses.  *)
THEOREM NothingIsLost == Spec => []NoneLost
<1>1. ASSUME PlacesInv PROVE NoneLost
  <2>1. TypeOK /\ DOMAIN infix = 1 .. Len(infix) /\ Len(infix) \in Nat
    BY <1>1, InputsFit DEF PlacesInv, TypeOK
  <2>2. Done => i - 1 = Len(infix)
    BY <2>1 DEF Done, TypeOK
  <2>3. Done => \A k : ~Holds(stack, k)
    BY DEF Done, Holds
  <2> QED
    BY <1>1, <2>1, <2>2, <2>3 DEF PlacesInv, OperandInv, OperatorInv, NoneLost
<1> QED
  BY <1>1, PlacesInvariance, PTL

-----------------------------------------------------------------------------
(* Every set of numbers has a least one. *)
LEMMA LeastNumber ==
  ASSUME NEW T, T \subseteq Nat, T # {}
  PROVE  \E x \in T : \A y \in T : x <= y
<1> DEFINE R == {ss \in Nat \X Nat : ss[1] < ss[2]}
<1>1. IsWellFoundedOn(R, Nat)
  BY NatLessThanWellFounded DEF OpToRel
<1>2. \A x, y \in Nat : y < x => <<y, x>> \in R
  OBVIOUS
<1> HIDE DEF R
<1>3. \E x \in T : \A y \in T : ~(<<y, x>> \in R)
  BY <1>1, WFMin, Zenon
<1>4. PICK x \in T : \A y \in T : ~(<<y, x>> \in R)
  BY <1>3
<1>5. \A y \in T : ~(y < x)
  BY <1>2, <1>4
<1>6. \A y \in T : x <= y
  BY <1>4, <1>5
<1> QED
  BY <1>4, <1>6

(* What holds of 0 and of the next of each it holds of holds of all.       *)
LEMMA Induction ==
  ASSUME NEW T, T \subseteq Nat, 0 \in T, \A n \in T : n + 1 \in T
  PROVE  T = Nat
<1>1. SUFFICES ASSUME Nat \ T # {} PROVE FALSE
  OBVIOUS
<1>2. PICK x \in Nat \ T : \A y \in Nat \ T : x <= y
  BY <1>1, LeastNumber
<1>3. x # 0 /\ x - 1 \in Nat /\ ~(x <= x - 1) /\ (x - 1) + 1 = x
  BY <1>2
<1>4. x - 1 \in T
  BY <1>2, <1>3
<1> QED
  BY <1>2, <1>3, <1>4

-----------------------------------------------------------------------------
(* The kinds of characters, and how operators bind.                        *)
LEMMA CharacterFacts ==
  /\ \A c \in Characters : c \in Operands \/ c \in Operators \/ c = "(" \/ c = ")"
  /\ \A c \in Operands : c \notin Operators /\ c # "(" /\ c # ")"
  /\ \A c \in Operators : c # "(" /\ c # ")"
  /\ "(" # ")"
BY DEF Characters, Operands, Operators

LEMMA BindingFacts ==
  \A c \in Operators : /\ Binding[c] \in 1 .. 3
                       /\ precedence(c) = Binding[c]
BY DEF Operators, Binding, precedence

LEMMA TermFacts ==
  /\ \A c \in Operands : StartsTerm(c) /\ EndsTerm(c)
  /\ \A c \in Operators : ~StartsTerm(c) /\ ~EndsTerm(c)
  /\ StartsTerm("(") /\ ~EndsTerm("(")
  /\ ~StartsTerm(")") /\ EndsTerm(")")
BY DEF Operators, Operands, StartsTerm, EndsTerm

(* How many of the first k characters are c.                               *)
Number(s, c, k) == Cardinality({m \in 1 .. k : s[m] = c})

LEMMA CountOneMore ==
  ASSUME NEW s, NEW c, NEW k \in Nat
  PROVE  /\ Number(s, c, 0) = 0
         /\ Number(s, c, k) \in Nat
         /\ s[k + 1] = c => Number(s, c, k + 1) = Number(s, c, k) + 1
         /\ s[k + 1] # c => Number(s, c, k + 1) = Number(s, c, k)
<1> DEFINE S(j) == {m \in 1 .. j : s[m] = c}
<1>0. S(0) = {}
  OBVIOUS
<1>1. IsFiniteSet(1 .. k)
  BY FS_Interval
<1>2. IsFiniteSet(S(k)) /\ Cardinality(S(k)) \in Nat
  BY <1>1, FS_Subset, FS_CardinalityType
<1>3. ASSUME s[k + 1] = c PROVE Cardinality(S(k + 1)) = Cardinality(S(k)) + 1
  <2>1. S(k + 1) = S(k) \cup {k + 1} /\ k + 1 \notin S(k)
    BY <1>3
  <2> QED
    BY <1>2, <2>1, FS_AddElement
<1>4. ASSUME s[k + 1] # c PROVE Cardinality(S(k + 1)) = Cardinality(S(k))
  <2>1. S(k + 1) = S(k)
    BY <1>4
  <2> QED
    BY <2>1
<1> QED
  BY <1>0, <1>2, <1>3, <1>4, FS_EmptySet DEF Number

(* Depth counts parentheses.                                               *)
LEMMA DepthFacts ==
  ASSUME NEW s \in Seq(Characters)
  PROVE  /\ Depth(s, 0) = 0
         /\ \A k \in Nat : Depth(s, k) \in Int
         /\ \A k \in Nat :
              /\ s[k + 1] = "(" => Depth(s, k + 1) = Depth(s, k) + 1
              /\ s[k + 1] = ")" => Depth(s, k + 1) = Depth(s, k) - 1
              /\ s[k + 1] \notin {"(", ")"} => Depth(s, k + 1) = Depth(s, k)
<1>1. \A j : Depth(s, j) = Number(s, "(", j) - Number(s, ")", j)
  BY DEF Depth, Number
<1>4. Depth(s, 0) = 0
  BY <1>1, CountOneMore
<1>5. ASSUME NEW k \in Nat
      PROVE  /\ Depth(s, k) \in Int
             /\ s[k + 1] = "(" => Depth(s, k + 1) = Depth(s, k) + 1
             /\ s[k + 1] = ")" => Depth(s, k + 1) = Depth(s, k) - 1
             /\ s[k + 1] \notin {"(", ")"} => Depth(s, k + 1) = Depth(s, k)
  <2>1. \A c : /\ Number(s, c, k) \in Nat
               /\ s[k + 1] = c => Number(s, c, k + 1) = Number(s, c, k) + 1
               /\ s[k + 1] # c => Number(s, c, k + 1) = Number(s, c, k)
    BY CountOneMore
  <2> QED
    BY <1>1, <2>1
<1> QED
  BY <1>4, <1>5

(* The same, looking back.                                                 *)
LEMMA DepthBack ==
  ASSUME NEW s \in Seq(Characters), NEW k \in 1 .. Len(s)
  PROVE  /\ Depth(s, k) \in Int /\ Depth(s, k - 1) \in Int
         /\ s[k] = "(" => Depth(s, k) = Depth(s, k - 1) + 1
         /\ s[k] = ")" => Depth(s, k) = Depth(s, k - 1) - 1
         /\ s[k] \in Operands \cup Operators => Depth(s, k) = Depth(s, k - 1)
<1>1. k - 1 \in Nat /\ (k - 1) + 1 = k /\ k \in Nat
  OBVIOUS
<1>2. s[k] \in Operands \cup Operators => s[k] \notin {"(", ")"}
  BY CharacterFacts
<1> HIDE DEF Depth
<1> QED
  BY <1>1, <1>2, DepthFacts

-----------------------------------------------------------------------------
(* The order of the result, without recursion.  An operator at k is        *)
(* applied when the parenthesis around it is closed, or when an operator   *)
(* outside of further parentheses follows that binds no tighter.           *)
Ends(s, k, n) ==
  \/ Depth(s, n) < Depth(s, k)
  \/ s[n] \in Operators /\ Depth(s, n) = Depth(s, k) /\ Binding[s[n]] <= Binding[s[k]]

Closed(s, a, b) == s[a] \in Operands \/ \E n \in a + 1 .. b : Ends(s, a, n)

Precedes(s, a, b) == (a < b /\ Closed(s, a, b)) \/ (b < a /\ ~Closed(s, b, a))

Sorted(s, t) == \A a, b \in DOMAIN t : a < b => Precedes(s, t[a], t[b])

(* t consists of the operands and operators of s[lo .. hi], in order.      *)
InOrder(s, lo, hi, t) ==
  /\ t \in Seq(lo .. hi)
  /\ \A a \in DOMAIN t : s[t[a]] \in Operands \cup Operators
  /\ \A k \in lo .. hi : s[k] \in Operands \cup Operators => Holds(t, k)
  /\ Sorted(s, t)

(* Of two places one precedes the other, and none itself.                  *)
LEMMA PrecedesFacts ==
  ASSUME NEW s, NEW a \in Int, NEW b \in Int
  PROVE  ~Precedes(s, a, a) /\ (Precedes(s, a, b) => ~Precedes(s, b, a))
BY DEF Precedes

(* Two sequences in order agree on a place when they do on all before it.  *)
LEMMA AgreeOnNext ==
  ASSUME NEW s, NEW lo \in Nat, NEW hi \in Nat, NEW t, NEW u,
         InOrder(s, lo, hi, t), InOrder(s, lo, hi, u),
         NEW j \in DOMAIN t,
         \A m \in 1 .. j - 1 : m \in DOMAIN u /\ u[m] = t[m]
  PROVE  j \in DOMAIN u /\ u[j] = t[j]
<1>1. /\ DOMAIN t = 1 .. Len(t) /\ Len(t) \in Nat /\ \A a \in DOMAIN t : t[a] \in lo .. hi
      /\ DOMAIN u = 1 .. Len(u) /\ Len(u) \in Nat /\ \A a \in DOMAIN u : u[a] \in lo .. hi
  BY DEF InOrder
<1>2. PICK m \in DOMAIN u : u[m] = t[j]
  BY <1>1 DEF InOrder, Holds
<1>3. m >= j
  <2>1. SUFFICES ASSUME m < j PROVE FALSE
    BY <1>1
  <2>2. m \in 1 .. j - 1 /\ m \in DOMAIN t
    BY <1>1, <2>1
  <2>3. t[m] = t[j] /\ Precedes(s, t[m], t[j])
    BY <1>2, <2>1, <2>2 DEF InOrder, Sorted
  <2> QED
    BY <1>1, <2>2, <2>3, PrecedesFacts
<1>4. j \in DOMAIN u
  BY <1>1, <1>3
<1>5. CASE m = j
  BY <1>2, <1>4, <1>5
<1>6. CASE m > j
  <2>1. Precedes(s, u[j], t[j])
    BY <1>2, <1>4, <1>6 DEF InOrder, Sorted
  <2>2. PICK l \in DOMAIN t : t[l] = u[j]
    BY <1>1, <1>4 DEF InOrder, Holds
  <2>3. CASE l < j
    <3>1. l \in 1 .. j - 1 /\ l \in DOMAIN u
      BY <1>1, <2>3
    <3>2. u[l] = u[j] /\ Precedes(s, u[l], u[j])
      BY <1>4, <2>2, <2>3, <3>1 DEF InOrder, Sorted
    <3> QED
      BY <1>1, <1>4, <3>2, PrecedesFacts
  <2>4. CASE l = j
    BY <1>1, <2>1, <2>2, <2>4, PrecedesFacts
  <2>5. CASE l > j
    <3>1. Precedes(s, t[j], u[j])
      BY <2>2, <2>5 DEF InOrder, Sorted
    <3> QED
      BY <1>1, <1>4, <2>1, <3>1, PrecedesFacts
  <2> QED
    BY <1>1, <2>3, <2>4, <2>5
<1> QED
  BY <1>1, <1>3, <1>5, <1>6

(* So one of them is the beginning of the other.                           *)
LEMMA AgreeOnAll ==
  ASSUME NEW s, NEW lo \in Nat, NEW hi \in Nat, NEW t, NEW u,
         InOrder(s, lo, hi, t), InOrder(s, lo, hi, u)
  PROVE  \A j \in DOMAIN t : j \in DOMAIN u /\ u[j] = t[j]
<1> DEFINE T == {j \in DOMAIN t : ~(j \in DOMAIN u /\ u[j] = t[j])}
<1>1. SUFFICES ASSUME T # {} PROVE FALSE
  OBVIOUS
<1>2. DOMAIN t = 1 .. Len(t) /\ Len(t) \in Nat
  BY DEF InOrder
<1>3. T \subseteq Nat
  BY <1>2
<1>4. PICK j \in T : \A m \in T : j <= m
  BY <1>1, <1>3, LeastNumber
<1>5. \A m \in 1 .. j - 1 : m \in DOMAIN u /\ u[m] = t[m]
  BY <1>2, <1>4
<1> QED
  BY <1>4, <1>5, AgreeOnNext

(* There is only one order.                                                *)
LEMMA OrderUnique ==
  ASSUME NEW s, NEW lo \in Nat, NEW hi \in Nat, NEW t, NEW u,
         InOrder(s, lo, hi, t), InOrder(s, lo, hi, u)
  PROVE  t = u
<1>1. /\ t \in Seq(lo .. hi) /\ DOMAIN t = 1 .. Len(t) /\ Len(t) \in Nat
      /\ u \in Seq(lo .. hi) /\ DOMAIN u = 1 .. Len(u) /\ Len(u) \in Nat
  BY DEF InOrder
<1>2. /\ \A j \in DOMAIN t : j \in DOMAIN u /\ u[j] = t[j]
      /\ \A j \in DOMAIN u : j \in DOMAIN t /\ t[j] = u[j]
  BY AgreeOnAll
<1>3. Len(t) = Len(u)
  <2>1. Len(t) <= Len(u)
    <3>1. Len(t) # 0 => Len(t) \in 1 .. Len(t)
      BY <1>1
    <3>2. Len(t) # 0 => Len(t) \in 1 .. Len(u)
      BY <1>1, <1>2, <3>1
    <3> QED
      BY <1>1, <3>2
  <2>2. Len(u) <= Len(t)
    <3>1. Len(u) # 0 => Len(u) \in 1 .. Len(u)
      BY <1>1
    <3>2. Len(u) # 0 => Len(u) \in 1 .. Len(t)
      BY <1>1, <1>2, <3>1
    <3> QED
      BY <1>1, <3>2
  <2>3. \A m, n \in Nat : m <= n /\ n <= m => m = n
    OBVIOUS
  <2>4. Len(t) \in Nat /\ Len(u) \in Nat
    BY <1>1
  <2> QED
    BY <2>1, <2>2, <2>3, <2>4, Zenon
<1> QED
  BY <1>1, <1>2, <1>3, SeqEqual

-----------------------------------------------------------------------------
(* Postorder is well defined: the parts of a stretch are shorter.          *)
Stretches(s) == (1 .. Len(s) + 1) \X (0 .. Len(s))

Size(s, r) == r[2] + Len(s) + 1 - r[1]

LEMMA SizeFacts ==
  ASSUME NEW s \in Seq(Characters), NEW r \in Stretches(s)
  PROVE  /\ Len(s) \in Nat
         /\ r[1] \in 1 .. Len(s) + 1 /\ r[2] \in 0 .. Len(s) /\ r = <<r[1], r[2]>>
         /\ Size(s, r) \in Nat /\ Size(s, r) < 2 * Len(s) + 1
BY DEF Stretches, Size

LEMMA PartsMatter ==
  ASSUME NEW s \in Seq(Characters), NEW f, NEW g, NEW r \in Stretches(s),
         \A q \in Stretches(s) : Size(s, q) < Size(s, r) => f[q] = g[q]
  PROVE  FromParts(s, f, r[1], r[2]) = FromParts(s, g, r[1], r[2])
<1> DEFINE lo == r[1]
           hi == r[2]
           last == Outermost(s, lo, hi)
           k == CHOOSE k \in last : TRUE
<1>1. lo \in 1 .. Len(s) + 1 /\ hi \in 0 .. Len(s) /\ Len(s) \in Nat
  BY SizeFacts
<1>2. last \subseteq lo .. hi
  BY DEF Outermost
<1>3. last # {} => k \in last
  OBVIOUS
<1>4. last # {} => k \in lo .. hi
  BY <1>2, <1>3
<1>5. \A a, b : a \in 1 .. Len(s) + 1 /\ b \in 0 .. Len(s) /\ b - a < hi - lo => f[<<a, b>>] = g[<<a, b>>]
  <2> SUFFICES ASSUME NEW a \in 1 .. Len(s) + 1, NEW b \in 0 .. Len(s), b - a < hi - lo
               PROVE  f[<<a, b>>] = g[<<a, b>>]
    OBVIOUS
  <2>1. <<a, b>> \in Stretches(s)
    BY DEF Stretches
  <2>2. Size(s, <<a, b>>) < Size(s, r)
    BY <1>1 DEF Size
  <2> QED
    BY <2>1, <2>2
<1>6. lo < hi => f[<<lo + 1, hi - 1>>] = g[<<lo + 1, hi - 1>>]
  BY <1>1, <1>5
<1>7. lo < hi /\ last # {} => f[<<lo, k - 1>>] = g[<<lo, k - 1>>] /\ f[<<k + 1, hi>>] = g[<<k + 1, hi>>]
  <2> HIDE DEF last, k, lo, hi
  <2> QED
    BY <1>1, <1>4, <1>5
<1>8. lo > hi \/ lo = hi \/ lo < hi
  BY <1>1
<1>9. \A h : FromParts(s, h, lo, hi) =
               IF lo > hi THEN <<>>
               ELSE IF lo = hi THEN <<lo>>
               ELSE IF last = {} THEN h[<<lo + 1, hi - 1>>]
               ELSE h[<<lo, k - 1>>] \o h[<<k + 1, hi>>] \o <<k>>
  BY DEF FromParts
<1> HIDE DEF last, k, lo, hi
<1>10. FromParts(s, f, lo, hi) = FromParts(s, g, lo, hi)
  BY <1>6, <1>7, <1>8, <1>9
<1> QED
  BY <1>10 DEF lo, hi

(* What is right for the stretches up to a size can be extended.           *)
LEMMA OneMoreSize ==
  ASSUME NEW s \in Seq(Characters), NEW m \in Nat, NEW g, NEW h,
         \A r \in Stretches(s) : Size(s, r) < m => g[r] = FromParts(s, g, r[1], r[2]),
         h = [r \in Stretches(s) |-> FromParts(s, g, r[1], r[2])]
  PROVE  \A r \in Stretches(s) : Size(s, r) < m + 1 => h[r] = FromParts(s, h, r[1], r[2])
<1> SUFFICES ASSUME NEW r \in Stretches(s), Size(s, r) < m + 1
             PROVE  h[r] = FromParts(s, h, r[1], r[2])
  OBVIOUS
<1>1. ASSUME NEW q \in Stretches(s), Size(s, q) < Size(s, r) PROVE h[q] = g[q]
  <2>1. Size(s, q) \in Nat /\ Size(s, r) \in Nat
    BY SizeFacts
  <2>2. Size(s, q) < m
    BY <1>1, <2>1
  <2> QED
    BY <2>2
<1>2. FromParts(s, h, r[1], r[2]) = FromParts(s, g, r[1], r[2])
  BY <1>1, PartsMatter
<1> QED
  BY <1>2

Right(s, g, m) == \A r \in Stretches(s) : Size(s, r) < m => g[r] = FromParts(s, g, r[1], r[2])

LEMMA OrderExists ==
  ASSUME NEW s \in Seq(Characters)
  PROVE  \E f : f = [r \in Stretches(s) |-> FromParts(s, f, r[1], r[2])]
<1> DEFINE T == {m \in Nat : \E g : Right(s, g, m)}
<1>1. 0 \in T
  <2>1. Right(s, s, 0)
    BY SizeFacts DEF Right
  <2> QED
    BY <2>1
<1>2. ASSUME NEW m \in T PROVE m + 1 \in T
  <2>1. PICK g : Right(s, g, m)
    OBVIOUS
  <2> DEFINE h == [r \in Stretches(s) |-> FromParts(s, g, r[1], r[2])]
  <2>2. Right(s, h, m + 1)
    BY <2>1, OneMoreSize DEF Right
  <2> QED
    BY <2>2
<1>3. T = Nat
  <2> HIDE DEF T
  <2>1. T \subseteq Nat
    BY DEF T
  <2> QED
    BY <1>1, <1>2, <2>1, Induction
<1>4. Len(s) \in Nat /\ 2 * Len(s) + 1 \in Nat
  OBVIOUS
<1>5. PICK g : Right(s, g, 2 * Len(s) + 1)
  BY <1>3, <1>4
<1> DEFINE h == [r \in Stretches(s) |-> FromParts(s, g, r[1], r[2])]
<1>6. Right(s, h, 2 * Len(s) + 1 + 1)
  BY <1>4, <1>5, OneMoreSize DEF Right
<1>7. \A r \in Stretches(s) : Size(s, r) < 2 * Len(s) + 1 + 1
  <2>1. \A r \in Stretches(s) : Size(s, r) \in Nat /\ Size(s, r) < 2 * Len(s) + 1
    BY SizeFacts
  <2> QED
    BY <1>4, <2>1
<1>8. \A r \in Stretches(s) : FromParts(s, g, r[1], r[2]) = FromParts(s, h, r[1], r[2])
  BY <1>6, <1>7 DEF Right
<1>9. h = [r \in Stretches(s) |-> FromParts(s, h, r[1], r[2])]
  BY <1>8
<1> QED
  BY <1>9

Order(s) == CHOOSE f : f = [r \in Stretches(s) |-> FromParts(s, f, r[1], r[2])]

LEMMA OrderUnfolds ==
  ASSUME NEW s \in Seq(Characters), NEW lo \in 1 .. Len(s) + 1, NEW hi \in 0 .. Len(s)
  PROVE  Order(s)[<<lo, hi>>] = FromParts(s, Order(s), lo, hi)
<1>1. Order(s) = [r \in Stretches(s) |-> FromParts(s, Order(s), r[1], r[2])]
  BY OrderExists, Zenon DEF Order
<1>2. <<lo, hi>> \in Stretches(s)
  BY DEF Stretches
<1> DEFINE f == Order(s)
<1> HIDE DEF f
<1>3. f = [r \in Stretches(s) |-> FromParts(s, f, r[1], r[2])]
  BY <1>1 DEF f
<1>4. f[<<lo, hi>>] = FromParts(s, f, <<lo, hi>>[1], <<lo, hi>>[2])
  BY <1>2, <1>3
<1> QED
  BY <1>4 DEF f

LEMMA PostorderIsOrder ==
  ASSUME NEW s
  PROVE  Postorder(s) = Order(s)[<<1, Len(s)>>]
BY DEF Postorder, Order, Stretches

-----------------------------------------------------------------------------
(* A stretch that is an expression by itself.                              *)
Alternates(s) == \A k \in 1 .. Len(s) - 1 : EndsTerm(s[k]) = ~StartsTerm(s[k + 1])

IsSpan(s, lo, hi) ==
  /\ lo \in 1 .. Len(s) /\ hi \in lo .. Len(s)
  /\ StartsTerm(s[lo]) /\ EndsTerm(s[hi])
  /\ \A k \in lo .. hi : Depth(s, k) >= Depth(s, lo - 1)
  /\ Depth(s, hi) = Depth(s, lo - 1)

(* What is known of the characters of a stretch.                           *)
LEMMA SpanFacts ==
  ASSUME NEW s \in Seq(Characters), NEW lo, NEW hi, IsSpan(s, lo, hi)
  PROVE  /\ Len(s) \in Nat /\ lo \in Nat /\ hi \in Nat /\ 1 <= lo /\ lo <= hi /\ hi <= Len(s)
         /\ Depth(s, lo - 1) \in Int
         /\ \A k \in lo .. hi :
              /\ k \in 1 .. Len(s) /\ s[k] \in Characters
              /\ Depth(s, k) \in Int /\ Depth(s, k) >= Depth(s, lo - 1)
              /\ Depth(s, k - 1) \in Int /\ Depth(s, k - 1) >= Depth(s, lo - 1)
              /\ s[k] = "(" => Depth(s, k) = Depth(s, k - 1) + 1
              /\ s[k] = ")" => Depth(s, k) = Depth(s, k - 1) - 1
              /\ s[k] \in Operands \cup Operators => Depth(s, k) = Depth(s, k - 1)
<1>1. Len(s) \in Nat /\ lo \in Nat /\ hi \in Nat /\ 1 <= lo /\ lo <= hi /\ hi <= Len(s)
  BY DEF IsSpan
<1>2. \A k \in lo .. hi : k \in 1 .. Len(s) /\ s[k] \in Characters
  BY <1>1
<1>3. \A k \in lo .. hi : Depth(s, k) \in Int /\ Depth(s, k - 1) \in Int
  BY <1>2, DepthBack
<1>4. Depth(s, lo - 1) \in Int
  BY <1>1, <1>3
<1>5. \A k \in lo .. hi : Depth(s, k) >= Depth(s, lo - 1)
  BY DEF IsSpan
<1>6. \A k \in lo .. hi : Depth(s, k - 1) >= Depth(s, lo - 1)
  <2> SUFFICES ASSUME NEW k \in lo .. hi PROVE Depth(s, k - 1) >= Depth(s, lo - 1)
    OBVIOUS
  <2>1. k - 1 \in lo .. hi \/ k = lo
    BY <1>1
  <2> QED
    BY <1>4, <1>5, <2>1
<1>7. \A k \in lo .. hi :
        /\ s[k] = "(" => Depth(s, k) = Depth(s, k - 1) + 1
        /\ s[k] = ")" => Depth(s, k) = Depth(s, k - 1) - 1
        /\ s[k] \in Operands \cup Operators => Depth(s, k) = Depth(s, k - 1)
  BY <1>2, DepthBack
<1> QED
  BY <1>1, <1>2, <1>3, <1>4, <1>5, <1>6, <1>7

(* Every nonempty set of places outside of parentheses has an operator     *)
(* that is applied last.                                                   *)
LEMMA OutermostExists ==
  ASSUME NEW s, NEW lo \in Nat, NEW hi \in Nat,
         NEW j \in lo .. hi, s[j] \in Operators, Depth(s, j) = Depth(s, lo - 1)
  PROVE  Outermost(s, lo, hi) # {}
<1> DEFINE outside == {k \in lo .. hi : s[k] \in Operators /\ Depth(s, k) = Depth(s, lo - 1)}
           weakest == {k \in outside : \A m \in outside : Binding[s[k]] <= Binding[s[m]]}
<1>1. \A k \in outside : Binding[s[k]] \in Nat
  BY BindingFacts
<1>2. \E k \in outside : \A m \in outside : Binding[s[k]] <= Binding[s[m]]
  <2> DEFINE B == {Binding[s[k]] : k \in outside}
  <2>1. B \subseteq Nat /\ B # {}
    BY <1>1
  <2>2. PICK b \in B : \A c \in B : b <= c
    <3> HIDE DEF B
    <3> QED
      BY <2>1, LeastNumber
  <2>3. PICK k \in outside : Binding[s[k]] = b
    BY <2>2
  <2> QED
    BY <2>2, <2>3
<1>3. weakest # {} /\ weakest \subseteq lo .. hi
  BY <1>2
<1> HIDE DEF weakest
<1>4. \E k \in weakest : \A m \in weakest : m <= k
  <2> DEFINE D == {hi - k : k \in weakest}
  <2>0. \A k \in lo .. hi : hi - k \in Nat
    OBVIOUS
  <2>1. D \subseteq Nat /\ D # {}
    BY <1>3, <2>0
  <2>2. PICK d \in D : \A e \in D : d <= e
    <3> HIDE DEF D
    <3> QED
      BY <2>1, LeastNumber
  <2>3. PICK k \in weakest : hi - k = d
    BY <2>2
  <2>4. ASSUME NEW m \in weakest PROVE m <= k
    <3>1. hi - k <= hi - m
      BY <2>2, <2>3
    <3> QED
      BY <1>3, <3>1
  <2> QED
    BY <2>3, <2>4
<1> QED
  BY <1>4 DEF Outermost, weakest

(* A span of one character is an operand.                                  *)
LEMMA ShortSpan ==
  ASSUME NEW s \in Seq(Characters), NEW lo, IsSpan(s, lo, lo)
  PROVE  s[lo] \in Operands
<1>1. s[lo] \in Characters /\ StartsTerm(s[lo]) /\ EndsTerm(s[lo])
  BY SpanFacts DEF IsSpan
<1> QED
  BY <1>1, CharacterFacts, TermFacts

(* A longer span without an operator outside of parentheses is a span in   *)
(* parentheses.                                                            *)
LEMMA ParenthesisedSpan ==
  ASSUME NEW s \in Seq(Characters), Alternates(s), NEW lo, NEW hi, IsSpan(s, lo, hi),
         lo < hi, Outermost(s, lo, hi) = {}
  PROVE  s[lo] = "(" /\ s[hi] = ")" /\ IsSpan(s, lo + 1, hi - 1)
<1> DEFINE base == Depth(s, lo - 1)
<1>1. /\ Len(s) \in Nat /\ lo \in Nat /\ hi \in Nat /\ 1 <= lo /\ lo <= hi /\ hi <= Len(s)
      /\ base \in Int
      /\ \A k \in lo .. hi :
           /\ k \in 1 .. Len(s) /\ s[k] \in Characters
           /\ Depth(s, k) \in Int /\ Depth(s, k) >= base
           /\ Depth(s, k - 1) \in Int /\ Depth(s, k - 1) >= base
           /\ s[k] = "(" => Depth(s, k) = Depth(s, k - 1) + 1
           /\ s[k] = ")" => Depth(s, k) = Depth(s, k - 1) - 1
           /\ s[k] \in Operands \cup Operators => Depth(s, k) = Depth(s, k - 1)
  BY SpanFacts
<1>2. \A k \in lo .. hi : s[k] \in Operators => Depth(s, k) # base
  BY <1>1, OutermostExists
<1>3. StartsTerm(s[lo]) /\ EndsTerm(s[hi]) /\ Depth(s, hi) = base
  BY DEF IsSpan
<1> HIDE DEF base
<1>4. \A k \in lo .. hi - 1 : /\ k \in lo .. hi /\ k + 1 \in lo .. hi /\ (k + 1) - 1 = k
                              /\ EndsTerm(s[k]) = ~StartsTerm(s[k + 1])
  BY <1>1 DEF Alternates
(* The term that ends before the last place ends inside parentheses.       *)
<1>5. ASSUME NEW k \in lo .. hi - 1 PROVE Depth(s, k) > base
  <2>1. k \in lo .. hi /\ k + 1 \in lo .. hi /\ (k + 1) - 1 = k
    BY <1>4
  <2>2. CASE EndsTerm(s[k])
    <3>1. s[k + 1] \in Operators \/ s[k + 1] = ")"
      BY <1>1, <1>4, <2>1, <2>2, CharacterFacts, TermFacts
    <3>2. /\ Depth(s, k) \in Int /\ Depth(s, k) >= base
          /\ Depth(s, k + 1) \in Int /\ Depth(s, k + 1) >= base
      BY <1>1, <2>1
    <3>3. s[k + 1] = ")" => Depth(s, k + 1) = Depth(s, k) - 1
      BY <1>1, <2>1
    <3>4. s[k + 1] \in Operators => Depth(s, k + 1) = Depth(s, k) /\ Depth(s, k + 1) # base
      BY <1>1, <1>2, <2>1
    <3>5. base \in Int
      BY <1>1
    <3>6. CASE s[k + 1] = ")"
      BY <3>2, <3>3, <3>5, <3>6
    <3>7. CASE s[k + 1] \in Operators
      BY <3>2, <3>4, <3>5, <3>7
    <3> QED
      BY <3>1, <3>6, <3>7
  <2>3. CASE s[k] \in Operators
    BY <1>1, <1>2, <2>1, <2>3
  <2>4. CASE s[k] = "("
    BY <1>1, <2>1, <2>4
  <2> QED
    BY <1>1, <2>1, <2>2, <2>3, <2>4, CharacterFacts, TermFacts
<1>6. lo \in lo .. hi - 1 /\ hi - 1 \in lo .. hi - 1 /\ lo \in lo .. hi /\ hi \in lo .. hi
  BY <1>1
<1>7. s[lo] = "("
  <2>1. Depth(s, lo) > Depth(s, lo - 1)
    BY <1>5, <1>6 DEF base
  <2>2. /\ Depth(s, lo) \in Int /\ Depth(s, lo - 1) \in Int /\ s[lo] \in Characters
        /\ s[lo] = ")" => Depth(s, lo) = Depth(s, lo - 1) - 1
        /\ s[lo] \in Operands \cup Operators => Depth(s, lo) = Depth(s, lo - 1)
    BY <1>1, <1>6
  <2>3. s[lo] # ")" /\ s[lo] \notin Operands \cup Operators
    BY <2>1, <2>2
  <2> QED
    BY <2>2, <2>3, CharacterFacts
<1>8. s[hi] = ")"
  <2>1. Depth(s, hi - 1) > Depth(s, hi)
    BY <1>3, <1>5, <1>6
  <2>2. /\ Depth(s, hi) \in Int /\ Depth(s, hi - 1) \in Int /\ s[hi] \in Characters
        /\ s[hi] = "(" => Depth(s, hi) = Depth(s, hi - 1) + 1
        /\ s[hi] \in Operands \cup Operators => Depth(s, hi) = Depth(s, hi - 1)
    BY <1>1, <1>6
  <2>3. s[hi] # "(" /\ s[hi] \notin Operands \cup Operators
    BY <2>1, <2>2
  <2> QED
    BY <2>2, <2>3, CharacterFacts
<1>9. lo + 1 <= hi - 1
  <2>1. SUFFICES ASSUME lo + 1 = hi PROVE FALSE
    BY <1>1
  <2> QED
    BY <1>4, <1>6, <1>7, <1>8, <2>1, TermFacts
<1>10. StartsTerm(s[lo + 1])
  BY <1>4, <1>6, <1>7, TermFacts
<1>11. EndsTerm(s[hi - 1])
  <2>1. (hi - 1) + 1 = hi
    BY <1>1
  <2> QED
    BY <1>4, <1>6, <1>8, <2>1, TermFacts
<1>12. (lo + 1) - 1 = lo /\ Depth(s, lo) = base + 1 /\ Depth(s, hi - 1) = base + 1
  <2>1. Depth(s, hi) = Depth(s, hi - 1) - 1
    BY <1>1, <1>6, <1>8
  <2>2. Depth(s, lo) = base + 1
    BY <1>1, <1>6, <1>7 DEF base
  <2>3. Depth(s, hi - 1) \in Int /\ base \in Int /\ lo \in Int
    BY <1>1, <1>6
  <2>4. Depth(s, hi - 1) = base + 1
    BY <1>3, <2>1, <2>3
  <2> QED
    BY <2>2, <2>3, <2>4
<1>13. \A k \in lo + 1 .. hi - 1 : Depth(s, k) >= base + 1
  <2> SUFFICES ASSUME NEW k \in lo + 1 .. hi - 1 PROVE Depth(s, k) >= base + 1
    OBVIOUS
  <2>1. k \in lo .. hi - 1 /\ k \in lo .. hi
    BY <1>1
  <2>2. Depth(s, k) > base /\ Depth(s, k) \in Int
    BY <1>1, <1>5, <2>1
  <2> QED
    BY <1>1, <2>2
<1>14. lo + 1 \in 1 .. Len(s) /\ hi - 1 \in lo + 1 .. Len(s)
  BY <1>1, <1>9
<1> QED
  BY <1>7, <1>8, <1>10, <1>11, <1>12, <1>13, <1>14 DEF IsSpan

(* The operator that is applied last splits a span in two.                 *)
LEMMA SplitSpan ==
  ASSUME NEW s \in Seq(Characters), Alternates(s), NEW lo, NEW hi, IsSpan(s, lo, hi),
         NEW k \in Outermost(s, lo, hi)
  PROVE  /\ lo < k /\ k < hi /\ k \in Nat /\ s[k] \in Operators
         /\ IsSpan(s, lo, k - 1) /\ IsSpan(s, k + 1, hi)
         /\ Depth(s, k) = Depth(s, lo - 1)
         /\ \A m \in lo .. hi : s[m] \in Operators /\ Depth(s, m) = Depth(s, k) =>
              /\ Binding[s[k]] <= Binding[s[m]]
              /\ Binding[s[m]] <= Binding[s[k]] => m <= k
<1> DEFINE base == Depth(s, lo - 1)
<1>1. /\ Len(s) \in Nat /\ lo \in Nat /\ hi \in Nat /\ 1 <= lo /\ lo <= hi /\ hi <= Len(s)
      /\ base \in Int
      /\ \A m \in lo .. hi :
           /\ m \in 1 .. Len(s) /\ s[m] \in Characters
           /\ Depth(s, m) \in Int /\ Depth(s, m) >= base
           /\ Depth(s, m - 1) \in Int /\ Depth(s, m - 1) >= base
           /\ s[m] = "(" => Depth(s, m) = Depth(s, m - 1) + 1
           /\ s[m] = ")" => Depth(s, m) = Depth(s, m - 1) - 1
           /\ s[m] \in Operands \cup Operators => Depth(s, m) = Depth(s, m - 1)
  BY SpanFacts
<1>2. StartsTerm(s[lo]) /\ EndsTerm(s[hi]) /\ Depth(s, hi) = base
  BY DEF IsSpan
<1>3. k \in lo .. hi /\ s[k] \in Operators /\ Depth(s, k) = base
  BY DEF Outermost
<1>4. \A m \in lo .. hi : s[m] \in Operators /\ Depth(s, m) = base =>
        /\ Binding[s[k]] <= Binding[s[m]]
        /\ (\A l \in lo .. hi : s[l] \in Operators /\ Depth(s, l) = base => Binding[s[m]] <= Binding[s[l]])
             => m <= k
  BY DEF Outermost
<1> HIDE DEF base
<1>5. ASSUME NEW m \in lo .. hi, s[m] \in Operators, Depth(s, m) = base, Binding[s[m]] <= Binding[s[k]]
      PROVE  m <= k
  <2>1. \A l \in lo .. hi : s[l] \in Operators => Binding[s[l]] \in Int
    BY BindingFacts
  <2>2. \A l \in lo .. hi : s[l] \in Operators /\ Depth(s, l) = base => Binding[s[m]] <= Binding[s[l]]
    BY <1>3, <1>4, <1>5, <2>1
  <2> QED
    BY <1>4, <1>5, <2>2
<1>6. lo # k /\ hi # k
  BY <1>2, <1>3, TermFacts
<1>7. lo < k /\ k < hi /\ k \in Nat
  BY <1>1, <1>3, <1>6
<1>8. StartsTerm(s[k + 1]) /\ EndsTerm(s[k - 1])
  <2>1. k \in 1 .. Len(s) - 1 /\ k - 1 \in 1 .. Len(s) - 1 /\ (k - 1) + 1 = k
    BY <1>1, <1>7
  <2> QED
    BY <1>3, <2>1, TermFacts DEF Alternates
<1>9. Depth(s, k - 1) = base /\ (k + 1) - 1 = k
  BY <1>1, <1>3, <1>7
<1>10. IsSpan(s, lo, k - 1)
  <2>1. \A m \in lo .. k - 1 : Depth(s, m) >= base
    BY <1>1, <1>7
  <2>2. lo \in 1 .. Len(s) /\ k - 1 \in lo .. Len(s)
    BY <1>1, <1>7
  <2> QED
    BY <1>2, <1>8, <1>9, <2>1, <2>2 DEF IsSpan, base
<1>11. IsSpan(s, k + 1, hi)
  <2>1. \A m \in k + 1 .. hi : Depth(s, m) >= base
    BY <1>1, <1>7
  <2>2. k + 1 \in 1 .. Len(s) /\ hi \in k + 1 .. Len(s)
    BY <1>1, <1>7
  <2> QED
    BY <1>2, <1>3, <1>8, <1>9, <2>1, <2>2 DEF IsSpan
<1> QED
  BY <1>3, <1>4, <1>5, <1>7, <1>10, <1>11 DEF base

(* The operator that is applied last comes after everything else in the    *)
(* stretch, and what is left of it before what is right of it.             *)
LEMMA LastOfAll ==
  ASSUME NEW s \in Seq(Characters), Alternates(s), NEW lo, NEW hi, IsSpan(s, lo, hi),
         NEW k \in Outermost(s, lo, hi)
  PROVE  /\ \A x \in lo .. k - 1, y \in k .. hi :
              s[x] \in Operands \cup Operators => Precedes(s, x, y)
         /\ \A y \in k + 1 .. hi : Precedes(s, y, k)
<1>1. /\ Len(s) \in Nat /\ lo \in Nat /\ hi \in Nat
      /\ Depth(s, lo - 1) \in Int
      /\ \A m \in lo .. hi : Depth(s, m) \in Int /\ Depth(s, m) >= Depth(s, lo - 1)
  BY SpanFacts
<1>2. /\ lo < k /\ k < hi /\ k \in Nat /\ s[k] \in Operators
      /\ Depth(s, k) = Depth(s, lo - 1)
      /\ \A m \in lo .. hi : s[m] \in Operators /\ Depth(s, m) = Depth(s, k) =>
           /\ Binding[s[k]] <= Binding[s[m]]
           /\ Binding[s[m]] <= Binding[s[k]] => m <= k
  BY SplitSpan
<1>3. Depth(s, k) \in Int /\ \A m \in lo .. hi : Depth(s, m) \in Int /\ Depth(s, m) >= Depth(s, k)
  BY <1>1, <1>2
<1>4. ASSUME NEW x \in lo .. k - 1, NEW y \in k .. hi, s[x] \in Operands \cup Operators
      PROVE  Precedes(s, x, y)
  <2>1. x < y /\ x \in lo .. hi /\ k \in x + 1 .. y
    BY <1>1, <1>2
  <2>2. ASSUME s[x] \in Operators PROVE Ends(s, x, k)
    <3>1. Depth(s, x) \in Int /\ Depth(s, x) >= Depth(s, k) /\ Depth(s, k) \in Int
      BY <1>3, <2>1
    <3>2. CASE Depth(s, x) = Depth(s, k)
      BY <1>2, <2>1, <2>2, <3>2 DEF Ends
    <3>3. CASE Depth(s, k) < Depth(s, x)
      BY <3>3 DEF Ends
    <3> QED
      BY <3>1, <3>2, <3>3
  <2>3. Closed(s, x, y)
    BY <1>4, <2>1, <2>2 DEF Closed
  <2> QED
    BY <2>1, <2>3 DEF Precedes
<1>5. ASSUME NEW y \in k + 1 .. hi PROVE Precedes(s, y, k)
  <2>1. ASSUME NEW n \in k + 1 .. y PROVE ~Ends(s, k, n)
    <3>1. n \in lo .. hi /\ ~(n <= k)
      BY <1>1, <1>2
    <3>2. ~(Depth(s, n) < Depth(s, k))
      BY <1>3, <3>1
    <3> QED
      BY <1>2, <3>1, <3>2 DEF Ends
  <2>2. ~Closed(s, k, y)
    BY <1>2, <2>1, CharacterFacts DEF Closed
  <2>3. k < y
    BY <1>1, <1>2
  <2> QED
    BY <2>2, <2>3 DEF Precedes
<1> QED
  BY <1>4, <1>5

LEMMA WiderSeq ==
  ASSUME NEW S, NEW T, S \subseteq T, NEW t \in Seq(S)
  PROVE  t \in Seq(T) /\ Len(t) \in Nat /\ DOMAIN t = 1 .. Len(t) /\ \A a \in DOMAIN t : t[a] \in S
OBVIOUS

(* The elements of two sequences and one more element.                     *)
LEMMA TwoAndOne ==
  ASSUME NEW S, NEW t \in Seq(S), NEW u \in Seq(S), NEW x \in S
  PROVE  /\ Len(t) \in Nat /\ Len(u) \in Nat
         /\ DOMAIN t = 1 .. Len(t) /\ DOMAIN u = 1 .. Len(u)
         /\ t \o u \o <<x>> \in Seq(S)
         /\ DOMAIN (t \o u \o <<x>>) = 1 .. Len(t) + Len(u) + 1
         /\ \A a \in 1 .. Len(t) : (t \o u \o <<x>>)[a] = t[a]
         /\ \A a \in 1 .. Len(u) : (t \o u \o <<x>>)[Len(t) + a] = u[a]
         /\ (t \o u \o <<x>>)[Len(t) + Len(u) + 1] = x
<1>1. Len(t) \in Nat /\ Len(u) \in Nat /\ DOMAIN t = 1 .. Len(t) /\ DOMAIN u = 1 .. Len(u)
  OBVIOUS
<1> DEFINE w == t \o u
<1>2. /\ w \in Seq(S) /\ Len(w) = Len(t) + Len(u)
      /\ \A a \in 1 .. Len(t) : w[a] = t[a]
      /\ \A a \in 1 .. Len(u) : w[Len(t) + a] = u[a]
  <2>1. \A a \in 1 .. Len(t) + Len(u) : w[a] = IF a <= Len(t) THEN t[a] ELSE u[a - Len(t)]
    BY ConcatProperties
  <2>2. \A a \in 1 .. Len(u) : /\ Len(t) + a \in 1 .. Len(t) + Len(u)
                               /\ ~(Len(t) + a <= Len(t))
                               /\ (Len(t) + a) - Len(t) = a
    BY <1>1
  <2>3. \A a \in 1 .. Len(t) : a \in 1 .. Len(t) + Len(u) /\ a <= Len(t)
    BY <1>1
  <2>4. \A a \in 1 .. Len(u) : w[Len(t) + a] = u[a]
    BY <2>1, <2>2
  <2>5. \A a \in 1 .. Len(t) : w[a] = t[a]
    BY <2>1, <2>3
  <2>6. w \in Seq(S) /\ Len(w) = Len(t) + Len(u)
    BY ConcatProperties
  <2> QED
    BY <2>4, <2>5, <2>6
<1> HIDE DEF w
<1>3. /\ w \o <<x>> = Append(w, x) /\ w \o <<x>> \in Seq(S)
      /\ DOMAIN (w \o <<x>>) = 1 .. Len(w) + 1
      /\ \A a \in 1 .. Len(w) : (w \o <<x>>)[a] = w[a]
      /\ (w \o <<x>>)[Len(w) + 1] = x
  <2>1. w \o <<x>> = Append(w, x)
    BY <1>2, AppendIsConcat
  <2>2. /\ Append(w, x) \in Seq(S) /\ DOMAIN Append(w, x) = 1 .. Len(w) + 1
        /\ \A a \in 1 .. Len(w) : Append(w, x)[a] = w[a]
        /\ Append(w, x)[Len(w) + 1] = x
    BY <1>2
  <2> QED
    BY <2>1, <2>2
<1>4. /\ \A a \in 1 .. Len(t) : a \in 1 .. Len(w)
      /\ \A a \in 1 .. Len(u) : Len(t) + a \in 1 .. Len(w)
  BY <1>1, <1>2
<1>5. /\ \A a \in 1 .. Len(t) : (w \o <<x>>)[a] = t[a]
      /\ \A a \in 1 .. Len(u) : (w \o <<x>>)[Len(t) + a] = u[a]
  BY <1>2, <1>3, <1>4
<1> QED
  BY <1>1, <1>2, <1>3, <1>5 DEF w

(* Parts in order make a whole in order.                                   *)
LEMMA WholeInOrder ==
  ASSUME NEW s \in Seq(Characters), Alternates(s), NEW lo, NEW hi, IsSpan(s, lo, hi),
         NEW k \in Outermost(s, lo, hi),
         NEW t, InOrder(s, lo, k - 1, t), NEW u, InOrder(s, k + 1, hi, u)
  PROVE  InOrder(s, lo, hi, t \o u \o <<k>>)
<1> DEFINE v == t \o u \o <<k>>
           p == Len(t)
           q == Len(u)
<1>1. /\ Len(s) \in Nat /\ lo \in Nat /\ hi \in Nat /\ k \in Nat /\ lo < k /\ k < hi
      /\ s[k] \in Operators
  BY SpanFacts, SplitSpan
<1>2. t \in Seq(lo .. k - 1) /\ u \in Seq(k + 1 .. hi)
  BY DEF InOrder
<1>3. t \in Seq(lo .. hi) /\ u \in Seq(lo .. hi) /\ k \in lo .. hi
  <2>1. \A x \in lo .. k - 1 : x \in lo .. hi
    BY <1>1
  <2>2. \A x \in k + 1 .. hi : x \in lo .. hi
    BY <1>1
  <2>3. t \in Seq(lo .. hi)
    <3>1. lo .. k - 1 \subseteq lo .. hi
      BY <2>1
    <3> QED
      BY <1>2, <3>1, WiderSeq
  <2>4. u \in Seq(lo .. hi)
    <3>1. k + 1 .. hi \subseteq lo .. hi
      BY <2>2
    <3> QED
      BY <1>2, <3>1, WiderSeq
  <2> QED
    BY <1>1, <2>3, <2>4
<1>4. /\ p \in Nat /\ q \in Nat /\ DOMAIN t = 1 .. p /\ DOMAIN u = 1 .. q
      /\ v \in Seq(lo .. hi) /\ DOMAIN v = 1 .. p + q + 1
      /\ \A a \in 1 .. p : v[a] = t[a]
      /\ \A a \in 1 .. q : v[p + a] = u[a]
      /\ v[p + q + 1] = k
  BY <1>3, TwoAndOne
<1>5. /\ \A a \in 1 .. p : t[a] \in lo .. k - 1 /\ s[t[a]] \in Operands \cup Operators
      /\ \A a \in 1 .. q : u[a] \in k + 1 .. hi /\ s[u[a]] \in Operands \cup Operators
  <2>1. /\ \A a \in DOMAIN t : t[a] \in lo .. k - 1
        /\ \A a \in DOMAIN u : u[a] \in k + 1 .. hi
    BY <1>2, WiderSeq
  <2> QED
    BY <1>4, <2>1 DEF InOrder
<1> HIDE DEF v, p, q
<1>6. \A a \in 1 .. p + q + 1 : a \in 1 .. p \/ (a - p \in 1 .. q /\ p + (a - p) = a) \/ a = p + q + 1
  BY <1>4
<1>7. \A a \in DOMAIN v : s[v[a]] \in Operands \cup Operators
  <2> SUFFICES ASSUME NEW a \in 1 .. p + q + 1 PROVE s[v[a]] \in Operands \cup Operators
    BY <1>4
  <2>1. CASE a \in 1 .. p
    BY <1>4, <1>5, <2>1
  <2>2. CASE a - p \in 1 .. q /\ p + (a - p) = a
    <3>1. v[p + (a - p)] = u[a - p]
      BY <1>4, <2>2
    <3> QED
      BY <1>5, <2>2, <3>1
  <2>3. CASE a = p + q + 1
    BY <1>1, <1>4, <2>3
  <2> QED
    BY <1>6, <2>1, <2>2, <2>3
<1>8. ASSUME NEW j \in lo .. hi, s[j] \in Operands \cup Operators PROVE Holds(v, j)
  <2>1. CASE j \in lo .. k - 1
    <3>1. PICK a \in 1 .. p : t[a] = j
      BY <1>4, <1>8, <2>1 DEF InOrder, Holds
    <3>2. a \in 1 .. p + q + 1
      BY <1>4
    <3> QED
      BY <1>4, <3>1, <3>2 DEF Holds
  <2>2. CASE j \in k + 1 .. hi
    <3>1. PICK a \in 1 .. q : u[a] = j
      BY <1>4, <1>8, <2>2 DEF InOrder, Holds
    <3>2. p + a \in 1 .. p + q + 1
      BY <1>4
    <3> QED
      BY <1>4, <3>1, <3>2 DEF Holds
  <2>3. CASE j = k
    <3>1. p + q + 1 \in 1 .. p + q + 1
      BY <1>4
    <3> QED
      BY <1>4, <2>3, <3>1 DEF Holds
  <2>4. j \in lo .. k - 1 \/ j \in k + 1 .. hi \/ j = k
    BY <1>1
  <2> QED
    BY <2>1, <2>2, <2>3, <2>4
<1>9. /\ \A x \in lo .. k - 1, y \in k .. hi :
           s[x] \in Operands \cup Operators => Precedes(s, x, y)
      /\ \A y \in k + 1 .. hi : Precedes(s, y, k)
  BY LastOfAll
<1>10. Sorted(s, v)
  <2> SUFFICES ASSUME NEW a \in 1 .. p + q + 1, NEW b \in 1 .. p + q + 1, a < b
               PROVE  Precedes(s, v[a], v[b])
    BY <1>4 DEF Sorted
  <2>1. CASE a \in 1 .. p
    <3>1. v[a] = t[a] /\ t[a] \in lo .. k - 1 /\ s[t[a]] \in Operands \cup Operators
      BY <1>4, <1>5, <2>1
    <3>2. CASE b \in 1 .. p
      <4>1. v[b] = t[b] /\ Precedes(s, t[a], t[b])
        BY <1>4, <2>1, <3>2 DEF InOrder, Sorted
      <4> QED
        BY <3>1, <4>1
    <3>3. CASE b - p \in 1 .. q /\ p + (b - p) = b
      <4>1. v[p + (b - p)] = u[b - p] /\ u[b - p] \in k + 1 .. hi
        BY <1>4, <1>5, <3>3
      <4>2. u[b - p] \in k .. hi
        BY <1>1, <4>1
      <4> QED
        BY <1>9, <3>1, <3>3, <4>1, <4>2
    <3>4. CASE b = p + q + 1
      <4>1. k \in k .. hi
        BY <1>1
      <4> QED
        BY <1>4, <1>9, <3>1, <3>4, <4>1
    <3> QED
      BY <1>6, <3>2, <3>3, <3>4
  <2>2. CASE a - p \in 1 .. q /\ p + (a - p) = a
    <3>1. v[a] = u[a - p] /\ u[a - p] \in k + 1 .. hi
      <4>1. v[p + (a - p)] = u[a - p]
        BY <1>4, <2>2
      <4> QED
        BY <1>5, <2>2, <4>1
    <3>2. CASE b \in 1 .. p
      BY <1>4, <2>2, <3>2
    <3>3. CASE b - p \in 1 .. q /\ p + (b - p) = b
      <4>1. v[p + (b - p)] = u[b - p]
        BY <1>4, <3>3
      <4>2. a - p < b - p
        BY <1>4
      <4>3. Precedes(s, u[a - p], u[b - p])
        BY <1>4, <2>2, <3>3, <4>2 DEF InOrder, Sorted
      <4> QED
        BY <3>1, <3>3, <4>1, <4>3
    <3>4. CASE b = p + q + 1
      BY <1>4, <1>9, <3>1, <3>4
    <3> QED
      BY <1>6, <3>2, <3>3, <3>4
  <2>3. CASE a = p + q + 1
    BY <1>4, <2>3
  <2> QED
    BY <1>6, <2>1, <2>2, <2>3
<1> QED
  BY <1>4, <1>7, <1>8, <1>10 DEF InOrder, v

(* One operand is in order, and parentheses around make no difference.     *)
LEMMA OneInOrder ==
  ASSUME NEW s \in Seq(Characters), NEW lo \in Nat, s[lo] \in Operands
  PROVE  InOrder(s, lo, lo, <<lo>>)
<1>1. \A k \in lo .. lo : k = lo
  OBVIOUS
<1>2. <<lo>> \in Seq(lo .. lo) /\ DOMAIN <<lo>> = {1} /\ <<lo>>[1] = lo
  OBVIOUS
<1>3. \A a, b \in {1} : ~(a < b)
  OBVIOUS
<1> QED
  BY <1>1, <1>2, <1>3 DEF InOrder, Sorted, Holds

LEMMA InnerInOrder ==
  ASSUME NEW s, NEW lo \in Nat, NEW hi \in Nat, lo < hi, s[lo] = "(", s[hi] = ")",
         NEW t, InOrder(s, lo + 1, hi - 1, t)
  PROVE  InOrder(s, lo, hi, t)
<1>1. \A k \in lo .. hi : k = lo \/ k = hi \/ k \in lo + 1 .. hi - 1
  OBVIOUS
<1>2. \A k \in lo + 1 .. hi - 1 : k \in lo .. hi
  OBVIOUS
<1>3. t \in Seq(lo .. hi)
  BY <1>2 DEF InOrder
<1>4. \A k \in lo .. hi : s[k] \in Operands \cup Operators => k \in lo + 1 .. hi - 1
  BY <1>1, CharacterFacts
<1> QED
  BY <1>3, <1>4 DEF InOrder

(* Postorder puts the places of a stretch in order.                        *)
LEMMA SpanInOrder ==
  ASSUME NEW s \in Seq(Characters), Alternates(s), NEW l, NEW h, IsSpan(s, l, h)
  PROVE  InOrder(s, l, h, Order(s)[<<l, h>>])
<1> DEFINE T == {n \in Nat : \A lo, hi \in Nat :
                   IsSpan(s, lo, hi) /\ hi - lo < n => InOrder(s, lo, hi, Order(s)[<<lo, hi>>])}
<1>1. T \subseteq Nat
  OBVIOUS
<1>2. 0 \in T
  <2>1. \A lo, hi \in Nat : IsSpan(s, lo, hi) => ~(hi - lo < 0)
    BY SpanFacts
  <2> QED
    BY <2>1
<1>3. ASSUME NEW n \in T PROVE n + 1 \in T
  <2>1. n \in Nat /\ \A lo, hi \in Nat :
          IsSpan(s, lo, hi) /\ hi - lo < n => InOrder(s, lo, hi, Order(s)[<<lo, hi>>])
    OBVIOUS
  <2> HIDE DEF T
  <2>2. ASSUME NEW lo \in Nat, NEW hi \in Nat, IsSpan(s, lo, hi), hi - lo < n + 1
        PROVE  InOrder(s, lo, hi, Order(s)[<<lo, hi>>])
    <3> DEFINE last == Outermost(s, lo, hi)
               k == CHOOSE k \in last : TRUE
               f == Order(s)
    <3>1. Len(s) \in Nat /\ 1 <= lo /\ lo <= hi /\ hi <= Len(s)
      BY <2>2, SpanFacts
    <3>2. f[<<lo, hi>>] = FromParts(s, f, lo, hi)
      <4>1. lo \in 1 .. Len(s) + 1 /\ hi \in 0 .. Len(s)
        BY <3>1
      <4> QED
        BY <4>1, OrderUnfolds
    <3> HIDE DEF f
    <3>3. CASE lo = hi
      <4>1. FromParts(s, f, lo, hi) = <<lo>>
        BY <3>3 DEF FromParts
      <4>2. s[lo] \in Operands
        BY <2>2, <3>3, ShortSpan
      <4> QED
        BY <3>2, <3>3, <4>1, <4>2, OneInOrder DEF f
    <3>4. CASE lo < hi /\ last = {}
      <4>1. FromParts(s, f, lo, hi) = f[<<lo + 1, hi - 1>>]
        BY <3>4 DEF FromParts
      <4>2. s[lo] = "(" /\ s[hi] = ")" /\ IsSpan(s, lo + 1, hi - 1)
        BY <2>2, <3>4, ParenthesisedSpan
      <4>3. lo + 1 \in Nat /\ hi - 1 \in Nat /\ (hi - 1) - (lo + 1) < n
        BY <2>1, <2>2, <3>1, <3>4
      <4>4. InOrder(s, lo + 1, hi - 1, f[<<lo + 1, hi - 1>>])
        BY <2>1, <4>2, <4>3 DEF f
      <4> QED
        BY <3>2, <3>4, <4>1, <4>2, <4>4, InnerInOrder DEF f
    <3>5. CASE lo < hi /\ last # {}
      <4>1. k \in last
        BY <3>5
      <4>2. FromParts(s, f, lo, hi) = f[<<lo, k - 1>>] \o f[<<k + 1, hi>>] \o <<k>>
        <5>1. FromParts(s, f, lo, hi) =
                IF lo > hi THEN <<>>
                ELSE IF lo = hi THEN <<lo>>
                ELSE IF last = {} THEN f[<<lo + 1, hi - 1>>]
                ELSE f[<<lo, k - 1>>] \o f[<<k + 1, hi>>] \o <<k>>
          BY DEF FromParts
        <5>2. ~(lo > hi) /\ lo # hi
          BY <3>5
        <5> HIDE DEF last, k
        <5> QED
          BY <3>5, <5>1, <5>2
      <4> HIDE DEF k
      <4>3. lo < k /\ k < hi /\ k \in Nat /\ IsSpan(s, lo, k - 1) /\ IsSpan(s, k + 1, hi)
        BY <2>2, <4>1, SplitSpan DEF last
      <4>4. k - 1 \in Nat /\ k + 1 \in Nat /\ (k - 1) - lo < n /\ hi - (k + 1) < n
        BY <2>1, <2>2, <3>1, <4>3
      <4>5. InOrder(s, lo, k - 1, f[<<lo, k - 1>>]) /\ InOrder(s, k + 1, hi, f[<<k + 1, hi>>])
        BY <2>1, <4>3, <4>4 DEF f
      <4>6. InOrder(s, lo, hi, f[<<lo, k - 1>>] \o f[<<k + 1, hi>>] \o <<k>>)
        BY <2>2, <4>1, <4>5, WholeInOrder DEF last
      <4> QED
        BY <3>2, <4>2, <4>6 DEF f
    <3> QED
      BY <3>1, <3>3, <3>4, <3>5
  <2>3. n + 1 \in Nat
    BY <2>1
  <2> QED
    BY <2>2, <2>3 DEF T
<1> HIDE DEF T
<1>4. T = Nat
  BY <1>1, <1>2, <1>3, Induction
<1>5. l \in Nat /\ h \in Nat /\ h - l + 1 \in Nat /\ h - l < h - l + 1
  BY SpanFacts
<1> QED
  BY <1>4, <1>5 DEF T

(* So Postorder puts the places of a well-formed expression in order.      *)
LEMMA PostorderInOrder ==
  ASSUME NEW s \in Seq(Characters), WellFormed(s)
  PROVE  InOrder(s, 1, Len(s), Postorder(s))
<1>1. Len(s) \in Nat /\ Len(s) >= 1
  BY DEF WellFormed
<1>2. Depth(s, 0) = 0 /\ 1 - 1 = 0
  BY DepthFacts
<1>3. 1 \in 1 .. Len(s) /\ Len(s) \in 1 .. Len(s)
  BY <1>1
<1>4. IsSpan(s, 1, Len(s))
  BY <1>2, <1>3 DEF WellFormed, IsSpan
<1>5. Alternates(s)
  BY DEF WellFormed, Alternates
<1> QED
  BY <1>4, <1>5, SpanInOrder, PostorderIsOrder

-----------------------------------------------------------------------------
(* The conversion on the way to that order.                                *)

(* The expressions something is claimed of.                                *)
Claimed == WellFormed(infix) /\ (impl = "array" \/ Plain(infix))

(* How deep in parentheses the a-th place of the stack is.                 *)
Under(a) == IF a = 0 THEN 0 ELSE Depth(infix, stack[a])

(* The stack has only operators and opening parentheses, the result only   *)
(* operands and operators.  The opening parentheses on the stack are those *)
(* that are not closed, each one deeper than what is below it.             *)
Levels ==
  /\ \A a \in DOMAIN stack : infix[stack[a]] \in Operators \cup {"("}
  /\ \A a \in DOMAIN postfix : infix[postfix[a]] \in Operands \cup Operators
  /\ Under(Len(stack)) = Depth(infix, i - 1)
  /\ \A a \in DOMAIN stack :
       /\ infix[stack[a]] = "(" => Under(a) = Under(a - 1) + 1
       /\ infix[stack[a]] \in Operators => Under(a) = Under(a - 1)
  /\ \A a, b \in 0 .. Len(stack) :
       a < b => Under(a) <= Under(b) /\ (infix[stack[b]] = "(" => Under(a) < Under(b))

LevelInv == Claimed => Levels

(* No operator on the stack has been ended by a character that was read,   *)
(* every place in the result can be followed by what is read or is on the  *)
(* stack after it, and the result is in order.                             *)
Sorting ==
  /\ \A a \in DOMAIN stack : infix[stack[a]] \in Operators =>
       \A n \in stack[a] + 1 .. i - 1 : ~Ends(infix, stack[a], n)
  /\ \A b \in DOMAIN postfix : i \in DOMAIN infix => Closed(infix, postfix[b], i)
  /\ \A a \in DOMAIN stack, b \in DOMAIN postfix :
       postfix[b] < stack[a] => Closed(infix, postfix[b], stack[a])
  /\ Sorted(infix, postfix)

SortInv == Claimed /\ (impl = "array" \/ ~OldestMisleads(infix)) => Sorting

(* The stack and the result as functions.                                  *)
LEMMA Shapes ==
  ASSUME PlacesInv
  PROVE  /\ infix \in Seq(Characters) /\ Len(infix) \in Nat /\ DOMAIN infix = 1 .. Len(infix)
         /\ i \in 1 .. Len(infix) + 1
         /\ Len(stack) \in Nat /\ DOMAIN stack = 1 .. Len(stack)
         /\ \A a \in 1 .. Len(stack) : stack[a] \in 1 .. Len(infix) /\ stack[a] < i
         /\ Len(postfix) \in Nat /\ DOMAIN postfix = 1 .. Len(postfix)
         /\ \A a \in 1 .. Len(postfix) : postfix[a] \in 1 .. Len(infix) /\ postfix[a] < i
<1>1. /\ infix \in Seq(Characters) /\ Len(infix) \in Nat /\ DOMAIN infix = 1 .. Len(infix)
      /\ i \in 1 .. Len(infix) + 1
  BY InputsFit DEF PlacesInv, TypeOK
<1>2. stack \in Seq(1 .. Len(infix)) /\ postfix \in Seq(1 .. Len(infix))
  BY DEF PlacesInv, TypeOK
<1>3. /\ Len(stack) \in Nat /\ DOMAIN stack = 1 .. Len(stack)
      /\ \A a \in DOMAIN stack : stack[a] \in 1 .. Len(infix)
      /\ Len(postfix) \in Nat /\ DOMAIN postfix = 1 .. Len(postfix)
      /\ \A a \in DOMAIN postfix : postfix[a] \in 1 .. Len(infix)
  BY <1>2, WiderSeq
<1> QED
  BY <1>1, <1>3 DEF PlacesInv, PlaceInv

LEMMA Pushed ==
  ASSUME PlacesInv, i \in 1 .. Len(infix), stack' = Append(stack, i)
  PROVE  /\ Len(stack') = Len(stack) + 1 /\ DOMAIN stack' = 1 .. Len(stack) + 1
         /\ \A a \in 1 .. Len(stack) : stack'[a] = stack[a]
         /\ stack'[Len(stack) + 1] = i
<1>1. stack \in Seq(1 .. Len(infix))
  BY DEF PlacesInv, TypeOK
<1> QED
  BY <1>1, AppendElements

LEMMA Popped ==
  ASSUME PlacesInv, stack # <<>>, stack' = Below
  PROVE  /\ Len(stack) >= 1 /\ Len(stack) \in 1 .. Len(stack)
         /\ Len(stack') = Len(stack) - 1 /\ DOMAIN stack' = 1 .. Len(stack) - 1
         /\ \A a \in 1 .. Len(stack) - 1 : a \in 1 .. Len(stack) /\ stack'[a] = stack[a]
         /\ Top = stack[Len(stack)] /\ Top \in 1 .. Len(infix) /\ Top < i
<1>1. stack \in Seq(1 .. Len(infix))
  BY DEF PlacesInv, TypeOK
<1>2. /\ Len(stack) \in Nat /\ Len(stack) >= 1
      /\ Len(stack') = Len(stack) - 1 /\ DOMAIN stack' = 1 .. Len(stack) - 1
      /\ \A a \in 1 .. Len(stack) - 1 : stack'[a] = stack[a]
  BY <1>1, FrontElements, FrontTypes DEF Below
<1>3. Len(stack) \in 1 .. Len(stack) /\ \A a \in 1 .. Len(stack) - 1 : a \in 1 .. Len(stack)
  BY <1>2
<1> QED
  BY <1>2, <1>3, Shapes DEF Top

LEMMA Emitted ==
  ASSUME PlacesInv, NEW x \in 1 .. Len(infix), postfix' = Append(postfix, x)
  PROVE  /\ DOMAIN postfix' = 1 .. Len(postfix) + 1
         /\ \A a \in 1 .. Len(postfix) : postfix'[a] = postfix[a]
         /\ postfix'[Len(postfix) + 1] = x
         /\ \A a \in 1 .. Len(postfix) + 1 : a \in 1 .. Len(postfix) \/ a = Len(postfix) + 1
<1>1. postfix \in Seq(1 .. Len(infix))
  BY DEF PlacesInv, TypeOK
<1> QED
  BY <1>1, AppendElements

(* Parentheses in a well-formed expression.                                *)
LEMMA Depths ==
  ASSUME infix \in Seq(Characters), WellFormed(infix)
  PROVE  /\ Len(infix) \in Nat /\ Len(infix) >= 1
         /\ Depth(infix, 0) = 0 /\ Depth(infix, Len(infix)) = 0
         /\ \A k \in 1 .. Len(infix) :
              /\ infix[k] \in Characters
              /\ Depth(infix, k) \in Int /\ Depth(infix, k) >= 0
              /\ Depth(infix, k - 1) \in Int
              /\ infix[k] = "(" => Depth(infix, k) = Depth(infix, k - 1) + 1
              /\ infix[k] = ")" => Depth(infix, k) = Depth(infix, k - 1) - 1
              /\ infix[k] \in Operands \cup Operators => Depth(infix, k) = Depth(infix, k - 1)
<1>1. Len(infix) \in Nat /\ Len(infix) >= 1
  BY DEF WellFormed
<1>2. Depth(infix, 0) = 0
  BY DepthFacts
<1>3. \A k \in 1 .. Len(infix) : infix[k] \in Characters
  BY <1>1
<1>4. /\ Depth(infix, Len(infix)) = 0
      /\ \A k \in 1 .. Len(infix) : Depth(infix, k) >= 0
  BY DEF WellFormed
<1> QED
  BY <1>1, <1>2, <1>3, <1>4, DepthBack

(* The steps with an expression something is claimed of.                   *)
LEMMA Moves ==
  ASSUME PlacesInv, LevelInv, Claimed, Next
  PROVE  /\ UNCHANGED <<impl, infix>>
         /\ \/ /\ i \in 1 .. Len(infix) /\ i' = i + 1 /\ infix[i] \in Operands
               /\ postfix' = Append(postfix, i) /\ stack' = stack
            \/ /\ i \in 1 .. Len(infix) /\ i' = i + 1 /\ infix[i] = "("
               /\ stack' = Append(stack, i) /\ postfix' = postfix
            \/ /\ i \in 1 .. Len(infix) /\ i' = i + 1 /\ infix[i] \in Operators
               /\ ~GoesFirst(infix[i])
               /\ stack' = Append(stack, i) /\ postfix' = postfix
            \/ /\ i \in 1 .. Len(infix) /\ i' = i /\ infix[i] \in Operators
               /\ GoesFirst(infix[i]) /\ stack # <<>>
               /\ postfix' = Append(postfix, Top) /\ stack' = Below
            \/ /\ i \in 1 .. Len(infix) /\ i' = i /\ infix[i] = ")"
               /\ stack # <<>> /\ infix[Top] # "(" /\ impl = "array"
               /\ postfix' = Append(postfix, Top) /\ stack' = Below
            \/ /\ i \in 1 .. Len(infix) /\ i' = i + 1 /\ infix[i] = ")"
               /\ stack # <<>> /\ infix[Top] = "(" /\ impl = "array"
               /\ stack' = Below /\ postfix' = postfix
            \/ /\ i' = i /\ i = Len(infix) + 1 /\ stack # <<>>
               /\ postfix' = Append(postfix, Top) /\ stack' = Below
<1>1. TypeOK
  BY DEF PlacesInv
<1>2. DOMAIN infix = 1 .. Len(infix) /\ Len(infix) \in Nat /\ i \in 1 .. Len(infix) + 1
  BY Shapes
<1>3. CASE Operand
  BY <1>2, <1>3 DEF Operand, Reads
<1>4. CASE OpenParen
  BY <1>1, <1>2, <1>4, PushWorks DEF OpenParen, Reads
<1>5. CASE CloseParen
  <2>1. UNCHANGED <<impl, infix>> /\ i \in 1 .. Len(infix) /\ infix[i] = ")"
    BY <1>2, <1>5 DEF CloseParen, Reads
  <2>2. impl = "array"
    BY <1>2, <2>1 DEF Claimed, Plain
  <2>3. stack # <<>>
    <3>1. ASSUME stack = <<>> PROVE FALSE
      <4>1. Len(stack) = 0
        BY <3>1
      <4>2. Under(Len(stack)) = 0
        BY <4>1 DEF Under
      <4>3. Depth(infix, i - 1) = 0
        BY <4>2 DEF LevelInv, Levels
      <4>4. Depth(infix, i) = Depth(infix, i - 1) - 1 /\ Depth(infix, i) >= 0
        BY <2>1, Shapes, Depths DEF Claimed
      <4> QED
        BY <4>3, <4>4
    <3> QED
      BY <3>1
  <2>4. \/ ClosesLoop /\ stack' = Below /\ i' = i + 1 /\ postfix' = postfix
        \/ ~ClosesLoop /\ PopAndEmit
    BY <1>5, <2>3 DEF CloseParen
  <2>5. ClosesLoop <=> infix[Top] = "("
    BY <2>2 DEF ClosesLoop
  <2> QED
    BY <2>1, <2>2, <2>3, <2>4, <2>5 DEF PopAndEmit
<1>6. CASE Operator
  BY <1>1, <1>2, <1>6, PushWorks DEF Operator, Reads, GoesFirst, PopAndEmit
<1>7. CASE Drain
  BY <1>2, <1>7 DEF Drain, PopAndEmit
<1> QED
  BY <1>3, <1>4, <1>5, <1>6, <1>7 DEF Next

(* The list compares with the oldest, which is an operator, too.           *)
LEMMA OldestFacts ==
  ASSUME PlacesInv, LevelInv, Claimed, i \in 1 .. Len(infix), infix[i] \in Operators
  PROVE  /\ stack # <<>> => Top = stack[Len(stack)] /\ Len(stack) \in 1 .. Len(stack) /\ 1 \in 1 .. Len(stack)
         /\ stack # <<>> /\ GoesFirst(infix[i]) =>
              /\ infix[Top] \in Operators
              /\ impl = "array" => Binding[infix[i]] <= Binding[infix[Top]]
              /\ impl = "list" => Binding[infix[i]] <= Binding[infix[stack[1]]]
         /\ stack # <<>> /\ ~GoesFirst(infix[i]) =>
              /\ impl = "array" /\ infix[Top] \in Operators => Binding[infix[Top]] < Binding[infix[i]]
              /\ impl = "list" => Binding[infix[stack[1]]] < Binding[infix[i]]
<1>1. /\ DOMAIN infix = 1 .. Len(infix) /\ Len(infix) \in Nat
      /\ Len(stack) \in Nat /\ DOMAIN stack = 1 .. Len(stack)
      /\ \A a \in 1 .. Len(stack) : stack[a] \in 1 .. Len(infix)
  BY Shapes
<1>2. \A a \in 1 .. Len(stack) : infix[stack[a]] \in Operators \cup {"("}
  BY <1>1 DEF LevelInv, Levels
<1>3. impl \in {"array", "list"} /\ (impl = "list" => Plain(infix))
  BY DEF Claimed, PlacesInv, TypeOK
<1>4. impl = "list" => \A a \in 1 .. Len(stack) : infix[stack[a]] \in Operators
  BY <1>1, <1>2, <1>3 DEF Plain
<1>5. ASSUME stack # <<>>
      PROVE  Top = stack[Len(stack)] /\ Len(stack) \in 1 .. Len(stack) /\ 1 \in 1 .. Len(stack)
  <2>1. stack \in Seq(1 .. Len(infix))
    BY DEF PlacesInv, TypeOK
  <2>2. Len(stack) >= 1
    BY <1>5, <2>1
  <2> QED
    BY <1>1, <2>2 DEF Top
<1>6. \A c \in Operators : precedence(c) = Binding[c] /\ Binding[c] \in 1 .. 3
  BY BindingFacts
<1>7. precedence("(") = 0
  BY DEF precedence
<1>8. GoesFirst(infix[i]) <=> stack # <<>> /\ precedence(infix[i]) <= precedence(infix[TopOf])
  BY DEF GoesFirst
<1>9. ASSUME stack # <<>>
      PROVE  infix[Top] \in Operators \cup {"("} /\ infix[stack[1]] \in Operators \cup {"("}
  BY <1>2, <1>5, <1>9
<1>10. ASSUME impl = "list", stack # <<>>
       PROVE  infix[Top] \in Operators /\ infix[stack[1]] \in Operators /\ TopOf = stack[1]
  BY <1>4, <1>5, <1>10 DEF TopOf
<1>11. impl = "array" => TopOf = Top
  BY DEF TopOf
<1>12. ASSUME stack # <<>>, GoesFirst(infix[i])
       PROVE  /\ infix[Top] \in Operators
              /\ impl = "array" => Binding[infix[i]] <= Binding[infix[Top]]
              /\ impl = "list" => Binding[infix[i]] <= Binding[infix[stack[1]]]
  <2>1. precedence(infix[i]) = Binding[infix[i]] /\ Binding[infix[i]] \in 1 .. 3
    BY <1>6
  <2>2. CASE impl = "array"
    <3>1. precedence(infix[i]) <= precedence(infix[Top])
      BY <1>8, <1>11, <1>12, <2>2
    <3>2. infix[Top] # "("
      BY <1>7, <2>1, <3>1
    <3>3. infix[Top] \in Operators
      BY <1>9, <1>12, <3>2
    <3> QED
      BY <1>6, <2>1, <2>2, <3>1, <3>3
  <2>3. CASE impl = "list"
    BY <1>6, <1>8, <1>10, <1>12, <2>1, <2>3
  <2> QED
    BY <1>3, <2>2, <2>3
<1>13. ASSUME stack # <<>>, ~GoesFirst(infix[i])
       PROVE  /\ impl = "array" /\ infix[Top] \in Operators => Binding[infix[Top]] < Binding[infix[i]]
              /\ impl = "list" => Binding[infix[stack[1]]] < Binding[infix[i]]
  <2>1. precedence(infix[i]) = Binding[infix[i]] /\ Binding[infix[i]] \in 1 .. 3
    BY <1>6
  <2>2. ASSUME impl = "array", infix[Top] \in Operators PROVE Binding[infix[Top]] < Binding[infix[i]]
    <3>1. ~(precedence(infix[i]) <= precedence(infix[Top]))
      BY <1>8, <1>11, <1>13, <2>2
    <3>2. precedence(infix[Top]) = Binding[infix[Top]] /\ Binding[infix[Top]] \in 1 .. 3
      BY <1>6, <2>2
    <3> QED
      BY <2>1, <3>1, <3>2
  <2>3. ASSUME impl = "list" PROVE Binding[infix[stack[1]]] < Binding[infix[i]]
    <3>1. ~(precedence(infix[i]) <= precedence(infix[stack[1]]))
      BY <1>8, <1>10, <1>13, <2>3
    <3>2. precedence(infix[stack[1]]) = Binding[infix[stack[1]]] /\ Binding[infix[stack[1]]] \in 1 .. 3
      BY <1>6, <1>10, <1>13, <2>3
    <3> QED
      BY <2>1, <3>1, <3>2
  <2> QED
    BY <2>2, <2>3
<1> QED
  BY <1>5, <1>12, <1>13

LEMMA UnderTypes ==
  ASSUME PlacesInv, Claimed
  PROVE  /\ Under(0) = 0
         /\ \A a \in 0 .. Len(stack) : Under(a) \in Int
         /\ \A a \in 1 .. Len(stack) : /\ Under(a) = Depth(infix, stack[a])
                                       /\ a - 1 \in 0 .. Len(stack) /\ a \in 0 .. Len(stack)
<1>1. /\ Len(stack) \in Nat
      /\ \A a \in 1 .. Len(stack) : stack[a] \in 1 .. Len(infix)
  BY Shapes
<1>2. \A k \in 1 .. Len(infix) : Depth(infix, k) \in Int
  BY Shapes, Depths DEF Claimed
<1>3. \A a \in 0 .. Len(stack) : a = 0 \/ a \in 1 .. Len(stack)
  BY <1>1
<1>4. \A a \in 1 .. Len(stack) : a # 0 /\ a - 1 \in 0 .. Len(stack) /\ a \in 0 .. Len(stack)
  BY <1>1
<1> QED
  BY <1>1, <1>2, <1>3, <1>4 DEF Under

(* The levels when a place is pushed, and when one is popped.              *)
LEMMA LevelsPush ==
  ASSUME PlacesInv, Levels, Claimed, UNCHANGED infix,
         i \in 1 .. Len(infix), infix[i] \in Operators \cup {"("},
         i' = i + 1, stack' = Append(stack, i), postfix' = postfix
  PROVE  Levels'
<1>0. PICK q \in Nat : q = Len(stack)
  BY Shapes
<1>1. DOMAIN stack = 1 .. q
  BY <1>0, Shapes
<1>2. /\ Len(stack') = q + 1 /\ DOMAIN stack' = 1 .. q + 1
      /\ \A a \in 1 .. q : stack'[a] = stack[a]
      /\ stack'[q + 1] = i
  BY <1>0, Pushed
<1>3. /\ Depth(infix, i) \in Int /\ Depth(infix, i - 1) \in Int
      /\ infix[i] = "(" => Depth(infix, i) = Depth(infix, i - 1) + 1
      /\ infix[i] \in Operators => Depth(infix, i) = Depth(infix, i - 1)
  BY Shapes, Depths DEF Claimed
<1>4. /\ \A a \in 0 .. q : Under(a) \in Int
      /\ \A a \in 1 .. q : a - 1 \in 0 .. q /\ a \in 0 .. q
  BY <1>0, UnderTypes
<1>5. Under(q) = Depth(infix, i - 1)
  BY <1>0 DEF Levels
<1>6. \A a \in 0 .. q : Under(a)' = Under(a)
  <2> SUFFICES ASSUME NEW a \in 0 .. q PROVE Under(a)' = Under(a)
    OBVIOUS
  <2>1. CASE a = 0
    BY <2>1 DEF Under
  <2>2. CASE a \in 1 .. q
    BY <1>2, <2>2 DEF Under
  <2> QED
    BY <1>1, <2>1, <2>2
<1>7. Under(q + 1)' = Depth(infix, i)
  <2>1. q + 1 # 0
    BY <1>1
  <2> QED
    BY <1>2, <2>1 DEF Under
<1>8. /\ \A a \in 1 .. q + 1 : a \in 1 .. q \/ a = q + 1
      /\ \A a \in 0 .. q + 1 : a \in 0 .. q \/ a = q + 1
      /\ q \in 0 .. q /\ (q + 1) - 1 = q
  BY <1>1
<1>9. \A a \in DOMAIN stack' : infix'[stack'[a]] \in Operators \cup {"("}
  <2>1. \A a \in 1 .. q : infix[stack[a]] \in Operators \cup {"("}
    BY <1>1 DEF Levels
  <2> QED
    BY <1>2, <1>8, <2>1
<1>10. \A a \in DOMAIN postfix' : infix'[postfix'[a]] \in Operands \cup Operators
  BY DEF Levels
<1>11. (Under(Len(stack)) = Depth(infix, i - 1))'
  <2>1. i' - 1 = i
    BY <1>3, Shapes
  <2> QED
    BY <1>2, <1>7, <2>1
<1>12. ASSUME NEW a \in DOMAIN stack'
       PROVE  /\ infix'[stack'[a]] = "(" => Under(a)' = Under(a - 1)' + 1
              /\ infix'[stack'[a]] \in Operators => Under(a)' = Under(a - 1)'
  <2>1. CASE a \in 1 .. q
    <3>1. /\ infix[stack[a]] = "(" => Under(a) = Under(a - 1) + 1
          /\ infix[stack[a]] \in Operators => Under(a) = Under(a - 1)
      BY <1>1, <2>1 DEF Levels
    <3>2. Under(a)' = Under(a) /\ Under(a - 1)' = Under(a - 1) /\ stack'[a] = stack[a]
      BY <1>2, <1>4, <1>6, <2>1
    <3> QED
      BY <3>1, <3>2
  <2>2. CASE a = q + 1
    <3>1. Under(a - 1)' = Depth(infix, i - 1)
      BY <1>5, <1>6, <1>8, <2>2
    <3> QED
      BY <1>2, <1>3, <1>7, <2>2, <3>1
  <2> QED
    BY <1>2, <1>8, <2>1, <2>2
<1>13. ASSUME NEW a \in 0 .. Len(stack'), NEW b \in 0 .. Len(stack'), a < b
       PROVE  Under(a)' <= Under(b)' /\ (infix'[stack'[b]] = "(" => Under(a)' < Under(b)')
  <2>1. a \in 0 .. q
    BY <1>1, <1>2, <1>13
  <2>2. CASE b \in 0 .. q
    <3>1. Under(a) <= Under(b) /\ (infix[stack[b]] = "(" => Under(a) < Under(b))
      BY <1>0, <1>13, <2>1, <2>2 DEF Levels
    <3>2. b \in 1 .. q
      BY <1>1, <1>13, <2>2
    <3> QED
      BY <1>2, <1>6, <2>1, <2>2, <3>1, <3>2
  <2>3. CASE b = q + 1
    <3>1. Under(a) <= Under(q)
      <4>1. CASE a = q
        BY <1>4, <2>1, <4>1
      <4>2. CASE a < q
        BY <1>0, <1>8, <2>1, <4>2 DEF Levels
      <4> QED
        BY <1>1, <2>1, <4>1, <4>2
    <3>2. Under(a)' = Under(a) /\ Under(a) \in Int /\ Under(b)' = Depth(infix, i)
      BY <1>4, <1>6, <1>7, <2>1, <2>3
    <3>3. Depth(infix, i) = Depth(infix, i - 1) \/ Depth(infix, i) = Depth(infix, i - 1) + 1
      BY <1>3
    <3>4. infix'[stack'[b]] = "(" => Depth(infix, i) = Depth(infix, i - 1) + 1
      BY <1>2, <1>3, <2>3
    <3>5. Under(a) <= Depth(infix, i - 1) /\ Depth(infix, i - 1) \in Int
      BY <1>3, <1>5, <3>1
    <3>6. /\ Under(a) <= Depth(infix, i)
          /\ Depth(infix, i) = Depth(infix, i - 1) + 1 => Under(a) < Depth(infix, i)
      BY <3>2, <3>3, <3>5
    <3> QED
      BY <3>2, <3>4, <3>6, Zenon
  <2> QED
    BY <1>2, <1>8, <2>2, <2>3
<1> QED
  BY <1>9, <1>10, <1>11, <1>12, <1>13 DEF Levels

LEMMA LevelsPop ==
  ASSUME PlacesInv, Levels, Claimed, UNCHANGED infix, stack # <<>>, stack' = Below,
         Under(Len(stack) - 1) = Depth(infix, i' - 1),
         \A a \in DOMAIN postfix' : infix[postfix'[a]] \in Operands \cup Operators
  PROVE  Levels'
<1>0. PICK q \in Nat : q = Len(stack)
  BY Shapes
<1>1. DOMAIN stack = 1 .. q
  BY <1>0, Shapes
<1>2. /\ q >= 1 /\ Len(stack') = q - 1 /\ DOMAIN stack' = 1 .. q - 1
      /\ \A a \in 1 .. q - 1 : a \in 1 .. q /\ stack'[a] = stack[a]
  BY <1>0, Popped
<1>3. \A a \in 0 .. q - 1 : a \in 0 .. q /\ Under(a)' = Under(a)
  <2> SUFFICES ASSUME NEW a \in 0 .. q - 1 PROVE Under(a)' = Under(a)
    BY <1>1
  <2>1. CASE a = 0
    BY <2>1 DEF Under
  <2>2. CASE a \in 1 .. q - 1
    BY <1>2, <2>2 DEF Under
  <2> QED
    BY <1>1, <2>1, <2>2
<1>4. \A a \in DOMAIN stack' : infix'[stack'[a]] \in Operators \cup {"("}
  BY <1>1, <1>2 DEF Levels
<1>5. (Under(Len(stack)) = Depth(infix, i - 1))'
  <2>1. q - 1 \in 0 .. q - 1
    BY <1>1, <1>2
  <2> QED
    BY <1>0, <1>2, <1>3, <2>1
<1>6. ASSUME NEW a \in DOMAIN stack'
      PROVE  /\ infix'[stack'[a]] = "(" => Under(a)' = Under(a - 1)' + 1
             /\ infix'[stack'[a]] \in Operators => Under(a)' = Under(a - 1)'
  <2>1. a \in 1 .. q /\ a \in 0 .. q - 1 /\ a - 1 \in 0 .. q - 1 /\ stack'[a] = stack[a]
    BY <1>1, <1>2
  <2>2. /\ infix[stack[a]] = "(" => Under(a) = Under(a - 1) + 1
        /\ infix[stack[a]] \in Operators => Under(a) = Under(a - 1)
    BY <1>1, <2>1 DEF Levels
  <2> QED
    BY <1>3, <2>1, <2>2
<1>7. ASSUME NEW a \in 0 .. Len(stack'), NEW b \in 0 .. Len(stack'), a < b
      PROVE  Under(a)' <= Under(b)' /\ (infix'[stack'[b]] = "(" => Under(a)' < Under(b)')
  <2>1. a \in 0 .. q - 1 /\ b \in 0 .. q - 1 /\ b \in 1 .. q - 1 /\ a \in 0 .. q /\ b \in 0 .. q
    BY <1>1, <1>2, <1>7
  <2>2. Under(a) <= Under(b) /\ (infix[stack[b]] = "(" => Under(a) < Under(b))
    BY <1>0, <1>7, <2>1 DEF Levels
  <2> QED
    BY <1>2, <1>3, <2>1, <2>2
<1> QED
  BY <1>4, <1>5, <1>6, <1>7 DEF Levels

(* What is on top of the stack says how deep one is below it.              *)
LEMMA BelowTop ==
  ASSUME PlacesInv, Levels, Claimed, stack # <<>>
  PROVE  /\ Under(Len(stack) - 1) \in Int /\ Depth(infix, i - 1) \in Int
         /\ infix[Top] = "(" => Under(Len(stack) - 1) = Depth(infix, i - 1) - 1
         /\ infix[Top] \in Operators => Under(Len(stack) - 1) = Depth(infix, i - 1)
         /\ infix[Top] \in Operators \cup {"("}
         /\ infix[Top] = "(" => Depth(infix, i - 1) > 0
<1> DEFINE q == Len(stack)
<1>1. q \in Nat /\ DOMAIN stack = 1 .. q
  BY Shapes
<1>2. q >= 1 /\ q \in 1 .. q /\ Top = stack[q]
  <2>1. stack \in Seq(1 .. Len(infix))
    BY DEF PlacesInv, TypeOK
  <2>2. q >= 1
    BY <2>1
  <2> QED
    BY <1>1, <2>2 DEF Top
<1>3. Under(0) = 0 /\ \A a \in 0 .. q : Under(a) \in Int
  BY UnderTypes
<1>4. Under(q) = Depth(infix, i - 1)
  BY DEF Levels
<1> HIDE DEF q
<1>5. q - 1 \in 0 .. q /\ q \in 0 .. q /\ 0 \in 0 .. q /\ 0 < q
  BY <1>1, <1>2
<1>6. /\ infix[Top] = "(" => Under(q) = Under(q - 1) + 1
      /\ infix[Top] \in Operators => Under(q) = Under(q - 1)
      /\ infix[Top] \in Operators \cup {"("}
  BY <1>1, <1>2 DEF Levels
<1>7. infix[Top] = "(" => Under(0) < Under(q)
  BY <1>2, <1>5 DEF Levels, q
<1>8. Under(q - 1) \in Int /\ Under(q) \in Int
  BY <1>3, <1>5
<1> QED
  BY <1>3, <1>4, <1>6, <1>7, <1>8 DEF q

LEMMA LevelStep ==
  ASSUME PlacesInv, LevelInv, Claimed, Next
  PROVE  Levels'
<1>1. /\ Len(infix) \in Nat /\ i \in 1 .. Len(infix) + 1
      /\ Len(postfix) \in Nat /\ DOMAIN postfix = 1 .. Len(postfix)
  BY Shapes
<1>2. Levels
  BY DEF LevelInv
<1>3. UNCHANGED <<impl, infix>>
  BY Moves
<1>4. \A k \in 1 .. Len(infix) :
        /\ infix[k] = ")" => Depth(infix, k) = Depth(infix, k - 1) - 1
        /\ infix[k] \in Operands \cup Operators => Depth(infix, k) = Depth(infix, k - 1)
  BY Shapes, Depths DEF Claimed
<1>5. ASSUME NEW x \in 1 .. Len(infix), postfix' = Append(postfix, x),
             infix[x] \in Operands \cup Operators
      PROVE  \A a \in DOMAIN postfix' : infix[postfix'[a]] \in Operands \cup Operators
  <2>1. /\ DOMAIN postfix' = 1 .. Len(postfix) + 1
        /\ \A a \in 1 .. Len(postfix) : postfix'[a] = postfix[a]
        /\ postfix'[Len(postfix) + 1] = x
        /\ \A a \in 1 .. Len(postfix) + 1 : a \in 1 .. Len(postfix) \/ a = Len(postfix) + 1
    BY <1>5, Emitted
  <2>2. \A a \in 1 .. Len(postfix) : infix[postfix[a]] \in Operands \cup Operators
    BY <1>1, <1>2 DEF Levels
  <2> QED
    BY <1>5, <2>1, <2>2
<1>6. ASSUME stack # <<>>, stack' = Below, i' = i, infix[Top] \in Operators,
             postfix' = Append(postfix, Top)
      PROVE  Levels'
  <2>1. Top \in 1 .. Len(infix)
    BY <1>6, Popped
  <2>2. Under(Len(stack) - 1) = Depth(infix, i' - 1)
    BY <1>2, <1>6, BelowTop
  <2> QED
    BY <1>2, <1>3, <1>5, <1>6, <2>1, <2>2, LevelsPop
<1>7. CASE /\ i \in 1 .. Len(infix) /\ i' = i + 1 /\ infix[i] \in Operands
           /\ postfix' = Append(postfix, i) /\ stack' = stack
  <2>1. \A a \in DOMAIN postfix' : infix[postfix'[a]] \in Operands \cup Operators
    BY <1>5, <1>7
  <2>2. \A a : Under(a)' = Under(a)
    BY <1>3, <1>7 DEF Under
  <2>3. i' - 1 = i /\ Depth(infix, i) = Depth(infix, i - 1)
    BY <1>1, <1>4, <1>7
  <2> QED
    BY <1>2, <1>3, <1>7, <2>1, <2>2, <2>3 DEF Levels
<1>8. CASE /\ i \in 1 .. Len(infix) /\ i' = i + 1 /\ infix[i] \in Operators \cup {"("}
           /\ stack' = Append(stack, i) /\ postfix' = postfix
  BY <1>2, <1>3, <1>8, LevelsPush
<1>9. CASE /\ i \in 1 .. Len(infix) /\ i' = i /\ infix[i] \in Operators
           /\ GoesFirst(infix[i]) /\ stack # <<>>
           /\ postfix' = Append(postfix, Top) /\ stack' = Below
  BY <1>6, <1>9, OldestFacts
<1>10. CASE /\ i \in 1 .. Len(infix) /\ i' = i /\ infix[i] = ")"
            /\ stack # <<>> /\ infix[Top] # "(" /\ impl = "array"
            /\ postfix' = Append(postfix, Top) /\ stack' = Below
  BY <1>2, <1>6, <1>10, BelowTop
<1>11. CASE /\ i \in 1 .. Len(infix) /\ i' = i + 1 /\ infix[i] = ")"
            /\ stack # <<>> /\ infix[Top] = "(" /\ impl = "array"
            /\ stack' = Below /\ postfix' = postfix
  <2>1. i' - 1 = i /\ Depth(infix, i) = Depth(infix, i - 1) - 1
    BY <1>1, <1>4, <1>11
  <2>2. Under(Len(stack) - 1) = Depth(infix, i' - 1)
    BY <1>2, <1>11, <2>1, BelowTop
  <2>3. \A a \in DOMAIN postfix' : infix[postfix'[a]] \in Operands \cup Operators
    BY <1>2, <1>11 DEF Levels
  <2> QED
    BY <1>2, <1>3, <1>11, <2>2, <2>3, LevelsPop
<1>12. CASE /\ i' = i /\ i = Len(infix) + 1 /\ stack # <<>>
            /\ postfix' = Append(postfix, Top) /\ stack' = Below
  <2>1. i - 1 = Len(infix) /\ Depth(infix, Len(infix)) = 0
    BY <1>1, <1>12, Shapes, Depths DEF Claimed
  <2>2. infix[Top] # "("
    BY <1>2, <1>12, <2>1, BelowTop
  <2> QED
    BY <1>2, <1>6, <1>12, <2>2, BelowTop
<1> QED
  BY <1>7, <1>8, <1>9, <1>10, <1>11, <1>12, Moves

(* With a list and no parentheses: what is compared with binds least of    *)
(* the operators that have been read, or the one that is read does.        *)
Weakest ==
  \A k \in 1 .. i - 1 : infix[k] \in Operators =>
    /\ stack # <<>> => Binding[infix[stack[1]]] <= Binding[infix[k]]
    /\ stack = <<>> /\ i \in DOMAIN infix =>
         infix[i] \in Operators /\ Binding[infix[i]] <= Binding[infix[k]]

(* The operator before the one that is read is on top of the stack, unless *)
(* the one that is read empties the stack.                                 *)
Newest ==
  /\ i - 1 \in DOMAIN infix /\ infix[i - 1] \in Operators => stack # <<>> /\ Top = i - 1
  /\ i - 2 \in DOMAIN infix /\ i \in DOMAIN infix /\ infix[i - 2] \in Operators =>
       \/ stack # <<>> /\ Top = i - 2
       \/ infix[i] \in Operators /\ (stack = <<>> \/ Binding[infix[i]] <= Binding[infix[stack[1]]])

Misleads(s, k, m) ==
  /\ k < m /\ m + 2 \in DOMAIN s
  /\ {s[k], s[m], s[m + 2]} \subseteq Operators
  /\ Binding[s[k]] < Binding[s[m + 2]]
  /\ Binding[s[m + 2]] <= Binding[s[m]]

(* Where the oldest misleads, the first of the two operators comes out     *)
(* after the second.                                                       *)
Late ==
  \A k, m \in DOMAIN infix : Misleads(infix, k, m) /\ m + 2 < i =>
    \A a \in DOMAIN postfix : postfix[a] = m => \E b \in DOMAIN postfix : b < a /\ postfix[b] = m + 2

ListInv == Claimed /\ impl = "list" => Weakest /\ Newest /\ Late

LEMMA EmptyLength ==
  ASSUME NEW S, NEW t \in Seq(S)
  PROVE  Len(t) \in Nat /\ (t = <<>> <=> Len(t) = 0)
OBVIOUS

(* Without parentheses operands and operators alternate.                   *)
LEMMA PlainFacts ==
  ASSUME PlacesInv, LevelInv, Claimed, impl = "list"
  PROVE  /\ Plain(infix)
         /\ \A k \in 1 .. Len(infix) : infix[k] \notin {"(", ")"}
         /\ \A k \in 1 .. Len(infix) : ~(infix[k] \in Operands /\ infix[k] \in Operators)
         /\ \A k \in 1 .. Len(infix) - 1 : infix[k] \in Operands \/ infix[k + 1] \in Operands
         /\ \A k \in 1 .. Len(infix) - 1 : infix[k] \in Operators \/ infix[k + 1] \in Operators
         /\ infix[1] \notin Operators /\ infix[Len(infix)] \notin Operators
         /\ \A a \in 1 .. Len(stack) : infix[stack[a]] \in Operators
<1>1. /\ infix \in Seq(Characters) /\ Len(infix) \in Nat /\ DOMAIN infix = 1 .. Len(infix)
      /\ DOMAIN stack = 1 .. Len(stack)
      /\ \A a \in 1 .. Len(stack) : stack[a] \in 1 .. Len(infix)
  BY Shapes
<1>2. Plain(infix)
  BY DEF Claimed
<1>3. \A k \in 1 .. Len(infix) : infix[k] \notin {"(", ")"}
  BY <1>1, <1>2 DEF Plain
<1>4. \A k \in 1 .. Len(infix) : infix[k] \in Operands \cup Operators
  BY <1>1, <1>3, Depths, CharacterFacts DEF Claimed
<1>5. ASSUME NEW k \in 1 .. Len(infix) - 1 PROVE infix[k] \in Operands \/ infix[k + 1] \in Operands
  <2>1. k \in 1 .. Len(infix) /\ k + 1 \in 1 .. Len(infix)
    BY <1>1
  <2>2. EndsTerm(infix[k]) = ~StartsTerm(infix[k + 1])
    BY DEF Claimed, WellFormed
  <2>3. SUFFICES ASSUME infix[k] \in Operators, infix[k + 1] \in Operators PROVE FALSE
    BY <1>4, <2>1
  <2> QED
    BY <2>2, <2>3, TermFacts
<1>6. ASSUME NEW k \in 1 .. Len(infix) - 1 PROVE infix[k] \in Operators \/ infix[k + 1] \in Operators
  <2>1. k \in 1 .. Len(infix) /\ k + 1 \in 1 .. Len(infix)
    BY <1>1
  <2>2. EndsTerm(infix[k]) = ~StartsTerm(infix[k + 1])
    BY DEF Claimed, WellFormed
  <2>3. SUFFICES ASSUME infix[k] \in Operands, infix[k + 1] \in Operands PROVE FALSE
    BY <1>4, <2>1
  <2> QED
    BY <2>2, <2>3, TermFacts
<1>7. infix[1] \notin Operators /\ infix[Len(infix)] \notin Operators
  BY TermFacts DEF Claimed, WellFormed
<1>8. \A a \in 1 .. Len(stack) : infix[stack[a]] \in Operators
  BY <1>1, <1>3 DEF LevelInv, Levels
<1> QED
  BY <1>2, <1>3, <1>4, <1>5, <1>6, <1>7, <1>8, CharacterFacts

(* An operator that is popped comes out after what was read after it.      *)
LEMMA LatePop ==
  ASSUME PlacesInv, LevelInv, Claimed, impl = "list", Late, UNCHANGED <<infix, i>>,
         stack # <<>>, postfix' = Append(postfix, Top), stack' = Below
  PROVE  Late'
<1>1. /\ Len(infix) \in Nat /\ DOMAIN infix = 1 .. Len(infix) /\ i \in Nat
      /\ Len(postfix) \in Nat /\ DOMAIN postfix = 1 .. Len(postfix)
      /\ Len(stack) \in Nat /\ DOMAIN stack = 1 .. Len(stack)
      /\ \A a \in 1 .. Len(stack) : stack[a] \in Nat
  BY Shapes
<1>2. Top = stack[Len(stack)] /\ Len(stack) \in 1 .. Len(stack) /\ Top \in 1 .. Len(infix)
  BY Popped
<1>3. /\ DOMAIN postfix' = 1 .. Len(postfix) + 1
      /\ \A a \in 1 .. Len(postfix) : postfix'[a] = postfix[a]
      /\ postfix'[Len(postfix) + 1] = Top
      /\ \A a \in 1 .. Len(postfix) + 1 : a \in 1 .. Len(postfix) \/ a = Len(postfix) + 1
  BY <1>2, Emitted
<1>4. \A b \in 1 .. Len(postfix) : b \in 1 .. Len(postfix) + 1 /\ b < Len(postfix) + 1
  BY <1>1
<1>5. SUFFICES ASSUME NEW k \in DOMAIN infix, NEW m \in DOMAIN infix,
                      Misleads(infix, k, m), m + 2 < i,
                      NEW a \in DOMAIN postfix', postfix'[a] = m
               PROVE  \E b \in DOMAIN postfix' : b < a /\ postfix'[b] = m + 2
  BY DEF Late
<1>6. CASE a \in 1 .. Len(postfix)
  <2>1. PICK b \in 1 .. Len(postfix) : b < a /\ postfix[b] = m + 2
    BY <1>1, <1>3, <1>5, <1>6 DEF Late
  <2> QED
    BY <1>3, <1>4, <2>1
<1>7. CASE a = Len(postfix) + 1
  <2>1. Top = m
    BY <1>3, <1>5, <1>7
  <2>2. Holds(postfix, m + 2) \/ Holds(stack, m + 2)
    <3>1. m + 2 \in 1 .. i - 1
      BY <1>1, <1>5
    <3>2. infix[m + 2] \in Operators
      BY <1>5 DEF Misleads
    <3> QED
      BY <3>1, <3>2, PlainFacts DEF PlacesInv, OperatorInv
  <2>3. ~Holds(stack, m + 2)
    <3>1. PICK q \in Nat : q = Len(stack)
      BY <1>1
    <3>2. \A c \in 1 .. q : c < q => stack[c] < stack[q]
      BY <1>1, <1>2, <3>1 DEF PlacesInv, PlaceInv
    <3>3. \A c \in 1 .. q : c < q \/ c = q
      OBVIOUS
    <3>4. stack[q] = m /\ m \in Nat /\ \A c \in 1 .. q : stack[c] \in Nat
      BY <1>1, <1>2, <2>1, <3>1
    <3>5. \A c \in 1 .. q : stack[c] # m + 2
      BY <3>2, <3>3, <3>4
    <3> QED
      BY <1>1, <3>1, <3>5 DEF Holds
  <2>4. PICK b \in 1 .. Len(postfix) : postfix[b] = m + 2
    BY <1>1, <2>2, <2>3 DEF Holds
  <2> QED
    BY <1>3, <1>4, <1>7, <2>4
<1> QED
  BY <1>3, <1>6, <1>7

LEMMA ListStep ==
  ASSUME PlacesInv, LevelInv, ListInv, Claimed, impl = "list", Next, TypeOK'
  PROVE  Weakest' /\ Newest' /\ Late'
<1> DEFINE n == Len(infix)
           p == Len(postfix)
           q == Len(stack)
<1>1. /\ n \in Nat /\ DOMAIN infix = 1 .. n /\ i \in 1 .. n + 1
      /\ q \in Nat /\ DOMAIN stack = 1 .. q
      /\ \A a \in 1 .. q : stack[a] \in 1 .. n /\ stack[a] < i
      /\ p \in Nat /\ DOMAIN postfix = 1 .. p
  BY Shapes
<1>2. Weakest /\ Newest /\ Late
  BY DEF ListInv
<1>3. UNCHANGED <<impl, infix>>
  BY Moves
<1>4. (stack = <<>> <=> q = 0) /\ (stack' = <<>> <=> Len(stack') = 0)
  <2>1. stack \in Seq(1 .. n) /\ stack' \in Seq(1 .. Len(infix'))
    BY DEF PlacesInv, TypeOK
  <2> QED
    BY <2>1, EmptyLength
<1>5. /\ \A k \in 1 .. n : infix[k] \notin {"(", ")"}
      /\ \A k \in 1 .. n : ~(infix[k] \in Operands /\ infix[k] \in Operators)
      /\ \A k \in 1 .. n - 1 : infix[k] \in Operands \/ infix[k + 1] \in Operands
      /\ infix[1] \notin Operators /\ infix[n] \notin Operators
      /\ \A a \in 1 .. q : infix[stack[a]] \in Operators
  BY PlainFacts
<1>6. \A k \in 1 .. n : infix[k] \in Operators => Binding[infix[k]] \in 1 .. 3
  BY BindingFacts
<1>7. \A k \in 2 .. n : infix[k] \in Operators => infix[k - 1] \notin Operators
  <2> SUFFICES ASSUME NEW k \in 2 .. n, infix[k] \in Operators PROVE infix[k - 1] \notin Operators
    OBVIOUS
  <2>1. k \in 1 .. n /\ k - 1 \in 1 .. n - 1 /\ k - 1 \in 1 .. n /\ (k - 1) + 1 = k
    BY <1>1
  <2> QED
    BY <1>5, <2>1
<1> HIDE DEF n, p, q
<1>8. CASE /\ i \in 1 .. n /\ i' = i + 1 /\ infix[i] \in Operands
           /\ postfix' = Append(postfix, i) /\ stack' = stack
  <2>1. infix[i] \notin Operators
    BY <1>5, <1>8
  <2>2. \A k \in 1 .. i : k \in 1 .. i - 1 \/ k = i
    BY <1>1
  <2>3. (i + 1) - 1 = i /\ (i + 1) - 2 = i - 1
    BY <1>1
  <2>4. Weakest'
    <3>1. \A k \in 1 .. i' - 1 : infix[k] \in Operators => k \in 1 .. i - 1
      BY <1>8, <2>1, <2>2, <2>3
    <3>2. ASSUME NEW k \in 1 .. i' - 1, infix[k] \in Operators
          PROVE  stack # <<>> /\ Binding[infix[stack[1]]] <= Binding[infix[k]]
      BY <1>1, <1>2, <1>8, <2>1, <3>1, <3>2 DEF Weakest
    <3> QED
      BY <1>3, <1>8, <3>2 DEF Weakest
  <2>5. Newest'
    <3>1. i - 1 \in DOMAIN infix /\ infix[i - 1] \in Operators => stack # <<>> /\ Top = i - 1
      BY <1>2 DEF Newest
    <3>2. Top' = Top
      BY <1>8 DEF Top
    <3>3. i' - 1 = i /\ i' - 2 = i - 1
      BY <1>8, <2>3
    <3> QED
      BY <1>3, <1>8, <2>1, <3>1, <3>2, <3>3 DEF Newest
  <2>6. Late'
    <3>1. SUFFICES ASSUME NEW k \in DOMAIN infix, NEW m \in DOMAIN infix,
                          Misleads(infix, k, m), m + 2 < i + 1,
                          NEW a \in DOMAIN postfix', postfix'[a] = m
                   PROVE  \E b \in DOMAIN postfix' : b < a /\ postfix'[b] = m + 2
      BY <1>3, <1>8 DEF Late
    <3>2. /\ DOMAIN postfix' = 1 .. p + 1
          /\ \A b \in 1 .. p : postfix'[b] = postfix[b]
          /\ postfix'[p + 1] = i
          /\ \A b \in 1 .. p + 1 : b \in 1 .. p \/ b = p + 1
      BY <1>8, Emitted DEF p, n
    <3>3. m # i /\ m + 2 # i /\ m \in 1 .. n
      BY <1>1, <2>1, <3>1 DEF Misleads
    <3>4. a \in 1 .. p
      BY <3>1, <3>2, <3>3
    <3>5. m + 2 < i
      BY <1>1, <3>1, <3>3
    <3>6. PICK b \in 1 .. p : b < a /\ postfix[b] = m + 2
      BY <1>1, <1>2, <3>1, <3>2, <3>4, <3>5 DEF Late
    <3>7. b \in 1 .. p + 1
      BY <1>1
    <3> QED
      BY <3>2, <3>6, <3>7
  <2> QED
    BY <2>4, <2>5, <2>6
<1>9. CASE /\ i \in 1 .. n /\ i' = i + 1 /\ infix[i] \in Operators
           /\ ~GoesFirst(infix[i])
           /\ stack' = Append(stack, i) /\ postfix' = postfix
  <2>1. /\ Len(stack') = q + 1 /\ DOMAIN stack' = 1 .. q + 1
        /\ \A a \in 1 .. q : stack'[a] = stack[a]
        /\ stack'[q + 1] = i
    BY <1>9, Pushed DEF n, q
  <2>2. stack # <<>> => Binding[infix[stack[1]]] < Binding[infix[i]]
    BY <1>9, OldestFacts DEF n
  <2>3. \A k \in 1 .. i : k \in 1 .. i - 1 \/ k = i
    BY <1>1
  <2>4. (i + 1) - 1 = i /\ (i + 1) - 2 = i - 1
    BY <1>1
  <2>5. stack' # <<>> /\ Top' = i
    <3>1. Len(stack') # 0
      BY <1>1, <2>1
    <3>2. Top' = i
      BY <2>1 DEF Top
    <3> QED
      BY <1>4, <3>1, <3>2
  <2>6. Weakest'
    <3>1. ASSUME NEW k \in 1 .. i' - 1, infix[k] \in Operators
          PROVE  Binding[infix[stack'[1]]] <= Binding[infix[k]]
      <4>1. k \in 1 .. i - 1 \/ k = i
        BY <1>9, <2>3, <2>4
      <4>2. Binding[infix[i]] \in 1 .. 3
        BY <1>6, <1>9
      <4>3. CASE q = 0
        <5>1. stack'[1] = i /\ stack = <<>>
          BY <1>4, <2>1, <4>3
        <5> QED
          BY <1>1, <1>2, <1>9, <3>1, <4>1, <4>2, <5>1 DEF Weakest
      <4>4. CASE q # 0
        <5>1. 1 \in 1 .. q
          BY <1>1, <4>4
        <5>2. stack'[1] = stack[1] /\ stack # <<>>
          BY <1>4, <2>1, <4>4, <5>1
        <5>3. Binding[infix[stack[1]]] \in 1 .. 3
          BY <1>1, <1>5, <1>6, <5>1
        <5>4. CASE k \in 1 .. i - 1
          BY <1>2, <3>1, <5>2, <5>4 DEF Weakest
        <5>5. CASE k = i
          BY <2>2, <4>2, <5>2, <5>3, <5>5
        <5> QED
          BY <4>1, <5>4, <5>5
      <4> QED
        BY <4>3, <4>4
    <3> QED
      BY <1>3, <2>5, <3>1 DEF Weakest
  <2>7. Newest'
    <3>1. i' - 1 = i /\ i' - 2 = i - 1
      BY <1>9, <2>4
    <3>2. i - 1 \in DOMAIN infix => infix[i - 1] \notin Operators
      <4>1. i - 1 \in 1 .. n => i \in 2 .. n
        BY <1>1, <1>9
      <4> QED
        BY <1>1, <1>7, <1>9, <4>1
    <3> QED
      BY <1>3, <2>5, <3>1, <3>2 DEF Newest
  <2>8. Late'
    <3>1. SUFFICES ASSUME NEW k \in DOMAIN infix, NEW m \in DOMAIN infix,
                          Misleads(infix, k, m), m + 2 < i + 1,
                          NEW a \in DOMAIN postfix, postfix[a] = m
                   PROVE  \E b \in DOMAIN postfix : b < a /\ postfix[b] = m + 2
      BY <1>3, <1>9 DEF Late
    <3>2. CASE m + 2 < i
      BY <1>2, <3>1, <3>2 DEF Late
    <3>3. CASE m + 2 = i
      <4>1. k \in 1 .. i - 1 /\ m = i - 2 /\ k \in 1 .. n /\ m \in 1 .. n
        <5>1. k < m
          BY <3>1 DEF Misleads
        <5>2. k \in 1 .. n /\ m \in 1 .. n
          BY <1>1, <3>1
        <5> QED
          BY <1>1, <3>3, <5>1, <5>2
      <4>2. /\ infix[k] \in Operators /\ infix[m] \in Operators
            /\ Binding[infix[k]] < Binding[infix[i]]
        BY <3>1, <3>3 DEF Misleads
      <4>3. Binding[infix[k]] \in 1 .. 3 /\ Binding[infix[i]] \in 1 .. 3
        BY <1>6, <1>9, <4>1, <4>2
      <4>4. stack # <<>>
        <5>1. stack = <<>> => Binding[infix[i]] <= Binding[infix[k]]
          BY <1>1, <1>2, <1>9, <4>1, <4>2 DEF Weakest
        <5> QED
          BY <4>2, <4>3, <5>1
      <4>5. 1 \in 1 .. q /\ q \in 1 .. q
        BY <1>1, <1>4, <4>4
      <4>6. ~(Binding[infix[i]] <= Binding[infix[stack[1]]])
        <5>1. Binding[infix[stack[1]]] \in 1 .. 3
          BY <1>1, <1>5, <1>6, <4>5
        <5> QED
          BY <2>2, <4>3, <4>4, <5>1
      <4>7. Top = m
        BY <1>1, <1>2, <1>9, <4>1, <4>2, <4>4, <4>6 DEF Newest
      <4>8. stack[q] = m
        BY <4>7 DEF Top, q
      <4> QED
        BY <1>1, <3>1, <4>5, <4>8 DEF PlacesInv, PlaceInv
    <3>4. m + 2 < i \/ m + 2 = i
      BY <1>1, <3>1
    <3> QED
      BY <3>2, <3>3, <3>4
  <2> QED
    BY <2>6, <2>7, <2>8
<1>10. CASE /\ i \in 1 .. n /\ i' = i /\ infix[i] \in Operators
            /\ GoesFirst(infix[i]) /\ stack # <<>>
            /\ postfix' = Append(postfix, Top) /\ stack' = Below
  <2>1. /\ q >= 1 /\ Len(stack') = q - 1
        /\ \A a \in 1 .. q - 1 : stack'[a] = stack[a]
    BY <1>10, Popped DEF q
  <2>2. Binding[infix[i]] <= Binding[infix[stack[1]]]
    BY <1>10, OldestFacts DEF n
  <2>3. stack' # <<>> => stack'[1] = stack[1]
    <3>1. stack' # <<>> => 1 \in 1 .. q - 1
      BY <1>1, <1>4, <2>1
    <3> QED
      BY <2>1, <3>1
  <2>4. Weakest'
    <3>1. ASSUME NEW k \in 1 .. i - 1, infix[k] \in Operators
          PROVE  /\ stack' # <<>> => Binding[infix[stack'[1]]] <= Binding[infix[k]]
                 /\ Binding[infix[i]] <= Binding[infix[k]]
      <4>1. Binding[infix[stack[1]]] <= Binding[infix[k]]
        BY <1>2, <1>10, <3>1 DEF Weakest
      <4>2. 1 \in 1 .. q /\ k \in 1 .. n
        BY <1>1, <2>1
      <4>3. /\ Binding[infix[stack[1]]] \in 1 .. 3 /\ Binding[infix[k]] \in 1 .. 3
            /\ Binding[infix[i]] \in 1 .. 3
        BY <1>1, <1>5, <1>6, <1>10, <3>1, <4>2
      <4> QED
        BY <2>2, <2>3, <4>1, <4>3
    <3> QED
      BY <1>3, <1>10, <3>1 DEF Weakest
  <2>5. Newest'
    <3>1. i - 1 \in DOMAIN infix => infix[i - 1] \notin Operators
      <4>1. i - 1 \in 1 .. n => i \in 2 .. n
        BY <1>1, <1>10
      <4> QED
        BY <1>1, <1>7, <1>10, <4>1
    <3>2. stack' = <<>> \/ Binding[infix[i]] <= Binding[infix[stack'[1]]]
      BY <2>2, <2>3
    <3> QED
      BY <1>3, <1>10, <3>1, <3>2 DEF Newest
  <2>6. Late'
    BY <1>2, <1>3, <1>10, LatePop
  <2> QED
    BY <2>4, <2>5, <2>6
<1>11. CASE /\ i' = i /\ i = n + 1 /\ stack # <<>>
            /\ postfix' = Append(postfix, Top) /\ stack' = Below
  <2>1. /\ q >= 1 /\ Len(stack') = q - 1
        /\ \A a \in 1 .. q - 1 : stack'[a] = stack[a]
    BY <1>11, Popped DEF q
  <2>2. stack' # <<>> => stack'[1] = stack[1]
    <3>1. stack' # <<>> => 1 \in 1 .. q - 1
      BY <1>1, <1>4, <2>1
    <3> QED
      BY <2>1, <3>1
  <2>3. i - 1 = n /\ i \notin DOMAIN infix
    BY <1>1, <1>11
  <2>4. Weakest'
    BY <1>2, <1>3, <1>11, <2>2, <2>3 DEF Weakest
  <2>5. Newest'
    BY <1>3, <1>5, <1>11, <2>3 DEF Newest
  <2>6. Late'
    BY <1>2, <1>3, <1>11, LatePop
  <2> QED
    BY <2>4, <2>5, <2>6
<1>12. \/ /\ i \in 1 .. n /\ i' = i + 1 /\ infix[i] \in Operands
          /\ postfix' = Append(postfix, i) /\ stack' = stack
       \/ /\ i \in 1 .. n /\ i' = i + 1 /\ infix[i] \in Operators
          /\ ~GoesFirst(infix[i])
          /\ stack' = Append(stack, i) /\ postfix' = postfix
       \/ /\ i \in 1 .. n /\ i' = i /\ infix[i] \in Operators
          /\ GoesFirst(infix[i]) /\ stack # <<>>
          /\ postfix' = Append(postfix, Top) /\ stack' = Below
       \/ /\ i' = i /\ i = n + 1 /\ stack # <<>>
          /\ postfix' = Append(postfix, Top) /\ stack' = Below
  BY <1>5, Moves DEF n
<1> QED
  BY <1>8, <1>9, <1>10, <1>11, <1>12

(* What may follow later may follow now.                                   *)
LEMMA ClosedLater ==
  ASSUME NEW s, NEW a \in Int, NEW b \in Int, NEW c \in Int, b <= c, Closed(s, a, b)
  PROVE  Closed(s, a, c)
BY DEF Closed

(* The result stays in order when an operator is popped that is ended.     *)
LEMMA SortPop ==
  ASSUME PlacesInv, Sorting, UNCHANGED <<infix, i>>,
         stack # <<>>, postfix' = Append(postfix, Top), stack' = Below,
         infix[Top] \in Operators, i \in DOMAIN infix => Ends(infix, Top, i)
  PROVE  Sorting'
<1>0. PICK q \in Nat : q = Len(stack)
  BY Shapes
<1>00. PICK p \in Nat : p = Len(postfix)
  BY Shapes
<1>1. /\ DOMAIN infix = 1 .. Len(infix) /\ i \in Nat
      /\ DOMAIN stack = 1 .. q /\ \A a \in 1 .. q : stack[a] \in Nat /\ stack[a] < i
      /\ DOMAIN postfix = 1 .. p /\ \A a \in 1 .. p : postfix[a] \in Nat /\ postfix[a] < i
  BY <1>0, <1>00, Shapes
<1>2. /\ q >= 1 /\ q \in 1 .. q /\ DOMAIN stack' = 1 .. q - 1
      /\ \A a \in 1 .. q - 1 : a \in 1 .. q /\ stack'[a] = stack[a]
      /\ Top = stack[q] /\ Top \in 1 .. Len(infix) /\ Top < i
  BY <1>0, Popped
<1>3. /\ DOMAIN postfix' = 1 .. p + 1
      /\ \A a \in 1 .. p : postfix'[a] = postfix[a]
      /\ postfix'[p + 1] = Top
      /\ \A a \in 1 .. p + 1 : a \in 1 .. p \/ a = p + 1
  BY <1>00, <1>2, Emitted
<1>4. /\ \A a \in 1 .. q - 1 : stack[a] < Top
      /\ \A b \in 1 .. p : postfix[b] # Top
  <2>1. \A a \in 1 .. q - 1 : a < q
    OBVIOUS
  <2> QED
    BY <1>1, <1>2, <2>1 DEF PlacesInv, PlaceInv
<1>5. /\ \A a \in 1 .. q : infix[stack[a]] \in Operators =>
           \A n \in stack[a] + 1 .. i - 1 : ~Ends(infix, stack[a], n)
      /\ \A b \in 1 .. p : i \in DOMAIN infix => Closed(infix, postfix[b], i)
      /\ \A a \in 1 .. q, b \in 1 .. p :
           postfix[b] < stack[a] => Closed(infix, postfix[b], stack[a])
      /\ \A a, b \in 1 .. p : a < b => Precedes(infix, postfix[a], postfix[b])
  BY <1>1 DEF Sorting, Sorted
<1>6. \A a \in DOMAIN stack' : infix'[stack'[a]] \in Operators =>
        \A n \in stack'[a] + 1 .. i' - 1 : ~Ends(infix', stack'[a], n)
  BY <1>2, <1>5
<1>7. \A b \in DOMAIN postfix' : i' \in DOMAIN infix' => Closed(infix', postfix'[b], i')
  <2>1. i \in DOMAIN infix => Closed(infix, Top, i)
    <3>1. i \in Top + 1 .. i
      BY <1>1, <1>2
    <3> QED
      BY <3>1 DEF Closed
  <2> QED
    BY <1>3, <1>5, <2>1
<1>8. \A a \in DOMAIN stack', b \in DOMAIN postfix' :
        postfix'[b] < stack'[a] => Closed(infix', postfix'[b], stack'[a])
  <2> SUFFICES ASSUME NEW a \in 1 .. q - 1, NEW b \in 1 .. p + 1, postfix'[b] < stack'[a]
               PROVE  Closed(infix, postfix'[b], stack'[a])
    BY <1>2, <1>3
  <2>1. stack'[a] = stack[a] /\ a \in 1 .. q /\ stack[a] \in Nat /\ Top \in Nat
    BY <1>1, <1>2
  <2>2. ~(Top < stack[a])
    BY <1>4, <2>1
  <2>3. b \in 1 .. p /\ postfix'[b] = postfix[b]
    BY <1>3, <2>1, <2>2
  <2> QED
    BY <1>5, <2>1, <2>3
<1>9. ASSUME NEW b \in 1 .. p PROVE Precedes(infix, postfix[b], Top)
  <2>1. postfix[b] \in Nat /\ Top \in Nat /\ postfix[b] < i /\ postfix[b] # Top
    BY <1>1, <1>2, <1>4
  <2>2. CASE postfix[b] < Top
    BY <1>2, <1>5, <2>2 DEF Precedes
  <2>3. CASE Top < postfix[b]
    <3>1. \A n \in Top + 1 .. postfix[b] : n \in Top + 1 .. i - 1
      BY <1>1, <2>1
    <3>2. \A n \in Top + 1 .. i - 1 : ~Ends(infix, Top, n)
      BY <1>2, <1>5
    <3>3. ~Closed(infix, Top, postfix[b])
      BY <3>1, <3>2, CharacterFacts DEF Closed
    <3> QED
      BY <2>3, <3>3 DEF Precedes
  <2> QED
    BY <2>1, <2>2, <2>3
<1>10. Sorted(infix', postfix')
  <2> SUFFICES ASSUME NEW a \in 1 .. p + 1, NEW b \in 1 .. p + 1, a < b
               PROVE  Precedes(infix, postfix'[a], postfix'[b])
    BY <1>3 DEF Sorted
  <2>1. a \in 1 .. p /\ postfix'[a] = postfix[a]
    BY <1>3
  <2>2. CASE b \in 1 .. p
    BY <1>3, <1>5, <2>1, <2>2
  <2>3. CASE b = p + 1
    BY <1>3, <1>9, <2>1, <2>3
  <2> QED
    BY <1>3, <2>2, <2>3
<1> QED
  BY <1>6, <1>7, <1>8, <1>10 DEF Sorting

(* The result stays in order when a character is read that ends no         *)
(* operator left on the stack: an operand is emitted, an operator or a     *)
(* parenthesis is pushed, or a parenthesis is dropped.                     *)
LEMMA SortRead ==
  ASSUME PlacesInv, Sorting, UNCHANGED infix, i \in 1 .. Len(infix), i' = i + 1,
         \/ infix[i] \in Operands /\ postfix' = Append(postfix, i) /\ stack' = stack
         \/ stack' = Append(stack, i) /\ postfix' = postfix
         \/ stack # <<>> /\ stack' = Below /\ postfix' = postfix,
         \A a \in DOMAIN stack : a \in DOMAIN stack' /\ infix[stack[a]] \in Operators
                                   => ~Ends(infix, stack[a], i)
  PROVE  Sorting'
<1>0. PICK q \in Nat : q = Len(stack)
  BY Shapes
<1>00. PICK p \in Nat : p = Len(postfix)
  BY Shapes
<1>1. /\ DOMAIN infix = 1 .. Len(infix) /\ i \in Nat
      /\ DOMAIN stack = 1 .. q /\ \A a \in 1 .. q : stack[a] \in Nat /\ stack[a] < i
      /\ DOMAIN postfix = 1 .. p /\ \A a \in 1 .. p : postfix[a] \in Nat /\ postfix[a] < i
  BY <1>0, <1>00, Shapes
<1>2. /\ \A a \in 1 .. q : infix[stack[a]] \in Operators =>
           \A n \in stack[a] + 1 .. i - 1 : ~Ends(infix, stack[a], n)
      /\ \A b \in 1 .. p : Closed(infix, postfix[b], i)
      /\ \A a \in 1 .. q, b \in 1 .. p :
           postfix[b] < stack[a] => Closed(infix, postfix[b], stack[a])
      /\ \A a, b \in 1 .. p : a < b => Precedes(infix, postfix[a], postfix[b])
  BY <1>1 DEF Sorting, Sorted
<1>3. \A a \in DOMAIN stack' : (a \in 1 .. q /\ stack'[a] = stack[a]) \/ stack'[a] = i
  <2>1. CASE stack' = stack
    BY <1>1, <2>1
  <2>2. CASE stack' = Append(stack, i)
    <3>1. /\ DOMAIN stack' = 1 .. q + 1
          /\ \A a \in 1 .. q : stack'[a] = stack[a]
          /\ stack'[q + 1] = i
      BY <1>0, <2>2, Pushed
    <3>2. \A a \in 1 .. q + 1 : a \in 1 .. q \/ a = q + 1
      OBVIOUS
    <3> QED
      BY <3>1, <3>2
  <2>3. CASE stack # <<>> /\ stack' = Below
    BY <1>0, <2>3, Popped
  <2> QED
    BY <2>1, <2>2, <2>3
<1>4. \A b \in DOMAIN postfix' :
        \/ b \in 1 .. p /\ postfix'[b] = postfix[b]
        \/ b = p + 1 /\ postfix'[b] = i /\ infix[i] \in Operands
  <2>1. CASE infix[i] \in Operands /\ postfix' = Append(postfix, i)
    <3>1. /\ DOMAIN postfix' = 1 .. p + 1
          /\ \A a \in 1 .. p : postfix'[a] = postfix[a]
          /\ postfix'[p + 1] = i
          /\ \A a \in 1 .. p + 1 : a \in 1 .. p \/ a = p + 1
      BY <1>00, <2>1, Emitted
    <3> QED
      BY <2>1, <3>1
  <2>2. CASE postfix' = postfix
    BY <1>1, <2>2
  <2> QED
    BY <2>1, <2>2
<1>5. (i + 1) - 1 = i /\ \A m : \A n \in m + 1 .. i : m \in Nat => n \in m + 1 .. i - 1 \/ n = i
  BY <1>1
<1>6. ASSUME NEW a \in DOMAIN stack', infix[stack'[a]] \in Operators,
             NEW n \in stack'[a] + 1 .. i
      PROVE  ~Ends(infix, stack'[a], n)
  <2>1. CASE stack'[a] = i
    <3>1. n \in i + 1 .. i
      BY <2>1
    <3> QED
      BY <1>1, <3>1
  <2>2. CASE a \in 1 .. q /\ stack'[a] = stack[a]
    <3>1. n \in stack[a] + 1 .. i - 1 \/ n = i
      BY <1>1, <1>5, <2>2
    <3>2. ~Ends(infix, stack[a], i)
      BY <1>1, <1>6, <2>2
    <3>3. \A m \in stack[a] + 1 .. i - 1 : ~Ends(infix, stack[a], m)
      BY <1>2, <1>6, <2>2
    <3> QED
      BY <2>2, <3>1, <3>2, <3>3
  <2> QED
    BY <1>3, <2>1, <2>2
<1>7. ASSUME NEW b \in DOMAIN postfix' PROVE Closed(infix, postfix'[b], i + 1)
  <2>1. CASE b \in 1 .. p /\ postfix'[b] = postfix[b]
    <3>1. postfix[b] \in Int /\ i \in Int /\ i + 1 \in Int /\ i <= i + 1
      BY <1>1, <2>1
    <3> QED
      BY <1>2, <2>1, <3>1, ClosedLater
  <2>2. CASE postfix'[b] = i /\ infix[i] \in Operands
    BY <2>2 DEF Closed
  <2> QED
    BY <1>4, <2>1, <2>2
<1>8. ASSUME NEW a \in DOMAIN stack', NEW b \in DOMAIN postfix', postfix'[b] < stack'[a]
      PROVE  Closed(infix, postfix'[b], stack'[a])
  <2>1. CASE b \in 1 .. p /\ postfix'[b] = postfix[b]
    BY <1>2, <1>3, <1>8, <2>1
  <2>2. CASE postfix'[b] = i /\ infix[i] \in Operands
    BY <2>2 DEF Closed
  <2> QED
    BY <1>4, <2>1, <2>2
<1>9. ASSUME NEW a \in DOMAIN postfix', NEW b \in DOMAIN postfix', a < b
      PROVE  Precedes(infix, postfix'[a], postfix'[b])
  <2>1. a \in 1 .. p /\ postfix'[a] = postfix[a] /\ postfix[a] < i
    <3>1. a # p + 1
      <4>1. b \in 1 .. p \/ b = p + 1
        BY <1>4
      <4> QED
        BY <1>9, <4>1
    <3> QED
      BY <1>1, <1>4, <3>1
  <2>2. CASE b \in 1 .. p /\ postfix'[b] = postfix[b]
    BY <1>2, <1>9, <2>1, <2>2
  <2>3. CASE postfix'[b] = i
    BY <1>2, <2>1, <2>3 DEF Precedes
  <2> QED
    BY <1>4, <2>2, <2>3
<1>10. i' - 1 = i
  BY <1>5
<1> QED
  BY <1>6, <1>7, <1>8, <1>9, <1>10 DEF Sorting, Sorted

(* An operator that is pushed ends no operator on the stack.               *)
LEMMA PushEndsNone ==
  ASSUME PlacesInv, LevelInv, ListInv, Sorting, Claimed,
         impl = "array" \/ ~OldestMisleads(infix),
         i \in 1 .. Len(infix), infix[i] \in Operators, ~GoesFirst(infix[i]),
         NEW a \in DOMAIN stack, infix[stack[a]] \in Operators
  PROVE  ~Ends(infix, stack[a], i)
<1>0. PICK q \in Nat : q = Len(stack)
  BY Shapes
<1>1. /\ Len(infix) \in Nat /\ DOMAIN infix = 1 .. Len(infix) /\ i \in Nat
      /\ DOMAIN stack = 1 .. q /\ \A c \in 1 .. q : stack[c] \in 1 .. Len(infix) /\ stack[c] < i
  BY <1>0, Shapes
<1>2. stack # <<>> /\ a \in 1 .. q
  BY <1>1
<1>3. /\ Top = stack[q] /\ q \in 1 .. q /\ 1 \in 1 .. q
      /\ impl = "array" /\ infix[Top] \in Operators => Binding[infix[Top]] < Binding[infix[i]]
      /\ impl = "list" => Binding[infix[stack[1]]] < Binding[infix[i]]
  BY <1>0, <1>2, OldestFacts
<1>4. \A k \in 1 .. Len(infix) : infix[k] \in Operators => Binding[infix[k]] \in 1 .. 3
  BY BindingFacts
<1>5. /\ \A c \in 0 .. q : Under(c) \in Int
      /\ \A c \in 1 .. q : Under(c) = Depth(infix, stack[c]) /\ c \in 0 .. q
  BY <1>0, UnderTypes
<1>6. /\ Under(q) = Depth(infix, i - 1)
      /\ \A c \in 1 .. q : infix[stack[c]] \in Operators \cup {"("}
      /\ \A c \in 0 .. q : c < q => Under(c) <= Under(q) /\ (infix[stack[q]] = "(" => Under(c) < Under(q))
  <2>1. q \in 0 .. q
    BY <1>1
  <2> QED
    BY <1>0, <1>1, <2>1 DEF LevelInv, Levels
<1>7. Depth(infix, i) = Under(q)
  BY <1>6, Shapes, Depths DEF Claimed
<1>8. SUFFICES ASSUME Ends(infix, stack[a], i) PROVE FALSE
  OBVIOUS
<1>9. a < q \/ a = q
  BY <1>2
<1>10. Under(a) <= Under(q) /\ Under(a) \in Int /\ Under(q) \in Int
  BY <1>2, <1>3, <1>5, <1>6, <1>9
<1>11. Under(a) = Under(q) /\ Binding[infix[i]] <= Binding[infix[stack[a]]]
  <2>1. ~(Depth(infix, i) < Depth(infix, stack[a]))
    BY <1>2, <1>5, <1>7, <1>10
  <2> QED
    BY <1>2, <1>5, <1>7, <1>8, <2>1 DEF Ends
<1>12. infix[Top] \in Operators
  <2>1. infix[stack[q]] # "("
    <3>1. CASE a = q
      BY <3>1, CharacterFacts
    <3>2. CASE a < q
      BY <1>2, <1>5, <1>6, <1>10, <1>11, <3>2
    <3> QED
      BY <1>9, <3>1, <3>2
  <2> QED
    BY <1>3, <1>6, <2>1
<1>13. /\ Binding[infix[i]] \in 1 .. 3 /\ Binding[infix[Top]] \in 1 .. 3
       /\ Binding[infix[stack[a]]] \in 1 .. 3
  BY <1>1, <1>2, <1>3, <1>4, <1>12
<1>14. Binding[infix[i]] <= Binding[infix[Top]]
  <2>1. CASE a = q
    BY <1>3, <1>11, <2>1
  <2>2. CASE a < q
    <3>1. stack[a] < Top /\ Top \in stack[a] + 1 .. i - 1
      <4>1. stack[a] < stack[q]
        BY <1>1, <1>2, <1>3, <2>2 DEF PlacesInv, PlaceInv
      <4> QED
        BY <1>1, <1>2, <1>3, <4>1
    <3>2. ~Ends(infix, stack[a], Top)
      BY <3>1 DEF Sorting
    <3>3. Depth(infix, Top) = Depth(infix, stack[a])
      BY <1>2, <1>3, <1>5, <1>11
    <3>4. ~(Binding[infix[Top]] <= Binding[infix[stack[a]]])
      BY <1>12, <3>2, <3>3 DEF Ends
    <3> QED
      BY <1>11, <1>13, <3>4
  <2> QED
    BY <1>9, <2>1, <2>2
<1>15. impl = "list"
  <2>1. impl # "array"
    BY <1>3, <1>12, <1>13, <1>14
  <2> QED
    BY <2>1 DEF PlacesInv, TypeOK
<1>16. /\ \A k \in 1 .. Len(infix) : ~(infix[k] \in Operands /\ infix[k] \in Operators)
       /\ \A k \in 1 .. Len(infix) - 1 : infix[k] \in Operands \/ infix[k + 1] \in Operands
       /\ \A k \in 1 .. Len(infix) - 1 : infix[k] \in Operators \/ infix[k + 1] \in Operators
       /\ infix[stack[1]] \in Operators
  BY <1>3, <1>15, <1>0, PlainFacts
<1>17. Top \in 1 .. Len(infix) /\ Top < i /\ stack[1] \in 1 .. Len(infix)
  BY <1>1, <1>3
<1>18. Top # i - 1
  <2>1. ASSUME Top = i - 1 PROVE FALSE
    <3>1. /\ Top \in 1 .. Len(infix) - 1 /\ Top + 1 = i
      BY <1>1, <1>17, <2>1
    <3> QED
      BY <1>12, <1>16, <1>17, <3>1
  <2> QED
    BY <2>1
<1>19. infix[i - 2] \in Operators /\ i - 2 \in 1 .. Len(infix)
  <2>1. /\ i - 2 \in 1 .. Len(infix) - 1 /\ i - 1 \in 1 .. Len(infix) - 1 /\ i - 1 \in 1 .. Len(infix)
        /\ (i - 2) + 1 = i - 1 /\ (i - 1) + 1 = i /\ i - 2 \in 1 .. Len(infix)
    BY <1>1, <1>17, <1>18
  <2>2. infix[i - 1] \in Operands
    <3>1. infix[i - 1] \in Operands \/ infix[(i - 1) + 1] \in Operands
      BY <1>16, <2>1
    <3> QED
      BY <1>16, <2>1, <3>1
  <2>3. infix[i - 2] \in Operators \/ infix[(i - 2) + 1] \in Operators
    BY <1>16, <2>1
  <2> QED
    BY <1>16, <2>1, <2>2, <2>3
<1>20. Binding[infix[stack[1]]] \in 1 .. 3 /\ Binding[infix[stack[1]]] < Binding[infix[i]]
  BY <1>3, <1>4, <1>15, <1>16, <1>17
<1>21. Top = i - 2
  <2>1. ~(Binding[infix[i]] <= Binding[infix[stack[1]]])
    BY <1>13, <1>20
  <2> QED
    BY <1>1, <1>2, <1>15, <1>19, <2>1 DEF ListInv, Newest
<1>22. stack[1] < Top
  <2>1. 1 # q
    <3>1. Binding[infix[stack[1]]] # Binding[infix[Top]]
      BY <1>13, <1>14, <1>20
    <3> QED
      BY <1>3, <3>1
  <2>2. 1 < q
    BY <1>3, <2>1
  <2> QED
    BY <1>1, <1>3, <2>2 DEF PlacesInv, PlaceInv
<1>23. Top + 2 = i
  BY <1>1, <1>21
<1>24. OldestMisleads(infix)
  BY <1>1, <1>12, <1>14, <1>16, <1>17, <1>20, <1>22, <1>23 DEF OldestMisleads
<1> QED
  BY <1>15, <1>24

LEMMA SortStep ==
  ASSUME PlacesInv, LevelInv, ListInv, Sorting, Claimed,
         impl = "array" \/ ~OldestMisleads(infix), Next
  PROVE  Sorting'
<1>0. PICK q \in Nat : q = Len(stack)
  BY Shapes
<1>1. /\ Len(infix) \in Nat /\ DOMAIN infix = 1 .. Len(infix) /\ i \in Nat
      /\ DOMAIN stack = 1 .. q /\ \A a \in 1 .. q : stack[a] \in 1 .. Len(infix)
  BY <1>0, Shapes
<1>2. UNCHANGED <<impl, infix>>
  BY Moves
<1>3. Levels
  BY DEF LevelInv
<1>4. /\ \A a \in 0 .. q : Under(a) \in Int
      /\ \A a \in 1 .. q : Under(a) = Depth(infix, stack[a]) /\ a \in 0 .. q
  BY <1>0, UnderTypes
<1>5. /\ Under(q) = Depth(infix, i - 1)
      /\ \A a \in 0 .. q : a < q => Under(a) <= Under(q) /\ (infix[stack[q]] = "(" => Under(a) < Under(q))
  <2>1. q \in 0 .. q
    BY <1>1
  <2> QED
    BY <1>0, <1>3, <2>1 DEF Levels
<1>6. ASSUME i \in 1 .. Len(infix)
      PROVE  /\ Depth(infix, i) \in Int /\ Depth(infix, i - 1) \in Int
             /\ infix[i] = "(" => Depth(infix, i) = Depth(infix, i - 1) + 1
             /\ infix[i] = ")" => Depth(infix, i) = Depth(infix, i - 1) - 1
             /\ infix[i] \in Operands \cup Operators => Depth(infix, i) = Depth(infix, i - 1)
  BY <1>6, Shapes, Depths DEF Claimed
<1>7. \A a \in 1 .. q : Under(a) <= Depth(infix, i - 1)
  <2> SUFFICES ASSUME NEW a \in 1 .. q PROVE Under(a) <= Under(q)
    BY <1>5
  <2>1. CASE a = q
    BY <1>4, <2>1
  <2>2. CASE a < q
    BY <1>4, <1>5, <2>2
  <2> QED
    BY <2>1, <2>2
(* What is neither an operator nor less deep ends no operator.             *)
<1>8. ASSUME NEW a \in 1 .. q, infix[i] \notin Operators, Under(a) <= Depth(infix, i),
             Depth(infix, i) \in Int
      PROVE  ~Ends(infix, stack[a], i)
  <2>1. ~(Depth(infix, i) < Depth(infix, stack[a]))
    BY <1>4, <1>8
  <2> QED
    BY <1>8, <2>1 DEF Ends
<1>9. CASE /\ i \in 1 .. Len(infix) /\ i' = i + 1 /\ infix[i] \in Operands
           /\ postfix' = Append(postfix, i) /\ stack' = stack
  <2>1. infix[i] \notin Operators
    BY <1>9, CharacterFacts
  <2>2. Depth(infix, i) = Depth(infix, i - 1) /\ Depth(infix, i) \in Int
    BY <1>6, <1>9
  <2>3. \A a \in 1 .. q : ~Ends(infix, stack[a], i)
    BY <1>7, <1>8, <2>1, <2>2
  <2> QED
    BY <1>1, <1>2, <1>9, <2>3, SortRead
<1>10. CASE /\ i \in 1 .. Len(infix) /\ i' = i + 1 /\ infix[i] = "("
            /\ stack' = Append(stack, i) /\ postfix' = postfix
  <2>1. infix[i] \notin Operators
    BY <1>10, CharacterFacts
  <2>2. Depth(infix, i) = Depth(infix, i - 1) + 1 /\ Depth(infix, i) \in Int /\ Depth(infix, i - 1) \in Int
    BY <1>6, <1>10
  <2>3. \A a \in 1 .. q : Under(a) <= Depth(infix, i)
    BY <1>4, <1>7, <2>2
  <2>4. \A a \in 1 .. q : ~Ends(infix, stack[a], i)
    BY <1>8, <2>1, <2>2, <2>3
  <2> QED
    BY <1>1, <1>2, <1>10, <2>4, SortRead
<1>11. CASE /\ i \in 1 .. Len(infix) /\ i' = i + 1 /\ infix[i] \in Operators
            /\ ~GoesFirst(infix[i])
            /\ stack' = Append(stack, i) /\ postfix' = postfix
  <2>1. \A a \in DOMAIN stack : infix[stack[a]] \in Operators => ~Ends(infix, stack[a], i)
    BY <1>11, PushEndsNone
  <2> QED
    BY <1>2, <1>11, <2>1, SortRead
<1>12. CASE /\ i \in 1 .. Len(infix) /\ i' = i /\ infix[i] \in Operators
            /\ GoesFirst(infix[i]) /\ stack # <<>>
            /\ postfix' = Append(postfix, Top) /\ stack' = Below
  <2>1. /\ Top = stack[q] /\ q \in 1 .. q /\ 1 \in 1 .. q
        /\ infix[Top] \in Operators
        /\ impl = "array" => Binding[infix[i]] <= Binding[infix[Top]]
        /\ impl = "list" => Binding[infix[i]] <= Binding[infix[stack[1]]]
    BY <1>0, <1>12, OldestFacts
  <2>2. Depth(infix, i) = Depth(infix, Top)
    BY <1>4, <1>5, <1>6, <1>12, <2>1
  <2>3. Binding[infix[i]] <= Binding[infix[Top]]
    <3>1. CASE impl = "array"
      BY <2>1, <3>1
    <3>2. CASE impl = "list"
      <4>1. Top \in 1 .. i - 1
        BY <1>12, Popped
      <4>2. Binding[infix[stack[1]]] <= Binding[infix[Top]]
        BY <1>12, <2>1, <3>2, <4>1 DEF ListInv, Weakest
      <4>3. infix[stack[1]] \in Operators
        BY <1>0, <2>1, <3>2, PlainFacts
      <4>4. /\ Binding[infix[stack[1]]] \in 1 .. 3 /\ Binding[infix[Top]] \in 1 .. 3
            /\ Binding[infix[i]] \in 1 .. 3
        BY <1>12, <2>1, <4>3, BindingFacts
      <4> QED
        BY <2>1, <3>2, <4>2, <4>4
    <3>3. impl \in {"array", "list"}
      BY DEF PlacesInv, TypeOK
    <3> QED
      BY <3>1, <3>2, <3>3
  <2>4. Ends(infix, Top, i)
    BY <1>12, <2>2, <2>3 DEF Ends
  <2> QED
    BY <1>2, <1>12, <2>1, <2>4, SortPop
<1>13. CASE /\ i \in 1 .. Len(infix) /\ i' = i /\ infix[i] = ")"
            /\ stack # <<>> /\ infix[Top] # "(" /\ impl = "array"
            /\ postfix' = Append(postfix, Top) /\ stack' = Below
  <2>1. infix[Top] \in Operators
    BY <1>3, <1>13, BelowTop
  <2>2. Top = stack[q] /\ q \in 1 .. q
    BY <1>0, <1>13, Popped
  <2>3. Depth(infix, i) < Depth(infix, Top)
    BY <1>4, <1>5, <1>6, <1>13, <2>2
  <2>4. Ends(infix, Top, i)
    BY <2>3 DEF Ends
  <2> QED
    BY <1>2, <1>13, <2>1, <2>4, SortPop
<1>14. CASE /\ i \in 1 .. Len(infix) /\ i' = i + 1 /\ infix[i] = ")"
            /\ stack # <<>> /\ infix[Top] = "(" /\ impl = "array"
            /\ stack' = Below /\ postfix' = postfix
  <2>1. infix[i] \notin Operators
    BY <1>14, CharacterFacts
  <2>2. Depth(infix, i) = Depth(infix, i - 1) - 1 /\ Depth(infix, i) \in Int /\ Depth(infix, i - 1) \in Int
    BY <1>6, <1>14
  <2>3. DOMAIN stack' = 1 .. q - 1 /\ Top = stack[q]
    BY <1>0, <1>14, Popped
  <2>4. \A a \in 1 .. q - 1 : a \in 1 .. q /\ ~Ends(infix, stack[a], i)
    <3> SUFFICES ASSUME NEW a \in 1 .. q - 1 PROVE a \in 1 .. q /\ ~Ends(infix, stack[a], i)
      OBVIOUS
    <3>1. a \in 1 .. q /\ a \in 0 .. q /\ a < q
      BY <1>1
    <3>2. Under(a) < Depth(infix, i - 1) /\ Under(a) \in Int
      BY <1>4, <1>5, <1>14, <2>3, <3>1
    <3>3. Under(a) <= Depth(infix, i)
      BY <2>2, <3>2
    <3> QED
      BY <1>8, <2>1, <2>2, <3>1, <3>3
  <2> QED
    BY <1>1, <1>2, <1>14, <2>3, <2>4, SortRead
<1>15. CASE /\ i' = i /\ i = Len(infix) + 1 /\ stack # <<>>
            /\ postfix' = Append(postfix, Top) /\ stack' = Below
  <2>1. i - 1 = Len(infix) /\ Depth(infix, Len(infix)) = 0
    BY <1>1, <1>15, Shapes, Depths DEF Claimed
  <2>2. infix[Top] \in Operators
    BY <1>3, <1>15, <2>1, BelowTop
  <2>3. i \notin DOMAIN infix
    BY <1>1, <1>15
  <2> QED
    BY <1>2, <1>15, <2>2, <2>3, SortPop
<1> QED
  BY <1>9, <1>10, <1>11, <1>12, <1>13, <1>14, <1>15, Moves

-----------------------------------------------------------------------------
(* All that is invariant of the conversion.                                *)
ConvertInv == PlacesInv /\ LevelInv /\ ListInv /\ SortInv

LEMMA ConvertInit == Init => ConvertInv
<1> SUFFICES ASSUME Init PROVE ConvertInv
  OBVIOUS
<1>1. PlacesInv
  BY InitTypes DEF Init, PlacesInv, PlaceInv, OperandInv, OperatorInv
<1>2. /\ i = 1 /\ stack = <<>> /\ postfix = <<>> /\ Len(stack) = 0
      /\ DOMAIN stack = {} /\ DOMAIN postfix = {}
  BY DEF Init
<1>3. 1 - 1 = 0 /\ 1 .. 0 = {} /\ 0 .. 0 = {0}
  OBVIOUS
<1>4. infix \in Seq(Characters) /\ DOMAIN infix = 1 .. Len(infix) /\ Len(infix) \in Nat
  BY <1>1, Shapes
<1>5. Levels
  <2>1. Depth(infix, 0) = 0
    BY <1>4, DepthFacts
  <2>2. Under(0) = 0
    BY DEF Under
  <2>3. \A a, b \in {0} : ~(a < b)
    OBVIOUS
  <2> QED
    BY <1>2, <1>3, <2>1, <2>2, <2>3 DEF Levels
<1>6. Weakest /\ Newest /\ Late
  <2>1. Weakest
    BY <1>2, <1>3 DEF Weakest
  <2>2. Newest
    <3>1. i - 1 \notin DOMAIN infix /\ i - 2 \notin DOMAIN infix
      BY <1>2, <1>4
    <3> QED
      BY <3>1 DEF Newest
  <2>3. Late
    BY <1>2 DEF Late
  <2> QED
    BY <2>1, <2>2, <2>3
<1>7. Sorting
  BY <1>2 DEF Sorting, Sorted
<1> QED
  BY <1>1, <1>5, <1>6, <1>7 DEF ConvertInv, LevelInv, ListInv, SortInv

LEMMA ConvertStep == ConvertInv /\ [Next]_vars => ConvertInv'
<1> SUFFICES ASSUME ConvertInv, [Next]_vars PROVE ConvertInv'
  OBVIOUS
<1>1. PlacesInv /\ LevelInv /\ ListInv /\ SortInv
  BY DEF ConvertInv
<1>2. PlacesInv' /\ TypeOK'
  BY <1>1, PlacesStep DEF PlacesInv
<1>3. CASE Next
  <2>1. UNCHANGED <<impl, infix>>
    BY <1>1, <1>3, Movements DEF PlacesInv
  <2>2. Claimed' = Claimed
    BY <2>1 DEF Claimed
  <2>3. ASSUME Claimed PROVE Levels'
    BY <1>1, <1>3, <2>3, LevelStep
  <2>4. ASSUME Claimed, impl = "list" PROVE Weakest' /\ Newest' /\ Late'
    BY <1>1, <1>2, <1>3, <2>4, ListStep
  <2>5. ASSUME Claimed, impl = "array" \/ ~OldestMisleads(infix) PROVE Sorting'
    <3>1. Sorting
      BY <1>1, <2>5 DEF SortInv
    <3> QED
      BY <1>1, <1>3, <2>5, <3>1, SortStep
  <2>6. LevelInv'
    BY <2>2, <2>3 DEF LevelInv
  <2>7. ListInv'
    BY <2>1, <2>2, <2>4 DEF ListInv
  <2>8. SortInv'
    BY <2>1, <2>2, <2>5 DEF SortInv
  <2> QED
    BY <1>2, <2>6, <2>7, <2>8 DEF ConvertInv
<1>4. CASE UNCHANGED vars
  <2>1. UNCHANGED impl /\ UNCHANGED infix /\ UNCHANGED i /\ UNCHANGED stack /\ UNCHANGED postfix
    BY <1>4 DEF vars
  <2>2. Claimed' = Claimed /\ \A a : Under(a)' = Under(a)
    BY <2>1 DEF Claimed, Under
  <2>3. Top' = Top
    BY <2>1 DEF Top
  <2>4. LevelInv'
    BY <1>1, <2>1, <2>2 DEF LevelInv, Levels
  <2>5. ListInv'
    BY <1>1, <2>1, <2>2, <2>3 DEF ListInv, Weakest, Newest, Late
  <2>6. SortInv'
    BY <1>1, <2>1, <2>2 DEF SortInv, Sorting
  <2> QED
    BY <1>2, <2>4, <2>5, <2>6 DEF ConvertInv
<1> QED
  BY <1>3, <1>4

(* The places of the stack and of the result stay related to the depths    *)
(* and the bindings of the characters that are read.                       *)
THEOREM ConvertInvariance == Spec => []ConvertInv
BY ConvertInit, ConvertStep, PTL DEF Spec

(* At the end the operands and operators have come out, each once.  They   *)
(* are in the order of Postorder with an array, and with a list unless the *)
(* oldest operator misleads.                                               *)
LEMMA ConvertedAll ==
  ASSUME ConvertInv, Claimed, Done
  PROVE  /\ Len(infix) \in Nat /\ DOMAIN infix = 1 .. Len(infix) /\ i = Len(infix) + 1
         /\ \A k \in 1 .. Len(infix) : infix[k] \in Operands \cup Operators => Holds(postfix, k)
         /\ InOrder(infix, 1, Len(infix), Postorder(infix))
<1>1. PlacesInv
  BY DEF ConvertInv
<1>2. /\ infix \in Seq(Characters) /\ Len(infix) \in Nat /\ DOMAIN infix = 1 .. Len(infix)
      /\ i \in 1 .. Len(infix) + 1
  BY <1>1, Shapes
<1>3. i = Len(infix) + 1 /\ i - 1 = Len(infix)
  BY <1>2 DEF Done
<1>4. \A k : ~Holds(stack, k)
  BY DEF Done, Holds
<1>5. \A k \in 1 .. Len(infix) : infix[k] \in Operands \cup Operators => Holds(postfix, k)
  BY <1>1, <1>3, <1>4 DEF PlacesInv, OperandInv, OperatorInv, Claimed
<1> QED
  BY <1>2, <1>3, <1>5, PostorderInOrder DEF Claimed

LEMMA ConvertedWell ==
  ASSUME ConvertInv, Claimed, Done, impl = "array" \/ ~OldestMisleads(infix)
  PROVE  postfix = Postorder(infix)
<1>1. /\ Len(infix) \in Nat
      /\ \A k \in 1 .. Len(infix) : infix[k] \in Operands \cup Operators => Holds(postfix, k)
      /\ InOrder(infix, 1, Len(infix), Postorder(infix))
  BY ConvertedAll
<1>2. postfix \in Seq(1 .. Len(infix))
  BY DEF ConvertInv, PlacesInv, TypeOK
<1>3. \A a \in DOMAIN postfix : infix[postfix[a]] \in Operands \cup Operators
  BY DEF ConvertInv, LevelInv, Levels
<1>4. Sorted(infix, postfix)
  BY DEF ConvertInv, SortInv, Sorting
<1>5. InOrder(infix, 1, Len(infix), postfix)
  BY <1>1, <1>2, <1>3, <1>4 DEF InOrder
<1> QED
  BY <1>1, <1>5, OrderUnique

(* Without parentheses every depth is 0.                                   *)
LEMMA PlainDepth ==
  ASSUME NEW s \in Seq(Characters), Plain(s), NEW k \in 1 .. Len(s)
  PROVE  Depth(s, k) = 0
<1>1. ASSUME NEW c \in {"(", ")"} PROVE {m \in 1 .. k : s[m] = c} = {}
  <2>1. \A m \in 1 .. k : m \in DOMAIN s
    OBVIOUS
  <2> QED
    BY <1>1, <2>1 DEF Plain
<1>2. {m \in 1 .. k : s[m] = "("} = {} /\ {m \in 1 .. k : s[m] = ")"} = {}
  BY <1>1
<1>3. Cardinality({}) = 0 /\ 0 - 0 = 0
  BY FS_EmptySet
<1> QED
  BY <1>2, <1>3 DEF Depth

(* Where the oldest misleads, the list gets the order wrong.               *)
LEMMA ConvertedIll ==
  ASSUME ConvertInv, Claimed, Done, impl = "list", OldestMisleads(infix)
  PROVE  postfix # Postorder(infix)
<1>1. /\ Len(infix) \in Nat /\ DOMAIN infix = 1 .. Len(infix) /\ i = Len(infix) + 1
      /\ \A k \in 1 .. Len(infix) : infix[k] \in Operands \cup Operators => Holds(postfix, k)
      /\ InOrder(infix, 1, Len(infix), Postorder(infix))
  BY ConvertedAll
<1>2. PICK k \in DOMAIN infix, m \in DOMAIN infix : Misleads(infix, k, m)
  BY DEF OldestMisleads, Misleads
<1>3. /\ m + 2 \in DOMAIN infix /\ infix[m] \in Operators /\ infix[m + 2] \in Operators
      /\ Binding[infix[m + 2]] <= Binding[infix[m]]
  BY <1>2 DEF Misleads
<1>4. PICK a \in DOMAIN postfix : postfix[a] = m
  BY <1>1, <1>3 DEF Holds
<1>5. m + 2 < i /\ m \in Nat
  BY <1>1, <1>3
<1>6. PICK b \in DOMAIN postfix : b < a /\ postfix[b] = m + 2
  BY <1>2, <1>4, <1>5 DEF ConvertInv, ListInv, Late
<1>7. SUFFICES ASSUME postfix = Postorder(infix) PROVE FALSE
  OBVIOUS
<1>8. Precedes(infix, m + 2, m)
  BY <1>1, <1>4, <1>6, <1>7 DEF InOrder, Sorted
<1>9. Ends(infix, m, m + 2)
  <2>1. Plain(infix) /\ infix \in Seq(Characters)
    BY Shapes DEF Claimed, ConvertInv
  <2>2. Depth(infix, m) = 0 /\ Depth(infix, m + 2) = 0
    BY <1>1, <1>3, <2>1, PlainDepth
  <2> QED
    BY <1>3, <2>2 DEF Ends
<1>10. m < m + 2 /\ m + 2 \in m + 1 .. m + 2 /\ m + 2 \in Int /\ m \in Int
  BY <1>5
<1>11. Precedes(infix, m, m + 2)
  BY <1>9, <1>10 DEF Precedes, Closed
<1> QED
  BY <1>8, <1>10, <1>11, PrecedesFacts

(* infix_to_postfix (array_operations.c:66-111) converts every well-formed *)
(* expression correctly: what it leaves behind is its postorder.           *)
THEOREM ArrayCorrect == Spec => []ArrayConverts
<1>1. ConvertInv => ArrayConverts
  BY ConvertedWell DEF ArrayConverts, Claimed
<1> QED
  BY <1>1, ConvertInvariance, PTL

(* infix_to_postfix_list (list_operations.c:89-135) converts a well-formed *)
(* expression without parentheses correctly but for exactly those where    *)
(* two operators in a row bind tighter than one before them and the first  *)
(* of them should be applied first.                                        *)
THEOREM ListCorrect == Spec => []ListConverts
<1>1. ASSUME ConvertInv PROVE ListConverts
  <2>1. SUFFICES ASSUME impl = "list", Done, Claimed
                 PROVE  postfix = Postorder(infix) <=> ~OldestMisleads(infix)
    BY DEF ListConverts, Claimed, Plain
  <2>2. ~OldestMisleads(infix) => postfix = Postorder(infix)
    BY <1>1, <2>1, ConvertedWell
  <2>3. OldestMisleads(infix) => postfix # Postorder(infix)
    BY <1>1, <2>1, ConvertedIll
  <2> QED
    BY <2>2, <2>3
<1> QED
  BY <1>1, ConvertInvariance, PTL

=============================================================================
