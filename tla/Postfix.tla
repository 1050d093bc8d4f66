------------------------------ MODULE Postfix -------------------------------
(***************************************************************************)
(* unix-lab-02/task3/lab_4_9: an expression is converted to postfix form   *)
(* with a stack of operators, which is an array (array_operations.c) or a  *)
(* linked list (list_operations.c).                                        *)
(*                                                                         *)
(* Operands and operators are single characters.  The stack and the result *)
(* hold the places of characters in infix, not the characters, so that the *)
(* properties can tell equal ones apart.  malloc does not fail: if it did, *)
(* push_list would count an operator it did not link, and pops would later *)
(* run off the end of the list.                                            *)
(***************************************************************************)
EXTENDS Integers, Sequences, FiniteSets

CONSTANTS
  MAXSIZE,      (* the size of the stack, and of an expression with its 0  *)
  Inputs        (* the expressions a user may type                         *)

Operands == {"a"}
Operators == {"+", "*", "."}
Characters == Operands \cup Operators \cup {"(", ")"}

ASSUME PostfixAssumption ==
  /\ MAXSIZE \in Nat
  /\ \A s \in Inputs : s \in Seq(Characters) /\ Len(s) < MAXSIZE

VARIABLES
  impl,         (* infix_to_postfix or infix_to_postfix_list               *)
  infix,        (* what the user has typed                                 *)
  i,            (* the place that is read                                  *)
  stack,        (* the places of the operators on the stack                *)
  postfix       (* the places of the characters of the result              *)

vars == <<impl, infix, i, stack, postfix>>

Init ==
  /\ impl \in {"array", "list"}
  /\ infix \in Inputs
  /\ i = 1
  /\ stack = <<>>
  /\ postfix = <<>>

-----------------------------------------------------------------------------
(* Mutant: all operators alike. *)
precedence_flat(x) == IF x = "(" THEN 0 ELSE 1

precedence(x) ==
  CASE x = "(" -> 0 [] x = "+" -> 1 [] x = "*" -> 2 [] OTHER -> 3

Top == stack[Len(stack)]

(* Mutant: top is not decremented. *)
Kept == stack

Below == SubSeq(stack, 1, Len(stack) - 1)

(* The list is searched for its last element, which is the oldest.  What   *)
(* is read of an empty stack has no effect.                                *)
TopOf == IF impl = "array" THEN Top ELSE stack[1]

(* Mutant: the operator on the stack has to bind tighter. *)
GoesFirst_strictly(token) ==
  stack # <<>> /\ precedence(token) < precedence(infix[TopOf])

(* The loop condition: what is on the stack comes before token. *)
GoesFirst(token) ==
  stack # <<>> /\ precedence(token) <= precedence(infix[TopOf])

PopAndEmit ==
  /\ postfix' = Append(postfix, Top)
  /\ stack' = Below
  /\ i' = i

Push(k) == stack' = IF Len(stack) < MAXSIZE THEN Append(stack, k) ELSE stack

-----------------------------------------------------------------------------
Reads(S) == i \in DOMAIN infix /\ infix[i] \in S

Operand ==
  /\ Reads(Operands)
  /\ postfix' = Append(postfix, i)
  /\ i' = i + 1
  /\ UNCHANGED <<impl, infix, stack>>

OpenParen ==
  /\ Reads({"("})
  /\ Push(i)
  /\ i' = i + 1
  /\ UNCHANGED <<impl, infix, postfix>>

(* Is the character that is popped emitted, and the loop continued?  The   *)
(* list asks whether there is a character left, instead of whether there   *)
(* was one, and loses the one it has popped.                               *)
ClosesLoop ==
  \/ infix[Top] = "("
  \/ impl = "list" /\ Len(stack) = 1

CloseParen ==
  /\ Reads({")"})
  /\ UNCHANGED <<impl, infix>>
  /\ \/ /\ stack = <<>>
        /\ i' = i + 1
        /\ UNCHANGED <<stack, postfix>>
     \/ /\ stack # <<>>
        /\ ClosesLoop
        /\ stack' = Below
        /\ i' = i + 1
        /\ UNCHANGED postfix
     \/ /\ stack # <<>>
        /\ ~ClosesLoop
        /\ PopAndEmit

Operator ==
  /\ Reads(Operators)
  /\ UNCHANGED <<impl, infix>>
  /\ \/ /\ GoesFirst(infix[i])
        /\ PopAndEmit
     \/ /\ ~GoesFirst(infix[i])
        /\ Push(i)
        /\ i' = i + 1
        /\ UNCHANGED postfix

(* At the end of the expression whatever is left comes out. *)
Drain ==
  /\ i > Len(infix)
  /\ stack # <<>>
  /\ PopAndEmit
  /\ UNCHANGED <<impl, infix>>

Next == Operand \/ OpenParen \/ CloseParen \/ Operator \/ Drain

Spec == Init /\ [][Next]_vars

Done == i > Len(infix) /\ stack = <<>>

-----------------------------------------------------------------------------
(* What the result should be. *)

(* How many parentheses are open after the k-th character. *)
Depth(s, k) ==
  LET number(c) == Cardinality({m \in 1 .. k : s[m] = c})
  IN  number("(") - number(")")

StartsTerm(x) == x \in Operands \cup {"("}
EndsTerm(x) == x \in Operands \cup {")"}

WellFormed(s) ==
  /\ s # <<>>
  /\ StartsTerm(s[1])
  /\ EndsTerm(s[Len(s)])
  /\ \A k \in 1 .. Len(s) - 1 : EndsTerm(s[k]) = ~StartsTerm(s[k + 1])
  /\ \A k \in 1 .. Len(s) : Depth(s, k) >= 0
  /\ Depth(s, Len(s)) = 0

Binding == [o \in Operators |-> CASE o = "+" -> 1 [] o = "*" -> 2 [] o = "." -> 3]

(* The operator of s[lo .. hi] that is applied last: the last of those     *)
(* that bind least, outside of parentheses.                                *)
Outermost(s, lo, hi) ==
  LET outside == {k \in lo .. hi : s[k] \in Operators /\ Depth(s, k) = Depth(s, lo - 1)}
      weakest == {k \in outside : \A m \in outside : Binding[s[k]] <= Binding[s[m]]}
  IN  {k \in weakest : \A m \in weakest : m <= k}

(* The places of the characters of s[lo .. hi] in postorder, given those   *)
(* of its parts.                                                           *)
FromParts(s, order, lo, hi) ==
  LET last == Outermost(s, lo, hi)
      k == CHOOSE k \in last : TRUE
  IN  IF lo > hi THEN <<>>
      ELSE IF lo = hi THEN <<lo>>
      ELSE IF last = {} THEN order[<<lo + 1, hi - 1>>]
      ELSE order[<<lo, k - 1>>] \o order[<<k + 1, hi>>] \o <<k>>

(* The places of the characters of a well-formed expression in postorder.  *)
Postorder(s) ==
  LET order[r \in (1 .. Len(s) + 1) \X (0 .. Len(s))] == FromParts(s, order, r[1], r[2])
  IN  order[<<1, Len(s)>>]

-----------------------------------------------------------------------------
(* The types.  Neither the stack nor the result ever needs more room than  *)
(* there is, and every operator comes from a place that has been read.     *)
TypeOK ==
  /\ impl \in {"array", "list"}
  /\ infix \in Inputs
  /\ i \in 1 .. Len(infix) + 1
  /\ stack \in Seq(1 .. Len(infix))
  /\ postfix \in Seq(1 .. Len(infix))
  /\ Len(stack) + Len(postfix) < i

(* With an array, a well-formed expression is converted correctly. *)
ArrayConverts ==
  impl = "array" /\ Done /\ WellFormed(infix) => postfix = Postorder(infix)

(* The list compares with the oldest operator on the stack instead of the  *)
(* newest.  That does not do when two operators in a row bind tighter than *)
(* one before them and the first of them should be applied first.          *)
OldestMisleads(s) ==
  \E k, m \in DOMAIN s :
    /\ k < m /\ m + 2 \in DOMAIN s
    /\ {s[k], s[m], s[m + 2]} \subseteq Operators
    /\ Binding[s[k]] < Binding[s[m + 2]]
    /\ Binding[s[m + 2]] <= Binding[s[m]]

(* With a list, a well-formed expression without parentheses is converted  *)
(* correctly but for exactly these.                                        *)
ListConverts ==
  /\ impl = "list" /\ Done /\ WellFormed(infix)
  /\ \A k \in DOMAIN infix : infix[k] \notin {"(", ")"}
  => (postfix = Postorder(infix) <=> ~OldestMisleads(infix))

=============================================================================
