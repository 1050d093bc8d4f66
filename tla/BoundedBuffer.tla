--------------------------- MODULE BoundedBuffer ----------------------------
(* What producers and consumers are for: a first-in-first-out buffer of    *)
(* limited capacity, whose letters come out in the order they went in.     *)
EXTENDS Integers, Sequences

CONSTANTS
  Letters,
  Capacity

VARIABLES
  buffer,     (* the letters put in and not taken out *)
  out         (* the letters taken out                *)

bbvars == <<buffer, out>>

Init ==
  /\ buffer = <<>>
  /\ out = <<>>

Put(letter) ==
  /\ Len(buffer) < Capacity
  /\ buffer' = Append(buffer, letter)
  /\ UNCHANGED out

Get ==
  /\ buffer # <<>>
  /\ out' = Append(out, Head(buffer))
  /\ buffer' = Tail(buffer)

Next == Get \/ \E letter \in Letters : Put(letter)

Spec == Init /\ [][Next]_bbvars

=============================================================================
