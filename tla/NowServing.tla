----------------------------- MODULE NowServing -----------------------------
(***************************************************************************)
(* What the bakery promises: customers take tickets 0, 1, 2, ...; one      *)
(* customer at a time is served, in the order of the tickets and with no   *)
(* ticket passed over; the customer with ticket t is given letter 'a' + t. *)
(***************************************************************************)
EXTENDS Integers

CONSTANT FirstLetter    (* the letter of ticket 0, a number *)

VARIABLES
  issued,     (* tickets 0 .. issued - 1 have been taken *)
  now,        (* tickets 0 .. now - 1 have been served   *)
  serving,    (* is ticket now being served?             *)
  given       (* the pairs <<ticket, letter>> given out  *)

abstract == <<issued, now, serving, given>>

Init ==
  /\ issued = 0
  /\ now = 0
  /\ serving = FALSE
  /\ given = {}

Issue ==
  /\ issued' = issued + 1
  /\ UNCHANGED <<now, serving, given>>

Serve ==
  /\ ~serving
  /\ now < issued
  /\ serving' = TRUE
  /\ given' = given \union {<<now, FirstLetter + now>>}
  /\ UNCHANGED <<issued, now>>

Leave ==
  /\ serving
  /\ serving' = FALSE
  /\ now' = now + 1
  /\ UNCHANGED <<issued, given>>

Next == Issue \/ Serve \/ Leave

Spec == Init /\ [][Next]_abstract

=============================================================================
