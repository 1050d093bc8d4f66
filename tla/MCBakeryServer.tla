--------------------------- MODULE MCBakeryServer ---------------------------
(* The bakery server with three slots instead of thirty: three customers   *)
(* in every order of taking a number, queueing and collecting.             *)
EXTENDS BakeryServer

MCN == 3

=============================================================================
