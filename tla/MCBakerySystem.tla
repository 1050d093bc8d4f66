--------------------------- MODULE MCBakerySystem ---------------------------
(* The bakery with clients: all is well, or requests are lost, repeated    *)
(* and clients killed.                                                     *)
EXTENDS BakerySystem, TLC

CONSTANTS c1, c2, c3

ThreeClients == {c1, c2, c3}
TwoClients == {c1, c2}
NoCalls == {}
GetAndRes == {"get", "res"}

(* Two clients are as good as each other (safety only).                    *)
TwoSymmetric == Permutations(TwoClients)

=============================================================================
