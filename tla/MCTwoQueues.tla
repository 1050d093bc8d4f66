---------------------------- MODULE MCTwoQueues -----------------------------
(* Rings of three cells in arrays of four, and times that overload them.   *)
EXTENDS TwoQueues

OneTwo == {1, 2}
OneThree == {1, 3}

=============================================================================
