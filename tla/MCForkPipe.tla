----------------------------- MODULE MCForkPipe -----------------------------
(* Three children, one more than in the code. *)
EXTENDS ForkPipe

=============================================================================
