------------------------- MODULE MCProducerConsumer -------------------------
(* Two producers and two consumers with a buffer of two, and letters that  *)
(* wrap around.                                                            *)
EXTENDS ProducerConsumer

CONSTANTS p1, p2, c1, c2

MCProducers == {p1, p2}
MCConsumers == {c1, c2}

=============================================================================
