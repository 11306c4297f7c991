----------------------- MODULE MCProducerConsumerQueue -----------------------
(***************************************************************************)
(* Three consumers and three values: two sleepers and a newcomer that      *)
(* overtakes a woken consumer, and pushes that find the queue non-empty.   *)
(***************************************************************************)
EXTENDS ProducerConsumerQueue

CONSTANTS c1, c2, c3, v1, v2, v3

ThreeConsumers == {c1, c2, c3}
ThreeValues == {v1, v2, v3}
=============================================================================
