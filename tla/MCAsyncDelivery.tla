-------------------------- MODULE MCAsyncDelivery --------------------------
(* AsyncDelivery for TLC: job b belongs to owner o2 when there is one, every *)
(* other job to o1.                                                          *)
EXTENDS AsyncDelivery

CONSTANTS a, b, o1, o2

MCOwnerOf == [j \in Job |-> IF j = b /\ o2 \in Owner THEN o2 ELSE o1]
=============================================================================
