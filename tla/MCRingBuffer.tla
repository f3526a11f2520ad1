----------------------------- MODULE MCRingBuffer -----------------------------
(* Model values for RingBufferLocked: two writers and two readers, of which *)
(* one of each passes two bytes and the other one.                         *)
EXTENDS RingBufferLocked

CONSTANTS w1, w2, r1, r2

Times == [t \in Thread |-> IF t \in {w1, r1} THEN 2 ELSE 1]
=============================================================================
