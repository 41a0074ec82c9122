---------------------------- MODULE MCRingBuffer ----------------------------
(* Values of the constants of RingBuffer for TLC. *)
EXTENDS RingBuffer, TLC

CONSTANTS u, w   \* values

TwoValues == {u, w}
AnyValue == Permutations(TwoValues)
=============================================================================
