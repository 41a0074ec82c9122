--------------------------- MODULE MCTripleBuffer ---------------------------
(* Values of the constants of TripleBuffer, and of TripleRecv, for TLC. *)
EXTENDS TripleRecv, TLC

CONSTANTS a, b, c, d   \* values

FourValues == {a, b, c, d}
AnyValue == Permutations(FourValues)
=============================================================================
