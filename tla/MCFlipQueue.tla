---------------------------- MODULE MCFlipQueue -----------------------------
(* Values of the constants of FlipQueue for TLC. *)
EXTENDS FlipQueue, TLC

CONSTANTS u, w, t1, t2, t3   \* values and threads

TwoValues == {u, w}
Three == {t1, t2, t3}
Two == {t1, t2}
AnyOf == Permutations(TwoValues) \cup Permutations(Three)
=============================================================================
