------------------------------ MODULE MCRwSpin ------------------------------
(* Values of the constants of RwSpin for TLC. *)
EXTENDS RwSpin, TLC

CONSTANTS r1, r2, r3, r4, r5, w1, w2   \* callers

Five == {r1, r2, r3, r4, r5}
ThreeAndTwo == {r1, r2, r3, w1, w2}

\* Every caller may call everything: callers are interchangeable.
AnyCall == [t \in Thread |-> CallKinds]
AnyOrder == Permutations(Thread)

\* Readers and writers that try or wait; r2 and w2, once they wait, never refuse.
Steadfast == {r2, w2}
OneSide == [t \in Thread |-> IF t \in {w1, w2} THEN {"try_exclusive", "lock_exclusive"}
                            ELSE {"try_shared", "lock_shared"}]
=============================================================================
