---------------------------- MODULE MCBroadcast -----------------------------
(* Values of the constants of Broadcast for TLC. *)
EXTENDS Broadcast, TLC

CONSTANTS r1, r2   \* receivers

Two == {r1, r2}
One == {r1}
AnyReceiver == Permutations(Receiver)
=============================================================================
