------------------------------- MODULE MCSpin -------------------------------
(* Values of the constants of Spin for TLC. *)
EXTENDS Spin

CONSTANTS t1, t2, t3, t4   \* callers

Four == {t1, t2, t3, t4}
=============================================================================
