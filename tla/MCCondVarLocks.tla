--------------------------- MODULE MCCondVarLocks ---------------------------
(* Values of the constants of CondVarLocks for TLC. *)
EXTENDS CondVarLocks

\* Three nodes, aligned to 4: the states are 0 to 3.
Nodes == {4, 8, 12}
=============================================================================
