----------------------------- MODULE TripleRecv -----------------------------
(***************************************************************************)
(* TripleBuffer with the unsafe recv and recv_into of triple.rs as well.   *)
(***************************************************************************)
EXTENDS TripleBuffer

\* recv and recv_into: the access after the swap is to the element that was
\* the consumer's before it.
Recv ==
  /\ borrowed = NoSlot
  /\ Swap
  /\ borrowed' = IF Consumed(flags) THEN NoSlot ELSE consumer

RecvNext == Next \/ Recv

RecvSpec == Init /\ [][RecvNext]_vars

\* triple.rs:422: recv "Receives the value from the triple buffer": the
\* access that follows a successful consume is to the value it received.
RecvGetsValue ==
  borrowed # NoSlot /\ last_published => elements[borrowed] = elements[consumer]
=============================================================================
