-------------------------------- MODULE Fifo --------------------------------
(***************************************************************************)
(* What a ring buffer promises: a queue of values, with the answer of the  *)
(* last operation that returns one.                                        *)
(***************************************************************************)
EXTENDS Naturals, Sequences

CONSTANTS Value, None

VARIABLES queue, out

Init == queue = <<>> /\ out = None

Push(v) == /\ queue' = Append(queue, v)
           /\ UNCHANGED out

\* Removes n values and then one more, which it returns if there is one.
Nth(n) == /\ out' = IF n < Len(queue) THEN queue[n + 1] ELSE None
          /\ queue' = SubSeq(queue, n + 2, Len(queue))

Clear == /\ queue' = <<>>
         /\ UNCHANGED out

Next == \/ \E v \in Value : Push(v)
        \/ \E n \in 0 .. Len(queue) : Nth(n)
        \/ Clear

Spec == Init /\ [][Next]_<<queue, out>>
=============================================================================
