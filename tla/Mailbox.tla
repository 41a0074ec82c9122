------------------------------ MODULE Mailbox -------------------------------
(***************************************************************************)
(* What a TripleBuffer promises its two sides: a box for one value and a   *)
(* desk for one value on each side.  Publishing exchanges the producer's   *)
(* draft with the box, so that the producer gets back what nobody          *)
(* consumed; consuming empties the box onto the consumer's desk.           *)
(***************************************************************************)
CONSTANTS Value, Nothing

VARIABLES draft, box, held

cells == <<draft, box, held>>

Init == draft = Nothing /\ box = Nothing /\ held = Nothing

Write == /\ draft' \in Value
         /\ UNCHANGED <<box, held>>

Publish == /\ draft # Nothing
           /\ box' = draft
           /\ draft' = box
           /\ UNCHANGED held

Consume == /\ held' = box
           /\ box' = Nothing
           /\ UNCHANGED draft

Take == /\ held' = Nothing
        /\ UNCHANGED <<draft, box>>

\* Both sides leave and others take their desks; the box stays as it is.
Reset == /\ draft' = Nothing
         /\ held' = Nothing
         /\ UNCHANGED box

Next == Write \/ Publish \/ Consume \/ Take \/ Reset

Spec == Init /\ [][Next]_cells
=============================================================================
