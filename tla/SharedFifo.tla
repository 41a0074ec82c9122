----------------------------- MODULE SharedFifo -----------------------------
(***************************************************************************)
(* What a FlipQueue promises: one queue for all threads, each call on it   *)
(* taking effect at one moment between its beginning and its end.          *)
(***************************************************************************)
EXTENDS Naturals, Sequences

CONSTANTS Thread, Value, None   \* None: the answer of a pop that finds nothing

VARIABLES
  queue,
  answer    \* answer[t]: what the call of t has taken out and not yet returned

Init == queue = <<>> /\ answer = [t \in Thread |-> <<>>]

Push(v) == queue' = Append(queue, v) /\ UNCHANGED answer

Pop(t) ==
  /\ answer[t] = <<>> /\ queue # <<>>
  /\ answer' = [answer EXCEPT ![t] = <<Head(queue)>>]
  /\ queue' = Tail(queue)

FindEmpty(t) ==
  /\ answer[t] = <<>> /\ queue = <<>>
  /\ answer' = [answer EXCEPT ![t] = <<None>>]
  /\ UNCHANGED queue

\* Takes n values, and throws the rest away or leaves it.
Drain(t, n) ==
  /\ answer[t] = <<>>
  /\ answer' = [answer EXCEPT ![t] = SubSeq(queue, 1, n)]
  /\ queue' \in {<<>>, SubSeq(queue, n + 1, Len(queue))}

\* Takes everything and leaves what it has brought.
Swap(t) ==
  /\ answer[t] = <<>>
  /\ answer' = [answer EXCEPT ![t] = queue]
  /\ queue' \in Seq(Value)

Return(t) == answer' = [answer EXCEPT ![t] = <<>>] /\ UNCHANGED queue

Next ==
  \/ \E v \in Value : Push(v)
  \/ \E t \in Thread : \/ Pop(t) \/ FindEmpty(t) \/ Swap(t) \/ Return(t)
                       \/ \E n \in 0 .. Len(queue) : Drain(t, n)

Spec == Init /\ [][Next]_<<queue, answer>>
=============================================================================
