----------------------------- MODULE RingBuffer -----------------------------
(***************************************************************************)
(* RingBuffer (ring_buffer.rs): the sequential calls on a Ring, its Drain, *)
(* and the two iterators Iter and IterMut, which walk over the two slices  *)
(* that the values make in the array.                                      *)
(***************************************************************************)
EXTENDS Ring

VARIABLES
  ring,
  out,      \* what the last pop or drain step returned
  user,     \* who borrows the buffer: nobody, a Drain or an iterator
  front,    \* Iter.front and Iter.back: the slots that they have left
  back,
  yield,    \* the slot that the last call of the iterator returned
  rest,     \* history: the slots that an iterator over all values has left
  expect    \* history: the slot that it would have returned

iterator == <<front, back, yield, rest, expect>>
vars == <<ring, out, user, iterator>>

NoSlot == -1

Slot == 0 .. ring.cap - 1

TypeOK ==
  /\ ring \in Rings
  /\ out \in Value \cup {None}
  /\ user \in {"none", "drain", "iter"}
  /\ front \in Seq(Slot) /\ back \in Seq(Slot) /\ rest \in Seq(Slot)
  /\ yield \in Slot \cup {NoSlot} /\ expect \in Slot \cup {NoSlot}

NoIterator == /\ front = <<>> /\ back = <<>> /\ rest = <<>>
              /\ yield = NoSlot /\ expect = NoSlot

\* Vec::with_capacity may allocate more than it is asked for.
Init ==
  /\ ring \in {WithCapacity(c) : c \in 0 .. MaxCap}
  /\ out = None
  /\ user = "none"
  /\ NoIterator

-----------------------------------------------------------------------------
\* Mutant: the last slot is taken for a free one when there is none.
Push_Full(v) ==
  /\ user = "none"
  /\ ring' \in IF ring.cap > 0 THEN {Stored(ring, v)} ELSE AfterPush(ring, v)
  /\ UNCHANGED <<out, user, iterator>>

Push(v) ==
  /\ user = "none"
  /\ ring' \in AfterPush(ring, v)
  /\ UNCHANGED <<out, user, iterator>>

TakeFirst == out' = First(ring) /\ ring' = AfterPop(ring)

Pop ==
  /\ user = "none"
  /\ TakeFirst
  /\ UNCHANGED <<user, iterator>>

Clear ==
  /\ user = "none"
  /\ ring' = Cleared(ring)
  /\ UNCHANGED <<out, user, iterator>>

-----------------------------------------------------------------------------
(* Drain.                                                                   *)
BeginDrain ==
  /\ user = "none"
  /\ user' = "drain"
  /\ UNCHANGED <<ring, out, iterator>>

DrainNext ==
  /\ user = "drain"
  /\ TakeFirst
  /\ UNCHANGED <<user, iterator>>

\* Drops n values, which again make two slices, and takes the next.
DrainNth(n) ==
  /\ user = "drain"
  /\ IF ring.len <= n THEN ring' = Cleared(ring) /\ out' = None
     ELSE LET front_n == IF n < ring.cap - ring.head THEN n ELSE ring.cap - ring.head
              dropped == ring.head .. ring.head + front_n - 1 \cup 0 .. n - front_n - 1
              kept == [ring EXCEPT !.array = Without(ring, dropped),
                                   !.head = RingIndex(@, n, ring.cap), !.len = @ - n]
          IN out' = First(kept) /\ ring' = AfterPop(kept)
  /\ UNCHANGED <<user, iterator>>

\* Drop for Drain, or mem::forget, which leaves what it has not taken.
EndDrain ==
  /\ user = "drain"
  /\ user' = "none"
  /\ ring' \in {ring, Cleared(ring)}
  /\ UNCHANGED <<out, iterator>>

-----------------------------------------------------------------------------
(* Iter and IterMut.  core::slice's own iterators are sequences of slots.   *)
SliceNth(s, n) ==
  [item |-> IF n < Len(s) THEN s[n + 1] ELSE NoSlot,
   left |-> SubSeq(s, n + 2, Len(s))]

SliceNthBack(s, n) ==
  [item |-> IF n < Len(s) THEN s[Len(s) - n] ELSE NoSlot,
   left |-> SubSeq(s, 1, Len(s) - n - 1)]

\* a.or(b), whose operand b has been evaluated whatever a is.
Or(a, b) == IF a # NoSlot THEN a ELSE b

\* The two slices' iterators go on from f and b, the call returns item.
Advance(f, b, item) == front' = f /\ back' = b /\ yield' = item

Reference(r) == rest' = r.left /\ expect' = r.item

BeginIter ==
  /\ user = "none"
  /\ user' = "iter"
  /\ front' = FrontSlice(ring) /\ back' = BackSlice(ring) /\ rest' = Window(ring)
  /\ UNCHANGED <<ring, out, yield, expect>>

IterNext ==
  /\ user = "iter"
  /\ LET f == SliceNth(front, 0)
         b == SliceNth(back, 0)
     IN Advance(f.left, b.left, Or(f.item, b.item))
  /\ Reference(SliceNth(rest, 0))
  /\ UNCHANGED <<ring, out, user>>

\* Mutant: the last value of the first slice is skipped with the slice.
IterNth_Skips(n) ==
  /\ user = "iter"
  /\ IF n + 1 >= Len(front)
     THEN LET f == SliceNth(front, Len(front))
              b == SliceNth(back, n - Len(f.left))
          IN Advance(f.left, b.left, b.item)
     ELSE LET f == SliceNth(front, n) IN Advance(f.left, back, f.item)
  /\ Reference(SliceNth(rest, n))
  /\ UNCHANGED <<ring, out, user>>

\* The second front.len() is that of the exhausted iterator.
IterNth(n) ==
  /\ user = "iter"
  /\ IF n >= Len(front)
     THEN LET f == SliceNth(front, Len(front))
              b == SliceNth(back, n - Len(f.left))
          IN Advance(f.left, b.left, b.item)
     ELSE LET f == SliceNth(front, n) IN Advance(f.left, back, f.item)
  /\ Reference(SliceNth(rest, n))
  /\ UNCHANGED <<ring, out, user>>

IterNextBack ==
  /\ user = "iter"
  /\ LET f == SliceNthBack(front, 0)
         b == SliceNthBack(back, 0)
     IN Advance(f.left, b.left, Or(b.item, f.item))
  /\ Reference(SliceNthBack(rest, 0))
  /\ UNCHANGED <<ring, out, user>>

IterNthBack(n) ==
  /\ user = "iter"
  /\ IF n >= Len(back)
     THEN LET b == SliceNthBack(back, Len(back))
              f == SliceNthBack(front, n - Len(b.left))
          IN Advance(f.left, b.left, f.item)
     ELSE LET b == SliceNthBack(back, n) IN Advance(front, b.left, b.item)
  /\ Reference(SliceNthBack(rest, n))
  /\ UNCHANGED <<ring, out, user>>

\* One turn of the loops of fold, for_each, all, any, find and position, and
\* of rfold, rfind and rposition.
Walk ==
  /\ user = "iter"
  /\ LET s == SliceNth(IF front = <<>> THEN back ELSE front, 0) IN
     IF front = <<>> THEN Advance(front, s.left, s.item) ELSE Advance(s.left, back, s.item)
  /\ Reference(SliceNth(rest, 0))
  /\ UNCHANGED <<ring, out, user>>

WalkBack ==
  /\ user = "iter"
  /\ LET s == SliceNthBack(IF back = <<>> THEN front ELSE back, 0) IN
     IF back = <<>> THEN Advance(s.left, back, s.item) ELSE Advance(front, s.left, s.item)
  /\ Reference(SliceNthBack(rest, 0))
  /\ UNCHANGED <<ring, out, user>>

EndIter ==
  /\ user = "iter"
  /\ user' = "none"
  /\ front' = <<>> /\ back' = <<>> /\ rest' = <<>>
  /\ yield' = NoSlot /\ expect' = NoSlot
  /\ UNCHANGED <<ring, out>>

-----------------------------------------------------------------------------
IterStep ==
  \/ IterNext \/ IterNextBack \/ Walk \/ WalkBack \/ EndIter
  \/ \E n \in 0 .. MaxCap : IterNth(n) \/ IterNthBack(n)

DrainStep == DrainNext \/ EndDrain \/ \E n \in 1 .. MaxCap : DrainNth(n)

Next ==
  \/ \E v \in Value : Push(v)
  \/ Pop \/ Clear
  \/ BeginDrain \/ DrainStep
  \/ BeginIter \/ IterStep

Spec == Init /\ [][Next]_vars
-----------------------------------------------------------------------------
(* Properties.                                                              *)

\* The slots that hold a value are those of the window, whatever wraps, grows
\* or is dropped by slices: no value is read or dropped twice and none is
\* leaked; and "head index never gets greater than or equal to array length"
\* (ring_buffer.rs:184).
WindowLive == ExactWindow(ring)

\* "Values are pushed to the end of the buffer and popped from the beginning"
\* (ring_buffer.rs:14): the buffer implements the queue, drained or not.
AsFifo == INSTANCE Fifo WITH queue <- Contents(ring)
ImplementsFifo == AsFifo!Spec

\* An iterator never returns a slot twice nor one without a value: the
\* references that IterMut gives out do not alias.
left == front \o back
IterDisjoint ==
  [][user = "iter" /\ user' = "iter" =>
       /\ yield' \in Range(left) \cup {NoSlot}
       /\ Range(left') \subseteq Range(left) \ {yield'}
       /\ Range(left) \subseteq Range(Window(ring))]_vars

\* While the values do not wrap around an iterator is the one over all of
\* them, from both ends and with steps of any length.
IterUnwrapped == ring.head + ring.len <= ring.cap => left = rest /\ yield = expect

\* RingBuffer "is reduced version of std::collections::VecDeque"
\* (ring_buffer.rs:16), whose iterators return every value.
IterComplete == left = rest /\ yield = expect
=============================================================================
