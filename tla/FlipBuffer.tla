----------------------------- MODULE FlipBuffer -----------------------------
(***************************************************************************)
(* FlipBuffer (flip_queue.rs): a ring that many threads may push to and    *)
(* pop from through a shared borrow, each in a slot reserved with one      *)
(* atomic increment.  The ring's head and length stay behind until the     *)
(* next call with an exclusive borrow flushes the two counts.              *)
(***************************************************************************)
EXTENDS Ring

CONSTANT Thread   \* the callers

VARIABLES
  ring,     \* FlipBuffer.buffer
  popped,   \* the two counts of reserved slots
  pushed,
  slot,     \* slot[t]: the slot that t has reserved and not yet accessed
  val       \* val[t]: the values that t is about to push, or got

flipVars == <<ring, popped, pushed, slot, val>>

NoSlot == -1

Vacant(r) == r.cap - r.len

\* Far fewer than 2^64 calls come between two flushes, so that a count does
\* not wrap.  Counts above their limit all fail alike: the model keeps one.
Bumped(n, limit) == IF n <= limit THEN n + 1 ELSE n

FlipTypeOK ==
  /\ ring \in Rings
  /\ popped \in 0 .. ring.len + 1
  /\ pushed \in 0 .. Vacant(ring) + 1
  /\ slot \in [Thread -> 0 .. ring.cap - 1 \cup {NoSlot}]
  /\ val \in [Thread -> Seq(Value \cup {None})]

\* new, with_capacity
FlipInit ==
  /\ ring \in {WithCapacity(c) : c \in 0 .. MaxCap}
  /\ popped = 0 /\ pushed = 0
  /\ slot = [t \in Thread |-> NoSlot]
  /\ val = [t \in Thread |-> <<>>]

-----------------------------------------------------------------------------
(* Shared borrow: push_sync and pop_sync reserve, then access their slot.   *)
CanPush == pushed < Vacant(ring)

\* Mutant: pushes go to the front of the vacant slots, whatever is reserved.
PushSlot_Same == RingIndex(ring.head, ring.len, ring.cap)

PushSlot == RingIndex(ring.head, ring.len + pushed, ring.cap)

ReservePush(t) ==
  /\ pushed' = Bumped(pushed, Vacant(ring))
  /\ slot' = IF CanPush THEN [slot EXCEPT ![t] = PushSlot] ELSE slot
  /\ UNCHANGED <<ring, popped, val>>

WriteSlot(t) ==
  /\ ring' = [ring EXCEPT !.array[slot[t]] = val[t][1]]
  /\ slot' = [slot EXCEPT ![t] = NoSlot]
  /\ val' = [val EXCEPT ![t] = <<>>]
  /\ UNCHANGED <<popped, pushed>>

CanPop == popped < ring.len

PopSlot == RingIndex(ring.head, popped, ring.cap)

ReservePop(t) ==
  /\ popped' = Bumped(popped, ring.len)
  /\ slot' = IF CanPop THEN [slot EXCEPT ![t] = PopSlot] ELSE slot
  /\ UNCHANGED <<ring, pushed, val>>

ReadSlot(t) ==
  /\ val' = [val EXCEPT ![t] = <<ring.array[slot[t]]>>]
  /\ ring' = [ring EXCEPT !.array = Without(ring, {slot[t]})]
  /\ slot' = [slot EXCEPT ![t] = NoSlot]
  /\ UNCHANGED <<popped, pushed>>

-----------------------------------------------------------------------------
(* Exclusive borrow: every call flushes first.                              *)

\* Mutant: the pushes are counted although they failed.
Flushed_Overshoot(r) ==
  LET pops == IF popped < r.len THEN popped ELSE r.len
      pushes == IF pushed < r.cap THEN pushed ELSE r.cap
      length == r.len - pops + pushes
  IN [r EXCEPT !.head = RingIndex(r.head, pops, r.cap),
               !.len = IF length < r.cap THEN length ELSE r.cap]

Flushed(r) ==
  LET pops == IF popped < r.len THEN popped ELSE r.len
      pushes == IF pushed < Vacant(r) THEN pushed ELSE Vacant(r)
  IN [r EXCEPT !.head = RingIndex(r.head, pops, r.cap), !.len = r.len - pops + pushes]

\* What a call makes of the flushed ring.
Settle(rings) ==
  /\ ring' \in rings
  /\ popped' = 0 /\ pushed' = 0
  /\ UNCHANGED slot

Got(t, values) == val' = [val EXCEPT ![t] = values]

PushFlushed(t, v) == Settle(AfterPush(Flushed(ring), v)) /\ Got(t, <<>>)

PopFlushed(t) ==
  LET r == Flushed(ring)
  IN Settle({AfterPop(r)}) /\ Got(t, <<First(r)>>)

ClearFlushed(t) == Settle({Cleared(Flushed(ring))}) /\ Got(t, <<>>)

\* The Drain takes n values and is dropped, or forgotten with the rest.
DrainFlushed(t, n) ==
  LET r == Flushed(ring)
      taken == {Window(r)[i] : i \in 1 .. n}
      kept == [r EXCEPT !.array = Without(r, taken), !.head = RingIndex(@, n, r.cap), !.len = @ - n]
  IN /\ n <= r.len
     /\ Settle({kept, Cleared(kept)})
     /\ Got(t, SubSeq(Contents(r), 1, n))

\* swap_buffer gives t the whole ring for its own.
SwapFlushed(t, own) == Settle({own}) /\ Got(t, Contents(Flushed(ring)))
=============================================================================
