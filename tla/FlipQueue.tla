----------------------------- MODULE FlipQueue ------------------------------
(***************************************************************************)
(* FlipQueue (flip_queue.rs): a FlipBuffer in a reader-writer lock.  Calls *)
(* that reserve a slot hold the lock shared, the others hold it alone.     *)
(* With the borrow checker for the lock this is also FlipBuffer itself: a  *)
(* shared borrow or a &mut one.  The lock is any L: RawRwLock and is used  *)
(* through its contract, RwLock.                                           *)
(***************************************************************************)
EXTENDS FlipBuffer

VARIABLES
  mode,   \* who holds the lock, or the &mut borrow
  pc      \* pc[t]: what t does next

vars == <<flipVars, mode, pc>>

Lock == INSTANCE RwLock

TypeOK ==
  /\ FlipTypeOK
  /\ Lock!TypeOK
  /\ pc \in [Thread -> {"idle", "try_push", "push", "write", "try_pop", "pop", "read",
                        "check", "leave", "slow", "locked", "exclusive", "done"}]

Init == FlipInit /\ Lock!Init /\ pc = [t \in Thread |-> "idle"]

Goto(t, where) == pc' = [pc EXCEPT ![t] = where]

At(t, where) == pc[t] = where /\ UNCHANGED mode

-----------------------------------------------------------------------------
(* Calls that begin with self.buffer.read().                                *)
BeginPush(t, v, call) ==
  /\ pc[t] = "idle"
  /\ Lock!AcquireShared(t)
  /\ Goto(t, call)
  /\ Got(t, <<v>>)
  /\ UNCHANGED <<ring, popped, pushed, slot>>

BeginPop(t, call) ==
  /\ pc[t] = "idle"
  /\ Lock!AcquireShared(t)
  /\ Goto(t, call)
  /\ UNCHANGED flipVars

\* Gives the value back when there is no room.
TryPush(t) ==
  /\ At(t, "try_push")
  /\ pushed' = Bumped(pushed, Vacant(ring))
  /\ IF CanPush THEN /\ slot' = [slot EXCEPT ![t] = PushSlot]
                     /\ Goto(t, "write")
                     /\ UNCHANGED val
     ELSE Got(t, <<>>) /\ Goto(t, "done") /\ UNCHANGED slot
  /\ UNCHANGED <<ring, popped>>

Push(t) ==
  /\ At(t, "push")
  /\ ReservePush(t)
  /\ Goto(t, IF CanPush THEN "write" ELSE "leave")

Write(t) ==
  /\ At(t, "write")
  /\ WriteSlot(t)
  /\ Goto(t, "done")

TryPop(t) ==
  /\ At(t, "try_pop")
  /\ ReservePop(t)
  /\ Goto(t, IF CanPop THEN "read" ELSE "done")

\* Mutant: pop_sync gives up like try_pop_sync.
Pop_NoSlow(t) ==
  /\ At(t, "pop")
  /\ popped' = Bumped(popped, ring.len)
  /\ IF CanPop THEN /\ slot' = [slot EXCEPT ![t] = PopSlot]
                    /\ Goto(t, "read")
                    /\ UNCHANGED val
     ELSE Got(t, <<None>>) /\ Goto(t, "done") /\ UNCHANGED slot
  /\ UNCHANGED <<ring, pushed>>

Pop(t) ==
  /\ At(t, "pop")
  /\ ReservePop(t)
  /\ Goto(t, IF CanPop THEN "read" ELSE "check")

Read(t) ==
  /\ At(t, "read")
  /\ ReadSlot(t)
  /\ Goto(t, "done")

\* read.pushed.load(): without new pushes the queue is empty.
Check(t) ==
  /\ At(t, "check")
  /\ IF pushed = 0 THEN Got(t, <<None>>) /\ Goto(t, "done")
                   ELSE UNCHANGED val /\ Goto(t, "leave")
  /\ UNCHANGED <<ring, popped, pushed, slot>>

\* push_slow and pop_slow are called without the shared lock.
Leave(t) ==
  /\ pc[t] = "leave"
  /\ Lock!Release(t)
  /\ Goto(t, "slow")
  /\ UNCHANGED flipVars

LockSlow(t) ==
  /\ pc[t] = "slow"
  /\ Lock!AcquireExclusive(t)
  /\ Goto(t, "locked")
  /\ UNCHANGED flipVars

PushSlow(t) ==
  /\ At(t, "locked") /\ val[t] # <<>>
  /\ PushFlushed(t, val[t][1])
  /\ Goto(t, "done")

PopSlow(t) ==
  /\ At(t, "locked") /\ val[t] = <<>>
  /\ PopFlushed(t)
  /\ Goto(t, "done")

-----------------------------------------------------------------------------
(* Calls that take self.buffer.write(), or self.buffer.get_mut() through a  *)
(* &mut borrow that excludes every other caller.                            *)
BeginExclusive(t) ==
  /\ pc[t] = "idle"
  /\ Lock!AcquireExclusive(t)
  /\ Goto(t, "exclusive")
  /\ UNCHANGED flipVars

PushMut(t, v) == At(t, "exclusive") /\ PushFlushed(t, v) /\ Goto(t, "done")

PopMut(t) == At(t, "exclusive") /\ PopFlushed(t) /\ Goto(t, "done")

ClearMut(t) == At(t, "exclusive") /\ ClearFlushed(t) /\ Goto(t, "done")

Drain(t, n) == At(t, "exclusive") /\ DrainFlushed(t, n) /\ Goto(t, "done")

\* Any RingBuffer that a client can have.
ClientRings == {r \in Rings : ExactWindow(r)}

SwapBuffer(t) ==
  /\ At(t, "exclusive")
  /\ \E own \in ClientRings : SwapFlushed(t, own)
  /\ Goto(t, "done")

\* The guard is dropped, or the borrow ends, and the call returns.
Return(t) ==
  /\ pc[t] = "done"
  /\ Lock!Release(t)
  /\ Goto(t, "idle")
  /\ Got(t, <<>>)
  /\ UNCHANGED <<ring, popped, pushed, slot>>

-----------------------------------------------------------------------------
Begin(t) ==
  \/ \E v \in Value : BeginPush(t, v, "try_push") \/ BeginPush(t, v, "push")
  \/ BeginPop(t, "try_pop") \/ BeginPop(t, "pop")
  \/ BeginExclusive(t)

SharedStep(t) ==
  \/ TryPush(t) \/ Push(t) \/ Write(t) \/ TryPop(t) \/ Pop(t) \/ Read(t)
  \/ Check(t) \/ Leave(t)

ExclusiveStep(t) ==
  \/ LockSlow(t) \/ PushSlow(t) \/ PopSlow(t)
  \/ \E v \in Value : PushMut(t, v)
  \/ PopMut(t) \/ ClearMut(t) \/ SwapBuffer(t)
  \/ \E n \in 0 .. MaxCap : Drain(t, n)

Next == \E t \in Thread : Begin(t) \/ SharedStep(t) \/ ExclusiveStep(t) \/ Return(t)

Spec == Init /\ [][Next]_vars
-----------------------------------------------------------------------------
(* Properties.                                                              *)

\* "We have exclusive access to the queue at this index" (flip_queue.rs:120,
\* 156): two threads that have reserved slots, to push or to pop, never have
\* the same one, whatever counts ran over and wherever the ring wraps.
Accessing(t) == slot[t] # NoSlot
SlotsExclusive ==
  \A s, t \in Thread : Accessing(s) /\ Accessing(t) /\ slot[s] = slot[t] => s = t

\* A slot holds a value exactly if a flush will find it in the window, or a
\* thread is about to read it; and no slot of the window is still to be
\* written: no value is lost, read twice or read before it is there.
NothingLost ==
  \A i \in 0 .. ring.cap - 1 :
    LET window == Range(Window(Flushed(ring)))
        writing == \E t \in Thread : pc[t] = "write" /\ slot[t] = i
        reading == \E t \in Thread : pc[t] = "read" /\ slot[t] = i
    IN ring.array[i] # None <=> (i \in window /\ ~writing) \/ reading

\* The calls are linearizable: a push takes effect when it reserves its slot
\* or in the slow path, a pop likewise, and pop_sync answers None only if the
\* queue was empty at some moment of the call.
queued ==
  LET r == Flushed(ring)
      late(i) == {t \in Thread : pc[t] = "write" /\ slot[t] = i}
  IN [k \in 1 .. r.len |->
        LET i == Window(r)[k]
        IN IF late(i) = {} THEN ring.array[i] ELSE val[CHOOSE t \in late(i) : TRUE][1]]

answered ==
  [t \in Thread |-> CASE pc[t] = "read" -> <<ring.array[slot[t]]>>
                      [] pc[t] = "done" -> val[t]
                      [] OTHER -> <<>>]

AsFifo == INSTANCE SharedFifo WITH queue <- queued, answer <- answered
ImplementsFifo == AsFifo!Spec
=============================================================================
