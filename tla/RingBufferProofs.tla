-------------------------- MODULE RingBufferProofs --------------------------
(***************************************************************************)
(* Theorems about RingBuffer for every set of values, every capacity and   *)
(* every choice that the allocator may make.                               *)
(***************************************************************************)
EXTENDS RingBuffer, RingProofs

\* The iterators only walk, so that the ring alone is inductive.
IInv == ring \in Rings /\ WindowLive

-----------------------------------------------------------------------------
(* What Drain::nth drops are the first n values, in two slices.             *)
FrontN(r, n) == IF n < r.cap - r.head THEN n ELSE r.cap - r.head

Dropped(r, n) == r.head .. r.head + FrontN(r, n) - 1 \cup 0 .. n - FrontN(r, n) - 1

Kept(r, n) == Shrunk(r, Dropped(r, n), RingIndex(r.head, n, r.cap), r.len - n)

LEMMA DroppedOffset ==
  ASSUME NEW r \in Rings, HeadInside(r), NEW n \in 0 .. r.len, NEW i \in 0 .. r.cap - 1
  PROVE  i \in Dropped(r, n) <=> Offset(r, i) < n
<1>1. r.cap \in Nat /\ r.head \in 0 .. r.cap /\ r.len \in 0 .. r.cap
  BY RingFields
<1> QED
  BY <1>1 DEF Dropped, FrontN, Offset, HeadInside

LEMMA DrainNthKeeps ==
  ASSUME NEW n \in 1 .. MaxCap, DrainNth(n), ring \in Rings
  PROVE  IF ring.len <= n THEN ring' = Cleared(ring) /\ out' = None
         ELSE out' = First(Kept(ring, n)) /\ ring' = AfterPop(Kept(ring, n))
BY DEF DrainNth, Kept, Dropped, FrontN, Shrunk

LEMMA KeptFits ==
  ASSUME NEW r \in Rings, ExactWindow(r), NEW n \in 0 .. r.len
  PROVE  /\ Kept(r, n) \in Rings /\ ExactWindow(Kept(r, n)) /\ Kept(r, n).len = r.len - n
         /\ Contents(Kept(r, n)) = SubSeq(Contents(r), n + 1, Len(Contents(r)))
<1> DEFINE s == Kept(r, n)
           slots == Dropped(r, n)
<1>1. HeadInside(r) /\ \A i \in 0 .. r.cap - 1 : i \in slots <=> Offset(r, i) < n
  BY DroppedOffset, ExactOffset
<1>2. s = Shrunk(r, slots, RingIndex(r.head, n, r.cap), r.len - n)
  BY DEF Kept
<1> HIDE DEF s, slots
<1>3. s \in Rings /\ ExactWindow(s) /\ s.len = r.len - n
  BY <1>1, <1>2, DropFits
<1>4. Contents(s) = SubSeq(Contents(r), n + 1, Len(Contents(r)))
  BY <1>1, <1>2, DropContents
<1> QED
  BY <1>3, <1>4 DEF s

-----------------------------------------------------------------------------
LEMMA ExactHead ==
  ASSUME NEW r, ExactWindow(r) PROVE HeadInside(r)
BY DEF ExactWindow, HeadInside

LEMMA InitInv == Init => IInv
  BY WithCapacityFits DEF Init, IInv, WindowLive

LEMMA StepInv == IInv /\ [Next]_vars => IInv'
<1> SUFFICES ASSUME IInv, [Next]_vars PROVE IInv'
  OBVIOUS
<1> USE DEF IInv, WindowLive
<1>1. ASSUME NEW v \in Value, Push(v) PROVE IInv'
  BY <1>1, PushFits DEF Push
<1>2. CASE TakeFirst
  BY <1>2, PopFits, ExactHead DEF TakeFirst
<1>3. CASE ring' \in {ring, Cleared(ring)}
  BY <1>3, ClearFits
<1>4. ASSUME NEW n \in 1 .. MaxCap, DrainNth(n) PROVE IInv'
  <2>1. CASE ring.len <= n
    BY <1>3, <1>4, <2>1 DEF DrainNth
  <2>2. CASE ~(ring.len <= n)
    <3>1. n \in 0 .. ring.len
      BY <2>2, RingFields, CapAssumption
    <3>2. ring' = AfterPop(Kept(ring, n))
      BY <1>4, <2>2, DrainNthKeeps
    <3>3. Kept(ring, n) \in Rings /\ ExactWindow(Kept(ring, n))
      BY <3>1, KeptFits
    <3> QED
      BY <3>2, <3>3, PopFits, ExactHead
  <2> QED
    BY <2>1, <2>2
<1>5. CASE ring' = ring
  BY <1>5
<1> QED
  BY <1>1, <1>2, <1>3, <1>4, <1>5
     DEF Next, vars, Pop, Clear, BeginDrain, DrainStep, DrainNext, EndDrain, BeginIter, IterStep,
         IterNext, IterNextBack, Walk, WalkBack, EndIter, IterNth, IterNthBack

LEMMA Invariance == Spec => []IInv
  BY InitInv, StepInv, PTL DEF Spec

\* The slots with a value are those of the window, and the head stays inside
\* the array (ring_buffer.rs:184), for every capacity and any way of growing.
THEOREM WindowCorrect == Spec => []WindowLive
  BY Invariance, PTL DEF IInv

-----------------------------------------------------------------------------
(* The buffer is a queue: its steps are those of Fifo on its contents.      *)
LEMMA InitFifo == Init => AsFifo!Init
<1> SUFFICES ASSUME Init PROVE AsFifo!Init
  OBVIOUS
<1>1. PICK c \in 0 .. MaxCap : ring = WithCapacity(c)
  BY DEF Init
<1>2. ring \in Rings /\ ring.len = 0
  BY <1>1, WithCapacityFits DEF WithCapacity
<1> QED
  BY <1>2, ContentsElements, EmptySeq DEF Init, AsFifo!Init

LEMMA TakeFirstPops ==
  ASSUME IInv, TakeFirst
  PROVE  AsFifo!Nth(0)
<1>1. HeadInside(ring) /\ ring \in Rings
  BY ExactHead DEF IInv, WindowLive
<1>2. Contents(ring') = SubSeq(Contents(ring), 0 + 2, Len(Contents(ring)))
  BY <1>1, PopContents DEF TakeFirst
<1>3. out' = IF 0 < Len(Contents(ring)) THEN Contents(ring)[0 + 1] ELSE None
  BY <1>1, FirstElement DEF TakeFirst
<1> QED
  BY <1>2, <1>3 DEF AsFifo!Nth

LEMMA DrainNthPops ==
  ASSUME IInv, NEW n \in 1 .. MaxCap, DrainNth(n)
  PROVE  \E k \in 0 .. Len(Contents(ring)) : AsFifo!Nth(k)
<1> DEFINE q == Contents(ring)
<1>1. HeadInside(ring) /\ ring \in Rings /\ ExactWindow(ring)
  BY ExactHead DEF IInv, WindowLive
<1>2. q \in Seq(Value \cup {None}) /\ Len(q) = ring.len /\ ring.len \in Nat /\ n \in Nat
  BY <1>1, ContentsElements, CapAssumption
<1>3. CASE ring.len <= n
  <2>1. Contents(ring') = <<>> /\ out' = None
    BY <1>1, <1>3, DrainNthKeeps, ClearContents
  <2>2. SubSeq(q, Len(q) + 2, Len(q)) = <<>>
    BY <1>2, SubSeqEmpty
  <2>3. AsFifo!Nth(Len(q))
    BY <1>2, <2>1, <2>2 DEF AsFifo!Nth
  <2> QED
    BY <1>2, <2>3
<1>4. CASE ~(ring.len <= n)
  <2> DEFINE s == Kept(ring, n)
             p == Contents(s)
  <2>1. n \in 0 .. ring.len /\ n \in 0 .. Len(q)
    BY <1>2, <1>4
  <2>2. s \in Rings /\ ExactWindow(s) /\ p = SubSeq(q, n + 1, Len(q))
    BY <1>1, <2>1, KeptFits
  <2>3. out' = First(s) /\ ring' = AfterPop(s)
    BY <1>1, <1>4, DrainNthKeeps
  <2>4. /\ Len(p) = Len(q) - n /\ p[1] = q[n + 1]
        /\ p \in Seq(Value \cup {None})
    <3>1. n + 1 \in 1 .. Len(q) + 1 /\ n + 1 <= Len(q) /\ 1 \in 1 .. Len(q) - (n + 1) + 1
      BY <1>2, <1>4
    <3> QED
      BY <1>2, <1>4, <2>2, <3>1, SubSeqProperties
  <2> HIDE DEF s
  <2>5. out' = IF n < Len(q) THEN q[n + 1] ELSE None
    BY <1>2, <1>4, <2>2, <2>3, <2>4, FirstElement, ExactHead
  <2>6. Contents(ring') = SubSeq(p, 2, Len(p))
    BY <2>2, <2>3, PopContents, ExactHead
  <2>7. SubSeq(p, 2, Len(p)) = SubSeq(q, n + 2, Len(q))
    <3> HIDE DEF p, q
    <3>1. n < Len(q) /\ n \in Nat
      BY <1>2, <1>4
    <3>2. SubSeq(SubSeq(q, n + 1, Len(q)), 2, Len(q) - n) = SubSeq(q, n + 2, Len(q))
      BY <1>2, <3>1, SubSeqTail
    <3> QED
      BY <2>2, <2>4, <3>2
  <2> QED
    BY <2>1, <2>5, <2>6, <2>7 DEF AsFifo!Nth
<1> QED
  BY <1>3, <1>4

LEMMA StepFifo == IInv /\ [Next]_vars => [AsFifo!Next]_<<Contents(ring), out>>
<1> SUFFICES ASSUME IInv, [Next]_vars PROVE [AsFifo!Next]_<<Contents(ring), out>>
  OBVIOUS
<1>1. ring \in Rings
  BY DEF IInv
<1>2. ASSUME NEW v \in Value, Push(v) PROVE [AsFifo!Next]_<<Contents(ring), out>>
  BY <1>1, <1>2, PushContents DEF Push, AsFifo!Next, AsFifo!Push
<1>3. ASSUME TakeFirst PROVE AsFifo!Next
  <2>1. 0 \in 0 .. Len(Contents(ring))
    BY <1>1, ContentsElements
  <2> QED
    BY <1>3, <2>1, TakeFirstPops DEF AsFifo!Next
<1>4. ASSUME NEW n \in 1 .. MaxCap, DrainNth(n) PROVE AsFifo!Next
  BY <1>4, DrainNthPops DEF AsFifo!Next
<1>5. ASSUME ring' = Cleared(ring), out' = out PROVE AsFifo!Next
  BY <1>1, <1>5, ClearContents DEF AsFifo!Next, AsFifo!Clear
<1>6. CASE ring' = ring /\ out' = out
  BY <1>6
<1> QED
  BY <1>2, <1>3, <1>4, <1>5, <1>6
     DEF Next, vars, Pop, Clear, BeginDrain, DrainStep, DrainNext, EndDrain, BeginIter, IterStep,
         IterNext, IterNextBack, Walk, WalkBack, EndIter, IterNth, IterNthBack

\* Values come out in the order in which they went in (ring_buffer.rs:14),
\* through growth while wrapped, clear, and a Drain dropped or forgotten at
\* any moment.
THEOREM Implements == Spec => ImplementsFifo
<1>1. Spec => AsFifo!Init /\ [][AsFifo!Next]_<<Contents(ring), out>>
  BY InitFifo, StepFifo, Invariance, PTL DEF Spec
<1> QED
  BY <1>1 DEF ImplementsFifo, AsFifo!Spec

-----------------------------------------------------------------------------
(* The iterators.                                                           *)

\* A part of a sequence of slots, and its slots.
LEMMA PartFacts ==
  ASSUME NEW S, NEW s \in Seq(S), NEW a \in Nat \ {0}, NEW b \in Int, b <= Len(s),
         NEW t, t = SubSeq(s, a, b)
  PROVE  /\ t \in Seq(S) /\ Range(t) = {s[k] : k \in a .. b}
         /\ IsInjective(s) => IsInjective(t)
         /\ a > b => t = <<>>
<1>1. Len(s) \in Nat /\ DOMAIN s = 1 .. Len(s) /\ \A k \in a .. b : k \in 1 .. Len(s) /\ s[k] \in S
  OBVIOUS
<1>2. /\ t \in Seq(S) /\ Len(t) = IF a <= b THEN b - a + 1 ELSE 0
      /\ \A k \in 1 .. b - a + 1 : t[k] = s[a + k - 1]
  BY <1>1, SubSeqProperties
<1>3. DOMAIN t = 1 .. b - a + 1
  BY <1>2
<1>4. Range(t) = {s[k] : k \in a .. b}
  <2>1. ASSUME NEW k \in 1 .. b - a + 1 PROVE t[k] \in {s[j] : j \in a .. b}
    <3>1. a + k - 1 \in a .. b
      OBVIOUS
    <3> QED
      BY <1>2, <3>1
  <2>2. ASSUME NEW j \in a .. b PROVE s[j] \in Range(t)
    <3>1. j - a + 1 \in 1 .. b - a + 1 /\ a + (j - a + 1) - 1 = j
      OBVIOUS
    <3>2. t[j - a + 1] = s[j]
      BY <1>2, <3>1
    <3> QED
      BY <1>3, <3>1, <3>2 DEF Range
  <2> QED
    BY <1>3, <2>1, <2>2 DEF Range
<1>5. ASSUME IsInjective(s) PROVE IsInjective(t)
  <2> SUFFICES ASSUME NEW j \in 1 .. b - a + 1, NEW k \in 1 .. b - a + 1, t[j] = t[k] PROVE j = k
    BY <1>3 DEF IsInjective
  <2>1. a + j - 1 \in 1 .. Len(s) /\ a + k - 1 \in 1 .. Len(s) /\ s[a + j - 1] = s[a + k - 1]
    BY <1>1, <1>2
  <2>2. a + j - 1 = a + k - 1
    BY <1>1, <1>5, <2>1 DEF IsInjective
  <2> QED
    BY <2>2
<1>6. a > b => t = <<>>
  BY <1>2, EmptySeq
<1> QED
  BY <1>2, <1>4, <1>5, <1>6

\* What the iterator over a slice takes and leaves.
LEMMA SliceTakes ==
  ASSUME ring.cap \in Nat, NEW s \in Seq(Slot), NEW n \in Nat,
         NEW r \in {SliceNth(s, n), SliceNthBack(s, n)}
  PROVE  /\ r.left \in Seq(Slot) /\ Range(r.left) \subseteq Range(s)
         /\ r.item \in Range(s) \cup {NoSlot} /\ r.item \in Slot \cup {NoSlot}
         /\ IsInjective(s) => IsInjective(r.left) /\ r.item \notin Range(r.left)
         /\ n >= Len(s) => r.left = <<>> /\ r.item = NoSlot
<1>1. /\ Len(s) \in Nat /\ DOMAIN s = 1 .. Len(s) /\ Range(s) = {s[k] : k \in 1 .. Len(s)}
      /\ \A k \in 1 .. Len(s) : s[k] \in Slot
  BY DEF Range
<1>2. NoSlot \notin Slot
  BY DEF Slot, NoSlot
<1>3. CASE r = SliceNth(s, n)
  <2>1. r.left = SubSeq(s, n + 2, Len(s)) /\ r.item = IF n < Len(s) THEN s[n + 1] ELSE NoSlot
    BY <1>3 DEF SliceNth
  <2>2. /\ r.left \in Seq(Slot) /\ Range(r.left) = {s[k] : k \in n + 2 .. Len(s)}
        /\ IsInjective(s) => IsInjective(r.left)
        /\ n + 2 > Len(s) => r.left = <<>>
    <3>1. n + 2 \in Nat \ {0} /\ Len(s) \in Int /\ Len(s) <= Len(s)
      BY <1>1
    <3> QED
      BY <2>1, <3>1, PartFacts
  <2>3. n < Len(s) => n + 1 \in 1 .. Len(s)
    BY <1>1
  <2>4. r.item \in Range(s) \cup {NoSlot} /\ r.item \in Slot \cup {NoSlot}
    BY <1>1, <2>1, <2>3
  <2>5. \A k \in n + 2 .. Len(s) : k \in 1 .. Len(s) /\ k # n + 1 /\ n < Len(s)
    BY <1>1
  <2>6. IsInjective(s) => r.item \notin Range(r.left)
    BY <1>1, <2>1, <2>2, <2>3, <2>5 DEF IsInjective
  <2> QED
    BY <1>1, <2>1, <2>2, <2>4, <2>5, <2>6
<1>4. CASE r = SliceNthBack(s, n)
  <2>1. /\ r.left = SubSeq(s, 1, Len(s) - n - 1)
        /\ r.item = IF n < Len(s) THEN s[Len(s) - n] ELSE NoSlot
    BY <1>4 DEF SliceNthBack
  <2>2. /\ r.left \in Seq(Slot) /\ Range(r.left) = {s[k] : k \in 1 .. Len(s) - n - 1}
        /\ IsInjective(s) => IsInjective(r.left)
        /\ n >= Len(s) => r.left = <<>>
    <3> DEFINE b == Len(s) - n - 1
    <3>1. 1 \in Nat \ {0} /\ b \in Int /\ b <= Len(s) /\ (n >= Len(s) => 1 > b)
      BY <1>1
    <3> HIDE DEF b
    <3>2. r.left = SubSeq(s, 1, b)
      BY <2>1 DEF b
    <3>3. /\ r.left \in Seq(Slot) /\ Range(r.left) = {s[k] : k \in 1 .. b}
          /\ IsInjective(s) => IsInjective(r.left)
          /\ 1 > b => r.left = <<>>
      BY <3>1, <3>2, PartFacts
    <3> QED
      BY <3>1, <3>3 DEF b
  <2>3. n < Len(s) => Len(s) - n \in 1 .. Len(s)
    BY <1>1
  <2>4. r.item \in Range(s) \cup {NoSlot} /\ r.item \in Slot \cup {NoSlot}
    BY <1>1, <2>1, <2>3
  <2>5. \A k \in 1 .. Len(s) - n - 1 : k \in 1 .. Len(s) /\ k # Len(s) - n /\ n < Len(s)
    BY <1>1
  <2>6. IsInjective(s) => r.item \notin Range(r.left)
    <3> SUFFICES ASSUME IsInjective(s), NEW k \in 1 .. Len(s) - n - 1, r.item = s[k] PROVE FALSE
      BY <2>2
    <3>1. k \in 1 .. Len(s) /\ k # Len(s) - n /\ n < Len(s)
      BY <2>5
    <3>2. PICK j \in 1 .. Len(s) : j = Len(s) - n /\ r.item = s[j]
      BY <2>1, <2>3, <3>1
    <3>3. DOMAIN s = 1 .. Len(s)
      OBVIOUS
    <3>4. s[k] = s[j]
      BY <3>2, Zenon
    <3>5. k # j
      BY <3>1, <3>2, Zenon
    <3> QED
      BY <3>1, <3>3, <3>4, <3>5, Zenon DEF IsInjective
  <2>7. Range(r.left) \subseteq Range(s)
    BY <1>1, <2>2, <2>5, Zenon
  <2>8. n >= Len(s) => r.item = NoSlot
    BY <1>1, <2>1
  <2> QED
    BY <2>2, <2>4, <2>6, <2>7, <2>8
<1> QED
  BY <1>3, <1>4

Apart(f, b) == IsInjective(f) /\ IsInjective(b) /\ Range(f) \cap Range(b) = {}

Unwrapped == ring.head + ring.len <= ring.cap

\* The iterator is inductive only with its two slices apart, and with the
\* second one empty as long as the values do not wrap around.
IterInv ==
  /\ out \in Value \cup {None} /\ user \in {"none", "drain", "iter"}
  /\ user # "iter" => NoIterator
  /\ front \in Seq(Slot) /\ back \in Seq(Slot) /\ rest \in Seq(Slot)
  /\ yield \in Slot \cup {NoSlot} /\ expect \in Slot \cup {NoSlot}
  /\ Apart(front, back)
  /\ user = "iter" => Range(front) \cup Range(back) \subseteq Range(Window(ring))
  /\ Unwrapped => back = <<>> /\ front = rest /\ yield = expect

\* A call of the iterator goes on from parts of the two slices without what
\* it returns.
Walks ==
  /\ user = "iter" /\ UNCHANGED <<ring, out, user>>
  /\ front' \in Seq(Slot) /\ back' \in Seq(Slot) /\ rest' \in Seq(Slot)
  /\ yield' \in Range(front) \cup Range(back) \cup {NoSlot}
  /\ yield' \in Slot \cup {NoSlot} /\ expect' \in Slot \cup {NoSlot}
  /\ IsInjective(front') /\ Range(front') \subseteq Range(front) \ {yield'}
  /\ IsInjective(back') /\ Range(back') \subseteq Range(back) \ {yield'}
  /\ Unwrapped => back' = <<>> /\ front' = rest' /\ yield' = expect'

LEMMA WalksInv == IterInv /\ Walks => IterInv'
  BY DEF IterInv, Walks, Apart, Unwrapped, Slot

LEMMA RestTakes ==
  ASSUME IterInv, ring.cap \in Nat, NEW n \in Nat,
         NEW r \in {SliceNth(rest, n), SliceNthBack(rest, n)}
  PROVE  /\ r.left \in Seq(Slot) /\ r.item \in Slot \cup {NoSlot}
         /\ rest = <<>> => r.left = <<>> /\ r.item = NoSlot
<1>1. rest \in Seq(Slot) /\ (rest = <<>> => n >= Len(rest))
  BY DEF IterInv
<1> QED
  BY <1>1, SliceTakes

LEMMA WalksFrom ==
  ASSUME IterInv, ring.cap \in Nat, user = "iter", UNCHANGED <<ring, out, user>>,
         NEW f \in Seq(Slot), NEW b \in Seq(Slot), NEW item, Advance(f, b, item),
         IsInjective(f), IsInjective(b),
         Range(f) \subseteq Range(front), Range(b) \subseteq Range(back),
         item \notin Range(f) \cup Range(b), item \in Range(front) \cup Range(back) \cup {NoSlot},
         NEW r, Reference(r), r.left \in Seq(Slot), r.item \in Slot \cup {NoSlot},
         Unwrapped => b = <<>> /\ f = r.left /\ item = r.item
  PROVE  Walks
<1>1. Range(front) \subseteq Slot /\ Range(back) \subseteq Slot
  BY DEF IterInv, Range
<1> QED
  BY <1>1 DEF Walks, Advance, Reference

\* A call that takes from one slice leaves the other, or what follows in it.
LEMMA SlicesTake ==
  ASSUME IterInv, ring.cap \in Nat, NEW m \in Nat, NEW n \in Nat,
         NEW f \in {SliceNth(front, m), SliceNthBack(front, m)},
         NEW b \in {SliceNth(back, n), SliceNthBack(back, n)}
  PROVE  /\ f.left \in Seq(Slot) /\ IsInjective(f.left) /\ Range(f.left) \subseteq Range(front)
         /\ b.left \in Seq(Slot) /\ IsInjective(b.left) /\ Range(b.left) \subseteq Range(back)
         /\ f.item \in Range(front) \cup {NoSlot} /\ f.item \notin Range(f.left) \cup Range(back)
         /\ b.item \in Range(back) \cup {NoSlot} /\ b.item \notin Range(b.left) \cup Range(front)
         /\ m >= Len(front) => f.left = <<>> /\ f.item = NoSlot
         /\ n >= Len(back) => b.left = <<>> /\ b.item = NoSlot
         /\ Unwrapped => b.left = <<>> /\ b.item = NoSlot /\ Len(back) = 0
<1>2. front \in Seq(Slot) /\ back \in Seq(Slot) /\ Apart(front, back)
  BY DEF IterInv
<1>1. Range(front) \subseteq Slot /\ Range(back) \subseteq Slot /\ NoSlot \notin Slot
  <2>1. NoSlot \notin Slot
    BY DEF Slot, NoSlot
  <2>2. Range(front) \subseteq Slot /\ Range(back) \subseteq Slot
    BY <1>2 DEF Range
  <2> QED
    BY <2>1, <2>2
<1>3. /\ f.left \in Seq(Slot) /\ IsInjective(f.left) /\ Range(f.left) \subseteq Range(front)
      /\ f.item \in Range(front) \cup {NoSlot} /\ f.item \notin Range(f.left)
      /\ m >= Len(front) => f.left = <<>> /\ f.item = NoSlot
  BY <1>2, SliceTakes DEF Apart
<1>4. /\ b.left \in Seq(Slot) /\ IsInjective(b.left) /\ Range(b.left) \subseteq Range(back)
      /\ b.item \in Range(back) \cup {NoSlot} /\ b.item \notin Range(b.left)
      /\ n >= Len(back) => b.left = <<>> /\ b.item = NoSlot
  BY <1>2, SliceTakes DEF Apart
<1>5. f.item \notin Range(back) /\ b.item \notin Range(front)
  BY <1>1, <1>2, <1>3, <1>4 DEF Apart
<1>6. Unwrapped => n >= Len(back) /\ Len(back) = 0
  BY DEF IterInv
<1> QED
  BY <1>3, <1>4, <1>5, <1>6

LEMMA TakesFront ==
  ASSUME IterInv, ring.cap \in Nat, user = "iter", UNCHANGED <<ring, out, user>>,
         NEW m \in Nat, NEW f \in {SliceNth(front, m), SliceNthBack(front, m)},
         Advance(f.left, back, f.item),
         NEW n \in Nat, NEW r \in {SliceNth(rest, n), SliceNthBack(rest, n)}, Reference(r),
         Unwrapped => f = r
  PROVE  Walks
<1>1. back \in Seq(Slot) /\ Apart(front, back) /\ (Unwrapped => back = <<>>)
  BY DEF IterInv
<1>2. /\ f.left \in Seq(Slot) /\ IsInjective(f.left) /\ Range(f.left) \subseteq Range(front)
      /\ f.item \in Range(front) \cup {NoSlot} /\ f.item \notin Range(f.left) \cup Range(back)
  BY SlicesTake
<1>3. /\ IsInjective(back) /\ f.item \in Range(front) \cup Range(back) \cup {NoSlot}
      /\ Range(back) \subseteq Range(back) /\ f.item \notin Range(f.left) \cup Range(back)
      /\ Unwrapped => back = <<>> /\ f.left = r.left /\ f.item = r.item
  BY <1>1, <1>2 DEF Apart
<1>4. r.left \in Seq(Slot) /\ r.item \in Slot \cup {NoSlot}
  BY RestTakes
<1> QED
  BY <1>1, <1>2, <1>3, <1>4, WalksFrom

LEMMA TakesBack ==
  ASSUME IterInv, ring.cap \in Nat, user = "iter", UNCHANGED <<ring, out, user>>,
         NEW m \in Nat, NEW b \in {SliceNth(back, m), SliceNthBack(back, m)},
         Advance(front, b.left, b.item),
         NEW n \in Nat, NEW r \in {SliceNth(rest, n), SliceNthBack(rest, n)}, Reference(r),
         Unwrapped => front = <<>>
  PROVE  Walks
<1>1. /\ front \in Seq(Slot) /\ rest \in Seq(Slot) /\ Apart(front, back)
      /\ Unwrapped => rest = <<>>
  BY DEF IterInv
<1>2. /\ b.left \in Seq(Slot) /\ IsInjective(b.left) /\ Range(b.left) \subseteq Range(back)
      /\ b.item \in Range(back) \cup {NoSlot} /\ b.item \notin Range(b.left) \cup Range(front)
      /\ Unwrapped => b.left = <<>> /\ b.item = NoSlot
  BY SlicesTake
<1>3. /\ r.left \in Seq(Slot) /\ r.item \in Slot \cup {NoSlot}
      /\ rest = <<>> => r.left = <<>> /\ r.item = NoSlot
  BY RestTakes
<1>4. /\ IsInjective(front) /\ b.item \in Range(front) \cup Range(back) \cup {NoSlot}
      /\ Range(front) \subseteq Range(front) /\ b.item \notin Range(front) \cup Range(b.left)
      /\ Unwrapped => b.left = <<>> /\ front = r.left /\ b.item = r.item
  BY <1>1, <1>2, <1>3 DEF Apart
<1> QED
  BY <1>1, <1>2, <1>3, <1>4, WalksFrom

LEMMA NextWalks ==
  ASSUME IterInv, ring.cap \in Nat, IterNext \/ IterNextBack
  PROVE  Walks
<1>1. CASE IterNext
  <2> DEFINE f == SliceNth(front, 0)
             b == SliceNth(back, 0)
  <2>1. /\ user = "iter" /\ Advance(f.left, b.left, Or(f.item, b.item))
        /\ Reference(SliceNth(rest, 0)) /\ UNCHANGED <<ring, out, user>>
    BY <1>1 DEF IterNext
  <2>2. Unwrapped => f = SliceNth(rest, 0)
    BY DEF IterInv
  <2> HIDE DEF f, b
  <2>3. f \in {SliceNth(front, 0), SliceNthBack(front, 0)} /\ b \in {SliceNth(back, 0), SliceNthBack(back, 0)}
    BY DEF f, b
  <2>4. /\ Or(f.item, b.item) \notin Range(f.left) \cup Range(b.left)
        /\ Or(f.item, b.item) \in Range(front) \cup Range(back) \cup {NoSlot}
        /\ Unwrapped => b.left = <<>> /\ Or(f.item, b.item) = f.item
    BY <2>3, SlicesTake DEF Or
  <2>5. /\ f.left \in Seq(Slot) /\ IsInjective(f.left) /\ Range(f.left) \subseteq Range(front)
        /\ b.left \in Seq(Slot) /\ IsInjective(b.left) /\ Range(b.left) \subseteq Range(back)
    BY <2>3, SlicesTake
  <2> DEFINE r == SliceNth(rest, 0)
  <2>6. r.left \in Seq(Slot) /\ r.item \in Slot \cup {NoSlot}
    BY RestTakes
  <2>7. Reference(r) /\ (Unwrapped => f.left = r.left /\ f.item = r.item)
    BY <2>1, <2>2
  <2> HIDE DEF r
  <2> QED
    BY <2>1, <2>4, <2>5, <2>6, <2>7, WalksFrom
<1>2. CASE IterNextBack
  <2> DEFINE f == SliceNthBack(front, 0)
             b == SliceNthBack(back, 0)
  <2>1. /\ user = "iter" /\ Advance(f.left, b.left, Or(b.item, f.item))
        /\ Reference(SliceNthBack(rest, 0)) /\ UNCHANGED <<ring, out, user>>
    BY <1>2 DEF IterNextBack
  <2>2. Unwrapped => f = SliceNthBack(rest, 0)
    BY DEF IterInv
  <2> HIDE DEF f, b
  <2>3. f \in {SliceNth(front, 0), SliceNthBack(front, 0)} /\ b \in {SliceNth(back, 0), SliceNthBack(back, 0)}
    BY DEF f, b
  <2>4. /\ Or(b.item, f.item) \notin Range(f.left) \cup Range(b.left)
        /\ Or(b.item, f.item) \in Range(front) \cup Range(back) \cup {NoSlot}
        /\ Unwrapped => b.left = <<>> /\ Or(b.item, f.item) = f.item
    BY <2>3, SlicesTake DEF Or
  <2>5. /\ f.left \in Seq(Slot) /\ IsInjective(f.left) /\ Range(f.left) \subseteq Range(front)
        /\ b.left \in Seq(Slot) /\ IsInjective(b.left) /\ Range(b.left) \subseteq Range(back)
    BY <2>3, SlicesTake
  <2> DEFINE r == SliceNthBack(rest, 0)
  <2>6. r.left \in Seq(Slot) /\ r.item \in Slot \cup {NoSlot}
    BY RestTakes
  <2>7. Reference(r) /\ (Unwrapped => f.left = r.left /\ f.item = r.item)
    BY <2>1, <2>2
  <2> HIDE DEF r
  <2> QED
    BY <2>1, <2>4, <2>5, <2>6, <2>7, WalksFrom
<1> QED
  BY <1>1, <1>2

LEMMA NthWalks ==
  ASSUME IterInv, ring.cap \in Nat, NEW n \in Nat, IterNth(n)
  PROVE  Walks
<1>1. user = "iter" /\ Reference(SliceNth(rest, n)) /\ UNCHANGED <<ring, out, user>>
  BY DEF IterNth
<1>2. /\ front \in Seq(Slot) /\ back \in Seq(Slot) /\ Apart(front, back)
      /\ Unwrapped => back = <<>> /\ front = rest
  BY DEF IterInv
<1>3. CASE n >= Len(front)
  <2> DEFINE f == SliceNth(front, Len(front))
             b == SliceNth(back, n)
  <2>1. f.left = <<>> /\ Len(front) \in Nat
    BY <1>2, SliceTakes
  <2>2. Advance(f.left, b.left, b.item)
    BY <1>3, <2>1 DEF IterNth
  <2>3. Unwrapped => SliceNth(rest, n).left = <<>> /\ SliceNth(rest, n).item = NoSlot
    BY <1>2, <1>3, SliceTakes
  <2> HIDE DEF f, b
  <2>4. f \in {SliceNth(front, Len(front)), SliceNthBack(front, Len(front))}
        /\ b \in {SliceNth(back, n), SliceNthBack(back, n)}
    BY DEF f, b
  <2>5. /\ f.left \in Seq(Slot) /\ IsInjective(f.left) /\ Range(f.left) \subseteq Range(front)
        /\ b.left \in Seq(Slot) /\ IsInjective(b.left) /\ Range(b.left) \subseteq Range(back)
        /\ b.item \in Range(back) \cup {NoSlot} /\ b.item \notin Range(b.left) \cup Range(f.left)
        /\ Unwrapped => b.left = <<>> /\ b.item = NoSlot
    BY <2>1, <2>4, SlicesTake
  <2>6. /\ SliceNth(rest, n).left \in Seq(Slot)
        /\ SliceNth(rest, n).item \in Slot \cup {NoSlot}
    BY RestTakes
  <2>7. /\ b.item \in Range(front) \cup Range(back) \cup {NoSlot}
        /\ Unwrapped => b.left = <<>> /\ f.left = SliceNth(rest, n).left /\ b.item = SliceNth(rest, n).item
    BY <2>1, <2>3, <2>5
  <2> QED
    BY <1>1, <2>2, <2>5, <2>6, <2>7, WalksFrom
<1>4. CASE ~(n >= Len(front))
  <2>1. Advance(SliceNth(front, n).left, back, SliceNth(front, n).item)
    BY <1>4 DEF IterNth
  <2> QED
    BY <1>1, <1>2, <2>1, TakesFront
<1> QED
  BY <1>3, <1>4

LEMMA NthBackWalks ==
  ASSUME IterInv, ring.cap \in Nat, NEW n \in Nat, IterNthBack(n)
  PROVE  Walks
<1>1. user = "iter" /\ Reference(SliceNthBack(rest, n)) /\ UNCHANGED <<ring, out, user>>
  BY DEF IterNthBack
<1>2. /\ front \in Seq(Slot) /\ back \in Seq(Slot) /\ Apart(front, back)
      /\ Unwrapped => back = <<>> /\ front = rest
  BY DEF IterInv
<1>3. CASE n >= Len(back)
  <2> DEFINE b == SliceNthBack(back, Len(back))
             f == SliceNthBack(front, n)
  <2>1. b.left = <<>> /\ Len(back) \in Nat
    BY <1>2, SliceTakes
  <2>2. Advance(f.left, b.left, f.item)
    BY <1>3, <2>1 DEF IterNthBack
  <2>3. Unwrapped => f = SliceNthBack(rest, n)
    BY <1>2
  <2> HIDE DEF f, b
  <2>4. f \in {SliceNth(front, n), SliceNthBack(front, n)}
        /\ b \in {SliceNth(back, Len(back)), SliceNthBack(back, Len(back))}
    BY DEF f, b
  <2>5. /\ f.left \in Seq(Slot) /\ IsInjective(f.left) /\ Range(f.left) \subseteq Range(front)
        /\ b.left \in Seq(Slot) /\ IsInjective(b.left) /\ Range(b.left) \subseteq Range(back)
        /\ f.item \in Range(front) \cup {NoSlot} /\ f.item \notin Range(f.left) \cup Range(b.left)
    BY <2>1, <2>4, SlicesTake
  <2>6. /\ SliceNthBack(rest, n).left \in Seq(Slot)
        /\ SliceNthBack(rest, n).item \in Slot \cup {NoSlot}
    BY RestTakes
  <2> QED
    BY <1>1, <2>1, <2>2, <2>3, <2>5, <2>6, WalksFrom
<1>4. CASE ~(n >= Len(back))
  <2>1. Advance(front, SliceNthBack(back, n).left, SliceNthBack(back, n).item) /\ ~Unwrapped
    BY <1>2, <1>4 DEF IterNthBack
  <2> QED
    BY <1>1, <2>1, TakesBack
<1> QED
  BY <1>3, <1>4

LEMMA WalkWalks ==
  ASSUME IterInv, ring.cap \in Nat, Walk \/ WalkBack
  PROVE  Walks
<1>1. Unwrapped => back = <<>> /\ front = rest
  BY DEF IterInv
<1>2. user = "iter" /\ UNCHANGED <<ring, out, user>>
  BY DEF Walk, WalkBack
<1>3. CASE Walk /\ front = <<>>
  BY <1>2, <1>3, TakesBack DEF Walk
<1>4. CASE Walk /\ front # <<>>
  BY <1>1, <1>2, <1>4, TakesFront DEF Walk
<1>5. CASE WalkBack /\ back = <<>>
  BY <1>1, <1>2, <1>5, TakesFront DEF WalkBack
<1>6. CASE WalkBack /\ back # <<>>
  BY <1>1, <1>2, <1>6, TakesBack DEF WalkBack
<1> QED
  BY <1>3, <1>4, <1>5, <1>6

LEMMA FunctionSeq == ASSUME NEW S, NEW n \in Nat, NEW f \in [1 .. n -> S] PROVE f \in Seq(S)
OBVIOUS

\* as_slice_pointers makes two slices of the window, without a slot in both.
LEMMA SlicesFit ==
  ASSUME NEW r \in Rings, HeadInside(r)
  PROVE  /\ FrontSlice(r) \in Seq(0 .. r.cap - 1) /\ BackSlice(r) \in Seq(0 .. r.cap - 1)
         /\ Window(r) \in Seq(0 .. r.cap - 1)
         /\ Apart(FrontSlice(r), BackSlice(r))
         /\ Range(FrontSlice(r)) \cup Range(BackSlice(r)) \subseteq Range(Window(r))
         /\ r.head + r.len <= r.cap => BackSlice(r) = <<>> /\ FrontSlice(r) = Window(r)
<1>1. r.cap \in Nat /\ r.head \in 0 .. r.cap /\ r.len \in 0 .. r.cap
  BY RingFields
<1> DEFINE f == FrontLen(r)
<1>2. f \in 0 .. r.len /\ f = (IF r.len < r.cap - r.head THEN r.len ELSE r.cap - r.head)
  BY <1>1 DEF FrontLen
<1>3. /\ FrontSlice(r) = [k \in 1 .. f |-> r.head + k - 1]
      /\ BackSlice(r) = [k \in 1 .. r.len - f |-> k - 1]
  BY DEF FrontSlice, BackSlice
<1> HIDE DEF f
<1>4. /\ \A k \in 1 .. f : r.head + k - 1 \in 0 .. r.cap - 1
      /\ \A k \in 1 .. r.len - f : k - 1 \in 0 .. r.cap - 1
      /\ r.len - f \in Nat
  BY <1>1, <1>2
<1>5. FrontSlice(r) \in Seq(0 .. r.cap - 1) /\ BackSlice(r) \in Seq(0 .. r.cap - 1)
  <2>1. /\ FrontSlice(r) \in [1 .. f -> 0 .. r.cap - 1]
        /\ BackSlice(r) \in [1 .. r.len - f -> 0 .. r.cap - 1]
    BY <1>3, <1>4
  <2>2. FrontSlice(r) \in Seq(0 .. r.cap - 1)
    <3>1. f \in Nat
      BY <1>1, <1>2
    <3> QED
      BY <2>1, <3>1, FunctionSeq
  <2>3. BackSlice(r) \in Seq(0 .. r.cap - 1)
    BY <1>4, <2>1, FunctionSeq
  <2> QED
    BY <2>2, <2>3
<1>6. Window(r) \in Seq(0 .. r.cap - 1)
  <2>1. Window(r) \in [1 .. r.len -> 0 .. r.cap - 1]
    BY WindowSlots DEF Window
  <2> QED
    BY <1>1, <2>1
<1>7. Apart(FrontSlice(r), BackSlice(r))
  <2>1. IsInjective(FrontSlice(r)) /\ IsInjective(BackSlice(r))
    <3>1. /\ \A j, k \in 1 .. f : r.head + j - 1 = r.head + k - 1 => j = k
          /\ \A j, k \in 1 .. r.len - f : j - 1 = k - 1 => j = k
      BY <1>1, <1>2, <1>4
    <3> QED
      BY <1>3, <3>1 DEF IsInjective
  <2>2. Range(FrontSlice(r)) = {r.head + k - 1 : k \in 1 .. f}
    BY <1>3 DEF Range
  <2>3. Range(BackSlice(r)) = {k - 1 : k \in 1 .. r.len - f}
    BY <1>3 DEF Range
  <2>4. \A j \in 1 .. f, k \in 1 .. r.len - f : r.head + j - 1 # k - 1
    BY <1>1, <1>2 DEF HeadInside
  <2> QED
    BY <2>1, <2>2, <2>3, <2>4 DEF Apart
<1>8. Range(FrontSlice(r)) \cup Range(BackSlice(r)) \subseteq Range(Window(r))
  <2> SUFFICES ASSUME NEW i \in Range(FrontSlice(r)) \cup Range(BackSlice(r))
               PROVE  i \in Range(Window(r))
    OBVIOUS
  <2>1. i \in 0 .. r.cap - 1
    BY <1>3, <1>4 DEF Range
  <2> QED
    BY <2>1, SlicesCover, WindowOffset
<1>9. ASSUME r.head + r.len <= r.cap PROVE BackSlice(r) = <<>> /\ FrontSlice(r) = Window(r)
  <2>1. f = r.len
    BY <1>1, <1>2, <1>9
  <2>2. BackSlice(r) = <<>>
    <3>1. DOMAIN BackSlice(r) = 1 .. r.len - r.len /\ r.len - r.len = 0
      BY <1>1, <1>3, <2>1
    <3>2. Len(BackSlice(r)) = 0
      BY <1>5, <3>1
    <3> QED
      BY <1>5, <3>2, EmptySeq
  <2>3. \A k \in 1 .. r.len : RingIndex(r.head, k - 1, r.cap) = r.head + k - 1
    BY <1>1, <1>9 DEF RingIndex
  <2>4. FrontSlice(r) = Window(r)
    BY <1>3, <2>1, <2>3 DEF Window
  <2> QED
    BY <2>2, <2>4
<1> QED
  BY <1>5, <1>6, <1>7, <1>8, <1>9

-----------------------------------------------------------------------------
LEMMA RangeConcat ==
  ASSUME NEW S, NEW s \in Seq(S), NEW T, NEW t \in Seq(T)
  PROVE  Range(s \o t) = Range(s) \cup Range(t)
<1>1. /\ DOMAIN (s \o t) = 1 .. Len(s) + Len(t) /\ Len(s) \in Nat /\ Len(t) \in Nat
      /\ DOMAIN s = 1 .. Len(s) /\ DOMAIN t = 1 .. Len(t)
      /\ \A k \in 1 .. Len(s) + Len(t) :
           (s \o t)[k] = IF k <= Len(s) THEN s[k] ELSE t[k - Len(s)]
  OBVIOUS
<1>2. ASSUME NEW k \in 1 .. Len(s) + Len(t) PROVE (s \o t)[k] \in Range(s) \cup Range(t)
  <2>1. k <= Len(s) => k \in 1 .. Len(s)
    BY <1>1
  <2>2. ~(k <= Len(s)) => k - Len(s) \in 1 .. Len(t)
    BY <1>1
  <2> QED
    BY <1>1, <2>1, <2>2 DEF Range
<1>3. ASSUME NEW k \in 1 .. Len(s) PROVE s[k] \in Range(s \o t)
  <2>1. k \in 1 .. Len(s) + Len(t) /\ k <= Len(s)
    BY <1>1
  <2> QED
    BY <1>1, <2>1 DEF Range
<1>4. ASSUME NEW k \in 1 .. Len(t) PROVE t[k] \in Range(s \o t)
  <2>1. k + Len(s) \in 1 .. Len(s) + Len(t) /\ ~(k + Len(s) <= Len(s)) /\ (k + Len(s)) - Len(s) = k
    BY <1>1
  <2>2. (s \o t)[k + Len(s)] = t[k]
    BY <1>1, <2>1
  <2> QED
    BY <1>1, <2>1, <2>2 DEF Range
<1> QED
  BY <1>1, <1>2, <1>3, <1>4 DEF Range

LEMMA Empty ==
  /\ \A S : <<>> \in Seq(S)
  /\ Apart(<<>>, <<>>)
BY DEF Apart, IsInjective, Range

LEMMA StepIter ==
  ASSUME IInv, IterInv, [Next]_vars
  PROVE  IterInv' /\ (user = "iter" /\ user' = "iter" => Walks \/ UNCHANGED vars)
<1>1. /\ ring \in Rings /\ HeadInside(ring) /\ ring.cap \in Nat
      /\ ring' \in Rings /\ ring'.cap \in Nat
  BY StepInv, ExactHead, RingFields DEF IInv, WindowLive
<1>2. CASE UNCHANGED vars
  <2>1. IterInv'
    BY <1>2 DEF vars, iterator, IterInv, NoIterator, Apart, Unwrapped, Slot
  <2> QED
    BY <1>2, <2>1
<1>3. ASSUME user \in {"none", "drain"}, user' \in {"none", "drain"}, UNCHANGED iterator,
             out' \in Value \cup {None}
      PROVE  IterInv' /\ user # "iter"
  <2>1. NoIterator'
    BY <1>3 DEF IterInv, NoIterator, iterator
  <2>2. IterInv'
    BY <1>3, <2>1, Empty DEF NoIterator, IterInv
  <2> QED
    BY <1>3, <2>2
<1>4. ASSUME user \in {"none", "drain"}, user' \in {"none", "drain"}, UNCHANGED iterator,
             UNCHANGED out \/ TakeFirst \/ \E n \in 1 .. MaxCap : DrainNth(n)
      PROVE  IterInv' /\ user # "iter"
  <2>1. out \in Value \cup {None}
    BY DEF IterInv
  <2>2. TakeFirst => out' \in Value \cup {None}
    BY <1>1, FirstElement DEF TakeFirst
  <2>3. ASSUME NEW n \in 1 .. MaxCap, DrainNth(n) PROVE out' \in Value \cup {None}
    <3>1. CASE ring.len <= n
      BY <1>1, <2>3, <3>1, DrainNthKeeps
    <3>2. CASE ~(ring.len <= n)
      <4>1. n \in 0 .. ring.len
        BY <1>1, <3>2, RingFields, CapAssumption
      <4>2. out' = First(Kept(ring, n))
        BY <1>1, <2>3, <3>2, DrainNthKeeps
      <4>3. Kept(ring, n) \in Rings /\ ExactWindow(Kept(ring, n))
        BY <1>1, <4>1, KeptFits DEF IInv, WindowLive
      <4> QED
        BY <4>2, <4>3, FirstElement, ExactHead
    <3> QED
      BY <3>1, <3>2
  <2> QED
    BY <1>3, <1>4, <2>1, <2>2, <2>3
<1>5. CASE \E v \in Value : Push(v)
  BY <1>4, <1>5 DEF Push
<1>6. CASE Pop \/ Clear \/ BeginDrain \/ DrainNext \/ EndDrain
  BY <1>4, <1>6 DEF Pop, Clear, BeginDrain, DrainNext, EndDrain
<1>7. CASE \E n \in 1 .. MaxCap : DrainNth(n)
  BY <1>4, <1>7, Zenon DEF DrainNth
<1>8. CASE BeginIter
  <2>1. /\ front' = FrontSlice(ring) /\ back' = BackSlice(ring) /\ rest' = Window(ring)
        /\ user = "none" /\ user' = "iter" /\ UNCHANGED <<ring, out, yield, expect>>
    BY <1>8 DEF BeginIter
  <2>2. yield = NoSlot /\ expect = NoSlot /\ out \in Value \cup {None}
    BY <2>1 DEF IterInv, NoIterator
  <2>3. IterInv'
    BY <1>1, <2>1, <2>2, SlicesFit DEF IterInv, Unwrapped, Slot
  <2> QED
    BY <2>1, <2>3
<1>9. CASE EndIter
  <2>1. NoIterator' /\ out' = out /\ user' = "none"
    BY <1>9 DEF EndIter, NoIterator
  <2>2. IterInv'
    BY <2>1, Empty DEF NoIterator, IterInv
  <2> QED
    BY <2>1, <2>2
<1>10. CASE IterNext \/ IterNextBack \/ Walk \/ WalkBack \/ \E n \in 0 .. MaxCap : IterNth(n) \/ IterNthBack(n)
  <2>1. Walks
    <3>1. 0 .. MaxCap \subseteq Nat
      OBVIOUS
    <3> QED
      BY <1>1, <1>10, <3>1, NextWalks, WalkWalks, NthWalks, NthBackWalks
  <2> QED
    BY <2>1, WalksInv
<1> QED
  BY <1>2, <1>5, <1>6, <1>7, <1>8, <1>9, <1>10 DEF Next, DrainStep, IterStep

LEMMA IterInvariance == Spec => [](IInv /\ IterInv)
<1>1. Init => IterInv
  BY Empty DEF Init, IterInv, NoIterator
<1>2. (IInv /\ IterInv) /\ [Next]_vars => (IInv /\ IterInv)'
  BY StepInv, StepIter
<1> QED
  BY <1>1, <1>2, InitInv, PTL DEF Spec

\* The ring, its users and what is returned keep their types: the slots that
\* an iterator has left and returns lie inside the array.
THEOREM TypeCorrect == Spec => []TypeOK
<1>1. IInv /\ IterInv => TypeOK
  BY DEF IInv, IterInv, TypeOK
<1> QED
  BY <1>1, IterInvariance, PTL

\* An iterator over values that do not wrap around is the one over all of
\* them, from both ends and with steps of any length.
THEOREM UnwrappedCorrect == Spec => []IterUnwrapped
<1>1. IterInv => IterUnwrapped
  <2> SUFFICES ASSUME IterInv, Unwrapped PROVE left = rest /\ yield = expect
    BY DEF IterUnwrapped, Unwrapped
  <2>1. back = <<>> /\ front = rest /\ yield = expect /\ front \in Seq(Slot)
    BY DEF IterInv
  <2>2. front \o <<>> = front
    BY <2>1
  <2> QED
    BY <2>1, <2>2 DEF left
<1> QED
  BY <1>1, IterInvariance, PTL

\* No two references of an iterator are to one value, whether it wraps or
\* not and whichever of its methods are called.
THEOREM DisjointCorrect == Spec => IterDisjoint
<1> DEFINE A == user = "iter" /\ user' = "iter" =>
                  /\ yield' \in Range(left) \cup {NoSlot}
                  /\ Range(left') \subseteq Range(left) \ {yield'}
                  /\ Range(left) \subseteq Range(Window(ring))
<1>1. IInv /\ IterInv /\ [Next]_vars => [A]_vars
  <2> SUFFICES ASSUME IInv, IterInv, [Next]_vars, user = "iter", user' = "iter", vars' # vars
               PROVE  A
    OBVIOUS
  <2>1. Walks
    BY StepIter
  <2>2. Range(left) = Range(front) \cup Range(back)
    BY RangeConcat DEF IterInv, left
  <2>3. Range(left') = Range(front') \cup Range(back')
    BY <2>1, RangeConcat DEF Walks, left
  <2> QED
    BY <2>1, <2>2, <2>3 DEF IterInv, Walks
<1> QED
  BY <1>1, IterInvariance, PTL DEF Spec, IterDisjoint
=============================================================================
