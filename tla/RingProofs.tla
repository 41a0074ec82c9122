----------------------------- MODULE RingProofs -----------------------------
(***************************************************************************)
(* Lemmas about the values of Ring, for every capacity: what the methods   *)
(* of RingBuffer make of a ring is a ring, and its values lie exactly in   *)
(* its window.  RingBufferProofs and FlipQueueProofs rest on them.         *)
(***************************************************************************)
EXTENDS Ring, SequenceTheorems, TLAPS

\* Rings without the set of arrays and the bound on the capacity.
LEMMA RingFields ==
  ASSUME NEW r \in Rings
  PROVE  /\ r.cap \in 0 .. MaxCap /\ r.cap \in Nat
         /\ r.head \in 0 .. r.cap /\ r.len \in 0 .. r.cap
         /\ r.array \in [0 .. r.cap - 1 -> Value \cup {None}]
         /\ r = [array |-> r.array, cap |-> r.cap, head |-> r.head, len |-> r.len]
<1>1. PICK c \in 0 .. MaxCap : r \in RingOf(c)
  BY DEF Rings
<1> QED
  BY <1>1, CapAssumption DEF RingOf

LEMMA MakeRing ==
  ASSUME NEW c \in 0 .. MaxCap, NEW a \in [0 .. c - 1 -> Value \cup {None}],
         NEW h \in 0 .. c, NEW l \in 0 .. c
  PROVE  [array |-> a, cap |-> c, head |-> h, len |-> l] \in Rings
<1>1. [array |-> a, cap |-> c, head |-> h, len |-> l] \in RingOf(c)
  BY DEF RingOf
<1> QED
  BY <1>1 DEF Rings

-----------------------------------------------------------------------------
(* Positions.                                                               *)
LEMMA IndexRange ==
  ASSUME NEW c \in Nat, NEW h \in 0 .. c, NEW i \in 0 .. c - 1
  PROVE  RingIndex(h, i, c) \in 0 .. c - 1
BY DEF RingIndex

\* How many places slot i lies behind the head.
Offset(r, i) == IF i >= r.head THEN i - r.head ELSE i + (r.cap - r.head)

HeadInside(r) == r.cap > 0 => r.head < r.cap

LEMMA WindowOffset ==
  ASSUME NEW r \in Rings, HeadInside(r), NEW i \in 0 .. r.cap - 1
  PROVE  i \in Range(Window(r)) <=> Offset(r, i) < r.len
<1> r.cap \in Nat /\ r.head \in 0 .. r.cap /\ r.len \in 0 .. r.cap
  BY RingFields
<1>1. Range(Window(r)) = {RingIndex(r.head, k - 1, r.cap) : k \in 1 .. r.len}
  BY DEF Range, Window
<1>2. ASSUME NEW k \in 1 .. r.len, i = RingIndex(r.head, k - 1, r.cap) PROVE Offset(r, i) < r.len
  BY <1>2 DEF HeadInside, RingIndex, Offset
<1>3. ASSUME Offset(r, i) < r.len
      PROVE  \E k \in 1 .. r.len : i = RingIndex(r.head, k - 1, r.cap)
  <2>1. Offset(r, i) + 1 \in 1 .. r.len /\ i = RingIndex(r.head, (Offset(r, i) + 1) - 1, r.cap)
    BY <1>3 DEF HeadInside, RingIndex, Offset
  <2> QED
    BY <2>1
<1> QED
  BY <1>1, <1>2, <1>3

\* ExactWindow in terms of offsets.
LEMMA ExactOffset ==
  ASSUME NEW r \in Rings
  PROVE  ExactWindow(r) <=> /\ HeadInside(r)
                            /\ \A i \in 0 .. r.cap - 1 : r.array[i] # None <=> Offset(r, i) < r.len
BY WindowOffset DEF ExactWindow, HeadInside

\* The values of a ring lie in its array.
LEMMA WindowSlots ==
  ASSUME NEW r \in Rings, NEW k \in 1 .. r.len
  PROVE  Window(r)[k] = RingIndex(r.head, k - 1, r.cap) /\ Window(r)[k] \in 0 .. r.cap - 1
<1> r.cap \in Nat /\ r.head \in 0 .. r.cap /\ r.len \in 0 .. r.cap
  BY RingFields
<1>1. k - 1 \in 0 .. r.cap - 1
  OBVIOUS
<1> QED
  BY <1>1, IndexRange DEF Window

-----------------------------------------------------------------------------
(* What the operations make of a ring: fields first.                        *)
LEMMA WithoutType ==
  ASSUME NEW r \in Rings, NEW slots
  PROVE  Without(r, slots) \in [0 .. r.cap - 1 -> Value \cup {None}]
BY RingFields DEF Without

LEMMA WithCapacityFits ==
  ASSUME NEW c \in 0 .. MaxCap
  PROVE  WithCapacity(c) \in Rings /\ HeadInside(WithCapacity(c)) /\ ExactWindow(WithCapacity(c))
<1>1. c \in Nat /\ 0 \in 0 .. c
  BY CapAssumption
<1>2. WithCapacity(c) \in Rings
  BY <1>1, MakeRing DEF WithCapacity
<1>3. HeadInside(WithCapacity(c))
  BY DEF WithCapacity, HeadInside
<1>4. \A i \in 0 .. c - 1 : ~(Offset(WithCapacity(c), i) < 0)
  BY DEF WithCapacity, Offset
<1> QED
  BY <1>2, <1>3, <1>4, ExactOffset DEF WithCapacity

\* push where there is room.
LEMMA StoredFields ==
  ASSUME NEW r \in Rings, NEW v \in Value, r.len < r.cap, NEW s, s = Stored(r, v)
  PROVE  /\ s \in Rings /\ s.cap = r.cap /\ s.head = r.head /\ s.len = r.len + 1
         /\ s.array = [r.array EXCEPT ![RingIndex(r.head, r.len, r.cap)] = v]
<1> DEFINE at == RingIndex(r.head, r.len, r.cap)
<1> HIDE DEF at
<1>1. PICK c \in 0 .. MaxCap : r \in RingOf(c)
  BY DEF Rings
<1>2. r.cap = c /\ c \in Nat
  BY <1>1, CapAssumption DEF RingOf
<1>3. [r.array EXCEPT ![at] = v] \in [0 .. c - 1 -> Value \cup {None}]
  BY <1>1 DEF RingOf
<1>4. r.len + 1 \in 0 .. c
  BY <1>1, <1>2 DEF RingOf
<1>5. s = [r EXCEPT !.array[at] = v, !.len = @ + 1]
  BY DEF Stored, at
<1>6. s \in RingOf(c)
  BY <1>1, <1>2, <1>3, <1>4, <1>5 DEF RingOf
<1>7. s.array = [r.array EXCEPT ![at] = v] /\ s.cap = r.cap /\ s.head = r.head /\ s.len = r.len + 1
  BY <1>1, <1>5 DEF RingOf
<1> QED
  BY <1>6, <1>7 DEF Rings, at

LEMMA StoredFits ==
  ASSUME NEW r \in Rings, NEW v \in Value, r.len < r.cap
  PROVE  /\ Stored(r, v) \in Rings
         /\ HeadInside(r) => HeadInside(Stored(r, v))
         /\ ExactWindow(r) => ExactWindow(Stored(r, v))
<1> DEFINE s == Stored(r, v)
           at == RingIndex(r.head, r.len, r.cap)
<1>1. r.cap \in Nat /\ r.head \in 0 .. r.cap /\ r.len \in 0 .. r.cap /\ r.cap \in 0 .. MaxCap
  BY RingFields
<1>2. /\ s \in Rings /\ s.cap = r.cap /\ s.head = r.head /\ s.len = r.len + 1
      /\ s.array = [r.array EXCEPT ![at] = v]
  BY StoredFields
<1>3. at \in 0 .. r.cap - 1
  <2>1. r.len \in 0 .. r.cap - 1
    BY <1>1
  <2> QED
    BY <1>1, <2>1, IndexRange
<1>4. HeadInside(r) => HeadInside(s)
  BY <1>2 DEF HeadInside
<1>5. ASSUME ExactWindow(r) PROVE ExactWindow(s)
  <2>1. HeadInside(r) /\ \A i \in 0 .. r.cap - 1 : r.array[i] # None <=> Offset(r, i) < r.len
    BY <1>5, ExactOffset
  <2>2. ASSUME NEW i \in 0 .. r.cap - 1
        PROVE  Offset(s, i) < r.len + 1 <=> Offset(r, i) < r.len \/ i = at
    <3>1. r.head \in 0 .. r.cap - 1 /\ s.head = r.head /\ s.cap = r.cap
      BY <1>1, <1>2, <2>1 DEF HeadInside
    <3>2. Offset(s, i) = Offset(r, i) /\ Offset(r, i) \in Nat
      BY <1>1, <3>1 DEF Offset
    <3>3. Offset(r, i) = r.len <=> i = at
      <4>1. CASE i >= r.head
        BY <1>1, <3>1, <4>1 DEF Offset, RingIndex
      <4>2. CASE ~(i >= r.head)
        BY <1>1, <3>1, <4>2 DEF Offset, RingIndex
      <4> QED
        BY <4>1, <4>2
    <3> HIDE DEF at, s
    <3> QED
      BY <1>1, <3>2, <3>3
  <2>3. ASSUME NEW i \in 0 .. r.cap - 1
        PROVE  s.array[i] # None <=> r.array[i] # None \/ i = at
    <3>1. r.array \in [0 .. r.cap - 1 -> Value \cup {None}]
      BY RingFields
    <3> HIDE DEF at, s
    <3> QED
      BY <1>2, <1>3, <3>1, NoneAssumption
  <2>4. \A i \in 0 .. s.cap - 1 : s.array[i] # None <=> Offset(s, i) < s.len
    BY <1>2, <2>1, <2>2, <2>3
  <2> QED
    BY <1>2, <1>4, <2>1, <2>4, ExactOffset
<1> QED
  BY <1>2, <1>4, <1>5

\* push where there is none: the values come to the start of a longer array.
LEMMA NewCapGrows ==
  ASSUME NEW c \in Nat
  PROVE  NewCap(c) \in Nat /\ NewCap(c) >= c + 1
BY CapAssumption DEF NewCap

LEMMA GrownFits ==
  ASSUME NEW r \in Rings, r.len = r.cap, NEW v \in Value, NEW c \in NewCap(r.cap) .. MaxCap
  PROVE  /\ Grown(r, v, c) \in Rings /\ HeadInside(Grown(r, v, c))
         /\ ExactWindow(r) => ExactWindow(Grown(r, v, c))
<1> DEFINE s == Grown(r, v, c)
           value(i) == IF i < r.cap - r.head THEN r.array[r.head + i]
                       ELSE IF i < r.cap THEN r.array[i - (r.cap - r.head)]
                       ELSE IF i = r.cap THEN v ELSE None
<1>1. r.cap \in Nat /\ r.head \in 0 .. r.cap
  BY RingFields
<1>2. c \in Nat /\ c >= r.cap + 1 /\ c \in 0 .. MaxCap /\ r.cap + 1 \in 0 .. c /\ 0 \in 0 .. c
  BY <1>1, NewCapGrows, CapAssumption
<1>3. r.array \in [0 .. r.cap - 1 -> Value \cup {None}]
  BY RingFields
<1>4. ASSUME NEW i \in 0 .. c - 1 PROVE value(i) \in Value \cup {None}
  <2>1. CASE i < r.cap - r.head
    <3>1. r.head + i \in 0 .. r.cap - 1
      BY <1>1, <2>1
    <3> QED
      BY <1>3, <2>1, <3>1
  <2>2. CASE ~(i < r.cap - r.head) /\ i < r.cap
    <3>1. i - (r.cap - r.head) \in 0 .. r.cap - 1
      BY <1>1, <2>2
    <3> QED
      BY <1>3, <2>2, <3>1
  <2>3. CASE ~(i < r.cap - r.head) /\ ~(i < r.cap)
    BY <2>3
  <2> QED
    BY <2>1, <2>2, <2>3
<1>5. s = [array |-> [i \in 0 .. c - 1 |-> value(i)], cap |-> c, head |-> 0, len |-> r.cap + 1]
  BY DEF Grown
<1>6. s \in Rings
  <2>1. [i \in 0 .. c - 1 |-> value(i)] \in [0 .. c - 1 -> Value \cup {None}]
    BY <1>4
  <2> HIDE DEF value, s
  <2> QED
    BY <1>2, <1>5, <2>1, MakeRing
<1>7. HeadInside(s)
  BY <1>2, <1>5 DEF HeadInside
<1>8. ASSUME ExactWindow(r) PROVE ExactWindow(s)
  <2>1. \A i \in 0 .. r.cap - 1 : r.array[i] # None
    <3>1. HeadInside(r) /\ \A i \in 0 .. r.cap - 1 : r.array[i] # None <=> Offset(r, i) < r.len
      BY <1>8, ExactOffset
    <3> QED
      BY <1>1, <3>1 DEF Offset, HeadInside
  <2>2. ASSUME NEW i \in 0 .. c - 1 PROVE value(i) # None <=> i < r.cap + 1
    BY <1>1, <1>2, <2>1, NoneAssumption
  <2>3. \A i \in 0 .. c - 1 : s.array[i] = value(i) /\ Offset(s, i) = i
    BY <1>2, <1>5 DEF Offset
  <2>4. s.cap = c /\ s.len = r.cap + 1
    BY <1>5
  <2> HIDE DEF value, s
  <2> QED
    BY <1>6, <1>7, <2>2, <2>3, <2>4, ExactOffset
<1> QED
  BY <1>6, <1>7, <1>8

\* push keeps what it must whichever way it goes, and if it panics too.
LEMMA PushFits ==
  ASSUME NEW r \in Rings, NEW v \in Value, NEW s \in AfterPush(r, v)
  PROVE  s \in Rings /\ (HeadInside(r) => HeadInside(s)) /\ (ExactWindow(r) => ExactWindow(s))
<1>1. r.cap \in Nat /\ r.len \in 0 .. r.cap
  BY RingFields
<1>2. CASE r.len < r.cap
  BY <1>2, StoredFits DEF AfterPush
<1>3. CASE ~(r.len < r.cap)
  <2>1. r.len = r.cap
    BY <1>1, <1>3
  <2>2. s = r \/ \E c \in NewCap(r.cap) .. MaxCap : s = Grown(r, v, c)
    BY <1>3 DEF AfterPush
  <2> QED
    BY <2>1, <2>2, GrownFits
<1> QED
  BY <1>2, <1>3

-----------------------------------------------------------------------------
(* Operations that remove values.                                           *)
Shrunk(r, slots, h, l) == [r EXCEPT !.array = Without(r, slots), !.head = h, !.len = l]

LEMMA ShrunkFields ==
  ASSUME NEW r \in Rings, NEW slots, NEW h \in 0 .. r.cap, NEW l \in 0 .. r.cap,
         NEW s, s = Shrunk(r, slots, h, l)
  PROVE  /\ s \in Rings /\ s.cap = r.cap /\ s.head = h /\ s.len = l
         /\ s.array = Without(r, slots)
<1>1. PICK c \in 0 .. MaxCap : r \in RingOf(c)
  BY DEF Rings
<1>2. r.cap = c
  BY <1>1 DEF RingOf
<1>3. Without(r, slots) \in [0 .. c - 1 -> Value \cup {None}]
  BY <1>2, WithoutType
<1> DEFINE a == Without(r, slots)
<1> HIDE DEF a
<1>4. a \in [0 .. c - 1 -> Value \cup {None}] /\ s = [r EXCEPT !.array = a, !.head = h, !.len = l]
  BY <1>3 DEF a, Shrunk
<1>5. s \in RingOf(c) /\ s.array = a /\ s.cap = c /\ s.head = h /\ s.len = l
  BY <1>1, <1>2, <1>4 DEF RingOf
<1> QED
  BY <1>2, <1>5 DEF Rings, a

\* The values that are gone are those that the window loses.
LEMMA ShrunkExact ==
  ASSUME NEW r \in Rings, ExactWindow(r),
         NEW slots, NEW h \in 0 .. r.cap, NEW l \in 0 .. r.cap,
         NEW s, s = Shrunk(r, slots, h, l),
         r.cap > 0 => h < r.cap,
         \A i \in 0 .. r.cap - 1 :
           (Offset(r, i) < r.len /\ i \notin slots) <=> (IF i >= h THEN i - h ELSE i + (r.cap - h)) < l
  PROVE  ExactWindow(s)
<1>1. s \in Rings /\ s.cap = r.cap /\ s.head = h /\ s.len = l /\ s.array = Without(r, slots)
  BY ShrunkFields
<1>2. \A i \in 0 .. r.cap - 1 : r.array[i] # None <=> Offset(r, i) < r.len
  BY ExactOffset
<1>3. HeadInside(s)
  BY <1>1 DEF HeadInside
<1>4. \A i \in 0 .. r.cap - 1 : s.array[i] # None <=> (r.array[i] # None /\ i \notin slots)
  BY <1>1 DEF Without
<1>5. \A i \in 0 .. r.cap - 1 : s.array[i] # None <=> Offset(s, i) < s.len
  BY <1>1, <1>2, <1>4 DEF Offset
<1> QED
  BY <1>1, <1>3, <1>5, ExactOffset

\* The first n values are dropped, in whatever slots they are.
LEMMA DropFits ==
  ASSUME NEW r \in Rings, HeadInside(r), NEW n \in 0 .. r.len, NEW slots,
         \A i \in 0 .. r.cap - 1 : i \in slots <=> Offset(r, i) < n,
         NEW s, s = Shrunk(r, slots, RingIndex(r.head, n, r.cap), r.len - n)
  PROVE  /\ s \in Rings /\ s.cap = r.cap /\ s.head = RingIndex(r.head, n, r.cap) /\ s.len = r.len - n
         /\ HeadInside(s) /\ (ExactWindow(r) => ExactWindow(s))
<1> DEFINE h == RingIndex(r.head, n, r.cap)
           l == r.len - n
<1>1. r.cap \in Nat /\ r.head \in 0 .. r.cap /\ r.len \in 0 .. r.cap
  BY RingFields
<1>2. h \in 0 .. r.cap /\ l \in 0 .. r.cap /\ (r.cap > 0 => h < r.cap)
  BY <1>1 DEF RingIndex, HeadInside
<1>3. ASSUME NEW i \in 0 .. r.cap - 1
      PROVE  (Offset(r, i) < r.len /\ i \notin slots) <=> (IF i >= h THEN i - h ELSE i + (r.cap - h)) < l
  <2>1. (Offset(r, i) < r.len /\ Offset(r, i) >= n) <=> (IF i >= h THEN i - h ELSE i + (r.cap - h)) < l
    BY <1>1 DEF Offset, RingIndex, HeadInside
  <2>2. Offset(r, i) \in Int
    BY <1>1 DEF Offset
  <2> QED
    BY <1>1, <2>1, <2>2
<1> HIDE DEF h, l
<1>4. s = Shrunk(r, slots, h, l)
  BY DEF h, l
<1>5. s \in Rings /\ s.cap = r.cap /\ s.head = h /\ s.len = l
  BY <1>2, <1>4, ShrunkFields
<1>6. HeadInside(s)
  BY <1>2, <1>5 DEF HeadInside
<1>7. ExactWindow(r) => ExactWindow(s)
  BY <1>2, <1>3, <1>4, ShrunkExact
<1> QED
  BY <1>5, <1>6, <1>7 DEF h, l

\* pop is the same with one value.
LEMMA PopIsDrop ==
  ASSUME NEW r \in Rings, HeadInside(r), r.len # 0
  PROVE  /\ 1 \in 0 .. r.len
         /\ \A i \in 0 .. r.cap - 1 : i \in {r.head} <=> Offset(r, i) < 1
         /\ AfterPop(r) = Shrunk(r, {r.head}, RingIndex(r.head, 1, r.cap), r.len - 1)
<1>1. r.head \in 0 .. r.cap /\ r.len \in 0 .. r.cap /\ r.cap \in Nat \ {0} /\ r.head < r.cap
  BY RingFields DEF HeadInside
<1>2. (r.head + 1) % r.cap = RingIndex(r.head, 1, r.cap)
  <2>1. r.head + 1 = r.cap => (r.head + 1) % r.cap = 0
    BY <1>1
  <2>2. r.head + 1 < r.cap => (r.head + 1) % r.cap = r.head + 1
    BY <1>1
  <2> QED
    BY <1>1, <2>1, <2>2 DEF RingIndex
<1>3. \A i \in 0 .. r.cap - 1 : i \in {r.head} <=> Offset(r, i) < 1
  BY <1>1 DEF Offset
<1>4. AfterPop(r) = Shrunk(r, {r.head}, RingIndex(r.head, 1, r.cap), r.len - 1)
  BY <1>2 DEF AfterPop, Shrunk
<1>5. 1 \in 0 .. r.len
  BY <1>1
<1> QED
  BY <1>3, <1>4, <1>5

LEMMA PopFits ==
  ASSUME NEW r \in Rings, HeadInside(r)
  PROVE  AfterPop(r) \in Rings /\ HeadInside(AfterPop(r)) /\ (ExactWindow(r) => ExactWindow(AfterPop(r)))
<1>1. CASE r.len = 0
  BY <1>1 DEF AfterPop
<1>2. CASE r.len # 0
  <2> DEFINE s == AfterPop(r)
  <2>1. /\ 1 \in 0 .. r.len
        /\ \A i \in 0 .. r.cap - 1 : i \in {r.head} <=> Offset(r, i) < 1
        /\ s = Shrunk(r, {r.head}, RingIndex(r.head, 1, r.cap), r.len - 1)
    BY <1>2, PopIsDrop
  <2> HIDE DEF s
  <2>2. s \in Rings /\ HeadInside(s) /\ (ExactWindow(r) => ExactWindow(s))
    BY <2>1, DropFits
  <2> QED
    BY <2>2 DEF s
<1> QED
  BY <1>1, <1>2

\* The two slices cover the window.
LEMMA SlicesCover ==
  ASSUME NEW r \in Rings, HeadInside(r), NEW i \in 0 .. r.cap - 1
  PROVE  i \in Range(FrontSlice(r)) \cup Range(BackSlice(r)) <=> Offset(r, i) < r.len
<1>1. r.cap \in Nat /\ r.head \in 0 .. r.cap /\ r.len \in 0 .. r.cap
  BY RingFields
<1> DEFINE f == FrontLen(r)
<1>2. f \in 0 .. r.len /\ f = (IF r.len < r.cap - r.head THEN r.len ELSE r.cap - r.head)
  BY <1>1 DEF FrontLen
<1>3. Range(FrontSlice(r)) = {r.head + k - 1 : k \in 1 .. f}
  BY DEF Range, FrontSlice
<1>4. Range(BackSlice(r)) = {k - 1 : k \in 1 .. r.len - f}
  BY DEF Range, BackSlice
<1> HIDE DEF f
<1>5. i \in {r.head + k - 1 : k \in 1 .. f} <=> i >= r.head /\ i - r.head < f
  <2>1. i >= r.head /\ i - r.head < f => i - r.head + 1 \in 1 .. f /\ i = r.head + (i - r.head + 1) - 1
    BY <1>1, <1>2
  <2>2. ASSUME NEW k \in 1 .. f, i = r.head + k - 1 PROVE i >= r.head /\ i - r.head < f
    BY <1>1, <1>2, <2>2
  <2> QED
    BY <2>1, <2>2
<1>6. i \in {k - 1 : k \in 1 .. r.len - f} <=> i < r.len - f
  <2>1. i < r.len - f => i + 1 \in 1 .. r.len - f /\ i = (i + 1) - 1
    BY <1>1, <1>2
  <2>2. ASSUME NEW k \in 1 .. r.len - f, i = k - 1 PROVE i < r.len - f
    BY <1>1, <1>2, <2>2
  <2> QED
    BY <2>1, <2>2
<1>7. (i >= r.head /\ i - r.head < f) \/ i < r.len - f <=> Offset(r, i) < r.len
  BY <1>1, <1>2 DEF Offset, HeadInside
<1> QED
  BY <1>3, <1>4, <1>5, <1>6, <1>7

LEMMA ClearFits ==
  ASSUME NEW r \in Rings
  PROVE  Cleared(r) \in Rings /\ HeadInside(Cleared(r)) /\ (ExactWindow(r) => ExactWindow(Cleared(r)))
<1> DEFINE slots == Range(FrontSlice(r)) \cup Range(BackSlice(r))
           s == Shrunk(r, slots, 0, 0)
<1>1. r.cap \in Nat /\ 0 \in 0 .. r.cap
  BY RingFields
<1>2. Cleared(r) = s
  BY DEF Cleared, Shrunk
<1> HIDE DEF slots
<1>3. s \in Rings /\ s.cap = r.cap /\ s.head = 0
  BY <1>1, ShrunkFields
<1>4. HeadInside(s)
  BY <1>1, <1>3 DEF HeadInside
<1>5. ASSUME ExactWindow(r) PROVE ExactWindow(s)
  <2>1. ASSUME NEW i \in 0 .. r.cap - 1
        PROVE  (Offset(r, i) < r.len /\ i \notin slots) <=> (IF i >= 0 THEN i - 0 ELSE i + (r.cap - 0)) < 0
    <3>1. Offset(r, i) < r.len => i \in slots
      BY <1>5, SlicesCover, ExactOffset DEF slots
    <3> QED
      BY <1>1, <3>1
  <2>2. r.cap > 0 => 0 < r.cap
    OBVIOUS
  <2> QED
    BY <1>1, <1>5, <2>1, <2>2, ShrunkExact
<1> QED
  BY <1>2, <1>3, <1>4, <1>5

-----------------------------------------------------------------------------
(* The values as a sequence.                                                *)
LEMMA ContentsElements ==
  ASSUME NEW r \in Rings
  PROVE  /\ Contents(r) \in Seq(Value \cup {None}) /\ Len(Contents(r)) = r.len /\ r.len \in Nat
         /\ \A k \in 1 .. r.len : Contents(r)[k] = r.array[RingIndex(r.head, k - 1, r.cap)]
<1>1. r.len \in Nat /\ r.array \in [0 .. r.cap - 1 -> Value \cup {None}]
  BY RingFields
<1>2. \A k \in 1 .. r.len : r.array[Window(r)[k]] \in Value \cup {None}
  BY <1>1, WindowSlots
<1>3. Contents(r) \in [1 .. r.len -> Value \cup {None}]
  BY <1>2 DEF Contents
<1>4. Contents(r) \in Seq(Value \cup {None}) /\ Len(Contents(r)) = r.len
  BY <1>1, <1>3
<1>5. \A k \in 1 .. r.len : Contents(r)[k] = r.array[RingIndex(r.head, k - 1, r.cap)]
  BY WindowSlots DEF Contents
<1> QED
  BY <1>1, <1>4, <1>5

\* What is left of a rest after its first element is a rest again.
LEMMA SubSeqTail ==
  ASSUME NEW S, NEW q \in Seq(S), NEW n \in Nat, n < Len(q)
  PROVE  SubSeq(SubSeq(q, n+1, Len(q)), 2, Len(q) - n) = SubSeq(q, n+2, Len(q))
<1> DEFINE p == SubSeq(q, n + 1, Len(q))
           t == SubSeq(q, n + 2, Len(q))
<1>1. Len(q) \in Nat
  OBVIOUS
<1>2. p \in Seq(S) /\ Len(p) = Len(q) - n /\ \A k \in 1 .. Len(q) - n : p[k] = q[k + n]
  OBVIOUS
<1>3. t \in Seq(S) /\ Len(t) = Len(q) - n - 1 /\ \A k \in 1 .. Len(q) - n - 1 : t[k] = q[k + n + 1]
  OBVIOUS
<1> HIDE DEF p, t
<1>4. SubSeq(p, 2, Len(q) - n) \in Seq(S) /\ Len(SubSeq(p, 2, Len(q) - n)) = Len(q) - n - 1
      /\ \A k \in 1 .. Len(q) - n - 1 : SubSeq(p, 2, Len(q) - n)[k] = p[k + 1]
  <2> DEFINE m == Len(q) - n
  <2>1. m \in Nat \ {0} /\ Len(p) = m /\ p \in Seq(S)
    BY <1>1, <1>2
  <2> HIDE DEF m
  <2>2. /\ SubSeq(p, 2, m) \in Seq(S) /\ Len(SubSeq(p, 2, m)) = m - 1
        /\ \A k \in 1 .. m - 1 : SubSeq(p, 2, m)[k] = p[k + 1]
    BY <2>1
  <2> QED
    BY <2>2 DEF m
<1>5. \A k \in 1 .. Len(q) - n - 1 : p[k + 1] = t[k]
  BY <1>1, <1>2, <1>3
<1> DEFINE u == SubSeq(p, 2, Len(q) - n)
<1>6. u \in Seq(S) /\ Len(u) = Len(t) /\ \A k \in 1 .. Len(u) : u[k] = t[k]
  BY <1>3, <1>4, <1>5
<1> HIDE DEF u
<1>7. u = t
  BY <1>3, <1>6, SeqEqual
<1> QED
  BY <1>7 DEF u, t, p

LEMMA FirstElement ==
  ASSUME NEW r \in Rings, HeadInside(r)
  PROVE  /\ First(r) = IF 0 < Len(Contents(r)) THEN Contents(r)[1] ELSE None
         /\ First(r) \in Value \cup {None}
<1>1. r.cap \in Nat /\ r.head \in 0 .. r.cap /\ r.len \in 0 .. r.cap
  BY RingFields
<1>2. r.len # 0 => RingIndex(r.head, 1 - 1, r.cap) = r.head
  BY <1>1 DEF RingIndex, HeadInside
<1>3. r.len # 0 => 1 \in 1 .. r.len /\ Contents(r)[1] = r.array[r.head]
  BY <1>1, <1>2, ContentsElements
<1>4. r.len # 0 => Contents(r)[1] \in Value \cup {None}
  BY <1>3, ContentsElements
<1> QED
  BY <1>1, <1>3, <1>4, ContentsElements DEF First

LEMMA PushContents ==
  ASSUME NEW r \in Rings, NEW v \in Value, NEW s \in AfterPush(r, v)
  PROVE  s = r \/ Contents(s) = Append(Contents(r), v)
<1> DEFINE q == Contents(r)
<1>1. r.cap \in Nat /\ r.len \in 0 .. r.cap /\ r.head \in 0 .. r.cap
  BY RingFields
<1>2. /\ q \in Seq(Value \cup {None}) /\ Len(q) = r.len
      /\ \A k \in 1 .. r.len : q[k] = r.array[RingIndex(r.head, k - 1, r.cap)]
  BY ContentsElements
<1>3. /\ Append(q, v) \in Seq(Value \cup {None}) /\ Len(Append(q, v)) = r.len + 1
      /\ \A k \in 1 .. r.len : Append(q, v)[k] = q[k]
      /\ Append(q, v)[r.len + 1] = v
  BY <1>2, AppendProperties
<1>4. SUFFICES ASSUME s # r
               PROVE  /\ s \in Rings /\ s.len = r.len + 1
                      /\ \A k \in 1 .. r.len + 1 :
                           s.array[RingIndex(s.head, k - 1, s.cap)] = Append(q, v)[k]
  <2>1. ASSUME s \in Rings, s.len = r.len + 1,
               \A k \in 1 .. r.len + 1 : s.array[RingIndex(s.head, k - 1, s.cap)] = Append(q, v)[k]
        PROVE  Contents(s) = Append(q, v)
    <3>1. /\ Contents(s) \in Seq(Value \cup {None}) /\ Len(Contents(s)) = r.len + 1
          /\ \A k \in 1 .. r.len + 1 : Contents(s)[k] = Append(q, v)[k]
      BY <2>1, ContentsElements
    <3> HIDE DEF q
    <3> QED
      BY <1>3, <3>1, SeqEqual
  <2> QED
    BY <2>1
<1> HIDE DEF q
<1>5. CASE r.len < r.cap
  <2> DEFINE at == RingIndex(r.head, r.len, r.cap)
  <2>1. /\ s \in Rings /\ s.cap = r.cap /\ s.head = r.head /\ s.len = r.len + 1
        /\ s.array = [r.array EXCEPT ![at] = v]
    BY <1>5, StoredFields DEF AfterPush
  <2>2. r.array \in [0 .. r.cap - 1 -> Value \cup {None}]
    BY RingFields
  <2>3. \A k \in 0 .. r.len : RingIndex(r.head, k, r.cap) \in 0 .. r.cap - 1
                               /\ (RingIndex(r.head, k, r.cap) = at <=> k = r.len)
    BY <1>1, <1>5 DEF RingIndex
  <2> HIDE DEF at
  <2>4. ASSUME NEW k \in 1 .. r.len + 1
        PROVE  s.array[RingIndex(s.head, k - 1, s.cap)] = Append(q, v)[k]
    <3>1. k - 1 \in 0 .. r.len
      BY <1>1
    <3>2. CASE k = r.len + 1
      BY <1>1, <1>3, <2>1, <2>2, <2>3, <3>1, <3>2
    <3>3. CASE k \in 1 .. r.len
      BY <1>1, <1>2, <1>3, <2>1, <2>2, <2>3, <3>1, <3>3
    <3>4. k = r.len + 1 \/ k \in 1 .. r.len
      BY <1>1
    <3> QED
      BY <3>2, <3>3, <3>4
  <2> QED
    BY <2>1, <2>4
<1>6. CASE ~(r.len < r.cap)
  <2>1. r.len = r.cap
    BY <1>1, <1>6
  <2>2. PICK c \in NewCap(r.cap) .. MaxCap : s = Grown(r, v, c)
    BY <1>4, <1>6 DEF AfterPush
  <2>3. s \in Rings
    BY <2>1, <2>2, GrownFits
  <2>4. c \in Nat /\ c >= r.cap + 1
    BY <1>1, NewCapGrows, CapAssumption
  <2>5. s.cap = c /\ s.head = 0 /\ s.len = r.cap + 1
    BY <2>2 DEF Grown
  <2>6. ASSUME NEW k \in 1 .. r.cap + 1
        PROVE  s.array[RingIndex(s.head, k - 1, s.cap)] = Append(q, v)[k]
    <3>1. RingIndex(s.head, k - 1, s.cap) = k - 1 /\ k - 1 \in 0 .. c - 1
      BY <1>1, <2>4, <2>5 DEF RingIndex
    <3>2. s.array[k - 1] = IF k - 1 < r.cap - r.head THEN r.array[r.head + (k - 1)]
                           ELSE IF k - 1 < r.cap THEN r.array[(k - 1) - (r.cap - r.head)]
                           ELSE IF k - 1 = r.cap THEN v ELSE None
      BY <2>2, <3>1 DEF Grown
    <3>3. CASE k = r.cap + 1
      BY <1>1, <1>3, <2>1, <3>1, <3>2, <3>3
    <3>4. CASE k \in 1 .. r.cap
      <4>1. q[k] = r.array[RingIndex(r.head, k - 1, r.cap)] /\ Append(q, v)[k] = q[k]
        BY <1>2, <1>3, <2>1, <3>4
      <4>2. /\ k - 1 < r.cap - r.head => RingIndex(r.head, k - 1, r.cap) = r.head + (k - 1)
            /\ ~(k - 1 < r.cap - r.head) => RingIndex(r.head, k - 1, r.cap) = (k - 1) - (r.cap - r.head)
            /\ k - 1 < r.cap
        BY <1>1, <3>4 DEF RingIndex
      <4> QED
        BY <3>1, <3>2, <4>1, <4>2
    <3>5. k = r.cap + 1 \/ k \in 1 .. r.cap
      BY <1>1
    <3> QED
      BY <3>3, <3>4, <3>5
  <2> QED
    BY <2>1, <2>3, <2>5, <2>6
<1> QED
  BY <1>5, <1>6

LEMMA DropContents ==
  ASSUME NEW r \in Rings, HeadInside(r), NEW n \in 0 .. r.len, NEW slots,
         \A i \in 0 .. r.cap - 1 : i \in slots <=> Offset(r, i) < n,
         NEW s, s = Shrunk(r, slots, RingIndex(r.head, n, r.cap), r.len - n)
  PROVE  Contents(s) = SubSeq(Contents(r), n + 1, Len(Contents(r)))
<1> DEFINE q == Contents(r)
           h == RingIndex(r.head, n, r.cap)
<1>1. r.cap \in Nat /\ r.len \in 0 .. r.cap /\ r.head \in 0 .. r.cap
  BY RingFields
<1>2. /\ q \in Seq(Value \cup {None}) /\ Len(q) = r.len
      /\ \A k \in 1 .. r.len : q[k] = r.array[RingIndex(r.head, k - 1, r.cap)]
  BY ContentsElements
<1>3. s \in Rings /\ s.cap = r.cap /\ s.head = h /\ s.len = r.len - n
  BY DropFits
<1>4. s.array = Without(r, slots)
  <2>1. h \in 0 .. r.cap /\ r.len - n \in 0 .. r.cap
    BY <1>1 DEF RingIndex
  <2> QED
    BY <2>1, ShrunkFields
<1>5. /\ Contents(s) \in Seq(Value \cup {None}) /\ Len(Contents(s)) = r.len - n
      /\ \A k \in 1 .. r.len - n : Contents(s)[k] = s.array[RingIndex(h, k - 1, r.cap)]
  BY <1>3, ContentsElements
<1>6. ASSUME NEW k \in 1 .. r.len - n PROVE Contents(s)[k] = q[k + n]
  <2> DEFINE i == RingIndex(h, k - 1, r.cap)
  <2>1. i \in 0 .. r.cap - 1 /\ i = RingIndex(r.head, (k + n) - 1, r.cap) /\ ~(Offset(r, i) < n)
        /\ k + n \in 1 .. r.len
    BY <1>1 DEF RingIndex, Offset, HeadInside
  <2>2. s.array[i] = r.array[i]
    BY <1>4, <2>1 DEF Without
  <2> QED
    BY <1>2, <1>5, <2>1, <2>2
<1> HIDE DEF q, h
<1>7. CASE n = r.len
  <2>1. SubSeq(q, n + 1, Len(q)) = <<>>
    BY <1>1, <1>2, <1>7, SubSeqEmpty
  <2>2. Len(Contents(s)) = 0
    BY <1>1, <1>5, <1>7
  <2>3. Contents(s) = <<>>
    BY <1>5, <2>2, EmptySeq
  <2> QED
    BY <2>1, <2>3 DEF q
<1>8. CASE n < r.len
  <2>1. /\ SubSeq(q, n + 1, Len(q)) \in Seq(Value \cup {None})
        /\ Len(SubSeq(q, n + 1, Len(q))) = r.len - n
        /\ \A k \in 1 .. r.len - n : SubSeq(q, n + 1, Len(q))[k] = q[k + n]
    BY <1>1, <1>2, <1>8, SubSeqProperties
  <2> QED
    BY <1>5, <1>6, <2>1, SeqEqual DEF q
<1> QED
  BY <1>1, <1>7, <1>8

LEMMA PopContents ==
  ASSUME NEW r \in Rings, HeadInside(r)
  PROVE  Contents(AfterPop(r)) = SubSeq(Contents(r), 2, Len(Contents(r)))
<1>1. CASE r.len = 0
  <2>1. AfterPop(r) = r /\ Len(Contents(r)) = 0 /\ Contents(r) \in Seq(Value \cup {None})
    BY <1>1, ContentsElements DEF AfterPop
  <2>2. Contents(r) = <<>> /\ SubSeq(Contents(r), 2, 0) = <<>>
    BY <2>1, EmptySeq, SubSeqEmpty
  <2> QED
    BY <2>1, <2>2
<1>2. CASE r.len # 0
  <2>1. Contents(AfterPop(r)) = SubSeq(Contents(r), 1 + 1, Len(Contents(r)))
    BY <1>2, PopIsDrop, DropContents
  <2> QED
    BY <2>1
<1> QED
  BY <1>1, <1>2

LEMMA ClearContents ==
  ASSUME NEW r \in Rings
  PROVE  Contents(Cleared(r)) = <<>>
<1>1. Cleared(r) \in Rings /\ Cleared(r).len = 0
  <2>1. PICK c \in 0 .. MaxCap : r \in RingOf(c)
    BY DEF Rings
  <2> QED
    BY <2>1, ClearFits, Zenon DEF Cleared, RingOf
<1> QED
  BY <1>1, ContentsElements, EmptySeq
=============================================================================
