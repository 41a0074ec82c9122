-------------------------- MODULE FlipQueueProofs ---------------------------
(***************************************************************************)
(* Theorems about FlipQueue for any set of callers, every set of values    *)
(* and every capacity.                                                     *)
(***************************************************************************)
EXTENDS FlipQueue, RingProofs

Shared == {"try_push", "push", "write", "try_pop", "pop", "read", "check", "leave"}

\* Each call holds the lock, or the borrow, that its next step needs.
Locked ==
  \A t \in Thread :
    /\ pc[t] \in Shared => mode[t] = "shared"
    /\ pc[t] \in {"locked", "exclusive"} => mode[t] = "exclusive"
    /\ pc[t] \in {"idle", "slow"} => mode[t] = "none"

\* The lock keeps its contract.
Exclusive ==
  \A s, t \in Thread : mode[s] = "exclusive" /\ s # t => mode[t] = "none"

\* What a call that pushes carries.
Carries(t) == \E v \in Value : val[t] = <<v>>
Carrying ==
  \A t \in Thread :
    /\ pc[t] \in {"try_push", "push", "write"} => Carries(t)
    /\ pc[t] \in {"leave", "slow", "locked"} => val[t] = <<>> \/ Carries(t)
    /\ pc[t] \in {"idle", "try_pop", "pop", "read", "check", "exclusive"} => val[t] = <<>>

\* Where the slots lie that are reserved and not yet accessed: behind the
\* window, as many as there were pushes, or at its beginning.
Reserved ==
  \A t \in Thread :
    /\ Accessing(t) <=> pc[t] \in {"write", "read"}
    /\ pc[t] = "write" => /\ ring.len <= Offset(ring, slot[t])
                          /\ Offset(ring, slot[t]) < ring.len + pushed
    /\ pc[t] = "read" => Offset(ring, slot[t]) < popped /\ Offset(ring, slot[t]) < ring.len

-----------------------------------------------------------------------------
(* Positions behind the head.                                               *)
LEMMA IndexOffset ==
  ASSUME NEW r \in Rings, HeadInside(r), NEW i \in 0 .. r.cap - 1
  PROVE  /\ RingIndex(r.head, i, r.cap) \in 0 .. r.cap - 1
         /\ Offset(r, RingIndex(r.head, i, r.cap)) = i
<1>1. r.cap \in Nat /\ r.head \in 0 .. r.cap
  BY RingFields
<1> QED
  BY <1>1 DEF RingIndex, Offset, HeadInside

LEMMA OffsetInjective ==
  ASSUME NEW r \in Rings, HeadInside(r), NEW i \in 0 .. r.cap - 1, NEW j \in 0 .. r.cap - 1,
         Offset(r, i) = Offset(r, j)
  PROVE  i = j
<1>1. r.cap \in Nat /\ r.head \in 0 .. r.cap
  BY RingFields
<1> QED
  BY <1>1 DEF Offset, HeadInside

\* What the counts come to in a flush.
Pops == IF popped < ring.len THEN popped ELSE ring.len
Pushes == IF pushed < Vacant(ring) THEN pushed ELSE Vacant(ring)

LEMMA FlushedFields ==
  ASSUME ring \in Rings, HeadInside(ring), popped \in Nat, pushed \in Nat
  PROVE  /\ Flushed(ring) \in Rings /\ HeadInside(Flushed(ring))
         /\ Flushed(ring).array = ring.array /\ Flushed(ring).cap = ring.cap
         /\ Flushed(ring).head = RingIndex(ring.head, Pops, ring.cap)
         /\ Flushed(ring).len = ring.len - Pops + Pushes
         /\ Pops \in 0 .. ring.len /\ Pushes \in 0 .. Vacant(ring)
<1> DEFINE s == Flushed(ring)
           h == RingIndex(ring.head, Pops, ring.cap)
           l == ring.len - Pops + Pushes
<1>1. PICK c \in 0 .. MaxCap : ring \in RingOf(c)
  BY DEF Rings
<1>2. ring.cap = c /\ c \in Nat /\ ring.len \in 0 .. c /\ ring.head \in 0 .. c
  BY <1>1, CapAssumption DEF RingOf
<1>3. Pops \in 0 .. ring.len /\ Pushes \in 0 .. Vacant(ring)
  BY <1>2 DEF Pops, Pushes, Vacant
<1>4. l \in 0 .. c /\ h \in 0 .. c /\ (c > 0 => h < c)
  BY <1>2, <1>3 DEF Vacant, RingIndex, HeadInside
<1>5. s = [ring EXCEPT !.head = h, !.len = l]
  BY DEF Flushed, Pops, Pushes
<1> HIDE DEF h, l, s
<1>6. s \in RingOf(c) /\ s.array = ring.array /\ s.cap = c /\ s.head = h /\ s.len = l
  BY <1>1, <1>4, <1>5 DEF RingOf
<1>7. s \in Rings /\ HeadInside(s)
  BY <1>4, <1>6 DEF Rings, HeadInside
<1> QED
  BY <1>2, <1>3, <1>6, <1>7 DEF h, l, s

LEMMA FlushedWindow ==
  ASSUME ring \in Rings, HeadInside(ring), popped \in Nat, pushed \in Nat,
         NEW i \in 0 .. ring.cap - 1
  PROVE  i \in Range(Window(Flushed(ring))) <=>
           Pops <= Offset(ring, i) /\ Offset(ring, i) < ring.len + Pushes
<1> DEFINE s == Flushed(ring)
<1>1. /\ s \in Rings /\ HeadInside(s) /\ s.cap = ring.cap
      /\ s.head = RingIndex(ring.head, Pops, ring.cap) /\ s.len = ring.len - Pops + Pushes
      /\ Pops \in 0 .. ring.len /\ Pushes \in 0 .. Vacant(ring)
  BY FlushedFields
<1>2. ring.cap \in Nat /\ ring.head \in 0 .. ring.cap /\ ring.len \in 0 .. ring.cap
  BY RingFields
<1> HIDE DEF s
<1>3. i \in Range(Window(s)) <=> Offset(s, i) < s.len
  BY <1>1, WindowOffset
<1>4. Offset(s, i) < s.len <=> Pops <= Offset(ring, i) /\ Offset(ring, i) < ring.len + Pushes
  <2> DEFINE o == Pops
             n == Pushes
  <2>1. o \in 0 .. ring.len /\ n \in 0 .. ring.cap - ring.len
    BY <1>1 DEF Vacant
  <2>2. s.cap = ring.cap /\ s.head = RingIndex(ring.head, o, ring.cap) /\ s.len = ring.len - o + n
    BY <1>1
  <2> HIDE DEF o, n
  <2>3. Offset(s, i) < s.len <=> o <= Offset(ring, i) /\ Offset(ring, i) < ring.len + n
    BY <1>2, <2>1, <2>2 DEF Offset, RingIndex, HeadInside
  <2> QED
    BY <2>3 DEF o, n
<1> QED
  BY <1>3, <1>4 DEF s

-----------------------------------------------------------------------------
(* NothingLost in terms of offsets, and the inductive invariant.            *)
Writing(i) == \E t \in Thread : pc[t] = "write" /\ slot[t] = i
Reading(i) == \E t \in Thread : pc[t] = "read" /\ slot[t] = i

Found(i) == Pops <= Offset(ring, i) /\ Offset(ring, i) < ring.len + Pushes

AllThere ==
  \A i \in 0 .. ring.cap - 1 :
    ring.array[i] # None <=> (Found(i) /\ ~Writing(i)) \/ Reading(i)

IInv ==
  /\ TypeOK
  /\ HeadInside(ring)
  /\ Locked
  /\ Exclusive
  /\ Carrying
  /\ Reserved
  /\ SlotsExclusive
  /\ AllThere

LEMMA Counts ==
  ASSUME TypeOK
  PROVE  /\ ring \in Rings /\ popped \in Nat /\ pushed \in Nat
         /\ ring.cap \in Nat /\ ring.head \in 0 .. ring.cap /\ ring.len \in 0 .. ring.cap
         /\ popped \in 0 .. ring.len + 1 /\ pushed \in 0 .. ring.cap - ring.len + 1
         /\ slot \in [Thread -> 0 .. ring.cap - 1 \cup {NoSlot}]
         /\ val \in [Thread -> Seq(Value \cup {None})]
BY RingFields DEF TypeOK, FlipTypeOK, Vacant

LEMMA AllThereIsIt == IInv => NothingLost
<1> SUFFICES ASSUME IInv, NEW i \in 0 .. ring.cap - 1
             PROVE  ring.array[i] # None <=>
                      (i \in Range(Window(Flushed(ring))) /\ ~Writing(i)) \/ Reading(i)
  BY DEF NothingLost, Writing, Reading
<1>1. i \in Range(Window(Flushed(ring))) <=> Found(i)
  BY Counts, FlushedWindow DEF IInv, Found
<1> QED
  BY <1>1 DEF IInv, AllThere

LEMMA InitInv == Init => IInv
<1> SUFFICES ASSUME Init PROVE IInv
  OBVIOUS
<1>1. PICK c \in 0 .. MaxCap : ring = WithCapacity(c)
  BY DEF Init, FlipInit
<1>2. /\ ring \in Rings /\ HeadInside(ring) /\ ExactWindow(ring)
      /\ ring.cap = c /\ c \in Nat /\ ring.len = 0 /\ ring.head = 0
  <2>1. ring \in Rings /\ HeadInside(ring) /\ ExactWindow(ring)
    BY <1>1, WithCapacityFits
  <2>2. ring.cap = c /\ c \in Nat /\ ring.len = 0 /\ ring.head = 0
    BY <1>1, CapAssumption DEF WithCapacity
  <2> QED
    BY <2>1, <2>2
<1>3. TypeOK
  <2>1. popped \in 0 .. ring.len + 1 /\ pushed \in 0 .. Vacant(ring) + 1
    BY <1>2 DEF Init, FlipInit, Vacant
  <2>2. slot \in [Thread -> 0 .. ring.cap - 1 \cup {NoSlot}] /\ val \in [Thread -> Seq(Value \cup {None})]
    BY DEF Init, FlipInit
  <2> QED
    BY <1>2, <2>1, <2>2 DEF Init, TypeOK, FlipTypeOK, Lock!Init, Lock!TypeOK, Lock!Mode
<1>4. Locked /\ Exclusive /\ Carrying /\ SlotsExclusive
  BY DEF Init, FlipInit, Lock!Init, Locked, Exclusive, Carrying, SlotsExclusive, Accessing, Shared
<1>5. Reserved
  BY DEF Init, FlipInit, Reserved, Accessing
<1>6. AllThere
  <2>1. \A i \in 0 .. ring.cap - 1 : ring.array[i] = None
    BY <1>1, <1>2 DEF WithCapacity
  <2>2. Pops = 0 /\ Pushes = 0
    BY <1>2 DEF Init, FlipInit, Pops, Pushes, Vacant
  <2>3. ASSUME NEW i \in 0 .. ring.cap - 1 PROVE ~Found(i) /\ ~Reading(i)
    BY <1>2, <2>2 DEF Found, Offset, Reading, Init
  <2> QED
    BY <2>1, <2>3 DEF AllThere
<1> QED
  BY <1>2, <1>3, <1>4, <1>5, <1>6 DEF IInv

-----------------------------------------------------------------------------
(* Steps that move between a call and its lock: no slot is reserved or      *)
(* accessed.                                                                *)
LEMMA SameSlots ==
  ASSUME IInv, UNCHANGED <<ring, popped, pushed, slot>>,
         \A t \in Thread : pc'[t] = pc[t] \/ {pc[t], pc'[t]} \cap {"write", "read"} = {}
  PROVE  HeadInside(ring)' /\ Reserved' /\ SlotsExclusive' /\ AllThere'
<1>1. \A t \in Thread : /\ pc'[t] = "write" <=> pc[t] = "write"
                        /\ pc'[t] = "read" <=> pc[t] = "read"
  OBVIOUS
<1>2. HeadInside(ring)' /\ Reserved' /\ SlotsExclusive'
  BY <1>1 DEF IInv, Reserved, SlotsExclusive, Accessing, Offset, HeadInside
<1>3. \A i : Writing(i)' = Writing(i) /\ Reading(i)' = Reading(i)
  BY <1>1 DEF Writing, Reading
<1>4. \A i : Found(i)' = Found(i)
  BY DEF Found, Pops, Pushes, Vacant, Offset
<1> QED
  BY <1>2, <1>3, <1>4 DEF IInv, AllThere

LEMMA LockStepInv ==
  ASSUME IInv, NEW t \in Thread,
         Begin(t) \/ Check(t) \/ Leave(t) \/ LockSlow(t) \/ Return(t)
  PROVE  IInv'
<1> USE DEF Goto, At, Got
<1>1. UNCHANGED <<ring, popped, pushed, slot>>
  BY DEF Begin, BeginPush, BeginPop, BeginExclusive, Check, Leave, LockSlow, Return, flipVars
<1>2. /\ Lock!AcquireShared(t) \/ Lock!AcquireExclusive(t) \/ Lock!Release(t) \/ UNCHANGED mode
      /\ pc[t] \in {"idle", "check", "leave", "slow", "done"}
      /\ \E p \in {"try_push", "push", "try_pop", "pop", "exclusive", "leave", "done", "slow",
                   "locked", "idle"} : pc' = [pc EXCEPT ![t] = p]
      /\ \E w \in {<<v>> : v \in Value} \cup {<<None>>, <<>>, val[t]} : val' = [val EXCEPT ![t] = w]
  <2>1. val = [val EXCEPT ![t] = val[t]]
    BY DEF IInv, TypeOK, FlipTypeOK
  <2> QED
    BY <2>1 DEF Begin, BeginPush, BeginPop, BeginExclusive, Check, Leave, LockSlow, Return, flipVars
<1>3. HeadInside(ring)' /\ Reserved' /\ SlotsExclusive' /\ AllThere'
  BY <1>1, <1>2, SameSlots DEF IInv, TypeOK
<1>4. TypeOK'
  <2>1. Lock!TypeOK'
    BY <1>2 DEF IInv, TypeOK, Lock!TypeOK, Lock!Mode, Lock!AcquireShared, Lock!AcquireExclusive, Lock!Release
  <2>2. val' \in [Thread -> Seq(Value \cup {None})]
    <3>1. \A w \in {<<v>> : v \in Value} \cup {<<None>>, <<>>, val[t]} : w \in Seq(Value \cup {None})
      <4>1. \A v \in Value \cup {None} : <<v>> \in Seq(Value \cup {None})
        OBVIOUS
      <4>2. <<>> \in Seq(Value \cup {None}) /\ val[t] \in Seq(Value \cup {None})
        BY DEF IInv, TypeOK, FlipTypeOK
      <4> QED
        BY <4>1, <4>2
    <3> QED
      BY <1>2, <3>1 DEF IInv, TypeOK, FlipTypeOK
  <2>3. pc' \in [Thread -> {"idle", "try_push", "push", "write", "try_pop", "pop", "read",
                            "check", "leave", "slow", "locked", "exclusive", "done"}]
    BY <1>2 DEF IInv, TypeOK
  <2> QED
    BY <1>1, <2>1, <2>2, <2>3 DEF IInv, TypeOK, FlipTypeOK, Vacant
<1>5. Locked' /\ Exclusive'
  <2>1. CASE Begin(t)
    BY <2>1 DEF IInv, TypeOK, Lock!TypeOK, Locked, Exclusive, Shared, Lock!AcquireShared,
                Lock!AcquireExclusive, Begin, BeginPush, BeginPop, BeginExclusive
  <2>2. CASE Check(t)
    BY <2>2 DEF IInv, TypeOK, Lock!TypeOK, Locked, Exclusive, Shared, Check
  <2>3. CASE Leave(t) \/ Return(t)
    BY <2>3 DEF IInv, TypeOK, Lock!TypeOK, Locked, Exclusive, Shared, Lock!Release, Leave, Return
  <2>4. CASE LockSlow(t)
    BY <2>4 DEF IInv, TypeOK, Lock!TypeOK, Locked, Exclusive, Shared, Lock!AcquireExclusive, LockSlow
  <2> QED
    BY <2>1, <2>2, <2>3, <2>4
<1>6. Carrying'
  <2> DEFINE Fit == /\ pc'[t] \in {"try_push", "push"} => \E v \in Value : val'[t] = <<v>>
                    /\ pc'[t] \in {"leave", "slow", "locked"} =>
                         val'[t] = <<>> \/ \E v \in Value : val'[t] = <<v>>
                    /\ pc'[t] \in {"idle", "try_pop", "pop", "check", "exclusive"} => val'[t] = <<>>
                    /\ pc'[t] \notin {"write", "read"}
  <2>1. DOMAIN pc = Thread /\ DOMAIN val = Thread
    BY DEF IInv, TypeOK, FlipTypeOK
  <2>2. \A s \in Thread \ {t} : pc'[s] = pc[s] /\ val'[s] = val[s]
    BY <1>2, <2>1
  <2>3. ASSUME \E v \in Value : BeginPush(t, v, "try_push") \/ BeginPush(t, v, "push") PROVE Fit
    <3>1. PICK v \in Value : val' = [val EXCEPT ![t] = <<v>>] /\ pc'[t] \in {"try_push", "push"}
      BY <2>1, <2>3 DEF BeginPush, Goto, Got
    <3> QED
      BY <2>1, <3>1
  <2>4. ASSUME BeginPop(t, "try_pop") \/ BeginPop(t, "pop") \/ BeginExclusive(t) PROVE Fit
    <3>1. pc[t] = "idle" /\ val' = val /\ pc'[t] \in {"try_pop", "pop", "exclusive"}
      BY <2>1, <2>4 DEF BeginPop, BeginExclusive, Goto, flipVars
    <3> QED
      BY <3>1 DEF IInv, Carrying
  <2>5. ASSUME Check(t) PROVE Fit
    <3>1. pc[t] = "check" /\ (pc'[t] = "done" \/ (pc'[t] = "leave" /\ val' = val))
      BY <2>1, <2>5 DEF Check, At, Goto
    <3> QED
      BY <3>1 DEF IInv, Carrying
  <2>6. ASSUME Leave(t) \/ LockSlow(t) PROVE Fit
    <3>1. pc[t] \in {"leave", "slow"} /\ val' = val /\ pc'[t] \in {"slow", "locked"}
      BY <2>1, <2>6 DEF Leave, LockSlow, Goto, flipVars
    <3> QED
      BY <3>1 DEF IInv, Carrying, Carries
  <2>7. ASSUME Return(t) PROVE Fit
    <3>1. val'[t] = <<>> /\ pc'[t] = "idle"
      BY <2>1, <2>7 DEF Return, Goto, Got
    <3> QED
      BY <3>1
  <2>8. Fit
    BY <2>3, <2>4, <2>5, <2>6, <2>7 DEF Begin
  <2> QED
    BY <2>2, <2>8 DEF IInv, Carrying, Carries
<1> QED
  BY <1>3, <1>4, <1>5, <1>6 DEF IInv

-----------------------------------------------------------------------------
(* Reserving.                                                               *)

\* A count that is at its limit already finds nothing new in a flush, and one
\* above it stays where it is.
LEMMA PushReserves ==
  ASSUME IInv, NEW t \in Thread, pc[t] \in {"try_push", "push"},
         UNCHANGED <<ring, popped, mode>>,
         pushed' = Bumped(pushed, Vacant(ring)),
         CanPush => slot' = [slot EXCEPT ![t] = PushSlot] /\ pc' = [pc EXCEPT ![t] = "write"],
         ~CanPush => /\ UNCHANGED slot
                     /\ \E p \in {"done", "leave"} : pc' = [pc EXCEPT ![t] = p]
  PROVE  /\ HeadInside(ring)' /\ Reserved' /\ SlotsExclusive' /\ AllThere'
         /\ slot' \in [Thread -> 0 .. ring.cap - 1 \cup {NoSlot}]
         /\ pushed' \in 0 .. Vacant(ring) + 1
<1> DEFINE limit == ring.cap - ring.len
<1>1. /\ ring \in Rings /\ HeadInside(ring) /\ popped \in Nat /\ pushed \in Nat
      /\ ring.cap \in Nat /\ ring.head \in 0 .. ring.cap /\ ring.len \in 0 .. ring.cap
      /\ pushed \in 0 .. limit + 1 /\ limit \in Nat /\ Vacant(ring) = limit
      /\ slot \in [Thread -> 0 .. ring.cap - 1 \cup {NoSlot}]
      /\ DOMAIN pc = Thread
  BY Counts DEF IInv, TypeOK, Vacant
<1>2. pushed' = (IF pushed <= limit THEN pushed + 1 ELSE pushed) /\ (CanPush <=> pushed < limit)
  BY <1>1 DEF Bumped, CanPush
<1>3. Pops' = Pops /\ Pops \in 0 .. ring.len
  BY <1>1 DEF Pops
<1>4. Pushes' = (IF CanPush THEN Pushes + 1 ELSE Pushes) /\ (CanPush => Pushes = pushed)
  BY <1>1, <1>2 DEF Pushes, Vacant
<1>5. HeadInside(ring)' /\ pushed' \in 0 .. Vacant(ring) + 1
  BY <1>1, <1>2
<1>6. \A i : Offset(ring, i)' = Offset(ring, i)
  BY DEF Offset
<1>7. ~Accessing(t) /\ pc[t] \notin {"write", "read"}
  BY DEF IInv, Reserved
<1>8. CASE ~CanPush
  <2>1. \A s \in Thread : (pc'[s] = "write" <=> pc[s] = "write") /\ (pc'[s] = "read" <=> pc[s] = "read")
    BY <1>1, <1>7, <1>8
  <2>2. Reserved'
    <3>1. \A s \in Thread : pc[s] = "write" => Offset(ring, slot[s]) \in Int
      BY <1>1 DEF IInv, Reserved, Accessing, Offset
    <3>2. pushed <= pushed'
      BY <1>1, <1>2
    <3>3. \A s \in Thread : pc[s] = "write" => Offset(ring, slot[s]) < ring.len + pushed'
      BY <1>1, <1>2, <3>1, <3>2 DEF IInv, Reserved
    <3> QED
      BY <1>6, <1>8, <2>1, <3>3 DEF IInv, Reserved, Accessing
  <2>3. SlotsExclusive'
    BY <1>8 DEF IInv, SlotsExclusive, Accessing
  <2>4. \A i : Writing(i)' = Writing(i) /\ Reading(i)' = Reading(i) /\ Found(i)' = Found(i)
    BY <1>3, <1>4, <1>6, <1>8, <2>1 DEF Writing, Reading, Found
  <2>5. AllThere'
    BY <2>4 DEF IInv, AllThere
  <2> QED
    BY <1>1, <1>5, <1>8, <2>2, <2>3, <2>5
<1>9. CASE CanPush
  <2>1. /\ PushSlot \in 0 .. ring.cap - 1 /\ Offset(ring, PushSlot) = ring.len + pushed
        /\ PushSlot # NoSlot
    <3>1. ring.len + pushed \in 0 .. ring.cap - 1
      BY <1>1, <1>2, <1>9
    <3>2. PushSlot \in 0 .. ring.cap - 1 /\ Offset(ring, PushSlot) = ring.len + pushed
      BY <1>1, <3>1, IndexOffset DEF PushSlot
    <3> QED
      BY <1>1, <3>2 DEF NoSlot
  <2> DEFINE at == PushSlot
  <2> HIDE DEF at
  <2>2. /\ slot' = [slot EXCEPT ![t] = at] /\ pc' = [pc EXCEPT ![t] = "write"]
        /\ at \in 0 .. ring.cap - 1 /\ Offset(ring, at) = ring.len + pushed /\ at # NoSlot
        /\ pushed' = pushed + 1
    BY <1>1, <1>2, <1>9, <2>1 DEF at
  <2>3. ASSUME NEW s \in Thread, Accessing(s) PROVE slot[s] # at /\ slot[s] \in 0 .. ring.cap - 1
    <3>1. slot[s] \in 0 .. ring.cap - 1
      BY <1>1, <2>3 DEF Accessing
    <3>2. Offset(ring, slot[s]) < ring.len + pushed
      BY <1>1, <2>3, <3>1 DEF IInv, Reserved, Offset
    <3> QED
      BY <1>1, <2>2, <3>1, <3>2 DEF Offset
  <2>4. Reserved'
    <3>1. ASSUME NEW s \in Thread, s # t
          PROVE /\ Accessing(s)' = Accessing(s) /\ slot'[s] = slot[s] /\ pc'[s] = pc[s]
      BY <1>1, <2>2, <3>1 DEF Accessing
    <3>2. Accessing(t)' /\ slot'[t] = at /\ pc'[t] = "write"
      BY <1>1, <2>2 DEF Accessing
    <3>3. \A s \in Thread : pc[s] = "write" => slot[s] \in 0 .. ring.cap - 1 /\ Offset(ring, slot[s]) \in Int
      BY <1>1, <2>3 DEF IInv, Reserved, Offset
    <3> QED
      BY <1>1, <1>6, <2>2, <3>1, <3>2, <3>3 DEF IInv, Reserved
  <2>5. SlotsExclusive'
    BY <1>1, <2>2, <2>3 DEF IInv, SlotsExclusive, Accessing
  <2>6. ASSUME NEW i \in 0 .. ring.cap - 1
        PROVE  /\ Found(i)' <=> Found(i) \/ i = at
               /\ Reading(i)' = Reading(i)
               /\ Writing(i)' <=> Writing(i) \/ i = at
    <3>1. Reading(i)' = Reading(i) /\ (Writing(i)' <=> Writing(i) \/ i = at)
      BY <1>1, <1>7, <2>2 DEF Reading, Writing
    <3>2. Offset(ring, i) = ring.len + pushed <=> i = at
      BY <1>1, <2>2, OffsetInjective
    <3>3. Offset(ring, i) \in Int
      BY <1>1 DEF Offset
    <3>4. Found(i)' <=> Pops <= Offset(ring, i) /\ Offset(ring, i) < ring.len + (pushed + 1)
      BY <1>3, <1>4, <1>6, <1>9 DEF Found
    <3>5. Found(i) <=> Pops <= Offset(ring, i) /\ Offset(ring, i) < ring.len + pushed
      BY <1>4, <1>9 DEF Found
    <3> QED
      BY <1>1, <1>3, <3>1, <3>2, <3>3, <3>4, <3>5
  <2>7. ~Found(at) /\ ~Reading(at) /\ ~Writing(at)
    <3>1. ~Found(at)
      BY <1>1, <1>4, <1>9, <2>2 DEF Found
    <3>2. ~Reading(at) /\ ~Writing(at)
      BY <2>3 DEF IInv, Reserved, Reading, Writing
    <3> QED
      BY <3>1, <3>2
  <2>8. AllThere'
    BY <2>2, <2>6, <2>7 DEF IInv, AllThere
  <2> QED
    BY <1>1, <1>5, <2>2, <2>4, <2>5, <2>8
<1> QED
  BY <1>8, <1>9

LEMMA PopReserves ==
  ASSUME IInv, NEW t \in Thread, pc[t] \in {"try_pop", "pop"},
         UNCHANGED <<ring, pushed, mode>>,
         popped' = Bumped(popped, ring.len),
         CanPop => slot' = [slot EXCEPT ![t] = PopSlot] /\ pc' = [pc EXCEPT ![t] = "read"],
         ~CanPop => /\ UNCHANGED slot
                    /\ \E p \in {"done", "check"} : pc' = [pc EXCEPT ![t] = p]
  PROVE  /\ HeadInside(ring)' /\ Reserved' /\ SlotsExclusive' /\ AllThere'
         /\ slot' \in [Thread -> 0 .. ring.cap - 1 \cup {NoSlot}]
         /\ popped' \in 0 .. ring.len + 1
<1>1. /\ ring \in Rings /\ HeadInside(ring) /\ popped \in Nat /\ pushed \in Nat
      /\ ring.cap \in Nat /\ ring.head \in 0 .. ring.cap /\ ring.len \in 0 .. ring.cap
      /\ popped \in 0 .. ring.len + 1
      /\ slot \in [Thread -> 0 .. ring.cap - 1 \cup {NoSlot}]
      /\ DOMAIN pc = Thread
  BY Counts DEF IInv, TypeOK
<1>2. popped' = (IF popped <= ring.len THEN popped + 1 ELSE popped) /\ (CanPop <=> popped < ring.len)
  BY <1>1 DEF Bumped, CanPop
<1>3. Pushes' = Pushes /\ Pushes \in 0 .. ring.cap - ring.len
  BY <1>1 DEF Pushes, Vacant
<1>4. Pops' = (IF CanPop THEN Pops + 1 ELSE Pops) /\ (CanPop => Pops = popped)
  BY <1>1, <1>2 DEF Pops
<1>5. HeadInside(ring)' /\ popped' \in 0 .. ring.len + 1
  BY <1>1, <1>2
<1>6. \A i : Offset(ring, i)' = Offset(ring, i)
  BY DEF Offset
<1>7. ~Accessing(t) /\ pc[t] \notin {"write", "read"}
  BY DEF IInv, Reserved
<1>8. CASE ~CanPop
  <2>1. \A s \in Thread : (pc'[s] = "write" <=> pc[s] = "write") /\ (pc'[s] = "read" <=> pc[s] = "read")
    BY <1>1, <1>7, <1>8
  <2>2. Reserved'
    <3>1. \A s \in Thread : pc[s] = "read" => Offset(ring, slot[s]) \in Int
      BY <1>1 DEF IInv, Reserved, Accessing, Offset
    <3>2. popped <= popped'
      BY <1>1, <1>2
    <3>3. \A s \in Thread : pc[s] = "read" => Offset(ring, slot[s]) < popped'
      BY <1>1, <1>2, <3>1, <3>2 DEF IInv, Reserved
    <3> QED
      BY <1>6, <1>8, <2>1, <3>3 DEF IInv, Reserved, Accessing
  <2>3. SlotsExclusive'
    BY <1>8 DEF IInv, SlotsExclusive, Accessing
  <2>4. \A i : Writing(i)' = Writing(i) /\ Reading(i)' = Reading(i) /\ Found(i)' = Found(i)
    BY <1>3, <1>4, <1>6, <1>8, <2>1 DEF Writing, Reading, Found
  <2>5. AllThere'
    BY <2>4 DEF IInv, AllThere
  <2> QED
    BY <1>1, <1>5, <1>8, <2>2, <2>3, <2>5
<1>9. CASE CanPop
  <2>1. /\ PopSlot \in 0 .. ring.cap - 1 /\ Offset(ring, PopSlot) = popped
        /\ PopSlot # NoSlot
    <3>1. popped \in 0 .. ring.cap - 1
      BY <1>1, <1>2, <1>9
    <3>2. PopSlot \in 0 .. ring.cap - 1 /\ Offset(ring, PopSlot) = popped
      BY <1>1, <3>1, IndexOffset DEF PopSlot
    <3> QED
      BY <1>1, <3>2 DEF NoSlot
  <2> DEFINE at == PopSlot
  <2> HIDE DEF at
  <2>2. /\ slot' = [slot EXCEPT ![t] = at] /\ pc' = [pc EXCEPT ![t] = "read"]
        /\ at \in 0 .. ring.cap - 1 /\ Offset(ring, at) = popped /\ at # NoSlot
        /\ popped' = popped + 1 /\ popped < ring.len
    BY <1>1, <1>2, <1>9, <2>1 DEF at
  <2>3. ASSUME NEW s \in Thread, Accessing(s) PROVE slot[s] # at /\ slot[s] \in 0 .. ring.cap - 1
    <3>1. slot[s] \in 0 .. ring.cap - 1
      BY <1>1, <2>3 DEF Accessing
    <3>2. Offset(ring, slot[s]) < popped \/ ring.len <= Offset(ring, slot[s])
      BY <1>1, <2>3, <3>1 DEF IInv, Reserved
    <3> QED
      BY <1>1, <2>2, <3>1, <3>2 DEF Offset
  <2>4. Reserved'
    <3>1. ASSUME NEW s \in Thread, s # t
          PROVE /\ Accessing(s)' = Accessing(s) /\ slot'[s] = slot[s] /\ pc'[s] = pc[s]
      BY <1>1, <2>2, <3>1 DEF Accessing
    <3>2. Accessing(t)' /\ slot'[t] = at /\ pc'[t] = "read"
      BY <1>1, <2>2 DEF Accessing
    <3>3. \A s \in Thread : pc[s] = "read" => slot[s] \in 0 .. ring.cap - 1 /\ Offset(ring, slot[s]) \in Int
      BY <1>1, <2>3 DEF IInv, Reserved, Offset
    <3> QED
      BY <1>1, <1>6, <2>2, <3>1, <3>2, <3>3 DEF IInv, Reserved
  <2>5. SlotsExclusive'
    BY <1>1, <2>2, <2>3 DEF IInv, SlotsExclusive, Accessing
  <2>6. ASSUME NEW i \in 0 .. ring.cap - 1
        PROVE  /\ Found(i)' <=> Found(i) /\ i # at
               /\ Writing(i)' = Writing(i)
               /\ Reading(i)' <=> Reading(i) \/ i = at
    <3>1. Writing(i)' = Writing(i) /\ (Reading(i)' <=> Reading(i) \/ i = at)
      BY <1>1, <1>7, <2>2 DEF Reading, Writing
    <3>2. Offset(ring, i) = popped <=> i = at
      BY <1>1, <2>2, OffsetInjective
    <3>3. Offset(ring, i) \in Int
      BY <1>1 DEF Offset
    <3>4. Found(i)' <=> popped + 1 <= Offset(ring, i) /\ Offset(ring, i) < ring.len + Pushes
      BY <1>3, <1>4, <1>6, <1>9 DEF Found
    <3>5. Found(i) <=> popped <= Offset(ring, i) /\ Offset(ring, i) < ring.len + Pushes
      BY <1>4, <1>9 DEF Found
    <3> QED
      BY <1>1, <1>3, <3>1, <3>2, <3>3, <3>4, <3>5
  <2>7. Found(at) /\ ~Writing(at)
    <3>1. Found(at)
      BY <1>1, <1>3, <1>4, <1>9, <2>2 DEF Found
    <3>2. ~Writing(at)
      BY <2>3 DEF IInv, Reserved, Writing
    <3> QED
      BY <3>1, <3>2
  <2>8. AllThere'
    BY <2>2, <2>6, <2>7 DEF IInv, AllThere
  <2> QED
    BY <1>1, <1>5, <2>2, <2>4, <2>5, <2>8
<1> QED
  BY <1>8, <1>9

LEMMA ReserveInv ==
  ASSUME IInv, NEW t \in Thread, TryPush(t) \/ Push(t) \/ TryPop(t) \/ Pop(t)
  PROVE  IInv'
<1> USE DEF Goto, At, Got
<1>1. UNCHANGED <<ring, mode>> /\ pc[t] \in {"try_push", "push", "try_pop", "pop"}
  BY DEF TryPush, Push, TryPop, Pop, ReservePush, ReservePop
<1>2. /\ HeadInside(ring)' /\ Reserved' /\ SlotsExclusive' /\ AllThere'
      /\ slot' \in [Thread -> 0 .. ring.cap - 1 \cup {NoSlot}]
      /\ pushed' \in 0 .. Vacant(ring) + 1 /\ popped' \in 0 .. ring.len + 1
  <2>1. CASE TryPush(t) \/ Push(t)
    <3>1. /\ pc[t] \in {"try_push", "push"} /\ UNCHANGED <<ring, popped, mode>>
          /\ pushed' = Bumped(pushed, Vacant(ring))
          /\ CanPush => slot' = [slot EXCEPT ![t] = PushSlot] /\ pc' = [pc EXCEPT ![t] = "write"]
          /\ ~CanPush => /\ UNCHANGED slot
                         /\ \E p \in {"done", "leave"} : pc' = [pc EXCEPT ![t] = p]
      BY <2>1 DEF TryPush, Push, ReservePush
    <3> QED
      BY <3>1, PushReserves DEF IInv, TypeOK, FlipTypeOK
  <2>2. CASE TryPop(t) \/ Pop(t)
    <3>1. /\ pc[t] \in {"try_pop", "pop"} /\ UNCHANGED <<ring, pushed, mode>>
          /\ popped' = Bumped(popped, ring.len)
          /\ CanPop => slot' = [slot EXCEPT ![t] = PopSlot] /\ pc' = [pc EXCEPT ![t] = "read"]
          /\ ~CanPop => /\ UNCHANGED slot
                        /\ \E p \in {"done", "check"} : pc' = [pc EXCEPT ![t] = p]
      BY <2>2 DEF TryPop, Pop, ReservePop
    <3> QED
      BY <3>1, PopReserves DEF IInv, TypeOK, FlipTypeOK
  <2> QED
    BY <2>1, <2>2
<1>3. \/ \E p \in {"write", "done"} : pc[t] = "try_push" /\ pc' = [pc EXCEPT ![t] = p]
      \/ \E p \in {"write", "leave"} : pc[t] = "push" /\ pc' = [pc EXCEPT ![t] = p]
      \/ \E p \in {"read", "done"} : pc[t] = "try_pop" /\ pc' = [pc EXCEPT ![t] = p]
      \/ \E p \in {"read", "check"} : pc[t] = "pop" /\ pc' = [pc EXCEPT ![t] = p]
  BY DEF TryPush, Push, TryPop, Pop
<1>4. val' = val \/ (val' = [val EXCEPT ![t] = <<>>] /\ pc' = [pc EXCEPT ![t] = "done"])
  BY DEF TryPush, Push, TryPop, Pop, ReservePush, ReservePop
<1>5. TypeOK'
  <2>1. val' \in [Thread -> Seq(Value \cup {None})]
    <3>1. <<>> \in Seq(Value \cup {None}) /\ val \in [Thread -> Seq(Value \cup {None})]
      BY Counts DEF IInv
    <3> QED
      BY <1>4, <3>1
  <2>2. pc' \in [Thread -> {"idle", "try_push", "push", "write", "try_pop", "pop", "read",
                            "check", "leave", "slow", "locked", "exclusive", "done"}]
    BY <1>3 DEF IInv, TypeOK
  <2> QED
    BY <1>1, <1>2, <2>1, <2>2 DEF IInv, TypeOK, FlipTypeOK, Lock!TypeOK, Vacant
<1>6. Locked' /\ Exclusive'
  BY <1>1, <1>3 DEF IInv, TypeOK, Locked, Exclusive, Shared
<1>7. Carrying'
  BY <1>3, <1>4 DEF IInv, TypeOK, FlipTypeOK, Carrying, Carries
<1> QED
  BY <1>2, <1>5, <1>6, <1>7 DEF IInv

-----------------------------------------------------------------------------
(* Accessing the slot.                                                      *)
LEMMA WriteInv ==
  ASSUME IInv, NEW t \in Thread, Write(t)
  PROVE  IInv'
<1> DEFINE at == slot[t]
           v == val[t][1]
<1>1. /\ ring \in Rings /\ HeadInside(ring) /\ popped \in Nat /\ pushed \in Nat
      /\ ring.cap \in Nat /\ ring.head \in 0 .. ring.cap /\ ring.len \in 0 .. ring.cap
      /\ slot \in [Thread -> 0 .. ring.cap - 1 \cup {NoSlot}]
      /\ val \in [Thread -> Seq(Value \cup {None})] /\ DOMAIN pc = Thread
  BY Counts DEF IInv, TypeOK
<1>2. /\ pc[t] = "write" /\ pc' = [pc EXCEPT ![t] = "done"] /\ mode' = mode
      /\ ring' = [ring EXCEPT !.array[at] = v]
      /\ slot' = [slot EXCEPT ![t] = NoSlot] /\ val' = [val EXCEPT ![t] = <<>>]
      /\ UNCHANGED <<popped, pushed>>
  BY DEF Write, WriteSlot, At, Goto
<1>3. v \in Value
  BY <1>2 DEF IInv, Carrying, Carries
<1>4. /\ at \in 0 .. ring.cap - 1 /\ Accessing(t)
      /\ ring.len <= Offset(ring, at) /\ Offset(ring, at) < ring.len + pushed
      /\ Offset(ring, at) \in 0 .. ring.cap - 1
  <2>1. at \in 0 .. ring.cap - 1 /\ Accessing(t)
    BY <1>1, <1>2 DEF IInv, Reserved, Accessing
  <2>2. ring.len <= Offset(ring, at) /\ Offset(ring, at) < ring.len + pushed
    BY <1>2 DEF IInv, Reserved
  <2> HIDE DEF at
  <2>3. Offset(ring, at) \in 0 .. ring.cap - 1
    BY <1>1, <2>1 DEF Offset, HeadInside
  <2> QED
    BY <2>1, <2>2, <2>3
<1> HIDE DEF at, v
<1>5. /\ ring' \in Rings /\ ring'.cap = ring.cap /\ ring'.head = ring.head /\ ring'.len = ring.len
      /\ ring'.array = [ring.array EXCEPT ![at] = v]
      /\ ring.array \in [0 .. ring.cap - 1 -> Value \cup {None}]
  <2>1. PICK c \in 0 .. MaxCap : ring \in RingOf(c)
    BY <1>1 DEF Rings
  <2>2. [ring.array EXCEPT ![at] = v] \in [0 .. c - 1 -> Value \cup {None}]
    BY <1>3, <2>1 DEF RingOf
  <2>3. ring' \in RingOf(c)
    BY <1>2, <2>1, <2>2 DEF RingOf
  <2> QED
    BY <1>2, <2>1, <2>3 DEF Rings, RingOf
<1>6. Pops' = Pops /\ Pushes' = Pushes /\ \A i : Offset(ring, i)' = Offset(ring, i)
  BY <1>2, <1>5 DEF Pops, Pushes, Vacant, Offset
<1>7. HeadInside(ring)'
  BY <1>1, <1>5 DEF HeadInside
<1>8. ASSUME NEW s \in Thread, s # t
      PROVE slot'[s] = slot[s] /\ pc'[s] = pc[s] /\ (Accessing(s) => slot[s] # at)
  BY <1>1, <1>2, <1>4, <1>8 DEF at, IInv, SlotsExclusive
<1>9. pc'[t] = "done" /\ slot'[t] = NoSlot /\ ~Accessing(t)'
  BY <1>1, <1>2 DEF Accessing
<1>10. Reserved' /\ SlotsExclusive'
  BY <1>2, <1>5, <1>6, <1>8, <1>9 DEF IInv, Reserved, SlotsExclusive, Accessing
<1>11. ASSUME NEW i \in 0 .. ring.cap - 1
       PROVE  /\ Found(i)' = Found(i) /\ Reading(i)' = Reading(i)
              /\ Writing(i)' <=> Writing(i) /\ i # at
              /\ ring'.array[i] # None <=> ring.array[i] # None \/ i = at
  <2>1. Found(i)' = Found(i)
    BY <1>5, <1>6 DEF Found
  <2>2. Reading(i)' = Reading(i)
    BY <1>2, <1>8, <1>9 DEF Reading
  <2>3. Writing(i)' <=> Writing(i) /\ i # at
    BY <1>2, <1>8, <1>9 DEF Writing, at, IInv, Reserved
  <2>4. ring'.array[i] # None <=> ring.array[i] # None \/ i = at
    BY <1>3, <1>5, NoneAssumption
  <2> QED
    BY <2>1, <2>2, <2>3, <2>4
<1>12. Found(at)
  BY <1>1, <1>4 DEF Found, Pops, Pushes, Vacant
<1>13. AllThere'
  BY <1>5, <1>11, <1>12 DEF IInv, AllThere
<1>14. TypeOK'
  BY <1>1, <1>2, <1>5 DEF IInv, TypeOK, FlipTypeOK, Lock!TypeOK, Vacant
<1>15. Locked' /\ Exclusive' /\ Carrying'
  BY <1>1, <1>2 DEF IInv, Locked, Exclusive, Carrying, Carries, Shared
<1> QED
  BY <1>7, <1>10, <1>13, <1>14, <1>15 DEF IInv

LEMMA ReadInv ==
  ASSUME IInv, NEW t \in Thread, Read(t)
  PROVE  IInv'
<1> DEFINE at == slot[t]
           a == Without(ring, {slot[t]})
<1>1. /\ ring \in Rings /\ HeadInside(ring) /\ popped \in Nat /\ pushed \in Nat
      /\ ring.cap \in Nat /\ ring.head \in 0 .. ring.cap /\ ring.len \in 0 .. ring.cap
      /\ slot \in [Thread -> 0 .. ring.cap - 1 \cup {NoSlot}]
      /\ val \in [Thread -> Seq(Value \cup {None})] /\ DOMAIN pc = Thread
  BY Counts DEF IInv, TypeOK
<1>2. /\ pc[t] = "read" /\ pc' = [pc EXCEPT ![t] = "done"] /\ mode' = mode
      /\ ring' = [ring EXCEPT !.array = a]
      /\ slot' = [slot EXCEPT ![t] = NoSlot] /\ val' = [val EXCEPT ![t] = <<ring.array[at]>>]
      /\ UNCHANGED <<popped, pushed>>
  BY DEF Read, ReadSlot, At, Goto
<1>3. /\ at \in 0 .. ring.cap - 1 /\ Accessing(t)
      /\ Offset(ring, at) < popped /\ Offset(ring, at) < ring.len
      /\ Offset(ring, at) \in 0 .. ring.cap - 1
  <2>1. at \in 0 .. ring.cap - 1 /\ Accessing(t)
    BY <1>1, <1>2 DEF IInv, Reserved, Accessing
  <2>2. Offset(ring, at) < popped /\ Offset(ring, at) < ring.len
    BY <1>2 DEF IInv, Reserved
  <2> HIDE DEF at
  <2>3. Offset(ring, at) \in 0 .. ring.cap - 1
    BY <1>1, <2>1 DEF Offset, HeadInside
  <2> QED
    BY <2>1, <2>2, <2>3
<1>4. \A i \in 0 .. ring.cap - 1 : a[i] = IF i = at THEN None ELSE ring.array[i]
  BY DEF Without
<1>5. a \in [0 .. ring.cap - 1 -> Value \cup {None}]
  BY <1>1, WithoutType
<1> HIDE DEF at, a
<1>6. /\ ring' \in Rings /\ ring'.cap = ring.cap /\ ring'.head = ring.head /\ ring'.len = ring.len
      /\ ring'.array = a
      /\ ring.array \in [0 .. ring.cap - 1 -> Value \cup {None}]
  <2>1. PICK c \in 0 .. MaxCap : ring \in RingOf(c)
    BY <1>1 DEF Rings
  <2>2. ring.cap = c
    BY <2>1 DEF RingOf
  <2>3. ring' \in RingOf(c)
    BY <1>2, <1>5, <2>1, <2>2 DEF RingOf
  <2> QED
    BY <1>2, <2>1, <2>3 DEF Rings, RingOf
<1>7. Pops' = Pops /\ Pushes' = Pushes /\ \A i : Offset(ring, i)' = Offset(ring, i)
  BY <1>2, <1>6 DEF Pops, Pushes, Vacant, Offset
<1>8. HeadInside(ring)'
  BY <1>1, <1>6 DEF HeadInside
<1>9. ASSUME NEW s \in Thread, s # t
      PROVE slot'[s] = slot[s] /\ pc'[s] = pc[s] /\ (Accessing(s) => slot[s] # at)
  BY <1>1, <1>2, <1>3, <1>9 DEF at, IInv, SlotsExclusive
<1>10. pc'[t] = "done" /\ slot'[t] = NoSlot /\ ~Accessing(t)'
  BY <1>1, <1>2 DEF Accessing
<1>11. Reserved' /\ SlotsExclusive'
  BY <1>2, <1>6, <1>7, <1>9, <1>10 DEF IInv, Reserved, SlotsExclusive, Accessing
<1>12. ASSUME NEW i \in 0 .. ring.cap - 1
       PROVE  /\ Found(i)' = Found(i) /\ Writing(i)' = Writing(i)
              /\ Reading(i)' <=> Reading(i) /\ i # at
              /\ ring'.array[i] # None <=> ring.array[i] # None /\ i # at
  <2>1. Found(i)' = Found(i)
    BY <1>6, <1>7 DEF Found
  <2>2. Writing(i)' = Writing(i)
    BY <1>2, <1>9, <1>10 DEF Writing
  <2>3. Reading(i)' <=> Reading(i) /\ i # at
    BY <1>2, <1>9, <1>10 DEF Reading, at, IInv, Reserved
  <2>4. ring'.array[i] # None <=> ring.array[i] # None /\ i # at
    BY <1>4, <1>6
  <2> QED
    BY <2>1, <2>2, <2>3, <2>4
<1>13. ~Found(at)
  BY <1>1, <1>3 DEF Found, Pops
<1>14. AllThere'
  BY <1>6, <1>12, <1>13 DEF IInv, AllThere
<1>15. TypeOK'
  <2>1. <<ring.array[at]>> \in Seq(Value \cup {None})
    <3>1. ring.array[at] \in Value \cup {None}
      BY <1>3, <1>6
    <3> QED
      BY <3>1
  <2> QED
    BY <1>1, <1>2, <1>6, <2>1 DEF IInv, TypeOK, FlipTypeOK, Lock!TypeOK, Vacant
<1>16. Locked' /\ Exclusive' /\ Carrying'
  BY <1>1, <1>2 DEF IInv, Locked, Exclusive, Carrying, Carries, Shared
<1> QED
  BY <1>8, <1>11, <1>14, <1>15, <1>16 DEF IInv

-----------------------------------------------------------------------------
(* Alone: nobody has a slot, and the flushed ring is exact.                 *)
LEMMA AloneFlushed ==
  ASSUME IInv, NEW t \in Thread, pc[t] \in {"locked", "exclusive"}
  PROVE  /\ \A s \in Thread : ~Accessing(s) /\ pc[s] \notin {"write", "read"}
         /\ Flushed(ring) \in Rings /\ ExactWindow(Flushed(ring))
<1>1. mode[t] = "exclusive" /\ pc[t] \notin {"write", "read"}
  BY DEF IInv, Locked
<1>2. \A s \in Thread : pc[s] \notin {"write", "read"}
  BY <1>1 DEF IInv, Locked, Exclusive, Shared
<1>3. \A s \in Thread : ~Accessing(s)
  BY <1>2 DEF IInv, Reserved
<1>4. ring \in Rings /\ HeadInside(ring) /\ popped \in Nat /\ pushed \in Nat
  BY Counts DEF IInv
<1> DEFINE s == Flushed(ring)
<1>5. s \in Rings /\ HeadInside(s) /\ s.array = ring.array /\ s.cap = ring.cap
  BY <1>4, FlushedFields
<1>6. \A i \in 0 .. ring.cap - 1 : i \in Range(Window(s)) <=> Found(i)
  BY <1>4, FlushedWindow DEF Found
<1> HIDE DEF s
<1>7. \A i \in 0 .. ring.cap - 1 : ring.array[i] # None <=> Found(i)
  BY <1>2 DEF IInv, AllThere, Writing, Reading
<1>8. ExactWindow(s)
  BY <1>5, <1>6, <1>7 DEF ExactWindow, HeadInside
<1> QED
  BY <1>2, <1>3, <1>5, <1>8 DEF s

\* A ring that is exact by itself is all that a call needs to leave behind.
LEMMA SettleInv ==
  ASSUME IInv, NEW t \in Thread, pc[t] \in {"locked", "exclusive"},
         ring' \in Rings, ExactWindow(ring'),
         popped' = 0, pushed' = 0, UNCHANGED <<slot, mode>>,
         pc' = [pc EXCEPT ![t] = "done"],
         NEW w \in Seq(Value \cup {None}), val' = [val EXCEPT ![t] = w]
  PROVE  IInv'
<1>1. \A s \in Thread : ~Accessing(s) /\ pc[s] \notin {"write", "read"}
  BY AloneFlushed
<1>2. \A s \in Thread : slot'[s] = NoSlot /\ pc'[s] \notin {"write", "read"}
  BY <1>1 DEF Accessing, IInv, TypeOK
<1>3. /\ ring'.cap \in Nat /\ ring'.head \in 0 .. ring'.cap /\ ring'.len \in 0 .. ring'.cap
      /\ HeadInside(ring')
      /\ \A i \in 0 .. ring'.cap - 1 : ring'.array[i] # None <=> Offset(ring', i) < ring'.len
  BY RingFields, ExactOffset
<1>4. slot' \in [Thread -> 0 .. ring'.cap - 1 \cup {NoSlot}]
  BY <1>2 DEF IInv, TypeOK, FlipTypeOK
<1>5. TypeOK'
  <2>1. 0 \in 0 .. ring'.len + 1 /\ 0 \in 0 .. Vacant(ring') + 1
    BY <1>3 DEF Vacant
  <2>2. val' \in [Thread -> Seq(Value \cup {None})]
    BY DEF IInv, TypeOK, FlipTypeOK
  <2> QED
    BY <1>4, <2>1, <2>2 DEF IInv, TypeOK, FlipTypeOK, Lock!TypeOK
<1>6. Reserved' /\ SlotsExclusive'
  BY <1>2 DEF Reserved, SlotsExclusive, Accessing
<1>7. AllThere'
  <2>1. Pops' = 0 /\ Pushes' = 0
    BY <1>3 DEF Pops, Pushes, Vacant
  <2>2. ASSUME NEW i \in 0 .. ring'.cap - 1
        PROVE  (Found(i)' <=> Offset(ring', i) < ring'.len) /\ ~Writing(i)' /\ ~Reading(i)'
    BY <1>2, <1>3, <2>1 DEF Found, Offset, Writing, Reading
  <2> QED
    BY <1>3, <2>2 DEF AllThere
<1>8. Locked' /\ Exclusive' /\ Carrying'
  BY DEF IInv, TypeOK, FlipTypeOK, Locked, Exclusive, Carrying, Carries, Shared
<1> QED
  BY <1>3, <1>5, <1>6, <1>7, <1>8 DEF IInv

\* What DrainFlushed leaves.
DrainedOf(r, n) ==
  Shrunk(r, {Window(r)[i] : i \in 1 .. n}, RingIndex(r.head, n, r.cap), r.len - n)

LEMMA DrainedSlots ==
  ASSUME NEW r \in Rings, HeadInside(r), NEW n \in 0 .. r.len
  PROVE  \E slots : /\ \A i \in 0 .. r.cap - 1 : i \in slots <=> Offset(r, i) < n
                    /\ DrainedOf(r, n) = Shrunk(r, slots, RingIndex(r.head, n, r.cap), r.len - n)
<1> DEFINE slots == {Window(r)[i] : i \in 1 .. n}
<1>1. r.cap \in Nat /\ r.head \in 0 .. r.cap /\ r.len \in 0 .. r.cap
  BY RingFields
<1>2. slots = {RingIndex(r.head, k - 1, r.cap) : k \in 1 .. n}
  <2>1. \A k \in 1 .. n : k \in 1 .. r.len
    BY <1>1
  <2>2. \A k \in 1 .. n : Window(r)[k] = RingIndex(r.head, k - 1, r.cap)
    BY <2>1, WindowSlots
  <2> QED
    BY <2>2
<1>3. ASSUME NEW i \in 0 .. r.cap - 1 PROVE i \in slots <=> Offset(r, i) < n
  <2>1. ASSUME NEW k \in 1 .. n, i = RingIndex(r.head, k - 1, r.cap) PROVE Offset(r, i) < n
    BY <1>1, <2>1 DEF HeadInside, RingIndex, Offset
  <2>2. ASSUME Offset(r, i) < n PROVE \E k \in 1 .. n : i = RingIndex(r.head, k - 1, r.cap)
    <3>1. Offset(r, i) + 1 \in 1 .. n /\ i = RingIndex(r.head, (Offset(r, i) + 1) - 1, r.cap)
      BY <1>1, <2>2 DEF HeadInside, RingIndex, Offset
    <3> QED
      BY <3>1
  <2> QED
    BY <1>2, <2>1, <2>2
<1>4. DrainedOf(r, n) = Shrunk(r, slots, RingIndex(r.head, n, r.cap), r.len - n)
  BY DEF DrainedOf
<1> HIDE DEF slots
<1> QED
  BY <1>3, <1>4

LEMMA DrainedFits ==
  ASSUME NEW r \in Rings, ExactWindow(r), NEW n \in 0 .. r.len
  PROVE  /\ DrainedOf(r, n) \in Rings /\ ExactWindow(DrainedOf(r, n))
         /\ Contents(DrainedOf(r, n)) = SubSeq(Contents(r), n + 1, Len(Contents(r)))
<1>1. HeadInside(r)
  BY ExactOffset
<1>2. PICK slots : /\ \A i \in 0 .. r.cap - 1 : i \in slots <=> Offset(r, i) < n
                   /\ DrainedOf(r, n) = Shrunk(r, slots, RingIndex(r.head, n, r.cap), r.len - n)
  BY <1>1, DrainedSlots
<1> QED
  BY <1>1, <1>2, DropFits, DropContents

LEMMA ExclusiveInv ==
  ASSUME IInv, NEW t \in Thread,
         \/ PushSlow(t) \/ PopSlow(t) \/ PopMut(t) \/ ClearMut(t) \/ SwapBuffer(t)
         \/ \E v \in Value : PushMut(t, v)
         \/ \E n \in 0 .. MaxCap : Drain(t, n)
  PROVE  IInv'
<1> DEFINE r == Flushed(ring)
           Settles(w) == /\ ring' \in Rings /\ ExactWindow(ring')
                         /\ w \in Seq(Value \cup {None}) /\ val' = [val EXCEPT ![t] = w]
<1>1. /\ pc[t] \in {"locked", "exclusive"} /\ pc' = [pc EXCEPT ![t] = "done"]
      /\ popped' = 0 /\ pushed' = 0 /\ UNCHANGED <<slot, mode>>
  BY Zenon DEF PushSlow, PopSlow, PopMut, ClearMut, SwapBuffer, PushMut, Drain, At, Goto,
         PushFlushed, PopFlushed, ClearFlushed, SwapFlushed, DrainFlushed, Settle
<1>2. r \in Rings /\ ExactWindow(r) /\ HeadInside(r)
  BY <1>1, AloneFlushed, ExactOffset
<1> HIDE DEF r
<1>3. SUFFICES \E w : Settles(w)
  BY <1>1, SettleInv
<1>4. ASSUME NEW v \in Value, PushFlushed(t, v) PROVE Settles(<<>>)
  <2>1. ring' \in AfterPush(r, v) /\ val' = [val EXCEPT ![t] = <<>>]
    BY <1>4 DEF PushFlushed, Settle, Got, r
  <2> QED
    BY <1>2, <2>1, PushFits
<1>5. ASSUME PopFlushed(t) PROVE Settles(<<First(r)>>)
  <2>1. ring' = AfterPop(r) /\ val' = [val EXCEPT ![t] = <<First(r)>>]
    BY <1>5 DEF PopFlushed, Settle, Got, r
  <2>2. First(r) \in Value \cup {None}
    BY <1>2, FirstElement
  <2>3. <<First(r)>> \in Seq(Value \cup {None})
    BY <2>2
  <2> QED
    BY <1>2, <2>1, <2>3, PopFits
<1>6. ASSUME ClearFlushed(t) PROVE Settles(<<>>)
  <2>1. ring' = Cleared(r) /\ val' = [val EXCEPT ![t] = <<>>]
    BY <1>6 DEF ClearFlushed, Settle, Got, r
  <2> QED
    BY <1>2, <2>1, ClearFits
<1>7. ASSUME NEW own \in ClientRings, SwapFlushed(t, own) PROVE Settles(Contents(r))
  <2>1. ring' = own /\ val' = [val EXCEPT ![t] = Contents(r)]
    BY <1>7 DEF SwapFlushed, Settle, Got, r
  <2> QED
    BY <1>2, <2>1, ContentsElements DEF ClientRings
<1>8. ASSUME NEW n \in 0 .. MaxCap, DrainFlushed(t, n) PROVE Settles(SubSeq(Contents(r), 1, n))
  <2> DEFINE kept == DrainedOf(r, n)
  <2>1. /\ n <= r.len /\ ring' \in {kept, Cleared(kept)}
        /\ val' = [val EXCEPT ![t] = SubSeq(Contents(r), 1, n)]
    BY <1>8 DEF DrainFlushed, Settle, Got, r, DrainedOf, Shrunk
  <2>2. n \in 0 .. r.len
    BY <1>2, <2>1, ContentsElements, CapAssumption
  <2>3. kept \in Rings /\ ExactWindow(kept)
    BY <1>2, <2>2, DrainedFits
  <2> HIDE DEF kept
  <2>4. SubSeq(Contents(r), 1, n) \in Seq(Value \cup {None})
    <3>1. Contents(r) \in Seq(Value \cup {None}) /\ Len(Contents(r)) = r.len
      BY <1>2, ContentsElements
    <3> QED
      BY <2>2, <3>1
  <2> QED
    BY <2>1, <2>3, <2>4, ClearFits
<1>9. ASSUME PushSlow(t) PROVE \E v \in Value : PushFlushed(t, v)
  BY <1>9 DEF PushSlow, At, IInv, Carrying, Carries
<1> QED
  BY <1>4, <1>5, <1>6, <1>7, <1>8, <1>9 DEF PopSlow, PopMut, ClearMut, SwapBuffer, PushMut, Drain

-----------------------------------------------------------------------------
LEMMA StepInv == IInv /\ [Next]_vars => IInv'
<1> SUFFICES ASSUME IInv, [Next]_vars PROVE IInv'
  OBVIOUS
<1>1. CASE UNCHANGED vars
  BY <1>1 DEF vars, flipVars, IInv, TypeOK, FlipTypeOK, Lock!TypeOK, HeadInside, Locked, Exclusive,
              Carrying, Carries, Reserved, SlotsExclusive, Accessing, AllThere, Found, Writing, Reading,
              Pops, Pushes, Vacant, Offset
<1>2. ASSUME NEW t \in Thread, Begin(t) \/ SharedStep(t) \/ ExclusiveStep(t) \/ Return(t)
      PROVE  IInv'
  BY <1>2, LockStepInv, ReserveInv, WriteInv, ReadInv, ExclusiveInv DEF SharedStep, ExclusiveStep
<1> QED
  BY <1>1, <1>2 DEF Next

LEMMA Invariance == Spec => []IInv
  BY InitInv, StepInv, PTL DEF Spec

\* The counts, the slots and the lock keep their ranges: a count passes its
\* limit by one at most in the model, and no reserved slot lies outside the
\* array, for any number of callers and any capacity.
THEOREM TypeCorrect == Spec => []TypeOK
  BY Invariance, PTL DEF IInv

\* "We have exclusive access to the queue at this index" (flip_queue.rs:120).
THEOREM SlotsCorrect == Spec => []SlotsExclusive
  BY Invariance, PTL DEF IInv

\* No value is lost, read twice or read before it is there, whichever calls
\* have reserved slots when the counts run over and the ring wraps.
THEOREM NothingIsLost == Spec => []NothingLost
<1>1. IInv => NothingLost
  BY AllThereIsIt
<1> QED
  BY <1>1, Invariance, PTL

-----------------------------------------------------------------------------
(* The queue of the abstract specification: what stands in the k-th slot    *)
(* behind those that pops have reserved.                                    *)
Late(i) == {t \in Thread : pc[t] = "write" /\ slot[t] = i}

ValueAt(i) == IF Late(i) = {} THEN ring.array[i] ELSE val[CHOOSE t \in Late(i) : TRUE][1]

QueueLen == ring.len - Pops + Pushes

Place(k) == RingIndex(ring.head, Pops + k - 1, ring.cap)

\* A slot has one writer at most.
ValuesFit ==
  \A i : /\ ~Writing(i) => ValueAt(i) = ring.array[i]
         /\ \A t \in Thread : pc[t] = "write" /\ slot[t] = i => ValueAt(i) = val[t][1]

LEMMA ValueOf == IInv => ValuesFit
<1> SUFFICES ASSUME IInv PROVE ValuesFit
  OBVIOUS
<1> SUFFICES ASSUME NEW i
             PROVE  /\ ~Writing(i) => ValueAt(i) = ring.array[i]
                    /\ \A t \in Thread : pc[t] = "write" /\ slot[t] = i => ValueAt(i) = val[t][1]
  BY DEF ValuesFit
<1>1. ~Writing(i) => Late(i) = {}
  BY DEF Writing, Late
<1>2. ASSUME NEW t \in Thread, pc[t] = "write", slot[t] = i PROVE ValueAt(i) = val[t][1]
  <2>1. \A s \in Late(i) : s = t
    BY <1>2 DEF IInv, Late, SlotsExclusive, Reserved
  <2>2. t \in Late(i)
    BY <1>2 DEF Late
  <2>3. (CHOOSE s \in Late(i) : TRUE) = t
    BY <2>1, <2>2
  <2> QED
    BY <2>2, <2>3 DEF ValueAt
<1> QED
  BY <1>1, <1>2 DEF ValueAt

PlacesFit ==
  /\ Pops \in 0 .. ring.len /\ Pushes \in 0 .. ring.cap - ring.len
  /\ QueueLen \in 0 .. ring.cap
  /\ \A k \in 1 .. QueueLen : /\ Place(k) \in 0 .. ring.cap - 1
                              /\ Offset(ring, Place(k)) = Pops + k - 1
                              /\ Found(Place(k))

LEMMA Places == IInv => PlacesFit
<1> SUFFICES ASSUME IInv PROVE PlacesFit
  OBVIOUS
<1>1. /\ ring \in Rings /\ HeadInside(ring) /\ popped \in Nat /\ pushed \in Nat
      /\ ring.cap \in Nat /\ ring.head \in 0 .. ring.cap /\ ring.len \in 0 .. ring.cap
  BY Counts DEF IInv
<1>2. Pops \in 0 .. ring.len /\ Pushes \in 0 .. ring.cap - ring.len
  BY <1>1 DEF Pops, Pushes, Vacant
<1>3. QueueLen \in 0 .. ring.cap
  BY <1>1, <1>2 DEF QueueLen
<1>4. ASSUME NEW k \in 1 .. QueueLen
      PROVE  /\ Place(k) \in 0 .. ring.cap - 1 /\ Offset(ring, Place(k)) = Pops + k - 1
             /\ Found(Place(k))
  <2>1. Pops + k - 1 \in 0 .. ring.cap - 1 /\ Pops + k - 1 < ring.len + Pushes /\ Pops <= Pops + k - 1
    BY <1>1, <1>2 DEF QueueLen
  <2>2. Place(k) \in 0 .. ring.cap - 1 /\ Offset(ring, Place(k)) = Pops + k - 1
    BY <1>1, <2>1, IndexOffset DEF Place
  <2> QED
    BY <2>1, <2>2 DEF Found
<1> QED
  BY <1>2, <1>3, <1>4 DEF PlacesFit

QueueIs ==
  /\ queued \in Seq(Value) /\ Len(queued) = QueueLen
  /\ \A k \in 1 .. QueueLen : \A i : i = Place(k) => queued[k] = ValueAt(i)

LEMMA QueueElements == IInv => QueueIs
<1> SUFFICES ASSUME IInv PROVE QueueIs
  OBVIOUS
<1> DEFINE s == Flushed(ring)
<1>1. /\ ring \in Rings /\ HeadInside(ring) /\ popped \in Nat /\ pushed \in Nat
      /\ ring.cap \in Nat /\ ring.head \in 0 .. ring.cap /\ ring.len \in 0 .. ring.cap
      /\ ring.array \in [0 .. ring.cap - 1 -> Value \cup {None}]
  BY Counts, RingFields DEF IInv
<1>2. /\ s \in Rings /\ s.array = ring.array /\ s.cap = ring.cap
      /\ s.head = RingIndex(ring.head, Pops, ring.cap) /\ s.len = QueueLen
  BY <1>1, FlushedFields DEF QueueLen
<1>3. /\ Pops \in 0 .. ring.len /\ Pushes \in 0 .. ring.cap - ring.len
      /\ QueueLen \in 0 .. ring.cap
      /\ \A k \in 1 .. QueueLen : Place(k) \in 0 .. ring.cap - 1 /\ Found(Place(k))
  BY Places DEF PlacesFit
<1>4. queued = [k \in 1 .. s.len |-> ValueAt(Window(s)[k])]
  BY DEF queued, ValueAt, Late
<1> HIDE DEF s
<1>5. ASSUME NEW k \in 1 .. QueueLen PROVE Window(s)[k] = Place(k)
  <2>1. Window(s)[k] = RingIndex(RingIndex(ring.head, Pops, ring.cap), k - 1, ring.cap)
    BY <1>2, WindowSlots
  <2> DEFINE o == Pops
             n == Pushes
  <2>2. o \in 0 .. ring.len /\ n \in 0 .. ring.cap - ring.len /\ k \in 1 .. ring.len - o + n
    BY <1>3 DEF QueueLen
  <2> HIDE DEF o, n
  <2> DEFINE c == ring.cap
             h == ring.head
             m == RingIndex(h, o, c)
  <2>3. c \in Nat /\ h \in 0 .. c - 1 /\ o \in 0 .. c - 1 /\ k \in 1 .. c /\ o + k <= c
    <3>1. o + k <= c /\ 0 <= o /\ 1 <= k /\ o \in Nat /\ k \in Nat /\ c \in Nat
      BY <1>1, <2>2
    <3>2. h \in 0 .. c - 1
      BY <1>1, <3>1 DEF HeadInside
    <3> QED
      BY <3>1, <3>2
  <2> HIDE DEF c, h
  <2>4. m = (IF o < c - h THEN h + o ELSE o - (c - h))
    BY <2>3 DEF RingIndex
  <2> HIDE DEF m
  <2>5. RingIndex(m, k - 1, c) = RingIndex(h, o + k - 1, c)
    <3>1. CASE o < c - h
      BY <2>3, <2>4, <3>1 DEF RingIndex
    <3>2. CASE ~(o < c - h)
      BY <2>3, <2>4, <3>2 DEF RingIndex
    <3> QED
      BY <3>1, <3>2
  <2>6. RingIndex(RingIndex(ring.head, o, ring.cap), k - 1, ring.cap) = RingIndex(ring.head, o + k - 1, ring.cap)
    BY <2>5 DEF m, h, c
  <2> QED
    BY <2>1, <2>6 DEF Place, o
<1>6. queued = [k \in 1 .. QueueLen |-> ValueAt(Place(k))]
  BY <1>2, <1>4, <1>5
<1>7. ASSUME NEW k \in 1 .. QueueLen PROVE ValueAt(Place(k)) \in Value
  <2> DEFINE i == Place(k)
  <2>1. i \in 0 .. ring.cap - 1 /\ Found(i)
    BY <1>3
  <2> HIDE DEF i
  <2>2. CASE Writing(i)
    <3>1. PICK t \in Thread : pc[t] = "write" /\ slot[t] = i
      BY <2>2 DEF Writing
    <3>2. ValueAt(i) = val[t][1]
      BY <3>1, ValueOf DEF ValuesFit
    <3> QED
      BY <3>1, <3>2 DEF IInv, Carrying, Carries, i
  <2>3. CASE ~Writing(i)
    <3>1. ring.array[i] \in Value
      BY <1>1, <2>1, <2>3 DEF IInv, AllThere
    <3>2. ValueAt(i) = ring.array[i]
      BY <2>3, ValueOf DEF ValuesFit
    <3> QED
      BY <3>1, <3>2 DEF i
  <2> QED
    BY <2>2, <2>3
<1> DEFINE q == [k \in 1 .. QueueLen |-> ValueAt(Place(k))]
<1>8. q \in [1 .. QueueLen -> Value]
  BY <1>7
<1> HIDE DEF q
<1>9. q \in Seq(Value) /\ Len(q) = QueueLen
  BY <1>3, <1>8
<1>10. \A k \in 1 .. QueueLen : q[k] = ValueAt(Place(k))
  BY DEF q
<1> QED
  BY <1>6, <1>9, <1>10 DEF q, QueueIs

\* The same, of the next state.
LEMMA NextQueue == IInv' => PlacesFit' /\ QueueIs' /\ ValuesFit'
<1>1. IInv => PlacesFit /\ QueueIs /\ ValuesFit
  BY Places, QueueElements, ValueOf
<1> QED
  BY <1>1, PTL

LEMMA SameQueue ==
  ASSUME IInv, IInv', Pops' = Pops, Pushes' = Pushes,
         ring'.cap = ring.cap, ring'.head = ring.head, ring'.len = ring.len,
         \A i \in 0 .. ring.cap - 1 : Found(i) => ValueAt(i)' = ValueAt(i)
  PROVE  queued' = queued
<1>1. QueueLen' = QueueLen /\ \A k : Place(k)' = Place(k)
  BY DEF QueueLen, Place
<1>2. ASSUME NEW k \in 1 .. QueueLen PROVE queued'[k] = queued[k]
  <2>1. PICK i \in 0 .. ring.cap - 1 : i = Place(k) /\ Found(i) /\ i = Place(k)'
    BY <1>1, Places DEF PlacesFit
  <2>2. ValueAt(i)' = ValueAt(i)
    BY <2>1
  <2>3. queued'[k] = ValueAt(i)'
    BY <1>1, <2>1, NextQueue DEF QueueIs
  <2>4. queued[k] = ValueAt(i)
    BY <2>1, QueueElements DEF QueueIs
  <2> QED
    BY <2>2, <2>3, <2>4
<1>3. queued \in Seq(Value) /\ Len(queued) = QueueLen
  BY QueueElements DEF QueueIs
<1>4. queued' \in Seq(Value) /\ Len(queued') = QueueLen
  BY <1>1, NextQueue DEF QueueIs
<1> QED
  BY <1>2, <1>3, <1>4, SeqEqual

LEMMA Answers ==
  ASSUME NEW t \in Thread
  PROVE  /\ pc[t] = "read" => answered[t] = <<ring.array[slot[t]]>>
         /\ pc[t] = "done" => answered[t] = val[t]
         /\ pc[t] \notin {"read", "done"} => answered[t] = <<>>
         /\ pc'[t] = "read" => answered'[t] = <<ring'.array[slot'[t]]>>
         /\ pc'[t] = "done" => answered'[t] = val'[t]
         /\ pc'[t] \notin {"read", "done"} => answered'[t] = <<>>
BY DEF answered

\* A step of t that leaves the slots of the others alone.
LEMMA OthersKeep ==
  ASSUME NEW t \in Thread, NEW w, answered'[t] = w,
         \A s \in Thread \ {t} : /\ pc'[s] = pc[s] /\ val'[s] = val[s] /\ slot'[s] = slot[s]
                                 /\ pc[s] = "read" => ring'.array[slot[s]] = ring.array[slot[s]]
  PROVE  /\ answered' = [answered EXCEPT ![t] = w]
         /\ w = answered[t] => answered' = answered
<1>1. /\ answered = [s \in Thread |-> answered[s]]
      /\ answered' = [s \in Thread |-> answered'[s]]
  BY DEF answered
<1>2. \A s \in Thread \ {t} : answered'[s] = answered[s]
  BY Answers
<1> QED
  BY <1>1, <1>2

-----------------------------------------------------------------------------
(* Steps on the way to the slots and back leave the queue as it is.         *)
Alone(t) == \A s \in Thread \ {t} : pc'[s] = pc[s] /\ val'[s] = val[s] /\ slot'[s] = slot[s]

LEMMA ValueStays ==
  ASSUME IInv, IInv', NEW t \in Thread, Alone(t),
         NEW i \in 0 .. ring.cap - 1, ring'.array[i] = ring.array[i],
         ~(pc[t] = "write" /\ slot[t] = i), ~(pc'[t] = "write" /\ slot'[t] = i)
  PROVE  ValueAt(i)' = ValueAt(i)
<1>1. Writing(i)' = Writing(i)
  BY DEF Writing, Alone
<1>2. CASE ~Writing(i)
  <2>1. ValueAt(i) = ring.array[i]
    BY <1>2, ValueOf DEF ValuesFit
  <2>2. ValueAt(i)' = ring'.array[i]
    BY <1>1, <1>2, NextQueue DEF ValuesFit
  <2> QED
    BY <2>1, <2>2
<1>3. CASE Writing(i)
  <2>1. PICK s \in Thread : pc[s] = "write" /\ slot[s] = i
    BY <1>3 DEF Writing
  <2>2. s # t /\ pc'[s] = "write" /\ slot'[s] = i /\ val'[s] = val[s]
    BY <2>1 DEF Alone
  <2>3. ValueAt(i) = val[s][1]
    BY <2>1, ValueOf DEF ValuesFit
  <2>4. ValueAt(i)' = val'[s][1]
    BY <2>2, NextQueue DEF ValuesFit
  <2> QED
    BY <2>2, <2>3, <2>4
<1> QED
  BY <1>2, <1>3

LEMMA Stutters ==
  ASSUME IInv, IInv', NEW t \in Thread, Alone(t), UNCHANGED <<ring, slot>>,
         Pops' = Pops, Pushes' = Pushes, pc[t] # "write", pc'[t] # "write",
         NEW w, answered'[t] = w
  PROVE  /\ queued' = queued
         /\ answered' = [answered EXCEPT ![t] = w]
         /\ w = answered[t] => answered' = answered
<1>1. \A i \in 0 .. ring.cap - 1 : ValueAt(i)' = ValueAt(i)
  BY ValueStays
<1>2. queued' = queued
  BY <1>1, SameQueue
<1> QED
  BY <1>2, OthersKeep DEF Alone

\* A call that looks for new pushes has found every value reserved.
Checked == \A t \in Thread : pc[t] = "check" => popped >= ring.len

LEMMA LockStepFifo ==
  ASSUME IInv, IInv', Checked, NEW t \in Thread,
         Begin(t) \/ Check(t) \/ Leave(t) \/ LockSlow(t) \/ Return(t)
  PROVE  [AsFifo!Next]_<<queued, answered>>
<1> USE DEF Goto, At, Got
<1>1. UNCHANGED <<ring, popped, pushed, slot>>
  BY DEF Begin, BeginPush, BeginPop, BeginExclusive, Check, Leave, LockSlow, Return, flipVars
<1>2. /\ pc[t] \in {"idle", "check", "leave", "slow", "done"}
      /\ \E p : pc' = [pc EXCEPT ![t] = p]
      /\ pc'[t] \in {"try_push", "push", "try_pop", "pop", "exclusive", "leave", "done", "slow",
                     "locked", "idle"}
      /\ val' = val \/ \E w : val' = [val EXCEPT ![t] = w]
  BY DEF Begin, BeginPush, BeginPop, BeginExclusive, Check, Leave, LockSlow, Return, flipVars, IInv, TypeOK
<1>3. Alone(t)
  BY <1>1, <1>2 DEF Alone, IInv, TypeOK, FlipTypeOK
<1>4. Pops' = Pops /\ Pushes' = Pushes
  BY <1>1 DEF Pops, Pushes, Vacant
<1>5. ASSUME NEW w, answered'[t] = w
      PROVE  /\ queued' = queued /\ answered' = [answered EXCEPT ![t] = w]
             /\ w = answered[t] => answered' = answered
  BY <1>1, <1>2, <1>3, <1>4, <1>5, Stutters
<1>6. CASE Begin(t) \/ Leave(t) \/ LockSlow(t)
  <2>1. pc[t] \in {"idle", "leave", "slow"} /\ pc'[t] \notin {"read", "done"}
    BY <1>6 DEF Begin, BeginPush, BeginPop, BeginExclusive, Leave, LockSlow, IInv, TypeOK
  <2>2. answered[t] = <<>> /\ answered'[t] = <<>>
    BY <2>1, Answers
  <2> QED
    BY <1>5, <2>2
<1>7. CASE Return(t)
  <2>1. pc'[t] = "idle"
    BY <1>7 DEF Return, IInv, TypeOK
  <2>2. answered'[t] = <<>>
    BY <2>1, Answers
  <2>3. AsFifo!Return(t)
    BY <1>5, <2>2 DEF AsFifo!Return
  <2> QED
    BY <2>3 DEF AsFifo!Next
<1>8. CASE Check(t)
  <2>1. pc[t] = "check" /\ answered[t] = <<>>
    BY <1>8, Answers DEF Check
  <2>2. CASE pushed = 0
    <3>1. pc'[t] = "done" /\ val'[t] = <<None>>
      BY <1>8, <2>2 DEF Check, IInv, TypeOK, FlipTypeOK
    <3>2. answered'[t] = <<None>>
      BY <3>1, Answers
    <3>3. QueueLen = 0
      <4>1. popped \in Nat /\ ring.len \in Nat /\ ring.cap \in Nat /\ ring.len <= ring.cap /\ popped >= ring.len
        BY <2>1, Counts DEF IInv, Checked
      <4>2. Pops = ring.len /\ Pushes = 0
        BY <2>2, <4>1 DEF Pops, Pushes, Vacant
      <4> QED
        BY <4>1, <4>2 DEF QueueLen
    <3>4. queued = <<>>
      BY <3>3, QueueElements, EmptySeq DEF QueueIs
    <3>5. AsFifo!FindEmpty(t)
      BY <1>5, <2>1, <3>2, <3>4 DEF AsFifo!FindEmpty
    <3> QED
      BY <3>5 DEF AsFifo!Next
  <2>3. CASE pushed # 0
    <3>1. pc'[t] = "leave"
      BY <1>8, <2>3 DEF Check, IInv, TypeOK
    <3>2. answered'[t] = <<>>
      BY <3>1, Answers
    <3> QED
      BY <1>5, <2>1, <3>2
  <2> QED
    BY <2>2, <2>3
<1> QED
  BY <1>6, <1>7, <1>8

-----------------------------------------------------------------------------
(* A push or pop takes effect when it reserves its slot.                    *)
LEMMA ReservedPush ==
  ASSUME IInv, IInv', NEW t \in Thread, pc[t] \in {"try_push", "push"}, CanPush,
         UNCHANGED <<ring, popped, val>>,
         pushed' = Bumped(pushed, Vacant(ring)),
         slot' = [slot EXCEPT ![t] = PushSlot], pc' = [pc EXCEPT ![t] = "write"]
  PROVE  \E v \in Value : queued' = Append(queued, v) /\ answered' = answered
<1>1. /\ ring \in Rings /\ HeadInside(ring) /\ popped \in Nat /\ pushed \in Nat
      /\ ring.cap \in Nat /\ ring.head \in 0 .. ring.cap /\ ring.len \in 0 .. ring.cap
  BY Counts DEF IInv
<1>2. pushed' = pushed + 1 /\ pushed < ring.cap - ring.len
  BY <1>1 DEF CanPush, Bumped, Vacant
<1>3. Pops' = Pops /\ Pushes = pushed /\ Pushes' = Pushes + 1
  BY <1>1, <1>2 DEF Pops, Pushes, Vacant
<1>4. QueueLen' = QueueLen + 1 /\ \A k : Place(k)' = Place(k)
  BY <1>1, <1>3, Places DEF QueueLen, Place, PlacesFit
<1>5. Alone(t) /\ slot'[t] = PushSlot /\ pc'[t] = "write"
  BY DEF Alone, IInv, TypeOK, FlipTypeOK
<1>6. PushSlot = Place(QueueLen + 1)
  <2>1. Pops + (QueueLen + 1) - 1 = ring.len + pushed
    BY <1>1, <1>3, Places DEF QueueLen, PlacesFit
  <2> QED
    BY <2>1 DEF PushSlot, Place
<1>7. ASSUME NEW k \in 1 .. QueueLen PROVE queued'[k] = queued[k]
  <2>1. PICK i \in 0 .. ring.cap - 1 : i = Place(k) /\ i = Place(k)' /\ Offset(ring, i) = Pops + k - 1
    BY <1>4, Places DEF PlacesFit
  <2>2. i # PushSlot
    <3>1. Offset(ring, PushSlot) = ring.len + pushed
      BY <1>1, <1>2, IndexOffset DEF PushSlot
    <3>2. Pops + k - 1 < ring.len + pushed
      BY <1>1, <1>3, Places DEF QueueLen, PlacesFit
    <3>3. Pops + k - 1 \in Int /\ ring.len + pushed \in Int
      BY <1>1, Places DEF PlacesFit
    <3> QED
      BY <2>1, <3>1, <3>2, <3>3
  <2>3. ValueAt(i)' = ValueAt(i)
    BY <1>5, <2>2, ValueStays
  <2>4. k \in 1 .. QueueLen'
    BY <1>4, Places DEF PlacesFit
  <2>5. queued'[k] = ValueAt(i)'
    BY <2>1, <2>4, NextQueue DEF QueueIs
  <2>6. queued[k] = ValueAt(i)
    BY <2>1, QueueElements DEF QueueIs
  <2> QED
    BY <2>3, <2>5, <2>6
<1> DEFINE v == val[t][1]
<1>8. v \in Value
  BY DEF IInv, Carrying, Carries
<1>9. queued'[QueueLen + 1] = v
  <2>1. PICK n, i : n = QueueLen + 1 /\ i = PushSlot
    OBVIOUS
  <2>2. n \in 1 .. QueueLen'
    BY <1>4, <2>1, Places DEF PlacesFit
  <2>3. i = Place(n)'
    BY <1>4, <1>6, <2>1
  <2>4. queued'[n] = ValueAt(i)'
    BY <2>2, <2>3, NextQueue DEF QueueIs
  <2>5. ValueAt(i)' = val'[t][1]
    BY <1>5, <2>1, NextQueue DEF ValuesFit
  <2> QED
    BY <2>1, <2>4, <2>5
<1> HIDE DEF v
<1>10. queued' = Append(queued, v)
  <2>1. queued \in Seq(Value) /\ Len(queued) = QueueLen /\ QueueLen \in Nat
    BY QueueElements, Places DEF QueueIs, PlacesFit
  <2>2. queued' \in Seq(Value) /\ Len(queued') = QueueLen + 1
    BY <1>4, NextQueue DEF QueueIs
  <2>3. /\ Append(queued, v) \in Seq(Value) /\ Len(Append(queued, v)) = QueueLen + 1
        /\ \A k \in 1 .. QueueLen : Append(queued, v)[k] = queued[k]
        /\ Append(queued, v)[QueueLen + 1] = v
    BY <1>8, <2>1, AppendProperties
  <2>4. \A k \in 1 .. QueueLen + 1 : k \in 1 .. QueueLen \/ k = QueueLen + 1
    BY <2>1
  <2> QED
    BY <1>7, <1>9, <2>1, <2>2, <2>3, <2>4, SeqEqual
<1>11. answered' = answered
  <2>1. answered[t] = <<>> /\ answered'[t] = <<>>
    BY <1>5, Answers
  <2> QED
    BY <1>5, <2>1, OthersKeep DEF Alone
<1> QED
  BY <1>8, <1>10, <1>11

LEMMA ReservedPop ==
  ASSUME IInv, IInv', NEW t \in Thread, pc[t] \in {"try_pop", "pop"}, CanPop,
         UNCHANGED <<ring, pushed, val>>,
         popped' = Bumped(popped, ring.len),
         slot' = [slot EXCEPT ![t] = PopSlot], pc' = [pc EXCEPT ![t] = "read"]
  PROVE  AsFifo!Pop(t)
<1>1. /\ ring \in Rings /\ HeadInside(ring) /\ popped \in Nat /\ pushed \in Nat
      /\ ring.cap \in Nat /\ ring.head \in 0 .. ring.cap /\ ring.len \in 0 .. ring.cap
  BY Counts DEF IInv
<1>2. popped' = popped + 1 /\ popped < ring.len
  BY <1>1 DEF CanPop, Bumped
<1>3. Pushes' = Pushes /\ Pops = popped /\ Pops' = Pops + 1
  BY <1>1, <1>2 DEF Pops, Pushes, Vacant
<1>4. /\ QueueLen' = QueueLen - 1 /\ QueueLen \in Nat /\ 1 \in 1 .. QueueLen
      /\ \A k \in 1 .. QueueLen' : Place(k)' = Place(k + 1) /\ k + 1 \in 1 .. QueueLen
  <2>1. QueueLen' = QueueLen - 1 /\ QueueLen \in Nat /\ 1 \in 1 .. QueueLen
    BY <1>1, <1>2, <1>3, Places DEF QueueLen, PlacesFit
  <2>2. ASSUME NEW k \in 1 .. QueueLen' PROVE Place(k)' = Place(k + 1) /\ k + 1 \in 1 .. QueueLen
    <3>1. (Pops + 1) + k - 1 = Pops + (k + 1) - 1
      BY <1>1, <1>3, <2>1
    <3> QED
      BY <1>3, <2>1, <3>1 DEF Place
  <2> QED
    BY <2>1, <2>2
<1>5. Alone(t) /\ slot'[t] = PopSlot /\ pc'[t] = "read"
  BY DEF Alone, IInv, TypeOK, FlipTypeOK
<1>6. ASSUME NEW k \in 1 .. QueueLen' PROVE queued'[k] = queued[k + 1]
  <2>1. PICK i \in 0 .. ring.cap - 1 : i = Place(k + 1) /\ i = Place(k)'
    BY <1>4, Places DEF PlacesFit
  <2>2. ValueAt(i)' = ValueAt(i)
    BY <1>5, ValueStays
  <2>3. queued'[k] = ValueAt(i)'
    BY <2>1, NextQueue DEF QueueIs
  <2>4. queued[k + 1] = ValueAt(i)
    BY <1>4, <2>1, QueueElements DEF QueueIs
  <2> QED
    BY <2>2, <2>3, <2>4
<1>7. queued \in Seq(Value) /\ Len(queued) = QueueLen /\ queued # <<>>
  BY <1>4, QueueElements DEF QueueIs
<1>8. queued' = Tail(queued)
  <2>1. /\ Tail(queued) \in Seq(Value) /\ Len(Tail(queued)) = QueueLen - 1
        /\ \A k \in 1 .. QueueLen - 1 : Tail(queued)[k] = queued[k + 1]
    BY <1>7
  <2>2. queued' \in Seq(Value) /\ Len(queued') = QueueLen - 1
    BY <1>4, NextQueue DEF QueueIs
  <2> QED
    BY <1>4, <1>6, <2>1, <2>2, SeqEqual
<1>9. Head(queued) = ring.array[PopSlot]
  <2>1. Place(1) = PopSlot
    BY <1>1, <1>3 DEF Place, PopSlot
  <2>2. Offset(ring, PopSlot) = popped
    BY <1>1, <1>2, IndexOffset DEF PopSlot
  <2>3. ~Writing(PopSlot)
    BY <1>1, <1>2, <2>2 DEF Writing, IInv, Reserved
  <2>4. queued[1] = ring.array[PopSlot]
    BY <1>4, <2>1, <2>3, QueueElements, ValueOf DEF QueueIs, ValuesFit
  <2> QED
    BY <1>7, <2>4
<1>10. answered' = [answered EXCEPT ![t] = <<Head(queued)>>] /\ answered[t] = <<>>
  <2>1. answered[t] = <<>> /\ answered'[t] = <<Head(queued)>>
    BY <1>5, <1>9, Answers
  <2>2. \A s \in Thread \ {t} : /\ pc'[s] = pc[s] /\ val'[s] = val[s] /\ slot'[s] = slot[s]
                               /\ pc[s] = "read" => ring'.array[slot[s]] = ring.array[slot[s]]
    BY <1>5 DEF Alone
  <2> DEFINE w == <<Head(queued)>>
  <2>3. answered'[t] = w
    BY <2>1
  <2> HIDE DEF w
  <2>4. answered' = [answered EXCEPT ![t] = w]
    BY <2>2, <2>3, OthersKeep
  <2> QED
    BY <2>1, <2>4 DEF w
<1> QED
  BY <1>7, <1>8, <1>10 DEF AsFifo!Pop

\* One that finds no slot changes nothing: what try_push_sync and try_pop_sync
\* answer then is not that the queue is full or empty.
LEMMA NotReserved ==
  ASSUME IInv, IInv', NEW t \in Thread, Alone(t), UNCHANGED <<ring, slot>>,
         \/ UNCHANGED popped /\ pushed' = Bumped(pushed, Vacant(ring)) /\ ~CanPush
         \/ UNCHANGED pushed /\ popped' = Bumped(popped, ring.len) /\ ~CanPop,
         pc[t] \in {"try_push", "push", "try_pop", "pop"},
         pc'[t] \in {"leave", "check"} \/ (pc'[t] = "done" /\ val'[t] = <<>>)
  PROVE  UNCHANGED <<queued, answered>>
<1>1. /\ popped \in Nat /\ pushed \in Nat
      /\ ring.cap \in Nat /\ ring.len \in 0 .. ring.cap
  BY Counts DEF IInv
<1>2. Pops' = Pops /\ Pushes' = Pushes
  BY <1>1 DEF CanPush, CanPop, Bumped, Pops, Pushes, Vacant
<1>3. answered[t] = <<>> /\ answered'[t] = <<>>
  BY Answers
<1> QED
  BY <1>2, <1>3, Stutters

LEMMA ReserveFifo ==
  ASSUME IInv, IInv', NEW t \in Thread, TryPush(t) \/ Push(t) \/ TryPop(t) \/ Pop(t)
  PROVE  [AsFifo!Next]_<<queued, answered>>
<1> USE DEF Goto, At, Got
<1>1. CASE TryPush(t) \/ Push(t)
  <2>1. CASE CanPush
    <3>1. /\ pc[t] \in {"try_push", "push"} /\ UNCHANGED <<ring, popped, val>>
          /\ pushed' = Bumped(pushed, Vacant(ring))
          /\ slot' = [slot EXCEPT ![t] = PushSlot] /\ pc' = [pc EXCEPT ![t] = "write"]
      BY <1>1, <2>1 DEF TryPush, Push, ReservePush
    <3> QED
      BY <2>1, <3>1, ReservedPush DEF AsFifo!Next, AsFifo!Push
  <2>2. CASE ~CanPush
    <3>1. /\ pc[t] \in {"try_push", "push"} /\ UNCHANGED <<ring, slot, popped>>
          /\ pushed' = Bumped(pushed, Vacant(ring))
          /\ \/ pc' = [pc EXCEPT ![t] = "leave"] /\ val' = val
             \/ pc' = [pc EXCEPT ![t] = "done"] /\ val' = [val EXCEPT ![t] = <<>>]
      BY <1>1, <2>2 DEF TryPush, Push, ReservePush
    <3>2. Alone(t) /\ (pc'[t] = "leave" \/ (pc'[t] = "done" /\ val'[t] = <<>>))
      BY <3>1 DEF Alone, IInv, TypeOK, FlipTypeOK
    <3> QED
      BY <2>2, <3>1, <3>2, NotReserved
  <2> QED
    BY <2>1, <2>2
<1>2. CASE TryPop(t) \/ Pop(t)
  <2>1. CASE CanPop
    <3>1. /\ pc[t] \in {"try_pop", "pop"} /\ UNCHANGED <<ring, pushed, val>>
          /\ popped' = Bumped(popped, ring.len)
          /\ slot' = [slot EXCEPT ![t] = PopSlot] /\ pc' = [pc EXCEPT ![t] = "read"]
      BY <1>2, <2>1 DEF TryPop, Pop, ReservePop
    <3> QED
      BY <2>1, <3>1, ReservedPop DEF AsFifo!Next
  <2>2. CASE ~CanPop
    <3>1. /\ pc[t] \in {"try_pop", "pop"} /\ UNCHANGED <<ring, slot, pushed, val>>
          /\ popped' = Bumped(popped, ring.len)
          /\ pc' = [pc EXCEPT ![t] = "check"] \/ pc' = [pc EXCEPT ![t] = "done"]
      BY <1>2, <2>2 DEF TryPop, Pop, ReservePop
    <3>2. val[t] = <<>>
      BY <3>1 DEF IInv, Carrying
    <3>3. Alone(t) /\ (pc'[t] = "check" \/ (pc'[t] = "done" /\ val'[t] = <<>>))
      BY <3>1, <3>2 DEF Alone, IInv, TypeOK
    <3> QED
      BY <2>2, <3>1, <3>3, NotReserved
  <2> QED
    BY <2>1, <2>2
<1> QED
  BY <1>1, <1>2

-----------------------------------------------------------------------------
(* The accesses to the slots change neither the queue nor an answer.        *)
LEMMA WriteFifo ==
  ASSUME IInv, IInv', NEW t \in Thread, Write(t)
  PROVE  UNCHANGED <<queued, answered>>
<1>1. /\ pc[t] = "write" /\ pc' = [pc EXCEPT ![t] = "done"]
      /\ ring' = [ring EXCEPT !.array[slot[t]] = val[t][1]]
      /\ slot' = [slot EXCEPT ![t] = NoSlot] /\ val' = [val EXCEPT ![t] = <<>>]
      /\ UNCHANGED <<popped, pushed>>
  BY DEF Write, WriteSlot, At, Goto
<1>2. PICK at : at = slot[t]
  OBVIOUS
<1>3. /\ ring \in Rings /\ ring.cap \in Nat /\ ring.array \in [0 .. ring.cap - 1 -> Value \cup {None}]
      /\ at \in 0 .. ring.cap - 1
  BY <1>1, <1>2, Counts, RingFields DEF IInv, Reserved, Accessing
<1>4. /\ ring'.cap = ring.cap /\ ring'.head = ring.head /\ ring'.len = ring.len
      /\ ring'.array = [ring.array EXCEPT ![at] = val[t][1]]
  BY <1>1, <1>2, <1>3, RingFields
<1>5. Alone(t) /\ pc'[t] = "done" /\ val'[t] = <<>>
  BY <1>1 DEF Alone, IInv, TypeOK, FlipTypeOK
<1>6. Pops' = Pops /\ Pushes' = Pushes
  BY <1>1, <1>4 DEF Pops, Pushes, Vacant
<1>7. ASSUME NEW i \in 0 .. ring.cap - 1 PROVE ValueAt(i)' = ValueAt(i)
  <2>1. CASE i = at
    <3>1. ValueAt(i) = val[t][1]
      BY <1>1, <1>2, <2>1, ValueOf DEF ValuesFit
    <3>2. ~Writing(i)'
      BY <1>1, <1>2, <1>5, <2>1 DEF Writing, Alone, IInv, SlotsExclusive, Reserved
    <3>3. ValueAt(i)' = ring'.array[i]
      BY <3>2, NextQueue DEF ValuesFit
    <3> QED
      BY <1>3, <1>4, <2>1, <3>1, <3>3
  <2>2. CASE i # at
    <3>1. ring'.array[i] = ring.array[i]
      BY <1>3, <1>4, <2>2
    <3> QED
      BY <1>2, <1>5, <2>2, <3>1, ValueStays
  <2> QED
    BY <2>1, <2>2
<1>8. queued' = queued
  BY <1>4, <1>6, <1>7, SameQueue
<1>9. answered' = answered
  <2>1. answered[t] = <<>> /\ answered'[t] = <<>>
    BY <1>1, <1>5, Answers
  <2>2. ASSUME NEW s \in Thread \ {t}, pc[s] = "read" PROVE ring'.array[slot[s]] = ring.array[slot[s]]
    <3>1. slot[s] # at
      BY <1>1, <1>2, <2>2 DEF IInv, SlotsExclusive, Reserved
    <3> QED
      BY <1>3, <1>4, <3>1
  <2> QED
    BY <1>5, <2>1, <2>2, OthersKeep DEF Alone
<1> QED
  BY <1>8, <1>9

LEMMA ReadFifo ==
  ASSUME IInv, IInv', NEW t \in Thread, Read(t)
  PROVE  UNCHANGED <<queued, answered>>
<1>1. /\ pc[t] = "read" /\ pc' = [pc EXCEPT ![t] = "done"]
      /\ ring' = [ring EXCEPT !.array = Without(ring, {slot[t]})]
      /\ slot' = [slot EXCEPT ![t] = NoSlot]
      /\ val' = [val EXCEPT ![t] = <<ring.array[slot[t]]>>]
      /\ UNCHANGED <<popped, pushed>>
  BY DEF Read, ReadSlot, At, Goto
<1>2. PICK at : at = slot[t]
  OBVIOUS
<1>3. /\ ring \in Rings /\ ring.cap \in Nat /\ at \in 0 .. ring.cap - 1
      /\ popped \in Nat /\ ring.len \in 0 .. ring.cap
      /\ Offset(ring, at) < popped /\ Offset(ring, at) < ring.len /\ Offset(ring, at) \in Int
  <2>1. ring \in Rings /\ ring.cap \in Nat /\ popped \in Nat /\ ring.len \in 0 .. ring.cap /\ ring.head \in Nat
    BY Counts DEF IInv
  <2>2. at \in 0 .. ring.cap - 1 /\ Offset(ring, at) < popped /\ Offset(ring, at) < ring.len
    BY <1>1, <1>2, Counts DEF IInv, Reserved, Accessing
  <2> QED
    BY <2>1, <2>2 DEF Offset
<1>4. /\ ring'.cap = ring.cap /\ ring'.head = ring.head /\ ring'.len = ring.len
      /\ \A i \in 0 .. ring.cap - 1 : i # at => ring'.array[i] = ring.array[i]
  <2>1. ring'.cap = ring.cap /\ ring'.head = ring.head /\ ring'.len = ring.len
        /\ ring'.array = Without(ring, {at})
    BY <1>1, <1>2, <1>3, RingFields
  <2> QED
    BY <2>1 DEF Without
<1>5. Alone(t) /\ pc'[t] = "done" /\ val'[t] = <<ring.array[at]>>
  BY <1>1, <1>2 DEF Alone, IInv, TypeOK, FlipTypeOK
<1>6. Pops' = Pops /\ Pushes' = Pushes
  BY <1>1, <1>4 DEF Pops, Pushes, Vacant
<1>7. ASSUME NEW i \in 0 .. ring.cap - 1, Found(i) PROVE ValueAt(i)' = ValueAt(i)
  <2>1. i # at
    BY <1>3, <1>7 DEF Found, Pops
  <2>2. ring'.array[i] = ring.array[i]
    BY <1>4, <2>1
  <2> QED
    BY <1>1, <1>5, <2>2, ValueStays
<1>8. queued' = queued
  BY <1>4, <1>6, <1>7, SameQueue
<1>9. answered' = answered
  <2>1. answered[t] = <<ring.array[at]>> /\ answered'[t] = <<ring.array[at]>>
    BY <1>1, <1>2, <1>5, Answers
  <2>2. ASSUME NEW s \in Thread \ {t}, pc[s] = "read" PROVE ring'.array[slot[s]] = ring.array[slot[s]]
    <3>1. slot[s] # at /\ slot[s] \in 0 .. ring.cap - 1
      BY <1>1, <1>2, <2>2, Counts DEF IInv, SlotsExclusive, Reserved, Accessing
    <3> QED
      BY <1>4, <3>1
  <2> QED
    BY <1>5, <2>1, <2>2, OthersKeep DEF Alone
<1> QED
  BY <1>8, <1>9

-----------------------------------------------------------------------------
(* Alone, a call works on the queue itself.                                 *)
Quiet == \A t \in Thread : pc[t] \notin {"write", "read"}

LEMMA QuietQueue == Quiet => queued = Contents(Flushed(ring))
<1> SUFFICES ASSUME Quiet PROVE queued = Contents(Flushed(ring))
  OBVIOUS
<1>1. \A i : Late(i) = {}
  BY DEF Quiet, Late
<1>2. queued = [k \in 1 .. Flushed(ring).len |-> ring.array[Window(Flushed(ring))[k]]]
  BY <1>1 DEF queued, Late
<1>3. Flushed(ring).array = ring.array
  BY DEF Flushed
<1> QED
  BY <1>2, <1>3 DEF Contents

Settled == Quiet /\ popped = 0 /\ pushed = 0
QueueIsRing == queued = Contents(ring)

LEMMA SettledQueue == IInv /\ Settled => QueueIsRing
<1> SUFFICES ASSUME IInv, Quiet, popped = 0, pushed = 0 PROVE queued = Contents(ring)
  BY DEF Settled, QueueIsRing
<1>1. /\ ring \in Rings /\ HeadInside(ring)
      /\ ring.cap \in Nat /\ ring.head \in 0 .. ring.cap /\ ring.len \in 0 .. ring.cap
  BY Counts DEF IInv
<1>2. Pops = 0 /\ Pushes = 0
  BY <1>1 DEF Pops, Pushes, Vacant
<1>3. QueueLen = ring.len /\ \A k \in 1 .. ring.len : Place(k) = RingIndex(ring.head, k - 1, ring.cap)
  BY <1>1, <1>2 DEF QueueLen, Place
<1>4. \A i : ValueAt(i) = ring.array[i]
  BY ValueOf DEF ValuesFit, Writing, Quiet
<1>5. /\ queued \in Seq(Value) /\ Len(queued) = ring.len
      /\ \A k \in 1 .. ring.len : queued[k] = ring.array[RingIndex(ring.head, k - 1, ring.cap)]
  BY <1>3, <1>4, QueueElements DEF QueueIs
<1>6. /\ Contents(ring) \in Seq(Value \cup {None}) /\ Len(Contents(ring)) = ring.len
      /\ \A k \in 1 .. ring.len : Contents(ring)[k] = ring.array[RingIndex(ring.head, k - 1, ring.cap)]
  BY <1>1, ContentsElements
<1> QED
  BY <1>5, <1>6, SeqEqual

LEMMA NextSettled == IInv' /\ Settled' => QueueIsRing'
BY SettledQueue, PTL

\* What a call that is alone answers, and what it leaves of the queue.
LEMMA SettleFifo ==
  ASSUME IInv, IInv', NEW t \in Thread, pc[t] \in {"locked", "exclusive"},
         popped' = 0, pushed' = 0, UNCHANGED slot, pc' = [pc EXCEPT ![t] = "done"],
         NEW w, val' = [val EXCEPT ![t] = w]
  PROVE  /\ queued = Contents(Flushed(ring)) /\ queued' = Contents(ring')
         /\ queued \in Seq(Value) /\ queued' \in Seq(Value)
         /\ answered[t] = <<>> /\ answered' = [answered EXCEPT ![t] = w]
         /\ w = <<>> => answered' = answered
<1>1. Quiet /\ Quiet'
  BY AloneFlushed DEF Quiet, IInv, TypeOK
<1>2. queued = Contents(Flushed(ring)) /\ queued' = Contents(ring')
  BY <1>1, QuietQueue, NextSettled DEF Settled, QueueIsRing, Contents, Window
<1>3. queued \in Seq(Value) /\ queued' \in Seq(Value)
  BY QueueElements, NextQueue DEF QueueIs
<1>4. Alone(t) /\ pc'[t] = "done" /\ val'[t] = w
  BY DEF Alone, IInv, TypeOK, FlipTypeOK
<1>5. answered[t] = <<>> /\ answered'[t] = w
  BY <1>4, Answers
<1>6. \A s \in Thread : pc[s] # "read"
  BY <1>1 DEF Quiet
<1>7. answered' = [answered EXCEPT ![t] = w] /\ (w = <<>> => answered' = answered)
  BY <1>4, <1>5, <1>6, OthersKeep DEF Alone
<1> QED
  BY <1>2, <1>3, <1>5, <1>7

LEMMA ExclusiveFifo ==
  ASSUME IInv, IInv', NEW t \in Thread,
         \/ PushSlow(t) \/ PopSlow(t) \/ PopMut(t) \/ ClearMut(t) \/ SwapBuffer(t)
         \/ \E v \in Value : PushMut(t, v)
         \/ \E n \in 0 .. MaxCap : Drain(t, n)
  PROVE  [AsFifo!Next]_<<queued, answered>>
<1> DEFINE r == Flushed(ring)
<1>1. /\ pc[t] \in {"locked", "exclusive"} /\ pc' = [pc EXCEPT ![t] = "done"]
      /\ popped' = 0 /\ pushed' = 0 /\ UNCHANGED <<slot, mode>>
  BY Zenon DEF PushSlow, PopSlow, PopMut, ClearMut, SwapBuffer, PushMut, Drain, At, Goto,
         PushFlushed, PopFlushed, ClearFlushed, SwapFlushed, DrainFlushed, Settle
<1>2. r \in Rings /\ ExactWindow(r) /\ HeadInside(r)
  BY <1>1, AloneFlushed, ExactOffset
<1>3. ASSUME NEW w, val' = [val EXCEPT ![t] = w]
      PROVE  /\ queued = Contents(r) /\ queued' = Contents(ring')
             /\ queued \in Seq(Value) /\ queued' \in Seq(Value)
             /\ answered[t] = <<>> /\ answered' = [answered EXCEPT ![t] = w]
             /\ w = <<>> => answered' = answered
  BY <1>1, <1>3, SettleFifo
<1> HIDE DEF r
<1>4. ASSUME NEW v \in Value, PushFlushed(t, v) PROVE [AsFifo!Next]_<<queued, answered>>
  <2>1. ring' \in AfterPush(r, v) /\ val' = [val EXCEPT ![t] = <<>>]
    BY <1>4 DEF PushFlushed, Settle, Got, r
  <2>2. answered' = answered /\ queued = Contents(r) /\ queued' = Contents(ring')
    BY <1>3, <2>1
  <2>3. queued' = queued \/ queued' = Append(queued, v)
    BY <1>2, <2>1, <2>2, PushContents
  <2> QED
    BY <2>2, <2>3 DEF AsFifo!Next, AsFifo!Push
<1>5. ASSUME PopFlushed(t) PROVE AsFifo!Next
  <2>1. ring' = AfterPop(r) /\ val' = [val EXCEPT ![t] = <<First(r)>>]
    BY <1>5 DEF PopFlushed, Settle, Got, r
  <2>2. /\ answered[t] = <<>> /\ answered' = [answered EXCEPT ![t] = <<First(r)>>]
        /\ queued = Contents(r) /\ queued' = Contents(ring') /\ queued \in Seq(Value)
    BY <1>3, <2>1
  <2>3. queued' = SubSeq(queued, 2, Len(queued))
    BY <1>2, <2>1, <2>2, PopContents
  <2>4. First(r) = IF 0 < Len(queued) THEN queued[1] ELSE None
    BY <1>2, <2>2, FirstElement
  <2>5. CASE queued = <<>>
    <3>1. First(r) = None /\ queued' = queued
      BY <2>2, <2>3, <2>4, <2>5, SubSeqEmpty
    <3> QED
      BY <2>2, <2>5, <3>1 DEF AsFifo!Next, AsFifo!FindEmpty
  <2>6. CASE queued # <<>>
    <3>1. Len(queued) \in Nat /\ 0 < Len(queued) /\ Head(queued) = queued[1]
      BY <2>2, <2>6, EmptySeq
    <3>2. queued' = Tail(queued)
      BY <2>2, <2>3, <2>6
    <3> QED
      BY <2>2, <2>4, <2>6, <3>1, <3>2 DEF AsFifo!Next, AsFifo!Pop
  <2> QED
    BY <2>5, <2>6
<1>6. ASSUME ClearFlushed(t) PROVE AsFifo!Next
  <2>1. ring' = Cleared(r) /\ val' = [val EXCEPT ![t] = <<>>]
    BY <1>6 DEF ClearFlushed, Settle, Got, r
  <2>2. /\ answered[t] = <<>> /\ answered' = [answered EXCEPT ![t] = <<>>]
        /\ queued' = <<>> /\ queued \in Seq(Value)
    BY <1>2, <1>3, <2>1, ClearContents
  <2>3. SubSeq(queued, 1, 0) = <<>> /\ 0 \in 0 .. Len(queued)
    BY <2>2, SubSeqEmpty
  <2>4. AsFifo!Drain(t, 0)
    BY <2>2, <2>3 DEF AsFifo!Drain
  <2> QED
    BY <2>3, <2>4 DEF AsFifo!Next
<1>7. ASSUME NEW own \in ClientRings, SwapFlushed(t, own) PROVE AsFifo!Next
  <2>1. val' = [val EXCEPT ![t] = Contents(r)]
    BY <1>7 DEF SwapFlushed, Got, r
  <2>2. AsFifo!Swap(t)
    BY <1>3, <2>1 DEF AsFifo!Swap
  <2> QED
    BY <2>2 DEF AsFifo!Next
<1>8. ASSUME NEW n \in 0 .. MaxCap, DrainFlushed(t, n) PROVE AsFifo!Next
  <2> DEFINE kept == DrainedOf(r, n)
  <2>1. /\ n <= r.len /\ ring' \in {kept, Cleared(kept)}
        /\ val' = [val EXCEPT ![t] = SubSeq(Contents(r), 1, n)]
    BY <1>8 DEF DrainFlushed, Settle, Got, r, DrainedOf, Shrunk
  <2>2. n \in 0 .. r.len /\ Len(Contents(r)) = r.len
    BY <1>2, <2>1, ContentsElements, CapAssumption
  <2>3. kept \in Rings /\ Contents(kept) = SubSeq(Contents(r), n + 1, Len(Contents(r)))
    BY <1>2, <2>2, DrainedFits
  <2> HIDE DEF kept
  <2>4. Contents(ring') \in {<<>>, SubSeq(Contents(r), n + 1, Len(Contents(r)))}
    BY <2>1, <2>3, ClearContents
  <2>5. AsFifo!Drain(t, n)
    BY <1>3, <2>1, <2>4 DEF AsFifo!Drain
  <2>6. n \in 0 .. Len(queued)
    BY <1>3, <2>1, <2>2
  <2> QED
    BY <2>5, <2>6 DEF AsFifo!Next
<1>9. ASSUME PushSlow(t) PROVE \E v \in Value : PushFlushed(t, v)
  BY <1>9 DEF PushSlow, At, IInv, Carrying, Carries
<1> QED
  BY <1>4, <1>5, <1>6, <1>7, <1>8, <1>9 DEF PopSlow, PopMut, ClearMut, SwapBuffer, PushMut, Drain

-----------------------------------------------------------------------------
LEMMA StepFifo == IInv /\ Checked /\ IInv' /\ [Next]_vars => [AsFifo!Next]_<<queued, answered>>
<1> SUFFICES ASSUME IInv, Checked, IInv', [Next]_vars
             PROVE  [AsFifo!Next]_<<queued, answered>>
  OBVIOUS
<1>1. CASE UNCHANGED vars
  <2>1. queued' = queued
    BY <1>1 DEF vars, flipVars, queued, Flushed, Window, Vacant
  <2>2. answered' = answered
    BY <1>1 DEF vars, flipVars, answered
  <2> QED
    BY <2>1, <2>2
<1>2. ASSUME NEW t \in Thread, Begin(t) \/ SharedStep(t) \/ ExclusiveStep(t) \/ Return(t)
      PROVE  [AsFifo!Next]_<<queued, answered>>
  BY <1>2, LockStepFifo, ReserveFifo, WriteFifo, ReadFifo, ExclusiveFifo DEF SharedStep, ExclusiveStep
<1> QED
  BY <1>1, <1>2 DEF Next

LEMMA InitFifo == Init => AsFifo!Init /\ Checked
<1> SUFFICES ASSUME Init PROVE AsFifo!Init /\ Checked
  OBVIOUS
<1>1. IInv /\ Settled
  BY InitInv DEF Init, FlipInit, Settled, Quiet
<1>2. ring \in Rings /\ ring.len = 0
  BY <1>1, Counts, CapAssumption DEF IInv, Init, FlipInit, WithCapacity
<1>3. queued = <<>>
  BY <1>1, <1>2, SettledQueue, ContentsElements, EmptySeq DEF QueueIsRing
<1>4. answered = [t \in Thread |-> <<>>]
  BY DEF Init, answered
<1> QED
  BY <1>3, <1>4 DEF AsFifo!Init, Init, Checked

LEMMA StepChecked == IInv /\ Checked /\ [Next]_vars => Checked'
<1> SUFFICES ASSUME IInv, Checked, [Next]_vars PROVE Checked'
  OBVIOUS
<1>1. popped \in Nat /\ ring.len \in Nat
  BY Counts DEF IInv
<1>2. CASE UNCHANGED vars
  BY <1>2 DEF vars, flipVars, Checked
<1>3. ASSUME NEW t \in Thread, Begin(t) \/ Check(t) \/ Leave(t) \/ LockSlow(t) \/ Return(t)
      PROVE  Checked'
  <2>1. UNCHANGED <<ring, popped>> /\ \E p : p # "check" /\ pc' = [pc EXCEPT ![t] = p]
    BY <1>3 DEF Begin, BeginPush, BeginPop, BeginExclusive, Check, Leave, LockSlow, Return, flipVars, Goto
  <2> QED
    BY <2>1 DEF Checked, IInv, TypeOK
<1>4. ASSUME NEW t \in Thread, TryPush(t) \/ Push(t) \/ TryPop(t) \/ Pop(t) PROVE Checked'
  <2>1. /\ UNCHANGED ring /\ popped' \in {popped, Bumped(popped, ring.len)}
        /\ \E p : pc' = [pc EXCEPT ![t] = p] /\ (p = "check" => ~CanPop /\ popped' = Bumped(popped, ring.len))
    BY <1>4 DEF TryPush, Push, TryPop, Pop, ReservePush, ReservePop, Goto
  <2>2. popped' >= popped
    BY <1>1, <2>1 DEF Bumped
  <2> QED
    BY <1>1, <2>1, <2>2 DEF Checked, CanPop, Bumped, IInv, TypeOK
<1>5. ASSUME NEW t \in Thread, Write(t) \/ Read(t) PROVE Checked'
  <2>1. /\ popped' = popped /\ pc' = [pc EXCEPT ![t] = "done"]
        /\ \E a : ring' = [ring EXCEPT !.array = a]
    BY <1>5 DEF Write, Read, WriteSlot, ReadSlot, Goto
  <2>2. ring'.len = ring.len
    BY <2>1, RingFields, Counts DEF IInv
  <2> QED
    BY <2>1, <2>2 DEF Checked, IInv, TypeOK
<1>6. ASSUME NEW t \in Thread,
             \/ PushSlow(t) \/ PopSlow(t) \/ PopMut(t) \/ ClearMut(t) \/ SwapBuffer(t)
             \/ \E v \in Value : PushMut(t, v)
             \/ \E n \in 0 .. MaxCap : Drain(t, n)
      PROVE  Checked'
  <2>1. pc[t] \in {"locked", "exclusive"} /\ pc' = [pc EXCEPT ![t] = "done"]
    BY <1>6 DEF PushSlow, PopSlow, PopMut, ClearMut, SwapBuffer, PushMut, Drain, At, Goto
  <2>2. \A s \in Thread : pc[s] # "check"
    BY <2>1 DEF IInv, Locked, Exclusive, Shared
  <2> QED
    BY <2>1, <2>2 DEF Checked, IInv, TypeOK
<1> QED
  BY <1>2, <1>3, <1>4, <1>5, <1>6 DEF Next, SharedStep, ExclusiveStep

\* The calls are linearizable: the queue is what a flush would make of the
\* ring, with the values that are still to be written; a push or a pop takes
\* effect when it reserves its slot, or under the exclusive lock, and pop_sync
\* answers that the queue is empty only if it is so at that moment.
THEOREM Implements == Spec => ImplementsFifo
<1>1. Init => AsFifo!Init /\ Checked
  BY InitFifo
<1>2. IInv /\ Checked /\ [Next]_vars => Checked'
  BY StepChecked
<1>3. IInv /\ Checked /\ IInv' /\ [Next]_vars => [AsFifo!Next]_<<queued, answered>>
  BY StepFifo
<1> QED
  BY <1>1, <1>2, <1>3, Invariance, PTL DEF Spec, ImplementsFifo, AsFifo!Spec
=============================================================================
