---------------------------- MODULE RwSpinProofs ----------------------------
(***************************************************************************)
(* Theorems about RawRwSpin for every set of callers and width of usize.   *)
(***************************************************************************)
EXTENDS RwSpin, FiniteSetTheorems, TLAPS

(* The parts of the word do not overlap: with P == EXCLUSIVE_PENDING, the   *)
(* word has room for 4 * P values.                                          *)
LEMMA Width ==
  /\ EXCLUSIVE_PENDING \in Nat /\ EXCLUSIVE_PENDING >= 8
  /\ EXCLUSIVE_LOCKED = 2 * EXCLUSIVE_PENDING
  /\ UsizeMax \in Nat /\ UsizeMax + 1 = 4 * EXCLUSIVE_PENDING
<1>1. PICK k \in Int : UsizeMax + 1 = 32 * k
  BY WidthAssumption
<1>2. k >= 1
  BY <1>1, WidthAssumption
<1>3. \A q \in Int : (4 * q + 3) \div 4 = q /\ (2 * q + 1) \div 2 = q
  OBVIOUS
<1>4. UsizeMax \div 4 = 8 * k - 1 /\ UsizeMax \div 2 = 16 * k - 1
  <2>1. 8 * k - 1 \in Int /\ 16 * k - 1 \in Int
    OBVIOUS
  <2>2. UsizeMax = 4 * (8 * k - 1) + 3 /\ UsizeMax = 2 * (16 * k - 1) + 1
    BY <1>1, WidthAssumption
  <2> QED
    BY <1>3, <2>1, <2>2
<1> QED
  BY <1>1, <1>2, <1>4, WidthAssumption DEF EXCLUSIVE_PENDING, EXCLUSIVE_LOCKED

LEMMA Threshold == SHARED_LOCK_THRESHOLD \in Nat
<1>1. PICK k \in Int : UsizeMax + 1 = 32 * k
  BY WidthAssumption
<1>2. \A q \in Int : (32 * q + 31) \div 32 = q
  OBVIOUS
<1>3. UsizeMax \div 32 = k - 1 /\ k >= 1
  <2>1. k - 1 \in Int /\ UsizeMax = 32 * (k - 1) + 31 /\ k >= 1
    BY <1>1, WidthAssumption
  <2> QED
    BY <1>2, <2>1
<1> QED
  BY <1>3 DEF SHARED_LOCK_THRESHOLD

(* Fewer threads are counted than the count has room for (spin.rs:85).      *)
LEMMA CountedFits ==
  /\ IsFiniteSet(Counted)
  /\ Cardinality(Counted) \in Nat /\ Cardinality(Counted) < EXCLUSIVE_PENDING
<1>1. Counted \subseteq Thread
  BY DEF Counted
<1>2. IsFiniteSet(Counted) /\ Cardinality(Counted) <= Cardinality(Thread)
  BY <1>1, ThreadAssumption, FS_Subset
<1>3. Cardinality(Thread) \in Nat /\ Cardinality(Counted) \in Nat
  BY <1>2, ThreadAssumption, FS_CardinalityType
<1> QED
  BY <1>2, <1>3, ThreadAssumption, Width

(* A thread that adds one to the word, and one that takes it back.          *)
LEMMA EnterCounted ==
  ASSUME TypeOK, NEW t \in Thread, NEW p \in CountedPCs, Goto(t, p),
         pc[t] \notin CountedPCs
  PROVE  Cardinality(Counted') = Cardinality(Counted) + 1
<1>1. Counted' = Counted \cup {t} /\ t \notin Counted
  BY DEF Counted, Goto, TypeOK
<1> QED
  BY <1>1, CountedFits, FS_AddElement

LEMMA LeaveCounted ==
  ASSUME TypeOK, NEW t \in Thread, NEW p, p \notin CountedPCs, Goto(t, p),
         pc[t] \in CountedPCs
  PROVE  Cardinality(Counted') = Cardinality(Counted) - 1
<1>1. Counted' = Counted \ {t} /\ t \in Counted
  BY DEF Counted, Goto, TypeOK
<1> QED
  BY <1>1, CountedFits, FS_RemoveElement

LEMMA StayCounted ==
  ASSUME TypeOK, NEW t \in Thread, NEW p, Goto(t, p),
         pc[t] \in CountedPCs <=> p \in CountedPCs
  PROVE  Counted' = Counted
BY DEF Counted, Goto, TypeOK

-----------------------------------------------------------------------------
(* What the value of the word says of who is where.                         *)
LEMMA WordParts ==
  ASSUME IInv
  PROVE  /\ lock \in Nat /\ lock + EXCLUSIVE_PENDING <= UsizeMax
         /\ Counted # {} => lock >= 1
         /\ Queued # {} => lock >= EXCLUSIVE_PENDING
         /\ Exclusive = {} <=> lock < EXCLUSIVE_LOCKED
         /\ lock < EXCLUSIVE_PENDING => Queued = {} /\ Exclusive = {}
         /\ lock \in {0, EXCLUSIVE_PENDING} => Counted = {} /\ Exclusive = {}
<1>1. Cardinality(Counted) = 0 <=> Counted = {}
  BY CountedFits, FS_EmptySet
<1>2. lock = Cardinality(Counted)
             + (IF Queued = {} THEN 0 ELSE EXCLUSIVE_PENDING)
             + (IF Exclusive = {} THEN 0 ELSE EXCLUSIVE_LOCKED)
  BY DEF IInv, LockWord
<1>3. Queued = {} \/ Exclusive = {}
  BY DEF IInv, OneWriterInQueue
<1>4. CASE Queued = {} /\ Exclusive = {}
  <2>1. lock = Cardinality(Counted)
    BY <1>2, <1>4, CountedFits
  <2> QED
    BY <1>1, <1>4, <2>1, CountedFits, Width
<1>5. CASE Queued # {} /\ Exclusive = {}
  <2>1. lock = Cardinality(Counted) + EXCLUSIVE_PENDING
    BY <1>2, <1>5, CountedFits, Width
  <2> QED
    BY <1>1, <1>5, <2>1, CountedFits, Width
<1>6. CASE Queued = {} /\ Exclusive # {}
  <2>1. lock = Cardinality(Counted) + EXCLUSIVE_LOCKED
    BY <1>2, <1>6, CountedFits, Width
  <2> QED
    BY <1>1, <1>6, <2>1, CountedFits, Width
<1> QED
  BY <1>3, <1>4, <1>5, <1>6

LEMMA AddsUp ==
  ASSUME IInv, NEW n \in 0 .. EXCLUSIVE_PENDING
  PROVE  WrapAdd(lock, n) = lock + n
<1>1. n \in Nat /\ n <= EXCLUSIVE_PENDING /\ lock \in Nat
  BY WordParts, Width
<1>2. lock + n <= UsizeMax
  BY <1>1, WordParts, Width
<1> QED
  BY <1>1, <1>2, Width DEF WrapAdd

LEMMA TakesAway ==
  ASSUME IInv, NEW n \in Nat, n <= lock
  PROVE  WrapSub(lock, n) = lock - n
BY WordParts, Width DEF WrapSub

(* Every step keeps the history a history.                                  *)
LEMMA HistoryType ==
  ASSUME NEW t \in Thread, NEW p, ahead \in [Thread -> SUBSET Thread], Goto(t, p)
  PROVE  ahead' \in [Thread -> SUBSET Thread]
BY DEF Goto, Queued

(* A step of t that neither is nor becomes a queued or exclusive writer.    *)
PlainPCs == CountedPCs \cup {"idle", "room", "requeue", "cas", "enqueue", "panicked"}

LEMMA PlainStep ==
  ASSUME IInv, NEW t \in Thread, NEW p \in PlainPCs, pc[t] \in PlainPCs, Goto(t, p),
         p = "shared" => Exclusive = {},
         seen' \in [Thread -> 0 .. EXCLUSIVE_PENDING - 1],
         lock' = lock + (IF p \in CountedPCs THEN 1 ELSE 0)
                      - (IF pc[t] \in CountedPCs THEN 1 ELSE 0)
  PROVE  IInv'
<1>1. TypeOK /\ LockWord /\ OneWriterInQueue /\ MutualExclusion
  BY DEF IInv
<1>2. /\ pc \in [Thread -> CountedPCs \cup QueuedPCs \cup OtherPCs]
      /\ pc' = [pc EXCEPT ![t] = p]
  BY <1>1 DEF TypeOK, Goto
<1>3. Queued' = Queued /\ Exclusive' = Exclusive
  BY <1>2 DEF Queued, Exclusive, PlainPCs, CountedPCs, QueuedPCs
<1>4. Shared' \subseteq Shared \cup (IF p = "shared" THEN {t} ELSE {})
  BY <1>2 DEF Shared
<1>5. Cardinality(Counted') = Cardinality(Counted)
                              + (IF p \in CountedPCs THEN 1 ELSE 0)
                              - (IF pc[t] \in CountedPCs THEN 1 ELSE 0)
  <2>1. CASE p \in CountedPCs /\ pc[t] \notin CountedPCs
    BY <1>1, <2>1, EnterCounted, CountedFits
  <2>2. CASE p \notin CountedPCs /\ pc[t] \in CountedPCs
    BY <1>1, <2>2, LeaveCounted, CountedFits
  <2>3. CASE p \in CountedPCs <=> pc[t] \in CountedPCs
    BY <1>1, <2>3, StayCounted, CountedFits
  <2> QED
    BY <2>1, <2>2, <2>3
<1>6. LockWord'
  BY <1>1, <1>3, <1>5, CountedFits, Width DEF LockWord
<1>7. OneWriterInQueue' /\ MutualExclusion'
  BY <1>1, <1>3, <1>4 DEF OneWriterInQueue, MutualExclusion
<1>8. Cardinality(Counted') \in Nat /\ Cardinality(Counted') < EXCLUSIVE_PENDING
  <2>1. Counted' \subseteq Thread
    BY DEF Counted
  <2>2. IsFiniteSet(Counted') /\ Cardinality(Counted') <= Cardinality(Thread)
    BY <2>1, ThreadAssumption, FS_Subset
  <2> QED
    BY <2>2, ThreadAssumption, FS_CardinalityType, Width
<1>9. TypeOK'
  <2>1. lock' = Cardinality(Counted')
                + (IF Queued = {} THEN 0 ELSE EXCLUSIVE_PENDING)
                + (IF Exclusive = {} THEN 0 ELSE EXCLUSIVE_LOCKED)
    BY <1>3, <1>6 DEF LockWord
  <2>2. lock' \in Nat /\ lock' <= UsizeMax
    BY <1>8, <2>1, Width
  <2>3. p \in CountedPCs \cup QueuedPCs \cup OtherPCs
    BY DEF PlainPCs, OtherPCs
  <2>4. lock' \in Word
    BY <2>2, Width DEF Word
  <2> QED
    BY <1>1, <1>2, <2>3, <2>4, HistoryType DEF TypeOK
<1> QED
  BY <1>6, <1>7, <1>9 DEF IInv

-----------------------------------------------------------------------------
(* One lemma per operation: no step breaks the invariant.  A reader gets    *)
(* the lock from a word below EXCLUSIVE_LOCKED, so from no writer's hands.  *)
LEMMA WaitBodyFacts ==
  ASSUME NEW t \in Thread, NEW count \in Nat, NEW p \in WaitBody(t, count)
  PROVE  /\ p \in CountedPCs \cup {"idle"}
         /\ p = "shared" => count < EXCLUSIVE_LOCKED
         /\ p \in CountedPCs
BY DEF WaitBody, Refusal, CountedPCs

LEMMA RoomBodyFacts ==
  ASSUME NEW t \in Thread, NEW count \in Nat, NEW p \in RoomBody(t, count)
  PROVE  p \in PlainPCs /\ p \notin CountedPCs
BY DEF RoomBody, Refusal, PlainPCs, CountedPCs

(* t, until now not counted, adds one and is counted.                       *)
LEMMA EnterStep ==
  ASSUME IInv, NEW t \in Thread, pc[t] \in {"idle", "requeue"}, Add(1), UNCHANGED seen,
         NEW p \in CountedPCs, Goto(t, p), p = "shared" => lock < EXCLUSIVE_LOCKED
  PROVE  IInv'
<1>1. lock' = lock + 1
  BY AddsUp, Width DEF Add
<1>2. p = "shared" => Exclusive = {}
  BY WordParts
<1>3. seen' \in [Thread -> 0 .. EXCLUSIVE_PENDING - 1]
  BY DEF IInv, TypeOK
<1>4. pc[t] \in PlainPCs /\ p \in PlainPCs /\ pc[t] \notin CountedPCs /\ lock \in Nat
  BY WordParts DEF PlainPCs, CountedPCs
<1>5. lock' = lock + (IF p \in CountedPCs THEN 1 ELSE 0)
                   - (IF pc[t] \in CountedPCs THEN 1 ELSE 0)
  BY <1>1, <1>4
<1> QED
  BY <1>2, <1>3, <1>4, <1>5, PlainStep

(* t, counted, takes its one back.                                          *)
LEMMA LeaveStep ==
  ASSUME IInv, NEW t \in Thread, pc[t] \in CountedPCs, Sub(1), UNCHANGED seen,
         NEW p \in PlainPCs, p \notin CountedPCs, Goto(t, p)
  PROVE  IInv'
<1>1. lock \in Nat /\ lock >= 1
  BY WordParts DEF Counted
<1>2. lock' = lock - 1
  BY <1>1, TakesAway DEF Sub
<1>3. seen' \in [Thread -> 0 .. EXCLUSIVE_PENDING - 1]
  BY DEF IInv, TypeOK
<1>4. pc[t] \in PlainPCs /\ p # "shared"
  BY DEF PlainPCs, CountedPCs
<1>5. lock' = lock + (IF p \in CountedPCs THEN 1 ELSE 0)
                   - (IF pc[t] \in CountedPCs THEN 1 ELSE 0)
  BY <1>1, <1>2
<1> QED
  BY <1>3, <1>4, <1>5, PlainStep

(* t only looks at the word.                                                *)
LEMMA LookStep ==
  ASSUME IInv, NEW t \in Thread, pc[t] \in PlainPCs, UNCHANGED lock,
         seen' \in [Thread -> 0 .. EXCLUSIVE_PENDING - 1],
         NEW p \in PlainPCs, Goto(t, p), p \in CountedPCs <=> pc[t] \in CountedPCs,
         p = "shared" => lock < EXCLUSIVE_LOCKED
  PROVE  IInv'
<1>1. lock' = lock + (IF p \in CountedPCs THEN 1 ELSE 0)
                   - (IF pc[t] \in CountedPCs THEN 1 ELSE 0)
  BY WordParts
<1> QED
  BY <1>1, WordParts, PlainStep

LEMMA SharedCalls ==
  ASSUME IInv, NEW t \in Thread, TryLockShared(t) \/ LockShared(t) \/ Requeue(t)
  PROVE  IInv'
<1>1. lock \in Nat /\ EXCLUSIVE_PENDING < EXCLUSIVE_LOCKED
  BY WordParts, Width
<1>2. CASE TryLockShared(t)
  <2> DEFINE p == IF TooMany(lock) THEN "panic_sub"
                  ELSE IF lock < EXCLUSIVE_PENDING THEN "shared" ELSE "give_up"
  <2>1. p \in CountedPCs /\ (p = "shared" => lock < EXCLUSIVE_LOCKED)
    BY <1>1, Width DEF CountedPCs
  <2> QED
    BY <1>2, <2>1, EnterStep DEF TryLockShared
<1>3. CASE LockShared(t)
  <2>1. PICK p \in WaitBody(t, lock) \cup {"step_back"} : Goto(t, p)
    BY <1>3 DEF LockShared
  <2>2. p \in CountedPCs /\ (p = "shared" => lock < EXCLUSIVE_LOCKED)
    BY <1>1, WaitBodyFacts DEF CountedPCs
  <2> QED
    BY <1>3, <2>1, <2>2, EnterStep DEF LockShared
<1>4. CASE Requeue(t)
  <2>1. PICK p \in WaitBody(t, lock) : Goto(t, p)
    BY <1>4 DEF Requeue
  <2>2. p \in CountedPCs /\ (p = "shared" => lock < EXCLUSIVE_LOCKED)
    BY <1>1, WaitBodyFacts
  <2> QED
    BY <1>4, <2>1, <2>2, EnterStep DEF Requeue
<1> QED
  BY <1>2, <1>3, <1>4

LEMMA SharedSteps ==
  ASSUME IInv, NEW t \in Thread,
         StepBack(t) \/ Room(t) \/ Wait(t) \/ UnlockShared(t) \/ Panic(t)
  PROVE  IInv'
<1>1. lock \in Nat /\ TypeOK
  BY WordParts DEF IInv
<1>2. CASE StepBack(t)
  <2>1. PICK p \in RoomBody(t, lock) : Goto(t, p)
    BY <1>2 DEF StepBack
  <2>2. pc[t] \in CountedPCs /\ p \in PlainPCs /\ p \notin CountedPCs
    BY <1>1, <1>2, RoomBodyFacts DEF StepBack, CountedPCs
  <2> QED
    BY <1>2, <2>1, <2>2, LeaveStep DEF StepBack
<1>3. CASE Room(t)
  <2>1. PICK p \in RoomBody(t, lock) : Goto(t, p)
    BY <1>3 DEF Room
  <2>2. /\ pc[t] \in PlainPCs /\ pc[t] \notin CountedPCs
        /\ p \in PlainPCs /\ p \notin CountedPCs /\ p # "shared"
    BY <1>1, <1>3, RoomBodyFacts DEF Room, PlainPCs, CountedPCs
  <2> QED
    BY <1>1, <1>3, <2>1, <2>2, LookStep DEF Room, TypeOK
<1>4. CASE Wait(t)
  <2>1. PICK p \in WaitBody(t, lock) : Goto(t, p)
    BY <1>4 DEF Wait
  <2>2. /\ pc[t] \in PlainPCs /\ pc[t] \in CountedPCs /\ p \in PlainPCs
        /\ p \in CountedPCs /\ (p = "shared" => lock < EXCLUSIVE_LOCKED)
    BY <1>1, <1>4, WaitBodyFacts DEF Wait, PlainPCs, CountedPCs
  <2> QED
    BY <1>1, <1>4, <2>1, <2>2, LookStep DEF Wait, TypeOK
<1>5. CASE UnlockShared(t) \/ Panic(t)
  <2>1. PICK p \in {"idle", "panicked"} : Goto(t, p)
    BY <1>5 DEF UnlockShared, Panic
  <2>2. pc[t] \in CountedPCs /\ p \in PlainPCs /\ p \notin CountedPCs
    BY <1>5 DEF UnlockShared, Panic, CountedPCs, PlainPCs
  <2> QED
    BY <1>5, <2>1, <2>2, LeaveStep DEF UnlockShared, Panic
<1> QED
  BY <1>2, <1>3, <1>4, <1>5

LEMMA ExchangeAcquires ==
  ASSUME IInv, NEW t \in Thread, TryLockExclusive(t) \/ ExchangeOk(t)
  PROVE  IInv'
<1>1. /\ pc \in [Thread -> CountedPCs \cup QueuedPCs \cup OtherPCs]
      /\ pc' = [pc EXCEPT ![t] = "exclusive"]
      /\ lock' = EXCLUSIVE_LOCKED /\ seen' = seen /\ pc[t] \in {"idle", "cas", "queued"}
      /\ TypeOK /\ OneWriterInQueue
  BY DEF IInv, TypeOK, TryLockExclusive, ExchangeOk, Goto
<1>2. lock = (IF pc[t] = "queued" THEN EXCLUSIVE_PENDING ELSE 0)
  BY DEF TryLockExclusive, ExchangeOk, Expected
<1>3. Counted = {} /\ Exclusive = {}
  BY <1>2, WordParts
<1>4. Queued \subseteq {t}
  <2>1. CASE pc[t] = "queued"
    <3>1. t \in Queued
      BY <2>1 DEF Queued, QueuedPCs
    <3> QED
      BY <1>1, <3>1 DEF OneWriterInQueue
  <2>2. CASE pc[t] # "queued"
    BY <1>2, <2>2, WordParts, Width
  <2> QED
    BY <2>1, <2>2
<1>5. Counted' = {} /\ Shared' = {}
  BY <1>1, <1>3 DEF Counted, Shared, CountedPCs
<1>6. Queued' = {} /\ Exclusive' = {t}
  BY <1>1, <1>3, <1>4 DEF Queued, Exclusive, QueuedPCs
<1>7. LockWord'
  BY <1>1, <1>5, <1>6, FS_EmptySet, Width DEF LockWord
<1>8. OneWriterInQueue' /\ MutualExclusion'
  BY <1>5, <1>6 DEF OneWriterInQueue, MutualExclusion
<1>9. lock' \in Word
  BY <1>1, Width DEF Word
<1>10. TypeOK'
  BY <1>1, <1>9, HistoryType DEF TypeOK, OtherPCs, TryLockExclusive, ExchangeOk
<1> QED
  BY <1>7, <1>8, <1>10 DEF IInv

LEMMA ExchangeFails ==
  ASSUME IInv, NEW t \in Thread, ExchangeErr(t) \/ LockExclusive(t) \/ EnqueueErr(t)
  PROVE  IInv'
<1>1. TypeOK /\ lock \in Nat /\ lock' = lock
  BY WordParts DEF IInv, ExchangeErr, LockExclusive, EnqueueErr
<1>2. CASE pc[t] = "queued" /\ (\E p \in QueuedPCs : Goto(t, p)) /\ UNCHANGED seen
  <2>1. /\ Counted' = Counted /\ Queued' = Queued /\ Exclusive' = Exclusive
        /\ Shared' = Shared
    BY <1>1, <1>2 DEF TypeOK, Goto, Counted, Queued, Exclusive, Shared, CountedPCs, QueuedPCs
  <2>2. TypeOK'
    BY <1>1, <1>2, HistoryType DEF TypeOK, Goto, QueuedPCs
  <2> QED
    BY <1>1, <2>1, <2>2 DEF IInv, LockWord, OneWriterInQueue, MutualExclusion
<1>4. CASE /\ pc[t] \in {"idle", "cas", "enqueue"}
           /\ \E p \in {"idle", "cas", "enqueue"} : Goto(t, p)
           /\ seen' \in [Thread -> 0 .. EXCLUSIVE_PENDING - 1]
  BY <1>1, <1>4, LookStep DEF PlainPCs, CountedPCs
<1>5. 0 .. EXCLUSIVE_PENDING - 1 # {} /\ 0 \in 0 .. EXCLUSIVE_PENDING - 1
  BY Width
<1>6. CASE ExchangeErr(t)
  <2>1. CASE pc[t] = "cas" /\ 0 < lock /\ lock < EXCLUSIVE_PENDING
             /\ Goto(t, "enqueue") /\ seen' = [seen EXCEPT ![t] = lock]
    <3>1. lock \in 0 .. EXCLUSIVE_PENDING - 1
      BY <1>1, <2>1, Width
    <3> QED
      BY <1>1, <1>4, <2>1, <3>1 DEF TypeOK
  <2>2. CASE pc[t] = "cas" /\ Goto(t, "idle") /\ UNCHANGED seen
    BY <1>1, <1>4, <2>2 DEF TypeOK
  <2>3. CASE pc[t] = "cas" /\ Goto(t, "cas") /\ UNCHANGED seen
    BY <1>1, <1>4, <2>3 DEF TypeOK
  <2>4. CASE pc[t] = "queued"
    BY <1>2, <1>6, <2>4 DEF ExchangeErr, QueuedPCs
  <2> QED
    BY <1>6, <2>1, <2>2, <2>3, <2>4 DEF ExchangeErr
<1>7. CASE LockExclusive(t)
  BY <1>1, <1>4, <1>7 DEF LockExclusive, TypeOK
<1>8. CASE EnqueueErr(t)
  BY <1>1, <1>4, <1>5, <1>8 DEF EnqueueErr, TypeOK
<1> QED
  BY <1>6, <1>7, <1>8

LEMMA Enqueues ==
  ASSUME IInv, NEW t \in Thread, EnqueueOk(t)
  PROVE  IInv'
<1>1. /\ pc \in [Thread -> CountedPCs \cup QueuedPCs \cup OtherPCs]
      /\ pc' = [pc EXCEPT ![t] = "queued"] /\ pc[t] = "enqueue"
      /\ seen' = [seen EXCEPT ![t] = 0] /\ TypeOK /\ LockWord
  BY DEF IInv, TypeOK, EnqueueOk, Goto
<1>2. lock < EXCLUSIVE_PENDING /\ lock \in Nat
  BY <1>1, WordParts, Width DEF EnqueueOk, TypeOK
<1>3. Queued = {} /\ Exclusive = {}
  BY <1>2, WordParts
<1>4. lock' = lock + EXCLUSIVE_PENDING
  BY AddsUp, Width DEF EnqueueOk, Add
<1>5. Counted' = Counted /\ Shared' = Shared
  BY <1>1 DEF Counted, Shared, CountedPCs
<1>6. Queued' = {t} /\ Exclusive' = {}
  BY <1>1, <1>3 DEF Queued, Exclusive, QueuedPCs
<1>7. LockWord'
  BY <1>1, <1>3, <1>4, <1>5, <1>6, CountedFits, Width DEF LockWord
<1>8. OneWriterInQueue' /\ MutualExclusion'
  BY <1>6 DEF OneWriterInQueue, MutualExclusion
<1>9. lock' \in Word /\ 0 \in 0 .. EXCLUSIVE_PENDING - 1
  BY <1>2, <1>4, Width DEF Word
<1>10. TypeOK'
  BY <1>1, <1>9, HistoryType DEF TypeOK, QueuedPCs, EnqueueOk
<1> QED
  BY <1>7, <1>8, <1>10 DEF IInv

LEMMA WriterLeaves ==
  ASSUME IInv, NEW t \in Thread, LeaveQueue(t) \/ UnlockExclusive(t)
  PROVE  IInv'
<1>1. /\ pc \in [Thread -> CountedPCs \cup QueuedPCs \cup OtherPCs]
      /\ pc' = [pc EXCEPT ![t] = "idle"] /\ pc[t] \in {"leave_queue", "exclusive"}
      /\ seen' = seen /\ TypeOK /\ LockWord /\ OneWriterInQueue /\ MutualExclusion
  BY DEF IInv, TypeOK, LeaveQueue, UnlockExclusive, Goto
<1>2. Counted' = Counted /\ Shared' = Shared
  BY <1>1 DEF Counted, Shared, CountedPCs
<1>3. lock \in Nat /\ lock <= UsizeMax
  BY WordParts, Width
<1>4. CASE LeaveQueue(t)
  <2>1. pc[t] = "leave_queue" /\ t \in Queued
    BY <1>4 DEF LeaveQueue, Queued, QueuedPCs
  <2>2. Queued = {t} /\ Exclusive = {}
    BY <1>1, <2>1 DEF OneWriterInQueue
  <2>3. Queued' = {} /\ Exclusive' = {}
    BY <1>1, <2>1, <2>2 DEF Queued, Exclusive, QueuedPCs
  <2>4. lock' = lock - EXCLUSIVE_PENDING
    BY <1>4, <2>2, WordParts, TakesAway, Width DEF LeaveQueue, Sub
  <2>5. LockWord'
    <3>1. lock = Cardinality(Counted) + EXCLUSIVE_PENDING
      BY <1>1, <2>2, CountedFits, Width DEF LockWord
    <3> QED
      BY <1>2, <2>3, <2>4, <3>1, CountedFits, Width DEF LockWord
  <2>6. OneWriterInQueue' /\ MutualExclusion'
    BY <2>3 DEF OneWriterInQueue, MutualExclusion
  <2>7. lock' \in Word
    BY <1>3, <2>2, <2>4, WordParts, Width DEF Word
  <2>8. TypeOK'
    BY <1>1, <1>4, <2>7, HistoryType DEF TypeOK, OtherPCs, LeaveQueue
  <2> QED
    BY <2>5, <2>6, <2>8 DEF IInv
<1>5. CASE UnlockExclusive(t)
  <2>1. pc[t] = "exclusive" /\ t \in Exclusive
    BY <1>5 DEF UnlockExclusive, Exclusive
  <2>2. Queued = {} /\ Exclusive = {t}
    BY <1>1, <2>1 DEF OneWriterInQueue, MutualExclusion
  <2>3. Queued' = {} /\ Exclusive' = {}
    BY <1>1, <2>1, <2>2 DEF Queued, Exclusive, QueuedPCs
  <2>4. EXCLUSIVE_LOCKED \in Nat /\ EXCLUSIVE_LOCKED <= lock
    BY <1>3, <2>2, WordParts, Width
  <2>5. lock' = lock - EXCLUSIVE_LOCKED
    BY <1>5, <2>4, TakesAway DEF UnlockExclusive, Sub
  <2>6. LockWord'
    BY <1>1, <1>2, <2>2, <2>3, <2>5, CountedFits, Width DEF LockWord
  <2>7. OneWriterInQueue' /\ MutualExclusion'
    BY <2>3 DEF OneWriterInQueue, MutualExclusion
  <2>8. lock' \in Word
    BY <1>3, <2>4, <2>5, Width DEF Word
  <2>9. TypeOK'
    BY <1>1, <1>5, <2>8, HistoryType DEF TypeOK, OtherPCs, UnlockExclusive
  <2> QED
    BY <2>6, <2>7, <2>9 DEF IInv
<1> QED
  BY <1>4, <1>5

-----------------------------------------------------------------------------
LEMMA Initially == Init => IInv
<1> SUFFICES ASSUME Init PROVE IInv
  OBVIOUS
<1>1. Counted = {} /\ Queued = {} /\ Exclusive = {} /\ Shared = {}
  BY DEF Init, Counted, Queued, Exclusive, Shared, CountedPCs, QueuedPCs
<1>2. LockWord
  BY <1>1, FS_EmptySet DEF Init, LockWord
<1>3. lock \in Word /\ 0 \in 0 .. EXCLUSIVE_PENDING - 1
  BY Width DEF Init, Word
<1> QED
  BY <1>1, <1>2, <1>3
     DEF Init, IInv, TypeOK, OtherPCs, OneWriterInQueue, MutualExclusion

LEMMA Inductive == IInv /\ [Next]_vars => IInv'
<1> SUFFICES ASSUME IInv, [Next]_vars PROVE IInv'
  OBVIOUS
<1>1. CASE UNCHANGED vars
  BY <1>1 DEF vars, IInv, TypeOK, LockWord, OneWriterInQueue, MutualExclusion,
              Counted, Queued, Exclusive, Shared
<1>2. ASSUME NEW t \in Thread, Call(t) \/ Step(t) PROVE IInv'
  BY <1>2, SharedCalls, SharedSteps, ExchangeAcquires, ExchangeFails, Enqueues,
     WriterLeaves DEF Call, Step
<1> QED
  BY <1>1, <1>2 DEF Next

THEOREM Invariance == Spec => []IInv
BY Initially, Inductive, PTL DEF Spec

(* The word and the registers keep their width: no count runs below zero    *)
(* or over the top, whatever is called, refused or panics.                  *)
THEOREM TypeCorrect == Spec => []TypeOK
<1>1. IInv => TypeOK
  BY DEF IInv
<1> QED
  BY <1>1, Invariance, PTL

(* RawRwSpin excludes readers from writers and writers from each other.     *)
THEOREM Exclusion == Spec => []MutualExclusion
<1>1. IInv => MutualExclusion
  BY DEF IInv
<1> QED
  BY <1>1, Invariance, PTL

(* The word is exactly what its users have added to it.                     *)
THEOREM WordIsSum == Spec => []LockWord
<1>1. IInv => LockWord
  BY DEF IInv
<1> QED
  BY <1>1, Invariance, PTL

(* is_locked_exclusive is exact at the moment of its load, is_locked misses *)
(* no holder.                                                               *)
THEOREM HintsCorrect == Spec => []HintsSound
<1>1. IInv => HintsSound
  BY WordParts, Width
     DEF HintsSound, IsLockedExclusive, IsLocked, Shared, Counted, CountedPCs
<1> QED
  BY <1>1, Invariance, PTL

(* One writer at most waits in the queue, and never beside a holder.        *)
THEOREM QueueIsSingle == Spec => []OneWriterInQueue
<1>1. IInv => OneWriterInQueue
  BY DEF IInv
<1> QED
  BY <1>1, Invariance, PTL

-----------------------------------------------------------------------------
(* What every step has in common: t moves, and gets the lock only from a    *)
(* word that allows it.                                                     *)
Grants(t, p) ==
  /\ p = "shared" => lock < EXCLUSIVE_LOCKED
  /\ p = "exclusive" => lock \in {0, EXCLUSIVE_PENDING}
  /\ pc[t] \in {"shared", "exclusive"} => p = "idle"

LEMMA StepShape ==
  ASSUME IInv, NEW t \in Thread, Call(t) \/ Step(t)
  PROVE  \E p \in CountedPCs \cup QueuedPCs \cup OtherPCs : Goto(t, p) /\ Grants(t, p)
<1> USE DEF CountedPCs, QueuedPCs, OtherPCs, Grants
<1>1. /\ lock \in Nat /\ EXCLUSIVE_PENDING < EXCLUSIVE_LOCKED
      /\ pc \in [Thread -> CountedPCs \cup QueuedPCs \cup OtherPCs]
  BY WordParts, Width DEF IInv, TypeOK
<1>2. \A p \in WaitBody(t, lock) : p \in CountedPCs /\ (p = "shared" => lock < EXCLUSIVE_LOCKED)
  BY <1>1, WaitBodyFacts
<1>3. \A p \in RoomBody(t, lock) : p \in OtherPCs /\ p # "exclusive"
  BY DEF RoomBody, Refusal
<1>4. CASE TryLockShared(t)
  BY <1>1, <1>4, Width DEF TryLockShared
<1>5. CASE LockShared(t) \/ Requeue(t) \/ Wait(t)
  BY <1>1, <1>2, <1>5 DEF LockShared, Requeue, Wait
<1>6. CASE StepBack(t) \/ Room(t)
  BY <1>3, <1>6 DEF StepBack, Room
<1>7. CASE UnlockShared(t) \/ Panic(t) \/ LeaveQueue(t) \/ UnlockExclusive(t)
  BY <1>7 DEF UnlockShared, Panic, LeaveQueue, UnlockExclusive
<1>8. CASE TryLockExclusive(t) \/ LockExclusive(t) \/ EnqueueOk(t) \/ EnqueueErr(t)
  BY <1>8 DEF TryLockExclusive, LockExclusive, EnqueueOk, EnqueueErr
<1>9. CASE ExchangeOk(t)
  BY <1>9 DEF ExchangeOk, Expected
<1>10. CASE ExchangeErr(t)
  <2>1. pc[t] \in {"cas", "queued"}
    BY <1>10 DEF ExchangeErr
  <2> QED
    BY <1>1, <1>10, <2>1 DEF ExchangeErr
<1> QED
  BY <1>4, <1>5, <1>6, <1>7, <1>8, <1>9, <1>10 DEF Call, Step

(* No writer acquires the lock while a reader is in its second loop.        *)
THEOREM ReservedReaders == Spec => ReservedGoFirst
<1> DEFINE Reserved == \E t \in Thread : pc[t] = "reserved"
<1>1. IInv /\ [Next]_vars => [Reserved => Exclusive' \subseteq Exclusive]_vars
  <2> SUFFICES ASSUME IInv, Next, Reserved PROVE Exclusive' \subseteq Exclusive
    OBVIOUS
  <2>1. Counted # {}
    BY DEF Counted, CountedPCs
  <2>2. PICK t \in Thread : Call(t) \/ Step(t)
    BY DEF Next
  <2>3. PICK p : Goto(t, p) /\ Grants(t, p)
    BY <2>2, StepShape
  <2>4. p # "exclusive"
    BY <2>1, <2>3, WordParts DEF Grants
  <2> QED
    BY <2>3, <2>4 DEF Exclusive, Goto, IInv, TypeOK
<1> QED
  BY <1>1, Invariance, PTL DEF Spec, ReservedGoFirst

(* A reader holds or reserves the lock, or is about to, only after it has   *)
(* seen the queue without the writers it found there.                       *)
PassedPCs == {"requeue", "reserved", "shared"}
Passed == {t \in Thread : pc[t] \in PassedPCs}

OrderInv == \A t \in Thread : pc[t] \in PassedPCs => ahead[t] = {}

LEMMA LeavesRoom ==
  ASSUME IInv, NEW t \in Thread, Call(t) \/ Step(t), pc'[t] \in PassedPCs
  PROVE  pc[t] \in PassedPCs \/ Queued = {}
<1> USE DEF PassedPCs
<1>1. /\ lock \in Nat /\ EXCLUSIVE_PENDING < EXCLUSIVE_LOCKED
      /\ pc \in [Thread -> CountedPCs \cup QueuedPCs \cup OtherPCs]
  BY WordParts, Width DEF IInv, TypeOK
<1>2. \A p : Goto(t, p) => pc'[t] = p
  BY <1>1 DEF Goto
<1>3. lock < EXCLUSIVE_PENDING \/ EXCLUSIVE_LOCKED <= lock => Queued = {}
  BY <1>1, WordParts, Width DEF IInv, OneWriterInQueue
<1>4. CASE TryLockShared(t)
  BY <1>2, <1>3, <1>4 DEF TryLockShared
<1>5. CASE LockShared(t)
  <2>1. pc'[t] # "step_back"
    OBVIOUS
  <2>2. ~TooMany(lock) => Queued = {}
    <3>1. ~TooMany(lock) /\ EXCLUSIVE_PENDING <= lock /\ lock < EXCLUSIVE_LOCKED
            => pc'[t] = "step_back"
      BY <1>2, <1>5 DEF LockShared
    <3> QED
      BY <1>1, <1>3, <2>1, <3>1, Width
  <2>3. TooMany(lock) => pc'[t] = "panic_sub"
    BY <1>2, <1>5 DEF LockShared, WaitBody
  <2> QED
    BY <2>2, <2>3
<1>6. CASE StepBack(t) \/ Room(t)
  <2>1. PICK p \in RoomBody(t, lock) : Goto(t, p)
    BY <1>6 DEF StepBack, Room
  <2> QED
    BY <1>1, <1>2, <1>3, <2>1 DEF RoomBody, Refusal
<1>7. CASE Requeue(t) \/ Wait(t)
  BY <1>7 DEF Requeue, Wait
<1>8. CASE UnlockShared(t) \/ Panic(t) \/ LeaveQueue(t) \/ UnlockExclusive(t)
  BY <1>2, <1>8 DEF UnlockShared, Panic, LeaveQueue, UnlockExclusive
<1>9. CASE \/ TryLockExclusive(t) \/ LockExclusive(t) \/ EnqueueOk(t) \/ EnqueueErr(t)
           \/ ExchangeOk(t)
  BY <1>2, <1>9 DEF TryLockExclusive, LockExclusive, EnqueueOk, EnqueueErr, ExchangeOk
<1>10. CASE ExchangeErr(t)
  BY <1>2, <1>10 DEF ExchangeErr
<1> QED
  BY <1>4, <1>5, <1>6, <1>7, <1>8, <1>9, <1>10 DEF Call, Step

(* No writer joins the queue in the step that lets a reader pass.           *)
LEMMA NobodyJoins ==
  ASSUME IInv, NEW t \in Thread, NEW p, Goto(t, p), p \notin QueuedPCs
  PROVE  Queued' \subseteq Queued
BY DEF Queued, Goto, IInv, TypeOK

LEMMA NextOrder == IInv /\ OrderInv /\ [Next]_vars => OrderInv'
<1> SUFFICES ASSUME IInv, OrderInv, [Next]_vars,
                    NEW s \in Thread, pc'[s] \in PassedPCs
             PROVE  ahead'[s] = {}
  BY DEF OrderInv
<1>1. CASE UNCHANGED vars
  BY <1>1 DEF vars, OrderInv
<1>2. ASSUME NEW t \in Thread, Call(t) \/ Step(t) PROVE ahead'[s] = {}
  <2>1. PICK p : Goto(t, p)
    BY <1>2, StepShape
  <2>2. /\ pc' = [pc EXCEPT ![t] = p]
        /\ ahead'[s] = IF s = t /\ pc[t] = "idle" THEN Queued ELSE ahead[s] \cap Queued'
        /\ pc \in [Thread -> CountedPCs \cup QueuedPCs \cup OtherPCs]
    BY <2>1 DEF Goto, IInv, TypeOK
  <2>3. CASE s # t
    BY <2>2, <2>3 DEF OrderInv
  <2>4. CASE s = t
    <3>1. p \notin QueuedPCs /\ Queued' \subseteq Queued
      BY <2>1, <2>2, <2>4, NobodyJoins DEF PassedPCs, QueuedPCs
    <3>2. CASE pc[t] \in PassedPCs
      BY <2>2, <2>4, <3>2 DEF OrderInv, PassedPCs
    <3>3. CASE Queued = {}
      BY <2>2, <2>4, <3>1, <3>3
    <3> QED
      BY <1>2, <2>4, <3>2, <3>3, LeavesRoom
  <2> QED
    BY <2>3, <2>4
<1> QED
  BY <1>1, <1>2 DEF Next

(* No reader holds the lock past a writer that queued before its call.      *)
THEOREM ReadersGiveWay == Spec => []NoOvertaking
<1>1. Init => OrderInv
  BY DEF Init, OrderInv
<1>2. OrderInv => NoOvertaking
  BY DEF OrderInv, NoOvertaking, Shared, PassedPCs
<1> QED
  BY <1>1, <1>2, NextOrder, Invariance, PTL DEF Spec

(* Nor does a writer that has not queued.                                   *)
LEMMA OnlyQueuedAcquires ==
  ASSUME IInv, NEW t \in Thread, Call(t) \/ Step(t), Queued # {}, pc'[t] = "exclusive"
  PROVE  pc[t] = "queued"
<1>1. /\ lock \in Nat /\ lock # 0 /\ Exclusive = {}
      /\ pc \in [Thread -> CountedPCs \cup QueuedPCs \cup OtherPCs]
  BY WordParts, Width DEF IInv, TypeOK, OneWriterInQueue
<1>2. pc[t] # "exclusive" /\ \A p : Goto(t, p) => pc'[t] = p
  BY <1>1 DEF Exclusive, Goto
<1>3. \A p \in WaitBody(t, lock) \cup RoomBody(t, lock) : p # "exclusive"
  BY DEF WaitBody, RoomBody, Refusal
<1>4. CASE TryLockShared(t) \/ LockShared(t)
  BY <1>2, <1>3, <1>4 DEF TryLockShared, LockShared
<1>5. CASE StepBack(t) \/ Room(t) \/ Requeue(t) \/ Wait(t)
  BY <1>2, <1>3, <1>5 DEF StepBack, Room, Requeue, Wait
<1>6. CASE UnlockShared(t) \/ Panic(t) \/ LeaveQueue(t) \/ UnlockExclusive(t)
  BY <1>2, <1>6 DEF UnlockShared, Panic, LeaveQueue, UnlockExclusive
<1>7. CASE TryLockExclusive(t) \/ LockExclusive(t) \/ EnqueueOk(t) \/ EnqueueErr(t)
  BY <1>1, <1>2, <1>7 DEF TryLockExclusive, LockExclusive, EnqueueOk, EnqueueErr
<1>8. CASE ExchangeOk(t)
  BY <1>1, <1>8 DEF ExchangeOk, Expected
<1>9. CASE ExchangeErr(t)
  BY <1>2, <1>9 DEF ExchangeErr
<1> QED
  BY <1>4, <1>5, <1>6, <1>7, <1>8, <1>9 DEF Call, Step

(* While a writer is in the queue, the readers that hold the lock or may    *)
(* still get it before that writer only become fewer, and no other writer   *)
(* gets it: what remains for QueuedAcquires is that they do leave, and that *)
(* those who count themselves in vain (Probing) stop coming.                *)
THEOREM QueueDrains ==
  Spec => [][Queued # {} => Passed' \subseteq Passed /\ Exclusive' \subseteq Queued]_vars
<1>1. IInv /\ [Next]_vars
        => [Queued # {} => Passed' \subseteq Passed /\ Exclusive' \subseteq Queued]_vars
  <2> SUFFICES ASSUME IInv, Next, Queued # {}
               PROVE  Passed' \subseteq Passed /\ Exclusive' \subseteq Queued
    OBVIOUS
  <2>1. PICK t \in Thread : Call(t) \/ Step(t)
    BY DEF Next
  <2>2. \A s \in Thread \ {t} : pc'[s] = pc[s]
    BY <2>1, StepShape DEF Goto, IInv, TypeOK
  <2>3. pc'[t] \in PassedPCs => pc[t] \in PassedPCs
    BY <2>1, LeavesRoom
  <2>4. Exclusive = {} /\ (pc'[t] = "exclusive" => pc[t] = "queued")
    BY <2>1, OnlyQueuedAcquires DEF IInv, OneWriterInQueue
  <2> QED
    BY <2>2, <2>3, <2>4 DEF Passed, Exclusive, Queued, QueuedPCs
<1> QED
  BY <1>1, Invariance, PTL DEF Spec

(* A shared lock is granted from a word whose count has passed the check.   *)
LEMMA GrantsFew ==
  ASSUME IInv, DebugAssertions, NEW t \in Thread, Call(t) \/ Step(t),
         pc[t] # "shared", pc'[t] = "shared"
  PROVE  Cardinality(Counted) <= SHARED_LOCK_THRESHOLD
<1>1. \A p : Goto(t, p) => pc'[t] = p
  BY DEF Goto, IInv, TypeOK
<1>2. ~TooMany(lock) /\ lock < EXCLUSIVE_LOCKED
  <2>1. CASE TryLockShared(t)
    BY <1>1, <2>1, Width, WordParts DEF TryLockShared
  <2>2. CASE LockShared(t) \/ Requeue(t) \/ Wait(t)
    BY <1>1, <2>2 DEF LockShared, Requeue, Wait, WaitBody, Refusal
  <2>3. CASE StepBack(t) \/ Room(t)
    BY <1>1, <2>3 DEF StepBack, Room, RoomBody, Refusal
  <2>4. CASE UnlockShared(t) \/ Panic(t) \/ LeaveQueue(t) \/ UnlockExclusive(t)
    BY <1>1, <2>4 DEF UnlockShared, Panic, LeaveQueue, UnlockExclusive
  <2>5. CASE \/ TryLockExclusive(t) \/ LockExclusive(t) \/ EnqueueOk(t) \/ EnqueueErr(t)
             \/ ExchangeOk(t)
    BY <1>1, <2>5 DEF TryLockExclusive, LockExclusive, EnqueueOk, EnqueueErr, ExchangeOk
  <2>6. CASE ExchangeErr(t)
    BY <1>1, <2>6 DEF ExchangeErr
  <2> QED
    BY <2>1, <2>2, <2>3, <2>4, <2>5, <2>6 DEF Call, Step
<1>3. Exclusive = {}
  BY <1>2, WordParts
<1>4. lock = Cardinality(Counted) + (IF Queued = {} THEN 0 ELSE EXCLUSIVE_PENDING)
  BY <1>3, CountedFits, Width DEF IInv, LockWord
<1> QED
  BY <1>2, <1>4, CountedFits, Threshold, Width DEF TooMany

LEMMA NextBound == IInv /\ SharedBound /\ [Next]_vars => SharedBound'
<1> SUFFICES ASSUME IInv, SharedBound, [Next]_vars, DebugAssertions
             PROVE  Cardinality(Shared') <= SHARED_LOCK_THRESHOLD + 1
  BY DEF SharedBound
<1>1. CASE UNCHANGED vars
  BY <1>1 DEF vars, SharedBound, Shared
<1>2. ASSUME NEW t \in Thread, Call(t) \/ Step(t)
      PROVE  Cardinality(Shared') <= SHARED_LOCK_THRESHOLD + 1
  <2>1. /\ IsFiniteSet(Shared) /\ IsFiniteSet(Counted)
        /\ Shared \subseteq Counted
        /\ Cardinality(Shared) \in Nat /\ Cardinality(Counted) \in Nat
    BY ThreadAssumption, FS_Subset, FS_CardinalityType DEF Shared, Counted, CountedPCs
  <2>2. PICK p : Goto(t, p)
    BY <1>2, StepShape
  <2>3. pc' = [pc EXCEPT ![t] = p] /\ pc \in [Thread -> CountedPCs \cup QueuedPCs \cup OtherPCs]
    BY <2>2 DEF Goto, IInv, TypeOK
  <2>4. CASE Shared' \subseteq Shared
    <3>1. Cardinality(Shared') \in Nat /\ Cardinality(Shared') <= Cardinality(Shared)
      BY <2>1, <2>4, FS_Subset, FS_CardinalityType
    <3> QED
      BY <2>1, <3>1, Threshold DEF SharedBound
  <2>5. CASE pc[t] # "shared" /\ pc'[t] = "shared"
    <3>1. Shared' \subseteq Counted \cup {t}
      BY <2>1, <2>3 DEF Shared
    <3>2. /\ IsFiniteSet(Counted \cup {t})
          /\ Cardinality(Counted \cup {t}) <= Cardinality(Counted) + 1
      <4>1. CASE t \in Counted
        <5>1. Counted \cup {t} = Counted
          BY <4>1
        <5> QED
          BY <2>1, <5>1
      <4>2. CASE t \notin Counted
        <5>1. /\ IsFiniteSet(Counted \cup {t})
              /\ Cardinality(Counted \cup {t}) = Cardinality(Counted) + 1
          BY <2>1, <4>2, FS_AddElement
        <5> QED
          BY <2>1, <5>1
      <4> QED
        BY <4>1, <4>2
    <3>3. Cardinality(Shared') <= Cardinality(Counted) + 1 /\ Cardinality(Shared') \in Nat
      BY <2>1, <3>1, <3>2, FS_Subset, FS_CardinalityType
    <3>4. Cardinality(Counted) <= SHARED_LOCK_THRESHOLD
      BY <1>2, <2>5, GrantsFew
    <3> QED
      BY <2>1, <3>3, <3>4, Threshold
  <2> QED
    BY <2>3, <2>4, <2>5 DEF Shared
<1> QED
  BY <1>1, <1>2 DEF Next

(* However the panics interleave, the check stops the shared locks at one   *)
(* above the threshold.                                                     *)
THEOREM SharedBounded == Spec => []SharedBound
<1>1. Init => SharedBound
  <2> SUFFICES ASSUME Init PROVE SharedBound
    OBVIOUS
  <2>1. Shared = {}
    BY DEF Init, Shared
  <2> QED
    BY <2>1, FS_EmptySet, Threshold DEF SharedBound
<1> QED
  BY <1>1, NextBound, Invariance, PTL DEF Spec

(* RawRwSpin implements the abstract reader-writer lock: a step that grants *)
(* or releases the lock is the abstract step, every other one a stutter.    *)
THEOREM Implements == Spec => ImplementsRwLock
<1>1. Init => AsRwLock!Init
  BY DEF Init, AsRwLock!Init, held
<1>2. IInv /\ [Next]_vars => [AsRwLock!Next]_held
  <2> SUFFICES ASSUME IInv, [Next]_vars, held' # held PROVE AsRwLock!Next
    OBVIOUS
  <2>1. PICK t \in Thread : Call(t) \/ Step(t)
    BY DEF Next, vars, held
  <2>2. PICK p : Goto(t, p) /\ Grants(t, p)
    BY <2>1, StepShape
  <2>3. held' = [held EXCEPT ![t] = IF p \in {"shared", "exclusive"} THEN p ELSE "none"]
    BY <2>2 DEF held, Goto, IInv, TypeOK
  <2>4. CASE p = "shared"
    <3>1. Exclusive = {} /\ pc[t] \notin {"shared", "exclusive"}
      BY <2>2, <2>4, WordParts DEF Grants
    <3>2. AsRwLock!AcquireShared(t)
      BY <2>3, <2>4, <3>1 DEF AsRwLock!AcquireShared, held, Exclusive
    <3> QED
      BY <3>2 DEF AsRwLock!Next
  <2>5. CASE p = "exclusive"
    <3>1. Exclusive = {} /\ Counted = {}
      BY <2>2, <2>5, WordParts DEF Grants
    <3>2. AsRwLock!AcquireExclusive(t)
      BY <2>3, <2>5, <3>1 DEF AsRwLock!AcquireExclusive, held, Exclusive, Counted, CountedPCs
    <3> QED
      BY <3>2 DEF AsRwLock!Next
  <2>6. CASE p \notin {"shared", "exclusive"}
    <3>1. held' = [held EXCEPT ![t] = "none"]
      BY <2>3, <2>6
    <3>2. held[t] # "none"
      BY <3>1 DEF held
    <3> QED
      BY <3>1, <3>2 DEF AsRwLock!Next, AsRwLock!Release
  <2> QED
    BY <2>4, <2>5, <2>6
<1> QED
  BY <1>1, <1>2, Invariance, PTL DEF Spec, ImplementsRwLock, AsRwLock!Spec
=============================================================================
