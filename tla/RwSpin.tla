------------------------------- MODULE RwSpin -------------------------------
(***************************************************************************)
(* RawRwSpin (spin.rs): a reader-writer spin lock in one atomic word.      *)
(*                                                                         *)
(* The word counts the shared locks in its low part; EXCLUSIVE_PENDING is  *)
(* added to it by the one writer that waits for readers to leave, and      *)
(* EXCLUSIVE_LOCKED by the writer that holds the lock.  A step is one      *)
(* atomic access together with the local code that follows it up to the    *)
(* next one; a compare_exchange_weak may fail spuriously.                  *)
(*                                                                         *)
(* A Thread is one call and the guard it returns: a program thread that    *)
(* holds several shared guards is several members of Thread.               *)
(***************************************************************************)
EXTENDS Integers, FiniteSets

CONSTANTS
  Thread,           \* the callers
  UsizeMax,         \* usize::MAX
  DebugAssertions,  \* cfg(debug_assertions): locks_count_check is compiled
  Patient,          \* callers whose closure always returns true (lock_shared,
                    \* lock_exclusive); the closure of others may refuse
  Calls             \* Calls[t]: the methods t calls

CallKinds == {"try_shared", "lock_shared", "try_exclusive", "lock_exclusive"}

SHARED_LOCK_THRESHOLD == UsizeMax \div 32 + 1
EXCLUSIVE_PENDING     == UsizeMax \div 4 + 1
EXCLUSIVE_LOCKED      == UsizeMax \div 2 + 1

\* usize::MAX + 1 is a power of two; that 32 divides it is enough.
ASSUME WidthAssumption == UsizeMax \in Nat /\ (UsizeMax + 1) % 32 = 0
\* spin.rs:85: "there can't be enough threads to hold the lock at the same time".
ASSUME ThreadAssumption ==
  IsFiniteSet(Thread) /\ Cardinality(Thread) < EXCLUSIVE_PENDING
ASSUME CallAssumption ==
  /\ DebugAssertions \in BOOLEAN
  /\ Patient \subseteq Thread
  /\ Calls \in [Thread -> SUBSET CallKinds]

VARIABLES
  lock,   \* the AtomicUsize
  pc,     \* pc[t]: the access t performs next, or how it holds the lock
  seen,   \* seen[t]: `count`, the value t's enqueueing exchange expects
  ahead   \* history: ahead[t]: the writers queued ever since before t's call

vars == <<lock, pc, seen, ahead>>

\* Points of the code at which a thread has added one to the word.
CountedPCs == {"shared",        \* holds a shared lock
               "give_up",       \* try_lock_shared, before fetch_sub
               "step_back",     \* lock_shared_while, makes room for a writer
               "reserved",      \* second loop, before its load
               "leave_shared",  \* second loop, closure refused
               "panic_sub"}     \* failure closure of locks_count_check
\* ... EXCLUSIVE_PENDING, respectively EXCLUSIVE_LOCKED to the word.
QueuedPCs == {"queued", "leave_queue"}
OtherPCs == {"idle", "room", "requeue", "cas", "enqueue", "exclusive", "panicked"}

Counted   == {t \in Thread : pc[t] \in CountedPCs}
Queued    == {t \in Thread : pc[t] \in QueuedPCs}
Shared    == {t \in Thread : pc[t] = "shared"}
Exclusive == {t \in Thread : pc[t] = "exclusive"}

Word == 0 .. UsizeMax

TypeOK ==
  /\ lock \in Word
  /\ pc \in [Thread -> CountedPCs \cup QueuedPCs \cup OtherPCs]
  /\ seen \in [Thread -> 0 .. EXCLUSIVE_PENDING - 1]
  /\ ahead \in [Thread -> SUBSET Thread]

Init ==
  /\ lock = 0
  /\ pc = [t \in Thread |-> "idle"]
  /\ seen = [t \in Thread |-> 0]
  /\ ahead = [t \in Thread |-> {}]

-----------------------------------------------------------------------------
(* usize arithmetic of fetch_add and fetch_sub, which wrap.                 *)
WrapAdd(a, n) == IF a + n > UsizeMax THEN a + n - (UsizeMax + 1) ELSE a + n
WrapSub(a, n) == IF a - n < 0 THEN a - n + (UsizeMax + 1) ELSE a - n

\* Mutant: the hint forgets that the pending bit is below the locked bit.
IsLockedExclusive_Pending == lock >= EXCLUSIVE_PENDING

IsLockedExclusive == lock >= EXCLUSIVE_LOCKED
IsLocked == lock > 0

\* Mutant: the check is off by one more.
TooMany_OffByOne(count) ==
  /\ DebugAssertions
  /\ \/ SHARED_LOCK_THRESHOLD + 1 < count /\ count < EXCLUSIVE_PENDING
     \/ EXCLUSIVE_PENDING + SHARED_LOCK_THRESHOLD + 1 < count /\ count < EXCLUSIVE_LOCKED
     \/ EXCLUSIVE_LOCKED + SHARED_LOCK_THRESHOLD + 1 < count

\* locks_count_check panics: the count within the word's range is too high.
TooMany(count) ==
  /\ DebugAssertions
  /\ \/ SHARED_LOCK_THRESHOLD < count /\ count < EXCLUSIVE_PENDING
     \/ EXCLUSIVE_PENDING + SHARED_LOCK_THRESHOLD < count /\ count < EXCLUSIVE_LOCKED
     \/ EXCLUSIVE_LOCKED + SHARED_LOCK_THRESHOLD < count

\* Where t may go when its closure refuses to wait.
Refusal(t, where) == IF t \in Patient THEN {} ELSE {where}

\* A call that begins finds the queue as it is; a writer that acquires the
\* lock or gives up is no longer ahead of anyone.
Goto(t, where) ==
  /\ pc' = [pc EXCEPT ![t] = where]
  /\ ahead' = [s \in Thread |-> IF s = t /\ pc[t] = "idle" THEN Queued
                                ELSE ahead[s] \cap Queued']

Add(n) == lock' = WrapAdd(lock, n)
Sub(n) == lock' = WrapSub(lock, n)

-----------------------------------------------------------------------------
(* Shared locking.                                                          *)

\* Mutant: the attempt compares with the wrong constant.
TryLockShared_Locked(t) ==
  /\ pc[t] = "idle" /\ "try_shared" \in Calls[t]
  /\ Add(1)
  /\ Goto(t, IF TooMany(lock) THEN "panic_sub"
             ELSE IF lock <= EXCLUSIVE_LOCKED THEN "shared" ELSE "give_up")
  /\ UNCHANGED seen

TryLockShared(t) ==
  /\ pc[t] = "idle" /\ "try_shared" \in Calls[t]
  /\ Add(1)
  /\ Goto(t, IF TooMany(lock) THEN "panic_sub"
             ELSE IF lock < EXCLUSIVE_PENDING THEN "shared" ELSE "give_up")
  /\ UNCHANGED seen

\* Body of the first loop of lock_shared_while, from the count it has read.
RoomBody(t, count) ==
  IF TooMany(count) THEN {"panicked"}
  ELSE Refusal(t, "idle") \cup
       {IF count >= EXCLUSIVE_LOCKED \/ count < EXCLUSIVE_PENDING
        THEN "requeue" ELSE "room"}

\* Mutants of the second loop: the comparison is off by one; it waits for
\* the queue as well; the panic does not take the count back.
WaitBody_OffByOne(t, count) ==
  IF count <= EXCLUSIVE_LOCKED THEN {"shared"}
  ELSE Refusal(t, "leave_shared") \cup {"reserved"}

WaitBody_Pending(t, count) ==
  IF count < EXCLUSIVE_PENDING THEN {"shared"}
  ELSE Refusal(t, "leave_shared") \cup {"reserved"}

WaitBody_NoUndo(t, count) ==
  IF TooMany(count) THEN {"panicked"}
  ELSE IF count < EXCLUSIVE_LOCKED THEN {"shared"}
  ELSE Refusal(t, "leave_shared") \cup {"reserved"}

\* Body of its second loop.
WaitBody(t, count) ==
  IF TooMany(count) THEN {"panic_sub"}
  ELSE IF count < EXCLUSIVE_LOCKED THEN {"shared"}
  ELSE Refusal(t, "leave_shared") \cup {"reserved"}

\* Mutant: no room is given to a writer in the queue.
LockShared_NoRoom(t) ==
  /\ pc[t] = "idle" /\ "lock_shared" \in Calls[t]
  /\ Add(1)
  /\ \E p \in WaitBody(t, lock) : Goto(t, p)
  /\ UNCHANGED seen

LockShared(t) ==
  /\ pc[t] = "idle" /\ "lock_shared" \in Calls[t]
  /\ Add(1)
  /\ \E p \in IF ~TooMany(lock) /\ EXCLUSIVE_PENDING <= lock /\ lock < EXCLUSIVE_LOCKED
              THEN {"step_back"} ELSE WaitBody(t, lock) : Goto(t, p)
  /\ UNCHANGED seen

StepBack(t) ==
  /\ pc[t] = "step_back"
  /\ Sub(1)
  /\ \E p \in RoomBody(t, lock) : Goto(t, p)
  /\ UNCHANGED seen

Room(t) ==
  /\ pc[t] = "room"
  /\ \E p \in RoomBody(t, lock) : Goto(t, p)
  /\ UNCHANGED <<lock, seen>>

Requeue(t) ==
  /\ pc[t] = "requeue"
  /\ Add(1)
  /\ \E p \in WaitBody(t, lock) : Goto(t, p)
  /\ UNCHANGED seen

Wait(t) ==
  /\ pc[t] = "reserved"
  /\ \E p \in WaitBody(t, lock) : Goto(t, p)
  /\ UNCHANGED <<lock, seen>>

\* The fetch_sub of a call that does not get, or gives back, a shared lock.
UnlockShared(t) ==
  /\ pc[t] \in {"shared", "give_up", "leave_shared"}
  /\ Sub(1)
  /\ Goto(t, "idle")
  /\ UNCHANGED seen

Panic(t) ==
  /\ pc[t] = "panic_sub"
  /\ Sub(1)
  /\ Goto(t, "panicked")
  /\ UNCHANGED seen

-----------------------------------------------------------------------------
(* Exclusive locking.                                                       *)

\* A failed try changes nothing.
TryLockExclusive(t) ==
  /\ pc[t] = "idle" /\ "try_exclusive" \in Calls[t]
  /\ lock = 0
  /\ lock' = EXCLUSIVE_LOCKED
  /\ Goto(t, "exclusive")
  /\ UNCHANGED seen

LockExclusive(t) ==
  /\ pc[t] = "idle" /\ "lock_exclusive" \in Calls[t]
  /\ Goto(t, "cas")
  /\ UNCHANGED <<lock, seen>>

\* Mutant: a writer goes on expecting zero once it is in the queue.
Expected_Zero(t) == 0

Expected(t) == IF pc[t] = "queued" THEN EXCLUSIVE_PENDING ELSE 0

ExchangeOk(t) ==
  /\ pc[t] \in {"cas", "queued"}
  /\ lock = Expected(t)
  /\ lock' = EXCLUSIVE_LOCKED
  /\ Goto(t, "exclusive")
  /\ UNCHANGED seen

\* Mutant: t enqueues whatever the count is.
ExchangeErr_AnyCount(t) ==
  /\ UNCHANGED lock
  /\ \/ /\ pc[t] = "cas" /\ 0 < lock
        /\ Goto(t, "enqueue")
        /\ seen' = [seen EXCEPT ![t] = lock]
     \/ pc[t] \in {"cas", "queued"} /\ Goto(t, pc[t]) /\ UNCHANGED seen

\* The exchange failed, perhaps spuriously, and returned the word: the
\* closure refuses, or t tries to enqueue, or it exchanges again.
ExchangeErr(t) ==
  /\ UNCHANGED lock
  /\ \/ /\ pc[t] \in {"cas", "queued"} /\ t \notin Patient
        /\ Goto(t, IF pc[t] = "queued" THEN "leave_queue" ELSE "idle")
        /\ UNCHANGED seen
     \/ /\ pc[t] = "cas" /\ 0 < lock /\ lock < EXCLUSIVE_PENDING
        /\ Goto(t, "enqueue")
        /\ seen' = [seen EXCEPT ![t] = lock]
     \/ /\ \/ pc[t] = "queued"
           \/ pc[t] = "cas" /\ (lock = 0 \/ EXCLUSIVE_PENDING <= lock)
        /\ Goto(t, pc[t])
        /\ UNCHANGED seen

EnqueueOk(t) ==
  /\ pc[t] = "enqueue" /\ lock = seen[t]
  /\ Add(EXCLUSIVE_PENDING)
  /\ Goto(t, "queued")
  /\ seen' = [seen EXCEPT ![t] = 0]

EnqueueErr(t) ==
  /\ pc[t] = "enqueue"
  /\ Goto(t, "cas")
  /\ seen' = [seen EXCEPT ![t] = 0]
  /\ UNCHANGED lock

LeaveQueue(t) ==
  /\ pc[t] = "leave_queue"
  /\ Sub(EXCLUSIVE_PENDING)
  /\ Goto(t, "idle")
  /\ UNCHANGED seen

\* Mutant: the unlock stores zero instead of subtracting.
UnlockExclusive_Store(t) ==
  /\ pc[t] = "exclusive"
  /\ lock' = 0
  /\ Goto(t, "idle")
  /\ UNCHANGED seen

UnlockExclusive(t) ==
  /\ pc[t] = "exclusive"
  /\ Sub(EXCLUSIVE_LOCKED)
  /\ Goto(t, "idle")
  /\ UNCHANGED seen

-----------------------------------------------------------------------------
Call(t) == TryLockShared(t) \/ LockShared(t) \/ TryLockExclusive(t) \/ LockExclusive(t)

\* Steps of a call that has begun, and the release of what it returned.
Step(t) ==
  \/ StepBack(t) \/ Room(t) \/ Requeue(t) \/ Wait(t) \/ UnlockShared(t) \/ Panic(t)
  \/ ExchangeOk(t) \/ ExchangeErr(t) \/ EnqueueOk(t) \/ EnqueueErr(t)
  \/ LeaveQueue(t) \/ UnlockExclusive(t)

Next == \E t \in Thread : Call(t) \/ Step(t)

Spec == Init /\ [][Next]_vars

\* Every thread keeps running and every guard is dropped; a weak exchange
\* does not fail for ever while the word is what it expects.  Nothing forces
\* an exchange whose word changes again and again, nor a new call.
Fairness ==
  \A t \in Thread : /\ WF_vars(Step(t))
                    /\ WF_vars(ExchangeOk(t))
                    /\ WF_vars(EnqueueOk(t))

FairSpec == Spec /\ Fairness
-----------------------------------------------------------------------------
(* Properties.                                                              *)

\* Exclusive guards exclude each other and every shared guard: what
\* lock_api::RwLock needs of RawRwSpin to give out &mut T (spin.rs:328).
MutualExclusion ==
  /\ \A s, t \in Exclusive : s = t
  /\ Exclusive # {} => Shared = {}

\* The word is the sum of what its users added and nobody's part runs into
\* another's: no sequence of calls, refusals and panics loses or keeps a count.
LockWord ==
  lock = Cardinality(Counted)
         + (IF Queued = {} THEN 0 ELSE EXCLUSIVE_PENDING)
         + (IF Exclusive = {} THEN 0 ELSE EXCLUSIVE_LOCKED)

\* At most one writer is in the queue, and nobody holds the exclusive lock
\* meanwhile: the two high bits of the word are never needed twice.
OneWriterInQueue ==
  /\ \A s, t \in Queued : s = t
  /\ Queued = {} \/ Exclusive = {}

\* The inductive invariant.
IInv == TypeOK /\ LockWord /\ OneWriterInQueue /\ MutualExclusion

\* is_locked_exclusive and is_locked (spin.rs:106, 114) never miss a holder,
\* and the former never reports one that is not there.
HintsSound ==
  /\ IsLockedExclusive <=> Exclusive # {}
  /\ Shared \cup Exclusive # {} => IsLocked

\* locks_count_check (spin.rs:380) stops the shared locks at one above the
\* threshold, however the panicking callers interleave with each other.
SharedBound ==
  DebugAssertions => Cardinality(Shared) <= SHARED_LOCK_THRESHOLD + 1

\* A reader in the second loop has its place: until it takes or gives up its
\* lock no writer acquires one, so that only the present writer is awaited.
ReservedGoFirst ==
  [][(\E t \in Thread : pc[t] = "reserved") => Exclusive' \subseteq Exclusive]_vars

\* No reader holds the lock past a writer that was queued before its call
\* began, whichever of the two loops and however many writers it went through
\* (spin.rs:197-199: it may go ahead of one that came later, "since it was not
\* present before call to this method").
NoOvertaking == \A t \in Shared : ahead[t] = {}

\* RawRwSpin implements the reader-writer lock.
held == [t \in Thread |-> IF pc[t] \in {"shared", "exclusive"} THEN pc[t] ELSE "none"]
AsRwLock == INSTANCE RwLock WITH mode <- held
ImplementsRwLock == AsRwLock!Spec

\* A reader that has counted itself and waits for the present writer only
\* (spin.rs:190) gets the lock once that writer has left.
ReservedAcquires ==
  \A t \in Patient : pc[t] = "reserved" ~> pc[t] = "shared"

\* A caller that will not wait has counted itself while a writer is in the
\* queue: try_lock_shared (spin.rs:123), or lock_shared_while whose closure
\* may refuse (spin.rs:171).
Probing ==
  /\ Queued # {}
  /\ \E t \in Thread : \/ pc[t] = "give_up"
                       \/ pc[t] = "step_back" /\ t \notin Patient

\* A writer in the queue gets the lock once the readers before it have left:
\* new readers step back and stay away (spin.rs:162, 276). Callers that will
\* not wait stay away from nothing: if they come without end, the word may
\* differ from EXCLUSIVE_PENDING at each of the writer's exchanges, so that,
\* contrary to spin.rs:315, it need not get the lock. Only then.
QueuedAcquires ==
  \A t \in Patient : <>[]~Probing => (pc[t] = "queued" ~> pc[t] = "exclusive")

\* A writer outside the queue may lose to others without end, but only to
\* those who get the lock: readers that count themselves and step back, and
\* writers that enqueue and exchange, never keep each other out. The exception
\* is that of QueuedAcquires.
Waiting(t) == pc[t] \in {"cas", "enqueue", "queued", "step_back", "room", "requeue", "reserved"}
SomeoneAcquires ==
  <>[]~Probing => ((\E t \in Patient : Waiting(t)) ~> Shared \cup Exclusive # {})
=============================================================================
