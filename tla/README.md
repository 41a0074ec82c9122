# TLA+ models and proofs for amity

amity is a Rust crate of concurrent data structures. This directory models its
locks, the triple buffer and the broadcast channel, the ring buffer and the flip
queue, and the condition variable with the locks built on it; it checks the models
with TLC and proves with TLAPS every safety property that a passing run checks.

## The system

| component | source | state it keeps | operations | who uses it |
|---|---|---|---|---|
| RawRwSpin | `spin.rs` 72–370 | one `AtomicUsize`: a count of shared locks, `EXCLUSIVE_PENDING`, `EXCLUSIVE_LOCKED` | try/blocking/conditional shared and exclusive lock, unlock, two hints | `lock_api::RwLock`; the default lock of Broadcast and FlipQueue |
| RawSpin | `spin.rs` 1–70 | one `AtomicBool` | try_lock, lock, unlock | `lock_api::Mutex` |
| TripleBuffer, its producer and its consumer | `triple.rs` | three elements; an `AtomicU8` with the pending index and the published bit; one index on each side | write, publish, send; consume, read, recv; split | Broadcast |
| Broadcast, Sender, Receiver, Cached | `broad.rs` | a triple buffer of (value, version); the consumer index in a reader-writer lock; versions of the sender and of each receiver | send; recv and last; clone, subscribe | clients |
| RingBuffer and its iterators | `ring_buffer.rs` | slots, head, len | push, pop, clear, drain, three iterators | FlipBuffer |
| FlipBuffer, FlipQueue, Drain | `flip_queue.rs` | two rings, atomic counts of reserved and popped slots; in FlipQueue behind a reader-writer lock | push_sync, pop_sync, flush, swap, drain | clients |
| CondVar, Mutex, RwLock | `condvar.rs`, `mutex.rs`, `rwlock.rs` | an atomic pointer with a state in its low bits: the head of a queue of parked threads | wait, wake one, wake all; lock, unlock | not declared in `lib.rs` |
| park, BackOff | `park.rs`, `backoff.rs` | a per-thread parker; a step counter | park, unpark; wait longer each time | CondVar; the spin locks |
| PtrState, AtomicPtrState | `state_ptr.rs` | a pointer with a small state in its alignment bits | pack, unpack, compare_exchange | CondVar |
| Arena | `arena.rs` | blocks of memory | alloc | not declared in `lib.rs` |
| CachePadded, sync facades | `cache.rs`, `sync.rs`, `sync_loom.rs` | none | | all |

What is hard, and what makes each part correct:

* **RawRwSpin.** A shared locker adds one to the word *before* it knows whether
  it may have the lock and takes it back on five different paths; a writer
  enqueues by exchanging a count it has read earlier. Correct means: guards
  exclude each other; the word is exactly the sum of what its users added, on
  every path of refusals and panics; one writer queues at a time and gets its
  turn, unless callers that will not wait keep coming; readers make room for the
  writer queued before them and no reader that has a place loses it to a later
  writer.
* **RawSpin.** Waiters look and exchange in separate steps. Correct means mutual
  exclusion, and that somebody gets in.
* **TripleBuffer.** Each side holds an index outside the word that the other
  side's next swap gives away. Correct means: the three indices always differ,
  no two accesses meet in one element, and the two sides see a one-place mailbox
  in which the newest value wins, nothing is received twice, and the producer is
  told the truth about what it overwrites.
* **Broadcast.** Receivers look at the flags before the lock, under it, and again
  through the swap, while the sender publishes at any moment without a lock.
  Correct means: the assertion in `read` holds, the index stays put under a
  reader, the last value is the one that is found, no value is missed, and the
  sender never writes where a receiver reads.
* **RingBuffer.** Wrap-around and growth while wrapped; iterators advanced from
  both ends. Correct means FIFO and iterators that agree with the sequence.
* **FlipBuffer.** Pushes and pops through a shared reference leave the ring's head
  and length behind until the next flush. Correct means that no element is lost,
  duplicated or dropped twice, in any order of reservations.
* **CondVar.** A waker races with a thread about to park. Correct means no lost
  wake-up and no thread unparked through a dead stack frame.

`PROJECT.json` lists these hazards at their lines, with the properties that
would show each of them going wrong.

## Modules

| module | what it is |
|---|---|
| `RwLock` | abstract reader-writer lock: who holds it and how |
| `RwSpin` | RawRwSpin, all methods, one step per atomic access |
| `RwSpinProofs` | theorems about RwSpin |
| `Spin` | RawSpin; implements `RwLock` with exclusive holders only |
| `SpinProofs` | theorems about Spin |
| `TripleIdx` | encoding of the triple buffer's word, shared by the next ones |
| `Mailbox` | abstract triple buffer: draft, box, held |
| `TripleBuffer` | TripleBuffer with its two halves |
| `TripleRecv` | TripleBuffer with the unsafe `recv` as well |
| `TripleBufferProofs` | theorems about TripleBuffer |
| `Broadcast` | Broadcast over `TripleIdx` and over the contract of a lock, `RwLock` |
| `BroadcastProofs` | theorems about Broadcast |
| `Ring` | a RingBuffer as a value: what its methods make of it |
| `RingProofs` | lemmas about `Ring`, used by the next ones |
| `Fifo` | abstract ring buffer: a queue |
| `RingBuffer` | RingBuffer with Drain and its iterators, over `Ring` |
| `RingBufferProofs` | theorems about RingBuffer |
| `FlipBuffer` | FlipBuffer: `Ring` and two atomic counts |
| `SharedFifo` | abstract flip queue: one queue, many callers |
| `FlipQueue` | FlipQueue: `FlipBuffer` behind a `RwLock` |
| `FlipQueueProofs` | theorems about FlipQueue |
| `PtrState` | packing of an address and a state |
| `CondVar` | CondVar, its list of waiters and park, over `PtrState` |
| `CondVarLocks` | the users of a CondVar: Mutex, RwLock, threads that take turns |
| `CondVarProofs` | theorems about CondVar and the locks |
| `MC*` | values of the constants for TLC |

A definition named `X_Something` next to a definition `X` is a plausible bug in
the code that `X` models. No specification uses it; `PROJECT.json` pairs it with
the property that would fail if the code had it.

### RwSpin

`lock` is the word, `pc[t]` the access caller `t` performs next or how it holds
the lock, `seen[t]` the count its enqueueing exchange expects; `ahead[t]` is
history: the writers that have been in the queue ever since before `t`'s call. A caller is one
call and the guard it returns, so a program thread that holds several shared
guards is several callers. A step is one atomic access with the local code that
follows it. The loops of `lock_shared_while` are `LockShared` (the first
increment), `StepBack` and `Room` (the first loop: the count is taken back, then
the word is polled), `Requeue` (the second increment) and `Wait` (the second
loop); those of `lock_exclusive_while` are `ExchangeOk`/`ExchangeErr` (one
action for the exchange of a writer outside the queue and in it, told apart by
`Expected`), `EnqueueOk`/`EnqueueErr` and `LeaveQueue`. The closures are
nondeterministic: a caller in `Patient` never refuses (`lock_shared`,
`lock_exclusive`), any other may at each evaluation. `locks_count_check` is
`TooMany`, compiled when `DebugAssertions` is set; a caller that panics takes its
count back where the code does (`Panic`) and is gone. `count - EXCLUSIVE_LOCKED`
in the pending branch of that check (`spin.rs:393`) underflows and panics as
well, with another message; the model does not tell the two apart.

Memory orders: every access is to the one word and is a read-modify-write, except
the loads of the two polling loops. A read-modify-write acts on the latest value.
A polling load is modelled as returning the current value as well: an older one
could only delay the caller (`Room`, whose next access is an increment that
looks again) or show a value from before the last acquisition in `Wait`, where
the caller's own increment fixes what can be read later: after it no writer
acquires the lock (`ReservedGoFirst`), so that a value below `EXCLUSIVE_LOCKED`
remains true. `compare_exchange_weak` may fail spuriously.

### Spin

The same for the flag: `Exchange` may fail, after which the caller polls.

### TripleBuffer

`flags`, `elements`, the two sides' indices and cached answers are the fields of
the code. An access to an element has a beginning and an end, as elements are
plain memory that the other side might touch meanwhile: `writing` and `borrowed`
say that the side is inside. `set`, `set_from`, `set_from_borrow` and `get_mut`
are one `BeginWrite`/`EndWrite`, the `send` family that followed by `Publish`;
`get`, `get_mut`, `read`, `read_into` are `BeginAccess`/`EndAccess`, and the client
may keep the element as it is or take the value out. `dirty`, `fate` and `resplit`
are history. `Init` is a new buffer and its first split; `SplitMut` every later
one. Clients are assumed to publish what they have written or what came back to
them unconsumed, as the documentation of `publish` asks. The swaps are AcqRel,
so what is written to an element before a swap is visible to the side that gets
it. `recv` and `recv_into` are unsafe, touch an element that is the consumer's
no more, and are kept apart in `TripleRecv`.

### RingBuffer

`Ring` has the fields `array` (with its length `cap`), `head` and `len` as a record,
so that FlipBuffer can own one as well; a slot out of which a value was moved or
dropped holds `None`, so that ownership is visible: the slots with a value must be
exactly those in the window of `len` slots from `head`. The actions of `RingBuffer`
are sequential calls. `AfterPush` is `Stored` or, when the array is full, `Grown` to
any capacity the allocator may give; `AfterPop` is the body of `pop` and of
`Drain::next`; everything that drops many values does so through the two slices
(`FrontSlice`, `BackSlice`), as the code does, and not through the window. `EndDrain`
is the drop of the Drain or a `mem::forget` of it. `user` is the borrow that keeps
other calls away meanwhile.

An iterator is what its two slice iterators have left, as slots. `Iter` and
`IterMut` have the same code and are one. `Walk` and `WalkBack` are one turn of
the loops of the searching and folding methods, which do not go through `next`.
`rest` and `expect` are history: an iterator over the whole window that is sent the
same calls. `count`, `last`, `size_hint` change nothing and are left out. Values of
size zero, for which the capacity is `usize::MAX` and the array never grows, are
outside the bounds.

### FlipQueue

`popped` and `pushed` are the two atomic counts of a FlipBuffer. A call through a
shared reference is two steps, as it is in the code: it reserves (`ReservePush`,
`ReservePop`: the increment, and the slot that follows from its old value) and
accesses its slot (`WriteSlot`, `ReadSlot`); `slot[t]` is the reservation in
between. Calls through `&mut` start with `Flushed`. FlipQueue takes the lock shared
for the former and alone for the latter; `push` and `pop` that find no room or no
value give the shared lock up (`Leave`) and take it alone (`LockSlow`), where
`PushSlow` and `PopSlow` start over with a flush. A FlipBuffer without a queue is the
same with the borrow checker in the place of the lock. The lock is used through
`RwLock`, which RwSpin is proved to implement. A drain may be dropped or forgotten, a
swap brings any ring that a client can have.

A count goes on growing with every call that fails. In the model it stops one above
its limit: the code compares it with the limit and takes the minimum of both, so
that all larger values act alike as long as a count does not wrap, for which 2^64
calls between two flushes would be needed. The load of `pushed` in `pop` is Relaxed;
it is taken to return the current value, as are the increments (an old value can only hide
a push that runs concurrently with the pop).

### CondVar

The threads' nodes lie on their stacks: a thread is named by the address of its
node, which the next wait uses again, so that an exchange may succeed on a word
that has changed and changed back meanwhile. `word` is the `AtomicPtrState`, packed as
in `PtrState`. One step is one access: `Ask` is what follows a load or a failed
exchange (the closure decides to update, to wait or to give up), `UpdateOk` and
`Enqueue` are the exchanges, `Check` and `Park` the loop on the node's flag, and a waker
goes through `Read`, `Mark`, `Unpark` for each node, in the order of the code: next
is read before the flag is stored, as the node may be gone afterwards. A node that
goes out of scope is cleared, and `NodesAlive` says that nobody reads or marks it
from then on. Closures are functions from states to decisions. All methods with a
closure are this loop with other closures: `update_break_wake` is `update` with a
closure that may break, and `set` and `update` with `CondVarWake::None` are
`update_no_wake`. The tokens are those of `std::thread::park`; `SpuriousWake` is what
its documentation allows, and what `ParkYield` always does.

`CondVarLocks` has three clients, one at a time: RawMutex, RawRwLock, and the threads
of `test_condvar`, which wait for their turn and pass it on. `unlock` of a mutex or a
write lock takes the whole list and wakes it; `unlock_shared` is an update that wakes
nobody. The readers are counted in the
state: with `Align = 4` two of them fill it and a third one waits; in the code the
alignment is 256 and 254 readers fill it.

### Broadcast

The sender's `write` is `BeginWrite`, `EndWrite` (value and version), `Publish`.
A receiver's `read` is `Check` (the flags before any lock), then either `LockRead`
or `LockWrite`, `Recheck`, `Consume` (swap, assertion and new index, all under the
write lock), then `Look` (which compares versions; the closure runs here) and
`Return` (the guard is dropped). The flags are written by the sender without any
lock, so each look at them is a step. The `consume` swap, the assertion and the
assignment to the index are one step: only the lock's holder may touch the index,
and the sender can only set the bit again. Values are numbered in the order in
which they were sent. The lock is any `L: RawRwLock`; it is used through `RwLock`,
which RwSpin is proved to implement. A downgraded lock stays exclusive for the
others until the guard is dropped, or is released as a shared one.

## Runs

| run | question | bounds |
|---|---|---|
| `rwspin` | all safety properties of RwSpin, its order of readers and writers, and `RwLock` | five callers, each of any method, refusals anywhere |
| `rwspin_live` | do readers with a place and queued writers acquire, and does somebody? | three readers and two writers that try, wait or refuse, again and again |
| `spin` | exclusion and progress of RawSpin | four callers |
| `triple` | all safety properties of TripleBuffer, and `Mailbox` | four values, any number of operations |
| `triple_recvvalue` (violation) | does recv return the received value? | |
| `ring` | FIFO, ownership of the slots, iterators | up to six slots, two values, any number of operations |
| `ring_iter` (violation) | do the iterators return every value? | up to three slots |
| `flip` | exclusive slots, no value lost, one queue for all | three threads, up to three slots, two values, any number of calls |
| `condvar` | list of waiters, exclusion, who is left behind and who is woken | three threads, four states, three clients |
| `broadcast` | assertion, stable index, last value | two receivers, four sends |
| `broadcast_alias` (violation) | is the sender alone in its element? | two receivers, three sends |
| `broadcast_missed` (violation) | is every new value received as new? | one receiver, three sends |

What the properties say is written above each of them. What the runs show:

* `rwspin`: with `UsizeMax = 95` the threshold is 3, so the fifth concurrent
  count panics: every overlap of up to four counts, and every panic, occurs. In
  the real width the threshold is 2^59 (on 64 bits) and only the first
  half of that is reachable. The word's regions lie 24 apart, more than five
  callers can bridge. Callers are interchangeable (each may do everything), so
  the symmetry is sound: none of the properties checked under it is a liveness
  property. Deadlock is not checked here as all callers may have panicked;
  `rwspin_live` checks it.
* `rwspin_live`: two writers are enough for a reader to wait while they take turns,
  three readers for a writer to queue while one holds the lock, one waits and one
  only tries. Each may try or wait; one reader and one writer are in `Patient` and
  the properties are about what becomes of their waits, while the closures
  of the other three may refuse at each evaluation, or never. The threshold is 4
  (`UsizeMax = 127`), more than the readers there are, so that nobody panics. `QueuedAcquires` and `SomeoneAcquires` except the behaviours in which
  callers that will not wait go on counting themselves past a queued writer
  without end (`<>[]~Probing` is their premise): with the premise left out, or with only
  one of the two disjuncts of `Probing` (`try_lock_shared`, a refusing
  `lock_shared_while`), TLC finds `QueuedAcquires` violated in this very instance.
  `ReservedAcquires` needs no such premise.
* `spin`: only the group makes progress: a single waiter may lose for ever.
* `triple`: three elements are the code's own number; a fourth value
  leaves one that is in no element. `broadcast` needs four sends for two values to
  pass each receiver through all three elements and come back to the first.
* `ring`: with the smallest `MIN_NON_ZERO_CAP` (1) and allocations that may be larger than
  asked for, capacities 0 to 6 occur and growth happens from 0, 1, 2 and 3 slots in
  every rotation of the content. Two values are enough to tell any two positions apart.
* `flip`: three threads are two that hold reservations and one that comes in
  between, or one that waits for the lock alone while two overtake it. Capacities are
  0 to 3 with every head; growth is from 0 and 1 slot (growth of wrapped content is
  what `ring` checks). Threads, and values, are interchangeable.
* `condvar`: three threads are one that wakes, one that is being woken and one that
  comes in between; each may have left and queued again. With four states
  two readers reach the largest shared count.
* The type invariant of RingBuffer is checked; the others are only proved (`TypeCorrect`,
  for RawSpin as part of `FlagCorrect`).

Fairness. `rwspin_live` and `spin` assume that every call that has begun goes on,
that every guard is dropped in the end (both are weak fairness of `Step`), and
that a weak exchange does not fail for ever while the word stays what it expects
(weak fairness of `ExchangeOk`, `EnqueueOk`). Nothing is assumed about an exchange
whose expected value comes and goes (no strong fairness), and nobody has to begin
a call. `BackOff` only delays. `condvar` assumes weak fairness of `Step`: a thread inside
a call goes on, drops its guard, and a thread of the test runs on. A weak
exchange that fails on an unchanged word leaves everything as it was, a stutter,
so that it does not fail for ever. No lock is assumed to be called for, and nobody to wake spuriously.

## What the code does otherwise than it says

Each of these is the counterexample of a violation run, quoted in `PROJECT.json`.

* `TripleBuffer::recv` consumes first and then takes from the *old* index: it
  returns the old content of the element it has given up, which the producer may
  own by then.
* `Broadcast::new` starts the sender at index 0, which is also the pending index
  of a new buffer: after the first consume the sender and a receiver can be inside the
  same element.
* `Broadcast::write` *adds* the send's number to the version in the element, so
  that versions in different elements do not order the sends, and a receiver
  takes a new value for an old one.
* The iterators of RingBuffer skip values once the content wraps around: `or` takes
  its operand by value, so `next` advances both slices' iterators and drops what the
  second one gave; `nth` asks for the first slice's length when it has been
  emptied, and skips all of `n` again in the second. The loops that walk the slices
  themselves (`fold`, `find`, ...) are right, alone: after a `next` their values
  are missing too.

Smaller ones, without a run, met while reading:

* A writer that has not enqueued yet must exchange the exact count that it has
  read; one reader that locks and unlocks again and again keeps it out for ever,
  although `spin.rs:315` says that readers will not block it indefinitely.
* Nor does the queue protect it from every reader: a caller that repeats
  `try_lock_shared`, or a `lock_shared_while` whose closure refuses, adds one to the
  word and takes it back each time, and the writer's exchange, which expects exactly
  `EXCLUSIVE_PENDING` (`spin.rs:293`), may fail at every attempt, again contrary to
  `spin.rs:315`. `QueuedAcquires` states what holds: when such callers stop, or
  readers only ever wait, a queued writer acquires the lock.
* After another `split_mut`, `last_consumed` (`triple.rs:782`) says true of an element
  that was published and that nobody consumed; `LastConsumedTrue` is about the first split.
* `locks_count_check` compares the count from before the increment with `>`, so
  one shared lock more than `SHARED_LOCK_THRESHOLD` is granted (`SharedBound`
  states what holds).
* A FlipBuffer that is dropped without a flush drops its ring as it was at the last
  flush: what has been popped since is dropped twice and what has been pushed is leaked.
* `unlock_shared` of the RwLock over CondVar (`rwlock.rs:122`) wakes nobody. A writer that parked
  behind readers, or a reader that found the count full, sleeps until a later
  exclusive unlock, if there is one (`WokenByUnlock` states what holds, and
  `StrandedByReaders` that nothing else leaves anybody behind). Its
  exchange is Acquire, not Release.
* The `lock_api` unlock of the Mutex (`mutex.rs:140`) is empty; the model has the type's own `unlock`.
* `condvar.rs` calls `BackOff::lock_free_wait` and `blocking_wait`, which do not
  exist, and it, `mutex.rs`, `rwlock.rs`, `park.rs` and `arena.rs` are not declared in `lib.rs`. The
  model takes the two calls for delays.

## Proofs

| theorem | states | from |
|---|---|---|
| `RwSpinProofs!TypeCorrect`, `Exclusion`, `WordIsSum`, `QueueIsSingle` | the conjuncts of `IInv` | `Invariance` |
| `RwSpinProofs!HintsCorrect` | `HintsSound` | `Invariance` |
| `RwSpinProofs!ReservedReaders` | `ReservedGoFirst` | `Invariance`, step by step |
| `RwSpinProofs!ReadersGiveWay` | `NoOvertaking` | `Invariance`, `OrderInv` |
| `RwSpinProofs!QueueDrains` | what `QueuedAcquires` rests on | `Invariance`, step by step |
| `RwSpinProofs!SharedBounded` | `SharedBound` | `Invariance` |
| `RwSpinProofs!Implements` | `ImplementsRwLock` | `Invariance`, step by step |
| `TripleBufferProofs!TypeCorrect`, `IndicesArePermutation`, `PendingStable` | types, `IndicesDistinct`, `PendingUntilConsumed` | `IndexInv` |
| `TripleBufferProofs!NoRaces` | `NoRace` | `IndexInv`, `BorrowInv` |
| `TripleBufferProofs!LastConsumedCorrect` | `LastConsumedTrue` | `IndexInv`, `FateInv` |
| `TripleBufferProofs!Implements` | `ImplementsMailbox` | `IndexInv`, `BorrowInv`, `ValueInv` |
| `SpinProofs!FlagCorrect`, `Implements` | `FlagIsHolder`, `ImplementsLock` | `Invariance` |
| `BroadcastProofs!TypeCorrect`, `AssertCorrect`, `LastCorrect` | types, `AssertHolds`, `LastReachable` | `Invariance` |
| `BroadcastProofs!IndexCorrect` | `IndexStable` | `Invariance`, step by step |
| `RingBufferProofs!WindowCorrect` | `WindowLive` | `Invariance` |
| `RingBufferProofs!Implements` | `ImplementsFifo` | `Invariance`, step by step |
| `RingBufferProofs!TypeCorrect`, `UnwrappedCorrect`, `DisjointCorrect` | `TypeOK`, `IterUnwrapped`, `IterDisjoint` | `IterInvariance` |
| `FlipQueueProofs!TypeCorrect`, `SlotsCorrect`, `NothingIsLost` | types, `SlotsExclusive`, `NothingLost` | `Invariance` |
| `FlipQueueProofs!Implements` | `ImplementsFifo` | `Invariance`, `Checked`, step by step |
| `CondVarProofs!TypeCorrect`, `ListsCorrect`, `NodesCorrect`, `ReadyCorrect` | types, `WaitersInOneList`, `NodesAlive`, `ReadyIsUnparked` | `WaitersInvariance` |
| `CondVarProofs!StateCorrect`, `Exclusion` | `StateIsHolders`, that a writer is alone | `LocksInvariance` |
| `CondVarProofs!ReadersStrand` | `StrandedByReaders` | `LocksInvariance`, step by step |
| `CondVarProofs!NobodySleeps`, `WaitedForIsHeld` | `NobodySleepsInVain`, that a mutex waited for is held | `LocksInvariance`, `Stays` |
| `CondVarProofs!ExclusiveUnlockTakes` | what `WokenByUnlock` rests on | `LocksInvariance`, step by step |
| `CondVarProofs!Implements` | `ImplementsRwLock` | `LocksInvariance`, step by step |

*RwSpin.* Assumed: `usize::MAX + 1` is a multiple of 32, callers are finitely many
and fewer than `EXCLUSIVE_PENDING` (the argument of `spin.rs:85`), and the types of
the other constants. `MutualExclusion` is not inductive: that a writer's exchange
from 0 meets no reader needs the word to be the sum of its users' parts
(`LockWord`), that the sum splits uniquely into count, pending and locked part
needs the bound on the callers, and that the high parts are never used twice needs
`OneWriterInQueue`. `IInv` is the conjunction of the four. The count is a
cardinality: lemmas on how it changes when one caller enters or leaves the set come
first, then one lemma per group of actions. `OrderInv` strengthens `NoOvertaking` to the
readers on their way to the lock: a reader comes into one of `PassedPCs` only from a word
that shows an empty queue (`LeavesRoom`), and afterwards its set only shrinks.
So while a writer is queued the readers in `PassedPCs` only become fewer (`QueueDrains`).
`SharedBound` is inductive beside `IInv`: the step that grants a shared lock has
just compared the count.

*TripleBuffer.* Assumed: the default is no value of the producer. `IndexInv` is
inductive by itself: each swap exchanges an index with the pending one. That the
consumer is only ever inside its own element (`BorrowInv`) gives `NoRace`. `FateInv`
says where a published element can be: under the pending bit, or back at the
producer. `ValueInv` says that both hold a value of the producer, so that no cell of
the mailbox is mistaken for an empty one.

*Spin.* Nothing is assumed. `FlagIsHolder` is inductive with the types.

*Broadcast.* Assumed: `MaxSends` is a natural number. `AssertHolds` needs that a receiver
about to swap has the write lock (`Locked`), that nobody else has any lock then
(`Exclusive`), and so that the bit it saw is still there (`StillPublished`: only a swap
clears it). The same two give `IndexStable`. `LastReachable` needs that the value on
its way to the flags is the last one (`LastWritten`). Versions grow by sums, so that
their type needs a bound: the product of the sends so far and `MaxSends`.

*RingBuffer.* Assumed: `None` is no value, the smallest capacity is positive. `RingProofs`
looks at a slot by its offset behind the head: a slot is in the window exactly if its
offset is below the length, and no two slots have the same offset. Each method's
effect on a ring is then a statement about offsets, and one about the sequence
`Contents`. The invariant is `WindowLive` with the ring's type. `IterInv` is about an
iterator that has been started: what its two slices have left are different slots of the
window, none of them in both, and a call returns one that neither has afterwards.
While the values do not wrap, the second slice is empty and the first is what the
iterator of the history has left, so that both answer alike.

*FlipQueue.* Assumed: as for RingBuffer, and nothing about the threads. By the lock
(`Locked`, `Exclusive`), a thread with a slot keeps every flush away, and `head`, `len` and
`cap` stand still. Hence `Reserved`: slots to be written lie at offsets from `len` to
`len + pushed`, slots to be read below `popped` and `len`. The next reservation takes
an offset that nobody has (`SlotsExclusive`). `AllThere` is `NothingLost` by offsets;
when a flush comes nobody has a slot, and the offsets from the pops to
`len` and the pushes are all full, which is the window of the flushed ring
(`FlushedWindow`).

For the refinement, the k-th value of the queue is in the k-th slot behind those
reserved by pops (`Place`), or, if that slot is still to be written, with its one
writer (`ValueAt`). A push that reserves a slot appends a place and becomes its writer;
a pop that reserves one takes the first, which has no writer, as writers lie behind
`len`. The accesses that follow move a value between slot and thread and change neither
the queue nor an answer. A call that is alone finds no writers, so that the queue is the
`Contents` of the flushed ring, and the lemmas of `RingProofs` say what it makes
of them. That `pop_sync` answers rightly that the queue is empty needs `Checked`: as
long as it holds the lock shared after it found every value reserved, they all remain
reserved, so that without pushes there is nothing in the queue.

*CondVar.* Assumed: finitely many threads, whose nodes have addresses that are positive
multiples of the alignment; for the locks, that the alignment leaves room for one
shared lock. What can be reached along the links is not an induction here but the least set
closed under `next` (`Chain`), and what a step makes of it follows by giving a closed
set. `Followed` and `Straight` say that the links stand still under a waiter, that
the lists have no cycle and that a waker goes on where its node points to. `Spread` is
`WaitersInOneList`: a node enters the word's list with its wait, the list moves to a waker
as a whole, and a waker takes its first node off it before it marks it ready. A node
that is marked or read is therefore in the waker's list, its owner waits and is not
ready (`NodesAlive`), also when the owner has left and waits again at the same address.
`ReadyIsUnparked` is inductive beside it: the waker that makes a node ready unparks its owner
next.

For the locks, `CallsFit` says which closure each caller is in and that what it was
granted is what it exchanged, `HoldersFit` that the state is the number of readers or
the one writer. Each step of a client is then one that takes a lock, gives one up or
changes no holder (`LockStep`), which gives `StateIsHolders` and the refinement.

A thread is stranded when it is on the word's list although its closure would not wait
for the state (`Stranded`). Nobody comes to be stranded but by a reader's unlock
(`StrandedByReaders`): the list grows only by a thread that enqueues itself with the
state it has decided by; whatever else changes the state takes the list along, except an
update that wakes nobody, and such an update of a lock either takes it, when those on the
list go on waiting or there are none, or is `unlock_shared`. A mutex and the turns have no
readers, so that nobody is ever stranded there (`Stays`); by `Spread`, who sleeps and need
not is then ready or in the list of a waker (`NobodySleepsInVain`), and who
waits for a mutex waits for a holder (`WaitedForIsHeld`).

Only model-checked: the liveness properties (`ReservedAcquires`, `QueuedAcquires`,
`SomeoneAcquires`, `MutexProgress`, `WokenByUnlock`, `TurnsGoRound`), as liveness under fairness and
ENABLED are beyond the proof system here. The four violation runs are TLC's
counterexamples.

## Not modelled

* BackOff: a delay, contained in every interleaving. CachePadded and the sync
  facades: layout and re-exports. The crate root: declarations and examples. Arena: not
  part of the crate, and it does not compile.
* The constructors and conversions of PtrState that CondVar does not use; they pack
  the same two parts.
* Weaker memory orders than the sections above discuss: a load or an exchange
  acts on the current value.
* What a drop of a FlipBuffer does (see above): a sequential end of the buffer.
* `Cached` is a receiver whose last value is kept.
* The clone and drop of elements, `Debug`, `Default` and other formatting.

## Plan

Most important first; what is done is marked.

1. RawRwSpin with its abstract lock, invariants, refinement, liveness and proofs. **Done.**
2. RawSpin. **Done.** TripleBuffer with the mailbox and proofs. **Done.**
3. Broadcast, composing the triple buffer's word with the contract of the lock, with proofs. **Done.**
4. RingBuffer over an abstract FIFO, with its Drain and its iterators, with proofs. **Done.**
5. FlipBuffer and FlipQueue: push_sync and pop_sync as steps under the shared mode of
   `RwLock`; flush, swap and drain under the exclusive one; refinement of a queue;
   proofs. **Done.**
6. CondVar with park, and Mutex and RwLock above it: the list of waiters, lost
   wake-ups, who is woken; the locks as a reader-writer lock; proofs. **Done.**
7. PtrState as operators over bounded words. **Done**, as far as CondVar uses it.
8. Proofs of all safety properties the runs check. **Done.** Of the liveness properties,
   the safety facts they rest on: `QueueDrains` for `QueuedAcquires`, `ExclusiveUnlockTakes`
   for `WokenByUnlock`, `WaitedForIsHeld` for `MutexProgress`. **Done.** What remains is
   the fairness argument above them, which is TLC's.
