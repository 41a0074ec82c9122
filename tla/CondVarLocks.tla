---------------------------- MODULE CondVarLocks ----------------------------
(***************************************************************************)
(* What a CondVar is used for: RawMutex (mutex.rs), RawRwLock (rwlock.rs)  *)
(* and the threads of test_condvar, which wait for their turn and pass it  *)
(* on, here in a circle.  One client has the CondVar, chosen at the start. *)
(***************************************************************************)
EXTENDS CondVar

VARIABLE client

vars == <<condVars, client>>

UNLOCKED == 0
LOCKED == 1                   \* mutex.rs
EXCLUSIVE_LOCK == STATE_MASK  \* rwlock.rs: the last state
MAX_SHARED == STATE_MASK - 1

ASSUME LockAssumption == MAX_SHARED > 0

\* The threads take turns in the order of their nodes, from 1.
Turn(t) == Cardinality({s \in Thread : s <= t})
NextTurn(t) == IF Turn(t) = Cardinality(Thread) THEN 1 ELSE Turn(t) + 1

ClientPCs == {"idle", "shared", "exclusive", "turn", "panicked"}

TypeOK ==
  /\ CondTypeOK(ClientPCs)
  /\ client \in {"mutex", "rwlock", "turns"}

Init ==
  /\ client \in {"mutex", "rwlock", "turns"}
  /\ CondInit(IF client = "turns" THEN 1 ELSE UNLOCKED)

At(t, where, who) == pc[t] = where /\ client = who /\ UNCHANGED client

-----------------------------------------------------------------------------
(* RawMutex.                                                                *)
TryLock(t) ==
  /\ At(t, "idle", "mutex")
  /\ OptimisticUpdate(t, UNLOCKED, LOCKED, "exclusive")

LockCall ==
  CallOf([s \in State |-> IF s = UNLOCKED THEN Update(LOCKED) ELSE Wait], "none", "exclusive", "idle")

Lock(t) ==
  /\ At(t, "idle", "mutex")
  /\ OptimisticElse(t, UNLOCKED, LOCKED, LockCall)

Unlock(t) == At(t, "exclusive", "mutex") /\ Set(t, UNLOCKED, "idle")

-----------------------------------------------------------------------------
(* RawRwLock.                                                               *)
TryLockExclusive(t) ==
  /\ At(t, "idle", "rwlock")
  /\ OptimisticUpdate(t, UNLOCKED, EXCLUSIVE_LOCK, "exclusive")

\* Mutant: the last count is taken for one that leaves room.
OneMore_Past(s, otherwise) == IF s = EXCLUSIVE_LOCK THEN otherwise ELSE Update(s + 1)

OneMore(s, otherwise) ==
  IF s \in {EXCLUSIVE_LOCK, MAX_SHARED} THEN otherwise ELSE Update(s + 1)

TryLockShared(t) ==
  /\ At(t, "idle", "rwlock")
  /\ Begin(t, CallOf([s \in State |-> OneMore(s, Break)], "none", "shared", "idle"))

LockSharedCall == CallOf([s \in State |-> OneMore(s, Wait)], "none", "shared", "idle")

LockShared(t) ==
  /\ At(t, "idle", "rwlock")
  /\ OptimisticElse(t, UNLOCKED, 1, LockSharedCall)

\* Mutant: one reader is not enough to wait for.
LockExclusiveCall_One ==
  CallOf([s \in State |-> IF s <= 1 THEN Update(EXCLUSIVE_LOCK) ELSE Wait], "none", "exclusive", "idle")

LockExclusiveCall ==
  CallOf([s \in State |-> IF s = UNLOCKED THEN Update(EXCLUSIVE_LOCK) ELSE Wait], "none", "exclusive", "idle")

LockExclusive(t) ==
  /\ At(t, "idle", "rwlock")
  /\ OptimisticElse(t, UNLOCKED, EXCLUSIVE_LOCK, LockExclusiveCall)

\* unreachable!() panics, here as a Break.
UnlockSharedCall ==
  CallOf([s \in State |-> IF s = UNLOCKED THEN Break ELSE Update(s - 1)], "none", "idle", "panicked")

UnlockShared(t) == At(t, "shared", "rwlock") /\ Begin(t, UnlockSharedCall)

\* Mutant: nobody is woken, as by unlock_shared.
UnlockExclusive_NoWake(t) ==
  /\ At(t, "exclusive", "rwlock")
  /\ Begin(t, CallOf([s \in State |-> Update(UNLOCKED)], "none", "idle", "idle"))

UnlockExclusive(t) == At(t, "exclusive", "rwlock") /\ Set(t, UNLOCKED, "idle")

-----------------------------------------------------------------------------
(* test_condvar: wait for the own turn and set the next one; TakeTurn does  *)
(* both in one update_wait, as a client may as well.                        *)
WaitTurn(t) ==
  /\ At(t, "idle", "turns")
  /\ Begin(t, CallOf([s \in State |-> IF s = Turn(t) THEN Break ELSE Wait], "none", "idle", "turn"))

SetTurn(t) == At(t, "turn", "turns") /\ Set(t, NextTurn(t), "idle")

TakeTurn(t) ==
  /\ At(t, "idle", "turns")
  /\ Begin(t, CallOf([s \in State |-> IF s = Turn(t) THEN Update(NextTurn(t)) ELSE Wait],
                     "one", "idle", "idle"))

-----------------------------------------------------------------------------
Call(t) == TryLock(t) \/ Lock(t) \/ TryLockExclusive(t) \/ TryLockShared(t)
           \/ LockShared(t) \/ LockExclusive(t)

\* Guards are dropped, and the threads of the test run on.
Continue(t) == Unlock(t) \/ UnlockShared(t) \/ UnlockExclusive(t)
               \/ WaitTurn(t) \/ SetTurn(t) \/ TakeTurn(t)

Step(t) == Continue(t) \/ (CallStep(t) /\ UNCHANGED client)

Next == \E t \in Thread : Call(t) \/ Step(t) \/ (SpuriousWake(t) /\ UNCHANGED client)

Spec == Init /\ [][Next]_vars

\* Threads keep running; no lock is called for and no one wakes by accident.
FairSpec == Spec /\ \A t \in Thread : WF_vars(Step(t))
-----------------------------------------------------------------------------
(* Properties.                                                              *)

\* A thread that is about to take its part back still holds the lock.
Holds(t, how) == \/ pc[t] = how
                 \/ how = "shared" /\ call[t] = UnlockSharedCall

\* The state is exactly what the holders have made of it, at MAX_SHARED too,
\* so that no count runs into EXCLUSIVE_LOCK and `unlock_shared called on
\* unlocked RwLock` (rwlock.rs:126) is never said.
StateIsHolders ==
  LET shared == {t \in Thread : Holds(t, "shared")}
      exclusive == {t \in Thread : Holds(t, "exclusive")}
  IN client # "turns" =>
       IF exclusive = {} THEN Cardinality(shared) <= MAX_SHARED /\ StateOf(word) = Cardinality(shared)
       ELSE StateOf(word) = IF client = "mutex" THEN LOCKED ELSE EXCLUSIVE_LOCK

\* RawMutex and RawRwLock are what lock_api needs to give out references.
held == [t \in Thread |-> IF Holds(t, "exclusive") THEN "exclusive"
                          ELSE IF Holds(t, "shared") THEN "shared" ELSE "none"]
AsRwLock == INSTANCE RwLock WITH mode <- held
ImplementsRwLock == AsRwLock!Spec

\* Who is in the word's list although its closure would not wait for the state.
Stranded == {t \in Chain(Ptr(word)) : Decision(call[t], word).does # "wait"}

\* No wake-up is lost: a thread that sleeps although it would not wait for the
\* state by now has been made ready or is in the list of a waker, whatever came
\* between its decision and its sleep.  (In the RwLock it may be stranded.)
NobodySleepsInVain ==
  client # "rwlock" =>
    \A t \in Parked : Decision(call[t], word).does # "wait" =>
      ready[t] \/ \E s \in Thread : t \in ListOf(s)

\* In all clients, the RwLock as well, somebody comes to be stranded only when
\* a reader unlocks, which wakes nobody (rwlock.rs:122).
StrandedByReaders ==
  [][Stranded = {} /\ (\A t \in Thread : held[t] = "shared" => held'[t] = "shared")
       => Stranded' = {}]_vars

\* While anyone waits for a mutex someone gets it, by whatever path a waiter
\* has been passed over, woken for nothing or queued again.
MutexProgress ==
  (client = "mutex" /\ \E t \in Thread : call[t] = LockCall)
    ~> \E t \in Thread : pc[t] = "exclusive"

\* Whoever is parked while a lock is held exclusively is woken for it.
WokenByUnlock ==
  \A t \in Thread :
    (/\ client # "turns" /\ pc[t] = "park"
     /\ \E s \in Thread : pc[s] = "exclusive") ~> pc[t] # "park"

\* Every thread's turn comes again and again, as every thread of test_condvar
\* is joined: waking everyone (condvar.rs:124-125) leaves nobody behind.
TurnsGoRound == \A t \in Thread : []<>(client = "turns" => StateOf(word) = Turn(t))
=============================================================================
