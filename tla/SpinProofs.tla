----------------------------- MODULE SpinProofs -----------------------------
(***************************************************************************)
(* Theorems about Spin for any set of callers.                             *)
(***************************************************************************)
EXTENDS Spin, TLAPS

\* The inductive invariant: FlagIsHolder speaks of every caller that can
\* turn up between the exchange and the unlock.
IInv == TypeOK /\ FlagIsHolder

-----------------------------------------------------------------------------
\* The initial state and every step keep the invariant.
LEMMA InitInv == Init => IInv
  BY DEF Init, IInv, TypeOK, FlagIsHolder

LEMMA StepInv == IInv /\ [Next]_vars => IInv'
<1> SUFFICES ASSUME IInv, [Next]_vars PROVE IInv'
  OBVIOUS
<1> USE DEF IInv, TypeOK, FlagIsHolder, Goto
<1>1. ASSUME NEW t \in Thread, TryLock(t) PROVE IInv'
  BY <1>1 DEF TryLock
<1>2. ASSUME NEW t \in Thread, Lock(t) PROVE IInv'
  BY <1>2 DEF Lock
<1>3. ASSUME NEW t \in Thread, Exchange(t) PROVE IInv'
  BY <1>3 DEF Exchange
<1>4. ASSUME NEW t \in Thread, Spinning(t) PROVE IInv'
  BY <1>4 DEF Spinning
<1>5. ASSUME NEW t \in Thread, Unlock(t) PROVE IInv'
  BY <1>5 DEF Unlock
<1>6. CASE UNCHANGED vars
  BY <1>6 DEF vars
<1> QED
  BY <1>1, <1>2, <1>3, <1>4, <1>5, <1>6 DEF Next, Step

LEMMA Invariance == Spec => []IInv
  BY InitInv, StepInv, PTL DEF Spec

\* The flag is set exactly while one thread holds the lock (spin.rs:26-43),
\* however exchanges and attempts that fail interleave with the unlock.
THEOREM FlagCorrect == Spec => []FlagIsHolder
  BY Invariance, PTL DEF IInv

-----------------------------------------------------------------------------
\* The callers hold the lock as an abstract lock allows.
LEMMA InitLock == Init => AsLock!Init
  BY DEF Init, AsLock!Init, held

LEMMA StepLock == IInv /\ [Next]_vars => [AsLock!Next]_held
<1> SUFFICES ASSUME IInv, [Next]_vars PROVE [AsLock!Next]_held
  OBVIOUS
<1> USE DEF IInv, TypeOK, FlagIsHolder, Goto, held
<1>1. ASSUME NEW t \in Thread, pc[t] = "idle" \/ pc[t] = "exchange", ~lock, Goto(t, "held")
      PROVE AsLock!AcquireExclusive(t)
  BY <1>1 DEF AsLock!AcquireExclusive
<1>2. ASSUME NEW t \in Thread, Unlock(t) PROVE AsLock!Release(t)
  BY <1>2 DEF Unlock, AsLock!Release
<1>3. ASSUME NEW t \in Thread, NEW p \in {"idle", "exchange", "spin"}, pc[t] # "held", Goto(t, p)
      PROVE held' = held
  BY <1>3
<1>4. CASE UNCHANGED vars
  BY <1>4 DEF vars
<1> QED
  BY <1>1, <1>2, <1>3, <1>4 DEF Next, Step, TryLock, Lock, Exchange, Spinning, AsLock!Next

\* RawSpin is a lock: what lock_api::Mutex (spin.rs:46) relies on to give out
\* exclusive references.
THEOREM Implements == Spec => ImplementsLock
<1>1. Init => AsLock!Init
  BY InitLock
<1>2. IInv /\ [Next]_vars => [AsLock!Next]_held
  BY StepLock
<1> QED
  BY <1>1, <1>2, Invariance, PTL DEF Spec, ImplementsLock, AsLock!Spec
=============================================================================
