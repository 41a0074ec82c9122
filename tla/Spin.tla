-------------------------------- MODULE Spin --------------------------------
(***************************************************************************)
(* RawSpin (spin.rs): a spin lock in one AtomicBool.  A thread exchanges   *)
(* the flag until it finds it clear, and only looks at it in between.      *)
(***************************************************************************)
CONSTANT Thread   \* the callers

VARIABLES
  lock,   \* the AtomicBool
  pc      \* pc[t]: the access t performs next, or "held"

vars == <<lock, pc>>

TypeOK ==
  /\ lock \in BOOLEAN
  /\ pc \in [Thread -> {"idle", "exchange", "spin", "held"}]

Init ==
  /\ lock = FALSE
  /\ pc = [t \in Thread |-> "idle"]

Goto(t, where) == pc' = [pc EXCEPT ![t] = where]

\* Mutant: a failed attempt clears the flag again.
TryLock_Undo(t) ==
  /\ pc[t] = "idle"
  /\ lock' = ~lock
  /\ Goto(t, IF lock THEN "idle" ELSE "held")

\* fetch_or(true): sets the flag, and has the lock if it was clear.
TryLock(t) ==
  /\ pc[t] = "idle"
  /\ lock' = TRUE
  /\ Goto(t, IF lock THEN "idle" ELSE "held")

Lock(t) ==
  /\ pc[t] = "idle"
  /\ Goto(t, "exchange")
  /\ UNCHANGED lock

\* Mutant: the exchange after the spin is taken to succeed.
Exchange_Blind(t) ==
  /\ pc[t] = "exchange"
  /\ lock' = TRUE
  /\ Goto(t, "held")

Exchange(t) ==
  /\ pc[t] = "exchange"
  /\ lock' = TRUE
  /\ Goto(t, IF lock THEN "spin" ELSE "held")

\* while is_locked() backoff.wait(): leaves the inner loop on a clear flag.
Spinning(t) ==
  /\ pc[t] = "spin" /\ ~lock
  /\ Goto(t, "exchange")
  /\ UNCHANGED lock

\* Mutant: the unlock is lost.
Unlock_NoStore(t) ==
  /\ pc[t] = "held"
  /\ Goto(t, "idle")
  /\ UNCHANGED lock

Unlock(t) ==
  /\ pc[t] = "held"
  /\ lock' = FALSE
  /\ Goto(t, "idle")

Step(t) == Exchange(t) \/ Spinning(t) \/ Unlock(t)

Next == \E t \in Thread : TryLock(t) \/ Lock(t) \/ Step(t)

Spec == Init /\ [][Next]_vars

\* A caller keeps running and drops its guard; no call is ever forced.
FairSpec == Spec /\ \A t \in Thread : WF_vars(Step(t))
-----------------------------------------------------------------------------
\* The flag is set exactly while one thread holds the lock: a failed
\* fetch_or, which also stores true, never leaves it set behind a holder
\* that is gone.
FlagIsHolder ==
  /\ lock <=> \E t \in Thread : pc[t] = "held"
  /\ \A s, t \in Thread : pc[s] = "held" /\ pc[t] = "held" => s = t

\* RawSpin is a reader-writer lock of which only the exclusive half is used:
\* lock_api::Mutex (spin.rs:46) may give out &mut T.
held == [t \in Thread |-> IF pc[t] = "held" THEN "exclusive" ELSE "none"]
AsLock == INSTANCE RwLock WITH mode <- held
ImplementsLock == AsLock!Spec

\* "Locks are not fair and not ordered" (spin.rs:8), but while anyone waits
\* someone gets the lock: no interleaving of looks and exchanges leaves
\* every waiter spinning on a free lock.
SomeoneAcquires ==
  (\E t \in Thread : pc[t] \in {"exchange", "spin"}) ~> (\E t \in Thread : pc[t] = "held")
=============================================================================
