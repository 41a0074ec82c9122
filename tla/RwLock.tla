------------------------------- MODULE RwLock -------------------------------
(***************************************************************************)
(* What a reader-writer lock promises its clients: the contract of         *)
(* lock_api::RawRwLock that RawRwSpin claims to meet and that Broadcast    *)
(* and FlipQueue rely on.  Nothing is said of when a call succeeds, of     *)
(* queues or of fairness: only of who may hold the lock together.          *)
(***************************************************************************)
CONSTANT Thread        \* the calls and guards that compete for the lock

VARIABLE mode          \* mode[t]: how t holds the lock

Mode == {"none", "shared", "exclusive"}

TypeOK == mode \in [Thread -> Mode]

Init == mode = [t \in Thread |-> "none"]

\* A shared lock is granted beside other shared locks, never beside an
\* exclusive one.
AcquireShared(t) ==
  /\ mode[t] = "none"
  /\ \A s \in Thread : mode[s] # "exclusive"
  /\ mode' = [mode EXCEPT ![t] = "shared"]

\* An exclusive lock is granted only when nobody holds the lock.
AcquireExclusive(t) ==
  /\ \A s \in Thread : mode[s] = "none"
  /\ mode' = [mode EXCEPT ![t] = "exclusive"]

Release(t) ==
  /\ mode[t] # "none"
  /\ mode' = [mode EXCEPT ![t] = "none"]

Next == \E t \in Thread : AcquireShared(t) \/ AcquireExclusive(t) \/ Release(t)

Spec == Init /\ [][Next]_mode
=============================================================================
