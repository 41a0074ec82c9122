----------------------------- MODULE Broadcast ------------------------------
(***************************************************************************)
(* The broadcast channel (broad.rs): one Sender writes versioned values    *)
(* into a triple buffer; any number of Receivers share its consumer index, *)
(* which a reader-writer lock protects.  The lock is any L: RawRwLock and  *)
(* is used through its contract, RwLock.                                   *)
(***************************************************************************)
EXTENDS TripleIdx

CONSTANTS
  Receiver,   \* the receivers
  MaxSends    \* bound on the number of sends

ASSUME SendsAssumption == MaxSends \in Nat

VARIABLES
  flags,      \* buffer.flags
  elements,   \* buffer.elements: the value and its version
  producer,   \* Sender.producer
  sent,       \* Sender.version, the number of values sent; the last one is `sent`
  spc,        \* what the sender does
  consumer,   \* the index under the lock
  mode,       \* who holds the lock
  rpc,        \* what receiver r does
  version,    \* Receiver.version
  got         \* history: the last value r was told is new

Lock == INSTANCE RwLock WITH Thread <- Receiver

senderVars == <<producer, sent, spc>>
receiverVars == <<consumer, mode, rpc, version, got>>
vars == <<flags, elements, senderVars, receiverVars>>

\* version is a sum of numbers of sends.
MaxVersion == MaxSends * MaxSends

TypeOK ==
  /\ flags \in Flags
  /\ elements \in [Idx -> [value : 0 .. MaxSends, version : 0 .. MaxVersion]]
  /\ producer \in Idx /\ consumer \in Idx
  /\ sent \in 0 .. MaxSends
  /\ spc \in {"idle", "writing", "publish"}
  /\ rpc \in [Receiver -> {"idle", "write", "recheck", "consume", "read", "look",
                           "fresh", "stale", "panicked"}]
  /\ version \in [Receiver -> 0 .. MaxVersion]
  /\ got \in [Receiver -> 0 .. MaxSends]
  /\ Lock!TypeOK

\* Broadcast::new and Sender::receiver: value 0 is the initial one.
Init ==
  /\ flags = FLAGS_INIT
  /\ elements = [i \in Idx |-> [value |-> 0, version |-> 0]]
  /\ producer = 0 /\ consumer = Other(0)
  /\ sent = 0 /\ spc = "idle"
  /\ rpc = [r \in Receiver |-> "idle"]
  /\ version = [r \in Receiver |-> 0]
  /\ got = [r \in Receiver |-> 0]
  /\ Lock!Init

-----------------------------------------------------------------------------
(* Broadcast::write, called by every send of the Sender.                    *)

BeginWrite ==
  /\ spc = "idle" /\ sent < MaxSends
  /\ spc' = "writing"
  /\ UNCHANGED <<flags, elements, producer, sent, receiverVars>>

\* f(buffer); *current += 1; *version += *current
EndWrite ==
  /\ spc = "writing"
  /\ spc' = "publish"
  /\ sent' = sent + 1
  /\ elements' = [elements EXCEPT ![producer].value = sent + 1,
                                  ![producer].version = @ + sent + 1]
  /\ UNCHANGED <<flags, producer, receiverVars>>

Publish ==
  /\ spc = "publish"
  /\ spc' = "idle"
  /\ flags' = Published(producer)
  /\ producer' = Pending(flags)
  /\ UNCHANGED <<elements, sent, receiverVars>>

-----------------------------------------------------------------------------
(* Broadcast::read, called by recv, recv_into, last, last_into and by       *)
(* Cached::update.                                                          *)

Goto(r, where) == rpc' = [rpc EXCEPT ![r] = where]

Check(r) ==
  /\ rpc[r] = "idle"
  /\ Goto(r, IF Consumed(flags) THEN "read" ELSE "write")
  /\ UNCHANGED <<flags, elements, senderVars, consumer, mode, version, got>>

LockRead(r) ==
  /\ rpc[r] = "read"
  /\ Lock!AcquireShared(r)
  /\ Goto(r, "look")
  /\ UNCHANGED <<flags, elements, senderVars, consumer, version, got>>

\* Mutants: the flags are not looked at again under the lock; the lock taken
\* is the shared one.
LockWrite_NoRecheck(r) ==
  /\ rpc[r] = "write"
  /\ Lock!AcquireExclusive(r)
  /\ Goto(r, "consume")
  /\ UNCHANGED <<flags, elements, senderVars, consumer, version, got>>

LockWrite_Shared(r) ==
  /\ rpc[r] = "write"
  /\ Lock!AcquireShared(r)
  /\ Goto(r, "recheck")
  /\ UNCHANGED <<flags, elements, senderVars, consumer, version, got>>

LockWrite(r) ==
  /\ rpc[r] = "write"
  /\ Lock!AcquireExclusive(r)
  /\ Goto(r, "recheck")
  /\ UNCHANGED <<flags, elements, senderVars, consumer, version, got>>

Recheck(r) ==
  /\ rpc[r] = "recheck"
  /\ Goto(r, IF Consumed(flags) THEN "look" ELSE "consume")
  /\ UNCHANGED <<flags, elements, senderVars, consumer, mode, version, got>>

\* consume, assert!(published), *write = new_consumer; a failed assertion
\* unwinds and drops the guard.
Consume(r) ==
  /\ rpc[r] = "consume"
  /\ flags' = Returned(consumer)
  /\ IF Consumed(flags)
     THEN Goto(r, "panicked") /\ Lock!Release(r) /\ UNCHANGED consumer
     ELSE Goto(r, "look") /\ consumer' = Pending(flags) /\ UNCHANGED mode
  /\ UNCHANGED <<elements, senderVars, version, got>>

\* Compares the versions; the closure then runs on the value, under the lock.
Look(r) ==
  /\ rpc[r] = "look"
  /\ LET element == elements[consumer] IN
     IF element.version > version[r]
     THEN /\ version' = [version EXCEPT ![r] = element.version]
          /\ got' = [got EXCEPT ![r] = element.value]
          /\ Goto(r, "fresh")
     ELSE Goto(r, "stale") /\ UNCHANGED <<version, got>>
  /\ UNCHANGED <<flags, elements, senderVars, consumer, mode>>

Return(r) ==
  /\ rpc[r] \in {"fresh", "stale"}
  /\ Lock!Release(r)
  /\ Goto(r, "idle")
  /\ UNCHANGED <<flags, elements, senderVars, consumer, version, got>>

\* r is dropped and made again: by Sender::receiver, or as a clone of s.
Subscribe(r) ==
  /\ rpc[r] = "idle"
  /\ version' = [version EXCEPT ![r] = 0]
  /\ got' = [got EXCEPT ![r] = 0]
  /\ UNCHANGED <<flags, elements, senderVars, consumer, mode, rpc>>

CloneOf(r, s) ==
  /\ rpc[r] = "idle" /\ rpc[s] = "idle"
  /\ version' = [version EXCEPT ![r] = version[s]]
  /\ got' = [got EXCEPT ![r] = got[s]]
  /\ UNCHANGED <<flags, elements, senderVars, consumer, mode, rpc>>

-----------------------------------------------------------------------------
Send == BeginWrite \/ EndWrite \/ Publish

Read(r) ==
  \/ Check(r) \/ LockRead(r) \/ LockWrite(r) \/ Recheck(r) \/ Consume(r)
  \/ Look(r) \/ Return(r)

Next ==
  \/ Send
  \/ \E r \in Receiver : Read(r) \/ Subscribe(r)
  \/ \E r, s \in Receiver : CloneOf(r, s)

Spec == Init /\ [][Next]_vars
-----------------------------------------------------------------------------
(* Properties.                                                              *)

Looking(r) == rpc[r] \in {"look", "fresh", "stale"}

\* assert!(published) (broad.rs:46) never fails: between the second look at
\* the flags and the swap nobody else consumes, as the write lock is held.
AssertHolds == \A r \in Receiver : rpc[r] # "panicked"

\* The element a receiver looks at stays the consumer's until it returns:
\* the index moves under the write lock, before its holder looks.
IndexStable ==
  [][\A r \in Receiver : Looking(r) /\ Looking(r)' => consumer' = consumer]_vars

\* "Returns last set value" (broad.rs:104): while no send is in progress the
\* element the next read will look at holds the last value sent.
LastReachable ==
  spc = "idle" =>
    elements[IF Consumed(flags) THEN consumer ELSE Pending(flags)].value = sent

\* "Caller must ensure that one element is not accessed elsewhere while this
\* reference is alive" (triple.rs:268): the sender is not inside an element
\* that a receiver looks at.
SenderAlone ==
  ~ \E r \in Receiver : spc = "writing" /\ Looking(r) /\ consumer = producer

\* recv: "Receive new value if it was set since last receive" (broad.rs:71):
\* a receiver that is told its value is not new, while no send is in
\* progress, has received that value.
NothingMissed ==
  [][\A r \in Receiver : rpc[r] = "look" /\ rpc'[r] = "stale" /\ spc = "idle"
                           => elements[consumer].value = got[r]]_vars
=============================================================================
