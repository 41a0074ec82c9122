-------------------------- MODULE BroadcastProofs ---------------------------
(***************************************************************************)
(* Theorems about Broadcast for any set of receivers and number of sends.  *)
(***************************************************************************)
EXTENDS Broadcast, TLAPS

\* A version grows by at most MaxSends with every send.
VersionsBounded ==
  /\ spc = "writing" => sent < MaxSends
  /\ \A i \in Idx : elements[i].version <= sent * MaxSends

\* Who is where in Broadcast::read holds the lock as it should.
Locked ==
  \A r \in Receiver :
    /\ rpc[r] \in {"recheck", "consume"} => mode[r] = "exclusive"
    /\ Looking(r) => mode[r] # "none"
    /\ rpc[r] \in {"idle", "write", "read", "panicked"} => mode[r] = "none"

\* The lock keeps its contract.
Exclusive ==
  \A r, s \in Receiver : mode[r] = "exclusive" /\ r # s => mode[s] = "none"

\* Once the holder of the write lock has seen the bit, nobody clears it.
StillPublished == \A r \in Receiver : rpc[r] = "consume" => ~Consumed(flags)

\* The last value on its way from the sender to the flags.
LastWritten == spc = "publish" => elements[producer].value = sent

\* The word is one that a swap wrote: 3 and 7 would name no element.
WordValid == Pending(flags) \in Idx

IInv ==
  /\ TypeOK
  /\ WordValid
  /\ VersionsBounded
  /\ Locked
  /\ Exclusive
  /\ StillPublished
  /\ AssertHolds
  /\ LastWritten
  /\ LastReachable

-----------------------------------------------------------------------------
(* The words of the triple buffer.                                          *)
LEMMA Words ==
  ASSUME NEW i \in Idx
  PROVE  /\ Published(i) \in Flags /\ Pending(Published(i)) = i /\ ~Consumed(Published(i))
         /\ Returned(i) \in Flags /\ Pending(Returned(i)) = i /\ Consumed(Returned(i))
<1>1. i \in {0, 1, 2}
  BY DEF Idx
<1>2. i + 4 \in 0 .. 7 /\ (i + 4) % 4 = i /\ ((i + 4) \div 4) % 2 # 0
  BY <1>1
<1>3. i \in 0 .. 7 /\ i % 4 = i /\ (i \div 4) % 2 = 0
  BY <1>1
<1> QED
  BY <1>2, <1>3 DEF Published, Returned, Flags, Pending, Consumed, INDEX_COUNT, PENDING_BIT

-----------------------------------------------------------------------------
LEMMA InitInv == Init => IInv
<1> SUFFICES ASSUME Init PROVE IInv
  OBVIOUS
<1>1. 0 \in Idx /\ Other(0) \in Idx /\ FLAGS_INIT = Returned(0)
  BY DEF Idx, Other, FLAGS_INIT, Returned
<1>2. FLAGS_INIT \in Flags /\ Pending(FLAGS_INIT) = 0 /\ Consumed(FLAGS_INIT)
  BY <1>1, Words
<1>3. 0 \in 0 .. MaxSends /\ 0 \in 0 .. MaxVersion
  BY SendsAssumption DEF MaxVersion
<1>4. TypeOK
  BY <1>1, <1>2, <1>3 DEF Init, TypeOK, Lock!Init, Lock!TypeOK, Lock!Mode
<1>5. VersionsBounded
  <2>1. 0 <= 0 * MaxSends
    BY SendsAssumption
  <2> QED
    BY <2>1 DEF Init, VersionsBounded
<1>6. Locked /\ Exclusive /\ StillPublished /\ AssertHolds /\ LastWritten
  BY DEF Init, Lock!Init, Locked, Exclusive, StillPublished, AssertHolds, LastWritten, Looking
<1>7. LastReachable /\ WordValid
  BY <1>1, <1>2 DEF Init, LastReachable, WordValid
<1> QED
  BY <1>4, <1>5, <1>6, <1>7 DEF IInv

\* sent + 1 sends can have added at most (sent + 1) * MaxSends.
LEMMA Bounded ==
  ASSUME NEW n \in 0 .. MaxSends, n < MaxSends, NEW v \in Nat, v <= n * MaxSends
  PROVE  v + n + 1 <= (n + 1) * MaxSends /\ v + n + 1 \in 0 .. MaxVersion
<1>1. n + 1 <= MaxSends /\ n \in Nat /\ MaxSends \in Nat
  BY SendsAssumption
<1>2. (n + 1) * MaxSends = n * MaxSends + MaxSends /\ n * MaxSends \in Nat
  BY <1>1
<1>3. (n + 1) * MaxSends <= MaxSends * MaxSends
  <2>1. PICK d \in Nat : MaxSends = n + 1 + d
    <3>1. MaxSends - (n + 1) \in Nat /\ MaxSends = n + 1 + (MaxSends - (n + 1))
      BY <1>1
    <3> QED
      BY <3>1
  <2>2. (n + 1 + d) * MaxSends = (n + 1) * MaxSends + d * MaxSends /\ d * MaxSends \in Nat
    BY <1>1
  <2> QED
    BY <1>1, <2>1, <2>2
<1> QED
  BY <1>1, <1>2, <1>3 DEF MaxVersion

\* Sending: no index and no lock of the receivers is touched.
LEMMA SendInv == IInv /\ Send => IInv'
<1> SUFFICES ASSUME IInv, Send PROVE IInv'
  OBVIOUS
<1>1. /\ consumer' = consumer /\ mode' = mode /\ rpc' = rpc /\ version' = version /\ got' = got
      /\ Locked' /\ Exclusive' /\ AssertHolds'
  BY DEF IInv, Send, BeginWrite, EndWrite, Publish, receiverVars, Locked, Exclusive, AssertHolds,
         Looking
<1>2. CASE BeginWrite
  <2>1. TypeOK' /\ WordValid' /\ VersionsBounded' /\ StillPublished' /\ LastWritten' /\ LastReachable'
    BY <1>1, <1>2 DEF IInv, BeginWrite, TypeOK, WordValid, VersionsBounded, StillPublished,
                      LastWritten, LastReachable, Lock!TypeOK, Lock!Mode
  <2> QED
    BY <1>1, <2>1 DEF IInv
<1>3. CASE EndWrite
  <2>1. /\ sent \in 0 .. MaxSends /\ sent < MaxSends /\ sent' = sent + 1 /\ producer \in Idx
        /\ elements \in [Idx -> [value : 0 .. MaxSends, version : 0 .. MaxVersion]]
    BY <1>3 DEF IInv, EndWrite, TypeOK, VersionsBounded
  <2>2. sent + 1 \in 0 .. MaxSends
    BY <2>1, SendsAssumption
  <2>3. \A i \in Idx : elements[i].version \in Nat /\ elements[i].version <= sent * MaxSends
    BY <2>1 DEF IInv, VersionsBounded
  <2> DEFINE v == elements[producer].version + sent + 1
  <2>4. v <= (sent + 1) * MaxSends /\ v \in 0 .. MaxVersion
    BY <2>1, <2>3, Bounded
  <2>5. elements' = [elements EXCEPT ![producer] = [value |-> sent + 1, version |-> v]]
    <3>1. DOMAIN elements[producer] = {"value", "version"}
      BY <2>1
    <3> QED
      BY <1>3, <2>1, <2>3 DEF EndWrite
  <2> HIDE DEF v
  <2>6. \A i \in Idx : elements'[i].version <= sent' * MaxSends
    <3>1. \A i \in Idx : elements[i].version <= (sent + 1) * MaxSends
      <4>1. ASSUME NEW m \in Nat, NEW n \in Nat, NEW x \in Nat, x <= n * m PROVE x <= (n + 1) * m
        <5>1. (n + 1) * m = n * m + m /\ n * m \in Nat
          OBVIOUS
        <5> QED
          BY <4>1, <5>1
      <4> QED
        BY <2>1, <2>3, <4>1, SendsAssumption
    <3> QED
      BY <2>1, <2>4, <2>5, <3>1
  <2>7. TypeOK' /\ WordValid'
    BY <1>1, <1>3, <2>1, <2>2, <2>4, <2>5
       DEF IInv, EndWrite, TypeOK, WordValid, Lock!TypeOK, Lock!Mode
  <2>8. VersionsBounded' /\ StillPublished' /\ LastWritten' /\ LastReachable'
    BY <1>1, <1>3, <2>1, <2>5, <2>6
       DEF IInv, EndWrite, VersionsBounded, StillPublished, LastWritten, LastReachable
  <2> QED
    BY <1>1, <2>7, <2>8 DEF IInv
<1>4. CASE Publish
  <2>1. flags' = Published(producer) /\ producer' = Pending(flags) /\ spc = "publish"
    BY <1>4 DEF Publish
  <2>2. flags' \in Flags /\ Pending(flags') = producer /\ ~Consumed(flags') /\ producer' \in Idx
    BY <2>1, Words DEF IInv, TypeOK, WordValid
  <2>3. TypeOK' /\ WordValid' /\ VersionsBounded' /\ StillPublished' /\ LastWritten'
    BY <1>1, <1>4, <2>2 DEF IInv, Publish, TypeOK, WordValid, VersionsBounded, StillPublished,
                            LastWritten, Lock!TypeOK, Lock!Mode
  <2>4. LastReachable'
    BY <1>4, <2>1, <2>2 DEF IInv, Publish, LastWritten, LastReachable
  <2> QED
    BY <1>1, <2>3, <2>4 DEF IInv
<1> QED
  BY <1>2, <1>3, <1>4 DEF Send

-----------------------------------------------------------------------------
\* The part of the invariant that speaks of the sender and of the elements
\* goes on to hold if only the receivers' own registers change.
LEMMA OwnStep ==
  ASSUME IInv, UNCHANGED <<flags, elements, senderVars, consumer>>
  PROVE  WordValid' /\ VersionsBounded' /\ LastWritten' /\ LastReachable'
BY DEF IInv, senderVars, WordValid, VersionsBounded, LastWritten, LastReachable

\* A step of a receiver's read, or of its client between two reads.
LEMMA ReceiverInv ==
  ASSUME IInv, NEW r \in Receiver, NEW s \in Receiver, Read(r) \/ Subscribe(r) \/ CloneOf(r, s)
  PROVE  IInv'
<1> USE DEF Goto
<1>1. CASE Check(r) \/ Recheck(r)
  <2>1. WordValid' /\ VersionsBounded' /\ LastWritten' /\ LastReachable'
    BY <1>1, OwnStep DEF Check, Recheck
  <2>2. TypeOK'
    BY <1>1 DEF Check, Recheck, IInv, TypeOK, senderVars, Lock!TypeOK
  <2>3. Locked' /\ Exclusive' /\ StillPublished' /\ AssertHolds'
    BY <1>1 DEF Check, Recheck, IInv, TypeOK, Locked, Exclusive, StillPublished, AssertHolds, Looking
  <2> QED
    BY <2>1, <2>2, <2>3 DEF IInv
<1>2. CASE LockRead(r) \/ LockWrite(r)
  <2>1. WordValid' /\ VersionsBounded' /\ LastWritten' /\ LastReachable'
    BY <1>2, OwnStep DEF LockRead, LockWrite
  <2>2. TypeOK'
    BY <1>2 DEF LockRead, LockWrite, IInv, TypeOK, senderVars, Lock!TypeOK, Lock!Mode,
                Lock!AcquireShared, Lock!AcquireExclusive
  <2>3. Locked' /\ Exclusive' /\ StillPublished' /\ AssertHolds'
    BY <1>2 DEF LockRead, LockWrite, IInv, TypeOK, Locked, Exclusive, StillPublished, AssertHolds,
                Looking, Lock!TypeOK, Lock!AcquireShared, Lock!AcquireExclusive
  <2> QED
    BY <2>1, <2>2, <2>3 DEF IInv
<1>3. CASE Consume(r)
  <2>1. rpc[r] = "consume" /\ ~Consumed(flags) /\ mode[r] = "exclusive"
    BY <1>3 DEF Consume, IInv, StillPublished, Locked
  <2>2. /\ flags' = Returned(consumer) /\ consumer' = Pending(flags)
        /\ rpc' = [rpc EXCEPT ![r] = "look"]
        /\ UNCHANGED <<elements, senderVars, mode, version, got>>
    BY <1>3, <2>1 DEF Consume
  <2>3. flags' \in Flags /\ Pending(flags') = consumer /\ Consumed(flags') /\ consumer' \in Idx
    BY <2>2, Words DEF IInv, TypeOK, WordValid
  <2>4. TypeOK' /\ WordValid'
    BY <2>2, <2>3 DEF IInv, TypeOK, WordValid, senderVars, Lock!TypeOK
  <2>5. VersionsBounded' /\ LastWritten' /\ LastReachable'
    BY <2>1, <2>2, <2>3 DEF IInv, VersionsBounded, LastWritten, LastReachable, senderVars
  <2>6. Locked' /\ Exclusive' /\ AssertHolds'
    BY <2>1, <2>2 DEF IInv, TypeOK, Locked, Exclusive, AssertHolds, Looking
  <2>7. StillPublished'
    BY <2>1, <2>2 DEF IInv, TypeOK, Locked, Exclusive, StillPublished
  <2> QED
    BY <2>4, <2>5, <2>6, <2>7 DEF IInv
<1>4. CASE Look(r)
  <2>1. WordValid' /\ VersionsBounded' /\ LastWritten' /\ LastReachable'
    BY <1>4, OwnStep DEF Look
  <2>2. elements[consumer].version \in 0 .. MaxVersion /\ elements[consumer].value \in 0 .. MaxSends
    BY DEF IInv, TypeOK
  <2>3. TypeOK'
    BY <1>4, <2>2 DEF Look, IInv, TypeOK, senderVars, Lock!TypeOK
  <2>4. Locked' /\ Exclusive' /\ StillPublished' /\ AssertHolds'
    BY <1>4 DEF Look, IInv, TypeOK, Locked, Exclusive, StillPublished, AssertHolds, Looking
  <2> QED
    BY <2>1, <2>3, <2>4 DEF IInv
<1>5. CASE Return(r)
  <2>1. WordValid' /\ VersionsBounded' /\ LastWritten' /\ LastReachable'
    BY <1>5, OwnStep DEF Return
  <2>2. TypeOK'
    BY <1>5 DEF Return, IInv, TypeOK, senderVars, Lock!TypeOK, Lock!Mode, Lock!Release
  <2>3. Locked' /\ Exclusive' /\ StillPublished' /\ AssertHolds'
    BY <1>5 DEF Return, IInv, TypeOK, Locked, Exclusive, StillPublished, AssertHolds, Looking,
                Lock!TypeOK, Lock!Release
  <2> QED
    BY <2>1, <2>2, <2>3 DEF IInv
<1>6. CASE Subscribe(r) \/ CloneOf(r, s)
  <2>1. WordValid' /\ VersionsBounded' /\ LastWritten' /\ LastReachable'
    BY <1>6, OwnStep DEF Subscribe, CloneOf
  <2>2. TypeOK'
    BY <1>6, SendsAssumption DEF Subscribe, CloneOf, IInv, TypeOK, senderVars, Lock!TypeOK, MaxVersion
  <2>3. Locked' /\ Exclusive' /\ StillPublished' /\ AssertHolds'
    BY <1>6 DEF Subscribe, CloneOf, IInv, Locked, Exclusive, StillPublished, AssertHolds, Looking
  <2> QED
    BY <2>1, <2>2, <2>3 DEF IInv
<1> QED
  BY <1>1, <1>2, <1>3, <1>4, <1>5, <1>6 DEF Read

LEMMA StepInv == IInv /\ [Next]_vars => IInv'
<1> SUFFICES ASSUME IInv, [Next]_vars PROVE IInv'
  OBVIOUS
<1>1. CASE UNCHANGED vars
  BY <1>1 DEF vars, senderVars, receiverVars, IInv, TypeOK, WordValid, VersionsBounded, Locked,
              Exclusive, StillPublished, AssertHolds, LastWritten, LastReachable, Looking, Lock!TypeOK
<1>2. CASE Send
  BY <1>2, SendInv
<1>3. ASSUME NEW r \in Receiver, Read(r) \/ Subscribe(r) PROVE IInv'
  BY <1>3, ReceiverInv
<1>4. ASSUME NEW r \in Receiver, NEW s \in Receiver, CloneOf(r, s) PROVE IInv'
  BY <1>4, ReceiverInv
<1> QED
  BY <1>1, <1>2, <1>3, <1>4 DEF Next

LEMMA Invariance == Spec => []IInv
  BY InitInv, StepInv, PTL DEF Spec

-----------------------------------------------------------------------------
\* Words, indices, versions and the lock keep their types.
THEOREM TypeCorrect == Spec => []TypeOK
  BY Invariance, PTL DEF IInv

\* assert!(published) (broad.rs:46) never fails, for any number of receivers
\* and whenever the sender publishes.
THEOREM AssertCorrect == Spec => []AssertHolds
  BY Invariance, PTL DEF IInv

\* The last value sent is the one that the next read finds (broad.rs:104).
THEOREM LastCorrect == Spec => []LastReachable
  BY Invariance, PTL DEF IInv

\* The index stays where it is under a receiver that looks at its element.
THEOREM IndexCorrect == Spec => IndexStable
<1> DEFINE Stable == \A r \in Receiver : Looking(r) /\ Looking(r)' => consumer' = consumer
<1>1. ASSUME IInv, [Next]_vars PROVE [Stable]_vars
  <2>1. ASSUME NEW s \in Receiver, Consume(s) PROVE Stable
    <3>1. mode[s] = "exclusive" /\ ~Looking(s)
      BY <1>1, <2>1 DEF Consume, IInv, Locked, Looking
    <3>2. \A r \in Receiver : r # s => ~Looking(r)
      BY <1>1, <3>1 DEF IInv, Exclusive, Locked
    <3> QED
      BY <3>1, <3>2
  <2>2. CASE consumer' = consumer
    BY <2>2
  <2>3. consumer' = consumer \/ \E s \in Receiver : Consume(s)
    BY <1>1 DEF Next, vars, receiverVars, Send, BeginWrite, EndWrite, Publish, Read, Check, LockRead,
                LockWrite, Recheck, Look, Return, Subscribe, CloneOf
  <2> QED
    BY <2>1, <2>2, <2>3
<1> QED
  BY <1>1, Invariance, PTL DEF Spec, IndexStable
=============================================================================
