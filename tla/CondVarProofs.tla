--------------------------- MODULE CondVarProofs ----------------------------
(***************************************************************************)
(* Theorems about CondVar and the locks built on it, for any finite set of *)
(* threads and every alignment of the nodes that leaves room for a reader. *)
(***************************************************************************)
EXTENDS CondVarLocks, FiniteSetTheorems, TLAPS

-----------------------------------------------------------------------------
(* Words.                                                                   *)
Words == {New(p, s) : p \in Thread \cup {0}, s \in State}

LEMMA Packed ==
  ASSUME NEW p \in Thread \cup {0}, NEW s \in State
  PROVE  New(p, s) \in Words /\ Ptr(New(p, s)) = p /\ StateOf(New(p, s)) = s
<1>1. p \in Nat /\ p % Align = 0
  BY ThreadAssumption, AlignAssumption
<1>2. (p + s) % Align = s
  BY <1>1, AlignAssumption DEF State, STATE_MASK
<1> QED
  BY <1>1, <1>2, AlignAssumption DEF Words, New, Ptr, StateOf, State, STATE_MASK

LEMMA Unpacked ==
  ASSUME NEW w \in Words
  PROVE  Ptr(w) \in Thread \cup {0} /\ StateOf(w) \in State /\ w = New(Ptr(w), StateOf(w))
<1>1. PICK p \in Thread \cup {0}, s \in State : w = New(p, s)
  BY DEF Words
<1> QED
  BY <1>1, Packed

LEMMA States ==
  /\ State \subseteq Nat /\ 0 \in State
  /\ \A n \in Nat : NewTruncated(n) \in State
  /\ \A s \in State : NewTruncated(s) = s
BY AlignAssumption DEF State, STATE_MASK, NewTruncated

LEMMA Nulls ==
  ASSUME NEW n \in Nat
  PROVE  /\ NullState(NewTruncated(n)) \in Words
         /\ Ptr(NullState(NewTruncated(n))) = 0
         /\ StateOf(NullState(NewTruncated(n))) = NewTruncated(n)
BY Packed, States DEF NullState

LEMMA Withs ==
  ASSUME NEW w \in Words, NEW s \in State
  PROVE  /\ WithState(w, s) \in Words
         /\ Ptr(WithState(w, s)) = Ptr(w)
         /\ StateOf(WithState(w, s)) = s
BY Packed, Unpacked DEF WithState

-----------------------------------------------------------------------------
(* Types.                                                                   *)
Calls == [f : Closures, wake : {"none", "one", "all"}, ok : ClientPCs, err : ClientPCs]

Typed ==
  /\ word \in Words
  /\ next \in [Thread -> Thread \cup {0}]
  /\ ready \in [Thread -> BOOLEAN] /\ token \in [Thread -> BOOLEAN]
  /\ pc \in [Thread -> CallPCs \cup ClientPCs]
  /\ call \in [Thread -> Calls]
  /\ cur \in [Thread -> Words]
  /\ node \in [Thread -> Thread \cup {0}] /\ rest \in [Thread -> Thread \cup {0}]
  /\ client \in {"mutex", "rwlock", "turns"}

\* A thread exchanges the word as its closure has decided.
Decided ==
  \A t \in Thread :
    /\ pc[t] = "update" => Decision(call[t], cur[t]).does = "update"
    /\ pc[t] = "wait" => Decision(call[t], cur[t]).does = "wait"

\* A thread has a list to wake exactly while it wakes.
Followed ==
  \A t \in Thread :
    /\ pc[t] = "read" => rest[t] # 0
    /\ pc[t] = "mark" => node[t] # 0
    /\ pc[t] \notin {"read", "mark", "unpark"} => rest[t] = 0

LEMMA TypedIsTypeOK == Typed => TypeOK
BY Unpacked DEF Typed, TypeOK, CondTypeOK, Calls

LEMMA Clients ==
  /\ NoCall \in Calls
  /\ LockCall \in Calls /\ LockSharedCall \in Calls
  /\ LockExclusiveCall \in Calls /\ UnlockSharedCall \in Calls
  /\ CallOf([s \in State |-> OneMore(s, Break)], "none", "shared", "idle") \in Calls
  /\ \A t \in Thread :
       /\ NextTurn(t) \in Nat
       /\ CallOf([s \in State |-> IF s = Turn(t) THEN Break ELSE Wait], "none", "idle", "turn") \in Calls
       /\ CallOf([s \in State |-> IF s = Turn(t) THEN Update(NextTurn(t)) ELSE Wait],
                 "one", "idle", "idle") \in Calls
<1> DEFINE D == [does : {"update", "wait", "break"}, state : Nat]
<1>1. Break \in D /\ Wait \in D /\ \A n \in Nat : Update(n) \in D
  BY DEF Break, Wait, Update
<1>2. ASSUME NEW f \in [State -> D], NEW wake \in {"none", "one"},
             NEW ok \in ClientPCs, NEW err \in ClientPCs
      PROVE  CallOf(f, wake, ok, err) \in Calls
  BY <1>2 DEF CallOf, Calls, Closures
<1>3. /\ "idle" \in ClientPCs /\ "shared" \in ClientPCs /\ "exclusive" \in ClientPCs
      /\ "turn" \in ClientPCs /\ "panicked" \in ClientPCs
  BY DEF ClientPCs
<1>4. \A s \in State : s \in Nat /\ s + 1 \in Nat /\ (s # 0 => s - 1 \in Nat)
  BY States
<1>5. EXCLUSIVE_LOCK \in Nat /\ LOCKED \in Nat
  BY AlignAssumption DEF EXCLUSIVE_LOCK, STATE_MASK, LOCKED
<1>6. \A s \in State : OneMore(s, Break) \in D /\ OneMore(s, Wait) \in D
  BY <1>1, <1>4 DEF OneMore
<1>7. [s \in State |-> Break] \in [State -> D]
  BY <1>1
<1>8. [s \in State |-> IF s = UNLOCKED THEN Update(LOCKED) ELSE Wait] \in [State -> D]
  BY <1>1, <1>5
<1>9. [s \in State |-> IF s = UNLOCKED THEN Update(EXCLUSIVE_LOCK) ELSE Wait] \in [State -> D]
  BY <1>1, <1>5
<1>10. [s \in State |-> IF s = UNLOCKED THEN Break ELSE Update(s - 1)] \in [State -> D]
  BY <1>1, <1>4 DEF UNLOCKED
<1>11. /\ [s \in State |-> OneMore(s, Wait)] \in [State -> D]
       /\ [s \in State |-> OneMore(s, Break)] \in [State -> D]
  BY <1>6
<1>12. ASSUME NEW t \in Thread
       PROVE  /\ NextTurn(t) \in Nat
              /\ [s \in State |-> IF s = Turn(t) THEN Break ELSE Wait] \in [State -> D]
              /\ [s \in State |-> IF s = Turn(t) THEN Update(NextTurn(t)) ELSE Wait] \in [State -> D]
  <2>1. IsFiniteSet({s \in Thread : s <= t})
    BY ThreadAssumption, FS_Subset
  <2>2. NextTurn(t) \in Nat
    BY <2>1, FS_CardinalityType DEF Turn, NextTurn
  <2> QED
    BY <2>2, <1>1
<1> HIDE DEF D
<1> QED
  BY <1>2, <1>3, <1>7, <1>8, <1>9, <1>10, <1>11, <1>12
     DEF NoCall, LockCall, LockSharedCall, LockExclusiveCall, UnlockSharedCall

TInv == Typed /\ Decided /\ Followed

LEMMA LeaveTyped ==
  ASSUME TInv, NEW t \in Thread, NEW where \in ClientPCs, Leave(t, where)
  PROVE  /\ pc' \in [Thread -> CallPCs \cup ClientPCs]
         /\ call' \in [Thread -> Calls] /\ cur' \in [Thread -> Words]
         /\ pc'[t] \notin CallPCs
         /\ \A s \in Thread \ {t} : pc'[s] = pc[s] /\ call'[s] = call[s] /\ cur'[s] = cur[s]
<1>1. 0 \in Words
  <2>1. New(0, 0) \in Words
    BY States, Packed
  <2> QED
    BY <2>1 DEF New
<1>2. where \notin CallPCs
  BY DEF ClientPCs, CallPCs
<1> QED
  BY <1>1, <1>2, Clients DEF TInv, Typed, Leave, Goto

LEMMA AskTyped ==
  ASSUME TInv, NEW t \in Thread, NEW c \in Calls, Ask(t, c, word), UNCHANGED client,
         pc[t] \notin {"read", "mark", "unpark"}
  PROVE  TInv'
<1>0. rest[t] = 0
  BY DEF TInv, Followed
<1>1. word \in Words /\ StateOf(word) \in State
  BY Unpacked DEF TInv, Typed
<1>2. Decision(c, word).does \in {"update", "wait", "break"}
  BY <1>1 DEF Decision, Calls, Closures
<1>3. CASE Decision(c, word).does = "break"
  <2>1. c.err \in ClientPCs /\ Leave(t, c.err)
    BY <1>3 DEF Ask, Calls
  <2>2. Typed'
    BY <2>1, LeaveTyped DEF TInv, Typed, Ask, waiters, waking
  <2>3. Decided'
    BY <2>1, LeaveTyped DEF TInv, Decided, Decision, CallPCs
  <2>4. Followed'
    BY <1>0, <2>1, LeaveTyped DEF TInv, Followed, CallPCs, Ask, waking
  <2> QED
    BY <2>2, <2>3, <2>4 DEF TInv
<1>4. CASE Decision(c, word).does # "break"
  <2>1. /\ pc' = [pc EXCEPT ![t] = Decision(c, word).does]
        /\ call' = [call EXCEPT ![t] = c] /\ cur' = [cur EXCEPT ![t] = word]
        /\ UNCHANGED <<word, next, ready, token, node, rest>>
    BY <1>4 DEF Ask, Goto, waiters, waking
  <2>2. Decision(c, word).does \in CallPCs
    BY <1>2, <1>4 DEF CallPCs
  <2>3. Typed'
    BY <1>1, <2>1, <2>2 DEF TInv, Typed
  <2>4. Decided'
    BY <2>1, <2>2 DEF TInv, Typed, Decided, Decision
  <2>5. Followed'
    BY <1>0, <1>2, <2>1 DEF TInv, Typed, Followed
  <2> QED
    BY <2>3, <2>4, <2>5 DEF TInv
<1> QED
  BY <1>3, <1>4

LEMMA OptimisticTyped ==
  ASSUME TInv, NEW t \in Thread, NEW old \in Nat, NEW new \in Nat, NEW ok \in ClientPCs,
         OptimisticUpdate(t, old, new, ok), UNCHANGED client, pc[t] = "idle"
  PROVE  TInv'
<1>1. ok \notin CallPCs
  BY DEF ClientPCs, CallPCs
<1>2. Typed'
  BY Nulls DEF TInv, Typed, OptimisticUpdate, Goto, waiters, waking
<1>3. Decided'
  BY <1>1 DEF TInv, Typed, Decided, Decision, OptimisticUpdate, Goto, CallPCs
<1>4. Followed'
  BY <1>1 DEF TInv, Typed, Followed, OptimisticUpdate, Goto, CallPCs, waking
<1> QED
  BY <1>2, <1>3, <1>4 DEF TInv

LEMMA OptimisticElseTyped ==
  ASSUME TInv, NEW t \in Thread, NEW old \in Nat, NEW new \in Nat, NEW c \in Calls,
         OptimisticElse(t, old, new, c), UNCHANGED client, pc[t] = "idle"
  PROVE  TInv'
<1>1. CASE OptimisticUpdate(t, old, new, c.ok)
  BY <1>1, OptimisticTyped DEF Calls
<1>2. CASE ~OptimisticUpdate(t, old, new, c.ok)
  <2>1. /\ pc' = [pc EXCEPT ![t] = "load"] /\ call' = [call EXCEPT ![t] = c]
        /\ UNCHANGED <<word, next, ready, token, cur, node, rest>>
    BY <1>2 DEF OptimisticElse, Goto, waiters, waking
  <2>2. Typed'
    BY <2>1 DEF TInv, Typed, CallPCs
  <2>3. Decided'
    BY <2>1 DEF TInv, Typed, Decided, Decision
  <2>4. Followed'
    BY <2>1 DEF TInv, Typed, Followed
  <2> QED
    BY <2>2, <2>3, <2>4 DEF TInv
<1> QED
  BY <1>1, <1>2

LEMMA SetTyped ==
  ASSUME TInv, NEW t \in Thread, NEW state \in Nat, NEW ok \in ClientPCs,
         Set(t, state, ok), UNCHANGED client, pc[t] \notin CallPCs
  PROVE  TInv'
<1>1. ok \notin CallPCs /\ "read" \in CallPCs
  BY DEF ClientPCs, CallPCs
<1>2. word' \in Words
  BY Nulls DEF Set
<1>3. [NoCall EXCEPT !.ok = ok] \in Calls
  BY Clients DEF Calls
<1>4. Ptr(word) \in Thread \cup {0}
  BY Unpacked DEF TInv, Typed
<1>5. Typed'
  BY <1>1, <1>2, <1>3, <1>4 DEF TInv, Typed, Set, Goto, waiters
<1>6. Decided'
  <2> SUFFICES ASSUME NEW s \in Thread
               PROVE  /\ pc'[s] = "update" => Decision(call'[s], cur'[s]).does = "update"
                      /\ pc'[s] = "wait" => Decision(call'[s], cur'[s]).does = "wait"
    BY DEF Decided, Decision
  <2>1. pc' \in [Thread -> CallPCs \cup ClientPCs] /\ pc'[t] \notin {"update", "wait"}
    BY <1>1, <1>5 DEF TInv, Typed, Set, Goto, CallPCs, ClientPCs
  <2>2. s # t => pc'[s] = pc[s] /\ call'[s] = call[s] /\ cur'[s] = cur[s]
    BY DEF TInv, Typed, Set, Goto
  <2> QED
    BY <2>1, <2>2 DEF TInv, Decided
<1>7. Followed'
  BY <1>1, <1>4 DEF TInv, Typed, Followed, Set, Goto, CallPCs, waking
<1> QED
  BY <1>5, <1>6, <1>7 DEF TInv

LEMMA CallTyped ==
  ASSUME TInv, NEW t \in Thread, Call(t) \/ Continue(t)
  PROVE  TInv'
<1>1. /\ LOCKED \in Nat /\ UNLOCKED \in Nat /\ EXCLUSIVE_LOCK \in Nat /\ 1 \in Nat
      /\ "idle" \in ClientPCs /\ "exclusive" \in ClientPCs
  BY AlignAssumption DEF LOCKED, UNLOCKED, EXCLUSIVE_LOCK, STATE_MASK, ClientPCs
<1>2. CASE TryLock(t)
  BY <1>1, <1>2, OptimisticTyped DEF TryLock, At
<1>3. CASE Lock(t)
  BY <1>1, <1>3, OptimisticElseTyped, Clients DEF Lock, At
<1>4. CASE TryLockExclusive(t)
  BY <1>1, <1>4, OptimisticTyped DEF TryLockExclusive, At
<1>5. CASE TryLockShared(t)
  BY <1>5, AskTyped, Clients DEF TryLockShared, Begin, At
<1>6. CASE LockShared(t)
  BY <1>1, <1>6, OptimisticElseTyped, Clients DEF LockShared, At
<1>7. CASE LockExclusive(t)
  BY <1>1, <1>7, OptimisticElseTyped, Clients DEF LockExclusive, At
<1>8. CASE Unlock(t)
  BY <1>1, <1>8, SetTyped DEF Unlock, At, CallPCs
<1>9. CASE UnlockShared(t)
  BY <1>9, AskTyped, Clients DEF UnlockShared, Begin, At
<1>10. CASE UnlockExclusive(t)
  BY <1>1, <1>10, SetTyped DEF UnlockExclusive, At, CallPCs
<1>11. CASE WaitTurn(t)
  BY <1>11, AskTyped, Clients DEF WaitTurn, Begin, At
<1>12. CASE SetTurn(t)
  BY <1>1, <1>12, SetTyped, Clients DEF SetTurn, At, CallPCs
<1>13. CASE TakeTurn(t)
  BY <1>13, AskTyped, Clients DEF TakeTurn, Begin, At
<1> QED
  BY <1>2, <1>3, <1>4, <1>5, <1>6, <1>7, <1>8, <1>9, <1>10, <1>11, <1>12, <1>13
     DEF Call, Continue

-----------------------------------------------------------------------------
LEMMA UpdateTyped ==
  ASSUME TInv, NEW t \in Thread, UpdateOk(t), UNCHANGED client
  PROVE  /\ TInv'
         /\ StateOf(word') = NewTruncated(Decision(call[t], word).state)
         /\ Ptr(word') = IF call[t].wake = "none" THEN Ptr(word) ELSE 0
         /\ IF call[t].wake = "none" \/ Ptr(word) = 0
            THEN Leave(t, call[t].ok) /\ UNCHANGED <<node, rest>>
            ELSE /\ pc' = [pc EXCEPT ![t] = "read"]
                 /\ rest' = [rest EXCEPT ![t] = Ptr(word)]
                 /\ UNCHANGED <<call, node>>
<1> DEFINE state == Decision(call[t], word).state
<1>1. word \in Words /\ StateOf(word) \in State /\ word = cur[t] /\ call[t] \in Calls
  BY Unpacked DEF TInv, Typed, UpdateOk
<1>2. state \in Nat
  BY <1>1 DEF Decision, Calls, Closures
<1>3. word' = IF call[t].wake = "none" THEN WithState(word, NewTruncated(state))
                                       ELSE NullState(NewTruncated(state))
  BY <1>1 DEF UpdateOk, Replacement
<1>4. /\ word' \in Words /\ StateOf(word') = NewTruncated(state)
      /\ Ptr(word') = IF call[t].wake = "none" THEN Ptr(word) ELSE 0
  BY <1>1, <1>2, <1>3, Withs, Nulls, States
<1>5. Ptr(NullState(0)) = 0 /\ Ptr(word) \in Thread \cup {0}
  BY <1>1, Packed, Unpacked, States DEF NullState
<1>6. IF call[t].wake = "none" \/ Ptr(word) = 0
      THEN Leave(t, call[t].ok) /\ UNCHANGED <<node, rest>>
      ELSE /\ pc' = [pc EXCEPT ![t] = "read"]
           /\ rest' = [rest EXCEPT ![t] = Ptr(word)]
           /\ UNCHANGED <<call, node>>
           /\ cur' = [cur EXCEPT ![t] = 0]
  BY <1>1, <1>5 DEF UpdateOk, WakeAll, Goto, waking
<1>7. TInv'
  <2>1. CASE call[t].wake = "none" \/ Ptr(word) = 0
    <3>1. call[t].ok \in ClientPCs /\ Leave(t, call[t].ok)
      BY <1>1, <1>6, <2>1 DEF Calls
    <3>2. Typed'
      BY <1>4, <1>6, <2>1, <3>1, LeaveTyped DEF TInv, Typed, UpdateOk, waiters
    <3>3. Decided'
      BY <3>1, LeaveTyped DEF TInv, Decided, Decision, CallPCs
    <3>4. Followed'
      BY <1>6, <2>1, <3>1, LeaveTyped DEF TInv, Followed, CallPCs, UpdateOk
    <3> QED
      BY <3>2, <3>3, <3>4 DEF TInv
  <2>2. CASE ~(call[t].wake = "none" \/ Ptr(word) = 0)
    <3>1. 0 \in Words
      <4>1. New(0, 0) \in Words
        BY States, Packed
      <4> QED
        BY <4>1 DEF New
    <3>2. Typed'
      BY <1>4, <1>5, <1>6, <2>2, <3>1 DEF TInv, Typed, UpdateOk, waiters, CallPCs
    <3>3. Decided'
      BY <1>6, <2>2 DEF TInv, Typed, Decided, Decision
    <3>4. Followed'
      BY <1>6, <2>2 DEF TInv, Typed, Followed
    <3> QED
      BY <3>2, <3>3, <3>4 DEF TInv
  <2> QED
    BY <2>1, <2>2
<1> QED
  BY <1>4, <1>6, <1>7

LEMMA CallStepTyped ==
  ASSUME TInv, NEW t \in Thread, CallStep(t) \/ SpuriousWake(t), UNCHANGED client
  PROVE  TInv'
<1> USE DEF TInv
<1>0. 0 \in Words
  <2>1. New(0, 0) \in Words
    BY States, Packed
  <2> QED
    BY <2>1 DEF New
<1>1. CASE UpdateOk(t)
  BY <1>1, UpdateTyped
<1>2. CASE UpdateErr(t) \/ BackOff(t) \/ Load(t)
  BY <1>2, AskTyped DEF UpdateErr, BackOff, Load, Typed
<1>3. CASE Enqueue(t)
  <2>1. Ptr(cur[t]) \in Thread \cup {0} /\ New(t, StateOf(cur[t])) \in Words
    BY Unpacked, Packed DEF Typed
  <2> QED
    BY <1>0, <1>3, <2>1 DEF Enqueue, Typed, Followed, Decided, Decision, Goto, CallPCs, waking
<1>4. CASE Check(t)
  <2>1. PICK where \in {"load", "park"} : pc' = [pc EXCEPT ![t] = where]
    BY <1>4 DEF Check, Goto
  <2>2. /\ pc[t] = "check" /\ UNCHANGED <<word, token, call, cur, node, rest>>
        /\ ready' = ready \/ ready' = [ready EXCEPT ![t] = FALSE]
        /\ next' = next \/ next' = [next EXCEPT ![t] = 0]
    BY <1>4 DEF Check, waking
  <2>3. \A s \in Thread : pc'[s] = IF s = t THEN where ELSE pc[s]
    BY <2>1 DEF Typed
  <2>4. Typed'
    <3>1. pc' \in [Thread -> CallPCs \cup ClientPCs]
      BY <2>1 DEF Typed, CallPCs
    <3>2. ready' \in [Thread -> BOOLEAN] /\ next' \in [Thread -> Thread \cup {0}]
      BY <2>2 DEF Typed
    <3> QED
      BY <2>2, <3>1, <3>2 DEF Typed
  <2>5. Decided'
    BY <2>2, <2>3 DEF Decided, Decision
  <2>6. Followed'
    BY <2>2, <2>3 DEF Followed
  <2> QED
    BY <2>4, <2>5, <2>6
<1>5. CASE Park(t) \/ SpuriousWake(t)
  <2>1. /\ pc' = [pc EXCEPT ![t] = "check"] /\ UNCHANGED <<word, next, ready, call, cur, node, rest>>
        /\ token' = token \/ token' = [token EXCEPT ![t] = FALSE]
        /\ pc[t] = "park"
    BY <1>5 DEF Park, SpuriousWake, Goto, waking, waiters
  <2>2. Typed'
    BY <2>1 DEF Typed, CallPCs
  <2>3. Decided' /\ Followed'
    BY <2>1 DEF Typed, Decided, Decision, Followed
  <2> QED
    BY <2>2, <2>3
<1>6. CASE Read(t)
  <2>1. rest[t] \in Thread /\ next[rest[t]] \in Thread \cup {0}
    BY <1>6 DEF Typed, Followed, Read
  <2> QED
    BY <1>6, <2>1 DEF Read, Typed, Followed, Decided, Decision, Goto, CallPCs, waiters
<1>7. CASE Mark(t)
  BY <1>7 DEF Mark, Typed, Followed, Decided, Decision, Goto, CallPCs, waking
<1>8. CASE Unpark(t)
  <2>1. CASE rest[t] = 0
    <3>1. call[t].ok \in ClientPCs /\ Leave(t, call[t].ok)
      BY <1>8, <2>1 DEF Unpark, Typed, Calls
    <3>2. Typed'
      BY <1>8, <3>1, LeaveTyped DEF Typed, Unpark
    <3>3. Decided'
      BY <3>1, LeaveTyped DEF Decided, Decision, CallPCs
    <3>4. Followed'
      BY <1>8, <2>1, <3>1, LeaveTyped DEF Followed, Typed, CallPCs, Unpark
    <3> QED
      BY <3>2, <3>3, <3>4
  <2>2. CASE rest[t] # 0
    <3>1. /\ pc' = [pc EXCEPT ![t] = "read"] /\ token' = [token EXCEPT ![node[t]] = TRUE]
          /\ node' = [node EXCEPT ![t] = 0] /\ UNCHANGED <<word, next, ready, call, cur, rest>>
      BY <1>8, <2>2 DEF Unpark, Goto
    <3>2. Typed'
      BY <3>1 DEF Typed, CallPCs
    <3>3. Decided' /\ Followed'
      BY <2>2, <3>1 DEF Typed, Decided, Decision, Followed
    <3> QED
      BY <3>2, <3>3
  <2> QED
    BY <2>1, <2>2
<1> QED
  BY <1>1, <1>2, <1>3, <1>4, <1>5, <1>6, <1>7, <1>8
     DEF CallStep, UpdateStep, WaitStep, WakeStep

-----------------------------------------------------------------------------
(* Lists.                                                                   *)
Links == [Thread -> Thread \cup {0}]

Closed(nx, nodes, n) == n \in nodes \cup {0} /\ \A m \in nodes : nx[m] \in nodes \cup {0}

\* Chain(n) of the links nx.
From(nx, n) == {m \in Thread : \A nodes \in SUBSET Thread : Closed(nx, nodes, n) => m \in nodes}

LEMMA ChainIsFrom == \A n : Chain(n) = From(next, n)
BY DEF Chain, From, Follows, Closed

LEMMA FromLeast ==
  ASSUME NEW nx, NEW n, NEW nodes \in SUBSET Thread, Closed(nx, nodes, n)
  PROVE  From(nx, n) \subseteq nodes
BY DEF From

LEMMA FromClosed ==
  ASSUME NEW nx \in Links, NEW n \in Thread \cup {0}
  PROVE  From(nx, n) \in SUBSET Thread /\ Closed(nx, From(nx, n), n)
<1>1. ASSUME NEW m \in From(nx, n), nx[m] # 0 PROVE nx[m] \in From(nx, n)
  BY <1>1 DEF From, Closed, Links
<1>2. n # 0 => n \in From(nx, n)
  BY DEF From, Closed
<1> QED
  BY <1>1, <1>2 DEF From, Closed

LEMMA FromNull == \A nx : From(nx, 0) = {}
<1> TAKE nx
<1>1. Closed(nx, {}, 0)
  BY DEF Closed
<1> QED
  BY <1>1, FromLeast

\* A list is its first node and the list from the next one on.
LEMMA FromNext ==
  ASSUME NEW nx \in Links, NEW n \in Thread
  PROVE  From(nx, n) = {n} \cup From(nx, nx[n])
<1>1. nx[n] \in Thread \cup {0}
  BY DEF Links
<1>2. Closed(nx, {n} \cup From(nx, nx[n]), n)
  BY <1>1, FromClosed DEF Closed
<1>3. From(nx, n) \subseteq {n} \cup From(nx, nx[n])
  BY <1>1, <1>2, FromLeast, FromClosed
<1>4. n \in From(nx, n) /\ Closed(nx, From(nx, n), nx[n])
  BY FromClosed, ThreadAssumption DEF Closed
<1>5. From(nx, nx[n]) \subseteq From(nx, n)
  BY <1>4, FromLeast, FromClosed
<1> QED
  BY <1>3, <1>4, <1>5

LEMMA FromInside ==
  ASSUME NEW nx \in Links, NEW n \in Thread \cup {0}, NEW m \in From(nx, n)
  PROVE  From(nx, m) \subseteq From(nx, n) /\ From(nx, nx[m]) \subseteq From(nx, n)
<1>1. From(nx, n) \in SUBSET Thread /\ Closed(nx, From(nx, n), n)
  BY FromClosed
<1>2. Closed(nx, From(nx, n), m) /\ Closed(nx, From(nx, n), nx[m])
  BY <1>1 DEF Closed
<1> QED
  BY <1>1, <1>2, FromLeast

\* A list does not depend on the links of other nodes.
LEMMA FromFrame ==
  ASSUME NEW nx \in Links, NEW ny \in Links, NEW n \in Thread \cup {0},
         \A m \in From(nx, n) : ny[m] = nx[m]
  PROVE  From(ny, n) = From(nx, n)
<1>1. /\ From(nx, n) \in SUBSET Thread /\ Closed(nx, From(nx, n), n)
      /\ From(ny, n) \in SUBSET Thread /\ Closed(ny, From(ny, n), n)
  BY FromClosed
<1>2. Closed(ny, From(nx, n), n)
  BY <1>1 DEF Closed
<1>3. From(ny, n) \subseteq From(nx, n)
  BY <1>1, <1>2, FromLeast
<1>4. Closed(nx, From(ny, n), n)
  BY <1>1, <1>3 DEF Closed
<1> QED
  BY <1>1, <1>3, <1>4, FromLeast

-----------------------------------------------------------------------------
(* What a step does to the lists.                                           *)
Busy == {"check", "park", "read", "mark", "unpark"}

\* t neither waits nor wakes, before and after, and leaves the lists alone.
Quiet(t) ==
  /\ pc[t] \notin Busy /\ pc'[t] \notin Busy
  /\ \A s \in Thread \ {t} : pc'[s] = pc[s]
  /\ Ptr(word') = Ptr(word)
  /\ UNCHANGED <<next, ready, token, node, rest>>

\* t takes the list off the word.
Take(t) ==
  /\ pc[t] \notin Busy /\ pc' = [pc EXCEPT ![t] = "read"]
  /\ Ptr(word) # 0 /\ Ptr(word') = 0
  /\ rest' = [rest EXCEPT ![t] = Ptr(word)]
  /\ UNCHANGED <<next, ready, token, node>>

ListStep(t) ==
  \/ Quiet(t) \/ Take(t) \/ Enqueue(t) \/ Check(t) \/ Park(t) \/ SpuriousWake(t)
  \/ Read(t) \/ Mark(t) \/ Unpark(t)

LEMMA AskIsQuiet ==
  ASSUME TInv, NEW t \in Thread, NEW c \in Calls, Ask(t, c, word), pc[t] \notin Busy
  PROVE  Quiet(t)
<1>1. word \in Words /\ StateOf(word) \in State
  BY Unpacked DEF TInv, Typed
<1>2. Decision(c, word).does \in {"update", "wait", "break"} /\ c.err \in ClientPCs
  BY <1>1 DEF Decision, Calls, Closures
<1> QED
  BY <1>2 DEF TInv, Typed, Ask, Leave, Goto, Quiet, Busy, waiters, waking, ClientPCs

LEMMA OptimisticIsQuiet ==
  ASSUME TInv, NEW t \in Thread, NEW old \in Nat, NEW new \in Nat, NEW ok \in ClientPCs,
         OptimisticUpdate(t, old, new, ok), pc[t] = "idle"
  PROVE  Quiet(t)
BY Nulls DEF TInv, Typed, OptimisticUpdate, Goto, Quiet, Busy, waiters, waking, ClientPCs

LEMMA OptimisticElseIsQuiet ==
  ASSUME TInv, NEW t \in Thread, NEW old \in Nat, NEW new \in Nat, NEW c \in Calls,
         OptimisticElse(t, old, new, c), pc[t] = "idle"
  PROVE  Quiet(t)
<1>1. CASE OptimisticUpdate(t, old, new, c.ok)
  BY <1>1, OptimisticIsQuiet DEF Calls
<1>2. CASE ~OptimisticUpdate(t, old, new, c.ok)
  BY <1>2 DEF TInv, Typed, OptimisticElse, Goto, Quiet, Busy, waiters, waking
<1> QED
  BY <1>1, <1>2

LEMMA SetTakes ==
  ASSUME TInv, NEW t \in Thread, NEW state \in Nat, NEW ok \in ClientPCs,
         Set(t, state, ok), pc[t] \notin CallPCs
  PROVE  Quiet(t) \/ Take(t)
<1>1. Ptr(word') = 0
  BY Nulls DEF Set
<1>2. pc[t] \notin Busy /\ ok \notin Busy
  BY DEF Busy, CallPCs, ClientPCs
<1>3. CASE Ptr(word) = 0
  BY <1>1, <1>2, <1>3 DEF TInv, Typed, Set, Goto, Quiet, waiters
<1>4. CASE Ptr(word) # 0
  BY <1>1, <1>2, <1>4 DEF Set, Goto, Take, waiters
<1> QED
  BY <1>3, <1>4

LEMMA CallsListStep ==
  ASSUME TInv, NEW t \in Thread, Call(t) \/ Continue(t)
  PROVE  Quiet(t) \/ Take(t)
<1>1. /\ LOCKED \in Nat /\ UNLOCKED \in Nat /\ EXCLUSIVE_LOCK \in Nat /\ 1 \in Nat
      /\ "idle" \in ClientPCs /\ "exclusive" \in ClientPCs
      /\ "idle" \notin Busy \cup CallPCs /\ "shared" \notin Busy
      /\ "exclusive" \notin CallPCs /\ "turn" \notin CallPCs
  BY AlignAssumption DEF LOCKED, UNLOCKED, EXCLUSIVE_LOCK, STATE_MASK, ClientPCs, Busy, CallPCs
<1>2. CASE TryLock(t)
  BY <1>1, <1>2, OptimisticIsQuiet DEF TryLock, At
<1>3. CASE Lock(t)
  BY <1>1, <1>3, OptimisticElseIsQuiet, Clients DEF Lock, At
<1>4. CASE TryLockExclusive(t)
  BY <1>1, <1>4, OptimisticIsQuiet DEF TryLockExclusive, At
<1>5. CASE TryLockShared(t)
  BY <1>1, <1>5, AskIsQuiet, Clients DEF TryLockShared, Begin, At
<1>6. CASE LockShared(t)
  BY <1>1, <1>6, OptimisticElseIsQuiet, Clients DEF LockShared, At
<1>7. CASE LockExclusive(t)
  BY <1>1, <1>7, OptimisticElseIsQuiet, Clients DEF LockExclusive, At
<1>8. CASE Unlock(t)
  BY <1>1, <1>8, SetTakes DEF Unlock, At
<1>9. CASE UnlockShared(t)
  BY <1>1, <1>9, AskIsQuiet, Clients DEF UnlockShared, Begin, At
<1>10. CASE UnlockExclusive(t)
  BY <1>1, <1>10, SetTakes DEF UnlockExclusive, At
<1>11. CASE WaitTurn(t)
  BY <1>1, <1>11, AskIsQuiet, Clients DEF WaitTurn, Begin, At
<1>12. CASE SetTurn(t)
  BY <1>1, <1>12, SetTakes, Clients DEF SetTurn, At
<1>13. CASE TakeTurn(t)
  BY <1>1, <1>13, AskIsQuiet, Clients DEF TakeTurn, Begin, At
<1> QED
  BY <1>2, <1>3, <1>4, <1>5, <1>6, <1>7, <1>8, <1>9, <1>10, <1>11, <1>12, <1>13
     DEF Call, Continue

LEMMA CallStepsListStep ==
  ASSUME TInv, NEW t \in Thread, CallStep(t) \/ SpuriousWake(t), UNCHANGED client
  PROVE  ListStep(t)
<1>1. CASE UpdateOk(t)
  <2>1. pc[t] = "update" /\ "update" \notin Busy /\ call[t].ok \in ClientPCs
    BY <1>1 DEF UpdateOk, TInv, Typed, Calls, Busy
  <2>2. UNCHANGED <<next, ready, token>>
    BY <1>1 DEF UpdateOk, waiters
  <2>3. CASE call[t].wake = "none" \/ Ptr(word) = 0
    BY <1>1, <2>1, <2>2, <2>3, UpdateTyped, LeaveTyped
       DEF ListStep, Quiet, Leave, Goto, TInv, Typed, ClientPCs, Busy
  <2>4. CASE ~(call[t].wake = "none" \/ Ptr(word) = 0)
    BY <1>1, <2>1, <2>2, <2>4, UpdateTyped DEF ListStep, Take
  <2> QED
    BY <2>3, <2>4
<1>2. CASE UpdateErr(t) \/ BackOff(t) \/ Load(t)
  BY <1>2, AskIsQuiet DEF UpdateErr, BackOff, Load, TInv, Typed, ListStep, Busy
<1> QED
  BY <1>1, <1>2 DEF CallStep, UpdateStep, WaitStep, WakeStep, ListStep

-----------------------------------------------------------------------------
(* Where the waiting threads are.                                           *)
Waiting == {t \in Parked : ~ready[t]}
Queue == From(next, Ptr(word))
Taken == [t \in Thread |-> From(next, rest[t]) \cup (IF pc[t] = "mark" THEN {node[t]} ELSE {})]

\* W lies in Q and the lists L, each thread in one of them.
Spread(W, Q, L) ==
  /\ W = Q \cup UNION {L[t] : t \in Thread}
  /\ \A t \in Thread : L[t] \cap Q = {}
  /\ \A s, t \in Thread : s # t => L[s] \cap L[t] = {}

\* No list has a cycle, and a waker goes on where the node that it is at
\* points to: to links that last as long as the node waits.
Straight ==
  /\ \A m \in Waiting : m \notin From(next, next[m])
  /\ \A t \in Thread : pc[t] = "mark" => next[node[t]] = rest[t]

ListInv ==
  /\ \A t \in Thread : ready[t] => t \in Parked
  /\ Spread(Waiting, Queue, Taken)
  /\ Straight

LEMMA SpreadIsOneList == Spread(Waiting, Queue, Taken) => WaitersInOneList
<1>1. \A t \in Thread : ListOf(t) = Taken[t]
  BY ChainIsFrom DEF ListOf, Taken
<1>2. Queue = Chain(Ptr(word))
  BY ChainIsFrom DEF Queue
<1> QED
  BY <1>1, <1>2 DEF Spread, WaitersInOneList, Waiting

LEMMA ListSets ==
  ASSUME TInv, ListInv
  PROVE  /\ next \in Links /\ Ptr(word) \in Thread \cup {0} /\ rest \in [Thread -> Thread \cup {0}]
         /\ Waiting \subseteq Thread /\ Queue \subseteq Waiting
         /\ \A t \in Thread : Taken[t] \subseteq Waiting /\ From(next, rest[t]) \subseteq Taken[t]
         /\ \A m \in Waiting : From(next, next[m]) \subseteq Waiting
<1>1. next \in Links /\ Ptr(word) \in Thread \cup {0} /\ rest \in [Thread -> Thread \cup {0}]
  BY Unpacked DEF TInv, Typed, Links
<1>2. /\ Waiting \subseteq Thread /\ Queue \subseteq Waiting
      /\ \A t \in Thread : Taken[t] \subseteq Waiting
  BY DEF ListInv, Spread, Waiting, Parked
<1>3. \A t \in Thread : From(next, rest[t]) \subseteq Taken[t]
  BY DEF Taken
<1>4. ASSUME NEW m \in Waiting PROVE From(next, next[m]) \subseteq Waiting
  <2>1. CASE m \in Queue
    BY <1>1, <1>2, <2>1, FromInside DEF Queue
  <2>2. CASE m \notin Queue
    <3>1. PICK t \in Thread : m \in Taken[t]
      BY <2>2 DEF ListInv, Spread
    <3>2. CASE m \in From(next, rest[t])
      <4>1. From(next, next[m]) \subseteq From(next, rest[t])
        BY <1>1, <3>2, FromInside
      <4> QED
        BY <1>2, <1>3, <4>1
    <3>3. CASE m \notin From(next, rest[t])
      <4>1. pc[t] = "mark" /\ m = node[t]
        BY <3>1, <3>3 DEF Taken
      <4>2. From(next, next[m]) = From(next, rest[t])
        BY <4>1 DEF ListInv, Straight
      <4> QED
        BY <1>2, <1>3, <4>2
    <3> QED
      BY <3>2, <3>3
  <2> QED
    BY <2>1, <2>2
<1> QED
  BY <1>1, <1>2, <1>3, <1>4

\* The links of a thread that does not wait may change.
LEMMA ListsFrame ==
  ASSUME TInv, ListInv, NEW t \in Thread, t \notin Waiting,
         NEW ny \in Links, \A m \in Thread \ {t} : ny[m] = next[m]
  PROVE  /\ From(ny, Ptr(word)) = Queue
         /\ \A s \in Thread : From(ny, rest[s]) = From(next, rest[s])
         /\ \A m \in Waiting : From(ny, ny[m]) = From(next, next[m])
<1>1. Queue = From(next, Ptr(word))
  BY DEF Queue
<1>2. ASSUME NEW n \in Thread \cup {0}, From(next, n) \subseteq Waiting
      PROVE  From(ny, n) = From(next, n)
  <2>1. \A m \in From(next, n) : ny[m] = next[m]
    BY <1>2, ListSets
  <2> QED
    BY <2>1, ListSets, FromFrame
<1>3. From(ny, Ptr(word)) = Queue
  BY <1>1, <1>2, ListSets
<1>4. ASSUME NEW s \in Thread PROVE From(ny, rest[s]) = From(next, rest[s])
  <2>1. rest[s] \in Thread \cup {0} /\ From(next, rest[s]) \subseteq Waiting
    BY ListSets
  <2> QED
    BY <1>2, <2>1
<1>5. ASSUME NEW m \in Waiting PROVE From(ny, ny[m]) = From(next, next[m])
  <2>1. m \in Thread \ {t} /\ From(next, next[m]) \subseteq Waiting
    BY ListSets
  <2>2. next[m] \in Thread \cup {0} /\ ny[m] = next[m]
    BY <2>1, ListSets DEF Links
  <2> QED
    BY <1>2, <2>1, <2>2
<1> QED
  BY <1>3, <1>4, <1>5

LEMMA QuietLists ==
  ASSUME TInv, ListInv, TInv', NEW t \in Thread, Quiet(t) \/ Park(t) \/ SpuriousWake(t) \/ Unpark(t)
  PROVE  ListInv'
<1>1. UNCHANGED <<next, ready, rest>> /\ Ptr(word') = Ptr(word)
  BY DEF Quiet, Park, SpuriousWake, Unpark, waking, waiters
<1>2. \A s \in Thread : /\ pc[s] \in {"check", "park"} <=> pc'[s] \in {"check", "park"}
                        /\ pc[s] = "mark" <=> pc'[s] = "mark"
                        /\ pc[s] = "mark" => node'[s] = node[s]
  <2>1. CASE Quiet(t)
    BY <2>1 DEF Quiet, Busy, TInv, Typed
  <2>2. CASE Park(t) \/ SpuriousWake(t)
    BY <2>2 DEF Park, SpuriousWake, Goto, waking, TInv, Typed
  <2>3. CASE Unpark(t)
    <3>1. call[t].ok \in ClientPCs
      BY DEF TInv, Typed, Calls
    <3>2. PICK where \in ClientPCs \cup {"read"} : pc' = [pc EXCEPT ![t] = where]
      BY <2>3, <3>1 DEF Unpark, Leave, Goto
    <3>3. where \notin {"check", "park", "mark"}
      BY <3>2 DEF ClientPCs
    <3> QED
      BY <2>3, <3>2, <3>3 DEF Unpark, TInv, Typed
  <2> QED
    BY <2>1, <2>2, <2>3
<1>3. Parked' = Parked /\ Waiting' = Waiting
  BY <1>1, <1>2 DEF Parked, Waiting
<1>4. Queue' = Queue
  BY <1>1 DEF Queue
<1>5. Taken' = Taken
  BY <1>1, <1>2 DEF Taken
<1>6. Straight'
  BY <1>1, <1>2, <1>3 DEF ListInv, Straight
<1> QED
  BY <1>1, <1>3, <1>4, <1>5, <1>6 DEF ListInv

LEMMA TakeLists ==
  ASSUME TInv, ListInv, TInv', NEW t \in Thread, Take(t)
  PROVE  ListInv'
<1>1. UNCHANGED <<next, ready, node>> /\ Ptr(word') = 0 /\ rest' = [rest EXCEPT ![t] = Ptr(word)]
  BY DEF Take
<1>2. /\ pc[t] \notin Busy /\ pc' = [pc EXCEPT ![t] = "read"]
      /\ pc \in [Thread -> CallPCs \cup ClientPCs]
  BY DEF Take, TInv, Typed
<1>3. Parked' = Parked /\ Waiting' = Waiting
  BY <1>1, <1>2 DEF Parked, Waiting, Busy
<1>4. Queue' = {}
  BY <1>1, FromNull DEF Queue
<1>5. Taken[t] = {}
  BY <1>2, FromNull DEF Taken, TInv, Followed, Busy
<1>6. Taken' = [Taken EXCEPT ![t] = Queue]
  <2>1. rest' \in [Thread -> Thread \cup {0}] /\ rest \in [Thread -> Thread \cup {0}]
    BY DEF TInv, Typed
  <2>2. From(next, rest'[t]) = Queue
    BY <1>1, <2>1 DEF Queue
  <2> QED
    BY <1>1, <1>2, <2>1, <2>2 DEF Taken
<1>7. Spread(Waiting', Queue', Taken')
  <2>1. \A s \in Thread : Taken'[s] = IF s = t THEN Queue ELSE Taken[s]
    BY <1>6 DEF Taken
  <2> QED
    BY <1>3, <1>4, <1>5, <2>1 DEF ListInv, Spread
<1>8. Straight'
  BY <1>1, <1>2, <1>3 DEF ListInv, Straight, TInv, Typed
<1> QED
  BY <1>1, <1>3, <1>7, <1>8 DEF ListInv

LEMMA EnqueueLists ==
  ASSUME TInv, ListInv, TInv', NEW t \in Thread, Enqueue(t)
  PROVE  ListInv' /\ Queue' = Queue \cup {t}
<1>1. /\ next' = [next EXCEPT ![t] = Ptr(word)] /\ pc' = [pc EXCEPT ![t] = "check"]
      /\ UNCHANGED <<ready, rest, node>> /\ pc[t] = "wait"
  BY DEF Enqueue, Goto, waking
<1>2. Ptr(word') = t
  BY Packed, Unpacked DEF Enqueue, TInv, Typed
<1>3. pc \in [Thread -> CallPCs \cup ClientPCs] /\ next' \in Links /\ next \in Links
  BY DEF TInv, Typed, Links
<1>4. t \notin Parked /\ ~ready[t] /\ t \notin Waiting
  BY <1>1 DEF ListInv, Parked, Waiting
<1>5. Parked' = Parked \cup {t} /\ Waiting' = Waiting \cup {t}
  BY <1>1, <1>3, <1>4 DEF Parked, Waiting
<1>6. /\ From(next', Ptr(word)) = Queue
      /\ \A s \in Thread : From(next', rest[s]) = From(next, rest[s])
      /\ \A m \in Waiting : From(next', next'[m]) = From(next, next[m])
  <2>1. \A m \in Thread \ {t} : next'[m] = next[m]
    BY <1>1, <1>3 DEF Links
  <2> QED
    BY <1>3, <1>4, <2>1, ListsFrame
<1>7. Queue' = Queue \cup {t}
  <2>1. next'[t] = Ptr(word)
    BY <1>1, <1>3 DEF Links
  <2> QED
    BY <1>2, <1>3, <1>6, <2>1, FromNext DEF Queue
<1>8. Taken' = Taken
  BY <1>1, <1>3, <1>6 DEF Taken
<1>9. Spread(Waiting', Queue', Taken')
  <2>1. t \notin Queue /\ \A s \in Thread : t \notin Taken[s]
    BY <1>4, ListSets
  <2> QED
    BY <1>5, <1>7, <1>8, <2>1 DEF ListInv, Spread
<1>10. Straight'
  <2>1. t \notin From(next', next'[t])
    BY <1>1, <1>3, <1>4, <1>6, ListSets DEF Links
  <2>2. ASSUME NEW s \in Thread, pc'[s] = "mark" PROVE next'[node[s]] = rest[s]
    <3>1. pc[s] = "mark" /\ node[s] \in Taken[s]
      BY <1>1, <1>3, <2>2 DEF Taken
    <3>2. node[s] # t /\ node[s] \in Thread
      BY <1>4, <3>1, ListSets
    <3> QED
      BY <1>1, <1>3, <3>1, <3>2 DEF ListInv, Straight, Links
  <2> QED
    BY <1>1, <1>5, <1>6, <2>1, <2>2 DEF ListInv, Straight
<1> QED
  BY <1>1, <1>5, <1>7, <1>9, <1>10 DEF ListInv

LEMMA CheckLists ==
  ASSUME TInv, ListInv, TInv', NEW t \in Thread, Check(t)
  PROVE  ListInv' /\ Queue' = Queue
<1>1. CASE ~ready[t]
  <2>1. UNCHANGED <<next, ready, rest, node, word>> /\ pc' = [pc EXCEPT ![t] = "park"] /\ pc[t] = "check"
    BY <1>1 DEF Check, Goto, waking
  <2>2. \A s \in Thread : /\ pc[s] \in {"check", "park"} <=> pc'[s] \in {"check", "park"}
                          /\ pc[s] = "mark" <=> pc'[s] = "mark"
    BY <2>1 DEF TInv, Typed
  <2>3. Parked' = Parked /\ Waiting' = Waiting /\ Queue' = Queue /\ Taken' = Taken
    BY <2>1, <2>2 DEF Parked, Waiting, Queue, Taken
  <2>4. Straight'
    BY <2>1, <2>2, <2>3 DEF ListInv, Straight
  <2> QED
    BY <2>1, <2>3, <2>4 DEF ListInv
<1>2. CASE ready[t]
  <2>1. /\ next' = [next EXCEPT ![t] = 0] /\ ready' = [ready EXCEPT ![t] = FALSE]
        /\ UNCHANGED <<rest, node, word>> /\ pc' = [pc EXCEPT ![t] = "load"] /\ pc[t] = "check"
    BY <1>2 DEF Check, Goto, waking
  <2>2. /\ pc \in [Thread -> CallPCs \cup ClientPCs] /\ next' \in Links /\ next \in Links
        /\ ready \in [Thread -> BOOLEAN] /\ t \notin Waiting
    BY <1>2 DEF TInv, Typed, Links, Waiting
  <2>3. Parked' = Parked \ {t} /\ Waiting' = Waiting
    BY <1>2, <2>1, <2>2 DEF Parked, Waiting
  <2>4. /\ From(next', Ptr(word)) = Queue
        /\ \A s \in Thread : From(next', rest[s]) = From(next, rest[s])
        /\ \A m \in Waiting : From(next', next'[m]) = From(next, next[m])
    <3>1. \A m \in Thread \ {t} : next'[m] = next[m]
      BY <2>1, <2>2 DEF Links
    <3> QED
      BY <2>2, <3>1, ListsFrame
  <2>5. Queue' = Queue /\ Taken' = Taken
    BY <2>1, <2>2, <2>4 DEF Queue, Taken
  <2>6. ASSUME NEW s \in Thread, pc'[s] = "mark" PROVE next'[node[s]] = rest[s]
    <3>1. pc[s] = "mark" /\ node[s] \in Taken[s]
      BY <2>1, <2>2, <2>6 DEF Taken
    <3>2. node[s] # t /\ node[s] \in Thread
      BY <2>2, <3>1, ListSets
    <3> QED
      BY <2>1, <2>2, <3>1, <3>2 DEF ListInv, Straight, Links
  <2>7. Straight'
    BY <2>1, <2>3, <2>4, <2>6 DEF ListInv, Straight
  <2>8. \A s \in Thread : ready'[s] => s \in Parked'
    BY <2>1, <2>2, <2>3 DEF ListInv
  <2> QED
    BY <2>3, <2>5, <2>7, <2>8 DEF ListInv
<1> QED
  BY <1>1, <1>2

LEMMA ReadLists ==
  ASSUME TInv, ListInv, TInv', NEW t \in Thread, Read(t)
  PROVE  ListInv'
<1>1. /\ pc[t] = "read" /\ pc' = [pc EXCEPT ![t] = "mark"]
      /\ node' = [node EXCEPT ![t] = rest[t]]
      /\ rest' = [rest EXCEPT ![t] = next[rest[t]]]
      /\ UNCHANGED <<word, next, ready>>
  BY DEF Read, Goto, waiters
<1>2. /\ pc \in [Thread -> CallPCs \cup ClientPCs] /\ next \in Links
      /\ node \in [Thread -> Thread \cup {0}] /\ rest \in [Thread -> Thread \cup {0}]
      /\ rest[t] \in Thread
  BY <1>1 DEF TInv, Typed, Links, Followed
<1>3. Parked' = Parked /\ Waiting' = Waiting /\ Queue' = Queue
  BY <1>1, <1>2 DEF Parked, Waiting, Queue
<1>4. Taken' = Taken
  <2>1. From(next, rest[t]) = {rest[t]} \cup From(next, rest'[t])
    BY <1>1, <1>2, FromNext
  <2> QED
    BY <1>1, <1>2, <2>1 DEF Taken
<1>5. Straight'
  BY <1>1, <1>2, <1>3 DEF ListInv, Straight
<1> QED
  BY <1>1, <1>3, <1>4, <1>5 DEF ListInv

LEMMA MarkLists ==
  ASSUME TInv, ListInv, TInv', NEW t \in Thread, Mark(t)
  PROVE  ListInv'
<1>1. /\ pc[t] = "mark" /\ pc' = [pc EXCEPT ![t] = "unpark"]
      /\ ready' = [ready EXCEPT ![node[t]] = TRUE]
      /\ UNCHANGED <<word, next, node, rest>>
  BY DEF Mark, Goto, waking
<1>2. /\ pc \in [Thread -> CallPCs \cup ClientPCs] /\ next \in Links
      /\ ready \in [Thread -> BOOLEAN] /\ node[t] \in Taken[t]
  BY <1>1 DEF TInv, Typed, Links, Taken
<1>3. node[t] \in Waiting /\ node[t] \in Thread
  BY <1>2, ListSets
<1>4. Parked' = Parked /\ Queue' = Queue
  BY <1>1, <1>2 DEF Parked, Queue
<1>5. Waiting' = Waiting \ {node[t]}
  BY <1>1, <1>2, <1>4 DEF Waiting, Parked
<1>6. \A s \in Thread : Taken'[s] = IF s = t THEN Taken[t] \ {node[t]} ELSE Taken[s]
  <2>1. node[t] \notin From(next, rest[t])
    BY <1>1, <1>3 DEF ListInv, Straight
  <2> QED
    BY <1>1, <1>2, <2>1 DEF Taken
<1>7. Spread(Waiting', Queue', Taken')
  BY <1>2, <1>4, <1>5, <1>6 DEF ListInv, Spread
<1>8. Straight'
  BY <1>1, <1>2, <1>5 DEF ListInv, Straight
<1>9. \A s \in Thread : ready'[s] => s \in Parked'
  BY <1>1, <1>2, <1>3, <1>4 DEF ListInv, Waiting
<1> QED
  BY <1>7, <1>8, <1>9 DEF ListInv

LEMMA NoReadyMark == ASSUME TInv, ListInv PROVE NodesAlive
<1> SUFFICES ASSUME NEW t \in Thread
             PROVE  /\ pc[t] = "read" => rest[t] \in Waiting
                    /\ pc[t] = "mark" => node[t] \in Waiting
  BY DEF NodesAlive, Waiting
<1>1. CASE pc[t] = "read"
  <2>1. rest[t] \in Thread
    BY <1>1 DEF TInv, Typed, Followed
  <2>2. rest[t] \in From(next, rest[t])
    BY <2>1, ListSets, FromNext
  <2> QED
    BY <1>1, <2>2, ListSets
<1>2. CASE pc[t] = "mark"
  <2>1. node[t] \in Taken[t]
    BY <1>2 DEF Taken
  <2> QED
    BY <1>2, <2>1, ListSets
<1> QED
  BY <1>1, <1>2

\* A thread is made ready in its sleep only by a waker that goes on to unpark
\* it, and does not go to sleep when it is ready.
LEMMA ReadyStep ==
  ASSUME TInv, ReadyIsUnparked, TInv', NEW t \in Thread, ListStep(t)
  PROVE  ReadyIsUnparked'
<1> USE DEF ReadyIsUnparked
<1>1. /\ pc \in [Thread -> CallPCs \cup ClientPCs] /\ node \in [Thread -> Thread \cup {0}]
      /\ ready \in [Thread -> BOOLEAN] /\ token \in [Thread -> BOOLEAN]
      /\ pc' \in [Thread -> CallPCs \cup ClientPCs]
  BY DEF TInv, Typed
<1>2. CASE Quiet(t)
  BY <1>1, <1>2 DEF Quiet, Busy
<1>3. CASE Take(t)
  BY <1>1, <1>3 DEF Take, Busy
<1>4. CASE Enqueue(t)
  BY <1>1, <1>4 DEF Enqueue, Goto, waking
<1>5. CASE Check(t)
  <2>1. \A s \in Thread \ {t} : pc'[s] = pc[s] /\ ready'[s] = ready[s]
    BY <1>1, <1>5 DEF Check, Goto
  <2>2. pc[t] = "check" /\ (pc'[t] = "park" => ~ready'[t]) /\ UNCHANGED <<node, token>>
    BY <1>1, <1>5 DEF Check, Goto, waking
  <2>3. \A s \in Thread : pc[s] = "unpark" => pc'[s] = "unpark"
    BY <2>1, <2>2
  <2> QED
    BY <2>1, <2>2, <2>3
<1>6. CASE Park(t)
  BY <1>1, <1>6 DEF Park, Goto, waking
<1>7. CASE SpuriousWake(t)
  BY <1>1, <1>7 DEF SpuriousWake, Goto, waking, waiters
<1>8. CASE Read(t)
  BY <1>1, <1>8 DEF Read, Goto, waiters
<1>9. CASE Mark(t)
  BY <1>1, <1>9 DEF Mark, Goto, waking
<1>10. CASE Unpark(t)
  <2>1. /\ pc[t] = "unpark" /\ token' = [token EXCEPT ![node[t]] = TRUE]
        /\ node' = [node EXCEPT ![t] = 0] /\ UNCHANGED ready
    BY <1>10 DEF Unpark
  <2>2. PICK where \in ClientPCs \cup {"read"} : pc' = [pc EXCEPT ![t] = where]
    <3>1. call[t].ok \in ClientPCs
      BY DEF TInv, Typed, Calls
    <3> QED
      BY <1>10, <3>1 DEF Unpark, Leave, Goto
  <2>3. where # "park"
    BY <2>2 DEF ClientPCs
  <2>4. pc'[t] # "park" /\ \A s \in Thread \ {t} : pc'[s] = pc[s]
    BY <1>1, <2>2, <2>3
  <2>5. \A s \in Thread : pc'[s] = "park" => pc[s] = "park" /\ s # t
    BY <2>4
  <2>6. \A s \in Thread : token[s] \/ s = node[t] => token'[s]
    BY <1>1, <2>1
  <2>7. \A s \in Thread \ {t} : node'[s] = node[s]
    BY <1>1, <2>1
  <2> QED
    BY <2>1, <2>4, <2>5, <2>6, <2>7
<1> QED
  BY <1>2, <1>3, <1>4, <1>5, <1>6, <1>7, <1>8, <1>9, <1>10 DEF ListStep

-----------------------------------------------------------------------------
WaitersInv == TInv /\ ListInv /\ ReadyIsUnparked

LEMMA InitWaiters == Init => WaitersInv
<1> SUFFICES ASSUME Init PROVE WaitersInv
  OBVIOUS
<1>1. PICK n \in Nat : word = NullState(NewTruncated(n))
  BY DEF Init, CondInit, UNLOCKED
<1>2. word \in Words /\ Ptr(word) = 0
  BY <1>1, Nulls
<1>3. 0 \in Words
  <2>1. New(0, 0) \in Words
    BY States, Packed
  <2> QED
    BY <2>1 DEF New
<1>4. TInv
  BY <1>2, <1>3, Clients DEF Init, CondInit, TInv, Typed, Decided, Followed, ClientPCs
<1>5. Waiting = {} /\ Queue = {} /\ \A t \in Thread : Taken[t] = {}
  BY <1>2, FromNull DEF Init, CondInit, Waiting, Parked, Queue, Taken
<1>6. ListInv
  BY <1>5 DEF Init, CondInit, ListInv, Spread, Straight
<1> QED
  BY <1>4, <1>6 DEF WaitersInv, ReadyIsUnparked, Init, CondInit

LEMMA NextTyped ==
  ASSUME TInv, NEW t \in Thread,
         Call(t) \/ Step(t) \/ (SpuriousWake(t) /\ UNCHANGED client)
  PROVE  TInv' /\ ListStep(t)
BY CallTyped, CallStepTyped, CallsListStep, CallStepsListStep DEF Step, ListStep

LEMMA StepWaiters == WaitersInv /\ [Next]_vars => WaitersInv'
<1> SUFFICES ASSUME WaitersInv, [Next]_vars PROVE WaitersInv'
  OBVIOUS
<1> USE DEF WaitersInv
<1>1. CASE UNCHANGED vars
  BY <1>1 DEF vars, condVars, waiters, waking, TInv, Typed, Decided, Decision, Followed, ListInv,
              Spread, Straight, Waiting, Parked, Queue, Taken, ReadyIsUnparked
<1>2. CASE Next
  <2>1. PICK t \in Thread : Call(t) \/ Step(t) \/ (SpuriousWake(t) /\ UNCHANGED client)
    BY <1>2 DEF Next
  <2>2. TInv' /\ ListStep(t)
    BY <2>1, NextTyped
  <2>3. ReadyIsUnparked'
    BY <2>2, ReadyStep
  <2>4. ListInv'
    BY <2>2, QuietLists, TakeLists, EnqueueLists, CheckLists, ReadLists, MarkLists DEF ListStep
  <2> QED
    BY <2>2, <2>3, <2>4
<1> QED
  BY <1>1, <1>2

LEMMA WaitersInvariance == Spec => []WaitersInv
BY InitWaiters, StepWaiters, PTL DEF Spec

\* The word, the nodes and what the threads know of them keep their types.
THEOREM TypeCorrect == Spec => []TypeOK
<1>1. WaitersInv => TypeOK
  BY TypedIsTypeOK DEF WaitersInv, TInv
<1> QED
  BY <1>1, WaitersInvariance, PTL

\* Every waiting thread is in one list, whoever changes the state and wakes.
THEOREM ListsCorrect == Spec => []WaitersInOneList
<1>1. WaitersInv => WaitersInOneList
  BY SpreadIsOneList DEF WaitersInv, ListInv
<1> QED
  BY <1>1, WaitersInvariance, PTL

\* No waker touches the node of a thread that may have returned.
THEOREM NodesCorrect == Spec => []NodesAlive
<1>1. WaitersInv => NodesAlive
  BY NoReadyMark DEF WaitersInv
<1> QED
  BY <1>1, WaitersInvariance, PTL

\* No thread that has been made ready sleeps without a token to come.
THEOREM ReadyCorrect == Spec => []ReadyIsUnparked
<1>1. WaitersInv => ReadyIsUnparked
  BY DEF WaitersInv
<1> QED
  BY <1>1, WaitersInvariance, PTL

-----------------------------------------------------------------------------
(* The locks.                                                               *)
TryLockSharedCall == CallOf([s \in State |-> OneMore(s, Break)], "none", "shared", "idle")

WakePCs == {"read", "mark", "unpark"}
WaitPCs == {"load", "wait", "check", "park"}

\* Which call of its client a thread can be in.
MutexCall(t) ==
  /\ pc[t] \in {"idle", "exclusive", "update"} \cup WaitPCs \cup WakePCs
  /\ pc[t] \in {"update"} \cup WaitPCs => call[t] = LockCall
RwLockCall(t) ==
  /\ pc[t] \in {"idle", "shared", "exclusive", "update"} \cup WaitPCs \cup WakePCs
  /\ pc[t] \in WaitPCs => call[t] \in {LockSharedCall, LockExclusiveCall}
  /\ pc[t] = "update" =>
       call[t] \in {LockSharedCall, LockExclusiveCall, TryLockSharedCall, UnlockSharedCall}
TurnsCalls ==
  {c \in Calls : /\ c.ok = "idle" /\ c.err \in {"idle", "turn"}
                 /\ c.wake = "none" => \A s \in State : c.f[s].does # "update"}
TurnsCall(t) == pc[t] \notin {"shared", "exclusive"} /\ call[t] \in TurnsCalls

CallFits(t) ==
  /\ client = "mutex" => MutexCall(t)
  /\ client = "rwlock" => RwLockCall(t)
  /\ client = "turns" => TurnsCall(t)
  /\ client # "turns" /\ pc[t] \notin {"update"} \cup WaitPCs => call[t] = NoCall
CallsFit == \A t \in Thread : CallFits(t)

ExclusiveState == IF client = "mutex" THEN LOCKED ELSE EXCLUSIVE_LOCK

Sharers == {t \in Thread : held[t] = "shared"}

\* The state is what the holders make it, and only readers hold the lock
\* together.
HoldersFit ==
  client # "turns" =>
    \/ /\ \A t \in Thread : held[t] # "exclusive"
       /\ StateOf(word) = Cardinality(Sharers) /\ Cardinality(Sharers) <= MAX_SHARED
    \/ /\ StateOf(word) = ExclusiveState
       /\ \E t \in Thread : /\ held[t] = "exclusive"
                            /\ \A s \in Thread \ {t} : held[s] = "none"

HeldBy(p, c) ==
  IF p = "exclusive" THEN "exclusive" ELSE IF p = "shared" \/ c = UnlockSharedCall THEN "shared" ELSE "none"

LEMMA HeldFields ==
  /\ held \in [Thread -> {"none", "shared", "exclusive"}]
  /\ \A t \in Thread : held[t] = HeldBy(pc[t], call[t])
  /\ held' \in [Thread -> {"none", "shared", "exclusive"}]
  /\ \A t \in Thread : held'[t] = HeldBy(pc'[t], call'[t])
BY DEF held, Holds, HeldBy

\* Only t moves, and does with the lock what the lock's contract allows.
Elsewhere(t) == \A s \in Thread \ {t} : pc'[s] = pc[s] /\ call'[s] = call[s]

Keeps(t) == held'[t] = held[t] /\ (client # "turns" => StateOf(word') = StateOf(word))
GainsShared(t) ==
  /\ client = "rwlock" /\ held[t] = "none" /\ held'[t] = "shared"
  /\ StateOf(word) \notin {EXCLUSIVE_LOCK, MAX_SHARED} /\ StateOf(word') = StateOf(word) + 1
GainsExclusive(t) ==
  /\ client # "turns" /\ held'[t] = "exclusive"
  /\ StateOf(word) = UNLOCKED /\ StateOf(word') = ExclusiveState
DropsShared(t) ==
  /\ client # "turns" /\ held[t] = "shared" /\ held'[t] = "none"
  /\ StateOf(word') = StateOf(word) - 1
DropsExclusive(t) ==
  /\ client # "turns" /\ held[t] = "exclusive" /\ held'[t] = "none"
  /\ StateOf(word') = UNLOCKED

LockStep(t) ==
  /\ Elsewhere(t) /\ UNCHANGED client
  /\ Keeps(t) \/ GainsShared(t) \/ GainsExclusive(t) \/ DropsShared(t) \/ DropsExclusive(t)

LEMMA Marks ==
  /\ UNLOCKED \in State /\ LOCKED \in State /\ EXCLUSIVE_LOCK \in State /\ MAX_SHARED \in State
  /\ 1 \in State /\ UNLOCKED = 0 /\ LOCKED = 1 /\ EXCLUSIVE_LOCK = MAX_SHARED + 1 /\ MAX_SHARED > 0
  /\ \A s \in State : s \in Nat /\ s <= EXCLUSIVE_LOCK
  /\ \A s \in Nat : s <= EXCLUSIVE_LOCK => s \in State
BY LockAssumption, AlignAssumption
   DEF UNLOCKED, LOCKED, EXCLUSIVE_LOCK, MAX_SHARED, State, STATE_MASK

LEMMA Neighbours ==
  ASSUME NEW s \in State
  PROVE  /\ s # EXCLUSIVE_LOCK => s + 1 \in State
         /\ s # UNLOCKED => s - 1 \in State
BY AlignAssumption DEF State, STATE_MASK, EXCLUSIVE_LOCK, UNLOCKED

LEMMA HeldMoves ==
  ASSUME NEW t \in Thread, Elsewhere(t)
  PROVE  held' = [held EXCEPT ![t] = held'[t]]
<1>1. \A s \in Thread \ {t} : held'[s] = held[s]
  BY HeldFields DEF Elsewhere
<1> QED
  BY <1>1, HeldFields

\* The count follows the readers.
LEMMA HoldersStep ==
  ASSUME TInv, HoldersFit, NEW t \in Thread, LockStep(t)
  PROVE  HoldersFit'
<1> SUFFICES ASSUME client # "turns", client' = client PROVE HoldersFit'
  BY DEF HoldersFit, LockStep
<1> DEFINE E == [held EXCEPT ![t] = held'[t]]
<1>1. held' = E /\ held \in [Thread -> {"none", "shared", "exclusive"}]
  BY HeldMoves, HeldFields DEF LockStep
<1>2. IsFiniteSet(Sharers) /\ Cardinality(Sharers) \in Nat
  BY ThreadAssumption, FS_Subset, FS_CardinalityType DEF Sharers
<1>3. ExclusiveState' = ExclusiveState /\ ExclusiveState # UNLOCKED
  BY Marks DEF ExclusiveState
<1>4. CASE Keeps(t)
  <2>1. held' = held
    BY <1>1, <1>4 DEF Keeps
  <2>2. Sharers' = Sharers
    BY <2>1 DEF Sharers
  <2> QED
    BY <1>3, <1>4, <2>1, <2>2 DEF HoldersFit, Keeps
<1>5. CASE GainsShared(t)
  <2>1. \A s \in Thread : held[s] # "exclusive"
    BY <1>5 DEF HoldersFit, GainsShared, ExclusiveState
  <2>2. Sharers' = Sharers \cup {t} /\ t \notin Sharers
    BY <1>1, <1>5 DEF Sharers, GainsShared
  <2>3. Cardinality(Sharers') = Cardinality(Sharers) + 1
    BY <1>2, <2>2, FS_AddElement
  <2>4. StateOf(word) = Cardinality(Sharers) /\ Cardinality(Sharers) <= MAX_SHARED
    BY <2>1 DEF HoldersFit
  <2>5. \A s \in Thread : held'[s] # "exclusive"
    BY <1>1, <1>5, <2>1 DEF GainsShared
  <2>6. Cardinality(Sharers') <= MAX_SHARED /\ StateOf(word') = Cardinality(Sharers')
    BY <1>2, <1>5, <2>3, <2>4, Marks DEF GainsShared
  <2> QED
    BY <2>5, <2>6 DEF HoldersFit
<1>6. CASE GainsExclusive(t)
  <2>1. Cardinality(Sharers) = 0 /\ \A s \in Thread : held[s] # "exclusive"
    BY <1>3, <1>6, Marks DEF HoldersFit, GainsExclusive
  <2>2. \A s \in Thread : held[s] = "none"
    BY <1>1, <1>2, <2>1, FS_EmptySet DEF Sharers
  <2>3. held'[t] = "exclusive" /\ \A s \in Thread \ {t} : held'[s] = "none"
    BY <1>1, <1>6, <2>2 DEF GainsExclusive
  <2> QED
    BY <1>3, <1>6, <2>3 DEF HoldersFit, GainsExclusive
<1>7. CASE DropsShared(t)
  <2>1. /\ \A s \in Thread : held[s] # "exclusive"
        /\ StateOf(word) = Cardinality(Sharers) /\ Cardinality(Sharers) <= MAX_SHARED
    BY <1>7 DEF HoldersFit, DropsShared
  <2>2. Sharers' = Sharers \ {t} /\ t \in Sharers
    BY <1>1, <1>7 DEF Sharers, DropsShared
  <2>3. Cardinality(Sharers') = Cardinality(Sharers) - 1
    BY <1>2, <2>2, FS_RemoveElement
  <2>4. \A s \in Thread : held'[s] # "exclusive"
    BY <1>1, <1>7, <2>1 DEF DropsShared
  <2>5. Cardinality(Sharers') <= MAX_SHARED /\ StateOf(word') = Cardinality(Sharers')
    BY <1>2, <1>7, <2>1, <2>3, Marks DEF DropsShared
  <2> QED
    BY <2>4, <2>5 DEF HoldersFit
<1>8. CASE DropsExclusive(t)
  <2>1. \A s \in Thread : held'[s] = "none"
    BY <1>1, <1>8 DEF HoldersFit, DropsExclusive
  <2>2. Sharers' = {}
    BY <2>1 DEF Sharers
  <2>3. Cardinality(Sharers') = 0 /\ 0 <= MAX_SHARED /\ UNLOCKED = 0
    BY <2>2, Marks, FS_EmptySet
  <2>4. \A s \in Thread : held'[s] # "exclusive"
    BY <2>1
  <2>5. StateOf(word') = UNLOCKED
    BY <1>8 DEF DropsExclusive
  <2> QED
    BY <2>3, <2>4, <2>5 DEF HoldersFit
<1> QED
  BY <1>4, <1>5, <1>6, <1>7, <1>8 DEF LockStep

LEMMA OthersFit ==
  ASSUME CallsFit, NEW t \in Thread, Elsewhere(t), UNCHANGED client, CallFits(t)'
  PROVE  CallsFit'
<1> SUFFICES ASSUME NEW s \in Thread PROVE CallFits(s)'
  BY DEF CallsFit
<1>1. CASE s = t
  BY <1>1
<1>2. CASE s # t
  BY <1>2 DEF CallsFit, CallFits, MutexCall, RwLockCall, TurnsCall, Elsewhere
<1> QED
  BY <1>1, <1>2

-----------------------------------------------------------------------------
(* What the closures decide.                                                *)
LEMMA Fields ==
  /\ \A c \in {LockCall, LockSharedCall, LockExclusiveCall, TryLockSharedCall, UnlockSharedCall} :
       c.wake = "none"
  /\ LockCall.ok = "exclusive" /\ LockExclusiveCall.ok = "exclusive"
  /\ LockSharedCall.ok = "shared" /\ TryLockSharedCall.ok = "shared" /\ TryLockSharedCall.err = "idle"
  /\ UnlockSharedCall.ok = "idle" /\ NoCall.ok = "idle" /\ NoCall.err = "idle"
  /\ UnlockSharedCall \notin {LockCall, LockSharedCall, LockExclusiveCall, TryLockSharedCall, NoCall}
  /\ [NoCall EXCEPT !.ok = "idle"] = NoCall
<1>1. /\ LockCall.err = "idle" /\ LockSharedCall.err = "idle" /\ LockExclusiveCall.err = "idle"
      /\ UnlockSharedCall.err = "panicked"
  BY DEF CallOf, LockCall, LockSharedCall, LockExclusiveCall, UnlockSharedCall
<1>2. /\ TryLockSharedCall.err = "idle" /\ NoCall.err = "idle"
  BY DEF CallOf, TryLockSharedCall, NoCall
<1>3. UnlockSharedCall \notin {LockCall, LockSharedCall, LockExclusiveCall, TryLockSharedCall, NoCall}
  BY <1>1, <1>2
<1>4. NoCall.ok = "idle" /\ [NoCall EXCEPT !.ok = "idle"] = NoCall
  BY DEF CallOf, NoCall
<1>5. /\ LockCall.ok = "exclusive" /\ LockCall.wake = "none"
      /\ LockExclusiveCall.ok = "exclusive" /\ LockExclusiveCall.wake = "none"
  BY DEF CallOf, LockCall, LockExclusiveCall
<1>6. /\ LockSharedCall.ok = "shared" /\ LockSharedCall.wake = "none"
      /\ TryLockSharedCall.ok = "shared" /\ TryLockSharedCall.wake = "none"
  BY DEF CallOf, LockSharedCall, TryLockSharedCall
<1>7. UnlockSharedCall.ok = "idle" /\ UnlockSharedCall.wake = "none"
  BY DEF CallOf, UnlockSharedCall
<1> QED
  BY <1>2, <1>3, <1>4, <1>5, <1>6, <1>7

LEMMA ExclusiveDecision ==
  ASSUME NEW w \in Words
  PROVE  /\ Decision(LockCall, w) = IF StateOf(w) = UNLOCKED THEN Update(LOCKED) ELSE Wait
         /\ Decision(LockExclusiveCall, w) =
              IF StateOf(w) = UNLOCKED THEN Update(EXCLUSIVE_LOCK) ELSE Wait
<1>1. StateOf(w) \in State
  BY Unpacked
<1> QED
  BY <1>1 DEF Decision, CallOf, LockCall, LockExclusiveCall

LEMMA SharedDecision ==
  ASSUME NEW w \in Words
  PROVE  /\ Decision(LockSharedCall, w) = OneMore(StateOf(w), Wait)
         /\ Decision(TryLockSharedCall, w) = OneMore(StateOf(w), Break)
         /\ Decision(UnlockSharedCall, w) =
              IF StateOf(w) = UNLOCKED THEN Break ELSE Update(StateOf(w) - 1)
<1>1. StateOf(w) \in State
  BY Unpacked
<1> QED
  BY <1>1 DEF Decision, CallOf, LockSharedCall, TryLockSharedCall, UnlockSharedCall

LEMMA Does ==
  /\ \A n : Update(n).does = "update" /\ Update(n).state = n
  /\ Wait.does = "wait" /\ Break.does = "break"
BY DEF Update, Wait, Break

-----------------------------------------------------------------------------
(* Every step of a client is a step of its lock.                            *)
LocksInv == CallsFit /\ HoldersFit

Fits(t) == LockStep(t) /\ CallFits(t)'

LEMMA AskEffect ==
  ASSUME TInv, NEW t \in Thread, NEW c \in Calls, Ask(t, c, word), UNCHANGED client
  PROVE  /\ Elsewhere(t) /\ word' = word
         /\ IF Decision(c, word).does = "break" THEN pc'[t] = c.err /\ call'[t] = NoCall
            ELSE /\ pc'[t] = Decision(c, word).does /\ call'[t] = c
                 /\ pc'[t] \in {"update", "wait"}
<1>1. word \in Words /\ StateOf(word) \in State
  BY Unpacked DEF TInv, Typed
<1>2. Decision(c, word).does \in {"update", "wait", "break"}
  BY <1>1 DEF Decision, Calls, Closures
<1> QED
  BY <1>2 DEF TInv, Typed, Ask, Leave, Goto, Elsewhere

\* A reader counts.
LEMMA ReaderCounts ==
  ASSUME TInv, HoldersFit, client # "turns", NEW t \in Thread, held[t] = "shared"
  PROVE  StateOf(word) \in Nat \ {0} /\ UNLOCKED = 0
<1>1. IsFiniteSet(Sharers) /\ t \in Sharers
  BY ThreadAssumption, FS_Subset DEF Sharers
<1>2. Cardinality(Sharers) # 0 /\ Cardinality(Sharers) \in Nat
  BY <1>1, FS_CardinalityType, FS_EmptySet
<1>3. ~\E e \in Thread : held[e] = "exclusive" /\ \A s \in Thread \ {e} : held[s] = "none"
  OBVIOUS
<1> QED
  BY <1>2, <1>3, Marks DEF HoldersFit

LEMMA AskMutex ==
  ASSUME TInv, NEW t \in Thread, client = "mutex", UNCHANGED client,
         Ask(t, LockCall, word), held[t] = "none"
  PROVE  Fits(t)
<1>1. word \in Words /\ LockCall \in Calls
  BY Clients DEF TInv, Typed
<1>2. Decision(LockCall, word).does # "break"
  BY <1>1, ExclusiveDecision, Does
<1>3. Elsewhere(t) /\ word' = word /\ pc'[t] \in {"update", "wait"} /\ call'[t] = LockCall
  BY <1>1, <1>2, AskEffect
<1>4. held'[t] = "none"
  BY <1>3, HeldFields, Fields DEF HeldBy
<1> QED
  BY <1>3, <1>4 DEF Fits, LockStep, Keeps, CallFits, MutexCall, WaitPCs

LEMMA AskRwLock ==
  ASSUME TInv, HoldersFit, NEW t \in Thread, client = "rwlock", UNCHANGED client,
         NEW c \in {LockSharedCall, LockExclusiveCall, TryLockSharedCall, UnlockSharedCall},
         Ask(t, c, word), held[t] = IF c = UnlockSharedCall THEN "shared" ELSE "none"
  PROVE  Fits(t)
<1>1. word \in Words /\ c \in Calls
  BY Clients DEF TInv, Typed, TryLockSharedCall
<1>2. /\ Elsewhere(t) /\ word' = word
      /\ IF Decision(c, word).does = "break" THEN pc'[t] = c.err /\ call'[t] = NoCall
         ELSE /\ pc'[t] = Decision(c, word).does /\ call'[t] = c
              /\ pc'[t] \in {"update", "wait"}
  BY <1>1, AskEffect
<1>3. Decision(c, word).does = "break" => c = TryLockSharedCall
  <2>1. c \in {LockSharedCall, LockExclusiveCall} => Decision(c, word).does # "break"
    BY <1>1, ExclusiveDecision, SharedDecision, Does DEF OneMore
  <2>2. c = UnlockSharedCall => Decision(c, word).does # "break"
    BY <1>1, SharedDecision, Does, ReaderCounts
  <2> QED
    BY <2>1, <2>2
<1>4. Decision(c, word).does = "wait" => c \in {LockSharedCall, LockExclusiveCall}
  <2>1. c = UnlockSharedCall => Decision(c, word).does # "wait"
    BY <1>1, SharedDecision, Does
  <2>2. c = TryLockSharedCall => Decision(c, word).does # "wait"
    BY <1>1, SharedDecision, Does DEF OneMore
  <2> QED
    BY <2>1, <2>2
<1>5. held'[t] = held[t]
  BY <1>2, <1>3, HeldFields, Fields DEF HeldBy
<1>6. RwLockCall(t)' /\ (pc'[t] \notin {"update"} \cup WaitPCs => call'[t] = NoCall)
  BY <1>2, <1>3, <1>4, Fields DEF RwLockCall, WaitPCs
<1> QED
  BY <1>2, <1>5, <1>6 DEF Fits, LockStep, Keeps, CallFits

LEMMA TurnsCallsFit ==
  /\ NoCall \in TurnsCalls
  /\ \A t \in Thread :
       /\ CallOf([s \in State |-> IF s = Turn(t) THEN Break ELSE Wait], "none", "idle", "turn") \in TurnsCalls
       /\ CallOf([s \in State |-> IF s = Turn(t) THEN Update(NextTurn(t)) ELSE Wait],
                 "one", "idle", "idle") \in TurnsCalls
BY Clients DEF TurnsCalls, CallOf, NoCall, Wait, Break

\* The threads that take turns hold no lock.
LEMMA TurnsFit ==
  ASSUME NEW t \in Thread, client = "turns", UNCHANGED client, Elsewhere(t),
         TurnsCall(t), TurnsCall(t)'
  PROVE  Fits(t)
<1>1. UnlockSharedCall.err = "panicked"
  BY DEF UnlockSharedCall, CallOf
<1>2. held[t] = "none" /\ held'[t] = "none"
  BY <1>1, HeldFields DEF HeldBy, TurnsCall, TurnsCalls
<1> QED
  BY <1>2 DEF Fits, LockStep, Keeps, CallFits

LEMMA AskTurns ==
  ASSUME TInv, NEW t \in Thread, client = "turns", UNCHANGED client, TurnsCall(t),
         NEW c \in TurnsCalls, Ask(t, c, word)
  PROVE  Fits(t)
<1>1. c \in Calls /\ c.err \in {"idle", "turn"}
  BY DEF TurnsCalls
<1>2. TurnsCall(t)'
  BY <1>1, AskEffect, TurnsCallsFit DEF TurnsCall
<1> QED
  BY <1>1, <1>2, AskEffect, TurnsFit

-----------------------------------------------------------------------------
LEMMA OptimisticFits ==
  ASSUME TInv, NEW t \in Thread, pc[t] = "idle", client # "turns", UNCHANGED client,
         CallFits(t), NEW ok \in {"shared", "exclusive"}, NEW new \in State,
         new = IF ok = "exclusive" THEN ExclusiveState ELSE 1,
         ok = "shared" => client = "rwlock",
         OptimisticUpdate(t, UNLOCKED, new, ok)
  PROVE  Fits(t)
<1>1. StateOf(word) = UNLOCKED /\ StateOf(word') = new /\ Ptr(word') = 0
  BY Nulls, States, Marks DEF OptimisticUpdate
<1>2. Elsewhere(t) /\ pc'[t] = ok /\ call'[t] = NoCall /\ call[t] = NoCall
  BY DEF TInv, Typed, OptimisticUpdate, Goto, Elsewhere, CallFits, WaitPCs
<1>3. held[t] = "none" /\ held'[t] = ok
  BY <1>2, HeldFields, Fields DEF HeldBy
<1>4. GainsShared(t) \/ GainsExclusive(t)
  BY <1>1, <1>3, Marks DEF GainsShared, GainsExclusive, ExclusiveState
<1>5. CallFits(t)'
  BY <1>2 DEF CallFits, MutexCall, RwLockCall, WaitPCs
<1> QED
  BY <1>1, <1>2, <1>4, <1>5 DEF Fits, LockStep

LEMMA OptimisticElseFits ==
  ASSUME TInv, NEW t \in Thread, pc[t] = "idle", client # "turns", UNCHANGED client,
         CallFits(t), NEW c, NEW new \in State,
         \/ client = "mutex" /\ c = LockCall /\ new = LOCKED
         \/ client = "rwlock" /\ c = LockSharedCall /\ new = 1
         \/ client = "rwlock" /\ c = LockExclusiveCall /\ new = EXCLUSIVE_LOCK,
         OptimisticElse(t, UNLOCKED, new, c)
  PROVE  Fits(t)
<1>1. CASE OptimisticUpdate(t, UNLOCKED, new, c.ok)
  <2>1. /\ c.ok \in {"shared", "exclusive"} /\ (c.ok = "shared" => client = "rwlock")
        /\ new = IF c.ok = "exclusive" THEN ExclusiveState ELSE 1
    BY Fields DEF ExclusiveState
  <2> QED
    BY <1>1, <2>1, OptimisticFits
<1>2. CASE ~OptimisticUpdate(t, UNLOCKED, new, c.ok)
  <2>1. Elsewhere(t) /\ word' = word /\ pc'[t] = "load" /\ call'[t] = c /\ call[t] = NoCall
    BY <1>2 DEF TInv, Typed, OptimisticElse, Goto, Elsewhere, CallFits, WaitPCs
  <2>2. held[t] = "none" /\ held'[t] = "none"
    BY <2>1, HeldFields, Fields DEF HeldBy
  <2>3. CallFits(t)'
    BY <2>1 DEF CallFits, MutexCall, RwLockCall, WaitPCs
  <2> QED
    BY <2>1, <2>2, <2>3 DEF Fits, LockStep, Keeps
<1> QED
  BY <1>1, <1>2

LEMMA SetFits ==
  ASSUME TInv, NEW t \in Thread, UNCHANGED client, CallFits(t), NEW state \in Nat,
         \/ client # "turns" /\ pc[t] = "exclusive" /\ state = UNLOCKED
         \/ client = "turns" /\ pc[t] = "turn",
         Set(t, state, "idle")
  PROVE  Fits(t)
<1>1. Ptr(word') = 0 /\ StateOf(word') = NewTruncated(state)
  BY Nulls DEF Set
<1>2. /\ Elsewhere(t) /\ pc'[t] \in {"idle", "read"} /\ call'[t] \in {call[t], NoCall}
  BY Fields DEF TInv, Typed, Set, Goto, Elsewhere
<1>3. CASE client # "turns"
  <2>1. call'[t] = NoCall
    BY <1>2, <1>3 DEF CallFits, WaitPCs
  <2>2. held[t] = "exclusive" /\ held'[t] = "none"
    BY <1>2, <1>3, <2>1, HeldFields, Fields DEF HeldBy
  <2>3. StateOf(word') = UNLOCKED
    BY <1>1, <1>3, Marks, States
  <2>4. CallFits(t)'
    BY <1>2, <1>3, <2>1 DEF CallFits, MutexCall, RwLockCall, WaitPCs, WakePCs
  <2> QED
    BY <1>1, <1>2, <1>3, <2>2, <2>3, <2>4 DEF Fits, LockStep, DropsExclusive
<1>4. CASE client = "turns"
  <2>1. TurnsCall(t) /\ TurnsCall(t)'
    BY <1>2, <1>4, TurnsCallsFit DEF CallFits, TurnsCall
  <2> QED
    BY <1>2, <1>4, <2>1, TurnsFit
<1> QED
  BY <1>3, <1>4

LEMMA UpdateFits ==
  ASSUME TInv, HoldersFit, NEW t \in Thread, CallFits(t), client # "turns", UNCHANGED client,
         UpdateOk(t)
  PROVE  Fits(t)
<1> DEFINE c == call[t]
           s == StateOf(word)
<1>1. pc[t] = "update" /\ word \in Words /\ s \in State /\ Decision(c, word).does = "update"
  BY Unpacked DEF UpdateOk, TInv, Typed, Decided
<1>2. \/ client = "mutex" /\ c = LockCall
      \/ /\ client = "rwlock"
         /\ c \in {LockSharedCall, LockExclusiveCall, TryLockSharedCall, UnlockSharedCall}
  BY <1>1 DEF CallFits, MutexCall, RwLockCall, TInv, Typed
<1>3. /\ Elsewhere(t) /\ pc'[t] = c.ok /\ call'[t] = NoCall
      /\ StateOf(word') = NewTruncated(Decision(c, word).state)
  BY <1>2, UpdateTyped, Fields DEF TInv, Typed, Leave, Goto, Elsewhere
<1>4. held'[t] = HeldBy(c.ok, NoCall) /\ held[t] = HeldBy("update", c)
  BY <1>1, <1>3, HeldFields
<1>5. CASE \/ client = "mutex" /\ c = LockCall
           \/ client = "rwlock" /\ c = LockExclusiveCall
  <2>1. Decision(c, word) \in {Update(ExclusiveState)} /\ s = UNLOCKED
    BY <1>1, <1>5, ExclusiveDecision, Does DEF ExclusiveState
  <2>2. StateOf(word') = ExclusiveState /\ StateOf(word') # UNLOCKED
    BY <1>3, <2>1, Does, Marks, States DEF ExclusiveState
  <2>3. held'[t] = "exclusive" /\ c.ok = "exclusive"
    BY <1>4, <1>5, Fields DEF HeldBy
  <2>4. GainsExclusive(t)
    BY <2>1, <2>2, <2>3 DEF GainsExclusive
  <2>5. CallFits(t)'
    BY <1>3, <1>5, <2>3 DEF CallFits, MutexCall, RwLockCall, WaitPCs
  <2> QED
    BY <1>3, <2>2, <2>4, <2>5 DEF Fits, LockStep
<1>6. CASE client = "rwlock" /\ c \in {LockSharedCall, TryLockSharedCall}
  <2>1. Decision(c, word) = Update(s + 1) /\ s \notin {EXCLUSIVE_LOCK, MAX_SHARED}
    BY <1>1, <1>6, SharedDecision, Does DEF OneMore
  <2>2. s + 1 \in State
    BY <1>1, <2>1, Neighbours
  <2>3. StateOf(word') = s + 1
    BY <1>3, <2>1, <2>2, Does, States
  <2>4. held[t] = "none" /\ held'[t] = "shared" /\ c.ok = "shared"
    BY <1>4, <1>6, Fields DEF HeldBy
  <2>5. GainsShared(t)
    BY <1>6, <2>1, <2>3, <2>4 DEF GainsShared
  <2>6. CallFits(t)'
    BY <1>3, <1>6, <2>4 DEF CallFits, RwLockCall, WaitPCs
  <2> QED
    BY <1>3, <1>6, <2>5, <2>6 DEF Fits, LockStep
<1>7. CASE client = "rwlock" /\ c = UnlockSharedCall
  <2>1. Decision(c, word) = Update(s - 1) /\ s # UNLOCKED
    BY <1>1, <1>7, SharedDecision, Does
  <2>2. s - 1 \in State
    BY <1>1, <2>1, Neighbours
  <2>3. StateOf(word') = s - 1
    BY <1>3, <2>1, <2>2, Does, States
  <2>4. held[t] = "shared" /\ held'[t] = "none" /\ c.ok = "idle"
    BY <1>4, <1>7, Fields DEF HeldBy
  <2>5. DropsShared(t)
    BY <1>7, <2>3, <2>4 DEF DropsShared
  <2>6. CallFits(t)'
    BY <1>3, <1>7, <2>4 DEF CallFits, RwLockCall, WaitPCs
  <2> QED
    BY <1>3, <1>7, <2>5, <2>6 DEF Fits, LockStep
<1> QED
  BY <1>2, <1>5, <1>6, <1>7

\* Waiting and waking leave the locks alone.
LEMMA WaitFits ==
  ASSUME TInv, NEW t \in Thread, CallFits(t), client # "turns", UNCHANGED client,
         Enqueue(t) \/ Check(t) \/ Park(t) \/ SpuriousWake(t)
  PROVE  Fits(t)
<1>1. /\ pc[t] \in WaitPCs /\ pc'[t] \in WaitPCs
      /\ \A s \in Thread \ {t} : pc'[s] = pc[s]
      /\ call' = call
  BY DEF Enqueue, Check, Park, SpuriousWake, WaitPCs, Goto, TInv, Typed
<1>2. StateOf(word') = StateOf(word)
  BY Packed, Unpacked DEF Enqueue, Check, Park, SpuriousWake, TInv, Typed
<1>3. held'[t] = held[t]
  BY <1>1, HeldFields DEF HeldBy, WaitPCs
<1>4. CallFits(t)'
  BY <1>1 DEF CallFits, MutexCall, RwLockCall, WaitPCs
<1> QED
  BY <1>1, <1>2, <1>3, <1>4 DEF Fits, LockStep, Keeps, Elsewhere

LEMMA WakeFits ==
  ASSUME TInv, NEW t \in Thread, CallFits(t), client # "turns", UNCHANGED client, WakeStep(t)
  PROVE  Fits(t)
<1>1. /\ pc[t] \in WakePCs /\ word' = word /\ call[t] = NoCall
  BY DEF WakeStep, Read, Mark, Unpark, WakePCs, CallFits, WaitPCs
<1>2. /\ pc'[t] \in WakePCs \cup {"idle"} /\ call'[t] = NoCall
      /\ \A s \in Thread \ {t} : pc'[s] = pc[s] /\ call'[s] = call[s]
  BY <1>1, Fields DEF WakeStep, Read, Mark, Unpark, WakePCs, Leave, Goto, TInv, Typed
<1>3. held[t] = "none" /\ held'[t] = "none"
  BY <1>1, <1>2, HeldFields, Fields DEF HeldBy, WakePCs
<1>4. CallFits(t)'
  BY <1>2 DEF CallFits, MutexCall, RwLockCall, WaitPCs, WakePCs
<1> QED
  BY <1>1, <1>2, <1>3, <1>4 DEF Fits, LockStep, Keeps, Elsewhere

LEMMA TurnStepFits ==
  ASSUME TInv, NEW t \in Thread, CallFits(t), client = "turns", UNCHANGED client,
         UpdateOk(t) \/ Enqueue(t) \/ Check(t) \/ Park(t) \/ SpuriousWake(t) \/ WakeStep(t)
  PROVE  Fits(t)
<1>1. TurnsCall(t) /\ call[t].ok = "idle"
  BY DEF CallFits, TurnsCall, TurnsCalls
<1>2. /\ \A s \in Thread \ {t} : pc'[s] = pc[s] /\ call'[s] = call[s]
      /\ pc'[t] \in CallPCs \cup {"idle"} /\ call'[t] \in {call[t], NoCall}
  <2>1. CASE UpdateOk(t)
    BY <1>1, <2>1, UpdateTyped DEF Leave, Goto, TInv, Typed, CallPCs
  <2>2. CASE Enqueue(t) \/ Check(t) \/ Park(t) \/ SpuriousWake(t)
    BY <2>2 DEF Enqueue, Check, Park, SpuriousWake, Goto, TInv, Typed, CallPCs
  <2>3. CASE WakeStep(t)
    BY <1>1, <2>3 DEF WakeStep, Read, Mark, Unpark, Leave, Goto, TInv, Typed, CallPCs
  <2> QED
    BY <2>1, <2>2, <2>3
<1>3. TurnsCall(t)'
  BY <1>1, <1>2, TurnsCallsFit DEF TurnsCall, CallPCs
<1> QED
  BY <1>1, <1>2, <1>3, TurnsFit DEF Elsewhere

LEMMA AgainFits ==
  ASSUME TInv, HoldersFit, NEW t \in Thread, CallFits(t), UNCHANGED client,
         UpdateErr(t) \/ BackOff(t) \/ Load(t)
  PROVE  Fits(t)
<1>1. Ask(t, call[t], word) /\ pc[t] \in {"update", "wait", "load"}
  BY DEF UpdateErr, BackOff, Load
<1>2. call[t] \in Calls /\ client \in {"mutex", "rwlock", "turns"}
  BY DEF TInv, Typed
<1>3. held[t] = IF call[t] = UnlockSharedCall THEN "shared" ELSE "none"
  BY <1>1, HeldFields DEF HeldBy
<1>4. CASE client = "mutex"
  <2>1. call[t] = LockCall
    BY <1>1, <1>4 DEF CallFits, MutexCall, WaitPCs
  <2> QED
    BY <1>1, <1>3, <1>4, <2>1, AskMutex, Fields
<1>5. CASE client = "rwlock"
  <2>1. call[t] \in {LockSharedCall, LockExclusiveCall, TryLockSharedCall, UnlockSharedCall}
    BY <1>1, <1>5 DEF CallFits, RwLockCall, WaitPCs
  <2> QED
    BY <1>1, <1>3, <1>5, <2>1, AskRwLock
<1>6. CASE client = "turns"
  <2>1. TurnsCall(t)
    BY <1>6 DEF CallFits
  <2> QED
    BY <1>1, <1>2, <1>6, <2>1, AskTurns DEF TurnsCall
<1> QED
  BY <1>2, <1>4, <1>5, <1>6

LEMMA CallsFits ==
  ASSUME TInv, HoldersFit, NEW t \in Thread, CallFits(t), Call(t) \/ Continue(t)
  PROVE  Fits(t)
<1>1. UNCHANGED client
  BY DEF Call, Continue, TryLock, Lock, Unlock, TryLockExclusive, TryLockShared, LockShared,
         LockExclusive, UnlockShared, UnlockExclusive, WaitTurn, SetTurn, TakeTurn, At
<1>2. pc[t] \in {"idle", "shared"} /\ client = "rwlock" => call[t] = NoCall
  BY DEF CallFits, WaitPCs
<1>3. CASE TryLock(t)
  BY <1>1, <1>3, OptimisticFits, Marks DEF TryLock, At, ExclusiveState
<1>4. CASE Lock(t)
  BY <1>1, <1>4, OptimisticElseFits, Marks DEF Lock, At
<1>5. CASE TryLockExclusive(t)
  BY <1>1, <1>5, OptimisticFits, Marks DEF TryLockExclusive, At, ExclusiveState
<1>6. CASE TryLockShared(t)
  <2>1. held[t] = "none" /\ TryLockSharedCall # UnlockSharedCall
    BY <1>2, <1>6, HeldFields, Fields DEF TryLockShared, At, HeldBy
  <2> QED
    BY <1>1, <1>6, <2>1, AskRwLock DEF TryLockShared, At, Begin, TryLockSharedCall
<1>7. CASE LockShared(t)
  BY <1>1, <1>7, OptimisticElseFits, Marks DEF LockShared, At
<1>8. CASE LockExclusive(t)
  BY <1>1, <1>8, OptimisticElseFits, Marks DEF LockExclusive, At
<1>9. CASE Unlock(t)
  BY <1>1, <1>9, SetFits, Marks DEF Unlock, At
<1>10. CASE UnlockShared(t)
  <2>1. held[t] = "shared"
    BY <1>10, HeldFields DEF UnlockShared, At, HeldBy
  <2> QED
    BY <1>1, <1>10, <2>1, AskRwLock DEF UnlockShared, At, Begin
<1>11. CASE UnlockExclusive(t)
  BY <1>1, <1>11, SetFits, Marks DEF UnlockExclusive, At
<1>12. CASE WaitTurn(t) \/ TakeTurn(t)
  <2>1. PICK c \in TurnsCalls : Ask(t, c, word)
    <3>1. CASE WaitTurn(t)
      BY <3>1, TurnsCallsFit DEF WaitTurn, Begin
    <3>2. CASE TakeTurn(t)
      BY <3>2, TurnsCallsFit DEF TakeTurn, Begin
    <3> QED
      BY <1>12, <3>1, <3>2
  <2>2. client = "turns" /\ TurnsCall(t)
    BY <1>12 DEF WaitTurn, TakeTurn, At, CallFits
  <2> QED
    BY <1>1, <2>1, <2>2, AskTurns
<1>13. CASE SetTurn(t)
  BY <1>1, <1>13, SetFits, Clients DEF SetTurn, At
<1> QED
  BY <1>3, <1>4, <1>5, <1>6, <1>7, <1>8, <1>9, <1>10, <1>11, <1>12, <1>13 DEF Call, Continue

LEMMA NextFits ==
  ASSUME TInv, LocksInv, NEW t \in Thread,
         Call(t) \/ Step(t) \/ (SpuriousWake(t) /\ UNCHANGED client)
  PROVE  Fits(t)
<1>1. HoldersFit /\ CallFits(t)
  BY DEF LocksInv, CallsFit
<1>2. CASE Call(t) \/ Continue(t)
  BY <1>1, <1>2, CallsFits
<1>3. CASE (CallStep(t) \/ SpuriousWake(t)) /\ UNCHANGED client
  <2>1. CASE UpdateErr(t) \/ BackOff(t) \/ Load(t)
    BY <1>1, <1>3, <2>1, AgainFits
  <2>2. CASE UpdateOk(t) \/ Enqueue(t) \/ Check(t) \/ Park(t) \/ SpuriousWake(t) \/ WakeStep(t)
    BY <1>1, <1>3, <2>2, UpdateFits, WaitFits, WakeFits, TurnStepFits
  <2> QED
    BY <1>3, <2>1, <2>2 DEF CallStep, UpdateStep, WaitStep
<1> QED
  BY <1>2, <1>3 DEF Step

-----------------------------------------------------------------------------
LEMMA InitLocks == Init => LocksInv /\ \A t \in Thread : held[t] = "none"
<1> SUFFICES ASSUME Init PROVE LocksInv /\ \A t \in Thread : held[t] = "none"
  OBVIOUS
<1>1. \A t \in Thread : held[t] = "none"
  BY HeldFields, Fields DEF Init, CondInit, HeldBy
<1>2. CallsFit
  BY TurnsCallsFit DEF Init, CondInit, CallsFit, CallFits, MutexCall, RwLockCall, TurnsCall, WaitPCs
<1>3. ASSUME client # "turns" PROVE StateOf(word) = 0
  BY <1>3, Nulls, Marks, States DEF Init, CondInit
<1>4. Sharers = {}
  BY <1>1 DEF Sharers
<1>5. Cardinality(Sharers) = 0 /\ 0 <= MAX_SHARED
  BY <1>4, FS_EmptySet, Marks
<1> QED
  BY <1>1, <1>2, <1>3, <1>5 DEF LocksInv, HoldersFit

LEMMA StepLocks ==
  ASSUME TInv, LocksInv, [Next]_vars
  PROVE  LocksInv'
<1>1. CASE UNCHANGED vars
  BY <1>1, HeldFields
     DEF vars, condVars, LocksInv, CallsFit, CallFits, MutexCall, RwLockCall, TurnsCall,
         HoldersFit, Sharers, ExclusiveState, HeldBy
<1>2. CASE Next
  <2>1. PICK t \in Thread : Fits(t)
    BY <1>2, NextFits DEF Next
  <2> QED
    BY <2>1, OthersFit, HoldersStep DEF Fits, LocksInv, LockStep
<1> QED
  BY <1>1, <1>2

LocksInvariant == WaitersInv /\ LocksInv

LEMMA LocksInvariance == Spec => []LocksInvariant
<1>1. Init => LocksInvariant
  BY InitWaiters, InitLocks DEF LocksInvariant
<1>2. LocksInvariant /\ [Next]_vars => LocksInvariant'
  BY StepWaiters, StepLocks DEF LocksInvariant, WaitersInv
<1> QED
  BY <1>1, <1>2, PTL DEF Spec

\* The word of a mutex and of a reader-writer lock is what its holders have
\* made of it, however many threads and readers there are.
THEOREM StateCorrect == Spec => []StateIsHolders
<1>1. TInv /\ LocksInv => StateIsHolders
  <2> SUFFICES ASSUME TInv, LocksInv, client # "turns"
               PROVE  IF {t \in Thread : Holds(t, "exclusive")} = {}
                      THEN /\ Cardinality({t \in Thread : Holds(t, "shared")}) <= MAX_SHARED
                           /\ StateOf(word) = Cardinality({t \in Thread : Holds(t, "shared")})
                      ELSE StateOf(word) = ExclusiveState
    BY DEF StateIsHolders, ExclusiveState
  <2>1. \A t \in Thread : Holds(t, "exclusive") <=> held[t] = "exclusive"
    BY DEF Holds, held
  <2>2. \A t \in Thread : held[t] # "exclusive" => (Holds(t, "shared") <=> held[t] = "shared")
    BY DEF Holds, held
  <2>3. CASE \A t \in Thread : held[t] # "exclusive"
    <3>1. Sharers = {t \in Thread : Holds(t, "shared")}
      BY <2>2, <2>3 DEF Sharers
    <3>2. {t \in Thread : Holds(t, "exclusive")} = {}
      BY <2>1, <2>3
    <3> QED
      BY <2>3, <3>1, <3>2 DEF LocksInv, HoldersFit
  <2>4. CASE \E t \in Thread : held[t] = "exclusive"
    <3>1. {t \in Thread : Holds(t, "exclusive")} # {}
      BY <2>1, <2>4
    <3> QED
      BY <2>4, <3>1 DEF LocksInv, HoldersFit
  <2> QED
    BY <2>3, <2>4
<1>2. LocksInvariant => StateIsHolders
  BY <1>1 DEF LocksInvariant, WaitersInv
<1> QED
  BY <1>2, LocksInvariance, PTL

\* A step of a lock's client is a step of the lock's contract, or none.
LEMMA LockStepImplements ==
  ASSUME HoldersFit, NEW t \in Thread, LockStep(t)
  PROVE  [AsRwLock!Next]_held
<1>1. held' = [held EXCEPT ![t] = held'[t]] /\ held \in [Thread -> {"none", "shared", "exclusive"}]
  BY HeldMoves, HeldFields DEF LockStep
<1>2. CASE Keeps(t)
  BY <1>1, <1>2 DEF Keeps
<1>3. CASE GainsShared(t)
  <2>1. \A s \in Thread : held[s] # "exclusive"
    BY <1>3 DEF HoldersFit, GainsShared, ExclusiveState
  <2>2. AsRwLock!AcquireShared(t)
    BY <1>1, <1>3, <2>1 DEF GainsShared, AsRwLock!AcquireShared
  <2> QED
    BY <2>2 DEF AsRwLock!Next
<1>4. CASE GainsExclusive(t)
  <2>1. \A s \in Thread : held[s] = "none"
    <3>1. Cardinality(Sharers) = 0 /\ \A s \in Thread : held[s] # "exclusive"
      BY <1>4, Marks DEF HoldersFit, GainsExclusive, ExclusiveState
    <3>2. Sharers = {}
      BY <3>1, ThreadAssumption, FS_Subset, FS_EmptySet DEF Sharers
    <3> QED
      BY <1>1, <3>1, <3>2 DEF Sharers
  <2>2. AsRwLock!AcquireExclusive(t)
    BY <1>1, <1>4, <2>1 DEF GainsExclusive, AsRwLock!AcquireExclusive
  <2> QED
    BY <2>2 DEF AsRwLock!Next
<1>5. CASE DropsShared(t) \/ DropsExclusive(t)
  <2>1. AsRwLock!Release(t)
    BY <1>1, <1>5 DEF DropsShared, DropsExclusive, AsRwLock!Release
  <2> QED
    BY <2>1 DEF AsRwLock!Next
<1> QED
  BY <1>2, <1>3, <1>4, <1>5 DEF LockStep

\* RawMutex and RawRwLock over a CondVar meet the contract of lock_api.
THEOREM Implements == Spec => ImplementsRwLock
<1>1. Init => AsRwLock!Init
  BY InitLocks, HeldFields DEF AsRwLock!Init
<1>2. TInv /\ LocksInv /\ [Next]_vars => [AsRwLock!Next]_held
  <2> SUFFICES ASSUME TInv, LocksInv, [Next]_vars PROVE [AsRwLock!Next]_held
    OBVIOUS
  <2>1. CASE UNCHANGED vars
    BY <2>1, HeldFields DEF vars, condVars, HeldBy
  <2>2. CASE Next
    <3>1. PICK t \in Thread : Fits(t)
      BY <2>2, NextFits DEF Next
    <3> QED
      BY <3>1, LockStepImplements DEF Fits, LocksInv
  <2> QED
    BY <2>1, <2>2
<1>3. LocksInvariant => TInv /\ LocksInv
  BY DEF LocksInvariant, WaitersInv
<1> QED
  BY <1>1, <1>2, <1>3, LocksInvariance, PTL DEF Spec, ImplementsRwLock, AsRwLock!Spec

\* A writer keeps everybody else out: what the contract is for.
THEOREM Exclusion == Spec => [](\A s, t \in Thread : held[s] = "exclusive" /\ s # t => held[t] = "none")
<1>1. LocksInvariant => \A s, t \in Thread : held[s] = "exclusive" /\ s # t => held[t] = "none"
  <2> SUFFICES ASSUME LocksInvariant, NEW s \in Thread, NEW t \in Thread,
                      held[s] = "exclusive", s # t
               PROVE  held[t] = "none"
    OBVIOUS
  <2>1. client # "turns"
    BY HeldFields, Fields DEF LocksInvariant, LocksInv, CallsFit, CallFits, TurnsCall, HeldBy
  <2> QED
    BY <2>1 DEF LocksInvariant, LocksInv, HoldersFit
<1> QED
  BY <1>1, LocksInvariance, PTL

-----------------------------------------------------------------------------
(* Nobody sleeps in vain.                                                   *)

\* A step puts nobody on the word's list but the thread that enqueues itself.
LEMMA QueueStep ==
  ASSUME TInv, ListInv, TInv', NEW t \in Thread, ListStep(t)
  PROVE  Queue' \subseteq IF Enqueue(t) THEN Queue \cup {t} ELSE Queue
<1>1. CASE Take(t)
  BY <1>1, FromNull DEF Take, Queue
<1>2. CASE Enqueue(t)
  BY <1>2, EnqueueLists
<1>3. CASE Check(t)
  BY <1>3, CheckLists
<1>4. CASE Quiet(t) \/ Park(t) \/ SpuriousWake(t) \/ Read(t) \/ Mark(t) \/ Unpark(t)
  <2>1. next' = next /\ Ptr(word') = Ptr(word)
    BY <1>4 DEF Quiet, Park, SpuriousWake, Read, Mark, Unpark, waiters
  <2> QED
    BY <2>1 DEF Queue
<1> QED
  BY <1>1, <1>2, <1>3, <1>4 DEF ListStep

\* Who is on the list after a step is still in the same call.
LEMMA QueueCalls ==
  ASSUME TInv, TInv', ListInv', NEW t \in Thread, ListStep(t), Elsewhere(t), NEW s \in Queue'
  PROVE  s \in Thread /\ call'[s] = call[s]
<1>1. s \in Parked' /\ s \in Thread
  <2>1. Queue' \subseteq Waiting'
    BY DEF ListInv, Spread
  <2> QED
    BY <2>1 DEF Waiting, Parked
<1>2. CASE s # t
  BY <1>1, <1>2 DEF Elsewhere
<1>3. CASE s = t
  <2>1. pc'[t] \in {"check", "park"} /\ DOMAIN pc = Thread
    BY <1>1, <1>3 DEF Parked, TInv, Typed
  <2>2. ~Quiet(t) /\ ~Take(t)
    BY <2>1 DEF Quiet, Take, Busy
  <2>3. ~Read(t) /\ ~Mark(t)
    BY <2>1 DEF Read, Mark, Goto
  <2>4. ~Unpark(t)
    <3>1. call[t].ok \notin {"check", "park"}
      BY DEF TInv, Typed, Calls, ClientPCs
    <3> QED
      BY <2>1, <3>1 DEF Unpark, Leave, Goto
  <2>5. call' = call
    BY <2>2, <2>3, <2>4 DEF ListStep, Enqueue, Check, Park, SpuriousWake
  <2> QED
    BY <1>3, <2>5
<1> QED
  BY <1>2, <1>3

LEMMA QuietStates ==
  ASSUME TInv, NEW t \in Thread, Call(t) \/ Continue(t)
  PROVE  StateOf(word') = StateOf(word) \/ Ptr(word') = 0
<1>1. LOCKED \in Nat /\ UNLOCKED \in Nat /\ EXCLUSIVE_LOCK \in Nat /\ 1 \in Nat /\ NextTurn(t) \in Nat
  BY Clients, Marks, States
<1>2. ASSUME NEW c, Ask(t, c, word) PROVE word' = word
  BY <1>2 DEF Ask
<1>3. ASSUME NEW old \in Nat, NEW new \in Nat, NEW c, OptimisticElse(t, old, new, c)
      PROVE  word' = word \/ Ptr(word') = 0
  BY <1>3, Nulls DEF OptimisticElse, OptimisticUpdate
<1>4. ASSUME NEW old \in Nat, NEW new \in Nat, NEW ok, OptimisticUpdate(t, old, new, ok)
      PROVE  Ptr(word') = 0
  BY <1>4, Nulls DEF OptimisticUpdate
<1>5. ASSUME NEW state \in Nat, NEW ok, Set(t, state, ok) PROVE Ptr(word') = 0
  BY <1>5, Nulls DEF Set
<1>6. CASE TryLock(t) \/ TryLockExclusive(t)
  BY <1>1, <1>4, <1>6 DEF TryLock, TryLockExclusive
<1>7. CASE Lock(t) \/ LockShared(t) \/ LockExclusive(t)
  BY <1>1, <1>3, <1>7 DEF Lock, LockShared, LockExclusive
<1>8. CASE TryLockShared(t) \/ UnlockShared(t) \/ WaitTurn(t) \/ TakeTurn(t)
  BY <1>2, <1>8 DEF TryLockShared, UnlockShared, WaitTurn, TakeTurn, Begin
<1>9. CASE Unlock(t) \/ UnlockExclusive(t) \/ SetTurn(t)
  BY <1>1, <1>5, <1>9 DEF Unlock, UnlockExclusive, SetTurn
<1> QED
  BY <1>6, <1>7, <1>8, <1>9 DEF Call, Continue

\* The state changes under the waiters only by an update that wakes nobody.
LEMMA StateStep ==
  ASSUME TInv, NEW t \in Thread, Call(t) \/ Step(t) \/ (SpuriousWake(t) /\ UNCHANGED client)
  PROVE  \/ StateOf(word') = StateOf(word)
         \/ Ptr(word') = 0
         \/ UpdateOk(t) /\ call[t].wake = "none" /\ UNCHANGED client
<1>1. CASE Call(t) \/ Continue(t)
  BY <1>1, QuietStates
<1>2. CASE UpdateOk(t) /\ UNCHANGED client
  BY <1>2, UpdateTyped
<1>3. CASE Enqueue(t)
  BY <1>3, Packed, Unpacked DEF Enqueue, TInv, Typed
<1>4. CASE UpdateErr(t) \/ BackOff(t) \/ Load(t) \/ Check(t) \/ Park(t) \/ SpuriousWake(t) \/ WakeStep(t)
  <2>1. word' = word
    BY <1>4 DEF UpdateErr, BackOff, Load, Ask, Check, Park, SpuriousWake, WakeStep, Read, Mark, Unpark
  <2> QED
    BY <2>1
<1> QED
  BY <1>1, <1>2, <1>3, <1>4 DEF Step, CallStep, UpdateStep, WaitStep

LEMMA StrandedInQueue ==
  /\ Stranded = {t \in Queue : Decision(call[t], word).does # "wait"}
  /\ Stranded' = {t \in Queue' : Decision(call'[t], word').does # "wait"}
<1>1. Chain(Ptr(word)) = Queue
  BY ChainIsFrom DEF Queue
<1>2. Chain(Ptr(word))' = Queue'
  BY DEF Chain, From, Follows, Closed, Queue
<1> QED
  BY <1>1, <1>2 DEF Stranded, Decision

\* Another reader, or a writer that gets the lock, is nothing to wake for.
LEMMA WaitersWait ==
  ASSUME LocksInvariant, NEW t \in Thread, UpdateOk(t), call[t].wake = "none", LockStep(t),
         held[t] = "shared" => held'[t] = "shared",
         NEW s \in Parked, Decision(call[s], word).does = "wait", word' \in Words
  PROVE  Decision(call[s], word').does = "wait"
<1> USE DEF LocksInvariant, WaitersInv, LocksInv
<1>1. /\ word \in Words /\ word' \in Words /\ client \in {"mutex", "rwlock", "turns"}
      /\ pc[t] = "update" /\ s \in Thread /\ CallFits(t) /\ CallFits(s)
      /\ Decision(call[t], word).does = "update" /\ StateOf(word) \in State
  BY Unpacked DEF UpdateOk, TInv, Typed, Decided, Parked, CallsFit
<1>2. client # "turns"
  <2>1. client = "turns" => call[t] \in TurnsCalls
    BY <1>1 DEF CallFits, TurnsCall
  <2> QED
    BY <1>1, <2>1 DEF TurnsCalls, Decision
<1>3. held[t] # "exclusive"
  BY <1>1, HeldFields DEF HeldBy
<1>4. call[s] = LockCall \/ call[s] \in {LockSharedCall, LockExclusiveCall}
  BY <1>1, <1>2 DEF CallFits, MutexCall, RwLockCall, Parked, WaitPCs
<1>5. client = "mutex" => call[s] = LockCall
  BY <1>1 DEF CallFits, MutexCall, Parked, WaitPCs
<1>6. CASE Keeps(t)
  BY <1>2, <1>6 DEF Keeps, Decision
<1>7. CASE GainsShared(t)
  <2>0. StateOf(word) \in Nat /\ UNLOCKED = 0
    BY <1>1, Marks
  <2>1. StateOf(word') # UNLOCKED
    BY <1>7, <2>0 DEF GainsShared
  <2>2. Decision(LockSharedCall, word).does # "wait"
    BY <1>1, <1>7, SharedDecision, Does DEF GainsShared, OneMore
  <2> QED
    BY <1>1, <1>4, <2>1, <2>2, ExclusiveDecision, Does
<1>8. CASE GainsExclusive(t)
  <2>1. StateOf(word) = UNLOCKED
    BY <1>8 DEF GainsExclusive
  <2>2. Decision(LockCall, word).does # "wait" /\ Decision(LockExclusiveCall, word).does # "wait"
    BY <1>1, <2>1, ExclusiveDecision, Does
  <2>3. Decision(LockSharedCall, word).does # "wait"
    BY <1>1, <2>1, SharedDecision, Does, Marks DEF OneMore
  <2> QED
    BY <1>4, <2>2, <2>3
<1> QED
  BY <1>3, <1>6, <1>7, <1>8 DEF LockStep, DropsShared, DropsExclusive

LEMMA StrandedStep ==
  ASSUME LocksInvariant, TInv', ListInv', NEW t \in Thread,
         Call(t) \/ Step(t) \/ (SpuriousWake(t) /\ UNCHANGED client),
         held[t] = "shared" => held'[t] = "shared",
         Stranded = {}
  PROVE  Stranded' = {}
<1> SUFFICES ASSUME NEW s \in Queue' PROVE Decision(call'[s], word').does = "wait"
  BY StrandedInQueue
<1>1. TInv /\ ListInv /\ ListStep(t) /\ LockStep(t) /\ Elsewhere(t)
  BY NextTyped, NextFits DEF LocksInvariant, WaitersInv, Fits, LockStep
<1>2. call'[s] = call[s] /\ s \in IF Enqueue(t) THEN Queue \cup {t} ELSE Queue
  BY <1>1, QueueCalls, QueueStep
<1>3. ASSUME s \in Queue
      PROVE  s \in Parked /\ Decision(call[s], word).does = "wait"
  BY <1>1, <1>3, StrandedInQueue DEF ListInv, Spread, Waiting
<1>4. CASE Enqueue(t)
  <2>1. StateOf(word') = StateOf(word) /\ word = cur[t] /\ Decision(call[t], cur[t]).does = "wait"
    BY <1>1, <1>4, Packed, Unpacked DEF Enqueue, TInv, Typed, Decided
  <2> QED
    BY <1>2, <1>3, <2>1 DEF Decision
<1>5. CASE StateOf(word') = StateOf(word) /\ ~Enqueue(t)
  BY <1>2, <1>3, <1>5 DEF Decision
<1>6. CASE Ptr(word') = 0
  <2>1. Queue' = {}
    BY <1>6, FromNull DEF Queue
  <2> QED
    BY <2>1
<1>7. CASE UpdateOk(t) /\ call[t].wake = "none" /\ ~Enqueue(t)
  <2>1. word' \in Words
    BY DEF TInv, Typed
  <2> QED
    BY <1>1, <1>2, <1>3, <1>7, <2>1, WaitersWait
<1> QED
  BY <1>1, <1>4, <1>5, <1>6, <1>7, StateStep

\* Only a reader that unlocks strands anybody.
THEOREM ReadersStrand == Spec => StrandedByReaders
<1> DEFINE Keep == \A t \in Thread : held[t] = "shared" => held'[t] = "shared"
<1>1. LocksInvariant /\ LocksInvariant' /\ [Next]_vars
        => [Stranded = {} /\ Keep => Stranded' = {}]_vars
  <2> SUFFICES ASSUME LocksInvariant, LocksInvariant', Next, Stranded = {}, Keep
               PROVE  Stranded' = {}
    OBVIOUS
  <2>1. PICK t \in Thread : Call(t) \/ Step(t) \/ (SpuriousWake(t) /\ UNCHANGED client)
    BY DEF Next
  <2> QED
    BY <2>1, StrandedStep DEF LocksInvariant, WaitersInv
<1> QED
  BY <1>1, LocksInvariance, PTL DEF Spec, StrandedByReaders

Stays == client # "rwlock" => Stranded = {}

LEMMA InitStays == Init => Stays
<1> SUFFICES ASSUME Init PROVE Stranded = {}
  BY DEF Stays
<1>1. PICK n \in Nat : word = NullState(NewTruncated(n))
  BY DEF Init, CondInit, UNLOCKED
<1>2. Queue = {}
  BY <1>1, Nulls, FromNull DEF Queue
<1> QED
  BY <1>2, StrandedInQueue

\* Only a reader-writer lock has readers.
LEMMA NoReaders ==
  ASSUME LocksInvariant, client # "rwlock", NEW t \in Thread
  PROVE  held[t] # "shared"
<1>1. CallFits(t) /\ client \in {"mutex", "turns"}
  BY DEF LocksInvariant, LocksInv, CallsFit, WaitersInv, TInv, Typed
<1>2. CASE client = "mutex"
  <2>1. pc[t] # "shared" /\ call[t] \in {NoCall, LockCall}
    BY <1>1, <1>2 DEF CallFits, MutexCall, WaitPCs, WakePCs
  <2> QED
    BY <2>1, HeldFields, Fields DEF HeldBy
<1>3. CASE client = "turns"
  <2>1. UnlockSharedCall.err = "panicked"
    BY DEF UnlockSharedCall, CallOf
  <2> QED
    BY <1>1, <1>3, <2>1, HeldFields DEF CallFits, TurnsCall, TurnsCalls, HeldBy
<1> QED
  BY <1>1, <1>2, <1>3

LEMMA StepStays ==
  ASSUME LocksInvariant, LocksInvariant', Stays, [Next]_vars
  PROVE  Stays'
<1> SUFFICES ASSUME client' # "rwlock" PROVE Stranded' = {}
  BY DEF Stays
<1>1. CASE UNCHANGED vars
  BY <1>1, StrandedInQueue DEF vars, condVars, waiters, Stays, Queue, Decision
<1>2. CASE Next
  <2>1. PICK t \in Thread : Call(t) \/ Step(t) \/ (SpuriousWake(t) /\ UNCHANGED client)
    BY <1>2 DEF Next
  <2>2. client' = client
    BY <2>1, NextFits DEF LocksInvariant, WaitersInv, Fits, LockStep
  <2>3. Stranded = {} /\ held[t] # "shared"
    BY <2>2, NoReaders DEF Stays
  <2> QED
    BY <2>1, <2>3, StrandedStep DEF LocksInvariant, WaitersInv
<1> QED
  BY <1>1, <1>2

\* No wake-up is lost, by however many threads, for a mutex and for a state
\* that is set with a wake.
THEOREM NobodySleeps == Spec => []NobodySleepsInVain
<1>1. LocksInvariant /\ Stays => NobodySleepsInVain
  <2> SUFFICES ASSUME LocksInvariant, Stays, client # "rwlock", NEW t \in Parked,
                      Decision(call[t], word).does # "wait", ~ready[t]
               PROVE  \E s \in Thread : t \in ListOf(s)
    BY DEF NobodySleepsInVain
  <2>1. Spread(Waiting, Queue, Taken) /\ t \in Waiting
    BY DEF LocksInvariant, WaitersInv, ListInv, Waiting, Parked
  <2>2. t \notin Queue
    BY StrandedInQueue DEF Stays
  <2>3. PICK s \in Thread : t \in Taken[s]
    BY <2>1, <2>2 DEF Spread
  <2> QED
    BY <2>3, ChainIsFrom DEF Taken, ListOf
<1>2. LocksInvariant /\ LocksInvariant' /\ Stays /\ [Next]_vars => Stays'
  BY StepStays
<1> QED
  BY <1>1, <1>2, InitStays, LocksInvariance, PTL DEF Spec

\* A mutex that threads wait for is held by someone, who will wake them: they
\* never wait for each other only.
THEOREM WaitedForIsHeld ==
  Spec => [](client = "mutex" /\ Chain(Ptr(word)) # {} => \E t \in Thread : held[t] = "exclusive")
<1> DEFINE Held == client = "mutex" /\ Chain(Ptr(word)) # {} => \E t \in Thread : held[t] = "exclusive"
<1>1. LocksInvariant /\ Stays => Held
  <2> SUFFICES ASSUME LocksInvariant, Stays, client = "mutex", NEW s \in Queue,
                      \A t \in Thread : held[t] # "exclusive"
               PROVE  FALSE
    BY ChainIsFrom DEF Queue
  <2>1. s \in Parked /\ s \in Thread
    BY DEF LocksInvariant, WaitersInv, ListInv, Spread, Waiting, Parked
  <2>2. call[s] = LockCall
    BY <2>1 DEF LocksInvariant, LocksInv, CallsFit, CallFits, MutexCall, Parked, WaitPCs
  <2>3. Decision(LockCall, word).does = "wait" /\ word \in Words
    BY <2>2, StrandedInQueue DEF Stays, LocksInvariant, WaitersInv, TInv, Typed
  <2>4. StateOf(word) # UNLOCKED
    BY <2>3, ExclusiveDecision, Does
  <2>5. Sharers = {}
    BY NoReaders DEF Sharers
  <2>6. StateOf(word) = Cardinality(Sharers)
    BY DEF LocksInvariant, LocksInv, HoldersFit
  <2> QED
    BY <2>4, <2>5, <2>6, FS_EmptySet, Marks
<1>2. LocksInvariant /\ LocksInvariant' /\ Stays /\ [Next]_vars => Stays'
  BY StepStays
<1> QED
  BY <1>1, <1>2, InitStays, LocksInvariance, PTL DEF Spec

LEMMA ExclusiveSets ==
  ASSUME LocksInvariant, NEW t \in Thread, held[t] = "exclusive",
         Call(t) \/ Step(t) \/ (SpuriousWake(t) /\ UNCHANGED client)
  PROVE  Ptr(word') = 0
<1>1. pc[t] = "exclusive" /\ UNLOCKED \in Nat
  BY HeldFields, Marks, States DEF HeldBy
<1>2. client # "turns"
  BY <1>1 DEF LocksInvariant, LocksInv, CallsFit, CallFits, TurnsCall
<1>3. ~Call(t)
  BY <1>1 DEF Call, TryLock, Lock, TryLockExclusive, TryLockShared, LockShared, LockExclusive, At
<1>4. ~CallStep(t) /\ ~SpuriousWake(t)
  BY <1>1 DEF CallStep, UpdateStep, WaitStep, WakeStep, UpdateOk, UpdateErr, Enqueue, BackOff,
              Check, Park, Load, Read, Mark, Unpark, SpuriousWake
<1>5. Unlock(t) \/ UnlockExclusive(t)
  BY <1>1, <1>3, <1>4 DEF Step, Continue, UnlockShared, WaitTurn, SetTurn, TakeTurn, At
<1>6. Set(t, UNLOCKED, "idle")
  BY <1>5 DEF Unlock, UnlockExclusive
<1> QED
  BY <1>1, <1>6, Nulls DEF Set

\* Who gives up an exclusive lock leaves nobody behind: all that wait are
\* awake or to be woken.  What remains for WokenByUnlock is that they are.
THEOREM ExclusiveUnlockTakes ==
  Spec => [][\A t \in Thread : held[t] = "exclusive" /\ held'[t] # "exclusive" =>
               \A s \in Parked' : ready'[s] \/ \E u \in Thread : s \in ListOf(u)']_vars
<1>1. LocksInvariant /\ LocksInvariant' /\ [Next]_vars =>
        [\A t \in Thread : held[t] = "exclusive" /\ held'[t] # "exclusive" =>
           \A s \in Parked' : ready'[s] \/ \E u \in Thread : s \in ListOf(u)']_vars
  <2> SUFFICES ASSUME LocksInvariant, LocksInvariant', Next, NEW t \in Thread,
                      held[t] = "exclusive", held'[t] # "exclusive",
                      NEW s \in Parked', ~ready'[s]
               PROVE  \E u \in Thread : s \in ListOf(u)'
    OBVIOUS
  <2>1. PICK m \in Thread : Call(m) \/ Step(m) \/ (SpuriousWake(m) /\ UNCHANGED client)
    BY DEF Next
  <2>2. m = t
    BY <2>1, NextFits, HeldFields DEF LocksInvariant, WaitersInv, Fits, LockStep, Elsewhere
  <2>3. Queue' = {}
    BY <2>1, <2>2, ExclusiveSets, FromNull DEF Queue
  <2>4. Spread(Waiting', Queue', Taken') /\ s \in Waiting'
    BY DEF LocksInvariant, WaitersInv, ListInv, Waiting, Parked
  <2>5. PICK u \in Thread : s \in Taken'[u]
    BY <2>3, <2>4 DEF Spread
  <2>6. ListOf(u)' = Taken'[u]
    BY DEF ListOf, Taken, Chain, From, Follows, Closed
  <2> QED
    BY <2>5, <2>6
<1> QED
  BY <1>1, LocksInvariance, PTL DEF Spec
=============================================================================
