------------------------------ MODULE CondVar -------------------------------
(***************************************************************************)
(* CondVar (condvar.rs): a state that threads change and wait for.  The    *)
(* word holds the state and the address of the first waiter; a waiter is a *)
(* CondVarNode on the stack of a thread that parks, linked to the next.    *)
(*                                                                         *)
(* A step is one access of the word or of shared memory.  What a call does *)
(* is its closure, a function of the state to Update, Wait or Break.  The  *)
(* threads park by std::thread's tokens (park.rs); ParkYield's park always *)
(* returns, as a spurious wake does.                                       *)
(***************************************************************************)
EXTENDS PtrState, FiniteSets

CONSTANT Thread   \* a thread is named by the address of its node

ASSUME ThreadAssumption ==
  IsFiniteSet(Thread) /\ \A t \in Thread : t \in Nat \ {0} /\ t % Align = 0

VARIABLES
  word,    \* the AtomicPtrState
  next,    \* next[t], ready[t]: the fields of t's node
  ready,
  token,   \* token[t]: t has been unparked and not parked since
  pc,      \* pc[t]: what t does next, or what its call has led to
  call,    \* call[t]: the call that t is in
  cur,     \* cur[t]: `cur`, the word as t knows it
  node,    \* node[t]: `node_ref`, the node that t is waking
  rest     \* rest[t]: `node`, those that are left

waiters == <<next, ready, token>>
waking == <<node, rest>>
condVars == <<word, waiters, pc, call, cur, waking>>

\* CondVarUpdateOrWait
Update(state) == [does |-> "update", state |-> state]
Wait == [does |-> "wait", state |-> 0]
Break == [does |-> "break", state |-> 0]
Closures == [State -> [does : {"update", "wait", "break"}, state : Nat]]

\* f is the closure, wake the CondVarWake; Ok and Err lead on to these.
CallOf(f, wake, ok, err) == [f |-> f, wake |-> wake, ok |-> ok, err |-> err]
NoCall == CallOf([s \in State |-> Break], "none", "idle", "idle")

CallPCs == {"load", "update", "wait", "check", "park", "read", "mark", "unpark"}

CondTypeOK(OtherPCs) ==
  /\ Ptr(word) \in Thread \cup {0} /\ StateOf(word) \in State
  /\ next \in [Thread -> Thread \cup {0}]
  /\ ready \in [Thread -> BOOLEAN] /\ token \in [Thread -> BOOLEAN]
  /\ pc \in [Thread -> CallPCs \cup OtherPCs]
  /\ \A t \in Thread :
       /\ call[t].f \in Closures /\ call[t].wake \in {"none", "one", "all"}
       /\ call[t].ok \in OtherPCs /\ call[t].err \in OtherPCs
       /\ cur[t] = 0 \/ Ptr(cur[t]) \in Thread \cup {0}
  /\ node \in [Thread -> Thread \cup {0}] /\ rest \in [Thread -> Thread \cup {0}]

\* new, zero
CondInit(state) ==
  /\ word = NullState(NewTruncated(state))
  /\ next = [t \in Thread |-> 0] /\ ready = [t \in Thread |-> FALSE]
  /\ token = [t \in Thread |-> FALSE]
  /\ pc = [t \in Thread |-> "idle"]
  /\ call = [t \in Thread |-> NoCall]
  /\ cur = [t \in Thread |-> 0]
  /\ node = [t \in Thread |-> 0] /\ rest = [t \in Thread |-> 0]

Goto(t, where) == pc' = [pc EXCEPT ![t] = where]

-----------------------------------------------------------------------------
(* The calls that load the word and apply a closure to it: update_wait and  *)
(* wait with Wait, update and update_break without.                         *)

\* The call is over.
Leave(t, where) ==
  /\ Goto(t, where)
  /\ call' = [call EXCEPT ![t] = NoCall]
  /\ cur' = [cur EXCEPT ![t] = 0]

Decision(c, w) == c.f[StateOf(w)]

\* t in its call c has got w from the word and asks its closure.
Ask(t, c, w) ==
  /\ IF Decision(c, w).does = "break" THEN Leave(t, c.err)
     ELSE /\ Goto(t, Decision(c, w).does)
          /\ call' = [call EXCEPT ![t] = c]
          /\ cur' = [cur EXCEPT ![t] = w]
  /\ UNCHANGED <<word, waiters, waking>>

Begin(t, c) == Ask(t, c, word)

Load(t) == pc[t] = "load" /\ Ask(t, call[t], word)

\* t has taken the waiters of w off the word and is to wake them.
WakeAll(t, w, where) ==
  IF Ptr(w) = 0 THEN Leave(t, where) /\ UNCHANGED waking
  ELSE /\ Goto(t, "read")
       /\ rest' = [rest EXCEPT ![t] = Ptr(w)]
       /\ cur' = [cur EXCEPT ![t] = 0]
       /\ UNCHANGED <<call, node>>

\* Mutant: a call that wakes nobody takes the waiters off as well.
Replacement_Null(t) == NullState(NewTruncated(Decision(call[t], cur[t]).state))

Replacement(t) ==
  LET state == NewTruncated(Decision(call[t], cur[t]).state) IN
  IF call[t].wake = "none" THEN WithState(cur[t], state) ELSE NullState(state)

UpdateOk(t) ==
  /\ pc[t] = "update"
  /\ word = cur[t]
  /\ word' = Replacement(t)
  /\ WakeAll(t, IF call[t].wake = "none" THEN NullState(0) ELSE cur[t], call[t].ok)
  /\ UNCHANGED waiters

\* The weak exchange fails, perhaps spuriously.
UpdateErr(t) == pc[t] = "update" /\ Ask(t, call[t], word)

\* Mutant: the waiter enqueues whatever the state is by now.
Enqueue_Late(t) ==
  /\ pc[t] = "wait"
  /\ word' = New(t, StateOf(word))
  /\ next' = [next EXCEPT ![t] = Ptr(word)]
  /\ Goto(t, "check")
  /\ cur' = [cur EXCEPT ![t] = 0]
  /\ UNCHANGED <<ready, token, call, waking>>

Enqueue(t) ==
  /\ pc[t] = "wait"
  /\ word = cur[t]
  /\ word' = New(t, StateOf(cur[t]))
  /\ next' = [next EXCEPT ![t] = Ptr(cur[t])]
  /\ Goto(t, "check")
  /\ cur' = [cur EXCEPT ![t] = 0]
  /\ UNCHANGED <<ready, token, call, waking>>

\* The exchange fails, or t only backs off and loads the word again.
BackOff(t) == pc[t] = "wait" /\ Ask(t, call[t], word)

\* The node goes out of scope when it is ready.
Check(t) ==
  /\ pc[t] = "check"
  /\ IF ready[t] THEN /\ Goto(t, "load")
                      /\ ready' = [ready EXCEPT ![t] = FALSE]
                      /\ next' = [next EXCEPT ![t] = 0]
     ELSE Goto(t, "park") /\ UNCHANGED <<ready, next>>
  /\ UNCHANGED <<word, token, call, cur, waking>>

Park(t) ==
  /\ pc[t] = "park"
  /\ token[t]
  /\ token' = [token EXCEPT ![t] = FALSE]
  /\ Goto(t, "check")
  /\ UNCHANGED <<word, next, ready, call, cur, waking>>

\* "Spurious wakeups are allowed" (park.rs:54).
SpuriousWake(t) ==
  /\ pc[t] = "park"
  /\ Goto(t, "check")
  /\ UNCHANGED <<word, waiters, call, cur, waking>>

-----------------------------------------------------------------------------
(* Waking: for each node its unpark and next are read, ready is stored, and *)
(* the thread is unparked, in this order.                                   *)

\* Mutant: ready is stored as soon as the node is reached.
Read_Marks(t) ==
  /\ pc[t] = "read"
  /\ node' = [node EXCEPT ![t] = rest[t]]
  /\ rest' = [rest EXCEPT ![t] = next[rest[t]]]
  /\ ready' = [ready EXCEPT ![rest[t]] = TRUE]
  /\ Goto(t, "mark")
  /\ UNCHANGED <<word, next, token, call, cur>>

Read(t) ==
  /\ pc[t] = "read"
  /\ node' = [node EXCEPT ![t] = rest[t]]
  /\ rest' = [rest EXCEPT ![t] = next[rest[t]]]
  /\ Goto(t, "mark")
  /\ UNCHANGED <<word, waiters, call, cur>>

\* Mutant: the thread is made ready and not unparked.
Mark_Silent(t) ==
  /\ pc[t] = "mark"
  /\ ready' = [ready EXCEPT ![node[t]] = TRUE]
  /\ node' = [node EXCEPT ![t] = 0]
  /\ IF rest[t] = 0 THEN Leave(t, call[t].ok) ELSE Goto(t, "read") /\ UNCHANGED <<call, cur>>
  /\ UNCHANGED <<word, next, token, rest>>

Mark(t) ==
  /\ pc[t] = "mark"
  /\ ready' = [ready EXCEPT ![node[t]] = TRUE]
  /\ Goto(t, "unpark")
  /\ UNCHANGED <<word, next, token, call, cur, waking>>

\* Mutant: the waker stops after the first.
Unpark_First(t) ==
  /\ pc[t] = "unpark"
  /\ token' = [token EXCEPT ![node[t]] = TRUE]
  /\ node' = [node EXCEPT ![t] = 0]
  /\ rest' = [rest EXCEPT ![t] = 0]
  /\ Leave(t, call[t].ok)
  /\ UNCHANGED <<word, next, ready>>

Unpark(t) ==
  /\ pc[t] = "unpark"
  /\ token' = [token EXCEPT ![node[t]] = TRUE]
  /\ node' = [node EXCEPT ![t] = 0]
  /\ IF rest[t] = 0 THEN Leave(t, call[t].ok) ELSE Goto(t, "read") /\ UNCHANGED <<call, cur>>
  /\ UNCHANGED <<word, next, ready, rest>>

-----------------------------------------------------------------------------
(* The calls that do without a closure.                                     *)

\* Succeeds only if nobody waits.
OptimisticUpdate(t, old, new, ok) ==
  /\ word = NullState(NewTruncated(old))
  /\ word' = NullState(NewTruncated(new))
  /\ Goto(t, ok)
  /\ UNCHANGED <<waiters, call, cur, waking>>

\* ... and otherwise c is begun.
OptimisticElse(t, old, new, c) ==
  \/ OptimisticUpdate(t, old, new, c.ok)
  \/ /\ word # NullState(NewTruncated(old))
     /\ Goto(t, "load")
     /\ call' = [call EXCEPT ![t] = c]
     /\ UNCHANGED <<word, waiters, cur, waking>>

\* set, with One or All.
Set(t, state, ok) ==
  /\ word' = NullState(NewTruncated(state))
  /\ IF Ptr(word) = 0 THEN Goto(t, ok) /\ UNCHANGED <<call, rest>>
     ELSE /\ Goto(t, "read")
          /\ rest' = [rest EXCEPT ![t] = Ptr(word)]
          /\ call' = [call EXCEPT ![t] = [NoCall EXCEPT !.ok = ok]]
  /\ UNCHANGED <<waiters, cur, node>>

-----------------------------------------------------------------------------
\* update_break_no_wake has but the first of these loops, update_break_wake
\* the first and the last.
UpdateStep(t) == UpdateOk(t) \/ UpdateErr(t)

WaitStep(t) == Enqueue(t) \/ BackOff(t) \/ Check(t) \/ Park(t) \/ Load(t)

WakeStep(t) == Read(t) \/ Mark(t) \/ Unpark(t)

CallStep(t) == UpdateStep(t) \/ WaitStep(t) \/ WakeStep(t)
-----------------------------------------------------------------------------
(* Properties.                                                              *)
Parked == {t \in Thread : pc[t] \in {"check", "park"}}

\* A waker reads and marks only nodes whose owner is still in its loop, and
\* which no waker has marked: the node lives on the owner's stack, and the
\* owner may return as soon as it is ready (condvar.rs:189-191, 221).
NodesAlive ==
  \A t \in Thread :
    /\ pc[t] = "read" => rest[t] \in Parked /\ ~ready[rest[t]]
    /\ pc[t] = "mark" => node[t] \in Parked /\ ~ready[node[t]]

\* The nodes from n on: those in every set that has n and, with a node, the
\* next one.
Follows(nodes, n) == n \in nodes \cup {0} /\ \A m \in nodes : next[m] \in nodes \cup {0}
Chain(n) == {m \in Thread : \A nodes \in SUBSET Thread : Follows(nodes, n) => m \in nodes}

\* Every thread that is to be woken waits in one place: on the list of the
\* word, on the list a waker has taken, or as the node the waker is at.  None
\* is forgotten by a change of the state and none is in two lists.
ListOf(t) == Chain(rest[t]) \cup (IF pc[t] = "mark" THEN {node[t]} ELSE {})
WaitersInOneList ==
  /\ {t \in Parked : ~ready[t]} = Chain(Ptr(word)) \cup UNION {ListOf(t) : t \in Thread}
  /\ \A t \in Thread : ListOf(t) \cap Chain(Ptr(word)) = {}
  /\ \A s, t \in Thread : s # t => ListOf(s) \cap ListOf(t) = {}

\* A thread that has been made ready does not sleep on: it has its token, or
\* its waker is about to unpark it, whatever late tokens of earlier waits the
\* thread has consumed.
ReadyIsUnparked ==
  \A t \in Thread :
    pc[t] = "park" /\ ready[t] => token[t] \/ \E s \in Thread : pc[s] = "unpark" /\ node[s] = t
=============================================================================
