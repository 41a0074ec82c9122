-------------------------------- MODULE Ring --------------------------------
(***************************************************************************)
(* A RingBuffer (ring_buffer.rs) as a value, and what its methods make of  *)
(* it: values in a circular array that grows when it is full.  RingBuffer  *)
(* and FlipBuffer are built from it.                                       *)
(*                                                                         *)
(* A slot whose value was moved out or dropped holds None, as does one     *)
(* that has never been written: to read it would be undefined behaviour.   *)
(***************************************************************************)
EXTENDS Integers, Sequences, Functions

CONSTANTS
  Value,              \* what may be pushed
  None,               \* no value: an uninitialised slot, Option::None
  MIN_NON_ZERO_CAP,   \* 8, 4 or 1, by the size of a value
  MaxCap              \* bound on the capacity

ASSUME NoneAssumption == None \notin Value
ASSUME CapAssumption == MIN_NON_ZERO_CAP \in Nat \ {0} /\ MaxCap \in Nat

\* array[i] is slot i, cap is array.len().
RingOf(c) == [array : [0 .. c - 1 -> Value \cup {None}], cap : {c}, head : 0 .. c, len : 0 .. c]
Rings == UNION {RingOf(c) : c \in 0 .. MaxCap}

WithCapacity(c) == [array |-> [i \in 0 .. c - 1 |-> None], cap |-> c, head |-> 0, len |-> 0]

RingIndex(h, i, c) == IF c - h > i THEN h + i ELSE i - (c - h)

NewCap(c) == IF 2 * c > MIN_NON_ZERO_CAP THEN 2 * c ELSE MIN_NON_ZERO_CAP

FrontLen(r) == IF r.len < r.cap - r.head THEN r.len ELSE r.cap - r.head

\* as_slice_pointers, as_mut_slice_pointers, as the slots they cover.
FrontSlice(r) == [i \in 1 .. FrontLen(r) |-> r.head + i - 1]

\* Mutant: the second slice is as long as the buffer.
BackSlice_Len(r) == [i \in 1 .. IF FrontLen(r) = r.len THEN 0 ELSE r.len |-> i - 1]

BackSlice(r) == [i \in 1 .. r.len - FrontLen(r) |-> i - 1]

\* The slots in the order of their values, and the values.
Window(r) == [i \in 1 .. r.len |-> RingIndex(r.head, i - 1, r.cap)]

Contents(r) == [i \in 1 .. r.len |-> r.array[Window(r)[i]]]

\* The slots that hold a value are those of the window.
ExactWindow(r) ==
  /\ r.cap > 0 => r.head < r.cap
  /\ \A i \in 0 .. r.cap - 1 : r.array[i] # None <=> i \in Range(Window(r))

\* The array after the values in these slots are gone.
Without(r, slots) == [i \in 0 .. r.cap - 1 |-> IF i \in slots THEN None ELSE r.array[i]]

-----------------------------------------------------------------------------
(* push, pop and clear.                                                     *)
Stored(r, v) ==
  [r EXCEPT !.array[RingIndex(r.head, r.len, r.cap)] = v, !.len = @ + 1]

\* Mutant: the values are copied as they lie.
Grown_Straight(r, v, c) ==
  [array |-> [i \in 0 .. c - 1 |-> IF i < r.cap THEN r.array[i] ELSE IF i = r.cap THEN v ELSE None],
   cap |-> c, head |-> 0, len |-> r.cap + 1]

Grown(r, v, c) ==
  [array |-> [i \in 0 .. c - 1 |-> IF i < r.cap - r.head THEN r.array[r.head + i]
                                   ELSE IF i < r.cap THEN r.array[i - (r.cap - r.head)]
                                   ELSE IF i = r.cap THEN v ELSE None],
   cap |-> c, head |-> 0, len |-> r.cap + 1]

\* Vec::with_capacity may allocate more than it is asked for; new_cap panics
\* when there is nothing left to ask for, and nothing has changed then.
AfterPush(r, v) ==
  IF r.len < r.cap THEN {Stored(r, v)}
  ELSE IF NewCap(r.cap) > MaxCap THEN {r}
  ELSE {Grown(r, v, c) : c \in NewCap(r.cap) .. MaxCap}

First(r) == IF r.len = 0 THEN None ELSE r.array[r.head]

\* Mutant: the head does not wrap around.
AfterPop_NoWrap(r) ==
  IF r.len = 0 THEN r
  ELSE [r EXCEPT !.array = Without(r, {r.head}), !.head = @ + 1, !.len = @ - 1]

AfterPop(r) ==
  IF r.len = 0 THEN r
  ELSE [r EXCEPT !.array = Without(r, {r.head}), !.head = (@ + 1) % r.cap, !.len = @ - 1]

Cleared(r) ==
  [r EXCEPT !.array = Without(r, Range(FrontSlice(r)) \cup Range(BackSlice(r))),
            !.head = 0, !.len = 0]
=============================================================================
