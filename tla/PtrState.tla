------------------------------ MODULE PtrState ------------------------------
(***************************************************************************)
(* PtrState (state_ptr.rs): an address and a small state in one word.  The *)
(* address is a multiple of Align, which leaves the low bits to the state. *)
(***************************************************************************)
EXTENDS Integers

CONSTANT Align   \* align_of::<T>(), 256 for a CondVarNode

ASSUME AlignAssumption == Align \in Nat \ {0}

STATE_MASK == Align - 1
State == 0 .. STATE_MASK

NewTruncated(value) == value % Align

Ptr(w) == w - (w % Align)

StateOf(w) == w % Align

New(ptr, state) == ptr + state

NullState(state) == New(0, state)

WithState(w, state) == New(Ptr(w), state)
=============================================================================
