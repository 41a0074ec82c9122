----------------------------- MODULE TripleIdx ------------------------------
(***************************************************************************)
(* The word of a TripleBuffer (triple.rs): the index of the pending        *)
(* element in its two low bits and, above them, the bit that says it was   *)
(* published and not yet consumed.                                         *)
(***************************************************************************)
EXTENDS Naturals

Idx == 0 .. 2

Other(i) == IF i = 2 THEN 0 ELSE i + 1

INDEX_COUNT == 4    \* INDEX_MASK keeps two bits
PENDING_BIT == 4
FLAGS_INIT == 0

\* The bit patterns the two low bits and PENDING_BIT can make.
Flags == 0 .. INDEX_COUNT + PENDING_BIT - 1

\* from_bits_unchecked(flags & INDEX_MASK), which must not be 3.
Pending(flags) == flags % INDEX_COUNT

\* flags & PENDING_BIT == 0
Consumed(flags) == (flags \div PENDING_BIT) % 2 = 0

\* Mutants: publish forgets the bit, consume keeps it.
Published_NoBit(producer) == producer
Returned_KeepsBit(consumer) == consumer + PENDING_BIT

\* The words that publish and consume swap in.
Published(producer) == producer + PENDING_BIT
Returned(consumer) == consumer
=============================================================================
