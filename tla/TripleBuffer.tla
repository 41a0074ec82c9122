---------------------------- MODULE TripleBuffer ----------------------------
(***************************************************************************)
(* TripleBuffer with its two halves, TripleBufferProducer and              *)
(* TripleBufferConsumer (triple.rs).  The halves run concurrently; they    *)
(* share the word `flags`, which each touches with one atomic swap or      *)
(* load, and the three elements, which are plain memory: an access to one  *)
(* has a beginning and an end.  The swaps are AcqRel, so that what a side  *)
(* wrote to an element is seen by the side that gets it.                   *)
(***************************************************************************)
EXTENDS TripleIdx

CONSTANTS
  Value,         \* what the producer may write
  Nothing        \* T::default(), the content before any write

ASSUME ValueAssumption == Nothing \notin Value

NoSlot == 3

VARIABLES
  flags,           \* the AtomicU8
  elements,        \* elements[i]
  producer,        \* the producer's index
  last_consumed,   \* what its last publish returned
  writing,         \* it is in the middle of an access to its element
  dirty,           \* it has written to its element and not published it
  consumer,        \* the consumer's index
  last_published,  \* what its last consume returned
  borrowed,        \* the element it is in the middle of an access to, or NoSlot
  fate,            \* history: fate[i] of the value in element i
  resplit          \* history: the buffer has been split more than once

sides == <<producer, last_consumed, writing, dirty, consumer, last_published, borrowed, resplit>>
vars == <<flags, elements, sides, fate, resplit>>

Fate == {"unpublished", "published", "consumed"}

TypeOK ==
  /\ flags \in Flags
  /\ elements \in [Idx -> Value \cup {Nothing}]
  /\ producer \in Idx /\ consumer \in Idx
  /\ borrowed \in Idx \cup {NoSlot}
  /\ last_consumed \in BOOLEAN /\ last_published \in BOOLEAN
  /\ writing \in BOOLEAN /\ dirty \in BOOLEAN
  /\ fate \in [Idx -> Fate]
  /\ resplit \in BOOLEAN

\* Mutant: the indices start as those of Broadcast::new do.
Init_Alias ==
  /\ flags = FLAGS_INIT
  /\ elements = [i \in Idx |-> Nothing]
  /\ producer = 0 /\ consumer = Other(0)
  /\ last_consumed = TRUE /\ last_published = FALSE
  /\ writing = FALSE /\ dirty = FALSE
  /\ borrowed = NoSlot
  /\ fate = [i \in Idx |-> "unpublished"]
  /\ resplit = FALSE

\* A new buffer and its first split.
Init ==
  /\ flags = FLAGS_INIT
  /\ elements = [i \in Idx |-> Nothing]
  /\ producer = Other(Pending(FLAGS_INIT))
  /\ consumer = Other(Other(Pending(FLAGS_INIT)))
  /\ last_consumed = TRUE /\ last_published = FALSE
  /\ writing = FALSE /\ dirty = FALSE
  /\ borrowed = NoSlot
  /\ fate = [i \in Idx |-> "unpublished"]
  /\ resplit = FALSE

-----------------------------------------------------------------------------
(* The producer.                                                            *)

\* get_mut, set, set_from, set_from_borrow
BeginWrite ==
  /\ ~writing
  /\ writing' = TRUE
  /\ UNCHANGED <<flags, elements, producer, last_consumed, dirty,
                 consumer, last_published, borrowed, fate, resplit>>

EndWrite ==
  /\ writing
  /\ writing' = FALSE /\ dirty' = TRUE
  /\ \E v \in Value : elements' = [elements EXCEPT ![producer] = v]
  /\ fate' = [fate EXCEPT ![producer] = "unpublished"]
  /\ UNCHANGED <<flags, producer, last_consumed, consumer, last_published, borrowed, resplit>>

\* Mutants of publish: last_consumed is left as it was; the pending bit is
\* toggled.
Publish_StaleFlag ==
  /\ ~writing /\ (dirty \/ ~last_consumed)
  /\ flags' = Published(producer)
  /\ producer' = Pending(flags)
  /\ dirty' = FALSE
  /\ fate' = [fate EXCEPT ![producer] = "published"]
  /\ UNCHANGED <<elements, last_consumed, writing, consumer, last_published, borrowed, resplit>>

Publish_Toggle ==
  /\ ~writing /\ (dirty \/ ~last_consumed)
  /\ flags' = IF Consumed(flags) THEN Published(producer) ELSE Returned(producer)
  /\ producer' = Pending(flags)
  /\ last_consumed' = Consumed(flags)
  /\ dirty' = FALSE
  /\ fate' = [fate EXCEPT ![producer] = "published"]
  /\ UNCHANGED <<elements, writing, consumer, last_published, borrowed, resplit>>

\* publish, the second half of send.  "This method must be called AFTER
\* writing"; an element that came back unconsumed may also be republished.
Publish ==
  /\ ~writing /\ (dirty \/ ~last_consumed)
  /\ flags' = Published(producer)
  /\ producer' = Pending(flags)
  /\ last_consumed' = Consumed(flags)
  /\ dirty' = FALSE
  /\ fate' = [fate EXCEPT ![producer] = "published"]
  /\ UNCHANGED <<elements, writing, consumer, last_published, borrowed, resplit>>

-----------------------------------------------------------------------------
(* The consumer.                                                            *)

Swap ==
  /\ flags' = Returned(consumer)
  /\ consumer' = Pending(flags)
  /\ last_published' = ~Consumed(flags)
  /\ fate' = IF Consumed(flags) THEN fate ELSE [fate EXCEPT ![Pending(flags)] = "consumed"]
  /\ UNCHANGED <<elements, producer, last_consumed, writing, dirty, resplit>>

Consume ==
  /\ borrowed = NoSlot
  /\ Swap
  /\ UNCHANGED borrowed

\* get, get_mut, read, read_into
BeginAccess ==
  /\ borrowed = NoSlot
  /\ borrowed' = consumer
  /\ UNCHANGED <<flags, elements, producer, last_consumed, writing, dirty,
                 consumer, last_published, fate, resplit>>

\* The access ends; a client that wants to keep the value takes it out.
EndAccess ==
  /\ borrowed # NoSlot
  /\ borrowed' = NoSlot
  /\ \/ UNCHANGED elements
     \/ elements' = [elements EXCEPT ![borrowed] = Nothing]
  /\ UNCHANGED <<flags, producer, last_consumed, writing, dirty,
                 consumer, last_published, fate, resplit>>

-----------------------------------------------------------------------------
\* Mutant: the consumer's index is other() of the wrong one.
SplitMut_Same ==
  /\ ~writing /\ borrowed = NoSlot
  /\ producer' = Other(Pending(flags))
  /\ consumer' = Other(Pending(flags))
  /\ last_consumed' = TRUE /\ last_published' = FALSE
  /\ dirty' = FALSE /\ resplit' = TRUE
  /\ UNCHANGED <<flags, elements, writing, borrowed, fate>>

\* split_mut, which needs the exclusive borrow of the buffer that ends with
\* the halves; split_arc can only be called once.
SplitMut ==
  /\ ~writing /\ borrowed = NoSlot
  /\ producer' = Other(Pending(flags))
  /\ consumer' = Other(Other(Pending(flags)))
  /\ last_consumed' = TRUE /\ last_published' = FALSE
  /\ dirty' = FALSE /\ resplit' = TRUE
  /\ UNCHANGED <<flags, elements, writing, borrowed, fate>>

ProducerStep == BeginWrite \/ EndWrite \/ Publish
ConsumerStep == Consume \/ BeginAccess \/ EndAccess

Next == ProducerStep \/ ConsumerStep \/ SplitMut

Spec == Init /\ [][Next]_vars
-----------------------------------------------------------------------------
(* Properties.                                                              *)

\* "Producer and consumer indices are two other values in set {0, 1, 2}"
\* (triple.rs:186): with it the low bits are never 3, the precondition of
\* from_bits_unchecked (triple.rs:193).
IndicesDistinct == {Pending(flags), producer, consumer} = Idx

\* The two sides are never inside the same element: the safety comments
\* "Only this instance owns the producer index" (triple.rs:506) and
\* "consumer index is kept correct" (triple.rs:633).
NoRace == ~(writing /\ borrowed = producer)

\* The producer is told the truth about the element it gets back, whatever
\* the consumer does between two publishes: it was published and nobody has
\* consumed it exactly if last_consumed is false (triple.rs:607).
LastConsumedTrue ==
  ~writing /\ ~dirty /\ ~resplit => (last_consumed <=> fate[producer] # "published")

\* Only the consumer clears the pending bit, and it then owns the element
\* that had it: a published() once seen to hold stays true until the
\* consumer's own call (relied on by the assertion at broad.rs:46).
PendingUntilConsumed ==
  [][~Consumed(flags) /\ Consumed(flags') => consumer' = Pending(flags)]_vars

\* The buffer is a mailbox: nothing is lost but what the producer overwrites
\* knowingly, nothing is received twice, and what is received is the newest.
draft == IF dirty \/ ~last_consumed THEN elements[producer] ELSE Nothing
box   == IF Consumed(flags) THEN Nothing ELSE elements[Pending(flags)]
held  == IF last_published THEN elements[consumer] ELSE Nothing
AsMailbox == INSTANCE Mailbox
ImplementsMailbox == AsMailbox!Spec
=============================================================================
