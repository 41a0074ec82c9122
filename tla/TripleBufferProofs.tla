------------------------- MODULE TripleBufferProofs -------------------------
(***************************************************************************)
(* Theorems about TripleBuffer for every set of values.                    *)
(***************************************************************************)
EXTENDS TripleBuffer, TLAPS

(* The words that the swaps write decode to what was encoded.               *)
LEMMA Words ==
  ASSUME NEW i \in Idx
  PROVE  /\ Published(i) \in Flags /\ Pending(Published(i)) = i /\ ~Consumed(Published(i))
         /\ Returned(i) \in Flags /\ Pending(Returned(i)) = i /\ Consumed(Returned(i))
<1>1. i \in {0, 1, 2}
  BY DEF Idx
<1>2. i + 4 \in 0 .. 7 /\ (i + 4) % 4 = i /\ ((i + 4) \div 4) % 2 # 0
  BY <1>1
<1>3. i \in 0 .. 7 /\ i % 4 = i /\ (i \div 4) % 2 = 0
  BY <1>1
<1> QED
  BY <1>2, <1>3 DEF Published, Returned, Flags, Pending, Consumed, INDEX_COUNT, PENDING_BIT

LEMMA ThreeIndices ==
  ASSUME NEW x, NEW y, NEW z
  PROVE  {x, y, z} = Idx <=>
           x \in Idx /\ y \in Idx /\ z \in Idx /\ x # y /\ x # z /\ y # z
<1>1. Idx = {0, 1, 2}
  BY DEF Idx
<1> QED
  BY <1>1

LEMMA SplitIndices ==
  ASSUME NEW i \in Idx
  PROVE  {i, Other(i), Other(Other(i))} = Idx
BY ThreeIndices DEF Idx, Other

-----------------------------------------------------------------------------
(* Types and indices: whatever the client calls.                            *)
IndexInv == TypeOK /\ IndicesDistinct

LEMMA InitIndex == Init => IndexInv
<1> SUFFICES ASSUME Init PROVE IndexInv
  OBVIOUS
<1>1. 0 \in Idx /\ FLAGS_INIT = Returned(0) /\ FLAGS_INIT \in Flags
  BY Words DEF Idx, FLAGS_INIT, Returned
<1>2. Pending(FLAGS_INIT) = 0
  BY <1>1, Words
<1>3. IndicesDistinct
  BY <1>1, <1>2, SplitIndices DEF Init, IndicesDistinct
<1>4. producer \in Idx /\ consumer \in Idx
  BY <1>3, ThreeIndices DEF IndicesDistinct
<1>5. TypeOK
  BY <1>1, <1>4 DEF Init, TypeOK, Fate
<1> QED
  BY <1>3, <1>5 DEF IndexInv

LEMMA NextIndex == IndexInv /\ [Next]_vars => IndexInv'
<1> SUFFICES ASSUME IndexInv, [Next]_vars PROVE IndexInv'
  OBVIOUS
<1>1. /\ TypeOK /\ Pending(flags) \in Idx /\ producer \in Idx /\ consumer \in Idx
      /\ Pending(flags) # producer /\ Pending(flags) # consumer /\ producer # consumer
  BY ThreeIndices DEF IndexInv, IndicesDistinct
<1>2. CASE UNCHANGED vars
  BY <1>2 DEF vars, sides, IndexInv, IndicesDistinct, TypeOK
<1>3. CASE BeginWrite \/ EndWrite
  <2>1. IndicesDistinct'
    BY <1>3 DEF BeginWrite, EndWrite, IndexInv, IndicesDistinct
  <2>2. TypeOK'
    BY <1>1, <1>3 DEF BeginWrite, EndWrite, TypeOK, Fate
  <2> QED
    BY <2>1, <2>2 DEF IndexInv
<1>4. CASE Publish
  <2>1. flags' \in Flags /\ Pending(flags') = producer /\ producer' = Pending(flags)
    BY <1>1, <1>4, Words DEF Publish
  <2>2. IndicesDistinct'
    <3>1. {Pending(flags'), producer', consumer'} = {Pending(flags), producer, consumer}
      BY <1>4, <2>1 DEF Publish
    <3> QED
      BY <3>1 DEF IndexInv, IndicesDistinct
  <2>3. TypeOK'
    BY <1>1, <1>4, <2>1 DEF Publish, TypeOK, Fate, Consumed
  <2> QED
    BY <2>2, <2>3 DEF IndexInv
<1>5. CASE Consume
  <2>1. flags' \in Flags /\ Pending(flags') = consumer /\ consumer' = Pending(flags)
    BY <1>1, <1>5, Words DEF Consume, Swap
  <2>2. IndicesDistinct'
    <3>1. {Pending(flags'), producer', consumer'} = {Pending(flags), producer, consumer}
      BY <1>5, <2>1 DEF Consume, Swap
    <3> QED
      BY <3>1 DEF IndexInv, IndicesDistinct
  <2>3. TypeOK'
    BY <1>1, <1>5, <2>1 DEF Consume, Swap, TypeOK, Fate, Consumed
  <2> QED
    BY <2>2, <2>3 DEF IndexInv
<1>6. CASE BeginAccess \/ EndAccess
  <2>1. IndicesDistinct'
    BY <1>6 DEF BeginAccess, EndAccess, IndexInv, IndicesDistinct
  <2>2. TypeOK'
    BY <1>1, <1>6 DEF BeginAccess, EndAccess, TypeOK
  <2> QED
    BY <2>1, <2>2 DEF IndexInv
<1>7. CASE SplitMut
  <2>1. IndicesDistinct'
    BY <1>1, <1>7, SplitIndices DEF SplitMut, IndicesDistinct
  <2>2. producer' \in Idx /\ consumer' \in Idx
    BY <2>1, ThreeIndices DEF IndicesDistinct
  <2>3. TypeOK'
    BY <1>1, <1>7, <2>2 DEF SplitMut, TypeOK
  <2> QED
    BY <2>1, <2>3 DEF IndexInv
<1> QED
  BY <1>2, <1>3, <1>4, <1>5, <1>6, <1>7 DEF Next, ProducerStep, ConsumerStep

THEOREM IndexInvariance == Spec => []IndexInv
BY InitIndex, NextIndex, PTL DEF Spec

(* The types of the buffer's state are correct.                             *)
THEOREM TypeCorrect == Spec => []TypeOK
<1>1. IndexInv => TypeOK
  BY DEF IndexInv
<1> QED
  BY <1>1, IndexInvariance, PTL

(* The three indices are always the three elements: the unchecked           *)
(* conversion of the word never meets a 3 (triple.rs:193).                  *)
THEOREM IndicesArePermutation == Spec => []IndicesDistinct
<1>1. IndexInv => IndicesDistinct
  BY DEF IndexInv
<1> QED
  BY <1>1, IndexInvariance, PTL

(* The pending bit is cleared by a consume alone, which takes the element.  *)
THEOREM PendingStable == Spec => PendingUntilConsumed
<1>1. IndexInv /\ [Next]_vars
        => [~Consumed(flags) /\ Consumed(flags') => consumer' = Pending(flags)]_vars
  <2> SUFFICES ASSUME IndexInv, Next, ~Consumed(flags), Consumed(flags')
               PROVE  consumer' = Pending(flags)
    OBVIOUS
  <2>1. ~Publish
    BY Words DEF Publish, IndexInv, TypeOK
  <2>2. flags' # flags
    OBVIOUS
  <2>3. Consume
    BY <2>1, <2>2 DEF Next, ProducerStep, ConsumerStep, BeginWrite, EndWrite,
                      BeginAccess, EndAccess, SplitMut
  <2> QED
    BY <2>3 DEF Consume, Swap
<1> QED
  BY <1>1, IndexInvariance, PTL DEF Spec, PendingUntilConsumed

-----------------------------------------------------------------------------
(* Exclusive access to the elements, for clients of the safe methods: the   *)
(* consumer is never inside an element that is not its own.                 *)
BorrowInv == borrowed \in {NoSlot, consumer}

LEMMA NextBorrow == BorrowInv /\ [Next]_vars => BorrowInv'
<1> SUFFICES ASSUME borrowed \in {NoSlot, consumer}, [Next]_vars
             PROVE  borrowed' \in {NoSlot, consumer'}
  BY DEF BorrowInv
<1>1. CASE borrowed = NoSlot /\ borrowed' = borrowed
  BY <1>1
<1>2. CASE borrowed # NoSlot /\ borrowed' = borrowed /\ consumer' = consumer
  BY <1>2
<1>3. CASE BeginAccess \/ EndAccess
  BY <1>3 DEF BeginAccess, EndAccess
<1> QED
  BY <1>1, <1>2, <1>3
     DEF Next, ProducerStep, ConsumerStep, BeginWrite, EndWrite, Publish,
         Consume, Swap, SplitMut, vars, sides

(* Producer and consumer are never inside the same element.                 *)
THEOREM NoRaces == Spec => []NoRace
<1>1. Init => BorrowInv
  BY DEF Init, BorrowInv
<1>2. IndexInv /\ BorrowInv => NoRace
  <2>1. NoSlot \notin Idx
    BY DEF NoSlot, Idx
  <2>2. IndexInv => producer \in Idx /\ producer # consumer
    BY ThreeIndices DEF IndexInv, IndicesDistinct
  <2> QED
    BY <2>1, <2>2 DEF BorrowInv, NoRace
<1> QED
  BY <1>1, <1>2, NextBorrow, IndexInvariance, PTL DEF Spec

-----------------------------------------------------------------------------
(* What is published sits under the pending bit or has come back to the     *)
(* producer, as long as the buffer is split once.                           *)
FateInv ==
  ~resplit =>
    /\ ~Consumed(flags) <=> fate[Pending(flags)] = "published"
    /\ fate[consumer] # "published"
    /\ LastConsumedTrue

LEMMA NextFate == IndexInv /\ FateInv /\ [Next]_vars => FateInv'
<1> SUFFICES ASSUME IndexInv, FateInv, ~resplit', [Next]_vars
             PROVE  /\ ~Consumed(flags') <=> fate'[Pending(flags')] = "published"
                    /\ fate'[consumer'] # "published"
                    /\ LastConsumedTrue'
  BY DEF FateInv
<1>0. ~resplit /\ ~SplitMut
  BY DEF Next, ProducerStep, ConsumerStep, BeginWrite, EndWrite, Publish, Consume, Swap,
         BeginAccess, EndAccess, SplitMut, vars
<1>1. /\ Pending(flags) \in Idx /\ producer \in Idx /\ consumer \in Idx
      /\ Pending(flags) # producer /\ Pending(flags) # consumer /\ producer # consumer
      /\ fate \in [Idx -> Fate]
      /\ ~Consumed(flags) <=> fate[Pending(flags)] = "published"
      /\ fate[consumer] # "published"
      /\ LastConsumedTrue
  BY <1>0, ThreeIndices DEF IndexInv, IndicesDistinct, TypeOK, FateInv
<1>2. CASE UNCHANGED vars
  BY <1>1, <1>2 DEF vars, sides, LastConsumedTrue
<1>3. CASE BeginWrite \/ EndWrite
  BY <1>1, <1>3 DEF BeginWrite, EndWrite, LastConsumedTrue
<1>4. CASE Publish
  <2>1. Pending(flags') = producer /\ ~Consumed(flags')
    BY <1>1, <1>4, Words DEF Publish
  <2> QED
    BY <1>1, <1>4, <2>1 DEF Publish, LastConsumedTrue
<1>5. CASE Consume
  <2>1. Pending(flags') = consumer /\ Consumed(flags')
    BY <1>1, <1>5, Words DEF Consume, Swap
  <2> QED
    BY <1>1, <1>5, <2>1 DEF Consume, Swap, LastConsumedTrue
<1>6. CASE BeginAccess \/ EndAccess
  BY <1>1, <1>6 DEF BeginAccess, EndAccess, LastConsumedTrue
<1> QED
  BY <1>0, <1>2, <1>3, <1>4, <1>5, <1>6 DEF Next, ProducerStep, ConsumerStep

(* last_consumed is the truth about the element the producer got back.      *)
THEOREM LastConsumedCorrect == Spec => []LastConsumedTrue
<1>1. Init => FateInv
  <2> SUFFICES ASSUME Init PROVE FateInv
    OBVIOUS
  <2>1. IndexInv
    BY InitIndex
  <2>2. Consumed(flags)
    BY Words DEF Init, FLAGS_INIT, Idx, Returned
  <2> QED
    BY <2>1, <2>2, ThreeIndices
       DEF Init, FateInv, LastConsumedTrue, IndexInv, IndicesDistinct
<1>2. FateInv => LastConsumedTrue
  BY DEF FateInv, LastConsumedTrue
<1> QED
  BY <1>1, <1>2, NextFate, IndexInvariance, PTL DEF Spec

-----------------------------------------------------------------------------
(* The refinement: each cell of the mailbox has an element of its own.      *)
ValueInv ==
  /\ ~Consumed(flags) => elements[Pending(flags)] \in Value
  /\ dirty \/ ~last_consumed => elements[producer] \in Value

LEMMA NextValue == IndexInv /\ BorrowInv /\ ValueInv /\ [Next]_vars => ValueInv'
<1> SUFFICES ASSUME IndexInv, BorrowInv, ValueInv, [Next]_vars PROVE ValueInv'
  OBVIOUS
<1>1. /\ Pending(flags) \in Idx /\ producer \in Idx /\ consumer \in Idx
      /\ Pending(flags) # producer /\ Pending(flags) # consumer /\ producer # consumer
      /\ elements \in [Idx -> Value \cup {Nothing}] /\ borrowed \in {NoSlot, consumer}
  BY ThreeIndices DEF IndexInv, IndicesDistinct, TypeOK, BorrowInv
<1>2. CASE UNCHANGED vars
  BY <1>2 DEF vars, sides, ValueInv
<1>3. CASE BeginWrite \/ EndWrite
  BY <1>1, <1>3 DEF BeginWrite, EndWrite, ValueInv
<1>4. CASE Publish
  <2>1. Pending(flags') = producer
    BY <1>1, <1>4, Words DEF Publish
  <2> QED
    BY <1>4, <2>1 DEF Publish, ValueInv
<1>5. CASE Consume
  <2>1. Consumed(flags')
    BY <1>1, <1>5, Words DEF Consume, Swap
  <2> QED
    BY <1>5, <2>1 DEF Consume, Swap, ValueInv
<1>6. CASE BeginAccess \/ EndAccess
  BY <1>1, <1>6 DEF BeginAccess, EndAccess, ValueInv
<1>7. CASE SplitMut
  BY <1>7 DEF SplitMut, ValueInv
<1> QED
  BY <1>2, <1>3, <1>4, <1>5, <1>6, <1>7 DEF Next, ProducerStep, ConsumerStep

LEMMA MailboxStep ==
  IndexInv /\ BorrowInv /\ ValueInv /\ [Next]_vars
    => [AsMailbox!Next]_<<draft, box, held>>
<1> SUFFICES ASSUME IndexInv, BorrowInv, ValueInv, [Next]_vars
             PROVE  AsMailbox!Next \/ (draft' = draft /\ box' = box /\ held' = held)
  OBVIOUS
<1>1. /\ Pending(flags) \in Idx /\ producer \in Idx /\ consumer \in Idx
      /\ Pending(flags) # producer /\ Pending(flags) # consumer /\ producer # consumer
      /\ elements \in [Idx -> Value \cup {Nothing}] /\ borrowed \in {NoSlot, consumer}
      /\ last_consumed \in BOOLEAN /\ last_published \in BOOLEAN /\ dirty \in BOOLEAN
  BY ThreeIndices DEF IndexInv, IndicesDistinct, TypeOK, BorrowInv
<1>2. CASE UNCHANGED vars
  BY <1>2 DEF vars, sides, draft, box, held
<1>3. CASE BeginWrite \/ BeginAccess
  BY <1>3 DEF BeginWrite, BeginAccess, draft, box, held
<1>4. CASE EndWrite
  <2>1. PICK v \in Value : elements' = [elements EXCEPT ![producer] = v]
    BY <1>4 DEF EndWrite
  <2>2. draft' = v /\ box' = box /\ held' = held
    BY <1>1, <1>4, <2>1 DEF EndWrite, draft, box, held
  <2> QED
    BY <2>2 DEF AsMailbox!Next, AsMailbox!Write
<1>5. CASE Publish
  <2>1. Pending(flags') = producer /\ ~Consumed(flags')
    BY <1>1, <1>5, Words DEF Publish
  <2>2. draft = elements[producer] /\ draft # Nothing
    BY <1>5, ValueAssumption DEF Publish, draft, ValueInv
  <2>3. box' = elements[producer] /\ held' = held
    BY <1>5, <2>1 DEF Publish, box, held
  <2>4. draft' = box
    BY <1>5 DEF Publish, draft, box
  <2> QED
    BY <2>2, <2>3, <2>4 DEF AsMailbox!Next, AsMailbox!Publish
<1>6. CASE Consume
  <2>1. Consumed(flags')
    BY <1>1, <1>6, Words DEF Consume, Swap
  <2>2. box' = Nothing /\ held' = box /\ draft' = draft
    BY <1>6, <2>1 DEF Consume, Swap, draft, box, held
  <2> QED
    BY <2>2 DEF AsMailbox!Next, AsMailbox!Consume
<1>7. CASE EndAccess
  <2>1. CASE UNCHANGED elements
    BY <1>7, <2>1 DEF EndAccess, draft, box, held
  <2>2. CASE elements' = [elements EXCEPT ![borrowed] = Nothing]
    <3>1. borrowed = consumer
      BY <1>1, <1>7 DEF EndAccess
    <3>2. draft' = draft /\ box' = box /\ held' = Nothing
      BY <1>1, <1>7, <2>2, <3>1 DEF EndAccess, draft, box, held
    <3> QED
      BY <3>2 DEF AsMailbox!Next, AsMailbox!Take
  <2> QED
    BY <1>7, <2>1, <2>2 DEF EndAccess
<1>8. CASE SplitMut
  BY <1>8 DEF SplitMut, draft, box, held, AsMailbox!Next, AsMailbox!Reset
<1> QED
  BY <1>2, <1>3, <1>4, <1>5, <1>6, <1>7, <1>8 DEF Next, ProducerStep, ConsumerStep

(* TripleBuffer implements the mailbox for clients of the safe methods,     *)
(* however often they split it.                                             *)
THEOREM Implements == Spec => ImplementsMailbox
<1>1. Init => ValueInv /\ BorrowInv /\ AsMailbox!Init
  <2> SUFFICES ASSUME Init PROVE ValueInv /\ BorrowInv /\ AsMailbox!Init
    OBVIOUS
  <2>1. Consumed(flags)
    BY Words DEF Init, FLAGS_INIT, Idx, Returned
  <2> QED
    BY <2>1 DEF Init, ValueInv, BorrowInv, AsMailbox!Init, draft, box, held
<1>2. IndexInv /\ BorrowInv /\ ValueInv /\ [Next]_vars => ValueInv'
  BY NextValue
<1>3. IndexInv /\ BorrowInv /\ ValueInv /\ [Next]_vars
        => [AsMailbox!Next]_<<draft, box, held>>
  BY MailboxStep
<1>4. [AsMailbox!Next]_<<draft, box, held>> <=> [AsMailbox!Next]_AsMailbox!cells
  BY DEF AsMailbox!cells
<1> QED
  BY <1>1, <1>2, <1>3, <1>4, NextBorrow, IndexInvariance, PTL
     DEF Spec, ImplementsMailbox, AsMailbox!Spec
=============================================================================
