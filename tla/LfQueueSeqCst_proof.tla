----------------------- MODULE LfQueueSeqCst_proof -----------------------
(***************************************************************************)
(* The queue with consistency_sequential, whatever the number of threads   *)
(* and pages: its types, and that a consumer has the page it is in pinned; *)
(* then who writes which control word (LfQueueWords), what a producer      *)
(* finds in the block it has reserved, and that the queue is not           *)
(* truncated.                                                              *)
(***************************************************************************)
EXTENDS LfQueueWords, LfQueueOrder_proof

\* Only the program counter of a put changes, to a step that asks no more.
LEMMA Goes ==
    ASSUME prod \in [Producers -> Producer], ProducersOK, NEW p \in Producers,
           prod[p].pc \in ProducerPC \ {"idle", "pending", "load_tail"},
           NEW pc \in {"store", "settle", "store_pad", "settle_pad", "help_store", "help_tail",
                       "unpin_helped", "help_recheck", "fill", "give_up"},
           pc \notin {"fill", "give_up"} => prod[p].tail \in Block,
           pc = "store" => prod[p].tail[2] + prod[p].size <= EndSlot,
           PGoto(p, pc)
    PROVE  prod' \in [Producers -> Producer] /\ ProducersOK'
<1> DEFINE r == [prod[p] EXCEPT !.pc = pc]
<1>1. prod[p] \in Producer /\ ProducerOK(p)
  BY DEF ProducersOK
<1>2. prod' = [prod EXCEPT ![p] = r] /\ r \in Producer
  BY <1>1 DEF PGoto, Producer, ProducerPC
<1>3. ProducerOK(p)'
  BY <1>1, <1>2 DEF ProducerOK, Producer, ProducerPC
<1> QED
  BY <1>2, <1>3, Updated

\* What is known of a put that has an allocation to do, and of the tail.
LEMMA LoopFacts ==
    ASSUME TailInv, NEW p \in Producers
    PROVE  /\ prod[p] \in Producer /\ ProducerOK(p) /\ prod \in [Producers -> Producer]
           /\ m_tail \in Block \cup {InvalidBlock} /\ m_rest \in Nat
           /\ m_tail[2] \in Nat /\ m_tail[2] + m_rest <= EndSlot /\ EndSlot \in Nat
           /\ prod[p].size \in Nat /\ prod[p].rest \in Nat
BY TailBlocks, BaseAssumption DEF TailInv, TailTypeOK, TailOK, ProducersOK, Producer

\* A reservation ends: the tail moves past it.
LEMMA ReservationEnds ==
    ASSUME TailInv, m_tail \in Block, m_tail' = NewTail(m_tail, m_rest), m_rest' = 0
    PROVE  m_tail' \in Block /\ m_rest' \in 0 .. EndSlot /\ TailOK'
<1>1. m_rest \in Nat /\ m_tail[2] + m_rest <= EndSlot
  BY BaseAssumption DEF TailInv, TailTypeOK, TailOK
<1>2. m_tail' \in Block
  BY <1>1, BlockAfter DEF NewTail
<1>3. m_tail'[2] \in Nat /\ m_tail'[2] <= EndSlot
  BY <1>2, TailBlocks, BaseAssumption
<1> QED
  BY <1>2, <1>3, BaseAssumption DEF TailOK

\* try_inplace_allocate_impl without help.
LEMMA ReserveSteps ==
    ASSUME MemoryOK, TailInv, NEW p \in Producers,
           Reserve(p) \/ StoreBlock(p) \/ Settle(p) \/ TooSlow(p)
    PROVE  MemoryOK' /\ TailInv' /\ PinsKept
<1> USE DEF MemoryOK, TailInv
<1>1. prod[p] \in Producer /\ ProducerOK(p) /\ prod \in [Producers -> Producer]
  BY DEF TailTypeOK, ProducersOK
<1>2. /\ m_tail \in Block \cup {InvalidBlock} /\ m_rest \in Nat
      /\ m_tail[2] \in Nat /\ m_tail[2] + m_rest <= EndSlot /\ EndSlot \in Nat
      /\ prod[p].size \in Nat /\ prod[p].rest \in Nat
  BY LoopFacts
<1>3. CASE Reserve(p)
  <2>1. /\ prod[p].pc = "try" /\ prod[p].size > 0
        /\ prod[p].tail[2] + prod[p].size <= EndSlot
        /\ prod[p].tail \in Block \cup {InvalidBlock}
    BY <1>1, <1>3 DEF Reserve, PAt, Fits, ProducerOK
  <2>2. prod[p].tail \in Block
    BY <1>2, <2>1, TailBlocks
  <2>3. ASSUME TailIs(prod[p].tail, 0), m_rest' = prod[p].size, PGoto(p, "store"),
               UNCHANGED m_tail
        PROVE  prod' \in [Producers -> Producer] /\ ProducersOK' /\ TailOK'
               /\ m_rest' \in 0 .. EndSlot
    <3>1. prod' \in [Producers -> Producer] /\ ProducersOK'
      BY <1>1, <2>1, <2>2, <2>3, Goes DEF ProducerPC
    <3>2. m_rest' \in 0 .. EndSlot
      BY <1>2, <2>1, <2>2, <2>3, TailBlocks
    <3>3. TailOK'
      BY <2>1, <2>2, <2>3 DEF TailIs, TailOK
    <3> QED
      BY <3>1, <3>2, <3>3
  <2>4. ASSUME Retry(p, m_tail, m_rest)
        PROVE  prod' \in [Producers -> Producer] /\ ProducersOK'
    BY <1>1, <1>2, <2>1, <2>4, Retried
  <2>5. ASSUME PGoto(p, "give_up")
        PROVE  prod' \in [Producers -> Producer] /\ ProducersOK'
    BY <1>1, <2>1, <2>5, Goes DEF ProducerPC
  <2>6. /\ prod' \in [Producers -> Producer] /\ ProducersOK' /\ TailOK'
        /\ m_rest' \in 0 .. EndSlot /\ UNCHANGED <<baseVars, m_tail>>
    <3>1. UNCHANGED <<baseVars, m_tail>>
      BY <1>3 DEF Reserve
    <3>2. UNCHANGED m_rest => TailOK' /\ m_rest' \in 0 .. EndSlot
      BY <3>1 DEF TailOK, TailTypeOK
    <3> QED
      BY <1>3, <2>3, <2>4, <2>5, <3>1, <3>2 DEF Reserve
  <2> QED
    BY <2>6 DEF baseVars, BaseTypeOK, WordsOK, TailTypeOK, PinsKept
<1>4. CASE StoreBlock(p)
  <2> DEFINE b == prod[p].tail
             n == NextWord(ReservedEnd(p), prod[p].flags)
  <2>1. prod[p].pc = "store" /\ b \in Block /\ b[2] + prod[p].size <= EndSlot
    BY <1>1, <1>4 DEF StoreBlock, PAt, ProducerOK
  <2>2. ReservedEnd(p) \in Block
    BY <1>2, <2>1, BlockAfter DEF ReservedEnd, PAt, NewTail
  <2>3. n \in NextPtr /\ n.to \in Block
    BY <1>1, <2>2 DEF NextWord, NextPtr, BlockOrNull, Producer
  <2>4. m_next' = [m_next EXCEPT ![b] = n] /\ m_next' \in [Block -> NextPtr] /\ WordsOK'
    BY <1>4, <2>3 DEF StoreBlock, BaseTypeOK, WordsOK
  <2>5. status' \in [Element -> Status]
    BY <1>4 DEF StoreBlock, BaseTypeOK, Status
  <2> DEFINE r == IF "busy" \in n.flags
                  THEN [prod[p] EXCEPT !.pc = "settle", !.control = b, !.next = n]
                  ELSE [prod[p] EXCEPT !.pc = "settle"]
  <2>6. prod' = [prod EXCEPT ![p] = r]
    BY <1>1, <1>4 DEF StoreBlock, PGoto
  <2>7. r \in Producer
    BY <1>1, <2>1, <2>3 DEF Producer, ProducerPC, BlockOrNull
  <2> HIDE DEF n
  <2>8. ProducerOK(p)'
    BY <1>1, <2>1, <2>3, <2>6 DEF ProducerOK, Producer
  <2>9. prod' \in [Producers -> Producer] /\ ProducersOK'
    BY <1>1, <2>6, <2>7, <2>8, Updated
  <2> QED
    BY <1>4, <2>4, <2>5, <2>9 DEF StoreBlock, BaseTypeOK, TailTypeOK, TailOK, PinsKept
<1>5. CASE Settle(p)
  <2>1. prod[p].pc = "settle" /\ prod[p].tail \in Block
    BY <1>1, <1>5 DEF Settle, PAt, ProducerOK
  <2>2. prod' \in [Producers -> Producer] /\ ProducersOK'
    BY <1>1, <1>5, <2>1, Goes DEF Settle, ProducerPC
  <2>3. m_tail' \in Block \cup {InvalidBlock} /\ m_rest' \in 0 .. EndSlot /\ TailOK'
    <3>1. CASE TailIs(prod[p].tail, prod[p].size)
      BY <1>5, <2>1, <3>1, ReservationEnds DEF Settle, TailIs
    <3>2. CASE ~TailIs(prod[p].tail, prod[p].size)
      BY <1>5, <3>2 DEF Settle, TailTypeOK, TailOK
    <3> QED
      BY <3>1, <3>2
  <2> QED
    BY <1>5, <2>2, <2>3 DEF Settle, baseVars, BaseTypeOK, WordsOK, TailTypeOK, PinsKept
<1>6. CASE TooSlow(p)
  <2>1. prod' \in [Producers -> Producer] /\ ProducersOK'
    BY <1>1, <1>6, Goes DEF TooSlow, PAt, ProducerPC
  <2> QED
    BY <1>6, <2>1 DEF TooSlow, baseVars, BaseTypeOK, WordsOK, TailTypeOK, TailOK, PinsKept
<1> QED
  BY <1>3, <1>4, <1>5, <1>6

\* A producer that helps has seen a reservation in a page.
LEMMA HelpsInBlock ==
    ASSUME TailInv, NEW p \in Producers,
           Helps(p) \/ prod[p].pc \in {"unpin_helped", "help_recheck", "help_store", "help_tail"}
    PROVE  /\ prod[p].tail \in Block /\ prod[p].tail[2] + prod[p].rest <= EndSlot
           /\ prod[p].pc \in {"try", "unpin_helped", "help_recheck", "help_store", "help_tail"}
<1>1. /\ prod[p].tail \in Block \cup {InvalidBlock} /\ prod[p].rest \in Nat
      /\ prod[p].tail[2] + prod[p].rest <= EndSlot
      /\ prod[p].pc \in {"unpin_helped", "help_recheck", "help_store", "help_tail"}
            => prod[p].tail \in Block
  BY LoopFacts DEF ProducerOK, Helps, PAt
<1>2. Helps(p) => prod[p].pc = "try" /\ prod[p].rest # 0
  BY DEF Helps, PAt, InProgress
<1>3. InvalidBlock[2] = EndSlot /\ EndSlot \in Nat
  BY TailBlocks, BaseAssumption
<1> QED
  BY <1>1, <1>2, <1>3

\* The pins of a producer that helps.
LEMMA HelpPins ==
    ASSUME MemoryOK, TailInv, NEW p \in Producers,
           PinHelped(p) \/ UnpinHelped(p) \/ UnpinScoped(p)
    PROVE  MemoryOK' /\ TailInv' /\ PinsKept
<1> USE DEF MemoryOK, TailInv
<1>1. prod[p] \in Producer /\ ProducerOK(p) /\ prod \in [Producers -> Producer]
  BY LoopFacts
<1>2. pinners' \in [Pages -> SUBSET Holder] /\ PinsKept
  BY ProducerPins DEF PinHelped, UnpinHelped, UnpinScoped
<1>3. prod' \in [Producers -> Producer] /\ ProducersOK'
  <2>1. ASSUME prod[p].tail \in Block,
               prod[p].pc \in {"try", "unpin_helped"},
               prod' = [prod EXCEPT ![p].pc = "help_recheck", ![p].helped = PageOf(prod[p].tail)]
        PROVE  prod' \in [Producers -> Producer] /\ ProducersOK'
    <3> DEFINE page == PageOf(prod[p].tail)
               r == [prod[p] EXCEPT !.pc = "help_recheck", !.helped = page]
    <3>1. prod' = [prod EXCEPT ![p] = r]
      BY <1>1, <2>1
    <3>2. page \in Pages
      BY <2>1, Addresses
    <3>3. r \in Producer
      <4> HIDE DEF page
      <4> QED
        BY <1>1, <3>2 DEF Producer, ProducerPC
    <3>4. ProducerOK(p)'
      BY <1>1, <2>1, <3>1 DEF ProducerOK, Producer
    <3> QED
      BY <1>1, <3>1, <3>3, <3>4, Updated
  <2>2. CASE PinHelped(p)
    <3>1. Helps(p) /\ (PGoto(p, "unpin_helped") \/ prod' =
             [prod EXCEPT ![p].pc = "help_recheck", ![p].helped = PageOf(prod[p].tail)])
      BY <2>2 DEF PinHelped
    <3>2. prod[p].pc = "try" /\ prod[p].tail \in Block
      BY <3>1, HelpsInBlock DEF Helps, PAt
    <3> QED
      BY <1>1, <2>1, <3>1, <3>2, Goes DEF ProducerPC
  <2>3. CASE UnpinHelped(p)
    BY <2>1, <2>3, HelpsInBlock DEF UnpinHelped, PAt
  <2>4. CASE UnpinScoped(p)
    <3> DEFINE r == [prod[p] EXCEPT !.helped = NoPage]
    <3>1. prod' = [prod EXCEPT ![p] = r] /\ r \in Producer
      BY <1>1, <2>4 DEF UnpinScoped, Producer
    <3>2. ProducerOK(p)'
      BY <1>1, <3>1 DEF ProducerOK, Producer
    <3> QED
      BY <1>1, <3>1, <3>2, Updated
  <2> QED
    BY <2>2, <2>3, <2>4
<1> QED
  BY <1>2, <1>3 DEF PinHelped, UnpinHelped, UnpinScoped, BaseTypeOK, WordsOK, TailTypeOK, TailOK

\* Completing the reservation of another producer.
LEMMA HelpSteps ==
    ASSUME MemoryOK, TailInv, NEW p \in Producers,
           RecheckHelped(p) \/ HelpStore(p) \/ HelpTail(p)
    PROVE  MemoryOK' /\ TailInv' /\ PinsKept
<1> USE DEF MemoryOK, TailInv
<1>1. prod[p] \in Producer /\ ProducerOK(p) /\ prod \in [Producers -> Producer]
  BY LoopFacts
<1>2. /\ prod[p].tail \in Block /\ prod[p].tail[2] + prod[p].rest <= EndSlot
      /\ prod[p].pc \in {"try", "help_recheck", "help_store", "help_tail"}
  BY HelpsInBlock DEF RecheckHelped, HelpStore, HelpTail, PAt, Helps
<1>3. /\ m_tail \in Block \cup {InvalidBlock} /\ m_rest \in Nat
      /\ m_tail[2] + m_rest <= EndSlot /\ EndSlot \in Nat
  BY LoopFacts
<1>4. CASE RecheckHelped(p)
  <2>1. PGoto(p, "help_store") \/ Retry(p, m_tail, m_rest)
    BY <1>4 DEF RecheckHelped
  <2>2. prod' \in [Producers -> Producer] /\ ProducersOK'
    BY <1>1, <1>2, <1>3, <2>1, Goes, Retried DEF ProducerPC
  <2> QED
    BY <1>4, <2>2 DEF RecheckHelped, baseVars, BaseTypeOK, WordsOK, TailTypeOK, TailOK, PinsKept
<1>5. CASE HelpStore(p)
  <2>1. prod' \in [Producers -> Producer] /\ ProducersOK'
    BY <1>1, <1>2, <1>5, Goes DEF HelpStore, ProducerPC
  <2>2. NewTail(prod[p].tail, prod[p].rest) \in Block
    BY <1>2, LoopFacts, BlockAfter DEF NewTail
  <2>3. m_next' = m_next \/ m_next' = [m_next EXCEPT ![prod[p].tail] =
                              NextWord(NewTail(prod[p].tail, prod[p].rest), {"busy"})]
    BY <1>5 DEF HelpStore
  <2>4. m_next' \in [Block -> NextPtr] /\ WordsOK'
    BY <2>2, <2>3 DEF BaseTypeOK, WordsOK, NextWord, NextPtr, BlockOrNull, Flag
  <2> QED
    BY <1>5, <2>1, <2>4 DEF HelpStore, BaseTypeOK, TailTypeOK, TailOK, PinsKept
<1>6. CASE HelpTail(p)
  <2>1. m_tail' \in Block \cup {InvalidBlock} /\ m_rest' \in 0 .. EndSlot /\ TailOK'
    <3>1. CASE TailIs(prod[p].tail, prod[p].rest) /\ m_tail' = NewTail(m_tail, m_rest)
               /\ m_rest' = 0
      BY <1>2, <3>1, ReservationEnds DEF TailIs
    <3>2. CASE UNCHANGED <<m_tail, m_rest>>
      BY <3>2 DEF TailTypeOK, TailOK
    <3> QED
      BY <1>6, <3>1, <3>2 DEF HelpTail
  <2>2. m_rest' \in Nat /\ m_tail'[2] + m_rest' <= EndSlot
    BY <1>3, <2>1 DEF TailOK
  <2>3. Retry(p, m_tail', m_rest') /\ UNCHANGED baseVars
    BY <1>6 DEF HelpTail
  <2>4. prod' \in [Producers -> Producer] /\ ProducersOK'
    BY <1>1, <1>2, <2>1, <2>2, <2>3, Retried
  <2> QED
    BY <2>1, <2>3, <2>4 DEF baseVars, BaseTypeOK, WordsOK, TailTypeOK, PinsKept
<1> QED
  BY <1>4, <1>5, <1>6

\* page_overflow: the rest of the page becomes one block, or several.
LEMMA PadSteps ==
    ASSUME MemoryOK, TailInv, NEW p \in Producers, Pad(p) \/ StorePad(p) \/ SettlePad(p)
    PROVE  MemoryOK' /\ TailInv' /\ PinsKept
<1> USE DEF MemoryOK, TailInv
<1>1. prod[p] \in Producer /\ ProducerOK(p) /\ prod \in [Producers -> Producer]
  BY LoopFacts
<1>2. /\ m_tail \in Block \cup {InvalidBlock} /\ m_rest \in Nat
      /\ m_tail[2] \in Nat /\ m_tail[2] + m_rest <= EndSlot /\ EndSlot \in Nat
      /\ prod[p].rest \in Nat
  BY LoopFacts
<1>3. CASE Pad(p)
  <2>1. prod[p].pc = "try" /\ prod[p].tail[2] # EndSlot
    BY <1>3 DEF Pad, PAt, AtEnd
  <2>2. CASE TailIs(prod[p].tail, 0)
    <3> DEFINE u == PadUnits(m_tail)
    <3>1. m_tail \in Block /\ m_rest = 0 /\ prod[p].tail = m_tail
      BY <1>2, <2>1, <2>2, TailBlocks DEF TailIs
    <3>2. u \in Nat /\ u <= EndSlot /\ m_tail[2] + u <= EndSlot
      BY <1>2, <3>1, SeqCstAssumption DEF PadUnits
    <3>3. m_rest' = u /\ prod' = [prod EXCEPT ![p].pc = "store_pad", ![p].rest = u]
      BY <1>3, <2>2 DEF Pad
    <3> HIDE DEF u
    <3> DEFINE r == [prod[p] EXCEPT !.pc = "store_pad", !.rest = u]
    <3>4. prod' = [prod EXCEPT ![p] = r] /\ r \in Producer
      BY <1>1, <3>2, <3>3 DEF Producer, ProducerPC
    <3>5. /\ prod'[p].pc = "store_pad" /\ prod'[p].rest = u
          /\ prod'[p].tail = m_tail /\ prod'[p].puts = prod[p].puts
          /\ prod'[p].size = prod[p].size /\ prod'[p].control = prod[p].control
          /\ prod'[p].next = prod[p].next
      BY <1>1, <3>1, <3>4 DEF Producer
    <3>6. ProducerOK(p)'
      BY <1>1, <2>1, <3>1, <3>2, <3>5 DEF ProducerOK
    <3>7. prod' \in [Producers -> Producer] /\ ProducersOK'
      BY <1>1, <3>4, <3>6, Updated
    <3>8. UNCHANGED <<baseVars, m_tail>>
      BY <1>3 DEF Pad
    <3> QED
      BY <1>2, <3>1, <3>2, <3>3, <3>7, <3>8 DEF baseVars, BaseTypeOK, WordsOK, TailTypeOK,
         TailOK, PinsKept
  <2>3. CASE ~TailIs(prod[p].tail, 0)
    <3>1. Retry(p, m_tail, m_rest) /\ UNCHANGED <<baseVars, m_tail, m_rest>>
      BY <1>3, <2>3 DEF Pad
    <3>2. prod' \in [Producers -> Producer] /\ ProducersOK'
      BY <1>1, <1>2, <2>1, <3>1, Retried
    <3> QED
      BY <3>1, <3>2 DEF baseVars, BaseTypeOK, WordsOK, TailTypeOK, TailOK, PinsKept
  <2> QED
    BY <2>2, <2>3
<1>4. CASE StorePad(p)
  <2>1. /\ prod[p].pc = "store_pad" /\ prod[p].tail \in Block
        /\ prod[p].tail[2] + prod[p].rest <= EndSlot
    BY <1>1, <1>4 DEF StorePad, PAt, ProducerOK
  <2>2. ReservedEnd(p) \in Block
    BY <1>2, <2>1, BlockAfter DEF ReservedEnd, PAt, NewTail
  <2>3. prod' \in [Producers -> Producer] /\ ProducersOK'
    BY <1>1, <1>4, <2>1, Goes DEF StorePad, ProducerPC
  <2>4. m_next' \in [Block -> NextPtr] /\ WordsOK'
    BY <1>4, <2>2 DEF StorePad, BaseTypeOK, WordsOK, NextWord, NextPtr, BlockOrNull, Flag
  <2> QED
    BY <1>4, <2>3, <2>4 DEF StorePad, BaseTypeOK, TailTypeOK, TailOK, PinsKept
<1>5. CASE SettlePad(p)
  <2>1. prod[p].pc = "settle_pad" /\ prod[p].tail \in Block
    BY <1>1, <1>5 DEF SettlePad, PAt, ProducerOK
  <2>2. m_tail' \in Block \cup {InvalidBlock} /\ m_rest' \in 0 .. EndSlot /\ TailOK'
    <3>1. CASE TailIs(prod[p].tail, prod[p].rest)
      BY <1>5, <2>1, <3>1, ReservationEnds DEF SettlePad, TailIs
    <3>2. CASE ~TailIs(prod[p].tail, prod[p].rest)
      BY <1>5, <3>2 DEF SettlePad, TailTypeOK, TailOK
    <3> QED
      BY <3>1, <3>2
  <2>3. m_rest' \in Nat /\ m_tail'[2] + m_rest' <= EndSlot
    BY <1>2, <2>2 DEF TailOK
  <2>4. Retry(p, m_tail', m_rest') /\ UNCHANGED baseVars
    BY <1>5 DEF SettlePad
  <2>5. prod' \in [Producers -> Producer] /\ ProducersOK'
    BY <1>1, <2>1, <2>2, <2>3, <2>4, Retried
  <2> QED
    BY <2>2, <2>4, <2>5 DEF baseVars, BaseTypeOK, WordsOK, TailTypeOK, PinsKept
<1> QED
  BY <1>3, <1>4, <1>5

\* IInv is inductive.
LEMMA NextKeepsIInv == IInv /\ [Next]_vars => IInv'
<1> SUFFICES ASSUME IInv, [Next]_vars PROVE IInv'
  OBVIOUS
<1>1. ASSUME NEW c \in Consumers, ConsumerNext(c), UNCHANGED tailVars
      PROVE  IInv'
  BY <1>1, ConsumerKeepsIInv
<1>2. ASSUME NEW p \in Producers, ProducerNext(p), UNCHANGED headVars
      PROVE  IInv'
  <2>1. MemoryOK' /\ TailInv' /\ PinsKept
    BY <1>2, Layers, ReserveSteps, HelpPins, HelpSteps, PadSteps, LoadAndGiveUp, FillStep, TransactionSteps,
       NextPageSteps, InitialSteps DEF ProducerNext, ProducerStep
  <2> QED
    BY <1>2, <2>1, ProducerKeepsIInv
<1>3. CASE UNCHANGED vars
  BY <1>3, StutterKeepsIInv
<1> QED
  BY <1>1, <1>2, <1>3 DEF Next

\* The inductive invariant holds in every reachable state.
THEOREM Invariance == Spec => []IInv
<1>1. Init => IInv
  BY InitIInv
<1>2. IInv /\ [Next]_vars => IInv'
  BY NextKeepsIInv
<1> QED
  BY <1>1, <1>2, PTL DEF Spec

\* Every variable keeps its type: in particular no block, padding included,
\* ends past the end control block of its page, whoever completes it.
THEOREM TypeCorrect == Spec => []TypeOK
<1>1. IInv => TypeOK
  BY DEF IInv
<1> QED
  BY <1>1, Invariance, PTL

\* A consumer has pinned the page of the block it is in, and between two
\* pages the one it enters, with this put layer too.
THEOREM PagesPinned == Spec => []ControlPinned
<1>1. IInv => ControlPinned
  BY DEF IInv
<1> QED
  BY <1>1, Invariance, PTL

---------------------------------------------------------------------------
(* What a step leaves of the words *)

\* The blocks of a page but its end, and the threads that own one.
LEMMA Owned ==
    ASSUME IInv, WordsInv
    PROVE  /\ \A x \in Pages : InPage(FirstBlock(x)) /\ PageOf(FirstBlock(x)) = x /\ FirstBlock(x)[2] = 0
           /\ \A b \in Block : m_next[b].to \in Block => m_next[b] # Zero
           /\ \A p \in Producers : Stores(p) => InPage(prod[p].tail) /\ ~Clear(prod[p].tail)
           /\ \A p \in Producers : Putting(p) => InPage(prod[p].control) /\ ~Clear(prod[p].control)
           /\ \A c \in Consumers : Takes(c) => InPage(cons[c].control) /\ ~Clear(cons[c].control)
<1>1. \A x \in Pages : InPage(FirstBlock(x)) /\ PageOf(FirstBlock(x)) = x /\ FirstBlock(x)[2] = 0
  BY Addresses, Spots DEF InPage, FirstBlock, PageOf
<1>2. NoBlock \notin Block /\ Zero.to = NoBlock /\ Zero.flags = {}
  BY Addresses DEF Zero
<1>3. \A p \in Producers : Stores(p) => InPage(prod[p].tail) /\ ~Clear(prod[p].tail)
  BY DEF WordsInv, StorerOK, Stores, Clear, Reserving
<1>4. \A p \in Producers : Putting(p) => InPage(prod[p].control) /\ ~Clear(prod[p].control)
  BY <1>2 DEF WordsInv, PutterHas, Clear
<1>5. \A c \in Consumers : Takes(c) => InPage(cons[c].control) /\ ~Clear(cons[c].control)
  <2>1. \A c \in Consumers : "busy" \in TakenWord(c).flags
    BY DEF TakenWord, NextWord
  <2>2. \A c \in Consumers : Takes(c) => InPage(cons[c].control) /\ m_next[cons[c].control] = TakenWord(c)
    BY DEF WordsInv, TakerHas
  <2> QED
    BY <1>2, <2>1, <2>2 DEF Clear
<1> QED
  BY <1>1, <1>2, <1>3, <1>4, <1>5

\* No block is reserved or gets its first word: pages are as blank as before.
ClearStays ==
    /\ \A b \in Block : b[2] < EndSlot => (Clear(b)' <=> Clear(b))
    /\ \A x \in Pages : m_next'[End(x)].to \in {m_next[End(x)].to, NoBlock}
    /\ \A x \in Pages : Spare(x)' => Spare(x)

\* Then the tail is as well placed, and can go to the same pages.
LEMMA PlaceStays ==
    ASSUME IInv, WordsInv, ClearStays, UNCHANGED <<m_tail, m_rest>>,
           m_initial_page # NoPage => m_initial_page' = m_initial_page
    PROVE  /\ \A x \in Pages : Spare(x)' => Blank(x)'
           /\ \A x : Enterable(x) => Enterable(x)'
           /\ \A x \in Pages : Gone(x) <=> Gone(x)'
           /\ m_initial_page' = m_initial_page => TailEnds'
           /\ m_tail \in Block => TailPage(PageOf(m_tail))'
<1>1. \A x \in Pages : Blank(x) => Blank(x)'
  <2> SUFFICES ASSUME NEW x \in Pages, Blank(x) PROVE Blank(x)'
    OBVIOUS
  <2>1. m_next'[End(x)].to = NoBlock
    BY DEF Blank, ClearStays
  <2>2. \A b \in Block : PageOf(b) = x /\ b[2] < EndSlot => Clear(b)'
    BY DEF Blank, ClearStays
  <2> QED
    BY <2>1, <2>2 DEF Blank
<1>2. \A x : Enterable(x) => Enterable(x)'
  BY <1>1 DEF Enterable, ClearStays
<1>3. \A x \in Pages : Gone(x) <=> Gone(x)'
  <2>1. \A x \in Pages : Clear(FirstBlock(x))' <=> Clear(FirstBlock(x))
    BY Owned DEF ClearStays, InPage
  <2> QED
    BY <2>1 DEF Gone
<1>4. ASSUME m_tail \in Block PROVE TailPage(PageOf(m_tail))'
  <2> DEFINE x == PageOf(m_tail)
  <2>1. TailPage(x) /\ x \in Pages
    BY <1>4, Spots DEF WordsInv, TailEnds
  <2>2. ~Spare(x)'
    BY <2>1 DEF TailPage, ClearStays
  <2>3. \A b \in Block : PageOf(b) = x /\ m_tail[2] <= b[2] /\ b[2] < EndSlot /\ (b = m_tail => m_rest = 0)
           => Clear(b)'
    BY <2>1 DEF TailPage, ClearStays
  <2>4. m_tail[2] > 0 => ~Clear(FirstBlock(x))'
    BY <2>1, Owned DEF TailPage, ClearStays, InPage
  <2>5. m_tail[2] < EndSlot => m_next'[End(x)].to = NoBlock
    BY <2>1 DEF TailPage, ClearStays
  <2>6. ASSUME ~(m_tail[2] < EndSlot), m_next'[m_tail].to # NoBlock
        PROVE  \E y \in Pages : m_next'[m_tail].to = FirstBlock(y) /\ Enterable(y)'
    <3>1. m_tail = End(x)
      BY <1>4, <2>6, Spots
    <3>2. m_next'[m_tail].to = m_next[m_tail].to
      BY <2>1, <2>6, <3>1 DEF ClearStays
    <3> QED
      BY <1>2, <2>1, <2>6, <3>2 DEF TailPage
  <2> HIDE DEF x
  <2> QED
    BY <2>2, <2>3, <2>4, <2>5, <2>6 DEF TailPage, x
<1>5. m_initial_page' = m_initial_page => TailEnds'
  BY <1>2, <1>4 DEF WordsInv, TailEnds
<1>6. \A x \in Pages : Spare(x)' => Blank(x)'
  BY <1>1 DEF WordsInv, SparesBlank, ClearStays
<1> QED
  BY <1>2, <1>3, <1>4, <1>5, <1>6

\* A producer at the end of a page has not moved.
LEMMA CreatorsStay ==
    ASSUME IInv, WordsInv, ClearStays, UNCHANGED <<m_tail, m_rest>>,
           m_initial_page # NoPage => m_initial_page' = m_initial_page,
           NEW q \in Producers, prod'[q] = prod[q]
    PROVE  CreatorKnows(q)'
<1>1. CreatorKnows(q)
  BY DEF WordsInv
<1>2. \A x : Enterable(x) => Enterable(x)'
  BY PlaceStays
<1>3. \A x \in Pages : Gone(x) => Gone(x)'
  BY PlaceStays
<1>4. prod[q].tail \in Block => PageOf(prod[q].tail) \in Pages
  BY Spots
<1> QED
  BY <1>1, <1>2, <1>3, <1>4 DEF CreatorKnows

\* A block that is reserved gets its word before its reservation is over.
WordsGrow ==
    /\ \A b \in Block : b[2] < EndSlot /\ m_next'[b] = Zero => m_next[b] = Zero
    /\ \A p \in Producers : Stores(p) =>
          \/ m_next'[prod[p].tail] # Zero
          \/ Stores(p)' /\ prod'[p].tail = prod[p].tail /\ ReservedEnd(p)' = ReservedEnd(p)

\* Then a reservation that has been seen has a word, or will have.
LEMMA PendingStays ==
    ASSUME WordsGrow, NEW b, NEW n, Pending(b, n)
    PROVE  Pending(b, n)'
<1>1. ASSUME m_next'[b] = Zero PROVE \E p \in Reserving(b)' : ReservedEnd(p)' = NewTail(b, n)
  <2>1. m_next[b] = Zero
    BY <1>1 DEF WordsGrow, Pending, InPage
  <2>2. PICK p \in Reserving(b) : ReservedEnd(p) = NewTail(b, n)
    BY <2>1 DEF Pending
  <2>3. p \in Producers /\ Stores(p) /\ prod[p].tail = b
    BY <2>2 DEF Reserving, Stores
  <2>4. Stores(p)' /\ prod'[p].tail = b /\ ReservedEnd(p)' = ReservedEnd(p)
    BY <1>1, <2>3 DEF WordsGrow
  <2>5. p \in Reserving(b)'
    BY <2>3, <2>4 DEF Reserving, Stores
  <2> QED
    BY <2>2, <2>4, <2>5
<1> QED
  BY <1>1 DEF Pending, InPage, NewTail

---------------------------------------------------------------------------
(* The steps of a producer *)

\* Producer p writes no word of another thread, but what a helper writes for
\* the one that has reserved the block.
WritesOwn(p) ==
    \A b \in Block : b[2] < EndSlot /\ m_next'[b] # m_next[b] =>
        /\ m_next'[b] # Zero
        /\ \A q \in Producers \ {p} :
              /\ Putting(q) => prod[q].control # b
              /\ Stores(q) /\ prod[q].tail = b => m_next'[b] = NextWord(ReservedEnd(q), {"busy"})
        /\ \A c \in Consumers : Takes(c) => cons[c].control # b

\* Then what is known of the other threads is still true.
LEMMA OthersKeepWords ==
    ASSUME IInv, WordsInv, UNCHANGED cons,
           NEW p \in Producers, \A q \in Producers \ {p} : prod'[q] = prod[q], WritesOwn(p)
    PROVE  /\ \A q \in Producers \ {p} : StorerOK(q)' /\ StoredOK(q)' /\ PutterHas(q)' /\ PutterFlags(q)'
           /\ \A c \in Consumers : TakerHas(c)' /\ ConsumerKnows(c)'
           /\ \A b \in Block : b[2] < EndSlot /\ m_next'[b] = Zero => m_next[b] = Zero
<1>1. ASSUME NEW q \in Producers \ {p} PROVE StorerOK(q)'
  <2>1. StorerOK(q) /\ prod'[q] = prod[q]
    BY DEF WordsInv
  <2>2. ReservedEnd(q)' = ReservedEnd(q)
    BY <2>1 DEF ReservedEnd, PAt, NewTail
  <2>3. Stores(q) => m_next'[prod[q].tail] \in {Zero, NextWord(ReservedEnd(q), {"busy"})}
    BY <2>1 DEF StorerOK, InPage, WritesOwn
  <2> QED
    BY <2>1, <2>2, <2>3 DEF StorerOK, Stores, InPage, NextWord
<1>2. ASSUME NEW q \in Producers \ {p} PROVE StoredOK(q)' /\ PutterHas(q)' /\ PutterFlags(q)'
  <2>1. StoredOK(q) /\ PutterHas(q) /\ PutterFlags(q) /\ prod'[q] = prod[q]
    BY DEF WordsInv
  <2>2. StoredOK(q)'
    BY <2>1 DEF StoredOK, InPage, WritesOwn
  <2>3. PutterHas(q)'
    BY <2>1 DEF PutterHas, Putting, InPage, WritesOwn
  <2>4. PutterFlags(q)'
    BY <2>1 DEF PutterFlags, Putting
  <2> QED
    BY <2>2, <2>3, <2>4
<1>3. ASSUME NEW c \in Consumers PROVE TakerHas(c)' /\ ConsumerKnows(c)'
  <2>1. TakerHas(c) /\ ConsumerKnows(c) /\ cons' = cons
    BY DEF WordsInv
  <2>2. Takes(c) => m_next'[cons[c].control] = m_next[cons[c].control]
    BY <2>1 DEF TakerHas, InPage, WritesOwn
  <2>3. TakerHas(c)'
    BY <2>1, <2>2 DEF TakerHas, Takes, At, InPage, TakenWord, NextWord
  <2>4. ConsumerKnows(c)'
    BY <2>1 DEF ConsumerKnows
  <2> QED
    BY <2>3, <2>4
<1>4. \A b \in Block : b[2] < EndSlot /\ m_next'[b] = Zero => m_next[b] = Zero
  BY DEF WritesOwn
<1> QED
  BY <1>1, <1>2, <1>3, <1>4

\* What p has is nobody else's: a block that it reserves was clear, one that
\* it puts was reserved.
LEMMA OwnersStayApart ==
    ASSUME IInv, WordsInv, UNCHANGED cons,
           NEW p \in Producers, \A q \in Producers \ {p} : prod'[q] = prod[q],
           Stores(p)' => \/ Stores(p) /\ prod'[p].tail = prod[p].tail
                         \/ Clear(prod'[p].tail),
           Putting(p)' => \/ Putting(p) /\ prod'[p].control = prod[p].control
                          \/ Stores(p) /\ prod'[p].control = prod[p].tail /\ ~Stores(p)'
    PROVE  OwnersApart'
<1>1. \A q \in Producers \ {p} : (Stores(q)' <=> Stores(q)) /\ (Putting(q)' <=> Putting(q))
  BY DEF Stores, Putting
<1>2. \A c \in Consumers : (Takes(c)' <=> Takes(c)) /\ cons'[c] = cons[c]
  BY DEF Takes, At
<1>3. OwnersApart
  BY DEF WordsInv
<1>4. /\ \A q \in Producers : Stores(q) => ~Clear(prod[q].tail)
      /\ \A q \in Producers : Putting(q) => ~Clear(prod[q].control)
      /\ \A c \in Consumers : Takes(c) => ~Clear(cons[c].control)
  BY Owned
<1>5. \A q \in Producers \ {p} : Stores(p)' /\ Stores(q) => prod'[p].tail # prod[q].tail
  BY <1>3, <1>4 DEF OwnersApart
<1>6. \A q \in Producers \ {p} : Stores(p)' /\ Putting(q) => prod'[p].tail # prod[q].control
  BY <1>3, <1>4 DEF OwnersApart
<1>7. Stores(p)' /\ Putting(p)' => prod'[p].tail # prod'[p].control
  BY <1>3, <1>4 DEF OwnersApart
<1>8. \A c \in Consumers : Stores(p)' /\ Takes(c) => prod'[p].tail # cons[c].control
  BY <1>3, <1>4 DEF OwnersApart
<1>9. \A q \in Producers \ {p} : Putting(p)' /\ Stores(q) => prod'[p].control # prod[q].tail
  BY <1>3 DEF OwnersApart
<1>10. \A q \in Producers \ {p} : Putting(p)' /\ Putting(q) => prod'[p].control # prod[q].control
  BY <1>3 DEF OwnersApart
<1>11. \A c \in Consumers : Putting(p)' /\ Takes(c) => prod'[p].control # cons[c].control
  BY <1>3 DEF OwnersApart
<1>12. \A q, r \in Producers : Stores(q)' /\ Stores(r)' /\ q # r => prod'[q].tail # prod'[r].tail
  BY <1>1, <1>3, <1>5 DEF OwnersApart
<1>13. \A q, r \in Producers : Stores(q)' /\ Putting(r)' => prod'[q].tail # prod'[r].control
  BY <1>1, <1>3, <1>6, <1>7, <1>9 DEF OwnersApart
<1>14. \A q \in Producers, c \in Consumers : Stores(q)' /\ Takes(c)' => prod'[q].tail # cons'[c].control
  BY <1>1, <1>2, <1>3, <1>8 DEF OwnersApart
<1>15. \A q, r \in Producers : Putting(q)' /\ Putting(r)' /\ q # r => prod'[q].control # prod'[r].control
  BY <1>1, <1>3, <1>10 DEF OwnersApart
<1>16. \A q \in Producers, c \in Consumers : Putting(q)' /\ Takes(c)' => prod'[q].control # cons'[c].control
  BY <1>1, <1>2, <1>3, <1>11 DEF OwnersApart
<1>17. \A c, d \in Consumers : Takes(c)' /\ Takes(d)' /\ c # d => cons'[c].control # cons'[d].control
  BY <1>2, <1>3 DEF OwnersApart
<1> QED
  BY <1>12, <1>13, <1>14, <1>15, <1>16, <1>17 DEF OwnersApart

\* What is left to show of a step of p.
OwnWords(p) == StorerOK(p) /\ StoredOK(p) /\ PutterHas(p) /\ PutterFlags(p) /\ CreatorKnows(p)

\* With that and what is common to all threads, the invariant is kept.
LEMMA ProducerKeepsWords ==
    ASSUME IInv, WordsInv, UNCHANGED cons,
           NEW p \in Producers, \A q \in Producers \ {p} : prod'[q] = prod[q], WritesOwn(p),
           Stores(p) => \/ m_next'[prod[p].tail] # Zero
                        \/ Stores(p)' /\ prod'[p].tail = prod[p].tail /\ ReservedEnd(p)' = ReservedEnd(p),
           Stores(p)' => \/ Stores(p) /\ prod'[p].tail = prod[p].tail
                         \/ Clear(prod'[p].tail),
           Putting(p)' => \/ Putting(p) /\ prod'[p].control = prod[p].control
                          \/ Stores(p) /\ prod'[p].control = prod[p].tail /\ ~Stores(p)',
           OwnWords(p)', \A q \in Producers \ {p} : CreatorKnows(q)',
           Saw(p)' => Pending(prod'[p].tail, prod'[p].rest)
                      \/ Pending(prod[p].tail, prod[p].rest)',
           SparesBlank', TailEnds', WordsLead',
           TailPending' \/ UNCHANGED <<m_tail, m_rest>>
    PROVE  WordsInv'
<1>1. /\ \A q \in Producers \ {p} : StorerOK(q)' /\ StoredOK(q)' /\ PutterHas(q)' /\ PutterFlags(q)'
      /\ \A c \in Consumers : TakerHas(c)' /\ ConsumerKnows(c)'
      /\ \A b \in Block : b[2] < EndSlot /\ m_next'[b] = Zero => m_next[b] = Zero
  BY OthersKeepWords
<1>2. WordsGrow
  <2>1. \A q \in Producers \ {p} : Stores(q) =>
            Stores(q)' /\ prod'[q].tail = prod[q].tail /\ ReservedEnd(q)' = ReservedEnd(q)
    BY DEF Stores, ReservedEnd, PAt, NewTail
  <2> QED
    BY <1>1, <2>1 DEF WordsGrow
<1>3. \A b, n : Pending(b, n) => Pending(b, n)'
  BY <1>2, PendingStays
<1>4. OwnersApart'
  BY OwnersStayApart
<1>5. HelpersOK'
  <2>1. ASSUME NEW q \in Producers, Saw(q)', Pending(prod'[q].tail, prod'[q].rest)
        PROVE  Pending(prod[q].tail, prod[q].rest)'
    <3>1. ASSUME NEW b, NEW n, b = prod'[q].tail, n = prod'[q].rest
          PROVE  Pending(prod[q].tail, prod[q].rest)'
      <4>1. Pending(b, n)'
        BY <1>3, <2>1, <3>1
      <4> QED
        BY <3>1, <4>1 DEF Pending, InPage, NewTail, Reserving
    <3> QED
      BY <3>1
  <2>2. ASSUME NEW q \in Producers \ {p}, Saw(q)' PROVE Pending(prod'[q].tail, prod'[q].rest)
    <3>1. Saw(q) /\ prod'[q] = prod[q]
      BY <2>2 DEF Saw
    <3>2. Pending(prod[q].tail, prod[q].rest)
      BY <3>1 DEF WordsInv, HelpersOK
    <3> QED
      BY <3>1, <3>2
  <2> QED
    BY <2>1, <2>2 DEF HelpersOK
<1>6. TailPending'
  <2>1. CASE UNCHANGED <<m_tail, m_rest>>
    <3>1. ASSUME NEW b, NEW n, b = m_tail, n = m_rest, m_rest' # 0
          PROVE  Pending(m_tail, m_rest)'
      <4>1. Pending(b, n)'
        BY <1>3, <2>1, <3>1 DEF WordsInv, TailPending
      <4> QED
        BY <2>1, <3>1, <4>1 DEF Pending, InPage, NewTail
    <3> QED
      BY <3>1 DEF TailPending
  <2> QED
    BY <2>1
<1> QED
  BY <1>1, <1>4, <1>5, <1>6 DEF WordsInv, OwnWords

---------------------------------------------------------------------------
(* The steps of a consumer *)

\* A consumer zeroes the end of a page, or sets the flags of a block that only
\* it owns.
FlagsOnly(c) ==
    \A b \in Block :
        \/ m_next'[b] = m_next[b]
        \/ b[2] = EndSlot /\ m_next'[b] = Zero
        \/ /\ m_next[b] # Zero /\ m_next'[b] # Zero /\ m_next'[b].to = m_next[b].to
           /\ b[2] < EndSlot
           /\ \A p \in Producers : Stores(p) => prod[p].tail # b
           /\ \A p \in Producers : Putting(p) => prod[p].control # b
           /\ \A d \in Consumers \ {c} : Takes(d) => cons[d].control # b

\* That leaves the blocks of the other threads, and what is clear, as they are.
LEMMA ConsumerLeavesWords ==
    ASSUME IInv, WordsInv, UNCHANGED tailVars, NEW c \in Consumers,
           \A d \in Consumers \ {c} : cons'[d] = cons[d], FlagsOnly(c),
           m_initial_page' = m_initial_page,
           \A x \in Pages : pool'[x] = "zeroed" => pool[x] = "zeroed",
           Takes(c)' => \/ Takes(c) /\ cons'[c].control = cons[c].control
                        \/ /\ \A p \in Producers : Stores(p) => prod[p].tail # cons'[c].control
                           /\ \A p \in Producers : Putting(p) => prod[p].control # cons'[c].control
                           /\ \A d \in Consumers \ {c} : Takes(d) => cons[d].control # cons'[c].control,
           TakerHas(c)', ConsumerKnows(c)'
    PROVE  WordsInv'
<1>1. prod' = prod /\ m_tail' = m_tail /\ m_rest' = m_rest
  BY DEF tailVars
<1>2. \A p \in Producers : /\ (Stores(p)' <=> Stores(p)) /\ (Putting(p)' <=> Putting(p))
                           /\ (Creates(p)' <=> Creates(p)) /\ ReservedEnd(p)' = ReservedEnd(p)
  BY <1>1 DEF Stores, Putting, Creates, ReservedEnd, PAt, NewTail
<1>3. \A b : Reserving(b)' = Reserving(b)
  BY <1>1 DEF Reserving
<1>4. \A b \in Block : b[2] < EndSlot => (m_next'[b] = Zero <=> m_next[b] = Zero)
  BY Spots DEF FlagsOnly
<1>5. ClearStays
  <2>1. \A b \in Block : b[2] < EndSlot => (Clear(b)' <=> Clear(b))
    BY <1>3, <1>4 DEF Clear
  <2>2. \A x \in Pages : m_next'[End(x)].to \in {m_next[End(x)].to, NoBlock}
    BY Spots DEF FlagsOnly, Zero
  <2>3. \A x \in Pages : Spare(x)' => Spare(x)
    BY <1>1, <1>2 DEF Spare
  <2> QED
    BY <2>1, <2>2, <2>3 DEF ClearStays
<1>6. SparesBlank'
  <2>1. SparesBlank
    BY DEF WordsInv
  <2>2. \A x \in Pages : Spare(x)' => Blank(x)'
    BY <1>1, <1>5, PlaceStays
  <2>3. \A p \in Producers : Creates(p) => prod[p].new_page \in Pages
    BY Typed DEF Creates, ProducerOK
  <2> QED
    BY <1>1, <1>2, <2>1, <2>2, <2>3 DEF SparesBlank
<1>7. TailEnds'
  BY <1>1, <1>5, PlaceStays
<1>8. \A p \in Producers : CreatorKnows(p)'
  BY <1>1, <1>5, CreatorsStay
<1>9. WordsGrow
  BY <1>1, <1>2, <1>4 DEF WordsGrow
<1>10. \A b, n : Pending(b, n) => Pending(b, n)'
  BY <1>9, PendingStays
<1>11. HelpersOK'
  <2>1. ASSUME NEW q \in Producers, Saw(q)' PROVE Pending(prod[q].tail, prod[q].rest)'
    <3>1. ASSUME NEW b, NEW n, b = prod[q].tail, n = prod[q].rest
          PROVE  Pending(prod[q].tail, prod[q].rest)'
      <4>1. Pending(b, n)'
        BY <1>1, <1>10, <2>1, <3>1 DEF Saw, WordsInv, HelpersOK
      <4> QED
        BY <1>1, <3>1, <4>1 DEF Pending, InPage, NewTail, Reserving
    <3> QED
      BY <3>1
  <2> QED
    BY <2>1 DEF HelpersOK
<1>12. TailPending'
  <2>1. ASSUME NEW b, NEW n, b = m_tail, n = m_rest, m_rest' # 0
        PROVE  Pending(m_tail, m_rest)'
    <3>1. Pending(b, n)'
      BY <1>1, <1>10, <2>1 DEF WordsInv, TailPending
    <3> QED
      BY <1>1, <2>1, <3>1 DEF Pending, InPage, NewTail
  <2> QED
    BY <2>1 DEF TailPending
<1>13. WordsLead'
  <2>1. ASSUME NEW b \in Block
        PROVE  /\ b[2] < EndSlot => m_next'[b] = Zero \/ (m_next'[b].to \in Block /\ SamePage(b, m_next'[b].to))
               /\ b[2] = EndSlot /\ m_next'[b].to # NoBlock => "dead" \in m_next'[b].flags
    <3>1. CASE m_next'[b] = m_next[b]
      BY <3>1 DEF WordsInv, WordsLead
    <3>2. CASE b[2] = EndSlot /\ m_next'[b] = Zero
      BY <3>2, Spots DEF Zero
    <3>3. CASE b[2] < EndSlot /\ m_next[b] # Zero /\ m_next'[b].to = m_next[b].to
      BY <3>3, Spots DEF WordsInv, WordsLead
    <3> QED
      BY <3>1, <3>2, <3>3 DEF FlagsOnly
  <2> QED
    BY <2>1 DEF WordsLead
<1>14. ASSUME NEW p \in Producers PROVE StorerOK(p)' /\ StoredOK(p)' /\ PutterHas(p)' /\ PutterFlags(p)'
  <2>1. StorerOK(p) /\ StoredOK(p) /\ PutterHas(p) /\ PutterFlags(p)
    BY DEF WordsInv
  <2>2. Stores(p) => m_next'[prod[p].tail] = m_next[prod[p].tail]
    BY <2>1, Spots DEF FlagsOnly, StorerOK, InPage
  <2>3. StorerOK(p)'
    BY <1>1, <1>2, <2>1, <2>2 DEF StorerOK, InPage, NextWord
  <2>4. StoredOK(p)'
    BY <1>1, <1>4, <2>1 DEF StoredOK, InPage
  <2>5. Putting(p) => m_next'[prod[p].control] = m_next[prod[p].control]
    BY <2>1, Spots DEF FlagsOnly, PutterHas, InPage
  <2>6. PutterHas(p)'
    BY <1>1, <1>2, <2>1, <2>5 DEF PutterHas, InPage
  <2>7. PutterFlags(p)'
    BY <1>1, <1>2, <2>1 DEF PutterFlags
  <2> QED
    BY <2>3, <2>4, <2>6, <2>7
<1>15. ASSUME NEW d \in Consumers \ {c} PROVE TakerHas(d)' /\ ConsumerKnows(d)'
  <2>1. TakerHas(d) /\ ConsumerKnows(d) /\ cons'[d] = cons[d]
    BY DEF WordsInv
  <2>2. Takes(d) => m_next'[cons[d].control] = m_next[cons[d].control]
    BY <2>1, Spots DEF FlagsOnly, TakerHas, InPage
  <2>3. TakerHas(d)'
    BY <2>1, <2>2 DEF TakerHas, Takes, At, InPage, TakenWord, NextWord
  <2>4. ConsumerKnows(d)'
    BY <2>1 DEF ConsumerKnows
  <2> QED
    BY <2>3, <2>4
<1>16. OwnersApart'
  <2>1. \A d \in Consumers \ {c} : (Takes(d)' <=> Takes(d)) /\ cons'[d] = cons[d]
    BY DEF Takes, At
  <2>2. OwnersApart
    BY DEF WordsInv
  <2>3. \A p \in Producers, d \in Consumers : Stores(p) /\ Takes(d)' => prod[p].tail # cons'[d].control
    BY <2>1, <2>2 DEF OwnersApart
  <2>4. \A p \in Producers, d \in Consumers : Putting(p) /\ Takes(d)' => prod[p].control # cons'[d].control
    BY <2>1, <2>2 DEF OwnersApart
  <2>5. \A d, e \in Consumers : Takes(d)' /\ Takes(e)' /\ d # e => cons'[d].control # cons'[e].control
    BY <2>1, <2>2 DEF OwnersApart
  <2> QED
    BY <1>1, <1>2, <2>2, <2>3, <2>4, <2>5 DEF OwnersApart
<1> QED
  BY <1>6, <1>7, <1>8, <1>11, <1>12, <1>13, <1>14, <1>15, <1>16 DEF WordsInv

\* What is read of a block.
LEMMA WordRead ==
    ASSUME IInv, WordsInv, NEW c \in Consumers, NEW b \in Block, Enter(c, b, m_next[b])
    PROVE  /\ \A d \in Consumers \ {c} : cons'[d] = cons[d]
           /\ TakerHas(c)' /\ ConsumerKnows(c)' /\ ~Takes(c)'
<1> DEFINE n == m_next[b]
           to == AfterLoad(cons[c].mode, n)
<1>1. cons[c] \in Consume /\ cons[c].mode \in Mode /\ n \in NextPtr /\ cons \in [Consumers -> Consume]
  BY Typed DEF Consume, IInv, TypeOK, HeadTypeOK
<1>2. /\ to \in {"nothing", "found", "try_busy", "advance", "move", "idle"}
      /\ to \in {"try_busy", "advance"} => n.to # NoBlock
      /\ to = "try_busy" => Consumable(n)
  <2>1. n.flags \cap {"busy", "dead"} # {} => n.to # NoBlock
    BY Addresses DEF IInv, WordsOK
  <2> HIDE DEF n
  <2>2. to = "advance" => IsDead(n)
    BY <1>1, Loaded
  <2>3. to = "try_busy" => Consumable(n) /\ ~IsEnd(n)
    BY <1>1 DEF AfterLoad, Mode
  <2> QED
    BY <1>1, <2>1, <2>2, <2>3, Loaded DEF IsDead, IsEnd
<1>3. cons'[c].pc = to /\ cons'[c].control = b /\ (to # "idle" => cons'[c].next = n)
      /\ \A d \in Consumers \ {c} : cons'[d] = cons[d]
  BY <1>1 DEF Enter, Consume
<1>4. b[2] < EndSlot => n = Zero \/ SamePage(b, n.to)
  BY DEF WordsInv, WordsLead
<1>5. n = Zero => n.to = NoBlock
  BY DEF Zero
<1> HIDE DEF n, to
<1>6. ~Takes(c)'
  BY <1>2, <1>3 DEF Takes, At
<1>7. ConsumerKnows(c)'
  BY <1>2, <1>3, <1>4, <1>5 DEF ConsumerKnows, SamePage
<1> QED
  BY <1>3, <1>6, <1>7 DEF TakerHas

\* A consumer that writes nothing.
LEMMA ConsumerReads ==
    ASSUME IInv, WordsInv, UNCHANGED tailVars, NEW c \in Consumers,
           \A d \in Consumers \ {c} : cons'[d] = cons[d],
           UNCHANGED <<m_next, pool, m_initial_page>>,
           ~Takes(c)', ConsumerKnows(c)'
    PROVE  WordsInv'
BY ConsumerLeavesWords DEF FlagsOnly, TakerHas

\* Where a consumer knows nothing of the block it is in.
Quiet(pc) == pc \notin {"try_busy", "advance", "free_external", "zero", "memset", "consuming"}

\* Then there is nothing to show.
LEMMA ConsumerQuiet ==
    ASSUME IInv, WordsInv, UNCHANGED tailVars, NEW c \in Consumers,
           \A d \in Consumers \ {c} : cons'[d] = cons[d],
           UNCHANGED <<m_next, pool, m_initial_page>>, Quiet(cons'[c].pc)
    PROVE  WordsInv'
<1>1. ~Takes(c)' /\ ConsumerKnows(c)'
  BY DEF Quiet, Takes, At, ConsumerKnows
<1> QED
  BY <1>1, ConsumerReads

\* Entering and leaving an operation, and going to the head.
LEMMA BeginIterationKeepsWords ==
    ASSUME IInv, WordsInv, UNCHANGED tailVars, NEW c \in Consumers,
           \/ Start(c, "consume") \/ Start(c, "empty") \/ Return(c) \/ DestroyConsume(c)
           \/ LoadHead(c) \/ ReloadHead(c) \/ LoadInitialPage(c) \/ InitHead(c)
           \/ PinHead(c) \/ UnpinOld(c) \/ Reread(c) \/ UnpinLeft(c)
    PROVE  WordsInv'
<1>1. cons \in [Consumers -> Consume] /\ cons[c] \in Consume /\ cons[c].mode \in Mode
  BY DEF IInv, TypeOK, HeadTypeOK, Consume
<1>2. UNCHANGED <<m_next, pool, m_initial_page>>
  BY DEF Start, Return, DestroyConsume, LoadHead, ReloadHead, LoadInitialPage, InitHead,
         PinHead, UnpinOld, Reread, UnpinLeft, baseVars
<1>3. /\ \A d \in Consumers \ {c} : cons'[d] = cons[d]
      /\ Quiet(cons'[c].pc)
  <2>1. CASE Start(c, "consume") \/ Start(c, "empty")
    BY <1>1, <2>1 DEF Start, Consume, Quiet
  <2>2. CASE Return(c)
    BY <1>1, <2>2 DEF Return, Consume, Quiet
  <2>3. CASE DestroyConsume(c)
    BY <1>1, <2>3 DEF DestroyConsume, Consume, Quiet, At
  <2>4. ASSUME NEW b, FollowHead(c, b)
        PROVE  Quiet(cons'[c].pc) /\ \A d \in Consumers \ {c} : cons'[d] = cons[d]
    BY <1>1, <2>4 DEF FollowHead, Consume, Quiet
  <2>5. CASE LoadHead(c) \/ ReloadHead(c)
    <3>1. CASE FollowHead(c, m_head)
      BY <2>4, <3>1
    <3>2. CASE Goto(c, "reload_head") \/ Goto(c, "initial_page")
      BY <1>1, <3>2 DEF Goto, Consume, Quiet
    <3> QED
      BY <2>5, <3>1, <3>2 DEF LoadHead, ReloadHead
  <2>6. CASE LoadInitialPage(c)
    BY <1>1, <2>6 DEF LoadInitialPage, Consume, Quiet
  <2>7. CASE InitHead(c)
    <3>1. CASE FollowHead(c, m_head')
      BY <2>4, <3>1
    <3>2. CASE Enter(c, cons[c].control, Zero)
      <4>1. AfterLoad(cons[c].mode, Zero) \in {"nothing", "idle"}
        BY <1>1 DEF AfterLoad, Mode, Zero, IsEnd, IsDead
      <4> HIDE DEF Consume
      <4>2. cons'[c].pc = AfterLoad(cons[c].mode, Zero) /\ \A d \in Consumers \ {c} : cons'[d] = cons[d]
        BY <1>1, <3>2 DEF Enter, Consume
      <4> QED
        BY <4>1, <4>2 DEF Quiet
    <3> QED
      BY <2>7, <3>1, <3>2 DEF InitHead
  <2>8. CASE PinHead(c)
    BY <1>1, <2>8 DEF PinHead, Goto, Consume, Quiet
  <2>9. CASE UnpinOld(c)
    BY <1>1, <2>9 DEF UnpinOld, Consume, Quiet
  <2>10. CASE Reread(c)
    BY <1>1, <2>10 DEF Reread, Goto, Consume, Quiet
  <2>11. CASE UnpinLeft(c)
    BY <1>1, <2>11 DEF UnpinLeft, Consume, Quiet
  <2> QED
    BY <2>1, <2>2, <2>3, <2>5, <2>6, <2>7, <2>8, <2>9, <2>10, <2>11
<1> QED
  BY <1>2, <1>3, ConsumerQuiet

\* Going from block to block.
LEMMA EntersKeepWords ==
    ASSUME IInv, WordsInv, UNCHANGED tailVars, NEW c \in Consumers,
           LoadHeadNext(c) \/ MoveNext(c) \/ LoadNext(c)
    PROVE  WordsInv'
<1>1. cons \in [Consumers -> Consume] /\ cons[c] \in Consume /\ ConsumerOK(c)
  BY DEF IInv, TypeOK, HeadTypeOK, ConsumersOK
<1>2. UNCHANGED <<m_next, pool, m_initial_page>>
  BY DEF LoadHeadNext, MoveNext, LoadNext, baseVars
<1>3. ASSUME NEW b \in Block, Enter(c, b, m_next[b]) PROVE WordsInv'
  BY <1>2, <1>3, WordRead, ConsumerReads
<1>4. CASE LoadHeadNext(c)
  BY <1>1, <1>3, <1>4 DEF LoadHeadNext, At, ConsumerOK
<1>5. CASE LoadNext(c)
  BY <1>1, <1>3, <1>5 DEF LoadNext, At, ConsumerOK
<1>6. CASE MoveNext(c)
  <2>1. cons[c].next.to \in Block
    BY <1>1, <1>6 DEF MoveNext, At, ConsumerOK
  <2>2. CASE Enter(c, cons[c].next.to, m_next[cons[c].next.to])
    BY <1>3, <2>1, <2>2
  <2>3. CASE cons' = [cons EXCEPT ![c].pc = "reread", ![c].target = cons[c].next.to]
    <3>1. Quiet(cons'[c].pc) /\ \A d \in Consumers \ {c} : cons'[d] = cons[d]
      BY <1>1, <2>3 DEF Quiet, Consume
    <3> QED
      BY <1>2, <3>1, ConsumerQuiet
  <2> QED
    BY <1>6, <2>2, <2>3 DEF MoveNext
<1> QED
  BY <1>4, <1>5, <1>6

\* The head moves; what it leaves is cleaned, and the page given back.
LEMMA AdvancesKeepWords ==
    ASSUME IInv, WordsInv, UNCHANGED tailVars, NEW c \in Consumers,
           \/ AdvanceHead(c) \/ FreeExternal(c) \/ ZeroControl(c) \/ Memset(c) \/ DeallocatePage(c)
    PROVE  WordsInv'
<1>1. cons \in [Consumers -> Consume] /\ cons[c] \in Consume /\ ConsumerOK(c) /\ ConsumerKnows(c)
  BY DEF IInv, TypeOK, HeadTypeOK, ConsumersOK, WordsInv
<1>2. ~ZeroedPages
  BY SeqCstAssumption
<1>3. ASSUME NEW pc, Goto(c, pc)
      PROVE  /\ \A d \in Consumers \ {c} : cons'[d] = cons[d]
             /\ cons'[c].control = cons[c].control /\ cons'[c].next = cons[c].next
             /\ cons'[c].pc = pc
  BY <1>1, <1>3 DEF Goto, Consume
<1>10. ASSUME cons'[c].pc \in {"move", "free_page"} PROVE ~Takes(c)' /\ ConsumerKnows(c)'
  BY <1>10 DEF Takes, At, ConsumerKnows
<1>4. ASSUME At(c, "advance") \/ At(c, "free_external"),
             Goto(c, AfterAdvance(cons[c].control, cons[c].next))
      PROVE  /\ \A d \in Consumers \ {c} : cons'[d] = cons[d]
             /\ ~Takes(c)' /\ ConsumerKnows(c)'
  <2>1. cons[c].control \in Block
    BY <1>1, <1>4 DEF ConsumerOK, At
  <2>2. ~SamePage(cons[c].control, cons[c].next.to) => cons[c].control[2] = EndSlot
    BY <1>1, <1>4, <2>1, Spots DEF ConsumerKnows, At
  <2> DEFINE to == AfterAdvance(cons[c].control, cons[c].next)
  <2>3. to = "move" \/ (to = "zero" /\ ~SamePage(cons[c].control, cons[c].next.to))
    BY <1>2 DEF AfterAdvance
  <2>4. /\ \A d \in Consumers \ {c} : cons'[d] = cons[d]
        /\ cons'[c].control = cons[c].control /\ cons'[c].next = cons[c].next
        /\ cons'[c].pc = to
    <3>1. cons' = [cons EXCEPT ![c].pc = to]
      BY <1>4 DEF Goto
    <3> HIDE DEF to
    <3> QED
      BY <1>1, <3>1 DEF Consume
  <2> HIDE DEF to
  <2> QED
    BY <2>2, <2>3, <2>4 DEF Takes, At, ConsumerKnows
<1>5. CASE AdvanceHead(c)
  <2>0. UNCHANGED <<m_next, pool, m_initial_page>> /\ At(c, "advance")
    BY <1>5 DEF AdvanceHead, baseVars
  <2>1. CASE Goto(c, "free_external")
    <3>1. /\ \A d \in Consumers \ {c} : cons'[d] = cons[d]
          /\ cons'[c].control = cons[c].control /\ cons'[c].next = cons[c].next
          /\ cons'[c].pc = "free_external"
      BY <1>3, <2>1
    <3>2. ~Takes(c)' /\ ConsumerKnows(c)'
      BY <1>1, <2>0, <3>1 DEF Takes, At, ConsumerKnows
    <3> QED
      BY <2>0, <3>1, <3>2, ConsumerReads
  <2>2. CASE Goto(c, "move")
    BY <1>3, <1>10, <2>0, <2>2, ConsumerReads
  <2>3. CASE Goto(c, AfterAdvance(cons[c].control, cons[c].next))
    BY <1>4, <2>0, <2>3, ConsumerReads
  <2> QED
    BY <1>5, <2>1, <2>2, <2>3 DEF AdvanceHead
<1>6. CASE FreeExternal(c)
  BY <1>4, <1>6, ConsumerReads DEF FreeExternal
<1>7. CASE ZeroControl(c)
  <2>1. cons[c].control[2] = EndSlot /\ ~SamePage(cons[c].control, cons[c].next.to)
    BY <1>1, <1>7 DEF ZeroControl, ConsumerKnows, At
  <2>2. Goto(c, "free_page")
    BY <1>7, <2>1 DEF ZeroControl
  <2>3. UNCHANGED <<pool, m_initial_page>>
    BY <1>7 DEF ZeroControl
  <2>4. FlagsOnly(c)
    BY <1>7, <2>1 DEF ZeroControl, FlagsOnly, IInv, TypeOK, BaseTypeOK
  <2>5. ~Takes(c)' /\ ConsumerKnows(c)' /\ \A d \in Consumers \ {c} : cons'[d] = cons[d]
    BY <1>3, <1>10, <2>2
  <2> QED
    BY <2>3, <2>4, <2>5, ConsumerLeavesWords DEF TakerHas
<1>8. CASE Memset(c)
  BY <1>1, <1>8 DEF Memset, ConsumerKnows, At
<1>9. CASE DeallocatePage(c)
  <2>1. Goto(c, "move") /\ UNCHANGED <<m_next, m_initial_page>>
    BY <1>9 DEF DeallocatePage
  <2>2. \A x \in Pages : pool'[x] = "zeroed" => pool[x] = "zeroed"
    BY <1>2, <1>9 DEF DeallocatePage, IInv, TypeOK, BaseTypeOK
  <2>3. ~Takes(c)' /\ ConsumerKnows(c)' /\ \A d \in Consumers \ {c} : cons'[d] = cons[d]
    BY <1>3, <1>10, <2>1
  <2> QED
    BY <2>1, <2>2, <2>3, ConsumerLeavesWords DEF TakerHas, FlagsOnly
<1> QED
  BY <1>5, <1>6, <1>7, <1>8, <1>9

\* An element is taken.
LEMMA TryBusyKeepsWords ==
    ASSUME IInv, WordsInv, UNCHANGED tailVars, NEW c \in Consumers, TryBusy(c)
    PROVE  WordsInv'
<1> DEFINE b == cons[c].control
           n == cons[c].next
<1>1. cons \in [Consumers -> Consume] /\ cons[c] \in Consume /\ ConsumerOK(c) /\ ConsumerKnows(c)
  BY DEF IInv, TypeOK, HeadTypeOK, ConsumersOK, WordsInv
<1>2. UNCHANGED <<pool, m_initial_page>> /\ cons[c].pc = "try_busy"
  BY DEF TryBusy, At
<1>3. b \in Block /\ n.to \in Block /\ Consumable(n) /\ n \in NextPtr
  BY <1>1, <1>2 DEF ConsumerOK, ConsumerKnows, Consume
<1>4. CASE m_next[b] # n
  <2>1. /\ \A d \in Consumers \ {c} : cons'[d] = cons[d]
        /\ Quiet(cons'[c].pc) /\ UNCHANGED m_next
    BY <1>1, <1>4 DEF TryBusy, Quiet, Consume
  <2> QED
    BY <1>2, <2>1, ConsumerQuiet
<1>5. CASE m_next[b] = n
  <2>1. InPage(b)
    <3>1. "dead" \notin n.flags /\ n.to # NoBlock
      BY <1>3, Addresses DEF Consumable
    <3>2. b[2] # EndSlot
      BY <1>3, <1>5, <3>1 DEF WordsInv, WordsLead
    <3> QED
      BY <1>3, <3>2, Spots DEF InPage
  <2>2. "busy" \notin n.flags /\ "dead" \notin n.flags /\ n # Zero
    BY <1>3, Addresses DEF Consumable, Zero
  <2>3. /\ \A p \in Producers : Stores(p) => prod[p].tail # b
        /\ \A p \in Producers : Putting(p) => prod[p].control # b
        /\ \A d \in Consumers : Takes(d) => cons[d].control # b
    <3>1. \A p \in Producers : Stores(p) => prod[p].tail # b
      <4> SUFFICES ASSUME NEW p \in Producers, Stores(p), prod[p].tail = b PROVE FALSE
        OBVIOUS
      <4>1. n = NextWord(ReservedEnd(p), {"busy"})
        BY <1>5, <2>2 DEF WordsInv, StorerOK
      <4> QED
        BY <2>2, <4>1 DEF NextWord
    <3>2. \A p \in Producers : Putting(p) => prod[p].control # b
      BY <1>5, <2>2 DEF WordsInv, PutterHas
    <3>3. \A d \in Consumers : Takes(d) => cons[d].control # b
      <4> SUFFICES ASSUME NEW d \in Consumers, Takes(d), cons[d].control = b PROVE FALSE
        OBVIOUS
      <4>1. n = TakenWord(d)
        BY <1>5 DEF WordsInv, TakerHas
      <4> QED
        BY <2>2, <4>1 DEF TakenWord, NextWord
    <3> QED
      BY <3>1, <3>2, <3>3
  <2>4. /\ m_next' = [m_next EXCEPT ![b].flags = @ \cup {"busy"}]
        /\ cons' = [cons EXCEPT ![c].pc = "consuming", ![c].next.flags = @ \cup {"dead"}]
    BY <1>5 DEF TryBusy
  <2>5. /\ m_next'[b].to = n.to /\ m_next'[b].flags = n.flags \cup {"busy"}
        /\ m_next'[b] = NextWord(n.to, n.flags \cup {"busy"})
        /\ \A a \in Block : a # b => m_next'[a] = m_next[a]
    BY <1>3, <1>5, <2>4 DEF IInv, TypeOK, BaseTypeOK, NextPtr, NextWord
  <2>6. /\ \A d \in Consumers \ {c} : cons'[d] = cons[d]
        /\ cons'[c].pc = "consuming" /\ cons'[c].control = b
        /\ cons'[c].next.to = n.to /\ cons'[c].next.flags = n.flags \cup {"dead"}
    BY <1>1, <1>3, <2>4 DEF Consume, NextPtr
  <2> HIDE DEF b, n
  <2>7. FlagsOnly(c)
    <3>1. m_next'[b] # Zero
      BY <1>3, <2>5, Addresses DEF Zero
    <3> QED
      BY <1>5, <2>1, <2>2, <2>3, <2>5, <3>1 DEF FlagsOnly, InPage
  <2>8. TakerHas(c)'
    <3>1. ((n.flags \cup {"dead"}) \ {"dead"}) \cup {"busy"} = n.flags \cup {"busy"}
      BY <2>2
    <3> QED
      BY <2>1, <2>2, <2>5, <2>6, <3>1 DEF TakerHas, TakenWord, NextWord, InPage
  <2>9. ConsumerKnows(c)'
    <3>1. SamePage(b, n.to)
      BY <1>1, <1>2, <2>1 DEF ConsumerKnows, InPage, b, n
    <3> QED
      BY <2>6, <3>1 DEF ConsumerKnows, SamePage
  <2>10. /\ \A p \in Producers : Stores(p) => prod[p].tail # cons'[c].control
         /\ \A p \in Producers : Putting(p) => prod[p].control # cons'[c].control
         /\ \A d \in Consumers \ {c} : Takes(d) => cons[d].control # cons'[c].control
    BY <2>3, <2>6
  <2> QED
    BY <1>2, <2>6, <2>7, <2>8, <2>9, <2>10, ConsumerLeavesWords
<1> QED
  BY <1>4, <1>5

\* It is consumed, or left where it is.
LEMMA ReleaseKeepsWords ==
    ASSUME IInv, WordsInv, UNCHANGED tailVars, NEW c \in Consumers, CommitConsume(c) \/ CancelConsume(c)
    PROVE  WordsInv'
<1> DEFINE b == cons[c].control
           n == cons[c].next
<1>1. cons \in [Consumers -> Consume] /\ cons[c] \in Consume /\ ConsumerOK(c) /\ ConsumerKnows(c)
  BY DEF IInv, TypeOK, HeadTypeOK, ConsumersOK, WordsInv
<1>2. UNCHANGED <<pool, m_initial_page>> /\ cons[c].pc = "consuming" /\ Takes(c)
  BY DEF CommitConsume, CancelConsume, At, Takes
<1>3. b \in Block /\ n.to \in Block
  BY <1>1, <1>2 DEF ConsumerOK
<1>4. InPage(b) /\ m_next[b] = TakenWord(c)
  BY <1>2 DEF WordsInv, TakerHas
<1>5. m_next'[b].to = n.to /\ \A a \in Block : a # b => m_next'[a] = m_next[a]
  BY <1>3 DEF CommitConsume, CancelConsume, NextWord, IInv, TypeOK, BaseTypeOK
<1>6. /\ \A d \in Consumers \ {c} : cons'[d] = cons[d]
      /\ \/ cons'[c].pc = "advance" /\ cons'[c].control = b /\ cons'[c].next = n
         \/ cons'[c].pc = "idle"
  BY <1>1 DEF CommitConsume, CancelConsume, Consume
<1>7. /\ \A p \in Producers : Stores(p) => prod[p].tail # b
      /\ \A p \in Producers : Putting(p) => prod[p].control # b
      /\ \A d \in Consumers \ {c} : Takes(d) => cons[d].control # b
  BY <1>2 DEF WordsInv, OwnersApart
<1>8. m_next[b].to = n.to
  BY <1>4 DEF TakenWord, NextWord
<1>9. SamePage(b, n.to)
  BY <1>1, <1>2, <1>4 DEF ConsumerKnows, InPage
<1> HIDE DEF b, n
<1>10. FlagsOnly(c)
  <2>1. m_next'[b] # Zero /\ m_next[b] # Zero
    BY <1>3, <1>5, <1>8, Addresses DEF Zero
  <2> QED
    BY <1>4, <1>5, <1>7, <1>8, <2>1 DEF FlagsOnly, InPage
<1>11. ~Takes(c)' /\ ConsumerKnows(c)'
  BY <1>6, <1>9 DEF Takes, At, ConsumerKnows
<1> QED
  BY <1>2, <1>6, <1>10, <1>11, ConsumerLeavesWords DEF TakerHas

\* Every step of a consumer.
LEMMA ConsumerKeepsWords ==
    ASSUME IInv, WordsInv, UNCHANGED tailVars, NEW c \in Consumers, ConsumerNext(c)
    PROVE  WordsInv'
BY BeginIterationKeepsWords, EntersKeepWords, AdvancesKeepWords, TryBusyKeepsWords, ReleaseKeepsWords
   DEF ConsumerNext, ConsumerStep

---------------------------------------------------------------------------
(* The steps of a producer that leave the tail where it is *)

\* No two producers have the same new page, and none that can be allocated.
NewPagesApart ==
    /\ \A q \in Producers : Creates(q) => pool[prod[q].new_page] # "zeroed"
    /\ \A q, r \in Producers : Creates(q) /\ Creates(r) /\ q # r =>
          prod[q].new_page # prod[r].new_page

\* The tail stays, and what is clear with it.
LEMMA TailStaysWords ==
    ASSUME IInv, WordsInv, UNCHANGED <<cons, m_tail, m_rest, m_initial_page>>,
           NEW p \in Producers, \A q \in Producers \ {p} : prod'[q] = prod[q],
           ClearStays, WritesOwn(p), NewPagesApart', WordsLead',
           Stores(p) => \/ m_next'[prod[p].tail] # Zero
                        \/ Stores(p)' /\ prod'[p].tail = prod[p].tail /\ ReservedEnd(p)' = ReservedEnd(p),
           Stores(p)' => \/ Stores(p) /\ prod'[p].tail = prod[p].tail
                         \/ Clear(prod'[p].tail),
           Putting(p)' => \/ Putting(p) /\ prod'[p].control = prod[p].control
                          \/ Stores(p) /\ prod'[p].control = prod[p].tail /\ ~Stores(p)',
           OwnWords(p)',
           Saw(p)' => Pending(prod'[p].tail, prod'[p].rest)
                      \/ Pending(prod[p].tail, prod[p].rest)'
    PROVE  WordsInv'
<1>1. SparesBlank'
  BY PlaceStays DEF SparesBlank, NewPagesApart
<1>2. TailEnds'
  BY PlaceStays
<1>3. \A q \in Producers \ {p} : CreatorKnows(q)'
  BY CreatorsStay
<1> QED
  BY <1>1, <1>2, <1>3, ProducerKeepsWords

\* It writes nothing.
LEMMA ProducerGoes ==
    ASSUME IInv, WordsInv, UNCHANGED <<cons, m_tail, m_rest, m_initial_page, m_next, pool>>,
           NEW p \in Producers, \A q \in Producers \ {p} : prod'[q] = prod[q],
           ~Stores(p), ~Stores(p)',
           Creates(p)' => Creates(p) /\ prod'[p].new_page = prod[p].new_page,
           Putting(p)' => Putting(p) /\ prod'[p].control = prod[p].control /\ prod'[p].next = prod[p].next,
           StoredOK(p)', PutterFlags(p)', CreatorKnows(p)',
           Saw(p)' => Pending(prod'[p].tail, prod'[p].rest)
    PROVE  WordsInv'
<1>1. \A q \in Producers : /\ Stores(q)' <=> Stores(q)
                           /\ Creates(q)' => Creates(q) /\ prod'[q].new_page = prod[q].new_page
  BY DEF Stores, Creates
<1>2. \A b : Reserving(b)' = Reserving(b)
  <2>1. ASSUME NEW b, NEW q \in Producers
        PROVE  q \in Reserving(b)' <=> q \in Reserving(b)
    BY DEF Reserving, Stores
  <2>2. \A b : Reserving(b) \subseteq Producers /\ Reserving(b)' \subseteq Producers
    BY DEF Reserving
  <2> QED
    BY <2>1, <2>2
<1>3. \A b \in Block : Clear(b)' <=> Clear(b)
  BY <1>2 DEF Clear
<1>4. \A x \in Pages : Spare(x)' => Spare(x)
  BY <1>1 DEF Spare
<1>5. ClearStays
  BY <1>3, <1>4 DEF ClearStays
<1>6. NewPagesApart'
  BY <1>1 DEF NewPagesApart, WordsInv, SparesBlank
<1>7. WordsLead'
  BY DEF WordsInv, WordsLead
<1>8. PutterHas(p)'
  <2>1. Putting(p) => PutterHas(p)
    BY DEF WordsInv
  <2> QED
    BY <2>1 DEF PutterHas, InPage
<1>9. StorerOK(p)'
  BY DEF StorerOK
<1>10. WritesOwn(p)
  BY DEF WritesOwn
<1> QED
  BY <1>5, <1>6, <1>7, <1>8, <1>9, <1>10, TailStaysWords DEF OwnWords

\* The element of a transaction comes first, whatever a step of its allocation.
Looping(pc) == pc \notin {"idle", "pending", "settle", "fill"}

\* A step of an allocation that writes nothing.
LEMMA AllocationWords ==
    ASSUME IInv, WordsInv, UNCHANGED <<cons, m_tail, m_rest, m_initial_page, m_next, pool>>,
           NEW p \in Producers, \A q \in Producers \ {p} : prod'[q] = prod[q],
           Looping(prod[p].pc), Looping(prod'[p].pc), prod'[p].pc # "settle_pad",
           ~Stores(p), ~Stores(p)',
           Creates(p)' => Creates(p) /\ prod'[p].new_page = prod[p].new_page,
           prod'[p].control = prod[p].control, prod'[p].next = prod[p].next,
           prod'[p].flags = prod[p].flags,
           CreatorKnows(p)',
           Saw(p)' => Pending(prod'[p].tail, prod'[p].rest)
    PROVE  WordsInv'
<1>1. PutterFlags(p)'
  <2>1. PutterFlags(p)
    BY DEF WordsInv
  <2> QED
    BY <2>1 DEF PutterFlags, Looping, Putting
<1>2. StoredOK(p)'
  BY DEF StoredOK, Looping
<1>3. Putting(p)' => Putting(p)
  BY DEF Putting
<1> QED
  BY <1>1, <1>2, <1>3, ProducerGoes

\* The loop goes round with m_tail.
LEMMA RetryWords ==
    ASSUME IInv, WordsInv, UNCHANGED <<cons, m_tail, m_rest, m_initial_page, m_next, pool>>,
           NEW p \in Producers, Looping(prod[p].pc), ~Stores(p), Retry(p, m_tail, m_rest)
    PROVE  WordsInv'
<1>1. prod \in [Producers -> Producer] /\ prod[p] \in Producer
  BY DEF IInv, TypeOK, TailTypeOK
<1>2. /\ \A q \in Producers \ {p} : prod'[q] = prod[q]
      /\ prod'[p].pc = "try" /\ prod'[p].tail = m_tail /\ prod'[p].rest = m_rest
      /\ prod'[p].control = prod[p].control /\ prod'[p].next = prod[p].next
      /\ prod'[p].flags = prod[p].flags
  BY <1>1 DEF Retry, Producer
<1>3. ~Stores(p)' /\ ~Creates(p)' /\ CreatorKnows(p)' /\ Looping(prod'[p].pc)
  BY <1>2 DEF Stores, Creates, CreatorKnows, Looping
<1>4. Saw(p)' => Pending(prod'[p].tail, prod'[p].rest)
  <2>1. ASSUME Saw(p)' PROVE m_rest # 0
    BY <1>2, <2>1 DEF Saw
  <2> QED
    BY <1>2, <2>1 DEF WordsInv, TailPending
<1> QED
  BY <1>2, <1>3, <1>4, AllocationWords

\* Only the program counter changes.
LEMMA GotoWords ==
    ASSUME IInv, WordsInv, UNCHANGED <<cons, m_tail, m_rest, m_initial_page, m_next, pool>>,
           NEW p \in Producers, Looping(prod[p].pc), ~Stores(p), ~Creates(p),
           NEW pc \in {"give_up", "help_store", "help_tail", "unpin_helped", "create_page", "unpin_failed"},
           PGoto(p, pc),
           pc \in {"help_store", "help_tail", "unpin_helped"} => Saw(p),
           pc = "create_page" => prod[p].tail \in Block /\ prod[p].tail[2] = EndSlot /\ prod[p].tail = m_tail
    PROVE  WordsInv'
<1>1. prod \in [Producers -> Producer] /\ prod[p] \in Producer
  BY DEF IInv, TypeOK, TailTypeOK
<1>2. /\ \A q \in Producers \ {p} : prod'[q] = prod[q]
      /\ prod'[p].pc = pc /\ prod'[p].tail = prod[p].tail /\ prod'[p].rest = prod[p].rest
      /\ prod'[p].control = prod[p].control /\ prod'[p].next = prod[p].next
      /\ prod'[p].flags = prod[p].flags
  BY <1>1 DEF PGoto, Producer
<1>3. ~Stores(p)' /\ ~Creates(p)' /\ CreatorKnows(p)' /\ Looping(prod'[p].pc)
  BY <1>2 DEF Stores, Creates, CreatorKnows, Looping
<1>4. Saw(p)' => Pending(prod'[p].tail, prod'[p].rest)
  <2>1. ASSUME Saw(p)' PROVE Saw(p)
    BY <1>2, <2>1 DEF Saw
  <2> QED
    BY <1>2, <2>1 DEF WordsInv, HelpersOK
<1> QED
  BY <1>2, <1>3, <1>4, AllocationWords

\* What is known of the values a producer works with.
LEMMA ProducerTyped ==
    ASSUME IInv, NEW p \in Producers
    PROVE  /\ prod \in [Producers -> Producer] /\ prod[p] \in Producer /\ ProducerOK(p)
           /\ prod[p].tail = m_tail => prod[p].tail \in Block \cup {InvalidBlock}
           /\ m_tail \in Block \cup {InvalidBlock} /\ m_rest \in Nat
           /\ m_next \in [Block -> NextPtr] /\ \A b \in Block : m_next[b] \in NextPtr
           /\ prod[p].rest \in Nat /\ prod[p].size \in Nat
           /\ m_tail[2] \in Nat /\ m_tail[2] + m_rest <= EndSlot
BY TailBlocks, BaseAssumption, Typed DEF IInv, TypeOK, TailTypeOK, BaseTypeOK, ProducersOK, Producer, TailOK

\* Reading and pinning, until an allocation gives up or finds its page.
LEMMA LoopKeepsWords ==
    ASSUME IInv, WordsInv, UNCHANGED headVars, NEW p \in Producers,
           \/ LoadTail(p) \/ PinEnd(p) \/ RecheckTail(p) \/ CreatePageFails(p)
           \/ UnpinEnd(p) \/ UnpinFailed(p) \/ TooSlow(p)
           \/ PinHelped(p) \/ UnpinHelped(p) \/ RecheckHelped(p)
    PROVE  WordsInv'
<1>1. /\ prod \in [Producers -> Producer] /\ prod[p] \in Producer /\ ProducerOK(p)
      /\ m_tail \in Block \cup {InvalidBlock}
  BY ProducerTyped
<1>2. UNCHANGED <<cons, m_tail, m_rest, m_initial_page, m_next, pool>>
  BY DEF headVars, LoadTail, PinEnd, RecheckTail, CreatePageFails, UnpinEnd, UnpinFailed, TooSlow,
         PinHelped, UnpinHelped, RecheckHelped, baseVars
<1>3. Looping(prod[p].pc) /\ ~Stores(p) /\ ~Creates(p)
  BY DEF LoadTail, PinEnd, RecheckTail, CreatePageFails, UnpinEnd, UnpinFailed, TooSlow, Creating, Helps,
         PinHelped, UnpinHelped, RecheckHelped, PAt, Looping, Stores, Creates
<1>4. CASE LoadTail(p)
  BY <1>2, <1>3, <1>4, RetryWords DEF LoadTail
<1>5. CASE PinEnd(p)
  <2>1. /\ \A q \in Producers \ {p} : prod'[q] = prod[q]
        /\ prod'[p].pc = "recheck" /\ prod'[p].tail = prod[p].tail
        /\ prod'[p].control = prod[p].control /\ prod'[p].next = prod[p].next
        /\ prod'[p].flags = prod[p].flags
    BY <1>1, <1>5 DEF PinEnd, Producer
  <2>2. prod[p].tail \in Block /\ prod[p].tail[2] = EndSlot
    BY <1>1, <1>5 DEF PinEnd, PAt, ProducerOK, AtEnd
  <2>3. ~Stores(p)' /\ ~Creates(p)' /\ CreatorKnows(p)' /\ Looping(prod'[p].pc) /\ ~Saw(p)'
    BY <2>1, <2>2 DEF Stores, Creates, CreatorKnows, Looping, Saw
  <2> QED
    BY <1>2, <1>3, <2>1, <2>3, AllocationWords
<1>6. CASE RecheckTail(p)
  <2>1. CASE TailIs(prod[p].tail, 0)
    <3>1. PGoto(p, "create_page") /\ prod[p].tail = m_tail
      BY <1>6, <2>1 DEF RecheckTail, TailIs
    <3>2. prod[p].tail \in Block /\ prod[p].tail[2] = EndSlot
      BY <1>6 DEF RecheckTail, PAt, WordsInv, CreatorKnows
    <3> QED
      BY <1>2, <1>3, <3>1, <3>2, GotoWords
  <2>2. CASE ~TailIs(prod[p].tail, 0)
    <3>1. /\ \A q \in Producers \ {p} : prod'[q] = prod[q]
          /\ prod'[p].pc = "unpin_end" /\ prod'[p].tail = m_tail /\ prod'[p].rest = m_rest
          /\ prod'[p].control = prod[p].control /\ prod'[p].next = prod[p].next
          /\ prod'[p].flags = prod[p].flags
      BY <1>1, <1>6, <2>2 DEF RecheckTail, Producer
    <3>2. ~Stores(p)' /\ ~Creates(p)' /\ CreatorKnows(p)' /\ Looping(prod'[p].pc)
      BY <3>1 DEF Stores, Creates, CreatorKnows, Looping
    <3>3. Saw(p)' => Pending(prod'[p].tail, prod'[p].rest)
      <4>1. Saw(p)' => m_rest # 0
        BY <3>1 DEF Saw
      <4> QED
        BY <3>1, <4>1 DEF WordsInv, TailPending
    <3> QED
      BY <1>2, <1>3, <3>1, <3>2, <3>3, AllocationWords
  <2> QED
    BY <2>1, <2>2
<1>7. CASE CreatePageFails(p)
  BY <1>2, <1>3, <1>7, GotoWords DEF CreatePageFails
<1>8. CASE UnpinEnd(p) \/ UnpinFailed(p)
  <2>1. /\ \A q \in Producers \ {p} : prod'[q] = prod[q]
        /\ \/ prod[p].pc = "unpin_end" /\ prod'[p].pc = "try"
           \/ prod'[p].pc = "give_up"
        /\ prod'[p].tail = prod[p].tail /\ prod'[p].rest = prod[p].rest
        /\ prod'[p].control = prod[p].control /\ prod'[p].next = prod[p].next
        /\ prod'[p].flags = prod[p].flags
    BY <1>1, <1>8 DEF UnpinEnd, UnpinFailed, Producer, PAt
  <2>2. ~Stores(p)' /\ ~Creates(p)' /\ CreatorKnows(p)' /\ Looping(prod'[p].pc)
    BY <2>1 DEF Stores, Creates, CreatorKnows, Looping
  <2>3. Saw(p)' => Pending(prod'[p].tail, prod'[p].rest)
    <3>1. Saw(p)' => Saw(p)
      BY <2>1 DEF Saw
    <3> QED
      BY <2>1, <3>1 DEF WordsInv, HelpersOK
  <2> HIDE DEF Looping
  <2> QED
    BY <1>2, <1>3, <2>1, <2>2, <2>3, AllocationWords DEF Looping
<1>9. CASE TooSlow(p)
  BY <1>2, <1>3, <1>9, GotoWords DEF TooSlow
<1>10. CASE PinHelped(p) \/ UnpinHelped(p)
  <2>1. /\ \A q \in Producers \ {p} : prod'[q] = prod[q]
        /\ prod'[p].pc \in {"help_recheck", "unpin_helped"}
        /\ prod'[p].tail = prod[p].tail /\ prod'[p].rest = prod[p].rest
        /\ prod'[p].control = prod[p].control /\ prod'[p].next = prod[p].next
        /\ prod'[p].flags = prod[p].flags
    BY <1>1, <1>10 DEF PinHelped, UnpinHelped, PGoto, Producer
  <2>2. ~Stores(p)' /\ ~Creates(p)' /\ CreatorKnows(p)' /\ Looping(prod'[p].pc) /\ prod'[p].pc # "settle_pad"
    BY <2>1 DEF Stores, Creates, CreatorKnows, Looping
  <2>3. Saw(p)
    BY <1>10 DEF PinHelped, Helps, UnpinHelped, PAt, InProgress, Saw
  <2>4. Pending(prod'[p].tail, prod'[p].rest)
    BY <2>1, <2>3 DEF WordsInv, HelpersOK
  <2> QED
    BY <1>2, <1>3, <2>1, <2>2, <2>4, AllocationWords
<1>11. CASE RecheckHelped(p)
  <2>1. CASE PGoto(p, "help_store")
    <3>1. Saw(p)
      BY <1>11 DEF RecheckHelped, PAt, Saw
    <3> QED
      BY <1>2, <1>3, <2>1, <3>1, GotoWords
  <2>2. CASE Retry(p, m_tail, m_rest)
    BY <1>2, <1>3, <2>2, RetryWords
  <2> QED
    BY <1>11, <2>1, <2>2 DEF RecheckHelped
<1> QED
  BY <1>4, <1>5, <1>6, <1>7, <1>8, <1>9, <1>10, <1>11

\* Finding that another producer has been faster.
LEMMA OvertakenKeepsWords ==
    ASSUME IInv, WordsInv, UNCHANGED headVars, NEW p \in Producers,
           \/ LinkPage(p) /\ m_next[prod[p].tail] # InvalidNextPage
           \/ InitPage(p) /\ m_initial_page # NoPage
           \/ AdvanceTail(p) /\ ~TailIs(prod[p].tail, 0)
           \/ InitTail(p) /\ ~TailIs(InvalidBlock, 0)
    PROVE  WordsInv'
<1>1. /\ prod \in [Producers -> Producer] /\ prod[p] \in Producer /\ ProducerOK(p) /\ CreatorKnows(p)
      /\ m_tail \in Block \cup {InvalidBlock}
  BY ProducerTyped DEF WordsInv
<1>2. UNCHANGED <<cons, m_tail, m_rest, m_initial_page, m_next, pool>>
  BY DEF headVars, LinkPage, InitPage, AdvanceTail, InitTail, baseVars
<1>3. Looping(prod[p].pc) /\ ~Stores(p)
  BY DEF LinkPage, InitPage, AdvanceTail, InitTail, PAt, Looping, Stores
<1>4. CASE LinkPage(p) /\ m_next[prod[p].tail] # InvalidNextPage
  <2>1. /\ \A q \in Producers \ {p} : prod'[q] = prod[q]
        /\ prod[p].pc = "link_page" /\ prod'[p].pc = "discard_page" /\ prod'[p].tail = prod[p].tail
        /\ prod'[p].found = m_next[prod[p].tail].to /\ prod'[p].new_page = prod[p].new_page
        /\ prod'[p].control = prod[p].control /\ prod'[p].next = prod[p].next
        /\ prod'[p].flags = prod[p].flags
    BY <1>1, <1>4 DEF LinkPage, Producer, PAt
  <2>2. Creates(p) /\ ~Stores(p)' /\ Looping(prod'[p].pc) /\ ~Saw(p)'
    BY <2>1 DEF Creates, Stores, Looping, Saw
  <2>3. CreatorKnows(p)'
    <3>1. /\ prod[p].tail \in Block /\ prod[p].tail[2] = EndSlot
          /\ prod[p].tail = m_tail \/ Gone(PageOf(prod[p].tail))
      BY <1>1, <2>1 DEF CreatorKnows
    <3>2. prod[p].tail = m_tail /\ m_next[m_tail].to # NoBlock =>
             \E y \in Pages : m_next[m_tail].to = FirstBlock(y) /\ Enterable(y)
      BY <3>1, Spots DEF WordsInv, TailEnds, TailPage
    <3>3. /\ \A x : Enterable(x) => Enterable(x)'
          /\ \A x \in Pages : Gone(x) => Gone(x)'
      <4>1. /\ \A q \in Producers : Stores(q)' <=> Stores(q)
            /\ \A q \in Producers : Creates(q)' => Creates(q) /\ prod'[q].new_page = prod[q].new_page
        BY <1>3, <2>1, <2>2 DEF Stores, Creates
      <4>2. \A b : Reserving(b)' = Reserving(b)
        <5>1. ASSUME NEW b, NEW q \in Producers
              PROVE  q \in Reserving(b)' <=> q \in Reserving(b)
          BY <1>3, <2>1, <2>2 DEF Reserving, Stores
        <5>2. \A b : Reserving(b) \subseteq Producers /\ Reserving(b)' \subseteq Producers
          BY DEF Reserving
        <5> QED
          BY <5>1, <5>2
      <4>3. ClearStays
        BY <1>2, <4>1, <4>2 DEF ClearStays, Clear, Spare
      <4> QED
        BY <1>2, <4>3, PlaceStays
    <3>4. PageOf(prod[p].tail) \in Pages
      BY <3>1, Spots
    <3>5. prod'[p].found # NoBlock /\ prod'[p].tail = m_tail =>
             \E y \in Pages : prod'[p].found = FirstBlock(y) /\ Enterable(y)'
      BY <2>1, <3>2, <3>3
    <3>6. prod'[p].tail = m_tail \/ Gone(PageOf(prod[p].tail))'
      BY <2>1, <3>1, <3>3, <3>4
    <3> QED
      BY <1>2, <2>1, <3>1, <3>5, <3>6 DEF CreatorKnows
  <2> QED
    BY <1>2, <1>3, <2>1, <2>2, <2>3, AllocationWords
<1>5. CASE InitPage(p) /\ m_initial_page # NoPage
  <2>1. /\ \A q \in Producers \ {p} : prod'[q] = prod[q]
        /\ prod[p].pc = "init_page" /\ prod'[p].pc = "discard_initial"
        /\ prod'[p].found = FirstBlock(m_initial_page) /\ prod'[p].new_page = prod[p].new_page
        /\ prod'[p].control = prod[p].control /\ prod'[p].next = prod[p].next
        /\ prod'[p].flags = prod[p].flags
    BY <1>1, <1>5 DEF InitPage, Producer, PAt
  <2>2. Creates(p) /\ ~Stores(p)' /\ Looping(prod'[p].pc) /\ ~Saw(p)'
    BY <2>1 DEF Creates, Stores, Looping, Saw
  <2>3. CreatorKnows(p)'
    BY <1>2, <1>5, <2>1 DEF CreatorKnows
  <2> QED
    BY <1>2, <1>3, <2>1, <2>2, <2>3, AllocationWords
<1>6. CASE (AdvanceTail(p) /\ ~TailIs(prod[p].tail, 0)) \/ (InitTail(p) /\ ~TailIs(InvalidBlock, 0))
  <2>1. /\ \A q \in Producers \ {p} : prod'[q] = prod[q]
        /\ prod'[p].pc \in {"unpin_end", "try"} /\ prod'[p].tail = m_tail /\ prod'[p].rest = m_rest
        /\ prod'[p].control = prod[p].control /\ prod'[p].next = prod[p].next
        /\ prod'[p].flags = prod[p].flags
    BY <1>1, <1>6 DEF AdvanceTail, InitTail, Producer, PAt
  <2>2. ~Stores(p)' /\ ~Creates(p)' /\ CreatorKnows(p)' /\ Looping(prod'[p].pc) /\ prod'[p].pc # "settle_pad"
    BY <2>1 DEF Stores, Creates, CreatorKnows, Looping
  <2>3. Saw(p)' => Pending(prod'[p].tail, prod'[p].rest)
    <3>1. Saw(p)' => m_rest # 0
      BY <2>1 DEF Saw
    <3> QED
      BY <2>1, <3>1 DEF WordsInv, TailPending
  <2> QED
    BY <1>2, <1>3, <2>1, <2>2, <2>3, AllocationWords
<1> QED
  BY <1>4, <1>5, <1>6

\* The compare-exchanges that fail, and a helper that finds the word written.
LEMMA FailuresKeepWords ==
    ASSUME IInv, WordsInv, UNCHANGED headVars, UNCHANGED <<baseVars, m_tail, m_rest>>, NEW p \in Producers,
           \/ Reserve(p) /\ (Retry(p, m_tail, m_rest) \/ PGoto(p, "give_up"))
           \/ Pad(p) /\ Retry(p, m_tail, m_rest)
           \/ SettlePad(p) \/ HelpTail(p) \/ HelpStore(p)
    PROVE  WordsInv'
<1>1. UNCHANGED <<cons, m_tail, m_rest, m_initial_page, m_next, pool>>
  BY DEF headVars, baseVars
<1>2. Looping(prod[p].pc) /\ ~Stores(p) /\ ~Creates(p)
  BY DEF Reserve, Pad, SettlePad, HelpTail, HelpStore, Helps, PAt, Looping, Stores, Creates
<1>3. CASE Retry(p, m_tail, m_rest)
  BY <1>1, <1>2, <1>3, RetryWords
<1>4. CASE PGoto(p, "give_up")
  BY <1>1, <1>2, <1>4, GotoWords
<1>5. CASE SettlePad(p) \/ HelpTail(p)
  <2>1. Retry(p, m_tail', m_rest')
    BY <1>5 DEF SettlePad, HelpTail
  <2>2. Retry(p, m_tail, m_rest)
    BY <2>1 DEF Retry
  <2> QED
    BY <1>3, <2>2
<1>6. CASE HelpStore(p)
  <2>1. Saw(p) /\ PGoto(p, "help_tail")
    BY <1>6 DEF HelpStore, Helps, PAt, InProgress, Saw
  <2> QED
    BY <1>1, <1>2, <2>1, GotoWords
<1> QED
  BY <1>3, <1>4, <1>5, <1>6

\* Once the block is reserved and written, or given up.
LEMMA FinishKeepsWords ==
    ASSUME IInv, WordsInv, UNCHANGED headVars, NEW p \in Producers,
           \/ UnpinScoped(p) \/ Fill(p) \/ GiveUp(p)
           \/ Settle(p) /\ UNCHANGED <<m_tail, m_rest>>
           \/ \E size \in Sizes, g \in Guarantees : StartPut(p, size, g)
           \/ \E size \in Sizes : RawAllocate(p, size)
    PROVE  WordsInv'
<1>1. prod \in [Producers -> Producer] /\ prod[p] \in Producer
  BY ProducerTyped
<1>2. PutterFlags(p)
  BY DEF WordsInv
<1>3. UNCHANGED <<cons, m_tail, m_rest, m_initial_page, m_next, pool>>
  BY DEF headVars, UnpinScoped, Fill, GiveUp, Settle, StartPut, RawAllocate, baseVars
<1>4. CASE UnpinScoped(p)
  <2>1. /\ \A q \in Producers \ {p} : prod'[q] = prod[q]
        /\ prod[p].pc \in {"fill", "give_up"} /\ prod'[p].pc = prod[p].pc
        /\ prod'[p].control = prod[p].control /\ prod'[p].next = prod[p].next
        /\ prod'[p].flags = prod[p].flags
    BY <1>1, <1>4 DEF UnpinScoped, Producer
  <2>2. /\ ~Stores(p) /\ ~Stores(p)' /\ ~Creates(p)' /\ (Putting(p)' <=> Putting(p)) /\ ~Saw(p)'
        /\ StoredOK(p)' /\ CreatorKnows(p)'
    BY <2>1 DEF Stores, Creates, Putting, Saw, StoredOK, CreatorKnows
  <2>3. PutterFlags(p)'
    BY <1>2, <2>1, <2>2 DEF PutterFlags
  <2> QED
    BY <1>3, <2>1, <2>2, <2>3, ProducerGoes
<1>5. CASE Settle(p) /\ UNCHANGED <<m_tail, m_rest>>
  <2>1. /\ \A q \in Producers \ {p} : prod'[q] = prod[q]
        /\ prod[p].pc = "settle" /\ prod'[p].pc = "fill"
        /\ prod'[p].control = prod[p].control /\ prod'[p].next = prod[p].next
        /\ prod'[p].flags = prod[p].flags
    BY <1>1, <1>5 DEF Settle, PGoto, PAt, Producer
  <2>2. /\ ~Stores(p) /\ ~Stores(p)' /\ ~Creates(p)' /\ (Putting(p)' <=> Putting(p)) /\ ~Saw(p)'
        /\ StoredOK(p)' /\ CreatorKnows(p)'
    BY <2>1 DEF Stores, Creates, Putting, Saw, StoredOK, CreatorKnows
  <2>3. PutterFlags(p)'
    BY <1>2, <2>1, <2>2 DEF PutterFlags
  <2> QED
    BY <1>3, <2>1, <2>2, <2>3, ProducerGoes
<1>6. CASE Fill(p) \/ (GiveUp(p) /\ prod[p].control # NoBlock)
  <2>1. /\ \A q \in Producers \ {p} : prod'[q] = prod[q]
        /\ prod[p].pc \in {"fill", "give_up"} /\ prod'[p].pc = "pending"
        /\ prod'[p].control = prod[p].control /\ prod'[p].next = prod[p].next
    <3>1. prod' = [prod EXCEPT ![p] = Done(p, "pending")] /\ prod[p].pc \in {"fill", "give_up"}
      BY <1>6 DEF Fill, GiveUp, Fail, PAt
    <3> QED
      BY <1>1, <3>1 DEF Done, Producer
  <2>2. Putting(p)
    BY <1>2, <1>6 DEF PutterFlags, Fill, PAt, Putting
  <2>3. /\ ~Stores(p) /\ ~Stores(p)' /\ ~Creates(p)' /\ Putting(p)' /\ ~Saw(p)'
        /\ StoredOK(p)' /\ CreatorKnows(p)'
    BY <2>1, <2>2 DEF Stores, Creates, Putting, Saw, StoredOK, CreatorKnows
  <2>4. PutterFlags(p)'
    BY <2>1, <2>3 DEF PutterFlags
  <2> QED
    BY <1>3, <2>1, <2>2, <2>3, <2>4, ProducerGoes
<1>7. CASE GiveUp(p) /\ prod[p].control = NoBlock
  <2>1. /\ \A q \in Producers \ {p} : prod'[q] = prod[q]
        /\ prod[p].pc = "give_up" /\ prod'[p].pc = "idle" /\ prod'[p].control = NoBlock
    BY <1>1, <1>7 DEF GiveUp, Fail, NewProducer, PAt, Producer
  <2>2. /\ ~Stores(p) /\ ~Stores(p)' /\ ~Creates(p)' /\ ~Putting(p)' /\ ~Saw(p)'
        /\ StoredOK(p)' /\ CreatorKnows(p)' /\ PutterFlags(p)'
    BY <2>1 DEF Stores, Creates, Putting, Saw, StoredOK, CreatorKnows, PutterFlags
  <2> QED
    BY <1>3, <2>1, <2>2, ProducerGoes
<1>8. CASE \E size \in Sizes, g \in Guarantees : StartPut(p, size, g)
  <2>1. /\ \A q \in Producers \ {p} : prod'[q] = prod[q]
        /\ prod[p].pc = "idle" /\ prod'[p].pc = "load_tail" /\ prod'[p].control = NoBlock
        /\ "busy" \in prod'[p].flags /\ "dead" \notin prod'[p].flags
    <3>1. PICK size \in Sizes, g \in Guarantees : StartPut(p, size, g)
      BY <1>8
    <3> DEFINE f == IF External(size) THEN {"busy"} \cup {"external"} ELSE {"busy"}
               s == IF External(size) THEN 1 ELSE size
    <3>2. prod' = [prod EXCEPT ![p] = [[NewProducer EXCEPT !.puts = prod[p].puts + 1, !.guarantee = g]
                                         EXCEPT !.pc = "load_tail", !.size = s, !.flags = f]]
      BY <3>1 DEF StartPut, Allocate
    <3>3. "busy" \in f /\ "dead" \notin f /\ prod[p].pc = "idle"
      BY <3>1 DEF StartPut, PAt
    <3> HIDE DEF f, s
    <3> QED
      BY <1>1, <3>2, <3>3 DEF NewProducer
  <2>2. /\ ~Stores(p) /\ ~Stores(p)' /\ ~Creates(p)' /\ ~Putting(p)' /\ ~Saw(p)'
        /\ StoredOK(p)' /\ CreatorKnows(p)' /\ PutterFlags(p)'
    BY <2>1 DEF Stores, Creates, Putting, Saw, StoredOK, CreatorKnows, PutterFlags
  <2> QED
    BY <1>3, <2>1, <2>2, ProducerGoes
<1>9. CASE \E size \in Sizes : RawAllocate(p, size)
  <2>1. /\ \A q \in Producers \ {p} : prod'[q] = prod[q]
        /\ prod[p].pc = "pending" /\ prod'[p].pc = "load_tail"
        /\ prod'[p].control = prod[p].control /\ prod'[p].next = prod[p].next
        /\ "dead" \in prod'[p].flags /\ "busy" \notin prod'[p].flags
    <3>1. PICK size \in Sizes : RawAllocate(p, size)
      BY <1>9
    <3> DEFINE f == IF External(size) THEN {"dead"} \cup {"external"} ELSE {"dead"}
               s == IF External(size) THEN 1 ELSE size
    <3>2. prod' = [prod EXCEPT ![p] = [[prod[p] EXCEPT !.raws = prod[p].raws + 1]
                                         EXCEPT !.pc = "load_tail", !.size = s, !.flags = f]]
      BY <3>1 DEF RawAllocate, Allocate
    <3>3. "dead" \in f /\ "busy" \notin f /\ prod[p].pc = "pending"
      BY <3>1 DEF RawAllocate, PAt
    <3> HIDE DEF f, s
    <3> QED
      BY <1>1, <3>2, <3>3 DEF Producer
  <2>2. Putting(p)
    BY <1>2, <2>1 DEF PutterFlags
  <2>3. /\ ~Stores(p) /\ ~Stores(p)' /\ ~Creates(p)' /\ Putting(p)' /\ ~Saw(p)'
        /\ StoredOK(p)' /\ CreatorKnows(p)'
    BY <2>1, <2>2 DEF Stores, Creates, Putting, Saw, StoredOK, CreatorKnows
  <2>4. PutterFlags(p)'
    BY <2>1, <2>3 DEF PutterFlags
  <2> QED
    BY <1>3, <2>1, <2>2, <2>3, <2>4, ProducerGoes
<1> QED
  BY <1>4, <1>5, <1>6, <1>7, <1>8, <1>9

---------------------------------------------------------------------------
(* The words that a producer writes *)

\* A word is written where there was one, or a reservation.
LEMMA WritesStay ==
    ASSUME NEW p \in Producers, \A q \in Producers \ {p} : prod'[q] = prod[q],
           NEW b \in Block, InPage(b), ~Clear(b), m_next'[b] # Zero,
           \A a \in Block : a # b => m_next'[a] = m_next[a],
           Stores(p) => prod[p].tail = b /\ ~Stores(p)',
           ~Stores(p) => ~Stores(p)',
           Creates(p)' => Creates(p) /\ prod'[p].new_page = prod[p].new_page, UNCHANGED pool
    PROVE  ClearStays /\ (NewPagesApart => NewPagesApart')
<1>1. \A a \in Block : a # b => Reserving(a)' = Reserving(a)
  <2>1. ASSUME NEW a \in Block, a # b, NEW q \in Producers
        PROVE  q \in Reserving(a)' <=> q \in Reserving(a)
    BY <2>1 DEF Reserving, Stores
  <2>2. \A a : Reserving(a) \subseteq Producers /\ Reserving(a)' \subseteq Producers
    BY DEF Reserving
  <2> QED
    BY <2>1, <2>2
<1>2. \A q \in Producers : Creates(q)' => Creates(q) /\ prod'[q].new_page = prod[q].new_page
  BY DEF Creates
<1>3. \A a \in Block : a[2] < EndSlot => (Clear(a)' <=> Clear(a))
  BY <1>1 DEF Clear
<1>4. \A x \in Pages : m_next'[End(x)].to \in {m_next[End(x)].to, NoBlock}
  BY Spots DEF InPage
<1>5. \A x \in Pages : Spare(x)' => Spare(x)
  BY <1>2 DEF Spare
<1> QED
  BY <1>2, <1>3, <1>4, <1>5 DEF ClearStays, NewPagesApart

\* A block and the one after it.
LEMMA WritesLead ==
    ASSUME WordsInv, NEW b \in Block, InPage(b),
           m_next'[b].to \in Block /\ SamePage(b, m_next'[b].to),
           \A a \in Block : a # b => m_next'[a] = m_next[a]
    PROVE  WordsLead'
<1>1. ASSUME NEW a \in Block
      PROVE  /\ a[2] < EndSlot => m_next'[a] = Zero \/ (m_next'[a].to \in Block /\ SamePage(a, m_next'[a].to))
             /\ a[2] = EndSlot /\ m_next'[a].to # NoBlock => "dead" \in m_next'[a].flags
  <2>1. CASE a = b
    BY <2>1, Spots DEF InPage
  <2>2. CASE a # b
    BY <2>2 DEF WordsInv, WordsLead
  <2> QED
    BY <2>1, <2>2
<1> QED
  BY <1>1 DEF WordsLead

\* A producer writes in a block that no other thread owns, or what the one
\* that has reserved it would.
LEMMA WriteKeepsWords ==
    ASSUME IInv, WordsInv, UNCHANGED <<cons, m_tail, m_rest, m_initial_page, pool>>,
           NEW p \in Producers, \A q \in Producers \ {p} : prod'[q] = prod[q],
           NEW b \in Block, InPage(b), ~Clear(b),
           m_next'[b].to \in Block /\ SamePage(b, m_next'[b].to),
           \A a \in Block : a # b => m_next'[a] = m_next[a],
           Stores(p) => prod[p].tail = b, ~Stores(p)',
           ~Creates(p)',
           \A q \in Producers \ {p} : Putting(q) => prod[q].control # b,
           \A q \in Producers \ {p} : Stores(q) /\ prod[q].tail = b => m_next'[b] = NextWord(ReservedEnd(q), {"busy"}),
           \A c \in Consumers : Takes(c) => cons[c].control # b,
           Putting(p)' => \/ Putting(p) /\ prod'[p].control = prod[p].control
                          \/ Stores(p) /\ prod'[p].control = b,
           StoredOK(p)', PutterHas(p)', PutterFlags(p)', CreatorKnows(p)',
           Saw(p)' => Pending(prod'[p].tail, prod'[p].rest)
    PROVE  WordsInv'
<1>1. m_next'[b] # Zero
  BY Addresses DEF Zero
<1>2. ClearStays /\ NewPagesApart'
  <2>1. NewPagesApart
    BY DEF WordsInv, SparesBlank, NewPagesApart
  <2> QED
    BY <1>1, <2>1, WritesStay
<1>3. WordsLead'
  BY WritesLead
<1>4. WritesOwn(p)
  BY <1>1 DEF WritesOwn
<1>5. StorerOK(p)'
  BY DEF StorerOK
<1> QED
  BY <1>1, <1>2, <1>3, <1>4, <1>5, TailStaysWords DEF OwnWords

\* The control word of a block that has been reserved.
LEMMA StoreBlockKeepsWords ==
    ASSUME IInv, WordsInv, UNCHANGED headVars, NEW p \in Producers, StoreBlock(p) \/ StorePad(p)
    PROVE  WordsInv'
<1> DEFINE b == prod[p].tail
           f == IF PAt(p, "store") THEN prod[p].flags ELSE {"dead"}
           n == NextWord(ReservedEnd(p), f)
<1>1. prod \in [Producers -> Producer] /\ prod[p] \in Producer /\ m_next \in [Block -> NextPtr]
  BY ProducerTyped
<1>2. UNCHANGED <<cons, m_tail, m_rest, m_initial_page, pool>>
  BY DEF headVars, StoreBlock, StorePad
<1>3. Stores(p) /\ prod[p].pc = (IF PAt(p, "store") THEN "store" ELSE "store_pad")
  BY DEF StoreBlock, StorePad, PAt, Stores
<1>4. InPage(b) /\ ReservedEnd(p) \in Block /\ SamePage(b, ReservedEnd(p)) /\ b \in Block /\ ~Clear(b)
  BY <1>3, Owned DEF WordsInv, StorerOK, InPage
<1>5. m_next' = [m_next EXCEPT ![b] = n]
  BY DEF StoreBlock, StorePad, PAt
<1>6. n.to = ReservedEnd(p) /\ n.flags = f
  BY DEF NextWord
<1>7. PutterFlags(p) /\ PutterHas(p)
  BY DEF WordsInv
<1>8. \/ /\ PAt(p, "store") /\ "busy" \in f
         /\ prod' = [prod EXCEPT ![p].pc = "settle", ![p].control = b, ![p].next = n]
      \/ PAt(p, "store") /\ "busy" \notin f /\ prod' = [prod EXCEPT ![p].pc = "settle"]
      \/ prod[p].pc = "store_pad" /\ prod' = [prod EXCEPT ![p].pc = "settle_pad"]
  <2>1. CASE PAt(p, "store")
    BY <2>1, <1>6 DEF StoreBlock, StorePad, PAt, PGoto
  <2>2. CASE ~PAt(p, "store")
    BY <2>2 DEF StoreBlock, StorePad, PAt, PGoto
  <2> QED
    BY <2>1, <2>2
<1> HIDE DEF n
<1>9. m_next'[b] = n /\ \A a \in Block : a # b => m_next'[a] = m_next[a]
  BY <1>1, <1>4, <1>5
<1>10. /\ \A q \in Producers : Putting(q) => prod[q].control # b
       /\ \A q \in Producers \ {p} : Stores(q) => prod[q].tail # b
       /\ \A c \in Consumers : Takes(c) => cons[c].control # b
  BY <1>3 DEF WordsInv, OwnersApart
<1>11. /\ \A q \in Producers \ {p} : prod'[q] = prod[q]
       /\ prod'[p].pc \in {"settle", "settle_pad"} /\ prod'[p].tail = b
       /\ ~Stores(p)' /\ ~Creates(p)' /\ ~Saw(p)' /\ CreatorKnows(p)'
       /\ Putting(p)' => \/ Putting(p) /\ prod'[p].control = prod[p].control
                         \/ prod'[p].control = b
  <2>1. /\ \A q \in Producers \ {p} : prod'[q] = prod[q]
        /\ prod'[p].pc \in {"settle", "settle_pad"} /\ prod'[p].tail = b
        /\ prod'[p].control \in {b, prod[p].control}
    BY <1>1, <1>8 DEF Producer
  <2> QED
    BY <2>1 DEF Stores, Creates, Saw, CreatorKnows, Putting
<1>12. StoredOK(p)'
  <2>1. m_next'[b] # Zero
    BY <1>4, <1>6, <1>9, Addresses DEF Zero
  <2> QED
    BY <1>4, <1>11, <2>1 DEF StoredOK, InPage
<1>13. PutterHas(p)' /\ PutterFlags(p)'
  <2>1. CASE PAt(p, "store") /\ "busy" \in f
    <3>1. prod'[p].pc = "settle" /\ prod'[p].control = b /\ prod'[p].next = n
      BY <1>1, <1>8, <2>1 DEF Producer, PAt
    <3>2. "dead" \notin f
      BY <1>7, <2>1 DEF PutterFlags, PAt
    <3>3. b # NoBlock
      BY <1>4, Addresses
    <3> QED
      BY <1>4, <1>6, <1>9, <2>1, <3>1, <3>2, <3>3 DEF PutterHas, PutterFlags, Putting, InPage
  <2>2. CASE PAt(p, "store") /\ "busy" \notin f
    <3>1. /\ prod'[p].pc = "settle" /\ prod'[p].control = prod[p].control /\ prod'[p].next = prod[p].next
      BY <1>1, <1>8, <2>2 DEF Producer, PAt
    <3>2. Putting(p)
      BY <1>7, <2>2 DEF PutterFlags, PAt
    <3>3. m_next'[prod[p].control] = m_next[prod[p].control]
      BY <1>7, <1>9, <1>10, <3>2 DEF PutterHas, InPage
    <3> QED
      BY <1>7, <3>1, <3>2, <3>3 DEF PutterHas, PutterFlags, Putting, InPage
  <2>3. CASE prod[p].pc = "store_pad"
    <3>1. /\ prod'[p].pc = "settle_pad" /\ prod'[p].control = prod[p].control /\ prod'[p].next = prod[p].next
          /\ prod'[p].flags = prod[p].flags
      BY <1>1, <1>8, <2>3 DEF Producer, PAt
    <3>2. Putting(p) => m_next'[prod[p].control] = m_next[prod[p].control]
      BY <1>7, <1>9, <1>10 DEF PutterHas, InPage
    <3> QED
      BY <1>7, <2>3, <3>1, <3>2 DEF PutterHas, PutterFlags, Putting, InPage
  <2> QED
    BY <1>8, <2>1, <2>2, <2>3
<1> HIDE DEF b, f
<1>14. m_next'[b].to \in Block /\ SamePage(b, m_next'[b].to)
  BY <1>4, <1>6, <1>9
<1>15. prod[p].tail = b
  BY DEF b
<1> QED
  BY <1>2, <1>3, <1>4, <1>9, <1>10, <1>11, <1>12, <1>13, <1>14, <1>15, WriteKeepsWords

\* A helper writes the word of the producer that is late.
LEMMA HelpStoreKeepsWords ==
    ASSUME IInv, WordsInv, UNCHANGED headVars, NEW p \in Producers, HelpStore(p)
    PROVE  WordsInv'
<1> DEFINE b == prod[p].tail
           n == NextWord(NewTail(b, prod[p].rest), {"busy"})
<1>1. prod \in [Producers -> Producer] /\ prod[p] \in Producer /\ m_next \in [Block -> NextPtr]
  BY ProducerTyped
<1>2. UNCHANGED <<cons, content, m_tail, m_rest, m_initial_page, pool, pinners, heap, status>>
  BY DEF headVars, HelpStore
<1>3. Saw(p) /\ prod[p].pc \in {"help_store", "try"}
  BY DEF HelpStore, Helps, PAt, InProgress, Saw
<1>4. CASE m_next' = m_next
  BY <1>2, <1>4, FailuresKeepWords DEF baseVars
<1>5. CASE m_next[b] = Zero /\ m_next' = [m_next EXCEPT ![b] = n]
  <2>1. Pending(b, prod[p].rest)
    BY <1>3 DEF WordsInv, HelpersOK
  <2>2. PICK q \in Reserving(b) : ReservedEnd(q) = NewTail(b, prod[p].rest)
    BY <1>5, <2>1 DEF Pending
  <2>3. q \in Producers /\ Stores(q) /\ prod[q].tail = b
    BY <2>2 DEF Reserving, Stores
  <2>4. InPage(b) /\ ~Clear(b) /\ ReservedEnd(q) \in Block /\ SamePage(b, ReservedEnd(q)) /\ b \in Block
    BY <2>3, Owned DEF WordsInv, StorerOK, InPage
  <2>5. n = NextWord(ReservedEnd(q), {"busy"}) /\ n.to = ReservedEnd(q)
    BY <2>2 DEF NextWord
  <2>6. /\ \A r \in Producers : Putting(r) => prod[r].control # b
        /\ \A r \in Producers : Stores(r) /\ r # q => prod[r].tail # b
        /\ \A c \in Consumers : Takes(c) => cons[c].control # b
    BY <2>3 DEF WordsInv, OwnersApart
  <2>7. /\ \A r \in Producers \ {p} : prod'[r] = prod[r]
        /\ prod'[p].pc = "help_tail" /\ prod'[p].tail = b /\ prod'[p].rest = prod[p].rest
        /\ prod'[p].control = prod[p].control /\ prod'[p].next = prod[p].next
        /\ prod'[p].flags = prod[p].flags
    BY <1>1 DEF HelpStore, PGoto, Producer
  <2> HIDE DEF n
  <2>8. m_next'[b] = n /\ \A a \in Block : a # b => m_next'[a] = m_next[a]
    BY <1>1, <1>5, <2>4
  <2>9. ~Stores(p) /\ ~Stores(p)' /\ ~Creates(p)' /\ CreatorKnows(p)' /\ (Putting(p)' => Putting(p))
        /\ StoredOK(p)'
    BY <1>3, <2>7 DEF Stores, Creates, CreatorKnows, Putting, StoredOK
  <2>10. PutterHas(p)' /\ PutterFlags(p)'
    <3>1. PutterHas(p) /\ PutterFlags(p)
      BY DEF WordsInv
    <3>2. Putting(p) => m_next'[prod[p].control] = m_next[prod[p].control]
      BY <2>6, <2>8, <3>1 DEF PutterHas, InPage
    <3> QED
      BY <1>3, <2>7, <3>1, <3>2 DEF PutterHas, PutterFlags, Putting, InPage
  <2>11. m_next'[b].to \in Block /\ SamePage(b, m_next'[b].to)
    BY <2>4, <2>5, <2>8
  <2>12. \A r \in Producers \ {p} : Stores(r) /\ prod[r].tail = b => m_next'[b] = NextWord(ReservedEnd(r), {"busy"})
    BY <2>5, <2>6, <2>8
  <2> HIDE DEF b
  <2> QED
    BY <1>2, <2>1, <2>4, <2>6, <2>7, <2>8, <2>9, <2>10, <2>11, <2>12, WriteKeepsWords
<1> QED
  BY <1>4, <1>5 DEF HelpStore

\* A transaction ends.
LEMMA EndPutKeepsWords ==
    ASSUME IInv, WordsInv, UNCHANGED headVars, NEW p \in Producers, CommitPut(p) \/ CancelPut(p)
    PROVE  WordsInv'
<1> DEFINE b == prod[p].control
<1>1. prod \in [Producers -> Producer] /\ prod[p] \in Producer /\ m_next \in [Block -> NextPtr] /\ ProducerOK(p)
  BY ProducerTyped
<1>2. UNCHANGED <<cons, m_tail, m_rest, m_initial_page, pool>>
  BY DEF headVars, CommitPut, CancelPut, EndPut
<1>3. prod[p].pc = "pending"
  BY DEF CommitPut, CancelPut, EndPut, PAt
<1>4. Putting(p)
  BY <1>3 DEF WordsInv, PutterFlags
<1>5. InPage(b) /\ m_next[b] = prod[p].next /\ b \in Block /\ ~Clear(b)
  BY <1>4, Owned DEF WordsInv, PutterHas, InPage
<1>6. prod[p].next.to \in Block /\ SamePage(b, prod[p].next.to)
  <2>1. prod[p].next.to \in Block
    BY <1>1, <1>4 DEF ProducerOK, Putting
  <2>2. m_next[b] # Zero
    BY <1>5, <2>1, Addresses DEF Zero
  <2> QED
    BY <1>5, <2>1, <2>2 DEF WordsInv, WordsLead, InPage
<1>7. m_next'[b].to = prod[p].next.to /\ \A a \in Block : a # b => m_next'[a] = m_next[a]
  BY <1>1, <1>5 DEF CommitPut, CancelPut, EndPut, NextWord
<1>8. /\ \A q \in Producers \ {p} : Putting(q) => prod[q].control # b
      /\ \A q \in Producers : Stores(q) => prod[q].tail # b
      /\ \A c \in Consumers : Takes(c) => cons[c].control # b
  BY <1>4 DEF WordsInv, OwnersApart
<1>9. /\ \A q \in Producers \ {p} : prod'[q] = prod[q]
      /\ prod'[p].pc = "idle" /\ prod'[p].control = NoBlock
  BY <1>1 DEF CommitPut, CancelPut, EndPut, NewProducer
<1>10. /\ ~Stores(p) /\ ~Stores(p)' /\ ~Creates(p)' /\ ~Saw(p)' /\ ~Putting(p)'
       /\ StoredOK(p)' /\ PutterHas(p)' /\ PutterFlags(p)' /\ CreatorKnows(p)'
  BY <1>3, <1>9 DEF Stores, Creates, Saw, Putting, StoredOK, PutterHas, PutterFlags, CreatorKnows
<1> HIDE DEF b
<1> QED
  BY <1>2, <1>5, <1>6, <1>7, <1>8, <1>9, <1>10, WriteKeepsWords

---------------------------------------------------------------------------
(* The steps of a producer that move the tail *)

\* The tail moves or a block is reserved there, and no word is written.
LEMMA TailMovesWords ==
    ASSUME IInv, WordsInv, UNCHANGED cons, UNCHANGED baseVars,
           NEW p \in Producers, \A q \in Producers \ {p} : prod'[q] = prod[q],
           ~Stores(p), Stores(p)' => Clear(prod'[p].tail), ~Creates(p)', ~Saw(p)',
           prod'[p].control = prod[p].control, prod'[p].next = prod[p].next,
           StorerOK(p)', StoredOK(p)', PutterFlags(p)', CreatorKnows(p)',
           \A q \in Producers \ {p} : CreatorKnows(q)',
           \A x \in Pages : Spare(x) => Blank(x)', TailEnds', TailPending'
    PROVE  WordsInv'
<1>1. UNCHANGED <<m_next, pool, m_initial_page>>
  BY DEF baseVars
<1>2. \A q \in Producers : Creates(q)' => Creates(q) /\ prod'[q] = prod[q]
  BY DEF Creates
<1>3. SparesBlank'
  <2>1. \A x \in Pages : Spare(x)' => Spare(x)
    BY <1>1, <1>2 DEF Spare
  <2> QED
    BY <1>1, <1>2, <2>1 DEF SparesBlank, WordsInv
<1>4. WordsLead'
  BY <1>1 DEF WordsInv, WordsLead
<1>5. PutterHas(p)'
  <2>1. PutterHas(p)
    BY DEF WordsInv
  <2> QED
    BY <1>1, <2>1 DEF PutterHas, Putting, InPage
<1>6. WritesOwn(p)
  BY <1>1 DEF WritesOwn
<1>7. Putting(p)' => Putting(p)
  BY DEF Putting
<1> QED
  BY <1>3, <1>4, <1>5, <1>6, <1>7, ProducerKeepsWords DEF OwnWords

\* Along its page, blocks are only taken.
LEMMA TailAlongPage ==
    ASSUME IInv, WordsInv, UNCHANGED baseVars,
           NEW p \in Producers, \A q \in Producers \ {p} : prod'[q] = prod[q],
           m_tail \in Block, m_tail[2] < EndSlot,
           m_tail' \in Block, SamePage(m_tail, m_tail'), m_tail[2] <= m_tail'[2],
           ~Creates(p)',
           \A b \in Block : Clear(b)' => Clear(b),
           \A b \in Block : PageOf(b) # PageOf(m_tail) /\ Clear(b) => Clear(b)',
           \A b \in Block : /\ PageOf(b) = PageOf(m_tail) /\ m_tail'[2] <= b[2] /\ b[2] < EndSlot
                            /\ b = m_tail' => m_rest' = 0
                            => Clear(b)',
           m_tail'[2] > 0 => ~Clear(FirstBlock(PageOf(m_tail)))'
    PROVE  /\ \A q \in Producers \ {p} : CreatorKnows(q)'
           /\ \A x \in Pages : Spare(x) => Blank(x)'
           /\ TailEnds'
<1>0. PICK x0 : x0 = PageOf(m_tail)
  OBVIOUS
<1>1. UNCHANGED <<m_next, pool, m_initial_page>>
  BY DEF baseVars
<1>2. x0 \in Pages /\ TailPage(x0) /\ PageOf(m_tail') = x0 /\ m_tail # InvalidBlock /\ m_tail' # InvalidBlock
  BY <1>0, Spots, Addresses DEF WordsInv, TailEnds, SamePage
<1>3. \A x \in Pages : Spare(x)' => Spare(x)
  <2>1. \A q \in Producers : Creates(q)' => Creates(q) /\ prod'[q] = prod[q]
    BY DEF Creates
  <2> QED
    BY <1>1, <2>1 DEF Spare
<1>4. \A x \in Pages : x # x0 /\ Blank(x) => Blank(x)'
  BY <1>0, <1>1, Spots DEF Blank
<1>5. \A x \in Pages : Spare(x) => Blank(x)'
  <2>1. ~Spare(x0)
    BY <1>2 DEF TailPage
  <2> QED
    BY <1>4, <2>1 DEF WordsInv, SparesBlank
<1>6. TailPage(x0)'
  <2>1. ~Spare(x0)'
    BY <1>2, <1>3 DEF TailPage
  <2>2. m_next'[End(x0)].to = NoBlock
    BY <1>1, <1>2 DEF TailPage
  <2>3. ~(m_tail'[2] < EndSlot) => m_tail' = End(x0)
    BY <1>2, Spots
  <2>4. \A b \in Block : /\ PageOf(b) = x0 /\ m_tail'[2] <= b[2] /\ b[2] < EndSlot
                         /\ b = m_tail' => m_rest' = 0
                         => Clear(b)'
    BY <1>0
  <2>5. m_tail'[2] > 0 => ~Clear(FirstBlock(x0))'
    BY <1>2 DEF Clear, Reserving, FirstBlock
  <2> QED
    BY <2>1, <2>2, <2>3, <2>4, <2>5 DEF TailPage
<1>7. TailEnds'
  <2>1. TailPage(PageOf(m_tail))'
    BY <1>2, <1>6 DEF TailPage, Spare, End
  <2>4. m_initial_page # NoPage
    BY <1>2 DEF WordsInv, TailEnds
  <2> QED
    BY <1>1, <1>2, <2>1, <2>4 DEF TailEnds
<1>8. ASSUME NEW q \in Producers \ {p} PROVE CreatorKnows(q)'
  <2>1. CreatorKnows(q) /\ prod'[q] = prod[q]
    BY DEF WordsInv
  <2>2. ASSUME prod[q].tail \in Block, prod[q].tail[2] = EndSlot PROVE prod[q].tail # m_tail
    BY <2>2, Spots
  <2>3. ASSUME NEW x \in Pages, Gone(x) PROVE Gone(x)' /\ x # x0
    <3>1. FirstBlock(x) \in Block
      BY Addresses
    <3> QED
      BY <1>0, <1>2, <2>3, <3>1 DEF Gone
  <2>4. prod[q].tail \in Block => PageOf(prod[q].tail) \in Pages
    BY Spots
  <2>5. ASSUME prod[q].tail \in Block, Gone(PageOf(prod[q].tail)) PROVE prod[q].tail # m_tail'
    BY <1>2, <2>3, <2>4, <2>5
  <2> QED
    BY <1>1, <2>1, <2>2, <2>3, <2>4, <2>5 DEF CreatorKnows
<1> QED
  BY <1>5, <1>7, <1>8

\* What is free depends on the reservations, where no word is written.
LEMMA ClearMoves ==
    ASSUME UNCHANGED m_next, NEW p \in Producers, \A q \in Producers \ {p} : prod'[q] = prod[q], ~Stores(p)
    PROVE  /\ \A b \in Block : Clear(b)' => Clear(b)
           /\ ~Stores(p)' => \A b : Clear(b) => Clear(b)'
           /\ \A b : b # prod'[p].tail /\ Clear(b) => Clear(b)'
<1>1. ASSUME NEW b, NEW q \in Reserving(b) PROVE q \in Reserving(b)'
  BY <1>1 DEF Reserving, Stores
<1>2. ASSUME NEW b, NEW q \in Reserving(b)', q \notin Reserving(b)
      PROVE  q = p /\ Stores(p)' /\ prod'[p].tail = b
  BY <1>2 DEF Reserving, Stores
<1> QED
  BY <1>1, <1>2 DEF Clear

\* A reservation is over: the tail moves past its block.
LEMMA TailSettles ==
    ASSUME IInv, WordsInv, UNCHANGED cons, UNCHANGED baseVars,
           NEW p \in Producers, \A q \in Producers \ {p} : prod'[q] = prod[q],
           m_rest # 0, m_tail' = NewTail(m_tail, m_rest), m_rest' = 0,
           ~Stores(p), ~Stores(p)', ~Creates(p)', ~Saw(p)',
           prod'[p].control = prod[p].control, prod'[p].next = prod[p].next,
           StoredOK(p)', PutterFlags(p)', CreatorKnows(p)'
    PROVE  WordsInv'
<1>1. Pending(m_tail, m_rest)
  BY DEF WordsInv, TailPending
<1>2. /\ m_tail \in Block /\ m_tail[2] < EndSlot /\ m_tail[2] \in Nat /\ m_rest \in Nat
      /\ m_tail[2] + m_rest <= EndSlot
  BY <1>1, ProducerTyped DEF Pending, InPage
<1>3. m_tail' \in Block /\ SamePage(m_tail, m_tail') /\ m_tail'[2] = m_tail[2] + m_rest
  BY <1>2, BlockAfter DEF NewTail, SamePage, PageOf
<1>4. m_tail[2] < m_tail'[2] /\ m_tail'[2] > 0 /\ m_tail'[2] \in Nat
  BY <1>2, <1>3
<1>5. \A b \in Block : Clear(b)' <=> Clear(b)
  BY ClearMoves DEF baseVars
<1>6. PageOf(m_tail) \in Pages /\ TailPage(PageOf(m_tail))
  BY <1>2, Spots DEF WordsInv, TailEnds
<1>7. \A b \in Block : PageOf(b) = PageOf(m_tail) /\ m_tail'[2] <= b[2] /\ b[2] < EndSlot => Clear(b)'
  <2>1. ASSUME NEW b \in Block, PageOf(b) = PageOf(m_tail), m_tail'[2] <= b[2], b[2] < EndSlot
        PROVE  Clear(b)
    <3>1. b # m_tail /\ m_tail[2] <= b[2]
      BY <1>2, <1>4, <2>1, Spots
    <3> QED
      BY <1>6, <2>1, <3>1 DEF TailPage
  <2> QED
    BY <1>5, <2>1
<1>8. ~Clear(FirstBlock(PageOf(m_tail)))
  <2>1. CASE m_tail[2] > 0
    BY <1>6, <2>1 DEF TailPage
  <2>2. CASE m_tail[2] = 0
    <3>1. m_tail = FirstBlock(PageOf(m_tail))
      BY <1>2, <2>2, Spots DEF FirstBlock
    <3>2. ~Clear(m_tail)
      BY <1>1 DEF Pending, Clear
    <3> QED
      BY <3>1, <3>2
  <2> QED
    BY <1>2, <2>1, <2>2
<1>9. ~Clear(FirstBlock(PageOf(m_tail)))'
  <2>1. PICK b : b = FirstBlock(PageOf(m_tail))
    OBVIOUS
  <2>2. b \in Block /\ b = FirstBlock(PageOf(m_tail'))
    BY <1>3, <1>6, <2>1, Addresses DEF SamePage
  <2>3. ~Clear(b)'
    BY <1>5, <1>8, <2>1, <2>2
  <2> QED
    BY <2>2, <2>3 DEF Clear, Reserving, FirstBlock
<1>10. /\ \A q \in Producers \ {p} : CreatorKnows(q)'
       /\ \A x \in Pages : Spare(x) => Blank(x)'
       /\ TailEnds'
  BY <1>2, <1>3, <1>4, <1>5, <1>7, <1>9, TailAlongPage
<1>11. TailPending' /\ StorerOK(p)'
  BY DEF TailPending, StorerOK
<1> QED
  BY <1>10, <1>11, TailMovesWords

\* The block at the tail is reserved.
LEMMA TailReserves ==
    ASSUME IInv, WordsInv, UNCHANGED cons, UNCHANGED baseVars, UNCHANGED m_tail,
           NEW p \in Producers, \A q \in Producers \ {p} : prod'[q] = prod[q],
           m_tail \in Block, m_rest = 0, NEW n \in Nat, n > 0, m_tail[2] + n <= EndSlot, m_rest' = n,
           ~Stores(p), Looping(prod[p].pc), Stores(p)',
           prod'[p].tail = m_tail, ReservedEnd(p)' = NewTail(m_tail, n),
           prod'[p].control = prod[p].control, prod'[p].next = prod[p].next,
           prod'[p].flags = prod[p].flags
    PROVE  WordsInv'
<1>1. m_tail[2] < EndSlot /\ m_tail[2] \in Nat /\ InPage(m_tail)
  BY Spots DEF InPage
<1>2. PageOf(m_tail) \in Pages /\ TailPage(PageOf(m_tail))
  BY Spots DEF WordsInv, TailEnds
<1>3. Clear(m_tail)
  BY <1>1, <1>2 DEF TailPage
<1>4. /\ \A b \in Block : Clear(b)' => Clear(b)
      /\ \A b \in Block : b # m_tail /\ Clear(b) => Clear(b)'
  BY ClearMoves DEF baseVars
<1>5. NewTail(m_tail, n) \in Block /\ SamePage(m_tail, NewTail(m_tail, n)) /\ m_tail[2] < NewTail(m_tail, n)[2]
  BY <1>1, BlockAfter DEF NewTail, SamePage, PageOf
<1>6. m_tail[2] > 0 => ~Clear(FirstBlock(PageOf(m_tail)))'
  <2>1. FirstBlock(PageOf(m_tail)) \in Block
    BY <1>2, Addresses
  <2> QED
    BY <1>2, <1>4, <2>1 DEF TailPage
<1>7. \A b \in Block : /\ PageOf(b) = PageOf(m_tail) /\ m_tail[2] <= b[2] /\ b[2] < EndSlot
                       /\ b = m_tail => n = 0
                       => Clear(b)'
  BY <1>2, <1>4 DEF TailPage
<1>8. prod'[p].pc \in {"store", "store_pad"}
  BY DEF Stores
<1>9. ~Creates(p)' /\ ~Saw(p)' /\ StoredOK(p)' /\ CreatorKnows(p)' /\ Looping(prod'[p].pc)
  BY <1>8 DEF Creates, Saw, StoredOK, CreatorKnows, Looping
<1>10. /\ \A q \in Producers \ {p} : CreatorKnows(q)'
       /\ \A x \in Pages : Spare(x) => Blank(x)'
       /\ TailEnds'
  <2>1. \A b \in Block : PageOf(b) # PageOf(m_tail) /\ Clear(b) => Clear(b)'
    BY <1>4
  <2>2. SamePage(m_tail, m_tail') /\ m_tail[2] <= m_tail'[2] /\ m_tail' \in Block
    BY <1>1 DEF SamePage
  <2> QED
    BY <1>1, <1>4, <1>6, <1>7, <1>9, <2>1, <2>2, TailAlongPage
<1>11. StorerOK(p)'
  <2>1. m_next'[m_tail] = Zero
    BY <1>3 DEF Clear, baseVars
  <2> QED
    BY <1>1, <1>5, <2>1 DEF StorerOK, InPage
<1>12. TailPending'
  <2>1. p \in Reserving(m_tail)'
    BY <1>8 DEF Reserving
  <2>2. InPage(m_tail)'
    BY <1>1 DEF InPage
  <2> QED
    BY <2>1, <2>2 DEF TailPending, Pending, NewTail
<1>13. PutterFlags(p)'
  <2>1. PutterFlags(p)
    BY DEF WordsInv
  <2> QED
    BY <1>9, <2>1 DEF PutterFlags, Looping, Putting
<1>14. Clear(prod'[p].tail)
  BY <1>3
<1> QED
  BY <1>9, <1>10, <1>11, <1>12, <1>13, <1>14, TailMovesWords

\* The tail enters a page.
LEMMA TailEnters ==
    ASSUME IInv, WordsInv, UNCHANGED cons, UNCHANGED baseVars,
           NEW p \in Producers, \A q \in Producers \ {p} : prod'[q] = prod[q],
           NEW y, Enterable(y), m_tail' = FirstBlock(y), m_rest' = 0,
           m_tail = InvalidBlock \/ (m_tail \in Block /\ m_tail[2] = EndSlot),
           m_initial_page # NoPage,
           ~Stores(p), Looping(prod[p].pc), prod'[p].pc \in {"unpin_end", "try"}, prod'[p].rest = 0,
           prod'[p].control = prod[p].control, prod'[p].next = prod[p].next,
           prod'[p].flags = prod[p].flags
    PROVE  WordsInv'
<1>1. /\ y \in Pages /\ Blank(y) /\ ~Spare(y) /\ y # PageOf(m_tail)
      /\ FirstBlock(y) \in Block /\ PageOf(FirstBlock(y)) = y /\ FirstBlock(y)[2] = 0 /\ InPage(FirstBlock(y))
  BY Addresses, Owned DEF Enterable
<1>2. UNCHANGED <<m_next, pool, m_initial_page>>
  BY DEF baseVars
<1>3. /\ ~Stores(p)' /\ ~Creates(p)' /\ ~Saw(p)' /\ StoredOK(p)' /\ StorerOK(p)' /\ CreatorKnows(p)'
      /\ Looping(prod'[p].pc)
  BY DEF Stores, Creates, Saw, StoredOK, StorerOK, CreatorKnows, Looping
<1>4. \A b \in Block : Clear(b)' <=> Clear(b)
  BY <1>2, <1>3, ClearMoves
<1>5. \A x \in Pages : Blank(x) => Blank(x)'
  BY <1>2, <1>4 DEF Blank
<1>6. \A x \in Pages : Spare(x)' => Spare(x)
  <2>1. \A q \in Producers : Creates(q)' => Creates(q) /\ prod'[q] = prod[q]
    BY <1>3 DEF Creates
  <2> QED
    BY <1>2, <2>1 DEF Spare
<1>7. TailPage(y)'
  <2>1. \A b \in Block : PageOf(b) = y /\ b[2] < EndSlot => Clear(b)'
    BY <1>1, <1>4 DEF Blank
  <2>2. m_next'[End(y)].to = NoBlock
    BY <1>1, <1>2 DEF Blank
  <2>3. m_tail'[2] = 0 /\ EndSlot > 0 /\ EndSlot \in Nat
    BY <1>1, Spots
  <2> QED
    BY <1>1, <1>6, <2>1, <2>2, <2>3 DEF TailPage
<1>8. TailEnds'
  <2>1. PageOf(m_tail') = y /\ m_tail' # InvalidBlock
    BY <1>1, Addresses
  <2>2. TailPage(PageOf(m_tail))'
    BY <1>7, <2>1 DEF TailPage, Spare, End
  <2> QED
    BY <1>2, <2>1, <2>2 DEF TailEnds
<1>9. ASSUME NEW q \in Producers \ {p} PROVE CreatorKnows(q)'
  <2>1. CreatorKnows(q) /\ prod'[q] = prod[q]
    BY DEF WordsInv
  <2>2. ASSUME NEW x \in Pages, Gone(x) PROVE Gone(x)' /\ x # y
    <3>1. FirstBlock(x) \in Block
      BY Addresses
    <3>2. Clear(FirstBlock(y))
      BY <1>1 DEF Blank, InPage
    <3> QED
      BY <1>1, <1>4, <2>2, <3>1, <3>2 DEF Gone
  <2>3. ASSUME prod[q].tail \in Block, prod[q].tail[2] = EndSlot
        PROVE  prod[q].tail # m_tail'
    BY <1>1, <2>3, Spots
  <2>4. ASSUME prod[q].tail \in Block, prod[q].tail = m_tail PROVE Gone(PageOf(prod[q].tail))'
    <3> DEFINE x == PageOf(prod[q].tail)
    <3>1. x \in Pages /\ x # y /\ m_tail[2] = EndSlot /\ TailPage(x) /\ FirstBlock(x) \in Block
      BY <1>1, <2>4, Spots, Addresses DEF WordsInv, TailEnds
    <3>2. ~Clear(FirstBlock(x))
      BY <3>1, Spots DEF TailPage
    <3> HIDE DEF x
    <3>3. Gone(x)'
      <4>1. PICK z : z = x
        OBVIOUS
      <4>2. ~Clear(FirstBlock(z))' /\ z # PageOf(m_tail')
        BY <1>1, <1>4, <3>1, <3>2, <4>1
      <4>3. z = x'
        BY <2>1, <4>1 DEF x
      <4> QED
        BY <4>2, <4>3 DEF Gone, Clear, Reserving, FirstBlock
    <3> QED
      BY <3>3 DEF x
  <2>5. prod[q].tail \in Block => PageOf(prod[q].tail) \in Pages
    BY Spots
  <2>6. ASSUME prod[q].tail \in Block, Gone(PageOf(prod[q].tail)) PROVE Gone(PageOf(prod[q].tail))'
    <3>1. PICK z : z = PageOf(prod[q].tail)
      OBVIOUS
    <3>2. Gone(z)'
      BY <2>2, <2>5, <2>6, <3>1
    <3> QED
      BY <2>1, <3>1, <3>2 DEF Gone, Clear, Reserving, FirstBlock
  <2> QED
    BY <1>2, <2>1, <2>3, <2>4, <2>6 DEF CreatorKnows
<1>10. \A x \in Pages : Spare(x) => Blank(x)'
  BY <1>5 DEF WordsInv, SparesBlank
<1>11. TailPending'
  BY DEF TailPending
<1>12. PutterFlags(p)'
  <2>1. PutterFlags(p)
    BY DEF WordsInv
  <2> QED
    BY <1>3, <2>1 DEF PutterFlags, Looping, Putting
<1> QED
  BY <1>3, <1>8, <1>9, <1>10, <1>11, <1>12, TailMovesWords

\* The tail of a reservation is where its block starts.
LEMMA NotSettled ==
    ASSUME IInv, WordsInv, InPage(m_tail), m_next[m_tail] # Zero
    PROVE  m_rest # 0
<1>1. m_rest = 0 => Clear(m_tail)
  BY Spots DEF WordsInv, TailEnds, TailPage, InPage
<1> QED
  BY <1>1 DEF Clear

\* Reservations are made, and end.
LEMMA ReservationsKeepWords ==
    ASSUME IInv, WordsInv, UNCHANGED headVars, NEW p \in Producers,
           Reserve(p) \/ Pad(p) \/ Settle(p) \/ SettlePad(p) \/ HelpTail(p)
    PROVE  WordsInv'
<1>1. /\ prod \in [Producers -> Producer] /\ prod[p] \in Producer /\ ProducerOK(p)
      /\ m_tail \in Block \cup {InvalidBlock} /\ m_rest \in Nat /\ m_tail[2] \in Nat
      /\ prod[p].size \in Nat /\ prod[p].rest \in Nat
  BY ProducerTyped
<1>2. UNCHANGED cons /\ UNCHANGED baseVars
  BY DEF headVars, Reserve, Pad, Settle, SettlePad, HelpTail
<1>3. PutterFlags(p) /\ StoredOK(p) /\ (Saw(p) => Pending(prod[p].tail, prod[p].rest))
  BY DEF WordsInv, HelpersOK
<1>4. CASE Reserve(p)
  <2>1. CASE (Retry(p, m_tail, m_rest) \/ PGoto(p, "give_up")) /\ UNCHANGED m_rest
    BY <1>2, <1>4, <2>1, FailuresKeepWords DEF Reserve
  <2>2. CASE TailIs(prod[p].tail, 0) /\ m_rest' = prod[p].size /\ PGoto(p, "store")
    <3> DEFINE n == prod[p].size
    <3>1. /\ \A q \in Producers \ {p} : prod'[q] = prod[q]
          /\ prod[p].pc = "try" /\ prod'[p].pc = "store" /\ prod'[p].tail = prod[p].tail
          /\ prod'[p].size = n /\ prod[p].tail = m_tail /\ m_rest = 0 /\ UNCHANGED m_tail
          /\ prod'[p].control = prod[p].control /\ prod'[p].next = prod[p].next
          /\ prod'[p].flags = prod[p].flags
      BY <1>1, <1>4, <2>2 DEF Reserve, PGoto, PAt, TailIs, Producer
    <3>2. n \in Nat /\ n > 0 /\ m_tail[2] + n <= EndSlot
      BY <1>1, <1>4, <3>1 DEF Reserve, Fits, ProducerOK
    <3>3. m_tail \in Block
      BY <1>1, <3>2, Spots, TailBlocks
    <3>4. ~Stores(p) /\ Stores(p)' /\ Looping(prod[p].pc) /\ ReservedEnd(p)' = NewTail(m_tail, n)
      BY <3>1 DEF Stores, Looping, ReservedEnd, PAt, NewTail
    <3> HIDE DEF n, Looping
    <3> QED
      BY <1>2, <2>2, <3>1, <3>2, <3>3, <3>4, TailReserves DEF n
  <2> QED
    BY <1>4, <2>1, <2>2 DEF Reserve
<1>5. CASE Pad(p)
  <2>1. CASE Retry(p, m_tail, m_rest) /\ UNCHANGED m_rest
    BY <1>2, <1>5, <2>1, FailuresKeepWords DEF Pad
  <2>2. CASE /\ TailIs(prod[p].tail, 0) /\ m_rest' = PadUnits(m_tail)
             /\ prod' = [prod EXCEPT ![p].pc = "store_pad", ![p].rest = PadUnits(m_tail)]
    <3> DEFINE n == PadUnits(m_tail)
    <3> HIDE DEF n
    <3>1. /\ \A q \in Producers \ {p} : prod'[q] = prod[q]
          /\ prod[p].pc = "try" /\ prod'[p].pc = "store_pad" /\ prod'[p].tail = prod[p].tail
          /\ prod'[p].rest = n /\ prod[p].tail = m_tail /\ m_rest = 0 /\ UNCHANGED m_tail
          /\ prod'[p].control = prod[p].control /\ prod'[p].next = prod[p].next
          /\ prod'[p].flags = prod[p].flags /\ m_rest' = n
      BY <1>1, <1>5, <2>2 DEF Pad, PAt, TailIs, Producer, n
    <3>2. m_tail[2] # EndSlot
      BY <1>5, <3>1 DEF Pad, AtEnd
    <3>3. m_tail \in Block
      BY <1>1, <3>2 DEF InvalidBlock
    <3>4. n \in Nat /\ n > 0 /\ m_tail[2] + n <= EndSlot
      BY <3>2, <3>3, Spots, SeqCstAssumption DEF PadUnits, n
    <3>5. ~Stores(p) /\ Stores(p)' /\ Looping(prod[p].pc) /\ ReservedEnd(p)' = NewTail(m_tail, n)
      BY <3>1 DEF Stores, Looping, ReservedEnd, PAt, NewTail
    <3> HIDE DEF Looping
    <3> QED
      BY <1>2, <3>1, <3>3, <3>4, <3>5, TailReserves
  <2> QED
    BY <1>5, <2>1, <2>2 DEF Pad
<1>6. CASE Settle(p)
  <2>1. CASE ~TailIs(prod[p].tail, prod[p].size)
    BY <1>2, <1>6, <2>1, FinishKeepsWords DEF Settle
  <2>2. CASE TailIs(prod[p].tail, prod[p].size)
    <3>1. /\ \A q \in Producers \ {p} : prod'[q] = prod[q]
          /\ prod[p].pc = "settle" /\ prod'[p].pc = "fill" /\ prod[p].tail = m_tail
          /\ prod'[p].control = prod[p].control /\ prod'[p].next = prod[p].next
          /\ prod'[p].flags = prod[p].flags
          /\ m_tail' = NewTail(m_tail, m_rest) /\ m_rest' = 0
      BY <1>1, <1>6, <2>2 DEF Settle, PGoto, PAt, TailIs, Producer
    <3>2. m_rest # 0
      BY <1>3, <3>1, NotSettled DEF StoredOK
    <3>3. /\ ~Stores(p) /\ ~Stores(p)' /\ ~Creates(p)' /\ ~Saw(p)' /\ StoredOK(p)' /\ CreatorKnows(p)'
          /\ (Putting(p)' <=> Putting(p))
      BY <3>1 DEF Stores, Creates, Saw, StoredOK, CreatorKnows, Putting
    <3>4. PutterFlags(p)'
      BY <1>3, <3>1, <3>3 DEF PutterFlags
    <3> QED
      BY <1>2, <3>1, <3>2, <3>3, <3>4, TailSettles
  <2> QED
    BY <2>1, <2>2
<1>7. CASE SettlePad(p) \/ HelpTail(p)
  <2>1. CASE UNCHANGED <<m_tail, m_rest>>
    BY <1>2, <1>7, <2>1, FailuresKeepWords
  <2>2. CASE TailIs(prod[p].tail, prod[p].rest) /\ m_tail' = NewTail(m_tail, m_rest) /\ m_rest' = 0
    <3>1. /\ \A q \in Producers \ {p} : prod'[q] = prod[q]
          /\ prod[p].pc \in {"settle_pad", "help_tail"} /\ prod[p].tail = m_tail /\ prod[p].rest = m_rest
          /\ prod'[p].pc = "try" /\ prod'[p].rest = 0
          /\ prod'[p].control = prod[p].control /\ prod'[p].next = prod[p].next
          /\ prod'[p].flags = prod[p].flags
      BY <1>1, <1>7, <2>2 DEF SettlePad, HelpTail, Retry, PAt, TailIs, Producer
    <3>2. m_rest # 0
      <4>1. CASE prod[p].pc = "settle_pad"
        BY <1>3, <3>1, <4>1, NotSettled DEF StoredOK
      <4>2. CASE prod[p].pc = "help_tail"
        BY <1>3, <3>1, <4>2 DEF Saw, Pending
      <4> QED
        BY <3>1, <4>1, <4>2
    <3>3. /\ ~Stores(p) /\ ~Stores(p)' /\ ~Creates(p)' /\ ~Saw(p)' /\ StoredOK(p)' /\ CreatorKnows(p)'
          /\ (Putting(p)' <=> Putting(p))
      BY <3>1 DEF Stores, Creates, Saw, StoredOK, CreatorKnows, Putting
    <3>4. PutterFlags(p)'
      BY <1>3, <3>1, <3>3 DEF PutterFlags
    <3> QED
      BY <1>2, <2>2, <3>1, <3>2, <3>3, <3>4, TailSettles
  <2> QED
    BY <1>7, <2>1, <2>2 DEF SettlePad, HelpTail
<1> QED
  BY <1>4, <1>5, <1>6, <1>7

\* The tail goes to a page.
LEMMA PageEntersKeepWords ==
    ASSUME IInv, WordsInv, UNCHANGED headVars, NEW p \in Producers, AdvanceTail(p) \/ InitTail(p)
    PROVE  WordsInv'
<1>1. /\ prod \in [Producers -> Producer] /\ prod[p] \in Producer /\ CreatorKnows(p) /\ TailEnds
      /\ m_tail \in Block \cup {InvalidBlock}
  BY ProducerTyped DEF WordsInv
<1>2. UNCHANGED cons /\ UNCHANGED baseVars
  BY DEF headVars, AdvanceTail, InitTail
<1>3. CASE (AdvanceTail(p) /\ ~TailIs(prod[p].tail, 0)) \/ (InitTail(p) /\ ~TailIs(InvalidBlock, 0))
  BY <1>3, OvertakenKeepsWords
<1>4. CASE (AdvanceTail(p) /\ TailIs(prod[p].tail, 0)) \/ (InitTail(p) /\ TailIs(InvalidBlock, 0))
  <2> DEFINE y == prod[p].new_page
  <2>1. /\ \A q \in Producers \ {p} : prod'[q] = prod[q]
        /\ prod[p].pc \in {"advance_tail", "init_tail"}
        /\ prod[p].pc = "advance_tail" => prod[p].tail = m_tail
        /\ prod[p].pc = "init_tail" => m_tail = InvalidBlock
        /\ m_tail' = FirstBlock(y) /\ m_rest' = 0
        /\ prod'[p].pc \in {"unpin_end", "try"} /\ prod'[p].rest = 0
        /\ prod'[p].control = prod[p].control /\ prod'[p].next = prod[p].next
        /\ prod'[p].flags = prod[p].flags
    BY <1>1, <1>4 DEF AdvanceTail, InitTail, PAt, TailIs, Producer
  <2>2. Enterable(y) /\ m_initial_page # NoPage
        /\ (m_tail = InvalidBlock \/ (m_tail \in Block /\ m_tail[2] = EndSlot))
    <3>1. CASE prod[p].pc = "advance_tail"
      <4>1. prod[p].tail \in Block /\ prod[p].tail[2] = EndSlot /\ prod[p].tail = m_tail /\ Enterable(y)
        BY <1>1, <2>1, <3>1 DEF CreatorKnows
      <4> QED
        BY <1>1, <4>1, Spots, Addresses, TailBlocks, BaseAssumption DEF TailEnds, Block, InvalidBlock
    <3>2. CASE prod[p].pc = "init_tail"
      BY <1>1, <2>1, <3>2 DEF CreatorKnows, TailEnds
    <3> QED
      BY <2>1, <3>1, <3>2
  <2>3. ~Stores(p) /\ Looping(prod[p].pc)
    BY <2>1 DEF Stores, Looping
  <2> HIDE DEF y, Looping
  <2> QED
    BY <1>2, <2>1, <2>2, <2>3, TailEnters
<1> QED
  BY <1>3, <1>4

---------------------------------------------------------------------------
(* Creating and linking pages *)

\* Only the words at the ends of pages are written.
EndsWritten ==
    /\ \A b \in Block : b[2] < EndSlot => m_next'[b] = m_next[b]
    /\ \A x \in Pages : \/ m_next'[End(x)] = m_next[End(x)]
                        \/ m_next'[End(x)].to = NoBlock
                        \/ "dead" \in m_next'[End(x)].flags

\* They are nobody's.
LEMMA EndsKeepWords ==
    ASSUME IInv, WordsInv, UNCHANGED <<cons, m_tail, m_rest>>, EndsWritten,
           NEW p \in Producers, \A q \in Producers \ {p} : prod'[q] = prod[q],
           Looping(prod[p].pc), Looping(prod'[p].pc), prod'[p].pc # "settle_pad",
           ~Stores(p), ~Stores(p)', ~Saw(p)',
           prod'[p].control = prod[p].control, prod'[p].next = prod[p].next,
           prod'[p].flags = prod[p].flags,
           \A q \in Producers : CreatorKnows(q)',
           SparesBlank', TailEnds'
    PROVE  WordsInv'
<1>1. WritesOwn(p)
  BY DEF WritesOwn, EndsWritten
<1>2. Putting(p)' <=> Putting(p)
  BY DEF Putting
<1>3. WordsLead'
  <2> SUFFICES ASSUME NEW b \in Block
               PROVE  /\ b[2] < EndSlot =>
                           m_next'[b] = Zero \/ (m_next'[b].to \in Block /\ SamePage(b, m_next'[b].to))
                      /\ b[2] = EndSlot /\ m_next'[b].to # NoBlock => "dead" \in m_next'[b].flags
    BY DEF WordsLead
  <2>1. CASE b[2] < EndSlot
    BY <2>1, Spots DEF EndsWritten, WordsInv, WordsLead
  <2>2. CASE b[2] = EndSlot
    <3>1. b = End(PageOf(b)) /\ PageOf(b) \in Pages
      BY <2>2, Spots
    <3>2. m_next[b].to # NoBlock => "dead" \in m_next[b].flags
      BY <2>2 DEF WordsInv, WordsLead
    <3> QED
      BY <2>2, <3>1, <3>2, Spots DEF EndsWritten
  <2> QED
    BY <2>1, <2>2, Spots
<1>4. OwnWords(p)'
  <2>1. StorerOK(p)' /\ StoredOK(p)'
    BY DEF StorerOK, StoredOK, Looping
  <2>2. PutterHas(p)'
    <3>1. PutterHas(p)
      BY DEF WordsInv
    <3>2. Putting(p)' => m_next'[prod[p].control] = m_next[prod[p].control] /\ InPage(prod[p].control)
      BY <1>2, <3>1 DEF PutterHas, EndsWritten, InPage
    <3> QED
      BY <1>2, <3>1, <3>2 DEF PutterHas, InPage
  <2>3. PutterFlags(p)'
    <3>1. PutterFlags(p)
      BY DEF WordsInv
    <3> QED
      BY <1>2, <3>1 DEF PutterFlags, Looping
  <2> QED
    BY <2>1, <2>2, <2>3 DEF OwnWords
<1> QED
  BY <1>1, <1>2, <1>3, <1>4, ProducerKeepsWords

\* What is blank and clear stays so.
LEMMA EndsClear ==
    ASSUME EndsWritten, NEW p \in Producers, \A q \in Producers \ {p} : prod'[q] = prod[q],
           ~Stores(p), ~Stores(p)'
    PROVE  /\ \A q \in Producers : Stores(q)' <=> Stores(q)
           /\ \A b \in Block : b[2] < EndSlot => (Clear(b)' <=> Clear(b))
<1>1. \A q \in Producers : Stores(q)' <=> Stores(q)
  BY DEF Stores
<1>2. \A b : Reserving(b)' = Reserving(b)
  <2>1. ASSUME NEW b, NEW q \in Producers
        PROVE  q \in Reserving(b)' <=> q \in Reserving(b)
    BY <1>1 DEF Reserving, Stores
  <2>2. \A b : Reserving(b) \subseteq Producers /\ Reserving(b)' \subseteq Producers
    BY DEF Reserving
  <2> QED
    BY <2>1, <2>2
<1> QED
  BY <1>1, <1>2 DEF Clear, EndsWritten

\* A page is allocated, or given back.
LEMMA PageKeepsWords ==
    ASSUME IInv, WordsInv, UNCHANGED <<cons, m_tail, m_rest>>, EndsWritten, ClearStays,
           NEW p \in Producers, \A q \in Producers \ {p} : prod'[q] = prod[q],
           Looping(prod[p].pc), Looping(prod'[p].pc), prod'[p].pc # "settle_pad",
           ~Stores(p), ~Stores(p)', ~Saw(p)', UNCHANGED m_initial_page,
           prod'[p].control = prod[p].control, prod'[p].next = prod[p].next,
           prod'[p].flags = prod[p].flags,
           CreatorKnows(p)', NewPagesApart'
    PROVE  WordsInv'
<1>1. SparesBlank' /\ TailEnds'
  BY PlaceStays DEF SparesBlank, NewPagesApart
<1>2. \A q \in Producers : CreatorKnows(q)'
  BY CreatorsStay
<1> QED
  BY <1>1, <1>2, EndsKeepWords

\* create_page
LEMMA CreatePageKeepsWords ==
    ASSUME IInv, WordsInv, UNCHANGED headVars, NEW p \in Producers, CreatePage(p)
    PROVE  WordsInv'
<1>1. /\ prod \in [Producers -> Producer] /\ prod[p] \in Producer /\ ProducerOK(p) /\ CreatorKnows(p)
      /\ m_next \in [Block -> NextPtr] /\ SparesBlank
  BY ProducerTyped DEF WordsInv
<1>2. PICK x \in Pages : /\ pool[x] = "zeroed" /\ pool' = [pool EXCEPT ![x] = "queue"]
                         /\ m_next' = [m_next EXCEPT ![End(x)] = InvalidNextPage]
                         /\ prod' = [prod EXCEPT ![p].new_page = x, ![p].pc =
                                       IF prod[p].tail = InvalidBlock THEN "init_page" ELSE "link_page"]
  BY DEF CreatePage, Allocatable, EndBlock, FirstBlock, PageOf, End
<1>3. UNCHANGED <<cons, m_tail, m_rest, m_initial_page>> /\ prod[p].pc \in {"create_page", "try"}
      /\ (prod[p].pc = "try" => prod[p].tail = InvalidBlock)
  BY DEF headVars, CreatePage, Creating, PAt
<1>4. /\ \A q \in Producers \ {p} : prod'[q] = prod[q]
      /\ prod'[p].pc = IF prod[p].tail = InvalidBlock THEN "init_page" ELSE "link_page"
      /\ prod'[p].new_page = x /\ prod'[p].tail = prod[p].tail
      /\ prod'[p].control = prod[p].control /\ prod'[p].next = prod[p].next
      /\ prod'[p].flags = prod[p].flags
  BY <1>1, <1>2 DEF Producer
<1>5. EndsWritten
  <2>1. \A b \in Block : b # End(x) => m_next'[b] = m_next[b]
    BY <1>1, <1>2
  <2>2. m_next'[End(x)].to = NoBlock
    BY <1>1, <1>2, Spots DEF InvalidNextPage
  <2> QED
    BY <2>1, <2>2, Spots DEF EndsWritten
<1>6. Looping(prod[p].pc) /\ Looping(prod'[p].pc) /\ prod'[p].pc # "settle_pad" /\ ~Creates(p)
      /\ ~Stores(p) /\ ~Stores(p)' /\ ~Saw(p)'
  BY <1>3, <1>4 DEF Looping, Stores, Saw, Creates
<1>7. pool \in [Pages -> {"zeroed", "uninitialized", "queue"}]
  BY DEF IInv, TypeOK, BaseTypeOK
<1>8. \A q \in Producers \ {p} : (Creates(q)' <=> Creates(q)) /\ prod'[q].new_page = prod[q].new_page
  BY <1>4 DEF Creates
<1>9. ClearStays
  <2>1. \A z \in Pages : Spare(z)' => Spare(z)
    BY <1>2, <1>4, <1>7, <1>8 DEF Spare
  <2>2. \A z \in Pages : m_next'[End(z)].to \in {m_next[End(z)].to, NoBlock}
    BY <1>1, <1>2, Spots DEF InvalidNextPage
  <2> QED
    BY <1>4, <1>5, <1>6, <2>1, <2>2, EndsClear DEF ClearStays
<1>10. NewPagesApart'
  <2>1. \A q \in Producers \ {p} : Creates(q) => pool[prod[q].new_page] # "zeroed" /\ prod[q].new_page # x
    BY <1>1, <1>2 DEF SparesBlank
  <2>2. \A q \in Producers : Creates(q) => prod[q].new_page \in Pages
    BY Typed DEF Creates, ProducerOK
  <2>3. \A q \in Producers \ {p} : Creates(q)' => pool'[prod'[q].new_page] # "zeroed"
    BY <1>2, <1>7, <1>8, <2>1, <2>2
  <2>4. pool'[prod'[p].new_page] # "zeroed"
    BY <1>2, <1>4, <1>7
  <2>5. \A q, r \in Producers \ {p} : Creates(q)' /\ Creates(r)' /\ q # r =>
          prod'[q].new_page # prod'[r].new_page
    BY <1>1, <1>8 DEF SparesBlank
  <2>6. \A q \in Producers \ {p} : Creates(q)' => prod'[q].new_page # prod'[p].new_page
    BY <1>4, <1>8, <2>1
  <2> QED
    BY <2>3, <2>4, <2>5, <2>6 DEF NewPagesApart
<1>11. CreatorKnows(p)'
  <2>1. CASE prod'[p].pc = "init_page"
    BY <2>1 DEF CreatorKnows
  <2>2. CASE prod'[p].pc = "link_page"
    <3>1. prod[p].pc = "create_page"
      BY <1>3, <1>4, <2>2
    <3>2. /\ prod[p].tail \in Block /\ prod[p].tail[2] = EndSlot
          /\ prod[p].tail = m_tail \/ Gone(PageOf(prod[p].tail))
      BY <1>1, <3>1 DEF CreatorKnows
    <3>3. PageOf(prod[p].tail) \in Pages
      BY <3>2, Spots
    <3>4. prod'[p].tail = m_tail \/ Gone(PageOf(prod[p].tail))'
      BY <1>3, <1>4, <1>9, <3>2, <3>3, PlaceStays
    <3> QED
      BY <1>3, <1>4, <2>2, <3>2, <3>4 DEF CreatorKnows
  <2> QED
    BY <1>4, <2>1, <2>2
<1> HIDE DEF Looping
<1> QED
  BY <1>3, <1>4, <1>5, <1>6, <1>9, <1>10, <1>11, PageKeepsWords

\* discard_created_page, of a page that could not be linked.
LEMMA DiscardKeepsWords ==
    ASSUME IInv, WordsInv, UNCHANGED headVars, NEW p \in Producers, DiscardPage(p) \/ DiscardInitial(p)
    PROVE  WordsInv'
<1>1. /\ prod \in [Producers -> Producer] /\ prod[p] \in Producer /\ ProducerOK(p) /\ CreatorKnows(p)
      /\ m_next \in [Block -> NextPtr] /\ SparesBlank /\ prod[p].rest \in Nat
  BY ProducerTyped DEF WordsInv
<1>2. PICK x : x = prod[p].new_page
  OBVIOUS
<1>3. /\ pool' = [pool EXCEPT ![x] = "zeroed"] /\ m_next' = [m_next EXCEPT ![End(x)] = Zero]
      /\ prod[p].pc \in {"discard_page", "discard_initial"} /\ x \in Pages
  BY <1>1, <1>2 DEF DiscardPage, DiscardInitial, DiscardCreatedPage, EndBlock, FirstBlock, PageOf, End, PAt,
                    ProducerOK
<1>4. UNCHANGED <<cons, m_tail, m_rest, m_initial_page>>
  BY DEF headVars, DiscardPage, DiscardInitial
<1>5. /\ \A q \in Producers \ {p} : prod'[q] = prod[q]
      /\ prod'[p].new_page = PageOf(prod[p].found)
      /\ prod[p].pc = "discard_initial" => prod'[p].pc = "init_tail"
      /\ prod[p].pc = "discard_page" => prod'[p].pc = IF prod[p].found = NoBlock THEN "unpin_end" ELSE "advance_tail"
      /\ prod'[p].tail = prod[p].tail /\ prod'[p].rest = prod[p].rest
      /\ prod'[p].control = prod[p].control /\ prod'[p].next = prod[p].next
      /\ prod'[p].flags = prod[p].flags
  BY <1>1 DEF DiscardPage, DiscardInitial, PAt, Producer
<1>6. EndsWritten
  <2>1. \A b \in Block : b # End(x) => m_next'[b] = m_next[b]
    BY <1>1, <1>3
  <2>2. m_next'[End(x)].to = NoBlock
    BY <1>1, <1>3, Spots DEF Zero
  <2> QED
    BY <1>3, <2>1, <2>2, Spots DEF EndsWritten
<1>7. prod[p].pc = "discard_page" => prod[p].rest = 0
  <2>1. ASSUME prod[p].pc = "discard_page" PROVE prod[p].rest = 0
    <3>1. prod[p].tail[2] = EndSlot /\ prod[p].tail[2] + prod[p].rest <= EndSlot
      BY <1>1, <2>1 DEF CreatorKnows, ProducerOK
    <3> QED
      BY <1>1, <3>1, Spots
  <2> QED
    BY <2>1
<1>8. Looping(prod[p].pc) /\ Looping(prod'[p].pc) /\ prod'[p].pc # "settle_pad" /\ Creates(p) /\ ~Creates(p)'
      /\ ~Stores(p) /\ ~Stores(p)' /\ ~Saw(p)'
  BY <1>3, <1>5, <1>7 DEF Looping, Stores, Saw, Creates
<1>9. pool \in [Pages -> {"zeroed", "uninitialized", "queue"}]
  BY DEF IInv, TypeOK, BaseTypeOK
<1>10. \A q \in Producers \ {p} : (Creates(q)' <=> Creates(q)) /\ prod'[q].new_page = prod[q].new_page
  BY <1>5 DEF Creates
<1>11. ClearStays
  <2>1. \A z \in Pages : Spare(z)' => Spare(z)
    BY <1>2, <1>3, <1>8, <1>9, <1>10 DEF Spare
  <2>2. \A z \in Pages : m_next'[End(z)].to \in {m_next[End(z)].to, NoBlock}
    BY <1>1, <1>3, Spots DEF Zero
  <2> QED
    BY <1>5, <1>6, <1>8, <2>1, <2>2, EndsClear DEF ClearStays
<1>12. NewPagesApart'
  <2>1. \A q \in Producers : Creates(q)' => q # p /\ Creates(q) /\ prod'[q].new_page = prod[q].new_page
    BY <1>8, <1>10
  <2>2. \A q \in Producers \ {p} : Creates(q) =>
            prod[q].new_page # x /\ prod[q].new_page \in Pages /\ pool[prod[q].new_page] # "zeroed"
    BY <1>1, <1>2, <1>8, Typed DEF SparesBlank, Creates, ProducerOK
  <2>3. \A q \in Producers : Creates(q)' => pool'[prod'[q].new_page] # "zeroed"
    BY <1>3, <1>9, <2>1, <2>2
  <2>4. \A q, r \in Producers : Creates(q)' /\ Creates(r)' /\ q # r => prod'[q].new_page # prod'[r].new_page
    BY <1>1, <2>1 DEF SparesBlank
  <2> QED
    BY <2>3, <2>4 DEF NewPagesApart
<1>13. CreatorKnows(p)'
  <2>1. CASE prod[p].pc = "discard_page" /\ prod[p].found = NoBlock
    BY <1>5, <2>1 DEF CreatorKnows
  <2>2. CASE prod[p].pc = "discard_page" /\ prod[p].found # NoBlock
    <3>1. /\ prod[p].tail \in Block /\ prod[p].tail[2] = EndSlot
          /\ prod[p].tail = m_tail \/ Gone(PageOf(prod[p].tail))
          /\ prod[p].tail = m_tail => \E y \in Pages : prod[p].found = FirstBlock(y) /\ Enterable(y)
      BY <1>1, <2>2 DEF CreatorKnows
    <3>2. PageOf(prod[p].tail) \in Pages
      BY <3>1, Spots
    <3>3. prod'[p].tail = m_tail \/ Gone(PageOf(prod[p].tail))'
      BY <1>4, <1>5, <1>11, <3>1, <3>2, PlaceStays
    <3>4. prod'[p].tail = m_tail => \E y \in Pages : prod'[p].new_page = y /\ Enterable(y)'
      <4>1. \A y \in Pages : Enterable(y) => Enterable(y)'
        BY <1>4, <1>11, PlaceStays
      <4>2. \A y \in Pages : PageOf(FirstBlock(y)) = y
        BY Owned
      <4> QED
        BY <1>5, <3>1, <4>1, <4>2
    <3>5. prod'[p].tail = m_tail => Enterable(prod[p].new_page)'
      <4>1. PICK z : z = prod'[p].new_page
        OBVIOUS
      <4>2. prod'[p].tail = m_tail => Enterable(z)'
        BY <3>4, <4>1
      <4> QED
        BY <4>1, <4>2 DEF Enterable, Blank, Clear, Reserving, Spare, Creates, End
    <3> QED
      BY <1>4, <1>5, <2>2, <3>1, <3>3, <3>5 DEF CreatorKnows
  <2>3. CASE prod[p].pc = "discard_initial"
    <3>1. prod[p].found = FirstBlock(m_initial_page) /\ m_initial_page # NoPage
      BY <1>1, <2>3 DEF CreatorKnows
    <3>2. prod'[p].new_page = m_initial_page'
      BY <1>4, <1>5, <3>1 DEF PageOf, FirstBlock
    <3> QED
      BY <1>4, <1>5, <2>3, <3>1, <3>2 DEF CreatorKnows
  <2> QED
    BY <1>3, <2>1, <2>2, <2>3
<1> HIDE DEF Looping
<1> QED
  BY <1>4, <1>5, <1>6, <1>8, <1>11, <1>12, <1>13, PageKeepsWords

\* A page of a producer is one where the tail can go, when it is no longer its own.
LEMMA Given ==
    ASSUME IInv, WordsInv, EndsWritten, UNCHANGED m_tail, UNCHANGED pool,
           NEW p \in Producers, \A q \in Producers \ {p} : prod'[q] = prod[q],
           Creates(p), ~Creates(p)', ~Stores(p)',
           NEW y, y = prod[p].new_page, m_next'[End(y)] = m_next[End(y)],
           y # PageOf(m_tail)
    PROVE  /\ Enterable(y)'
           /\ \A x \in Pages : Spare(x)' => Spare(x) /\ x # y
<1>1. y \in Pages /\ pool[y] # "zeroed" /\ Spare(y) /\ Blank(y) /\ SparesBlank
  BY Typed DEF WordsInv, SparesBlank, Spare, Creates, ProducerOK
<1>2. \A q \in Producers : Creates(q)' => q # p /\ Creates(q) /\ prod'[q] = prod[q]
  BY DEF Creates
<1>3. \A q \in Producers : Creates(q) /\ q # p => prod[q].new_page # y
  BY <1>1 DEF SparesBlank
<1>4. ~Spare(y)'
  BY <1>1, <1>2, <1>3 DEF Spare
<1>5. ~Stores(p)
  BY DEF Stores, Creates
<1>6. Blank(y)'
  BY <1>1, <1>5, EndsClear DEF Blank
<1>7. \A x \in Pages : Spare(x)' => Spare(x) /\ x # y
  BY <1>2, <1>4 DEF Spare
<1> QED
  BY <1>1, <1>4, <1>6, <1>7 DEF Enterable

\* The CAS on m_initial_page.
LEMMA InitPageKeepsWords ==
    ASSUME IInv, WordsInv, UNCHANGED headVars, NEW p \in Producers, InitPage(p)
    PROVE  WordsInv'
<1>1. /\ prod \in [Producers -> Producer] /\ prod[p] \in Producer /\ ProducerOK(p) /\ TailEnds
      /\ SparesBlank
  BY ProducerTyped DEF WordsInv
<1>2. CASE m_initial_page # NoPage
  BY <1>2, OvertakenKeepsWords
<1>3. CASE m_initial_page = NoPage
  <2>1. PICK y : y = prod[p].new_page
    OBVIOUS
  <2>2. /\ \A q \in Producers \ {p} : prod'[q] = prod[q]
        /\ prod[p].pc = "init_page" /\ prod'[p].pc = "init_tail" /\ prod'[p].new_page = y
        /\ prod'[p].control = prod[p].control /\ prod'[p].next = prod[p].next
        /\ prod'[p].flags = prod[p].flags
        /\ m_initial_page' = y
    BY <1>1, <1>3, <2>1 DEF InitPage, PGoto, PAt, Producer
  <2>3. UNCHANGED <<cons, m_tail, m_rest, m_next, pool>>
    BY DEF headVars, InitPage
  <2>4. Looping(prod[p].pc) /\ Looping(prod'[p].pc) /\ prod'[p].pc # "settle_pad" /\ Creates(p) /\ ~Creates(p)'
        /\ ~Stores(p) /\ ~Stores(p)' /\ ~Saw(p)'
    BY <2>2 DEF Looping, Stores, Saw, Creates
  <2>5. y \in Pages /\ m_tail = InvalidBlock /\ y # PageOf(m_tail) /\ y # NoPage
    BY <1>1, <1>3, <2>1, <2>4, Typed, BaseAssumption DEF TailEnds, Creates, ProducerOK, PageOf, InvalidBlock
  <2>6. EndsWritten
    BY <2>3 DEF EndsWritten
  <2>7. Enterable(y)' /\ \A x \in Pages : Spare(x)' => Spare(x) /\ x # y
    BY <2>1, <2>2, <2>3, <2>4, <2>5, <2>6, Given
  <2>8. ClearStays
    BY <2>2, <2>3, <2>4, <2>6, <2>7, EndsClear DEF ClearStays
  <2>9. TailEnds'
    <3>1. m_tail' \notin Block /\ m_tail' = InvalidBlock
      BY <2>3, <2>5, Addresses
    <3>2. Enterable(m_initial_page)'
      <4>1. PICK z : z = m_initial_page'
        OBVIOUS
      <4>2. Enterable(z)'
        BY <2>2, <2>7, <4>1
      <4> QED
        BY <4>1, <4>2 DEF Enterable, Blank, Clear, Reserving, Spare, Creates, End
    <3> QED
      BY <2>2, <2>5, <3>1, <3>2 DEF TailEnds
  <2>10. SparesBlank'
    <3>1. \A x \in Pages : Spare(x)' => Blank(x)'
      BY <1>3, <2>3, <2>8, PlaceStays
    <3>2. \A q \in Producers : Creates(q)' => Creates(q) /\ prod'[q] = prod[q]
      BY <2>2, <2>4 DEF Creates
    <3> QED
      BY <1>1, <2>3, <3>1, <3>2 DEF SparesBlank
  <2>11. CreatorKnows(p)'
    BY <2>2, <2>5 DEF CreatorKnows
  <2>12. \A q \in Producers \ {p} : CreatorKnows(q)'
    BY <1>3, <2>2, <2>3, <2>8, CreatorsStay
  <2> HIDE DEF Looping
  <2> QED
    BY <2>2, <2>3, <2>4, <2>6, <2>9, <2>10, <2>11, <2>12, EndsKeepWords
<1> QED
  BY <1>2, <1>3

\* The CAS on the end of a page.
LEMMA LinkPageKeepsWords ==
    ASSUME IInv, WordsInv, UNCHANGED headVars, NEW p \in Producers, LinkPage(p)
    PROVE  WordsInv'
<1>1. /\ prod \in [Producers -> Producer] /\ prod[p] \in Producer /\ ProducerOK(p) /\ TailEnds
      /\ SparesBlank /\ CreatorKnows(p) /\ m_next \in [Block -> NextPtr]
      /\ m_tail \in Block \cup {InvalidBlock}
  BY ProducerTyped DEF WordsInv
<1>2. CASE m_next[prod[p].tail] # InvalidNextPage
  BY <1>2, OvertakenKeepsWords
<1>3. CASE m_next[prod[p].tail] = InvalidNextPage
  <2>1. PICK x, y : x = PageOf(prod[p].tail) /\ y = prod[p].new_page
    OBVIOUS
  <2>2. /\ \A q \in Producers \ {p} : prod'[q] = prod[q]
        /\ prod[p].pc = "link_page" /\ prod'[p].pc = "advance_tail" /\ prod'[p].new_page = y
        /\ prod'[p].tail = prod[p].tail
        /\ prod'[p].control = prod[p].control /\ prod'[p].next = prod[p].next
        /\ prod'[p].flags = prod[p].flags
        /\ m_next' = [m_next EXCEPT ![prod[p].tail] = NextWord(FirstBlock(y), {"dead"})]
    BY <1>1, <1>3, <2>1 DEF LinkPage, PGoto, PAt, Producer
  <2>3. UNCHANGED <<cons, m_tail, m_rest, m_initial_page, pool>>
    BY DEF headVars, LinkPage
  <2>4. Looping(prod[p].pc) /\ Looping(prod'[p].pc) /\ prod'[p].pc # "settle_pad" /\ Creates(p) /\ ~Creates(p)'
        /\ ~Stores(p) /\ ~Stores(p)' /\ ~Saw(p)'
    BY <2>2 DEF Looping, Stores, Saw, Creates
  <2>5. /\ prod[p].tail \in Block /\ prod[p].tail[2] = EndSlot /\ prod[p].tail = End(x)
        /\ x \in Pages /\ y \in Pages
        /\ prod[p].tail = m_tail \/ Gone(x)
    BY <1>1, <2>1, <2>2, Spots DEF CreatorKnows, ProducerOK
  <2>6. Spare(y) /\ Blank(y)
    BY <1>1, <2>1, <2>4, <2>5 DEF Spare, SparesBlank
  <2>7. ~Clear(FirstBlock(x)) /\ ~Spare(x)
    <3>1. CASE prod[p].tail = m_tail
      <4>1. TailPage(x) /\ m_tail[2] > 0
        BY <1>1, <2>1, <2>5, <3>1, Spots DEF TailEnds
      <4> QED
        BY <4>1 DEF TailPage
    <3>2. CASE Gone(x)
      <4>1. ~Clear(FirstBlock(x)) /\ InPage(FirstBlock(x)) /\ PageOf(FirstBlock(x)) = x
        BY <2>5, <3>2, Owned DEF Gone
      <4>2. ~Blank(x)
        BY <4>1 DEF Blank, InPage
      <4> QED
        BY <1>1, <2>5, <4>1, <4>2 DEF SparesBlank
    <3> QED
      BY <2>5, <3>1, <3>2
  <2>8. x # y
    BY <2>6, <2>7
  <2>9. y # PageOf(m_tail)
    <3>1. m_tail \in Block => ~Spare(PageOf(m_tail))
      BY <1>1 DEF TailEnds, TailPage
    <3>2. m_tail \notin Block => PageOf(m_tail) = NoPage
      BY <1>1 DEF InvalidBlock, PageOf
    <3> QED
      BY <2>5, <2>6, <3>1, <3>2, BaseAssumption
  <2>10. \A b \in Block : b # End(x) => m_next'[b] = m_next[b]
    BY <1>1, <2>2, <2>5
  <2>11. m_next'[End(x)] = NextWord(FirstBlock(y), {"dead"})
    BY <1>1, <2>2, <2>5
  <2>12. \A z \in Pages : z # x => End(z) # End(x) /\ m_next'[End(z)] = m_next[End(z)]
    BY <2>5, <2>10, Spots
  <2>13. EndsWritten
    BY <2>5, <2>10, <2>11, <2>12, Spots DEF EndsWritten, NextWord
  <2>14. Enterable(y)' /\ \A z \in Pages : Spare(z)' => Spare(z) /\ z # y
    BY <2>1, <2>2, <2>3, <2>4, <2>5, <2>8, <2>9, <2>12, <2>13, Given
  <2>15. \A b \in Block : b[2] < EndSlot => (Clear(b)' <=> Clear(b))
    BY <2>2, <2>4, <2>13, EndsClear
  <2>16. \A z \in Pages : Blank(z) => Blank(z)' /\ z # x
    <3>1. ASSUME NEW z \in Pages, Blank(z) PROVE Blank(z)' /\ z # x
      <4>1. z # x
        BY <2>5, <2>7, <3>1, Owned DEF Blank, InPage
      <4> QED
        BY <2>12, <2>15, <3>1, <4>1 DEF Blank
    <3> QED
      BY <3>1
  <2>17. \A z : Enterable(z) => Enterable(z)'
    BY <2>3, <2>14, <2>16 DEF Enterable
  <2>18. \A z \in Pages : Gone(z) => Gone(z)'
    <3>1. \A z \in Pages : Clear(FirstBlock(z))' <=> Clear(FirstBlock(z))
      BY <2>15, Owned DEF InPage
    <3> QED
      BY <2>3, <3>1 DEF Gone
  <2>19. ASSUME m_tail \in Block PROVE TailPage(PageOf(m_tail))'
    <3>1. PICK t : t = PageOf(m_tail)
      OBVIOUS
    <3>2. TailPage(t) /\ t \in Pages
      BY <1>1, <2>19, <3>1, Spots DEF TailEnds
    <3>3. ~Spare(t)'
      BY <2>14, <3>2 DEF TailPage
    <3>4. \A b \in Block : PageOf(b) = t /\ m_tail[2] <= b[2] /\ b[2] < EndSlot /\ (b = m_tail => m_rest = 0)
             => Clear(b)'
      BY <2>15, <3>2 DEF TailPage
    <3>5. m_tail[2] > 0 => ~Clear(FirstBlock(t))'
      BY <2>15, <3>2, Owned DEF TailPage, InPage
    <3>6. m_tail[2] < EndSlot => m_next'[End(t)].to = NoBlock
      <4>1. m_tail[2] < EndSlot => t # x
        BY <2>3, <2>5, <3>1, Spots DEF Gone
      <4> QED
        BY <2>12, <3>2, <4>1 DEF TailPage
    <3>7. ASSUME ~(m_tail[2] < EndSlot), m_next'[m_tail].to # NoBlock
          PROVE  \E z \in Pages : m_next'[m_tail].to = FirstBlock(z) /\ Enterable(z)'
      <4>1. m_tail = End(t)
        BY <2>19, <3>1, <3>7, Spots
      <4>2. CASE t = x
        BY <2>5, <2>11, <2>14, <4>1, <4>2 DEF NextWord
      <4>3. CASE t # x
        <5>1. m_next'[m_tail] = m_next[m_tail]
          BY <2>12, <3>2, <4>1, <4>3
        <5> QED
          BY <2>17, <3>2, <3>7, <5>1 DEF TailPage
      <4> QED
        BY <4>2, <4>3
    <3>8. TailPage(t)'
      BY <2>3, <3>3, <3>4, <3>5, <3>6, <3>7 DEF TailPage
    <3> QED
      BY <2>3, <3>1, <3>8 DEF TailPage, Spare, Clear, Reserving, Creates, End, FirstBlock
  <2>20. TailEnds'
    BY <1>1, <2>3, <2>17, <2>19 DEF TailEnds
  <2>21. SparesBlank'
    <3>1. \A q \in Producers : Creates(q)' => Creates(q) /\ prod'[q] = prod[q]
      BY <2>2, <2>4 DEF Creates
    <3> QED
      BY <1>1, <2>3, <2>14, <2>16, <3>1 DEF SparesBlank
  <2>22. \A q \in Producers \ {p} : CreatorKnows(q)'
    <3>1. \A q \in Producers \ {p} : CreatorKnows(q) /\ prod'[q] = prod[q]
      BY <2>2 DEF WordsInv
    <3>2. \A q \in Producers : prod[q].tail \in Block => PageOf(prod[q].tail) \in Pages
      BY Spots
    <3> QED
      BY <2>3, <2>17, <2>18, <3>1, <3>2 DEF CreatorKnows
  <2>23. CreatorKnows(p)'
    <3>1. prod'[p].tail = m_tail \/ Gone(x)'
      BY <2>2, <2>5, <2>18
    <3>2. Enterable(prod[p].new_page)'
      <4>1. PICK z : z = prod'[p].new_page
        OBVIOUS
      <4>2. Enterable(z)'
        BY <2>2, <2>14, <4>1
      <4> QED
        BY <4>1, <4>2 DEF Enterable, Blank, Clear, Reserving, Spare, Creates, End
    <3>3. prod'[p].tail = m_tail \/ Gone(PageOf(prod[p].tail))'
      <4>1. x = PageOf(prod'[p].tail)
        BY <2>1, <2>2
      <4> QED
        BY <3>1, <4>1 DEF Gone, Clear, Reserving, FirstBlock
    <3> QED
      BY <2>2, <2>3, <2>5, <3>2, <3>3 DEF CreatorKnows
  <2> HIDE DEF Looping
  <2>24. \A q \in Producers : CreatorKnows(q)'
    BY <2>22, <2>23
  <2> QED
    BY <2>2, <2>3, <2>4, <2>13, <2>20, <2>21, <2>24, EndsKeepWords
<1> QED
  BY <1>2, <1>3

\* Every step of a producer.
LEMMA ProducerNextKeepsWords ==
    ASSUME IInv, WordsInv, UNCHANGED headVars, NEW p \in Producers, ProducerNext(p)
    PROVE  WordsInv'
<1>1. CASE TransactionStep(p)
  BY <1>1, FinishKeepsWords, EndPutKeepsWords DEF TransactionStep
<1>2. CASE NextPage(p)
  BY <1>2, LoopKeepsWords, CreatePageKeepsWords, LinkPageKeepsWords, DiscardKeepsWords, PageEntersKeepWords
  DEF NextPage
<1>3. CASE InitialPage(p)
  BY <1>3, InitPageKeepsWords, DiscardKeepsWords, PageEntersKeepWords DEF InitialPage
<1>4. CASE Reserve(p) \/ Settle(p) \/ HelpTail(p) \/ Pad(p) \/ SettlePad(p)
  BY <1>4, ReservationsKeepWords
<1>5. CASE StoreBlock(p) \/ StorePad(p) \/ HelpStore(p)
  BY <1>5, StoreBlockKeepsWords, HelpStoreKeepsWords
<1>6. CASE LoadTail(p) \/ PinHelped(p) \/ UnpinHelped(p) \/ RecheckHelped(p) \/ TooSlow(p)
  BY <1>6, LoopKeepsWords
<1>7. CASE Fill(p) \/ GiveUp(p) \/ UnpinScoped(p)
  BY <1>7, FinishKeepsWords
<1> QED
  BY <1>1, <1>2, <1>3, <1>4, <1>5, <1>6, <1>7 DEF ProducerNext, ProducerStep

\* At first every page is the allocator's, and blank.
LEMMA InitWords == Init => WordsInv
<1> SUFFICES ASSUME Init PROVE WordsInv
  OBVIOUS
<1>1. /\ m_next = [b \in Block |-> Zero] /\ pool = [x \in Pages |-> "zeroed"]
      /\ m_initial_page = NoPage /\ m_tail = InvalidBlock /\ m_rest = 0
      /\ \A p \in Producers : prod[p].pc = "idle" /\ prod[p].control = NoBlock
  BY DEF Init, BaseInit, TailInit, NewProducer
<1>2. \A c \in Consumers : cons[c].pc = "idle"
  BY DEF Init, HeadInit, NewConsume
<1>3. \A p \in Producers : ~Stores(p) /\ ~Creates(p) /\ ~Putting(p) /\ ~Saw(p) /\ StorerOK(p) /\ StoredOK(p)
         /\ PutterHas(p) /\ PutterFlags(p) /\ CreatorKnows(p)
  BY <1>1 DEF Stores, Creates, Putting, Saw, StorerOK, StoredOK, PutterHas, PutterFlags, CreatorKnows
<1>4. \A c \in Consumers : ~Takes(c) /\ TakerHas(c) /\ ConsumerKnows(c)
  BY <1>2 DEF Takes, At, TakerHas, ConsumerKnows
<1>5. \A b \in Block : Clear(b)
  BY <1>1, <1>3 DEF Clear, Reserving, Stores
<1>6. \A x \in Pages : Blank(x)
  BY <1>1, <1>5, Spots DEF Blank, Zero
<1>7. SparesBlank
  BY <1>3, <1>6 DEF SparesBlank
<1>8. TailEnds /\ TailPending /\ HelpersOK
  BY <1>1, <1>3, Addresses DEF TailEnds, TailPending, HelpersOK
<1>9. WordsLead /\ OwnersApart
  BY <1>1, <1>3, <1>4 DEF WordsLead, OwnersApart, Zero
<1> QED
  BY <1>3, <1>4, <1>7, <1>8, <1>9 DEF WordsInv

\* A stuttering step.
LEMMA StutterWords == WordsInv /\ UNCHANGED vars => WordsInv'
<1> SUFFICES ASSUME WordsInv, UNCHANGED vars PROVE WordsInv'
  OBVIOUS
<1>1. UNCHANGED <<m_next, pool, m_initial_page, cons, m_tail, m_rest, prod>>
  BY DEF vars, baseVars, headVars, tailVars
<1>2. /\ \A b : Clear(b)' <=> Clear(b)
      /\ \A x : Spare(x)' <=> Spare(x)
      /\ \A b, n : Pending(b, n)' <=> Pending(b, n)
  BY <1>1 DEF Clear, Reserving, Spare, Creates, Pending, InPage, ReservedEnd, PAt, NewTail
<1>3. /\ \A x : Blank(x)' <=> Blank(x)
      /\ \A x : Gone(x)' <=> Gone(x)
  BY <1>1, <1>2 DEF Blank, End, Gone, FirstBlock
<1>4. \A x : Enterable(x)' <=> Enterable(x)
  BY <1>1, <1>2, <1>3 DEF Enterable
<1>5. \A x : TailPage(x)' <=> TailPage(x)
  BY <1>1, <1>2, <1>4 DEF TailPage, End, FirstBlock
<1>6. SparesBlank'
  BY <1>1, <1>2, <1>3 DEF WordsInv, SparesBlank, Creates
<1>7. TailEnds'
  <2>1. PageOf(m_tail)' = PageOf(m_tail) /\ m_initial_page' = m_initial_page
    BY <1>1 DEF PageOf
  <2> QED
    BY <1>1, <1>4, <1>5, <2>1 DEF WordsInv, TailEnds, PageOf
<1>8. TailPending' /\ HelpersOK'
  BY <1>1 DEF WordsInv, TailPending, HelpersOK, Saw, Pending, InPage, Reserving, ReservedEnd, PAt, NewTail
<1>9. WordsLead' /\ OwnersApart'
  BY <1>1 DEF WordsInv, WordsLead, OwnersApart, Stores, Putting, Takes, At
<1>10. \A p \in Producers : StorerOK(p)' /\ StoredOK(p)' /\ PutterHas(p)' /\ PutterFlags(p)'
  BY <1>1 DEF WordsInv, StorerOK, StoredOK, PutterHas, PutterFlags, Stores, Putting, ReservedEnd, PAt, NewTail, InPage
<1>11. \A p \in Producers : CreatorKnows(p)'
  BY <1>1, <1>3, <1>4 DEF WordsInv, CreatorKnows
<1>12. \A c \in Consumers : TakerHas(c)' /\ ConsumerKnows(c)'
  BY <1>1 DEF WordsInv, TakerHas, ConsumerKnows, Takes, At, TakenWord, InPage
<1> QED
  BY <1>6, <1>7, <1>8, <1>9, <1>10, <1>11, <1>12 DEF WordsInv

\* Every step keeps the words.
LEMMA NextKeepsWords == IInv /\ WordsInv /\ [Next]_vars => WordsInv'
BY ConsumerKeepsWords, ProducerNextKeepsWords, StutterWords DEF Next

\* What helps a producer that is late.
LEMMA WordsReserved == WordsInv => ReservedOrHelped
BY DEF WordsInv, StorerOK, Stores, ReservedOrHelped

---------------------------------------------------------------------------
(* Where the reserved block without a word is *)

\* Once a block has its word it keeps one.
LEMMA WordsKept ==
    ASSUME IInv, WordsInv, Next
    PROVE  \A b \in Block : b[2] < EndSlot /\ m_next[b] # Zero => m_next'[b] # Zero
<1> SUFFICES ASSUME NEW b \in Block, b[2] < EndSlot, m_next[b] # Zero, m_next'[b] # m_next[b]
             PROVE  m_next'[b] # Zero
  OBVIOUS
<1>1. m_next \in [Block -> NextPtr] /\ Zero.flags = {} /\ Zero.to = NoBlock /\ NoBlock \notin Block
  BY Addresses DEF IInv, TypeOK, BaseTypeOK, Zero
<1>2. ASSUME NEW c \in Consumers, ConsumerNext(c) PROVE m_next'[b] # Zero
  <2>1. cons[c] \in Consume /\ ConsumerOK(c) /\ ConsumerKnows(c)
    BY Typed DEF WordsInv
  <2>2. CASE TryBusy(c)
    <3>1. m_next' = [m_next EXCEPT ![cons[c].control].flags = @ \cup {"busy"}]
      BY <2>2 DEF TryBusy
    <3>2. "busy" \in m_next'[b].flags
      BY <1>1, <3>1 DEF NextPtr
    <3> QED
      BY <1>1, <3>2
  <2>3. CASE ZeroControl(c)
    <3>1. cons[c].control[2] = EndSlot /\ m_next' = [m_next EXCEPT ![cons[c].control] = Zero]
      BY <2>1, <2>3 DEF ZeroControl, At, ConsumerKnows
    <3> QED
      BY <1>1, <3>1, Spots
  <2>4. CASE CommitConsume(c) \/ CancelConsume(c)
    <3>1. cons[c].next.to \in Block
      BY <2>1, <2>4 DEF CommitConsume, CancelConsume, At, ConsumerOK
    <3>2. m_next'[b].to = cons[c].next.to
      BY <1>1, <2>4 DEF CommitConsume, CancelConsume, NextWord
    <3> QED
      BY <1>1, <3>1, <3>2
  <2>5. CASE UNCHANGED m_next
    BY <2>5
  <2> QED
    BY <1>2, <2>2, <2>3, <2>4, <2>5 DEF ConsumerNext, ConsumerStep, Start, LoadHead, ReloadHead, LoadInitialPage,
       InitHead, PinHead, UnpinOld, LoadHeadNext, Return, AdvanceHead, FreeExternal, Memset, DeallocatePage,
       MoveNext, Reread, UnpinLeft, LoadNext, DestroyConsume, baseVars
<1>3. ASSUME NEW p \in Producers, ProducerNext(p) PROVE m_next'[b] # Zero
  <2>1. prod[p] \in Producer /\ ProducerOK(p) /\ CreatorKnows(p) /\ StorerOK(p) /\ PutterFlags(p)
    BY Typed DEF WordsInv
  <2>2. CASE StoreBlock(p) \/ StorePad(p)
    <3>1. ReservedEnd(p) \in Block
      BY <2>1, <2>2 DEF StoreBlock, StorePad, PAt, StorerOK, Stores
    <3>2. m_next'[b].to = ReservedEnd(p)
      BY <1>1, <2>2 DEF StoreBlock, StorePad, NextWord
    <3> QED
      BY <1>1, <3>1, <3>2
  <2>3. CASE HelpStore(p)
    <3>1. \/ m_next' = m_next
          \/ m_next' = [m_next EXCEPT ![prod[p].tail] = NextWord(NewTail(prod[p].tail, prod[p].rest), {"busy"})]
      BY <2>3 DEF HelpStore
    <3>2. m_next'[b] = NextWord(NewTail(prod[p].tail, prod[p].rest), {"busy"})
      BY <1>1, <3>1
    <3>3. "busy" \in m_next'[b].flags
      BY <3>2 DEF NextWord
    <3> QED
      BY <1>1, <3>3
  <2>4. CASE CommitPut(p) \/ CancelPut(p)
    <3>1. PICK f : EndPut(p, f, "ready") \/ EndPut(p, f, "cancelled")
      BY <2>4 DEF CommitPut, CancelPut
    <3>2. prod[p].next.to \in Block
      BY <2>1, <3>1 DEF EndPut, PAt, PutterFlags, Putting, ProducerOK
    <3>3. m_next' = [m_next EXCEPT ![prod[p].control] = NextWord(prod[p].next.to, f)]
      BY <3>1 DEF EndPut
    <3>4. m_next'[b].to = prod[p].next.to
      BY <1>1, <3>3 DEF NextWord
    <3> QED
      BY <1>1, <3>2, <3>4
  <2>5. CASE CreatePage(p) \/ DiscardPage(p) \/ DiscardInitial(p)
    <3>1. PICK x : m_next'[b] # m_next[b] => b = EndBlock(FirstBlock(x))
      BY <1>1, <2>5 DEF CreatePage, DiscardPage, DiscardInitial, DiscardCreatedPage
    <3> QED
      BY <3>1, Spots DEF EndBlock
  <2>6. CASE LinkPage(p)
    <3>1. prod[p].tail[2] = EndSlot
      BY <2>1, <2>6 DEF LinkPage, PAt, CreatorKnows
    <3> QED
      BY <1>1, <2>6, <3>1, Spots DEF LinkPage
  <2>7. CASE UNCHANGED m_next
    BY <2>7
  <2>8. TransactionStep(p) => CommitPut(p) \/ CancelPut(p) \/ UNCHANGED m_next
    BY DEF TransactionStep, StartPut, RawAllocate
  <2>9. NextPage(p) \/ InitialPage(p) => CreatePage(p) \/ DiscardPage(p) \/ DiscardInitial(p) \/ LinkPage(p) \/ UNCHANGED m_next
    BY DEF NextPage, InitialPage, PinEnd, RecheckTail, CreatePageFails, AdvanceTail, UnpinEnd, UnpinFailed,
           InitPage, InitTail, baseVars
  <2>10. UNCHANGED m_next \/ StoreBlock(p) \/ StorePad(p) \/ HelpStore(p) \/ TransactionStep(p) \/ NextPage(p) \/ InitialPage(p)
    BY <1>3 DEF ProducerNext, ProducerStep, LoadTail, Reserve, Settle, Fill, GiveUp, PinHelped, UnpinHelped,
       RecheckHelped, HelpTail, UnpinScoped, TooSlow, Pad, SettlePad, baseVars
  <2> QED
    BY <2>2, <2>3, <2>4, <2>5, <2>6, <2>7, <2>8, <2>9, <2>10
<1> QED
  BY <1>2, <1>3 DEF Next

\* A helper does not come to m_tail without a word, unless the compare-exchange
\* has failed without a cause.
LEMMA HelperWrites ==
    ASSUME IInv, WordsInv, ~SpuriousFailures, NEW p \in Producers, HelpStore(p)
    PROVE  m_next'[prod[p].tail] # Zero /\ UNCHANGED m_tail /\ prod'[p].tail = prod[p].tail
<1>1. /\ m_next \in [Block -> NextPtr] /\ prod \in [Producers -> Producer] /\ prod[p] \in Producer
      /\ Zero.flags = {}
  BY ProducerTyped DEF Zero
<1>2. Saw(p)
  BY DEF HelpStore, Helps, PAt, InProgress, Saw
<1>3. prod[p].tail \in Block
  BY <1>2 DEF WordsInv, HelpersOK, Pending, InPage
<1>4. ASSUME m_next[prod[p].tail] = Zero PROVE m_next'[prod[p].tail] # Zero
  <2>1. m_next' = [m_next EXCEPT ![prod[p].tail] = NextWord(NewTail(prod[p].tail, prod[p].rest), {"busy"})]
    BY <1>4 DEF HelpStore
  <2>2. m_next'[prod[p].tail].flags = {"busy"}
    BY <1>1, <1>3, <2>1 DEF NextWord
  <2> QED
    BY <1>1, <2>2
<1>5. ASSUME m_next[prod[p].tail] # Zero PROVE m_next'[prod[p].tail] # Zero
  BY <1>5 DEF HelpStore
<1>6. prod'[p].tail = prod[p].tail /\ UNCHANGED m_tail
  BY <1>1 DEF HelpStore, PGoto, Producer
<1> QED
  BY <1>4, <1>5, <1>6

\* Where a step leads that is not about a reservation.
LEMMA Elsewhere ==
    ASSUME IInv, NEW p \in Producers, ProducerNext(p), ~Reserve(p), ~Pad(p), ~HelpStore(p)
    PROVE  prod'[p].pc \notin {"store", "store_pad", "help_tail"}
<1>1. prod \in [Producers -> Producer] /\ prod[p] \in Producer
  BY ProducerTyped
<1>2. CASE CommitPut(p) \/ CancelPut(p) \/ GiveUp(p) \/ Fill(p)
  <2>1. \/ prod' = [prod EXCEPT ![p] = Done(p, "pending")]
        \/ prod' = [prod EXCEPT ![p] = [NewProducer EXCEPT !.puts = prod[p].puts]]
    BY <1>2 DEF CommitPut, CancelPut, EndPut, GiveUp, Fail, Fill
  <2>2. \/ prod'[p] = Done(p, "pending")
        \/ prod'[p] = [NewProducer EXCEPT !.puts = prod[p].puts]
    BY <1>1, <2>1
  <2> QED
    BY <1>1, <2>2 DEF Done, NewProducer, Producer
<1>3. CASE (\E size \in Sizes, g \in Guarantees : StartPut(p, size, g)) \/ (\E size \in Sizes : RawAllocate(p, size))
  <2>1. ASSUME NEW q, NEW i, NEW size, NEW f, q = [NewProducer EXCEPT !.puts = q.puts, !.guarantee = q.guarantee]
               \/ q = [prod[p] EXCEPT !.raws = q.raws],
               Allocate(p, q, i, size, f)
        PROVE  prod'[p].pc = "load_tail"
    <3> DEFINE s == IF External(size) THEN 1 ELSE size
               h == IF External(size) THEN f \cup {"external"} ELSE f
    <3>1. prod' = [prod EXCEPT ![p] = [q EXCEPT !.pc = "load_tail", !.size = s, !.flags = h]]
      BY <2>1 DEF Allocate
    <3> HIDE DEF s, h
    <3>2. prod'[p] = [q EXCEPT !.pc = "load_tail", !.size = s, !.flags = h]
      BY <1>1, <3>1
    <3> QED
      BY <1>1, <2>1, <3>2 DEF NewProducer, Producer
  <2> QED
    BY <1>3, <2>1 DEF StartPut, RawAllocate, NewProducer, Producer
<1>4. CASE NextPage(p)
  <2>1. CASE PinEnd(p) \/ RecheckTail(p) \/ CreatePageFails(p)
    BY <1>1, <2>1 DEF PinEnd, RecheckTail, CreatePageFails, PGoto, Producer
  <2>3. CASE CreatePage(p)
    <3>1. PICK x : prod' = [prod EXCEPT ![p].new_page = x, ![p].pc =
                              IF prod[p].tail = InvalidBlock THEN "init_page" ELSE "link_page"]
      BY <2>3 DEF CreatePage
    <3> QED
      BY <1>1, <3>1 DEF Producer
  <2>2. CASE LinkPage(p) \/ DiscardPage(p) \/ AdvanceTail(p) \/ UnpinEnd(p) \/ UnpinFailed(p)
    BY <1>1, <2>2 DEF LinkPage, DiscardPage, AdvanceTail, UnpinEnd, UnpinFailed, PGoto, Producer
  <2> QED
    BY <1>4, <2>1, <2>2, <2>3 DEF NextPage
<1>5. CASE InitialPage(p)
  BY <1>1, <1>5 DEF InitialPage, InitPage, DiscardInitial, InitTail, PGoto, Producer
<1>6. CASE LoadTail(p) \/ Settle(p) \/ PinHelped(p) \/ UnpinHelped(p) \/ RecheckHelped(p)
           \/ HelpTail(p) \/ UnpinScoped(p) \/ TooSlow(p) \/ SettlePad(p)
  BY <1>1, <1>6 DEF LoadTail, Settle, PinHelped, UnpinHelped, RecheckHelped, HelpTail, UnpinScoped, TooSlow, SettlePad,
     Retry, PGoto, PAt, Producer
<1>7. CASE StoreBlock(p) \/ StorePad(p)
  BY <1>1, <1>7 DEF StoreBlock, StorePad, PGoto, Producer
<1> QED
  BY <1>2, <1>3, <1>4, <1>5, <1>6, <1>7 DEF ProducerNext, ProducerStep, TransactionStep

\* The tail leaves a block that has its word, or the end of a page.
LEMMA TailLeaves ==
    ASSUME IInv, WordsInv, ReservedAtTail, ~SpuriousFailures, NEW p \in Producers, ProducerNext(p)
    PROVE  \/ UNCHANGED m_tail
           \/ UNCHANGED m_next /\ (~InPage(m_tail) \/ m_next[m_tail] # Zero)
<1>1. StoredOK(p) /\ CreatorKnows(p) /\ (PAt(p, "help_tail") => m_next[prod[p].tail] # Zero)
  BY DEF WordsInv, ReservedAtTail
<1>2. CASE Settle(p) \/ SettlePad(p) \/ HelpTail(p)
  BY <1>1, <1>2 DEF Settle, SettlePad, HelpTail, PAt, TailIs, StoredOK, baseVars
<1>3. CASE AdvanceTail(p)
  BY <1>1, <1>3, Spots DEF AdvanceTail, PAt, TailIs, CreatorKnows, InPage, baseVars
<1>4. CASE InitTail(p)
  BY <1>4, TailBlocks DEF InitTail, TailIs, InPage, baseVars
<1>5. CASE UNCHANGED m_tail
  BY <1>5
<1>6. TransactionStep(p) => UNCHANGED m_tail
  BY DEF TransactionStep, StartPut, RawAllocate, CommitPut, CancelPut, EndPut
<1>7. NextPage(p) \/ InitialPage(p) => UNCHANGED m_tail \/ AdvanceTail(p) \/ InitTail(p)
  BY DEF NextPage, InitialPage, PinEnd, RecheckTail, CreatePage, CreatePageFails, LinkPage, DiscardPage, UnpinEnd,
     UnpinFailed, InitPage, DiscardInitial
<1>8. ProducerStep(p) => NextPage(p) \/ InitialPage(p) \/ Settle(p) \/ SettlePad(p) \/ HelpTail(p) \/ UNCHANGED m_tail
  BY DEF ProducerStep, LoadTail, Reserve, StoreBlock, Fill, GiveUp, PinHelped, UnpinHelped,
       RecheckHelped, HelpStore, UnpinScoped, TooSlow, Pad, StorePad
<1> QED
  BY <1>2, <1>3, <1>4, <1>5, <1>6, <1>7, <1>8 DEF ProducerNext

\* A producer changes its own record only.
LEMMA OneProducer ==
    ASSUME prod \in [Producers -> Producer], NEW p \in Producers, ProducerNext(p)
    PROVE  \A q \in Producers \ {p} : prod'[q] = prod[q]
<1>1. CASE TransactionStep(p)
  BY <1>1 DEF TransactionStep, StartPut, RawAllocate, Allocate, CommitPut, CancelPut, EndPut
<1>2. CASE NextPage(p)
  BY <1>2 DEF NextPage, PinEnd, RecheckTail, CreatePage, CreatePageFails, LinkPage, DiscardPage, AdvanceTail,
     UnpinEnd, UnpinFailed, PGoto
<1>3. CASE InitialPage(p)
  BY <1>3 DEF InitialPage, InitPage, DiscardInitial, InitTail, PGoto
<1>4. CASE LoadTail(p) \/ Reserve(p) \/ StoreBlock(p) \/ Settle(p) \/ Fill(p) \/ GiveUp(p)
  BY <1>4 DEF LoadTail, Reserve, StoreBlock, Settle, Fill, GiveUp, Fail, Retry, PGoto
<1>5. CASE \/ PinHelped(p) \/ UnpinHelped(p) \/ RecheckHelped(p) \/ HelpStore(p) \/ HelpTail(p)
           \/ UnpinScoped(p) \/ TooSlow(p) \/ Pad(p) \/ StorePad(p) \/ SettlePad(p)
  BY <1>5 DEF PinHelped, UnpinHelped, RecheckHelped, HelpStore, HelpTail, UnpinScoped, TooSlow, Pad, StorePad,
     SettlePad, Retry, PGoto
<1> QED
  BY <1>1, <1>2, <1>3, <1>4, <1>5 DEF ProducerNext, ProducerStep

\* What is reserved is at the tail.
LEMMA ReservesAtTail ==
    ASSUME IInv, WordsInv, NEW p \in Producers, Reserve(p) \/ Pad(p)
    PROVE  UNCHANGED m_tail /\ ~PAt(p, "help_tail")' /\ (Stores(p)' => prod'[p].tail = m_tail)
<1>1. prod \in [Producers -> Producer] /\ prod[p] \in Producer
  BY ProducerTyped
<1>2. UNCHANGED m_tail
  BY DEF Reserve, Pad
<1>3. CASE Retry(p, m_tail, m_rest)
  BY <1>1, <1>2, <1>3 DEF Retry, PAt, Stores, Producer
<1>4. CASE PGoto(p, "give_up")
  BY <1>1, <1>2, <1>4 DEF PGoto, PAt, Stores, Producer
<1>5. CASE TailIs(prod[p].tail, 0) /\ PGoto(p, "store")
  BY <1>1, <1>2, <1>5 DEF PGoto, PAt, TailIs, Stores, Producer
<1>6. CASE /\ TailIs(prod[p].tail, 0)
           /\ prod' = [prod EXCEPT ![p].pc = "store_pad", ![p].rest = PadUnits(m_tail)]
  BY <1>1, <1>2, <1>6 DEF PAt, TailIs, Stores, Producer
<1> QED
  BY <1>3, <1>4, <1>5, <1>6 DEF Reserve, Pad

\* A block waits for its word at the tail: every step keeps it so.
LEMMA NextKeepsReservedAtTail ==
    ASSUME IInv, WordsInv, ReservedAtTail, [Next]_vars
    PROVE  ReservedAtTail'
<1> SUFFICES ASSUME ~SpuriousFailures
             PROVE  /\ \A p \in Producers : PAt(p, "help_tail")' => m_next'[prod'[p].tail] # Zero
                    /\ \A p \in Producers : Stores(p)' /\ m_next'[prod'[p].tail] = Zero => prod'[p].tail = m_tail'
  BY DEF ReservedAtTail
<1>1. /\ \A p \in Producers : PAt(p, "help_tail") => m_next[prod[p].tail] # Zero /\ InPage(prod[p].tail)
      /\ \A p \in Producers : Stores(p) =>
            InPage(prod[p].tail) /\ (m_next[prod[p].tail] = Zero => prod[p].tail = m_tail)
  BY DEF ReservedAtTail, WordsInv, HelpersOK, Saw, Pending, StorerOK, PAt
<1>2. CASE UNCHANGED <<m_tail, prod>> /\ \A b \in Block : b[2] < EndSlot /\ m_next[b] # Zero => m_next'[b] # Zero
  BY <1>1, <1>2 DEF PAt, Stores, InPage
<1>3. ASSUME NEW p \in Producers, ProducerNext(p), Next
      PROVE  /\ \A q \in Producers : PAt(q, "help_tail")' => m_next'[prod'[q].tail] # Zero
             /\ \A q \in Producers : Stores(q)' /\ m_next'[prod'[q].tail] = Zero => prod'[q].tail = m_tail'
  <2>1. \A q \in Producers \ {p} : prod'[q] = prod[q]
    BY <1>3, OneProducer, ProducerTyped
  <2>2. \A b \in Block : b[2] < EndSlot /\ m_next[b] # Zero => m_next'[b] # Zero
    BY <1>3, WordsKept
  <2>3. \/ UNCHANGED m_tail
        \/ UNCHANGED m_next /\ (~InPage(m_tail) \/ m_next[m_tail] # Zero)
    BY <1>3, TailLeaves
  <2>4. ASSUME NEW q \in Producers \ {p}
        PROVE  /\ PAt(q, "help_tail")' => m_next'[prod'[q].tail] # Zero
               /\ Stores(q)' /\ m_next'[prod'[q].tail] = Zero => prod'[q].tail = m_tail'
    BY <1>1, <2>1, <2>2, <2>3 DEF PAt, Stores, InPage
  <2>5. /\ PAt(p, "help_tail")' => m_next'[prod'[p].tail] # Zero
        /\ Stores(p)' /\ m_next'[prod'[p].tail] = Zero => prod'[p].tail = m_tail'
    <3>1. CASE Reserve(p) \/ Pad(p)
      BY <3>1, ReservesAtTail
    <3>2. CASE HelpStore(p)
      BY <3>2, HelperWrites
    <3>3. CASE ~Reserve(p) /\ ~Pad(p) /\ ~HelpStore(p)
      BY <1>3, <3>3, Elsewhere DEF PAt, Stores
    <3> QED
      BY <3>1, <3>2, <3>3
  <2> QED
    BY <2>4, <2>5
<1>4. CASE UNCHANGED vars
  BY <1>2, <1>4 DEF vars, baseVars, tailVars
<1>5. ASSUME NEW c \in Consumers, ConsumerNext(c), UNCHANGED tailVars, Next
      PROVE  UNCHANGED <<m_tail, prod>> /\ \A b \in Block : b[2] < EndSlot /\ m_next[b] # Zero => m_next'[b] # Zero
  BY <1>5, WordsKept DEF tailVars
<1> QED
  BY <1>2, <1>3, <1>4, <1>5 DEF Next

\* At first no block is reserved.
LEMMA InitReservedAtTail == Init => ReservedAtTail
BY DEF Init, TailInit, NewProducer, ReservedAtTail, PAt, Stores

\* Only a reserved block without a word ends what has been written before the tail.
LEMMA AtTailNotTruncated == WordsInv /\ ReservedAtTail /\ ~SpuriousFailures => NotTruncated
<1> SUFFICES ASSUME WordsInv, ReservedAtTail, ~SpuriousFailures,
                    NEW b \in Chain, IsEnd(m_next[b]), After(b) # NoBlock
             PROVE  b = m_tail
  BY DEF NotTruncated
<1>1. PICK p \in Reserving(b) : TRUE
  BY DEF After
<1>2. p \in Producers /\ Stores(p) /\ prod[p].tail = b
  BY <1>1 DEF Reserving, Stores
<1>3. b \in Block /\ m_next[b] \in {Zero, NextWord(ReservedEnd(p), {"busy"})} /\ ReservedEnd(p) \in Block
  BY <1>2 DEF WordsInv, StorerOK, InPage
<1>4. m_next[b] = Zero
  BY <1>3, Addresses DEF IsEnd, NextWord
<1> QED
  BY <1>2, <1>4 DEF ReservedAtTail

---------------------------------------------------------------------------
(* The words of the queue, in every reachable state *)

\* Each control word is written by those who may, and where the tail goes the
\* blocks are clear.
THEOREM WordsInvariance == Spec => []WordsInv
<1>1. Init => WordsInv
  BY InitWords
<1>2. IInv /\ WordsInv /\ [Next]_vars => WordsInv'
  BY NextKeepsWords
<1> QED
  BY <1>1, <1>2, Invariance, PTL DEF Spec

\* A producer with a reservation in progress finds its block zeroed, or as a
\* producer that helped it has left it, whatever the number of threads and
\* even if the weak compare-exchanges fail spuriously.
THEOREM FindsReserved == Spec => []ReservedOrHelped
<1>1. WordsInv => ReservedOrHelped
  BY WordsReserved
<1> QED
  BY <1>1, WordsInvariance, PTL

\* The tail never moves past a block that has no control word, if no weak
\* compare-exchange fails without a cause.
THEOREM NeverTruncated == ~SpuriousFailures /\ Spec => []NotTruncated
<1>1. Init => ReservedAtTail
  BY InitReservedAtTail
<1>2. IInv /\ WordsInv /\ ReservedAtTail /\ [Next]_vars => ReservedAtTail'
  BY NextKeepsReservedAtTail
<1>3. Spec => []ReservedAtTail
  BY <1>1, <1>2, Invariance, WordsInvariance, PTL DEF Spec
<1>4. ASSUME ~SpuriousFailures PROVE Spec => []NotTruncated
  <2>1. WordsInv /\ ReservedAtTail => NotTruncated
    BY <1>4, AtTailNotTruncated
  <2> QED
    BY <1>3, <2>1, WordsInvariance, PTL
<1> QED
  BY <1>4
==========================================================================
